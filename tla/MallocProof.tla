---------------------------- MODULE MallocProof ----------------------------
(***************************************************************************)
(* Proofs about Malloc, for any sizes of a header, of the heap and of what *)
(* the program asks for.                                                   *)
(***************************************************************************)
EXTENDS Malloc, FiniteSetTheorems, WellFoundedInduction, TLAPS

-----------------------------------------------------------------------------
(***************************************************************************)
(* The invariant, on the headers m of a heap that ends at top.  A block is *)
(* free if it is linked into the ring; malloc clears the link.  Partitioned *)
(* is not inductive: what malloc and free do is right only because the     *)
(* ring is in the order of the addresses, with base, the lowest, in it.    *)
(***************************************************************************)

Ring(m) == {a \in DOMAIN m : m[a].ptr # NULL}
Busy(m) == {a \in DOMAIN m : m[a].ptr = NULL}
Blocks(m) == DOMAIN m \ {base}

Shape(m, top) ==
  /\ m \in [DOMAIN m -> [ptr : Int, size : Nat]]
  /\ base \in DOMAIN m /\ m[base].size = 0
  /\ top \in end .. LIMIT
  /\ \A a \in Blocks(m) : a \in end .. top - 1 /\ m[a].size >= 1

Tiled(m, top) ==
  /\ \A a \in Blocks(m) : a + m[a].size <= top
  /\ \A a, b \in Blocks(m) : a < b => a + m[a].size <= b
  /\ \A u \in end .. top - 1 : \E a \in Blocks(m) : a <= u /\ u < a + m[a].size

\* From a the ring goes to the next block by address, from the last to base.
Follows(m, a) ==
  IF a < m[a].ptr THEN \A c \in Ring(m) : c <= a \/ c >= m[a].ptr
                  ELSE m[a].ptr = base /\ \A c \in Ring(m) : c <= a

Linked(m) ==
  /\ base \in Ring(m)
  /\ \A a \in Ring(m) : m[a].ptr \in Ring(m) /\ Follows(m, a)

Apart(m) == \A a \in Ring(m) \ {base} : a + m[a].size \notin Ring(m)

Good(m, top) == Shape(m, top) /\ Tiled(m, top) /\ Linked(m) /\ Apart(m)

\* The blocks that are not free are those that the program holds.
Given(m, s) ==
  /\ DOMAIN s = {a + 1 : a \in Busy(m)}
  /\ \A ap \in DOMAIN s : s[ap] \in Nat /\ m[ap - 1].size = nunits(s[ap])

HInv ==
  /\ Good(hdr, old_brk)
  /\ freep = NULL => hdr = [a \in {base} |-> [ptr |-> base, size |-> 0]]
  /\ freep # NULL => freep \in Ring(hdr)
  /\ Given(hdr, held)

-----------------------------------------------------------------------------
(***************************************************************************)
(* Least and greatest elements.                                            *)
(***************************************************************************)

LEMMA LeastNatural ==
  ASSUME NEW S \in SUBSET Nat, S # {}
  PROVE  \E x \in S : \A y \in S : x <= y
<1> DEFINE Less == {ss \in Nat \X Nat : ss[1] < ss[2]}
<1>1. IsWellFoundedOn(Less, Nat)
  BY NatLessThanWellFounded, Zenon DEF OpToRel
<1> HIDE DEF Less
<1>2. PICK x \in S : \A y \in S : ~ (<<y, x>> \in Less)
  BY <1>1, WFMin
<1>3. \A y \in S : x <= y
  <2> SUFFICES ASSUME NEW y \in S, y < x PROVE FALSE
    OBVIOUS
  <2>1. <<y, x>> \in Nat \X Nat
    OBVIOUS
  <2>2. <<y, x>>[1] < <<y, x>>[2]
    OBVIOUS
  <2>3. <<y, x>> \in Less
    BY <2>1, <2>2, Zenon DEF Less
  <2> QED
    BY <1>2, <2>3
<1> QED
  BY <1>3

LEMMA MinOf ==
  ASSUME NEW S \in SUBSET Nat, S # {}
  PROVE  Min(S) \in S /\ \A y \in S : Min(S) <= y
  BY LeastNatural DEF Min

\* What is bounded has a greatest element.
LEMMA Greatest ==
  ASSUME NEW S \in SUBSET Nat, S # {}, NEW k \in Nat, \A x \in S : x <= k
  PROVE  \E x \in S : \A y \in S : y <= x
<1> DEFINE T == {k - x : x \in S}
<1>1. T \in SUBSET Nat
  OBVIOUS
<1>2. T # {}
  <2>1. PICK x \in S : TRUE
    OBVIOUS
  <2>2. k - x \in T
    OBVIOUS
  <2> QED
    BY <2>2
<1>3. PICK d \in T : \A e \in T : d <= e
  BY <1>1, <1>2, LeastNatural
<1>4. PICK x \in S : d = k - x
  OBVIOUS
<1>5. \A y \in S : y <= x
  <2> SUFFICES ASSUME NEW y \in S PROVE y <= x
    OBVIOUS
  <2>1. k - y \in T
    OBVIOUS
  <2> QED
    BY <1>3, <1>4, <2>1
<1> QED
  BY <1>5

-----------------------------------------------------------------------------
(***************************************************************************)
(* The walk around the ring.                                               *)
(***************************************************************************)

\* The part of the invariant that the walk depends on.
Circle(h) ==
  /\ Ring(h.hdr) \subseteq 0 .. LIMIT - 1
  /\ Linked(h.hdr)
  /\ h.freep \in Ring(h.hdr)

LEMMA RingRange ==
  ASSUME NEW m, NEW top, Shape(m, top)
  PROVE  Ring(m) \subseteq 0 .. LIMIT - 1
  BY MallocAssumption DEF Shape, Ring, Blocks, base

\* The recursive definition has the value that one expects.
LEMMA WalkSteps ==
  ASSUME NEW h
  PROVE  /\ walk(h)[0] = h.freep
         /\ \A n \in 1 .. LIMIT : walk(h)[n] = h.hdr[walk(h)[n - 1]].ptr
<1> DEFINE Upto(w, k) == /\ w[0] = h.freep
                         /\ \A n \in 1 .. k : w[n] = h.hdr[w[n - 1]].ptr
           bad == {k \in 0 .. LIMIT : ~ \E w : Upto(w, k)}
           fct(w) == [n \in 0 .. LIMIT |->
                        IF n = 0 THEN h.freep ELSE h.hdr[w[n - 1]].ptr]
<1>1. \A k \in 0 .. LIMIT : \E w : Upto(w, k)
  <2> SUFFICES ASSUME bad # {} PROVE FALSE
    OBVIOUS
  <2>0. bad \in SUBSET Nat
    BY MallocAssumption
  <2>1. PICK k \in bad : \A j \in bad : k <= j
    <3> HIDE DEF bad
    <3> QED
      BY <2>0, LeastNatural
  <2>2. k # 0
    <3>1. Upto([n \in {0} |-> h.freep], 0)
      OBVIOUS
    <3> QED
      BY <3>1
  <2>3. k - 1 \in 0 .. LIMIT /\ k - 1 \notin bad
    <3>1. k \in 0 .. LIMIT /\ k - 1 \in 0 .. LIMIT
      BY <2>2, MallocAssumption
    <3>2. ~ (k <= k - 1)
      BY <3>1, MallocAssumption
    <3> QED
      BY <2>1, <3>1, <3>2
  <2>4. PICK w : Upto(w, k - 1)
    BY <2>3
  <2> DEFINE v == [n \in 0 .. k |-> IF n = k THEN h.hdr[w[k - 1]].ptr ELSE w[n]]
  <2>5. Upto(v, k)
    BY <2>2, <2>3, <2>4
  <2> QED
    BY <2>5
<1>2. PICK w : Upto(w, LIMIT)
  BY <1>1, MallocAssumption
<1> DEFINE v == [n \in 0 .. LIMIT |-> w[n]]
<1>3. v = fct(v)
  BY <1>2, MallocAssumption
<1>4. walk(h) = CHOOSE u : u = fct(u)
  BY DEF walk
<1>5. walk(h) = fct(walk(h))
  BY <1>3, <1>4
<1> QED
  BY <1>5, MallocAssumption

LEMMA WalkIn ==
  ASSUME NEW h, Circle(h)
  PROVE  \A n \in 0 .. LIMIT : walk(h)[n] \in Ring(h.hdr)
<1> DEFINE bad == {n \in 0 .. LIMIT : walk(h)[n] \notin Ring(h.hdr)}
<1> SUFFICES ASSUME bad # {} PROVE FALSE
  OBVIOUS
<1>0. bad \in SUBSET Nat
  BY MallocAssumption
<1>1. PICK n \in bad : \A j \in bad : n <= j
  <2> HIDE DEF bad
  <2> QED
    BY <1>0, LeastNatural
<1>2. n # 0
  BY WalkSteps DEF Circle
<1>3. n - 1 \in 0 .. LIMIT /\ n - 1 \notin bad /\ n \in 1 .. LIMIT
  BY <1>1, <1>2, MallocAssumption
<1> QED
  BY <1>3, WalkSteps DEF Circle, Linked

\* Whoever follows the ring comes everywhere.
LEMMA ClosedIsAll ==
  ASSUME NEW m, Linked(m), Ring(m) \subseteq 0 .. LIMIT - 1,
         NEW V \in SUBSET Ring(m), V # {},
         \A a \in V : m[a].ptr \in V
  PROVE  V = Ring(m)
<1>1. base \in V
  <2>1. V \in SUBSET Nat /\ LIMIT \in Nat /\ \A x \in V : x <= LIMIT
    BY MallocAssumption
  <2>2. PICK a \in V : \A y \in V : y <= a
    BY <2>1, Greatest
  <2> QED
    BY <2>1, <2>2 DEF Linked, Follows
<1> SUFFICES ASSUME NEW f \in Ring(m), f \notin V PROVE FALSE
  OBVIOUS
<1> DEFINE below == {c \in V : c < f}
<1>2. base \in below
  BY <1>1 DEF base
<1>3. below \in SUBSET Nat /\ f \in Nat /\ \A x \in below : x <= f
  BY MallocAssumption
<1>4. PICK a \in below : \A y \in below : y <= a
  <2> HIDE DEF below
  <2> QED
    BY <1>2, <1>3, Greatest
<1>5. m[a].ptr \in V /\ m[a].ptr # f /\ Follows(m, a)
  BY DEF Linked
<1> QED
  BY <1>4, <1>5, MallocAssumption DEF Follows

\* As soon as the walk comes to a place a second time it has been everywhere.
LEMMA WalkLoop ==
  ASSUME NEW h, Circle(h), NEW i \in 0 .. LIMIT, NEW j \in 0 .. LIMIT,
         i < j, walk(h)[i] = walk(h)[j]
  PROVE  {walk(h)[n] : n \in i .. j - 1} = Ring(h.hdr)
<1> DEFINE V == {walk(h)[n] : n \in i .. j - 1}
<1>1. V \in SUBSET Ring(h.hdr)
  BY WalkIn, MallocAssumption
<1>2. walk(h)[i] \in V
  BY MallocAssumption
<1>3. \A a \in V : h.hdr[a].ptr \in V
  <2> SUFFICES ASSUME NEW n \in i .. j - 1 PROVE h.hdr[walk(h)[n]].ptr \in V
    OBVIOUS
  <2>1. n + 1 \in 1 .. LIMIT /\ (n + 1) - 1 = n
    BY MallocAssumption
  <2>2. walk(h)[n + 1] = h.hdr[walk(h)[n]].ptr
    BY <2>1, WalkSteps
  <2>3. CASE n + 1 = j
    BY <1>2, <2>2, <2>3
  <2>4. CASE n + 1 # j
    <3>1. n + 1 \in i .. j - 1
      BY <2>4, MallocAssumption
    <3> QED
      BY <2>2, <3>1
  <2> QED
    BY <2>3, <2>4
<1> HIDE DEF V
<1>4. V = Ring(h.hdr)
  BY <1>1, <1>2, <1>3, ClosedIsAll DEF Circle
<1> QED
  BY <1>4 DEF V

\* The ring has at most LIMIT places, so the walk does come back.
LEMMA WalkRepeats ==
  ASSUME NEW h, Circle(h)
  PROVE  \E i, j \in 0 .. LIMIT : i < j /\ walk(h)[i] = walk(h)[j]
<1> DEFINE S == 0 .. LIMIT
           T == 0 .. LIMIT - 1
           f == [n \in S |-> walk(h)[n]]
<1>1. f \in [S -> T]
  BY WalkIn DEF Circle
<1>2. IsFiniteSet(S) /\ Cardinality(S) = LIMIT + 1
  BY FS_Interval, MallocAssumption
<1>3. IsFiniteSet(T) /\ Cardinality(T) = LIMIT
  BY FS_Interval, MallocAssumption
<1>4. Cardinality(T) < Cardinality(S)
  BY <1>2, <1>3, MallocAssumption
<1>5. \E x, y \in S : x # y /\ f[x] = f[y]
  <2> HIDE DEF S, T, f
  <2> QED
    BY <1>1, <1>2, <1>3, <1>4, FS_PigeonHole
<1> QED
  BY <1>5, MallocAssumption

\* The search from freep ends at freep and has then seen every block.
LEMMA RoundSeesAll ==
  ASSUME NEW h, Circle(h)
  PROVE  /\ turn(h) \subseteq 1 .. LIMIT
         /\ {walk(h)[n] : n \in turn(h)} = Ring(h.hdr)
         /\ {walk(h)[n] : n \in 0 .. LIMIT} = Ring(h.hdr)
<1> DEFINE back == {n \in 1 .. LIMIT : walk(h)[n] = h.freep}
           N == Min(back)
<1>1. PICK i \in 0 .. LIMIT : \E j \in 0 .. LIMIT : i < j /\ walk(h)[i] = walk(h)[j]
  BY WalkRepeats
<1>2. PICK j \in 0 .. LIMIT : i < j /\ walk(h)[i] = walk(h)[j]
  BY <1>1
<1>3. {walk(h)[n] : n \in i .. j - 1} = Ring(h.hdr)
  BY <1>2, WalkLoop
<1>4. PICK k \in i .. j - 1 : walk(h)[k] = h.freep
  BY <1>3 DEF Circle
<1>5. back # {}
  <2>1. CASE k # 0
    <3>1. k \in 1 .. LIMIT
      BY <2>1, MallocAssumption
    <3> QED
      BY <1>4, <3>1
  <2>2. CASE k = 0
    <3>1. i = 0 /\ j \in 1 .. LIMIT
      BY <1>2, <2>2, MallocAssumption
    <3>2. walk(h)[j] = h.freep
      BY <1>2, <1>4, <2>2, <3>1
    <3> QED
      BY <3>1, <3>2
  <2> QED
    BY <2>1, <2>2
<1>6. back \in SUBSET Nat
  BY MallocAssumption
<1>7. N \in back /\ turn(h) = 1 .. N
  <2>1. turn(h) = 1 .. N
    BY DEF turn
  <2> HIDE DEF back
  <2> QED
    BY <1>5, <1>6, <2>1, MinOf
<1> HIDE DEF N
<1>8. N \in 1 .. LIMIT /\ walk(h)[N] = walk(h)[0]
  BY <1>7, WalkSteps
<1>9. {walk(h)[n] : n \in 0 .. N - 1} = Ring(h.hdr)
  <2>1. 0 \in 0 .. LIMIT /\ N \in 0 .. LIMIT /\ 0 < N
    BY <1>8, MallocAssumption
  <2> QED
    BY <1>8, <2>1, WalkLoop
<1>10. {walk(h)[n] : n \in 1 .. N} = Ring(h.hdr)
  <2>1. \A n \in 1 .. N : walk(h)[n] \in Ring(h.hdr)
    BY <1>8, WalkIn, MallocAssumption
  <2>2. ASSUME NEW f \in Ring(h.hdr) PROVE \E n \in 1 .. N : walk(h)[n] = f
    <3>1. PICK n \in 0 .. N - 1 : walk(h)[n] = f
      BY <1>9
    <3>2. CASE n = 0
      BY <1>8, <3>1, <3>2
    <3>3. CASE n # 0
      <4>1. n \in 1 .. N
        BY <1>8, <3>3
      <4> QED
        BY <3>1, <4>1
    <3> QED
      BY <3>2, <3>3
  <2> QED
    BY <2>1, <2>2
<1>11. {walk(h)[n] : n \in 0 .. LIMIT} = Ring(h.hdr)
  <2>1. \A n \in 0 .. LIMIT : walk(h)[n] \in Ring(h.hdr)
    BY WalkIn
  <2>2. ASSUME NEW f \in Ring(h.hdr) PROVE \E n \in 0 .. LIMIT : walk(h)[n] = f
    <3>1. PICK n \in 1 .. N : walk(h)[n] = f
      BY <1>10
    <3>2. n \in 0 .. LIMIT
      BY <1>8, MallocAssumption
    <3> QED
      BY <3>1, <3>2
  <2> QED
    BY <2>1, <2>2
<1>12. turn(h) \subseteq 1 .. LIMIT
  BY <1>7, <1>8, MallocAssumption
<1> QED
  BY <1>7, <1>10, <1>11, <1>12

\* The loop of free ends, at the last free block before bp.
LEMMA PredecessorIs ==
  ASSUME NEW h, Circle(h), NEW bp \in Nat \ {0}, bp \notin Ring(h.hdr)
  PROVE  LET p == predecessor(h, bp)
         IN  /\ p \in Ring(h.hdr) /\ p < bp
             /\ h.hdr[p].ptr = base \/ bp < h.hdr[p].ptr
             /\ \A c \in Ring(h.hdr) : c <= p \/ c > bp
<1> DEFINE R == Ring(h.hdr)
           ends == {n \in 0 .. LIMIT :
                      belongs(bp, walk(h)[n], h.hdr[walk(h)[n]].ptr)}
           below == {c \in R : c < bp}
<1>1. R \subseteq Nat /\ base \in R
  BY MallocAssumption DEF Circle, Linked
<1>2. PICK q \in below : \A y \in below : y <= q
  <2>1. below \in SUBSET Nat /\ base \in below /\ \A x \in below : x <= bp
    BY <1>1 DEF base
  <2> HIDE DEF below
  <2> QED
    BY <2>1, Greatest
<1>3. h.hdr[q].ptr \in R /\ Follows(h.hdr, q)
  BY DEF Circle, Linked
<1>4. belongs(bp, q, h.hdr[q].ptr)
  BY <1>1, <1>2, <1>3 DEF belongs, Follows, base
<1>5. PICK n \in 0 .. LIMIT : walk(h)[n] = q
  BY RoundSeesAll
<1>6. ends # {} /\ ends \in SUBSET Nat
  BY <1>4, <1>5, MallocAssumption
<1>7. Min(ends) \in ends
  <2> HIDE DEF ends
  <2> QED
    BY <1>6, MinOf
<1> DEFINE p == walk(h)[Min(ends)]
<1>8. p = predecessor(h, bp)
  BY DEF predecessor
<1>9. p \in R /\ belongs(bp, p, h.hdr[p].ptr)
  BY <1>7, WalkIn
<1> HIDE DEF p
<1>10. h.hdr[p].ptr \in R /\ Follows(h.hdr, p)
  BY <1>9 DEF Circle, Linked
<1>11. /\ p < bp
       /\ h.hdr[p].ptr = base \/ bp < h.hdr[p].ptr
       /\ \A c \in R : c <= p \/ c > bp
  BY <1>1, <1>9, <1>10 DEF belongs, Follows, base
<1> QED
  BY <1>8, <1>9, <1>11

-----------------------------------------------------------------------------
(***************************************************************************)
(* free: a block is linked into the ring, and then merged with the blocks  *)
(* beside it.                                                              *)
(***************************************************************************)

link(m, p, bp) == [m EXCEPT ![p].ptr = bp, ![bp].ptr = m[p].ptr]

merge(m, a) ==
  LET b == m[a].ptr
  IN  drop([m EXCEPT ![a] = [ptr |-> m[b].ptr, size |-> m[a].size + m[b].size]], b)

\* The free blocks with a free block behind them.
Touching(m) == {a \in Ring(m) \ {base} : a + m[a].size \in Ring(m)}

Sound(m, top) == Shape(m, top) /\ Tiled(m, top) /\ Linked(m)

LEMMA GoodIsSound ==
  ASSUME NEW m, NEW top
  PROVE  Good(m, top) <=> Sound(m, top) /\ Touching(m) = {}
  BY DEF Good, Sound, Apart, Touching

\* The types of addresses, links and sizes.
Typed(m, top) ==
  /\ DOMAIN m \subseteq Nat /\ Ring(m) \subseteq DOMAIN m /\ top \in Nat
  /\ \A a \in DOMAIN m : m[a].ptr \in Int /\ m[a].size \in Nat
  /\ \A a \in Blocks(m) : a \in Nat /\ a >= 1 /\ a < top /\ m[a].size >= 1

LEMMA Addresses ==
  ASSUME NEW m, NEW top, Shape(m, top)
  PROVE  Typed(m, top)
<1>1. top \in Nat
  BY MallocAssumption DEF Shape
<1>2. \A a \in Blocks(m) : a \in Nat /\ a >= 1 /\ a < top /\ m[a].size >= 1
  BY <1>1, MallocAssumption DEF Shape
<1>3. \A a \in DOMAIN m : m[a] \in [ptr : Int, size : Nat]
  BY DEF Shape
<1>4. DOMAIN m \subseteq Nat
  BY <1>2 DEF Blocks, base
<1> QED
  BY <1>1, <1>2, <1>3, <1>4 DEF Typed, Ring

LEMMA SameSizes ==
  ASSUME NEW m, NEW r, NEW top, Shape(m, top), Tiled(m, top),
         r \in [DOMAIN m -> [ptr : Int, size : Nat]],
         \A a \in DOMAIN m : r[a].size = m[a].size
  PROVE  Shape(r, top) /\ Tiled(r, top)
<1>1. DOMAIN r = DOMAIN m /\ Blocks(r) = Blocks(m)
  BY DEF Blocks
<1>2. Shape(r, top)
  BY <1>1 DEF Shape, Blocks
<1>3. Tiled(r, top)
  BY <1>1 DEF Tiled, Blocks
<1> QED
  BY <1>2, <1>3

\* Behind a free block that touches another one comes that one in the ring.
LEMMA TouchesNext ==
  ASSUME NEW m, NEW top, Sound(m, top), NEW a \in Touching(m)
  PROVE  m[a].ptr = a + m[a].size
<1>0. Typed(m, top)
  BY Addresses DEF Sound
<1> DEFINE b == a + m[a].size
<1>1. a \in Ring(m) /\ a # base /\ a \in Blocks(m) /\ b \in Ring(m) /\ b > a /\ b # base
  BY <1>0 DEF Typed, Touching, Sound, Shape, Blocks, Ring, base
<1>2. m[a].ptr \in Ring(m) /\ Follows(m, a)
  BY <1>1 DEF Sound, Linked
<1>3. a < m[a].ptr /\ b >= m[a].ptr
  BY <1>0, <1>1, <1>2 DEF Typed, Follows, Sound
<1>4. m[a].ptr \in Blocks(m)
  BY <1>0, <1>1, <1>2, <1>3 DEF Typed, Blocks, Ring, Sound, base
<1>5. a + m[a].size <= m[a].ptr
  BY <1>1, <1>3, <1>4 DEF Sound, Tiled
<1> QED
  BY <1>0, <1>1, <1>3, <1>5 DEF Typed, Sound, Ring

\* The place for a block that is not in the ring.
Place(m, p, bp) ==
  /\ p \in Ring(m) /\ p < bp
  /\ m[p].ptr = base \/ bp < m[p].ptr
  /\ \A c \in Ring(m) : c <= p \/ c > bp

LEMMA LinkSound ==
  ASSUME NEW m, NEW top, Good(m, top), NEW bp \in Busy(m), NEW p, Place(m, p, bp),
         NEW r, r = link(m, p, bp)
  PROVE  /\ Sound(r, top) /\ Touching(r) \subseteq {p, bp}
         /\ Ring(r) = Ring(m) \cup {bp} /\ Busy(r) = Busy(m) \ {bp}
         /\ DOMAIN r = DOMAIN m
         /\ r[p] = [ptr |-> bp, size |-> m[p].size]
         /\ r[bp] = [ptr |-> m[p].ptr, size |-> m[bp].size]
         /\ \A a \in DOMAIN m \ {p, bp} : r[a] = m[a]
<1>0. Typed(m, top)
  BY Addresses DEF Good
<1> USE DEF Place
<1>1. /\ Shape(m, top) /\ Tiled(m, top) /\ Linked(m) /\ Apart(m)
      /\ p \in DOMAIN m /\ bp \in DOMAIN m /\ p # bp /\ p \in Nat /\ bp \in Nat
      /\ bp >= 1 /\ bp \notin Ring(m)
  BY <1>0 DEF Typed, Good, Ring, Busy, base
<1>2. /\ m \in [DOMAIN m -> [ptr : Int, size : Nat]]
      /\ m[p].ptr \in Ring(m) /\ Follows(m, p)
  BY <1>1 DEF Shape, Linked
<1>3. /\ DOMAIN r = DOMAIN m
      /\ r[p] = [ptr |-> bp, size |-> m[p].size]
      /\ r[bp] = [ptr |-> m[p].ptr, size |-> m[bp].size]
      /\ \A a \in DOMAIN m \ {p, bp} : r[a] = m[a]
      /\ r \in [DOMAIN m -> [ptr : Int, size : Nat]]
  BY <1>1, <1>2 DEF link
<1>4. \A a \in DOMAIN m : r[a].size = m[a].size
  BY <1>3
<1>5. Shape(r, top) /\ Tiled(r, top)
  BY <1>1, <1>3, <1>4, SameSizes
<1>6. /\ Ring(r) = Ring(m) \cup {bp}
      /\ Busy(r) = Busy(m) \ {bp}
  BY <1>0, <1>1, <1>2, <1>3 DEF Typed, Ring, Busy, NULL
<1>7. Linked(r)
  <2>1. base \in Ring(r)
    BY <1>1, <1>6 DEF Linked
  <2>2. ASSUME NEW a \in Ring(r) PROVE r[a].ptr \in Ring(r) /\ Follows(r, a)
    <3>1. CASE a = p
      BY <1>0, <1>1, <1>2, <1>3, <1>6, <3>1 DEF Typed, Follows
    <3>2. CASE a = bp
      BY <1>0, <1>1, <1>2, <1>3, <1>6, <3>2 DEF Typed, Follows, base
    <3>3. CASE a # p /\ a # bp
      <4>1. /\ a \in Ring(m) /\ r[a] = m[a]
            /\ m[a].ptr \in Ring(m) /\ Follows(m, a)
        BY <1>1, <1>3, <1>6, <3>3 DEF Ring, Linked
      <4> QED
        BY <1>0, <1>1, <1>2, <1>6, <3>3, <4>1 DEF Typed, Follows, base
    <3> QED
      BY <3>1, <3>2, <3>3
  <2> QED
    BY <2>1, <2>2 DEF Linked
<1>8. Touching(r) \subseteq {p, bp}
  <2> SUFFICES ASSUME NEW a \in Touching(r), a # p, a # bp PROVE FALSE
    OBVIOUS
  <2>1. Sound(r, top)
    BY <1>5, <1>7 DEF Sound
  <2>2. r[a] = m[a] /\ a \in Ring(m) \ {base} /\ r[a].ptr = a + r[a].size
    BY <1>3, <1>6, <2>1, TouchesNext DEF Touching, Ring
  <2>3. m[a].ptr = a + m[a].size /\ m[a].ptr \in Ring(m)
    BY <1>1, <2>2 DEF Linked
  <2> QED
    BY <1>1, <2>2, <2>3 DEF Apart
<1> QED
  BY <1>3, <1>5, <1>6, <1>7, <1>8 DEF Sound

LEMMA MergeSound ==
  ASSUME NEW m, NEW top, Sound(m, top), NEW a \in Touching(m),
         NEW r, r = merge(m, a), NEW b, b = m[a].ptr
  PROVE  /\ Sound(r, top)
         /\ b \notin Touching(m) => Touching(r) \subseteq Touching(m) \ {a}
         /\ Ring(r) = Ring(m) \ {b} /\ Busy(r) = Busy(m)
         /\ a \in Ring(r) /\ r[a] = [ptr |-> m[b].ptr, size |-> m[a].size + m[b].size]
         /\ \A x \in DOMAIN r \ {a} : x \in DOMAIN m /\ r[x] = m[x]
<1>0. Typed(m, top)
  BY Addresses DEF Sound
<1>1. /\ Shape(m, top) /\ Tiled(m, top) /\ Linked(m)
      /\ a \in Ring(m) /\ a # base /\ a \in DOMAIN m /\ a \in Blocks(m)
      /\ b = a + m[a].size /\ b \in Ring(m) /\ b \in DOMAIN m
      /\ Follows(m, a) /\ Follows(m, b) /\ m[b].ptr \in Ring(m)
  BY TouchesNext DEF Sound, Touching, Ring, Linked, Blocks
<1>2. b > a /\ b # base /\ b \in Blocks(m)
  BY <1>0, <1>1 DEF Typed, Shape, Blocks, base
<1>3. m \in [DOMAIN m -> [ptr : Int, size : Nat]]
  BY <1>1 DEF Shape
<1>4. /\ DOMAIN r = DOMAIN m \ {b}
      /\ r[a] = [ptr |-> m[b].ptr, size |-> m[a].size + m[b].size]
      /\ \A x \in DOMAIN m \ {a, b} : r[x] = m[x]
      /\ r \in [DOMAIN r -> [ptr : Int, size : Nat]]
  BY <1>0, <1>1, <1>2, <1>3 DEF Typed, merge, drop
<1>5. Blocks(r) = Blocks(m) \ {b}
  BY <1>4 DEF Blocks
<1>6. Shape(r, top)
  BY <1>1, <1>2, <1>4, <1>5 DEF Shape, Blocks
<1>7. Tiled(r, top)
  <2>1. \A x \in Blocks(r) : x + r[x].size <= top
    BY <1>0, <1>1, <1>2, <1>4, <1>5 DEF Typed, Tiled, Blocks
  <2>2. \A x, y \in Blocks(r) : x < y => x + r[x].size <= y
    <3> SUFFICES ASSUME NEW x \in Blocks(r), NEW y \in Blocks(r), x < y
                 PROVE  x + r[x].size <= y
      OBVIOUS
    <3>1. x \in Blocks(m) /\ y \in Blocks(m) /\ x # b /\ y # b
      BY <1>5
    <3>2. CASE x # a
      BY <1>1, <1>4, <3>1, <3>2 DEF Tiled, Blocks
    <3>3. CASE x = a
      <4>1. b <= y
        BY <1>1, <3>1, <3>3 DEF Tiled
      <4>2. b + m[b].size <= y
        BY <1>0, <1>1, <1>2, <3>1, <4>1 DEF Typed, Tiled, Blocks
      <4> QED
        BY <1>0, <1>1, <1>4, <3>3, <4>2 DEF Typed, Blocks
    <3> QED
      BY <3>2, <3>3
  <2>3. ASSUME NEW u \in end .. top - 1
        PROVE  \E x \in Blocks(r) : x <= u /\ u < x + r[x].size
    <3>1. PICK x \in Blocks(m) : x <= u /\ u < x + m[x].size
      BY <1>1 DEF Tiled
    <3>2. CASE x = b \/ x = a
      <4>1. a \in Blocks(r) /\ a <= u /\ u < a + r[a].size
        BY <1>1, <1>2, <1>4, <1>5, <3>1, <3>2, <1>0, MallocAssumption DEF Typed
      <4> QED
        BY <4>1
    <3>3. CASE x # b /\ x # a
      BY <1>4, <1>5, <3>1, <3>3 DEF Blocks
    <3> QED
      BY <3>2, <3>3
  <2> QED
    BY <2>1, <2>2, <2>3 DEF Tiled
<1>8. Ring(r) = Ring(m) \ {b} /\ Busy(r) = Busy(m) /\ a \in Ring(r)
  <2>1. m[b].ptr # NULL /\ m[a].ptr # NULL /\ m[b].ptr \in Nat
    BY <1>0, <1>1 DEF Typed, Ring, NULL
  <2> QED
    BY <1>0, <1>1, <1>2, <1>4, <2>1 DEF Typed, Ring, Busy
<1>9. Linked(r)
  <2>1. base \in Ring(r)
    BY <1>1, <1>2, <1>8 DEF Linked
  <2>2. ASSUME NEW x \in Ring(r) PROVE r[x].ptr \in Ring(r) /\ Follows(r, x)
    <3>1. CASE x = a
      <4>1. m[b].ptr # b
        BY <1>0, <1>1, <1>2 DEF Typed, Follows
      <4>2. r[a].ptr = m[b].ptr
        BY <1>4
      <4> QED
        BY <1>0, <1>1, <1>2, <1>8, <3>1, <4>1, <4>2 DEF Typed, Follows, base
    <3>2. CASE x # a
      <4>1. x \in Ring(m) /\ r[x] = m[x] /\ m[x].ptr \in Ring(m) /\ Follows(m, x) /\ x # b
        BY <1>1, <1>4, <1>8, <3>2 DEF Ring, Linked
      <4>2. m[x].ptr # b
        BY <1>0, <1>1, <1>2, <3>2, <4>1 DEF Typed, Follows
      <4> QED
        BY <1>0, <1>1, <1>8, <4>1, <4>2 DEF Typed, Follows
    <3> QED
      BY <3>1, <3>2
  <2> QED
    BY <2>1, <2>2 DEF Linked
<1>10. ASSUME b \notin Touching(m) PROVE Touching(r) \subseteq Touching(m) \ {a}
  <2> SUFFICES ASSUME NEW x \in Touching(r) PROVE x \in Touching(m) /\ x # a
    OBVIOUS
  <2>1. x \in Ring(m) \ {base} /\ x + r[x].size \in Ring(m) /\ x # b
    BY <1>8 DEF Touching
  <2>2. CASE x = a
    BY <1>0, <1>1, <1>2, <1>4, <1>10, <2>1, <2>2 DEF Typed, Touching
  <2>3. CASE x # a
    BY <1>4, <2>1, <2>3 DEF Touching, Ring
  <2> QED
    BY <2>2, <2>3
<1> QED
  BY <1>4, <1>6, <1>7, <1>8, <1>9, <1>10 DEF Sound

\* The part of a heap that free needs; freep may be anywhere in the ring.
Heap(h, top) == Good(h.hdr, top) /\ h.freep \in Ring(h.hdr)

LEMMA HeapCircle ==
  ASSUME NEW h, NEW top, Heap(h, top)
  PROVE  Circle(h)
  BY RingRange DEF Heap, Good, Circle

\* What the joins of free come to.
LEMMA FreeJoins ==
  ASSUME NEW m, NEW top, Good(m, top), NEW bp \in Busy(m), NEW p, Place(m, p, bp),
         NEW r, r = free_at(m, p, bp).hdr
  PROVE  \/ bp \notin Touching(link(m, p, bp)) /\ p \notin Touching(link(m, p, bp))
              /\ r = link(m, p, bp)
         \/ bp \in Touching(link(m, p, bp)) /\ p \notin Touching(link(m, p, bp))
              /\ r = merge(link(m, p, bp), bp)
         \/ bp \notin Touching(link(m, p, bp)) /\ p \in Touching(link(m, p, bp))
              /\ r = merge(link(m, p, bp), p)
         \/ bp \in Touching(link(m, p, bp)) /\ p \in Touching(link(m, p, bp))
              /\ r = merge(merge(link(m, p, bp), bp), p)
<1> DEFINE l == link(m, p, bp)
           n == m[p].ptr
           q == join_next(m, bp, n)
<1>0. Typed(m, top)
  BY Addresses DEF Good
<1>1. /\ m \in [DOMAIN m -> [ptr : Int, size : Nat]]
      /\ p \in DOMAIN m /\ bp \in DOMAIN m /\ p < bp /\ p \in Nat /\ bp \in Nat
      /\ bp # base /\ bp \notin Ring(m) /\ p \in Ring(m)
      /\ n \in Ring(m) /\ n # bp /\ m[bp].size >= 1 /\ m[base].size = 0
      /\ base \in Ring(m)
  BY <1>0 DEF Place, Good, Shape, Linked, Typed, Ring, Busy, Blocks, base
<1>2. /\ Sound(l, top) /\ DOMAIN l = DOMAIN m
      /\ Ring(l) = Ring(m) \cup {bp}
      /\ l[p] = [ptr |-> bp, size |-> m[p].size]
      /\ l[bp] = [ptr |-> n, size |-> m[bp].size]
      /\ \A a \in DOMAIN m \ {p, bp} : l[a] = m[a]
  BY LinkSound
<1>3. l \in [DOMAIN m -> [ptr : Int, size : Nat]]
  BY <1>2 DEF Sound, Shape
<1>4. bp \in Touching(l) <=> bp + m[bp].size = n
  <2>1. bp \in Touching(l) => l[bp].ptr = bp + l[bp].size
    BY <1>2, TouchesNext
  <2>2. bp + m[bp].size = n => bp \in Touching(l)
    BY <1>1, <1>2 DEF Touching
  <2> QED
    BY <1>2, <2>1, <2>2
<1>5. p \in Touching(l) <=> p + m[p].size = bp
  <2>1. p \in Touching(l) => l[p].ptr = p + l[p].size
    BY <1>2, TouchesNext
  <2>2. p + m[p].size = bp => p # base
    BY <1>1 DEF base
  <2>3. p + m[p].size = bp => p \in Touching(l)
    BY <1>1, <1>2, <2>2 DEF Touching
  <2> QED
    BY <1>2, <2>1, <2>3
<1>6. r = join_prev(q, p, bp)
  BY DEF free_at
<1> HIDE DEF l, n
<1>7. CASE bp + m[bp].size # n
  <2>1. q = [m EXCEPT ![bp].ptr = n]
    BY <1>7 DEF join_next
  <2>2. /\ DOMAIN q = DOMAIN m /\ q[bp] = l[bp] /\ q[p] = m[p]
        /\ \A a \in DOMAIN m \ {p, bp} : q[a] = l[a]
        /\ q \in [DOMAIN m -> [ptr : Int, size : Nat]]
    BY <1>0, <1>1, <1>2, <2>1 DEF Typed, Ring
  <2>3. CASE p + m[p].size # bp
    <3>1. r = [q EXCEPT ![p].ptr = bp]
      BY <1>6, <2>2, <2>3 DEF join_prev
    <3>2. r = l
      BY <1>1, <1>2, <1>3, <2>2, <3>1
    <3> QED
      BY <1>4, <1>5, <1>7, <2>3, <3>2 DEF l
  <2>4. CASE p + m[p].size = bp
    <3>1. r = drop([q EXCEPT ![p] = [ptr |-> q[bp].ptr, size |-> @.size + q[bp].size]],
                   bp)
      BY <1>6, <2>2, <2>4 DEF join_prev
    <3>2. r = merge(l, p)
      BY <1>1, <1>2, <1>3, <2>2, <3>1 DEF merge, drop
    <3> QED
      BY <1>4, <1>5, <1>7, <2>4, <3>2 DEF l
  <2> QED
    BY <2>3, <2>4
<1>8. CASE bp + m[bp].size = n
  <2>1. q = drop([m EXCEPT ![bp] = [ptr |-> m[n].ptr, size |-> @.size + m[n].size]], n)
    BY <1>8 DEF join_next
  <2> DEFINE k == merge(l, bp)
  <2>2. n # p /\ n \in DOMAIN m /\ m[n].ptr \in Int
    BY <1>0, <1>1, <1>8 DEF Typed, Ring
  <2>3. /\ DOMAIN k = DOMAIN m \ {n}
        /\ k[bp] = [ptr |-> m[n].ptr, size |-> m[bp].size + m[n].size]
        /\ \A a \in DOMAIN m \ {n, bp} : k[a] = l[a]
        /\ k = [a \in DOMAIN k |-> k[a]]
    BY <1>1, <1>2, <1>3, <2>2 DEF merge, drop
  <2>4. /\ DOMAIN q = DOMAIN m \ {n} /\ q[bp] = k[bp] /\ q[p] = m[p]
        /\ \A a \in DOMAIN m \ {n, bp, p} : q[a] = m[a]
        /\ q = [a \in DOMAIN q |-> q[a]]
    BY <1>1, <2>1, <2>2, <2>3 DEF drop
  <2> HIDE DEF k
  <2>5. CASE p + m[p].size # bp
    <3>1. r = [q EXCEPT ![p].ptr = bp]
      BY <1>6, <2>4, <2>5 DEF join_prev
    <3>2. r = k
      BY <1>1, <1>2, <2>2, <2>3, <2>4, <3>1
    <3> QED
      BY <1>4, <1>5, <1>8, <2>5, <3>2 DEF l, k
  <2>6. CASE p + m[p].size = bp
    <3>1. r = drop([q EXCEPT ![p] = [ptr |-> q[bp].ptr, size |-> @.size + q[bp].size]],
                   bp)
      BY <1>6, <2>4, <2>6 DEF join_prev
    <3>2. k[p].ptr = bp /\ k[p].size = m[p].size
      BY <1>1, <1>2, <2>2, <2>3
    <3>3. r = merge(k, p)
      BY <1>1, <1>2, <2>2, <2>3, <2>4, <3>1, <3>2 DEF merge, drop
    <3> QED
      BY <1>4, <1>5, <1>8, <2>6, <3>3 DEF l, k
  <2> QED
    BY <2>5, <2>6
<1> QED
  BY <1>7, <1>8

\* Each join is a merge of neighbours, and afterwards no neighbours are left.
LEMMA FreeGood ==
  ASSUME NEW m, NEW top, Good(m, top), NEW bp \in Busy(m), NEW p, Place(m, p, bp),
         NEW r, r = free_at(m, p, bp).hdr
  PROVE  /\ Good(r, top) /\ p \in Ring(r) /\ Busy(r) = Busy(m) \ {bp}
         /\ \A a \in Busy(r) : r[a].size = m[a].size
         /\ \E a \in Ring(r) : r[a].size >= m[bp].size
<1> DEFINE l == link(m, p, bp)
<1>0. Typed(m, top)
  BY Addresses DEF Good
<1>1. /\ p \in Ring(m) /\ p \in DOMAIN m /\ bp \in DOMAIN m /\ p # bp
      /\ p \notin Busy(m) /\ bp \notin Ring(m) /\ p < bp /\ p \in Nat /\ bp \in Nat
      /\ m[p].size \in Nat /\ m[bp].size \in Nat
      /\ m[p].ptr # p \/ p = base
      /\ m[p].ptr # bp /\ m[p].ptr \in Ring(m) /\ m[m[p].ptr].size \in Nat
  <2>1. Linked(m)
    BY DEF Good
  <2> QED
    BY <1>0, <2>1 DEF Typed, Place, Ring, Busy, Linked, Follows
<1>2. /\ Sound(l, top) /\ Touching(l) \subseteq {p, bp}
      /\ Ring(l) = Ring(m) \cup {bp} /\ Busy(l) = Busy(m) \ {bp}
      /\ DOMAIN l = DOMAIN m
      /\ l[p] = [ptr |-> bp, size |-> m[p].size]
      /\ l[bp] = [ptr |-> m[p].ptr, size |-> m[bp].size]
      /\ \A a \in DOMAIN m \ {p, bp} : l[a] = m[a]
  BY LinkSound
<1> HIDE DEF l
<1>3. CASE bp \notin Touching(l) /\ p \notin Touching(l) /\ r = l
  <2>1. Good(r, top)
    BY <1>2, <1>3, GoodIsSound
  <2>2. \A a \in Busy(r) : r[a].size = m[a].size
    BY <1>1, <1>2, <1>3 DEF Busy
  <2>3. bp \in Ring(r) /\ r[bp].size >= m[bp].size
    BY <1>1, <1>2, <1>3
  <2> QED
    BY <1>1, <1>2, <1>3, <2>1, <2>2, <2>3
<1>4. CASE bp \notin Touching(l) /\ p \in Touching(l) /\ r = merge(l, p)
  <2>1. /\ Sound(r, top) /\ Touching(r) \subseteq Touching(l) \ {p}
        /\ Ring(r) = Ring(l) \ {bp} /\ Busy(r) = Busy(l) /\ p \in Ring(r)
        /\ r[p].size = m[p].size + m[bp].size
        /\ \A x \in DOMAIN r \ {p} : x \in DOMAIN l /\ r[x] = l[x]
    <3>1. l[p].ptr = bp /\ l[p].size = m[p].size /\ l[bp].size = m[bp].size
      BY <1>2
    <3>2. /\ Sound(r, top)
          /\ l[p].ptr \notin Touching(l) => Touching(r) \subseteq Touching(l) \ {p}
          /\ Ring(r) = Ring(l) \ {l[p].ptr} /\ Busy(r) = Busy(l) /\ p \in Ring(r)
          /\ r[p] = [ptr |-> l[l[p].ptr].ptr, size |-> l[p].size + l[l[p].ptr].size]
          /\ \A x \in DOMAIN r \ {p} : x \in DOMAIN l /\ r[x] = l[x]
      BY <1>2, <1>4, MergeSound
    <3> QED
      BY <1>4, <3>1, <3>2
  <2>2. Good(r, top)
    BY <1>2, <1>4, <2>1, GoodIsSound
  <2>3. \A a \in Busy(r) : r[a].size = m[a].size
    BY <1>1, <1>2, <2>1 DEF Busy
  <2>4. r[p].size >= m[bp].size
    BY <1>1, <2>1
  <2> QED
    BY <1>1, <1>2, <2>1, <2>2, <2>3, <2>4
<1>5. ASSUME bp \in Touching(l), NEW k, k = merge(l, bp)
      PROVE  /\ Sound(k, top) /\ Touching(k) \subseteq {p}
             /\ Ring(k) = Ring(l) \ {m[p].ptr} /\ Busy(k) = Busy(l)
             /\ bp \in Ring(k) /\ k[bp].size >= m[bp].size
             /\ p \in Ring(k) /\ k[p] = l[p]
             /\ \A x \in DOMAIN k \ {bp} : x \in DOMAIN l /\ k[x] = l[x]
  <2> DEFINE n == m[p].ptr
  <2>1. n = l[bp].ptr /\ n # bp /\ n \in Ring(l)
    BY <1>1, <1>2
  <2>2. n = bp + l[bp].size
    BY <1>2, <1>5, <2>1, TouchesNext
  <2>3. n # p /\ n > p
    BY <1>1, <1>2, <2>2
  <2>4. l[n].size \in Nat
    BY <1>1, <1>2, <2>3 DEF Ring
  <2>5. n \notin Touching(l)
    BY <1>2, <2>1, <2>3
  <2>6. /\ Sound(k, top) /\ Touching(k) \subseteq Touching(l) \ {bp}
        /\ Ring(k) = Ring(l) \ {n} /\ Busy(k) = Busy(l) /\ bp \in Ring(k)
        /\ k[bp].size = m[bp].size + l[n].size
        /\ \A x \in DOMAIN k \ {bp} : x \in DOMAIN l /\ k[x] = l[x]
    <3>1. /\ Sound(k, top)
          /\ l[bp].ptr \notin Touching(l) => Touching(k) \subseteq Touching(l) \ {bp}
          /\ Ring(k) = Ring(l) \ {l[bp].ptr} /\ Busy(k) = Busy(l) /\ bp \in Ring(k)
          /\ k[bp] = [ptr |-> l[l[bp].ptr].ptr, size |-> l[bp].size + l[l[bp].ptr].size]
          /\ \A x \in DOMAIN k \ {bp} : x \in DOMAIN l /\ k[x] = l[x]
      BY <1>2, <1>5, MergeSound
    <3>2. l[bp].size = m[bp].size
      BY <1>2
    <3> QED
      BY <2>1, <2>5, <3>1, <3>2
  <2>7. k[bp].size >= m[bp].size
    BY <1>1, <2>4, <2>6
  <2>8. p \in Ring(k) /\ k[p] = l[p]
    BY <1>1, <1>2, <2>3, <2>6 DEF Ring
  <2> QED
    BY <1>2, <2>6, <2>7, <2>8
<1>6. CASE bp \in Touching(l) /\ p \notin Touching(l) /\ r = merge(l, bp)
  <2>1. Touching(r) = {}
    <3>1. r[p].size = l[p].size /\ Ring(r) \subseteq Ring(l) /\ Touching(r) \subseteq {p}
      BY <1>5, <1>6
    <3>2. p \notin Touching(r)
      BY <1>2, <1>6, <3>1, <1>1 DEF Touching
    <3> QED
      BY <3>1, <3>2
  <2>2. Good(r, top)
    BY <1>5, <1>6, <2>1, GoodIsSound
  <2>3. \A a \in Busy(r) : r[a].size = m[a].size
    BY <1>1, <1>2, <1>5, <1>6 DEF Busy
  <2> QED
    BY <1>2, <1>5, <1>6, <2>2, <2>3
<1>7. CASE bp \in Touching(l) /\ p \in Touching(l) /\ r = merge(merge(l, bp), p)
  <2> DEFINE k == merge(l, bp)
  <2>1. /\ Sound(k, top) /\ Touching(k) \subseteq {p}
        /\ Ring(k) = Ring(l) \ {m[p].ptr} /\ Busy(k) = Busy(l)
        /\ bp \in Ring(k) /\ k[bp].size >= m[bp].size
        /\ p \in Ring(k) /\ k[p] = l[p]
        /\ \A x \in DOMAIN k \ {bp} : x \in DOMAIN l /\ k[x] = l[x]
    BY <1>5, <1>7
  <2>2. r = merge(k, p)
    BY <1>7
  <2> HIDE DEF k
  <2>3. k[p].ptr = bp /\ k[p].size = m[p].size /\ k[bp].size \in Nat
    BY <1>2, <2>1 DEF Sound, Shape, Ring
  <2>4. p \in Touching(k)
    <3>1. l[p].ptr = p + l[p].size
      BY <1>2, <1>7, TouchesNext
    <3>2. p # base
      BY <1>7 DEF Touching
    <3> QED
      BY <1>2, <2>1, <2>3, <3>1, <3>2 DEF Touching
  <2>5. bp \notin Touching(k)
    BY <1>1, <2>1
  <2>6. /\ Sound(r, top) /\ Touching(r) \subseteq Touching(k) \ {p}
        /\ Ring(r) = Ring(k) \ {bp} /\ Busy(r) = Busy(k) /\ p \in Ring(r)
        /\ r[p].size = m[p].size + k[bp].size
        /\ \A x \in DOMAIN r \ {p} : x \in DOMAIN k /\ r[x] = k[x]
    <3>1. /\ Sound(r, top)
          /\ k[p].ptr \notin Touching(k) => Touching(r) \subseteq Touching(k) \ {p}
          /\ Ring(r) = Ring(k) \ {k[p].ptr} /\ Busy(r) = Busy(k) /\ p \in Ring(r)
          /\ r[p] = [ptr |-> k[k[p].ptr].ptr, size |-> k[p].size + k[k[p].ptr].size]
          /\ \A x \in DOMAIN r \ {p} : x \in DOMAIN k /\ r[x] = k[x]
      BY <2>1, <2>2, <2>4, MergeSound
    <3> QED
      BY <2>3, <2>5, <3>1
  <2>7. Good(r, top)
    BY <2>1, <2>6, GoodIsSound
  <2>8. \A a \in Busy(r) : r[a].size = m[a].size
    BY <1>1, <1>2, <2>1, <2>6 DEF Busy
  <2>9. r[p].size >= m[bp].size
    BY <1>1, <2>1, <2>3, <2>6
  <2> QED
    BY <1>2, <2>1, <2>6, <2>7, <2>8, <2>9
<1> QED
  BY <1>3, <1>4, <1>6, <1>7, FreeJoins DEF l

LEMMA FreeHeap ==
  ASSUME NEW h, NEW top, Heap(h, top), NEW ap, ap - 1 \in Busy(h.hdr),
         NEW r, r = free(h, ap)
  PROVE  /\ Heap(r, top) /\ Busy(r.hdr) = Busy(h.hdr) \ {ap - 1}
         /\ \A a \in Busy(r.hdr) : r.hdr[a].size = h.hdr[a].size
         /\ \E a \in Ring(r.hdr) : r.hdr[a].size >= h.hdr[ap - 1].size
<1> DEFINE m == h.hdr
           bp == ap - 1
           p == predecessor(h, bp)
<1>0. Typed(m, top)
  BY Addresses DEF Heap, Good
<1>1. bp \in Busy(m) /\ bp \in Nat \ {0} /\ bp \notin Ring(m)
  BY <1>0 DEF Typed, Heap, Good, Linked, Ring, Busy, Blocks, base
<1>2. Place(m, p, bp)
  BY <1>1, HeapCircle, PredecessorIs DEF Place
<1>3. r = free_at(m, p, bp)
  BY DEF free
<1>4. r.freep = p /\ r.hdr = free_at(m, p, bp).hdr
  BY <1>3 DEF free_at
<1> HIDE DEF p, bp
<1> QED
  BY <1>1, <1>2, <1>4, FreeGood DEF Heap, bp

-----------------------------------------------------------------------------
(***************************************************************************)
(* malloc: a free block is handed out, whole or its tail.                  *)
(***************************************************************************)

LEMMA TakeGood ==
  ASSUME NEW m, NEW top, Good(m, top), NEW prevp \in Ring(m), NEW p, p = m[prevp].ptr,
         NEW nu \in Nat, nu >= 1, m[p].size >= nu,
         NEW r, r = take(m, prevp, p, nu)
  PROVE  /\ Heap(r, top) /\ r.at \notin Busy(m)
         /\ Busy(r.hdr) = Busy(m) \cup {r.at} /\ r.hdr[r.at].size = nu
         /\ \A a \in Busy(m) : r.hdr[a].size = m[a].size
<1>0. Typed(m, top)
  BY Addresses DEF Good
<1>1. Shape(m, top) /\ Tiled(m, top) /\ Linked(m) /\ Apart(m)
  BY DEF Good
<1>2. /\ p \in Ring(m) /\ p \in DOMAIN m /\ p # base /\ p \in Blocks(m) /\ p \in Nat
      /\ Follows(m, prevp) /\ prevp \in DOMAIN m /\ prevp \in Nat
      /\ Follows(m, p) /\ m[p].ptr \in Ring(m) /\ m[p].size \in Nat
      /\ m \in [DOMAIN m -> [ptr : Int, size : Nat]]
  BY <1>0, <1>1 DEF Typed, Shape, Linked, Ring, Blocks
<1>3. prevp # p
  BY <1>2 DEF Follows
<1>4. CASE m[p].size = nu
  <2> DEFINE q == [m EXCEPT ![prevp].ptr = m[p].ptr, ![p].ptr = NULL]
  <2>1. r = [hdr |-> q, freep |-> prevp, at |-> p]
    BY <1>4 DEF take
  <2>2. /\ DOMAIN q = DOMAIN m
        /\ q[prevp] = [ptr |-> m[p].ptr, size |-> m[prevp].size]
        /\ q[p] = [ptr |-> NULL, size |-> m[p].size]
        /\ \A a \in DOMAIN m \ {prevp, p} : q[a] = m[a]
        /\ q \in [DOMAIN m -> [ptr : Int, size : Nat]]
    BY <1>0, <1>2, <1>3 DEF Typed, NULL
  <2> HIDE DEF q
  <2>3. \A a \in DOMAIN m : q[a].size = m[a].size
    BY <2>2
  <2>4. Shape(q, top) /\ Tiled(q, top)
    BY <1>1, <2>2, <2>3, SameSizes
  <2>5. Ring(q) = Ring(m) \ {p} /\ Busy(q) = Busy(m) \cup {p}
    <3>1. m[p].ptr # NULL
      BY <1>0, <1>2 DEF Typed, NULL
    <3> QED
      BY <1>2, <1>3, <2>2, <3>1 DEF Ring, Busy
  <2>6. Linked(q)
    <3>1. base \in Ring(q)
      BY <1>1, <1>2, <2>5 DEF Linked
    <3>2. ASSUME NEW a \in Ring(q) PROVE q[a].ptr \in Ring(q) /\ Follows(q, a)
      <4>1. CASE a = prevp
        <5>1. q[a].ptr = m[p].ptr /\ m[p].ptr # p
          BY <1>0, <1>2, <2>2, <4>1 DEF Typed, Follows
        <5> QED
          BY <1>0, <1>2, <1>3, <2>5, <4>1, <5>1 DEF Typed, Follows, base
      <4>2. CASE a # prevp
        <5>1. /\ a \in Ring(m) /\ a # p /\ q[a] = m[a] /\ m[a].ptr \in Ring(m)
              /\ Follows(m, a)
          BY <1>1, <2>2, <2>5, <4>2 DEF Linked, Ring
        <5>2. m[a].ptr # p
          BY <1>0, <1>2, <4>2, <5>1 DEF Typed, Follows
        <5> QED
          BY <2>5, <5>1, <5>2 DEF Follows
      <4> QED
        BY <4>1, <4>2
    <3> QED
      BY <3>1, <3>2 DEF Linked
  <2>7. Apart(q)
    BY <1>1, <2>3, <2>5 DEF Apart, Ring
  <2>8. Good(q, top) /\ prevp \in Ring(q) /\ p \notin Busy(m)
    BY <1>2, <1>3, <2>4, <2>5, <2>6, <2>7 DEF Good, Ring, Busy
  <2> QED
    BY <1>4, <2>1, <2>2, <2>3, <2>5, <2>8 DEF Heap, Busy
<1>5. CASE m[p].size # nu
  <2> DEFINE n == p + m[p].size - nu
             q == put([m EXCEPT ![p].size = @ - nu], n, [ptr |-> NULL, size |-> nu])
  <2>1. r = [hdr |-> q, freep |-> prevp, at |-> n]
    BY <1>5 DEF take
  <2>2. n \in Nat /\ p < n /\ n < p + m[p].size /\ n + nu = p + m[p].size /\ n # base
    BY <1>2, <1>5 DEF base
  <2>3. n \notin DOMAIN m
    <3>1. \A b \in Blocks(m) : p < b => p + m[p].size <= b
      BY <1>1, <1>2 DEF Tiled
    <3> QED
      BY <1>2, <2>2, <3>1 DEF Blocks
  <2>4. /\ DOMAIN q = DOMAIN m \cup {n}
        /\ q[n] = [ptr |-> NULL, size |-> nu]
        /\ q[p] = [ptr |-> m[p].ptr, size |-> m[p].size - nu]
        /\ \A a \in DOMAIN m \ {p} : q[a] = m[a]
        /\ q = [a \in DOMAIN q |-> q[a]]
    BY <1>2, <2>2, <2>3 DEF put
  <2> HIDE DEF q
  <2>5. m[p].size - nu \in Nat /\ m[p].size - nu >= 1
    BY <1>2, <1>5
  <2>6. q \in [DOMAIN q -> [ptr : Int, size : Nat]]
    <3>1. \A a \in DOMAIN q : q[a] \in [ptr : Int, size : Nat]
      BY <1>0, <1>2, <2>4, <2>5 DEF Typed, NULL
    <3> QED
      BY <2>4, <3>1
  <2>7. Blocks(q) = Blocks(m) \cup {n}
    BY <2>2, <2>4 DEF Blocks
  <2>8. p + m[p].size <= top
    BY <1>1, <1>2 DEF Tiled
  <2>9. Shape(q, top)
    <3>1. base \in DOMAIN q /\ q[base].size = 0
      BY <1>1, <1>2, <2>4 DEF Shape
    <3>2. \A a \in Blocks(q) : a \in end .. top - 1 /\ q[a].size >= 1
      <4>1. n \in end .. top - 1
        BY <1>0, <1>1, <1>2, <2>2, <2>8, MallocAssumption DEF Typed, Shape
      <4> QED
        BY <1>1, <1>2, <2>4, <2>5, <2>7, <4>1 DEF Shape, Blocks
    <3> QED
      BY <1>1, <2>6, <3>1, <3>2 DEF Shape
  <2>10. Tiled(q, top)
    <3>1. \A a \in Blocks(q) : a + q[a].size <= top
      BY <1>0, <1>1, <1>2, <2>2, <2>4, <2>7, <2>8 DEF Typed, Tiled, Blocks
    <3>2. ASSUME NEW a \in Blocks(q), NEW b \in Blocks(q), a < b
          PROVE  a + q[a].size <= b
      <4>1. CASE a = n
        <5>1. b \in Blocks(m) /\ p < b
          BY <1>0, <1>2, <2>2, <2>7, <3>2, <4>1 DEF Typed
        <5>2. p + m[p].size <= b
          BY <1>1, <1>2, <5>1 DEF Tiled
        <5> QED
          BY <2>2, <2>4, <4>1, <5>2
      <4>2. CASE a = p
        <5>1. b = n \/ (b \in Blocks(m) /\ p + m[p].size <= b)
          BY <1>1, <1>2, <2>7, <3>2, <4>2 DEF Tiled
        <5> QED
          BY <1>0, <1>2, <2>2, <2>4, <2>5, <4>2, <5>1 DEF Typed
      <4>3. CASE a # n /\ a # p
        <5>1. a \in Blocks(m) /\ q[a] = m[a]
          BY <2>4, <2>7, <4>3 DEF Blocks
        <5>2. CASE b = n
          <6>1. a < p
            <7>1. a < p \/ p + m[p].size <= a
              BY <1>0, <1>1, <1>2, <4>3, <5>1 DEF Tiled, Typed
            <7> QED
              BY <1>0, <1>2, <2>2, <3>2, <5>1, <5>2, <7>1 DEF Typed
          <6>2. a + m[a].size <= p
            BY <1>1, <1>2, <5>1, <6>1 DEF Tiled
          <6> QED
            BY <1>0, <1>2, <2>2, <5>1, <5>2, <6>2 DEF Typed, Blocks
        <5>3. CASE b # n
          BY <1>1, <2>7, <3>2, <5>1, <5>3 DEF Tiled
        <5> QED
          BY <5>2, <5>3
      <4> QED
        BY <4>1, <4>2, <4>3
    <3>3. ASSUME NEW u \in end .. top - 1
          PROVE  \E a \in Blocks(q) : a <= u /\ u < a + q[a].size
      <4>1. PICK a \in Blocks(m) : a <= u /\ u < a + m[a].size
        BY <1>1 DEF Tiled
      <4>2. CASE a # p
        BY <2>4, <2>7, <4>1, <4>2 DEF Blocks
      <4>3. CASE a = p
        <5>1. u \in Int
          BY <1>0, MallocAssumption DEF Typed
        <5>2. (p <= u /\ u < p + q[p].size) \/ (n <= u /\ u < n + q[n].size)
          BY <1>2, <2>2, <2>4, <4>1, <4>3, <5>1
        <5> QED
          BY <1>2, <2>7, <5>2
      <4> QED
        BY <4>2, <4>3
    <3> QED
      BY <3>1, <3>2, <3>3 DEF Tiled
  <2>11. Ring(q) = Ring(m) /\ Busy(q) = Busy(m) \cup {n} /\ n \notin Busy(m)
    BY <1>2, <2>3, <2>4 DEF Ring, Busy
  <2>12. \A a \in Ring(m) : q[a].ptr = m[a].ptr
    BY <1>2, <2>4 DEF Ring
  <2>13. Linked(q)
    BY <1>1, <2>11, <2>12 DEF Linked, Follows
  <2>14. Apart(q)
    <3> SUFFICES ASSUME NEW a \in Ring(m) \ {base} PROVE a + q[a].size \notin Ring(m)
      BY <2>11 DEF Apart
    <3>1. CASE a = p
      <4>1. a + q[a].size = n
        BY <1>2, <2>2, <2>4, <3>1
      <4> QED
        BY <2>3, <4>1 DEF Ring
    <3>2. CASE a # p
      BY <1>1, <2>4, <3>2 DEF Apart, Ring
    <3> QED
      BY <3>1, <3>2
  <2>15. Good(q, top)
    BY <2>9, <2>10, <2>13, <2>14 DEF Good
  <2>16. \A a \in Busy(m) : q[a].size = m[a].size
    BY <1>2, <2>4 DEF Busy, Ring
  <2> QED
    BY <2>1, <2>4, <2>11, <2>15, <2>16 DEF Heap
<1> QED
  BY <1>4, <1>5

\* The search of malloc finds a block, and the one before it.
LEMMA TakeFirst ==
  ASSUME NEW h, NEW top, Heap(h, top), NEW nu \in Nat, nu >= 1, fits(h, nu) # {},
         NEW r, r = take_first(h, nu)
  PROVE  /\ Heap(r, top) /\ r.at \notin Busy(h.hdr)
         /\ Busy(r.hdr) = Busy(h.hdr) \cup {r.at} /\ r.hdr[r.at].size = nu
         /\ \A a \in Busy(h.hdr) : r.hdr[a].size = h.hdr[a].size
<1> DEFINE S == fits(h, nu)
           n == Min(S)
<1>1. Circle(h)
  BY HeapCircle
<1>2. turn(h) \subseteq 1 .. LIMIT
  BY <1>1, RoundSeesAll
<1>3. S \in SUBSET Nat /\ S # {}
  BY <1>2, MallocAssumption DEF fits
<1>4. n \in S
  <2> HIDE DEF S
  <2> QED
    BY <1>3, MinOf
<1> HIDE DEF n
<1>5. n \in 1 .. LIMIT /\ h.hdr[walk(h)[n]].size >= nu
  BY <1>2, <1>4 DEF fits
<1>6. n - 1 \in 0 .. LIMIT /\ walk(h)[n] = h.hdr[walk(h)[n - 1]].ptr
  BY <1>5, WalkSteps, MallocAssumption
<1>7. walk(h)[n - 1] \in Ring(h.hdr)
  BY <1>1, <1>6, WalkIn
<1>8. r = take(h.hdr, walk(h)[n - 1], walk(h)[n], nu)
  BY DEF take_first, n
<1>9. Good(h.hdr, top)
  BY DEF Heap
<1> DEFINE prevp == walk(h)[n - 1]
           p == walk(h)[n]
<1>10. /\ prevp \in Ring(h.hdr) /\ p = h.hdr[prevp].ptr /\ h.hdr[p].size >= nu
       /\ r = take(h.hdr, prevp, p, nu)
  BY <1>5, <1>6, <1>7, <1>8
<1> HIDE DEF prevp, p
<1> QED
  BY <1>9, <1>10, TakeGood

LEMMA UnitsType ==
  ASSUME NEW nbytes \in Nat
  PROVE  nunits(nbytes) \in Nat /\ nunits(nbytes) >= 1
<1>1. (nbytes + HSIZE - 1) \div HSIZE \in Nat
  BY MallocAssumption
<1> QED
  BY <1>1 DEF nunits

LEMMA CoreSize ==
  ASSUME NEW nu \in Nat
  PROVE  core(nu) \in Nat /\ core(nu) >= nu /\ core(nu) >= 1
<1>1. NALLOC \in Nat /\ NALLOC >= 1
  BY MallocAssumption
<1>2. \E x \in {nu, NALLOC} : \A y \in {nu, NALLOC} : x >= y
  BY <1>1
<1>3. /\ core(nu) \in {nu, NALLOC}
      /\ \A y \in {nu, NALLOC} : core(nu) >= y
  BY <1>2 DEF core, Max
<1> QED
  BY <1>1, <1>3

\* sbrk adds a block behind all the others.
LEMMA GrowGood ==
  ASSUME NEW m, NEW top, Good(m, top), NEW k \in Nat, k >= 1, top + k <= LIMIT,
         NEW up, up = top + k,
         NEW q, q = put(m, top, [ptr |-> NULL, size |-> k])
  PROVE  /\ Good(q, up) /\ Ring(q) = Ring(m) /\ top \notin Busy(m)
         /\ Busy(q) = Busy(m) \cup {top} /\ q[top].size = k
         /\ \A a \in DOMAIN m : q[a] = m[a]
<1>0. Typed(m, top)
  BY Addresses DEF Good
<1>1. Shape(m, top) /\ Tiled(m, top) /\ Linked(m) /\ Apart(m)
  BY DEF Good
<1>2. top \notin DOMAIN m /\ top >= 1 /\ top >= end
  BY <1>0, <1>1, MallocAssumption DEF Typed, Shape, Blocks, base
<1>3. /\ DOMAIN q = DOMAIN m \cup {top}
      /\ q[top] = [ptr |-> NULL, size |-> k]
      /\ \A a \in DOMAIN m : q[a] = m[a]
      /\ q = [a \in DOMAIN q |-> q[a]]
  BY <1>2 DEF put
<1>4. q \in [DOMAIN q -> [ptr : Int, size : Nat]]
  <2>1. \A a \in DOMAIN m : m[a] \in [ptr : Int, size : Nat]
    BY <1>1 DEF Shape
  <2>2. \A a \in DOMAIN q : q[a] \in [ptr : Int, size : Nat]
    BY <1>3, <2>1 DEF NULL
  <2> QED
    BY <1>3, <2>2
<1>5. Blocks(q) = Blocks(m) \cup {top}
  BY <1>2, <1>3 DEF Blocks, base
<1>6. Shape(q, up)
  <2>1. base \in DOMAIN q /\ q[base].size = 0
    BY <1>1, <1>3 DEF Shape
  <2>2. up \in end .. LIMIT
    BY <1>0, <1>2, MallocAssumption DEF Typed
  <2>3. \A a \in Blocks(q) : a \in end .. up - 1 /\ q[a].size >= 1
    <3>1. top \in end .. up - 1
      BY <1>0, <1>2, MallocAssumption DEF Typed
    <3>2. ASSUME NEW a \in Blocks(m) PROVE a \in end .. up - 1 /\ q[a].size >= 1
      BY <1>0, <1>1, <1>3, MallocAssumption DEF Typed, Shape, Blocks
    <3> QED
      BY <1>3, <1>5, <3>1, <3>2
  <2> QED
    BY <1>4, <2>1, <2>2, <2>3 DEF Shape
<1>7. Tiled(q, up)
  <2>1. \A a \in Blocks(m) : q[a] = m[a] /\ a < top /\ a + m[a].size <= top
                               /\ a \in Nat /\ m[a].size \in Nat
    BY <1>0, <1>1, <1>3 DEF Typed, Tiled, Blocks
  <2>2. \A a \in Blocks(q) : a + q[a].size <= up
    BY <1>0, <1>3, <1>5, <2>1 DEF Typed
  <2>3. \A a, b \in Blocks(q) : a < b => a + q[a].size <= b
    BY <1>0, <1>1, <1>5, <2>1 DEF Typed, Tiled
  <2>4. ASSUME NEW u \in end .. up - 1
        PROVE  \E a \in Blocks(q) : a <= u /\ u < a + q[a].size
    <3>1. CASE u >= top
      <4>1. top \in Blocks(q) /\ top <= u /\ u < top + q[top].size
        BY <1>0, <1>3, <1>5, <3>1, MallocAssumption DEF Typed
      <4> QED
        BY <4>1
    <3>2. CASE ~ (u >= top)
      <4>1. u \in end .. top - 1
        BY <1>0, <3>2, MallocAssumption DEF Typed
      <4> QED
        BY <1>1, <1>5, <2>1, <4>1 DEF Tiled
    <3> QED
      BY <3>1, <3>2
  <2> QED
    BY <2>2, <2>3, <2>4 DEF Tiled
<1>8. Ring(q) = Ring(m) /\ Busy(q) = Busy(m) \cup {top} /\ top \notin Busy(m)
  BY <1>2, <1>3 DEF Ring, Busy
<1>9. \A a \in Ring(m) : q[a] = m[a]
  BY <1>3 DEF Ring
<1>10. Linked(q) /\ Apart(q)
  BY <1>1, <1>8, <1>9 DEF Linked, Follows, Apart
<1> QED
  BY <1>3, <1>6, <1>7, <1>8, <1>10 DEF Good

\* After morecore there is room.
LEMMA GrownFree ==
  ASSUME NEW m, NEW top, Good(m, top), NEW nu \in Nat, nu >= 1,
         NEW k, k = core(nu), NEW up, up = top + k, up <= LIMIT,
         NEW g, g.hdr = put(m, top, [ptr |-> NULL, size |-> k]), g.freep \in Ring(m),
         NEW ap, ap - 1 = top, NEW r, r = free(g, ap)
  PROVE  /\ Heap(r, up) /\ fits(r, nu) # {}
         /\ Busy(r.hdr) = Busy(m)
         /\ \A a \in Busy(m) : r.hdr[a].size = m[a].size
<1> DEFINE q == put(m, top, [ptr |-> NULL, size |-> k])
<1>1. k \in Nat /\ k >= nu /\ k >= 1
  BY CoreSize
<1>2. /\ Good(q, up) /\ Ring(q) = Ring(m) /\ top \notin Busy(m)
      /\ Busy(q) = Busy(m) \cup {top} /\ q[top].size = k
      /\ \A a \in DOMAIN m : q[a] = m[a]
  BY <1>1, GrowGood
<1>3. g.hdr = q
  OBVIOUS
<1> HIDE DEF q
<1>4. Heap(g, up) /\ ap - 1 \in Busy(g.hdr) /\ top \in Busy(g.hdr)
  BY <1>2, <1>3 DEF Heap
<1>5. /\ Heap(r, up) /\ Busy(r.hdr) = Busy(g.hdr) \ {ap - 1}
      /\ \A a \in Busy(r.hdr) : r.hdr[a].size = g.hdr[a].size
      /\ \E a \in Ring(r.hdr) : r.hdr[a].size >= g.hdr[ap - 1].size
  BY <1>4, FreeHeap
<1>6. Busy(r.hdr) = Busy(m)
  BY <1>2, <1>3, <1>5
<1>7. \A a \in Busy(m) : r.hdr[a].size = m[a].size
  BY <1>2, <1>3, <1>5, <1>6 DEF Busy
<1>8. fits(r, nu) # {}
  <2>1. PICK a \in Ring(r.hdr) : r.hdr[a].size >= k
    BY <1>2, <1>3, <1>5
  <2>2. PICK n \in turn(r) : walk(r)[n] = a
    BY <1>5, HeapCircle, RoundSeesAll
  <2>3. r.hdr[a].size \in Nat
    BY <1>5, <2>1 DEF Heap, Good, Shape, Ring
  <2>4. n \in fits(r, nu)
    BY <1>1, <2>1, <2>2, <2>3 DEF fits
  <2> QED
    BY <2>4
<1> QED
  BY <1>5, <1>6, <1>7, <1>8

-----------------------------------------------------------------------------
(***************************************************************************)
(* The invariant.                                                          *)
(***************************************************************************)

LEMMA HeapNow ==
  ASSUME HInv
  PROVE  heap = [hdr |-> hdr, freep |-> heap.freep] /\ Heap(heap, old_brk)
<1>1. CASE freep # NULL
  BY <1>1 DEF HInv, heap, Heap
<1>2. CASE freep = NULL
  <2>1. hdr = [a \in {base} |-> [ptr |-> base, size |-> 0]]
    BY <1>2 DEF HInv
  <2>2. put(hdr, base, [ptr |-> base, size |-> 0]) = hdr
    BY <2>1 DEF put
  <2>3. heap = [hdr |-> hdr, freep |-> base]
    BY <1>2, <2>2 DEF heap
  <2> QED
    BY <2>3 DEF HInv, Heap, Good, Linked
<1> QED
  BY <1>1, <1>2

LEMMA MoreCore ==
  ASSUME HInv, NEW nu \in Nat, nu >= 1, old_brk + core(nu) <= LIMIT,
         NEW r, r = morecore(heap, nu)
  PROVE  /\ Heap(r, old_brk + core(nu)) /\ fits(r, nu) # {}
         /\ Busy(r.hdr) = Busy(hdr)
         /\ \A a \in Busy(hdr) : r.hdr[a].size = hdr[a].size
<1> DEFINE k == core(nu)
           up == old_brk + k
           g == [heap EXCEPT !.hdr = put(@, old_brk, [ptr |-> NULL, size |-> k])]
           ap == old_brk + 1
<1>1. heap = [hdr |-> hdr, freep |-> heap.freep] /\ Heap(heap, old_brk)
  BY HeapNow
<1>2. Good(hdr, old_brk) /\ heap.freep \in Ring(hdr)
  BY <1>1 DEF Heap
<1>3. r = free(g, ap)
  BY DEF morecore
<1>4. ap - 1 = old_brk
  BY <1>2, Addresses DEF Good, Typed
<1>5. /\ g.hdr = put(hdr, old_brk, [ptr |-> NULL, size |-> k]) /\ g.freep = heap.freep
      /\ k = core(nu) /\ up = old_brk + k /\ up <= LIMIT
  BY <1>1
<1> HIDE DEF k, up, g, ap
<1>6. /\ Heap(r, up) /\ fits(r, nu) # {}
      /\ Busy(r.hdr) = Busy(hdr)
      /\ \A a \in Busy(hdr) : r.hdr[a].size = hdr[a].size
  BY <1>2, <1>3, <1>4, <1>5, GrownFree
<1> QED
  BY <1>6 DEF up, k

LEMMA InitHeap == Init => HInv
<1> SUFFICES ASSUME Init PROVE HInv
  OBVIOUS
<1>1. /\ DOMAIN hdr = {base} /\ hdr[base] = [ptr |-> 0, size |-> 0]
      /\ hdr \in [DOMAIN hdr -> [ptr : Int, size : Nat]]
      /\ hdr = [a \in {base} |-> [ptr |-> base, size |-> 0]]
      /\ freep = NULL /\ old_brk = end /\ DOMAIN held = {}
  BY DEF Init, empty, base
<1>2. Ring(hdr) = {base} /\ Busy(hdr) = {} /\ Blocks(hdr) = {}
  BY <1>1 DEF Ring, Busy, Blocks, base, NULL
<1>3. Shape(hdr, end)
  BY <1>1, <1>2, MallocAssumption DEF Shape
<1>4. Tiled(hdr, end)
  BY <1>1, <1>2, MallocAssumption DEF Tiled
<1>5. Linked(hdr) /\ Apart(hdr)
  BY <1>1, <1>2 DEF Linked, Follows, Apart, base
<1>6. Given(hdr, held)
  BY <1>1, <1>2 DEF Given
<1> QED
  BY <1>1, <1>3, <1>4, <1>5, <1>6 DEF HInv, Good

\* What both ways of malloc end with.
LEMMA ReturnedHeap ==
  ASSUME HInv, NEW nbytes \in Nat, NEW h, NEW top, Heap(h, top),
         Busy(h.hdr) = Busy(hdr),
         \A a \in Busy(hdr) : h.hdr[a].size = hdr[a].size,
         fits(h, nunits(nbytes)) # {},
         returned(nbytes, take_first(h, nunits(nbytes))), old_brk' = top
  PROVE  HInv'
<1> DEFINE nu == nunits(nbytes)
           r == take_first(h, nu)
<1>1. nu \in Nat /\ nu >= 1
  BY UnitsType
<1>2. fits(h, nu) # {} /\ returned(nbytes, r)
  OBVIOUS
<1>3. nu = nunits(nbytes)
  OBVIOUS
<1> HIDE DEF nu
<1>4. /\ Heap(r, top) /\ r.at \notin Busy(hdr)
      /\ Busy(r.hdr) = Busy(hdr) \cup {r.at} /\ r.hdr[r.at].size = nu
      /\ \A a \in Busy(hdr) : r.hdr[a].size = hdr[a].size
  BY <1>1, <1>2, TakeFirst
<1> HIDE DEF r
<1>5. hdr' = r.hdr /\ freep' = r.freep /\ held' = put(held, r.at + 1, nbytes)
  BY <1>2 DEF returned
<1>6. Typed(r.hdr, top) /\ freep' \in Ring(r.hdr) /\ Good(r.hdr, top)
  BY <1>4, <1>5, Addresses DEF Heap, Good
<1>7. freep' # NULL
  BY <1>6 DEF Typed, NULL
<1>8. Busy(r.hdr) \subseteq Nat
  BY <1>6 DEF Typed, Busy
<1>9. Given(hdr, held)
  BY DEF HInv
<1>10. /\ DOMAIN held' = DOMAIN held \cup {r.at + 1}
       /\ held'[r.at + 1] = nbytes
       /\ \A ap \in DOMAIN held : ap # r.at + 1 => held'[ap] = held[ap]
  BY <1>5 DEF put
<1>11. Given(hdr', held')
  <2>1. DOMAIN held' = {a + 1 : a \in Busy(r.hdr)}
    BY <1>4, <1>9, <1>10 DEF Given
  <2>2. ASSUME NEW a \in Busy(r.hdr)
        PROVE  held'[a + 1] \in Nat /\ r.hdr[a].size = nunits(held'[a + 1])
    <3>1. CASE a = r.at
      BY <1>3, <1>4, <1>10, <3>1
    <3>2. CASE a # r.at
      <4>1. a \in Busy(hdr) /\ a \in Nat /\ r.at \in Nat /\ a + 1 # r.at + 1
            /\ (a + 1) - 1 = a
        BY <1>4, <1>8, <3>2
      <4>2. a + 1 \in DOMAIN held
        BY <1>9, <4>1 DEF Given
      <4>3. held[a + 1] \in Nat /\ hdr[(a + 1) - 1].size = nunits(held[a + 1])
        BY <1>9, <4>2 DEF Given
      <4> QED
        BY <1>4, <1>10, <4>1, <4>2, <4>3
    <3> QED
      BY <3>1, <3>2
  <2>3. \A ap \in DOMAIN held' : held'[ap] \in Nat /\ hdr'[ap - 1].size = nunits(held'[ap])
    <3> SUFFICES ASSUME NEW a \in Busy(r.hdr)
                 PROVE  /\ held'[a + 1] \in Nat
                        /\ hdr'[(a + 1) - 1].size = nunits(held'[a + 1])
      BY <2>1
    <3>1. (a + 1) - 1 = a
      BY <1>8
    <3> QED
      BY <1>5, <2>2, <3>1
  <2> QED
    BY <1>5, <2>1, <2>3 DEF Given
<1> QED
  BY <1>5, <1>6, <1>7, <1>11 DEF HInv

LEMMA FreeStep ==
  ASSUME HInv, NEW ap \in DOMAIN held, call_free(ap)
  PROVE  HInv'
<1> DEFINE r == free(heap, ap)
<1>1. hdr' = r.hdr /\ freep' = r.freep /\ held' = drop(held, ap) /\ old_brk' = old_brk
  BY DEF call_free
<1>2. Given(hdr, held) /\ Typed(hdr, old_brk)
  BY Addresses DEF HInv, Good
<1>3. PICK bp \in Busy(hdr) : ap = bp + 1
  BY <1>2 DEF Given
<1>4. Heap(heap, old_brk) /\ heap.hdr = hdr
  BY HeapNow
<1>5. r = free(heap, ap) /\ ap - 1 = bp
  BY <1>2, <1>3 DEF Typed, Busy
<1> HIDE DEF r
<1>6. /\ Heap(r, old_brk) /\ Busy(r.hdr) = Busy(hdr) \ {bp}
      /\ \A a \in Busy(r.hdr) : r.hdr[a].size = hdr[a].size
  BY <1>3, <1>4, <1>5, FreeHeap
<1>7. Typed(r.hdr, old_brk) /\ freep' \in Ring(r.hdr) /\ Good(r.hdr, old_brk)
  BY <1>1, <1>6, Addresses DEF Heap, Good
<1>8. freep' # NULL
  BY <1>7 DEF Typed, NULL
<1>9. Busy(hdr) \subseteq Nat
  BY <1>2 DEF Typed, Busy
<1>10. /\ DOMAIN held' = DOMAIN held \ {ap}
       /\ \A aq \in DOMAIN held' : held'[aq] = held[aq]
  BY <1>1 DEF drop
<1>11. Given(hdr', held')
  <2>1. DOMAIN held' = {a + 1 : a \in Busy(r.hdr)}
    <3>1. DOMAIN held = {a + 1 : a \in Busy(hdr)}
      BY <1>2 DEF Given
    <3> QED
      BY <1>3, <1>6, <1>9, <1>10, <3>1
  <2>2. ASSUME NEW aq \in DOMAIN held'
        PROVE  held'[aq] \in Nat /\ hdr'[aq - 1].size = nunits(held'[aq])
    <3>1. aq \in DOMAIN held /\ held'[aq] = held[aq]
      BY <1>10
    <3>2. held[aq] \in Nat /\ hdr[aq - 1].size = nunits(held[aq])
      BY <1>2, <3>1 DEF Given
    <3>3. PICK a \in Busy(r.hdr) : aq = a + 1
      BY <2>1
    <3>4. aq - 1 = a
      BY <1>6, <1>9, <3>3
    <3> QED
      BY <1>1, <1>6, <3>1, <3>2, <3>4
  <2> QED
    BY <1>1, <2>1, <2>2 DEF Given
<1> QED
  BY <1>1, <1>7, <1>8, <1>11 DEF HInv

LEMMA NextHeap == HInv /\ [Next]_vars => HInv'
<1> SUFFICES ASSUME HInv, [Next]_vars PROVE HInv'
  OBVIOUS
<1>1. ASSUME NEW nbytes \in Sizes, malloc(nbytes) PROVE HInv'
  <2>1. nbytes \in Nat
    BY MallocAssumption
  <2>2. Heap(heap, old_brk) /\ heap.hdr = hdr
    BY HeapNow
  <2>3. /\ fits(heap, nunits(nbytes)) # {} /\ old_brk' = old_brk
        /\ returned(nbytes, take_first(heap, nunits(nbytes)))
    BY <1>1 DEF malloc
  <2> QED
    BY <2>1, <2>2, <2>3, ReturnedHeap
<1>2. ASSUME NEW nbytes \in Sizes, malloc_more(nbytes) PROVE HInv'
  <2> DEFINE nu == nunits(nbytes)
             h == morecore(heap, nu)
  <2>1. nbytes \in Nat /\ nu \in Nat /\ nu >= 1
    BY MallocAssumption, UnitsType
  <2>2. Heap(heap, old_brk) /\ heap = [hdr |-> hdr, freep |-> heap.freep]
    BY HeapNow
  <2>3. /\ old_brk + core(nu) <= LIMIT /\ old_brk' = old_brk + core(nu)
        /\ returned(nbytes, take_first(h, nu))
    BY <1>2 DEF malloc_more
  <2>4. /\ Heap(h, old_brk + core(nu)) /\ fits(h, nu) # {}
        /\ Busy(h.hdr) = Busy(hdr)
        /\ \A a \in Busy(hdr) : h.hdr[a].size = hdr[a].size
    <3> HIDE DEF nu
    <3> QED
      BY <2>1, <2>2, <2>3, MoreCore
  <2> HIDE DEF h
  <2> QED
    BY <2>1, <2>3, <2>4, ReturnedHeap
<1>3. CASE UNCHANGED vars
  BY <1>3 DEF vars, HInv, Good, Shape, Tiled, Linked, Follows, Apart, Given, Ring, Busy,
     Blocks
<1> QED
  BY <1>1, <1>2, <1>3, FreeStep DEF Next

LEMMA HeapInvariant == Spec => []HInv
  BY InitHeap, NextHeap, PTL DEF Spec

-----------------------------------------------------------------------------
(***************************************************************************)
(* The theorems.                                                           *)
(***************************************************************************)

LEMMA FreeBlocksAre ==
  ASSUME HInv
  PROVE  free_blocks = Ring(hdr) \ {base}
<1>1. CASE freep = NULL
  <2>1. hdr = [a \in {base} |-> [ptr |-> base, size |-> 0]]
    BY <1>1 DEF HInv
  <2>2. Ring(hdr) \subseteq {base}
    BY <2>1 DEF Ring
  <2> QED
    BY <1>1, <2>2 DEF free_blocks
<1>2. CASE freep # NULL
  <2>1. Circle(heap) /\ heap.hdr = hdr
    BY HeapNow, HeapCircle
  <2>2. {walk(heap)[n] : n \in 0 .. LIMIT} = Ring(hdr)
    BY <2>1, RoundSeesAll
  <2> QED
    BY <1>2, <2>2 DEF free_blocks
<1> QED
  BY <1>1, <1>2

LEMMA HeldBlocksAre ==
  ASSUME HInv
  PROVE  /\ \A ap \in DOMAIN held : /\ ap - 1 \in Busy(hdr) /\ ap \in Nat
                                    /\ held_units(ap) = free_units(ap - 1)
         /\ \A a \in Busy(hdr) : a + 1 \in DOMAIN held
<1>1. Given(hdr, held) /\ Typed(hdr, old_brk)
  BY Addresses DEF HInv, Good
<1>2. Busy(hdr) \subseteq Nat
  BY <1>1 DEF Typed, Busy
<1>3. ASSUME NEW ap \in DOMAIN held
      PROVE  /\ ap - 1 \in Busy(hdr) /\ ap \in Nat
             /\ held_units(ap) = free_units(ap - 1)
  <2>1. PICK a \in Busy(hdr) : ap = a + 1
    BY <1>1 DEF Given
  <2>2. ap - 1 = a /\ ap \in Nat
    BY <1>2, <2>1
  <2>3. held[ap] \in Nat /\ hdr[ap - 1].size = nunits(held[ap])
    BY <1>1 DEF Given
  <2> DEFINE d == (held[ap] + HSIZE - 1) \div HSIZE
  <2>4. d \in Nat /\ hdr[ap - 1].size = d + 1
    BY <2>3, MallocAssumption DEF nunits
  <2>5. held_units(ap) = ap - 1 .. ap - 1 + d
    BY DEF held_units
  <2> HIDE DEF d
  <2>6. ap - 1 + hdr[ap - 1].size - 1 = ap - 1 + d
    BY <2>2, <2>4
  <2> QED
    BY <2>1, <2>2, <2>5, <2>6 DEF free_units
<1>4. \A a \in Busy(hdr) : a + 1 \in DOMAIN held
  BY <1>1 DEF Given
<1> QED
  BY <1>3, <1>4

LEMMA InvPartitioned ==
  ASSUME HInv
  PROVE  Partitioned
<1>1. Typed(hdr, old_brk) /\ Shape(hdr, old_brk) /\ Tiled(hdr, old_brk)
      /\ Linked(hdr) /\ Apart(hdr)
  BY Addresses DEF HInv, Good
<1>2. free_blocks = Ring(hdr) \ {base}
  BY FreeBlocksAre
<1>3. /\ \A ap \in DOMAIN held : /\ ap - 1 \in Busy(hdr) /\ ap \in Nat
                                 /\ held_units(ap) = free_units(ap - 1)
      /\ \A a \in Busy(hdr) : a + 1 \in DOMAIN held
  BY HeldBlocksAre
<1>4. Blocks(hdr) = free_blocks \cup Busy(hdr) /\ free_blocks \cap Busy(hdr) = {}
  BY <1>1, <1>2 DEF Linked, Blocks, Ring, Busy
<1>5. \A a \in Blocks(hdr) : a \in Nat /\ hdr[a].size \in Nat
  BY <1>1 DEF Typed, Blocks
<1>6. \A a, b \in Blocks(hdr) : a # b => free_units(a) \cap free_units(b) = {}
  <2> SUFFICES ASSUME NEW a \in Blocks(hdr), NEW b \in Blocks(hdr), a # b,
                      NEW u \in free_units(a), u \in free_units(b)
               PROVE  FALSE
    OBVIOUS
  <2>1. /\ a <= u /\ u <= a + hdr[a].size - 1 /\ u \in Int
        /\ b <= u /\ u <= b + hdr[b].size - 1
    BY <1>5 DEF free_units
  <2>2. a + hdr[a].size <= b \/ b + hdr[b].size <= a
    BY <1>1, <1>5 DEF Tiled
  <2> QED
    BY <1>5, <2>1, <2>2
<1>7. \A a \in Blocks(hdr) : free_units(a) \subseteq end .. old_brk - 1
  <2> SUFFICES ASSUME NEW a \in Blocks(hdr), NEW u \in free_units(a)
               PROVE  u \in end .. old_brk - 1
    OBVIOUS
  <2>1. a <= u /\ u <= a + hdr[a].size - 1 /\ u \in Int
    BY <1>5 DEF free_units
  <2>2. a + hdr[a].size <= old_brk /\ end <= a /\ old_brk \in Nat /\ end \in Nat
    BY <1>1, MallocAssumption DEF Tiled, Shape, Typed
  <2> QED
    BY <1>5, <2>1, <2>2
<1>8. \A u \in end .. old_brk - 1 : \E a \in Blocks(hdr) : u \in free_units(a)
  <2> SUFFICES ASSUME NEW u \in end .. old_brk - 1
               PROVE  \E a \in Blocks(hdr) : u \in free_units(a)
    OBVIOUS
  <2>1. PICK a \in Blocks(hdr) : a <= u /\ u < a + hdr[a].size
    BY <1>1 DEF Tiled
  <2>2. u \in free_units(a)
    BY <1>5, <2>1, MallocAssumption DEF free_units
  <2> QED
    BY <2>2
<1>9. UNION ({free_units(b) : b \in free_blocks} \cup {held_units(ap) : ap \in DOMAIN held})
        = end .. old_brk - 1
  <2> DEFINE U == UNION ({free_units(b) : b \in free_blocks}
                           \cup {held_units(ap) : ap \in DOMAIN held})
  <2>1. ASSUME NEW u \in U PROVE u \in end .. old_brk - 1
    <3>1. CASE \E b \in free_blocks : u \in free_units(b)
      BY <1>4, <1>7, <3>1
    <3>2. CASE \E ap \in DOMAIN held : u \in held_units(ap)
      BY <1>3, <1>4, <1>7, <3>2
    <3> QED
      BY <3>1, <3>2
  <2>2. ASSUME NEW u \in end .. old_brk - 1 PROVE u \in U
    <3>1. PICK a \in Blocks(hdr) : u \in free_units(a)
      BY <1>8
    <3>2. CASE a \in free_blocks
      BY <3>1, <3>2
    <3>3. CASE a \in Busy(hdr)
      <4>1. a + 1 \in DOMAIN held /\ (a + 1) - 1 = a
        BY <1>3, <1>4, <1>5, <3>3
      <4>2. u \in held_units(a + 1)
        BY <1>3, <3>1, <4>1
      <4> QED
        BY <4>1, <4>2
    <3> QED
      BY <1>4, <3>2, <3>3
  <2> QED
    BY <2>1, <2>2
<1>10. \A b, c \in free_blocks : b # c => free_units(b) \cap free_units(c) = {}
  BY <1>4, <1>6
<1>11. \A ap, aq \in DOMAIN held : ap # aq => held_units(ap) \cap held_units(aq) = {}
  <2> SUFFICES ASSUME NEW ap \in DOMAIN held, NEW aq \in DOMAIN held, ap # aq
               PROVE  held_units(ap) \cap held_units(aq) = {}
    OBVIOUS
  <2>1. ap - 1 # aq - 1 /\ ap - 1 \in Blocks(hdr) /\ aq - 1 \in Blocks(hdr)
    BY <1>3, <1>4
  <2> QED
    BY <1>3, <1>6, <2>1
<1>12. \A b \in free_blocks, ap \in DOMAIN held : free_units(b) \cap held_units(ap) = {}
  <2> SUFFICES ASSUME NEW b \in free_blocks, NEW ap \in DOMAIN held
               PROVE  free_units(b) \cap held_units(ap) = {}
    OBVIOUS
  <2>1. b # ap - 1 /\ b \in Blocks(hdr) /\ ap - 1 \in Blocks(hdr)
    BY <1>3, <1>4
  <2> QED
    BY <1>3, <1>6, <2>1
<1>13. \A b, c \in free_blocks : b + hdr[b].size # c
  BY <1>1, <1>2 DEF Apart
<1> QED
  BY <1>9, <1>10, <1>11, <1>12, <1>13 DEF Partitioned

\* The blocks that the program holds and the free ones fill the heap without a
\* gap and without an overlap, and no two free ones are neighbours, whatever the
\* program allocates and frees, in whatever order, and however large the heap is
\* (stdlib.c:34-100).
THEOREM HeapIsPartitioned == Spec => []Partitioned
<1>1. HInv => Partitioned
  BY InvPartitioned
<1> QED
  BY <1>1, HeapInvariant, PTL

LEMMA GrowStep ==
  ASSUME HInv, [Next]_vars, old_brk' # old_brk
  PROVE  \A b \in free_blocks, ap \in DOMAIN held' \ DOMAIN held :
           hdr[b].size < nunits(held'[ap])
<1>1. PICK nbytes \in Sizes : malloc_more(nbytes)
  BY DEF Next, vars, malloc, call_free
<1> DEFINE nu == nunits(nbytes)
           r == take_first(morecore(heap, nu), nu)
<1>2. fits(heap, nu) = {} /\ held' = put(held, r.at + 1, nbytes)
  BY <1>1 DEF malloc_more, returned
<1>3. nbytes \in Nat /\ nu \in Nat
  BY UnitsType, MallocAssumption
<1> HIDE DEF nu, r
<1>4. ASSUME NEW b \in free_blocks PROVE hdr[b].size < nu
  <2>1. Circle(heap) /\ heap.hdr = hdr /\ b \in Ring(hdr)
    BY HeapNow, HeapCircle, FreeBlocksAre
  <2>2. PICK n \in turn(heap) : walk(heap)[n] = b
    BY <2>1, RoundSeesAll
  <2>3. ~ (hdr[b].size >= nu)
    BY <1>2, <2>1, <2>2 DEF fits
  <2>4. hdr[b].size \in Nat
    BY <2>1 DEF HInv, Good, Shape, Ring
  <2> QED
    BY <1>3, <2>3, <2>4
<1>5. ASSUME NEW ap \in DOMAIN held' \ DOMAIN held PROVE nunits(held'[ap]) = nu
  BY <1>2 DEF put, nu
<1> QED
  BY <1>4, <1>5

\* malloc asks the kernel for more memory only when no free block is large
\* enough, wherever the search starts: it goes around the whole ring once and
\* misses no block, in particular not the one it started at (stdlib.c:73-100).
THEOREM GrowsAtNeed == Spec => GrowsWhenNeeded
<1>1. HInv /\ [Next]_vars =>
        [old_brk' # old_brk =>
           \A b \in free_blocks, ap \in DOMAIN held' \ DOMAIN held :
             hdr[b].size < nunits(held'[ap])]_vars
  BY GrowStep
<1> QED
  BY <1>1, HeapInvariant, PTL DEF Spec, GrowsWhenNeeded

=============================================================================
