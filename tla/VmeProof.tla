------------------------------ MODULE VmeProof ------------------------------
(***************************************************************************)
(* Proofs about Vme for any number of PCBs and frames, any size of page    *)
(* tables and pages, and any programs: every frame has one owner, programs *)
(* never fault, and the page tables implement separate address spaces.     *)
(***************************************************************************)
EXTENDS Vme, FiniteSetTheorems, WellFoundedInduction, TLAPS

-----------------------------------------------------------------------------
(***************************************************************************)
(* What the functions of vme.c and loader.c do to the memory, for any number *)
(* of frames, any size of page tables and pages, and any programs: which   *)
(* frames they take and give back, and which pages stay as they were.      *)
(***************************************************************************)

-----------------------------------------------------------------------------
(***************************************************************************)
(* Numbers and loops.                                                      *)
(***************************************************************************)

\* A nonempty set of naturals has a least element.
LEMMA LeastNatural ==
  ASSUME NEW S \in SUBSET Nat, S # {}
  PROVE  \E x \in S : \A y \in S : x <= y
<1> DEFINE Less == {ss \in Nat \X Nat : ss[1] < ss[2]}
<1>1. IsWellFoundedOn(Less, Nat)
  BY NatLessThanWellFounded, Zenon DEF OpToRel
<1> HIDE DEF Less
<1>2. PICK x \in S : \A y \in S : ~ (<<y, x>> \in Less)
  BY <1>1, WFMin
<1>3. \A y \in S : x <= y
  <2> SUFFICES ASSUME NEW y \in S, y < x PROVE FALSE
    OBVIOUS
  <2>1. <<y, x>> \in Nat \X Nat
    OBVIOUS
  <2>2. <<y, x>>[1] < <<y, x>>[2]
    OBVIOUS
  <2> QED
    BY <1>2, <2>1, <2>2 DEF Less
<1> QED
  BY <1>3

\* Induction over the rounds of a loop: what holds before it and is kept by each
\* round holds after each.  good is the set of the rounds after which it holds.
LEMMA RoundByRound ==
  ASSUME NEW n \in Nat, NEW good, 0 \in good,
         \A k \in 1 .. n : k - 1 \in good => k \in good
  PROVE  \A k \in 0 .. n : k \in good
<1> DEFINE bad == {k \in 0 .. n : k \notin good}
<1> SUFFICES ASSUME bad # {} PROVE FALSE
  OBVIOUS
<1>0. bad \in SUBSET Nat
  OBVIOUS
<1>1. PICK k \in bad : \A j \in bad : k <= j
  <2> HIDE DEF bad
  <2> QED
    BY <1>0, LeastNatural
<1>2. k # 0
  OBVIOUS
<1>3. k \in 1 .. n /\ k - 1 \in 0 .. n /\ ~ (k <= k - 1)
  BY <1>2
<1>4. k - 1 \notin bad
  BY <1>1, <1>3
<1> QED
  BY <1>3, <1>4

\* f[k] is what k rounds make of s, if round k is G[k].
Iterates(f, n, s, G) == f[0] = s /\ \A k \in 1 .. n : f[k] = G[k][f[k - 1]]

\* The loops of Vme exist: n rounds of a function G that stays in S, from s.
LEMMA Rounds ==
  ASSUME NEW n \in Nat, NEW S, NEW s \in S, NEW G \in [1 .. n -> [S -> S]]
  PROVE  \E f \in [0 .. n -> S] : Iterates(f, n, s, G)
<1> DEFINE Upto(f, k) == /\ f[0] = s
                         /\ \A j \in 1 .. k : f[j] = G[j][f[j - 1]]
                         /\ \A j \in 0 .. k : f[j] \in S
           good == {k \in 0 .. n : \E f : Upto(f, k)}
<1>1. 0 \in good
  <2> DEFINE g == [j \in {0} |-> s]
  <2>1. Upto(g, 0)
    OBVIOUS
  <2> HIDE DEF g, Upto
  <2> QED
    BY <2>1
<1>2. ASSUME NEW k \in 1 .. n, k - 1 \in good PROVE k \in good
  <2>1. PICK f : Upto(f, k - 1)
    BY <1>2
  <2> DEFINE g == [j \in 0 .. k |-> IF j = k THEN G[k][f[k - 1]] ELSE f[j]]
  <2>2. f[k - 1] \in S
    BY <2>1
  <2>3. G[k][f[k - 1]] \in S
    BY <2>2
  <2>4. Upto(g, k)
    BY <2>1, <2>3
  <2> HIDE DEF g, Upto
  <2> QED
    BY <2>4
<1>3. n \in good
  <2> HIDE DEF good
  <2>1. \A k \in 0 .. n : k \in good
    BY <1>1, <1>2, RoundByRound
  <2> QED
    BY <2>1
<1>4. PICK f : Upto(f, n)
  BY <1>3
<1> DEFINE g == [j \in 0 .. n |-> f[j]]
<1>5. g \in [0 .. n -> S]
  BY <1>4
<1>6. Iterates(g, n, s, G)
  BY <1>4 DEF Iterates
<1> HIDE DEF g
<1> QED
  BY <1>5, <1>6

\* The table and the entry of a page, and that they determine it.
LEMMA PageIndex ==
  ASSUME NEW v \in Pages
  PROVE  DIR(v) \in 0 .. NR_PDE - 1 /\ TBL(v) \in 0 .. NR_PTE - 1
  BY VmeAssumption DEF Pages, DIR, TBL

LEMMA PageOfIndex ==
  ASSUME NEW u \in Pages, NEW v \in Pages, DIR(u) = DIR(v), TBL(u) = TBL(v)
  PROVE  u = v
  BY VmeAssumption DEF Pages, DIR, TBL

-----------------------------------------------------------------------------
(***************************************************************************)
(* The types of the memory.                                                *)
(***************************************************************************)

Cells == 0 .. NPAGES
DEntries == 0 .. NR_PDE - 1
TEntries == 0 .. NR_PTE - 1
Entries == 0 .. (IF NR_PTE > NR_PDE THEN NR_PTE ELSE NR_PDE) - 1
Entry == [page : Cells, p : BOOLEAN, w : BOOLEAN]
Contents == {"zero", "args"} \cup DOMAIN Image \cup Bytes
Content == [e : [Entries -> Entry], kern : BOOLEAN, b : Contents]
Memory == [free : Seq(Cells), mem : [Cells -> Content], fault : Faults]

LEMMA Sizes ==
  /\ Frames \subseteq Cells /\ Frames \cup {kpd} = Cells /\ kpd \in Cells
  /\ kpd \notin Frames /\ 0 \in Cells
  /\ DEntries \subseteq Entries /\ TEntries \subseteq Entries
  /\ stack \in Pages
  BY VmeAssumption
  DEF Frames, Cells, kpd, DEntries, TEntries, Entries, stack, Pages

LEMMA EntriesOfPage ==
  ASSUME NEW v \in Pages
  PROVE  /\ DIR(v) \in DEntries /\ TBL(v) \in TEntries
         /\ DIR(v) \in Entries /\ TBL(v) \in Entries
  BY PageIndex, Sizes DEF DEntries, TEntries

LEMMA ZeroedType == zeroed \in Content /\ no_entry \in Entry
  BY Sizes DEF zeroed, Content, no_entry, Entry, Contents, Entries

\* The operations on the memory are closed in Memory, whatever the page tables
\* say.
LEMMA StopType ==
  ASSUME NEW m \in Memory, NEW why \in Faults
  PROVE  stop(m, why) \in Memory
  BY DEF stop, Memory

LEMMA EntryType ==
  ASSUME NEW m \in Memory, NEW f \in Cells, NEW i \in Entries
  PROVE  /\ m.mem[f].e[i] \in Entry
         /\ m.mem[f].e[i].page \in Cells
         /\ m.mem[f].e[i].p \in BOOLEAN /\ m.mem[f].e[i].w \in BOOLEAN
  BY DEF Memory, Content, Entry

\* The ways in which the memory is written.
LEMMA UpdateType ==
  ASSUME NEW m \in Memory, NEW fr \in Seq(Cells), NEW f \in Cells, NEW c \in Content
  PROVE  [m EXCEPT !.free = fr, !.mem[f] = c] \in Memory
  BY DEF Memory

LEMMA SetKernType ==
  ASSUME NEW m \in Memory, NEW f \in Cells
  PROVE  [m EXCEPT !.mem[f].kern = TRUE] \in Memory
  BY DEF Memory, Content

LEMMA SetBytesType ==
  ASSUME NEW m \in Memory, NEW f \in Cells, NEW x \in Contents
  PROVE  [m EXCEPT !.mem[f].b = x] \in Memory
  BY DEF Memory, Content

LEMMA SetEntryType ==
  ASSUME NEW m \in Memory, NEW f \in Cells, NEW i \in Entries,
         NEW x \in Entry
  PROVE  [m EXCEPT !.mem[f].e[i] = x] \in Memory
  BY DEF Memory, Content

LEMMA ClearEntry ==
  ASSUME NEW x \in Entry
  PROVE  [x EXCEPT !.p = FALSE] \in Entry
  BY DEF Entry

LEMMA WidenEntry ==
  ASSUME NEW x \in Entry, NEW w \in BOOLEAN
  PROVE  [x EXCEPT !.w = @ \/ w] \in Entry
<1> DEFINE y == x.w \/ w
<1>1. y \in BOOLEAN
  OBVIOUS
<1> HIDE DEF y
<1>2. [x EXCEPT !.w = y] \in Entry
  BY <1>1 DEF Entry
<1> QED
  BY <1>2 DEF y

LEMMA WidenType ==
  ASSUME NEW m \in Memory, NEW f \in Cells, NEW i \in Entries,
         NEW w \in BOOLEAN
  PROVE  [m EXCEPT !.mem[f].e[i].w = @ \/ w] \in Memory
<1> DEFINE x == [m.mem[f].e[i] EXCEPT !.w = @ \/ w]
<1>1. x \in Entry
  BY EntryType, WidenEntry
<1>2. [m EXCEPT !.mem[f].e[i].w = @ \/ w] = [m EXCEPT !.mem[f].e[i] = x]
  OBVIOUS
<1> HIDE DEF x
<1>3. [m EXCEPT !.mem[f].e[i] = x] \in Memory
  BY <1>1 DEF Memory, Content
<1> QED
  BY <1>2, <1>3

LEMMA ClearType ==
  ASSUME NEW m \in Memory, NEW f \in Cells, NEW i \in Entries
  PROVE  [m EXCEPT !.mem[f].e[i].p = FALSE] \in Memory
<1> DEFINE x == [m.mem[f].e[i] EXCEPT !.p = FALSE]
<1>1. x \in Entry
  BY EntryType, ClearEntry
<1>2. [m EXCEPT !.mem[f].e[i].p = FALSE] = [m EXCEPT !.mem[f].e[i] = x]
  OBVIOUS
<1> HIDE DEF x
<1>3. [m EXCEPT !.mem[f].e[i] = x] \in Memory
  BY <1>1 DEF Memory, Content
<1> QED
  BY <1>2, <1>3

LEMMA KallocType ==
  ASSUME NEW m \in Memory
  PROVE  /\ kalloc(m) \in Memory
         /\ ok(kalloc(m)) => /\ ok(m) /\ m.free # <<>> /\ fresh(m) \in Cells
                             /\ kalloc(m).free = Tail(m.free)
<1>1. CASE ~ ok(m)
  BY <1>1 DEF kalloc
<1>2. CASE ok(m) /\ m.free = <<>>
  <2>1. kalloc(m) = stop(m, "heap empty")
    BY <1>2 DEF kalloc
  <2>2. ~ ok(kalloc(m))
    BY <2>1 DEF stop, ok, Memory
  <2> QED
    BY <2>1, <2>2, StopType DEF Faults
<1>3. CASE ok(m) /\ m.free # <<>>
  <2>1. kalloc(m) = [m EXCEPT !.free = Tail(m.free), !.mem[Head(m.free)] = zeroed]
    BY <1>3 DEF kalloc
  <2>2. Tail(m.free) \in Seq(Cells) /\ Head(m.free) \in Cells
    BY <1>3 DEF Memory
  <2> QED
    <3>1. kalloc(m) \in Memory
      <4> DEFINE fr == Tail(m.free)
                 f == Head(m.free)
      <4> HIDE DEF fr, f
      <4>1. [m EXCEPT !.free = fr, !.mem[f] = zeroed] \in Memory
        BY <2>2, ZeroedType, UpdateType DEF fr, f
      <4> QED
        BY <2>1, <4>1 DEF fr, f
    <3>2. kalloc(m).free = Tail(m.free)
      BY <2>1 DEF Memory
    <3> QED
      BY <1>3, <2>2, <3>1, <3>2 DEF fresh
<1> QED
  BY <1>1, <1>2, <1>3

LEMMA KfreeType ==
  ASSUME NEW m \in Memory, NEW f \in Cells
  PROVE  kfree(m, f) \in Memory /\ (ok(kfree(m, f)) => ok(m))
<1>1. CASE ~ ok(m)
  BY <1>1 DEF kfree
<1>2. CASE ok(m) /\ m.free = <<>>
  BY <1>2, StopType DEF kfree, Faults
<1>3. CASE ok(m) /\ m.free # <<>> /\ f \in ToSet(m.free)
  BY <1>3, StopType DEF kfree, Faults
<1>4. CASE ok(m) /\ m.free # <<>> /\ f \notin ToSet(m.free)
  <2>1. kfree(m, f) = [m EXCEPT !.free = <<f>> \o m.free, !.mem[f] = zeroed]
    BY <1>4 DEF kfree
  <2>2. <<f>> \o m.free \in Seq(Cells)
    BY DEF Memory
  <2>3. kfree(m, f) \in Memory
    <3> DEFINE fr == <<f>> \o m.free
    <3> HIDE DEF fr
    <3>1. [m EXCEPT !.free = fr, !.mem[f] = zeroed] \in Memory
      BY <2>2, ZeroedType, UpdateType DEF fr
    <3> QED
      BY <2>1, <3>1 DEF fr
  <2> QED
    BY <1>4, <2>3
<1> QED
  BY <1>1, <1>2, <1>3, <1>4

LEMMA VmAllocType ==
  ASSUME NEW m \in Memory
  PROVE  /\ vm_alloc(m) \in Memory
         /\ ok(vm_alloc(m)) => ok(kalloc(m))
<1>1. CASE ~ ok(kalloc(m))
  BY <1>1, KallocType DEF vm_alloc
<1>2. CASE ok(kalloc(m))
  BY <1>2, KallocType, SetKernType DEF vm_alloc
<1> QED
  BY <1>1, <1>2

LEMMA PteType ==
  ASSUME NEW m \in Memory, NEW pd \in Cells, NEW v \in Pages
  PROVE  /\ pte(m, pd, v) \in Entry
         /\ frame_of(m, pd, v) \in Cells
         /\ pte(m, pd, v).p \in BOOLEAN /\ pte(m, pd, v).w \in BOOLEAN
<1>1. pte(m, pd, v) \in Entry
  BY EntriesOfPage, EntryType, ZeroedType DEF pte
<1> QED
  BY <1>1 DEF Entry, frame_of

LEMMA WalkType ==
  ASSUME NEW m \in Memory, NEW pd \in Cells, NEW v \in Pages, NEW w \in BOOLEAN
  PROVE  /\ vm_walkpte(m, pd, v, w) \in Memory
         /\ ok(vm_walkpte(m, pd, v, w)) => ok(m)
<1>1. CASE ~ ok(m)
  BY <1>1 DEF vm_walkpte
<1>2. CASE ok(m) /\ m.mem[pd].e[DIR(v)].p
  <2>1. vm_walkpte(m, pd, v, w) = [m EXCEPT !.mem[pd].e[DIR(v)].w = @ \/ w]
    BY <1>2 DEF vm_walkpte
  <2> QED
    BY <1>2, <2>1, EntriesOfPage, WidenType
<1>3. CASE ok(m) /\ ~ m.mem[pd].e[DIR(v)].p
  <2> DEFINE n == kalloc(m)
             x == [page |-> fresh(m), p |-> TRUE, w |-> w]
  <2>1. vm_walkpte(m, pd, v, w) = IF ok(n) THEN [n EXCEPT !.mem[pd].e[DIR(v)] = x] ELSE n
    BY <1>3 DEF vm_walkpte
  <2>2. n \in Memory /\ (ok(n) => x \in Entry)
    BY KallocType DEF Entry
  <2> HIDE DEF n, x
  <2> QED
    BY <1>3, <2>1, <2>2, EntriesOfPage, SetEntryType
<1> QED
  BY <1>1, <1>2, <1>3

LEMMA MapPageType ==
  ASSUME NEW m \in Memory, NEW pd \in Cells, NEW v \in Pages, NEW w \in BOOLEAN
  PROVE  /\ vm_map_page(m, pd, v, w) \in Memory
         /\ ok(vm_map_page(m, pd, v, w)) => ok(vm_walkpte(m, pd, v, w))
<1> DEFINE n == vm_walkpte(m, pd, v, w)
           pt == n.mem[pd].e[DIR(v)].page
           k == kalloc(n)
           x == [page |-> fresh(n), p |-> TRUE, w |-> w]
<1>1. vm_map_page(m, pd, v, w) =
        IF ~ ok(n) THEN n
        ELSE IF n.mem[pt].e[TBL(v)].p THEN [n EXCEPT !.mem[pt].e[TBL(v)].w = @ \/ w]
        ELSE IF ok(k) THEN [k EXCEPT !.mem[pt].e[TBL(v)] = x] ELSE k
  BY DEF vm_map_page
<1>2. n \in Memory
  BY WalkType
<1> HIDE DEF n
<1>3. pt \in Cells /\ TBL(v) \in Entries
  BY <1>2, EntriesOfPage, EntryType
<1>4. k \in Memory /\ (ok(k) => ok(n) /\ x \in Entry)
  BY <1>2, KallocType DEF Entry
<1> HIDE DEF pt, k, x
<1>5. [n EXCEPT !.mem[pt].e[TBL(v)].w = @ \/ w] \in Memory
  BY <1>2, <1>3, WidenType
<1>6. ok(k) => [k EXCEPT !.mem[pt].e[TBL(v)] = x] \in Memory
  BY <1>4, <1>3, SetEntryType
<1> QED
  BY <1>1, <1>2, <1>4, <1>5, <1>6 DEF n

LEMMA PutType ==
  ASSUME NEW m \in Memory, NEW pd \in Cells, NEW v \in Pages, NEW x \in Contents
  PROVE  put(m, pd, v, x) \in Memory /\ (ok(put(m, pd, v, x)) => ok(m))
<1>1. frame_of(m, pd, v) \in Cells
  BY PteType
<1>2. [m EXCEPT !.mem[frame_of(m, pd, v)].b = x] \in Memory
  BY <1>1, SetBytesType
<1> QED
  BY <1>2 DEF put

LEMMA BytesType ==
  ASSUME NEW m \in Memory, NEW f \in Cells
  PROVE  m.mem[f].b \in Contents
  BY DEF Memory, Content

LEMMA UnmapPageType ==
  ASSUME NEW m \in Memory, NEW pd \in Cells, NEW v \in Pages
  PROVE  /\ unmap_page(m, pd, v) \in Memory
         /\ ok(unmap_page(m, pd, v)) => ok(m)
<1>1. CASE ~ pte(m, pd, v).p
  BY <1>1 DEF unmap_page
<1>2. CASE pte(m, pd, v).p
  <2> DEFINE n == kfree(m, pte(m, pd, v).page)
             pt == m.mem[pd].e[DIR(v)].page
  <2>1. unmap_page(m, pd, v) = [n EXCEPT !.mem[pt].e[TBL(v)].p = FALSE]
    BY <1>2 DEF unmap_page
  <2>2. n \in Memory /\ (ok(n) => ok(m))
    BY PteType, KfreeType DEF frame_of
  <2>3. pt \in Cells /\ TBL(v) \in Entries
    BY EntriesOfPage, EntryType
  <2> HIDE DEF n, pt
  <2>4. [n EXCEPT !.mem[pt].e[TBL(v)].p = FALSE] \in Memory
    BY <2>2, <2>3, ClearType
  <2>5. ok([n EXCEPT !.mem[pt].e[TBL(v)].p = FALSE]) => ok(n)
    BY <2>2 DEF ok, Memory
  <2> QED
    BY <2>1, <2>2, <2>4, <2>5
<1> QED
  BY <1>1, <1>2

LEMMA FreePteType ==
  ASSUME NEW m \in Memory, NEW x \in Entry
  PROVE  free_pte(m, x) \in Memory /\ (ok(free_pte(m, x)) => ok(m))
<1>1. x.page \in Cells
  BY DEF Entry
<1> QED
  BY <1>1, KfreeType DEF free_pte

LEMMA LoadPageType ==
  ASSUME NEW m \in Memory, NEW pd \in Cells, NEW v \in Pages, NEW w \in BOOLEAN,
         NEW x \in Contents
  PROVE  /\ load_page(m, pd, v, w, x) \in Memory
         /\ ok(load_page(m, pd, v, w, x)) => ok(vm_map_page(m, pd, v, w))
  BY MapPageType, PutType DEF load_page

LEMMA CopyPageType ==
  ASSUME NEW m \in Memory, NEW pd \in Cells, NEW v \in Pages, cr3 \in Cells
  PROVE  /\ copy_page(m, pd, v) \in Memory
         /\ ok(copy_page(m, pd, v)) => ok(m)
<1> DEFINE w == pte(m, cr3, v).w
           x == m.mem[frame_of(m, cr3, v)].b
           n == vm_map_page(m, pd, v, w)
<1>1. w \in BOOLEAN /\ frame_of(m, cr3, v) \in Cells
  BY PteType
<1>2. x \in Contents
  BY <1>1, BytesType
<1>3. copy_page(m, pd, v) = IF ok(m) /\ pte(m, cr3, v).p THEN put(n, pd, v, x) ELSE m
  BY DEF copy_page
<1> HIDE DEF w, x
<1>4. n \in Memory
  BY <1>1, MapPageType
<1> HIDE DEF n
<1>5. put(n, pd, v, x) \in Memory
  BY <1>2, <1>4, PutType
<1> QED
  BY <1>3, <1>5

\* The rounds of vm_map.
LEMMA MapRounds ==
  ASSUME NEW m \in Memory, NEW pd \in Cells, NEW vs \in Seq(Pages), NEW w \in BOOLEAN
  PROVE  \E done : /\ done[0] = m
                   /\ \A k \in 1 .. Len(vs) : done[k] = vm_map_page(done[k - 1], pd, vs[k], w)
                   /\ \A k \in 0 .. Len(vs) : done[k] \in Memory
                   /\ vm_map(m, pd, vs, w) = done[Len(vs)]
<1> DEFINE G == [k \in 1 .. Len(vs) |-> [x \in Memory |-> vm_map_page(x, pd, vs[k], w)]]
           body(f) == [k \in 0 .. Len(vs) |->
                        IF k = 0 THEN m ELSE vm_map_page(f[k - 1], pd, vs[k], w)]
           done == CHOOSE f : f = body(f)
<1>0. Len(vs) \in Nat
  BY VmeAssumption
<1>1. \A k \in 1 .. Len(vs) : vs[k] \in Pages
  OBVIOUS
<1>2. G \in [1 .. Len(vs) -> [Memory -> Memory]]
  BY <1>1, MapPageType
<1>3. \A k \in 1 .. Len(vs) : \A x \in Memory :
        G[k][x] = vm_map_page(x, pd, vs[k], w) /\ vm_map_page(x, pd, vs[k], w) \in Memory
  BY <1>1, MapPageType
<1> HIDE DEF G
<1>4. PICK f \in [0 .. Len(vs) -> Memory] : Iterates(f, Len(vs), m, G)
  BY <1>0, <1>2, Rounds
<1>5. f = body(f)
  <2>0. \A k \in 1 .. Len(vs) : f[k - 1] \in Memory
    BY <1>0, <1>4
  <2>1. \A k \in 1 .. Len(vs) : f[k] = vm_map_page(f[k - 1], pd, vs[k], w)
    BY <1>3, <1>4, <2>0 DEF Iterates
  <2> QED
    BY <1>0, <1>4, <2>1 DEF Iterates
<1> HIDE DEF body
<1>6. done = body(done)
  BY <1>5
<1>7. vm_map(m, pd, vs, w) = done[Len(vs)]
  BY DEF vm_map, body
<1> HIDE DEF done
<1>8. done[0] = m /\ \A k \in 1 .. Len(vs) : done[k] = vm_map_page(done[k - 1], pd, vs[k], w)
  BY <1>0, <1>6 DEF body
<1>9. \A k \in 0 .. Len(vs) : done[k] \in Memory
  <2> DEFINE good == {k \in 0 .. Len(vs) : done[k] \in Memory}
  <2>1. 0 \in good
    BY <1>0, <1>8
  <2>2. ASSUME NEW k \in 1 .. Len(vs), k - 1 \in good PROVE k \in good
    BY <1>0, <1>3, <1>8, <2>2
  <2> HIDE DEF good
  <2>3. \A k \in 0 .. Len(vs) : k \in good
    BY <1>0, <2>1, <2>2, RoundByRound
  <2> QED
    BY <2>3 DEF good
<1> QED
  BY <1>7, <1>8, <1>9

\* The rounds of vm_unmap.
LEMMA UnmapRounds ==
  ASSUME NEW m \in Memory, NEW pd \in Cells, NEW vs \in Seq(Pages)
  PROVE  \E done : /\ done[0] = m
                   /\ \A k \in 1 .. Len(vs) : done[k] = unmap_page(done[k - 1], pd, vs[k])
                   /\ \A k \in 0 .. Len(vs) : done[k] \in Memory
                   /\ vm_unmap(m, pd, vs) = done[Len(vs)]
<1> DEFINE G == [k \in 1 .. Len(vs) |-> [x \in Memory |-> unmap_page(x, pd, vs[k])]]
           body(f) == [k \in 0 .. Len(vs) |->
                        IF k = 0 THEN m ELSE unmap_page(f[k - 1], pd, vs[k])]
           done == CHOOSE f : f = body(f)
<1>0. Len(vs) \in Nat
  BY VmeAssumption
<1>1. \A k \in 1 .. Len(vs) : vs[k] \in Pages
  OBVIOUS
<1>2. G \in [1 .. Len(vs) -> [Memory -> Memory]]
  BY <1>1, UnmapPageType
<1>3. \A k \in 1 .. Len(vs) : \A x \in Memory :
        G[k][x] = unmap_page(x, pd, vs[k]) /\ unmap_page(x, pd, vs[k]) \in Memory
  BY <1>1, UnmapPageType
<1> HIDE DEF G
<1>4. PICK f \in [0 .. Len(vs) -> Memory] : Iterates(f, Len(vs), m, G)
  BY <1>0, <1>2, Rounds
<1>5. f = body(f)
  <2>0. \A k \in 1 .. Len(vs) : f[k - 1] \in Memory
    BY <1>0, <1>4
  <2>1. \A k \in 1 .. Len(vs) : f[k] = unmap_page(f[k - 1], pd, vs[k])
    BY <1>3, <1>4, <2>0 DEF Iterates
  <2> QED
    BY <1>0, <1>4, <2>1 DEF Iterates
<1> HIDE DEF body
<1>6. done = body(done)
  BY <1>5
<1>7. vm_unmap(m, pd, vs) = done[Len(vs)]
  BY DEF vm_unmap, body
<1> HIDE DEF done
<1>8. done[0] = m /\ \A k \in 1 .. Len(vs) : done[k] = unmap_page(done[k - 1], pd, vs[k])
  BY <1>0, <1>6 DEF body
<1>9. \A k \in 0 .. Len(vs) : done[k] \in Memory
  <2> DEFINE good == {k \in 0 .. Len(vs) : done[k] \in Memory}
  <2>1. 0 \in good
    BY <1>0, <1>8
  <2>2. ASSUME NEW k \in 1 .. Len(vs), k - 1 \in good PROVE k \in good
    BY <1>0, <1>3, <1>8, <2>2
  <2> HIDE DEF good
  <2>3. \A k \in 0 .. Len(vs) : k \in good
    BY <1>0, <2>1, <2>2, RoundByRound
  <2> QED
    BY <2>3 DEF good
<1> QED
  BY <1>7, <1>8, <1>9

\* The rounds of free_table.
LEMMA FreeTableRounds ==
  ASSUME NEW m \in Memory, NEW pt \in Cells
  PROVE  \E done : /\ done[0] = m
                   /\ \A k \in 1 .. NR_PTE : done[k] = free_pte(done[k - 1], m.mem[pt].e[k - 1])
                   /\ \A k \in 0 .. NR_PTE : done[k] \in Memory
                   /\ free_table(m, pt) = kfree(done[NR_PTE], pt)
<1> DEFINE G == [k \in 1 .. NR_PTE |-> [x \in Memory |-> free_pte(x, m.mem[pt].e[k - 1])]]
           body(f) == [k \in 0 .. NR_PTE |->
                        IF k = 0 THEN m ELSE free_pte(f[k - 1], m.mem[pt].e[k - 1])]
           done == CHOOSE f : f = body(f)
<1>0. NR_PTE \in Nat
  BY VmeAssumption
<1>1. \A k \in 1 .. NR_PTE : m.mem[pt].e[k - 1] \in Entry
  BY Sizes, EntryType, VmeAssumption DEF TEntries
<1>2. G \in [1 .. NR_PTE -> [Memory -> Memory]]
  BY <1>1, FreePteType
<1>3. \A k \in 1 .. NR_PTE : \A x \in Memory :
        G[k][x] = free_pte(x, m.mem[pt].e[k - 1]) /\ free_pte(x, m.mem[pt].e[k - 1]) \in Memory
  BY <1>1, FreePteType
<1> HIDE DEF G
<1>4. PICK f \in [0 .. NR_PTE -> Memory] : Iterates(f, NR_PTE, m, G)
  BY <1>0, <1>2, Rounds
<1>5. f = body(f)
  <2>0. \A k \in 1 .. NR_PTE : f[k - 1] \in Memory
    BY <1>0, <1>4
  <2>1. \A k \in 1 .. NR_PTE : f[k] = free_pte(f[k - 1], m.mem[pt].e[k - 1])
    BY <1>3, <1>4, <2>0 DEF Iterates
  <2> QED
    BY <1>0, <1>4, <2>1 DEF Iterates
<1> HIDE DEF body
<1>6. done = body(done)
  BY <1>5
<1>7. free_table(m, pt) = kfree(done[NR_PTE], pt)
  BY DEF free_table, body
<1> HIDE DEF done
<1>8. done[0] = m /\ \A k \in 1 .. NR_PTE : done[k] = free_pte(done[k - 1], m.mem[pt].e[k - 1])
  BY <1>0, <1>6 DEF body
<1>9. \A k \in 0 .. NR_PTE : done[k] \in Memory
  <2> DEFINE good == {k \in 0 .. NR_PTE : done[k] \in Memory}
  <2>1. 0 \in good
    BY <1>0, <1>8
  <2>2. ASSUME NEW k \in 1 .. NR_PTE, k - 1 \in good PROVE k \in good
    BY <1>0, <1>3, <1>8, <2>2
  <2> HIDE DEF good
  <2>3. \A k \in 0 .. NR_PTE : k \in good
    BY <1>0, <2>1, <2>2, RoundByRound
  <2> QED
    BY <2>3 DEF good
<1> QED
  BY <1>7, <1>8, <1>9

LEMMA FreePdeType ==
  ASSUME NEW m \in Memory, NEW x \in Entry
  PROVE  free_pde(m, x) \in Memory
<1>1. x.page \in Cells
  BY DEF Entry
<1>2. PICK done : /\ \A k \in 0 .. NR_PTE : done[k] \in Memory
                  /\ free_table(m, x.page) = kfree(done[NR_PTE], x.page)
  BY <1>1, FreeTableRounds
<1>3. done[NR_PTE] \in Memory
  BY <1>2, VmeAssumption
<1> QED
  BY <1>1, <1>2, <1>3, KfreeType DEF free_pde

\* The rounds of free_tables.
LEMMA FreeTablesRounds ==
  ASSUME NEW m \in Memory, NEW pd \in Cells
  PROVE  \E done : /\ done[0] = m
                   /\ \A k \in 1 .. NR_PDE : done[k] = free_pde(done[k - 1], m.mem[pd].e[k - 1])
                   /\ \A k \in 0 .. NR_PDE : done[k] \in Memory
                   /\ free_tables(m, pd) = done[NR_PDE]
<1> DEFINE G == [k \in 1 .. NR_PDE |-> [x \in Memory |-> free_pde(x, m.mem[pd].e[k - 1])]]
           body(f) == [k \in 0 .. NR_PDE |->
                        IF k = 0 THEN m ELSE free_pde(f[k - 1], m.mem[pd].e[k - 1])]
           done == CHOOSE f : f = body(f)
<1>0. NR_PDE \in Nat
  BY VmeAssumption
<1>1. \A k \in 1 .. NR_PDE : m.mem[pd].e[k - 1] \in Entry
  BY Sizes, EntryType, VmeAssumption DEF DEntries
<1>2. G \in [1 .. NR_PDE -> [Memory -> Memory]]
  BY <1>1, FreePdeType
<1>3. \A k \in 1 .. NR_PDE : \A x \in Memory :
        G[k][x] = free_pde(x, m.mem[pd].e[k - 1]) /\ free_pde(x, m.mem[pd].e[k - 1]) \in Memory
  BY <1>1, FreePdeType
<1> HIDE DEF G
<1>4. PICK f \in [0 .. NR_PDE -> Memory] : Iterates(f, NR_PDE, m, G)
  BY <1>0, <1>2, Rounds
<1>5. f = body(f)
  <2>0. \A k \in 1 .. NR_PDE : f[k - 1] \in Memory
    BY <1>0, <1>4
  <2>1. \A k \in 1 .. NR_PDE : f[k] = free_pde(f[k - 1], m.mem[pd].e[k - 1])
    BY <1>3, <1>4, <2>0 DEF Iterates
  <2> QED
    BY <1>0, <1>4, <2>1 DEF Iterates
<1> HIDE DEF body
<1>6. done = body(done)
  BY <1>5
<1>7. free_tables(m, pd) = done[NR_PDE]
  BY DEF free_tables, body
<1> HIDE DEF done
<1>8. done[0] = m /\ \A k \in 1 .. NR_PDE : done[k] = free_pde(done[k - 1], m.mem[pd].e[k - 1])
  BY <1>0, <1>6 DEF body
<1>9. \A k \in 0 .. NR_PDE : done[k] \in Memory
  <2> DEFINE good == {k \in 0 .. NR_PDE : done[k] \in Memory}
  <2>1. 0 \in good
    BY <1>0, <1>8
  <2>2. ASSUME NEW k \in 1 .. NR_PDE, k - 1 \in good PROVE k \in good
    BY <1>0, <1>3, <1>8, <2>2
  <2> HIDE DEF good
  <2>3. \A k \in 0 .. NR_PDE : k \in good
    BY <1>0, <2>1, <2>2, RoundByRound
  <2> QED
    BY <2>3 DEF good
<1> QED
  BY <1>7, <1>8, <1>9

\* The rounds of vm_copycurr.
LEMMA CopyRounds ==
  ASSUME NEW m \in Memory, NEW pd \in Cells, cr3 \in Cells
  PROVE  \E done : /\ done[0] = m
                   /\ \A k \in 1 .. (stack + 1) : done[k] = copy_page(done[k - 1], pd, k - 1)
                   /\ \A k \in 0 .. (stack + 1) : done[k] \in Memory
                   /\ vm_copycurr(m, pd) = done[stack + 1]
<1> DEFINE G == [k \in 1 .. (stack + 1) |-> [x \in Memory |-> copy_page(x, pd, k - 1)]]
           body(f) == [k \in 0 .. (stack + 1) |->
                        IF k = 0 THEN m ELSE copy_page(f[k - 1], pd, k - 1)]
           done == CHOOSE f : f = body(f)
<1>0. (stack + 1) \in Nat
  BY VmeAssumption, Sizes DEF Pages
<1>1. \A k \in 1 .. (stack + 1) : k - 1 \in Pages
  BY VmeAssumption, Sizes DEF stack, Pages
<1>2. G \in [1 .. (stack + 1) -> [Memory -> Memory]]
  BY <1>1, CopyPageType
<1>3. \A k \in 1 .. (stack + 1) : \A x \in Memory :
        G[k][x] = copy_page(x, pd, k - 1) /\ copy_page(x, pd, k - 1) \in Memory
  BY <1>1, CopyPageType
<1> HIDE DEF G
<1>4. PICK f \in [0 .. (stack + 1) -> Memory] : Iterates(f, (stack + 1), m, G)
  BY <1>0, <1>2, Rounds
<1>5. f = body(f)
  <2>0. \A k \in 1 .. (stack + 1) : f[k - 1] \in Memory
    BY <1>0, <1>4
  <2>1. \A k \in 1 .. (stack + 1) : f[k] = copy_page(f[k - 1], pd, k - 1)
    BY <1>3, <1>4, <2>0 DEF Iterates
  <2> QED
    BY <1>0, <1>4, <2>1 DEF Iterates
<1> HIDE DEF body
<1>6. done = body(done)
  BY <1>5
<1>7. vm_copycurr(m, pd) = done[stack + 1]
  BY DEF vm_copycurr, body
<1> HIDE DEF done
<1>8. done[0] = m /\ \A k \in 1 .. (stack + 1) : done[k] = copy_page(done[k - 1], pd, k - 1)
  BY <1>0, <1>6 DEF body
<1>9. \A k \in 0 .. (stack + 1) : done[k] \in Memory
  <2> DEFINE good == {k \in 0 .. (stack + 1) : done[k] \in Memory}
  <2>1. 0 \in good
    BY <1>0, <1>8
  <2>2. ASSUME NEW k \in 1 .. (stack + 1), k - 1 \in good PROVE k \in good
    BY <1>0, <1>3, <1>8, <2>2
  <2> HIDE DEF good
  <2>3. \A k \in 0 .. (stack + 1) : k \in good
    BY <1>0, <2>1, <2>2, RoundByRound
  <2> QED
    BY <2>3 DEF good
<1> QED
  BY <1>7, <1>8, <1>9

LEMMA ImagePages ==
  ASSUME NEW name \in DOMAIN Image, NEW k \in 1 .. Len(Image[name].pages)
  PROVE  /\ Image[name].pages[k].v \in 0 .. Image[name].end - 1
         /\ Image[name].pages[k].v \in Pages
         /\ Image[name].pages[k].v < stack
         /\ Image[name].pages[k].w \in BOOLEAN
<1> DEFINE pages == Image[name].pages
           end == Image[name].end
<1>1. end \in 1 .. stack /\ pages \in Seq([v : 0 .. end - 1, w : BOOLEAN])
  BY VmeAssumption
<1>2. k \in 1 .. Len(pages)
  OBVIOUS
<1> HIDE DEF pages, end
<1>3. pages[k] \in [v : 0 .. end - 1, w : BOOLEAN]
  <2> DEFINE T == [v : 0 .. end - 1, w : BOOLEAN]
  <2>1. pages \in Seq(T)
    BY <1>1
  <2> HIDE DEF T
  <2>2. pages[k] \in T
    BY <1>2, <2>1
  <2> QED
    BY <2>2 DEF T
<1>4. pages[k].v \in 0 .. end - 1 /\ pages[k].w \in BOOLEAN
  BY <1>3
<1>5. pages[k].v \in Pages /\ pages[k].v < stack
  BY <1>1, <1>4, VmeAssumption DEF Pages, stack
<1> QED
  BY <1>4, <1>5 DEF pages, end

\* The rounds of load_segs.
LEMMA LoadRounds ==
  ASSUME NEW m \in Memory, NEW pd \in Cells, NEW name \in DOMAIN Image
  PROVE  \E done : /\ done[0] = m
                   /\ \A k \in 1 .. Len(Image[name].pages) : done[k] = load_page(done[k - 1], pd, Image[name].pages[k].v, Image[name].pages[k].w, name)
                   /\ \A k \in 0 .. Len(Image[name].pages) : done[k] \in Memory
                   /\ load_segs(m, pd, name) = done[Len(Image[name].pages)]
<1> DEFINE G == [k \in 1 .. Len(Image[name].pages) |-> [x \in Memory |-> load_page(x, pd, Image[name].pages[k].v, Image[name].pages[k].w, name)]]
           body(f) == [k \in 0 .. Len(Image[name].pages) |->
                        IF k = 0 THEN m ELSE load_page(f[k - 1], pd, Image[name].pages[k].v, Image[name].pages[k].w, name)]
           done == CHOOSE f : f = body(f)
<1>0. Len(Image[name].pages) \in Nat
  BY VmeAssumption
<1>1. \A k \in 1 .. Len(Image[name].pages) : /\ Image[name].pages[k].v \in Pages
                                          /\ Image[name].pages[k].w \in BOOLEAN
                                          /\ name \in Contents
  BY ImagePages DEF Contents
<1>2. G \in [1 .. Len(Image[name].pages) -> [Memory -> Memory]]
  BY <1>1, LoadPageType
<1>3. \A k \in 1 .. Len(Image[name].pages) : \A x \in Memory :
        G[k][x] = load_page(x, pd, Image[name].pages[k].v, Image[name].pages[k].w, name) /\ load_page(x, pd, Image[name].pages[k].v, Image[name].pages[k].w, name) \in Memory
  BY <1>1, LoadPageType
<1> HIDE DEF G
<1>4. PICK f \in [0 .. Len(Image[name].pages) -> Memory] : Iterates(f, Len(Image[name].pages), m, G)
  BY <1>0, <1>2, Rounds
<1>5. f = body(f)
  <2>0. \A k \in 1 .. Len(Image[name].pages) : f[k - 1] \in Memory
    BY <1>0, <1>4
  <2>1. \A k \in 1 .. Len(Image[name].pages) : f[k] = load_page(f[k - 1], pd, Image[name].pages[k].v, Image[name].pages[k].w, name)
    BY <1>3, <1>4, <2>0 DEF Iterates
  <2> QED
    BY <1>0, <1>4, <2>1 DEF Iterates
<1> HIDE DEF body
<1>6. done = body(done)
  BY <1>5
<1>7. load_segs(m, pd, name) = done[Len(Image[name].pages)]
  BY DEF load_segs, body
<1> HIDE DEF done
<1>8. done[0] = m /\ \A k \in 1 .. Len(Image[name].pages) : done[k] = load_page(done[k - 1], pd, Image[name].pages[k].v, Image[name].pages[k].w, name)
  BY SMTT(30), <1>0, <1>6 DEF body
<1>9. \A k \in 0 .. Len(Image[name].pages) : done[k] \in Memory
  <2> DEFINE good == {k \in 0 .. Len(Image[name].pages) : done[k] \in Memory}
  <2>1. 0 \in good
    BY <1>0, <1>8
  <2>2. ASSUME NEW k \in 1 .. Len(Image[name].pages), k - 1 \in good PROVE k \in good
    BY <1>0, <1>3, <1>8, <2>2
  <2> HIDE DEF good
  <2>3. \A k \in 0 .. Len(Image[name].pages) : k \in good
    BY <1>0, <2>1, <2>2, RoundByRound
  <2> QED
    BY <2>3 DEF good
<1> QED
  BY <1>7, <1>8, <1>9

-----------------------------------------------------------------------------
(***************************************************************************)
(* What a page is mapped to, and what a write to the memory leaves alone.  *)
(***************************************************************************)

\* The entry of page u in its table in the directory q, and whether there is one.
Slot(m, q, u) == m.mem[m.mem[q].e[DIR(u)].page].e[TBL(u)]
Mapped(m, q, u) == m.mem[q].e[DIR(u)].p /\ Slot(m, q, u).p

LEMMA PteIsSlot ==
  ASSUME NEW m \in Memory, NEW q \in Cells, NEW u \in Pages
  PROVE  /\ pte(m, q, u).p <=> Mapped(m, q, u)
         /\ Mapped(m, q, u) => /\ pte(m, q, u) = Slot(m, q, u)
                               /\ frame_of(m, q, u) = Slot(m, q, u).page
<1>1. CASE m.mem[q].e[DIR(u)].p
  <2>1. pte(m, q, u) = Slot(m, q, u)
    BY <1>1 DEF pte, Slot
  <2> QED
    BY <1>1, <2>1 DEF Mapped, frame_of
<1>2. CASE ~ m.mem[q].e[DIR(u)].p
  <2>1. pte(m, q, u) = no_entry
    BY <1>2 DEF pte
  <2> QED
    BY <1>2, <2>1 DEF Mapped, no_entry
<1> QED
  BY <1>1, <1>2

\* Page u of the directory q is mapped after a step if it was before, and then
\* with the same rights and the same content.
Keep(m, n, q, u) ==
  /\ Mapped(n, q, u) <=> Mapped(m, q, u)
  /\ Mapped(m, q, u) => /\ Slot(n, q, u).w <=> Slot(m, q, u).w
                        /\ n.mem[Slot(n, q, u).page].b = m.mem[Slot(m, q, u).page].b

LEMMA KeepTwice ==
  ASSUME NEW m, NEW n, NEW k, NEW q, NEW u, Keep(m, n, q, u), Keep(n, k, q, u)
  PROVE  Keep(m, k, q, u)
  BY DEF Keep

\* From m to n at most the entry i of the frame g changes.
OnlyEntry(m, n, g, i) ==
  /\ n.free = m.free
  /\ \A h \in Cells : n.mem[h].kern = m.mem[h].kern /\ n.mem[h].b = m.mem[h].b
  /\ \A h \in Cells, j \in Entries : h # g \/ j # i => n.mem[h].e[j] = m.mem[h].e[j]

LEMMA SetEntryOnly ==
  ASSUME NEW m \in Memory, NEW g \in Cells, NEW i \in Entries, NEW x \in Entry,
         NEW n, n = [m EXCEPT !.mem[g].e[i] = x]
  PROVE  OnlyEntry(m, n, g, i) /\ n.mem[g].e[i] = x
  BY DEF OnlyEntry, Memory, Content

Widened(m, g, i, w) == [m EXCEPT !.mem[g].e[i].w = @ \/ w]

LEMMA WidenOnly ==
  ASSUME NEW m \in Memory, NEW g \in Cells, NEW i \in Entries, NEW w \in BOOLEAN,
         NEW n, n = Widened(m, g, i, w)
  PROVE  /\ n \in Memory /\ n.fault = m.fault
         /\ OnlyEntry(m, n, g, i)
         /\ n.mem[g].e[i].page = m.mem[g].e[i].page
         /\ n.mem[g].e[i].p = m.mem[g].e[i].p
         /\ n.mem[g].e[i].w <=> (m.mem[g].e[i].w \/ w)
<1> DEFINE x == [m.mem[g].e[i] EXCEPT !.w = @ \/ w]
<1>1. x \in Entry
  BY EntryType, WidenEntry
<1>2. n = [m EXCEPT !.mem[g].e[i] = x]
  BY DEF Widened
<1>5. n \in Memory /\ n.fault = m.fault
  <2>1. n \in Memory
    BY WidenType DEF Widened
  <2> QED
    BY <2>1, <1>2 DEF Memory
<1>3. /\ x.page = m.mem[g].e[i].page
      /\ x.p = m.mem[g].e[i].p
      /\ x.w = (m.mem[g].e[i].w \/ w)
  BY EntryType DEF Entry
<1> HIDE DEF x
<1>4. OnlyEntry(m, n, g, i) /\ n.mem[g].e[i] = x
  BY <1>1, <1>2 DEF OnlyEntry, Memory, Content
<1> QED
  BY <1>3, <1>4, <1>5

LEMMA ClearOnly ==
  ASSUME NEW m \in Memory, NEW g \in Cells, NEW i \in Entries,
         NEW n, n = [m EXCEPT !.mem[g].e[i].p = FALSE]
  PROVE  OnlyEntry(m, n, g, i) /\ ~ n.mem[g].e[i].p
<1> DEFINE x == [m.mem[g].e[i] EXCEPT !.p = FALSE]
<1>1. x \in Entry
  BY EntryType, ClearEntry
<1>2. n = [m EXCEPT !.mem[g].e[i] = x]
  OBVIOUS
<1>3. ~ x.p
  BY EntryType DEF Entry
<1> HIDE DEF x
<1>4. OnlyEntry(m, n, g, i) /\ n.mem[g].e[i] = x
  BY <1>1, <1>2 DEF OnlyEntry, Memory, Content
<1> QED
  BY <1>3, <1>4

-----------------------------------------------------------------------------
(***************************************************************************)
(* Owners.  D are the page directories in use, X the frames that somebody  *)
(* holds by their number (kernel stacks, and frames on their way from      *)
(* kalloc or to kfree), L the frames that are lost.  Every frame is in one *)
(* place, and o says which.                                                *)
(***************************************************************************)

place(kind, q, d, t) == [kind |-> kind, pd |-> q, d |-> d, t |-> t]

FreeOwned(m, o) ==
  \A i \in 1 .. Len(m.free) : m.free[i] \in Frames /\ o[m.free[i]].kind = "free"

FreeOnce(m) ==
  \A i, j \in 1 .. Len(m.free) : m.free[i] = m.free[j] => i = j

HoldersOwned(D, X, L, o) ==
  /\ \A f \in D : f \in Frames /\ o[f].kind = "dir"
  /\ \A f \in X : f \in Frames /\ o[f].kind = "own"
  /\ \A f \in L : f \in Frames /\ o[f].kind = "lost"

\* The frame f is the table d of the directory q, or its page t.
IsTable(m, q, d, f) == m.mem[q].e[d].p /\ m.mem[q].e[d].page = f
IsPage(m, q, d, t, f) ==
  /\ m.mem[q].e[d].p
  /\ m.mem[m.mem[q].e[d].page].e[t].p
  /\ m.mem[m.mem[q].e[d].page].e[t].page = f

TablesOwned(m, D, o) ==
  \A q \in D, d \in DEntries : \A f \in Cells :
    IsTable(m, q, d, f) =>
      f \in Frames /\ o[f].kind = "table" /\ o[f].pd = q /\ o[f].d = d

PagesOwned(m, D, o) ==
  \A q \in D, d \in DEntries, t \in TEntries : \A f \in Cells :
    IsPage(m, q, d, t, f) =>
      /\ f \in Frames
      /\ o[f].kind = "page" /\ o[f].pd = q /\ o[f].d = d /\ o[f].t = t

KernelMapped(m, D) == m.mem[kpd].kern /\ \A q \in D : m.mem[q].kern

\* The place of f is where it is.
InPlace(m, D, X, L, o, f) ==
  \/ o[f].kind = "free" /\ \E i \in 1 .. Len(m.free) : m.free[i] = f
  \/ o[f].kind = "dir" /\ f \in D
  \/ o[f].kind = "own" /\ f \in X
  \/ o[f].kind = "lost" /\ f \in L
  \/ /\ o[f].kind = "table"
     /\ o[f].pd \in D /\ o[f].d \in DEntries /\ IsTable(m, o[f].pd, o[f].d, f)
  \/ /\ o[f].kind = "page"
     /\ o[f].pd \in D /\ o[f].d \in DEntries /\ o[f].t \in TEntries
     /\ IsPage(m, o[f].pd, o[f].d, o[f].t, f)

Owned(m, D, X, L, o) ==
  /\ FreeOwned(m, o)
  /\ FreeOnce(m)
  /\ HoldersOwned(D, X, L, o)
  /\ TablesOwned(m, D, o)
  /\ PagesOwned(m, D, o)
  /\ KernelMapped(m, D)
  /\ \A f \in Frames : InPlace(m, D, X, L, o, f)

\* The table and the page of a mapped page, with their places.
LEMMA MappedOwned ==
  ASSUME NEW m \in Memory, NEW D, NEW X, NEW L, NEW o, Owned(m, D, X, L, o),
         NEW q \in D, NEW u \in Pages
  PROVE  /\ q \in Frames /\ q \in Cells /\ o[q].kind = "dir"
         /\ m.mem[q].e[DIR(u)].p =>
              LET f == m.mem[q].e[DIR(u)].page
              IN /\ f \in Frames /\ f \in Cells
                 /\ o[f].kind = "table" /\ o[f].pd = q /\ o[f].d = DIR(u)
         /\ Mapped(m, q, u) =>
              LET f == Slot(m, q, u).page
              IN /\ f \in Frames /\ f \in Cells
                 /\ o[f].kind = "page" /\ o[f].pd = q
                 /\ o[f].d = DIR(u) /\ o[f].t = TBL(u)
<1>1. q \in Frames /\ q \in Cells /\ o[q].kind = "dir"
  BY Sizes DEF Owned, HoldersOwned
<1>2. ASSUME m.mem[q].e[DIR(u)].p, NEW f, f = m.mem[q].e[DIR(u)].page
      PROVE  /\ f \in Frames /\ f \in Cells
             /\ o[f].kind = "table" /\ o[f].pd = q /\ o[f].d = DIR(u)
  <2>1. f \in Cells /\ IsTable(m, q, DIR(u), f)
    BY <1>1, <1>2, EntriesOfPage, EntryType DEF IsTable
  <2> QED
    BY <2>1, EntriesOfPage DEF Owned, TablesOwned
<1>3. ASSUME Mapped(m, q, u), NEW f, f = Slot(m, q, u).page
      PROVE  /\ f \in Frames /\ f \in Cells
             /\ o[f].kind = "page" /\ o[f].pd = q
             /\ o[f].d = DIR(u) /\ o[f].t = TBL(u)
  <2>1. m.mem[q].e[DIR(u)].page \in Cells
    BY <1>1, EntriesOfPage, EntryType
  <2>2. f \in Cells
    BY <1>3, <2>1, EntriesOfPage, EntryType DEF Slot
  <2>3. IsPage(m, q, DIR(u), TBL(u), f)
    BY <1>3 DEF Mapped, Slot, IsPage
  <2> QED
    BY <2>2, <2>3, EntriesOfPage DEF Owned, PagesOwned
<1> QED
  BY <1>1, <1>2, <1>3

\* What happens to frames that are not part of a space does not change it.
LEMMA KeepSpace ==
  ASSUME NEW m \in Memory, NEW n \in Memory, NEW D, NEW X, NEW L, NEW o,
         Owned(m, D, X, L, o), NEW q \in D, NEW u \in Pages,
         \A f \in Frames : o[f].kind \in {"dir", "table", "page"} => n.mem[f] = m.mem[f]
  PROVE  Keep(m, n, q, u)
<1>1. n.mem[q] = m.mem[q]
  BY MappedOwned
<1>2. CASE ~ m.mem[q].e[DIR(u)].p
  BY <1>1, <1>2 DEF Keep, Mapped
<1>3. CASE m.mem[q].e[DIR(u)].p
  <2> DEFINE pt == m.mem[q].e[DIR(u)].page
  <2>1. n.mem[pt] = m.mem[pt]
    BY <1>3, MappedOwned
  <2>2. Slot(n, q, u) = Slot(m, q, u)
    BY <1>1, <2>1 DEF Slot
  <2>3. Mapped(m, q, u) => n.mem[Slot(m, q, u).page] = m.mem[Slot(m, q, u).page]
    BY MappedOwned
  <2> QED
    BY <1>1, <2>2, <2>3 DEF Keep, Mapped
<1> QED
  BY <1>2, <1>3

\* The same tables and pages are in the directories of D in m and n.
SameTables(m, n, D) ==
  \A q \in D, d \in DEntries : \A f \in Cells :
    /\ IsTable(n, q, d, f) <=> IsTable(m, q, d, f)
    /\ \A t \in TEntries : IsPage(n, q, d, t, f) <=> IsPage(m, q, d, t, f)

\* So it is when no entry gets another frame or is set or cleared.
LEMMA TablesStay ==
  ASSUME NEW m \in Memory, NEW n \in Memory, NEW D, NEW X, NEW L, NEW o,
         Owned(m, D, X, L, o),
         \A h \in Frames : o[h].kind \in {"dir", "table"} =>
           \A i \in Entries : /\ n.mem[h].e[i].p = m.mem[h].e[i].p
                              /\ n.mem[h].e[i].page = m.mem[h].e[i].page
  PROVE  SameTables(m, n, D)
<1> SUFFICES ASSUME NEW q \in D, NEW d \in DEntries, NEW f \in Cells
             PROVE  /\ IsTable(n, q, d, f) <=> IsTable(m, q, d, f)
                    /\ \A t \in TEntries : IsPage(n, q, d, t, f) <=> IsPage(m, q, d, t, f)
  BY DEF SameTables
<1>1. q \in Frames /\ q \in Cells /\ d \in Entries /\ TEntries \subseteq Entries
  BY Sizes DEF Owned, HoldersOwned
<1>2. n.mem[q].e[d].p = m.mem[q].e[d].p /\ n.mem[q].e[d].page = m.mem[q].e[d].page
  BY <1>1 DEF Owned, HoldersOwned
<1>3. CASE ~ m.mem[q].e[d].p
  BY <1>2, <1>3 DEF IsTable, IsPage
<1>4. CASE m.mem[q].e[d].p
  <2> DEFINE pt == m.mem[q].e[d].page
  <2>1. pt \in Cells /\ IsTable(m, q, d, pt)
    BY <1>1, <1>4, EntryType DEF IsTable
  <2>2. pt \in Frames /\ o[pt].kind = "table"
    BY <2>1 DEF Owned, TablesOwned
  <2>3. \A t \in TEntries : /\ n.mem[pt].e[t].p = m.mem[pt].e[t].p
                            /\ n.mem[pt].e[t].page = m.mem[pt].e[t].page
    BY <1>1, <2>2
  <2> QED
    BY <1>2, <2>3 DEF IsTable, IsPage
<1> QED
  BY <1>3, <1>4

TakesHead(m, n, f) == m.free # <<>> /\ f = Head(m.free) /\ n.free = Tail(m.free)

\* kalloc: the frame at the head of the free list gets a holder.
LEMMA AllocOwned ==
  ASSUME NEW m \in Memory, NEW n \in Memory, NEW D, NEW X, NEW L, NEW o,
         Owned(m, D, X, L, o),
         NEW f \in Cells, TakesHead(m, n, f),
         \A h \in Cells : n.mem[h] = IF h = f THEN zeroed ELSE m.mem[h]
  PROVE  /\ f \in Frames /\ f \notin D /\ f \notin X /\ f \notin L
         /\ \E o2 : Owned(n, D, X \cup {f}, L, o2)
         /\ \A q \in D, u \in Pages : Keep(m, n, q, u)
<1> DEFINE o2 == [h \in Frames |-> IF h = f THEN place("own", 0, 0, 0) ELSE o[h]]
<1>1. f = m.free[1] /\ 1 \in 1 .. Len(m.free)
  BY DEF Memory, TakesHead
<1>2. f \in Frames /\ f \in Cells /\ o[f].kind = "free"
  BY <1>1, Sizes DEF Owned, FreeOwned
<1>3. f \notin D /\ f \notin X /\ f \notin L
  BY <1>2 DEF Owned, HoldersOwned
<1>4. /\ Len(n.free) = Len(m.free) - 1
      /\ \A i \in 1 .. Len(n.free) : n.free[i] = m.free[i + 1] /\ i + 1 \in 1 .. Len(m.free)
      /\ \A i \in 1 .. Len(m.free) : i # 1 => i - 1 \in 1 .. Len(n.free) /\ n.free[i - 1] = m.free[i]
  BY DEF Memory, TakesHead
<1>5. \A i \in 1 .. Len(n.free) : n.free[i] # f
  BY <1>1, <1>4 DEF Owned, FreeOnce
<1>6. \A h \in Frames : h # f => n.mem[h] = m.mem[h]
  BY Sizes
<1>7. \A q \in D : q \in Frames /\ q # f /\ n.mem[q] = m.mem[q]
  BY <1>3, <1>6 DEF Owned, HoldersOwned
<1>8. SameTables(m, n, D)
  BY <1>2, <1>6, TablesStay
<1>10. /\ \A h \in Frames : h # f => o2[h] = o[h]
       /\ o2[f].kind = "own"
  BY <1>2 DEF place
<1> HIDE DEF o2
<1>11. FreeOwned(n, o2) /\ FreeOnce(n)
  BY SMTT(30), <1>4, <1>5, <1>10 DEF Owned, FreeOwned, FreeOnce
<1>12. HoldersOwned(D, X \cup {f}, L, o2)
  BY <1>2, <1>3, <1>10 DEF Owned, HoldersOwned
<1>13. TablesOwned(n, D, o2)
  BY <1>2, <1>8, <1>10 DEF Owned, TablesOwned, SameTables
<1>14. PagesOwned(n, D, o2)
  BY <1>2, <1>8, <1>10 DEF Owned, PagesOwned, SameTables
<1>15. KernelMapped(n, D)
  BY <1>2, <1>7, Sizes DEF Owned, KernelMapped
<1>16. ASSUME NEW h \in Frames PROVE InPlace(n, D, X \cup {f}, L, o2, h)
  <2>1. CASE h = f
    BY <1>10, <2>1 DEF InPlace
  <2>2. CASE h # f
    <3>1. o2[h] = o[h] /\ InPlace(m, D, X, L, o, h) /\ h \in Cells
      BY <1>10, <2>2, Sizes DEF Owned
    <3>2. ASSUME NEW i \in 1 .. Len(m.free), m.free[i] = h
          PROVE  \E j \in 1 .. Len(n.free) : n.free[j] = h
      <4>1. i # 1
        BY <1>1, <2>2, <3>2
      <4> QED
        BY <1>4, <3>2, <4>1
    <3> QED
      BY <1>8, <3>1, <3>2 DEF InPlace, SameTables
  <2> QED
    BY <2>1, <2>2
<1>17. Owned(n, D, X \cup {f}, L, o2)
  BY <1>11, <1>12, <1>13, <1>14, <1>15, <1>16 DEF Owned
<1>18. \A h \in Frames : o[h].kind \in {"dir", "table", "page"} => n.mem[h] = m.mem[h]
  BY <1>2, <1>6
<1>19. \A q \in D, u \in Pages : Keep(m, n, q, u)
  BY <1>18, KeepSpace
<1> QED
  BY <1>2, <1>3, <1>17, <1>19

\* What kfree does to a frame.
Releases(m, n, f) ==
  /\ n.free = <<f>> \o m.free
  /\ \A h \in Cells : n.mem[h] = IF h = f THEN zeroed ELSE m.mem[h]

\* kfree: a frame goes from its holder to the free list.
LEMMA ReleaseOwned ==
  ASSUME NEW m \in Memory, NEW n \in Memory, NEW D, NEW X, NEW L, NEW o,
         Owned(m, D, X, L, o), NEW f \in X, Releases(m, n, f)
  PROVE  /\ \E o2 : Owned(n, D, X \ {f}, L, o2)
         /\ \A q \in D, u \in Pages : Keep(m, n, q, u)
<1>1. /\ n.free = <<f>> \o m.free
      /\ \A h \in Cells : n.mem[h] = IF h = f THEN zeroed ELSE m.mem[h]
  BY DEF Releases
<1> DEFINE o2 == [h \in Frames |-> IF h = f THEN place("free", 0, 0, 0) ELSE o[h]]
<1>2. f \in Frames /\ f \in Cells /\ o[f].kind = "own"
  BY Sizes DEF Owned, HoldersOwned
<1>3. f \notin D /\ f \notin L
  BY <1>2 DEF Owned, HoldersOwned
<1>4. /\ Len(n.free) = Len(m.free) + 1
      /\ 1 \in 1 .. Len(n.free) /\ n.free[1] = f
      /\ \A i \in 1 .. Len(n.free) : i # 1 => n.free[i] = m.free[i - 1] /\ i - 1 \in 1 .. Len(m.free)
      /\ \A i \in 1 .. Len(m.free) : i + 1 \in 1 .. Len(n.free) /\ n.free[i + 1] = m.free[i]
  BY <1>1 DEF Memory
<1>5. \A i \in 1 .. Len(m.free) : m.free[i] # f
  BY <1>2 DEF Owned, FreeOwned
<1>6. \A h \in Frames : h # f => n.mem[h] = m.mem[h]
  BY <1>1, Sizes
<1>7. \A q \in D : q \in Frames /\ q # f /\ n.mem[q] = m.mem[q]
  BY <1>3, <1>6 DEF Owned, HoldersOwned
<1>8. SameTables(m, n, D)
  BY <1>2, <1>6, TablesStay
<1>10. /\ \A h \in Frames : h # f => o2[h] = o[h]
       /\ o2[f].kind = "free"
  BY <1>2 DEF place
<1> HIDE DEF o2
<1>11. FreeOwned(n, o2) /\ FreeOnce(n)
  <2>1. FreeOwned(n, o2)
    <3> SUFFICES ASSUME NEW i \in 1 .. Len(n.free)
                 PROVE  n.free[i] \in Frames /\ o2[n.free[i]].kind = "free"
      BY DEF FreeOwned
    <3>1. CASE i = 1
      BY <1>2, <1>4, <1>10, <3>1
    <3>2. CASE i # 1
      <4> DEFINE j == i - 1
      <4>1. j \in 1 .. Len(m.free) /\ n.free[i] = m.free[j]
        BY <1>4, <3>2
      <4> HIDE DEF j
      <4>2. m.free[j] \in Frames /\ o[m.free[j]].kind = "free" /\ m.free[j] # f
        BY <1>5, <4>1 DEF Owned, FreeOwned
      <4> QED
        BY <1>10, <4>1, <4>2
    <3> QED
      BY <3>1, <3>2
  <2>2. FreeOnce(n)
    <3> SUFFICES ASSUME NEW i \in 1 .. Len(n.free), NEW j \in 1 .. Len(n.free),
                        n.free[i] = n.free[j]
                 PROVE  i = j
      BY DEF FreeOnce
    <3>0. ASSUME NEW h \in 1 .. Len(n.free), h # 1 PROVE n.free[h] # f
      <4> DEFINE g == h - 1
      <4>1. g \in 1 .. Len(m.free) /\ n.free[h] = m.free[g]
        BY <1>4, <3>0
      <4> HIDE DEF g
      <4> QED
        BY <1>5, <4>1
    <3>1. CASE i = 1 \/ j = 1
      BY <1>4, <3>0, <3>1
    <3>2. CASE i # 1 /\ j # 1
      <4> DEFINE a == i - 1
                 b == j - 1
      <4>1. /\ a \in 1 .. Len(m.free) /\ b \in 1 .. Len(m.free)
            /\ m.free[a] = n.free[i] /\ m.free[b] = n.free[j]
        BY <1>4, <3>2
      <4>2. a \in Int /\ b \in Int /\ i = a + 1 /\ j = b + 1
        OBVIOUS
      <4> HIDE DEF a, b
      <4>3. a = b
        BY <4>1 DEF Owned, FreeOnce
      <4> QED
        BY <4>2, <4>3
    <3> QED
      BY <3>1, <3>2
  <2> QED
    BY <2>1, <2>2
<1>12. HoldersOwned(D, X \ {f}, L, o2)
  BY <1>2, <1>3, <1>10 DEF Owned, HoldersOwned
<1>13. TablesOwned(n, D, o2)
  BY <1>2, <1>8, <1>10 DEF Owned, TablesOwned, SameTables
<1>14. PagesOwned(n, D, o2)
  BY <1>2, <1>8, <1>10 DEF Owned, PagesOwned, SameTables
<1>15. KernelMapped(n, D)
  <2>1. KernelMapped(m, D)
    BY DEF Owned
  <2>2. kpd \in Cells /\ kpd # f
    BY <1>2, Sizes
  <2>3. n.mem[kpd] = m.mem[kpd]
    BY <1>1, <2>2
  <2> QED
    BY <1>7, <2>1, <2>3 DEF KernelMapped
<1>16. ASSUME NEW h \in Frames PROVE InPlace(n, D, X \ {f}, L, o2, h)
  <2>1. CASE h = f
    BY <1>4, <1>10, <2>1 DEF InPlace
  <2>2. CASE h # f
    <3>1. o2[h] = o[h] /\ InPlace(m, D, X, L, o, h) /\ h \in Cells
      BY <1>10, <2>2, Sizes DEF Owned
    <3>2. (\E i \in 1 .. Len(m.free) : m.free[i] = h) => \E i \in 1 .. Len(n.free) : n.free[i] = h
      BY <1>4, <2>2
    <3> QED
      BY <1>8, <2>2, <3>1, <3>2 DEF InPlace, SameTables
  <2> QED
    BY <2>1, <2>2
<1>17. Owned(n, D, X \ {f}, L, o2)
  BY <1>11, <1>12, <1>13, <1>14, <1>15, <1>16 DEF Owned
<1>18. \A h \in Frames : o[h].kind \in {"dir", "table", "page"} => n.mem[h] = m.mem[h]
  BY <1>2, <1>6
<1>19. \A q \in D, u \in Pages : Keep(m, n, q, u)
  BY <1>18, KeepSpace
<1> QED
  BY <1>17, <1>19

\* An entry may get more rights, a page another content: frames stay where they are.
LEMMA SameOwners ==
  ASSUME NEW m \in Memory, NEW n \in Memory, NEW D, NEW X, NEW L, NEW o,
         Owned(m, D, X, L, o), n.free = m.free, SameTables(m, n, D),
         \A h \in Cells : n.mem[h].kern = m.mem[h].kern
  PROVE  Owned(n, D, X, L, o)
<1>1. FreeOwned(n, o) /\ FreeOnce(n) /\ HoldersOwned(D, X, L, o)
  BY DEF Owned, FreeOwned, FreeOnce
<1>2. TablesOwned(n, D, o) /\ PagesOwned(n, D, o)
  BY DEF Owned, SameTables, TablesOwned, PagesOwned
<1>3. KernelMapped(n, D)
  BY Sizes DEF Owned, KernelMapped, HoldersOwned
<1>4. ASSUME NEW h \in Frames PROVE InPlace(n, D, X, L, o, h)
  <2>1. InPlace(m, D, X, L, o, h) /\ h \in Cells
    BY Sizes DEF Owned
  <2> QED
    BY <2>1 DEF InPlace, SameTables
<1> QED
  BY <1>1, <1>2, <1>3, <1>4 DEF Owned

\* A frame that is held becomes the table d of the directory pd.
LEMMA TableOwned ==
  ASSUME NEW m \in Memory, NEW n \in Memory, NEW D, NEW X, NEW L, NEW o,
         Owned(m, D, X, L, o), NEW pd \in D, NEW d \in DEntries, NEW f \in X,
         ~ m.mem[pd].e[d].p,
         \A t \in TEntries : ~ m.mem[f].e[t].p,
         OnlyEntry(m, n, pd, d), n.mem[pd].e[d].p, n.mem[pd].e[d].page = f
  PROVE  /\ \E o2 : Owned(n, D, X \ {f}, L, o2)
         /\ \A q \in D, u \in Pages : Keep(m, n, q, u)
<1> DEFINE o2 == [h \in Frames |-> IF h = f THEN place("table", pd, d, 0) ELSE o[h]]
<1>1. /\ f \in Frames /\ f \in Cells /\ o[f].kind = "own"
      /\ pd \in Frames /\ pd \in Cells /\ o[pd].kind = "dir" /\ f # pd
  BY Sizes DEF Owned, HoldersOwned
<1>2. d \in Entries /\ DEntries \subseteq Entries /\ TEntries \subseteq Entries
  BY Sizes
<1>3. \A h \in Cells, i \in Entries : h # pd \/ i # d => n.mem[h].e[i] = m.mem[h].e[i]
  BY DEF OnlyEntry
<1>4. \A q \in D : q \in Cells /\ q \in Frames /\ q # f /\ o[q].kind = "dir"
  BY <1>1, Sizes DEF Owned, HoldersOwned
<1>5. \A q \in D, e \in DEntries : \A h \in Cells :
        IsTable(n, q, e, h) <=> IF q = pd /\ e = d THEN h = f ELSE IsTable(m, q, e, h)
  BY <1>2, <1>3, <1>4 DEF IsTable
<1>6. \A q \in D, e \in DEntries, t \in TEntries : \A h \in Cells :
        IsPage(n, q, e, t, h) <=> IsPage(m, q, e, t, h)
  <2> SUFFICES ASSUME NEW q \in D, NEW e \in DEntries, NEW t \in TEntries, NEW h \in Cells
               PROVE  IsPage(n, q, e, t, h) <=> IsPage(m, q, e, t, h)
    OBVIOUS
  <2>1. CASE q = pd /\ e = d
    <3>1. n.mem[f].e[t] = m.mem[f].e[t]
      BY <1>1, <1>2, <1>3
    <3> QED
      BY <2>1, <3>1 DEF IsPage
  <2>2. CASE ~ (q = pd /\ e = d)
    <3>1. n.mem[q].e[e] = m.mem[q].e[e]
      BY <1>2, <1>3, <1>4, <2>2
    <3>2. CASE ~ m.mem[q].e[e].p
      BY <3>1, <3>2 DEF IsPage
    <3>3. CASE m.mem[q].e[e].p
      <4> DEFINE pt == m.mem[q].e[e].page
      <4>1. pt \in Cells /\ IsTable(m, q, e, pt)
        BY <3>3, <1>2, <1>4, EntryType DEF IsTable
      <4>2. pt \in Frames /\ pt # pd
        BY <1>1, <4>1 DEF Owned, TablesOwned
      <4>3. n.mem[pt].e[t] = m.mem[pt].e[t]
        BY <1>2, <1>3, <4>1, <4>2
      <4> QED
        BY <3>1, <4>3 DEF IsPage
    <3> QED
      BY <3>2, <3>3
  <2> QED
    BY <2>1, <2>2
<1>7. /\ \A h \in Frames : h # f => o2[h] = o[h]
      /\ o2[f].kind = "table" /\ o2[f].pd = pd /\ o2[f].d = d
  BY <1>1 DEF place
<1> HIDE DEF o2
<1>8. FreeOwned(n, o2) /\ FreeOnce(n)
  BY <1>1, <1>7 DEF Owned, FreeOwned, FreeOnce, OnlyEntry
<1>9. HoldersOwned(D, X \ {f}, L, o2)
  BY <1>1, <1>4, <1>7 DEF Owned, HoldersOwned
<1>10. TablesOwned(n, D, o2)
  BY <1>1, <1>5, <1>7 DEF Owned, TablesOwned
<1>11. PagesOwned(n, D, o2)
  BY <1>1, <1>6, <1>7 DEF Owned, PagesOwned
<1>12. KernelMapped(n, D)
  BY <1>4, Sizes DEF Owned, KernelMapped, OnlyEntry
<1>13. ASSUME NEW h \in Frames PROVE InPlace(n, D, X \ {f}, L, o2, h)
  <2>1. CASE h = f
    BY <1>1, <1>5, <1>7, <2>1 DEF InPlace
  <2>2. CASE h # f
    <3>1. o2[h] = o[h] /\ InPlace(m, D, X, L, o, h) /\ h \in Cells
      BY <1>7, <2>2, Sizes DEF Owned
    <3>2. \A q \in D, e \in DEntries : IsTable(m, q, e, h) => IsTable(n, q, e, h)
      BY <1>5, <3>1 DEF IsTable
    <3> QED
      BY <1>6, <2>2, <3>1, <3>2 DEF InPlace, OnlyEntry
  <2> QED
    BY <2>1, <2>2
<1>14. Owned(n, D, X \ {f}, L, o2)
  BY <1>8, <1>9, <1>10, <1>11, <1>12, <1>13 DEF Owned
<1>15. ASSUME NEW q \in D, NEW u \in Pages PROVE Keep(m, n, q, u)
  <2>1. DIR(u) \in DEntries /\ TBL(u) \in TEntries
    BY EntriesOfPage
  <2>2. CASE q = pd /\ DIR(u) = d
    <3>1. n.mem[f].e[TBL(u)] = m.mem[f].e[TBL(u)]
      BY <1>1, <1>2, <1>3, <2>1
    <3>2. ~ Mapped(m, q, u) /\ ~ Mapped(n, q, u)
      BY <2>1, <2>2, <3>1 DEF Mapped, Slot
    <3> QED
      BY <3>2 DEF Keep
  <2>3. CASE ~ (q = pd /\ DIR(u) = d)
    <3>1. n.mem[q].e[DIR(u)] = m.mem[q].e[DIR(u)]
      BY <1>2, <1>3, <1>4, <2>1, <2>3
    <3>2. CASE ~ m.mem[q].e[DIR(u)].p
      BY <3>1, <3>2 DEF Keep, Mapped
    <3>3. CASE m.mem[q].e[DIR(u)].p
      <4> DEFINE pt == m.mem[q].e[DIR(u)].page
      <4>1. pt \in Cells /\ pt # pd
        BY <1>1, <3>3, MappedOwned
      <4>2. n.mem[pt].e[TBL(u)] = m.mem[pt].e[TBL(u)]
        BY <1>2, <1>3, <2>1, <4>1
      <4>3. Slot(n, q, u) = Slot(m, q, u)
        BY <3>1, <4>2 DEF Slot
      <4>4. Mapped(m, q, u) => Slot(m, q, u).page \in Cells
        BY MappedOwned
      <4> QED
        BY <3>1, <4>3, <4>4 DEF Keep, Mapped, OnlyEntry
    <3> QED
      BY <3>2, <3>3
  <2> QED
    BY <2>2, <2>3
<1> QED
  BY <1>14, <1>15

\* Writing the entry t of a table changes one page of one directory.
LEMMA SlotWritten ==
  ASSUME NEW m \in Memory, NEW n \in Memory, NEW D, NEW X, NEW L, NEW o,
         Owned(m, D, X, L, o), NEW pd \in D, NEW d \in DEntries, NEW t \in TEntries,
         NEW pt \in Cells, IsTable(m, pd, d, pt), OnlyEntry(m, n, pt, t)
  PROVE  /\ \A q \in D, e \in DEntries : n.mem[q].e[e] = m.mem[q].e[e]
         /\ \A q \in D, e \in DEntries, j \in TEntries : \A h \in Cells :
              q # pd \/ e # d \/ j # t => (IsPage(n, q, e, j, h) <=> IsPage(m, q, e, j, h))
         /\ \A q \in D, u \in Pages :
              q # pd \/ DIR(u) # d \/ TBL(u) # t => Keep(m, n, q, u)
<1>1. pt \in Frames /\ o[pt].kind = "table" /\ o[pt].pd = pd /\ o[pt].d = d
  BY DEF Owned, TablesOwned
<1>2. DEntries \subseteq Entries /\ TEntries \subseteq Entries
  BY Sizes
<1>3. \A h \in Cells, i \in Entries : h # pt \/ i # t => n.mem[h].e[i] = m.mem[h].e[i]
  BY DEF OnlyEntry
<1>4. \A q \in D : q \in Cells /\ q \in Frames /\ o[q].kind = "dir" /\ q # pt
  BY <1>1, Sizes DEF Owned, HoldersOwned
<1>5. \A q \in D, e \in DEntries : n.mem[q].e[e] = m.mem[q].e[e]
  BY <1>2, <1>3, <1>4
<1>6. ASSUME NEW q \in D, NEW e \in DEntries, NEW j \in TEntries, m.mem[q].e[e].p,
             q # pd \/ e # d \/ j # t
      PROVE  n.mem[m.mem[q].e[e].page].e[j] = m.mem[m.mem[q].e[e].page].e[j]
  <2> DEFINE qt == m.mem[q].e[e].page
  <2>1. qt \in Cells /\ IsTable(m, q, e, qt)
    BY <1>2, <1>4, <1>6, EntryType DEF IsTable
  <2>2. o[qt].pd = q /\ o[qt].d = e
    BY <2>1 DEF Owned, TablesOwned
  <2>3. qt # pt \/ j # t
    BY <1>1, <1>6, <2>2
  <2> QED
    BY <1>2, <1>3, <2>1, <2>3
<1>7. ASSUME NEW q \in D, NEW e \in DEntries, NEW j \in TEntries, NEW h \in Cells,
             q # pd \/ e # d \/ j # t
      PROVE  IsPage(n, q, e, j, h) <=> IsPage(m, q, e, j, h)
  <2>1. CASE m.mem[q].e[e].p
    <3>1. n.mem[m.mem[q].e[e].page].e[j] = m.mem[m.mem[q].e[e].page].e[j]
      BY <1>6, <1>7, <2>1
    <3>2. n.mem[q].e[e] = m.mem[q].e[e]
      BY <1>5
    <3> QED
      BY <3>1, <3>2 DEF IsPage
  <2>2. CASE ~ m.mem[q].e[e].p
    BY <1>5, <2>2 DEF IsPage
  <2> QED
    BY <2>1, <2>2
<1>8. ASSUME NEW q \in D, NEW u \in Pages, q # pd \/ DIR(u) # d \/ TBL(u) # t
      PROVE  Keep(m, n, q, u)
  <2>1. DIR(u) \in DEntries /\ TBL(u) \in TEntries
    BY EntriesOfPage
  <2>2. n.mem[q].e[DIR(u)] = m.mem[q].e[DIR(u)]
    BY <1>5, <2>1
  <2>3. CASE ~ m.mem[q].e[DIR(u)].p
    BY <2>2, <2>3 DEF Keep, Mapped
  <2>4. CASE m.mem[q].e[DIR(u)].p
    <3>0. n.mem[m.mem[q].e[DIR(u)].page].e[TBL(u)] = m.mem[m.mem[q].e[DIR(u)].page].e[TBL(u)]
      BY <1>6, <1>8, <2>1, <2>4
    <3>1. Slot(n, q, u) = Slot(m, q, u)
      BY <2>2, <3>0 DEF Slot
    <3>2. Mapped(m, q, u) => Slot(m, q, u).page \in Cells
      BY MappedOwned
    <3> QED
      BY <2>2, <3>1, <3>2 DEF Keep, Mapped, OnlyEntry
  <2> QED
    BY <2>3, <2>4
<1> QED
  BY <1>5, <1>7, <1>8

GetsPage(m, n, pt, t, f) ==
  ~ m.mem[pt].e[t].p /\ n.mem[pt].e[t].p /\ n.mem[pt].e[t].page = f

\* A frame that is held becomes the page t of a table.
LEMMA PageOwned ==
  ASSUME NEW m \in Memory, NEW n \in Memory, NEW D, NEW X, NEW L, NEW o,
         Owned(m, D, X, L, o), NEW pd \in D, NEW d \in DEntries, NEW t \in TEntries,
         NEW pt \in Cells, IsTable(m, pd, d, pt), OnlyEntry(m, n, pt, t),
         NEW f \in X, GetsPage(m, n, pt, t, f)
  PROVE  /\ \E o2 : Owned(n, D, X \ {f}, L, o2)
         /\ \A q \in D, u \in Pages :
              q # pd \/ DIR(u) # d \/ TBL(u) # t => Keep(m, n, q, u)
<1> DEFINE o2 == [h \in Frames |-> IF h = f THEN place("page", pd, d, t) ELSE o[h]]
<1>1. f \in Frames /\ f \in Cells /\ o[f].kind = "own"
  BY Sizes DEF Owned, HoldersOwned
<1>2. \A q \in D, e \in DEntries : n.mem[q].e[e] = m.mem[q].e[e]
  BY SlotWritten
<1>3. \A q \in D, e \in DEntries, j \in TEntries : \A h \in Cells :
        q # pd \/ e # d \/ j # t => (IsPage(n, q, e, j, h) <=> IsPage(m, q, e, j, h))
  BY SlotWritten
<1>4. \A q \in D, u \in Pages : q # pd \/ DIR(u) # d \/ TBL(u) # t => Keep(m, n, q, u)
  BY SlotWritten
<1>5. \A h \in Cells : /\ IsPage(n, pd, d, t, h) <=> h = f
                       /\ ~ IsPage(m, pd, d, t, h)
  BY <1>2 DEF IsPage, IsTable, GetsPage
<1>6. \A q \in D, e \in DEntries : \A h \in Cells : IsTable(n, q, e, h) <=> IsTable(m, q, e, h)
  BY <1>2 DEF IsTable
<1>7. /\ \A h \in Frames : h # f => o2[h] = o[h]
      /\ o2[f].kind = "page" /\ o2[f].pd = pd /\ o2[f].d = d /\ o2[f].t = t
  BY <1>1 DEF place
<1> HIDE DEF o2
<1>8. FreeOwned(n, o2) /\ FreeOnce(n)
  BY <1>1, <1>7 DEF Owned, FreeOwned, FreeOnce, OnlyEntry
<1>9. HoldersOwned(D, X \ {f}, L, o2)
  BY <1>1, <1>7 DEF Owned, HoldersOwned
<1>10. TablesOwned(n, D, o2)
  BY <1>1, <1>6, <1>7 DEF Owned, TablesOwned
<1>11. PagesOwned(n, D, o2)
  BY <1>1, <1>3, <1>5, <1>7 DEF Owned, PagesOwned
<1>12. KernelMapped(n, D)
  BY Sizes DEF Owned, KernelMapped, OnlyEntry, HoldersOwned
<1>13. ASSUME NEW h \in Frames PROVE InPlace(n, D, X \ {f}, L, o2, h)
  <2>1. CASE h = f
    BY <1>1, <1>5, <1>7, <2>1 DEF InPlace
  <2>2. CASE h # f
    <3>1. o2[h] = o[h] /\ InPlace(m, D, X, L, o, h) /\ h \in Cells
      BY <1>7, <2>2, Sizes DEF Owned
    <3>2. \A q \in D, e \in DEntries, j \in TEntries : IsPage(m, q, e, j, h) => IsPage(n, q, e, j, h)
      BY <1>3, <1>5, <3>1
    <3> QED
      BY <1>6, <2>2, <3>1, <3>2 DEF InPlace, OnlyEntry
  <2> QED
    BY <2>1, <2>2
<1>14. Owned(n, D, X \ {f}, L, o2)
  BY <1>8, <1>9, <1>10, <1>11, <1>12, <1>13 DEF Owned
<1> QED
  BY <1>4, <1>14

LosesPage(m, n, pt, t, f) ==
  m.mem[pt].e[t].p /\ m.mem[pt].e[t].page = f /\ ~ n.mem[pt].e[t].p

\* The page t of a table is unmapped and then held.
LEMMA PageTaken ==
  ASSUME NEW m \in Memory, NEW n \in Memory, NEW D, NEW X, NEW L, NEW o,
         Owned(m, D, X, L, o), NEW pd \in D, NEW d \in DEntries, NEW t \in TEntries,
         NEW pt \in Cells, IsTable(m, pd, d, pt), NEW f \in Cells,
         LosesPage(m, n, pt, t, f), OnlyEntry(m, n, pt, t)
  PROVE  /\ f \in Frames /\ f \notin X /\ f # pt /\ f \notin D
         /\ \E o2 : Owned(n, D, X \cup {f}, L, o2)
         /\ \A q \in D, u \in Pages :
              q # pd \/ DIR(u) # d \/ TBL(u) # t => Keep(m, n, q, u)
<1> DEFINE o2 == [h \in Frames |-> IF h = f THEN place("own", 0, 0, 0) ELSE o[h]]
<1>0. f \in Cells /\ IsPage(m, pd, d, t, f)
  BY DEF IsPage, IsTable, LosesPage
<1>1. /\ f \in Frames /\ f \in Cells /\ o[f].kind = "page"
      /\ o[f].pd = pd /\ o[f].d = d /\ o[f].t = t
  BY <1>0 DEF Owned, PagesOwned
<1>2. \A q \in D, e \in DEntries : n.mem[q].e[e] = m.mem[q].e[e]
  BY SlotWritten
<1>3. \A q \in D, e \in DEntries, j \in TEntries : \A h \in Cells :
        q # pd \/ e # d \/ j # t => (IsPage(n, q, e, j, h) <=> IsPage(m, q, e, j, h))
  BY SlotWritten
<1>4. \A q \in D, u \in Pages : q # pd \/ DIR(u) # d \/ TBL(u) # t => Keep(m, n, q, u)
  BY SlotWritten
<1>5. \A h \in Cells : /\ IsPage(m, pd, d, t, h) <=> h = f
                       /\ ~ IsPage(n, pd, d, t, h)
  BY <1>2 DEF IsPage, IsTable, LosesPage
<1>6. \A q \in D, e \in DEntries : \A h \in Cells : IsTable(n, q, e, h) <=> IsTable(m, q, e, h)
  BY <1>2 DEF IsTable
<1>7. /\ \A h \in Frames : h # f => o2[h] = o[h]
      /\ o2[f].kind = "own"
  BY <1>1 DEF place
<1> HIDE DEF o2
<1>8. FreeOwned(n, o2) /\ FreeOnce(n)
  BY <1>1, <1>7 DEF Owned, FreeOwned, FreeOnce, OnlyEntry
<1>9. HoldersOwned(D, X \cup {f}, L, o2)
  BY <1>1, <1>7 DEF Owned, HoldersOwned
<1>10. TablesOwned(n, D, o2)
  BY <1>1, <1>6, <1>7 DEF Owned, TablesOwned
<1>11. PagesOwned(n, D, o2)
  <2> SUFFICES ASSUME NEW q \in D, NEW e \in DEntries, NEW j \in TEntries, NEW h \in Cells,
                      IsPage(n, q, e, j, h)
               PROVE  /\ h \in Frames /\ o2[h].kind = "page"
                      /\ o2[h].pd = q /\ o2[h].d = e /\ o2[h].t = j
    BY DEF PagesOwned
  <2>1. (q # pd \/ e # d \/ j # t) /\ IsPage(m, q, e, j, h)
    BY <1>3, <1>5
  <2>2. /\ h \in Frames /\ o[h].kind = "page"
        /\ o[h].pd = q /\ o[h].d = e /\ o[h].t = j
    BY <2>1 DEF Owned, PagesOwned
  <2>3. h # f
    BY <1>1, <2>1, <2>2
  <2> QED
    BY <1>7, <2>2, <2>3
<1>12. KernelMapped(n, D)
  BY Sizes DEF Owned, KernelMapped, OnlyEntry, HoldersOwned
<1>13. ASSUME NEW h \in Frames PROVE InPlace(n, D, X \cup {f}, L, o2, h)
  <2>1. CASE h = f
    BY <1>7, <2>1 DEF InPlace
  <2>2. CASE h # f
    <3>1. o2[h] = o[h] /\ InPlace(m, D, X, L, o, h) /\ h \in Cells
      BY <1>7, <2>2, Sizes DEF Owned
    <3>2. \A q \in D, e \in DEntries, j \in TEntries : IsPage(m, q, e, j, h) => IsPage(n, q, e, j, h)
      BY <1>3, <1>5, <2>2, <3>1
    <3> QED
      BY <1>6, <3>1, <3>2 DEF InPlace, OnlyEntry
  <2> QED
    BY <2>1, <2>2
<1>14. Owned(n, D, X \cup {f}, L, o2)
  BY <1>8, <1>9, <1>10, <1>11, <1>12, <1>13 DEF Owned
<1>15. f \notin X /\ f # pt /\ f \notin D
  BY <1>1 DEF Owned, HoldersOwned, TablesOwned
<1> QED
  BY <1>1, <1>4, <1>14, <1>15

-----------------------------------------------------------------------------
(***************************************************************************)
(* The functions of vme.c.  Out of frames is the only reason for which any *)
(* of them stops the machine.                                              *)
(***************************************************************************)

Own(m, D, X, L) == \E o : Owned(m, D, X, L, o)

RunsOut == {"none", "heap empty", "kfree assert"}

AllKeep(m, n, D) == \A q \in D, u \in Pages : Keep(m, n, q, u)

LEMMA OwnFrames ==
  ASSUME NEW m, NEW D, NEW X, NEW L, Own(m, D, X, L)
  PROVE  /\ D \subseteq Frames /\ X \subseteq Frames /\ L \subseteq Frames
         /\ D \cap X = {} /\ D \cap L = {} /\ X \cap L = {}
<1>1. PICK o : Owned(m, D, X, L, o)
  BY DEF Own
<1> QED
  BY <1>1 DEF Owned, HoldersOwned

LEMMA KallocDoes ==
  ASSUME NEW m \in Memory, NEW D, NEW X, NEW L, ok(m), Own(m, D, X, L)
  PROVE  /\ kalloc(m).fault \in RunsOut
         /\ ok(kalloc(m)) =>
              /\ fresh(m) \in Frames
              /\ fresh(m) \notin D /\ fresh(m) \notin X /\ fresh(m) \notin L
              /\ Own(kalloc(m), D, X \cup {fresh(m)}, L)
              /\ AllKeep(m, kalloc(m), D)
              /\ kalloc(m).mem[fresh(m)] = zeroed
              /\ \A h \in Cells : h # fresh(m) => kalloc(m).mem[h] = m.mem[h]
<1>1. CASE m.free = <<>>
  <2>1. kalloc(m) = stop(m, "heap empty")
    BY <1>1 DEF kalloc
  <2>2. kalloc(m).fault = "heap empty"
    BY <2>1 DEF stop, Memory
  <2> QED
    BY <2>2 DEF RunsOut, ok
<1>2. CASE m.free # <<>>
  <2> DEFINE f == fresh(m)
             n == kalloc(m)
  <2>1. n = [m EXCEPT !.free = Tail(m.free), !.mem[f] = zeroed]
    BY <1>2 DEF kalloc, fresh
  <2>2. n.free = Tail(m.free) /\ n.fault = m.fault /\ n.mem = [m.mem EXCEPT ![f] = zeroed]
    BY <2>1 DEF Memory
  <2>3. f = Head(m.free) /\ f \in Cells
    BY <1>2 DEF fresh, Memory
  <2>4. n \in Memory
    BY KallocType
  <2> HIDE DEF n, f
  <2>5. \A h \in Cells : n.mem[h] = IF h = f THEN zeroed ELSE m.mem[h]
    BY <2>2, <2>3 DEF Memory
  <2>6. PICK o : Owned(m, D, X, L, o)
    BY DEF Own
  <2>7. /\ f \in Frames /\ f \notin D /\ f \notin X /\ f \notin L
        /\ \E o2 : Owned(n, D, X \cup {f}, L, o2)
        /\ \A q \in D, u \in Pages : Keep(m, n, q, u)
    <3>1. TakesHead(m, n, f) /\ f \in Cells
      BY <1>2, <2>2, <2>3 DEF TakesHead
    <3> QED
      BY <2>4, <2>5, <2>6, <3>1, AllocOwned
  <2>8. n.fault \in RunsOut
    BY <2>2 DEF ok, RunsOut
  <2>9. n.mem[f] = zeroed /\ \A h \in Cells : h # f => n.mem[h] = m.mem[h]
    BY <2>3, <2>5
  <2> QED
    BY <2>7, <2>8, <2>9 DEF n, f, Own, AllKeep
<1> QED
  BY <1>1, <1>2

LEMMA KfreeDoes ==
  ASSUME NEW m \in Memory, NEW D, NEW X, NEW L, ok(m), Own(m, D, X, L), NEW f \in X
  PROVE  /\ kfree(m, f).fault \in RunsOut
         /\ ok(kfree(m, f)) =>
              /\ Own(kfree(m, f), D, X \ {f}, L)
              /\ AllKeep(m, kfree(m, f), D)
              /\ \A h \in Cells : h # f => kfree(m, f).mem[h] = m.mem[h]
<1>1. CASE m.free = <<>>
  <2>1. kfree(m, f) = stop(m, "kfree assert")
    BY <1>1 DEF kfree
  <2>2. kfree(m, f).fault = "kfree assert"
    BY <2>1 DEF stop, Memory
  <2> QED
    BY <2>2 DEF RunsOut, ok
<1>2. CASE m.free # <<>>
  <2> DEFINE n == kfree(m, f)
  <2>1. PICK o : Owned(m, D, X, L, o)
    BY DEF Own
  <2>2. f \in Frames /\ f \in Cells /\ o[f].kind = "own"
    BY <2>1, Sizes DEF Owned, HoldersOwned
  <2>3. f \notin ToSet(m.free)
    <3>1. \A i \in DOMAIN m.free : m.free[i] # f
      BY <2>1, <2>2 DEF Owned, FreeOwned, Memory
    <3> QED
      BY <3>1 DEF ToSet
  <2>4. n = [m EXCEPT !.free = <<f>> \o m.free, !.mem[f] = zeroed]
    BY <1>2, <2>3 DEF kfree
  <2>5. /\ n.free = <<f>> \o m.free /\ n.fault = m.fault
        /\ n.mem = [m.mem EXCEPT ![f] = zeroed]
    BY <2>4 DEF Memory
  <2>6. n \in Memory
    BY <2>2, KfreeType
  <2> HIDE DEF n
  <2>7. \A h \in Cells : n.mem[h] = IF h = f THEN zeroed ELSE m.mem[h]
    BY <2>2, <2>5 DEF Memory
  <2>8. /\ \E o2 : Owned(n, D, X \ {f}, L, o2)
        /\ \A q \in D, u \in Pages : Keep(m, n, q, u)
    BY <2>1, <2>5, <2>6, <2>7, ReleaseOwned DEF Releases
  <2>9. n.fault \in RunsOut
    BY <2>5 DEF ok, RunsOut
  <2> QED
    BY <2>7, <2>8, <2>9 DEF n, Own, AllKeep
<1> QED
  BY <1>1, <1>2

\* vm_walkpte, after which there is a table; nobody's pages change.
LEMMA WalkDoes ==
  ASSUME NEW m \in Memory, NEW D, NEW X, NEW L, ok(m), Own(m, D, X, L),
         NEW pd \in D, NEW v \in Pages, NEW w \in BOOLEAN,
         NEW k, k = vm_walkpte(m, pd, v, w)
  PROVE  /\ k.fault \in RunsOut
         /\ ok(k) => /\ Own(k, D, X, L)
                     /\ AllKeep(m, k, D)
                     /\ k.mem[pd].e[DIR(v)].p
<1> DEFINE d == DIR(v)
<1>1. PICK o : Owned(m, D, X, L, o)
  BY DEF Own
<1>2. /\ pd \in Cells /\ pd \in Frames /\ o[pd].kind = "dir"
      /\ d \in DEntries /\ d \in Entries
      /\ k \in Memory
  BY <1>1, MappedOwned, EntriesOfPage, WalkType
<1>3. CASE m.mem[pd].e[d].p
  <2>1. k = Widened(m, pd, d, w)
    BY <1>3 DEF vm_walkpte, Widened
  <2> HIDE DEF d
  <2>2. k.fault = m.fault
    BY <1>2, <2>1, WidenOnly
  <2>3. /\ OnlyEntry(m, k, pd, d)
        /\ k.mem[pd].e[d].page = m.mem[pd].e[d].page
        /\ k.mem[pd].e[d].p = m.mem[pd].e[d].p
    BY <1>2, <2>1, WidenOnly
  <2>4. \A h \in Cells, i \in Entries : /\ k.mem[h].e[i].p = m.mem[h].e[i].p
                                        /\ k.mem[h].e[i].page = m.mem[h].e[i].page
    BY <2>3 DEF OnlyEntry
  <2>5. SameTables(m, k, D)
    BY <1>1, <1>2, <2>4, Sizes, TablesStay
  <2>6. Owned(k, D, X, L, o)
    BY <1>1, <1>2, <2>3, <2>5, SameOwners DEF OnlyEntry
  <2>7. ASSUME NEW q \in D, NEW u \in Pages PROVE Keep(m, k, q, u)
    <3>1. q \in Cells /\ DIR(u) \in Entries /\ TBL(u) \in Entries
      BY <1>1, MappedOwned, EntriesOfPage
    <3>2. /\ k.mem[q].e[DIR(u)].p = m.mem[q].e[DIR(u)].p
          /\ k.mem[q].e[DIR(u)].page = m.mem[q].e[DIR(u)].page
      BY <2>4, <3>1
    <3>3. CASE ~ m.mem[q].e[DIR(u)].p
      BY <3>2, <3>3 DEF Keep, Mapped
    <3>4. CASE m.mem[q].e[DIR(u)].p
      <4> DEFINE pt == m.mem[q].e[DIR(u)].page
      <4>1. pt \in Cells /\ pt # pd
        BY <1>1, <1>2, <3>4, MappedOwned
      <4>2. k.mem[pt].e[TBL(u)] = m.mem[pt].e[TBL(u)]
        BY <2>3, <3>1, <4>1 DEF OnlyEntry
      <4>3. Slot(k, q, u) = Slot(m, q, u)
        BY <3>2, <4>2 DEF Slot
      <4>4. Mapped(m, q, u) => Slot(m, q, u).page \in Cells
        BY <1>1, MappedOwned
      <4> QED
        BY <2>3, <3>2, <4>3, <4>4 DEF Keep, Mapped, OnlyEntry
    <3> QED
      BY <3>3, <3>4
  <2> QED
    BY <1>3, <2>2, <2>3, <2>6, <2>7 DEF ok, RunsOut, Own, AllKeep, d
<1>4. CASE ~ m.mem[pd].e[d].p
  <2> DEFINE n == kalloc(m)
             f == fresh(m)
             x == [page |-> f, p |-> TRUE, w |-> w]
  <2>1. k = IF ok(n) THEN [n EXCEPT !.mem[pd].e[d] = x] ELSE n
    BY <1>4 DEF vm_walkpte
  <2>2. CASE ~ ok(n)
    BY <2>1, <2>2, KallocDoes
  <2>3. CASE ok(n)
    <3>1. /\ n \in Memory
          /\ f \in Frames /\ f \in Cells /\ f \notin D /\ f \notin X /\ f \notin L
          /\ Own(n, D, X \cup {f}, L)
          /\ AllKeep(m, n, D)
          /\ n.mem[f] = zeroed
          /\ \A h \in Cells : h # f => n.mem[h] = m.mem[h]
      BY <2>3, KallocType, KallocDoes, Sizes
    <3>2. x \in Entry /\ x.p /\ x.page = f
      BY <3>1 DEF Entry
    <3>3. n.fault = "none" /\ k = [n EXCEPT !.mem[pd].e[d] = x]
      BY <2>1, <2>3 DEF ok
    <3> HIDE DEF n, f, x, d
    <3>4. OnlyEntry(n, k, pd, d) /\ k.mem[pd].e[d] = x
      <4>1. n \in Memory /\ x \in Entry
        BY <3>1, <3>2
      <4> QED
        BY <1>2, <3>3, <4>1 DEF OnlyEntry, Memory, Content
    <3>5. k.fault = "none"
      BY <3>1, <3>3 DEF Memory
    <3>6. PICK o1 : Owned(n, D, X \cup {f}, L, o1)
      BY <3>1 DEF Own
    <3>7. ~ n.mem[pd].e[d].p
      BY <1>2, <1>4, <3>1
    <3>8. \A t \in TEntries : ~ n.mem[f].e[t].p
      BY <3>1, Sizes DEF zeroed, no_entry, Entries
    <3>9. /\ \E o2 : Owned(k, D, (X \cup {f}) \ {f}, L, o2)
          /\ \A q \in D, u \in Pages : Keep(n, k, q, u)
      <4> DEFINE Y == X \cup {f}
      <4>1. f \in Y /\ k.mem[pd].e[d].p /\ k.mem[pd].e[d].page = f
        BY <3>2, <3>4
      <4>2. n \in Memory /\ Owned(n, D, Y, L, o1)
        BY <3>1, <3>6
      <4> HIDE DEF Y
      <4>3. /\ \E o2 : Owned(k, D, Y \ {f}, L, o2)
            /\ \A q \in D, u \in Pages : Keep(n, k, q, u)
        BY <1>2, <3>4, <3>7, <3>8, <4>1, <4>2, TableOwned
      <4> QED
        BY <4>3 DEF Y
    <3>10. (X \cup {f}) \ {f} = X
      BY <3>1
    <3>11. AllKeep(m, k, D)
      BY <3>1, <3>9, KeepTwice DEF AllKeep
    <3> QED
      BY <3>2, <3>4, <3>5, <3>9, <3>10, <3>11 DEF Own, RunsOut, d
  <2> QED
    BY <2>2, <2>3
<1> QED
  BY <1>3, <1>4

\* What mapping page v of pd does to the pages: a new page is zeroed.
MapsPage(m, n, D, pd, v, w) ==
  /\ \A q \in D, u \in Pages : q # pd \/ u # v => Keep(m, n, q, u)
  /\ Mapped(n, pd, v)
  /\ Slot(n, pd, v).w <=> (w \/ (Mapped(m, pd, v) /\ Slot(m, pd, v).w))
  /\ Mapped(m, pd, v) =>
       n.mem[Slot(n, pd, v).page].b = m.mem[Slot(m, pd, v).page].b
  /\ ~ Mapped(m, pd, v) => n.mem[Slot(n, pd, v).page].b = "zero"

LEMMA MapsAfterKeep ==
  ASSUME NEW m, NEW k, NEW n, NEW D, NEW pd \in D, NEW v \in Pages, NEW w,
         AllKeep(m, k, D), MapsPage(k, n, D, pd, v, w)
  PROVE  MapsPage(m, n, D, pd, v, w)
<1>1. Keep(m, k, pd, v)
  BY DEF AllKeep
<1>2. \A q \in D, u \in Pages : q # pd \/ u # v => Keep(m, n, q, u)
  BY KeepTwice DEF AllKeep, MapsPage
<1> QED
  BY <1>1, <1>2 DEF Keep, MapsPage

LEMMA MapPageDoes ==
  ASSUME NEW m \in Memory, NEW D, NEW X, NEW L, ok(m), Own(m, D, X, L),
         NEW pd \in D, NEW v \in Pages, NEW w \in BOOLEAN,
         NEW n, n = vm_map_page(m, pd, v, w)
  PROVE  /\ n.fault \in RunsOut
         /\ ok(n) => Own(n, D, X, L) /\ MapsPage(m, n, D, pd, v, w)
<1> DEFINE d == DIR(v)
           t == TBL(v)
           k == vm_walkpte(m, pd, v, w)
           pt == k.mem[pd].e[d].page
           a == kalloc(k)
           x == [page |-> fresh(k), p |-> TRUE, w |-> w]
<1>1. n = IF ~ ok(k) THEN k
          ELSE IF k.mem[pt].e[t].p THEN [k EXCEPT !.mem[pt].e[t].w = @ \/ w]
          ELSE IF ok(a) THEN [a EXCEPT !.mem[pt].e[t] = x] ELSE a
  BY DEF vm_map_page
<1>2. /\ pd \in Cells /\ k \in Memory
      /\ d \in DEntries /\ d \in Entries /\ t \in TEntries /\ t \in Entries
  BY OwnFrames, Sizes, EntriesOfPage, WalkType
<1>3. /\ k.fault \in RunsOut
      /\ ok(k) => Own(k, D, X, L) /\ AllKeep(m, k, D) /\ k.mem[pd].e[d].p
  BY WalkDoes
<1>4. pt \in Cells
  BY <1>2, EntryType
<1>5. CASE ~ ok(k)
  BY <1>1, <1>3, <1>5
<1>6. CASE ok(k) /\ k.mem[pt].e[t].p
  <2>1. n = Widened(k, pt, t, w)
    BY <1>1, <1>6 DEF Widened
  <2> HIDE DEF k, pt, d, t
  <2>2. n.fault = k.fault
    BY <1>2, <1>4, <2>1, WidenOnly
  <2>3. /\ OnlyEntry(k, n, pt, t)
        /\ n.mem[pt].e[t].page = k.mem[pt].e[t].page
        /\ n.mem[pt].e[t].p = k.mem[pt].e[t].p
        /\ n.mem[pt].e[t].w <=> (k.mem[pt].e[t].w \/ w)
    BY <1>2, <1>4, <2>1, WidenOnly
  <2>4. n \in Memory
    BY <1>2, <1>4, <2>1, WidenOnly
  <2>5. PICK o : Owned(k, D, X, L, o)
    BY <1>3, <1>6 DEF Own
  <2>6. \A h \in Cells, i \in Entries : /\ n.mem[h].e[i].p = k.mem[h].e[i].p
                                        /\ n.mem[h].e[i].page = k.mem[h].e[i].page
    BY <2>3 DEF OnlyEntry
  <2>7. SameTables(k, n, D)
    BY <1>2, <2>4, <2>5, <2>6, Sizes, TablesStay
  <2>8. Owned(n, D, X, L, o)
    BY <1>2, <2>3, <2>4, <2>5, <2>7, SameOwners DEF OnlyEntry
  <2>9. IsTable(k, pd, d, pt)
    BY <1>3, <1>6 DEF IsTable, pt
  <2>10. \A q \in D, u \in Pages : q # pd \/ DIR(u) # d \/ TBL(u) # t => Keep(k, n, q, u)
    BY <1>2, <1>4, <2>3, <2>4, <2>5, <2>9, SlotWritten
  <2>11. \A q \in D, u \in Pages : q # pd \/ u # v => Keep(k, n, q, u)
    BY <2>10, PageOfIndex DEF d, t
  <2>12. /\ n.mem[pd].e[d] = k.mem[pd].e[d]
         /\ k.mem[pd].e[d].p
    BY <1>2, <1>3, <1>4, <1>6, <2>3, <2>4, <2>5, <2>9, SlotWritten
  <2>13. /\ Slot(k, pd, v) = k.mem[pt].e[t]
         /\ Slot(n, pd, v) = n.mem[pt].e[t]
    BY <2>12 DEF Slot, pt, d, t
  <2>14. Mapped(k, pd, v) /\ Mapped(n, pd, v)
    BY <1>6, <2>3, <2>12, <2>13 DEF Mapped, d
  <2>15. k.mem[pt].e[t].page \in Cells
    BY <1>2, <1>4, EntryType
  <2>16. MapsPage(k, n, D, pd, v, w)
    BY SMTT(30), <2>3, <2>11, <2>13, <2>14, <2>15 DEF MapsPage, OnlyEntry
  <2>17. MapsPage(m, n, D, pd, v, w)
    BY <1>3, <1>6, <2>16, MapsAfterKeep
  <2> QED
    BY <1>3, <2>2, <2>8, <2>17 DEF Own
<1>7. CASE ok(k) /\ ~ k.mem[pt].e[t].p /\ ~ ok(a)
  <2>1. a.fault \in RunsOut
    BY <1>2, <1>3, <1>7, KallocDoes
  <2> QED
    BY <1>1, <1>7, <2>1
<1>8. CASE ok(k) /\ ~ k.mem[pt].e[t].p /\ ok(a)
  <2> DEFINE f == fresh(k)
             Y == X \cup {f}
  <2>1. n = [a EXCEPT !.mem[pt].e[t] = x]
    BY <1>1, <1>8
  <2>2. /\ a \in Memory
        /\ f \in Frames /\ f \in Cells /\ f \notin D /\ f \notin X
        /\ Own(a, D, Y, L)
        /\ AllKeep(k, a, D)
        /\ a.mem[f] = zeroed
        /\ \A h \in Cells : h # f => a.mem[h] = k.mem[h]
    BY <1>2, <1>3, <1>8, KallocType, KallocDoes, Sizes
  <2>3. x \in Entry /\ x.p /\ x.page = f /\ x.w = w
    BY <2>2 DEF Entry
  <2>4. a.fault = "none"
    BY <1>8 DEF ok
  <2>5. IsTable(k, pd, d, pt)
    BY <1>3, <1>8 DEF IsTable
  <2> HIDE DEF k, pt, d, t, a, x, f
  <2>6. OnlyEntry(a, n, pt, t) /\ n.mem[pt].e[t] = x
    BY <1>2, <1>4, <2>1, <2>2, <2>3 DEF OnlyEntry, Memory, Content
  <2>7. n.fault = "none"
    BY <2>1, <2>2, <2>4 DEF Memory
  <2>8. n \in Memory
    BY <1>2, <1>4, <2>1, <2>2, <2>3, SetEntryType
  <2>9. pt # f
    <3>1. PICK o : Owned(k, D, X, L, o)
      BY <1>3, <1>8 DEF Own
    <3>2. o[pt].kind = "table"
      BY <1>2, <1>4, <2>5, <3>1 DEF Owned, TablesOwned
    <3>3. f \in Y
      OBVIOUS
    <3>4. PICK o1 : Owned(a, D, Y, L, o1)
      BY <2>2 DEF Own
    <3>5. o1[f].kind = "own"
      BY <3>3, <3>4 DEF Owned, HoldersOwned
    <3>6. IsTable(a, pd, d, pt)
      BY <1>2, <2>2, <2>5 DEF IsTable
    <3>7. o1[pt].kind = "table"
      BY <1>2, <1>4, <3>4, <3>6 DEF Owned, TablesOwned
    <3> QED
      BY <3>5, <3>7
  <2>10. IsTable(a, pd, d, pt)
    BY <1>2, <2>2, <2>5 DEF IsTable
  <2>11. ~ a.mem[pt].e[t].p
    BY <1>4, <1>8, <2>2, <2>9
  <2>12. PICK o : Owned(a, D, Y, L, o)
    BY <2>2 DEF Own
  <2>13. f \in Y
    OBVIOUS
  <2>14. n.mem[pt].e[t].p /\ n.mem[pt].e[t].page = f
    BY <2>3, <2>6
  <2> HIDE DEF Y
  <2>15. /\ \E o2 : Owned(n, D, Y \ {f}, L, o2)
         /\ \A q \in D, u \in Pages : q # pd \/ DIR(u) # d \/ TBL(u) # t => Keep(a, n, q, u)
    <3>1. a \in Memory /\ OnlyEntry(a, n, pt, t) /\ d \in DEntries /\ t \in TEntries
      BY <1>2, <2>2, <2>6
    <3>2. GetsPage(a, n, pt, t, f)
      BY <2>11, <2>14 DEF GetsPage
    <3> QED
      BY <1>4, <2>8, <2>10, <2>12, <2>13, <3>1, <3>2, PageOwned
  <2>16. Y \ {f} = X
    BY <2>2 DEF Y
  <2>17. \A q \in D, u \in Pages : q # pd \/ u # v => Keep(a, n, q, u)
    BY <2>15, PageOfIndex DEF d, t
  <2>18. /\ n.mem[pd].e[d] = a.mem[pd].e[d]
         /\ a.mem[pd].e[d] = k.mem[pd].e[d]
         /\ k.mem[pd].e[d].p
    <3>1. n.mem[pd].e[d] = a.mem[pd].e[d]
      BY <1>2, <1>4, <2>2, <2>6, <2>8, <2>10, <2>12, SlotWritten
    <3> QED
      BY <1>2, <1>3, <1>8, <2>2, <3>1
  <2>19. /\ Slot(a, pd, v) = a.mem[pt].e[t]
         /\ Slot(n, pd, v) = n.mem[pt].e[t]
    BY <2>18 DEF Slot, pt, d, t
  <2>20. ~ Mapped(a, pd, v) /\ Mapped(n, pd, v)
    BY <2>11, <2>14, <2>18, <2>19 DEF Mapped, d
  <2>21. n.mem[f].b = "zero"
    BY <2>2, <2>6 DEF OnlyEntry, zeroed
  <2>22. MapsPage(a, n, D, pd, v, w)
    BY <2>3, <2>6, <2>14, <2>17, <2>19, <2>20, <2>21 DEF MapsPage
  <2>23. MapsPage(m, n, D, pd, v, w)
    <3>1. AllKeep(m, a, D)
      BY <1>3, <1>8, <2>2, KeepTwice DEF AllKeep
    <3> QED
      BY <2>22, <3>1, MapsAfterKeep
  <2> QED
    BY <2>7, <2>15, <2>16, <2>23 DEF Own, RunsOut
<1> QED
  BY <1>5, <1>6, <1>7, <1>8

\* A frame that is held, has no entry and maps the kernel becomes a directory.
LEMMA DirOwned ==
  ASSUME NEW m \in Memory, NEW n \in Memory, NEW D, NEW X, NEW L, NEW o,
         Owned(m, D, X, L, o), NEW f \in X,
         \A d \in DEntries : ~ m.mem[f].e[d].p,
         n.free = m.free, n.mem[f].kern,
         \A h \in Cells : n.mem[h].e = m.mem[h].e /\ n.mem[h].b = m.mem[h].b,
         \A h \in Cells : h # f => n.mem[h].kern = m.mem[h].kern
  PROVE  /\ \E o2 : Owned(n, D \cup {f}, X \ {f}, L, o2)
         /\ AllKeep(m, n, D)
         /\ \A u \in Pages : ~ Mapped(n, f, u)
<1> DEFINE o2 == [h \in Frames |-> IF h = f THEN place("dir", 0, 0, 0) ELSE o[h]]
<1>1. f \in Frames /\ f \in Cells /\ o[f].kind = "own" /\ f # kpd
  BY Sizes DEF Owned, HoldersOwned
<1>2. \A q \in D : q \in Cells /\ q \in Frames /\ q # f
  BY <1>1, Sizes DEF Owned, HoldersOwned
<1>3. /\ \A h \in Frames : h # f => o2[h] = o[h]
      /\ o2[f].kind = "dir"
  BY <1>1 DEF place
<1> HIDE DEF o2
<1>4. \A d \in DEntries : ~ n.mem[f].e[d].p
  BY <1>1
<1>5. SameTables(m, n, D)
  <2>1. \A h \in Frames : \A i \in Entries : /\ n.mem[h].e[i].p = m.mem[h].e[i].p
                                             /\ n.mem[h].e[i].page = m.mem[h].e[i].page
    BY Sizes
  <2> QED
    BY <2>1, TablesStay
<1>6. \A d \in DEntries : \A h \in Cells :
        /\ ~ IsTable(n, f, d, h)
        /\ \A t \in TEntries : ~ IsPage(n, f, d, t, h)
  BY <1>4 DEF IsTable, IsPage
<1>7. FreeOwned(n, o2) /\ FreeOnce(n)
  BY <1>1, <1>3 DEF Owned, FreeOwned, FreeOnce
<1>8. HoldersOwned(D \cup {f}, X \ {f}, L, o2)
  BY <1>1, <1>2, <1>3 DEF Owned, HoldersOwned
<1>9. TablesOwned(n, D \cup {f}, o2)
  BY <1>1, <1>3, <1>5, <1>6 DEF Owned, TablesOwned, SameTables
<1>10. PagesOwned(n, D \cup {f}, o2)
  BY <1>1, <1>3, <1>5, <1>6 DEF Owned, PagesOwned, SameTables
<1>11. KernelMapped(n, D \cup {f})
  BY <1>1, <1>2, Sizes DEF Owned, KernelMapped
<1>12. ASSUME NEW h \in Frames PROVE InPlace(n, D \cup {f}, X \ {f}, L, o2, h)
  <2>1. CASE h = f
    BY <1>3, <2>1 DEF InPlace
  <2>2. CASE h # f
    <3>1. o2[h] = o[h] /\ InPlace(m, D, X, L, o, h) /\ h \in Cells
      BY <1>3, <2>2, Sizes DEF Owned
    <3> QED
      BY <1>5, <2>2, <3>1 DEF InPlace, SameTables
  <2> QED
    BY <2>1, <2>2
<1>13. Owned(n, D \cup {f}, X \ {f}, L, o2)
  BY <1>7, <1>8, <1>9, <1>10, <1>11, <1>12 DEF Owned
<1>14. ASSUME NEW q \in D, NEW u \in Pages PROVE Keep(m, n, q, u)
  <2>1. /\ q \in Cells
        /\ m.mem[q].e[DIR(u)].p => m.mem[q].e[DIR(u)].page \in Cells
        /\ Mapped(m, q, u) => Slot(m, q, u).page \in Cells
    BY MappedOwned
  <2> QED
    BY <2>1 DEF Keep, Mapped, Slot
<1>15. \A u \in Pages : ~ Mapped(n, f, u)
  BY <1>4, EntriesOfPage DEF Mapped
<1> QED
  BY <1>13, <1>14, <1>15 DEF AllKeep

\* vm_alloc: a new directory, in which no page is mapped.
LEMMA VmAllocDoes ==
  ASSUME NEW m \in Memory, NEW D, NEW X, NEW L, ok(m), Own(m, D, X, L),
         NEW n, n = vm_alloc(m)
  PROVE  /\ n.fault \in RunsOut
         /\ ok(n) => /\ fresh(m) \in Frames
                     /\ fresh(m) \notin D /\ fresh(m) \notin X /\ fresh(m) \notin L
                     /\ Own(n, D \cup {fresh(m)}, X, L)
                     /\ AllKeep(m, n, D)
                     /\ \A u \in Pages : ~ Mapped(n, fresh(m), u)
<1> DEFINE k == kalloc(m)
           f == fresh(m)
<1>1. n = IF ok(k) THEN [k EXCEPT !.mem[f].kern = TRUE] ELSE k
  BY DEF vm_alloc
<1>2. k \in Memory /\ k.fault \in RunsOut
  BY KallocType, KallocDoes
<1>3. CASE ~ ok(k)
  BY <1>1, <1>2, <1>3
<1>4. CASE ok(k)
  <2>1. /\ f \in Frames /\ f \in Cells
        /\ f \notin D /\ f \notin X /\ f \notin L
        /\ Own(k, D, X \cup {f}, L)
        /\ AllKeep(m, k, D)
        /\ k.mem[f] = zeroed
    BY <1>4, KallocDoes, Sizes
  <2>2. n = [k EXCEPT !.mem[f].kern = TRUE]
    BY <1>1, <1>4
  <2> HIDE DEF k, f
  <2>3. /\ n.free = k.free /\ n.fault = k.fault /\ n.mem[f].kern
        /\ \A h \in Cells : n.mem[h].e = k.mem[h].e /\ n.mem[h].b = k.mem[h].b
        /\ \A h \in Cells : h # f => n.mem[h].kern = k.mem[h].kern
    BY <1>2, <2>1, <2>2 DEF Memory, Content
  <2>4. n \in Memory
    BY <1>2, <2>1, <2>2, SetKernType
  <2>5. \A d \in DEntries : ~ k.mem[f].e[d].p
    BY <2>1, Sizes DEF zeroed, no_entry, Entries
  <2> DEFINE Y == X \cup {f}
  <2>6. f \in Y /\ Y \ {f} = X
    BY <2>1
  <2>7. PICK o : Owned(k, D, Y, L, o)
    BY <2>1 DEF Own
  <2> HIDE DEF Y
  <2>8. /\ \E o2 : Owned(n, D \cup {f}, Y \ {f}, L, o2)
        /\ AllKeep(k, n, D)
        /\ \A u \in Pages : ~ Mapped(n, f, u)
    BY <1>2, <2>3, <2>4, <2>5, <2>6, <2>7, DirOwned
  <2>9. AllKeep(m, n, D)
    BY <2>1, <2>8, KeepTwice DEF AllKeep
  <2> QED
    BY <1>2, <2>1, <2>3, <2>6, <2>8, <2>9 DEF Own, f
<1> QED
  BY <1>3, <1>4

\* From m to n page v of pd gets the content x, and nothing else changes.
Writes(m, n, D, pd, v, x) ==
  /\ \A q \in D, u \in Pages : q # pd \/ u # v => Keep(m, n, q, u)
  /\ Mapped(n, pd, v)
  /\ Slot(n, pd, v).w <=> Slot(m, pd, v).w
  /\ n.mem[Slot(n, pd, v).page].b = x

\* put: what is written to a mapped page goes to no other page.
LEMMA PutDoes ==
  ASSUME NEW m \in Memory, NEW D, NEW X, NEW L, ok(m), Own(m, D, X, L),
         NEW pd \in D, NEW v \in Pages, Mapped(m, pd, v), NEW x \in Contents,
         NEW n, n = put(m, pd, v, x)
  PROVE  /\ ok(n)
         /\ Own(n, D, X, L) /\ Writes(m, n, D, pd, v, x)
<1> DEFINE f == Slot(m, pd, v).page
<1>1. PICK o : Owned(m, D, X, L, o)
  BY DEF Own
<1>2. pd \in Cells
  BY <1>1, MappedOwned
<1>3. /\ f \in Frames /\ f \in Cells /\ o[f].kind = "page" /\ o[f].pd = pd
      /\ o[f].d = DIR(v) /\ o[f].t = TBL(v)
  BY <1>1, MappedOwned
<1>4. frame_of(m, pd, v) = f
  BY <1>2, PteIsSlot
<1>5. n = [m EXCEPT !.mem[f].b = x]
  BY <1>4 DEF put
<1>6. n \in Memory
  BY <1>2, PutType
<1> HIDE DEF f
<1>7. /\ n.free = m.free /\ n.fault = m.fault
      /\ \A h \in Cells : n.mem[h].e = m.mem[h].e /\ n.mem[h].kern = m.mem[h].kern
      /\ \A h \in Cells : h # f => n.mem[h].b = m.mem[h].b
      /\ n.mem[f].b = x
  BY <1>3, <1>5 DEF Memory, Content
<1>8. SameTables(m, n, D)
  <2>1. \A h \in Frames : \A i \in Entries : /\ n.mem[h].e[i].p = m.mem[h].e[i].p
                                             /\ n.mem[h].e[i].page = m.mem[h].e[i].page
    BY <1>7, Sizes
  <2> QED
    BY <1>1, <1>6, <2>1, TablesStay
<1>9. Owned(n, D, X, L, o)
  BY <1>1, <1>6, <1>7, <1>8, SameOwners
<1>10. ASSUME NEW q \in D, NEW u \in Pages
       PROVE  /\ Slot(n, q, u) = Slot(m, q, u) \/ ~ m.mem[q].e[DIR(u)].p
              /\ Mapped(n, q, u) <=> Mapped(m, q, u)
              /\ Mapped(m, q, u) => Slot(n, q, u) = Slot(m, q, u)
              /\ q # pd \/ u # v => Keep(m, n, q, u)
  <2>1. /\ q \in Cells
        /\ m.mem[q].e[DIR(u)].p => m.mem[q].e[DIR(u)].page \in Cells
    BY <1>1, MappedOwned
  <2>2. Mapped(m, q, u) =>
          /\ Slot(m, q, u).page \in Cells
          /\ o[Slot(m, q, u).page].pd = q
          /\ o[Slot(m, q, u).page].d = DIR(u) /\ o[Slot(m, q, u).page].t = TBL(u)
    BY <1>1, MappedOwned
  <2>3. n.mem[q].e = m.mem[q].e
    BY <1>7, <2>1
  <2>4. m.mem[q].e[DIR(u)].p => Slot(n, q, u) = Slot(m, q, u)
    BY <1>7, <2>1, <2>3 DEF Slot
  <2>5. Mapped(n, q, u) <=> Mapped(m, q, u)
    BY <2>3, <2>4 DEF Mapped
  <2>6. ASSUME q # pd \/ u # v PROVE Keep(m, n, q, u)
    <3>1. Mapped(m, q, u) => Slot(m, q, u).page # f
      BY <1>3, <2>2, <2>6, PageOfIndex
    <3> QED
      BY <1>7, <2>2, <2>4, <2>5, <3>1 DEF Keep, Mapped
  <2> QED
    BY <2>4, <2>5, <2>6 DEF Mapped
<1>11. Slot(n, pd, v) = Slot(m, pd, v) /\ Mapped(n, pd, v)
  BY <1>10
<1> QED
  BY <1>7, <1>9, <1>10, <1>11 DEF Own, Writes, ok, f

-----------------------------------------------------------------------------
(***************************************************************************)
(* The loops of vme.c and loader.c.                                        *)
(***************************************************************************)

\* The memory m of a machine that goes on, or that has run out of frames.
Fine(m, D, X, L) ==
  /\ m \in Memory /\ D \subseteq Cells
  /\ m.fault \in RunsOut
  /\ ok(m) => Own(m, D, X, L)

LEMMA FineOwn ==
  ASSUME NEW m \in Memory, NEW D, NEW X, NEW L, Own(m, D, X, L), m.fault \in RunsOut
  PROVE  Fine(m, D, X, L)
  BY OwnFrames, Sizes DEF Fine

\* After a fault nothing happens.
LEMMA Stopped ==
  ASSUME NEW m \in Memory, ~ ok(m)
  PROVE  /\ kalloc(m) = m /\ vm_alloc(m) = m
         /\ \A f : kfree(m, f) = m
         /\ \A pd, v, w : vm_map_page(m, pd, v, w) = m
         /\ \A pd, v, x : put(m, pd, v, x) = m
         /\ \A pd, v : copy_page(m, pd, v) = m
         /\ \A pd, v, w, x : load_page(m, pd, v, w, x) = m
         /\ \A x : free_pte(m, x) = m
<1>1. kalloc(m) = m /\ vm_alloc(m) = m
  BY DEF kalloc, vm_alloc
<1>2. \A f : kfree(m, f) = m
  BY DEF kfree
<1>3. \A pd, v, w : vm_walkpte(m, pd, v, w) = m
  BY DEF vm_walkpte
<1>4. ASSUME NEW pd, NEW v, NEW w PROVE vm_map_page(m, pd, v, w) = m
  <2>1. vm_walkpte(m, pd, v, w) = m
    BY <1>3
  <2> QED
    BY <2>1, Zenon DEF vm_map_page
<1>5. \A pd, v, x : put(m, pd, v, x) = m
  BY DEF put
<1>6. \A pd, v : copy_page(m, pd, v) = m
  BY DEF copy_page
<1>7. \A pd, v, w, x : load_page(m, pd, v, w, x) = m
  BY <1>4, <1>5 DEF load_page
<1>8. \A x : free_pte(m, x) = m
  BY <1>2 DEF free_pte
<1> QED
  BY <1>1, <1>2, <1>4, <1>5, <1>6, <1>7, <1>8

\* What mapping the pages V of pd does.
MapsPages(m, n, D, pd, V, w) ==
  /\ \A q \in D, u \in Pages : q # pd \/ u \notin V => Keep(m, n, q, u)
  /\ \A v \in Pages : v \in V =>
       /\ Mapped(n, pd, v)
       /\ Slot(n, pd, v).w <=> (w \/ (Mapped(m, pd, v) /\ Slot(m, pd, v).w))
       /\ Mapped(m, pd, v) =>
            n.mem[Slot(n, pd, v).page].b = m.mem[Slot(m, pd, v).page].b
       /\ ~ Mapped(m, pd, v) => n.mem[Slot(n, pd, v).page].b = "zero"

LEMMA MapsOneMore ==
  ASSUME NEW m, NEW k, NEW n, NEW D, NEW pd \in D, NEW V, NEW v \in Pages, NEW w \in BOOLEAN,
         MapsPages(m, k, D, pd, V, w), MapsPage(k, n, D, pd, v, w)
  PROVE  MapsPages(m, n, D, pd, V \cup {v}, w)
<1>1. ASSUME NEW q \in D, NEW u \in Pages, q # pd \/ u \notin V \cup {v}
      PROVE  Keep(m, n, q, u)
  BY <1>1, KeepTwice DEF MapsPages, MapsPage
<1>2. ASSUME NEW u \in Pages, u \in V \cup {v}
      PROVE  /\ Mapped(n, pd, u)
             /\ Slot(n, pd, u).w <=> (w \/ (Mapped(m, pd, u) /\ Slot(m, pd, u).w))
             /\ Mapped(m, pd, u) =>
                  n.mem[Slot(n, pd, u).page].b = m.mem[Slot(m, pd, u).page].b
             /\ ~ Mapped(m, pd, u) => n.mem[Slot(n, pd, u).page].b = "zero"
  <2>1. CASE u # v
    <3>1. Keep(k, n, pd, u) /\ u \in V
      BY <1>2, <2>1 DEF MapsPage
    <3> QED
      BY <3>1 DEF MapsPages, Keep
  <2>2. CASE u = v /\ u \in V
    BY <2>2 DEF MapsPages, MapsPage
  <2>3. CASE u = v /\ u \notin V
    <3>1. Keep(m, k, pd, v)
      BY <2>3 DEF MapsPages
    <3> QED
      BY <2>3, <3>1 DEF MapsPage, Keep
  <2> QED
    BY <2>1, <2>2, <2>3
<1> QED
  BY <1>1, <1>2 DEF MapsPages

LEMMA MapDoes ==
  ASSUME NEW m, NEW D, NEW X, NEW L, Fine(m, D, X, L),
         NEW pd \in D, NEW vs \in Seq(Pages), NEW w \in BOOLEAN,
         NEW n, n = vm_map(m, pd, vs, w)
  PROVE  /\ Fine(n, D, X, L)
         /\ ok(n) => ok(m) /\ MapsPages(m, n, D, pd, ToSet(vs), w)
<1>1. m \in Memory /\ pd \in Cells
  BY DEF Fine
<1>2. PICK done : /\ done[0] = m
                  /\ \A k \in 1 .. Len(vs) : done[k] = vm_map_page(done[k - 1], pd, vs[k], w)
                  /\ \A k \in 0 .. Len(vs) : done[k] \in Memory
                  /\ n = done[Len(vs)]
  BY <1>1, MapRounds
<1> DEFINE V(k) == {vs[i] : i \in 1 .. k}
           good == {k \in 0 .. Len(vs) :
                      /\ Fine(done[k], D, X, L)
                      /\ ok(done[k]) => ok(m) /\ MapsPages(m, done[k], D, pd, V(k), w)}
<1>3. 0 \in good
  <2>1. MapsPages(m, m, D, pd, V(0), w)
    BY DEF MapsPages, Keep
  <2> HIDE DEF V
  <2> QED
    BY <1>2, <2>1
<1>4. ASSUME NEW k \in 1 .. Len(vs), k - 1 \in good PROVE k \in good
  <2> DEFINE a == done[k - 1]
             b == done[k]
             v == vs[k]
  <2>1. /\ Fine(a, D, X, L)
        /\ ok(a) => ok(m) /\ MapsPages(m, a, D, pd, V(k - 1), w)
    BY <1>4
  <2>2. b = vm_map_page(a, pd, v, w) /\ a \in Memory /\ b \in Memory /\ v \in Pages
    BY <1>2
  <2>3. V(k) = V(k - 1) \cup {v}
    BY <1>4
  <2> HIDE DEF a, b, v, V
  <2>4. CASE ~ ok(a)
    <3>1. b = a
      BY <2>2, <2>4, Stopped
    <3> QED
      BY <2>1, <2>4, <3>1 DEF a, b
  <2>5. CASE ok(a)
    <3>1. b.fault \in RunsOut /\ (ok(b) => Own(b, D, X, L) /\ MapsPage(a, b, D, pd, v, w))
      BY <2>1, <2>2, <2>5, MapPageDoes DEF Fine
    <3>2. ok(b) => MapsPages(m, b, D, pd, V(k), w)
      BY <2>1, <2>2, <2>3, <2>5, <3>1, MapsOneMore
    <3> QED
      BY <2>1, <2>2, <2>5, <3>1, <3>2 DEF Fine, a, b
  <2> QED
    BY <2>4, <2>5
<1>5. Len(vs) \in Nat /\ \A k \in 0 .. Len(vs) : k \in good
  <2>1. Len(vs) \in Nat
    OBVIOUS
  <2> HIDE DEF good
  <2> QED
    BY <1>3, <1>4, <2>1, RoundByRound
<1>6. V(Len(vs)) = ToSet(vs)
  BY DEF ToSet
<1>7. Len(vs) \in good
  <2> HIDE DEF good
  <2> QED
    BY <1>5
<1> HIDE DEF V
<1> QED
  BY <1>2, <1>6, <1>7

\* load_page: the page is mapped and gets its content.
LoadsPage(m, n, D, pd, v, w, x) ==
  /\ \A q \in D, u \in Pages : q # pd \/ u # v => Keep(m, n, q, u)
  /\ Mapped(n, pd, v)
  /\ Slot(n, pd, v).w <=> (w \/ (Mapped(m, pd, v) /\ Slot(m, pd, v).w))
  /\ n.mem[Slot(n, pd, v).page].b = x

LEMMA LoadPageDoes ==
  ASSUME NEW m, NEW D, NEW X, NEW L, Fine(m, D, X, L),
         NEW pd \in D, NEW v \in Pages, NEW w \in BOOLEAN, NEW x \in Contents,
         NEW n, n = load_page(m, pd, v, w, x)
  PROVE  /\ Fine(n, D, X, L)
         /\ ok(n) => ok(m) /\ LoadsPage(m, n, D, pd, v, w, x)
<1> DEFINE k == vm_map_page(m, pd, v, w)
<1>1. m \in Memory /\ pd \in Cells
  BY DEF Fine
<1>2. k \in Memory /\ n \in Memory
  BY <1>1, MapPageType, LoadPageType
<1>3. n = put(k, pd, v, x)
  BY DEF load_page
<1>4. CASE ~ ok(m)
  <2>1. n = m
    BY <1>1, <1>4, Stopped
  <2> QED
    BY <1>4, <2>1
<1>5. CASE ok(m)
  <2>1. /\ k.fault \in RunsOut
        /\ ok(k) => Own(k, D, X, L) /\ MapsPage(m, k, D, pd, v, w)
    BY <1>1, <1>5, MapPageDoes DEF Fine
  <2> HIDE DEF k
  <2>2. CASE ~ ok(k)
    <3>1. n = k
      BY <1>2, <1>3, <2>2, Stopped
    <3> QED
      BY <1>2, <2>1, <2>2, <3>1 DEF Fine
  <2>3. CASE ok(k)
    <3>1. Mapped(k, pd, v)
      BY <2>1, <2>3 DEF MapsPage
    <3>2. ok(n) /\ Own(n, D, X, L) /\ Writes(k, n, D, pd, v, x)
      BY <1>2, <1>3, <2>1, <2>3, <3>1, PutDoes
    <3>3. LoadsPage(m, n, D, pd, v, w, x)
      <4>1. \A q \in D, u \in Pages : q # pd \/ u # v => Keep(m, n, q, u)
        BY <2>1, <2>3, <3>2, KeepTwice DEF MapsPage, Writes
      <4> QED
        BY <2>1, <2>3, <3>2, <4>1 DEF MapsPage, Writes, LoadsPage
    <3> QED
      BY <1>2, <1>5, <3>2, <3>3 DEF Fine, RunsOut, ok
  <2> QED
    BY <2>2, <2>3
<1> QED
  BY <1>4, <1>5

\* The segments up to the k-th are in the space of pd, which was empty in m.
Loaded(m, n, D, pd, name, k) ==
  /\ \A q \in D, u \in Pages : q # pd => Keep(m, n, q, u)
  /\ \A u \in Pages :
       /\ Mapped(n, pd, u) <=> \E i \in 1 .. k : Image[name].pages[i].v = u
       /\ Mapped(n, pd, u) =>
            /\ Slot(n, pd, u).w <=>
                 \E i \in 1 .. k : Image[name].pages[i].v = u /\ Image[name].pages[i].w
            /\ n.mem[Slot(n, pd, u).page].b = name

LEMMA LoadsOneMore ==
  ASSUME NEW m, NEW j, NEW n, NEW D, NEW pd \in D, NEW name \in DOMAIN Image,
         NEW k \in 1 .. Len(Image[name].pages),
         Loaded(m, j, D, pd, name, k - 1),
         LoadsPage(j, n, D, pd, Image[name].pages[k].v, Image[name].pages[k].w, name)
  PROVE  Loaded(m, n, D, pd, name, k)
<1> DEFINE s == Image[name].pages
           has(i, u) == s[i].v = u
           wri(i, u) == s[i].v = u /\ s[i].w
<1>1. s[k].v \in Pages /\ s[k].w \in BOOLEAN
  BY ImagePages
<1>2. ASSUME NEW u \in Pages
      PROVE  /\ (\E i \in 1 .. k : has(i, u)) <=> (\E i \in 1 .. k - 1 : has(i, u)) \/ has(k, u)
             /\ (\E i \in 1 .. k : wri(i, u)) <=> (\E i \in 1 .. k - 1 : wri(i, u)) \/ wri(k, u)
  <2> HIDE DEF s, has, wri
  <2> QED
    OBVIOUS
<1>3. ASSUME NEW q \in D, NEW u \in Pages, q # pd PROVE Keep(m, n, q, u)
  BY <1>3, KeepTwice DEF Loaded, LoadsPage
<1>4. ASSUME NEW u \in Pages
      PROVE  /\ Mapped(n, pd, u) <=> \E i \in 1 .. k : has(i, u)
             /\ Mapped(n, pd, u) =>
                  /\ Slot(n, pd, u).w <=> \E i \in 1 .. k : wri(i, u)
                  /\ n.mem[Slot(n, pd, u).page].b = name
  <2>1. /\ Mapped(j, pd, u) <=> \E i \in 1 .. k - 1 : has(i, u)
        /\ Mapped(j, pd, u) =>
             /\ Slot(j, pd, u).w <=> \E i \in 1 .. k - 1 : wri(i, u)
             /\ j.mem[Slot(j, pd, u).page].b = name
    BY DEF Loaded
  <2>2. wri(k, u) <=> has(k, u) /\ s[k].w
    OBVIOUS
  <2>3. \A i \in 1 .. k - 1 : wri(i, u) => has(i, u)
    OBVIOUS
  <2>4. CASE has(k, u)
    <3>1. /\ Mapped(n, pd, u)
          /\ Slot(n, pd, u).w <=> (s[k].w \/ (Mapped(j, pd, u) /\ Slot(j, pd, u).w))
          /\ n.mem[Slot(n, pd, u).page].b = name
      BY <2>4 DEF LoadsPage
    <3> HIDE DEF has, wri, s
    <3> QED
      BY <1>2, <2>1, <2>2, <2>3, <2>4, <3>1
  <2>5. CASE ~ has(k, u)
    <3>1. Keep(j, n, pd, u)
      BY <2>5 DEF LoadsPage
    <3> HIDE DEF has, wri, s
    <3> QED
      BY <1>2, <2>1, <2>2, <2>5, <3>1 DEF Keep
  <2> QED
    BY <2>4, <2>5
<1> QED
  BY <1>3, <1>4 DEF Loaded

LEMMA LoadSegsDoes ==
  ASSUME NEW m, NEW D, NEW X, NEW L, Fine(m, D, X, L),
         NEW pd \in D, \A u \in Pages : ~ Mapped(m, pd, u), NEW name \in DOMAIN Image,
         NEW n, n = load_segs(m, pd, name)
  PROVE  /\ Fine(n, D, X, L)
         /\ ok(n) => ok(m) /\ Loaded(m, n, D, pd, name, Len(Image[name].pages))
<1> DEFINE len == Len(Image[name].pages)
<1>0. len \in Nat /\ name \in Contents
  BY VmeAssumption DEF Contents
<1>1. m \in Memory /\ pd \in Cells
  BY DEF Fine
<1>2. PICK done : /\ done[0] = m
                  /\ \A k \in 1 .. len : done[k] = load_page(done[k - 1], pd, Image[name].pages[k].v,
                                                             Image[name].pages[k].w, name)
                  /\ \A k \in 0 .. len : done[k] \in Memory
                  /\ n = done[len]
  BY <1>1, LoadRounds
<1> DEFINE good == {k \in 0 .. len : /\ Fine(done[k], D, X, L)
                                     /\ ok(done[k]) => ok(m) /\ Loaded(m, done[k], D, pd, name, k)}
<1>3. 0 \in good
  <2>1. Loaded(m, m, D, pd, name, 0)
    BY DEF Loaded, Keep
  <2> QED
    BY <1>0, <1>2, <2>1
<1>4. ASSUME NEW k \in 1 .. len, k - 1 \in good PROVE k \in good
  <2> DEFINE a == done[k - 1]
             b == done[k]
             v == Image[name].pages[k].v
             w == Image[name].pages[k].w
  <2>1. Fine(a, D, X, L) /\ (ok(a) => ok(m) /\ Loaded(m, a, D, pd, name, k - 1))
    BY <1>4
  <2>2. b = load_page(a, pd, v, w, name) /\ v \in Pages /\ w \in BOOLEAN
    BY <1>2, ImagePages
  <2>3. Fine(b, D, X, L) /\ (ok(b) => ok(a) /\ LoadsPage(a, b, D, pd, v, w, name))
    <3> HIDE DEF a, b, v, w
    <3> QED
      BY <1>0, <2>1, <2>2, LoadPageDoes
  <2>4. ok(b) => Loaded(m, b, D, pd, name, k)
    <3> HIDE DEF a, b
    <3> QED
      BY <2>1, <2>3, LoadsOneMore
  <2> HIDE DEF len
  <2> QED
    BY <1>0, <2>1, <2>3, <2>4
<1>5. \A k \in 0 .. len : k \in good
  <2> HIDE DEF good, len
  <2> QED
    BY <1>0, <1>3, <1>4, RoundByRound
<1> QED
  BY <1>0, <1>2, <1>5

\* load_user: pd, which was empty, has the program's segments and its stack.
LoadsProgram(m, n, D, pd, name) ==
  /\ \A q \in D, u \in Pages : q # pd => Keep(m, n, q, u)
  /\ \A u \in Pages :
       /\ Mapped(n, pd, u) <=> u \in DOMAIN start_of(name)
       /\ Mapped(n, pd, u) =>
            /\ n.mem[Slot(n, pd, u).page].b = start_of(name)[u]
            /\ Slot(n, pd, u).w <=>
                 u = stack \/ \E s \in ToSet(Image[name].pages) : s.v = u /\ s.w

LEMMA LoadUserDoes ==
  ASSUME NEW m, NEW D, NEW X, NEW L, Fine(m, D, X, L),
         NEW pd \in D, \A u \in Pages : ~ Mapped(m, pd, u), NEW name \in DOMAIN Image,
         NEW n, n = load_user(m, pd, name)
  PROVE  /\ Fine(n, D, X, L)
         /\ ok(n) => ok(m) /\ LoadsProgram(m, n, D, pd, name)
<1> DEFINE s == Image[name].pages
           k == load_segs(m, pd, name)
           has(u) == \E i \in 1 .. Len(s) : s[i].v = u
           wri(u) == \E i \in 1 .. Len(s) : s[i].v = u /\ s[i].w
<1>1. Fine(k, D, X, L) /\ (ok(k) => ok(m) /\ Loaded(m, k, D, pd, name, Len(s)))
  BY LoadSegsDoes
<1>2. n = load_page(k, pd, stack, TRUE, "args")
  BY DEF load_user
<1>3. stack \in Pages /\ "args" \in Contents
  BY Sizes DEF Contents
<1> HIDE DEF k
<1>4. /\ Fine(n, D, X, L)
      /\ ok(n) => ok(k) /\ LoadsPage(k, n, D, pd, stack, TRUE, "args")
  BY <1>1, <1>2, <1>3, LoadPageDoes
<1>5. s \in Seq([v : 0 .. Image[name].end - 1, w : BOOLEAN])
  BY VmeAssumption
<1>6. ToSet(s) = {s[i] : i \in 1 .. Len(s)}
  BY <1>5 DEF ToSet
<1>7. \A u : /\ u \in {x.v : x \in ToSet(s)} <=> has(u)
             /\ (\E x \in ToSet(s) : x.v = u /\ x.w) <=> wri(u)
  <2> HIDE DEF s
  <2> QED
    BY <1>6
<1>8. ~ has(stack)
  BY ImagePages
<1>9. \A u : /\ u \in DOMAIN start_of(name) <=> has(u) \/ u = stack
             /\ u \in DOMAIN start_of(name) =>
                  start_of(name)[u] = IF u = stack THEN "args" ELSE name
  BY <1>7 DEF start_of
<1>10. ASSUME ok(n), NEW u \in Pages
       PROVE  /\ Mapped(n, pd, u) <=> u \in DOMAIN start_of(name)
              /\ Mapped(n, pd, u) =>
                   /\ n.mem[Slot(n, pd, u).page].b = start_of(name)[u]
                   /\ Slot(n, pd, u).w <=> u = stack \/ wri(u)
  <2>1. Loaded(m, k, D, pd, name, Len(s)) /\ LoadsPage(k, n, D, pd, stack, TRUE, "args")
    BY <1>1, <1>4, <1>10
  <2>2. CASE u = stack
    BY <1>9, <2>1, <2>2 DEF LoadsPage
  <2>3. CASE u # stack
    <3>1. Keep(k, n, pd, u)
      BY <2>1, <2>3 DEF LoadsPage
    <3>2. /\ Mapped(k, pd, u) <=> has(u)
          /\ Mapped(k, pd, u) => /\ Slot(k, pd, u).w <=> wri(u)
                                 /\ k.mem[Slot(k, pd, u).page].b = name
      BY <2>1 DEF Loaded
    <3> HIDE DEF has, wri, s
    <3> QED
      BY <1>9, <2>3, <3>1, <3>2 DEF Keep
  <2> QED
    BY <2>2, <2>3
<1>11. ok(n) => \A q \in D, u \in Pages : q # pd => Keep(m, n, q, u)
  BY <1>1, <1>4, KeepTwice DEF Loaded, LoadsPage
<1>12. ok(n) => LoadsProgram(m, n, D, pd, name)
  <2> HIDE DEF has, wri
  <2> QED
    BY <1>7, <1>10, <1>11 DEF LoadsProgram
<1> QED
  BY <1>1, <1>4, <1>12

\* copy_page: page v of pd becomes that of the CPU's directory.
CopiesPage(m, n, D, pd, v) ==
  /\ \A q \in D, u \in Pages : q # pd \/ u # v => Keep(m, n, q, u)
  /\ Mapped(n, pd, v) <=> Mapped(m, cr3, v)
  /\ Mapped(m, cr3, v) =>
       /\ Slot(n, pd, v).w <=> Slot(m, cr3, v).w
       /\ n.mem[Slot(n, pd, v).page].b = m.mem[Slot(m, cr3, v).page].b

LEMMA CopyPageDoes ==
  ASSUME NEW m, NEW D, NEW X, NEW L, Fine(m, D, X, L), cr3 \in D,
         NEW pd \in D, NEW v \in Pages, pd # cr3, ~ Mapped(m, pd, v),
         NEW n, n = copy_page(m, pd, v)
  PROVE  /\ Fine(n, D, X, L)
         /\ ok(n) => ok(m) /\ CopiesPage(m, n, D, pd, v)
<1> DEFINE e == pte(m, cr3, v)
           x == m.mem[frame_of(m, cr3, v)].b
           k == vm_map_page(m, pd, v, e.w)
<1>1. m \in Memory /\ pd \in Cells /\ cr3 \in Cells
  BY DEF Fine
<1>2. n \in Memory
  BY <1>1, CopyPageType
<1>3. /\ e.p <=> Mapped(m, cr3, v)
      /\ Mapped(m, cr3, v) => e = Slot(m, cr3, v) /\ x = m.mem[Slot(m, cr3, v).page].b
  BY <1>1, PteIsSlot
<1>4. e.w \in BOOLEAN /\ x \in Contents
  BY <1>1, PteType, BytesType
<1>5. n = IF ok(m) /\ e.p THEN put(k, pd, v, x) ELSE m
  BY DEF copy_page
<1>6. put(k, pd, v, x) = load_page(m, pd, v, e.w, x)
  BY DEF load_page
<1> HIDE DEF e, x, k
<1>7. CASE ~ ok(m)
  BY <1>5, <1>7
<1>8. CASE ok(m) /\ ~ e.p
  <2>1. n = m
    BY <1>5, <1>8
  <2> QED
    BY <1>3, <1>8, <2>1 DEF CopiesPage, Keep
<1>9. CASE ok(m) /\ e.p
  <2>1. n = load_page(m, pd, v, e.w, x)
    BY <1>5, <1>6, <1>9
  <2> DEFINE w == e.w
  <2>2. w \in BOOLEAN /\ n = load_page(m, pd, v, w, x)
    BY <1>4, <2>1
  <2> HIDE DEF w
  <2>3. Fine(n, D, X, L) /\ (ok(n) => LoadsPage(m, n, D, pd, v, w, x))
    BY <1>4, <2>2, LoadPageDoes
  <2>4. LoadsPage(m, n, D, pd, v, w, x) => CopiesPage(m, n, D, pd, v)
    BY <1>3, <1>9 DEF LoadsPage, CopiesPage, w
  <2> QED
    BY <1>9, <2>3, <2>4
<1> QED
  BY <1>7, <1>8, <1>9

\* Every page below k is in pd, which was empty in m, what it is in cr3.
Copied(m, n, D, pd, k) ==
  /\ \A q \in D, u \in Pages : q # pd => Keep(m, n, q, u)
  /\ \A u \in Pages : u >= k => ~ Mapped(n, pd, u)
  /\ \A u \in Pages : u < k =>
       /\ Mapped(n, pd, u) <=> Mapped(m, cr3, u)
       /\ Mapped(m, cr3, u) =>
            /\ Slot(n, pd, u).w <=> Slot(m, cr3, u).w
            /\ n.mem[Slot(n, pd, u).page].b = m.mem[Slot(m, cr3, u).page].b

LEMMA CopiesOneMore ==
  ASSUME NEW m, NEW j, NEW n, NEW D, cr3 \in D, NEW pd \in D, pd # cr3,
         NEW k \in 1 .. stack + 1,
         Copied(m, j, D, pd, k - 1), CopiesPage(j, n, D, pd, k - 1)
  PROVE  Copied(m, n, D, pd, k)
<1> DEFINE v == k - 1
<1>0. stack \in Nat /\ Pages \subseteq Nat
  BY Sizes DEF Pages
<1>1. v \in Pages /\ \A u \in Pages : /\ u < k <=> u < v \/ u = v
                                      /\ u >= k => u >= v /\ u # v
  BY <1>0, VmeAssumption DEF Pages, stack
<1>2. Copied(m, j, D, pd, v) /\ CopiesPage(j, n, D, pd, v)
  OBVIOUS
<1> HIDE DEF v
<1>3. ASSUME NEW q \in D, NEW u \in Pages, q # pd PROVE Keep(m, n, q, u)
  BY <1>2, <1>3, KeepTwice DEF Copied, CopiesPage
<1>4. ASSUME NEW u \in Pages, u >= k PROVE ~ Mapped(n, pd, u)
  BY <1>1, <1>2, <1>4 DEF Copied, CopiesPage, Keep
<1>5. ASSUME NEW u \in Pages, u < k
      PROVE  /\ Mapped(n, pd, u) <=> Mapped(m, cr3, u)
             /\ Mapped(m, cr3, u) =>
                  /\ Slot(n, pd, u).w <=> Slot(m, cr3, u).w
                  /\ n.mem[Slot(n, pd, u).page].b = m.mem[Slot(m, cr3, u).page].b
  <2>1. CASE u = v
    <3>1. Keep(m, j, cr3, v)
      BY <1>1, <1>2 DEF Copied
    <3> QED
      BY <1>2, <2>1, <3>1 DEF CopiesPage, Keep
  <2>2. CASE u # v
    <3>1. u < v /\ Keep(j, n, pd, u)
      BY <1>1, <1>2, <1>5, <2>2 DEF CopiesPage
    <3> QED
      BY <1>2, <3>1 DEF Copied, Keep
  <2> QED
    BY <2>1, <2>2
<1> QED
  BY <1>3, <1>4, <1>5 DEF Copied

\* vm_copycurr: the new space has the pages of the old one, with their rights and
\* contents.
CopiesSpace(m, n, D, pd) ==
  /\ \A q \in D, u \in Pages : q # pd => Keep(m, n, q, u)
  /\ \A u \in Pages :
       /\ Mapped(n, pd, u) <=> Mapped(m, cr3, u)
       /\ Mapped(m, cr3, u) =>
            /\ Slot(n, pd, u).w <=> Slot(m, cr3, u).w
            /\ n.mem[Slot(n, pd, u).page].b = m.mem[Slot(m, cr3, u).page].b

LEMMA CopyDoes ==
  ASSUME NEW m, NEW D, NEW X, NEW L, Fine(m, D, X, L), cr3 \in D,
         NEW pd \in D, pd # cr3, \A u \in Pages : ~ Mapped(m, pd, u),
         NEW n, n = vm_copycurr(m, pd)
  PROVE  /\ Fine(n, D, X, L)
         /\ ok(n) => ok(m) /\ CopiesSpace(m, n, D, pd)
<1> DEFINE len == stack + 1
<1>0. len \in Nat /\ \A u \in Pages : u < len /\ u >= 0
  BY VmeAssumption, Sizes DEF Pages, stack
<1>1. m \in Memory /\ pd \in Cells /\ cr3 \in Cells
  BY DEF Fine
<1>2. PICK done : /\ done[0] = m
                  /\ \A k \in 1 .. len : done[k] = copy_page(done[k - 1], pd, k - 1)
                  /\ \A k \in 0 .. len : done[k] \in Memory
                  /\ n = done[len]
  BY <1>1, CopyRounds
<1> DEFINE good == {k \in 0 .. len : /\ Fine(done[k], D, X, L)
                                     /\ ok(done[k]) => ok(m) /\ Copied(m, done[k], D, pd, k)}
<1>3. 0 \in good
  <2>1. Copied(m, m, D, pd, 0)
    BY <1>0 DEF Copied, Keep, Pages
  <2> QED
    BY <1>0, <1>2, <2>1
<1>4. ASSUME NEW k \in 1 .. len, k - 1 \in good PROVE k \in good
  <2> DEFINE a == done[k - 1]
             b == done[k]
             v == k - 1
  <2>1. Fine(a, D, X, L) /\ (ok(a) => ok(m) /\ Copied(m, a, D, pd, v))
    BY <1>4
  <2>2. b = copy_page(a, pd, v) /\ v \in Pages /\ v >= v
    BY <1>2, VmeAssumption DEF Pages, stack
  <2> HIDE DEF a, b
  <2>3. CASE ~ ok(a)
    <3>1. b = a
      BY <2>1, <2>2, <2>3, Stopped DEF Fine
    <3> QED
      BY <1>0, <2>1, <2>3, <3>1 DEF a, b
  <2>4. CASE ok(a)
    <3>1. ~ Mapped(a, pd, v)
      BY <2>1, <2>2, <2>4 DEF Copied
    <3>2. Fine(b, D, X, L) /\ (ok(b) => CopiesPage(a, b, D, pd, v))
      <4> HIDE DEF v
      <4> QED
        BY <2>1, <2>2, <3>1, CopyPageDoes
    <3>3. ok(b) => Copied(m, b, D, pd, k)
      BY <2>1, <2>4, <3>2, CopiesOneMore
    <3> QED
      BY <1>0, <2>1, <2>4, <3>2, <3>3 DEF a, b
  <2> QED
    BY <2>3, <2>4
<1>5. \A k \in 0 .. len : k \in good
  <2> HIDE DEF good, len
  <2> QED
    BY <1>0, <1>3, <1>4, RoundByRound
<1>6. Copied(m, n, D, pd, len) => CopiesSpace(m, n, D, pd)
  <2> HIDE DEF len
  <2> QED
    BY <1>0 DEF Copied, CopiesSpace
<1> HIDE DEF len
<1> QED
  BY <1>0, <1>2, <1>5, <1>6

\* What unmapping the pages V of pd does.
UnmapsPages(m, n, D, pd, V) ==
  /\ \A q \in D, u \in Pages : q # pd \/ u \notin V => Keep(m, n, q, u)
  /\ \A v \in Pages : v \in V => ~ Mapped(n, pd, v)

LEMMA UnmapPageDoes ==
  ASSUME NEW m, NEW D, NEW X, NEW L, Fine(m, D, X, L),
         NEW pd \in D, NEW v \in Pages,
         NEW n, n = unmap_page(m, pd, v)
  PROVE  /\ Fine(n, D, X, L)
         /\ ok(n) => ok(m) /\ UnmapsPages(m, n, D, pd, {v})
<1> DEFINE d == DIR(v)
           t == TBL(v)
           pt == m.mem[pd].e[d].page
           f == pte(m, pd, v).page
           k == kfree(m, f)
<1>1. m \in Memory /\ D \subseteq Cells /\ pd \in Cells
  BY DEF Fine
<1>2. /\ d \in DEntries /\ d \in Entries /\ t \in TEntries /\ t \in Entries
  BY EntriesOfPage
<1>3. n \in Memory /\ (ok(n) => ok(m)) /\ pt \in Cells /\ f \in Cells
  BY <1>1, <1>2, UnmapPageType, EntryType, PteType DEF frame_of
<1>4. n = IF pte(m, pd, v).p THEN [k EXCEPT !.mem[pt].e[t].p = FALSE] ELSE m
  BY DEF unmap_page
<1>5. pte(m, pd, v).p <=> Mapped(m, pd, v)
  BY <1>1, PteIsSlot
<1>6. CASE ~ Mapped(m, pd, v)
  BY <1>4, <1>5, <1>6 DEF UnmapsPages, Keep
<1>7. CASE Mapped(m, pd, v) /\ (~ ok(m) \/ m.free = <<>>)
  <2>1. k \in Memory /\ k.fault \in RunsOut /\ ~ ok(k)
    <3>1. CASE ~ ok(m)
      <4>1. k = m
        BY <1>1, <3>1, Stopped
      <4> QED
        BY <1>1, <3>1, <4>1 DEF Fine
    <3>2. CASE ok(m) /\ m.free = <<>>
      <4>1. k = stop(m, "kfree assert")
        BY <3>2 DEF kfree
      <4>2. k.fault = "kfree assert"
        BY <1>1, <4>1 DEF stop, Memory
      <4> QED
        BY <1>1, <1>3, <4>2, KfreeType DEF RunsOut, ok
    <3> QED
      BY <1>7, <3>1, <3>2
  <2>2. n = [k EXCEPT !.mem[pt].e[t].p = FALSE]
    BY <1>4, <1>5, <1>7
  <2> HIDE DEF k
  <2>3. n.fault = k.fault
    BY <2>1, <2>2 DEF Memory
  <2> QED
    BY <1>1, <1>3, <2>1, <2>3 DEF Fine, ok
<1>8. CASE Mapped(m, pd, v) /\ ok(m) /\ m.free # <<>>
  <2> DEFINE a == [m EXCEPT !.mem[pt].e[t].p = FALSE]
  <2>1. PICK o : Owned(m, D, X, L, o)
    BY <1>8 DEF Fine, Own
  <2>2. f = Slot(m, pd, v).page /\ IsTable(m, pd, d, pt)
    BY <1>1, <1>8, PteIsSlot DEF Mapped, IsTable
  <2>3. m.mem[pt].e[t].p /\ m.mem[pt].e[t].page = f
    BY <1>8, <2>2 DEF Mapped, Slot
  <2>4. a \in Memory
    BY <1>1, <1>2, <1>3, ClearType
  <2>5. /\ OnlyEntry(m, a, pt, t) /\ ~ a.mem[pt].e[t].p
        /\ a.free = m.free /\ a.fault = m.fault
    <3>1. OnlyEntry(m, a, pt, t) /\ ~ a.mem[pt].e[t].p
      <4> HIDE DEF pt, t
      <4> QED
        BY <1>1, <1>2, <1>3, ClearOnly
    <3>2. a.free = m.free /\ a.fault = m.fault
      BY <1>1 DEF Memory
    <3> QED
      BY <3>1, <3>2
  <2>6. f \notin ToSet(m.free)
    <3>0. Mapped(m, pd, v) => o[Slot(m, pd, v).page].kind = "page"
      BY <1>1, <2>1, MappedOwned
    <3>1. o[f].kind = "page"
      BY <1>8, <2>2, <3>0
    <3>2. \A i \in DOMAIN m.free : m.free[i] # f
      BY <1>1, <2>1, <3>1 DEF Owned, FreeOwned, Memory
    <3> QED
      BY <3>2 DEF ToSet
  <2>7. k = [m EXCEPT !.free = <<f>> \o m.free, !.mem[f] = zeroed]
    BY <1>8, <2>6 DEF kfree
  <2>8. n = [k EXCEPT !.mem[pt].e[t].p = FALSE]
    BY <1>4, <1>5, <1>8
  <2> HIDE DEF d, t, pt, f, a
  <2>9. /\ f \in Frames /\ f \notin X /\ f # pt /\ f \notin D
        /\ \E o2 : Owned(a, D, X \cup {f}, L, o2)
        /\ \A q \in D, u \in Pages :
              q # pd \/ DIR(u) # d \/ TBL(u) # t => Keep(m, a, q, u)
    <3>1. f \in Cells /\ pt \in Cells /\ d \in DEntries /\ t \in TEntries
      BY <1>2, <1>3
    <3>2. OnlyEntry(m, a, pt, t) /\ LosesPage(m, a, pt, t, f) /\ IsTable(m, pd, d, pt)
      BY <2>2, <2>3, <2>5 DEF LosesPage
    <3> QED
      BY <1>1, <2>1, <2>4, <3>1, <3>2, PageTaken, SMTT(60)
  <2>10. /\ n.free = <<f>> \o a.free /\ n.fault = m.fault
         /\ \A h \in Cells : n.mem[h] = IF h = f THEN zeroed ELSE a.mem[h]
    <3>1. /\ k.free = <<f>> \o m.free /\ k.fault = m.fault
          /\ k.mem = [m.mem EXCEPT ![f] = zeroed]
      BY <1>1, <2>7 DEF Memory
    <3>2. n.free = k.free /\ n.fault = k.fault /\ n.mem = [k.mem EXCEPT ![pt].e[t].p = FALSE]
      <4>1. k \in Memory
        BY <1>1, <1>3, KfreeType
      <4> HIDE DEF k
      <4> QED
        BY <2>8, <4>1 DEF Memory
    <3>3. a.mem = [m.mem EXCEPT ![pt].e[t].p = FALSE]
      BY <1>1 DEF a, Memory
    <3> HIDE DEF k
    <3>4. ASSUME NEW h \in Cells PROVE n.mem[h] = IF h = f THEN zeroed ELSE a.mem[h]
      <4>1. h \in DOMAIN m.mem /\ h \in DOMAIN k.mem
        BY <1>1, <3>1 DEF Memory
      <4>2. CASE h = f
        BY <2>9, <3>1, <3>2, <4>1, <4>2
      <4>3. CASE h = pt
        <5>1. k.mem[pt] = m.mem[pt] /\ pt \in DOMAIN m.mem /\ pt \in DOMAIN k.mem
          BY <2>9, <3>1, <4>1, <4>3
        <5>2. n.mem[pt] = [k.mem[pt] EXCEPT !.e[t].p = FALSE]
          BY <3>2, <5>1
        <5>3. a.mem[pt] = [m.mem[pt] EXCEPT !.e[t].p = FALSE]
          BY <3>3, <5>1
        <5> QED
          BY <2>9, <4>3, <5>1, <5>2, <5>3
      <4>4. CASE h # pt /\ h # f
        BY <3>1, <3>2, <3>3, <4>1, <4>4
      <4> QED
        BY <4>2, <4>3, <4>4
    <3> QED
      BY <2>5, <3>1, <3>2, <3>4
  <2>11. PICK o1 : Owned(a, D, X \cup {f}, L, o1)
    BY <2>9
  <2> DEFINE Y == X \cup {f}
  <2>12. f \in Y /\ Y \ {f} = X /\ Owned(a, D, Y, L, o1)
    BY <2>9, <2>11
  <2> HIDE DEF Y, k
  <2>13. /\ \E o2 : Owned(n, D, Y \ {f}, L, o2)
         /\ \A q \in D, u \in Pages : Keep(a, n, q, u)
    <3>1. /\ n \in Memory /\ a \in Memory /\ f \in Y /\ Owned(a, D, Y, L, o1)
          /\ Releases(a, n, f)
      BY <1>3, <2>4, <2>10, <2>12 DEF Releases
    <3> QED
      BY <3>1, ReleaseOwned
  <2>14. ~ Mapped(a, pd, v)
    <3>0. OnlyEntry(m, a, pt, t) /\ IsTable(m, pd, d, pt) /\ d \in DEntries /\ t \in TEntries
      BY <1>2, <2>2, <2>5
    <3>1. \A q \in D, i \in DEntries : a.mem[q].e[i] = m.mem[q].e[i]
      BY <1>1, <1>3, <2>1, <2>4, <3>0, SlotWritten, SMTT(60)
    <3>2. a.mem[pd].e[d].page = pt
      BY <3>0, <3>1 DEF IsTable
    <3> QED
      BY <2>5, <3>2 DEF Mapped, Slot, d, t
  <2>15. ~ Mapped(n, pd, v)
    BY <2>13, <2>14 DEF Keep
  <2>16. \A q \in D, u \in Pages : q # pd \/ u # v => Keep(m, n, q, u)
    <3>1. \A q \in D, u \in Pages : q # pd \/ u # v => Keep(m, a, q, u)
      BY <2>9, PageOfIndex DEF d, t
    <3> QED
      BY <2>13, <3>1, KeepTwice
  <2> QED
    BY <1>1, <1>3, <1>8, <2>10, <2>12, <2>13, <2>15, <2>16 DEF Fine, Own, UnmapsPages, ok, RunsOut
<1> QED
  BY <1>6, <1>7, <1>8

LEMMA UnmapDoes ==
  ASSUME NEW m, NEW D, NEW X, NEW L, Fine(m, D, X, L),
         NEW pd \in D, NEW vs \in Seq(Pages),
         NEW n, n = vm_unmap(m, pd, vs)
  PROVE  /\ Fine(n, D, X, L)
         /\ ok(n) => ok(m) /\ UnmapsPages(m, n, D, pd, ToSet(vs))
<1>1. m \in Memory /\ pd \in Cells
  BY DEF Fine
<1>2. PICK done : /\ done[0] = m
                  /\ \A k \in 1 .. Len(vs) : done[k] = unmap_page(done[k - 1], pd, vs[k])
                  /\ \A k \in 0 .. Len(vs) : done[k] \in Memory
                  /\ n = done[Len(vs)]
  BY <1>1, UnmapRounds
<1> DEFINE V(k) == {vs[i] : i \in 1 .. k}
           good == {k \in 0 .. Len(vs) :
                      /\ Fine(done[k], D, X, L)
                      /\ ok(done[k]) => ok(m) /\ UnmapsPages(m, done[k], D, pd, V(k))}
<1>3. 0 \in good
  <2>1. UnmapsPages(m, m, D, pd, V(0))
    BY DEF UnmapsPages, Keep
  <2> HIDE DEF V
  <2> QED
    BY <1>2, <2>1
<1>4. ASSUME NEW k \in 1 .. Len(vs), k - 1 \in good PROVE k \in good
  <2> DEFINE a == done[k - 1]
             b == done[k]
             v == vs[k]
  <2>1. /\ Fine(a, D, X, L)
        /\ ok(a) => ok(m) /\ UnmapsPages(m, a, D, pd, V(k - 1))
    BY <1>4
  <2>2. b = unmap_page(a, pd, v) /\ v \in Pages
    BY <1>2
  <2>3. V(k) = V(k - 1) \cup {v}
    BY <1>4
  <2> HIDE DEF a, b, v, V
  <2>4. Fine(b, D, X, L) /\ (ok(b) => ok(a) /\ UnmapsPages(a, b, D, pd, {v}))
    BY <2>1, <2>2, UnmapPageDoes
  <2>5. ASSUME ok(b) PROVE UnmapsPages(m, b, D, pd, V(k))
    <3>1. UnmapsPages(m, a, D, pd, V(k - 1)) /\ UnmapsPages(a, b, D, pd, {v})
      BY <2>1, <2>4, <2>5
    <3>2. \A q \in D, u \in Pages : q # pd \/ u \notin V(k) => Keep(m, b, q, u)
      BY <2>3, <3>1, KeepTwice DEF UnmapsPages
    <3>3. \A u \in Pages : u \in V(k) => ~ Mapped(b, pd, u)
      BY <2>3, <3>1 DEF UnmapsPages, Keep
    <3> QED
      BY <3>2, <3>3 DEF UnmapsPages
  <2> QED
    BY <2>1, <2>4, <2>5 DEF a, b
<1>5. Len(vs) \in Nat /\ \A k \in 0 .. Len(vs) : k \in good
  <2>1. Len(vs) \in Nat
    OBVIOUS
  <2> HIDE DEF good
  <2> QED
    BY <1>3, <1>4, <2>1, RoundByRound
<1>6. V(Len(vs)) = ToSet(vs)
  BY DEF ToSet
<1>7. Len(vs) \in good
  <2> HIDE DEF good
  <2> QED
    BY <1>5
<1> HIDE DEF V
<1> QED
  BY <1>2, <1>6, <1>7

-----------------------------------------------------------------------------
(***************************************************************************)
(* Taking a space apart.                                                   *)
(***************************************************************************)

\* The frames of the space of pd that are left when teardown is at the entry t of
\* the table d.
Rest(o, pd, d, t) ==
  {h \in Frames :
     \/ h = pd
     \/ o[h].pd = pd /\ o[h].kind = "table" /\ o[h].d >= d
     \/ o[h].pd = pd /\ o[h].kind = "page" /\ (o[h].d > d \/ (o[h].d = d /\ o[h].t >= t))}

\* A directory that is not used any more, its tables and its pages are frames
\* that somebody holds.
LEMMA SpaceHeld ==
  ASSUME NEW m \in Memory, NEW D, NEW X, NEW L, NEW o, Owned(m, D, X, L, o), NEW pd \in D
  PROVE  /\ Own(m, D \ {pd}, X \cup Rest(o, pd, 0, 0), L)
         /\ X \cap Rest(o, pd, 0, 0) = {}
<1> DEFINE R == Rest(o, pd, 0, 0)
           o2 == [h \in Frames |-> IF h \in R THEN place("own", 0, 0, 0) ELSE o[h]]
<1>1. pd \in Frames /\ o[pd].kind = "dir"
  BY DEF Owned, HoldersOwned
<1>2. DEntries \subseteq Nat /\ TEntries \subseteq Nat
  BY DEF DEntries, TEntries
<1>3. \A h \in Frames : h \in R <=>
        h = pd \/ (o[h].kind \in {"table", "page"} /\ o[h].pd = pd)
  <2> SUFFICES ASSUME NEW h \in Frames, o[h].kind \in {"table", "page"}, o[h].pd = pd
               PROVE  h \in R
    BY DEF Rest
  <2>1. InPlace(m, D, X, L, o, h)
    BY DEF Owned
  <2>2. o[h].d \in Nat /\ (o[h].kind = "page" => o[h].t \in Nat)
    BY <1>2, <2>1 DEF InPlace
  <2> QED
    BY <2>2 DEF Rest
<1>4. R \subseteq Frames /\ pd \in R
  BY <1>1 DEF Rest
<1> HIDE DEF R
<1>5. /\ \A h \in Frames : h \notin R => o2[h] = o[h]
      /\ \A h \in R : o2[h].kind = "own"
  BY <1>4 DEF place
<1> HIDE DEF o2
<1>6. \A h \in R : o[h].kind \in {"dir", "table", "page"}
  BY <1>1, <1>3, <1>4
<1>7. FreeOwned(m, o2) /\ FreeOnce(m)
  BY <1>5, <1>6 DEF Owned, FreeOwned
<1>8. HoldersOwned(D \ {pd}, X \cup R, L, o2)
  <2>1. \A h \in D \ {pd} : h \in Frames /\ o[h].kind = "dir" /\ h \notin R
    BY <1>3 DEF Owned, HoldersOwned
  <2>2. \A h \in X : h \in Frames /\ o[h].kind = "own" /\ h \notin R
    BY <1>6 DEF Owned, HoldersOwned
  <2>3. \A h \in L : h \in Frames /\ o[h].kind = "lost" /\ h \notin R
    BY <1>6 DEF Owned, HoldersOwned
  <2> QED
    BY <1>4, <1>5, <2>1, <2>2, <2>3 DEF HoldersOwned
<1>9. TablesOwned(m, D \ {pd}, o2)
  <2> SUFFICES ASSUME NEW q \in D \ {pd}, NEW d \in DEntries, NEW f \in Cells, IsTable(m, q, d, f)
               PROVE  f \in Frames /\ o2[f].kind = "table" /\ o2[f].pd = q /\ o2[f].d = d
    BY DEF TablesOwned
  <2>1. f \in Frames /\ o[f].kind = "table" /\ o[f].pd = q /\ o[f].d = d
    BY DEF Owned, TablesOwned
  <2> QED
    BY <1>1, <1>3, <1>5, <2>1
<1>10. PagesOwned(m, D \ {pd}, o2)
  <2> SUFFICES ASSUME NEW q \in D \ {pd}, NEW d \in DEntries, NEW t \in TEntries, NEW f \in Cells,
                      IsPage(m, q, d, t, f)
               PROVE  /\ f \in Frames
                      /\ o2[f].kind = "page" /\ o2[f].pd = q /\ o2[f].d = d /\ o2[f].t = t
    BY DEF PagesOwned
  <2>1. f \in Frames /\ o[f].kind = "page" /\ o[f].pd = q /\ o[f].d = d /\ o[f].t = t
    BY DEF Owned, PagesOwned
  <2> QED
    BY <1>1, <1>3, <1>5, <2>1
<1>11. KernelMapped(m, D \ {pd})
  BY DEF Owned, KernelMapped
<1>12. ASSUME NEW h \in Frames PROVE InPlace(m, D \ {pd}, X \cup R, L, o2, h)
  <2>1. CASE h \in R
    BY <1>5, <2>1 DEF InPlace
  <2>2. CASE h \notin R
    <3>1. o2[h] = o[h] /\ InPlace(m, D, X, L, o, h) /\ h # pd
      BY <1>4, <1>5, <2>2 DEF Owned
    <3>2. o[h].kind \in {"table", "page"} => o[h].pd # pd
      BY <1>3, <2>2
    <3> QED
      BY <3>1, <3>2 DEF InPlace
  <2> QED
    BY <2>1, <2>2
<1>13. Owned(m, D \ {pd}, X \cup R, L, o2)
  BY <1>7, <1>8, <1>9, <1>10, <1>11, <1>12 DEF Owned
<1>14. X \cap R = {}
  BY <1>6 DEF Owned, HoldersOwned
<1> QED
  BY <1>13, <1>14 DEF Own, R

\* Frames that somebody holds get lost.
LEMMA FramesLost ==
  ASSUME NEW m \in Memory, NEW D, NEW X, NEW L, NEW Z \in SUBSET X, Own(m, D, X, L)
  PROVE  Own(m, D, X \ Z, L \cup Z)
<1>1. PICK o : Owned(m, D, X, L, o)
  BY DEF Own
<1> DEFINE o2 == [h \in Frames |-> IF h \in Z THEN place("lost", 0, 0, 0) ELSE o[h]]
<1>2. \A h \in Z : h \in X /\ h \in Frames /\ o[h].kind = "own"
  BY <1>1 DEF Owned, HoldersOwned
<1>3. /\ \A h \in Frames : h \notin Z => o2[h] = o[h]
      /\ \A h \in Z : o2[h].kind = "lost"
  BY <1>2 DEF place
<1> HIDE DEF o2
<1>4. FreeOwned(m, o2) /\ FreeOnce(m)
  BY <1>1, <1>2, <1>3 DEF Owned, FreeOwned
<1>5. HoldersOwned(D, X \ Z, L \cup Z, o2)
  BY <1>1, <1>2, <1>3 DEF Owned, HoldersOwned
<1>6. TablesOwned(m, D, o2)
  BY <1>1, <1>2, <1>3 DEF Owned, TablesOwned
<1>7. PagesOwned(m, D, o2)
  BY <1>1, <1>2, <1>3 DEF Owned, PagesOwned
<1>8. KernelMapped(m, D)
  BY <1>1 DEF Owned
<1>9. ASSUME NEW h \in Frames PROVE InPlace(m, D, X \ Z, L \cup Z, o2, h)
  <2>1. CASE h \in Z
    BY <1>3, <2>1 DEF InPlace
  <2>2. CASE h \notin Z
    <3>1. o2[h] = o[h] /\ InPlace(m, D, X, L, o, h)
      BY <1>1, <1>3, <2>2 DEF Owned
    <3> QED
      BY <2>2, <3>1 DEF InPlace
  <2> QED
    BY <2>1, <2>2
<1> QED
  BY <1>4, <1>5, <1>6, <1>7, <1>8, <1>9 DEF Owned, Own

\* The frames R, which nobody but teardown holds, have yet to be freed; nothing
\* has happened to them since m.
Freeing(m, n, D, X, R, L) ==
  /\ Fine(n, D, X \cup R, L)
  /\ X \cap R = {}
  /\ ok(n) => AllKeep(m, n, D) /\ \A h \in R : n.mem[h] = m.mem[h]

LEMMA FreesOneMore ==
  ASSUME NEW m, NEW n, NEW D, NEW X, NEW R \in SUBSET Cells, NEW L, Freeing(m, n, D, X, R, L),
         NEW f \in R
  PROVE  Freeing(m, kfree(n, f), D, X, R \ {f}, L)
<1> DEFINE k == kfree(n, f)
           Y == X \cup R
<1>1. n \in Memory /\ f \in Cells /\ D \subseteq Cells /\ X \cap (R \ {f}) = {}
  BY DEF Freeing, Fine
<1>2. k \in Memory /\ (ok(k) => ok(n))
  BY <1>1, KfreeType
<1>3. CASE ~ ok(n)
  <2>1. k = n
    BY <1>1, <1>3, Stopped
  <2> QED
    BY <1>1, <1>3, <2>1 DEF Freeing, Fine
<1>4. CASE ok(n)
  <2>1. f \in Y /\ Own(n, D, Y, L)
    BY <1>4 DEF Freeing, Fine
  <2>2. Y \ {f} = X \cup (R \ {f})
    BY DEF Freeing
  <2> HIDE DEF Y, k
  <2>3. /\ k.fault \in RunsOut
        /\ ok(k) => /\ Own(k, D, Y \ {f}, L)
                    /\ AllKeep(n, k, D)
                    /\ \A h \in Cells : h # f => k.mem[h] = n.mem[h]
    BY <1>1, <1>4, <2>1, KfreeDoes DEF k
  <2>4. ok(k) => AllKeep(m, k, D)
    BY <1>4, <2>3, KeepTwice DEF Freeing, AllKeep
  <2>5. ok(k) => \A h \in R \ {f} : k.mem[h] = m.mem[h]
    BY <1>4, <2>3 DEF Freeing
  <2> QED
    BY <1>1, <1>2, <2>2, <2>3, <2>4, <2>5 DEF Freeing, Fine, k
<1> QED
  BY <1>3, <1>4

\* After a fault nothing is freed.
LEMMA FreesNothing ==
  ASSUME NEW m, NEW n, NEW D, NEW X, NEW R, NEW L, Freeing(m, n, D, X, R, L), ~ ok(n),
         NEW S \in SUBSET R
  PROVE  Freeing(m, n, D, X, S, L)
  BY DEF Freeing, Fine

\* Where teardown goes from one entry to the next.
LEMMA RestSteps ==
  ASSUME NEW m \in Memory, NEW D, NEW X, NEW L, NEW o, Owned(m, D, X, L, o), NEW pd \in D,
         NEW d \in DEntries
  PROVE  /\ \A t \in TEntries : \A f \in Cells : IsPage(m, pd, d, t, f) =>
              f \in Rest(o, pd, d, t) /\ Rest(o, pd, d, t + 1) = Rest(o, pd, d, t) \ {f}
         /\ \A t \in TEntries : (\A f \in Cells : ~ IsPage(m, pd, d, t, f)) =>
              Rest(o, pd, d, t + 1) = Rest(o, pd, d, t)
         /\ \A f \in Cells : IsTable(m, pd, d, f) =>
              f \in Rest(o, pd, d, NR_PTE) /\ Rest(o, pd, d + 1, 0) = Rest(o, pd, d, NR_PTE) \ {f}
         /\ (\A f \in Cells : ~ IsTable(m, pd, d, f)) =>
              Rest(o, pd, d + 1, 0) = Rest(o, pd, d, 0)
<1>0. pd \in Frames /\ o[pd].kind = "dir" /\ Frames \subseteq Cells
  BY Sizes DEF Owned, HoldersOwned
<1>1. \A h \in Frames : o[h].pd = pd /\ o[h].kind = "table" =>
        o[h].d \in DEntries /\ IsTable(m, pd, o[h].d, h)
  BY DEF Owned, InPlace
<1>2. \A h \in Frames : o[h].pd = pd /\ o[h].kind = "page" =>
        o[h].d \in DEntries /\ o[h].t \in TEntries /\ IsPage(m, pd, o[h].d, o[h].t, h)
  BY DEF Owned, InPlace
<1>3. d \in Nat /\ DEntries \subseteq Nat /\ TEntries = 0 .. NR_PTE - 1 /\ NR_PTE \in Nat
  BY VmeAssumption DEF DEntries, TEntries
<1>4. ASSUME NEW t \in TEntries, NEW f \in Cells, IsPage(m, pd, d, t, f)
      PROVE  f \in Rest(o, pd, d, t) /\ Rest(o, pd, d, t + 1) = Rest(o, pd, d, t) \ {f}
  <2>1. /\ f \in Frames /\ o[f].kind = "page" /\ o[f].pd = pd
        /\ o[f].d = d /\ o[f].t = t
    BY <1>4 DEF Owned, PagesOwned
  <2>2. f # pd
    BY <1>0, <2>1
  <2>3. \A h \in Frames : o[h].pd = pd /\ o[h].kind = "page" /\ o[h].d = d /\ o[h].t = t => h = f
    BY <1>2, <1>4 DEF IsPage
  <2>4. t \in Nat
    BY <1>3
  <2>5. \A h \in Frames : h \in Rest(o, pd, d, t + 1) <=> h \in Rest(o, pd, d, t) /\ h # f
    BY <1>2, <1>3, <2>1, <2>2, <2>3, <2>4 DEF Rest
  <2> QED
    BY <2>1, <2>4, <2>5, <1>3 DEF Rest
<1>5. ASSUME NEW t \in TEntries, \A f \in Cells : ~ IsPage(m, pd, d, t, f)
      PROVE  Rest(o, pd, d, t + 1) = Rest(o, pd, d, t)
  <2>1. \A h \in Frames : ~ (o[h].pd = pd /\ o[h].kind = "page" /\ o[h].d = d /\ o[h].t = t)
    BY <1>0, <1>2, <1>5
  <2>2. \A h \in Frames : h \in Rest(o, pd, d, t + 1) <=> h \in Rest(o, pd, d, t)
    BY <1>2, <1>3, <2>1 DEF Rest
  <2> QED
    BY <2>2 DEF Rest
<1>6. ASSUME NEW f \in Cells, IsTable(m, pd, d, f)
      PROVE  f \in Rest(o, pd, d, NR_PTE) /\ Rest(o, pd, d + 1, 0) = Rest(o, pd, d, NR_PTE) \ {f}
  <2>1. f \in Frames /\ o[f].kind = "table" /\ o[f].pd = pd /\ o[f].d = d
    BY <1>6 DEF Owned, TablesOwned
  <2>2. f # pd
    BY <1>0, <2>1
  <2>3. \A h \in Frames : o[h].pd = pd /\ o[h].kind = "table" /\ o[h].d = d => h = f
    BY <1>1, <1>6 DEF IsTable
  <2>4. ASSUME NEW h \in Frames
        PROVE  h \in Rest(o, pd, d + 1, 0) <=> h \in Rest(o, pd, d, NR_PTE) /\ h # f
    <3>1. CASE h = pd
      BY <2>2, <3>1 DEF Rest
    <3>2. CASE h # pd /\ o[h].pd = pd /\ o[h].kind = "table"
      <4>1. o[h].d \in Nat /\ (o[h].d = d => h = f)
        BY <1>1, <1>3, <2>3, <3>2
      <4>2. h = f => o[h].d = d
        BY <2>1
      <4> QED
        BY <1>3, <3>2, <4>1, <4>2 DEF Rest
    <3>3. CASE h # pd /\ o[h].pd = pd /\ o[h].kind = "page"
      <4>1. o[h].d \in Nat /\ o[h].t \in 0 .. NR_PTE - 1 /\ h # f
        BY <1>2, <1>3, <2>1, <3>3
      <4> QED
        BY <1>3, <3>3, <4>1 DEF Rest
    <3>4. CASE h # pd /\ ~ (o[h].pd = pd /\ o[h].kind \in {"table", "page"})
      BY <3>4 DEF Rest
    <3> QED
      BY <3>1, <3>2, <3>3, <3>4
  <2> QED
    BY <2>1, <2>4, <1>3 DEF Rest
<1>7. ASSUME \A f \in Cells : ~ IsTable(m, pd, d, f)
      PROVE  Rest(o, pd, d + 1, 0) = Rest(o, pd, d, 0)
  <2>1. \A h \in Frames : ~ (o[h].pd = pd /\ o[h].kind = "table" /\ o[h].d = d)
    BY <1>0, <1>1, <1>7
  <2>2. \A h \in Frames : ~ (o[h].pd = pd /\ o[h].kind = "page" /\ o[h].d = d)
    <3> SUFFICES ASSUME NEW h \in Frames, o[h].pd = pd, o[h].kind = "page", o[h].d = d
                 PROVE  FALSE
      OBVIOUS
    <3>1. m.mem[pd].e[d].p
      BY <1>2 DEF IsPage
    <3>2. m.mem[pd].e[d].page \in Cells
      BY <1>0, Sizes, EntryType
    <3> QED
      BY <1>7, <3>1, <3>2 DEF IsTable
  <2>3. ASSUME NEW h \in Frames PROVE h \in Rest(o, pd, d + 1, 0) <=> h \in Rest(o, pd, d, 0)
    <3>1. CASE h = pd
      BY <3>1 DEF Rest
    <3>2. CASE h # pd /\ o[h].pd = pd /\ o[h].kind = "table"
      <4>1. o[h].d \in Nat /\ o[h].d # d
        BY <1>1, <1>3, <2>1, <3>2
      <4> QED
        BY <1>3, <3>2, <4>1 DEF Rest
    <3>3. CASE h # pd /\ o[h].pd = pd /\ o[h].kind = "page"
      <4>1. o[h].d \in Nat /\ o[h].t \in 0 .. NR_PTE - 1 /\ o[h].d # d
        BY <1>2, <1>3, <2>2, <3>3
      <4> QED
        BY <1>3, <3>3, <4>1 DEF Rest
    <3>4. CASE h # pd /\ ~ (o[h].pd = pd /\ o[h].kind \in {"table", "page"})
      BY <3>4 DEF Rest
    <3> QED
      BY <3>1, <3>2, <3>3, <3>4
  <2> QED
    BY <2>3 DEF Rest
<1> QED
  BY <1>4, <1>5, <1>6, <1>7

\* One table with its pages.
LEMMA FreeTableDoes ==
  ASSUME NEW m \in Memory, NEW D, NEW X, NEW L, NEW o, Owned(m, D, X, L, o), NEW pd \in D,
         NEW d \in DEntries, NEW pt \in Cells, IsTable(m, pd, d, pt),
         NEW n, Freeing(m, n, D \ {pd}, X, Rest(o, pd, d, 0), L)
  PROVE  Freeing(m, free_table(n, pt), D \ {pd}, X, Rest(o, pd, d + 1, 0), L)
<1> DEFINE C == D \ {pd}
           R(t) == Rest(o, pd, d, t)
<1>0. NR_PTE \in Nat /\ TEntries = 0 .. NR_PTE - 1
  BY VmeAssumption DEF TEntries
<1>1. n \in Memory /\ \A t : R(t) \in SUBSET Cells
  BY Sizes DEF Freeing, Fine, Rest
<1>2. PICK done : /\ done[0] = n
                  /\ \A k \in 1 .. NR_PTE : done[k] = free_pte(done[k - 1], n.mem[pt].e[k - 1])
                  /\ \A k \in 0 .. NR_PTE : done[k] \in Memory
                  /\ free_table(n, pt) = kfree(done[NR_PTE], pt)
  BY <1>1, FreeTableRounds
<1>3. /\ \A t \in TEntries : \A f \in Cells : IsPage(m, pd, d, t, f) =>
           f \in R(t) /\ R(t + 1) = R(t) \ {f}
      /\ \A t \in TEntries : (\A f \in Cells : ~ IsPage(m, pd, d, t, f)) => R(t + 1) = R(t)
      /\ pt \in R(NR_PTE) /\ Rest(o, pd, d + 1, 0) = R(NR_PTE) \ {pt}
  BY RestSteps
<1>4. ok(n) => n.mem[pt] = m.mem[pt]
  <2>1. pt \in Frames /\ o[pt].kind = "table" /\ o[pt].pd = pd /\ o[pt].d = d
    BY DEF Owned, TablesOwned
  <2>2. d >= d
    BY DEF DEntries
  <2>3. pt \in R(0)
    BY <2>1, <2>2 DEF Rest
  <2> QED
    BY <2>3 DEF Freeing
<1>5. m.mem[pd].e[d].p /\ m.mem[pd].e[d].page = pt
  BY DEF IsTable
<1> HIDE DEF R, C
<1> DEFINE good == {k \in 0 .. NR_PTE : /\ Freeing(m, done[k], C, X, R(k), L)
                                        /\ ok(done[k]) => ok(n)}
<1>6. 0 \in good
  BY <1>0, <1>2 DEF R, C
<1>7. ASSUME NEW k \in 1 .. NR_PTE, k - 1 \in good PROVE k \in good
  <2> DEFINE t == k - 1
             a == done[t]
             b == done[k]
             e == n.mem[pt].e[t]
  <2>1. /\ t \in TEntries /\ t \in Entries /\ t + 1 = k
        /\ Freeing(m, a, C, X, R(t), L) /\ (ok(a) => ok(n))
        /\ b = free_pte(a, e)
    BY <1>0, <1>2, <1>7, Sizes
  <2>2. a \in Memory /\ e \in Entry /\ e.page \in Cells /\ e.p \in BOOLEAN
    BY <1>1, <2>1, EntryType DEF Freeing, Fine
  <2>3. R(t + 1) \in SUBSET R(t)
    BY <1>3, <2>1
  <2> HIDE DEF t, a, b, e
  <2>4. CASE ~ ok(a)
    <3>1. b = a
      BY <2>1, <2>2, <2>4, Stopped
    <3>2. Freeing(m, a, C, X, R(t + 1), L)
      BY <2>1, <2>3, <2>4, FreesNothing
    <3> QED
      BY <1>0, <2>1, <2>4, <3>1, <3>2 DEF b
  <2>5. CASE ok(a) /\ ~ e.p
    <3>1. b = a
      BY <2>1, <2>5 DEF free_pte
    <3>2. \A f \in Cells : ~ IsPage(m, pd, d, t, f)
      BY <1>4, <1>5, <2>1, <2>5 DEF IsPage, e
    <3> QED
      BY <1>0, <1>3, <2>1, <3>1, <3>2 DEF b
  <2>6. CASE ok(a) /\ e.p
    <3> DEFINE f == e.page
    <3>1. b = kfree(a, f) /\ f \in Cells
      BY <2>1, <2>2, <2>6 DEF free_pte
    <3>2. IsPage(m, pd, d, t, f)
      BY <1>4, <1>5, <2>1, <2>6 DEF IsPage, e
    <3> HIDE DEF f
    <3>3. f \in R(t) /\ R(t + 1) = R(t) \ {f}
      BY <1>3, <2>1, <3>1, <3>2
    <3>4. Freeing(m, b, C, X, R(t) \ {f}, L)
      <4> DEFINE Q == R(t)
      <4>1. Q \in SUBSET Cells /\ f \in Q /\ Freeing(m, a, C, X, Q, L)
        BY <1>1, <2>1, <3>3
      <4> HIDE DEF Q
      <4>2. Freeing(m, kfree(a, f), C, X, Q \ {f}, L)
        BY <4>1, FreesOneMore
      <4> QED
        BY <3>1, <4>2 DEF Q
    <3>5. Freeing(m, b, C, X, R(t + 1), L)
      BY <3>3, <3>4
    <3> QED
      BY <1>0, <2>1, <2>6, <3>5 DEF b
  <2> QED
    BY <2>2, <2>4, <2>5, <2>6
<1>8. \A k \in 0 .. NR_PTE : k \in good
  <2> HIDE DEF good
  <2> QED
    BY <1>0, <1>6, <1>7, RoundByRound
<1>9. Freeing(m, done[NR_PTE], C, X, R(NR_PTE), L)
  BY <1>0, <1>8
<1> HIDE DEF good
<1>10. Freeing(m, kfree(done[NR_PTE], pt), C, X, R(NR_PTE) \ {pt}, L)
  BY <1>1, <1>3, <1>9, FreesOneMore
<1> QED
  BY <1>2, <1>3, <1>10 DEF C

LEMMA FreeTablesDoes ==
  ASSUME NEW m \in Memory, NEW D, NEW X, NEW L, NEW o, Owned(m, D, X, L, o), NEW pd \in D,
         Freeing(m, m, D \ {pd}, X, Rest(o, pd, 0, 0), L)
  PROVE  Freeing(m, free_tables(m, pd), D \ {pd}, X, {pd}, L)
<1> DEFINE C == D \ {pd}
           R(d) == Rest(o, pd, d, 0)
<1>0. NR_PDE \in Nat /\ DEntries = 0 .. NR_PDE - 1
  BY VmeAssumption DEF DEntries
<1>1. pd \in Frames /\ pd \in Cells
  BY Sizes DEF Owned, HoldersOwned
<1>2. PICK done : /\ done[0] = m
                  /\ \A k \in 1 .. NR_PDE : done[k] = free_pde(done[k - 1], m.mem[pd].e[k - 1])
                  /\ \A k \in 0 .. NR_PDE : done[k] \in Memory
                  /\ free_tables(m, pd) = done[NR_PDE]
  BY <1>1, FreeTablesRounds
<1> DEFINE good == {k \in 0 .. NR_PDE : Freeing(m, done[k], C, X, R(k), L)}
<1>3. 0 \in good
  BY <1>0, <1>2
<1>4. ASSUME NEW k \in 1 .. NR_PDE, k - 1 \in good PROVE k \in good
  <2> DEFINE d == k - 1
             a == done[d]
             b == done[k]
             e == m.mem[pd].e[d]
  <2>1. /\ d \in DEntries /\ d \in Entries /\ d + 1 = k
        /\ Freeing(m, a, C, X, R(d), L)
        /\ b = free_pde(a, e)
    BY <1>0, <1>2, <1>4, Sizes
  <2>2. e \in Entry /\ e.page \in Cells /\ e.p \in BOOLEAN
    BY <1>1, <2>1, EntryType
  <2> HIDE DEF d, a, b
  <2>3. CASE ~ e.p
    <3>1. b = a
      BY <2>1, <2>3 DEF free_pde
    <3>2. \A f \in Cells : ~ IsTable(m, pd, d, f)
      BY <2>3 DEF IsTable
    <3>3. R(d + 1) = R(d)
      BY <2>1, <3>2, RestSteps
    <3> HIDE DEF R, C
    <3> QED
      BY <1>0, <2>1, <3>1, <3>3 DEF b
  <2>4. CASE e.p
    <3> DEFINE pt == e.page
    <3>1. b = free_table(a, pt) /\ pt \in Cells
      BY <2>1, <2>2, <2>4 DEF free_pde
    <3>2. IsTable(m, pd, d, pt)
      BY <2>4 DEF IsTable
    <3> HIDE DEF pt, e
    <3>3. Freeing(m, b, C, X, R(d + 1), L)
      BY <2>1, <3>1, <3>2, FreeTableDoes
    <3> HIDE DEF R, C
    <3> QED
      BY <1>0, <2>1, <3>3 DEF b
  <2> HIDE DEF good
  <2> QED
    BY <2>2, <2>3, <2>4
<1>5. \A k \in 0 .. NR_PDE : k \in good
  <2> HIDE DEF good
  <2> QED
    BY <1>0, <1>3, <1>4, RoundByRound
<1>6. Freeing(m, done[NR_PDE], C, X, R(NR_PDE), L)
  <2>1. NR_PDE \in good
    <3> HIDE DEF good
    <3> QED
      BY <1>0, <1>5
  <2> QED
    BY <2>1
<1>7. R(NR_PDE) = {pd}
  <2>1. ASSUME NEW h \in Frames, o[h].pd = pd, o[h].kind \in {"table", "page"}
        PROVE  o[h].d \in 0 .. NR_PDE - 1
    BY <1>0, <2>1 DEF Owned, InPlace
  <2>2. ASSUME NEW h \in Frames PROVE h \in R(NR_PDE) <=> h = pd
    BY <1>0, <2>1 DEF Rest
  <2> QED
    BY <1>1, <2>2 DEF Rest
<1> QED
  BY <1>2, <1>6, <1>7

\* vm_teardown frees the whole space and changes no other one.
LEMMA TeardownDoes ==
  ASSUME NEW m \in Memory, NEW D, NEW X, NEW L, ok(m), Own(m, D, X, L), NEW pd \in D,
         NEW n, n = vm_teardown(m, pd)
  PROVE  /\ Fine(n, D \ {pd}, X, L)
         /\ ok(n) => AllKeep(m, n, D \ {pd})
<1>1. PICK o : Owned(m, D, X, L, o)
  BY DEF Own
<1>2. D \subseteq Cells
  BY OwnFrames, Sizes
<1>3. Freeing(m, m, D \ {pd}, X, Rest(o, pd, 0, 0), L)
  <2>1. /\ Own(m, D \ {pd}, X \cup Rest(o, pd, 0, 0), L)
        /\ X \cap Rest(o, pd, 0, 0) = {}
    BY <1>1, SpaceHeld
  <2> QED
    BY <1>2, <2>1 DEF Freeing, Fine, AllKeep, Keep, ok, RunsOut
<1> DEFINE k == free_tables(m, pd)
<1>4. Freeing(m, k, D \ {pd}, X, {pd}, L)
  BY <1>1, <1>3, FreeTablesDoes
<1>5. n = kfree(k, pd)
  BY DEF vm_teardown
<1> HIDE DEF k
<1> DEFINE R == {pd}
<1>6. R \in SUBSET Cells /\ pd \in R /\ R \ {pd} = {} /\ Freeing(m, k, D \ {pd}, X, R, L)
  BY <1>2, <1>4
<1> HIDE DEF R
<1>7. Freeing(m, n, D \ {pd}, X, R \ {pd}, L)
  BY <1>5, <1>6, FreesOneMore
<1>8. Freeing(m, n, D \ {pd}, X, {}, L)
  BY <1>6, <1>7
<1> QED
  BY <1>8 DEF Freeing

\* The tables and the pages of a directory.
Abandoned(m, pd) ==
  {h \in Cells : \E d \in DEntries :
     IsTable(m, pd, d, h) \/ \E t \in TEntries : IsPage(m, pd, d, t, h)}

\* What exec does to the old space: the directory is freed, the rest is lost.
LEMMA AbandonDoes ==
  ASSUME NEW m \in Memory, NEW D, NEW X, NEW L, ok(m), Own(m, D, X, L), NEW pd \in D,
         NEW n, n = kfree(m, pd)
  PROVE  /\ Fine(n, D \ {pd}, X, L \cup Abandoned(m, pd))
         /\ ok(n) => AllKeep(m, n, D \ {pd})
<1>1. PICK o : Owned(m, D, X, L, o)
  BY DEF Own
<1> DEFINE R == Rest(o, pd, 0, 0)
           Z == R \ {pd}
           C == D \ {pd}
           Y == (X \cup R) \ Z
           M == L \cup Z
<1>2. pd \in Frames /\ pd \in Cells /\ o[pd].kind = "dir" /\ D \subseteq Cells
  BY <1>1, OwnFrames, Sizes DEF Owned, HoldersOwned
<1>3. pd \in R /\ R \subseteq Frames
  BY <1>2 DEF Rest
<1>4. Own(m, C, X \cup R, L) /\ X \cap R = {}
  BY <1>1, SpaceHeld
<1>5. Z \in SUBSET (X \cup R)
  OBVIOUS
<1>6. Z = Abandoned(m, pd)
  <2>1. ASSUME NEW h \in Z PROVE h \in Abandoned(m, pd)
    <3>1. /\ h \in Frames /\ h \in Cells /\ InPlace(m, D, X, L, o, h)
          /\ o[h].kind \in {"table", "page"} /\ o[h].pd = pd
      BY <1>1, Sizes DEF Rest, Owned
    <3> QED
      BY <3>1 DEF InPlace, Abandoned
  <2>2. ASSUME NEW h \in Abandoned(m, pd) PROVE h \in Z
    <3>1. h \in Cells /\ \E d \in DEntries : IsTable(m, pd, d, h) \/ \E t \in TEntries : IsPage(m, pd, d, t, h)
      BY DEF Abandoned
    <3>2. /\ h \in Frames /\ o[h].pd = pd
          /\ o[h].kind = "table" \/ (o[h].kind = "page" /\ o[h].t \in TEntries)
          /\ o[h].d \in DEntries
      BY <1>1, <3>1 DEF Owned, TablesOwned, PagesOwned
    <3>3. o[h].d >= 0 /\ (o[h].kind = "page" => o[h].d > 0 \/ (o[h].d = 0 /\ o[h].t >= 0))
      BY <3>2 DEF DEntries, TEntries
    <3> QED
      BY <1>2, <3>2, <3>3 DEF Rest
  <2> QED
    BY <2>1, <2>2
<1>7. pd \in Y /\ Y \ {pd} = X
  BY <1>3, <1>4
<1>8. Own(m, C, Y, M)
  <2> DEFINE W == X \cup R
  <2>1. Own(m, C, W, L) /\ Z \in SUBSET W
    BY <1>4
  <2> HIDE DEF W, Z, C
  <2>2. Own(m, C, W \ Z, L \cup Z)
    BY <2>1, FramesLost
  <2> QED
    BY <2>2 DEF W
<1> HIDE DEF Y, C, M, Z, R
<1>9. /\ n.fault \in RunsOut
      /\ ok(n) => Own(n, C, Y \ {pd}, M) /\ AllKeep(m, n, C)
  BY <1>7, <1>8, KfreeDoes
<1>10. n \in Memory
  BY <1>2, KfreeType
<1> QED
  BY <1>2, <1>6, <1>7, <1>9, <1>10 DEF Fine, C, M

-----------------------------------------------------------------------------
(***************************************************************************)
(* A new space is made of frames that were free.                           *)
(***************************************************************************)

\* From m to n only the entries of frames that were free in m have changed, and
\* the tables of pd are such frames.
FromFree(m, n, pd) ==
  /\ ToSet(n.free) \subseteq ToSet(m.free)
  /\ \A h \in Cells : h \notin ToSet(m.free) => n.mem[h].e = m.mem[h].e
  /\ \A h \in Cells, d \in DEntries : IsTable(n, pd, d, h) => h \in ToSet(m.free)
  /\ pd \in ToSet(m.free)

LEMMA KallocFromFree ==
  ASSUME NEW m \in Memory, NEW n \in Memory, NEW pd \in Cells, FromFree(m, n, pd)
  PROVE  /\ FromFree(m, kalloc(n), pd)
         /\ ok(kalloc(n)) => fresh(n) \in ToSet(m.free)
<1>1. CASE ~ ok(n) \/ n.free = <<>>
  <2>1. kalloc(n).free = n.free /\ kalloc(n).mem = n.mem /\ ~ ok(kalloc(n))
    BY <1>1 DEF kalloc, stop, ok, Memory
  <2> QED
    BY <2>1 DEF FromFree, IsTable
<1>2. CASE ok(n) /\ n.free # <<>>
  <2> DEFINE k == kalloc(n)
             f == Head(n.free)
  <2>1. k = [n EXCEPT !.free = Tail(n.free), !.mem[f] = zeroed]
    BY <1>2 DEF kalloc
  <2>2. k.free = Tail(n.free) /\ k.mem = [n.mem EXCEPT ![f] = zeroed]
    BY <2>1 DEF Memory
  <2>3. f \in Cells /\ f \in ToSet(n.free) /\ ToSet(Tail(n.free)) \subseteq ToSet(n.free)
    BY <1>2 DEF Memory, ToSet
  <2> HIDE DEF k, f
  <2>4. \A h \in Cells : k.mem[h] = IF h = f THEN zeroed ELSE n.mem[h]
    BY <2>2, <2>3 DEF Memory
  <2>5. f \in ToSet(m.free) /\ ToSet(k.free) \subseteq ToSet(m.free)
    BY <2>2, <2>3 DEF FromFree
  <2>6. \A h \in Cells : h \notin ToSet(m.free) => k.mem[h].e = m.mem[h].e
    BY <2>4, <2>5 DEF FromFree
  <2>7. \A h \in Cells, d \in DEntries : IsTable(k, pd, d, h) => h \in ToSet(m.free)
    <3>1. CASE pd = f
      <4>1. \A d \in DEntries : ~ k.mem[pd].e[d].p
        <5>1. k.mem[pd] = zeroed
          BY <2>4, <3>1
        <5> QED
          BY <5>1, Sizes DEF zeroed, no_entry, Entries
      <4> QED
        BY <4>1 DEF IsTable
    <3>2. CASE pd # f
      BY <2>4, <3>2 DEF FromFree, IsTable
    <3> QED
      BY <3>1, <3>2
  <2> QED
    BY <2>5, <2>6, <2>7 DEF FromFree, k, f, fresh
<1> QED
  BY <1>1, <1>2

\* An entry of a frame that was free is written, with a frame that was free or the
\* one it had.
LEMMA EntryFromFree ==
  ASSUME NEW m \in Memory, NEW n \in Memory, NEW k, NEW pd \in Cells, FromFree(m, n, pd),
         NEW g \in Cells, NEW i \in Entries, OnlyEntry(n, k, g, i), k \in Memory,
         g \in ToSet(m.free),
         \/ k.mem[g].e[i].page \in ToSet(m.free)
         \/ /\ k.mem[g].e[i].page = n.mem[g].e[i].page
            /\ k.mem[g].e[i].p = n.mem[g].e[i].p
  PROVE  FromFree(m, k, pd)
<1>1. k.free = n.free /\ \A h \in Cells, j \in Entries : h # g \/ j # i => k.mem[h].e[j] = n.mem[h].e[j]
  BY DEF OnlyEntry
<1>2. ASSUME NEW h \in Cells, h \notin ToSet(m.free) PROVE k.mem[h].e = m.mem[h].e
  <2>1. k.mem[h].e \in [Entries -> Entry] /\ n.mem[h].e \in [Entries -> Entry]
    BY DEF Memory, Content
  <2>2. \A j \in Entries : k.mem[h].e[j] = n.mem[h].e[j]
    BY <1>1, <1>2
  <2>3. k.mem[h].e = n.mem[h].e
    BY <2>1, <2>2
  <2> QED
    BY <1>2, <2>3 DEF FromFree
<1>3. ASSUME NEW h \in Cells, NEW d \in DEntries, IsTable(k, pd, d, h) PROVE h \in ToSet(m.free)
  <2>1. d \in Entries
    BY Sizes
  <2>2. CASE pd = g /\ d = i
    BY <1>3, <2>2 DEF IsTable, FromFree
  <2>3. CASE ~ (pd = g /\ d = i)
    <3>1. k.mem[pd].e[d] = n.mem[pd].e[d]
      BY <1>1, <2>1, <2>3
    <3> QED
      BY <1>3, <3>1 DEF IsTable, FromFree
  <2> QED
    BY <2>2, <2>3
<1> QED
  BY <1>1, <1>2, <1>3 DEF FromFree

LEMMA MapPageFromFree ==
  ASSUME NEW m \in Memory, NEW n \in Memory, NEW pd \in Cells, FromFree(m, n, pd),
         NEW v \in Pages, NEW w \in BOOLEAN
  PROVE  FromFree(m, vm_map_page(n, pd, v, w), pd)
<1> DEFINE d == DIR(v)
           t == TBL(v)
           k == vm_walkpte(n, pd, v, w)
           pt == k.mem[pd].e[d].page
           a == kalloc(k)
           x == [page |-> fresh(k), p |-> TRUE, w |-> w]
           r == vm_map_page(n, pd, v, w)
<1>1. r = IF ~ ok(k) THEN k
          ELSE IF k.mem[pt].e[t].p THEN [k EXCEPT !.mem[pt].e[t].w = @ \/ w]
          ELSE IF ok(a) THEN [a EXCEPT !.mem[pt].e[t] = x] ELSE a
  BY DEF vm_map_page
<1>2. /\ d \in DEntries /\ d \in Entries /\ t \in Entries /\ k \in Memory
      /\ pd \in ToSet(m.free)
  BY EntriesOfPage, WalkType DEF FromFree
<1>3. FromFree(m, k, pd) /\ (ok(k) => k.mem[pd].e[d].p)
  <2>1. CASE ~ ok(n)
    BY <2>1 DEF vm_walkpte
  <2>2. CASE ok(n) /\ n.mem[pd].e[d].p
    <3>1. k = Widened(n, pd, d, w)
      BY <2>2 DEF vm_walkpte, Widened
    <3> HIDE DEF k, d
    <3>2. /\ OnlyEntry(n, k, pd, d)
          /\ k.mem[pd].e[d].page = n.mem[pd].e[d].page
          /\ k.mem[pd].e[d].p = n.mem[pd].e[d].p
      BY <1>2, <3>1, WidenOnly
    <3> QED
      BY <1>2, <2>2, <3>2, EntryFromFree
  <2>3. CASE ok(n) /\ ~ n.mem[pd].e[d].p
    <3> DEFINE b == kalloc(n)
               y == [page |-> fresh(n), p |-> TRUE, w |-> w]
    <3>1. k = IF ok(b) THEN [b EXCEPT !.mem[pd].e[d] = y] ELSE b
      BY <2>3 DEF vm_walkpte
    <3>2. b \in Memory /\ FromFree(m, b, pd) /\ (ok(b) => fresh(n) \in ToSet(m.free) /\ y \in Entry)
      BY KallocType, KallocFromFree DEF Entry
    <3>3. y.page = fresh(n) /\ y.p
      OBVIOUS
    <3> HIDE DEF b, y, k, d
    <3>4. CASE ~ ok(b)
      BY <3>1, <3>2, <3>4
    <3>5. CASE ok(b)
      <4>1. OnlyEntry(b, k, pd, d) /\ k.mem[pd].e[d] = y
        <5>1. b \in Memory /\ y \in Entry /\ k = [b EXCEPT !.mem[pd].e[d] = y]
          BY <3>1, <3>2, <3>5
        <5> QED
          BY <1>2, <5>1 DEF OnlyEntry, Memory, Content
      <4>2. k.mem[pd].e[d].page \in ToSet(m.free) /\ k.mem[pd].e[d].p
        BY <3>2, <3>3, <3>5, <4>1
      <4>3. b \in Memory /\ FromFree(m, b, pd) /\ OnlyEntry(b, k, pd, d)
        BY <3>2, <4>1
      <4> QED
        BY <1>2, <4>2, <4>3, EntryFromFree
    <3> QED
      BY <3>4, <3>5
  <2> QED
    BY <2>1, <2>2, <2>3
<1>4. pt \in Cells
  BY <1>2, EntryType
<1>5. ok(k) => pt \in ToSet(m.free)
  BY <1>2, <1>3, <1>4 DEF FromFree, IsTable
<1>6. CASE ~ ok(k)
  BY <1>1, <1>3, <1>6
<1>7. CASE ok(k) /\ k.mem[pt].e[t].p
  <2>1. r = Widened(k, pt, t, w)
    BY <1>1, <1>7 DEF Widened
  <2> HIDE DEF r, k, pt, d, t
  <2>2. /\ r \in Memory /\ OnlyEntry(k, r, pt, t)
        /\ r.mem[pt].e[t].page = k.mem[pt].e[t].page
        /\ r.mem[pt].e[t].p = k.mem[pt].e[t].p
    BY <1>2, <1>4, <2>1, WidenOnly
  <2> QED
    BY <1>2, <1>3, <1>4, <1>5, <1>7, <2>2, EntryFromFree DEF r
<1>8. CASE ok(k) /\ ~ k.mem[pt].e[t].p
  <2>1. a \in Memory /\ FromFree(m, a, pd) /\ (ok(a) => fresh(k) \in ToSet(m.free) /\ x \in Entry)
    <3>1. a \in Memory /\ (ok(a) => fresh(k) \in Cells)
      BY <1>2, KallocType
    <3>2. FromFree(m, a, pd) /\ (ok(a) => fresh(k) \in ToSet(m.free))
      <4> HIDE DEF k
      <4> QED
        BY <1>2, <1>3, KallocFromFree
    <3> QED
      BY <3>1, <3>2 DEF Entry
  <2>2. r = IF ok(a) THEN [a EXCEPT !.mem[pt].e[t] = x] ELSE a
    BY <1>1, <1>8
  <2>3. x.page = fresh(k)
    OBVIOUS
  <2>4. r \in Memory
    BY MapPageType
  <2> HIDE DEF r, a, x, k, pt, d, t
  <2>5. CASE ~ ok(a)
    BY <2>1, <2>2, <2>5 DEF r
  <2>6. CASE ok(a)
    <3>1. OnlyEntry(a, r, pt, t) /\ r.mem[pt].e[t] = x
      <4>1. a \in Memory /\ x \in Entry /\ r = [a EXCEPT !.mem[pt].e[t] = x]
        BY <2>1, <2>2, <2>6
      <4> QED
        BY <1>2, <1>4, <4>1 DEF OnlyEntry, Memory, Content
    <3>2. r.mem[pt].e[t].page \in ToSet(m.free) /\ pt \in ToSet(m.free)
      BY <1>5, <1>8, <2>1, <2>3, <2>6, <3>1
    <3>3. a \in Memory /\ FromFree(m, a, pd)
      BY <2>1
    <3>4. FromFree(m, r, pd)
      BY <1>2, <1>4, <2>4, <3>1, <3>2, <3>3, EntryFromFree
    <3> QED
      BY <3>4 DEF r
  <2> QED
    BY <2>5, <2>6
<1> QED
  BY <1>6, <1>7, <1>8

LEMMA LoadPageFromFree ==
  ASSUME NEW m \in Memory, NEW n \in Memory, NEW pd \in Cells, FromFree(m, n, pd),
         NEW v \in Pages, NEW w \in BOOLEAN, NEW x \in Contents
  PROVE  FromFree(m, load_page(n, pd, v, w, x), pd)
<1> DEFINE k == vm_map_page(n, pd, v, w)
           f == frame_of(k, pd, v)
           r == put(k, pd, v, x)
<1>1. k \in Memory /\ FromFree(m, k, pd)
  BY MapPageType, MapPageFromFree
<1>2. f \in Cells
  BY <1>1, PteType
<1>3. r = IF ok(k) THEN [k EXCEPT !.mem[f].b = x] ELSE k
  BY DEF put
<1> HIDE DEF k, f, r
<1>4. r.free = k.free /\ \A h \in Cells : r.mem[h].e = k.mem[h].e
  BY <1>1, <1>2, <1>3 DEF Memory, Content
<1>5. FromFree(m, r, pd)
  BY <1>1, <1>4 DEF FromFree, IsTable
<1> QED
  BY <1>5 DEF load_page, r, k

LEMMA LoadUserFromFree ==
  ASSUME NEW m \in Memory, NEW n \in Memory, NEW pd \in Cells, FromFree(m, n, pd),
         NEW name \in DOMAIN Image
  PROVE  FromFree(m, load_user(n, pd, name), pd)
<1> DEFINE len == Len(Image[name].pages)
           k == load_segs(n, pd, name)
<1>0. len \in Nat /\ name \in Contents /\ "args" \in Contents
  BY VmeAssumption DEF Contents
<1>1. PICK done : /\ done[0] = n
                  /\ \A i \in 1 .. len : done[i] = load_page(done[i - 1], pd, Image[name].pages[i].v,
                                                             Image[name].pages[i].w, name)
                  /\ \A i \in 0 .. len : done[i] \in Memory
                  /\ k = done[len]
  BY LoadRounds
<1> DEFINE good == {i \in 0 .. len : FromFree(m, done[i], pd)}
<1>2. 0 \in good
  BY <1>0, <1>1
<1>3. ASSUME NEW i \in 1 .. len, i - 1 \in good PROVE i \in good
  <2> DEFINE a == done[i - 1]
             v == Image[name].pages[i].v
             w == Image[name].pages[i].w
  <2>1. a \in Memory /\ FromFree(m, a, pd) /\ v \in Pages /\ w \in BOOLEAN
    BY <1>0, <1>1, <1>3, ImagePages
  <2>2. done[i] = load_page(a, pd, v, w, name)
    BY <1>1
  <2> HIDE DEF a, v, w
  <2>3. FromFree(m, done[i], pd)
    BY <1>0, <2>1, <2>2, LoadPageFromFree
  <2> HIDE DEF len
  <2> QED
    BY <1>0, <2>3
<1>4. len \in good
  <2> HIDE DEF good, len
  <2>1. \A i \in 0 .. len : i \in good
    BY <1>0, <1>2, <1>3, RoundByRound
  <2> QED
    BY <1>0, <2>1
<1>5. FromFree(m, k, pd) /\ k \in Memory
  BY <1>0, <1>1, <1>4
<1> HIDE DEF k
<1>6. FromFree(m, load_page(k, pd, stack, TRUE, "args"), pd)
  BY <1>0, <1>5, Sizes, LoadPageFromFree
<1> QED
  BY <1>6 DEF load_user, k

\* So the frames of the other spaces are the same ones.
LEMMA SameAbandoned ==
  ASSUME NEW m \in Memory, NEW n \in Memory, NEW D, NEW X, NEW L, Own(m, D, X, L),
         NEW pd, FromFree(m, n, pd), NEW q \in D
  PROVE  Abandoned(n, q) = Abandoned(m, q)
<1>1. PICK o : Owned(m, D, X, L, o)
  BY DEF Own
<1>2. \A h \in Frames : o[h].kind \in {"dir", "table"} => n.mem[h].e = m.mem[h].e
  <2> SUFFICES ASSUME NEW h \in Frames, o[h].kind \in {"dir", "table"}
               PROVE  n.mem[h].e = m.mem[h].e
    OBVIOUS
  <2>1. h \notin ToSet(m.free) /\ h \in Cells
    BY <1>1, Sizes DEF Owned, FreeOwned, ToSet, Memory
  <2> QED
    BY <2>1 DEF FromFree
<1>3. SameTables(m, n, D)
  BY <1>1, <1>2, TablesStay
<1> QED
  BY <1>3 DEF Abandoned, SameTables

-----------------------------------------------------------------------------
(***************************************************************************)
(* References to frames.                                                   *)
(***************************************************************************)

Dirs == {pgdir[p] : p \in used}
Stacks == {kstack[p] : p \in used}

\* No two processes share a directory or a kernel stack.
OwnDirs == \A p, q \in used : pgdir[p] = pgdir[q] => p = q
OwnStacks == \A p, q \in used : kstack[p] = kstack[q] => p = q

LEMMA PageAt ==
  ASSUME NEW d \in DEntries, NEW t \in TEntries
  PROVE  \E v \in Pages : DIR(v) = d /\ TBL(v) = t
<1> DEFINE v == d * NR_PTE + t
<1>1. /\ NR_PTE \in Nat /\ NR_PTE >= 1 /\ NR_PDE \in Nat /\ d \in Nat /\ t \in Nat
      /\ t < NR_PTE /\ d + 1 <= NR_PDE
  BY VmeAssumption DEF DEntries, TEntries
<1>2. v \in Nat /\ v \div NR_PTE = d /\ v % NR_PTE = t
  BY <1>1
<1>3. (d + 1) * NR_PTE <= NR_PDE * NR_PTE
  BY <1>1
<1>4. v < NR_PDE * NR_PTE
  BY <1>1, <1>3
<1>5. v \in Pages
  BY <1>1, <1>2, <1>4 DEF Pages
<1> QED
  BY <1>2, <1>5 DEF DIR, TBL

\* The references of the tables and of the pages of a directory.
LEMMA SpaceReferences ==
  ASSUME now \in Memory, NEW q \in Cells
  PROVE  /\ \A t \in tables_of(q) :
              t[1] \in DEntries /\ t[2] \in Cells /\ IsTable(now, q, t[1], t[2]) /\ t = <<t[1], t[2]>>
         /\ \A t \in pages_of(q) :
              /\ t[1] \in Pages /\ t[2] \in Cells /\ t = <<t[1], t[2]>>
              /\ IsPage(now, q, DIR(t[1]), TBL(t[1]), t[2])
         /\ \A d \in DEntries : \A f \in Cells : IsTable(now, q, d, f) => <<d, f>> \in tables_of(q)
         /\ \A v \in Pages : \A f \in Cells : IsPage(now, q, DIR(v), TBL(v), f) => <<v, f>> \in pages_of(q)
<1>1. now.mem = mem
  BY DEF now
<1>2. ASSUME NEW t \in tables_of(q)
      PROVE  t[1] \in DEntries /\ t[2] \in Cells /\ IsTable(now, q, t[1], t[2]) /\ t = <<t[1], t[2]>>
  <2>1. PICK d \in DEntries : mem[q].e[d].p /\ t = <<d, mem[q].e[d].page>>
    BY DEF tables_of, DEntries
  <2>2. mem[q].e[d].page \in Cells
    BY <1>1, Sizes, EntryType
  <2> QED
    BY <1>1, <2>1, <2>2 DEF IsTable
<1>3. ASSUME NEW t \in pages_of(q)
      PROVE  /\ t[1] \in Pages /\ t[2] \in Cells /\ t = <<t[1], t[2]>>
             /\ IsPage(now, q, DIR(t[1]), TBL(t[1]), t[2])
  <2>1. PICK v \in Pages : pte(now, q, v).p /\ t = <<v, frame_of(now, q, v)>>
    BY DEF pages_of
  <2>2. Mapped(now, q, v) /\ frame_of(now, q, v) = Slot(now, q, v).page /\ frame_of(now, q, v) \in Cells
    BY <2>1, PteIsSlot, PteType
  <2> QED
    BY <2>1, <2>2 DEF Mapped, Slot, IsPage
<1>4. ASSUME NEW d \in DEntries, NEW f \in Cells, IsTable(now, q, d, f)
      PROVE  <<d, f>> \in tables_of(q)
  BY <1>1, <1>4 DEF tables_of, IsTable, DEntries
<1>5. ASSUME NEW v \in Pages, NEW f \in Cells, IsPage(now, q, DIR(v), TBL(v), f)
      PROVE  <<v, f>> \in pages_of(q)
  <2>1. Mapped(now, q, v) /\ Slot(now, q, v).page = f
    BY <1>5 DEF Mapped, Slot, IsPage
  <2>2. pte(now, q, v).p /\ frame_of(now, q, v) = f
    BY <2>1, PteIsSlot
  <2> QED
    BY <2>2 DEF pages_of
<1> QED
  BY <1>2, <1>3, <1>4, <1>5

LEMMA AbandonedIs ==
  ASSUME now \in Memory, NEW q \in Cells
  PROVE  Abandoned(now, q) = {t[2] : t \in tables_of(q) \cup pages_of(q)}
<1>1. ASSUME NEW t \in tables_of(q) \cup pages_of(q) PROVE t[2] \in Abandoned(now, q)
  BY SpaceReferences, EntriesOfPage DEF Abandoned
<1>2. ASSUME NEW f \in Abandoned(now, q) PROVE \E t \in tables_of(q) \cup pages_of(q) : t[2] = f
  <2>1. PICK d \in DEntries : IsTable(now, q, d, f) \/ \E t \in TEntries : IsPage(now, q, d, t, f)
    BY DEF Abandoned
  <2>2. f \in Cells
    BY DEF Abandoned
  <2>3. CASE IsTable(now, q, d, f)
    <3>1. <<d, f>> \in tables_of(q) /\ <<d, f>>[2] = f
      BY <2>2, <2>3, SpaceReferences
    <3> QED
      BY <3>1
  <2>4. ASSUME NEW t \in TEntries, IsPage(now, q, d, t, f)
        PROVE  \E r \in tables_of(q) \cup pages_of(q) : r[2] = f
    <3>1. PICK v \in Pages : DIR(v) = d /\ TBL(v) = t
      BY PageAt
    <3>2. <<v, f>> \in pages_of(q) /\ <<v, f>>[2] = f
      BY <2>2, <2>4, <3>1, SpaceReferences
    <3> QED
      BY <3>2
  <2> QED
    BY <2>1, <2>3, <2>4
<1> QED
  BY <1>1, <1>2

\* What is said of the reference r, when o says where the frames are.
Placed(r, o) ==
  /\ r[2] \in Frames
  /\ \/ /\ o[r[2]].kind = "free"
        /\ \E i \in DOMAIN free_page_list : r = <<<<"free", i>>, free_page_list[i]>>
     \/ o[r[2]].kind = "own" /\ \E p \in used : r = <<<<"kstack", p>>, kstack[p]>>
     \/ o[r[2]].kind = "dir" /\ \E p \in used : r = <<<<"pgdir", p>>, pgdir[p]>>
     \/ /\ o[r[2]].kind = "table"
        /\ \E p \in used : /\ r = <<<<"table", p, o[r[2]].d>>, r[2]>>
                           /\ pgdir[p] = o[r[2]].pd
     \/ /\ o[r[2]].kind = "page"
        /\ \E p \in used, v \in Pages :
             /\ r = <<<<"page", p, v>>, r[2]>>
             /\ pgdir[p] = o[r[2]].pd /\ DIR(v) = o[r[2]].d /\ TBL(v) = o[r[2]].t

\* The references by their kinds.
FreeRefs == {<<<<"free", i>>, free_page_list[i]>> : i \in DOMAIN free_page_list}
StackRefs == {<<<<"kstack", p>>, kstack[p]>> : p \in used}
DirRefs == {<<<<"pgdir", p>>, pgdir[p]>> : p \in used}
TableRefs ==
  UNION {{<<<<"table", p, t[1]>>, t[2]>> : t \in tables_of(pgdir[p])} : p \in used}
PageRefs ==
  UNION {{<<<<"page", p, t[1]>>, t[2]>> : t \in pages_of(pgdir[p])} : p \in used}

LEMMA ReferenceKinds ==
  /\ FreeRefs \subseteq references /\ StackRefs \subseteq references
  /\ DirRefs \subseteq references /\ TableRefs \subseteq references
  /\ PageRefs \subseteq references
  /\ \A r \in references : \/ r \in FreeRefs \/ r \in StackRefs \/ r \in DirRefs
                          \/ r \in TableRefs \/ r \in PageRefs
<1>1. references = FreeRefs \cup StackRefs \cup DirRefs \cup TableRefs \cup PageRefs
  BY DEF references, FreeRefs, StackRefs, DirRefs, TableRefs, PageRefs
<1> QED
  BY <1>1

LEMMA ReferencesPlaced ==
  ASSUME now \in Memory, NEW L, NEW o, Owned(now, Dirs, Stacks, L, o), NEW r \in references
  PROVE  Placed(r, o)
<1>1. free_page_list = now.free /\ free_page_list \in Seq(Cells)
  BY DEF now, Memory
<1>2. CASE r \in {<<<<"free", i>>, free_page_list[i]>> : i \in DOMAIN free_page_list}
  <2>1. PICK i \in DOMAIN free_page_list : r = <<<<"free", i>>, free_page_list[i]>>
    BY <1>2
  <2>2. r[2] = free_page_list[i] /\ i \in 1 .. Len(now.free)
    BY <1>1, <2>1
  <2>3. r[2] \in Frames /\ o[r[2]].kind = "free"
    BY <1>1, <2>2 DEF Owned, FreeOwned
  <2> QED
    BY <2>1, <2>3 DEF Placed
<1>3. CASE r \in {<<<<"kstack", p>>, kstack[p]>> : p \in used}
  <2>1. PICK p \in used : r = <<<<"kstack", p>>, kstack[p]>>
    BY <1>3
  <2>2. r[2] = kstack[p] /\ kstack[p] \in Stacks
    BY <2>1 DEF Stacks
  <2>3. r[2] \in Frames /\ o[r[2]].kind = "own"
    BY <2>2 DEF Owned, HoldersOwned
  <2> QED
    BY <2>1, <2>3 DEF Placed
<1>4. CASE r \in {<<<<"pgdir", p>>, pgdir[p]>> : p \in used}
  <2>1. PICK p \in used : r = <<<<"pgdir", p>>, pgdir[p]>>
    BY <1>4
  <2>2. r[2] = pgdir[p] /\ pgdir[p] \in Dirs
    BY <2>1 DEF Dirs
  <2>3. r[2] \in Frames /\ o[r[2]].kind = "dir"
    BY <2>2 DEF Owned, HoldersOwned
  <2> QED
    BY <2>1, <2>3 DEF Placed
<1>5. \A p \in used : pgdir[p] \in Dirs /\ pgdir[p] \in Cells
  BY OwnFrames, Sizes DEF Dirs, Owned, HoldersOwned
<1>6. ASSUME NEW p \in used, NEW t \in tables_of(pgdir[p]), r = <<<<"table", p, t[1]>>, t[2]>>
      PROVE  Placed(r, o)
  <2>1. t[1] \in DEntries /\ t[2] \in Cells /\ IsTable(now, pgdir[p], t[1], t[2])
    BY <1>5, SpaceReferences
  <2>2. t[2] \in Frames /\ o[t[2]].kind = "table" /\ o[t[2]].pd = pgdir[p] /\ o[t[2]].d = t[1]
    BY <1>5, <2>1 DEF Owned, TablesOwned
  <2>3. r[2] = t[2]
    BY <1>6
  <2> QED
    BY <1>6, <2>2, <2>3 DEF Placed
<1>7. ASSUME NEW p \in used, NEW t \in pages_of(pgdir[p]), r = <<<<"page", p, t[1]>>, t[2]>>
      PROVE  Placed(r, o)
  <2>1. t[1] \in Pages /\ t[2] \in Cells /\ IsPage(now, pgdir[p], DIR(t[1]), TBL(t[1]), t[2])
    BY <1>5, SpaceReferences
  <2>2. /\ t[2] \in Frames /\ o[t[2]].kind = "page" /\ o[t[2]].pd = pgdir[p]
        /\ o[t[2]].d = DIR(t[1]) /\ o[t[2]].t = TBL(t[1])
    BY <1>5, <2>1, EntriesOfPage DEF Owned, PagesOwned
  <2>3. r[2] = t[2]
    BY <1>7
  <2> QED
    BY <1>7, <2>1, <2>2, <2>3 DEF Placed
<1>8. CASE r \in TableRefs
  <2>1. PICK p \in used : r \in {<<<<"table", p, t[1]>>, t[2]>> : t \in tables_of(pgdir[p])}
    BY <1>8 DEF TableRefs
  <2>2. PICK t \in tables_of(pgdir[p]) : r = <<<<"table", p, t[1]>>, t[2]>>
    BY <2>1
  <2> QED
    BY <1>6, <2>2
<1>9. CASE r \in PageRefs
  <2>1. PICK p \in used : r \in {<<<<"page", p, t[1]>>, t[2]>> : t \in pages_of(pgdir[p])}
    BY <1>9 DEF PageRefs
  <2>2. PICK t \in pages_of(pgdir[p]) : r = <<<<"page", p, t[1]>>, t[2]>>
    BY <2>1
  <2> QED
    BY <1>7, <2>2
<1> QED
  BY <1>2, <1>3, <1>4, <1>8, <1>9, ReferenceKinds
     DEF FreeRefs, StackRefs, DirRefs, TableRefs, PageRefs

\* Two references to one frame are the same one.
LEMMA PlacedOnce ==
  ASSUME now \in Memory, NEW L, NEW o, Owned(now, Dirs, Stacks, L, o), OwnDirs, OwnStacks,
         NEW r, NEW s, Placed(r, o), Placed(s, o), r[2] = s[2]
  PROVE  r = s
<1>1. free_page_list = now.free /\ free_page_list \in Seq(Cells)
  BY DEF now, Memory
<1>2. CASE o[r[2]].kind = "free"
  <2>1. PICK i \in DOMAIN free_page_list : r = <<<<"free", i>>, free_page_list[i]>>
    BY <1>2 DEF Placed
  <2>2. PICK j \in DOMAIN free_page_list : s = <<<<"free", j>>, free_page_list[j]>>
    BY <1>2 DEF Placed
  <2>3. free_page_list[i] = free_page_list[j]
    BY <2>1, <2>2
  <2>4. i = j
    BY <1>1, <2>3 DEF Owned, FreeOnce
  <2> QED
    BY <2>1, <2>2, <2>4
<1>3. CASE o[r[2]].kind = "own"
  <2>1. PICK p \in used : r = <<<<"kstack", p>>, kstack[p]>>
    BY <1>3 DEF Placed
  <2>2. PICK q \in used : s = <<<<"kstack", q>>, kstack[q]>>
    BY <1>3 DEF Placed
  <2>3. p = q
    BY <2>1, <2>2 DEF OwnStacks
  <2> QED
    BY <2>1, <2>2, <2>3
<1>4. CASE o[r[2]].kind = "dir"
  <2>1. PICK p \in used : r = <<<<"pgdir", p>>, pgdir[p]>>
    BY <1>4 DEF Placed
  <2>2. PICK q \in used : s = <<<<"pgdir", q>>, pgdir[q]>>
    BY <1>4 DEF Placed
  <2>3. p = q
    BY <2>1, <2>2 DEF OwnDirs
  <2> QED
    BY <2>1, <2>2, <2>3
<1>5. CASE o[r[2]].kind = "table"
  <2>1. PICK p \in used : r = <<<<"table", p, o[r[2]].d>>, r[2]>> /\ pgdir[p] = o[r[2]].pd
    BY <1>5 DEF Placed
  <2>2. PICK q \in used : s = <<<<"table", q, o[s[2]].d>>, s[2]>> /\ pgdir[q] = o[s[2]].pd
    BY <1>5 DEF Placed
  <2>3. p = q
    BY <2>1, <2>2 DEF OwnDirs
  <2> QED
    BY <2>1, <2>2, <2>3
<1>6. CASE o[r[2]].kind = "page"
  <2>1. PICK p \in used, v \in Pages :
          /\ r = <<<<"page", p, v>>, r[2]>>
          /\ pgdir[p] = o[r[2]].pd /\ DIR(v) = o[r[2]].d /\ TBL(v) = o[r[2]].t
    BY <1>6 DEF Placed
  <2>2. PICK q \in used, u \in Pages :
          /\ s = <<<<"page", q, u>>, s[2]>>
          /\ pgdir[q] = o[s[2]].pd /\ DIR(u) = o[s[2]].d /\ TBL(u) = o[s[2]].t
    BY <1>6 DEF Placed
  <2>3. p = q /\ u = v
    BY <2>1, <2>2, PageOfIndex DEF OwnDirs
  <2> QED
    BY <2>1, <2>2, <2>3
<1> QED
  BY <1>2, <1>3, <1>4, <1>5, <1>6 DEF Placed

\* A frame that is not lost is referred to.
LEMMA FrameReferred ==
  ASSUME now \in Memory, NEW L, NEW o, Owned(now, Dirs, Stacks, L, o), NEW f \in Frames, f \notin L
  PROVE  \E r \in references : r[2] = f
<1>1. free_page_list = now.free /\ free_page_list \in Seq(Cells) /\ f \in Cells
  BY Sizes DEF now, Memory
<1>2. InPlace(now, Dirs, Stacks, L, o, f)
  BY DEF Owned
<1>3. Dirs \subseteq Cells
  BY Sizes DEF Owned, HoldersOwned
<1>4. CASE \E i \in 1 .. Len(now.free) : now.free[i] = f
  <2>1. PICK i \in DOMAIN free_page_list : free_page_list[i] = f
    BY <1>1, <1>4
  <2>2. <<<<"free", i>>, free_page_list[i]>> \in references
    BY DEF references
  <2> QED
    BY <2>1, <2>2
<1>5. CASE f \in Dirs
  <2>1. PICK p \in used : pgdir[p] = f
    BY <1>5 DEF Dirs
  <2>2. <<<<"pgdir", p>>, pgdir[p]>> \in references
    BY DEF references
  <2> QED
    BY <2>1, <2>2
<1>6. CASE f \in Stacks
  <2>1. PICK p \in used : kstack[p] = f
    BY <1>6 DEF Stacks
  <2>2. <<<<"kstack", p>>, kstack[p]>> \in references
    BY DEF references
  <2> QED
    BY <2>1, <2>2
<1>7. ASSUME NEW q \in Dirs, NEW d \in DEntries, IsTable(now, q, d, f)
      PROVE  \E r \in references : r[2] = f
  <2>1. PICK p \in used : pgdir[p] = q
    BY DEF Dirs
  <2>2. q \in Cells /\ <<d, f>> \in tables_of(q)
    BY <1>1, <1>3, <1>7, SpaceReferences
  <2>3. <<<<"table", p, <<d, f>>[1]>>, <<d, f>>[2]>>
          \in {<<<<"table", p, t[1]>>, t[2]>> : t \in tables_of(pgdir[p])}
    BY <2>1, <2>2
  <2>4. <<<<"table", p, <<d, f>>[1]>>, <<d, f>>[2]>> \in references
    BY <2>3, ReferenceKinds DEF TableRefs
  <2> QED
    BY <2>4
<1>8. ASSUME NEW q \in Dirs, NEW d \in DEntries, NEW t \in TEntries, IsPage(now, q, d, t, f)
      PROVE  \E r \in references : r[2] = f
  <2>1. PICK p \in used : pgdir[p] = q
    BY DEF Dirs
  <2>2. PICK v \in Pages : DIR(v) = d /\ TBL(v) = t
    BY PageAt
  <2>3. q \in Cells /\ <<v, f>> \in pages_of(q)
    BY <1>1, <1>3, <1>8, <2>2, SpaceReferences
  <2>4. <<<<"page", p, <<v, f>>[1]>>, <<v, f>>[2]>>
          \in {<<<<"page", p, x[1]>>, x[2]>> : x \in pages_of(pgdir[p])}
    BY <2>1, <2>3
  <2>5. <<<<"page", p, <<v, f>>[1]>>, <<v, f>>[2]>> \in references
    BY <2>4, ReferenceKinds DEF PageRefs
  <2> QED
    BY <2>5
<1> QED
  BY <1>2, <1>4, <1>5, <1>6, <1>7, <1>8 DEF InPlace

\* The frames that are lost are those of which Own says so.
LEMMA LostIs ==
  ASSUME now \in Memory, NEW L, Own(now, Dirs, Stacks, L)
  PROVE  lost = L
<1>1. PICK o : Owned(now, Dirs, Stacks, L, o)
  BY DEF Own
<1>2. \A f \in L : f \in Frames /\ o[f].kind = "lost"
  BY <1>1 DEF Owned, HoldersOwned
<1>3. ASSUME NEW r \in references, r[2] \in L PROVE FALSE
  BY <1>1, <1>2, <1>3, ReferencesPlaced DEF Placed
<1>4. \A f \in Frames : f \notin L => \E r \in references : r[2] = f
  BY <1>1, FrameReferred
<1> QED
  BY <1>2, <1>3, <1>4 DEF lost

\* So there are as many frames that are referred to as references.
LEMMA OwnersCounted ==
  ASSUME now \in Memory, NEW L, Own(now, Dirs, Stacks, L), OwnDirs, OwnStacks
  PROVE  Cardinality({r[2] : r \in references}) = Cardinality(references)
<1>1. PICK o : Owned(now, Dirs, Stacks, L, o)
  BY DEF Own
<1> DEFINE T == {r[2] : r \in references}
           g == [r \in references |-> r[2]]
<1>2. \A r \in references : Placed(r, o)
  BY <1>1, ReferencesPlaced
<1>3. \A r, s \in references : r[2] = s[2] => r = s
  BY <1>1, <1>2, PlacedOnce
<1>4. T \subseteq Frames
  BY <1>2 DEF Placed
<1>5. IsFiniteSet(T)
  <2>1. NPAGES \in Nat
    BY VmeAssumption
  <2>2. IsFiniteSet(Frames)
    BY <2>1, FS_Interval DEF Frames
  <2> QED
    BY <1>4, <2>2, FS_Subset
<1>6. g \in [references -> T] /\ \A r, s \in references : g[r] = g[s] => r = s
  BY <1>3
<1>7. \A t \in T : \E r \in references : g[r] = t
  OBVIOUS
<1> HIDE DEF g, T
<1>8. g \in Injection(references, T)
  BY <1>6 DEF Injection, IsInjective
<1>9. g \in Surjection(references, T)
  BY <1>6, <1>7 DEF Surjection
<1>10. Cardinality(references) = Cardinality(T)
  BY <1>5, <1>8, <1>9, FS_Injection
<1> QED
  BY <1>10 DEF T

-----------------------------------------------------------------------------
(***************************************************************************)
(* The inductive invariant.                                                *)
(***************************************************************************)

\* The processes and their breaks, and the memory.
TypeOK ==
  /\ curr \in Procs
  /\ cr3 \in Cells
  /\ status \in [Procs -> {"UNUSED", "READY", "ZOMBIE"}]
  /\ pgdir \in [Procs -> Cells \cup {NULL}]
  /\ kstack \in [Procs -> Nat \cup {NULL}]
  /\ brk \in [Procs -> {k * PGSIZE : k \in 0 .. stack}]
  /\ now \in Memory
  /\ prog \in [Procs -> DOMAIN Image]
  /\ old_brk \in [Procs -> 0 .. stack * PGSIZE]
  /\ DOMAIN gap = Procs

\* While the machine runs every frame has one owner, the running process is
\* ready and the CPU uses its directory.
Running ==
  /\ status[curr] = "READY" /\ status[0] = "READY"
  /\ pgdir[0] = kpd /\ cr3 = pgdir[curr]
  /\ OwnDirs /\ OwnStacks
  /\ Own(now, Dirs, Stacks, lost)

IInv ==
  /\ TypeOK
  /\ fault \in RunsOut \cup {"pgfault"}
  /\ ok(now) => Running

-----------------------------------------------------------------------------
(***************************************************************************)
(* Steps.                                                                  *)
(***************************************************************************)

LEMMA CommitNow ==
  ASSUME NEW m \in Memory, commit(m)
  PROVE  now' = m /\ ok(m) /\ fault' = "none"
BY DEF commit, now, ok, Memory

LEMMA CrashKeeps ==
  ASSUME IInv, NEW m, crash(m), m.fault \in RunsOut \cup {"pgfault"}
  PROVE  IInv' /\ ~ ok(now') /\ fault' = m.fault
<1>1. fault' \in Faults /\ fault' = m.fault /\ fault' # "none"
  BY DEF crash, ok, RunsOut, Faults
<1>2. now' = [now EXCEPT !.fault = fault']
  BY DEF crash, now
<1>3. now' \in Memory
  BY <1>1, <1>2 DEF IInv, TypeOK, Memory
<1>4. ~ ok(now')
  BY <1>1 DEF ok, now
<1>5. TypeOK'
  BY <1>3 DEF crash, IInv, TypeOK
<1> QED
  BY <1>1, <1>4, <1>5 DEF IInv

\* What LostIs says of the next state.
LEMMA LostNext ==
  \A L : now' \in Memory /\ Own(now', Dirs', Stacks', L) => lost' = L
<1>1. \A L : now \in Memory /\ Own(now, Dirs, Stacks, L) => lost = L
  BY LostIs
<1>2. (\A L : now \in Memory /\ Own(now, Dirs, Stacks, L) => lost = L)'
  BY <1>1, PTL
<1> QED
  BY <1>2

\* The invariant after a step that the machine survives.
LEMMA RunsOn ==
  ASSUME TypeOK', fault' = "none", NEW L, Own(now', Dirs', Stacks', L),
         OwnDirs', OwnStacks',
         status'[curr'] = "READY", status'[0] = "READY",
         pgdir'[0] = kpd, cr3' = pgdir'[curr']
  PROVE  IInv' /\ fault' \in RunsOut /\ lost' = L
<1>1. lost' = L
  BY LostNext DEF TypeOK
<1>2. Own(now', Dirs', Stacks', lost')
  BY <1>1
<1>3. Running'
  BY <1>2 DEF Running
<1> QED
  BY <1>1, <1>3 DEF IInv, RunsOut

\* Facts that every step starts from.
LEMMA Here ==
  ASSUME IInv, ok(now)
  PROVE  /\ now \in Memory /\ now.mem = mem /\ Own(now, Dirs, Stacks, lost)
         /\ Dirs \subseteq Frames /\ Dirs \subseteq Cells
         /\ Stacks \subseteq Frames /\ Fine(now, Dirs, Stacks, lost)
         /\ curr # 0 => curr \in used /\ cr3 \in Dirs
<1>1. now \in Memory /\ now.mem = mem /\ Own(now, Dirs, Stacks, lost)
  BY DEF IInv, TypeOK, Running, now
<1>2. Dirs \subseteq Frames /\ Stacks \subseteq Frames /\ Frames \subseteq Cells
  BY <1>1, OwnFrames, Sizes
<1>3. Fine(now, Dirs, Stacks, lost)
  BY <1>1, <1>2 DEF Fine, ok, RunsOut
<1>4. curr # 0 => curr \in used /\ cr3 \in Dirs
  BY DEF IInv, TypeOK, Running, used, Dirs
<1> QED
  BY <1>1, <1>2, <1>3, <1>4

\* schedule: every directory that it may load maps the kernel.
LEMMA KernelThere ==
  ASSUME IInv, ok(now), NEW p \in Procs, status[p] = "READY"
  PROVE  mem[pgdir[p]].kern /\ pgdir[p] \in Cells
<1>1. PICK o : Owned(now, Dirs, Stacks, lost, o)
  BY Here DEF Own
<1>2. mem[kpd].kern /\ \A q \in Dirs : mem[q].kern
  BY <1>1, Here DEF Owned, KernelMapped
<1>3. CASE p = 0
  BY <1>2, <1>3, Sizes DEF IInv, Running
<1>4. CASE p # 0
  <2>1. pgdir[p] \in Dirs
    BY <1>4 DEF Dirs, used
  <2> QED
    BY <1>2, <2>1, Here
<1> QED
  BY <1>3, <1>4

LEMMA ScheduleKeeps ==
  ASSUME IInv, NEW p \in Procs, schedule(p)
  PROVE  /\ IInv' /\ fault' \in RunsOut /\ lost' = lost /\ now' = now
         /\ curr' = curr => cr3' = cr3
<1>1. mem[pgdir[p]].kern /\ pgdir[p] \in Cells
  BY KernelThere DEF schedule
<1>2. now' = now /\ fault' = "none"
  BY <1>1 DEF schedule, proc_run, now, ok
<1>3. TypeOK'
  BY <1>1, <1>2 DEF schedule, proc_run, IInv, TypeOK
<1>4. used' = used /\ Dirs' = Dirs /\ Stacks' = Stacks
  BY DEF schedule, used, Dirs, Stacks
<1>5. OwnDirs' /\ OwnStacks'
  BY <1>4 DEF schedule, IInv, Running, OwnDirs, OwnStacks
<1>6. Own(now', Dirs', Stacks', lost)
  BY <1>2, <1>4 DEF schedule, IInv, Running
<1>7. status'[curr'] = "READY" /\ status'[0] = "READY" /\ pgdir'[0] = kpd /\ cr3' = pgdir'[curr']
  BY DEF schedule, proc_run, IInv, Running
<1>8. curr' = curr => cr3' = cr3
  BY DEF schedule, proc_run, IInv, Running
<1>9. IInv' /\ fault' \in RunsOut /\ lost' = lost
  BY <1>2, <1>3, <1>5, <1>6, <1>7, RunsOn
<1> QED
  BY <1>2, <1>8, <1>9

LEMMA ExitKeeps ==
  ASSUME IInv, sys_exit
  PROVE  /\ IInv' /\ fault' \in RunsOut /\ lost' = lost /\ now' = now
         /\ curr' # curr /\ status' = [status EXCEPT ![curr] = "ZOMBIE"]
<1>1. PICK p \in Procs \ {curr} : status[p] = "READY" /\ proc_run(p)
  BY DEF sys_exit
<1>2. mem[pgdir[p]].kern /\ pgdir[p] \in Cells
  BY <1>1, KernelThere DEF sys_exit, in_user
<1>3. now' = now /\ fault' = "none" /\ ok(now) /\ curr # 0
  BY <1>1, <1>2 DEF sys_exit, in_user, proc_run, now, ok
<1>4. TypeOK'
  BY <1>1, <1>2, <1>3 DEF sys_exit, proc_run, IInv, TypeOK
<1>5. status' = [status EXCEPT ![curr] = "ZOMBIE"] /\ status[curr] = "READY" /\ curr \in Procs
      /\ status \in [Procs -> {"UNUSED", "READY", "ZOMBIE"}]
  BY <1>3 DEF sys_exit, IInv, TypeOK, Running
<1>6. used' = used
  BY <1>5 DEF used
<1>7. Dirs' = Dirs /\ Stacks' = Stacks
  BY <1>6 DEF sys_exit, Dirs, Stacks
<1>8. OwnDirs' /\ OwnStacks'
  BY <1>3, <1>6 DEF sys_exit, IInv, Running, OwnDirs, OwnStacks
<1>9. Own(now', Dirs', Stacks', lost)
  BY <1>3, <1>7 DEF IInv, Running
<1>10. status'[curr'] = "READY" /\ status'[0] = "READY" /\ pgdir'[0] = kpd /\ cr3' = pgdir'[curr']
  BY <1>1, <1>3, <1>5 DEF sys_exit, proc_run, IInv, Running
<1>11. IInv' /\ fault' \in RunsOut /\ lost' = lost
  BY <1>3, <1>4, <1>8, <1>9, <1>10, RunsOn
<1> QED
  BY <1>1, <1>3, <1>5, <1>11 DEF proc_run

\* Page u of the directory r in n is like that of q in m.
SamePage(m, q, n, r, u) ==
  /\ Mapped(n, r, u) <=> Mapped(m, q, u)
  /\ Mapped(m, q, u) => /\ Slot(n, r, u).w <=> Slot(m, q, u).w
                        /\ n.mem[Slot(n, r, u).page].b = m.mem[Slot(m, q, u).page].b

LEMMA FirstUnused ==
  ASSUME unused # {}
  PROVE  (CHOOSE p \in unused : \A q \in unused : p <= q) \in unused
<1>1. unused \in SUBSET Nat
  BY VmeAssumption DEF unused, Procs
<1>2. \E p \in unused : \A q \in unused : p <= q
  BY <1>1, LeastNatural
<1> QED
  BY <1>2

\* The memory of fork, in which f is the new directory and k the new kernel stack.
LEMMA ForkMemory ==
  ASSUME IInv, ok(now), curr # 0,
         NEW m1, m1 = vm_alloc(now), NEW m2, m2 = kalloc(m1),
         NEW m, m = IF ok(m2) THEN vm_copycurr(m2, fresh(now)) ELSE m2
  PROVE  /\ m \in Memory /\ m.fault \in RunsOut
         /\ ok(m) => /\ fresh(now) \in Frames /\ fresh(now) \notin Dirs
                     /\ fresh(m1) \in Frames /\ fresh(m1) \notin Stacks
                     /\ Own(m, Dirs \cup {fresh(now)}, Stacks \cup {fresh(m1)}, lost)
                     /\ AllKeep(now, m, Dirs)
                     /\ \A u \in Pages : SamePage(now, cr3, m, fresh(now), u)
<1> DEFINE f == fresh(now)
           D == Dirs \cup {f}
           k == fresh(m1)
           X == Stacks \cup {k}
<1>1. m1 \in Memory /\ m2 \in Memory
  BY Here, VmAllocType, KallocType
<1>2. /\ m1.fault \in RunsOut
      /\ ok(m1) => /\ f \in Frames /\ f \notin Dirs
                   /\ Own(m1, D, Stacks, lost) /\ AllKeep(now, m1, Dirs)
                   /\ \A u \in Pages : ~ Mapped(m1, f, u)
  BY Here, VmAllocDoes
<1>3. CASE ~ ok(m1)
  <2>1. m2 = m1
    BY <1>1, <1>3, Stopped
  <2> QED
    BY <1>1, <1>2, <1>3, <2>1
<1>4. CASE ok(m1)
  <2> HIDE DEF f, D, k, X
  <2>1. Own(m1, D, Stacks, lost)
    BY <1>2, <1>4
  <2>2. /\ m2.fault \in RunsOut
        /\ ok(m2) => /\ k \in Frames /\ k \notin Stacks
                     /\ Own(m2, D, X, lost) /\ AllKeep(m1, m2, D)
    BY <1>1, <1>4, <2>1, KallocDoes DEF k, X
  <2>3. CASE ~ ok(m2)
    BY <1>1, <2>2, <2>3
  <2>4. CASE ok(m2)
    <3>1. f \in D /\ f # cr3 /\ cr3 \in D /\ Dirs \subseteq D /\ f \in Frames /\ f \notin Dirs
      BY <1>2, <1>4, Here DEF D
    <3>2. \A u \in Pages : ~ Mapped(m2, f, u)
      BY <1>2, <1>4, <2>2, <2>4, <3>1 DEF AllKeep, Keep
    <3>3. Fine(m2, D, X, lost)
      BY <1>1, <2>2, <2>4, FineOwn
    <3>4. m = vm_copycurr(m2, f)
      BY <2>4 DEF f
    <3>5. Fine(m, D, X, lost) /\ (ok(m) => CopiesSpace(m2, m, D, f))
      BY <3>1, <3>2, <3>3, <3>4, CopyDoes
    <3>6. AllKeep(now, m1, Dirs) /\ AllKeep(m1, m2, D)
      BY <1>2, <1>4, <2>2, <2>4
    <3>7. ASSUME ok(m) PROVE AllKeep(now, m, Dirs)
      <4>1. \A q \in Dirs, u \in Pages : Keep(m2, m, q, u)
        BY <3>1, <3>5, <3>7 DEF CopiesSpace
      <4>2. \A q \in Dirs, u \in Pages : Keep(now, m2, q, u)
        BY <3>1, <3>6, KeepTwice DEF AllKeep
      <4> QED
        BY <4>1, <4>2, KeepTwice DEF AllKeep
    <3>8. ASSUME ok(m), NEW u \in Pages PROVE SamePage(now, cr3, m, f, u)
      <4>1. /\ Mapped(m, f, u) <=> Mapped(m2, cr3, u)
            /\ Mapped(m2, cr3, u) =>
                 /\ Slot(m, f, u).w <=> Slot(m2, cr3, u).w
                 /\ m.mem[Slot(m, f, u).page].b = m2.mem[Slot(m2, cr3, u).page].b
        BY <3>5, <3>8 DEF CopiesSpace
      <4>2. Keep(now, m2, cr3, u)
        BY <3>1, <3>6, KeepTwice, Here DEF AllKeep
      <4> QED
        BY <4>1, <4>2 DEF SamePage, Keep
    <3>9. m \in Memory /\ m.fault \in RunsOut /\ (ok(m) => Own(m, D, X, lost))
      BY <3>5 DEF Fine
    <3> QED
      BY <2>2, <2>4, <3>1, <3>7, <3>8, <3>9 DEF f, D, k, X
  <2> QED
    BY <2>3, <2>4
<1> QED
  BY <1>3, <1>4

\* fork, when the machine goes on: the child c has the space of its parent.
Forks(c) ==
  /\ c \in unused
  /\ pgdir' = [pgdir EXCEPT ![c] = pgdir'[c]] /\ pgdir'[c] \notin Dirs
  /\ status' = [status EXCEPT ![c] = "READY"]
  /\ brk' = [brk EXCEPT ![c] = 0]
  /\ prog' = [prog EXCEPT ![c] = prog[curr]]
  /\ old_brk' = [old_brk EXCEPT ![c] = old_brk[curr]]
  /\ gap' = [gap EXCEPT ![c] = gap[curr]]
  /\ AllKeep(now, now', Dirs)
  /\ \A u \in Pages : SamePage(now, cr3, now', pgdir'[c], u)
  /\ UNCHANGED <<curr, cr3>>

LEMMA ForkKeeps ==
  ASSUME IInv, sys_fork
  PROVE  /\ IInv' /\ fault' \in RunsOut
         /\ ok(now') => lost' = lost /\ \E c \in Procs : Forks(c)
<1> DEFINE c == CHOOSE p \in unused : \A q \in unused : p <= q
           m1 == vm_alloc(now)
           m2 == kalloc(m1)
           m == IF ok(m2) THEN vm_copycurr(m2, fresh(now)) ELSE m2
           f == fresh(now)
           k == fresh(m1)
<1>1. ok(now) /\ curr # 0 /\ unused # {}
  BY DEF sys_fork, in_user
<1>2. c \in unused
  BY <1>1, FirstUnused
<1>3. \/ /\ commit(m)
         /\ status' = [status EXCEPT ![c] = "READY"]
         /\ pgdir' = [pgdir EXCEPT ![c] = f]
         /\ kstack' = [kstack EXCEPT ![c] = k]
         /\ brk' = [brk EXCEPT ![c] = 0]
         /\ prog' = [prog EXCEPT ![c] = prog[curr]]
         /\ old_brk' = [old_brk EXCEPT ![c] = old_brk[curr]]
         /\ gap' = [gap EXCEPT ![c] = gap[curr]]
         /\ UNCHANGED <<curr, cr3>>
      \/ crash(m)
  BY DEF sys_fork
<1>4. /\ m \in Memory /\ m.fault \in RunsOut
      /\ ok(m) => /\ f \in Frames /\ f \notin Dirs
                  /\ k \in Frames /\ k \notin Stacks
                  /\ Own(m, Dirs \cup {f}, Stacks \cup {k}, lost)
                  /\ AllKeep(now, m, Dirs)
                  /\ \A u \in Pages : SamePage(now, cr3, m, f, u)
  BY <1>1, ForkMemory
<1> HIDE DEF c, m1, m2, m, f, k
<1>5. CASE crash(m)
  BY <1>4, <1>5, CrashKeeps
<1>6. CASE /\ commit(m)
           /\ status' = [status EXCEPT ![c] = "READY"]
           /\ pgdir' = [pgdir EXCEPT ![c] = f]
           /\ kstack' = [kstack EXCEPT ![c] = k]
           /\ brk' = [brk EXCEPT ![c] = 0]
           /\ prog' = [prog EXCEPT ![c] = prog[curr]]
           /\ old_brk' = [old_brk EXCEPT ![c] = old_brk[curr]]
           /\ gap' = [gap EXCEPT ![c] = gap[curr]]
           /\ UNCHANGED <<curr, cr3>>
  <2>1. now' = m /\ ok(m) /\ fault' = "none"
    BY <1>4, <1>6, CommitNow
  <2>2. f \in Cells /\ k \in Nat /\ c \in Procs /\ c # 0 /\ status[c] = "UNUSED"
    BY <1>2, <1>4, <2>1, Sizes DEF unused, Frames
  <2>3. TypeOK'
    <3>1. 0 = 0 * PGSIZE /\ 0 \in 0 .. stack
      BY VmeAssumption DEF stack
    <3>2. brk' \in [Procs -> {j * PGSIZE : j \in 0 .. stack}]
      BY <1>6, <2>2, <3>1 DEF IInv, TypeOK
    <3>3. now' \in Memory
      BY <1>4, <2>1
    <3>4. /\ status' \in [Procs -> {"UNUSED", "READY", "ZOMBIE"}]
          /\ pgdir' \in [Procs -> Cells \cup {NULL}]
          /\ kstack' \in [Procs -> Nat \cup {NULL}]
      BY <1>6, <2>2 DEF IInv, TypeOK
    <3>5. /\ prog' \in [Procs -> DOMAIN Image]
          /\ old_brk' \in [Procs -> 0 .. stack * PGSIZE]
      BY <1>6, <2>2 DEF IInv, TypeOK
    <3> QED
      BY <1>6, <3>2, <3>3, <3>4, <3>5 DEF IInv, TypeOK
  <2>4. used' = used \cup {c} /\ c \notin used
    BY <1>6, <2>2 DEF used, IInv, TypeOK
  <2>5. /\ \A p \in used : pgdir'[p] = pgdir[p] /\ kstack'[p] = kstack[p]
        /\ pgdir'[c] = f /\ kstack'[c] = k
    BY <1>6, <2>2, <2>4 DEF used, IInv, TypeOK
  <2>6. Dirs' = Dirs \cup {f} /\ Stacks' = Stacks \cup {k}
    BY <2>4, <2>5 DEF Dirs, Stacks
  <2>7. OwnDirs' /\ OwnStacks'
    <3>1. \A p \in used : pgdir[p] # f /\ kstack[p] # k
      BY <1>4, <2>1 DEF Dirs, Stacks
    <3>2. OwnDirs /\ OwnStacks
      BY <1>1 DEF IInv, Running
    <3> QED
      BY <2>4, <2>5, <3>1, <3>2 DEF OwnDirs, OwnStacks
  <2>8. Own(now', Dirs', Stacks', lost)
    BY <1>4, <2>1, <2>6
  <2>9. status'[curr'] = "READY" /\ status'[0] = "READY" /\ pgdir'[0] = kpd /\ cr3' = pgdir'[curr']
    <3>1. status[curr] = "READY" /\ c # curr
      BY <1>1, <2>2 DEF IInv, Running
    <3> QED
      BY <1>1, <1>6, <2>2, <3>1 DEF IInv, TypeOK, Running, Procs
  <2>10. IInv' /\ fault' \in RunsOut /\ lost' = lost
    BY <2>1, <2>3, <2>7, <2>8, <2>9, RunsOn
  <2>11. Forks(c)
    BY <1>2, <1>4, <1>6, <2>1, <2>5 DEF Forks
  <2> QED
    BY <2>2, <2>10, <2>11
<1> QED
  BY <1>3, <1>5, <1>6

\* wait, when the machine goes on: the other spaces stay.
Reaps(z) ==
  /\ status[z] = "ZOMBIE"
  /\ status' = [status EXCEPT ![z] = "UNUSED"]
  /\ AllKeep(now, now', Dirs \ {pgdir[z]})
  /\ UNCHANGED <<curr, cr3, pgdir, brk, prog, old_brk, gap>>

LEMMA ReapKeeps ==
  ASSUME IInv, NEW z \in Procs, proc_free(z)
  PROVE  /\ IInv' /\ fault' \in RunsOut
         /\ ok(now') => lost' = lost /\ Reaps(z)
<1> DEFINE t == vm_teardown(now, pgdir[z])
           m == kfree(t, kstack[z])
           D == Dirs \ {pgdir[z]}
           X == Stacks \ {kstack[z]}
<1>1. ok(now) /\ curr # 0 /\ status[z] = "ZOMBIE"
  BY DEF proc_free, in_user
<1>2. \/ /\ commit(m)
         /\ status' = [status EXCEPT ![z] = "UNUSED"]
         /\ UNCHANGED <<curr, cr3, pgdir, kstack, brk, prog, old_brk, gap>>
      \/ crash(m)
  BY DEF proc_free
<1>3. z \in used /\ z # curr /\ z # 0
  BY <1>1 DEF IInv, TypeOK, Running, used
<1>4. pgdir[z] \in Dirs /\ kstack[z] \in Stacks /\ kstack[z] \in Cells
  BY <1>1, <1>3, Here, Sizes DEF Dirs, Stacks
<1>5. Fine(t, D, Stacks, lost) /\ (ok(t) => AllKeep(now, t, D))
  BY <1>1, <1>4, Here, TeardownDoes
<1> HIDE DEF t, m, D, X
<1>6. /\ m \in Memory /\ m.fault \in RunsOut
      /\ ok(m) => Own(m, D, X, lost) /\ AllKeep(now, m, D)
  <2>1. t \in Memory /\ t.fault \in RunsOut
    BY <1>5 DEF Fine
  <2>2. CASE ~ ok(t)
    <3>1. m = t
      BY <2>1, <2>2, Stopped DEF m
    <3> QED
      BY <2>1, <2>2, <3>1
  <2>3. CASE ok(t)
    <3>1. Own(t, D, Stacks, lost) /\ AllKeep(now, t, D)
      BY <1>5, <2>3 DEF Fine
    <3>2. /\ m.fault \in RunsOut
          /\ ok(m) => Own(m, D, X, lost) /\ AllKeep(t, m, D)
      BY <1>4, <2>1, <2>3, <3>1, KfreeDoes DEF m, X
    <3>3. m \in Memory
      BY <1>4, <2>1, KfreeType DEF m
    <3>4. ok(m) => AllKeep(now, m, D)
      BY <3>1, <3>2, KeepTwice DEF AllKeep
    <3> QED
      BY <3>2, <3>3, <3>4
  <2> QED
    BY <2>2, <2>3
<1>7. CASE crash(m)
  BY <1>6, <1>7, CrashKeeps
<1>8. CASE /\ commit(m)
           /\ status' = [status EXCEPT ![z] = "UNUSED"]
           /\ UNCHANGED <<curr, cr3, pgdir, kstack, brk, prog, old_brk, gap>>
  <2>1. now' = m /\ ok(m) /\ fault' = "none"
    BY <1>6, <1>8, CommitNow
  <2>2. TypeOK'
    <3>1. now' \in Memory
      BY <1>6, <2>1
    <3>2. status' \in [Procs -> {"UNUSED", "READY", "ZOMBIE"}]
      BY <1>8 DEF IInv, TypeOK
    <3> QED
      BY <1>8, <3>1, <3>2 DEF IInv, TypeOK
  <2>3. used' = used \ {z}
    BY <1>3, <1>8 DEF used, IInv, TypeOK
  <2>4. OwnDirs /\ OwnStacks
    BY <1>1 DEF IInv, Running
  <2>5. Dirs' = D /\ Stacks' = X
    <3>1. \A p \in used \ {z} : pgdir[p] # pgdir[z] /\ kstack[p] # kstack[z]
      BY <1>3, <2>4 DEF OwnDirs, OwnStacks
    <3>2. pgdir' = pgdir /\ kstack' = kstack
      BY <1>8
    <3> QED
      BY <2>3, <3>1, <3>2 DEF Dirs, Stacks, D, X
  <2>6. OwnDirs' /\ OwnStacks'
    BY <1>8, <2>3, <2>4 DEF OwnDirs, OwnStacks
  <2>7. Own(now', Dirs', Stacks', lost)
    BY <1>6, <2>1, <2>5
  <2>8. status'[curr'] = "READY" /\ status'[0] = "READY" /\ pgdir'[0] = kpd /\ cr3' = pgdir'[curr']
    BY <1>1, <1>3, <1>8 DEF IInv, TypeOK, Running, Procs
  <2>9. IInv' /\ fault' \in RunsOut /\ lost' = lost
    BY <2>1, <2>2, <2>6, <2>7, <2>8, RunsOn
  <2>10. Reaps(z)
    BY <1>1, <1>6, <1>8, <2>1 DEF Reaps, D
  <2> QED
    BY <2>9, <2>10
<1> QED
  BY <1>2, <1>7, <1>8

\* vm_alloc makes a directory of a frame that was free.
LEMMA AllocFromFree ==
  ASSUME NEW m \in Memory, ok(m), ok(vm_alloc(m))
  PROVE  FromFree(m, vm_alloc(m), fresh(m))
<1> DEFINE n == vm_alloc(m)
           k == kalloc(m)
           f == fresh(m)
<1>1. ok(k) /\ m.free # <<>> /\ f \in Cells /\ k.free = Tail(m.free) /\ k \in Memory
  BY VmAllocType, KallocType
<1>2. m.free \in Seq(Cells) /\ m.mem \in [Cells -> Content]
  BY DEF Memory
<1>3. f \in ToSet(m.free) /\ ToSet(Tail(m.free)) \subseteq ToSet(m.free)
  BY <1>1, <1>2 DEF fresh, ToSet
<1>4. k = [m EXCEPT !.free = Tail(@), !.mem[Head(m.free)] = zeroed]
  BY <1>1 DEF kalloc
<1>5. \A h \in Cells : k.mem[h] = IF h = f THEN zeroed ELSE m.mem[h]
  BY <1>1, <1>2, <1>4 DEF Memory, fresh
<1>6. n = [k EXCEPT !.mem[f].kern = TRUE]
  BY <1>1 DEF vm_alloc
<1>7. n.free = k.free /\ \A h \in Cells : n.mem[h].e = k.mem[h].e
  BY <1>1, <1>6 DEF Memory, Content
<1> HIDE DEF n, k, f
<1>8. \A h \in Cells : h \notin ToSet(m.free) => n.mem[h].e = m.mem[h].e
  BY <1>3, <1>5, <1>7
<1>9. \A h \in Cells, d \in DEntries : ~ IsTable(n, f, d, h)
  <2>1. \A d \in DEntries : ~ zeroed.e[d].p
    BY Sizes DEF zeroed, no_entry, Entries
  <2> QED
    BY <1>1, <1>5, <1>7, <2>1 DEF IsTable
<1>10. FromFree(m, n, f)
  BY <1>1, <1>3, <1>7, <1>8, <1>9 DEF FromFree
<1> QED
  BY <1>10 DEF n, f

\* The space of pd is that of the program, at its start.
HasProgram(m, pd, name) ==
  \A u \in Pages :
    /\ Mapped(m, pd, u) <=> u \in DOMAIN start_of(name)
    /\ Mapped(m, pd, u) =>
         /\ m.mem[Slot(m, pd, u).page].b = start_of(name)[u]
         /\ Slot(m, pd, u).w <=>
              u = stack \/ \E s \in ToSet(Image[name].pages) : s.v = u /\ s.w

\* The memory of exec: the new directory f is that of the program, and what the
\* old one had but for itself is lost.
LEMMA ExecMemory ==
  ASSUME IInv, ok(now), curr # 0, NEW name \in DOMAIN Image,
         NEW m, m = exec_mem(name)
  PROVE  /\ m \in Memory /\ m.fault \in RunsOut
         /\ ok(m) => /\ fresh(now) \in Frames /\ fresh(now) \notin Dirs
                     /\ Own(m, (Dirs \cup {fresh(now)}) \ {cr3}, Stacks,
                            lost \cup Abandoned(now, cr3))
                     /\ AllKeep(now, m, Dirs \ {cr3})
                     /\ HasProgram(m, fresh(now), name)
<1> DEFINE n == vm_alloc(now)
           f == fresh(now)
           k == load_user(n, f, name)
           D == Dirs \cup {f}
           L == lost \cup Abandoned(now, cr3)
<1>1. n \in Memory
  BY Here, VmAllocType
<1>2. /\ n.fault \in RunsOut
      /\ ok(n) => /\ f \in Frames /\ f \notin Dirs
                  /\ Own(n, D, Stacks, lost) /\ AllKeep(now, n, Dirs)
                  /\ \A u \in Pages : ~ Mapped(n, f, u)
  BY Here, VmAllocDoes
<1>3. m = IF ~ok(n) THEN n ELSE kfree(k, cr3)
  BY DEF exec_mem
<1>4. CASE ~ ok(n)
  BY <1>1, <1>2, <1>3, <1>4
<1>5. CASE ok(n)
  <2>1. FromFree(now, n, f)
    BY <1>5, Here, AllocFromFree
  <2>2. /\ f \in D /\ f # cr3 /\ cr3 \in D /\ Dirs \subseteq D /\ f \in Frames /\ f \notin Dirs
        /\ f \in Cells /\ cr3 \in Cells /\ cr3 \in Dirs
    BY <1>2, <1>5, Here, Sizes
  <2>3. FromFree(now, k, f)
    BY <1>1, <2>1, <2>2, LoadUserFromFree, Here
  <2> HIDE DEF f, D, k, n, L
  <2>4. Fine(n, D, Stacks, lost)
    BY <1>1, <1>2, <1>5, FineOwn
  <2>5. \A u \in Pages : ~ Mapped(n, f, u)
    BY <1>2, <1>5
  <2>6. Fine(k, D, Stacks, lost) /\ (ok(k) => LoadsProgram(n, k, D, f, name))
    BY <2>2, <2>4, <2>5, LoadUserDoes DEF k
  <2>7. k \in Memory /\ k.fault \in RunsOut
    BY <2>6 DEF Fine
  <2>8. CASE ~ ok(k)
    <3>1. m = k
      BY <1>3, <1>5, <2>7, <2>8, Stopped
    <3> QED
      BY <2>7, <2>8, <3>1
  <2>9. CASE ok(k)
    <3>1. Own(k, D, Stacks, lost)
      BY <2>6, <2>9 DEF Fine
    <3>2. m = kfree(k, cr3)
      BY <1>3, <1>5
    <3>3. /\ Fine(m, D \ {cr3}, Stacks, lost \cup Abandoned(k, cr3))
          /\ ok(m) => AllKeep(k, m, D \ {cr3})
      BY <2>2, <2>7, <2>9, <3>1, <3>2, AbandonDoes
    <3>4. Abandoned(k, cr3) = Abandoned(now, cr3)
      BY <2>2, <2>3, <2>7, Here, SameAbandoned
    <3>5. m \in Memory /\ m.fault \in RunsOut /\ (ok(m) => Own(m, D \ {cr3}, Stacks, L))
      BY <3>3, <3>4 DEF Fine, L
    <3>6. ASSUME ok(m) PROVE AllKeep(now, m, Dirs \ {cr3})
      <4>1. \A q \in Dirs \ {cr3}, u \in Pages : Keep(n, k, q, u)
        BY <2>2, <2>6, <2>9 DEF LoadsProgram
      <4>2. \A q \in Dirs \ {cr3}, u \in Pages : Keep(now, n, q, u)
        BY <1>2, <1>5 DEF AllKeep
      <4>3. \A q \in Dirs \ {cr3}, u \in Pages : Keep(k, m, q, u)
        BY <2>2, <3>3, <3>6 DEF AllKeep
      <4> QED
        BY <4>1, <4>2, <4>3, KeepTwice DEF AllKeep
    <3>7. ASSUME ok(m) PROVE HasProgram(m, f, name)
      <4>1. HasProgram(k, f, name)
        BY <2>6, <2>9 DEF LoadsProgram, HasProgram
      <4>2. \A u \in Pages : Keep(k, m, f, u)
        BY <2>2, <3>3, <3>7 DEF AllKeep
      <4> QED
        BY <4>1, <4>2 DEF HasProgram, Keep
    <3> QED
      BY <2>2, <3>5, <3>6, <3>7 DEF f, D, L
  <2> QED
    BY <2>8, <2>9
<1> QED
  BY <1>4, <1>5

\* exec, when the machine goes on.
Execs(name) ==
  /\ curr # 0
  /\ pgdir' = [pgdir EXCEPT ![curr] = cr3'] /\ cr3' \notin Dirs
  /\ prog' = [prog EXCEPT ![curr] = name]
  /\ old_brk' = [old_brk EXCEPT ![curr] = 0]
  /\ gap' = [gap EXCEPT ![curr] = {}]
  /\ AllKeep(now, now', Dirs \ {cr3})
  /\ HasProgram(now', cr3', name)
  /\ UNCHANGED <<curr, status, brk>>

LEMMA ExecKeeps ==
  ASSUME IInv, NEW name \in DOMAIN Image, sys_exec(name)
  PROVE  /\ IInv' /\ fault' \in RunsOut
         /\ ok(now') => lost' = lost \cup Abandoned(now, cr3) /\ Execs(name)
<1> DEFINE m == exec_mem(name)
           f == fresh(now)
           L == lost \cup Abandoned(now, cr3)
<1>1. ok(now) /\ curr # 0 /\ curr \in Procs
  BY DEF sys_exec, in_user, IInv, TypeOK
<1>2. \/ /\ commit(m)
         /\ pgdir' = [pgdir EXCEPT ![curr] = f]
         /\ cr3' = f
         /\ prog' = [prog EXCEPT ![curr] = name]
         /\ old_brk' = [old_brk EXCEPT ![curr] = 0]
         /\ gap' = [gap EXCEPT ![curr] = {}]
         /\ UNCHANGED <<curr, status, brk, kstack>>
      \/ crash(m)
  BY DEF sys_exec
<1>3. /\ m \in Memory /\ m.fault \in RunsOut
      /\ ok(m) => /\ f \in Frames /\ f \notin Dirs
                  /\ Own(m, (Dirs \cup {f}) \ {cr3}, Stacks, L)
                  /\ AllKeep(now, m, Dirs \ {cr3})
                  /\ HasProgram(m, f, name)
  BY <1>1, ExecMemory
<1> HIDE DEF m, f, L
<1>4. CASE crash(m)
  BY <1>3, <1>4, CrashKeeps
<1>5. CASE /\ commit(m)
           /\ pgdir' = [pgdir EXCEPT ![curr] = f]
           /\ cr3' = f
           /\ prog' = [prog EXCEPT ![curr] = name]
           /\ old_brk' = [old_brk EXCEPT ![curr] = 0]
           /\ gap' = [gap EXCEPT ![curr] = {}]
           /\ UNCHANGED <<curr, status, brk, kstack>>
  <2>1. now' = m /\ ok(m) /\ fault' = "none"
    BY <1>3, <1>5, CommitNow
  <2>2. f \in Cells /\ f \in Frames /\ f \notin Dirs
    BY <1>3, <2>1, Sizes
  <2>3. TypeOK'
    <3>1. now' \in Memory
      BY <1>3, <2>1
    <3>2. 0 \in 0 .. stack * PGSIZE
      BY VmeAssumption DEF stack
    <3>3. old_brk' \in [Procs -> 0 .. stack * PGSIZE]
      BY <1>5, <3>2 DEF IInv, TypeOK
    <3>4. pgdir' \in [Procs -> Cells \cup {NULL}] /\ prog' \in [Procs -> DOMAIN Image]
      BY <1>5, <2>2 DEF IInv, TypeOK
    <3> QED
      BY <1>5, <2>2, <3>1, <3>3, <3>4 DEF IInv, TypeOK
  <2>4. used' = used /\ curr \in used /\ cr3 = pgdir[curr]
    BY <1>1, <1>5, Here DEF used, IInv, Running
  <2>5. /\ \A p \in used : p # curr => pgdir'[p] = pgdir[p]
        /\ pgdir'[curr] = f /\ kstack' = kstack
    BY <1>1, <1>5, <2>4 DEF used, IInv, TypeOK
  <2>6. OwnDirs /\ OwnStacks
    BY <1>1 DEF IInv, Running
  <2>7. \A p \in used : p # curr => pgdir[p] # cr3
    BY <2>4, <2>6 DEF OwnDirs
  <2>8. Dirs' = (Dirs \cup {f}) \ {cr3} /\ Stacks' = Stacks
    <3>1. cr3 \in Dirs
      BY <1>1, Here
    <3> QED
      BY <2>2, <2>4, <2>5, <2>7, <3>1 DEF Dirs, Stacks
  <2>9. OwnDirs' /\ OwnStacks'
    <3>1. \A p \in used : pgdir[p] # f
      BY <2>2 DEF Dirs
    <3> QED
      BY <2>4, <2>5, <2>6, <3>1 DEF OwnDirs, OwnStacks
  <2>10. Own(now', Dirs', Stacks', L)
    BY <1>3, <2>1, <2>8
  <2>11. status'[curr'] = "READY" /\ status'[0] = "READY" /\ pgdir'[0] = kpd /\ cr3' = pgdir'[curr']
    BY <1>1, <1>5, <2>5 DEF IInv, TypeOK, Running, Procs
  <2>12. IInv' /\ fault' \in RunsOut /\ lost' = L
    BY <2>1, <2>3, <2>9, <2>10, <2>11, RunsOn
  <2>13. Execs(name)
    BY <1>1, <1>3, <1>5, <2>1, <2>2 DEF Execs
  <2> QED
    BY <2>12, <2>13 DEF L
<1> QED
  BY <1>2, <1>4, <1>5

\* Rounding up to a page.
LEMMA PageUp ==
  ASSUME NEW k \in 0 .. stack, NEW a \in 0 .. k * PGSIZE
  PROVE  /\ PAGE_UP(a) \in {j * PGSIZE : j \in 0 .. k}
         /\ a <= PAGE_UP(a)
         /\ a = k * PGSIZE => PAGE_UP(a) = a
<1> DEFINE j == (a + PGSIZE - 1) \div PGSIZE
           r == (a + PGSIZE - 1) % PGSIZE
<1>1. PGSIZE \in Nat /\ PGSIZE >= 1 /\ k \in Nat /\ a \in Nat /\ k * PGSIZE \in Nat
  BY VmeAssumption DEF stack
<1>2. /\ a + PGSIZE - 1 = PGSIZE * j + r
      /\ r \in 0 .. PGSIZE - 1 /\ j \in Int
  BY <1>1
<1>3. PAGE_UP(a) = j * PGSIZE
  BY DEF PAGE_UP
<1> HIDE DEF j, r
<1>4. PGSIZE * j = j * PGSIZE /\ j * PGSIZE \in Int
  BY <1>1, <1>2
<1>5. a <= j * PGSIZE /\ j * PGSIZE < a + PGSIZE
  BY <1>1, <1>2, <1>4
<1>6. j * PGSIZE < k * PGSIZE + PGSIZE
  BY <1>1, <1>5, <1>4
<1>7. j >= 0
  BY <1>1, <1>2, <1>5
<1>8. j <= k
  <2>1. ASSUME j >= k + 1 PROVE FALSE
    <3>1. j * PGSIZE >= (k + 1) * PGSIZE
      BY <1>1, <1>2, <2>1
    <3>2. (k + 1) * PGSIZE = k * PGSIZE + PGSIZE
      BY <1>1
    <3> QED
      BY <1>1, <1>4, <1>6, <3>1, <3>2
  <2> QED
    BY <1>1, <1>2, <2>1
<1>9. ASSUME a = k * PGSIZE PROVE j = k
  <2>1. ASSUME j <= k - 1 PROVE FALSE
    <3>1. j * PGSIZE <= (k - 1) * PGSIZE
      BY <1>1, <1>2, <2>1
    <3>2. (k - 1) * PGSIZE = k * PGSIZE - PGSIZE
      BY <1>1
    <3> QED
      BY <1>1, <1>4, <1>5, <1>9, <3>1, <3>2
  <2> QED
    BY <1>1, <1>2, <1>8, <2>1
<1> QED
  BY <1>1, <1>2, <1>3, <1>5, <1>7, <1>8, <1>9

LEMMA DivPage ==
  ASSUME NEW k \in Nat
  PROVE  (k * PGSIZE) \div PGSIZE = k
<1>1. PGSIZE \in Nat /\ PGSIZE >= 1
  BY VmeAssumption
<1> QED
  BY <1>1

\* The pages from the a-th up to the b-th.
LEMMA RangePages ==
  ASSUME NEW a \in 0 .. stack, NEW b \in 0 .. stack, a <= b,
         NEW vs, vs = range(a * PGSIZE, b * PGSIZE)
  PROVE  vs \in Seq(Pages) /\ ToSet(vs) = a .. b - 1
<1>1. /\ PGSIZE \in Nat /\ PGSIZE >= 1 /\ stack \in Nat /\ a \in Nat /\ b \in Nat
      /\ b - a \in Nat
  BY VmeAssumption DEF stack
<1>2. b * PGSIZE - a * PGSIZE = (b - a) * PGSIZE
  BY <1>1
<1>3. (b * PGSIZE - a * PGSIZE) \div PGSIZE = b - a /\ (a * PGSIZE) \div PGSIZE = a
  BY <1>1, <1>2, DivPage
<1>4. vs = [i \in 1 .. b - a |-> a + i - 1]
  BY <1>3 DEF range
<1>5. \A i \in 1 .. b - a : a + i - 1 \in Pages
  BY <1>1 DEF Pages, stack
<1>6. vs \in Seq(Pages) /\ DOMAIN vs = 1 .. b - a
  <2>1. vs \in [1 .. b - a -> Pages]
    BY <1>4, <1>5
  <2>2. \E n \in Nat : vs \in [1 .. n -> Pages]
    BY <1>1, <2>1
  <2> QED
    BY <2>1, <2>2
<1>7. ToSet(vs) = {a + i - 1 : i \in 1 .. b - a}
  BY <1>4, <1>6 DEF ToSet
<1>8. \A v \in a .. b - 1 : v - a + 1 \in 1 .. b - a /\ a + (v - a + 1) - 1 = v
  BY <1>1
<1>9. \A i \in 1 .. b - a : a + i - 1 \in a .. b - 1
  BY <1>1
<1>10. ToSet(vs) \subseteq a .. b - 1
  BY <1>7, <1>9
<1>11. a .. b - 1 \subseteq ToSet(vs)
  BY <1>7, <1>8
<1> QED
  BY <1>6, <1>10, <1>11

\* What the caller lacks after a call of brk.
left(addr) ==
  {v \in gap[curr] : v < PAGE_UP(addr) \div PGSIZE}
    \cup skipped(old_brk[curr], PAGE_UP(addr))

\* brk, when the machine goes on: the break of the caller is PAGE_UP(addr), which is
\* the start of page k.
Brks(addr) ==
  /\ curr # 0
  /\ brk' = [brk EXCEPT ![curr] = PAGE_UP(addr)]
  /\ old_brk' = [old_brk EXCEPT ![curr] = addr]
  /\ gap' = [gap EXCEPT ![curr] = left(addr)]
  /\ UNCHANGED <<curr, status, cr3, pgdir, prog>>
  /\ \E i, k \in 0 .. stack :
       /\ brk[curr] = i * PGSIZE /\ PAGE_UP(addr) = k * PGSIZE
       /\ \/ (i = 0 \/ i = k) /\ now' = now
          \/ 0 < i /\ i < k /\ MapsPages(now, now', Dirs, cr3, i .. k - 1, TRUE)
          \/ k < i /\ UnmapsPages(now, now', Dirs, cr3, k .. i - 1)

LEMMA BrkMemory ==
  ASSUME IInv, ok(now), curr # 0, NEW i \in 0 .. stack, NEW k \in 0 .. stack,
         brk[curr] = i * PGSIZE,
         NEW addr, PAGE_UP(addr) = k * PGSIZE,
         NEW m, m = brk_mem(addr)
  PROVE  /\ m \in Memory /\ m.fault \in RunsOut
         /\ ok(m) => /\ Own(m, Dirs, Stacks, lost)
                     /\ \/ (i = 0 \/ i = k) /\ m = now
                        \/ 0 < i /\ i < k /\ MapsPages(now, m, Dirs, cr3, i .. k - 1, TRUE)
                        \/ k < i /\ UnmapsPages(now, m, Dirs, cr3, k .. i - 1)
<1>1. /\ PGSIZE \in Nat /\ PGSIZE >= 1 /\ i \in Nat /\ k \in Nat
      /\ i * PGSIZE \in Nat /\ k * PGSIZE \in Nat
  BY VmeAssumption DEF stack
<1>2. /\ i * PGSIZE = 0 <=> i = 0
      /\ k * PGSIZE = i * PGSIZE <=> k = i
      /\ k * PGSIZE > i * PGSIZE <=> k > i
  <2>1. (i * PGSIZE) \div PGSIZE = i /\ (k * PGSIZE) \div PGSIZE = k /\ 0 * PGSIZE = 0
    BY <1>1, DivPage
  <2>2. k > i => k * PGSIZE > i * PGSIZE
    BY <1>1
  <2>3. k < i => k * PGSIZE < i * PGSIZE
    BY <1>1
  <2>4. i > 0 => i * PGSIZE > 0
    BY <1>1
  <2>5. k = i => k * PGSIZE = i * PGSIZE
    OBVIOUS
  <2> QED
    BY <1>1, <2>1, <2>2, <2>3, <2>4, <2>5
<1>3. /\ Fine(now, Dirs, Stacks, lost) /\ cr3 \in Dirs /\ now \in Memory
      /\ Own(now, Dirs, Stacks, lost) /\ now.fault \in RunsOut
  BY Here DEF Fine
<1>4. CASE i = 0 \/ i = k
  <2>1. m = now
    BY <1>2, <1>4 DEF brk_mem
  <2> QED
    BY <1>3, <1>4, <2>1
<1>5. CASE 0 < i /\ i < k
  <2>1. m = vm_map(now, cr3, range(i * PGSIZE, k * PGSIZE), TRUE)
    <3> DEFINE b == i * PGSIZE
               new == k * PGSIZE
    <3>1. b \in Nat /\ new \in Nat /\ b # 0 /\ new # b /\ new > b
      BY <1>1, <1>2, <1>5
    <3>2. brk[curr] = b /\ PAGE_UP(addr) = new
      OBVIOUS
    <3> HIDE DEF b, new
    <3>3. m = vm_map(now, cr3, range(b, new), TRUE)
      BY <3>1, <3>2 DEF brk_mem
    <3> QED
      BY <3>3 DEF b, new
  <2>2. /\ range(i * PGSIZE, k * PGSIZE) \in Seq(Pages)
        /\ ToSet(range(i * PGSIZE, k * PGSIZE)) = i .. k - 1
    BY <1>1, <1>5, RangePages
  <2>3. Fine(m, Dirs, Stacks, lost) /\ (ok(m) => MapsPages(now, m, Dirs, cr3, i .. k - 1, TRUE))
    BY <1>3, <2>1, <2>2, MapDoes
  <2> QED
    BY <1>5, <2>3 DEF Fine
<1>6. CASE 0 < i /\ k < i
  <2>1. m = vm_unmap(now, cr3, range(k * PGSIZE, i * PGSIZE))
    <3> DEFINE b == i * PGSIZE
               new == k * PGSIZE
    <3>1. b \in Nat /\ new \in Nat /\ b # 0 /\ new # b /\ ~ (new > b)
      BY <1>1, <1>2, <1>6
    <3>2. brk[curr] = b /\ PAGE_UP(addr) = new
      OBVIOUS
    <3> HIDE DEF b, new
    <3>3. m = vm_unmap(now, cr3, range(new, b))
      BY <3>1, <3>2 DEF brk_mem
    <3> QED
      BY <3>3 DEF b, new
  <2>2. /\ range(k * PGSIZE, i * PGSIZE) \in Seq(Pages)
        /\ ToSet(range(k * PGSIZE, i * PGSIZE)) = k .. i - 1
    BY <1>1, <1>6, RangePages
  <2>3. Fine(m, Dirs, Stacks, lost) /\ (ok(m) => UnmapsPages(now, m, Dirs, cr3, k .. i - 1))
    BY <1>3, <2>1, <2>2, UnmapDoes
  <2> QED
    BY <1>6, <2>3 DEF Fine
<1>7. i = 0 \/ i = k \/ (0 < i /\ i < k) \/ (0 < i /\ k < i)
  OBVIOUS
<1> QED
  BY <1>4, <1>5, <1>6, <1>7

LEMMA BrkKeeps ==
  ASSUME IInv, ok(now), curr # 0, NEW addr \in 0 .. stack * PGSIZE, sys_brk(addr)
  PROVE  /\ IInv' /\ fault' \in RunsOut
         /\ ok(now') => lost' = lost /\ Brks(addr)
<1> DEFINE m == brk_mem(addr)
<1>1. \/ /\ commit(m)
         /\ brk' = [brk EXCEPT ![curr] = PAGE_UP(addr)]
         /\ old_brk' = [old_brk EXCEPT ![curr] = addr]
         /\ gap' = [gap EXCEPT ![curr] = left(addr)]
         /\ UNCHANGED <<curr, status, cr3, pgdir, kstack, prog>>
      \/ crash(m)
  BY DEF sys_brk, left
<1>2. stack \in Nat /\ curr \in Procs
  BY VmeAssumption DEF stack, IInv, TypeOK
<1>3. PICK i \in 0 .. stack : brk[curr] = i * PGSIZE
  BY <1>2 DEF IInv, TypeOK
<1>4. stack \in 0 .. stack
  BY <1>2
<1>5. PICK k \in 0 .. stack : PAGE_UP(addr) = k * PGSIZE
  BY <1>4, PageUp
<1>6. /\ m \in Memory /\ m.fault \in RunsOut
      /\ ok(m) => /\ Own(m, Dirs, Stacks, lost)
                  /\ \/ (i = 0 \/ i = k) /\ m = now
                     \/ 0 < i /\ i < k /\ MapsPages(now, m, Dirs, cr3, i .. k - 1, TRUE)
                     \/ k < i /\ UnmapsPages(now, m, Dirs, cr3, k .. i - 1)
  BY <1>3, <1>5, BrkMemory
<1> HIDE DEF m
<1>7. CASE crash(m)
  BY <1>6, <1>7, CrashKeeps
<1>8. CASE /\ commit(m)
           /\ brk' = [brk EXCEPT ![curr] = PAGE_UP(addr)]
           /\ old_brk' = [old_brk EXCEPT ![curr] = addr]
           /\ gap' = [gap EXCEPT ![curr] = left(addr)]
           /\ UNCHANGED <<curr, status, cr3, pgdir, kstack, prog>>
  <2>1. now' = m /\ ok(m) /\ fault' = "none"
    BY <1>6, <1>8, CommitNow
  <2>2. TypeOK'
    <3>1. now' \in Memory
      BY <1>6, <2>1
    <3>2. old_brk' \in [Procs -> 0 .. stack * PGSIZE]
      BY <1>8 DEF IInv, TypeOK
    <3>3. brk' \in [Procs -> {j * PGSIZE : j \in 0 .. stack}]
      BY <1>5, <1>8 DEF IInv, TypeOK
    <3> QED
      BY <1>8, <3>1, <3>2, <3>3 DEF IInv, TypeOK
  <2>3. used' = used /\ Dirs' = Dirs /\ Stacks' = Stacks
    BY <1>8 DEF used, Dirs, Stacks
  <2>4. OwnDirs' /\ OwnStacks'
    BY <1>8, <2>3 DEF IInv, Running, OwnDirs, OwnStacks
  <2>5. Own(now', Dirs', Stacks', lost)
    BY <1>6, <2>1, <2>3
  <2>6. status'[curr'] = "READY" /\ status'[0] = "READY" /\ pgdir'[0] = kpd /\ cr3' = pgdir'[curr']
    BY <1>8 DEF IInv, Running
  <2>7. IInv' /\ fault' \in RunsOut /\ lost' = lost
    BY <2>1, <2>2, <2>4, <2>5, <2>6, RunsOn
  <2>8. Brks(addr)
    BY <1>3, <1>5, <1>6, <1>8, <2>1 DEF Brks
  <2> QED
    BY <2>7, <2>8
<1> QED
  BY <1>1, <1>7, <1>8

\* store, when the machine goes on: one page of the running process changes.
Stores(v, x) ==
  /\ curr # 0
  /\ Mapped(now, cr3, v)
  /\ Writes(now, now', Dirs, cr3, v, x)
  /\ UNCHANGED <<curr, status, cr3, pgdir, brk, prog, old_brk, gap>>

LEMMA StoreKeeps ==
  ASSUME IInv, NEW v \in Pages, NEW x \in Bytes, store(v, x)
  PROVE  /\ IInv'
         /\ ok(now') => lost' = lost /\ Stores(v, x)
<1> DEFINE m == IF pte(now, cr3, v).p /\ pte(now, cr3, v).w
                THEN put(now, cr3, v, x) ELSE stop(now, "pgfault")
<1>1. ok(now) /\ curr # 0
  BY DEF store, in_user
<1>2. \/ /\ commit(m)
         /\ UNCHANGED <<curr, status, cr3, pgdir, kstack, brk, prog, old_brk, gap>>
      \/ crash(m)
  BY DEF store
<1>3. /\ m \in Memory /\ m.fault \in RunsOut \cup {"pgfault"}
      /\ ok(m) => /\ Mapped(now, cr3, v) /\ Own(m, Dirs, Stacks, lost)
                  /\ Writes(now, m, Dirs, cr3, v, x)
  <2>1. /\ cr3 \in Dirs /\ cr3 \in Cells /\ now \in Memory
        /\ Own(now, Dirs, Stacks, lost)
    BY <1>1, Here, Sizes
  <2>2. CASE pte(now, cr3, v).p /\ pte(now, cr3, v).w
    <3>1. Mapped(now, cr3, v)
      BY <2>1, <2>2, PteIsSlot
    <3>2. x \in Contents /\ m = put(now, cr3, v, x)
      BY <2>2 DEF Contents
    <3>3. ok(m) /\ Own(m, Dirs, Stacks, lost) /\ Writes(now, m, Dirs, cr3, v, x)
      BY <1>1, <2>1, <3>1, <3>2, PutDoes
    <3>4. m \in Memory
      BY <2>1, <3>2, PutType
    <3> QED
      BY <3>1, <3>3, <3>4 DEF ok, RunsOut
  <2>3. CASE ~ (pte(now, cr3, v).p /\ pte(now, cr3, v).w)
    <3>1. m = stop(now, "pgfault") /\ "pgfault" \in Faults
      BY <2>3 DEF Faults
    <3>2. m \in Memory
      BY <2>1, <3>1, StopType
    <3>3. m.fault = "pgfault"
      BY <2>1, <3>1 DEF stop, Memory
    <3> QED
      BY <3>2, <3>3 DEF ok
  <2> QED
    BY <2>2, <2>3
<1> HIDE DEF m
<1>4. CASE crash(m)
  BY <1>3, <1>4, CrashKeeps
<1>5. CASE /\ commit(m)
           /\ UNCHANGED <<curr, status, cr3, pgdir, kstack, brk, prog, old_brk, gap>>
  <2>1. now' = m /\ ok(m) /\ fault' = "none"
    BY <1>3, <1>5, CommitNow
  <2>2. TypeOK'
    BY <1>3, <1>5, <2>1 DEF IInv, TypeOK
  <2>3. used' = used /\ Dirs' = Dirs /\ Stacks' = Stacks
    BY <1>5 DEF used, Dirs, Stacks
  <2>4. OwnDirs' /\ OwnStacks'
    BY <1>1, <1>5, <2>3 DEF IInv, Running, OwnDirs, OwnStacks
  <2>5. Own(now', Dirs', Stacks', lost)
    BY <1>3, <2>1, <2>3
  <2>6. status'[curr'] = "READY" /\ status'[0] = "READY" /\ pgdir'[0] = kpd /\ cr3' = pgdir'[curr']
    BY <1>1, <1>5 DEF IInv, Running
  <2>7. IInv' /\ fault' \in RunsOut /\ lost' = lost
    BY <2>1, <2>2, <2>4, <2>5, <2>6, RunsOn
  <2>8. Stores(v, x)
    BY <1>1, <1>3, <1>5, <2>1 DEF Stores
  <2> QED
    BY <2>7, <2>8
<1> QED
  BY <1>2, <1>4, <1>5

-----------------------------------------------------------------------------
(***************************************************************************)
(* The boot.                                                               *)
(***************************************************************************)

\* init_page puts every frame on the free list.
LEMMA BootOwn ==
  /\ boot \in Memory /\ ok(boot) /\ Own(boot, {}, {}, {})
  /\ boot.free \in Seq(Cells) /\ Len(boot.free) = NPAGES
<1> DEFINE o == [f \in Frames |-> place("free", 0, 0, 0)]
<1>1. NPAGES \in Nat
  BY VmeAssumption
<1>2. \A i \in 1 .. NPAGES : i - 1 \in Frames /\ i - 1 \in Cells
  BY <1>1 DEF Frames, Cells
<1>3. boot.free = [i \in 1 .. NPAGES |-> i - 1] /\ boot.fault = "none"
  BY DEF boot
<1>4. boot.free \in [1 .. NPAGES -> Cells]
  BY <1>2, <1>3
<1>5. boot.free \in Seq(Cells) /\ Len(boot.free) = NPAGES
  BY <1>1, <1>4
<1>6. \A f \in Cells : boot.mem[f] = IF f = kpd THEN [zeroed EXCEPT !.kern = TRUE] ELSE zeroed
  BY Sizes DEF boot
<1>7. [zeroed EXCEPT !.kern = TRUE] \in Content
  BY ZeroedType DEF Content
<1>8. boot.mem \in [Cells -> Content]
  <2>1. boot.mem = [f \in Cells |-> IF f = kpd THEN [zeroed EXCEPT !.kern = TRUE] ELSE zeroed]
    BY Sizes DEF boot
  <2> QED
    BY <1>7, <2>1, ZeroedType
<1>9. boot \in Memory
  <2>1. boot = [free |-> boot.free, mem |-> boot.mem, fault |-> boot.fault]
    BY DEF boot
  <2> QED
    BY <1>3, <1>5, <1>8, <2>1 DEF Memory, Faults
<1>10. boot.mem[kpd].kern
  BY <1>6, Sizes DEF zeroed
<1>11. \A f \in Frames : o[f] = place("free", 0, 0, 0)
  OBVIOUS
<1> HIDE DEF o
<1>12. FreeOwned(boot, o)
  BY <1>1, <1>2, <1>3, <1>5, <1>11 DEF FreeOwned, place
<1>13. FreeOnce(boot)
  BY <1>1, <1>3, <1>5 DEF FreeOnce
<1>14. \A f \in Frames : InPlace(boot, {}, {}, {}, o, f)
  <2>1. ASSUME NEW f \in Frames PROVE \E i \in 1 .. Len(boot.free) : boot.free[i] = f
    <3>1. f + 1 \in 1 .. NPAGES /\ boot.free[f + 1] = f
      BY <1>1, <1>3 DEF Frames
    <3> QED
      BY <1>5, <3>1
  <2> QED
    BY <1>11, <2>1 DEF InPlace, place
<1>15. Owned(boot, {}, {}, {}, o)
  BY <1>10, <1>12, <1>13, <1>14
     DEF Owned, HoldersOwned, TablesOwned, PagesOwned, KernelMapped
<1> QED
  BY <1>3, <1>5, <1>9, <1>15 DEF Own, ok

\* init_user_and_go: the first program runs in a space of its own.
LEMMA BootMemory ==
  ASSUME NEW m, m = load_user(kalloc(vm_alloc(boot)), 0, FirstProg)
  PROVE  /\ m \in Memory /\ m.fault \in RunsOut
         /\ ok(m) => /\ 0 \in Frames /\ 1 \in Frames
                     /\ Own(m, {0}, {1}, {})
                     /\ HasProgram(m, 0, FirstProg)
<1> DEFINE m1 == vm_alloc(boot)
           m2 == kalloc(m1)
<1>1. boot \in Memory /\ ok(boot) /\ Own(boot, {}, {}, {})
  BY BootOwn
<1>2. m1 \in Memory /\ m2 \in Memory
  BY <1>1, VmAllocType, KallocType
<1>3. /\ m1.fault \in RunsOut
      /\ ok(m1) => /\ fresh(boot) \in Frames /\ Own(m1, {} \cup {fresh(boot)}, {}, {})
                   /\ \A u \in Pages : ~ Mapped(m1, fresh(boot), u)
  BY <1>1, VmAllocDoes
<1>4. NPAGES \in Nat /\ 0 \in Cells /\ FirstProg \in DOMAIN Image
  BY VmeAssumption, Sizes
<1>5. ok(m2) => ok(m1)
  BY <1>2, KallocType
<1>6. ASSUME ok(m2) PROVE fresh(boot) = 0 /\ fresh(m1) = 1
  <2>1. ok(m1) /\ ok(kalloc(boot))
    BY <1>1, <1>5, <1>6, VmAllocType
  <2>2. boot.free # <<>> /\ kalloc(boot).free = Tail(boot.free)
    BY <1>1, <2>1, KallocType
  <2>3. m1.free = Tail(boot.free)
    <3>1. m1 = [kalloc(boot) EXCEPT !.mem[fresh(boot)].kern = TRUE]
      BY <2>1 DEF vm_alloc
    <3>2. kalloc(boot) \in Memory
      BY <1>1, KallocType
    <3> QED
      BY <2>2, <3>1, <3>2 DEF Memory
  <2>4. m1.free # <<>>
    BY <1>2, <1>6, KallocType
  <2>5. boot.free = [i \in 1 .. NPAGES |-> i - 1]
    BY DEF boot
  <2>6. boot.free \in Seq(Cells) /\ Len(boot.free) = NPAGES
    BY BootOwn
  <2>7. NPAGES >= 2
    BY <1>4, <2>2, <2>3, <2>4, <2>6
  <2>8. Head(boot.free) = 0 /\ Head(Tail(boot.free)) = 1
    BY <1>4, <2>5, <2>6, <2>7
  <2> QED
    BY <2>3, <2>8 DEF fresh
<1> HIDE DEF m1, m2
<1>7. CASE ~ ok(m2)
  <2>1. m2.fault \in RunsOut
    <3>1. CASE ~ ok(m1)
      BY <1>2, <1>3, <3>1, Stopped DEF m2
    <3>2. CASE ok(m1)
      <4>1. Own(m1, {} \cup {fresh(boot)}, {}, {})
        BY <1>3, <3>2
      <4> QED
        BY <1>2, <3>2, <4>1, KallocDoes DEF m2
    <3> QED
      BY <3>1, <3>2
  <2>2. /\ m2 \in Memory /\ m2.fault # "none"
        /\ FromFree(m2, m2, 0) => FromFree(m2, m, 0)
    BY <1>2, <1>4, <1>7, LoadUserFromFree DEF ok, m1, m2
  <2>3. ASSUME NEW n \in Memory, ~ ok(n) PROVE load_user(n, 0, FirstProg) = n
    <3>1. PICK done : /\ done[0] = n
                      /\ \A k \in 1 .. Len(Image[FirstProg].pages) :
                           done[k] = load_page(done[k - 1], 0, Image[FirstProg].pages[k].v,
                                               Image[FirstProg].pages[k].w, FirstProg)
                      /\ load_segs(n, 0, FirstProg) = done[Len(Image[FirstProg].pages)]
      BY <1>4, LoadRounds
    <3>2. Len(Image[FirstProg].pages) \in Nat
      BY <1>4, VmeAssumption
    <3> DEFINE good == {k \in 0 .. Len(Image[FirstProg].pages) : done[k] = n}
    <3>3. 0 \in good
      BY <3>1, <3>2
    <3>4. \A k \in 1 .. Len(Image[FirstProg].pages) : k - 1 \in good => k \in good
      BY <2>3, <3>1, <3>2, Stopped
    <3> HIDE DEF good
    <3>5. \A k \in 0 .. Len(Image[FirstProg].pages) : k \in good
      BY <3>2, <3>3, <3>4, RoundByRound
    <3>6. Len(Image[FirstProg].pages) \in good
      BY <3>2, <3>5
    <3>7. load_segs(n, 0, FirstProg) = n
      BY <3>1, <3>6 DEF good
    <3>8. \A pd, v, w, x : load_page(n, pd, v, w, x) = n
      BY <2>3, Stopped
    <3>9. load_page(n, 0, stack, TRUE, "args") = n
      BY Zenon, <3>8
    <3> QED
      BY <3>7, <3>9 DEF load_user
  <2>4. m = m2
    BY <1>2, <1>7, <2>3 DEF m1, m2
  <2> QED
    BY <1>2, <1>7, <2>1, <2>4
<1>8. CASE ok(m2)
  <2>1. ok(m1) /\ fresh(boot) = 0 /\ fresh(m1) = 1
    BY <1>5, <1>6, <1>8
  <2>2. 0 \in Frames /\ Own(m1, {0}, {}, {}) /\ \A u \in Pages : ~ Mapped(m1, 0, u)
    <3>1. {} \cup {0} = {0}
      OBVIOUS
    <3> QED
      BY <1>3, <2>1, <3>1
  <2>3. /\ m2.fault \in RunsOut
        /\ 1 \in Frames /\ Own(m2, {0}, {} \cup {fresh(m1)}, {}) /\ AllKeep(m1, m2, {0})
    BY <1>2, <1>8, <2>1, <2>2, KallocDoes DEF m2
  <2>4. Own(m2, {0}, {1}, {})
    <3>1. {} \cup {1} = {1}
      OBVIOUS
    <3> QED
      BY <2>1, <2>3, <3>1
  <2>5. Fine(m2, {0}, {1}, {})
    BY <1>2, <2>3, <2>4, FineOwn
  <2>6. 0 \in {0} /\ \A u \in Pages : ~ Mapped(m2, 0, u)
    BY <2>2, <2>3 DEF AllKeep, Keep
  <2> DEFINE Z == {0}
  <2>7. 0 \in Z /\ Fine(m2, Z, {1}, {})
    BY <2>5
  <2>8. m = load_user(m2, 0, FirstProg)
    BY DEF m1, m2
  <2> HIDE DEF Z
  <2>9. Fine(m, Z, {1}, {}) /\ (ok(m) => LoadsProgram(m2, m, Z, 0, FirstProg))
    BY <1>4, <2>6, <2>7, <2>8, LoadUserDoes
  <2>10. /\ m \in Memory /\ m.fault \in RunsOut
         /\ ok(m) => Own(m, Z, {1}, {}) /\ HasProgram(m, 0, FirstProg)
    BY <2>9 DEF Fine, LoadsProgram, HasProgram
  <2> QED
    BY <2>2, <2>3, <2>10 DEF Z
<1> QED
  BY <1>7, <1>8

LEMMA InitInv ==
  ASSUME Init
  PROVE  IInv /\ (ok(now) => /\ HasProgram(now, pgdir[1], FirstProg) /\ lost = {}
                             /\ used = {1})
<1> DEFINE m == load_user(kalloc(vm_alloc(boot)), 0, FirstProg)
<1>1. /\ m \in Memory /\ m.fault \in RunsOut
      /\ ok(m) => /\ 0 \in Frames /\ 1 \in Frames
                  /\ Own(m, {0}, {1}, {})
                  /\ HasProgram(m, 0, FirstProg)
  BY BootMemory
<1>2. /\ curr = 0 /\ cr3 = kpd
      /\ status = [p \in Procs |-> IF p <= 1 THEN "READY" ELSE "UNUSED"]
      /\ pgdir = [p \in Procs |-> IF p = 0 THEN kpd ELSE IF p = 1 THEN 0 ELSE NULL]
      /\ kstack = [p \in Procs |-> IF p = 1 THEN 1 ELSE NULL]
      /\ brk = [p \in Procs |-> 0]
      /\ free_page_list = m.free /\ mem = m.mem /\ fault = m.fault
      /\ prog = [p \in Procs |-> FirstProg]
      /\ old_brk = [p \in Procs |-> 0]
      /\ gap = [p \in Procs |-> {}]
  BY DEF Init
<1> HIDE DEF m
<1>3. now = m
  BY <1>1, <1>2 DEF now, Memory
<1>4. 0 \in Procs /\ 1 \in Procs /\ Procs \subseteq Nat /\ stack \in Nat /\ PGSIZE \in Nat
  BY VmeAssumption DEF Procs, stack
<1>5. TypeOK
  <2>1. kpd \in Cells /\ 0 \in Cells
    BY Sizes
  <2>2. 0 = 0 * PGSIZE /\ 0 \in 0 .. stack /\ 0 \in 0 .. stack * PGSIZE
    BY <1>4
  <2>3. status \in [Procs -> {"UNUSED", "READY", "ZOMBIE"}] /\ FirstProg \in DOMAIN Image
    BY <1>2, VmeAssumption
  <2>4. brk \in [Procs -> {k * PGSIZE : k \in 0 .. stack}]
    BY <1>2, <2>2
  <2>5. /\ pgdir \in [Procs -> Cells \cup {NULL}]
        /\ kstack \in [Procs -> Nat \cup {NULL}]
    BY <1>2, <2>1
  <2>6. /\ prog \in [Procs -> DOMAIN Image]
        /\ old_brk \in [Procs -> 0 .. stack * PGSIZE]
        /\ DOMAIN gap = Procs
    BY <1>2, <2>2, <2>3
  <2> QED
    BY <1>1, <1>2, <1>3, <1>4, <2>1, <2>3, <2>4, <2>5, <2>6 DEF TypeOK
<1>6. used = {1}
  <2>1. ASSUME NEW p \in Procs \ {0} PROVE status[p] # "UNUSED" <=> p = 1
    <3>1. p <= 1 <=> p = 1
      BY <1>4
    <3>2. status[p] = IF p <= 1 THEN "READY" ELSE "UNUSED"
      BY <1>2
    <3> QED
      BY <3>1, <3>2
  <2>2. 1 \in Procs \ {0}
    BY <1>4
  <2>3. \A p : p \in used <=> p = 1
    BY <2>1, <2>2 DEF used
  <2> QED
    BY <2>3
<1>7. Dirs = {0} /\ Stacks = {1} /\ pgdir[1] = 0 /\ OwnDirs /\ OwnStacks
  BY <1>2, <1>4, <1>6 DEF Dirs, Stacks, OwnDirs, OwnStacks
<1>8. ASSUME ok(now) PROVE Running /\ HasProgram(now, pgdir[1], FirstProg) /\ lost = {}
  <2>1. Own(now, Dirs, Stacks, {}) /\ HasProgram(now, pgdir[1], FirstProg)
    BY <1>1, <1>3, <1>7, <1>8
  <2>2. lost = {}
    BY <1>1, <1>3, <2>1, LostIs
  <2>3. status[curr] = "READY" /\ status[0] = "READY" /\ pgdir[0] = kpd /\ cr3 = pgdir[curr]
    BY <1>2, <1>4
  <2> QED
    BY <1>7, <2>1, <2>2, <2>3 DEF Running
<1> QED
  BY <1>1, <1>2, <1>5, <1>6, <1>8 DEF IInv

-----------------------------------------------------------------------------
(***************************************************************************)
(* Every step.                                                             *)
(***************************************************************************)

\* The addresses that the user library passes to brk lie below the stack.
LEMMA HeapStart ==
  ASSUME TypeOK, NEW p \in Procs
  PROVE  /\ Image[prog[p]].end \in 1 .. stack
         /\ heap_start(p) \in 0 .. stack * PGSIZE
         /\ heap_start(p) >= PGSIZE
         /\ PAGE_UP(heap_start(p)) = heap_start(p)
<1> DEFINE e == Image[prog[p]].end
<1>1. e \in 1 .. stack
  BY VmeAssumption DEF TypeOK
<1>2. PGSIZE \in Nat /\ PGSIZE >= 1 /\ stack \in Nat
  BY VmeAssumption DEF stack
<1>3. heap_start(p) = e * PGSIZE
  BY DEF heap_start
<1> HIDE DEF e
<1>4. e * PGSIZE \in Nat /\ e * PGSIZE >= PGSIZE /\ e * PGSIZE <= stack * PGSIZE /\ stack * PGSIZE \in Nat
  BY <1>1, <1>2
<1>5. PAGE_UP(e * PGSIZE) = e * PGSIZE
  <2>1. e \in 0 .. stack /\ e * PGSIZE \in 0 .. e * PGSIZE
    BY <1>1, <1>2, <1>4
  <2> DEFINE a == e * PGSIZE
  <2>2. a \in 0 .. e * PGSIZE /\ a = e * PGSIZE
    BY <2>1
  <2> HIDE DEF a
  <2>3. PAGE_UP(a) = a
    BY <2>1, <2>2, PageUp
  <2> QED
    BY <2>3 DEF a
<1>6. e * PGSIZE \in 0 .. stack * PGSIZE
  BY <1>4
<1> QED
  BY <1>1, <1>3, <1>4, <1>5, <1>6 DEF e

\* A call of brk that a program makes.
Sbrks(addr) ==
  /\ ok(now) /\ curr # 0
  /\ addr \in heap_start(curr) .. stack * PGSIZE
  /\ old_brk[curr] = 0 => addr = heap_start(curr)
  /\ sys_brk(addr)

LEMMA SbrkIs ==
  ASSUME IInv, sbrk_first \/ \E inc \in Increments : sbrk(inc)
  PROVE  \E addr \in 0 .. stack * PGSIZE : Sbrks(addr)
<1>1. /\ curr \in Procs /\ heap_start(curr) \in 0 .. stack * PGSIZE
      /\ heap_start(curr) >= PGSIZE /\ stack * PGSIZE \in Nat /\ PGSIZE \in Nat
  <2>1. curr \in Procs /\ PGSIZE \in Nat /\ stack \in Nat
    BY VmeAssumption DEF IInv, TypeOK, stack
  <2> QED
    BY <2>1, HeapStart DEF IInv
<1>2. CASE sbrk_first
  <2>1. Sbrks(heap_start(curr))
    BY <1>1, <1>2 DEF sbrk_first, Sbrks, in_user
  <2> QED
    BY <1>1, <2>1
<1>3. ASSUME NEW inc \in Increments, sbrk(inc)
      PROVE  \E addr \in 0 .. stack * PGSIZE : Sbrks(addr)
  <2> DEFINE addr == old_brk[curr] + inc
  <2>1. addr \in heap_start(curr) .. stack * PGSIZE /\ sys_brk(addr) /\ ok(now) /\ curr # 0
        /\ old_brk[curr] # 0
    BY <1>3 DEF sbrk, in_user
  <2> HIDE DEF addr
  <2>2. addr \in 0 .. stack * PGSIZE
    BY <1>1, <2>1
  <2>3. Sbrks(addr)
    BY <2>1 DEF Sbrks
  <2> QED
    BY <2>2, <2>3
<1> QED
  BY <1>2, <1>3

\* What lost becomes in a step.
LostChanges ==
  lost' = IF curr' = curr /\ cr3' # cr3
          THEN lost \cup {t[2] : t \in tables_of(cr3) \cup pages_of(cr3)}
          ELSE lost

LEMMA StutterKeeps ==
  ASSUME IInv, UNCHANGED vars
  PROVE  IInv' /\ (ok(now') => lost' = lost)
<1>1. /\ curr' = curr /\ status' = status /\ cr3' = cr3 /\ pgdir' = pgdir /\ kstack' = kstack
      /\ brk' = brk /\ free_page_list' = free_page_list /\ mem' = mem /\ fault' = fault
      /\ prog' = prog /\ old_brk' = old_brk /\ gap' = gap
  BY DEF vars
<1>2. now' = now
  BY <1>1 DEF now
<1>3. TypeOK'
  BY <1>1, <1>2 DEF IInv, TypeOK
<1>4. CASE ok(now)
  <2>1. used' = used /\ Dirs' = Dirs /\ Stacks' = Stacks
    BY <1>1 DEF used, Dirs, Stacks
  <2>2. OwnDirs' /\ OwnStacks'
    BY <1>1, <1>4, <2>1 DEF IInv, Running, OwnDirs, OwnStacks
  <2>3. Own(now', Dirs', Stacks', lost)
    BY <1>2, <1>4, <2>1 DEF IInv, Running
  <2>4. status'[curr'] = "READY" /\ status'[0] = "READY" /\ pgdir'[0] = kpd /\ cr3' = pgdir'[curr']
    BY <1>1, <1>4 DEF IInv, Running
  <2>5. fault' = "none"
    BY <1>1, <1>4 DEF ok, now
  <2> QED
    BY <1>3, <2>2, <2>3, <2>4, <2>5, RunsOn
<1>5. CASE ~ ok(now)
  BY <1>1, <1>2, <1>3, <1>5 DEF IInv
<1> QED
  BY <1>4, <1>5

LEMMA StepKeeps ==
  ASSUME Paths \subseteq DOMAIN Image, IInv, [Next]_vars
  PROVE  IInv' /\ (ok(now') => LostChanges)
<1>1. ASSUME NEW p \in Procs, schedule(p) PROVE IInv' /\ (ok(now') => LostChanges)
  <2>1. IInv' /\ lost' = lost /\ (curr' = curr => cr3' = cr3)
    BY <1>1, ScheduleKeeps
  <2> QED
    BY <2>1 DEF LostChanges
<1>2. ASSUME NEW p \in Procs, proc_free(p) PROVE IInv' /\ (ok(now') => LostChanges)
  <2>1. IInv' /\ (ok(now') => lost' = lost /\ cr3' = cr3)
    BY <1>2, ReapKeeps DEF Reaps
  <2> QED
    BY <2>1 DEF LostChanges
<1>3. ASSUME sys_fork PROVE IInv' /\ (ok(now') => LostChanges)
  <2>1. IInv' /\ (ok(now') => lost' = lost /\ cr3' = cr3)
    BY <1>3, ForkKeeps DEF Forks
  <2> QED
    BY <2>1 DEF LostChanges
<1>4. ASSUME sys_exit PROVE IInv' /\ (ok(now') => LostChanges)
  <2>1. IInv' /\ lost' = lost /\ curr' # curr
    BY <1>4, ExitKeeps
  <2> QED
    BY <2>1 DEF LostChanges
<1>5. ASSUME NEW name \in Paths, sys_exec(name) PROVE IInv' /\ (ok(now') => LostChanges)
  <2>1. ok(now) /\ curr # 0 /\ name \in DOMAIN Image
    BY <1>5 DEF sys_exec, in_user
  <2>2. IInv' /\ (ok(now') => lost' = lost \cup Abandoned(now, cr3) /\ Execs(name))
    BY <1>5, <2>1, ExecKeeps
  <2>3. cr3 \in Dirs /\ cr3 \in Cells /\ now \in Memory
    BY <2>1, Here
  <2>4. Abandoned(now, cr3) = {t[2] : t \in tables_of(cr3) \cup pages_of(cr3)}
    BY <2>3, AbandonedIs
  <2> QED
    BY <2>2, <2>3, <2>4 DEF Execs, LostChanges
<1>6. ASSUME sbrk_first \/ \E inc \in Increments : sbrk(inc)
      PROVE  IInv' /\ (ok(now') => LostChanges)
  <2>1. PICK addr \in 0 .. stack * PGSIZE : Sbrks(addr)
    BY <1>6, SbrkIs
  <2>2. IInv' /\ (ok(now') => lost' = lost /\ Brks(addr))
    BY <2>1, BrkKeeps DEF Sbrks
  <2> QED
    BY <2>2 DEF Brks, LostChanges
<1>7. ASSUME NEW v \in Pages, NEW x \in Bytes, store(v, x)
      PROVE  IInv' /\ (ok(now') => LostChanges)
  <2>1. IInv' /\ (ok(now') => lost' = lost /\ Stores(v, x))
    BY <1>7, StoreKeeps
  <2> QED
    BY <2>1 DEF Stores, LostChanges
<1>8. ASSUME UNCHANGED vars PROVE IInv' /\ (ok(now') => LostChanges)
  <2>1. IInv' /\ (ok(now') => lost' = lost) /\ cr3' = cr3
    BY <1>8, StutterKeeps DEF vars
  <2> QED
    BY <2>1 DEF LostChanges
<1>9. stopped => UNCHANGED vars
  BY DEF stopped
<1> QED
  BY <1>1, <1>2, <1>3, <1>4, <1>5, <1>6, <1>7, <1>8, <1>9 DEF Next

-----------------------------------------------------------------------------
(***************************************************************************)
(* Theorems.  Programs pass names of programs that exist to exec.          *)
(***************************************************************************)

\* Every frame of the kernel heap has one owner, whatever sequence of fork, exec,
\* brk, exit and wait is made.
LEMMA Invariant ==
  ASSUME Paths \subseteq DOMAIN Image
  PROVE  Spec => []IInv
<1>1. Init => IInv
  BY InitInv
<1>2. IInv /\ [Next]_vars => IInv'
  BY StepKeeps
<1> QED
  BY <1>1, <1>2, PTL DEF Spec

\* No frame is used twice, and none that is used is on the free list (vme.c: kalloc,
\* kfree, vm_unmap, vm_teardown; proc.c: proc_free).
THEOREM FramesOwnedOnce ==
  ASSUME Paths \subseteq DOMAIN Image
  PROVE  Spec => []OneOwner
<1>1. IInv => OneOwner
  BY Here, OwnersCounted DEF IInv, Running, OneOwner
<1> QED
  BY <1>1, Invariant, PTL

\* The CPU uses the directory of the running process, and schedule never loads a
\* directory that does not map the kernel (proc.c: proc_run; syscall.c: sys_exec).
THEOREM RunsInItsOwnSpace ==
  ASSUME Paths \subseteq DOMAIN Image
  PROVE  Spec => []CurrentSpace
<1>1. IInv => CurrentSpace
  BY KernelThere DEF IInv, Running, CurrentSpace, live
<1> QED
  BY <1>1, Invariant, PTL

\* A step loses the tables and pages of the old space if it is an exec, and no frame
\* otherwise (syscall.c: sys_exec frees the old directory only; proc_free and
\* vm_unmap free all they should).
THEOREM OnlyExecLosesPages ==
  ASSUME Paths \subseteq DOMAIN Image
  PROVE  Spec => PagesConserved
<1>1. ASSUME IInv, [Next]_vars
      PROVE  [ok(now)' => lost' = IF curr' = curr /\ cr3' # cr3
                         THEN lost \cup {t[2] : t \in tables_of(cr3) \cup pages_of(cr3)}
                         ELSE lost]_vars
  <2>1. ok(now)' = ok(now')
    BY DEF ok
  <2> QED
    BY <1>1, <2>1, StepKeeps DEF LostChanges
<1> QED
  BY <1>1, Invariant, PTL DEF Spec, PagesConserved

\* The kernel never frees a frame twice and never loses its own mapping: the machine
\* stops only when it has run out of frames, or when a program faults.
THEOREM NoDoubleFree ==
  ASSUME Paths \subseteq DOMAIN Image
  PROVE  Spec => [](fault \in RunsOut \cup {"pgfault"})
<1>1. IInv => fault \in RunsOut \cup {"pgfault"}
  BY DEF IInv
<1> QED
  BY <1>1, Invariant, PTL

-----------------------------------------------------------------------------
(***************************************************************************)
(* What is mapped in a space.                                              *)
(***************************************************************************)

Writable(m, q, u) == Mapped(m, q, u) /\ Slot(m, q, u).w

\* u is a page of a segment that the program may write.
Data(name, u) == \E s \in ToSet(Image[name].pages) : s.v = u /\ s.w

\* The heap of a program that ends at page e ends at page k, where the kernel and
\* the user library agree on it once the library has asked for it, unless the kernel
\* does not know the break.
BreakAt(ob, b, e, k) ==
  /\ e <= k /\ k <= stack
  /\ ob = 0 => k = e
  /\ ob # 0 => PAGE_UP(ob) = k * PGSIZE /\ (b = 0 \/ b = k * PGSIZE)

\* The space q is that of the program with a heap up to page k, but for the pages g.
SpaceUpTo(m, q, name, k, g) ==
  \A u \in Pages :
    u \in (Image[name].end .. k - 1) \ g \/ u = stack \/ Data(name, u) => Writable(m, q, u)

Laid(p) ==
  \E k \in 0 .. stack :
    /\ BreakAt(old_brk[p], brk[p], Image[prog[p]].end, k)
    /\ SpaceUpTo(now, pgdir[p], prog[p], k, gap[p])

HInv == ok(now) => \A p \in live : Laid(p)

LEMMA ProgramEnd ==
  ASSUME NEW name \in DOMAIN Image
  PROVE  Image[name].end \in 1 .. stack /\ stack \in Nat /\ Image[name].end \in Nat
<1>1. stack \in Nat
  BY VmeAssumption DEF stack
<1>2. Image[name].end \in 1 .. stack
  BY VmeAssumption
<1> QED
  BY <1>1, <1>2

LEMMA CancelPage ==
  ASSUME NEW i \in Nat, NEW k \in Nat
  PROVE  /\ i * PGSIZE \in Nat
         /\ i * PGSIZE = k * PGSIZE => i = k
         /\ i * PGSIZE <= k * PGSIZE => i <= k
<1>1. PGSIZE \in Nat /\ PGSIZE >= 1
  BY VmeAssumption
<1>2. k + 1 <= i => (k + 1) * PGSIZE <= i * PGSIZE
  BY <1>1
<1>3. (k + 1) * PGSIZE = k * PGSIZE + PGSIZE /\ k * PGSIZE \in Nat /\ i * PGSIZE \in Nat
  BY <1>1
<1>4. i * PGSIZE = k * PGSIZE => i = k
  BY DivPage
<1> QED
  BY <1>1, <1>2, <1>3, <1>4

-----------------------------------------------------------------------------
(***************************************************************************)
(* Each process in a step.                                                 *)
(***************************************************************************)

\* The space r in n has the same pages as q in m, with the same rights.
SameRights(m, q, n, r) ==
  \A u \in Pages : /\ Mapped(n, r, u) <=> Mapped(m, q, u)
                   /\ Mapped(m, q, u) => (Slot(n, r, u).w <=> Slot(m, q, u).w)

LEMMA SpaceStays ==
  ASSUME NEW m, NEW q, NEW n, NEW r, SameRights(m, q, n, r), NEW name, NEW k,
         NEW g, SpaceUpTo(m, q, name, k, g)
  PROVE  SpaceUpTo(n, r, name, k, g)
BY DEF SameRights, SpaceUpTo, Writable

\* Nothing happens to p.
Stays(p) ==
  /\ old_brk'[p] = old_brk[p] /\ brk'[p] = brk[p] /\ prog'[p] = prog[p]
  /\ gap'[p] = gap[p]
  /\ SameRights(now, pgdir[p], now', pgdir'[p])

LEMMA LaidStays ==
  ASSUME NEW p, Stays(p), Laid(p)
  PROVE  Laid(p)'
<1>1. PICK k \in 0 .. stack :
        /\ BreakAt(old_brk[p], brk[p], Image[prog[p]].end, k)
        /\ SpaceUpTo(now, pgdir[p], prog[p], k, gap[p])
  BY DEF Laid
<1>2. BreakAt(old_brk'[p], brk'[p], Image[prog'[p]].end, k)
  BY <1>1 DEF Stays
<1>3. SpaceUpTo(now', pgdir'[p], prog'[p], k, gap'[p])
  BY <1>1, SpaceStays DEF Stays
<1> QED
  BY <1>2, <1>3 DEF Laid

LEMMA StaysWhenKept ==
  ASSUME NEW p, pgdir'[p] = pgdir[p],
         old_brk'[p] = old_brk[p], brk'[p] = brk[p], prog'[p] = prog[p],
         gap'[p] = gap[p],
         \A u \in Pages : Keep(now, now', pgdir[p], u)
  PROVE  Stays(p)
BY DEF Stays, SameRights, Keep

LEMMA StaysWhenSame ==
  ASSUME NEW p, pgdir'[p] = pgdir[p],
         old_brk'[p] = old_brk[p], brk'[p] = brk[p], prog'[p] = prog[p],
         gap'[p] = gap[p],
         now' = now
  PROVE  Stays(p)
BY DEF Stays, SameRights

\* fork: the child has the heap of its parent, and the kernel does not know it.
LEMMA ForkLaid ==
  ASSUME IInv, HInv, ok(now), NEW c \in Procs, Forks(c), curr # 0
  PROVE  HInv'
<1>1. ASSUME NEW p \in live PROVE Laid(p)'
  <2>1. pgdir'[p] = pgdir[p] /\ pgdir[p] \in Dirs
    BY DEF Forks, live, unused, IInv, TypeOK, Dirs, used
  <2>2. /\ old_brk'[p] = old_brk[p] /\ brk'[p] = brk[p] /\ prog'[p] = prog[p]
        /\ gap'[p] = gap[p]
    BY DEF Forks, live, unused, IInv, TypeOK
  <2>3. \A u \in Pages : Keep(now, now', pgdir[p], u)
    BY <2>1 DEF Forks, AllKeep
  <2> QED
    BY <2>1, <2>2, <2>3, StaysWhenKept, LaidStays DEF HInv
<1>2. curr \in live /\ curr \in Procs
  BY DEF live, IInv, TypeOK, Running
<1>3. PICK k \in 0 .. stack :
        /\ BreakAt(old_brk[curr], brk[curr], Image[prog[curr]].end, k)
        /\ SpaceUpTo(now, pgdir[curr], prog[curr], k, gap[curr])
  BY <1>2 DEF HInv, Laid
<1>4. /\ old_brk'[c] = old_brk[curr] /\ brk'[c] = 0 /\ prog'[c] = prog[curr]
      /\ gap'[c] = gap[curr]
  BY DEF Forks, IInv, TypeOK
<1>5. BreakAt(old_brk'[c], brk'[c], Image[prog'[c]].end, k)
  BY <1>3, <1>4 DEF BreakAt
<1>6. SameRights(now, pgdir[curr], now', pgdir'[c])
  BY DEF SameRights, Forks, SamePage, IInv, Running
<1>7. Laid(c)'
  BY <1>3, <1>4, <1>5, <1>6, SpaceStays DEF Laid
<1>8. live' \subseteq live \cup {c}
  BY DEF Forks, live, IInv, TypeOK
<1> QED
  BY <1>1, <1>7, <1>8 DEF HInv

\* exec: the new space is that of the program, without a heap.
LEMMA ExecLaid ==
  ASSUME IInv, HInv, ok(now), NEW name \in DOMAIN Image, Execs(name)
  PROVE  HInv'
<1>1. curr \in Procs /\ curr \in used /\ cr3 = pgdir[curr] /\ OwnDirs /\ live' = live
  BY Here DEF IInv, TypeOK, Running, Execs, live
<1>2. ASSUME NEW p \in live, p # curr PROVE Laid(p)'
  <2>1. pgdir'[p] = pgdir[p] /\ pgdir[p] \in Dirs \ {cr3}
    BY <1>1, <1>2 DEF Execs, live, IInv, TypeOK, Dirs, used, OwnDirs
  <2>2. /\ old_brk'[p] = old_brk[p] /\ brk'[p] = brk[p] /\ prog'[p] = prog[p]
        /\ gap'[p] = gap[p]
    BY <1>2 DEF Execs, live, IInv, TypeOK
  <2>3. \A u \in Pages : Keep(now, now', pgdir[p], u)
    BY <2>1 DEF Execs, AllKeep
  <2> QED
    BY <1>2, <2>1, <2>2, <2>3, StaysWhenKept, LaidStays DEF HInv
<1>3. ASSUME NEW p \in live, p = curr PROVE Laid(p)'
  <2> DEFINE e == Image[name].end
  <2>1. /\ old_brk'[p] = 0 /\ prog'[p] = name /\ pgdir'[p] = cr3' /\ gap'[p] = {}
    BY <1>1, <1>3 DEF Execs, IInv, TypeOK
  <2>2. e \in 1 .. stack /\ stack \in Nat /\ e \in 0 .. stack
    BY ProgramEnd
  <2>4. BreakAt(old_brk'[p], brk'[p], Image[prog'[p]].end, e)
    BY <2>1, <2>2 DEF BreakAt
  <2>5. HasProgram(now', cr3', name)
    BY DEF Execs
  <2>6. \A u : u \in DOMAIN start_of(name) <=>
               u = stack \/ u \in {s.v : s \in ToSet(Image[name].pages)}
    BY DEF start_of
  <2>7. ASSUME NEW u \in Pages, u \in e .. e - 1 \/ u = stack \/ Data(name, u)
        PROVE  Writable(now', cr3', u)
    <3>1. u = stack \/ Data(name, u)
      BY <2>2, <2>7
    <3>2. u \in DOMAIN start_of(name)
      BY <2>6, <3>1 DEF Data
    <3> QED
      BY <2>5, <3>1, <3>2 DEF HasProgram, Writable, Data
  <2>8. SpaceUpTo(now', cr3', name, e, {})
    BY <2>7 DEF SpaceUpTo
  <2> QED
    BY <2>1, <2>2, <2>4, <2>8 DEF Laid
<1> QED
  BY <1>1, <1>2, <1>3 DEF HInv

\* brk: from m to n the break goes from page i, where the kernel has it, to page k.
\* The heap ended at page k0, which is i unless it has just been asked for.
BreakMoves(m, n, D, pd, i, k) ==
  \/ (i = 0 \/ i = k) /\ n = m
  \/ 0 < i /\ i < k /\ MapsPages(m, n, D, pd, i .. k - 1, TRUE)
  \/ k < i /\ UnmapsPages(m, n, D, pd, k .. i - 1)

LEMMA DataBelow ==
  ASSUME NEW name \in DOMAIN Image, NEW u, Data(name, u)
  PROVE  u \in 0 .. Image[name].end - 1
<1>1. PICK s \in ToSet(Image[name].pages) : s.v = u /\ s.w
  BY DEF Data
<1>2. Image[name].pages \in Seq([v : 0 .. Image[name].end - 1, w : BOOLEAN])
  BY VmeAssumption
<1>3. PICK j \in 1 .. Len(Image[name].pages) : s = Image[name].pages[j]
  BY <1>1, <1>2 DEF ToSet
<1> QED
  BY <1>1, <1>3, ImagePages

\* The pages g are missing before and the pages h after.
LEMMA BrkSpace ==
  ASSUME NEW name \in DOMAIN Image, NEW e, e = Image[name].end,
         NEW m, NEW n, NEW D, NEW pd \in D, NEW g, NEW h,
         NEW k0 \in 0 .. stack, NEW i \in 0 .. stack, NEW k \in 0 .. stack,
         e <= k0, e <= k, i = 0 \/ k0 = i \/ (k0 = e /\ k = e),
         {v \in g : v < k} \subseteq h, i = 0 => k0 .. k - 1 \subseteq h,
         SpaceUpTo(m, pd, name, k0, g), BreakMoves(m, n, D, pd, i, k)
  PROVE  SpaceUpTo(n, pd, name, k, h)
<1>1. /\ e \in Nat /\ e >= 1 /\ stack \in Nat /\ e <= stack
      /\ k0 \in Nat /\ k0 <= stack /\ i \in Nat /\ i <= stack /\ k \in Nat /\ k <= stack
      /\ Pages = 0 .. stack
  BY ProgramEnd, VmeAssumption DEF Pages, stack
<1>2. /\ \A u \in Pages :
           u \in (e .. k0 - 1) \ g \/ u = stack \/ Data(name, u) => Writable(m, pd, u)
      /\ \A u : Data(name, u) => u \in 0 .. e - 1
  BY DataBelow DEF SpaceUpTo
<1>3. \A u : u \in (e .. k - 1) \ h => u \notin g
  BY <1>1
<1>4. ASSUME NEW u \in Pages, u \in (e .. k - 1) \ h \/ u = stack \/ Data(name, u)
      PROVE  Writable(n, pd, u)
  <2>1. CASE (i = 0 \/ i = k) /\ n = m
    <3>1. u \in (e .. k0 - 1) \ g \/ u = stack \/ Data(name, u)
      BY <1>1, <1>3, <1>4, <2>1
    <3> QED
      BY <1>2, <2>1, <3>1
  <2>2. CASE 0 < i /\ i < k /\ MapsPages(m, n, D, pd, i .. k - 1, TRUE)
    <3>1. CASE u \in i .. k - 1
      BY <2>2, <3>1 DEF MapsPages, Writable
    <3>2. CASE u \notin i .. k - 1
      <4>1. u \in (e .. k0 - 1) \ g \/ u = stack \/ Data(name, u)
        BY <1>1, <1>3, <1>4, <2>2, <3>2
      <4>2. Keep(m, n, pd, u)
        BY <2>2, <3>2 DEF MapsPages
      <4> QED
        BY <1>2, <4>1, <4>2 DEF Keep, Writable
    <3> QED
      BY <3>1, <3>2
  <2>3. CASE k < i /\ UnmapsPages(m, n, D, pd, k .. i - 1)
    <3>1. u \notin k .. i - 1
      BY <1>1, <1>2, <1>4
    <3>2. u \in (e .. k0 - 1) \ g \/ u = stack \/ Data(name, u)
      BY <1>1, <1>3, <1>4, <2>3
    <3>3. Keep(m, n, pd, u)
      BY <2>3, <3>1 DEF UnmapsPages
    <3> QED
      BY <1>2, <3>2, <3>3 DEF Keep, Writable
  <2> QED
    BY <2>1, <2>2, <2>3 DEF BreakMoves
<1> QED
  BY <1>4 DEF SpaceUpTo

\* Where the breaks are in a call of brk.
LEMMA BrkNumbers ==
  ASSUME IInv, NEW addr \in 0 .. stack * PGSIZE, Sbrks(addr), curr \in Procs,
         NEW e, e = Image[prog[curr]].end,
         NEW i \in 0 .. stack, NEW k \in 0 .. stack,
         brk[curr] = i * PGSIZE, PAGE_UP(addr) = k * PGSIZE,
         NEW k0 \in 0 .. stack, BreakAt(old_brk[curr], brk[curr], e, k0)
  PROVE  /\ e <= k0 /\ e <= k /\ (i = 0 \/ k0 = i \/ (k0 = e /\ k = e))
         /\ old_brk[curr] = 0 => k0 = e /\ k = e
         /\ BreakAt(addr, PAGE_UP(addr), e, k)
<1>1. /\ e \in 1 .. stack /\ stack \in Nat /\ PGSIZE \in Nat /\ PGSIZE >= 1
      /\ e \in Nat /\ i \in Nat /\ k \in Nat /\ k0 \in Nat /\ k <= stack
  BY VmeAssumption, ProgramEnd DEF stack, IInv, TypeOK
<1>2. /\ heap_start(curr) = e * PGSIZE /\ heap_start(curr) >= PGSIZE
      /\ PAGE_UP(heap_start(curr)) = heap_start(curr)
      /\ heap_start(curr) \in 0 .. stack * PGSIZE
  BY HeapStart DEF heap_start, IInv
<1>3. addr \in heap_start(curr) .. stack * PGSIZE /\ (old_brk[curr] = 0 => addr = heap_start(curr))
  BY DEF Sbrks
<1>4. addr \in Nat /\ heap_start(curr) \in Nat /\ addr >= heap_start(curr) /\ addr # 0
  <2>1. heap_start(curr) \in Nat /\ stack * PGSIZE \in Nat
    BY <1>1, <1>2
  <2> QED
    BY <1>1, <1>2, <1>3, <2>1
<1>5. addr <= PAGE_UP(addr)
  <2>1. stack \in 0 .. stack
    BY <1>1
  <2> QED
    BY <2>1, PageUp
<1>6. e <= k
  <2>1. k * PGSIZE \in Nat /\ e * PGSIZE \in Nat
    BY <1>1
  <2>2. e * PGSIZE <= k * PGSIZE
    BY <1>2, <1>4, <1>5, <2>1
  <2> QED
    BY <1>1, <2>2, CancelPage
<1>7. ASSUME old_brk[curr] = 0 PROVE k0 = e /\ k = e
  <2>1. k0 = e
    BY <1>7 DEF BreakAt
  <2>2. k * PGSIZE = e * PGSIZE
    BY <1>2, <1>3, <1>7
  <2> QED
    BY <1>1, <2>1, <2>2, CancelPage
<1>8. ASSUME old_brk[curr] # 0 PROVE i = 0 \/ k0 = i
  <2>1. CASE brk[curr] = 0
    <3>1. i * PGSIZE = 0 * PGSIZE
      BY <1>1, <2>1
    <3> QED
      BY <1>1, <3>1, CancelPage
  <2>2. CASE brk[curr] # 0
    <3>1. k0 * PGSIZE = i * PGSIZE
      BY <1>8, <2>2 DEF BreakAt
    <3> QED
      BY <1>1, <3>1, CancelPage
  <2> QED
    BY <2>1, <2>2
<1>9. BreakAt(addr, PAGE_UP(addr), e, k)
  BY <1>1, <1>4, <1>6 DEF BreakAt
<1>10. e <= k0
  BY DEF BreakAt
<1> QED
  BY <1>6, <1>7, <1>8, <1>9, <1>10

\* brk forgets the missing pages above the new break, and skips those from the break
\* of the user library on if the kernel has none.
LEMMA BrkGap ==
  ASSUME IInv, NEW addr \in 0 .. stack * PGSIZE, Sbrks(addr), curr \in Procs,
         NEW e, e = Image[prog[curr]].end,
         NEW i \in 0 .. stack, NEW k \in 0 .. stack,
         brk[curr] = i * PGSIZE, PAGE_UP(addr) = k * PGSIZE,
         NEW k0 \in 0 .. stack, BreakAt(old_brk[curr], brk[curr], e, k0)
  PROVE  /\ {v \in gap[curr] : v < k} \subseteq left(addr)
         /\ i = 0 => k0 .. k - 1 \subseteq left(addr)
<1>1. PGSIZE \in Nat /\ i \in Nat /\ k \in Nat /\ k0 \in Nat /\ stack \in Nat
  BY VmeAssumption DEF stack
<1>2. PAGE_UP(addr) \div PGSIZE = k
  BY <1>1, DivPage
<1>3. {v \in gap[curr] : v < k} \subseteq left(addr)
  BY <1>2 DEF left
<1>4. ASSUME i = 0, NEW u \in k0 .. k - 1 PROVE u \in left(addr)
  <2>1. k0 <= k /\ k0 # k
    BY <1>1, <1>4
  <2>2. old_brk[curr] # 0
    BY <2>1, BrkNumbers
  <2>3. brk[curr] = 0 /\ PAGE_UP(old_brk[curr]) = k0 * PGSIZE
    BY <1>1, <1>4, <2>2 DEF BreakAt
  <2>4. skipped(old_brk[curr], PAGE_UP(addr)) = ToSet(range(k0 * PGSIZE, k * PGSIZE))
    BY <2>2, <2>3 DEF skipped
  <2>5. ToSet(range(k0 * PGSIZE, k * PGSIZE)) = k0 .. k - 1
    BY <2>1, RangePages
  <2> QED
    BY <1>4, <2>4, <2>5 DEF left
<1> QED
  BY <1>3, <1>4

LEMMA BrkLaid ==
  ASSUME IInv, HInv, ok(now), NEW addr \in 0 .. stack * PGSIZE, Sbrks(addr), Brks(addr)
  PROVE  HInv'
<1>1. curr \in Procs /\ curr \in used /\ cr3 = pgdir[curr] /\ OwnDirs /\ live' = live
      /\ curr' = curr /\ pgdir' = pgdir
  BY Here DEF IInv, TypeOK, Running, Brks, live
<1>2. PICK i \in 0 .. stack, k \in 0 .. stack :
        /\ brk[curr] = i * PGSIZE /\ PAGE_UP(addr) = k * PGSIZE
        /\ BreakMoves(now, now', Dirs, cr3, i, k)
  BY DEF Brks, BreakMoves
<1>3. cr3 \in Dirs
  BY Here DEF Brks
<1>4. ASSUME NEW p \in live, p # curr PROVE Laid(p)'
  <2>1. pgdir[p] \in Dirs /\ pgdir[p] # cr3 /\ pgdir'[p] = pgdir[p]
    BY <1>1, <1>4 DEF live, Dirs, used, OwnDirs
  <2>2. /\ old_brk'[p] = old_brk[p] /\ brk'[p] = brk[p] /\ prog'[p] = prog[p]
        /\ gap'[p] = gap[p]
    BY <1>4 DEF Brks, live, IInv, TypeOK
  <2>3. ASSUME NEW u \in Pages PROVE Keep(now, now', pgdir[p], u)
    <3>1. CASE now' = now
      BY <3>1 DEF Keep
    <3>2. CASE MapsPages(now, now', Dirs, cr3, i .. k - 1, TRUE)
      BY <2>1, <3>2 DEF MapsPages
    <3>3. CASE UnmapsPages(now, now', Dirs, cr3, k .. i - 1)
      BY <2>1, <3>3 DEF UnmapsPages
    <3> QED
      BY <1>2, <3>1, <3>2, <3>3 DEF BreakMoves
  <2> QED
    BY <2>1, <2>2, <2>3, StaysWhenKept, LaidStays DEF HInv
<1>5. ASSUME NEW p \in live, p = curr PROVE Laid(p)'
  <2> DEFINE e == Image[prog[p]].end
  <2>1. /\ old_brk'[p] = addr /\ brk'[p] = PAGE_UP(addr) /\ prog'[p] = prog[p]
        /\ pgdir'[p] = cr3 /\ pgdir[p] = cr3 /\ prog[p] \in DOMAIN Image
        /\ gap'[p] = left(addr)
    BY <1>1, <1>5 DEF Brks, IInv, TypeOK
  <2>2. PICK k0 \in 0 .. stack : /\ BreakAt(old_brk[p], brk[p], e, k0)
                                 /\ SpaceUpTo(now, pgdir[p], prog[p], k0, gap[p])
    BY DEF HInv, Laid
  <2> HIDE DEF e
  <2>3. e = Image[prog[curr]].end /\ BreakAt(old_brk[curr], brk[curr], e, k0)
    BY <1>5, <2>2 DEF e
  <2>4. /\ e <= k0 /\ e <= k /\ (i = 0 \/ k0 = i \/ (k0 = e /\ k = e))
        /\ BreakAt(addr, PAGE_UP(addr), e, k)
    BY <1>1, <1>2, <2>3, BrkNumbers
  <2>5. SpaceUpTo(now, cr3, prog[p], k0, gap[p]) /\ e = Image[prog[p]].end
    BY <2>1, <2>2 DEF e
  <2>6. {v \in gap[p] : v < k} \subseteq left(addr) /\ (i = 0 => k0 .. k - 1 \subseteq left(addr))
    BY <1>1, <1>2, <1>5, <2>3, BrkGap
  <2>7. SpaceUpTo(now', cr3, prog[p], k, left(addr))
    BY <1>2, <1>3, <2>1, <2>4, <2>5, <2>6, BrkSpace
  <2> QED
    BY <2>1, <2>4, <2>5, <2>7 DEF Laid
<1> QED
  BY <1>1, <1>4, <1>5 DEF HInv

\* store: the rights of the page stay as they are.
LEMMA StoreLaid ==
  ASSUME IInv, HInv, ok(now), NEW v \in Pages, NEW x \in Bytes, Stores(v, x)
  PROVE  HInv'
<1>1. /\ live' = live /\ pgdir' = pgdir /\ old_brk' = old_brk /\ brk' = brk
      /\ prog' = prog /\ gap' = gap
  BY DEF Stores, live
<1>2. ASSUME NEW p \in live PROVE Laid(p)'
  <2>1. pgdir[p] \in Dirs
    BY DEF live, Dirs, used
  <2>2. SameRights(now, pgdir[p], now', pgdir[p])
    BY <2>1 DEF SameRights, Stores, Writes, Keep
  <2>3. Stays(p)
    BY <1>1, <2>2 DEF Stays
  <2> QED
    BY <2>3, LaidStays DEF HInv
<1> QED
  BY <1>1, <1>2 DEF HInv

LEMMA ReapLaid ==
  ASSUME IInv, HInv, ok(now), NEW z \in Procs, Reaps(z)
  PROVE  HInv'
<1>1. pgdir' = pgdir /\ old_brk' = old_brk /\ brk' = brk /\ prog' = prog /\ gap' = gap
  BY DEF Reaps
<1>2. live' \subseteq live
  BY DEF Reaps, live, IInv, TypeOK
<1>3. z # 0
  BY DEF Reaps, IInv, Running
<1>4. ASSUME NEW p \in live PROVE Laid(p)'
  <2>1. p # z /\ p \in used /\ z \in used
    BY <1>3 DEF live, used, Reaps
  <2>2. pgdir[p] \in Dirs \ {pgdir[z]}
    BY <2>1 DEF Dirs, OwnDirs, IInv, Running
  <2>3. \A u \in Pages : Keep(now, now', pgdir[p], u)
    BY <2>2 DEF Reaps, AllKeep
  <2> QED
    BY <1>1, <2>3, StaysWhenKept, LaidStays DEF HInv
<1> QED
  BY <1>2, <1>4 DEF HInv

LEMMA SameLaid ==
  ASSUME HInv, ok(now), now' = now, live' \subseteq live,
         UNCHANGED <<pgdir, brk, prog, old_brk, gap>>
  PROVE  HInv'
<1>1. ASSUME NEW p \in live PROVE Laid(p)'
  BY StaysWhenSame, LaidStays DEF HInv
<1> QED
  BY <1>1 DEF HInv

LEMMA InitLaid ==
  ASSUME Init
  PROVE  HInv
<1>1. IInv /\ (ok(now) => HasProgram(now, pgdir[1], FirstProg) /\ used = {1})
  BY InitInv
<1>2. ASSUME ok(now), NEW p \in live PROVE Laid(p)
  <2> DEFINE e == Image[FirstProg].end
  <2>1. p = 1 /\ p \in Procs
    BY <1>1, <1>2 DEF live, used
  <2>2. old_brk[p] = 0 /\ brk[p] = 0 /\ prog[p] = FirstProg /\ gap[p] = {}
    BY <2>1 DEF Init
  <2>3. FirstProg \in DOMAIN Image
    BY VmeAssumption
  <2>4. e \in 1 .. stack /\ stack \in Nat /\ e \in 0 .. stack
    BY <2>3, ProgramEnd
  <2>5. BreakAt(old_brk[p], brk[p], e, e)
    BY <2>2, <2>4 DEF BreakAt
  <2>6. \A u : u \in DOMAIN start_of(FirstProg) <=>
               u = stack \/ u \in {s.v : s \in ToSet(Image[FirstProg].pages)}
    BY DEF start_of
  <2>7. HasProgram(now, pgdir[p], FirstProg)
    BY <1>1, <1>2, <2>1
  <2>8. ASSUME NEW u \in Pages, u \in e .. e - 1 \/ u = stack \/ Data(FirstProg, u)
        PROVE  Writable(now, pgdir[p], u)
    <3>1. u = stack \/ Data(FirstProg, u)
      BY <2>4, <2>8
    <3>2. u \in DOMAIN start_of(FirstProg)
      BY <2>6, <3>1 DEF Data
    <3> QED
      BY <2>7, <3>1, <3>2 DEF HasProgram, Writable, Data
  <2>9. SpaceUpTo(now, pgdir[p], FirstProg, e, {})
    BY <2>8 DEF SpaceUpTo
  <2> QED
    BY <2>2, <2>4, <2>5, <2>9 DEF Laid
<1> QED
  BY <1>2 DEF HInv

-----------------------------------------------------------------------------
(***************************************************************************)
(* Every step.                                                             *)
(***************************************************************************)

LEMMA HeapStep ==
  ASSUME Paths \subseteq DOMAIN Image, IInv, HInv, [Next]_vars
  PROVE  HInv'
<1>1. CASE ~ ok(now')
  <2>1. ~ ok(now)'
    BY <1>1 DEF ok
  <2> QED
    BY <2>1 DEF HInv
<1>2. CASE ok(now') /\ ok(now)
  <2>1. ASSUME NEW p \in Procs, schedule(p) PROVE HInv'
    <3>1. now' = now
      BY <2>1, ScheduleKeeps
    <3> QED
      BY <1>2, <2>1, <3>1, SameLaid DEF schedule, live
  <2>2. ASSUME NEW p \in Procs, proc_free(p) PROVE HInv'
    BY <1>2, <2>2, ReapKeeps, ReapLaid
  <2>3. ASSUME sys_fork PROVE HInv'
    <3>1. curr # 0
      BY <2>3 DEF sys_fork, in_user
    <3> QED
      BY <1>2, <2>3, <3>1, ForkKeeps, ForkLaid
  <2>4. ASSUME sys_exit PROVE HInv'
    <3>1. now' = now /\ status' = [status EXCEPT ![curr] = "ZOMBIE"]
      BY <2>4, ExitKeeps
    <3>2. live' \subseteq live
      BY <3>1 DEF live, IInv, TypeOK
    <3> QED
      BY <1>2, <2>4, <3>1, <3>2, SameLaid DEF sys_exit
  <2>5. ASSUME NEW name \in Paths, sys_exec(name) PROVE HInv'
    BY <1>2, <2>5, ExecKeeps, ExecLaid
  <2>6. ASSUME sbrk_first \/ \E inc \in Increments : sbrk(inc) PROVE HInv'
    <3>1. PICK addr \in 0 .. stack * PGSIZE : Sbrks(addr)
      BY <2>6, SbrkIs
    <3>2. Brks(addr)
      BY <1>2, <3>1, BrkKeeps DEF Sbrks
    <3> QED
      BY <1>2, <3>1, <3>2, BrkLaid
  <2>7. ASSUME NEW v \in Pages, NEW x \in Bytes, store(v, x) PROVE HInv'
    BY <1>2, <2>7, StoreKeeps, StoreLaid
  <2>8. ASSUME UNCHANGED vars PROVE HInv'
    <3>1. now' = now /\ live' = live
      BY <2>8 DEF vars, now, live
    <3> QED
      BY <1>2, <2>8, <3>1, SameLaid DEF vars
  <2>9. stopped => UNCHANGED vars
    BY DEF stopped
  <2> QED
    BY <2>1, <2>2, <2>3, <2>4, <2>5, <2>6, <2>7, <2>8, <2>9 DEF Next
<1>3. CASE ok(now') /\ ~ ok(now)
  <2>1. UNCHANGED vars
    BY <1>3 DEF Next, schedule, proc_free, sys_fork, sys_exit, sys_exec, sbrk_first, sbrk,
               store, stopped, in_user
  <2>2. now' = now
    BY <2>1 DEF vars, now
  <2> QED
    BY <1>3, <2>2
<1> QED
  BY <1>1, <1>2, <1>3

\* What a program may use is mapped but for the gap, and it may write it.
LEMMA OwnPages ==
  ASSUME IInv, HInv, ok(now), NEW p \in live, NEW v \in own_pages(p) \ gap[p]
  PROVE  pte(now, pgdir[p], v).p /\ pte(now, pgdir[p], v).w
<1> DEFINE e == Image[prog[p]].end
<1>1. PICK k \in 0 .. stack : /\ BreakAt(old_brk[p], brk[p], e, k)
                              /\ SpaceUpTo(now, pgdir[p], prog[p], k, gap[p])
  BY DEF HInv, Laid
<1>2. /\ p \in Procs /\ prog[p] \in DOMAIN Image /\ heap_start(p) = e * PGSIZE
  BY DEF live, IInv, TypeOK, heap_start
<1>3. e \in 1 .. stack /\ stack \in Nat /\ e \in Nat /\ PGSIZE \in Nat /\ Pages = 0 .. stack
  BY <1>2, ProgramEnd, VmeAssumption DEF Pages, stack
<1>4. pgdir[p] \in Cells /\ now \in Memory
  <2>1. pgdir[p] \in Dirs
    BY DEF live, Dirs, used
  <2> QED
    BY <2>1, Here
<1> HIDE DEF e
<1>5. e <= k /\ k <= stack /\ k \in Nat
  BY <1>1, <1>3 DEF BreakAt
<1>6. v \in Pages /\ (v \in (e .. k - 1) \ gap[p] \/ v = stack \/ Data(prog[p], v))
  <2>1. CASE v \in {s.v : s \in {x \in ToSet(Image[prog[p]].pages) : x.w}}
    <3>1. Data(prog[p], v)
      BY <2>1 DEF Data
    <3>2. v \in 0 .. e - 1
      BY <1>2, <3>1, DataBelow DEF e
    <3> QED
      BY <1>3, <3>1, <3>2
  <2>2. CASE old_brk[p] # 0 /\ v \in ToSet(range(heap_start(p), PAGE_UP(old_brk[p])))
    <3>1. PAGE_UP(old_brk[p]) = k * PGSIZE
      BY <1>1, <2>2 DEF BreakAt
    <3>2. v \in ToSet(range(e * PGSIZE, k * PGSIZE))
      BY <1>2, <2>2, <3>1
    <3>3. e \in 0 .. stack /\ k \in 0 .. stack
      BY <1>3, <1>5
    <3>4. v \in e .. k - 1
      BY <1>5, <3>2, <3>3, RangePages
    <3> QED
      BY <1>3, <1>5, <3>4
  <2>3. CASE v = stack
    BY <1>3, <2>3
  <2> QED
    BY <2>1, <2>2, <2>3 DEF own_pages
<1>7. Writable(now, pgdir[p], v)
  BY <1>1, <1>6 DEF SpaceUpTo, e
<1> QED
  BY <1>4, <1>6, <1>7, PteIsSlot DEF Writable

\* The machine runs, or has run out of frames, or the running program has touched a
\* page that it lacks.
RunsOutOrGap == fault \in RunsOut \/ (fault = "pgfault" /\ gap[curr] # {})

\* Programs that keep to their own pages and lack none of them do not fault.
LEMMA FaultStep ==
  ASSUME Paths \subseteq DOMAIN Image, IInv, HInv, RunsOutOrGap, [Next]_vars
  PROVE  RunsOutOrGap'
<1>1. ASSUME NEW p \in Procs, schedule(p) PROVE fault' \in RunsOut
  BY <1>1, ScheduleKeeps
<1>2. ASSUME NEW p \in Procs, proc_free(p) PROVE fault' \in RunsOut
  BY <1>2, ReapKeeps
<1>3. ASSUME sys_fork PROVE fault' \in RunsOut
  BY <1>3, ForkKeeps
<1>4. ASSUME sys_exit PROVE fault' \in RunsOut
  BY <1>4, ExitKeeps
<1>5. ASSUME NEW name \in Paths, sys_exec(name) PROVE fault' \in RunsOut
  BY <1>5, ExecKeeps
<1>6. ASSUME sbrk_first \/ \E inc \in Increments : sbrk(inc) PROVE fault' \in RunsOut
  BY <1>6, SbrkIs, BrkKeeps DEF Sbrks
<1>7. ASSUME NEW v \in Pages, NEW x \in Bytes, store(v, x) PROVE RunsOutOrGap'
  <2>1. ok(now) /\ curr # 0 /\ v \in own_pages(curr)
    BY <1>7 DEF store, in_user
  <2>2. curr \in live /\ cr3 = pgdir[curr] /\ cr3 \in Dirs /\ cr3 \in Cells
    BY <2>1, Here DEF live, IInv, TypeOK, Running
  <2>3. CASE pte(now, cr3, v).p /\ pte(now, cr3, v).w
    <3>1. commit(put(now, cr3, v, x)) \/ crash(put(now, cr3, v, x))
      BY <1>7, <2>3 DEF store
    <3>2. x \in Contents /\ Mapped(now, cr3, v)
      BY <2>2, <2>3, Here, PteIsSlot, <2>1 DEF Contents
    <3>3. ok(put(now, cr3, v, x))
      BY <2>1, <2>2, <3>2, Here, PutDoes
    <3>4. fault' = put(now, cr3, v, x).fault
      BY <3>1 DEF commit, crash
    <3> QED
      BY <3>3, <3>4 DEF ok, RunsOut, RunsOutOrGap
  <2>4. CASE ~ (pte(now, cr3, v).p /\ pte(now, cr3, v).w)
    <3>1. commit(stop(now, "pgfault")) \/ crash(stop(now, "pgfault"))
      BY <1>7, <2>4 DEF store
    <3>2. stop(now, "pgfault").fault = "pgfault"
      BY DEF stop, now
    <3>3. crash(stop(now, "pgfault")) /\ fault' = "pgfault"
      BY <3>1, <3>2 DEF commit, crash, ok
    <3>4. gap' = gap /\ curr' = curr
      BY <3>3 DEF crash
    <3>5. v \in gap[curr]
      BY <2>1, <2>2, <2>4, OwnPages
    <3> QED
      BY <3>3, <3>4, <3>5 DEF RunsOutOrGap
  <2> QED
    BY <2>3, <2>4
<1>8. ASSUME UNCHANGED vars PROVE RunsOutOrGap'
  BY <1>8 DEF vars, RunsOutOrGap
<1>9. stopped => UNCHANGED vars
  BY DEF stopped
<1>10. fault' \in RunsOut => RunsOutOrGap'
  BY DEF RunsOutOrGap
<1> QED
  BY <1>1, <1>2, <1>3, <1>4, <1>5, <1>6, <1>7, <1>8, <1>9, <1>10 DEF Next

LEMMA HeapInvariant ==
  ASSUME Paths \subseteq DOMAIN Image
  PROVE  Spec => [](IInv /\ HInv /\ RunsOutOrGap)
<1>1. Init => IInv /\ HInv /\ RunsOutOrGap
  <2>1. Init => fault \in RunsOut
    BY BootMemory DEF Init
  <2> QED
    BY <2>1, InitInv, InitLaid DEF RunsOutOrGap
<1>2. IInv /\ HInv /\ RunsOutOrGap /\ [Next]_vars => (IInv /\ HInv /\ RunsOutOrGap)'
  BY StepKeeps, HeapStep, FaultStep
<1> QED
  BY <1>1, <1>2, PTL DEF Spec

\* A program's data, heap and stack are mapped, although exec keeps the break of the
\* program before and brk maps from there, but for the pages that the first sys_brk of
\* a child records without mapping them (syscall.c: sys_exec, sys_brk; proc.c:
\* proc_alloc).
THEOREM OwnPagesStayMapped ==
  ASSUME Paths \subseteq DOMAIN Image
  PROVE  Spec => []OwnPagesMapped
<1>1. IInv /\ HInv => OwnPagesMapped
  BY OwnPages DEF OwnPagesMapped
<1> QED
  BY <1>1, HeapInvariant, PTL

\* The machine stops only when it has run out of frames (vme.c: the assertion of
\* kalloc, and that of kfree on an empty list) or when a program, which keeps to its
\* own pages, touches a heap page that sys_brk recorded for a child and did not map: no
\* frame is freed twice, and no directory without the kernel is loaded.
THEOREM WhyItStops ==
  ASSUME Paths \subseteq DOMAIN Image
  PROVE  Spec => [](fault \in RunsOut \/ (fault = "pgfault" /\ gap[curr] # {}))
<1>1. RunsOutOrGap => fault \in RunsOut \/ (fault = "pgfault" /\ gap[curr] # {})
  BY DEF RunsOutOrGap
<1> QED
  BY <1>1, HeapInvariant, PTL

-----------------------------------------------------------------------------
(***************************************************************************)
(* The abstract spaces.                                                    *)
(***************************************************************************)

\* The space that the page tables of q describe.
View(m, q) ==
  [u \in {w \in Pages : Mapped(m, q, w)} |-> m.mem[Slot(m, q, u).page].b]

empty == [v \in {} |-> "zero"]

\* The refinement mapping.
space_map == [p \in Procs |-> space_of(p)]
dead_map == {p \in Procs : status[p] = "ZOMBIE"}

SpacesAre ==
  \A p \in Procs : space_of(p) = IF p \in used THEN View(now, pgdir[p]) ELSE empty

LEMMA SpaceIsView ==
  ASSUME IInv, ok(now)
  PROVE  SpacesAre
<1>1. ASSUME NEW p \in used PROVE space_of(p) = View(now, pgdir[p])
  <2>1. pgdir[p] \in Cells /\ now \in Memory /\ now.mem = mem
    BY Here DEF Dirs
  <2>2. \A u \in Pages : /\ pte(now, pgdir[p], u).p <=> Mapped(now, pgdir[p], u)
                         /\ Mapped(now, pgdir[p], u) =>
                              frame_of(now, pgdir[p], u) = Slot(now, pgdir[p], u).page
    BY <2>1, PteIsSlot
  <2>3. mapped(p) = {w \in Pages : Mapped(now, pgdir[p], w)}
    BY <2>2 DEF mapped
  <2>4. \A u \in mapped(p) : mem[frame_of(now, pgdir[p], u)].b = now.mem[Slot(now, pgdir[p], u).page].b
    BY <2>1, <2>2, <2>3
  <2>5. space_of(p) = [v \in mapped(p) |-> mem[frame_of(now, pgdir[p], v)].b]
    BY DEF space_of
  <2> QED
    BY <2>3, <2>4, <2>5 DEF View
<1>2. \A p \in Procs : p \notin used => space_of(p) = empty
  BY DEF space_of, empty
<1> QED
  BY <1>1, <1>2 DEF SpacesAre

LEMMA SpaceIsViewNext ==
  IInv' /\ ok(now') => SpacesAre'
<1>1. IInv /\ ok(now) => SpacesAre
  BY SpaceIsView
<1>2. (IInv /\ ok(now) => SpacesAre)'
  BY <1>1, PTL
<1>3. ok(now)' <=> ok(now')
  BY DEF ok
<1> QED
  BY <1>2, <1>3

LEMMA ViewSame ==
  ASSUME NEW m, NEW q, NEW n, NEW r, \A u \in Pages : SamePage(m, q, n, r, u)
  PROVE  View(n, r) = View(m, q)
<1>1. {w \in Pages : Mapped(n, r, w)} = {w \in Pages : Mapped(m, q, w)}
  BY DEF SamePage
<1>2. \A u \in {w \in Pages : Mapped(m, q, w)} :
        n.mem[Slot(n, r, u).page].b = m.mem[Slot(m, q, u).page].b
  BY DEF SamePage
<1> QED
  BY <1>1, <1>2 DEF View

LEMMA ViewKept ==
  ASSUME NEW m, NEW q, NEW n, \A u \in Pages : Keep(m, n, q, u)
  PROVE  View(n, q) = View(m, q)
BY ViewSame DEF Keep, SamePage

\* The space of a process does not change if its page tables and pages do not.
LEMMA SpaceKept ==
  ASSUME SpacesAre, SpacesAre', NEW p \in Procs, pgdir'[p] = pgdir[p],
         p \in used' <=> p \in used,
         p \in used => \A u \in Pages : Keep(now, now', pgdir[p], u)
  PROVE  space_map'[p] = space_map[p]
<1>1. space_map[p] = space_of(p) /\ space_map'[p] = space_of(p)'
  BY DEF space_map
<1>2. CASE p \in used
  <2>1. View(now', pgdir[p]) = View(now, pgdir[p])
    BY <1>2, ViewKept
  <2> QED
    BY <1>1, <1>2, <2>1 DEF SpacesAre
<1>3. CASE p \notin used
  BY <1>1, <1>3 DEF SpacesAre
<1> QED
  BY <1>2, <1>3

\* Two functions on the processes.
LEMMA SpacesEqual ==
  ASSUME NEW s, \A p \in Procs : space_map'[p] = s[p], DOMAIN s = Procs,
         s = [p \in Procs |-> s[p]]
  PROVE  space_map' = s
<1>1. space_map' = [p \in Procs |-> space_map'[p]]
  BY DEF space_map
<1> QED
  BY <1>1

LEMMA MapIsFunction ==
  /\ space_map = [p \in Procs |-> space_map[p]] /\ DOMAIN space_map = Procs
  /\ space_map' = [p \in Procs |-> space_map'[p]]
BY DEF space_map

\* Without a change of the tables and pages nothing changes.
LEMMA SameSpaces ==
  ASSUME mem' = mem, pgdir' = pgdir, used' = used
  PROVE  space_map' = space_map
<1>1. now'.mem = now.mem /\ now.mem = mem
  BY DEF now
<1>2. ASSUME NEW p \in Procs PROVE space_of(p)' = space_of(p)
  <2>1. mapped(p)' = mapped(p)
    BY <1>1 DEF mapped, pte
  <2>2. \A v \in mapped(p) : frame_of(now', pgdir'[p], v) = frame_of(now, pgdir[p], v)
    BY <1>1 DEF frame_of, pte
  <2> QED
    BY <2>1, <2>2 DEF space_of
<1> QED
  BY <1>2 DEF space_map

-----------------------------------------------------------------------------
(***************************************************************************)
(* The steps of AddressSpaces.                                             *)
(***************************************************************************)

IsAlive(p) == p \in Procs /\ space_map[p] # empty /\ p \notin dead_map

LEMMA AbstractStutter ==
  ASSUME space_map' = space_map, dead_map' = dead_map
  PROVE  [Spaces!Next]_Spaces!vars
BY DEF Spaces!vars, space_map, dead_map

LEMMA AbstractExit ==
  ASSUME NEW p, IsAlive(p), space_map' = space_map, dead_map' = dead_map \cup {p}
  PROVE  Spaces!Next
<1>1. Spaces!Alive(p) /\ Spaces!Exit(p) /\ p \in Procs
  BY DEF IsAlive, Spaces!Alive, Spaces!Exit, Spaces!none, space_map, dead_map, empty
<1> QED
  BY <1>1 DEF Spaces!Next

LEMMA AbstractReap ==
  ASSUME NEW z \in Procs, z \in dead_map, dead_map' = dead_map \ {z},
         space_map' = [space_map EXCEPT ![z] = empty]
  PROVE  Spaces!Next
<1>1. Spaces!Reap(z)
  BY DEF Spaces!Reap, Spaces!none, space_map, dead_map, empty
<1> QED
  BY <1>1 DEF Spaces!Next

LEMMA AbstractFork ==
  ASSUME NEW p, IsAlive(p), NEW c \in Procs, space_map[c] = empty, dead_map' = dead_map,
         space_map' = [space_map EXCEPT ![c] = space_map[p]]
  PROVE  Spaces!Next
<1>1. Spaces!Alive(p) /\ Spaces!Fork(p, c) /\ p \in Procs
  BY DEF IsAlive, Spaces!Alive, Spaces!Fork, Spaces!none, space_map, dead_map, empty
<1>2. dead_map' = dead_map
  OBVIOUS
<1> QED
  BY <1>1, <1>2 DEF Spaces!Next, dead_map

LEMMA AbstractExec ==
  ASSUME NEW p, IsAlive(p), NEW name \in DOMAIN Image, dead_map' = dead_map,
         space_map' = [space_map EXCEPT ![p] = start_of(name)]
  PROVE  Spaces!Next
<1>1. Spaces!Alive(p) /\ Spaces!Exec(p, start_of(name)) /\ p \in Procs
  BY DEF IsAlive, Spaces!Alive, Spaces!Exec, Spaces!none, space_map, dead_map, empty
<1>2. start_of(name) \in {start_of(n) : n \in DOMAIN Image}
  OBVIOUS
<1> QED
  BY <1>1, <1>2 DEF Spaces!Next, dead_map

LEMMA AbstractWrite ==
  ASSUME NEW p, IsAlive(p), NEW v \in DOMAIN space_map[p], NEW x \in Bytes, dead_map' = dead_map,
         space_map' = [space_map EXCEPT ![p][v] = x]
  PROVE  Spaces!Next
<1>1. Spaces!Alive(p) /\ Spaces!Write(p, v, x) /\ p \in Procs
  BY DEF IsAlive, Spaces!Alive, Spaces!Write, Spaces!none, space_map, dead_map, empty
<1>2. v \in DOMAIN [q \in Procs |-> space_of(q)][p]
  BY DEF space_map
<1> QED
  BY <1>1, <1>2 DEF Spaces!Next, dead_map

\* From V to W the pages a .. b are mapped.
Grown(V, W, a, b) ==
  W = [v \in DOMAIN V \cup a .. b |-> IF v \in DOMAIN V THEN V[v] ELSE "zero"]

\* They are unmapped.
Shrunk(V, W, a, b) == W = [v \in DOMAIN V \ (a .. b) |-> V[v]]

LEMMA AbstractMap ==
  ASSUME NEW p, IsAlive(p), dead_map' = dead_map, NEW a \in Pages, NEW b \in Pages, NEW t,
         Grown(space_map[p], t, a, b) \/ Shrunk(space_map[p], t, a, b),
         space_map' = [space_map EXCEPT ![p] = t]
  PROVE  Spaces!Next
<1>1. Spaces!Alive(p) /\ p \in Procs
  BY DEF IsAlive, Spaces!Alive, Spaces!none, space_map, dead_map, empty
<1>2. Spaces!Map(p, a, b) \/ Spaces!Unmap(p, a, b)
  <2>1. CASE Grown(space_map[p], t, a, b)
    <3>1. space_map' = [space_map EXCEPT ![p] =
            [v \in DOMAIN @ \cup a .. b |-> IF v \in DOMAIN @ THEN @[v] ELSE "zero"]]
      BY <2>1 DEF Grown
    <3> QED
      BY <3>1 DEF Spaces!Map, space_map
  <2>2. CASE Shrunk(space_map[p], t, a, b)
    <3>1. space_map' = [space_map EXCEPT ![p] = [v \in DOMAIN @ \ (a .. b) |-> @[v]]]
      BY <2>2 DEF Shrunk
    <3> QED
      BY <3>1 DEF Spaces!Unmap, space_map
  <2> QED
    BY <2>1, <2>2
<1> QED
  BY <1>1, <1>2 DEF Spaces!Next, dead_map

-----------------------------------------------------------------------------
(***************************************************************************)
(* The steps of Vme are steps of AddressSpaces.                            *)
(***************************************************************************)

\* What holds before and after a step that the machine survives.
Survives == IInv /\ HInv /\ IInv' /\ ok(now) /\ ok(now')

LEMMA SurvivesViews ==
  ASSUME Survives
  PROVE  SpacesAre /\ SpacesAre'
BY SpaceIsView, SpaceIsViewNext DEF Survives

\* The space of a process in use is what its page tables describe.
LEMMA UsedSpace ==
  ASSUME IInv, ok(now), NEW p \in used
  PROVE  space_map[p] = View(now, pgdir[p])
BY SpaceIsView DEF SpacesAre, space_map, used

LEMMA LiveIsAlive ==
  ASSUME IInv, HInv, ok(now), curr # 0
  PROVE  IsAlive(curr) /\ curr \in used /\ curr \in live /\ space_map[curr] = View(now, cr3)
<1>1. curr \in Procs /\ curr \in live /\ curr \in used /\ cr3 = pgdir[curr]
  BY Here DEF IInv, TypeOK, Running, live
<1>2. space_map[curr] = View(now, cr3)
  BY <1>1, UsedSpace
<1>3. Mapped(now, cr3, stack)
  BY <1>1, Sizes DEF HInv, Laid, SpaceUpTo, Writable
<1>4. stack \in DOMAIN View(now, cr3)
  BY <1>3, Sizes DEF View
<1>5. stack \notin DOMAIN empty
  BY DEF empty
<1>6. curr \notin dead_map
  BY <1>1 DEF live, dead_map
<1> QED
  BY <1>1, <1>2, <1>4, <1>5, <1>6 DEF IsAlive

LEMMA ScheduleMaps ==
  ASSUME Survives, NEW p \in Procs, schedule(p)
  PROVE  [Spaces!Next]_Spaces!vars
<1>1. mem' = mem /\ pgdir' = pgdir /\ used' = used /\ dead_map' = dead_map
  BY DEF schedule, used, dead_map
<1> QED
  BY <1>1, SameSpaces, AbstractStutter

LEMMA ExitMaps ==
  ASSUME Survives, sys_exit
  PROVE  Spaces!Next
<1>1. mem' = mem /\ pgdir' = pgdir /\ curr # 0
  BY DEF sys_exit, in_user
<1>2. status' = [status EXCEPT ![curr] = "ZOMBIE"] /\ curr \in Procs /\ curr \in used
      /\ status \in [Procs -> {"UNUSED", "READY", "ZOMBIE"}]
  BY <1>1, Here DEF sys_exit, Survives, IInv, TypeOK
<1>3. used' = used /\ dead_map' = dead_map \cup {curr}
  BY <1>2 DEF used, dead_map
<1>4. IsAlive(curr)
  BY <1>1, LiveIsAlive DEF Survives
<1>5. space_map' = space_map
  BY <1>1, <1>3, SameSpaces
<1> QED
  BY <1>3, <1>4, <1>5, AbstractExit

LEMMA ReapMaps ==
  ASSUME Survives, NEW z \in Procs, Reaps(z)
  PROVE  Spaces!Next
<1>1. /\ status' = [status EXCEPT ![z] = "UNUSED"] /\ pgdir' = pgdir /\ status[z] = "ZOMBIE"
      /\ status \in [Procs -> {"UNUSED", "READY", "ZOMBIE"}] /\ z # 0 /\ OwnDirs
  BY DEF Reaps, Survives, IInv, TypeOK, Running
<1>2. z \in used /\ used' = used \ {z} /\ z \in dead_map /\ dead_map' = dead_map \ {z}
  BY <1>1 DEF used, dead_map
<1>3. space_map'[z] = empty
  BY <1>2, SurvivesViews DEF SpacesAre, space_map
<1>4. ASSUME NEW p \in Procs, p # z PROVE space_map'[p] = space_map[p]
  <2>1. p \in used' <=> p \in used
    BY <1>2, <1>4
  <2>2. ASSUME p \in used PROVE \A u \in Pages : Keep(now, now', pgdir[p], u)
    <3>1. pgdir[p] \in Dirs \ {pgdir[z]}
      BY <1>1, <1>2, <1>4, <2>2 DEF Dirs, OwnDirs
    <3> QED
      BY <3>1 DEF Reaps, AllKeep
  <2> QED
    BY <1>1, <2>1, <2>2, SpaceKept, SurvivesViews
<1>5. space_map' = [space_map EXCEPT ![z] = empty]
  BY <1>3, <1>4, MapIsFunction
<1> QED
  BY <1>2, <1>5, AbstractReap

LEMMA ForkMaps ==
  ASSUME Survives, curr # 0, NEW c \in Procs, Forks(c)
  PROVE  Spaces!Next
<1>1. /\ status' = [status EXCEPT ![c] = "READY"] /\ status[c] = "UNUSED" /\ c # 0
      /\ status \in [Procs -> {"UNUSED", "READY", "ZOMBIE"}]
      /\ \A p \in Procs : p # c => pgdir'[p] = pgdir[p]
      /\ cr3 = pgdir[curr] /\ curr \in Procs
  BY DEF Forks, unused, Survives, IInv, TypeOK, Running
<1>2. c \notin used /\ used' = used \cup {c} /\ dead_map' = dead_map
  BY <1>1 DEF used, dead_map
<1>3. IsAlive(curr) /\ curr \in used /\ space_map[curr] = View(now, cr3)
  BY LiveIsAlive DEF Survives
<1>4. space_map[c] = empty
  BY <1>2, SurvivesViews DEF SpacesAre, space_map
<1>5. space_map'[c] = space_map[curr]
  <2>1. View(now', pgdir'[c]) = View(now, cr3)
    BY ViewSame DEF Forks
  <2>2. space_map'[c] = View(now', pgdir'[c])
    BY <1>2, SurvivesViews DEF SpacesAre, space_map
  <2> QED
    BY <1>3, <2>1, <2>2
<1>6. ASSUME NEW p \in Procs, p # c PROVE space_map'[p] = space_map[p]
  <2>1. p \in used' <=> p \in used
    BY <1>2, <1>6
  <2>2. ASSUME p \in used PROVE \A u \in Pages : Keep(now, now', pgdir[p], u)
    BY <2>2 DEF Forks, AllKeep, Dirs
  <2> QED
    BY <1>1, <1>6, <2>1, <2>2, SpaceKept, SurvivesViews
<1>7. space_map' = [space_map EXCEPT ![c] = space_map[curr]]
  BY <1>5, <1>6, MapIsFunction
<1> QED
  BY <1>2, <1>3, <1>4, <1>7, AbstractFork

\* A step that changes nothing but the space of the running process.
OnlyCurr(q) ==
  /\ curr # 0 /\ status' = status /\ curr' = curr
  /\ pgdir' = [pgdir EXCEPT ![curr] = q]
  /\ \A p \in used : p # curr => \A u \in Pages : Keep(now, now', pgdir[p], u)

LEMMA OnlyCurrMaps ==
  ASSUME Survives, NEW q, OnlyCurr(q)
  PROVE  /\ space_map' = [space_map EXCEPT ![curr] = View(now', q)]
         /\ dead_map' = dead_map /\ IsAlive(curr) /\ space_map[curr] = View(now, cr3)
<1>1. curr \in Procs /\ curr \in used /\ used' = used /\ dead_map' = dead_map
      /\ pgdir'[curr] = q /\ \A p \in Procs : p # curr => pgdir'[p] = pgdir[p]
  BY Here DEF Survives, IInv, TypeOK, OnlyCurr, used, dead_map
<1>2. IsAlive(curr) /\ space_map[curr] = View(now, cr3)
  BY LiveIsAlive DEF Survives, OnlyCurr
<1>3. space_map'[curr] = View(now', q)
  BY <1>1, SurvivesViews DEF SpacesAre, space_map
<1>4. ASSUME NEW p \in Procs, p # curr PROVE space_map'[p] = space_map[p]
  BY <1>1, <1>4, SpaceKept, SurvivesViews DEF OnlyCurr
<1>5. space_map' = [space_map EXCEPT ![curr] = View(now', q)]
  BY <1>3, <1>4, MapIsFunction
<1> QED
  BY <1>1, <1>2, <1>5

\* A space that is that of a program, at its start.
LEMMA ProgramView ==
  ASSUME NEW m, NEW q, NEW name \in DOMAIN Image, HasProgram(m, q, name)
  PROVE  View(m, q) = start_of(name)
<1>1. DOMAIN start_of(name) \subseteq Pages
  <2>1. \A s \in ToSet(Image[name].pages) : s.v \in Pages
    <3>1. Image[name].pages \in Seq([v : 0 .. Image[name].end - 1, w : BOOLEAN])
      BY VmeAssumption
    <3>2. ASSUME NEW s \in ToSet(Image[name].pages)
          PROVE  \E j \in 1 .. Len(Image[name].pages) : s = Image[name].pages[j]
      BY <3>1 DEF ToSet
    <3> QED
      BY <3>2, ImagePages
  <2>2. \A v \in DOMAIN start_of(name) : v = stack \/ \E s \in ToSet(Image[name].pages) : s.v = v
    BY DEF start_of
  <2> QED
    BY <2>1, <2>2, Sizes
<1>2. \A u \in Pages : /\ Mapped(m, q, u) <=> u \in DOMAIN start_of(name)
                       /\ Mapped(m, q, u) =>
                            m.mem[Slot(m, q, u).page].b = start_of(name)[u]
  BY DEF HasProgram
<1>3. {w \in Pages : Mapped(m, q, w)} = DOMAIN start_of(name)
  BY <1>1, <1>2
<1>4. start_of(name) = [v \in DOMAIN start_of(name) |-> start_of(name)[v]]
  BY DEF start_of
<1>5. View(m, q) = [v \in DOMAIN start_of(name) |-> start_of(name)[v]]
  BY <1>1, <1>2, <1>3 DEF View
<1> QED
  BY <1>4, <1>5

LEMMA ExecMaps ==
  ASSUME Survives, NEW name \in DOMAIN Image, Execs(name)
  PROVE  Spaces!Next
<1>1. OnlyCurr(cr3')
  <2>1. \A p \in used : p # curr => pgdir[p] \in Dirs \ {cr3}
    BY Here DEF Survives, IInv, Running, Dirs, OwnDirs, Execs
  <2> QED
    BY <2>1 DEF OnlyCurr, Execs, AllKeep
<1>2. View(now', cr3') = start_of(name)
  BY ProgramView DEF Execs
<1>3. /\ space_map' = [space_map EXCEPT ![curr] = start_of(name)]
      /\ dead_map' = dead_map /\ IsAlive(curr)
  BY <1>1, <1>2, OnlyCurrMaps
<1> QED
  BY <1>3, AbstractExec

LEMMA StoreMaps ==
  ASSUME Survives, NEW v \in Pages, NEW x \in Bytes, Stores(v, x)
  PROVE  Spaces!Next
<1>1. cr3 = pgdir[curr] /\ OwnDirs /\ cr3 \in Dirs /\ curr \in used
  BY Here DEF Survives, IInv, Running, Stores
<1>2. OnlyCurr(cr3)
  <2>1. \A p \in used : p # curr => pgdir[p] \in Dirs /\ pgdir[p] # cr3
    BY <1>1 DEF Dirs, OwnDirs
  <2>2. pgdir' = [pgdir EXCEPT ![curr] = cr3]
    BY <1>1 DEF Stores, Survives, IInv, TypeOK
  <2> QED
    BY <2>1, <2>2 DEF OnlyCurr, Stores, Writes
<1>3. View(now', cr3) = [View(now, cr3) EXCEPT ![v] = x]
  <2>1. \A u \in Pages : u # v => Keep(now, now', cr3, u)
    BY <1>1 DEF Stores, Writes
  <2>2. Mapped(now, cr3, v) /\ Mapped(now', cr3, v) /\ now'.mem[Slot(now', cr3, v).page].b = x
    BY DEF Stores, Writes
  <2>3. {w \in Pages : Mapped(now', cr3, w)} = {w \in Pages : Mapped(now, cr3, w)}
    BY <2>1, <2>2 DEF Keep
  <2>4. \A u \in {w \in Pages : Mapped(now, cr3, w)} :
          now'.mem[Slot(now', cr3, u).page].b =
            IF u = v THEN x ELSE now.mem[Slot(now, cr3, u).page].b
    BY <2>1, <2>2 DEF Keep
  <2> QED
    BY <2>3, <2>4 DEF View
<1>4. /\ space_map' = [space_map EXCEPT ![curr] = View(now', cr3)]
      /\ dead_map' = dead_map /\ IsAlive(curr) /\ space_map[curr] = View(now, cr3)
  BY <1>2, OnlyCurrMaps
<1>5. v \in DOMAIN space_map[curr]
  BY <1>4 DEF View, Stores
<1>6. space_map' = [space_map EXCEPT ![curr][v] = x]
  BY <1>3, <1>4
<1> QED
  BY <1>4, <1>5, <1>6, AbstractWrite

\* brk: the pages between the old break and the new one are mapped or unmapped.
LEMMA BrkViews ==
  ASSUME NEW m, NEW n, NEW D, NEW pd \in D, NEW i \in 0 .. stack, NEW k \in 0 .. stack,
         BreakMoves(m, n, D, pd, i, k),
         NEW V, V = View(m, pd), NEW W, W = View(n, pd)
  PROVE  W = V \/ \E a, b \in Pages : Grown(V, W, a, b) \/ Shrunk(V, W, a, b)
<1>1. /\ stack \in Nat /\ i \in Nat /\ i <= stack /\ k \in Nat /\ k <= stack
      /\ Pages = 0 .. stack
  BY VmeAssumption DEF Pages, stack
<1>2. /\ DOMAIN V = {w \in Pages : Mapped(m, pd, w)}
      /\ \A u \in DOMAIN V : V[u] = m.mem[Slot(m, pd, u).page].b
      /\ W = [u \in {w \in Pages : Mapped(n, pd, w)} |-> n.mem[Slot(n, pd, u).page].b]
  BY DEF View
<1>3. CASE (i = 0 \/ i = k) /\ n = m
  BY <1>3
<1>4. CASE 0 < i /\ i < k /\ MapsPages(m, n, D, pd, i .. k - 1, TRUE)
  <2>1. i \in Pages /\ k - 1 \in Pages /\ i .. k - 1 \subseteq Pages
    BY <1>1, <1>4
  <2>2. \A u \in Pages : u \notin i .. k - 1 => Keep(m, n, pd, u)
    BY <1>4 DEF MapsPages
  <2>3. \A u \in Pages : u \in i .. k - 1 =>
          /\ Mapped(n, pd, u)
          /\ Mapped(m, pd, u) => n.mem[Slot(n, pd, u).page].b = m.mem[Slot(m, pd, u).page].b
          /\ ~ Mapped(m, pd, u) => n.mem[Slot(n, pd, u).page].b = "zero"
    BY <1>4 DEF MapsPages
  <2>4. {w \in Pages : Mapped(n, pd, w)} = DOMAIN V \cup i .. k - 1
    BY <1>2, <2>1, <2>2, <2>3 DEF Keep
  <2>5. ASSUME NEW u \in DOMAIN V \cup i .. k - 1
        PROVE  n.mem[Slot(n, pd, u).page].b = IF u \in DOMAIN V THEN V[u] ELSE "zero"
    <3>1. CASE u \in i .. k - 1
      BY <1>2, <2>1, <2>3, <3>1
    <3>2. CASE u \notin i .. k - 1
      BY <1>2, <2>2, <2>5, <3>2 DEF Keep
    <3> QED
      BY <3>1, <3>2
  <2>6. Grown(V, W, i, k - 1)
    BY <1>2, <2>4, <2>5 DEF Grown
  <2> QED
    BY <2>1, <2>6
<1>5. CASE k < i /\ UnmapsPages(m, n, D, pd, k .. i - 1)
  <2>1. k \in Pages /\ i - 1 \in Pages
    BY <1>1, <1>5
  <2>2. \A u \in Pages : u \notin k .. i - 1 => Keep(m, n, pd, u)
    BY <1>5 DEF UnmapsPages
  <2>3. \A u \in Pages : u \in k .. i - 1 => ~ Mapped(n, pd, u)
    BY <1>5 DEF UnmapsPages
  <2>4. {w \in Pages : Mapped(n, pd, w)} = DOMAIN V \ (k .. i - 1)
    BY <1>2, <2>2, <2>3 DEF Keep
  <2>5. \A u \in DOMAIN V \ (k .. i - 1) : n.mem[Slot(n, pd, u).page].b = V[u]
    BY <1>2, <2>2 DEF Keep
  <2>6. Shrunk(V, W, k, i - 1)
    BY <1>2, <2>4, <2>5 DEF Shrunk
  <2> QED
    BY <2>1, <2>6
<1> QED
  BY <1>3, <1>4, <1>5 DEF BreakMoves

LEMMA BrkMaps ==
  ASSUME Survives, NEW addr \in 0 .. stack * PGSIZE, Brks(addr)
  PROVE  [Spaces!Next]_Spaces!vars
<1> DEFINE V == View(now, cr3)
           W == View(now', cr3)
<1>1. curr \in Procs /\ curr \in live /\ cr3 = pgdir[curr] /\ cr3 \in Dirs /\ OwnDirs
  BY Here, LiveIsAlive DEF Survives, IInv, TypeOK, Running, Brks
<1>2. PICK i \in 0 .. stack, k \in 0 .. stack : BreakMoves(now, now', Dirs, cr3, i, k)
  BY DEF Brks, BreakMoves
<1>3. OnlyCurr(cr3)
  <2>1. \A p \in used : p # curr => pgdir[p] \in Dirs /\ pgdir[p] # cr3
    BY <1>1 DEF Dirs, OwnDirs, live, used
  <2>2. pgdir' = [pgdir EXCEPT ![curr] = cr3]
    BY <1>1 DEF Brks, Survives, IInv, TypeOK
  <2>3. ASSUME NEW p \in used, p # curr, NEW u \in Pages PROVE Keep(now, now', pgdir[p], u)
    <3>1. CASE now' = now
      BY <3>1 DEF Keep
    <3>2. CASE MapsPages(now, now', Dirs, cr3, i .. k - 1, TRUE)
      BY <2>1, <2>3, <3>2 DEF MapsPages
    <3>3. CASE UnmapsPages(now, now', Dirs, cr3, k .. i - 1)
      BY <2>1, <2>3, <3>3 DEF UnmapsPages
    <3> QED
      BY <1>2, <3>1, <3>2, <3>3 DEF BreakMoves
  <2> QED
    BY <2>2, <2>3 DEF OnlyCurr, Brks
<1>4. /\ space_map' = [space_map EXCEPT ![curr] = W]
      /\ dead_map' = dead_map /\ IsAlive(curr) /\ space_map[curr] = V
  BY <1>3, OnlyCurrMaps
<1> HIDE DEF V, W
<1>5. V = View(now, cr3) /\ W = View(now', cr3)
  BY DEF V, W
<1>6. W = V \/ \E a, b \in Pages : Grown(V, W, a, b) \/ Shrunk(V, W, a, b)
  BY <1>1, <1>2, <1>5, BrkViews
<1>7. CASE W = V
  <2>1. space_map' = space_map
    BY <1>1, <1>4, <1>7, MapIsFunction
  <2> QED
    BY <1>4, <2>1, AbstractStutter
<1>8. ASSUME NEW a \in Pages, NEW b \in Pages, Grown(V, W, a, b) \/ Shrunk(V, W, a, b)
      PROVE  Spaces!Next
  BY <1>4, <1>8, AbstractMap
<1> QED
  BY <1>6, <1>7, <1>8

-----------------------------------------------------------------------------
(***************************************************************************)
(* The refinement.                                                         *)
(***************************************************************************)

\* The machine is not out of frames before the first program runs.
BootSucceeds == ok(load_user(kalloc(vm_alloc(boot)), 0, FirstProg))

LEMMA InitMaps ==
  ASSUME BootSucceeds, Init
  PROVE  Spaces!Init
<1>1. ok(now)
  BY DEF Init, BootSucceeds, ok, now
<1>2. IInv /\ HasProgram(now, pgdir[1], FirstProg) /\ used = {1}
  BY <1>1, InitInv
<1>3. View(now, pgdir[1]) = start_of(FirstProg) /\ FirstProg \in DOMAIN Image
  BY <1>2, ProgramView, VmeAssumption
<1>4. SpacesAre
  BY <1>1, <1>2, SpaceIsView
<1>5. 1 \in Procs
  BY VmeAssumption DEF Procs
<1>6. space_map = [q \in Procs |-> IF q = 1 THEN start_of(FirstProg) ELSE empty]
  BY <1>2, <1>3, <1>4 DEF SpacesAre, space_map
<1>7. dead_map = {}
  BY DEF Init, dead_map
<1>8. start_of(FirstProg) \in {start_of(n) : n \in DOMAIN Image}
  BY <1>3
<1> QED
  BY <1>5, <1>6, <1>7, <1>8 DEF Spaces!Init, Spaces!none, space_map, dead_map, empty

\* A call that stops the machine changes no page of a process.
LEMMA StopMaps ==
  ASSUME IInv, ~ ok(now'), [Next]_vars
  PROVE  [Spaces!Next]_Spaces!vars
<1>1. ASSUME NEW p \in Procs, schedule(p) PROVE FALSE
  <2>1. now' = now /\ ok(now)
    BY <1>1, ScheduleKeeps DEF schedule
  <2> QED
    BY <2>1
<1>2. ASSUME sys_exit PROVE FALSE
  <2>1. now' = now /\ ok(now)
    BY <1>2, ExitKeeps DEF sys_exit, in_user
  <2> QED
    BY <2>1
<1>3. ASSUME NEW m PROVE ~ commit(m)
  BY DEF commit, ok, now
<1>4. \A m : crash(m) => mem' = mem /\ pgdir' = pgdir /\ status' = status
  BY DEF crash
<1>5. ASSUME NEW p \in Procs, proc_free(p)
      PROVE  mem' = mem /\ pgdir' = pgdir /\ status' = status
  BY <1>3, <1>4, <1>5 DEF proc_free
<1>6. ASSUME sys_fork PROVE mem' = mem /\ pgdir' = pgdir /\ status' = status
  BY <1>3, <1>4, <1>6 DEF sys_fork
<1>7. ASSUME NEW name, sys_exec(name) PROVE mem' = mem /\ pgdir' = pgdir /\ status' = status
  BY <1>3, <1>4, <1>7 DEF sys_exec
<1>8. ASSUME NEW addr, sys_brk(addr) PROVE mem' = mem /\ pgdir' = pgdir /\ status' = status
  BY <1>3, <1>4, <1>8 DEF sys_brk
<1>9. ASSUME NEW v, NEW x, store(v, x) PROVE mem' = mem /\ pgdir' = pgdir /\ status' = status
  BY <1>3, <1>4, <1>9 DEF store
<1>10. UNCHANGED vars => mem' = mem /\ pgdir' = pgdir /\ status' = status
  BY DEF vars
<1>11. sbrk_first \/ (\E inc \in Increments : sbrk(inc)) => \E addr : sys_brk(addr)
  BY DEF sbrk_first, sbrk
<1>12. stopped => UNCHANGED vars
  BY DEF stopped
<1>13. mem' = mem /\ pgdir' = pgdir /\ status' = status
  BY <1>1, <1>2, <1>5, <1>6, <1>7, <1>8, <1>9, <1>10, <1>11, <1>12 DEF Next
<1>14. used' = used /\ dead_map' = dead_map
  BY <1>13 DEF used, dead_map
<1> QED
  BY <1>13, <1>14, SameSpaces, AbstractStutter

LEMMA StepMaps ==
  ASSUME Paths \subseteq DOMAIN Image, IInv, HInv, [Next]_vars
  PROVE  [Spaces!Next]_Spaces!vars
<1>1. CASE ~ ok(now')
  BY <1>1, StopMaps
<1>2. CASE ok(now') /\ ok(now)
  <2>0. Survives
    BY <1>2, StepKeeps DEF Survives
  <2>1. ASSUME NEW p \in Procs, schedule(p) PROVE [Spaces!Next]_Spaces!vars
    BY <2>0, <2>1, ScheduleMaps
  <2>2. ASSUME NEW p \in Procs, proc_free(p) PROVE Spaces!Next
    BY <1>2, <2>0, <2>2, ReapKeeps, ReapMaps
  <2>3. ASSUME sys_fork PROVE Spaces!Next
    <3>1. curr # 0
      BY <2>3 DEF sys_fork, in_user
    <3> QED
      BY <1>2, <2>0, <2>3, <3>1, ForkKeeps, ForkMaps
  <2>4. ASSUME sys_exit PROVE Spaces!Next
    BY <2>0, <2>4, ExitMaps
  <2>5. ASSUME NEW name \in Paths, sys_exec(name) PROVE Spaces!Next
    BY <1>2, <2>0, <2>5, ExecKeeps, ExecMaps
  <2>6. ASSUME sbrk_first \/ \E inc \in Increments : sbrk(inc)
        PROVE  [Spaces!Next]_Spaces!vars
    <3>1. PICK addr \in 0 .. stack * PGSIZE : Sbrks(addr)
      BY <2>6, SbrkIs
    <3>2. Brks(addr)
      BY <1>2, <3>1, BrkKeeps DEF Sbrks
    <3> QED
      BY <2>0, <3>2, BrkMaps
  <2>7. ASSUME NEW v \in Pages, NEW x \in Bytes, store(v, x) PROVE Spaces!Next
    BY <1>2, <2>0, <2>7, StoreKeeps, StoreMaps
  <2>8. ASSUME UNCHANGED vars PROVE [Spaces!Next]_Spaces!vars
    <3>1. mem' = mem /\ pgdir' = pgdir /\ used' = used /\ dead_map' = dead_map
      BY <2>8 DEF vars, used, dead_map
    <3> QED
      BY <3>1, SameSpaces, AbstractStutter
  <2>9. stopped => UNCHANGED vars
    BY DEF stopped
  <2> QED
    BY <2>1, <2>2, <2>3, <2>4, <2>5, <2>6, <2>7, <2>8, <2>9 DEF Next
<1>3. CASE ok(now') /\ ~ ok(now)
  <2>1. UNCHANGED vars
    BY <1>3 DEF Next, schedule, proc_free, sys_fork, sys_exit, sys_exec, sbrk_first, sbrk,
               store, stopped, in_user
  <2>2. mem' = mem /\ pgdir' = pgdir /\ used' = used /\ dead_map' = dead_map
    BY <2>1 DEF vars, used, dead_map
  <2> QED
    BY <2>2, SameSpaces, AbstractStutter
<1> QED
  BY <1>1, <1>2, <1>3

\* Page tables, frames and the free list give every process a space of its own: fork
\* copies it, exec replaces it, brk maps pages, which start with zeros unless they are
\* there already, or unmaps them, and no process changes a page of another (vme.c:
\* vm_map, vm_unmap, vm_copycurr, vm_teardown; loader.c: load_user).  A step that stops
\* the machine is a stutter.
THEOREM SeparateSpaces ==
  ASSUME Paths \subseteq DOMAIN Image, BootSucceeds
  PROVE  Spec => ImplementsAddressSpaces
<1>1. Init => Spaces!Init
  BY InitMaps
<1>2. IInv /\ HInv /\ [Next]_vars => [Spaces!Next]_Spaces!vars
  BY StepMaps
<1> QED
  BY <1>1, <1>2, HeapInvariant, PTL DEF Spec, ImplementsAddressSpaces, Spaces!Spec
=============================================================================
