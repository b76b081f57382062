---------------------------- MODULE SerialProof ----------------------------
(***************************************************************************)
(* Proofs about Serial: the process kernel with its console, for any       *)
(* number of readers and any size of the ring buffer.                      *)
(***************************************************************************)
EXTENDS ProcProof, Serial, SequenceTheorems

-----------------------------------------------------------------------------
(***************************************************************************)
(* Several V's at once: w waiters leave the list of s.                     *)
(***************************************************************************)

drained(s, w) == {wait_list[s][i] : i \in 1 .. w}

Drains(s, w) ==
  /\ w \in 0 .. Len(wait_list[s])
  /\ wait_list' = [wait_list EXCEPT ![s] = SubSeq(@, w + 1, Len(@))]
  /\ free_nodes' = free_nodes + w
  /\ status' = [p \in Procs |-> IF p \in drained(s, w) THEN "READY" ELSE status[p]]

LEMMA LesserOfTwo ==
  ASSUME NEW m \in Int, NEW n \in Int
  PROVE  Min({m, n}) = IF m <= n THEN m ELSE n
<1> DEFINE x == IF m <= n THEN m ELSE n
<1>1. x \in {m, n} /\ \A y \in {m, n} : x <= y
  OBVIOUS
<1>2. \A y \in {m, n} : (\A z \in {m, n} : y <= z) => y = x
  OBVIOUS
<1> HIDE DEF x
<1>3. Min({m, n}) = x
  BY <1>1, <1>2 DEF Min
<1> QED
  BY <1>3 DEF x

\* With a value that counts the waiters, n V's wake n of them or all of them,
\* and none is given NULL.
LEMMA DrainEffect ==
  ASSUME TypeOK, NEW s \in Sems, Counted(s), NEW n \in Nat, sem_v_times(s, n)
  PROVE  /\ value' = [value EXCEPT ![s] = @ + n] /\ halted' = FALSE
         /\ \E w \in Nat : /\ Drains(s, w)
                           /\ w = IF value[s] >= 0 THEN 0
                                  ELSE IF n <= -value[s] THEN n ELSE -value[s]
<1> DEFINE k == IF value[s] >= 0 THEN 0 ELSE Min({n, -value[s]})
           w == Min({k, Len(wait_list[s])})
<1>1. /\ value[s] \in Int /\ Len(wait_list[s]) \in Nat
      /\ Len(wait_list[s]) = IF value[s] < 0 THEN -value[s] ELSE 0
  BY DEF TypeOK, Counted
<1>2. k = IF value[s] >= 0 THEN 0 ELSE IF n <= -value[s] THEN n ELSE -value[s]
  BY <1>1, LesserOfTwo
<1>3. k \in 0 .. Len(wait_list[s])
  BY <1>1, <1>2
<1>4. w = k
  <2> HIDE DEF k
  <2> QED
    BY <1>1, <1>3, LesserOfTwo
<1>5. /\ value' = [value EXCEPT ![s] = @ + n]
      /\ wait_list' = [wait_list EXCEPT ![s] = SubSeq(@, w + 1, Len(@))]
      /\ free_nodes' = free_nodes + w /\ halted' = (k > w)
      /\ status' = [p \in Procs |-> IF \E i \in 1 .. w : wait_list[s][i] = p
                                    THEN "READY" ELSE status[p]]
  BY DEF sem_v_times
<1> HIDE DEF k, w
<1>6. halted' = FALSE
  <2>1. (k > w) = FALSE
    BY <1>1, <1>3, <1>4
  <2> QED
    BY <1>5, <2>1, Zenon
<1>7. \A p \in Procs : (\E i \in 1 .. w : wait_list[s][i] = p) <=> p \in drained(s, w)
  BY DEF drained
<1>8. Drains(s, w)
  BY <1>3, <1>4, <1>5, <1>7 DEF Drains
<1> QED
  BY <1>2, <1>3, <1>4, <1>5, <1>6, <1>8

\* Where the members of the lists are afterwards.
LEMMA AfterDrain ==
  ASSUME TypeOK, NEW s \in Sems, NEW w, Drains(s, w)
  PROVE  /\ Len(wait_list'[s]) = Len(wait_list[s]) - w /\ Len(wait_list[s]) \in Nat
         /\ \A t \in Sems : t # s => wait_list'[t] = wait_list[t]
         /\ \A i \in 1 .. Len(wait_list[s]) - w :
              wait_list'[s][i] = wait_list[s][w + i] /\ w + i \in 1 .. Len(wait_list[s])
         /\ wait_list' \in [Sems -> Seq(Procs)]
<1> DEFINE l == wait_list[s]
<1>1. l \in Seq(Procs) /\ Len(l) \in Nat /\ w \in 0 .. Len(l)
  BY DEF TypeOK, Drains
<1>2. \A i \in w + 1 .. Len(l) : l[i] \in Procs
  BY <1>1
<1>3. wait_list' = [wait_list EXCEPT ![s] = SubSeq(l, w + 1, Len(l))]
  BY DEF Drains
<1> HIDE DEF l
<1>4. /\ SubSeq(l, w + 1, Len(l)) \in Seq(Procs)
      /\ Len(SubSeq(l, w + 1, Len(l)))
           = IF w + 1 <= Len(l) THEN Len(l) - (w + 1) + 1 ELSE 0
      /\ \A i \in 1 .. Len(l) - (w + 1) + 1 :
           SubSeq(l, w + 1, Len(l))[i] = l[w + 1 + i - 1]
  BY <1>1, <1>2, SubSeqProperties
<1>5. wait_list'[s] = SubSeq(l, w + 1, Len(l))
  BY <1>3 DEF TypeOK
<1>6. Len(wait_list'[s]) = Len(l) - w
  BY <1>1, <1>4, <1>5
<1>7. \A i \in 1 .. Len(l) - w : wait_list'[s][i] = l[w + i] /\ w + i \in 1 .. Len(l)
  <2> SUFFICES ASSUME NEW i \in 1 .. Len(l) - w
               PROVE  wait_list'[s][i] = l[w + i] /\ w + i \in 1 .. Len(l)
    OBVIOUS
  <2>1. w + 1 + i - 1 = w + i /\ i \in 1 .. Len(l) - (w + 1) + 1 /\ w + i \in 1 .. Len(l)
    BY <1>1
  <2> QED
    BY <1>4, <1>5, <2>1
<1>8. wait_list' \in [Sems -> Seq(Procs)]
  BY <1>3, <1>4 DEF TypeOK
<1>9. \A t \in Sems : t # s => wait_list'[t] = wait_list[t]
  BY <1>3 DEF TypeOK
<1> QED
  BY <1>1, <1>6, <1>7, <1>8, <1>9 DEF l

\* The processes that leave the list: BLOCKED until now, for s and nothing else.
LEMMA DrainedWaited ==
  ASSUME TypeOK, WaitersBlocked, WaitersDistinct, NEW s \in Sems, NEW w, Drains(s, w)
  PROVE  /\ drained(s, w) \subseteq Procs
         /\ \A p \in drained(s, w) : /\ status[p] = "BLOCKED" /\ sem_arg[p] = s
                                     /\ status'[p] = "READY"
         /\ \A p \in Procs \ drained(s, w) : status'[p] = status[p]
         /\ IsFiniteSet(drained(s, w)) /\ Cardinality(drained(s, w)) = w
<1>1. w \in Nat /\ \A i \in 1 .. w : i \in 1 .. Len(wait_list[s])
  BY DEF Drains, TypeOK
<1>2. \A i \in 1 .. w : /\ wait_list[s][i] \in Procs
                        /\ status[wait_list[s][i]] = "BLOCKED"
                        /\ sem_arg[wait_list[s][i]] = s
  BY <1>1, WaiterIsProc DEF WaitersBlocked
<1>3. /\ drained(s, w) \subseteq Procs
      /\ \A p \in drained(s, w) : status[p] = "BLOCKED" /\ sem_arg[p] = s
  BY <1>2 DEF drained
<1>4. \A p \in Procs : status'[p] = IF p \in drained(s, w) THEN "READY" ELSE status[p]
  BY DEF Drains
<1>5. IsFiniteSet(drained(s, w)) /\ Cardinality(drained(s, w)) = w
  <2> DEFINE f == [i \in 1 .. w |-> wait_list[s][i]]
  <2>1. f \in [1 .. w -> drained(s, w)]
    BY DEF drained
  <2>2. \A i, j \in 1 .. w : f[i] = f[j] => i = j
    BY <1>1 DEF WaitersDistinct
  <2>3. \A p \in drained(s, w) : \E i \in 1 .. w : f[i] = p
    BY DEF drained
  <2> HIDE DEF f
  <2>4. f \in Bijection(1 .. w, drained(s, w))
    BY <2>1, <2>2, <2>3 DEF Bijection, Injection, Surjection, IsInjective
  <2>5. ExistsBijection(1 .. w, drained(s, w))
    BY <2>4 DEF ExistsBijection
  <2>6. IsFiniteSet(1 .. w) /\ Cardinality(1 .. w) = w
    BY <1>1, FS_Interval
  <2> QED
    BY <2>5, <2>6, FS_Bijection
<1> QED
  BY <1>3, <1>4, <1>5

LEMMA DrainNodes ==
  ASSUME TypeOK, FiniteNodes, NodesConserved, NEW s \in Sems, NEW w, Drains(s, w)
  PROVE  FiniteNodes' /\ NodesConserved'
<1> DEFINE L == Len(wait_list[s])
           D == {s} \X (L - w + 1 .. L)
<1>1. /\ Len(wait_list'[s]) = L - w /\ L \in Nat
      /\ \A t \in Sems : t # s => wait_list'[t] = wait_list[t]
  BY AfterDrain
<1>2. w \in 0 .. L /\ free_nodes' = free_nodes + w
  BY DEF Drains
<1>3. /\ IsFiniteSet(NodesOf(wait_list)) /\ Cardinality(NodesOf(wait_list)) \in Nat
      /\ free_nodes + Cardinality(NodesOf(wait_list)) = LIST_NUM
      /\ free_nodes \in Int /\ LIST_NUM \in Nat
  BY ProcAssumption, FS_CardinalityType
  DEF TypeOK, FiniteNodes, NodesConserved, NodesOf, queued
<1> HIDE DEF L
<1>4. \A t \in Sems, k \in Int :
        /\ k \in 1 .. Len(wait_list'[t])
             <=> k \in 1 .. Len(wait_list[t]) /\ ~ (t = s /\ k \in L - w + 1 .. L)
        /\ t = s /\ k \in L - w + 1 .. L => k \in 1 .. Len(wait_list[t])
  BY <1>1, <1>2 DEF L
<1>5. \A x \in Sems \X Int : x \in D <=> x[1] = s /\ x[2] \in L - w + 1 .. L
  <2> TAKE x \in Sems \X Int
  <2>1. x = <<x[1], x[2]>>
    OBVIOUS
  <2> QED
    BY <2>1
<1>6. D \subseteq Sems \X Int
  BY <1>1, <1>2
<1> HIDE DEF D
<1>7. D \subseteq NodesOf(wait_list) /\ NodesOf(wait_list') = NodesOf(wait_list) \ D
  <2>1. \A x \in Sems \X Int :
          /\ x[2] \in 1 .. Len(wait_list'[x[1]])
               <=> x[2] \in 1 .. Len(wait_list[x[1]]) /\ x \notin D
          /\ x \in D => x[2] \in 1 .. Len(wait_list[x[1]])
    <3> TAKE x \in Sems \X Int
    <3>1. x[1] \in Sems /\ x[2] \in Int
      OBVIOUS
    <3> QED
      BY <1>4, <1>5, <3>1
  <2> QED
    BY <1>6, <2>1, NodesOfIs
<1>8. Cardinality(D) = w
  <2> DEFINE a == L - w + 1
             I == a .. L
  <2>1. a \in Int /\ L \in Int /\ w \in Nat
        /\ (IF a > L THEN 0 ELSE L - a + 1) = w
    BY <1>1, <1>2
  <2> HIDE DEF a
  <2>2. IsFiniteSet(I) /\ Cardinality(I) = w
    BY <2>1, FS_Interval
  <2>3. IsFiniteSet({s}) /\ Cardinality({s}) = 1
    BY FS_Singleton
  <2> HIDE DEF I
  <2>4. Cardinality({s} \X I) = Cardinality({s}) * Cardinality(I)
    BY <2>2, <2>3, FS_Product
  <2> QED
    BY <2>1, <2>2, <2>3, <2>4 DEF D, I, a
<1>9. /\ IsFiniteSet(NodesOf(wait_list'))
      /\ Cardinality(NodesOf(wait_list')) = Cardinality(NodesOf(wait_list)) - w
  BY <1>3, <1>7, <1>8, TakenOut
<1> QED
  BY <1>1, <1>2, <1>3, <1>9 DEF FiniteNodes, NodesConserved, NodesOf, queued

LEMMA DrainQueues ==
  ASSUME SInv, Waits, NEW s \in Sems, NEW w, Drains(s, w), UNCHANGED <<curr, sem_arg>>
  PROVE  Sched' /\ BlockedWaits'
<1>1. /\ TypeOK /\ Sched /\ WaitersBlocked /\ WaitersDistinct /\ BlockedWaits
      /\ curr \in Procs
  BY DEF SInv, Sched, Waits, TypeOK
<1>2. /\ Len(wait_list'[s]) = Len(wait_list[s]) - w /\ Len(wait_list[s]) \in Nat
      /\ \A t \in Sems : t # s => wait_list'[t] = wait_list[t]
      /\ \A i \in 1 .. Len(wait_list[s]) - w :
           wait_list'[s][i] = wait_list[s][w + i] /\ w + i \in 1 .. Len(wait_list[s])
      /\ w \in 0 .. Len(wait_list[s])
  BY <1>1, AfterDrain DEF Drains
<1>3. /\ \A p \in drained(s, w) : status[p] = "BLOCKED" /\ sem_arg[p] = s
                                     /\ status'[p] = "READY"
      /\ \A p \in Procs \ drained(s, w) : status'[p] = status[p]
      /\ drained(s, w) \subseteq Procs
  BY <1>1, DrainedWaited
<1>4. OnlyCurrRuns' /\ IdleCanRun'
  BY <1>1, <1>3, ZeroIsProc DEF Sched, OnlyCurrRuns, IdleCanRun
<1>5. \A i \in 1 .. Len(wait_list[s]) :
        wait_list[s][i] \in drained(s, w) => i \in 1 .. w
  <2> SUFFICES ASSUME NEW i \in 1 .. Len(wait_list[s]), NEW j \in 1 .. w,
                      wait_list[s][i] = wait_list[s][j]
               PROVE  i \in 1 .. w
    BY DEF drained
  <2>1. j \in 1 .. Len(wait_list[s])
    BY <1>2
  <2> QED
    BY <1>1, <2>1 DEF WaitersDistinct
<1>6. WaitersBlocked'
  <2> SUFFICES ASSUME NEW t \in Sems, NEW i \in 1 .. Len(wait_list'[t])
               PROVE  /\ status'[wait_list'[t][i]] = "BLOCKED"
                      /\ sem_arg[wait_list'[t][i]] = t
    BY DEF WaitersBlocked
  <2>1. CASE t = s
    <3>1. /\ w + i \in 1 .. Len(wait_list[s]) /\ w + i \notin 1 .. w
          /\ wait_list'[s][i] = wait_list[s][w + i]
      BY <1>2, <2>1
    <3>2. wait_list[s][w + i] \in Procs \ drained(s, w)
      BY <1>1, <1>5, <3>1, WaiterIsProc
    <3> QED
      BY <1>1, <1>3, <2>1, <3>1, <3>2 DEF WaitersBlocked
  <2>2. CASE t # s
    <3>1. /\ wait_list'[t][i] = wait_list[t][i] /\ i \in 1 .. Len(wait_list[t])
          /\ wait_list[t][i] \in Procs
      BY <1>1, <1>2, <2>2, WaiterIsProc
    <3> QED
      BY <1>1, <1>3, <2>2, <3>1 DEF WaitersBlocked
  <2> QED
    BY <2>1, <2>2
<1>7. WaitersDistinct'
  <2> SUFFICES ASSUME NEW t \in Sems, NEW i \in 1 .. Len(wait_list'[t]),
                      NEW j \in 1 .. Len(wait_list'[t]),
                      wait_list'[t][i] = wait_list'[t][j]
               PROVE  i = j
    BY DEF WaitersDistinct
  <2>1. CASE t = s
    <3>1. /\ i \in 1 .. Len(wait_list[s]) - w /\ j \in 1 .. Len(wait_list[s]) - w
          /\ w + i \in 1 .. Len(wait_list[s]) /\ w + j \in 1 .. Len(wait_list[s])
          /\ wait_list[s][w + i] = wait_list[s][w + j]
      BY <1>2, <2>1
    <3>2. w + i = w + j
      BY <1>1, <3>1 DEF WaitersDistinct
    <3> QED
      BY <1>2, <3>1, <3>2
  <2>2. CASE t # s
    BY <1>1, <1>2, <2>2 DEF WaitersDistinct
  <2> QED
    BY <2>1, <2>2
<1>8. BlockedWaits'
  <2> SUFFICES ASSUME NEW p \in Procs, status'[p] = "BLOCKED"
               PROVE  \E t \in Sems : \E k \in 1 .. Len(wait_list'[t]) :
                        wait_list'[t][k] = p
    BY DEF BlockedWaits
  <2>1. p \notin drained(s, w) /\ status[p] = "BLOCKED"
    BY <1>3
  <2>2. PICK t \in Sems : \E k \in 1 .. Len(wait_list[t]) : wait_list[t][k] = p
    BY <1>1, <2>1 DEF BlockedWaits
  <2>3. PICK k \in 1 .. Len(wait_list[t]) : wait_list[t][k] = p
    BY <2>2
  <2>4. CASE t = s
    <3>1. k \notin 1 .. w
      BY <2>1, <2>3, <2>4 DEF drained
    <3>2. k - w \in 1 .. Len(wait_list[s]) - w /\ w + (k - w) = k
      BY <1>2, <2>4, <3>1
    <3>3. wait_list'[s][k - w] = p /\ k - w \in 1 .. Len(wait_list'[s])
      BY <1>2, <2>3, <2>4, <3>2
    <3> QED
      BY <3>3
  <2>5. CASE t # s
    BY <1>2, <2>3, <2>5
  <2> QED
    BY <2>4, <2>5
<1> QED
  BY <1>4, <1>6, <1>7, <1>8 DEF Sched

LEMMA DrainCounted ==
  ASSUME TypeOK, NEW s \in Sems, Counted(s), NEW n \in Nat, sem_v_times(s, n)
  PROVE  \A t \in Sems : Counted(t) => Counted(t)'
<1>1. value' = [value EXCEPT ![s] = @ + n] /\ value \in [Sems -> Int]
  BY DrainEffect DEF TypeOK
<1>2. PICK w \in Nat : /\ Drains(s, w)
                       /\ w = IF value[s] >= 0 THEN 0
                              ELSE IF n <= -value[s] THEN n ELSE -value[s]
  BY DrainEffect
<1>3. /\ Len(wait_list'[s]) = Len(wait_list[s]) - w
      /\ \A t \in Sems : t # s => wait_list'[t] = wait_list[t]
  BY <1>2, AfterDrain
<1>4. value'[s] = value[s] + n /\ \A t \in Sems : t # s => value'[t] = value[t]
  BY <1>1
<1> QED
  BY <1>1, <1>2, <1>3, <1>4 DEF Counted

\* The V's of serial.c keep the invariant of the process kernel.
LEMMA DrainStep ==
  ASSUME FInv, NEW s \in Sems \ Procs, Counted(s), NEW n \in Nat,
         sem_v_times(s, n),
         UNCHANGED <<curr, ctx, sem_arg, sleep, parent, child_num, usems, ref, tick>>
  PROVE  FInv'
<1>1. WInv /\ SInv /\ TypeOK /\ Waits /\ WaitersBlocked /\ WaitersDistinct
      /\ KernelCounted /\ Family
  BY DEF FInv, WInv, SInv, Sched
<1>2. PICK w \in Nat : Drains(s, w)
  BY <1>1, DrainEffect
<1>3. value' = [value EXCEPT ![s] = value[s] + n] /\ halted' = FALSE
  BY <1>1, DrainEffect
<1>4. /\ drained(s, w) \subseteq Procs
      /\ \A p \in drained(s, w) : /\ status[p] = "BLOCKED" /\ sem_arg[p] = s
                                  /\ status'[p] = "READY"
      /\ \A p \in Procs \ drained(s, w) : status'[p] = status[p]
  BY <1>1, <1>2, DrainedWaited
<1>5. TypeOK'
  <2>1. status' \in [Procs -> Status] /\ free_nodes' \in Int
    BY <1>1, <1>2 DEF Drains, TypeOK, Status
  <2>2. wait_list' \in [Sems -> Seq(Procs)]
    BY <1>1, <1>2, AfterDrain
  <2>3. value' \in [Sems -> Int]
    BY <1>1, <1>3 DEF TypeOK
  <2> QED
    BY <1>1, <1>3, <2>1, <2>2, <2>3 DEF TypeOK
<1>6. SInv' /\ BlockedWaits'
  BY <1>1, <1>2, <1>5, DrainQueues DEF SInv
<1>7. FiniteNodes' /\ NodesConserved'
  BY <1>1, <1>2, DrainNodes DEF Waits
<1>8. \A p \in Procs : /\ live(p)' <=> live(p)
                       /\ status'[p] = "ZOMBIE" <=> status[p] = "ZOMBIE"
                       /\ status'[p] = "UNUSED" <=> status[p] = "UNUSED"
  BY <1>4 DEF live
<1>9. Waits'
  <2>1. RefExact'
    BY <1>1, <1>8, RefsKept DEF Waits
  <2>2. CtxArg' /\ DeadNowhere'
    BY <1>1, <1>8 DEF Waits, CtxArg, DeadNowhere
  <2> QED
    BY <1>6, <1>7, <2>1, <2>2 DEF Waits
<1>10. KernelCounted'
  BY <1>1, DrainCounted DEF KernelCounted
<1>11. Family'
  <2>1. \A p \in Procs : value'[p] = value[p]
    BY <1>1, <1>3, ValueElsewhere
  <2>2. \A p \in Procs : woken(p, p)' <=> woken(p, p)
    BY <1>4 DEF woken
  <2> QED
    BY <1>1, <1>5, <1>8, <2>1, <2>2, QuietFamily
<1> QED
  BY <1>6, <1>9, <1>10, <1>11 DEF FInv, WInv

-----------------------------------------------------------------------------
(***************************************************************************)
(* The invariant of the console.  A character of a finished line is        *)
(* counted by the value of serial_sem or by a reader that a V has woken.   *)
(***************************************************************************)

readers == {p \in Procs : woken(p, serial_sem)}
units == IF value[serial_sem] > 0 THEN value[serial_sem] ELSE 0

Ring ==
  /\ head \in 0 .. BUFFER_SIZE - 1 /\ clapboard \in Nat /\ tail \in Nat
  /\ head <= clapboard /\ clapboard <= tail
  /\ buffer \in [0 .. BUFFER_SIZE - 1 -> Chars \cup {"nul"}]
  /\ left \in [Procs -> Int]

\* The places below tail have been written since the buffer was empty.
Written == \A k \in 0 .. BUFFER_SIZE - 1 : k < tail => buffer[k] \in Chars

LineCredits == clapboard - head = units + Cardinality(readers)

LInv == FInv /\ Ring /\ Written /\ LineCredits

LEMMA SerialSem == serial_sem \in Sems \ Procs /\ serial_sem \in Sems \ user_sem
  BY SemKinds

LEMMA ReadersFinite ==
  /\ IsFiniteSet(readers) /\ Cardinality(readers) \in Nat
  /\ IsFiniteSet(readers') /\ Cardinality(readers') \in Nat
  BY HoldersFinite, FS_Subset, FS_CardinalityType DEF readers

LEMMA SlotType == \A k \in Nat : slot(k) \in 0 .. BUFFER_SIZE - 1
  BY SerialAssumption DEF slot

LEMMA SlotBelow == \A k \in 0 .. BUFFER_SIZE - 1 : slot(k) = k
  BY SerialAssumption DEF slot

\* A finished line gives its readers as many units as it has characters.
LEMMA LineUnits ==
  ASSUME FInv, NEW n \in Nat, sem_v_times(serial_sem, n), UNCHANGED sem_arg
  PROVE  units' + Cardinality(readers') = units + Cardinality(readers) + n
<1> DEFINE s == serial_sem
<1>1. /\ TypeOK /\ WaitersBlocked /\ WaitersDistinct /\ Counted(s) /\ s \in Sems
      /\ value[s] \in Int /\ value \in [Sems -> Int]
  BY SerialSem DEF FInv, WInv, SInv, Sched, KernelCounted, TypeOK
<1>2. PICK w \in Nat : /\ Drains(s, w)
                       /\ w = IF value[s] >= 0 THEN 0
                              ELSE IF n <= -value[s] THEN n ELSE -value[s]
  BY <1>1, DrainEffect
<1>3. value'[s] = value[s] + n
  BY <1>1, DrainEffect
<1>4. /\ drained(s, w) \subseteq Procs
      /\ \A p \in drained(s, w) : /\ status[p] = "BLOCKED" /\ sem_arg[p] = s
                                  /\ status'[p] = "READY"
      /\ \A p \in Procs \ drained(s, w) : status'[p] = status[p]
      /\ IsFiniteSet(drained(s, w)) /\ Cardinality(drained(s, w)) = w
  BY <1>1, <1>2, DrainedWaited
<1>5. readers' = readers \cup drained(s, w) /\ readers \cap drained(s, w) = {}
  BY <1>4 DEF readers, woken
<1>6. Cardinality(readers') = Cardinality(readers) + w
  BY <1>4, <1>5, ReadersFinite, DisjointUnion
<1>7. units' + w = units + n
  BY <1>1, <1>2, <1>3 DEF units
<1>8. units \in Int /\ units' \in Int
  BY <1>1, <1>3 DEF units
<1> QED
  BY <1>2, <1>6, <1>7, <1>8, ReadersFinite

-----------------------------------------------------------------------------
(***************************************************************************)
(* The steps of the process kernel leave the console alone.                *)
(***************************************************************************)

\* A reader that a V has woken is inside of getchar and in no list any more.
LEMMA ReadersAre ==
  WInv => \A p \in Procs :
            woken(p, serial_sem)
              <=> /\ ctx[p] = "getchar"
                  /\ ~ \E k \in 1 .. Len(wait_list[serial_sem]) :
                         wait_list[serial_sem][k] = p
<1> SUFFICES ASSUME WInv, NEW p \in Procs
             PROVE  woken(p, serial_sem)
                      <=> /\ ctx[p] = "getchar"
                          /\ ~ \E k \in 1 .. Len(wait_list[serial_sem]) :
                                 wait_list[serial_sem][k] = p
  OBVIOUS
<1>1. /\ TypeOK /\ CtxArg /\ DeadNowhere /\ BlockedWaits /\ WaitersBlocked
      /\ serial_sem \in Sems
  BY SemKinds DEF WInv, SInv, Sched, Waits
<1>2. sem_arg[p] = serial_sem <=> ctx[p] = "getchar"
  BY <1>1, ArgKind, SemKinds DEF CtxArg
<1>3. ctx[p] = "getchar" =>
        (status[p] \in {"READY", "RUNNING"} <=> status[p] # "BLOCKED")
  BY <1>1 DEF DeadNowhere, TypeOK, Status
<1>4. ASSUME sem_arg[p] = serial_sem, status[p] = "BLOCKED"
      PROVE  \E k \in 1 .. Len(wait_list[serial_sem]) : wait_list[serial_sem][k] = p
  <2>1. PICK s \in Sems : \E k \in 1 .. Len(wait_list[s]) : wait_list[s][k] = p
    BY <1>1, <1>4 DEF BlockedWaits
  <2>2. s = serial_sem
    BY <1>1, <1>4, <2>1 DEF WaitersBlocked
  <2> QED
    BY <2>1, <2>2
<1>5. (\E k \in 1 .. Len(wait_list[serial_sem]) : wait_list[serial_sem][k] = p)
        => status[p] = "BLOCKED"
  BY <1>1 DEF WaitersBlocked
<1> QED
  BY <1>2, <1>3, <1>4, <1>5 DEF woken

LEMMA ReadersKept ==
  ASSUME WInv, WInv', value'[serial_sem] = value[serial_sem],
         wait_list'[serial_sem] = wait_list[serial_sem],
         \A p \in Procs : ctx'[p] = "getchar" <=> ctx[p] = "getchar"
  PROVE  units' = units /\ readers' = readers
<1>1. (WInv => \A p \in Procs :
        woken(p, serial_sem)
          <=> /\ ctx[p] = "getchar"
              /\ ~ \E k \in 1 .. Len(wait_list[serial_sem]) :
                     wait_list[serial_sem][k] = p)'
  BY ReadersAre, PTL
<1>2. \A p \in Procs : woken(p, serial_sem)' <=> woken(p, serial_sem)
  BY <1>1, ReadersAre
<1> QED
  BY <1>2 DEF units, readers

LEMMA OtherSem ==
  ASSUME TypeOK, NEW s \in Sems, s # serial_sem,
         sem_p_takes(s) \/ sem_v(s) \/ \E c \in Ctx : sem_p_blocks(s, c)
  PROVE  /\ value'[serial_sem] = value[serial_sem]
         /\ wait_list'[serial_sem] = wait_list[serial_sem]
<1>1. /\ serial_sem \in Sems /\ value \in [Sems -> Int]
      /\ wait_list \in [Sems -> Seq(Procs)]
  BY SemKinds DEF TypeOK
<1> QED
  BY <1>1
  DEF sem_p_takes, sem_v, sem_p_blocks, list_enqueue, list_dequeue

LEMMA KernelStep ==
  ASSUME WInv, Next
  PROVE  /\ value'[serial_sem] = value[serial_sem]
         /\ wait_list'[serial_sem] = wait_list[serial_sem]
         /\ \A p \in Procs : ctx'[p] = "getchar" <=> ctx[p] = "getchar"
<1>1. /\ SInv /\ TypeOK /\ CtxArg /\ DeadNowhere /\ curr \in Procs
      /\ ctx \in [Procs -> Ctx] /\ value \in [Sems -> Int] /\ serial_sem \in Sems
      /\ wait_list \in [Sems -> Seq(Procs)]
  BY SemKinds DEF WInv, SInv, Waits, TypeOK
<1>2. \A p \in Procs : p \in Sems /\ p # serial_sem /\ zombie_sem(p) = p
  BY SemKinds, SemTypes, ZeroIsProc
<1>3. \A u \in user_sem : u \in Sems /\ u # serial_sem
  BY SemKinds, SemTypes
<1>4. CASE UNCHANGED vars
  BY <1>4 DEF vars
<1>5. CASE timer_handle \/ sys_yield \/ sys_sleep_again
             \/ \E n \in SleepTicks : sys_sleep(n)
  BY <1>1, <1>5, TimerEffect
<1>6. CASE sys_fork
  <2>1. CASE ~ UNCHANGED vars
    <3>1. PICK c \in Procs : /\ status[c] = "UNUSED"
                             /\ ctx' = [ctx EXCEPT ![c] = "user"]
                             /\ value' = [value EXCEPT ![c] = 0]
                             /\ wait_list' = wait_list
      BY <1>6, <2>1, ForkEffect
    <3> QED
      BY <1>1, <1>2, <3>1 DEF DeadNowhere
  <2> QED
    BY <1>4, <2>1
<1>7. CASE sys_exit
  <2>1. ctx[curr] = "user" /\ ctx' = [ctx EXCEPT ![curr] = "none"]
    BY <1>7 DEF sys_exit, in_user
  <2>2. \/ UNCHANGED <<value, wait_list>>
        \/ parent[curr] \in Procs /\ sem_v(parent[curr])
    BY <1>1, <1>2, <1>7, ExitEffect
  <2>3. /\ value'[serial_sem] = value[serial_sem]
        /\ wait_list'[serial_sem] = wait_list[serial_sem]
    BY <1>1, <1>2, <2>2, OtherSem
  <2> QED
    BY <1>1, <2>1, <2>3
<1>8. CASE sys_wait
  <2>1. \/ UNCHANGED vars
        \/ sem_p_takes(curr) /\ ctx' = ctx
        \/ sem_p_blocks(curr, "wait")
    BY <1>1, <1>2, <1>8 DEF sys_wait
  <2>2. CASE sem_p_takes(curr) /\ ctx' = ctx
    BY <1>1, <1>2, <2>2, OtherSem
  <2>3. CASE sem_p_blocks(curr, "wait")
    <3>1. "wait" \in Ctx /\ ctx[curr] = "user"
      BY <1>8 DEF Ctx, sys_wait, in_user
    <3>2. ctx' = [ctx EXCEPT ![curr] = "wait"]
      BY <2>3 DEF sem_p_blocks
    <3> QED
      BY <1>1, <1>2, <2>3, <3>1, <3>2, OtherSem
  <2> QED
    BY <1>4, <2>1, <2>2, <2>3
<1>9. CASE sys_wait_woken \/ sys_sem_p_woken
  <2>1. /\ ctx[curr] \in {"wait", "semp"} /\ ctx' = [ctx EXCEPT ![curr] = "user"]
        /\ UNCHANGED <<value, wait_list>>
    BY <1>9 DEF sys_wait_woken, sys_sem_p_woken, resumes
  <2> QED
    BY <1>1, <2>1
<1>10. ASSUME NEW v \in InitValues, sys_sem_open(v)
       PROVE  /\ value'[serial_sem] = value[serial_sem]
              /\ wait_list'[serial_sem] = wait_list[serial_sem]
              /\ \A p \in Procs : ctx'[p] = "getchar" <=> ctx[p] = "getchar"
  <2>1. CASE ~ UNCHANGED vars
    <3>1. PICK u \in user_sem : /\ value' = [value EXCEPT ![u] = v]
                                /\ UNCHANGED <<ctx, wait_list>>
      BY <1>10, <2>1, OpenEffect
    <3> QED
      BY <1>1, <1>3, <3>1
  <2> QED
    BY <1>4, <2>1
<1>11. ASSUME NEW i \in Fds,
              sys_sem_p(i) \/ sys_sem_v(i) \/ sys_sem_close(i) \/ sys_sem_bad(i)
       PROVE  /\ value'[serial_sem] = value[serial_sem]
              /\ wait_list'[serial_sem] = wait_list[serial_sem]
              /\ \A p \in Procs : ctx'[p] = "getchar" <=> ctx[p] = "getchar"
  <2> DEFINE s == usems[curr][i]
  <2>1. CASE sys_sem_close(i) \/ sys_sem_bad(i)
    BY <1>1, <2>1 DEF sys_sem_close, sys_sem_bad, vars
  <2>2. CASE sys_sem_p(i) \/ sys_sem_v(i)
    <3>1. s \in user_sem /\ ctx[curr] = "user"
      BY <1>1, <2>2 DEF sys_sem_p, sys_sem_v, in_user, TypeOK
    <3>2. \/ (sem_p_takes(s) \/ sem_v(s)) /\ ctx' = ctx
          \/ sem_p_blocks(s, "semp") /\ ctx' = [ctx EXCEPT ![curr] = "semp"]
      BY <2>2 DEF sys_sem_p, sys_sem_v, sem_p_blocks
    <3> HIDE DEF s
    <3>3. "semp" \in Ctx
      BY DEF Ctx
    <3>4. /\ value'[serial_sem] = value[serial_sem]
          /\ wait_list'[serial_sem] = wait_list[serial_sem]
      BY <1>1, <1>3, <3>1, <3>2, <3>3, OtherSem
    <3> QED
      BY <1>1, <3>1, <3>2, <3>4
  <2> QED
    BY <1>11, <2>1, <2>2
<1> QED
  BY <1>5, <1>6, <1>7, <1>8, <1>9, <1>10, <1>11 DEF Next, Kernel, Syscall

LEMMA KernelLines ==
  ASSUME LInv, [Next]_vars, UNCHANGED svars PROVE LInv'
<1>1. FInv /\ FInv' /\ WInv /\ WInv'
  BY NextFamily DEF LInv, FInv
<1>2. /\ value'[serial_sem] = value[serial_sem]
      /\ wait_list'[serial_sem] = wait_list[serial_sem]
      /\ \A p \in Procs : ctx'[p] = "getchar" <=> ctx[p] = "getchar"
  BY <1>1, KernelStep DEF vars
<1>3. units' = units /\ readers' = readers
  BY <1>1, <1>2, ReadersKept
<1> QED
  BY <1>1, <1>3 DEF LInv, svars, Ring, Written, LineCredits

-----------------------------------------------------------------------------
(***************************************************************************)
(* The steps of the console.                                               *)
(***************************************************************************)

\* A received character.
LEMMA HandleLines ==
  ASSUME LInv, NEW c \in Chars, serial_handle(c) PROVE LInv' /\ halted' = FALSE
<1>1. /\ FInv /\ Ring /\ Written /\ LineCredits
      /\ head \in Nat /\ clapboard \in Nat /\ tail \in Nat /\ tail >= clapboard
      /\ head <= clapboard /\ BUFFER_SIZE \in Nat
      /\ buffer \in [0 .. BUFFER_SIZE - 1 -> Chars \cup {"nul"}]
  BY SerialAssumption DEF LInv, Ring
<1>2. /\ buffer' = [buffer EXCEPT ![slot(tail)] = c] /\ tail' = tail + 1
      /\ head' = head /\ left' = left /\ ~halted
      /\ UNCHANGED <<curr, ctx, sem_arg, sleep, parent, child_num, usems, ref, tick>>
  BY DEF serial_handle, push_back, interruptible
<1>3. slot(tail) \in 0 .. BUFFER_SIZE - 1
  BY <1>1, SlotType
<1>4. Written'
  <2> SUFFICES ASSUME NEW k \in 0 .. BUFFER_SIZE - 1, k < tail + 1
               PROVE  buffer'[k] \in Chars
    BY <1>2 DEF Written
  <2>1. CASE k = slot(tail)
    BY <1>1, <1>2, <2>1
  <2>2. CASE k # slot(tail)
    <3>1. k # tail
      BY <2>2, SlotBelow
    <3>2. k < tail
      BY <1>1, <3>1
    <3> QED
      BY <1>1, <1>2, <2>2, <3>2 DEF Written
  <2> QED
    BY <2>1, <2>2
<1>5. buffer' \in [0 .. BUFFER_SIZE - 1 -> Chars \cup {"nul"}]
  BY <1>1, <1>2
<1>6. CASE c = "newline"
  <2> DEFINE n == tail + 1 - clapboard
  <2>1. sem_v_times(serial_sem, n) /\ clapboard' = tail + 1
    BY <1>6 DEF serial_handle, push_back
  <2>2. n \in Nat
    BY <1>1
  <2>3. Counted(serial_sem) /\ TypeOK
    BY <1>1, SerialSem DEF FInv, KernelCounted, WInv, SInv
  <2> HIDE DEF n
  <2>4. FInv' /\ halted' = FALSE
    BY <1>1, <1>2, <2>1, <2>2, <2>3, DrainStep, DrainEffect, SerialSem
  <2>5. units' + Cardinality(readers') = units + Cardinality(readers) + n
    BY <1>1, <1>2, <2>1, <2>2, LineUnits
  <2>6. Ring'
    BY <1>1, <1>2, <1>5, <2>1 DEF Ring
  <2>7. LineCredits'
    BY <1>1, <1>2, <2>1, <2>5 DEF LineCredits, n
  <2> QED
    BY <1>4, <2>4, <2>6, <2>7 DEF LInv
<1>7. CASE c # "newline"
  <2>1. UNCHANGED <<value, wait_list, free_nodes, status, halted, clapboard>>
    BY <1>7 DEF serial_handle, push_back
  <2>2. FInv'
    BY <1>1, <1>2, <2>1, NextFamily DEF vars
  <2>3. units' = units /\ readers' = readers
    BY <1>2, <2>1 DEF units, readers, woken
  <2>4. Ring'
    BY <1>1, <1>2, <1>5, <2>1 DEF Ring
  <2> QED
    BY <1>1, <1>2, <1>4, <2>1, <2>2, <2>3, <2>4
    DEF LInv, LineCredits, FInv, WInv, SInv, TypeOK
<1> QED
  BY <1>6, <1>7

LEMMA BackspaceLines ==
  ASSUME LInv, serial_backspace PROVE LInv' /\ halted' = FALSE
<1>1. /\ UNCHANGED <<vars, buffer, head, clapboard, left>> /\ ~halted
      /\ tail' = IF tail > clapboard THEN tail - 1 ELSE tail
  BY DEF serial_backspace, interruptible
<1>2. FInv /\ FInv' /\ halted' = FALSE
  BY <1>1, NextFamily DEF LInv, vars, FInv, WInv, SInv, TypeOK
<1>3. Ring' /\ Written'
  BY <1>1, SerialAssumption DEF LInv, Ring, Written
<1>4. units' = units /\ readers' = readers
  BY <1>1 DEF units, readers, woken, vars
<1> QED
  BY <1>1, <1>2, <1>3, <1>4 DEF LInv, LineCredits

\* curr goes on from one place in serial_read to the next.
LEMMA ReaderStep ==
  ASSUME FInv, in_user \/ resumes("read") \/ resumes("getchar"),
         NEW c \in {"user", "read"}, ctx' = [ctx EXCEPT ![curr] = c],
         sem_arg' = [sem_arg EXCEPT ![curr] = NULL],
         value' = value \/ sem_p_takes(serial_sem), halted' \in BOOLEAN,
         UNCHANGED <<curr, status, sleep, parent, child_num, wait_list,
                     free_nodes, usems, ref, tick>>
  PROVE  FInv'
<1>1. /\ WInv /\ SInv /\ TypeOK /\ Sched /\ Waits /\ KernelCounted /\ Family
      /\ curr # 0 /\ curr \in Procs /\ 0 \in Procs /\ status[curr] = "RUNNING"
      /\ ctx[curr] \in {"user", "read", "getchar"} /\ serial_sem \in Sems
  BY UserStep, SemKinds DEF FInv, WInv, in_user, resumes
<1>2. value' = value \/ value' = [value EXCEPT ![serial_sem] = value[serial_sem] - 1]
  BY DEF sem_p_takes
<1>3. TypeOK'
  <2>1. value' \in [Sems -> Int]
    BY <1>1, <1>2 DEF TypeOK
  <2>2. ctx' \in [Procs -> Ctx] /\ sem_arg' \in [Procs -> Sems \cup {NULL}]
    BY <1>1 DEF TypeOK, Ctx
  <2> QED
    BY <1>1, <2>1, <2>2 DEF TypeOK
<1>4. SInv'
  <2>1. WaitersBlocked' /\ WaitersDistinct'
    BY <1>1, WaitersShrink DEF Sched, TypeOK
  <2>2. ctx'[0] = "idle" /\ OnlyCurrRuns' /\ IdleCanRun'
    BY <1>1 DEF SInv, Sched, OnlyCurrRuns, IdleCanRun, TypeOK
  <2> QED
    BY <1>3, <2>1, <2>2 DEF SInv, Sched
<1>5. Waits'
  <2>1. CtxArg' /\ DeadNowhere'
    BY <1>1 DEF Waits, CtxArg, DeadNowhere, TypeOK
  <2>2. RefExact'
    BY <1>1, RefsKept DEF Waits, live
  <2> QED
    BY <1>1, <2>1, <2>2
    DEF Waits, FiniteNodes, NodesConserved, queued, BlockedWaits
<1>6. KernelCounted'
  BY <1>1, CountedKept, CountedTake DEF KernelCounted
<1>7. Family'
  <2>1. \A p \in Procs : value'[p] = value[p]
    BY <1>1, <1>2, SerialSem, ValueElsewhere
  <2>2. sem_arg[curr] # curr
    BY <1>1, SemKinds DEF Waits, CtxArg
  <2>3. \A p \in Procs : woken(p, p)' <=> woken(p, p)
    BY <1>1, <2>2, SemKinds DEF woken, TypeOK
  <2> QED
    BY <1>1, <1>3, <2>1, <2>3, QuietFamily
<1> QED
  BY <1>4, <1>5, <1>6, <1>7 DEF FInv, WInv

LEMMA NoArg ==
  ASSUME FInv, in_user \/ resumes("read")
  PROVE  /\ sem_arg = [sem_arg EXCEPT ![curr] = NULL] /\ curr \in Procs
         /\ curr \notin readers
<1>1. sem_arg[curr] = NULL /\ curr \in Procs /\ sem_arg \in [Procs -> Sems \cup {NULL}]
  BY DEF FInv, WInv, Waits, SInv, TypeOK, CtxArg, in_user, resumes
<1> QED
  BY <1>1, SemKinds DEF readers, woken

LEMMA ReadLines ==
  ASSUME LInv, NEW n \in ReadCounts, serial_read(n) PROVE LInv' /\ halted' = FALSE
<1>1. /\ FInv /\ in_user /\ curr \in Procs /\ halted' = FALSE /\ n \in Int
      /\ sem_arg' = [sem_arg EXCEPT ![curr] = NULL]
      /\ UNCHANGED <<curr, status, sem_arg, sleep, parent, child_num, value,
                     wait_list, free_nodes, usems, ref, tick, halted,
                     buffer, head, clapboard, tail>>
  BY NoArg, SerialAssumption
  DEF LInv, serial_read, in_user, FInv, WInv, SInv, TypeOK
<1>2. ctx' = ctx \/ ctx' = [ctx EXCEPT ![curr] = "read"]
  BY DEF serial_read
<1>3. ctx' = [ctx EXCEPT ![curr] = "user"] \/ ctx' = [ctx EXCEPT ![curr] = "read"]
  BY <1>1, <1>2 DEF in_user, FInv, WInv, SInv, TypeOK
<1>4. FInv'
  BY <1>1, <1>3, ReaderStep
<1>5. Ring' /\ Written'
  BY <1>1 DEF LInv, Ring, Written, serial_read
<1>6. units' = units /\ readers' = readers
  BY <1>1 DEF units, readers, woken
<1> QED
  BY <1>1, <1>4, <1>5, <1>6 DEF LInv, LineCredits

\* pop_front finds a character when a unit has been paid for it.
LEMMA TakeEffect ==
  ASSUME Ring, Written, curr \in Procs, ctx \in [Procs -> Ctx],
         clapboard > head, take_char
  PROVE  /\ halted' = FALSE /\ Ring' /\ Written'
         /\ front = buffer[slot(head)] /\ front \in Chars
         /\ clapboard' - head' = clapboard - head - 1
         /\ \E c \in {"user", "read"} : ctx' = [ctx EXCEPT ![curr] = c]
<1>1. /\ head \in 0 .. BUFFER_SIZE - 1 /\ clapboard \in Nat /\ tail \in Nat
      /\ clapboard <= tail /\ BUFFER_SIZE \in Nat
      /\ buffer \in [0 .. BUFFER_SIZE - 1 -> Chars \cup {"nul"}]
      /\ left \in [Procs -> Int]
  BY SerialAssumption DEF Ring
<1>2. head < tail /\ slot(head) = head
  BY <1>1, SlotBelow
<1>3. front = buffer[slot(head)] /\ front \in Chars
  BY <1>1, <1>2 DEF front, Written
<1>4. halted' = FALSE
  <2>1. front # "nul"
    BY <1>3, SerialAssumption DEF Chars
  <2> QED
    BY <2>1, Zenon DEF take_char
<1>5. /\ move_head(head + 1) /\ buffer' = buffer
      /\ left' = [left EXCEPT ![curr] = 0] \/ left' = [left EXCEPT ![curr] = @ - 1]
      /\ \E c \in {"user", "read"} : ctx' = [ctx EXCEPT ![curr] = c]
  BY DEF take_char
<1>6. \/ /\ head + 1 = BUFFER_SIZE /\ head' = 0
         /\ clapboard' = clapboard - BUFFER_SIZE /\ tail' = tail - BUFFER_SIZE
      \/ /\ head + 1 < BUFFER_SIZE /\ head' = head + 1
         /\ clapboard' = clapboard /\ tail' = tail
  BY <1>1, <1>5 DEF move_head
<1>7. /\ head' \in 0 .. BUFFER_SIZE - 1 /\ clapboard' \in Nat /\ tail' \in Nat
      /\ head' <= clapboard' /\ clapboard' <= tail' /\ tail' <= tail
      /\ clapboard' - head' = clapboard - head - 1
  BY <1>1, <1>6
<1>8. left' \in [Procs -> Int]
  BY <1>1, <1>5
<1>9. Ring'
  BY <1>1, <1>5, <1>7, <1>8 DEF Ring
<1>10. Written'
  BY <1>1, <1>5, <1>7 DEF Written
<1> QED
  BY <1>3, <1>4, <1>5, <1>7, <1>9, <1>10

LEMMA GetcharLines ==
  ASSUME LInv, getchar
  PROVE  LInv' /\ (halted' => free_nodes = 0)
<1>1. /\ FInv /\ WInv /\ SInv /\ TypeOK /\ resumes("read") /\ curr \in Procs
      /\ Ring /\ Written /\ LineCredits /\ serial_sem \in Sems /\ curr \notin readers
      /\ value[serial_sem] \in Int /\ value \in [Sems -> Int]
      /\ status[curr] = "RUNNING" /\ ctx \in [Procs -> Ctx]
  BY NoArg, SemKinds, UserStep DEF LInv, FInv, WInv, SInv, TypeOK, getchar
<1>2. CASE sem_p_takes(serial_sem) /\ take_char /\ UNCHANGED sem_arg
  <2>1. /\ value[serial_sem] > 0 /\ value'[serial_sem] = value[serial_sem] - 1
        /\ UNCHANGED <<wait_list, free_nodes>>
    BY <1>1, <1>2 DEF sem_p_takes
  <2>2. clapboard > head /\ head \in Int /\ clapboard \in Int
    BY <1>1, <2>1, ReadersFinite DEF LineCredits, units, Ring
  <2>3. /\ halted' = FALSE /\ Ring' /\ Written'
        /\ clapboard' - head' = clapboard - head - 1
        /\ \E c \in {"user", "read"} : ctx' = [ctx EXCEPT ![curr] = c]
    BY <1>1, <1>2, <2>2, TakeEffect
  <2>4. /\ UNCHANGED <<curr, status, sleep, parent, child_num, usems, ref, tick>>
        /\ sem_arg' = [sem_arg EXCEPT ![curr] = NULL]
    BY <1>1, <1>2, NoArg DEF take_char
  <2>5. FInv'
    BY <1>1, <1>2, <2>1, <2>3, <2>4, ReaderStep
  <2>6. units' = units - 1 /\ readers' = readers /\ units \in Int
    BY <1>1, <1>2, <2>1, <2>4 DEF units, readers, woken
  <2> QED
    BY <1>1, <2>2, <2>3, <2>5, <2>6, ReadersFinite DEF LInv, LineCredits
<1>3. CASE /\ sem_p_blocks(serial_sem, "getchar")
           /\ UNCHANGED <<sleep, parent, child_num, usems, ref, tick, svars>>
  <2>1. "getchar" \in Ctx /\ curr # 0
    BY <1>1, UserStep DEF Ctx
  <2>2. TypeOK'
    BY <1>1, <1>3, <2>1, SemPBlocksType DEF TypeOK
  <2>3. Waits'
    BY <1>1, <1>3, <2>1, <2>2, BlockWait
  <2>4. Sched'
    BY <1>1, <1>3, <2>1, SemPBlocksSched DEF SInv
  <2>5. ctx'[0] = "idle"
    BY <1>1, <1>3, <2>1, ZeroIsProc DEF sem_p_blocks, SInv
  <2>6. KernelCounted'
    BY <1>1, <1>3, CountedBlock DEF FInv, KernelCounted
  <2>7. Family'
    BY <1>1, <1>3, <2>1, <2>2, SerialSem, BlockFamily DEF FInv
  <2>8. FInv'
    BY <2>2, <2>3, <2>4, <2>5, <2>6, <2>7 DEF FInv, WInv, SInv
  <2>9. readers' = readers
    <3>1. /\ status'[curr] = "BLOCKED"
          /\ \A p \in Procs \ {curr} : SameLife(p, status)
      BY <1>1, <1>3, <2>1, BlockEffect
    <3>2. \A p \in Procs \ {curr} : sem_arg'[p] = sem_arg[p]
      BY <1>1, <1>3 DEF sem_p_blocks, TypeOK
    <3>3. \A p \in Procs \ {curr} : status'[p] \in {"READY", "RUNNING"}
                                      <=> status[p] \in {"READY", "RUNNING"}
      BY <1>1, <2>2, <3>1 DEF SameLife, TypeOK, Status
    <3> QED
      BY <1>1, <3>1, <3>2, <3>3 DEF readers, woken
  <2>10. units' = units
    BY <1>1, <1>3 DEF sem_p_blocks, units
  <2>11. halted' = (free_nodes = 0)
    BY <1>1, <1>3, <2>1, BlockEffect
  <2>12. Ring' /\ Written'
    BY <1>1, <1>3 DEF svars, Ring, Written
  <2>13. LineCredits'
    BY <1>1, <1>3, <2>9, <2>10 DEF svars, LineCredits
  <2> QED
    BY <2>8, <2>11, <2>12, <2>13 DEF LInv
<1> QED
  BY <1>2, <1>3 DEF getchar

LEMMA GetcharWokenLines ==
  ASSUME LInv, getchar_woken PROVE LInv' /\ halted' = FALSE
<1>1. /\ FInv /\ WInv /\ SInv /\ TypeOK /\ resumes("getchar") /\ curr \in Procs
      /\ Ring /\ Written /\ LineCredits /\ status[curr] = "RUNNING"
      /\ ctx \in [Procs -> Ctx] /\ value[serial_sem] \in Int
      /\ sem_arg \in [Procs -> Sems \cup {NULL}]
  BY SemKinds, UserStep DEF LInv, FInv, WInv, SInv, TypeOK, getchar_woken
<1>2. curr \in readers
  BY <1>1 DEF readers, woken, WInv, Waits, CtxArg, resumes
<1>3. /\ take_char /\ sem_arg' = [sem_arg EXCEPT ![curr] = NULL]
      /\ UNCHANGED <<value, wait_list, free_nodes>>
      /\ UNCHANGED <<curr, status, sleep, parent, child_num, usems, ref, tick>>
  BY DEF getchar_woken, take_char
<1>4. readers' = readers \ {curr}
  <2>1. \A p \in Procs \ {curr} : woken(p, serial_sem)' <=> woken(p, serial_sem)
    BY <1>1, <1>3 DEF woken
  <2>2. \A p \in Procs : p = curr => ~woken(p, serial_sem)'
    BY <1>1, <1>3, SemKinds DEF woken
  <2> QED
    BY <2>1, <2>2 DEF readers
<1>5. Cardinality(readers') = Cardinality(readers) - 1
  BY <1>2, <1>4, ReadersFinite, FS_RemoveElement
<1>6. units' = units /\ units \in Nat
  BY <1>1, <1>3 DEF units
<1>7. clapboard > head /\ head \in Int /\ clapboard \in Int
  BY <1>1, <1>5, <1>6, ReadersFinite DEF LineCredits, Ring
<1>8. /\ halted' = FALSE /\ Ring' /\ Written'
      /\ clapboard' - head' = clapboard - head - 1
      /\ \E c \in {"user", "read"} : ctx' = [ctx EXCEPT ![curr] = c]
  BY <1>1, <1>3, <1>7, TakeEffect
<1>9. FInv'
  BY <1>1, <1>3, <1>8, ReaderStep
<1>10. LineCredits'
  BY <1>1, <1>5, <1>6, <1>7, <1>8, ReadersFinite DEF LineCredits
<1> QED
  BY <1>8, <1>9, <1>10 DEF LInv

-----------------------------------------------------------------------------
(***************************************************************************)
(* The theorems.                                                           *)
(***************************************************************************)

LEMMA InitLines == SerialInit => LInv
<1> SUFFICES ASSUME SerialInit PROVE LInv
  OBVIOUS
<1>1. FInv /\ Init
  BY InitWait, InitFamily DEF SerialInit, FInv
<1>2. Ring /\ Written
  BY SerialAssumption DEF SerialInit, Ring, Written
<1>3. units = 0 /\ readers = {}
  BY <1>1, SemKinds DEF Init, units, readers, woken
<1>4. LineCredits
  BY <1>3, FS_EmptySet DEF SerialInit, LineCredits
<1> QED
  BY <1>1, <1>2, <1>4 DEF LInv

LEMMA NextLines == LInv /\ [SerialNext]_allvars => LInv'
<1> SUFFICES ASSUME LInv, [SerialNext]_allvars PROVE LInv'
  OBVIOUS
<1>1. CASE [Next]_vars /\ UNCHANGED svars
  BY <1>1, KernelLines
<1>2. \/ [Next]_vars /\ UNCHANGED svars
      \/ (\E c \in Chars : serial_handle(c)) \/ serial_backspace
      \/ (\E n \in ReadCounts : serial_read(n)) \/ getchar \/ getchar_woken
  BY DEF SerialNext, allvars
<1> QED
  BY <1>1, <1>2, HandleLines, BackspaceLines, ReadLines, GetcharLines,
     GetcharWokenLines

LEMMA CreditsOf == LInv => SerialCredits
  BY DEF LInv, Ring, LineCredits, SerialCredits, units, readers

\* The characters of finished lines are the units of serial_sem, for any size
\* of the buffer and any number of readers: each is counted by the value of
\* the semaphore or by one wake-up on its way, while lines are typed and
\* edited, readers come and go, and the buffer overflows.
THEOREM SerialCounts == SerialSpec => []SerialCredits
  BY InitLines, NextLines, CreditsOf, PTL DEF SerialSpec

\* The V's of serial.c and the P's of getchar keep the value of every
\* semaphore a count of its waiters.
LEMMA LinesCounted ==
  ASSUME LInv, InitValues \subseteq Nat, \A s \in Sems : Counted(s),
         [SerialNext]_allvars
  PROVE  \A s \in Sems : Counted(s)'
<1>1. FInv /\ WInv /\ TypeOK /\ serial_sem \in Sems /\ Ring
  BY SemKinds DEF LInv, FInv, WInv, SInv
<1>2. CASE [Next]_vars
  BY <1>1, <1>2, NextCounted
<1>3. CASE UNCHANGED <<value, wait_list>>
  BY <1>3, CountedKept
<1>4. ASSUME NEW c \in Chars, serial_handle(c), c = "newline"
      PROVE  \A s \in Sems : Counted(s)'
  <2>1. sem_v_times(serial_sem, tail + 1 - clapboard)
    BY <1>4 DEF serial_handle, push_back
  <2>2. tail + 1 - clapboard \in Nat
    BY <1>1 DEF Ring
  <2> QED
    BY <1>1, <2>1, <2>2, DrainCounted
<1>5. CASE getchar
  BY <1>1, <1>5, CountedTake, CountedBlock DEF getchar
<1>6. \/ [Next]_vars \/ UNCHANGED <<value, wait_list>>
      \/ \E c \in Chars : serial_handle(c) /\ c = "newline"
      \/ getchar
  BY DEF SerialNext, allvars, vars, serial_handle, push_back, serial_backspace,
         serial_read, getchar_woken
<1> QED
  BY <1>2, <1>3, <1>4, <1>5, <1>6

\* With its console too the kernel never stops: getchar's assertion that
\* pop_front returns a character holds, and so do those of the process kernel.
\* The assumptions are those of KernelGoesOn.
THEOREM SerialGoesOn ==
  ASSUME InitValues \subseteq Nat, LIST_NUM >= PROC_NUM - 1
  PROVE  SerialSpec => []NeverHalts
<1> DEFINE GInv == LInv /\ (\A s \in Sems : Counted(s)) /\ ~halted
<1>1. SerialInit => GInv
  BY InitLines, InitCounted DEF SerialInit, Init
<1>2. GInv /\ [SerialNext]_allvars => GInv'
  <2> SUFFICES ASSUME GInv, [SerialNext]_allvars PROVE GInv'
    OBVIOUS
  <2>1. LInv' /\ FInv /\ WInv
    BY NextLines DEF LInv, FInv
  <2>2. \A s \in Sems : Counted(s)'
    BY LinesCounted
  <2>3. ~halted'
    <3>1. CASE [Next]_vars
      BY <2>1, <3>1, NextGoesOn
    <3>2. CASE getchar
      <4>1. resumes("read") /\ free_nodes > 0 /\ free_nodes \in Int
        BY <2>1, <3>2, NodeLeft DEF getchar, WInv, SInv, TypeOK
      <4>2. free_nodes # 0
        BY <4>1
      <4> QED
        BY <3>2, <4>2, GetcharLines
    <3>3. [Next]_vars
            \/ (\E c \in Chars : serial_handle(c)) \/ serial_backspace
            \/ (\E n \in ReadCounts : serial_read(n)) \/ getchar \/ getchar_woken
      BY DEF SerialNext, allvars
    <3> QED
      BY <3>1, <3>2, <3>3, HandleLines, BackspaceLines, ReadLines,
         GetcharWokenLines
  <2> QED
    BY <2>1, <2>2, <2>3
<1>3. GInv => NeverHalts
  BY DEF NeverHalts
<1> HIDE DEF GInv
<1> QED
  BY <1>1, <1>2, <1>3, PTL DEF SerialSpec

-----------------------------------------------------------------------------
(***************************************************************************)
(* Places in the ring.  The counters run on and meet the buffer by their   *)
(* remainders only.                                                        *)
(***************************************************************************)

LEMMA SlotParts ==
  ASSUME NEW j \in Nat
  PROVE  /\ j = BUFFER_SIZE * (j \div BUFFER_SIZE) + slot(j)
         /\ j \div BUFFER_SIZE \in Int /\ slot(j) \in 0 .. BUFFER_SIZE - 1
  BY SerialAssumption DEF slot

\* Two counters less than BUFFER_SIZE apart meet only in themselves ...
LEMMA SlotApart ==
  ASSUME NEW i \in Nat, NEW j \in Nat, i < j, j - i < BUFFER_SIZE
  PROVE  slot(i) # slot(j)
<1> SUFFICES ASSUME slot(i) = slot(j) PROVE FALSE
  OBVIOUS
<1> DEFINE q == i \div BUFFER_SIZE
           u == j \div BUFFER_SIZE
           x == u - q
<1>1. /\ i = BUFFER_SIZE * q + slot(i) /\ q \in Int /\ slot(i) \in Int
      /\ j = BUFFER_SIZE * u + slot(j) /\ u \in Int
  BY SlotParts
<1> HIDE DEF q, u
<1>2. BUFFER_SIZE \in Nat \ {0}
  BY SerialAssumption
<1>3. x \in Int /\ BUFFER_SIZE * x = j - i
  BY <1>1, <1>2
<1> HIDE DEF x
<1>4. x >= 1 => BUFFER_SIZE * x >= BUFFER_SIZE
  BY <1>2, <1>3
<1>5. x <= 0 => BUFFER_SIZE * x <= 0
  BY <1>2, <1>3
<1> QED
  BY <1>2, <1>3, <1>4, <1>5

\* ... and a full turn leads back.
LEMMA SlotTurn ==
  ASSUME NEW j \in Nat
  PROVE  slot(j + BUFFER_SIZE) = slot(j)
<1> DEFINE i == j + BUFFER_SIZE
           q == j \div BUFFER_SIZE
           u == i \div BUFFER_SIZE
           r == slot(j)
           s == slot(i)
           x == u - q - 1
<1>1. BUFFER_SIZE \in Nat \ {0} /\ i \in Nat
  BY SerialAssumption
<1>2. j = BUFFER_SIZE * q + r /\ q \in Int /\ r \in 0 .. BUFFER_SIZE - 1
  BY SlotParts
<1>3. i = BUFFER_SIZE * u + s /\ u \in Int /\ s \in 0 .. BUFFER_SIZE - 1
  <2> HIDE DEF i
  <2> QED
    BY <1>1, SlotParts
<1>4. j + BUFFER_SIZE = BUFFER_SIZE * u + s
  BY <1>3
<1> HIDE DEF q, u, r, s, i
<1>5. x \in Int /\ BUFFER_SIZE * x = r - s
  <2>1. BUFFER_SIZE * x = BUFFER_SIZE * u - BUFFER_SIZE * q - BUFFER_SIZE
    BY <1>1, <1>2, <1>3
  <2> QED
    BY <1>1, <1>2, <1>3, <1>4, <2>1
<1> HIDE DEF x
<1>6. x >= 1 => BUFFER_SIZE * x >= BUFFER_SIZE
  BY <1>1, <1>5
<1>7. x < 0 => BUFFER_SIZE * x <= -BUFFER_SIZE
  BY <1>1, <1>5
<1>8. x = 0
  BY <1>1, <1>2, <1>3, <1>5, <1>6, <1>7
<1>9. r = s
  BY <1>1, <1>2, <1>3, <1>5, <1>8
<1> QED
  BY <1>9 DEF i, r, s

-----------------------------------------------------------------------------
(***************************************************************************)
(* The text between two counters, in a buffer b.                           *)
(***************************************************************************)

Cell == Chars \cup {"nul"}
Buffers == [0 .. BUFFER_SIZE - 1 -> Cell]
put(b, t, c) == [b EXCEPT ![slot(t)] = c]
txt(b, from, to) == [k \in 1 .. to - from |-> b[slot(from + k - 1)]]

LEMMA TextSeq ==
  ASSUME NEW b \in Buffers, NEW from \in Nat, NEW to \in Nat, from <= to
  PROVE  /\ txt(b, from, to) \in Seq(Cell)
         /\ Len(txt(b, from, to)) = to - from
         /\ \A k \in 1 .. to - from : txt(b, from, to)[k] = b[slot(from + k - 1)]
<1>1. to - from \in Nat /\ BUFFER_SIZE \in Nat
  BY SerialAssumption
<1>2. \A k \in 1 .. to - from : b[slot(from + k - 1)] \in Cell
  <2> TAKE k \in 1 .. to - from
  <2>1. from + k - 1 \in Nat
    OBVIOUS
  <2>2. slot(from + k - 1) \in 0 .. BUFFER_SIZE - 1
    BY <2>1, SlotType
  <2> QED
    BY <2>2 DEF Buffers
<1>3. txt(b, from, to) \in [1 .. to - from -> Cell]
  BY <1>2 DEF txt
<1> QED
  BY <1>1, <1>3 DEF txt

\* A character written behind the text does not touch it, unless it is a whole
\* turn away.
LEMMA TextAway ==
  ASSUME NEW b \in Buffers, NEW from \in Nat, NEW to \in Nat, NEW t \in Nat,
         from <= to, to <= t, t - from < BUFFER_SIZE, NEW c
  PROVE  txt(put(b, t, c), from, to) = txt(b, from, to)
<1> SUFFICES ASSUME NEW k \in 1 .. to - from
             PROVE  put(b, t, c)[slot(from + k - 1)] = b[slot(from + k - 1)]
  BY DEF txt
<1>1. from + k - 1 \in Nat /\ from + k - 1 < t /\ t - (from + k - 1) < BUFFER_SIZE
  BY SerialAssumption
<1>2. slot(from + k - 1) # slot(t) /\ slot(from + k - 1) \in 0 .. BUFFER_SIZE - 1
  BY <1>1, SlotApart, SlotType
<1> QED
  BY <1>2 DEF Buffers, put

LEMMA TextAppend ==
  ASSUME NEW b \in Buffers, NEW from \in Nat, NEW t \in Nat, from <= t,
         t - from < BUFFER_SIZE, NEW c \in Cell
  PROVE  txt(put(b, t, c), from, t + 1) = Append(txt(b, from, t), c)
<1> DEFINE d == put(b, t, c)
           to == t + 1
           s == txt(d, from, to)
           r == txt(b, from, t)
<1>1. d \in Buffers /\ d[slot(t)] = c
  BY SlotType DEF Buffers, put
<1>2. /\ r \in Seq(Cell) /\ Len(r) = t - from
      /\ \A k \in 1 .. t - from : r[k] = b[slot(from + k - 1)]
  BY TextSeq
<1>3. txt(d, from, t) = r
  <2>1. t <= t
    OBVIOUS
  <2> QED
    BY <2>1, TextAway
<1>4. to \in Nat /\ from <= to /\ to = t + 1
  OBVIOUS
<1> HIDE DEF d, to
<1>5. /\ s \in Seq(Cell) /\ Len(s) = to - from
      /\ \A k \in 1 .. to - from : s[k] = d[slot(from + k - 1)]
  BY <1>1, <1>4, TextSeq
<1>6. \A k \in 1 .. t - from : txt(d, from, t)[k] = d[slot(from + k - 1)]
  BY <1>1, TextSeq
<1> HIDE DEF s, r
<1>7. \A k \in 1 .. t - from : s[k] = r[k]
  BY <1>3, <1>4, <1>5, <1>6
<1>8. s[t - from + 1] = c
  <2>1. from + (t - from + 1) - 1 = t /\ t - from + 1 \in 1 .. to - from
    BY <1>4
  <2> QED
    BY <1>1, <1>5, <2>1
<1>9. /\ Append(r, c) \in Seq(Cell) /\ Len(Append(r, c)) = t - from + 1
      /\ \A k \in 1 .. t - from : Append(r, c)[k] = r[k]
      /\ Append(r, c)[t - from + 1] = c
  BY <1>2, AppendProperties
<1>10. \A k \in 1 .. Len(s) : s[k] = Append(r, c)[k]
  <2> SUFFICES ASSUME NEW k \in 1 .. to - from PROVE s[k] = Append(r, c)[k]
    BY <1>5
  <2>1. k \in 1 .. t - from \/ k = t - from + 1
    BY <1>4
  <2> QED
    BY <1>7, <1>8, <1>9, <2>1
<1>11. s = Append(r, c)
  BY <1>4, <1>5, <1>9, <1>10, SeqEqual
<1> QED
  BY <1>11 DEF s, r, d, to

\* What move_head does to the counters does nothing to the text.
LEMMA TextTurn ==
  ASSUME NEW b, NEW from \in Nat, NEW to \in Nat, from >= BUFFER_SIZE
  PROVE  txt(b, from - BUFFER_SIZE, to - BUFFER_SIZE) = txt(b, from, to)
<1>1. (to - BUFFER_SIZE) - (from - BUFFER_SIZE) = to - from /\ BUFFER_SIZE \in Nat
  BY SerialAssumption
<1>2. ASSUME NEW k \in 1 .. to - from
      PROVE  slot(from - BUFFER_SIZE + k - 1) = slot(from + k - 1)
  <2>1. /\ from - BUFFER_SIZE + k - 1 \in Nat
        /\ from - BUFFER_SIZE + k - 1 + BUFFER_SIZE = from + k - 1
    BY <1>1
  <2> QED
    BY <2>1, SlotTurn
<1> QED
  BY <1>1, <1>2 DEF txt

LEMMA TextTail ==
  ASSUME NEW b \in Buffers, NEW from \in Nat, NEW to \in Nat, from < to
  PROVE  txt(b, from, to) # <<>> /\ txt(b, from + 1, to) = Tail(txt(b, from, to))
<1> DEFINE s == txt(b, from, to)
           r == txt(b, from + 1, to)
<1>1. /\ s \in Seq(Cell) /\ Len(s) = to - from
      /\ \A k \in 1 .. to - from : s[k] = b[slot(from + k - 1)]
  BY TextSeq
<1>2. /\ r \in Seq(Cell) /\ Len(r) = to - (from + 1)
      /\ \A k \in 1 .. to - (from + 1) : r[k] = b[slot(from + 1 + k - 1)]
  BY TextSeq
<1> HIDE DEF s, r
<1>3. s # <<>>
  BY <1>1
<1>4. /\ Tail(s) \in Seq(Cell) /\ Len(Tail(s)) = to - (from + 1)
      /\ \A k \in 1 .. to - (from + 1) : Tail(s)[k] = s[k + 1]
  BY <1>1, <1>3, HeadTailProperties
<1>5. \A k \in 1 .. Len(r) : r[k] = Tail(s)[k]
  <2> TAKE k \in 1 .. Len(r)
  <2>1. /\ k \in 1 .. to - (from + 1) /\ k + 1 \in 1 .. to - from
        /\ from + 1 + k - 1 = from + (k + 1) - 1
    BY <1>2
  <2> QED
    BY <1>1, <1>2, <1>4, <2>1
<1>6. r = Tail(s)
  BY <1>2, <1>4, <1>5, SeqEqual
<1> QED
  BY <1>3, <1>6 DEF s, r

LEMMA TextErase ==
  ASSUME NEW b \in Buffers, NEW from \in Nat, NEW to \in Nat, from < to
  PROVE  /\ txt(b, from, to) # <<>>
         /\ txt(b, from, to - 1)
              = SubSeq(txt(b, from, to), 1, Len(txt(b, from, to)) - 1)
<1> DEFINE s == txt(b, from, to)
           r == txt(b, from, to - 1)
<1>1. /\ s \in Seq(Cell) /\ Len(s) = to - from
      /\ \A k \in 1 .. to - from : s[k] = b[slot(from + k - 1)]
  BY TextSeq
<1>2. to - 1 \in Nat /\ from <= to - 1
  OBVIOUS
<1>3. /\ r \in Seq(Cell) /\ Len(r) = (to - 1) - from
      /\ \A k \in 1 .. (to - 1) - from : r[k] = b[slot(from + k - 1)]
  BY <1>2, TextSeq
<1> HIDE DEF s, r
<1> DEFINE e == Len(s) - 1
<1>4. /\ e \in Int /\ e = (to - 1) - from /\ e >= 0
      /\ \A i \in 1 .. e : s[i] \in Cell
  BY <1>1
<1> HIDE DEF e
<1>5. /\ SubSeq(s, 1, e) \in Seq(Cell)
      /\ Len(SubSeq(s, 1, e)) = IF 1 <= e THEN e - 1 + 1 ELSE 0
      /\ \A i \in 1 .. e - 1 + 1 : SubSeq(s, 1, e)[i] = s[1 + i - 1]
  BY <1>4, SubSeqProperties
<1>6. Len(SubSeq(s, 1, e)) = Len(r)
  BY <1>3, <1>4, <1>5
<1>7. \A k \in 1 .. Len(r) : r[k] = SubSeq(s, 1, e)[k]
  <2> TAKE k \in 1 .. Len(r)
  <2>1. /\ k \in 1 .. (to - 1) - from /\ k \in 1 .. to - from
        /\ k \in 1 .. e - 1 + 1 /\ 1 + k - 1 = k
    BY <1>3, <1>4
  <2> QED
    BY <1>1, <1>3, <1>5, <2>1
<1>8. r = SubSeq(s, 1, e)
  BY <1>3, <1>5, <1>6, <1>7, SeqEqual
<1> QED
  BY <1>1, <1>8 DEF s, r, e

LEMMA TextJoin ==
  ASSUME NEW b \in Buffers, NEW from \in Nat, NEW m \in Nat, NEW to \in Nat,
         from <= m, m <= to
  PROVE  txt(b, from, to) = txt(b, from, m) \o txt(b, m, to)
<1> DEFINE s == txt(b, from, to)
           r == txt(b, from, m)
           t == txt(b, m, to)
<1>1. /\ s \in Seq(Cell) /\ Len(s) = to - from
      /\ \A k \in 1 .. to - from : s[k] = b[slot(from + k - 1)]
  BY TextSeq
<1>2. /\ r \in Seq(Cell) /\ Len(r) = m - from
      /\ \A k \in 1 .. m - from : r[k] = b[slot(from + k - 1)]
  BY TextSeq
<1>3. /\ t \in Seq(Cell) /\ Len(t) = to - m
      /\ \A k \in 1 .. to - m : t[k] = b[slot(m + k - 1)]
  BY TextSeq
<1> HIDE DEF s, r, t
<1>4. /\ r \o t \in Seq(Cell) /\ Len(r \o t) = Len(r) + Len(t)
      /\ \A i \in 1 .. Len(r) + Len(t) :
           (r \o t)[i] = IF i <= Len(r) THEN r[i] ELSE t[i - Len(r)]
  BY <1>2, <1>3, ConcatProperties
<1>5. ASSUME NEW k \in 1 .. Len(s) PROVE s[k] = (r \o t)[k]
  <2>1. k \in 1 .. to - from /\ k \in 1 .. Len(r) + Len(t)
    BY <1>1, <1>2, <1>3
  <2>2. CASE k <= Len(r)
    BY <1>1, <1>2, <1>4, <2>1, <2>2
  <2>3. CASE ~ (k <= Len(r))
    <3>1. /\ k - Len(r) \in 1 .. to - m
          /\ m + (k - Len(r)) - 1 = from + k - 1
      BY <1>2, <2>1, <2>3
    <3> QED
      BY <1>1, <1>3, <1>4, <2>1, <2>3, <3>1
  <2> QED
    BY <2>2, <2>3
<1>6. Len(s) = Len(r \o t)
  BY <1>1, <1>2, <1>3, <1>4
<1>7. s = r \o t
  BY <1>1, <1>4, <1>5, <1>6, SeqEqual
<1> QED
  BY <1>7 DEF s, r, t

-----------------------------------------------------------------------------
(***************************************************************************)
(* The ring buffer implements the line discipline.                         *)
(***************************************************************************)

LEMMA TextIs ==
  /\ text(head, clapboard) = txt(buffer, head, clapboard)
  /\ text(clapboard, tail) = txt(buffer, clapboard, tail)
  /\ text(head, clapboard)' = txt(buffer', head', clapboard')
  /\ text(clapboard, tail)' = txt(buffer', clapboard', tail')
  BY DEF text, txt

LEMMA RingIs ==
  ASSUME Ring
  PROVE  /\ head \in Nat /\ clapboard \in Nat /\ tail \in Nat
         /\ head <= clapboard /\ clapboard <= tail /\ buffer \in Buffers
         /\ Len(text(head, clapboard)) = clapboard - head
         /\ Len(text(clapboard, tail)) = tail - clapboard
         /\ text(head, clapboard) \in Seq(Cell) /\ text(clapboard, tail) \in Seq(Cell)
<1>1. /\ head \in Nat /\ clapboard \in Nat /\ tail \in Nat
      /\ head <= clapboard /\ clapboard <= tail /\ buffer \in Buffers
  BY SerialAssumption DEF Ring, Buffers, Cell
<1> QED
  BY <1>1, TextIs, TextSeq

\* An empty text is the empty sequence.
LEMMA NoText ==
  ASSUME NEW b, NEW from \in Nat PROVE txt(b, from, from) = <<>>
<1>1. from - from = 0
  OBVIOUS
<1>2. txt(b, from, from) = [k \in 1 .. 0 |-> b[slot(from + k - 1)]]
  BY <1>1 DEF txt
<1> QED
  BY <1>2

LEMMA HandleText ==
  ASSUME Ring, NEW c \in Chars, serial_handle(c) PROVE Console!Next
<1>1. /\ head \in Nat /\ clapboard \in Nat /\ tail \in Nat
      /\ head <= clapboard /\ clapboard <= tail /\ buffer \in Buffers
      /\ Len(text(head, clapboard)) = clapboard - head
      /\ Len(text(clapboard, tail)) = tail - clapboard
  BY RingIs
<1>2. /\ buffer' = put(buffer, tail, c) /\ tail' = tail + 1 /\ head' = head
      /\ clapboard' = IF c = "newline" THEN tail + 1 ELSE clapboard
  BY DEF serial_handle, push_back, put
<1>3. c \in Cell /\ buffer' \in Buffers /\ BUFFER_SIZE \in Nat
  BY <1>1, <1>2, SlotType, SerialAssumption DEF Buffers, Cell, put
<1>4. Console!roomy <=> tail - head < BUFFER_SIZE
  BY <1>1, <1>3 DEF Console!roomy
<1>5. CASE c # "newline" /\ tail - head < BUFFER_SIZE
  <2>1. tail - clapboard < BUFFER_SIZE
    BY <1>1, <1>3, <1>5
  <2>2. txt(buffer', head, clapboard) = txt(buffer, head, clapboard)
    BY <1>1, <1>2, <1>5, TextAway
  <2>3. txt(buffer', clapboard, tail + 1) = Append(txt(buffer, clapboard, tail), c)
    BY <1>1, <1>2, <1>3, <2>1, TextAppend
  <2>4. /\ text(head, clapboard)' = text(head, clapboard)
        /\ text(clapboard, tail)' = Append(text(clapboard, tail), c)
    BY <1>2, <1>5, <2>2, <2>3, TextIs
  <2>5. Console!Type(c)
    BY <1>4, <1>5, <2>4 DEF Console!Type
  <2> QED
    BY <2>5 DEF Console!Next
<1>6. CASE c = "newline" /\ tail - head < BUFFER_SIZE
  <2>1. tail - clapboard < BUFFER_SIZE /\ tail + 1 \in Nat /\ clapboard <= tail + 1
    BY <1>1, <1>3, <1>6
  <2>2. txt(buffer', head, clapboard) = txt(buffer, head, clapboard)
    BY <1>1, <1>2, <1>6, TextAway
  <2>3. txt(buffer', clapboard, tail + 1) = Append(txt(buffer, clapboard, tail), c)
    BY <1>1, <1>2, <1>3, <2>1, TextAppend
  <2>4. txt(buffer', head, tail + 1)
          = txt(buffer', head, clapboard) \o txt(buffer', clapboard, tail + 1)
    BY <1>1, <1>3, <2>1, TextJoin
  <2>5. text(head, clapboard)'
          = text(head, clapboard) \o Append(text(clapboard, tail), "newline")
    BY <1>2, <1>6, <2>2, <2>3, <2>4, TextIs
  <2>6. text(clapboard, tail)' = <<>>
    BY <1>2, <1>6, <2>1, TextIs, NoText
  <2>7. Console!Enter
    BY <1>4, <1>6, <2>5, <2>6 DEF Console!Enter
  <2> QED
    BY <2>7 DEF Console!Next
<1>7. CASE ~ (tail - head < BUFFER_SIZE)
  <2>1. CASE c # "newline"
    <3>1. tail' \in Nat /\ clapboard <= tail'
      BY <1>1, <1>2
    <3>2. /\ Len(txt(buffer', head, clapboard)) = clapboard - head
          /\ Len(txt(buffer', clapboard, tail')) = tail' - clapboard
      BY <1>1, <1>3, <3>1, TextSeq
    <3>3. /\ text(head, clapboard)' = txt(buffer', head, clapboard)
          /\ text(clapboard, tail)' = txt(buffer', clapboard, tail')
      BY <1>2, <2>1, TextIs
    <3>4. /\ Len(text(head, clapboard)') = Len(text(head, clapboard))
          /\ Len(text(clapboard, tail)') = Len(text(clapboard, tail)) + 1
      BY <1>1, <1>2, <3>2, <3>3
    <3> QED
      BY <1>4, <1>7, <3>4 DEF Console!Next, Console!Overrun
  <2>2. CASE c = "newline"
    <3>1. /\ clapboard' \in Nat /\ head <= clapboard' /\ tail' = clapboard'
          /\ clapboard' = tail + 1
      BY <1>1, <1>2, <2>2
    <3>2. Len(txt(buffer', head, clapboard')) = clapboard' - head
      BY <1>1, <1>3, <3>1, TextSeq
    <3>3. Len(text(head, clapboard)') = clapboard' - head
      BY <1>2, <3>2, TextIs
    <3>4. Len(text(head, clapboard)')
            = Len(text(head, clapboard)) + Len(text(clapboard, tail)) + 1
      BY <1>1, <3>1, <3>3
    <3>5. text(clapboard, tail)' = <<>>
      BY <3>1, TextIs, NoText
    <3> QED
      BY <1>4, <1>7, <3>4, <3>5 DEF Console!Next, Console!Overrun
  <2> QED
    BY <2>1, <2>2
<1> QED
  BY <1>5, <1>6, <1>7

LEMMA BackspaceText ==
  ASSUME Ring, serial_backspace PROVE [Console!Next]_(Console!vars)
<1>1. /\ head \in Nat /\ clapboard \in Nat /\ tail \in Nat
      /\ clapboard <= tail /\ buffer \in Buffers
  BY RingIs
<1>2. /\ UNCHANGED <<buffer, head, clapboard>>
      /\ tail' = IF tail > clapboard THEN tail - 1 ELSE tail
  BY DEF serial_backspace
<1>3. text(head, clapboard)' = text(head, clapboard)
  BY <1>2, TextIs
<1>4. CASE tail > clapboard
  <2>1. clapboard < tail
    BY <1>1, <1>4
  <2>2. /\ txt(buffer, clapboard, tail) # <<>>
        /\ txt(buffer, clapboard, tail - 1)
             = SubSeq(txt(buffer, clapboard, tail), 1,
                      Len(txt(buffer, clapboard, tail)) - 1)
    BY <1>1, <2>1, TextErase
  <2>3. /\ text(clapboard, tail) # <<>>
        /\ text(clapboard, tail)'
             = SubSeq(text(clapboard, tail), 1, Len(text(clapboard, tail)) - 1)
    BY <1>2, <1>4, <2>2, TextIs
  <2> QED
    BY <1>3, <2>3 DEF Console!Next, Console!Erase
<1>5. CASE ~ (tail > clapboard)
  <2>1. text(clapboard, tail)' = text(clapboard, tail)
    BY <1>2, <1>5, TextIs
  <2> QED
    BY <1>3, <2>1 DEF Console!vars
<1> QED
  BY <1>4, <1>5

LEMMA TakeText ==
  ASSUME Ring, clapboard > head, take_char PROVE Console!Next
<1>1. /\ head \in Nat /\ clapboard \in Nat /\ tail \in Nat /\ head < clapboard
      /\ clapboard <= tail /\ buffer \in Buffers /\ head \in 0 .. BUFFER_SIZE - 1
      /\ BUFFER_SIZE \in Nat
  BY RingIs, SerialAssumption DEF Ring
<1>2. move_head(head + 1) /\ buffer' = buffer
  BY DEF take_char
<1>3. /\ txt(buffer, head, clapboard) # <<>>
      /\ txt(buffer, head + 1, clapboard) = Tail(txt(buffer, head, clapboard))
  BY <1>1, TextTail
<1>4. /\ txt(buffer, head', clapboard') = txt(buffer, head + 1, clapboard)
      /\ txt(buffer, clapboard', tail') = txt(buffer, clapboard, tail)
  <2>1. CASE head + 1 = BUFFER_SIZE
    <3> DEFINE h == head + 1
    <3>1. /\ head' = h - BUFFER_SIZE /\ clapboard' = clapboard - BUFFER_SIZE
          /\ tail' = tail - BUFFER_SIZE
      BY <1>2, <2>1 DEF move_head
    <3>2. h \in Nat /\ h >= BUFFER_SIZE /\ clapboard >= BUFFER_SIZE
      BY <1>1, <2>1
    <3> HIDE DEF h
    <3>3. /\ txt(buffer, h - BUFFER_SIZE, clapboard - BUFFER_SIZE)
               = txt(buffer, h, clapboard)
          /\ txt(buffer, clapboard - BUFFER_SIZE, tail - BUFFER_SIZE)
               = txt(buffer, clapboard, tail)
      BY <1>1, <3>2, TextTurn
    <3> QED
      BY <3>1, <3>3 DEF h
  <2>2. CASE head + 1 # BUFFER_SIZE
    <3>1. head' = head + 1 /\ clapboard' = clapboard /\ tail' = tail
      BY <1>1, <1>2, <2>2 DEF move_head
    <3> QED
      BY <3>1
  <2> QED
    BY <2>1, <2>2
<1>5. /\ text(head, clapboard) # <<>>
      /\ text(head, clapboard)' = Tail(text(head, clapboard))
      /\ text(clapboard, tail)' = text(clapboard, tail)
  BY <1>2, <1>3, <1>4, TextIs
<1> QED
  BY <1>5 DEF Console!Next, Console!Read

\* A reader takes a character only when a unit of the semaphore says that
\* there is one.
LEMMA GetcharText ==
  ASSUME LInv, getchar \/ getchar_woken PROVE [Console!Next]_(Console!vars)
<1>1. /\ Ring /\ LineCredits /\ value[serial_sem] \in Int
      /\ head \in Int /\ clapboard \in Int
  BY SemKinds DEF LInv, Ring, FInv, WInv, SInv, TypeOK
<1>2. ASSUME take_char, units > 0 \/ readers # {} PROVE Console!Next
  <2>1. readers # {} => Cardinality(readers) # 0
    BY ReadersFinite, FS_EmptySet
  <2>2. units \in Nat /\ Cardinality(readers) \in Nat
    BY <1>1, ReadersFinite DEF units
  <2>3. clapboard > head
    BY <1>1, <1>2, <2>1, <2>2 DEF LineCredits
  <2> QED
    BY <1>1, <1>2, <2>3, TakeText
<1>3. CASE getchar_woken
  <2>1. /\ SInv /\ CtxArg /\ resumes("getchar")
    BY <1>3 DEF LInv, FInv, WInv, Waits, getchar_woken
  <2>2. curr \in readers
    BY <2>1, UserStep DEF readers, woken, CtxArg, resumes
  <2> QED
    BY <1>2, <1>3, <2>2 DEF getchar_woken
<1>4. CASE sem_p_takes(serial_sem) /\ take_char
  BY <1>1, <1>2, <1>4 DEF sem_p_takes, units
<1>5. CASE UNCHANGED svars
  BY <1>5, TextIs DEF svars, Console!vars
<1> QED
  BY <1>3, <1>4, <1>5 DEF getchar

\* The ring buffer implements the line discipline, for every buffer size and
\* every number of readers: characters of finished lines are handed out once
\* each and in order, backspace and Enter act on the line being typed only,
\* and nothing is lost or changed before more characters are unread than the
\* buffer holds.
THEOREM RingImplementsLines == SerialSpec => ImplementsLineInput
<1>1. SerialInit => Console!Init
  <2> SUFFICES ASSUME SerialInit PROVE Console!Init
    OBVIOUS
  <2>1. head = 0 /\ clapboard = 0 /\ tail = 0 /\ 0 \in Nat
    BY DEF SerialInit
  <2> QED
    BY <2>1, TextIs, NoText DEF Console!Init
<1>2. LInv /\ [SerialNext]_allvars => [Console!Next]_(Console!vars)
  <2> SUFFICES ASSUME LInv, [SerialNext]_allvars
               PROVE  [Console!Next]_(Console!vars)
    OBVIOUS
  <2>1. Ring
    BY DEF LInv
  <2>2. CASE UNCHANGED <<buffer, head, clapboard, tail>>
    BY <2>2, TextIs DEF Console!vars
  <2>3. \/ UNCHANGED <<buffer, head, clapboard, tail>>
        \/ (\E c \in Chars : serial_handle(c)) \/ serial_backspace
        \/ getchar \/ getchar_woken
    BY DEF SerialNext, allvars, svars, serial_read
  <2> QED
    BY <2>1, <2>2, <2>3, HandleText, BackspaceText, GetcharText
<1> QED
  BY <1>1, <1>2, InitLines, NextLines, PTL
  DEF SerialSpec, ImplementsLineInput, Console!Spec
=============================================================================
