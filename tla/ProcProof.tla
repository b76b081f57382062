----------------------------- MODULE ProcProof -----------------------------
(***************************************************************************)
(* Proofs about Proc for every number of PCBs, semaphores and descriptors, *)
(* every tick modulus, and whatever values programs pass.                  *)
(***************************************************************************)
EXTENDS Proc, FiniteSetTheorems, WellFoundedInduction, TLAPS

-----------------------------------------------------------------------------
(***************************************************************************)
(* Facts about the operators of Proc.                                      *)
(***************************************************************************)

\* A nonempty set of naturals has a least element.
LEMMA LeastNatural ==
  ASSUME NEW S \in SUBSET Nat, S # {}
  PROVE  \E x \in S : \A y \in S : x <= y
<1> DEFINE Less == {ss \in Nat \X Nat : ss[1] < ss[2]}
<1>1. IsWellFoundedOn(Less, Nat)
  BY NatLessThanWellFounded, Zenon DEF OpToRel
<1> HIDE DEF Less
<1>2. PICK x \in S : \A y \in S : ~ (<<y, x>> \in Less)
  BY <1>1, WFMin
<1>3. \A y \in S : x <= y
  <2> SUFFICES ASSUME NEW y \in S, y < x PROVE FALSE
    OBVIOUS
  <2>1. <<y, x>> \in Nat \X Nat
    OBVIOUS
  <2>2. <<y, x>>[1] < <<y, x>>[2]
    OBVIOUS
  <2>3. <<y, x>> \in Less
    BY <2>1, <2>2, Zenon DEF Less
  <2> QED
    BY <1>2, <2>3
<1> QED
  BY <1>3

LEMMA MinOfNaturals ==
  ASSUME NEW S \in SUBSET Nat, S # {}
  PROVE  Min(S) \in S /\ \A y \in S : Min(S) <= y
  BY LeastNatural DEF Min

\* schedule's scan finds a READY process when there is one.
LEMMA NextReady ==
  ASSUME curr \in Procs, NEW st, \E p \in Procs : st[p] = "READY"
  PROVE  next_ready(st) \in Procs /\ st[next_ready(st)] = "READY"
<1> DEFINE R == {p \in Procs : st[p] = "READY"}
           S == {scan_distance(p) : p \in R}
<1>1. S \in SUBSET Nat
  BY ProcAssumption DEF scan_distance, Procs
<1>2. S # {}
  OBVIOUS
<1>3. PICK d \in S : \A e \in S : d <= e
  BY <1>1, <1>2, LeastNatural
<1>4. PICK p \in R : scan_distance(p) = d
  OBVIOUS
<1>5. \A q \in Procs : st[q] = "READY" => scan_distance(p) <= scan_distance(q)
  BY <1>3, <1>4
<1> QED
  BY <1>4, <1>5 DEF next_ready

\* What a switch of processes does to status and curr.
LEMMA ScheduleEffect ==
  ASSUME curr \in Procs, NEW st \in [Procs -> Status], NEW fault \in BOOLEAN,
         schedule(st, fault)
  PROVE  /\ curr' \in Procs /\ status' \in [Procs -> Status]
         /\ halted' \in BOOLEAN
         /\ (\E p \in Procs : st[p] = "READY") =>
              /\ st[curr'] = "READY" /\ halted' = fault
              /\ status' = [st EXCEPT ![curr'] = "RUNNING"]
<1>1. CASE \E p \in Procs : st[p] = "READY"
  <2>1. next_ready(st) \in Procs /\ st[next_ready(st)] = "READY"
    BY <1>1, NextReady
  <2>2. /\ status' = [st EXCEPT ![next_ready(st)] = "RUNNING"]
        /\ curr' = next_ready(st) /\ halted' = fault
    BY <1>1 DEF schedule, proc_run
  <2> QED
    BY <2>1, <2>2 DEF Status
<1>2. CASE ~ \E p \in Procs : st[p] = "READY"
  BY <1>2 DEF schedule
<1> QED
  BY <1>1, <1>2

LEMMA HoldsType == \A p, u : holds(p, u) \in Nat
<1> TAKE p, u
<1>1. IsFiniteSet(Fds)
  BY ProcAssumption, FS_Interval DEF Fds
<1> QED
  BY <1>1, FS_Subset, FS_CardinalityType DEF holds

LEMMA SemTypes ==
  /\ \A p \in Procs : zombie_sem(p) \in Sems
  /\ user_sem \subseteq Sems
  /\ NULL \notin user_sem /\ NULL \notin Procs
  BY ProcAssumption DEF zombie_sem, user_sem, Sems, NULL, Procs

\* sem_v_status, list_dequeue and sem_v keep the types, whatever the list.
LEMMA SemVType ==
  ASSUME TypeOK, NEW s \in Sems, NEW st \in [Procs -> Status]
  PROVE  /\ sem_v_status(s, st) \in [Procs -> Status]
         /\ sem_v_faults(s) \in BOOLEAN
         /\ sem_v(s) => /\ value' \in [Sems -> Int]
                        /\ wait_list' \in [Sems -> Seq(Procs)]
                        /\ free_nodes' \in Int
<1>1. wait_list[s] \in Seq(Procs) /\ value[s] \in Int /\ free_nodes \in Int
  BY DEF TypeOK
<1>2. wait_list[s] # <<>> => /\ Head(wait_list[s]) \in Procs
                             /\ Tail(wait_list[s]) \in Seq(Procs)
  BY <1>1
<1>3. sem_v_status(s, st) \in [Procs -> Status]
  BY <1>2 DEF sem_v_status, Status
<1>4. ASSUME sem_v(s)
      PROVE  /\ value' \in [Sems -> Int]
             /\ wait_list' \in [Sems -> Seq(Procs)]
             /\ free_nodes' \in Int
  <2>1. value' = [value EXCEPT ![s] = @ + 1]
    BY <1>4 DEF sem_v
  <2>2. value' \in [Sems -> Int]
    BY <1>1, <2>1 DEF TypeOK
  <2>3. CASE UNCHANGED <<wait_list, free_nodes>>
    BY <2>2, <2>3 DEF TypeOK
  <2>4. CASE /\ wait_list[s] # <<>>
             /\ wait_list' = [wait_list EXCEPT ![s] = Tail(@)]
             /\ free_nodes' = free_nodes + 1
    BY <1>1, <1>2, <2>2, <2>4 DEF TypeOK
  <2> QED
    BY <1>4, <2>3, <2>4 DEF sem_v, list_dequeue
<1> QED
  BY <1>3, <1>4 DEF sem_v_faults

\* sem_p that blocks keeps the types.
LEMMA SemPBlocksType ==
  ASSUME TypeOK, NEW s \in Sems, NEW c \in Ctx, sem_p_blocks(s, c)
  PROVE  /\ curr' \in Procs /\ status' \in [Procs -> Status]
         /\ halted' \in BOOLEAN
         /\ ctx' \in [Procs -> Ctx] /\ sem_arg' \in [Procs -> Sems \cup {NULL}]
         /\ value' \in [Sems -> Int] /\ wait_list' \in [Sems -> Seq(Procs)]
         /\ free_nodes' \in Int
<1>1. [status EXCEPT ![curr] = "BLOCKED"] \in [Procs -> Status]
  BY DEF TypeOK, Status
<1>2. curr \in Procs /\ (free_nodes = 0) \in BOOLEAN
  BY DEF TypeOK
<1>3. curr' \in Procs /\ status' \in [Procs -> Status] /\ halted' \in BOOLEAN
  BY <1>1, <1>2, ScheduleEffect DEF sem_p_blocks
<1>4. /\ value' \in [Sems -> Int] /\ wait_list' \in [Sems -> Seq(Procs)]
      /\ free_nodes' \in Int
  BY DEF TypeOK, sem_p_blocks, list_enqueue
<1>5. ctx' \in [Procs -> Ctx] /\ sem_arg' \in [Procs -> Sems \cup {NULL}]
  BY DEF TypeOK, sem_p_blocks
<1> QED
  BY <1>3, <1>4, <1>5

LEMMA YieldType ==
  ASSUME TypeOK, proc_yield
  PROVE  curr' \in Procs /\ status' \in [Procs -> Status] /\ halted' \in BOOLEAN
<1>1. [status EXCEPT ![curr] = "READY"] \in [Procs -> Status] /\ curr \in Procs
  BY DEF TypeOK, Status
<1> QED
  BY <1>1, ScheduleEffect DEF proc_yield

LEMMA FindZombieType ==
  ASSUME NEW p
  PROVE  proc_findzombie(p) \in Procs \cup {NULL}
<1>1. zombies(p) \in SUBSET Nat
  BY ProcAssumption DEF zombies, Procs
<1>2. zombies(p) \subseteq Procs
  BY DEF zombies
<1> QED
  BY <1>1, <1>2, MinOfNaturals DEF proc_findzombie

LEMMA ReapType ==
  ASSUME TypeOK, reap
  PROVE  /\ status' \in [Procs -> Status] /\ halted' \in BOOLEAN
         /\ child_num' \in [Procs -> Int]
<1>1. proc_findzombie(curr) \in Procs \cup {NULL}
  BY FindZombieType
<1>2. halted' \in BOOLEAN
  BY Zenon DEF reap
<1>3. CASE proc_findzombie(curr) = NULL
  BY <1>2, <1>3 DEF reap, TypeOK
<1>4. CASE proc_findzombie(curr) # NULL
  <2>1. /\ status' = [status EXCEPT ![proc_findzombie(curr)] = "UNUSED"]
        /\ child_num' = [child_num EXCEPT ![curr] = @ - 1]
    BY <1>4 DEF reap
  <2> QED
    BY <1>1, <1>2, <1>4, <2>1 DEF TypeOK, Status
<1> QED
  BY <1>3, <1>4

-----------------------------------------------------------------------------
(***************************************************************************)
(* Type correctness, one lemma per group of actions.                       *)
(***************************************************************************)

LEMMA InitType == Init => TypeOK
<1> SUFFICES ASSUME Init PROVE TypeOK
  OBVIOUS
<1>1. curr \in Procs /\ tick \in 0 .. TICK_MOD - 1 /\ free_nodes \in Int
  BY ProcAssumption DEF Init, Procs
<1>2. status \in [Procs -> Status] /\ ctx \in [Procs -> Ctx]
  BY DEF Init, Status, Ctx
<1>3. sleep \in [Procs -> [cur : 0 .. TICK_MOD - 1, ticks : 0 .. TICK_MOD - 1]]
  BY ProcAssumption DEF Init, awake
<1>4. /\ sem_arg \in [Procs -> Sems \cup {NULL}]
      /\ parent \in [Procs -> Procs \cup {NULL}]
      /\ usems \in [Procs -> [Fds -> user_sem \cup {NULL}]]
  BY DEF Init
<1>5. /\ child_num \in [Procs -> Int] /\ ref \in [user_sem -> Int]
      /\ value \in [Sems -> Int]
  BY DEF Init
<1>6. wait_list \in [Sems -> Seq(Procs)]
  BY DEF Init
<1>7. halted \in BOOLEAN
  BY DEF Init
<1> QED
  BY <1>1, <1>2, <1>3, <1>4, <1>5, <1>6, <1>7 DEF TypeOK

LEMMA TimerType ==
  ASSUME TypeOK,
         timer_handle \/ sys_yield \/ sys_sleep_again
           \/ \E n \in SleepTicks : sys_sleep(n)
  PROVE  TypeOK'
<1> USE ProcAssumption
<1>1. CASE timer_handle
  <2>1. tick' \in 0 .. TICK_MOD - 1
    BY <1>1 DEF timer_handle, TypeOK
  <2> QED
    BY <1>1, <2>1, YieldType DEF timer_handle, TypeOK
<1>2. CASE sys_yield
  BY <1>2, YieldType DEF sys_yield, TypeOK
<1>3. CASE sys_sleep_again
  <2>1. CASE proc_yield /\ UNCHANGED <<ctx, sleep>>
    BY <1>3, <2>1, YieldType DEF sys_sleep_again, TypeOK
  <2>2. CASE /\ ctx' = [ctx EXCEPT ![curr] = "user"]
             /\ sleep' = [sleep EXCEPT ![curr] = awake]
             /\ UNCHANGED <<status, curr, halted>>
    <3>1. awake \in [cur : 0 .. TICK_MOD - 1, ticks : 0 .. TICK_MOD - 1]
      BY DEF awake
    <3> QED
      BY <1>3, <2>2, <3>1 DEF sys_sleep_again, TypeOK, Ctx
  <2> QED
    BY <1>3, <2>1, <2>2 DEF sys_sleep_again
<1>4. ASSUME NEW n \in SleepTicks, sys_sleep(n) PROVE TypeOK'
  <2> DEFINE s == [cur |-> tick, ticks |-> n]
  <2>1. s \in [cur : 0 .. TICK_MOD - 1, ticks : 0 .. TICK_MOD - 1]
    BY DEF TypeOK
  <2>2. CASE /\ ctx' = [ctx EXCEPT ![curr] = "sleep"]
             /\ sleep' = [sleep EXCEPT ![curr] = s]
             /\ proc_yield
    <3> HIDE DEF s
    <3> QED
      BY <1>4, <2>1, <2>2, YieldType DEF sys_sleep, TypeOK, Ctx
  <2>3. CASE UNCHANGED <<ctx, sleep, status, curr, halted>>
    BY <1>4, <2>3 DEF sys_sleep, TypeOK
  <2> QED
    BY <1>4, <2>2, <2>3 DEF sys_sleep
<1> QED
  BY <1>1, <1>2, <1>3, <1>4

LEMMA ForkType == ASSUME TypeOK, sys_fork PROVE TypeOK'
<1>1. CASE unused = {}
  BY <1>1 DEF sys_fork, vars, TypeOK
<1>2. CASE unused # {}
  <2> DEFINE c == Min(unused)
  <2>1. c \in Procs
    <3>1. unused \in SUBSET Nat
      BY ProcAssumption DEF unused, Procs
    <3> QED
      BY <3>1, <1>2, MinOfNaturals DEF unused
  <2> HIDE DEF c
  <2>2. /\ status' = [status EXCEPT ![c] = "READY"]
        /\ ctx' = [ctx EXCEPT ![c] = "user"]
        /\ sem_arg' = [sem_arg EXCEPT ![c] = NULL]
        /\ sleep' = [sleep EXCEPT ![c] = awake]
        /\ parent' = [parent EXCEPT ![c] = curr]
        /\ child_num' = [child_num EXCEPT ![c] = 0, ![curr] = @ + 1]
        /\ sem_init(zombie_sem(c), 0)
        /\ usem_dup_all(c)
        /\ UNCHANGED <<curr, free_nodes, tick, halted>>
    BY <1>2 DEF sys_fork, c
  <2>3. value' \in [Sems -> Int] /\ wait_list' \in [Sems -> Seq(Procs)]
    BY <2>1, <2>2, SemTypes DEF sem_init, TypeOK
  <2>4. /\ usems' \in [Procs -> [Fds -> user_sem \cup {NULL}]]
        /\ ref' \in [user_sem -> Int]
    BY <2>1, <2>2, HoldsType DEF usem_dup_all, TypeOK
  <2>5. child_num' \in [Procs -> Int]
    BY <2>1, <2>2 DEF TypeOK
  <2>6. sleep' \in [Procs -> [cur : 0 .. TICK_MOD - 1, ticks : 0 .. TICK_MOD - 1]]
    BY <2>1, <2>2, ProcAssumption DEF TypeOK, awake
  <2> QED
    BY <2>1, <2>2, <2>3, <2>4, <2>5, <2>6 DEF TypeOK, Status, Ctx
<1> QED
  BY <1>1, <1>2

LEMMA ExitType == ASSUME TypeOK, sys_exit PROVE TypeOK'
<1> DEFINE p == parent[curr]
           dead == [status EXCEPT ![curr] = "ZOMBIE"]
<1>1. dead \in [Procs -> Status] /\ curr \in Procs /\ p \in Procs \cup {NULL}
  BY DEF TypeOK, Status
<1>2. /\ curr' \in Procs /\ status' \in [Procs -> Status] /\ halted' \in BOOLEAN
      /\ value' \in [Sems -> Int] /\ wait_list' \in [Sems -> Seq(Procs)]
      /\ free_nodes' \in Int
  <2>1. CASE has_parent
    <3>1. zombie_sem(p) \in Sems
      BY <1>1, <2>1, SemTypes DEF has_parent
    <3>2. /\ sem_v(zombie_sem(p))
          /\ schedule(sem_v_status(zombie_sem(p), dead),
                      sem_v_faults(zombie_sem(p)))
      BY <2>1 DEF sys_exit
    <3> QED
      BY <1>1, <3>1, <3>2, SemVType, ScheduleEffect
  <2>2. CASE ~has_parent
    <3>1. schedule(dead, FALSE) /\ UNCHANGED <<value, wait_list, free_nodes>>
      BY <2>2 DEF sys_exit
    <3> QED
      BY <1>1, <3>1, ScheduleEffect DEF TypeOK
  <2> QED
    BY <2>1, <2>2
<1>3. parent' \in [Procs -> Procs \cup {NULL}] /\ ref' \in [user_sem -> Int]
  BY HoldsType DEF sys_exit, orphan_children, TypeOK
<1>4. ctx' \in [Procs -> Ctx]
  BY DEF sys_exit, TypeOK, Ctx
<1> QED
  BY <1>2, <1>3, <1>4 DEF sys_exit, TypeOK

LEMMA WaitType == ASSUME TypeOK, sys_wait \/ sys_wait_woken PROVE TypeOK'
<1>1. zombie_sem(curr) \in Sems
  BY SemTypes DEF TypeOK
<1>2. CASE sys_wait
  <2>1. CASE UNCHANGED vars
    BY <2>1 DEF vars, TypeOK
  <2>2. CASE /\ sem_p_takes(zombie_sem(curr)) /\ reap
             /\ UNCHANGED <<curr, ctx, sem_arg, sleep, parent, usems, ref, tick>>
    <3>1. value' \in [Sems -> Int] /\ UNCHANGED <<wait_list, free_nodes>>
      BY <1>1, <2>2 DEF sem_p_takes, TypeOK
    <3> QED
      BY <2>2, <3>1, ReapType DEF TypeOK
  <2>3. CASE /\ sem_p_blocks(zombie_sem(curr), "wait")
             /\ UNCHANGED <<sleep, parent, child_num, usems, ref, tick>>
    <3>1. "wait" \in Ctx
      BY DEF Ctx
    <3> QED
      BY <1>1, <2>3, <3>1, SemPBlocksType DEF TypeOK
  <2> QED
    BY <1>2, <2>1, <2>2, <2>3 DEF sys_wait
<1>3. CASE sys_wait_woken
  BY <1>3, ReapType DEF sys_wait_woken, TypeOK, Ctx
<1> QED
  BY <1>2, <1>3

LEMMA OpenType ==
  ASSUME TypeOK, NEW v \in InitValues, sys_sem_open(v) PROVE TypeOK'
<1>1. CASE UNCHANGED vars
  BY <1>1 DEF vars, TypeOK
<1>2. CASE proc_allocusem(curr) # {} /\ free_usems # {}
  <2> DEFINE i == Min(proc_allocusem(curr))
             u == Min(free_usems)
  <2>1. i \in Fds
    <3>1. proc_allocusem(curr) \in SUBSET Nat
      BY ProcAssumption DEF proc_allocusem, Fds
    <3> QED
      BY <1>2, <3>1, MinOfNaturals DEF proc_allocusem
  <2>2. u \in user_sem
    <3>1. free_usems \in SUBSET Nat
      BY ProcAssumption DEF free_usems, user_sem
    <3> QED
      BY <1>2, <3>1, MinOfNaturals DEF free_usems
  <2>3. /\ sem_init(u, v) /\ ref' = [ref EXCEPT ![u] = 1]
        /\ usems' = [usems EXCEPT ![curr][i] = u]
        /\ UNCHANGED <<curr, status, ctx, sem_arg, sleep, parent, child_num,
                       free_nodes, tick, halted>>
    BY <1>2 DEF sys_sem_open
  <2> HIDE DEF i, u
  <2>4. value' \in [Sems -> Int] /\ wait_list' \in [Sems -> Seq(Procs)]
    BY <2>2, <2>3, SemTypes, ProcAssumption DEF sem_init, TypeOK
  <2>5. usems' \in [Procs -> [Fds -> user_sem \cup {NULL}]]
    BY <2>1, <2>2, <2>3 DEF TypeOK
  <2> QED
    BY <2>2, <2>3, <2>4, <2>5 DEF TypeOK
<1> QED
  BY <1>1, <1>2 DEF sys_sem_open

LEMMA UsemType ==
  ASSUME TypeOK, NEW i \in Fds,
         sys_sem_p(i) \/ sys_sem_v(i) \/ sys_sem_close(i) \/ sys_sem_bad(i)
  PROVE  TypeOK'
<1> DEFINE s == usems[curr][i]
<1>1. s # NULL => s \in user_sem /\ s \in Sems
  BY SemTypes DEF TypeOK
<1>2. CASE sys_sem_p(i)
  <2>1. CASE sem_p_takes(s) /\ UNCHANGED <<curr, status, ctx, sem_arg, halted>>
    BY <1>1, <1>2, <2>1 DEF sys_sem_p, sem_p_takes, TypeOK
  <2>2. CASE sem_p_blocks(s, "semp")
    <3>1. "semp" \in Ctx /\ s \in Sems
      BY <1>1, <1>2 DEF Ctx, sys_sem_p
    <3> QED
      BY <1>2, <2>2, <3>1, SemPBlocksType DEF sys_sem_p, TypeOK
  <2> QED
    BY <1>2, <2>1, <2>2 DEF sys_sem_p
<1>3. CASE sys_sem_v(i)
  <2>1. s \in Sems /\ status \in [Procs -> Status]
    BY <1>1, <1>3 DEF sys_sem_v, TypeOK
  <2> QED
    BY <1>3, <2>1, SemVType DEF sys_sem_v, TypeOK
<1>4. CASE sys_sem_close(i)
  BY <1>1, <1>4 DEF sys_sem_close, TypeOK
<1>5. CASE sys_sem_bad(i)
  BY <1>5 DEF sys_sem_bad, vars, TypeOK
<1> QED
  BY <1>2, <1>3, <1>4, <1>5

LEMMA NextType == TypeOK /\ [Next]_vars => TypeOK'
<1> SUFFICES ASSUME TypeOK, [Next]_vars PROVE TypeOK'
  OBVIOUS
<1>1. CASE sys_sem_p_woken
  BY <1>1 DEF sys_sem_p_woken, TypeOK, Ctx
<1>2. CASE UNCHANGED vars
  BY <1>2 DEF vars, TypeOK
<1> QED
  BY <1>1, <1>2, TimerType, ForkType, ExitType, WaitType, OpenType, UsemType
  DEF Next, Kernel, Syscall

\* The variables of the process kernel keep their types: in particular every
\* PCB that schedule, sem_v and wait touch is a PCB of the table.
THEOREM TypeCorrect == Spec => []TypeOK
  BY InitType, NextType, PTL DEF Spec

-----------------------------------------------------------------------------
(***************************************************************************)
(* Scheduling.  That a V never readies the running process, and so never   *)
(* makes a second one RUNNING, needs to be known of the wait lists: their  *)
(* members are BLOCKED, in the list of the semaphore they wait for, and    *)
(* only once - else the V that readies the first occurrence would leave a  *)
(* READY process behind in a list.                                         *)
(***************************************************************************)

OnlyCurrRuns == \A p \in Procs : status[p] = "RUNNING" <=> p = curr
IdleCanRun == status[0] \in {"RUNNING", "READY"}

Sched == OnlyCurrRuns /\ IdleCanRun /\ WaitersBlocked /\ WaitersDistinct

SInv == TypeOK /\ ctx[0] = "idle" /\ Sched

\* WaitersBlocked with the statuses st in place of status
BlockedUnder(st, wl) ==
  \A s \in Sems : \A k \in 1 .. Len(wl[s]) :
    st[wl[s][k]] = "BLOCKED" /\ sem_arg[wl[s][k]] = s

LEMMA ZeroIsProc == 0 \in Procs /\ \A p \in Procs : zombie_sem(p) = p
  BY ProcAssumption DEF Procs, zombie_sem

LEMMA WaiterIsProc ==
  ASSUME TypeOK
  PROVE  \A s \in Sems : \A k \in 1 .. Len(wait_list[s]) : wait_list[s][k] \in Procs
  BY DEF TypeOK

\* A switch away from statuses st in which nobody runs.
LEMMA SwitchRuns ==
  ASSUME curr \in Procs, NEW st \in [Procs -> Status], NEW fault \in BOOLEAN,
         \A p \in Procs : st[p] # "RUNNING", st[0] = "READY",
         schedule(st, fault)
  PROVE  /\ OnlyCurrRuns' /\ IdleCanRun' /\ halted' = fault
         /\ \A p \in Procs : st[p] = "BLOCKED" => status'[p] = "BLOCKED"
         /\ \A p \in Procs : \/ status'[p] = st[p]
                             \/ st[p] = "READY" /\ status'[p] = "RUNNING"
<1>1. /\ curr' \in Procs /\ st[curr'] = "READY" /\ halted' = fault
      /\ status' = [st EXCEPT ![curr'] = "RUNNING"]
  BY ScheduleEffect, ZeroIsProc
<1> QED
  BY <1>1, ZeroIsProc DEF OnlyCurrRuns, IdleCanRun

\* Wait lists that no step touches.
LEMMA WaitersKept ==
  ASSUME TypeOK, WaitersDistinct, UNCHANGED <<wait_list, sem_arg>>,
         NEW st, BlockedUnder(st, wait_list),
         \A p \in Procs : st[p] = "BLOCKED" => status'[p] = "BLOCKED"
  PROVE  WaitersBlocked' /\ WaitersDistinct'
<1>1. \A s \in Sems : \A k \in 1 .. Len(wait_list[s]) :
        wait_list[s][k] \in Procs
  BY DEF TypeOK
<1> QED
  BY <1>1 DEF WaitersBlocked, WaitersDistinct, BlockedUnder

LEMMA YieldSched ==
  ASSUME TypeOK, Sched, proc_yield, UNCHANGED <<wait_list, sem_arg>>
  PROVE  Sched'
<1> DEFINE st == [status EXCEPT ![curr] = "READY"]
<1>1. /\ st \in [Procs -> Status] /\ curr \in Procs
      /\ \A p \in Procs : st[p] # "RUNNING"
      /\ st[0] = "READY"
      /\ \A p \in Procs : status[p] = "BLOCKED" => st[p] = "BLOCKED"
  BY ZeroIsProc DEF TypeOK, Status, Sched, OnlyCurrRuns, IdleCanRun
<1>2. schedule(st, FALSE)
  BY DEF proc_yield
<1> HIDE DEF st
<1>3. /\ OnlyCurrRuns' /\ IdleCanRun'
      /\ \A p \in Procs : st[p] = "BLOCKED" => status'[p] = "BLOCKED"
  BY <1>1, <1>2, SwitchRuns
<1>4. WaitersBlocked' /\ WaitersDistinct'
  <2>1. BlockedUnder(status, wait_list) /\ WaitersDistinct
    BY DEF Sched, WaitersBlocked, BlockedUnder
  <2>2. \A p \in Procs : status[p] = "BLOCKED" => status'[p] = "BLOCKED"
    BY <1>1, <1>3
  <2> QED
    BY <2>1, <2>2, WaitersKept
<1> QED
  BY <1>3, <1>4 DEF Sched

\* sem_p that blocks: curr, which was in no list, is put into one.
LEMMA SemPBlocksSched ==
  ASSUME TypeOK, Sched, curr # 0, NEW s \in Sems, NEW c \in Ctx,
         sem_p_blocks(s, c)
  PROVE  Sched'
<1> DEFINE st == [status EXCEPT ![curr] = "BLOCKED"]
<1>1. /\ st \in [Procs -> Status] /\ curr \in Procs
      /\ \A p \in Procs : st[p] # "RUNNING"
      /\ st[0] = "READY" /\ st[curr] = "BLOCKED"
      /\ \A p \in Procs : status[p] = "BLOCKED" => st[p] = "BLOCKED"
  BY ZeroIsProc DEF TypeOK, Status, Sched, OnlyCurrRuns, IdleCanRun
<1>2. schedule(st, free_nodes = 0) /\ (free_nodes = 0) \in BOOLEAN
  BY DEF sem_p_blocks
<1> HIDE DEF st
<1>3. /\ OnlyCurrRuns' /\ IdleCanRun'
      /\ \A p \in Procs : st[p] = "BLOCKED" => status'[p] = "BLOCKED"
  BY <1>1, <1>2, SwitchRuns
<1>4. /\ wait_list' = [wait_list EXCEPT ![s] = Append(@, curr)]
      /\ sem_arg' = [sem_arg EXCEPT ![curr] = s]
  BY DEF sem_p_blocks, list_enqueue
<1>5. \A t \in Sems : \A k \in 1 .. Len(wait_list[t]) :
        /\ wait_list[t][k] \in Procs /\ wait_list[t][k] # curr
        /\ status[wait_list[t][k]] = "BLOCKED" /\ sem_arg[wait_list[t][k]] = t
  <2>1. status[curr] = "RUNNING"
    BY <1>1 DEF Sched, OnlyCurrRuns
  <2> QED
    BY <2>1, WaiterIsProc DEF Sched, WaitersBlocked
<1>6. ASSUME NEW t \in Sems, NEW k \in 1 .. Len(wait_list'[t])
      PROVE  \/ k \in 1 .. Len(wait_list[t]) /\ wait_list'[t][k] = wait_list[t][k]
             \/ t = s /\ k = Len(wait_list[t]) + 1 /\ wait_list'[t][k] = curr
  <2>1. wait_list[t] \in Seq(Procs) /\ wait_list[s] \in Seq(Procs)
    BY DEF TypeOK
  <2>2. CASE t # s
    BY <1>4, <2>2 DEF TypeOK
  <2>3. CASE t = s
    <3>1. wait_list'[t] = Append(wait_list[t], curr)
      BY <1>4, <2>3 DEF TypeOK
    <3> QED
      BY <1>1, <2>1, <2>3, <3>1
  <2> QED
    BY <2>2, <2>3
<1>7. WaitersBlocked'
  <2> SUFFICES ASSUME NEW t \in Sems, NEW k \in 1 .. Len(wait_list'[t])
               PROVE  /\ status'[wait_list'[t][k]] = "BLOCKED"
                      /\ sem_arg'[wait_list'[t][k]] = t
    BY DEF WaitersBlocked
  <2>1. CASE k \in 1 .. Len(wait_list[t]) /\ wait_list'[t][k] = wait_list[t][k]
    <3>1. /\ wait_list[t][k] \in Procs /\ wait_list[t][k] # curr
          /\ status[wait_list[t][k]] = "BLOCKED" /\ sem_arg[wait_list[t][k]] = t
      BY <1>5, <2>1
    <3>2. sem_arg'[wait_list[t][k]] = sem_arg[wait_list[t][k]]
      BY <1>4, <3>1 DEF TypeOK
    <3> QED
      BY <1>1, <1>3, <2>1, <3>1, <3>2
  <2>2. CASE t = s /\ wait_list'[t][k] = curr
    BY <1>1, <1>3, <1>4, <2>2 DEF TypeOK
  <2> QED
    BY <1>6, <2>1, <2>2
<1>8. WaitersDistinct'
  <2> SUFFICES ASSUME NEW t \in Sems, NEW j \in 1 .. Len(wait_list'[t]),
                      NEW k \in 1 .. Len(wait_list'[t]),
                      wait_list'[t][j] = wait_list'[t][k]
               PROVE  j = k
    BY DEF WaitersDistinct
  <2> QED
    BY <1>5, <1>6 DEF Sched, WaitersDistinct
<1> QED
  BY <1>3, <1>7, <1>8 DEF Sched

\* sem_v: the first waiter leaves its list and is in no other one.  st is the
\* status of all processes at the call.
LEMMA SemVSched ==
  ASSUME TypeOK, WaitersBlocked, WaitersDistinct, NEW s \in Sems,
         NEW st \in [Procs -> Status],
         \A p \in Procs : status[p] = "BLOCKED" => st[p] = "BLOCKED",
         sem_v(s)
  PROVE  /\ BlockedUnder(sem_v_status(s, st), wait_list')
         /\ WaitersDistinct'
         /\ \A p \in Procs : sem_v_status(s, st)[p]
                               \in {st[p]} \cup (IF st[p] = "BLOCKED"
                                                 THEN {"READY"} ELSE {})
<1>1. \A t \in Sems : \A k \in 1 .. Len(wait_list[t]) :
        /\ wait_list[t][k] \in Procs
        /\ st[wait_list[t][k]] = "BLOCKED" /\ sem_arg[wait_list[t][k]] = t
  BY WaiterIsProc DEF WaitersBlocked
<1>2. CASE ~ (wakes(s) /\ wait_list[s] # <<>>)
  <2>1. wait_list' = wait_list /\ sem_v_status(s, st) = st
    BY <1>2 DEF sem_v, list_dequeue, sem_v_status
  <2> QED
    BY <1>1, <2>1 DEF BlockedUnder, WaitersDistinct
<1>3. CASE wakes(s) /\ wait_list[s] # <<>>
  <2> DEFINE h == Head(wait_list[s])
  <2>1. /\ wait_list' = [wait_list EXCEPT ![s] = Tail(@)]
        /\ sem_v_status(s, st) = [st EXCEPT ![h] = "READY"]
    BY <1>3 DEF sem_v, list_dequeue, sem_v_status
  <2>2. wait_list[s] \in Seq(Procs) /\ h = wait_list[s][1] /\ 1 \in 1 .. Len(wait_list[s])
    BY <1>3 DEF TypeOK
  <2>3. h \in Procs /\ st[h] = "BLOCKED" /\ sem_arg[h] = s
    BY <1>1, <2>2
  <2> HIDE DEF h
  <2>4. ASSUME NEW t \in Sems, NEW k \in 1 .. Len(wait_list'[t])
        PROVE  \/ /\ t # s /\ k \in 1 .. Len(wait_list[t])
                  /\ wait_list'[t][k] = wait_list[t][k]
               \/ /\ t = s /\ k + 1 \in 2 .. Len(wait_list[t])
                  /\ wait_list'[t][k] = wait_list[t][k + 1]
    <3>1. CASE t # s
      BY <2>1, <3>1 DEF TypeOK
    <3>2. CASE t = s
      <4>1. wait_list'[t] = Tail(wait_list[s])
        BY <2>1, <3>2 DEF TypeOK
      <4> QED
        BY <1>3, <2>2, <3>2, <4>1
    <3> QED
      BY <3>1, <3>2
  <2>5. ASSUME NEW t \in Sems, NEW k \in 1 .. Len(wait_list'[t])
        PROVE  /\ wait_list'[t][k] \in Procs /\ wait_list'[t][k] # h
               /\ st[wait_list'[t][k]] = "BLOCKED"
               /\ sem_arg[wait_list'[t][k]] = t
    <3>1. CASE /\ t # s /\ k \in 1 .. Len(wait_list[t])
               /\ wait_list'[t][k] = wait_list[t][k]
      BY <1>1, <2>3, <3>1
    <3>2. CASE /\ t = s /\ k + 1 \in 2 .. Len(wait_list[t])
               /\ wait_list'[t][k] = wait_list[t][k + 1]
      BY <1>1, <2>2, <3>2 DEF WaitersDistinct, h
    <3> QED
      BY <2>4, <3>1, <3>2
  <2>6. BlockedUnder(sem_v_status(s, st), wait_list')
    <3> SUFFICES ASSUME NEW t \in Sems, NEW k \in 1 .. Len(wait_list'[t])
                 PROVE  /\ sem_v_status(s, st)[wait_list'[t][k]] = "BLOCKED"
                        /\ sem_arg[wait_list'[t][k]] = t
      BY DEF BlockedUnder
    <3>1. /\ wait_list'[t][k] \in Procs /\ wait_list'[t][k] # h
          /\ st[wait_list'[t][k]] = "BLOCKED"
          /\ sem_arg[wait_list'[t][k]] = t
      BY <2>5
    <3>2. \A p \in Procs : p # h => [st EXCEPT ![h] = "READY"][p] = st[p]
      OBVIOUS
    <3> QED
      BY <2>1, <3>1, <3>2
  <2>7. WaitersDistinct'
    <3> SUFFICES ASSUME NEW t \in Sems, NEW j \in 1 .. Len(wait_list'[t]),
                        NEW k \in 1 .. Len(wait_list'[t]),
                        wait_list'[t][j] = wait_list'[t][k]
                 PROVE  j = k
      BY DEF WaitersDistinct
    <3>1. CASE t # s
      BY <2>4, <3>1 DEF WaitersDistinct
    <3>2. CASE t = s
      <4>1. /\ j + 1 \in 1 .. Len(wait_list[t]) /\ k + 1 \in 1 .. Len(wait_list[t])
            /\ wait_list[t][j + 1] = wait_list[t][k + 1]
        BY <2>4, <3>2
      <4>2. j + 1 = k + 1
        BY <4>1 DEF WaitersDistinct
      <4> QED
        BY <4>2
    <3> QED
      BY <3>1, <3>2
  <2> QED
    BY <2>1, <2>3, <2>6, <2>7
<1> QED
  BY <1>2, <1>3

\* The lists after the step hold processes that are still BLOCKED.
LEMMA WaitersAfter ==
  ASSUME TypeOK', sem_arg' = sem_arg, NEW st, BlockedUnder(st, wait_list'),
         \A p \in Procs : st[p] = "BLOCKED" => status'[p] = "BLOCKED"
  PROVE  WaitersBlocked'
<1>1. \A s \in Sems : \A k \in 1 .. Len(wait_list'[s]) :
        wait_list'[s][k] \in Procs
  BY DEF TypeOK
<1> QED
  BY <1>1 DEF WaitersBlocked, BlockedUnder

\* A step that only takes members out of lists and changes nothing about the
\* processes that stay there.
LEMMA WaitersShrink ==
  ASSUME TypeOK, WaitersBlocked, WaitersDistinct,
         \A s \in Sems : wait_list'[s] \in {wait_list[s], <<>>},
         \A p \in Procs : status[p] = "BLOCKED" =>
           status'[p] = "BLOCKED" /\ sem_arg'[p] = sem_arg[p]
  PROVE  WaitersBlocked' /\ WaitersDistinct'
<1>1. \A s \in Sems : \A k \in 1 .. Len(wait_list'[s]) :
        /\ wait_list'[s] = wait_list[s] /\ k \in 1 .. Len(wait_list[s])
        /\ wait_list[s][k] \in Procs
  <2> SUFFICES ASSUME NEW s \in Sems, NEW k \in 1 .. Len(wait_list'[s])
               PROVE  /\ wait_list'[s] = wait_list[s]
                      /\ k \in 1 .. Len(wait_list[s])
                      /\ wait_list[s][k] \in Procs
    OBVIOUS
  <2>1. wait_list'[s] # <<>>
    OBVIOUS
  <2>2. wait_list'[s] = wait_list[s]
    BY <2>1
  <2> QED
    BY <2>2, WaiterIsProc
<1> QED
  BY <1>1 DEF WaitersBlocked, WaitersDistinct

LEMMA UserIsNotIdle ==
  ASSUME SInv, in_user
  PROVE  /\ curr # 0 /\ ~halted /\ Sched /\ curr \in Procs
         /\ status[curr] = "RUNNING"
  BY ZeroIsProc DEF SInv, in_user, Sched, OnlyCurrRuns, TypeOK

LEMMA ForkSched ==
  ASSUME SInv, sys_fork PROVE ctx'[0] = "idle" /\ Sched'
<1>1. /\ curr # 0 /\ ~halted /\ Sched /\ curr \in Procs
      /\ status[curr] = "RUNNING" /\ TypeOK /\ ctx[0] = "idle"
  BY UserIsNotIdle DEF sys_fork, SInv
<1>2. CASE unused = {}
  BY <1>1, <1>2
  DEF sys_fork, vars, Sched, OnlyCurrRuns, IdleCanRun, WaitersBlocked,
      WaitersDistinct
<1>3. CASE unused # {}
  <2> DEFINE c == Min(unused)
  <2>1. c \in Procs /\ c # 0 /\ status[c] = "UNUSED"
    <3>1. unused \in SUBSET Nat
      BY ProcAssumption DEF unused, Procs
    <3> QED
      BY <3>1, <1>3, MinOfNaturals DEF unused
  <2>2. /\ status' = [status EXCEPT ![c] = "READY"]
        /\ ctx' = [ctx EXCEPT ![c] = "user"]
        /\ sem_arg' = [sem_arg EXCEPT ![c] = NULL]
        /\ wait_list' = [wait_list EXCEPT ![zombie_sem(c)] = <<>>]
        /\ curr' = curr
    BY <1>3 DEF sys_fork, sem_init
  <2> HIDE DEF c
  <2>3. OnlyCurrRuns' /\ IdleCanRun' /\ ctx'[0] = "idle"
    BY <1>1, <2>1, <2>2, ZeroIsProc
    DEF Sched, OnlyCurrRuns, IdleCanRun, TypeOK
  <2>4. \A p \in Procs : status[p] = "BLOCKED" =>
          status'[p] = "BLOCKED" /\ sem_arg'[p] = sem_arg[p]
    BY <1>1, <2>1, <2>2 DEF TypeOK
  <2>5. \A s \in Sems : wait_list'[s] \in {wait_list[s], <<>>}
    BY <1>1, <2>2 DEF TypeOK
  <2>6. WaitersBlocked' /\ WaitersDistinct'
    BY <1>1, <2>4, <2>5, WaitersShrink DEF Sched
  <2> QED
    BY <2>3, <2>6 DEF Sched
<1> QED
  BY <1>2, <1>3

LEMMA ExitSched ==
  ASSUME SInv, sys_exit, TypeOK' PROVE ctx'[0] = "idle" /\ Sched'
<1>1. /\ curr # 0 /\ ~halted /\ Sched /\ curr \in Procs
      /\ status[curr] = "RUNNING" /\ TypeOK /\ ctx[0] = "idle"
  BY UserIsNotIdle DEF sys_exit, SInv
<1>2. ctx'[0] = "idle" /\ sem_arg' = sem_arg
  BY <1>1, ZeroIsProc DEF sys_exit, TypeOK
<1> DEFINE p == parent[curr]
           dead == [status EXCEPT ![curr] = "ZOMBIE"]
<1>3. /\ dead \in [Procs -> Status]
      /\ \A q \in Procs : dead[q] # "RUNNING"
      /\ dead[0] = "READY"
      /\ \A q \in Procs : status[q] = "BLOCKED" => dead[q] = "BLOCKED"
  BY <1>1, ZeroIsProc DEF TypeOK, Status, Sched, OnlyCurrRuns, IdleCanRun
<1>4. ASSUME has_parent PROVE Sched'
  <2> DEFINE s == zombie_sem(p)
             st == sem_v_status(s, dead)
  <2>1. s \in Sems
    BY <1>1, <1>4, SemTypes DEF has_parent, TypeOK
  <2>2. sem_v(s) /\ schedule(st, sem_v_faults(s))
    BY <1>4 DEF sys_exit
  <2> HIDE DEF s, dead
  <2>3. /\ BlockedUnder(st, wait_list') /\ WaitersDistinct'
        /\ \A q \in Procs : st[q] \in {dead[q]} \cup (IF dead[q] = "BLOCKED"
                                                      THEN {"READY"} ELSE {})
    BY <1>1, <1>3, <2>1, <2>2, SemVSched DEF Sched
  <2>4. st \in [Procs -> Status] /\ sem_v_faults(s) \in BOOLEAN
    BY <1>1, <1>3, <2>1, SemVType
  <2> HIDE DEF st
  <2>5. (\A q \in Procs : st[q] # "RUNNING") /\ st[0] = "READY"
    BY <1>3, <2>3, ZeroIsProc
  <2>6. /\ OnlyCurrRuns' /\ IdleCanRun'
        /\ \A q \in Procs : st[q] = "BLOCKED" => status'[q] = "BLOCKED"
    BY <1>1, <1>4, <2>2, <2>4, <2>5, SwitchRuns
  <2>7. WaitersBlocked'
    BY <1>2, <2>3, <2>6, WaitersAfter
  <2> QED
    BY <2>3, <2>6, <2>7 DEF Sched
<1>5. ASSUME ~has_parent PROVE Sched'
  <2>1. schedule(dead, FALSE) /\ UNCHANGED <<wait_list, sem_arg>>
    BY <1>2, <1>5 DEF sys_exit
  <2> HIDE DEF dead
  <2>2. /\ OnlyCurrRuns' /\ IdleCanRun'
        /\ \A q \in Procs : dead[q] = "BLOCKED" => status'[q] = "BLOCKED"
    BY <1>1, <1>3, <1>5, <2>1, SwitchRuns
  <2>3. WaitersBlocked' /\ WaitersDistinct'
    BY <1>1, <1>3, <2>1, <2>2, WaitersShrink DEF Sched
  <2> QED
    BY <2>2, <2>3 DEF Sched
<1> QED
  BY <1>2, <1>4, <1>5

\* reap frees a zombie, which neither runs nor waits.
LEMMA ReapSched ==
  ASSUME TypeOK, Sched, reap, curr' = curr, wait_list' = wait_list,
         \A p \in Procs \ {curr} : sem_arg'[p] = sem_arg[p]
  PROVE  Sched'
<1>1. status' = status \/ \E z \in Procs :
        status[z] = "ZOMBIE" /\ status' = [status EXCEPT ![z] = "UNUSED"]
  <2>1. CASE proc_findzombie(curr) = NULL
    BY <2>1 DEF reap
  <2>2. CASE proc_findzombie(curr) # NULL
    <3>1. zombies(curr) \in SUBSET Nat /\ zombies(curr) # {}
      BY <2>2, ProcAssumption DEF zombies, Procs, proc_findzombie
    <3>2. proc_findzombie(curr) \in zombies(curr)
      BY <3>1, MinOfNaturals DEF proc_findzombie
    <3> QED
      BY <2>2, <3>2 DEF reap, zombies
  <2> QED
    BY <2>1, <2>2
<1>2. OnlyCurrRuns' /\ IdleCanRun'
  BY <1>1, ZeroIsProc DEF Sched, OnlyCurrRuns, IdleCanRun, TypeOK
<1>3. \A p \in Procs : status[p] = "BLOCKED" =>
        status'[p] = "BLOCKED" /\ sem_arg'[p] = sem_arg[p]
  BY <1>1 DEF TypeOK, Sched, OnlyCurrRuns
<1>4. WaitersBlocked' /\ WaitersDistinct'
  BY <1>3, WaitersShrink DEF Sched
<1> QED
  BY <1>2, <1>4 DEF Sched

LEMMA WaitSched ==
  ASSUME SInv, sys_wait \/ sys_wait_woken
  PROVE  ctx'[0] = "idle" /\ Sched'
<1>1. TypeOK /\ ctx[0] = "idle" /\ curr \in Procs
  BY DEF SInv, TypeOK
<1>2. CASE sys_wait
  <2>1. curr # 0 /\ ~halted /\ Sched
    BY <1>2, UserIsNotIdle DEF sys_wait
  <2>2. CASE UNCHANGED vars
    BY <1>1, <2>1, <2>2
    DEF vars, Sched, OnlyCurrRuns, IdleCanRun, WaitersBlocked, WaitersDistinct
  <2>3. CASE /\ sem_p_takes(zombie_sem(curr)) /\ reap
             /\ UNCHANGED <<curr, ctx, sem_arg, sleep, parent, usems, ref, tick>>
    BY <1>1, <2>1, <2>3, ReapSched DEF sem_p_takes
  <2>4. CASE sem_p_blocks(zombie_sem(curr), "wait")
    <3>1. zombie_sem(curr) \in Sems /\ "wait" \in Ctx
      BY <1>1, SemTypes DEF Ctx
    <3>2. ctx'[0] = "idle"
      BY <1>1, <2>1, <2>4, ZeroIsProc DEF sem_p_blocks, TypeOK
    <3> QED
      BY <1>1, <2>1, <2>4, <3>1, <3>2, SemPBlocksSched
  <2> QED
    BY <1>2, <2>2, <2>3, <2>4 DEF sys_wait
<1>3. CASE sys_wait_woken
  <2>1. curr # 0 /\ Sched
    BY <1>1, <1>3 DEF sys_wait_woken, resumes, SInv
  <2>2. ctx'[0] = "idle"
    BY <1>1, <1>3, <2>1, ZeroIsProc DEF sys_wait_woken, TypeOK
  <2>3. Sched'
    <3>1. \A p \in Procs \ {curr} : sem_arg'[p] = sem_arg[p]
      BY <1>1, <1>3 DEF sys_wait_woken, TypeOK
    <3> QED
      BY <1>1, <1>3, <2>1, <3>1, ReapSched DEF sys_wait_woken
  <2> QED
    BY <2>2, <2>3
<1> QED
  BY <1>2, <1>3

LEMMA OpenSched ==
  ASSUME SInv, NEW v \in InitValues, sys_sem_open(v)
  PROVE  ctx'[0] = "idle" /\ Sched'
<1>1. TypeOK /\ ctx[0] = "idle" /\ Sched
  BY UserIsNotIdle DEF SInv, sys_sem_open
<1>2. UNCHANGED <<curr, status, ctx, sem_arg>>
  BY DEF sys_sem_open, vars
<1>3. \A s \in Sems : wait_list'[s] \in {wait_list[s], <<>>}
  BY <1>1 DEF sys_sem_open, sem_init, vars, TypeOK
<1>4. WaitersBlocked' /\ WaitersDistinct'
  BY <1>1, <1>2, <1>3, WaitersShrink DEF Sched
<1> QED
  BY <1>1, <1>2, <1>4 DEF Sched, OnlyCurrRuns, IdleCanRun

LEMMA UsemSched ==
  ASSUME SInv, NEW i \in Fds, TypeOK',
         sys_sem_p(i) \/ sys_sem_v(i) \/ sys_sem_close(i) \/ sys_sem_bad(i)
  PROVE  ctx'[0] = "idle" /\ Sched'
<1> DEFINE s == usems[curr][i]
<1>1. /\ curr # 0 /\ Sched /\ curr \in Procs
      /\ TypeOK /\ ctx[0] = "idle"
  BY UserIsNotIdle DEF SInv, sys_sem_p, sys_sem_v, sys_sem_close, sys_sem_bad
<1>2. s # NULL => s \in Sems
  BY <1>1, SemTypes DEF TypeOK
<1>3. ASSUME UNCHANGED <<curr, status, ctx, sem_arg, wait_list>>
      PROVE  ctx'[0] = "idle" /\ Sched'
  BY <1>1, <1>3
  DEF Sched, OnlyCurrRuns, IdleCanRun, WaitersBlocked, WaitersDistinct
<1>4. CASE sys_sem_close(i) \/ sys_sem_bad(i)
  BY <1>3, <1>4 DEF sys_sem_close, sys_sem_bad, vars
<1>5. CASE sys_sem_p(i)
  <2>1. CASE sem_p_takes(s) /\ UNCHANGED <<curr, status, ctx, sem_arg, halted>>
    BY <1>3, <2>1 DEF sem_p_takes
  <2>2. CASE sem_p_blocks(s, "semp")
    <3>1. s \in Sems /\ "semp" \in Ctx
      BY <1>2, <1>5 DEF Ctx, sys_sem_p
    <3>2. ctx'[0] = "idle"
      BY <1>1, <2>2, ZeroIsProc DEF sem_p_blocks, TypeOK
    <3> QED
      BY <1>1, <2>2, <3>1, <3>2, SemPBlocksSched
  <2> QED
    BY <1>5, <2>1, <2>2 DEF sys_sem_p
<1>6. CASE sys_sem_v(i)
  <2>1. /\ s \in Sems /\ sem_v(s) /\ status' = sem_v_status(s, status)
        /\ UNCHANGED <<curr, ctx, sem_arg>>
    BY <1>2, <1>6 DEF sys_sem_v
  <2> HIDE DEF s
  <2>2. status \in [Procs -> Status]
    BY <1>1 DEF TypeOK
  <2>3. /\ BlockedUnder(status', wait_list') /\ WaitersDistinct'
        /\ \A q \in Procs : status'[q] \in {status[q]} \cup
                              (IF status[q] = "BLOCKED" THEN {"READY"} ELSE {})
    BY <1>1, <2>1, <2>2, SemVSched DEF Sched
  <2>4. WaitersBlocked'
    BY <2>1, <2>3, WaitersAfter
  <2>5. OnlyCurrRuns' /\ IdleCanRun'
    BY <1>1, <2>1, <2>3, ZeroIsProc DEF Sched, OnlyCurrRuns, IdleCanRun
  <2> QED
    BY <1>1, <2>1, <2>3, <2>4, <2>5 DEF Sched
<1> QED
  BY <1>4, <1>5, <1>6

LEMMA TimerSched ==
  ASSUME SInv,
         timer_handle \/ sys_yield \/ sys_sleep_again
           \/ \E n \in SleepTicks : sys_sleep(n)
  PROVE  ctx'[0] = "idle" /\ Sched'
<1>1. TypeOK /\ ctx[0] = "idle" /\ Sched /\ curr \in Procs
  BY DEF SInv, timer_handle, sys_yield, sys_sleep_again, sys_sleep, in_user,
         interruptible, resumes, TypeOK
<1>2. UNCHANGED <<wait_list, sem_arg>>
  BY DEF timer_handle, sys_yield, sys_sleep_again, sys_sleep
<1>3. ASSUME proc_yield PROVE Sched'
  BY <1>1, <1>2, <1>3, YieldSched
<1>4. ASSUME UNCHANGED <<curr, status>> PROVE Sched'
  BY <1>1, <1>2, <1>4
  DEF Sched, OnlyCurrRuns, IdleCanRun, WaitersBlocked, WaitersDistinct
<1>5. ctx'[0] = "idle"
  BY <1>1, ZeroIsProc
  DEF timer_handle, sys_yield, sys_sleep_again, sys_sleep, in_user, resumes,
      TypeOK
<1> QED
  BY <1>3, <1>4, <1>5 DEF timer_handle, sys_yield, sys_sleep_again, sys_sleep

LEMMA WokenSched ==
  ASSUME SInv, sys_sem_p_woken
  PROVE  ctx'[0] = "idle" /\ Sched'
<1>1. TypeOK /\ ctx[0] = "idle" /\ Sched /\ curr \in Procs /\ curr # 0
  BY DEF SInv, sys_sem_p_woken, resumes, TypeOK
<1>2. ctx'[0] = "idle"
  BY <1>1, ZeroIsProc DEF sys_sem_p_woken, TypeOK
<1>3. \A p \in Procs : status[p] = "BLOCKED" =>
        status'[p] = "BLOCKED" /\ sem_arg'[p] = sem_arg[p]
  BY <1>1 DEF sys_sem_p_woken, TypeOK, Sched, OnlyCurrRuns
<1>4. WaitersBlocked' /\ WaitersDistinct'
  BY <1>1, <1>3, WaitersShrink DEF Sched, sys_sem_p_woken
<1> QED
  BY <1>1, <1>2, <1>4 DEF sys_sem_p_woken, Sched, OnlyCurrRuns, IdleCanRun

LEMMA InitSched == Init => SInv
<1> SUFFICES ASSUME Init PROVE SInv
  OBVIOUS
<1>1. TypeOK
  BY InitType
<1>2. OnlyCurrRuns /\ IdleCanRun /\ ctx[0] = "idle"
  BY ZeroIsProc DEF Init, OnlyCurrRuns, IdleCanRun
<1>3. WaitersBlocked /\ WaitersDistinct
  BY DEF Init, WaitersBlocked, WaitersDistinct
<1> QED
  BY <1>1, <1>2, <1>3 DEF SInv, Sched

LEMMA NextSched == SInv /\ [Next]_vars => SInv'
<1> SUFFICES ASSUME SInv, [Next]_vars PROVE SInv'
  OBVIOUS
<1>1. TypeOK'
  BY NextType DEF SInv
<1>2. CASE UNCHANGED vars
  BY <1>1, <1>2
  DEF vars, SInv, Sched, OnlyCurrRuns, IdleCanRun, WaitersBlocked,
      WaitersDistinct
<1> QED
  BY <1>1, <1>2, TimerSched, ForkSched, ExitSched, WaitSched, OpenSched,
     UsemSched, WokenSched
  DEF Next, Kernel, Syscall, SInv

\* proc.h's "only one process is RUNNING", for any number of PCBs: as long as
\* the kernel has not stopped, the RUNNING process is exactly curr, and the
\* kernel process is there to be scheduled.
THEOREM OneRuns == Spec => []OneRunning
<1>1. SInv => OneRunning
  BY DEF SInv, Sched, OnlyCurrRuns, IdleCanRun, OneRunning
<1> QED
  BY InitSched, NextSched, <1>1, PTL DEF Spec

-----------------------------------------------------------------------------
(***************************************************************************)
(* Who sleeps where, who holds which semaphore, and where the list nodes   *)
(* are; what is assumed of the values that programs pass is said in the    *)
(* theorems that need it.                                                  *)
(***************************************************************************)

(***************************************************************************)
(* The invariant.  RefCounts is not inductive: that a semaphore without    *)
(* descriptors has no sleepers holds because a process that is inside of   *)
(* sem_p still has the descriptor it called with, and that is because such *)
(* a process is alive and cannot make another call.                        *)
(***************************************************************************)

\* Where a process goes on tells which sem_p it is inside of.
CtxArg ==
  \A p \in Procs :
    /\ ctx[p] \in {"idle", "user", "sleep", "read", "none"} => sem_arg[p] = NULL
    /\ ctx[p] = "wait" => sem_arg[p] = zombie_sem(p)
    /\ ctx[p] = "semp" => /\ sem_arg[p] \in user_sem
                          /\ \E i \in Fds : usems[p][i] = sem_arg[p]
    /\ ctx[p] = "getchar" => sem_arg[p] = serial_sem

DeadNowhere ==
  \A p \in Procs : status[p] \in {"UNUSED", "ZOMBIE"} => ctx[p] = "none"

RefExact == \A u \in user_sem : ref[u] = Cardinality(holders(u))

\* FiniteNodes comes with NodesConserved: Cardinality says nothing of a set
\* that is not finite.
FiniteNodes == IsFiniteSet(queued)

Waits ==
  /\ CtxArg /\ DeadNowhere /\ BlockedWaits
  /\ RefExact /\ FiniteNodes /\ NodesConserved

WInv == SInv /\ Waits

-----------------------------------------------------------------------------
(***************************************************************************)
(* What the steps do to the statuses.                                      *)
(***************************************************************************)

\* p stays what it is, but for being READY or RUNNING.
SameLife(p, st) ==
  /\ status'[p] = "BLOCKED" <=> st[p] = "BLOCKED"
  /\ status'[p] = "ZOMBIE" <=> st[p] = "ZOMBIE"
  /\ status'[p] = "UNUSED" <=> st[p] = "UNUSED"

StatusKept == \A p \in Procs : SameLife(p, status)

LEMMA SwitchLife ==
  ASSUME curr \in Procs, NEW st \in [Procs -> Status], NEW fault \in BOOLEAN,
         \A p \in Procs : st[p] # "RUNNING", st[0] = "READY",
         schedule(st, fault)
  PROVE  halted' = fault /\ \A p \in Procs : SameLife(p, st)
<1>1. /\ halted' = fault
      /\ \A p \in Procs : \/ status'[p] = st[p]
                          \/ st[p] = "READY" /\ status'[p] = "RUNNING"
  BY SwitchRuns
<1> QED
  BY <1>1 DEF SameLife

\* What SInv says of a step that a program makes.
LEMMA UserStep ==
  ASSUME SInv, in_user \/ resumes("wait") \/ resumes("semp")
                 \/ resumes("read") \/ resumes("getchar")
  PROVE  /\ TypeOK /\ Sched /\ curr # 0 /\ curr \in Procs /\ 0 \in Procs
         /\ status[curr] = "RUNNING" /\ status[0] = "READY"
         /\ \A p \in Procs : status[p] = "RUNNING" => p = curr
         /\ ctx[curr] \notin {"idle", "none"}
  BY ZeroIsProc
  DEF SInv, in_user, resumes, Sched, OnlyCurrRuns, IdleCanRun, TypeOK

LEMMA YieldEffect ==
  ASSUME SInv, proc_yield
  PROVE  StatusKept /\ halted' = FALSE
<1> DEFINE st == [status EXCEPT ![curr] = "READY"]
<1>1. /\ st \in [Procs -> Status] /\ curr \in Procs
      /\ \A p \in Procs : st[p] # "RUNNING"
      /\ st[0] = "READY"
      /\ status[curr] = "RUNNING" /\ status \in [Procs -> Status]
  BY ZeroIsProc DEF SInv, TypeOK, Status, Sched, OnlyCurrRuns, IdleCanRun
<1>2. schedule(st, FALSE)
  BY DEF proc_yield
<1>3. \A p \in Procs : p # curr => st[p] = status[p]
  BY <1>1
<1>4. st[curr] = "READY"
  BY <1>1
<1> HIDE DEF st
<1>5. halted' = FALSE /\ \A p \in Procs : SameLife(p, st)
  BY <1>1, <1>2, SwitchLife
<1> QED
  BY <1>1, <1>3, <1>4, <1>5 DEF StatusKept, SameLife

\* timer_handle, sys_yield and the two halves of sys_sleep.
LEMMA TimerEffect ==
  ASSUME SInv,
         timer_handle \/ sys_yield \/ sys_sleep_again
           \/ \E n \in SleepTicks : sys_sleep(n)
  PROVE  /\ StatusKept /\ halted' = FALSE
         /\ \A p \in Procs :
              \/ ctx'[p] = ctx[p]
              \/ ctx[p] \in {"user", "sleep"} /\ ctx'[p] \in {"user", "sleep"}
         /\ UNCHANGED <<sem_arg, parent, child_num, value, wait_list,
                        free_nodes, usems, ref>>
<1>1. curr \in Procs /\ ctx \in [Procs -> Ctx] /\ ~halted
  BY DEF SInv, TypeOK, timer_handle, sys_yield, sys_sleep_again, sys_sleep,
         in_user, interruptible, resumes
<1>2. UNCHANGED <<sem_arg, parent, child_num, value, wait_list,
                  free_nodes, usems, ref>>
  BY DEF timer_handle, sys_yield, sys_sleep_again, sys_sleep
<1>3. proc_yield \/ UNCHANGED <<status, halted>>
  BY DEF timer_handle, sys_yield, sys_sleep_again, sys_sleep
<1>4. StatusKept /\ halted' = FALSE
  <2>1. CASE UNCHANGED <<status, halted>>
    BY <1>1, <2>1 DEF StatusKept, SameLife, SInv, TypeOK
  <2> QED
    BY <1>3, <2>1, YieldEffect
<1>5. \A p \in Procs :
        \/ ctx'[p] = ctx[p]
        \/ ctx[p] \in {"user", "sleep"} /\ ctx'[p] \in {"user", "sleep"}
  BY <1>1
  DEF timer_handle, sys_yield, sys_sleep_again, sys_sleep, in_user, resumes
<1> QED
  BY <1>2, <1>4, <1>5

\* sem_p that blocks.
LEMMA BlockEffect ==
  ASSUME SInv, in_user \/ resumes("read"), NEW s \in Sems, NEW c \in Ctx,
         sem_p_blocks(s, c)
  PROVE  /\ status'[curr] = "BLOCKED"
         /\ \A p \in Procs \ {curr} : SameLife(p, status)
         /\ halted' = (free_nodes = 0)
<1> DEFINE st == [status EXCEPT ![curr] = "BLOCKED"]
<1>1. /\ st \in [Procs -> Status] /\ curr \in Procs
      /\ \A p \in Procs : st[p] # "RUNNING"
      /\ st[0] = "READY" /\ st[curr] = "BLOCKED"
      /\ \A p \in Procs \ {curr} : st[p] = status[p]
  BY UserStep DEF TypeOK, Status
<1>2. schedule(st, free_nodes = 0) /\ (free_nodes = 0) \in BOOLEAN
  BY DEF sem_p_blocks
<1> HIDE DEF st
<1>3. halted' = (free_nodes = 0) /\ \A p \in Procs : SameLife(p, st)
  BY <1>1, <1>2, SwitchLife
<1> QED
  BY <1>1, <1>3 DEF SameLife

\* sem_v either wakes h, the first in the list, or nobody.
LEMMA VEffect ==
  ASSUME TypeOK, WaitersBlocked, NEW s \in Sems, NEW st, sem_v(s)
  PROVE  /\ value' = [value EXCEPT ![s] = @ + 1]
         /\ \/ /\ ~ (wakes(s) /\ wait_list[s] # <<>>)
               /\ UNCHANGED <<wait_list, free_nodes>>
               /\ sem_v_status(s, st) = st
            \/ \E h \in Procs :
                 /\ wakes(s) /\ wait_list[s] # <<>>
                 /\ h = wait_list[s][1] /\ 1 \in 1 .. Len(wait_list[s])
                 /\ status[h] = "BLOCKED" /\ sem_arg[h] = s
                 /\ wait_list' = [wait_list EXCEPT ![s] = Tail(@)]
                 /\ free_nodes' = free_nodes + 1
                 /\ sem_v_status(s, st) = [st EXCEPT ![h] = "READY"]
<1>1. value' = [value EXCEPT ![s] = @ + 1]
  BY DEF sem_v
<1>2. CASE ~ (wakes(s) /\ wait_list[s] # <<>>)
  BY <1>1, <1>2 DEF sem_v, list_dequeue, sem_v_status
<1>3. CASE wakes(s) /\ wait_list[s] # <<>>
  <2> DEFINE h == Head(wait_list[s])
  <2>1. /\ wait_list' = [wait_list EXCEPT ![s] = Tail(@)]
        /\ free_nodes' = free_nodes + 1
        /\ sem_v_status(s, st) = [st EXCEPT ![h] = "READY"]
    BY <1>3 DEF sem_v, list_dequeue, sem_v_status
  <2>2. wait_list[s] \in Seq(Procs) /\ h = wait_list[s][1] /\ 1 \in 1 .. Len(wait_list[s])
    BY <1>3 DEF TypeOK
  <2>3. h \in Procs /\ status[h] = "BLOCKED" /\ sem_arg[h] = s
    BY <2>2 DEF WaitersBlocked
  <2> QED
    BY <1>1, <1>3, <2>1, <2>2, <2>3
<1> QED
  BY <1>2, <1>3

LEMMA ZombieFound ==
  ASSUME NEW p, zombies(p) # {}
  PROVE  /\ proc_findzombie(p) \in zombies(p) /\ proc_findzombie(p) # NULL
         /\ zombies(p) \subseteq Procs
<1>1. zombies(p) \in SUBSET Nat /\ zombies(p) \subseteq Procs
  BY ProcAssumption DEF zombies, Procs
<1> QED
  BY <1>1, MinOfNaturals, SemTypes DEF proc_findzombie

\* reap frees a zombie of curr or stops the kernel.
LEMMA ReapEffect ==
  ASSUME TypeOK, reap
  PROVE  \/ /\ zombies(curr) = {} /\ halted' = TRUE
            /\ UNCHANGED <<status, child_num>>
         \/ /\ halted' = FALSE
            /\ \E z \in zombies(curr) :
                 /\ z \in Procs /\ status[z] = "ZOMBIE"
                 /\ status' = [status EXCEPT ![z] = "UNUSED"]
                 /\ child_num' = [child_num EXCEPT ![curr] = @ - 1]
<1>1. CASE zombies(curr) = {}
  BY <1>1 DEF reap, proc_findzombie
<1>2. CASE zombies(curr) # {}
  <2>1. /\ proc_findzombie(curr) \in zombies(curr)
        /\ proc_findzombie(curr) # NULL /\ zombies(curr) \subseteq Procs
    BY <1>2, ZombieFound
  <2> QED
    BY <2>1 DEF reap, zombies
<1> QED
  BY <1>1, <1>2

-----------------------------------------------------------------------------
(***************************************************************************)
(* Wait lists and their nodes.                                             *)
(***************************************************************************)

NodesOf(wl) == UNION {{s} \X (1 .. Len(wl[s])) : s \in Sems}

LEMMA NodesOfIs ==
  ASSUME NEW wl
  PROVE  NodesOf(wl) = {n \in Sems \X Int : n[2] \in 1 .. Len(wl[n[1]])}
<1>1. ASSUME NEW n \in NodesOf(wl)
      PROVE  n \in Sems \X Int /\ n[2] \in 1 .. Len(wl[n[1]])
  <2>1. PICK s \in Sems : n \in {s} \X (1 .. Len(wl[s]))
    BY DEF NodesOf
  <2> QED
    BY <2>1
<1>2. ASSUME NEW n \in Sems \X Int, n[2] \in 1 .. Len(wl[n[1]])
      PROVE  n \in NodesOf(wl)
  <2>1. n[1] \in Sems /\ n \in {n[1]} \X (1 .. Len(wl[n[1]]))
    BY <1>2
  <2> QED
    BY <2>1 DEF NodesOf
<1> QED
  BY <1>1, <1>2

\* Where the members of a list are after list_enqueue ...
LEMMA AfterAppend ==
  ASSUME NEW wl \in [Sems -> Seq(Procs)], NEW s \in Sems, NEW p \in Procs,
         NEW wm, wm = [wl EXCEPT ![s] = Append(@, p)]
  PROVE  /\ Len(wm[s]) = Len(wl[s]) + 1 /\ wm[s][Len(wl[s]) + 1] = p
         /\ \A t \in Sems : t # s => wm[t] = wl[t]
         /\ \A k \in 1 .. Len(wl[s]) : wm[s][k] = wl[s][k]
         /\ Len(wl[s]) \in Nat
<1>1. wl[s] \in Seq(Procs) /\ wm[s] = Append(wl[s], p)
  OBVIOUS
<1> QED
  BY <1>1

\* ... and after list_dequeue.
LEMMA AfterTail ==
  ASSUME NEW wl \in [Sems -> Seq(Procs)], NEW s \in Sems, wl[s] # <<>>,
         NEW wm, wm = [wl EXCEPT ![s] = Tail(@)]
  PROVE  /\ Len(wm[s]) = Len(wl[s]) - 1
         /\ \A t \in Sems : t # s => wm[t] = wl[t]
         /\ \A k \in 2 .. Len(wl[s]) : wm[s][k - 1] = wl[s][k]
         /\ Len(wl[s]) \in Nat /\ Len(wl[s]) > 0
<1>1. wl[s] \in Seq(Procs) /\ wm[s] = Tail(wl[s])
  OBVIOUS
<1> QED
  BY <1>1

LEMMA AppendNodes ==
  ASSUME NEW wl, NEW s \in Sems, NEW wm, Len(wl[s]) \in Nat,
         Len(wm[s]) = Len(wl[s]) + 1, \A t \in Sems : t # s => wm[t] = wl[t],
         IsFiniteSet(NodesOf(wl))
  PROVE  /\ IsFiniteSet(NodesOf(wm))
         /\ Cardinality(NodesOf(wm)) = Cardinality(NodesOf(wl)) + 1
<1> DEFINE x == <<s, Len(wl[s]) + 1>>
<1>1. /\ Len(wm[s]) = Len(wl[s]) + 1 /\ \A t \in Sems : t # s => wm[t] = wl[t]
      /\ Len(wl[s]) \in Nat
  OBVIOUS
<1>2. \A t \in Sems, k \in Int :
        k \in 1 .. Len(wm[t]) <=> k \in 1 .. Len(wl[t]) \/ <<t, k>> = x
  BY <1>1
<1>3. x \notin NodesOf(wl) /\ x \in Sems \X Int
  <2>1. x[1] = s /\ x[2] = Len(wl[s]) + 1 /\ x \in Sems \X Int
    BY <1>1
  <2> QED
    BY <1>1, <2>1, NodesOfIs
<1>4. NodesOf(wm) = NodesOf(wl) \cup {x}
  <2>1. \A n \in Sems \X Int :
          n[2] \in 1 .. Len(wm[n[1]]) <=> n[2] \in 1 .. Len(wl[n[1]]) \/ n = x
    <3> TAKE n \in Sems \X Int
    <3>1. n[1] \in Sems /\ n[2] \in Int /\ n = <<n[1], n[2]>>
      OBVIOUS
    <3> HIDE DEF x
    <3> QED
      BY <1>2, <3>1
  <2> HIDE DEF x
  <2> QED
    BY <1>3, <2>1, NodesOfIs
<1> HIDE DEF x
<1>5. /\ IsFiniteSet(NodesOf(wl) \cup {x})
      /\ Cardinality(NodesOf(wl) \cup {x}) = Cardinality(NodesOf(wl)) + 1
  BY ONLY IsFiniteSet(NodesOf(wl)), <1>3, FS_AddElement
<1> QED
  BY <1>4, <1>5

LEMMA TailNodes ==
  ASSUME NEW wl, NEW s \in Sems, NEW wm, Len(wl[s]) \in Nat, Len(wl[s]) > 0,
         Len(wm[s]) = Len(wl[s]) - 1, \A t \in Sems : t # s => wm[t] = wl[t],
         IsFiniteSet(NodesOf(wl))
  PROVE  /\ IsFiniteSet(NodesOf(wm))
         /\ Cardinality(NodesOf(wm)) = Cardinality(NodesOf(wl)) - 1
<1> DEFINE x == <<s, Len(wl[s])>>
<1>1. /\ Len(wm[s]) = Len(wl[s]) - 1 /\ \A t \in Sems : t # s => wm[t] = wl[t]
      /\ Len(wl[s]) \in Nat /\ Len(wl[s]) > 0
  OBVIOUS
<1>2. \A t \in Sems, k \in Int :
        k \in 1 .. Len(wm[t]) <=> k \in 1 .. Len(wl[t]) /\ <<t, k>> # x
  BY ONLY <1>1
<1>3. x \in NodesOf(wl)
  <2>1. x[1] = s /\ x[2] = Len(wl[s]) /\ x \in Sems \X Int
    BY <1>1
  <2> QED
    BY <1>1, <2>1, NodesOfIs
<1>4. NodesOf(wm) = NodesOf(wl) \ {x}
  <2>1. \A n \in Sems \X Int :
          n[2] \in 1 .. Len(wm[n[1]]) <=> n[2] \in 1 .. Len(wl[n[1]]) /\ n # x
    <3> TAKE n \in Sems \X Int
    <3>1. n[1] \in Sems /\ n[2] \in Int /\ n = <<n[1], n[2]>>
      OBVIOUS
    <3> HIDE DEF x
    <3> QED
      BY <1>2, <3>1
  <2> HIDE DEF x
  <2> QED
    BY <1>3, <2>1, NodesOfIs
<1> HIDE DEF x
<1> QED
  BY <1>3, <1>4, FS_RemoveElement

\* list_enqueue and list_dequeue keep the pool's account.
LEMMA NodesStep ==
  ASSUME TypeOK, FiniteNodes, NodesConserved, NEW s \in Sems,
         \/ UNCHANGED <<wait_list, free_nodes>>
         \/ list_enqueue(s, curr)
         \/ /\ wait_list[s] # <<>>
            /\ wait_list' = [wait_list EXCEPT ![s] = Tail(@)]
            /\ free_nodes' = free_nodes + 1
  PROVE  FiniteNodes' /\ NodesConserved'
<1>1. /\ wait_list \in [Sems -> Seq(Procs)] /\ curr \in Procs
      /\ free_nodes \in Int /\ LIST_NUM \in Nat
      /\ IsFiniteSet(NodesOf(wait_list)) /\ Cardinality(NodesOf(wait_list)) \in Nat
      /\ free_nodes + Cardinality(NodesOf(wait_list)) = LIST_NUM
  BY ProcAssumption, FS_CardinalityType
  DEF TypeOK, FiniteNodes, NodesConserved, NodesOf, queued
<1>2. IsFiniteSet(NodesOf(wait_list'))
      /\ free_nodes' + Cardinality(NodesOf(wait_list')) = LIST_NUM
  <2>1. CASE UNCHANGED <<wait_list, free_nodes>>
    BY <1>1, <2>1
  <2>2. CASE list_enqueue(s, curr)
    <3>1. /\ Len(wait_list'[s]) = Len(wait_list[s]) + 1 /\ Len(wait_list[s]) \in Nat
          /\ \A t \in Sems : t # s => wait_list'[t] = wait_list[t]
      BY <1>1, <2>2, AfterAppend DEF list_enqueue
    <3>2. /\ IsFiniteSet(NodesOf(wait_list'))
          /\ Cardinality(NodesOf(wait_list')) = Cardinality(NodesOf(wait_list)) + 1
      BY <1>1, <3>1, AppendNodes
    <3> QED
      BY <1>1, <2>2, <3>2 DEF list_enqueue
  <2>3. CASE /\ wait_list[s] # <<>>
             /\ wait_list' = [wait_list EXCEPT ![s] = Tail(@)]
             /\ free_nodes' = free_nodes + 1
    <3>1. /\ Len(wait_list'[s]) = Len(wait_list[s]) - 1 /\ Len(wait_list[s]) \in Nat
          /\ Len(wait_list[s]) > 0
          /\ \A t \in Sems : t # s => wait_list'[t] = wait_list[t]
      BY <1>1, <2>3, AfterTail
    <3>2. /\ IsFiniteSet(NodesOf(wait_list'))
          /\ Cardinality(NodesOf(wait_list')) = Cardinality(NodesOf(wait_list)) - 1
      BY <1>1, <3>1, TailNodes
    <3> QED
      BY <1>1, <2>3, <3>2
  <2> QED
    BY <2>1, <2>2, <2>3
<1> QED
  BY <1>2 DEF FiniteNodes, NodesConserved, NodesOf, queued

LEMMA WaitsKept ==
  ASSUME BlockedWaits, wait_list' = wait_list,
         \A p \in Procs : status'[p] = "BLOCKED" => status[p] = "BLOCKED"
  PROVE  BlockedWaits'
  BY DEF BlockedWaits

LEMMA WaitsAppend ==
  ASSUME TypeOK, BlockedWaits, NEW s \in Sems, list_enqueue(s, curr),
         \A p \in Procs \ {curr} : status'[p] = "BLOCKED" => status[p] = "BLOCKED"
  PROVE  BlockedWaits'
<1>1. /\ Len(wait_list'[s]) = Len(wait_list[s]) + 1
      /\ wait_list'[s][Len(wait_list[s]) + 1] = curr
      /\ \A t \in Sems : t # s => wait_list'[t] = wait_list[t]
      /\ \A k \in 1 .. Len(wait_list[s]) : wait_list'[s][k] = wait_list[s][k]
      /\ Len(wait_list[s]) \in Nat
  BY AfterAppend DEF list_enqueue, TypeOK
<1> SUFFICES ASSUME NEW p \in Procs, status'[p] = "BLOCKED"
             PROVE  \E t \in Sems : \E k \in 1 .. Len(wait_list'[t]) :
                      wait_list'[t][k] = p
  BY DEF BlockedWaits
<1>2. CASE p = curr
  BY <1>1, <1>2
<1>3. CASE p # curr
  <2>0. PICK t \in Sems : \E k \in 1 .. Len(wait_list[t]) : wait_list[t][k] = p
    BY <1>3 DEF BlockedWaits
  <2>1. PICK k \in 1 .. Len(wait_list[t]) : wait_list[t][k] = p
    BY <2>0
  <2>2. CASE t = s
    <3>1. k \in 1 .. Len(wait_list'[s]) /\ wait_list'[s][k] = p
      BY <1>1, <2>1, <2>2
    <3> QED
      BY <3>1
  <2>3. CASE t # s
    BY <1>1, <2>1, <2>3
  <2> QED
    BY <2>2, <2>3
<1> QED
  BY <1>2, <1>3

LEMMA WaitsTail ==
  ASSUME TypeOK, BlockedWaits, NEW s \in Sems, wait_list[s] # <<>>,
         wait_list' = [wait_list EXCEPT ![s] = Tail(@)],
         \A p \in Procs : status'[p] = "BLOCKED" =>
           status[p] = "BLOCKED" /\ p # wait_list[s][1]
  PROVE  BlockedWaits'
<1>1. /\ Len(wait_list'[s]) = Len(wait_list[s]) - 1
      /\ \A t \in Sems : t # s => wait_list'[t] = wait_list[t]
      /\ \A k \in 2 .. Len(wait_list[s]) : wait_list'[s][k - 1] = wait_list[s][k]
      /\ Len(wait_list[s]) \in Nat
  BY AfterTail DEF TypeOK
<1> SUFFICES ASSUME NEW p \in Procs, status'[p] = "BLOCKED"
             PROVE  \E t \in Sems : \E k \in 1 .. Len(wait_list'[t]) :
                      wait_list'[t][k] = p
  BY DEF BlockedWaits
<1>0. PICK t \in Sems : \E k \in 1 .. Len(wait_list[t]) : wait_list[t][k] = p
  BY DEF BlockedWaits
<1>2. PICK k \in 1 .. Len(wait_list[t]) : wait_list[t][k] = p
  BY <1>0
<1>3. CASE t = s
  <2>1. k \in 2 .. Len(wait_list[s])
    BY <1>1, <1>2, <1>3
  <2>2. k - 1 \in 1 .. Len(wait_list'[s]) /\ wait_list'[s][k - 1] = p
    BY <1>1, <1>2, <1>3, <2>1
  <2> QED
    BY <2>2
<1>4. CASE t # s
  BY <1>1, <1>2, <1>4
<1> QED
  BY <1>3, <1>4

-----------------------------------------------------------------------------
(***************************************************************************)
(* Descriptors and references.                                             *)
(***************************************************************************)

LEMMA DisjointUnion ==
  ASSUME NEW S, NEW T, IsFiniteSet(S), IsFiniteSet(T), S \cap T = {}
  PROVE  /\ IsFiniteSet(S \cup T)
         /\ Cardinality(S \cup T) = Cardinality(S) + Cardinality(T)
<1>1. /\ IsFiniteSet(S \cup T)
      /\ Cardinality(S \cup T)
           = Cardinality(S) + Cardinality(T) - Cardinality(S \cap T)
  BY FS_Union, Zenon
<1>2. Cardinality(S \cap T) = 0
  BY FS_EmptySet
<1>3. Cardinality(S) \in Nat /\ Cardinality(T) \in Nat
  BY FS_CardinalityType
<1> QED
  BY <1>1, <1>2, <1>3

LEMMA TakenOut ==
  ASSUME NEW S, NEW T, IsFiniteSet(S), T \subseteq S
  PROVE  /\ IsFiniteSet(S \ T)
         /\ Cardinality(S \ T) = Cardinality(S) - Cardinality(T)
<1>1. /\ IsFiniteSet(S \ T)
      /\ Cardinality(S \ T) = Cardinality(S) - Cardinality(S \cap T)
  BY FS_Difference, Zenon
<1>2. S \cap T = T
  OBVIOUS
<1> QED
  BY <1>1, <1>2

LEMMA HoldersFinite ==
  /\ IsFiniteSet(Procs) /\ IsFiniteSet(Fds)
  /\ \A u : IsFiniteSet(holders(u)) /\ Cardinality(holders(u)) \in Nat
<1>1. IsFiniteSet(Procs) /\ IsFiniteSet(Fds)
  BY ProcAssumption, FS_Interval DEF Fds, Procs
<1>2. IsFiniteSet(Procs \X Fds)
  BY <1>1, FS_Product
<1> QED
  BY <1>1, <1>2, FS_Subset, FS_CardinalityType DEF holders

LEMMA LiveKept ==
  ASSUME TypeOK, TypeOK', NEW p \in Procs, SameLife(p, status)
  PROVE  live(p)' <=> live(p)
  BY DEF TypeOK, Status, SameLife, live

\* Nobody opens, closes, is born or dies.
LEMMA RefsKept ==
  ASSUME RefExact, UNCHANGED <<usems, ref>>,
         \A p \in Procs : live(p)' <=> live(p)
  PROVE  RefExact'
<1>1. \A u : holders(u)' = holders(u)
  BY DEF holders
<1> QED
  BY <1>1 DEF RefExact

\* The descriptors for u of p alone, as holders would have them for q.
HeldAs(q, p, u) == {q} \X {i \in Fds : usems[p][i] = u}

LEMMA HeldAsCount ==
  ASSUME NEW q, NEW p, NEW u
  PROVE  /\ IsFiniteSet(HeldAs(q, p, u))
         /\ Cardinality(HeldAs(q, p, u)) = holds(p, u) /\ holds(p, u) \in Nat
<1> DEFINE I == {i \in Fds : usems[p][i] = u}
<1>1. IsFiniteSet(I) /\ IsFiniteSet({q}) /\ Cardinality({q}) = 1
  BY HoldersFinite, FS_Subset, FS_Singleton
<1>2. Cardinality(I) \in Nat /\ Cardinality(I) = holds(p, u)
  BY <1>1, FS_CardinalityType DEF holds
<1> HIDE DEF I
<1>3. IsFiniteSet({q} \X I) /\ Cardinality({q} \X I) = 1 * Cardinality(I)
  BY <1>1, FS_Product
<1> QED
  BY <1>2, <1>3 DEF HeldAs, I

-----------------------------------------------------------------------------
(***************************************************************************)
(* What the invariant says of semaphores that are initialised again.       *)
(***************************************************************************)

\* The three kinds of semaphores and NULL are told apart.
LEMMA SemKinds ==
  /\ \A p \in Procs : p \notin user_sem /\ p # serial_sem /\ p # NULL
  /\ serial_sem \notin user_sem /\ serial_sem # NULL /\ serial_sem \in Sems
  /\ \A s \in Sems : s \in Procs \/ s \in user_sem \/ s = serial_sem
  BY ProcAssumption DEF Procs, user_sem, serial_sem, NULL, Sems

LEMMA ArgKind ==
  ASSUME TypeOK, CtxArg, NEW p \in Procs, sem_arg[p] # NULL
  PROVE  \/ ctx[p] = "wait" /\ sem_arg[p] = p
         \/ /\ ctx[p] = "semp" /\ sem_arg[p] \in user_sem
            /\ \E i \in Fds : usems[p][i] = sem_arg[p]
         \/ ctx[p] = "getchar" /\ sem_arg[p] = serial_sem
<1>1. ctx[p] \in Ctx
  BY DEF TypeOK
<1> QED
  BY <1>1 DEF CtxArg, Ctx, zombie_sem

\* Only p itself ever waits for its zombie_sem.
LEMMA ZombieListEmpty ==
  ASSUME WInv, NEW c \in Procs, status[c] # "BLOCKED"
  PROVE  /\ wait_list[zombie_sem(c)] = <<>>
         /\ \A p \in Procs : p # c => sem_arg[p] # zombie_sem(c)
<1>1. /\ TypeOK /\ CtxArg /\ WaitersBlocked /\ c \in Sems /\ zombie_sem(c) = c
      /\ wait_list[c] \in Seq(Procs)
  BY SemTypes, ZeroIsProc DEF WInv, Waits, SInv, Sched, TypeOK
<1>2. \A p \in Procs : p # c => sem_arg[p] # c
  BY <1>1, ArgKind, SemKinds
<1>3. ASSUME wait_list[c] # <<>> PROVE FALSE
  <2>1. 1 \in 1 .. Len(wait_list[c]) /\ wait_list[c][1] \in Procs
    BY <1>1, <1>3
  <2> QED
    BY <1>1, <1>2, <2>1 DEF WaitersBlocked
<1> QED
  BY <1>1, <1>2, <1>3

\* Nobody sleeps on a user semaphore that no descriptor of a live process
\* names.
LEMMA NoHolderNoSleeper ==
  ASSUME WInv, NEW u \in user_sem, ref[u] = 0
  PROVE  /\ holders(u) = {}
         /\ wait_list[u] = <<>> /\ \A p \in Procs : sem_arg[p] # u
<1>1. /\ TypeOK /\ CtxArg /\ DeadNowhere /\ WaitersBlocked /\ u \in Sems
      /\ wait_list[u] \in Seq(Procs)
  BY SemTypes DEF WInv, Waits, SInv, Sched, TypeOK
<1>2. holders(u) = {}
  BY HoldersFinite, FS_EmptySet DEF WInv, Waits, RefExact
<1>3. ASSUME NEW p \in Procs, sem_arg[p] = u PROVE FALSE
  <2>1. /\ ctx[p] = "semp" /\ \E i \in Fds : usems[p][i] = u
    BY <1>1, <1>3, ArgKind, SemKinds, SemTypes
  <2>2. live(p)
    BY <1>1, <2>1 DEF DeadNowhere, live, TypeOK, Status
  <2>3. PICK i \in Fds : usems[p][i] = u
    BY <2>1
  <2>4. <<p, i>> \in holders(u)
    BY <2>2, <2>3 DEF holders
  <2> QED
    BY <1>2, <2>4
<1>4. ASSUME wait_list[u] # <<>> PROVE FALSE
  <2>1. 1 \in 1 .. Len(wait_list[u]) /\ wait_list[u][1] \in Procs
    BY <1>1, <1>4
  <2> QED
    BY <1>1, <1>3, <2>1 DEF WaitersBlocked
<1> QED
  BY <1>2, <1>3, <1>4

-----------------------------------------------------------------------------
(***************************************************************************)
(* One lemma per group of actions.                                         *)
(***************************************************************************)

LEMMA StutterWait ==
  ASSUME Waits, UNCHANGED vars PROVE Waits'
<1>1. \A u : holders(u)' = holders(u)
  BY DEF vars, holders, live
<1> QED
  BY <1>1
  DEF vars, Waits, CtxArg, DeadNowhere, BlockedWaits, RefExact, FiniteNodes,
      NodesConserved, queued

LEMMA TimerWait ==
  ASSUME WInv, TypeOK',
         timer_handle \/ sys_yield \/ sys_sleep_again
           \/ \E n \in SleepTicks : sys_sleep(n)
  PROVE  Waits'
<1>1. SInv /\ Waits /\ TypeOK
  BY DEF WInv, SInv
<1>2. /\ StatusKept
      /\ \A p \in Procs :
           \/ ctx'[p] = ctx[p]
           \/ ctx[p] \in {"user", "sleep"} /\ ctx'[p] \in {"user", "sleep"}
      /\ UNCHANGED <<sem_arg, wait_list, free_nodes, usems, ref>>
  BY <1>1, TimerEffect
<1>3. CtxArg' /\ DeadNowhere'
  BY <1>1, <1>2 DEF Waits, CtxArg, DeadNowhere, StatusKept, SameLife
<1>4. BlockedWaits'
  BY <1>1, <1>2, WaitsKept DEF Waits, StatusKept, SameLife
<1>5. RefExact'
  BY <1>1, <1>2, LiveKept, RefsKept DEF Waits, StatusKept
<1>6. FiniteNodes' /\ NodesConserved'
  BY <1>1, <1>2 DEF Waits, FiniteNodes, NodesConserved, queued
<1> QED
  BY <1>3, <1>4, <1>5, <1>6 DEF Waits

LEMMA WokenWait ==
  ASSUME WInv, sys_sem_p_woken PROVE Waits'
<1>1. SInv /\ Waits /\ TypeOK /\ curr \in Procs /\ status[curr] = "RUNNING"
  BY UserStep DEF WInv, SInv, sys_sem_p_woken
<1>2. /\ UNCHANGED <<status, wait_list, free_nodes, usems, ref>>
      /\ ctx' = [ctx EXCEPT ![curr] = "user"]
      /\ sem_arg' = [sem_arg EXCEPT ![curr] = NULL]
  BY DEF sys_sem_p_woken
<1>3. CtxArg' /\ DeadNowhere'
  BY <1>1, <1>2 DEF Waits, CtxArg, DeadNowhere, TypeOK
<1>4. RefExact'
  BY <1>1, <1>2, RefsKept DEF Waits, live
<1> QED
  BY <1>1, <1>2, <1>3, <1>4
  DEF Waits, FiniteNodes, NodesConserved, queued, BlockedWaits

\* sem_p that waits, in sys_wait, sys_sem_p and getchar: curr goes to sleep in
\* the context that belongs to the semaphore s.
LEMMA BlockWait ==
  ASSUME WInv, TypeOK', in_user \/ resumes("read"), NEW s \in Sems, NEW c \in Ctx,
         sem_p_blocks(s, c), UNCHANGED <<usems, ref>>,
         \/ c = "wait" /\ s = zombie_sem(curr)
         \/ c = "semp" /\ s \in user_sem /\ \E i \in Fds : usems[curr][i] = s
         \/ c = "getchar" /\ s = serial_sem
  PROVE  Waits'
<1>1. /\ SInv /\ Waits /\ TypeOK /\ curr \in Procs /\ status[curr] = "RUNNING"
      /\ ctx[curr] # "none"
  BY UserStep DEF WInv, SInv
<1>2. /\ ctx' = [ctx EXCEPT ![curr] = c]
      /\ sem_arg' = [sem_arg EXCEPT ![curr] = s]
      /\ list_enqueue(s, curr)
  BY DEF sem_p_blocks
<1>3. /\ status'[curr] = "BLOCKED"
      /\ \A p \in Procs \ {curr} : SameLife(p, status)
  BY <1>1, BlockEffect
<1>4. CtxArg'
  BY <1>1, <1>2 DEF Waits, CtxArg, TypeOK, zombie_sem
<1>5. DeadNowhere'
  BY <1>1, <1>2, <1>3 DEF Waits, DeadNowhere, TypeOK, SameLife
<1>6. BlockedWaits'
  BY <1>1, <1>2, <1>3, WaitsAppend DEF Waits, SameLife
<1>7. RefExact'
  <2>1. \A p \in Procs \ {curr} : live(p)' <=> live(p)
    BY <1>1, <1>3, LiveKept
  <2>2. \A p \in Procs : p = curr => live(p)' /\ live(p)
    BY <1>1, <1>3 DEF live
  <2>3. \A p \in Procs : live(p)' <=> live(p)
    BY <2>1, <2>2
  <2> QED
    BY <1>1, <2>3, RefsKept DEF Waits
<1>8. FiniteNodes' /\ NodesConserved'
  BY <1>1, <1>2, NodesStep DEF Waits
<1> QED
  BY <1>4, <1>5, <1>6, <1>7, <1>8 DEF Waits

LEMMA ReapWait ==
  ASSUME WInv, sys_wait_woken \/ (sys_wait /\ sem_p_takes(zombie_sem(curr)) /\ reap
              /\ UNCHANGED <<curr, ctx, sem_arg, sleep, parent, usems, ref, tick>>)
  PROVE  Waits'
<1>1. /\ SInv /\ Waits /\ TypeOK /\ curr \in Procs /\ status[curr] = "RUNNING"
      /\ ctx[curr] # "none"
  BY UserStep DEF WInv, SInv, sys_wait_woken, sys_wait
<1>2. reap /\ UNCHANGED <<wait_list, free_nodes, usems, ref>>
  BY DEF sys_wait_woken, sem_p_takes
<1>3. status' = status \/ \E z \in Procs :
        status[z] = "ZOMBIE" /\ status' = [status EXCEPT ![z] = "UNUSED"]
  BY <1>1, <1>2, ReapEffect
<1>4. /\ \A p \in Procs \ {curr} : ctx'[p] = ctx[p] /\ sem_arg'[p] = sem_arg[p]
      /\ \/ ctx'[curr] = ctx[curr] /\ sem_arg'[curr] = sem_arg[curr]
         \/ ctx'[curr] = "user" /\ sem_arg'[curr] = NULL
  <2>1. CASE UNCHANGED <<ctx, sem_arg>>
    BY <2>1
  <2>2. CASE /\ ctx' = [ctx EXCEPT ![curr] = "user"]
             /\ sem_arg' = [sem_arg EXCEPT ![curr] = NULL]
    BY <1>1, <2>2 DEF TypeOK
  <2> QED
    BY <2>1, <2>2 DEF sys_wait_woken
<1>5. DeadNowhere'
  <2>1. \A p \in Procs : status'[p] \in {"UNUSED", "ZOMBIE"} =>
                           status[p] \in {"UNUSED", "ZOMBIE"} /\ p # curr
    BY <1>1, <1>3 DEF TypeOK
  <2> QED
    BY <1>1, <1>4, <2>1 DEF Waits, DeadNowhere
<1>8. CtxArg'
  BY <1>1, <1>2, <1>4 DEF Waits, CtxArg
<1>6. BlockedWaits'
  BY <1>1, <1>2, <1>3, WaitsKept DEF Waits, TypeOK
<1>7. RefExact'
  <2>1. \A p \in Procs : live(p)' <=> live(p)
    BY <1>1, <1>3 DEF live, TypeOK
  <2> QED
    BY <1>1, <1>2, <2>1, RefsKept DEF Waits
<1> QED
  BY <1>1, <1>2, <1>5, <1>8, <1>6, <1>7
  DEF Waits, FiniteNodes, NodesConserved, queued

LEMMA WaitWait ==
  ASSUME WInv, TypeOK', sys_wait \/ sys_wait_woken PROVE Waits'
<1>1. CASE sys_wait_woken
  BY <1>1, ReapWait
<1>2. CASE sys_wait
  <2>1. CASE UNCHANGED vars
    BY <2>1, StutterWait DEF WInv
  <2>2. CASE /\ sem_p_takes(zombie_sem(curr)) /\ reap
             /\ UNCHANGED <<curr, ctx, sem_arg, sleep, parent, usems, ref, tick>>
    BY <1>2, <2>2, ReapWait
  <2>3. CASE /\ sem_p_blocks(zombie_sem(curr), "wait")
             /\ UNCHANGED <<sleep, parent, child_num, usems, ref, tick>>
    <3>1. "wait" \in Ctx /\ zombie_sem(curr) \in Sems /\ in_user
      BY <1>2, SemTypes DEF Ctx, WInv, SInv, TypeOK, sys_wait
    <3> QED
      BY <2>3, <3>1, BlockWait
  <2> QED
    BY <1>2, <2>1, <2>2, <2>3 DEF sys_wait
<1> QED
  BY <1>1, <1>2

\* What a sem_v does to the lists, when it is called with the statuses st.
LEMMA VWait ==
  ASSUME WInv, NEW s \in Sems, NEW st \in [Procs -> Status], sem_v(s),
         \A p \in Procs : st[p] = "BLOCKED" <=> status[p] = "BLOCKED",
         \A p \in Procs : status'[p] = "BLOCKED" =>
                            sem_v_status(s, st)[p] = "BLOCKED"
  PROVE  BlockedWaits' /\ FiniteNodes' /\ NodesConserved'
<1>1. /\ SInv /\ Waits /\ TypeOK /\ WaitersBlocked
      /\ BlockedWaits /\ FiniteNodes /\ NodesConserved
  BY DEF WInv, SInv, Sched, Waits
<1>2. CASE /\ UNCHANGED <<wait_list, free_nodes>>
           /\ sem_v_status(s, st) = st
  <2>1. BlockedWaits'
    BY <1>1, <1>2, WaitsKept
  <2> QED
    BY <1>1, <1>2, <2>1, NodesStep
<1>3. ASSUME NEW h \in Procs, wait_list[s] # <<>>, h = wait_list[s][1],
             wait_list' = [wait_list EXCEPT ![s] = Tail(@)],
             free_nodes' = free_nodes + 1,
             sem_v_status(s, st) = [st EXCEPT ![h] = "READY"]
      PROVE  BlockedWaits' /\ FiniteNodes' /\ NodesConserved'
  <2>1. \A p \in Procs : status'[p] = "BLOCKED" =>
                           status[p] = "BLOCKED" /\ p # wait_list[s][1]
    BY <1>3
  <2>2. BlockedWaits'
    BY <1>1, <1>3, <2>1, WaitsTail
  <2> QED
    BY <1>1, <1>3, <2>2, NodesStep
<1> QED
  BY <1>1, <1>2, <1>3, VEffect

LEMMA UsemWait ==
  ASSUME WInv, TypeOK', NEW i \in Fds,
         sys_sem_p(i) \/ sys_sem_v(i) \/ sys_sem_bad(i)
  PROVE  Waits'
<1> DEFINE s == usems[curr][i]
<1>1. /\ SInv /\ Waits /\ TypeOK /\ WaitersBlocked /\ in_user /\ curr \in Procs
      /\ ctx[curr] = "user" /\ status[curr] = "RUNNING"
  BY UserStep
  DEF WInv, SInv, Sched, sys_sem_p, sys_sem_v, sys_sem_bad, in_user
<1>2. s # NULL => s \in user_sem /\ s \in Sems
  BY <1>1, SemTypes DEF TypeOK
<1>3. CASE sys_sem_bad(i)
  BY <1>1, <1>3, StutterWait DEF sys_sem_bad
<1>4. CASE sys_sem_p(i)
  <2>1. s \in user_sem /\ s \in Sems /\ UNCHANGED <<usems, ref>>
    BY <1>2, <1>4 DEF sys_sem_p
  <2>2. CASE sem_p_takes(s) /\ UNCHANGED <<curr, status, ctx, sem_arg, halted>>
    <3>1. UNCHANGED <<wait_list, free_nodes>>
      BY <2>2 DEF sem_p_takes
    <3>2. RefExact'
      BY <1>1, <2>1, <2>2, RefsKept DEF Waits, live
    <3> QED
      BY <1>1, <2>1, <2>2, <3>1, <3>2
      DEF Waits, CtxArg, DeadNowhere, BlockedWaits, FiniteNodes,
          NodesConserved, queued
  <2>3. CASE sem_p_blocks(s, "semp")
    <3>1. "semp" \in Ctx
      BY DEF Ctx
    <3> QED
      BY <1>1, <2>1, <2>3, <3>1, BlockWait
  <2> QED
    BY <1>4, <2>2, <2>3 DEF sys_sem_p
<1>5. CASE sys_sem_v(i)
  <2>1. /\ s \in Sems /\ sem_v(s) /\ status' = sem_v_status(s, status)
        /\ UNCHANGED <<curr, ctx, sem_arg, usems, ref>>
    BY <1>2, <1>5 DEF sys_sem_v
  <2> HIDE DEF s
  <2>2. BlockedWaits' /\ FiniteNodes' /\ NodesConserved'
    <3>1. status \in [Procs -> Status]
      BY <1>1 DEF TypeOK
    <3> QED
      BY <2>1, <3>1, VWait
  <2>3. \A p \in Procs : \/ status'[p] = status[p]
                         \/ status[p] = "BLOCKED" /\ status'[p] = "READY"
    <3>1. CASE sem_v_status(s, status) = status
      BY <2>1, <3>1
    <3>2. ASSUME NEW h \in Procs, status[h] = "BLOCKED",
                 sem_v_status(s, status) = [status EXCEPT ![h] = "READY"]
          PROVE  \A p \in Procs : \/ status'[p] = status[p]
                                  \/ status[p] = "BLOCKED" /\ status'[p] = "READY"
      BY <1>1, <2>1, <3>2 DEF TypeOK
    <3> QED
      BY <1>1, <2>1, <3>1, <3>2, VEffect
  <2>4. CtxArg' /\ DeadNowhere'
    BY <1>1, <2>1, <2>3 DEF Waits, CtxArg, DeadNowhere, TypeOK
  <2>5. RefExact'
    <3>1. \A p \in Procs : live(p)' <=> live(p)
      BY <2>3 DEF live
    <3> QED
      BY <1>1, <2>1, <3>1, RefsKept DEF Waits
  <2> QED
    BY <2>2, <2>4, <2>5 DEF Waits
<1> QED
  BY <1>3, <1>4, <1>5

\* sys_fork takes a PCB whose semaphore nobody waits for.
LEMMA ForkEffect ==
  ASSUME WInv, sys_fork
  PROVE  \/ UNCHANGED vars
         \/ \E c \in Procs :
              /\ c = Min(unused) /\ unused # {}
              /\ c # 0 /\ c # curr /\ status[c] = "UNUSED"
              /\ status' = [status EXCEPT ![c] = "READY"]
              /\ ctx' = [ctx EXCEPT ![c] = "user"]
              /\ parent' = [parent EXCEPT ![c] = curr]
              /\ child_num' = [child_num EXCEPT ![c] = 0, ![curr] = @ + 1]
              /\ value' = [value EXCEPT ![c] = 0]
              /\ usems' = [usems EXCEPT ![c] = usems[curr]]
              /\ ref' = [u \in user_sem |-> ref[u] + holds(curr, u)]
              /\ UNCHANGED <<curr, sem_arg, wait_list, free_nodes, halted>>
<1>1. TypeOK /\ curr \in Procs /\ status[curr] = "RUNNING" /\ CtxArg /\ DeadNowhere
  BY UserStep DEF WInv, Waits, sys_fork
<1>2. CASE unused = {}
  BY <1>2 DEF sys_fork
<1>3. CASE unused # {}
  <2> DEFINE c == Min(unused)
  <2>1. c \in Procs /\ c # 0 /\ status[c] = "UNUSED"
    <3>1. unused \in SUBSET Nat
      BY ProcAssumption DEF unused, Procs
    <3> QED
      BY <3>1, <1>3, MinOfNaturals DEF unused
  <2>2. /\ status' = [status EXCEPT ![c] = "READY"]
        /\ ctx' = [ctx EXCEPT ![c] = "user"]
        /\ sem_arg' = [sem_arg EXCEPT ![c] = NULL]
        /\ parent' = [parent EXCEPT ![c] = curr]
        /\ child_num' = [child_num EXCEPT ![c] = 0, ![curr] = @ + 1]
        /\ sem_init(zombie_sem(c), 0)
        /\ usem_dup_all(c)
        /\ UNCHANGED <<curr, free_nodes, halted>>
    BY <1>3 DEF sys_fork
  <2> HIDE DEF c
  <2>3. sem_arg' = sem_arg
    <3>1. sem_arg[c] = NULL
      BY <1>1, <2>1 DEF CtxArg, DeadNowhere
    <3> QED
      BY <1>1, <2>1, <2>2, <3>1 DEF TypeOK
  <2>4. wait_list' = wait_list
    <3>1. wait_list[c] = <<>> /\ zombie_sem(c) = c
      BY <2>1, ZombieListEmpty, ZeroIsProc
    <3> QED
      BY <1>1, <2>1, <2>2, <3>1, SemTypes DEF sem_init, TypeOK
  <2>5. value' = [value EXCEPT ![c] = 0]
    BY <2>1, <2>2, ZeroIsProc DEF sem_init
  <2>6. c # curr
    BY <1>1, <2>1
  <2>7. /\ usems' = [usems EXCEPT ![c] = usems[curr]]
        /\ ref' = [u \in user_sem |-> ref[u] + holds(curr, u)]
    BY <2>2 DEF usem_dup_all
  <2>8. c = Min(unused)
    BY DEF c
  <2> QED
    BY <1>3, <2>1, <2>2, <2>3, <2>4, <2>5, <2>6, <2>7, <2>8
<1> QED
  BY <1>2, <1>3

LEMMA ForkWait ==
  ASSUME WInv, TypeOK', sys_fork PROVE Waits'
<1>1. /\ TypeOK /\ curr \in Procs /\ status[curr] = "RUNNING" /\ Waits
      /\ ctx[curr] = "user"
  BY UserStep DEF WInv, sys_fork, in_user
<1>2. CASE UNCHANGED vars
  BY <1>1, <1>2, StutterWait
<1>3. CASE ~ UNCHANGED vars
  <2>1. PICK c \in Procs :
          /\ c # 0 /\ c # curr /\ status[c] = "UNUSED"
          /\ status' = [status EXCEPT ![c] = "READY"]
          /\ ctx' = [ctx EXCEPT ![c] = "user"]
          /\ usems' = [usems EXCEPT ![c] = usems[curr]]
          /\ ref' = [u \in user_sem |-> ref[u] + holds(curr, u)]
          /\ UNCHANGED <<sem_arg, wait_list, free_nodes>>
    BY <1>3, ForkEffect
  <2>2. DeadNowhere'
    BY <1>1, <2>1 DEF Waits, DeadNowhere, TypeOK
  <2>3. CtxArg'
    <3>1. ctx[c] = "none" /\ sem_arg[c] = NULL
      BY <1>1, <2>1 DEF Waits, DeadNowhere, CtxArg
    <3>2. ctx'[c] = "user" /\ \A p \in Procs : p # c => ctx'[p] = ctx[p]
      BY <1>1, <2>1 DEF TypeOK
    <3>3. \A p \in Procs : p # c => usems'[p] = usems[p]
      BY <1>1, <2>1 DEF TypeOK
    <3> QED
      BY <1>1, <2>1, <3>1, <3>2, <3>3 DEF Waits, CtxArg
  <2>4. BlockedWaits'
    <3>1. \A p \in Procs : status'[p] = "BLOCKED" => status[p] = "BLOCKED"
      BY <1>1, <2>1 DEF TypeOK
    <3> QED
      BY <1>1, <2>1, <3>1, WaitsKept DEF Waits
  <2>5. RefExact'
    <3> SUFFICES ASSUME NEW u \in user_sem
                 PROVE  ref'[u] = Cardinality(holders(u)')
      BY DEF RefExact
    <3>1. /\ \A p \in Procs : p # c => (live(p)' <=> live(p))
          /\ \A p \in Procs : p = c => live(p)' /\ ~live(p)
          /\ live(curr)
      BY <1>1, <2>1 DEF live, TypeOK
    <3>2. /\ usems'[c] = usems[curr]
          /\ \A p \in Procs : p # c => usems'[p] = usems[p]
      BY <1>1, <2>1 DEF TypeOK
    <3> DEFINE D == HeldAs(c, curr, u)
    <3>3. holders(u)' = holders(u) \cup D
      <4>1. holders(u)' = {h \in Procs \X Fds : live(h[1])' /\ usems'[h[1]][h[2]] = u}
        BY DEF holders
      <4>2. ASSUME NEW h \in Procs \X Fds
            PROVE  live(h[1])' /\ usems'[h[1]][h[2]] = u
                     <=> h \in holders(u) \/ h \in D
        <5>1. h[1] \in Procs /\ h[2] \in Fds /\ h = <<h[1], h[2]>>
          OBVIOUS
        <5>2. h \in D <=> h[1] = c /\ usems[curr][h[2]] = u
          BY <5>1 DEF HeldAs
        <5>3. h \in holders(u) <=> live(h[1]) /\ usems[h[1]][h[2]] = u
          BY DEF holders
        <5>4. CASE h[1] = c
          BY <3>1, <3>2, <5>1, <5>2, <5>3, <5>4
        <5>5. CASE h[1] # c
          BY <3>1, <3>2, <5>1, <5>2, <5>3, <5>5
        <5> QED
          BY <5>4, <5>5
      <4>3. D \subseteq Procs \X Fds /\ holders(u) \subseteq Procs \X Fds
        BY DEF HeldAs, holders
      <4> HIDE DEF D
      <4> QED
        BY <4>1, <4>2, <4>3
    <3>4. holders(u) \cap D = {}
      BY <3>1 DEF holders, HeldAs
    <3>5. /\ IsFiniteSet(D) /\ Cardinality(D) = holds(curr, u) /\ holds(curr, u) \in Nat
          /\ IsFiniteSet(holders(u)) /\ Cardinality(holders(u)) \in Nat
      BY HeldAsCount, HoldersFinite
    <3> HIDE DEF D
    <3>6. Cardinality(holders(u) \cup D) = Cardinality(holders(u)) + Cardinality(D)
      BY <3>4, <3>5, DisjointUnion
    <3>7. ref'[u] = ref[u] + holds(curr, u) /\ ref[u] = Cardinality(holders(u))
      BY <1>1, <2>1 DEF Waits, RefExact
    <3> QED
      BY <3>3, <3>5, <3>6, <3>7
  <2>6. FiniteNodes' /\ NodesConserved'
    BY <1>1, <2>1 DEF Waits, FiniteNodes, NodesConserved, queued
  <2> QED
    BY <2>2, <2>3, <2>4, <2>5, <2>6 DEF Waits
<1> QED
  BY <1>2, <1>3

\* sys_exit: curr is a ZOMBIE, and its parent, if it has one, was given a V.
LEMMA ExitEffect ==
  ASSUME SInv, sys_exit
  PROVE  LET p == parent[curr]
             s == zombie_sem(p)
             dead == [status EXCEPT ![curr] = "ZOMBIE"]
         IN /\ \/ /\ p = NULL /\ halted' = FALSE
                  /\ UNCHANGED <<value, wait_list, free_nodes>>
                  /\ \A q \in Procs : SameLife(q, dead)
               \/ /\ p \in Procs /\ p # NULL /\ s \in Sems
                  /\ sem_v(s) /\ halted' = sem_v_faults(s)
                  /\ \A q \in Procs : SameLife(q, sem_v_status(s, dead))
            /\ dead \in [Procs -> Status]
            /\ \A q \in Procs : dead[q] = "BLOCKED" <=> status[q] = "BLOCKED"
            /\ \A q \in Procs \ {curr} : dead[q] = status[q]
            /\ dead[curr] = "ZOMBIE"
<1> DEFINE p == parent[curr]
           s == zombie_sem(p)
           dead == [status EXCEPT ![curr] = "ZOMBIE"]
<1>1. /\ TypeOK /\ Sched /\ curr # 0 /\ curr \in Procs /\ 0 \in Procs
      /\ status[curr] = "RUNNING" /\ status[0] = "READY"
      /\ \A q \in Procs : status[q] = "RUNNING" => q = curr
  BY UserStep DEF sys_exit
<1>2. /\ dead \in [Procs -> Status]
      /\ \A q \in Procs : dead[q] # "RUNNING"
      /\ dead[0] = "READY"
      /\ \A q \in Procs : dead[q] = "BLOCKED" <=> status[q] = "BLOCKED"
      /\ \A q \in Procs \ {curr} : dead[q] = status[q]
      /\ dead[curr] = "ZOMBIE"
  BY <1>1 DEF TypeOK, Status
<1>3. CASE p = NULL
  <2>1. schedule(dead, FALSE) /\ UNCHANGED <<value, wait_list, free_nodes>>
    BY <1>3 DEF sys_exit, has_parent
  <2> HIDE DEF dead
  <2>2. halted' = FALSE /\ \A q \in Procs : SameLife(q, dead)
    BY <1>1, <1>2, <2>1, SwitchLife
  <2> QED
    BY <1>2, <1>3, <2>1, <2>2 DEF dead
<1>4. CASE p # NULL
  <2>1. p \in Procs /\ s \in Sems
    BY <1>1, <1>4, SemTypes DEF TypeOK
  <2>2. sem_v(s) /\ schedule(sem_v_status(s, dead), sem_v_faults(s))
    BY <1>4 DEF sys_exit, has_parent
  <2> DEFINE st == sem_v_status(s, dead)
  <2> HIDE DEF dead, s
  <2>3. st \in [Procs -> Status] /\ sem_v_faults(s) \in BOOLEAN
    BY <1>1, <1>2, <2>1, SemVType
  <2>4. \A q \in Procs : st[q] \in {dead[q]} \cup (IF dead[q] = "BLOCKED"
                                                   THEN {"READY"} ELSE {})
    BY <1>1, <1>2, <2>1, <2>2, SemVSched DEF Sched
  <2>5. (\A q \in Procs : st[q] # "RUNNING") /\ st[0] = "READY"
    BY <1>1, <1>2, <2>4
  <2> HIDE DEF st
  <2>6. halted' = sem_v_faults(s) /\ \A q \in Procs : SameLife(q, st)
    BY <1>1, <2>2, <2>3, <2>5, SwitchLife DEF st
  <2> QED
    BY <1>2, <1>4, <2>1, <2>2, <2>6 DEF st, dead, s
<1> QED
  BY <1>3, <1>4

\* Who is alive after sys_exit, and who is BLOCKED.
LEMMA ExitLife ==
  ASSUME SInv, sys_exit, TypeOK'
  PROVE  /\ \A q \in Procs : q = curr => status'[q] = "ZOMBIE"
         /\ \A q \in Procs : q # curr =>
              /\ live(q)' <=> live(q)
              /\ status'[q] = "ZOMBIE" <=> status[q] = "ZOMBIE"
              /\ status'[q] = "UNUSED" <=> status[q] = "UNUSED"
              /\ status'[q] = "BLOCKED" => status[q] = "BLOCKED"
<1> DEFINE p == parent[curr]
           s == zombie_sem(p)
           dead == [status EXCEPT ![curr] = "ZOMBIE"]
<1>1. /\ dead \in [Procs -> Status]
      /\ \A q \in Procs : dead[q] = "BLOCKED" <=> status[q] = "BLOCKED"
      /\ \A q \in Procs \ {curr} : dead[q] = status[q]
      /\ dead[curr] = "ZOMBIE"
  BY ExitEffect
<1>2. /\ TypeOK /\ curr \in Procs /\ WaitersBlocked /\ status[curr] = "RUNNING"
  BY UserStep DEF SInv, Sched, sys_exit
<1>3. ASSUME NEW st, \A q \in Procs : SameLife(q, st),
             \A q \in Procs : \/ st[q] = dead[q]
                              \/ q # curr /\ dead[q] = "BLOCKED" /\ st[q] = "READY"
      PROVE  /\ \A q \in Procs : q = curr => status'[q] = "ZOMBIE"
             /\ \A q \in Procs : q # curr =>
                  /\ live(q)' <=> live(q)
                  /\ status'[q] = "ZOMBIE" <=> status[q] = "ZOMBIE"
                  /\ status'[q] = "UNUSED" <=> status[q] = "UNUSED"
                  /\ status'[q] = "BLOCKED" => status[q] = "BLOCKED"
  <2> HIDE DEF dead
  <2>1. status' \in [Procs -> Status] /\ status \in [Procs -> Status]
    BY <1>2 DEF TypeOK
  <2> QED
    BY <1>1, <1>2, <1>3, <2>1 DEF SameLife, live, Status
<1>4. CASE p = NULL
  <2>1. \A q \in Procs : SameLife(q, dead)
    BY <1>4, ExitEffect, SemTypes
  <2> QED
    BY <1>3, <2>1
<1>5. CASE p # NULL
  <2>1. /\ s \in Sems /\ sem_v(s)
        /\ \A q \in Procs : SameLife(q, sem_v_status(s, dead))
    BY <1>5, ExitEffect
  <2> HIDE DEF s, dead
  <2>2. \A q \in Procs :
          \/ sem_v_status(s, dead)[q] = dead[q]
          \/ q # curr /\ dead[q] = "BLOCKED" /\ sem_v_status(s, dead)[q] = "READY"
    <3>1. CASE sem_v_status(s, dead) = dead
      BY <3>1
    <3>2. ASSUME NEW h \in Procs, status[h] = "BLOCKED",
                 sem_v_status(s, dead) = [dead EXCEPT ![h] = "READY"]
          PROVE  \A q \in Procs :
                   \/ sem_v_status(s, dead)[q] = dead[q]
                   \/ q # curr /\ dead[q] = "BLOCKED" /\ sem_v_status(s, dead)[q] = "READY"
      BY <1>1, <1>2, <3>2
    <3> QED
      BY <1>2, <2>1, <3>1, <3>2, VEffect
  <2> QED
    BY <1>3, <2>1, <2>2
<1> QED
  BY <1>4, <1>5

LEMMA ExitWait ==
  ASSUME WInv, TypeOK', sys_exit PROVE Waits'
<1> DEFINE p == parent[curr]
           s == zombie_sem(p)
           dead == [status EXCEPT ![curr] = "ZOMBIE"]
<1>1. /\ SInv /\ TypeOK /\ curr \in Procs /\ status[curr] = "RUNNING" /\ Waits
      /\ ctx[curr] = "user"
  BY UserStep DEF WInv, sys_exit, in_user
<1>2. /\ ctx' = [ctx EXCEPT ![curr] = "none"]
      /\ ref' = [u \in user_sem |-> ref[u] - holds(curr, u)]
      /\ UNCHANGED <<sem_arg, usems>>
  BY DEF sys_exit
<1>3. /\ \A q \in Procs : q = curr => status'[q] = "ZOMBIE"
      /\ \A q \in Procs : q # curr =>
           /\ live(q)' <=> live(q)
           /\ status'[q] = "ZOMBIE" <=> status[q] = "ZOMBIE"
           /\ status'[q] = "UNUSED" <=> status[q] = "UNUSED"
           /\ status'[q] = "BLOCKED" => status[q] = "BLOCKED"
  BY <1>1, ExitLife
<1>4. /\ dead \in [Procs -> Status]
      /\ \A q \in Procs : dead[q] = "BLOCKED" <=> status[q] = "BLOCKED"
  BY <1>1, ExitEffect
<1>5. BlockedWaits' /\ FiniteNodes' /\ NodesConserved'
  <2>1. CASE p = NULL
    <3>1. UNCHANGED <<wait_list, free_nodes>>
      BY <1>1, <2>1, ExitEffect, SemTypes
    <3>2. BlockedWaits'
      BY <1>1, <1>3, <3>1, WaitsKept DEF Waits
    <3> QED
      BY <1>1, <3>1, <3>2 DEF Waits, FiniteNodes, NodesConserved, queued
  <2>2. CASE p # NULL
    <3>1. /\ s \in Sems /\ sem_v(s)
          /\ \A q \in Procs : SameLife(q, sem_v_status(s, dead))
      BY <1>1, <2>2, ExitEffect
    <3> HIDE DEF s, dead
    <3> QED
      BY <1>4, <3>1, VWait DEF SameLife
  <2> QED
    BY <2>1, <2>2
<1>6. DeadNowhere'
  BY <1>1, <1>2, <1>3 DEF Waits, DeadNowhere, TypeOK
<1>7. CtxArg'
  BY <1>1, <1>2 DEF Waits, CtxArg, TypeOK
<1>8. RefExact'
  <2> SUFFICES ASSUME NEW u \in user_sem
               PROVE  ref'[u] = Cardinality(holders(u)')
    BY DEF RefExact
  <2> DEFINE D == HeldAs(curr, curr, u)
  <2>1. D \subseteq holders(u)
    BY <1>1 DEF HeldAs, holders, live
  <2>2. holders(u)' = holders(u) \ D
    <3>1. \A q \in Procs : live(q)' <=> live(q) /\ q # curr
      BY <1>3 DEF live
    <3>2. ASSUME NEW h \in Procs \X Fds
          PROVE  live(h[1])' /\ usems'[h[1]][h[2]] = u
                   <=> h \in holders(u) /\ h \notin D
      <4>1. h[1] \in Procs /\ h[2] \in Fds /\ h = <<h[1], h[2]>>
        OBVIOUS
      <4>2. h \in D <=> h[1] = curr /\ usems[curr][h[2]] = u
        BY <4>1 DEF HeldAs
      <4>3. h \in holders(u) <=> live(h[1]) /\ usems[h[1]][h[2]] = u
        BY DEF holders
      <4> QED
        BY <1>2, <3>1, <4>1, <4>2, <4>3
    <3>3. holders(u)' = {h \in Procs \X Fds : live(h[1])' /\ usems'[h[1]][h[2]] = u}
      BY DEF holders
    <3>4. holders(u) \subseteq Procs \X Fds
      BY DEF holders
    <3> HIDE DEF D
    <3> QED
      BY <3>2, <3>3, <3>4
  <2>3. /\ IsFiniteSet(D) /\ Cardinality(D) = holds(curr, u)
        /\ IsFiniteSet(holders(u))
    BY HeldAsCount, HoldersFinite
  <2> HIDE DEF D
  <2>4. Cardinality(holders(u) \ D) = Cardinality(holders(u)) - Cardinality(D)
    BY <2>1, <2>3, TakenOut
  <2>5. ref'[u] = ref[u] - holds(curr, u) /\ ref[u] = Cardinality(holders(u))
    BY <1>1, <1>2 DEF Waits, RefExact
  <2> QED
    BY <2>2, <2>3, <2>4, <2>5
<1> QED
  BY <1>5, <1>6, <1>7, <1>8 DEF Waits

\* sys_sem_open takes a semaphore that nobody holds or waits for.
LEMMA OpenEffect ==
  ASSUME WInv, NEW v \in InitValues, sys_sem_open(v)
  PROVE  \/ UNCHANGED vars
         \/ \E i \in Fds, u \in user_sem :
              /\ usems[curr][i] = NULL /\ ref[u] = 0 /\ u = Min(free_usems)
              /\ value' = [value EXCEPT ![u] = v]
              /\ ref' = [ref EXCEPT ![u] = 1]
              /\ usems' = [usems EXCEPT ![curr][i] = u]
              /\ UNCHANGED <<curr, status, ctx, sem_arg, parent, child_num,
                             wait_list, free_nodes, halted>>
<1>1. CASE UNCHANGED vars
  BY <1>1
<1>2. CASE proc_allocusem(curr) # {} /\ free_usems # {}
  <2> DEFINE i == Min(proc_allocusem(curr))
             u == Min(free_usems)
  <2>1. i \in Fds /\ usems[curr][i] = NULL
    <3>1. proc_allocusem(curr) \in SUBSET Nat
      BY ProcAssumption DEF proc_allocusem, Fds
    <3> QED
      BY <1>2, <3>1, MinOfNaturals DEF proc_allocusem
  <2>2. u \in user_sem /\ ref[u] = 0
    <3>1. free_usems \in SUBSET Nat
      BY ProcAssumption DEF free_usems, user_sem
    <3> QED
      BY <1>2, <3>1, MinOfNaturals DEF free_usems
  <2>3. /\ sem_init(u, v) /\ ref' = [ref EXCEPT ![u] = 1]
        /\ usems' = [usems EXCEPT ![curr][i] = u]
        /\ UNCHANGED <<curr, status, ctx, sem_arg, parent, child_num,
                       free_nodes, halted>>
    BY <1>2 DEF sys_sem_open
  <2>4. u = Min(free_usems)
    OBVIOUS
  <2> HIDE DEF i, u
  <2>5. wait_list[u] = <<>>
    BY <2>2, NoHolderNoSleeper
  <2>6. wait_list' = wait_list
    BY <2>2, <2>3, <2>5, SemTypes DEF sem_init, WInv, SInv, TypeOK
  <2>7. value' = [value EXCEPT ![u] = v]
    BY <2>3 DEF sem_init
  <2> QED
    BY <2>1, <2>2, <2>3, <2>4, <2>6, <2>7
<1> QED
  BY <1>1, <1>2 DEF sys_sem_open

LEMMA OpenWait ==
  ASSUME WInv, NEW v \in InitValues, sys_sem_open(v) PROVE Waits'
<1>1. /\ TypeOK /\ curr \in Procs /\ status[curr] = "RUNNING" /\ Waits
      /\ ctx[curr] = "user"
  BY UserStep DEF WInv, sys_sem_open, in_user
<1>2. CASE UNCHANGED vars
  BY <1>1, <1>2, StutterWait
<1>3. CASE ~ UNCHANGED vars
  <2>1. PICK i \in Fds, u \in user_sem :
          /\ usems[curr][i] = NULL /\ ref[u] = 0
          /\ ref' = [ref EXCEPT ![u] = 1]
          /\ usems' = [usems EXCEPT ![curr][i] = u]
          /\ UNCHANGED <<status, ctx, sem_arg, wait_list, free_nodes>>
    BY <1>3, OpenEffect
  <2>2. /\ usems'[curr][i] = u
        /\ \A q \in Procs, j \in Fds : q # curr \/ j # i => usems'[q][j] = usems[q][j]
    BY <1>1, <2>1 DEF TypeOK
  <2>3. CtxArg'
    <3>1. \A q \in Procs : q # curr => \A j \in Fds : usems'[q][j] = usems[q][j]
      BY <2>2
    <3> QED
      BY <1>1, <2>1, <3>1 DEF Waits, CtxArg
  <2>4. RefExact'
    <3> SUFFICES ASSUME NEW w \in user_sem
                 PROVE  ref'[w] = Cardinality(holders(w)')
      BY DEF RefExact
    <3> DEFINE x == <<curr, i>>
    <3>1. holders(w)' = {h \in Procs \X Fds : live(h[1]) /\ usems'[h[1]][h[2]] = w}
      BY <2>1 DEF holders, live
    <3>2. live(curr) /\ x \in Procs \X Fds
      BY <1>1 DEF live
    <3>3. ASSUME NEW h \in Procs \X Fds
          PROVE  usems'[h[1]][h[2]] = IF h = x THEN u ELSE usems[h[1]][h[2]]
      <4>1. h[1] \in Procs /\ h[2] \in Fds /\ h = <<h[1], h[2]>>
        OBVIOUS
      <4> QED
        BY <2>2, <4>1
    <3>4. usems[x[1]][x[2]] # w /\ live(x[1])
      BY <2>1, <3>2, SemTypes
    <3> HIDE DEF x
    <3>5. CASE w # u
      <4>1. holders(w)' = holders(w)
        BY <3>1, <3>3, <3>4, <3>5 DEF holders
      <4>2. ref'[w] = ref[w]
        BY <1>1, <2>1, <3>5 DEF TypeOK
      <4> QED
        BY <1>1, <4>1, <4>2 DEF Waits, RefExact
    <3>6. CASE w = u
      <4>1. holders(w) = {}
        BY <2>1, <3>6, NoHolderNoSleeper
      <4>2. holders(w)' = {x}
        BY <3>1, <3>2, <3>3, <3>4, <3>6, <4>1 DEF holders
      <4>3. ref'[w] = 1
        BY <1>1, <2>1, <3>6 DEF TypeOK
      <4> QED
        BY <4>2, <4>3, FS_Singleton
    <3> QED
      BY <3>5, <3>6
  <2> QED
    BY <1>1, <2>1, <2>3, <2>4
    DEF Waits, DeadNowhere, BlockedWaits, FiniteNodes, NodesConserved, queued
<1> QED
  BY <1>2, <1>3

LEMMA CloseWait ==
  ASSUME WInv, NEW i \in Fds, sys_sem_close(i) PROVE Waits'
<1>1. /\ TypeOK /\ curr \in Procs /\ status[curr] = "RUNNING" /\ Waits
      /\ ctx[curr] = "user"
  BY UserStep DEF WInv, sys_sem_close, in_user
<1> DEFINE u == usems[curr][i]
           x == <<curr, i>>
<1>2. /\ u \in user_sem
      /\ ref' = [ref EXCEPT ![u] = @ - 1]
      /\ usems' = [usems EXCEPT ![curr][i] = NULL]
      /\ UNCHANGED <<status, ctx, sem_arg, wait_list, free_nodes>>
  BY <1>1 DEF sys_sem_close, TypeOK
<1>3. /\ usems'[curr][i] = NULL
      /\ \A q \in Procs, j \in Fds : q # curr \/ j # i => usems'[q][j] = usems[q][j]
  BY <1>1, <1>2 DEF TypeOK
<1>4. CtxArg'
  <2>1. \A q \in Procs : q # curr => \A j \in Fds : usems'[q][j] = usems[q][j]
    BY <1>3
  <2> QED
    BY <1>1, <1>2, <2>1 DEF Waits, CtxArg
<1>5. RefExact'
  <2> SUFFICES ASSUME NEW w \in user_sem
               PROVE  ref'[w] = Cardinality(holders(w)')
    BY DEF RefExact
  <2>1. holders(w)' = {h \in Procs \X Fds : live(h[1]) /\ usems'[h[1]][h[2]] = w}
    BY <1>2 DEF holders, live
  <2>2. live(x[1]) /\ x \in Procs \X Fds /\ usems[x[1]][x[2]] = u
    BY <1>1 DEF live
  <2>3. ASSUME NEW h \in Procs \X Fds
        PROVE  usems'[h[1]][h[2]] = IF h = x THEN NULL ELSE usems[h[1]][h[2]]
    <3>1. h[1] \in Procs /\ h[2] \in Fds /\ h = <<h[1], h[2]>>
      OBVIOUS
    <3> QED
      BY <1>3, <3>1
  <2>4. NULL # w
    BY SemTypes
  <2> HIDE DEF x, u
  <2>5. holders(w)' = holders(w) \ {x}
    BY <2>1, <2>3, <2>4 DEF holders
  <2>6. x \in holders(w) <=> w = u
    BY <2>2 DEF holders
  <2>7. Cardinality(holders(w) \ {x})
          = IF w = u THEN Cardinality(holders(w)) - 1 ELSE Cardinality(holders(w))
    BY <2>6, HoldersFinite, FS_RemoveElement
  <2>8. ref[w] = Cardinality(holders(w))
    BY <1>1 DEF Waits, RefExact
  <2>9. ref'[w] = IF w = u THEN ref[w] - 1 ELSE ref[w]
    BY <1>1, <1>2 DEF TypeOK
  <2> QED
    BY <2>5, <2>7, <2>8, <2>9
<1> QED
  BY <1>1, <1>2, <1>4, <1>5
  DEF Waits, DeadNowhere, BlockedWaits, FiniteNodes, NodesConserved, queued

-----------------------------------------------------------------------------

LEMMA InitWait == Init => WInv
<1> SUFFICES ASSUME Init PROVE WInv
  OBVIOUS
<1>1. SInv
  BY InitSched
<1>2. CtxArg /\ DeadNowhere /\ BlockedWaits
  BY DEF Init, CtxArg, DeadNowhere, BlockedWaits
<1>3. RefExact
  <2>1. \A u \in user_sem : holders(u) = {} /\ ref[u] = 0
    BY SemTypes DEF Init, holders
  <2> QED
    BY <2>1, FS_EmptySet DEF RefExact
<1>4. FiniteNodes /\ NodesConserved
  <2>1. \A s \in Sems : Len(wait_list[s]) = 0
    BY DEF Init
  <2>2. NodesOf(wait_list) = {}
    BY <2>1, NodesOfIs
  <2>3. queued = {} /\ free_nodes = LIST_NUM
    BY <2>2 DEF queued, NodesOf, Init
  <2> QED
    BY <2>3, FS_EmptySet, ProcAssumption DEF FiniteNodes, NodesConserved
<1> QED
  BY <1>1, <1>2, <1>3, <1>4 DEF WInv, Waits

LEMMA NextWait == WInv /\ [Next]_vars => WInv'
<1> SUFFICES ASSUME WInv, [Next]_vars PROVE WInv'
  OBVIOUS
<1>1. SInv' /\ TypeOK'
  BY NextSched DEF WInv, SInv
<1>2. CASE UNCHANGED vars
  BY <1>1, <1>2, StutterWait DEF WInv
<1> QED
  BY <1>1, <1>2, TimerWait, WokenWait, ForkWait, ExitWait, WaitWait, OpenWait,
     UsemWait, CloseWait
  DEF Next, Kernel, Syscall, WInv

\* user_sem[u].ref is exactly the number of descriptors of live processes, and
\* a semaphore that usem_alloc may hand out has no sleeper: for any number of
\* processes, descriptors and semaphores, and any initial values, fork, exit,
\* sem_open and sem_close never re-initialise a semaphore in use.
THEOREM RefsCount == Spec => []RefCounts
<1>1. WInv => RefCounts
  BY NoHolderNoSleeper DEF RefCounts, WInv, Waits, RefExact
<1> QED
  BY InitWait, NextWait, <1>1, PTL DEF Spec

-----------------------------------------------------------------------------
(***************************************************************************)
(* The invariant.  It has no `~halted' in it: a failure of the kernel      *)
(* leaves the state as the step would have left it without.                *)
(***************************************************************************)

\* The value of s and its list agree.
Counted(s) == Len(wait_list[s]) = IF value[s] < 0 THEN -value[s] ELSE 0

\* User semaphores are left out here: a program may open one with a negative
\* value, and then its value counts waiters that never were.
KernelCounted == \A s \in Sems \ user_sem : Counted(s)

kids(p) == {c \in Procs : parent[c] = p /\ status[c] # "UNUSED"}
Children == \A p \in Procs : live(p) => child_num[p] = Cardinality(kids(p))

credit(p) == (IF value[p] > 0 THEN value[p] ELSE 0)
               + (IF woken(p, p) THEN 1 ELSE 0)
Credits == \A p \in Procs : live(p) => Cardinality(zombies(p)) = credit(p)

Family == ParentIsAlive /\ Children /\ Credits

FInv == WInv /\ KernelCounted /\ Family

-----------------------------------------------------------------------------
(***************************************************************************)
(* Semaphore values: sem_p, sem_v and sem_init, one semaphore at a time.   *)
(***************************************************************************)

LEMMA CountedKept ==
  ASSUME UNCHANGED <<value, wait_list>>
  PROVE  \A t \in Sems : Counted(t) => Counted(t)'
  BY DEF Counted

LEMMA CountedTake ==
  ASSUME TypeOK, NEW s \in Sems, sem_p_takes(s)
  PROVE  \A t \in Sems : Counted(t) => Counted(t)'
<1>1. /\ value \in [Sems -> Int] /\ value[s] > 0
      /\ value' = [value EXCEPT ![s] = @ - 1] /\ wait_list' = wait_list
  BY DEF TypeOK, sem_p_takes
<1>2. value'[s] = value[s] - 1 /\ \A t \in Sems : t # s => value'[t] = value[t]
  BY <1>1
<1> QED
  BY <1>1, <1>2 DEF Counted

LEMMA CountedBlock ==
  ASSUME TypeOK, NEW s \in Sems, NEW c, sem_p_blocks(s, c)
  PROVE  \A t \in Sems : Counted(t) => Counted(t)'
<1>1. /\ value \in [Sems -> Int] /\ value[s] <= 0
      /\ value' = [value EXCEPT ![s] = @ - 1]
  BY DEF TypeOK, sem_p_blocks
<1>2. value'[s] = value[s] - 1 /\ \A t \in Sems : t # s => value'[t] = value[t]
  BY <1>1
<1>3. /\ Len(wait_list'[s]) = Len(wait_list[s]) + 1 /\ Len(wait_list[s]) \in Nat
      /\ \A t \in Sems : t # s => wait_list'[t] = wait_list[t]
  BY AfterAppend DEF sem_p_blocks, list_enqueue, TypeOK
<1> QED
  BY <1>1, <1>2, <1>3 DEF Counted

\* A V finds the waiter that the value announces.
LEMMA CountedV ==
  ASSUME TypeOK, NEW s \in Sems
  PROVE  /\ Counted(s) => ~sem_v_faults(s)
         /\ sem_v(s) => \A t \in Sems : Counted(t) => Counted(t)'
<1>1. value \in [Sems -> Int] /\ value[s] \in Int /\ wait_list[s] \in Seq(Procs)
  BY DEF TypeOK
<1>2. ASSUME Counted(s), wakes(s) PROVE wait_list[s] # <<>>
  BY <1>1, <1>2 DEF Counted, wakes
<1>3. ASSUME sem_v(s) PROVE \A t \in Sems : Counted(t) => Counted(t)'
  <2>1. value'[s] = value[s] + 1 /\ \A t \in Sems : t # s => value'[t] = value[t]
    BY <1>1, <1>3 DEF sem_v
  <2>2. CASE wakes(s) /\ wait_list[s] # <<>>
    <3>1. wait_list' = [wait_list EXCEPT ![s] = Tail(@)]
      BY <1>3, <2>2 DEF sem_v, list_dequeue
    <3>2. /\ Len(wait_list'[s]) = Len(wait_list[s]) - 1 /\ Len(wait_list[s]) \in Nat
          /\ \A t \in Sems : t # s => wait_list'[t] = wait_list[t]
      BY <2>2, <3>1, AfterTail DEF TypeOK
    <3> QED
      BY <1>1, <2>1, <2>2, <3>2 DEF Counted, wakes
  <2>3. CASE ~wakes(s)
    <3>1. wait_list' = wait_list
      BY <1>3, <2>3 DEF sem_v
    <3> QED
      BY <1>1, <2>1, <2>3, <3>1 DEF Counted, wakes
  <2>4. CASE wakes(s) /\ wait_list[s] = <<>>
    <3>1. wait_list' = wait_list
      BY <1>3, <2>4 DEF sem_v, list_dequeue
    <3> QED
      BY <1>1, <1>2, <2>1, <2>4, <3>1 DEF Counted
  <2> QED
    BY <2>2, <2>3, <2>4
<1> QED
  BY <1>2, <1>3 DEF sem_v_faults

LEMMA CountedInit ==
  ASSUME TypeOK, NEW s \in Sems, NEW v \in Nat, wait_list[s] = <<>>,
         value' = [value EXCEPT ![s] = v], wait_list' = wait_list
  PROVE  \A t \in Sems : Counted(t) => Counted(t)'
<1>1. value'[s] = v /\ \A t \in Sems : t # s => value'[t] = value[t]
  BY DEF TypeOK
<1> QED
  BY <1>1 DEF Counted

\* No step makes the value of a semaphore and its list disagree, unless
\* sem_open gives a user semaphore a negative value.
LEMMA NextCounted ==
  ASSUME WInv, [Next]_vars, NEW t \in Sems, Counted(t),
         t \in user_sem => InitValues \subseteq Nat
  PROVE  Counted(t)'
<1>1. SInv /\ TypeOK /\ curr \in Procs
  BY DEF WInv, SInv, TypeOK
<1>2. CASE UNCHANGED vars
  BY <1>2, CountedKept DEF vars
<1>3. CASE timer_handle \/ sys_yield \/ sys_sleep_again
             \/ (\E n \in SleepTicks : sys_sleep(n)) \/ sys_sem_p_woken
             \/ sys_wait_woken
  <2>1. UNCHANGED <<value, wait_list>>
    BY <1>3 DEF timer_handle, sys_yield, sys_sleep_again, sys_sleep,
                sys_sem_p_woken, sys_wait_woken
  <2> QED
    BY <2>1, CountedKept
<1>4. CASE sys_fork
  <2>1. CASE ~ UNCHANGED vars
    <3>1. PICK c \in Procs : /\ status[c] = "UNUSED"
                             /\ value' = [value EXCEPT ![c] = 0]
                             /\ wait_list' = wait_list
      BY <1>4, <2>1, ForkEffect
    <3>2. wait_list[c] = <<>> /\ c \in Sems
      BY <3>1, ZombieListEmpty, ZeroIsProc, SemTypes
    <3> QED
      BY <1>1, <3>1, <3>2, CountedInit
  <2> QED
    BY <1>2, <2>1
<1>5. CASE sys_exit
  <2>1. UNCHANGED <<value, wait_list>> \/ \E s \in Sems : sem_v(s)
    BY <1>1, <1>5, ExitEffect
  <2> QED
    BY <1>1, <2>1, CountedKept, CountedV
<1>6. CASE sys_wait
  <2>1. zombie_sem(curr) \in Sems
    BY <1>1, SemTypes
  <2> QED
    BY <1>1, <1>2, <1>6, <2>1, CountedTake, CountedBlock DEF sys_wait
<1>7. ASSUME NEW v \in InitValues, sys_sem_open(v) PROVE Counted(t)'
  <2>1. CASE ~ UNCHANGED vars
    <3>1. PICK u \in user_sem : /\ ref[u] = 0
                                /\ value' = [value EXCEPT ![u] = v]
                                /\ wait_list' = wait_list
      BY <1>7, <2>1, OpenEffect
    <3>2. wait_list[u] = <<>> /\ u \in Sems
      BY <3>1, NoHolderNoSleeper, SemTypes
    <3>3. CASE t = u
      BY <1>1, <3>1, <3>2, <3>3, CountedInit
    <3>4. CASE t # u
      BY <1>1, <3>1, <3>2, <3>4 DEF Counted, TypeOK
    <3> QED
      BY <3>3, <3>4
  <2> QED
    BY <1>2, <2>1
<1>8. ASSUME NEW i \in Fds,
             sys_sem_p(i) \/ sys_sem_v(i) \/ sys_sem_close(i) \/ sys_sem_bad(i)
      PROVE  Counted(t)'
  <2>1. usems[curr][i] # NULL => usems[curr][i] \in Sems
    BY <1>1, SemTypes DEF TypeOK
  <2>2. CASE sys_sem_p(i)
    BY <1>1, <2>1, <2>2, CountedTake, CountedBlock DEF sys_sem_p
  <2>3. CASE sys_sem_v(i)
    BY <1>1, <2>1, <2>3, CountedV DEF sys_sem_v
  <2>4. CASE sys_sem_close(i)
    BY <2>4, CountedKept DEF sys_sem_close
  <2>5. CASE sys_sem_bad(i)
    BY <1>2, <2>5 DEF sys_sem_bad
  <2> QED
    BY <1>8, <2>2, <2>3, <2>4, <2>5
<1> QED
  BY <1>2, <1>3, <1>4, <1>5, <1>6, <1>7, <1>8 DEF Next, Kernel, Syscall

LEMMA InitCounted == Init => \A s \in Sems : Counted(s)
  BY DEF Init, Counted

\* The status in the PCB, the wait lists, the values of the semaphores and the
\* pool of list nodes agree after every step, for any numbers of them, provided
\* that no program opens a semaphore with a negative value (sem.h has a meaning
\* for such a value only when processes wait; the model's runs open with 0, 1).
THEOREM WaitersAgree ==
  ASSUME InitValues \subseteq Nat
  PROVE  Spec => []WaitListsAgree
<1> DEFINE UInv == WInv /\ \A s \in Sems : Counted(s)
<1>1. Init => UInv
  BY InitWait, InitCounted
<1>2. UInv /\ [Next]_vars => UInv'
  <2> SUFFICES ASSUME UInv, [Next]_vars PROVE UInv'
    OBVIOUS
  <2>1. WInv'
    BY NextWait
  <2>2. \A s \in Sems : Counted(s)'
    BY NextCounted
  <2> QED
    BY <2>1, <2>2
<1>3. UInv => WaitListsAgree
  BY DEF WaitListsAgree, BlockedIsQueued, ValueCountsWaiters, Counted, WInv,
         SInv, Sched, Waits
<1> HIDE DEF UInv
<1> QED
  BY <1>1, <1>2, <1>3, PTL DEF Spec

-----------------------------------------------------------------------------
(***************************************************************************)
(* Parents and children.                                                   *)
(***************************************************************************)

LEMMA FamilyFinite ==
  \A p : /\ IsFiniteSet(kids(p)) /\ Cardinality(kids(p)) \in Nat
         /\ IsFiniteSet(zombies(p)) /\ Cardinality(zombies(p)) \in Nat
         /\ zombies(p) \subseteq kids(p)
  BY HoldersFinite, FS_Subset, FS_CardinalityType DEF kids, zombies

\* A step in which nobody is born or dies and all credits stay.
LEMMA KeptFamily ==
  ASSUME TypeOK, TypeOK', Family, UNCHANGED <<parent, child_num>>,
         \A p \in Procs : /\ status'[p] = "ZOMBIE" <=> status[p] = "ZOMBIE"
                          /\ status'[p] = "UNUSED" <=> status[p] = "UNUSED"
                          /\ live(p) => credit(p)' = credit(p)
  PROVE  Family'
<1>1. \A p \in Procs : live(p)' <=> live(p)
  BY DEF TypeOK, Status, live
<1>2. \A p : kids(p)' = kids(p) /\ zombies(p)' = zombies(p)
  BY DEF kids, zombies
<1>3. ParentIsAlive'
  BY <1>1 DEF Family, ParentIsAlive, TypeOK
<1> QED
  BY <1>1, <1>2, <1>3 DEF Family, Children, Credits

\* It is enough that no zombie_sem is touched and nobody is woken from one.
LEMMA QuietFamily ==
  ASSUME TypeOK, TypeOK', Family, UNCHANGED <<parent, child_num>>,
         \A p \in Procs :
           /\ status'[p] = "ZOMBIE" <=> status[p] = "ZOMBIE"
           /\ status'[p] = "UNUSED" <=> status[p] = "UNUSED"
           /\ value'[p] = value[p] /\ (woken(p, p)' <=> woken(p, p))
  PROVE  Family'
<1>1. \A p \in Procs : credit(p)' = credit(p)
  BY DEF credit
<1> QED
  BY <1>1, KeptFamily

LEMMA ValueElsewhere ==
  ASSUME TypeOK, NEW s \in Sems \ Procs, NEW v,
         value' = value \/ value' = [value EXCEPT ![s] = v]
  PROVE  \A p \in Procs : value'[p] = value[p]
  BY SemTypes, ZeroIsProc DEF TypeOK

LEMMA TimerFamily ==
  ASSUME SInv, TypeOK', Family,
         timer_handle \/ sys_yield \/ sys_sleep_again
           \/ \E n \in SleepTicks : sys_sleep(n)
  PROVE  Family'
<1>1. StatusKept /\ UNCHANGED <<sem_arg, parent, child_num, value>>
  BY TimerEffect
<1>2. TypeOK
  BY DEF SInv
<1>3. \A p \in Procs : woken(p, p)' <=> woken(p, p)
  BY <1>1, <1>2 DEF woken, StatusKept, SameLife, TypeOK, Status
<1> QED
  BY <1>1, <1>2, <1>3, QuietFamily DEF StatusKept, SameLife

\* The rest of a sem_p that was not sys_wait's.
LEMMA WokenFamily ==
  ASSUME WInv, TypeOK', Family,
         resumes("semp") \/ resumes("getchar"),
         sem_arg' = [sem_arg EXCEPT ![curr] = NULL],
         UNCHANGED <<status, parent, child_num, value>>
  PROVE  Family'
<1>1. TypeOK /\ curr \in Procs /\ CtxArg
  BY DEF WInv, SInv, TypeOK, Waits
<1>2. sem_arg[curr] # curr
  BY <1>1, SemKinds DEF CtxArg, resumes
<1>3. \A p \in Procs : woken(p, p)' <=> woken(p, p)
  BY <1>1, <1>2, SemKinds DEF woken, TypeOK
<1> QED
  BY <1>1, <1>3, QuietFamily

\* sem_p of any other semaphore than a zombie_sem.
LEMMA BlockFamily ==
  ASSUME WInv, TypeOK', Family, in_user \/ resumes("read"),
         NEW s \in Sems \ Procs, NEW c \in Ctx, sem_p_blocks(s, c),
         UNCHANGED <<parent, child_num>>
  PROVE  Family'
<1>1. /\ SInv /\ TypeOK /\ curr \in Procs /\ status[curr] = "RUNNING"
      /\ sem_arg[curr] = NULL
  BY UserStep DEF WInv, Waits, CtxArg, in_user, resumes
<1>2. /\ status'[curr] = "BLOCKED"
      /\ \A p \in Procs \ {curr} : SameLife(p, status)
  BY <1>1, BlockEffect
<1>3. /\ sem_arg' = [sem_arg EXCEPT ![curr] = s]
      /\ value' = [value EXCEPT ![s] = value[s] - 1]
  BY DEF sem_p_blocks
<1>4. \A p \in Procs : woken(p, p)' <=> woken(p, p)
  <2>1. \A p \in Procs \ {curr} : sem_arg'[p] = sem_arg[p]
    BY <1>1, <1>3 DEF TypeOK
  <2>2. \A p \in Procs \ {curr} : woken(p, p)' <=> woken(p, p)
    BY <1>1, <1>2, <2>1 DEF woken, SameLife, TypeOK, Status
  <2>3. \A p \in Procs : p = curr => ~woken(p, p)' /\ ~woken(p, p)
    BY <1>1, <1>2, SemKinds DEF woken
  <2> QED
    BY <2>2, <2>3
<1>5. \A p \in Procs : /\ status'[p] = "ZOMBIE" <=> status[p] = "ZOMBIE"
                       /\ status'[p] = "UNUSED" <=> status[p] = "UNUSED"
  BY <1>1, <1>2 DEF SameLife
<1> QED
  BY <1>1, <1>3, <1>4, <1>5, ValueElsewhere, QuietFamily

LEMMA VFamily ==
  ASSUME WInv, TypeOK', Family, NEW s \in Sems \ Procs, sem_v(s),
         status' = sem_v_status(s, status),
         UNCHANGED <<sem_arg, parent, child_num>>
  PROVE  Family'
<1>1. /\ TypeOK /\ WaitersBlocked
      /\ value' = [value EXCEPT ![s] = value[s] + 1]
  BY DEF WInv, SInv, Sched, sem_v
<1>2. CASE status' = status
  BY <1>1, <1>2, ValueElsewhere, QuietFamily DEF woken
<1>3. ASSUME NEW h \in Procs, status[h] = "BLOCKED", sem_arg[h] = s,
             status' = [status EXCEPT ![h] = "READY"]
      PROVE  Family'
  <2>1. status'[h] = "READY" /\ \A p \in Procs \ {h} : status'[p] = status[p]
    BY <1>1, <1>3 DEF TypeOK
  <2>2. \A p \in Procs : woken(p, p)' <=> woken(p, p)
    BY <1>3, <2>1 DEF woken
  <2> QED
    BY <1>1, <1>3, <2>1, <2>2, ValueElsewhere, QuietFamily
<1> QED
  BY <1>1, <1>2, <1>3, VEffect

\* sys_fork gives curr one child more and makes one that has none, although the
\* PCB it takes may have been a parent before.
LEMMA ForkFamily ==
  ASSUME WInv, TypeOK', Family, sys_fork PROVE Family'
<1>1. /\ TypeOK /\ curr \in Procs /\ status[curr] = "RUNNING"
      /\ CtxArg /\ DeadNowhere /\ ParentIsAlive
  BY UserStep DEF WInv, Waits, sys_fork, Family
<1>2. CASE UNCHANGED vars
  BY <1>1, <1>2, QuietFamily DEF vars, woken
<1>3. CASE ~ UNCHANGED vars
  <2>1. PICK c \in Procs :
          /\ c # curr /\ status[c] = "UNUSED"
          /\ status' = [status EXCEPT ![c] = "READY"]
          /\ parent' = [parent EXCEPT ![c] = curr]
          /\ child_num' = [child_num EXCEPT ![c] = 0, ![curr] = @ + 1]
          /\ value' = [value EXCEPT ![c] = 0]
          /\ UNCHANGED <<curr, sem_arg>>
    BY <1>3, ForkEffect
  <2>2. /\ status'[c] = "READY" /\ parent'[c] = curr /\ value'[c] = 0
        /\ child_num'[c] = 0 /\ child_num'[curr] = child_num[curr] + 1
        /\ \A p \in Procs \ {c} : /\ status'[p] = status[p]
                                  /\ parent'[p] = parent[p]
                                  /\ value'[p] = value[p]
        /\ \A p \in Procs \ {c, curr} : child_num'[p] = child_num[p]
    BY <1>1, <2>1, SemTypes, ZeroIsProc DEF TypeOK
  <2>3. /\ sem_arg[c] = NULL /\ c # NULL
        /\ \A q \in Procs : status[q] # "UNUSED" => parent[q] # c
    BY <1>1, <2>1, SemKinds DEF CtxArg, DeadNowhere, ParentIsAlive, live
  <2>4. /\ \A p \in Procs \ {c} : live(p)' <=> live(p)
        /\ \A p \in Procs : p = c => ~live(p) /\ live(p)'
        /\ \A p \in Procs : p = curr => live(p) /\ live(p)'
    BY <1>1, <2>1, <2>2 DEF live
  <2>5. ParentIsAlive'
    <3> SUFFICES ASSUME NEW q \in Procs, status'[q] # "UNUSED", parent'[q] # NULL
                 PROVE  \E p \in Procs : p = parent'[q] /\ live(p)'
      BY DEF ParentIsAlive, live
    <3>1. CASE q = c
      BY <1>1, <2>2, <2>4, <3>1
    <3>2. CASE q # c
      <4>1. parent[q] \in Procs /\ live(parent[q]) /\ parent'[q] = parent[q]
        BY <1>1, <2>2, <3>2 DEF ParentIsAlive, TypeOK
      <4>2. PICK p \in Procs : p = parent[q]
        BY <4>1
      <4>3. live(p)' /\ p = parent'[q]
        BY <2>4, <4>1, <4>2
      <4> QED
        BY <4>3
    <3> QED
      BY <3>1, <3>2
  <2>6. Children'
    <3> SUFFICES ASSUME NEW p \in Procs, live(p)'
                 PROVE  child_num'[p] = Cardinality(kids(p)')
      BY DEF Children
    <3>1. CASE p = c
      <4>1. kids(p)' = {}
        BY <2>1, <2>2, <2>3, <3>1 DEF kids
      <4> QED
        BY <2>2, <3>1, <4>1, FS_EmptySet
    <3>2. CASE p = curr
      <4>1. kids(p)' = kids(p) \cup {c} /\ c \notin kids(p)
        BY <2>1, <2>2, <3>2 DEF kids
      <4>2. Cardinality(kids(p) \cup {c}) = Cardinality(kids(p)) + 1
        BY <4>1, FamilyFinite, FS_AddElement
      <4>3. child_num[p] = Cardinality(kids(p))
        BY <2>4, <3>2 DEF Family, Children
      <4> QED
        BY <2>2, <3>2, <4>1, <4>2, <4>3
    <3>3. CASE p # c /\ p # curr
      <4>1. kids(p)' = kids(p)
        BY <2>1, <2>2, <3>3 DEF kids
      <4> QED
        BY <2>2, <2>4, <3>3, <4>1 DEF Family, Children
    <3> QED
      BY <3>1, <3>2, <3>3
  <2>7. Credits'
    <3> SUFFICES ASSUME NEW p \in Procs, live(p)'
                 PROVE  Cardinality(zombies(p)') = credit(p)'
      BY DEF Credits
    <3>1. zombies(p)' = zombies(p)
      BY <2>1, <2>2 DEF zombies
    <3>2. CASE p = c
      <4>1. zombies(p) = {}
        BY <2>3, <3>2 DEF zombies
      <4>2. credit(p)' = 0
        BY <2>1, <2>2, <2>3, <3>2 DEF credit, woken
      <4> QED
        BY <3>1, <4>1, <4>2, FS_EmptySet
    <3>3. CASE p # c
      <4>1. credit(p)' = credit(p)
        BY <2>1, <2>2, <3>3 DEF credit, woken
      <4> QED
        BY <2>4, <3>1, <3>3, <4>1 DEF Family, Credits
    <3> QED
      BY <3>2, <3>3
  <2> QED
    BY <2>5, <2>6, <2>7 DEF Family
<1> QED
  BY <1>2, <1>3

\* sys_wait after its sem_p: the credit that it has used was for a zombie, and
\* that zombie is gone with it.
LEMMA ReapFamily ==
  ASSUME WInv, TypeOK', Family, curr' = curr, parent' = parent, reap,
         live(curr), status[curr] = "RUNNING", credit(curr) > 0,
         credit(curr)' = credit(curr) - 1,
         \A p \in Procs \ {curr} : value'[p] = value[p] /\ sem_arg'[p] = sem_arg[p]
  PROVE  Family' /\ halted' = FALSE
<1>1. TypeOK /\ curr \in Procs /\ ParentIsAlive /\ child_num \in [Procs -> Int]
  BY DEF WInv, SInv, TypeOK, Family
<1>2. /\ Cardinality(zombies(curr)) = credit(curr)
      /\ Cardinality(zombies(curr)) \in Nat /\ zombies(curr) # {}
  <2>1. Cardinality(zombies(curr)) = credit(curr)
    BY <1>1 DEF Family, Credits
  <2> QED
    BY <2>1, FamilyFinite, FS_EmptySet
<1>3. halted' = FALSE
  BY <1>1, <1>2, ReapEffect
<1>4. PICK z \in zombies(curr) :
        /\ z \in Procs /\ status[z] = "ZOMBIE"
        /\ status' = [status EXCEPT ![z] = "UNUSED"]
        /\ child_num' = [child_num EXCEPT ![curr] = @ - 1]
  BY <1>1, <1>2, ReapEffect
<1>5. /\ z # curr /\ parent[z] = curr /\ status'[z] = "UNUSED"
      /\ \A p \in Procs \ {z} : status'[p] = status[p]
      /\ child_num'[curr] = child_num[curr] - 1
      /\ \A p \in Procs \ {curr} : child_num'[p] = child_num[p]
  BY <1>1, <1>4 DEF TypeOK, zombies
<1>6. \A p \in Procs : live(p)' <=> live(p)
  BY <1>4, <1>5 DEF live
<1>7. ParentIsAlive'
  <2> SUFFICES ASSUME NEW q \in Procs, status'[q] # "UNUSED", parent[q] # NULL
               PROVE  \E p \in Procs : p = parent[q] /\ live(p)'
    BY DEF ParentIsAlive, live
  <2>1. parent[q] \in Procs /\ live(parent[q])
    BY <1>1, <1>5 DEF ParentIsAlive, TypeOK
  <2>2. PICK p \in Procs : p = parent[q]
    BY <2>1
  <2> QED
    BY <1>6, <2>1, <2>2
<1>8. \A p \in Procs : p # curr => kids(p)' = kids(p) /\ zombies(p)' = zombies(p)
  BY <1>5 DEF kids, zombies
<1>9. \A p \in Procs : p = curr => /\ kids(p)' = kids(p) \ {z}
                                   /\ zombies(p)' = zombies(p) \ {z}
                                   /\ z \in kids(p) /\ z \in zombies(p)
  BY <1>4, <1>5 DEF kids, zombies
<1>10. \A p \in Procs : p = curr =>
         /\ Cardinality(kids(p)') = Cardinality(kids(p)) - 1
         /\ Cardinality(zombies(p)') = Cardinality(zombies(p)) - 1
  BY <1>9, FamilyFinite, FS_RemoveElement
<1>11. Children'
  <2> SUFFICES ASSUME NEW p \in Procs, live(p)'
               PROVE  child_num'[p] = Cardinality(kids(p)')
    BY DEF Children
  <2>1. child_num[p] = Cardinality(kids(p))
    BY <1>6 DEF Family, Children
  <2> QED
    BY <1>5, <1>8, <1>10, <2>1
<1>12. Credits'
  <2> SUFFICES ASSUME NEW p \in Procs, live(p)'
               PROVE  Cardinality(zombies(p)') = credit(p)'
    BY DEF Credits
  <2>1. Cardinality(zombies(p)) = credit(p)
    BY <1>6 DEF Family, Credits
  <2>2. CASE p = curr
    <3>1. credit(p)' = credit(p) - 1
      BY <2>2
    <3> QED
      BY <1>10, <2>1, <2>2, <3>1
  <2>3. CASE p # curr
    <3>1. value'[p] = value[p] /\ sem_arg'[p] = sem_arg[p]
      BY <2>3
    <3>2. status'[p] \in {"READY", "RUNNING"} <=> status[p] \in {"READY", "RUNNING"}
      BY <1>4, <1>5
    <3>3. credit(p)' = credit(p)
      BY <3>1, <3>2 DEF credit, woken
    <3> QED
      BY <1>8, <2>1, <2>3, <3>3
  <2> QED
    BY <2>2, <2>3
<1> QED
  BY <1>3, <1>7, <1>11, <1>12 DEF Family

LEMMA WaitFamily ==
  ASSUME WInv, TypeOK', Family, sys_wait \/ sys_wait_woken
  PROVE  /\ Family'
         /\ halted' => \E s \in Sems : sem_p_blocks(s, "wait") /\ free_nodes = 0
<1>0. /\ SInv /\ CtxArg
      /\ in_user \/ resumes("wait") \/ resumes("semp") \/ resumes("read") \/ resumes("getchar")
  BY DEF WInv, Waits, sys_wait, sys_wait_woken
<1>1. /\ SInv /\ TypeOK /\ curr \in Procs /\ status[curr] = "RUNNING" /\ CtxArg
      /\ curr \in Sems /\ zombie_sem(curr) = curr /\ curr # NULL
      /\ live(curr) /\ value[curr] \in Int
  <2>1. /\ TypeOK /\ curr \in Procs /\ status[curr] = "RUNNING"
    BY <1>0, UserStep
  <2>2. curr \in Sems /\ zombie_sem(curr) = curr /\ curr # NULL
    BY <2>1, SemTypes, SemKinds, ZeroIsProc
  <2>3. live(curr) /\ value[curr] \in Int
    BY <2>1, <2>2 DEF TypeOK, live
  <2> QED
    BY <1>0, <2>1, <2>2, <2>3
<1>2. CASE sys_wait_woken
  <2>1. /\ sem_arg[curr] = curr /\ reap
        /\ sem_arg' = [sem_arg EXCEPT ![curr] = NULL]
        /\ UNCHANGED <<curr, parent, value>>
    BY <1>1, <1>2 DEF sys_wait_woken, resumes, CtxArg
  <2>2. sem_arg'[curr] = NULL /\ \A p \in Procs \ {curr} : sem_arg'[p] = sem_arg[p]
    BY <1>1, <2>1 DEF TypeOK
  <2>3. credit(curr) > 0 /\ credit(curr)' = credit(curr) - 1
    BY <1>1, <2>1, <2>2 DEF credit, woken
  <2> QED
    BY <1>1, <2>1, <2>2, <2>3, ReapFamily
<1>3. CASE sys_wait
  <2>1. sem_arg[curr] = NULL /\ ~halted
    BY <1>1, <1>3 DEF sys_wait, in_user, CtxArg
  <2>2. CASE UNCHANGED vars
    BY <1>1, <2>1, <2>2, QuietFamily DEF vars, woken
  <2>3. CASE /\ sem_p_takes(zombie_sem(curr)) /\ reap
             /\ UNCHANGED <<curr, ctx, sem_arg, sleep, parent, usems, ref, tick>>
    <3>1. value[curr] > 0 /\ value' = [value EXCEPT ![curr] = @ - 1]
      BY <1>1, <2>3 DEF sem_p_takes
    <3>2. /\ value'[curr] = value[curr] - 1
          /\ \A p \in Procs \ {curr} : value'[p] = value[p]
      BY <1>1, <3>1, SemTypes, ZeroIsProc DEF TypeOK
    <3>3. credit(curr) > 0 /\ credit(curr)' = credit(curr) - 1
      BY <1>1, <2>1, <2>3, <3>1, <3>2 DEF credit, woken
    <3> QED
      BY <1>1, <2>3, <3>2, <3>3, ReapFamily
  <2>4. CASE /\ sem_p_blocks(zombie_sem(curr), "wait")
             /\ UNCHANGED <<sleep, parent, child_num, usems, ref, tick>>
    <3>1. "wait" \in Ctx /\ in_user
      BY <1>3 DEF Ctx, sys_wait
    <3>2. /\ status'[curr] = "BLOCKED" /\ halted' = (free_nodes = 0)
          /\ \A p \in Procs \ {curr} : SameLife(p, status)
      BY <1>1, <2>4, <3>1, BlockEffect
    <3>3. /\ sem_arg' = [sem_arg EXCEPT ![curr] = curr]
          /\ value' = [value EXCEPT ![curr] = @ - 1] /\ value[curr] <= 0
      BY <1>1, <2>4 DEF sem_p_blocks
    <3>4. /\ value'[curr] = value[curr] - 1
          /\ \A p \in Procs \ {curr} : /\ value'[p] = value[p]
                                       /\ sem_arg'[p] = sem_arg[p]
      BY <1>1, <3>3, SemTypes, ZeroIsProc DEF TypeOK
    <3>5. \A p \in Procs : p = curr => credit(p)' = 0 /\ credit(p) = 0
      BY <1>1, <2>1, <3>2, <3>3, <3>4 DEF credit, woken
    <3>6. \A p \in Procs \ {curr} : credit(p)' = credit(p)
      BY <1>1, <3>2, <3>4 DEF credit, woken, SameLife, TypeOK, Status
    <3>7. \A p \in Procs : /\ status'[p] = "ZOMBIE" <=> status[p] = "ZOMBIE"
                           /\ status'[p] = "UNUSED" <=> status[p] = "UNUSED"
      BY <1>1, <3>2 DEF SameLife
    <3>8. Family'
      BY <1>1, <2>4, <3>5, <3>6, <3>7, KeptFamily
    <3> QED
      BY <1>1, <2>4, <3>2, <3>8
  <2> QED
    BY <1>3, <2>2, <2>3, <2>4 DEF sys_wait
<1> QED
  BY <1>2, <1>3

\* What sys_exit does to its parent's semaphore: one credit more, as a unit or
\* as a wake-up, and never a NULL to proc_addready.
LEMMA ExitCredit ==
  ASSUME WInv, KernelCounted, sys_exit
  PROVE  /\ halted' = FALSE
         /\ \A q \in Procs \ {curr} : live(q) =>
              credit(q)' = IF q = parent[curr] THEN credit(q) + 1 ELSE credit(q)
<1> DEFINE p == parent[curr]
           dead == [status EXCEPT ![curr] = "ZOMBIE"]
<1>1. /\ SInv /\ TypeOK /\ curr \in Procs /\ CtxArg /\ WaitersBlocked
      /\ WaitersDistinct /\ UNCHANGED sem_arg
  BY UserStep DEF WInv, Waits, Sched, sys_exit
<1>2. /\ dead \in [Procs -> Status]
      /\ \A q \in Procs \ {curr} : dead[q] = status[q]
  BY <1>1, ExitEffect
<1>3. CASE p = NULL
  <2>1. /\ halted' = FALSE /\ UNCHANGED value
        /\ \A q \in Procs : SameLife(q, dead)
    BY <1>1, <1>3, ExitEffect, SemTypes
  <2>2. TypeOK'
    BY <1>1, ExitType
  <2> HIDE DEF dead
  <2>3. \A q \in Procs \ {curr} : credit(q)' = credit(q)
    BY <1>1, <1>2, <2>1, <2>2 DEF credit, woken, SameLife, TypeOK, Status
  <2> QED
    BY <1>3, <2>1, <2>3, SemTypes
<1>4. CASE p # NULL
  <2>1. /\ p \in Procs /\ p \in Sems /\ zombie_sem(p) = p
        /\ sem_v(p) /\ halted' = sem_v_faults(p)
        /\ \A q \in Procs : SameLife(q, sem_v_status(p, dead))
    BY <1>1, <1>4, ExitEffect, ZeroIsProc
  <2>2. Counted(p) /\ value[p] \in Int /\ wait_list[p] \in Seq(Procs)
    BY <1>1, <2>1, SemKinds DEF KernelCounted, TypeOK
  <2>3. ~sem_v_faults(p)
    BY <1>1, <2>1, <2>2, CountedV
  <2>4. halted' = FALSE
    BY <2>1, <2>3 DEF sem_v_faults
  <2>5. TypeOK'
    BY <1>1, ExitType
  <2> HIDE DEF dead, p
  <2>6. /\ value'[p] = value[p] + 1
        /\ \A q \in Procs : q # p => value'[q] = value[q]
    BY <1>1, <2>1, SemTypes, ZeroIsProc DEF sem_v, TypeOK
  <2>7. ASSUME sem_v_status(p, dead) = dead, ~ (wakes(p) /\ wait_list[p] # <<>>)
        PROVE  \A q \in Procs \ {curr} :
                 credit(q)' = IF q = p THEN credit(q) + 1 ELSE credit(q)
    <3>1. value[p] >= 0
      BY <2>2, <2>3, <2>7 DEF wakes, sem_v_faults
    <3>2. \A q \in Procs \ {curr} : woken(q, q)' <=> woken(q, q)
      BY <1>1, <1>2, <2>1, <2>5, <2>7 DEF woken, SameLife, TypeOK, Status
    <3> QED
      BY <2>2, <2>6, <3>1, <3>2 DEF credit
  <2>8. ASSUME NEW h \in Procs, wakes(p), status[h] = "BLOCKED", sem_arg[h] = p,
               sem_v_status(p, dead) = [dead EXCEPT ![h] = "READY"]
        PROVE  \A q \in Procs \ {curr} :
                 credit(q)' = IF q = p THEN credit(q) + 1 ELSE credit(q)
    <3>1. h = p
      BY <1>1, <2>1, <2>8, ArgKind, SemKinds
    <3>2. value[p] < 0
      BY <2>2, <2>8 DEF wakes
    <3>3. \A q \in Procs \ {curr} :
            /\ q # p => (woken(q, q)' <=> woken(q, q))
            /\ q = p => ~woken(q, q) /\ woken(q, q)'
      <4> DEFINE st == sem_v_status(p, dead)
      <4>1. /\ st[p] = "READY" /\ \A q \in Procs \ {curr, p} : st[q] = status[q]
            /\ \A q \in Procs : SameLife(q, st)
        BY <1>2, <2>1, <2>8, <3>1
      <4> HIDE DEF st
      <4>2. /\ \A q \in Procs : status'[q] \in Status /\ status[q] \in Status
            /\ p \in Procs
        BY <1>1, <2>1, <2>5 DEF TypeOK
      <4>3. /\ \A q \in Procs \ {curr, p} :
                 status'[q] \in {"READY", "RUNNING"}
                   <=> status[q] \in {"READY", "RUNNING"}
            /\ status'[p] \in {"READY", "RUNNING"}
        BY <4>1, <4>2 DEF SameLife, Status
      <4> QED
        BY <1>1, <2>1, <2>8, <3>1, <4>3 DEF woken
    <3> QED
      BY <2>2, <2>6, <3>2, <3>3 DEF credit
  <2>9. \A q \in Procs \ {curr} :
          credit(q)' = IF q = p THEN credit(q) + 1 ELSE credit(q)
    BY <1>1, <2>1, <2>7, <2>8, VEffect
  <2> QED
    BY <2>4, <2>9 DEF p
<1> QED
  BY <1>3, <1>4

\* The zombie that sys_exit leaves is counted by its parent and by nobody else,
\* and the children it leaves have no parent any more.
LEMMA ExitFamily ==
  ASSUME WInv, KernelCounted, TypeOK', Family, sys_exit PROVE Family'
<1>1. /\ SInv /\ TypeOK /\ curr \in Procs /\ status[curr] = "RUNNING"
      /\ ParentIsAlive
  BY UserStep DEF WInv, sys_exit, Family
<1>2. /\ \A q \in Procs : q = curr => status'[q] = "ZOMBIE" /\ ~live(q)'
      /\ \A q \in Procs : q # curr =>
           /\ live(q)' <=> live(q)
           /\ status'[q] = "ZOMBIE" <=> status[q] = "ZOMBIE"
           /\ status'[q] = "UNUSED" <=> status[q] = "UNUSED"
  BY <1>1, ExitLife DEF live
<1>3. /\ \A q \in Procs : parent'[q] = IF parent[q] = curr THEN NULL ELSE parent[q]
      /\ child_num' = child_num
  BY DEF sys_exit, orphan_children
<1>4. \A p \in Procs : p # curr =>
        /\ kids(p)' = kids(p)
        /\ zombies(p)' = IF p = parent[curr] THEN zombies(p) \cup {curr}
                         ELSE zombies(p)
        /\ curr \notin zombies(p)
  <2>1. \A p \in Procs : p # curr => \A q \in Procs : parent'[q] = p <=> parent[q] = p
    BY <1>3, SemKinds
  <2>2. \A q \in Procs : status'[q] # "UNUSED" <=> status[q] # "UNUSED"
    BY <1>1, <1>2
  <2>3. \A q \in Procs : status'[q] = "ZOMBIE" <=> status[q] = "ZOMBIE" \/ q = curr
    BY <1>2
  <2> QED
    BY <1>1, <2>1, <2>2, <2>3 DEF kids, zombies
<1>5. ParentIsAlive'
  <2> SUFFICES ASSUME NEW q \in Procs, status'[q] # "UNUSED", parent'[q] # NULL
               PROVE  \E p \in Procs : p = parent'[q] /\ live(p)'
    BY DEF ParentIsAlive, live
  <2>1. /\ parent[q] \in Procs /\ live(parent[q]) /\ parent'[q] = parent[q]
        /\ parent[q] # curr
    BY <1>1, <1>2, <1>3 DEF ParentIsAlive, TypeOK
  <2>2. PICK p \in Procs : p = parent[q]
    BY <2>1
  <2> QED
    BY <1>2, <2>1, <2>2
<1>6. Children'
  BY <1>2, <1>3, <1>4 DEF Family, Children
<1>7. Credits'
  <2> SUFFICES ASSUME NEW p \in Procs, live(p)'
               PROVE  Cardinality(zombies(p)') = credit(p)'
    BY DEF Credits
  <2>1. p # curr /\ live(p) /\ Cardinality(zombies(p)) = credit(p)
    BY <1>2 DEF Family, Credits
  <2>2. credit(p)' = IF p = parent[curr] THEN credit(p) + 1 ELSE credit(p)
    BY <2>1, ExitCredit
  <2>3. Cardinality(zombies(p) \cup {curr}) = Cardinality(zombies(p)) + 1
    BY <1>4, <2>1, FamilyFinite, FS_AddElement
  <2> QED
    BY <1>4, <2>1, <2>2, <2>3
<1> QED
  BY <1>5, <1>6, <1>7 DEF Family

LEMMA InitFamily == Init => KernelCounted /\ Family
<1> SUFFICES ASSUME Init PROVE KernelCounted /\ Family
  OBVIOUS
<1>1. KernelCounted
  BY InitCounted DEF KernelCounted
<1>2. \A p \in Procs : kids(p) = {} /\ zombies(p) = {} /\ child_num[p] = 0
  BY SemKinds DEF Init, kids, zombies
<1>3. \A p \in Procs : credit(p) = 0
  BY SemKinds, SemTypes, ZeroIsProc DEF Init, credit, woken
<1>4. ParentIsAlive
  BY DEF Init, ParentIsAlive
<1> QED
  BY <1>1, <1>2, <1>3, <1>4, FS_EmptySet DEF Family, Children, Credits

\* The calls on user semaphores do not concern the family.
LEMMA UsemFamily ==
  ASSUME WInv, TypeOK', Family, NEW i \in Fds,
         sys_sem_p(i) \/ sys_sem_v(i) \/ sys_sem_close(i) \/ sys_sem_bad(i)
  PROVE  Family'
<1> DEFINE s == usems[curr][i]
<1>1. TypeOK /\ curr \in Procs
  BY DEF WInv, SInv, TypeOK
<1>2. s # NULL => s \in Sems \ Procs
  BY <1>1, SemTypes, SemKinds DEF TypeOK
<1>3. CASE sys_sem_close(i) \/ sys_sem_bad(i)
  <2>1. UNCHANGED <<status, sem_arg, parent, child_num, value>>
    BY <1>3 DEF sys_sem_close, sys_sem_bad, vars
  <2> QED
    BY <1>1, <2>1, QuietFamily DEF woken
<1>4. CASE sys_sem_p(i)
  <2>1. in_user /\ s \in Sems \ Procs /\ UNCHANGED <<parent, child_num>>
    BY <1>2, <1>4 DEF sys_sem_p
  <2>2. CASE sem_p_takes(s) /\ UNCHANGED <<curr, status, ctx, sem_arg, halted>>
    <3>1. value' = [value EXCEPT ![s] = value[s] - 1]
      BY <2>2 DEF sem_p_takes
    <3> QED
      BY <1>1, <2>1, <2>2, <3>1, ValueElsewhere, QuietFamily DEF woken
  <2>3. CASE sem_p_blocks(s, "semp")
    <3>1. "semp" \in Ctx
      BY DEF Ctx
    <3> QED
      BY <2>1, <2>3, <3>1, BlockFamily
  <2> QED
    BY <1>4, <2>2, <2>3 DEF sys_sem_p
<1>5. CASE sys_sem_v(i)
  <2>1. /\ s \in Sems \ Procs /\ sem_v(s) /\ status' = sem_v_status(s, status)
        /\ UNCHANGED <<sem_arg, parent, child_num>>
    BY <1>2, <1>5 DEF sys_sem_v
  <2> QED
    BY <2>1, VFamily
<1> QED
  BY <1>3, <1>4, <1>5

LEMMA OpenFamily ==
  ASSUME WInv, TypeOK', Family, NEW v \in InitValues, sys_sem_open(v)
  PROVE  Family'
<1>1. TypeOK
  BY DEF WInv, SInv
<1>2. CASE UNCHANGED vars
  BY <1>1, <1>2, QuietFamily DEF vars, woken
<1>3. CASE ~ UNCHANGED vars
  <2>1. PICK u \in user_sem : /\ value' = [value EXCEPT ![u] = v]
                              /\ UNCHANGED <<status, sem_arg, parent, child_num>>
    BY <1>3, OpenEffect
  <2>2. u \in Sems \ Procs
    BY SemTypes, SemKinds
  <2> QED
    BY <1>1, <2>1, <2>2, ValueElsewhere, QuietFamily DEF woken
<1> QED
  BY <1>2, <1>3

LEMMA NextFamily == FInv /\ [Next]_vars => FInv'
<1> SUFFICES ASSUME FInv, [Next]_vars PROVE FInv'
  OBVIOUS
<1>1. WInv /\ SInv /\ TypeOK /\ KernelCounted /\ Family /\ WInv' /\ TypeOK'
  BY NextWait DEF FInv, WInv, SInv
<1>2. KernelCounted'
  BY <1>1, NextCounted DEF KernelCounted
<1>3. Family'
  <2>1. CASE UNCHANGED vars
    BY <1>1, <2>1, QuietFamily DEF vars, woken
  <2>2. CASE sys_sem_p_woken
    <3>1. /\ resumes("semp") /\ sem_arg' = [sem_arg EXCEPT ![curr] = NULL]
          /\ UNCHANGED <<status, parent, child_num, value>>
      BY <2>2 DEF sys_sem_p_woken
    <3> QED
      BY <1>1, <3>1, WokenFamily
  <2> QED
    BY <1>1, <2>1, <2>2, TimerFamily, ForkFamily, ExitFamily, WaitFamily,
       OpenFamily, UsemFamily
    DEF Next, Kernel, Syscall
<1> QED
  BY <1>1, <1>2, <1>3 DEF FInv

LEMMA FamilyOf == FInv => FamilyAgrees
<1> SUFFICES ASSUME FInv PROVE FamilyAgrees
  OBVIOUS
<1>1. \A p \in Procs : zombie_sem(p) = p
  BY ZeroIsProc
<1> QED
  BY <1>1
  DEF FInv, Family, FamilyAgrees, ChildNumCounts, ZombieCredits, Children,
      Credits, credit, kids

\* Parents and children agree after every step of any number of processes,
\* whatever values sem_open is given: no child points to a parent that is gone
\* or whose PCB another process has now, child_num is the number of children
\* sys_wait can still collect, and the units of zombie_sem, with the wake-up
\* that may be on its way, are the zombies there are.
THEOREM FamiliesAgree == Spec => []FamilyAgrees
<1>1. Init => FInv
  BY InitWait, InitFamily DEF FInv
<1> QED
  BY <1>1, NextFamily, FamilyOf, PTL DEF Spec

-----------------------------------------------------------------------------
(***************************************************************************)
(* The kernel does not stop.                                               *)
(***************************************************************************)

\* There are fewer list nodes in use than processes that can sleep: each node
\* has its own process, and neither curr nor the kernel process sleeps.
LEMMA SleepersBound ==
  ASSUME WInv, in_user \/ resumes("read")
  PROVE  Cardinality(queued) <= PROC_NUM - 2
<1> DEFINE T == Procs \ {0, curr}
           f == [n \in queued |-> wait_list[n[1]][n[2]]]
<1>1. /\ TypeOK /\ WaitersBlocked /\ WaitersDistinct /\ IsFiniteSet(queued)
      /\ curr \in Procs /\ curr # 0 /\ 0 \in Procs
      /\ status[curr] = "RUNNING" /\ status[0] = "READY"
  BY UserStep DEF WInv, Sched, SInv, Waits, FiniteNodes
<1>2. IsFiniteSet(T) /\ Cardinality(T) = PROC_NUM - 2
  <2>1. IsFiniteSet(Procs) /\ Cardinality(Procs) = PROC_NUM
    BY FS_Interval, ProcAssumption DEF Procs
  <2>2. IsFiniteSet({0, curr}) /\ Cardinality({0, curr}) = 2
    <3>1. /\ IsFiniteSet({0}) /\ Cardinality({0}) = 1
          /\ curr \notin {0} /\ {0, curr} = {0} \cup {curr}
      BY <1>1, FS_Singleton
    <3>2. IsFiniteSet({0} \cup {curr}) /\ Cardinality({0} \cup {curr}) = 2
      BY <3>1, FS_AddElement
    <3> QED
      BY <3>1, <3>2
  <2>3. {0, curr} \subseteq Procs
    BY <1>1
  <2> QED
    BY <2>1, <2>2, <2>3, TakenOut
<1>3. \A n \in queued : /\ n[1] \in Sems /\ n[2] \in 1 .. Len(wait_list[n[1]])
                        /\ n = <<n[1], n[2]>>
  <2>1. queued = {n \in Sems \X Int : n[2] \in 1 .. Len(wait_list[n[1]])}
    BY NodesOfIs DEF queued, NodesOf
  <2> QED
    BY <2>1
<1>4. f \in [queued -> T]
  <2>1. \A n \in queued : wait_list[n[1]][n[2]] \in Procs
    BY <1>1, <1>3, WaiterIsProc
  <2>2. \A n \in queued : wait_list[n[1]][n[2]] \notin {0, curr}
    BY <1>1, <1>3 DEF WaitersBlocked
  <2> QED
    BY <2>1, <2>2
<1>5. \A m, n \in queued : f[m] = f[n] => m = n
  <2> SUFFICES ASSUME NEW m \in queued, NEW n \in queued,
                      wait_list[m[1]][m[2]] = wait_list[n[1]][n[2]]
               PROVE  m = n
    OBVIOUS
  <2>1. m[1] = n[1]
    BY <1>1, <1>3 DEF WaitersBlocked
  <2>2. m[2] = n[2]
    BY <1>1, <1>3, <2>1 DEF WaitersDistinct
  <2> QED
    BY <1>3, <2>1, <2>2
<1> HIDE DEF f, T
<1>6. ~ (Cardinality(T) < Cardinality(queued))
  BY <1>1, <1>2, <1>4, <1>5, FS_PigeonHole
<1>7. Cardinality(queued) \in Nat
  BY <1>1, FS_CardinalityType
<1> QED
  BY <1>2, <1>6, <1>7, ProcAssumption

LEMMA NodeLeft ==
  ASSUME WInv, in_user \/ resumes("read"), LIST_NUM >= PROC_NUM - 1
  PROVE  free_nodes > 0
<1>1. /\ Cardinality(queued) <= PROC_NUM - 2
      /\ Cardinality(queued) \in Nat /\ free_nodes \in Int
      /\ free_nodes + Cardinality(queued) = LIST_NUM
  BY SleepersBound, FS_CardinalityType
  DEF WInv, SInv, TypeOK, Waits, FiniteNodes, NodesConserved
<1> QED
  BY <1>1, ProcAssumption

LEMMA NextGoesOn ==
  ASSUME FInv, \A s \in Sems : Counted(s), LIST_NUM >= PROC_NUM - 1,
         ~halted, [Next]_vars
  PROVE  ~halted'
<1>1. WInv /\ SInv /\ TypeOK /\ KernelCounted /\ Family /\ TypeOK' /\ curr \in Procs
  BY NextWait DEF FInv, WInv, SInv, TypeOK
<1>2. CASE UNCHANGED halted
  BY <1>2
<1>3. CASE timer_handle \/ sys_yield \/ sys_sleep_again
             \/ \E n \in SleepTicks : sys_sleep(n)
  BY <1>1, <1>3, TimerEffect
<1>4. CASE sys_exit
  BY <1>1, <1>4, ExitCredit
<1>5. CASE sys_wait
  BY <1>1, <1>5, WaitFamily, NodeLeft DEF sys_wait
<1>6. CASE sys_wait_woken
  <2>1. ASSUME NEW s \in Sems, sem_p_blocks(s, "wait"), sys_wait_woken
        PROVE  FALSE
    <3>1. ctx[curr] = "wait" /\ ctx'[curr] = "wait" /\ ctx'[curr] = "user"
      BY <1>1, <2>1 DEF sem_p_blocks, sys_wait_woken, resumes, TypeOK
    <3> QED
      BY <3>1
  <2> QED
    BY <1>1, <1>6, <2>1, WaitFamily
<1>7. ASSUME NEW i \in Fds, sys_sem_p(i) \/ sys_sem_v(i) PROVE ~halted'
  <2> DEFINE s == usems[curr][i]
  <2>1. s \in Sems /\ in_user
    BY <1>1, <1>7, SemTypes DEF sys_sem_p, sys_sem_v, TypeOK
  <2>2. CASE sys_sem_v(i)
    <3>1. halted' = sem_v_faults(s)
      BY <2>2 DEF sys_sem_v
    <3>2. ~sem_v_faults(s)
      BY <1>1, <2>1, CountedV
    <3> QED
      BY <3>1, <3>2
  <2>3. CASE sem_p_blocks(s, "semp")
    <3>1. "semp" \in Ctx
      BY DEF Ctx
    <3>2. halted' = (free_nodes = 0)
      BY <1>1, <2>1, <2>3, <3>1, BlockEffect
    <3>3. free_nodes > 0 /\ free_nodes \in Int
      BY <1>1, <2>1, NodeLeft DEF TypeOK
    <3>4. ~ (free_nodes = 0)
      BY <3>3
    <3> QED
      BY <3>2, <3>4, Zenon
  <2> QED
    BY <1>2, <1>7, <2>2, <2>3 DEF sys_sem_p
<1>8. CASE \/ sys_fork \/ sys_sem_p_woken \/ UNCHANGED vars
           \/ \E v \in InitValues : sys_sem_open(v)
           \/ \E i \in Fds : sys_sem_close(i) \/ sys_sem_bad(i)
  BY <1>2, <1>8
  DEF sys_fork, sys_sem_p_woken, sys_sem_open, sys_sem_close, sys_sem_bad, vars
<1> QED
  BY <1>3, <1>4, <1>5, <1>6, <1>7, <1>8 DEF Next, Kernel, Syscall

\* No assertion of the kernel fails, no V readies NULL and no scan is endless,
\* for any number of processes and semaphores.  Two things are needed: no
\* program opens a semaphore with a negative value - a V on one would ready
\* NULL - and there is a list node for every process that can sleep while
\* another one runs; list.c has 256 nodes, proc.c 64 PCBs.
THEOREM KernelGoesOn ==
  ASSUME InitValues \subseteq Nat, LIST_NUM >= PROC_NUM - 1
  PROVE  Spec => []NeverHalts
<1> DEFINE GInv == FInv /\ (\A s \in Sems : Counted(s)) /\ ~halted
<1>1. Init => GInv
  BY InitWait, InitFamily, InitCounted DEF FInv, Init
<1>2. GInv /\ [Next]_vars => GInv'
  <2> SUFFICES ASSUME GInv, [Next]_vars PROVE GInv'
    OBVIOUS
  <2>1. FInv' /\ WInv
    BY NextFamily DEF FInv
  <2>2. \A s \in Sems : Counted(s)'
    BY <2>1, NextCounted
  <2>3. ~halted'
    BY NextGoesOn
  <2> QED
    BY <2>1, <2>2, <2>3
<1>3. GInv => NeverHalts
  BY DEF NeverHalts
<1> HIDE DEF GInv
<1> QED
  BY <1>1, <1>2, <1>3, PTL DEF Spec
=============================================================================
