---------------------------- MODULE ProcSemProof ----------------------------
(***************************************************************************)
(* Proof that the semaphores of the kernel implement CountingSem.  The     *)
(* refinement needs to know where the units are that the callers have not  *)
(* got yet: in the value of the semaphore, or with a process that a V has  *)
(* taken off the wait list and that has not yet returned from its sem_p.   *)
(***************************************************************************)
EXTENDS ProcProof, ProcSem

\* The processes with a unit of s on its way to them.
onway(s) == {p \in Procs : woken(p, s)}

inhand(s) == IF value[s] > 0 THEN value[s] ELSE 0

UnitsType == units \in [Sems -> Int]
UnitsExact == \A s \in Sems : units[s] = inhand(s) + Cardinality(onway(s))

HInv ==
  /\ WInv /\ \A s \in Sems : Counted(s)
  /\ UnitsType /\ UnitsExact

-----------------------------------------------------------------------------
(***************************************************************************)
(* What the operations of a semaphore do to the units.                     *)
(***************************************************************************)

LEMMA OnwayFinite ==
  \A s : IsFiniteSet(onway(s)) /\ Cardinality(onway(s)) \in Nat
  BY HoldersFinite, FS_Subset, FS_CardinalityType DEF onway

LEMMA InHandType == ASSUME TypeOK PROVE \A s \in Sems : inhand(s) \in Nat
  BY DEF TypeOK, inhand

\* Nobody is woken and nobody comes back.
LEMMA OnwayKept ==
  ASSUME NEW t, \A p \in Procs : woken(p, t)' <=> woken(p, t)
  PROVE  onway(t)' = onway(t)
  BY DEF onway

LEMMA QuietUnits ==
  ASSUME UnitsExact, UnitsType, UNCHANGED <<units, value>>,
         \A t \in Sems : \A p \in Procs : woken(p, t)' <=> woken(p, t)
  PROVE  UnitsExact' /\ UnitsType'
<1>1. \A t \in Sems : onway(t)' = onway(t)
  BY OnwayKept
<1> QED
  BY <1>1 DEF UnitsExact, UnitsType, inhand

\* sem_init of a semaphore that nobody waits for.
LEMMA CreateUnits ==
  ASSUME TypeOK, UnitsExact, UnitsType, NEW s \in Sems, NEW v \in Nat,
         value' = [value EXCEPT ![s] = v], units' = [units EXCEPT ![s] = v],
         \A p \in Procs : sem_arg[p] # s, sem_arg' = sem_arg,
         \A t \in Sems : \A p \in Procs : woken(p, t)' <=> woken(p, t)
  PROVE  UnitsExact' /\ UnitsType'
<1>1. \A t \in Sems : onway(t)' = onway(t)
  BY OnwayKept
<1>2. onway(s)' = {}
  BY DEF onway, woken
<1>3. /\ value'[s] = v /\ units'[s] = v
      /\ \A t \in Sems \ {s} : value'[t] = value[t] /\ units'[t] = units[t]
      /\ UnitsType'
  BY DEF TypeOK, UnitsType
<1>4. units'[s] = inhand(s)' + Cardinality(onway(s)')
  BY <1>2, <1>3, FS_EmptySet DEF inhand
<1> QED
  BY <1>1, <1>3, <1>4 DEF UnitsExact, inhand

\* sem_p that finds a unit.
LEMMA TakeUnits ==
  ASSUME TypeOK, UnitsExact, UnitsType, NEW s \in Sems, sem_p_takes(s), take(s),
         \A t \in Sems : \A p \in Procs : woken(p, t)' <=> woken(p, t)
  PROVE  UnitsExact' /\ UnitsType' /\ units[s] > 0
<1>1. \A t \in Sems : onway(t)' = onway(t)
  BY OnwayKept
<1>2. /\ value[s] \in Int /\ value[s] > 0
      /\ value'[s] = value[s] - 1 /\ units'[s] = units[s] - 1
      /\ \A t \in Sems \ {s} : value'[t] = value[t] /\ units'[t] = units[t]
      /\ UnitsType'
  BY DEF TypeOK, UnitsType, sem_p_takes, take
<1>3. /\ units[s] = inhand(s) + Cardinality(onway(s))
      /\ inhand(s) = value[s] /\ inhand(s)' = value[s] - 1
      /\ Cardinality(onway(s)) \in Nat
  BY <1>2, OnwayFinite DEF UnitsExact, inhand
<1>4. \A t \in Sems \ {s} : inhand(t)' = inhand(t)
  BY <1>2 DEF inhand
<1> QED
  BY <1>1, <1>2, <1>3, <1>4 DEF UnitsExact

\* sem_p that waits: there was no unit, and there is none more or less.
LEMMA BlockUnits ==
  ASSUME WInv, TypeOK', UnitsExact, UnitsType, in_user, NEW s \in Sems,
         NEW c \in Ctx, sem_p_blocks(s, c), UNCHANGED units
  PROVE  UnitsExact' /\ UnitsType'
<1>1. /\ SInv /\ TypeOK /\ curr \in Procs /\ status[curr] = "RUNNING"
      /\ sem_arg[curr] = NULL /\ value[s] \in Int
  BY UserStep DEF WInv, Waits, CtxArg, in_user, TypeOK
<1>2. /\ status'[curr] = "BLOCKED"
      /\ \A p \in Procs \ {curr} : SameLife(p, status)
  BY <1>1, BlockEffect
<1>3. /\ \A p \in Procs \ {curr} : sem_arg'[p] = sem_arg[p]
      /\ value[s] <= 0 /\ value'[s] = value[s] - 1
      /\ \A t \in Sems \ {s} : value'[t] = value[t]
  BY <1>1 DEF TypeOK, sem_p_blocks
<1>4. \A t \in Sems : onway(t)' = onway(t)
  <2>1. \A p \in Procs \ {curr} :
          status'[p] \in {"READY", "RUNNING"} <=> status[p] \in {"READY", "RUNNING"}
    BY <1>1, <1>2 DEF SameLife, TypeOK, Status
  <2>2. \A t \in Sems : t # NULL
    BY SemKinds, SemTypes
  <2>3. \A t \in Sems : \A p \in Procs : woken(p, t)' <=> woken(p, t)
    BY <1>1, <1>2, <1>3, <2>1, <2>2 DEF woken
  <2> QED
    BY <2>3, OnwayKept
<1>5. \A t \in Sems : inhand(t)' = inhand(t)
  BY <1>1, <1>3 DEF inhand
<1> QED
  BY <1>4, <1>5 DEF UnitsExact, UnitsType

\* sem_v: the new unit is in the value, or with the waiter that was taken off
\* the list.
LEMMA GiveUnits ==
  ASSUME WInv, TypeOK', UnitsExact, UnitsType, NEW s \in Sems, Counted(s),
         sem_v(s), give(s), NEW st \in [Procs -> Status], sem_arg' = sem_arg,
         \A p \in Procs : sem_arg[p] # NULL => st[p] = status[p],
         \A p \in Procs : SameLife(p, sem_v_status(s, st))
  PROVE  UnitsExact' /\ UnitsType'
<1>1. /\ TypeOK /\ WaitersBlocked /\ value[s] \in Int
      /\ \A p \in Procs : status'[p] \in Status /\ status[p] \in Status
      /\ \A t \in Sems : t # NULL
  <2>1. TypeOK /\ WaitersBlocked
    BY DEF WInv, SInv, Sched
  <2>2. /\ value[s] \in Int
        /\ \A p \in Procs : status'[p] \in Status /\ status[p] \in Status
    BY <2>1 DEF TypeOK
  <2> QED
    BY <2>1, <2>2, SemKinds, SemTypes
<1>2. /\ value'[s] = value[s] + 1 /\ units'[s] = units[s] + 1
      /\ \A t \in Sems \ {s} : value'[t] = value[t] /\ units'[t] = units[t]
      /\ UnitsType'
  <2>1. value \in [Sems -> Int] /\ value' = [value EXCEPT ![s] = @ + 1]
    BY <1>1 DEF TypeOK, sem_v
  <2> QED
    BY <2>1 DEF UnitsType, give
<1>3. ~sem_v_faults(s)
  BY <1>1, CountedV
<1>4. /\ \A t \in Sems \ {s} : inhand(t)' = inhand(t)
      /\ \A t \in Sems : /\ units[t] = inhand(t) + Cardinality(onway(t))
                         /\ Cardinality(onway(t)) \in Nat /\ inhand(t) \in Nat
  BY <1>1, <1>2, OnwayFinite, InHandType DEF inhand, UnitsExact
<1>5. CASE ~ (wakes(s) /\ wait_list[s] # <<>>) /\ sem_v_status(s, st) = st
  <2>1. inhand(s)' = inhand(s) + 1
    BY <1>1, <1>2, <1>3, <1>5 DEF inhand, wakes, sem_v_faults
  <2>2. \A t \in Sems : \A p \in Procs : woken(p, t)' <=> woken(p, t)
    BY <1>1, <1>5 DEF woken, SameLife, Status
  <2>3. \A t \in Sems : onway(t)' = onway(t)
    BY <2>2, OnwayKept
  <2> QED
    BY <1>2, <1>4, <2>1, <2>3 DEF UnitsExact
<1>6. ASSUME NEW h \in Procs, wakes(s), status[h] = "BLOCKED", sem_arg[h] = s,
             sem_v_status(s, st) = [st EXCEPT ![h] = "READY"]
      PROVE  UnitsExact' /\ UnitsType'
  <2> DEFINE sv == sem_v_status(s, st)
  <2>1. sv[h] = "READY" /\ \A p \in Procs \ {h} : sv[p] = st[p]
    BY <1>6
  <2>2. \A p \in Procs : SameLife(p, sv)
    OBVIOUS
  <2> HIDE DEF sv
  <2>3. \A t \in Sems : \A p \in Procs \ {h} : woken(p, t)' <=> woken(p, t)
    BY <1>1, <2>1, <2>2 DEF woken, SameLife, Status
  <2>4. status'[h] \in {"READY", "RUNNING"}
    BY <1>1, <2>1, <2>2 DEF SameLife, Status
  <2>5. \A t \in Sems \ {s} : onway(t)' = onway(t)
    <3>1. \A t \in Sems \ {s} : \A p \in Procs : woken(p, t)' <=> woken(p, t)
      BY <1>6, <2>3 DEF woken
    <3> QED
      BY <3>1, OnwayKept
  <2>6. onway(s)' = onway(s) \cup {h} /\ h \notin onway(s)
    BY <1>6, <2>3, <2>4 DEF onway, woken
  <2>7. Cardinality(onway(s) \cup {h}) = Cardinality(onway(s)) + 1
    BY <2>6, OnwayFinite, FS_AddElement
  <2>8. inhand(s)' = inhand(s)
    BY <1>1, <1>2, <1>6 DEF inhand, wakes
  <2>9. units'[s] = inhand(s)' + Cardinality(onway(s)')
    BY <1>2, <1>4, <2>6, <2>7, <2>8
  <2> QED
    BY <1>2, <1>4, <2>5, <2>9 DEF UnitsExact
<1> QED
  BY <1>1, <1>5, <1>6, VEffect

\* sem_p that comes back after a V.
LEMMA ComeBackUnits ==
  ASSUME TypeOK, UnitsExact, UnitsType, NEW s \in Sems, woken(curr, s), take(s),
         UNCHANGED value, sem_arg' = [sem_arg EXCEPT ![curr] = NULL],
         \A p \in Procs : status'[p] \in {"READY", "RUNNING"}
                            <=> status[p] \in {"READY", "RUNNING"}
  PROVE  UnitsExact' /\ UnitsType' /\ units[s] > 0
<1>1. /\ curr \in Procs /\ sem_arg[curr] = s /\ sem_arg'[curr] = NULL
      /\ \A p \in Procs \ {curr} : sem_arg'[p] = sem_arg[p]
      /\ \A t \in Sems : t # NULL
  BY SemKinds, SemTypes DEF TypeOK, woken
<1>2. /\ units'[s] = units[s] - 1 /\ UnitsType'
      /\ \A t \in Sems \ {s} : units'[t] = units[t]
  BY DEF UnitsType, take
<1>3. \A t \in Sems \ {s} : onway(t)' = onway(t)
  BY <1>1 DEF onway, woken
<1>4. onway(s)' = onway(s) \ {curr} /\ curr \in onway(s)
  BY <1>1 DEF onway, woken
<1>5. /\ Cardinality(onway(s) \ {curr}) = Cardinality(onway(s)) - 1
      /\ Cardinality(onway(s)) \in Nat /\ Cardinality(onway(s)) > 0
  <2>1. /\ IsFiniteSet(onway(s)) /\ Cardinality(onway(s)) \in Nat
        /\ Cardinality(onway(s)) # 0
    BY <1>4, OnwayFinite, FS_EmptySet
  <2> QED
    BY <1>4, <2>1, FS_RemoveElement
<1>6. /\ \A t \in Sems : inhand(t)' = inhand(t) /\ inhand(t) \in Nat
      /\ units[s] = inhand(s) + Cardinality(onway(s))
  BY InHandType DEF inhand, UnitsExact
<1>7. units[s] > 0 /\ units'[s] = inhand(s)' + Cardinality(onway(s)')
  BY <1>2, <1>4, <1>5, <1>6
<1>8. UnitsExact'
  BY <1>2, <1>3, <1>6, <1>7 DEF UnitsExact
<1> QED
  BY <1>2, <1>7, <1>8

-----------------------------------------------------------------------------
(***************************************************************************)
(* Each step is a step of CountingSem, or changes nothing there.  The      *)
(* history variable adds no step to Proc.                                  *)
(***************************************************************************)

AStep == Abstract!Next \/ UNCHANGED Abstract!vars
Kept == UnitsExact' /\ UnitsType'

LEMMA HNextIsNext == [HNext]_hvars => [Next]_vars
  BY DEF HNext, hvars, Next, Kernel, Syscall, vars

LEMMA StutterSem ==
  ASSUME HInv, UNCHANGED hvars PROVE AStep /\ Kept
<1>1. UNCHANGED <<units, value, sem_arg, status>>
  BY DEF hvars, vars
<1>2. AStep
  BY <1>1 DEF AStep, Abstract!vars
<1> QED
  BY <1>1, <1>2, QuietUnits DEF HInv, woken, Kept

LEMMA TimerSem ==
  ASSUME HInv, TypeOK', UNCHANGED units,
         timer_handle \/ sys_yield \/ sys_sleep_again
           \/ \E n \in SleepTicks : sys_sleep(n)
  PROVE  AStep /\ Kept
<1>1. SInv /\ TypeOK
  BY DEF HInv, WInv, SInv
<1>2. StatusKept /\ UNCHANGED <<sem_arg, value>>
  BY <1>1, TimerEffect
<1>3. \A t \in Sems : \A p \in Procs : woken(p, t)' <=> woken(p, t)
  BY <1>1, <1>2 DEF woken, StatusKept, SameLife, TypeOK, Status
<1>4. AStep
  BY <1>2 DEF AStep, Abstract!vars
<1> QED
  BY <1>2, <1>3, <1>4, QuietUnits DEF HInv, Kept

LEMMA CloseSem ==
  ASSUME HInv, UNCHANGED units, NEW i \in Fds, sys_sem_close(i) \/ sys_sem_bad(i)
  PROVE  AStep /\ Kept
<1>1. UNCHANGED <<units, value, sem_arg, status>>
  BY DEF sys_sem_close, sys_sem_bad, vars
<1>2. AStep
  BY <1>1 DEF AStep, Abstract!vars
<1> QED
  BY <1>1, <1>2, QuietUnits DEF HInv, woken, Kept

LEMMA ForkSem ==
  ASSUME HInv, sys_fork,
         IF unused = {} THEN UNCHANGED units ELSE set(zombie_sem(Min(unused)), 0)
  PROVE  AStep /\ Kept
<1>1. WInv /\ TypeOK /\ UnitsType
  BY DEF HInv, WInv, SInv
<1>2. CASE unused = {}
  <2>1. UNCHANGED hvars
    BY <1>2 DEF sys_fork, hvars
  <2> QED
    BY <2>1, StutterSem
<1>3. CASE unused # {}
  <2>1. unused \in SUBSET Nat
    BY ProcAssumption DEF unused, Procs
  <2>2. Min(unused) \in Procs /\ status[Min(unused)] = "UNUSED"
    BY <1>3, <2>1, MinOfNaturals DEF unused
  <2>3. ~ UNCHANGED vars
    <3>1. status'[Min(unused)] = "READY"
      BY <1>1, <1>3, <2>2 DEF sys_fork, TypeOK
    <3> QED
      BY <2>2, <3>1 DEF vars
  <2>4. PICK c \in Procs : /\ c = Min(unused) /\ status[c] = "UNUSED"
                           /\ status' = [status EXCEPT ![c] = "READY"]
                           /\ value' = [value EXCEPT ![c] = 0]
                           /\ UNCHANGED sem_arg
    BY <1>1, <2>3, ForkEffect
  <2>5. /\ zombie_sem(c) = c /\ c \in Sems /\ sem_arg[c] = NULL
        /\ \A t \in Sems : t # NULL
    BY <1>1, <2>4, ZeroIsProc, SemTypes, SemKinds
    DEF WInv, Waits, DeadNowhere, CtxArg
  <2>6. \A p \in Procs : sem_arg[p] # c
    BY <1>1, <2>4, <2>5, ZombieListEmpty
  <2>7. units' = [units EXCEPT ![c] = 0]
    BY <1>3, <2>4, <2>5 DEF set
  <2>8. \A t \in Sems : \A p \in Procs : woken(p, t)' <=> woken(p, t)
    <3>1. \A p \in Procs \ {c} : status'[p] = status[p]
      BY <1>1, <2>4 DEF TypeOK
    <3> QED
      BY <2>4, <2>5, <3>1 DEF woken
  <2>9. Kept
    BY <1>1, <2>4, <2>5, <2>6, <2>7, <2>8, CreateUnits DEF HInv, Kept
  <2>10. Abstract!Create(c)
    <3>1. units'[c] = 0
      BY <1>1, <2>5, <2>7 DEF UnitsType
    <3>2. units' = [units EXCEPT ![c] = units'[c]]
      BY <2>7, <3>1, Zenon
    <3> QED
      BY <2>4, <2>6, <3>1, <3>2 DEF Abstract!Create
  <2> QED
    BY <2>5, <2>9, <2>10 DEF AStep, Abstract!Next
<1> QED
  BY <1>2, <1>3

LEMMA OpenSem ==
  ASSUME HInv, NEW v \in InitValues, v \in Nat, sys_sem_open(v),
         IF ref' = ref THEN UNCHANGED units ELSE set(Min(free_usems), v)
  PROVE  AStep /\ Kept
<1>1. WInv /\ TypeOK /\ UnitsType
  BY DEF HInv, WInv, SInv
<1>2. CASE UNCHANGED vars
  <2>1. UNCHANGED hvars
    BY <1>2 DEF hvars, vars
  <2> QED
    BY <2>1, StutterSem
<1>3. CASE ~ UNCHANGED vars
  <2>1. PICK u \in user_sem : /\ ref[u] = 0 /\ u = Min(free_usems)
                              /\ value' = [value EXCEPT ![u] = v]
                              /\ ref' = [ref EXCEPT ![u] = 1]
                              /\ UNCHANGED <<status, sem_arg>>
    BY <1>1, <1>3, OpenEffect
  <2>2. u \in Sems /\ \A p \in Procs : sem_arg[p] # u
    BY <1>1, <2>1, SemTypes, NoHolderNoSleeper
  <2>3. ref' # ref
    <3>1. ref'[u] = 1
      BY <1>1, <2>1 DEF TypeOK
    <3> QED
      BY <2>1, <3>1
  <2>4. units' = [units EXCEPT ![u] = v]
    BY <2>1, <2>3 DEF set
  <2>5. Kept
    BY <1>1, <2>1, <2>2, <2>4, CreateUnits DEF HInv, Kept, woken
  <2>6. Abstract!Create(u)
    <3>1. units'[u] = v
      BY <1>1, <2>2, <2>4 DEF UnitsType
    <3> QED
      BY <2>1, <2>2, <2>4, <3>1 DEF Abstract!Create
  <2> QED
    BY <2>2, <2>5, <2>6 DEF AStep, Abstract!Next
<1> QED
  BY <1>2, <1>3

LEMMA ExitSem ==
  ASSUME HInv, TypeOK', sys_exit,
         IF parent[curr] = NULL THEN UNCHANGED units
         ELSE give(zombie_sem(parent[curr]))
  PROVE  AStep /\ Kept
<1> DEFINE s == zombie_sem(parent[curr])
           dead == [status EXCEPT ![curr] = "ZOMBIE"]
<1>1. /\ WInv /\ SInv /\ TypeOK /\ curr \in Procs /\ sem_arg[curr] = NULL
      /\ UNCHANGED sem_arg /\ \A t \in Sems : t # NULL
  BY UserStep, SemTypes, SemKinds
  DEF HInv, WInv, Waits, CtxArg, sys_exit, in_user
<1>2. /\ dead \in [Procs -> Status]
      /\ \A q \in Procs \ {curr} : dead[q] = status[q]
  BY <1>1, ExitEffect
<1>3. CASE parent[curr] = NULL
  <2>1. UNCHANGED <<value, units>> /\ \A q \in Procs : SameLife(q, dead)
    BY <1>1, <1>3, ExitEffect, SemTypes
  <2> HIDE DEF dead
  <2>2. \A q \in Procs \ {curr} :
          status'[q] \in {"READY", "RUNNING"} <=> status[q] \in {"READY", "RUNNING"}
    BY <1>1, <1>2, <2>1 DEF SameLife, TypeOK, Status
  <2>3. \A t \in Sems : \A p \in Procs : woken(p, t)' <=> woken(p, t)
    BY <1>1, <2>2 DEF woken
  <2>4. AStep
    BY <1>1, <2>1 DEF AStep, Abstract!vars
  <2> QED
    BY <2>1, <2>3, <2>4, QuietUnits DEF HInv, Kept
<1>4. CASE parent[curr] # NULL
  <2>1. /\ s \in Sems /\ sem_v(s) /\ give(s)
        /\ \A q \in Procs : SameLife(q, sem_v_status(s, dead))
    BY <1>1, <1>4, ExitEffect
  <2> HIDE DEF s, dead
  <2>2. \A q \in Procs : sem_arg[q] # NULL => dead[q] = status[q]
    BY <1>1, <1>2
  <2>3. Kept
    BY <1>1, <1>2, <2>1, <2>2, GiveUnits DEF HInv, Kept
  <2>4. Abstract!Give(s)
    BY <1>1, <2>1 DEF Abstract!Give, give
  <2> QED
    BY <2>1, <2>3, <2>4 DEF AStep, Abstract!Next
<1> QED
  BY <1>3, <1>4

\* sem_p, in sys_wait and in sys_sem_p.
LEMMA TakeSem ==
  ASSUME HInv, NEW s \in Sems, sem_p_takes(s), take(s), UNCHANGED sem_arg,
         \A p \in Procs : status'[p] \in {"READY", "RUNNING"}
                            <=> status[p] \in {"READY", "RUNNING"}
  PROVE  AStep /\ Kept
<1>1. \A t \in Sems : \A p \in Procs : woken(p, t)' <=> woken(p, t)
  BY DEF woken
<1>2. UnitsExact' /\ UnitsType' /\ units[s] > 0
  BY <1>1, TakeUnits DEF HInv, WInv, SInv
<1>3. Abstract!Take(s)
  BY <1>2 DEF take, Abstract!Take
<1> QED
  BY <1>2, <1>3 DEF Kept, AStep, Abstract!Next

LEMMA BlockSem ==
  ASSUME HInv, TypeOK', in_user, NEW s \in Sems, NEW c \in Ctx,
         sem_p_blocks(s, c), UNCHANGED units
  PROVE  AStep /\ Kept
<1>1. WInv /\ curr \in Procs /\ sem_arg[curr] = NULL
  BY UserStep DEF HInv, WInv, Waits, CtxArg, in_user
<1>2. Kept
  BY <1>1, BlockUnits DEF HInv, Kept
<1>3. Abstract!StartWaiting(curr, s)
  BY <1>1 DEF sem_p_blocks, Abstract!StartWaiting
<1> QED
  BY <1>1, <1>2, <1>3 DEF AStep, Abstract!Next

\* reap changes no process that is READY or RUNNING.
LEMMA ReapQuiet ==
  ASSUME TypeOK, reap
  PROVE  \A p \in Procs : status'[p] \in {"READY", "RUNNING"}
                            <=> status[p] \in {"READY", "RUNNING"}
<1>1. status' = status \/ \E z \in Procs :
        status[z] = "ZOMBIE" /\ status' = [status EXCEPT ![z] = "UNUSED"]
  BY ReapEffect
<1> QED
  BY <1>1 DEF TypeOK

LEMMA WaitSem ==
  ASSUME HInv, TypeOK', sys_wait,
         IF child_num[curr] # 0 /\ returned
         THEN take(zombie_sem(curr)) ELSE UNCHANGED units
  PROVE  AStep /\ Kept
<1>1. /\ TypeOK /\ curr \in Procs /\ in_user /\ ctx[curr] = "user"
      /\ zombie_sem(curr) \in Sems
  BY SemTypes DEF HInv, WInv, SInv, TypeOK, sys_wait, in_user
<1>2. CASE child_num[curr] = 0 /\ UNCHANGED vars
  <2>1. UNCHANGED hvars
    BY <1>2 DEF hvars
  <2> QED
    BY <2>1, StutterSem
<1>3. CASE /\ child_num[curr] # 0 /\ sem_p_takes(zombie_sem(curr)) /\ reap
           /\ UNCHANGED <<curr, ctx, sem_arg, sleep, parent, usems, ref, tick>>
  <2>1. take(zombie_sem(curr))
    BY <1>1, <1>3 DEF returned
  <2> QED
    BY <1>1, <1>3, <2>1, TakeSem, ReapQuiet
<1>4. CASE sem_p_blocks(zombie_sem(curr), "wait")
  <2>1. ctx'[curr] = "wait"
    BY <1>1, <1>4 DEF sem_p_blocks, TypeOK
  <2>2. UNCHANGED units /\ "wait" \in Ctx
    BY <2>1 DEF returned, Ctx
  <2> QED
    BY <1>1, <1>4, <2>2, BlockSem
<1> QED
  BY <1>2, <1>3, <1>4 DEF sys_wait

LEMMA SemPSem ==
  ASSUME HInv, TypeOK', NEW i \in Fds, sys_sem_p(i),
         IF returned THEN take(usems[curr][i]) ELSE UNCHANGED units
  PROVE  AStep /\ Kept
<1> DEFINE s == usems[curr][i]
<1>1. /\ TypeOK /\ curr \in Procs /\ in_user /\ ctx[curr] = "user" /\ s \in Sems
  <2>1. /\ TypeOK /\ s # NULL /\ in_user /\ ctx[curr] = "user"
    BY DEF HInv, WInv, SInv, sys_sem_p, in_user
  <2>2. curr \in Procs /\ s \in user_sem \cup {NULL}
    BY <2>1 DEF TypeOK
  <2> QED
    BY <2>1, <2>2, SemTypes
<1>2. CASE sem_p_takes(s) /\ UNCHANGED <<curr, status, ctx, sem_arg, halted>>
  <2>1. take(s)
    BY <1>1, <1>2 DEF returned
  <2> QED
    BY <1>1, <1>2, <2>1, TakeSem
<1>3. CASE sem_p_blocks(s, "semp")
  <2>1. ctx'[curr] = "semp"
    BY <1>1, <1>3 DEF sem_p_blocks, TypeOK
  <2>2. UNCHANGED units /\ "semp" \in Ctx
    BY <2>1 DEF returned, Ctx
  <2> QED
    BY <1>1, <1>3, <2>2, BlockSem
<1> QED
  BY <1>2, <1>3 DEF sys_sem_p

LEMMA WokenSem ==
  ASSUME HInv, sys_wait_woken \/ sys_sem_p_woken, take(sem_arg[curr])
  PROVE  AStep /\ Kept
<1> DEFINE s == sem_arg[curr]
<1>1. /\ WInv /\ TypeOK /\ curr \in Procs /\ status[curr] = "RUNNING" /\ s \in Sems
  BY UserStep, SemTypes
  DEF HInv, WInv, Waits, CtxArg, sys_wait_woken, sys_sem_p_woken, resumes
<1>2. /\ UNCHANGED value /\ sem_arg' = [sem_arg EXCEPT ![curr] = NULL]
      /\ \A p \in Procs : status'[p] \in {"READY", "RUNNING"}
                            <=> status[p] \in {"READY", "RUNNING"}
  BY <1>1, ReapQuiet DEF sys_wait_woken, sys_sem_p_woken
<1>3. woken(curr, s)
  BY <1>1 DEF woken
<1>4. UnitsExact' /\ UnitsType' /\ units[s] > 0
  BY <1>1, <1>2, <1>3, ComeBackUnits DEF HInv
<1>5. Abstract!StopWaiting(curr, s)
  BY <1>2, <1>4 DEF Abstract!StopWaiting, take
<1> QED
  BY <1>1, <1>4, <1>5 DEF Kept, AStep, Abstract!Next

LEMMA SemVSem ==
  ASSUME HInv, TypeOK', NEW i \in Fds, sys_sem_v(i), give(usems[curr][i])
  PROVE  AStep /\ Kept
<1> DEFINE s == usems[curr][i]
<1>1. /\ WInv /\ TypeOK /\ s \in Sems
  <2>1. WInv /\ TypeOK /\ s # NULL
    BY DEF HInv, WInv, SInv, sys_sem_v
  <2>2. s \in user_sem \cup {NULL}
    BY <2>1 DEF TypeOK
  <2> QED
    BY <2>1, <2>2, SemTypes
<1>2. /\ sem_v(s) /\ give(s) /\ status' = sem_v_status(s, status)
      /\ UNCHANGED sem_arg
  BY DEF sys_sem_v
<1> HIDE DEF s
<1>3. status \in [Procs -> Status] /\ \A p \in Procs : SameLife(p, sem_v_status(s, status))
  BY <1>1, <1>2 DEF TypeOK, SameLife
<1>4. Kept
  BY <1>1, <1>2, <1>3, GiveUnits DEF HInv, Kept
<1>5. Abstract!Give(s)
  BY <1>2 DEF Abstract!Give, give
<1> QED
  BY <1>1, <1>4, <1>5 DEF AStep, Abstract!Next

LEMMA InitSem == HInit => HInv /\ Abstract!Init
<1> SUFFICES ASSUME HInit PROVE HInv /\ Abstract!Init
  OBVIOUS
<1>1. WInv /\ \A s \in Sems : Counted(s)
  BY InitWait, InitCounted DEF HInit
<1>2. \A s \in Sems : onway(s) = {} /\ inhand(s) = 0 /\ units[s] = 0
  <2>1. /\ \A s \in Sems : s # NULL
        /\ \A p \in Procs : sem_arg[p] = NULL
        /\ \A s \in Sems : value[s] = 0 /\ units[s] = 0
    BY SemTypes, SemKinds DEF HInit, Init
  <2> QED
    BY <2>1 DEF onway, woken, inhand
<1>3. UnitsType /\ UnitsExact
  BY <1>2, FS_EmptySet DEF HInit, UnitsType, UnitsExact
<1>4. Abstract!Init
  BY DEF HInit, Init, Abstract!Init
<1> QED
  BY <1>1, <1>3, <1>4 DEF HInv

LEMMA NextSem ==
  ASSUME InitValues \subseteq Nat, HInv, [HNext]_hvars
  PROVE  AStep /\ HInv'
<1>1. [Next]_vars
  BY HNextIsNext
<1>2. WInv' /\ TypeOK' /\ \A s \in Sems : Counted(s)'
  BY <1>1, NextWait, NextCounted DEF HInv, WInv, SInv
<1>3. AStep /\ Kept
  <2>1. CASE UNCHANGED hvars
    BY <2>1, StutterSem
  <2>2. CASE /\ \/ timer_handle \/ sys_sleep_again \/ sys_yield
                \/ \E n \in SleepTicks : sys_sleep(n)
                \/ \E i \in Fds : sys_sem_close(i) \/ sys_sem_bad(i)
             /\ UNCHANGED units
    BY <1>2, <2>2, TimerSem, CloseSem
  <2>3. ASSUME NEW v \in InitValues, sys_sem_open(v),
               IF ref' = ref THEN UNCHANGED units ELSE set(Min(free_usems), v)
        PROVE  AStep /\ Kept
    BY <2>3, OpenSem
  <2> QED
    BY <1>2, <2>1, <2>2, <2>3, ForkSem, ExitSem, WaitSem, WokenSem, SemPSem,
       SemVSem
    DEF HNext
<1> QED
  BY <1>2, <1>3 DEF HInv, Kept

\* sem_init, sem_p and sem_v, with their wait lists, blocking and rescheduling,
\* implement the counting semaphore of CountingSem, for any number of processes
\* and semaphores: no P returns without a unit that a V or the initial value
\* has put there, no unit goes to two P's, and no semaphore is initialised
\* under a waiter.  Programs open their semaphores with a value of at least 0.
THEOREM SemaphoresCount ==
  ASSUME InitValues \subseteq Nat
  PROVE  HSpec => ImplementsCountingSem
<1>1. HInit => HInv /\ Abstract!Init
  BY InitSem
<1>2. HInv /\ [HNext]_hvars => HInv' /\ [Abstract!Next]_(Abstract!vars)
  BY NextSem DEF AStep
<1> QED
  BY <1>1, <1>2, PTL DEF HSpec, ImplementsCountingSem, Abstract!Spec
=============================================================================
