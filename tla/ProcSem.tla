------------------------------ MODULE ProcSem ------------------------------
(***************************************************************************)
(* The semaphores of Proc implement CountingSem.  The history variable     *)
(* `units' does the bookkeeping of the callers: it is set by sem_open and  *)
(* by the initialisation of a PCB, a V adds a unit at once, and a P takes  *)
(* its unit when it returns to its caller, which may be long after the V   *)
(* that woke it.  Nothing in Proc depends on it.                           *)
(***************************************************************************)
EXTENDS Proc

VARIABLE units

hvars == <<vars, units>>

HInit == Init /\ units = [s \in Sems |-> 0]

set(s, v) == units' = [units EXCEPT ![s] = v]
give(s) == units' = [units EXCEPT ![s] = @ + 1]
take(s) == units' = [units EXCEPT ![s] = @ - 1]

\* curr's call did not block
returned == ctx'[curr] = "user"

HNext ==
  \/ /\ \/ timer_handle \/ sys_sleep_again \/ sys_yield
        \/ \E n \in SleepTicks : sys_sleep(n)
        \/ \E i \in Fds : sys_sem_close(i) \/ sys_sem_bad(i)
     /\ UNCHANGED units
  \/ /\ sys_fork
     /\ IF unused = {} THEN UNCHANGED units ELSE set(zombie_sem(Min(unused)), 0)
  \/ /\ sys_exit
     /\ IF parent[curr] = NULL THEN UNCHANGED units
        ELSE give(zombie_sem(parent[curr]))
  \/ /\ sys_wait
     /\ IF child_num[curr] # 0 /\ returned
        THEN take(zombie_sem(curr)) ELSE UNCHANGED units
  \/ /\ sys_wait_woken \/ sys_sem_p_woken
     /\ take(sem_arg[curr])
  \/ \E v \in InitValues :
       /\ sys_sem_open(v)
       /\ IF ref' = ref THEN UNCHANGED units ELSE set(Min(free_usems), v)
  \/ \E i \in Fds :
       /\ sys_sem_p(i)
       /\ IF returned THEN take(usems[curr][i]) ELSE UNCHANGED units
  \/ \E i \in Fds : sys_sem_v(i) /\ give(usems[curr][i])

HSpec == HInit /\ [][HNext]_hvars

HFairSpec ==
  /\ HSpec
  /\ SF_hvars(HNext /\ timer_handle)
  /\ WF_hvars(HNext /\ sys_sleep_again)
  /\ WF_hvars(HNext /\ sys_wait_woken)
  /\ WF_hvars(HNext /\ sys_sem_p_woken)

Abstract == INSTANCE CountingSem WITH waiting <- sem_arg

\* No P returns without a unit of its own, through blocking, hand-over to the
\* first waiter and rescheduling: there are never more returned P's than the
\* initial value and the V's allow.
ImplementsCountingSem == Abstract!Spec

\* No wake-up is lost: a semaphore does not keep a unit and a waiter for ever.
NoLostWakeup == Abstract!Fairness
=============================================================================
