---------------------------- MODULE CountingSem ----------------------------
(***************************************************************************)
(* What sem_init, sem_p and sem_v (kernel/src/sem.c) promise to their      *)
(* callers: a number of units, of which a P takes one before it returns    *)
(* and to which a V adds one.  There is no wait list, no negative value    *)
(* and no scheduler here.                                                  *)
(***************************************************************************)
EXTENDS Integers

CONSTANTS Procs, Sems, NULL

VARIABLES
  units,    \* units[s]: the units of semaphore s that nobody has taken
  waiting   \* waiting[p]: the semaphore that p waits for, or NULL

vars == <<units, waiting>>

Init ==
  /\ units = [s \in Sems |-> 0]
  /\ waiting = [p \in Procs |-> NULL]

\* sem_init, of a semaphore nobody waits for
Create(s) ==
  /\ \A p \in Procs : waiting[p] # s
  /\ units'[s] \in Nat
  /\ units' = [units EXCEPT ![s] = units'[s]]
  /\ UNCHANGED waiting

\* sem_p that finds a unit
Take(s) ==
  /\ units[s] > 0
  /\ units' = [units EXCEPT ![s] = @ - 1]
  /\ UNCHANGED waiting

\* sem_p that does not return yet ...
StartWaiting(p, s) ==
  /\ waiting[p] = NULL
  /\ waiting' = [waiting EXCEPT ![p] = s]
  /\ UNCHANGED units

\* ... and returns: one unit fewer, for exactly one process.
StopWaiting(p, s) ==
  /\ waiting[p] = s
  /\ units[s] > 0
  /\ units' = [units EXCEPT ![s] = @ - 1]
  /\ waiting' = [waiting EXCEPT ![p] = NULL]

\* sem_v
Give(s) ==
  /\ units' = [units EXCEPT ![s] = @ + 1]
  /\ UNCHANGED waiting

Next ==
  \E s \in Sems :
    \/ Create(s) \/ Take(s) \/ Give(s)
    \/ \E p \in Procs : StartWaiting(p, s) \/ StopWaiting(p, s)

\* A unit and somebody waiting for it do not stay apart for ever.
Fairness == \A s \in Sems : WF_vars(\E p \in Procs : StopWaiting(p, s))

Spec == Init /\ [][Next]_vars
FairSpec == Spec /\ Fairness
=============================================================================
