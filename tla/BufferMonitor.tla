--------------------------- MODULE BufferMonitor ---------------------------
(***************************************************************************)
(* Producers and consumers with a mutex and a condition variable of the C  *)
(* library: lab/lab8/condition.c.  cnd_wait gives the mutex back and waits *)
(* in one step, and cnd_broadcast wakes exactly the threads that wait.     *)
(* This is what the condition variable of module CondSem promises.         *)
(***************************************************************************)
EXTENDS Integers

CONSTANTS Producers, Consumers, BUF_SIZE

VARIABLES
  cnt,  \* items in the buffer
  at    \* at[t]: where thread t is

Threads == Producers \cup Consumers

\* The places in which a thread has the mutex.
inside == {"test", "signal", "leave"}

free == \A t \in Threads : at[t] \notin inside

cond(t) == IF t \in Producers THEN cnt < BUF_SIZE ELSE cnt > 0

Init == cnt = 0 /\ at = [t \in Threads |-> "out"]

\* mtx_lock, at the head of the loop or at the end of cnd_wait.
mtx_lock(t) ==
  /\ at[t] \in {"out", "woken"}
  /\ free
  /\ at' = [at EXCEPT ![t] = "test"]
  /\ UNCHANGED cnt

cnd_wait(t) ==
  /\ at[t] = "test"
  /\ ~cond(t)
  /\ at' = [at EXCEPT ![t] = "waiting"]
  /\ UNCHANGED cnt

change(t) ==
  /\ at[t] = "test"
  /\ cond(t)
  /\ cnt' = IF t \in Producers THEN cnt + 1 ELSE cnt - 1
  /\ at' = [at EXCEPT ![t] = "signal"]

cnd_broadcast(t) ==
  /\ at[t] = "signal"
  /\ at' = [[u \in Threads |-> IF at[u] = "waiting" THEN "woken" ELSE at[u]]
               EXCEPT ![t] = "leave"]
  /\ UNCHANGED cnt

mtx_unlock(t) ==
  /\ at[t] = "leave"
  /\ at' = [at EXCEPT ![t] = "out"]
  /\ UNCHANGED cnt

Next == \E t \in Threads :
  mtx_lock(t) \/ cnd_wait(t) \/ change(t) \/ cnd_broadcast(t) \/ mtx_unlock(t)

MonitorSpec == Init /\ [][Next]_<<cnt, at>>
=============================================================================
