------------------------------ MODULE CondSem ------------------------------
(***************************************************************************)
(* A condition variable made of semaphores, with the producers and         *)
(* consumers that use it: lab/lab8/condition_sem.c.  Threads may be        *)
(* preempted anywhere; a step goes up to the next call of a semaphore or   *)
(* the next read of shared data.  The semaphores are those of the C        *)
(* library: P waits for a positive value, and among the waiters anyone may *)
(* be next.                                                                *)
(***************************************************************************)
EXTENDS Integers, FiniteSets

CONSTANTS
  Producers, Consumers,  \* the threads
  BUF_SIZE               \* places in the buffer

ASSUME CondAssumption ==
  /\ IsFiniteSet(Producers) /\ IsFiniteSet(Consumers)
  /\ Producers # {} /\ Consumers # {} /\ Producers \cap Consumers = {}
  /\ BUF_SIZE \in Nat \ {0}

VARIABLES
  mutex,      \* the semaphores: the mutex of the program,
  lock,       \* cv.lock,
  sleep,      \* cv.sleep
  handshake,  \* and cv.handshake
  nwait,      \* cv.nwait: threads counted as waiting
  cnt,        \* items in the buffer
  round,      \* round[t]: the loop variable i of my_cv_broadcast
  pc          \* pc[t]: what thread t does next

cond_vars == <<mutex, lock, sleep, handshake, nwait, cnt, round, pc>>

Threads == Producers \cup Consumers

PRODUCER_COND == cnt < BUF_SIZE
CONSUMER_COND == cnt > 0
COND(t) == IF t \in Producers THEN PRODUCER_COND ELSE CONSUMER_COND

\* my_mutex_init, my_cv_init.
CondInit ==
  /\ mutex = 1 /\ lock = 1
  /\ sleep = 0 /\ handshake = 0
  /\ nwait = 0
  /\ cnt = 0
  /\ round = [t \in Threads |-> 0]
  /\ pc = [t \in Threads |-> "out"]

goto(t, here, there) == pc[t] = here /\ pc' = [pc EXCEPT ![t] = there]

sem_wait(s) == s > 0 /\ s' = s - 1
sem_post(s) == s' = s + 1

-----------------------------------------------------------------------------
(* my_cv_wait.                                                             *)

wait_count(t) ==
  /\ goto(t, "wait", "counted")
  /\ sem_wait(lock)
  /\ nwait' = nwait + 1
  /\ UNCHANGED <<mutex, sleep, handshake, cnt, round>>

wait_unlock_cv(t) ==
  /\ goto(t, "counted", "release")
  /\ sem_post(lock)
  /\ UNCHANGED <<mutex, sleep, handshake, nwait, cnt, round>>

wait_release(t) ==
  /\ goto(t, "release", "asleep")
  /\ sem_post(mutex)
  /\ UNCHANGED <<lock, sleep, handshake, nwait, cnt, round>>

wait_sleep(t) ==
  /\ goto(t, "asleep", "shake")
  /\ sem_wait(sleep)
  /\ UNCHANGED <<mutex, lock, handshake, nwait, cnt, round>>

wait_shake(t) ==
  /\ goto(t, "shake", "reacquire")
  /\ sem_post(handshake)
  /\ UNCHANGED <<mutex, lock, sleep, nwait, cnt, round>>

wait_reacquire_if(t) ==
  /\ goto(t, "reacquire", "change")
  /\ sem_wait(mutex)
  /\ UNCHANGED <<lock, sleep, handshake, nwait, cnt, round>>

\* The caller tests its condition again.
wait_reacquire(t) ==
  /\ goto(t, "reacquire", "test")
  /\ sem_wait(mutex)
  /\ UNCHANGED <<lock, sleep, handshake, nwait, cnt, round>>

my_cv_wait(t) ==
  \/ wait_count(t) \/ wait_unlock_cv(t) \/ wait_release(t)
  \/ wait_sleep(t) \/ wait_shake(t) \/ wait_reacquire(t)

-----------------------------------------------------------------------------
(* my_cv_broadcast.                                                        *)

cast_lock(t) ==
  /\ goto(t, "broadcast", "loop")
  /\ sem_wait(lock)
  /\ round' = [round EXCEPT ![t] = 0]
  /\ UNCHANGED <<mutex, sleep, handshake, nwait, cnt>>

unwoken_short(t) == round[t] + 1 < nwait

\* The loop goes on: not everyone counted has been woken.
unwoken(t) == round[t] < nwait

cast_post(t) ==
  /\ goto(t, "loop", "wakes")
  /\ unwoken(t)
  /\ sem_post(sleep)
  /\ UNCHANGED <<mutex, lock, handshake, nwait, cnt, round>>

cast_shake_skip(t) ==
  /\ goto(t, "wakes", "loop")
  /\ round' = [round EXCEPT ![t] = @ + 1]
  /\ UNCHANGED <<mutex, lock, sleep, handshake, nwait, cnt>>

cast_shake(t) ==
  /\ goto(t, "wakes", "loop")
  /\ sem_wait(handshake)
  /\ round' = [round EXCEPT ![t] = @ + 1]
  /\ UNCHANGED <<mutex, lock, sleep, nwait, cnt>>

cast_end(t) ==
  /\ goto(t, "loop", "cast")
  /\ ~unwoken(t)
  /\ nwait' = 0
  /\ round' = [round EXCEPT ![t] = 0]
  /\ UNCHANGED <<mutex, lock, sleep, handshake, cnt>>

cast_unlock(t) ==
  /\ goto(t, "cast", "leave")
  /\ sem_post(lock)
  /\ UNCHANGED <<mutex, sleep, handshake, nwait, cnt, round>>

my_cv_broadcast(t) ==
  cast_lock(t) \/ cast_post(t) \/ cast_shake(t) \/ cast_end(t) \/ cast_unlock(t)

-----------------------------------------------------------------------------
(* The loops of producer and consumer.                                     *)

enter(t) ==
  /\ goto(t, "out", "test")
  /\ sem_wait(mutex)
  /\ UNCHANGED <<lock, sleep, handshake, nwait, cnt, round>>

test(t) ==
  /\ goto(t, "test", IF COND(t) THEN "change" ELSE "wait")
  /\ UNCHANGED <<mutex, lock, sleep, handshake, nwait, cnt, round>>

change(t) ==
  /\ goto(t, "change", "broadcast")
  /\ cnt' = IF t \in Producers THEN cnt + 1 ELSE cnt - 1
  /\ UNCHANGED <<mutex, lock, sleep, handshake, nwait, round>>

leave(t) ==
  /\ goto(t, "leave", "out")
  /\ sem_post(mutex)
  /\ UNCHANGED <<lock, sleep, handshake, nwait, cnt, round>>

thread(t) ==
  \/ enter(t) \/ test(t) \/ change(t) \/ leave(t)
  \/ my_cv_wait(t) \/ my_cv_broadcast(t)

CondNext == \E t \in Threads : thread(t)

CondSpec == CondInit /\ [][CondNext]_cond_vars

-----------------------------------------------------------------------------
(* Properties.                                                             *)

casting == \E t \in Threads : pc[t] \in {"loop", "wakes"}

\* When a broadcast is over, every thread that it counted has left P(sleep),
\* and no unit is left in sleep or handshake that a thread which waits later
\* could take ("erroneously being signaled", condition_sem.c:90-93).
BroadcastWakesAll ==
  ~casting => /\ nwait = Cardinality({t \in Threads : pc[t] \in {"counted", "release", "asleep"}})
              /\ sleep = 0 /\ handshake = 0

\* No wake-up is lost between the test of a condition and P(sleep): a thread
\* sleeps on a condition that is true only while the thread that made it true
\* has not finished its broadcast (condition_sem.c:79-98, 123-132).
NobodySleepsOnTrue ==
  \A t \in Threads : pc[t] = "asleep" /\ COND(t) =>
    \E u \in Threads : pc[u] \in {"broadcast", "loop", "wakes"}

\* Where thread t is, for the library's condition variable: it waits from the
\* moment it gives the mutex back until a broadcast has taken cv.lock.
standing(t) ==
  CASE pc[t] = "out" -> "out"
    [] pc[t] \in {"test", "change", "wait", "counted", "release"} -> "test"
    [] pc[t] = "broadcast" -> "signal"
    [] pc[t] \in {"loop", "wakes", "cast", "leave"} -> "leave"
    [] pc[t] = "asleep" -> IF casting THEN "woken" ELSE "waiting"
    [] pc[t] \in {"shake", "reacquire"} -> "woken"

stands == [t \in Threads |-> standing(t)]

Monitor == INSTANCE BufferMonitor WITH at <- stands

\* The threads behave as with a condition variable whose wait is atomic and
\* whose broadcast wakes exactly the waiting threads: the buffer is changed
\* only under the mutex, with its condition true ("assert(PRODUCER_COND)").
ImplementsMonitor == Monitor!MonitorSpec
=============================================================================
