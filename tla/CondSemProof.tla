---------------------------- MODULE CondSemProof ----------------------------
(***************************************************************************)
(* Proofs about CondSem, for any numbers of producers and consumers and    *)
(* any size of the buffer.                                                 *)
(***************************************************************************)
EXTENDS CondSem, FiniteSetTheorems, TLAPS

-----------------------------------------------------------------------------
(***************************************************************************)
(* The invariant.  cv.lock is not mentioned: it is only ever taken under   *)
(* the mutex of the program.                                               *)
(***************************************************************************)

Waiting == {"wait", "counted", "release"}
Casting == {"loop", "wakes"}
Inside == Waiting \cup Casting \cup {"test", "change", "broadcast", "cast", "leave"}
Places == Inside \cup {"out", "asleep", "shake", "reacquire"}

Types ==
  /\ pc \in [Threads -> Places] /\ round \in [Threads -> Nat]
  /\ mutex \in {0, 1} /\ sleep \in Nat /\ handshake \in Nat
  /\ nwait \in Nat /\ cnt \in Int

Alone ==
  \A t \in Threads : pc[t] \in Inside =>
    mutex = 0 /\ \A u \in Threads : pc[u] \in Inside => u = t

\* The threads that my_cv_wait has counted and no handshake has confirmed.
pending == {t \in Threads : pc[t] \in {"counted", "release", "asleep", "shake"}}

shaking == {t \in Threads : pc[t] = "shake"}

Quiet == sleep = 0 /\ handshake = 0 /\ shaking = {}

\* One round of a broadcast: its unit is in sleep, then with the thread that it
\* has woken, then in handshake.
OneToken ==
  \/ sleep = 1 /\ handshake = 0 /\ shaking = {}
  \/ sleep = 0 /\ handshake = 0 /\ \E u \in Threads : shaking = {u}
  \/ sleep = 0 /\ handshake = 1 /\ shaking = {}

Rounds ==
  /\ ~casting => Quiet /\ nwait = Cardinality(pending)
  /\ \A t \in Threads :
       /\ pc[t] = "loop" => Quiet /\ nwait = Cardinality(pending) + round[t]
       /\ pc[t] = "wakes" =>
            OneToken /\ nwait = Cardinality(pending) + handshake + round[t]

Tested ==
  \A t \in Threads :
    /\ pc[t] = "change" => COND(t)
    /\ pc[t] \in Waiting \cup {"asleep"} /\ COND(t) =>
         \E u \in Threads : pc[u] \in Casting \cup {"broadcast"}

CInv == Types /\ Alone /\ Rounds /\ Tested

-----------------------------------------------------------------------------
(***************************************************************************)
(* Steps in general.                                                       *)
(***************************************************************************)

LEMMA PendingFinite ==
  /\ IsFiniteSet(Threads)
  /\ IsFiniteSet(pending) /\ Cardinality(pending) \in Nat
  /\ IsFiniteSet(pending') /\ Cardinality(pending') \in Nat
<1>1. IsFiniteSet(Threads)
  BY CondAssumption, FS_Union DEF Threads
<1> QED
  BY <1>1, FS_Subset, FS_CardinalityType DEF pending

LEMMA GotoEffect ==
  ASSUME Types, NEW t \in Threads, NEW here, NEW there, goto(t, here, there)
  PROVE  /\ pc[t] = here /\ pc'[t] = there
         /\ \A u \in Threads \ {t} : pc'[u] = pc[u]
         /\ there \in Places => pc' \in [Threads -> Places]
  BY DEF Types, goto

\* The mutex is taken on the way in and given back on the way out.
LEMMA AloneStep ==
  ASSUME Types, Alone, NEW t \in Threads,
         \A u \in Threads \ {t} : pc'[u] = pc[u],
         \/ /\ pc[t] \in Inside <=> pc'[t] \in Inside
            /\ UNCHANGED mutex
         \/ pc[t] \notin Inside /\ pc'[t] \in Inside /\ sem_wait(mutex)
         \/ pc[t] \in Inside /\ pc'[t] \notin Inside /\ sem_post(mutex)
  PROVE  mutex' \in {0, 1} /\ Alone'
<1>1. mutex \in {0, 1}
  BY DEF Types
<1>2. CASE (pc[t] \in Inside <=> pc'[t] \in Inside) /\ UNCHANGED mutex
  <2>1. \A u \in Threads : pc[u] \in Inside <=> pc'[u] \in Inside
    BY <1>2
  <2> QED
    BY <1>1, <1>2, <2>1 DEF Alone
<1>3. CASE pc[t] \notin Inside /\ pc'[t] \in Inside /\ sem_wait(mutex)
  <2>1. mutex = 1 /\ mutex' = 0
    BY <1>1, <1>3 DEF sem_wait
  <2>2. \A u \in Threads : pc[u] \notin Inside
    BY <2>1 DEF Alone
  <2> QED
    BY <2>1, <2>2 DEF Alone
<1>4. CASE pc[t] \in Inside /\ pc'[t] \notin Inside /\ sem_post(mutex)
  <2>1. mutex = 0 /\ \A u \in Threads \ {t} : pc[u] \notin Inside
    BY <1>4 DEF Alone
  <2>2. mutex' = 1
    BY <1>4, <2>1 DEF sem_post
  <2>3. \A u \in Threads : pc'[u] \notin Inside
    BY <1>4, <2>1
  <2> QED
    BY <2>2, <2>3 DEF Alone
<1> QED
  BY <1>2, <1>3, <1>4

\* Nobody else is inside with t.
LEMMA OnlyInside ==
  ASSUME Alone, NEW t \in Threads, pc[t] \in Inside
  PROVE  \A u \in Threads \ {t} : pc[u] \notin Inside
  BY DEF Alone

\* A step that no broadcast notices.
LEMMA RoundsKept ==
  ASSUME Rounds, UNCHANGED <<sleep, handshake, nwait, round>>,
         NEW t \in Threads, \A u \in Threads \ {t} : pc'[u] = pc[u],
         \A S \in {{"counted", "release", "asleep", "shake"}, {"shake"},
                   {"loop"}, {"wakes"}} : pc'[t] \in S <=> pc[t] \in S
  PROVE  Rounds'
<1>1. \A u \in Threads : /\ pc'[u] \in {"counted", "release", "asleep", "shake"}
                              <=> pc[u] \in {"counted", "release", "asleep", "shake"}
                         /\ pc'[u] = "shake" <=> pc[u] = "shake"
                         /\ pc'[u] = "loop" <=> pc[u] = "loop"
                         /\ pc'[u] = "wakes" <=> pc[u] = "wakes"
  <2>1. /\ pc'[t] \in {"counted", "release", "asleep", "shake"}
             <=> pc[t] \in {"counted", "release", "asleep", "shake"}
        /\ pc'[t] \in {"shake"} <=> pc[t] \in {"shake"}
        /\ pc'[t] \in {"loop"} <=> pc[t] \in {"loop"}
        /\ pc'[t] \in {"wakes"} <=> pc[t] \in {"wakes"}
    OBVIOUS
  <2> QED
    BY <2>1
<1>2. pending' = pending /\ shaking' = shaking /\ (casting' <=> casting)
  BY <1>1 DEF pending, shaking, casting
<1>3. (Quiet' <=> Quiet) /\ (OneToken' <=> OneToken)
  BY <1>2 DEF Quiet, OneToken
<1> QED
  BY <1>1, <1>2, <1>3 DEF Rounds

\* A step that changes no condition: t was inside of its wait already, or its
\* condition is false, and no broadcast ends.
LEMMA TestedKept ==
  ASSUME Tested, UNCHANGED cnt,
         NEW t \in Threads, \A u \in Threads \ {t} : pc'[u] = pc[u],
         pc'[t] = "change" => COND(t),
         pc'[t] \in Waiting \cup {"asleep"} =>
           pc[t] \in Waiting \cup {"asleep"} \/ ~COND(t),
         pc[t] \in Casting \cup {"broadcast"} =>
           pc'[t] \in Casting \cup {"broadcast"}
  PROVE  Tested'
<1>1. \A u : COND(u)' <=> COND(u)
  BY DEF COND, PRODUCER_COND, CONSUMER_COND
<1>2. \A u \in Threads : pc'[u] = "change" => COND(u)
  BY DEF Tested
<1>3. ASSUME NEW u \in Threads, pc'[u] \in Waiting \cup {"asleep"}, COND(u)
      PROVE  \E w \in Threads : pc'[w] \in Casting \cup {"broadcast"}
  <2>1. pc[u] \in Waiting \cup {"asleep"}
    BY <1>3
  <2>2. PICK w \in Threads : pc[w] \in Casting \cup {"broadcast"}
    BY <1>3, <2>1 DEF Tested
  <2>3. pc'[w] \in Casting \cup {"broadcast"}
    BY <2>2
  <2> QED
    BY <2>3
<1> QED
  BY <1>1, <1>2, <1>3 DEF Tested

-----------------------------------------------------------------------------
(***************************************************************************)
(* The steps, one by one.                                                  *)
(***************************************************************************)

\* The steps outside of the condition variable, and those of my_cv_wait and
\* my_cv_broadcast that only lock and unlock.
LEMMA LockStep ==
  ASSUME CInv, NEW t \in Threads,
         \/ enter(t) \/ leave(t) \/ wait_unlock_cv(t) \/ wait_release(t)
         \/ wait_reacquire(t) \/ cast_unlock(t)
  PROVE  CInv'
<1>1. Types /\ Alone /\ Rounds /\ Tested
  BY DEF CInv
<1>2. UNCHANGED <<sleep, handshake, nwait, cnt, round>>
  BY DEF enter, leave, wait_unlock_cv, wait_release, wait_reacquire, cast_unlock
<1>3. ASSUME NEW here, NEW there, goto(t, here, there),
             \/ here = "out" /\ there = "test" /\ sem_wait(mutex)
             \/ here = "leave" /\ there = "out" /\ sem_post(mutex)
             \/ here = "counted" /\ there = "release" /\ UNCHANGED mutex
             \/ here = "release" /\ there = "asleep" /\ sem_post(mutex)
             \/ here = "reacquire" /\ there = "test" /\ sem_wait(mutex)
             \/ here = "cast" /\ there = "leave" /\ UNCHANGED mutex
      PROVE  CInv'
  <2>1. /\ pc[t] = here /\ pc'[t] = there /\ there \in Places
        /\ \A u \in Threads \ {t} : pc'[u] = pc[u]
        /\ pc' \in [Threads -> Places]
    BY <1>1, <1>3, GotoEffect DEF Places, Inside, Waiting
  <2>2. mutex' \in {0, 1} /\ Alone'
    BY <1>1, <1>3, <2>1, AloneStep DEF Inside, Waiting, Casting
  <2>3. Rounds'
    <3>1. \A S \in {{"counted", "release", "asleep", "shake"}, {"shake"},
                    {"loop"}, {"wakes"}} : pc'[t] \in S <=> pc[t] \in S
      BY <1>3, <2>1
    <3> QED
      BY <1>1, <1>2, <2>1, <3>1, RoundsKept
  <2>4. Tested'
    BY <1>1, <1>2, <1>3, <2>1, TestedKept DEF Waiting, Casting
  <2> QED
    BY <1>1, <1>2, <2>1, <2>2, <2>3, <2>4 DEF CInv, Types
<1> QED
  BY <1>3
  DEF enter, leave, wait_unlock_cv, wait_release, wait_reacquire, cast_unlock

LEMMA TestStep ==
  ASSUME CInv, NEW t \in Threads, test(t) PROVE CInv'
<1> DEFINE there == IF COND(t) THEN "change" ELSE "wait"
<1>1. Types /\ Alone /\ Rounds /\ Tested
  BY DEF CInv
<1>2. goto(t, "test", there) /\ UNCHANGED <<mutex, sleep, handshake, nwait, cnt, round>>
  BY DEF test
<1>3. /\ pc[t] = "test" /\ pc'[t] = there
      /\ \A u \in Threads \ {t} : pc'[u] = pc[u]
      /\ pc' \in [Threads -> Places]
  BY <1>1, <1>2, GotoEffect DEF Places, Inside, Waiting
<1>4. mutex' \in {0, 1} /\ Alone'
  BY <1>1, <1>2, <1>3, AloneStep DEF Inside, Waiting
<1>5. Rounds'
  <2>1. \A S \in {{"counted", "release", "asleep", "shake"}, {"shake"},
                  {"loop"}, {"wakes"}} : pc'[t] \in S <=> pc[t] \in S
    BY <1>3
  <2> QED
    BY <1>1, <1>2, <1>3, <2>1, RoundsKept
<1>6. Tested'
  BY <1>1, <1>2, <1>3, TestedKept DEF Waiting, Casting
<1> QED
  BY <1>1, <1>2, <1>3, <1>4, <1>5, <1>6 DEF CInv, Types

\* A change of the buffer may make conditions true, and a broadcast follows.
LEMMA ChangeStep ==
  ASSUME CInv, NEW t \in Threads, change(t) PROVE CInv'
<1>1. Types /\ Alone /\ Rounds /\ Tested
  BY DEF CInv
<1>2. /\ goto(t, "change", "broadcast")
      /\ UNCHANGED <<mutex, sleep, handshake, nwait, round>>
  BY DEF change
<1>3. /\ pc[t] = "change" /\ pc'[t] = "broadcast"
      /\ \A u \in Threads \ {t} : pc'[u] = pc[u]
      /\ pc' \in [Threads -> Places]
  BY <1>1, <1>2, GotoEffect DEF Places, Inside
<1>4. mutex' \in {0, 1} /\ Alone'
  BY <1>1, <1>2, <1>3, AloneStep DEF Inside
<1>5. Rounds'
  <2>1. \A S \in {{"counted", "release", "asleep", "shake"}, {"shake"},
                  {"loop"}, {"wakes"}} : pc'[t] \in S <=> pc[t] \in S
    BY <1>3
  <2> QED
    BY <1>1, <1>2, <1>3, <2>1, RoundsKept
<1>6. Tested'
  <2>1. \A u \in Threads : pc'[u] # "change"
    BY <1>1, <1>3, OnlyInside DEF Inside
  <2>2. pc'[t] \in Casting \cup {"broadcast"}
    BY <1>3
  <2> QED
    BY <2>1, <2>2 DEF Tested
<1>7. cnt' \in Int
  BY <1>1 DEF change, Types
<1> QED
  BY <1>1, <1>2, <1>3, <1>4, <1>5, <1>6, <1>7 DEF CInv, Types

LEMMA CountStep ==
  ASSUME CInv, NEW t \in Threads, wait_count(t) PROVE CInv'
<1>1. Types /\ Alone /\ Rounds /\ Tested
  BY DEF CInv
<1>2. /\ goto(t, "wait", "counted") /\ nwait' = nwait + 1
      /\ UNCHANGED <<mutex, sleep, handshake, cnt, round>>
  BY DEF wait_count
<1>3. /\ pc[t] = "wait" /\ pc'[t] = "counted"
      /\ \A u \in Threads \ {t} : pc'[u] = pc[u]
      /\ pc' \in [Threads -> Places]
  BY <1>1, <1>2, GotoEffect DEF Places, Inside, Waiting
<1>4. mutex' \in {0, 1} /\ Alone'
  BY <1>1, <1>2, <1>3, AloneStep DEF Inside, Waiting
<1>5. Rounds'
  <2>1. \A u \in Threads : pc[u] \notin Casting /\ pc'[u] \notin Casting
    BY <1>1, <1>3, OnlyInside DEF Inside, Waiting, Casting
  <2>2. ~casting /\ ~casting'
    BY <2>1 DEF casting, Casting
  <2>3. pending' = pending \cup {t} /\ t \notin pending /\ shaking' = shaking
    BY <1>3 DEF pending, shaking
  <2>4. Cardinality(pending') = Cardinality(pending) + 1
    BY <2>3, PendingFinite, FS_AddElement
  <2>5. Quiet' /\ nwait' = Cardinality(pending')
    BY <1>1, <1>2, <2>2, <2>3, <2>4 DEF Rounds, Quiet
  <2> QED
    BY <2>1, <2>5 DEF Rounds, Casting
<1>6. Tested'
  BY <1>1, <1>2, <1>3, TestedKept DEF Waiting, Casting
<1> QED
  BY <1>1, <1>2, <1>3, <1>4, <1>5, <1>6 DEF CInv, Types

\* sleep and handshake are not 0, and threads shake hands, only in a round of
\* a broadcast.
LEMMA InRound ==
  ASSUME CInv, ~Quiet
  PROVE  \E u \in Threads : /\ pc[u] = "wakes" /\ OneToken
                            /\ nwait = Cardinality(pending) + handshake + round[u]
                            /\ \A w \in Threads \ {u} : pc[w] \notin Inside
<1>1. casting /\ \A u \in Threads : pc[u] # "loop"
  BY DEF CInv, Rounds
<1>2. PICK u \in Threads : pc[u] = "wakes"
  BY <1>1 DEF casting
<1>3. OneToken /\ nwait = Cardinality(pending) + handshake + round[u]
  BY <1>2 DEF CInv, Rounds
<1>4. \A w \in Threads \ {u} : pc[w] \notin Inside
  BY <1>2, OnlyInside DEF CInv, Inside, Casting
<1> QED
  BY <1>2, <1>3, <1>4

LEMMA SleepStep ==
  ASSUME CInv, NEW t \in Threads, wait_sleep(t) PROVE CInv'
<1>1. Types /\ Alone /\ Rounds /\ Tested
  BY DEF CInv
<1>2. /\ goto(t, "asleep", "shake") /\ sleep > 0 /\ sleep' = sleep - 1
      /\ UNCHANGED <<mutex, handshake, nwait, cnt, round>>
  BY DEF wait_sleep, sem_wait
<1>3. /\ pc[t] = "asleep" /\ pc'[t] = "shake"
      /\ \A u \in Threads \ {t} : pc'[u] = pc[u]
      /\ pc' \in [Threads -> Places]
  BY <1>1, <1>2, GotoEffect DEF Places
<1>4. mutex' \in {0, 1} /\ Alone'
  BY <1>1, <1>2, <1>3, AloneStep DEF Inside, Waiting, Casting
<1>5. sleep = 1 /\ handshake = 0 /\ shaking = {}
  BY <1>1, <1>2, InRound DEF Quiet, OneToken, Types
<1>6. Rounds'
  <2>1. PICK u \in Threads : /\ pc[u] = "wakes"
                             /\ nwait = Cardinality(pending) + handshake + round[u]
                             /\ \A w \in Threads \ {u} : pc[w] \notin Inside
    BY <1>1, <1>2, InRound DEF Quiet, Types
  <2>2. pending' = pending /\ shaking' = {t}
    BY <1>3, <1>5 DEF pending, shaking
  <2>3. OneToken'
    BY <1>2, <1>5, <2>2 DEF OneToken
  <2>4. u # t /\ pc'[u] = "wakes" /\ \A w \in Threads \ {u} : pc'[w] \notin Inside
    BY <1>3, <2>1 DEF Inside, Waiting, Casting
  <2>5. casting'
    BY <2>4 DEF casting
  <2>6. \A w \in Threads : pc'[w] # "loop" /\ (pc'[w] = "wakes" => w = u)
    BY <2>4 DEF Inside, Casting
  <2> QED
    BY <1>2, <2>1, <2>2, <2>3, <2>5, <2>6 DEF Rounds
<1>7. Tested'
  BY <1>1, <1>2, <1>3, TestedKept DEF Waiting, Casting
<1> QED
  BY <1>1, <1>2, <1>3, <1>4, <1>5, <1>6, <1>7 DEF CInv, Types

LEMMA ShakeStep ==
  ASSUME CInv, NEW t \in Threads, wait_shake(t) PROVE CInv'
<1>1. Types /\ Alone /\ Rounds /\ Tested
  BY DEF CInv
<1>2. /\ goto(t, "shake", "reacquire") /\ handshake' = handshake + 1
      /\ UNCHANGED <<mutex, sleep, nwait, cnt, round>>
  BY DEF wait_shake, sem_post
<1>3. /\ pc[t] = "shake" /\ pc'[t] = "reacquire"
      /\ \A u \in Threads \ {t} : pc'[u] = pc[u]
      /\ pc' \in [Threads -> Places]
  BY <1>1, <1>2, GotoEffect DEF Places
<1>4. mutex' \in {0, 1} /\ Alone'
  BY <1>1, <1>2, <1>3, AloneStep DEF Inside, Waiting, Casting
<1>5. t \in shaking /\ ~Quiet
  BY <1>3 DEF Quiet, shaking
<1>6. PICK u \in Threads : /\ pc[u] = "wakes" /\ OneToken
                           /\ nwait = Cardinality(pending) + handshake + round[u]
                           /\ \A w \in Threads \ {u} : pc[w] \notin Inside
  BY <1>5, InRound
<1>7. sleep = 0 /\ handshake = 0 /\ shaking = {t}
  BY <1>5, <1>6 DEF OneToken
<1>8. Rounds'
  <2>1. pending' = pending \ {t} /\ t \in pending /\ shaking' = {}
    BY <1>3, <1>7 DEF pending, shaking
  <2>2. Cardinality(pending') = Cardinality(pending) - 1
    BY <2>1, PendingFinite, FS_RemoveElement
  <2>3. OneToken' /\ nwait' = Cardinality(pending') + handshake' + round'[u]
    BY <1>1, <1>2, <1>6, <1>7, <2>1, <2>2, PendingFinite DEF OneToken, Types
  <2>4. u # t /\ pc'[u] = "wakes" /\ \A w \in Threads \ {u} : pc'[w] \notin Inside
    BY <1>3, <1>6 DEF Inside, Waiting, Casting
  <2>5. casting'
    BY <2>4 DEF casting
  <2>6. \A w \in Threads : pc'[w] # "loop" /\ (pc'[w] = "wakes" => w = u)
    BY <2>4 DEF Inside, Casting
  <2> QED
    BY <2>3, <2>5, <2>6 DEF Rounds
<1>9. Tested'
  BY <1>1, <1>2, <1>3, TestedKept DEF Waiting, Casting
<1> QED
  BY <1>1, <1>2, <1>3, <1>4, <1>7, <1>8, <1>9 DEF CInv, Types

LEMMA CastLockStep ==
  ASSUME CInv, NEW t \in Threads, cast_lock(t) PROVE CInv'
<1>1. Types /\ Alone /\ Rounds /\ Tested
  BY DEF CInv
<1>2. /\ goto(t, "broadcast", "loop") /\ round' = [round EXCEPT ![t] = 0]
      /\ UNCHANGED <<mutex, sleep, handshake, nwait, cnt>>
  BY DEF cast_lock
<1>3. /\ pc[t] = "broadcast" /\ pc'[t] = "loop" /\ round'[t] = 0
      /\ \A u \in Threads \ {t} : pc'[u] = pc[u]
      /\ pc' \in [Threads -> Places] /\ round' \in [Threads -> Nat]
  BY <1>1, <1>2, GotoEffect DEF Places, Inside, Casting, Types
<1>4. mutex' \in {0, 1} /\ Alone'
  BY <1>1, <1>2, <1>3, AloneStep DEF Inside, Casting
<1>5. Rounds'
  <2>1. \A u \in Threads : pc[u] \notin Casting /\ (u # t => pc'[u] \notin Casting)
    BY <1>1, <1>3, OnlyInside DEF Inside, Casting
  <2>2. ~casting /\ casting'
    BY <1>3, <2>1 DEF casting, Casting
  <2>3. pending' = pending /\ shaking' = shaking
    BY <1>3 DEF pending, shaking
  <2>4. Quiet' /\ nwait' = Cardinality(pending') + round'[t]
    BY <1>1, <1>2, <1>3, <2>2, <2>3, PendingFinite DEF Rounds, Quiet
  <2> QED
    BY <1>3, <2>1, <2>2, <2>4 DEF Rounds, Casting
<1>6. Tested'
  BY <1>1, <1>2, <1>3, TestedKept DEF Waiting, Casting
<1> QED
  BY <1>1, <1>2, <1>3, <1>4, <1>5, <1>6 DEF CInv, Types

LEMMA CastPostStep ==
  ASSUME CInv, NEW t \in Threads, cast_post(t) PROVE CInv'
<1>1. Types /\ Alone /\ Rounds /\ Tested
  BY DEF CInv
<1>2. /\ goto(t, "loop", "wakes") /\ sleep' = sleep + 1
      /\ UNCHANGED <<mutex, handshake, nwait, cnt, round>>
  BY DEF cast_post, sem_post
<1>3. /\ pc[t] = "loop" /\ pc'[t] = "wakes"
      /\ \A u \in Threads \ {t} : pc'[u] = pc[u]
      /\ pc' \in [Threads -> Places]
  BY <1>1, <1>2, GotoEffect DEF Places, Inside, Casting
<1>4. mutex' \in {0, 1} /\ Alone'
  BY <1>1, <1>2, <1>3, AloneStep DEF Inside, Casting
<1>5. Rounds'
  <2>1. \A u \in Threads : u # t => pc'[u] \notin Casting
    BY <1>1, <1>3, OnlyInside DEF Inside, Casting
  <2>2. casting'
    BY <1>3 DEF casting
  <2>3. pending' = pending /\ shaking' = shaking
    BY <1>3 DEF pending, shaking
  <2>4. Quiet /\ nwait = Cardinality(pending) + round[t]
    BY <1>1, <1>3 DEF Rounds
  <2>5. OneToken' /\ nwait' = Cardinality(pending') + handshake' + round'[t]
    BY <1>1, <1>2, <2>3, <2>4, PendingFinite DEF Quiet, OneToken, Types
  <2> QED
    BY <1>3, <2>1, <2>2, <2>5 DEF Rounds, Casting
<1>6. Tested'
  BY <1>1, <1>2, <1>3, TestedKept DEF Waiting, Casting
<1> QED
  BY <1>1, <1>2, <1>3, <1>4, <1>5, <1>6 DEF CInv, Types

LEMMA CastShakeStep ==
  ASSUME CInv, NEW t \in Threads, cast_shake(t) PROVE CInv'
<1>1. Types /\ Alone /\ Rounds /\ Tested
  BY DEF CInv
<1>2. /\ goto(t, "wakes", "loop") /\ handshake > 0 /\ handshake' = handshake - 1
      /\ round' = [round EXCEPT ![t] = @ + 1]
      /\ UNCHANGED <<mutex, sleep, nwait, cnt>>
  BY DEF cast_shake, sem_wait
<1>3. /\ pc[t] = "wakes" /\ pc'[t] = "loop" /\ round'[t] = round[t] + 1
      /\ \A u \in Threads \ {t} : pc'[u] = pc[u]
      /\ pc' \in [Threads -> Places] /\ round' \in [Threads -> Nat]
      /\ round[t] \in Nat
  BY <1>1, <1>2, GotoEffect DEF Places, Inside, Casting, Types
<1>4. mutex' \in {0, 1} /\ Alone'
  BY <1>1, <1>2, <1>3, AloneStep DEF Inside, Casting
<1>5. sleep = 0 /\ handshake = 1 /\ shaking = {}
  BY <1>1, <1>2, <1>3 DEF Rounds, OneToken
<1>6. Rounds'
  <2>1. \A u \in Threads : u # t => pc'[u] \notin Casting
    BY <1>1, <1>3, OnlyInside DEF Inside, Casting
  <2>2. casting'
    BY <1>3 DEF casting
  <2>3. pending' = pending /\ shaking' = shaking
    BY <1>3 DEF pending, shaking
  <2>4. nwait = Cardinality(pending) + 1 + round[t]
    BY <1>1, <1>3, <1>5 DEF Rounds
  <2>5. Quiet' /\ nwait' = Cardinality(pending') + round'[t]
    BY <1>2, <1>3, <1>5, <2>3, <2>4, PendingFinite DEF Quiet
  <2> QED
    BY <1>3, <2>1, <2>2, <2>5 DEF Rounds, Casting
<1>7. Tested'
  BY <1>1, <1>2, <1>3, TestedKept DEF Waiting, Casting
<1> QED
  BY <1>1, <1>2, <1>3, <1>4, <1>5, <1>6, <1>7 DEF CInv, Types

\* The broadcast ends when it has made as many rounds as there were threads
\* counted: then nobody that was counted is left.
LEMMA CastEnd ==
  ASSUME CInv, NEW t \in Threads, cast_end(t)
  PROVE  /\ CInv' /\ ~casting'
         /\ \A u \in Threads : pc[u] \notin Waiting \cup {"asleep"}
<1>1. Types /\ Alone /\ Rounds /\ Tested
  BY DEF CInv
<1>2. /\ goto(t, "loop", "cast") /\ ~ (round[t] < nwait) /\ nwait' = 0
      /\ round' = [round EXCEPT ![t] = 0]
      /\ UNCHANGED <<mutex, sleep, handshake, cnt>>
  BY DEF cast_end, unwoken
<1>3. /\ pc[t] = "loop" /\ pc'[t] = "cast" /\ round[t] \in Nat
      /\ \A u \in Threads \ {t} : pc'[u] = pc[u]
      /\ pc' \in [Threads -> Places] /\ round' \in [Threads -> Nat]
  BY <1>1, <1>2, GotoEffect DEF Places, Inside, Types
<1>4. mutex' \in {0, 1} /\ Alone'
  BY <1>1, <1>2, <1>3, AloneStep DEF Inside, Casting
<1>5. Quiet /\ nwait = Cardinality(pending) + round[t]
  BY <1>1, <1>3 DEF Rounds
<1>6. pending = {}
  <2>1. Cardinality(pending) = 0
    BY <1>1, <1>2, <1>3, <1>5, PendingFinite DEF Types
  <2> QED
    BY <2>1, PendingFinite, FS_EmptySet
<1>7. pending' = {} /\ shaking' = {}
  BY <1>3, <1>5, <1>6 DEF pending, shaking, Quiet
<1>8. \A u \in Threads : pc'[u] \notin Casting
  BY <1>1, <1>3, OnlyInside DEF Inside, Casting
<1>9. Rounds' /\ ~casting'
  <2>1. Cardinality(pending') = 0
    BY <1>7, FS_EmptySet
  <2> QED
    BY <1>2, <1>5, <1>7, <1>8, <2>1 DEF Rounds, Quiet, casting, Casting
<1>10. \A u \in Threads : pc[u] \notin Waiting \cup {"asleep"}
  <2> SUFFICES ASSUME NEW u \in Threads
               PROVE  pc[u] \notin Waiting /\ pc[u] # "asleep"
    OBVIOUS
  <2>1. u # t => pc[u] \notin Inside
    BY <1>1, <1>3, OnlyInside DEF Inside, Casting
  <2>2. pc[u] # "asleep"
    BY <1>6 DEF pending
  <2> QED
    BY <1>3, <2>1, <2>2 DEF Waiting, Inside
<1>11. Tested'
  <2>1. \A u \in Threads : pc'[u] \notin Waiting \cup {"asleep", "change"}
    <3> SUFFICES ASSUME NEW u \in Threads
                 PROVE  pc'[u] \notin Waiting \cup {"asleep", "change"}
      OBVIOUS
    <3>1. u # t => pc[u] \notin Inside
      BY <1>1, <1>3, OnlyInside DEF Inside, Casting
    <3> QED
      BY <1>3, <1>10, <3>1 DEF Waiting, Inside
  <2> QED
    BY <2>1 DEF Tested
<1> QED
  BY <1>1, <1>2, <1>3, <1>4, <1>9, <1>10, <1>11 DEF CInv, Types

LEMMA InitCond == CondInit => CInv
<1> SUFFICES ASSUME CondInit PROVE CInv
  OBVIOUS
<1>1. \A t \in Threads : pc[t] = "out"
  BY DEF CondInit
<1>2. Types
  BY DEF CondInit, Types, Places
<1>3. Alone /\ Tested
  BY <1>1 DEF Alone, Tested, Inside, Waiting, Casting
<1>4. pending = {} /\ shaking = {} /\ ~casting
  BY <1>1 DEF pending, shaking, casting
<1>5. Rounds
  BY <1>1, <1>4, FS_EmptySet DEF CondInit, Rounds, Quiet
<1> QED
  BY <1>2, <1>3, <1>5 DEF CInv

LEMMA StutterCond == CInv /\ UNCHANGED cond_vars => CInv'
<1> SUFFICES ASSUME CInv, UNCHANGED cond_vars PROVE CInv'
  OBVIOUS
<1>1. pending' = pending /\ shaking' = shaking /\ casting' = casting
  BY DEF cond_vars, pending, shaking, casting
<1> QED
  BY <1>1
  DEF cond_vars, CInv, Types, Alone, Rounds, Tested, Quiet, OneToken, COND,
      PRODUCER_COND, CONSUMER_COND

LEMMA NextCond == CInv /\ [CondNext]_cond_vars => CInv'
<1> SUFFICES ASSUME CInv, NEW t \in Threads, thread(t) PROVE CInv'
  BY StutterCond DEF CondNext
<1> QED
  BY LockStep, TestStep, ChangeStep, CountStep, SleepStep, ShakeStep,
     CastLockStep, CastPostStep, CastShakeStep, CastEnd
  DEF thread, my_cv_wait, my_cv_broadcast

-----------------------------------------------------------------------------

\* A broadcast wakes every thread that was counted when it took cv.lock, and
\* leaves no unit behind for a thread that comes later, for any number of
\* threads (condition_sem.c:79-98).
THEOREM BroadcastWakes == CondSpec => []BroadcastWakesAll
<1>1. CInv => BroadcastWakesAll
  <2> SUFFICES ASSUME CInv, ~casting
               PROVE  /\ nwait = Cardinality({t \in Threads :
                                   pc[t] \in {"counted", "release", "asleep"}})
                      /\ sleep = 0 /\ handshake = 0
    BY DEF BroadcastWakesAll
  <2>1. Quiet /\ nwait = Cardinality(pending)
    BY DEF CInv, Rounds
  <2>2. pending = {t \in Threads : pc[t] \in {"counted", "release", "asleep"}}
    BY <2>1 DEF pending, Quiet, shaking
  <2> QED
    BY <2>1, <2>2 DEF Quiet
<1> QED
  BY InitCond, NextCond, <1>1, PTL DEF CondSpec

\* No wake-up is lost between the test of a condition and P(sleep), although
\* the mutex is given back before: whoever sleeps on a condition that is true
\* will be woken by a broadcast that has not ended (condition_sem.c:123-132).
THEOREM NobodyOversleeps == CondSpec => []NobodySleepsOnTrue
<1>1. CInv => NobodySleepsOnTrue
  BY DEF CInv, Tested, NobodySleepsOnTrue, Casting
<1> QED
  BY InitCond, NextCond, <1>1, PTL DEF CondSpec

-----------------------------------------------------------------------------
(***************************************************************************)
(* The condition variable implements that of the library.                  *)
(***************************************************************************)

LEMMA StandsValue ==
  ASSUME Types, NEW t \in Threads
  PROVE  /\ pc[t] = "out" => stands[t] = "out"
         /\ pc[t] \in Waiting \cup {"test", "change"} => stands[t] = "test"
         /\ pc[t] = "broadcast" => stands[t] = "signal"
         /\ pc[t] \in Casting \cup {"cast", "leave"} => stands[t] = "leave"
         /\ pc[t] = "asleep" /\ ~casting => stands[t] = "waiting"
         /\ pc[t] = "asleep" /\ casting => stands[t] = "woken"
         /\ pc[t] \in {"shake", "reacquire"} => stands[t] = "woken"
  BY DEF Types, Places, Inside, Waiting, Casting, stands, standing

LEMMA StandsNext ==
  ASSUME Types', NEW t \in Threads
  PROVE  /\ pc'[t] = "out" => stands'[t] = "out"
         /\ pc'[t] \in Waiting \cup {"test", "change"} => stands'[t] = "test"
         /\ pc'[t] = "broadcast" => stands'[t] = "signal"
         /\ pc'[t] \in Casting \cup {"cast", "leave"} => stands'[t] = "leave"
         /\ pc'[t] = "asleep" /\ ~casting' => stands'[t] = "waiting"
         /\ pc'[t] = "asleep" /\ casting' => stands'[t] = "woken"
         /\ pc'[t] \in {"shake", "reacquire"} => stands'[t] = "woken"
  BY DEF Types, Places, Inside, Waiting, Casting, stands, standing

LEMMA StandsFunction ==
  /\ stands = [t \in Threads |-> stands[t]] /\ DOMAIN stands = Threads
  /\ stands' = [t \in Threads |-> stands'[t]] /\ DOMAIN stands' = Threads
  BY DEF stands

\* A thread stands elsewhere only if it takes a step itself, unless it is
\* asleep and a broadcast begins or ends.
LEMMA OthersStand ==
  ASSUME Types, Types', NEW t \in Threads, \A u \in Threads \ {t} : pc'[u] = pc[u],
         \/ casting' <=> casting
         \/ \A u \in Threads \ {t} : pc[u] # "asleep"
  PROVE  stands' = [stands EXCEPT ![t] = stands'[t]]
<1>1. \A u \in Threads \ {t} : stands'[u] = stands[u]
  <2> SUFFICES ASSUME NEW u \in Threads, u # t PROVE stands'[u] = stands[u]
    OBVIOUS
  <2>1. pc'[u] = pc[u] /\ pc[u] \in Places
    BY DEF Types
  <2>2. CASE casting' <=> casting
    BY <2>1, <2>2, StandsValue, StandsNext DEF Places, Inside, Waiting, Casting
  <2>3. CASE pc[u] # "asleep"
    BY <2>1, <2>3, StandsValue, StandsNext DEF Places, Inside, Waiting, Casting
  <2> QED
    BY <2>2, <2>3
<1> QED
  BY <1>1, StandsFunction

LEMMA CastingKept ==
  ASSUME NEW t \in Threads, \A u \in Threads \ {t} : pc'[u] = pc[u],
         pc'[t] \in Casting <=> pc[t] \in Casting
  PROVE  casting' <=> casting
<1>1. \A u \in Threads : pc'[u] \in Casting <=> pc[u] \in Casting
  OBVIOUS
<1> QED
  BY <1>1 DEF casting, Casting

\* A thread that has the mutex stands inside, and only one does.
LEMMA MonitorFree ==
  ASSUME Types, Alone, mutex # 0
  PROVE  Monitor!free
<1> SUFFICES ASSUME NEW t \in Threads PROVE stands[t] \notin {"test", "signal", "leave"}
  BY DEF Monitor!free, Monitor!inside, Monitor!Threads, Threads
<1>1. pc[t] \in {"out", "asleep", "shake", "reacquire"}
  BY DEF Types, Alone, Places
<1> QED
  BY <1>1, StandsValue

MStep == [Monitor!Next]_<<cnt, stands>>

LEMMA MutexMonitor ==
  ASSUME CInv, CInv', NEW t \in Threads,
         enter(t) \/ wait_reacquire(t) \/ leave(t)
  PROVE  MStep
<1>1. Types /\ Types' /\ Alone /\ UNCHANGED cnt
  BY DEF CInv, enter, wait_reacquire, leave
<1>2. CASE enter(t) \/ wait_reacquire(t)
  <2>1. /\ pc[t] \in {"out", "reacquire"} /\ pc'[t] = "test" /\ mutex # 0
        /\ \A u \in Threads \ {t} : pc'[u] = pc[u]
    BY <1>1, <1>2, GotoEffect DEF enter, wait_reacquire, sem_wait, Types
  <2>2. casting' <=> casting
    BY <2>1, CastingKept DEF Casting
  <2>3. stands' = [stands EXCEPT ![t] = stands'[t]]
    BY <1>1, <2>1, <2>2, OthersStand
  <2>4. stands[t] \in {"out", "woken"} /\ stands'[t] = "test"
    BY <1>1, <2>1, StandsValue, StandsNext
  <2>5. Monitor!mtx_lock(t)
    BY <1>1, <2>1, <2>3, <2>4, MonitorFree DEF Monitor!mtx_lock
  <2> QED
    BY <2>5 DEF MStep, Monitor!Next, Monitor!Threads, Threads
<1>3. CASE leave(t)
  <2>1. /\ pc[t] = "leave" /\ pc'[t] = "out"
        /\ \A u \in Threads \ {t} : pc'[u] = pc[u]
    BY <1>1, <1>3, GotoEffect DEF leave
  <2>2. casting' <=> casting
    BY <2>1, CastingKept DEF Casting
  <2>3. stands' = [stands EXCEPT ![t] = stands'[t]]
    BY <1>1, <2>1, <2>2, OthersStand
  <2>4. stands[t] = "leave" /\ stands'[t] = "out"
    BY <1>1, <2>1, StandsValue, StandsNext
  <2>5. Monitor!mtx_unlock(t)
    BY <1>1, <2>3, <2>4 DEF Monitor!mtx_unlock
  <2> QED
    BY <2>5 DEF MStep, Monitor!Next, Monitor!Threads, Threads
<1> QED
  BY <1>2, <1>3

\* Between the test of the condition and the moment the mutex is given back
\* nobody changes the buffer: the thread still waits for what it needs.
LEMMA WaitMonitor ==
  ASSUME CInv, CInv', NEW t \in Threads, wait_release(t)
  PROVE  MStep
<1>1. Types /\ Types' /\ Alone /\ Tested /\ UNCHANGED cnt
  BY DEF CInv, wait_release
<1>2. /\ pc[t] = "release" /\ pc'[t] = "asleep"
      /\ \A u \in Threads \ {t} : pc'[u] = pc[u]
  BY <1>1, GotoEffect DEF wait_release
<1>3. \A u \in Threads : pc[u] \notin Casting \cup {"broadcast"}
  BY <1>1, <1>2, OnlyInside DEF Inside, Waiting, Casting
<1>4. ~casting /\ (casting' <=> casting)
  <2>1. ~casting
    BY <1>3 DEF casting, Casting
  <2>2. casting' <=> casting
    BY <1>2, CastingKept DEF Casting
  <2> QED
    BY <2>1, <2>2
<1>5. ~COND(t)
  BY <1>1, <1>2, <1>3 DEF Tested, Waiting
<1>6. stands' = [stands EXCEPT ![t] = stands'[t]]
  BY <1>1, <1>2, <1>4, OthersStand
<1>7. stands[t] = "test" /\ stands'[t] = "waiting"
  BY <1>1, <1>2, <1>4, StandsValue, StandsNext DEF Waiting
<1>8. Monitor!cnd_wait(t)
  BY <1>1, <1>5, <1>6, <1>7
  DEF Monitor!cnd_wait, Monitor!cond, COND, PRODUCER_COND, CONSUMER_COND
<1> QED
  BY <1>8 DEF MStep, Monitor!Next, Monitor!Threads, Threads

LEMMA ChangeMonitor ==
  ASSUME CInv, CInv', NEW t \in Threads, change(t)
  PROVE  MStep
<1>1. Types /\ Types' /\ Tested
  BY DEF CInv
<1>2. /\ pc[t] = "change" /\ pc'[t] = "broadcast"
      /\ \A u \in Threads \ {t} : pc'[u] = pc[u]
  BY <1>1, GotoEffect DEF change
<1>3. COND(t)
  BY <1>1, <1>2 DEF Tested
<1>4. casting' <=> casting
  BY <1>2, CastingKept DEF Casting
<1>5. stands' = [stands EXCEPT ![t] = stands'[t]]
  BY <1>1, <1>2, <1>4, OthersStand
<1>6. stands[t] = "test" /\ stands'[t] = "signal"
  BY <1>1, <1>2, StandsValue, StandsNext
<1>7. Monitor!change(t)
  BY <1>3, <1>5, <1>6
  DEF change, Monitor!change, Monitor!cond, COND, PRODUCER_COND, CONSUMER_COND
<1> QED
  BY <1>7 DEF MStep, Monitor!Next, Monitor!Threads, Threads

\* Taking cv.lock is the moment at which the broadcast wakes.
LEMMA BroadcastMonitor ==
  ASSUME CInv, CInv', NEW t \in Threads, cast_lock(t)
  PROVE  MStep
<1>1. Types /\ Types' /\ Alone /\ UNCHANGED cnt
  BY DEF CInv, cast_lock
<1>2. /\ pc[t] = "broadcast" /\ pc'[t] = "loop"
      /\ \A u \in Threads \ {t} : pc'[u] = pc[u]
  BY <1>1, GotoEffect DEF cast_lock
<1>3. ~casting /\ casting'
  <2>1. \A u \in Threads : pc[u] \notin Casting
    BY <1>1, <1>2, OnlyInside DEF Inside, Casting
  <2> QED
    BY <1>2, <2>1 DEF casting, Casting
<1>4. stands[t] = "signal" /\ stands'[t] = "leave"
  BY <1>1, <1>2, StandsValue, StandsNext DEF Casting
<1>5. \A u \in Threads \ {t} :
        stands'[u] = IF stands[u] = "waiting" THEN "woken" ELSE stands[u]
  <2> SUFFICES ASSUME NEW u \in Threads \ {t}
               PROVE  stands'[u] = IF stands[u] = "waiting" THEN "woken" ELSE stands[u]
    OBVIOUS
  <2>1. pc'[u] = pc[u] /\ pc[u] \in Places
    BY <1>1, <1>2 DEF Types
  <2> QED
    BY <1>1, <1>3, <2>1, StandsValue, StandsNext
    DEF Places, Inside, Waiting, Casting
<1>6. stands' = [[u \in Threads |-> IF stands[u] = "waiting" THEN "woken"
                                                             ELSE stands[u]]
                   EXCEPT ![t] = "leave"]
  BY <1>4, <1>5, StandsFunction
<1>7. Monitor!cnd_broadcast(t)
  BY <1>1, <1>4, <1>6 DEF Monitor!cnd_broadcast, Monitor!Threads, Threads
<1> QED
  BY <1>7 DEF MStep, Monitor!Next, Monitor!Threads, Threads

\* cast_end and cast_unlock stay inside, and at cast_end nobody sleeps: the
\* whole broadcast is one step of the library's.
LEMMA HiddenMonitor ==
  ASSUME CInv, CInv', NEW t \in Threads,
         \/ test(t) \/ wait_count(t) \/ wait_unlock_cv(t) \/ wait_sleep(t)
         \/ wait_shake(t) \/ cast_post(t) \/ cast_shake(t) \/ cast_end(t)
         \/ cast_unlock(t)
  PROVE  MStep
<1>1. Types /\ Types' /\ UNCHANGED cnt
  BY DEF CInv, test, wait_count, wait_unlock_cv, wait_sleep, wait_shake,
         cast_post, cast_shake, cast_end, cast_unlock
<1> SUFFICES stands' = stands
  BY <1>1 DEF MStep
<1>2. ASSUME \A u \in Threads \ {t} : pc'[u] = pc[u], stands'[t] = stands[t],
             (casting' <=> casting) \/ \A u \in Threads \ {t} : pc[u] # "asleep"
      PROVE  stands' = stands
  BY <1>1, <1>2, OthersStand, StandsFunction
<1>3. ASSUME NEW here, NEW there, goto(t, here, there),
             \/ here = "test" /\ there \in {"change", "wait"}
             \/ here = "wait" /\ there = "counted"
             \/ here = "counted" /\ there = "release"
             \/ here = "shake" /\ there = "reacquire"
             \/ here = "loop" /\ there = "wakes"
             \/ here = "wakes" /\ there = "loop"
             \/ here = "cast" /\ there = "leave"
      PROVE  stands' = stands
  <2>1. /\ pc[t] = here /\ pc'[t] = there
        /\ \A u \in Threads \ {t} : pc'[u] = pc[u]
    BY <1>1, <1>3, GotoEffect
  <2>2. casting' <=> casting
    BY <1>3, <2>1, CastingKept DEF Casting
  <2>3. stands'[t] = stands[t]
    BY <1>1, <1>3, <2>1, StandsValue, StandsNext DEF Waiting, Casting
  <2> QED
    BY <1>2, <2>1, <2>2, <2>3
<1>4. CASE wait_sleep(t)
  <2>1. /\ pc[t] = "asleep" /\ pc'[t] = "shake" /\ sleep # 0
        /\ \A u \in Threads \ {t} : pc'[u] = pc[u]
    BY <1>1, <1>4, GotoEffect DEF wait_sleep, sem_wait, Types
  <2>2. casting
    BY <2>1, InRound DEF casting, Quiet
  <2>3. casting' <=> casting
    BY <2>1, CastingKept DEF Casting
  <2>4. stands'[t] = stands[t]
    BY <1>1, <2>1, <2>2, StandsValue, StandsNext
  <2> QED
    BY <1>2, <2>1, <2>3, <2>4
<1>5. CASE cast_end(t)
  <2>1. /\ pc[t] = "loop" /\ pc'[t] = "cast"
        /\ \A u \in Threads \ {t} : pc'[u] = pc[u]
    BY <1>1, <1>5, GotoEffect DEF cast_end
  <2>2. \A u \in Threads : pc[u] # "asleep"
    BY <1>5, CastEnd
  <2>3. stands'[t] = stands[t]
    BY <1>1, <2>1, StandsValue, StandsNext DEF Casting
  <2> QED
    BY <1>2, <2>1, <2>2, <2>3
<1> QED
  BY <1>3, <1>4, <1>5
  DEF test, wait_count, wait_unlock_cv, wait_shake, cast_post, cast_shake,
      cast_unlock

LEMMA InitMonitor == CondInit => Monitor!Init
<1> SUFFICES ASSUME CondInit PROVE Monitor!Init
  OBVIOUS
<1>1. Types /\ \A t \in Threads : pc[t] = "out"
  BY InitCond DEF CondInit, CInv
<1>2. \A t \in Threads : stands[t] = "out"
  BY <1>1, StandsValue
<1>3. stands = [t \in Threads |-> "out"]
  BY <1>2, StandsFunction
<1> QED
  BY <1>3 DEF CondInit, Monitor!Init, Monitor!Threads, Threads

LEMMA NextMonitor == CInv /\ CInv' /\ [CondNext]_cond_vars => MStep
<1>1. ASSUME UNCHANGED cond_vars PROVE MStep
  <2>1. \A t \in Threads : standing(t)' = standing(t)
    BY <1>1, Zenon DEF cond_vars, standing, casting
  <2>2. stands' = stands
    BY <2>1 DEF stands
  <2> QED
    BY <1>1, <2>2 DEF cond_vars, MStep
<1>2. ASSUME CInv, CInv', NEW t \in Threads, thread(t) PROVE MStep
  BY <1>2, MutexMonitor, WaitMonitor, ChangeMonitor, BroadcastMonitor,
     HiddenMonitor
  DEF thread, my_cv_wait, my_cv_broadcast
<1> QED
  BY <1>1, <1>2 DEF CondNext

\* The condition variable made of three semaphores keeps the promise of the
\* library's: its wait is atomic and its broadcast wakes exactly the threads
\* that wait, so that the buffer is only changed under the mutex and with its
\* condition true, for any number of producers and consumers and any size of
\* the buffer (condition_sem.c:79-98, 119-160).
THEOREM CondImplementsMonitor == CondSpec => ImplementsMonitor
<1>1. CondInit => CInv /\ Monitor!Init
  BY InitCond, InitMonitor
<1>2. CInv /\ [CondNext]_cond_vars => CInv' /\ [Monitor!Next]_<<cnt, stands>>
  BY NextCond, NextMonitor DEF MStep
<1> QED
  BY <1>1, <1>2, PTL DEF CondSpec, ImplementsMonitor, Monitor!MonitorSpec
=============================================================================
