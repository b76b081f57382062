-------------------------------- MODULE Proc --------------------------------
(***************************************************************************)
(* The process kernel of toyOS: the process table and its scheduler        *)
(* (kernel/src/proc.c), counting semaphores and their wait lists (sem.c,   *)
(* klib/list.c), the timer interrupt (timer.c) and the system calls that   *)
(* act on them (syscall.c).                                                *)
(*                                                                         *)
(* There is one CPU and every gate of the IDT is an interrupt gate, so     *)
(* kernel code runs with interrupts off: a handler is interrupted only     *)
(* where it gives the CPU away itself, by `int $0x81`, in proc_yield,      *)
(* proc_block and sys_exit.  An action below is one such uninterrupted     *)
(* stretch of kernel code; ctx[p] says where process p goes on when it is  *)
(* run again.  A call that returns -1 changes nothing.                     *)
(*                                                                         *)
(* Pids, exit codes and return values are payload that no kernel decision  *)
(* reads and are left out; memory, open files and the current directory    *)
(* of a process are not part of this module.  UNINIT is the status of *)
(* a PCB inside sys_fork only and never visible between two actions.       *)
(*                                                                         *)
(* The definitions whose names add a suffix to the name of the definition  *)
(* that follows them (wakes_below, list_enqueue_lifo, ...) are mutants:    *)
(* versions with a plausible mistake, used to see that a property fails.   *)
(***************************************************************************)
EXTENDS Integers, Sequences, FiniteSets, FiniteSetsExt

CONSTANTS
  PROC_NUM,      \* number of PCBs; pcb[0] is the kernel process
  MAX_USEM,      \* semaphore descriptors of a process
  USER_SEM_NUM,  \* user semaphores of the system
  LIST_NUM,      \* nodes of the pool all wait lists are built from
  TICK_MOD,      \* the tick counter wraps at TICK_MOD (2^32 in the code)
  InitValues,    \* the values a program passes to sem_open
  SleepTicks,    \* the values a program passes to sleep
  MAX_VALUE      \* bound of the model: no V above this value

ASSUME ProcAssumption ==
  /\ PROC_NUM \in Nat /\ PROC_NUM >= 2
  /\ MAX_USEM \in Nat
  /\ USER_SEM_NUM \in Nat
  /\ LIST_NUM \in Nat
  /\ TICK_MOD \in Nat /\ TICK_MOD > 0
  /\ InitValues \subseteq Int
  /\ SleepTicks \subseteq 0 .. TICK_MOD - 1
  /\ MAX_VALUE \in Nat

NULL == -1
Procs == 0 .. PROC_NUM - 1
Fds == 0 .. MAX_USEM - 1

(***************************************************************************)
(* All sem_t objects of the kernel: pcb[p].zombie_sem, user_sem[u] and     *)
(* serial_sem (which is used by module Serial only).                       *)
(***************************************************************************)
zombie_sem(p) == p
user_sem == PROC_NUM .. PROC_NUM + USER_SEM_NUM - 1
serial_sem == PROC_NUM + USER_SEM_NUM
Sems == 0 .. PROC_NUM + USER_SEM_NUM

VARIABLES
  curr,        \* the process on the CPU
  status,      \* pcb[p].status
  ctx,         \* where p continues: user code or the rest of a system call
  sem_arg,     \* the semaphore of the sem_p that p is inside of
  sleep,       \* the locals of the sys_sleep that p is inside of
  parent,      \* pcb[p].parent
  child_num,   \* pcb[p].child_num
  value,       \* sem->value
  wait_list,   \* sem->wait_list, oldest waiter first
  free_nodes,  \* length of klib's free_list
  usems,       \* pcb[p].usems
  ref,         \* user_sem[u].ref
  tick,        \* timer.c's tick
  halted       \* a panic, a failed assertion or a scan that never ends

vars == <<curr, status, ctx, sem_arg, sleep, parent, child_num, value,
          wait_list, free_nodes, usems, ref, tick, halted>>

Status == {"UNUSED", "RUNNING", "READY", "ZOMBIE", "BLOCKED"}
Ctx == {"idle", "user", "wait", "semp", "sleep", "read", "getchar", "none"}
awake == [cur |-> 0, ticks |-> 0]

(***************************************************************************)
(* main's init_user_and_go has made the first process and put it in the    *)
(* ready state; the kernel process goes into `sti(); while (1);`.          *)
(***************************************************************************)
Init ==
  /\ curr = 0
  /\ status = [p \in Procs |-> IF p = 0 THEN "RUNNING"
                               ELSE IF p = 1 THEN "READY" ELSE "UNUSED"]
  /\ ctx = [p \in Procs |-> IF p = 0 THEN "idle"
                            ELSE IF p = 1 THEN "user" ELSE "none"]
  /\ sem_arg = [p \in Procs |-> NULL]
  /\ sleep = [p \in Procs |-> awake]
  /\ parent = [p \in Procs |-> NULL]
  /\ child_num = [p \in Procs |-> 0]
  /\ value = [s \in Sems |-> 0]
  /\ wait_list = [s \in Sems |-> <<>>]
  /\ free_nodes = LIST_NUM
  /\ usems = [p \in Procs |-> [i \in Fds |-> NULL]]
  /\ ref = [u \in user_sem |-> 0]
  /\ tick = 0
  /\ halted = FALSE

-----------------------------------------------------------------------------
(***************************************************************************)
(* The scheduler.  st is the status of all processes at the `int $0x81`.   *)
(***************************************************************************)

\* How far p is from curr in the circular scan; curr itself comes last.
scan_distance(p) == IF p > curr THEN p - curr ELSE p - curr + PROC_NUM

next_ready_first(st) ==
  CHOOSE p \in Procs :
    st[p] = "READY" /\ \A q \in Procs : st[q] = "READY" => p <= q

\* The process at which the scan of the PCBs stops.
next_ready(st) ==
  CHOOSE p \in Procs :
    /\ st[p] = "READY"
    /\ \A q \in Procs : st[q] = "READY" => scan_distance(p) <= scan_distance(q)

proc_run(p, st) ==
  /\ status' = [st EXCEPT ![p] = "RUNNING"]
  /\ curr' = p

\* The scan has no way out when no process is READY.  `fault' is a failure of
\* the caller before it came here.
schedule(st, fault) ==
  IF \E p \in Procs : st[p] = "READY"
  THEN proc_run(next_ready(st), st) /\ halted' = fault
  ELSE status' = st /\ curr' = curr /\ halted' = TRUE

proc_yield_running == schedule(status, FALSE)
proc_yield == schedule([status EXCEPT ![curr] = "READY"], FALSE)

-----------------------------------------------------------------------------
(***************************************************************************)
(* Semaphores.                                                             *)
(***************************************************************************)

list_enqueue_type(s, p) ==
  /\ wait_list' = [wait_list EXCEPT ![s] = Append(@, s)]
  /\ free_nodes' = free_nodes - 1

list_enqueue_lifo(s, p) ==
  /\ wait_list' = [wait_list EXCEPT ![s] = <<p>> \o @]
  /\ free_nodes' = free_nodes - 1

list_enqueue(s, p) ==
  /\ wait_list' = [wait_list EXCEPT ![s] = Append(@, p)]
  /\ free_nodes' = free_nodes - 1

list_dequeue_leak(s) ==
  IF wait_list[s] = <<>>
  THEN UNCHANGED <<wait_list, free_nodes>>
  ELSE /\ wait_list' = [wait_list EXCEPT ![s] = Tail(@)]
       /\ free_nodes' = free_nodes

\* list_dequeue of an empty list returns NULL and takes nothing.
list_dequeue(s) ==
  IF wait_list[s] = <<>>
  THEN UNCHANGED <<wait_list, free_nodes>>
  ELSE /\ wait_list' = [wait_list EXCEPT ![s] = Tail(@)]
       /\ free_nodes' = free_nodes + 1

\* list_init forgets the wait list, if there is one: its nodes do not return
\* to the pool.
sem_init_keep(s, v) == UNCHANGED <<value, wait_list>>
sem_init(s, v) ==
  /\ value' = [value EXCEPT ![s] = v]
  /\ wait_list' = [wait_list EXCEPT ![s] = <<>>]

sem_p_takes_zero(s) ==
  /\ value[s] >= 0
  /\ value' = [value EXCEPT ![s] = @ - 1]
  /\ UNCHANGED <<wait_list, free_nodes>>

\* sem_p that finds a unit and returns at once.
sem_p_takes(s) ==
  /\ value[s] > 0
  /\ value' = [value EXCEPT ![s] = @ - 1]
  /\ UNCHANGED <<wait_list, free_nodes>>

\* sem_p that waits: curr blocks, to go on at `resume` when it is run again.
\* list_enqueue asserts that the pool has a node left.
sem_p_blocks(s, resume) ==
  /\ value[s] <= 0
  /\ value' = [value EXCEPT ![s] = @ - 1]
  /\ list_enqueue(s, curr)
  /\ ctx' = [ctx EXCEPT ![curr] = resume]
  /\ sem_arg' = [sem_arg EXCEPT ![curr] = s]
  /\ schedule([status EXCEPT ![curr] = "BLOCKED"], free_nodes = 0)

\* A V that leaves the value at or below 0 wakes the first waiter.
wakes_below(s) == value[s] + 1 < 0
wakes(s) == value[s] + 1 <= 0

sem_v_no_inc(s) ==
  /\ value' = IF wakes(s) THEN value ELSE [value EXCEPT ![s] = @ + 1]
  /\ IF wakes(s) THEN list_dequeue(s) ELSE UNCHANGED <<wait_list, free_nodes>>

sem_v(s) ==
  /\ value' = [value EXCEPT ![s] = @ + 1]
  /\ IF wakes(s) THEN list_dequeue(s) ELSE UNCHANGED <<wait_list, free_nodes>>

sem_v_status_last(s, st) ==
  IF wakes(s) /\ wait_list[s] # <<>>
  THEN [st EXCEPT ![wait_list[s][Len(wait_list[s])]] = "READY"]
  ELSE st

\* What sem_v's proc_addready makes of the statuses st ...
sem_v_status(s, st) ==
  IF wakes(s) /\ wait_list[s] # <<>>
  THEN [st EXCEPT ![Head(wait_list[s])] = "READY"]
  ELSE st

\* ... and when it is given NULL, in a page that is not mapped: a panic.
sem_v_faults(s) == wakes(s) /\ wait_list[s] = <<>>

-----------------------------------------------------------------------------
(***************************************************************************)
(* Interrupts and system calls.                                            *)
(***************************************************************************)

\* curr executes with interrupts on.
interruptible == ~halted /\ ctx[curr] \in {"idle", "user"}

\* curr executes a program and may make any system call.
in_user == ~halted /\ ctx[curr] = "user"

\* curr goes on inside the kernel, where it gave the CPU away.
resumes(c) == ~halted /\ ctx[curr] = c

timer_handle ==
  /\ interruptible
  /\ tick' = (tick + 1) % TICK_MOD
  /\ proc_yield
  /\ UNCHANGED <<ctx, sem_arg, sleep, parent, child_num, value, wait_list,
                 free_nodes, usems, ref>>

sys_yield ==
  /\ in_user
  /\ proc_yield
  /\ UNCHANGED <<ctx, sem_arg, sleep, parent, child_num, value, wait_list,
                 free_nodes, usems, ref, tick>>

asleep_exact(s) == (tick - s.cur) % TICK_MOD # s.ticks

\* The loop test of sys_sleep, in the tick counter's unsigned arithmetic.
asleep(s) == (tick - s.cur) % TICK_MOD < s.ticks

sys_sleep(n) ==
  /\ in_user
  /\ LET s == [cur |-> tick, ticks |-> n]
     IN IF asleep(s)
        THEN /\ ctx' = [ctx EXCEPT ![curr] = "sleep"]
             /\ sleep' = [sleep EXCEPT ![curr] = s]
             /\ proc_yield
        ELSE UNCHANGED <<ctx, sleep, status, curr, halted>>
  /\ UNCHANGED <<sem_arg, parent, child_num, value, wait_list, free_nodes,
                 usems, ref, tick>>

sys_sleep_again ==
  /\ resumes("sleep")
  /\ IF asleep(sleep[curr])
     THEN proc_yield /\ UNCHANGED <<ctx, sleep>>
     ELSE /\ ctx' = [ctx EXCEPT ![curr] = "user"]
          /\ sleep' = [sleep EXCEPT ![curr] = awake]
          /\ UNCHANGED <<status, curr, halted>>
  /\ UNCHANGED <<sem_arg, parent, child_num, value, wait_list, free_nodes,
                 usems, ref, tick>>

-----------------------------------------------------------------------------
(***************************************************************************)
(* Process creation and termination.                                       *)
(***************************************************************************)

unused == {p \in Procs \ {0} : status[p] = "UNUSED"}

\* How many entries of p's descriptor table name the user semaphore u.
holds(p, u) == Cardinality({i \in Fds : usems[p][i] = u})

\* proc_copycurr's loop over the descriptors of curr
usem_dup_all_noref(c) ==
  /\ usems' = [usems EXCEPT ![c] = usems[curr]]
  /\ UNCHANGED ref

usem_dup_all(c) ==
  /\ usems' = [usems EXCEPT ![c] = usems[curr]]
  /\ ref' = [u \in user_sem |-> ref[u] + holds(curr, u)]

\* proc_alloc takes the first unused PCB and initialises it; proc_copycurr
\* makes it a copy of curr; proc_addready lets it run.
sys_fork ==
  /\ in_user
  /\ \/ /\ unused = {}
        /\ UNCHANGED vars
     \/ /\ unused # {}
        /\ LET c == Min(unused)
           IN /\ status' = [status EXCEPT ![c] = "READY"]
              /\ ctx' = [ctx EXCEPT ![c] = "user"]
              /\ sem_arg' = [sem_arg EXCEPT ![c] = NULL]
              /\ sleep' = [sleep EXCEPT ![c] = awake]
              /\ parent' = [parent EXCEPT ![c] = curr]
              /\ child_num' = [child_num EXCEPT ![c] = 0, ![curr] = @ + 1]
              /\ sem_init(zombie_sem(c), 0)
              /\ usem_dup_all(c)
        /\ UNCHANGED <<curr, free_nodes, tick, halted>>

\* curr is somebody's child, who is told of its end.
has_parent_never == FALSE
has_parent == parent[curr] # NULL

orphan_children_running ==
  parent' = [q \in Procs |-> IF parent[q] = curr /\ status[q] # "ZOMBIE"
                             THEN NULL ELSE parent[q]]
orphan_children ==
  parent' = [q \in Procs |-> IF parent[q] = curr THEN NULL ELSE parent[q]]

\* proc_makezombie(curr), then the CPU is given away for good.  The table of
\* semaphores is closed but not cleared.
sys_exit ==
  /\ in_user
  /\ LET p == parent[curr]
         dead == [status EXCEPT ![curr] = "ZOMBIE"]
     IN IF has_parent
        THEN /\ sem_v(zombie_sem(p))
             /\ schedule(sem_v_status(zombie_sem(p), dead),
                         sem_v_faults(zombie_sem(p)))
        ELSE /\ schedule(dead, FALSE)
             /\ UNCHANGED <<value, wait_list, free_nodes>>
  /\ orphan_children
  /\ ref' = [u \in user_sem |-> ref[u] - holds(curr, u)]
  /\ ctx' = [ctx EXCEPT ![curr] = "none"]
  /\ UNCHANGED <<sem_arg, sleep, child_num, usems, tick>>

zombies(p) == {z \in Procs : parent[z] = p /\ status[z] = "ZOMBIE"}

proc_findzombie_short(p) ==
  LET found == zombies(p) \ {PROC_NUM - 1}
  IN IF found = {} THEN NULL ELSE Min(found)

proc_findzombie(p) == IF zombies(p) = {} THEN NULL ELSE Min(zombies(p))

reap_no_count ==
  LET z == proc_findzombie(curr)
  IN /\ halted' = (z = NULL)
     /\ IF z = NULL THEN UNCHANGED status
        ELSE status' = [status EXCEPT ![z] = "UNUSED"]
     /\ UNCHANGED child_num

\* What sys_wait does after its sem_p.  It asserts that there is a zombie;
\* proc_free gives its PCB back but leaves the parent pointer in it.
reap ==
  LET z == proc_findzombie(curr)
  IN /\ halted' = (z = NULL)
     /\ IF z = NULL
        THEN UNCHANGED <<status, child_num>>
        ELSE /\ status' = [status EXCEPT ![z] = "UNUSED"]
             /\ child_num' = [child_num EXCEPT ![curr] = @ - 1]

sys_wait ==
  /\ in_user
  /\ \/ /\ child_num[curr] = 0
        /\ UNCHANGED vars
     \/ /\ child_num[curr] # 0
        /\ sem_p_takes(zombie_sem(curr))
        /\ reap
        /\ UNCHANGED <<curr, ctx, sem_arg, sleep, parent, usems, ref, tick>>
     \/ /\ child_num[curr] # 0
        /\ sem_p_blocks(zombie_sem(curr), "wait")
        /\ UNCHANGED <<sleep, parent, child_num, usems, ref, tick>>

sys_wait_woken ==
  /\ resumes("wait")
  /\ reap
  /\ ctx' = [ctx EXCEPT ![curr] = "user"]
  /\ sem_arg' = [sem_arg EXCEPT ![curr] = NULL]
  /\ UNCHANGED <<curr, sleep, parent, value, wait_list, free_nodes, usems,
                 ref, tick>>

-----------------------------------------------------------------------------
(***************************************************************************)
(* User semaphores.                                                        *)
(***************************************************************************)

proc_allocusem(p) == {i \in Fds : usems[p][i] = NULL}
free_usems == {u \in user_sem : ref[u] = 0}

sys_sem_open(v) ==
  /\ in_user
  /\ \/ /\ proc_allocusem(curr) = {} \/ free_usems = {}
        /\ UNCHANGED vars
     \/ /\ proc_allocusem(curr) # {} /\ free_usems # {}
        /\ LET i == Min(proc_allocusem(curr))
               u == Min(free_usems)
           IN /\ sem_init(u, v)
              /\ ref' = [ref EXCEPT ![u] = 1]
              /\ usems' = [usems EXCEPT ![curr][i] = u]
        /\ UNCHANGED <<curr, status, ctx, sem_arg, sleep, parent, child_num,
                       free_nodes, tick, halted>>

sys_sem_p(i) ==
  /\ in_user
  /\ usems[curr][i] # NULL
  /\ \/ /\ sem_p_takes(usems[curr][i])
        /\ UNCHANGED <<curr, status, ctx, sem_arg, halted>>
     \/ sem_p_blocks(usems[curr][i], "semp")
  /\ UNCHANGED <<sleep, parent, child_num, usems, ref, tick>>

sys_sem_p_woken ==
  /\ resumes("semp")
  /\ ctx' = [ctx EXCEPT ![curr] = "user"]
  /\ sem_arg' = [sem_arg EXCEPT ![curr] = NULL]
  /\ UNCHANGED <<curr, status, sleep, parent, child_num, value, wait_list,
                 free_nodes, usems, ref, tick, halted>>

sys_sem_v(i) ==
  /\ in_user
  /\ usems[curr][i] # NULL
  /\ LET s == usems[curr][i]
     IN /\ value[s] < MAX_VALUE
        /\ sem_v(s)
        /\ status' = sem_v_status(s, status)
        /\ halted' = sem_v_faults(s)
  /\ UNCHANGED <<curr, ctx, sem_arg, sleep, parent, child_num, usems, ref,
                 tick>>

sys_sem_close(i) ==
  /\ in_user
  /\ usems[curr][i] # NULL
  /\ ref' = [ref EXCEPT ![usems[curr][i]] = @ - 1]
  /\ usems' = [usems EXCEPT ![curr][i] = NULL]
  /\ UNCHANGED <<curr, status, ctx, sem_arg, sleep, parent, child_num, value,
                 wait_list, free_nodes, tick, halted>>

\* sem_p, sem_v and sem_close of a descriptor that names no semaphore.
sys_sem_bad(i) ==
  /\ in_user
  /\ usems[curr][i] = NULL
  /\ UNCHANGED vars

-----------------------------------------------------------------------------
Kernel ==
  \/ timer_handle
  \/ sys_sleep_again
  \/ sys_wait_woken
  \/ sys_sem_p_woken

Syscall ==
  \/ sys_yield
  \/ sys_fork
  \/ sys_exit
  \/ sys_wait
  \/ \E n \in SleepTicks : sys_sleep(n)
  \/ \E v \in InitValues : sys_sem_open(v)
  \/ \E i \in Fds : sys_sem_p(i) \/ sys_sem_v(i) \/ sys_sem_close(i)
                      \/ sys_sem_bad(i)

\* panic() and a failed assertion loop for ever with interrupts off: a halted
\* kernel has no next step.
Next == Kernel \/ Syscall

Spec == Init /\ [][Next]_vars

(***************************************************************************)
(* Fairness.  The CPU goes on executing the kernel code it is in.  A timer *)
(* interrupt that arrives with interrupts off stays pending in the PIC and *)
(* is taken when they are next on, so it only has to be possible again and *)
(* again.  Nothing is assumed of the programs: they may compute for ever.  *)
(***************************************************************************)
Fairness ==
  /\ SF_vars(timer_handle)
  /\ WF_vars(sys_sleep_again)
  /\ WF_vars(sys_wait_woken)
  /\ WF_vars(sys_sem_p_woken)

FairSpec == Spec /\ Fairness

-----------------------------------------------------------------------------
(***************************************************************************)
(* Properties.                                                             *)
(***************************************************************************)

TypeOK ==
  /\ curr \in Procs
  /\ status \in [Procs -> Status]
  /\ ctx \in [Procs -> Ctx]
  /\ sem_arg \in [Procs -> Sems \cup {NULL}]
  /\ sleep \in [Procs -> [cur : 0 .. TICK_MOD - 1, ticks : 0 .. TICK_MOD - 1]]
  /\ parent \in [Procs -> Procs \cup {NULL}]
  /\ child_num \in [Procs -> Int]
  /\ value \in [Sems -> Int]
  /\ wait_list \in [Sems -> Seq(Procs)]
  /\ free_nodes \in Int
  /\ usems \in [Procs -> [Fds -> user_sem \cup {NULL}]]
  /\ ref \in [user_sem -> Int]
  /\ tick \in 0 .. TICK_MOD - 1
  /\ halted \in BOOLEAN

live(p) == status[p] \in {"RUNNING", "READY", "BLOCKED"}

\* p was taken off the wait list of s by a V and has not yet come back from
\* its sem_p: the unit of that V is on its way to p.
woken(p, s) == sem_arg[p] = s /\ status[p] \in {"READY", "RUNNING"}

\* "Only one process is RUNNING at a time" (proc.h): whatever the programs,
\* the wake-ups and the interrupts do, it is the one `curr' points to, and
\* the kernel process can always run, so that the scan of schedule ends.
OneRunning ==
  ~halted => /\ \A p \in Procs : status[p] = "RUNNING" <=> p = curr
             /\ status[0] \in {"RUNNING", "READY"}

WaitersBlocked ==
  \A s \in Sems : \A k \in 1 .. Len(wait_list[s]) :
    status[wait_list[s][k]] = "BLOCKED" /\ sem_arg[wait_list[s][k]] = s

WaitersDistinct ==
  \A s \in Sems : \A j, k \in 1 .. Len(wait_list[s]) :
    wait_list[s][j] = wait_list[s][k] => j = k

BlockedWaits ==
  \A p \in Procs : status[p] = "BLOCKED" =>
    \E s \in Sems : \E k \in 1 .. Len(wait_list[s]) : wait_list[s][k] = p

\* proc_block and proc_addready keep status and wait lists in step: a process
\* is BLOCKED exactly while it stands in the wait list of the semaphore of its
\* sem_p, it stands there once, and in no other list.
BlockedIsQueued ==
  ~halted => WaitersBlocked /\ WaitersDistinct /\ BlockedWaits

\* sem.h on sem->value: "positive: so many units are left; negative: there are
\* none and so many processes wait".
ValueCountsWaiters ==
  ~halted =>
    \A s \in Sems : Len(wait_list[s]) = IF value[s] < 0 THEN -value[s] ELSE 0

\* No assertion of the kernel fails (sys_wait finds its zombie, list_enqueue
\* its node), sem_v never readies NULL, schedule always finds a process.
NeverHalts == ~halted

\* The units of p's zombie_sem are p's zombies: each is counted by the value
\* or by the wake-up that is on its way to p, never by both, never by none.
ZombieCredits ==
  ~halted =>
    \A p \in Procs : live(p) =>
      Cardinality(zombies(p))
        = (IF value[zombie_sem(p)] > 0 THEN value[zombie_sem(p)] ELSE 0)
          + (IF woken(p, zombie_sem(p)) THEN 1 ELSE 0)

\* sys_wait refuses to wait exactly when there is nothing left to wait for:
\* child_num counts the PCBs that still point to their parent.
ChildNumCounts ==
  ~halted =>
    \A p \in Procs : live(p) =>
      child_num[p] = Cardinality({c \in Procs : parent[c] = p
                                                  /\ status[c] # "UNUSED"})

\* No parent pointer outlives the parent: sys_exit never V's the zombie_sem of
\* a PCB that is dead or has been given to another process.
ParentIsAlive ==
  \A c \in Procs :
    status[c] # "UNUSED" /\ parent[c] # NULL => live(parent[c])

\* Parents and children agree, whatever the order of fork, exit and wait and
\* however often a PCB is used again: no child points to a parent that is gone,
\* no parent waits for children that it does not have, and every zombie is
\* announced to its parent exactly once.
FamilyAgrees == ParentIsAlive /\ ChildNumCounts /\ ZombieCredits

\* The descriptors of live processes that name the user semaphore u.
holders(u) ==
  {h \in Procs \X Fds : live(h[1]) /\ usems[h[1]][h[2]] = u}

\* user_sem[u].ref counts the descriptors of live processes, so usem_alloc
\* never re-initialises a semaphore that a process holds or sleeps on.
RefCounts ==
  \A u \in user_sem :
    /\ ref[u] = Cardinality(holders(u))
    /\ ref[u] = 0 => wait_list[u] = <<>> /\ \A p \in Procs : sem_arg[p] # u

\* The list nodes in use, named by their list and their place in it.
queued == UNION {{s} \X (1 .. Len(wait_list[s])) : s \in Sems}

\* No node of the pool is lost by a sem_init of a semaphore in use.
NodesConserved == free_nodes + Cardinality(queued) = LIST_NUM

\* The four records of who sleeps agree at every step: the status in the PCB,
\* the wait list, the value of the semaphore and the pool of list nodes, which
\* sem_p, sem_v, sem_init and the scheduler change one after the other.
WaitListsAgree == BlockedIsQueued /\ ValueCountsWaiters /\ NodesConserved

\* Round robin is fair: a process that is READY gets the CPU, even when the
\* others never give it up by themselves.
ReadyRuns ==
  \A p \in Procs : status[p] = "READY" ~> status[p] = "RUNNING"

\* A sleeper comes back, although the counter it compares with wraps around
\* and it looks at the counter only when it happens to be run.
SleepReturns ==
  \A p \in Procs : ctx[p] = "sleep" ~> ctx[p] = "user"

\* A wait returns once there is a zombie, whether the child exited before or
\* after the parent went to sleep.
WaitReturns ==
  \A p \in Procs : ctx[p] = "wait" /\ zombies(p) # {} ~> ctx[p] = "user"

V(s) == \E i \in Fds : usems[curr][i] = s /\ sys_sem_v(i)

\* Wait lists are first in, first out: a semaphore that is V'ed again and
\* again keeps nobody waiting for ever.
SemNoStarvation ==
  \A s \in user_sem, p \in Procs :
    []<><<V(s)>>_vars => (sem_arg[p] = s ~> sem_arg[p] # s)
=============================================================================
