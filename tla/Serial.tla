------------------------------- MODULE Serial -------------------------------
(***************************************************************************)
(* The serial console (kernel/src/serial.c) together with the process      *)
(* kernel of Proc: the interrupt handler fills a ring buffer and V's       *)
(* serial_sem once per character of a finished line; readers P serial_sem  *)
(* and take one character each time.  Several processes may read at once.  *)
(*                                                                         *)
(* The counters head, clapboard and tail matter through their differences  *)
(* and their remainders by BUFFER_SIZE only; the model takes BUFFER_SIZE   *)
(* off all three whenever head reaches it, so that they stay finite.  One  *)
(* handler step is one received character: a batch is several steps with   *)
(* nothing in between.                                                     *)
(***************************************************************************)
EXTENDS Proc

CONSTANTS
  BUFFER_SIZE,
  Printable,     \* the printable characters
  ReadCounts,    \* the counts programs pass to read
  MAX_UNREAD     \* bound of the model: characters in the buffer

ASSUME SerialAssumption ==
  /\ BUFFER_SIZE \in Nat \ {0}
  /\ Printable \cap {"newline", "nul"} = {}
  /\ ReadCounts \subseteq Nat
  /\ MAX_UNREAD \in Nat

VARIABLES
  buffer, head, clapboard, tail,
  left      \* left[p]: how many characters p's serial_read still wants

svars == <<buffer, head, clapboard, tail, left>>
allvars == <<vars, svars>>

Chars == Printable \cup {"newline"}
slot_short(k) == k % (BUFFER_SIZE - 1)
slot(k) == k % BUFFER_SIZE

SerialInit ==
  /\ Init
  /\ buffer = [k \in 0 .. BUFFER_SIZE - 1 |-> "nul"]
  /\ head = 0 /\ clapboard = 0 /\ tail = 0
  /\ left = [p \in Procs |-> 0]

-----------------------------------------------------------------------------
(***************************************************************************)
(* The receive interrupt.                                                  *)
(***************************************************************************)

sem_v_times_one(s, n) ==
  LET w == IF value[s] < 0 THEN 1 ELSE 0
  IN /\ value' = [value EXCEPT ![s] = @ + n]
     /\ wait_list' = [wait_list EXCEPT ![s] = SubSeq(@, w + 1, Len(@))]
     /\ free_nodes' = free_nodes + w
     /\ status' = [p \in Procs |->
                     IF \E i \in 1 .. w : wait_list[s][i] = p
                     THEN "READY" ELSE status[p]]
     /\ UNCHANGED halted

\* n times sem_v(s): every V that leaves the value at or below 0 readies the
\* next waiter, and faults when there is none.
sem_v_times(s, n) ==
  LET k == IF value[s] >= 0 THEN 0 ELSE Min({n, -value[s]})
      w == Min({k, Len(wait_list[s])})
  IN /\ value' = [value EXCEPT ![s] = @ + n]
     /\ wait_list' = [wait_list EXCEPT ![s] = SubSeq(@, w + 1, Len(@))]
     /\ free_nodes' = free_nodes + w
     /\ status' = [p \in Procs |->
                     IF \E i \in 1 .. w : wait_list[s][i] = p
                     THEN "READY" ELSE status[p]]
     /\ halted' = (k > w)

push_back_early(c) ==
  /\ tail - head < MAX_UNREAD
  /\ buffer' = [buffer EXCEPT ![slot(tail)] = c]
  /\ tail' = tail + 1
  /\ IF c = "newline"
     THEN /\ sem_v_times(serial_sem, tail - clapboard)
          /\ clapboard' = tail + 1
     ELSE UNCHANGED <<value, wait_list, free_nodes, status, halted, clapboard>>
  /\ UNCHANGED head

\* There is no test for a full buffer: the oldest character is overwritten.
push_back(c) ==
  /\ tail - head < MAX_UNREAD
  /\ buffer' = [buffer EXCEPT ![slot(tail)] = c]
  /\ tail' = tail + 1
  /\ IF c = "newline"
     THEN /\ sem_v_times(serial_sem, tail + 1 - clapboard)
          /\ clapboard' = tail + 1
     ELSE UNCHANGED <<value, wait_list, free_nodes, status, halted, clapboard>>
  /\ UNCHANGED head

serial_handle(c) ==
  /\ interruptible
  /\ push_back(c)
  /\ UNCHANGED <<curr, ctx, sem_arg, sleep, parent, child_num, usems, ref,
                 tick, left>>

\* pop_back; does nothing when the line being typed is empty.  Control
\* characters are dropped without any effect.
serial_backspace ==
  /\ interruptible
  /\ tail' = IF tail > clapboard THEN tail - 1 ELSE tail
  /\ UNCHANGED <<vars, buffer, head, clapboard, left>>

-----------------------------------------------------------------------------
(***************************************************************************)
(* Readers.                                                                *)
(***************************************************************************)

serial_read(n) ==
  /\ in_user
  /\ IF n = 0
     THEN UNCHANGED <<ctx, left>>
     ELSE /\ ctx' = [ctx EXCEPT ![curr] = "read"]
          /\ left' = [left EXCEPT ![curr] = n]
  /\ UNCHANGED <<curr, status, sem_arg, sleep, parent, child_num, value,
                 wait_list, free_nodes, usems, ref, tick, halted,
                 buffer, head, clapboard, tail>>

\* pop_front's result; it is the character 0 when no finished line is left.
front == IF clapboard > head THEN buffer[slot(head)] ELSE "nul"

\* The counters after head has moved to h.
move_head(h) ==
  LET d == IF h = BUFFER_SIZE THEN BUFFER_SIZE ELSE 0
  IN /\ head' = h - d
     /\ clapboard' = clapboard - d
     /\ tail' = tail - d

\* pop_front and what getchar and serial_read do with the character: getchar
\* asserts that there is one, serial_read stops after count or a newline.
take_char ==
  /\ halted' = (front = "nul")
  /\ move_head(IF clapboard > head THEN head + 1 ELSE head)
  /\ IF front = "newline" \/ left[curr] = 1
     THEN /\ ctx' = [ctx EXCEPT ![curr] = "user"]
          /\ left' = [left EXCEPT ![curr] = 0]
     ELSE /\ ctx' = [ctx EXCEPT ![curr] = "read"]
          /\ left' = [left EXCEPT ![curr] = @ - 1]
  /\ UNCHANGED <<curr, status, sleep, parent, child_num, usems, ref, tick,
                 buffer>>

getchar ==
  /\ resumes("read")
  /\ \/ sem_p_takes(serial_sem) /\ take_char /\ UNCHANGED sem_arg
     \/ /\ sem_p_blocks(serial_sem, "getchar")
        /\ UNCHANGED <<sleep, parent, child_num, usems, ref, tick, svars>>

getchar_woken ==
  /\ resumes("getchar")
  /\ take_char
  /\ sem_arg' = [sem_arg EXCEPT ![curr] = NULL]
  /\ UNCHANGED <<value, wait_list, free_nodes>>

Enter == serial_handle("newline")

SerialNext ==
  \/ Next /\ UNCHANGED svars
  \/ \E c \in Chars : serial_handle(c)
  \/ serial_backspace
  \/ \E n \in ReadCounts : serial_read(n)
  \/ getchar
  \/ getchar_woken

SerialSpec == SerialInit /\ [][SerialNext]_allvars

\* The fairness of Proc; nothing is assumed of who types or of the programs.
SerialFairSpec ==
  /\ SerialSpec
  /\ SF_allvars(timer_handle /\ UNCHANGED svars)
  /\ WF_allvars(sys_sleep_again /\ UNCHANGED svars)
  /\ WF_allvars(sys_wait_woken /\ UNCHANGED svars)
  /\ WF_allvars(sys_sem_p_woken /\ UNCHANGED svars)
  /\ WF_allvars(getchar)
  /\ WF_allvars(getchar_woken)

-----------------------------------------------------------------------------
(***************************************************************************)
(* Properties.                                                             *)
(***************************************************************************)

\* getchar's assertion rests on this: the characters of finished lines are
\* the units of serial_sem, counted by its value or by a wake-up on its way
\* to a reader, with an editor, several readers and partial reads at work.
SerialCredits ==
  ~halted =>
    /\ head <= clapboard /\ clapboard <= tail
    /\ clapboard - head
         = (IF value[serial_sem] > 0 THEN value[serial_sem] ELSE 0)
           + Cardinality({p \in Procs : woken(p, serial_sem)})

text(from, to) == [k \in 1 .. to - from |-> buffer[slot(from + k - 1)]]

Console == INSTANCE LineInput
  WITH Newline <- "newline", Capacity <- BUFFER_SIZE,
       ready <- text(head, clapboard), editing <- text(clapboard, tail)

\* The ring buffer implements the line discipline: no character of a finished
\* line is lost, changed, repeated or overtaken, and Enter and backspace act
\* on the line being typed only, until the buffer overflows.
ImplementsLineInput == Console!Spec

\* While lines keep coming, every process that waits for a character gets on:
\* wake-ups of several readers by one line do not starve anybody.
ReaderProgress ==
  []<><<Enter>>_allvars =>
    \A p \in Procs : ctx[p] = "getchar" ~> ctx[p] # "getchar"
=============================================================================
