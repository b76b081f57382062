----------------------------- MODULE LineInput -----------------------------
(***************************************************************************)
(* What the console of kernel/src/serial.c promises to its readers: a line *)
(* can be edited until Enter, then its characters are handed out, each one *)
(* once and in order.  The promise ends when more characters are unread    *)
(* than the buffer holds.                                                  *)
(***************************************************************************)
EXTENDS Sequences, Integers

CONSTANTS Chars, Newline, Capacity

VARIABLES
  ready,    \* the characters of finished lines that nobody has read
  editing   \* the line being typed

vars == <<ready, editing>>

Init == ready = <<>> /\ editing = <<>>

roomy == Len(ready) + Len(editing) < Capacity

Type(c) ==
  /\ roomy
  /\ editing' = Append(editing, c)
  /\ UNCHANGED ready

Erase ==
  /\ editing # <<>>
  /\ editing' = SubSeq(editing, 1, Len(editing) - 1)
  /\ UNCHANGED ready

Enter ==
  /\ roomy
  /\ ready' = ready \o Append(editing, Newline)
  /\ editing' = <<>>

Read ==
  /\ ready # <<>>
  /\ ready' = Tail(ready)
  /\ UNCHANGED editing

\* Typing into a full buffer: characters are lost, the counts are not.
Overrun ==
  /\ ~roomy
  /\ \/ Len(editing') = Len(editing) + 1 /\ Len(ready') = Len(ready)
     \/ editing' = <<>> /\ Len(ready') = Len(ready) + Len(editing) + 1

Next == Enter \/ Erase \/ Read \/ Overrun \/ \E c \in Chars : Type(c)

Spec == Init /\ [][Next]_vars
=============================================================================
