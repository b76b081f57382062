--------------------------- MODULE AddressSpaces ---------------------------
(***************************************************************************)
(* What virtual memory promises to the processes: each has a space of its  *)
(* own, a function from its mapped pages to their contents.  Running a     *)
(* program starts with that program's pages, fork copies, a write changes  *)
(* one page of the writer, consecutive pages can be mapped, which start    *)
(* with zeros unless they are there already, and unmapped, and nothing     *)
(* that one process does changes a page of another.                        *)
(***************************************************************************)
EXTENDS Integers

CONSTANTS
  Procs,     \* the processes
  Pages,     \* the numbers of the pages of a space
  Bytes,     \* contents of a page
  Zero,      \* the content of a new heap page
  Programs   \* what a program starts with: a set of spaces

VARIABLES
  space,   \* space[p]: the mapped pages of p and their contents
  dead     \* the processes that have exited and still have a space

vars == <<space, dead>>

none == [v \in {} |-> Zero]
Alive(p) == space[p] # none /\ p \notin dead

Init ==
  /\ dead = {}
  /\ \E p \in Procs, s \in Programs :
       space = [q \in Procs |-> IF q = p THEN s ELSE none]

Write(p, v, x) ==
  /\ v \in DOMAIN space[p]
  /\ space' = [space EXCEPT ![p][v] = x]

Fork(p, c) ==
  /\ space[c] = none
  /\ space' = [space EXCEPT ![c] = space[p]]

Exec(p, s) == space' = [space EXCEPT ![p] = s]

\* The pages lo..hi are there; those that were there before keep their contents.
Map(p, lo, hi) ==
  space' = [space EXCEPT ![p] =
              [v \in DOMAIN @ \cup lo .. hi |-> IF v \in DOMAIN @ THEN @[v] ELSE Zero]]

\* The pages lo..hi are not there any more.
Unmap(p, lo, hi) ==
  space' = [space EXCEPT ![p] = [v \in DOMAIN @ \ (lo .. hi) |-> @[v]]]

Exit(p) == dead' = dead \cup {p} /\ UNCHANGED space

Reap(z) ==
  /\ z \in dead
  /\ dead' = dead \ {z}
  /\ space' = [space EXCEPT ![z] = none]

Next ==
  \E p \in Procs :
    \/ Reap(p)
    \/ Alive(p) /\ Exit(p)
    \/ /\ Alive(p)
       /\ \/ \E v \in DOMAIN space[p], x \in Bytes : Write(p, v, x)
          \/ \E c \in Procs : Fork(p, c)
          \/ \E s \in Programs : Exec(p, s)
          \/ \E lo, hi \in Pages : Map(p, lo, hi) \/ Unmap(p, lo, hi)
       /\ UNCHANGED dead

Spec == Init /\ [][Next]_vars
=============================================================================
