------------------------------- MODULE Malloc -------------------------------
(***************************************************************************)
(* The heap of a user program: malloc, free and morecore of                *)
(* user/ulib/stdlib.c, on the sbrk of the same file.                       *)
(*                                                                         *)
(* Memory is counted in units of the size of a Header.  Unit 0 is the      *)
(* static variable base; the heap starts at end.  hdr has the headers of   *)
(* base and of all blocks, free or not; every other unit is the program's  *)
(* or holds a header that is no longer one, and must not be read.          *)
(*                                                                         *)
(* As in Proc, a definition that adds a suffix to the name of the one that *)
(* follows it is a mutant of that definition.                              *)
(***************************************************************************)
EXTENDS Integers, FiniteSets, FiniteSetsExt

CONSTANTS
  HSIZE,   \* sizeof(Header)
  NALLOC,  \* the least number of units that morecore asks for (4096)
  end,     \* where the heap starts
  LIMIT,   \* the program's memory ends here
  Sizes    \* what the program asks for, in bytes

NULL == -1
base == 0

ASSUME MallocAssumption ==
  /\ HSIZE \in Nat \ {0} /\ NALLOC \in Nat \ {0}
  /\ LIMIT \in Nat /\ end \in 1 .. LIMIT
  /\ Sizes \subseteq Nat

VARIABLES
  hdr,      \* the headers, by address: the next free block, and the size
  freep,    \* where the last search ended; NULL before the first malloc
  old_brk,  \* the end of the heap, as sbrk knows it
  held      \* held[ap]: the bytes that the program may use at ap

vars == <<hdr, freep, old_brk, held>>

empty == [ap \in {} |-> 0]

Init ==
  /\ hdr = [a \in {base} |-> [ptr |-> 0, size |-> 0]]
  /\ freep = NULL
  /\ old_brk = end
  /\ held = empty

-----------------------------------------------------------------------------
(***************************************************************************)
(* The functions, on a heap h = [hdr, freep].                              *)
(***************************************************************************)

put(m, a, x) == [u \in DOMAIN m \cup {a} |-> IF u = a THEN x ELSE m[u]]
drop(m, a) == [u \in DOMAIN m \ {a} |-> m[u]]

\* The circular list from freep on.
walk(h) ==
  LET w[n \in 0 .. LIMIT] == IF n = 0 THEN h.freep ELSE h.hdr[w[n - 1]].ptr
  IN w

\* Where the loop of free ends: between p and the next block, or, at the end of
\* the list, behind or before all blocks.
belongs(bp, p, next) ==
  \/ p < bp /\ bp < next
  \/ p >= next /\ (bp > p \/ bp < next)

predecessor(h, bp) ==
  walk(h)[Min({n \in 0 .. LIMIT : belongs(bp, walk(h)[n], h.hdr[walk(h)[n]].ptr)})]

\* bp takes in the block behind it if that is the next one in the list ...
join_next(m, bp, next) ==
  IF bp + m[bp].size = next
  THEN drop([m EXCEPT ![bp] = [ptr |-> m[next].ptr, size |-> @.size + m[next].size]],
            next)
  ELSE [m EXCEPT ![bp].ptr = next]

\* ... and the one before it takes bp in, or points to it.
join_prev(m, p, bp) ==
  IF p + m[p].size = bp
  THEN drop([m EXCEPT ![p] = [ptr |-> m[bp].ptr, size |-> @.size + m[bp].size]], bp)
  ELSE [m EXCEPT ![p].ptr = bp]

free_at(m, p, bp) == [hdr |-> join_prev(join_next(m, bp, m[p].ptr), p, bp), freep |-> p]
free(h, ap) == free_at(h.hdr, predecessor(h, ap - 1), ap - 1)

nunits_short(nbytes) == (nbytes + HSIZE - 1) \div HSIZE
nunits(nbytes) == (nbytes + HSIZE - 1) \div HSIZE + 1

\* The first malloc makes a list of base alone.
heap ==
  IF freep # NULL THEN [hdr |-> hdr, freep |-> freep]
  ELSE [hdr |-> put(hdr, base, [ptr |-> base, size |-> 0]), freep |-> base]

\* How far the search goes: the blocks behind freep, freep last.
turn_short(h) == 1 .. Min({n \in 1 .. LIMIT : walk(h)[n] = h.freep}) - 1
turn(h) == 1 .. Min({n \in 1 .. LIMIT : walk(h)[n] = h.freep})
fits(h, nu) == {n \in turn(h) : h.hdr[walk(h)[n]].size >= nu}

\* morecore, with the block that sbrk has added.
core(nu) == Max({nu, NALLOC})
morecore(h, nu) ==
  free([h EXCEPT !.hdr = put(@, old_brk, [ptr |-> NULL, size |-> core(nu)])],
       old_brk + 1)

\* A block of nu units out of p: all of it, or its tail.  at is its header,
\* whose ptr is not used any more.
take(m, prevp, p, nu) ==
  IF m[p].size = nu
  THEN [hdr |-> [m EXCEPT ![prevp].ptr = m[p].ptr, ![p].ptr = NULL],
        freep |-> prevp, at |-> p]
  ELSE [hdr |-> put([m EXCEPT ![p].size = @ - nu], p + m[p].size - nu,
                    [ptr |-> NULL, size |-> nu]),
        freep |-> prevp, at |-> p + m[p].size - nu]

take_first(h, nu) ==
  LET n == Min(fits(h, nu))
  IN take(h.hdr, walk(h)[n - 1], walk(h)[n], nu)

returned(nbytes, h) ==
  /\ hdr' = h.hdr
  /\ freep' = h.freep
  /\ held' = put(held, h.at + 1, nbytes)

\* A block that is large enough is found on the list ...
malloc(nbytes) ==
  /\ fits(heap, nunits(nbytes)) # {}
  /\ returned(nbytes, take_first(heap, nunits(nbytes)))
  /\ UNCHANGED old_brk

\* ... or the heap grows first.  brk never fails: when there are no pages left
\* the kernel panics, so that malloc's return of 0 is never reached.
malloc_more(nbytes) ==
  /\ fits(heap, nunits(nbytes)) = {}
  /\ old_brk + core(nunits(nbytes)) <= LIMIT
  /\ returned(nbytes, take_first(morecore(heap, nunits(nbytes)), nunits(nbytes)))
  /\ old_brk' = old_brk + core(nunits(nbytes))

\* The program gives back what it got, once.
call_free(ap) ==
  /\ \E h \in {free(heap, ap)} : hdr' = h.hdr /\ freep' = h.freep
  /\ held' = drop(held, ap)
  /\ UNCHANGED old_brk

Next ==
  \/ \E nbytes \in Sizes : malloc(nbytes) \/ malloc_more(nbytes)
  \/ \E ap \in DOMAIN held : call_free(ap)

Spec == Init /\ [][Next]_vars

-----------------------------------------------------------------------------
(***************************************************************************)
(* Properties.                                                             *)
(***************************************************************************)

free_blocks ==
  IF freep = NULL THEN {} ELSE {walk(heap)[n] : n \in 0 .. LIMIT} \ {base}
free_units(b) == b .. b + hdr[b].size - 1

\* The header of a block and the bytes that the program may use.
held_units(ap) == ap - 1 .. ap - 1 + (held[ap] + HSIZE - 1) \div HSIZE

\* Every unit between end and the break is in one block, free or held, and free
\* blocks are never neighbours: a block is the program's alone, and whatever is
\* freed, in whatever order, grows together again.
Partitioned ==
  /\ UNION ({free_units(b) : b \in free_blocks} \cup {held_units(ap) : ap \in DOMAIN held})
       = end .. old_brk - 1
  /\ \A b, c \in free_blocks : b # c => free_units(b) \cap free_units(c) = {}
  /\ \A ap, aq \in DOMAIN held : ap # aq => held_units(ap) \cap held_units(aq) = {}
  /\ \A b \in free_blocks, ap \in DOMAIN held : free_units(b) \cap held_units(ap) = {}
  /\ \A b, c \in free_blocks : b + hdr[b].size # c

\* The heap grows only when no run of free units is long enough: the search,
\* which starts where the last call has left off, misses no block, and in
\* particular not the one that it started at.
GrowsWhenNeeded ==
  [][old_brk' # old_brk =>
       \A b \in free_blocks, ap \in DOMAIN held' \ DOMAIN held :
         hdr[b].size < nunits(held'[ap])]_vars
=============================================================================
