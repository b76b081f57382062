------------------------------- MODULE MCVme -------------------------------
(***************************************************************************)
(* Instances of Vme for TLC; the other values are in the .cfg files.       *)
(***************************************************************************)
EXTENDS Vme

\* The first program has one page. The second one has two, and may not write
\* the last of them, where the break of the first program may be.
Programs ==
  "sh" :> [pages |-> <<[v |-> 0, w |-> TRUE]>>, end |-> 1]
  @@ "cat" :> [pages |-> <<[v |-> 0, w |-> TRUE], [v |-> 1, w |-> FALSE]>>, end |-> 2]

\* Grow by one and a half pages, shrink by one.
Steps == {3, -2}

\* The rights and the content of a page, and of all pages of a space.
page(entry) ==
  IF entry.p THEN <<entry.w, mem[entry.page].b>> ELSE <<>>
layout(pd) ==
  [d \in 0 .. NR_PDE - 1 |->
     LET pde == mem[pd].e[d]
     IN IF pde.p THEN <<pde.w, [t \in 0 .. NR_PTE - 1 |-> page(mem[pde.page].e[t])]>>
        ELSE <<>>]

\* States that differ in nothing but the numbers of frames are one state: no
\* step depends on a number, only on who refers to which frame.
UpToFrames ==
  <<curr, status, brk, prog, old_brk, gap, fault, Len(free_page_list),
    {p \in Procs : pgdir[p] = cr3}, Cardinality({r[2] : r \in references}),
    [p \in used |-> <<mem[pgdir[p]].kern, layout(pgdir[p])>>]>>
=============================================================================
