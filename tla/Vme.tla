-------------------------------- MODULE Vme --------------------------------
(***************************************************************************)
(* Virtual memory of toyOS: the page allocator and the page tables of      *)
(* kernel/src/vme.c, and what fork, exec, exit, wait, brk and the loader   *)
(* do with them (proc.c, syscall.c, loader.c), down to single frames.      *)
(*                                                                         *)
(* mem[f] is the content of frame f.  A frame may be read as a page table, *)
(* a page directory or data, whatever it is used for: e are its entries,   *)
(* kern says that the entries below PHY_MEM map the kernel, b stands for   *)
(* its bytes.  Addresses count from PHY_MEM, the start of user space.      *)
(*                                                                         *)
(* Kernel code runs with interrupts off, so a system call is one action.   *)
(* Who runs is left open here (any READY process, any zombie): module Proc *)
(* is about that.  After a panic, a failed assertion, a fault in the       *)
(* kernel or a corrupted free list nothing more is modelled.               *)
(*                                                                         *)
(* As in Proc, a definition that adds a suffix to the name of the one that *)
(* follows it is a mutant of that definition.                              *)
(***************************************************************************)
EXTENDS Integers, Sequences, SequencesExt

CONSTANTS
  PROC_NUM,    \* number of PCBs; pcb[0] is the kernel process
  NPAGES,      \* frames of the kernel heap [KER_MEM, PHY_MEM)
  NR_PDE,      \* directory entries of user space
  NR_PTE,      \* entries of a page table
  PGSIZE,      \* bytes of a page
  Image,       \* Image[name]: pages of the program's segments, and its end
  FirstProg,   \* the program that is run at boot
  Paths,       \* the names that programs pass to exec
  Bytes,       \* what programs write
  Increments   \* what programs pass to sbrk

NULL == -1
Procs == 0 .. PROC_NUM - 1
Frames == 0 .. NPAGES - 1
kpd == NPAGES                     \* the kernel's own directory, not in the heap
Pages == 0 .. NR_PDE * NR_PTE - 1
stack == NR_PDE * NR_PTE - 1      \* the page below USR_MEM

ASSUME VmeAssumption ==
  /\ PROC_NUM \in Nat /\ PROC_NUM >= 2
  /\ NPAGES \in Nat /\ NR_PDE \in Nat \ {0} /\ NR_PTE \in Nat \ {0}
  /\ PGSIZE \in Nat \ {0}
  /\ FirstProg \in DOMAIN Image
  /\ \A n \in DOMAIN Image :
       /\ Image[n].end \in 1 .. stack
       /\ Image[n].pages \in Seq([v : 0 .. Image[n].end - 1, w : BOOLEAN])
  /\ Increments \subseteq Int

VARIABLES
  curr,            \* the process on the CPU
  status,          \* UNUSED, READY (or RUNNING or BLOCKED), ZOMBIE
  cr3,             \* the directory that the CPU uses
  pgdir,           \* pcb[p].pgdir
  kstack,          \* pcb[p].kstack
  brk,             \* pcb[p].brk
  free_page_list,  \* from its head on
  mem,             \* the contents of all frames
  fault,           \* why the machine has stopped
  prog,            \* the program that p runs
  old_brk,         \* the user library's idea of p's break; 0: none yet
  gap              \* a history variable that no guard reads: the pages that
                   \* p has asked brk for and that brk did not map

vars == <<curr, status, cr3, pgdir, kstack, brk, free_page_list, mem, fault,
          prog, old_brk, gap>>

Faults == {"none", "heap empty", "kfree assert", "double free", "pgfault",
           "no kernel"}

no_entry == [page |-> 0, p |-> FALSE, w |-> FALSE]
zeroed == [e |-> [i \in 0 .. (IF NR_PTE > NR_PDE THEN NR_PTE ELSE NR_PDE) - 1
                    |-> no_entry],
           kern |-> FALSE, b |-> "zero"]

PAGE_UP(a) == ((a + PGSIZE - 1) \div PGSIZE) * PGSIZE
DIR(v) == v \div NR_PTE
TBL(v) == v % NR_PTE

-----------------------------------------------------------------------------
(***************************************************************************)
(* The functions of vme.c as functions of the machine's memory            *)
(* m = [free, mem, fault].  Nothing happens after a fault.                 *)
(***************************************************************************)

now == [free |-> free_page_list, mem |-> mem, fault |-> fault]
ok(m) == m.fault = "none"
stop(m, why) == [m EXCEPT !.fault = why]

\* The frame that the next kalloc returns.
fresh(m) == Head(m.free)

kalloc(m) ==
  IF ~ok(m) THEN m
  ELSE IF m.free = <<>> THEN stop(m, "heap empty")
  ELSE [m EXCEPT !.free = Tail(@), !.mem[Head(m.free)] = zeroed]

\* kfree asserts that the head of the free list is a page, which NULL is not.
\* It does not notice that the page is free already; the list then has a cycle.
kfree(m, f) ==
  IF ~ok(m) THEN m
  ELSE IF m.free = <<>> THEN stop(m, "kfree assert")
  ELSE IF f \in ToSet(m.free) THEN stop(m, "double free")
  ELSE [m EXCEPT !.free = <<f>> \o @, !.mem[f] = zeroed]

\* The new directory is fresh(m).
vm_alloc(m) ==
  LET n == kalloc(m)
  IN IF ok(n) THEN [n EXCEPT !.mem[fresh(m)].kern = TRUE] ELSE n

pte(m, pd, v) ==
  LET pde == m.mem[pd].e[DIR(v)]
  IN IF pde.p THEN m.mem[pde.page].e[TBL(v)] ELSE no_entry

\* vm_walkpte for a mapping: a missing page table is allocated.
vm_walkpte(m, pd, v, w) ==
  IF ~ok(m) THEN m
  ELSE IF m.mem[pd].e[DIR(v)].p
  THEN [m EXCEPT !.mem[pd].e[DIR(v)].w = @ \/ w]
  ELSE LET n == kalloc(m)
       IN IF ok(n) THEN [n EXCEPT !.mem[pd].e[DIR(v)] =
                           [page |-> fresh(m), p |-> TRUE, w |-> w]]
          ELSE n

\* One round of vm_map's loop.
vm_map_page(m, pd, v, w) ==
  LET n == vm_walkpte(m, pd, v, w)
      pt == n.mem[pd].e[DIR(v)].page
  IN IF ~ok(n) THEN n
     ELSE IF n.mem[pt].e[TBL(v)].p
     THEN [n EXCEPT !.mem[pt].e[TBL(v)].w = @ \/ w]
     ELSE LET k == kalloc(n)
          IN IF ok(k) THEN [k EXCEPT !.mem[pt].e[TBL(v)] =
                              [page |-> fresh(n), p |-> TRUE, w |-> w]]
             ELSE k

\* The loops are recursive functions: done[k] is the memory after k rounds.
vm_map(m, pd, vs, w) ==
  LET done[k \in 0 .. Len(vs)] ==
        IF k = 0 THEN m ELSE vm_map_page(done[k - 1], pd, vs[k], w)
  IN done[Len(vs)]

unmap_page_keep(m, pd, v) ==
  IF pte(m, pd, v).p THEN kfree(m, pte(m, pd, v).page) ELSE m

\* One round of vm_unmap's loop: the present bit goes, the frame number stays in
\* the entry.
unmap_page(m, pd, v) ==
  IF pte(m, pd, v).p
  THEN [kfree(m, pte(m, pd, v).page)
          EXCEPT !.mem[m.mem[pd].e[DIR(v)].page].e[TBL(v)].p = FALSE]
  ELSE m

vm_unmap(m, pd, vs) ==
  LET done[k \in 0 .. Len(vs)] ==
        IF k = 0 THEN m ELSE unmap_page(done[k - 1], pd, vs[k])
  IN done[Len(vs)]

\* The page of a table's entry, if there is one.
free_pte(m, entry) == IF entry.p THEN kfree(m, entry.page) ELSE m

\* The pages of a table and the table itself.
free_table(m, pt) ==
  LET done[j \in 0 .. NR_PTE] ==
        IF j = 0 THEN m ELSE free_pte(done[j - 1], m.mem[pt].e[j - 1])
  IN kfree(done[NR_PTE], pt)

\* The table of a directory's entry, if there is one.
free_pde(m, pde) == IF pde.p THEN free_table(m, pde.page) ELSE m

free_tables(m, pd) ==
  LET done[i \in 0 .. NR_PDE] ==
        IF i = 0 THEN m ELSE free_pde(done[i - 1], m.mem[pd].e[i - 1])
  IN done[NR_PDE]

vm_teardown_keep(m, pd) == free_tables(m, pd)
vm_teardown(m, pd) == kfree(free_tables(m, pd), pd)

\* The contents of the page v in the space of pd, for reading and writing.
frame_of(m, pd, v) == pte(m, pd, v).page
put(m, pd, v, x) ==
  IF ok(m) THEN [m EXCEPT !.mem[frame_of(m, pd, v)].b = x] ELSE m

copy_page_empty(m, pd, v) ==
  IF ok(m) /\ pte(m, cr3, v).p THEN vm_map_page(m, pd, v, pte(m, cr3, v).w) ELSE m

\* A page that is mapped in the CPU's directory is mapped in pd and copied.
copy_page(m, pd, v) ==
  IF ok(m) /\ pte(m, cr3, v).p
  THEN put(vm_map_page(m, pd, v, pte(m, cr3, v).w), pd, v,
           m.mem[frame_of(m, cr3, v)].b)
  ELSE m

vm_copycurr(m, pd) ==
  LET done[k \in 0 .. stack + 1] ==
        IF k = 0 THEN m ELSE copy_page(done[k - 1], pd, k - 1)
  IN done[stack + 1]

\* A page of a program, with the content x.
load_page(m, pd, v, w, x) == put(vm_map_page(m, pd, v, w), pd, v, x)

load_segs(m, pd, name) ==
  LET segs == Image[name].pages
      done[k \in 0 .. Len(segs)] ==
        IF k = 0 THEN m
        ELSE load_page(done[k - 1], pd, segs[k].v, segs[k].w, name)
  IN done[Len(segs)]

\* load_user for a program that exists: its segments, then the stack page, on
\* which load_arg puts the arguments.
load_user(m, pd, name) ==
  load_page(load_segs(m, pd, name), pd, stack, TRUE, "args")

-----------------------------------------------------------------------------
(***************************************************************************)
(* Init: init_page, and init_user_and_go with its proc_alloc and load_user.*)
(***************************************************************************)

boot == [free |-> [i \in 1 .. NPAGES |-> i - 1],
         mem |-> [f \in Frames \cup {kpd} |->
                    IF f = kpd THEN [zeroed EXCEPT !.kern = TRUE] ELSE zeroed],
         fault |-> "none"]

Init ==
  LET m == load_user(kalloc(vm_alloc(boot)), 0, FirstProg)
  IN /\ curr = 0 /\ cr3 = kpd
     /\ status = [p \in Procs |-> IF p <= 1 THEN "READY" ELSE "UNUSED"]
     /\ pgdir = [p \in Procs |-> IF p = 0 THEN kpd ELSE IF p = 1 THEN 0 ELSE NULL]
     /\ kstack = [p \in Procs |-> IF p = 1 THEN 1 ELSE NULL]
     /\ brk = [p \in Procs |-> 0]
     /\ free_page_list = m.free /\ mem = m.mem /\ fault = m.fault
     /\ prog = [p \in Procs |-> FirstProg]
     /\ old_brk = [p \in Procs |-> 0]
     /\ gap = [p \in Procs |-> {}]

\* The call goes through and leaves the memory m, or it stops the machine.
commit(m) ==
  /\ ok(m)
  /\ free_page_list' = m.free /\ mem' = m.mem /\ fault' = m.fault

crash(m) ==
  /\ ~ok(m)
  /\ fault' = m.fault
  /\ UNCHANGED <<curr, status, cr3, pgdir, kstack, brk, free_page_list, mem,
                 prog, old_brk, gap>>

in_user == ok(now) /\ curr # 0

-----------------------------------------------------------------------------
(***************************************************************************)
(* Processes.                                                              *)
(***************************************************************************)

\* proc_run loads the directory of the PCB; if it does not map the kernel, the
\* next instruction faults.
proc_run(p) ==
  /\ curr' = p
  /\ cr3' = pgdir[p]
  /\ fault' = IF mem[pgdir[p]].kern THEN "none" ELSE "no kernel"

\* A timer interrupt, a yield or a blocking call.
schedule(p) ==
  /\ ok(now)
  /\ status[p] = "READY"
  /\ proc_run(p)
  /\ UNCHANGED <<status, pgdir, kstack, brk, free_page_list, mem, prog, old_brk,
                 gap>>

unused == {p \in Procs \ {0} : status[p] = "UNUSED"}

\* proc_alloc's brk is 0, and proc_copycurr does not copy the parent's.  The
\* user library's variable is part of the memory that is copied.  Without an
\* unused PCB the call returns -1 and changes nothing.
sys_fork ==
  /\ in_user
  /\ unused # {}
  /\ LET c == CHOOSE p \in unused : \A q \in unused : p <= q
         m1 == vm_alloc(now)
         m2 == kalloc(m1)
         m == IF ok(m2) THEN vm_copycurr(m2, fresh(now)) ELSE m2
     IN \/ /\ commit(m)
           /\ status' = [status EXCEPT ![c] = "READY"]
           /\ pgdir' = [pgdir EXCEPT ![c] = fresh(now)]
           /\ kstack' = [kstack EXCEPT ![c] = fresh(m1)]
           /\ brk' = [brk EXCEPT ![c] = 0]
           /\ prog' = [prog EXCEPT ![c] = prog[curr]]
           /\ old_brk' = [old_brk EXCEPT ![c] = old_brk[curr]]
           /\ gap' = [gap EXCEPT ![c] = gap[curr]]
           /\ UNCHANGED <<curr, cr3>>
        \/ crash(m)

\* The memory of a process outlives it until it is reaped.
sys_exit ==
  /\ in_user
  /\ status' = [status EXCEPT ![curr] = "ZOMBIE"]
  /\ \E p \in Procs \ {curr} : status[p] = "READY" /\ proc_run(p)
  /\ UNCHANGED <<pgdir, kstack, brk, free_page_list, mem, prog, old_brk, gap>>

\* proc_free, from sys_wait.
proc_free(z) ==
  /\ in_user
  /\ status[z] = "ZOMBIE"
  /\ LET m == kfree(vm_teardown(now, pgdir[z]), kstack[z])
     IN \/ /\ commit(m)
           /\ status' = [status EXCEPT ![z] = "UNUSED"]
           /\ UNCHANGED <<curr, cr3, pgdir, kstack, brk, prog, old_brk, gap>>
        \/ crash(m)

\* What load_user and the rest of sys_exec do to the memory: a program that
\* does not exist costs the new directory; otherwise the old directory is
\* freed, but not its tables and pages.
exec_mem(name) ==
  LET n == vm_alloc(now)
  IN IF ~ok(n) THEN n
     ELSE IF name \notin DOMAIN Image THEN kfree(n, fresh(now))
     ELSE kfree(load_user(n, fresh(now), name), cr3)

sys_exec_pcb(name) ==
  /\ in_user
  /\ \/ /\ commit(exec_mem(name))
        /\ IF name \in DOMAIN Image
           THEN /\ cr3' = fresh(now)
                /\ prog' = [prog EXCEPT ![curr] = name]
                /\ old_brk' = [old_brk EXCEPT ![curr] = 0]
                /\ gap' = [gap EXCEPT ![curr] = {}]
           ELSE UNCHANGED <<cr3, prog, old_brk, gap>>
        /\ UNCHANGED <<curr, status, kstack, brk, pgdir>>
     \/ crash(exec_mem(name))

\* The new directory is in the PCB before load_user looks for the program, and
\* stays there when there is none; brk is never reset.
sys_exec(name) ==
  /\ in_user
  /\ \/ /\ commit(exec_mem(name))
        /\ pgdir' = [pgdir EXCEPT ![curr] = fresh(now)]
        /\ IF name \in DOMAIN Image
           THEN /\ cr3' = fresh(now)
                /\ prog' = [prog EXCEPT ![curr] = name]
                /\ old_brk' = [old_brk EXCEPT ![curr] = 0]
                /\ gap' = [gap EXCEPT ![curr] = {}]
           ELSE UNCHANGED <<cr3, prog, old_brk, gap>>
        /\ UNCHANGED <<curr, status, kstack, brk>>
     \/ crash(exec_mem(name))

-----------------------------------------------------------------------------
(***************************************************************************)
(* The heap.                                                               *)
(***************************************************************************)

\* The pages of [from, to).
range(from, to) ==
  [i \in 1 .. (to - from) \div PGSIZE |-> from \div PGSIZE + i - 1]

brk_mem_down(addr) ==
  LET b == brk[curr]
      new == (addr \div PGSIZE) * PGSIZE
  IN IF b = 0 \/ new = b THEN now
     ELSE IF new > b THEN vm_map(now, cr3, range(b, new), TRUE)
     ELSE vm_unmap(now, cr3, range(new, b))

\* What sys_brk does to the memory ...
brk_mem(addr) ==
  LET b == brk[curr]
      new == PAGE_UP(addr)
  IN IF b = 0 \/ new = b THEN now
     ELSE IF new > b THEN vm_map(now, cr3, range(b, new), TRUE)
     ELSE vm_unmap(now, cr3, range(new, b))

\* The pages of [from, to) that the heap of a child lacks: the kernel does not
\* know its break, and a brk of 0 only makes sys_brk record the new one.
skipped(from, to) ==
  IF from # 0 /\ brk[curr] = 0 THEN ToSet(range(PAGE_UP(from), to)) ELSE {}

\* ... and, for the caller, the user library's sbrk, which remembers addr.
sys_brk(addr) ==
  LET m == brk_mem(addr)
      new == PAGE_UP(addr)
  IN \/ /\ commit(m)
        /\ brk' = [brk EXCEPT ![curr] = new]
        /\ old_brk' = [old_brk EXCEPT ![curr] = addr]
        /\ gap' = [gap EXCEPT ![curr] = {v \in @ : v < new \div PGSIZE}
                                          \cup skipped(old_brk[curr], new)]
        /\ UNCHANGED <<curr, status, cr3, pgdir, kstack, prog>>
     \/ crash(m)

heap_start(p) == Image[prog[p]].end * PGSIZE

\* The first sbrk of a program tells the kernel where its heap starts.
sbrk_first ==
  /\ in_user
  /\ old_brk[curr] = 0
  /\ sys_brk(heap_start(curr))

\* Programs keep their heap below their stack.
sbrk(inc) ==
  /\ in_user
  /\ old_brk[curr] # 0
  /\ old_brk[curr] + inc \in heap_start(curr) .. stack * PGSIZE
  /\ sys_brk(old_brk[curr] + inc)

\* The pages a program may write: writable segments, heap and stack.
own_pages(p) ==
  {s.v : s \in {x \in ToSet(Image[prog[p]].pages) : x.w}}
    \cup (IF old_brk[p] = 0 THEN {}
          ELSE ToSet(range(heap_start(p), PAGE_UP(old_brk[p]))))
    \cup {stack}

\* A program writes to a page of its own.  A page fault stops the kernel.
store(v, x) ==
  /\ in_user
  /\ v \in own_pages(curr)
  /\ LET m == IF pte(now, cr3, v).p /\ pte(now, cr3, v).w
              THEN put(now, cr3, v, x) ELSE stop(now, "pgfault")
     IN \/ /\ commit(m)
           /\ UNCHANGED <<curr, status, cr3, pgdir, kstack, brk, prog, old_brk, gap>>
        \/ crash(m)

stopped == ~ok(now) /\ UNCHANGED vars

Next ==
  \/ \E p \in Procs : schedule(p) \/ proc_free(p)
  \/ sys_fork
  \/ sys_exit
  \/ \E name \in Paths : sys_exec(name)
  \/ sbrk_first
  \/ \E inc \in Increments : sbrk(inc)
  \/ \E v \in Pages, x \in Bytes : store(v, x)
  \/ stopped

Spec == Init /\ [][Next]_vars

-----------------------------------------------------------------------------
(***************************************************************************)
(* Properties.                                                             *)
(***************************************************************************)

used == {p \in Procs \ {0} : status[p] # "UNUSED"}
live == {p \in Procs \ {0} : status[p] = "READY"}

\* The frames of a space besides its directory: page tables and pages.
tables_of(pd) == {<<d, mem[pd].e[d].page>> :
                    d \in {i \in 0 .. NR_PDE - 1 : mem[pd].e[i].p}}
pages_of(pd) == {<<v, frame_of(now, pd, v)>> :
                   v \in {u \in Pages : pte(now, pd, u).p}}

\* All references to frames, as pairs of the place that refers and the frame.
references ==
  {<<<<"free", i>>, free_page_list[i]>> : i \in DOMAIN free_page_list}
    \cup {<<<<"kstack", p>>, kstack[p]>> : p \in used}
    \cup {<<<<"pgdir", p>>, pgdir[p]>> : p \in used}
    \cup (UNION {{<<<<"table", p, t[1]>>, t[2]>> : t \in tables_of(pgdir[p])} :
                   p \in used})
    \cup (UNION {{<<<<"page", p, t[1]>>, t[2]>> : t \in pages_of(pgdir[p])} :
                   p \in used})

\* No frame is used twice, and none that is used is on the free list: whatever
\* sequence of fork, exec, brk, exit and wait has been made.
OneOwner ==
  ok(now) => Cardinality({r[2] : r \in references}) = Cardinality(references)

\* The CPU uses the directory of the running process, and every directory that
\* schedule may load maps the kernel (syscall.c: after a failed exec "the
\* original program goes on").
CurrentSpace ==
  ok(now) => /\ cr3 = pgdir[curr]
             /\ \A p \in live : mem[pgdir[p]].kern

\* The only pages of its segments, heap and stack that a program may lack are
\* those that sys_brk recorded without mapping them, because the kernel does
\* not know the break of a child; although exec keeps the break of the program
\* before, brk maps from there, and parent and child grow and shrink apart.
OwnPagesMapped ==
  ok(now) => \A p \in live : \A v \in own_pages(p) \ gap[p] :
    pte(now, pgdir[p], v).p /\ pte(now, pgdir[p], v).w

\* sys_brk (syscall.c:64): "our system's program break is never less than the
\* one of the user program".  It is less in the child of a fork (proc.c:36).
BreakCoversHeap == ok(now) => \A p \in live : old_brk[p] <= brk[p]

lost == Frames \ {r[2] : r \in references}

\* Every frame comes back: only exec loses any, and it loses the tables and
\* the pages of the old program, no more and no less.
PagesConserved ==
  [][ok(now)' => lost' = IF curr' = curr /\ cr3' # cr3
                         THEN lost \cup {t[2] : t \in tables_of(cr3) \cup pages_of(cr3)}
                         ELSE lost]_vars

mapped(p) == {v \in Pages : pte(now, pgdir[p], v).p}

space_of(p) ==
  IF p \in used
  THEN [v \in mapped(p) |-> mem[frame_of(now, pgdir[p], v)].b]
  ELSE [v \in {} |-> "zero"]

start_of(name) ==
  [v \in {s.v : s \in ToSet(Image[name].pages)} \cup {stack} |->
     IF v = stack THEN "args" ELSE name]

Spaces == INSTANCE AddressSpaces
  WITH Zero <- "zero", Programs <- {start_of(n) : n \in DOMAIN Image},
       space <- [p \in Procs |-> space_of(p)],
       dead <- {p \in Procs : status[p] = "ZOMBIE"}

\* Page tables, frames and the free list implement separate address spaces:
\* fork copies, exec replaces, brk maps zeroed pages and keeps what it finds
\* mapped, or takes pages away, and nobody's memory changes by what another process does.
ImplementsAddressSpaces == Spaces!Spec
=============================================================================
