# A TLA+ model of toyOS

toyOS is a small x86 kernel: one CPU, preemptive processes, semaphores, paging,
a serial console and a disk file system. The modules here are translated from
the C code under `src/`; the names of operators, actions and variables are the
names of the functions and variables they stand for. `PROJECT.json` gives the
source lines of every definition, the runs, the mutants, the hazards and the
theorems.

## 1. The system

### Components, state, operations

| component | state | operations | what makes it correct |
|---|---|---|---|
| process table, scheduler (`kernel/src/proc.c`) | `pcb[64]`: status, saved context, parent, child count; `curr` | yield, block, ready, fork, exit, wait, schedule | one process runs; the scan for the next one ends and is fair; parents and children stay in step; a PCB is reused only when nobody refers to it |
| semaphores (`sem.c`, `klib/list.c`) | value and wait list of each `sem_t`; `user_sem[128]` with reference counts; a pool of 256 list nodes | P, V, open, dup, close | no P returns without a unit, no wake-up is lost, no waiter starves; value, wait list and process status agree |
| timer (`timer.c`) | a 32-bit tick | interrupt, sleep | a sleeper returns, wrap-around included |
| system calls (`syscall.c`), interrupt entry (`cte.c`, `trap.S`) | none of their own | the table of handlers | arguments are checked, failed calls change nothing |
| console (`serial.c`) | ring buffer with `head`, `clapboard`, `tail`; `serial_sem` | receive interrupt with line editing, blocking `getchar` | no character of a finished line is lost, repeated or overtaken; as many P's return as there are characters |
| block cache (`disk.c`) | 16 direct-mapped slots; the disk | read, write, zero a part of a block | a read returns what was last written; a restart loses nothing |
| virtual memory (`vme.c`, `loader.c`) | free page list, page directories and tables, `brk` | alloc, free, map, unmap, copy, teardown, exec, brk | a page has one owner; no page in use is on the free list; fork copies, exec replaces |
| files (`file.c`, `dev.c`) | table of open files with reference and offset | open, read, write, seek, dup, close | references count descriptors; offsets are shared by dup and fork |
| file system (`fs.c`, `utils/mkfs.c`) | inode cache, bitmaps, inodes, directories on disk | lookup, create, read, write, truncate, remove | a block or inode is either free or reachable once; a removed file lives until its last close; what a restart leaves is usable |
| shell (`user/src/phase6/sh.c`, `user/ulib/scanf.c`) | the line, the tree of a command, the descriptors and directory of each process | read a line, parse, fork, redirect, exec, wait, cd | a line runs what the grammar says, in its order, with its files; the prompt comes back |
| user heap (`user/ulib/stdlib.c`) | a ring of free blocks, `freep`, the break | malloc, free, morecore | blocks are disjoint and fill the heap; it grows only when it must |
| text filters (`user/src/phase6`: cat, wc, head, grep) | a buffer and counters | a loop of reads | the output does not depend on where the reads cut the text |
| C library (`lib/src`, `user/ulib`) | the input buffer of `scanf` | vsprintf, strtol, strtoul, scanf, strings | what was printed is read back; nothing wraps |
| condition variables (`lab/lab8`) | semaphores, a count of waiters | wait, broadcast | a signal is not lost |

### How they interact

The components call each other directly, with interrupts off. Every IDT entry is
an interrupt gate, so kernel code is interrupted only where it gives the CPU
away by itself: `proc_yield`, `proc_block` and the end of `sys_exit`, all through
`int $0x81` and `schedule`. What the kernel read before such a point may be
stale after it. Semaphores connect the rest: the serial interrupt V's
`serial_sem` for readers, an exiting child V's its parent's `zombie_sem`, user
programs use the user semaphores. The timer interrupt yields on behalf of the
running process. On the user side the shell is the only program that depends on
others: it forks, hands its descriptors to its children and waits for them.

### What is hard here

Wake-ups that are handed over long before the woken process runs; parents and
children that exit, wait and get their PCBs reused in any order; tables and
pools that run full; counters that wrap; blocks of the cache that alias;
switching the machine off in the middle of a write or between two calls; failure
in the middle of `exec` or of `open`; pages and blocks that are freed on several
paths; files that are removed while they are open, and directories while they are
somebody's current one; processes of the shell that end in any order while it
waits for one of them; text that is cut anywhere by the reads; the limits of an
integer; and, not modelled, the order of the metadata writes inside one call. `PROJECT.json` lists each hazard at its line with
the properties that would notice it.

## 2. The modules

| module | what it is |
|---|---|
| `Proc` | process table, scheduler, semaphores, wait lists, timer, the system calls on them |
| `CountingSem` | abstract: what a counting semaphore promises |
| `ProcSem` | `Proc` with a history variable; implements `CountingSem` |
| `CondSem` | the condition variable of `lab/lab8/condition_sem.c`, made of semaphores, with its producers and consumers |
| `BufferMonitor` | abstract: the same with the condition variable of the C library (`condition.c`) |
| `Serial` | the console on top of `Proc` |
| `LineInput` | abstract: what a line-buffered console promises |
| `BlockCache` | the block cache and the disk behind it, with restarts |
| `BlockStore` | abstract: an array of blocks |
| `Vme` | page allocator, page tables, and what fork, exec, exit, wait, brk do with them |
| `AddressSpaces` | abstract: every process has a memory of its own |
| `Fs` | inodes, blocks, directories, open files, descriptors, devices, the `mkfs` image, restarts |
| `FileStore` | abstract: objects, data and names |
| `Shell` | the shell: its parser, and the processes that run a line |
| `Malloc` | the heap of a user program |
| `Filters` | cat, wc, head and grep |
| `Numbers` | printing and reading integers: vsprintf, strtol, strtoul, scanf |
| `ProcProof` | theorems about `Proc` |
| `ProcSemProof`, `SerialProof` | theorems about `ProcSem` and `Serial`, on top of `ProcProof` |
| `VmeProof` | what the functions of `Vme` do to the memory, and its theorems |
| `FsProof` | what the functions of `Fs` do to the kernel's data, and its theorems |
| `CondSemProof`, `BlockCacheProof`, `MallocProof` | theorems about `CondSem`, `BlockCache` and `Malloc` |
| `MC...` | instances for TLC, with their `.cfg` files |

### Proc

An action is one uninterrupted stretch of kernel code: a system call up to its
end or up to the point where it gives the CPU away, or what it does after it has
been run again. `ctx[p]` stands for the saved context of process `p`: `"user"` is
user code, `"idle"` the loop of the kernel process, the other values name the
system call in which `p` gave the CPU away. `schedule(st, fault)` is the handler
of `int $0x81`; `st` are the statuses the caller left. A failed assertion, a
panic and a scan that finds no process set `halted`, after which there is no next
step: TLC reports a halted kernel as a deadlock, besides `NeverHalts`.

All semaphores live in one index space: `zombie_sem(p) = p`, then `user_sem`,
then `serial_sem`. `wait_list[s]` is the list from its oldest waiter on;
`free_nodes` is the length of the pool's free list. `proc_free` and
`proc_makezombie` leave the parent pointer and the descriptors in the PCB, and so
does the model. Left out: pids, exit codes, return values (no decision of the
kernel reads them). Memory is the subject of `Vme`, open files and the current
directory of `Fs`.

### Serial

`push_back`, `pop_back`, `pop_front` and `getchar` with the three counters.
`serial_read` is a loop around `getchar`, so it can be interrupted by other
readers between two characters; `left[p]` is what it still wants. The counters
are used only through differences and remainders; the model subtracts
`BUFFER_SIZE` from all three when `head` reaches it, to keep them finite.

### CondSem

The condition variable of the lab exercise runs on a host, not on toyOS: its
threads are preempted anywhere, and its semaphores are those of the C library, in
which any waiter may be next. A step ends at each call on a semaphore and at each
access to `nwait` or `cnt`; `pc[t]` names what thread `t` does next. Under the
mapping to `BufferMonitor` a wait happens where the mutex is given back, and a
broadcast where `cv.lock` is taken: the handshake is what lets everyone who was
counted by then be woken before the broadcast ends. Without it, as in
`condition_sem_false.c`, TLC finds a run that ends with all threads asleep (the
mutant of `cast_shake`). `my_cv_signal` has no caller and is left out.

### BlockCache

`disk` is the medium, `blk_cache` the slots, `call` the interface: the last call
with its arguments and the bytes it returned. `restart` is a power cycle between
two calls, `restart_in_bwrite` one inside `copy_to_disk` after some of the
sectors of the block.

### Vme

`mem[f]` is the content of frame `f`, as a record that can be read as a page
table, a page directory or data, whatever the frame is used for; so a frame that
is freed too early, or mapped twice, shows its old content, as on the machine.
`free_page_list` is the list of `kalloc` and `kfree`, last in, first out. A system
call is one action; which process runs next is left open (any READY one), because
`Proc` is about that. After a panic, a failed assertion or a fault inside the
kernel the model stops (`fault`, `stopped`). `sbrk` of the user library keeps its
own copy of the break (`prog`, `old_brk`), as in `user/ulib/stdlib.c`.
`gap` is a history variable that no guard reads: the pages that a process has asked
`brk` for and that `brk` has recorded only. In `AddressSpaces` pages come and go in
runs (`Map`, `Unmap`), which is what `vm_map` and `vm_unmap` promise: nothing there
ties them to a break, because the kernel's may be another than the program's.

### Fs

The functions of `fs.c` and `file.c` are operators from one kernel state to the
next, under their own names, and a system call composes them: nothing in these
functions gives the CPU away, so a call is one action of any live process. A
block is an array of cells; a cell is a dirent, a byte of a file, or an address
in an indirect block. `iread` and `iwrite` go cell by cell where the code goes
block by block. A freed block gets the content `JUNK`, which stands for whatever
it held. Slots with reference count 0 are set to a fixed value; the code never
reads them. An assertion or a full table sets `halted`, to `"assert"` or `"full"`;
the state is then the one before the call.

`mkfs` builds the initial disk, with the operators of the kernel where
`utils/mkfs.c` has functions that do the same. `restart` switches the machine off
between two calls and boots from the disk, `init_dev` included.

Left out: the cut of names at `MAX_NAME`, `fstat` (it only reads), what devices do
with data, `exec`'s use of `iopen` and `iclose` (a pair without effect), and a
power cut inside a call.

### Shell

The first half of the module is the parser of `sh.c`, function by function, on a
line that is a sequence of characters: a pointer is an index, a panic leaves the
pointer NULL. `nulterminate` cuts the words out of the line; a command in memory
has the end pointers it sets. The second half runs the command: `proc[p]` has the
descriptors, the directory, the parent and what the process does next (`pc`), and
an action goes up to the next system call that another process can notice. The
system calls are what `syscall.c` makes of them: the lowest free descriptor, the
first zombie, children that lose their parent. `job` is a history variable that
says for which command a process runs. A program that was started may end at any
time. `pipe` is a `TODO()` in the kernel, so a line with `|` stops the machine
(`halted`) and the two branches of `sh.c:102-121` never run.

`meaning` is the reference for the parser. It splits the tokens of a line at the
operator that binds least, without looking ahead and without state, and gives a
set of commands: one, or none if the line is not in the grammar. `programs_of`
lists the programs of a command with the files that should be their standard
input and output.

### Malloc, Filters, Numbers

These three are about single programs and share a run, with `CondSem`. In `Malloc` memory is
counted in headers, `hdr` has the headers that are valid at the moment, and
reading any other is an error of TLC. The heap grows up to `LIMIT` (in the code a
`brk` that finds no page panics in the kernel, so that `malloc` never returns 0). In `Filters` a read
returns what is left of the file up to the size of the buffer, or a line that was
typed, or a part of it; `buf` is kept between the files, as in the programs, whose
buffers are global. `matchhere` and `matchstar` are recursive as in the code; the
reference says that the text can be cut into one piece per item of the pattern.

`Numbers` reads the format character by character, with the flags, the width and
the precision from the format or from an argument, prints with `number`, and reads
with `strtol` and `strtoul`, for an integer of `W` bits; `scanf` does so through its
own buffer, from reads that cut the input anywhere. The reference is the sum of
the digits without any limit. No argument of `%s` is a null pointer, and `%a` and
`%A` (network addresses) are left out.

## 3. What is checked

| run | question | bounds |
|---|---|---|
| `proc_tree` | Do fork, exit, wait, orphans, PCB reuse, semaphores and their references stay consistent, and does the kernel never stop? `TypeOK`, `OneRunning`, `RefCounts`, `WaitListsAgree`, `FamilyAgrees`, `NeverHalts` | 4 PCBs (parent, child, grandchild: the smallest family with an orphan and a PCB that is reused while others refer to it; or a parent with two zombies), two semaphores, sleeps over a tick that wraps |
| `proc_sem` | Do the semaphores implement `CountingSem`? `ImplementsCountingSem`, `NoLostWakeup`, `SemNoStarvation` | 4 PCBs: two waiters and one that V's |
| `serial` | Are the characters of finished lines delivered once and in order, and does everyone who can go on do so? `SerialCredits`, `ImplementsLineInput`, `ReaderProgress`, `ReadyRuns`, `SleepReturns`, `WaitReturns` | 3 PCBs, a buffer of 2, up to 3 unread characters so that it overflows; ticks modulo 7, sleeps of 0 and 3 |
| `block_cache` | `CacheCoherent`, `ImplementsBlockStore` | 3 blocks on 2 slots, 2 sectors per block |
| `vme` | Is every frame owned once, is everything a program may use mapped, and are the spaces separate, while programs fork with and without heaps, heaps grow and shrink, programs `exec` and the pages run out? `CurrentSpace`, `OneOwner`, `OwnPagesMapped`, `PagesConserved`, `ImplementsAddressSpaces` | 2 user processes, 14 frames, 2 page tables of 2 pages of 2 bytes; `sbrk` by 3 and by -2, so that breaks are and are not at the start of a page; the second program has a read-only page where the break of the first may be |
| `vme_no_file` | finding: `CurrentSpace` fails after an `exec` of a missing file | as `vme` |
| `vme_heap_fork` | finding: `BreakCoversHeap` fails after a fork by a program that has used its heap | as `vme` |
| `fs_tree` | Does the disk stay a tree of files that own their blocks, and do the calls do what `FileStore` allows? `BlocksOwnedOnce`, `TreeWellFormed`, `ReadsReturnContent`, `ImplementsFileStore` | one process with two descriptors, paths `/a`, `/a/b`, `b`, `..`; blocks of 3 cells and one direct address, so that both directories and files need the indirect block; 7 blocks, so that the disk runs full; writes of 4 cells, across a block; seeks to 0 and to the largest offset, which is past every end and wraps when a length is added |
| `fs_share` | Is every reference counted when two processes open, fork, remove and re-create a file and a device? `RefsCounted`, `InodeCacheSync` | two processes, 2 descriptors each, 2 open files, 3 inode slots: the tables run full |
| `fs_removed` | finding: `AssertionsHold` fails in a directory made inside a removed one | as `fs_tree` |
| `shell` | Does a line mean what the grammar says, do its programs run with the right files in the right order, does only the background leave zombies, and does the prompt come back? `ParseIsMeaning`, `RunsTheLine`, `OneActivePerJob`, `OnlyBackgroundLeaks`, `PromptReturns` | first every line of up to 3 characters over a letter and all operators, and longer ones with nested redirections, blocks, too many arguments and a line longer than the buffer; then any sequence of six lines; 4 PCBs, so that background commands use them up; 4 descriptors |
| `user` | Is the heap always partitioned, and is its search complete? Do the filters do to pieces what they would do to the whole? Are numbers read back? Do wait and broadcast, made of semaphores, act like atomic ones? `Partitioned`, `GrowsWhenNeeded`, `Filtered`, `ReadsBack`, `BroadcastWakesAll`, `NobodySleepsOnTrue`, `ImplementsMonitor` | blocks of 2 to 7 units in a heap that grows up to three times; texts of up to 11 characters through a buffer of 6, nine patterns; integers of 8 bits, eight combinations of flags, widths and precisions on both sides of the length, and all texts of up to three digits with sign and prefix; reads of 1, 3 and 8 characters, words longer than the 5 that `scanf` takes; 3 producers, 3 consumers and 2 places: the smallest in which a thread waits while an earlier waiter has not been woken and both kinds wait |

In `vme` the frames are handed out in the order of the free list, so states would
multiply with the orders in which they come back. The run has a `VIEW`,
`UpToFrames`: states that differ only in which frame is which are one state. The
view keeps what the pages of each process may do and contain, how many frames are
free and how many are referred to. That is enough because no step, and no property,
depends on the number of a frame: while frames have one owner, as `OneOwner`
says they do in every state, a state with the same view is the same state
with the frames renamed; free frames hold zeros. A step that
makes two places share a frame, or that loses one, changes the number of frames
referred to, so the view does not hide it. 14 frames are enough for two processes with heaps, or one
that has exec'ed, to run out of pages, and for forks of grown heaps.
`fs_tree` and `fs_share`
are two runs because the states multiply there too: nested directories in one, two processes in the
other.

`WaitListsAgree`, `FamilyAgrees` and `RefsCounted` are conjunctions of smaller
invariants (`BlockedIsQueued`, `ValueCountsWaiters`, `NodesConserved`;
`ParentIsAlive`, `ChildNumCounts`, `ZombieCredits`; `FileRefs`, `InodeRefs`) that
belong together and are meant to be proved together; each part has its mutant.

`MAX_VALUE` and `MAX_UNREAD` bound the model (V's above a value, typed
characters); they are in the guards of `sys_sem_v` and `push_back`. `TICK_MOD`
is 2^32 in the code; where no property is about sleeping it is 1, so that the
tick does not multiply the states. Each property of a passing run has a mutant:
an operator written just before the definition it changes, with a suffix to its
name, for which TLC finds the property violated.

No run needs `CHECK_DEADLOCK FALSE`: in `Proc` and `Serial` the kernel process can
always take a timer interrupt, in `Vme` and `Fs` a stopped kernel stutters
explicitly (`stopped`), in `CondSem` some thread can always go on, which the
deadlock check shows, and in `Shell`, `Malloc`, `Filters` and `Numbers` a program that
has ended, or that waits for somebody to type, stutters explicitly. In `Shell` a
process that waits for ever would be a deadlock. In `Fs`, `OFF_MOD` stands for 2^32; the assumption that it
is larger than any file and any length together is true of the code for lengths
below 2^32 minus 4 MiB.

### Fairness

Only the hardware and the kernel are fair; programs may compute or loop for
ever. `WF` of the continuations (`sys_sleep_again`, `sys_wait_woken`,
`sys_sem_p_woken`, `getchar`, ...): the CPU goes on executing kernel code it is
in. `SF` of `timer_handle`: a timer interrupt that arrives with interrupts off
stays pending in the PIC and is delivered when they are next on, so it is enough
that interrupts are on again and again. `SemNoStarvation` and `ReaderProgress`
take the V's and the typing as premises.

In `Shell` each process is weakly fair: a process that can go on does, which is
what `ReadyRuns` says of the kernel. The programs that the shell starts end; a
program that never does keeps the prompt away, and the shell is not to blame.
Nobody has to type.

### Findings

* `vme_no_file`: `sys_exec` (`syscall.c:99`) puts the new page directory into the
  PCB before it loads the program. When the file is missing it frees the
  directory and returns, while the comment in `syscall.c:102` says that the old
  program goes on; the PCB is left with a directory on the free list, which the
  next switch to the process loads.
* `vme_heap_fork`: `proc_alloc` (`proc.c:36`) starts every process with break 0 and
  `proc_copycurr` does not copy the parent's, but the `old_brk` of the user library is
  copied with the memory. After `sbrk` and `fork` the break in the PCB of the child is
  below the one of its program, which `syscall.c:64` says it never is. The next `brk`
  of the child only records the new break (`syscall.c:65`), so the pages
  it asked for are missing and touching them is a page fault, which stops the kernel. The shell forks like
  this: `sh.c:160` forks, the child parses the line with `malloc`, and forks again for
  lists and background commands (`sh.c:93`, `125`). The model makes these forks
  everywhere; the history variable `gap` has the pages that are left out in this way,
  and `OwnPagesMapped` says that no other page is missing.
* `fs_removed`: `mkdir /a`, `chdir /a`, `unlink /a`, `mkdir b`, `chdir b`,
  `open("..")`. The current directory can be removed because it is empty, filled
  again, and is freed with its entries by the second `chdir`; `..` of `b` leads to
  an inode of no type, and `fopen` stops at `assert(0)` (`file.c:67`).

Seen while modelling, without a run of its own: `sys_sem_open` accepts a negative
initial value, for which the next V dequeues NULL (`ValueCountsWaiters` is checked
for values that are not negative); `exec` keeps `brk`, so a later `brk` of the new
program can make its read-only pages writable (`vme` shows that nothing else
happens: the pages are its own); `kfree` asserts on an empty free
list (`vme.c:94`), so giving back the very last page stops the kernel; `fseek`
does not keep the offset inside the file, which its comment (`file.c:114`) asks
for, and `iread` and `iwrite` refuse such an offset; a file that is removed while
open keeps its inode and blocks for ever when the machine restarts before the
last close; `cmd &` leaves a zombie without a parent, which nobody can reap, and
when all PCBs have gone that way `fork1` panics in the shell itself; `head` searches
its buffer up to a NUL and not up to the length of the read, so that a read that is
shorter than one before prints the rest of the earlier one again (`stale` in
`Filters`, where `Filtered` makes no promise); `grep` drops an unfinished last line,
and stops without a message at a line that does not fit its buffer.

## 4. What is proved

`tlapm` checks all proof modules from nothing. A theorem holds for all constants
that satisfy the module's `ASSUME`; what else it needs is in its own `ASSUME`:

* `InitValues \subseteq Nat` (`WaitersAgree`, `KernelGoesOn`, `SemaphoresCount`,
  `SerialGoesOn`): programs open semaphores with values of at least 0. The code does
  not check this, and without it the statements are false (a V on a semaphore with a
  negative value and no waiters readies NULL);
* `LIST_NUM >= PROC_NUM - 1` (`KernelGoesOn`, `SerialGoesOn`): a list node for each
  process that can sleep while another runs. `list.c` has 256 nodes, `proc.c` 64 PCBs;
* `Paths \subseteq DOMAIN Image` (all theorems of `Vme`): programs pass names of
  existing files to `exec`. Otherwise the statements are false (finding `vme_no_file`);
* `BootSucceeds` (`SeparateSpaces`): there are frames for the first program. `Init` of
  `AddressSpaces` has that program in memory;
* `ImageFits` and `BootSucceeds` of `Fs` (all theorems of `FsProof`): `mkfs` can write the
  image, and the kernel comes up on it. Otherwise there is no state in which a program
  runs. Nothing is assumed of later starts: one that fails stops the machine;
* `OFF_MOD > (NDIRECT + BLK_SIZE) * BLK_SIZE + n` for every length `n` of a call (`Fs`):
  offsets do not wrap inside of a file. In the code `OFF_MOD` is 2^32 and the largest
  file about 4 MiB.

### Processes and semaphores

`ProcProof`, `ProcSemProof` and `SerialProof` build one inductive invariant in layers.

* `TypeCorrect` (`TypeOK`) and `OneRuns` (`OneRunning`). `OneRunning` is
  not inductive: a V may ready any process that a wait list contains, and if that
  were `curr`, or a zombie, or process 0, the property would break. `SInv` therefore
  adds that waiters are BLOCKED with a matching `sem_arg` (`WaitersBlocked`), that
  they stand in one place (`WaitersDistinct`), and that process 0 stays in its idle
  loop, so it never makes a system call and never blocks. There is one lemma per
  kind of step (`schedule`, P that blocks, V, `sem_init`) and a case per action.
  `next_ready` is a `CHOOSE`; that the scan finds a READY process whenever there is
  one needs a least element of a set of distances, for which the proof uses the
  well-foundedness of `<` on the naturals.
* `RefsCount` (`RefCounts`). That a semaphore without descriptors has
  no sleepers follows from `CtxArg`: a process inside of `sem_p` is alive and still
  has the descriptor it called with. `RefExact` counts by bijections between the
  descriptors before and after a fork, an exit, an open and a close; `NodesConserved`
  counts the list nodes the same way.
* `WaitersAgree` (`WaitListsAgree`), `FamiliesAgree` (`FamilyAgrees`) and `KernelGoesOn` (`NeverHalts`). `Credits` is the part that has
  to be found: the zombies of a parent are the units of its `zombie_sem` plus the
  wake-up that may be on its way. From it, `sys_wait` finds a zombie whenever P
  returns, which is the assertion of `syscall.c`. `FamiliesAgree` needs nothing of
  `InitValues`: `zombie_sem` is the kernel's own.
* `SemaphoresCount` of `ProcSemProof` (`ImplementsCountingSem`). The history variable
  `units` is what the value of the semaphore shows plus one unit for each process
  that a V has taken off the wait list and that has not returned yet (`UnitsExact`).

### Console

`SerialProof` repeats the steps of `Proc` under `LInv`, which adds the console.

* `SerialCounts` (`SerialCredits`) needs that the four indices are in order and at
  most a buffer apart (`Ring`), and `LineCredits` from one interrupt to the next. A
  key can end a line of many characters, so several V's happen in one step
  (`Drains`).
* `SerialGoesOn` (`NeverHalts`): `getchar` never finds the buffer empty, because its
  wake-up is a credit.
* `RingImplementsLines` (`ImplementsLineInput`): a slot is an index modulo the size
  of the buffer. `SlotApart` and `SlotTurn` say that two indices less than a buffer
  apart never share one, so that what a key writes changes no unread character
  (`Written`), and the text lemmas turn the buffer between two indices into the
  sequences of `LineInput`.

### Condition variable

`CondSemProof`: `BroadcastWakes` (`BroadcastWakesAll`), `NobodyOversleeps`
(`NobodySleepsOnTrue`), `CondImplementsMonitor` (`ImplementsMonitor`), for any
numbers of threads. The invariant follows the one unit of a round of a broadcast:
it is in `sleep`, then with the thread it has woken, then in `handshake`
(`OneToken`), and `nwait` counts the threads that have been counted and not yet been
confirmed, plus the rounds still to go (`Rounds`).

### Block cache

`BlockCacheProof`: `CacheIsCoherent` (`CacheCoherent`, inductive with `TypeOK`) and
`CacheImplementsStore` (`ImplementsBlockStore`). Coherence makes `bgetcache(b).buf =
disk[b]`, hit or miss, and each action maps to the action of `BlockStore` with the
same arguments.

### Heap of a user program

`MallocProof`: `HeapIsPartitioned` (`Partitioned`) and `GrowsAtNeed`
(`GrowsWhenNeeded`), for any heap, header size and requests. What makes the code
right, and `Partitioned` does not say, is that the ring is in the order of the
addresses and goes through every free block and `base`, the lowest (`Linked`), that
headers and sizes tile the heap (`Tiled`), and that the blocks outside the ring are
just those that the program holds (`Given`). With the ring in order, a set of places
that is closed under `ptr` is the whole ring (`ClosedIsAll`); a walk of `LIMIT` steps
must come to a place twice (pigeonhole), so the loop of `free` finds its place and
the search of `malloc` sees every block (`RoundSeesAll`). `free` is proved as a link
(`LinkSound`) and up to two merges (`MergeSound`), with the set of free blocks that
touch the next one (`Touching`) empty at the end. The assumption `end \in 1 .. LIMIT`
says that the heap starts above the static `base` and inside of the memory.

### Virtual memory

The loops of `vme.c` and `loader.c` over pages and tables are recursive functions
`done[k]`, the memory after `k` rounds. `Rounds` shows that such a function exists, and
`RoundByRound` is the induction over its rounds, from the least natural of a set: what
holds before the loop and is kept by each round holds after it.

* `FramesOwnedOnce` (`OneOwner`), `RunsInItsOwnSpace` (`CurrentSpace`). `OneOwner`
  counts references; the invariant instead gives each frame its place
  (`Owned(m, D, X, L, o)`): it is on the free list, or is one of the page directories
  `D`, or is held outside of page tables (`X`: kernel stacks, and frames a function has
  just got from `kalloc`), or has been lost (`L`), or it is the table or the page of
  *one* entry of one directory of `D`. With it, each function of `vme.c` is a lemma
  that says where frames come from and go to: `KallocDoes`, `KfreeDoes`,
  the walk, map, unmap, copy and teardown lemmas. A function that
  runs out of frames stops the machine, and nothing is claimed after that
  (`Fine`). `IInv` is `TypeOK` and, while the machine runs, `Running`: no two processes share
  a directory or a stack, the running process is ready and `cr3` is its directory, and
  every frame has its place.
* `OnlyExecLosesPages` (`PagesConserved`). The ghost set `lost` is in the invariant, so that a
  frame that neither the free list nor anyone holds has to be one that an exec left
  behind. A step other than exec leaves `lost` as it was.
* `NoDoubleFree`: the assertion that a freed frame is not already free
  never fails and no directory without the kernel is loaded; the machine stops only
  out of frames, or by a page fault of a program.
* `OwnPagesStayMapped` (`OwnPagesMapped`), `WhyItStops`. A page that a step does
  not touch stays mapped with the same rights and content (`Keep`), which is the
  frame condition of every function and follows from the places. `HInv` adds that there is
  a page `k` where the library believes the heap ends (`old_brk`) and
  where the kernel's break is too, unless it is still 0 (`BreakAt`), and that a
  process may write its data, its stack and the pages from the end of its image up to
  `k`, but for those in `gap` (`SpaceUpTo`). exec keeps the break
  of the old program, and `sbrk` of the new one repairs that with its first call; the
  first call of a child with a heap puts the pages that it asks for into `gap`, and
  every later call maps from there (`BrkGap`). `WhyItStops` closes what
  `NoDoubleFree` leaves open: a page fault comes from a page in `gap`.
* `SeparateSpaces` (`ImplementsAddressSpaces`). The mapping reads the memory of a
  process through its directory, tables and frames. What is needed beyond `HInv` is that
  nothing *more* is mapped than the abstract space has, that a page that `exec`
  or `brk` maps is made of a frame that was free, and is therefore zero, and that a fork copies
  right and content. A step in which the machine stops changes no space and maps to a
  stutter.

### File system

A function of `Fs` takes a kernel state and returns the next one, and a system call is
many of them, one after the other, so there is little to gain from an invariant of the
variables alone. `FsProof` has three levels.

* `Sound(k)` holds between any two steps of a call while the kernel has not stopped.
  `Own`: each place of each inode (`At(k, no, i)`: an address, or a cell of the indirect
  block) names a block that is marked in the bitmap, no two places name the same block,
  and every marked block is in some place. `FreeClean`: a free inode names no block.
  `DirCells`: the data of a directory are entries with numbers of inodes, which is what
  lets a lookup hand them to `iget`. `Sync` and `Distinct`: the copies in memory.
  One lemma per function says that it keeps `Sound` and what else it does:
  `balloc` followed by the write of the address (`NewPlace`) is one change of `Own`, as
  `itrunc` is (`Emptied`). `Good(k)` adds `Solid`: no place of a file before its end is
  empty. `iwrite` leaves it for a while, since the file gets its new size before its
  last blocks, and has it again at its end, because it refuses to start beyond the end
  of the file; every other function keeps it.
* `Held(k, n, q)` and `Dropped(k, n, q)`: one reference more, or less, to the inode in
  slot `q`, all others as they were. Every function of the path walk, and every one of
  its failures, is proved to be `Held` for the inode it returns or for none: this is
  where a missing `iclose` would show. `NoneBut(k, q)` admits, while a call runs, the
  one case in which an active inode is free: `..` of a directory that is left in a
  removed one (finding `fs_removed`). The code then stops (`open`) or closes it again
  (`chdir`, `unlink`), so between calls there is none.
* `Whole(k, c)` holds between calls: each inode is referred to by the open files on it
  (`Owed`) plus `c`, and each open file in use refers to an active inode. `c` is
  `holders(cwd, q)`: the current directories, and process 0's in slot `q`. `IInv` adds
  that an open file has as many references as there are descriptors on it, and that a
  PCB that is not in use has none.

The loops over blocks, names of a path, descriptors, devices and files of the image are
recursive functions, handled as in `VmeProof`. A kernel that has stopped stays stopped
through the rest of the call (the lemmas called `...Stops`), and `commit` keeps nothing
of it.

* `RefsAreCounted` (`RefsCounted`) from `Counted`, with one bijection for the
  descriptors that move in `fork` and `exit` (`FdsMoved`) and one for directories
  (`HoldersMoved`). That process 0's reference is to *the* slot with the root is
  `Distinct`.
* `InodesInSync` (`InodeCacheSync`) from `Sync`, `Distinct` and `NoneBut`.
* `BlocksAreOwnedOnce` (`BlocksOwnedOnce`) from `Own`: the addresses in use and the
  marked blocks are in bijection.
* `ReadsGiveContent` (`ReadsReturnContent`) from `Solid`: `iwalk` finds each block that
  `iread` asks for (`IwalkFinds`), so it allocates none, and after round `j` the buffer
  holds the first `j` cells from the offset on (`IreadIs`), which is what `content` says
  (`ContentIs`). The length is right because offset and length together do not wrap
  (`ReadLen`), for which a file that is `Solid` is short enough (`SizeFits`).

### Only model-checked

* all liveness properties (`NoLostWakeup`, `SemNoStarvation`, `ReaderProgress`,
  `ReadyRuns`, `SleepReturns`, `WaitReturns`, `PromptReturns`): liveness under
  fairness and `ENABLED` are outside what the prover handles;
* `TreeWellFormed` and the refinement of `FileStore`: they speak of what can be reached
  from the root, a tree of any depth, which is an induction over data;
* `Shell`, `Filters` and `Numbers`: they have recursive operators, because the code
  they translate is recursive or scans text.

## 5. What is not modelled, and the plan

Not modelled:

* the order of the disk writes inside one call of `Fs`. The code does nothing for
  a power cut there: `itrunc` frees blocks in the bitmap before it writes the inode
  that points to them (`fs.c:513`), so `BlocksOwnedOnce` would fail; restarts
  between calls are modelled;
* off + len in `iread` and `iwrite` (`fs.c:464`) for lengths near 2^32, and the
  counters of the console after 2^31 characters (`serial.c:36`): overflow there is a
  matter of the width alone and no run gets that far;
* the rest of `lab/lab8`: `my_cv_signal` has no caller, `condition_mutex.c` polls,
  `condition_sem_false.c` is a mutant of `CondSem`;
* pipes: `sys_pipe` and the other optional system calls are `TODO()` panics, and the
  code of the shell behind them cannot run;
* the other user programs (ls, rm, mkdir, echo, xargs, the tests of the phases):
  each is a few system calls, and `Proc`, `Vme` and `Fs` allow any sequence of them;
  `phase5/sh.c` is `phase6/sh.c` without `cd`;
* `%a` and `%A` of `vsprintf`, which nothing uses, and the string functions, which
  the models use as what they compute;
* the boot loader and `trap.S` (straight-line code and assembly), the IDE port
  protocol.
