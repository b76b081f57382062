--------------------------------- MODULE Fs ---------------------------------
(***************************************************************************)
(* The file system and the open files: kernel/src/fs.c, kernel/src/file.c, *)
(* kernel/src/dev.c, the system calls on files, and utils/mkfs.c, which    *)
(* makes the first disk.  The code never gives the CPU away inside these   *)
(* calls, so each system call is one step, of any live process.            *)
(*                                                                         *)
(* A block is an array of BLK_SIZE cells.  A cell stands for the bytes of  *)
(* one dirent; in a file it holds a byte, in an indirect block an address. *)
(* Index 0 stands for NULL among inode slots, open files and descriptors,  *)
(* and for "no block" among block numbers, as in the code.  The data       *)
(* blocks, which start at block 64 of the disk, are numbered from 1.       *)
(*                                                                         *)
(* The functions of the kernel are operators from a kernel state k to the  *)
(* next one: k.disk, k.inodes and k.files are the variables below, k.fault *)
(* tells why the kernel has stopped.  Loops are recursive functions:       *)
(* done[i] is what there is after i rounds.                                *)
(***************************************************************************)
EXTENDS Integers, Sequences, FiniteSets, SequencesExt

CONSTANTS
  Procs,       \* the PCBs of user processes
  First,       \* the one the kernel starts
  MAX_UFILE,   \* descriptors of a process
  TOTAL_FILE,  \* open files of the system
  INODE_NUM,   \* slots of the active inode table
  inum,        \* inodes on the disk, number 0 included
  BLK_NUM,     \* data blocks
  BLK_SIZE,    \* cells in a block
  NDIRECT,     \* direct addresses of an inode
  OFF_MOD,     \* offsets are unsigned: 2^32 in the code
  Image,       \* the files mkfs packs: [name, data]
  dev_table,   \* the names of the devices, under /dev
  Paths,       \* Paths[p]: the paths [abs, elems] that process p uses
  Modes,       \* sets of the flags of open
  Bytes, Lens, \* what a program writes, and how much at a time
  Seeks        \* arguments of lseek: [off, whence]

ASSUME FsAssumption ==
  /\ First \in Procs /\ IsFiniteSet(Procs)
  /\ {MAX_UFILE, TOTAL_FILE, INODE_NUM, inum, BLK_NUM, BLK_SIZE, NDIRECT, OFF_MOD}
       \subseteq Nat \ {0}
  /\ Image \in Seq([name : STRING, data : Seq([inode : Nat, name : STRING])]) \ {<<>>}
  /\ dev_table \in Seq(STRING)
  /\ Paths \in [Procs -> SUBSET [abs : BOOLEAN, elems : Seq(STRING)]]
  /\ Bytes \cup Lens \subseteq Nat \ {0}
  /\ \A n \in Lens : OFF_MOD > (NDIRECT + BLK_SIZE) * BLK_SIZE + n
  /\ Modes \subseteq SUBSET {"WRONLY", "RDWR", "CREATE", "TRUNC", "DIR"}
  /\ Seeks \subseteq [off : Int, whence : {"SET", "CUR", "END"}]

VARIABLES
  disk,    \* [dinode, bitmap, blk]: inode blocks, bitmap, data blocks
  inodes,  \* the active inode table
  files,   \* the table of open files
  ufiles,  \* ufiles[p][fd]: the open file behind a descriptor, or 0
  cwd,     \* cwd[p]: slot of the current directory, 0 for a PCB not in use
  halted   \* "no", or why the kernel stopped: "full" or "assert"

vars == <<disk, inodes, files, ufiles, cwd, halted>>

-----------------------------------------------------------------------------
Inos == 0 .. inum - 1
Blocks == 0 .. BLK_NUM
Slots == 1 .. INODE_NUM
Files == 1 .. TOTAL_FILE
Fds == 1 .. MAX_UFILE
NINDIRECT == BLK_SIZE

root == 1  \* sb.root: the first inode mkfs allocates

JUNK == BLK_NUM + inum + OFF_MOD  \* no block, no inode, no byte of a program

first(S) == IF S = {} THEN 0 ELSE Min(S)

dirent(no, name) == [inode |-> no, name |-> name]
cell(v) == dirent(v, "")

zero_dinode == [type |-> "NONE", device |-> 0, size |-> 0, addrs |-> [i \in 0 .. NDIRECT |-> 0]]
free_inode == [no |-> 0, ref |-> 0, del |-> FALSE, dinode |-> zero_dinode]
free_file == [ref |-> 0, type |-> "NONE", readable |-> FALSE, writable |-> FALSE,
              inode |-> 0, offset |-> 0, dev_op |-> 0]

\* A failed assertion or a table that is full: the kernel stops.
abort(k, why) == [k EXCEPT !.fault = IF @ = "no" THEN why ELSE @]
check(k, cond) == IF cond THEN k ELSE abort(k, "assert")

\* Nothing that a kernel does after it has stopped is kept (commit).
stopped_in(k) == k.fault # "no"

-----------------------------------------------------------------------------
(* Inodes and blocks on the disk.                                          *)

diwrite(k, di, no) == [k EXCEPT !.disk.dinode[no] = di]

dialloc(k, type) ==
  LET no == first({i \in Inos \ {0} : k.disk.dinode[i].type = "NONE"})
  IN  [k |-> IF no = 0 THEN abort(k, "full")
                       ELSE diwrite(k, [zero_dinode EXCEPT !.type = type], no),
       no |-> no]

difree(k, no) == diwrite(k, zero_dinode, no)

bzero(k, b) == [k EXCEPT !.disk.blk[b] = [i \in 0 .. BLK_SIZE - 1 |-> cell(0)]]

balloc(k) ==
  LET b == first((Blocks \ {0}) \ k.disk.bitmap)
  IN  [k |-> IF b = 0 THEN abort(k, "full")
                      ELSE [bzero(k, b) EXCEPT !.disk.bitmap = @ \cup {b}],
       b |-> b]

\* bfree of each block of S.  The data of a free block stays on the disk; whatever
\* it is, it is JUNK.
bfree(k, S) ==
  LET junk == [i \in 0 .. BLK_SIZE - 1 |-> cell(JUNK)]
  IN  [check(k, 0 \notin S) EXCEPT !.disk.bitmap = @ \ S,
                                   !.disk.blk = [b \in Blocks |-> IF b \in S THEN junk ELSE @[b]]]

-----------------------------------------------------------------------------
(* The active inodes.  What a slot holds while its ref is 0 is never read. *)

iget(k, no) ==
  LET hit == {i \in Slots : k.inodes[i].ref > 0 /\ k.inodes[i].no = no}
      empty == {i \in Slots : k.inodes[i].ref = 0}
      slot == [no |-> no, ref |-> 1, del |-> FALSE, dinode |-> k.disk.dinode[no]]
  IN  CASE hit # {} -> [k |-> [k EXCEPT !.inodes[Min(hit)].ref = @ + 1], ip |-> Min(hit)]
        [] hit = {} /\ empty # {} -> [k |-> [k EXCEPT !.inodes[Min(empty)] = slot], ip |-> Min(empty)]
        [] OTHER -> [k |-> abort(k, "full"), ip |-> 0]

iupdate(k, ip) == diwrite(k, k.inodes[ip].dinode, k.inodes[ip].no)

type_of(k, ip) == k.inodes[ip].dinode.type

size_of(k, ip) == k.inodes[ip].dinode.size

\* The block in address i of the inode, allocated if there is none.
set_addr(r, ip, i) ==
  [k |-> iupdate([r.k EXCEPT !.inodes[ip].dinode.addrs[i] = r.b], ip), b |-> r.b]

walk_addr(k, ip, i) ==
  LET b == k.inodes[ip].dinode.addrs[i]
  IN  IF b # 0 THEN [k |-> k, b |-> b] ELSE set_addr(balloc(k), ip, i)

\* The block in cell j of the indirect block ind.b, allocated if there is none.
set_indirect(r, ind, j) ==
  [k |-> [r.k EXCEPT !.disk.blk[ind.b][j] = cell(r.b)], b |-> r.b]

walk_indirect(ind, j) ==
  LET b == ind.k.disk.blk[ind.b][j].inode
  IN  IF b # 0 THEN [k |-> ind.k, b |-> b] ELSE set_indirect(balloc(ind.k), ind, j)

iwalk(k, ip, no) ==
  CASE no < NDIRECT -> walk_addr(k, ip, no)
    [] no >= NDIRECT + NINDIRECT -> [k |-> abort(k, "full"), b |-> 0]
    [] OTHER -> walk_indirect(walk_addr(k, ip, NDIRECT), no - NDIRECT)

\* Mutant: a read is not cut off at the end of the file.
read_len_noclip(k, ip, off, len) == len

read_len(k, ip, off, len) ==
  IF (off + len) % OFF_MOD > size_of(k, ip) THEN size_of(k, ip) - off ELSE len

read_cell(acc, r, i) ==
  [acc EXCEPT !.k = r.k, !.buf = Append(@, r.k.disk.blk[r.b][i])]

read_at(acc, ip, pos) ==
  read_cell(acc, iwalk(acc.k, ip, pos \div BLK_SIZE), pos % BLK_SIZE)

\* Reads cell by cell what the code reads block by block; -1 is n = -1.
iread(k, ip, off, len) ==
  LET n == read_len(k, ip, off, len)
      done[i \in 0 .. n] == IF i = 0 THEN [k |-> k, n |-> n, buf |-> <<>>]
                            ELSE read_at(done[i - 1], ip, off + i - 1)
  IN  IF stopped_in(k) \/ off > size_of(k, ip) THEN [k |-> k, n |-> -1, buf |-> <<>>]
      ELSE done[n]

write_cell(r, i, v) == [r.k EXCEPT !.disk.blk[r.b][i] = v]

write_at(k, ip, pos, v) == write_cell(iwalk(k, ip, pos \div BLK_SIZE), pos % BLK_SIZE, v)

grown(k, ip, end) ==
  IF end > size_of(k, ip) THEN iupdate([k EXCEPT !.inodes[ip].dinode.size = end], ip) ELSE k

iwrite(k, ip, off, buf) ==
  LET done[i \in 0 .. Len(buf)] == IF i = 0 THEN grown(k, ip, (off + Len(buf)) % OFF_MOD)
                                   ELSE write_at(done[i - 1], ip, off + i - 1, buf[i])
  IN  IF stopped_in(k) \/ off > size_of(k, ip) THEN [k |-> k, n |-> -1]
      ELSE [k |-> done[Len(buf)], n |-> Len(buf)]

\* Mutant: the blocks behind the indirect block are forgotten.
indirect_blocks_none(k, b) == {}

indirect_blocks(k, b) ==
  IF b = 0 THEN {} ELSE {k.disk.blk[b][j].inode : j \in 0 .. NINDIRECT - 1}

itrunc(k, ip) ==
  LET addrs == k.inodes[ip].dinode.addrs
      used == ({addrs[i] : i \in 0 .. NDIRECT} \cup indirect_blocks(k, addrs[NDIRECT])) \ {0}
      cleared == [k.inodes[ip].dinode EXCEPT !.size = 0, !.addrs = zero_dinode.addrs]
  IN  iupdate([bfree(k, used) EXCEPT !.inodes[ip].dinode = cleared], ip)

idup(k, ip) == [check(k, ip # 0) EXCEPT !.inodes[ip].ref = @ + 1]

\* Mutant: removed files are freed one close too early.
iclose_early(k, ip) ==
  LET inode == k.inodes[ip]
      k0 == IF inode.ref <= 2 /\ inode.del THEN difree(itrunc(k, ip), inode.no) ELSE k
  IN  [check(k0, ip # 0) EXCEPT !.inodes[ip] =
         IF inode.ref = 1 THEN free_inode ELSE [@ EXCEPT !.ref = @ - 1]]

iclose(k, ip) ==
  LET inode == k.inodes[ip]
      k0 == IF inode.ref = 1 /\ inode.del THEN difree(itrunc(k, ip), inode.no) ELSE k
      left == IF inode.ref = 1 THEN free_inode ELSE [k0.inodes[ip] EXCEPT !.ref = @ - 1]
  IN  [check(k0, ip # 0) EXCEPT !.inodes[ip] = left]

-----------------------------------------------------------------------------
(* Directories and paths.                                                  *)

idirinit(k, ip, parent) ==
  LET k0 == check(k, type_of(k, ip) = "DIR" /\ type_of(k, parent) = "DIR" /\ size_of(k, ip) = 0)
      k1 == iwrite(k0, ip, 0, <<dirent(k.inodes[ip].no, ".")>>).k
  IN  iwrite(k1, ip, 1, <<dirent(k.inodes[parent].no, "..")>>).k

\* ilookup's results: the opened inode, or 0, and the offset of its dirent.
lookup_hit(r, off) == [k |-> r.k, ip |-> r.ip, off |-> off]

lookup_new(r, parent, type, off) ==
  [k |-> IF type = "DIR" THEN idirinit(r.k, r.ip, parent) ELSE r.k, ip |-> r.ip, off |-> off]

\* Writes the dirent of the inode new.no that has just been allocated.
link_new(new, parent, off, name) ==
  iget(iwrite(new.k, parent, off, <<dirent(new.no, name)>>).k, new.no)

lookup_among(k, ents, parent, name, type) ==
  LET hit == {i \in DOMAIN ents : ents[i].inode # 0 /\ ents[i].name = name}
      holes == {i \in DOMAIN ents : ents[i].inode = 0}
      empty == IF holes = {} THEN size_of(k, parent) ELSE Min(holes) - 1
  IN  CASE hit # {} -> lookup_hit(iget(k, ents[Min(hit)].inode), Min(hit) - 1)
        [] hit = {} /\ type = "NONE" -> [k |-> k, ip |-> 0, off |-> 0]
        [] OTHER -> lookup_new(link_new(dialloc(k, type), parent, empty, name), parent, type, empty)

ilookup(k, parent, name, type) ==
  LET r == iread(check(k, type_of(k, parent) = "DIR"), parent, 0, size_of(k, parent))
  IN  lookup_among(r.k, r.buf, parent, name, type)

\* A result of ilookup, after iclose of the directory dir.
leave(r, dir) == [k |-> iclose(r.k, dir), ip |-> r.ip]

\* The result r of iopen_parent so far; anything but a directory is closed again.
dir_only(r) ==
  IF r.ip = 0 \/ type_of(r.k, r.ip) = "DIR" THEN r ELSE [k |-> iclose(r.k, r.ip), ip |-> 0]

\* From the directory r.ip to the one that is called name in it.
enter(r, name) ==
  IF r.ip = 0 THEN r ELSE dir_only(leave(ilookup(r.k, r.ip, name, "NONE"), r.ip))

\* c is the current directory of the caller.
iopen_parent(k, c, path) ==
  LET start == IF path.abs THEN iget(k, root) ELSE [k |-> idup(k, c), ip |-> c]
      last == Len(path.elems) - 1
      done[i \in 0 .. last] == IF i = 0 THEN dir_only(start) ELSE enter(done[i - 1], path.elems[i])
  IN  IF path.elems = <<>> THEN [k |-> iclose(start.k, start.ip), ip |-> 0] ELSE done[last]

iopen_in(parent, name, type) ==
  IF parent.ip = 0 THEN parent
  ELSE leave(ilookup(parent.k, parent.ip, name, type), parent.ip)

iopen(k, c, path, type) ==
  IF path.elems = <<>>
    THEN IF path.abs THEN iget(k, root) ELSE [k |-> k, ip |-> 0]
    ELSE iopen_in(iopen_parent(k, c, path), Last(path.elems), type)

\* Mutant: the first entry after .. is not looked at.
idirempty_skip(k, ip) ==
  \A i \in 3 .. size_of(k, ip) - 1 : iread(k, ip, i, 1).buf[1].inode = 0

idirempty(k, ip) ==
  \A i \in 2 .. size_of(k, ip) - 1 : iread(k, ip, i, 1).buf[1].inode = 0

\* Mutant: the directory entry stays.
mark_removed_keep(r, dir) == [r.k EXCEPT !.inodes[r.ip].del = TRUE]

mark_removed(r, dir) ==
  iwrite([r.k EXCEPT !.inodes[r.ip].del = TRUE], dir, r.off, <<cell(0)>>).k

\* r is what ilookup has found in the directory dir.
remove_found(r, dir) ==
  LET busy == type_of(r.k, r.ip) = "DIR" /\ ~idirempty(r.k, r.ip)
  IN  IF r.ip = 0 THEN iclose(r.k, dir)
      ELSE iclose(iclose(IF busy THEN r.k ELSE mark_removed(r, dir), r.ip), dir)

remove_in(parent, name) ==
  CASE parent.ip = 0 -> parent.k
    [] parent.ip # 0 /\ name \in {".", ".."} -> iclose(parent.k, parent.ip)
    [] OTHER -> remove_found(ilookup(parent.k, parent.ip, name, "NONE"), parent.ip)

iremove(k, c, path) == remove_in(iopen_parent(k, c, path), Last(path.elems))

set_device(r, id) ==
  iclose(iupdate([check(r.k, r.ip # 0) EXCEPT !.inodes[r.ip].dinode.device = id], r.ip), r.ip)

iadddev(k, id) ==
  set_device(iopen(k, 0, [abs |-> TRUE, elems |-> <<"dev", dev_table[id]>>], "DEV"), id)

iclose_opened(r) == iclose(r.k, r.ip)

init_dev(k) ==
  LET done[i \in 0 .. Len(dev_table)] ==
        IF i = 0 THEN iclose_opened(iopen(k, 0, [abs |-> TRUE, elems |-> <<"dev">>], "DIR"))
        ELSE iadddev(done[i - 1], i)
  IN  done[Len(dev_table)]

-----------------------------------------------------------------------------
(* Open files.                                                             *)

falloc(k) == first({f \in Files : k.files[f].ref = 0})

fdup(k, f) == [k EXCEPT !.files[f].ref = @ + 1]

fclose(k, f) ==
  LET file == k.files[f]
      k0 == IF file.ref = 1 /\ file.type = "FILE" THEN iclose(k, file.inode) ELSE k
      left == IF file.ref = 1 THEN free_file ELSE [file EXCEPT !.ref = @ - 1]
  IN  [k0 EXCEPT !.files[f] = left]

open_type(mode) == IF "CREATE" \notin mode THEN "NONE" ELSE IF "DIR" \in mode THEN "DIR" ELSE "FILE"

\* Mutant: a failed open keeps its inode.
fopen_bad_leak(r, fp) == [k |-> fclose(r.k, fp), fp |-> 0]

\* The label bad of fopen.
fopen_bad(r, fp) == [k |-> iclose(fclose(r.k, fp), r.ip), fp |-> 0]

\* fopen with the open inode r.ip.
fopen_inode(r, fp, mode) ==
  LET type == type_of(r.k, r.ip)
      bad == \/ type = "FILE" /\ "DIR" \in mode
             \/ type = "DIR" /\ mode \cap {"WRONLY", "RDWR", "TRUNC"} # {}
      k0 == IF type = "FILE" /\ "TRUNC" \in mode THEN itrunc(r.k, r.ip) ELSE r.k
      file == [ref |-> 1, type |-> "FILE", inode |-> r.ip, offset |-> 0, dev_op |-> 0,
               readable |-> "WRONLY" \notin mode, writable |-> mode \cap {"WRONLY", "RDWR"} # {}]
      dev == [file EXCEPT !.type = "DEV", !.inode = 0, !.dev_op = r.k.inodes[r.ip].dinode.device]
  IN  CASE bad -> fopen_bad(r, fp)
        [] type \in {"FILE", "DIR"} /\ ~bad -> [k |-> [k0 EXCEPT !.files[fp] = file], fp |-> fp]
        [] type = "DEV" -> [k |-> [iclose(r.k, r.ip) EXCEPT !.files[fp] = dev], fp |-> fp]
        [] OTHER -> [k |-> abort(r.k, "assert"), fp |-> 0]

fopen_found(r, fp, mode) ==
  IF r.ip = 0 THEN [k |-> fclose(r.k, fp), fp |-> 0] ELSE fopen_inode(r, fp, mode)

fopen(k, c, path, mode) ==
  LET fp == falloc(k)
  IN  IF fp = 0 THEN [k |-> k, fp |-> 0]
      ELSE fopen_found(iopen([k EXCEPT !.files[fp] = [free_file EXCEPT !.ref = 1]],
                             c, path, open_type(mode)), fp, mode)

\* Device reads and writes leave the file system alone (module Serial has the console).
fread(k, f, len) ==
  LET file == k.files[f]
      r == iread(k, file.inode, file.offset, len)
  IN  IF file.readable /\ file.type = "FILE" /\ r.n >= 0
        THEN [r.k EXCEPT !.files[f].offset = (@ + r.n) % OFF_MOD]
        ELSE k

fwrite(k, f, buf) ==
  LET file == k.files[f]
      r == iwrite(k, file.inode, file.offset, buf)
  IN  IF file.writable /\ file.type = "FILE" /\ r.n >= 0
        THEN [r.k EXCEPT !.files[f].offset = (@ + r.n) % OFF_MOD]
        ELSE k

fseek(k, f, off, whence) ==
  LET file == k.files[f]
      base == CASE whence = "SET" -> 0
                [] whence = "CUR" -> file.offset
                [] whence = "END" -> size_of(k, file.inode)
  IN  IF file.type # "FILE" THEN k
      ELSE IF whence \notin {"SET", "CUR", "END"} THEN abort(k, "assert")
      ELSE [k EXCEPT !.files[f].offset = (base + off) % OFF_MOD]

-----------------------------------------------------------------------------
(* The first disk, made by utils/mkfs.c.  It allocates inodes and blocks   *)
(* in ascending order and frees none, so each one is the first free one.   *)

empty_disk == [dinode |-> [i \in Inos |-> zero_dinode], bitmap |-> {},
               blk |-> [b \in Blocks |-> [i \in 0 .. BLK_SIZE - 1 |-> cell(IF b = 0 THEN 0 ELSE JUNK)]]]

kernel(d) == [disk |-> d, inodes |-> [i \in 0 .. INODE_NUM |-> free_inode],
              files |-> [f \in 0 .. TOTAL_FILE |-> free_file], fault |-> "no"]

iappend(k, no, buf) ==
  LET r == iget(k, no)
  IN  iclose(iwrite(r.k, r.ip, size_of(r.k, r.ip), buf).k, r.ip)

init_disk == iappend(dialloc(kernel(empty_disk), "DIR").k, root, <<dirent(root, "."), dirent(root, "..")>>)

add_file(k, f) ==
  LET r == dialloc(k, "FILE")
  IN  iappend(iappend(r.k, root, <<dirent(r.no, f.name)>>), r.no, f.data)

mkfs_kernel ==
  LET done[i \in 0 .. Len(Image)] == IF i = 0 THEN init_disk ELSE add_file(done[i - 1], Image[i])
  IN  done[Len(Image)]

\* mkfs fails if the image does not fit on the disk, and then there is no system.
ASSUME ImageFits == mkfs_kernel.fault = "no"

mkfs == mkfs_kernel.disk

-----------------------------------------------------------------------------
(* Start of the kernel: init_fs, init_proc (whose process keeps the root   *)
(* directory open for ever), init_dev, and the first user process.         *)

boot(d) == iopen(init_dev(iget(kernel(d), root).k), 0, [abs |-> TRUE, elems |-> <<>>], "NONE")

\* The tables are large enough for the kernel to come up on its first disk; if they are
\* not, it stops in init_dev or init_proc, before any program runs.
ASSUME BootSucceeds == boot(mkfs).k.fault = "no"

no_files == [fd \in Fds |-> 0]

alive(p) == cwd[p] # 0

Init ==
  \E r \in {boot(mkfs)} :
    /\ disk = r.k.disk
    /\ inodes = r.k.inodes
    /\ files = r.k.files
    /\ ufiles = [p \in Procs |-> no_files]
    /\ cwd = [p \in Procs |-> IF p = First THEN r.ip ELSE 0]
    /\ halted = r.k.fault

k_now == [disk |-> disk, inodes |-> inodes, files |-> files, fault |-> halted]

\* The kernel goes on with k and the tables u and c of the processes, or stops.
commit(k, u, c) ==
  /\ halted' = k.fault
  /\ IF k.fault = "no"
       THEN disk' = k.disk /\ inodes' = k.inodes /\ files' = k.files /\ ufiles' = u /\ cwd' = c
       ELSE UNCHANGED <<disk, inodes, files, ufiles, cwd>>

calls(p) == halted = "no" /\ alive(p)

proc_allocfile(p) == first({fd \in Fds : ufiles[p][fd] = 0})

sys_open(p, path, mode) ==
  LET fd == proc_allocfile(p)
      r == fopen(k_now, cwd[p], path, mode)
  IN  /\ calls(p)
      /\ fd # 0
      /\ commit(r.k, [ufiles EXCEPT ![p][fd] = r.fp], cwd)

sys_close(p, fd) ==
  /\ calls(p)
  /\ ufiles[p][fd] # 0
  /\ commit(fclose(k_now, ufiles[p][fd]), [ufiles EXCEPT ![p][fd] = 0], cwd)

sys_dup(p, fd) ==
  LET new_fd == proc_allocfile(p)
  IN  /\ calls(p)
      /\ new_fd # 0
      /\ ufiles[p][fd] # 0
      /\ commit(fdup(k_now, ufiles[p][fd]), [ufiles EXCEPT ![p][new_fd] = ufiles[p][fd]], cwd)

sys_lseek(p, fd, off, whence) ==
  /\ calls(p)
  /\ ufiles[p][fd] # 0
  /\ commit(fseek(k_now, ufiles[p][fd], off, whence), ufiles, cwd)

sys_read(p, fd, count) ==
  /\ calls(p)
  /\ ufiles[p][fd] # 0
  /\ commit(fread(k_now, ufiles[p][fd], count), ufiles, cwd)

sys_write(p, fd, buf) ==
  /\ calls(p)
  /\ ufiles[p][fd] # 0
  /\ commit(fwrite(k_now, ufiles[p][fd], buf), ufiles, cwd)

chdir_to(p, r) ==
  IF r.ip # 0 /\ type_of(r.k, r.ip) = "DIR"
    THEN commit(iclose(r.k, cwd[p]), ufiles, [cwd EXCEPT ![p] = r.ip])
    ELSE commit(IF r.ip = 0 THEN r.k ELSE iclose(r.k, r.ip), ufiles, cwd)

sys_chdir(p, path) ==
  /\ calls(p)
  /\ chdir_to(p, iopen(k_now, cwd[p], path, "NONE"))

sys_unlink(p, path) ==
  /\ calls(p)
  /\ commit(iremove(k_now, cwd[p], path), ufiles, cwd)

\* fdup of the open files of p, in the order of its descriptors.
fdup_all(k, p) ==
  LET done[fd \in 0 .. MAX_UFILE] ==
        IF fd = 0 THEN k
        ELSE IF ufiles[p][fd] = 0 THEN done[fd - 1] ELSE fdup(done[fd - 1], ufiles[p][fd])
  IN  done[MAX_UFILE]

\* Mutant: the child shares open files that nobody counts.
sys_fork_nodup(p, child) ==
  /\ calls(p)
  /\ ~alive(child)
  /\ commit(idup(k_now, cwd[p]),
            [ufiles EXCEPT ![child] = ufiles[p]],
            [cwd EXCEPT ![child] = cwd[p]])

\* What fork does to files: the child shares the open files and the directory.
sys_fork(p, child) ==
  /\ calls(p)
  /\ ~alive(child)
  /\ commit(idup(fdup_all(k_now, p), cwd[p]),
            [ufiles EXCEPT ![child] = ufiles[p]],
            [cwd EXCEPT ![child] = cwd[p]])

fclose_all(k, p) ==
  LET done[fd \in 0 .. MAX_UFILE] ==
        IF fd = 0 THEN k
        ELSE IF ufiles[p][fd] = 0 THEN done[fd - 1] ELSE fclose(done[fd - 1], ufiles[p][fd])
  IN  done[MAX_UFILE]

\* What exit does to files.  The PCB keeps its tables until proc_alloc clears
\* them; nothing reads them in between.
sys_exit(p) ==
  /\ calls(p)
  /\ commit(iclose(fclose_all(k_now, p), cwd[p]),
            [ufiles EXCEPT ![p] = no_files],
            [cwd EXCEPT ![p] = 0])

\* The machine is switched off between two calls, and on again.
restart ==
  /\ halted = "no"
  /\ \E r \in {boot(disk)} :
      commit(r.k, [p \in Procs |-> no_files], [p \in Procs |-> IF p = First THEN r.ip ELSE 0])

stopped == halted # "no" /\ UNCHANGED vars

Next ==
  \/ \E p \in Procs :
       \/ \E path \in Paths[p] : (\E mode \in Modes : sys_open(p, path, mode))
                             \/ sys_chdir(p, path) \/ sys_unlink(p, path)
       \/ \E fd \in Fds :
            \/ sys_close(p, fd) \/ sys_dup(p, fd)
            \/ \E s \in Seeks : sys_lseek(p, fd, s.off, s.whence)
            \/ \E n \in Lens : sys_read(p, fd, n)
            \/ \E n \in Lens, v \in Bytes : sys_write(p, fd, [i \in 1 .. n |-> cell(v)])
       \/ \E child \in Procs : sys_fork(p, child)
       \/ sys_exit(p)
  \/ restart
  \/ stopped

Spec == Init /\ [][Next]_vars

-----------------------------------------------------------------------------
(* Properties.                                                             *)

\* Reference counts of open files (file.c:138-152) are the numbers of
\* descriptors on them, over all processes.
FileRefs ==
  \A f \in Files :
    files[f].ref = Cardinality({x \in Procs \X Fds : ufiles[x[1]][x[2]] = f})

\* Reference counts of active inodes (fs.c:239-257, 539-552) are the numbers of
\* open files and current directories on them, process 0's directory included:
\* no path through open, chdir, unlink or exit drops or keeps one too many.
InodeRefs ==
  \A i \in Slots :
    inodes[i].ref = Cardinality({f \in Files : files[f].ref > 0 /\ files[f].inode = i})
                  + Cardinality({p \in Procs : cwd[p] = i})
                  + (IF inodes[i].ref > 0 /\ inodes[i].no = root THEN 1 ELSE 0)

\* What is counted is held and what is held is counted, for open files and for
\* inodes together, after any mix of open, its failures, dup, fork, close, chdir
\* and exit: a count too low frees a file under an open descriptor.
RefsCounted == FileRefs /\ InodeRefs

\* An inode is active in one slot, exists on the disk, and its copy in memory
\* is the one on the disk (fs.c:262 "call me EVERYTIME after you edit").
InodeCacheSync ==
  \A i \in Slots : inodes[i].ref > 0 =>
    /\ inodes[i].dinode = disk.dinode[inodes[i].no]
    /\ inodes[i].dinode.type # "NONE"
    /\ \A j \in Slots \ {i} : inodes[j].ref > 0 => inodes[j].no # inodes[i].no

\* The block that holds the n-th block of data of inode no, and the data.
data_block(no, n) ==
  LET addrs == disk.dinode[no].addrs
  IN  IF n < NDIRECT THEN addrs[n] ELSE disk.blk[addrs[NDIRECT]][n - NDIRECT].inode

content(no) ==
  [j \in 1 .. disk.dinode[no].size |->
     disk.blk[data_block(no, (j - 1) \div BLK_SIZE)][(j - 1) % BLK_SIZE]]

\* The places that can hold a block number: addresses of inodes, and cells of
\* indirect blocks.
addresses ==
  {<<no, "addr", i>> : no \in Inos, i \in 0 .. NDIRECT}
  \cup {<<no, "indirect", i>> : no \in {n \in Inos : disk.dinode[n].addrs[NDIRECT] # 0},
                               i \in 0 .. NINDIRECT - 1}

block_at(a) ==
  IF a[2] = "addr" THEN disk.dinode[a[1]].addrs[a[3]]
  ELSE disk.blk[disk.dinode[a[1]].addrs[NDIRECT]][a[3]].inode

\* A block of the disk is marked in the bitmap exactly when one inode uses it,
\* and one place of one inode only: files never share blocks, no block leaks
\* (fs.c:193-228, 418-451, 513-537), whatever is removed, truncated or reused.
BlocksOwnedOnce ==
  LET used == {a \in addresses : block_at(a) # 0}
  IN  /\ {block_at(a) : a \in used} = disk.bitmap
      /\ Cardinality(used) = Cardinality(disk.bitmap)

\* The entries of directories with a name of their own.
links ==
  UNION {{[dir |-> d, pos |-> i, name |-> content(d)[i].name, obj |-> content(d)[i].inode] :
            i \in {j \in 3 .. disk.dinode[d].size : content(d)[j].inode # 0}} :
         d \in {n \in Inos : disk.dinode[n].type = "DIR"}}

in_tree ==
  LET grow(R, i) == R \cup {l.obj : l \in {x \in links : x.dir \in R}}
  IN  FoldLeft(grow, {root}, [i \in 1 .. inum |-> i])

\* What can be reached from the root is a tree: every name leads to an existing
\* inode that is not marked removed, a directory holds a name once, an inode has
\* one name, and the first two entries of a directory are itself and the
\* directory that names it (fs.c:298-357, 593-628).  Removing, creating in
\* removed directories, reusing inode numbers and restarting keep it so.
TreeWellFormed ==
  LET tree == {l \in links : l.dir \in in_tree}
  IN  /\ disk.dinode[root].type = "DIR"
      /\ \A l \in tree : /\ disk.dinode[l.obj].type # "NONE"
                         /\ l.obj # root
                         /\ \A i \in Slots : inodes[i].no = l.obj => ~inodes[i].del
      /\ \A l, m \in tree : l # m => l.obj # m.obj /\ (l.dir = m.dir => l.name # m.name)
      /\ \A l \in tree : disk.dinode[l.obj].type = "DIR" =>
           SubSeq(content(l.obj), 1, 2) = <<dirent(l.obj, "."), dirent(l.dir, "..")>>

\* While the kernel runs, a read of an open file returns the content from its offset
\* on, up to the end of the file, and allocates nothing (fs.c:454-477).
ReadsReturnContent ==
  \A f \in Files, n \in Lens :
    LET data == content(inodes[files[f].inode].no)
        r == iread(k_now, files[f].inode, files[f].offset, n)
    IN  halted = "no" /\ files[f].ref > 0 /\ files[f].type = "FILE" /\ files[f].offset <= Len(data) =>
          /\ r.k = k_now
          /\ r.buf = SubSeq(data, files[f].offset + 1, Min({files[f].offset + n, Len(data)}))

\* The names of the directories that exist, without the places of their entries.
names_now == {[dir |-> l.dir, name |-> l.name, obj |-> l.obj] : l \in links}

Store == INSTANCE FileStore WITH
  Objects <- Inos,
  Names <- UNION {Range(path.elems) : path \in UNION Range(Paths)} \cup Range(dev_table)
             \cup {"dev"} \cup {f.name : f \in Range(Image)},
  kind <- [no \in Inos |-> disk.dinode[no].type],
  data <- [no \in Inos |-> IF disk.dinode[no].type = "FILE"
                            THEN [i \in DOMAIN content(no) |-> content(no)[i].inode] ELSE <<>>],
  names <- names_now

\* The system calls do to the files and directories what FileStore allows and
\* nothing else: a write changes one file where it should, a truncated or new
\* file is empty, blocks and inodes used again bring nothing back, unlink takes
\* a name away and only an empty directory, and restart changes nothing.
ImplementsFileStore == Store!StoreSpec

\* The assertions of the code hold: assert(0) in fopen for an inode of no type
\* (file.c:67), the assertions of ilookup and idirinit, bfree and iclose.
AssertionsHold == halted # "assert"
=============================================================================
