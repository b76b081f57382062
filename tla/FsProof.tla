------------------------------ MODULE FsProof ------------------------------
(***************************************************************************)
(* Proofs about Fs for any number of processes, open files, inodes and     *)
(* blocks, any size of a block, and whatever paths, modes and bytes        *)
(* programs use: the reference counts, the cached inodes, that every       *)
(* block has one owner; and that a read returns the content of the file.   *)
(*                                                                         *)
(* The proofs go from the operators upwards: what keeps a kernel Sound     *)
(* between any two steps of a call, what each function of fs.c and file.c  *)
(* adds to the references it is counted for (Held, Dropped), the loops,    *)
(* the calls on a Whole kernel, mkfs and the start, and at the end the     *)
(* invariant IInv and the theorems.                                        *)
(***************************************************************************)
EXTENDS Fs, FiniteSetTheorems, FunctionTheorems, SequenceTheorems, WellFoundedInduction, TLAPS

-----------------------------------------------------------------------------
(***************************************************************************)
(* The kernel's data.                                                      *)
(***************************************************************************)

Cells == 0 .. BLK_SIZE - 1
Addrs == 0 .. NDIRECT
Ips == 0 .. INODE_NUM
Types == {"NONE", "FILE", "DIR", "DEV"}
Names == STRING \cup {"", ".", "..", "dev"}
Cell == [inode : Nat, name : Names]
Block == [Cells -> Cell]
Dinode == [type : Types, device : Nat, size : Nat, addrs : [Addrs -> Blocks]]
Disk == [dinode : [Inos -> Dinode], bitmap : SUBSET (Blocks \ {0}), blk : [Blocks -> Block]]
Inode == [no : Inos, ref : Nat, del : BOOLEAN, dinode : Dinode]
File == [ref : Nat, type : {"NONE", "FILE", "DEV"}, readable : BOOLEAN, writable : BOOLEAN,
         inode : Ips, offset : Nat, dev_op : Nat]
Kernel == [disk : Disk, inodes : [Ips -> Inode], files : [0 .. TOTAL_FILE -> File],
           fault : {"no", "full", "assert"}]

LEMMA Sizes ==
  /\ INODE_NUM \in Nat /\ INODE_NUM >= 1 /\ inum \in Nat /\ inum >= 1 /\ BLK_NUM \in Nat
  /\ BLK_SIZE \in Nat /\ BLK_SIZE >= 1 /\ NDIRECT \in Nat /\ NDIRECT >= 1
  /\ OFF_MOD \in Nat /\ OFF_MOD >= 1 /\ MAX_UFILE \in Nat /\ TOTAL_FILE \in Nat
  /\ Slots \subseteq Ips /\ 0 \in Ips /\ 0 \notin Slots /\ 0 \in Inos /\ 0 \in Blocks
  /\ Inos \subseteq Nat /\ Blocks \subseteq Nat /\ NDIRECT \in Addrs /\ JUNK \in Nat
  /\ Ips = Slots \cup {0} /\ 0 \in Addrs /\ 0 \in Cells
<1>1. /\ INODE_NUM \in Nat \ {0} /\ inum \in Nat \ {0} /\ BLK_NUM \in Nat \ {0}
      /\ BLK_SIZE \in Nat \ {0} /\ NDIRECT \in Nat \ {0} /\ OFF_MOD \in Nat \ {0}
      /\ MAX_UFILE \in Nat \ {0} /\ TOTAL_FILE \in Nat \ {0}
  BY FsAssumption
<1> QED
  BY <1>1 DEF Slots, Ips, Inos, Blocks, Addrs, JUNK, Cells

\* The parts of a kernel.
LEMMA KernelParts ==
  ASSUME NEW k \in Kernel
  PROVE  /\ k.disk \in Disk /\ k.disk.dinode \in [Inos -> Dinode]
         /\ k.disk.bitmap \in SUBSET (Blocks \ {0}) /\ k.disk.blk \in [Blocks -> Block]
         /\ k.inodes \in [Ips -> Inode] /\ k.files \in [0 .. TOTAL_FILE -> File]
         /\ k.fault \in {"no", "full", "assert"}
BY DEF Kernel, Disk

\* The kernel k with other inodes on the disk, and so on.
LEMMA SetDinode ==
  ASSUME NEW k \in Kernel, NEW no \in Inos, NEW di \in Dinode, NEW n, n = diwrite(k, di, no)
  PROVE  /\ n \in Kernel /\ n.fault = k.fault /\ n.inodes = k.inodes /\ n.files = k.files
         /\ n.disk.bitmap = k.disk.bitmap /\ n.disk.blk = k.disk.blk
         /\ n.disk.dinode = [k.disk.dinode EXCEPT ![no] = di]
BY DEF Kernel, Disk, diwrite

put_inode(k, ip, x) == [k EXCEPT !.inodes[ip] = x]

LEMMA SetInode ==
  ASSUME NEW k \in Kernel, NEW ip \in Ips, NEW x \in Inode, NEW n, n = put_inode(k, ip, x)
  PROVE  /\ n \in Kernel /\ n.fault = k.fault /\ n.disk = k.disk /\ n.files = k.files
         /\ n.inodes = [k.inodes EXCEPT ![ip] = x]
BY DEF Kernel, put_inode

put_file(k, f, x) == [k EXCEPT !.files[f] = x]

LEMMA SetFile ==
  ASSUME NEW k \in Kernel, NEW f \in 0 .. TOTAL_FILE, NEW x \in File, NEW n,
         n = put_file(k, f, x)
  PROVE  /\ n \in Kernel /\ n.fault = k.fault /\ n.disk = k.disk /\ n.inodes = k.inodes
         /\ n.files = [k.files EXCEPT ![f] = x]
BY DEF Kernel, put_file

put_cell(k, b, j, v) == [k EXCEPT !.disk.blk[b][j] = v]

LEMMA SetCell ==
  ASSUME NEW k \in Kernel, NEW b \in Blocks, NEW j \in Cells, NEW v \in Cell, NEW n,
         n = put_cell(k, b, j, v)
  PROVE  /\ n \in Kernel /\ n.fault = k.fault /\ n.inodes = k.inodes /\ n.files = k.files
         /\ n.disk.bitmap = k.disk.bitmap /\ n.disk.dinode = k.disk.dinode
         /\ n.disk.blk = [k.disk.blk EXCEPT ![b] = [@ EXCEPT ![j] = v]]
BY DEF Kernel, Disk, Block, put_cell

LEMMA DinodeTypes ==
  ASSUME NEW d \in Dinode
  PROVE  /\ \A s \in Nat : [d EXCEPT !.size = s] \in Dinode
         /\ \A id \in Nat : [d EXCEPT !.device = id] \in Dinode
         /\ \A i \in Addrs, b \in Blocks :
              [d EXCEPT !.addrs = [@ EXCEPT ![i] = b]] \in Dinode
BY DEF Dinode

LEMMA InodeTypes ==
  ASSUME NEW x \in Inode
  PROVE  /\ \A d \in Dinode : [x EXCEPT !.dinode = d] \in Inode
         /\ \A r \in Nat : [x EXCEPT !.ref = r] \in Inode
         /\ [x EXCEPT !.del = TRUE] \in Inode
BY DEF Inode

\* The kernel with another inode in memory.
with_dinode(k, ip, d) == [k EXCEPT !.inodes[ip].dinode = d]

LEMMA SetInodeDinode ==
  ASSUME NEW k \in Kernel, NEW ip \in Ips, NEW d \in Dinode, NEW n, n = with_dinode(k, ip, d)
  PROVE  /\ n \in Kernel /\ n.fault = k.fault /\ n.disk = k.disk /\ n.files = k.files
         /\ n.inodes = [k.inodes EXCEPT ![ip] = [@ EXCEPT !.dinode = d]]
<1> DEFINE x == [k.inodes[ip] EXCEPT !.dinode = d]
<1>1. x \in Inode
  BY KernelParts, InodeTypes
<1>2. n = [k EXCEPT !.inodes[ip] = x]
  BY DEF with_dinode
<1>3. n.inodes = [k.inodes EXCEPT ![ip] = x] => n.inodes = [k.inodes EXCEPT ![ip] = [@ EXCEPT !.dinode = d]]
  OBVIOUS
<1> HIDE DEF x
<1>4. /\ n \in Kernel /\ n.fault = k.fault /\ n.disk = k.disk /\ n.files = k.files
      /\ n.inodes = [k.inodes EXCEPT ![ip] = x]
  BY <1>1, <1>2 DEF Kernel
<1> QED
  BY <1>3, <1>4

LEMMA AbortIs ==
  ASSUME NEW k \in Kernel, NEW why \in {"full", "assert"}
  PROVE  abort(k, why) \in Kernel /\ abort(k, why).fault # "no"
BY DEF Kernel, abort

-----------------------------------------------------------------------------
(***************************************************************************)
(* What holds of a kernel that goes on, between any two steps of a call.   *)
(***************************************************************************)

\* The places that hold block numbers: place i of an inode is address i, or, from
\* NDIRECT + 1 on, a cell of its indirect block.
Places == 0 .. NDIRECT + NINDIRECT
DataPlaces == Places \ {NDIRECT}

At(k, no, i) ==
  LET addrs == k.disk.dinode[no].addrs
  IN  IF i <= NDIRECT THEN addrs[i]
      ELSE IF addrs[NDIRECT] = 0 THEN 0
      ELSE k.disk.blk[addrs[NDIRECT]][i - NDIRECT - 1].inode

\* Every place holds a block that is marked in the bitmap or none, no two hold the
\* same block, and every marked block is in some place.
Own(k) ==
  /\ \A no \in Inos, i \in Places : At(k, no, i) # 0 => At(k, no, i) \in k.disk.bitmap
  /\ \A no, mo \in Inos, i, j \in Places :
       At(k, no, i) = At(k, mo, j) /\ At(k, no, i) # 0 => no = mo /\ i = j
  /\ \A b \in k.disk.bitmap : \E no \in Inos, i \in Places : At(k, no, i) = b

\* The data of directories consists of entries.
DirCells(k) ==
  \A no \in Inos, i \in DataPlaces :
    k.disk.dinode[no].type = "DIR" /\ At(k, no, i) # 0 =>
      \A j \in Cells : k.disk.blk[At(k, no, i)][j].inode \in Inos

\* A free inode has no blocks.
FreeClean(k) ==
  \A no \in Inos : k.disk.dinode[no].type = "NONE" => k.disk.dinode[no].addrs = zero_dinode.addrs

active(k, i) == k.inodes[i].ref > 0

\* An active inode is the one on the disk, and active in one slot.
Sync(k) == \A i \in Slots : active(k, i) => k.inodes[i].dinode = k.disk.dinode[k.inodes[i].no]
Distinct(k) ==
  \A i, j \in Slots : active(k, i) /\ active(k, j) /\ k.inodes[i].no = k.inodes[j].no => i = j

Sound(k) ==
  /\ k \in Kernel /\ k.fault = "no"
  /\ Own(k) /\ DirCells(k) /\ FreeClean(k) /\ Sync(k) /\ Distinct(k)

\* The place of block m of a file, which has one.
block_place(m) == IF m < NDIRECT THEN m ELSE m + 1
Filled(k, no, m) == m < NDIRECT + NINDIRECT /\ At(k, no, block_place(m)) # 0

\* No file has a hole before its end.
Solid(k) ==
  \A no \in Inos, pos \in Nat :
    pos < k.disk.dinode[no].size => Filled(k, no, pos \div BLK_SIZE)

\* Inside of iwrite a kernel is Sound: the file is longer before it has its blocks.
Good(k) == Sound(k) /\ Solid(k)

-----------------------------------------------------------------------------
(***************************************************************************)
(* A kernel that has stopped: the rest of the call changes nothing of that.*)
(***************************************************************************)

Stopped(k) == "fault" \in DOMAIN k /\ k.fault # "no"

LEMMA AbortStops ==
  ASSUME NEW k \in Kernel, NEW why \in {"full", "assert"}
  PROVE  Stopped(abort(k, why))
BY AbortIs DEF Stopped, Kernel

LEMMA SetStops ==
  ASSUME NEW k, Stopped(k)
  PROVE  /\ \A x : Stopped([k EXCEPT !.disk = x])
         /\ \A x : Stopped([k EXCEPT !.inodes = x])
         /\ \A x : Stopped([k EXCEPT !.files = x])
         /\ \A why : Stopped(abort(k, why))
         /\ \A c : Stopped(check(k, c))
BY DEF Stopped, abort, check

LEMMA DiskStops ==
  ASSUME NEW k, Stopped(k)
  PROVE  /\ \A di, no : Stopped(diwrite(k, di, no))
         /\ \A no : Stopped(difree(k, no))
         /\ \A t : Stopped(dialloc(k, t).k)
         /\ \A b : Stopped(bzero(k, b))
         /\ Stopped(balloc(k).k)
         /\ \A S : Stopped(bfree(k, S))
<1>1. \A di, no : Stopped(diwrite(k, di, no))
  BY SetStops DEF diwrite
<1>2. \A no : Stopped(difree(k, no))
  BY <1>1 DEF difree
<1>3. \A t : Stopped(dialloc(k, t).k)
  BY <1>1, SetStops DEF dialloc
<1>4. ASSUME NEW b PROVE Stopped(bzero(k, b))
  BY SetStops DEF bzero
<1>5. Stopped(balloc(k).k)
  <2>1. \A b : Stopped([bzero(k, b) EXCEPT !.disk.bitmap = @ \cup {b}])
    BY <1>4, SetStops
  <2> QED
    BY <2>1, SetStops DEF balloc
<1>6. ASSUME NEW S PROVE Stopped(bfree(k, S))
  <2>1. Stopped(check(k, 0 \notin S))
    BY SetStops
  <2> QED
    BY <2>1, SetStops DEF bfree
<1> QED
  BY <1>1, <1>2, <1>3, <1>4, <1>5, <1>6

LEMMA InodeStops ==
  ASSUME NEW k, Stopped(k), NEW ip
  PROVE  /\ \A no : Stopped(iget(k, no).k)
         /\ Stopped(iupdate(k, ip)) /\ Stopped(itrunc(k, ip))
         /\ Stopped(idup(k, ip)) /\ Stopped(iclose(k, ip))
<1>1. \A no : Stopped(iget(k, no).k)
  BY SetStops DEF iget
<1>2. ASSUME NEW n, Stopped(n) PROVE Stopped(iupdate(n, ip))
  BY <1>2, DiskStops DEF iupdate
<1>3. Stopped(itrunc(k, ip))
  <2>1. \A S, x : Stopped([bfree(k, S) EXCEPT !.inodes[ip].dinode = x])
    BY DiskStops, SetStops
  <2> QED
    BY <1>2, <2>1 DEF itrunc
<1>4. Stopped(idup(k, ip))
  <2>1. Stopped(check(k, ip # 0))
    BY SetStops
  <2> QED
    BY <2>1, SetStops DEF idup
<1>5. Stopped(iclose(k, ip))
  <2>1. \A no : Stopped(difree(itrunc(k, ip), no))
    BY <1>3, DiskStops
  <2>2. \A n : Stopped(n) => Stopped(check(n, ip # 0))
    BY SetStops
  <2>3. \A n, x : Stopped(n) => Stopped([check(n, ip # 0) EXCEPT !.inodes[ip] = x])
    BY <2>2, SetStops
  <2> QED
    BY <2>1, <2>3 DEF iclose
<1> QED
  BY <1>1, <1>2, <1>3, <1>4, <1>5

LEMMA WalkStops ==
  ASSUME NEW k, Stopped(k), NEW ip, NEW no
  PROVE  Stopped(iwalk(k, ip, no).k)
<1>1. ASSUME NEW i PROVE Stopped(walk_addr(k, ip, i).k)
  <2>1. \A x : Stopped([balloc(k).k EXCEPT !.inodes = x])
    BY DiskStops, SetStops
  <2>2. Stopped(set_addr(balloc(k), ip, i).k)
    BY <2>1, InodeStops DEF set_addr
  <2> QED
    BY <2>2 DEF walk_addr
<1>2. ASSUME NEW ind, Stopped(ind.k), NEW j PROVE Stopped(walk_indirect(ind, j).k)
  <2>1. Stopped(set_indirect(balloc(ind.k), ind, j).k)
    BY <1>2, DiskStops, SetStops DEF set_indirect
  <2> QED
    BY <1>2, <2>1 DEF walk_indirect
<1> QED
  BY <1>1, <1>2, SetStops DEF iwalk

LEMMA ReadStops ==
  ASSUME NEW k, Stopped(k), NEW ip, NEW off
  PROVE  /\ \A len : Stopped(iread(k, ip, off, len).k)
         /\ \A buf : Stopped(iwrite(k, ip, off, buf).k)
BY DEF iread, iwrite, stopped_in, Stopped

\* A round of the loops of iread and iwrite.
LEMMA RoundStops ==
  /\ \A acc, ip, pos : Stopped(acc.k) /\ DOMAIN acc = {"k", "n", "buf"} =>
       Stopped(read_at(acc, ip, pos).k)
  /\ \A k, ip, pos, v : Stopped(k) => Stopped(write_at(k, ip, pos, v))
<1>1. ASSUME NEW acc, NEW ip, NEW pos, Stopped(acc.k), DOMAIN acc = {"k", "n", "buf"}
      PROVE  Stopped(read_at(acc, ip, pos).k)
  BY <1>1, WalkStops DEF read_at, read_cell
<1>2. ASSUME NEW k, NEW ip, NEW pos, NEW v, Stopped(k) PROVE Stopped(write_at(k, ip, pos, v))
  BY <1>2, WalkStops, SetStops DEF write_at, write_cell
<1> QED
  BY <1>1, <1>2

-----------------------------------------------------------------------------
(***************************************************************************)
(* Loops.                                                                  *)
(***************************************************************************)

\* A nonempty set of naturals has a least element.
LEMMA LeastNatural ==
  ASSUME NEW S \in SUBSET Nat, S # {}
  PROVE  \E x \in S : \A y \in S : x <= y
<1> DEFINE Less == {ss \in Nat \X Nat : ss[1] < ss[2]}
<1>1. IsWellFoundedOn(Less, Nat)
  BY NatLessThanWellFounded, Zenon DEF OpToRel
<1> HIDE DEF Less
<1>2. PICK x \in S : \A y \in S : ~ (<<y, x>> \in Less)
  BY <1>1, WFMin
<1>3. \A y \in S : x <= y
  <2> SUFFICES ASSUME NEW y \in S, y < x PROVE FALSE
    OBVIOUS
  <2>1. <<y, x>> \in Nat \X Nat
    OBVIOUS
  <2>2. <<y, x>>[1] < <<y, x>>[2]
    OBVIOUS
  <2> QED
    BY <1>2, <2>1, <2>2 DEF Less
<1> QED
  BY <1>3

\* Induction over the rounds of a loop: what holds before it and is kept by each
\* round holds after each.  good is the set of the rounds after which it holds.
LEMMA RoundByRound ==
  ASSUME NEW n \in Nat, NEW good, 0 \in good,
         \A k \in 1 .. n : k - 1 \in good => k \in good
  PROVE  \A k \in 0 .. n : k \in good
<1> DEFINE bad == {k \in 0 .. n : k \notin good}
<1> SUFFICES ASSUME bad # {} PROVE FALSE
  OBVIOUS
<1>0. bad \in SUBSET Nat
  OBVIOUS
<1>1. PICK k \in bad : \A j \in bad : k <= j
  <2> HIDE DEF bad
  <2> QED
    BY <1>0, LeastNatural
<1>2. k # 0
  OBVIOUS
<1>3. k \in 1 .. n /\ k - 1 \in 0 .. n /\ ~ (k <= k - 1)
  BY <1>2
<1>4. k - 1 \notin bad
  BY <1>1, <1>3
<1> QED
  BY <1>3, <1>4

\* The rounds of iread.
LEMMA ReadRounds ==
  ASSUME NEW k, NEW ip, NEW off \in Nat, NEW len, NEW n \in Nat, n = read_len(k, ip, off, len),
         ~ stopped_in(k), ~ (off > size_of(k, ip))
  PROVE  \E done : /\ done[0] = [k |-> k, n |-> n, buf |-> <<>>]
                   /\ \A j \in 1 .. n : done[j] = read_at(done[j - 1], ip, off + j - 1)
                   /\ iread(k, ip, off, len) = done[n]
<1> DEFINE body(f) == [i \in 0 .. n |-> IF i = 0 THEN [k |-> k, n |-> n, buf |-> <<>>] ELSE read_at(f[i - 1], ip, off + i - 1)]
           Upto(f, i) == f[0] = [k |-> k, n |-> n, buf |-> <<>>] /\ \A j \in 1 .. i : f[j] = read_at(f[j - 1], ip, off + j - 1)
           good == {i \in 0 .. n : \E f : Upto(f, i)}
           done == CHOOSE f : f = body(f)
<1>1. 0 \in good
  <2> DEFINE g == [j \in {0} |-> [k |-> k, n |-> n, buf |-> <<>>]]
  <2>1. Upto(g, 0)
    OBVIOUS
  <2> HIDE DEF g, Upto
  <2> QED
    BY <2>1
<1>2. ASSUME NEW i \in 1 .. n, i - 1 \in good PROVE i \in good
  <2>1. PICK f : Upto(f, i - 1)
    BY <1>2
  <2> DEFINE g == [j \in 0 .. i |-> IF j = i THEN read_at(f[i - 1], ip, off + i - 1) ELSE f[j]]
  <2>2. g[i] = read_at(f[i - 1], ip, off + i - 1) /\ \A j \in 0 .. i - 1 : g[j] = f[j]
    OBVIOUS
  <2> HIDE DEF g
  <2>3. Upto(g, i)
    <3>1. g[0] = [k |-> k, n |-> n, buf |-> <<>>]
      BY <2>1, <2>2
    <3>2. ASSUME NEW j \in 1 .. i PROVE g[j] = read_at(g[j - 1], ip, off + j - 1)
      <4>1. g[j - 1] = f[j - 1]
        BY <2>2
      <4>2. CASE j = i
        BY <2>2, <4>1, <4>2
      <4>3. CASE j # i
        <5>1. g[j] = f[j] /\ j \in 1 .. i - 1
          BY <2>2, <4>3
        <5> QED
          BY <2>1, <4>1, <5>1
      <4> QED
        BY <4>2, <4>3
    <3> QED
      BY <3>1, <3>2
  <2> HIDE DEF Upto
  <2> QED
    BY <2>3
<1>3. \E f : Upto(f, n)
  <2> HIDE DEF good
  <2>1. \A i \in 0 .. n : i \in good
    BY <1>1, <1>2, RoundByRound
  <2>2. n \in good
    BY <2>1
  <2> QED
    BY <2>2 DEF good
<1>4. PICK f : Upto(f, n)
  BY <1>3
<1> DEFINE g == [j \in 0 .. n |-> f[j]]
<1>5. g = body(g)
  BY <1>4
<1> HIDE DEF g
<1>6. done = body(done)
  <2> HIDE DEF body
  <2> QED
    BY <1>5
<1>7. iread(k, ip, off, len) = done[n]
  BY DEF iread
<1> HIDE DEF done
<1>8. done[0] = [k |-> k, n |-> n, buf |-> <<>>]
  BY <1>6
<1>9. ASSUME NEW j \in 1 .. n PROVE done[j] = read_at(done[j - 1], ip, off + j - 1)
  <2>1. j \in 0 .. n /\ j # 0
    OBVIOUS
  <2> QED
    BY <1>6, <2>1
<1> QED
  BY <1>7, <1>8, <1>9

\* The rounds of iwrite.
LEMMA WriteRounds ==
  ASSUME NEW k, NEW ip, NEW off \in Nat, NEW buf, NEW n \in Nat, n = Len(buf),
         ~ stopped_in(k), ~ (off > size_of(k, ip))
  PROVE  \E done : /\ done[0] = grown(k, ip, (off + n) % OFF_MOD)
                   /\ \A j \in 1 .. n : done[j] = write_at(done[j - 1], ip, off + j - 1, buf[j])
                   /\ iwrite(k, ip, off, buf).k = done[n]
<1> DEFINE body(f) == [i \in 0 .. n |-> IF i = 0 THEN grown(k, ip, (off + n) % OFF_MOD) ELSE write_at(f[i - 1], ip, off + i - 1, buf[i])]
           Upto(f, i) == f[0] = grown(k, ip, (off + n) % OFF_MOD) /\ \A j \in 1 .. i : f[j] = write_at(f[j - 1], ip, off + j - 1, buf[j])
           good == {i \in 0 .. n : \E f : Upto(f, i)}
           done == CHOOSE f : f = body(f)
<1>1. 0 \in good
  <2> DEFINE g == [j \in {0} |-> grown(k, ip, (off + n) % OFF_MOD)]
  <2>1. Upto(g, 0)
    OBVIOUS
  <2> HIDE DEF g, Upto
  <2> QED
    BY <2>1
<1>2. ASSUME NEW i \in 1 .. n, i - 1 \in good PROVE i \in good
  <2>1. PICK f : Upto(f, i - 1)
    BY <1>2
  <2> DEFINE g == [j \in 0 .. i |-> IF j = i THEN write_at(f[i - 1], ip, off + i - 1, buf[i]) ELSE f[j]]
  <2>2. g[i] = write_at(f[i - 1], ip, off + i - 1, buf[i]) /\ \A j \in 0 .. i - 1 : g[j] = f[j]
    OBVIOUS
  <2> HIDE DEF g
  <2>3. Upto(g, i)
    <3>1. g[0] = grown(k, ip, (off + n) % OFF_MOD)
      BY <2>1, <2>2
    <3>2. ASSUME NEW j \in 1 .. i PROVE g[j] = write_at(g[j - 1], ip, off + j - 1, buf[j])
      <4>1. g[j - 1] = f[j - 1]
        BY <2>2
      <4>2. CASE j = i
        BY <2>2, <4>1, <4>2
      <4>3. CASE j # i
        <5>1. g[j] = f[j] /\ j \in 1 .. i - 1
          BY <2>2, <4>3
        <5> QED
          BY <2>1, <4>1, <5>1
      <4> QED
        BY <4>2, <4>3
    <3> QED
      BY <3>1, <3>2
  <2> HIDE DEF Upto
  <2> QED
    BY <2>3
<1>3. \E f : Upto(f, n)
  <2> HIDE DEF good
  <2>1. \A i \in 0 .. n : i \in good
    BY <1>1, <1>2, RoundByRound
  <2>2. n \in good
    BY <2>1
  <2> QED
    BY <2>2 DEF good
<1>4. PICK f : Upto(f, n)
  BY <1>3
<1> DEFINE g == [j \in 0 .. n |-> f[j]]
<1>5. g = body(g)
  BY <1>4
<1> HIDE DEF g
<1>6. done = body(done)
  <2> HIDE DEF body
  <2> QED
    BY <1>5
<1>7. iwrite(k, ip, off, buf).k = done[n]
  BY DEF iwrite
<1> HIDE DEF done
<1>8. done[0] = grown(k, ip, (off + n) % OFF_MOD)
  BY <1>6
<1>9. ASSUME NEW j \in 1 .. n PROVE done[j] = write_at(done[j - 1], ip, off + j - 1, buf[j])
  <2>1. j \in 0 .. n /\ j # 0
    OBVIOUS
  <2> QED
    BY <1>6, <2>1
<1> QED
  BY <1>7, <1>8, <1>9

-----------------------------------------------------------------------------
(***************************************************************************)
(* The places of blocks, and what changes them.                            *)
(***************************************************************************)

LEMMA PlaceSets ==
  /\ DataPlaces \subseteq Places /\ NDIRECT \in Places /\ NDIRECT \notin DataPlaces
  /\ Addrs \subseteq Places /\ \A i \in Addrs : i <= NDIRECT
  /\ \A i \in Places : i <= NDIRECT => i \in Addrs
  /\ \A i \in Places : ~ (i <= NDIRECT) => i - NDIRECT - 1 \in Cells /\ i \in DataPlaces
  /\ \A j \in Cells : /\ j + NDIRECT + 1 \in DataPlaces /\ ~ (j + NDIRECT + 1 <= NDIRECT)
                      /\ (j + NDIRECT + 1) - NDIRECT - 1 = j
  /\ \A i \in Places : i \in Nat
BY Sizes DEF DataPlaces, Places, Addrs, Cells, NINDIRECT

LEMMA AtAddr ==
  ASSUME NEW k, NEW no \in Inos, NEW i \in Addrs
  PROVE  At(k, no, i) = k.disk.dinode[no].addrs[i]
BY PlaceSets DEF At

LEMMA AtIndirect ==
  ASSUME NEW k, NEW no \in Inos, NEW j \in Cells
  PROVE  At(k, no, j + NDIRECT + 1) =
           IF At(k, no, NDIRECT) = 0 THEN 0 ELSE k.disk.blk[At(k, no, NDIRECT)][j].inode
<1>1. At(k, no, NDIRECT) = k.disk.dinode[no].addrs[NDIRECT]
  BY AtAddr, Sizes
<1>2. /\ ~ (j + NDIRECT + 1 <= NDIRECT) /\ (j + NDIRECT + 1) - NDIRECT - 1 = j
  BY PlaceSets
<1> DEFINE i == j + NDIRECT + 1
<1>3. ~ (i <= NDIRECT) /\ i - NDIRECT - 1 = j
  BY <1>2
<1> HIDE DEF i
<1>4. At(k, no, i) = IF At(k, no, NDIRECT) = 0 THEN 0 ELSE k.disk.blk[At(k, no, NDIRECT)][j].inode
  BY <1>1, <1>3 DEF At
<1> QED
  BY <1>4 DEF i

LEMMA PlaceKinds ==
  ASSUME NEW i \in Places
  PROVE  i \in Addrs \/ \E j \in Cells : i = j + NDIRECT + 1
BY Sizes DEF Places, Addrs, Cells, NINDIRECT

LEMMA AtBlock ==
  ASSUME NEW k, Sound(k), NEW no \in Inos, NEW i \in Places
  PROVE  /\ At(k, no, i) \in Blocks
         /\ At(k, no, i) # 0 => At(k, no, i) \in k.disk.bitmap
<1>1. k \in Kernel /\ (At(k, no, i) # 0 => At(k, no, i) \in k.disk.bitmap)
  BY DEF Sound, Own
<1> QED
  BY <1>1, Sizes, KernelParts

\* The blocks stay in their places.
SamePlaces(k, n) ==
  /\ n.disk.bitmap = k.disk.bitmap
  /\ \A no \in Inos, i \in Places : At(n, no, i) = At(k, no, i)

\* A free block b comes to an empty place.
NewPlace(k, n, no, i, b) ==
  /\ b # 0 /\ b \notin k.disk.bitmap
  /\ n.disk.bitmap = k.disk.bitmap \cup {b}
  /\ At(k, no, i) = 0 /\ At(n, no, i) = b
  /\ \A mo \in Inos, j \in Places : mo # no \/ j # i => At(n, mo, j) = At(k, mo, j)

\* All places of an inode are emptied, and the blocks freed.
Emptied(k, n, no) ==
  /\ n.disk.bitmap = k.disk.bitmap \ {At(k, no, i) : i \in Places}
  /\ \A i \in Places : At(n, no, i) = 0
  /\ \A mo \in Inos, i \in Places : mo # no => At(n, mo, i) = At(k, mo, i)

LEMMA SameOwn ==
  ASSUME NEW k, NEW n, Own(k), SamePlaces(k, n)
  PROVE  Own(n)
<1>1. \A mo \in Inos, j \in Places : At(n, mo, j) # 0 => At(n, mo, j) \in n.disk.bitmap
  BY DEF Own, SamePlaces
<1>2. \A mo, no \in Inos, i, j \in Places :
        At(n, mo, i) = At(n, no, j) /\ At(n, mo, i) # 0 => mo = no /\ i = j
  BY DEF Own, SamePlaces
<1>3. \A b \in n.disk.bitmap : \E no \in Inos, i \in Places : At(n, no, i) = b
  <2> TAKE b \in n.disk.bitmap
  <2>1. PICK no \in Inos, i \in Places : At(k, no, i) = b
    BY DEF Own, SamePlaces
  <2> QED
    BY <2>1 DEF SamePlaces
<1> QED
  BY <1>1, <1>2, <1>3 DEF Own

LEMMA NewOwn ==
  ASSUME NEW k, NEW n, Own(k), 0 \notin k.disk.bitmap,
         NEW no \in Inos, NEW i \in Places, NEW b, NewPlace(k, n, no, i, b)
  PROVE  Own(n)
<1>1. ASSUME NEW mo \in Inos, NEW j \in Places, At(n, mo, j) # 0
      PROVE  At(n, mo, j) \in n.disk.bitmap /\ (At(n, mo, j) = b => mo = no /\ j = i)
  BY <1>1 DEF Own, NewPlace
<1>2. ASSUME NEW mo \in Inos, NEW po \in Inos, NEW j \in Places, NEW h \in Places,
             At(n, mo, j) = At(n, po, h), At(n, mo, j) # 0
      PROVE  mo = po /\ j = h
  <2>1. CASE At(n, mo, j) = b
    <3>1. mo = no /\ j = i
      BY <1>1, <1>2, <2>1
    <3>2. po = no /\ h = i
      <4>1. At(n, po, h) = b /\ At(n, po, h) # 0
        BY <1>2, <2>1
      <4> QED
        BY <1>1, <4>1
    <3> QED
      BY <3>1, <3>2
  <2>2. CASE At(n, mo, j) # b
    <3>1. At(k, mo, j) = At(n, mo, j) /\ At(k, po, h) = At(n, po, h)
      BY <1>2, <2>2 DEF NewPlace
    <3> QED
      BY <1>2, <3>1 DEF Own
  <2> QED
    BY <2>1, <2>2
<1>3. ASSUME NEW c \in n.disk.bitmap
      PROVE  \E mo \in Inos, j \in Places : At(n, mo, j) = c
  <2>1. CASE c = b
    BY <2>1 DEF NewPlace
  <2>2. CASE c # b
    <3>1. c \in k.disk.bitmap
      BY <2>2 DEF NewPlace
    <3>2. PICK mo \in Inos, j \in Places : At(k, mo, j) = c
      BY <3>1 DEF Own
    <3>5. CASE mo # no \/ j # i
      BY <3>2, <3>5 DEF NewPlace
    <3>6. CASE mo = no /\ j = i
      BY <3>1, <3>2, <3>6 DEF NewPlace
    <3> QED
      BY <3>5, <3>6
  <2> QED
    BY <2>1, <2>2
<1> QED
  BY <1>1, <1>2, <1>3 DEF Own

LEMMA EmptiedOwn ==
  ASSUME NEW k, NEW n, Own(k), NEW no \in Inos, Emptied(k, n, no)
  PROVE  Own(n)
<1>1. ASSUME NEW mo \in Inos, NEW j \in Places, At(n, mo, j) # 0
      PROVE  mo # no /\ At(n, mo, j) = At(k, mo, j) /\ At(n, mo, j) \in n.disk.bitmap
  <2>1. mo # no /\ At(n, mo, j) = At(k, mo, j)
    BY <1>1 DEF Emptied
  <2>2. At(k, mo, j) \in k.disk.bitmap /\ \A i \in Places : At(k, no, i) # At(k, mo, j)
    BY <1>1, <2>1 DEF Own
  <2> QED
    BY <2>1, <2>2 DEF Emptied
<1>2. ASSUME NEW mo \in Inos, NEW po \in Inos, NEW j \in Places, NEW h \in Places,
             At(n, mo, j) = At(n, po, h), At(n, mo, j) # 0
      PROVE  mo = po /\ j = h
  <2>1. At(n, mo, j) = At(k, mo, j) /\ At(n, po, h) = At(k, po, h)
    BY <1>1, <1>2
  <2>2. At(k, mo, j) = At(k, po, h) /\ At(k, mo, j) # 0
    BY <1>2, <2>1
  <2> QED
    BY <2>2 DEF Own
<1>3. ASSUME NEW c \in n.disk.bitmap
      PROVE  \E mo \in Inos, j \in Places : At(n, mo, j) = c
  <2>1. c \in k.disk.bitmap /\ \A i \in Places : At(k, no, i) # c
    BY DEF Emptied
  <2>2. PICK mo \in Inos, j \in Places : At(k, mo, j) = c
    BY <2>1 DEF Own
  <2>3. mo # no
    BY <2>1, <2>2
  <2> QED
    BY <2>2, <2>3 DEF Emptied
<1> QED
  BY <1>1, <1>2, <1>3 DEF Own

\* What a call does to a file or a directory it has opened: no reference comes or
\* goes, no inode becomes another.
Calm(k, n) ==
  /\ n.files = k.files
  /\ \A i \in Slots : /\ n.inodes[i].no = k.inodes[i].no /\ n.inodes[i].ref = k.inodes[i].ref
                      /\ n.inodes[i].del = k.inodes[i].del /\ type_of(n, i) = type_of(k, i)
  /\ \A no \in Inos : n.disk.dinode[no].type = k.disk.dinode[no].type

LEMMA CalmTwice ==
  ASSUME NEW k, NEW m, NEW n, Calm(k, m), Calm(m, n)
  PROVE  Calm(k, n)
BY DEF Calm

LEMMA CalmSelf == \A k : Calm(k, k)
BY DEF Calm

\* iupdate, after the inode in memory has become d.
LEMMA UpdateIs ==
  ASSUME NEW k \in Kernel, NEW ip \in Slots, NEW d \in Dinode, NEW n,
         n = iupdate(with_dinode(k, ip, d), ip)
  PROVE  /\ n \in Kernel /\ n.fault = k.fault /\ n.files = k.files
         /\ n.inodes = [k.inodes EXCEPT ![ip] = [@ EXCEPT !.dinode = d]]
         /\ k.inodes[ip].no \in Inos
         /\ n.disk.dinode = [k.disk.dinode EXCEPT ![k.inodes[ip].no] = d]
         /\ n.disk.bitmap = k.disk.bitmap /\ n.disk.blk = k.disk.blk
<1> DEFINE m == with_dinode(k, ip, d)
<1>1. ip \in Ips /\ k.inodes[ip] \in Inode
  BY Sizes, KernelParts
<1>2. /\ m \in Kernel /\ m.fault = k.fault /\ m.disk = k.disk /\ m.files = k.files
      /\ m.inodes = [k.inodes EXCEPT ![ip] = [@ EXCEPT !.dinode = d]]
  BY <1>1, SetInodeDinode
<1> HIDE DEF m
<1>3. k.inodes \in [Ips -> Inode]
  BY KernelParts
<1>4. m.inodes[ip].dinode = d /\ m.inodes[ip].no = k.inodes[ip].no /\ k.inodes[ip].no \in Inos
  BY <1>1, <1>2, <1>3 DEF Inode
<1>5. n = diwrite(m, d, k.inodes[ip].no)
  BY <1>4 DEF iupdate, m
<1> QED
  BY <1>2, <1>4, <1>5, SetDinode

\* The inode in slot ip is d in n, in memory and on the disk.
Updated(k, n, ip, d) ==
  /\ n.files = k.files
  /\ n.inodes = [k.inodes EXCEPT ![ip] = [@ EXCEPT !.dinode = d]]
  /\ n.disk.dinode = [k.disk.dinode EXCEPT ![k.inodes[ip].no] = d]

LEMMA UpdateCalm ==
  ASSUME NEW k \in Kernel, NEW ip \in Slots, NEW d \in Dinode, NEW n, Updated(k, n, ip, d),
         active(k, ip), Sync(k), Distinct(k)
  PROVE  /\ Sync(n) /\ Distinct(n)
         /\ d.type = type_of(k, ip) => Calm(k, n)
<1>0. /\ n.files = k.files
      /\ n.inodes = [k.inodes EXCEPT ![ip] = [@ EXCEPT !.dinode = d]]
      /\ n.disk.dinode = [k.disk.dinode EXCEPT ![k.inodes[ip].no] = d]
  BY DEF Updated
<1>1. ip \in Ips /\ k.inodes \in [Ips -> Inode] /\ k.disk.dinode \in [Inos -> Dinode]
  BY Sizes, KernelParts
<1>2. /\ n.inodes[ip].dinode = d /\ n.inodes[ip].no = k.inodes[ip].no
      /\ n.inodes[ip].ref = k.inodes[ip].ref /\ n.inodes[ip].del = k.inodes[ip].del
      /\ k.inodes[ip].no \in Inos
  BY <1>0, <1>1 DEF Inode
<1>3. \A i \in Slots : i # ip => n.inodes[i] = k.inodes[i]
  BY <1>0, <1>1, Sizes
<1>4. \A i \in Slots : k.inodes[i].no \in Inos
  BY <1>1, Sizes DEF Inode
<1>5. Sync(n)
  <2> SUFFICES ASSUME NEW i \in Slots, active(n, i)
               PROVE  n.inodes[i].dinode = n.disk.dinode[n.inodes[i].no]
    BY DEF Sync
  <2>1. CASE i = ip
    BY <1>0, <1>1, <1>2, <2>1
  <2>2. CASE i # ip
    <3>1. active(k, i) /\ n.inodes[i] = k.inodes[i]
      BY <1>3, <2>2 DEF active
    <3>2. k.inodes[i].no # k.inodes[ip].no
      BY <2>2, <3>1 DEF Distinct
    <3>3. n.disk.dinode[k.inodes[i].no] = k.disk.dinode[k.inodes[i].no]
      BY <1>0, <1>1, <1>2, <1>4, <3>2
    <3> QED
      BY <3>1, <3>3 DEF Sync
  <2> QED
    BY <2>1, <2>2
<1>6. Distinct(n)
  <2>1. \A i \in Slots : n.inodes[i].no = k.inodes[i].no /\ n.inodes[i].ref = k.inodes[i].ref
    BY <1>2, <1>3
  <2> QED
    BY <2>1 DEF Distinct, active
<1>7. ASSUME d.type = type_of(k, ip) PROVE Calm(k, n)
  <2>1. \A i \in Slots : type_of(n, i) = type_of(k, i)
    BY <1>2, <1>3, <1>7 DEF type_of
  <2>2. k.disk.dinode[k.inodes[ip].no].type = d.type
    BY <1>7 DEF Sync, type_of
  <2>3. \A no \in Inos : n.disk.dinode[no].type = k.disk.dinode[no].type
    BY <1>0, <1>1, <1>2, <2>2
  <2> QED
    BY <1>0, <1>2, <1>3, <2>1, <2>3 DEF Calm
<1> QED
  BY <1>5, <1>6, <1>7

\* The data of directories are entries, in n as in k, if all but the block b of
\* another place stays.
LEMMA SameDirCells ==
  ASSUME NEW k, NEW n, DirCells(k), SamePlaces(k, n),
         \A no \in Inos : n.disk.dinode[no].type = k.disk.dinode[no].type,
         \A no \in Inos, i \in DataPlaces :
           k.disk.dinode[no].type = "DIR" /\ At(k, no, i) # 0 =>
             \A j \in Cells : n.disk.blk[At(k, no, i)][j].inode \in Inos
  PROVE  DirCells(n)
BY PlaceSets DEF DirCells, SamePlaces

LEMMA SameDisk ==
  ASSUME NEW k, NEW n, Own(k), DirCells(k), FreeClean(k), n.disk = k.disk
  PROVE  /\ SamePlaces(k, n) /\ Own(n) /\ DirCells(n) /\ FreeClean(n)
         /\ \A no \in Inos, i \in Places : At(n, no, i) = At(k, no, i)
<1>1. \A no \in Inos, i \in Places : At(n, no, i) = At(k, no, i)
  BY DEF At
<1>2. SamePlaces(k, n)
  BY <1>1 DEF SamePlaces
<1>3. DirCells(n)
  BY <1>1, PlaceSets DEF DirCells
<1> QED
  BY <1>1, <1>2, <1>3, SameOwn DEF FreeClean

LEMMA Position ==
  ASSUME NEW pos \in Nat
  PROVE  pos \div BLK_SIZE \in Nat /\ pos % BLK_SIZE \in Cells
BY Sizes DEF Cells

LEMMA BlockPlace ==
  ASSUME NEW m \in Nat, m < NDIRECT + NINDIRECT
  PROVE  block_place(m) \in DataPlaces /\ block_place(m) \in Places
BY Sizes DEF block_place, DataPlaces, Places, NINDIRECT

\* Every file that has the size it had has the blocks it had.
Keeps(k, n) ==
  \A no \in Inos : /\ n.disk.dinode[no].size = k.disk.dinode[no].size
                  /\ \A i \in Places : At(k, no, i) # 0 => At(n, no, i) # 0

LEMMA KeepsTwice ==
  /\ \A k : Keeps(k, k)
  /\ \A k, m, n : Keeps(k, m) /\ Keeps(m, n) => Keeps(k, n)
BY DEF Keeps

LEMMA FilledKept ==
  ASSUME NEW k, NEW n, NEW no \in Inos, NEW m \in Nat, Filled(k, no, m),
         \A i \in Places : At(k, no, i) # 0 => At(n, no, i) # 0
  PROVE  Filled(n, no, m)
BY BlockPlace DEF Filled

LEMMA SolidKept ==
  ASSUME NEW k, NEW n, Solid(k),
         \A no \in Inos :
           \/ n.disk.dinode[no].size = 0
           \/ /\ n.disk.dinode[no].size = k.disk.dinode[no].size
              /\ \A i \in Places : At(k, no, i) # 0 => At(n, no, i) # 0
  PROVE  Solid(n)
<1> SUFFICES ASSUME NEW no \in Inos, NEW pos \in Nat, pos < n.disk.dinode[no].size
             PROVE  Filled(n, no, pos \div BLK_SIZE)
  BY DEF Solid
<1>1. n.disk.dinode[no].size # 0
  OBVIOUS
<1>2. Filled(k, no, pos \div BLK_SIZE)
  BY <1>1 DEF Solid
<1> QED
  BY <1>1, <1>2, FilledKept, Position

LEMMA SolidSame ==
  ASSUME NEW k, NEW n, Solid(k), n.disk = k.disk
  PROVE  Solid(n)
BY DEF Solid, Filled, At

\* Two places of inodes with the same block are one place.
LEMMA OnePlace ==
  ASSUME NEW k, Sound(k), NEW no \in Inos, NEW mo \in Inos, NEW i \in Places, NEW j \in Places,
         At(k, no, i) = At(k, mo, j), At(k, no, i) # 0
  PROVE  no = mo /\ i = j
BY DEF Sound, Own

\* A cell of a data block is written.
LEMMA CellWritten ==
  ASSUME NEW k, Sound(k), NEW no \in Inos, NEW i \in DataPlaces, NEW b, b = At(k, no, i), b # 0,
         NEW j \in Cells, NEW v \in Cell,
         k.disk.dinode[no].type = "DIR" => v.inode \in Inos,
         NEW n, n = put_cell(k, b, j, v)
  PROVE  Sound(n) /\ SamePlaces(k, n) /\ Calm(k, n) /\ n.disk.dinode = k.disk.dinode /\ n.inodes = k.inodes
<1>1. k \in Kernel /\ b \in Blocks /\ i \in Places /\ i # NDIRECT
  BY AtBlock, PlaceSets DEF Sound
<1>2. /\ n \in Kernel /\ n.fault = k.fault /\ n.inodes = k.inodes /\ n.files = k.files
      /\ n.disk.bitmap = k.disk.bitmap /\ n.disk.dinode = k.disk.dinode
      /\ n.disk.blk = [k.disk.blk EXCEPT ![b] = [@ EXCEPT ![j] = v]]
  BY <1>1, SetCell
<1>3. k.disk.blk \in [Blocks -> Block]
  BY <1>1, KernelParts
<1>4. /\ \A c \in Blocks : c # b => n.disk.blk[c] = k.disk.blk[c]
      /\ \A h \in Cells : h # j => n.disk.blk[b][h] = k.disk.blk[b][h]
      /\ n.disk.blk[b][j] = v
  BY <1>1, <1>2, <1>3 DEF Block
<1>5. ASSUME NEW mo \in Inos, NEW h \in Places PROVE At(n, mo, h) = At(k, mo, h)
  <2>1. CASE h \in Addrs
    BY <1>2, <2>1, AtAddr
  <2>2. CASE \E c \in Cells : h = c + NDIRECT + 1
    <3>1. PICK c \in Cells : h = c + NDIRECT + 1
      BY <2>2
    <3>2. At(n, mo, NDIRECT) = At(k, mo, NDIRECT)
      BY <1>2, AtAddr, Sizes
    <3>3. At(k, mo, NDIRECT) # b
      BY <1>1, OnePlace, PlaceSets
    <3>4. At(k, mo, NDIRECT) \in Blocks
      BY AtBlock, PlaceSets
    <3>5. n.disk.blk[At(k, mo, NDIRECT)] = k.disk.blk[At(k, mo, NDIRECT)]
      BY <1>4, <3>3, <3>4
    <3> QED
      BY <3>1, <3>2, <3>5, AtIndirect
  <2> QED
    BY <2>1, <2>2, PlaceKinds
<1>6. SamePlaces(k, n)
  BY <1>2, <1>5 DEF SamePlaces
<1>7. Own(n)
  BY <1>6, SameOwn DEF Sound
<1>8. DirCells(n)
  <2>1. ASSUME NEW mo \in Inos, NEW h \in DataPlaces,
               k.disk.dinode[mo].type = "DIR", At(k, mo, h) # 0, NEW c \in Cells
        PROVE  n.disk.blk[At(k, mo, h)][c].inode \in Inos
    <3>1. h \in Places /\ At(k, mo, h) \in Blocks
      BY AtBlock, PlaceSets
    <3>2. k.disk.blk[At(k, mo, h)][c].inode \in Inos
      BY <2>1 DEF Sound, DirCells
    <3>3. CASE At(k, mo, h) # b
      BY <1>4, <3>1, <3>2, <3>3
    <3>4. CASE At(k, mo, h) = b
      <4>1. mo = no
        BY <1>1, <2>1, <3>1, <3>4, OnePlace
      <4>2. v.inode \in Inos
        BY <2>1, <4>1
      <4> QED
        BY <1>4, <3>2, <3>4, <4>2
    <3> QED
      BY <3>3, <3>4
  <2> QED
    BY <1>2, <1>6, <2>1, SameDirCells DEF Sound
<1>9. FreeClean(n) /\ Sync(n) /\ Distinct(n)
  BY <1>2 DEF Sound, FreeClean, Sync, Distinct, active
<1>10. Calm(k, n)
  BY <1>2 DEF Calm, type_of
<1> QED
  BY <1>2, <1>6, <1>7, <1>8, <1>9, <1>10 DEF Sound

\* The size of an inode, or its device, is written.
LEMMA MetaWritten ==
  ASSUME NEW k, Sound(k), NEW ip \in Slots, active(k, ip), NEW d \in Dinode,
         d.type = type_of(k, ip), d.addrs = k.inodes[ip].dinode.addrs,
         NEW n, n = iupdate(with_dinode(k, ip, d), ip)
  PROVE  /\ Sound(n) /\ SamePlaces(k, n) /\ Calm(k, n)
         /\ n.disk.dinode = [k.disk.dinode EXCEPT ![k.inodes[ip].no] = d]
<1>1. k \in Kernel
  BY DEF Sound
<1>2. /\ n \in Kernel /\ n.fault = k.fault /\ n.files = k.files
      /\ n.inodes = [k.inodes EXCEPT ![ip] = [@ EXCEPT !.dinode = d]]
      /\ k.inodes[ip].no \in Inos
      /\ n.disk.dinode = [k.disk.dinode EXCEPT ![k.inodes[ip].no] = d]
      /\ n.disk.bitmap = k.disk.bitmap /\ n.disk.blk = k.disk.blk
  BY <1>1, UpdateIs
<1>3. Sync(n) /\ Distinct(n) /\ Calm(k, n)
  <2>1. Sync(k) /\ Distinct(k)
    BY DEF Sound
  <2>2. Updated(k, n, ip, d)
    BY <1>2 DEF Updated
  <2> QED
    BY <1>1, <2>1, <2>2, UpdateCalm
<1>4. k.disk.dinode[k.inodes[ip].no].addrs = d.addrs
  BY DEF Sound, Sync
<1>5. \A no \in Inos : n.disk.dinode[no].addrs = k.disk.dinode[no].addrs
  BY <1>1, <1>2, <1>4, KernelParts
<1>6. \A no \in Inos, i \in Places : At(n, no, i) = At(k, no, i)
  BY <1>2, <1>5 DEF At
<1>7. SamePlaces(k, n)
  BY <1>2, <1>6 DEF SamePlaces
<1>8. Own(n)
  BY <1>7, SameOwn DEF Sound
<1>9. \A no \in Inos : n.disk.dinode[no].type = k.disk.dinode[no].type
  BY <1>3 DEF Calm
<1>10. DirCells(n)
  BY <1>2, <1>6, <1>9, PlaceSets DEF Sound, DirCells
<1>11. FreeClean(n)
  BY <1>5, <1>9 DEF Sound, FreeClean
<1> QED
  BY <1>2, <1>3, <1>7, <1>8, <1>10, <1>11 DEF Sound

\* The lowest free block, inode, slot, file or descriptor.
LEMMA MinIs ==
  ASSUME NEW S \in SUBSET Nat, S # {}
  PROVE  Min(S) \in S /\ \A y \in S : Min(S) <= y
BY LeastNatural DEF Min

LEMMA FirstIs ==
  ASSUME NEW S \in SUBSET Nat, 0 \notin S
  PROVE  /\ first(S) = 0 <=> S = {}
         /\ S # {} => first(S) \in S /\ \A y \in S : first(S) <= y
BY MinIs DEF first

zeroes == [i \in Cells |-> cell(0)]

LEMMA CellType ==
  /\ \A v \in Nat : cell(v) \in Cell /\ cell(v).inode = v
  /\ \A v \in Nat, s \in Names : dirent(v, s) \in Cell /\ dirent(v, s).inode = v
<1>1. "" \in Names
  BY DEF Names
<1>2. ASSUME NEW v \in Nat, NEW s \in Names PROVE dirent(v, s) \in Cell /\ dirent(v, s).inode = v
  BY DEF dirent, Cell
<1> QED
  BY <1>1, <1>2 DEF cell

LEMMA ZeroesType == zeroes \in Block
<1>1. cell(0) \in Cell
  BY CellType
<1> QED
  BY <1>1 DEF zeroes, Block

LEMMA BallocIs ==
  ASSUME NEW k \in Kernel, k.fault = "no", NEW r, r = balloc(k), ~ Stopped(r.k)
  PROVE  /\ r.b \in Blocks /\ r.b # 0 /\ r.b \notin k.disk.bitmap
         /\ r.k \in Kernel /\ r.k.fault = "no" /\ r.k.inodes = k.inodes /\ r.k.files = k.files
         /\ r.k.disk.dinode = k.disk.dinode
         /\ r.k.disk.bitmap = k.disk.bitmap \cup {r.b}
         /\ r.k.disk.blk = [k.disk.blk EXCEPT ![r.b] = zeroes]
<1> DEFINE b == first((Blocks \ {0}) \ k.disk.bitmap)
<1>1. b # 0
  <2> SUFFICES ASSUME b = 0 PROVE FALSE
    OBVIOUS
  <2>1. r.k = abort(k, "full")
    BY DEF balloc
  <2> QED
    BY <2>1, AbortStops
<1>2. b \in Blocks /\ b \notin k.disk.bitmap
  <2> DEFINE S == (Blocks \ {0}) \ k.disk.bitmap
  <2>1. S \in SUBSET Nat /\ 0 \notin S
    BY Sizes
  <2> HIDE DEF S
  <2>2. b = first(S)
    BY DEF S
  <2>3. b \in S
    BY <1>1, <2>1, <2>2, FirstIs
  <2> QED
    BY <2>3 DEF S
<1>3. r = [k |-> [bzero(k, b) EXCEPT !.disk.bitmap = @ \cup {b}], b |-> b]
  BY <1>1 DEF balloc
<1> HIDE DEF b
<1>4. zeroes \in Block
  BY ZeroesType
<1>5. bzero(k, b) = [k EXCEPT !.disk.blk[b] = zeroes]
  BY DEF bzero, zeroes, Cells
<1>6. /\ bzero(k, b) \in Kernel
      /\ bzero(k, b).fault = k.fault /\ bzero(k, b).inodes = k.inodes /\ bzero(k, b).files = k.files
      /\ bzero(k, b).disk.dinode = k.disk.dinode /\ bzero(k, b).disk.bitmap = k.disk.bitmap
      /\ bzero(k, b).disk.blk = [k.disk.blk EXCEPT ![b] = zeroes]
  <2>1. k.disk = [dinode |-> k.disk.dinode, bitmap |-> k.disk.bitmap, blk |-> k.disk.blk]
    BY <1>1 DEF Disk, Kernel
  <2>2. [k.disk.blk EXCEPT ![b] = zeroes] \in [Blocks -> Block]
    BY <1>1, <1>4, KernelParts
  <2> DEFINE blk == [k.disk.blk EXCEPT ![b] = zeroes]
             d == [dinode |-> k.disk.dinode, bitmap |-> k.disk.bitmap, blk |-> blk]
  <2>3. d \in Disk
    BY <1>1, <2>2, KernelParts DEF Disk
  <2>4. bzero(k, b) = [k EXCEPT !.disk = d]
    BY <1>5, <2>1
  <2> HIDE DEF blk
  <2>5. d.dinode = k.disk.dinode /\ d.bitmap = k.disk.bitmap /\ d.blk = blk
    OBVIOUS
  <2> HIDE DEF d
  <2>6. /\ bzero(k, b) \in Kernel /\ bzero(k, b).disk = d
        /\ bzero(k, b).fault = k.fault /\ bzero(k, b).inodes = k.inodes /\ bzero(k, b).files = k.files
    BY <1>1, <2>3, <2>4 DEF Kernel
  <2> QED
    BY <2>5, <2>6 DEF blk
<1> DEFINE z == bzero(k, b)
<1>7. z \in Kernel /\ r.k = [z EXCEPT !.disk.bitmap = @ \cup {b}] /\ r.b = b
  BY <1>3, <1>6
<1> HIDE DEF z
<1>8. /\ r.k \in Kernel /\ r.k.fault = z.fault /\ r.k.inodes = z.inodes /\ r.k.files = z.files
      /\ r.k.disk.dinode = z.disk.dinode /\ r.k.disk.blk = z.disk.blk
      /\ r.k.disk.bitmap = z.disk.bitmap \cup {b}
  BY <1>1, <1>2, <1>7 DEF Kernel, Disk
<1> QED
  BY <1>1, <1>2, <1>6, <1>7, <1>8 DEF z

LEMMA ZeroesAre == \A j \in Cells : zeroes[j].inode = 0
BY DEF zeroes, cell, dirent

\* What balloc does to the blocks that are in places: nothing.
LEMMA FreshBlock ==
  ASSUME NEW k, Sound(k), NEW b \in Blocks, b # 0, b \notin k.disk.bitmap,
         NEW blk, blk = [k.disk.blk EXCEPT ![b] = zeroes],
         NEW no \in Inos, NEW i \in Places
  PROVE  /\ At(k, no, i) # b
         /\ At(k, no, i) \in Blocks /\ blk[At(k, no, i)] = k.disk.blk[At(k, no, i)]
<1>1. At(k, no, i) # b /\ At(k, no, i) \in Blocks /\ k \in Kernel
  BY AtBlock DEF Sound
<1> QED
  BY <1>1, KernelParts

\* An address of an open inode gets a block.
LEMMA AddrAllocated ==
  ASSUME NEW k, Sound(k), NEW ip \in Slots, active(k, ip), type_of(k, ip) # "NONE",
         NEW i \in Addrs, NEW no, no = k.inodes[ip].no, At(k, no, i) = 0,
         NEW r, r = set_addr(balloc(k), ip, i), ~ Stopped(r.k)
  PROVE  /\ Sound(r.k) /\ Calm(k, r.k) /\ no \in Inos /\ NewPlace(k, r.k, no, i, r.b)
         /\ \A mo \in Inos : r.k.disk.dinode[mo].size = k.disk.dinode[mo].size
<1> DEFINE a == balloc(k)
           d == [k.inodes[ip].dinode EXCEPT !.addrs = [@ EXCEPT ![i] = a.b]]
<1>1. k \in Kernel /\ k.fault = "no"
  BY DEF Sound
<1>2. ~ Stopped(a.k)
  <2> SUFFICES ASSUME Stopped(a.k) PROVE FALSE
    OBVIOUS
  <2>1. \A x : Stopped([a.k EXCEPT !.inodes = x])
    BY SetStops
  <2> QED
    BY <2>1, InodeStops DEF set_addr
<1>3. /\ a.b \in Blocks /\ a.b # 0 /\ a.b \notin k.disk.bitmap
      /\ a.k \in Kernel /\ a.k.fault = "no" /\ a.k.inodes = k.inodes /\ a.k.files = k.files
      /\ a.k.disk.dinode = k.disk.dinode
      /\ a.k.disk.bitmap = k.disk.bitmap \cup {a.b}
      /\ a.k.disk.blk = [k.disk.blk EXCEPT ![a.b] = zeroes]
  BY <1>1, <1>2, BallocIs
<1>4. r.b = a.b /\ r.k = iupdate([a.k EXCEPT !.inodes[ip].dinode.addrs[i] = a.b], ip)
  BY DEF set_addr
<1> HIDE DEF a
<1>5. k.inodes \in [Ips -> Inode] /\ ip \in Ips /\ k.inodes[ip].dinode \in Dinode /\ no \in Inos
  BY <1>1, Sizes, KernelParts DEF Inode
<1>6. [a.k EXCEPT !.inodes[ip].dinode.addrs[i] = a.b] = with_dinode(a.k, ip, d)
  <2>1. [a.k.inodes[ip].dinode EXCEPT !.addrs[i] = a.b] = d
    BY <1>3
  <2> HIDE DEF d
  <2> QED
    BY <2>1 DEF with_dinode
<1>7. d \in Dinode
  BY <1>3, <1>5, DinodeTypes
<1>8. /\ d.type = type_of(k, ip) /\ d.addrs = [k.inodes[ip].dinode.addrs EXCEPT ![i] = a.b]
      /\ d.size = k.inodes[ip].dinode.size
  BY <1>5 DEF Dinode, type_of
<1> HIDE DEF d
<1>9. r.k = iupdate(with_dinode(a.k, ip, d), ip)
  BY <1>4, <1>6
<1> DEFINE n == r.k
<1>10. /\ n \in Kernel /\ n.fault = "no" /\ n.files = k.files
       /\ n.inodes = [k.inodes EXCEPT ![ip] = [@ EXCEPT !.dinode = d]]
       /\ n.disk.dinode = [k.disk.dinode EXCEPT ![k.inodes[ip].no] = d]
       /\ n.disk.bitmap = k.disk.bitmap \cup {a.b}
       /\ n.disk.blk = [k.disk.blk EXCEPT ![a.b] = zeroes]
  BY <1>3, <1>7, <1>9, UpdateIs
<1> HIDE DEF n
<1>11. Sync(n) /\ Distinct(n) /\ Calm(k, n)
  <2>1. Sync(k) /\ Distinct(k)
    BY DEF Sound
  <2>2. Updated(k, n, ip, d)
    BY <1>10 DEF Updated
  <2> QED
    BY <1>1, <1>7, <1>8, <2>1, <2>2, UpdateCalm
<1>12. /\ \A mo \in Inos : mo # no => n.disk.dinode[mo] = k.disk.dinode[mo]
       /\ n.disk.dinode[no] = d
  BY <1>1, <1>5, <1>10, KernelParts
<1>13. k.disk.dinode[no] = k.inodes[ip].dinode
  BY DEF Sound, Sync
<1>14. k.inodes[ip].dinode.addrs \in [Addrs -> Blocks]
  BY <1>5 DEF Dinode
<1>15. ASSUME NEW mo \in Inos, NEW j \in Addrs
       PROVE  At(n, mo, j) = IF mo = no /\ j = i THEN a.b ELSE At(k, mo, j)
  <2>1. At(n, mo, j) = n.disk.dinode[mo].addrs[j] /\ At(k, mo, j) = k.disk.dinode[mo].addrs[j]
    BY AtAddr
  <2>2. CASE mo = no
    BY <1>8, <1>12, <1>13, <1>14, <2>1, <2>2
  <2>3. CASE mo # no
    BY <1>12, <2>1, <2>3
  <2> QED
    BY <2>2, <2>3
<1>16. ASSUME NEW mo \in Inos, NEW c \in Cells
       PROVE  At(n, mo, c + NDIRECT + 1) = At(k, mo, c + NDIRECT + 1)
  <2>1. CASE mo = no /\ i = NDIRECT
    <3>1. At(n, mo, NDIRECT) = a.b /\ At(k, mo, NDIRECT) = 0
      BY <1>15, <2>1
    <3>2. n.disk.blk[a.b] = zeroes
      BY <1>1, <1>3, <1>10, KernelParts
    <3> QED
      BY <1>3, <3>1, <3>2, AtIndirect, ZeroesAre
  <2>2. CASE ~ (mo = no /\ i = NDIRECT)
    <3>1. At(n, mo, NDIRECT) = At(k, mo, NDIRECT)
      BY <1>15, <2>2, Sizes
    <3>2. n.disk.blk[At(k, mo, NDIRECT)] = k.disk.blk[At(k, mo, NDIRECT)]
      BY <1>3, <1>10, FreshBlock, PlaceSets
    <3> QED
      BY <3>1, <3>2, AtIndirect
  <2> QED
    BY <2>1, <2>2
<1>17. ASSUME NEW mo \in Inos, NEW j \in Places, mo # no \/ j # i
       PROVE  At(n, mo, j) = At(k, mo, j)
  <2>1. CASE j \in Addrs
    BY <1>15, <1>17, <2>1
  <2>2. CASE \E c \in Cells : j = c + NDIRECT + 1
    BY <1>16, <2>2
  <2> QED
    BY <2>1, <2>2, PlaceKinds
<1>18. NewPlace(k, n, no, i, a.b)
  BY <1>3, <1>5, <1>10, <1>15, <1>17, PlaceSets DEF NewPlace
<1>19. i \in Places /\ 0 \notin k.disk.bitmap
  BY <1>1, PlaceSets, KernelParts
<1>20. Own(n)
  BY <1>5, <1>18, <1>19, NewOwn DEF Sound
<1>21. \A mo \in Inos : n.disk.dinode[mo].type = k.disk.dinode[mo].type
  BY <1>11 DEF Calm
<1>22. DirCells(n)
  <2> SUFFICES ASSUME NEW mo \in Inos, NEW j \in DataPlaces,
                      n.disk.dinode[mo].type = "DIR", At(n, mo, j) # 0, NEW c \in Cells
               PROVE  n.disk.blk[At(n, mo, j)][c].inode \in Inos
    BY DEF DirCells
  <2>0. j \in Places
    BY PlaceSets
  <2>1. CASE mo = no /\ j = i
    <3>1. n.disk.blk[At(n, mo, j)] = zeroes
      BY <1>1, <1>3, <1>10, <1>15, <2>1, KernelParts
    <3> QED
      BY <3>1, ZeroesAre, Sizes
  <2>2. CASE mo # no \/ j # i
    <3>1. At(n, mo, j) = At(k, mo, j)
      BY <1>17, <2>0, <2>2
    <3>2. n.disk.blk[At(k, mo, j)] = k.disk.blk[At(k, mo, j)]
      BY <1>3, <1>10, <2>0, FreshBlock
    <3>3. k.disk.blk[At(k, mo, j)][c].inode \in Inos
      BY <1>21, <3>1 DEF Sound, DirCells
    <3> QED
      BY <3>1, <3>2, <3>3
  <2> QED
    BY <2>1, <2>2
<1>23. FreeClean(n)
  <2> SUFFICES ASSUME NEW mo \in Inos, n.disk.dinode[mo].type = "NONE"
               PROVE  n.disk.dinode[mo].addrs = zero_dinode.addrs
    BY DEF FreeClean
  <2>1. mo # no
    BY <1>8, <1>12
  <2> QED
    BY <1>12, <2>1 DEF Sound, FreeClean
<1>24. \A mo \in Inos : n.disk.dinode[mo].size = k.disk.dinode[mo].size
  BY <1>8, <1>12, <1>13
<1> QED
  BY <1>4, <1>5, <1>10, <1>11, <1>18, <1>20, <1>22, <1>23, <1>24 DEF Sound, n

\* A cell of an indirect block gets a block.
LEMMA CellAllocated ==
  ASSUME NEW k, Sound(k), NEW no \in Inos, k.disk.dinode[no].type # "NONE",
         NEW j \in Cells, At(k, no, NDIRECT) # 0, At(k, no, j + NDIRECT + 1) = 0,
         NEW ind, ind.b = At(k, no, NDIRECT), ind.k = k,
         NEW r, r = set_indirect(balloc(k), ind, j), ~ Stopped(r.k)
  PROVE  /\ Sound(r.k) /\ Calm(k, r.k) /\ NewPlace(k, r.k, no, j + NDIRECT + 1, r.b)
         /\ \A mo \in Inos : r.k.disk.dinode[mo].size = k.disk.dinode[mo].size
<1> DEFINE a == balloc(k)
<1>1. k \in Kernel /\ k.fault = "no"
  BY DEF Sound
<1>2. ~ Stopped(a.k)
  <2> SUFFICES ASSUME Stopped(a.k) PROVE FALSE
    OBVIOUS
  <2>1. \A x : Stopped([a.k EXCEPT !.disk = x])
    BY SetStops
  <2> QED
    BY <2>1 DEF set_indirect
<1>3. /\ a.b \in Blocks /\ a.b # 0 /\ a.b \notin k.disk.bitmap
      /\ a.k \in Kernel /\ a.k.fault = "no" /\ a.k.inodes = k.inodes /\ a.k.files = k.files
      /\ a.k.disk.dinode = k.disk.dinode
      /\ a.k.disk.bitmap = k.disk.bitmap \cup {a.b}
      /\ a.k.disk.blk = [k.disk.blk EXCEPT ![a.b] = zeroes]
  BY <1>1, <1>2, BallocIs
<1> DEFINE h == ind.b
<1>4. r.b = a.b /\ r.k = put_cell(a.k, h, j, cell(a.b))
  BY DEF set_indirect, put_cell
<1> HIDE DEF a
<1>5. h \in Blocks /\ h # a.b /\ a.b \in Nat /\ cell(a.b) \in Cell
  <2>1. h = At(k, no, NDIRECT) /\ NDIRECT \in Places /\ h # 0
    BY PlaceSets
  <2>2. h \in Blocks /\ h \in k.disk.bitmap
    BY <2>1, AtBlock
  <2> QED
    BY <1>3, <2>2, Sizes, CellType
<1> HIDE DEF h
<1> DEFINE n == r.k
<1>6. /\ n \in Kernel /\ n.fault = "no" /\ n.inodes = k.inodes /\ n.files = k.files
      /\ n.disk.bitmap = k.disk.bitmap \cup {a.b} /\ n.disk.dinode = k.disk.dinode
      /\ n.disk.blk = [a.k.disk.blk EXCEPT ![h] = [@ EXCEPT ![j] = cell(a.b)]]
  <2> DEFINE v == cell(a.b)
             m == a.k
  <2>1. n = put_cell(m, h, j, v) /\ m \in Kernel /\ v \in Cell /\ h \in Blocks
    BY <1>3, <1>4, <1>5
  <2> HIDE DEF n, v, m
  <2>2. /\ n \in Kernel /\ n.fault = m.fault /\ n.inodes = m.inodes /\ n.files = m.files
        /\ n.disk.bitmap = m.disk.bitmap /\ n.disk.dinode = m.disk.dinode
        /\ n.disk.blk = [m.disk.blk EXCEPT ![h] = [@ EXCEPT ![j] = v]]
    BY <2>1, SetCell
  <2> QED
    BY <1>3, <2>2 DEF v, m
<1> HIDE DEF n
<1>7. /\ \A c \in Blocks : c # h /\ c # a.b => n.disk.blk[c] = k.disk.blk[c]
      /\ n.disk.blk[a.b] = zeroes
      /\ n.disk.blk[h] = [k.disk.blk[h] EXCEPT ![j] = cell(a.b)]
  BY <1>1, <1>3, <1>5, <1>6, KernelParts
<1>8. /\ n.disk.blk[h][j].inode = a.b
      /\ \A c \in Cells : c # j => n.disk.blk[h][c] = k.disk.blk[h][c]
  <2>1. k.disk.blk[h] \in Block
    BY <1>1, <1>5, KernelParts
  <2> QED
    BY <1>5, <1>7, <2>1, CellType DEF Block
<1>9. \A mo \in Inos, i \in Addrs : At(n, mo, i) = At(k, mo, i)
  BY <1>6, AtAddr
<1>10. NDIRECT \in Addrs /\ NDIRECT \in Places /\ h = At(k, no, NDIRECT) /\ h # 0
  BY Sizes, PlaceSets DEF h
<1>11. ASSUME NEW mo \in Inos, NEW c \in Cells
       PROVE  At(n, mo, c + NDIRECT + 1) = IF mo = no /\ c = j THEN a.b ELSE At(k, mo, c + NDIRECT + 1)
  <2>1. At(n, mo, NDIRECT) = At(k, mo, NDIRECT)
    BY <1>9, <1>10
  <2>2. CASE mo = no
    BY <1>8, <1>10, <2>1, <2>2, AtIndirect
  <2>3. CASE mo # no
    <3>1. At(k, mo, NDIRECT) # h
      BY <1>10, <2>3, OnePlace
    <3>2. At(k, mo, NDIRECT) \in Blocks /\ At(k, mo, NDIRECT) # a.b
      BY <1>3, <1>10, AtBlock
    <3>3. n.disk.blk[At(k, mo, NDIRECT)] = k.disk.blk[At(k, mo, NDIRECT)]
      BY <1>7, <3>1, <3>2
    <3> QED
      BY <2>1, <2>3, <3>3, AtIndirect
  <2> QED
    BY <2>2, <2>3
<1> DEFINE i == j + NDIRECT + 1
<1>12. /\ i \in DataPlaces /\ i \in Places /\ i \notin Addrs
       /\ \A c \in Cells : c + NDIRECT + 1 = i => c = j
  BY PlaceSets, Sizes DEF Addrs, Cells
<1>13. At(n, no, i) = a.b /\ At(k, no, i) = 0
  BY <1>11
<1>14. ASSUME NEW mo \in Inos, NEW e \in Places, mo # no \/ e # i
       PROVE  At(n, mo, e) = At(k, mo, e)
  <2>1. CASE e \in Addrs
    BY <1>9, <2>1
  <2>2. CASE \E c \in Cells : e = c + NDIRECT + 1
    BY <1>11, <1>14, <2>2
  <2> QED
    BY <2>1, <2>2, PlaceKinds
<1> HIDE DEF i
<1>15. NewPlace(k, n, no, i, a.b)
  BY <1>3, <1>6, <1>13, <1>14 DEF NewPlace
<1>16. 0 \notin k.disk.bitmap
  BY <1>1, KernelParts
<1>17. Own(n)
  BY <1>12, <1>15, <1>16, NewOwn DEF Sound
<1>18. DirCells(n)
  <2> SUFFICES ASSUME NEW mo \in Inos, NEW e \in DataPlaces,
                      n.disk.dinode[mo].type = "DIR", At(n, mo, e) # 0, NEW c \in Cells
               PROVE  n.disk.blk[At(n, mo, e)][c].inode \in Inos
    BY DEF DirCells
  <2>0. e \in Places /\ e # NDIRECT
    BY PlaceSets
  <2>1. CASE mo = no /\ e = i
    BY <1>7, <1>13, <2>1, ZeroesAre, Sizes
  <2>2. CASE mo # no \/ e # i
    <3>1. At(n, mo, e) = At(k, mo, e)
      BY <1>14, <2>0, <2>2
    <3>2. At(k, mo, e) # h /\ At(k, mo, e) # a.b /\ At(k, mo, e) \in Blocks
      BY <1>3, <1>10, <2>0, OnePlace, AtBlock
    <3>3. k.disk.blk[At(k, mo, e)][c].inode \in Inos
      BY <1>6, <3>1 DEF Sound, DirCells
    <3> QED
      BY <1>7, <3>1, <3>2, <3>3
  <2> QED
    BY <2>1, <2>2
<1>19. FreeClean(n) /\ Sync(n) /\ Distinct(n) /\ Calm(k, n)
  BY <1>6 DEF Sound, FreeClean, Sync, Distinct, active, Calm, type_of
<1> QED
  BY <1>4, <1>6, <1>15, <1>17, <1>18, <1>19 DEF Sound, n, i

LEMMA BfreeIs ==
  ASSUME NEW k \in Kernel, NEW S, 0 \notin S, NEW n, n = bfree(k, S)
  PROVE  /\ n \in Kernel /\ n.fault = k.fault /\ n.inodes = k.inodes /\ n.files = k.files
         /\ n.disk.dinode = k.disk.dinode /\ n.disk.bitmap = k.disk.bitmap \ S
         /\ \A b \in Blocks : b \notin S => n.disk.blk[b] = k.disk.blk[b]
<1> DEFINE junk == [i \in 0 .. BLK_SIZE - 1 |-> cell(JUNK)]
           new == [b \in Blocks |-> IF b \in S THEN junk ELSE k.disk.blk[b]]
<1>1. junk \in Block
  <2>1. cell(JUNK) \in Cell
    BY Sizes, CellType
  <2> QED
    BY <2>1 DEF Block, Cells
<1>2. new \in [Blocks -> Block]
  BY <1>1, KernelParts
<1>3. \A b \in Blocks : b \notin S => new[b] = k.disk.blk[b]
  OBVIOUS
<1>4. check(k, 0 \notin S) = k
  BY DEF check
<1>5. n = [k EXCEPT !.disk.bitmap = @ \ S, !.disk.blk = new]
  BY <1>4 DEF bfree
<1> HIDE DEF new
<1> DEFINE dk == [k.disk EXCEPT !.bitmap = @ \ S, !.blk = new]
<1>6. /\ dk \in Disk
      /\ dk.dinode = k.disk.dinode /\ dk.bitmap = k.disk.bitmap \ S /\ dk.blk = new
  BY <1>2, KernelParts DEF Disk
<1>7. n = [k EXCEPT !.disk = dk]
  BY <1>5
<1> HIDE DEF dk
<1>8. /\ n \in Kernel /\ n.fault = k.fault /\ n.inodes = k.inodes /\ n.files = k.files
      /\ n.disk = dk
  BY <1>6, <1>7 DEF Kernel
<1> QED
  BY <1>3, <1>6, <1>8

NoAddrs == [i \in Addrs |-> 0]

LEMMA ZeroDinode ==
  /\ zero_dinode \in Dinode /\ zero_dinode.type = "NONE" /\ zero_dinode.addrs = NoAddrs
  /\ \A t \in Types : [zero_dinode EXCEPT !.type = t] \in Dinode
  /\ \A t \in Types : [zero_dinode EXCEPT !.type = t].type = t
  /\ \A t \in Types : [zero_dinode EXCEPT !.type = t].addrs = NoAddrs
  /\ zero_dinode.size = 0 /\ \A t \in Types : [zero_dinode EXCEPT !.type = t].size = 0
  /\ NoAddrs \in [Addrs -> Blocks]
<1>1. NoAddrs \in [Addrs -> Blocks]
  BY Sizes DEF NoAddrs
<1>2. zero_dinode = [type |-> "NONE", device |-> 0, size |-> 0, addrs |-> NoAddrs]
  BY DEF zero_dinode, NoAddrs, Addrs
<1> QED
  BY <1>1, <1>2 DEF Dinode, Types

LEMMA NoAddrsPlaces ==
  ASSUME NEW k, NEW no \in Inos, k.disk.dinode[no].addrs = NoAddrs
  PROVE  \A i \in Places : At(k, no, i) = 0
BY PlaceSets DEF At, NoAddrs

\* itrunc frees the blocks of an inode.
LEMMA Truncated ==
  ASSUME NEW k, Good(k), NEW ip \in Slots, active(k, ip), NEW no, no = k.inodes[ip].no,
         NEW n, n = itrunc(k, ip)
  PROVE  /\ Good(n) /\ Calm(k, n) /\ no \in Inos /\ Emptied(k, n, no)
         /\ n.disk.dinode[no].addrs = NoAddrs
         /\ n.inodes[ip].no = no
<1> DEFINE addrs == k.inodes[ip].dinode.addrs
           S == ({addrs[i] : i \in 0 .. NDIRECT} \cup indirect_blocks(k, addrs[NDIRECT])) \ {0}
           d == [k.inodes[ip].dinode EXCEPT !.size = 0, !.addrs = NoAddrs]
           f == bfree(k, S)
<1>0. Sound(k)
  BY DEF Good
<1>1. k \in Kernel /\ k.fault = "no"
  BY <1>0 DEF Sound
<1>2. k.inodes \in [Ips -> Inode] /\ ip \in Ips /\ k.inodes[ip].dinode \in Dinode /\ no \in Inos
  BY <1>1, Sizes, KernelParts DEF Inode
<1>3. n = iupdate(with_dinode(f, ip, d), ip)
  BY ZeroDinode DEF itrunc, with_dinode
<1>4. d \in Dinode /\ d.type = type_of(k, ip) /\ d.addrs = NoAddrs /\ d.size = 0
  BY <1>2, ZeroDinode DEF Dinode, type_of
<1>5. k.disk.dinode[no].addrs = addrs
  BY <1>0 DEF Sound, Sync
<1>6. S = {At(k, no, i) : i \in Places} \ {0}
  <2>1. \A i \in Addrs : At(k, no, i) = addrs[i]
    BY <1>2, <1>5, AtAddr
  <2>2. NDIRECT \in Addrs /\ Addrs = 0 .. NDIRECT /\ Cells = 0 .. NINDIRECT - 1
    BY Sizes DEF Addrs, Cells, NINDIRECT
  <2>3. \A j \in Cells : At(k, no, j + NDIRECT + 1) =
           IF addrs[NDIRECT] = 0 THEN 0 ELSE k.disk.blk[addrs[NDIRECT]][j].inode
    <3>1. At(k, no, NDIRECT) = addrs[NDIRECT]
      BY <2>1, <2>2
    <3> HIDE DEF addrs
    <3> QED
      BY <1>2, <3>1, AtIndirect
  <2> HIDE DEF addrs
  <2>4. ASSUME NEW x \in S PROVE x # 0 /\ \E i \in Places : At(k, no, i) = x
    <3>1. CASE \E i \in 0 .. NDIRECT : x = addrs[i]
      <4>1. PICK i \in Addrs : x = addrs[i]
        BY <2>2, <3>1
      <4> QED
        BY <2>1, <4>1, PlaceSets
    <3>2. CASE x \in indirect_blocks(k, addrs[NDIRECT])
      <4>1. addrs[NDIRECT] # 0 /\ \E j \in Cells : x = k.disk.blk[addrs[NDIRECT]][j].inode
        BY <2>2, <3>2 DEF indirect_blocks
      <4>2. PICK j \in Cells : x = k.disk.blk[addrs[NDIRECT]][j].inode
        BY <4>1
      <4>3. At(k, no, j + NDIRECT + 1) = x /\ j + NDIRECT + 1 \in Places
        BY <2>3, <4>1, <4>2, PlaceSets
      <4> QED
        BY <4>3
    <3> QED
      BY <3>1, <3>2
  <2>5. ASSUME NEW i \in Places, At(k, no, i) # 0 PROVE At(k, no, i) \in S
    <3>1. CASE i \in Addrs
      BY <2>1, <2>2, <2>5, <3>1
    <3>2. CASE \E j \in Cells : i = j + NDIRECT + 1
      <4>1. PICK j \in Cells : i = j + NDIRECT + 1
        BY <3>2
      <4>2. addrs[NDIRECT] # 0 /\ At(k, no, i) = k.disk.blk[addrs[NDIRECT]][j].inode
        BY <2>3, <2>5, <4>1
      <4>3. At(k, no, i) \in indirect_blocks(k, addrs[NDIRECT])
        BY <2>2, <4>2 DEF indirect_blocks
      <4> QED
        BY <2>5, <4>3
    <3> QED
      BY <3>1, <3>2, PlaceKinds
  <2> HIDE DEF S
  <2> QED
    BY <2>4, <2>5
<1> HIDE DEF S, addrs
<1>7. 0 \notin S
  BY <1>6
<1>8. /\ f \in Kernel /\ f.fault = k.fault /\ f.inodes = k.inodes /\ f.files = k.files
      /\ f.disk.dinode = k.disk.dinode /\ f.disk.bitmap = k.disk.bitmap \ S
      /\ \A b \in Blocks : b \notin S => f.disk.blk[b] = k.disk.blk[b]
  BY <1>1, <1>7, BfreeIs
<1> HIDE DEF d, f
<1>9. /\ n \in Kernel /\ n.fault = "no" /\ n.files = k.files
      /\ n.inodes = [k.inodes EXCEPT ![ip] = [@ EXCEPT !.dinode = d]]
      /\ n.disk.dinode = [k.disk.dinode EXCEPT ![k.inodes[ip].no] = d]
      /\ n.disk.bitmap = k.disk.bitmap \ S /\ n.disk.blk = f.disk.blk
  BY <1>1, <1>3, <1>4, <1>8, UpdateIs
<1>10. Sync(n) /\ Distinct(n) /\ Calm(k, n)
  <2>1. Sync(k) /\ Distinct(k)
    BY <1>0 DEF Sound
  <2>2. Updated(k, n, ip, d)
    BY <1>9 DEF Updated
  <2> QED
    BY <1>1, <1>4, <2>1, <2>2, UpdateCalm
<1>11. /\ \A mo \in Inos : mo # no => n.disk.dinode[mo] = k.disk.dinode[mo]
       /\ n.disk.dinode[no] = d
  BY <1>1, <1>2, <1>9, KernelParts
<1>12. \A i \in Places : At(n, no, i) = 0
  BY <1>2, <1>4, <1>11, NoAddrsPlaces
<1>13. ASSUME NEW mo \in Inos, mo # no, NEW i \in Places
       PROVE  /\ At(k, mo, i) \in Blocks /\ At(k, mo, i) \notin S
              /\ n.disk.blk[At(k, mo, i)] = k.disk.blk[At(k, mo, i)]
  <2>1. At(k, mo, i) \in Blocks
    BY <1>0, AtBlock
  <2>2. At(k, mo, i) \notin S
    <3> SUFFICES ASSUME At(k, mo, i) \in S PROVE FALSE
      OBVIOUS
    <3>1. PICK j \in Places : At(k, no, j) = At(k, mo, i) /\ At(k, no, j) # 0
      BY <1>6
    <3> QED
      BY <1>0, <1>2, <1>13, <3>1, OnePlace
  <2> QED
    BY <1>8, <1>9, <2>1, <2>2
<1>14. ASSUME NEW mo \in Inos, mo # no, NEW i \in Places
       PROVE  At(n, mo, i) = At(k, mo, i)
  <2>1. \A j \in Addrs : At(n, mo, j) = At(k, mo, j)
    BY <1>11, <1>14, AtAddr
  <2>2. ASSUME NEW c \in Cells PROVE At(n, mo, c + NDIRECT + 1) = At(k, mo, c + NDIRECT + 1)
    <3>1. NDIRECT \in Addrs /\ NDIRECT \in Places
      BY Sizes, PlaceSets
    <3>2. n.disk.blk[At(k, mo, NDIRECT)] = k.disk.blk[At(k, mo, NDIRECT)]
      BY <1>13, <1>14, <3>1
    <3> QED
      BY <2>1, <3>1, <3>2, AtIndirect
  <2> QED
    BY <2>1, <2>2, PlaceKinds
<1>15. Emptied(k, n, no)
  <2>1. 0 \notin k.disk.bitmap
    BY <1>1, KernelParts
  <2>2. n.disk.bitmap = k.disk.bitmap \ {At(k, no, i) : i \in Places}
    BY <1>6, <1>9, <2>1
  <2> QED
    BY <1>12, <1>14, <2>2 DEF Emptied
<1>16. Own(n)
  BY <1>0, <1>2, <1>15, EmptiedOwn DEF Sound
<1>17. DirCells(n)
  <2> SUFFICES ASSUME NEW mo \in Inos, NEW i \in DataPlaces,
                      n.disk.dinode[mo].type = "DIR", At(n, mo, i) # 0, NEW c \in Cells
               PROVE  n.disk.blk[At(n, mo, i)][c].inode \in Inos
    BY DEF DirCells
  <2>1. i \in Places /\ mo # no
    BY <1>12, PlaceSets
  <2>2. /\ At(n, mo, i) = At(k, mo, i) /\ k.disk.dinode[mo].type = "DIR"
        /\ n.disk.blk[At(k, mo, i)] = k.disk.blk[At(k, mo, i)]
    BY <1>11, <1>13, <1>14, <2>1
  <2> QED
    BY <1>0, <2>2 DEF Sound, DirCells
<1>18. FreeClean(n)
  BY <1>0, <1>4, <1>11, ZeroDinode DEF Sound, FreeClean
<1>19. n.inodes[ip].no = no
  BY <1>10 DEF Calm
<1>20. Solid(n)
  <2>1. \A mo \in Inos :
          \/ n.disk.dinode[mo].size = 0
          \/ /\ n.disk.dinode[mo].size = k.disk.dinode[mo].size
             /\ \A i \in Places : At(k, mo, i) # 0 => At(n, mo, i) # 0
    BY <1>4, <1>11, <1>14
  <2> QED
    BY <2>1, SolidKept DEF Good
<1> QED
  BY <1>2, <1>4, <1>9, <1>10, <1>11, <1>15, <1>16, <1>17, <1>18, <1>19, <1>20 DEF Good, Sound

-----------------------------------------------------------------------------
(***************************************************************************)
(* References to inodes.                                                   *)
(***************************************************************************)

\* A free inode is active in the slot q at most, and referred to once: what a
\* lookup of ".." in a removed directory finds.
NoneBut(k, q) ==
  \A i \in Slots : active(k, i) /\ type_of(k, i) = "NONE" => i = q /\ k.inodes[i].ref = 1

one(b) == IF b THEN 1 ELSE 0

\* There is one more reference in n, to slot q (none, if q is 0); what was active
\* in k still is, and is the same inode.
Held(k, n, q) ==
  /\ n.files = k.files
  /\ \A i \in Slots : n.inodes[i].ref = k.inodes[i].ref + one(i = q)
  /\ \A i \in Slots : active(k, i) => n.inodes[i].no = k.inodes[i].no /\ type_of(n, i) = type_of(k, i)

\* There is one reference less to slot p.
Dropped(k, n, p) ==
  /\ n.files = k.files
  /\ \A i \in Slots : n.inodes[i].ref = k.inodes[i].ref - one(i = p)
  /\ \A i \in Slots : active(n, i) => n.inodes[i].no = k.inodes[i].no /\ type_of(n, i) = type_of(k, i)

LEMMA RefTypes ==
  ASSUME NEW k \in Kernel, NEW i \in Slots
  PROVE  /\ k.inodes[i].ref \in Nat /\ k.inodes[i].no \in Inos /\ k.inodes[i] \in Inode
         /\ k.inodes[i].dinode \in Dinode /\ k.inodes[i].del \in BOOLEAN
         /\ active(k, i) <=> k.inodes[i].ref # 0
BY KernelParts, Sizes DEF Inode, active

LEMMA CalmIsHeld ==
  ASSUME NEW k \in Kernel, NEW n, Calm(k, n)
  PROVE  /\ Held(k, n, 0)
         /\ \A q : NoneBut(k, q) => NoneBut(n, q)
<1>1. \A i \in Slots : k.inodes[i].ref \in Nat /\ i # 0
  BY RefTypes, Sizes
<1>2. Held(k, n, 0)
  BY <1>1 DEF Calm, Held, one
<1>3. \A q : NoneBut(k, q) => NoneBut(n, q)
  BY DEF NoneBut, Calm, active
<1> QED
  BY <1>2, <1>3

LEMMA HeldThenCalm ==
  ASSUME NEW k, NEW m, NEW n, NEW q, Held(k, m, q), Calm(m, n), k \in Kernel
  PROVE  Held(k, n, q)
<1>1. \A i \in Slots : active(k, i) => active(m, i)
  BY RefTypes DEF Held, active, one
<1> QED
  BY <1>1 DEF Held, Calm

\* The reference p is given up, after another one, q, has been taken.
LEMMA HeldThenDropped ==
  ASSUME NEW k \in Kernel, NEW m, NEW r, NEW n, NEW p, NEW q,
         Held(k, m, p), Held(m, r, q), Dropped(r, n, p)
  PROVE  Held(k, n, q)
<1>1. \A i \in Slots : k.inodes[i].ref \in Nat
  BY RefTypes
<1>2. \A i \in Slots : n.inodes[i].ref = k.inodes[i].ref + one(i = q)
  BY <1>1 DEF Held, Dropped, one
<1>3. \A i \in Slots : active(k, i) => active(m, i) /\ active(r, i) /\ active(n, i)
  BY <1>1, <1>2 DEF Held, active, one
<1>4. \A i \in Slots : active(k, i) => n.inodes[i].no = k.inodes[i].no /\ type_of(n, i) = type_of(k, i)
  BY <1>3 DEF Held, Dropped
<1> QED
  BY <1>2, <1>4 DEF Held, Dropped

LEMMA HeldTwice ==
  ASSUME NEW k \in Kernel, NEW m, NEW n, NEW q, Held(k, m, 0), Held(m, n, q)
  PROVE  Held(k, n, q)
<1>1. \A i \in Slots : k.inodes[i].ref \in Nat /\ i # 0
  BY RefTypes, Sizes
<1>2. \A i \in Slots : active(k, i) => active(m, i)
  BY <1>1 DEF Held, active, one
<1>3. \A i \in Slots : n.inodes[i].ref = k.inodes[i].ref + one(i = q)
  BY <1>1 DEF Held, one
<1> QED
  BY <1>2, <1>3 DEF Held

LEMMA HeldActive ==
  ASSUME NEW k \in Kernel, NEW n, NEW q, Held(k, n, q)
  PROVE  /\ \A i \in Slots : active(k, i) => active(n, i)
         /\ q \in Slots => active(n, q)
BY RefTypes DEF Held, active, one

LEMMA DroppedNone ==
  ASSUME NEW k \in Kernel, NEW n \in Kernel, NEW p, Dropped(k, n, p), NEW q, NoneBut(k, q)
  PROVE  NoneBut(n, q) /\ (q = p => NoneBut(n, 0))
<1>1. ASSUME NEW i \in Slots, active(n, i), type_of(n, i) = "NONE"
      PROVE  i = q /\ n.inodes[i].ref = 1 /\ i # p
  <2>1. k.inodes[i].ref \in Nat /\ n.inodes[i].ref \in Nat /\ n.inodes[i].ref # 0
    BY <1>1, RefTypes
  <2>2. n.inodes[i].ref = k.inodes[i].ref - one(i = p)
    BY DEF Dropped
  <2>3. active(k, i) /\ type_of(k, i) = "NONE"
    BY <1>1, <2>1, <2>2 DEF Dropped, active, one
  <2>4. i = q /\ k.inodes[i].ref = 1
    BY <2>3 DEF NoneBut
  <2> QED
    BY <2>1, <2>2, <2>4 DEF one
<1> QED
  BY <1>1 DEF NoneBut

LEMMA NoneButTyped ==
  ASSUME NEW k, NEW q, NoneBut(k, q), q \in Slots => type_of(k, q) # "NONE"
  PROVE  NoneBut(k, 0)
BY DEF NoneBut

-----------------------------------------------------------------------------
(***************************************************************************)
(* dialloc, difree, iget, idup and iclose.                                 *)
(***************************************************************************)

\* An inode on the disk that is not active, and has no blocks, is written.
LEMMA DinodeWritten ==
  ASSUME NEW k, Good(k), NEW no \in Inos, NEW d \in Dinode, d.addrs = NoAddrs, d.size = 0,
         k.disk.dinode[no].addrs = NoAddrs,
         NEW n, n = diwrite(k, d, no)
  PROVE  /\ n \in Kernel /\ n.fault = "no" /\ n.files = k.files /\ n.inodes = k.inodes
         /\ Own(n) /\ DirCells(n) /\ FreeClean(n) /\ Distinct(n) /\ Solid(n)
         /\ (\A i \in Slots : active(k, i) => k.inodes[i].no # no) => Sync(n)
         /\ n.disk.dinode[no] = d
         /\ \A mo \in Inos : mo # no => n.disk.dinode[mo] = k.disk.dinode[mo]
<1>1. k \in Kernel /\ k.fault = "no"
  BY DEF Good, Sound
<1>2. /\ n \in Kernel /\ n.fault = "no" /\ n.inodes = k.inodes /\ n.files = k.files
      /\ n.disk.bitmap = k.disk.bitmap /\ n.disk.blk = k.disk.blk
      /\ n.disk.dinode = [k.disk.dinode EXCEPT ![no] = d]
  BY <1>1, SetDinode
<1>3. /\ n.disk.dinode[no] = d
      /\ \A mo \in Inos : mo # no => n.disk.dinode[mo] = k.disk.dinode[mo]
  BY <1>1, <1>2, KernelParts
<1>4. \A mo \in Inos : n.disk.dinode[mo].addrs = k.disk.dinode[mo].addrs
  BY <1>3
<1>5. \A mo \in Inos, i \in Places : At(n, mo, i) = At(k, mo, i)
  BY <1>2, <1>4 DEF At
<1>6. \A i \in Places : At(k, no, i) = 0
  BY NoAddrsPlaces
<1>7. SamePlaces(k, n)
  BY <1>2, <1>5 DEF SamePlaces
<1>8. Own(n)
  BY <1>7, SameOwn DEF Good, Sound
<1>9. DirCells(n)
  <2> SUFFICES ASSUME NEW mo \in Inos, NEW i \in DataPlaces,
                      n.disk.dinode[mo].type = "DIR", At(n, mo, i) # 0, NEW c \in Cells
               PROVE  n.disk.blk[At(n, mo, i)][c].inode \in Inos
    BY DEF DirCells
  <2>1. i \in Places /\ At(n, mo, i) = At(k, mo, i)
    BY <1>5, PlaceSets
  <2>2. mo # no
    BY <1>6, <2>1
  <2> QED
    BY <1>2, <1>3, <2>1, <2>2 DEF Good, Sound, DirCells
<1>10. FreeClean(n)
  BY <1>3, ZeroDinode DEF Good, Sound, FreeClean
<1>11. Distinct(n)
  BY <1>2 DEF Good, Sound, Distinct, active
<1>12. ASSUME \A i \in Slots : active(k, i) => k.inodes[i].no # no
       PROVE  Sync(n)
  BY <1>1, <1>2, <1>3, <1>12, RefTypes DEF Good, Sound, Sync, active
<1>13. Solid(n)
  <2>1. \A mo \in Inos :
          \/ n.disk.dinode[mo].size = 0
          \/ /\ n.disk.dinode[mo].size = k.disk.dinode[mo].size
             /\ \A i \in Places : At(k, mo, i) # 0 => At(n, mo, i) # 0
    BY <1>3, <1>5
  <2> QED
    BY <2>1, SolidKept DEF Good
<1> QED
  BY <1>2, <1>3, <1>8, <1>9, <1>10, <1>11, <1>12, <1>13

LEMMA DiallocIs ==
  ASSUME NEW k, Good(k), NoneBut(k, 0), NEW t \in {"FILE", "DIR", "DEV"},
         NEW r, r = dialloc(k, t), ~ Stopped(r.k)
  PROVE  /\ r.no \in Inos /\ r.no # 0 /\ Good(r.k) /\ r.k.inodes = k.inodes /\ r.k.files = k.files
         /\ r.k.disk.dinode[r.no].type = t
         /\ k.disk.dinode[r.no].type = "NONE"
         /\ \A mo \in Inos : mo # r.no => r.k.disk.dinode[mo] = k.disk.dinode[mo]
         /\ \A mo \in Inos \ {0} : k.disk.dinode[mo].type = "NONE" => r.no <= mo
         /\ \A i \in Slots : active(k, i) => k.inodes[i].no # r.no
<1> DEFINE S == {i \in Inos \ {0} : k.disk.dinode[i].type = "NONE"}
           no == first(S)
           d == [zero_dinode EXCEPT !.type = t]
<1>1. k \in Kernel
  BY DEF Good, Sound
<1>2. S \in SUBSET Nat /\ 0 \notin S
  BY Sizes
<1>3. no # 0
  <2> SUFFICES ASSUME no = 0 PROVE FALSE
    OBVIOUS
  <2>1. r.k = abort(k, "full")
    BY DEF dialloc
  <2> QED
    BY <1>1, <2>1, AbortStops
<1>4. no \in S /\ \A y \in S : no <= y
  <2> HIDE DEF S
  <2> QED
    BY <1>2, <1>3, FirstIs
<1>5. r.no = no /\ r.k = diwrite(k, d, no)
  BY <1>3 DEF dialloc
<1>6. /\ no \in Inos /\ no # 0 /\ k.disk.dinode[no].type = "NONE"
      /\ \A mo \in Inos \ {0} : k.disk.dinode[mo].type = "NONE" => no <= mo
  BY <1>4
<1> HIDE DEF no, S
<1>7. d \in Dinode /\ d.type = t /\ d.addrs = NoAddrs /\ d.size = 0
  BY ZeroDinode DEF Types
<1> HIDE DEF d
<1>8. k.disk.dinode[no].addrs = NoAddrs
  BY <1>6, ZeroDinode DEF Good, Sound, FreeClean
<1>9. ASSUME NEW i \in Slots, active(k, i) PROVE k.inodes[i].no # no
  <2>1. type_of(k, i) # "NONE"
    BY <1>9, Sizes DEF NoneBut
  <2> QED
    BY <1>6, <1>9, <2>1 DEF Good, Sound, Sync, type_of
<1> DEFINE n == r.k
<1>10. /\ n \in Kernel /\ n.fault = "no" /\ n.files = k.files /\ n.inodes = k.inodes
       /\ Own(n) /\ DirCells(n) /\ FreeClean(n) /\ Distinct(n) /\ Sync(n) /\ Solid(n)
       /\ n.disk.dinode[no] = d
       /\ \A mo \in Inos : mo # no => n.disk.dinode[mo] = k.disk.dinode[mo]
  BY <1>5, <1>6, <1>7, <1>8, <1>9, DinodeWritten
<1> HIDE DEF n
<1> QED
  BY <1>5, <1>6, <1>7, <1>9, <1>10 DEF Good, Sound, n

\* x can be put into the slot ip of the table.
SlotFits(k, ip, x) ==
  x.ref > 0 => /\ x.dinode = k.disk.dinode[x.no]
               /\ \A i \in Slots \ {ip} : active(k, i) => k.inodes[i].no # x.no

\* A slot of the inode table is written.
LEMMA SlotWritten ==
  ASSUME NEW k, Good(k), NEW ip \in Slots, NEW x \in Inode, NEW n, n = put_inode(k, ip, x),
         SlotFits(k, ip, x)
  PROVE  /\ Good(n) /\ n.disk = k.disk /\ n.files = k.files
         /\ n.inodes[ip] = x /\ \A i \in Slots : i # ip => n.inodes[i] = k.inodes[i]
<1>1. k \in Kernel /\ ip \in Ips /\ k.fault = "no"
  BY Sizes DEF Good, Sound
<1>2. /\ n \in Kernel /\ n.fault = k.fault /\ n.disk = k.disk /\ n.files = k.files
      /\ n.inodes = [k.inodes EXCEPT ![ip] = x]
  BY <1>1, SetInode
<1>3. n.inodes[ip] = x /\ \A i \in Slots : i # ip => n.inodes[i] = k.inodes[i]
  BY <1>1, <1>2, KernelParts, Sizes
<1>4. Own(n) /\ DirCells(n) /\ FreeClean(n) /\ Solid(n)
  BY <1>2, SameDisk, SolidSame DEF Good, Sound
<1>5. Sync(n)
  BY <1>2, <1>3 DEF Good, Sound, Sync, active, SlotFits
<1>6. Distinct(n)
  BY <1>3 DEF Good, Sound, Distinct, active, SlotFits
<1> QED
  BY <1>1, <1>2, <1>3, <1>4, <1>5, <1>6 DEF Good, Sound

one_more(k, ip) == [k EXCEPT !.inodes[ip].ref = @ + 1]

\* The reference count of an active slot goes up by one.
LEMMA RefTaken ==
  ASSUME NEW k, Good(k), NEW ip \in Slots, active(k, ip),
         NEW n, n = one_more(k, ip)
  PROVE  /\ Good(n) /\ Held(k, n, ip) /\ n.disk = k.disk
         /\ n.inodes[ip].no = k.inodes[ip].no /\ type_of(n, ip) = type_of(k, ip)
         /\ NoneBut(k, 0) => NoneBut(n, 0)
<1> DEFINE x == [k.inodes[ip] EXCEPT !.ref = @ + 1]
<1>1. k \in Kernel
  BY DEF Good, Sound
<1>2. x \in Inode /\ x.ref = k.inodes[ip].ref + 1 /\ x.no = k.inodes[ip].no /\ x.dinode = k.inodes[ip].dinode
  BY <1>1, RefTypes DEF Inode
<1>3. n = put_inode(k, ip, x)
  BY DEF put_inode, one_more
<1> HIDE DEF x
<1>4. SlotFits(k, ip, x)
  BY <1>2 DEF Good, Sound, Sync, Distinct, SlotFits
<1>5. /\ Good(n) /\ n.disk = k.disk /\ n.files = k.files
      /\ n.inodes[ip] = x /\ \A i \in Slots : i # ip => n.inodes[i] = k.inodes[i]
  BY <1>2, <1>3, <1>4, SlotWritten
<1>6. Held(k, n, ip)
  BY <1>1, <1>2, <1>5, RefTypes DEF Held, one, type_of
<1>7. type_of(n, ip) = type_of(k, ip)
  BY <1>2, <1>5 DEF type_of
<1>8. ASSUME NoneBut(k, 0) PROVE NoneBut(n, 0)
  BY <1>5, <1>7, <1>8, Sizes DEF NoneBut, active, type_of
<1> QED
  BY <1>2, <1>5, <1>6, <1>7, <1>8

LEMMA IgetIs ==
  ASSUME NEW k, Good(k), NoneBut(k, 0), NEW no \in Inos, NEW r, r = iget(k, no), ~ Stopped(r.k)
  PROVE  /\ r.ip \in Slots /\ Good(r.k) /\ Held(k, r.k, r.ip) /\ r.k.disk = k.disk
         /\ r.k.inodes[r.ip].no = no /\ type_of(r.k, r.ip) = k.disk.dinode[no].type
         /\ NoneBut(r.k, r.ip)
<1> DEFINE hit == {i \in Slots : k.inodes[i].ref > 0 /\ k.inodes[i].no = no}
           empty == {i \in Slots : k.inodes[i].ref = 0}
           slot == [no |-> no, ref |-> 1, del |-> FALSE, dinode |-> k.disk.dinode[no]]
<1>1. k \in Kernel
  BY DEF Good, Sound
<1>2. hit \in SUBSET Nat /\ empty \in SUBSET Nat
  BY DEF Slots
<1>3. CASE hit # {}
  <2> DEFINE ip == Min(hit)
  <2>1. ip \in hit
    <3> HIDE DEF hit
    <3> QED
      BY <1>2, <1>3, MinIs
  <2>2. r = [k |-> [k EXCEPT !.inodes[ip].ref = @ + 1], ip |-> ip]
    BY <1>3 DEF iget
  <2> HIDE DEF ip
  <2>3. ip \in Slots /\ active(k, ip) /\ k.inodes[ip].no = no
    BY <2>1 DEF active
  <2> HIDE DEF hit
  <2>4. r.ip = ip /\ r.k = [k EXCEPT !.inodes[ip].ref = @ + 1]
    BY <2>2
  <2> DEFINE n == r.k
  <2>5. n = one_more(k, ip)
    BY <2>4 DEF one_more
  <2> HIDE DEF n
  <2>6. /\ Good(n) /\ Held(k, n, ip) /\ n.disk = k.disk
        /\ n.inodes[ip].no = k.inodes[ip].no /\ type_of(n, ip) = type_of(k, ip)
        /\ NoneBut(k, 0) => NoneBut(n, 0)
    BY <2>3, <2>5, RefTaken
  <2>7. type_of(k, ip) = k.disk.dinode[no].type
    BY <2>3 DEF Good, Sound, Sync, type_of
  <2>8. NoneBut(n, ip)
    BY <2>6, Sizes DEF NoneBut
  <2> QED
    BY <2>3, <2>4, <2>6, <2>7, <2>8 DEF n
<1>4. CASE hit = {} /\ empty # {}
  <2> DEFINE ip == Min(empty)
  <2>1. ip \in empty
    <3> HIDE DEF empty
    <3> QED
      BY <1>2, <1>4, MinIs
  <2>2. r = [k |-> [k EXCEPT !.inodes[ip] = slot], ip |-> ip]
    BY <1>4 DEF iget
  <2> HIDE DEF ip
  <2>3. ip \in Slots /\ k.inodes[ip].ref = 0
    BY <2>1
  <2>4. slot \in Inode /\ slot.ref = 1 /\ slot.no = no /\ slot.dinode = k.disk.dinode[no]
    BY <1>1, KernelParts DEF Inode
  <2> DEFINE n == r.k
  <2>5. n = put_inode(k, ip, slot) /\ r.ip = ip
    BY <2>2 DEF put_inode
  <2> HIDE DEF n, slot
  <2>6. SlotFits(k, ip, slot)
    BY <1>4, <2>4 DEF active, SlotFits
  <2>7. /\ Good(n) /\ n.disk = k.disk /\ n.files = k.files
        /\ n.inodes[ip] = slot /\ \A i \in Slots : i # ip => n.inodes[i] = k.inodes[i]
    BY <2>3, <2>4, <2>5, <2>6, SlotWritten
  <2>8. Held(k, n, ip)
    BY <1>1, <2>3, <2>4, <2>7, RefTypes DEF Held, one, type_of, active
  <2>9. NoneBut(n, ip)
    BY <2>4, <2>7, Sizes DEF NoneBut, active, type_of
  <2> QED
    BY <2>3, <2>4, <2>5, <2>7, <2>8, <2>9 DEF n, type_of
<1>5. CASE hit = {} /\ empty = {}
  <2>1. r.k = abort(k, "full")
    BY <1>5 DEF iget
  <2> QED
    BY <1>1, <2>1, AbortStops
<1> QED
  BY <1>3, <1>4, <1>5

LEMMA IdupIs ==
  ASSUME NEW k, Good(k), NEW ip \in Slots, active(k, ip), NEW n, n = idup(k, ip)
  PROVE  /\ Good(n) /\ Held(k, n, ip) /\ n.disk = k.disk
         /\ n.inodes[ip].no = k.inodes[ip].no /\ type_of(n, ip) = type_of(k, ip)
         /\ NoneBut(k, 0) => NoneBut(n, 0)
<1>1. check(k, ip # 0) = k
  BY Sizes DEF check
<1>2. n = one_more(k, ip)
  BY <1>1 DEF idup, one_more
<1> QED
  BY <1>2, RefTaken

\* iclose gives a reference up; the last one of a removed inode frees it.
LEMMA IcloseIs ==
  ASSUME NEW k, Good(k), NEW ip \in Slots, active(k, ip), NEW n, n = iclose(k, ip)
  PROVE  Good(n) /\ Dropped(k, n, ip)
<1> DEFINE no == k.inodes[ip].no
           last == k.inodes[ip].ref = 1
           k0 == IF last /\ k.inodes[ip].del THEN difree(itrunc(k, ip), no) ELSE k
           x == IF last THEN free_inode ELSE [k0.inodes[ip] EXCEPT !.ref = @ - 1]
<1>1. k \in Kernel /\ ip \in Ips
  BY Sizes DEF Good, Sound
<1>2. check(k0, ip # 0) = k0
  BY Sizes DEF check
<1>3. n = put_inode(k0, ip, x)
  <2>1. n = [check(k0, ip # 0) EXCEPT !.inodes[ip] = x]
    BY DEF iclose
  <2> HIDE DEF k0, x
  <2> QED
    BY <1>2, <2>1 DEF put_inode
<1>4. /\ free_inode \in Inode /\ free_inode.ref = 0
  BY ZeroDinode, Sizes DEF free_inode, Inode
<1>5. CASE last
  <2> DEFINE m == itrunc(k, ip)
  <2>1. /\ Good(m) /\ Calm(k, m) /\ no \in Inos /\ m.disk.dinode[no].addrs = NoAddrs
        /\ m.inodes[ip].no = no
    BY Truncated
  <2> HIDE DEF m
  <2> DEFINE z == difree(m, no)
  <2>2. z = diwrite(m, zero_dinode, no)
    BY DEF difree
  <2>3. /\ z \in Kernel /\ z.fault = "no" /\ z.files = m.files /\ z.inodes = m.inodes
        /\ Own(z) /\ DirCells(z) /\ FreeClean(z) /\ Distinct(z) /\ Solid(z)
        /\ \A mo \in Inos : mo # no => z.disk.dinode[mo] = m.disk.dinode[mo]
    BY <2>1, <2>2, DinodeWritten, ZeroDinode
  <2>4. k0 = k \/ k0 = z
    BY <1>5 DEF m
  <2> HIDE DEF z
  <2>5. /\ k0 \in Kernel /\ k0.fault = "no" /\ Own(k0) /\ DirCells(k0) /\ FreeClean(k0) /\ Distinct(k0)
        /\ Solid(k0)
        /\ k0.files = k.files
        /\ \A i \in Slots : k0.inodes[i].no = k.inodes[i].no /\ k0.inodes[i].ref = k.inodes[i].ref
        /\ \A i \in Slots : type_of(k0, i) = type_of(k, i)
    BY <2>1, <2>3, <2>4 DEF Good, Sound, Calm, type_of
  <2>6. \A i \in Slots \ {ip} : active(k0, i) => k0.inodes[i].dinode = k0.disk.dinode[k0.inodes[i].no]
    <3>1. CASE k0 = k
      BY <3>1 DEF Good, Sound, Sync
    <3>2. CASE k0 = z
      <4> SUFFICES ASSUME NEW i \in Slots \ {ip}, active(z, i)
                   PROVE  z.inodes[i].dinode = z.disk.dinode[z.inodes[i].no]
        BY <3>2
      <4>1. active(m, i) /\ active(m, ip)
        BY <2>1, <2>3 DEF active, Calm
      <4>2. m.inodes[i].no # no /\ m.inodes[i].no \in Inos
        BY <2>1, <4>1, RefTypes DEF Good, Sound, Distinct
      <4> QED
        BY <2>1, <2>3, <4>1, <4>2 DEF Good, Sound, Sync
    <3> QED
      BY <2>4, <3>1, <3>2
  <2>7. x = free_inode
    BY <1>5
  <2> HIDE DEF k0, x
  <2>8. /\ n \in Kernel /\ n.fault = k0.fault /\ n.disk = k0.disk /\ n.files = k0.files
        /\ n.inodes = [k0.inodes EXCEPT ![ip] = x]
    BY <1>1, <1>3, <1>4, <2>5, <2>7, SetInode
  <2>9. n.inodes[ip].ref = 0 /\ \A i \in Slots : i # ip => n.inodes[i] = k0.inodes[i]
    BY <1>1, <1>4, <2>5, <2>7, <2>8, KernelParts, Sizes
  <2>10. Own(n) /\ DirCells(n) /\ FreeClean(n) /\ Solid(n)
    BY <2>5, <2>8, SameDisk, SolidSame
  <2>11. Sync(n) /\ Distinct(n)
    BY <2>5, <2>6, <2>8, <2>9 DEF Sync, Distinct, active
  <2>12. Dropped(k, n, ip)
    <3>1. \A i \in Slots : i # ip => /\ n.inodes[i].ref = k.inodes[i].ref /\ k.inodes[i].ref \in Nat
                                    /\ n.inodes[i].no = k.inodes[i].no /\ type_of(n, i) = type_of(k, i)
      BY <1>1, <2>5, <2>9, RefTypes DEF type_of
    <3>2. n.inodes[ip].ref = 0 /\ k.inodes[ip].ref = 1
      BY <1>5, <2>9
    <3>3. n.files = k.files
      BY <2>5, <2>8
    <3> HIDE DEF last
    <3> QED
      BY <3>1, <3>2, <3>3 DEF Dropped, one, active
  <2> QED
    BY <2>5, <2>8, <2>10, <2>11, <2>12 DEF Good, Sound
<1>6. CASE ~ last
  <2>1. k0 = k /\ x = [k.inodes[ip] EXCEPT !.ref = @ - 1]
    BY <1>6
  <2>2. k.inodes[ip].ref \in Nat /\ k.inodes[ip].ref > 1 /\ k.inodes[ip] \in Inode
    BY <1>1, <1>6, RefTypes DEF active
  <2>3. /\ x \in Inode /\ x.ref = k.inodes[ip].ref - 1 /\ x.no = no /\ x.dinode = k.inodes[ip].dinode
    <3> DEFINE y == k.inodes[ip]
    <3>1. y \in Inode /\ y.ref \in Nat /\ y.ref > 1 /\ x = [y EXCEPT !.ref = @ - 1] /\ y.no = no
      BY <2>1, <2>2
    <3> HIDE DEF x, y, no
    <3>2. x \in Inode /\ x.ref = y.ref - 1 /\ x.no = y.no /\ x.dinode = y.dinode
      BY <3>1 DEF Inode
    <3> QED
      BY <3>1, <3>2 DEF y
  <2> HIDE DEF x, k0
  <2>4. SlotFits(k, ip, x)
    BY <2>3 DEF Good, Sound, Sync, Distinct, SlotFits
  <2>5. /\ Good(n) /\ n.disk = k.disk /\ n.files = k.files
        /\ n.inodes[ip] = x /\ \A i \in Slots : i # ip => n.inodes[i] = k.inodes[i]
    BY <1>3, <2>1, <2>3, <2>4, SlotWritten
  <2>6. Dropped(k, n, ip)
    BY <1>1, <2>3, <2>5, RefTypes DEF Dropped, one, type_of
  <2> QED
    BY <2>5, <2>6
<1> QED
  BY <1>5, <1>6

-----------------------------------------------------------------------------
(***************************************************************************)
(* Reading and writing files and directories.                              *)
(***************************************************************************)

LEMMA OpenInode ==
  ASSUME NEW k, Sound(k), NEW ip \in Slots, active(k, ip)
  PROVE  /\ k \in Kernel /\ k.inodes[ip].no \in Inos
         /\ k.inodes[ip].dinode = k.disk.dinode[k.inodes[ip].no]
         /\ k.disk.dinode[k.inodes[ip].no].type = type_of(k, ip)
         /\ size_of(k, ip) \in Nat /\ k.inodes[ip].dinode \in Dinode
<1>1. k \in Kernel /\ k.inodes[ip].dinode = k.disk.dinode[k.inodes[ip].no]
  BY DEF Sound, Sync
<1>2. k.inodes[ip].no \in Inos /\ k.inodes[ip].dinode \in Dinode
  BY <1>1, RefTypes
<1> QED
  BY <1>1, <1>2 DEF type_of, size_of, Dinode

LEMMA CalmOpen ==
  ASSUME NEW k, NEW n, NEW ip \in Slots, Calm(k, n)
  PROVE  /\ active(k, ip) <=> active(n, ip)
         /\ type_of(n, ip) = type_of(k, ip) /\ n.inodes[ip].no = k.inodes[ip].no
BY DEF Calm, active

\* The block of an address, after walk_addr.
LEMMA WalkAddr ==
  ASSUME NEW k, Sound(k), NEW ip \in Slots, active(k, ip), type_of(k, ip) # "NONE",
         NEW no, no = k.inodes[ip].no, NEW i \in Addrs,
         NEW r, r = walk_addr(k, ip, i), ~ Stopped(r.k)
  PROVE  Sound(r.k) /\ Calm(k, r.k) /\ Keeps(k, r.k) /\ r.b = At(r.k, no, i) /\ r.b # 0
<1>1. no \in Inos /\ k.inodes[ip].dinode = k.disk.dinode[no]
  BY OpenInode
<1>2. At(k, no, i) = k.inodes[ip].dinode.addrs[i]
  BY <1>1, AtAddr
<1>3. CASE At(k, no, i) # 0
  <2>1. r.k = k /\ r.b = At(k, no, i)
    BY <1>2, <1>3 DEF walk_addr
  <2> QED
    BY <1>3, <2>1, CalmSelf, KeepsTwice
<1>4. CASE At(k, no, i) = 0
  <2>1. r = set_addr(balloc(k), ip, i)
    BY <1>2, <1>4 DEF walk_addr
  <2>2. /\ Sound(r.k) /\ Calm(k, r.k) /\ NewPlace(k, r.k, no, i, r.b)
        /\ \A mo \in Inos : r.k.disk.dinode[mo].size = k.disk.dinode[mo].size
    BY <1>4, <2>1, AddrAllocated
  <2> QED
    BY <1>4, <2>2 DEF NewPlace, Keeps
<1> QED
  BY <1>3, <1>4

\* The block of a cell of the indirect block ind.b, after walk_indirect.
LEMMA WalkIndirect ==
  ASSUME NEW ind, Sound(ind.k), NEW no \in Inos, ind.k.disk.dinode[no].type # "NONE",
         ind.b = At(ind.k, no, NDIRECT), ind.b # 0, NEW j \in Cells,
         NEW r, r = walk_indirect(ind, j), ~ Stopped(r.k)
  PROVE  /\ Sound(r.k) /\ Calm(ind.k, r.k) /\ Keeps(ind.k, r.k)
         /\ r.b = At(r.k, no, j + NDIRECT + 1) /\ r.b # 0
<1> DEFINE k == ind.k
<1>1. At(k, no, j + NDIRECT + 1) = k.disk.blk[ind.b][j].inode
  BY AtIndirect
<1> HIDE DEF k
<1>2. CASE At(k, no, j + NDIRECT + 1) # 0
  <2>1. r.k = k /\ r.b = At(k, no, j + NDIRECT + 1)
    BY <1>1, <1>2 DEF walk_indirect, k
  <2> QED
    BY <1>2, <2>1, CalmSelf, KeepsTwice DEF k
<1>3. CASE At(k, no, j + NDIRECT + 1) = 0
  <2>1. r = set_indirect(balloc(k), ind, j)
    BY <1>1, <1>3 DEF walk_indirect, k
  <2>2. /\ Sound(k) /\ k.disk.dinode[no].type # "NONE" /\ At(k, no, NDIRECT) # 0
        /\ ind.b = At(k, no, NDIRECT) /\ ind.k = k
    BY DEF k
  <2>3. /\ Sound(r.k) /\ Calm(k, r.k) /\ NewPlace(k, r.k, no, j + NDIRECT + 1, r.b)
        /\ \A mo \in Inos : r.k.disk.dinode[mo].size = k.disk.dinode[mo].size
    BY <1>3, <2>1, <2>2, CellAllocated
  <2>4. Keeps(k, r.k)
    BY <1>3, <2>3 DEF NewPlace, Keeps
  <2> QED
    BY <2>3, <2>4 DEF NewPlace, k
<1> QED
  BY <1>2, <1>3

LEMMA WalkIndirectStops ==
  ASSUME NEW ind, Stopped(ind.k), NEW j
  PROVE  Stopped(walk_indirect(ind, j).k)
<1>1. Stopped(set_indirect(balloc(ind.k), ind, j).k)
  BY DiskStops, SetStops DEF set_indirect
<1> QED
  BY <1>1 DEF walk_indirect

\* iwalk finds the block of some data, or allocates it.
LEMMA IwalkIs ==
  ASSUME NEW k, Sound(k), NEW ip \in Slots, active(k, ip), type_of(k, ip) # "NONE",
         NEW no, no = k.inodes[ip].no, NEW m \in Nat,
         NEW r, r = iwalk(k, ip, m), ~ Stopped(r.k)
  PROVE  /\ Sound(r.k) /\ Calm(k, r.k) /\ Keeps(k, r.k) /\ r.b # 0
         /\ m < NDIRECT + NINDIRECT /\ r.b = At(r.k, no, block_place(m))
<1>1. no \in Inos
  BY OpenInode
<1>2. CASE m < NDIRECT
  <2>0. m \in Addrs /\ m # NDIRECT
    BY <1>2, Sizes DEF Addrs
  <2>1. m \in Addrs /\ m \in DataPlaces
    BY <2>0, PlaceSets DEF DataPlaces
  <2>2. ~ (m >= NDIRECT + NINDIRECT)
    BY <1>2, Sizes DEF NINDIRECT
  <2>3. r = walk_addr(k, ip, m)
    BY <1>2, <2>2 DEF iwalk
  <2>4. m < NDIRECT + NINDIRECT /\ block_place(m) = m
    BY <1>2, Sizes DEF block_place, NINDIRECT
  <2> QED
    BY <2>1, <2>3, <2>4, WalkAddr
<1>3. CASE m >= NDIRECT + NINDIRECT
  <2>1. ~ (m < NDIRECT)
    BY <1>3, Sizes DEF NINDIRECT
  <2>2. r.k = abort(k, "full")
    BY <1>3, <2>1 DEF iwalk
  <2> QED
    BY <2>2, AbortStops DEF Sound
<1>4. CASE ~ (m < NDIRECT) /\ ~ (m >= NDIRECT + NINDIRECT)
  <2> DEFINE ind == walk_addr(k, ip, NDIRECT)
             j == m - NDIRECT
  <2>1. r = walk_indirect(ind, j)
    BY <1>4 DEF iwalk
  <2>2. NDIRECT \in Addrs /\ j \in Cells
    BY <1>4, Sizes DEF Cells, NINDIRECT
  <2>3. ~ Stopped(ind.k)
    <3> HIDE DEF ind, j
    <3> QED
      BY <2>1, WalkIndirectStops
  <2>4. /\ Sound(ind.k) /\ Calm(k, ind.k) /\ Keeps(k, ind.k)
        /\ ind.b = At(ind.k, no, NDIRECT) /\ ind.b # 0
    BY <2>2, <2>3, WalkAddr
  <2>8. block_place(m) = j + NDIRECT + 1
    BY <1>4, Sizes DEF block_place
  <2> HIDE DEF ind, j
  <2>5. ind.k.disk.dinode[no].type # "NONE"
    BY <1>1, <2>4, OpenInode DEF Calm
  <2>6. /\ Sound(r.k) /\ Calm(ind.k, r.k) /\ Keeps(ind.k, r.k)
        /\ r.b = At(r.k, no, j + NDIRECT + 1) /\ r.b # 0
    BY <1>1, <2>1, <2>2, <2>4, <2>5, WalkIndirect
  <2>7. Calm(k, r.k) /\ Keeps(k, r.k)
    BY <2>4, <2>6, CalmTwice, KeepsTwice
  <2> QED
    BY <1>4, <2>6, <2>7, <2>8, Sizes DEF NINDIRECT
<1> QED
  BY <1>2, <1>3, <1>4

\* A block that is there is found, and nothing changes.
LEMMA IwalkFinds ==
  ASSUME NEW k, Sound(k), NEW ip \in Slots, active(k, ip), NEW no, no = k.inodes[ip].no,
         NEW m \in Nat, Filled(k, no, m), NEW r, r = iwalk(k, ip, m)
  PROVE  r.k = k /\ r.b = At(k, no, block_place(m))
<1>1. no \in Inos /\ k.inodes[ip].dinode = k.disk.dinode[no] /\ ~ (m >= NDIRECT + NINDIRECT)
  BY OpenInode, Sizes DEF Filled, NINDIRECT
<1>2. At(k, no, block_place(m)) # 0
  BY DEF Filled
<1>3. \A i \in Addrs : At(k, no, i) = k.inodes[ip].dinode.addrs[i]
  BY <1>1, AtAddr
<1>4. CASE m < NDIRECT
  <2>1. m \in Addrs /\ block_place(m) = m
    BY <1>4, Sizes DEF Addrs, block_place
  <2>2. r = walk_addr(k, ip, m)
    BY <1>1, <1>4 DEF iwalk
  <2> QED
    BY <1>2, <1>3, <2>1, <2>2 DEF walk_addr
<1>5. CASE ~ (m < NDIRECT)
  <2> DEFINE j == m - NDIRECT
  <2>1. j \in Cells /\ block_place(m) = j + NDIRECT + 1 /\ NDIRECT \in Addrs
    BY <1>1, <1>5, Sizes DEF Cells, NINDIRECT, block_place
  <2>2. r = walk_indirect(walk_addr(k, ip, NDIRECT), j)
    BY <1>1, <1>5 DEF iwalk
  <2> HIDE DEF j
  <2>3. /\ At(k, no, NDIRECT) # 0
        /\ k.disk.blk[At(k, no, NDIRECT)][j].inode = At(k, no, block_place(m))
    BY <1>1, <1>2, <2>1, AtIndirect
  <2> DEFINE ind == walk_addr(k, ip, NDIRECT)
  <2>4. ind.k = k /\ ind.b = At(k, no, NDIRECT)
    BY <1>3, <2>1, <2>3 DEF walk_addr
  <2> HIDE DEF ind
  <2> QED
    BY <1>2, <2>2, <2>3, <2>4 DEF walk_indirect, ind
<1> QED
  BY <1>4, <1>5

\* What the cells of a file or directory can hold.
Data(dir) == {v \in Cell : dir => v.inode \in Inos}
data_of(k, ip) == Data(type_of(k, ip) = "DIR")

\* The cell at pos of a file.
cell_at(k, no, pos) == k.disk.blk[At(k, no, block_place(pos \div BLK_SIZE))][pos % BLK_SIZE]

LEMMA CellAt ==
  ASSUME NEW k, Sound(k), NEW ip \in Slots, active(k, ip), NEW no, no = k.inodes[ip].no,
         NEW pos \in Nat, Filled(k, no, pos \div BLK_SIZE)
  PROVE  cell_at(k, no, pos) \in data_of(k, ip)
<1> DEFINE m == pos \div BLK_SIZE
           i == block_place(m)
           c == pos % BLK_SIZE
           b == At(k, no, i)
<1>1. no \in Inos /\ k.disk.dinode[no].type = type_of(k, ip) /\ k \in Kernel
  BY OpenInode
<1>2. m \in Nat /\ c \in Cells
  BY Position
<1>3. cell_at(k, no, pos) = k.disk.blk[b][c] /\ b # 0 /\ m < NDIRECT + NINDIRECT
  BY DEF cell_at, Filled
<1> HIDE DEF m, c
<1>4. i \in DataPlaces /\ i \in Places
  BY <1>2, <1>3, BlockPlace
<1> HIDE DEF i
<1>5. b \in Blocks /\ k.disk.blk \in [Blocks -> Block]
  BY <1>1, <1>4, AtBlock, KernelParts
<1>6. type_of(k, ip) = "DIR" => k.disk.blk[b][c].inode \in Inos
  BY <1>1, <1>2, <1>3, <1>4 DEF Sound, DirCells
<1> HIDE DEF b
<1>7. k.disk.blk[b][c] \in Cell
  BY <1>2, <1>5 DEF Block
<1> QED
  BY <1>3, <1>6, <1>7 DEF data_of, Data

\* A product is not less than another one with a lesser factor.
LEMMA Product ==
  ASSUME NEW b \in Nat, b >= 1, NEW x \in Nat, NEW n \in Nat, x \div b < n
  PROVE  x < n * b
<1> DEFINE q == x \div b
<1>1. q \in Nat /\ x = b * q + (x % b) /\ x % b < b
  OBVIOUS
<1> HIDE DEF q
<1>2. PICK d \in Nat : n = q + 1 + d
  <2>1. n - q - 1 \in Nat /\ n = q + 1 + (n - q - 1)
    BY <1>1 DEF q
  <2> QED
    BY <2>1
<1>3. n * b = b * q + b + d * b
  BY <1>1, <1>2
<1>4. d * b \in Nat
  OBVIOUS
<1> QED
  BY <1>1, <1>3, <1>4

\* No file is larger than its places.
LEMMA SizeFits ==
  ASSUME NEW k, Good(k), NEW no \in Inos
  PROVE  k.disk.dinode[no].size <= (NDIRECT + BLK_SIZE) * BLK_SIZE
<1> DEFINE size == k.disk.dinode[no].size
           N == NDIRECT + BLK_SIZE
<1>1. size \in Nat /\ BLK_SIZE \in Nat /\ BLK_SIZE >= 1 /\ N \in Nat
  BY Sizes, KernelParts DEF Good, Sound, Dinode
<1>2. CASE size = 0
  <2>1. N * BLK_SIZE \in Nat
    BY <1>1
  <2> QED
    BY <1>2, <2>1
<1>3. CASE size # 0
  <2> DEFINE pos == size - 1
  <2>1. pos \in Nat /\ pos < size
    BY <1>1, <1>3
  <2>2. pos \div BLK_SIZE < N
    BY <2>1 DEF Good, Solid, Filled, NINDIRECT
  <2> HIDE DEF pos, N
  <2>3. pos < N * BLK_SIZE /\ N * BLK_SIZE \in Nat
    BY <1>1, <2>1, <2>2, Product
  <2> HIDE DEF size
  <2>4. size <= N * BLK_SIZE
    BY <1>1, <2>3 DEF pos
  <2> QED
    BY <2>4 DEF N, size
<1> QED
  BY <1>2, <1>3

\* How much of a read there is: offsets do not wrap.
fits_in(k, ip, off, len) == off + len <= size_of(k, ip) \/ len \in Lens

LEMMA Modulo ==
  ASSUME NEW m \in Nat, m >= 1, NEW x \in Nat
  PROVE  x % m \in Nat /\ x % m <= x /\ (x < m => x % m = x)
<1>1. x = m * (x \div m) + (x % m) /\ x \div m \in Nat /\ x % m \in 0 .. m - 1
  OBVIOUS
<1>2. m * (x \div m) \in Nat
  BY <1>1
<1>3. ASSUME x < m PROVE x % m = x
  <2>1. x \div m = 0
    BY <1>1, <1>3
  <2> QED
    BY <1>1, <2>1
<1> QED
  BY <1>1, <1>2, <1>3

LEMMA ReadLen ==
  ASSUME NEW k, Good(k), NEW ip \in Slots, active(k, ip), NEW off \in Nat,
         ~ (off > size_of(k, ip)), NEW len \in Nat, fits_in(k, ip, off, len)
  PROVE  read_len(k, ip, off, len) =
           IF off + len > size_of(k, ip) THEN size_of(k, ip) - off ELSE len
<1> DEFINE size == size_of(k, ip)
<1>1. size \in Nat /\ size = k.disk.dinode[k.inodes[ip].no].size /\ k.inodes[ip].no \in Inos
  BY OpenInode DEF Good, size_of
<1>2. OFF_MOD \in Nat /\ OFF_MOD >= 1 /\ off + len \in Nat
  BY Sizes
<1>3. read_len(k, ip, off, len) = IF (off + len) % OFF_MOD > size THEN size - off ELSE len
  BY DEF read_len
<1>4. CASE off + len <= size
  <2>1. (off + len) % OFF_MOD \in Nat /\ (off + len) % OFF_MOD <= off + len
    BY <1>2, Modulo
  <2> HIDE DEF size
  <2>2. ~ ((off + len) % OFF_MOD > size) /\ ~ (off + len > size)
    BY <1>1, <1>2, <1>4, <2>1
  <2> QED
    BY <1>3, <2>2 DEF size
<1>5. CASE len \in Lens
  <2> DEFINE M == (NDIRECT + BLK_SIZE) * BLK_SIZE
  <2>1. OFF_MOD > M + len
    BY <1>5, FsAssumption
  <2>2. size <= M
    BY <1>1, SizeFits
  <2>3. M \in Nat
    BY Sizes
  <2> HIDE DEF M, size
  <2>4. off + len < OFF_MOD
    BY <1>1, <1>2, <2>1, <2>2, <2>3 DEF size
  <2>5. (off + len) % OFF_MOD = off + len
    BY <1>2, <2>4, Modulo
  <2> QED
    BY <1>3, <2>5 DEF size
<1> QED
  BY <1>1, <1>4, <1>5 DEF fits_in

\* iread reads what there is, and changes nothing.
LEMMA IreadIs ==
  ASSUME NEW k, Good(k), NEW ip \in Slots, active(k, ip), NEW no, no = k.inodes[ip].no,
         NEW off \in Nat, NEW len \in Nat, fits_in(k, ip, off, len),
         NEW r, r = iread(k, ip, off, len)
  PROVE  /\ r.k = k /\ r.buf \in Seq(data_of(k, ip)) /\ r.n \in Nat \cup {-1}
         /\ ~ (off > size_of(k, ip)) =>
              /\ r.n = IF off + len > size_of(k, ip) THEN size_of(k, ip) - off ELSE len
              /\ Len(r.buf) = r.n
              /\ \A j \in 1 .. r.n : r.buf[j] = cell_at(k, no, off + j - 1)
<1> DEFINE n == read_len(k, ip, off, len)
           text(j) == [i \in 1 .. j |-> cell_at(k, no, off + i - 1)]
<1>0. Sound(k) /\ Solid(k)
  BY DEF Good
<1>1. /\ ~ stopped_in(k) /\ size_of(k, ip) \in Nat /\ no \in Inos
      /\ size_of(k, ip) = k.disk.dinode[no].size
  BY <1>0, OpenInode DEF Sound, stopped_in, size_of
<1>2. CASE off > size_of(k, ip)
  <2>1. r = [k |-> k, n |-> -1, buf |-> <<>>]
    BY <1>2 DEF iread
  <2> QED
    BY <1>2, <2>1
<1>3. CASE ~ (off > size_of(k, ip))
  <2>1. n = (IF off + len > size_of(k, ip) THEN size_of(k, ip) - off ELSE len)
    BY <1>3, ReadLen
  <2>2. n \in Nat /\ off + n <= size_of(k, ip)
    BY <1>1, <1>3, <2>1
  <2>3. PICK done : /\ done[0] = [k |-> k, n |-> n, buf |-> <<>>]
                    /\ \A j \in 1 .. n : done[j] = read_at(done[j - 1], ip, off + j - 1)
                    /\ iread(k, ip, off, len) = done[n]
    <3> HIDE DEF n
    <3>1. n = read_len(k, ip, off, len)
      BY DEF n
    <3> QED
      BY <1>1, <1>3, <2>2, <3>1, ReadRounds
  <2> HIDE DEF n
  <2>4. ASSUME NEW j \in 1 .. n
        PROVE  /\ off + j - 1 \in Nat
               /\ Filled(k, no, (off + j - 1) \div BLK_SIZE)
               /\ cell_at(k, no, off + j - 1) \in data_of(k, ip)
    <3> DEFINE pos == off + j - 1
    <3>1. pos \in Nat /\ pos < k.disk.dinode[no].size
      BY <1>1, <2>2
    <3> HIDE DEF pos
    <3>2. Filled(k, no, pos \div BLK_SIZE)
      BY <1>0, <1>1, <3>1 DEF Solid
    <3>3. cell_at(k, no, pos) \in data_of(k, ip)
      BY <1>0, <3>1, <3>2, CellAt
    <3> QED
      BY <3>1, <3>2, <3>3 DEF pos
  <2> DEFINE good == {j \in 0 .. n : done[j] = [k |-> k, n |-> n, buf |-> text(j)]}
  <2>5. 0 \in good
    <3>1. text(0) = <<>>
      OBVIOUS
    <3> QED
      BY <2>2, <2>3, <3>1
  <2>6. ASSUME NEW j \in 1 .. n, j - 1 \in good PROVE j \in good
    <3> DEFINE pos == off + j - 1
               b == text(j - 1)
               v == cell_at(k, no, pos)
    <3>1. done[j] = read_at([k |-> k, n |-> n, buf |-> b], ip, pos)
      BY <2>3, <2>6
    <3>2. pos \in Nat /\ Filled(k, no, pos \div BLK_SIZE)
      BY <2>4
    <3>4. Append(b, v) = text(j)
      <4>1. j - 1 \in Nat /\ b = [i \in 1 .. j - 1 |-> cell_at(k, no, off + i - 1)] /\ Len(b) = j - 1
        BY <2>2
      <4>2. Append(b, v) = [i \in 1 .. j |-> IF i = j THEN v ELSE b[i]]
        <5> HIDE DEF b, v
        <5>1. DOMAIN b = 1 .. j - 1
          BY <4>1
        <5> QED
          BY <4>1, <5>1
      <4> HIDE DEF v
      <4>3. \A i \in 1 .. j : (IF i = j THEN v ELSE b[i]) = cell_at(k, no, off + i - 1)
        BY <4>1 DEF v
      <4> QED
        BY <4>2, <4>3
    <3> DEFINE a == done[j]
    <3>3. a = read_at([k |-> k, n |-> n, buf |-> b], ip, pos)
      BY <3>1
    <3> HIDE DEF a, b, pos, text, good
    <3>6. a = [k |-> k, n |-> n, buf |-> Append(b, cell_at(k, no, pos))]
      <4> DEFINE w == iwalk(k, ip, pos \div BLK_SIZE)
      <4>1. w.k = k /\ w.b = At(k, no, block_place(pos \div BLK_SIZE))
        BY <1>0, <3>2, Position, IwalkFinds
      <4>2. a = [k |-> w.k, n |-> n, buf |-> Append(b, w.k.disk.blk[w.b][pos % BLK_SIZE])]
        BY <3>3 DEF read_at, read_cell
      <4> HIDE DEF w
      <4> QED
        BY <4>1, <4>2 DEF cell_at
    <3>5. done[j] = [k |-> k, n |-> n, buf |-> Append(b, v)]
      BY <3>6 DEF a
    <3> HIDE DEF v
    <3> QED
      BY <3>4, <3>5 DEF good
  <2>7. r = [k |-> k, n |-> n, buf |-> text(n)]
    <3> HIDE DEF good
    <3>1. \A j \in 0 .. n : j \in good
      BY <2>2, <2>5, <2>6, RoundByRound
    <3>2. n \in good
      BY <2>2, <3>1
    <3> HIDE DEF text
    <3> QED
      BY <2>3, <3>2 DEF good
  <2>8. text(n) \in Seq(data_of(k, ip)) /\ Len(text(n)) = n
    <3> DEFINE t == text(n)
               D == data_of(k, ip)
    <3>1. t \in [1 .. n -> D]
      BY <2>4
    <3> HIDE DEF t, D
    <3>2. t \in Seq(D) /\ Len(t) = n
      BY <2>2, <3>1
    <3> QED
      BY <3>2 DEF t, D
  <2>9. \A j \in 1 .. n : text(n)[j] = cell_at(k, no, off + j - 1)
    OBVIOUS
  <2> HIDE DEF text
  <2>10. r.k = k /\ r.n = n /\ r.buf = text(n)
    BY <2>7
  <2> QED
    BY <1>3, <2>1, <2>2, <2>8, <2>9, <2>10
<1> QED
  BY <1>2, <1>3

LEMMA GrownIs ==
  ASSUME NEW k, Sound(k), NEW ip \in Slots, active(k, ip), NEW end \in Nat,
         NEW n, n = grown(k, ip, end)
  PROVE  /\ Sound(n) /\ Calm(k, n) /\ SamePlaces(k, n)
         /\ \A no \in Inos : n.disk.dinode[no].size =
              IF no = k.inodes[ip].no /\ end > size_of(k, ip) THEN end ELSE k.disk.dinode[no].size
<1>1. CASE ~ (end > size_of(k, ip))
  BY <1>1, CalmSelf DEF grown, SamePlaces
<1>2. CASE end > size_of(k, ip)
  <2> DEFINE d == [k.inodes[ip].dinode EXCEPT !.size = end]
  <2>1. k.inodes[ip].dinode \in Dinode
    BY OpenInode
  <2>2. /\ d \in Dinode /\ d.type = type_of(k, ip) /\ d.addrs = k.inodes[ip].dinode.addrs
        /\ d.size = end
    BY <2>1, DinodeTypes DEF type_of, Dinode
  <2>3. [k EXCEPT !.inodes[ip].dinode.size = end] = with_dinode(k, ip, d)
    BY DEF with_dinode
  <2>4. n = iupdate(with_dinode(k, ip, d), ip)
    BY <1>2, <2>3 DEF grown
  <2> HIDE DEF d
  <2>5. /\ Sound(n) /\ SamePlaces(k, n) /\ Calm(k, n)
        /\ n.disk.dinode = [k.disk.dinode EXCEPT ![k.inodes[ip].no] = d]
    BY <2>2, <2>4, MetaWritten
  <2>6. \A no \in Inos : n.disk.dinode[no] = IF no = k.inodes[ip].no THEN d ELSE k.disk.dinode[no]
    BY <2>5, KernelParts DEF Sound
  <2> QED
    BY <1>2, <2>2, <2>5, <2>6
<1> QED
  BY <1>1, <1>2

LEMMA WriteCell ==
  ASSUME NEW k, Sound(k), NEW ip \in Slots, active(k, ip), type_of(k, ip) # "NONE",
         NEW pos \in Nat, NEW v \in data_of(k, ip),
         NEW n, n = write_at(k, ip, pos, v), ~ Stopped(n)
  PROVE  /\ Sound(n) /\ Calm(k, n) /\ Keeps(k, n)
         /\ Filled(n, k.inodes[ip].no, pos \div BLK_SIZE)
<1> DEFINE m == pos \div BLK_SIZE
           c == pos % BLK_SIZE
           r == iwalk(k, ip, m)
           no == k.inodes[ip].no
<1>1. n = put_cell(r.k, r.b, c, v)
  BY DEF write_at, write_cell, put_cell
<1>2. m \in Nat /\ c \in Cells
  BY Position
<1> HIDE DEF m, c
<1>3. ~ Stopped(r.k)
  <2> SUFFICES ASSUME Stopped(r.k) PROVE FALSE
    OBVIOUS
  <2> HIDE DEF r
  <2> QED
    BY <1>1, SetStops DEF put_cell
<1> DEFINE i == block_place(m)
<1>4. /\ Sound(r.k) /\ Calm(k, r.k) /\ Keeps(k, r.k) /\ r.b # 0
      /\ m < NDIRECT + NINDIRECT /\ r.b = At(r.k, no, i)
  BY <1>2, <1>3, IwalkIs
<1> HIDE DEF r
<1>5. i \in DataPlaces /\ i \in Places
  BY <1>2, <1>4, BlockPlace
<1> HIDE DEF i
<1>6. no \in Inos /\ r.k.disk.dinode[no].type = type_of(k, ip)
  BY <1>4, OpenInode DEF Calm
<1>7. v \in Cell /\ (type_of(k, ip) = "DIR" => v.inode \in Inos)
  BY DEF data_of, Data
<1> HIDE DEF no
<1>8. /\ Sound(n) /\ Calm(r.k, n) /\ Keeps(r.k, n)
      /\ At(n, no, i) = At(r.k, no, i)
  <2> DEFINE q == r.k
             b == r.b
  <2>1. /\ Sound(q) /\ b = At(q, no, i) /\ b # 0 /\ n = put_cell(q, b, c, v)
        /\ q.disk.dinode[no].type = "DIR" => v.inode \in Inos
    BY <1>1, <1>4, <1>5, <1>6, <1>7
  <2> HIDE DEF q, b
  <2>2. Sound(n) /\ Calm(q, n) /\ SamePlaces(q, n) /\ n.disk.dinode = q.disk.dinode
    BY <1>2, <1>5, <1>6, <1>7, <2>1, CellWritten
  <2>3. Keeps(q, n) /\ At(n, no, i) = At(q, no, i)
    BY <1>5, <1>6, <2>2 DEF Keeps, SamePlaces
  <2> QED
    BY <2>2, <2>3 DEF q
<1>9. Filled(n, no, m)
  BY <1>4, <1>8 DEF Filled, i
<1> QED
  BY <1>4, <1>8, <1>9, CalmTwice, KeepsTwice DEF no, m

\* iwrite writes the cells of buf, and lets the file grow.
LEMMA IwriteIs ==
  ASSUME NEW k, Good(k), NEW ip \in Slots, active(k, ip), type_of(k, ip) # "NONE",
         NEW off \in Nat, NEW buf \in Seq(data_of(k, ip)),
         NEW r, r = iwrite(k, ip, off, buf), ~ Stopped(r.k)
  PROVE  /\ Good(r.k) /\ Calm(k, r.k)
         /\ r.n \in Nat \cup {-1}
<1> DEFINE n == Len(buf)
           no == k.inodes[ip].no
<1>0. Sound(k) /\ Solid(k)
  BY DEF Good
<1>1. /\ ~ stopped_in(k) /\ size_of(k, ip) \in Nat /\ n \in Nat
      /\ no \in Inos /\ size_of(k, ip) = k.disk.dinode[no].size
  BY <1>0, OpenInode DEF Sound, stopped_in, size_of
<1> HIDE DEF no
<1>2. CASE off > size_of(k, ip)
  <2>1. r = [k |-> k, n |-> -1]
    BY <1>2 DEF iwrite
  <2> QED
    BY <2>1, CalmSelf
<1>3. CASE ~ (off > size_of(k, ip))
  <2>0. r.n = n
    BY <1>1, <1>3 DEF iwrite
  <2> HIDE DEF n
  <2>1. PICK done : /\ done[0] = grown(k, ip, (off + n) % OFF_MOD)
                    /\ \A j \in 1 .. n : done[j] = write_at(done[j - 1], ip, off + j - 1, buf[j])
                    /\ iwrite(k, ip, off, buf).k = done[n]
    BY <1>1, <1>3, WriteRounds DEF n
  <2> DEFINE end == (off + n) % OFF_MOD
             k0 == grown(k, ip, end)
             full(d, j) == \A i \in 1 .. j : Filled(d, no, (off + i - 1) \div BLK_SIZE)
             fine(d, j) == ~ Stopped(d) => Sound(d) /\ Calm(k, d) /\ Keeps(k0, d) /\ full(d, j)
             good == {j \in 0 .. n : fine(done[j], j)}
  <2>5. end \in Nat /\ end <= off + n
    BY <1>1, Sizes, Modulo
  <2>6. /\ Sound(k0) /\ Calm(k, k0) /\ SamePlaces(k, k0)
        /\ \A mo \in Inos : k0.disk.dinode[mo].size =
             IF mo = no /\ end > size_of(k, ip) THEN end ELSE k.disk.dinode[mo].size
    <3> HIDE DEF end
    <3> QED
      BY <1>0, <2>5, GrownIs DEF no
  <2>7. done[0] = k0
    BY <2>1
  <2> HIDE DEF end, k0
  <2>2. 0 \in good
    <3>1. fine(done[0], 0)
      BY <2>6, <2>7, KeepsTwice
    <3> QED
      BY <1>1, <3>1
  <2>3. ASSUME NEW j \in 1 .. n, j - 1 \in good PROVE j \in good
    <3> DEFINE d == done[j - 1]
               a == done[j]
               v == buf[j]
               pos == off + j - 1
    <3>1. fine(d, j - 1) /\ a = write_at(d, ip, pos, v) /\ pos \in Nat
      BY <2>1, <2>3
    <3>2. v \in data_of(k, ip)
      BY DEF n
    <3> HIDE DEF d, a, v, pos
    <3>3. CASE Stopped(d)
      BY <3>1, <3>3, RoundStops DEF a
    <3>4. CASE ~ Stopped(d)
      <4>1. Sound(d) /\ Calm(k, d) /\ Keeps(k0, d) /\ full(d, j - 1)
        BY <3>1, <3>4
      <4>2. active(d, ip) /\ type_of(d, ip) = type_of(k, ip) /\ d.inodes[ip].no = no
        BY <4>1, CalmOpen DEF no
      <4>3. v \in data_of(d, ip)
        BY <3>2, <4>2 DEF data_of
      <4>4. ~ Stopped(a) => /\ Sound(a) /\ Calm(d, a) /\ Keeps(d, a)
                            /\ Filled(a, no, pos \div BLK_SIZE)
        BY <3>1, <4>1, <4>2, <4>3, WriteCell
      <4>5. ~ Stopped(a) => full(a, j)
        <5> SUFFICES ASSUME ~ Stopped(a), NEW i \in 1 .. j
                     PROVE  Filled(a, no, (off + i - 1) \div BLK_SIZE)
          OBVIOUS
        <5>1. CASE i = j
          BY <4>4, <5>1 DEF pos
        <5>2. CASE i # j
          <6> DEFINE m == (off + i - 1) \div BLK_SIZE
          <6>0. i \in 1 .. j - 1 /\ off + i - 1 \in Nat
            BY <1>1, <5>2
          <6>1. Filled(d, no, m) /\ m \in Nat
            BY <4>1, <6>0, Position
          <6> HIDE DEF m
          <6>2. Filled(a, no, m)
            BY <1>1, <4>4, <6>1, FilledKept DEF Keeps
          <6> QED
            BY <6>2 DEF m
        <5> QED
          BY <5>1, <5>2
      <4>6. ~ Stopped(a) => Sound(a) /\ Calm(k, a) /\ Keeps(k0, a)
        BY <4>1, <4>4, CalmTwice, KeepsTwice
      <4> HIDE DEF full
      <4> QED
        BY <4>5, <4>6 DEF a
    <3> QED
      BY <3>3, <3>4
  <2>4. fine(done[n], n)
    <3> HIDE DEF good
    <3>1. \A j \in 0 .. n : j \in good
      BY <1>1, <2>2, <2>3, RoundByRound
    <3>2. n \in good
      BY <1>1, <3>1
    <3> QED
      BY <3>2 DEF good
  <2>8. r.k = done[n]
    BY <2>1
  <2> DEFINE z == done[n]
  <2>9. Sound(z) /\ Calm(k, z) /\ Keeps(k0, z) /\ full(z, n)
    BY <2>4, <2>8
  <2> HIDE DEF z
  <2>10. Solid(z)
    <3> SUFFICES ASSUME NEW mo \in Inos, NEW pos \in Nat, pos < z.disk.dinode[mo].size
                 PROVE  Filled(z, mo, pos \div BLK_SIZE)
      BY DEF Solid
    <3> DEFINE m == pos \div BLK_SIZE
    <3>1. m \in Nat
      BY Position
    <3>2. CASE pos < k.disk.dinode[mo].size
      <4>1. Filled(k, mo, m)
        BY <1>0, <3>2 DEF Solid
      <4> HIDE DEF m
      <4>2. \A i \in Places : At(k, mo, i) # 0 => At(z, mo, i) # 0
        BY <2>6, <2>9 DEF SamePlaces, Keeps
      <4>3. Filled(z, mo, m)
        BY <3>1, <4>1, <4>2, FilledKept
      <4> QED
        BY <4>3 DEF m
    <3>3. CASE ~ (pos < k.disk.dinode[mo].size)
      <4>1. z.disk.dinode[mo].size = k0.disk.dinode[mo].size
        BY <2>9 DEF Keeps
      <4>2. /\ mo = no /\ z.disk.dinode[mo].size = end /\ pos < end
            /\ ~ (pos < size_of(k, ip))
        BY <1>1, <2>6, <3>3, <4>1
      <4> DEFINE i == pos - off + 1
      <4>3. i \in 1 .. n /\ off + i - 1 = pos
        BY <1>1, <1>3, <2>5, <4>2
      <4> HIDE DEF i
      <4> QED
        BY <2>9, <4>2, <4>3
    <3> QED
      BY <3>2, <3>3
  <2> QED
    BY <1>1, <2>0, <2>8, <2>9, <2>10 DEF Good, z
<1> QED
  BY <1>2, <1>3

\* A single cell is written at the end of the file or before.
LEMMA OneEntry ==
  ASSUME NEW k, NEW ip, NEW v \in Cell, v.inode \in Inos
  PROVE  <<v>> \in Seq(data_of(k, ip))
<1>1. v \in data_of(k, ip)
  BY DEF data_of, Data
<1> QED
  BY <1>1

-----------------------------------------------------------------------------
(***************************************************************************)
(* Looking a name up in a directory.                                       *)
(***************************************************************************)

LEMMA CheckIs ==
  ASSUME NEW k, Good(k), NEW c \in BOOLEAN, NEW n, n = check(k, c), ~ Stopped(n)
  PROVE  n = k /\ c
<1>1. CASE c
  BY <1>1 DEF check
<1>2. CASE ~ c
  BY <1>2, AbortStops DEF check, Good, Sound
<1> QED
  BY <1>1, <1>2

LEMMA IdirinitStops ==
  ASSUME NEW k, Stopped(k), NEW ip, NEW parent
  PROVE  Stopped(idirinit(k, ip, parent))
<1>1. \A c : Stopped(check(k, c))
  BY SetStops
<1>2. \A m, off, buf : Stopped(m) => Stopped(iwrite(m, ip, off, buf).k)
  BY ReadStops
<1> QED
  BY <1>1, <1>2 DEF idirinit

LEMMA LookupAmongStops ==
  ASSUME NEW k, Stopped(k), NEW ents, NEW parent, NEW name, NEW type
  PROVE  Stopped(lookup_among(k, ents, parent, name, type).k)
<1>1. \A no : Stopped(iget(k, no).k)
  BY InodeStops
<1>2. \A no, off : Stopped(lookup_hit(iget(k, no), off).k)
  BY <1>1 DEF lookup_hit
<1>3. ASSUME NEW off PROVE Stopped(lookup_new(link_new(dialloc(k, type), parent, off, name), parent, type, off).k)
  <2> DEFINE new == dialloc(k, type)
             r == link_new(new, parent, off, name)
  <2>1. Stopped(new.k)
    BY DiskStops
  <2> HIDE DEF new
  <2>2. \A buf : Stopped(iwrite(new.k, parent, off, buf).k)
    BY <2>1, ReadStops
  <2>3. Stopped(r.k)
    BY <2>2, InodeStops DEF link_new
  <2> HIDE DEF r
  <2> QED
    BY <2>3, IdirinitStops DEF lookup_new, new, r
<1> QED
  BY <1>2, <1>3 DEF lookup_among

LEMMA LookupStops ==
  ASSUME NEW k, Stopped(k), NEW parent, NEW name, NEW type
  PROVE  Stopped(ilookup(k, parent, name, type).k)
<1>1. \A c, len : Stopped(iread(check(k, c), parent, 0, len).k)
  BY SetStops, ReadStops
<1> QED
  BY <1>1, LookupAmongStops DEF ilookup

\* The entries . and .. of a new directory.
LEMMA IdirinitIs ==
  ASSUME NEW k, Good(k), NEW ip \in Slots, active(k, ip), NEW parent \in Slots, active(k, parent),
         NEW n, n = idirinit(k, ip, parent), ~ Stopped(n)
  PROVE  Good(n) /\ Calm(k, n)
<1> DEFINE c == type_of(k, ip) = "DIR" /\ type_of(k, parent) = "DIR" /\ size_of(k, ip) = 0
           k0 == check(k, c)
           a == <<dirent(k.inodes[ip].no, ".")>>
           b == <<dirent(k.inodes[parent].no, "..")>>
           r1 == iwrite(k0, ip, 0, a)
           r2 == iwrite(r1.k, ip, 1, b)
<1>1. n = r2.k
  BY DEF idirinit
<1>2. \A m : a \in Seq(data_of(m, ip)) /\ b \in Seq(data_of(m, ip))
  <2>1. k.inodes[ip].no \in Inos /\ k.inodes[parent].no \in Inos
    BY OpenInode DEF Good
  <2>2. /\ dirent(k.inodes[ip].no, ".") \in Cell /\ dirent(k.inodes[ip].no, ".").inode \in Inos
        /\ dirent(k.inodes[parent].no, "..") \in Cell /\ dirent(k.inodes[parent].no, "..").inode \in Inos
    BY <2>1, CellType, Sizes DEF Names
  <2> QED
    BY <2>2, OneEntry
<1> HIDE DEF a, b
<1>3. ~ Stopped(k0) /\ ~ Stopped(r1.k)
  <2>1. Stopped(r1.k) => Stopped(n)
    BY <1>1, ReadStops
  <2>2. Stopped(k0) => Stopped(r1.k)
    BY ReadStops
  <2> QED
    BY <2>1, <2>2
<1>4. k0 = k /\ type_of(k, ip) = "DIR"
  <2>1. c \in BOOLEAN
    OBVIOUS
  <2>2. k0 = k /\ c
    <3> HIDE DEF c
    <3> QED
      BY <1>3, <2>1, CheckIs
  <2> QED
    BY <2>2
<1> HIDE DEF k0
<1>5. Good(r1.k) /\ Calm(k, r1.k)
  BY <1>2, <1>3, <1>4, IwriteIs
<1> HIDE DEF r1
<1>6. active(r1.k, ip) /\ type_of(r1.k, ip) # "NONE"
  BY <1>4, <1>5, CalmOpen
<1>7. Good(r2.k) /\ Calm(r1.k, r2.k)
  BY <1>1, <1>2, <1>5, <1>6, IwriteIs
<1> QED
  BY <1>1, <1>5, <1>7, CalmTwice

\* A call has opened r.ip, or nothing.
Found(k, r) ==
  Good(r.k) /\ r.ip \in Ips /\ Held(k, r.k, r.ip) /\ NoneBut(r.k, r.ip)

LEMMA NothingFound ==
  ASSUME NEW k, Good(k), NoneBut(k, 0), NEW r, r.k = k, r.ip = 0
  PROVE  Found(k, r)
BY CalmSelf, CalmIsHeld, Sizes DEF Found, Good, Sound

\* A new entry in the directory parent.
LEMMA LinkNew ==
  ASSUME NEW k, Good(k), NoneBut(k, 0), NEW parent \in Slots, active(k, parent),
         type_of(k, parent) # "NONE", NEW off \in Nat, NEW name \in Names,
         NEW type \in {"FILE", "DIR", "DEV"},
         NEW r, r = link_new(dialloc(k, type), parent, off, name), ~ Stopped(r.k)
  PROVE  Found(k, r) /\ r.ip # 0
<1> DEFINE new == dialloc(k, type)
           m == new.k
           e == <<dirent(new.no, name)>>
           w == iwrite(m, parent, off, e)
           n == w.k
<1>1. r = iget(n, new.no)
  BY DEF link_new
<1>2. ~ Stopped(m) /\ ~ Stopped(n)
  <2>1. Stopped(m) => Stopped(n)
    BY ReadStops
  <2>2. Stopped(n) => Stopped(r.k)
    BY <1>1, InodeStops
  <2> QED
    BY <2>1, <2>2
<1>3. new.no \in Inos /\ Good(m) /\ m.inodes = k.inodes /\ m.files = k.files
  BY <1>2, DiallocIs
<1> HIDE DEF new, m
<1>4. e \in Seq(data_of(m, parent))
  BY <1>3, CellType, OneEntry, Sizes
<1> HIDE DEF e
<1>5. active(m, parent) /\ type_of(m, parent) # "NONE"
  BY <1>3 DEF active, type_of
<1>6. Good(n) /\ Calm(m, n)
  BY <1>2, <1>3, <1>4, <1>5, IwriteIs
<1>7. NoneBut(m, 0) /\ Held(k, m, 0)
  <2>1. \A i \in Slots : i # 0
    BY Sizes
  <2>2. k \in Kernel
    BY DEF Good, Sound
  <2> QED
    BY <1>3, <2>1, <2>2, RefTypes DEF NoneBut, Held, active, type_of, one
<1> HIDE DEF n
<1>8. NoneBut(n, 0) /\ Held(k, n, 0)
  BY <1>3, <1>6, <1>7, CalmIsHeld, HeldThenCalm DEF Good, Sound
<1>9. r.ip \in Slots /\ Good(r.k) /\ Held(n, r.k, r.ip) /\ NoneBut(r.k, r.ip)
  BY <1>1, <1>3, <1>6, <1>8, IgetIs
<1>10. Held(k, r.k, r.ip)
  BY <1>8, <1>9, HeldTwice DEF Good, Sound
<1> QED
  BY <1>9, <1>10, Sizes DEF Found

LEMMA LookupNewIs ==
  ASSUME NEW k, Good(k), NoneBut(k, 0), NEW parent \in Slots, active(k, parent),
         type_of(k, parent) # "NONE", NEW off \in Nat, NEW name \in Names,
         NEW type \in {"FILE", "DIR", "DEV"},
         NEW r, r = lookup_new(link_new(dialloc(k, type), parent, off, name), parent, type, off),
         ~ Stopped(r.k)
  PROVE  Found(k, r) /\ r.off = off
<1> DEFINE l == link_new(dialloc(k, type), parent, off, name)
<1>1. /\ r.ip = l.ip /\ r.off = off
      /\ r.k = IF type = "DIR" THEN idirinit(l.k, l.ip, parent) ELSE l.k
  BY DEF lookup_new
<1>2. ~ Stopped(l.k)
  <2> HIDE DEF l
  <2> QED
    BY <1>1, IdirinitStops
<1>3. Found(k, l) /\ l.ip # 0
  BY <1>2, LinkNew
<1> HIDE DEF l
<1>4. l.ip \in Slots /\ Good(l.k) /\ Held(k, l.k, l.ip) /\ NoneBut(l.k, l.ip)
  BY <1>3, Sizes DEF Found
<1>5. active(l.k, l.ip) /\ active(l.k, parent)
  BY <1>4, HeldActive DEF Good, Sound
<1>6. Good(r.k) /\ Calm(l.k, r.k)
  <2>1. CASE type = "DIR"
    <3>1. r.k = idirinit(l.k, l.ip, parent)
      BY <1>1, <2>1
    <3> QED
      BY <1>4, <1>5, <3>1, IdirinitIs
  <2>2. CASE type # "DIR"
    BY <1>1, <1>4, <2>2, CalmSelf
  <2> QED
    BY <2>1, <2>2
<1>7. Held(k, r.k, l.ip) /\ NoneBut(r.k, l.ip)
  BY <1>4, <1>6, HeldThenCalm, CalmIsHeld DEF Good, Sound
<1> QED
  BY <1>1, <1>4, <1>6, <1>7, Sizes DEF Found

LEMMA SeqParts ==
  ASSUME NEW T, NEW s \in Seq(T)
  PROVE  /\ DOMAIN s = 1 .. Len(s) /\ Len(s) \in Nat
         /\ \A i \in DOMAIN s : i \in Nat /\ i >= 1 /\ s[i] \in T
OBVIOUS

LEMMA LookupAmongIs ==
  ASSUME NEW k, Good(k), NoneBut(k, 0), NEW parent \in Slots, active(k, parent),
         type_of(k, parent) # "NONE", NEW name \in Names, NEW type \in Types,
         NEW ents \in Seq(Data(TRUE)),
         NEW r, r = lookup_among(k, ents, parent, name, type), ~ Stopped(r.k)
  PROVE  Found(k, r) /\ r.off \in Nat
<1> DEFINE hit == {i \in DOMAIN ents : ents[i].inode # 0 /\ ents[i].name = name}
           holes == {i \in DOMAIN ents : ents[i].inode = 0}
           empty == IF holes = {} THEN size_of(k, parent) ELSE Min(holes) - 1
<1>0. /\ DOMAIN ents = 1 .. Len(ents) /\ Len(ents) \in Nat
      /\ \A i \in DOMAIN ents : i \in Nat /\ i >= 1 /\ ents[i] \in Data(TRUE)
  BY SeqParts
<1>1. hit \in SUBSET Nat /\ holes \in SUBSET Nat
  BY <1>0
<1>2. empty \in Nat
  <2>1. CASE holes = {}
    BY <2>1, OpenInode DEF Good
  <2>2. CASE holes # {}
    <3>1. Min(holes) \in holes
      <4> HIDE DEF holes
      <4> QED
        BY <1>1, <2>2, MinIs
    <3>2. Min(holes) \in Nat /\ Min(holes) >= 1
      <4> DEFINE x == Min(holes)
      <4>1. x \in holes
        BY <3>1
      <4> HIDE DEF x
      <4> QED
        BY <1>0, <4>1 DEF x
    <3> QED
      BY <2>2, <3>2
  <2> QED
    BY <2>1, <2>2
<1>3. CASE hit # {}
  <2> DEFINE x == Min(hit)
             i == iget(k, ents[x].inode)
  <2>1. x \in hit
    <3> HIDE DEF hit
    <3> QED
      BY <1>1, <1>3, MinIs
  <2>2. r = lookup_hit(i, x - 1)
    BY <1>3 DEF lookup_among
  <2> HIDE DEF x
  <2>3. x \in Nat /\ x >= 1 /\ ents[x] \in Data(TRUE)
    BY <1>0, <2>1
  <2>4. ents[x].inode \in Inos
    BY <2>3 DEF Data
  <2>5. r.k = i.k /\ r.ip = i.ip /\ r.off = x - 1
    BY <2>2 DEF lookup_hit
  <2>6. i.ip \in Slots /\ Good(i.k) /\ Held(k, i.k, i.ip) /\ NoneBut(i.k, i.ip)
    <3> DEFINE no == ents[x].inode
    <3>1. no \in Inos /\ ~ Stopped(iget(k, no).k)
      BY <2>4, <2>5
    <3> HIDE DEF no
    <3>2. \A g : g = iget(k, no) => g.ip \in Slots /\ Good(g.k) /\ Held(k, g.k, g.ip) /\ NoneBut(g.k, g.ip)
      BY <3>1, IgetIs
    <3> QED
      BY <3>2 DEF no
  <2> HIDE DEF i
  <2> QED
    BY <2>3, <2>5, <2>6, Sizes DEF Found
<1>4. CASE hit = {} /\ type = "NONE"
  <2>1. r = [k |-> k, ip |-> 0, off |-> 0]
    BY <1>4 DEF lookup_among
  <2> QED
    BY <2>1, NothingFound
<1>5. CASE hit = {} /\ type # "NONE"
  <2>1. r = lookup_new(link_new(dialloc(k, type), parent, empty, name), parent, type, empty)
    BY <1>5 DEF lookup_among
  <2>2. type \in {"FILE", "DIR", "DEV"}
    BY <1>5 DEF Types
  <2> HIDE DEF empty
  <2> QED
    BY <1>2, <2>1, <2>2, LookupNewIs
<1> QED
  BY <1>3, <1>4, <1>5

\* ilookup opens what the name leads to, if there is such an inode.
LEMMA LookupIs ==
  ASSUME NEW k, Good(k), NoneBut(k, 0), NEW parent \in Slots, active(k, parent),
         NEW name \in Names, NEW type \in Types,
         NEW r, r = ilookup(k, parent, name, type), ~ Stopped(r.k)
  PROVE  Found(k, r) /\ r.off \in Nat
<1> DEFINE c == type_of(k, parent) = "DIR"
           k0 == check(k, c)
           len == size_of(k, parent)
           d == iread(k0, parent, 0, len)
<1>1. r = lookup_among(d.k, d.buf, parent, name, type)
  BY DEF ilookup
<1>2. ~ Stopped(d.k) /\ ~ Stopped(k0)
  <2>1. Stopped(d.k) => Stopped(r.k)
    BY <1>1, LookupAmongStops
  <2>2. Stopped(k0) => Stopped(d.k)
    BY ReadStops
  <2> QED
    BY <2>1, <2>2
<1>3. k0 = k /\ c
  <2>1. c \in BOOLEAN
    OBVIOUS
  <2> HIDE DEF c
  <2> QED
    BY <1>2, <2>1, CheckIs
<1>4. type_of(k, parent) = "DIR" /\ len \in Nat /\ fits_in(k, parent, 0, len)
  BY <1>3, OpenInode DEF Good, fits_in
<1> HIDE DEF k0, len, c
<1>5. d.k = k /\ d.buf \in Seq(data_of(k, parent))
  BY <1>3, <1>4, IreadIs
<1>6. data_of(k, parent) = Data(TRUE)
  BY <1>4 DEF data_of
<1> HIDE DEF d
<1>7. type_of(k, parent) # "NONE"
  BY <1>4
<1> QED
  BY <1>1, <1>5, <1>6, <1>7, LookupAmongIs

-----------------------------------------------------------------------------
(***************************************************************************)
(* Opening a path.                                                         *)
(***************************************************************************)

Path == [abs : BOOLEAN, elems : Seq(Names)]

\* Where iopen_parent starts from.
from(k, c, path) == IF path.abs THEN iget(k, root) ELSE [k |-> idup(k, c), ip |-> c]

\* The rounds of iopen_parent.
LEMMA ParentRounds ==
  ASSUME NEW k, NEW c, NEW path, path.elems # <<>>, NEW n \in Nat, n = Len(path.elems) - 1,
         NEW start, start = from(k, c, path)
  PROVE  \E done : /\ done[0] = dir_only(start)
                   /\ \A j \in 1 .. n : done[j] = enter(done[j - 1], path.elems[j])
                   /\ iopen_parent(k, c, path) = done[n]
<1> DEFINE body(f) == [i \in 0 .. n |-> IF i = 0 THEN dir_only(start) ELSE enter(f[i - 1], path.elems[i])]
           Upto(f, i) == f[0] = dir_only(start) /\ \A j \in 1 .. i : f[j] = enter(f[j - 1], path.elems[j])
           good == {i \in 0 .. n : \E f : Upto(f, i)}
           done == CHOOSE f : f = body(f)
<1>1. 0 \in good
  <2> DEFINE g == [j \in {0} |-> dir_only(start)]
  <2>1. Upto(g, 0)
    OBVIOUS
  <2> HIDE DEF g, Upto
  <2> QED
    BY <2>1
<1>2. ASSUME NEW i \in 1 .. n, i - 1 \in good PROVE i \in good
  <2>1. PICK f : Upto(f, i - 1)
    BY <1>2
  <2> DEFINE g == [j \in 0 .. i |-> IF j = i THEN enter(f[i - 1], path.elems[i]) ELSE f[j]]
  <2>2. g[i] = enter(f[i - 1], path.elems[i]) /\ \A j \in 0 .. i - 1 : g[j] = f[j]
    OBVIOUS
  <2> HIDE DEF g
  <2>3. Upto(g, i)
    <3>1. g[0] = dir_only(start)
      BY <2>1, <2>2
    <3>2. ASSUME NEW j \in 1 .. i PROVE g[j] = enter(g[j - 1], path.elems[j])
      <4>1. g[j - 1] = f[j - 1]
        BY <2>2
      <4>2. CASE j = i
        BY <2>2, <4>1, <4>2
      <4>3. CASE j # i
        <5>1. g[j] = f[j] /\ j \in 1 .. i - 1
          BY <2>2, <4>3
        <5> QED
          BY <2>1, <4>1, <5>1
      <4> QED
        BY <4>2, <4>3
    <3> QED
      BY <3>1, <3>2
  <2> HIDE DEF Upto
  <2> QED
    BY <2>3
<1>3. \E f : Upto(f, n)
  <2> HIDE DEF good
  <2>1. \A i \in 0 .. n : i \in good
    BY <1>1, <1>2, RoundByRound
  <2>2. n \in good
    BY <2>1
  <2> QED
    BY <2>2 DEF good
<1>4. PICK f : Upto(f, n)
  BY <1>3
<1> DEFINE g == [j \in 0 .. n |-> f[j]]
<1>5. g = body(g)
  BY <1>4
<1> HIDE DEF g
<1>6. done = body(done)
  <2> HIDE DEF body
  <2> QED
    BY <1>5
<1>7. iopen_parent(k, c, path) = done[n]
  BY DEF iopen_parent, from
<1> HIDE DEF done
<1>8. done[0] = dir_only(start)
  BY <1>6
<1>9. ASSUME NEW j \in 1 .. n PROVE done[j] = enter(done[j - 1], path.elems[j])
  <2>1. j \in 0 .. n /\ j # 0
    OBVIOUS
  <2> QED
    BY <1>6, <2>1
<1> QED
  BY <1>7, <1>8, <1>9

LEMMA LeaveStops ==
  ASSUME NEW r, Stopped(r.k)
  PROVE  /\ \A dir : Stopped(leave(r, dir).k)
         /\ Stopped(dir_only(r).k)
         /\ \A name : Stopped(enter(r, name).k)
         /\ \A name, type : Stopped(iopen_in(r, name, type).k)
<1>1. \A s, dir : Stopped(s.k) => Stopped(leave(s, dir).k)
  BY InodeStops DEF leave
<1>2. \A s : Stopped(s.k) => Stopped(dir_only(s).k)
  BY InodeStops DEF dir_only
<1>3. \A name, type : Stopped(leave(ilookup(r.k, r.ip, name, type), r.ip).k)
  <2> TAKE name, type
  <2> DEFINE s == ilookup(r.k, r.ip, name, type)
  <2>1. Stopped(s.k)
    BY LookupStops
  <2> HIDE DEF s
  <2> QED
    BY <1>1, <2>1 DEF s
<1>4. \A name : Stopped(enter(r, name).k)
  <2> TAKE name
  <2> DEFINE s == leave(ilookup(r.k, r.ip, name, "NONE"), r.ip)
  <2>1. Stopped(s.k)
    BY <1>3
  <2> HIDE DEF s
  <2> QED
    BY <1>2, <2>1 DEF enter, s
<1>5. \A name, type : Stopped(iopen_in(r, name, type).k)
  BY <1>3 DEF iopen_in
<1> QED
  BY <1>1, <1>2, <1>4, <1>5

\* A directory that has been opened is closed, after something else has been.
LEMMA LeaveIs ==
  ASSUME NEW k \in Kernel, NEW a, Found(k, a), a.ip # 0, type_of(a.k, a.ip) # "NONE",
         NEW r, Found(a.k, r), NEW l, l = leave(r, a.ip)
  PROVE  Found(k, l)
<1> DEFINE m == a.k
           p == a.ip
           n == l.k
<1>1. l.ip = r.ip /\ n = iclose(r.k, p)
  BY DEF leave
<1>2. p \in Slots /\ Good(m) /\ Held(k, m, p) /\ NoneBut(m, p)
  BY Sizes DEF Found
<1>3. r.ip \in Ips /\ Good(r.k) /\ Held(m, r.k, r.ip) /\ NoneBut(r.k, r.ip)
  BY DEF Found
<1> HIDE DEF m, p, n
<1>4. active(m, p) /\ active(r.k, p)
  BY <1>2, <1>3, HeldActive DEF Good, Sound
<1>5. Good(n) /\ Dropped(r.k, n, p)
  BY <1>1, <1>2, <1>3, <1>4, IcloseIs
<1>6. NoneBut(n, r.ip)
  BY <1>3, <1>5, DroppedNone DEF Good, Sound
<1>7. Held(k, n, r.ip)
  BY <1>2, <1>3, <1>5, HeldThenDropped
<1> QED
  BY <1>1, <1>3, <1>5, <1>6, <1>7 DEF Found, n

\* What has been opened is closed again.
LEMMA CloseFound ==
  ASSUME NEW k \in Kernel, NEW r, Found(k, r), r.ip # 0, NEW n, n = iclose(r.k, r.ip)
  PROVE  Good(n) /\ Held(k, n, 0) /\ NoneBut(n, 0)
<1> DEFINE m == r.k
           p == r.ip
<1>1. p \in Slots /\ Good(m) /\ Held(k, m, p) /\ NoneBut(m, p) /\ n = iclose(m, p)
  BY Sizes DEF Found
<1> HIDE DEF m, p
<1>2. active(m, p)
  BY <1>1, HeldActive
<1>3. Good(n) /\ Dropped(m, n, p)
  BY <1>1, <1>2, IcloseIs
<1>4. NoneBut(n, 0)
  BY <1>1, <1>3, DroppedNone DEF Good, Sound
<1>5. Held(m, m, 0)
  BY <1>1, CalmSelf, CalmIsHeld DEF Good, Sound
<1>6. Held(k, n, 0)
  BY <1>1, <1>3, <1>5, HeldThenDropped
<1> QED
  BY <1>3, <1>4, <1>6

\* A directory has been opened, or nothing.
FoundDir(k, r) == Found(k, r) /\ (r.ip # 0 => type_of(r.k, r.ip) = "DIR")

LEMMA DirOnlyIs ==
  ASSUME NEW k \in Kernel, NEW r, Found(k, r), NEW d, d = dir_only(r)
  PROVE  FoundDir(k, d)
<1>1. CASE r.ip = 0 \/ type_of(r.k, r.ip) = "DIR"
  <2>1. d = r
    BY <1>1 DEF dir_only
  <2> QED
    BY <1>1, <2>1 DEF FoundDir
<1>2. CASE ~ (r.ip = 0 \/ type_of(r.k, r.ip) = "DIR")
  <2>1. d.k = iclose(r.k, r.ip) /\ d.ip = 0
    BY <1>2 DEF dir_only
  <2>2. Good(d.k) /\ Held(k, d.k, 0) /\ NoneBut(d.k, 0)
    BY <1>2, <2>1, CloseFound
  <2> QED
    BY <2>1, <2>2, Sizes DEF Found, FoundDir
<1> QED
  BY <1>1, <1>2

\* Something is looked up in the directory a.ip, which is then closed.
LEMMA LookedUp ==
  ASSUME NEW k \in Kernel, NEW a, FoundDir(k, a), a.ip # 0, NEW name \in Names, NEW type \in Types,
         NEW l, l = leave(ilookup(a.k, a.ip, name, type), a.ip), ~ Stopped(l.k)
  PROVE  Found(k, l)
<1> DEFINE r == ilookup(a.k, a.ip, name, type)
<1>1. Found(k, a) /\ type_of(a.k, a.ip) = "DIR"
  BY DEF FoundDir
<1>2. ~ Stopped(r.k)
  <2> HIDE DEF r
  <2> QED
    BY LeaveStops DEF r
<1>3. a.ip \in Slots /\ Good(a.k) /\ active(a.k, a.ip) /\ NoneBut(a.k, 0)
  <2>1. a.ip \in Slots /\ Good(a.k) /\ Held(k, a.k, a.ip) /\ NoneBut(a.k, a.ip)
    BY <1>1, Sizes DEF Found
  <2> DEFINE m == a.k
             p == a.ip
  <2>2. p \in Slots /\ Good(m) /\ Held(k, m, p) /\ NoneBut(m, p) /\ type_of(m, p) = "DIR"
    BY <1>1, <2>1
  <2> HIDE DEF m, p
  <2>3. active(m, p) /\ NoneBut(m, 0)
    BY <2>2, HeldActive, NoneButTyped
  <2> QED
    BY <2>1, <2>3 DEF m, p
<1>4. Found(a.k, r)
  BY <1>2, <1>3, LookupIs
<1> HIDE DEF r
<1> QED
  BY <1>1, <1>4, LeaveIs DEF r

LEMMA EnterIs ==
  ASSUME NEW k \in Kernel, NEW a, FoundDir(k, a), NEW name \in Names,
         NEW d, d = enter(a, name), ~ Stopped(d.k)
  PROVE  FoundDir(k, d)
<1>1. CASE a.ip = 0
  BY <1>1 DEF enter
<1>2. CASE a.ip # 0
  <2> DEFINE l == leave(ilookup(a.k, a.ip, name, "NONE"), a.ip)
  <2>1. d = dir_only(l)
    BY <1>2 DEF enter
  <2>2. ~ Stopped(l.k)
    <3> HIDE DEF l
    <3> QED
      BY <2>1, LeaveStops
  <2>3. "NONE" \in Types
    BY DEF Types
  <2>4. Found(k, l)
    BY <1>2, <2>2, <2>3, LookedUp
  <2> HIDE DEF l
  <2> QED
    BY <2>1, <2>4, DirOnlyIs
<1> QED
  BY <1>1, <1>2

can_start(k, c, path) == path.abs \/ (c \in Slots /\ active(k, c))

LEMMA StartIs ==
  ASSUME NEW k, Good(k), NoneBut(k, 0), root \in Inos, NEW path \in Path, NEW c,
         can_start(k, c, path), NEW r, r = from(k, c, path), ~ Stopped(r.k)
  PROVE  Found(k, r) /\ r.ip # 0
<1>1. CASE path.abs
  <2>1. r = iget(k, root)
    BY <1>1 DEF from
  <2>2. r.ip \in Slots /\ Good(r.k) /\ Held(k, r.k, r.ip) /\ NoneBut(r.k, r.ip)
    BY <2>1, IgetIs
  <2> QED
    BY <2>2, Sizes DEF Found
<1>2. CASE ~ path.abs
  <2>1. r.k = idup(k, c) /\ r.ip = c /\ c \in Slots /\ active(k, c)
    BY <1>2 DEF from, can_start
  <2>2. Good(r.k) /\ Held(k, r.k, c) /\ NoneBut(r.k, 0)
    BY <2>1, IdupIs
  <2>3. NoneBut(r.k, c)
    BY <2>2, Sizes DEF NoneBut
  <2> QED
    BY <2>1, <2>2, <2>3, Sizes DEF Found
<1> QED
  BY <1>1, <1>2

LEMMA StartStops ==
  ASSUME NEW k, Stopped(k), NEW c, NEW path
  PROVE  Stopped(from(k, c, path).k)
BY InodeStops DEF from

LEMMA PathParts ==
  ASSUME NEW path \in Path
  PROVE  /\ path.elems \in Seq(Names) /\ path.abs \in BOOLEAN
         /\ path.elems # <<>> => /\ Len(path.elems) - 1 \in Nat /\ Last(path.elems) \in Names
                                 /\ \A j \in 1 .. Len(path.elems) - 1 : path.elems[j] \in Names
<1>1. path.elems \in Seq(Names) /\ path.abs \in BOOLEAN
  BY DEF Path
<1> DEFINE e == path.elems
<1>2. e \in Seq(Names)
  BY <1>1
<1> HIDE DEF e
<1>3. e # <<>> => Len(e) - 1 \in Nat /\ e[Len(e)] \in Names
  BY <1>2
<1>4. \A j \in 1 .. Len(e) - 1 : e[j] \in Names
  BY <1>2
<1> QED
  BY <1>1, <1>3, <1>4 DEF e, Last

\* The directory that the last name of a path is in.
LEMMA ParentIs ==
  ASSUME NEW k, Good(k), NoneBut(k, 0), root \in Inos, NEW path \in Path, NEW c,
         can_start(k, c, path), NEW a, a = iopen_parent(k, c, path), ~ Stopped(a.k)
  PROVE  FoundDir(k, a)
<1> DEFINE start == from(k, c, path)
<1>0. k \in Kernel
  BY DEF Good, Sound
<1>1. ~ Stopped(start.k) => Found(k, start) /\ start.ip # 0
  BY StartIs
<1>2. CASE path.elems = <<>>
  <2>1. a.k = iclose(start.k, start.ip) /\ a.ip = 0
    BY <1>2 DEF iopen_parent, from
  <2> HIDE DEF start
  <2>2. ~ Stopped(start.k)
    BY <2>1, InodeStops
  <2>3. Good(a.k) /\ Held(k, a.k, 0) /\ NoneBut(a.k, 0)
    BY <1>0, <1>1, <2>1, <2>2, CloseFound
  <2> QED
    BY <2>1, <2>3, Sizes DEF FoundDir, Found
<1>3. CASE path.elems # <<>>
  <2> DEFINE n == Len(path.elems) - 1
  <2>1. n \in Nat /\ \A j \in 1 .. n : path.elems[j] \in Names
    BY <1>3, PathParts
  <2>2. start = from(k, c, path)
    OBVIOUS
  <2> HIDE DEF n, start
  <2>3. PICK done : /\ done[0] = dir_only(start)
                    /\ \A j \in 1 .. n : done[j] = enter(done[j - 1], path.elems[j])
                    /\ iopen_parent(k, c, path) = done[n]
    BY <1>3, <2>1, <2>2, ParentRounds DEF n
  <2> DEFINE fine(d) == ~ Stopped(d.k) => FoundDir(k, d)
             good == {j \in 0 .. n : fine(done[j])}
  <2>4. 0 \in good
    <3>1. fine(dir_only(start))
      BY <1>0, <1>1, LeaveStops, DirOnlyIs
    <3> QED
      BY <2>1, <2>3, <3>1
  <2>5. ASSUME NEW j \in 1 .. n, j - 1 \in good PROVE j \in good
    <3> DEFINE d == done[j - 1]
               e == done[j]
               name == path.elems[j]
    <3>1. fine(d) /\ e = enter(d, name) /\ name \in Names
      BY <2>1, <2>3, <2>5
    <3> HIDE DEF d, e, name
    <3>2. fine(e)
      <4> SUFFICES ASSUME ~ Stopped(e.k) PROVE FoundDir(k, e)
        OBVIOUS
      <4>1. ~ Stopped(d.k)
        BY <3>1, LeaveStops
      <4> QED
        BY <1>0, <3>1, <4>1, EnterIs
    <3> QED
      BY <3>2 DEF e
  <2>6. fine(done[n])
    <3> HIDE DEF good
    <3>1. \A j \in 0 .. n : j \in good
      BY <2>1, <2>4, <2>5, RoundByRound
    <3>2. n \in good
      BY <2>1, <3>1
    <3> QED
      BY <3>2 DEF good
  <2> QED
    BY <2>3, <2>6
<1> QED
  BY <1>2, <1>3

LEMMA ParentStops ==
  ASSUME NEW k, Stopped(k), NEW path \in Path, NEW c
  PROVE  Stopped(iopen_parent(k, c, path).k)
<1> DEFINE start == from(k, c, path)
<1>1. Stopped(start.k)
  BY StartStops
<1>2. CASE path.elems = <<>>
  <2>1. iopen_parent(k, c, path).k = iclose(start.k, start.ip)
    BY <1>2 DEF iopen_parent, from
  <2> HIDE DEF start
  <2> QED
    BY <1>1, <2>1, InodeStops
<1>3. CASE path.elems # <<>>
  <2> DEFINE n == Len(path.elems) - 1
  <2>1. n \in Nat
    BY <1>3, PathParts
  <2>2. start = from(k, c, path)
    OBVIOUS
  <2> HIDE DEF n, start
  <2>3. PICK done : /\ done[0] = dir_only(start)
                    /\ \A j \in 1 .. n : done[j] = enter(done[j - 1], path.elems[j])
                    /\ iopen_parent(k, c, path) = done[n]
    BY <1>3, <2>1, <2>2, ParentRounds DEF n
  <2> DEFINE good == {j \in 0 .. n : Stopped(done[j].k)}
  <2>4. 0 \in good
    BY <1>1, <2>1, <2>3, LeaveStops
  <2>5. ASSUME NEW j \in 1 .. n, j - 1 \in good PROVE j \in good
    BY <2>3, <2>5, LeaveStops
  <2>6. Stopped(done[n].k)
    <3> HIDE DEF good
    <3>1. \A j \in 0 .. n : j \in good
      BY <2>1, <2>4, <2>5, RoundByRound
    <3>2. n \in good
      BY <2>1, <3>1
    <3> QED
      BY <3>2 DEF good
  <2> QED
    BY <2>3, <2>6
<1> QED
  BY <1>2, <1>3

\* iopen opens or makes what a path leads to.
LEMMA IopenIs ==
  ASSUME NEW k, Good(k), NoneBut(k, 0), root \in Inos, NEW path \in Path, NEW c,
         can_start(k, c, path), NEW type \in Types,
         NEW r, r = iopen(k, c, path, type), ~ Stopped(r.k)
  PROVE  Found(k, r)
<1>0. k \in Kernel
  BY DEF Good, Sound
<1>1. CASE path.elems = <<>>
  <2>1. CASE path.abs
    <3>1. r = from(k, c, path)
      BY <1>1, <2>1 DEF iopen, from
    <3> QED
      BY <3>1, StartIs
  <2>2. CASE ~ path.abs
    <3>1. r = [k |-> k, ip |-> 0]
      BY <1>1, <2>2 DEF iopen
    <3> QED
      BY <3>1, NothingFound
  <2> QED
    BY <2>1, <2>2
<1>2. CASE path.elems # <<>>
  <2> DEFINE a == iopen_parent(k, c, path)
             name == Last(path.elems)
  <2>1. r = iopen_in(a, name, type) /\ name \in Names
    BY <1>2, PathParts DEF iopen
  <2>2. ~ Stopped(a.k)
    <3> HIDE DEF a, name
    <3> QED
      BY <2>1, LeaveStops
  <2>3. FoundDir(k, a)
    BY <2>2, ParentIs
  <2> HIDE DEF a, name
  <2>4. CASE a.ip = 0
    BY <2>1, <2>3, <2>4 DEF iopen_in, FoundDir
  <2>5. CASE a.ip # 0
    <3>1. r = leave(ilookup(a.k, a.ip, name, type), a.ip)
      BY <2>1, <2>5 DEF iopen_in
    <3> QED
      BY <1>0, <2>1, <2>3, <2>5, <3>1, LookedUp
  <2> QED
    BY <2>4, <2>5
<1> QED
  BY <1>1, <1>2

LEMMA IopenStops ==
  ASSUME NEW k, Stopped(k), NEW path \in Path, NEW c, NEW type
  PROVE  Stopped(iopen(k, c, path, type).k)
<1>1. Stopped(iopen_parent(k, c, path).k) /\ Stopped(iget(k, root).k)
  BY ParentStops, InodeStops
<1> QED
  BY <1>1, LeaveStops DEF iopen

-----------------------------------------------------------------------------
(***************************************************************************)
(* Removing a name.                                                        *)
(***************************************************************************)

LEMMA HeldThenNone ==
  ASSUME NEW k \in Kernel, NEW m, NEW n, NEW q, Held(k, m, q), Held(m, n, 0)
  PROVE  Held(k, n, q)
<1>1. \A i \in Slots : one(i = 0) = 0 /\ one(i = q) \in Nat
  BY Sizes DEF one
<1>2. \A i \in Slots : k.inodes[i].ref \in Nat
  BY RefTypes
<1>3. \A i \in Slots : n.inodes[i].ref = k.inodes[i].ref + one(i = q)
  BY <1>1, <1>2 DEF Held
<1>4. \A i \in Slots : active(k, i) => active(m, i)
  BY HeldActive
<1>5. n.files = k.files
  BY DEF Held
<1>6. \A i \in Slots : active(k, i) => n.inodes[i].no = k.inodes[i].no /\ type_of(n, i) = type_of(k, i)
  BY <1>4 DEF Held
<1> QED
  BY <1>3, <1>5, <1>6 DEF Held

LEMMA DelSet ==
  ASSUME NEW k, Good(k), NEW ip \in Slots, active(k, ip),
         NEW n, n = [k EXCEPT !.inodes[ip].del = TRUE]
  PROVE  /\ Good(n) /\ Held(k, n, 0)
         /\ \A q : NoneBut(k, q) => NoneBut(n, q)
<1> DEFINE x == [k.inodes[ip] EXCEPT !.del = TRUE]
<1>1. k \in Kernel
  BY DEF Good, Sound
<1>2. /\ x \in Inode /\ x.ref = k.inodes[ip].ref /\ x.no = k.inodes[ip].no
      /\ x.dinode = k.inodes[ip].dinode
  BY <1>1, RefTypes, InodeTypes DEF Inode
<1>3. n = put_inode(k, ip, x)
  BY DEF put_inode
<1> HIDE DEF x
<1>4. SlotFits(k, ip, x)
  BY <1>2 DEF Good, Sound, Sync, Distinct, SlotFits
<1> DEFINE m == n
<1>5. m = put_inode(k, ip, x)
  BY <1>3
<1> HIDE DEF m
<1>6. /\ Good(m) /\ m.files = k.files
      /\ m.inodes[ip] = x /\ \A i \in Slots : i # ip => m.inodes[i] = k.inodes[i]
  BY <1>2, <1>4, <1>5, SlotWritten
<1>7. \A i \in Slots : /\ m.inodes[i].ref = k.inodes[i].ref /\ m.inodes[i].no = k.inodes[i].no
                       /\ type_of(m, i) = type_of(k, i) /\ i # 0 /\ k.inodes[i].ref \in Nat
  BY <1>1, <1>2, <1>6, RefTypes, Sizes DEF type_of
<1>8. Held(k, m, 0)
  BY <1>6, <1>7 DEF Held, one
<1>9. \A q : NoneBut(k, q) => NoneBut(m, q)
  BY <1>7 DEF NoneBut, active
<1> QED
  BY <1>6, <1>8, <1>9 DEF m

LEMMA RemoveStops ==
  ASSUME NEW r, Stopped(r.k), NEW dir
  PROVE  /\ Stopped(mark_removed(r, dir))
         /\ Stopped(remove_found(r, dir))
<1>1. Stopped(mark_removed(r, dir))
  BY SetStops, ReadStops DEF mark_removed
<1>2. \A k, i : Stopped(k) => Stopped(iclose(k, i))
  BY InodeStops
<1>3. \A k : Stopped(k) => Stopped(iclose(iclose(k, r.ip), dir)) /\ Stopped(iclose(k, dir))
  BY <1>2
<1> QED
  BY <1>1, <1>3 DEF remove_found

\* The entry at r.off of the directory is cleared, and the inode marked.
LEMMA MarkIs ==
  ASSUME NEW k, Good(k), NEW dir \in Slots, active(k, dir), type_of(k, dir) # "NONE",
         NEW r, Found(k, r), r.ip # 0, r.off \in Nat,
         NEW n, n = mark_removed(r, dir), ~ Stopped(n)
  PROVE  Good(n) /\ Held(k, n, r.ip) /\ NoneBut(n, r.ip)
<1> DEFINE ip == r.ip
           m == r.k
           d == [m EXCEPT !.inodes[ip].del = TRUE]
           e == <<cell(0)>>
           off == r.off
<1>0. k \in Kernel /\ n = iwrite(d, dir, off, e).k
  BY DEF mark_removed, Good, Sound
<1>1. ip \in Slots /\ Good(m) /\ Held(k, m, ip) /\ NoneBut(m, ip) /\ off \in Nat
  BY Sizes DEF Found
<1> HIDE DEF m, ip, off
<1>2. active(m, ip)
  BY <1>0, <1>1, HeldActive
<1>3. Good(d) /\ Held(m, d, 0) /\ NoneBut(d, ip)
  BY <1>1, <1>2, DelSet
<1>4. e \in Seq(data_of(d, dir))
  BY CellType, OneEntry, Sizes
<1> HIDE DEF d, e
<1>5. Held(k, d, ip)
  BY <1>0, <1>1, <1>3, HeldThenNone
<1>6. active(d, dir) /\ type_of(d, dir) # "NONE"
  BY <1>0, <1>5, HeldActive DEF Held
<1>7. Good(n) /\ Calm(d, n)
  BY <1>0, <1>1, <1>3, <1>4, <1>6, IwriteIs
<1>8. Held(k, n, ip) /\ NoneBut(n, ip)
  BY <1>0, <1>3, <1>5, <1>7, HeldThenCalm, CalmIsHeld DEF Good, Sound
<1> QED
  BY <1>7, <1>8 DEF ip

LEMMA RemoveFoundIs ==
  ASSUME NEW k \in Kernel, NEW a, FoundDir(k, a), a.ip # 0, NEW r, Found(a.k, r), r.off \in Nat,
         NEW n, n = remove_found(r, a.ip), ~ Stopped(n)
  PROVE  Good(n) /\ Held(k, n, 0) /\ NoneBut(n, 0)
<1> DEFINE m == a.k
           p == a.ip
           ip == r.ip
<1>1. Found(k, a) /\ type_of(m, p) = "DIR"
  BY DEF FoundDir
<1>2. p \in Slots /\ Good(m) /\ m \in Kernel /\ Held(k, m, p) /\ n = remove_found(r, p) /\ Found(m, r)
  BY <1>1, Sizes DEF Found, Good, Sound
<1>3. type_of(a.k, a.ip) # "NONE"
  BY <1>1
<1>4. ASSUME NEW q, Found(a.k, q), q.ip = 0, n = iclose(q.k, a.ip)
      PROVE  Good(n) /\ Held(k, n, 0) /\ NoneBut(n, 0)
  <2> DEFINE l == leave(q, a.ip)
  <2>1. l.k = n /\ l.ip = 0
    BY <1>4 DEF leave
  <2>2. Found(k, l)
    BY <1>1, <1>3, <1>4, LeaveIs
  <2> HIDE DEF l
  <2> QED
    BY <2>1, <2>2 DEF Found
<1> HIDE DEF m, p
<1>5. active(m, p)
  BY <1>2, HeldActive
<1>6. CASE ip = 0
  <2>1. n = iclose(r.k, p)
    BY <1>2, <1>6 DEF remove_found
  <2> QED
    BY <1>2, <1>4, <1>6, <2>1 DEF m, p
<1>7. CASE ip # 0
  <2> DEFINE busy == type_of(r.k, r.ip) = "DIR" /\ ~idirempty(r.k, r.ip)
             m2 == IF busy THEN r.k ELSE mark_removed(r, p)
             m3 == iclose(m2, ip)
  <2>1. n = iclose(m3, p)
    BY <1>2, <1>7 DEF remove_found
  <2>2. m2 = r.k \/ m2 = mark_removed(r, p)
    OBVIOUS
  <2> HIDE DEF busy, m2
  <2>3. ~ Stopped(m2)
    BY <2>1, InodeStops
  <2>4. Good(m2) /\ Held(m, m2, ip) /\ NoneBut(m2, ip) /\ ip \in Ips
    <3>1. ip \in Ips
      BY <1>2 DEF Found
    <3>2. CASE m2 = r.k
      BY <1>2, <3>1, <3>2 DEF Found
    <3>3. CASE m2 = mark_removed(r, p)
      <4>1. type_of(m, p) # "NONE"
        BY <1>1 DEF m, p
      <4>2. Good(m2) /\ Held(m, m2, r.ip) /\ NoneBut(m2, r.ip)
        BY <1>2, <1>5, <1>7, <2>3, <3>3, <4>1, MarkIs
      <4> QED
        BY <3>1, <4>2
    <3> QED
      BY <2>2, <3>2, <3>3
  <2> DEFINE q == [k |-> m2, ip |-> ip]
             q3 == [k |-> m3, ip |-> 0]
  <2>5. Found(m, q) /\ q.ip # 0 /\ m3 = iclose(q.k, q.ip)
    BY <1>7, <2>4 DEF Found
  <2> HIDE DEF q, m3
  <2>6. Good(m3) /\ Held(m, m3, 0) /\ NoneBut(m3, 0)
    BY <1>2, <2>5, CloseFound
  <2>7. Found(m, q3) /\ q3.ip = 0 /\ n = iclose(q3.k, p)
    BY <2>1, <2>6, Sizes DEF Found
  <2> HIDE DEF q3
  <2> QED
    BY <1>4, <2>7 DEF m, p
<1> QED
  BY <1>6, <1>7

\* iremove closes all it has opened.
LEMMA IremoveIs ==
  ASSUME NEW k, Good(k), NoneBut(k, 0), root \in Inos, NEW path \in Path, NEW c,
         can_start(k, c, path), NEW n, n = iremove(k, c, path), ~ Stopped(n)
  PROVE  Good(n) /\ Held(k, n, 0) /\ NoneBut(n, 0)
<1> DEFINE a == iopen_parent(k, c, path)
           name == Last(path.elems)
<1>0. k \in Kernel /\ n = remove_in(a, name)
  BY DEF Good, Sound, iremove
<1>1. \A i : Stopped(a.k) => Stopped(iclose(a.k, i))
  BY InodeStops
<1>2. ~ Stopped(a.k)
  <2> SUFFICES ASSUME Stopped(a.k) PROVE FALSE
    OBVIOUS
  <2> HIDE DEF a, name
  <2>1. \A r : Stopped(r.k) => Stopped(remove_found(r, a.ip))
    BY RemoveStops
  <2>2. Stopped(ilookup(a.k, a.ip, name, "NONE").k)
    BY LookupStops
  <2>3. Stopped(remove_found(ilookup(a.k, a.ip, name, "NONE"), a.ip))
    BY <2>1, <2>2
  <2> QED
    BY <1>0, <1>1, <2>3 DEF remove_in
<1>3. FoundDir(k, a)
  BY <1>2, ParentIs
<1>4. a.ip # 0 => name \in Names
  <2> SUFFICES ASSUME path.elems = <<>> PROVE a.ip = 0
    BY PathParts
  <2> QED
    BY DEF iopen_parent
<1> HIDE DEF a, name
<1>5. CASE a.ip = 0
  <2>1. n = a.k
    BY <1>0, <1>5 DEF remove_in
  <2> QED
    BY <1>3, <1>5, <2>1 DEF FoundDir, Found
<1>6. CASE a.ip # 0 /\ name \in {".", ".."}
  <2>1. n = iclose(a.k, a.ip)
    BY <1>0, <1>6 DEF remove_in
  <2> QED
    BY <1>0, <1>3, <1>6, <2>1, CloseFound DEF FoundDir
<1>7. CASE a.ip # 0 /\ name \notin {".", ".."}
  <2> DEFINE m == a.k
             p == a.ip
             r == ilookup(m, p, name, "NONE")
  <2>1. n = remove_found(r, p)
    BY <1>0, <1>7 DEF remove_in
  <2>2. ~ Stopped(r.k)
    <3> HIDE DEF r
    <3> QED
      BY <2>1, RemoveStops
  <2>3. p \in Slots /\ Good(m) /\ Held(k, m, p) /\ NoneBut(m, p) /\ type_of(m, p) = "DIR"
    BY <1>3, <1>7, Sizes DEF FoundDir, Found
  <2> HIDE DEF m, p
  <2>4. active(m, p) /\ NoneBut(m, 0) /\ "NONE" \in Types
    BY <1>0, <2>3, HeldActive, NoneButTyped DEF Types
  <2>5. Found(m, r) /\ r.off \in Nat
    BY <1>4, <1>7, <2>2, <2>3, <2>4, LookupIs
  <2> HIDE DEF r
  <2>6. Found(a.k, r) /\ n = remove_found(r, a.ip)
    BY <2>1, <2>5 DEF m, p
  <2> QED
    BY <1>0, <1>3, <1>7, <2>5, <2>6, RemoveFoundIs
<1> QED
  BY <1>5, <1>6, <1>7

-----------------------------------------------------------------------------
(***************************************************************************)
(* Open files, and the references they hold.                               *)
(***************************************************************************)

LEMMA CountChange ==
  ASSUME NEW S, IsFiniteSet(S), NEW T, NEW x, \A y : y # x => (y \in T <=> y \in S)
  PROVE  /\ Cardinality(S) \in Nat /\ Cardinality(T) \in Nat /\ IsFiniteSet(T)
         /\ Cardinality(T) = Cardinality(S) - one(x \in S) + one(x \in T)
<1>1. CASE x \in T
  <2>1. T = S \cup {x}
    BY <1>1
  <2> QED
    BY <1>1, <2>1, FS_AddElement, FS_CardinalityType DEF one
<1>2. CASE x \notin T
  <2>1. T = S \ {x}
    BY <1>2
  <2>2. /\ IsFiniteSet(T) /\ Cardinality(T) \in Nat /\ Cardinality(S) \in Nat
        /\ Cardinality(T) = IF x \in S THEN Cardinality(S) - 1 ELSE Cardinality(S)
    BY <2>1, FS_RemoveElement, FS_CardinalityType
  <2> QED
    BY <1>2, <2>2 DEF one
<1> QED
  BY <1>1, <1>2

\* The file x holds a reference to slot i.
on_slot(x, i) == x.ref > 0 /\ x.inode = i

files_on(k, i) == {f \in Files : on_slot(k.files[f], i)}

Owed(k, i) == Cardinality(files_on(k, i))

LEMMA OwedType ==
  ASSUME NEW k, NEW i
  PROVE  /\ IsFiniteSet(files_on(k, i)) /\ Owed(k, i) \in Nat
         /\ \A f \in Files : on_slot(k.files[f], i) => Owed(k, i) >= 1
<1>1. IsFiniteSet(Files) /\ files_on(k, i) \in SUBSET Files
  BY FS_Interval, Sizes DEF Files, files_on
<1>2. IsFiniteSet(files_on(k, i)) /\ Owed(k, i) \in Nat
  BY <1>1, FS_Subset, FS_CardinalityType DEF Owed
<1>3. ASSUME NEW f \in Files, on_slot(k.files[f], i) PROVE Owed(k, i) >= 1
  <2>1. files_on(k, i) # {}
    BY <1>3 DEF files_on
  <2>2. Owed(k, i) # 0
    BY <1>2, <2>1, FS_EmptySet DEF Owed
  <2> QED
    BY <1>2, <2>2
<1> QED
  BY <1>2, <1>3

LEMMA OwedPut ==
  ASSUME NEW k \in Kernel, NEW f \in Files, NEW x, NEW n, n.files = [k.files EXCEPT ![f] = x],
         NEW i
  PROVE  Owed(n, i) = Owed(k, i) - one(on_slot(k.files[f], i)) + one(on_slot(x, i))
<1>1. f \in 0 .. TOTAL_FILE /\ Files \subseteq 0 .. TOTAL_FILE
  BY Sizes DEF Files
<1>2. k.files \in [0 .. TOTAL_FILE -> File]
  BY KernelParts
<1>3. n.files[f] = x /\ \A g \in Files : g # f => n.files[g] = k.files[g]
  BY <1>1, <1>2
<1>4. \A g : g # f => (g \in files_on(n, i) <=> g \in files_on(k, i))
  BY <1>3 DEF files_on
<1>5. Cardinality(files_on(n, i)) = Cardinality(files_on(k, i)) - one(f \in files_on(k, i)) + one(f \in files_on(n, i))
  BY <1>4, OwedType, CountChange
<1>6. (f \in files_on(k, i) <=> on_slot(k.files[f], i)) /\ (f \in files_on(n, i) <=> on_slot(x, i))
  BY <1>3 DEF files_on
<1> QED
  BY <1>5, <1>6 DEF Owed, one

LEMMA OwedSame ==
  ASSUME NEW k, NEW n, n.files = k.files
  PROVE  \A i : Owed(n, i) = Owed(k, i)
BY DEF Owed, files_on

Counts == [Slots -> Nat]

\* Besides the open files there are c[i] references to slot i.
Counted(k, c) == \A i \in Slots : k.inodes[i].ref = Owed(k, i) + c[i]

plus(c, q) == [i \in Slots |-> c[i] + one(i = q)]
minus(c, q) == [i \in Slots |-> c[i] - one(i = q)]

LEMMA CountsType ==
  ASSUME NEW c \in Counts, NEW q
  PROVE  /\ plus(c, q) \in Counts
         /\ q \in Slots /\ c[q] > 0 => minus(c, q) \in Counts
         /\ plus(c, 0) = c
         /\ minus(plus(c, q), q) = c
<1>1. \A i \in Slots : c[i] \in Nat /\ one(i = q) \in 0 .. 1 /\ (one(i = 0) = 0)
  BY Sizes DEF Counts, one
<1>2. plus(c, q) \in Counts
  BY <1>1 DEF Counts, plus
<1>3. ASSUME q \in Slots, c[q] > 0 PROVE minus(c, q) \in Counts
  <2>1. \A i \in Slots : c[i] - one(i = q) \in Nat
    BY <1>1, <1>3 DEF one
  <2> QED
    BY <2>1 DEF Counts, minus
<1>4. plus(c, 0) = c
  BY <1>1 DEF Counts, plus
<1>5. minus(plus(c, q), q) = c
  <2>1. \A i \in Slots : plus(c, q)[i] - one(i = q) = c[i]
    BY <1>1 DEF plus
  <2> DEFINE d == plus(c, q)
  <2>2. \A i \in Slots : d[i] - one(i = q) = c[i]
    BY <2>1
  <2> HIDE DEF d
  <2>3. minus(d, q) = c
    BY <2>2 DEF minus, Counts
  <2> QED
    BY <2>3 DEF d
<1> QED
  BY <1>2, <1>3, <1>4, <1>5

LEMMA HeldCounted ==
  ASSUME NEW k \in Kernel, NEW n, NEW q, Held(k, n, q), NEW c \in Counts, Counted(k, c)
  PROVE  Counted(n, plus(c, q))
<1>1. \A i : Owed(n, i) = Owed(k, i) /\ Owed(k, i) \in Nat
  BY OwedSame, OwedType DEF Held
<1>2. \A i \in Slots : c[i] \in Nat /\ one(i = q) \in Nat
  BY DEF Counts, one
<1>3. \A i \in Slots : n.inodes[i].ref = k.inodes[i].ref + one(i = q)
  BY DEF Held
<1> QED
  BY <1>1, <1>2, <1>3 DEF Counted, plus

LEMMA DroppedCounted ==
  ASSUME NEW k \in Kernel, NEW n, NEW q, Dropped(k, n, q), NEW c \in Counts, Counted(k, c)
  PROVE  Counted(n, minus(c, q))
<1>1. \A i : Owed(n, i) = Owed(k, i) /\ Owed(k, i) \in Nat
  BY OwedSame, OwedType DEF Dropped
<1>2. \A i \in Slots : c[i] \in Nat /\ one(i = q) \in Nat
  BY DEF Counts, one
<1>3. \A i \in Slots : n.inodes[i].ref = k.inodes[i].ref - one(i = q)
  BY DEF Dropped
<1> QED
  BY <1>1, <1>2, <1>3 DEF Counted, minus

\* What an open file is: those that are written are files.
FileFits(k, x) ==
  x.ref > 0 => IF x.type = "FILE"
                 THEN x.inode \in Slots /\ (x.writable => type_of(k, x.inode) = "FILE")
                 ELSE x.inode = 0

FilesFit(k) == \A f \in Files : FileFits(k, k.files[f])

\* The kernel between two calls, when processes hold the references c.
Whole(k, c) == Good(k) /\ NoneBut(k, 0) /\ FilesFit(k) /\ Counted(k, c)

\* An inode that stays active stays the same.
Same(k, n) ==
  \A i \in Slots : active(k, i) /\ active(n, i) =>
    n.inodes[i].no = k.inodes[i].no /\ type_of(n, i) = type_of(k, i)

\* No inode is closed, or none is opened.
Kept(k, n) ==
  \A i \in Slots : active(k, i) =>
    active(n, i) /\ n.inodes[i].no = k.inodes[i].no /\ type_of(n, i) = type_of(k, i)
Fewer(k, n) ==
  \A i \in Slots : active(n, i) =>
    active(k, i) /\ n.inodes[i].no = k.inodes[i].no /\ type_of(n, i) = type_of(k, i)

LEMMA KeptFewer ==
  /\ \A k, n : Kept(k, n) => Same(k, n)
  /\ \A k, n : Fewer(k, n) => Same(k, n)
  /\ \A k, m, n : Kept(k, m) /\ Kept(m, n) => Kept(k, n)
  /\ \A k, m, n : Fewer(k, m) /\ Fewer(m, n) => Fewer(k, n)
  /\ \A k, m, n : Kept(k, m) /\ Fewer(m, n) => Same(k, n)
  /\ \A k, n : n.inodes = k.inodes => Kept(k, n) /\ Fewer(k, n)
BY DEF Kept, Fewer, Same, active, type_of

LEMMA HeldKept ==
  ASSUME NEW k \in Kernel, NEW n, NEW q, Held(k, n, q)
  PROVE  Kept(k, n)
BY HeldActive DEF Held, Kept

LEMMA DroppedFewer ==
  ASSUME NEW k \in Kernel, NEW n, NEW q, Dropped(k, n, q), n \in Kernel
  PROVE  Fewer(k, n)
<1> SUFFICES ASSUME NEW i \in Slots, active(n, i)
             PROVE  active(k, i) /\ n.inodes[i].no = k.inodes[i].no /\ type_of(n, i) = type_of(k, i)
  BY DEF Fewer
<1>1. /\ n.inodes[i].ref = k.inodes[i].ref - one(i = q) /\ one(i = q) \in 0 .. 1
      /\ k.inodes[i].ref \in Nat
  BY RefTypes DEF Dropped, one
<1>2. active(k, i)
  BY <1>1 DEF active
<1> QED
  BY <1>2 DEF Dropped

LEMMA CountedActive ==
  ASSUME NEW k \in Kernel, NEW c \in Counts, Counted(k, c), NEW i \in Slots
  PROVE  /\ c[i] > 0 => active(k, i)
         /\ \A f \in Files : on_slot(k.files[f], i) => active(k, i)
<1>1. k.inodes[i].ref = Owed(k, i) + c[i] /\ c[i] \in Nat /\ Owed(k, i) \in Nat
  BY OwedType DEF Counted, Counts
<1>2. \A f \in Files : on_slot(k.files[f], i) => Owed(k, i) >= 1
  BY OwedType
<1> QED
  BY <1>1, <1>2 DEF active

LEMMA FilesFitSame ==
  ASSUME NEW k \in Kernel, NEW n \in Kernel, FilesFit(k), n.files = k.files, Same(k, n),
         NEW c \in Counts, Counted(k, c), NEW d \in Counts, Counted(n, d)
  PROVE  FilesFit(n)
<1> SUFFICES ASSUME NEW f \in Files PROVE FileFits(n, n.files[f])
  BY DEF FilesFit
<1> DEFINE x == k.files[f]
<1>1. n.files[f] = x /\ FileFits(k, x)
  BY DEF FilesFit
<1>2. ASSUME x.ref > 0, x.inode \in Slots PROVE type_of(n, x.inode) = type_of(k, x.inode)
  <2>1. on_slot(k.files[f], x.inode) /\ on_slot(n.files[f], x.inode)
    BY <1>1, <1>2 DEF on_slot
  <2>2. active(k, x.inode) /\ active(n, x.inode)
    BY <1>2, <2>1, CountedActive
  <2> QED
    BY <1>2, <2>2 DEF Same
<1> HIDE DEF x
<1> QED
  BY <1>1, <1>2 DEF FileFits

\* A reference is taken, or given up.
LEMMA WholeHeld ==
  ASSUME NEW k, NEW c \in Counts, Whole(k, c), NEW n, Good(n), NEW q, Held(k, n, q), NoneBut(n, 0)
  PROVE  Whole(n, plus(c, q)) /\ Same(k, n) /\ Kept(k, n)
<1>1. k \in Kernel /\ n \in Kernel /\ Counted(k, c) /\ FilesFit(k)
  BY DEF Whole, Good, Sound
<1>2. Counted(n, plus(c, q)) /\ plus(c, q) \in Counts /\ Same(k, n) /\ n.files = k.files
  <2>1. Counted(n, plus(c, q)) /\ plus(c, q) \in Counts
    BY <1>1, HeldCounted, CountsType
  <2>2. Same(k, n) /\ n.files = k.files
    BY DEF Held, Same
  <2> QED
    BY <2>1, <2>2
<1>3. FilesFit(n)
  BY <1>1, <1>2, FilesFitSame
<1> QED
  BY <1>1, <1>2, <1>3, HeldKept DEF Whole

LEMMA WholeClosed ==
  ASSUME NEW k, NEW c \in Counts, Whole(k, c), NEW q \in Slots, c[q] > 0, NEW n, n = iclose(k, q)
  PROVE  Whole(n, minus(c, q)) /\ Fewer(k, n) /\ n.files = k.files
<1>1. k \in Kernel /\ Counted(k, c) /\ FilesFit(k) /\ Good(k) /\ NoneBut(k, 0)
  BY DEF Whole, Good, Sound
<1>2. active(k, q)
  BY <1>1, CountedActive
<1>3. Good(n) /\ Dropped(k, n, q)
  BY <1>1, <1>2, IcloseIs
<1>4. Counted(n, minus(c, q)) /\ minus(c, q) \in Counts /\ Same(k, n) /\ n.files = k.files /\ n \in Kernel
  <2>1. Counted(n, minus(c, q)) /\ minus(c, q) \in Counts
    BY <1>1, <1>3, DroppedCounted, CountsType
  <2>2. n.files = k.files
    BY <1>3 DEF Dropped
  <2>4. Same(k, n)
    BY <1>3 DEF Dropped, Same
  <2>3. n \in Kernel
    BY <1>3 DEF Good, Sound
  <2> QED
    BY <2>1, <2>2, <2>3, <2>4
<1>5. FilesFit(n)
  BY <1>1, <1>4, FilesFitSame
<1>6. NoneBut(n, 0)
  BY <1>1, <1>3, <1>4, DroppedNone
<1>7. Fewer(k, n)
  BY <1>1, <1>3, <1>4, DroppedFewer
<1> QED
  BY <1>3, <1>4, <1>5, <1>6, <1>7 DEF Whole


LEMMA FileTypes ==
  /\ free_file \in File /\ free_file.ref = 0 /\ free_file.type = "NONE" /\ free_file.inode = 0
  /\ \A x \in File : /\ \A r \in Nat : [x EXCEPT !.ref = r] \in File
                     /\ \A o \in Nat : [x EXCEPT !.offset = o] \in File
<1>1. free_file \in File /\ free_file.ref = 0 /\ free_file.type = "NONE" /\ free_file.inode = 0
  BY Sizes DEF free_file, File
<1>2. \A x \in File : /\ \A r \in Nat : [x EXCEPT !.ref = r] \in File
                     /\ \A o \in Nat : [x EXCEPT !.offset = o] \in File
  BY DEF File
<1> QED
  BY <1>1, <1>2

LEMMA FileParts ==
  ASSUME NEW k, Good(k), NEW f \in Files
  PROVE  /\ k.files[f] \in File /\ k.files[f].ref \in Nat /\ k.files[f].offset \in Nat
         /\ k.files[f].inode \in Ips /\ f \in 0 .. TOTAL_FILE
<1>1. f \in 0 .. TOTAL_FILE /\ k \in Kernel
  BY Sizes DEF Files, Good, Sound
<1>2. k.files[f] \in File
  BY <1>1, KernelParts
<1> QED
  BY <1>1, <1>2 DEF File

\* An entry of the file table is written.
LEMMA FileSet ==
  ASSUME NEW k, Good(k), NEW f \in Files, NEW x \in File, NEW n, n = put_file(k, f, x)
  PROVE  /\ Good(n) /\ n.inodes = k.inodes /\ n.disk = k.disk
         /\ n.files = [k.files EXCEPT ![f] = x] /\ n.files[f] = x
         /\ \A g \in Files : g # f => n.files[g] = k.files[g]
         /\ \A q : NoneBut(k, q) => NoneBut(n, q)
         /\ \A i : type_of(n, i) = type_of(k, i) /\ (active(n, i) <=> active(k, i))
<1>1. k \in Kernel /\ k.fault = "no" /\ f \in 0 .. TOTAL_FILE /\ Files \subseteq 0 .. TOTAL_FILE
  BY Sizes DEF Good, Sound, Files
<1>2. /\ n \in Kernel /\ n.fault = k.fault /\ n.disk = k.disk /\ n.inodes = k.inodes
      /\ n.files = [k.files EXCEPT ![f] = x]
  BY <1>1, SetFile
<1>3. Own(n) /\ DirCells(n) /\ FreeClean(n) /\ Solid(n)
  BY <1>2, SameDisk, SolidSame DEF Good, Sound
<1>4. Sync(n) /\ Distinct(n)
  BY <1>2 DEF Good, Sound, Sync, Distinct, active
<1>5. n.files[f] = x /\ \A g \in Files : g # f => n.files[g] = k.files[g]
  BY <1>1, <1>2, KernelParts
<1>6. \A q : NoneBut(k, q) => NoneBut(n, q)
  BY <1>2 DEF NoneBut, active, type_of
<1> QED
  BY <1>1, <1>2, <1>3, <1>4, <1>5, <1>6 DEF Good, Sound, type_of, active

LEMMA FilesFitPut ==
  ASSUME NEW k \in Kernel, NEW n \in Kernel, FilesFit(k), Same(k, n),
         NEW f \in Files, \A g \in Files : g # f => n.files[g] = k.files[g],
         FileFits(n, n.files[f]),
         NEW c \in Counts, Counted(k, c), NEW d \in Counts, Counted(n, d)
  PROVE  FilesFit(n)
<1> SUFFICES ASSUME NEW g \in Files, g # f PROVE FileFits(n, n.files[g])
  BY DEF FilesFit
<1> DEFINE x == k.files[g]
<1>1. n.files[g] = x /\ FileFits(k, x)
  BY DEF FilesFit
<1>2. ASSUME x.ref > 0, x.inode \in Slots PROVE type_of(n, x.inode) = type_of(k, x.inode)
  <2>1. on_slot(k.files[g], x.inode) /\ on_slot(n.files[g], x.inode)
    BY <1>1, <1>2 DEF on_slot
  <2>2. active(k, x.inode) /\ active(n, x.inode)
    BY <1>2, <2>1, CountedActive
  <2> QED
    BY <1>2, <2>2 DEF Same
<1> HIDE DEF x
<1> QED
  BY <1>1, <1>2 DEF FileFits

\* The entry f becomes x, which holds the same references.
LEMMA SameOwed ==
  ASSUME NEW k, NEW c \in Counts, Whole(k, c), NEW f \in Files, NEW x \in File,
         \A i \in Slots : on_slot(x, i) <=> on_slot(k.files[f], i),
         FileFits(k, x), NEW n, n = put_file(k, f, x)
  PROVE  /\ Whole(n, c) /\ Same(k, n) /\ n.files[f] = x /\ n.inodes = k.inodes
         /\ \A g \in Files : g # f => n.files[g] = k.files[g]
<1>1. Good(k) /\ NoneBut(k, 0) /\ FilesFit(k) /\ Counted(k, c) /\ k \in Kernel
  BY DEF Whole, Good, Sound
<1>2. /\ Good(n) /\ n.inodes = k.inodes /\ n.files = [k.files EXCEPT ![f] = x] /\ n.files[f] = x
      /\ \A g \in Files : g # f => n.files[g] = k.files[g]
      /\ NoneBut(n, 0)
      /\ \A i : type_of(n, i) = type_of(k, i)
  BY <1>1, FileSet
<1>3. \A i \in Slots : Owed(n, i) = Owed(k, i)
  <2> TAKE i \in Slots
  <2>1. Owed(n, i) = Owed(k, i) - one(on_slot(k.files[f], i)) + one(on_slot(x, i))
    BY <1>1, <1>2, OwedPut
  <2>2. one(on_slot(x, i)) = one(on_slot(k.files[f], i)) /\ one(on_slot(x, i)) \in Int
    BY DEF one
  <2>3. Owed(k, i) \in Nat
    BY OwedType
  <2> QED
    BY <2>1, <2>2, <2>3
<1>4. Counted(n, c)
  BY <1>1, <1>2, <1>3 DEF Counted
<1>5. Same(k, n)
  BY <1>2 DEF Same
<1>6. FileFits(n, n.files[f])
  BY <1>2 DEF FileFits
<1>7. FilesFit(n)
  BY <1>1, <1>2, <1>4, <1>5, <1>6, FilesFitPut DEF Good, Sound
<1> QED
  BY <1>2, <1>4, <1>5, <1>7 DEF Whole

\* fclose gives up a descriptor's reference to an open file; the last one closes
\* the inode.
LEMMA FcloseIs ==
  ASSUME NEW k, NEW c \in Counts, Whole(k, c), NEW f \in Files, k.files[f].ref > 0,
         NEW n, n = fclose(k, f)
  PROVE  /\ Whole(n, c) /\ Fewer(k, n)
         /\ \A g \in Files : n.files[g].ref = k.files[g].ref - one(g = f)
<1> DEFINE file == k.files[f]
           ip == file.inode
           k0 == IF file.ref = 1 /\ file.type = "FILE" THEN iclose(k, ip) ELSE k
           left == IF file.ref = 1 THEN free_file ELSE [file EXCEPT !.ref = @ - 1]
<1>1. n = put_file(k0, f, left)
  BY DEF fclose, put_file
<1>2. Good(k) /\ NoneBut(k, 0) /\ FilesFit(k) /\ Counted(k, c) /\ k \in Kernel
  BY DEF Whole, Good, Sound
<1>3. /\ file \in File /\ file.ref \in Nat /\ FileFits(k, file) /\ file.ref > 0
      /\ \A g \in Files : k.files[g].ref \in Nat
  BY <1>2, FileParts DEF FilesFit
<1>4. left \in File /\ left.ref = file.ref - 1
  <2>1. CASE file.ref = 1
    BY <2>1, FileTypes
  <2>2. CASE file.ref # 1
    <3>1. file.ref - 1 \in Nat
      BY <1>3
    <3> QED
      BY <1>3, <2>2, <3>1, FileTypes DEF File
  <2> QED
    BY <2>1, <2>2
<1>5. ASSUME n.files[f] = left, \A g \in Files : g # f => n.files[g] = k.files[g]
      PROVE  \A g \in Files : n.files[g].ref = k.files[g].ref - one(g = f)
  <2> SUFFICES ASSUME NEW g \in Files PROVE n.files[g].ref = k.files[g].ref - one(g = f)
    OBVIOUS
  <2> HIDE DEF left
  <2>1. CASE g = f
    BY <1>3, <1>4, <1>5, <2>1 DEF one
  <2>2. CASE g # f
    BY <1>3, <1>5, <2>2 DEF one
  <2> QED
    BY <2>1, <2>2
<1>6. CASE file.ref = 1 /\ file.type = "FILE"
  <2>1. left = free_file /\ k0 = iclose(k, ip)
    BY <1>6
  <2>2. ip \in Slots /\ on_slot(k.files[f], ip)
    BY <1>3, <1>6 DEF FileFits, on_slot
  <2>3. \A i \in Slots : on_slot(file, i) <=> i = ip
    BY <1>3 DEF on_slot
  <2> HIDE DEF k0, left, ip, file
  <2>4. active(k, ip)
    BY <1>2, <2>2, CountedActive
  <2>5. Good(k0) /\ Dropped(k, k0, ip)
    BY <1>2, <2>1, <2>2, <2>4, IcloseIs
  <2>6. NoneBut(k0, 0) /\ k0.files = k.files /\ k0 \in Kernel
    BY <1>2, <2>5, DroppedNone DEF Good, Sound, Dropped
  <2>7. /\ Good(n) /\ n.inodes = k0.inodes /\ n.files = [k0.files EXCEPT ![f] = left] /\ n.files[f] = left
        /\ \A g \in Files : g # f => n.files[g] = k0.files[g]
        /\ NoneBut(n, 0)
        /\ \A i : type_of(n, i) = type_of(k0, i)
    BY <1>1, <1>4, <2>5, <2>6, FileSet
  <2>12. Fewer(k, n)
    <3>1. Fewer(k, k0)
      BY <1>2, <2>5, <2>6, DroppedFewer
    <3> QED
      BY <2>7, <3>1 DEF Fewer, active, type_of
  <2>8. Same(k, n)
    BY <2>12, KeptFewer
  <2>9. Counted(n, c)
    <3> SUFFICES ASSUME NEW i \in Slots PROVE n.inodes[i].ref = Owed(n, i) + c[i]
      BY DEF Counted
    <3>1. Owed(n, i) = Owed(k0, i) - one(on_slot(k0.files[f], i)) + one(on_slot(left, i))
      BY <2>6, <2>7, OwedPut
    <3>2. Owed(k0, i) = Owed(k, i) /\ Owed(k, i) \in Nat
      BY <2>6, OwedSame, OwedType
    <3>3. one(on_slot(k0.files[f], i)) = one(i = ip) /\ one(on_slot(left, i)) = 0
      BY <2>1, <2>3, <2>6, FileTypes DEF one, on_slot, file
    <3>4. n.inodes[i].ref = k.inodes[i].ref - one(i = ip)
      BY <2>5, <2>7 DEF Dropped
    <3>5. k.inodes[i].ref = Owed(k, i) + c[i] /\ c[i] \in Nat
      BY <1>2 DEF Counted, Counts
    <3>6. one(i = ip) \in Int
      BY DEF one
    <3> QED
      BY <3>1, <3>2, <3>3, <3>4, <3>5, <3>6
  <2>10. FileFits(n, n.files[f])
    BY <2>1, <2>7, FileTypes DEF FileFits
  <2>11. FilesFit(n)
    BY <1>2, <2>6, <2>7, <2>8, <2>9, <2>10, FilesFitPut DEF Good, Sound
  <2> QED
    BY <1>5, <2>6, <2>7, <2>9, <2>11, <2>12 DEF Whole
<1>7. CASE ~ (file.ref = 1 /\ file.type = "FILE")
  <2>1. k0 = k
    BY <1>7
  <2>2. \A i \in Slots : on_slot(left, i) <=> on_slot(file, i)
    <3>1. CASE file.ref = 1
      <4>1. file.inode = 0
        BY <1>3, <1>7, <3>1 DEF FileFits
      <4> QED
        BY <3>1, <4>1, FileTypes, Sizes DEF on_slot
    <3>2. CASE file.ref # 1
      <4>1. left.inode = file.inode /\ left.ref > 0
        BY <1>3, <1>4, <3>2 DEF File
      <4> QED
        BY <1>3, <4>1 DEF on_slot
    <3> QED
      BY <3>1, <3>2
  <2>3. FileFits(k, left)
    <3>1. CASE file.ref = 1
      BY <3>1, FileTypes DEF FileFits
    <3>2. CASE file.ref # 1
      <4>1. left.inode = file.inode /\ left.type = file.type /\ left.writable = file.writable
        BY <1>3, <3>2 DEF File
      <4> QED
        BY <1>3, <4>1 DEF FileFits
    <3> QED
      BY <3>1, <3>2
  <2> HIDE DEF k0, left
  <2>4. n = put_file(k, f, left)
    BY <1>1, <2>1
  <2>5. /\ Whole(n, c) /\ n.inodes = k.inodes /\ n.files[f] = left
        /\ \A g \in Files : g # f => n.files[g] = k.files[g]
    BY <1>4, <2>2, <2>3, <2>4, SameOwed
  <2>6. Fewer(k, n)
    BY <2>5, KeptFewer
  <2> QED
    BY <1>5, <2>5, <2>6
<1> QED
  BY <1>6, <1>7

LEMMA FdupIs ==
  ASSUME NEW k, NEW c \in Counts, Whole(k, c), NEW f \in Files, k.files[f].ref > 0,
         NEW n, n = fdup(k, f)
  PROVE  /\ Whole(n, c) /\ Same(k, n) /\ n.inodes = k.inodes
         /\ \A g \in Files : n.files[g].ref = k.files[g].ref + one(g = f)
<1> DEFINE file == k.files[f]
           x == [file EXCEPT !.ref = @ + 1]
<1>1. n = put_file(k, f, x)
  BY DEF fdup, put_file
<1>2. /\ file \in File /\ file.ref \in Nat /\ FileFits(k, file) /\ file.ref > 0
      /\ \A g \in Files : k.files[g].ref \in Nat
  BY FileParts DEF FilesFit, Whole
<1>3. /\ x \in File /\ x.ref = file.ref + 1 /\ x.inode = file.inode /\ x.type = file.type
      /\ x.writable = file.writable
  BY <1>2 DEF File
<1> HIDE DEF x
<1>4. (\A i \in Slots : on_slot(x, i) <=> on_slot(k.files[f], i)) /\ FileFits(k, x)
  BY <1>2, <1>3 DEF on_slot, FileFits
<1> DEFINE m == n
<1>5. m = put_file(k, f, x)
  BY <1>1
<1> HIDE DEF m
<1>6. /\ Whole(m, c) /\ Same(k, m) /\ m.files[f] = x /\ m.inodes = k.inodes
      /\ \A g \in Files : g # f => m.files[g] = k.files[g]
  BY <1>3, <1>4, <1>5, SameOwed
<1>7. \A g \in Files : m.files[g].ref = k.files[g].ref + one(g = f)
  <2> TAKE g \in Files
  <2> HIDE DEF file
  <2>1. CASE g = f
    BY <1>3, <1>6, <2>1 DEF one, file
  <2>2. CASE g # f
    BY <1>2, <1>6, <2>2 DEF one
  <2> QED
    BY <2>1, <2>2
<1> QED
  BY <1>6, <1>7 DEF m

set_offset(k, f, o) == [k EXCEPT !.files[f].offset = o]

\* A call has read or written the open file f, and moves its offset.
LEMMA OffsetMoved ==
  ASSUME NEW k, NEW c \in Counts, Whole(k, c), NEW m, Good(m), Calm(k, m), NEW f \in Files,
         NEW o \in Nat, NEW n, n = set_offset(m, f, o)
  PROVE  /\ Whole(n, c) /\ Same(k, n)
         /\ \A g \in Files : n.files[g].ref = k.files[g].ref
<1>1. k \in Kernel /\ NoneBut(k, 0)
  BY DEF Whole, Good, Sound
<1>2. Held(k, m, 0) /\ NoneBut(m, 0) /\ m.files = k.files
  BY <1>1, CalmIsHeld DEF Held
<1>3. Whole(m, plus(c, 0)) /\ Same(k, m)
  BY <1>2, WholeHeld
<1>4. Whole(m, c)
  BY <1>3, CountsType
<1> DEFINE file == m.files[f]
           x == [file EXCEPT !.offset = o]
<1>5. n = put_file(m, f, x)
  BY DEF set_offset, put_file
<1>6. file \in File /\ FileFits(m, file)
  BY <1>4, FileParts DEF FilesFit, Whole
<1>7. /\ x \in File /\ x.ref = file.ref /\ x.inode = file.inode /\ x.type = file.type
      /\ x.writable = file.writable
  BY <1>6 DEF File
<1> HIDE DEF x
<1>8. (\A i \in Slots : on_slot(x, i) <=> on_slot(m.files[f], i)) /\ FileFits(m, x)
  BY <1>6, <1>7 DEF on_slot, FileFits
<1> DEFINE t == n
<1>9. t = put_file(m, f, x)
  BY <1>5
<1> HIDE DEF t
<1>10. /\ Whole(t, c) /\ t.files[f] = x /\ t.inodes = m.inodes
       /\ \A g \in Files : g # f => t.files[g] = m.files[g]
  BY <1>4, <1>7, <1>8, <1>9, SameOwed
<1>11. Same(k, t)
  BY <1>3, <1>10 DEF Same, active, type_of
<1>12. \A g \in Files : t.files[g].ref = k.files[g].ref
  BY <1>2, <1>7, <1>10
<1> QED
  BY <1>10, <1>11, <1>12 DEF t

\* The inode of an open file.
LEMMA OpenFile ==
  ASSUME NEW k, NEW c \in Counts, Whole(k, c), NEW f \in Files, k.files[f].ref > 0,
         k.files[f].type = "FILE"
  PROVE  LET ip == k.files[f].inode
         IN  ip \in Slots /\ active(k, ip) /\ type_of(k, ip) # "NONE"
<1> DEFINE ip == k.files[f].inode
<1>1. k \in Kernel /\ Counted(k, c) /\ NoneBut(k, 0) /\ FileFits(k, k.files[f])
  BY DEF Whole, Good, Sound, FilesFit
<1>2. ip \in Slots /\ on_slot(k.files[f], ip)
  BY <1>1 DEF FileFits, on_slot
<1> HIDE DEF ip
<1>3. active(k, ip)
  BY <1>1, <1>2, CountedActive
<1>4. type_of(k, ip) # "NONE"
  BY <1>1, <1>2, <1>3, Sizes DEF NoneBut
<1> QED
  BY <1>2, <1>3, <1>4 DEF ip

LEMMA OffsetType ==
  ASSUME NEW o \in Int
  PROVE  o % OFF_MOD \in Nat
BY Sizes

LEMMA FreadIs ==
  ASSUME NEW k, NEW c \in Counts, Whole(k, c), NEW f \in Files, k.files[f].ref > 0,
         NEW len \in Lens, NEW n, n = fread(k, f, len), ~ Stopped(n)
  PROVE  /\ Whole(n, c) /\ Same(k, n)
         /\ \A g \in Files : n.files[g].ref = k.files[g].ref
<1> DEFINE file == k.files[f]
           ip == file.inode
           off == file.offset
           r == iread(k, ip, off, len)
           o == (r.k.files[f].offset + r.n) % OFF_MOD
<1>1. CASE file.readable /\ file.type = "FILE" /\ r.n >= 0
  <2>1. n = set_offset(r.k, f, o)
    BY <1>1 DEF fread, set_offset
  <2>3. Good(k) /\ ip \in Slots /\ active(k, ip) /\ type_of(k, ip) # "NONE" /\ off \in Nat
    BY <1>1, OpenFile, FileParts DEF Whole
  <2> HIDE DEF ip, off
  <2>4. Good(r.k) /\ Calm(k, r.k) /\ r.n \in Nat \cup {-1}
    <3>1. len \in Nat /\ fits_in(k, ip, off, len)
      BY FsAssumption DEF fits_in
    <3>2. r = iread(k, ip, off, len)
      OBVIOUS
    <3> HIDE DEF r
    <3>3. r.k = k /\ r.n \in Nat \cup {-1}
      BY <2>3, <3>1, <3>2, IreadIs
    <3> QED
      BY <2>3, <3>3, CalmSelf
  <2> HIDE DEF r
  <2>5. r.k.files[f].offset + r.n \in Int
    BY <2>4, FileParts
  <2>6. o \in Nat
    BY <2>5, OffsetType
  <2> HIDE DEF o
  <2> QED
    BY <2>1, <2>4, <2>6, OffsetMoved
<1>2. CASE ~ (file.readable /\ file.type = "FILE" /\ r.n >= 0)
  <2>1. n = k
    BY <1>2 DEF fread
  <2> QED
    BY <2>1 DEF Same
<1> QED
  BY <1>1, <1>2

LEMMA FwriteIs ==
  ASSUME NEW k, NEW c \in Counts, Whole(k, c), NEW f \in Files, k.files[f].ref > 0,
         NEW buf \in Seq(Cell), NEW n, n = fwrite(k, f, buf), ~ Stopped(n)
  PROVE  /\ Whole(n, c) /\ Same(k, n)
         /\ \A g \in Files : n.files[g].ref = k.files[g].ref
<1> DEFINE file == k.files[f]
           ip == file.inode
           off == file.offset
           r == iwrite(k, ip, off, buf)
           o == (r.k.files[f].offset + r.n) % OFF_MOD
<1>1. CASE file.writable /\ file.type = "FILE" /\ r.n >= 0
  <2>1. n = set_offset(r.k, f, o)
    BY <1>1 DEF fwrite, set_offset
  <2>2. ~ Stopped(r.k)
    <3>1. \A m, z : Stopped(m) => Stopped(set_offset(m, f, z))
      BY SetStops DEF set_offset
    <3> HIDE DEF r, o
    <3> QED
      BY <2>1, <3>1
  <2>3. Good(k) /\ ip \in Slots /\ active(k, ip) /\ type_of(k, ip) # "NONE" /\ off \in Nat
    BY <1>1, OpenFile, FileParts DEF Whole
  <2>4. type_of(k, ip) = "FILE"
    BY <1>1 DEF Whole, FilesFit, FileFits
  <2>5. data_of(k, ip) = Cell
    BY <2>4 DEF data_of, Data
  <2>6. buf \in Seq(data_of(k, ip))
    BY <2>5
  <2> HIDE DEF ip, off
  <2>7. Good(r.k) /\ Calm(k, r.k) /\ r.n \in Nat \cup {-1}
    BY <2>2, <2>3, <2>6, IwriteIs
  <2> HIDE DEF r
  <2>8. r.k.files[f].offset + r.n \in Int
    BY <2>7, FileParts
  <2>9. o \in Nat
    BY <2>8, OffsetType
  <2> HIDE DEF o
  <2> QED
    BY <2>1, <2>7, <2>9, OffsetMoved
<1>2. CASE ~ (file.writable /\ file.type = "FILE" /\ r.n >= 0)
  <2>1. n = k
    BY <1>2 DEF fwrite
  <2> QED
    BY <2>1 DEF Same
<1> QED
  BY <1>1, <1>2

LEMMA FseekIs ==
  ASSUME NEW k, NEW c \in Counts, Whole(k, c), NEW f \in Files, k.files[f].ref > 0,
         NEW off \in Int, NEW whence, NEW n, n = fseek(k, f, off, whence), ~ Stopped(n)
  PROVE  /\ Whole(n, c) /\ Same(k, n)
         /\ \A g \in Files : n.files[g].ref = k.files[g].ref
<1> DEFINE file == k.files[f]
           base == CASE whence = "SET" -> 0
                     [] whence = "CUR" -> file.offset
                     [] whence = "END" -> size_of(k, file.inode)
           o == (base + off) % OFF_MOD
<1>1. Good(k) /\ k \in Kernel
  BY DEF Whole, Good, Sound
<1>2. CASE file.type # "FILE"
  <2>1. n = k
    BY <1>2 DEF fseek
  <2> QED
    BY <2>1 DEF Same
<1>3. CASE file.type = "FILE" /\ whence \notin {"SET", "CUR", "END"}
  <2>1. n = abort(k, "assert")
    BY <1>3 DEF fseek
  <2> QED
    BY <1>1, <2>1, AbortStops
<1>4. CASE file.type = "FILE" /\ whence \in {"SET", "CUR", "END"}
  <2>1. n = set_offset(k, f, o)
    BY <1>4 DEF fseek, set_offset
  <2>2. file.offset \in Nat /\ size_of(k, file.inode) \in Nat
    BY <1>1, <1>4, OpenFile, OpenInode, FileParts DEF Good
  <2>3. base \in Nat
    <3>1. CASE whence = "SET"
      BY <3>1
    <3>2. CASE whence = "CUR"
      BY <2>2, <3>2
    <3>3. CASE whence = "END"
      BY <2>2, <3>3
    <3> QED
      BY <1>4, <3>1, <3>2, <3>3
  <2> HIDE DEF base
  <2>4. base + off \in Int
    BY <2>3
  <2>5. o \in Nat
    BY <2>4, OffsetType
  <2> HIDE DEF o
  <2> QED
    BY <1>1, <2>1, <2>5, CalmSelf, OffsetMoved
<1> QED
  BY <1>2, <1>3, <1>4

LEMMA FcloseStops ==
  ASSUME NEW k, Stopped(k), NEW f
  PROVE  Stopped(fclose(k, f))
BY SetStops, InodeStops DEF fclose

LEMMA FopenInodeStops ==
  ASSUME NEW r, Stopped(r.k), NEW fp, NEW mode
  PROVE  Stopped(fopen_found(r, fp, mode).k)
<1>1. Stopped(fclose(r.k, fp)) /\ Stopped(itrunc(r.k, r.ip)) /\ Stopped(iclose(r.k, r.ip))
  BY FcloseStops, InodeStops
<1>2. Stopped(fopen_bad(r, fp).k)
  BY <1>1, InodeStops DEF fopen_bad
<1>3. \A m, x : Stopped(m) => Stopped(put_file(m, fp, x))
  BY SetStops DEF put_file
<1>4. Stopped(abort(r.k, "assert"))
  BY SetStops
<1>5. Stopped(fopen_inode(r, fp, mode).k)
  BY <1>1, <1>2, <1>3, <1>4 DEF fopen_inode, put_file
<1> QED
  BY <1>1, <1>5 DEF fopen_found

\* The file in the making: it holds no inode yet.
new_file == [free_file EXCEPT !.ref = 1]

LEMMA NewFile ==
  /\ new_file \in File /\ new_file.ref = 1 /\ new_file.type = "NONE" /\ new_file.inode = 0
  /\ \A i \in Slots : ~ on_slot(new_file, i)
  /\ \A k : FileFits(k, new_file)
<1>1. new_file \in File /\ new_file.ref = 1 /\ new_file.type = "NONE" /\ new_file.inode = 0
  BY FileTypes DEF new_file, File
<1> QED
  BY <1>1, Sizes DEF on_slot, FileFits

\* The last two steps of a failed open.
LEMMA FopenBad ==
  ASSUME NEW k, NEW c \in Counts, Whole(k, c), NEW r, Found(k, r), r.ip # 0,
         type_of(r.k, r.ip) # "NONE", NEW fp \in Files, k.files[fp].ref > 0,
         NEW n, n = iclose(fclose(r.k, fp), r.ip)
  PROVE  /\ Whole(n, c) /\ Same(k, n)
         /\ \A g \in Files : n.files[g].ref = k.files[g].ref - one(g = fp)
<1> DEFINE m == r.k
           ip == r.ip
           b == fclose(m, fp)
<1>1. ip \in Slots /\ Good(m) /\ Held(k, m, ip) /\ NoneBut(m, ip) /\ type_of(m, ip) # "NONE" /\ k \in Kernel
  BY Sizes DEF Found, Whole, Good, Sound
<1>2. n = iclose(b, ip)
  OBVIOUS
<1> HIDE DEF m, ip
<1>3. NoneBut(m, 0) /\ m.files = k.files
  BY <1>1, NoneButTyped DEF Held
<1>4. Whole(m, plus(c, ip)) /\ Kept(k, m) /\ plus(c, ip) \in Counts
  BY <1>1, <1>3, WholeHeld, CountsType
<1>5. /\ Whole(b, plus(c, ip)) /\ Fewer(m, b)
      /\ \A g \in Files : b.files[g].ref = k.files[g].ref - one(g = fp)
  BY <1>3, <1>4, FcloseIs
<1> HIDE DEF b
<1>6. plus(c, ip)[ip] > 0
  BY <1>1 DEF plus, one, Counts
<1>7. Whole(n, minus(plus(c, ip), ip)) /\ Fewer(b, n) /\ n.files = b.files
  BY <1>1, <1>2, <1>4, <1>5, <1>6, WholeClosed
<1>8. Whole(n, c)
  BY <1>7, CountsType
<1>9. Same(k, n)
  BY <1>4, <1>5, <1>7, KeptFewer
<1> QED
  BY <1>5, <1>7, <1>8, <1>9

\* fp becomes an open file or directory.
LEMMA FopenFile ==
  ASSUME NEW k, NEW c \in Counts, Whole(k, c), NEW fp \in Files,
         \A i \in Slots : ~ on_slot(k.files[fp], i),
         NEW m, Good(m), NEW ip \in Slots, Held(k, m, ip), NoneBut(m, 0),
         NEW x \in File, x.ref = 1, x.type = "FILE", x.inode = ip,
         x.writable => type_of(m, ip) = "FILE",
         NEW n, n = put_file(m, fp, x)
  PROVE  /\ Whole(n, c) /\ Same(k, n)
         /\ n.files[fp].ref = 1 /\ \A g \in Files : g # fp => n.files[g].ref = k.files[g].ref
<1>1. m.files = k.files /\ m \in Kernel
  BY DEF Held, Good, Sound
<1>2. Whole(m, plus(c, ip)) /\ Kept(k, m) /\ plus(c, ip) \in Counts
  BY WholeHeld, CountsType
<1>3. /\ Good(n) /\ n.inodes = m.inodes /\ n.files = [m.files EXCEPT ![fp] = x] /\ n.files[fp] = x
      /\ \A g \in Files : g # fp => n.files[g] = m.files[g]
      /\ NoneBut(n, 0)
      /\ \A i : type_of(n, i) = type_of(m, i)
  BY FileSet
<1>4. Counted(n, c)
  <2> SUFFICES ASSUME NEW i \in Slots PROVE n.inodes[i].ref = Owed(n, i) + c[i]
    BY DEF Counted
  <2>1. Owed(n, i) = Owed(m, i) - one(on_slot(m.files[fp], i)) + one(on_slot(x, i))
    BY <1>1, <1>3, OwedPut
  <2>2. one(on_slot(m.files[fp], i)) = 0
    BY <1>1 DEF one
  <2>3. one(on_slot(x, i)) = one(i = ip)
    BY DEF on_slot, one
  <2>4. m.inodes[i].ref = Owed(m, i) + plus(c, ip)[i] /\ Owed(m, i) \in Nat
    BY <1>2, OwedType DEF Whole, Counted
  <2>5. plus(c, ip)[i] = c[i] + one(i = ip) /\ c[i] \in Nat /\ one(i = ip) \in Nat
    BY DEF plus, Counts, one
  <2> QED
    BY <1>3, <2>1, <2>2, <2>3, <2>4, <2>5
<1>5. Same(m, n) /\ Kept(m, n)
  BY <1>3, KeptFewer
<1>6. FileFits(n, n.files[fp])
  BY <1>3 DEF FileFits
<1>7. FilesFit(n)
  BY <1>1, <1>2, <1>3, <1>4, <1>5, <1>6, FilesFitPut DEF Good, Sound, Whole
<1>8. Same(k, n)
  BY <1>2, <1>5, KeptFewer
<1> QED
  BY <1>1, <1>3, <1>4, <1>7, <1>8 DEF Whole

\* fp becomes an open device, whose inode is closed.
LEMMA FopenDev ==
  ASSUME NEW k, NEW c \in Counts, Whole(k, c), NEW fp \in Files,
         \A i \in Slots : ~ on_slot(k.files[fp], i),
         NEW m, Good(m), NEW ip \in Slots, Held(k, m, ip), NoneBut(m, 0),
         NEW x \in File, x.ref = 1, x.type = "DEV", x.inode = 0,
         NEW n, n = put_file(iclose(m, ip), fp, x)
  PROVE  /\ Whole(n, c) /\ Same(k, n)
         /\ n.files[fp].ref = 1 /\ \A g \in Files : g # fp => n.files[g].ref = k.files[g].ref
<1> DEFINE b == iclose(m, ip)
<1>1. m.files = k.files /\ m \in Kernel
  BY DEF Held, Good, Sound
<1>2. Whole(m, plus(c, ip)) /\ Kept(k, m) /\ plus(c, ip) \in Counts
  BY WholeHeld, CountsType
<1>3. plus(c, ip)[ip] > 0
  BY DEF plus, one, Counts
<1>4. Whole(b, minus(plus(c, ip), ip)) /\ Fewer(m, b) /\ b.files = m.files
  BY <1>2, <1>3, WholeClosed
<1>5. Whole(b, c)
  BY <1>4, CountsType
<1>6. n = put_file(b, fp, x)
  OBVIOUS
<1> HIDE DEF b
<1>7. (\A i \in Slots : on_slot(x, i) <=> on_slot(b.files[fp], i)) /\ FileFits(b, x)
  BY <1>1, <1>4, Sizes DEF on_slot, FileFits
<1>8. /\ Whole(n, c) /\ n.files[fp] = x /\ n.inodes = b.inodes
      /\ \A g \in Files : g # fp => n.files[g] = b.files[g]
  BY <1>5, <1>6, <1>7, SameOwed
<1>9. Fewer(b, n)
  BY <1>8, KeptFewer
<1>10. Same(k, n)
  BY <1>2, <1>4, <1>9, KeptFewer
<1> QED
  BY <1>1, <1>4, <1>8, <1>10

LEMMA FallocIs ==
  ASSUME NEW k, Good(k), NEW fp, fp = falloc(k)
  PROVE  /\ fp \in 0 .. TOTAL_FILE
         /\ fp # 0 => fp \in Files /\ k.files[fp].ref = 0
<1> DEFINE S == {f \in Files : k.files[f].ref = 0}
<1>1. S \in SUBSET Nat /\ 0 \notin S /\ Files \subseteq 0 .. TOTAL_FILE /\ 0 \in 0 .. TOTAL_FILE
  BY Sizes DEF Files
<1>2. fp = first(S)
  BY DEF falloc
<1>3. \A f \in S : f \in Files /\ k.files[f].ref = 0
  OBVIOUS
<1> HIDE DEF S
<1> QED
  BY <1>1, <1>2, <1>3, FirstIs

LEMMA OpenType == \A mode : open_type(mode) \in Types
BY DEF open_type, Types

\* fopen, after iopen has found r0.ip, or nothing, for the file fp in the making.
LEMMA FopenFoundIs ==
  ASSUME NEW k, NEW c \in Counts, Whole(k, c), NEW r0, Found(k, r0), NEW fp \in Files,
         k.files[fp] = new_file, NEW mode,
         NEW r, r = fopen_found(r0, fp, mode), ~ Stopped(r.k)
  PROVE  /\ Whole(r.k, c) /\ Same(k, r.k) /\ r.fp \in {0, fp}
         /\ \A g \in Files : r.k.files[g].ref = k.files[g].ref - one(g = fp) + one(g = r.fp)
<1> DEFINE m == r0.k
           ip == r0.ip
           type == type_of(m, ip)
           bad == \/ type = "FILE" /\ "DIR" \in mode
                  \/ type = "DIR" /\ mode \cap {"WRONLY", "RDWR", "TRUNC"} # {}
           k0 == IF type = "FILE" /\ "TRUNC" \in mode THEN itrunc(m, ip) ELSE m
           file == [ref |-> 1, type |-> "FILE", inode |-> ip, offset |-> 0, dev_op |-> 0,
                    readable |-> "WRONLY" \notin mode, writable |-> mode \cap {"WRONLY", "RDWR"} # {}]
           dev == [file EXCEPT !.type = "DEV", !.inode = 0, !.dev_op = m.inodes[ip].dinode.device]
<1>1. /\ k \in Kernel /\ Good(k) /\ Good(m) /\ m \in Kernel /\ Held(k, m, ip) /\ NoneBut(m, ip)
      /\ ip \in Ips /\ m.files = k.files /\ k.files[fp].ref = 1
      /\ \A i \in Slots : ~ on_slot(k.files[fp], i)
      /\ \A g \in Files : k.files[g].ref \in Nat
  BY FileParts, NewFile DEF Found, Whole, Good, Sound, Held
<1>2. 0 \notin Files /\ fp # 0
  BY DEF Files
<1>3. ASSUME r.fp = 0, \A g \in Files : r.k.files[g].ref = k.files[g].ref - one(g = fp)
      PROVE  \A g \in Files : r.k.files[g].ref = k.files[g].ref - one(g = fp) + one(g = r.fp)
  <2> TAKE g \in Files
  <2>1. one(g = r.fp) = 0 /\ one(g = fp) \in Int
    BY <1>2, <1>3 DEF one
  <2> QED
    BY <1>1, <1>3, <2>1
<1>4. ASSUME r.fp = fp, r.k.files[fp].ref = 1,
             \A g \in Files : g # fp => r.k.files[g].ref = k.files[g].ref
      PROVE  \A g \in Files : r.k.files[g].ref = k.files[g].ref - one(g = fp) + one(g = r.fp)
  <2> TAKE g \in Files
  <2>1. CASE g = fp
    BY <1>1, <1>4, <2>1 DEF one
  <2>2. CASE g # fp
    BY <1>1, <1>4, <2>2 DEF one
  <2> QED
    BY <2>1, <2>2
<1>5. CASE ip = 0
  <2> DEFINE n == fclose(m, fp)
  <2>1. r = [k |-> n, fp |-> 0]
    BY <1>5 DEF fopen_found
  <2>2. NoneBut(m, 0) /\ Held(k, m, 0)
    BY <1>1, <1>5
  <2> HIDE DEF m, ip
  <2>3. Whole(m, plus(c, 0)) /\ Kept(k, m)
    BY <1>1, <2>2, WholeHeld
  <2>4. Whole(m, c)
    BY <2>3, CountsType
  <2>5. /\ Whole(n, c) /\ Fewer(m, n)
        /\ \A g \in Files : n.files[g].ref = k.files[g].ref - one(g = fp)
    BY <1>1, <2>4, FcloseIs
  <2>6. Same(k, n)
    BY <2>3, <2>5, KeptFewer
  <2> HIDE DEF n
  <2>7. r.k = n /\ r.fp = 0
    BY <2>1
  <2> QED
    BY <1>3, <2>5, <2>6, <2>7
<1>6. CASE ip # 0
  <2>1. r = fopen_inode(r0, fp, mode)
    BY <1>6 DEF fopen_found
  <2>2. ip \in Slots
    BY <1>1, <1>6, Sizes
  <2>3. active(m, ip)
    <3> HIDE DEF m, ip
    <3> QED
      BY <1>1, <2>2, HeldActive
  <2>4. ASSUME type # "NONE" PROVE NoneBut(m, 0)
    <3> HIDE DEF m, ip
    <3> QED
      BY <1>1, <2>4, NoneButTyped
  <2>5. CASE bad
    <3> DEFINE n == iclose(fclose(m, fp), ip)
    <3>1. r = [k |-> n, fp |-> 0]
      BY <2>1, <2>5 DEF fopen_inode, fopen_bad
    <3>2. n = iclose(fclose(r0.k, fp), r0.ip) /\ r0.ip # 0 /\ type_of(r0.k, r0.ip) # "NONE"
      BY <1>6, <2>5
    <3> HIDE DEF n, m, ip, type, bad
    <3>3. /\ Whole(n, c) /\ Same(k, n)
          /\ \A g \in Files : n.files[g].ref = k.files[g].ref - one(g = fp)
      BY <1>1, <3>2, FopenBad
    <3>4. r.k = n /\ r.fp = 0
      BY <3>1
    <3> QED
      BY <1>3, <3>3, <3>4
  <2>6. CASE type \in {"FILE", "DIR"} /\ ~ bad
    <3> DEFINE n == put_file(k0, fp, file)
    <3>1. r = [k |-> n, fp |-> fp]
      BY <2>1, <2>6 DEF fopen_inode, put_file
    <3>2. file \in File /\ file.ref = 1 /\ file.type = "FILE" /\ file.inode = ip
      BY <1>1 DEF File
    <3>3. file.writable => type = "FILE"
      BY <2>6
    <3>4. /\ Good(k0) /\ Held(k, k0, ip) /\ NoneBut(k0, 0) /\ type_of(k0, ip) = type
      <4>1. NoneBut(m, 0)
        BY <2>4, <2>6
      <4>2. CASE type = "FILE" /\ "TRUNC" \in mode
        <5>1. k0 = itrunc(m, ip)
          BY <4>2
        <5> HIDE DEF k0, m, ip
        <5>2. Good(k0) /\ Calm(m, k0)
          BY <1>1, <2>2, <2>3, <5>1, Truncated
        <5>3. Held(k, k0, ip)
          BY <1>1, <5>2, HeldThenCalm
        <5>4. NoneBut(k0, 0)
          BY <1>1, <4>1, <5>2, CalmIsHeld
        <5> QED
          BY <2>2, <5>2, <5>3, <5>4, CalmOpen
      <4>3. CASE ~ (type = "FILE" /\ "TRUNC" \in mode)
        <5>1. k0 = m
          BY <4>3
        <5> QED
          BY <1>1, <4>1, <5>1
      <4> QED
        BY <4>2, <4>3
    <3> DEFINE t == n
    <3>5. t = put_file(k0, fp, file)
      OBVIOUS
    <3>6. r.k = t /\ r.fp = fp
      BY <3>1
    <3> HIDE DEF t, n, k0, file, m, ip, type, bad
    <3>7. /\ Whole(t, c) /\ Same(k, t)
          /\ t.files[fp].ref = 1 /\ \A g \in Files : g # fp => t.files[g].ref = k.files[g].ref
      BY <1>1, <2>2, <3>2, <3>3, <3>4, <3>5, FopenFile
    <3> QED
      BY <1>4, <3>6, <3>7
  <2>7. CASE type = "DEV"
    <3> DEFINE n == put_file(iclose(m, ip), fp, dev)
    <3>1. r = [k |-> n, fp |-> fp]
      BY <2>1, <2>7 DEF fopen_inode, put_file
    <3>2. m.inodes[ip].dinode.device \in Nat
      <4> HIDE DEF m, ip
      <4>1. m.inodes[ip].dinode \in Dinode
        BY <1>1, <2>2, <2>3, OpenInode DEF Good
      <4> QED
        BY <4>1 DEF Dinode
    <3>3. dev \in File /\ dev.ref = 1 /\ dev.type = "DEV" /\ dev.inode = 0
      BY <3>2, Sizes DEF File
    <3>4. NoneBut(m, 0)
      BY <2>4, <2>7
    <3> DEFINE t == n
    <3>5. t = put_file(iclose(m, ip), fp, dev)
      OBVIOUS
    <3>6. r.k = t /\ r.fp = fp
      BY <3>1
    <3> HIDE DEF t, n, k0, dev, m, ip, type, bad
    <3>7. /\ Whole(t, c) /\ Same(k, t)
          /\ t.files[fp].ref = 1 /\ \A g \in Files : g # fp => t.files[g].ref = k.files[g].ref
      BY <1>1, <2>2, <3>3, <3>4, <3>5, FopenDev
    <3> QED
      BY <1>4, <3>6, <3>7
  <2>8. CASE ~ bad /\ type \notin {"FILE", "DIR", "DEV"}
    <3>1. r = [k |-> abort(m, "assert"), fp |-> 0]
      BY <2>1, <2>8 DEF fopen_inode
    <3> HIDE DEF m
    <3>2. Stopped(abort(m, "assert"))
      BY <1>1, AbortStops
    <3> QED
      BY <3>1, <3>2
  <2> QED
    BY <2>5, <2>6, <2>7, <2>8
<1> QED
  BY <1>5, <1>6

\* fopen returns an open file with one reference, or leaves none.
LEMMA FopenIs ==
  ASSUME NEW k, NEW c \in Counts, Whole(k, c), root \in Inos, NEW path \in Path, NEW cw,
         can_start(k, cw, path), NEW mode,
         NEW r, r = fopen(k, cw, path, mode), ~ Stopped(r.k)
  PROVE  /\ Whole(r.k, c) /\ Same(k, r.k) /\ r.fp \in 0 .. TOTAL_FILE
         /\ \A g \in Files : r.k.files[g].ref = k.files[g].ref + one(g = r.fp)
<1> DEFINE fp == falloc(k)
           k1 == put_file(k, fp, new_file)
           type == open_type(mode)
           r0 == iopen(k1, cw, path, type)
<1>1. /\ Good(k) /\ NoneBut(k, 0) /\ fp \in 0 .. TOTAL_FILE
      /\ fp # 0 => fp \in Files /\ k.files[fp].ref = 0
      /\ \A g \in Files : k.files[g].ref \in Nat
  BY FallocIs, FileParts DEF Whole
<1>2. CASE fp = 0
  <2>1. r = [k |-> k, fp |-> 0]
    BY <1>2 DEF fopen
  <2>2. \A g \in Files : k.files[g].ref = k.files[g].ref + one(g = 0)
    BY <1>1 DEF Files, one
  <2> HIDE DEF fp
  <2> QED
    BY <1>1, <1>2, <2>1, <2>2, KeptFewer
<1>3. CASE fp # 0
  <2>1. r = fopen_found(r0, fp, mode)
    BY <1>3 DEF fopen, put_file, new_file
  <2>2. fp \in Files /\ k.files[fp].ref = 0 /\ type \in Types
    BY <1>1, <1>3, OpenType
  <2>3. k1 = put_file(k, fp, new_file) /\ r0 = iopen(k1, cw, path, type)
    OBVIOUS
  <2> HIDE DEF r0, k1, fp, type
  <2>4. ~ Stopped(r0.k)
    BY <2>1, FopenInodeStops
  <2>5. /\ Whole(k1, c) /\ k1.files[fp] = new_file /\ k1.inodes = k.inodes
        /\ \A g \in Files : g # fp => k1.files[g] = k.files[g]
    <3>1. \A i \in Slots : on_slot(new_file, i) <=> on_slot(k.files[fp], i)
      BY <2>2, NewFile DEF on_slot
    <3> QED
      BY <2>2, <2>3, <3>1, NewFile, SameOwed
  <2>6. can_start(k1, cw, path)
    BY <2>5 DEF can_start, active
  <2>7. Found(k1, r0)
    BY <2>2, <2>3, <2>4, <2>5, <2>6, IopenIs DEF Whole
  <2>8. /\ Whole(r.k, c) /\ Same(k1, r.k) /\ r.fp \in {0, fp}
        /\ \A g \in Files : r.k.files[g].ref = k1.files[g].ref - one(g = fp) + one(g = r.fp)
    BY <2>1, <2>2, <2>5, <2>7, FopenFoundIs
  <2>9. Same(k, r.k)
    BY <2>5, <2>8 DEF Same, active, type_of
  <2>10. \A g \in Files : r.k.files[g].ref = k.files[g].ref + one(g = r.fp)
    <3> TAKE g \in Files
    <3>1. one(g = r.fp) \in Int /\ one(FALSE) = 0 /\ one(TRUE) = 1
      BY DEF one
    <3>2. CASE g = fp
      BY <1>1, <2>2, <2>5, <2>8, <3>1, <3>2, NewFile DEF one
    <3>3. CASE g # fp
      BY <1>1, <2>2, <2>5, <2>8, <3>1, <3>3 DEF one
    <3> QED
      BY <3>2, <3>3
  <2>11. r.fp \in 0 .. TOTAL_FILE
    <3>1. r.fp \in {0, fp} /\ fp \in 0 .. TOTAL_FILE
      BY <1>1, <2>8
    <3>2. 0 \in 0 .. TOTAL_FILE
      BY Sizes
    <3> QED
      BY <3>1, <3>2
  <2> QED
    BY <2>8, <2>9, <2>10, <2>11
<1> QED
  BY <1>2, <1>3

-----------------------------------------------------------------------------
(***************************************************************************)
(* The calls of the system, on the kernel.                                 *)
(***************************************************************************)

\* The rounds of fdup_all.
LEMMA FdupRounds ==
  ASSUME NEW k, NEW p, NEW n \in Nat, n = MAX_UFILE
  PROVE  \E done : /\ done[0] = k
                   /\ \A j \in 1 .. n : done[j] = (IF ufiles[p][j] = 0 THEN done[j - 1] ELSE fdup(done[j - 1], ufiles[p][j]))
                   /\ fdup_all(k, p) = done[n]
<1> DEFINE body(f) == [i \in 0 .. n |-> IF i = 0 THEN k ELSE (IF ufiles[p][i] = 0 THEN f[i - 1] ELSE fdup(f[i - 1], ufiles[p][i]))]
           Upto(f, i) == f[0] = k /\ \A j \in 1 .. i : f[j] = (IF ufiles[p][j] = 0 THEN f[j - 1] ELSE fdup(f[j - 1], ufiles[p][j]))
           good == {i \in 0 .. n : \E f : Upto(f, i)}
           done == CHOOSE f : f = body(f)
<1>1. 0 \in good
  <2> DEFINE g == [j \in {0} |-> k]
  <2>1. Upto(g, 0)
    OBVIOUS
  <2> HIDE DEF g, Upto
  <2> QED
    BY <2>1
<1>2. ASSUME NEW i \in 1 .. n, i - 1 \in good PROVE i \in good
  <2>1. PICK f : Upto(f, i - 1)
    BY <1>2
  <2> DEFINE g == [j \in 0 .. i |-> IF j = i THEN (IF ufiles[p][i] = 0 THEN f[i - 1] ELSE fdup(f[i - 1], ufiles[p][i])) ELSE f[j]]
  <2>2. g[i] = (IF ufiles[p][i] = 0 THEN f[i - 1] ELSE fdup(f[i - 1], ufiles[p][i])) /\ \A j \in 0 .. i - 1 : g[j] = f[j]
    OBVIOUS
  <2> HIDE DEF g
  <2>3. Upto(g, i)
    <3>1. g[0] = k
      BY <2>1, <2>2
    <3>2. ASSUME NEW j \in 1 .. i PROVE g[j] = (IF ufiles[p][j] = 0 THEN g[j - 1] ELSE fdup(g[j - 1], ufiles[p][j]))
      <4>1. g[j - 1] = f[j - 1]
        BY <2>2
      <4>2. CASE j = i
        BY <2>2, <4>1, <4>2
      <4>3. CASE j # i
        <5>1. g[j] = f[j] /\ j \in 1 .. i - 1
          BY <2>2, <4>3
        <5> QED
          BY <2>1, <4>1, <5>1
      <4> QED
        BY <4>2, <4>3
    <3> QED
      BY <3>1, <3>2
  <2> HIDE DEF Upto
  <2> QED
    BY <2>3
<1>3. \E f : Upto(f, n)
  <2> HIDE DEF good
  <2>1. \A i \in 0 .. n : i \in good
    BY <1>1, <1>2, RoundByRound
  <2>2. n \in good
    BY <2>1
  <2> QED
    BY <2>2 DEF good
<1>4. PICK f : Upto(f, n)
  BY <1>3
<1> DEFINE g == [j \in 0 .. n |-> f[j]]
<1>5. g = body(g)
  BY <1>4
<1> HIDE DEF g
<1>6. done = body(done)
  <2> HIDE DEF body
  <2> QED
    BY <1>5
<1>7. fdup_all(k, p) = done[n]
  BY DEF fdup_all
<1> HIDE DEF done
<1>8. done[0] = k
  BY <1>6
<1>9. ASSUME NEW j \in 1 .. n PROVE done[j] = (IF ufiles[p][j] = 0 THEN done[j - 1] ELSE fdup(done[j - 1], ufiles[p][j]))
  <2>1. j \in 0 .. n /\ j # 0
    OBVIOUS
  <2> QED
    BY <1>6, <2>1
<1> QED
  BY <1>7, <1>8, <1>9

\* The rounds of fclose_all.
LEMMA FcloseRounds ==
  ASSUME NEW k, NEW p, NEW n \in Nat, n = MAX_UFILE
  PROVE  \E done : /\ done[0] = k
                   /\ \A j \in 1 .. n : done[j] = (IF ufiles[p][j] = 0 THEN done[j - 1] ELSE fclose(done[j - 1], ufiles[p][j]))
                   /\ fclose_all(k, p) = done[n]
<1> DEFINE body(f) == [i \in 0 .. n |-> IF i = 0 THEN k ELSE (IF ufiles[p][i] = 0 THEN f[i - 1] ELSE fclose(f[i - 1], ufiles[p][i]))]
           Upto(f, i) == f[0] = k /\ \A j \in 1 .. i : f[j] = (IF ufiles[p][j] = 0 THEN f[j - 1] ELSE fclose(f[j - 1], ufiles[p][j]))
           good == {i \in 0 .. n : \E f : Upto(f, i)}
           done == CHOOSE f : f = body(f)
<1>1. 0 \in good
  <2> DEFINE g == [j \in {0} |-> k]
  <2>1. Upto(g, 0)
    OBVIOUS
  <2> HIDE DEF g, Upto
  <2> QED
    BY <2>1
<1>2. ASSUME NEW i \in 1 .. n, i - 1 \in good PROVE i \in good
  <2>1. PICK f : Upto(f, i - 1)
    BY <1>2
  <2> DEFINE g == [j \in 0 .. i |-> IF j = i THEN (IF ufiles[p][i] = 0 THEN f[i - 1] ELSE fclose(f[i - 1], ufiles[p][i])) ELSE f[j]]
  <2>2. g[i] = (IF ufiles[p][i] = 0 THEN f[i - 1] ELSE fclose(f[i - 1], ufiles[p][i])) /\ \A j \in 0 .. i - 1 : g[j] = f[j]
    OBVIOUS
  <2> HIDE DEF g
  <2>3. Upto(g, i)
    <3>1. g[0] = k
      BY <2>1, <2>2
    <3>2. ASSUME NEW j \in 1 .. i PROVE g[j] = (IF ufiles[p][j] = 0 THEN g[j - 1] ELSE fclose(g[j - 1], ufiles[p][j]))
      <4>1. g[j - 1] = f[j - 1]
        BY <2>2
      <4>2. CASE j = i
        BY <2>2, <4>1, <4>2
      <4>3. CASE j # i
        <5>1. g[j] = f[j] /\ j \in 1 .. i - 1
          BY <2>2, <4>3
        <5> QED
          BY <2>1, <4>1, <5>1
      <4> QED
        BY <4>2, <4>3
    <3> QED
      BY <3>1, <3>2
  <2> HIDE DEF Upto
  <2> QED
    BY <2>3
<1>3. \E f : Upto(f, n)
  <2> HIDE DEF good
  <2>1. \A i \in 0 .. n : i \in good
    BY <1>1, <1>2, RoundByRound
  <2>2. n \in good
    BY <2>1
  <2> QED
    BY <2>2 DEF good
<1>4. PICK f : Upto(f, n)
  BY <1>3
<1> DEFINE g == [j \in 0 .. n |-> f[j]]
<1>5. g = body(g)
  BY <1>4
<1> HIDE DEF g
<1>6. done = body(done)
  <2> HIDE DEF body
  <2> QED
    BY <1>5
<1>7. fclose_all(k, p) = done[n]
  BY DEF fclose_all
<1> HIDE DEF done
<1>8. done[0] = k
  BY <1>6
<1>9. ASSUME NEW j \in 1 .. n PROVE done[j] = (IF ufiles[p][j] = 0 THEN done[j - 1] ELSE fclose(done[j - 1], ufiles[p][j]))
  <2>1. j \in 0 .. n /\ j # 0
    OBVIOUS
  <2> QED
    BY <1>6, <2>1
<1> QED
  BY <1>7, <1>8, <1>9

\* The descriptors 1 .. n of a process that are on the open file g.
fds_upto(u, n, g) == {fd \in 1 .. n : u[fd] = g}

LEMMA FdsUpto ==
  ASSUME NEW u, NEW g
  PROVE  /\ Cardinality(fds_upto(u, 0, g)) = 0
         /\ \A n \in Nat : Cardinality(fds_upto(u, n, g)) \in Nat
         /\ \A n \in Nat \ {0} : Cardinality(fds_upto(u, n, g)) =
                                 Cardinality(fds_upto(u, n - 1, g)) + one(u[n] = g)
         /\ \A m, n \in Nat : m <= n => Cardinality(fds_upto(u, m, g)) <= Cardinality(fds_upto(u, n, g))
<1>1. fds_upto(u, 0, g) = {}
  BY DEF fds_upto
<1>2. \A n \in Nat : IsFiniteSet(fds_upto(u, n, g)) /\ Cardinality(fds_upto(u, n, g)) \in Nat
  <2> TAKE n \in Nat
  <2>1. fds_upto(u, n, g) \subseteq 1 .. n
    BY DEF fds_upto
  <2>2. IsFiniteSet(1 .. n)
    BY FS_Interval
  <2>3. IsFiniteSet(fds_upto(u, n, g))
    BY <2>1, <2>2, FS_Subset
  <2> QED
    BY <2>3, FS_CardinalityType
<1>3. ASSUME NEW n \in Nat \ {0}
      PROVE  Cardinality(fds_upto(u, n, g)) = Cardinality(fds_upto(u, n - 1, g)) + one(u[n] = g)
  <2> DEFINE S == fds_upto(u, n - 1, g)
             T == fds_upto(u, n, g)
  <2>1. \A y : y # n => (y \in T <=> y \in S)
    BY DEF fds_upto
  <2>2. n \notin S /\ (n \in T <=> u[n] = g)
    BY DEF fds_upto
  <2>3. IsFiniteSet(S)
    BY <1>2
  <2> HIDE DEF S, T
  <2>4. Cardinality(S) \in Nat /\ Cardinality(T) = Cardinality(S) - one(n \in S) + one(n \in T)
    BY <2>1, <2>3, CountChange
  <2>5. one(n \in S) = 0 /\ one(n \in T) = one(u[n] = g) /\ one(u[n] = g) \in Nat
    BY <2>2 DEF one
  <2>6. Cardinality(T) = Cardinality(S) + one(u[n] = g)
    BY <2>4, <2>5
  <2> QED
    BY <2>6 DEF S, T
<1>4. ASSUME NEW m \in Nat, NEW n \in Nat, m <= n
      PROVE  Cardinality(fds_upto(u, m, g)) <= Cardinality(fds_upto(u, n, g))
  <2>1. fds_upto(u, m, g) \subseteq fds_upto(u, n, g)
    BY <1>4 DEF fds_upto
  <2> QED
    BY <1>2, <2>1, FS_Subset
<1> QED
  BY <1>1, <1>2, <1>3, <1>4, FS_EmptySet

\* What fork does to the open files: one more reference for each descriptor.
LEMMA FdupAllIs ==
  ASSUME NEW k, NEW c \in Counts, Whole(k, c), NEW p, NEW u, u = ufiles[p],
         u \in [Fds -> 0 .. TOTAL_FILE], \A fd \in Fds : u[fd] # 0 => k.files[u[fd]].ref > 0,
         NEW n, n = fdup_all(k, p)
  PROVE  /\ Whole(n, c) /\ n.inodes = k.inodes
         /\ \A g \in Files : n.files[g].ref = k.files[g].ref + Cardinality(fds_upto(u, MAX_UFILE, g))
<1>1. MAX_UFILE \in Nat /\ (\A g \in Files : k.files[g].ref \in Nat) /\ Fds = 1 .. MAX_UFILE
  BY Sizes, FileParts DEF Whole, Fds
<1>2. PICK done : /\ done[0] = k
                  /\ \A j \in 1 .. MAX_UFILE :
                       done[j] = IF u[j] = 0 THEN done[j - 1] ELSE fdup(done[j - 1], u[j])
                  /\ n = done[MAX_UFILE]
  BY <1>1, FdupRounds
<1> DEFINE fit(i) == /\ Whole(done[i], c) /\ done[i].inodes = k.inodes
                     /\ \A g \in Files :
                          done[i].files[g].ref = k.files[g].ref + Cardinality(fds_upto(u, i, g))
           good == {i \in 0 .. MAX_UFILE : fit(i)}
<1>3. 0 \in good
  <2>1. fit(0)
    BY <1>1, <1>2, FdsUpto
  <2> HIDE DEF fit
  <2> QED
    BY <1>1, <2>1
<1>4. ASSUME NEW i \in 1 .. MAX_UFILE, i - 1 \in good PROVE i \in good
  <2> DEFINE m == done[i - 1]
             d == done[i]
             f == u[i]
  <2>1. /\ Whole(m, c) /\ m.inodes = k.inodes
        /\ \A g \in Files : m.files[g].ref = k.files[g].ref + Cardinality(fds_upto(u, i - 1, g))
    BY <1>4
  <2>2. d = IF f = 0 THEN m ELSE fdup(m, f)
    BY <1>2
  <2>3. /\ f \in 0 .. TOTAL_FILE /\ i \in Nat \ {0} /\ i - 1 \in Nat
        /\ f # 0 => f \in Files /\ k.files[f].ref > 0
    BY <1>1 DEF Files
  <2>4. \A g \in Files : /\ Cardinality(fds_upto(u, i, g)) = Cardinality(fds_upto(u, i - 1, g)) + one(f = g)
                         /\ Cardinality(fds_upto(u, i - 1, g)) \in Nat /\ one(f = g) \in Nat
                         /\ one(f = g) = one(g = f)
    BY <2>3, FdsUpto DEF one
  <2> HIDE DEF m, d, f, good
  <2>5. fit(i)
    <3>1. CASE f = 0
      <4>1. \A g \in Files : one(f = g) = 0
        BY <3>1 DEF one, Files
      <4> QED
        BY <1>1, <2>1, <2>2, <2>4, <3>1, <4>1 DEF d
    <3>2. CASE f # 0
      <4>1. d = fdup(m, f) /\ f \in Files
        BY <2>2, <2>3, <3>2
      <4>2. m.files[f].ref > 0
        <5>1. /\ m.files[f].ref = k.files[f].ref + Cardinality(fds_upto(u, i - 1, f))
              /\ Cardinality(fds_upto(u, i - 1, f)) \in Nat /\ k.files[f].ref \in Nat
          BY <1>1, <2>1, <2>4, <4>1
        <5> QED
          BY <2>3, <3>2, <5>1
      <4>3. /\ Whole(d, c) /\ d.inodes = m.inodes
            /\ \A g \in Files : d.files[g].ref = m.files[g].ref + one(g = f)
        BY <2>1, <4>1, <4>2, FdupIs
      <4>4. \A g \in Files : d.files[g].ref = k.files[g].ref + Cardinality(fds_upto(u, i, g))
        BY <1>1, <2>1, <2>4, <4>3
      <4> QED
        BY <2>1, <4>3, <4>4 DEF d
    <3> QED
      BY <3>1, <3>2
  <2> HIDE DEF fit
  <2> QED
    BY <2>5 DEF good
<1>5. \A i \in 0 .. MAX_UFILE : i \in good
  <2> HIDE DEF good
  <2> QED
    BY <1>1, <1>3, <1>4, RoundByRound
<1>6. MAX_UFILE \in good
  BY <1>1, <1>5
<1> QED
  BY <1>2, <1>6

\* What exit does to the open files: each descriptor gives up its reference.
LEMMA FcloseAllIs ==
  ASSUME NEW k, NEW c \in Counts, Whole(k, c), NEW p, NEW u, u = ufiles[p],
         u \in [Fds -> 0 .. TOTAL_FILE],
         \A g \in Files : k.files[g].ref >= Cardinality(fds_upto(u, MAX_UFILE, g)),
         NEW n, n = fclose_all(k, p)
  PROVE  /\ Whole(n, c) /\ Fewer(k, n)
         /\ \A g \in Files : n.files[g].ref = k.files[g].ref - Cardinality(fds_upto(u, MAX_UFILE, g))
<1>1. MAX_UFILE \in Nat /\ (\A g \in Files : k.files[g].ref \in Nat) /\ Fds = 1 .. MAX_UFILE
  BY Sizes, FileParts DEF Whole, Fds
<1>2. PICK done : /\ done[0] = k
                  /\ \A j \in 1 .. MAX_UFILE :
                       done[j] = IF u[j] = 0 THEN done[j - 1] ELSE fclose(done[j - 1], u[j])
                  /\ n = done[MAX_UFILE]
  BY <1>1, FcloseRounds
<1> DEFINE fit(i) == /\ Whole(done[i], c) /\ Fewer(k, done[i])
                     /\ \A g \in Files :
                          done[i].files[g].ref = k.files[g].ref - Cardinality(fds_upto(u, i, g))
           good == {i \in 0 .. MAX_UFILE : fit(i)}
<1>3. 0 \in good
  <2>1. fit(0)
    BY <1>1, <1>2, FdsUpto, KeptFewer
  <2> HIDE DEF fit
  <2> QED
    BY <1>1, <2>1
<1>4. ASSUME NEW i \in 1 .. MAX_UFILE, i - 1 \in good PROVE i \in good
  <2> DEFINE m == done[i - 1]
             d == done[i]
             f == u[i]
  <2>1. /\ Whole(m, c) /\ Fewer(k, m)
        /\ \A g \in Files : m.files[g].ref = k.files[g].ref - Cardinality(fds_upto(u, i - 1, g))
    BY <1>4
  <2>2. d = IF f = 0 THEN m ELSE fclose(m, f)
    BY <1>2
  <2>3. /\ f \in 0 .. TOTAL_FILE /\ i \in Nat \ {0} /\ i - 1 \in Nat /\ i <= MAX_UFILE
        /\ f # 0 => f \in Files
    BY <1>1 DEF Files
  <2>4. \A g \in Files : /\ Cardinality(fds_upto(u, i, g)) = Cardinality(fds_upto(u, i - 1, g)) + one(f = g)
                         /\ Cardinality(fds_upto(u, i - 1, g)) \in Nat /\ one(f = g) \in Nat
                         /\ one(f = g) = one(g = f)
    BY <2>3, FdsUpto DEF one
  <2>6. \A g \in Files : /\ Cardinality(fds_upto(u, i, g)) <= Cardinality(fds_upto(u, MAX_UFILE, g))
                         /\ Cardinality(fds_upto(u, MAX_UFILE, g)) \in Nat
    BY <1>1, <2>3, FdsUpto
  <2> HIDE DEF m, d, f, good
  <2>5. fit(i)
    <3>1. CASE f = 0
      <4>1. \A g \in Files : one(f = g) = 0
        BY <3>1 DEF one, Files
      <4> QED
        BY <1>1, <2>1, <2>2, <2>4, <3>1, <4>1 DEF d
    <3>2. CASE f # 0
      <4>1. d = fclose(m, f) /\ f \in Files
        BY <2>2, <2>3, <3>2
      <4>2. m.files[f].ref > 0
        <5>1. one(f = f) = 1
          BY DEF one
        <5>2. /\ m.files[f].ref = k.files[f].ref - Cardinality(fds_upto(u, i - 1, f))
              /\ k.files[f].ref \in Nat /\ k.files[f].ref >= Cardinality(fds_upto(u, MAX_UFILE, f))
          BY <1>1, <2>1, <4>1
        <5> QED
          BY <2>4, <2>6, <4>1, <5>1, <5>2
      <4>3. /\ Whole(d, c) /\ Fewer(m, d)
            /\ \A g \in Files : d.files[g].ref = m.files[g].ref - one(g = f)
        BY <2>1, <4>1, <4>2, FcloseIs
      <4>4. \A g \in Files : d.files[g].ref = k.files[g].ref - Cardinality(fds_upto(u, i, g))
        BY <1>1, <2>1, <2>4, <4>3
      <4>5. Fewer(k, d)
        BY <2>1, <4>3, KeptFewer
      <4> QED
        BY <4>3, <4>4, <4>5 DEF d
    <3> QED
      BY <3>1, <3>2
  <2> HIDE DEF fit
  <2> QED
    BY <2>5 DEF good
<1>5. \A i \in 0 .. MAX_UFILE : i \in good
  <2> HIDE DEF good
  <2> QED
    BY <1>1, <1>3, <1>4, RoundByRound
<1>6. MAX_UFILE \in good
  BY <1>1, <1>5
<1> QED
  BY <1>2, <1>6

\* Nothing but the disk has changed.
LEMMA HeldNothing ==
  ASSUME NEW k, NEW c \in Counts, Whole(k, c), NEW n, Good(n), Held(k, n, 0), NoneBut(n, 0)
  PROVE  Whole(n, c) /\ Same(k, n) /\ n.files = k.files
<1>1. Whole(n, plus(c, 0)) /\ Same(k, n)
  BY WholeHeld
<1> QED
  BY <1>1, CountsType DEF Held

\* chdir: the new directory is held instead of the old one, cw ...
LEMMA ChdirIs ==
  ASSUME NEW k, NEW c \in Counts, Whole(k, c), NEW cw \in Slots, c[cw] > 0, NEW r, Found(k, r),
         r.ip # 0, type_of(r.k, r.ip) = "DIR", NEW n, n = iclose(r.k, cw)
  PROVE  /\ r.ip \in Slots /\ Whole(n, minus(plus(c, r.ip), cw)) /\ Same(k, n)
         /\ n.files = k.files
<1> DEFINE m == r.k
           ip == r.ip
<1>1. ip \in Slots /\ Good(m) /\ Held(k, m, ip) /\ NoneBut(m, ip) /\ type_of(m, ip) # "NONE" /\ n = iclose(m, cw)
  BY Sizes DEF Found
<1> HIDE DEF m, ip
<1>2. NoneBut(m, 0) /\ m.files = k.files
  BY <1>1, NoneButTyped DEF Held
<1>3. Whole(m, plus(c, ip)) /\ Kept(k, m) /\ plus(c, ip) \in Counts
  BY <1>1, <1>2, WholeHeld, CountsType
<1>4. plus(c, ip)[cw] > 0
  BY DEF plus, one, Counts
<1>5. Whole(n, minus(plus(c, ip), cw)) /\ Fewer(m, n) /\ n.files = m.files
  BY <1>1, <1>3, <1>4, WholeClosed
<1> QED
  BY <1>1, <1>2, <1>3, <1>5, KeptFewer DEF ip

\* ... or what has been opened, if anything, is closed again.
LEMMA ChdirBackIs ==
  ASSUME NEW k, NEW c \in Counts, Whole(k, c), NEW r, Found(k, r),
         NEW n, n = IF r.ip = 0 THEN r.k ELSE iclose(r.k, r.ip)
  PROVE  Whole(n, c) /\ Same(k, n) /\ n.files = k.files
<1>1. k \in Kernel
  BY DEF Whole, Good, Sound
<1>2. Good(n) /\ Held(k, n, 0) /\ NoneBut(n, 0)
  <2>1. CASE r.ip = 0
    BY <2>1 DEF Found
  <2>2. CASE r.ip # 0
    <3>1. n = iclose(r.k, r.ip)
      BY <2>2
    <3> QED
      BY <1>1, <2>2, <3>1, CloseFound
  <2> QED
    BY <2>1, <2>2
<1> QED
  BY <1>2, HeldNothing

-----------------------------------------------------------------------------
(***************************************************************************)
(* The first disk, and the start of the kernel.                            *)
(***************************************************************************)

\* A kernel without active inodes, as mkfs has it between two steps.
Idle(k) == Good(k) /\ \A i \in Slots : ~ active(k, i)

LEMMA IdleNone ==
  ASSUME NEW k, Idle(k)
  PROVE  k \in Kernel /\ Good(k) /\ NoneBut(k, 0)
BY DEF Idle, NoneBut, Good, Sound

\* The slot that iget fills is not marked for removal.
LEMMA IgetFresh ==
  ASSUME NEW k, Idle(k), NEW no \in Inos, NEW r, r = iget(k, no), ~ Stopped(r.k)
  PROVE  ~ r.k.inodes[r.ip].del
<1> DEFINE hit == {i \in Slots : k.inodes[i].ref > 0 /\ k.inodes[i].no = no}
           empty == {i \in Slots : k.inodes[i].ref = 0}
           slot == [no |-> no, ref |-> 1, del |-> FALSE, dinode |-> k.disk.dinode[no]]
<1>1. hit = {}
  BY DEF Idle, active
<1>2. k \in Kernel /\ r.ip \in Slots /\ r.ip \in Ips
  BY IdleNone, IgetIs, Sizes
<1>3. CASE empty # {}
  <2>1. r = [k |-> put_inode(k, Min(empty), slot), ip |-> Min(empty)]
    BY <1>1, <1>3 DEF iget, put_inode
  <2> HIDE DEF empty, slot
  <2>2. r.k = put_inode(k, r.ip, slot)
    BY <2>1
  <2>3. r.k.inodes[r.ip] = slot
    BY <1>2, <2>2, KernelParts DEF put_inode
  <2> QED
    BY <2>3 DEF slot
<1>4. CASE empty = {}
  <2>1. r = [k |-> abort(k, "full"), ip |-> 0]
    BY <1>1, <1>4 DEF iget
  <2>2. Stopped(r.k)
    BY <1>2, <2>1, AbortStops
  <2> QED
    BY <2>2
<1> QED
  BY <1>3, <1>4

\* iclose of an inode that is not marked leaves the disk alone.
LEMMA IcloseKeeps ==
  ASSUME NEW k \in Kernel, NEW ip \in Slots, ~ k.inodes[ip].del, NEW n, n = iclose(k, ip)
  PROVE  n.disk = k.disk
<1>1. check(k, ip # 0) = k
  BY Sizes DEF check
<1>2. \E x : n = put_inode(k, ip, x)
  BY <1>1 DEF iclose, put_inode
<1> QED
  BY <1>2 DEF put_inode, Kernel

LEMMA IappendStops ==
  ASSUME NEW k, Stopped(k), NEW no, NEW buf
  PROVE  Stopped(iappend(k, no, buf))
BY InodeStops, ReadStops DEF iappend

LEMMA IappendIs ==
  ASSUME NEW k, Idle(k), NEW no \in Inos, k.disk.dinode[no].type # "NONE",
         NEW buf \in Seq(Data(k.disk.dinode[no].type = "DIR")),
         NEW n, n = iappend(k, no, buf), ~ Stopped(n)
  PROVE  Idle(n) /\ \A mo \in Inos : n.disk.dinode[mo].type = k.disk.dinode[mo].type
<1> DEFINE r == iget(k, no)
           ip == r.ip
           off == size_of(r.k, ip)
           w == iwrite(r.k, ip, off, buf)
<1>1. n = iclose(w.k, ip) /\ w = iwrite(r.k, ip, off, buf) /\ r = iget(k, no)
  BY DEF iappend
<1>2. k \in Kernel /\ Good(k) /\ NoneBut(k, 0)
  BY IdleNone
<1> HIDE DEF w, r
<1>3. ~ Stopped(w.k)
  BY <1>1, InodeStops
<1>4. ~ Stopped(r.k)
  BY <1>1, <1>3, ReadStops
<1>5. /\ ip \in Slots /\ Good(r.k) /\ Held(k, r.k, ip) /\ r.k.disk = k.disk
      /\ type_of(r.k, ip) = k.disk.dinode[no].type /\ ~ r.k.inodes[ip].del
  BY <1>1, <1>2, <1>4, IgetIs, IgetFresh
<1> HIDE DEF ip
<1>6. active(r.k, ip)
  BY <1>2, <1>5, HeldActive
<1>7. off \in Nat /\ buf \in Seq(data_of(r.k, ip))
  BY <1>5, <1>6, OpenInode DEF data_of, Good
<1> HIDE DEF off
<1>8. Good(w.k) /\ Calm(r.k, w.k)
  BY <1>1, <1>3, <1>5, <1>6, <1>7, IwriteIs
<1>9. active(w.k, ip) /\ ~ w.k.inodes[ip].del /\ w.k \in Kernel
  BY <1>5, <1>6, <1>8 DEF Calm, active, Good, Sound
<1>10. Good(n) /\ Dropped(w.k, n, ip)
  BY <1>1, <1>5, <1>8, <1>9, IcloseIs
<1>11. n.disk = w.k.disk
  BY <1>1, <1>5, <1>9, IcloseKeeps
<1>12. \A mo \in Inos : n.disk.dinode[mo].type = k.disk.dinode[mo].type
  BY <1>5, <1>8, <1>11 DEF Calm
<1>13. ASSUME NEW i \in Slots PROVE ~ active(n, i)
  <2>1. k.inodes[i].ref = 0
    BY <1>2, RefTypes DEF Idle
  <2>2. /\ r.k.inodes[i].ref = k.inodes[i].ref + one(i = ip)
        /\ w.k.inodes[i].ref = r.k.inodes[i].ref
        /\ n.inodes[i].ref = w.k.inodes[i].ref - one(i = ip)
    BY <1>5, <1>8, <1>10 DEF Held, Calm, Dropped
  <2>3. one(i = ip) \in Int
    BY DEF one
  <2>4. n.inodes[i].ref = 0
    BY <2>1, <2>2, <2>3
  <2> QED
    BY <2>4 DEF active
<1> QED
  BY <1>10, <1>12, <1>13 DEF Idle

\* The kernel that starts on a disk in order.
LEMMA KernelIs ==
  ASSUME NEW k, Good(k), NEW n, n = kernel(k.disk)
  PROVE  /\ Idle(n) /\ n.disk = k.disk
         /\ \A f \in Files : n.files[f] = free_file
<1>1. k \in Kernel /\ k.disk \in Disk
  BY KernelParts DEF Good, Sound
<1>2. free_inode \in Inode /\ free_file \in File /\ free_inode.ref = 0
  BY ZeroDinode, Sizes, FileTypes DEF free_inode, Inode
<1>3. n \in Kernel /\ n.fault = "no" /\ n.disk = k.disk
  BY <1>1, <1>2 DEF kernel, Kernel, Ips
<1>4. \A i \in Slots : ~ active(n, i)
  BY <1>2, Sizes DEF kernel, active, Ips
<1>5. \A f \in Files : n.files[f] = free_file
  BY Sizes DEF kernel, Files
<1>6. Own(n) /\ DirCells(n) /\ FreeClean(n)
  BY <1>3, SameDisk DEF Good, Sound
<1>7. Sync(n) /\ Distinct(n)
  BY <1>4 DEF Sync, Distinct
<1>8. Solid(n)
  BY <1>3, SolidSame DEF Good
<1> QED
  BY <1>3, <1>4, <1>5, <1>6, <1>7, <1>8 DEF Idle, Good, Sound

LEMMA EmptyKernel ==
  /\ Idle(kernel(empty_disk))
  /\ \A no \in Inos : kernel(empty_disk).disk.dinode[no].type = "NONE"
<1> DEFINE k == kernel(empty_disk)
<1>1. k.disk = empty_disk /\ k.fault = "no"
  BY DEF kernel
<1>2. empty_disk \in Disk
  <2>1. \A b \in Blocks : [i \in 0 .. BLK_SIZE - 1 |-> cell(IF b = 0 THEN 0 ELSE JUNK)] \in Block
    BY CellType, Sizes DEF Block, Cells
  <2>2. [b \in Blocks |-> [i \in 0 .. BLK_SIZE - 1 |-> cell(IF b = 0 THEN 0 ELSE JUNK)]] \in [Blocks -> Block]
    BY <2>1
  <2>3. [i \in Inos |-> zero_dinode] \in [Inos -> Dinode]
    BY ZeroDinode
  <2> QED
    BY <2>2, <2>3 DEF empty_disk, Disk
<1>3. free_inode \in Inode /\ free_file \in File /\ free_inode.ref = 0
  BY ZeroDinode, Sizes, FileTypes DEF free_inode, Inode
<1>4. k \in Kernel
  BY <1>2, <1>3 DEF kernel, Kernel, Ips
<1>5. \A i \in Slots : ~ active(k, i)
  BY <1>3, Sizes DEF kernel, active, Ips
<1>6. \A no \in Inos : k.disk.dinode[no] = zero_dinode
  BY <1>1 DEF empty_disk
<1>7. k.disk.bitmap = {}
  BY <1>1 DEF empty_disk
<1> HIDE DEF k
<1>8. \A no \in Inos, i \in Places : At(k, no, i) = 0
  BY <1>6, ZeroDinode, NoAddrsPlaces
<1>9. Own(k) /\ DirCells(k) /\ FreeClean(k)
  BY <1>6, <1>7, <1>8, PlaceSets DEF Own, DirCells, FreeClean
<1>10. Sync(k) /\ Distinct(k)
  BY <1>5 DEF Sync, Distinct
<1>11. Solid(k)
  BY <1>6 DEF Solid, zero_dinode
<1>12. Idle(k) /\ \A no \in Inos : k.disk.dinode[no].type = "NONE"
  BY <1>1, <1>4, <1>5, <1>6, <1>9, <1>10, <1>11, ZeroDinode DEF Idle, Good, Sound
<1> QED
  BY <1>12 DEF k

\* A disk in the making that has a root directory.
Rooted(k) == Idle(k) /\ root \in Inos /\ k.disk.dinode[root].type = "DIR"

LEMMA AllocIdle ==
  ASSUME NEW k, Idle(k), NEW t \in {"FILE", "DIR", "DEV"}, NEW r, r = dialloc(k, t), ~ Stopped(r.k)
  PROVE  /\ r.no \in Inos /\ r.no # 0 /\ Idle(r.k) /\ r.k.disk.dinode[r.no].type = t
         /\ k.disk.dinode[r.no].type = "NONE"
         /\ \A mo \in Inos : mo # r.no => r.k.disk.dinode[mo] = k.disk.dinode[mo]
         /\ \A mo \in Inos \ {0} : k.disk.dinode[mo].type = "NONE" => r.no <= mo
<1>1. Good(k) /\ NoneBut(k, 0)
  BY IdleNone
<1>2. Good(r.k) /\ r.k.inodes = k.inodes
  BY <1>1, DiallocIs
<1>3. Idle(r.k)
  BY <1>2 DEF Idle, active
<1> QED
  BY <1>1, <1>3, DiallocIs

LEMMA ShortSeqs ==
  ASSUME NEW T
  PROVE  /\ \A a \in T : <<a>> \in Seq(T)
         /\ \A a, b \in T : <<a, b>> \in Seq(T)
         /\ \A S \in SUBSET T : \A s \in Seq(S) : s \in Seq(T)
OBVIOUS

LEMMA EntryData ==
  ASSUME NEW no \in Inos, NEW name \in Names
  PROVE  dirent(no, name) \in Data(TRUE)
BY CellType, Sizes DEF Data

LEMMA InitDiskIs ==
  ASSUME NEW n, n = init_disk, ~ Stopped(n)
  PROVE  Rooted(n)
<1> DEFINE k == kernel(empty_disk)
           r == dialloc(k, "DIR")
           buf == <<dirent(root, "."), dirent(root, "..")>>
<1>1. n = iappend(r.k, root, buf)
  BY DEF init_disk
<1>2. Idle(k) /\ (\A no \in Inos : k.disk.dinode[no].type = "NONE") /\ r = dialloc(k, "DIR")
  BY EmptyKernel
<1> HIDE DEF k, r
<1>3. ~ Stopped(r.k)
  BY <1>1, IappendStops
<1>4. /\ r.no \in Inos /\ r.no # 0 /\ Idle(r.k) /\ r.k.disk.dinode[r.no].type = "DIR"
      /\ \A mo \in Inos \ {0} : k.disk.dinode[mo].type = "NONE" => r.no <= mo
  BY <1>2, <1>3, AllocIdle
<1>5. r.no = root /\ root \in Inos
  <2>1. 1 \in Inos
    BY <1>4, Sizes DEF Inos
  <2>2. r.no <= 1
    BY <1>2, <1>4, <2>1
  <2>3. r.no \in Nat /\ r.no # 0
    BY <1>4, Sizes
  <2>4. r.no = 1
    BY <2>2, <2>3
  <2> QED
    BY <2>1, <2>4 DEF root
<1>6. buf \in Seq(Data(TRUE))
  <2>1. "." \in Names /\ ".." \in Names
    BY DEF Names
  <2>2. dirent(root, ".") \in Data(TRUE) /\ dirent(root, "..") \in Data(TRUE)
    BY <1>5, <2>1, EntryData
  <2> QED
    BY <2>2, ShortSeqs
<1>7. buf \in Seq(Data(r.k.disk.dinode[root].type = "DIR")) /\ r.k.disk.dinode[root].type # "NONE"
  <2>1. (r.k.disk.dinode[root].type = "DIR") = TRUE
    BY <1>4, <1>5
  <2> QED
    BY <1>6, <2>1
<1> HIDE DEF buf
<1>8. Idle(n) /\ n.disk.dinode[root].type = "DIR"
  BY <1>1, <1>4, <1>5, <1>7, IappendIs
<1> QED
  BY <1>5, <1>8 DEF Rooted

LEMMA AddFileStops ==
  ASSUME NEW k, Stopped(k), NEW f
  PROVE  Stopped(add_file(k, f))
BY DiskStops, IappendStops DEF add_file

LEMMA AddFileIs ==
  ASSUME NEW k, Rooted(k), NEW f, f.name \in Names, f.data \in Seq(Data(FALSE)),
         NEW n, n = add_file(k, f), ~ Stopped(n)
  PROVE  Rooted(n)
<1> DEFINE r == dialloc(k, "FILE")
           buf == <<dirent(r.no, f.name)>>
           m == iappend(r.k, root, buf)
<1>1. n = iappend(m, r.no, f.data) /\ m = iappend(r.k, root, buf) /\ r = dialloc(k, "FILE")
  BY DEF add_file
<1> HIDE DEF r, m
<1>2. ~ Stopped(m)
  BY <1>1, IappendStops
<1>3. ~ Stopped(r.k)
  BY <1>1, <1>2, IappendStops
<1>4. Idle(k) /\ root \in Inos /\ k.disk.dinode[root].type = "DIR"
  BY DEF Rooted
<1>5. /\ r.no \in Inos /\ Idle(r.k) /\ r.k.disk.dinode[r.no].type = "FILE"
      /\ r.k.disk.dinode[root].type = "DIR"
  BY <1>1, <1>3, <1>4, AllocIdle
<1>6. buf \in Seq(Data(r.k.disk.dinode[root].type = "DIR"))
  <2>1. dirent(r.no, f.name) \in Data(TRUE)
    BY <1>5, EntryData
  <2>2. (r.k.disk.dinode[root].type = "DIR") = TRUE
    BY <1>5
  <2>3. buf \in Seq(Data(TRUE))
    BY <2>1, ShortSeqs
  <2> QED
    BY <2>2, <2>3
<1> HIDE DEF buf
<1>7. Idle(m) /\ \A mo \in Inos : m.disk.dinode[mo].type = r.k.disk.dinode[mo].type
  BY <1>1, <1>2, <1>4, <1>5, <1>6, IappendIs
<1>8. f.data \in Seq(Data(m.disk.dinode[r.no].type = "DIR")) /\ m.disk.dinode[r.no].type # "NONE"
  <2>1. (m.disk.dinode[r.no].type = "DIR") = FALSE
    BY <1>5, <1>7
  <2> QED
    BY <1>5, <1>7, <2>1
<1>9. Idle(n) /\ \A mo \in Inos : n.disk.dinode[mo].type = m.disk.dinode[mo].type
  BY <1>1, <1>5, <1>7, <1>8, IappendIs
<1> QED
  BY <1>4, <1>5, <1>7, <1>9 DEF Rooted

\* The rounds of mkfs, one for each file of the image.
LEMMA MkfsRounds ==
  ASSUME NEW n \in Nat, n = Len(Image)
  PROVE  \E done : /\ done[0] = init_disk
                   /\ \A j \in 1 .. n : done[j] = add_file(done[j - 1], Image[j])
                   /\ mkfs_kernel = done[n]
<1> DEFINE body(f) == [i \in 0 .. n |-> IF i = 0 THEN init_disk ELSE add_file(f[i - 1], Image[i])]
           Upto(f, i) == f[0] = init_disk /\ \A j \in 1 .. i : f[j] = add_file(f[j - 1], Image[j])
           good == {i \in 0 .. n : \E f : Upto(f, i)}
           done == CHOOSE f : f = body(f)
<1>1. 0 \in good
  <2> DEFINE g == [j \in {0} |-> init_disk]
  <2>1. Upto(g, 0)
    OBVIOUS
  <2> HIDE DEF g, Upto
  <2> QED
    BY <2>1
<1>2. ASSUME NEW i \in 1 .. n, i - 1 \in good PROVE i \in good
  <2>1. PICK f : Upto(f, i - 1)
    BY <1>2
  <2> DEFINE g == [j \in 0 .. i |-> IF j = i THEN add_file(f[i - 1], Image[i]) ELSE f[j]]
  <2>2. g[i] = add_file(f[i - 1], Image[i]) /\ \A j \in 0 .. i - 1 : g[j] = f[j]
    OBVIOUS
  <2> HIDE DEF g
  <2>3. Upto(g, i)
    <3>1. g[0] = init_disk
      BY <2>1, <2>2
    <3>2. ASSUME NEW j \in 1 .. i PROVE g[j] = add_file(g[j - 1], Image[j])
      <4>1. g[j - 1] = f[j - 1]
        BY <2>2
      <4>2. CASE j = i
        BY <2>2, <4>1, <4>2
      <4>3. CASE j # i
        <5>1. g[j] = f[j] /\ j \in 1 .. i - 1
          BY <2>2, <4>3
        <5> QED
          BY <2>1, <4>1, <5>1
      <4> QED
        BY <4>2, <4>3
    <3> QED
      BY <3>1, <3>2
  <2> HIDE DEF Upto
  <2> QED
    BY <2>3
<1>3. \E f : Upto(f, n)
  <2> HIDE DEF good
  <2>1. \A i \in 0 .. n : i \in good
    BY <1>1, <1>2, RoundByRound
  <2>2. n \in good
    BY <2>1
  <2> QED
    BY <2>2 DEF good
<1>4. PICK f : Upto(f, n)
  BY <1>3
<1> DEFINE g == [j \in 0 .. n |-> f[j]]
<1>5. g = body(g)
  BY <1>4
<1> HIDE DEF g
<1>6. done = body(done)
  <2> HIDE DEF body
  <2> QED
    BY <1>5
<1>7. mkfs_kernel = done[n]
  BY DEF mkfs_kernel
<1> HIDE DEF done
<1>8. done[0] = init_disk
  BY <1>6
<1>9. ASSUME NEW j \in 1 .. n PROVE done[j] = add_file(done[j - 1], Image[j])
  <2>1. j \in 0 .. n /\ j # 0
    OBVIOUS
  <2> QED
    BY <1>6, <2>1
<1> QED
  BY <1>7, <1>8, <1>9

LEMMA ImageParts ==
  /\ Len(Image) \in Nat
  /\ \A i \in 1 .. Len(Image) : Image[i].name \in Names /\ Image[i].data \in Seq(Data(FALSE))
<1> DEFINE Entry == [inode : Nat, name : STRING]
           T == [name : STRING, data : Seq(Entry)]
<1>1. Image \in Seq(T)
  BY FsAssumption
<1>2. Entry \subseteq Data(FALSE)
  BY DEF Data, Cell, Names
<1>3. \A s \in Seq(Entry) : s \in Seq(Data(FALSE))
  <2> HIDE DEF Entry
  <2> QED
    BY <1>2, ShortSeqs
<1>4. \A i \in 1 .. Len(Image) : Image[i] \in T
  <2> HIDE DEF T
  <2> QED
    BY <1>1
<1>5. Len(Image) \in Nat
  BY <1>1
<1> QED
  BY <1>3, <1>4, <1>5 DEF Names

LEMMA MkfsIs == Rooted(mkfs_kernel)
<1> DEFINE N == Len(Image)
<1>1. /\ N \in Nat
      /\ \A i \in 1 .. N : Image[i].name \in Names /\ Image[i].data \in Seq(Data(FALSE))
  BY ImageParts
<1>2. PICK done : /\ done[0] = init_disk
                  /\ \A j \in 1 .. N : done[j] = add_file(done[j - 1], Image[j])
                  /\ mkfs_kernel = done[N]
  BY <1>1, MkfsRounds
<1> DEFINE fit(i) == ~ Stopped(done[i]) => Rooted(done[i])
           good == {i \in 0 .. N : fit(i)}
<1> HIDE DEF N
<1>3. 0 \in good
  BY <1>1, <1>2, InitDiskIs
<1>4. ASSUME NEW i \in 1 .. N, i - 1 \in good PROVE i \in good
  <2>1. ASSUME ~ Stopped(done[i]) PROVE Rooted(done[i])
    <3> DEFINE m == done[i - 1]
               d == done[i]
               f == Image[i]
    <3>1. d = add_file(m, f) /\ ~ Stopped(d) /\ f.name \in Names /\ f.data \in Seq(Data(FALSE))
      BY <1>1, <1>2, <2>1
    <3>2. ~ Stopped(m) => Rooted(m)
      BY <1>4
    <3> HIDE DEF m, d, f
    <3>3. ~ Stopped(m)
      BY <3>1, AddFileStops
    <3>4. Rooted(d)
      BY <3>1, <3>2, <3>3, AddFileIs
    <3> QED
      BY <3>4 DEF d
  <2> QED
    BY <2>1
<1>5. \A i \in 0 .. N : i \in good
  <2> HIDE DEF good
  <2> QED
    BY <1>1, <1>3, <1>4, RoundByRound
<1>6. N \in good
  BY <1>1, <1>5
<1>7. ~ Stopped(mkfs_kernel)
  BY ImageFits DEF Stopped
<1> QED
  BY <1>2, <1>6, <1>7

\* A stopped kernel stays one, and iclose of no inode stops it.
LEMMA NullClose ==
  ASSUME NEW k \in Kernel
  PROVE  Stopped(iclose(k, 0))
<1> DEFINE fault(m) == "fault" \in DOMAIN m
<1>1. \A m : fault(m) => /\ \A x : fault([m EXCEPT !.disk = x])
                        /\ \A x : fault([m EXCEPT !.inodes = x])
                        /\ \A why : fault(abort(m, why)) /\ (abort(m, why).fault # "no" \/ why = "no")
                        /\ \A c : fault(check(m, c))
  BY DEF abort, check
<1>2. fault(k)
  BY DEF Kernel
<1> HIDE DEF fault
<1>3. \A m : fault(m) => /\ \A S : fault(bfree(m, S))
                        /\ \A di, no : fault(diwrite(m, di, no))
  BY <1>1 DEF bfree, diwrite
<1>4. \A m, ip : fault(m) => fault(iupdate(m, ip))
  BY <1>3 DEF iupdate
<1>5. \A m, ip : fault(m) => fault(itrunc(m, ip))
  BY <1>1, <1>3, <1>4 DEF itrunc
<1>6. \A m, no : fault(m) => fault(difree(m, no))
  BY <1>3 DEF difree
<1> DEFINE k0 == IF k.inodes[0].ref = 1 /\ k.inodes[0].del THEN difree(itrunc(k, 0), k.inodes[0].no) ELSE k
           n == abort(k0, "assert")
<1>7. fault(k0)
  BY <1>2, <1>5, <1>6
<1>8. \E x : iclose(k, 0) = [n EXCEPT !.inodes = x]
  BY DEF iclose, check
<1> HIDE DEF k0
<1>9. Stopped(n)
  BY <1>1, <1>7 DEF Stopped, fault
<1> HIDE DEF n
<1> QED
  BY <1>8, <1>9, SetStops

LEMMA OpenedStops ==
  ASSUME NEW r, Stopped(r.k)
  PROVE  /\ Stopped(iclose_opened(r))
         /\ \A id : Stopped(set_device(r, id))
<1>1. Stopped(iclose_opened(r))
  BY InodeStops DEF iclose_opened
<1>2. ASSUME NEW id PROVE Stopped(set_device(r, id))
  <2>1. Stopped(check(r.k, r.ip # 0))
    BY SetStops
  <2>2. Stopped([check(r.k, r.ip # 0) EXCEPT !.inodes[r.ip].dinode.device = id])
    BY <2>1, SetStops
  <2> QED
    BY <2>2, InodeStops DEF set_device
<1> QED
  BY <1>1, <1>2

\* What has been opened is closed again.
LEMMA OpenedIs ==
  ASSUME NEW k \in Kernel, NEW r, Found(k, r), NEW n, n = iclose_opened(r), ~ Stopped(n)
  PROVE  Good(n) /\ Held(k, n, 0) /\ NoneBut(n, 0)
<1>1. r.k \in Kernel
  BY DEF Found, Good, Sound
<1>2. n = iclose(r.k, r.ip)
  BY DEF iclose_opened
<1>3. r.ip # 0
  BY <1>1, <1>2, NullClose
<1> QED
  BY <1>2, <1>3, CloseFound

\* The inode r.ip becomes the one of device id, and is closed.
LEMMA DeviceIs ==
  ASSUME NEW k \in Kernel, NEW r, Found(k, r), NEW id \in Nat, NEW n, n = set_device(r, id), ~ Stopped(n)
  PROVE  Good(n) /\ Held(k, n, 0) /\ NoneBut(n, 0)
<1> DEFINE m == r.k
           ip == r.ip
           d == [m.inodes[ip].dinode EXCEPT !.device = id]
           a == check(m, ip # 0)
           b == [a EXCEPT !.inodes[ip].dinode.device = id]
           e == iupdate(b, ip)
           t == [k |-> e, ip |-> ip]
<1>1. n = iclose(e, ip)
  BY DEF set_device
<1>2. Good(m) /\ m \in Kernel /\ ip \in Ips /\ Held(k, m, ip) /\ NoneBut(m, ip)
  BY DEF Found, Good, Sound
<1>3. ~ Stopped(a)
  <2>1. \A x, y : Stopped(x) => Stopped([x EXCEPT !.inodes[ip].dinode.device = y])
    BY SetStops
  <2> HIDE DEF a
  <2>2. Stopped(a) => Stopped(b)
    BY <2>1
  <2> HIDE DEF b
  <2>3. Stopped(b) => Stopped(e)
    BY InodeStops
  <2> HIDE DEF e
  <2> QED
    BY <1>1, <2>2, <2>3, InodeStops
<1>4. a = m /\ ip # 0
  <2>1. (ip # 0) \in BOOLEAN
    OBVIOUS
  <2> HIDE DEF m
  <2> QED
    BY <1>2, <1>3, <2>1, CheckIs
<1>5. ip \in Slots
  BY <1>2, <1>4, Sizes
<1>6. b = with_dinode(m, ip, d)
  BY <1>4 DEF with_dinode
<1> HIDE DEF b, a, m, ip
<1>7. active(m, ip)
  BY <1>2, <1>5, HeldActive
<1>8. m.inodes[ip].dinode \in Dinode
  BY <1>2, <1>5, <1>7, OpenInode DEF Good
<1>9. /\ d \in Dinode /\ d.type = type_of(m, ip) /\ d.addrs = m.inodes[ip].dinode.addrs
      /\ d.size = m.inodes[ip].dinode.size
  BY <1>8 DEF Dinode, type_of
<1> HIDE DEF d
<1>10. e = iupdate(with_dinode(m, ip, d), ip)
  BY <1>6
<1> HIDE DEF e
<1>11. Good(e) /\ Calm(m, e)
  <2>1. /\ Sound(e) /\ SamePlaces(m, e) /\ Calm(m, e)
        /\ e.disk.dinode = [m.disk.dinode EXCEPT ![m.inodes[ip].no] = d]
    BY <1>2, <1>5, <1>7, <1>9, <1>10, MetaWritten DEF Good
  <2>2. d.size = m.disk.dinode[m.inodes[ip].no].size
    BY <1>2, <1>5, <1>7, <1>9 DEF Good, Sound, Sync
  <2>3. \A no \in Inos : e.disk.dinode[no].size = m.disk.dinode[no].size
    BY <1>2, <2>1, <2>2, KernelParts
  <2>4. Solid(e)
    BY <1>2, <2>1, <2>3, SolidKept DEF Good, SamePlaces
  <2> QED
    BY <2>1, <2>4 DEF Good
<1>12. Held(k, e, ip) /\ NoneBut(e, ip)
  BY <1>2, <1>11, HeldThenCalm, CalmIsHeld
<1>13. t.k = e /\ t.ip = ip
  OBVIOUS
<1> HIDE DEF t
<1>14. Found(k, t) /\ t.ip # 0 /\ n = iclose(t.k, t.ip)
  BY <1>1, <1>2, <1>4, <1>11, <1>12, <1>13 DEF Found
<1> QED
  BY <1>14, CloseFound

LEMMA DevPaths ==
  /\ [abs |-> TRUE, elems |-> <<"dev">>] \in Path
  /\ \A id \in 1 .. Len(dev_table) : [abs |-> TRUE, elems |-> <<"dev", dev_table[id]>>] \in Path
  /\ [abs |-> TRUE, elems |-> <<>>] \in Path
<1>1. "dev" \in Names /\ STRING \subseteq Names
  BY DEF Names
<1>2. dev_table \in Seq(STRING)
  BY FsAssumption
<1>3. \A id \in 1 .. Len(dev_table) : dev_table[id] \in Names
  BY <1>1, <1>2, SeqParts
<1>4. <<"dev">> \in Seq(Names) /\ \A id \in 1 .. Len(dev_table) : <<"dev", dev_table[id]>> \in Seq(Names)
  BY <1>1, <1>3, ShortSeqs
<1>5. <<>> \in Seq(Names)
  OBVIOUS
<1> QED
  BY <1>4, <1>5 DEF Path

LEMMA AddDevStops ==
  ASSUME NEW k, Stopped(k), NEW id \in 1 .. Len(dev_table)
  PROVE  Stopped(iadddev(k, id))
BY DevPaths, IopenStops, OpenedStops DEF iadddev

\* iadddev makes the inode of a device, and leaves it closed.
LEMMA AddDevIs ==
  ASSUME NEW k, Good(k), NoneBut(k, 0), root \in Inos, NEW id \in 1 .. Len(dev_table),
         NEW n, n = iadddev(k, id), ~ Stopped(n)
  PROVE  Good(n) /\ Held(k, n, 0) /\ NoneBut(n, 0)
<1> DEFINE path == [abs |-> TRUE, elems |-> <<"dev", dev_table[id]>>]
           r == iopen(k, 0, path, "DEV")
<1>1. n = set_device(r, id) /\ r = iopen(k, 0, path, "DEV")
  BY DEF iadddev
<1>2. path \in Path /\ can_start(k, 0, path) /\ "DEV" \in Types /\ id \in Nat /\ k \in Kernel
  <2>1. path \in Path
    BY DevPaths
  <2>2. path.abs
    OBVIOUS
  <2>3. can_start(k, 0, path)
    <3> HIDE DEF path
    <3> QED
      BY <2>2, Zenon DEF can_start
  <2> QED
    BY <2>1, <2>3 DEF Types, Good, Sound
<1> HIDE DEF r, path
<1>3. ~ Stopped(r.k)
  BY <1>1, OpenedStops
<1>4. Found(k, r)
  BY <1>1, <1>2, <1>3, IopenIs
<1> QED
  BY <1>1, <1>2, <1>4, DeviceIs

\* The rounds of init_dev, one for each device.
LEMMA DevRounds ==
  ASSUME NEW k, NEW n \in Nat, n = Len(dev_table)
  PROVE  \E done : /\ done[0] = iclose_opened(iopen(k, 0, [abs |-> TRUE, elems |-> <<"dev">>], "DIR"))
                   /\ \A j \in 1 .. n : done[j] = iadddev(done[j - 1], j)
                   /\ init_dev(k) = done[n]
<1> DEFINE body(f) == [i \in 0 .. n |-> IF i = 0 THEN iclose_opened(iopen(k, 0, [abs |-> TRUE, elems |-> <<"dev">>], "DIR")) ELSE iadddev(f[i - 1], i)]
           Upto(f, i) == f[0] = iclose_opened(iopen(k, 0, [abs |-> TRUE, elems |-> <<"dev">>], "DIR")) /\ \A j \in 1 .. i : f[j] = iadddev(f[j - 1], j)
           good == {i \in 0 .. n : \E f : Upto(f, i)}
           done == CHOOSE f : f = body(f)
<1>1. 0 \in good
  <2> DEFINE g == [j \in {0} |-> iclose_opened(iopen(k, 0, [abs |-> TRUE, elems |-> <<"dev">>], "DIR"))]
  <2>1. Upto(g, 0)
    OBVIOUS
  <2> HIDE DEF g, Upto
  <2> QED
    BY <2>1
<1>2. ASSUME NEW i \in 1 .. n, i - 1 \in good PROVE i \in good
  <2>1. PICK f : Upto(f, i - 1)
    BY <1>2
  <2> DEFINE g == [j \in 0 .. i |-> IF j = i THEN iadddev(f[i - 1], i) ELSE f[j]]
  <2>2. g[i] = iadddev(f[i - 1], i) /\ \A j \in 0 .. i - 1 : g[j] = f[j]
    OBVIOUS
  <2> HIDE DEF g
  <2>3. Upto(g, i)
    <3>1. g[0] = iclose_opened(iopen(k, 0, [abs |-> TRUE, elems |-> <<"dev">>], "DIR"))
      BY <2>1, <2>2
    <3>2. ASSUME NEW j \in 1 .. i PROVE g[j] = iadddev(g[j - 1], j)
      <4>1. g[j - 1] = f[j - 1]
        BY <2>2
      <4>2. CASE j = i
        BY <2>2, <4>1, <4>2
      <4>3. CASE j # i
        <5>1. g[j] = f[j] /\ j \in 1 .. i - 1
          BY <2>2, <4>3
        <5> QED
          BY <2>1, <4>1, <5>1
      <4> QED
        BY <4>2, <4>3
    <3> QED
      BY <3>1, <3>2
  <2> HIDE DEF Upto
  <2> QED
    BY <2>3
<1>3. \E f : Upto(f, n)
  <2> HIDE DEF good
  <2>1. \A i \in 0 .. n : i \in good
    BY <1>1, <1>2, RoundByRound
  <2>2. n \in good
    BY <2>1
  <2> QED
    BY <2>2 DEF good
<1>4. PICK f : Upto(f, n)
  BY <1>3
<1> DEFINE g == [j \in 0 .. n |-> f[j]]
<1>5. g = body(g)
  BY <1>4
<1> HIDE DEF g
<1>6. done = body(done)
  <2> HIDE DEF body
  <2> QED
    BY <1>5
<1>7. init_dev(k) = done[n]
  BY DEF init_dev
<1> HIDE DEF done
<1>8. done[0] = iclose_opened(iopen(k, 0, [abs |-> TRUE, elems |-> <<"dev">>], "DIR"))
  BY <1>6
<1>9. ASSUME NEW j \in 1 .. n PROVE done[j] = iadddev(done[j - 1], j)
  <2>1. j \in 0 .. n /\ j # 0
    OBVIOUS
  <2> QED
    BY <1>6, <2>1
<1> QED
  BY <1>7, <1>8, <1>9

LEMMA InitDevStops ==
  ASSUME NEW k, Stopped(k)
  PROVE  Stopped(init_dev(k))
<1> DEFINE N == Len(dev_table)
           path == [abs |-> TRUE, elems |-> <<"dev">>]
<1>1. N \in Nat
  BY FsAssumption
<1>2. PICK done : /\ done[0] = iclose_opened(iopen(k, 0, path, "DIR"))
                  /\ \A j \in 1 .. N : done[j] = iadddev(done[j - 1], j)
                  /\ init_dev(k) = done[N]
  BY <1>1, DevRounds
<1> DEFINE good == {i \in 0 .. N : Stopped(done[i])}
<1>3. 0 \in good
  BY <1>1, <1>2, DevPaths, IopenStops, OpenedStops
<1>4. ASSUME NEW i \in 1 .. N, i - 1 \in good PROVE i \in good
  BY <1>2, <1>4, AddDevStops
<1> HIDE DEF good
<1>5. \A i \in 0 .. N : i \in good
  BY <1>1, <1>3, <1>4, RoundByRound
<1> QED
  BY <1>1, <1>2, <1>5 DEF good

\* init_dev leaves no inode open.
LEMMA InitDevIs ==
  ASSUME NEW k, Good(k), NoneBut(k, 0), root \in Inos, NEW n, n = init_dev(k), ~ Stopped(n)
  PROVE  Good(n) /\ Held(k, n, 0) /\ NoneBut(n, 0)
<1> DEFINE N == Len(dev_table)
           path == [abs |-> TRUE, elems |-> <<"dev">>]
           r == iopen(k, 0, path, "DIR")
<1>1. N \in Nat /\ k \in Kernel
  BY FsAssumption DEF Good, Sound
<1>2. PICK done : /\ done[0] = iclose_opened(r)
                  /\ \A j \in 1 .. N : done[j] = iadddev(done[j - 1], j)
                  /\ n = done[N]
  BY <1>1, DevRounds
<1>3. path \in Path /\ can_start(k, 0, path) /\ "DIR" \in Types /\ r = iopen(k, 0, path, "DIR")
  <2>1. path \in Path
    BY DevPaths
  <2>2. path.abs
    OBVIOUS
  <2>3. can_start(k, 0, path)
    <3> HIDE DEF path
    <3> QED
      BY <2>2, Zenon DEF can_start
  <2> QED
    BY <2>1, <2>3 DEF Types
<1> DEFINE fits(m) == ~ Stopped(m) => Good(m) /\ Held(k, m, 0) /\ NoneBut(m, 0)
           good == {i \in 0 .. N : fits(done[i])}
<1>4. fits(done[0])
  <2> DEFINE m == done[0]
  <2>1. m = iclose_opened(r)
    BY <1>2
  <2> HIDE DEF r, path, m
  <2>2. ASSUME ~ Stopped(m) PROVE Good(m) /\ Held(k, m, 0) /\ NoneBut(m, 0)
    <3>1. ~ Stopped(r.k)
      BY <2>1, <2>2, OpenedStops
    <3>2. Found(k, r)
      BY <1>3, <3>1, IopenIs
    <3> QED
      BY <1>1, <2>1, <2>2, <3>2, OpenedIs
  <2> QED
    BY <2>2 DEF m
<1>5. ASSUME NEW i \in 1 .. N, fits(done[i - 1]) PROVE fits(done[i])
  <2> DEFINE m == done[i - 1]
             d == done[i]
  <2>1. d = iadddev(m, i) /\ i \in 1 .. Len(dev_table)
    BY <1>2
  <2>2. ~ Stopped(m) => Good(m) /\ Held(k, m, 0) /\ NoneBut(m, 0)
    BY <1>5
  <2> HIDE DEF m, d, r, path
  <2>3. ASSUME ~ Stopped(d) PROVE Good(d) /\ Held(k, d, 0) /\ NoneBut(d, 0)
    <3>1. ~ Stopped(m)
      BY <2>1, <2>3, AddDevStops
    <3>2. Good(d) /\ Held(m, d, 0) /\ NoneBut(d, 0)
      BY <2>1, <2>2, <2>3, <3>1, AddDevIs
    <3> QED
      BY <1>1, <2>2, <3>1, <3>2, HeldTwice
  <2> QED
    BY <2>3 DEF d
<1> HIDE DEF fits
<1>6. 0 \in good
  BY <1>1, <1>4
<1>7. ASSUME NEW i \in 1 .. N, i - 1 \in good PROVE i \in good
  BY <1>1, <1>5, <1>7
<1> HIDE DEF good, N
<1>8. \A i \in 0 .. N : i \in good
  BY <1>1, <1>6, <1>7, RoundByRound
<1>9. N \in good
  BY <1>1, <1>8
<1>10. fits(n)
  BY <1>2, <1>9 DEF good
<1> QED
  BY <1>10 DEF fits

none == [i \in Slots |-> 0]

\* A kernel in which nothing is open.
LEMMA IdleWhole ==
  ASSUME NEW k, Idle(k), \A f \in Files : k.files[f] = free_file
  PROVE  none \in Counts /\ Whole(k, none)
<1>1. Good(k) /\ NoneBut(k, 0) /\ k \in Kernel
  BY IdleNone
<1>2. FilesFit(k)
  BY FileTypes DEF FilesFit, FileFits
<1>3. ASSUME NEW i \in Slots PROVE k.inodes[i].ref = Owed(k, i) + none[i]
  <2>1. files_on(k, i) = {}
    BY FileTypes DEF files_on, on_slot
  <2>2. Owed(k, i) = 0
    BY <2>1, FS_EmptySet DEF Owed
  <2>3. k.inodes[i].ref = 0
    BY <1>1, RefTypes DEF Idle
  <2> QED
    BY <2>2, <2>3 DEF none
<1>4. Counted(k, none)
  BY <1>3 DEF Counted
<1>5. none \in Counts
  BY DEF none, Counts
<1> QED
  BY <1>1, <1>2, <1>4, <1>5 DEF Whole

\* After the start process 0 holds the root directory, and so does the first
\* user process.
LEMMA BootIs ==
  ASSUME NEW k0, Good(k0), root \in Inos, k0.disk.dinode[root].type # "NONE",
         NEW r, r = boot(k0.disk), ~ Stopped(r.k)
  PROVE  /\ r.ip \in Slots
         /\ \A f \in Files : r.k.files[f].ref = 0
         /\ \E q \in Slots : /\ Whole(r.k, plus(plus(none, q), r.ip))
                             /\ active(r.k, q) /\ r.k.inodes[q].no = root
<1> DEFINE k == kernel(k0.disk)
           g == iget(k, root)
           m == init_dev(g.k)
           path == [abs |-> TRUE, elems |-> <<>>]
<1>1. r = iget(m, root) /\ m = init_dev(g.k) /\ g = iget(k, root)
  BY DEF boot, iopen
<1>2. Idle(k) /\ k.disk = k0.disk /\ \A f \in Files : k.files[f] = free_file
  BY KernelIs
<1> HIDE DEF k, g, m
<1>3. /\ Good(k) /\ NoneBut(k, 0) /\ Whole(k, none) /\ none \in Counts
      /\ k.disk.dinode[root].type # "NONE"
  BY <1>2, IdleNone, IdleWhole
<1>4. ~ Stopped(m)
  BY <1>1, InodeStops
<1>5. ~ Stopped(g.k)
  <2>1. \A x : Stopped(x) => Stopped(init_dev(x))
    <3> TAKE x
    <3> HAVE Stopped(x)
    <3> QED
      BY InitDevStops
  <2> QED
    BY <1>1, <1>4, <2>1
<1> DEFINE q == g.ip
<1>6. /\ q \in Slots /\ Good(g.k) /\ Held(k, g.k, q) /\ g.k.inodes[q].no = root
      /\ type_of(g.k, q) # "NONE" /\ NoneBut(g.k, q)
  BY <1>1, <1>3, <1>5, IgetIs
<1> HIDE DEF q
<1>7. NoneBut(g.k, 0)
  BY <1>6, NoneButTyped
<1>8. Whole(g.k, plus(none, q)) /\ plus(none, q) \in Counts
  BY <1>3, <1>6, <1>7, WholeHeld, CountsType
<1>9. Good(m) /\ Held(g.k, m, 0) /\ NoneBut(m, 0)
  BY <1>1, <1>4, <1>6, <1>7, InitDevIs
<1>10. Whole(m, plus(none, q)) /\ m.files = g.k.files
  BY <1>8, <1>9, HeldNothing
<1>11. active(g.k, q) /\ active(m, q) /\ m.inodes[q].no = root /\ m \in Kernel
  <2>1. active(g.k, q)
    BY <1>3, <1>6, HeldActive DEF Good, Sound
  <2>2. active(m, q) /\ m \in Kernel
    BY <1>6, <1>9, <2>1, HeldActive DEF Good, Sound
  <2> QED
    BY <1>6, <1>9, <2>1, <2>2 DEF Held
<1>12. /\ r.ip \in Slots /\ Good(r.k) /\ Held(m, r.k, r.ip) /\ r.k.inodes[r.ip].no = root
       /\ NoneBut(r.k, r.ip)
  BY <1>1, <1>9, IgetIs
<1>13. active(r.k, q) /\ r.k.inodes[q].no = root /\ type_of(r.k, q) # "NONE" /\ active(r.k, r.ip)
  <2>1. active(r.k, q) /\ active(r.k, r.ip)
    BY <1>6, <1>11, <1>12, HeldActive
  <2>2. type_of(m, q) # "NONE"
    BY <1>6, <1>9, <1>11, Sizes DEF NoneBut
  <2> QED
    BY <1>6, <1>11, <1>12, <2>1, <2>2 DEF Held
<1>14. r.ip = q
  BY <1>6, <1>12, <1>13 DEF Good, Sound, Distinct
<1>15. NoneBut(r.k, 0)
  BY <1>12, <1>13, <1>14, NoneButTyped
<1>16. Whole(r.k, plus(plus(none, q), r.ip))
  BY <1>8, <1>10, <1>12, <1>15, WholeHeld
<1>17. \A f \in Files : r.k.files[f].ref = 0
  BY <1>2, <1>6, <1>10, <1>12, FileTypes DEF Held
<1> QED
  BY <1>6, <1>12, <1>13, <1>16, <1>17


-----------------------------------------------------------------------------
(***************************************************************************)
(* The descriptors and current directories of the processes.               *)
(***************************************************************************)

\* The descriptors on the open file f, and those of other processes than p.
fds_on(u, f) == {x \in Procs \X Fds : u[x[1]][x[2]] = f}
others_on(u, p, f) == {x \in (Procs \ {p}) \X Fds : u[x[1]][x[2]] = f}

LEMMA FdsFinite == IsFiniteSet(1 .. MAX_UFILE) /\ MAX_UFILE \in Nat /\ Fds = 1 .. MAX_UFILE
<1>1. MAX_UFILE \in Nat /\ Fds = 1 .. MAX_UFILE
  BY Sizes DEF Fds
<1>2. IsFiniteSet(1 .. MAX_UFILE)
  BY <1>1, FS_Interval
<1> QED
  BY <1>1, <1>2

LEMMA FdsSplit ==
  ASSUME NEW u, NEW p \in Procs, NEW g, NEW v, v = u[p]
  PROVE  /\ Cardinality(fds_on(u, g)) = Cardinality(others_on(u, p, g)) + Cardinality(fds_upto(v, MAX_UFILE, g))
         /\ Cardinality(others_on(u, p, g)) \in Nat /\ Cardinality(fds_upto(v, MAX_UFILE, g)) \in Nat
<1> DEFINE A == others_on(u, p, g)
           B == fds_upto(v, MAX_UFILE, g)
           C == {p} \X B
<1>1. IsFiniteSet(Procs) /\ IsFiniteSet(Fds) /\ MAX_UFILE \in Nat /\ Fds = 1 .. MAX_UFILE
  BY FsAssumption, FdsFinite
<1>2. IsFiniteSet(Procs \X Fds)
  BY <1>1, FS_Product
<1>3. A \subseteq Procs \X Fds /\ B \subseteq Fds
  BY <1>1 DEF others_on, fds_upto
<1>4. IsFiniteSet(A) /\ IsFiniteSet(B)
  <2> HIDE DEF A, B
  <2> QED
    BY <1>1, <1>2, <1>3, FS_Subset
<1>5. A \cap C = {}
  BY DEF others_on
<1>6. fds_on(u, g) = A \cup C
  <2>1. \A x : x \in fds_on(u, g) <=> x \in A \cup C
    <3> TAKE x
    <3>1. ASSUME x \in fds_on(u, g) PROVE x \in A \cup C
      <4>1. x \in Procs \X Fds /\ u[x[1]][x[2]] = g
        BY <3>1 DEF fds_on
      <4>2. PICK a \in Procs, b \in Fds : x = <<a, b>>
        BY <4>1
      <4>3. CASE a = p
        <5>1. b \in B
          BY <1>1, <4>1, <4>2, <4>3 DEF fds_upto
        <5> QED
          BY <4>2, <4>3, <5>1
      <4>4. CASE a # p
        <5>1. x \in A
          BY <4>1, <4>2, <4>4 DEF others_on
        <5> QED
          BY <5>1
      <4> QED
        BY <4>3, <4>4
    <3>2. ASSUME x \in A PROVE x \in fds_on(u, g)
      BY <3>2 DEF others_on, fds_on
    <3>3. ASSUME x \in C PROVE x \in fds_on(u, g)
      <4>1. PICK b \in B : x = <<p, b>>
        BY <3>3
      <4>2. b \in Fds /\ u[p][b] = g
        BY <1>1, <4>1 DEF fds_upto
      <4> QED
        BY <4>1, <4>2 DEF fds_on
    <3> QED
      BY <3>1, <3>2, <3>3
  <2> QED
    BY <2>1
<1> HIDE DEF A, B
<1>7. IsFiniteSet(C) /\ Cardinality(C) = Cardinality(B)
  <2>1. IsFiniteSet({p}) /\ Cardinality({p}) = 1
    BY FS_Singleton
  <2>2. IsFiniteSet(C) /\ Cardinality(C) = 1 * Cardinality(B)
    BY <1>4, <2>1, FS_Product
  <2>3. Cardinality(B) \in Nat
    BY <1>4, FS_CardinalityType
  <2> QED
    BY <2>2, <2>3
<1> HIDE DEF C
<1>8. Cardinality(A \cup C) = Cardinality(A) + Cardinality(C) - Cardinality(A \cap C)
  BY <1>4, <1>7, FS_Union
<1>9. Cardinality(A) \in Nat /\ Cardinality(B) \in Nat /\ Cardinality({}) = 0
  BY <1>4, FS_CardinalityType, FS_EmptySet
<1>10. Cardinality(fds_on(u, g)) = Cardinality(A) + Cardinality(B)
  BY <1>5, <1>6, <1>7, <1>8, <1>9
<1> QED
  BY <1>9, <1>10 DEF A, B

Tables == [Procs -> [Fds -> 0 .. TOTAL_FILE]]

with(t, p, v) == [t EXCEPT ![p] = v]

\* The descriptors of the process p become those of v.
LEMMA FdsMoved ==
  ASSUME NEW u \in Tables, NEW p \in Procs, NEW v \in [Fds -> 0 .. TOTAL_FILE],
         NEW w, w = with(u, p, v)
  PROVE  /\ w \in Tables /\ w[p] = v /\ \A r \in Procs \ {p} : w[r] = u[r]
         /\ \A g : /\ Cardinality(fds_on(w, g)) = Cardinality(fds_on(u, g))
                        - Cardinality(fds_upto(u[p], MAX_UFILE, g)) + Cardinality(fds_upto(v, MAX_UFILE, g))
                   /\ Cardinality(fds_on(u, g)) >= Cardinality(fds_upto(u[p], MAX_UFILE, g))
                   /\ Cardinality(fds_on(u, g)) \in Nat
<1>1. w \in Tables /\ w[p] = v /\ \A q \in Procs \ {p} : w[q] = u[q]
  BY DEF Tables, with
<1> SUFFICES ASSUME NEW g
             PROVE  /\ Cardinality(fds_on(w, g)) = Cardinality(fds_on(u, g))
                        - Cardinality(fds_upto(u[p], MAX_UFILE, g)) + Cardinality(fds_upto(v, MAX_UFILE, g))
                    /\ Cardinality(fds_on(u, g)) >= Cardinality(fds_upto(u[p], MAX_UFILE, g))
                    /\ Cardinality(fds_on(u, g)) \in Nat
  BY <1>1
<1>2. others_on(w, p, g) = others_on(u, p, g)
  BY <1>1 DEF others_on
<1> DEFINE x == u[p]
<1>3. x = u[p]
  OBVIOUS
<1> HIDE DEF x
<1>4. /\ Cardinality(fds_on(u, g)) = Cardinality(others_on(u, p, g)) + Cardinality(fds_upto(x, MAX_UFILE, g))
      /\ Cardinality(others_on(u, p, g)) \in Nat /\ Cardinality(fds_upto(x, MAX_UFILE, g)) \in Nat
  BY <1>3, FdsSplit
<1>5. /\ Cardinality(fds_on(w, g)) = Cardinality(others_on(w, p, g)) + Cardinality(fds_upto(v, MAX_UFILE, g))
      /\ Cardinality(fds_upto(v, MAX_UFILE, g)) \in Nat
  BY <1>1, FdsSplit
<1>6. /\ Cardinality(fds_on(w, g)) = Cardinality(fds_on(u, g))
           - Cardinality(fds_upto(x, MAX_UFILE, g)) + Cardinality(fds_upto(v, MAX_UFILE, g))
      /\ Cardinality(fds_on(u, g)) >= Cardinality(fds_upto(x, MAX_UFILE, g))
      /\ Cardinality(fds_on(u, g)) \in Nat
  BY <1>2, <1>4, <1>5
<1> QED
  BY <1>6 DEF x

with_fd(t, p, fd, f) == [t EXCEPT ![p][fd] = f]
hit(f, g) == one(f = g)

\* One descriptor becomes f.
LEMMA FdMoved ==
  ASSUME NEW u \in Tables, NEW p \in Procs, NEW fd \in Fds, NEW f \in 0 .. TOTAL_FILE,
         NEW w, w = with_fd(u, p, fd, f)
  PROVE  /\ w \in Tables /\ \A r \in Procs \ {p} : w[r] = u[r]
         /\ \A g : Cardinality(fds_on(w, g)) = Cardinality(fds_on(u, g)) - hit(u[p][fd], g) + hit(f, g)
         /\ \A g : u[p][fd] = g => Cardinality(fds_on(u, g)) > 0
<1> DEFINE x == u[p]
           v == [x EXCEPT ![fd] = f]
<1>1. x \in [Fds -> 0 .. TOTAL_FILE] /\ x = u[p]
  BY DEF Tables
<1>2. w = with(u, p, v)
  BY DEF with, with_fd
<1> HIDE DEF x
<1>3. v \in [Fds -> 0 .. TOTAL_FILE] /\ v[fd] = f /\ \A d \in Fds \ {fd} : v[d] = x[d]
  BY <1>1
<1> HIDE DEF v
<1>4. /\ w \in Tables
      /\ \A g : /\ Cardinality(fds_on(w, g)) = Cardinality(fds_on(u, g))
                     - Cardinality(fds_upto(x, MAX_UFILE, g)) + Cardinality(fds_upto(v, MAX_UFILE, g))
                /\ Cardinality(fds_on(u, g)) >= Cardinality(fds_upto(x, MAX_UFILE, g))
                /\ Cardinality(fds_on(u, g)) \in Nat
  <2>1. /\ w \in Tables
        /\ \A g : /\ Cardinality(fds_on(w, g)) = Cardinality(fds_on(u, g))
                       - Cardinality(fds_upto(u[p], MAX_UFILE, g)) + Cardinality(fds_upto(v, MAX_UFILE, g))
                  /\ Cardinality(fds_on(u, g)) >= Cardinality(fds_upto(u[p], MAX_UFILE, g))
                  /\ Cardinality(fds_on(u, g)) \in Nat
    <3> DEFINE t == w
    <3>1. t = with(u, p, v)
      BY <1>2
    <3> HIDE DEF t
    <3>2. /\ t \in Tables
          /\ \A g : /\ Cardinality(fds_on(t, g)) = Cardinality(fds_on(u, g))
                         - Cardinality(fds_upto(u[p], MAX_UFILE, g)) + Cardinality(fds_upto(v, MAX_UFILE, g))
                    /\ Cardinality(fds_on(u, g)) >= Cardinality(fds_upto(u[p], MAX_UFILE, g))
                    /\ Cardinality(fds_on(u, g)) \in Nat
      BY <1>3, <3>1, FdsMoved
    <3> QED
      BY <3>2 DEF t
  <2> QED
    BY <1>1, <2>1
<1>5. MAX_UFILE \in Nat /\ Fds = 1 .. MAX_UFILE
  BY Sizes DEF Fds
<1>6. ASSUME NEW g
      PROVE  /\ Cardinality(fds_on(w, g)) = Cardinality(fds_on(u, g)) - hit(x[fd], g) + hit(f, g)
             /\ x[fd] = g => Cardinality(fds_on(u, g)) > 0
  <2> DEFINE S == fds_upto(x, MAX_UFILE, g)
             T == fds_upto(v, MAX_UFILE, g)
  <2>1. \A y : y # fd => (y \in T <=> y \in S)
    BY <1>3, <1>5 DEF fds_upto
  <2>2. (fd \in S <=> x[fd] = g) /\ (fd \in T <=> f = g)
    BY <1>3, <1>5 DEF fds_upto
  <2>3. S \subseteq 1 .. MAX_UFILE
    BY DEF fds_upto
  <2>10. IsFiniteSet(1 .. MAX_UFILE)
    BY FdsFinite
  <2>4. IsFiniteSet(S)
    BY <2>3, <2>10, FS_Subset
  <2>9. /\ Cardinality(fds_on(w, g)) = Cardinality(fds_on(u, g)) - Cardinality(S) + Cardinality(T)
        /\ Cardinality(fds_on(u, g)) >= Cardinality(S) /\ Cardinality(fds_on(u, g)) \in Nat
    BY <1>4
  <2> HIDE DEF S, T
  <2>5. /\ Cardinality(S) \in Nat /\ Cardinality(T) \in Nat
        /\ Cardinality(T) = Cardinality(S) - one(fd \in S) + one(fd \in T)
    BY <2>1, <2>4, CountChange
  <2>6. /\ one(fd \in S) = hit(x[fd], g) /\ one(fd \in T) = hit(f, g)
        /\ hit(x[fd], g) \in Nat /\ hit(f, g) \in Nat
    BY <2>2 DEF one, hit
  <2>7. x[fd] = g => Cardinality(S) # 0
    BY <2>2, <2>4, FS_EmptySet
  <2>8. Cardinality(fds_on(w, g)) = Cardinality(fds_on(u, g)) - hit(x[fd], g) + hit(f, g)
    BY <2>5, <2>6, <2>9
  <2> QED
    BY <2>5, <2>7, <2>8, <2>9
<1>7. \A r \in Procs \ {p} : w[r] = u[r]
  BY <1>2 DEF with
<1> QED
  BY <1>4, <1>6, <1>7 DEF x

\* The processes whose current directory is in slot i, and the references that
\* processes hold, if process 0 holds the root directory in slot q.
dirs_on(w, i) == {p \in Procs : w[p] = i}
holders(w, q) == [i \in Slots |-> Cardinality(dirs_on(w, i)) + one(i = q)]

LEMMA DirsFinite ==
  ASSUME NEW w, NEW i
  PROVE  /\ IsFiniteSet(dirs_on(w, i)) /\ Cardinality(dirs_on(w, i)) \in Nat
         /\ \A p \in Procs : w[p] = i => Cardinality(dirs_on(w, i)) > 0
<1>1. dirs_on(w, i) \subseteq Procs /\ IsFiniteSet(Procs)
  BY FsAssumption DEF dirs_on
<1>2. IsFiniteSet(dirs_on(w, i)) /\ Cardinality(dirs_on(w, i)) \in Nat
  BY <1>1, FS_Subset, FS_CardinalityType
<1>3. ASSUME NEW p \in Procs, w[p] = i PROVE Cardinality(dirs_on(w, i)) # 0
  <2>1. p \in dirs_on(w, i)
    BY <1>3 DEF dirs_on
  <2> QED
    BY <1>2, <2>1, FS_EmptySet
<1> QED
  BY <1>2, <1>3

LEMMA HoldersType ==
  ASSUME NEW w, NEW q
  PROVE  /\ holders(w, q) \in Counts
         /\ \A p \in Procs : w[p] \in Slots => holders(w, q)[w[p]] > 0
         /\ q \in Slots => holders(w, q)[q] > 0
         /\ \A i \in Slots : holders(w, q)[i] = Cardinality(dirs_on(w, i)) + one(i = q)
<1>1. \A i : Cardinality(dirs_on(w, i)) \in Nat /\ one(i = q) \in Nat /\ one(q = q) = 1
  BY DirsFinite DEF one
<1>2. \A p \in Procs : Cardinality(dirs_on(w, w[p])) > 0
  BY DirsFinite
<1> QED
  BY <1>1, <1>2 DEF holders, Counts

LEMMA HoldersMoved ==
  ASSUME NEW w \in [Procs -> Ips], NEW p \in Procs, NEW i \in Ips, NEW v, v = with(w, p, i),
         NEW q
  PROVE  v \in [Procs -> Ips] /\ holders(v, q) = minus(plus(holders(w, q), i), w[p])
<1>1. v \in [Procs -> Ips] /\ v[p] = i /\ \A r \in Procs \ {p} : v[r] = w[r]
  BY DEF with
<1>2. ASSUME NEW j \in Slots
      PROVE  Cardinality(dirs_on(v, j)) + one(j = q)
               = Cardinality(dirs_on(w, j)) + one(j = q) + one(j = i) - one(j = w[p])
  <2> DEFINE S == dirs_on(w, j)
             T == dirs_on(v, j)
  <2>1. \A y : y # p => (y \in T <=> y \in S)
    BY <1>1 DEF dirs_on
  <2>2. (p \in S <=> j = w[p]) /\ (p \in T <=> j = i)
    BY <1>1 DEF dirs_on
  <2>3. IsFiniteSet(S)
    BY DirsFinite
  <2> HIDE DEF S, T
  <2>4. /\ Cardinality(S) \in Nat /\ Cardinality(T) \in Nat
        /\ Cardinality(T) = Cardinality(S) - one(p \in S) + one(p \in T)
    BY <2>1, <2>3, CountChange
  <2>5. /\ one(p \in S) = one(j = w[p]) /\ one(p \in T) = one(j = i)
        /\ one(j = w[p]) \in Nat /\ one(j = i) \in Nat /\ one(j = q) \in Nat
    BY <2>2 DEF one
  <2>6. Cardinality(T) + one(j = q) = Cardinality(S) + one(j = q) + one(j = i) - one(j = w[p])
    BY <2>4, <2>5
  <2> QED
    BY <2>6 DEF S, T
<1> DEFINE c == holders(w, q)
<1>3. \A j \in Slots : c[j] = Cardinality(dirs_on(w, j)) + one(j = q)
  BY DEF holders
<1> HIDE DEF c
<1> DEFINE d == plus(c, i)
<1>4. \A j \in Slots : d[j] = c[j] + one(j = i)
  BY DEF plus
<1> HIDE DEF d
<1>5. holders(v, q) = minus(d, w[p])
  <2>1. ASSUME NEW j \in Slots
        PROVE  Cardinality(dirs_on(v, j)) + one(j = q) = d[j] - one(j = w[p])
    <3> DEFINE x == one(j = q)
               y == one(j = i)
               z == one(j = w[p])
    <3>1. Cardinality(dirs_on(v, j)) + x = Cardinality(dirs_on(w, j)) + x + y - z
      BY <1>2
    <3>2. c[j] = Cardinality(dirs_on(w, j)) + x
      BY <1>3
    <3>3. d[j] = c[j] + y
      BY <1>4
    <3>5. Cardinality(dirs_on(w, j)) \in Nat /\ x \in Nat /\ y \in Nat /\ z \in Nat
      BY DirsFinite DEF one
    <3> HIDE DEF x, y, z
    <3>4. Cardinality(dirs_on(v, j)) + x = d[j] - z
      BY <3>1, <3>2, <3>3, <3>5
    <3> QED
      BY <3>4 DEF x, z
  <2> QED
    BY <2>1 DEF holders, minus
<1> QED
  BY <1>1, <1>5 DEF d, c

LEMMA MinusNone ==
  ASSUME NEW c \in Counts
  PROVE  minus(c, 0) = c /\ plus(c, 0) = c
<1>1. \A i \in Slots : one(i = 0) = 0 /\ c[i] \in Nat
  BY Sizes DEF one, Counts
<1> QED
  BY <1>1, CountsType DEF minus, Counts

-----------------------------------------------------------------------------
(***************************************************************************)
(* The invariant.                                                          *)
(***************************************************************************)

\* The kernel k fits the descriptors u and the current directories w of the
\* processes, and process 0 holds the root directory in slot q.
FitAt(k, u, w, q) ==
  /\ u \in Tables /\ w \in [Procs -> Ips]
  /\ \A p \in Procs : w[p] = 0 => \A fd \in Fds : u[p][fd] = 0
  /\ \A f \in Files : k.files[f].ref = Cardinality(fds_on(u, f))
  /\ Whole(k, holders(w, q))
  /\ k.inodes[q].no = root

\* The kernel's data, without the reason why it has stopped.
data_now == [disk |-> disk, inodes |-> inodes, files |-> files, fault |-> "no"]

IInv == \E q \in Slots : FitAt(data_now, ufiles, cwd, q)

LEMMA FitParts ==
  ASSUME NEW k, NEW u, NEW w, NEW q \in Slots, FitAt(k, u, w, q)
  PROVE  /\ Whole(k, holders(w, q)) /\ holders(w, q) \in Counts /\ Good(k) /\ NoneBut(k, 0) /\ k \in Kernel
         /\ u \in Tables /\ w \in [Procs -> Ips]
         /\ active(k, q) /\ k.inodes[q].no = root /\ root \in Inos
         /\ \A f \in Files : k.files[f].ref = Cardinality(fds_on(u, f))
         /\ \A p \in Procs : w[p] # 0 => w[p] \in Slots /\ active(k, w[p]) /\ holders(w, q)[w[p]] > 0
<1>1. /\ Whole(k, holders(w, q)) /\ u \in Tables /\ w \in [Procs -> Ips]
      /\ k.inodes[q].no = root
      /\ \A f \in Files : k.files[f].ref = Cardinality(fds_on(u, f))
  BY DEF FitAt
<1>2. holders(w, q) \in Counts /\ holders(w, q)[q] > 0
  BY HoldersType
<1>3. Good(k) /\ NoneBut(k, 0) /\ k \in Kernel /\ Counted(k, holders(w, q))
  BY <1>1 DEF Whole, Good, Sound
<1>4. active(k, q)
  BY <1>2, <1>3, CountedActive
<1>5. root \in Inos
  BY <1>1, <1>3, RefTypes
<1>6. ASSUME NEW p \in Procs, w[p] # 0
      PROVE  w[p] \in Slots /\ active(k, w[p]) /\ holders(w, q)[w[p]] > 0
  <2>1. w[p] \in Slots
    BY <1>1, <1>6, Sizes
  <2>2. holders(w, q)[w[p]] > 0
    BY <2>1, HoldersType
  <2> QED
    BY <1>2, <1>3, <2>1, <2>2, CountedActive
<1> QED
  BY <1>1, <1>2, <1>3, <1>4, <1>5, <1>6

\* What a call has to show.
LEMMA FitNext ==
  ASSUME NEW k, NEW u, NEW w, NEW q \in Slots, FitAt(k, u, w, q),
         NEW n, NEW v \in Tables, NEW x \in [Procs -> Ips],
         \A p \in Procs : x[p] = 0 => \A fd \in Fds : v[p][fd] = 0,
         \A f \in Files : n.files[f].ref = Cardinality(fds_on(v, f)),
         Whole(n, holders(x, q)), Same(k, n)
  PROVE  FitAt(n, v, x, q)
<1>1. active(k, q) /\ k.inodes[q].no = root
  BY FitParts
<1>2. holders(x, q) \in Counts /\ holders(x, q)[q] > 0 /\ n \in Kernel /\ Counted(n, holders(x, q))
  BY HoldersType DEF Whole, Good, Sound
<1>3. active(n, q)
  BY <1>2, CountedActive
<1>4. n.inodes[q].no = root
  BY <1>1, <1>3 DEF Same
<1> QED
  BY <1>4 DEF FitAt

\* A call ends.
LEMMA Committed ==
  ASSUME IInv, NEW n, NEW u, NEW w, commit(n, u, w),
         ~ Stopped(n) => \E q \in Slots : FitAt(n, u, w, q)
  PROVE  IInv'
<1>1. CASE n.fault = "no"
  <2>1. ~ Stopped(n)
    BY <1>1 DEF Stopped
  <2>2. PICK q \in Slots : FitAt(n, u, w, q)
    BY <2>1
  <2>3. n \in Kernel
    BY <2>2, FitParts
  <2>4. disk' = n.disk /\ inodes' = n.inodes /\ files' = n.files /\ ufiles' = u /\ cwd' = w
    BY <1>1 DEF commit
  <2>5. data_now' = n
    BY <1>1, <2>3, <2>4 DEF data_now, Kernel
  <2>6. FitAt(data_now', ufiles', cwd', q)
    BY <2>2, <2>4, <2>5
  <2> QED
    BY <2>6 DEF IInv
<1>2. CASE n.fault # "no"
  <2>1. data_now' = data_now /\ ufiles' = ufiles /\ cwd' = cwd
    BY <1>2 DEF commit, data_now
  <2>2. PICK q \in Slots : FitAt(data_now, ufiles, cwd, q)
    BY DEF IInv
  <2>3. FitAt(data_now', ufiles', cwd', q)
    BY <2>1, <2>2
  <2> QED
    BY <2>3 DEF IInv
<1> QED
  BY <1>1, <1>2

\* A process that is alive makes a call.
LEMMA Calling ==
  ASSUME NEW p \in Procs, calls(p)
  PROVE  k_now = data_now /\ cwd[p] # 0
BY DEF calls, alive, k_now, data_now

LEMMA AllocFd ==
  ASSUME ufiles \in Tables, NEW p \in Procs, NEW fd, fd = proc_allocfile(p), fd # 0
  PROVE  fd \in Fds /\ ufiles[p][fd] = 0
<1> DEFINE S == {d \in Fds : ufiles[p][d] = 0}
<1>1. S \in SUBSET Nat /\ 0 \notin S
  BY FdsFinite
<1>2. fd = first(S) /\ \A d \in S : d \in Fds /\ ufiles[p][d] = 0
  BY DEF proc_allocfile
<1> HIDE DEF S
<1> QED
  BY <1>1, <1>2, FirstIs

LEMMA PathType ==
  ASSUME NEW p \in Procs, NEW path \in Paths[p]
  PROVE  path \in Path
<1>1. path \in [abs : BOOLEAN, elems : Seq(STRING)]
  BY FsAssumption
<1>2. STRING \subseteq Names
  BY DEF Names
<1>3. path.elems \in Seq(STRING) /\ path.abs \in BOOLEAN /\ path = [abs |-> path.abs, elems |-> path.elems]
  BY <1>1
<1>4. path.elems \in Seq(Names)
  BY <1>2, <1>3, ShortSeqs
<1> QED
  BY <1>3, <1>4 DEF Path

-----------------------------------------------------------------------------
(***************************************************************************)
(* The calls keep the invariant.                                           *)
(***************************************************************************)

\* The open file behind a descriptor.
LEMMA Described ==
  ASSUME NEW k, NEW u, NEW w, NEW q \in Slots, FitAt(k, u, w, q), NEW p \in Procs,
         NEW fd \in Fds, u[p][fd] # 0
  PROVE  u[p][fd] \in Files /\ k.files[u[p][fd]].ref > 0
<1> DEFINE f == u[p][fd]
           x == with_fd(u, p, fd, 0)
<1>1. /\ u \in Tables
      /\ \A g \in Files : k.files[g].ref = Cardinality(fds_on(u, g))
  BY FitParts
<1>2. f \in Files
  BY <1>1 DEF Tables, Files
<1>3. \A g : f = g => Cardinality(fds_on(u, g)) > 0
  <2>1. x = with_fd(u, p, fd, 0)
    OBVIOUS
  <2> HIDE DEF x
  <2> QED
    BY <1>1, <2>1, Sizes, FdMoved
<1> HIDE DEF f
<1>4. f \in Files /\ k.files[f].ref > 0
  BY <1>1, <1>2, <1>3
<1> QED
  BY <1>4 DEF f

LEMMA OpenFits ==
  ASSUME NEW k, NEW u, NEW w, NEW q \in Slots, FitAt(k, u, w, q), NEW p \in Procs, w[p] # 0,
         NEW path \in Path, NEW mode, NEW fd \in Fds, u[p][fd] = 0,
         NEW r, r = fopen(k, w[p], path, mode), ~ Stopped(r.k),
         NEW v, v = with_fd(u, p, fd, r.fp)
  PROVE  FitAt(r.k, v, w, q)
<1>1. /\ Whole(k, holders(w, q)) /\ holders(w, q) \in Counts /\ root \in Inos
      /\ u \in Tables /\ w \in [Procs -> Ips]
      /\ w[p] \in Slots /\ active(k, w[p])
      /\ \A f \in Files : k.files[f].ref = Cardinality(fds_on(u, f))
  BY FitParts
<1>2. can_start(k, w[p], path)
  BY <1>1 DEF can_start
<1>3. /\ Whole(r.k, holders(w, q)) /\ Same(k, r.k) /\ r.fp \in 0 .. TOTAL_FILE
      /\ \A g \in Files : r.k.files[g].ref = k.files[g].ref + one(g = r.fp)
  BY <1>1, <1>2, FopenIs
<1>4. /\ v \in Tables /\ \A s \in Procs \ {p} : v[s] = u[s]
      /\ \A g : Cardinality(fds_on(v, g)) = Cardinality(fds_on(u, g)) - hit(u[p][fd], g) + hit(r.fp, g)
  BY <1>1, <1>3, FdMoved
<1>5. \A g \in Files : r.k.files[g].ref = Cardinality(fds_on(v, g))
  <2> TAKE g \in Files
  <2>1. hit(u[p][fd], g) = 0 /\ hit(r.fp, g) = one(g = r.fp) /\ one(g = r.fp) \in Nat
    BY DEF hit, one, Files
  <2>2. k.files[g].ref = Cardinality(fds_on(u, g)) /\ k.files[g].ref \in Nat
    BY <1>1, FileParts DEF Whole
  <2> QED
    BY <1>3, <1>4, <2>1, <2>2
<1>6. \A s \in Procs : w[s] = 0 => \A d \in Fds : v[s][d] = 0
  BY <1>4 DEF FitAt
<1> QED
  BY <1>1, <1>3, <1>4, <1>5, <1>6, FitNext

LEMMA CloseFits ==
  ASSUME NEW k, NEW u, NEW w, NEW q \in Slots, FitAt(k, u, w, q), NEW p \in Procs, w[p] # 0,
         NEW fd \in Fds, u[p][fd] # 0, NEW n, n = fclose(k, u[p][fd]),
         NEW v, v = with_fd(u, p, fd, 0)
  PROVE  FitAt(n, v, w, q)
<1> DEFINE f == u[p][fd]
<1>1. /\ Whole(k, holders(w, q)) /\ holders(w, q) \in Counts
      /\ u \in Tables /\ w \in [Procs -> Ips]
      /\ \A g \in Files : k.files[g].ref = Cardinality(fds_on(u, g))
  BY FitParts
<1>2. /\ v \in Tables /\ \A s \in Procs \ {p} : v[s] = u[s]
      /\ \A g : Cardinality(fds_on(v, g)) = Cardinality(fds_on(u, g)) - hit(f, g) + hit(0, g)
      /\ \A g : f = g => Cardinality(fds_on(u, g)) > 0
  BY <1>1, FdMoved, Sizes
<1>3. f \in Files
  BY <1>1 DEF Tables, Files
<1>4. n = fclose(k, f)
  OBVIOUS
<1> HIDE DEF f
<1>5. k.files[f].ref > 0
  BY <1>1, <1>2, <1>3
<1>6. /\ Whole(n, holders(w, q)) /\ Fewer(k, n)
      /\ \A g \in Files : n.files[g].ref = k.files[g].ref - one(g = f)
  BY <1>1, <1>3, <1>4, <1>5, FcloseIs
<1>7. \A g \in Files : n.files[g].ref = Cardinality(fds_on(v, g))
  <2> TAKE g \in Files
  <2>1. hit(0, g) = 0 /\ hit(f, g) = one(g = f) /\ one(g = f) \in Nat
    BY DEF hit, one, Files
  <2>2. k.files[g].ref = Cardinality(fds_on(u, g)) /\ k.files[g].ref \in Nat
    BY <1>1, FileParts DEF Whole
  <2> QED
    BY <1>2, <1>6, <2>1, <2>2
<1>8. \A s \in Procs : w[s] = 0 => \A d \in Fds : v[s][d] = 0
  BY <1>2 DEF FitAt
<1>9. Same(k, n)
  BY <1>6, KeptFewer
<1> QED
  BY <1>1, <1>2, <1>6, <1>7, <1>8, <1>9, FitNext

LEMMA DupFits ==
  ASSUME NEW k, NEW u, NEW w, NEW q \in Slots, FitAt(k, u, w, q), NEW p \in Procs, w[p] # 0,
         NEW fd \in Fds, u[p][fd] # 0, NEW d \in Fds, u[p][d] = 0,
         NEW n, n = fdup(k, u[p][fd]),
         NEW v, v = with_fd(u, p, d, u[p][fd])
  PROVE  FitAt(n, v, w, q)
<1> DEFINE f == u[p][fd]
<1>1. /\ Whole(k, holders(w, q)) /\ holders(w, q) \in Counts
      /\ u \in Tables /\ w \in [Procs -> Ips]
      /\ \A g \in Files : k.files[g].ref = Cardinality(fds_on(u, g))
  BY FitParts
<1>2. f \in Files /\ f \in 0 .. TOTAL_FILE
  BY <1>1 DEF Tables, Files
<1>3. n = fdup(k, f) /\ v = with_fd(u, p, d, f)
  OBVIOUS
<1>10. k.files[f].ref > 0
  BY Described
<1> HIDE DEF f
<1>4. /\ v \in Tables /\ \A s \in Procs \ {p} : v[s] = u[s]
      /\ \A g : Cardinality(fds_on(v, g)) = Cardinality(fds_on(u, g)) - hit(u[p][d], g) + hit(f, g)
  BY <1>1, <1>2, <1>3, FdMoved
<1>6. /\ Whole(n, holders(w, q)) /\ Same(k, n)
      /\ \A g \in Files : n.files[g].ref = k.files[g].ref + one(g = f)
  <2> DEFINE m == n
  <2>1. m = fdup(k, f)
    BY <1>3
  <2> HIDE DEF m
  <2>2. /\ Whole(m, holders(w, q)) /\ Same(k, m)
        /\ \A g \in Files : m.files[g].ref = k.files[g].ref + one(g = f)
    BY <1>1, <1>2, <1>10, <2>1, FdupIs
  <2> QED
    BY <2>2 DEF m
<1>7. \A g \in Files : n.files[g].ref = Cardinality(fds_on(v, g))
  <2> TAKE g \in Files
  <2>1. hit(u[p][d], g) = 0 /\ hit(f, g) = one(g = f) /\ one(g = f) \in Nat
    BY DEF hit, one, Files
  <2>2. k.files[g].ref = Cardinality(fds_on(u, g)) /\ k.files[g].ref \in Nat
    BY <1>1, FileParts DEF Whole
  <2> QED
    BY <1>4, <1>6, <2>1, <2>2
<1>8. \A s \in Procs : w[s] = 0 => \A b \in Fds : v[s][b] = 0
  BY <1>4 DEF FitAt
<1> QED
  BY <1>1, <1>4, <1>6, <1>7, <1>8, FitNext

\* A call that leaves the descriptors and directories as they are.
LEMMA SameFits ==
  ASSUME NEW k, NEW u, NEW w, NEW q \in Slots, FitAt(k, u, w, q),
         NEW n, Whole(n, holders(w, q)), Same(k, n),
         \A g \in Files : n.files[g].ref = k.files[g].ref
  PROVE  FitAt(n, u, w, q)
<1>1. /\ u \in Tables /\ w \in [Procs -> Ips]
      /\ \A g \in Files : k.files[g].ref = Cardinality(fds_on(u, g))
  BY FitParts
<1>2. \A s \in Procs : w[s] = 0 => \A d \in Fds : u[s][d] = 0
  BY DEF FitAt
<1>3. \A g \in Files : n.files[g].ref = Cardinality(fds_on(u, g))
  BY <1>1
<1> QED
  BY <1>1, <1>2, <1>3, FitNext

\* What the current directory of a caller is good for.
LEMMA MayStart ==
  ASSUME NEW k, NEW u, NEW w, NEW q \in Slots, FitAt(k, u, w, q), NEW p \in Procs, w[p] # 0,
         NEW path
  PROVE  /\ Good(k) /\ NoneBut(k, 0) /\ root \in Inos /\ can_start(k, w[p], path)
         /\ w[p] \in Slots /\ active(k, w[p]) /\ holders(w, q)[w[p]] > 0
         /\ Whole(k, holders(w, q)) /\ holders(w, q) \in Counts
         /\ u \in Tables /\ w \in [Procs -> Ips]
         /\ \A f \in Files : k.files[f].ref = Cardinality(fds_on(u, f))
         /\ \A s \in Procs : w[s] = 0 => \A d \in Fds : u[s][d] = 0
<1>1. \A s \in Procs : w[s] = 0 => \A d \in Fds : u[s][d] = 0
  BY DEF FitAt
<1> QED
  BY <1>1, FitParts DEF can_start

LEMMA ChdirFits ==
  ASSUME NEW k, NEW u, NEW w, NEW q \in Slots, FitAt(k, u, w, q), NEW p \in Procs, w[p] # 0,
         NEW path \in Path, NEW r, r = iopen(k, w[p], path, "NONE"),
         r.ip # 0, type_of(r.k, r.ip) = "DIR", NEW n, n = iclose(r.k, w[p]), ~ Stopped(n),
         NEW x, x = with(w, p, r.ip)
  PROVE  FitAt(n, u, x, q)
<1> DEFINE cw == w[p]
           c == holders(w, q)
<1>11. Good(k) /\ NoneBut(k, 0) /\ root \in Inos /\ can_start(k, cw, path)
  BY MayStart
<1>1. /\ cw \in Slots /\ c[cw] > 0 /\ Whole(k, c) /\ c \in Counts
      /\ u \in Tables /\ w \in [Procs -> Ips]
      /\ \A f \in Files : k.files[f].ref = Cardinality(fds_on(u, f))
      /\ \A s \in Procs : w[s] = 0 => \A d \in Fds : u[s][d] = 0
  BY MayStart
<1>2. r = iopen(k, cw, path, "NONE") /\ n = iclose(r.k, cw)
  OBVIOUS
<1>3. r.ip \in Ips =>
        x \in [Procs -> Ips] /\ holders(x, q) = minus(plus(c, r.ip), cw)
  BY <1>1, HoldersMoved
<1> HIDE DEF cw, c
<1>4. ~ Stopped(r.k)
  BY <1>2, InodeStops
<1>5. Found(k, r)
  BY <1>11, <1>2, <1>4, IopenIs DEF Types
<1>6. /\ r.ip \in Slots /\ Whole(n, minus(plus(c, r.ip), cw)) /\ Same(k, n)
      /\ n.files = k.files
  BY <1>1, <1>2, <1>5, ChdirIs
<1>7. x \in [Procs -> Ips] /\ holders(x, q) = minus(plus(c, r.ip), cw)
  BY <1>3, <1>6, Sizes
<1>8. \A s \in Procs : x[s] = 0 => w[s] = 0
  BY <1>1, <1>6, Sizes DEF with
<1>9. \A f \in Files : n.files[f].ref = Cardinality(fds_on(u, f))
  BY <1>1, <1>6
<1>10. Whole(n, holders(x, q)) /\ \A s \in Procs : x[s] = 0 => \A d \in Fds : u[s][d] = 0
  BY <1>1, <1>6, <1>7, <1>8
<1> QED
  BY <1>1, <1>6, <1>7, <1>9, <1>10, FitNext

LEMMA ChdirBackFits ==
  ASSUME NEW k, NEW u, NEW w, NEW q \in Slots, FitAt(k, u, w, q), NEW p \in Procs, w[p] # 0,
         NEW path \in Path, NEW r, r = iopen(k, w[p], path, "NONE"),
         NEW n, n = IF r.ip = 0 THEN r.k ELSE iclose(r.k, r.ip), ~ Stopped(n)
  PROVE  FitAt(n, u, w, q)
<1> DEFINE cw == w[p]
           c == holders(w, q)
<1>1. /\ Good(k) /\ NoneBut(k, 0) /\ root \in Inos /\ can_start(k, cw, path)
      /\ Whole(k, c) /\ c \in Counts
  BY MayStart
<1>2. r = iopen(k, cw, path, "NONE")
  OBVIOUS
<1> HIDE DEF cw
<1>3. ~ Stopped(r.k)
  BY InodeStops
<1>4. Found(k, r)
  BY <1>1, <1>2, <1>3, IopenIs DEF Types
<1>5. Whole(n, c) /\ Same(k, n) /\ n.files = k.files
  <2> HIDE DEF c
  <2> QED
    BY <1>1, <1>4, ChdirBackIs
<1> QED
  BY <1>5, SameFits

LEMMA UnlinkFits ==
  ASSUME NEW k, NEW u, NEW w, NEW q \in Slots, FitAt(k, u, w, q), NEW p \in Procs, w[p] # 0,
         NEW path \in Path, NEW n, n = iremove(k, w[p], path), ~ Stopped(n)
  PROVE  FitAt(n, u, w, q)
<1> DEFINE cw == w[p]
           c == holders(w, q)
<1>1. /\ Good(k) /\ NoneBut(k, 0) /\ root \in Inos /\ can_start(k, cw, path)
      /\ Whole(k, c) /\ c \in Counts
  BY MayStart
<1>2. n = iremove(k, cw, path)
  OBVIOUS
<1> HIDE DEF cw
<1>3. Good(n) /\ Held(k, n, 0) /\ NoneBut(n, 0)
  BY <1>1, <1>2, IremoveIs
<1>4. Whole(n, c) /\ Same(k, n) /\ n.files = k.files
  <2> HIDE DEF c
  <2> QED
    BY <1>1, <1>3, HeldNothing
<1> QED
  BY <1>4, SameFits

\* No descriptor of a process that has none is on an open file.
LEMMA NoneOpen ==
  ASSUME NEW v, \A d \in Fds : v[d] = 0, NEW g \in Files
  PROVE  Cardinality(fds_upto(v, MAX_UFILE, g)) = 0
<1>1. fds_upto(v, MAX_UFILE, g) = {}
  BY FdsFinite DEF fds_upto, Files
<1> QED
  BY <1>1, FS_EmptySet

LEMMA ForkFits ==
  ASSUME NEW k, NEW w, NEW q \in Slots, FitAt(k, ufiles, w, q), NEW p \in Procs, w[p] # 0,
         NEW child \in Procs, w[child] = 0, NEW n, n = idup(fdup_all(k, p), w[p]),
         NEW v, v = with(ufiles, child, ufiles[p]), NEW x, x = with(w, child, w[p])
  PROVE  FitAt(n, v, x, q)
<1> DEFINE cw == w[p]
           c == holders(w, q)
           m == fdup_all(k, p)
           u == ufiles[p]
<1>1. /\ cw \in Slots /\ c[cw] > 0 /\ Whole(k, c) /\ c \in Counts
      /\ ufiles \in Tables /\ w \in [Procs -> Ips]
      /\ \A f \in Files : k.files[f].ref = Cardinality(fds_on(ufiles, f))
      /\ \A s \in Procs : w[s] = 0 => \A d \in Fds : ufiles[s][d] = 0
  BY MayStart
<1>2. /\ u = ufiles[p] /\ u \in [Fds -> 0 .. TOTAL_FILE]
      /\ \A fd \in Fds : u[fd] # 0 => k.files[u[fd]].ref > 0
  BY <1>1, Described DEF Tables
<1>3. x \in [Procs -> Ips] /\ holders(x, q) = minus(plus(c, cw), 0)
  BY <1>1, HoldersMoved, Sizes
<1>4. m = fdup_all(k, p) /\ n = idup(m, cw)
  OBVIOUS
<1>5. x[child] = cw /\ \A s \in Procs \ {child} : x[s] = w[s]
  BY <1>1 DEF with
<1>6. v = with(ufiles, child, u)
  OBVIOUS
<1> HIDE DEF cw, c, m, u
<1>7. /\ Whole(m, c) /\ m.inodes = k.inodes
      /\ \A g \in Files : m.files[g].ref = k.files[g].ref + Cardinality(fds_upto(u, MAX_UFILE, g))
  BY <1>1, <1>2, <1>4, FdupAllIs
<1>8. Good(m) /\ NoneBut(m, 0) /\ Counted(m, c)
  BY <1>7 DEF Whole
<1>9. active(m, cw)
  BY <1>1, <1>8, CountedActive DEF Good, Sound
<1>10. Good(n) /\ Held(m, n, cw) /\ NoneBut(n, 0)
  BY <1>1, <1>4, <1>8, <1>9, IdupIs
<1>11. Whole(n, plus(c, cw)) /\ Same(m, n) /\ Kept(m, n) /\ n.files = m.files
  <2>1. n.files = m.files
    BY <1>10 DEF Held
  <2> QED
    BY <1>1, <1>7, <1>10, <2>1, WholeHeld
<1>12. Same(k, n)
  BY <1>7, <1>11, KeptFewer
<1>13. Whole(n, holders(x, q))
  <2>1. plus(c, cw) \in Counts
    BY <1>1, CountsType
  <2>2. minus(plus(c, cw), 0) = plus(c, cw)
    BY <2>1, MinusNone
  <2> QED
    BY <1>3, <1>11, <2>2
<1>14. /\ v \in Tables /\ v[child] = u /\ \A s \in Procs \ {child} : v[s] = ufiles[s]
       /\ \A g : /\ Cardinality(fds_on(v, g)) = Cardinality(fds_on(ufiles, g))
                        - Cardinality(fds_upto(ufiles[child], MAX_UFILE, g)) + Cardinality(fds_upto(u, MAX_UFILE, g))
                 /\ Cardinality(fds_on(ufiles, g)) \in Nat
  BY <1>1, <1>2, <1>6, FdsMoved
<1>15. \A g \in Files : n.files[g].ref = Cardinality(fds_on(v, g))
  <2> TAKE g \in Files
  <2> DEFINE o == ufiles[child]
             a == Cardinality(fds_upto(u, MAX_UFILE, g))
  <2>1. \A d \in Fds : o[d] = 0
    BY <1>1
  <2>2. Cardinality(fds_upto(o, MAX_UFILE, g)) = 0
    <3> HIDE DEF o
    <3> QED
      BY <2>1, NoneOpen
  <2>3. n.files[g].ref = Cardinality(fds_on(ufiles, g)) + a
    BY <1>1, <1>7, <1>11
  <2>4. Cardinality(fds_on(v, g)) = Cardinality(fds_on(ufiles, g)) - 0 + a /\ Cardinality(fds_on(ufiles, g)) \in Nat
    BY <1>14, <2>2
  <2> QED
    BY <2>3, <2>4
<1>16. \A s \in Procs : x[s] = 0 => \A d \in Fds : v[s][d] = 0
  BY <1>1, <1>5, <1>14, Sizes
<1> QED
  BY <1>3, <1>12, <1>13, <1>14, <1>15, <1>16, FitNext

LEMMA ExitFits ==
  ASSUME NEW k, NEW w, NEW q \in Slots, FitAt(k, ufiles, w, q), NEW p \in Procs, w[p] # 0,
         NEW n, n = iclose(fclose_all(k, p), w[p]),
         NEW v, v = with(ufiles, p, no_files), NEW x, x = with(w, p, 0)
  PROVE  FitAt(n, v, x, q)
<1> DEFINE cw == w[p]
           c == holders(w, q)
           m == fclose_all(k, p)
           u == ufiles[p]
<1>1. /\ cw \in Slots /\ c[cw] > 0 /\ Whole(k, c) /\ c \in Counts
      /\ ufiles \in Tables /\ w \in [Procs -> Ips]
      /\ \A f \in Files : k.files[f].ref = Cardinality(fds_on(ufiles, f))
      /\ \A s \in Procs : w[s] = 0 => \A d \in Fds : ufiles[s][d] = 0
  BY MayStart
<1>2. u = ufiles[p] /\ u \in [Fds -> 0 .. TOTAL_FILE]
  BY <1>1 DEF Tables
<1>3. x \in [Procs -> Ips] /\ holders(x, q) = minus(plus(c, 0), cw)
  BY <1>1, HoldersMoved, Sizes
<1>4. m = fclose_all(k, p) /\ n = iclose(m, cw)
  OBVIOUS
<1>5. x[p] = 0 /\ \A s \in Procs \ {p} : x[s] = w[s]
  BY <1>1 DEF with
<1>6. no_files \in [Fds -> 0 .. TOTAL_FILE] /\ \A d \in Fds : no_files[d] = 0
  BY Sizes DEF no_files
<1>7. /\ v \in Tables /\ v[p] = no_files /\ \A s \in Procs \ {p} : v[s] = ufiles[s]
      /\ \A g : /\ Cardinality(fds_on(v, g)) = Cardinality(fds_on(ufiles, g))
                        - Cardinality(fds_upto(u, MAX_UFILE, g)) + Cardinality(fds_upto(no_files, MAX_UFILE, g))
                /\ Cardinality(fds_on(ufiles, g)) >= Cardinality(fds_upto(u, MAX_UFILE, g))
                /\ Cardinality(fds_on(ufiles, g)) \in Nat
  BY <1>1, <1>6, FdsMoved
<1> HIDE DEF cw, c, m, u
<1>8. \A g \in Files : k.files[g].ref >= Cardinality(fds_upto(u, MAX_UFILE, g))
  BY <1>1, <1>7
<1>9. /\ Whole(m, c) /\ Fewer(k, m)
      /\ \A g \in Files : m.files[g].ref = k.files[g].ref - Cardinality(fds_upto(u, MAX_UFILE, g))
  BY <1>1, <1>2, <1>4, <1>8, FcloseAllIs
<1>10. Whole(n, minus(c, cw)) /\ Fewer(m, n) /\ n.files = m.files
  BY <1>1, <1>4, <1>9, WholeClosed
<1>11. Same(k, n)
  BY <1>9, <1>10, KeptFewer
<1>12. Whole(n, holders(x, q))
  BY <1>1, <1>3, <1>10, MinusNone
<1>13. \A g \in Files : n.files[g].ref = Cardinality(fds_on(v, g))
  <2> TAKE g \in Files
  <2> DEFINE a == Cardinality(fds_upto(u, MAX_UFILE, g))
  <2>2. Cardinality(fds_upto(no_files, MAX_UFILE, g)) = 0
    BY <1>6, NoneOpen
  <2>3. n.files[g].ref = Cardinality(fds_on(ufiles, g)) - a
    BY <1>1, <1>9, <1>10
  <2>5. a \in Nat
    <3>1. fds_upto(u, MAX_UFILE, g) \subseteq 1 .. MAX_UFILE
      BY DEF fds_upto
    <3> QED
      BY <3>1, FdsFinite, FS_Subset, FS_CardinalityType
  <2>4. Cardinality(fds_on(v, g)) = Cardinality(fds_on(ufiles, g)) - a + 0 /\ Cardinality(fds_on(ufiles, g)) \in Nat
    BY <1>7, <2>2
  <2> HIDE DEF a
  <2> QED
    BY <2>3, <2>4, <2>5
<1>14. \A s \in Procs : x[s] = 0 => \A d \in Fds : v[s][d] = 0
  BY <1>1, <1>5, <1>6, <1>7
<1> QED
  BY <1>3, <1>7, <1>11, <1>12, <1>13, <1>14, FitNext

\* The tables of the processes when the first one starts.
first_files == [p \in Procs |-> no_files]
first_cwd(i) == [p \in Procs |-> IF p = First THEN i ELSE 0]

LEMMA BootFits ==
  ASSUME NEW k0, Good(k0), root \in Inos, k0.disk.dinode[root].type # "NONE",
         NEW r, r = boot(k0.disk), ~ Stopped(r.k)
  PROVE  \E q \in Slots : FitAt(r.k, first_files, first_cwd(r.ip), q)
<1>1. /\ r.ip \in Slots
      /\ \A f \in Files : r.k.files[f].ref = 0
      /\ \E q \in Slots : /\ Whole(r.k, plus(plus(none, q), r.ip))
                          /\ active(r.k, q) /\ r.k.inodes[q].no = root
  BY BootIs
<1>2. PICK q \in Slots : Whole(r.k, plus(plus(none, q), r.ip)) /\ r.k.inodes[q].no = root
  BY <1>1
<1> DEFINE z == [p \in Procs |-> 0]
           w == first_cwd(r.ip)
<1>3. z \in [Procs -> Ips] /\ First \in Procs /\ w = with(z, First, r.ip) /\ r.ip \in Ips /\ z[First] = 0
  <2>1. First \in Procs /\ 0 \in Ips /\ r.ip \in Ips
    BY <1>1, Sizes, FsAssumption
  <2>2. w = with(z, First, r.ip)
    BY <2>1 DEF first_cwd, with
  <2> QED
    BY <2>1, <2>2
<1>4. holders(z, q) = plus(none, q)
  <2>1. ASSUME NEW i \in Slots PROVE Cardinality(dirs_on(z, i)) = 0
    <3>1. dirs_on(z, i) = {}
      BY Sizes DEF dirs_on
    <3> QED
      BY <3>1, FS_EmptySet
  <2> HIDE DEF z
  <2> QED
    BY <2>1 DEF holders, plus, none
<1>5. \A p \in Procs, fd \in Fds : first_files[p][fd] = 0
  BY DEF first_files, no_files
<1>6. first_files \in Tables
  BY Sizes DEF first_files, no_files, Tables
<1> HIDE DEF z, w
<1>7. w \in [Procs -> Ips] /\ holders(w, q) = minus(plus(holders(z, q), r.ip), z[First])
  BY <1>3, HoldersMoved
<1>8. plus(plus(none, q), r.ip) \in Counts
  <2>1. none \in Counts
    BY DEF none, Counts
  <2> QED
    BY <2>1, CountsType
<1>9. holders(w, q) = plus(plus(none, q), r.ip)
  BY <1>3, <1>4, <1>7, <1>8, MinusNone
<1>10. \A f \in Files : Cardinality(fds_on(first_files, f)) = 0
  <2> TAKE f \in Files
  <2>1. fds_on(first_files, f) = {}
    BY <1>5 DEF fds_on, Files
  <2> QED
    BY <2>1, FS_EmptySet
<1>11. FitAt(r.k, first_files, w, q)
  BY <1>1, <1>2, <1>5, <1>6, <1>7, <1>9, <1>10 DEF FitAt
<1> QED
  BY <1>11 DEF w

LEMMA IInvInit == Init => IInv
<1> SUFFICES ASSUME Init PROVE IInv
  OBVIOUS
<1> DEFINE r == boot(mkfs)
<1>1. /\ disk = r.k.disk /\ inodes = r.k.inodes /\ files = r.k.files
      /\ ufiles = first_files /\ cwd = first_cwd(r.ip)
  BY DEF Init, first_files, first_cwd
<1>2. r.k.fault = "no"
  BY BootSucceeds
<1>3. r = boot(mkfs_kernel.disk) /\ ~ Stopped(r.k)
  BY <1>2 DEF mkfs, Stopped
<1>4. Good(mkfs_kernel) /\ root \in Inos /\ mkfs_kernel.disk.dinode[root].type # "NONE"
  BY MkfsIs DEF Rooted, Idle
<1> HIDE DEF r
<1>5. PICK q \in Slots : FitAt(r.k, first_files, first_cwd(r.ip), q)
  BY <1>3, <1>4, BootFits
<1>6. r.k \in Kernel
  BY <1>5, FitParts
<1>7. data_now = r.k
  BY <1>1, <1>2, <1>6 DEF data_now, Kernel
<1> QED
  BY <1>1, <1>5, <1>7 DEF IInv

\* The machine is switched on again.
LEMMA RestartFits ==
  ASSUME IInv, NEW r, r = boot(disk), ~ Stopped(r.k)
  PROVE  \E q \in Slots : FitAt(r.k, first_files, first_cwd(r.ip), q)
<1>1. PICK q \in Slots : FitAt(data_now, ufiles, cwd, q)
  BY DEF IInv
<1>2. Good(data_now) /\ NoneBut(data_now, 0) /\ active(data_now, q)
      /\ data_now.inodes[q].no = root /\ root \in Inos
  BY <1>1, FitParts
<1>3. type_of(data_now, q) # "NONE"
  BY <1>2, Sizes DEF NoneBut
<1>4. data_now.disk = disk
  BY DEF data_now
<1>5. disk.dinode[root].type # "NONE"
  BY <1>2, <1>3, <1>4 DEF Good, Sound, Sync, type_of
<1> QED
  BY <1>2, <1>4, <1>5, BootFits

-----------------------------------------------------------------------------
(***************************************************************************)
(* The steps.                                                              *)
(***************************************************************************)

\* The write of one byte, as often as a program likes.
LEMMA BytesWritten ==
  ASSUME NEW n \in Lens, NEW v \in Bytes
  PROVE  n \in Nat /\ [i \in 1 .. n |-> cell(v)] \in Seq(Cell)
<1>1. n \in Nat /\ v \in Nat
  BY FsAssumption
<1>2. cell(v) \in Cell
  BY <1>1 DEF cell, dirent, Cell, Names
<1> QED
  BY <1>1, <1>2

\* A process makes a call.
LEMMA CallBegins ==
  ASSUME IInv, NEW p \in Procs, calls(p)
  PROVE  \E q \in Slots : FitAt(k_now, ufiles, cwd, q) /\ cwd[p] # 0 /\ ufiles \in Tables
<1>1. PICK q \in Slots : FitAt(data_now, ufiles, cwd, q)
  BY DEF IInv
<1>2. ufiles \in Tables
  BY <1>1, FitParts
<1> QED
  BY <1>1, <1>2, Calling

LEMMA OpenStep ==
  ASSUME IInv, NEW p \in Procs, NEW path \in Paths[p], NEW mode, sys_open(p, path, mode)
  PROVE  IInv'
<1> DEFINE fd == proc_allocfile(p)
           r == fopen(k_now, cwd[p], path, mode)
           v == with_fd(ufiles, p, fd, r.fp)
<1>1. calls(p) /\ fd # 0 /\ commit(r.k, v, cwd)
  BY DEF sys_open, with_fd
<1>2. PICK q \in Slots : FitAt(k_now, ufiles, cwd, q) /\ cwd[p] # 0 /\ ufiles \in Tables
  BY <1>1, CallBegins
<1>3. fd \in Fds /\ ufiles[p][fd] = 0
  <2>1. fd = proc_allocfile(p)
    OBVIOUS
  <2> HIDE DEF fd
  <2> QED
    BY <1>1, <1>2, <2>1, AllocFd
<1>4. path \in Path
  BY PathType
<1>5. r = fopen(k_now, cwd[p], path, mode) /\ v = with_fd(ufiles, p, fd, r.fp)
  OBVIOUS
<1> HIDE DEF fd, r, v
<1>6. ~ Stopped(r.k) => FitAt(r.k, v, cwd, q)
  BY <1>2, <1>3, <1>4, <1>5, OpenFits
<1> QED
  BY <1>1, <1>6, Committed

LEMMA CloseStep ==
  ASSUME IInv, NEW p \in Procs, NEW fd \in Fds, sys_close(p, fd)
  PROVE  IInv'
<1> DEFINE n == fclose(k_now, ufiles[p][fd])
           v == with_fd(ufiles, p, fd, 0)
<1>1. calls(p) /\ ufiles[p][fd] # 0 /\ commit(n, v, cwd)
  BY DEF sys_close, with_fd
<1>2. PICK q \in Slots : FitAt(k_now, ufiles, cwd, q) /\ cwd[p] # 0
  BY <1>1, CallBegins
<1>3. n = fclose(k_now, ufiles[p][fd]) /\ v = with_fd(ufiles, p, fd, 0)
  OBVIOUS
<1> HIDE DEF n, v
<1>4. FitAt(n, v, cwd, q)
  BY <1>1, <1>2, <1>3, CloseFits
<1> QED
  BY <1>1, <1>4, Committed

LEMMA DupStep ==
  ASSUME IInv, NEW p \in Procs, NEW fd \in Fds, sys_dup(p, fd)
  PROVE  IInv'
<1> DEFINE d == proc_allocfile(p)
           n == fdup(k_now, ufiles[p][fd])
           v == with_fd(ufiles, p, d, ufiles[p][fd])
<1>1. calls(p) /\ d # 0 /\ ufiles[p][fd] # 0 /\ commit(n, v, cwd)
  BY DEF sys_dup, with_fd
<1>2. PICK q \in Slots : FitAt(k_now, ufiles, cwd, q) /\ cwd[p] # 0 /\ ufiles \in Tables
  BY <1>1, CallBegins
<1>3. d \in Fds /\ ufiles[p][d] = 0
  <2>1. d = proc_allocfile(p)
    OBVIOUS
  <2> HIDE DEF d
  <2> QED
    BY <1>1, <1>2, <2>1, AllocFd
<1>4. n = fdup(k_now, ufiles[p][fd]) /\ v = with_fd(ufiles, p, d, ufiles[p][fd])
  OBVIOUS
<1> HIDE DEF d, n, v
<1>5. FitAt(n, v, cwd, q)
  BY <1>1, <1>2, <1>3, <1>4, DupFits
<1> QED
  BY <1>1, <1>5, Committed

\* A read, a write or a seek changes one open file.
LEMMA TransferStep ==
  ASSUME IInv, NEW p \in Procs, NEW fd \in Fds, calls(p), ufiles[p][fd] # 0, NEW n,
         commit(n, ufiles, cwd),
         \/ \E len \in Lens : n = fread(k_now, ufiles[p][fd], len)
         \/ \E buf \in Seq(Cell) : n = fwrite(k_now, ufiles[p][fd], buf)
         \/ \E off \in Int : \E whence : n = fseek(k_now, ufiles[p][fd], off, whence)
  PROVE  IInv'
<1>1. PICK q \in Slots : FitAt(k_now, ufiles, cwd, q)
  BY CallBegins
<1> DEFINE f == ufiles[p][fd]
           c == holders(cwd, q)
<1>2. f \in Files /\ k_now.files[f].ref > 0
  BY <1>1, Described
<1>3. Whole(k_now, c) /\ c \in Counts
  BY <1>1, FitParts
<1>4. \/ \E len \in Lens : n = fread(k_now, f, len)
      \/ \E buf \in Seq(Cell) : n = fwrite(k_now, f, buf)
      \/ \E off \in Int : \E whence : n = fseek(k_now, f, off, whence)
  OBVIOUS
<1>5. ASSUME ~ Stopped(n)
      PROVE  Whole(n, c) /\ Same(k_now, n) /\ \A g \in Files : n.files[g].ref = k_now.files[g].ref
  <2> HIDE DEF f, c
  <2>1. CASE \E len \in Lens : n = fread(k_now, f, len)
    BY <1>2, <1>3, <1>5, <2>1, FreadIs
  <2>2. CASE \E buf \in Seq(Cell) : n = fwrite(k_now, f, buf)
    BY <1>2, <1>3, <1>5, <2>2, FwriteIs
  <2>3. CASE \E off \in Int : \E whence : n = fseek(k_now, f, off, whence)
    BY <1>2, <1>3, <1>5, <2>3, FseekIs
  <2> QED
    BY <1>4, <2>1, <2>2, <2>3
<1>6. ~ Stopped(n) => FitAt(n, ufiles, cwd, q)
  BY <1>1, <1>5, SameFits
<1> QED
  BY <1>6, Committed

LEMMA ChdirStep ==
  ASSUME IInv, NEW p \in Procs, NEW path \in Paths[p], sys_chdir(p, path)
  PROVE  IInv'
<1> DEFINE r == iopen(k_now, cwd[p], path, "NONE")
           n == iclose(r.k, cwd[p])
           m == IF r.ip = 0 THEN r.k ELSE iclose(r.k, r.ip)
           x == with(cwd, p, r.ip)
<1>1. calls(p) /\ chdir_to(p, r)
  BY DEF sys_chdir
<1>2. PICK q \in Slots : FitAt(k_now, ufiles, cwd, q) /\ cwd[p] # 0
  BY <1>1, CallBegins
<1>3. path \in Path
  BY PathType
<1>4. /\ r = iopen(k_now, cwd[p], path, "NONE") /\ n = iclose(r.k, cwd[p]) /\ x = with(cwd, p, r.ip)
      /\ m = IF r.ip = 0 THEN r.k ELSE iclose(r.k, r.ip)
  OBVIOUS
<1>5. CASE r.ip # 0 /\ type_of(r.k, r.ip) = "DIR"
  <2>1. commit(n, ufiles, x)
    BY <1>1, <1>5 DEF chdir_to, with
  <2> HIDE DEF r, n, m, x
  <2>2. ~ Stopped(n) => FitAt(n, ufiles, x, q)
    BY <1>2, <1>3, <1>4, <1>5, ChdirFits
  <2> QED
    BY <2>1, <2>2, Committed
<1>6. CASE ~ (r.ip # 0 /\ type_of(r.k, r.ip) = "DIR")
  <2>1. commit(m, ufiles, cwd)
    BY <1>1, <1>6 DEF chdir_to
  <2> HIDE DEF r, n, m, x
  <2>2. ~ Stopped(m) => FitAt(m, ufiles, cwd, q)
    BY <1>2, <1>3, <1>4, ChdirBackFits
  <2> QED
    BY <2>1, <2>2, Committed
<1> QED
  BY <1>5, <1>6

LEMMA UnlinkStep ==
  ASSUME IInv, NEW p \in Procs, NEW path \in Paths[p], sys_unlink(p, path)
  PROVE  IInv'
<1> DEFINE n == iremove(k_now, cwd[p], path)
<1>1. calls(p) /\ commit(n, ufiles, cwd)
  BY DEF sys_unlink
<1>2. PICK q \in Slots : FitAt(k_now, ufiles, cwd, q) /\ cwd[p] # 0
  BY <1>1, CallBegins
<1>3. path \in Path
  BY PathType
<1>4. n = iremove(k_now, cwd[p], path)
  OBVIOUS
<1> HIDE DEF n
<1>5. ~ Stopped(n) => FitAt(n, ufiles, cwd, q)
  BY <1>2, <1>3, <1>4, UnlinkFits
<1> QED
  BY <1>1, <1>5, Committed

LEMMA ForkStep ==
  ASSUME IInv, NEW p \in Procs, NEW child \in Procs, sys_fork(p, child)
  PROVE  IInv'
<1> DEFINE n == idup(fdup_all(k_now, p), cwd[p])
           v == with(ufiles, child, ufiles[p])
           x == with(cwd, child, cwd[p])
<1>1. calls(p) /\ cwd[child] = 0 /\ commit(n, v, x)
  BY DEF sys_fork, with, alive
<1>2. PICK q \in Slots : FitAt(k_now, ufiles, cwd, q) /\ cwd[p] # 0
  BY <1>1, CallBegins
<1>3. n = idup(fdup_all(k_now, p), cwd[p]) /\ v = with(ufiles, child, ufiles[p]) /\ x = with(cwd, child, cwd[p])
  OBVIOUS
<1> HIDE DEF n, v, x
<1>4. FitAt(n, v, x, q)
  BY <1>1, <1>2, <1>3, ForkFits
<1> QED
  BY <1>1, <1>4, Committed

LEMMA ExitStep ==
  ASSUME IInv, NEW p \in Procs, sys_exit(p)
  PROVE  IInv'
<1> DEFINE n == iclose(fclose_all(k_now, p), cwd[p])
           v == with(ufiles, p, no_files)
           x == with(cwd, p, 0)
<1>1. calls(p) /\ commit(n, v, x)
  BY DEF sys_exit, with
<1>2. PICK q \in Slots : FitAt(k_now, ufiles, cwd, q) /\ cwd[p] # 0
  BY <1>1, CallBegins
<1>3. n = iclose(fclose_all(k_now, p), cwd[p]) /\ v = with(ufiles, p, no_files) /\ x = with(cwd, p, 0)
  OBVIOUS
<1> HIDE DEF n, v, x
<1>4. FitAt(n, v, x, q)
  BY <1>1, <1>2, <1>3, ExitFits
<1> QED
  BY <1>1, <1>4, Committed

LEMMA RestartStep ==
  ASSUME IInv, restart
  PROVE  IInv'
<1> DEFINE r == boot(disk)
<1>1. commit(r.k, first_files, first_cwd(r.ip))
  BY DEF restart, first_files, first_cwd
<1>2. r = boot(disk)
  OBVIOUS
<1> HIDE DEF r
<1>3. ~ Stopped(r.k) => \E q \in Slots : FitAt(r.k, first_files, first_cwd(r.ip), q)
  BY <1>2, RestartFits
<1> QED
  BY <1>1, <1>3, Committed

LEMMA IInvNext == IInv /\ [Next]_vars => IInv'
<1> SUFFICES ASSUME IInv, [Next]_vars PROVE IInv'
  OBVIOUS
<1>1. CASE UNCHANGED vars
  BY <1>1 DEF vars, IInv, data_now, FitAt
<1>2. ASSUME NEW p \in Procs, NEW path \in Paths[p], NEW mode \in Modes, sys_open(p, path, mode)
      PROVE  IInv'
  BY <1>2, OpenStep
<1>3. ASSUME NEW p \in Procs, NEW path \in Paths[p], sys_chdir(p, path) PROVE IInv'
  BY <1>3, ChdirStep
<1>4. ASSUME NEW p \in Procs, NEW path \in Paths[p], sys_unlink(p, path) PROVE IInv'
  BY <1>4, UnlinkStep
<1>5. ASSUME NEW p \in Procs, NEW fd \in Fds, sys_close(p, fd) PROVE IInv'
  BY <1>5, CloseStep
<1>6. ASSUME NEW p \in Procs, NEW fd \in Fds, sys_dup(p, fd) PROVE IInv'
  BY <1>6, DupStep
<1>7. ASSUME NEW p \in Procs, NEW fd \in Fds, NEW s \in Seeks, sys_lseek(p, fd, s.off, s.whence)
      PROVE  IInv'
  <2>1. s.off \in Int
    BY FsAssumption
  <2> QED
    BY <1>7, <2>1, TransferStep DEF sys_lseek
<1>8. ASSUME NEW p \in Procs, NEW fd \in Fds, NEW n \in Lens, sys_read(p, fd, n) PROVE IInv'
  BY <1>8, TransferStep DEF sys_read
<1>9. ASSUME NEW p \in Procs, NEW fd \in Fds, NEW n \in Lens, NEW v \in Bytes,
             sys_write(p, fd, [i \in 1 .. n |-> cell(v)])
      PROVE  IInv'
  <2> DEFINE buf == [i \in 1 .. n |-> cell(v)]
  <2>1. buf \in Seq(Cell)
    BY BytesWritten
  <2>2. sys_write(p, fd, buf)
    BY <1>9
  <2> HIDE DEF buf
  <2> QED
    BY <2>1, <2>2, TransferStep DEF sys_write
<1>10. ASSUME NEW p \in Procs, NEW child \in Procs, sys_fork(p, child) PROVE IInv'
  BY <1>10, ForkStep
<1>11. ASSUME NEW p \in Procs, sys_exit(p) PROVE IInv'
  BY <1>11, ExitStep
<1>12. CASE restart
  BY <1>12, RestartStep
<1>13. CASE stopped
  BY <1>1, <1>13 DEF stopped
<1> QED
  BY <1>1, <1>2, <1>3, <1>4, <1>5, <1>6, <1>7, <1>8, <1>9, <1>10, <1>11, <1>12, <1>13 DEF Next

LEMMA Invariant == Spec => []IInv
<1> QED
  BY IInvInit, IInvNext, PTL DEF Spec

-----------------------------------------------------------------------------
(***************************************************************************)
(* The theorems.                                                           *)
(***************************************************************************)

LEMMA RefsCountedNow == IInv => RefsCounted
<1> SUFFICES ASSUME IInv PROVE RefsCounted
  OBVIOUS
<1>1. PICK q \in Slots : FitAt(data_now, ufiles, cwd, q)
  BY DEF IInv
<1>2. /\ Good(data_now) /\ Counted(data_now, holders(cwd, q)) /\ data_now \in Kernel
      /\ active(data_now, q) /\ data_now.inodes[q].no = root
      /\ \A f \in Files : data_now.files[f].ref = Cardinality(fds_on(ufiles, f))
  BY <1>1, FitParts DEF Whole
<1>3. data_now.inodes = inodes /\ data_now.files = files
  BY DEF data_now
<1>4. FileRefs
  BY <1>2, <1>3 DEF FileRefs, fds_on
<1>5. ASSUME NEW i \in Slots
      PROVE  inodes[i].ref = Cardinality({f \in Files : files[f].ref > 0 /\ files[f].inode = i})
                  + Cardinality({p \in Procs : cwd[p] = i})
                  + (IF inodes[i].ref > 0 /\ inodes[i].no = root THEN 1 ELSE 0)
  <2> DEFINE F == {f \in Files : files[f].ref > 0 /\ files[f].inode = i}
             P == {p \in Procs : cwd[p] = i}
             x == IF inodes[i].ref > 0 /\ inodes[i].no = root THEN 1 ELSE 0
  <2>1. F = files_on(data_now, i)
    BY <1>3 DEF files_on, on_slot
  <2>2. P = dirs_on(cwd, i)
    BY DEF dirs_on
  <2>3. x = one(i = q)
    <3>1. CASE i = q
      BY <1>2, <1>3, <3>1 DEF one, active
    <3>2. CASE i # q
      <4>1. ~ (inodes[i].ref > 0 /\ inodes[i].no = root)
        BY <1>2, <1>3, <3>2 DEF Good, Sound, Distinct, active
      <4> QED
        BY <3>2, <4>1 DEF one
    <3> QED
      BY <3>1, <3>2
  <2>4. holders(cwd, q)[i] = Cardinality(P) + x
    BY <2>2, <2>3, HoldersType
  <2>5. inodes[i].ref = Cardinality(F) + holders(cwd, q)[i]
    BY <1>2, <1>3, <2>1 DEF Counted, Owed
  <2>6. Cardinality(F) \in Nat /\ Cardinality(P) \in Nat /\ x \in Nat
    <3>1. IsFiniteSet(Files)
      BY Sizes, FS_Interval DEF Files
    <3>2. F \subseteq Files
      OBVIOUS
    <3>3. Cardinality(F) \in Nat
      BY <3>1, <3>2, FS_Subset, FS_CardinalityType
    <3>4. Cardinality(P) \in Nat
      BY <2>2, DirsFinite
    <3> QED
      BY <3>3, <3>4
  <2> HIDE DEF F, P, x
  <2>7. inodes[i].ref = Cardinality(F) + Cardinality(P) + x
    BY <2>4, <2>5, <2>6
  <2> QED
    BY <2>7 DEF F, P, x
<1>6. InodeRefs
  BY <1>5 DEF InodeRefs
<1> QED
  BY <1>4, <1>6 DEF RefsCounted

\* Reference counts of open files (filealloc, fdup, fclose in file.c) and of active
\* inodes (iget, idup, iclose in fs.c) are exactly the numbers of descriptors, open
\* files and current directories on them, after any calls of any processes.
THEOREM RefsAreCounted == Spec => []RefsCounted
<1> QED
  BY Invariant, RefsCountedNow, PTL

LEMMA InodeCacheSyncNow == IInv => InodeCacheSync
<1> SUFFICES ASSUME IInv PROVE InodeCacheSync
  OBVIOUS
<1>1. PICK q \in Slots : FitAt(data_now, ufiles, cwd, q)
  BY DEF IInv
<1>2. Good(data_now) /\ NoneBut(data_now, 0)
  BY <1>1, FitParts
<1>3. data_now.inodes = inodes /\ data_now.disk = disk
  BY DEF data_now
<1>4. ASSUME NEW i \in Slots, inodes[i].ref > 0
      PROVE  /\ inodes[i].dinode = disk.dinode[inodes[i].no]
             /\ inodes[i].dinode.type # "NONE"
             /\ \A j \in Slots \ {i} : inodes[j].ref > 0 => inodes[j].no # inodes[i].no
  <2>1. active(data_now, i)
    BY <1>3, <1>4 DEF active
  <2>2. inodes[i].dinode = disk.dinode[inodes[i].no]
    BY <1>2, <1>3, <2>1 DEF Good, Sound, Sync
  <2>3. inodes[i].dinode.type # "NONE"
    BY <1>2, <1>3, <2>1, Sizes DEF NoneBut, type_of
  <2>4. \A j \in Slots \ {i} : inodes[j].ref > 0 => inodes[j].no # inodes[i].no
    BY <1>2, <1>3, <1>4 DEF Good, Sound, Distinct, active
  <2> QED
    BY <2>2, <2>3, <2>4
<1> QED
  BY <1>4 DEF InodeCacheSync

\* The copy of an inode in the table of active inodes is the inode on the disk, an
\* active inode exists, and none is active in two slots: every change of a copy is
\* followed by iupdate before the call ends (fs.c:262), also where it fails halfway.
THEOREM InodesInSync == Spec => []InodeCacheSync
<1> QED
  BY Invariant, InodeCacheSyncNow, PTL

\* The place of an address, and its block.
place(a) == IF a[2] = "addr" THEN a[3] ELSE NDIRECT + 1 + a[3]

LEMMA AddressPlace ==
  ASSUME NEW a \in addresses
  PROVE  /\ a[1] \in Inos /\ place(a) \in Places /\ block_at(a) = At(data_now, a[1], place(a))
         /\ a[2] \in {"addr", "indirect"} /\ a[3] \in Nat /\ a = <<a[1], a[2], a[3]>>
         /\ a[2] = "addr" => a[3] <= NDIRECT
<1>1. data_now.disk = disk
  BY DEF data_now
<1>2. NDIRECT \in Nat /\ NINDIRECT \in Nat
  BY Sizes DEF NINDIRECT
<1>3. CASE \E no \in Inos, i \in 0 .. NDIRECT : a = <<no, "addr", i>>
  <2>1. PICK no \in Inos, i \in 0 .. NDIRECT : a = <<no, "addr", i>>
    BY <1>3
  <2>2. a[1] = no /\ a[2] = "addr" /\ a[3] = i /\ place(a) = i /\ i <= NDIRECT /\ i \in Nat
    BY <1>2, <2>1 DEF place
  <2>3. block_at(a) = At(data_now, no, i)
    BY <1>1, <2>2 DEF block_at, At
  <2>4. i \in Places
    BY <1>2 DEF Places
  <2> QED
    BY <2>1, <2>2, <2>3, <2>4
<1>4. CASE \E no \in {n \in Inos : disk.dinode[n].addrs[NDIRECT] # 0}, i \in 0 .. NINDIRECT - 1 :
             a = <<no, "indirect", i>>
  <2>1. PICK no \in {n \in Inos : disk.dinode[n].addrs[NDIRECT] # 0}, i \in 0 .. NINDIRECT - 1 :
             a = <<no, "indirect", i>>
    BY <1>4
  <2> DEFINE e == NDIRECT + 1 + i
  <2>2. /\ a[1] = no /\ a[2] = "indirect" /\ a[3] = i /\ place(a) = e /\ i \in Nat
        /\ no \in Inos /\ disk.dinode[no].addrs[NDIRECT] # 0
    BY <1>2, <2>1 DEF place
  <2>3. e \in Nat /\ e <= NDIRECT + NINDIRECT /\ ~ (e <= NDIRECT) /\ e - NDIRECT - 1 = i
    BY <1>2
  <2> HIDE DEF e
  <2>4. block_at(a) = At(data_now, no, e)
    BY <1>1, <2>2, <2>3 DEF block_at, At
  <2>5. e \in Places
    BY <1>2, <2>3 DEF Places
  <2> QED
    BY <2>1, <2>2, <2>4, <2>5
<1> QED
  BY <1>3, <1>4 DEF addresses

LEMMA BlocksOwnedNow == IInv => BlocksOwnedOnce
<1> SUFFICES ASSUME IInv PROVE BlocksOwnedOnce
  OBVIOUS
<1>1. PICK q \in Slots : FitAt(data_now, ufiles, cwd, q)
  BY DEF IInv
<1>2. Own(data_now) /\ data_now \in Kernel
  BY <1>1, FitParts DEF Good, Sound
<1>3. data_now.disk = disk
  BY DEF data_now
<1>4. disk.bitmap \in SUBSET (Blocks \ {0})
  BY <1>2, <1>3, KernelParts
<1> DEFINE used == {a \in addresses : block_at(a) # 0}
<1>5. \A a \in used : block_at(a) \in disk.bitmap
  BY <1>2, <1>3, AddressPlace DEF Own
<1>6. \A a, b \in used : block_at(a) = block_at(b) => a = b
  <2> SUFFICES ASSUME NEW a \in used, NEW b \in used, block_at(a) = block_at(b) PROVE a = b
    OBVIOUS
  <2>1. /\ a[1] \in Inos /\ place(a) \in Places /\ block_at(a) = At(data_now, a[1], place(a))
        /\ a[2] \in {"addr", "indirect"} /\ a[3] \in Nat /\ a = <<a[1], a[2], a[3]>>
        /\ a[2] = "addr" => a[3] <= NDIRECT
    BY AddressPlace
  <2>2. /\ b[1] \in Inos /\ place(b) \in Places /\ block_at(b) = At(data_now, b[1], place(b))
        /\ b[2] \in {"addr", "indirect"} /\ b[3] \in Nat /\ b = <<b[1], b[2], b[3]>>
        /\ b[2] = "addr" => b[3] <= NDIRECT
    BY AddressPlace
  <2>3. a[1] = b[1] /\ place(a) = place(b)
    <3>1. At(data_now, a[1], place(a)) = At(data_now, b[1], place(b)) /\ At(data_now, a[1], place(a)) # 0
      BY <2>1, <2>2
    <3>2. \A no, mo \in Inos, i, j \in Places :
            At(data_now, no, i) = At(data_now, mo, j) /\ At(data_now, no, i) # 0 => no = mo /\ i = j
      BY <1>2 DEF Own
    <3> QED
      BY <2>1, <2>2, <3>1, <3>2
  <2>4. a[2] = b[2] /\ a[3] = b[3]
    BY <2>1, <2>2, <2>3, Sizes DEF place
  <2> QED
    BY <2>1, <2>2, <2>3, <2>4
<1>7. ASSUME NEW b \in disk.bitmap PROVE \E a \in used : block_at(a) = b
  <2>1. PICK no \in Inos, i \in Places : At(data_now, no, i) = b
    BY <1>2, <1>3 DEF Own
  <2>2. b # 0
    BY <1>4
  <2>3. CASE i <= NDIRECT
    <3>1. <<no, "addr", i>> \in addresses
      BY <2>3, Sizes DEF addresses, Places
    <3>2. block_at(<<no, "addr", i>>) = b
      BY <1>3, <2>1, <2>3 DEF At, block_at
    <3> QED
      BY <2>2, <3>1, <3>2
  <2>4. CASE ~ (i <= NDIRECT)
    <3> DEFINE j == i - NDIRECT - 1
    <3>1. disk.dinode[no].addrs[NDIRECT] # 0 /\ disk.blk[disk.dinode[no].addrs[NDIRECT]][j].inode = b
      BY <1>3, <2>1, <2>2, <2>4 DEF At
    <3>2. j \in 0 .. NINDIRECT - 1
      BY <2>4, Sizes DEF Places, NINDIRECT
    <3> HIDE DEF j
    <3>3. <<no, "indirect", j>> \in addresses
      BY <3>1, <3>2 DEF addresses
    <3>4. block_at(<<no, "indirect", j>>) = b
      BY <3>1 DEF block_at
    <3> QED
      BY <2>2, <3>3, <3>4
  <2> QED
    BY <2>3, <2>4
<1>8. {block_at(a) : a \in used} = disk.bitmap
  <2> HIDE DEF used
  <2> QED
    BY <1>5, <1>7
<1>9. IsFiniteSet(disk.bitmap)
  <2>1. IsFiniteSet(0 .. BLK_NUM)
    BY Sizes, FS_Interval
  <2> QED
    BY <1>4, <2>1, FS_Subset DEF Blocks
<1> HIDE DEF used
<1> DEFINE f == [a \in used |-> block_at(a)]
<1>10. f \in Bijection(used, disk.bitmap)
  BY <1>5, <1>6, <1>7 DEF Bijection, Injection, Surjection, IsInjective
<1>11. ExistsBijection(used, disk.bitmap)
  BY <1>10 DEF ExistsBijection
<1>12. Cardinality(used) = Cardinality(disk.bitmap)
  BY <1>9, <1>11, FS_Bijection, Fun_ExistsBijSymmetric
<1> QED
  BY <1>8, <1>12 DEF BlocksOwnedOnce, used

\* A block is marked in the bitmap exactly when one address of one inode, or one cell
\* of one indirect block, names it: whatever balloc, iwalk, itrunc and iclose do for
\* any processes, files never share a block and no block is lost (fs.c:193-228,
\* 418-451, 513-537).
THEOREM BlocksAreOwnedOnce == Spec => []BlocksOwnedOnce
<1> QED
  BY Invariant, BlocksOwnedNow, PTL

\* The content of an inode is the cells that a read walks to: its file has no hole.
LEMMA ContentIs ==
  ASSUME NEW k, Good(k), k.disk = disk, NEW no \in Inos
  PROVE  /\ disk.dinode[no].size \in Nat
         /\ content(no) = [j \in 1 .. disk.dinode[no].size |-> cell_at(k, no, j - 1)]
<1> DEFINE size == disk.dinode[no].size
<1>1. size \in Nat
  BY KernelParts DEF Good, Sound, Dinode
<1> HIDE DEF size
<1>2. ASSUME NEW j \in 1 .. size
      PROVE  disk.blk[data_block(no, (j - 1) \div BLK_SIZE)][(j - 1) % BLK_SIZE] = cell_at(k, no, j - 1)
  <2> DEFINE m == (j - 1) \div BLK_SIZE
  <2>1. Filled(k, no, m)
    BY <1>1 DEF Good, Solid, size
  <2>2. m \in Nat
    BY <1>1, Position
  <2> HIDE DEF m
  <2>3. data_block(no, m) = At(k, no, block_place(m))
    <3>1. CASE m < NDIRECT
      BY <2>2, <3>1, Sizes DEF data_block, At, block_place
    <3>2. CASE ~ (m < NDIRECT)
      <4> DEFINE i == block_place(m)
      <4>1. ~ (i <= NDIRECT) /\ i - NDIRECT - 1 = m - NDIRECT
        BY <2>2, <3>2, Sizes DEF block_place
      <4> HIDE DEF i
      <4>2. At(k, no, i) # 0
        BY <2>1 DEF Filled, i
      <4>3. At(k, no, i) = disk.blk[disk.dinode[no].addrs[NDIRECT]][m - NDIRECT].inode
        BY <4>1, <4>2 DEF At
      <4>4. data_block(no, m) = disk.blk[disk.dinode[no].addrs[NDIRECT]][m - NDIRECT].inode
        BY <3>2 DEF data_block
      <4> QED
        BY <4>3, <4>4 DEF i
    <3> QED
      BY <3>1, <3>2
  <2> QED
    BY <2>3 DEF cell_at, m
<1>3. content(no) = [j \in 1 .. size |-> cell_at(k, no, j - 1)]
  BY <1>2 DEF content, size
<1> QED
  BY <1>1, <1>3 DEF size

LEMMA ReadsReturnNow == IInv => ReadsReturnContent
<1> SUFFICES ASSUME IInv, NEW f \in Files, NEW n \in Lens,
                    halted = "no", files[f].ref > 0, files[f].type = "FILE",
                    files[f].offset <= Len(content(inodes[files[f].inode].no))
             PROVE  LET data == content(inodes[files[f].inode].no)
                        r == iread(k_now, files[f].inode, files[f].offset, n)
                    IN  /\ r.k = k_now
                        /\ r.buf = SubSeq(data, files[f].offset + 1,
                                         Min({files[f].offset + n, Len(data)}))
  BY DEF ReadsReturnContent
<1> DEFINE k == k_now
           ip == files[f].inode
           no == inodes[ip].no
           off == files[f].offset
           data == content(no)
           r == iread(k, ip, off, n)
           D == data_of(k, ip)
           size == disk.dinode[no].size
           end == Min({off + n, Len(data)})
<1>1. PICK q \in Slots : FitAt(k, ufiles, cwd, q)
  BY DEF IInv, data_now, k_now
<1>2. /\ k.disk = disk /\ k.inodes = inodes /\ k.files = files
  BY DEF k_now
<1>3. Good(k) /\ Whole(k, holders(cwd, q)) /\ holders(cwd, q) \in Counts
  BY <1>1, FitParts
<1> HIDE DEF k
<1>4. ip \in Slots /\ active(k, ip)
  BY <1>2, <1>3, OpenFile
<1>5. off \in Nat /\ n \in Nat
  BY <1>2, <1>3, FileParts, FsAssumption
<1> HIDE DEF ip, off
<1>6. no = k.inodes[ip].no /\ no \in Inos /\ size_of(k, ip) = size
  BY <1>2, <1>3, <1>4, OpenInode DEF Good, Sound, size_of
<1> HIDE DEF no
<1>7. size \in Nat /\ data = [j \in 1 .. size |-> cell_at(k, no, j - 1)]
  BY <1>2, <1>3, <1>6, ContentIs
<1> HIDE DEF data, size
<1>8. ASSUME NEW j \in 1 .. size PROVE cell_at(k, no, j - 1) \in D
  <2>1. j - 1 \in Nat /\ j - 1 < k.disk.dinode[no].size
    BY <1>2, <1>7 DEF size
  <2>2. Filled(k, no, (j - 1) \div BLK_SIZE)
    BY <1>3, <1>6, <2>1 DEF Good, Solid
  <2> QED
    BY <1>3, <1>4, <1>6, <2>1, <2>2, CellAt DEF Good
<1> HIDE DEF D
<1>9. data \in Seq(D) /\ Len(data) = size
  BY <1>7, <1>8
<1>10. ~ (off > size_of(k, ip))
  BY <1>5, <1>6, <1>7, <1>9 DEF off, data, no, ip
<1>11. /\ r.k = k /\ r.buf \in Seq(D)
       /\ r.n = IF off + n > size THEN size - off ELSE n
       /\ Len(r.buf) = r.n
       /\ \A j \in 1 .. r.n : r.buf[j] = cell_at(k, no, off + j - 1)
  BY <1>3, <1>4, <1>5, <1>6, <1>10, IreadIs DEF fits_in, D
<1> HIDE DEF r
<1>12. end = off + r.n /\ r.n \in Nat /\ off + r.n <= size
  <2>1. {off + n, size} \in SUBSET Nat /\ {off + n, size} # {}
    BY <1>5, <1>7
  <2>2. end \in {off + n, size} /\ end <= off + n /\ end <= size
    BY <1>9, <2>1, MinIs
  <2> HIDE DEF end
  <2> QED
    BY <1>5, <1>6, <1>7, <1>10, <1>11, <2>2
<1> HIDE DEF end
<1>13. r.buf = SubSeq(data, off + 1, end)
  <2> DEFINE s == SubSeq(data, off + 1, end)
  <2>1. \A i \in off + 1 .. end : data[i] \in D
    BY <1>5, <1>7, <1>8, <1>12
  <2>2. /\ s \in Seq(D) /\ Len(s) = r.n
        /\ \A j \in 1 .. r.n : s[j] = data[off + j]
    <3>1. off + 1 \in Int /\ end \in Int
      BY <1>5, <1>12
    <3>2. /\ s \in Seq(D)
          /\ Len(s) = IF off + 1 <= end THEN end - (off + 1) + 1 ELSE 0
          /\ \A j \in 1 .. end - (off + 1) + 1 : s[j] = data[off + 1 + j - 1]
      BY <2>1, <3>1, SubSeqProperties
    <3> HIDE DEF s
    <3>3. end - (off + 1) + 1 = r.n /\ (off + 1 <= end <=> r.n # 0)
      BY <1>5, <1>12
    <3>4. \A j \in 1 .. r.n : off + 1 + j - 1 = off + j
      BY <1>5, <1>12
    <3> QED
      BY <1>12, <3>2, <3>3, <3>4
  <2> HIDE DEF s
  <2>3. \A j \in 1 .. r.n : data[off + j] = cell_at(k, no, off + j - 1)
    BY <1>5, <1>7, <1>12
  <2>4. \A j \in 1 .. r.n : s[j] = r.buf[j]
    BY <1>11, <2>2, <2>3
  <2>5. s = r.buf
    BY <1>11, <1>12, <2>2, <2>4, SeqEqual
  <2> QED
    BY <2>5 DEF s
<1> QED
  BY <1>11, <1>13 DEF r, k, data, no, ip, off, end

\* While the kernel runs, a read of an open file from any offset in it returns the
\* content from there on, up to the end of the file, and allocates nothing: the
\* files have no hole before their end, so iread finds every block that it walks to
\* and iwalk calls no balloc (fs.c:418-451, 454-477).
THEOREM ReadsGiveContent == Spec => []ReadsReturnContent
<1> QED
  BY Invariant, ReadsReturnNow, PTL
=============================================================================
