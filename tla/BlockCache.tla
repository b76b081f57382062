----------------------------- MODULE BlockCache -----------------------------
(***************************************************************************)
(* The block cache of kernel/src/disk.c: BCACHE_NUM direct-mapped slots in *)
(* front of the disk, written through.  bread, bwrite and bzero run with   *)
(* interrupts off, so each is one action.  The machine can be switched off *)
(* between two of them or while copy_to_disk writes the sectors of a block *)
(* one by one; the cache is then empty and the disk is not.                *)
(***************************************************************************)
EXTENDS Integers

CONSTANTS
  BLK_NUM,      \* blocks of the disk
  BCACHE_NUM,   \* slots of the cache
  BLK_SIZE,     \* bytes of a block
  SECTSIZE,     \* bytes that the disk writes at once
  Bytes,        \* the values of a byte
  Zero          \* the byte 0

ASSUME CacheAssumption ==
  /\ BLK_NUM \in Nat \ {0}
  /\ BCACHE_NUM \in Nat \ {0}
  /\ BLK_SIZE \in Nat
  /\ SECTSIZE \in Nat \ {0}
  /\ Zero \in Bytes

Blocks == 0 .. BLK_NUM - 1
Slots == 0 .. BCACHE_NUM - 1
Offsets == 0 .. BLK_SIZE - 1
Data == [Offsets -> Bytes]

VARIABLES
  disk,        \* disk[b]: the contents of block b
  blk_cache,   \* blk_cache[k].valid, .no, .buf
  call         \* the last call: arguments, and the bytes read or written

vars == <<disk, blk_cache, call>>

\* The image that mkfs made, and a cache in zeroed memory.
cold == [k \in Slots |-> [valid |-> FALSE, no |-> 0,
                          buf |-> [o \in Offsets |-> Zero]]]

Init ==
  /\ disk \in [Blocks -> Data]
  /\ blk_cache = cold
  /\ call = <<"boot">>

-----------------------------------------------------------------------------
slot(b) == b % BCACHE_NUM

\* The slot of block b after bgetcache(b).
bgetcache_anyblock(b) ==
  LET bc == blk_cache[slot(b)]
  IN IF bc.valid THEN bc
     ELSE [valid |-> TRUE, no |-> b, buf |-> disk[b]]

bgetcache(b) ==
  LET bc == blk_cache[slot(b)]
  IN IF bc.valid /\ bc.no = b
     THEN bc
     ELSE [valid |-> TRUE, no |-> b, buf |-> disk[b]]

\* memcpy of src into the buffer: src gives the new byte for every offset
\* in off .. off + size - 1.
patch(buf, off, size, src) ==
  [o \in Offsets |-> IF o \in off .. off + size - 1 THEN src[o] ELSE buf[o]]

bread(b, off, size) ==
  /\ size + off <= BLK_SIZE
  /\ blk_cache' = [blk_cache EXCEPT ![slot(b)] = bgetcache(b)]
  /\ call' = <<"bread", b, off, size,
               [o \in off .. off + size - 1 |-> bgetcache(b).buf[o]]>>
  /\ UNCHANGED disk

\* The new buffer goes to the cache and, whole, to the disk.
store(b, buf) ==
  /\ blk_cache' = [blk_cache EXCEPT ![slot(b)] =
                     [bgetcache(b) EXCEPT !.buf = buf]]
  /\ disk' = [disk EXCEPT ![b] = buf]

bwrite_disk(b, off, size, src) ==
  /\ size + off <= BLK_SIZE
  /\ disk' = [disk EXCEPT ![b] = patch(disk[b], off, size, src)]
  /\ call' = <<"bwrite", b, off, size, src>>
  /\ UNCHANGED blk_cache

bwrite(b, off, size, src) ==
  /\ size + off <= BLK_SIZE
  /\ store(b, patch(bgetcache(b).buf, off, size, src))
  /\ call' = <<"bwrite", b, off, size, src>>

bzero(b) ==
  /\ store(b, [o \in Offsets |-> Zero])
  /\ call' = <<"bzero", b>>

\* The machine is switched off and boots again from the same disk, after a
\* call has returned ...
restart ==
  /\ blk_cache' = cold
  /\ call' = <<"boot">>
  /\ UNCHANGED disk

\* ... or inside copy_to_disk, when n sectors of block b are written.
restart_in_bwrite(b, off, size, src, n) ==
  LET buf == patch(bgetcache(b).buf, off, size, src)
  IN /\ size + off <= BLK_SIZE
     /\ disk' = [disk EXCEPT ![b] =
                   [o \in Offsets |-> IF o < n * SECTSIZE THEN buf[o]
                                      ELSE disk[b][o]]]
     /\ blk_cache' = cold
     /\ call' = <<"cut", b, off, size, src>>

Next ==
  \/ restart
  \/ \E b \in Blocks : bzero(b)
  \/ \E b \in Blocks, off \in Offsets, size \in 1 .. BLK_SIZE :
       \/ bread(b, off, size)
       \/ \E src \in Data :
            \/ bwrite(b, off, size, src)
            \/ \E n \in 0 .. BLK_SIZE \div SECTSIZE :
                 restart_in_bwrite(b, off, size, src, n)

Spec == Init /\ [][Next]_vars

-----------------------------------------------------------------------------
TypeOK ==
  /\ disk \in [Blocks -> Data]
  /\ blk_cache \in [Slots -> [valid : BOOLEAN, no : Blocks, buf : Data]]

\* A valid slot holds a block that belongs there, and holds it as it is on
\* the disk: a restart at any moment loses nothing, and evicting a slot needs
\* no write.
CacheCoherent ==
  \A k \in Slots : blk_cache[k].valid =>
    /\ slot(blk_cache[k].no) = k
    /\ blk_cache[k].buf = disk[blk_cache[k].no]

Store == INSTANCE BlockStore WITH block <- disk

\* The cached disk behaves like an array of blocks: every bread returns the
\* last bytes written, through hits, evictions by blocks that share the slot,
\* partial writes and restarts; a write cut off by a restart has changed a
\* part of the bytes it was to write, and no other.
ImplementsBlockStore == Store!Spec
=============================================================================
