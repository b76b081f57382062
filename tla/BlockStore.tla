----------------------------- MODULE BlockStore -----------------------------
(***************************************************************************)
(* What bread, bwrite and bzero (kernel/src/disk.c) promise to the file    *)
(* system: an array of blocks that survives a restart of the machine.      *)
(***************************************************************************)
EXTENDS Integers

CONSTANTS Blocks, BLK_SIZE, Bytes, Zero

VARIABLES
  block,   \* block[b][o]: the byte at offset o of block b
  call     \* the last call, with its arguments and the bytes read or written

vars == <<block, call>>

Offsets == 0 .. BLK_SIZE - 1
Data == [Offsets -> Bytes]
span(off, size) == off .. off + size - 1

Init == block \in [Blocks -> Data] /\ call = <<"boot">>

\* The bytes `offs' of block b become those of src.
Put(b, offs, src) ==
  block' = [block EXCEPT ![b] =
              [o \in Offsets |-> IF o \in offs THEN src[o] ELSE @[o]]]

Read(b, off, size) ==
  /\ call' = <<"bread", b, off, size,
               [o \in span(off, size) |-> block[b][o]]>>
  /\ UNCHANGED block

Write(b, off, size, src) ==
  /\ call' = <<"bwrite", b, off, size, src>>
  /\ Put(b, span(off, size), src)

WriteZeros(b) ==
  /\ call' = <<"bzero", b>>
  /\ Put(b, Offsets, [o \in Offsets |-> Zero])

\* A restart cuts a write short: some of its bytes are written.
WriteCut(b, off, size, src) ==
  /\ call' = <<"cut", b, off, size, src>>
  /\ \E offs \in SUBSET span(off, size) : Put(b, offs, src)

Restart == call' = <<"boot">> /\ UNCHANGED block

Next ==
  \/ Restart
  \/ \E b \in Blocks : WriteZeros(b)
  \/ \E b \in Blocks, off \in Offsets, size \in 1 .. BLK_SIZE :
       /\ off + size <= BLK_SIZE
       /\ \/ Read(b, off, size)
          \/ \E src \in Data :
               Write(b, off, size, src) \/ WriteCut(b, off, size, src)

Spec == Init /\ [][Next]_vars
=============================================================================
