-------------------------- MODULE BlockCacheProof --------------------------
(***************************************************************************)
(* For every number of blocks and slots, block size, sector size and set   *)
(* of bytes: the block cache is coherent with the disk, and it implements  *)
(* the array of blocks of BlockStore.                                      *)
(***************************************************************************)
EXTENDS BlockCache, TLAPS

LEMMA SlotInRange == \A b \in Blocks : slot(b) \in Slots
  BY CacheAssumption DEF slot, Blocks, Slots

LEMMA PatchIsData ==
  ASSUME NEW buf \in Data, NEW src \in Data, NEW off, NEW size
  PROVE  patch(buf, off, size, src) \in Data
  BY DEF patch, Data

\* A slot filled by bgetcache is well formed and coherent.
LEMMA GetCache ==
  ASSUME TypeOK, CacheCoherent, NEW b \in Blocks
  PROVE  /\ bgetcache(b) \in [valid : BOOLEAN, no : Blocks, buf : Data]
         /\ bgetcache(b).valid
         /\ bgetcache(b).no = b
         /\ bgetcache(b).buf = disk[b]
  BY SlotInRange DEF TypeOK, CacheCoherent, bgetcache

LEMMA ColdIsCoherent ==
  /\ cold \in [Slots -> [valid : BOOLEAN, no : Blocks, buf : Data]]
  /\ \A k \in Slots : ~ cold[k].valid
  BY CacheAssumption DEF cold, Blocks, Data

Inv == TypeOK /\ CacheCoherent

\* Filling a slot and writing through keep the cache coherent.
LEMMA StoreKeepsInv ==
  ASSUME Inv, NEW b \in Blocks, NEW buf \in Data, store(b, buf)
  PROVE  Inv'
<1>1. slot(b) \in Slots
  BY SlotInRange
<1> DEFINE bc == [bgetcache(b) EXCEPT !.buf = buf]
<1>2. /\ bc \in [valid : BOOLEAN, no : Blocks, buf : Data]
      /\ bc.no = b /\ bc.buf = buf
  BY GetCache DEF Inv
<1> HIDE DEF bc
<1>3. /\ blk_cache' = [blk_cache EXCEPT ![slot(b)] = bc]
      /\ disk' = [disk EXCEPT ![b] = buf]
  BY DEF store, bc
<1>4. TypeOK'
  BY <1>1, <1>2, <1>3 DEF Inv, TypeOK
<1>5. CacheCoherent'
  <2> SUFFICES ASSUME NEW k \in Slots, blk_cache'[k].valid
               PROVE  /\ slot(blk_cache'[k].no) = k
                      /\ blk_cache'[k].buf = disk'[blk_cache'[k].no]
    BY DEF CacheCoherent, slot
  <2>1. CASE k = slot(b)
    BY <1>1, <1>2, <1>3, <2>1 DEF Inv, TypeOK
  <2>2. CASE k # slot(b)
    <3>1. blk_cache'[k] = blk_cache[k]
      BY <1>3, <2>2 DEF Inv, TypeOK
    <3>2. slot(blk_cache[k].no) = k /\ blk_cache[k].buf = disk[blk_cache[k].no]
      BY <3>1 DEF Inv, CacheCoherent
    <3>3. blk_cache[k].no # b
      BY <3>2, <2>2
    <3>4. disk'[blk_cache[k].no] = disk[blk_cache[k].no]
      BY <1>3, <3>3 DEF Inv, TypeOK
    <3> QED
      BY <3>1, <3>2, <3>4
  <2> QED
    BY <2>1, <2>2
<1> QED
  BY <1>4, <1>5 DEF Inv

LEMMA InitInv == Init => Inv
  BY ColdIsCoherent DEF Init, Inv, TypeOK, CacheCoherent

LEMMA RestartKeepsInv ==
  ASSUME Inv, blk_cache' = cold, disk' \in [Blocks -> Data]
  PROVE  Inv'
  BY ColdIsCoherent DEF Inv, TypeOK, CacheCoherent

LEMMA ReadKeepsInv ==
  ASSUME Inv, NEW b \in Blocks, NEW off, NEW size, bread(b, off, size)
  PROVE  Inv'
<1>1. slot(b) \in Slots
  BY SlotInRange
<1>2. /\ bgetcache(b) \in [valid : BOOLEAN, no : Blocks, buf : Data]
      /\ bgetcache(b).no = b /\ bgetcache(b).buf = disk[b]
  BY GetCache DEF Inv
<1>3. blk_cache' = [blk_cache EXCEPT ![slot(b)] = bgetcache(b)] /\ disk' = disk
  BY DEF bread
<1>4. TypeOK'
  BY <1>1, <1>2, <1>3 DEF Inv, TypeOK
<1>5. CacheCoherent'
  <2> SUFFICES ASSUME NEW k \in Slots, blk_cache'[k].valid
               PROVE  /\ slot(blk_cache'[k].no) = k
                      /\ blk_cache'[k].buf = disk'[blk_cache'[k].no]
    BY DEF CacheCoherent, slot
  <2>1. CASE k = slot(b)
    BY <1>1, <1>2, <1>3, <2>1 DEF Inv, TypeOK
  <2>2. CASE k # slot(b)
    BY <1>3, <2>2 DEF Inv, TypeOK, CacheCoherent
  <2> QED
    BY <2>1, <2>2
<1> QED
  BY <1>4, <1>5 DEF Inv

\* The disk after a cut write.
LEMMA CutIsData ==
  ASSUME Inv, NEW b \in Blocks, NEW off, NEW size, NEW src \in Data, NEW n,
         restart_in_bwrite(b, off, size, src, n)
  PROVE  disk' \in [Blocks -> Data]
<1>1. patch(bgetcache(b).buf, off, size, src) \in Data
  BY GetCache, PatchIsData DEF Inv
<1>2. disk[b] \in Data
  BY DEF Inv, TypeOK
<1> QED
  BY <1>1, <1>2 DEF restart_in_bwrite, Inv, TypeOK, Data

LEMMA NextInv == Inv /\ [Next]_vars => Inv'
<1> SUFFICES ASSUME Inv, [Next]_vars PROVE Inv'
  OBVIOUS
<1>1. CASE restart
  BY <1>1, RestartKeepsInv DEF restart, Inv, TypeOK
<1>2. ASSUME NEW b \in Blocks, bzero(b) PROVE Inv'
  <2>1. [o \in Offsets |-> Zero] \in Data
    BY CacheAssumption DEF Data
  <2> QED
    BY <1>2, <2>1, StoreKeepsInv DEF bzero
<1>3. ASSUME NEW b \in Blocks, NEW off \in Offsets, NEW size \in 1 .. BLK_SIZE,
             bread(b, off, size)
      PROVE  Inv'
  BY <1>3, ReadKeepsInv
<1>4. ASSUME NEW b \in Blocks, NEW off \in Offsets, NEW size \in 1 .. BLK_SIZE,
             NEW src \in Data, bwrite(b, off, size, src)
      PROVE  Inv'
  <2>1. patch(bgetcache(b).buf, off, size, src) \in Data
    BY GetCache, PatchIsData DEF Inv
  <2> QED
    BY <1>4, <2>1, StoreKeepsInv DEF bwrite
<1>5. ASSUME NEW b \in Blocks, NEW off \in Offsets, NEW size \in 1 .. BLK_SIZE,
             NEW src \in Data, NEW n \in 0 .. BLK_SIZE \div SECTSIZE,
             restart_in_bwrite(b, off, size, src, n)
      PROVE  Inv'
  <2>1. disk' \in [Blocks -> Data]
    BY <1>5, CutIsData
  <2>2. blk_cache' = cold
    BY <1>5 DEF restart_in_bwrite
  <2> QED
    BY <2>1, <2>2, RestartKeepsInv
<1>6. CASE UNCHANGED vars
  BY <1>6 DEF vars, Inv, TypeOK, CacheCoherent
<1> QED
  BY <1>1, <1>2, <1>3, <1>4, <1>5, <1>6 DEF Next

\* Every valid slot of the cache holds its block as it is on the disk, for
\* any size of disk and cache: bgetcache never returns a stale block, and a
\* restart loses nothing.
THEOREM CacheIsCoherent == Spec => []CacheCoherent
<1>1. Inv => CacheCoherent
  BY DEF Inv
<1> QED
  BY InitInv, NextInv, <1>1, PTL DEF Spec

-----------------------------------------------------------------------------
(***************************************************************************)
(* Refinement: disk is BlockStore's array, and every action of BlockCache  *)
(* is the action of BlockStore with the same name in `call', because a     *)
(* slot that bgetcache returns equals the block on the disk.               *)
(***************************************************************************)

LEMMA RefineInit == Init => Store!Init
  BY DEF Init, Store!Init, Store!Data, Store!Offsets, Data, Offsets

LEMMA RefineRead ==
  ASSUME Inv, NEW b \in Blocks, NEW off \in Offsets,
         NEW size \in 1 .. BLK_SIZE, bread(b, off, size)
  PROVE  off + size <= BLK_SIZE /\ Store!Read(b, off, size)
<1>1. bgetcache(b).buf = disk[b]
  BY GetCache DEF Inv
<1>2. off + size <= BLK_SIZE
  BY CacheAssumption DEF bread, Offsets
<1> QED
  BY <1>1, <1>2 DEF bread, Store!Read, Store!span

LEMMA RefineWrite ==
  ASSUME Inv, NEW b \in Blocks, NEW off \in Offsets,
         NEW size \in 1 .. BLK_SIZE, NEW src \in Data, bwrite(b, off, size, src)
  PROVE  off + size <= BLK_SIZE /\ Store!Write(b, off, size, src)
<1>1. bgetcache(b).buf = disk[b]
  BY GetCache DEF Inv
<1>2. off + size <= BLK_SIZE
  BY CacheAssumption DEF bwrite, Offsets
<1>3. disk' = [disk EXCEPT ![b] = patch(disk[b], off, size, src)]
  BY <1>1 DEF bwrite, store
<1>4. Store!Put(b, Store!span(off, size), src)
  BY <1>3 DEF patch, Store!Put, Store!span, Store!Offsets, Offsets, Inv, TypeOK
<1> QED
  BY <1>2, <1>4 DEF bwrite, Store!Write

LEMMA RefineZero ==
  ASSUME Inv, NEW b \in Blocks, bzero(b)
  PROVE  Store!WriteZeros(b)
<1>1. disk' = [disk EXCEPT ![b] = [o \in Offsets |-> Zero]]
  BY DEF bzero, store
<1>2. Store!Put(b, Offsets, [o \in Offsets |-> Zero])
  BY <1>1 DEF Store!Put, Store!Offsets, Offsets, Inv, TypeOK
<1> QED
  BY <1>2 DEF bzero, Store!WriteZeros, Store!Offsets, Offsets

\* Outside the range of the write, new and old bytes of the block are equal,
\* so that the sectors which the restart left out make no difference.
LEMMA RefineCut ==
  ASSUME Inv, NEW b \in Blocks, NEW off \in Offsets,
         NEW size \in 1 .. BLK_SIZE, NEW src \in Data,
         NEW n \in 0 .. BLK_SIZE \div SECTSIZE,
         restart_in_bwrite(b, off, size, src, n)
  PROVE  off + size <= BLK_SIZE /\ Store!WriteCut(b, off, size, src)
<1>1. bgetcache(b).buf = disk[b]
  BY GetCache DEF Inv
<1>2. off + size <= BLK_SIZE
  BY CacheAssumption DEF restart_in_bwrite, Offsets
<1> DEFINE done == {o \in Offsets : o < n * SECTSIZE}
           offs == (off .. off + size - 1) \cap done
<1>3. offs \in SUBSET Store!span(off, size)
  BY DEF Store!span
<1>4. disk' = [disk EXCEPT ![b] =
                 [o \in Offsets |-> IF o \in offs THEN src[o] ELSE disk[b][o]]]
  <2>1. \A o \in Offsets :
          (IF o < n * SECTSIZE THEN patch(disk[b], off, size, src)[o]
           ELSE disk[b][o])
          = IF o \in offs THEN src[o] ELSE disk[b][o]
    BY DEF patch
  <2>2. disk' = [disk EXCEPT ![b] =
                   [o \in Offsets |-> IF o < n * SECTSIZE
                                      THEN patch(disk[b], off, size, src)[o]
                                      ELSE disk[b][o]]]
    BY <1>1 DEF restart_in_bwrite
  <2> HIDE DEF offs
  <2> QED
    BY <2>1, <2>2
<1> HIDE DEF offs
<1>5. Store!Put(b, offs, src)
  BY <1>4 DEF Store!Put, Store!Offsets, Offsets, Inv, TypeOK
<1>6. call' = <<"cut", b, off, size, src>>
  BY DEF restart_in_bwrite
<1> QED
  BY <1>2, <1>3, <1>5, <1>6 DEF Store!WriteCut

LEMMA RefineNext == Inv /\ [Next]_vars => [Store!Next]_(Store!vars)
<1> SUFFICES ASSUME Inv, [Next]_vars PROVE [Store!Next]_(Store!vars)
  OBVIOUS
<1> USE DEF Store!Next, Store!Offsets, Store!Data
<1>1. CASE restart
  BY <1>1 DEF restart, Store!Restart
<1>2. ASSUME NEW b \in Blocks, bzero(b) PROVE Store!Next
  BY <1>2, RefineZero
<1>3. ASSUME NEW b \in Blocks, NEW off \in Offsets, NEW size \in 1 .. BLK_SIZE,
             bread(b, off, size)
      PROVE  Store!Next
  BY <1>3, RefineRead DEF Offsets
<1>4. ASSUME NEW b \in Blocks, NEW off \in Offsets, NEW size \in 1 .. BLK_SIZE,
             NEW src \in Data, bwrite(b, off, size, src)
      PROVE  Store!Next
  BY <1>4, RefineWrite DEF Offsets, Data
<1>5. ASSUME NEW b \in Blocks, NEW off \in Offsets, NEW size \in 1 .. BLK_SIZE,
             NEW src \in Data, NEW n \in 0 .. BLK_SIZE \div SECTSIZE,
             restart_in_bwrite(b, off, size, src, n)
      PROVE  Store!Next
  BY <1>5, RefineCut DEF Offsets, Data
<1>6. CASE UNCHANGED vars
  BY <1>6 DEF vars, Store!vars
<1> QED
  BY <1>1, <1>2, <1>3, <1>4, <1>5, <1>6 DEF Next

\* The cached disk implements BlockStore: every bread returns the bytes last
\* written, a bwrite changes the bytes it names and no other, and a restart
\* in the middle of a bwrite touches no byte outside its range.
THEOREM CacheImplementsStore == Spec => ImplementsBlockStore
  BY InitInv, NextInv, RefineInit, RefineNext, PTL
  DEF Spec, ImplementsBlockStore, Store!Spec
=============================================================================
