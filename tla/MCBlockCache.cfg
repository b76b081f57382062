\* Three blocks on two slots, so that two blocks share a slot.
SPECIFICATION Spec
CONSTANTS
  BLK_NUM = 3
  BCACHE_NUM = 2
  BLK_SIZE = 2
  SECTSIZE = 1
  Bytes = {0, 1}
  Zero = 0
INVARIANTS
  CacheCoherent
PROPERTIES
  ImplementsBlockStore
