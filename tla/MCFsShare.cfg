\* Two processes share a file and a device; the tables run full.
SPECIFICATION Spec
CONSTANTS
  p1 = p1
  p2 = p2
  Procs = {p1, p2}
  First = p1
  MAX_UFILE = 2
  TOTAL_FILE = 2
  INODE_NUM = 3
  inum = 5
  BLK_NUM = 7
  BLK_SIZE = 3
  NDIRECT = 1
  OFF_MOD = 16
  Image <- OneFile
  dev_table <- Null
  Paths <- Shared
  Modes <- UseModes
  Bytes = {1}
  Lens = {3}
  Seeks = {}
INVARIANTS RefsCounted InodeCacheSync
