\* As MCFsTree.cfg: names made in a directory that has been removed.
SPECIFICATION Spec
CONSTANTS
  p1 = p1
  p2 = p2
  Procs = {p1}
  First = p1
  MAX_UFILE = 2
  TOTAL_FILE = 1
  INODE_NUM = 4
  inum = 6
  BLK_NUM = 7
  BLK_SIZE = 3
  NDIRECT = 1
  OFF_MOD = 32
  Image <- EmptyFile
  dev_table <- NoDevices
  Paths <- Nested
  Modes <- MakeModes
  Bytes = {1}
  Lens = {4}
  Seeks <- Rewind
INVARIANT AssertionsHold
