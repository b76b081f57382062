\* Programs exec a file that does not exist.
SPECIFICATION Spec
CONSTANTS
  PROC_NUM = 3
  NPAGES = 14
  NR_PDE = 2
  NR_PTE = 2
  PGSIZE = 2
  Image <- Programs
  FirstProg = "sh"
  Paths = {"nofile"}
  Bytes = {"x"}
  Increments = {}
INVARIANTS
  CurrentSpace
