\* A program forks after it has used its heap, as the shell does.
SPECIFICATION Spec
CONSTANTS
  PROC_NUM = 3
  NPAGES = 14
  NR_PDE = 2
  NR_PTE = 2
  PGSIZE = 2
  Image <- Programs
  FirstProg = "sh"
  Paths = {"cat"}
  Bytes = {"x"}
  Increments <- Steps
INVARIANTS
  BreakCoversHeap
