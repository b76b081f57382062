\* Two processes with heaps that exec; together they need more pages than there are.
SPECIFICATION Spec
CONSTANTS
  PROC_NUM = 3
  NPAGES = 14
  NR_PDE = 2
  NR_PTE = 2
  PGSIZE = 2
  Image <- Programs
  FirstProg = "sh"
  Paths = {"cat"}
  Bytes = {"x"}
  Increments <- Steps
VIEW UpToFrames
INVARIANTS
  CurrentSpace
  OneOwner
  OwnPagesMapped
PROPERTIES
  PagesConserved
  ImplementsAddressSpaces
