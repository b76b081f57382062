\* Four PCBs: three user processes, enough for an orphan whose PCB is reused.
\* Two semaphores, and sleeps over a tick counter that wraps.  The pool has
\* just as many nodes as there are user processes.
SPECIFICATION Spec
CONSTANTS
  PROC_NUM = 4
  MAX_USEM = 1
  USER_SEM_NUM = 2
  LIST_NUM = 3
  TICK_MOD = 2
  InitValues = {0, 1}
  SleepTicks = {1}
  MAX_VALUE = 1
INVARIANTS
  TypeOK
  OneRunning
  RefCounts
  WaitListsAgree
  FamilyAgrees
  NeverHalts
