\* Three user processes share a semaphore and wait for their children.
SPECIFICATION HFairSpec
CONSTANTS
  PROC_NUM = 4
  MAX_USEM = 1
  USER_SEM_NUM = 1
  LIST_NUM = 3
  TICK_MOD = 1
  InitValues = {0, 1}
  SleepTicks = {}
  MAX_VALUE = 1
PROPERTIES
  SemNoStarvation
  ImplementsCountingSem
  NoLostWakeup
