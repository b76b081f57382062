\* Two processes read and sleep; one character more than the buffer holds can
\* be typed.  The tick counter wraps at 7, programs sleep for 0 or 3 ticks.
SPECIFICATION SerialFairSpec
CONSTANTS
  PROC_NUM = 3
  MAX_USEM = 0
  USER_SEM_NUM = 0
  LIST_NUM = 2
  TICK_MOD = 7
  InitValues = {}
  SleepTicks = {0, 3}
  MAX_VALUE = 0
  BUFFER_SIZE = 2
  Printable = {"a", "b"}
  ReadCounts = {0, 1, 2}
  MAX_UNREAD = 3
INVARIANTS
  SerialCredits
PROPERTIES
  ImplementsLineInput
  ReaderProgress
  ReadyRuns
  SleepReturns
  WaitReturns
