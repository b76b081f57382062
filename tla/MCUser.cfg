\* Sizes of one to six units in a heap that can grow three times; texts of up to
\* eleven characters through a buffer of six; three producers, three consumers
\* and a buffer of two places.
SPECIFICATION UserSpec
CONSTANTS
  HSIZE = 8
  NALLOC = 5
  end = 2
  LIMIT = 18
  Sizes = {1, 9, 32, 41}
  BUFSIZE = 6
  TEN = 3
  Content <- TheFiles
  Args <- TheArgs
  Typed <- TheLines
  MaxTyped = 3
  Patterns <- ThePatterns
  W = 8
  Calls <- TheCalls
  Texts <- TheTexts
  SCAN = 6
  Reads = {1, 3, 8}
  p1 = p1
  p2 = p2
  p3 = p3
  c1 = c1
  c2 = c2
  c3 = c3
  Producers = {p1, p2, p3}
  Consumers = {c1, c2, c3}
  BUF_SIZE = 2
INVARIANTS
  Partitioned
  Filtered
  ReadsBack
  BroadcastWakesAll
  NobodySleepsOnTrue
PROPERTIES
  GrowsWhenNeeded
  ImplementsMonitor
