SPECIFICATION Spec
CONSTANTS
  NPROC = 4
  NBUF = 11
  MAXARGS = 3
  MAX_UFILE = 4
  N = 3
  Alphabet = {"x", "&", ";", "<", ">", "(", ")", "|"}
  Lines <- Typed
  FirstLines <- TypedFirst
  Programs <- Files
  Stored <- Files
  Subdir <- Directories
INVARIANTS
  ParseIsMeaning
  RunsTheLine
  OneActivePerJob
  OnlyBackgroundLeaks
PROPERTIES
  PromptReturns
