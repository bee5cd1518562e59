SPECIFICATION FairSpec
CONSTANTS
  Kinds = {"dir"}
  Window = 2
  MaxClock = 1
  MaxContent = 1
  MaxEvents = 2
PROPERTIES StopCompletes
CHECK_DEADLOCK FALSE
