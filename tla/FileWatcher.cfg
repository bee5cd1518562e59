SPECIFICATION FairSpec
CONSTANTS
  Kinds = {"other", "ignored"}
  Window = 2
  MaxClock = 6
  MaxContent = 3
  MaxEvents = 2
INVARIANTS TypeOK FreshWhenIdle 
PROPERTIES StopCompletes
CHECK_DEADLOCK FALSE
