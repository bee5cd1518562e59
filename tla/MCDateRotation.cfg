SPECIFICATION Spec
CONSTANTS
  BackupCounts <- BackupCountValues
  AppendModes = {TRUE}
  MinuteTicks = 2
  SleepTicks = 1
  DayMinutes = 2
  RotationDays = {1, 2, 3}
  MaxDelay = 13
  MaxClock = 13
  MaxLines = 3
  MaxStarts = 2
  MaxFailures = 1
  NoEntry = NoEntry
  Closed = Closed
  Unlinked = Unlinked
INVARIANTS TypeOK DatesOrdered OnlyOldestLost
PROPERTIES BackupsKept
CHECK_DEADLOCK FALSE
