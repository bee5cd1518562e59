SPECIFICATION Spec
CONSTANTS
  BackupCounts = {1}
  AppendModes = {TRUE}
  MinuteTicks = 12
  SleepTicks = 1
  DayMinutes = 3
  RotationDays = {1}
  MaxDelay = 1
  MaxClock = 50
  MaxLines = 1
  MaxStarts = 1
  MaxFailures = 0
  NoEntry = NoEntry
  Closed = Closed
  Unlinked = Unlinked
PROPERTIES EveryNight
CHECK_DEADLOCK FALSE
