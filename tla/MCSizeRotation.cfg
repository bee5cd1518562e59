SPECIFICATION FairSpec
CONSTANTS
  BackupCounts <- BackupCountValues
  AppendModes = {TRUE, FALSE}
  MaxSize = 1
  Kilo = 1
  UIntMod = 16
  MaxLines = 5
  MaxStarts = 3
  MaxFailures = 1
  NoEntry = NoEntry
  Closed = Closed
  Unlinked = Unlinked
INVARIANTS TypeOK BackupsOrdered OnlyOldestLost
PROPERTIES BackupsKept LargeFileRotated
CHECK_DEADLOCK FALSE
