SPECIFICATION Spec
CONSTANTS
  BackupCounts <- BackupCountValues
  AppendModes = {TRUE, FALSE}
  MaxSize = 3
  Kilo = 1
  UIntMod = 2
  MaxLines = 3
  MaxStarts = 3
  MaxFailures = 0
  NoEntry = NoEntry
  Closed = Closed
  Unlinked = Unlinked
PROPERTY RotatesAtSize
CHECK_DEADLOCK FALSE
