SPECIFICATION FairSpec
CONSTANTS
  Loggers = {"log-core", "plugins/a"}
  InternalLogger = "log-core"
  Settings = {"plain", "rotated"}
  InternalSetting = "internal"
  DefaultSetting = "default"
  Rotated = {"rotated"}
  StartFiles <- WarningFile
  Files <- NextFiles
  Watchers = {w1, w2}
  Missing = Missing
  Malformed = Malformed
  MaxChanges = 1
  MaxCreated = 1
  MaxStarts = 1
  NoThread = NoThread
  NoLogger = NoLogger
PROPERTIES StartCompletes
CHECK_DEADLOCK FALSE
