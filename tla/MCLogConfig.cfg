SPECIFICATION FairSpec
CONSTANTS
  Loggers = {"log-core", "plugins/a"}
  InternalLogger = "log-core"
  Settings = {"plain", "rotated"}
  InternalSetting = "internal"
  DefaultSetting = "default"
  Rotated = {"rotated"}
  StartFiles <- FirstFiles
  Files <- NextFiles
  Watchers = {w1, w2}
  Missing = Missing
  Malformed = Malformed
  MaxChanges = 2
  MaxCreated = 2
  MaxStarts = 2
  NoThread = NoThread
  NoLogger = NoLogger
INVARIANTS TypeOK SettingsInForce   UsedWhileAlive
PROPERTIES StartCompletesUnlessWarned CallsComplete
CHECK_DEADLOCK FALSE
