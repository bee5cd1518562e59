CONSTANTS
  Callers = {c1}
  Loggers = {core, plugin}
  InternalLogger = core
  Levels = {error}
  FileLevels = {error}
  CounterMod = 8
  MaxQueue = 4
  MaxCalls = 1
  NoAction = NoAction
  NoThread = NoThread
SPECIFICATION FairSpec

CHECK_DEADLOCK FALSE
PROPERTY DestroyCompletes
