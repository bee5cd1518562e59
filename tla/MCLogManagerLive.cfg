CONSTANTS
  Callers = {c1, c2}
  Loggers = {core, plugin}
  InternalLogger = core
  Levels = {error}
  FileLevels = {error}
  CounterMod = 8
  MaxQueue = 4
  MaxCalls = 2
  NoAction = NoAction
  NoThread = NoThread
SPECIFICATION BootedSpec

CHECK_DEADLOCK FALSE
INVARIANTS NoLostWakeup NoLostStop
PROPERTIES DestroyCompletes CloseCompletes ImplementsLiveService

