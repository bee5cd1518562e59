CONSTANTS
  Callers = {c1, c2}
  Loggers = {core, plugin}
  InternalLogger = core
  Levels = {info, error}
  FileLevels = {error}
  CounterMod = 8
  MaxQueue = 4
  MaxCalls = 2
  NoAction = NoAction
  NoThread = NoThread
SPECIFICATION Spec
SYMMETRY Symmetry
INVARIANTS TypeOK CounterExact NoUseAfterFree ExactlyOnceInOrder LevelFileFollows ShutdownDrained
PROPERTY ImplementsService
CHECK_DEADLOCK FALSE

