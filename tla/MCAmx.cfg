SPECIFICATION SystemSpec
CONSTANTS
  CellBits = 8
  ByteBits = 4
  Scripts <- MCScripts
  NativeLists <- MCNativeLists
  Garbage = {6, 9}
  Fill = {6}
  Values <- MCValues
  Errors <- MCErrors
  Callbacks <- MCCallbacks
  HookResults <- MCHookResults
  HostCalls <- MCHostCalls
  Arguments = {1}
  Arrays <- MCArrays
  StkMargin = 3
  CodeBase = 1000
  MaxParams = 1
  MaxExecs = 2
  MaxLoads = 1
  NoScript = NoScript
  NoNative = NoNative
  LinesMod = 9
  DisableDebugInfo = {FALSE}
  ServerCfg <- MCServerCfg
  Gamemodes <- MCGamemodes
  FilterScripts <- MCFilterScripts
  NoInfo = NoInfo
INVARIANTS TypeOK StackBalanced StackAboveHeap  CodeFaithful LookupsExact 
PROPERTIES DivisionFloors
CHECK_DEADLOCK FALSE
