--------------------------- MODULE LogConfigProofs ---------------------------
(***************************************************************************)
(* Proofs about LogConfig, for any loggers, settings, files, watchers and  *)
(* numbers of changes, loggers and starts.  IInv is the inductive          *)
(* invariant.  It says who may be in a parse (ApiInv), what the settings   *)
(* are in the middle of one (LockInv, FileInv), which of a logger's        *)
(* states goes with which subscription and entry (LoggerInv), and that a   *)
(* logger is behind its settings only while a parse is about to call it    *)
(* (ForceInv).                                                             *)
(***************************************************************************)
EXTENDS LogConfig, TLAPS

\* Only a parse that has the lock has loggers to come to or to call, and it
\* works on a file that could be read.
LockInv ==
  /\ todo # {} \/ calling # NoLogger =>
       configLock # NoThread /\ parserPc[configLock] = "loggers"
  /\ \A t \in Threads : parserPc[t] = "lock" => read[t] \in Readable
  /\ configLock # NoThread => content \in Readable

\* The settings of the loggers a parse has come to are those of the file.
FileInv ==
  /\ content \in Readable => DOMAIN loggerConfigs \cup todo = content.for \cup {InternalLogger}
  /\ content \notin Readable => loggerConfigs = NoSettings
  /\ \A l \in DOMAIN loggerConfigs : loggerConfigs[l] = SettingOf(l)

Starting == {"parse", "manager", "construct"}

\* A parse runs on the server's thread at the start and on a watcher that has
\* not been joined; what the end of the library has done is not undone.
ApiInv ==
  /\ Parsing(Server) => serverPc = "parse"
  /\ \A w \in Watchers : Parsing(w) => managerUp /\ w \in {watcher, retiring}
  /\ watcher # NoThread \/ retiring # NoThread \/ serverPc \in Starting => configUp
  /\ retiring # NoThread => serverPc \in {"manager", "destroy"}
  /\ refs <= starts
  /\ serverPc \in Starting => refs = 0 /\ starts > 0
  /\ serverPc \in {"destroy", "close"} => watcher = NoThread /\ refs = 0 /\ rotation = {}
  /\ serverPc = "close" => events = {} /\ loggerConfigs = NoSettings
  /\ ~managerUp => refs = 0
  /\ serverPc = "idle" /\ ~managerUp =>
       watcher = NoThread /\ events = {} /\ rotation = {} /\ loggerConfigs = NoSettings

\* A plugin's logger exists only while the plugin is registered, the internal
\* logger is built once for a LogManager that does not exist yet, and callbacks
\* and entries belong to loggers that are being built, live or being destroyed.
LoggerInv ==
  /\ \A l \in Loggers \ {InternalLogger} : logger[l] \notin {"none", "freed"} => refs > 0
  /\ logger[InternalLogger] \notin {"none", "live"} =>
       ~managerUp /\ (serverPc = "construct" \/ parserPc[Server] \in {"error", "warn"})
  /\ \A l \in events : logger[l] \in {"apply", "live"}
  /\ \A l \in rotation : logger[l] \in {"apply", "live", "unregister"}
  /\ serverPc # "close" => \A l \in Loggers : logger[l] \in {"apply", "live"} => l \in events
  /\ calling # NoLogger => calling \in events /\ calling \in DOMAIN loggerConfigs

\* A live logger has the settings there are for it, unless it is about to be
\* called with them.
ForceInv ==
  \A l \in Loggers :
    logger[l] = "live" /\ l \in DOMAIN loggerConfigs /\ l # calling =>
      config[l] = loggerConfigs[l] /\ (l \in rotation <=> config[l] \in Rotated)

IInv == TypeOK /\ LockInv /\ FileInv /\ ApiInv /\ LoggerInv /\ ForceInv

-----------------------------------------------------------------------------
(* IInv is kept by every action.                                           *)

\* A file that can be read is kept for the thread that has read it.
LEMMA IInvParseLoad ==
  ASSUME IInv, NEW t \in Threads, ParseLoad(t)
  PROVE  IInv'
<1> USE DEF IInv, ParseLoad, fileVars, startVars, apiVars, loggerVars, GoTo
<1>1. TypeOK'
  <2>1. /\ parserPc' \in [Threads -> {"idle", "load", "error", "lock"} \cup Holding]
        /\ read' \in [Threads -> Files \cup StartFiles \cup {Missing}]
    BY DEF TypeOK, Holding
  <2>2. \A u \in Threads : parserPc'[u] \in Holding <=> parserPc[u] \in Holding
    BY DEF TypeOK, Holding
  <2> QED BY <2>1, <2>2 DEF TypeOK
<1>2. LockInv'
  BY DEF TypeOK, LockInv
<1>3. FileInv'
  BY DEF FileInv, SettingOf
<1>4. ApiInv'
  BY DEF TypeOK, ApiInv, Threads, Parsing
<1>5. LoggerInv'
  BY DEF TypeOK, LoggerInv, Threads
<1>6. ForceInv'
  BY DEF ForceInv
<1> QED BY <1>1, <1>2, <1>3, <1>4, <1>5, <1>6

\* The parse of a malformed file ends without the lock.
LEMMA IInvParseError ==
  ASSUME IInv, NEW t \in Threads, ParseError(t)
  PROVE  IInv'
<1> USE DEF IInv, ParseError, fileVars, startVars, apiVars, loggerVars, GoTo
<1>1. TypeOK'
  BY DEF TypeOK, Holding
<1>2. LockInv'
  BY DEF LockInv
<1>3. FileInv'
  BY DEF FileInv, SettingOf
<1>4. ApiInv'
  BY DEF ApiInv, Parsing
<1>5. LoggerInv'
  BY DEF LoggerInv
<1>6. ForceInv'
  BY DEF ForceInv
<1> QED BY <1>1, <1>2, <1>3, <1>4, <1>5, <1>6

\* With the lock the settings are emptied, and the whole file is still to do.
LEMMA IInvParseLock ==
  ASSUME IInv, NEW t \in Threads, ParseLock(t)
  PROVE  IInv'
<1> USE DEF IInv, ParseLock, fileVars, startVars, apiVars, loggerVars, GoTo
<1>1. TypeOK'
  BY ConfigAssumption DEF TypeOK, LockInv, NoSettings, Readable, Holding
<1>2. LockInv'
  BY ConfigAssumption DEF TypeOK, LockInv
<1>3. FileInv'
  BY DEF FileInv, NoSettings
<1>4. ApiInv'
  BY DEF ApiInv, Parsing
<1>5. LoggerInv'
  BY DEF TypeOK, LoggerInv
<1>6. ForceInv'
  BY DEF ForceInv, NoSettings
<1> QED BY <1>1, <1>2, <1>3, <1>4, <1>5, <1>6

\* The called logger is brought up to date, as ForceInv asks of one that is
\* no longer being called.
LEMMA IInvCallSubscriber ==
  ASSUME IInv, NEW t \in Threads, CallSubscriber(t)
  PROVE  IInv'
<1> USE DEF IInv, CallSubscriber, fileVars, startVars, apiVars, OnConfigUpdate
<1>1. TypeOK'
  BY DEF TypeOK, LoggerInv
<1>2. LockInv'
  BY DEF LockInv
<1>3. FileInv'
  BY DEF FileInv, SettingOf
<1>4. ApiInv'
  BY ConfigAssumption DEF TypeOK, FileInv, ApiInv, LoggerInv, SettingOf, Parsing
<1>5. LoggerInv'
  BY DEF LoggerInv
<1>6. ForceInv'
  BY DEF TypeOK, ForceInv
<1> QED BY <1>1, <1>2, <1>3, <1>4, <1>5, <1>6

\* The parse keeps the lock when it has come to all loggers of the file.
LEMMA IInvParseLoggersDone ==
  ASSUME IInv, NEW t \in Threads, ParseLoggersDone(t)
  PROVE  IInv'
<1> USE DEF IInv, ParseLoggersDone, fileVars, startVars, apiVars, loggerVars, GoTo
<1>1. TypeOK'
  BY DEF TypeOK, Holding
<1>2. LockInv'
  BY DEF LockInv
<1>3. FileInv'
  BY DEF FileInv, SettingOf
<1>4. ApiInv'
  BY DEF ApiInv, Parsing
<1>5. LoggerInv'
  BY DEF LoggerInv
<1>6. ForceInv'
  BY DEF ForceInv
<1> QED BY <1>1, <1>2, <1>3, <1>4, <1>5, <1>6

\* Warnings change nothing but the place in the parse.
LEMMA IInvParseWarn ==
  ASSUME IInv, NEW t \in Threads, ParseWarn(t)
  PROVE  IInv'
<1> USE DEF IInv, ParseWarn, fileVars, startVars, apiVars, loggerVars, GoTo
<1>1. TypeOK'
  BY DEF TypeOK, Holding
<1>2. LockInv'
  BY DEF LockInv
<1>3. FileInv'
  BY DEF FileInv, SettingOf
<1>4. ApiInv'
  BY DEF ApiInv, Parsing
<1>5. LoggerInv'
  BY DEF LoggerInv
<1>6. ForceInv'
  BY DEF ForceInv
<1> QED BY <1>1, <1>2, <1>3, <1>4, <1>5, <1>6

\* The parse gives the lock back with nothing left to do.
LEMMA IInvParseUnlock ==
  ASSUME IInv, NEW t \in Threads, ParseUnlock(t)
  PROVE  IInv'
<1> USE DEF IInv, ParseUnlock, fileVars, startVars, apiVars, loggerVars, GoTo
<1>1. TypeOK'
  BY ConfigAssumption DEF TypeOK, LockInv, Holding
<1>2. LockInv'
  BY DEF TypeOK, LockInv
<1>3. FileInv'
  BY DEF FileInv, SettingOf
<1>4. ApiInv'
  BY DEF ApiInv, Parsing
<1>5. LoggerInv'
  BY DEF LoggerInv
<1>6. ForceInv'
  BY DEF ForceInv
<1> QED BY <1>1, <1>2, <1>3, <1>4, <1>5, <1>6

\* New settings make a subscribed logger the one that is being called.
LEMMA IInvAddLoggerConfig ==
  ASSUME IInv, NEW t \in Threads, NEW l \in Loggers, AddLoggerConfig(t, l)
  PROVE  IInv'
<1> USE DEF IInv, AddLoggerConfig, fileVars, startVars, apiVars, loggerVars
<1>1. TypeOK'
  BY DEF TypeOK, LockInv, SettingOf, Readable, AllSettings
<1>2. LockInv'
  BY DEF LockInv
<1>3. FileInv'
  BY DEF LockInv, FileInv, SettingOf
<1>4. ApiInv'
  BY ConfigAssumption DEF ApiInv, Threads, Parsing
<1>5. LoggerInv'
  BY DEF LoggerInv
<1>6. ForceInv'
  BY ConfigAssumption DEF ApiInv, LoggerInv, ForceInv, Threads, Parsing
<1> QED BY <1>1, <1>2, <1>3, <1>4, <1>5, <1>6

\* The first step of a constructor.
LEMMA IInvLoggerFolder ==
  ASSUME IInv, NEW l \in Loggers, LoggerFolder(l)
  PROVE  IInv'
<1> USE DEF IInv, LoggerFolder, fileVars, parseVars, startVars, apiVars
<1>1. TypeOK'
  BY DEF TypeOK, LoggerStates
<1>2. LockInv'
  BY DEF LockInv
<1>3. FileInv'
  BY DEF FileInv, SettingOf
<1>4. ApiInv'
  BY DEF ApiInv, Parsing
<1>5. LoggerInv'
  BY DEF LoggerInv
<1>6. ForceInv'
  BY DEF ForceInv
<1> QED BY <1>1, <1>2, <1>3, <1>4, <1>5, <1>6

\* The callback is entered before the logger looks for its settings.
LEMMA IInvSubscribe ==
  ASSUME IInv, NEW l \in Loggers, Subscribe(l)
  PROVE  IInv'
<1> USE DEF IInv, Subscribe, fileVars, parseVars, startVars, apiVars
<1>1. TypeOK'
  BY DEF TypeOK, LoggerStates
<1>2. LockInv'
  BY DEF LockInv
<1>3. FileInv'
  BY DEF FileInv, SettingOf
<1>4. ApiInv'
  BY DEF ApiInv, LoggerInv, Parsing
<1>5. LoggerInv'
  BY DEF TypeOK, LoggerInv
<1>6. ForceInv'
  BY DEF ForceInv
<1> QED BY <1>1, <1>2, <1>3, <1>4, <1>5, <1>6

\* The logger is live with the settings there are; without a parse under
\* way, nobody else is being called.
LEMMA IInvApplySettings ==
  ASSUME IInv, NEW l \in Loggers, ApplySettings(l)
  PROVE  IInv'
<1> USE DEF IInv, ApplySettings, fileVars, parseVars, startVars, apiVars, OnConfigUpdate
<1>1. TypeOK'
  BY DEF TypeOK, LoggerStates
<1>2. LockInv'
  BY DEF LockInv
<1>3. FileInv'
  BY DEF FileInv, SettingOf
<1>4. ApiInv'
  BY DEF ApiInv, LoggerInv, Parsing
<1>5. LoggerInv'
  BY DEF LoggerInv
<1>6. ForceInv'
  BY DEF TypeOK, ForceInv
<1> QED BY <1>1, <1>2, <1>3, <1>4, <1>5, <1>6

\* The destructor erases the callback of a logger that is not being called.
LEMMA IInvUnsubscribe ==
  ASSUME IInv, NEW l \in Loggers, Unsubscribe(l)
  PROVE  IInv'
<1> USE DEF IInv, Unsubscribe, fileVars, parseVars, startVars, apiVars, Build
<1>1. TypeOK'
  BY ConfigAssumption DEF TypeOK, LoggerStates
<1>2. LockInv'
  BY DEF LockInv
<1>3. FileInv'
  BY DEF FileInv, SettingOf
<1>4. ApiInv'
  BY DEF ApiInv, Parsing
<1>5. LoggerInv'
  BY DEF TypeOK, LoggerInv
<1>6. ForceInv'
  BY DEF ForceInv
<1> QED BY <1>1, <1>2, <1>3, <1>4, <1>5, <1>6

\* The destructor removes the entry, and nothing refers to the logger.
LEMMA IInvUnregister ==
  ASSUME IInv, NEW l \in Loggers, Unregister(l)
  PROVE  IInv'
<1> USE DEF IInv, Unregister, fileVars, parseVars, startVars, apiVars
<1>1. TypeOK'
  BY DEF TypeOK, LoggerStates
<1>2. LockInv'
  BY DEF LockInv
<1>3. FileInv'
  BY DEF FileInv, SettingOf
<1>4. ApiInv'
  BY DEF ApiInv, Parsing
<1>5. LoggerInv'
  BY DEF LoggerInv
<1>6. ForceInv'
  BY DEF ForceInv
<1> QED BY <1>1, <1>2, <1>3, <1>4, <1>5, <1>6

\* A plugin's logger is only created while the plugin is registered.
LEMMA IInvCreateLogger ==
  ASSUME IInv, NEW l \in Loggers, CreateLogger(l)
  PROVE  IInv'
<1> USE DEF IInv, CreateLogger, fileVars, parseVars, startVars, apiVars, Build
<1>1. TypeOK'
  BY ConfigAssumption DEF TypeOK, AllSettings, LoggerStates
<1>2. LockInv'
  BY DEF LockInv
<1>3. FileInv'
  BY DEF FileInv, SettingOf
<1>4. ApiInv'
  BY DEF ApiInv, Parsing
<1>5. LoggerInv'
  BY DEF LoggerInv
<1>6. ForceInv'
  BY DEF ForceInv
<1> QED BY <1>1, <1>2, <1>3, <1>4, <1>5, <1>6

\* The first call of samplog_GetApi finds the server's thread in no parse.
LEMMA IInvGetApi ==
  ASSUME IInv, NEW k \in BOOLEAN, GetApi(k)
  PROVE  IInv'
<1> USE DEF IInv, GetApi, fileVars, loggerVars, GoTo
<1>1. TypeOK'
  BY ConfigAssumption DEF TypeOK, ApiInv, Threads, Holding, Parsing
<1>2. LockInv'
  BY DEF LockInv, ApiInv, Parsing
<1>3. FileInv'
  BY DEF FileInv, SettingOf
<1>4. ApiInv'
  BY ConfigAssumption DEF TypeOK, ApiInv, Parsing
<1>5. LoggerInv'
  BY DEF ApiInv, LoggerInv, Parsing
<1>6. ForceInv'
  BY DEF ForceInv
<1> QED BY <1>1, <1>2, <1>3, <1>4, <1>5, <1>6

\* Further calls only count.
LEMMA IInvGetApiAgain ==
  ASSUME IInv, GetApiAgain
  PROVE  IInv'
<1> USE DEF IInv, GetApiAgain, fileVars, parseVars, loggerVars
<1>1. TypeOK'
  BY ConfigAssumption DEF TypeOK, ApiInv
<1>2. LockInv'
  BY DEF LockInv
<1>3. FileInv'
  BY DEF FileInv, SettingOf
<1>4. ApiInv'
  BY DEF TypeOK, ApiInv, Parsing
<1>5. LoggerInv'
  BY DEF TypeOK, LoggerInv
<1>6. ForceInv'
  BY DEF ForceInv
<1> QED BY <1>1, <1>2, <1>3, <1>4, <1>5, <1>6

\* The watcher there was becomes the one that is waited for.
LEMMA IInvStartWatcher ==
  ASSUME IInv, NEW w \in Watchers, StartWatcher(w)
  PROVE  IInv'
<1> USE DEF IInv, StartWatcher, fileVars, parseVars, loggerVars
<1>1. TypeOK'
  BY DEF TypeOK
<1>2. LockInv'
  BY DEF LockInv
<1>3. FileInv'
  BY DEF FileInv, SettingOf
<1>4. ApiInv'
  BY ConfigAssumption DEF ApiInv, Starting, Threads, Parsing
<1>5. LoggerInv'
  BY DEF LoggerInv
<1>6. ForceInv'
  BY DEF ForceInv
<1> QED BY <1>1, <1>2, <1>3, <1>4, <1>5, <1>6

\* A watcher is joined outside its parse.
LEMMA IInvJoinWatcher ==
  ASSUME IInv, JoinWatcher
  PROVE  IInv'
<1> USE DEF IInv, JoinWatcher, fileVars, parseVars, loggerVars, apiVars
<1>1. TypeOK'
  BY DEF TypeOK
<1>2. LockInv'
  BY DEF LockInv
<1>3. FileInv'
  BY DEF FileInv, SettingOf
<1>4. ApiInv'
  BY DEF ApiInv, Parsing
<1>5. LoggerInv'
  BY DEF LoggerInv
<1>6. ForceInv'
  BY DEF ForceInv
<1> QED BY <1>1, <1>2, <1>3, <1>4, <1>5, <1>6

\* The internal logger is built for a LogManager that does not exist.
LEMMA IInvGetManager ==
  ASSUME IInv, GetManager
  PROVE  IInv'
<1> USE DEF IInv, GetManager, fileVars, parseVars, ConstructManager, Build
<1>1. TypeOK'
  BY ConfigAssumption DEF TypeOK, AllSettings, LoggerStates
<1>2. LockInv'
  BY DEF LockInv
<1>3. FileInv'
  BY DEF FileInv, SettingOf
<1>4. ApiInv'
  BY DEF ApiInv, Starting, Parsing
<1>5. LoggerInv'
  BY DEF LoggerInv
<1>6. ForceInv'
  BY DEF ForceInv
<1> QED BY <1>1, <1>2, <1>3, <1>4, <1>5, <1>6

\* The same, in the middle of the first parse.
LEMMA IInvGetManagerForMessage ==
  ASSUME IInv, GetManagerForMessage
  PROVE  IInv'
<1> USE DEF IInv, GetManagerForMessage, fileVars, parseVars, startVars, apiVars, ConstructManager, Build
<1>1. TypeOK'
  BY ConfigAssumption DEF TypeOK, AllSettings, LoggerStates
<1>2. LockInv'
  BY DEF LockInv
<1>3. FileInv'
  BY DEF FileInv, SettingOf
<1>4. ApiInv'
  BY DEF ApiInv, Parsing
<1>5. LoggerInv'
  BY DEF LoggerInv
<1>6. ForceInv'
  BY DEF ForceInv
<1> QED BY <1>1, <1>2, <1>3, <1>4, <1>5, <1>6

\* The LogManager exists when its internal logger is live.
LEMMA IInvManagerConstructed ==
  ASSUME IInv, ManagerConstructed
  PROVE  IInv'
<1> USE DEF IInv, ManagerConstructed, fileVars, parseVars, loggerVars
<1>1. TypeOK'
  BY DEF TypeOK
<1>2. LockInv'
  BY DEF LockInv
<1>3. FileInv'
  BY DEF FileInv, SettingOf
<1>4. ApiInv'
  BY DEF ApiInv, Starting, Parsing
<1>5. LoggerInv'
  BY DEF LoggerInv
<1>6. ForceInv'
  BY DEF ForceInv
<1> QED BY <1>1, <1>2, <1>3, <1>4, <1>5, <1>6

\* samplog_GetApi returns with a LogManager, and counts a known version.
LEMMA IInvGetApiReturns ==
  ASSUME IInv, GetApiReturns
  PROVE  IInv'
<1> USE DEF IInv, GetApiReturns, fileVars, parseVars, loggerVars
<1>1. TypeOK'
  BY ConfigAssumption DEF TypeOK, ApiInv, Starting
<1>2. LockInv'
  BY DEF LockInv
<1>3. FileInv'
  BY DEF FileInv, SettingOf
<1>4. ApiInv'
  BY DEF TypeOK, ApiInv, Starting, Parsing
<1>5. LoggerInv'
  BY DEF TypeOK, LoggerInv
<1>6. ForceInv'
  BY DEF ForceInv
<1> QED BY <1>1, <1>2, <1>3, <1>4, <1>5, <1>6

\* The last plugin has destroyed its loggers, and the settings of the internal
\* logger ask for no rotation, so that no live logger misses its entry.
LEMMA IInvDestroyApi ==
  ASSUME IInv, DestroyApi
  PROVE  IInv'
<1> USE DEF IInv, DestroyApi, fileVars, parseVars
<1>1. TypeOK'
  BY ConfigAssumption DEF TypeOK
<1>2. LockInv'
  BY DEF LockInv
<1>3. FileInv'
  BY DEF FileInv, SettingOf
<1>4. ApiInv'
  BY DEF TypeOK, ApiInv, Starting, Parsing
<1>5. LoggerInv'
  BY DEF TypeOK, LoggerInv
<1>6. ForceInv'
  BY ConfigAssumption DEF TypeOK, FileInv, ForceInv, SettingOf
<1> QED BY <1>1, <1>2, <1>3, <1>4, <1>5, <1>6

\* LogConfig ends when no watcher is left that could be in a parse.
LEMMA IInvDestroyConfig ==
  ASSUME IInv, DestroyConfig
  PROVE  IInv'
<1> USE DEF IInv, DestroyConfig, fileVars
<1>1. TypeOK'
  BY DEF TypeOK, NoSettings
<1>2. LockInv'
  BY DEF TypeOK, LockInv, ApiInv, Threads, Holding, Parsing
<1>3. FileInv'
  <2>1. content' \notin Readable
    BY ConfigAssumption DEF Unreadable
  <2>2. loggerConfigs' = NoSettings /\ DOMAIN loggerConfigs' = {}
    BY DEF NoSettings
  <2> QED BY <2>1, <2>2 DEF FileInv
<1>4. ApiInv'
  BY DEF ApiInv, Starting, Parsing
<1>5. LoggerInv'
  BY DEF TypeOK, ApiInv, LoggerInv, Threads, Holding, Parsing
<1>6. ForceInv'
  BY DEF ForceInv, NoSettings
<1> QED BY <1>1, <1>2, <1>3, <1>4, <1>5, <1>6

\* The LogManager takes the internal logger with it.
LEMMA IInvDestroyManager ==
  ASSUME IInv, DestroyManager
  PROVE  IInv'
<1> USE DEF IInv, DestroyManager, fileVars, parseVars
<1>1. TypeOK'
  BY DEF TypeOK, LoggerStates
<1>2. LockInv'
  BY DEF LockInv
<1>3. FileInv'
  BY DEF FileInv, SettingOf
<1>4. ApiInv'
  BY ConfigAssumption DEF ApiInv, Starting, Threads, Parsing
<1>5. LoggerInv'
  BY DEF TypeOK, ApiInv, LoggerInv
<1>6. ForceInv'
  BY DEF TypeOK, ForceInv
<1> QED BY <1>1, <1>2, <1>3, <1>4, <1>5, <1>6

\* A changed file changes nothing that has been parsed.
LEMMA IInvChangeFile ==
  ASSUME IInv, NEW f \in Files, ChangeFile(f)
  PROVE  IInv'
<1> USE DEF IInv, ChangeFile, parseVars, startVars, apiVars, loggerVars
<1>1. TypeOK'
  BY ConfigAssumption DEF TypeOK
<1>2. LockInv'
  BY DEF LockInv
<1>3. FileInv'
  BY DEF FileInv, SettingOf
<1>4. ApiInv'
  BY DEF ApiInv, Parsing
<1>5. LoggerInv'
  BY DEF LoggerInv
<1>6. ForceInv'
  BY DEF ForceInv
<1> QED BY <1>1, <1>2, <1>3, <1>4, <1>5, <1>6

\* A reload starts on a watcher that has not been joined.
LEMMA IInvReload ==
  ASSUME IInv, NEW w \in Watchers, Reload(w)
  PROVE  IInv'
<1> USE DEF IInv, Reload, fileVars, startVars, apiVars, loggerVars, GoTo
<1>1. TypeOK'
  <2>1. parserPc' \in [Threads -> {"idle", "load", "error", "lock"} \cup Holding]
    BY DEF TypeOK
  <2>2. \A t \in Threads : parserPc'[t] \in Holding <=> configLock' = t
    BY DEF TypeOK, Holding, Parsing
  <2> QED BY <2>1, <2>2 DEF TypeOK
<1>2. LockInv'
  BY DEF LockInv, Parsing
<1>3. FileInv'
  BY DEF FileInv, SettingOf
<1>4. ApiInv'
  BY ConfigAssumption DEF ApiInv, Parsing
<1>5. LoggerInv'
  BY DEF LoggerInv
<1>6. ForceInv'
  BY DEF ForceInv
<1> QED BY <1>1, <1>2, <1>3, <1>4, <1>5, <1>6

-----------------------------------------------------------------------------
\* The initial states.
LEMMA IInvInit == Init => IInv
<1> SUFFICES ASSUME Init PROVE IInv
  OBVIOUS
<1> USE ConfigAssumption DEF Init
<1>1. content \notin Readable /\ DOMAIN loggerConfigs = {}
  BY DEF Unreadable, NoSettings
<1>2. TypeOK
  <2>1. parserPc \in [Threads -> {"idle", "load", "error", "lock"} \cup Holding]
    OBVIOUS
  <2>2. \A t \in Threads : parserPc[t] \in Holding <=> configLock = t
    BY DEF Holding
  <2>3. logger \in [Loggers -> LoggerStates] /\ config \in [Loggers -> AllSettings]
    BY DEF LoggerStates, AllSettings
  <2>4. read \in [Threads -> Files \cup StartFiles \cup {Missing}]
    OBVIOUS
  <2>5. /\ DOMAIN loggerConfigs \subseteq Loggers
        /\ \A l \in DOMAIN loggerConfigs : loggerConfigs[l] \in AllSettings
    BY <1>1
  <2>6. \A l \in Loggers : logger[l] \in {"folder", "subscribe", "apply", "unregister"} => building = l
    OBVIOUS
  <2>7. known \in BOOLEAN /\ configUp \in BOOLEAN /\ managerUp \in BOOLEAN
    OBVIOUS
  <2>8. refs \in 0..MaxStarts /\ changes \in 0..MaxChanges /\ created \in 0..MaxCreated /\ starts \in 0..MaxStarts
    OBVIOUS
  <2>9. {watcher, retiring} \subseteq Watchers \cup {NoThread}
    OBVIOUS
  <2> HIDE ConfigAssumption DEF Init
  <2> QED BY <2>1, <2>2, <2>3, <2>4, <2>5, <2>6, <2>7, <2>8, <2>9 DEF TypeOK, Init
<1>3. LockInv
  BY <1>1 DEF LockInv
<1>4. FileInv
  BY <1>1 DEF FileInv
<1>5. ApiInv
  BY DEF ApiInv, Parsing, Starting, Server, Threads
<1>6. LoggerInv
  BY DEF LoggerInv
<1>7. ForceInv
  BY DEF ForceInv
<1> QED BY <1>2, <1>3, <1>4, <1>5, <1>6, <1>7 DEF IInv

\* A step that changes nothing.
LEMMA IInvStutter ==
  ASSUME IInv, UNCHANGED vars
  PROVE  IInv'
BY DEF IInv, vars, TypeOK, LockInv, FileInv, ApiInv, LoggerInv, ForceInv, SettingOf, Parsing

\* Every step: one lemma for each action.
LEMMA IInvNext ==
  ASSUME IInv, [Next]_vars
  PROVE  IInv'
<1>1. CASE \E k \in BOOLEAN : GetApi(k)
  BY <1>1, IInvGetApi
<1>2. CASE GetApiAgain
  BY <1>2, IInvGetApiAgain
<1>3. CASE DestroyApi
  BY <1>3, IInvDestroyApi
<1>4. CASE \E l \in Loggers : CreateLogger(l) \/ Unsubscribe(l)
  BY <1>4, IInvCreateLogger, IInvUnsubscribe
<1>5. CASE \E f \in Files : ChangeFile(f)
  BY <1>5, IInvChangeFile
<1>6. CASE \E w \in Watchers : Reload(w)
  BY <1>6, IInvReload
<1>7. CASE \E t \in Threads : ParseStep(t)
  BY <1>7, IInvParseLoad, IInvParseError, IInvParseLock, IInvCallSubscriber,
     IInvParseLoggersDone, IInvParseWarn, IInvParseUnlock, IInvAddLoggerConfig DEF ParseStep
<1>8. CASE ServerStep
  BY <1>8, IInvStartWatcher, IInvGetManager, IInvGetManagerForMessage, IInvManagerConstructed,
     IInvGetApiReturns, IInvDestroyConfig, IInvDestroyManager, IInvLoggerFolder, IInvSubscribe,
     IInvApplySettings, IInvUnregister DEF ServerStep, BuildStep
<1>9. CASE JoinWatcher
  BY <1>9, IInvJoinWatcher
<1>10. CASE UNCHANGED vars
  BY <1>10, IInvStutter
<1> QED
  BY <1>1, <1>2, <1>3, <1>4, <1>5, <1>6, <1>7, <1>8, <1>9, <1>10 DEF Next

\* The inductive invariant holds in every reachable state, however the starts
\* and ends of the library, the reloads and the loggers interleave.
THEOREM ConfigInvariant == Spec => []IInv
<1>1. Init => IInv
  BY IInvInit
<1>2. IInv /\ [Next]_vars => IInv'
  BY IInvNext
<1> QED BY <1>1, <1>2, PTL DEF Spec

\* Every variable of the configuration keeps its type, and _configLock is owned
\* by the thread that is between its acquisition and its release in a parse.
THEOREM ConfigTypeCorrect == Spec => []TypeOK
<1>1. IInv => TypeOK
  BY DEF IInv
<1> QED BY <1>1, ConfigInvariant, PTL

\* Between two parses, every live logger the file has settings for uses them
\* and is registered for rotation accordingly (SubscribeLogger, AddLoggerConfig
\* and Logger::OnConfigUpdate), whenever it was created or subscribed.
THEOREM LoggersUpToDate == Spec => []SettingsInForce
<1>1. IInv => SettingsInForce
  <2> SUFFICES ASSUME IInv, configLock = NoThread,
                      NEW l \in Loggers, logger[l] = "live", l \in DOMAIN loggerConfigs
               PROVE  config[l] = SettingOf(l) /\ (l \in rotation <=> config[l] \in Rotated)
    BY DEF SettingsInForce
  <2>1. l # calling
    BY ConfigAssumption DEF IInv, LockInv
  <2>2. config[l] = loggerConfigs[l] /\ (l \in rotation <=> config[l] \in Rotated)
    BY <2>1 DEF IInv, ForceInv
  <2>3. loggerConfigs[l] = SettingOf(l)
    BY DEF IInv, FileInv
  <2> QED BY <2>2, <2>3
<1> QED BY <1>1, ConfigInvariant, PTL

\* Between two parses _loggerConfigs has the loggers of the last file that
\* could be read and no others (ParseConfigFile clears it under the lock).
THEOREM LastFileParsed == Spec => []SettingsOfLastFile
<1>1. IInv => SettingsOfLastFile
  <2> SUFFICES ASSUME IInv, configLock = NoThread, content \in Readable
               PROVE  DOMAIN loggerConfigs = content.for \cup {InternalLogger}
    BY DEF SettingsOfLastFile
  <2>1. todo = {}
    BY DEF IInv, LockInv
  <2> QED BY <2>1 DEF IInv, FileInv
<1> QED BY <1>1, ConfigInvariant, PTL

\* Neither a callback nor a rotation entry outlives its logger (~Logger
\* unsubscribes and unregisters), so that no parse calls a destroyed one.
THEOREM NoDanglingLogger == Spec => []NothingLeftBehind
<1>1. IInv => NothingLeftBehind
  <2> SUFFICES ASSUME IInv, NEW l \in Loggers, logger[l] = "freed"
               PROVE  l \notin events \cup rotation /\ calling # l
    BY DEF NothingLeftBehind
  <2>1. l \notin events /\ l \notin rotation
    BY DEF IInv, LoggerInv
  <2>2. calling = NoLogger \/ calling \in events
    BY DEF IInv, LoggerInv
  <2>3. l # NoLogger
    BY ConfigAssumption
  <2> QED BY <2>1, <2>2, <2>3
<1> QED BY <1>1, ConfigInvariant, PTL

\* A reload only runs while LogConfig and LogManager exist and on a watcher
\* that has not been joined; when the LogManager is gone nothing of the library
\* is left (the order in samplog_DestroyApi).
THEOREM ReloadsWhileAlive == Spec => []UsedWhileAlive
<1>1. IInv => UsedWhileAlive
  <2> SUFFICES ASSUME IInv PROVE UsedWhileAlive
    OBVIOUS
  <2>1. ASSUME NEW w \in Watchers, Parsing(w)
        PROVE  configUp /\ managerUp /\ w \in {watcher, retiring}
    <3>1. w # NoThread
      BY ConfigAssumption DEF Threads
    <3> QED BY <2>1, <3>1 DEF IInv, ApiInv
  <2>2. ASSUME serverPc = "idle", ~managerUp
        PROVE  /\ watcher = NoThread /\ retiring = NoThread /\ configLock = NoThread
               /\ events = {} /\ rotation = {} /\ loggerConfigs = NoSettings
    <3>1. \A t \in Threads : ~Parsing(t)
      BY <2>2 DEF IInv, ApiInv, Threads
    <3>2. configLock = NoThread
      BY <3>1 DEF IInv, TypeOK, Parsing, Holding
    <3> QED BY <2>2, <3>2 DEF IInv, ApiInv
  <2> QED BY <2>1, <2>2 DEF UsedWhileAlive
<1> QED BY <1>1, ConfigInvariant, PTL

=============================================================================
