------------------------------ MODULE LogConfig ------------------------------
(***************************************************************************)
(* The configuration: LogConfig with the start and the end of the library  *)
(* (samplog_GetApi, samplog_DestroyApi), the reload on the file watcher's  *)
(* thread, and the loggers that subscribe to it.                           *)
(*                                                                         *)
(* _configLock protects the parsed settings; the subscriptions are changed *)
(* without it.  A parse holds the lock while it tells the subscribed       *)
(* loggers their settings and while it logs its warnings.  The server's    *)
(* thread starts the library for each of its plugins, creates and destroys *)
(* their loggers, and ends the library with the last plugin; the next one  *)
(* starts it again.                                                        *)
(*                                                                         *)
(* One logger per module name.  What a setting says is left open but for   *)
(* its rotation entry; what can go wrong in a file is whether it can be    *)
(* read at all and whether parsing it logs a warning.                      *)
(***************************************************************************)
EXTENDS Integers, FiniteSets

CONSTANTS
  Loggers,         \* module names, the internal logger's among them
  InternalLogger,  \* "log-core"
  Settings,        \* values of Logger::Config a file may give
  InternalSetting, \* GetInternalLogConfig()
  DefaultSetting,  \* Logger::Config()
  Rotated,         \* the settings that ask for rotation (Type is not NONE)
  StartFiles,      \* contents of log-config.yml at the start
  Files,           \* contents of log-config.yml later on
  Watchers,        \* threads of file watchers; two, since the new one starts before the old one ends
  Missing,         \* there is no log-config.yml (YAML::BadFile)
  Malformed,       \* it is not YAML (YAML::ParserException)
  MaxChanges,      \* bound: changes of the file
  MaxCreated,      \* bound: loggers created
  MaxStarts,       \* bound: calls of samplog_GetApi
  NoThread,        \* the lock is free
  NoLogger         \* no logger is being called

Server == "server"
Threads == {Server} \cup Watchers
AllSettings == Settings \cup {InternalSetting, DefaultSetting}

\* Everything a readable file may say: settings for some loggers, and whether
\* it contains something to warn about.
Readable == [for : SUBSET (Loggers \ {InternalLogger}),
             as : [Loggers \ {InternalLogger} -> Settings], warns : BOOLEAN]
Unreadable == {Missing, Malformed}

ASSUME ConfigAssumption ==
  /\ InternalLogger \in Loggers
  /\ Rotated \subseteq Settings
  /\ InternalSetting \notin Rotated
  /\ StartFiles \subseteq Readable \cup Unreadable
  /\ Files \subseteq Readable \cup Unreadable
  /\ MaxChanges \in Nat
  /\ MaxCreated \in Nat
  /\ MaxStarts \in Nat
  /\ Server \notin Watchers
  /\ NoThread \notin Threads
  /\ NoLogger \notin Loggers
  /\ Unreadable \cap Readable = {}

VARIABLES
  file,            \* log-config.yml
  content,         \* what _loggerConfigs has been filled from, or Missing
  configLock,      \* owner of _configLock
  loggerConfigs,   \* _loggerConfigs: a function on the names that have settings
  events,          \* _loggerConfigEvents: the names that are subscribed
  parserPc,        \* where each thread is in ParseConfigFile
  read,            \* what it has read there, or Missing
  todo,            \* loggers of the file that the owner of the lock has not come to yet
  calling,         \* the logger whose OnConfigUpdate it is about to call
  serverPc,        \* the server's thread, in samplog_GetApi or samplog_DestroyApi unless "idle"
  known,           \* the version asked for in samplog_GetApi is known
  refs,            \* RefCounter
  configUp,        \* LogConfig's instance exists
  managerUp,       \* LogManager's instance exists
  watcher,         \* the thread of _fileWatcher
  retiring,        \* the thread of the file watcher that is being destroyed
  building,        \* the logger the server's thread constructs or destroys
  logger,          \* lifetime of each logger
  config,          \* _config of each logger
  rotation,        \* the loggers with an entry in LogRotationManager
  changes,         \* changes of the file so far
  created,         \* loggers created so far
  starts           \* calls of samplog_GetApi so far

parseVars == <<content, loggerConfigs, parserPc, read, todo, calling>>
loggerVars == <<events, building, logger, config, rotation, created>>
apiVars == <<serverPc, known, refs, configUp, starts>>
startVars == <<apiVars, managerUp, watcher, retiring>>
fileVars == <<file, changes>>
vars == <<file, content, configLock, loggerConfigs, events, parserPc, read, todo, calling,
          serverPc, known, refs, configUp, managerUp, watcher, retiring, building, logger,
          config, rotation, changes, created, starts>>

LoggerStates == {"none", "folder", "subscribe", "apply", "live", "unregister", "freed"}
Holding == {"loggers", "warn", "unlock"}   \* where a parse holds the lock
Parsing(t) == parserPc[t] # "idle"

\* Every variable keeps its type, and the lock is owned by the thread that is in a parse.
TypeOK ==
  /\ file \in Files \cup StartFiles
  /\ content \in Files \cup StartFiles \cup {Missing}
  /\ DOMAIN loggerConfigs \subseteq Loggers
  /\ \A l \in DOMAIN loggerConfigs : loggerConfigs[l] \in AllSettings
  /\ events \subseteq Loggers
  /\ parserPc \in [Threads -> {"idle", "load", "error", "lock"} \cup Holding]
  /\ read \in [Threads -> Files \cup StartFiles \cup {Missing}]
  /\ configLock \in Threads \cup {NoThread}
  /\ \A t \in Threads : parserPc[t] \in Holding <=> configLock = t
  /\ todo \subseteq Loggers
  /\ calling \in Loggers \cup {NoLogger}
  /\ calling # NoLogger => configLock # NoThread
  /\ serverPc \in {"idle", "parse", "manager", "construct", "destroy", "close"}
  /\ known \in BOOLEAN
  /\ refs \in 0..MaxStarts
  /\ configUp \in BOOLEAN
  /\ managerUp \in BOOLEAN
  /\ {watcher, retiring} \subseteq Watchers \cup {NoThread}
  /\ building \in Loggers \cup {NoLogger}
  /\ logger \in [Loggers -> LoggerStates]
  /\ \A l \in Loggers : logger[l] \in {"folder", "subscribe", "apply", "unregister"} => building = l
  /\ config \in [Loggers -> AllSettings]
  /\ rotation \subseteq Loggers
  /\ changes \in 0..MaxChanges
  /\ created \in 0..MaxCreated
  /\ starts \in 0..MaxStarts

NoSettings == [l \in {} |-> DefaultSetting]

Init ==
  /\ file \in StartFiles
  /\ content = Missing
  /\ configLock = NoThread
  /\ loggerConfigs = NoSettings
  /\ events = {}
  /\ parserPc = [t \in Threads |-> "idle"]
  /\ read = [t \in Threads |-> Missing]
  /\ todo = {}
  /\ calling = NoLogger
  /\ serverPc = "idle"
  /\ known = TRUE
  /\ refs = 0
  /\ configUp = FALSE
  /\ managerUp = FALSE
  /\ watcher = NoThread
  /\ retiring = NoThread
  /\ building = NoLogger
  /\ logger = [l \in Loggers |-> "none"]
  /\ config = [l \in Loggers |-> DefaultSetting]
  /\ rotation = {}
  /\ changes = 0
  /\ created = 0
  /\ starts = 0

-----------------------------------------------------------------------------
(* ParseConfigFile, on the server's or a watcher's thread.                 *)

GoTo(t, pc) == parserPc' = [parserPc EXCEPT ![t] = pc]

\* YAML::LoadFile.  Without a file nothing changes.
ParseLoad(t) ==
  /\ parserPc[t] = "load"
  /\ \/ file = Missing /\ GoTo(t, "idle") /\ UNCHANGED read
     \/ file = Malformed /\ GoTo(t, "error") /\ UNCHANGED read
     \/ file \in Readable /\ GoTo(t, "lock") /\ read' = [read EXCEPT ![t] = file]
  /\ UNCHANGED <<fileVars, configLock, content, loggerConfigs, todo, calling, startVars, loggerVars>>

\* The message about a file that does not parse is logged without the lock:
\* with a LogManager this is a mere Queue.
ParseError(t) ==
  /\ parserPc[t] = "error"
  /\ managerUp
  /\ GoTo(t, "idle")
  /\ UNCHANGED <<fileVars, configLock, content, loggerConfigs, read, todo, calling, startVars, loggerVars>>

\* Mutant: the settings of the previous file are not cleared.
ParseLockKeeping(t) ==
  /\ parserPc[t] = "lock"
  /\ configLock = NoThread
  /\ configLock' = t
  /\ content' = read[t]
  /\ read' = [read EXCEPT ![t] = Missing]
  /\ todo' = (read[t].for \cup {InternalLogger}) \ DOMAIN loggerConfigs
  /\ GoTo(t, "loggers")
  /\ UNCHANGED <<fileVars, loggerConfigs, calling, startVars, loggerVars>>

ParseLock(t) ==
  /\ parserPc[t] = "lock"
  /\ configLock = NoThread
  /\ configLock' = t
  /\ content' = read[t]
  /\ read' = [read EXCEPT ![t] = Missing]
  /\ loggerConfigs' = NoSettings
  /\ todo' = read[t].for \cup {InternalLogger}
  /\ GoTo(t, "loggers")
  /\ UNCHANGED <<fileVars, calling, startVars, loggerVars>>

SettingOf(l) == IF l = InternalLogger THEN InternalSetting ELSE content.as[l]

\* AddLoggerConfig: record the settings and look for a subscription ...
AddLoggerConfig(t, l) ==
  /\ parserPc[t] = "loggers"
  /\ calling = NoLogger
  /\ l \in todo
  /\ InternalLogger \in todo => l = InternalLogger
  /\ todo' = todo \ {l}
  /\ loggerConfigs' = [m \in DOMAIN loggerConfigs \cup {l} |->
                         IF m = l THEN SettingOf(l) ELSE loggerConfigs[m]]
  /\ calling' = IF l \in events THEN l ELSE NoLogger
  /\ UNCHANGED <<fileVars, configLock, content, parserPc, read, startVars, loggerVars>>

\* OnConfigUpdate: the logger takes the settings and registers its file, which
\* removes the entry if the type is NONE.
OnConfigUpdate(l, s) ==
  /\ config' = [config EXCEPT ![l] = s]
  /\ rotation' = IF s \in Rotated THEN rotation \cup {l} ELSE rotation \ {l}

\* ... and call it.
CallSubscriber(t) ==
  /\ parserPc[t] = "loggers"
  /\ calling # NoLogger
  /\ OnConfigUpdate(calling, loggerConfigs[calling])
  /\ calling' = NoLogger
  /\ UNCHANGED <<fileVars, configLock, content, loggerConfigs, parserPc, read, todo,
                 startVars, events, building, logger, created>>

ParseLoggersDone(t) ==
  /\ parserPc[t] = "loggers"
  /\ calling = NoLogger
  /\ todo = {}
  /\ GoTo(t, IF content.warns THEN "warn" ELSE "unlock")
  /\ UNCHANGED <<fileVars, configLock, content, loggerConfigs, read, todo, calling,
                 startVars, loggerVars>>

\* The warnings are logged under the lock, those about a logger too.
ParseWarn(t) ==
  /\ parserPc[t] = "warn"
  /\ managerUp
  /\ GoTo(t, "unlock")
  /\ UNCHANGED <<fileVars, configLock, content, loggerConfigs, read, todo, calling,
                 startVars, loggerVars>>

\* Mutant: a return that forgets the lock.
ParseUnlockNot(t) ==
  /\ parserPc[t] = "unlock"
  /\ GoTo(t, "idle")
  /\ UNCHANGED <<fileVars, configLock, content, loggerConfigs, read, todo, calling, startVars, loggerVars>>

ParseUnlock(t) ==
  /\ parserPc[t] = "unlock"
  /\ configLock' = NoThread
  /\ GoTo(t, "idle")
  /\ UNCHANGED <<fileVars, content, loggerConfigs, read, todo, calling, startVars, loggerVars>>

ParseStep(t) ==
  \/ ParseLoad(t) \/ ParseError(t) \/ ParseLock(t) \/ CallSubscriber(t)
  \/ ParseLoggersDone(t) \/ ParseWarn(t) \/ ParseUnlock(t)
  \/ \E l \in Loggers : AddLoggerConfig(t, l)

-----------------------------------------------------------------------------
(* A Logger's constructor and destructor, on the server's thread.          *)

Build(l) ==
  /\ building = NoLogger
  /\ building' = l

\* The constructor reads the folder of the log files: GetGlobalConfig takes
\* and releases the lock.
LoggerFolder(l) ==
  /\ logger[l] = "folder"
  /\ configLock = NoThread
  /\ logger' = [logger EXCEPT ![l] = "subscribe"]
  /\ UNCHANGED <<fileVars, configLock, parseVars, startVars, events, building, config,
                 rotation, created>>

\* Mutant: the settings are looked up before the subscription is entered, and
\* it is entered only if they are missing.
SubscribeIfMissing(l) ==
  /\ logger[l] = "subscribe"
  /\ logger' = [logger EXCEPT ![l] = "apply"]
  /\ events' = IF l \in DOMAIN loggerConfigs THEN events ELSE events \cup {l}
  /\ UNCHANGED <<fileVars, configLock, parseVars, startVars, building, config, rotation, created>>

\* SubscribeLogger enters the callback without the lock ...
Subscribe(l) ==
  /\ logger[l] = "subscribe"
  /\ logger' = [logger EXCEPT ![l] = "apply"]
  /\ events' = events \cup {l}
  /\ UNCHANGED <<fileVars, configLock, parseVars, startVars, building, config, rotation, created>>

\* ... and under the lock calls it with the settings there are.
ApplySettings(l) ==
  /\ logger[l] = "apply"
  /\ configLock = NoThread
  /\ logger' = [logger EXCEPT ![l] = "live"]
  /\ building' = NoLogger
  /\ IF l \in DOMAIN loggerConfigs
     THEN OnConfigUpdate(l, loggerConfigs[l])
     ELSE UNCHANGED <<config, rotation>>
  /\ UNCHANGED <<fileVars, configLock, parseVars, startVars, events, created>>

\* Mutant: ~Logger does not unsubscribe.
UnsubscribeNot(l) ==
  /\ logger[l] = "live"
  /\ serverPc = "idle"
  /\ l # InternalLogger
  /\ calling # l
  /\ Build(l)
  /\ logger' = [logger EXCEPT ![l] = "unregister"]
  /\ UNCHANGED <<fileVars, configLock, parseVars, startVars, events, config, rotation, created>>

\* ~Logger: UnsubscribeLogger erases the callback without the lock.  Contract
\* of the model: not while a reload is about to call it, which nothing in the
\* code prevents.
Unsubscribe(l) ==
  /\ logger[l] = "live"
  /\ serverPc = "idle"
  /\ l # InternalLogger
  /\ calling # l
  /\ Build(l)
  /\ logger' = [logger EXCEPT ![l] = "unregister"]
  /\ events' = events \ {l}
  /\ UNCHANGED <<fileVars, configLock, parseVars, startVars, config, rotation, created>>

\* UnregisterLogFile; the logger is freed when its messages are written.
Unregister(l) ==
  /\ logger[l] = "unregister"
  /\ logger' = [logger EXCEPT ![l] = "freed"]
  /\ rotation' = rotation \ {l}
  /\ building' = NoLogger
  /\ UNCHANGED <<fileVars, configLock, parseVars, startVars, events, config, created>>

BuildStep(l) == LoggerFolder(l) \/ Subscribe(l) \/ ApplySettings(l) \/ Unregister(l)

\* Api::CreateLogger; the same name may be used again after its logger is gone.
CreateLogger(l) ==
  /\ serverPc = "idle"
  /\ refs > 0
  /\ l # InternalLogger
  /\ logger[l] \in {"none", "freed"}
  /\ created < MaxCreated
  /\ Build(l)
  /\ logger' = [logger EXCEPT ![l] = "folder"]
  /\ config' = [config EXCEPT ![l] = DefaultSetting]
  /\ created' = created + 1
  /\ UNCHANGED <<fileVars, configLock, parseVars, startVars, events, rotation>>

-----------------------------------------------------------------------------
(* samplog_GetApi.                                                         *)

\* The first plugin that asks, and each one after a first that asked for an unknown version, has
\* LogConfig initialised: LogConfig::Get()->Initialize() first parses the file ...
GetApi(isKnown) ==
  /\ serverPc = "idle"
  /\ building = NoLogger
  /\ refs = 0
  /\ starts < MaxStarts
  /\ starts' = starts + 1
  /\ known' = isKnown
  /\ configUp' = TRUE
  /\ serverPc' = "parse"
  /\ GoTo(Server, "load")
  /\ UNCHANGED <<fileVars, configLock, content, loggerConfigs, read, todo, calling, loggerVars,
                 refs, managerUp, watcher, retiring>>

\* The others only count; those with an unknown version do not even that
GetApiAgain ==
  /\ serverPc = "idle"
  /\ building = NoLogger
  /\ refs > 0
  /\ starts < MaxStarts
  /\ starts' = starts + 1
  /\ refs' = refs + 1
  /\ UNCHANGED <<fileVars, configLock, parseVars, loggerVars, serverPc, known, configUp, managerUp,
                 watcher, retiring>>

\* ... then starts a watcher, and destroys the one there was before ...
StartWatcher(w) ==
  /\ serverPc = "parse"
  /\ ~Parsing(Server)
  /\ w # watcher
  /\ watcher' = w
  /\ retiring' = watcher
  /\ serverPc' = "manager"
  /\ UNCHANGED <<fileVars, configLock, parseVars, loggerVars, known, refs, configUp, managerUp, starts>>

\* ... whose destructor waits for its thread to come to the end of its loop.
JoinWatcher ==
  /\ retiring # NoThread
  /\ ~Parsing(retiring)
  /\ retiring' = NoThread
  /\ UNCHANGED <<fileVars, configLock, parseVars, loggerVars, apiVars, managerUp, watcher>>

\* LogManager::Get() constructs the internal logger first.
ConstructManager ==
  /\ logger[InternalLogger] = "none"
  /\ Build(InternalLogger)
  /\ logger' = [logger EXCEPT ![InternalLogger] = "folder"]
  /\ config' = [config EXCEPT ![InternalLogger] = DefaultSetting]
  /\ UNCHANGED <<fileVars, configLock, parseVars, events, rotation, created>>

GetManager ==
  /\ serverPc = "manager"
  /\ retiring = NoThread
  /\ ~managerUp
  /\ ConstructManager
  /\ serverPc' = "construct"
  /\ UNCHANGED <<known, refs, configUp, starts, managerUp, watcher, retiring>>

\* The same in the middle of the first parse, whose first message needs the
\* LogManager.  If it is a warning, this thread holds _configLock.
GetManagerForMessage ==
  /\ parserPc[Server] \in {"error", "warn"}
  /\ ~managerUp
  /\ ConstructManager
  /\ UNCHANGED startVars

ManagerConstructed ==
  /\ ~managerUp
  /\ logger[InternalLogger] = "live"
  /\ managerUp' = TRUE
  /\ serverPc' = IF serverPc = "construct" THEN "manager" ELSE serverPc
  /\ UNCHANGED <<fileVars, configLock, parseVars, loggerVars, known, refs, configUp, starts, watcher, retiring>>

\* samplog_GetApi returns; for an unknown version after a message and without counting
GetApiReturns ==
  /\ serverPc = "manager"
  /\ retiring = NoThread
  /\ managerUp
  /\ serverPc' = "idle"
  /\ refs' = IF known THEN refs + 1 ELSE refs
  /\ UNCHANGED <<fileVars, configLock, parseVars, loggerVars, known, configUp, starts, managerUp,
                 watcher, retiring>>

-----------------------------------------------------------------------------
(* samplog_DestroyApi.                                                     *)

\* Contract: the last plugin has destroyed the loggers before.  LogRotationManager::Destroy() drops
\* the entries, and LogConfig::Destroy() begins with its file watcher.
DestroyApi ==
  /\ serverPc = "idle"
  /\ building = NoLogger
  /\ refs > 0
  /\ refs = 1 => \A l \in Loggers \ {InternalLogger} : logger[l] \in {"none", "freed"}
  /\ refs' = refs - 1
  /\ IF refs > 1 THEN UNCHANGED <<serverPc, rotation, watcher, retiring>>
     ELSE /\ serverPc' = "destroy"
          /\ rotation' = {}
          /\ retiring' = watcher
          /\ watcher' = NoThread
  /\ UNCHANGED <<fileVars, configLock, parseVars, events, building, logger, config, created,
                 known, configUp, starts, managerUp>>

\* Mutant: does not wait for the watcher's thread.
DestroyConfigAtOnce ==
  /\ serverPc = "destroy"
  /\ configUp' = FALSE
  /\ content' = Missing
  /\ loggerConfigs' = NoSettings
  /\ events' = {}
  /\ serverPc' = "close"
  /\ UNCHANGED <<fileVars, configLock, parserPc, read, todo, calling, building, logger, config, rotation,
                 created, known, refs, starts, managerUp, watcher, retiring>>

\* Mutant: takes the lock before it waits for the watcher's thread.
DestroyConfigLocked ==
  /\ serverPc = "destroy"
  /\ \/ /\ retiring # NoThread
        /\ configLock = NoThread
        /\ configLock' = Server
        /\ UNCHANGED <<configUp, content, loggerConfigs, events, serverPc>>
     \/ /\ retiring = NoThread
        /\ configLock' = NoThread
        /\ configUp' = FALSE
        /\ content' = Missing
        /\ loggerConfigs' = NoSettings
        /\ events' = {}
        /\ serverPc' = "close"
  /\ UNCHANGED <<fileVars, parserPc, read, todo, calling, building, logger, config, rotation, created,
                 known, refs, starts, managerUp, watcher, retiring>>

\* With the watcher gone LogConfig ends, the subscription of the internal logger with it
DestroyConfig ==
  /\ serverPc = "destroy"
  /\ retiring = NoThread
  /\ configUp' = FALSE
  /\ content' = Missing
  /\ loggerConfigs' = NoSettings
  /\ events' = {}
  /\ serverPc' = "close"
  /\ UNCHANGED <<fileVars, configLock, parserPc, read, todo, calling, building, logger, config, rotation,
                 created, known, refs, starts, managerUp, watcher, retiring>>

\* LogManager::Destroy() ends the internal logger, whose destructor, as the worker may have done before,
\* asks for LogConfig, so that there is a new one, that nobody has initialised, and for LogRotationManager
DestroyManager ==
  /\ serverPc = "close"
  /\ configUp' = TRUE
  /\ managerUp' = FALSE
  /\ logger' = [logger EXCEPT ![InternalLogger] = "none"]
  /\ events' = events \ {InternalLogger}
  /\ rotation' = rotation \ {InternalLogger}
  /\ serverPc' = "idle"
  /\ UNCHANGED <<fileVars, configLock, parseVars, building, config, created, known, refs, starts,
                 watcher, retiring>>

ServerStep ==
  \/ \E w \in Watchers : StartWatcher(w)
  \/ GetManager \/ GetManagerForMessage \/ ManagerConstructed \/ GetApiReturns
  \/ DestroyConfig \/ DestroyManager
  \/ \E l \in Loggers : BuildStep(l)

-----------------------------------------------------------------------------
\* The file is changed, once the library is up (before that, it is one of
\* StartFiles) ...
ChangeFile(f) ==
  /\ managerUp
  /\ changes < MaxChanges
  /\ f # file
  /\ file' = f
  /\ changes' = changes + 1
  /\ UNCHANGED <<configLock, parseVars, startVars, loggerVars>>

\* ... and a watcher, unless its debouncing drops the change, reloads it, perhaps while it is being
\* stopped.  It logs before it parses, so there is a LogManager by then: the reload comes at least a
\* second after the thread was started.
Reload(w) ==
  /\ w \in {watcher, retiring}
  /\ ~Parsing(w)
  /\ managerUp
  /\ file # content
  /\ GoTo(w, "load")
  /\ UNCHANGED <<fileVars, configLock, content, loggerConfigs, read, todo, calling, startVars, loggerVars>>

Next ==
  \/ \E isKnown \in BOOLEAN : GetApi(isKnown)
  \/ GetApiAgain
  \/ DestroyApi
  \/ \E l \in Loggers : CreateLogger(l) \/ Unsubscribe(l)
  \/ \E f \in Files : ChangeFile(f)
  \/ \E w \in Watchers : Reload(w)
  \/ \E t \in Threads : ParseStep(t)
  \/ ServerStep
  \/ JoinWatcher

Spec == Init /\ [][Next]_vars

\* The server's thread takes the lock, wherever it is waiting for it.
ServerLock == ParseLock(Server) \/ \E l \in Loggers : LoggerFolder(l) \/ ApplySettings(l)

\* All threads are scheduled.  Nothing obliges the users to start or end the library, to create or
\* destroy loggers or to change the file, nor the watcher to see every change.  The server's thread
\* competes with reloads for the lock, which is free between them, and a watcher that is to stop looks
\* at the flag between them.
FairSpec ==
  /\ Spec
  /\ \A t \in Threads : WF_vars(ParseStep(t))
  /\ WF_vars(ServerStep)
  /\ \A w \in Watchers : SF_vars(ParseLock(w))
  /\ SF_vars(ServerLock)
  /\ SF_vars(JoinWatcher)

-----------------------------------------------------------------------------
\* Between two parses, every live logger the last file has settings for uses
\* exactly these and is registered for rotation accordingly, whether it was
\* created before, during or after the parse, and although it subscribes
\* without the lock.
SettingsInForce ==
  configLock = NoThread =>
    \A l \in Loggers : (logger[l] = "live" /\ l \in DOMAIN loggerConfigs) =>
      /\ config[l] = SettingOf(l)
      /\ l \in rotation <=> config[l] \in Rotated

\* Between two parses _loggerConfigs has the loggers of the last file that
\* could be read and no others, also when two threads have parsed at once.
SettingsOfLastFile ==
  (configLock = NoThread /\ content \in Readable) =>
    DOMAIN loggerConfigs = content.for \cup {InternalLogger}

\* No callback and no rotation entry outlives its logger: the callback holds a
\* pointer to it, the entry would let the rotation thread rename its files.
NothingLeftBehind ==
  \A l \in Loggers : logger[l] = "freed" => l \notin events \cup rotation /\ calling # l

\* samplog_DestroyApi destroys in an order in which nothing is used after its end: a reload, which logs
\* and calls subscribers, only ever runs with a LogConfig and a LogManager and on a watcher that is not
\* joined yet; and when the LogManager is gone, so are the watchers and what was registered.
UsedWhileAlive ==
  /\ \A w \in Watchers : Parsing(w) => configUp /\ managerUp /\ w \in {watcher, retiring}
  /\ serverPc = "idle" /\ ~managerUp =>
       /\ watcher = NoThread /\ retiring = NoThread /\ configLock = NoThread
       /\ events = {} /\ rotation = {} /\ loggerConfigs = NoSettings

Started == serverPc = "idle" /\ managerUp

\* "force init": samplog_GetApi returns, with a LogManager.
StartCompletes == serverPc = "parse" ~> Started

\* It does so if the first parse has nothing to warn about.
StartCompletesUnlessWarned ==
  (serverPc = "parse" /\ parserPc[Server] = "load" /\ (file \in Readable => ~file.warns)) ~> Started

\* Reloads and the creation of loggers, which compete for the lock, and the last samplog_DestroyApi, which
\* waits for a reload, all come to their end.
CallsComplete ==
  /\ \A w \in Watchers : Parsing(w) ~> ~Parsing(w)
  /\ \A l \in Loggers \ {InternalLogger} : logger[l] = "folder" ~> logger[l] = "live"
  /\ serverPc = "destroy" ~> serverPc = "idle" /\ ~managerUp

=============================================================================
