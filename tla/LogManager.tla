----------------------------- MODULE LogManager -----------------------------
(***************************************************************************)
(* The message pipeline of log-core: src/src/LogManager.cpp together with  *)
(* the parts of Logger that take part in it (Log, ~Logger).                *)
(*                                                                         *)
(* A thread that logs (a "caller") hands an action to LogManager::Queue    *)
(* under _queueMtx, notifies the condition variable after releasing it,    *)
(* and only then increments the logger's _logCounter.  One worker thread   *)
(* (LogManager::Process) pops the actions in order and runs each of them   *)
(* with the mutex released; the last thing an action does is to decrement  *)
(* _logCounter.  ~Logger polls that counter, because the queued actions    *)
(* hold a pointer to the logger.  ~LogManager clears _threadRunning,       *)
(* notifies the worker, joins it and destroys its own "log-core" logger.   *)
(*                                                                         *)
(* Formatting, timestamps and the console are left out: they change no     *)
(* state that another thread reads.                                        *)
(***************************************************************************)
EXTENDS Integers, Sequences, FiniteSets

CONSTANTS
  Callers,        \* threads that call Logger::Log
  Loggers,        \* all Logger objects
  InternalLogger, \* LogManager::_internalLogger, the "log-core" logger
  Levels,         \* log levels a message may have
  FileLevels,     \* the levels with a file of their own (level_files)
  CounterMod,     \* _logCounter is an unsigned int: 2^32 in the build
  MaxQueue,       \* bound: actions that fit in memory (a 32-bit process)
  MaxCalls,       \* bound: calls of Log each caller makes
  NoAction,       \* "no action in hand"
  NoThread        \* "the mutex is free"

Worker == "worker"    \* the thread that runs LogManager::Process
Closer == "closer"    \* the thread that runs ~LogManager
Threads == Callers \cup {Worker, Closer}

ASSUME ConstantsAssumption ==
  /\ IsFiniteSet(Callers)
  /\ Worker \notin Callers
  /\ Closer \notin Callers
  /\ NoThread \notin Threads
  /\ InternalLogger \in Loggers
  /\ FileLevels \subseteq Levels
  /\ MaxCalls \in Nat
  /\ MaxQueue \in Nat
  /\ CounterMod \in Nat
  /\ MaxQueue + 1 < CounterMod

\* What the lambda queued by Log captures: the logger and the level; by and nr
\* name the call, so that two actions are never confused.
Action == [logger : Loggers, level : Levels, by : Callers, nr : 1..MaxCalls]

ASSUME NoActionAssumption == NoAction \notin Action

VARIABLES
  queueMtx,      \* owner of _queueMtx, or NoThread
  queue,         \* _queue
  threadRunning, \* _threadRunning
  logCounter,    \* [Loggers -> 0..CounterMod-1]: _logCounter of each logger
  workerPc,      \* where Process is
  action,        \* the action Process has moved out of the queue
  callerPc,      \* where each caller is inside Log
  call,          \* the action each caller is about to queue
  calls,         \* calls of Log each caller has begun
  loggerState,   \* lifetime of each logger: "live", "dying" (in ~Logger), "freed"
  closerPc,      \* where ~LogManager is
  accepted,      \* history: every action ever queued, in order
  logFile,       \* history: actions whose WriteLogString is done, in order
  levelFile      \* history: actions whose WriteLevelLogString wrote a line

callerVars == <<callerPc, call, calls>>
closerVars == <<closerPc, threadRunning>>
fileVars   == <<logFile, levelFile>>
vars == <<queueMtx, queue, threadRunning, logCounter, workerPc, action,
          callerPc, call, calls, loggerState, closerPc, accepted, logFile, levelFile>>

WorkerPcs == {"boot", "wait", "asleep", "woken", "drain", "write", "level",
              "count", "relock", "exited"}
CallerPcs == {"idle", "lock", "push", "notify", "count"}
CloserPcs == {"open", "lock", "stop", "notify", "join", "joined"}

TypeOK ==
  /\ queueMtx \in Threads \cup {NoThread}
  /\ queue \in Seq(Action)
  /\ threadRunning \in BOOLEAN
  /\ logCounter \in [Loggers -> 0..(CounterMod - 1)]
  /\ workerPc \in WorkerPcs
  /\ action \in Action \cup {NoAction}
  /\ callerPc \in [Callers -> CallerPcs]
  /\ call \in [Callers -> Action \cup {NoAction}]
  /\ calls \in [Callers -> 0..MaxCalls]
  /\ loggerState \in [Loggers -> {"live", "dying", "freed"}]
  /\ closerPc \in CloserPcs
  /\ accepted \in Seq(Action)
  /\ logFile \in Seq(Action)
  /\ levelFile \in Seq(Action)

-----------------------------------------------------------------------------
\* The state LogManager's constructor leaves behind: the thread object exists
\* and the thread has got as far as pc inside Process.
InitAt(pc) ==
  /\ queueMtx = NoThread
  /\ queue = <<>>
  /\ threadRunning = TRUE
  /\ logCounter = [l \in Loggers |-> 0]
  /\ workerPc = pc
  /\ action = NoAction
  /\ callerPc = [c \in Callers |-> "idle"]
  /\ call = [c \in Callers |-> NoAction]
  /\ calls = [c \in Callers |-> 0]
  /\ loggerState = [l \in Loggers |-> "live"]
  /\ closerPc = "open"
  /\ accepted = <<>>
  /\ logFile = <<>>
  /\ levelFile = <<>>

\* The constructor returns without waiting for the thread it has started.
Init == InitAt("boot")

\* The thread has reached its first wait before anything is queued.
InitBooted == InitAt("asleep")

-----------------------------------------------------------------------------
\* _queueNotifier.notify_one(): only Process ever waits, and a notification
\* that finds nobody waiting is lost.
NotifyOne ==
  workerPc' = IF workerPc = "asleep" THEN "woken" ELSE workerPc

\* Log passes IsLogLevel and builds the action.  The logger is alive and the
\* library is open: that is the caller's side of the contract.
LogBegin(c, l, v) ==
  /\ callerPc[c] = "idle"
  /\ calls[c] < MaxCalls
  /\ loggerState[l] = "live"
  /\ closerPc = "open"
  /\ callerPc' = [callerPc EXCEPT ![c] = "lock"]
  /\ call' = [call EXCEPT ![c] =
               [logger |-> l, level |-> v, by |-> c, nr |-> calls[c] + 1]]
  /\ calls' = [calls EXCEPT ![c] = @ + 1]
  /\ UNCHANGED <<queueMtx, queue, logCounter, workerPc, action, loggerState,
                 closerVars, accepted, fileVars>>

\* Queue: lock_guard lg(_queueMtx).
QueueLock(c) ==
  /\ callerPc[c] = "lock"
  /\ queueMtx = NoThread
  /\ queueMtx' = c
  /\ callerPc' = [callerPc EXCEPT ![c] = "push"]
  /\ UNCHANGED <<queue, logCounter, workerPc, action, call, calls, loggerState,
                 closerVars, accepted, fileVars>>

\* Queue: _queue.push, and the end of the lock_guard's scope.
QueuePush(c) ==
  /\ callerPc[c] = "push"
  /\ Len(queue) < MaxQueue
  /\ queue' = Append(queue, call[c])
  /\ accepted' = Append(accepted, call[c])
  /\ queueMtx' = NoThread
  /\ callerPc' = [callerPc EXCEPT ![c] = "notify"]
  /\ UNCHANGED <<logCounter, workerPc, action, call, calls, loggerState,
                 closerVars, fileVars>>

\* Mutant: Queue forgets to notify.
QueueNotifyNobody(c) ==
  /\ callerPc[c] = "notify"
  /\ callerPc' = [callerPc EXCEPT ![c] = "count"]
  /\ UNCHANGED <<queueMtx, queue, logCounter, workerPc, action, call, calls,
                 loggerState, closerVars, accepted, fileVars>>

\* Queue: notify_one, after the mutex is released.
QueueNotify(c) ==
  /\ callerPc[c] = "notify"
  /\ NotifyOne
  /\ callerPc' = [callerPc EXCEPT ![c] = "count"]
  /\ UNCHANGED <<queueMtx, queue, logCounter, action, call, calls, loggerState,
                 closerVars, accepted, fileVars>>

\* Log: ++_logCounter, after the action is already in the queue.
CountUp(c) ==
  /\ callerPc[c] = "count"
  /\ logCounter' = [logCounter EXCEPT ![call[c].logger] = (@ + 1) % CounterMod]
  /\ callerPc' = [callerPc EXCEPT ![c] = "idle"]
  /\ call' = [call EXCEPT ![c] = NoAction]
  /\ UNCHANGED <<queueMtx, queue, workerPc, action, calls, loggerState,
                 closerVars, accepted, fileVars>>

LogStep(c) == QueueLock(c) \/ QueuePush(c) \/ QueueNotify(c) \/ CountUp(c)

-----------------------------------------------------------------------------
\* Mutant: one action per wakeup, an if in place of while (!_queue.empty()).
WorkerLockOnce ==
  /\ workerPc \in {"boot", "woken", "relock"}
  /\ queueMtx = NoThread
  /\ queueMtx' = Worker
  /\ workerPc' = IF workerPc = "woken" THEN "drain" ELSE "wait"
  /\ UNCHANGED <<queue, logCounter, action, callerVars, loggerState, closerVars,
                 accepted, fileVars>>

\* Process takes _queueMtx: the unique_lock at its start, the return of
\* wait(lk), and lk.lock() after an action.
WorkerLock ==
  /\ workerPc \in {"boot", "woken", "relock"}
  /\ queueMtx = NoThread
  /\ queueMtx' = Worker
  /\ workerPc' = IF workerPc = "boot" THEN "wait" ELSE "drain"
  /\ UNCHANGED <<queue, logCounter, action, callerVars, loggerState, closerVars,
                 accepted, fileVars>>

\* _queueNotifier.wait(lk): no predicate; the mutex is released and the thread
\* starts to wait in one step.
WorkerWait ==
  /\ workerPc = "wait"
  /\ workerPc' = "asleep"
  /\ queueMtx' = NoThread
  /\ UNCHANGED <<queue, logCounter, action, callerVars, loggerState, closerVars,
                 accepted, fileVars>>

\* wait(lk) may return without a notification.
SpuriousWakeup ==
  /\ workerPc = "asleep"
  /\ workerPc' = "woken"
  /\ UNCHANGED <<queueMtx, queue, logCounter, action, callerVars, loggerState,
                 closerVars, accepted, fileVars>>

\* Mutant: the newest action first, a stack instead of a queue.
WorkerPopNewest ==
  /\ workerPc = "drain"
  /\ queue # <<>>
  /\ action' = queue[Len(queue)]
  /\ queue' = SubSeq(queue, 1, Len(queue) - 1)
  /\ queueMtx' = NoThread
  /\ workerPc' = "write"
  /\ UNCHANGED <<logCounter, callerVars, loggerState, closerVars, accepted, fileVars>>

\* while (!_queue.empty()): move the front out, pop it, unlock.
WorkerPop ==
  /\ workerPc = "drain"
  /\ queue # <<>>
  /\ action' = Head(queue)
  /\ queue' = Tail(queue)
  /\ queueMtx' = NoThread
  /\ workerPc' = "write"
  /\ UNCHANGED <<logCounter, callerVars, loggerState, closerVars, accepted, fileVars>>

\* Mutant: the inner loop also ends when the thread is told to stop.
WorkerLoopHasty ==
  /\ workerPc = "drain"
  /\ queue = <<>> \/ ~threadRunning
  /\ IF threadRunning
       THEN workerPc' = "wait" /\ UNCHANGED queueMtx
       ELSE workerPc' = "exited" /\ queueMtx' = NoThread
  /\ UNCHANGED <<queue, logCounter, action, callerVars, loggerState, closerVars,
                 accepted, fileVars>>

\* The queue is empty: while (_threadRunning) decides between the next wait
\* and the end of the thread, which releases the unique_lock.
WorkerLoop ==
  /\ workerPc = "drain"
  /\ queue = <<>>
  /\ IF threadRunning
       THEN workerPc' = "wait" /\ UNCHANGED queueMtx
       ELSE workerPc' = "exited" /\ queueMtx' = NoThread
  /\ UNCHANGED <<queue, logCounter, action, callerVars, loggerState, closerVars,
                 accepted, fileVars>>

\* The action: WriteLogString of the logger it captured.
WriteLogString ==
  /\ workerPc = "write"
  /\ logFile' = Append(logFile, action)
  /\ workerPc' = "level"
  /\ UNCHANGED <<queueMtx, queue, logCounter, action, callerVars, loggerState,
                 closerVars, accepted, levelFile>>

\* Mutant: messages of every level go to the level files.
WriteEveryLevel ==
  /\ workerPc = "level"
  /\ levelFile' = Append(levelFile, action)
  /\ workerPc' = "count"
  /\ UNCHANGED <<queueMtx, queue, logCounter, action, callerVars, loggerState,
                 closerVars, accepted, logFile>>

\* The action: LogManager::WriteLevelLogString.
WriteLevelLogString ==
  /\ workerPc = "level"
  /\ levelFile' = IF action.level \in FileLevels THEN Append(levelFile, action)
                                                ELSE levelFile
  /\ workerPc' = "count"
  /\ UNCHANGED <<queueMtx, queue, logCounter, action, callerVars, loggerState,
                 closerVars, accepted, logFile>>

\* Mutant: an early return of the action forgets to count down.
CountDownUnlevelled ==
  /\ workerPc = "count"
  /\ logCounter' = IF action.level \in FileLevels THEN logCounter
                   ELSE [logCounter EXCEPT ![action.logger] = (@ - 1) % CounterMod]
  /\ action' = NoAction
  /\ workerPc' = "relock"
  /\ UNCHANGED <<queueMtx, queue, callerVars, loggerState, closerVars, accepted,
                 fileVars>>

\* Mutant: a signed counter.
CountDownSigned ==
  /\ workerPc = "count"
  /\ logCounter' = [logCounter EXCEPT ![action.logger] = @ - 1]
  /\ action' = NoAction
  /\ workerPc' = "relock"
  /\ UNCHANGED <<queueMtx, queue, callerVars, loggerState, closerVars, accepted,
                 fileVars>>

\* The action: --_logCounter, the last access to the logger; unsigned, so it
\* wraps below zero when the caller has not counted the action yet.
CountDown ==
  /\ workerPc = "count"
  /\ logCounter' = [logCounter EXCEPT ![action.logger] = (@ - 1) % CounterMod]
  /\ action' = NoAction
  /\ workerPc' = "relock"
  /\ UNCHANGED <<queueMtx, queue, callerVars, loggerState, closerVars, accepted,
                 fileVars>>

WorkerStep == \/ WorkerLock \/ WorkerWait \/ WorkerPop \/ WorkerLoop
              \/ WriteLogString \/ WriteLevelLogString \/ CountDown

-----------------------------------------------------------------------------
\* Caller c is inside a call of Log on logger l.
InCall(c, l) == call[c] # NoAction /\ call[c].logger = l

\* Destroy() of a plugin's logger enters ~Logger.  No call of Log on it is in
\* progress: a member function must not outlive its object.
DestroyBegin(l) ==
  /\ l # InternalLogger
  /\ loggerState[l] = "live"
  /\ \A c \in Callers : ~InCall(c, l)
  /\ loggerState' = [loggerState EXCEPT ![l] = "dying"]
  /\ UNCHANGED <<queueMtx, queue, logCounter, workerPc, action, callerVars,
                 closerVars, accepted, fileVars>>

\* Mutant: ~Logger does not poll the counter.
DestroyEndNow(l) ==
  /\ loggerState[l] = "dying"
  /\ loggerState' = [loggerState EXCEPT ![l] = "freed"]
  /\ UNCHANGED <<queueMtx, queue, logCounter, workerPc, action, callerVars,
                 closerVars, accepted, fileVars>>

\* while (_logCounter != 0) sleep; then the memory is given back.
DestroyEnd(l) ==
  /\ loggerState[l] = "dying"
  /\ logCounter[l] = 0
  /\ loggerState' = [loggerState EXCEPT ![l] = "freed"]
  /\ UNCHANGED <<queueMtx, queue, logCounter, workerPc, action, callerVars,
                 closerVars, accepted, fileVars>>

\* LogManager::Destroy().  samplog_DestroyApi runs it for the last user, after
\* the rotation and the watcher thread are joined: nobody is inside Log.
CloseBegin ==
  /\ closerPc = "open"
  /\ \A c \in Callers : callerPc[c] = "idle"
  /\ closerPc' = "lock"
  /\ UNCHANGED <<queueMtx, queue, threadRunning, logCounter, workerPc, action,
                 callerVars, loggerState, accepted, fileVars>>

\* Mutant: ~LogManager clears _threadRunning without the mutex.
CloseUnlocked ==
  /\ closerPc = "lock"
  /\ threadRunning' = FALSE
  /\ closerPc' = "notify"
  /\ UNCHANGED <<queueMtx, queue, logCounter, workerPc, action, callerVars,
                 loggerState, accepted, fileVars>>

\* ~LogManager: lock_guard lg(_queueMtx).
CloseLock ==
  /\ closerPc = "lock"
  /\ queueMtx = NoThread
  /\ queueMtx' = Closer
  /\ closerPc' = "stop"
  /\ UNCHANGED <<queue, threadRunning, logCounter, workerPc, action, callerVars,
                 loggerState, accepted, fileVars>>

\* ~LogManager: _threadRunning = false, and the end of the lock_guard's scope.
CloseStop ==
  /\ closerPc = "stop"
  /\ threadRunning' = FALSE
  /\ queueMtx' = NoThread
  /\ closerPc' = "notify"
  /\ UNCHANGED <<queue, logCounter, workerPc, action, callerVars, loggerState,
                 accepted, fileVars>>

\* Mutant: ~LogManager does not notify the worker.
CloseNotifyNobody ==
  /\ closerPc = "notify"
  /\ closerPc' = "join"
  /\ UNCHANGED <<queueMtx, queue, threadRunning, logCounter, workerPc, action,
                 callerVars, loggerState, accepted, fileVars>>

\* ~LogManager: _queueNotifier.notify_one(), after the mutex is released.
CloseNotify ==
  /\ closerPc = "notify"
  /\ NotifyOne
  /\ closerPc' = "join"
  /\ UNCHANGED <<queueMtx, queue, threadRunning, logCounter, action, callerVars,
                 loggerState, accepted, fileVars>>

\* ~LogManager: _thread->join() returns; then ~Logger of _internalLogger.
CloseJoin ==
  /\ closerPc = "join"
  /\ workerPc = "exited"
  /\ closerPc' = "joined"
  /\ loggerState' = [loggerState EXCEPT ![InternalLogger] = "dying"]
  /\ UNCHANGED <<queueMtx, queue, threadRunning, logCounter, workerPc, action,
                 callerVars, accepted, fileVars>>

CloseStep == CloseLock \/ CloseStop \/ CloseNotify \/ CloseJoin

-----------------------------------------------------------------------------
Next ==
  \/ \E c \in Callers, l \in Loggers, v \in Levels : LogBegin(c, l, v)
  \/ \E c \in Callers : LogStep(c)
  \/ WorkerStep
  \/ SpuriousWakeup
  \/ \E l \in Loggers : DestroyBegin(l) \/ DestroyEnd(l)
  \/ CloseBegin
  \/ CloseStep

Spec == Init /\ [][Next]_vars

\* Every thread that has started something goes on with it; nobody is obliged
\* to log, to destroy a logger or to close the library, and no spurious wakeup
\* may be relied upon.  _queueMtx is strongly fair to those who wait for it: the
\* worker may take it again and again between spurious wakeups, and the
\* scheduler lets no thread lose that race for ever.
Fairness ==
  /\ \A c \in Callers : WF_vars(LogStep(c)) /\ SF_vars(QueueLock(c))
  /\ WF_vars(WorkerStep)
  /\ \A l \in Loggers : WF_vars(DestroyEnd(l))
  /\ WF_vars(CloseStep) /\ SF_vars(CloseLock)

FairSpec   == Spec /\ Fairness
BootedSpec == InitBooted /\ [][Next]_vars /\ Fairness
-----------------------------------------------------------------------------
(***************************************************************************)
(* Properties.                                                             *)
(***************************************************************************)

\* The action, if any, whose line is not yet in the logger's file.
InHand == IF workerPc = "write" THEN <<action>> ELSE <<>>

Levelled(a) == a.level \in FileLevels

\* The levelled actions of a sequence, in its order.
LevelledOf(s) ==
  LET of[i \in 0..Len(s)] ==
        IF i = 0 THEN <<>>
        ELSE IF Levelled(s[i]) THEN Append(of[i - 1], s[i]) ELSE of[i - 1]
  IN  of[Len(s)]

\* Positions of the queue that hold an action of logger l.
QueuedOf(l) == {i \in 1..Len(queue) : queue[i].logger = l}

\* Callers whose action of logger l is queued but not yet counted.
UncountedOf(l) ==
  {c \in Callers : callerPc[c] \in {"notify", "count"} /\ InCall(c, l)}

InAction(l) == action # NoAction /\ action.logger = l

\* The actions that still hold a pointer to logger l.
Pending(l) == Cardinality(QueuedOf(l)) + (IF InAction(l) THEN 1 ELSE 0)

\* Although Log counts an action only after it is queued, and the worker may
\* have finished it by then, _logCounter is at every moment the number of
\* pending actions less the number of calls still to be counted (Logger::Log,
\* the lambda's --_logCounter).
CounterExact ==
  \A l \in Loggers :
    logCounter[l] = (Pending(l) - Cardinality(UncountedOf(l))) % CounterMod

\* A logger whose memory is gone is referenced by no queued action, not by the
\* action being run and not by a call of Log: what ~Logger waits for.
NoUseAfterFree ==
  \A l \in Loggers : loggerState[l] = "freed" =>
    /\ QueuedOf(l) = {}
    /\ ~InAction(l)
    /\ \A c \in Callers : ~InCall(c, l)

\* Process runs every queued action exactly once and in the order of the queue,
\* whichever threads queued it: what was accepted is what is in the files, what
\* is in hand and what is in the queue, in this order.
ExactlyOnceInOrder == accepted = logFile \o InHand \o queue

\* warnings.log, errors.log and fatals.log repeat the levelled lines of the
\* loggers' own files in the same order, and are at most the one action behind
\* that is between WriteLogString and WriteLevelLogString: also after a crash.
LevelFileFollows ==
  LevelledOf(logFile) =
    levelFile \o (IF workerPc = "level" /\ Levelled(action) THEN <<action>> ELSE <<>>)

\* When the worker is gone no accepted message is left unwritten, and no logger
\* that is destroyed from then on (the internal one in ~LogManager, a plugin's
\* one later) can wait for a counter that nobody will decrement.
ShutdownDrained ==
  workerPc = "exited" =>
    /\ logFile = accepted
    /\ \A l \in Loggers : logCounter[l] = 0

\* No lost wakeup: while the worker sleeps on a nonempty queue, a thread that
\* has queued is still to notify it.  It holds from InitBooted only: Process
\* waits without a predicate, and from Init the first notification may come
\* before anybody waits.
NoLostWakeup ==
  workerPc = "asleep" /\ queue # <<>> => \E c \in Callers : callerPc[c] = "notify"

\* The same for the end: ~LogManager never joins a worker that sleeps on.
NoLostStop ==
  workerPc = "asleep" /\ ~threadRunning => closerPc = "notify"

\* "wait until all log messages are processed" (Logger.cpp:35): the polling
\* loop of ~Logger comes to its end.
DestroyCompletes ==
  \A l \in Loggers : loggerState[l] = "dying" ~> loggerState[l] = "freed"

\* ~LogManager returns.
CloseCompletes == closerPc # "open" ~> closerPc = "joined"
-----------------------------------------------------------------------------
\* _queueMtx is held by the thread that is inside its critical section.
MutexInv ==
  /\ \A c \in Callers : queueMtx = c <=> callerPc[c] = "push"
  /\ queueMtx = Worker <=> workerPc \in {"wait", "drain"}
  /\ queueMtx = Closer <=> closerPc = "stop"

\* An action is in hand exactly where the code has one in a local variable.
HandInv ==
  /\ action # NoAction <=> workerPc \in {"write", "level", "count"}
  /\ \A c \in Callers : call[c] # NoAction <=> callerPc[c] # "idle"

\* Nobody calls a logger that is being destroyed, nor a library that is closed.
QuietInv ==
  /\ \A l \in Loggers : loggerState[l] # "live" => \A c \in Callers : ~InCall(c, l)
  /\ closerPc # "open" => \A c \in Callers : callerPc[c] = "idle"

\* The worker leaves only when it is told to and has nothing left to do.
StopInv ==
  /\ threadRunning <=> closerPc \in {"open", "lock", "stop"}
  /\ workerPc = "exited" => queue = <<>> /\ ~threadRunning

\* The inductive strengthening of the safety properties of the pipeline.
InductiveInv ==
  /\ MutexInv
  /\ HandInv
  /\ QuietInv
  /\ StopInv
  /\ Len(queue) <= MaxQueue
  /\ CounterExact
  /\ NoUseAfterFree
  /\ ExactlyOnceInOrder
-----------------------------------------------------------------------------
\* The pipeline implements the abstract log: pushing an action is accepting its
\* message, WriteLogString is writing it, every other step is invisible.
Service == INSTANCE LogService WITH Messages <- Action, written <- logFile

\* Safety of the promise, from the constructor's state on.
ImplementsService == Service!Spec

\* With liveness, once the worker thread has reached its first wait.
ImplementsLiveService == Service!LiveSpec
=============================================================================
