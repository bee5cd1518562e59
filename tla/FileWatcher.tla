----------------------------- MODULE FileWatcher -----------------------------
(***************************************************************************)
(* FileChangeDetector on Linux: the thread that watches the directory of   *)
(* log-config.yml with inotify and calls LogConfig's reload, and the       *)
(* destructor that stops and joins it.                                     *)
(*                                                                         *)
(* The kernel queues an event for every change in the directory (the       *)
(* server's working directory); the thread reads all that are queued and   *)
(* handles them one by one.  A change of the configuration file reloads it *)
(* unless the last reload was less than Window ago.  An editor saves in    *)
(* several writes, so the file passes through contents nobody meant.       *)
(***************************************************************************)
EXTENDS Integers, Sequences

CONSTANTS
  Kinds,         \* other events that occur in the directory
  Window,        \* ticks that must pass between reloads: 1000 ms
  MaxClock,      \* bound: the last tick
  MaxContent,    \* bound: writes to the configuration file
  MaxEvents      \* bound: events queued in the kernel

\* "config" is a change of the file itself; the rest is what else inotify may
\* report: another file, a directory, a removed watch, a full queue, another
\* watch descriptor.
EventKinds == {"config", "other", "dir", "ignored", "overflow", "unknown"}

ASSUME WatcherAssumption ==
  /\ Kinds \subseteq EventKinds \ {"config"}
  /\ Window \in Nat
  /\ MaxClock \in Nat
  /\ MaxContent \in Nat
  /\ MaxEvents \in Nat

VARIABLES
  clock,         \* steady_clock::now()
  content,       \* the configuration file: its number of writes so far
  changedAt,     \* when it was last written
  loaded,        \* the content ParseConfigFile has read last
  watcher,       \* the thread: "boot", "select", "event", "callback" or "done"
  queued,        \* events in the inotify instance
  buf,           \* events read and not yet handled: buf[i] onwards
  lastRun,       \* last_execution_tp
  currentTp,     \* current_tp
  running,       \* _isThreadRunning
  owner          \* ~FileChangeDetector: "open", "joining" or "closed"

fileVars == <<content, changedAt>>
threadVars == <<loaded, watcher, buf, lastRun, currentTp>>
vars == <<clock, fileVars, threadVars, queued, running, owner>>

TypeOK ==
  /\ clock \in 0..MaxClock
  /\ content \in 0..MaxContent
  /\ changedAt \in 0..clock
  /\ loaded \in 0..content
  /\ watcher \in {"boot", "select", "event", "callback", "done"}
  /\ queued \in Seq(EventKinds)
  /\ Len(queued) <= MaxEvents
  /\ buf \in Seq(EventKinds)
  /\ lastRun \in 0..clock
  /\ currentTp \in lastRun..clock
  /\ running \in BOOLEAN
  /\ owner \in {"open", "joining", "closed"}
  /\ running <=> owner = "open"
  /\ watcher = "callback" => currentTp - lastRun > Window

\* LogConfig::Initialize parses the file, then constructs the detector, whose
\* thread has yet to add its watch.
Init ==
  /\ clock = 0
  /\ content = 0
  /\ changedAt = 0
  /\ loaded = 0
  /\ watcher = "boot"
  /\ queued = <<>>
  /\ buf = <<>>
  /\ lastRun = 0
  /\ currentTp = 0
  /\ running = TRUE
  /\ owner = "open"

-----------------------------------------------------------------------------
(* The environment: time, the file system, the kernel.                     *)

Tick ==
  /\ clock < MaxClock
  /\ clock' = clock + 1
  /\ UNCHANGED <<fileVars, threadVars, queued, running, owner>>

Watched == watcher \notin {"boot", "done"}

Report(kind) ==
  IF Watched
  THEN Len(queued) < MaxEvents /\ queued' = Append(queued, kind)
  ELSE UNCHANGED queued

\* One write to the configuration file, or a new file moved to its name.
WriteConfig ==
  /\ content < MaxContent
  /\ content' = content + 1
  /\ changedAt' = clock
  /\ Report("config")
  /\ UNCHANGED <<clock, threadVars, running, owner>>

OtherEvent(kind) ==
  /\ Watched
  /\ Report(kind)
  /\ UNCHANGED <<clock, fileVars, threadVars, running, owner>>

-----------------------------------------------------------------------------
(* EventLoop.                                                              *)

AddWatch ==
  /\ watcher = "boot"
  /\ watcher' = "select"
  /\ lastRun' = clock
  /\ currentTp' = clock
  /\ UNCHANGED <<clock, fileVars, loaded, queued, buf, running, owner>>

\* inotify or select fails (select also when a signal interrupts it): the
\* thread returns for good and leaves the instance open.
WatcherFails ==
  /\ watcher \in {"boot", "select"}
  /\ watcher' = "done"
  /\ UNCHANGED <<clock, fileVars, loaded, queued, buf, lastRun, currentTp, running, owner>>

\* Mutant: select without a timeout.
SelectStopsLate ==
  /\ watcher = "select"
  /\ ~running
  /\ queued # <<>>
  /\ watcher' = "done"
  /\ UNCHANGED <<clock, fileVars, loaded, queued, buf, lastRun, currentTp, running, owner>>

\* select returns, at the latest after a second, and sees the flag.
SelectStops ==
  /\ watcher = "select"
  /\ ~running
  /\ watcher' = "done"
  /\ UNCHANGED <<clock, fileVars, loaded, queued, buf, lastRun, currentTp, running, owner>>

\* select reports events, and read fetches all of them.
ReadEvents ==
  /\ watcher = "select"
  /\ running
  /\ queued # <<>>
  /\ buf' = queued
  /\ queued' = <<>>
  /\ watcher' = "event"
  /\ UNCHANGED <<clock, fileVars, loaded, lastRun, currentTp, running, owner>>

\* The kinds of events for which the loop continues without advancing i: it
\* looks at the same event again, and no step leads out of that.
NotAdvanced == {"overflow", "unknown", "dir"}

AfterEvent(rest) ==
  /\ buf' = rest
  /\ watcher' = IF rest = <<>> THEN "select" ELSE "event"

\* Another file's event, or one too soon after the last reload.
Ignored(kind) ==
  \/ kind \notin NotAdvanced \cup {"config", "ignored"}
  \/ kind = "config" /\ clock - lastRun <= Window

\* Mutant: only the first of the events that were read is looked at.
IgnoreFirst ==
  /\ watcher = "event"
  /\ Ignored(Head(buf))
  /\ AfterEvent(<<>>)
  /\ UNCHANGED <<clock, fileVars, loaded, queued, lastRun, currentTp, running, owner>>

\* The event is skipped.
IgnoreEvent ==
  /\ watcher = "event"
  /\ Ignored(Head(buf))
  /\ AfterEvent(Tail(buf))
  /\ UNCHANGED <<clock, fileVars, loaded, queued, lastRun, currentTp, running, owner>>

\* The watch is gone: the thread closes the instance and ends.
WatchRemoved ==
  /\ watcher = "event"
  /\ Head(buf) = "ignored"
  /\ watcher' = "done"
  /\ buf' = <<>>
  /\ queued' = <<>>
  /\ UNCHANGED <<clock, fileVars, loaded, lastRun, currentTp, running, owner>>

\* Mutant: no limit on the rate of reloads.
CallBackAlways ==
  /\ watcher = "event"
  /\ Head(buf) = "config"
  /\ currentTp' = clock
  /\ watcher' = "callback"
  /\ UNCHANGED <<clock, fileVars, loaded, queued, buf, lastRun, running, owner>>

\* The file was changed, long enough after the last reload.
CallBack ==
  /\ watcher = "event"
  /\ Head(buf) = "config"
  /\ clock - lastRun > Window
  /\ currentTp' = clock
  /\ watcher' = "callback"
  /\ UNCHANGED <<clock, fileVars, loaded, queued, buf, lastRun, running, owner>>

\* _callback() has parsed the file as it is now.
Reload ==
  /\ watcher = "callback"
  /\ loaded' = content
  /\ lastRun' = currentTp
  /\ AfterEvent(Tail(buf))
  /\ UNCHANGED <<clock, fileVars, queued, currentTp, running, owner>>

WatcherStep == AddWatch \/ SelectStops \/ ReadEvents \/ IgnoreEvent \/ WatchRemoved
               \/ CallBack \/ Reload

-----------------------------------------------------------------------------
(* ~FileChangeDetector.                                                    *)

Stop ==
  /\ owner = "open"
  /\ running' = FALSE
  /\ owner' = "joining"
  /\ UNCHANGED <<clock, fileVars, threadVars, queued>>

\* Mutant: the destructor does not wait for the thread.
Detach ==
  /\ owner = "joining"
  /\ owner' = "closed"
  /\ UNCHANGED <<clock, fileVars, threadVars, queued, running>>

Join ==
  /\ owner = "joining"
  /\ watcher = "done"
  /\ owner' = "closed"
  /\ UNCHANGED <<clock, fileVars, threadVars, queued, running>>

Next ==
  \/ Tick
  \/ WriteConfig
  \/ \E k \in Kinds : OtherEvent(k)
  \/ WatcherFails
  \/ WatcherStep
  \/ Stop
  \/ Join

Spec == Init /\ [][Next]_vars

\* The thread and the destructor's join are scheduled; nothing obliges the
\* environment, the owner or a failing call.
FairSpec == Spec /\ WF_vars(WatcherStep) /\ WF_vars(Join)

-----------------------------------------------------------------------------
\* When the thread is idle, the configuration in use is the file as it is now,
\* or the last change came within Window of the last reload (or before the
\* thread had started to watch): batching events loses no change that the
\* debouncing does not drop.
FreshWhenIdle ==
  (watcher = "select" /\ queued = <<>>) =>
    loaded = content \/ changedAt - lastRun <= Window

\* After ~FileChangeDetector has returned, LogConfig may be freed: no reload
\* is under way and none can begin.
NoReloadAfterJoin == owner = "closed" => watcher = "done"

\* Whatever happens in the directory, the destructor returns: "we don't care
\* about directory events".
StopCompletes == owner = "joining" ~> owner = "closed"

=============================================================================
