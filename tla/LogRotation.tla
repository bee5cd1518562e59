----------------------------- MODULE LogRotation -----------------------------
(***************************************************************************)
(* What the two kinds of rotation have in common: one log file, the        *)
(* threads that use it beside the rotation thread, and the entry that      *)
(* LogRotationManager keeps for it.  The worker thread opens the live file *)
(* in append mode for every line (Logger::WriteLogString); the constructor *)
(* of Logger may truncate it; RegisterLogFile and UnregisterLogFile wait   *)
(* for _rotationEntriesLock, which the rotation thread holds for a whole   *)
(* pass.  No lock covers the files: passes and writes interleave, and the  *)
(* process may end between any two steps.                                  *)
(***************************************************************************)
EXTENDS LogFiles, FiniteSets

CONSTANTS
  BackupCounts,  \* values of BackupCount a configuration may give
  AppendModes,   \* values of Append a configuration may give
  MaxLines,      \* bound: lines written
  MaxStarts,     \* bound: times the process is started
  MaxFailures,   \* bound: renames and removes that fail
  NoEntry,       \* the file has no rotation entry
  Closed,        \* the worker has no file open
  Unlinked       \* the worker has a file open that no name refers to

ASSUME RotationAssumption ==
  /\ BackupCounts \subseteq Int
  /\ AppendModes \subseteq BOOLEAN
  /\ MaxLines \in Nat
  /\ MaxStarts \in Nat
  /\ MaxFailures \in Nat
  /\ NoEntry \notin BackupCounts
  /\ Closed \notin Nat
  /\ Unlinked \notin Nat \cup {Closed}

VARIABLES
  files,     \* the directory
  opened,    \* the name the worker's open file goes by now, Closed or Unlinked
  logger,    \* "down" (no process), "starting" (in Logger's constructor), "up", "dying"
  append,    \* Append as the starting logger has read it
  entry,     \* _rotationEntries: the BackupCount registered for the file, or NoEntry
  rotation,  \* where the rotation thread is; it holds the lock unless it is in "sleep"
  left,      \* the backups the loop of the pass has not visited yet
  lastLine,  \* the number of the last line written
  starts,    \* times the process has been started
  failures,  \* renames and removes that have failed
  excused    \* history: lines other than the oldest have been discarded on purpose,
             \* or because a call failed

diskVars == <<files, opened, excused>>
loggerVars == <<logger, append, starts>>
userVars == <<diskVars, loggerVars, entry, lastLine, failures>>

UserTypeOK ==
  /\ DOMAIN files \subseteq Nat
  /\ \A n \in DOMAIN files : files[n] \in Seq(1..MaxLines)
  /\ opened \in DOMAIN files \cup {Closed, Unlinked}
  /\ logger \in {"down", "starting", "up", "dying"}
  /\ append \in BOOLEAN
  /\ entry \in BackupCounts \cup {NoEntry}
  /\ rotation \in {"sleep", "check", "loop", "finish"}
  /\ left \subseteq Nat \ {0}
  /\ rotation \in {"loop", "finish"} => entry # NoEntry
  /\ lastLine \in 0..MaxLines
  /\ starts \in 0..MaxStarts
  /\ failures \in 0..MaxFailures
  /\ excused \in BOOLEAN

UserInit ==
  /\ files = EmptyDir
  /\ opened = Closed
  /\ logger = "down"
  /\ append = TRUE
  /\ entry = NoEntry
  /\ rotation = "sleep"
  /\ left = {}
  /\ lastLine = 0
  /\ starts = 0
  /\ failures = 0
  /\ excused = FALSE

-----------------------------------------------------------------------------
\* std::remove and std::rename by the rotation thread; the worker's open file
\* follows its name.
RemoveFile(n) ==
  /\ files' = Remove(files, n)
  /\ opened' = IF opened = n THEN Unlinked ELSE opened
  /\ UNCHANGED excused

RenameFile(from, to) ==
  /\ files' = Rename(files, from, to)
  /\ opened' = IF ~Exists(files, from) THEN opened
               ELSE CASE opened = from -> to
                      [] opened = to   -> Unlinked
                      [] OTHER         -> opened

\* std::ofstream(F.log, trunc).  What it discards is discarded on purpose.
TruncateLive ==
  /\ files' = Truncate(files, Live)
  /\ excused' = (excused \/ (Exists(files, Live) /\ files[Live] # <<>>))
  /\ UNCHANGED opened

\* A rename or a remove fails: its result is ignored.
CallFails ==
  /\ failures < MaxFailures
  /\ failures' = failures + 1
  /\ excused' = TRUE
  /\ UNCHANGED <<files, opened>>

-----------------------------------------------------------------------------
\* RegisterLogFile: the entry is replaced, and left out for type NONE.
RegisterLogFile(e) ==
  /\ rotation = "sleep"
  /\ entry' = e

\* Mutant: UnregisterLogFile does not take the lock.
UnregisterUnlocked == entry' = NoEntry

UnregisterLogFile ==
  /\ rotation = "sleep"
  /\ entry' = NoEntry

\* Logger's constructor subscribes to its configuration, which registers the
\* rotation at once if the file has one (OnConfigUpdate).
Start(e, a) ==
  /\ logger = "down"
  /\ starts < MaxStarts
  /\ RegisterLogFile(e)
  /\ logger' = "starting"
  /\ append' = a
  /\ starts' = starts + 1
  /\ UNCHANGED <<diskVars, rotation, left, lastLine, failures>>

\* ... and only then truncates the file, unless it is to be appended to.
StartTruncate ==
  /\ logger = "starting"
  /\ logger' = "up"
  /\ IF append THEN UNCHANGED diskVars ELSE TruncateLive
  /\ UNCHANGED <<append, starts, entry, rotation, left, lastLine, failures>>

\* A changed configuration file: OnConfigUpdate on the file watcher's thread.
Reload(e) ==
  /\ logger = "up"
  /\ e # entry
  /\ RegisterLogFile(e)
  /\ UNCHANGED <<diskVars, loggerVars, rotation, left, lastLine, failures>>

\* ~Logger ends the rotation first; its queued messages are written after that.
Destroy ==
  /\ logger = "up"
  /\ UnregisterLogFile
  /\ logger' = "dying"
  /\ UNCHANGED <<diskVars, append, starts, rotation, left, lastLine, failures>>

\* The process ends, in order or not: threads and entries go, files stay.
ProcessEnds ==
  /\ logger # "down"
  /\ logger' = "down"
  /\ opened' = Closed
  /\ entry' = NoEntry
  /\ rotation' = "sleep"
  /\ left' = {}
  /\ UNCHANGED <<files, excused, append, starts, lastLine, failures>>

\* WriteLogString opens the live file in append mode ...
OpenLog ==
  /\ logger \in {"up", "dying"}
  /\ opened = Closed
  /\ lastLine < MaxLines
  /\ files' = Open(files, Live)
  /\ opened' = Live
  /\ UNCHANGED <<excused, loggerVars, entry, rotation, left, lastLine, failures>>

\* ... and writes one line at the end of the file it has open, whatever that is
\* called by now, and closes it.
WriteLine ==
  /\ opened # Closed
  /\ lastLine' = lastLine + 1
  /\ files' = IF opened = Unlinked THEN files
              ELSE [files EXCEPT ![opened] = Append(@, lastLine + 1)]
  /\ opened' = Closed
  /\ UNCHANGED <<excused, loggerVars, entry, rotation, left, failures>>

\* Every step of the others that does not begin or end the process.
OthersStep ==
  \/ \E e \in BackupCounts \cup {NoEntry} : Reload(e)
  \/ StartTruncate
  \/ Destroy
  \/ OpenLog
  \/ WriteLine

-----------------------------------------------------------------------------
\* What rotation of either kind discards is the oldest: the lines that survive,
\* in whatever file, are the last ones written, without a gap.  A crash between
\* two renames, a reload or a line written while its file is being renamed
\* loses nothing.  Only emptying the file on purpose, a negative BackupCount of
\* a size rotation and a failed call are exempt.
OnlyOldestLost ==
  ~excused => \E k \in 1..(lastLine + 1) : Lines(files) = k..lastLine

\* Every line of file m was written before every line of file n.
Older(m, n) == \A i \in DOMAIN files[m], j \in DOMAIN files[n] : files[m][i] < files[n][j]

\* Every file holds its lines in the order they were written, and the live
\* file only lines newer than those of the backups.
FilesOrdered ==
  /\ \A n \in DOMAIN files : \A i, j \in DOMAIN files[n] :
       i < j => files[n][i] < files[n][j]
  /\ Exists(files, Live) => \A n \in Backups(files) : Older(n, Live)

=============================================================================
