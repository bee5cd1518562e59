---------------------------- MODULE DateRotation ----------------------------
(***************************************************************************)
(* Rotation by date: LogRotationManager::Process and CheckDateRotation.    *)
(* In the first minute of a night on which rotation is due the live file   *)
(* is renamed to F.log.<date and time>; before that the oldest backups     *)
(* beyond BackupCount are deleted.                                         *)
(*                                                                         *)
(* Time is a discrete clock that advances while the rotation thread sleeps *)
(* and between its steps.  The thread sleeps SleepTicks at least, and each *)
(* of its steps comes at most MaxDelay after it is due: what the other     *)
(* entries of the pass, the lock and the scheduler take.                   *)
(***************************************************************************)
EXTENDS LogRotation

CONSTANTS
  MinuteTicks,   \* ticks in a minute
  SleepTicks,    \* ticks of sleep between two passes: 5 seconds
  DayMinutes,    \* minutes in a day: 1440
  RotationDays,  \* days that start with a rotation (all, Mondays, firsts of a month)
  MaxDelay,      \* ticks a step of the rotation thread may come late
  MaxClock       \* bound: the last tick

ASSUME DateAssumption ==
  /\ MinuteTicks \in Nat \ {0}
  /\ SleepTicks \in Nat \ {0}
  /\ DayMinutes \in Nat \ {0, 1}
  /\ RotationDays \subseteq Nat
  /\ MaxDelay \in Nat
  /\ MaxClock \in Nat
  /\ (DayMinutes - 1) * MinuteTicks <= MaxClock

VARIABLES
  clock,         \* Logger::Clock::now()
  dueAt,         \* when the next step of the rotation thread is due
  dateTp,        \* date_tp: when the date was last checked
  newName        \* new_filename of the pass: the minute it was computed in

timeVars == <<clock, dueAt, dateTp, newName>>
vars == <<userVars, rotation, left, timeVars>>

TypeOK ==
  /\ UserTypeOK
  /\ clock \in 0..MaxClock
  /\ dueAt \in 0..(MaxClock + SleepTicks)
  /\ dateTp \in 0..clock
  /\ newName \in 0..MaxClock
  /\ rotation \in {"loop", "finish"} => newName > 0

\* The clock starts in the last minute before a midnight.
Init ==
  /\ UserInit
  /\ clock = (DayMinutes - 1) * MinuteTicks
  /\ dueAt = clock
  /\ dateTp = clock
  /\ newName = 0

-----------------------------------------------------------------------------
MinuteOf(t) == t \div MinuteTicks
DayOf(m) == m \div DayMinutes

\* tm_hour == 0 && tm_min == 0, and the day is one the duration names.
IsRotationMinute(m) == m % DayMinutes = 0 /\ DayOf(m) \in RotationDays

Now == MinuteOf(clock)

Tick ==
  /\ clock < MaxClock
  /\ logger = "down" \/ clock < dueAt + MaxDelay
  /\ clock' = clock + 1
  /\ UNCHANGED <<userVars, rotation, left, dueAt, dateTp, newName>>

\* The thread is started by the first RegisterLogFile.
StartClocked(e, a) ==
  /\ Start(e, a)
  /\ dueAt' = clock
  /\ dateTp' = clock
  /\ UNCHANGED <<clock, newName>>

-----------------------------------------------------------------------------
GoTo(pc) ==
  /\ rotation' = pc
  /\ dueAt' = IF pc = "sleep" THEN clock + SleepTicks ELSE clock
  /\ UNCHANGED <<loggerVars, entry, lastLine, clock>>

Ready(pc) == logger # "down" /\ rotation = pc /\ clock >= dueAt

\* The head of Process' loop: at most one check of the date in a minute.
Wake ==
  /\ Ready("sleep")
  /\ IF clock - dateTp >= MinuteTicks
     THEN dateTp' = clock /\ GoTo("check")
     ELSE GoTo("sleep") /\ UNCHANGED dateTp
  /\ UNCHANGED <<diskVars, left, failures, newName>>

\* Mutant: the file of this minute may exist.
RotationDueAgain == entry # NoEntry /\ IsRotationMinute(Now)

\* What CheckDateRotation returns early for: no entry, not midnight, or the
\* file of this minute exists already.
RotationDue == entry # NoEntry /\ IsRotationMinute(Now) /\ ~Exists(files, Now)

CheckDateNaming(name) ==
  /\ Ready("check")
  /\ IF RotationDue
     THEN /\ newName' = name
          /\ left' = IF entry > 0 THEN Backups(files) ELSE {}
          /\ GoTo("loop")
     ELSE GoTo("sleep") /\ UNCHANGED <<newName, left>>
  /\ UNCHANGED <<diskVars, failures, dateTp>>

\* Mutant: the name does not say which year it is of.
CheckDateYearless == CheckDateNaming(((Now - 1) % (2 * DayMinutes)) + 1)

\* CheckDateRotation up to the loop.
CheckDate == CheckDateNaming(Now)

\* Mutant: descending order.
LargestLeft == CHOOSE n \in left : \A m \in left : m <= n

\* The dates are visited in ascending order.
NextToDelete == CHOOSE n \in left : \A m \in left : n <= m

\* The loop goes on until fewer than backup_count are left.
Unnecessary == left # {} /\ Cardinality(left) >= entry

Visited ==
  /\ Ready("loop")
  /\ Unnecessary
  /\ left' = left \ {NextToDelete}
  /\ GoTo("loop")
  /\ UNCHANGED <<dateTp, newName>>

Delete == Visited /\ RemoveFile(NextToDelete) /\ UNCHANGED failures

DeleteFails == Visited /\ CallFails

EndPass ==
  /\ Ready("loop")
  /\ ~Unnecessary
  /\ left' = {}
  /\ GoTo("sleep")
  /\ UNCHANGED <<dateTp, newName>>

\* The end of CheckDateRotation.
Rotate ==
  /\ EndPass
  /\ IF entry # 0 THEN RenameFile(Live, newName) /\ UNCHANGED excused ELSE TruncateLive
  /\ UNCHANGED failures

RotateFails ==
  /\ EndPass
  /\ entry # 0
  /\ CallFails

RotationStep == Wake \/ CheckDate \/ Delete \/ DeleteFails \/ Rotate \/ RotateFails

Next ==
  \/ Tick
  \/ \E e \in BackupCounts \cup {NoEntry}, a \in AppendModes : StartClocked(e, a)
  \/ OthersStep /\ UNCHANGED timeVars
  \/ ProcessEnds /\ UNCHANGED timeVars
  \/ RotationStep

Spec == Init /\ [][Next]_vars

-----------------------------------------------------------------------------
(* What rotation by date promises.                                         *)

\* A backup of an earlier night holds only older lines than one of a later
\* night: no backup is ever replaced or renamed, whenever the process is
\* restarted and however late a pass comes.
DatesOrdered ==
  /\ FilesOrdered
  /\ \A m, n \in Backups(files) : m < n => Older(m, n)

\* The backup of a night is never replaced and never cut, although two passes
\* may fall into its minute; one is deleted only while there are BackupCount of
\* them or more; and after a rotation no more than BackupCount are left, but for
\* one per failed call.
BackupsKept ==
  [][/\ \A n \in Backups(files) : Exists(files', n) => files'[n] = files[n] \/ opened = n
     /\ Backups(files) \subseteq Backups(files') \/ Cardinality(Backups(files)) >= entry
     /\ Rotate /\ entry > 0 => Cardinality(Backups(files')) <= entry + failures]_vars

\* "every night at 00:00 o'clock": when the first minute of a rotation day ends,
\* a rotation thread that has been running since before it has looked at the
\* date in it, or has rotated the file already.
EveryNight ==
  [][(Tick /\ IsRotationMinute(Now) /\ Now' # Now /\ entry # NoEntry /\ Exists(files, Live))
       => dateTp >= Now * MinuteTicks \/ Exists(files, Now)]_vars

=============================================================================
