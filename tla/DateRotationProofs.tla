------------------------- MODULE DateRotationProofs -------------------------
(***************************************************************************)
(* Proofs about DateRotation, for any number of lines, starts and failed   *)
(* calls, any lengths of minute, day and sleep, any delay and every set of *)
(* BackupCounts.  IInv is the inductive invariant: the directory is in the *)
(* order of its names and without gaps (FilesInv of LogRotationProofs), no *)
(* name is of a minute that is still to come, and a pass deletes nothing   *)
(* but what it has found.                                                  *)
(***************************************************************************)
EXTENDS DateRotation, LogRotationProofs

\* A smaller number is an earlier minute and an older file; 0 is the live file.
DateNames == {p \in Nat \X Nat : p[1] # Live /\ (p[2] = Live \/ p[1] < p[2])}

\* The part of TypeOK that speaks of the process and the pass.
PassTypeOK ==
  /\ logger \in {"down", "starting", "up", "dying"}
  /\ append \in BOOLEAN
  /\ entry \in BackupCounts \cup {NoEntry}
  /\ starts \in 0..MaxStarts
  /\ rotation \in {"sleep", "check", "loop"}
  /\ rotation = "loop" => entry # NoEntry

\* The clock has left the first minutes behind, so that no backup has the
\* number of the live file.
TimeInv ==
  /\ clock \in Nat
  /\ clock <= MaxClock
  /\ (DayMinutes - 1) * MinuteTicks <= clock
  /\ dueAt \in 0..(MaxClock + SleepTicks)
  /\ dateTp \in 0..clock

\* No name is of a later minute than this one, and that of the pass under way
\* is later than all others.
NameInv ==
  /\ \A n \in DOMAIN files : n <= Now
  /\ newName \in 0..Now
  /\ rotation = "loop" => newName > 0 /\ \A n \in DOMAIN files : n < newName

\* What is left to delete exists, and without failed calls it is all there is.
\* Each failed call leaves one backup that should have gone.
PassInv ==
  /\ rotation # "loop" => left = {}
  /\ rotation = "loop" =>
       /\ left \subseteq Backups(files)
       /\ left # {} => entry > 0
       /\ failures = 0 /\ entry > 0 => left = Backups(files)
       /\ entry > 0 => Cardinality(Backups(files) \ left) <= failures

IInv == FilesInv(DateNames) /\ PassTypeOK /\ TimeInv /\ NameInv /\ PassInv

-----------------------------------------------------------------------------
LEMMA DateNamesByAge == NamesByAge(DateNames)
BY DEF NamesByAge, DateNames, Live

LEMMA InDateNames ==
  ASSUME NEW m \in Nat, NEW n \in Nat
  PROVE  <<m, n>> \in DateNames <=> m # Live /\ (n = Live \/ m < n)
BY DEF DateNames

\* A minute begins at or before the instants in it and ends after them.
LEMMA MinuteBounds ==
  ASSUME NEW t \in Nat
  PROVE  /\ MinuteOf(t) \in Nat
         /\ MinuteTicks * MinuteOf(t) <= t
         /\ t < MinuteTicks * MinuteOf(t) + MinuteTicks
BY DateAssumption DEF MinuteOf

LEMMA MinuteOfMonotone ==
  ASSUME NEW s \in Nat, NEW t \in Nat, s <= t
  PROVE  MinuteOf(s) <= MinuteOf(t)
<1> DEFINE a == MinuteOf(s)
           b == MinuteOf(t)
<1>1. /\ a \in Nat /\ b \in Nat /\ MinuteTicks \in Nat \ {0}
      /\ MinuteTicks * a <= s /\ t < MinuteTicks * b + MinuteTicks
  BY MinuteBounds, DateAssumption
<1> HIDE DEF a, b
<1> SUFFICES ASSUME b + 1 <= a
             PROVE  FALSE
  BY <1>1 DEF a, b
<1>2. MinuteTicks * (b + 1) <= MinuteTicks * a
  BY <1>1
<1>3. MinuteTicks * (b + 1) = MinuteTicks * b + MinuteTicks
  BY <1>1
<1>4. MinuteTicks * a \in Nat /\ MinuteTicks * b \in Nat
  BY <1>1
<1> HIDE DEF a, b
<1> QED BY <1>1, <1>2, <1>3, <1>4

\* The minute of a running clock is not the first of all.
LEMMA NowBounds ==
  ASSUME TimeInv
  PROVE  Now \in Nat /\ Now > 0 /\ Now <= MaxClock
<1>1. clock \in Nat /\ clock <= MaxClock /\ MaxClock \in Nat /\ MinuteTicks \in Nat \ {0}
      /\ DayMinutes \in Nat \ {0, 1} /\ (DayMinutes - 1) * MinuteTicks <= clock
  BY DateAssumption DEF TimeInv
<1>2. /\ Now \in Nat
      /\ MinuteTicks * Now <= clock
      /\ clock < MinuteTicks * Now + MinuteTicks
  BY <1>1, MinuteBounds DEF Now
<1>3. MinuteTicks <= clock
  <2>1. 1 * MinuteTicks <= (DayMinutes - 1) * MinuteTicks
    BY <1>1
  <2>2. (DayMinutes - 1) * MinuteTicks \in Nat
    BY <1>1
  <2> QED BY <1>1, <2>1, <2>2
<1>4. Now # 0
  BY <1>1, <1>2, <1>3
<1>5. Now <= MinuteTicks * Now
  BY <1>1, <1>2
<1>6. MinuteTicks * Now \in Nat
  BY <1>1, <1>2
<1> QED BY <1>1, <1>2, <1>4, <1>5, <1>6

LEMMA DateTypes ==
  ASSUME IInv
  PROVE  TypeOK
<1> USE DEF IInv, FilesInv
<1>1. left \subseteq Nat \ {0}
  <2>1. Backups(files) \subseteq Nat \ {0}
    BY DEF Backups, DiskTypeOK
  <2> QED BY <2>1 DEF PassInv
<1>2. UserTypeOK
  BY <1>1 DEF UserTypeOK, DiskTypeOK, PassTypeOK
<1>3. newName \in 0..MaxClock
  BY NowBounds, DateAssumption DEF NameInv
<1>4. clock \in 0..MaxClock
  BY DEF TimeInv
<1>5. rotation \in {"loop", "finish"} => newName > 0
  BY DEF NameInv, PassTypeOK
<1> QED BY <1>2, <1>3, <1>4, <1>5, DateAssumption DEF TypeOK, TimeInv

\* The names and counts a pass works with.
LEMMA PassFacts ==
  ASSUME IInv
  PROVE  /\ IsFiniteSet(Backups(files)) /\ Backups(files) \subseteq Nat \ {0}
         /\ Cardinality(Backups(files)) \in Nat
         /\ IsFiniteSet(left) /\ left \subseteq Backups(files) /\ Cardinality(left) \in Nat
         /\ IsFiniteSet(Backups(files) \ left) /\ Cardinality(Backups(files) \ left) \in Nat
         /\ rotation = "loop" => entry \in Int
         /\ failures \in Nat
<1> USE DEF IInv, FilesInv
<1>1. IsFiniteSet(DOMAIN files) /\ DOMAIN files \subseteq Nat
  BY DEF DiskInv, DiskTypeOK
<1>2. /\ Backups(files) \subseteq DOMAIN files
      /\ Backups(files) \subseteq Nat \ {0}
      /\ left \subseteq Backups(files)
  BY <1>1 DEF Backups, PassInv
<1>3. IsFiniteSet(Backups(files)) /\ IsFiniteSet(left) /\ IsFiniteSet(Backups(files) \ left)
  <2>1. IsFiniteSet(Backups(files))
    BY <1>1, <1>2, FS_Subset
  <2> QED BY <1>2, <2>1, FS_Subset
<1>4. rotation = "loop" => entry \in Int
  BY RotationAssumption DEF PassTypeOK
<1>5. failures \in Nat
  BY RotationAssumption DEF DiskTypeOK
<1> QED BY <1>2, <1>3, <1>4, <1>5, FS_CardinalityType

\* The next file to delete is the first one left.
LEMMA NextToDeleteIsFirst ==
  ASSUME IInv, left # {}
  PROVE  /\ NextToDelete \in left
         /\ \A m \in left : NextToDelete <= m
         /\ NextToDelete \in Nat \ {0}
<1>1. left \subseteq Nat /\ left \subseteq Nat \ {0}
  BY PassFacts
<1>2. \E n \in left : \A m \in left : n <= m
  BY <1>1, MinExists
<1> QED BY <1>1, <1>2 DEF NextToDelete

-----------------------------------------------------------------------------
(* The invariant is kept by every step.                                    *)

\* A step that leaves the pass and the names of the backups alone.
LEMMA PassUndisturbed ==
  ASSUME PassInv, UNCHANGED <<rotation, left, failures, entry>>,
         Backups(files') = Backups(files)
  PROVE  PassInv'
BY DEF PassInv

\* A step that leaves the clock alone and gives no file a name.
LEMMA NamesUndisturbed ==
  ASSUME TimeInv, NameInv, UNCHANGED timeVars, rotation' = rotation,
         DOMAIN files' \subseteq DOMAIN files \cup {Live}
  PROVE  TimeInv' /\ NameInv'
<1> USE DEF timeVars
<1>1. TimeInv'
  BY DEF TimeInv
<1>2. Now' = Now /\ Now \in Nat
  BY NowBounds DEF Now
<1>3. NameInv'
  BY <1>2 DEF NameInv, Live
<1> QED BY <1>1, <1>3

\* A step after which no pass is in its loop.
LEMMA PassOver ==
  ASSUME rotation' # "loop", left' = {}
  PROVE  PassInv'
BY DEF PassInv

LEMMA IInvTick ==
  ASSUME IInv, Tick
  PROVE  IInv'
<1> USE DEF IInv
<1>1. UNCHANGED <<fileVars, logger, append, starts, entry, rotation, left, dueAt, dateTp, newName>>
  BY DEF Tick, userVars, diskVars, loggerVars, fileVars
<1>2. clock' = clock + 1 /\ clock < MaxClock
  BY DEF Tick
<1>3. FilesInv(DateNames)'
  BY <1>1, FilesInvSame DEF fileVars
<1>4. PassTypeOK'
  BY <1>1 DEF PassTypeOK
<1>5. TimeInv'
  <2>1. (DayMinutes - 1) * MinuteTicks \in Nat
    BY DateAssumption
  <2> QED BY <1>1, <1>2, <2>1, DateAssumption DEF TimeInv
<1>6. NameInv'
  <2>1. Now <= Now' /\ Now \in Nat /\ Now' \in Nat
    <3>1. clock \in Nat /\ clock' \in Nat /\ clock <= clock'
      BY <1>2 DEF TimeInv
    <3> QED BY <3>1, MinuteOfMonotone, MinuteBounds DEF Now
  <2>2. DOMAIN files \subseteq Nat
    BY DEF FilesInv, DiskTypeOK
  <2> QED BY <1>1, <2>1, <2>2 DEF NameInv, fileVars
<1>7. PassInv'
  BY <1>1, PassUndisturbed DEF fileVars
<1> QED BY <1>3, <1>4, <1>5, <1>6, <1>7

LEMMA IInvOthers ==
  ASSUME IInv,
         \/ \E e \in BackupCounts \cup {NoEntry}, a \in AppendModes : StartClocked(e, a)
         \/ OthersStep /\ UNCHANGED timeVars
         \/ ProcessEnds /\ UNCHANGED timeVars
  PROVE  IInv'
<1> USE DEF IInv
<1>0. /\ NamesByAge(DateNames)
      /\ rotation # "loop" => left = {}
  BY DateNamesByAge DEF PassInv
<1>1. CASE \E e \in BackupCounts \cup {NoEntry}, a \in AppendModes : StartClocked(e, a)
  <2>1. PICK e \in BackupCounts \cup {NoEntry}, a \in AppendModes : StartClocked(e, a)
    BY <1>1
  <2>2. FilesInv(DateNames)'
    BY <2>1, FilesInvSame DEF StartClocked, Start, diskVars
  <2>3. PassTypeOK'
    BY <2>1, RotationAssumption DEF StartClocked, Start, RegisterLogFile, PassTypeOK
  <2>4. TimeInv'
    BY <2>1, DateAssumption DEF StartClocked, TimeInv
  <2>5. NameInv'
    BY <2>1 DEF StartClocked, Start, RegisterLogFile, diskVars, NameInv, Now
  <2> QED BY <1>0, <2>1, <2>2, <2>3, <2>4, <2>5, PassOver DEF StartClocked, Start, RegisterLogFile
<1>2. CASE (\E e \in BackupCounts \cup {NoEntry} : Reload(e)) /\ UNCHANGED timeVars
  <2>1. PICK e \in BackupCounts \cup {NoEntry} : Reload(e)
    BY <1>2
  <2>2. FilesInv(DateNames)'
    BY <2>1, FilesInvSame DEF Reload, diskVars
  <2>3. PassTypeOK'
    BY <2>1 DEF Reload, RegisterLogFile, PassTypeOK, loggerVars
  <2>4. TimeInv' /\ NameInv'
    BY <1>2, <2>1, NamesUndisturbed DEF Reload, diskVars
  <2> QED BY <1>0, <2>1, <2>2, <2>3, <2>4, PassOver DEF Reload, RegisterLogFile
<1>3. CASE Destroy /\ UNCHANGED timeVars
  <2>1. FilesInv(DateNames)'
    BY <1>3, FilesInvSame DEF Destroy, diskVars
  <2>2. PassTypeOK'
    BY <1>3 DEF Destroy, UnregisterLogFile, PassTypeOK
  <2>3. TimeInv' /\ NameInv'
    BY <1>3, NamesUndisturbed DEF Destroy, diskVars
  <2> QED BY <1>0, <1>3, <2>1, <2>2, <2>3, PassOver DEF Destroy, UnregisterLogFile
<1>4. CASE StartTruncate /\ UNCHANGED timeVars
  <2>1. FilesInv(DateNames)'
    <3>1. CASE append
      BY <1>4, <3>1, FilesInvSame DEF StartTruncate, diskVars
    <3>2. CASE ~append
      BY <1>0, <1>4, <3>2, FilesInvTruncateLive DEF StartTruncate
    <3> QED BY <3>1, <3>2
  <2>2. PassTypeOK'
    BY <1>4 DEF StartTruncate, PassTypeOK
  <2>3. DOMAIN files' \subseteq DOMAIN files \cup {Live} /\ Backups(files') = Backups(files)
    BY <1>4 DEF StartTruncate, TruncateLive, Truncate, Backups, Live, diskVars
  <2>4. TimeInv' /\ NameInv'
    BY <1>4, <2>3, NamesUndisturbed DEF StartTruncate
  <2> QED BY <1>4, <2>1, <2>2, <2>3, <2>4, PassUndisturbed DEF StartTruncate
<1>5. CASE OpenLog /\ UNCHANGED timeVars
  <2>1. FilesInv(DateNames)'
    BY <1>0, <1>5, FilesInvOpenLog
  <2>2. PassTypeOK'
    BY <1>5 DEF OpenLog, PassTypeOK, loggerVars
  <2>3. DOMAIN files' \subseteq DOMAIN files \cup {Live} /\ Backups(files') = Backups(files)
    BY <1>5 DEF OpenLog, Open, Truncate, Backups, Live
  <2>4. TimeInv' /\ NameInv'
    BY <1>5, <2>3, NamesUndisturbed DEF OpenLog
  <2> QED BY <1>5, <2>1, <2>2, <2>3, <2>4, PassUndisturbed DEF OpenLog
<1>6. CASE WriteLine /\ UNCHANGED timeVars
  <2>1. FilesInv(DateNames)'
    BY <1>0, <1>6, FilesInvWriteLine
  <2>2. PassTypeOK'
    BY <1>6 DEF WriteLine, PassTypeOK, loggerVars
  <2>3. DOMAIN files' = DOMAIN files
    BY <1>6 DEF WriteLine
  <2>4. Backups(files') = Backups(files)
    BY <2>3 DEF Backups
  <2>5. TimeInv' /\ NameInv'
    BY <1>6, <2>3, NamesUndisturbed DEF WriteLine
  <2> QED BY <1>6, <2>1, <2>2, <2>4, <2>5, PassUndisturbed DEF WriteLine
<1>7. CASE ProcessEnds /\ UNCHANGED timeVars
  <2>1. FilesInv(DateNames)'
    BY <1>7, FilesInvSame DEF ProcessEnds
  <2>2. PassTypeOK'
    BY <1>7 DEF ProcessEnds, PassTypeOK
  <2>3. TimeInv' /\ NameInv'
    BY <1>7 DEF ProcessEnds, timeVars, TimeInv, NameInv, Now
  <2> QED BY <1>7, <2>1, <2>2, <2>3, PassOver DEF ProcessEnds
<1> QED BY <1>1, <1>2, <1>3, <1>4, <1>5, <1>6, <1>7 DEF OthersStep

\* Going to the next step leaves the clock alone.
LEMMA GoToTime ==
  ASSUME TimeInv, NEW pc, GoTo(pc), dateTp' \in {dateTp, clock}
  PROVE  TimeInv'
BY DateAssumption DEF GoTo, TimeInv

LEMMA IInvWake ==
  ASSUME IInv, Wake
  PROVE  IInv'
<1> USE DEF IInv
<1>1. PICK pc \in {"sleep", "check"} : GoTo(pc) /\ dateTp' \in {dateTp, clock}
  BY DEF Wake
<1>2. /\ rotation = "sleep" /\ rotation' = pc
      /\ left = {} /\ left' = {}
      /\ UNCHANGED <<fileVars, logger, append, starts, entry, clock, newName>>
  BY <1>1 DEF Wake, Ready, GoTo, PassInv, fileVars, diskVars, loggerVars
<1>3. FilesInv(DateNames)'
  BY <1>2, FilesInvSame DEF fileVars
<1>4. PassTypeOK'
  BY <1>2 DEF PassTypeOK
<1>5. TimeInv'
  BY <1>1, GoToTime
<1>6. NameInv'
  BY <1>2 DEF NameInv, Now, fileVars
<1> QED BY <1>2, <1>3, <1>4, <1>5, <1>6, PassOver

\* The name of a pass is new, and the backups it begins with are all there are.
LEMMA IInvCheckDate ==
  ASSUME IInv, CheckDate
  PROVE  IInv'
<1> USE DEF IInv
<1>1. PICK pc \in {"sleep", "loop"} : GoTo(pc) /\ (pc = "loop" <=> RotationDue)
  BY DEF CheckDate, CheckDateNaming
<1>2. /\ rotation = "check" /\ rotation' = pc
      /\ left = {}
      /\ UNCHANGED <<fileVars, logger, append, starts, entry, clock, dateTp>>
  BY <1>1 DEF CheckDate, CheckDateNaming, Ready, GoTo, PassInv, fileVars, diskVars, loggerVars
<1>3. FilesInv(DateNames)'
  BY <1>2, FilesInvSame DEF fileVars
<1>4. PassTypeOK'
  BY <1>1, <1>2 DEF PassTypeOK, RotationDue
<1>5. TimeInv'
  BY <1>1, <1>2, GoToTime
<1>6. CASE ~RotationDue
  <2>1. rotation' = "sleep" /\ UNCHANGED <<newName, left>>
    BY <1>1, <1>2, <1>6 DEF CheckDate, CheckDateNaming
  <2>2. NameInv'
    BY <1>2, <2>1 DEF NameInv, Now, fileVars
  <2> QED BY <1>2, <1>3, <1>4, <1>5, <2>1, <2>2, PassOver
<1>7. CASE RotationDue
  <2>1. /\ rotation' = "loop"
        /\ newName' = Now
        /\ left' = IF entry > 0 THEN Backups(files) ELSE {}
        /\ Now \notin DOMAIN files
    BY <1>1, <1>2, <1>7 DEF CheckDate, CheckDateNaming, RotationDue, Exists
  <2>2. NameInv'
    <3>1. Now' = Now /\ Now \in Nat /\ Now > 0
      BY <1>2, NowBounds DEF Now
    <3>2. \A n \in DOMAIN files : n < Now
      BY <2>1, <3>1 DEF NameInv, FilesInv, DiskTypeOK
    <3> QED BY <1>2, <2>1, <3>1, <3>2 DEF NameInv, fileVars
  <2>3. PassInv'
    <3>1. entry > 0 => Backups(files') \ left' = {}
      BY <1>2, <2>1 DEF fileVars
    <3>2. failures' \in Nat
      BY <1>2, PassFacts DEF fileVars
    <3>3. entry > 0 => Cardinality(Backups(files') \ left') <= failures'
      BY <3>1, <3>2, FS_EmptySet
    <3> QED BY <1>2, <2>1, <3>3 DEF PassInv, fileVars
  <2> QED BY <1>3, <1>4, <1>5, <2>2, <2>3
<1> QED BY <1>6, <1>7

\* What a turn of the loop does, whether its call fails or not.
LEMMA VisitedPass ==
  ASSUME IInv, Visited
  PROVE  /\ PassTypeOK' /\ TimeInv'
         /\ rotation = "loop" /\ rotation' = "loop"
         /\ NextToDelete \in left /\ left' = left \ {NextToDelete}
         /\ entry \in Int /\ entry > 0
         /\ UNCHANGED <<entry, clock, newName, lastLine>>
<1> USE DEF IInv
<1>1. /\ rotation = "loop" /\ rotation' = "loop" /\ left # {}
      /\ left' = left \ {NextToDelete}
      /\ GoTo("loop") /\ dateTp' = dateTp
      /\ UNCHANGED <<logger, append, starts, entry, clock, newName, lastLine>>
  BY DEF Visited, Ready, Unnecessary, GoTo, loggerVars
<1>2. entry \in Int /\ entry > 0
  BY <1>1, PassFacts DEF PassInv
<1>3. PassTypeOK'
  BY <1>1 DEF PassTypeOK
<1>4. TimeInv'
  BY <1>1, GoToTime
<1> QED BY <1>1, <1>2, <1>3, <1>4, NextToDeleteIsFirst

\* Deleting the oldest backup, if there are enough newer ones.
LEMMA IInvDelete ==
  ASSUME IInv, Delete
  PROVE  IInv'
<1> DEFINE f == NextToDelete
<1> USE DEF IInv
<1>1. /\ PassTypeOK' /\ TimeInv'
      /\ rotation = "loop" /\ rotation' = "loop"
      /\ f \in left /\ left' = left \ {f}
      /\ entry \in Int /\ entry > 0
      /\ UNCHANGED <<entry, clock, newName, lastLine>>
      /\ RemoveFile(f) /\ failures' = failures
  BY VisitedPass DEF Delete
<1>2. f \in Nat \ {0} /\ \A m \in left : f <= m
  BY <1>1, NextToDeleteIsFirst
<1> HIDE DEF f
<1>3. FilesInv(DateNames)'
  <2>1. ASSUME ~excused, NEW m \in DOMAIN files, m # f
        PROVE  <<f, m>> \in DateNames
    <3>1. failures = 0
      BY <2>1, PassFacts DEF FilesInv, DiskInv
    <3>2. m \in Nat /\ (m > 0 => m \in left)
      BY <1>1, <3>1 DEF FilesInv, DiskTypeOK, PassInv, Backups
    <3>3. m = Live \/ f < m
      BY <1>2, <2>1, <3>2 DEF Live
    <3> QED BY <1>2, <3>2, <3>3, InDateNames DEF Live
  <2> QED BY <1>1, <1>2, <2>1, FilesInvRemove
<1>4. DOMAIN files' = DOMAIN files \ {f}
  BY <1>1 DEF RemoveFile, Remove
<1>5. NameInv'
  BY <1>1, <1>4 DEF NameInv, Now
<1>6. PassInv'
  <2>1. /\ Backups(files') = Backups(files) \ {f}
        /\ Backups(files') \ left' = Backups(files) \ left
    BY <1>1, <1>4 DEF Backups
  <2> QED BY <1>1, <2>1 DEF PassInv
<1> QED BY <1>1, <1>3, <1>5, <1>6

LEMMA IInvDeleteFails ==
  ASSUME IInv, DeleteFails
  PROVE  IInv'
<1> DEFINE f == NextToDelete
<1> USE DEF IInv
<1>1. /\ PassTypeOK' /\ TimeInv'
      /\ rotation = "loop" /\ rotation' = "loop"
      /\ f \in left /\ left' = left \ {f}
      /\ entry \in Int /\ entry > 0
      /\ UNCHANGED <<entry, clock, newName, lastLine>>
      /\ CallFails
  BY VisitedPass DEF DeleteFails
<1>2. files' = files /\ failures' = failures + 1
  BY <1>1 DEF CallFails
<1> HIDE DEF f
<1>3. FilesInv(DateNames)'
  BY <1>1, FilesInvCallFails
<1>4. NameInv'
  BY <1>1, <1>2 DEF NameInv, Now
<1>5. PassInv'
  <2>1. /\ IsFiniteSet(Backups(files) \ left) /\ Cardinality(Backups(files) \ left) \in Nat
        /\ failures \in Nat /\ left \subseteq Backups(files)
    BY PassFacts
  <2>2. Backups(files') \ left' = (Backups(files) \ left) \cup {f}
    BY <1>1, <1>2, <2>1
  <2>3. Cardinality(Backups(files') \ left') <= failures'
    <3>1. Cardinality(Backups(files') \ left') = Cardinality(Backups(files) \ left) + 1
      BY <1>1, <2>1, <2>2, FS_AddElement
    <3>2. Cardinality(Backups(files) \ left) <= failures
      BY <1>1 DEF PassInv
    <3> QED BY <1>2, <2>1, <3>1, <3>2
  <2> QED BY <1>1, <1>2, <2>1, <2>3 DEF PassInv
<1> QED BY <1>1, <1>3, <1>4, <1>5

\* The end of the pass: the new name is free, and later than all others.
LEMMA IInvEnds ==
  ASSUME IInv, Rotate \/ RotateFails
  PROVE  IInv'
<1> USE DEF IInv
<1>1. /\ rotation = "loop" /\ rotation' = "sleep" /\ left' = {}
      /\ GoTo("sleep") /\ dateTp' = dateTp
      /\ entry \in Int
      /\ UNCHANGED <<logger, append, starts, entry, lastLine, clock, newName>>
  BY PassFacts DEF Rotate, RotateFails, EndPass, Ready, GoTo, loggerVars
<1>2. PassTypeOK'
  BY <1>1 DEF PassTypeOK
<1>3. TimeInv'
  BY <1>1, GoToTime
<1>4. PassInv'
  BY <1>1, PassOver
<1>5. Now' = Now /\ Now \in Nat
  BY <1>1, NowBounds DEF Now
<1>6. CASE RotateFails
  <2>1. FilesInv(DateNames)'
    BY <1>1, <1>6, FilesInvCallFails DEF RotateFails
  <2>2. NameInv'
    BY <1>1, <1>5, <1>6 DEF RotateFails, CallFails, NameInv
  <2> QED BY <1>2, <1>3, <1>4, <2>1, <2>2
<1>7. CASE Rotate /\ entry = 0
  <2>1. FilesInv(DateNames)'
    BY <1>1, <1>7, DateNamesByAge, FilesInvTruncateLive DEF Rotate
  <2>2. DOMAIN files' = DOMAIN files \cup {Live}
    BY <1>7 DEF Rotate, TruncateLive, Truncate
  <2>3. NameInv'
    BY <1>1, <1>5, <2>2 DEF NameInv, Live
  <2> QED BY <1>2, <1>3, <1>4, <2>1, <2>3
<1>8. CASE Rotate /\ entry # 0
  <2>1. /\ RenameFile(Live, newName)
        /\ UNCHANGED <<excused, failures>>
    BY <1>8 DEF Rotate
  <2>2. /\ newName \in Nat /\ newName > 0
        /\ \A n \in DOMAIN files : n < newName
        /\ newName <= Now
    BY <1>1, <1>5 DEF NameInv
  <2>3. Live \in Nat /\ Live # newName /\ excused' \in BOOLEAN /\ newName \notin DOMAIN files
    BY <2>1, <2>2 DEF Live, FilesInv, DiskTypeOK
  <2>4. ASSUME NEW n \in DOMAIN files, n # Live, n # newName
        PROVE  /\ <<n, newName>> \in DateNames => <<n, Live>> \in DateNames
               /\ <<newName, n>> \in DateNames => <<Live, n>> \in DateNames
    <3>1. n \in Nat /\ n < newName
      BY <2>2 DEF FilesInv, DiskTypeOK
    <3> QED BY <2>2, <2>3, <2>4, <3>1, InDateNames
  <2>5. FilesInv(DateNames)'
    BY <1>1, <2>1, <2>2, <2>3, <2>4, DateNamesByAge, FilesInvRename
  <2>6. DOMAIN files' \subseteq DOMAIN files \cup {newName}
    BY <2>1 DEF RenameFile, Rename
  <2>7. NameInv'
    BY <1>1, <1>5, <2>2, <2>6 DEF NameInv
  <2> QED BY <1>2, <1>3, <1>4, <2>5, <2>7
<1> QED BY <1>1, <1>6, <1>7, <1>8

-----------------------------------------------------------------------------
(* The invariant and what follows from it.                                 *)

LEMMA IInvInit ==
  ASSUME Init
  PROVE  IInv
<1>1. FilesInv(DateNames)
  BY FilesInvInit DEF Init
<1>2. PassTypeOK
  BY RotationAssumption DEF Init, UserInit, PassTypeOK
<1>3. TimeInv
  <2>1. (DayMinutes - 1) * MinuteTicks \in Nat
    BY DateAssumption
  <2> QED BY <2>1, DateAssumption DEF Init, TimeInv
<1>4. NameInv
  BY <1>3, NowBounds DEF Init, UserInit, NameInv, EmptyDir
<1>5. PassInv
  BY DEF Init, UserInit, PassInv
<1> QED BY <1>1, <1>2, <1>3, <1>4, <1>5 DEF IInv

LEMMA IInvNext ==
  ASSUME IInv, [Next]_vars
  PROVE  IInv'
<1>1. CASE UNCHANGED vars
  <2>1. UNCHANGED <<fileVars, timeVars, entry, rotation, left, logger, append, starts>>
    BY <1>1 DEF vars, userVars, diskVars, loggerVars, fileVars
  <2>2. FilesInv(DateNames)'
    BY <2>1, FilesInvSame DEF fileVars, IInv
  <2>3. PassTypeOK'
    BY <2>1 DEF PassTypeOK, IInv
  <2>4. TimeInv' /\ NameInv'
    BY <2>1, NamesUndisturbed DEF IInv, fileVars
  <2>5. PassInv'
    BY <2>1, PassUndisturbed DEF IInv, fileVars
  <2> QED BY <2>2, <2>3, <2>4, <2>5 DEF IInv
<1>2. CASE Tick
  BY <1>2, IInvTick
<1>3. CASE Wake
  BY <1>3, IInvWake
<1>4. CASE CheckDate
  BY <1>4, IInvCheckDate
<1>5. CASE Delete
  BY <1>5, IInvDelete
<1>6. CASE DeleteFails
  BY <1>6, IInvDeleteFails
<1>7. CASE Rotate \/ RotateFails
  BY <1>7, IInvEnds
<1>8. CASE ~Tick /\ ~RotationStep /\ Next
  BY <1>8, IInvOthers DEF Next
<1> QED BY <1>1, <1>2, <1>3, <1>4, <1>5, <1>6, <1>7, <1>8 DEF RotationStep

\* The inductive invariant holds in every reachable state.
THEOREM DateInvariant == Spec => []IInv
<1>1. Init => IInv
  BY IInvInit
<1>2. IInv /\ [Next]_vars => IInv'
  BY IInvNext
<1> QED BY <1>1, <1>2, PTL DEF Spec

\* Every variable of a rotation by date keeps its type: no check of the date
\* lies in the future, and the name a pass has computed is not the live file's.
THEOREM DateTypeCorrect == Spec => []TypeOK
<1>1. IInv => TypeOK
  BY DateTypes
<1> QED BY <1>1, DateInvariant, PTL

\* A backup of an earlier night holds only older lines than one of a later
\* night, between any two steps and however late a pass comes.
THEOREM DateDatesOrdered == Spec => []DatesOrdered
<1>1. IInv => DatesOrdered
  <2> SUFFICES ASSUME IInv
               PROVE  DatesOrdered
    OBVIOUS
  <2> USE DEF IInv, FilesInv
  <2>1. DOMAIN files \subseteq Nat
    BY DEF DiskTypeOK
  <2>2. \A m, n \in DOMAIN files : m # 0 /\ (n = 0 \/ m < n) => Older(m, n)
    BY <2>1, InDateNames DEF OrderedBy, Live
  <2>3. FilesOrdered
    BY <2>1, <2>2 DEF FilesOrdered, OrderedBy, Ascending, Exists, Backups, Live
  <2> QED BY <2>1, <2>2, <2>3 DEF DatesOrdered, Backups
<1> QED BY <1>1, DateInvariant, PTL

\* Rotation by date loses the oldest lines only, unless it is excused.
THEOREM DateOnlyOldestLost == Spec => []OnlyOldestLost
<1>1. IInv => OnlyOldestLost
  BY GaplessLines DEF IInv
<1> QED BY <1>1, DateInvariant, PTL

\* The backup of a night is never replaced and never cut; one is deleted only
\* while there are BackupCount of them or more; and after a rotation no more
\* than BackupCount are left, but for one per failed call.
THEOREM DateBackupsKept == Spec => BackupsKept
<1> DEFINE Whole == \A n \in Backups(files) :
                      Exists(files', n) => files'[n] = files[n] \/ opened = n
           NoneTooEarly == \/ Backups(files) \subseteq Backups(files')
                           \/ Cardinality(Backups(files)) >= entry
           NoneTooMany == Rotate /\ entry > 0 =>
                            Cardinality(Backups(files')) <= entry + failures
<1>1. ASSUME IInv, Next
      PROVE  Whole /\ NoneTooEarly
  <2> USE DEF IInv, Exists, Backups
  <2>1. CASE files' = files
    BY <2>1
  <2>2. CASE TruncateLive
    BY <2>2 DEF TruncateLive, Truncate, Live
  <2>3. CASE OpenLog
    BY <2>3 DEF OpenLog, Open, Truncate
  <2>4. CASE WriteLine
    <3>1. /\ DOMAIN files' = DOMAIN files
          /\ \A n \in DOMAIN files : n # opened => files'[n] = files[n]
      BY <2>4 DEF WriteLine
    <3> QED BY <3>1
  <2>5. CASE Delete
    <3> DEFINE f == NextToDelete
    <3>1. /\ left \subseteq Backups(files) /\ IsFiniteSet(Backups(files))
          /\ Cardinality(left) \in Nat /\ Cardinality(Backups(files)) \in Nat
          /\ Cardinality(left) >= entry /\ entry \in Int
      BY <1>1, <2>5, PassFacts, VisitedPass DEF Delete, Visited, Unnecessary
    <3>2. Cardinality(left) <= Cardinality(Backups(files))
      BY <3>1, FS_Subset
    <3>3. Cardinality(Backups(files)) >= entry
      BY <3>1, <3>2
    <3>4. \A n \in DOMAIN files' : files'[n] = files[n]
      BY <2>5 DEF Delete, RemoveFile, Remove
    <3> QED BY <3>3, <3>4
  <2>6. CASE Rotate /\ entry # 0
    <3>1. RenameFile(Live, newName) /\ rotation = "loop"
      BY <2>6 DEF Rotate, EndPass, Ready
    <3>2. newName \notin DOMAIN files /\ newName > 0 /\ newName \in Nat
      <4>1. DOMAIN files \subseteq Nat /\ Now \in Nat
        BY <1>1, NowBounds DEF FilesInv, DiskTypeOK
      <4> QED BY <1>1, <3>1, <4>1 DEF NameInv
    <3>3. /\ DOMAIN files \ {Live} \subseteq DOMAIN files'
          /\ \A n \in DOMAIN files \ {Live} : files'[n] = files[n]
      BY <3>1, <3>2 DEF RenameFile, Rename
    <3> QED BY <3>3 DEF Live
  <2>7. Next => \/ files' = files \/ TruncateLive \/ OpenLog \/ WriteLine \/ Delete
                \/ Rotate /\ entry # 0
    BY DEF Next, Tick, StartClocked, Start, OthersStep, Reload, StartTruncate, Destroy,
           ProcessEnds, RotationStep, Wake, CheckDate, CheckDateNaming, DeleteFails, Rotate,
           RotateFails, CallFails, userVars, diskVars
  <2> QED BY <1>1, <2>1, <2>2, <2>3, <2>4, <2>5, <2>6, <2>7
<1>2. ASSUME IInv
      PROVE  NoneTooMany
  <2> SUFFICES ASSUME Rotate, entry > 0
               PROVE  Cardinality(Backups(files')) <= entry + failures
    OBVIOUS
  <2> USE DEF IInv
  <2>1. /\ rotation = "loop" /\ ~Unnecessary
        /\ RenameFile(Live, newName)
    BY DEF Rotate, EndPass, Ready
  <2>2. /\ IsFiniteSet(Backups(files)) /\ IsFiniteSet(left) /\ left \subseteq Backups(files)
        /\ Cardinality(Backups(files)) \in Nat /\ Cardinality(left) \in Nat
        /\ Cardinality(Backups(files) \ left) \in Nat
        /\ entry \in Int /\ failures \in Nat
    BY <1>2, <2>1, PassFacts
  <2>3. Cardinality(left) < entry
    <3>1. left = {} => Cardinality(left) = 0
      BY FS_EmptySet
    <3> QED BY <2>1, <2>2, <3>1 DEF Unnecessary
  <2>4. Cardinality(Backups(files) \ left) <= failures
    BY <1>2, <2>1 DEF PassInv
  <2>5. Cardinality(Backups(files)) = Cardinality(Backups(files) \ left) + Cardinality(left)
    BY <2>2, CardinalityOfParts
  <2>6. /\ Cardinality(Backups(files')) <= Cardinality(Backups(files)) + 1
        /\ Cardinality(Backups(files')) \in Nat
    <3>1. DOMAIN files' \subseteq DOMAIN files \cup {newName}
      BY <2>1 DEF RenameFile, Rename
    <3>2. Backups(files') \subseteq Backups(files) \cup {newName}
      BY <3>1 DEF Backups
    <3> QED BY <2>2, <3>2, AtMostOneMore
  <2> QED BY <2>2, <2>3, <2>4, <2>5, <2>6
<1>3. IInv /\ [Next]_vars => [Whole /\ NoneTooEarly /\ NoneTooMany]_vars
  BY <1>1, <1>2
<1> QED BY <1>3, DateInvariant, PTL DEF Spec, BackupsKept

=============================================================================
