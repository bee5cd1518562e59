------------------------- MODULE SizeRotationProofs -------------------------
(***************************************************************************)
(* Proofs about SizeRotation, for any number of lines, starts and failed   *)
(* calls and every set of BackupCounts.  IInv is the inductive invariant:  *)
(* the directory is in the order of its names and without gaps (FilesInv   *)
(* of LogRotationProofs), and while a pass is under way the backups it has *)
(* visited lie above those it has not, with one free name between, and are *)
(* no more than it may keep.                                               *)
(***************************************************************************)
EXTENDS SizeRotation, LogRotationProofs

\* A larger number is an older file.
SizeNames == {p \in Nat \X Nat : p[1] > p[2]}

\* The part of TypeOK that speaks of the process and the pass.
PassTypeOK ==
  /\ logger \in {"down", "starting", "up", "dying"}
  /\ append \in BOOLEAN
  /\ entry \in BackupCounts \cup {NoEntry}
  /\ starts \in 0..MaxStarts
  /\ rotation \in {"sleep", "loop", "finish"}
  /\ rotation # "sleep" => entry # NoEntry
  /\ left \subseteq Nat \ {0}
  /\ left \subseteq moved
  /\ moved \subseteq Nat \ {0}

\* There is something left to visit exactly while the pass is in its loop,
\* which it enters for a positive BackupCount only.
LoopInv ==
  /\ rotation = "loop" <=> left # {}
  /\ left # {} => entry > 0
  /\ IsFiniteSet(moved)

InPass == rotation # "sleep" /\ entry > 0

\* What is still to be visited exists.  Without failed calls, the name above
\* each of these files is free or in the same case, backup 1 is moved before
\* the pass ends, and the files to delete are visited before any is moved.
PassInv ==
  InPass =>
    /\ left \subseteq Backups(files)
    /\ failures = 0 =>
         /\ \A m \in Backups(files) \ left, l \in left : m > l + 1
         /\ 1 \in Backups(files) => 1 \in left
         /\ Cardinality(left) >= entry => Backups(files) \subseteq left

\* The backups a pass keeps of those it has visited: none while it deletes.
Kept == Cardinality(Backups(files) \ left)
MayKeep(most) == IF Cardinality(left) >= entry THEN 0 ELSE most - Cardinality(left)
MostMoved == IF Cardinality(moved) < entry THEN Cardinality(moved) ELSE entry - 1

CountInv ==
  InPass => /\ Kept <= failures + MayKeep(entry - 1)
            /\ failures = 0 => Kept = MayKeep(MostMoved)

IInv == FilesInv(SizeNames) /\ PassTypeOK /\ LoopInv /\ PassInv /\ CountInv

passVars == <<entry, rotation, left, moved>>

-----------------------------------------------------------------------------
LEMMA SizeNamesByAge == NamesByAge(SizeNames)
BY DEF NamesByAge, SizeNames, Live

LEMMA InSizeNames ==
  ASSUME NEW m \in Nat, NEW n \in Nat
  PROVE  <<m, n>> \in SizeNames <=> m > n
BY DEF SizeNames

LEMMA SizeTypes ==
  ASSUME IInv
  PROVE  TypeOK
<1> USE DEF IInv, FilesInv
<1>1. UserTypeOK
  BY DEF UserTypeOK, DiskTypeOK, PassTypeOK
<1> QED BY <1>1 DEF TypeOK, PassTypeOK

\* The numbers and counts a pass works with.
LEMMA PassFacts ==
  ASSUME IInv
  PROVE  /\ IsFiniteSet(left) /\ Cardinality(left) \in Nat
         /\ IsFiniteSet(moved) /\ Cardinality(moved) \in Nat
         /\ Cardinality(left) <= Cardinality(moved)
         /\ IsFiniteSet(Backups(files)) /\ Backups(files) \subseteq Nat \ {0}
         /\ IsFiniteSet(Backups(files) \ left) /\ Kept \in Nat
         /\ rotation # "sleep" => entry \in Int
         /\ failures \in Nat
<1> USE DEF IInv, FilesInv
<1>1. /\ IsFiniteSet(moved) /\ left \subseteq moved
      /\ IsFiniteSet(DOMAIN files) /\ DOMAIN files \subseteq Nat
  BY DEF LoopInv, PassTypeOK, DiskInv, DiskTypeOK
<1>2. /\ IsFiniteSet(left)
      /\ Cardinality(left) <= Cardinality(moved)
  BY <1>1, FS_Subset
<1>3. /\ Backups(files) \subseteq DOMAIN files
      /\ Backups(files) \ left \subseteq DOMAIN files
      /\ Backups(files) \subseteq Nat \ {0}
  BY <1>1 DEF Backups
<1>4. IsFiniteSet(Backups(files)) /\ IsFiniteSet(Backups(files) \ left)
  BY <1>1, <1>3, FS_Subset
<1>5. rotation # "sleep" => entry \in Int
  BY RotationAssumption DEF PassTypeOK
<1>6. failures \in Nat
  BY RotationAssumption DEF DiskTypeOK
<1> QED BY <1>1, <1>2, <1>3, <1>4, <1>5, <1>6, FS_CardinalityType DEF Kept

\* The next file to visit is the last one left.
LEMMA NextToShiftIsLast ==
  ASSUME IInv, rotation = "loop"
  PROVE  /\ NextToShift \in left
         /\ \A m \in left : m <= NextToShift
         /\ NextToShift \in Nat \ {0}
<1>1. left # {} /\ left \subseteq Nat /\ left \subseteq Nat \ {0} /\ IsFiniteSet(left)
  BY PassFacts DEF IInv, LoopInv, PassTypeOK
<1>2. \E n \in left : \A m \in left : m <= n
  BY <1>1, MaxExists
<1> QED BY <1>1, <1>2 DEF NextToShift

-----------------------------------------------------------------------------
(* The invariant of a pass is kept by every step.                          *)

\* A step that leaves the pass and the names of the backups alone.
LEMMA PassUndisturbed ==
  ASSUME LoopInv, PassInv, CountInv, UNCHANGED passVars, failures' = failures,
         Backups(files') = Backups(files)
  PROVE  LoopInv' /\ PassInv' /\ CountInv'
<1> USE DEF passVars
<1>1. LoopInv'
  BY DEF LoopInv
<1>2. PassInv'
  BY DEF PassInv, InPass
<1>3. CountInv'
  BY DEF CountInv, InPass, Kept, MayKeep, MostMoved
<1> QED BY <1>1, <1>2, <1>3

\* A step after which no pass is under way.
LEMMA PassOver ==
  ASSUME rotation' = "sleep", left' = {}, IsFiniteSet(moved')
  PROVE  LoopInv' /\ PassInv' /\ CountInv'
BY DEF LoopInv, PassInv, CountInv, InPass

LEMMA IInvOthers ==
  ASSUME IInv,
         \/ \E e \in BackupCounts \cup {NoEntry}, a \in AppendModes : Start(e, a) /\ UNCHANGED moved
         \/ OthersStep /\ UNCHANGED moved
         \/ ProcessEnds /\ moved' = {}
  PROVE  IInv'
<1> USE DEF IInv
<1>0. /\ RotationAssumption
      /\ NamesByAge(SizeNames)
      /\ rotation = "sleep" => left = {}
      /\ IsFiniteSet(moved)
  BY RotationAssumption, SizeNamesByAge DEF LoopInv
<1>1. CASE \E e \in BackupCounts \cup {NoEntry}, a \in AppendModes : Start(e, a) /\ UNCHANGED moved
  <2>1. PICK e \in BackupCounts \cup {NoEntry}, a \in AppendModes : Start(e, a) /\ UNCHANGED moved
    BY <1>1
  <2>2. FilesInv(SizeNames)'
    BY <2>1, FilesInvSame DEF Start, diskVars
  <2>3. PassTypeOK'
    BY <1>0, <2>1 DEF Start, RegisterLogFile, PassTypeOK
  <2> QED BY <1>0, <2>1, <2>2, <2>3, PassOver DEF Start, RegisterLogFile
<1>2. CASE (\E e \in BackupCounts \cup {NoEntry} : Reload(e)) /\ UNCHANGED moved
  <2>1. PICK e \in BackupCounts \cup {NoEntry} : Reload(e)
    BY <1>2
  <2>2. FilesInv(SizeNames)'
    BY <2>1, FilesInvSame DEF Reload, diskVars
  <2>3. PassTypeOK'
    BY <1>2, <2>1 DEF Reload, RegisterLogFile, PassTypeOK, loggerVars
  <2> QED BY <1>0, <1>2, <2>1, <2>2, <2>3, PassOver DEF Reload, RegisterLogFile
<1>3. CASE Destroy /\ UNCHANGED moved
  <2>1. FilesInv(SizeNames)'
    BY <1>3, FilesInvSame DEF Destroy, diskVars
  <2>2. PassTypeOK'
    BY <1>3 DEF Destroy, UnregisterLogFile, PassTypeOK
  <2> QED BY <1>0, <1>3, <2>1, <2>2, PassOver DEF Destroy, UnregisterLogFile
<1>4. CASE StartTruncate /\ UNCHANGED moved
  <2>1. FilesInv(SizeNames)'
    <3>1. CASE append
      BY <1>4, <3>1, FilesInvSame DEF StartTruncate, diskVars
    <3>2. CASE ~append
      BY <1>0, <1>4, <3>2, FilesInvTruncateLive DEF StartTruncate
    <3> QED BY <3>1, <3>2
  <2>2. PassTypeOK'
    BY <1>4 DEF StartTruncate, PassTypeOK
  <2>3. Backups(files') = Backups(files)
    BY <1>4 DEF StartTruncate, TruncateLive, Truncate, Backups, Live, diskVars
  <2> QED BY <1>4, <2>1, <2>2, <2>3, PassUndisturbed DEF StartTruncate, passVars
<1>5. CASE OpenLog /\ UNCHANGED moved
  <2>1. FilesInv(SizeNames)'
    BY <1>0, <1>5, FilesInvOpenLog
  <2>2. PassTypeOK'
    BY <1>5 DEF OpenLog, PassTypeOK, loggerVars
  <2>3. Backups(files') = Backups(files)
    BY <1>5 DEF OpenLog, Open, Truncate, Backups, Live
  <2> QED BY <1>5, <2>1, <2>2, <2>3, PassUndisturbed DEF OpenLog, passVars
<1>6. CASE WriteLine /\ UNCHANGED moved
  <2>1. FilesInv(SizeNames)'
    BY <1>0, <1>6, FilesInvWriteLine
  <2>2. PassTypeOK'
    BY <1>6 DEF WriteLine, PassTypeOK, loggerVars
  <2>3. DOMAIN files' = DOMAIN files
    BY <1>6 DEF WriteLine
  <2>4. Backups(files') = Backups(files)
    BY <2>3 DEF Backups
  <2> QED BY <1>6, <2>1, <2>2, <2>4, PassUndisturbed DEF WriteLine, passVars
<1>7. CASE ProcessEnds /\ moved' = {}
  <2>1. FilesInv(SizeNames)'
    BY <1>7, FilesInvSame DEF ProcessEnds
  <2>2. PassTypeOK'
    BY <1>7 DEF ProcessEnds, PassTypeOK
  <2> QED BY <1>7, <2>1, <2>2, FS_EmptySet, PassOver DEF ProcessEnds
<1> QED BY <1>1, <1>2, <1>3, <1>4, <1>5, <1>6, <1>7 DEF OthersStep

\* The pass collects the backups there are: it has visited none of them.
LEMMA IInvCheckSize ==
  ASSUME IInv, CheckSize
  PROVE  IInv'
<1> USE DEF IInv
<1>1. /\ rotation = "sleep"
      /\ entry # NoEntry
      /\ entry \in Int
      /\ moved' = IF entry > 0 THEN Backups(files) ELSE {}
      /\ left' = moved'
      /\ rotation' = IF moved' = {} THEN "finish" ELSE "loop"
      /\ UNCHANGED userVars
  BY RotationAssumption DEF CheckSize, BeginPass, PassTypeOK
<1>2. /\ UNCHANGED fileVars
      /\ UNCHANGED <<logger, append, starts, entry>>
  BY <1>1 DEF userVars, fileVars, diskVars, loggerVars
<1>3. FilesInv(SizeNames)'
  BY <1>2, FilesInvSame DEF fileVars
<1>4. IsFiniteSet(moved') /\ moved' \subseteq Nat \ {0}
  BY <1>1, PassFacts, FS_EmptySet
<1>5. PassTypeOK'
  BY <1>1, <1>2, <1>4 DEF PassTypeOK
<1>6. LoopInv'
  BY <1>1, <1>2, <1>4 DEF LoopInv
<1>7. entry > 0 => left' = Backups(files') /\ moved' = Backups(files')
  BY <1>1, <1>2 DEF fileVars
<1>8. PassInv'
  BY <1>2, <1>7 DEF PassInv, InPass
<1>9. CountInv'
  <2> SUFFICES ASSUME entry > 0
               PROVE  /\ Kept' <= failures' + MayKeep(entry - 1)'
                      /\ Kept' = MayKeep(MostMoved)'
    BY <1>2 DEF CountInv, InPass
  <2>1. Kept' = 0
    <3>1. Backups(files') \ left' = {}
      BY <1>7
    <3> QED BY <3>1, FS_EmptySet DEF Kept
  <2>2. left' = moved' /\ Cardinality(left') \in Nat /\ entry' = entry /\ failures' \in Nat
    BY <1>1, <1>2, <1>4, FS_CardinalityType, PassFacts DEF fileVars
  <2>3. MayKeep(entry - 1)' \in Nat /\ MayKeep(MostMoved)' = 0
    BY <1>1, <2>2 DEF MayKeep, MostMoved
  <2> QED BY <2>1, <2>2, <2>3
<1> QED BY <1>3, <1>5, <1>6, <1>8, <1>9

\* What a turn of the loop does to the pass, whether its call fails or not.
LEMMA VisitedPass ==
  ASSUME IInv, rotation = "loop", Visited(NextToShift)
  PROVE  /\ PassTypeOK' /\ LoopInv'
         /\ entry \in Int /\ entry > 0 /\ entry' = entry
         /\ lastLine' = lastLine /\ moved' = moved
         /\ left' = left \ {NextToShift}
         /\ Cardinality(left') = Cardinality(left) - 1
         /\ Cardinality(left) \in Nat \ {0}
         /\ left \subseteq Backups(files)
<1> USE DEF IInv, Visited, loggerVars
<1>1. NextToShift \in left
  BY NextToShiftIsLast
<1>2. entry \in Int /\ entry > 0
  BY PassFacts DEF LoopInv
<1>3. PassTypeOK'
  BY DEF PassTypeOK
<1>4. LoopInv'
  BY <1>2 DEF LoopInv
<1>5. Cardinality(left') = Cardinality(left) - 1 /\ Cardinality(left) \in Nat /\ Cardinality(left') \in Nat
  <2>1. IsFiniteSet(left) /\ Cardinality(left) \in Nat
    BY PassFacts
  <2>2. IsFiniteSet(left \ {NextToShift})
        /\ Cardinality(left \ {NextToShift}) = Cardinality(left) - 1
    BY <1>1, <2>1, FS_RemoveElement
  <2> QED BY <2>1, <2>2, FS_CardinalityType
<1>6. left \subseteq Backups(files)
  BY <1>2 DEF PassInv, InPass
<1> QED BY <1>2, <1>3, <1>4, <1>5, <1>6

\* Deleting the last backup, when enough newer ones are left.
LEMMA IInvShiftRemoves ==
  ASSUME IInv, rotation = "loop", Unnecessary, RemoveFile(NextToShift), Visited(NextToShift),
         UNCHANGED <<failures, excused>>
  PROVE  IInv'
<1> DEFINE f == NextToShift
<1> USE DEF IInv
<1>1. /\ f \in left /\ f \in Nat \ {0}
      /\ \A m \in left : m <= f
  BY NextToShiftIsLast
<1>2. /\ PassTypeOK' /\ LoopInv'
      /\ entry \in Int /\ entry > 0 /\ entry' = entry
      /\ lastLine' = lastLine /\ moved' = moved /\ left' = left \ {f}
      /\ Cardinality(left') = Cardinality(left) - 1
      /\ Cardinality(left) \in Nat \ {0}
      /\ left \subseteq Backups(files)
  BY VisitedPass
<1> HIDE DEF f
<1>3. Cardinality(left) >= entry
  BY DEF Unnecessary
<1>4. rotation # "sleep" /\ InPass
  BY <1>2 DEF InPass
<1>5. FilesInv(SizeNames)'
  <2>1. ASSUME ~excused, NEW m \in DOMAIN files, m # f
        PROVE  <<f, m>> \in SizeNames
    <3>1. Backups(files) \subseteq left
      BY <1>3, <1>4, <2>1, PassFacts DEF PassInv, FilesInv, DiskInv
    <3>2. m \in Nat /\ m < f
      <4>1. m \in Nat
        BY DEF FilesInv, DiskTypeOK
      <4>2. CASE m = 0
        BY <4>2, <1>1
      <4>3. CASE m > 0
        BY <4>1, <4>3, <1>1, <2>1, <3>1 DEF Backups
      <4> QED BY <4>1, <4>2, <4>3
    <3> QED BY <1>1, <3>2, InSizeNames
  <2> QED BY <1>1, <1>2, <2>1, FilesInvRemove DEF f
<1>6. /\ Backups(files') = Backups(files) \ {f}
      /\ Backups(files') \ left' = Backups(files) \ left
  <2>1. DOMAIN files' = DOMAIN files \ {f}
    BY DEF RemoveFile, Remove, f
  <2> QED BY <1>1, <1>2, <2>1 DEF Backups
<1>7. PassInv'
  BY <1>2, <1>3, <1>4, <1>6 DEF PassInv, InPass
<1>8. CountInv'
  <2>1. Kept' = Kept
    BY <1>6 DEF Kept
  <2>2. /\ Kept \in Nat /\ failures \in Nat /\ Cardinality(moved) \in Nat
        /\ Cardinality(left) <= Cardinality(moved)
    BY PassFacts
  <2>3. Kept <= failures /\ (failures = 0 => Kept = 0)
    BY <1>3, <1>4, <2>2 DEF CountInv, MayKeep
  <2>4. MayKeep(entry - 1)' = 0 /\ MayKeep(MostMoved)' = 0
    BY <1>2, <1>3, <2>2 DEF MayKeep, MostMoved
  <2> QED BY <2>1, <2>2, <2>3, <2>4 DEF CountInv
<1> QED BY <1>2, <1>5, <1>7, <1>8

\* Moving the last backup left up by one, once fewer than BackupCount are left.
LEMMA IInvShiftMoves ==
  ASSUME IInv, rotation = "loop", ~Unnecessary, RenameFile(NextToShift, NextToShift + 1),
         Visited(NextToShift), UNCHANGED <<failures, excused>>
  PROVE  IInv'
<1> DEFINE f == NextToShift
<1> USE DEF IInv
<1>1. /\ f \in left /\ f \in Nat \ {0} /\ f + 1 \in Nat /\ f # f + 1
      /\ \A m \in left : m <= f
      /\ left \subseteq Nat
  BY NextToShiftIsLast DEF PassTypeOK
<1>2. /\ PassTypeOK' /\ LoopInv'
      /\ entry \in Int /\ entry > 0 /\ entry' = entry
      /\ lastLine' = lastLine /\ moved' = moved /\ left' = left \ {f}
      /\ Cardinality(left') = Cardinality(left) - 1
      /\ Cardinality(left) \in Nat \ {0}
      /\ left \subseteq Backups(files)
  BY VisitedPass
<1> HIDE DEF f
<1>3. Cardinality(left) < entry
  BY <1>2 DEF Unnecessary
<1>4. rotation # "sleep" /\ InPass
  BY <1>2 DEF InPass
<1>5. failures = 0 => f + 1 \notin DOMAIN files
  <2> SUFFICES ASSUME failures = 0, f + 1 \in Backups(files)
               PROVE  FALSE
    BY <1>1 DEF Backups
  <2>1. f + 1 \notin left
    BY <1>1
  <2> QED BY <1>1, <1>4, <2>1 DEF PassInv
<1>6. FilesInv(SizeNames)'
  <2>1. ASSUME NEW n \in DOMAIN files, n # f, n # f + 1
        PROVE  /\ <<n, f + 1>> \in SizeNames => <<n, f>> \in SizeNames
               /\ <<f + 1, n>> \in SizeNames => <<f, n>> \in SizeNames
    <3>1. n \in Nat
      BY DEF FilesInv, DiskTypeOK
    <3> QED BY <1>1, <2>1, <3>1, InSizeNames
  <2>2. ~excused => failures = 0
    BY PassFacts DEF FilesInv, DiskInv
  <2>3. RenameFile(f, f + 1) /\ excused' = excused /\ excused \in BOOLEAN
    BY DEF f, FilesInv, DiskTypeOK
  <2> QED BY <1>1, <1>2, <1>5, <2>1, <2>2, <2>3, SizeNamesByAge, FilesInvRename
<1>7. Backups(files') = (Backups(files) \ {f}) \cup {f + 1}
  <2>1. f \in DOMAIN files
    BY <1>1, <1>2 DEF Backups
  <2>2. DOMAIN files' = (DOMAIN files \ {f}) \cup {f + 1}
    BY <2>1 DEF RenameFile, Rename, Exists, f
  <2> QED BY <1>1, <2>2 DEF Backups
<1>8. Backups(files') \ left' = (Backups(files) \ left) \cup {f + 1}
  BY <1>1, <1>2, <1>7
<1>9. PassInv'
  <2>1. left' \subseteq Backups(files')
    BY <1>2, <1>7
  <2>2. ASSUME failures = 0
        PROVE  /\ \A m \in Backups(files') \ left', l \in left' : m > l + 1
               /\ 1 \in Backups(files') => 1 \in left'
               /\ ~(Cardinality(left') >= entry')
    <3>1. ASSUME NEW m \in Backups(files') \ left', NEW l \in left'
          PROVE  m > l + 1
      <4>1. l \in left /\ l \in Nat /\ l < f
        BY <1>1, <1>2
      <4>2. CASE m = f + 1
        BY <1>1, <4>1, <4>2
      <4>3. CASE m # f + 1
        BY <1>4, <1>8, <2>2, <4>1, <4>3 DEF PassInv
      <4> QED BY <4>2, <4>3
    <3>2. 1 \in Backups(files') => 1 \in left'
      BY <1>1, <1>2, <1>4, <1>7, <2>2 DEF PassInv
    <3> QED BY <1>2, <1>3, <3>1, <3>2
  <2> QED BY <2>1, <2>2 DEF PassInv
<1>10. CountInv'
  <2>1. /\ IsFiniteSet(Backups(files) \ left) /\ Kept \in Nat
        /\ failures \in Nat /\ Cardinality(moved) \in Nat
        /\ Cardinality(left) <= Cardinality(moved)
    BY PassFacts
  <2>2. Kept' = IF f + 1 \in Backups(files) \ left THEN Kept ELSE Kept + 1
    BY <1>8, <2>1, FS_AddElement DEF Kept
  <2>3. failures = 0 => Kept' = Kept + 1
    BY <1>5, <2>2 DEF Backups
  <2>4. Kept' <= Kept + 1
    BY <2>1, <2>2
  <2>5. /\ MayKeep(entry - 1) = entry - 1 - Cardinality(left)
        /\ MayKeep(entry - 1)' = entry - 1 - (Cardinality(left) - 1)
        /\ MayKeep(MostMoved) = MostMoved - Cardinality(left)
        /\ MayKeep(MostMoved)' = MostMoved - (Cardinality(left) - 1)
        /\ MostMoved \in Int
    BY <1>2, <1>3, <2>1 DEF MayKeep, MostMoved
  <2>6. Kept' <= failures + MayKeep(entry - 1)'
    BY <1>2, <1>4, <2>1, <2>2, <2>4, <2>5 DEF CountInv
  <2>7. failures = 0 => Kept' = MayKeep(MostMoved)'
    BY <1>2, <1>4, <2>3, <2>5 DEF CountInv
  <2> QED BY <2>6, <2>7 DEF CountInv
<1> QED BY <1>2, <1>6, <1>9, <1>10

\* A file that could not be deleted or moved is one more that is kept.
LEMMA IInvShiftFails ==
  ASSUME IInv, ShiftFails
  PROVE  IInv'
<1> DEFINE f == NextToShift
<1> USE DEF IInv
<1>1. /\ rotation = "loop"
      /\ f \in left
      /\ files' = files
      /\ failures' = failures + 1
      /\ CallFails
  BY NextToShiftIsLast DEF ShiftFails, CallFails
<1>2. /\ PassTypeOK' /\ LoopInv'
      /\ entry \in Int /\ entry > 0 /\ entry' = entry
      /\ lastLine' = lastLine /\ moved' = moved /\ left' = left \ {f}
      /\ Cardinality(left') = Cardinality(left) - 1
      /\ Cardinality(left) \in Nat \ {0}
      /\ left \subseteq Backups(files)
  BY <1>1, VisitedPass DEF ShiftFails
<1> HIDE DEF f
<1>3. FilesInv(SizeNames)'
  BY <1>1, <1>2, FilesInvCallFails
<1>4. failures \in Nat /\ failures' # 0
  BY <1>1, PassFacts
<1>5. PassInv'
  BY <1>1, <1>2, <1>4 DEF PassInv
<1>6. CountInv'
  <2>1. Backups(files') \ left' = (Backups(files) \ left) \cup {f}
    BY <1>1, <1>2
  <2>2. IsFiniteSet(Backups(files) \ left) /\ Kept \in Nat
    BY PassFacts
  <2>3. Kept' = Kept + 1
    BY <1>1, <2>1, <2>2, FS_AddElement DEF Kept
  <2>4. Kept <= failures + MayKeep(entry - 1)
    BY <1>1, <1>2 DEF CountInv, InPass
  <2>5. MayKeep(entry - 1) <= MayKeep(entry - 1)' /\ MayKeep(entry - 1) \in Int /\ MayKeep(entry - 1)' \in Int
    BY <1>2 DEF MayKeep
  <2> QED BY <1>1, <1>4, <2>2, <2>3, <2>4, <2>5 DEF CountInv
<1> QED BY <1>2, <1>3, <1>5, <1>6

\* The end of the pass: nothing is in the way of the live file.
LEMMA IInvEnds ==
  ASSUME IInv, Finish \/ FinishFails
  PROVE  IInv'
<1> USE DEF IInv
<1>1. /\ rotation = "finish" /\ rotation' = "sleep"
      /\ left = {} /\ left' = {}
      /\ moved' = {}
      /\ entry \in Int
      /\ UNCHANGED <<logger, append, starts, entry, lastLine>>
  BY PassFacts DEF Finish, FinishFails, EndPass, loggerVars, LoopInv
<1>2. PassTypeOK'
  BY <1>1 DEF PassTypeOK
<1>3. LoopInv' /\ PassInv' /\ CountInv'
  BY <1>1, FS_EmptySet, PassOver
<1>4. CASE FinishFails
  <2>1. FilesInv(SizeNames)'
    BY <1>1, <1>4, FilesInvCallFails DEF FinishFails
  <2> QED BY <1>2, <1>3, <2>1
<1>5. CASE Finish /\ entry = 0
  <2>1. FilesInv(SizeNames)'
    BY <1>1, <1>5, SizeNamesByAge, FilesInvTruncateLive DEF Finish
  <2> QED BY <1>2, <1>3, <2>1
<1>6. CASE Finish /\ entry # 0
  <2>1. /\ RenameFile(Live, 1)
        /\ excused' = (excused \/ entry < 0)
        /\ failures' = failures
    BY <1>6 DEF Finish
  <2>2. excused \in BOOLEAN /\ excused' \in BOOLEAN /\ (excused => excused')
    BY <2>1 DEF FilesInv, DiskTypeOK
  <2>3. ASSUME ~excused'
        PROVE  1 \notin DOMAIN files
    <3>1. ~excused /\ ~(entry < 0)
      BY <2>1, <2>3
    <3>2. failures = 0 /\ entry > 0
      BY <1>1, <1>6, <3>1, PassFacts DEF FilesInv, DiskInv
    <3> QED BY <1>1, <3>2 DEF PassInv, InPass, Backups
  <2>4. ASSUME NEW n \in DOMAIN files, n # Live, n # 1
        PROVE  /\ <<n, 1>> \in SizeNames => <<n, Live>> \in SizeNames
               /\ <<1, n>> \in SizeNames => <<Live, n>> \in SizeNames
    <3>1. n \in Nat /\ n > 1
      BY <2>4 DEF FilesInv, DiskTypeOK, Live
    <3> QED BY <3>1, InSizeNames DEF Live
  <2>5. Live \in Nat /\ 1 \in Nat /\ Live # 1
    BY DEF Live
  <2>6. FilesInv(SizeNames)'
    BY <1>1, <2>1, <2>2, <2>3, <2>4, <2>5, SizeNamesByAge, FilesInvRename
  <2> QED BY <1>2, <1>3, <2>6
<1> QED BY <1>4, <1>5, <1>6

-----------------------------------------------------------------------------
(* The invariant and what follows from it.                                 *)

LEMMA IInvInit ==
  ASSUME Init
  PROVE  IInv
<1>1. FilesInv(SizeNames)
  BY FilesInvInit DEF Init
<1>2. PassTypeOK
  BY RotationAssumption DEF Init, UserInit, PassTypeOK
<1>3. LoopInv
  BY FS_EmptySet DEF Init, UserInit, LoopInv
<1>4. PassInv /\ CountInv
  BY DEF Init, UserInit, PassInv, CountInv, InPass
<1> QED BY <1>1, <1>2, <1>3, <1>4 DEF IInv

LEMMA IInvNext ==
  ASSUME IInv, [Next]_vars
  PROVE  IInv'
<1>1. CASE UNCHANGED vars
  <2>1. UNCHANGED <<fileVars, passVars, logger, append, starts>>
    BY <1>1 DEF vars, userVars, diskVars, loggerVars, fileVars, passVars
  <2>2. FilesInv(SizeNames)'
    BY <2>1, FilesInvSame DEF fileVars, IInv
  <2>3. PassTypeOK'
    BY <2>1 DEF PassTypeOK, passVars, IInv
  <2>4. Backups(files') = Backups(files) /\ failures' = failures
    BY <2>1 DEF fileVars
  <2> QED BY <2>1, <2>2, <2>3, <2>4, PassUndisturbed DEF IInv
<1>2. CASE CheckSize
  BY <1>2, IInvCheckSize
<1>3. CASE Shift
  <2>1. CASE Unnecessary
    BY <1>3, <2>1, IInvShiftRemoves DEF Shift
  <2>2. CASE ~Unnecessary
    BY <1>3, <2>2, IInvShiftMoves DEF Shift
  <2> QED BY <2>1, <2>2
<1>4. CASE ShiftFails
  BY <1>4, IInvShiftFails
<1>5. CASE Finish \/ FinishFails
  BY <1>5, IInvEnds
<1>6. CASE ~RotationStep /\ Next
  BY <1>6, IInvOthers DEF Next
<1> QED BY <1>1, <1>2, <1>3, <1>4, <1>5, <1>6 DEF RotationStep

\* The inductive invariant holds in every reachable state.
THEOREM SizeInvariant == Spec => []IInv
<1>1. Init => IInv
  BY IInvInit
<1>2. IInv /\ [Next]_vars => IInv'
  BY IInvNext
<1> QED BY <1>1, <1>2, PTL DEF Spec

\* Every variable of a rotation by size keeps its type: the pass has an entry,
\* and visits backups that the directory held when it began.
THEOREM SizeTypeCorrect == Spec => []TypeOK
<1>1. IInv => TypeOK
  BY SizeTypes
<1> QED BY <1>1, SizeInvariant, PTL

\* A file with a smaller number holds only newer lines than one with a larger
\* number, between any two steps, after crashes and failed calls.
THEOREM SizeBackupsOrdered == Spec => []BackupsOrdered
<1>1. IInv => BackupsOrdered
  <2> SUFFICES ASSUME IInv
               PROVE  BackupsOrdered
    OBVIOUS
  <2> USE DEF IInv, FilesInv
  <2>1. DOMAIN files \subseteq Nat
    BY DEF DiskTypeOK
  <2>2. \A m, n \in DOMAIN files : m < n => Older(n, m)
    BY <2>1, InSizeNames DEF OrderedBy
  <2>3. FilesOrdered
    BY <2>1, <2>2 DEF FilesOrdered, OrderedBy, Ascending, Exists, Backups, Live
  <2> QED BY <2>2, <2>3 DEF BackupsOrdered, Backups
<1> QED BY <1>1, SizeInvariant, PTL

\* Rotation by size loses the oldest lines only, unless it is excused.
THEOREM SizeOnlyOldestLost == Spec => []OnlyOldestLost
<1>1. IInv => OnlyOldestLost
  BY GaplessLines DEF IInv
<1> QED BY <1>1, SizeInvariant, PTL

\* A pass leaves BackupCount backups, or one more than there were, and at most
\* one too many for each failed call.
THEOREM SizeBackupsKept == Spec => BackupsKept
<1> DEFINE due == IF Cardinality(moved) < entry THEN Cardinality(moved) + 1 ELSE entry
           kept == Cardinality(Backups(files'))
<1>1. ASSUME IInv, Finish, entry > 0, Exists(files, Live)
      PROVE  kept <= entry + failures /\ (failures = 0 => kept = due)
  <2> USE DEF IInv
  <2>1. /\ rotation = "finish" /\ left = {} /\ InPass
        /\ RenameFile(Live, 1)
    BY <1>1 DEF Finish, EndPass, LoopInv, InPass
  <2>2. /\ IsFiniteSet(Backups(files)) /\ Kept \in Nat /\ failures \in Nat
        /\ Cardinality(moved) \in Nat /\ entry \in Int
        /\ Kept = Cardinality(Backups(files))
    <3>1. Backups(files) \ left = Backups(files)
      BY <2>1
    <3> QED BY <1>1, <2>1, <3>1, PassFacts DEF Kept
  <2>3. Backups(files') = Backups(files) \cup {1}
    <3>1. DOMAIN files' = (DOMAIN files \ {Live}) \cup {1}
      BY <1>1, <2>1 DEF RenameFile, Rename, Exists
    <3> QED BY <3>1 DEF Backups, Live
  <2>4. kept = IF 1 \in Backups(files) THEN Kept ELSE Kept + 1
    BY <2>2, <2>3, FS_AddElement
  <2>5. Cardinality(left) = 0
    BY <2>1, FS_EmptySet
  <2>6. Kept <= failures + (entry - 1) /\ (failures = 0 => Kept = MostMoved)
    BY <1>1, <2>1, <2>2, <2>5 DEF CountInv, MayKeep, MostMoved
  <2>7. failures = 0 => 1 \notin Backups(files)
    BY <1>1, <2>1 DEF PassInv
  <2>8. kept <= entry + failures
    BY <2>2, <2>4, <2>6
  <2>9. failures = 0 => kept = due
    BY <2>2, <2>4, <2>6, <2>7 DEF MostMoved
  <2> QED BY <2>8, <2>9
<1>2. IInv => [(Finish /\ entry > 0 /\ Exists(files, Live)) =>
                 kept <= entry + failures /\ (failures = 0 => kept = due)]_vars
  BY <1>1
<1> QED BY <1>2, SizeInvariant, PTL DEF BackupsKept

\* "FileSize; // in kilobytes" holds of every file size whose number of bytes
\* an unsigned int can hold: no pass begins before the live file has reached it.
THEOREM SizeRotatesAtSize ==
  ASSUME MaxSize * Kilo < UIntMod
  PROVE  Spec => RotatesAtSize
<1>1. SizeLimit = MaxSize * Kilo
  <2>1. MaxSize * Kilo \in Nat
    BY SizeAssumption
  <2> DEFINE size == MaxSize * Kilo
  <2> HIDE DEF size
  <2>2. size % UIntMod = size
    BY <2>1, SizeAssumption DEF size
  <2> QED BY <2>2 DEF SizeLimit, size
<1>2. ASSUME [Next]_vars, rotation = "sleep", rotation' # "sleep"
      PROVE  Len(files[Live]) >= MaxSize * Kilo
  <2>1. CheckSize
    BY <1>2 DEF Next, vars, Start, OthersStep, Reload, RegisterLogFile, StartTruncate, Destroy,
                UnregisterLogFile, OpenLog, WriteLine, ProcessEnds, RotationStep, Shift,
                ShiftFails, Finish, FinishFails, EndPass
  <2> QED BY <1>1, <2>1 DEF CheckSize, TooLarge
<1>3. [Next]_vars => [(rotation = "sleep" /\ rotation' # "sleep")
                        => Len(files[Live]) >= MaxSize * Kilo]_vars
  BY <1>2
<1> QED BY <1>3, PTL DEF Spec, RotatesAtSize

=============================================================================
