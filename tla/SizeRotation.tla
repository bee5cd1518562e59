---------------------------- MODULE SizeRotation ----------------------------
(***************************************************************************)
(* Rotation by size: LogRotationManager::Process and CheckSizeRotation.    *)
(* When the live file has reached its size, the numbered backups move up   *)
(* by one, from the highest number down, those beyond BackupCount are      *)
(* deleted, and the live file becomes backup 1.                            *)
(***************************************************************************)
EXTENDS LogRotation

CONSTANTS
  MaxSize,       \* LogRotationConfig::Value.FileSize, in kilobytes
  Kilo,          \* bytes (here: lines) in a kilobyte: 1000
  UIntMod        \* max_size is an unsigned int: 2^32 in the build

ASSUME SizeAssumption ==
  /\ MaxSize \in Nat
  /\ Kilo \in Nat
  /\ UIntMod \in Nat \ {0}

VARIABLE
  moved          \* moved_nums, as the pass has read it from the directory

vars == <<userVars, rotation, left, moved>>

TypeOK ==
  /\ UserTypeOK
  /\ moved \subseteq Nat \ {0}
  /\ left \subseteq moved

Init == UserInit /\ moved = {}

-----------------------------------------------------------------------------
\* static_cast<std::streamoff>(max_size * 1000): the product is unsigned int.
SizeLimit == (MaxSize * Kilo) % UIntMod

TooLarge == Exists(files, Live) /\ Len(files[Live]) >= SizeLimit

BeginPass(found) ==
  /\ rotation = "sleep"
  /\ entry # NoEntry
  /\ moved' = IF entry > 0 THEN found ELSE {}
  /\ left' = moved'
  /\ rotation' = IF moved' = {} THEN "finish" ELSE "loop"
  /\ UNCHANGED userVars

\* Mutant: a file that has outgrown its size is overlooked.
CheckSizeExact == TooLarge /\ Len(files[Live]) = SizeLimit /\ BeginPass(Backups(files))

\* CheckSizeRotation up to the loop: the size is checked and the numbers of the
\* backups are collected.  A pass that finds nothing to do changes nothing.
CheckSize == TooLarge /\ BeginPass(Backups(files))

\* Mutant: ascending order.
SmallestLeft == CHOOSE n \in left : \A m \in left : n <= m

\* The files are visited in descending order of their numbers.
NextToShift == CHOOSE n \in left : \A m \in left : m <= n

\* Mutant: an off-by-one in the count.
UnnecessaryLate == Cardinality(left) > entry

\* count-- >= backup_count, where count is what is left of moved_nums.
Unnecessary == Cardinality(left) >= entry

Visited(n) ==
  /\ left' = left \ {n}
  /\ rotation' = IF left' = {} THEN "finish" ELSE "loop"
  /\ UNCHANGED <<loggerVars, entry, lastLine, moved>>

\* One turn of the loop: delete the file if there are enough newer ones, else
\* move it up by one.
Shift ==
  /\ rotation = "loop"
  /\ LET n == NextToShift IN
       /\ IF Unnecessary THEN RemoveFile(n) ELSE RenameFile(n, n + 1)
       /\ Visited(n)
  /\ UNCHANGED <<failures, excused>>

\* The call fails, and the loop goes on.
ShiftFails ==
  /\ rotation = "loop"
  /\ Visited(NextToShift)
  /\ CallFails

EndPass ==
  /\ rotation = "finish"
  /\ rotation' = "sleep"
  /\ moved' = {}
  /\ UNCHANGED <<loggerVars, entry, lastLine, left>>

\* Mutant: the live file becomes the last backup instead of the first.
FinishAtEnd ==
  /\ EndPass
  /\ IF entry # 0
     THEN RenameFile(Live, Cardinality(moved) + 1) /\ excused' = (excused \/ entry < 0)
     ELSE TruncateLive
  /\ UNCHANGED failures

\* The end of CheckSizeRotation: the live file becomes backup 1, or is emptied
\* if no backups are to be kept.  A negative BackupCount moves no backup out of
\* the way first.
Finish ==
  /\ EndPass
  /\ IF entry # 0
     THEN RenameFile(Live, 1) /\ excused' = (excused \/ entry < 0)
     ELSE TruncateLive
  /\ UNCHANGED failures

FinishFails ==
  /\ EndPass
  /\ entry # 0
  /\ CallFails

RotationStep == CheckSize \/ Shift \/ ShiftFails \/ Finish \/ FinishFails

Next ==
  \/ \E e \in BackupCounts \cup {NoEntry}, a \in AppendModes : Start(e, a) /\ UNCHANGED moved
  \/ OthersStep /\ UNCHANGED moved
  \/ ProcessEnds /\ moved' = {}
  \/ RotationStep

Spec == Init /\ [][Next]_vars

\* The rotation thread wakes every five seconds for as long as the process lives.
FairSpec == Spec /\ WF_vars(RotationStep)

-----------------------------------------------------------------------------
(* What rotation by size promises.                                         *)

\* At every instant, also between two renames, after a crash or a failed call,
\* a file with a smaller number holds only newer lines than one with a larger
\* number, and each file its lines in the order they were written.
BackupsOrdered ==
  /\ FilesOrdered
  /\ \A m, n \in Backups(files) : m < n => Older(n, m)

\* A pass with a positive BackupCount leaves that many backups, or all there
\* were and the new one if those are fewer: none is deleted too early and
\* none is kept too long, also when the count has been lowered since or an
\* earlier pass was cut short.  Each failed call may keep one file too many.
BackupsKept ==
  [][(Finish /\ entry > 0 /\ Exists(files, Live)) =>
       LET kept == Cardinality(Backups(files'))
           due  == IF Cardinality(moved) < entry THEN Cardinality(moved) + 1 ELSE entry IN
         /\ kept <= entry + failures
         /\ failures = 0 => kept = due]_vars

\* A live file that has reached its size is rotated away (or the process or
\* the rotation of this file ends), and a pass that has begun comes to its end.
LargeFileRotated == (TooLarge /\ entry # NoEntry) ~> (~TooLarge \/ entry = NoEntry)

\* LogRotationConfig: "FileSize; // in kilobytes".  A pass does not begin
\* before the live file has that many.
RotatesAtSize ==
  [][(rotation = "sleep" /\ rotation' # "sleep") => Len(files[Live]) >= MaxSize * Kilo]_vars

=============================================================================
