-------------------------- MODULE LogRotationProofs --------------------------
(***************************************************************************)
(* What the proofs about both kinds of rotation need: least and greatest   *)
(* elements of sets of names, what the operations of LogFiles do to the    *)
(* lines of a directory, and the part of the inductive invariants that     *)
(* speaks only of the directory, the worker's open file and the failed     *)
(* calls.  The two kinds number their backups in opposite directions; here *)
(* R is the relation of the names: <<m, n>> \in R says that file m is to   *)
(* hold older lines than file n.                                           *)
(***************************************************************************)
EXTENDS LogRotation, FiniteSetTheorems, SequenceTheorems,
        WellFoundedInduction, TLAPS

\* The live file is the newest, and no file is older than itself.
NamesByAge(R) ==
  /\ R \subseteq Nat \X Nat
  /\ \A m, n \in Nat : <<m, n>> \in R => m # n /\ m # Live /\ <<n, m>> \notin R

\* Every file holds its lines in the order they were written.
Ascending(s) == \A i, j \in DOMAIN s : i < j => s[i] < s[j]

\* The part of UserTypeOK that speaks of the disk and the worker.
DiskTypeOK ==
  /\ DOMAIN files \subseteq Nat
  /\ \A n \in DOMAIN files : files[n] \in Seq(1..MaxLines)
  /\ opened \in DOMAIN files \cup {Closed, Unlinked}
  /\ lastLine \in 0..MaxLines
  /\ failures \in 0..MaxFailures
  /\ excused \in BOOLEAN

\* No line on the disk is newer than the last one written, the line of an open
\* file still fits the bound, and a failed call excuses a lost line.
DiskInv ==
  /\ IsFiniteSet(DOMAIN files)
  /\ \A n \in DOMAIN files : \A i \in DOMAIN files[n] : files[n][i] <= lastLine
  /\ opened # Closed => lastLine < MaxLines
  /\ failures > 0 => excused

\* The files are in the order of their names, and those newer than the file
\* the worker has open are empty: it is about to write the newest line.
OrderedBy(R) ==
  /\ \A n \in DOMAIN files : Ascending(files[n])
  /\ \A m, n \in DOMAIN files : <<m, n>> \in R => Older(m, n)
  /\ opened \in DOMAIN files =>
       \A n \in DOMAIN files : <<opened, n>> \in R => files[n] = <<>>

\* The lines that survive are all those after some line.  A line that is about
\* to be lost, since its file has no name any more, leaves no gap: no older
\* line survives.
Gapless ==
  ~excused => /\ \A i \in Lines(files) : i..lastLine \subseteq Lines(files)
              /\ opened = Unlinked => Lines(files) = {}

FilesInv(R) == DiskTypeOK /\ DiskInv /\ OrderedBy(R) /\ Gapless

fileVars == <<files, opened, lastLine, failures, excused>>

-----------------------------------------------------------------------------
(* Least and greatest elements.                                            *)

LEMMA MinExists ==
  ASSUME NEW S \in SUBSET Nat, S # {}
  PROVE  \E n \in S : \A m \in S : n <= m
<1> DEFINE R == OpToRel(<, Nat)
<1>1. IsWellFoundedOn(R, Nat)
  BY NatLessThanWellFounded, Zenon
<1>2. \A m, n \in S : m < n => <<m, n>> \in R
  BY Zenon DEF OpToRel
<1> HIDE DEF R
<1>3. PICK n \in S : \A m \in S : ~ (<<m, n>> \in R)
  BY <1>1, WFMin
<1>4. \A m \in S : ~(m < n)
  BY ONLY <1>2, <1>3
<1>5. n \in Nat /\ \A m \in S : m \in Nat
  BY ONLY n \in S, S \in SUBSET Nat
<1> QED BY <1>4, <1>5

\* A finite set of names that had no greatest element could lose one and still
\* have none: take the one with the fewest elements.
LEMMA MaxExists ==
  ASSUME NEW S \in SUBSET Nat, S # {}, IsFiniteSet(S)
  PROVE  \E n \in S : \A m \in S : m <= n
<1> DEFINE NoMax(T) == T # {} /\ IsFiniteSet(T) /\ ~ \E n \in T : \A m \in T : m <= n
           Sizes == {k \in Nat : \E T \in SUBSET Nat : NoMax(T) /\ Cardinality(T) = k}
<1> SUFFICES ASSUME NoMax(S) PROVE FALSE
  OBVIOUS
<1>1. Sizes \in SUBSET Nat
  OBVIOUS
<1>2. Cardinality(S) \in Sizes
  BY FS_CardinalityType
<1>3. PICK k \in Sizes : \A j \in Sizes : k <= j
  <2> HIDE DEF Sizes
  <2> QED BY <1>1, <1>2, MinExists
<1>4. PICK T \in SUBSET Nat : NoMax(T) /\ Cardinality(T) = k
  BY <1>3
<1>5. PICK x \in T : TRUE
  BY <1>4
<1> DEFINE U == T \ {x}
<1>6. IsFiniteSet(U) /\ Cardinality(U) = k - 1 /\ k - 1 \in Nat
  <2>1. IsFiniteSet(T) /\ Cardinality(T) = k
    BY <1>4
  <2>2. IsFiniteSet(U) /\ Cardinality(U) = Cardinality(T) - 1
    BY <1>5, <2>1, FS_RemoveElement
  <2>3. Cardinality(U) \in Nat
    BY <2>2, FS_CardinalityType
  <2> HIDE DEF U
  <2> QED BY <2>1, <2>2, <2>3
<1>7. U # {}
  <2>1. PICK m \in T : ~(m <= x)
    BY <1>4, <1>5
  <2>2. m # x
    BY <2>1, <1>5, <1>4
  <2> QED BY <2>1, <2>2
<1>8. k - 1 \notin Sizes
  <2> HIDE DEF Sizes
  <2> QED BY <1>1, <1>3, <1>6
<1>9. PICK y \in U : \A m \in U : m <= y
  <2> HIDE DEF U
  <2>1. U \in SUBSET Nat
    BY <1>4 DEF U
  <2>2. ~NoMax(U)
    BY <1>6, <1>8, <2>1
  <2> QED BY <2>2, <1>6, <1>7
<1>10. CASE x <= y
  BY <1>10, <1>9, <1>4
<1>11. CASE ~(x <= y)
  <2>1. \A m \in T : m <= x
    <3> TAKE m \in T
    <3>1. x \in Nat /\ y \in Nat /\ m \in Nat
      BY <1>5, <1>9, <1>4
    <3> QED BY <3>1, <1>9, <1>11
  <2> QED BY <2>1, <1>4, <1>5
<1> QED BY <1>10, <1>11

\* At most one new name is at most one more.
LEMMA AtMostOneMore ==
  ASSUME NEW S, IsFiniteSet(S), NEW x, NEW T, T \subseteq S \cup {x}
  PROVE  /\ IsFiniteSet(T)
         /\ Cardinality(T) \in Nat
         /\ Cardinality(T) <= Cardinality(S) + 1
<1>1. /\ IsFiniteSet(S \cup {x})
      /\ Cardinality(S \cup {x}) = IF x \in S THEN Cardinality(S) ELSE Cardinality(S) + 1
  BY FS_AddElement
<1>2. IsFiniteSet(T) /\ Cardinality(T) <= Cardinality(S \cup {x})
  BY <1>1, FS_Subset
<1>3. Cardinality(T) \in Nat /\ Cardinality(S) \in Nat
  BY <1>2, FS_CardinalityType
<1> QED BY <1>1, <1>2, <1>3

LEMMA CardinalityOfParts ==
  ASSUME NEW S, IsFiniteSet(S), NEW T, T \subseteq S
  PROVE  Cardinality(S) = Cardinality(S \ T) + Cardinality(T)
<1>1. /\ IsFiniteSet(S \ T)
      /\ Cardinality(S \ T) = Cardinality(S) - Cardinality(S \cap T)
  BY FS_Difference
<1>2. S \cap T = T
  OBVIOUS
<1>3. IsFiniteSet(T)
  BY FS_Subset
<1>4. Cardinality(S) \in Nat /\ Cardinality(T) \in Nat /\ Cardinality(S \ T) \in Nat
  BY <1>1, <1>3, FS_CardinalityType
<1>5. Cardinality(S \ T) = Cardinality(S) - Cardinality(T)
  BY <1>1, <1>2, Zenon
<1> QED BY <1>4, <1>5

-----------------------------------------------------------------------------
(* The lines of a directory.                                               *)

LEMMA InLines ==
  ASSUME NEW dir, NEW x
  PROVE  x \in Lines(dir) <=> \E n \in DOMAIN dir : \E i \in DOMAIN dir[n] : x = dir[n][i]
BY DEF Lines

LEMMA LineType ==
  ASSUME DiskTypeOK, NEW n \in DOMAIN files, NEW i \in DOMAIN files[n]
  PROVE  files[n][i] \in 1..MaxLines /\ files[n][i] \in Nat
<1> DEFINE s == files[n]
<1>1. s \in Seq(1..MaxLines) /\ i \in DOMAIN s
  BY DEF DiskTypeOK
<1> HIDE DEF s
<1>2. s[i] \in 1..MaxLines
  <2>1. DOMAIN s = 1..Len(s) /\ Len(s) \in Nat
    BY <1>1
  <2> QED BY <1>1, <2>1, ElementOfSeq
<1> QED BY <1>2, RotationAssumption DEF s

-----------------------------------------------------------------------------
(* What the steps do to the files.                                         *)

\* Initially there are no files.
LEMMA FilesInvInit ==
  ASSUME NEW R, UserInit
  PROVE  FilesInv(R)
<1>1. DOMAIN files = {} /\ opened = Closed /\ lastLine = 0 /\ failures = 0 /\ excused = FALSE
  BY DEF UserInit, EmptyDir
<1>2. DiskTypeOK
  <2>1. excused \in BOOLEAN
    BY <1>1, Zenon
  <2>2. lastLine \in 0..MaxLines /\ failures \in 0..MaxFailures
    BY <1>1, RotationAssumption
  <2> QED BY <1>1, <2>1, <2>2, Zenon DEF DiskTypeOK
<1>3. DiskInv
  BY <1>1, FS_EmptySet DEF DiskInv
<1>4. OrderedBy(R)
  BY <1>1 DEF OrderedBy
<1>5. Gapless
  BY <1>1, RotationAssumption, InLines DEF Gapless
<1> QED BY <1>2, <1>3, <1>4, <1>5 DEF FilesInv

\* A step that leaves the files alone, or only closes the worker's.
LEMMA FilesInvSame ==
  ASSUME NEW R, FilesInv(R), UNCHANGED <<files, lastLine, failures, excused>>,
         opened' \in {opened, Closed}
  PROVE  FilesInv(R)'
<1> USE DEF FilesInv
<1>1. DiskTypeOK'
  BY DEF DiskTypeOK
<1>2. DiskInv'
  BY DEF DiskInv
<1>3. OrderedBy(R)'
  <2>1. Closed \notin DOMAIN files
    BY RotationAssumption DEF DiskTypeOK
  <2> QED BY <2>1 DEF OrderedBy, Older
<1>4. Gapless'
  BY RotationAssumption DEF Gapless
<1> QED BY <1>1, <1>2, <1>3, <1>4

\* A call that fails.
LEMMA FilesInvCallFails ==
  ASSUME NEW R, FilesInv(R), CallFails, UNCHANGED lastLine
  PROVE  FilesInv(R)'
<1> USE DEF FilesInv, CallFails
<1>1. DiskTypeOK'
  BY RotationAssumption DEF DiskTypeOK
<1>2. DiskInv'
  BY DEF DiskInv
<1>3. OrderedBy(R)'
  BY DEF OrderedBy, Older
<1>4. Gapless'
  BY DEF Gapless
<1> QED BY <1>1, <1>2, <1>3, <1>4

\* Opening the live file in append mode loses nothing.
LEMMA FilesInvOpenLog ==
  ASSUME NEW R, NamesByAge(R), FilesInv(R), OpenLog
  PROVE  FilesInv(R)'
<1> USE DEF FilesInv
<1>1. /\ lastLine < MaxLines
      /\ opened' = Live
      /\ UNCHANGED <<lastLine, failures, excused>>
  BY DEF OpenLog
<1>2. /\ DOMAIN files' = DOMAIN files \cup {Live}
      /\ \A n \in DOMAIN files : files'[n] = files[n]
      /\ Live \notin DOMAIN files => files'[Live] = <<>>
  BY DEF OpenLog, Open, Exists, Truncate
<1>3. DiskTypeOK'
  <2>1. <<>> \in Seq(1..MaxLines)
    OBVIOUS
  <2>2. \A n \in DOMAIN files' : files'[n] \in Seq(1..MaxLines)
    BY <1>2, <2>1, Zenon DEF DiskTypeOK
  <2>3. DOMAIN files' \subseteq Nat
    BY <1>2 DEF DiskTypeOK, Live
  <2> QED BY <1>1, <1>2, <2>2, <2>3, Zenon DEF DiskTypeOK
<1>4. DiskInv'
  <2>1. IsFiniteSet(DOMAIN files')
    BY <1>2, FS_AddElement DEF DiskInv
  <2>2. \A n \in DOMAIN files' : \A i \in DOMAIN files'[n] : files'[n][i] <= lastLine'
    BY <1>1, <1>2 DEF DiskInv
  <2> QED BY <1>1, <2>1, <2>2 DEF DiskInv
<1>5. OrderedBy(R)'
  <2>1. \A n \in DOMAIN files' : Ascending(files'[n])
    BY <1>2 DEF OrderedBy, Ascending
  <2>2. ASSUME NEW m \in DOMAIN files', NEW n \in DOMAIN files', <<m, n>> \in R
        PROVE  Older(m, n)'
    BY <1>2, <2>2 DEF OrderedBy, Older
  <2>3. \A n : <<opened', n>> \notin R
    BY <1>1 DEF NamesByAge
  <2> QED BY <2>1, <2>2, <2>3 DEF OrderedBy
<1>6. Lines(files') = Lines(files)
  <2>1. \A x : x \in Lines(files') <=> x \in Lines(files)
    BY <1>2, InLines
  <2> QED BY <2>1, Zenon DEF Lines
<1>7. Gapless'
  <2>1. Live # Unlinked
    BY RotationAssumption DEF Live
  <2> QED BY <1>1, <1>6, <2>1 DEF Gapless
<1> QED BY <1>3, <1>4, <1>5, <1>7

\* The worker writes the newest line, to whatever its file is called by now.
LEMMA FilesInvWriteLine ==
  ASSUME NEW R, NamesByAge(R), FilesInv(R), WriteLine
  PROVE  FilesInv(R)'
<1> USE DEF FilesInv
<1>1. /\ opened # Closed
      /\ lastLine \in 0..MaxLines
      /\ lastLine < MaxLines
      /\ lastLine' = lastLine + 1
      /\ opened' = Closed
      /\ UNCHANGED <<failures, excused>>
  BY DEF WriteLine, DiskInv, DiskTypeOK
<1>2. Closed # Unlinked /\ Closed \notin DOMAIN files /\ Unlinked \notin DOMAIN files
  BY RotationAssumption DEF DiskTypeOK
<1>3. CASE opened = Unlinked
  <2>1. files' = files
    BY <1>3 DEF WriteLine
  <2>2. DiskTypeOK'
    <3>1. lastLine' \in 0..MaxLines
      BY <1>1, RotationAssumption
    <3> QED BY <1>1, <2>1, <3>1, Zenon DEF DiskTypeOK
  <2>3. DiskInv'
    <3>1. \A n \in DOMAIN files : \A i \in DOMAIN files[n] : files[n][i] \in Nat
      BY LineType
    <3>2. \A n \in DOMAIN files : \A i \in DOMAIN files[n] : files[n][i] <= lastLine'
      BY <1>1, <3>1 DEF DiskInv
    <3> QED BY <1>1, <2>1, <3>2 DEF DiskInv
  <2>4. OrderedBy(R)'
    BY <1>1, <1>2, <2>1 DEF OrderedBy, Older
  <2>5. Gapless'
    BY <1>1, <1>2, <1>3, <2>1 DEF Gapless
  <2> QED BY <2>2, <2>3, <2>4, <2>5
<1>4. CASE opened \in DOMAIN files
  <2> DEFINE old == files[opened]
             new == Append(old, lastLine + 1)
  <2>1. /\ DOMAIN files' = DOMAIN files
        /\ \A n \in DOMAIN files : n # opened => files'[n] = files[n]
        /\ files'[opened] = new
    BY <1>4, <1>2 DEF WriteLine
  <2>2. /\ old \in Seq(1..MaxLines)
        /\ new \in Seq(1..MaxLines)
        /\ DOMAIN new = 1..(Len(old) + 1)
        /\ DOMAIN old = 1..Len(old)
        /\ Len(old) \in Nat
        /\ \A i \in DOMAIN old : new[i] = old[i]
        /\ new[Len(old) + 1] = lastLine + 1
    BY <1>1, <1>4, RotationAssumption DEF DiskTypeOK
  <2> HIDE DEF new, old
  <2>3. DiskTypeOK'
    <3>1. \A n \in DOMAIN files' : files'[n] \in Seq(1..MaxLines)
      BY <2>1, <2>2, Zenon DEF DiskTypeOK
    <3>2. lastLine' \in 0..MaxLines
      BY <1>1, RotationAssumption
    <3> QED BY <1>1, <2>1, <3>1, <3>2, Zenon DEF DiskTypeOK
  <2>4. \A n \in DOMAIN files : \A i \in DOMAIN files[n] :
           files[n][i] \in Nat /\ files[n][i] <= lastLine
    BY LineType DEF DiskInv
  <2>5. \A i \in DOMAIN old : old[i] \in Nat /\ old[i] <= lastLine
    BY <2>4, <1>4 DEF old
  <2>6. DiskInv'
    <3>1. ASSUME NEW n \in DOMAIN files', NEW i \in DOMAIN files'[n]
          PROVE  files'[n][i] <= lastLine'
      <4>1. CASE n # opened
        BY <1>1, <2>1, <2>4, <4>1
      <4>2. CASE n = opened /\ i \in DOMAIN old
        BY <1>1, <2>1, <2>2, <2>5, <4>2
      <4>3. CASE n = opened /\ i = Len(old) + 1
        BY <1>1, <2>1, <2>2, <4>3
      <4> QED BY <2>1, <2>2, <4>1, <4>2, <4>3
    <3> QED BY <1>1, <2>1, <3>1 DEF DiskInv
  <2>7. OrderedBy(R)'
    <3>1. ASSUME NEW n \in DOMAIN files'
          PROVE  Ascending(files'[n])
      <4>1. CASE n # opened
        BY <2>1, <4>1 DEF OrderedBy
      <4>2. CASE n = opened
        <5>1. Ascending(old)
          BY <1>4 DEF OrderedBy, old
        <5>2. Ascending(new)
          BY <1>1, <2>2, <2>5, <5>1 DEF Ascending
        <5> QED BY <4>2, <2>1, <5>2
      <4> QED BY <4>1, <4>2
    <3>2. ASSUME NEW m \in DOMAIN files', NEW n \in DOMAIN files', <<m, n>> \in R
          PROVE  Older(m, n)'
      <4>1. Older(m, n)
        BY <2>1, <3>2 DEF OrderedBy
      <4>2. m # n
        BY <3>2 DEF NamesByAge
      <4>3. CASE n = opened
        <5>1. files'[n] = new /\ files'[m] = files[m] /\ files[n] = old
          BY <2>1, <4>2, <4>3 DEF old
        <5>2. \A i \in DOMAIN files[m], j \in DOMAIN new : files[m][i] < new[j]
          <6> TAKE i \in DOMAIN files[m], j \in DOMAIN new
          <6>1. CASE j \in DOMAIN old
            BY <6>1, <4>1, <5>1, <2>2 DEF Older
          <6>2. CASE j = Len(old) + 1
            BY <6>2, <2>1, <2>2, <2>4, <1>1
          <6> QED BY <6>1, <6>2, <2>2
        <5> QED BY <5>1, <5>2 DEF Older
      <4>4. CASE m = opened
        <5>1. files'[n] = <<>>
          BY <2>1, <4>2, <4>4, <1>4, <3>2 DEF OrderedBy
        <5> QED BY <5>1 DEF Older
      <4>5. CASE m # opened /\ n # opened
        BY <4>1, <4>5, <2>1 DEF Older
      <4> QED BY <4>3, <4>4, <4>5
    <3> QED BY <1>1, <1>2, <2>1, <3>1, <3>2 DEF OrderedBy
  <2>8. Gapless'
    <3>1. \A x \in Lines(files) : x \in Lines(files')
      <4> TAKE x \in Lines(files)
      <4>1. PICK n \in DOMAIN files : \E i \in DOMAIN files[n] : x = files[n][i]
        BY InLines
      <4>2. \E i \in DOMAIN files'[n] : x = files'[n][i]
        BY <4>1, <2>1, <2>2 DEF old
      <4> QED BY <4>1, <4>2, <2>1, InLines
    <3>2. lastLine + 1 \in Lines(files')
      BY <2>1, <2>2, <1>4, InLines
    <3>3. \A x \in Lines(files') : x \in Lines(files) \/ x = lastLine + 1
      <4> TAKE x \in Lines(files')
      <4>1. PICK n \in DOMAIN files' : \E i \in DOMAIN files'[n] : x = files'[n][i]
        BY InLines
      <4>2. CASE n # opened
        BY <4>1, <4>2, <2>1, InLines
      <4>3. CASE n = opened
        <5>1. PICK i \in DOMAIN new : x = new[i]
          BY <4>1, <4>3, <2>1
        <5>2. i \in DOMAIN old \/ x = lastLine + 1
          BY <5>1, <2>2
        <5> QED BY <5>1, <5>2, <2>2, <1>4, InLines DEF old
      <4> QED BY <4>2, <4>3
    <3>4. ASSUME ~excused, NEW x \in Lines(files')
          PROVE  x..lastLine' \subseteq Lines(files')
      <4>1. x = lastLine + 1 \/ x..lastLine \subseteq Lines(files)
        BY <3>3, <3>4 DEF Gapless
      <4>2. x \in Nat
        BY <3>3, <2>4, <1>1, InLines
      <4> QED BY <4>1, <4>2, <3>1, <3>2, <1>1
    <3> QED BY <3>4, <1>1, <1>2 DEF Gapless
  <2> QED BY <2>3, <2>6, <2>7, <2>8
<1> QED BY <1>1, <1>3, <1>4 DEF DiskTypeOK

\* Emptying the live file loses no line, or is excused.
LEMMA FilesInvTruncateLive ==
  ASSUME NEW R, NamesByAge(R), FilesInv(R), TruncateLive, UNCHANGED <<lastLine, failures>>
  PROVE  FilesInv(R)'
<1> USE DEF FilesInv
<1>1. /\ DOMAIN files' = DOMAIN files \cup {Live}
      /\ \A n \in DOMAIN files : n # Live => files'[n] = files[n]
      /\ files'[Live] = <<>>
      /\ opened' = opened
  BY DEF TruncateLive, Truncate
<1>2. excused' \in BOOLEAN /\ (excused => excused')
  BY DEF TruncateLive, DiskTypeOK
<1>3. DiskTypeOK'
  <2>1. <<>> \in Seq(1..MaxLines)
    OBVIOUS
  <2>2. \A n \in DOMAIN files' : files'[n] \in Seq(1..MaxLines)
    BY <1>1, <2>1, Zenon DEF DiskTypeOK
  <2>3. DOMAIN files' \subseteq Nat
    BY <1>1 DEF DiskTypeOK, Live
  <2> QED BY <1>1, <1>2, <2>2, <2>3, Zenon DEF DiskTypeOK
<1>4. DiskInv'
  <2>1. IsFiniteSet(DOMAIN files')
    BY <1>1, FS_AddElement DEF DiskInv
  <2>2. \A n \in DOMAIN files' : \A i \in DOMAIN files'[n] : files'[n][i] <= lastLine'
    BY <1>1 DEF DiskInv
  <2> QED BY <1>1, <1>2, <2>1, <2>2 DEF DiskInv
<1>5. OrderedBy(R)'
  <2>1. \A n \in DOMAIN files' : Ascending(files'[n])
    BY <1>1 DEF OrderedBy, Ascending
  <2>2. ASSUME NEW m \in DOMAIN files', NEW n \in DOMAIN files', <<m, n>> \in R
        PROVE  Older(m, n)'
    BY <1>1, <2>2 DEF OrderedBy, Older
  <2>3. ASSUME opened' \in DOMAIN files', NEW n \in DOMAIN files', <<opened', n>> \in R
        PROVE  files'[n] = <<>>
    <3>1. opened # Live
      BY <1>1, <1>3, <2>3 DEF NamesByAge, DiskTypeOK
    <3> QED BY <1>1, <2>3, <3>1 DEF OrderedBy
  <2> QED BY <2>1, <2>2, <2>3 DEF OrderedBy
<1>6. ASSUME ~excused'
      PROVE  Lines(files') = Lines(files)
  <2>1. Live \in DOMAIN files => files[Live] = <<>>
    BY <1>6 DEF TruncateLive, Exists
  <2>2. \A x : x \in Lines(files') <=> x \in Lines(files)
    BY <1>1, <2>1, InLines
  <2> QED BY <2>2, Zenon DEF Lines
<1>7. Gapless'
  BY <1>1, <1>2, <1>6 DEF Gapless
<1> QED BY <1>3, <1>4, <1>5, <1>7

\* Removing the file with the oldest lines leaves no gap.
LEMMA FilesInvRemove ==
  ASSUME NEW R, FilesInv(R), NEW f \in Nat,
         ~excused => \A m \in DOMAIN files : m # f => <<f, m>> \in R,
         RemoveFile(f), UNCHANGED <<lastLine, failures>>
  PROVE  FilesInv(R)'
<1> USE DEF FilesInv
<1>1. /\ DOMAIN files' = DOMAIN files \ {f}
      /\ \A n \in DOMAIN files' : files'[n] = files[n]
      /\ opened' = IF opened = f THEN Unlinked ELSE opened
      /\ excused' = excused
  BY DEF RemoveFile, Remove
<1>2. Closed # Unlinked /\ Unlinked \notin DOMAIN files /\ Closed # f /\ Unlinked # f
  BY RotationAssumption DEF DiskTypeOK
<1>3. DiskTypeOK'
  BY <1>1, <1>2 DEF DiskTypeOK
<1>4. DiskInv'
  <2>1. IsFiniteSet(DOMAIN files')
    BY <1>1, FS_Subset DEF DiskInv
  <2>2. opened' # Closed => opened # Closed
    BY <1>1, <1>2
  <2> QED BY <1>1, <2>1, <2>2 DEF DiskInv
<1>5. OrderedBy(R)'
  BY <1>1, <1>2 DEF OrderedBy, Older
<1>6. \A x \in Lines(files') : x \in Lines(files)
  BY <1>1, InLines
<1>7. ASSUME ~excused, NEW x \in Lines(files')
      PROVE  x..lastLine \subseteq Lines(files')
  <2>1. PICK n \in DOMAIN files' : \E i \in DOMAIN files'[n] : x = files'[n][i]
    BY InLines
  <2>2. PICK i \in DOMAIN files[n] : x = files[n][i]
    BY <1>1, <2>1
  <2>3. n \in DOMAIN files /\ x \in Nat
    BY <1>1, <2>2, LineType
  <2> SUFFICES ASSUME NEW y \in x..lastLine
               PROVE  y \in Lines(files')
    OBVIOUS
  <2>4. y \in Lines(files)
    BY <1>6, <1>7 DEF Gapless
  <2>5. PICK m \in DOMAIN files : \E j \in DOMAIN files[m] : y = files[m][j]
    BY <2>4, InLines
  <2>6. m # f
    <3> SUFFICES ASSUME m = f
                 PROVE  FALSE
      OBVIOUS
    <3>1. Older(f, n)
      BY <1>1, <1>7 DEF OrderedBy
    <3>2. y < x
      BY <2>2, <2>5, <3>1 DEF Older
    <3> QED BY <2>3, <3>2
  <2> QED BY <1>1, <2>5, <2>6, InLines
<1>8. ASSUME ~excused, opened' = Unlinked
      PROVE  Lines(files') = {}
  <2>1. CASE opened = Unlinked
    BY <1>6, <1>8, <2>1 DEF Gapless
  <2>2. CASE opened = f /\ f \in DOMAIN files
    <3>1. \A n \in DOMAIN files' : files'[n] = <<>>
      BY <1>1, <1>8, <2>2 DEF OrderedBy
    <3> QED BY <3>1, InLines
  <2> QED BY <1>1, <1>2, <1>8, <2>1, <2>2 DEF DiskTypeOK
<1>9. Gapless'
  BY <1>1, <1>7, <1>8 DEF Gapless
<1> QED BY <1>3, <1>4, <1>5, <1>9

\* Renaming a file to a name that is in the same place of the order loses no
\* line, if no file of that name exists.
LEMMA FilesInvRename ==
  ASSUME NEW R, NamesByAge(R), FilesInv(R), NEW from \in Nat, NEW to \in Nat, from # to,
         \A n \in DOMAIN files : n # from /\ n # to =>
            (<<n, to>> \in R => <<n, from>> \in R) /\ (<<to, n>> \in R => <<from, n>> \in R),
         from \in DOMAIN files /\ ~excused' => to \notin DOMAIN files,
         RenameFile(from, to), UNCHANGED <<lastLine, failures>>,
         excused' \in BOOLEAN, excused => excused'
  PROVE  FilesInv(R)'
<1> USE DEF FilesInv
<1>1. CASE from \notin DOMAIN files
  <2>1. UNCHANGED <<files, opened>>
    <3>1. files' = files
      BY <1>1 DEF RenameFile, Rename, Exists
    <3>2. opened' = opened
      BY <1>1 DEF RenameFile, Exists
    <3> QED BY <3>1, <3>2
  <2>2. DiskTypeOK'
    BY <2>1 DEF DiskTypeOK
  <2>3. DiskInv'
    BY <2>1 DEF DiskInv
  <2>4. OrderedBy(R)'
    BY <2>1 DEF OrderedBy, Older
  <2>5. Gapless'
    BY <2>1 DEF Gapless
  <2> QED BY <2>2, <2>3, <2>4, <2>5
<1>2. CASE from \in DOMAIN files
  <2>1. /\ DOMAIN files' = (DOMAIN files \ {from}) \cup {to}
        /\ \A n \in DOMAIN files' : n # to => n # from /\ n \in DOMAIN files /\ files'[n] = files[n]
        /\ files'[to] = files[from]
    BY <1>2 DEF RenameFile, Rename, Exists
  <2>2. /\ opened = from => opened' = to
        /\ opened = to => opened' = Unlinked
        /\ opened \notin {from, to} => opened' = opened
    BY <1>2 DEF RenameFile, Exists
  <2>3. /\ Closed # Unlinked /\ Unlinked \notin DOMAIN files /\ Closed \notin DOMAIN files
        /\ Unlinked \notin {from, to} /\ Closed \notin {from, to}
    BY RotationAssumption DEF DiskTypeOK
  <2>4. DiskTypeOK'
    <3>1. \A n \in DOMAIN files' : files'[n] \in Seq(1..MaxLines)
      BY <1>2, <2>1 DEF DiskTypeOK
    <3>2. opened' \in DOMAIN files' \cup {Closed, Unlinked}
      BY <1>2, <2>1, <2>2 DEF DiskTypeOK
    <3>3. DOMAIN files' \subseteq Nat
      BY <2>1 DEF DiskTypeOK
    <3> QED BY <3>1, <3>2, <3>3, Zenon DEF DiskTypeOK
  <2>5. DiskInv'
    <3>1. IsFiniteSet(DOMAIN files')
      <4>1. IsFiniteSet(DOMAIN files \ {from})
        BY FS_Subset DEF DiskInv
      <4> QED BY <2>1, <4>1, FS_AddElement
    <3>2. \A n \in DOMAIN files' : \A i \in DOMAIN files'[n] : files'[n][i] <= lastLine'
      BY <1>2, <2>1 DEF DiskInv
    <3>3. opened' # Closed => opened # Closed
      BY <2>2, <2>3
    <3> QED BY <3>1, <3>2, <3>3 DEF DiskInv
  <2>6. OrderedBy(R)'
    <3>1. \A n \in DOMAIN files' : Ascending(files'[n])
      BY <1>2, <2>1 DEF OrderedBy
    <3>2. ASSUME NEW m \in DOMAIN files', NEW n \in DOMAIN files', <<m, n>> \in R
          PROVE  Older(m, n)'
      <4>1. m # n
        BY <3>2 DEF NamesByAge
      <4>2. CASE m = to
        <5>1. n \in DOMAIN files /\ n # from /\ files'[n] = files[n]
          BY <2>1, <4>1, <4>2
        <5>2. Older(from, n)
          BY <1>2, <3>2, <4>1, <4>2, <5>1 DEF OrderedBy
        <5> QED BY <2>1, <4>2, <5>1, <5>2 DEF Older
      <4>3. CASE n = to
        <5>1. m \in DOMAIN files /\ m # from /\ files'[m] = files[m]
          BY <2>1, <4>1, <4>3
        <5>2. Older(m, from)
          BY <1>2, <3>2, <4>1, <4>3, <5>1 DEF OrderedBy
        <5> QED BY <2>1, <4>3, <5>1, <5>2 DEF Older
      <4>4. CASE m # to /\ n # to
        BY <2>1, <3>2, <4>4 DEF OrderedBy, Older
      <4> QED BY <4>2, <4>3, <4>4
    <3>3. ASSUME opened' \in DOMAIN files', NEW n \in DOMAIN files', <<opened', n>> \in R
          PROVE  files'[n] = <<>>
      <4>1. n # opened'
        BY <3>3 DEF NamesByAge
      <4>2. opened' # Unlinked
        BY <2>1, <2>3, <3>3
      <4>3. CASE opened = from
        <5>1. n \in DOMAIN files /\ n # from /\ files'[n] = files[n] /\ n # to /\ opened' = to
          BY <2>1, <2>2, <4>1, <4>3
        <5> QED BY <1>2, <3>3, <4>3, <5>1 DEF OrderedBy
      <4>4. CASE opened \notin {from, to}
        <5>1. opened' = opened /\ opened \in DOMAIN files
          BY <2>1, <2>2, <3>3, <4>4
        <5>2. CASE n = to
          BY <1>2, <2>1, <3>3, <4>4, <5>1, <5>2 DEF OrderedBy
        <5>3. CASE n # to
          BY <2>1, <3>3, <5>1, <5>3 DEF OrderedBy
        <5> QED BY <5>2, <5>3
      <4> QED BY <2>2, <4>2, <4>3, <4>4
    <3> QED BY <3>1, <3>2, <3>3 DEF OrderedBy
  <2>7. ASSUME ~excused'
        PROVE  Lines(files') = Lines(files) /\ (opened' = Unlinked => opened = Unlinked)
    <3>1. to \notin DOMAIN files
      BY <1>2, <2>7
    <3>2. \A x : x \in Lines(files') <=> x \in Lines(files)
      BY <1>2, <2>1, <3>1, InLines
    <3>3. Lines(files') = Lines(files)
      BY <3>2, Zenon DEF Lines
    <3>4. opened # to
      BY <2>3, <3>1 DEF DiskTypeOK
    <3> QED BY <2>2, <2>3, <3>3, <3>4
  <2>8. Gapless'
    BY <2>7 DEF Gapless
  <2> QED BY <2>4, <2>5, <2>6, <2>8
<1> QED BY <1>1, <1>2

-----------------------------------------------------------------------------
(* What follows from the invariant.                                        *)

\* The lines that survive are the last ones: there is a first one, and none is
\* missing after it.
LEMMA GaplessLines ==
  ASSUME NEW R, FilesInv(R)
  PROVE  OnlyOldestLost
<1> USE DEF FilesInv
<1> SUFFICES ASSUME ~excused
             PROVE  \E k \in 1..(lastLine + 1) : Lines(files) = k..lastLine
  BY DEF OnlyOldestLost
<1>1. lastLine \in Nat
  BY DEF DiskTypeOK
<1>2. \A x \in Lines(files) : x \in Nat /\ x >= 1 /\ x <= lastLine
  <2> TAKE x \in Lines(files)
  <2>1. PICK n \in DOMAIN files : \E i \in DOMAIN files[n] : x = files[n][i]
    BY InLines
  <2>2. PICK i \in DOMAIN files[n] : x = files[n][i]
    BY <2>1
  <2>3. x \in 1..MaxLines /\ x \in Nat
    BY <2>2, LineType
  <2>4. x <= lastLine
    BY <2>2 DEF DiskInv
  <2> QED BY <2>3, <2>4
<1>3. CASE Lines(files) = {}
  <2>1. Lines(files) = (lastLine + 1)..lastLine
    BY <1>1, <1>3
  <2> QED BY <1>1, <2>1
<1>4. CASE Lines(files) # {}
  <2>1. PICK k \in Lines(files) : \A x \in Lines(files) : k <= x
    BY <1>2, <1>4, MinExists
  <2>2. k..lastLine \subseteq Lines(files)
    BY DEF Gapless
  <2>3. \A x : x \in Lines(files) => x \in k..lastLine
    BY <1>1, <1>2, <2>1
  <2>4. Lines(files) = k..lastLine
    BY <2>2, <2>3
  <2> QED BY <1>1, <1>2, <2>4
<1> QED BY <1>3, <1>4

=============================================================================
