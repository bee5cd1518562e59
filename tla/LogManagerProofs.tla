-------------------------- MODULE LogManagerProofs --------------------------
(***************************************************************************)
(* Theorems about LogManager, for any numbers of callers, loggers, levels  *)
(* and messages.  Each safety property is an invariant that is inductive   *)
(* relative to the ones proved before it; together they are InductiveInv.  *)
(***************************************************************************)
EXTENDS LogManager, TLAPS, FunctionTheorems, FiniteSetTheorems, SequenceTheorems,
        WellFoundedInduction

-----------------------------------------------------------------------------
\* Unsigned arithmetic of the counter: remainders by an arbitrary modulus.
LEMMA ModRange ==
  ASSUME NEW M \in Nat \ {0}, NEW y \in Int
  PROVE  /\ y % M \in 0..(M - 1)
         /\ y \div M \in Int
         /\ y = M * (y \div M) + (y % M)
OBVIOUS

\* Taking the first element off a sequence.
LEMMA HeadAndTail ==
  ASSUME NEW S, NEW q \in Seq(S), q # <<>>
  PROVE  q = <<Head(q)>> \o Tail(q)
<1> DEFINE h == <<Head(q)>>
<1>1. Head(q) \in S /\ Tail(q) \in Seq(S) /\ Len(Tail(q)) = Len(q) - 1
  BY HeadTailProperties
<1>2. h \in Seq(S) /\ Len(h) = 1 /\ h[1] = q[1]
  BY <1>1
<1>3. /\ h \o Tail(q) \in Seq(S)
      /\ Len(h \o Tail(q)) = Len(q)
      /\ \A i \in 1..Len(q) : (h \o Tail(q))[i] = q[i]
  BY <1>1, <1>2, ConcatProperties, HeadTailProperties
<1> HIDE DEF h
<1> QED
  BY <1>3, SeqEqual

-----------------------------------------------------------------------------
TypeInv == TypeOK /\ HandInv

\* Every action keeps the types.
LEMMA TypeStep == TypeInv /\ [Next]_vars => TypeInv'
<1> SUFFICES ASSUME TypeInv, [Next]_vars
             PROVE  TypeInv'
  OBVIOUS
<1> USE NoActionAssumption
    DEF TypeInv, TypeOK, HandInv, WorkerPcs, CallerPcs, CloserPcs
<1>1. ASSUME NEW c \in Callers, NEW l \in Loggers, NEW v \in Levels,
             LogBegin(c, l, v)
      PROVE  TypeInv'
  <2> DEFINE a == [logger |-> l, level |-> v, by |-> c, nr |-> calls[c] + 1]
  <2>1. calls[c] + 1 \in 1..MaxCalls /\ calls[c] + 1 \in 0..MaxCalls
    BY <1>1, ConstantsAssumption DEF LogBegin
  <2>2. a \in Action /\ a # NoAction
    BY <2>1 DEF Action
  <2> HIDE DEF a
  <2>3. call' = [call EXCEPT ![c] = a]
    BY <1>1 DEF LogBegin, a
  <2> QED
    BY <1>1, <2>1, <2>2, <2>3 DEF LogBegin, closerVars, fileVars
<1>2. ASSUME NEW c \in Callers, QueueLock(c)
      PROVE  TypeInv'
  BY <1>2 DEF QueueLock, closerVars, fileVars, Threads
<1>3. ASSUME NEW c \in Callers, QueuePush(c)
      PROVE  TypeInv'
  <2>1. call[c] \in Action
    BY <1>3 DEF QueuePush
  <2>2. queue' \in Seq(Action) /\ accepted' \in Seq(Action)
    BY <1>3, <2>1, AppendProperties DEF QueuePush
  <2> QED
    BY <1>3, <2>2 DEF QueuePush, closerVars, fileVars
<1>4. ASSUME NEW c \in Callers, QueueNotify(c)
      PROVE  TypeInv'
  BY <1>4 DEF QueueNotify, NotifyOne, closerVars, fileVars
<1>5. ASSUME NEW c \in Callers, CountUp(c)
      PROVE  TypeInv'
  <2>1. logCounter' \in [Loggers -> 0..(CounterMod - 1)]
    <3>1. CounterMod \in Nat \ {0}
      BY ConstantsAssumption
    <3>2. ASSUME NEW l \in Loggers
          PROVE  (logCounter[l] + 1) % CounterMod \in 0..(CounterMod - 1)
      <4>1. logCounter[l] + 1 \in Int
        BY <3>1
      <4> HIDE DEF TypeInv
      <4> QED
        BY <3>1, <4>1, ModRange
    <3> QED
      BY <1>5, <3>2 DEF CountUp
  <2> QED
    BY <1>5, <2>1 DEF CountUp, closerVars, fileVars
<1>6. CASE WorkerLock
  BY <1>6 DEF WorkerLock, callerVars, closerVars, fileVars, Threads
<1>7. CASE WorkerWait
  BY <1>7 DEF WorkerWait, callerVars, closerVars, fileVars
<1>8. CASE WorkerPop
  <2>1. action' \in Action /\ queue' \in Seq(Action)
    BY <1>8, HeadTailProperties DEF WorkerPop
  <2> QED
    BY <1>8, <2>1 DEF WorkerPop, callerVars, closerVars, fileVars
<1>9. CASE WorkerLoop
  BY <1>9 DEF WorkerLoop, callerVars, closerVars, fileVars
<1>10. CASE WriteLogString
  <2>1. logFile' \in Seq(Action)
    BY <1>10, AppendProperties DEF WriteLogString
  <2> QED
    BY <1>10, <2>1 DEF WriteLogString, callerVars, closerVars
<1>11. CASE WriteLevelLogString
  <2>1. levelFile' \in Seq(Action)
    BY <1>11, AppendProperties DEF WriteLevelLogString
  <2> QED
    BY <1>11, <2>1 DEF WriteLevelLogString, callerVars, closerVars
<1>12. CASE CountDown
  <2>1. logCounter' \in [Loggers -> 0..(CounterMod - 1)]
    <3>1. CounterMod \in Nat \ {0}
      BY ConstantsAssumption
    <3>2. ASSUME NEW l \in Loggers
          PROVE  (logCounter[l] - 1) % CounterMod \in 0..(CounterMod - 1)
      <4>1. logCounter[l] - 1 \in Int
        BY <3>1
      <4> HIDE DEF TypeInv
      <4> QED
        BY <3>1, <4>1, ModRange
    <3> QED
      BY <1>12, <3>2 DEF CountDown
  <2> QED
    BY <1>12, <2>1 DEF CountDown, callerVars, closerVars, fileVars
<1>13. CASE SpuriousWakeup
  BY <1>13 DEF SpuriousWakeup, callerVars, closerVars, fileVars
<1>14. ASSUME NEW l \in Loggers, DestroyBegin(l)
       PROVE  TypeInv'
  BY <1>14 DEF DestroyBegin, callerVars, closerVars, fileVars
<1>15. ASSUME NEW l \in Loggers, DestroyEnd(l)
       PROVE  TypeInv'
  BY <1>15 DEF DestroyEnd, callerVars, closerVars, fileVars
<1>16. CASE CloseBegin
  BY <1>16 DEF CloseBegin, callerVars, fileVars
<1>17. CASE CloseLock
  BY <1>17 DEF CloseLock, callerVars, fileVars, Threads
<1>18. CASE CloseStop
  BY <1>18 DEF CloseStop, callerVars, fileVars
<1>19. CASE CloseNotify
  BY <1>19 DEF CloseNotify, NotifyOne, callerVars, fileVars
<1>20. CASE CloseJoin
  BY <1>20 DEF CloseJoin, callerVars, fileVars
<1>21. CASE UNCHANGED vars
  BY <1>21 DEF vars
<1> QED
  BY <1>1, <1>2, <1>3, <1>4, <1>5, <1>6, <1>7, <1>8, <1>9, <1>10, <1>11,
     <1>12, <1>13, <1>14, <1>15, <1>16, <1>17, <1>18, <1>19, <1>20, <1>21
  DEF Next, LogStep, WorkerStep, CloseStep

\* Every variable of the pipeline keeps its type, and a local variable of Log or
\* Process holds an action exactly between the statements that fill and use it:
\* no step queues, runs or counts an action that is not there.
THEOREM TypeCorrect == Spec => []TypeInv
<1>1. Init => TypeInv
  BY ConstantsAssumption
  DEF Init, InitAt, TypeInv, TypeOK, HandInv, WorkerPcs, CallerPcs, CloserPcs
<1> QED
  BY <1>1, TypeStep, PTL DEF Spec

\* The part of it that the model checker looks at: the type invariant of LogManager.
THEOREM TypesKept == Spec => []TypeOK
<1>1. TypeInv => TypeOK
  BY DEF TypeInv
<1> QED
  BY <1>1, TypeCorrect, PTL

-----------------------------------------------------------------------------
\* Every action respects the owner of the mutex.
LEMMA MutexStep == TypeInv /\ MutexInv /\ [Next]_vars => MutexInv'
<1> SUFFICES ASSUME TypeOK, MutexInv, [Next]_vars
             PROVE  MutexInv'
  BY DEF TypeInv
<1>0. /\ Worker # Closer /\ Worker # NoThread /\ Closer # NoThread
      /\ \A c \in Callers : c # Worker /\ c # Closer /\ c # NoThread
  BY ConstantsAssumption DEF Threads, Worker, Closer
<1> USE <1>0 DEF MutexInv, TypeOK
<1>1. ASSUME NEW c \in Callers, NEW l \in Loggers, NEW v \in Levels,
             LogBegin(c, l, v)
      PROVE  MutexInv'
  BY <1>1 DEF LogBegin, closerVars
<1>2. ASSUME NEW c \in Callers, QueueLock(c)
      PROVE  MutexInv'
  BY <1>2 DEF QueueLock, closerVars
<1>3. ASSUME NEW c \in Callers, QueuePush(c)
      PROVE  MutexInv'
  BY <1>3 DEF QueuePush, closerVars
<1>4. ASSUME NEW c \in Callers, QueueNotify(c)
      PROVE  MutexInv'
  BY <1>4 DEF QueueNotify, NotifyOne, closerVars
<1>5. ASSUME NEW c \in Callers, CountUp(c)
      PROVE  MutexInv'
  BY <1>5 DEF CountUp, closerVars
<1>6. CASE WorkerLock
  BY <1>6 DEF WorkerLock, callerVars, closerVars
<1>7. CASE WorkerWait
  BY <1>7 DEF WorkerWait, callerVars, closerVars
<1>8. CASE WorkerPop
  BY <1>8 DEF WorkerPop, callerVars, closerVars
<1>9. CASE WorkerLoop
  BY <1>9 DEF WorkerLoop, callerVars, closerVars
<1>10. CASE WriteLogString \/ WriteLevelLogString \/ CountDown
  BY <1>10 DEF WriteLogString, WriteLevelLogString, CountDown, callerVars, closerVars
<1>11. CASE SpuriousWakeup
  BY <1>11 DEF SpuriousWakeup, callerVars, closerVars
<1>12. ASSUME NEW l \in Loggers, DestroyBegin(l) \/ DestroyEnd(l)
       PROVE  MutexInv'
  BY <1>12 DEF DestroyBegin, DestroyEnd, callerVars, closerVars
<1>13. CASE CloseBegin
  BY <1>13 DEF CloseBegin, callerVars
<1>14. CASE CloseLock
  BY <1>14 DEF CloseLock, callerVars
<1>15. CASE CloseStop
  BY <1>15 DEF CloseStop, callerVars
<1>16. CASE CloseNotify
  BY <1>16 DEF CloseNotify, NotifyOne, callerVars
<1>17. CASE CloseJoin
  BY <1>17 DEF CloseJoin, callerVars
<1>18. CASE UNCHANGED vars
  BY <1>18 DEF vars
<1> QED
  BY <1>1, <1>2, <1>3, <1>4, <1>5, <1>6, <1>7, <1>8, <1>9, <1>10, <1>11,
     <1>12, <1>13, <1>14, <1>15, <1>16, <1>17, <1>18
  DEF Next, LogStep, WorkerStep, CloseStep

\* Queue, Process and ~LogManager are inside their critical sections one at a
\* time: _queueMtx is owned by the thread whose program counter says so.
THEOREM MutexCorrect == Spec => []MutexInv
<1>1. Init => MutexInv
  BY ConstantsAssumption DEF Init, InitAt, MutexInv, Threads, Worker, Closer
<1> QED
  BY <1>1, MutexStep, TypeCorrect, PTL DEF Spec

-----------------------------------------------------------------------------
\* What a thread does outside QueuePush, WorkerPop and WriteLogString moves no
\* action between the caller, the queue, the worker's hand and the file.
LEMMA OtherSteps ==
  ASSUME TypeInv, [Next]_vars,
         \A c \in Callers : ~QueuePush(c), ~WorkerPop, ~WriteLogString
  PROVE  UNCHANGED <<accepted, queue, logFile, InHand>>
<1> USE DEF TypeInv, TypeOK, InHand
<1>1. ASSUME NEW c \in Callers, NEW l \in Loggers, NEW v \in Levels,
             LogBegin(c, l, v)
      PROVE  UNCHANGED <<accepted, queue, logFile, InHand>>
  BY <1>1 DEF LogBegin, fileVars
<1>2. ASSUME NEW c \in Callers, QueueLock(c) \/ QueueNotify(c) \/ CountUp(c)
      PROVE  UNCHANGED <<accepted, queue, logFile, InHand>>
  BY <1>2 DEF QueueLock, QueueNotify, NotifyOne, CountUp, fileVars
<1>3. CASE WorkerLock \/ WorkerWait \/ WorkerLoop \/ SpuriousWakeup
  BY <1>3 DEF WorkerLock, WorkerWait, WorkerLoop, SpuriousWakeup, fileVars
<1>4. CASE WriteLevelLogString \/ CountDown
  BY <1>4 DEF WriteLevelLogString, CountDown, fileVars
<1>5. ASSUME NEW l \in Loggers, DestroyBegin(l) \/ DestroyEnd(l)
      PROVE  UNCHANGED <<accepted, queue, logFile, InHand>>
  BY <1>5 DEF DestroyBegin, DestroyEnd, fileVars
<1>6. CASE CloseBegin \/ CloseStep
  BY <1>6 DEF CloseBegin, CloseStep, CloseLock, CloseStop, CloseNotify, NotifyOne,
              CloseJoin, fileVars
<1>7. CASE UNCHANGED vars
  BY <1>7 DEF vars
<1> QED
  BY <1>1, <1>2, <1>3, <1>4, <1>5, <1>6, <1>7
  DEF Next, LogStep, WorkerStep

\* Exactly once and in order: whichever threads log, and whenever the process
\* stops, the file holds the accepted actions in the order of the queue, except
\* the one in the worker's hand and the ones still queued (Queue, Process).
THEOREM OrderCorrect == Spec => []ExactlyOnceInOrder
<1>1. Init => ExactlyOnceInOrder
  BY DEF Init, InitAt, ExactlyOnceInOrder, InHand
<1>2. TypeInv /\ ExactlyOnceInOrder /\ [Next]_vars => ExactlyOnceInOrder'
  <2> SUFFICES ASSUME TypeInv, ExactlyOnceInOrder, [Next]_vars
               PROVE  ExactlyOnceInOrder'
    OBVIOUS
  <2> USE DEF TypeInv, TypeOK, ExactlyOnceInOrder, InHand
  <2>1. ASSUME NEW c \in Callers, QueuePush(c)
        PROVE  ExactlyOnceInOrder'
    <3>1. call[c] \in Action
      BY <2>1 DEF QueuePush, HandInv
    <3>2. /\ accepted' = Append(logFile \o InHand \o queue, call[c])
          /\ queue' = Append(queue, call[c])
          /\ UNCHANGED <<logFile, InHand>>
      BY <2>1 DEF QueuePush, closerVars, fileVars
    <3>3. InHand \in Seq(Action) /\ logFile \o InHand \in Seq(Action)
      BY DEF HandInv
    <3>4. queue \in Seq(Action)
      OBVIOUS
    <3>5. Append((logFile \o InHand) \o queue, call[c])
            = (logFile \o InHand) \o Append(queue, call[c])
      <4> DEFINE s == logFile \o InHand
                 a == call[c]
      <4>1. s \in Seq(Action) /\ a \in Action
        BY <3>1, <3>3
      <4> HIDE DEF s, a, TypeInv, TypeOK, ExactlyOnceInOrder, InHand
      <4>2. Append(s \o queue, a) = s \o Append(queue, a)
        BY <3>4, <4>1
      <4> QED
        BY <4>2 DEF s, a
    <3> HIDE DEF InHand
    <3> QED
      BY <3>2, <3>5
  <2>2. CASE WorkerPop
    <3>1. /\ queue # <<>>
          /\ InHand = <<>>
          /\ InHand' = <<Head(queue)>>
          /\ queue' = Tail(queue)
          /\ UNCHANGED <<accepted, logFile>>
      BY <2>2 DEF WorkerPop, fileVars
    <3>2. queue = <<Head(queue)>> \o Tail(queue)
      BY <3>1, HeadAndTail
    <3>3. /\ logFile \in Seq(Action) /\ logFile \o <<>> = logFile
          /\ <<Head(queue)>> \in Seq(Action) /\ Tail(queue) \in Seq(Action)
      BY <3>1, HeadTailProperties, ConcatEmptySeq
    <3>4. logFile \o queue = (logFile \o <<Head(queue)>>) \o Tail(queue)
      <4> HIDE DEF TypeInv, TypeOK, ExactlyOnceInOrder, InHand
      <4>1. (logFile \o <<Head(queue)>>) \o Tail(queue) = logFile \o (<<Head(queue)>> \o Tail(queue))
        BY ONLY <3>3, ConcatAssociative
      <4> QED
        BY ONLY <3>2, <4>1
    <3> QED
      BY <3>1, <3>3, <3>4
  <2>3. CASE WriteLogString
    <3>1. /\ action \in Action
          /\ InHand = <<action>>
          /\ InHand' = <<>>
          /\ logFile' = logFile \o <<action>>
          /\ UNCHANGED <<accepted, queue>>
      BY <2>3, AppendIsConcat DEF WriteLogString, HandInv
    <3>2. (logFile \o <<action>>) \o <<>> = logFile \o <<action>>
      BY <3>1, ConcatEmptySeq, ConcatProperties
    <3> QED
      BY <3>1, <3>2
  <2>4. ASSUME \A c \in Callers : ~QueuePush(c), ~WorkerPop, ~WriteLogString
        PROVE  ExactlyOnceInOrder'
    BY <2>4, OtherSteps
  <2> QED
    BY <2>1, <2>2, <2>3, <2>4
<1> QED
  BY <1>1, <1>2, TypeCorrect, PTL DEF Spec

-----------------------------------------------------------------------------
(* The levelled actions of a sequence are defined by recursion on its      *)
(* length.  That they are what the recursion says takes two inductions,    *)
(* each on the least number for which it fails.                            *)

LEMMA LeastNumber ==
  ASSUME NEW S \in SUBSET Nat, S # {}
  PROVE  \E n \in S : \A m \in S : n <= m
<1> DEFINE R == OpToRel(<, Nat)
<1>1. IsWellFoundedOn(R, Nat)
  BY NatLessThanWellFounded, Zenon
<1>2. \A m, n \in S : m < n => <<m, n>> \in R
  BY Zenon DEF OpToRel
<1> HIDE DEF R
<1>3. PICK n \in S : \A m \in S : ~ (<<m, n>> \in R)
  BY <1>1, WFMin
<1>4. \A m \in S : ~(m < n)
  BY ONLY <1>2, <1>3
<1>5. n \in Nat /\ \A m \in S : m \in Nat
  BY ONLY n \in S, S \in SUBSET Nat
<1> QED BY <1>4, <1>5

\* One turn of the recursion, and the function it defines.
LevelledNext(s, f, i) ==
  IF i = 0 THEN <<>>
  ELSE IF Levelled(s[i]) THEN Append(f[i - 1], s[i]) ELSE f[i - 1]

LevelledUpTo(s) == CHOOSE f : f = [i \in 0..Len(s) |-> LevelledNext(s, f, i)]

LEMMA LevelledOfIsLast ==
  ASSUME NEW s
  PROVE  LevelledOf(s) = LevelledUpTo(s)[Len(s)]
BY Zenon DEF LevelledOf, LevelledUpTo, LevelledNext

\* There is such a function.
LEMMA LevelledUpToExists ==
  ASSUME NEW s, Len(s) \in Nat
  PROVE  LevelledUpTo(s) = [i \in 0..Len(s) |-> LevelledNext(s, LevelledUpTo(s), i)]
<1> DEFINE Solves(f, n) == f = [i \in 0..n |-> LevelledNext(s, f, i)]
           Failing == {n \in Nat : ~ \E f : Solves(f, n)}
<1>1. Failing = {}
  <2> SUFFICES ASSUME Failing # {}
               PROVE  FALSE
    OBVIOUS
  <2>1. PICK n \in Failing : \A m \in Failing : n <= m
    <3>1. Failing \in SUBSET Nat
      OBVIOUS
    <3> HIDE DEF Failing
    <3> QED BY <3>1, LeastNumber
  <2>2. n \in Nat /\ ~ \E f : Solves(f, n)
    OBVIOUS
  <2>3. n # 0
    <3> DEFINE z == [i \in 0..0 |-> <<>>]
    <3>1. z = [i \in 0..0 |-> LevelledNext(s, z, i)]
      BY DEF LevelledNext
    <3> QED BY <2>2, <3>1, Zenon
  <2>4. PICK g : Solves(g, n - 1)
    <3>1. n - 1 \in Nat /\ ~(n <= n - 1)
      BY <2>2, <2>3
    <3> QED BY <2>1, <3>1
  <2> DEFINE h == [i \in 0..n |-> LevelledNext(s, g, i)]
  <2>5. \A i \in 0..(n - 1) : h[i] = g[i]
    BY <2>2, <2>4
  <2>6. \A i \in 0..n : LevelledNext(s, h, i) = LevelledNext(s, g, i)
    <3> HIDE DEF h
    <3> TAKE i \in 0..n
    <3>1. i = 0 \/ i - 1 \in 0..(n - 1)
      BY <2>2
    <3> QED BY <3>1, <2>5 DEF LevelledNext
  <2>7. Solves(h, n)
    <3>1. h = [i \in 0..n |-> LevelledNext(s, g, i)]
      OBVIOUS
    <3> HIDE DEF h
    <3> QED BY <2>6, <3>1
  <2> QED BY <2>2, <2>7
<1>2. \E f : Solves(f, Len(s))
  BY <1>1
<1> QED BY <1>2, Zenon DEF LevelledUpTo

LEMMA LevelledUpToValue ==
  ASSUME NEW s, Len(s) \in Nat, NEW i \in 0..Len(s)
  PROVE  LevelledUpTo(s)[i] = LevelledNext(s, LevelledUpTo(s), i)
<1> DEFINE F == LevelledUpTo(s)
<1>1. F = [j \in 0..Len(s) |-> LevelledNext(s, F, j)]
  BY LevelledUpToExists
<1> HIDE DEF F
<1>2. F[i] = LevelledNext(s, F, i)
  BY <1>1
<1> QED BY <1>2 DEF F

\* No element, no levelled one.
LEMMA LevelledOfEmpty == LevelledOf(<<>>) = <<>>
<1>1. Len(<<>>) = 0
  OBVIOUS
<1>2. LevelledUpTo(<<>>)[0] = LevelledNext(<<>>, LevelledUpTo(<<>>), 0)
  BY <1>1, LevelledUpToValue
<1> QED BY <1>1, <1>2, LevelledOfIsLast DEF LevelledNext

\* One more element is one more levelled one, if it is.
LEMMA LevelledOfAppend ==
  ASSUME NEW s \in Seq(Action), NEW a \in Action
  PROVE  LevelledOf(Append(s, a)) =
           IF Levelled(a) THEN Append(LevelledOf(s), a) ELSE LevelledOf(s)
<1> DEFINE n == Len(s)
           t == Append(s, a)
           F == LevelledUpTo(s)
           G == LevelledUpTo(t)
           Failing == {i \in 0..n : F[i] # G[i]}
<1>1. /\ n \in Nat /\ Len(s) = n /\ Len(t) = n + 1
      /\ \A i \in 1..n : t[i] = s[i]
      /\ t[n + 1] = a
  OBVIOUS
<1> HIDE DEF n, t
<1>2. /\ \A i \in 0..n : F[i] = LevelledNext(s, F, i)
      /\ \A i \in 0..(n + 1) : G[i] = LevelledNext(t, G, i)
  BY <1>1, LevelledUpToValue
<1> HIDE DEF F, G
<1>3. Failing = {}
  <2> SUFFICES ASSUME Failing # {}
               PROVE  FALSE
    OBVIOUS
  <2>1. PICK i \in Failing : \A j \in Failing : i <= j
    <3>1. Failing \in SUBSET Nat
      BY <1>1
    <3> HIDE DEF Failing
    <3> QED BY <3>1, LeastNumber
  <2>2. i \in 0..n /\ i \in 0..(n + 1) /\ F[i] # G[i]
    BY <1>1
  <2>3. i # 0
    BY <1>2, <2>2 DEF LevelledNext
  <2>4. i - 1 \in 0..n /\ ~(i <= i - 1) /\ i \in 1..n
    BY <1>1, <2>2, <2>3
  <2>5. F[i - 1] = G[i - 1]
    BY <2>1, <2>4
  <2> QED BY <1>1, <1>2, <2>2, <2>3, <2>4, <2>5 DEF LevelledNext
<1>4. F[n] = G[n]
  BY <1>1, <1>3
<1>5. G[n + 1] = IF Levelled(a) THEN Append(G[n], a) ELSE G[n]
  <2>1. n + 1 \in 0..(n + 1) /\ n + 1 # 0 /\ (n + 1) - 1 = n
    BY <1>1
  <2> QED BY <1>1, <1>2, <2>1 DEF LevelledNext
<1>6. LevelledOf(s) = F[n] /\ LevelledOf(t) = G[n + 1]
  BY <1>1, LevelledOfIsLast DEF F, G
<1> QED BY <1>4, <1>5, <1>6 DEF t

\* The level files repeat the levelled lines of the loggers' own files, in the
\* same order and at most one action behind, whenever the process stops
\* (WriteLogString, WriteLevelLogString).
THEOREM LevelFileCorrect == Spec => []LevelFileFollows
<1> DEFINE Hand == IF workerPc = "level" /\ Levelled(action) THEN <<action>> ELSE <<>>
<1>1. Init => LevelFileFollows
  BY LevelledOfEmpty DEF Init, InitAt, LevelFileFollows
<1>2. TypeInv /\ LevelFileFollows /\ [Next]_vars => LevelFileFollows'
  <2> SUFFICES ASSUME TypeInv, LevelFileFollows, [Next]_vars
               PROVE  LevelFileFollows'
    OBVIOUS
  <2>0. levelFile \in Seq(Action) /\ logFile \in Seq(Action)
    BY DEF TypeInv, TypeOK
  <2>1. CASE WriteLogString
    <3>1. /\ action \in Action /\ action' = action
          /\ logFile' = Append(logFile, action)
          /\ levelFile' = levelFile
          /\ workerPc = "write" /\ workerPc' = "level"
      BY <2>1 DEF WriteLogString, TypeInv, TypeOK, HandInv
    <3>2. LevelledOf(logFile) = levelFile
      BY <2>0, <3>1, ConcatEmptySeq DEF LevelFileFollows
    <3>3. LevelledOf(logFile') = IF Levelled(action) THEN Append(levelFile, action) ELSE levelFile
      BY <2>0, <3>1, <3>2, LevelledOfAppend
    <3>4. /\ Append(levelFile, action) = levelFile \o <<action>>
          /\ levelFile = levelFile \o <<>>
      BY <2>0, <3>1, AppendIsConcat, ConcatEmptySeq
    <3>5. Levelled(action)' <=> Levelled(action)
      BY <3>1 DEF Levelled
    <3> QED BY <3>1, <3>3, <3>4, <3>5 DEF LevelFileFollows
  <2>2. CASE WriteLevelLogString
    <3>1. /\ action \in Action
          /\ logFile' = logFile
          /\ levelFile' = IF Levelled(action) THEN Append(levelFile, action) ELSE levelFile
          /\ workerPc = "level" /\ workerPc' = "count"
      BY <2>2 DEF WriteLevelLogString, TypeInv, TypeOK, HandInv, Levelled
    <3>2. levelFile' \in Seq(Action) /\ levelFile' = levelFile \o Hand
      BY <2>0, <3>1, AppendIsConcat, ConcatEmptySeq
    <3>3. levelFile' \o <<>> = levelFile'
      BY <3>2, ConcatEmptySeq
    <3> QED BY <3>1, <3>2, <3>3 DEF LevelFileFollows
  <2>3. ASSUME ~WriteLogString, ~WriteLevelLogString
        PROVE  UNCHANGED <<logFile, levelFile, Hand>>
    <3> USE DEF TypeInv, TypeOK
    <3>1. ASSUME NEW c \in Callers,
                 (\E l \in Loggers, v \in Levels : LogBegin(c, l, v)) \/ LogStep(c)
          PROVE  UNCHANGED <<logFile, levelFile, Hand>>
      BY <3>1 DEF LogBegin, LogStep, QueueLock, QueuePush, QueueNotify, NotifyOne, CountUp,
                  fileVars, Levelled
    <3>2. CASE WorkerStep \/ SpuriousWakeup
      BY <2>3, <3>2 DEF WorkerStep, WorkerLock, WorkerWait, WorkerPop, WorkerLoop, CountDown,
                        SpuriousWakeup, fileVars, Levelled
    <3>3. ASSUME NEW l \in Loggers, DestroyBegin(l) \/ DestroyEnd(l)
          PROVE  UNCHANGED <<logFile, levelFile, Hand>>
      BY <3>3 DEF DestroyBegin, DestroyEnd, fileVars, Levelled
    <3>4. CASE CloseBegin \/ CloseStep
      BY <3>4 DEF CloseBegin, CloseStep, CloseLock, CloseStop, CloseNotify, NotifyOne,
                  CloseJoin, fileVars, Levelled
    <3>5. CASE UNCHANGED vars
      BY <3>5 DEF vars, Levelled
    <3> QED BY <3>1, <3>2, <3>3, <3>4, <3>5 DEF Next
  <2>4. CASE UNCHANGED <<logFile, levelFile, Hand>>
    BY <2>4 DEF LevelFileFollows
  <2> QED BY <2>1, <2>2, <2>3, <2>4
<1> QED
  BY <1>1, <1>2, TypeCorrect, PTL DEF Spec

-----------------------------------------------------------------------------
\* Nobody is inside Log of a logger that is being destroyed or once ~LogManager
\* has begun, and the worker ends only after it was told to and with an empty
\* queue, to which nothing is added any more.
THEOREM QuietCorrect == Spec => [](QuietInv /\ StopInv)
<1>1. Init => QuietInv /\ StopInv
  BY DEF Init, InitAt, QuietInv, StopInv, InCall
<1>2. TypeInv /\ QuietInv /\ StopInv /\ [Next]_vars => QuietInv' /\ StopInv'
  <2> SUFFICES ASSUME TypeInv, QuietInv, StopInv, [Next]_vars
               PROVE  QuietInv' /\ StopInv'
    OBVIOUS
  <2> USE DEF TypeInv, TypeOK, HandInv, QuietInv, StopInv, InCall
  <2>1. ASSUME NEW c \in Callers, NEW l \in Loggers, NEW v \in Levels,
               LogBegin(c, l, v)
        PROVE  QuietInv' /\ StopInv'
    <3> DEFINE a == [logger |-> l, level |-> v, by |-> c, nr |-> calls[c] + 1]
    <3>1. /\ call' = [call EXCEPT ![c] = a]
          /\ a.logger = l
      BY <2>1 DEF LogBegin
    <3> HIDE DEF a
    <3> QED
      BY <2>1, <3>1 DEF LogBegin, closerVars
  <2>2. ASSUME NEW c \in Callers, QueueLock(c)
        PROVE  QuietInv' /\ StopInv'
    BY <2>2 DEF QueueLock, closerVars
  <2>3. ASSUME NEW c \in Callers, QueuePush(c)
        PROVE  QuietInv' /\ StopInv'
    BY <2>3 DEF QueuePush, closerVars
  <2>4. ASSUME NEW c \in Callers, QueueNotify(c)
        PROVE  QuietInv' /\ StopInv'
    BY <2>4 DEF QueueNotify, NotifyOne, closerVars
  <2>5. ASSUME NEW c \in Callers, CountUp(c)
        PROVE  QuietInv' /\ StopInv'
    BY <2>5 DEF CountUp, closerVars
  <2>6. CASE WorkerLock \/ WorkerWait \/ SpuriousWakeup
    BY <2>6 DEF WorkerLock, WorkerWait, SpuriousWakeup, callerVars, closerVars
  <2>7. CASE WorkerPop
    BY <2>7 DEF WorkerPop, callerVars, closerVars
  <2>8. CASE WorkerLoop
    BY <2>8 DEF WorkerLoop, callerVars, closerVars
  <2>9. CASE WriteLogString \/ WriteLevelLogString \/ CountDown
    BY <2>9 DEF WriteLogString, WriteLevelLogString, CountDown, callerVars, closerVars
  <2>10. ASSUME NEW l \in Loggers, DestroyBegin(l)
         PROVE  QuietInv' /\ StopInv'
    BY <2>10 DEF DestroyBegin, callerVars, closerVars
  <2>11. ASSUME NEW l \in Loggers, DestroyEnd(l)
         PROVE  QuietInv' /\ StopInv'
    BY <2>11 DEF DestroyEnd, callerVars, closerVars
  <2>12. CASE CloseBegin
    BY <2>12 DEF CloseBegin, callerVars
  <2>13. CASE CloseLock \/ CloseStop \/ CloseNotify
    BY <2>13 DEF CloseLock, CloseStop, CloseNotify, NotifyOne, callerVars
  <2>14. CASE CloseJoin
    BY <2>14 DEF CloseJoin, callerVars
  <2>15. CASE UNCHANGED vars
    BY <2>15 DEF vars
  <2> QED
    BY <2>1, <2>2, <2>3, <2>4, <2>5, <2>6, <2>7, <2>8, <2>9, <2>10, <2>11,
       <2>12, <2>13, <2>14, <2>15
    DEF Next, LogStep, WorkerStep, CloseStep
<1> QED
  BY <1>1, <1>2, TypeCorrect, PTL DEF Spec

-----------------------------------------------------------------------------
\* The pipeline implements the abstract log of LogService: pushing an action
\* accepts its message, WriteLogString writes the next accepted one, and no other
\* step of any thread shows.
THEOREM Refinement == Spec => ImplementsService
<1>1. Init => Service!Init
  BY DEF Init, InitAt, Service!Init
<1>2. TypeInv /\ ExactlyOnceInOrder /\ [Next]_vars => [Service!Next]_(Service!vars)
  <2> SUFFICES ASSUME TypeInv, ExactlyOnceInOrder, [Next]_vars
               PROVE  Service!Next \/ UNCHANGED <<accepted, logFile>>
    BY DEF Service!vars
  <2>1. ASSUME NEW c \in Callers, QueuePush(c)
        PROVE  Service!Accept(call[c]) /\ call[c] \in Action
    BY <2>1 DEF QueuePush, Service!Accept, TypeInv, TypeOK, HandInv, fileVars
  <2>2. CASE WorkerPop
    BY <2>2 DEF WorkerPop, fileVars
  <2>3. CASE WriteLogString
    <3>1. /\ action \in Action /\ logFile \in Seq(Action) /\ queue \in Seq(Action)
          /\ accepted = logFile \o <<action>> \o queue
          /\ logFile' = Append(logFile, action)
          /\ accepted' = accepted
      BY <2>3 DEF WriteLogString, TypeInv, TypeOK, HandInv, ExactlyOnceInOrder, InHand
    <3>2. Len(logFile) < Len(accepted) /\ accepted[Len(logFile) + 1] = action
      BY <3>1, ConcatProperties
    <3>3. Service!Write
      BY <3>1, <3>2 DEF Service!Write
    <3> QED
      BY <3>3 DEF Service!Next
  <2>4. ASSUME \A c \in Callers : ~QueuePush(c), ~WorkerPop, ~WriteLogString
        PROVE  UNCHANGED <<accepted, logFile>>
    BY <2>4, OtherSteps
  <2> QED
    BY <2>1, <2>2, <2>3, <2>4 DEF Service!Next
<1> QED
  BY <1>1, <1>2, TypeCorrect, OrderCorrect, PTL
  DEF Spec, ImplementsService, Service!Spec


-----------------------------------------------------------------------------
\* Between the decision to wait and the wait the worker holds the mutex: nobody
\* can queue or stop behind its back.
WaitInv ==
  /\ workerPc # "boot"
  /\ workerPc = "wait" => queue = <<>> /\ threadRunning

WakeupInv == WaitInv /\ NoLostWakeup /\ NoLostStop

\* No lost wakeup: once the worker has reached its first wait, it never sleeps on
\* a nonempty queue or on a cleared _threadRunning unless the notification is
\* still to come, although wait(lk) has no predicate and both notify_one calls
\* come after the mutex is released.
THEOREM WakeupCorrect == BootedSpec => [](NoLostWakeup /\ NoLostStop)
<1>1. InitBooted => TypeInv /\ MutexInv /\ WakeupInv
  BY ConstantsAssumption
  DEF InitBooted, InitAt, TypeInv, TypeOK, HandInv, MutexInv, WakeupInv, WaitInv,
      NoLostWakeup, NoLostStop, WorkerPcs, CallerPcs, CloserPcs, Threads, Worker, Closer
<1>2. TypeInv /\ MutexInv /\ WakeupInv /\ [Next]_vars => WakeupInv'
  <2> SUFFICES ASSUME TypeOK, MutexInv, WakeupInv, [Next]_vars
               PROVE  WakeupInv'
    BY DEF TypeInv
  <2>0. /\ Worker # Closer
        /\ \A c \in Callers : c # Worker /\ c # Closer
    BY ConstantsAssumption DEF Threads, Worker, Closer
  <2> USE <2>0 DEF TypeOK, MutexInv, WakeupInv, WaitInv, NoLostWakeup, NoLostStop
  <2>1. ASSUME NEW c \in Callers, NEW l \in Loggers, NEW v \in Levels,
               LogBegin(c, l, v)
        PROVE  WakeupInv'
    BY <2>1 DEF LogBegin, closerVars
  <2>2. ASSUME NEW c \in Callers, QueueLock(c)
        PROVE  WakeupInv'
    BY <2>2 DEF QueueLock, closerVars
  <2>3. ASSUME NEW c \in Callers, QueuePush(c)
        PROVE  WakeupInv'
    <3>1. workerPc # "wait" /\ callerPc'[c] = "notify"
      BY <2>3 DEF QueuePush
    <3> QED
      BY <2>3, <3>1 DEF QueuePush, closerVars
  <2>4. ASSUME NEW c \in Callers, QueueNotify(c)
        PROVE  WakeupInv'
    BY <2>4 DEF QueueNotify, NotifyOne, closerVars
  <2>5. ASSUME NEW c \in Callers, CountUp(c)
        PROVE  WakeupInv'
    BY <2>5 DEF CountUp, closerVars
  <2>6. CASE WorkerLock
    BY <2>6 DEF WorkerLock, callerVars, closerVars
  <2>7. CASE WorkerWait
    BY <2>7 DEF WorkerWait, callerVars, closerVars
  <2>8. CASE WorkerPop
    BY <2>8 DEF WorkerPop, callerVars, closerVars
  <2>9. CASE WorkerLoop
    BY <2>9 DEF WorkerLoop, callerVars, closerVars
  <2>10. CASE WriteLogString \/ WriteLevelLogString \/ CountDown \/ SpuriousWakeup
    BY <2>10 DEF WriteLogString, WriteLevelLogString, CountDown, SpuriousWakeup,
                 callerVars, closerVars
  <2>11. ASSUME NEW l \in Loggers, DestroyBegin(l) \/ DestroyEnd(l)
         PROVE  WakeupInv'
    BY <2>11 DEF DestroyBegin, DestroyEnd, callerVars, closerVars
  <2>12. CASE CloseBegin \/ CloseLock
    BY <2>12 DEF CloseBegin, CloseLock, callerVars
  <2>13. CASE CloseStop
    BY <2>13 DEF CloseStop, callerVars
  <2>14. CASE CloseNotify
    BY <2>14 DEF CloseNotify, NotifyOne, callerVars
  <2>15. CASE CloseJoin
    BY <2>15 DEF CloseJoin, callerVars
  <2>16. CASE UNCHANGED vars
    BY <2>16 DEF vars
  <2> QED
    BY <2>1, <2>2, <2>3, <2>4, <2>5, <2>6, <2>7, <2>8, <2>9, <2>10, <2>11,
       <2>12, <2>13, <2>14, <2>15, <2>16
    DEF Next, LogStep, WorkerStep, CloseStep
<1>3. WakeupInv => NoLostWakeup /\ NoLostStop
  BY DEF WakeupInv
<1> QED
  BY <1>1, <1>2, <1>3, TypeStep, MutexStep, PTL DEF BootedSpec

-----------------------------------------------------------------------------
(***************************************************************************)
(* Remainders by an arbitrary modulus.                                     *)
(***************************************************************************)
LEMMA MultipleAtLeast ==
  ASSUME NEW M \in Nat \ {0}, NEW q \in Int, q >= 1
  PROVE  M * q >= M
OBVIOUS

LEMMA MultipleAtMost ==
  ASSUME NEW M \in Nat \ {0}, NEW q \in Int, q <= -1
  PROVE  M * q <= -M
OBVIOUS

\* Quotient and remainder are unique.
LEMMA ModUnique ==
  ASSUME NEW M \in Nat \ {0}, NEW y \in Int, NEW q \in Int, NEW r \in 0..(M - 1),
         y = M * q + r
  PROVE  y % M = r
<1> DEFINE p == y \div M
           s == y % M
<1>1. s \in 0..(M - 1) /\ y = M * p + s /\ p \in Int
  BY ModRange
<1>2. M * (q - p) = s - r
  BY <1>1
<1>3. q - p = 0
  BY <1>1, <1>2, MultipleAtLeast, MultipleAtMost
<1> QED
  BY <1>1, <1>2, <1>3

\* Adding to a remainder and reducing again: ++ and -- on an unsigned int.
LEMMA ModAdd ==
  ASSUME NEW M \in Nat \ {0}, NEW y \in Int, NEW d \in Int
  PROVE  ((y % M) + d) % M = (y + d) % M
<1> DEFINE p == y \div M
           s == y % M
           u == (s + d) \div M
           t == (s + d) % M
<1>1. s \in 0..(M - 1) /\ y = M * p + s /\ p \in Int
  BY ModRange
<1>2. t \in 0..(M - 1) /\ s + d = M * u + t /\ u \in Int
  <2>1. s + d \in Int
    BY <1>1
  <2> HIDE DEF s
  <2> QED
    BY <2>1, ModRange
<1> HIDE DEF p, s, u, t
<1>3. y + d = M * (p + u) + t /\ p + u \in Int /\ y + d \in Int
  BY <1>1, <1>2
<1>4. (y + d) % M = t
  BY <1>2, <1>3, ModUnique
<1> QED
  BY <1>4 DEF s, t

LEMMA ModSmall ==
  ASSUME NEW M \in Nat \ {0}, NEW y \in 0..(M - 1)
  PROVE  y % M = y
<1>1. y = M * 0 + y
  OBVIOUS
<1> QED
  BY <1>1, ModUnique

-----------------------------------------------------------------------------
(***************************************************************************)
(* Counting the positions of a queue that hold an action of a logger.      *)
(***************************************************************************)
Positions(q, l) == {i \in 1..Len(q) : q[i].logger = l}

LEMMA PositionsFinite ==
  ASSUME NEW q \in Seq(Action), NEW l
  PROVE  /\ IsFiniteSet(Positions(q, l))
         /\ Cardinality(Positions(q, l)) \in Nat
         /\ Cardinality(Positions(q, l)) <= Len(q)
<1>1. IsFiniteSet(1..Len(q)) /\ Cardinality(1..Len(q)) = Len(q)
  <2> DEFINE n == Len(q)
  <2>1. n \in Nat
    OBVIOUS
  <2> HIDE DEF n
  <2>2. IsFiniteSet(1..n) /\ Cardinality(1..n) = IF 1 > n THEN 0 ELSE n - 1 + 1
    BY ONLY <2>1, 1 \in Int, n \in Int, FS_Interval
  <2>3. (IF 1 > n THEN 0 ELSE n - 1 + 1) = n
    BY ONLY <2>1
  <2> QED
    BY <2>2, <2>3 DEF n
<1>2. Positions(q, l) \in SUBSET (1..Len(q))
  BY DEF Positions
<1> QED
  BY <1>1, <1>2, FS_Subset, FS_CardinalityType

\* Pushing an action of logger m adds one position of m and none of another.
LEMMA CountPush ==
  ASSUME NEW q \in Seq(Action), NEW a \in Action, NEW l
  PROVE  Cardinality(Positions(Append(q, a), l))
           = Cardinality(Positions(q, l)) + (IF a.logger = l THEN 1 ELSE 0)
<1> DEFINE n == Len(q) + 1
<1>1. /\ IsFiniteSet(Positions(q, l))
      /\ Cardinality(Positions(q, l)) \in Nat
      /\ n \notin Positions(q, l)
  <2>1. n \notin Positions(q, l)
    BY DEF Positions
  <2> QED
    BY <2>1, PositionsFinite
<1>2. CASE a.logger = l
  <2>1. Positions(Append(q, a), l) = Positions(q, l) \cup {n}
    <3>1. /\ Len(Append(q, a)) = n
          /\ \A i \in 1..Len(q) : Append(q, a)[i] = q[i]
          /\ Append(q, a)[n] = a
          /\ Len(q) \in Nat
      BY AppendProperties
    <3>2. 1..n = (1..Len(q)) \cup {n} /\ n \notin 1..Len(q)
      BY <3>1
    <3> HIDE DEF n
    <3> QED
      BY <1>2, <3>1, <3>2 DEF Positions
  <2> QED
    BY <1>1, <1>2, <2>1, FS_AddElement
<1>3. CASE a.logger # l
  <2>1. Positions(Append(q, a), l) = Positions(q, l)
    BY <1>3 DEF Positions
  <2> QED
    BY <1>1, <1>3, <2>1
<1> QED
  BY <1>2, <1>3

\* Popping the front shifts the other positions down by one.
LEMMA CountPop ==
  ASSUME NEW q \in Seq(Action), NEW l, q # <<>>
  PROVE  Cardinality(Positions(q, l))
           = Cardinality(Positions(Tail(q), l)) + (IF Head(q).logger = l THEN 1 ELSE 0)
<1> DEFINE S == Positions(Tail(q), l)
           T == Positions(q, l) \ {1}
           f == [i \in S |-> i + 1]
<1>1. /\ Tail(q) \in Seq(Action)
      /\ Len(q) \in Nat \ {0}
      /\ Len(Tail(q)) = Len(q) - 1
      /\ \A i \in 1..(Len(q) - 1) : Tail(q)[i] = q[i + 1]
      /\ Head(q) = q[1]
  BY HeadTailProperties
<1>2. f \in Bijection(S, T)
  <2>1. f \in [S -> T]
    BY <1>1 DEF Positions
  <2>2. \A a, b \in S : f[a] = f[b] => a = b
    BY DEF Positions
  <2>3. \A t \in T : \E s \in S : f[s] = t
    <3> SUFFICES ASSUME NEW t \in T
                 PROVE  t - 1 \in S /\ f[t - 1] = t
      OBVIOUS
    <3> QED
      BY <1>1 DEF Positions
  <2> HIDE DEF S, T, f
  <2> QED
    BY <2>1, <2>2, <2>3, Fun_IsBij
<1>3. IsFiniteSet(S) /\ IsFiniteSet(Positions(q, l))
      /\ Cardinality(Positions(q, l)) \in Nat
  BY <1>1, PositionsFinite
<1>4. Cardinality(T) = Cardinality(S)
  <2>1. ExistsBijection(S, T)
    BY <1>2, Fun_ExistsBij
  <2> HIDE DEF S, T
  <2> QED
    BY <1>3, <2>1, FS_Bijection
<1>5. Cardinality(T) = IF 1 \in Positions(q, l)
                         THEN Cardinality(Positions(q, l)) - 1
                         ELSE Cardinality(Positions(q, l))
  BY <1>3, FS_RemoveElement
<1>6. 1 \in Positions(q, l) <=> Head(q).logger = l
  BY <1>1 DEF Positions
<1> QED
  BY <1>3, <1>4, <1>5, <1>6

-----------------------------------------------------------------------------
(***************************************************************************)
(* The counter.                                                            *)
(***************************************************************************)
Balance(l) == Pending(l) - Cardinality(UncountedOf(l))

LEMMA UncountedFinite ==
  ASSUME NEW l
  PROVE  IsFiniteSet(UncountedOf(l)) /\ Cardinality(UncountedOf(l)) \in Nat
<1>1. UncountedOf(l) \in SUBSET Callers
  BY DEF UncountedOf
<1> QED
  BY <1>1, ConstantsAssumption, FS_Subset, FS_CardinalityType

LEMMA PendingIsNat ==
  ASSUME TypeOK, NEW l
  PROVE  Pending(l) \in Nat /\ Pending(l) <= Len(queue) + 1
<1>1. queue \in Seq(Action) /\ QueuedOf(l) = Positions(queue, l)
  BY DEF TypeOK, QueuedOf, Positions
<1>2. Cardinality(QueuedOf(l)) \in Nat /\ Cardinality(QueuedOf(l)) <= Len(queue)
  BY <1>1, PositionsFinite
<1> QED
  BY <1>1, <1>2 DEF Pending

LEMMA BalanceIsInt == TypeOK => \A l \in Loggers : Balance(l) \in Int
BY PendingIsNat, UncountedFinite DEF Balance

\* A step that leaves the queue, the worker's action and the counters alone and
\* moves no caller into or out of the window between push and count.
LEMMA BalanceKept ==
  ASSUME NEW l \in Loggers,
         UNCHANGED <<queue, action>>, UncountedOf(l)' = UncountedOf(l)
  PROVE  Balance(l)' = Balance(l)
BY DEF Balance, Pending, QueuedOf, InAction

\* QueuePush adds an action and a caller that has still to count it.
LEMMA BalancePush ==
  ASSUME TypeInv, NEW c \in Callers, QueuePush(c), NEW l \in Loggers
  PROVE  Balance(l)' = Balance(l)
<1> DEFINE one == IF call[c].logger = l THEN 1 ELSE 0
<1>1. /\ call[c] \in Action
      /\ queue \in Seq(Action)
      /\ queue' = Append(queue, call[c])
      /\ UNCHANGED <<action, call>>
      /\ callerPc[c] = "push"
      /\ callerPc' = [callerPc EXCEPT ![c] = "notify"]
      /\ callerPc \in [Callers -> CallerPcs]
  BY DEF QueuePush, TypeInv, TypeOK, HandInv
<1>2. Cardinality(QueuedOf(l)') = Cardinality(QueuedOf(l)) + one
  <2>1. QueuedOf(l)' = Positions(Append(queue, call[c]), l)
        /\ QueuedOf(l) = Positions(queue, l)
    BY <1>1 DEF QueuedOf, Positions
  <2> QED
    BY <1>1, <2>1, CountPush
<1>3. Cardinality(QueuedOf(l)) \in Nat
  BY <1>1, PositionsFinite DEF QueuedOf, Positions
<1>4. c \notin UncountedOf(l)
  BY <1>1 DEF UncountedOf
<1>5. Cardinality(UncountedOf(l)') = Cardinality(UncountedOf(l)) + one
  <2>1. CASE call[c].logger = l
    <3>1. call[c] # NoAction
      BY <1>1, NoActionAssumption
    <3>2. UncountedOf(l)' = UncountedOf(l) \cup {c}
      BY <1>1, <2>1, <3>1 DEF UncountedOf, InCall
    <3> QED
      BY <1>4, <2>1, <3>2, UncountedFinite, FS_AddElement
  <2>2. CASE call[c].logger # l
    <3>1. UncountedOf(l)' = UncountedOf(l)
      BY <1>1, <2>2 DEF UncountedOf, InCall
    <3> QED
      BY <2>2, <3>1, UncountedFinite
  <2> QED
    BY <2>1, <2>2
<1>6. InAction(l)' = InAction(l)
  BY <1>1 DEF InAction
<1> HIDE DEF one
<1>7. one \in Int
  BY DEF one
<1> QED
  BY <1>2, <1>3, <1>5, <1>6, <1>7, UncountedFinite DEF Balance, Pending

\* CountUp takes a caller out of that window.
LEMMA BalanceCountUp ==
  ASSUME TypeInv, NEW c \in Callers, CountUp(c), NEW l \in Loggers
  PROVE  Balance(l)' = Balance(l) + (IF call[c].logger = l THEN 1 ELSE 0)
<1>1. /\ call[c] \in Action /\ call[c] # NoAction
      /\ call \in [Callers -> Action \cup {NoAction}]
      /\ call' = [call EXCEPT ![c] = NoAction]
      /\ callerPc[c] = "count"
      /\ callerPc' = [callerPc EXCEPT ![c] = "idle"]
      /\ callerPc \in [Callers -> CallerPcs]
      /\ UNCHANGED <<queue, action>>
  BY DEF CountUp, TypeInv, TypeOK, HandInv
<1>2. Pending(l)' = Pending(l) /\ Pending(l) \in Nat
  BY <1>1, PendingIsNat DEF Pending, QueuedOf, InAction, TypeInv
<1>3. CASE call[c].logger = l
  <2>1. UncountedOf(l)' = UncountedOf(l) \ {c} /\ c \in UncountedOf(l)
    BY <1>1, <1>3 DEF UncountedOf, InCall
  <2>2. Cardinality(UncountedOf(l)') = Cardinality(UncountedOf(l)) - 1
    BY <2>1, UncountedFinite, FS_RemoveElement
  <2> QED
    BY <1>2, <1>3, <2>2, UncountedFinite DEF Balance
<1>4. CASE call[c].logger # l
  <2>1. UncountedOf(l)' = UncountedOf(l)
    BY <1>1, <1>4 DEF UncountedOf, InCall
  <2> QED
    BY <1>2, <1>4, <2>1, UncountedFinite DEF Balance
<1> QED
  BY <1>3, <1>4

\* WorkerPop moves an action from the queue to the worker's hand.
LEMMA BalancePop ==
  ASSUME TypeInv, WorkerPop, NEW l \in Loggers
  PROVE  Balance(l)' = Balance(l)
<1>1. /\ queue \in Seq(Action) /\ queue # <<>>
      /\ action = NoAction
      /\ action' = Head(queue) /\ queue' = Tail(queue)
      /\ UNCHANGED <<callerPc, call>>
  BY DEF WorkerPop, TypeInv, TypeOK, HandInv, callerVars
<1>2. Head(queue) \in Action /\ Head(queue) # NoAction /\ Tail(queue) \in Seq(Action)
  BY <1>1, HeadTailProperties, NoActionAssumption
<1>3. Cardinality(QueuedOf(l)) = Cardinality(QueuedOf(l)')
                                   + (IF Head(queue).logger = l THEN 1 ELSE 0)
  <2>1. QueuedOf(l) = Positions(queue, l) /\ QueuedOf(l)' = Positions(Tail(queue), l)
    BY <1>1 DEF QueuedOf, Positions
  <2> QED
    BY <1>1, <2>1, CountPop
<1>4. Cardinality(QueuedOf(l)') \in Nat
  BY <1>1, <1>2, PositionsFinite DEF QueuedOf, Positions
<1>5. Pending(l)' = Pending(l)
  BY <1>1, <1>2, <1>3, <1>4 DEF Pending, InAction
<1>6. UncountedOf(l)' = UncountedOf(l)
  BY <1>1 DEF UncountedOf, InCall
<1> QED
  BY <1>5, <1>6 DEF Balance

\* CountDown ends the action in hand.
LEMMA BalanceCountDown ==
  ASSUME TypeInv, CountDown, NEW l \in Loggers
  PROVE  Balance(l)' = Balance(l) - (IF action.logger = l THEN 1 ELSE 0)
<1>1. /\ queue \in Seq(Action)
      /\ action # NoAction /\ action' = NoAction
      /\ UNCHANGED <<queue, callerPc, call>>
  BY DEF CountDown, TypeInv, TypeOK, HandInv, callerVars
<1>2. Cardinality(QueuedOf(l)') = Cardinality(QueuedOf(l))
      /\ Cardinality(QueuedOf(l)) \in Nat
  BY <1>1, PositionsFinite DEF QueuedOf, Positions
<1>3. UncountedOf(l)' = UncountedOf(l)
  BY <1>1 DEF UncountedOf, InCall
<1> QED
  BY <1>1, <1>2, <1>3, UncountedFinite DEF Balance, Pending, InAction


\* No other step touches what the counters and the balance are made of.
LEMMA BalanceOther ==
  ASSUME TypeInv, [Next]_vars, NEW l \in Loggers,
         \A c \in Callers : ~QueuePush(c) /\ ~CountUp(c),
         ~WorkerPop, ~CountDown
  PROVE  Balance(l)' = Balance(l) /\ logCounter' = logCounter
<1> USE DEF TypeInv, TypeOK, HandInv
<1>1. ASSUME NEW c \in Callers, NEW m \in Loggers, NEW v \in Levels,
             LogBegin(c, m, v)
      PROVE  UNCHANGED <<queue, action, logCounter>> /\ UncountedOf(l)' = UncountedOf(l)
  BY <1>1 DEF LogBegin, UncountedOf, InCall
<1>2. ASSUME NEW c \in Callers, QueueLock(c) \/ QueueNotify(c)
      PROVE  UNCHANGED <<queue, action, logCounter>> /\ UncountedOf(l)' = UncountedOf(l)
  BY <1>2 DEF QueueLock, QueueNotify, UncountedOf, InCall
<1>3. ASSUME UNCHANGED <<queue, action, logCounter, callerPc, call>>
      PROVE  UNCHANGED <<queue, action, logCounter>> /\ UncountedOf(l)' = UncountedOf(l)
  BY <1>3 DEF UncountedOf, InCall
<1>4. CASE WorkerLock \/ WorkerWait \/ WorkerLoop \/ SpuriousWakeup
           \/ WriteLogString \/ WriteLevelLogString
  BY <1>3, <1>4, BalanceKept
  DEF WorkerLock, WorkerWait, WorkerLoop, SpuriousWakeup, WriteLogString,
      WriteLevelLogString, callerVars
<1>5. ASSUME NEW m \in Loggers, DestroyBegin(m) \/ DestroyEnd(m)
      PROVE  Balance(l)' = Balance(l) /\ logCounter' = logCounter
  BY <1>3, <1>5, BalanceKept DEF DestroyBegin, DestroyEnd, callerVars
<1>6. CASE CloseBegin \/ CloseStep
  BY <1>3, <1>6, BalanceKept
  DEF CloseBegin, CloseStep, CloseLock, CloseStop, CloseNotify, CloseJoin, callerVars
<1>7. CASE UNCHANGED vars
  BY <1>3, <1>7, BalanceKept DEF vars
<1> QED
  BY <1>1, <1>2, <1>4, <1>5, <1>6, <1>7, BalanceKept DEF Next, LogStep, WorkerStep

\* _logCounter is, at every moment and for every interleaving of the late
\* ++_logCounter of Log with the worker's --_logCounter, the number of pending
\* actions less the number of calls that have still to count theirs.
THEOREM CounterCorrect == Spec => []CounterExact
<1>0. CounterMod \in Nat \ {0}
  BY ConstantsAssumption
<1> USE DEF Balance
<1>1. Init => CounterExact
  <2> SUFFICES ASSUME Init, NEW l \in Loggers
               PROVE  logCounter[l] = Balance(l) % CounterMod
    BY DEF CounterExact
  <2>1. QueuedOf(l) = {} /\ UncountedOf(l) = {} /\ ~InAction(l)
    BY DEF Init, InitAt, QueuedOf, UncountedOf, InAction
  <2>2. Balance(l) = 0
    BY <2>1, FS_EmptySet DEF Pending
  <2>3. 0 % CounterMod = 0
    BY <1>0, ModSmall
  <2> QED
    BY <2>2, <2>3 DEF Init, InitAt
<1>2. TypeInv /\ CounterExact /\ [Next]_vars => CounterExact'
  <2> SUFFICES ASSUME TypeInv, CounterExact, [Next]_vars, NEW l \in Loggers
               PROVE  logCounter'[l] = (Balance(l)') % CounterMod
    BY DEF CounterExact
  <2> HIDE DEF Balance
  <2>0. /\ logCounter[l] = Balance(l) % CounterMod
        /\ Balance(l) \in Int
        /\ logCounter \in [Loggers -> 0..(CounterMod - 1)]
    BY BalanceIsInt DEF CounterExact, Balance, TypeInv, TypeOK
  <2>1. ASSUME NEW c \in Callers, QueuePush(c)
        PROVE  logCounter'[l] = (Balance(l)') % CounterMod
    BY <2>0, <2>1, BalancePush DEF QueuePush
  <2>2. ASSUME NEW c \in Callers, CountUp(c)
        PROVE  logCounter'[l] = (Balance(l)') % CounterMod
    <3>1. CASE call[c].logger = l
      <4>1. logCounter'[l] = (logCounter[l] + 1) % CounterMod
        BY <2>0, <2>2, <3>1 DEF CountUp
      <4>2. Balance(l)' = Balance(l) + 1
        BY <2>2, <3>1, BalanceCountUp
      <4> QED
        BY <1>0, <2>0, <4>1, <4>2, ModAdd
    <3>2. CASE call[c].logger # l
      <4>1. logCounter'[l] = logCounter[l]
        BY <2>0, <2>2, <3>2 DEF CountUp
      <4>2. Balance(l)' = Balance(l)
        BY <2>0, <2>2, <3>2, BalanceCountUp
      <4> QED
        BY <2>0, <4>1, <4>2
    <3> QED
      BY <3>1, <3>2
  <2>3. CASE WorkerPop
    BY <2>0, <2>3, BalancePop DEF WorkerPop
  <2>4. CASE CountDown
    <3>1. CASE action.logger = l
      <4>1. logCounter'[l] = (logCounter[l] + (-1)) % CounterMod
        BY <2>0, <2>4, <3>1 DEF CountDown
      <4>2. Balance(l)' = Balance(l) + (-1)
        BY <2>0, <2>4, <3>1, BalanceCountDown
      <4> QED
        BY <1>0, <2>0, <4>1, <4>2, ModAdd
    <3>2. CASE action.logger # l
      <4>1. logCounter'[l] = logCounter[l]
        BY <2>0, <2>4, <3>2 DEF CountDown
      <4>2. Balance(l)' = Balance(l)
        BY <2>0, <2>4, <3>2, BalanceCountDown
      <4> QED
        BY <2>0, <4>1, <4>2
    <3> QED
      BY <3>1, <3>2
  <2>5. ASSUME \A c \in Callers : ~QueuePush(c) /\ ~CountUp(c), ~WorkerPop, ~CountDown
        PROVE  logCounter'[l] = (Balance(l)') % CounterMod
    BY <2>0, <2>5, BalanceOther
  <2> QED
    BY <2>1, <2>2, <2>3, <2>4, <2>5
<1> QED
  BY <1>1, <1>2, TypeCorrect, PTL DEF Spec

-----------------------------------------------------------------------------
\* The queue never holds more actions than there is memory for.
BoundInv == Len(queue) <= MaxQueue

LEMMA QueueBounded == Spec => []BoundInv
<1>1. Init => BoundInv
  BY ConstantsAssumption DEF Init, InitAt, BoundInv
<1>2. TypeInv /\ BoundInv /\ [Next]_vars => BoundInv'
  <2> SUFFICES ASSUME TypeInv, BoundInv, [Next]_vars
               PROVE  BoundInv'
    OBVIOUS
  <2> USE DEF TypeInv, TypeOK, BoundInv
  <2>1. ASSUME NEW c \in Callers, QueuePush(c)
        PROVE  BoundInv'
    <3>1. Len(queue') = Len(queue) + 1
      BY <2>1, AppendProperties DEF QueuePush, HandInv
    <3> QED
      BY <2>1, <3>1, ConstantsAssumption DEF QueuePush
  <2>2. CASE WorkerPop
    <3>1. Len(queue') = Len(queue) - 1
      BY <2>2, HeadTailProperties DEF WorkerPop
    <3> QED
      BY <3>1, ConstantsAssumption
  <2>3. CASE WriteLogString
    BY <2>3 DEF WriteLogString
  <2>4. ASSUME \A c \in Callers : ~QueuePush(c), ~WorkerPop, ~WriteLogString
        PROVE  BoundInv'
    BY <2>4, OtherSteps
  <2> QED
    BY <2>1, <2>2, <2>3, <2>4
<1> QED
  BY <1>1, <1>2, TypeCorrect, PTL DEF Spec

\* A counter of zero means what ~Logger takes it to mean, once nobody is inside
\* Log on that logger: no action holds a pointer to it.  The bound on the queue
\* is what keeps the counter from coming back to zero by overflow.
LEMMA ZeroMeansIdle ==
  ASSUME TypeInv, CounterExact, BoundInv, NEW l \in Loggers,
         \A c \in Callers : ~InCall(c, l)
  PROVE  logCounter[l] = 0 <=> QueuedOf(l) = {} /\ ~InAction(l)
<1>0. CounterMod \in Nat \ {0} /\ MaxQueue + 1 < CounterMod /\ MaxQueue \in Nat
  BY ConstantsAssumption
<1>1. queue \in Seq(Action) /\ Len(queue) \in Nat
  BY DEF TypeInv, TypeOK
<1>2. UncountedOf(l) = {}
  BY DEF UncountedOf
<1>3. Pending(l) \in Nat /\ Pending(l) <= Len(queue) + 1
  BY PendingIsNat DEF TypeInv
<1>4. logCounter[l] = Pending(l)
  <2>1. Pending(l) \in 0..(CounterMod - 1)
    BY <1>0, <1>1, <1>3 DEF BoundInv
  <2>2. logCounter[l] = Pending(l) % CounterMod
    <3>1. Cardinality(UncountedOf(l)) = 0
      BY <1>2, FS_EmptySet
    <3>2. Pending(l) - 0 = Pending(l)
      BY <1>3
    <3> QED
      BY <3>1, <3>2 DEF CounterExact
  <2> QED
    BY <1>0, <2>1, <2>2, ModSmall
<1>5. /\ IsFiniteSet(QueuedOf(l))
      /\ Cardinality(QueuedOf(l)) \in Nat
  BY <1>1, PositionsFinite DEF QueuedOf, Positions
<1>6. Pending(l) = 0 <=> QueuedOf(l) = {} /\ ~InAction(l)
  BY <1>5, FS_EmptySet DEF Pending
<1> QED
  BY <1>4, <1>6


-----------------------------------------------------------------------------
\* No use after free: once ~Logger is over, no queued action, no running action
\* and no call of Log refers to the logger's memory.
THEOREM LifetimeCorrect == Spec => []NoUseAfterFree
<1>1. Init => NoUseAfterFree
  BY DEF Init, InitAt, NoUseAfterFree
<1>2. TypeInv /\ CounterExact /\ BoundInv /\ QuietInv /\ QuietInv' /\ NoUseAfterFree
        /\ [Next]_vars => NoUseAfterFree'
  <2> SUFFICES ASSUME TypeInv, CounterExact, BoundInv, QuietInv, QuietInv',
                      NoUseAfterFree, [Next]_vars,
                      NEW l \in Loggers, loggerState'[l] = "freed"
               PROVE  QueuedOf(l)' = {} /\ ~InAction(l)'
    BY DEF NoUseAfterFree, QuietInv
  <2>0. /\ queue \in Seq(Action)
        /\ loggerState \in [Loggers -> {"live", "dying", "freed"}]
        /\ call \in [Callers -> Action \cup {NoAction}]
        /\ \A c \in Callers : call[c] # NoAction <=> callerPc[c] # "idle"
    BY DEF TypeInv, TypeOK, HandInv
  <2>1. CASE loggerState[l] = "freed"
    <3>0. QueuedOf(l) = {} /\ ~InAction(l) /\ \A c \in Callers : ~InCall(c, l)
      BY <2>1 DEF NoUseAfterFree
    <3>1. ASSUME NEW c \in Callers, QueuePush(c)
          PROVE  QueuedOf(l)' = {} /\ ~InAction(l)'
      <4>1. /\ call[c] \in Action /\ call[c].logger # l
            /\ queue' = Append(queue, call[c])
            /\ action' = action
        BY <2>0, <3>0, <3>1, NoActionAssumption DEF QueuePush, InCall
      <4>2. \A i \in 1..Len(queue) : queue[i].logger # l
        BY <3>0 DEF QueuedOf
      <4>3. \A i \in 1..Len(queue') : queue'[i].logger # l
        BY <2>0, <4>1, <4>2, AppendProperties
      <4> QED
        BY <3>0, <4>1, <4>3 DEF QueuedOf, InAction
    <3>2. CASE WorkerPop
      <4>1. \A i \in 1..Len(queue) : queue[i].logger # l
        BY <3>0 DEF QueuedOf
      <4>2. queue # <<>> /\ action' = Head(queue) /\ queue' = Tail(queue)
        BY <3>2 DEF WorkerPop
      <4>3. Head(queue).logger # l
        BY <2>0, <4>1, <4>2
      <4>4. \A i \in 1..Len(queue') : queue'[i].logger # l
        BY <2>0, <4>1, <4>2, HeadTailProperties
      <4> QED
        BY <4>2, <4>3, <4>4 DEF QueuedOf, InAction
    <3>3. CASE CountDown
      BY <3>0, <3>3 DEF CountDown, QueuedOf, InAction
    <3>4. ASSUME \A c \in Callers : ~QueuePush(c), ~WorkerPop, ~CountDown
          PROVE  UNCHANGED <<queue, action>>
      BY <3>4
      DEF Next, LogBegin, LogStep, QueueLock, QueueNotify, CountUp,
          WorkerStep, WorkerLock, WorkerWait, WorkerLoop, WriteLogString,
          WriteLevelLogString, SpuriousWakeup, DestroyBegin, DestroyEnd, CloseBegin,
          CloseStep, CloseLock, CloseStop, CloseNotify, CloseJoin, vars
    <3> QED
      BY <3>0, <3>1, <3>2, <3>3, <3>4 DEF QueuedOf, InAction
  <2>2. CASE loggerState[l] # "freed"
    <3>1. DestroyEnd(l)
      BY <2>0, <2>2
      DEF Next, LogBegin, LogStep, QueueLock, QueuePush, QueueNotify, CountUp,
          WorkerStep, WorkerLock, WorkerWait, WorkerPop, WorkerLoop, WriteLogString,
          WriteLevelLogString, CountDown, SpuriousWakeup, DestroyBegin, DestroyEnd,
          CloseBegin, CloseStep, CloseLock, CloseStop, CloseNotify, CloseJoin, vars
    <3>2. \A c \in Callers : ~InCall(c, l)
      BY <3>1 DEF DestroyEnd, QuietInv
    <3>3. logCounter[l] = 0 /\ UNCHANGED <<queue, action>>
      BY <3>1 DEF DestroyEnd
    <3>4. QueuedOf(l) = {} /\ ~InAction(l)
      BY <3>2, <3>3, ZeroMeansIdle
    <3> QED
      BY <3>3, <3>4 DEF QueuedOf, InAction
  <2> QED
    BY <2>1, <2>2
<1> QED
  BY <1>1, <1>2, TypeCorrect, CounterCorrect, QueueBounded, QuietCorrect, PTL DEF Spec

\* The shutdown drains the queue: when the worker thread has ended, every message
\* that was accepted is in its file and every counter is zero, so the destructor
\* of the internal logger, and of any plugin's logger, ends at once.
THEOREM ShutdownCorrect == Spec => []ShutdownDrained
<1>1. TypeInv /\ QuietInv /\ StopInv /\ BoundInv /\ CounterExact /\ ExactlyOnceInOrder
        => ShutdownDrained
  <2> SUFFICES ASSUME TypeInv, QuietInv, StopInv, BoundInv, CounterExact,
                      ExactlyOnceInOrder, workerPc = "exited"
               PROVE  logFile = accepted /\ \A l \in Loggers : logCounter[l] = 0
    BY DEF ShutdownDrained
  <2>1. queue = <<>> /\ action = NoAction /\ InHand = <<>> /\ logFile \in Seq(Action)
    BY DEF StopInv, TypeInv, TypeOK, HandInv, InHand
  <2>2. \A c \in Callers : call[c] = NoAction
    BY DEF StopInv, QuietInv, TypeInv, TypeOK, HandInv, CloserPcs
  <2>3. logFile = accepted
    BY <2>1, ConcatEmptySeq DEF ExactlyOnceInOrder
  <2>4. ASSUME NEW l \in Loggers
        PROVE  logCounter[l] = 0
    <3>1. \A c \in Callers : ~InCall(c, l)
      BY <2>2 DEF InCall
    <3>2. QueuedOf(l) = {} /\ ~InAction(l)
      BY <2>1 DEF QueuedOf, InAction
    <3> QED
      BY <3>1, <3>2, ZeroMeansIdle
  <2> QED
    BY <2>3, <2>4
<1> QED
  BY <1>1, TypeCorrect, QuietCorrect, QueueBounded, CounterCorrect, OrderCorrect, PTL

\* All of it together is the inductive invariant that TLC checks.
THEOREM InductiveInvCorrect == Spec => []InductiveInv
<1>1. TypeInv /\ MutexInv /\ QuietInv /\ StopInv /\ BoundInv /\ CounterExact
        /\ NoUseAfterFree /\ ExactlyOnceInOrder => InductiveInv
  BY DEF TypeInv, BoundInv, InductiveInv
<1> QED
  BY <1>1, TypeCorrect, MutexCorrect, QuietCorrect, QueueBounded, CounterCorrect,
     LifetimeCorrect, OrderCorrect, PTL

=============================================================================
