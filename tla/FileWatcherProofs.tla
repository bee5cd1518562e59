-------------------------- MODULE FileWatcherProofs --------------------------
(***************************************************************************)
(* Theorems about FileWatcher, for every set of events and every bound:    *)
(* type correctness, that batching and debouncing lose no change beyond    *)
(* the debounce window, and that no reload outlives the destructor.        *)
(***************************************************************************)
EXTENDS FileWatcher, TLAPS

\* What holds at every step between two idle states of the thread, and makes
\* FreshWhenIdle inductive: a change that is not loaded is still to be seen
\* among the events, or is being loaded, or the debouncing drops it.
Reported(s) == \E i \in 1..Len(s) : s[i] = "config"

FreshInv ==
  Watched => \/ loaded = content
             \/ changedAt - lastRun <= Window
             \/ Reported(queued)
             \/ watcher = "event" /\ Reported(buf)
             \/ watcher = "callback"

\* The thread handles an event only if there is one.
BufInv == /\ watcher \in {"event", "callback"} => buf # <<>>
          /\ watcher \in {"boot", "select"} => buf = <<>>

IInv == TypeOK /\ BufInv /\ FreshInv /\ NoReloadAfterJoin

-----------------------------------------------------------------------------
LEMMA TypeStep == ASSUME TypeOK, BufInv, [Next]_vars PROVE TypeOK' /\ BufInv'
<1> USE WatcherAssumption DEF TypeOK, BufInv, EventKinds
<1>1. CASE Tick
  BY <1>1 DEF Tick, fileVars, threadVars
<1>2. CASE WriteConfig
  BY <1>2 DEF WriteConfig, Report, Watched, threadVars
<1>3. ASSUME NEW k \in Kinds, OtherEvent(k) PROVE TypeOK' /\ BufInv'
  BY <1>3 DEF OtherEvent, Report, Watched, threadVars, fileVars
<1>4. CASE WatcherFails
  BY <1>4 DEF WatcherFails, fileVars
<1>5. CASE AddWatch
  BY <1>5 DEF AddWatch, fileVars
<1>6. CASE SelectStops
  BY <1>6 DEF SelectStops, fileVars
<1>7. CASE ReadEvents
  BY <1>7 DEF ReadEvents, fileVars
<1>8. CASE IgnoreEvent
  BY <1>8 DEF IgnoreEvent, AfterEvent, fileVars
<1>9. CASE WatchRemoved
  BY <1>9 DEF WatchRemoved, fileVars
<1>10. CASE CallBack
  BY <1>10 DEF CallBack, fileVars
<1>11. CASE Reload
  BY <1>11 DEF Reload, AfterEvent, fileVars
<1>12. CASE Stop
  BY <1>12 DEF Stop, fileVars, threadVars
<1>13. CASE Join
  BY <1>13 DEF Join, fileVars, threadVars
<1>14. CASE UNCHANGED vars
  BY <1>14 DEF vars, fileVars, threadVars
<1> QED
  BY <1>1, <1>2, <1>3, <1>4, <1>5, <1>6, <1>7, <1>8, <1>9, <1>10, <1>11, <1>12,
     <1>13, <1>14 DEF Next, WatcherStep

-----------------------------------------------------------------------------
LEMMA ReportedAppend ==
  ASSUME NEW s \in Seq(EventKinds), NEW k \in EventKinds, Reported(s)
  PROVE  Reported(Append(s, k))
<1>1. PICK i \in 1..Len(s) : s[i] = "config"
  BY DEF Reported
<1>2. i \in 1..Len(Append(s, k)) /\ Append(s, k)[i] = "config"
  BY <1>1
<1> QED
  BY <1>2 DEF Reported

LEMMA NonEmpty == ASSUME NEW t, Len(t) # 0 PROVE t # <<>>
OBVIOUS

LEMMA ReportedTail ==
  ASSUME NEW s \in Seq(EventKinds), s # <<>>, Head(s) # "config", Reported(s)
  PROVE  Reported(Tail(s)) /\ Tail(s) # <<>>
<1>1. PICK i \in 1..Len(s) : s[i] = "config"
  BY DEF Reported
<1>2. i # 1 /\ Len(Tail(s)) = Len(s) - 1
  BY <1>1
<1>3. i - 1 \in 1..Len(Tail(s)) /\ Tail(s)[i - 1] = "config"
  BY <1>1, <1>2
<1>4. Reported(Tail(s))
  BY <1>3 DEF Reported
<1>5. Len(Tail(s)) # 0
  BY <1>1, <1>2
<1>6. Tail(s) # <<>>
  BY <1>5, NonEmpty
<1> QED
  BY <1>4, <1>6

LEMMA FreshStep == ASSUME TypeOK, BufInv, FreshInv, TypeOK', [Next]_vars PROVE FreshInv'
<1> USE WatcherAssumption DEF TypeOK, FreshInv, Watched
<1>1. CASE Tick
  BY <1>1 DEF Tick, fileVars, threadVars, Reported
<1>2. CASE WriteConfig
  <2>1. CASE ~Watched
    BY <1>2, <2>1 DEF WriteConfig, threadVars
  <2>2. CASE Watched
    <3>1. queued' = Append(queued, "config")
      BY <1>2, <2>2 DEF WriteConfig, Report
    <3>2. Len(queued') \in 1..Len(queued') /\ queued'[Len(queued')] = "config"
      BY <3>1 DEF EventKinds
    <3>3. Reported(queued')
      BY <3>2 DEF Reported
    <3> QED
      BY <3>3
  <2> QED
    BY <2>1, <2>2
<1>3. ASSUME NEW k \in Kinds, OtherEvent(k) PROVE FreshInv'
  <2>1. queued' = Append(queued, k) /\ k \in EventKinds
    BY <1>3 DEF OtherEvent, Report
  <2>2. Reported(queued) => Reported(queued')
    BY <2>1, ReportedAppend
  <2> QED
    BY <1>3, <2>2 DEF OtherEvent, threadVars, fileVars, Reported
<1>4. CASE WatcherFails
  BY <1>4 DEF WatcherFails
<1>5. CASE AddWatch
  BY <1>5 DEF AddWatch, fileVars
<1>6. CASE SelectStops
  BY <1>6 DEF SelectStops
<1>7. CASE ReadEvents
  BY <1>7 DEF ReadEvents, fileVars, Reported
<1>8. CASE IgnoreEvent
  <2>1. buf # <<>> /\ watcher = "event"
    BY <1>8 DEF IgnoreEvent, BufInv
  <2>2. Watched /\ Watched'
    BY <1>8, <2>1 DEF IgnoreEvent, AfterEvent
  <2>3. CASE Head(buf) = "config"
    BY <1>8, <2>3 DEF IgnoreEvent, Ignored, fileVars
  <2>4. CASE Head(buf) # "config"
    <3>1. Reported(buf) => Reported(Tail(buf)) /\ Tail(buf) # <<>>
      BY <2>1, <2>4, ReportedTail
    <3>2. buf' = Tail(buf) /\ watcher' = (IF Tail(buf) = <<>> THEN "select" ELSE "event")
          /\ UNCHANGED <<loaded, content, changedAt, lastRun, queued>>
      BY <1>8 DEF IgnoreEvent, AfterEvent, fileVars
    <3>3. Reported(buf) => Reported(buf') /\ watcher' = "event"
      BY <3>1, <3>2
    <3>4. Reported(queued) => Reported(queued')
      BY <3>2
    <3> HIDE DEF TypeOK
    <3> QED
      BY <2>1, <2>2, <3>2, <3>3, <3>4
  <2> QED
    BY <2>3, <2>4
<1>9. CASE WatchRemoved
  BY <1>9 DEF WatchRemoved
<1>10. CASE CallBack
  BY <1>10 DEF CallBack
<1>11. CASE Reload
  BY <1>11 DEF Reload, fileVars
<1>12. CASE Stop
  BY <1>12 DEF Stop, fileVars, threadVars, Reported
<1>13. CASE Join
  BY <1>13 DEF Join, fileVars, threadVars, Reported
<1>14. CASE UNCHANGED vars
  BY <1>14 DEF vars, fileVars, threadVars, Reported
<1> QED
  BY <1>1, <1>2, <1>3, <1>4, <1>5, <1>6, <1>7, <1>8, <1>9, <1>10, <1>11, <1>12,
     <1>13, <1>14 DEF Next, WatcherStep

-----------------------------------------------------------------------------
\* Once the thread is done it stays so, and only then does the join return.
LEMMA JoinStep == ASSUME NoReloadAfterJoin, [Next]_vars PROVE NoReloadAfterJoin'
BY DEF NoReloadAfterJoin, Next, WatcherStep, Tick, WriteConfig, OtherEvent, WatcherFails,
       AddWatch, SelectStops, ReadEvents, IgnoreEvent, AfterEvent, WatchRemoved, CallBack,
       Reload, Stop, Join, vars, fileVars, threadVars

LEMMA Initial == Init => IInv
BY WatcherAssumption
   DEF Init, IInv, TypeOK, BufInv, FreshInv, NoReloadAfterJoin, Watched, EventKinds

\* The inductive invariant holds in every reachable state.
LEMMA Inductive == Spec => []IInv
<1>1. IInv /\ [Next]_vars => IInv'
  BY TypeStep, FreshStep, JoinStep DEF IInv
<1> QED
  BY Initial, <1>1, PTL DEF Spec

\* Every variable keeps its type, the clock readings are ordered, and a reload
\* is only under way more than Window after the one before it.
THEOREM WatcherTypeCorrect == Spec => []TypeOK
<1>1. IInv => TypeOK
  BY DEF IInv
<1> QED
  BY Inductive, <1>1, PTL

\* Batching loses no change: an idle thread has loaded the file as it is, or
\* the last change came within Window of the last reload.
THEOREM FreshCorrect == Spec => []FreshWhenIdle
<1>1. IInv => FreshWhenIdle
  <2> SUFFICES ASSUME IInv, watcher = "select", queued = <<>>
               PROVE loaded = content \/ changedAt - lastRun <= Window
    BY DEF FreshWhenIdle
  <2>1. ~Reported(queued)
    BY DEF Reported
  <2> QED
    BY <2>1 DEF IInv, FreshInv, Watched
<1> QED
  BY Inductive, <1>1, PTL

\* No reload is under way or can begin once the destructor has returned.
THEOREM JoinCorrect == Spec => []NoReloadAfterJoin
<1>1. IInv => NoReloadAfterJoin
  BY DEF IInv
<1> QED
  BY Inductive, <1>1, PTL

=============================================================================
