------------------------------ MODULE AmxProofs ------------------------------
(***************************************************************************)
(* Proofs about the abstract machine, for any scripts that keep to their   *)
(* segments: however an amx_Exec ends, its caller finds the stack and the  *)
(* heap as it wants them, and SDIV rounds down; and about the debug tables *)
(* of a script, of any length: loading them and looking addresses up.      *)
(***************************************************************************)
EXTENDS AmxDebugManager, SequenceTheorems, WellFoundedInduction, TLAPS

\* What no opcode checks but the compiler sees to: the machine runs cells of its code, and loads
\* its stack and its heap register with addresses ...
WithinSegments ==
  where = "run" => regs.cip \in DOMAIN code /\ regs.stk \in Int /\ regs.hea \in Int

\* ... and pri and alt with what a cell can hold.
RegistersAreCells == where = "run" => regs.pri \in Cells /\ regs.alt \in Cells

RegFields == {"pri", "alt", "stk", "frm", "hea", "cip", "resetStk", "resetHea", "num"}
AmxFields == {"pri", "alt", "stk", "frm", "hea", "cip", "resetStk", "resetHea", "hlw", "stp", "paramcount",
              "error", "callback", "debug", "sysreqD", "reloc", "ntvreg"}
NativeFields == {"fun", "direct", "nested"}
CellFields == {"op", "reg", "mode", "n"}

\* Where a run that c has begun has to leave the stack and the heap.
BaseStk(c) == IF c.where = "host" THEN amx.stp ELSE c.regs.stk
BaseHea(c) == IF c.where = "host" THEN amx.hlw + c.held ELSE c.regs.hea + c.held

CodeInv ==
  \A a \in DOMAIN code : DOMAIN code[a] = CellFields /\ code[a].reg \in {"pri", "alt"}

AmxInv ==
  /\ DOMAIN amx = AmxFields
  /\ amx.stk \in Int /\ amx.hea \in Int /\ amx.resetStk \in Int /\ amx.resetHea \in Int
  /\ amx.stp \in Nat /\ amx.hlw \in Nat /\ amx.paramcount \in Nat
  /\ held \in Nat
  /\ lost \in BOOLEAN
  /\ where \in {"host", "run", "native"}
  /\ where = "run" => amx.paramcount = 0
  /\ where # "host" => script # NoScript
  /\ script = NoScript => held = 0

RegsInv(r) == DOMAIN r = RegFields /\ r.resetStk \in Int /\ r.resetHea \in Int

\* Behind the host there are only natives.
CallerInv(c, i) ==
  /\ c.where = IF i = 1 THEN "host" ELSE "native"
  /\ RegsInv(c.regs)
  /\ i > 1 => c.regs.stk \in Int /\ c.regs.hea \in Int
  /\ DOMAIN c.native = NativeFields
  /\ c.held \in Nat

CallersInv ==
  /\ callers \in Seq({callers[i] : i \in DOMAIN callers})
  /\ where = "host" <=> callers = <<>>
  /\ \A i \in DOMAIN callers : CallerInv(callers[i], i)
  /\ DOMAIN native = NativeFields
  /\ RegsInv(regs)
  /\ where = "native" => regs.stk \in Int /\ regs.hea \in Int

\* Each run leaves the stack and the heap where the one that called it wants them.
BaseInv ==
  ~lost =>
    /\ \A i \in DOMAIN callers :
         i > 1 => /\ callers[i].regs.resetStk = BaseStk(callers[i - 1])
                  /\ callers[i].regs.resetHea = BaseHea(callers[i - 1])
    /\ where # "host" => /\ regs.resetStk = BaseStk(Last(callers))
                         /\ regs.resetHea = BaseHea(Last(callers))

\* The host and a native find what they have pushed and allotted, but for a sleep.
BalanceInv ==
  ~lost =>
    /\ where = "host" /\ result # ErrSleep =>
         amx.stk + amx.paramcount = amx.stp /\ amx.hea = amx.hlw + held
    /\ where = "host" /\ result = ErrSleep =>
         amx.resetStk = amx.stp /\ amx.resetHea = amx.hlw + held /\ amx.paramcount = 0
    /\ where = "native" /\ (~native.nested \/ result # ErrSleep) =>
         amx.stk + amx.paramcount = regs.stk /\ amx.hea = regs.hea + held

IInv == CodeInv /\ AmxInv /\ CallersInv /\ BaseInv /\ BalanceInv


-----------------------------------------------------------------------------
(* What the steps have in common.                                          *)

\* The registers r are those of the same run.
RegsKept(r) == DOMAIN r = RegFields /\ r.resetStk = regs.resetStk /\ r.resetHea = regs.resetHea

\* The AMX structure a is what the run may leave behind with the result err.
Leavable(a, err) ==
  /\ DOMAIN a = AmxFields
  /\ a.stk \in Int /\ a.hea \in Int /\ a.resetStk \in Int /\ a.resetHea \in Int
  /\ a.stp = amx.stp /\ a.hlw = amx.hlw /\ a.paramcount = 0
  /\ err # ErrSleep => a.stk = regs.resetStk /\ a.hea = regs.resetHea
  /\ err = ErrSleep => a.resetStk = regs.resetStk /\ a.resetHea = regs.resetHea

\* What goes behind an instruction keeps the rest.
LEMMA BehindKept ==
  ASSUME IInv, NEW n
  PROVE  RegsKept(Behind(n)) /\ Behind(n).stk = regs.stk /\ Behind(n).hea = regs.hea
BY DEF RegsKept, Behind, IInv, CallersInv, RegsInv, RegFields

\* The machine goes on.
LEMMA GoKeeps ==
  ASSUME IInv, where = "run", NEW r, RegsKept(r), Go(r)
  PROVE  IInv'
<1> USE DEF IInv, Go, control, image, counters, RegsKept
<1>a. /\ DOMAIN amx' = AmxFields
      /\ amx'.stk = amx.stk /\ amx'.hea = amx.hea /\ amx'.resetStk = amx.resetStk /\ amx'.resetHea = amx.resetHea
      /\ amx'.stp = amx.stp /\ amx'.hlw = amx.hlw /\ amx'.paramcount = amx.paramcount
  BY DEF AmxInv, AmxFields
<1>1. CodeInv'
  BY DEF CodeInv
<1>2. AmxInv'
  BY <1>a DEF AmxInv
<1>3. CallersInv'
  BY DEF CallersInv, CallerInv, RegsInv
<1>4. BaseInv'
  BY <1>a DEF BaseInv, BaseStk, BaseHea
<1>5. BalanceInv'
  BY <1>a DEF BalanceInv
<1> QED BY <1>1, <1>2, <1>3, <1>4, <1>5

\* The callers behind the last one.
LEMMA CallersFront ==
  ASSUME IInv, where # "host", callers' = Front(callers)
  PROVE  /\ callers' \in Seq({callers'[i] : i \in DOMAIN callers'})
         /\ Len(callers) \in Nat \ {0}
         /\ Len(callers') = Len(callers) - 1
         /\ DOMAIN callers' = 1..Len(callers')
         /\ DOMAIN callers = 1..Len(callers)
         /\ \A i \in DOMAIN callers' : callers'[i] = callers[i]
         /\ Last(callers) = callers[Len(callers)]
         /\ callers' = <<>> <=> Len(callers) = 1
<1> DEFINE S == {callers[i] : i \in DOMAIN callers}
<1>1. callers \in Seq(S) /\ callers # <<>>
  BY DEF IInv, AmxInv, CallersInv
<1> HIDE DEF S
<1>2. /\ callers' = SubSeq(callers, 1, Len(callers) - 1)
      /\ Last(callers) = callers[Len(callers)]
  BY DEF Front, Last
<1>3. Len(callers) \in Nat \ {0} /\ DOMAIN callers = 1..Len(callers)
  BY <1>1
<1>4. /\ Len(callers') = Len(callers) - 1 /\ callers' \in Seq(S)
      /\ \A i \in 1..Len(callers') : callers'[i] = callers[i]
  BY <1>1, <1>2, <1>3
<1>5. DOMAIN callers' = 1..Len(callers')
  BY <1>4
<1>6. \A i \in 1..Len(callers') : callers'[i] \in {callers'[j] : j \in DOMAIN callers'}
  BY <1>5
<1>7. callers' \in Seq({callers'[j] : j \in DOMAIN callers'})
  BY <1>4, <1>5, <1>6
<1>8. callers' = <<>> <=> Len(callers) = 1
  BY <1>3, <1>4
<1> QED BY <1>2, <1>3, <1>4, <1>5, <1>7, <1>8

\* The machine returns to its caller.
LEMMA LeaveKeeps ==
  ASSUME IInv, where # "host", NEW m, NEW a, NEW err, Leavable(a, err) \/ lost',
         lost => lost', lost' \in BOOLEAN,
         DOMAIN a = AmxFields, a.stk \in Int, a.hea \in Int, a.resetStk \in Int, a.resetHea \in Int,
         a.stp = amx.stp, a.hlw = amx.hlw, a.paramcount = 0,
         LeaveWith(m, a, err)
  PROVE  IInv'
<1> DEFINE c == Last(callers)
           n == Len(callers)
<1>1. /\ callers' \in Seq({callers'[i] : i \in DOMAIN callers'})
      /\ n \in Nat \ {0} /\ c = callers[n] /\ n \in DOMAIN callers
      /\ Len(callers') = n - 1 /\ DOMAIN callers' = 1..(n - 1) /\ DOMAIN callers = 1..n
      /\ \A i \in DOMAIN callers' : callers'[i] = callers[i]
      /\ callers' = <<>> <=> n = 1
  <2>1. callers' = Front(callers)
    BY DEF LeaveWith
  <2> QED BY <2>1, CallersFront
<1>3. /\ where' = c.where /\ regs' = c.regs /\ held' = c.held /\ amx' = a /\ result' = err
      /\ native' = [c.native EXCEPT !.nested = c.where = "native"]
      /\ code' = code /\ script' = script
  BY DEF LeaveWith, image
<1> HIDE DEF c, n
<1>2. CallerInv(c, n)
  BY <1>1 DEF IInv, CallersInv
<1>4. /\ DOMAIN native' = NativeFields
      /\ native'.nested = (c.where = "native")
  BY <1>2, <1>3 DEF CallerInv, NativeFields
<1>10. /\ c.where = IF n = 1 THEN "host" ELSE "native"
       /\ RegsInv(c.regs) /\ c.held \in Nat
       /\ n > 1 => c.regs.stk \in Int /\ c.regs.hea \in Int
  BY <1>2 DEF CallerInv
<1>5. CodeInv'
  BY <1>3 DEF IInv, CodeInv
<1>6. AmxInv'
  BY <1>3, <1>10 DEF IInv, AmxInv
<1>7. CallersInv'
  <2>1. \A i \in DOMAIN callers' : CallerInv(callers'[i], i)
    <3> SUFFICES ASSUME NEW i \in DOMAIN callers'
                 PROVE  CallerInv(callers'[i], i)
      OBVIOUS
    <3>1. i \in DOMAIN callers /\ callers'[i] = callers[i]
      BY <1>1
    <3> QED BY <3>1 DEF IInv, CallersInv
  <2>2. where' = "host" <=> callers' = <<>>
    BY <1>1, <1>2, <1>3 DEF CallerInv
  <2>3. RegsInv(regs') /\ (where' = "native" => regs'.stk \in Int /\ regs'.hea \in Int)
    BY <1>1, <1>2, <1>3 DEF CallerInv
  <2> QED BY <1>1, <1>4, <2>1, <2>2, <2>3 DEF CallersInv, CallerInv, RegsInv
<1>8. BaseInv'
  <2> SUFFICES ASSUME ~lost'
               PROVE  BaseInv'
    BY DEF BaseInv
  <2>0. ~lost /\ amx'.stp = amx.stp /\ amx'.hlw = amx.hlw
    BY <1>3
  <2>2. \A i \in DOMAIN callers' :
          i > 1 => /\ callers'[i].regs.resetStk = BaseStk(callers[i - 1])'
                   /\ callers'[i].regs.resetHea = BaseHea(callers[i - 1])'
    <3> SUFFICES ASSUME NEW i \in DOMAIN callers', i > 1
                 PROVE  /\ callers'[i].regs.resetStk = BaseStk(callers[i - 1])'
                        /\ callers'[i].regs.resetHea = BaseHea(callers[i - 1])'
      OBVIOUS
    <3>1. i \in DOMAIN callers /\ callers'[i] = callers[i] /\ callers'[i - 1] = callers[i - 1]
      BY <1>1
    <3>2. callers[i].regs.resetStk = BaseStk(callers[i - 1]) /\ callers[i].regs.resetHea = BaseHea(callers[i - 1])
      BY <2>0, <3>1 DEF IInv, BaseInv
    <3> QED BY <2>0, <3>1, <3>2 DEF BaseStk, BaseHea
  <2>3. ASSUME where' # "host"
        PROVE  /\ regs'.resetStk = BaseStk(Last(callers))'
               /\ regs'.resetHea = BaseHea(Last(callers))'
    <3>1. n > 1 /\ Last(callers') = callers[n - 1]
      BY <1>1, <1>3, <1>10, <2>3 DEF Last
    <3>2. c.regs.resetStk = BaseStk(callers[n - 1]) /\ c.regs.resetHea = BaseHea(callers[n - 1])
      BY <1>1, <2>0, <3>1 DEF IInv, BaseInv
    <3> QED BY <1>3, <2>0, <3>1, <3>2 DEF BaseStk, BaseHea
  <2> QED BY <2>2, <2>3 DEF BaseInv
<1>9. BalanceInv'
  <2> SUFFICES ASSUME ~lost'
               PROVE  BalanceInv'
    BY DEF BalanceInv
  <2>0. ~lost /\ Leavable(a, err)
    OBVIOUS
  <2>1. regs.resetStk = BaseStk(c) /\ regs.resetHea = BaseHea(c)
    BY <2>0 DEF IInv, BaseInv, c
  <2>2. CASE c.where = "host"
    BY <1>2, <1>3, <2>0, <2>1, <2>2 DEF BalanceInv, BaseStk, BaseHea, Leavable, IInv, AmxInv
  <2>3. CASE c.where = "native"
    <3>1. err # ErrSleep => a.stk = c.regs.stk /\ a.hea = c.regs.hea + c.held
      BY <2>0, <2>1, <2>3 DEF BaseStk, BaseHea, Leavable
    <3>2. native'.nested /\ where' = "native"
      BY <1>3, <1>4, <2>3
    <3>3. err # ErrSleep => amx'.stk + amx'.paramcount = regs'.stk /\ amx'.hea = regs'.hea + held'
      BY <1>3, <3>1
    <3> QED BY <1>3, <3>2, <3>3 DEF BalanceInv
  <2> QED BY <1>2, <2>2, <2>3 DEF CallerInv
<1> QED BY <1>5, <1>6, <1>7, <1>8, <1>9 DEF IInv

\* ABORT.
LEMMA AbortKeeps ==
  ASSUME IInv, where # "host", amx.paramcount = 0, NEW r, RegsKept(r),
         NEW err, err # ErrSleep, Abort(r, err)
  PROVE  IInv'
<1>1. Leavable(Aborted(r), err)
  BY DEF Leavable, Aborted, RegsKept, IInv, AmxInv, AmxFields, CallersInv, RegsInv
<1>2. LeaveWith(mem, Aborted(r), err) /\ lost' = lost
  BY DEF Abort, Leave
<1>3. lost \in BOOLEAN
  BY DEF IInv, AmxInv
<1> QED BY <1>1, <1>2, <1>3, LeaveKeeps DEF Leavable

-----------------------------------------------------------------------------
(* Calls of the machine.                                                   *)

\* What the one that calls the machine must find.
Balanced(a) ==
  /\ where = "host" => a.stk + a.paramcount = amx.stp /\ a.hea = amx.hlw + held
  /\ where = "native" => a.stk + a.paramcount = regs.stk /\ a.hea = regs.hea + held

\* An amx_Exec that returns before the first instruction.
LEMMA AtOnceKeeps ==
  ASSUME IInv, where \in {"host", "native"},
         DOMAIN amx' = AmxFields, amx'.stk \in Int, amx'.hea \in Int, amx'.paramcount \in Nat,
         amx'.resetStk = amx.resetStk, amx'.resetHea = amx.resetHea,
         amx'.stp = amx.stp, amx'.hlw = amx.hlw,
         result' # ErrSleep, ~lost => Balanced(amx'),
         native' = [native EXCEPT !.nested = where = "native"],
         UNCHANGED <<script, code, lost, where, regs, callers, held>>
  PROVE  IInv'
<1>1. CodeInv'
  BY DEF IInv, CodeInv
<1>2. AmxInv'
  BY DEF IInv, AmxInv
<1>3. CallersInv'
  <2>1. DOMAIN native' = NativeFields
    BY DEF IInv, CallersInv, NativeFields
  <2> QED BY <2>1 DEF IInv, CallersInv, CallerInv, RegsInv
<1>4. BaseInv'
  BY DEF IInv, BaseInv, BaseStk, BaseHea
<1>5. BalanceInv'
  BY DEF BalanceInv, Balanced
<1> QED BY <1>1, <1>2, <1>3, <1>4, <1>5 DEF IInv

\* One caller more.
LEMMA CallersAppend ==
  ASSUME IInv, NEW c, callers' = Append(callers, c)
  PROVE  /\ callers' \in Seq({callers'[i] : i \in DOMAIN callers'})
         /\ Len(callers) \in Nat
         /\ Len(callers') = Len(callers) + 1
         /\ DOMAIN callers' = 1..(Len(callers) + 1)
         /\ DOMAIN callers = 1..Len(callers)
         /\ \A i \in DOMAIN callers : callers'[i] = callers[i]
         /\ callers'[Len(callers) + 1] = c
         /\ Last(callers') = c
         /\ callers' # <<>>
<1> DEFINE S == {callers[i] : i \in DOMAIN callers}
<1>1. callers \in Seq(S)
  BY DEF IInv, CallersInv
<1> HIDE DEF S
<1>2. /\ callers' \in Seq(S \cup {c})
      /\ Len(callers) \in Nat /\ DOMAIN callers = 1..Len(callers)
  BY <1>1
<1>3. /\ Len(callers') = Len(callers) + 1 /\ DOMAIN callers' = 1..(Len(callers) + 1)
      /\ \A i \in DOMAIN callers : callers'[i] = callers[i]
      /\ callers'[Len(callers) + 1] = c
  BY <1>1, <1>2
<1>4. \A i \in 1..Len(callers') : callers'[i] \in {callers'[j] : j \in DOMAIN callers'}
  BY <1>3
<1>5. callers' \in Seq({callers'[j] : j \in DOMAIN callers'})
  BY <1>2, <1>3, <1>4
<1>6. Last(callers') = c
  BY <1>3 DEF Last
<1>7. callers' # <<>>
  BY <1>2, <1>3
<1> QED BY <1>2, <1>3, <1>5, <1>6, <1>7

\* amx_Exec starts from the registers r, which know what the caller wants back.
LEMMA StartKeeps ==
  ASSUME IInv, where \in {"host", "native"}, script # NoScript,
         NEW r, RegsInv(r), NEW m, NEW history, Start(r, m, history),
         ~lost => /\ where = "host" => r.resetStk = amx.stp /\ r.resetHea = amx.hlw + held
                  /\ where = "native" => r.resetStk = regs.stk /\ r.resetHea = regs.hea + held,
         UNCHANGED <<script, code, lost>>
  PROVE  IInv'
<1>1. CASE Crowded(r)
  <2>1. /\ amx' = [Aborted(r) EXCEPT !.paramcount = 0] /\ result' = ErrStack
        /\ native' = [native EXCEPT !.nested = where = "native"]
        /\ UNCHANGED <<where, regs, callers, held>>
    BY <1>1 DEF Start
  <2>2. /\ DOMAIN amx' = AmxFields /\ amx'.stk = r.resetStk /\ amx'.hea = r.resetHea
        /\ amx'.paramcount = 0 /\ amx'.stp = amx.stp /\ amx'.hlw = amx.hlw
        /\ amx'.resetStk = amx.resetStk /\ amx'.resetHea = amx.resetHea
    BY <2>1 DEF Aborted, IInv, AmxInv, AmxFields
  <2>3. r.resetStk \in Int /\ r.resetHea \in Int
    BY DEF RegsInv
  <2>4. ~lost => Balanced(amx')
    BY <2>2, <2>3 DEF Balanced
  <2>5. result' # ErrSleep
    BY <2>1 DEF ErrStack, ErrSleep
  <2> QED BY <2>1, <2>2, <2>3, <2>4, <2>5, AtOnceKeeps
<1>2. CASE ~Crowded(r)
  <2> DEFINE n == Len(callers)
  <2>1. /\ amx' = [amx EXCEPT !.cip = r.cip, !.paramcount = 0]
        /\ regs' = r /\ where' = "run" /\ callers' = Append(callers, Caller)
        /\ native' = NoCall /\ held' = 0 /\ result' = ErrNone
    BY <1>2 DEF Start
  <2>2. /\ DOMAIN amx' = AmxFields /\ amx'.stk = amx.stk /\ amx'.hea = amx.hea
        /\ amx'.paramcount = 0 /\ amx'.stp = amx.stp /\ amx'.hlw = amx.hlw
        /\ amx'.resetStk = amx.resetStk /\ amx'.resetHea = amx.resetHea
    BY <2>1 DEF IInv, AmxInv, AmxFields
  <2>3. /\ callers' \in Seq({callers'[i] : i \in DOMAIN callers'})
        /\ n \in Nat /\ DOMAIN callers' = 1..(n + 1) /\ DOMAIN callers = 1..n
        /\ \A i \in DOMAIN callers : callers'[i] = callers[i]
        /\ callers'[n + 1] = Caller /\ Last(callers') = Caller /\ callers' # <<>>
    BY <2>1, CallersAppend
  <2>4. /\ Caller.where = where /\ Caller.regs = regs /\ Caller.native = native /\ Caller.held = held
    BY DEF Caller
  <2>5. where = "host" <=> n = 0
    BY <2>3 DEF IInv, CallersInv
  <2> HIDE DEF n
  <2>6. CallerInv(Caller, n + 1)
    BY <2>3, <2>4, <2>5 DEF IInv, CallersInv, CallerInv, AmxInv
  <2>7. CodeInv'
    BY DEF IInv, CodeInv
  <2>8. AmxInv'
    BY <2>1, <2>2 DEF IInv, AmxInv
  <2>9. CallersInv'
    <3>1. \A i \in DOMAIN callers' : CallerInv(callers'[i], i)
      BY <2>3, <2>6 DEF IInv, CallersInv
    <3>2. DOMAIN native' = NativeFields
      BY <2>1 DEF NoCall, NativeFields
    <3> QED BY <2>1, <2>3, <3>1, <3>2 DEF CallersInv, CallerInv, RegsInv
  <2>10. BaseInv'
    <3> SUFFICES ASSUME ~lost
                 PROVE  BaseInv'
      BY DEF BaseInv
    <3>1. /\ regs'.resetStk = BaseStk(Last(callers))'
          /\ regs'.resetHea = BaseHea(Last(callers))'
      BY <2>1, <2>2, <2>3, <2>4 DEF BaseStk, BaseHea
    <3>2. ASSUME NEW i \in DOMAIN callers', i > 1
          PROVE  /\ callers'[i].regs.resetStk = BaseStk(callers[i - 1])'
                 /\ callers'[i].regs.resetHea = BaseHea(callers[i - 1])'
      <4>1. CASE i = n + 1
        <5>1. callers'[i] = Caller /\ callers'[i - 1] = callers[n] /\ n # 0 /\ Last(callers) = callers[n]
          BY <2>3, <3>2, <4>1 DEF Last, n
        <5>2. regs.resetStk = BaseStk(callers[n]) /\ regs.resetHea = BaseHea(callers[n])
          BY <2>5, <5>1 DEF IInv, BaseInv
        <5> QED BY <2>2, <2>4, <5>1, <5>2 DEF BaseStk, BaseHea
      <4>2. CASE i # n + 1
        <5>1. i \in DOMAIN callers /\ callers'[i] = callers[i] /\ callers'[i - 1] = callers[i - 1]
          BY <2>3, <3>2, <4>2
        <5>2. callers[i].regs.resetStk = BaseStk(callers[i - 1]) /\ callers[i].regs.resetHea = BaseHea(callers[i - 1])
          BY <3>2, <5>1 DEF IInv, BaseInv
        <5> QED BY <2>2, <5>1, <5>2 DEF BaseStk, BaseHea
      <4> QED BY <4>1, <4>2
    <3> QED BY <3>1, <3>2 DEF BaseInv
  <2>11. BalanceInv'
    BY <2>1 DEF BalanceInv
  <2> QED BY <2>7, <2>8, <2>9, <2>10, <2>11 DEF IInv
<1> QED BY <1>1, <1>2

-----------------------------------------------------------------------------
(* Loading and calling, one lemma for each operation.                      *)

\* Relocation changes parameters only.
LEMMA RelocatedCode ==
  ASSUME NEW c, \A a \in DOMAIN c : DOMAIN c[a] = CellFields /\ c[a].reg \in {"pri", "alt"},
         NEW d, d = BrowseRelocate(c).code
  PROVE  \A a \in DOMAIN d : DOMAIN d[a] = CellFields /\ d[a].reg \in {"pri", "alt"}
<1>1. PICK cells : d = [a \in DOMAIN c |-> IF a \in cells THEN [c[a] EXCEPT !.n = @ + CodeBase] ELSE c[a]]
  BY DEF BrowseRelocate
<1>2. \A a \in DOMAIN c : LET e == [c[a] EXCEPT !.n = @ + CodeBase]
                          IN DOMAIN e = CellFields /\ e.reg = c[a].reg
  BY DEF CellFields
<1> QED BY <1>1, <1>2

\* A script that is loaded finds an empty stack and an empty heap.
LEMMA LoadProgramKeeps ==
  ASSUME IInv, NEW s \in DOMAIN Scripts, LoadProgram(s)
  PROVE  IInv'
<1> DEFINE p == Scripts[s]
<1>1. /\ where = "host" /\ script = NoScript /\ script' = s
      /\ code' = BrowseRelocate(p.code).code
      /\ amx' = InitAmx(p, BrowseRelocate(p.code).complete)
      /\ result' = ErrNone /\ lost' = FALSE
      /\ UNCHANGED <<where, regs, native, callers, held>>
  BY DEF LoadProgram
<1>2. /\ p.hlw \in Nat /\ p.stp \in Nat /\ s # NoScript
      /\ \A a \in DOMAIN p.code : DOMAIN p.code[a] = CellFields /\ p.code[a].reg \in {"pri", "alt"}
  BY ScriptAssumption DEF CellFields
<1> HIDE DEF p
<1>3. /\ DOMAIN amx' = AmxFields /\ amx'.stk = p.stp /\ amx'.hea = p.hlw /\ amx'.stp = p.stp /\ amx'.hlw = p.hlw
      /\ amx'.resetStk = 0 /\ amx'.resetHea = 0 /\ amx'.paramcount = 0
  BY <1>1 DEF InitAmx, ZeroAmx, AmxFields
<1>4. held = 0 /\ callers = <<>>
  BY <1>1 DEF IInv, AmxInv, CallersInv
<1>5. CodeInv'
  BY <1>1, <1>2, RelocatedCode DEF CodeInv
<1>6. AmxInv'
  <2>1. lost' \in BOOLEAN /\ script' # NoScript /\ held' = 0 /\ where' = "host"
    BY <1>1, <1>2, <1>4
  <2> QED BY <1>2, <1>3, <2>1 DEF AmxInv
<1>7. CallersInv'
  BY <1>1 DEF IInv, CallersInv, CallerInv, RegsInv
<1>8. BaseInv'
  BY <1>1, <1>4 DEF BaseInv
<1>9. BalanceInv'
  BY <1>1, <1>2, <1>3, <1>4 DEF BalanceInv, ErrNone, ErrSleep
<1> QED BY <1>5, <1>6, <1>7, <1>8, <1>9 DEF IInv

\* aux_FreeProgram clears the AMX structure, and no run waits.
LEMMA FreeProgramKeeps ==
  ASSUME IInv, FreeProgram
  PROVE  IInv'
<1>1. /\ where = "host" /\ script' = NoScript /\ code' = <<>> /\ amx' = ZeroAmx /\ held' = 0
      /\ UNCHANGED <<where, regs, native, callers, result, lost>>
  BY DEF FreeProgram
<1>2. /\ DOMAIN amx' = AmxFields /\ amx'.stk = 0 /\ amx'.hea = 0 /\ amx'.stp = 0 /\ amx'.hlw = 0
      /\ amx'.resetStk = 0 /\ amx'.resetHea = 0 /\ amx'.paramcount = 0
  BY <1>1 DEF ZeroAmx, AmxFields
<1>3. callers = <<>>
  BY <1>1 DEF IInv, CallersInv
<1>4. CodeInv'
  BY <1>1 DEF CodeInv
<1>5. AmxInv'
  BY <1>1, <1>2 DEF AmxInv, IInv
<1>6. CallersInv'
  BY <1>1 DEF IInv, CallersInv, CallerInv, RegsInv
<1>7. BaseInv'
  BY <1>1, <1>3 DEF BaseInv
<1>8. BalanceInv'
  BY <1>1, <1>2 DEF BalanceInv
<1> QED BY <1>4, <1>5, <1>6, <1>7, <1>8 DEF IInv

\* Steps that leave alone what IInv speaks of.
LEMMA OthersKeep ==
  ASSUME IInv,
         DOMAIN amx' = AmxFields,
         amx'.stk = amx.stk, amx'.hea = amx.hea, amx'.resetStk = amx.resetStk, amx'.resetHea = amx.resetHea,
         amx'.stp = amx.stp, amx'.hlw = amx.hlw, amx'.paramcount = amx.paramcount,
         UNCHANGED <<script, code, where, regs, native, callers, result, held, lost>>
  PROVE  IInv'
<1>1. CodeInv'
  BY DEF IInv, CodeInv
<1>2. AmxInv'
  BY DEF IInv, AmxInv
<1>3. CallersInv'
  BY DEF IInv, CallersInv, CallerInv, RegsInv
<1>4. BaseInv'
  BY DEF IInv, BaseInv, BaseStk, BaseHea
<1>5. BalanceInv'
  BY DEF IInv, BalanceInv
<1> QED BY <1>1, <1>2, <1>3, <1>4, <1>5 DEF IInv

\* amx_Register touches neither the stack nor the heap,
LEMMA RegisterKeeps ==
  ASSUME IInv, NEW list, Register(list)
  PROVE  IInv'
<1>1. /\ \E b : amx' = [amx EXCEPT !.ntvreg = b]
      /\ UNCHANGED <<script, code, where, regs, native, callers, result, held, lost>>
  BY DEF Register, control
<1>2. DOMAIN amx = AmxFields
  BY DEF IInv, AmxInv
<1> QED BY <1>1, <1>2, OthersKeep DEF AmxFields

\* nor does setting a debug hook,
LEMMA SetDebugHookKeeps ==
  ASSUME IInv, SetDebugHook
  PROVE  IInv'
<1>1. DOMAIN amx = AmxFields
  BY DEF IInv, AmxInv
<1> QED BY <1>1, OthersKeep DEF SetDebugHook, control, image, AmxFields

\* nor amx_RaiseError.
LEMMA NativeRaisesKeeps ==
  ASSUME IInv, NEW err, NativeRaises(err)
  PROVE  IInv'
<1>1. DOMAIN amx = AmxFields
  BY DEF IInv, AmxInv
<1> QED BY <1>1, OthersKeep DEF NativeRaises, control, image, AmxFields

\* What is held is the difference between two ends of the heap, ...
LEMMA TakenOver ==
  ASSUME NEW a \in Int, NEW b \in Int, NEW h \in Nat
  PROVE  a - h = b <=> a = b + h
OBVIOUS

\* ... and a cell that is pushed moves from one side of the stack to the other.
LEMMA CellPushed ==
  ASSUME NEW s \in Int, NEW n \in Nat
  PROVE  (s - 1) + (n + 1) = s + n /\ s - 1 \in Int /\ n + 1 \in Nat
OBVIOUS

\* What is pushed and allotted is counted, and what is released no longer.
LEMMA CallerKeeps ==
  ASSUME IInv, where \in {"host", "native"}, script # NoScript,
         where = "host" => result # ErrSleep,
         where = "native" => ~native.nested \/ result # ErrSleep,
         DOMAIN amx' = AmxFields, amx'.stk \in Int, amx'.hea \in Int, amx'.paramcount \in Nat, held' \in Nat,
         amx'.resetStk = amx.resetStk, amx'.resetHea = amx.resetHea,
         amx'.stp = amx.stp, amx'.hlw = amx.hlw,
         amx'.stk + amx'.paramcount = amx.stk + amx.paramcount,
         where = "host" /\ ~lost => amx'.hea - held' = amx.hlw,
         where = "native" /\ ~lost => amx'.hea - held' = regs.hea,
         callers # <<>> \/ where = "host",
         UNCHANGED <<script, code, where, regs, native, callers, result, lost>>
  PROVE  IInv'
<1>1. CodeInv'
  BY DEF IInv, CodeInv
<1>2. AmxInv'
  BY DEF IInv, AmxInv
<1>3. CallersInv'
  BY DEF IInv, CallersInv, CallerInv, RegsInv
<1>4. BaseInv'
  BY DEF IInv, BaseInv, BaseStk, BaseHea
<1>5. BalanceInv'
  <2>1. BalanceInv /\ amx.hea \in Int /\ amx.hlw \in Int
    BY DEF IInv, AmxInv
  <2>2. where = "host" /\ ~lost => /\ amx.stk + amx.paramcount = amx.stp
                                   /\ amx.hea = amx.hlw + held
    BY <2>1 DEF BalanceInv
  <2>3. where = "native" /\ ~lost => /\ amx.stk + amx.paramcount = regs.stk
                                     /\ amx.hea = regs.hea + held
    BY <2>1 DEF BalanceInv
  <2>4. where = "host" /\ ~lost => amx'.hea = amx.hlw + held'
    BY <2>1, TakenOver
  <2>5. where = "native" /\ ~lost => amx'.hea = regs.hea + held'
    <3>1. where = "native" => regs.hea \in Int
      BY DEF IInv, CallersInv
    <3> QED BY <3>1, TakenOver
  <2> QED BY <2>2, <2>3, <2>4, <2>5 DEF BalanceInv
<1> QED BY <1>1, <1>2, <1>3, <1>4, <1>5 DEF IInv

\* Who may call the machine finds it balanced.
LEMMA CallerBalanced ==
  ASSUME IInv, MayCall \/ (where \in {"host", "native"} /\ result # ErrSleep), ~lost
  PROVE  /\ where = "host" => amx.stk + amx.paramcount = amx.stp /\ amx.hea = amx.hlw + held
         /\ where = "native" => amx.stk + amx.paramcount = regs.stk /\ amx.hea = regs.hea + held
BY DEF IInv, BalanceInv, MayCall

\* amx_Push: one cell less of the stack, one parameter more.
LEMMA PushKeeps ==
  ASSUME IInv, NEW v, Push(v)
  PROVE  IInv'
<1>1. /\ MayCall /\ amx' = [amx EXCEPT !.stk = @ - 1, !.paramcount = @ + 1]
      /\ UNCHANGED <<script, code, where, regs, native, callers, result, held, lost>>
  BY DEF Push, image, control
<1>2. /\ DOMAIN amx' = AmxFields /\ amx'.stk = amx.stk - 1 /\ amx'.paramcount = amx.paramcount + 1
      /\ amx'.hea = amx.hea /\ amx'.stp = amx.stp /\ amx'.hlw = amx.hlw
      /\ amx'.resetStk = amx.resetStk /\ amx'.resetHea = amx.resetHea
  BY <1>1 DEF IInv, AmxInv, AmxFields
<1>3. /\ amx.stk \in Int /\ amx.hea \in Int /\ amx.paramcount \in Nat /\ held \in Nat /\ amx.hlw \in Nat
      /\ where = "native" => regs.hea \in Int
      /\ callers # <<>> \/ where = "host"
  BY DEF IInv, AmxInv, CallersInv
<1>4. /\ where \in {"host", "native"} /\ script # NoScript
      /\ where = "host" => result # ErrSleep
      /\ where = "native" => ~native.nested \/ result # ErrSleep
  BY <1>1 DEF MayCall
<1>5. /\ amx'.stk + amx'.paramcount = amx.stk + amx.paramcount
      /\ amx'.stk \in Int /\ amx'.hea \in Int /\ amx'.paramcount \in Nat /\ held' \in Nat
      /\ where = "host" /\ ~lost => amx'.hea - held' = amx.hlw
      /\ where = "native" /\ ~lost => amx'.hea - held' = regs.hea
  <2>1. /\ where = "host" /\ ~lost => amx.hea = amx.hlw + held
        /\ where = "native" /\ ~lost => amx.hea = regs.hea + held
    BY <1>1, CallerBalanced
  <2>2. amx'.hea = amx.hea /\ held' = held
    BY <1>1, <1>2
  <2>3. where = "host" /\ ~lost => amx'.hea - held' = amx.hlw
    BY <1>3, <2>1, <2>2, TakenOver
  <2>4. where = "native" /\ ~lost => amx'.hea - held' = regs.hea
    BY <1>3, <2>1, <2>2, TakenOver
  <2>5. /\ amx'.stk + amx'.paramcount = amx.stk + amx.paramcount
        /\ amx'.stk \in Int /\ amx'.paramcount \in Nat
    <3>1. /\ (amx.stk - 1) + (amx.paramcount + 1) = amx.stk + amx.paramcount
          /\ amx.stk - 1 \in Int /\ amx.paramcount + 1 \in Nat
      BY <1>3, CellPushed
    <3> QED BY ONLY <1>2, <3>1
  <2> QED BY <1>3, <2>2, <2>3, <2>4, <2>5
<1> QED BY <1>1, <1>2, <1>3, <1>4, <1>5, CallerKeeps

\* amx_PushArray: also what it allots is counted.
LEMMA PushArrayKeeps ==
  ASSUME IInv, NEW array \in Arrays, PushArray(array)
  PROVE  IInv'
<1>0. Len(array) \in Nat
  BY ScriptAssumption
<1>1. /\ MayCall /\ amx' = [amx EXCEPT !.hea = @ + Len(array), !.stk = @ - 1, !.paramcount = @ + 1]
      /\ held' = held + Len(array)
      /\ UNCHANGED <<script, code, where, regs, native, callers, result, lost>>
  BY DEF PushArray, image
<1>2. /\ DOMAIN amx' = AmxFields /\ amx'.stk = amx.stk - 1 /\ amx'.paramcount = amx.paramcount + 1
      /\ amx'.hea = amx.hea + Len(array) /\ amx'.stp = amx.stp /\ amx'.hlw = amx.hlw
      /\ amx'.resetStk = amx.resetStk /\ amx'.resetHea = amx.resetHea
  BY <1>1 DEF IInv, AmxInv, AmxFields
<1>3. /\ amx.stk \in Int /\ amx.hea \in Int /\ amx.paramcount \in Nat /\ held \in Nat /\ amx.hlw \in Nat
      /\ where = "native" => regs.hea \in Int
      /\ callers # <<>> \/ where = "host"
  BY DEF IInv, AmxInv, CallersInv
<1>4. /\ where \in {"host", "native"} /\ script # NoScript
      /\ where = "host" => result # ErrSleep
      /\ where = "native" => ~native.nested \/ result # ErrSleep
  BY <1>1 DEF MayCall
<1>5. /\ amx'.stk + amx'.paramcount = amx.stk + amx.paramcount
      /\ amx'.stk \in Int /\ amx'.hea \in Int /\ amx'.paramcount \in Nat /\ held' \in Nat
      /\ where = "host" /\ ~lost => amx'.hea - held' = amx.hlw
      /\ where = "native" /\ ~lost => amx'.hea - held' = regs.hea
  <2>1. amx'.hea - held' = amx.hea - held
    BY <1>0, <1>1, <1>2, <1>3
  <2>2. ~lost => /\ where = "host" => amx.hea - held = amx.hlw
                 /\ where = "native" => amx.hea - held = regs.hea
    BY <1>1, <1>3, CallerBalanced
  <2>3. /\ amx'.stk + amx'.paramcount = amx.stk + amx.paramcount
        /\ amx'.stk \in Int /\ amx'.paramcount \in Nat
    <3>1. /\ (amx.stk - 1) + (amx.paramcount + 1) = amx.stk + amx.paramcount
          /\ amx.stk - 1 \in Int /\ amx.paramcount + 1 \in Nat
      BY <1>3, CellPushed
    <3> QED BY ONLY <1>2, <3>1
  <2>4. amx'.hea \in Int /\ held' \in Nat
    BY <1>0, <1>1, <1>2, <1>3
  <2> QED BY <2>1, <2>2, <2>3, <2>4
<1> QED BY <1>1, <1>2, <1>3, <1>4, <1>5, CallerKeeps

\* amx_Release gives back all that is held.
LEMMA ReleaseKeeps ==
  ASSUME IInv, Release
  PROVE  IInv'
<1>1. /\ where \in {"host", "native"} /\ result # ErrSleep /\ amx.paramcount = 0 /\ held > 0
      /\ amx' = [amx EXCEPT !.hea = IF @ > amx.hea - held THEN amx.hea - held ELSE @]
      /\ held' = 0
      /\ UNCHANGED <<script, code, where, regs, native, callers, result, lost>>
  BY DEF Release, image
<1>2. /\ amx.stk \in Int /\ amx.hea \in Int /\ held \in Nat /\ amx.hlw \in Nat
      /\ where = "native" => regs.hea \in Int
      /\ callers # <<>> \/ where = "host"
      /\ script # NoScript
  BY <1>1 DEF IInv, AmxInv, CallersInv
<1>3. /\ DOMAIN amx' = AmxFields /\ amx'.stk = amx.stk /\ amx'.paramcount = amx.paramcount
      /\ amx'.hea = amx.hea - held /\ amx'.stp = amx.stp /\ amx'.hlw = amx.hlw
      /\ amx'.resetStk = amx.resetStk /\ amx'.resetHea = amx.resetHea
  BY <1>1, <1>2 DEF IInv, AmxInv, AmxFields
<1> QED BY <1>1, <1>2, <1>3, CallerBalanced, CallerKeeps

\* amx_Exec of a function, which takes the parameters that were pushed for it.
LEMMA ExecFunctionKeeps ==
  ASSUME IInv, MayCall, NEW index, ExecFunction(index)
  PROVE  IInv'
<1>1. /\ where \in {"host", "native"} /\ script # NoScript
      /\ amx.stk \in Int /\ amx.hea \in Int /\ amx.paramcount \in Nat
      /\ DOMAIN amx = AmxFields
      /\ UNCHANGED <<script, code, lost>>
  BY DEF MayCall, IInv, AmxInv, ExecFunction, image
<1>2. ~lost => Balanced(amx)
  BY CallerBalanced DEF Balanced
<1>3. CASE Refusal(index) # ErrNone
  <2>1. result' = Refusal(index) /\ native' = [native EXCEPT !.nested = where = "native"]
        /\ UNCHANGED <<amx, where, regs, callers, held>>
    BY <1>3 DEF ExecFunction, Refused
  <2>2. Refusal(index) # ErrSleep
    BY DEF Refusal, ErrSleep, ErrNotFound, ErrInit, ErrIndex, ErrNone
  <2>3. amx.stp = amx.stp /\ amx' = amx
    BY <2>1
  <2> QED BY <1>1, <1>2, <2>1, <2>2, <2>3, AtOnceKeeps
<1>4. CASE Refusal(index) = ErrNone
  <2>1. PICK garbage \in Garbage :
          LET r == FreshRegs(index, garbage) IN
          IF StackError(r) # ErrNone THEN AbortAtOnce(r, StackError(r))
          ELSE Start([r EXCEPT !.stk = @ - 2, !.resetStk = @ + amx.paramcount],
                     [mem EXCEPT ![r.stk - 1] = amx.paramcount, ![r.stk - 2] = 0],
                     <<[entry |-> Entry(index), ret |-> 0]>>)
    BY <1>4 DEF ExecFunction
  <2> DEFINE r == FreshRegs(index, garbage)
             s == [r EXCEPT !.stk = @ - 2, !.resetStk = @ + amx.paramcount]
  <2>2. /\ DOMAIN r = RegFields /\ r.resetStk = amx.stk /\ r.resetHea = amx.hea
    BY DEF FreshRegs, NoRegs, RegFields
  <2>3. /\ DOMAIN s = RegFields /\ s.resetStk = amx.stk + amx.paramcount /\ s.resetHea = amx.hea
    BY <2>2 DEF RegFields
  <2> HIDE DEF r, s
  <2>4. CASE StackError(r) # ErrNone
    <3>1. /\ amx' = Aborted(r) /\ result' = StackError(r)
          /\ native' = [native EXCEPT !.nested = where = "native"]
          /\ UNCHANGED <<where, regs, callers, held>>
      BY <2>1, <2>4 DEF AbortAtOnce, r
    <3>2. /\ DOMAIN amx' = AmxFields /\ amx'.stk = amx.stk /\ amx'.hea = amx.hea
          /\ amx'.paramcount = amx.paramcount /\ amx'.stp = amx.stp /\ amx'.hlw = amx.hlw
          /\ amx'.resetStk = amx.resetStk /\ amx'.resetHea = amx.resetHea
      BY <1>1, <2>2, <3>1 DEF Aborted, AmxFields
    <3>3. result' # ErrSleep
      BY <3>1 DEF StackError, ErrSleep, ErrStackLow, ErrHeapLow, ErrNone
    <3>4. ~lost => Balanced(amx')
      BY <1>2, <3>2 DEF Balanced
    <3> QED BY <1>1, <3>1, <3>2, <3>3, <3>4, AtOnceKeeps
  <2>5. CASE StackError(r) = ErrNone
    <3>1. PICK m, history : Start(s, m, history)
      BY <2>1, <2>5 DEF r, s
    <3>2. RegsInv(s)
      BY <1>1, <2>3 DEF RegsInv
    <3>3. ~lost => /\ where = "host" => s.resetStk = amx.stp /\ s.resetHea = amx.hlw + held
                   /\ where = "native" => s.resetStk = regs.stk /\ s.resetHea = regs.hea + held
      BY <1>2, <2>3 DEF Balanced
    <3> QED BY <1>1, <3>1, <3>2, <3>3, StartKeeps
  <2> QED BY <2>4, <2>5
<1> QED BY <1>3, <1>4

\* amx_Exec continues an execution that sleeps.
LEMMA HostContinueKeeps ==
  ASSUME IInv, HostContinue
  PROVE  IInv'
<1>1. /\ where = "host" /\ script # NoScript /\ result = ErrSleep
      /\ DOMAIN amx = AmxFields /\ amx.resetStk \in Int /\ amx.resetHea \in Int /\ amx.paramcount \in Nat
      /\ UNCHANGED <<script, code, lost>>
  BY DEF HostContinue, IInv, AmxInv, image
<1>2. ~lost => amx.resetStk = amx.stp /\ amx.resetHea = amx.hlw + held /\ amx.paramcount = 0
  BY <1>1 DEF IInv, BalanceInv
<1>3. RegsInv(SavedRegs) /\ SavedRegs.resetStk = amx.resetStk /\ SavedRegs.resetHea = amx.resetHea
  BY <1>1 DEF RegsInv, RegFields, SavedRegs
<1>4. CASE StackError(SavedRegs) # ErrNone
  <2>1. /\ amx' = Aborted(SavedRegs) /\ result' = StackError(SavedRegs)
        /\ native' = [native EXCEPT !.nested = where = "native"]
        /\ UNCHANGED <<where, regs, callers, held>>
    BY <1>4 DEF HostContinue, AbortAtOnce
  <2>2. /\ DOMAIN amx' = AmxFields /\ amx'.stk = amx.resetStk /\ amx'.hea = amx.resetHea
        /\ amx'.paramcount = amx.paramcount /\ amx'.stp = amx.stp /\ amx'.hlw = amx.hlw
        /\ amx'.resetStk = amx.resetStk /\ amx'.resetHea = amx.resetHea
    BY <1>1, <1>3, <2>1 DEF Aborted, AmxFields
  <2>3. result' # ErrSleep
    BY <2>1 DEF StackError, ErrSleep, ErrStackLow, ErrHeapLow, ErrNone
  <2>4. amx.stp \in Nat
    BY DEF IInv, AmxInv
  <2>5. ~lost => Balanced(amx')
    BY <1>1, <1>2, <2>2, <2>4 DEF Balanced
  <2> QED BY <1>1, <2>1, <2>2, <2>3, <2>5, AtOnceKeeps
<1>5. CASE StackError(SavedRegs) = ErrNone
  <2>1. Start(SavedRegs, mem, slept)
    BY <1>5 DEF HostContinue
  <2> QED BY <1>1, <1>2, <1>3, <2>1, StartKeeps
<1> QED BY <1>4, <1>5

-----------------------------------------------------------------------------
(* Natives.                                                                *)

\* The stack and the heap of the run become those of the AMX structure.
LEMMA SysreqKeeps ==
  ASSUME IInv, WithinSegments, Sysreq
  PROVE  IInv'
<1>1. /\ where = "run" /\ where' = "native" /\ held' = 0
      /\ UNCHANGED <<script, callers, result, lost>>
      /\ \E cip : /\ regs' = Jumped(cip)
                  /\ amx' = Saved(cip) \/ amx' = [Saved(cip) EXCEPT !.error = ErrNone]
  BY DEF Sysreq, At
<1>2. /\ DOMAIN regs' = RegFields /\ regs'.stk = regs.stk /\ regs'.hea = regs.hea
      /\ regs'.resetStk = regs.resetStk /\ regs'.resetHea = regs.resetHea
  BY <1>1 DEF Jumped, IInv, CallersInv, RegsInv, RegFields
<1>3. /\ DOMAIN amx' = AmxFields /\ amx'.stk = regs.stk /\ amx'.hea = regs.hea
      /\ amx'.paramcount = amx.paramcount /\ amx'.stp = amx.stp /\ amx'.hlw = amx.hlw
      /\ amx'.resetStk = amx.resetStk /\ amx'.resetHea = amx.resetHea
  BY <1>1 DEF Saved, IInv, AmxInv, AmxFields
<1>4. DOMAIN native' = NativeFields
  BY DEF Sysreq, NativeFields
<1>5. regs.stk \in Int /\ regs.hea \in Int
  BY <1>1 DEF WithinSegments
<1>6. CodeInv'
  <2>1. \/ code' = code
        \/ \E f : code' = [code EXCEPT ![regs.cip].op = "sysreq_d", ![regs.cip + 1].n = f]
    BY DEF Sysreq
  <2>2. ASSUME NEW f, code' = [code EXCEPT ![regs.cip].op = "sysreq_d", ![regs.cip + 1].n = f]
        PROVE  CodeInv'
    <3> DEFINE p == regs.cip
               one == [code EXCEPT ![p].op = "sysreq_d"]
    <3>1. /\ DOMAIN one = DOMAIN code
          /\ \A a \in DOMAIN code : one[a] = IF a = p THEN [code[a] EXCEPT !.op = "sysreq_d"] ELSE code[a]
      OBVIOUS
    <3>2. \A a \in DOMAIN one : DOMAIN one[a] = CellFields /\ one[a].reg \in {"pri", "alt"}
      BY <3>1 DEF IInv, CodeInv, CellFields
    <3>3. code' = [one EXCEPT ![p + 1].n = f]
      BY <2>2
    <3> HIDE DEF one
    <3>4. /\ DOMAIN code' = DOMAIN one
          /\ \A a \in DOMAIN one : code'[a] = IF a = p + 1 THEN [one[a] EXCEPT !.n = f] ELSE one[a]
      BY <3>3
    <3> QED BY <3>2, <3>4 DEF CodeInv, CellFields
  <2> QED BY <2>1, <2>2 DEF IInv, CodeInv
<1>7. AmxInv'
  BY <1>1, <1>3, <1>5 DEF IInv, AmxInv
<1>8. CallersInv'
  BY <1>1, <1>2, <1>4, <1>5 DEF IInv, CallersInv, CallerInv, RegsInv
<1>9. BaseInv'
  BY <1>1, <1>2, <1>3 DEF IInv, BaseInv, BaseStk, BaseHea
<1>10. BalanceInv'
  <2>1. amx.paramcount = 0
    BY <1>1 DEF IInv, AmxInv
  <2> QED BY <1>1, <1>2, <1>3, <1>5, <2>1 DEF BalanceInv
<1> QED BY <1>6, <1>7, <1>8, <1>9, <1>10 DEF IInv

\* A native that returns.
LEMMA NativeReturnKeeps ==
  ASSUME IInv, NEW v, NativeReturn(v)
  PROVE  IInv'
<1> DEFINE r == [regs EXCEPT !.pri = v, !.num = IF native.direct THEN @ ELSE amx.error]
<1>1. where = "native" /\ amx.paramcount = 0
  BY DEF NativeReturn
<1>2. RegsKept(r) /\ r.stk = regs.stk /\ r.hea = regs.hea
  BY DEF RegsKept, IInv, CallersInv, RegsInv, RegFields
<1>3. \/ /\ amx.error = ErrNone /\ regs' = r /\ amx' = [amx EXCEPT !.cip = r.cip]
         /\ where' = "run" /\ native' = NoCall /\ held' = 0
         /\ UNCHANGED <<script, code, callers, result, lost>>
      \/ /\ amx.error = ErrSleep
         /\ Leave(Asleep(r), IF native.direct THEN r.num ELSE ErrSleep)
         /\ lost' = (lost \/ native.direct)
      \/ amx.error # ErrSleep /\ Abort(r, amx.error)
  BY DEF NativeReturn, image, ErrNone, ErrSleep
<1> HIDE DEF r
<1>4. CASE /\ amx.error = ErrNone /\ regs' = r /\ amx' = [amx EXCEPT !.cip = r.cip]
           /\ where' = "run" /\ native' = NoCall /\ held' = 0
           /\ UNCHANGED <<script, code, callers, result, lost>>
  <2>1. /\ DOMAIN amx' = AmxFields /\ amx'.stk = amx.stk /\ amx'.hea = amx.hea
        /\ amx'.paramcount = amx.paramcount /\ amx'.stp = amx.stp /\ amx'.hlw = amx.hlw
        /\ amx'.resetStk = amx.resetStk /\ amx'.resetHea = amx.resetHea
    BY <1>4 DEF IInv, AmxInv, AmxFields
  <2>2. CodeInv'
    BY <1>4 DEF IInv, CodeInv
  <2>3. AmxInv'
    BY <1>1, <1>4, <2>1 DEF IInv, AmxInv
  <2>4. CallersInv'
    <3>1. DOMAIN native' = NativeFields
      BY <1>4 DEF NoCall, NativeFields
    <3> QED BY <1>1, <1>2, <1>4, <3>1 DEF IInv, CallersInv, CallerInv, RegsInv, RegsKept
  <2>5. BaseInv'
    BY <1>1, <1>2, <1>4, <2>1 DEF IInv, BaseInv, BaseStk, BaseHea, RegsKept
  <2>6. BalanceInv'
    BY <1>4 DEF BalanceInv
  <2> QED BY <2>2, <2>3, <2>4, <2>5, <2>6 DEF IInv
<1>5. CASE /\ amx.error = ErrSleep
           /\ Leave(Asleep(r), IF native.direct THEN r.num ELSE ErrSleep)
           /\ lost' = (lost \/ native.direct)
  <2> DEFINE a == Asleep(r)
             err == IF native.direct THEN r.num ELSE ErrSleep
  <2>1. /\ DOMAIN a = AmxFields /\ a.stk = amx.stk /\ a.hea = amx.hea
        /\ a.resetStk = regs.resetStk /\ a.resetHea = regs.resetHea
        /\ a.stp = amx.stp /\ a.hlw = amx.hlw /\ a.paramcount = 0
    BY <1>1, <1>2 DEF Asleep, IInv, AmxInv, AmxFields, RegsKept
  <2>2. amx.stk \in Int /\ amx.hea \in Int /\ regs.resetStk \in Int /\ regs.resetHea \in Int /\ lost \in BOOLEAN
    BY DEF IInv, AmxInv, CallersInv, RegsInv
  <2>3. LeaveWith(mem, a, err)
    BY <1>5 DEF Leave
  <2>4. (lost => lost') /\ lost' \in BOOLEAN /\ (native.direct => lost')
    BY <1>5, <2>2
  <2>5. ~native.direct => err = ErrSleep
    OBVIOUS
  <2> HIDE DEF a, err
  <2>6. Leavable(a, err) \/ lost'
    BY <2>1, <2>2, <2>4, <2>5 DEF Leavable
  <2> QED BY <1>1, <2>1, <2>2, <2>3, <2>4, <2>6, LeaveKeeps
<1>6. CASE amx.error # ErrSleep /\ Abort(r, amx.error)
  BY <1>1, <1>2, <1>6, AbortKeeps
<1> QED BY <1>3, <1>4, <1>5, <1>6

-----------------------------------------------------------------------------
(* The instructions.                                                       *)

\* What an instruction finds.
LEMMA Running ==
  ASSUME IInv, WithinSegments, where = "run"
  PROVE  /\ where # "host" /\ amx.paramcount = 0
         /\ Instr.reg \in {"pri", "alt"}
         /\ DOMAIN regs = RegFields
         /\ lost \in BOOLEAN
BY DEF WithinSegments, IInv, CodeInv, AmxInv, CallersInv, RegsInv, Instr

\* Whatever the registers of the same run become, but for what they shall leave behind.
LEMMA RegistersKept ==
  ASSUME IInv, NEW n, NEW f \in RegFields \ {"resetStk", "resetHea"}, NEW v
  PROVE  RegsKept([Behind(n) EXCEPT ![f] = v])
BY DEF RegsKept, Behind, IInv, CallersInv, RegsInv, RegFields

\* A jump changes cip only.
LEMMA JumpedKept ==
  ASSUME IInv, NEW to
  PROVE  RegsKept(Jumped(to))
BY DEF RegsKept, Jumped, IInv, CallersInv, RegsInv, RegFields

\* The opcodes that load and store change pri, alt or the data segment, or abort.
LEMMA LoadKeeps ==
  ASSUME IInv, WithinSegments, Load
  PROVE  IInv'
<1>1. PICK v : Go([Behind(2) EXCEPT ![Instr.reg] = v]) /\ where = "run"
  BY DEF Load, At, Continue
<1> QED BY <1>1, Running, RegistersKept, GoKeeps DEF RegFields

\* (STOR, ZERO, INC and DEC)
LEMMA StoreKeeps ==
  ASSUME IInv, Store \/ StoreStep
  PROVE  IInv'
<1>1. where = "run" /\ \E n : Go(Behind(n))
  BY DEF Store, StoreStep, At
<1> QED BY <1>1, BehindKept, GoKeeps

\* (LOAD.I and LIDX)
LEMMA LoadIndirectKeeps ==
  ASSUME IInv, WithinSegments, LoadIndirect
  PROVE  IInv'
<1>1. /\ where = "run"
      /\ \E n : \/ Abort(Behind(n), ErrMemAccess)
                \/ \E v : Go([Behind(n) EXCEPT !.pri = v])
  BY DEF LoadIndirect, At, Continue
<1>2. ErrMemAccess # ErrSleep
  BY DEF ErrMemAccess, ErrSleep
<1> QED BY <1>1, <1>2, Running, RegistersKept, BehindKept, GoKeeps, AbortKeeps DEF RegFields

\* (STOR.I)
LEMMA StoreIndirectKeeps ==
  ASSUME IInv, WithinSegments, StoreIndirect
  PROVE  IInv'
<1>1. where = "run" /\ (Abort(Behind(1), ErrMemAccess) \/ Go(Behind(1)))
  BY DEF StoreIndirect, At
<1>2. ErrMemAccess # ErrSleep
  BY DEF ErrMemAccess, ErrSleep
<1> QED BY <1>1, <1>2, Running, BehindKept, GoKeeps, AbortKeeps

\* (MOVS, CMPS and FILL)
LEMMA BlockKeeps ==
  ASSUME IInv, WithinSegments, Block
  PROVE  IInv'
<1>1. /\ where = "run"
      /\ \/ Abort(Behind(2), ErrMemAccess)
         \/ Go(Behind(2))
         \/ \E v : Go([Behind(2) EXCEPT !.pri = v])
  BY DEF Block, At, Continue
<1>2. ErrMemAccess # ErrSleep
  BY DEF ErrMemAccess, ErrSleep
<1> QED BY <1>1, <1>2, Running, RegistersKept, BehindKept, GoKeeps, AbortKeeps DEF RegFields

\* Constants, addresses and moves end in a register.
LEMMA MovesKeep ==
  ASSUME IInv, WithinSegments, Const \/ IndexAddress \/ Move \/ LCtrl \/ Swap
  PROVE  IInv'
<1>1. /\ where = "run"
      /\ \E n, v, w : \/ Go([Behind(n) EXCEPT ![Instr.reg] = v])
                      \/ Go([Behind(n) EXCEPT !.pri = v])
                      \/ Go([Behind(n) EXCEPT !.pri = v, !.alt = w])
  <2>1. CASE Const
    BY <2>1 DEF Const, At, Continue
  <2>2. CASE IndexAddress
    BY <2>2 DEF IndexAddress, At, Continue
  <2>3. CASE Move
    BY <2>3 DEF Move, At, Continue
  <2>4. CASE LCtrl
    BY <2>4 DEF LCtrl, At, Continue
  <2>5. CASE Swap
    BY <2>5 DEF Swap, At
  <2> QED BY <2>1, <2>2, <2>3, <2>4, <2>5
<1>2. \A n, v, w : RegsKept([Behind(n) EXCEPT !.pri = v, !.alt = w])
  BY DEF RegsKept, Behind, IInv, CallersInv, RegsInv, RegFields
<1> QED BY <1>1, <1>2, Running, RegistersKept, GoKeeps DEF RegFields

\* So does what is computed.
LEMMA ComputationsKeep ==
  ASSUME IInv, WithinSegments, ShiftOp \/ ArithmeticOp \/ CompareOp \/ RegisterOp
  PROVE  IInv'
<1>1. /\ where = "run"
      /\ \E n, v : \/ Go([Behind(n) EXCEPT ![Instr.reg] = v])
                   \/ Go([Behind(n) EXCEPT !.pri = v])
  <2>1. CASE ShiftOp
    BY <2>1 DEF ShiftOp, At, Continue
  <2>2. CASE ArithmeticOp
    BY <2>2 DEF ArithmeticOp, At, Continue
  <2>3. CASE CompareOp
    BY <2>3 DEF CompareOp, At, Continue
  <2>4. CASE RegisterOp
    BY <2>4 DEF RegisterOp, At, Continue
  <2> QED BY <2>1, <2>2, <2>3, <2>4
<1> QED BY <1>1, Running, RegistersKept, GoKeeps DEF RegFields

\* SDIV and UDIV set both registers, or abort.
LEMMA DivideKeeps ==
  ASSUME IInv, WithinSegments, Divide
  PROVE  IInv'
<1>1. /\ where = "run"
      /\ \/ Abort(Behind(1), ErrDivide)
         \/ \E v, w : Go([Behind(1) EXCEPT !.pri = v, !.alt = w])
  BY DEF Divide, At, Continue
<1>2. \A v, w : RegsKept([Behind(1) EXCEPT !.pri = v, !.alt = w])
  BY DEF RegsKept, Behind, IInv, CallersInv, RegsInv, RegFields
<1>3. ErrDivide # ErrSleep
  BY DEF ErrDivide, ErrSleep
<1> QED BY <1>1, <1>2, <1>3, Running, BehindKept, GoKeeps, AbortKeeps

\* SCTRL may set the stack and the heap, not what ABORT takes them back to.
LEMMA SCtrlKeeps ==
  ASSUME IInv, SCtrl
  PROVE  IInv'
<1>1. /\ where = "run"
      /\ \E v : \/ \E f \in {"hea", "stk", "frm"} : Go([Behind(2) EXCEPT ![f] = v])
                \/ Go(Jumped(v))
                \/ Go(Behind(2))
  BY DEF SCtrl, At, Continue
<1> QED BY <1>1, RegistersKept, JumpedKept, BehindKept, GoKeeps DEF RegFields

\* What is pushed, popped and taken from the stack or the heap.
LEMMA PushAllKeeps ==
  ASSUME IInv, where = "run", NEW r, RegsKept(r), NEW cells, PushAll(r, cells)
  PROVE  IInv'
<1>1. Go([r EXCEPT !.stk = @ - Len(cells)])
  BY DEF PushAll
<1>2. RegsKept([r EXCEPT !.stk = @ - Len(cells)])
  BY DEF RegsKept, RegFields
<1> QED BY <1>1, <1>2, GoKeeps

\* PUSH, POP and CALL move the stack, not where ABORT takes it back to.
LEMMA StackKeeps ==
  ASSUME IInv, WithinSegments, PushOp \/ Pop \/ Call
  PROVE  IInv'
<1>1. CASE PushOp
  <2>1. where = "run" /\ \E n, cells : PushAll(Behind(n), cells)
    BY <1>1 DEF PushOp, At
  <2> QED BY <2>1, BehindKept, PushAllKeeps
<1>2. CASE Call
  <2>1. where = "run" /\ \E to, cells : PushAll(Jumped(to), cells)
    BY <1>2 DEF Call, At
  <2> QED BY <2>1, JumpedKept, PushAllKeeps
<1>3. CASE Pop
  <2>1. where = "run" /\ Go([Behind(1) EXCEPT ![Instr.reg] = mem[regs.stk], !.stk = regs.stk + 1])
    BY <1>3 DEF Pop, At, Continue
  <2>2. \A f \in {"pri", "alt"} : \A v, w : RegsKept([Behind(1) EXCEPT ![f] = v, !.stk = w])
    BY DEF RegsKept, Behind, IInv, CallersInv, RegsInv, RegFields
  <2> QED BY <2>1, <2>2, Running, GoKeeps
<1> QED BY <1>1, <1>2, <1>3

\* STACK and HEAP abort when they have used up the margin or reached the other end.
LEMMA StackOrHeapKeeps ==
  ASSUME IInv, WithinSegments, StackOrHeap
  PROVE  IInv'
<1>1. /\ where = "run"
      /\ \E r \in {[Behind(2) EXCEPT !.alt = regs.stk, !.stk = @ + Param],
                   [Behind(2) EXCEPT !.alt = regs.hea, !.hea = @ + Param]} :
            \/ Abort(r, ErrStack)
            \/ StackError(r) # ErrNone /\ Abort(r, StackError(r))
            \/ Go(r)
  BY DEF StackOrHeap, At, Continue
<1>2. /\ RegsKept([Behind(2) EXCEPT !.alt = regs.stk, !.stk = @ + Param])
      /\ RegsKept([Behind(2) EXCEPT !.alt = regs.hea, !.hea = @ + Param])
  BY DEF RegsKept, Behind, IInv, CallersInv, RegsInv, RegFields
<1>3. ErrStack # ErrSleep /\ \A r : StackError(r) # ErrSleep
  BY DEF ErrStack, ErrStackLow, ErrHeapLow, ErrNone, ErrSleep, StackError
<1> QED BY <1>1, <1>2, <1>3, Running, GoKeeps, AbortKeeps

\* PROC saves the frame even when it aborts.
LEMMA ProcKeeps ==
  ASSUME IInv, WithinSegments, Proc
  PROVE  IInv'
<1> DEFINE r == [Behind(1) EXCEPT !.stk = @ - 1, !.frm = regs.stk - 1]
<1>1. /\ where = "run"
      /\ \/ (\E m : LeaveWith(m, Aborted(r), ErrStack)) /\ UNCHANGED lost
         \/ Go(r)
  BY DEF Proc, At
<1>2. RegsKept(r)
  BY DEF RegsKept, Behind, IInv, CallersInv, RegsInv, RegFields
<1> HIDE DEF r
<1>3. Leavable(Aborted(r), ErrStack)
  BY <1>1, <1>2, Running
     DEF Leavable, Aborted, RegsKept, IInv, AmxInv, AmxFields, CallersInv, RegsInv, ErrStack, ErrSleep
<1> QED BY <1>1, <1>2, <1>3, Running, GoKeeps, LeaveKeeps DEF Leavable

\* RET and RETN abort at an address outside the code.
LEMMA ReturnKeeps ==
  ASSUME IInv, WithinSegments, Return
  PROVE  IInv'
<1>1. /\ where = "run"
      /\ \E v, w, to : \/ Abort([regs EXCEPT !.frm = v, !.stk = w], ErrMemAccess)
                       \/ Go([[regs EXCEPT !.frm = v, !.stk = w] EXCEPT !.cip = to, !.stk = @ + mem[@] + 1])
                       \/ Go([[regs EXCEPT !.frm = v, !.stk = w] EXCEPT !.cip = to, !.stk = @])
  <2> DEFINE r == [regs EXCEPT !.frm = mem[regs.stk], !.stk = @ + 2]
             to == mem[regs.stk + 1]
  <2>1. /\ where = "run"
        /\ \/ Abort(r, ErrMemAccess)
           \/ Go([r EXCEPT !.cip = to, !.stk = IF Instr.op = "retn" THEN @ + mem[@] + 1 ELSE @])
    BY DEF Return, At
  <2> QED BY <2>1
<1>2. \A v, w, to : /\ RegsKept([regs EXCEPT !.frm = v, !.stk = w])
                   /\ RegsKept([[regs EXCEPT !.frm = v, !.stk = w] EXCEPT !.cip = to, !.stk = @ + mem[@] + 1])
                   /\ RegsKept([[regs EXCEPT !.frm = v, !.stk = w] EXCEPT !.cip = to, !.stk = @])
  BY DEF RegsKept, IInv, CallersInv, RegsInv, RegFields
<1>3. ErrMemAccess # ErrSleep
  BY DEF ErrMemAccess, ErrSleep
<1> QED BY <1>1, <1>2, <1>3, Running, GoKeeps, AbortKeeps

\* Jumps, SWITCH and what is skipped.
LEMMA JumpsKeep ==
  ASSUME IInv, Jump \/ Switch \/ Skip
  PROVE  IInv'
<1>1. /\ where = "run"
      /\ \E v, to : Go(Jumped(to)) \/ Go(Behind(to)) \/ Go([Jumped(to) EXCEPT !.num = v])
  <2>1. CASE Jump
    BY <2>1 DEF Jump, At, Continue
  <2>2. CASE Switch
    BY <2>2 DEF Switch, At, Continue
  <2>3. CASE Skip
    BY <2>3 DEF Skip, At, Continue
  <2> QED BY <2>1, <2>2, <2>3
<1>2. \A v, to : RegsKept([Jumped(to) EXCEPT !.num = v])
  BY DEF RegsKept, Jumped, IInv, CallersInv, RegsInv, RegFields
<1> QED BY <1>1, <1>2, JumpedKept, BehindKept, GoKeeps

\* BOUNDS goes on or aborts.
LEMMA BoundsKeeps ==
  ASSUME IInv, WithinSegments, Bounds
  PROVE  IInv'
<1>1. where = "run" /\ (Abort(Behind(2), ErrBounds) \/ Go(Behind(2)))
  BY DEF Bounds, At, Continue
<1>2. ErrBounds # ErrSleep
  BY DEF ErrBounds, ErrSleep
<1> QED BY <1>1, <1>2, Running, BehindKept, GoKeeps, AbortKeeps

\* HALT, with or without sleep.
LEMMA HaltKeeps ==
  ASSUME IInv, WithinSegments, Halt
  PROVE  IInv'
<1> DEFINE r == Behind(2)
           dead == [Aborted(r) EXCEPT !.alt = r.alt]
           asleep == [amx EXCEPT !.frm = r.frm, !.pri = r.pri, !.alt = r.alt, !.cip = r.cip,
                                 !.resetStk = r.resetStk, !.resetHea = r.resetHea]
<1>1. /\ where = "run" /\ UNCHANGED lost
      /\ \/ Param # ErrSleep /\ LeaveWith(mem, dead, Param)
         \/ LeaveWith(mem, asleep, ErrSleep)
  BY DEF Halt, At, Leave
<1>2. RegsKept(r)
  BY BehindKept
<1> HIDE DEF r
<1>3. Param # ErrSleep => Leavable(dead, Param)
  BY <1>1, <1>2, Running DEF Leavable, Aborted, RegsKept, IInv, AmxInv, AmxFields, CallersInv, RegsInv
<1>4. Leavable(asleep, ErrSleep)
  BY <1>1, <1>2, Running DEF Leavable, RegsKept, IInv, AmxInv, AmxFields, CallersInv, RegsInv
<1> HIDE DEF dead, asleep
<1> QED BY <1>1, <1>3, <1>4, Running, LeaveKeeps DEF Leavable

\* BREAK, with or without a debug hook.
LEMMA BreakKeeps ==
  ASSUME IInv, WithinSegments, Break
  PROVE  IInv'
<1>1. CASE ~amx.debug
  <2>1. where = "run" /\ Go(Behind(1))
    BY <1>1 DEF Break, At, Continue
  <2> QED BY <2>1, BehindKept, GoKeeps
<1>2. CASE amx.debug
  <2> DEFINE a == Saved(regs.cip + 1)
  <2>1. PICK num \in HookResults :
          LET r == [Behind(1) EXCEPT !.num = num]
          IN CASE num = ErrNone ->
                    regs' = r /\ amx' = a /\ UNCHANGED <<image, mem, control, calls, slept, lost, counters>>
               [] num = ErrSleep ->
                    /\ Leave([a EXCEPT !.pri = r.pri, !.alt = r.alt, !.resetStk = r.resetStk,
                                       !.resetHea = r.resetHea], ErrSleep)
                    /\ UNCHANGED lost
               [] OTHER -> LeaveWith(mem, [Aborted(r) EXCEPT !.cip = a.cip], num) /\ UNCHANGED lost
    BY <1>2 DEF Break
  <2> DEFINE r == [Behind(1) EXCEPT !.num = num]
             asleep == [a EXCEPT !.pri = r.pri, !.alt = r.alt, !.resetStk = r.resetStk, !.resetHea = r.resetHea]
             dead == [Aborted(r) EXCEPT !.cip = a.cip]
  <2>2. \/ /\ regs' = r /\ amx' = a
           /\ UNCHANGED <<script, code, where, native, callers, result, held, lost>>
        \/ LeaveWith(mem, asleep, ErrSleep) /\ UNCHANGED lost
        \/ num # ErrSleep /\ LeaveWith(mem, dead, num) /\ UNCHANGED lost
    BY <2>1 DEF Leave, ErrNone, ErrSleep, image, control
  <2>3. RegsKept(r)
    BY DEF RegsKept, Behind, IInv, CallersInv, RegsInv, RegFields
  <2>4. where = "run"
    BY DEF Break, At
  <2>5. /\ DOMAIN a = AmxFields /\ a.stk \in Int /\ a.hea \in Int
        /\ a.resetStk = amx.resetStk /\ a.resetHea = amx.resetHea
        /\ a.stp = amx.stp /\ a.hlw = amx.hlw /\ a.paramcount = 0
    BY <2>4, Running DEF Saved, WithinSegments, IInv, AmxInv, AmxFields
  <2> HIDE DEF r, a
  <2>6. CASE /\ regs' = r /\ amx' = a
             /\ UNCHANGED <<script, code, where, native, callers, result, held, lost>>
    <3>1. CodeInv'
      BY <2>6 DEF IInv, CodeInv
    <3>2. AmxInv'
      BY <2>4, <2>5, <2>6 DEF IInv, AmxInv
    <3>3. CallersInv'
      BY <2>3, <2>4, <2>6 DEF IInv, CallersInv, CallerInv, RegsInv, RegsKept
    <3>4. BaseInv'
      BY <2>3, <2>4, <2>5, <2>6 DEF IInv, BaseInv, BaseStk, BaseHea, RegsKept
    <3>5. BalanceInv'
      BY <2>4, <2>6 DEF BalanceInv
    <3> QED BY <3>1, <3>2, <3>3, <3>4, <3>5 DEF IInv
  <2>7. Leavable(asleep, ErrSleep)
    BY <2>3, <2>5 DEF Leavable, RegsKept, IInv, AmxFields, CallersInv, RegsInv
  <2>8. num # ErrSleep => Leavable(dead, num)
    BY <2>3, <2>4, Running DEF Leavable, Aborted, RegsKept, IInv, AmxInv, AmxFields, CallersInv, RegsInv
  <2> HIDE DEF dead, asleep
  <2> QED BY <2>2, <2>4, <2>6, <2>7, <2>8, Running, LeaveKeeps DEF Leavable
<1> QED BY <1>1, <1>2 DEF IInv

-----------------------------------------------------------------------------
(* The system.                                                             *)

\* At the start nothing is loaded.
LEMMA InitKeeps ==
  ASSUME SystemInit
  PROVE  IInv
<1>1. /\ script = NoScript /\ code = <<>> /\ amx = ZeroAmx /\ where = "host" /\ regs = NoRegs
      /\ native = NoCall /\ callers = <<>> /\ result = ErrNone /\ held = 0 /\ lost = FALSE
  BY DEF SystemInit, Init
<1>2. CodeInv
  BY <1>1 DEF CodeInv
<1>3. AmxInv
  <2>1. /\ DOMAIN amx = AmxFields /\ amx.stk = 0 /\ amx.hea = 0 /\ amx.stp = 0 /\ amx.hlw = 0
        /\ amx.resetStk = 0 /\ amx.resetHea = 0 /\ amx.paramcount = 0
    BY <1>1 DEF ZeroAmx, AmxFields
  <2>2. lost \in BOOLEAN /\ held = 0 /\ where = "host"
    BY <1>1
  <2> QED BY <2>1, <2>2 DEF AmxInv
<1>4. CallersInv
  BY <1>1 DEF CallersInv, CallerInv, NoCall, NativeFields, NoRegs, RegsInv, RegFields
<1>5. BaseInv
  BY <1>1 DEF BaseInv
<1>6. BalanceInv
  BY <1>1 DEF BalanceInv, ZeroAmx, ErrNone, ErrSleep
<1> QED BY <1>2, <1>3, <1>4, <1>5, <1>6 DEF IInv

\* Every step of the system.
LEMMA NextKeeps ==
  ASSUME IInv, WithinSegments, [SystemNext]_systemVars
  PROVE  IInv'
<1>1. CASE HostStep
  <2>1. ASSUME NEW index, HostExec(index)
        PROVE  IInv'
    BY <2>1, ExecFunctionKeeps DEF HostExec
  <2> QED BY <1>1, <2>1, LoadProgramKeeps, RegisterKeeps, SetDebugHookKeeps, HostContinueKeeps DEF HostStep
<1>2. CASE NativeStep
  <2>1. ASSUME NEW index, NativeExec(index)
        PROVE  IInv'
    BY <2>1, ExecFunctionKeeps DEF NativeExec
  <2> QED BY <1>2, <2>1, NativeRaisesKeeps, NativeReturnKeeps DEF NativeStep
<1>3. CASE CallerStep
  BY <1>3, PushKeeps, PushArrayKeeps, ReleaseKeeps DEF CallerStep
<1>4. CASE Instruction
  BY <1>4, LoadKeeps, StoreKeeps, LoadIndirectKeeps, StoreIndirectKeeps, BlockKeeps, MovesKeep, ComputationsKeep,
     DivideKeeps, SCtrlKeeps, StackKeeps, StackOrHeapKeeps, ProcKeeps, ReturnKeeps, JumpsKeep, BoundsKeeps,
     HaltKeeps, SysreqKeeps, BreakKeeps DEF Instruction
<1>5. CASE RegisterAmx \/ EraseAmx \/ UNCHANGED systemVars
  <2>1. UNCHANGED vars
    BY <1>5 DEF RegisterAmx, EraseAmx, systemVars
  <2>2. DOMAIN amx = AmxFields
    BY DEF IInv, AmxInv
  <2> QED BY <2>1, <2>2, OthersKeep DEF vars
<1>6. CASE Unload
  BY <1>6, FreeProgramKeeps DEF Unload
<1> QED BY <1>1, <1>2, <1>3, <1>4, <1>5, <1>6 DEF SystemNext, AmxStep

\* As long as the scripts keep to their segments, each amx_Exec that waits knows where the one it has
\* called will leave the stack and the heap, and the call leaves them there.
THEOREM MachineInvariant == SystemSpec /\ []WithinSegments => []IInv
<1>1. SystemInit => IInv
  BY InitKeeps
<1>2. IInv /\ WithinSegments /\ [SystemNext]_systemVars => IInv'
  BY NextKeeps
<1> QED BY <1>1, <1>2, PTL DEF SystemSpec

\* However an amx_Exec ends, by HALT, an error, a native's error, within another one or after a sleep,
\* its caller finds the stack without the parameters and the heap with what it had allotted.
THEOREM CallersFindBalance == SystemSpec /\ []WithinSegments => []StackBalanced
<1>1. IInv => StackBalanced
  BY DEF IInv, BalanceInv, StackBalanced
<1> QED BY <1>1, MachineInvariant, PTL

-----------------------------------------------------------------------------
(* The division of the cells.                                              *)

\* What is a cell is not wrapped.
LEMMA WrapsNot ==
  ASSUME NEW c \in Cells
  PROVE  Wrap(c) = c
<1> DEFINE H == Half
<1>1. H \in Nat \ {0} /\ c \in -H..(H - 1)
  BY HalfAssumption DEF Cells
<1>2. Wrap(c) = ((c + H) % (2 * H)) - H
  BY DEF Wrap
<1> HIDE DEF H
<1>3. (c + H) % (2 * H) = c + H
  BY <1>1
<1> QED BY <1>1, <1>2, <1>3

\* Quotient and remainder of natural numbers.
LEMMA NatDivision ==
  ASSUME NEW a \in Nat, NEW b \in Nat \ {0}
  PROVE  /\ a \div b \in Nat
         /\ b * (a \div b) <= a
         /\ a < b * (a \div b) + b
         /\ a % b \in Nat
         /\ a % b = a - b * (a \div b)
OBVIOUS

\* C's division: the remainder has the sign of the dividend.
LEMMA Truncates ==
  ASSUME NEW n \in Int, NEW d \in Int \ {0}
  PROVE  /\ Quotient(n, d) \in Int /\ Remainder(n, d) \in Int
         /\ n = d * Quotient(n, d) + Remainder(n, d)
         /\ n >= 0 => 0 <= Remainder(n, d) /\ Remainder(n, d) < Magnitude(d)
         /\ n < 0 => -Magnitude(d) < Remainder(n, d) /\ Remainder(n, d) <= 0
<1> DEFINE a == Magnitude(n)
           b == Magnitude(d)
           k == a \div b
<1>1. /\ a \in Nat /\ b \in Nat \ {0}
      /\ n >= 0 => n = a
      /\ n < 0 => n = -a
      /\ d > 0 => d = b
      /\ d < 0 => d = -b
  BY DEF Magnitude
<1>2. Quotient(n, d) = IF (n < 0) = (d < 0) THEN k ELSE -k
  BY DEF Quotient
<1> HIDE DEF a, b
<1>3. k \in Nat /\ b * k <= a /\ a < b * k + b
  BY <1>1
<1> HIDE DEF k
<1>4. Quotient(n, d) \in Int
  BY <1>2, <1>3
<1>5. d * Quotient(n, d) = IF n < 0 THEN -(b * k) ELSE b * k
  <2>1. CASE n < 0 /\ d < 0
    BY <1>1, <1>2, <1>3, <2>1
  <2>2. CASE n >= 0 /\ d > 0
    BY <1>1, <1>2, <1>3, <2>2
  <2>3. CASE n < 0 /\ d > 0
    BY <1>1, <1>2, <1>3, <2>3
  <2>4. CASE n >= 0 /\ d < 0
    BY <1>1, <1>2, <1>3, <2>4
  <2> QED BY <2>1, <2>2, <2>3, <2>4
<1>6. Remainder(n, d) = n - d * Quotient(n, d)
  BY DEF Remainder
<1>7. b * k \in Int
  BY <1>1, <1>3
<1>8. Magnitude(d) = b
  BY DEF b
<1> QED BY <1>1, <1>3, <1>4, <1>5, <1>6, <1>7, <1>8

\* The true modulus has the sign of the divisor, and what it leaves is a multiple of it.
LEMMA TrueModulus ==
  ASSUME NEW n \in Int, NEW d \in Int \ {0}, Remainder(n, d) + d \in Cells
  PROVE  /\ Modulus(n, d) \in IF d > 0 THEN 0..(d - 1) ELSE (d + 1)..0
         /\ \E k \in Int : n - Modulus(n, d) = d * k
<1> DEFINE r == Remainder(n, d)
           q == Quotient(n, d)
           m == Modulus(n, d)
           p == Quotient(r + d, d)
           b == Magnitude(d)
<1>0. /\ b \in Nat \ {0}
      /\ d > 0 => b = d
      /\ d < 0 => b = -d
  BY DEF Magnitude
<1>1. q \in Int /\ r \in Int /\ n = d * q + r /\ -b < r /\ r < b
  <2>1. /\ q \in Int /\ r \in Int /\ n = d * q + r
        /\ n >= 0 => 0 <= r /\ r < b
        /\ n < 0 => -b < r /\ r <= 0
    BY Truncates
  <2> HIDE DEF q, r, b
  <2> QED BY <1>0, <2>1
<1>2. m = Remainder(r + d, d)
  BY WrapsNot DEF Modulus
<1> HIDE DEF r, q, m, b
<1>3. r + d \in Int /\ (d > 0 => r + d >= 0) /\ (d < 0 => r + d < 0)
  BY <1>0, <1>1
<1>4. /\ p \in Int /\ m \in Int /\ r + d = d * p + m
      /\ d > 0 => 0 <= m /\ m < b
      /\ d < 0 => -b < m /\ m <= 0
  BY <1>2, <1>3, Truncates DEF b
<1> HIDE DEF p
<1>5. m \in IF d > 0 THEN 0..(d - 1) ELSE (d + 1)..0
  BY <1>0, <1>1, <1>4
<1>6. n - m = d * (q + p - 1) /\ q + p - 1 \in Int
  <2>1. n - m = d * q + (d * p - d)
    BY <1>0, <1>1, <1>4
  <2>2. d * (q + p - 1) = d * q + (d * p - d)
    BY <1>0, <1>1, <1>4
  <2> QED BY <1>1, <1>4, <2>1, <2>2
<1> QED BY <1>5, <1>6 DEF m

\* The quotient of a multiple is exact.
LEMMA ExactQuotient ==
  ASSUME NEW k \in Int, NEW d \in Int \ {0}
  PROVE  Quotient(d * k, d) = k
<1> DEFINE q == Quotient(d * k, d)
           r == Remainder(d * k, d)
           b == Magnitude(d)
<1>0. /\ b \in Nat \ {0}
      /\ d > 0 => b = d
      /\ d < 0 => b = -d
  BY DEF Magnitude
<1>1. q \in Int /\ r \in Int /\ d * k = d * q + r /\ -b < r /\ r < b
  <2>1. d * k \in Int
    OBVIOUS
  <2>2. /\ q \in Int /\ r \in Int /\ d * k = d * q + r
        /\ d * k >= 0 => 0 <= r /\ r < b
        /\ d * k < 0 => -b < r /\ r <= 0
    BY <2>1, Truncates
  <2> HIDE DEF q, r, b
  <2> QED BY <1>0, <2>1, <2>2
<1> HIDE DEF q, r, b
<1>2. r = d * (k - q)
  BY <1>0, <1>1
<1>3. k - q >= 1 => FALSE
  <2> SUFFICES ASSUME k - q >= 1 PROVE FALSE
    OBVIOUS
  <2>1. d > 0 => d * (k - q) >= d
    BY <1>0, <1>1
  <2>2. d < 0 => d * (k - q) <= d
    BY <1>0, <1>1
  <2> QED BY <1>0, <1>1, <1>2, <2>1, <2>2
<1>4. k - q <= -1 => FALSE
  <2> SUFFICES ASSUME k - q <= -1 PROVE FALSE
    OBVIOUS
  <2>1. d > 0 => d * (k - q) <= -d
    BY <1>0, <1>1
  <2>2. d < 0 => d * (k - q) >= -d
    BY <1>0, <1>1
  <2> QED BY <1>0, <1>1, <1>2, <2>1, <2>2
<1> QED BY <1>1, <1>3, <1>4 DEF q

\* SDIV rounds down.
LEMMA RoundsDown ==
  ASSUME NEW n \in Int, NEW d \in Int, DivisionFits(n, d)
  PROVE  /\ DividedDown(n, d) * d + Modulus(n, d) = n
         /\ Modulus(n, d) \in IF d > 0 THEN 0..(d - 1) ELSE (d + 1)..0
<1>1. /\ d # 0 /\ Remainder(n, d) + d \in Cells /\ n - Modulus(n, d) \in Cells
  BY DEF DivisionFits
<1>2. Modulus(n, d) \in IF d > 0 THEN 0..(d - 1) ELSE (d + 1)..0
  BY <1>1, TrueModulus
<1>3. PICK k \in Int : n - Modulus(n, d) = d * k
  BY <1>1, TrueModulus
<1>4. DividedDown(n, d) = k
  BY <1>1, <1>3, WrapsNot, ExactQuotient DEF DividedDown
<1>5. Modulus(n, d) \in Int
  BY <1>2
<1> QED BY <1>2, <1>3, <1>4, <1>5

\* Where there is an SDIV, nothing else runs.
LEMMA DivideAlone ==
  ASSUME At({"sdiv", "sdiv_alt"}), SystemNext
  PROVE  Divide
<1> DEFINE Dividing == where = "run" /\ Instr.op \in {"sdiv", "sdiv_alt"}
<1>0. Dividing
  BY DEF At
<1>1. ~HostStep
  BY <1>0 DEF HostStep, LoadProgram, Register, SetDebugHook, HostExec, HostContinue
<1>2. ~CallerStep
  BY <1>0 DEF CallerStep, Push, PushArray, Release, MayCall
<1>3. ~RegisterAmx /\ ~EraseAmx /\ ~Unload
  BY <1>0 DEF RegisterAmx, EraseAmx, Unload, FreeProgram
<1>4. ~Load /\ ~Store /\ ~StoreStep /\ ~LoadIndirect /\ ~StoreIndirect /\ ~Block
  BY <1>0 DEF At, Load, Store, StoreStep, LoadIndirect, StoreIndirect, Block
<1>5. ~Const /\ ~IndexAddress /\ ~Move /\ ~Swap /\ ~LCtrl /\ ~SCtrl
  BY <1>0 DEF At, Const, IndexAddress, Move, Swap, LCtrl, SCtrl
<1>6. ~PushOp /\ ~Pop /\ ~StackOrHeap /\ ~Proc /\ ~Return /\ ~Call
  BY <1>0 DEF At, PushOp, Pop, StackOrHeap, Proc, Return, Call
<1>7. ~Jump /\ ~Switch
  <2>1. Instr.op \notin {"jzer", "jnz"} \cup DOMAIN Conditions
    BY <1>0 DEF Conditions
  <2> QED BY <1>0, <2>1 DEF At, Jump, Switch
<1>8. ~ShiftOp /\ ~ArithmeticOp /\ ~CompareOp /\ ~RegisterOp
  BY <1>0 DEF At, ShiftOp, ArithmeticOp, CompareOp, RegisterOp, Relations
<1>9. ~Halt /\ ~Bounds /\ ~Sysreq /\ ~Break /\ ~Skip
  BY <1>0 DEF At, Halt, Bounds, Sysreq, Break, Skip
<1> QED BY <1>0, <1>1, <1>2, <1>3, <1>4, <1>5, <1>6, <1>7, <1>8, <1>9 DEF SystemNext, AmxStep, Instruction

\* What SDIV computes is what its step leaves in the registers.
LEMMA DivideFloors ==
  ASSUME IInv, RegistersAreCells, SystemNext
  PROVE  FloorsStep
<1> SUFFICES ASSUME At({"sdiv", "sdiv_alt"})
             PROVE  FloorsStep
  BY DEF FloorsStep
<1> DEFINE n == IF Instr.op = "sdiv" THEN regs.pri ELSE regs.alt
           d == IF Instr.op = "sdiv" THEN regs.alt ELSE regs.pri
<1> SUFFICES ASSUME DivisionFits(n, d)
             PROVE  /\ regs'.pri * d + regs'.alt = n
                    /\ regs'.alt \in IF d > 0 THEN 0..(d - 1) ELSE (d + 1)..0
  BY DEF FloorsStep
<1>1. where = "run" /\ Instr.op \in {"sdiv", "sdiv_alt"}
  BY DEF At
<1>2. n \in Int /\ d \in Int
  BY <1>1, HalfAssumption DEF RegistersAreCells, Cells
<1>3. d # 0
  BY DEF DivisionFits
<1>4. regs' = [Behind(1) EXCEPT !.pri = DividedDown(n, d), !.alt = Modulus(n, d)]
  <2>1. Divide
    BY DivideAlone
  <2> QED BY <1>1, <1>3, <2>1 DEF Divide, Continue, Go
<1> HIDE DEF n, d
<1>5. regs'.pri = DividedDown(n, d) /\ regs'.alt = Modulus(n, d)
  BY <1>4 DEF Behind, IInv, CallersInv, RegsInv, RegFields
<1> QED BY <1>2, <1>5, RoundsDown

\* The quotient and the remainder that SDIV leaves belong together, for cells of every width.
THEOREM SdivFloors == SystemSpec /\ []WithinSegments /\ []RegistersAreCells => DivisionFloors
<1>1. IInv /\ RegistersAreCells /\ [SystemNext]_systemVars => [FloorsStep]_regs
  BY DivideFloors DEF systemVars, vars
<1> QED BY <1>1, MachineInvariant, PTL DEF SystemSpec, DivisionFloors

-----------------------------------------------------------------------------
(* The debug tables.                                                       *)

\* A set of numbers has a least one.
LEMMA MinExists ==
  ASSUME NEW S \in SUBSET Nat, S # {}
  PROVE  \E n \in S : \A m \in S : n <= m
<1> DEFINE R == OpToRel(<, Nat)
<1>1. IsWellFoundedOn(R, Nat)
  BY NatLessThanWellFounded, Zenon
<1>2. \A m, n \in S : m < n => <<m, n>> \in R
  BY Zenon DEF OpToRel
<1> HIDE DEF R
<1>3. PICK n \in S : \A m \in S : ~ (<<m, n>> \in R)
  BY <1>1, WFMin
<1>4. \A m \in S : ~(m < n)
  BY ONLY <1>2, <1>3
<1>5. n \in Nat /\ \A m \in S : m \in Nat
  BY ONLY n \in S, S \in SUBSET Nat
<1> QED BY <1>4, <1>5

\* One divisor more.
LEMMA NextMultiple ==
  ASSUME NEW a \in Nat, NEW b \in Nat \ {0}
  PROVE  (a + b) \div b = (a \div b) + 1
<1> DEFINE q == a \div b
           p == (a + b) \div b
<1>1. /\ q \in Nat /\ p \in Nat
      /\ b * q <= a /\ a < b * q + b
      /\ b * p <= a + b /\ a + b < b * p + b
  <2>1. a + b \in Nat
    OBVIOUS
  <2> QED BY <2>1, NatDivision
<1> HIDE DEF p, q
<1>2. b * (p - q) < b + b /\ b * (p - q) > 0
  BY <1>1
<1>3. ~(p - q >= 2)
  <2> SUFFICES ASSUME p - q >= 2 PROVE FALSE
    OBVIOUS
  <2>1. b * (p - q) >= b + b
    BY <1>1
  <2> QED BY <1>1, <1>2, <2>1
<1>4. ~(p - q <= 0)
  <2> SUFFICES ASSUME p - q <= 0 PROVE FALSE
    OBVIOUS
  <2>1. b * (p - q) <= 0
    BY <1>1
  <2> QED BY <1>1, <1>2, <2>1
<1> QED BY <1>1, <1>3, <1>4 DEF p, q

\* The records that dbg_LoadInfo comes to, from the count in the header.
LEMMA AllLinesCounted ==
  ASSUME NEW file, TablesCompiled(file), TablesRecognisable(file)
  PROVE  NumLines(file) = Len(file.lines)
<1> DEFINE L == Len(file.lines)
           M == LinesMod
           Rises(n) == RecordAddress(file, n + 1) > RecordAddress(file, n)
           Steps(f) == [n \in Nat |-> IF Rises(n) THEN f[n + M] ELSE n]
           last == CHOOSE f : f = Steps(f)
<1>1. /\ L \in Nat \ {0} /\ M \in Nat \ {0} /\ L % M # 0
      /\ \A n \in 1..(L - 1) : Rises(n)
      /\ ~Rises(L)
  <2>1. L \in Nat /\ M \in Nat \ {0} /\ L % M # 0
    <3>1. file.lines \in Seq([address : Int, line : Int])
      BY DEF TablesCompiled
    <3>2. L \in Nat
      BY <3>1
    <3>3. L % M # 0
      BY DEF TablesRecognisable
    <3> QED BY <3>2, <3>3, LinesAssumption
  <2>2. L # 0
    <3> HIDE DEF L, M
    <3>1. 0 % M = 0
      BY <2>1
    <3> QED BY <2>1, <3>1
  <2> QED BY <2>1, <2>2 DEF TablesCompiled, TablesRecognisable
<1>2. \A n \in Nat : n > L => ~Rises(n)
  BY <1>1 DEF TablesCompiled, RecordAddress
<1>3. NumLines(file) = last[L % M]
  BY DEF NumLines
<1> HIDE DEF L, M, Rises
<1>4. last = Steps(last)
  <2> DEFINE h(n) == IF n >= L THEN n ELSE n + M * ((L - n + M - 1) \div M)
             g == [n \in Nat |-> IF n = 0 THEN IF Rises(0) THEN h(M) ELSE 0 ELSE h(n)]
  <2>1. ASSUME NEW n \in 1..(L - 1)
        PROVE  h(n) = h(n + M)
    <3>1. CASE n + M >= L
      <4>1. L - n - 1 \in 0..(M - 1)
        BY <1>1, <2>1, <3>1
      <4>2. (L - n - 1) \div M = 0
        BY <1>1, <4>1
      <4>3. (L - n - 1 + M) \div M = 1
        <5> DEFINE a == L - n - 1
        <5>1. a \in Nat /\ a \div M = 0
          BY <1>1, <4>1, <4>2
        <5> HIDE DEF a
        <5>2. (a + M) \div M = (a \div M) + 1
          BY <1>1, <5>1, NextMultiple
        <5> QED BY <5>1, <5>2 DEF a
      <4>4. L - n + M - 1 = L - n - 1 + M
        BY <1>1
      <4> QED BY <1>1, <3>1, <4>3, <4>4
    <3>2. CASE n + M < L
      <4> DEFINE a == L - (n + M) + M - 1
      <4>1. a \in Nat /\ L - n + M - 1 = a + M
        BY <1>1, <3>2
      <4>2. (a + M) \div M = (a \div M) + 1 /\ a \div M \in Nat
        BY <1>1, <4>1, NextMultiple, NatDivision
      <4>3. h(n) = n + M * ((a \div M) + 1)
        BY <1>1, <3>2, <4>1, <4>2
      <4>4. h(n + M) = n + M + M * (a \div M)
        BY <1>1, <3>2
      <4> HIDE DEF a, h
      <4> QED BY <1>1, <4>2, <4>3, <4>4
    <3> QED BY <1>1, <3>1, <3>2
  <2>2. \A n \in Nat : g[n] = IF Rises(n) THEN g[n + M] ELSE n
    <3> SUFFICES ASSUME NEW n \in Nat
                 PROVE  g[n] = IF Rises(n) THEN g[n + M] ELSE n
      OBVIOUS
    <3>1. n + M \in Nat /\ g[n + M] = h(n + M)
      BY <1>1
    <3>2. CASE n = 0
      <4>1. g[0] = (IF Rises(0) THEN h(M) ELSE 0) /\ g[M] = h(M) /\ 0 + M = M
        BY <1>1
      <4> HIDE DEF g, h
      <4> QED BY <3>2, <4>1
    <3>3. CASE n \in 1..(L - 1)
      <4>1. g[n] = h(n) /\ Rises(n)
        BY <1>1, <3>3
      <4> QED BY <2>1, <3>1, <3>3, <4>1
    <3>4. CASE n >= L
      <4>1. g[n] = n /\ ~Rises(n)
        BY <1>1, <1>2, <3>4
      <4> QED BY <4>1
    <3> QED BY <1>1, <3>2, <3>3, <3>4
  <2> HIDE DEF h
  <2>3. g = Steps(g)
    BY <2>2
  <2> HIDE DEF g
  <2> QED BY <2>3
<1>5. \A n \in Nat : last[n] = IF Rises(n) THEN last[n + M] ELSE n
  <2> HIDE DEF last
  <2> QED BY <1>4
<1> HIDE DEF last
<1> DEFINE Wrong == {k \in Nat : L - M * k >= 1 /\ last[L - M * k] # L}
<1>6. Wrong = {}
  <2> SUFFICES ASSUME Wrong # {} PROVE FALSE
    OBVIOUS
  <2>1. PICK k \in Wrong : \A j \in Wrong : k <= j
    <3>1. Wrong \in SUBSET Nat
      OBVIOUS
    <3> HIDE DEF Wrong
    <3> QED BY <3>1, MinExists
  <2>2. k # 0
    BY <1>1, <1>5, <2>1
  <2>3. k - 1 \in Nat /\ L - M * (k - 1) = L - M * k + M
    BY <1>1, <2>1, <2>2
  <2>4. last[L - M * (k - 1)] = L
    <3>1. k - 1 \notin Wrong
      BY <2>1, <2>3
    <3>2. L - M * (k - 1) >= 1
      BY <1>1, <2>1, <2>3
    <3> QED BY <2>3, <3>1, <3>2
  <2>5. Rises(L - M * k) /\ L - M * k \in Nat
    <3>1. M * k \in Nat /\ M * k >= 1
      BY <1>1, <2>1, <2>2
    <3>2. L - M * k \in 1..(L - 1)
      BY <1>1, <2>1, <3>1
    <3> QED BY <1>1, <3>2
  <2> QED BY <1>5, <2>1, <2>3, <2>4, <2>5
<1>7. /\ L \div M \in Nat /\ L - M * (L \div M) = L % M
      /\ L % M >= 1
  <2> DEFINE q == L \div M
             r == L % M
  <2>1. q \in Nat /\ r = L - M * q /\ r \in Nat /\ r # 0
    BY <1>1, NatDivision
  <2> HIDE DEF q, r
  <2>2. M * q \in Int
    BY <1>1, <2>1
  <2>3. L - M * q = r /\ r >= 1
    BY <1>1, <2>1, <2>2
  <2> QED BY <2>1, <2>3 DEF q, r
<1> QED BY <1>3, <1>6, <1>7 DEF L

\* However often the count of the lines has wrapped round in the 16 bits of the header, dbg_LoadInfo
\* has loaded all of the table and nothing of what follows it.
THEOREM AllLinesLoaded ==
  ASSUME NEW file, TablesCompiled(file), TablesRecognisable(file)
  PROVE  LoadInfo(file).lines = file.lines
<1>1. file.lines \in Seq([address : Int, line : Int])
  BY DEF TablesCompiled
<1>2. SubSeq(file.lines, 1, Len(file.lines)) = file.lines
  BY <1>1
<1> QED BY <1>2, AllLinesCounted DEF LoadInfo

-----------------------------------------------------------------------------
(* Looking an address up.                                                  *)

\* Min finds the least element of a set of numbers ...
LEMMA MinFound ==
  ASSUME NEW S \in SUBSET Nat, S # {}
  PROVE  Min(S) \in S /\ \A m \in S : Min(S) <= m
<1>1. \E n \in S : \A m \in S : n <= m
  BY MinExists
<1> QED BY <1>1 DEF Min

\* ... and Max the greatest one of a set that has a bound.
LEMMA MaxFound ==
  ASSUME NEW k \in Nat, NEW S \in SUBSET (0..k), S # {}
  PROVE  Max(S) \in S /\ \A m \in S : m <= Max(S)
<1> DEFINE T == {d \in 0..k : k - d \in S}
<1>1. T \in SUBSET Nat /\ T # {}
  <2>1. PICK m \in S : TRUE
    OBVIOUS
  <2>2. k - m \in 0..k /\ k - (k - m) = m
    BY <2>1
  <2>3. k - m \in T
    BY <2>1, <2>2
  <2>4. T \in SUBSET Nat
    OBVIOUS
  <2> HIDE DEF T
  <2> QED BY <2>3, <2>4
<1> HIDE DEF T
<1>2. PICK d \in T : \A e \in T : d <= e
  BY <1>1, MinExists
<1>3. k - d \in S /\ d \in 0..k
  BY <1>2 DEF T
<1>4. ASSUME NEW m \in S
      PROVE  k - d >= m
  <2>1. m \in 0..k /\ k - m \in 0..k /\ k - (k - m) = m
    OBVIOUS
  <2>2. k - m \in T
    BY <2>1 DEF T
  <2>3. d <= k - m
    BY <1>2, <2>2
  <2> QED BY <1>3, <2>1, <2>3
<1>5. \E x \in S : \A y \in S : x >= y
  BY <1>3, <1>4
<1>6. Max(S) \in S /\ \A m \in S : Max(S) >= m
  BY <1>5 DEF Max
<1>7. \A m \in S : m \in Int
  OBVIOUS
<1> HIDE <1>5
<1> QED BY <1>6, <1>7

\* The record of an address is the last of those at the front of the table that do not lie above it.
LEMMA RecordFound ==
  ASSUME NEW R, NEW table \in Seq(R), NEW a \in Int,
         \A n \in DOMAIN table : table[n].address \in Int
  PROVE  /\ RecordAt(table, a) \in 0..Len(table)
         /\ \A n \in 1..RecordAt(table, a) : table[n].address <= a
         /\ RecordAt(table, a) < Len(table) => a < table[RecordAt(table, a) + 1].address
<1> DEFINE later == {i \in DOMAIN table : table[i].address > a}
<1>1. Len(table) \in Nat /\ DOMAIN table = 1..Len(table)
  OBVIOUS
<1>2. RecordAt(table, a) = IF later = {} THEN Len(table) ELSE Min(later) - 1
  BY DEF RecordAt
<1>3. CASE later = {}
  <2>1. \A n \in 1..Len(table) : table[n].address <= a
    BY <1>1, <1>3
  <2> QED BY <1>1, <1>2, <1>3, <2>1
<1>4. CASE later # {}
  <2>1. Min(later) \in later /\ \A m \in later : Min(later) <= m
    <3>1. later \in SUBSET Nat
      BY <1>1
    <3> HIDE DEF later
    <3> QED BY <1>4, <3>1, MinFound
  <2> DEFINE k == Min(later)
  <2>2. k \in 1..Len(table) /\ table[k].address > a
    BY <1>1, <2>1
  <2>3. ASSUME NEW n \in 1..(k - 1)
        PROVE  table[n].address <= a
    <3>1. n \in DOMAIN table /\ ~(k <= n)
      BY <1>1, <2>2
    <3>2. n \notin later
      BY <2>1, <3>1
    <3> QED BY <3>1, <3>2
  <2>4. RecordAt(table, a) = k - 1
    BY <1>2, <1>4
  <2> HIDE DEF k, later
  <2> QED BY <1>1, <2>2, <2>3, <2>4
<1> QED BY <1>3, <1>4

\* The function that is looked up is one around the address, if there is one.
LEMMA FunctionFound ==
  ASSUME NEW info, NEW R, info.symbols \in Seq(R), NEW a
  PROVE  LET around(i) == /\ info.symbols[i].ident = iFunction
                          /\ info.symbols[i].codestart <= a
                          /\ info.symbols[i].codeend > a
             found == LookupFunction(info, a)
         IN (\E i \in DOMAIN info.symbols : around(i)) =>
              found # 0 /\ found \in DOMAIN info.symbols /\ around(found)
<1> DEFINE around(i) == /\ info.symbols[i].ident = iFunction
                        /\ info.symbols[i].codestart <= a
                        /\ info.symbols[i].codeend > a
           S == {i \in DOMAIN info.symbols : around(i)}
           k == Len(info.symbols)
<1>1. k \in Nat /\ DOMAIN info.symbols = 1..k
  OBVIOUS
<1>2. LookupFunction(info, a) = Max({0} \cup S)
  BY DEF LookupFunction
<1>3. S \subseteq 1..k
  BY <1>1
<1>4. \A i \in S : i \in DOMAIN info.symbols /\ around(i)
  OBVIOUS
<1> HIDE DEF S, k
<1>5. /\ Max({0} \cup S) \in {0} \cup S
      /\ \A m \in {0} \cup S : m <= Max({0} \cup S)
  <2>1. {0} \cup S \in SUBSET (0..k) /\ {0} \cup S # {}
    BY <1>1, <1>3
  <2> QED BY <1>1, <2>1, MaxFound
<1>6. ASSUME NEW i \in S
      PROVE  Max({0} \cup S) # 0
  <2>1. i \in 1..k
    BY <1>3
  <2>2. i <= Max({0} \cup S)
    BY <1>5
  <2> HIDE <1>5
  <2>3. ~(i <= 0)
    BY <1>1, <2>1
  <2> QED BY <2>2, <2>3
<1>7. (\E i \in DOMAIN info.symbols : around(i)) => \E i \in S : TRUE
  BY DEF S
<1> HIDE DEF around
<1>8. (\E i \in DOMAIN info.symbols : around(i)) =>
        LookupFunction(info, a) # 0 /\ LookupFunction(info, a) \in S
  BY <1>2, <1>5, <1>6, <1>7
<1> QED BY <1>4, <1>8 DEF around

\* In the tables of a compiled script an address is found with its line, its file and its function,
\* unless it belongs to no line or to the last one.
LEMMA LookupExact ==
  ASSUME NEW s \in DOMAIN Scripts, NEW file, NEW a \in DOMAIN Scripts[s].source,
         TablesCompiled(file), TablesRecognisable(file), TablesDescribe(file, s)
  PROVE  FunctionCall(LoadInfo(file), a) =
           LET source == Scripts[s].source
           IN IF source[a].line = 0 \/ InLastLine(s, a) THEN NoInfoFound
              ELSE [line |-> source[a].line, file |-> source[a].file, function |-> source[a].function]
<1> DEFINE source == Scripts[s].source
           info == LoadInfo(file)
           n == RecordAt(file.lines, a)
           f == RecordAt(file.files, a)
           g == LookupFunction(info, a)
           last == Len(file.lines)
           around(i) == /\ file.symbols[i].ident = iFunction
                        /\ file.symbols[i].codestart <= a
                        /\ file.symbols[i].codeend > a
<1>1. info.lines = file.lines /\ info.files = file.files /\ info.symbols = file.symbols
  BY AllLinesLoaded DEF LoadInfo
<1>2. /\ file.lines \in Seq([address : Int, line : Int])
      /\ \A m \in DOMAIN file.lines : file.lines[m].address \in Int
      /\ last \in Nat \ {0} /\ DOMAIN file.lines = 1..last
      /\ \A m \in 1..(last - 1) : file.lines[m + 1].address > file.lines[m].address
  <2>1. file.lines \in Seq([address : Int, line : Int]) /\ last \in Nat /\ DOMAIN file.lines = 1..last
    BY DEF TablesCompiled
  <2>2. last # 0
    <3>1. 0 % LinesMod = 0
      BY LinesAssumption
    <3> QED BY <3>1 DEF TablesRecognisable
  <2>3. \A m \in 1..(last - 1) : m <= last /\ m + 1 <= last
    BY <2>1
  <2>4. \A m \in 1..(last - 1) : file.lines[m + 1].address > file.lines[m].address
    BY <2>3 DEF TablesCompiled, RecordAddress
  <2>5. \A m \in DOMAIN file.lines : file.lines[m].address \in Int
    <3>1. \A m \in DOMAIN file.lines : file.lines[m] \in [address : Int, line : Int]
      BY <2>1, ElementOfSeq, Zenon
    <3> QED BY <3>1
  <2> QED BY <2>1, <2>2, <2>4, <2>5
<1>3. /\ a \in Int
      /\ a < file.lines[1].address => source[a].line = 0
      /\ \A m \in DOMAIN file.lines :
           /\ file.lines[m].address <= a
           /\ m < last => a < file.lines[m + 1].address
           => source[a].line = file.lines[m].line + 1
      /\ \A m \in DOMAIN file.files :
           /\ file.files[m].address <= a
           /\ m < Len(file.files) => a < file.files[m + 1].address
           => source[a].file = file.files[m].name
      /\ a >= file.lines[1].address => \E i \in DOMAIN file.symbols : around(i)
      /\ \A i \in DOMAIN file.symbols : around(i) => source[a].function = file.symbols[i].name
      /\ InLastLine(s, a) <=> a >= file.lines[last].address
  BY DEF TablesDescribe
<1>4. /\ \A m \in DOMAIN file.lines : file.lines[m].line \in Nat
      /\ file.files \in Seq([address : Int, name : STRING]) /\ file.files # <<>>
      /\ file.files[1].address <= file.lines[1].address
      /\ file.symbols \in Seq([ident : Int, address : Int, codestart : Int, codeend : Int, name : STRING])
  BY DEF TablesDescribe
<1>5. FunctionCall(info, a) =
        IF n = last \/ 0 \in {n, f, g} THEN NoInfoFound
        ELSE [line |-> file.lines[n].line + 1, file |-> file.files[f].name,
              function |-> file.symbols[g].name]
  BY <1>1 DEF FunctionCall, LookupFile
<1>6. /\ n \in 0..last
      /\ \A m \in 1..n : file.lines[m].address <= a
      /\ n < last => a < file.lines[n + 1].address
  BY <1>2, <1>3, RecordFound
<1>7. InLastLine(s, a) <=> n = last
  <2>1. CASE n = last
    BY <1>2, <1>3, <1>6, <2>1
  <2>2. ASSUME n # last, a >= file.lines[last].address
        PROVE  FALSE
    <3> DEFINE T == {m \in (n + 1)..last : file.lines[m].address <= a}
    <3>1. T \in SUBSET Nat /\ last \in T
      BY <1>2, <1>3, <1>6, <2>2
    <3> HIDE DEF T
    <3>2. PICK m \in T : \A k \in T : m <= k
      BY <3>1, MinExists
    <3>3. m \in (n + 1)..last /\ file.lines[m].address <= a
      BY <3>2 DEF T
    <3>4. m # n + 1
      <4>1. n < last /\ n + 1 \in DOMAIN file.lines
        BY <1>2, <1>6, <2>2
      <4>2. a < file.lines[n + 1].address /\ file.lines[n + 1].address \in Int
        BY <1>2, <1>6, <4>1
      <4>3. ~(file.lines[n + 1].address <= a)
        BY ONLY <4>2, <1>3
      <4> QED BY <3>3, <4>3
    <3>5. m - 1 \in (n + 1)..last /\ m - 1 \in 1..(last - 1) /\ m - 1 + 1 = m
      <4>1. n \in Nat /\ last \in Nat /\ m \in (n + 1)..last
        BY <1>2, <1>6, <3>3
      <4> QED BY ONLY <3>4, <4>1
    <3>6. ~(file.lines[m - 1].address <= a)
      <4>1. m - 1 \notin T
        BY <3>2, <3>3, <3>5, <1>2, <1>6
      <4> QED BY <4>1, <3>5 DEF T
    <3>7. file.lines[m].address > file.lines[m - 1].address
      BY <1>2, <3>5
    <3>8. file.lines[m].address \in Int /\ file.lines[m - 1].address \in Int
      <4>1. m \in DOMAIN file.lines /\ m - 1 \in DOMAIN file.lines
        BY <1>2, <1>6, <3>3, <3>5
      <4> QED BY <1>2, <4>1
    <3> QED BY <1>3, <3>3, <3>6, <3>7, <3>8
  <2> QED BY <1>3, <2>1, <2>2
<1> HIDE DEF n, f, g, last, source, around, info
<1>8. CASE n = 0
  <2>1. a < file.lines[1].address
    BY <1>2, <1>6, <1>8
  <2> QED BY <1>3, <1>5, <1>8, <2>1 DEF source, info
<1>9. CASE n # 0 /\ n = last
  BY <1>5, <1>7, <1>9 DEF info
<1>10. CASE n # 0 /\ n # last
  <2>1. n \in DOMAIN file.lines /\ 1 \in 1..n
    BY <1>2, <1>6, <1>10
  <2>2. file.lines[1].address <= a /\ file.lines[n].address <= a /\ 1 \in DOMAIN file.lines
    BY <1>2, <1>6, <2>1
  <2>3. source[a].line = file.lines[n].line + 1 /\ source[a].line # 0
    <3>1. source[a].line = file.lines[n].line + 1
      BY <1>3, <1>6, <2>1, <2>2
    <3> QED BY <1>4, <2>1, <3>1
  <2>4. f # 0 /\ source[a].file = file.files[f].name
    <3>1. /\ Len(file.files) \in Nat \ {0} /\ DOMAIN file.files = 1..Len(file.files)
          /\ \A m \in DOMAIN file.files : file.files[m].address \in Int
      <4>1. Len(file.files) \in Nat \ {0} /\ DOMAIN file.files = 1..Len(file.files)
        BY <1>4
      <4>2. \A m \in DOMAIN file.files : file.files[m] \in [address : Int, name : STRING]
        BY <1>4, <4>1, ElementOfSeq, Zenon
      <4> QED BY <4>1, <4>2
    <3>2. /\ f \in 0..Len(file.files)
          /\ \A m \in 1..f : file.files[m].address <= a
          /\ f < Len(file.files) => a < file.files[f + 1].address
      BY <1>3, <1>4, <3>1, RecordFound DEF f
    <3>3. file.files[1].address <= a
      <4>1. file.files[1].address \in Int /\ file.lines[1].address \in Int
        BY <1>2, <2>2, <3>1
      <4>2. file.files[1].address <= file.lines[1].address
        BY <1>4
      <4>3. a \in Int /\ file.lines[1].address <= a
        BY <1>3, <2>2
      <4> QED BY ONLY <4>1, <4>2, <4>3
    <3>4. f # 0
      <4> SUFFICES ASSUME f = 0 PROVE FALSE
        OBVIOUS
      <4>1. a < file.files[1].address
        BY <3>1, <3>2
      <4>2. file.files[1].address \in Int
        BY <3>1
      <4> QED BY <1>3, <3>3, <4>1, <4>2
    <3>5. f \in DOMAIN file.files /\ file.files[f].address <= a
      BY <3>1, <3>2, <3>4
    <3> QED BY <1>3, <3>2, <3>4, <3>5
  <2>5. g # 0 /\ source[a].function = file.symbols[g].name
    <3>1. \E i \in DOMAIN file.symbols : around(i)
      <4>1. a >= file.lines[1].address
        BY <1>2, <1>3, <2>2
      <4> QED BY <1>3, <4>1
    <3>2. g # 0 /\ g \in DOMAIN file.symbols /\ around(g)
      BY <1>1, <1>4, <3>1, FunctionFound DEF g, around
    <3> QED BY <1>3, <3>2
  <2>6. ~InLastLine(s, a)
    BY <1>7, <1>10
  <2>7. FunctionCall(info, a) =
          [line |-> file.lines[n].line + 1, file |-> file.files[f].name, function |-> file.symbols[g].name]
    BY <1>5, <1>10, <2>4, <2>5
  <2> QED BY <2>3, <2>4, <2>5, <2>6, <2>7 DEF source, info
<1> QED BY <1>8, <1>9, <1>10

\* What the manager has loaded at its start ...
InfoInv == availableDebugInfo \subseteq InitDebugData(ServerFiles)

\* ... is what it keeps.
LEMMA InformationKept == SystemSpec => []InfoInv
<1>1. SystemInit => InfoInv
  <2>1. \A F : F \subseteq ServerFiles => InitDebugData(F) \subseteq InitDebugData(ServerFiles)
    BY DEF InitDebugData
  <2>2. {Gamemodes[g] : g \in GetGamemodeList \cap DOMAIN Gamemodes} \subseteq ServerFiles
    BY DEF ServerFiles
  <2>3. {e.file : e \in {d \in FilterScripts : ~d.hidden /\ d.amx}} \subseteq ServerFiles
    BY DEF ServerFiles
  <2> QED BY <2>1, <2>2, <2>3 DEF SystemInit, ManagerInit, InitDebugDataDir, InfoInv
<1>2. InfoInv /\ [SystemNext]_systemVars => InfoInv'
  <2>1. [SystemNext]_systemVars => availableDebugInfo' = availableDebugInfo
    BY DEF SystemNext, RegisterAmx, EraseAmx, Unload, systemVars, debugVars
  <2> QED BY <2>1 DEF InfoInv, InitDebugData, LoadInfo
<1> QED BY <1>1, <1>2, PTL DEF SystemSpec

\* GetFunctionCall finds the file, the function and the line of every address of a script that the server's
\* configuration names, however long its tables are, and refuses only what belongs to no line or to the last.
THEOREM LookupsAreExact ==
  ASSUME FilesDescribe
  PROVE  SystemSpec => []LookupsExact
<1>1. InfoInv => LookupsExact
  <2> SUFFICES ASSUME InfoInv, NEW s \in DOMAIN Scripts, NEW d \in availableDebugInfo,
                      d.header = Scripts[s].header, NEW a \in DOMAIN Scripts[s].source
               PROVE  FunctionCall(d.info, a) =
                        LET source == Scripts[s].source
                        IN IF source[a].line = 0 \/ InLastLine(s, a) THEN NoInfoFound
                           ELSE [line |-> source[a].line, file |-> source[a].file, function |-> source[a].function]
    BY DEF LookupsExact
  <2>1. PICK f \in ServerFiles : ~Refuses(f) /\ d.header = f.header /\ d.info = LoadInfo(f)
    BY DEF InitDebugData, InfoInv
  <2>2. TablesCompiled(f) /\ TablesRecognisable(f) /\ TablesDescribe(f, s)
    BY <2>1 DEF FilesDescribe
  <2> QED BY <2>1, <2>2, LookupExact
<1> QED BY <1>1, InformationKept, PTL
=============================================================================
