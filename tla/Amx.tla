--------------------------------- MODULE Amx ---------------------------------
(***************************************************************************)
(* The abstract machine of amx.c (the GNU C interpreter): loading a        *)
(* script, registering natives, and amx_Exec, one action per group of      *)
(* opcodes.  The host is the server; a native is a function of a plugin,   *)
(* which may raise an error, call amx_Push and run another amx_Exec before *)
(* it returns.                                                             *)
(*                                                                         *)
(* sizeof(cell) is 1: an address is the number of a cell, from the start   *)
(* of the code or of the data segment.  The data segment holds the globals *)
(* below hlw, the heap up to hea, and the stack from stk up to stp.        *)
(*                                                                         *)
(* A cell of the code is [op, reg, mode, n]: an opcode with the register   *)
(* and the address mode its name carries, or a parameter n.                *)
(***************************************************************************)
EXTENDS AmxCells, Sequences, SequencesExt

CONSTANTS
  Scripts,       \* the compiled scripts: [code, main, publics, natives, data, hlw, stp, header], and
                 \* what the source says of the code: starts (the addresses of the instructions),
                 \* labels (the cells with an address of the code) and source (where an address is from)
  NativeLists,   \* the lists of natives the plugins register
  Garbage,       \* what an uninitialised register may hold
  Fill,          \* what the heap and the stack hold when they have been allocated
  Values,        \* what each native may return
  Errors,        \* what each native may raise with amx_RaiseError
  Callbacks,     \* the publics each native may run
  HookResults,   \* what a debug hook may return
  HostCalls,     \* the names the host asks for
  Arguments,     \* the cells and the arrays that are pushed for a call
  Arrays,
  StkMargin,     \* STKMARGIN (16 cells in the build)
  CodeBase,      \* where the code lies in memory
  MaxParams,     \* bound: parameters pushed for one call
  MaxExecs,      \* bound: calls of amx_Exec by the host
  MaxLoads,      \* bound: scripts loaded one after the other
  NoScript,
  NoNative       \* an entry of the native table that is not bound yet

\* The scripts are compiled: a cell of the code names a register its opcode can have.
ASSUME ScriptAssumption ==
  /\ NoScript \notin DOMAIN Scripts
  /\ \A s \in DOMAIN Scripts :
       /\ {Scripts[s].hlw, Scripts[s].stp} \subseteq Nat
       /\ \A a \in DOMAIN Scripts[s].code :
            Scripts[s].code[a] \in [op : STRING, reg : {"pri", "alt"}, mode : STRING, n : Int]
  /\ CodeBase \in Nat
  /\ \A array \in Arrays : array \in Seq(Cells)

ErrNone == 0
ErrStack == 3
ErrBounds == 4
ErrMemAccess == 5
ErrStackLow == 7
ErrHeapLow == 8
ErrDivide == 11
ErrSleep == 12
ErrNotFound == 19
ErrIndex == 20
ErrInit == 22
ExecMain == -1
NotFound == 2147483647   \* INT_MAX

VARIABLES
  script,   \* the script loaded into the AMX, or NoScript
  code,     \* its code segment
  mem,      \* its data segment
  natives,  \* the addresses in its native table
  amx,      \* the AMX structure
  where,    \* who runs: "host", "run" (amx_Exec) or "native"
  regs,     \* the locals of the running amx_Exec
  native,   \* the native that runs: [fun, direct, nested]
  callers,  \* those that have called amx_Exec and wait for it, with what they hold
  result,   \* what the last amx_Exec has returned
  held,     \* cells of the heap that the host or the native has allotted
  calls,    \* the functions called in this amx_Exec: [entry, ret] (history)
  slept,    \* calls of the execution that sleeps (history)
  lost,     \* a sleep was reported as ErrNone (history)
  execs,    \* calls of amx_Exec by the host
  loads     \* scripts loaded so far

image == <<script, code, natives>>
control == <<where, native, callers, result, held>>
counters == <<execs, loads>>
vars == <<script, code, mem, natives, amx, where, regs, native, callers, result, held,
          calls, slept, lost, execs, loads>>

NoRegs == [pri |-> 0, alt |-> 0, stk |-> 0, frm |-> 0, hea |-> 0, cip |-> 0,
           resetStk |-> 0, resetHea |-> 0, num |-> 0]
NoCall == [fun |-> NoNative, direct |-> FALSE, nested |-> FALSE]

\* memset(amx, 0, sizeof *amx)
ZeroAmx == [pri |-> 0, alt |-> 0, stk |-> 0, frm |-> 0, hea |-> 0, cip |-> 0,
            resetStk |-> 0, resetHea |-> 0, hlw |-> 0, stp |-> 0, paramcount |-> 0,
            error |-> ErrNone, callback |-> FALSE, debug |-> FALSE, sysreqD |-> FALSE,
            reloc |-> FALSE, ntvreg |-> FALSE]

Init ==
  /\ script = NoScript
  /\ code = <<>>
  /\ mem = <<>>
  /\ natives = <<>>
  /\ amx = ZeroAmx
  /\ where = "host"
  /\ regs = NoRegs
  /\ native = NoCall
  /\ callers = <<>>
  /\ result = ErrNone
  /\ held = 0
  /\ calls = <<>>
  /\ slept = <<>>
  /\ lost = FALSE
  /\ execs = 0
  /\ loads = 0

-----------------------------------------------------------------------------
(* Loading and registering.                                                *)

OneParam == {"load", "const", "addr", "stor", "lidx_b", "idxaddr_b", "lctrl", "sctrl", "push_c",
             "push_r", "push", "pushaddr", "stack", "heap", "jrel", "shl_c", "shr_c", "add_c",
             "smul_c", "zero", "eq_c", "inc", "dec", "movs", "cmps", "fill", "halt", "bounds",
             "sysreq_c", "sysreq_d"}
NoParam == {"load_i", "stor_i", "lidx", "idxaddr", "move", "xchg", "push_reg", "pop", "proc", "ret",
            "retn", "call_pri", "shl", "shr", "sshr", "smul", "umul", "sdiv", "sdiv_alt", "udiv",
            "udiv_alt", "add", "sub", "sub_alt", "and", "or", "xor", "not", "neg", "invert",
            "zero_reg", "sign", "inc_reg", "dec_reg", "inc_i", "dec_i", "sysreq_pri", "jump_pri",
            "swap", "nop", "break"} \cup Relations
Conditions == [jeq |-> "eq", jneq |-> "neq", jless |-> "less", jleq |-> "leq", jgrtr |-> "grtr",
               jgeq |-> "geq", jsless |-> "sless", jsleq |-> "sleq", jsgrtr |-> "sgrtr", jsgeq |-> "sgeq"]
Relocated == {"call", "jump", "jzer", "jnz", "switch"} \cup DOMAIN Conditions

\* The cells of the instruction at cip, as amx_BrowseRelocate counts them; 0 if it knows no such opcode
BrowseWidth(c, cip) ==
  LET op == c[cip].op IN
  CASE op \in NoParam -> 1
    [] op \in OneParam \cup Relocated \cup {"symtag"} -> 2
    [] op \in {"line", "srange"} -> 3
    [] op \in {"file", "symbol"} -> 2 + c[cip + 1].n
    [] op = "casetbl" -> 3 + 2 * c[cip + 1].n
    [] OTHER -> 0

\* Mutant: only the records of a case table, not its "none matched" address.
RelocatedCellsNoDefault(c, cip) ==
  LET op == c[cip].op IN
  IF op \in Relocated THEN {cip + 1}
  ELSE IF op = "casetbl" THEN {cip + 2 + 2 * i : i \in 1..c[cip + 1].n}
  ELSE {}

\* Those of its cells to which it adds the base of the code
RelocatedCells(c, cip) ==
  LET op == c[cip].op IN
  IF op \in Relocated THEN {cip + 1}
  ELSE IF op = "casetbl" THEN {cip + 2 + 2 * i : i \in 0..c[cip + 1].n}
  ELSE {}

\* amx_BrowseRelocate: the code with the cells relocated that it comes to, and whether it has reached the end
BrowseRelocate(c) ==
  LET size == Cardinality(DOMAIN c)
      browse[cip \in 0..size] ==
        IF cip = size THEN [cells |-> {}, complete |-> TRUE]
        ELSE IF BrowseWidth(c, cip) = 0 THEN [cells |-> {}, complete |-> FALSE]
        ELSE LET rest == browse[cip + BrowseWidth(c, cip)]
             IN [rest EXCEPT !.cells = @ \cup RelocatedCells(c, cip)]
      found == browse[0]
  IN [code |-> [a \in DOMAIN c |-> IF a \in found.cells THEN [c[a] EXCEPT !.n = @ + CodeBase] ELSE c[a]],
      complete |-> found.complete]

\* amx_Init: the data segment of the script p, with a zero cell at the top of the stack, and the AMX structure
DataSegment(p, fill) ==
  [a \in 0..p.stp |-> IF a < p.hlw THEN p.data[a] ELSE IF a < p.stp THEN fill ELSE 0]
InitAmx(p, relocated) ==
  [ZeroAmx EXCEPT !.hlw = p.hlw, !.hea = p.hlw, !.stp = p.stp, !.stk = p.stp,
                  !.callback = TRUE, !.sysreqD = TRUE, !.reloc = relocated]

\* aux_LoadProgram of a well-formed file; amx_Init does not look at the result of amx_BrowseRelocate
LoadProgram(s) ==
  /\ where = "host"
  /\ script = NoScript
  /\ loads < MaxLoads
  /\ LET browsed == BrowseRelocate(Scripts[s].code)
     IN code' = browsed.code /\ amx' = InitAmx(Scripts[s], browsed.complete)
  /\ \E fill \in Fill : mem' = DataSegment(Scripts[s], fill)
  /\ natives' = [i \in DOMAIN Scripts[s].natives |-> NoNative]
  /\ script' = s
  /\ result' = ErrNone
  /\ lost' = FALSE
  /\ execs' = 0
  /\ loads' = loads + 1
  /\ UNCHANGED <<where, regs, native, callers, held, calls, slept>>

\* aux_FreeProgram
FreeProgram ==
  /\ where = "host"
  /\ script # NoScript
  /\ script' = NoScript
  /\ code' = <<>>
  /\ mem' = <<>>
  /\ natives' = <<>>
  /\ amx' = ZeroAmx
  /\ held' = 0
  /\ slept' = <<>>
  /\ UNCHANGED <<where, regs, native, callers, result, calls, lost, execs, loads>>

\* amx_Register: the natives of a list that the script uses and that are not bound yet
Register(list) ==
  LET bound == [i \in DOMAIN natives |->
                  IF natives[i] = NoNative /\ Scripts[script].natives[i] \in list
                  THEN Scripts[script].natives[i] ELSE natives[i]]
  IN /\ where = "host"
     /\ script # NoScript
     /\ natives' = bound
     /\ amx' = [amx EXCEPT !.ntvreg = @ \/ \A i \in DOMAIN bound : bound[i] # NoNative]
     /\ UNCHANGED <<script, code, mem, regs, control, calls, slept, lost, counters>>

SetDebugHook ==
  /\ where = "host"
  /\ script # NoScript
  /\ amx' = [amx EXCEPT !.debug = TRUE]
  /\ UNCHANGED <<image, mem, regs, control, calls, slept, lost, counters>>

-----------------------------------------------------------------------------
(* Calling the machine, from the host or from a native.                    *)

\* The host asks for a public and leaves a sleeping script alone; a native that has callbacks runs one
MayCall ==
  /\ script # NoScript
  /\ \/ where = "host" /\ result # ErrSleep /\ execs < MaxExecs
     \/ where = "native" /\ ~native.nested /\ Callbacks[native.fun] # {}

\* amx_Push
Push(v) ==
  /\ MayCall
  /\ amx.paramcount < MaxParams
  /\ amx.hea + StkMargin <= amx.stk
  /\ amx' = [amx EXCEPT !.stk = @ - 1, !.paramcount = @ + 1]
  /\ mem' = [mem EXCEPT ![amx.stk - 1] = v]
  /\ UNCHANGED <<image, regs, control, calls, slept, lost, counters>>

\* amx_PushArray: amx_Allot, the copy and amx_Push of the address.  An array longer than all that
\* is left would pass amx_Allot, whose comparison is unsigned; it is not pushed here
PushArray(array) ==
  /\ MayCall
  /\ amx.paramcount < MaxParams
  /\ amx.stk - amx.hea - Len(array) >= StkMargin
  /\ amx' = [amx EXCEPT !.hea = @ + Len(array), !.stk = @ - 1, !.paramcount = @ + 1]
  /\ mem' = [a \in DOMAIN mem |-> IF a = amx.stk - 1 THEN amx.hea
                                  ELSE IF a \in amx.hea..(amx.hea + Len(array) - 1)
                                       THEN array[a - amx.hea + 1] ELSE mem[a]]
  /\ held' = held + Len(array)
  /\ UNCHANGED <<image, where, native, callers, result, regs, calls, slept, lost, counters>>

\* amx_Release of what it has allotted, after the call
Release ==
  /\ where \in {"host", "native"}
  /\ held > 0
  /\ amx.paramcount = 0
  /\ result # ErrSleep
  /\ amx' = [amx EXCEPT !.hea = IF @ > amx.hea - held THEN amx.hea - held ELSE @]
  /\ held' = 0
  /\ UNCHANGED <<image, mem, where, native, callers, result, regs, calls, slept, lost, counters>>

\* amx_FindPublic: a binary search, the table is sorted by name
FindPublic(name) ==
  LET publics == Scripts[script].publics
      search[span \in (0..Len(publics)) \X (-1..(Len(publics) - 1))] ==
        LET first == span[1]
            last == span[2]
            mid == (first + last) \div 2
        IN IF first > last THEN NotFound
           ELSE IF publics[mid + 1].name = name THEN mid
           ELSE IF publics[mid + 1].name > name THEN search[<<first, mid - 1>>]
           ELSE search[<<mid + 1, last>>]
  IN search[<<0, Len(publics) - 1>>]

\* What amx_Exec refuses before it has changed anything
Refusal(index) ==
  IF ~amx.ntvreg THEN ErrNotFound
  ELSE IF ~amx.reloc THEN ErrInit
  ELSE IF index = ExecMain /\ Scripts[script].main < 0 THEN ErrIndex
  ELSE IF index >= Len(Scripts[script].publics) THEN ErrIndex
  ELSE ErrNone

Entry(index) ==
  IF index = ExecMain THEN Scripts[script].main ELSE Scripts[script].publics[index + 1].entry

\* Its registers before it looks at the stack; the first case is that of a sleeping execution
SavedRegs ==
  [pri |-> amx.pri, alt |-> amx.alt, stk |-> amx.stk, frm |-> amx.frm, hea |-> amx.hea, cip |-> amx.cip,
   resetStk |-> amx.resetStk, resetHea |-> amx.resetHea, num |-> 0]
FreshRegs(index, pri) ==
  [NoRegs EXCEPT !.pri = pri, !.stk = amx.stk, !.hea = amx.hea, !.cip = Entry(index),
                 !.resetStk = amx.stk, !.resetHea = amx.hea]

\* Mutant: no margin
CrowdedLate(r) == r.hea > r.stk

\* CHKMARGIN
Crowded(r) == r.hea + StkMargin > r.stk

\* Mutant: the stack stays where the run has left it.
AbortedInPlace(r) == [amx EXCEPT !.pri = r.pri, !.frm = r.frm, !.stk = r.stk, !.hea = r.resetHea]

\* ABORT: what is left of the registers r
Aborted(r) == [amx EXCEPT !.pri = r.pri, !.frm = r.frm, !.stk = r.resetStk, !.hea = r.resetHea]

Refused(err) ==
  /\ result' = err
  /\ native' = [native EXCEPT !.nested = where = "native"]
  /\ UNCHANGED <<mem, amx, where, regs, callers, held, calls>>

Caller == [where |-> where, regs |-> regs, native |-> native, calls |-> calls, held |-> held]

\* ABORT before the first instruction
AbortAtOnce(r, err) ==
  /\ amx' = Aborted(r)
  /\ result' = err
  /\ native' = [native EXCEPT !.nested = where = "native"]
  /\ UNCHANGED <<mem, where, regs, callers, held, calls>>

\* CHKSTACK and CHKHEAP
StackError(r) ==
  IF r.stk > amx.stp THEN ErrStackLow ELSE IF r.hea < amx.hlw THEN ErrHeapLow ELSE ErrNone

\* Runs from the registers r, with the data segment m, unless the margin is used up
Start(r, m, history) ==
  /\ mem' = m
  /\ IF Crowded(r)
     THEN /\ amx' = [Aborted(r) EXCEPT !.paramcount = 0]
          /\ result' = ErrStack
          /\ native' = [native EXCEPT !.nested = where = "native"]
          /\ UNCHANGED <<where, regs, callers, held, calls>>
     ELSE /\ amx' = [amx EXCEPT !.cip = r.cip, !.paramcount = 0]
          /\ regs' = r
          /\ where' = "run"
          /\ callers' = Append(callers, Caller)
          /\ native' = NoCall
          /\ held' = 0
          /\ calls' = history
          /\ result' = ErrNone

\* amx_Exec of main or of a public: behind the parameters go their number and a return address of 0
ExecFunction(index) ==
  /\ IF Refusal(index) # ErrNone THEN Refused(Refusal(index))
     ELSE \E garbage \in Garbage :
       LET r == FreshRegs(index, garbage) IN
       IF StackError(r) # ErrNone THEN AbortAtOnce(r, StackError(r))
       ELSE Start([r EXCEPT !.stk = @ - 2, !.resetStk = @ + amx.paramcount],
                  [mem EXCEPT ![r.stk - 1] = amx.paramcount, ![r.stk - 2] = 0],
                  <<[entry |-> Entry(index), ret |-> 0]>>)
  /\ UNCHANGED <<image, slept, lost, loads>>

\* The host runs a public it has looked up, or main
HostExec(index) ==
  /\ where = "host"
  /\ MayCall
  /\ execs' = execs + 1
  /\ ExecFunction(index)

NativeExec(index) ==
  /\ where = "native"
  /\ MayCall
  /\ ExecFunction(index)
  /\ UNCHANGED execs

\* amx_Exec with AMX_EXEC_CONT, after an execution that sleeps
HostContinue ==
  /\ where = "host"
  /\ script # NoScript
  /\ result = ErrSleep
  /\ IF StackError(SavedRegs) # ErrNone THEN AbortAtOnce(SavedRegs, StackError(SavedRegs))
     ELSE Start(SavedRegs, mem, slept)
  /\ slept' = <<>>
  /\ UNCHANGED <<image, lost, counters>>

-----------------------------------------------------------------------------
(* amx_Exec.                                                               *)

Instr == code[regs.cip]
Param == code[regs.cip + 1].n
At(ops) == where = "run" /\ Instr.op \in ops

\* The registers behind an instruction of n cells
Behind(n) == [regs EXCEPT !.cip = @ + n]
Jumped(to) == [regs EXCEPT !.cip = to]

\* NEXT: goes on with the registers r; cip tells the host which instruction runs
Go(r) ==
  /\ regs' = r
  /\ amx' = [amx EXCEPT !.cip = r.cip]
  /\ UNCHANGED <<image, control, slept, lost, counters>>
Continue(r) == Go(r) /\ UNCHANGED <<mem, calls>>

\* amx_Exec returns err to its caller and leaves the AMX structure as a and the data segment as m
LeaveWith(m, a, err) ==
  LET c == Last(callers) IN
  /\ amx' = a
  /\ mem' = m
  /\ result' = err
  /\ where' = c.where
  /\ regs' = c.regs
  /\ native' = [c.native EXCEPT !.nested = c.where = "native"]
  /\ calls' = c.calls
  /\ held' = c.held
  /\ callers' = Front(callers)
  /\ slept' = IF err = ErrSleep THEN calls ELSE slept
  /\ UNCHANGED <<image, counters>>
Leave(a, err) == LeaveWith(mem, a, err)
Abort(r, err) == Leave(Aborted(r), err) /\ UNCHANGED lost

\* The address an opcode works on
Address(mode, n) ==
  CASE mode = "abs"  -> n
    [] mode = "frm"  -> regs.frm + n
    [] mode = "ref"  -> mem[n]
    [] mode = "refs" -> mem[regs.frm + n]

Load ==
  /\ At({"load"})
  /\ Continue([Behind(2) EXCEPT ![Instr.reg] = mem[Address(Instr.mode, Param)]])

Store ==
  /\ At({"stor", "zero", "inc", "dec"})
  /\ LET a == Address(Instr.mode, Param)
         value == CASE Instr.op = "stor" -> regs[Instr.reg]
                    [] Instr.op = "zero" -> 0
                    [] Instr.op = "inc"  -> Wrap(mem[a] + 1)
                    [] Instr.op = "dec"  -> Wrap(mem[a] - 1)
     IN /\ Go(Behind(2))
        /\ mem' = [mem EXCEPT ![a] = value]
        /\ UNCHANGED calls

\* INC.I and DEC.I
StoreStep ==
  /\ At({"inc_i", "dec_i"})
  /\ Go(Behind(1))
  /\ mem' = [mem EXCEPT ![regs.pri] = Wrap(IF Instr.op = "inc_i" THEN @ + 1 ELSE @ - 1)]
  /\ UNCHANGED calls

\* The checks of addresses that the script computes: neither between heap and stack nor above the stack
Invalid(a) == (a >= regs.hea /\ a < regs.stk) \/ Unsigned(a) >= Unsigned(amx.stp)
InvalidEnd(a) == (a > regs.hea /\ a < regs.stk) \/ Unsigned(a) > Unsigned(amx.stp)

LoadIndirect ==
  /\ At({"load_i", "lidx", "lidx_b"})
  /\ LET a == CASE Instr.op = "load_i" -> regs.pri
                [] Instr.op = "lidx"   -> Wrap(regs.pri + regs.alt)
                [] Instr.op = "lidx_b" -> Wrap(Shift("shl", regs.pri, Param) + regs.alt)
         width == IF Instr.op = "lidx_b" THEN 2 ELSE 1
     IN IF Invalid(a) THEN Abort(Behind(width), ErrMemAccess)
        ELSE Continue([Behind(width) EXCEPT !.pri = mem[a]])

StoreIndirect ==
  /\ At({"stor_i"})
  /\ IF Invalid(regs.alt) THEN Abort(Behind(1), ErrMemAccess)
     ELSE Go(Behind(1)) /\ mem' = [mem EXCEPT ![regs.alt] = regs.pri] /\ UNCHANGED calls

\* MOVS, CMPS and FILL: n cells from pri, to or at alt
Block ==
  /\ At({"movs", "cmps", "fill"})
  /\ LET n == Param
         bad == \/ Instr.op # "fill" /\ (Invalid(regs.pri) \/ InvalidEnd(regs.pri + n))
                \/ Invalid(regs.alt) \/ InvalidEnd(regs.alt + n)
         within == [a \in DOMAIN mem |-> a \in regs.alt..(regs.alt + n - 1)]
         source(a) == IF Instr.op = "fill" THEN regs.pri ELSE mem[regs.pri + (a - regs.alt)]
         same == \A i \in 0..(n - 1) : mem[regs.pri + i] = mem[regs.alt + i]
     IN IF bad THEN Abort(Behind(2), ErrMemAccess)
        ELSE IF Instr.op = "cmps"
        THEN \E order \in (IF same THEN {0} ELSE {-1, 1}) : Continue([Behind(2) EXCEPT !.pri = order])
        ELSE /\ Go(Behind(2))
             /\ mem' = [a \in DOMAIN mem |-> IF within[a] THEN source(a) ELSE mem[a]]
             /\ UNCHANGED calls

Const ==
  /\ At({"const", "addr"})
  /\ Continue([Behind(2) EXCEPT ![Instr.reg] = IF Instr.op = "addr" THEN regs.frm + Param ELSE Param])

IndexAddress ==
  \/ At({"idxaddr"}) /\ Continue([Behind(1) EXCEPT !.pri = Wrap(@ + regs.alt)])
  \/ /\ At({"idxaddr_b"})
     /\ Continue([Behind(2) EXCEPT !.pri = Wrap(Shift("shl", @, Param) + regs.alt)])

Move ==
  \/ At({"move"}) /\ Continue([Behind(1) EXCEPT ![Instr.reg] = IF Instr.reg = "pri" THEN regs.alt ELSE regs.pri])
  \/ At({"xchg"}) /\ Continue([Behind(1) EXCEPT !.pri = regs.alt, !.alt = regs.pri])
  \/ At({"zero_reg"}) /\ Continue([Behind(1) EXCEPT ![Instr.reg] = 0])

\* SWAP: with the top of the stack
Swap ==
  /\ At({"swap"})
  /\ Go([Behind(1) EXCEPT ![Instr.reg] = mem[regs.stk]])
  /\ mem' = [mem EXCEPT ![regs.stk] = regs[Instr.reg]]
  /\ UNCHANGED calls

LCtrl ==
  /\ At({"lctrl"})
  /\ Continue([Behind(2) EXCEPT
       !.pri = CASE Param = 2 -> regs.hea
                 [] Param = 3 -> amx.stp
                 [] Param = 4 -> regs.stk
                 [] Param = 5 -> regs.frm
                 [] Param = 6 -> regs.cip + 2
                 [] OTHER -> @])

SCtrl ==
  /\ At({"sctrl"})
  /\ Continue(CASE Param = 2 -> [Behind(2) EXCEPT !.hea = regs.pri]
                [] Param = 4 -> [Behind(2) EXCEPT !.stk = regs.pri]
                [] Param = 5 -> [Behind(2) EXCEPT !.frm = regs.pri]
                [] Param = 6 -> Jumped(regs.pri)
                [] OTHER -> Behind(2))

\* Pushes the cells of a sequence, the first one first, and goes on with the registers r
PushAll(r, cells) ==
  /\ Go([r EXCEPT !.stk = @ - Len(cells)])
  /\ mem' = [a \in DOMAIN mem |-> IF a \in (r.stk - Len(cells))..(r.stk - 1) THEN cells[r.stk - a] ELSE mem[a]]

\* PUSH.pri/alt/C/R, PUSH, PUSH.S and PUSHADDR: none of them looks at the margin
PushOp ==
  /\ UNCHANGED calls
  /\ \/ At({"push_reg"}) /\ PushAll(Behind(1), <<regs[Instr.reg]>>)
     \/ At({"push_c"}) /\ PushAll(Behind(2), <<Param>>)
     \/ At({"push_r"}) /\ PushAll(Behind(2), [i \in 1..Param |-> regs.pri])
     \/ At({"push"}) /\ PushAll(Behind(2), <<mem[Address(Instr.mode, Param)]>>)
     \/ At({"pushaddr"}) /\ PushAll(Behind(2), <<regs.frm + Param>>)

Pop ==
  /\ At({"pop"})
  /\ Continue([Behind(1) EXCEPT ![Instr.reg] = mem[regs.stk], !.stk = regs.stk + 1])

\* STACK and HEAP, with their checks of the margin and of the lower and the upper end
StackOrHeap ==
  /\ At({"stack", "heap"})
  /\ LET r == IF Instr.op = "stack" THEN [Behind(2) EXCEPT !.alt = regs.stk, !.stk = @ + Param]
              ELSE [Behind(2) EXCEPT !.alt = regs.hea, !.hea = @ + Param]
     IN IF Crowded(r) THEN Abort(r, ErrStack)
        ELSE IF StackError(r) # ErrNone THEN Abort(r, StackError(r))
        ELSE Continue(r)

Proc ==
  /\ At({"proc"})
  /\ LET r == [Behind(1) EXCEPT !.stk = @ - 1, !.frm = regs.stk - 1]
         m == [mem EXCEPT ![r.stk] = regs.frm]
     IN IF Crowded(r) THEN LeaveWith(m, Aborted(r), ErrStack) /\ UNCHANGED lost
        ELSE Go(r) /\ mem' = m /\ UNCHANGED calls

\* Mutant: compares without the cast to ucell.
BadReturnSigned(to) == to >= Cardinality(DOMAIN code)

BadReturn(to) == Unsigned(to) >= Cardinality(DOMAIN code)

\* RET and RETN, which removes the parameters too
Return ==
  /\ At({"ret", "retn"})
  /\ LET to == mem[regs.stk + 1]
         r == [regs EXCEPT !.frm = mem[regs.stk], !.stk = @ + 2]
     IN IF BadReturn(to) THEN Abort(r, ErrMemAccess)
        ELSE /\ Go([r EXCEPT !.cip = to,
                             !.stk = IF Instr.op = "retn" THEN @ + mem[@] + 1 ELSE @])
             /\ calls' = Front(calls)
             /\ UNCHANGED mem

\* CALL and CALL.pri push the address behind them
Call ==
  /\ At({"call", "call_pri"})
  /\ LET behind == regs.cip + IF Instr.op = "call" THEN 2 ELSE 1
         to == IF Instr.op = "call" THEN Param - CodeBase ELSE regs.pri
     IN /\ PushAll(Jumped(to), <<behind>>)
        /\ calls' = Append(calls, [entry |-> to, ret |-> behind])

\* The relocated jumps, JREL and JUMP.pri
Jump ==
  \/ At({"jump"}) /\ Continue(Jumped(Param - CodeBase))
  \/ At({"jrel"}) /\ Continue(Jumped(regs.cip + 2 + Param))
  \/ At({"jump_pri"}) /\ Continue(Jumped(regs.pri))
  \/ /\ At({"jzer", "jnz"} \cup DOMAIN Conditions)
     /\ LET holds == CASE Instr.op = "jzer" -> regs.pri = 0
                       [] Instr.op = "jnz"  -> regs.pri # 0
                       [] OTHER -> Compare(Conditions[Instr.op], regs.pri, regs.alt)
        IN Continue(IF holds THEN Jumped(Param - CodeBase) ELSE Behind(2))

\* SWITCH: the first record of the case table with the value of pri, or its "none matched" address
Switch ==
  /\ At({"switch"})
  /\ LET table == Param - CodeBase + 1
         matching == {i \in 1..code[table].n : code[table + 2 * i].n = regs.pri}
         record == IF matching = {} THEN 0 ELSE Min(matching)
     IN Continue([Jumped(code[table + 2 * record + 1].n - CodeBase) EXCEPT
                   !.num = IF matching = {} THEN 0 ELSE code[table].n - record + 1])

ShiftOp ==
  \/ /\ At({"shl", "shr", "sshr"})
     /\ Continue([Behind(1) EXCEPT !.pri = Shift(Instr.op, @, regs.alt)])
  \/ /\ At({"shl_c", "shr_c"})
     /\ Continue([Behind(2) EXCEPT ![Instr.reg] = Shift(IF Instr.op = "shl_c" THEN "shl" ELSE "shr", @, Param)])

\* ADD.C and SMUL.C take their parameter for alt
ArithmeticOp ==
  \/ /\ At({"smul", "umul", "add", "sub", "sub_alt", "and", "or", "xor", "not", "neg", "invert"})
     /\ Continue([Behind(1) EXCEPT !.pri = Arithmetic(Instr.op, @, regs.alt)])
  \/ /\ At({"add_c", "smul_c"})
     /\ Continue([Behind(2) EXCEPT !.pri = Arithmetic(Instr.op, @, Param)])

\* The comparisons, EQ.C among them, leave 1 or 0 in pri
CompareOp ==
  \/ At(Relations) /\ Continue([Behind(1) EXCEPT !.pri = Truth(Compare(Instr.op, @, regs.alt))])
  \/ At({"eq_c"}) /\ Continue([Behind(2) EXCEPT !.pri = Truth(regs[Instr.reg] = Param)])

\* SIGN, INC and DEC of a register
RegisterOp ==
  \/ At({"sign"}) /\ Continue([Behind(1) EXCEPT ![Instr.reg] = SignExtend(@)])
  \/ At({"inc_reg"}) /\ Continue([Behind(1) EXCEPT ![Instr.reg] = Wrap(@ + 1)])
  \/ At({"dec_reg"}) /\ Continue([Behind(1) EXCEPT ![Instr.reg] = Wrap(@ - 1)])

Divide ==
  /\ At({"sdiv", "sdiv_alt", "udiv", "udiv_alt"})
  /\ LET swapped == Instr.op \in {"sdiv_alt", "udiv_alt"}
         n == IF swapped THEN regs.alt ELSE regs.pri
         d == IF swapped THEN regs.pri ELSE regs.alt
     IN IF d = 0 THEN Abort(Behind(1), ErrDivide)
        ELSE IF Instr.op \in {"sdiv", "sdiv_alt"}
        THEN Continue([Behind(1) EXCEPT !.pri = DividedDown(n, d), !.alt = Modulus(n, d)])
        ELSE Continue([Behind(1) EXCEPT !.pri = Wrap(Unsigned(n) \div Unsigned(d)),
                                        !.alt = Wrap(Unsigned(n) % Unsigned(d))])

\* HALT: what comes back from HALT SLEEP is the stack and the heap of the last amx_Push or SYSREQ
Halt ==
  /\ At({"halt"})
  /\ LET r == Behind(2) IN
     IF Param # ErrSleep THEN Leave([Aborted(r) EXCEPT !.alt = r.alt], Param)
     ELSE Leave([amx EXCEPT !.frm = r.frm, !.pri = r.pri, !.alt = r.alt, !.cip = r.cip,
                            !.resetStk = r.resetStk, !.resetHea = r.resetHea], ErrSleep)
  /\ UNCHANGED lost

Bounds ==
  /\ At({"bounds"})
  /\ IF Unsigned(regs.pri) > Unsigned(Param) THEN Abort(Behind(2), ErrBounds) ELSE Continue(Behind(2))

\* Mutant: forgets where the stack is.
SavedWithoutStack(cip) == [amx EXCEPT !.cip = cip, !.hea = regs.hea, !.frm = regs.frm]

\* The AMX structure as SYSREQ and BREAK leave it for the function they call
Saved(cip) == [amx EXCEPT !.cip = cip, !.hea = regs.hea, !.frm = regs.frm, !.stk = regs.stk]

\* SYSREQ.pri and SYSREQ.C go through amx_Callback, which turns SYSREQ.C into SYSREQ.D of the
\* native; SYSREQ.D calls it without a reset of amx->error
Sysreq ==
  /\ At({"sysreq_pri", "sysreq_c", "sysreq_d"})
  /\ LET direct == Instr.op = "sysreq_d"
         behind == regs.cip + IF Instr.op = "sysreq_pri" THEN 1 ELSE 2
         f == CASE Instr.op = "sysreq_pri" -> natives[regs.pri + 1]
                [] Instr.op = "sysreq_c"   -> natives[Param + 1]
                [] Instr.op = "sysreq_d"   -> Param
     IN /\ regs' = Jumped(behind)
        /\ amx' = IF direct THEN Saved(behind) ELSE [Saved(behind) EXCEPT !.error = ErrNone]
        /\ code' = IF Instr.op = "sysreq_c" /\ amx.sysreqD
                   THEN [code EXCEPT ![regs.cip].op = "sysreq_d", ![regs.cip + 1].n = f] ELSE code
        /\ where' = "native"
        /\ native' = [fun |-> f, direct |-> direct, nested |-> FALSE]
        /\ held' = 0
  /\ UNCHANGED <<script, natives, mem, callers, result, calls, slept, lost, counters>>

\* amx_RaiseError
NativeRaises(err) ==
  /\ where = "native"
  /\ amx.error = ErrNone
  /\ amx' = [amx EXCEPT !.error = err]
  /\ UNCHANGED <<image, mem, regs, control, calls, slept, lost, counters>>

\* What is kept of the registers r for AMX_EXEC_CONT
Asleep(r) == [amx EXCEPT !.pri = r.pri, !.alt = r.alt, !.resetStk = r.resetStk, !.resetHea = r.resetHea]

\* The native returns v, after it has run what it has pushed for: to NEXT, to sleep or to ABORT.
\* SYSREQ.D does not set num, which it returns from a sleep all the same
NativeReturn(v) ==
  /\ where = "native"
  /\ amx.paramcount = 0
  /\ LET r == [regs EXCEPT !.pri = v, !.num = IF native.direct THEN @ ELSE amx.error] IN
     CASE amx.error = ErrNone ->
            /\ regs' = r
            /\ amx' = [amx EXCEPT !.cip = r.cip]
            /\ where' = "run"
            /\ native' = NoCall
            /\ held' = 0
            /\ UNCHANGED <<image, mem, callers, result, calls, slept, lost, counters>>
       [] amx.error = ErrSleep ->
            /\ Leave(Asleep(r), IF native.direct THEN r.num ELSE ErrSleep)
            /\ lost' = (lost \/ native.direct)
       [] OTHER -> Abort(r, amx.error)

\* BREAK calls the debug hook, if there is one
Break ==
  /\ At({"break"})
  /\ IF ~amx.debug THEN Continue(Behind(1))
     ELSE \E num \in HookResults :
       LET r == [Behind(1) EXCEPT !.num = num]
           a == Saved(regs.cip + 1)
       IN CASE num = ErrNone ->
                 regs' = r /\ amx' = a /\ UNCHANGED <<image, mem, control, calls, slept, lost, counters>>
            [] num = ErrSleep ->
                 /\ Leave([a EXCEPT !.pri = r.pri, !.alt = r.alt, !.resetStk = r.resetStk,
                                    !.resetHea = r.resetHea], ErrSleep)
                 /\ UNCHANGED lost
            [] OTHER -> LeaveWith(mem, [Aborted(r) EXCEPT !.cip = a.cip], num) /\ UNCHANGED lost

\* NOP, and the opcodes for debuggers
Skip ==
  \/ At({"nop"}) /\ Continue(Behind(1))
  \/ At({"line", "srange"}) /\ Continue(Behind(3))
  \/ At({"symtag"}) /\ Continue(Behind(2))
  \/ At({"symbol"}) /\ Continue(Behind(2 + Param))

-----------------------------------------------------------------------------
HostStep ==
  \/ \E s \in DOMAIN Scripts : LoadProgram(s)
  \/ \E list \in NativeLists : Register(list)
  \/ SetDebugHook
  \/ \E name \in HostCalls : HostExec(FindPublic(name))
  \/ HostExec(ExecMain)
  \/ HostContinue

NativeStep ==
  \/ \E err \in Errors[native.fun] : NativeRaises(err)
  \/ \E name \in Callbacks[native.fun] : NativeExec(FindPublic(name))
  \/ \E v \in Values[native.fun] : NativeReturn(v)

\* amx_Push, amx_PushArray and amx_Release, from the host or from a native
CallerStep ==
  \/ \E v \in Arguments : Push(v)
  \/ \E array \in Arrays : PushArray(array)
  \/ Release

Instruction ==
  \/ Load \/ Store \/ StoreStep \/ LoadIndirect \/ StoreIndirect \/ Block
  \/ Const \/ IndexAddress \/ Move \/ Swap \/ LCtrl \/ SCtrl
  \/ PushOp \/ Pop \/ StackOrHeap \/ Proc \/ Return \/ Call \/ Jump \/ Switch
  \/ ShiftOp \/ ArithmeticOp \/ CompareOp \/ RegisterOp \/ Divide
  \/ Halt \/ Bounds \/ Sysreq \/ Break \/ Skip

AmxStep == HostStep \/ (where = "native" /\ NativeStep) \/ CallerStep \/ Instruction

-----------------------------------------------------------------------------
(* Properties.                                                             *)

TypeOK ==
  /\ script \in DOMAIN Scripts \cup {NoScript}
  /\ \A a \in DOMAIN mem : mem[a] \in Cells
  /\ where \in {"host", "run", "native"}
  /\ where = "run" => regs.cip \in DOMAIN code
  /\ {regs.pri, regs.alt, amx.pri, amx.alt} \subseteq Cells
  /\ {regs.stk, regs.hea, regs.frm, amx.stk, amx.hea, amx.frm} \subseteq DOMAIN mem \cup {0, amx.stp}
  /\ amx.paramcount \in 0..MaxParams
  /\ result \in Nat
  /\ where = "host" <=> callers = <<>>
  /\ held \in Nat
  /\ lost \in BOOLEAN
  /\ execs \in 0..MaxExecs
  /\ loads \in 0..MaxLoads

\* However an amx_Exec ends, by HALT, an error, a native's error, within another one or after a sleep,
\* its caller finds the stack without the parameters it had pushed and the heap with what it had
\* allotted.  A run that is asleep, or whose sleep came back as "no error", has not ended.
StackBalanced ==
  result # ErrSleep /\ ~lost =>
    /\ where = "host" => amx.stk + amx.paramcount = amx.stp /\ amx.hea = amx.hlw + held
    /\ where = "native" => amx.stk + amx.paramcount = regs.stk /\ amx.hea = regs.hea + held

\* Heap and stack never overlap, although a PUSH or a CALL does not look: the margin that the start of
\* a run, PROC, STACK and HEAP leave is enough for what a function pushes between two checks.
StackAboveHeap == where = "run" => regs.hea <= regs.stk

\* A return goes behind the call it belongs to, or ends the run: nothing overwrites the frames of those who
\* wait, neither a native that pushes and runs the script again nor an error or a sleep below them.
ReturnsToCaller ==
  At({"ret", "retn"}) =>
    /\ regs.stk + 1 \in DOMAIN mem
    /\ ~BadReturn(mem[regs.stk + 1]) => calls # <<>> /\ mem[regs.stk + 1] = Last(calls).ret

\* The code of the script p as the compiler writes it: one instruction behind the other, a case table for
\* every SWITCH, and no address in it but those of instructions, in the cells that the source lists.
CodeCompiled(p) ==
  LET c == p.code
      size == Cardinality(DOMAIN c)
      behind(a) == a + BrowseWidth(c, a)
  IN /\ size \in Nat
     /\ DOMAIN c = 0..(size - 1)
     /\ 0 \in p.starts
     /\ p.starts \subseteq DOMAIN c
     /\ \A a \in DOMAIN c \ p.starts : BrowseWidth(c, a) = 0
     /\ \A a \in p.starts : BrowseWidth(c, a) # 0 =>
          /\ BrowseWidth(c, a) \in Nat
          /\ behind(a) \in p.starts \cup {size}
          /\ \A b \in p.starts : b <= a \/ b >= behind(a)
     /\ \A a \in p.starts :
          /\ c[a].op \in {"file", "symbol", "casetbl"} => c[a + 1].n \in Nat
          /\ c[a].op = "switch" => c[c[a + 1].n].op = "casetbl"
          /\ c[a].op = "jrel" => a + 2 + c[a + 1].n \in p.starts
     /\ \A l \in DOMAIN c :
          l \in p.labels <=> \E a \in p.starts : \/ c[a].op \in Relocated /\ l = a + 1
                                                 \/ c[a].op = "casetbl" /\ \E i \in 0..c[a + 1].n : l = a + 2 + 2 * i
     /\ p.labels \subseteq DOMAIN c
     /\ \A l \in p.labels : c[l].n \in p.starts

\* Its tables: main, the publics sorted by name, and the natives.
EntriesCompiled(p) ==
  /\ p.main \in Int
  /\ p.main >= 0 => p.main \in p.starts
  /\ p.publics \in Seq([name : Int, entry : p.starts])
  /\ Len(p.publics) <= NotFound
  /\ \A i, j \in DOMAIN p.publics : i < j => p.publics[i].name < p.publics[j].name
  /\ p.natives \in Seq({p.natives[i] : i \in DOMAIN p.natives} \ {NoNative})

\* Relocation has adjusted every address of the code and nothing else; a SYSREQ.C is patched to a
\* SYSREQ.D of the native it stands for, nothing else is; and the machine stays on instructions.
CodeFaithful ==
  amx.reloc =>
    LET compiled == Scripts[script].code
        patched == {a \in DOMAIN code : code[a].op # compiled[a].op}
    IN /\ \A a \in patched : /\ compiled[a].op = "sysreq_c"
                             /\ code[a].op = "sysreq_d"
                             /\ code[a + 1].n = Scripts[script].natives[compiled[a + 1].n + 1]
       /\ \A a \in DOMAIN code \ (patched \cup {p + 1 : p \in patched}) :
            code[a] = [compiled[a] EXCEPT !.n = IF a \in Scripts[script].labels THEN @ + CodeBase ELSE @]
       /\ where = "run" => regs.cip \in Scripts[script].starts

\* SDIV rounds down: the quotient and the remainder belong together, and the remainder has the sign
\* of the divisor, for operands of every sign that do not overflow on the way.
FloorsStep ==
  At({"sdiv", "sdiv_alt"}) /\ regs'.cip = regs.cip + 1 =>
    LET n == IF Instr.op = "sdiv" THEN regs.pri ELSE regs.alt
        d == IF Instr.op = "sdiv" THEN regs.alt ELSE regs.pri
    IN DivisionFits(n, d) =>
         /\ regs'.pri * d + regs'.alt = n
         /\ regs'.alt \in IF d > 0 THEN 0..(d - 1) ELSE (d + 1)..0
DivisionFloors == [][FloorsStep]_regs
=============================================================================
