-------------------------------- MODULE MCAmx --------------------------------
(***************************************************************************)
(* AmxDebugManager for TLC: a few scripts, written line by line, and the   *)
(* assembler that gives their code, their tables and what the source says  *)
(* of each address.                                                        *)
(***************************************************************************)
EXTENDS AmxDebugManager

\* An instruction: its opcode, register, mode, parameter, the label it refers to, its own label, and
\* the records of a case table
Op(op) == <<op, "pri", "none", 0, "", "", <<>>>>
Alt(op) == <<op, "alt", "none", 0, "", "", <<>>>>
OpN(op, n) == <<op, "pri", "none", n, "", "", <<>>>>
AltN(op, n) == <<op, "alt", "none", n, "", "", <<>>>>
OpM(op, mode, n) == <<op, "pri", mode, n, "", "", <<>>>>
AltM(op, mode, n) == <<op, "alt", mode, n, "", "", <<>>>>
OpTo(op, label) == <<op, "pri", "none", 0, label, "", <<>>>>
Lab(label, instr) == [instr EXCEPT ![6] = label]
CaseTbl(label, default, cases) == <<"casetbl", "pri", "none", 0, default, label, cases>>
Decoded(i) == [op |-> i[1], reg |-> i[2], mode |-> i[3], n |-> i[4], to |-> i[5], at |-> i[6], cases |-> i[7]]

\* A line of the source: its file, its function, its number, and what it compiles to
Line(file, function, line, ops) == [file |-> file, function |-> function, line |-> line, ops |-> ops]

Width(i) ==
  CASE i.op = "casetbl" -> 3 + 2 * Len(i.cases)
    [] i.op = "symbol" -> 2 + i.n
    [] i.op \in {"line", "srange"} -> 3
    [] i.op \in NoParam -> 1
    [] i.op = "none" -> 1
    [] OTHER -> 2

Position(sums, width(_), entries) == FoldLeft(LAMBDA all, e : Append(all, Last(all) + width(e)), sums, entries)
Labelled(ops, address, label) == address[CHOOSE i \in DOMAIN ops : ops[i].at = label]

OpcodeCell(i) == [op |-> i.op, reg |-> i.reg, mode |-> i.mode, n |-> 0]
ParameterCell(n) == [op |-> "parameter", reg |-> "pri", mode |-> "none", n |-> n]
\* The cells of an instruction, at(label) being the address of a label
CellsOf(i, at(_)) ==
  CASE i.op = "casetbl" ->
         <<OpcodeCell(i), ParameterCell(Len(i.cases)), ParameterCell(at(i.to))>>
         \o FlattenSeq([k \in DOMAIN i.cases |-> <<ParameterCell(i.cases[k][1]), ParameterCell(at(i.cases[k][2]))>>])
    [] i.op # "casetbl" /\ Width(i) = 1 -> <<OpcodeCell(i)>>
    [] OTHER -> <<OpcodeCell(i), ParameterCell(IF i.to # "" THEN at(i.to) ELSE i.n)>>
                \o [k \in 1..(Width(i) - 2) |-> ParameterCell(0)]
\* Those at address a that hold an address of the code
LabelsIn(i, a) ==
  IF i.op = "casetbl" THEN {a + 2 + 2 * k : k \in 0..Len(i.cases)}
  ELSE IF i.op \in Relocated THEN {a + 1} ELSE {}

Loaded(p, ops, address, size, segment, lineAt) ==
  [code |-> [a \in 0..(size - 1) |-> segment[a + 1]],
   main |-> IF p.main = "" THEN -1 ELSE Labelled(ops, address, p.main),
   publics |-> [i \in DOMAIN p.publics |->
                 [name |-> p.publics[i][1], entry |-> Labelled(ops, address, p.publics[i][2])]],
   natives |-> p.natives, data |-> p.data, hlw |-> p.hlw, stp |-> p.stp, header |-> p.header,
   starts |-> {address[i] : i \in DOMAIN ops},
   labels |-> UNION {LabelsIn(ops[i], address[i]) : i \in DOMAIN ops},
   source |-> [a \in 0..(size - 1) |-> [line |-> lineAt[a].line, file |-> lineAt[a].file,
                                        function |-> lineAt[a].function]]]

\* The debug tables, from the lines with the addresses where they start: a record for every line but the
\* first, for each file and function where it begins, and a symbol for a global
Tables(p, starts, files, functions, size) ==
  [header |-> p.header, magic |-> TRUE, debug |-> p.debug, debugMagic |-> TRUE,
   files |-> [i \in DOMAIN files |-> [address |-> starts[files[i]], name |-> p.lines[files[i]].file]],
   lines |-> [l \in 1..(Len(p.lines) - 1) |-> [address |-> starts[l + 1], line |-> p.lines[l + 1].line - 1]],
   symbols |-> <<[ident |-> 1, address |-> 0, codestart |-> 0, codeend |-> size, name |-> "global"]>>
               \o [i \in DOMAIN functions |->
                    [ident |-> iFunction, address |-> starts[functions[i]], codestart |-> starts[functions[i]],
                     codeend |-> IF i = Len(functions) THEN size ELSE starts[functions[i + 1]],
                     name |-> p.lines[functions[i]].function]]]

\* The numbers of the lines where a file or a function begins
Heads(lines, name(_)) ==
  SetToSortSeq({l \in 2..Len(lines) : l = 2 \/ name(lines[l]) # name(lines[l - 1])}, <)

\* firsts: the first instruction of each line
Linked(p, ops, address, firsts) ==
  [script |-> Loaded(p, ops, address, Last(address),
                FlattenSeq([i \in DOMAIN ops |-> CellsOf(ops[i], LAMBDA label : Labelled(ops, address, label))]),
                [a \in 0..(Last(address) - 1) |->
                  p.lines[CHOOSE l \in DOMAIN p.lines : address[firsts[l]] <= a /\ a < address[firsts[l + 1]]]]),
   file |-> Tables(p, [l \in DOMAIN p.lines |-> address[firsts[l]]], Heads(p.lines, LAMBDA l : l.file),
                   Heads(p.lines, LAMBDA l : l.function), Last(address))]
Placed(p, ops) ==
  Linked(p, ops, Position(<<0>>, Width, ops), Position(<<1>>, LAMBDA l : Len(l.ops), p.lines))

\* A program is [lines, main (a label or ""), publics (<<name, label>>), natives, data, hlw, stp, header, debug]
Assemble(p) == Placed(p, LET compiled == FlattenSeq([l \in DOMAIN p.lines |-> p.lines[l].ops])
                         IN [i \in DOMAIN compiled |-> Decoded(compiled[i])])

\* The first line of every script, outside the tables: where main and the publics return to
Start0 == Line("", "", 0, <<OpN("halt", 0)>>)
\* result = native(), with nothing to pass
CallNative(i) == <<OpN("push_c", 0), OpN("sysreq_c", i), OpN("stack", 1)>>
Enter == <<Op("proc"), Op("break")>>
Leave0 == <<Op("zero_reg"), Alt("zero_reg"), Op("retn")>>
\* a = native(), b = native() in the globals 0 and 1, which then are in pri and alt
LoadBoth == <<OpM("load", "abs", 0), AltM("load", "abs", 1)>>
Forget == <<OpM("zero", "abs", 0), OpM("zero", "abs", 1)>>
ReadBoth == CallNative(0) \o <<OpM("stor", "abs", 0)>> \o CallNative(0) \o <<OpM("stor", "abs", 1)>>

-----------------------------------------------------------------------------
(* The scripts.                                                            *)

Program(header, lines) ==
  [lines |-> <<Start0>> \o lines, main |-> "main", publics |-> <<>>, natives |-> <<"get">>,
   data |-> [a \in 0..1 |-> 0], hlw |-> 2, stp |-> 20, header |-> header, debug |-> TRUE]

\* Divides and computes with two values; not compiled with debug information
Calculator ==
  [Program(1, <<
    Line("calc.pwn", "main", 1, <<Lab("main", Op("proc"))>> \o ReadBoth),
    Line("calc.pwn", "main", 2, LoadBoth \o <<Op("sdiv"), Op("nop")>>),
    Line("calc.pwn", "main", 3, LoadBoth \o <<Op("udiv"), Op("nop")>>),
    Line("calc.pwn", "main", 4, LoadBoth \o <<Op("xchg"), Op("sdiv_alt"), Op("nop")>>),
    Line("calc.pwn", "main", 5, LoadBoth \o <<Op("xchg"), Op("udiv_alt")>>),
    Line("calc.pwn", "main", 6, LoadBoth \o <<Op("shl"), Op("shr"), Op("sshr"), OpN("shl_c", 1), AltN("shr_c", 2)>>),
    Line("calc.pwn", "main", 7, LoadBoth \o <<Op("smul"), Op("umul"), Op("add"), Op("sub"), Op("sub_alt")>>),
    Line("calc.pwn", "main", 8, LoadBoth \o <<Op("and"), Op("or"), Op("xor"), Op("neg"), Op("invert"), Op("not")>>),
    Line("calc.pwn", "main", 9, LoadBoth \o <<OpN("add_c", 9), OpN("smul_c", 5), Op("sign"), Alt("sign")>>),
    Line("calc.pwn", "main", 10, LoadBoth \o <<Op("inc_reg"), Alt("dec_reg")>>),
    Line("calc.pwn", "main", 11, Forget \o Leave0)>>) EXCEPT !.debug = FALSE]

\* Every jump, a case table, calls through a register, and what only debuggers look at
Jumper ==
  LET jumps == <<"jeq", "jneq", "jless", "jleq", "jgrtr", "jgeq", "jsless", "jsleq", "jsgrtr", "jsgeq", "jzer", "jnz">>
      behind == <<"l1", "l2", "l3", "l4", "l5", "l6", "l7", "l8", "l9", "l10", "l11", "l12">>
      relations == <<"eq", "neq", "less", "leq", "grtr", "geq", "sless", "sleq", "sgrtr", "sgeq">>
  IN Program(2, <<
    Line("jump.pwn", "main", 1, <<Lab("main", Op("proc"))>> \o ReadBoth \o LoadBoth),
    Line("jump.pwn", "main", 2,
         FlattenSeq([i \in 1..12 |-> <<OpTo(jumps[i], behind[i]), Op("nop"), Lab(behind[i], Op("nop"))>>])),
    Line("jump.pwn", "main", 3,
         FlattenSeq([i \in 1..10 |-> <<Op(relations[i]), OpM("load", "abs", 0)>>])),
    Line("jump.pwn", "main", 4, <<OpTo("switch", "table"), Lab("three", Op("zero_reg")), OpTo("jump", "end"),
                                  CaseTbl("table", "other", <<<<3, "three">>, <<-7, "three">>>>)>>),
    Line("jump.pwn", "main", 5, <<Lab("other", OpN("eq_c", 0)), AltN("eq_c", 0), Lab("end", OpN("jrel", 1)), Op("nop")>>),
    Line("jump.pwn", "main", 6, Forget \o Leave0)>>)

\* Functions called through registers, and jumps to a computed address
Computer ==
  [Program(3, <<
    Line("computed.pwn", "callee", 1, <<Lab("callee", Op("proc")), Op("break")>>),
    Line("computed.pwn", "callee", 2, CallNative(0) \o <<OpN("line", 0), OpN("srange", 0), OpN("symtag", 0), OpN("symbol", 1)>>),
    Line("computed.pwn", "callee", 3, <<Op("ret")>>),
    Line("computed.pwn", "main", 5, <<Lab("main", Op("proc"))>>),
    Line("computed.pwn", "main", 6, <<OpTo("const", "callee"), Op("call_pri"), Op("nop")>>),
    Line("computed.pwn", "main", 7, <<OpN("lctrl", 6), OpN("add_c", 4), Op("jump_pri"), Op("nop"),
                                      OpN("lctrl", 6), OpN("add_c", 5), OpN("sctrl", 6), Op("nop"), OpN("lctrl", 1)>>),
    Line("computed.pwn", "main", 8, Leave0)>>) EXCEPT !.publics = <<<<1, "callee">>>>]

\* Works on its data, first where it may and then wherever a value leads it
Memory ==
  [Program(4, <<
    Line("memory.pwn", "main", 1, <<Lab("main", Op("proc")), OpN("stack", -2)>>),
    Line("memory.pwn", "main", 2, <<OpM("zero", "frm", -1), OpN("const", 5), OpM("stor", "frm", -1), OpM("inc", "frm", -1),
                                    OpM("dec", "abs", 2), OpN("addr", -1), OpM("stor", "abs", 0), AltM("load", "ref", 0),
                                    AltM("stor", "ref", 0), OpN("const", 1), OpM("stor", "frm", -2),
                                    OpM("load", "refs", -2), OpM("stor", "refs", -2)>>),
    Line("memory.pwn", "main", 3, <<OpN("const", 3), AltN("const", 1), Op("lidx"), OpN("const", 1), OpN("lidx_b", 1),
                                    OpN("const", 1), Op("idxaddr"), OpN("idxaddr_b", 1), OpN("const", 4), Op("inc_i"), Op("dec_i"),
                                    OpN("const", 0), AltN("const", 2), OpN("movs", 2), OpN("const", 0), OpN("cmps", 2)>>),
    Line("memory.pwn", "main", 4, <<OpN("push_c", 7), Op("push_reg"), Op("swap"), Op("pop"), Alt("pop"), OpN("push_r", 2),
                                    OpN("stack", 2), OpM("push", "abs", 2), OpM("push", "frm", -1), OpN("pushaddr", -2), OpN("stack", 3),
                                    OpN("heap", 2), OpN("lctrl", 2), OpN("add_c", -2), OpN("sctrl", 2), OpN("lctrl", 3),
                                    Op("move"), OpN("lctrl", 4), OpN("sctrl", 4), OpN("lctrl", 5), OpN("sctrl", 5)>>),
    Line("memory.pwn", "main", 5, CallNative(0) \o <<Alt("move"), Op("load_i")>>),
    Line("memory.pwn", "main", 6, CallNative(0) \o <<Alt("move"), Op("stor_i"), OpN("fill", 2)>>),
    Line("memory.pwn", "main", 7, CallNative(0) \o <<OpN("bounds", 1)>>),
    Line("memory.pwn", "main", 8, <<OpN("stack", 2)>> \o Leave0)>>)
   EXCEPT !.hlw = 6, !.data = [a \in 0..5 |-> 0]]

\* Runs out of the stack, of the heap, of both ends of either, or returns to nowhere
Breaker ==
  [Program(5, <<
    Line("break.pwn", "deep", 1, <<Lab("deep", Op("proc")), OpM("inc", "abs", 0)>>),
    Line("break.pwn", "deep", 2, <<OpM("push", "frm", 3), OpN("push_c", 1), OpTo("call", "deep")>>),
    Line("break.pwn", "deep", 3, Leave0),
    Line("break.pwn", "main", 5, <<Lab("main", Op("proc"))>> \o CallNative(0)),
    Line("break.pwn", "main", 6, <<OpTo("switch", "table"),
                                   CaseTbl("table", "deeper", <<<<0, "grow">>, <<3, "shrink">>, <<120, "drop">>, <<-7, "lose">>>>)>>),
    Line("break.pwn", "main", 7, <<Lab("grow", OpN("heap", 15)), Lab("shrink", OpN("heap", -1)), Lab("drop", OpN("stack", 9))>>),
    Line("break.pwn", "main", 8, <<Lab("lose", OpN("push_c", -1)), OpN("push_c", 0), Op("ret")>>),
    Line("break.pwn", "main", 9, <<Lab("deeper", OpN("push_c", 5)), OpN("push_c", 1), OpTo("call", "deep")>> \o Leave0),
    Line("break.pwn", "again", 12, <<Lab("again", Op("proc"))>> \o CallNative(1)),
    Line("break.pwn", "again", 13, Leave0),
    Line("break.pwn", "unused", 15, <<Op("proc")>> \o Leave0)>>) EXCEPT !.natives = <<"get", "recall">>, !.publics = <<<<2, "again">>>>]

\* Functions and publics that call each other, also through a native; more lines than the header can count
Nested ==
  [Program(6, <<
    Line("helper.inc", "helper", 1, <<Lab("helper", Op("proc")), Op("break")>>),
    Line("helper.inc", "helper", 2, CallNative(1)),
    Line("helper.inc", "helper", 3, <<OpM("load", "frm", 3), Op("retn")>>),
    Line("nested.pwn", "event", 2, <<Lab("event", Op("proc")), Op("break")>>),
    Line("nested.pwn", "event", 3, CallNative(2)),
    Line("nested.pwn", "event", 4, Leave0),
    Line("nested.pwn", "main", 7, <<Lab("main", Op("proc"))>>),
    Line("nested.pwn", "main", 8, <<OpN("push_c", 5), OpN("push_c", 1), OpTo("call", "helper")>>),
    Line("nested.pwn", "main", 9, CallNative(2) \o Leave0),
    Line("nested.pwn", "last", 11, <<Op("proc")>> \o Leave0)>>)
   EXCEPT !.natives = <<"get", "call", "fail">>, !.publics = <<<<1, "event">>>>, !.stp = 24]

\* Sleeps in a native called by SYSREQ.pri, by SYSREQ.C and then by SYSREQ.D, and in HALT, behind which
\* it finds its stack by its frame
Sleeper ==
  [Program(7, <<
    Line("sleep.pwn", "main", 1, <<Lab("main", Op("proc")), OpN("stack", -1), OpM("zero", "frm", -1)>>),
    Line("sleep.pwn", "main", 2, <<Lab("again", OpN("push_c", 0)), OpN("const", 0), Op("sysreq_pri"), OpN("stack", 1)>>),
    Line("sleep.pwn", "main", 3, CallNative(0) \o <<OpM("inc", "frm", -1)>>),
    Line("sleep.pwn", "main", 4, <<OpM("load", "frm", -1), OpN("eq_c", 1), OpTo("jnz", "again")>>),
    Line("sleep.pwn", "main", 5, <<OpN("halt", ErrSleep), OpN("lctrl", 5), OpN("add_c", -1), OpN("sctrl", 4)>>),
    Line("sleep.pwn", "main", 6, CallNative(1) \o <<OpN("stack", 1)>> \o Leave0),
    Line("sleep.pwn", "last", 8, <<Op("proc")>> \o Leave0)>>) EXCEPT !.natives = <<"nap", "fail">>]

\* Contains a cell that is no instruction, and has no main
Invalid_ ==
  [Program(8, <<
    Line("invalid.pwn", "event", 1, <<Lab("event", Op("proc"))>>),
    Line("invalid.pwn", "event", 2, <<Op("none"), Op("nop")>>),
    Line("invalid.pwn", "event", 3, Leave0)>>) EXCEPT !.main = "", !.publics = <<<<1, "event">>>>]

\* Has only a public
Library ==
  [Program(9, <<
    Line("library.pwn", "event", 1, <<Lab("event", Op("proc"))>>),
    Line("library.pwn", "event", 2, CallNative(0)),
    Line("library.pwn", "event", 3, Leave0)>>) EXCEPT !.main = "", !.publics = <<<<1, "event">>>>]

Assembled ==
  [calc |-> Assemble(Calculator), jump |-> Assemble(Jumper), computed |-> Assemble(Computer),
   memory |-> Assemble(Memory), breaker |-> Assemble(Breaker), nested |-> Assemble(Nested),
   sleeper |-> Assemble(Sleeper), invalid |-> Assemble(Invalid_), library |-> Assemble(Library)]

-----------------------------------------------------------------------------
ScriptsOf(assembled) == [s \in DOMAIN assembled |-> assembled[s].script]
MCScripts == ScriptsOf(Assembled)
AllNatives == {"get", "call", "recall", "fail", "nap"}
MCNativeLists == {{"get", "call", "recall"}, AllNatives}
MCValues == [f \in AllNatives |-> IF f = "get" THEN {-100, -7, 0, 3, 120} ELSE {0}]
MCErrors == [f \in AllNatives |-> CASE f = "fail" -> {10} [] f = "nap" -> {ErrSleep} [] OTHER -> {}]
MCCallbacks == [f \in AllNatives |-> CASE f = "call" -> {1} [] f = "recall" -> {2} [] OTHER -> {}]
MCHookResults == {ErrNone, ErrSleep, 10}
MCHostCalls == {1, 2, 5}
MCArrays == {<<4, 4>>}

\* gamemode1 is given twice, gamemode2 not at all
MCServerCfg == <<[key |-> 0, value |-> "calc"], [key |-> 1, value |-> "jump"], [key |-> 1, value |-> "library"],
                 [key |-> 3, value |-> "breaker"]>>
MCGamemodes == [g \in {"calc", "jump", "breaker"} |-> Assembled[g].file]
MCFilterScripts ==
  {[hidden |-> FALSE, amx |-> TRUE, file |-> Assembled[s].file] : s \in {"computed", "memory", "nested", "sleeper", "invalid"}}
  \cup {[hidden |-> TRUE, amx |-> TRUE, file |-> Assembled["library"].file],
        [hidden |-> FALSE, amx |-> FALSE, file |-> Assembled["library"].file]}

\* The scripts and the tables are such as the theorems speak of
ASSUME CompiledAssumption ==
  \A s \in DOMAIN MCScripts : CodeCompiled(MCScripts[s]) /\ EntriesCompiled(MCScripts[s])
ASSUME FilesAssumption == FilesDescribe
=============================================================================
