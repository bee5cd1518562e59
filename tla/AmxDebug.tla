------------------------------ MODULE AmxDebug ------------------------------
(***************************************************************************)
(* The debug information in a compiled script, as amxdbg.c loads it and    *)
(* looks addresses up.                                                     *)
(*                                                                         *)
(* A file is [header, magic, debug, debugMagic, files, lines, symbols]:    *)
(* the header of the script, whether the magic numbers and the debug flag  *)
(* are right, and the tables as the compiler has written them.  The header *)
(* of the debug information counts the lines modulo LinesMod.  Allocation  *)
(* failures are left out.                                                  *)
(***************************************************************************)
EXTENDS Integers, Sequences, FiniteSetsExt

CONSTANT LinesMod   \* 2^16: AMX_DBG_HDR.lines has 16 bits

ASSUME LinesAssumption == LinesMod \in Nat \ {0}

iFunction == 9   \* iFUNCTN

\* The address in the record n of the line table, or in the first symbol, which follows the table
RecordAddress(file, n) ==
  IF n <= Len(file.lines) THEN file.lines[n].address ELSE file.symbols[1].address

\* Mutant: what the header says.
CountedLines(file) == Len(file.lines) % LinesMod

\* dbg_LoadInfo takes LinesMod more records as long as the addresses go on to rise.  Behind no record
\* at all it would compare with what precedes the table, and behind the first symbol it would go astray
NumLines(file) ==
  LET last[n \in Nat] ==
        IF RecordAddress(file, n + 1) > RecordAddress(file, n) THEN last[n + LinesMod] ELSE n
  IN last[Len(file.lines) % LinesMod]

\* dbg_LoadInfo refuses the file
Refuses(file) == ~file.magic \/ ~file.debug \/ ~file.debugMagic

\* dbg_LoadInfo: the tables
LoadInfo(file) ==
  [files |-> file.files, lines |-> SubSeq(file.lines, 1, NumLines(file)), symbols |-> file.symbols]

\* The last record of the leading ones with addresses up to this one, in a table; 0 if there is none
RecordAt(table, address) ==
  LET later == {i \in DOMAIN table : table[i].address > address}
  IN IF later = {} THEN Len(table) ELSE Min(later) - 1

\* dbg_LookupFile, 0 if not found
LookupFile(info, address) == RecordAt(info.files, address)

\* dbg_LookupFunction: the last function around the address, 0 if there is none
LookupFunction(info, address) ==
  Max({0} \cup {i \in DOMAIN info.symbols : /\ info.symbols[i].ident = iFunction
                                            /\ info.symbols[i].codestart <= address
                                            /\ info.symbols[i].codeend > address})
-----------------------------------------------------------------------------
\* The line table as the compiler writes it: an address for each line, rising ...
TablesCompiled(file) ==
  /\ file.lines \in Seq([address : Int, line : Int])
  /\ \A n \in 1..(Len(file.lines) - 1) : RecordAddress(file, n + 1) > RecordAddress(file, n)
  /\ file.symbols[1].address \in Int

\* ... and where dbg_LoadInfo can tell its beginning and its end: the header counts at least one line,
\* and the first symbol, which follows the table, does not lie above the last line.
TablesRecognisable(file) ==
  /\ Len(file.lines) % LinesMod # 0
  /\ ~(RecordAddress(file, Len(file.lines) + 1) > RecordAddress(file, Len(file.lines)))
=============================================================================
