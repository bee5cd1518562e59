--------------------------- MODULE AmxDebugManager ---------------------------
(***************************************************************************)
(* AmxDebugManager on top of the abstract machine: the debug information   *)
(* of the server's scripts, the one a loaded script is registered with,    *)
(* and the look-ups with which a plugin's native finds out where in the    *)
(* script it has been called.                                              *)
(*                                                                         *)
(* All of it runs on the server's thread, between two steps of the machine.*)
(* The server has one AMX, into which it loads one script after the other. *)
(***************************************************************************)
EXTENDS Amx, AmxDebug

CONSTANTS
  DisableDebugInfo,  \* what the configuration may say
  ServerCfg,         \* the lines of server.cfg: [key, value], gamemode<i> having the key i
  Gamemodes,         \* the files in gamemodes/, a function on their names
  FilterScripts,     \* the files under filterscripts/: [hidden, amx, file], hidden if a directory is
  NoInfo

VARIABLES
  disableDebugInfo,    \* _disableDebugInfo
  availableDebugInfo,  \* _availableDebugInfo: [header, info]
  amxDebugMap          \* _amxDebugMap: the information for the AMX, or NoInfo

debugVars == <<disableDebugInfo, availableDebugInfo, amxDebugMap>>

\* SampConfigReader: the first line for a key counts, and the list ends at the first number without one
GetGamemodeList ==
  LET value(i) == ServerCfg[Min({l \in DOMAIN ServerCfg : ServerCfg[l].key = i})].value
      set == {i \in 0..Len(ServerCfg) : \A j \in 0..i : \E l \in DOMAIN ServerCfg : ServerCfg[l].key = j}
  IN {value(i) : i \in set}

\* InitDebugData and InitDebugDataDir
InitDebugData(files) == {[header |-> f.header, info |-> LoadInfo(f)] : f \in {g \in files : ~Refuses(g)}}
InitDebugDataDir == InitDebugData({e.file : e \in {d \in FilterScripts : ~d.hidden /\ d.amx}})

\* The constructor: without a gamemode the filterscripts are not looked at either
ManagerInit ==
  /\ disableDebugInfo \in DisableDebugInfo
  /\ availableDebugInfo =
       IF disableDebugInfo \/ GetGamemodeList = {} THEN {}
       ELSE InitDebugData({Gamemodes[g] : g \in GetGamemodeList \cap DOMAIN Gamemodes}) \cup InitDebugDataDir
  /\ amxDebugMap = NoInfo

\* RegisterAmx: the information is kept in an unordered map
RegisterAmx ==
  /\ where = "host"
  /\ script # NoScript
  /\ ~disableDebugInfo
  /\ amxDebugMap = NoInfo
  /\ \E d \in availableDebugInfo : d.header = Scripts[script].header /\ amxDebugMap' = d.info
  /\ UNCHANGED <<vars, disableDebugInfo, availableDebugInfo>>

EraseAmx ==
  /\ where = "host"
  /\ ~disableDebugInfo
  /\ amxDebugMap' = NoInfo
  /\ UNCHANGED <<vars, disableDebugInfo, availableDebugInfo>>

\* The plugin erases a script before the server frees it
Unload == amxDebugMap = NoInfo /\ FreeProgram /\ UNCHANGED debugVars

-----------------------------------------------------------------------------
Unknown == [line |-> 0, file |-> "<unknown>", function |-> "<unknown>"]
NoInfoFound == [line |-> -1, file |-> "", function |-> ""]

\* GetFunctionCall in some information: an address in the last line runs off the table and is refused
FunctionCall(info, address) ==
  LET line == RecordAt(info.lines, address)
      file == LookupFile(info, address)
      function == LookupFunction(info, address)
  IN IF line = Len(info.lines) \/ 0 \in {line, file, function} THEN NoInfoFound
     ELSE [line |-> info.lines[line].line + 1, file |-> info.files[file].name,
           function |-> info.symbols[function].name]

GetFunctionCall(address) ==
  IF disableDebugInfo \/ amxDebugMap = NoInfo THEN NoInfoFound ELSE FunctionCall(amxDebugMap, address)

\* Mutant: goes to the caller's frame before it reads the return address.
CallTraceFromCaller ==
  LET callers_[frm \in DOMAIN mem] ==
        LET ret == mem[mem[frm] + 1]
            call == IF GetFunctionCall(ret) = NoInfoFound THEN Unknown ELSE GetFunctionCall(ret)
        IN IF ret = 0 THEN <<>>
           ELSE <<call>> \o IF mem[frm] = 0 THEN <<>> ELSE callers_[mem[frm]]
  IN IF GetFunctionCall(amx.cip) = NoInfoFound THEN <<>>
     ELSE <<GetFunctionCall(amx.cip)>> \o callers_[amx.frm]

\* GetFunctionCallTrace behind its checks: the call at cip, and those that the frames on the stack lead to
CallTrace ==
  LET outer[frm \in DOMAIN mem] ==
        LET ret == mem[frm + 1]
            call == IF GetFunctionCall(ret) = NoInfoFound THEN Unknown ELSE GetFunctionCall(ret)
        IN IF ret = 0 THEN <<>>
           ELSE <<call>> \o IF mem[frm] = 0 THEN <<>> ELSE outer[mem[frm]]
      trace == <<GetFunctionCall(amx.cip)>> \o outer[amx.frm]
  IN IF GetFunctionCall(amx.cip) = NoInfoFound THEN <<>>
     ELSE IF Len(trace) > 1 THEN [trace EXCEPT ![Len(trace)].line = @ - 1] ELSE trace

\* Its checks: an AMX that is registered is refused, and without registration nothing is found
GetFunctionCallTrace == IF disableDebugInfo \/ amxDebugMap # NoInfo THEN <<>> ELSE CallTrace

-----------------------------------------------------------------------------
systemVars == <<vars, debugVars>>
SystemInit == Init /\ ManagerInit
SystemNext ==
  \/ AmxStep /\ UNCHANGED debugVars
  \/ RegisterAmx
  \/ EraseAmx
  \/ Unload
SystemSpec == SystemInit /\ [][SystemNext]_systemVars

-----------------------------------------------------------------------------
(* Properties.                                                             *)

InLastLine(s, address) ==
  Scripts[s].source[address] = Scripts[s].source[Cardinality(DOMAIN Scripts[s].source) - 1]

\* The tables of the file describe the script s as the compiler writes them.  A record of the lines or of the
\* files holds up to the next one, the functions do not overlap, and the last line is nowhere else.
TablesDescribe(file, s) ==
  LET source == Scripts[s].source
      first == file.lines[1].address
      holds(table, n, a) == table[n].address <= a /\ (n < Len(table) => a < table[n + 1].address)
      around(i, a) == /\ file.symbols[i].ident = iFunction
                      /\ file.symbols[i].codestart <= a
                      /\ file.symbols[i].codeend > a
  IN /\ file.files \in Seq([address : Int, name : STRING]) \ {<<>>}
     /\ file.files[1].address <= first
     /\ file.symbols \in Seq([ident : Int, address : Int, codestart : Int, codeend : Int, name : STRING])
     /\ \A n \in DOMAIN file.lines : file.lines[n].line \in Nat
     /\ \A a \in DOMAIN source :
          /\ a \in Int
          /\ a < first => source[a].line = 0
          /\ \A n \in DOMAIN file.lines : holds(file.lines, n, a) => source[a].line = file.lines[n].line + 1
          /\ \A n \in DOMAIN file.files : holds(file.files, n, a) => source[a].file = file.files[n].name
          /\ a >= first => \E i \in DOMAIN file.symbols : around(i, a)
          /\ \A i \in DOMAIN file.symbols : around(i, a) => source[a].function = file.symbols[i].name
          /\ InLastLine(s, a) <=> a >= file.lines[Len(file.lines)].address

\* So do those of every file that the configuration may name.
ServerFiles == {Gamemodes[g] : g \in DOMAIN Gamemodes} \cup {e.file : e \in FilterScripts}
FilesDescribe ==
  \A f \in ServerFiles, s \in DOMAIN Scripts :
    ~Refuses(f) /\ f.header = Scripts[s].header =>
      TablesCompiled(f) /\ TablesRecognisable(f) /\ TablesDescribe(f, s)

\* GetFunctionCall finds the file, the function and the line of an address of the code, whatever the
\* number of lines; only what belongs to no line or to the last line of the script is refused.
LookupsExact ==
  script = NoScript =>
    \A s \in DOMAIN Scripts, d \in availableDebugInfo : d.header = Scripts[s].header =>
      LET source == Scripts[s].source IN
      \A a \in DOMAIN source :
           FunctionCall(d.info, a) =
             IF source[a].line = 0 \/ InLastLine(s, a) THEN NoInfoFound
             ELSE [line |-> source[a].line, file |-> source[a].file, function |-> source[a].function]

\* In a native that has not run another script function, the trace behind GetFunctionCallTrace's checks
\* names the functions that are being called, from the native's caller to the public, also after a sleep
\* and within a nested run, and the line of the native's call.  Only a call in the last line is unknown.
TraceShowsCalls ==
  where = "native" /\ ~native.nested /\ amxDebugMap # NoInfo /\ CallTrace # <<>> =>
    LET source == Scripts[script].source
        depth == Len(calls)
    IN /\ Len(CallTrace) = depth
       /\ CallTrace[1].line = source[regs.cip - 1].line
       /\ \A i \in 1..depth :
            CallTrace[i].function =
              IF i > 1 /\ InLastLine(script, calls[depth + 2 - i].ret)
              THEN "<unknown>" ELSE source[calls[depth + 1 - i].entry].function
=============================================================================
