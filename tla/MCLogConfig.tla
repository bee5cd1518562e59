---------------------------- MODULE MCLogConfig ----------------------------
(***************************************************************************)
(* Model checking of LogConfig: contents of the configuration file.        *)
(***************************************************************************)
EXTENDS LogConfig

PluginLoggers == Loggers \ {InternalLogger}

\* A file that gives every plugin's logger the setting s, and one that names none.
Everyone(s, w) == [for |-> PluginLoggers, as |-> [l \in PluginLoggers |-> s], warns |-> w]
Nobody == [for |-> {}, as |-> [l \in PluginLoggers |-> "plain"], warns |-> FALSE]

\* What there may be at the start, and later on.
FirstFiles == Unreadable \cup {Everyone("plain", TRUE), Everyone("rotated", FALSE)}
NextFiles == {Malformed, Nobody, Everyone("plain", FALSE), Everyone("rotated", TRUE)}

\* The start with a readable file that is worth a warning.
WarningFile == {Everyone("plain", TRUE)}

=============================================================================
