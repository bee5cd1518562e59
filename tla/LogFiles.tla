------------------------------ MODULE LogFiles ------------------------------
(***************************************************************************)
(* The directory of one log file as the rotation code sees it.  A name is  *)
(* a natural number: 0 is the live file F.log and n > 0 the backup         *)
(* F.log.n.  A directory is a function from the names that exist to the    *)
(* sequence of lines each file holds; a line is the number it was written  *)
(* under.                                                                  *)
(***************************************************************************)
EXTENDS Integers, Sequences

Live == 0

EmptyDir == [n \in {} |-> <<>>]

Exists(dir, n) == n \in DOMAIN dir

\* The names tinydir lists that are numbered backups of the log file.
Backups(dir) == {n \in DOMAIN dir : n > 0}

\* std::remove: the result is ignored, so a missing file is no error.
Remove(dir, n) == [m \in DOMAIN dir \ {n} |-> dir[m]]

\* std::ofstream(F, trunc): the file exists afterwards, and is empty.
Truncate(dir, n) == [m \in DOMAIN dir \cup {n} |-> IF m = n THEN <<>> ELSE dir[m]]

\* std::rename: replaces the target; a missing source changes nothing.
Rename(dir, from, to) ==
  IF Exists(dir, from)
  THEN [m \in (DOMAIN dir \ {from}) \cup {to} |-> IF m = to THEN dir[from] ELSE dir[m]]
  ELSE dir

\* std::ofstream(F, app): creates the file if it does not exist.
Open(dir, n) == IF Exists(dir, n) THEN dir ELSE Truncate(dir, n)

Lines(dir) == UNION {{dir[n][i] : i \in DOMAIN dir[n]} : n \in DOMAIN dir}

=============================================================================
