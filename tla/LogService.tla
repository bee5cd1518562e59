----------------------------- MODULE LogService -----------------------------
(***************************************************************************)
(* What log-core promises to a plugin: a message that Log accepts is       *)
(* written to the log exactly once, and messages are written in the order  *)
(* in which they were accepted.  Log only accepts; writing happens later.  *)
(***************************************************************************)
EXTENDS Integers, Sequences

CONSTANT Messages

VARIABLES
  accepted,  \* messages accepted so far, in order
  written    \* messages written so far, in order

vars == <<accepted, written>>

Init == accepted = <<>> /\ written = <<>>

Accept(m) ==
  /\ accepted' = Append(accepted, m)
  /\ UNCHANGED written

Write ==
  /\ Len(written) < Len(accepted)
  /\ written' = Append(written, accepted[Len(written) + 1])
  /\ UNCHANGED accepted

Next == Write \/ \E m \in Messages : Accept(m)

Spec == Init /\ [][Next]_vars

\* The promise with its liveness: what is accepted is eventually written.
LiveSpec == Spec /\ WF_vars(Write)
=============================================================================
