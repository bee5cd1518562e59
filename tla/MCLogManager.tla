---------------------------- MODULE MCLogManager ----------------------------
(***************************************************************************)
(* Model checking of LogManager: small sets come from the .cfg files.      *)
(***************************************************************************)
EXTENDS LogManager, TLC

Symmetry == Permutations(Callers)

=============================================================================
