--------------------------- MODULE MCDateRotation ---------------------------
(***************************************************************************)
(* Model checking of DateRotation: the values of BackupCount that matter.  *)
(* A negative count keeps every backup.                                    *)
(***************************************************************************)
EXTENDS DateRotation

BackupCountValues == {-1, 0, 1, 2}

=============================================================================
