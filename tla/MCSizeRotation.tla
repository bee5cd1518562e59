--------------------------- MODULE MCSizeRotation ---------------------------
(***************************************************************************)
(* Model checking of SizeRotation: the values of BackupCount that matter.  *)
(***************************************************************************)
EXTENDS SizeRotation

BackupCountValues == {-1, 0, 1, 2, 3}

=============================================================================
