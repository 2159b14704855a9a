-------------------------- MODULE MCGuestExecution --------------------------
(* GuestExecution on a small instance. *)
EXTENDS GuestExecution
=============================================================================
