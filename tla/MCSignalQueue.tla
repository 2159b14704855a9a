---------------------------- MODULE MCSignalQueue ----------------------------
(* SignalQueue on a small instance. *)
EXTENDS SignalQueue

CONSTANTS p1, p2, n1, n2, n3
=============================================================================
