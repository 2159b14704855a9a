--------------------------- MODULE MCGuestMemory ---------------------------
(* GuestMemory on small instances.  Threads are interchangeable. *)
EXTENDS GuestMemory, TLC

Symmetry == Permutations(Thread)
=============================================================================
