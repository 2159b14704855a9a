--------------------------- MODULE MCLockFreeStack ---------------------------
(* TLC instances of LockFreeStack. *)
EXTENDS LockFreeStack, TLC

Symmetry == Permutations(Thread) \cup Permutations(Node)
=============================================================================
