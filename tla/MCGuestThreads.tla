--------------------------- MODULE MCGuestThreads ---------------------------
(***************************************************************************)
(* Three threads: a creator, what it starts or forks, and one more that    *)
(* holds the mutex meanwhile or is started in turn; one of their steps is  *)
(* interrupted.                                                            *)
(***************************************************************************)
EXTENDS GuestThreads
=============================================================================
