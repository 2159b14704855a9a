------------------------ MODULE MCMemoryReservation ------------------------
(* MemoryReservation on small instances. *)
EXTENDS MemoryReservation

CONSTANTS t1, t2, r1, e1

HashToOne == [r \in Region |-> e1]
=============================================================================
