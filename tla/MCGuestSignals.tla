---------------------------- MODULE MCGuestSignals ----------------------------
(* TLC instances of GuestSignals. *)
EXTENDS GuestSignals

(* Signal 1 blocks itself and 2; signal 2 has SA_NODEFER and an empty mask. *)
Masks == [s \in SigNo |-> IF s = 1 THEN {1, 2} ELSE {}]

(* Every signal blocks only itself, the default. *)
MasksSelf == [s \in SigNo |-> {s}]

(* Two signals and a guest call; for a guest that does both, one signal and  *)
(* two calls.                                                                *)
SignalsOf(features) == IF features = Feature THEN 1 ELSE 2
CallsOf(features) == IF features = Feature THEN 2 ELSE 1
One(features) == 1

AnyGuest == {{}, {"sigaction"}, Feature}
ResettingGuest == {{"sigaction"}}
=============================================================================
