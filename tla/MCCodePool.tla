----------------------------- MODULE MCCodePool -----------------------------
(***************************************************************************)
(* Three threads, which can be up to three processes, and two pieces of    *)
(* code: two small ones fit in a region, a large one needs a region of its *)
(* own size.                                                               *)
(***************************************************************************)
EXTENDS CodePool
=============================================================================
