----------------------------- MODULE MCGenCode -----------------------------
(***************************************************************************)
(* TLC instances of GenCode: every region of up to four instructions in    *)
(* which two instructions of any kind are followed by a branch, forward or *)
(* back, and that by an instruction or a branch to the one before it.      *)
(***************************************************************************)
EXTENDS GenCode

(* Reads and writes of both widths of each register, operations with and   *)
(* without immediates and flags, operations that need a fixed register,    *)
(* memory accesses, and the two ways in which a region ends early.         *)
Data == { G("MovImm", 0, 0, 0, 3, 0), G("AddImm", 0, 1, 0, 5, 0), G("SubsImm", 1, 1, 0, 1, 0),
          G("AddWImm", 0, 0, 0, 0, 0), G("AddWImm", 1, 0, 0, 2, 0), G("Add", 0, 0, 1, 0, 0),
          G("Lslv", 1, 0, 1, 0, 0), G("Csel", 0, 0, 1, 0, 0), G("VAdd", 0, 0, 1, 0, 0),
          G("FmovDD", 0, 0, 0, 0, 0), G("FmovDX", 1, 0, 0, 0, 0), G("FmovXD", 0, 1, 0, 0, 0),
          G("Ldr", 0, 1, 0, 8, 0), G("Str", 0, 1, 0, 0, 0),
          G("Br", 0, 0, 0, 0, 0), G("Undefined", 0, 0, 0, 0, 0) }

Branches(ops, to) == {G(op, 0, 0, 0, 0, a) : op \in ops, a \in to}

MCSource(pc) ==
    CASE pc = 1 -> Data \cup Branches({"Cbz", "BCond"}, {3, 4}) \cup Branches({"B"}, {3})
      [] pc = 2 -> Data \cup Branches({"Cbz", "B"}, {1, 4})
      [] pc = 3 -> Branches({"Cbz"}, {1, 2}) \cup Branches({"BCond"}, {4})
      [] OTHER -> {G("AddImm", 0, 1, 0, 5, 0)} \cup Branches({"Cbz"}, {3})

(* An operation on the lower half of a vector register that was written. *)
HalfSource(pc) == {G("VAdd", 0, 0, 1, 0, 0), G("OrrD", 0, 0, 0, 1, 0)}
=============================================================================
