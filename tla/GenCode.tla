------------------------------ MODULE GenCode ------------------------------
(***************************************************************************)
(* The heavy optimizer from a guest region to allocated machine code: the  *)
(* frontend translates guest instructions one by one, resolves the jumps   *)
(* of the region, and GenCode runs its passes over the machine IR.         *)
(*                                                                         *)
(* Whatever program the region holds, each stage has to keep what the      *)
(* program does: `meaning' is what the guest's instructions promise, and   *)
(* the behaviours of `ir' are compared with it after every pass.           *)
(***************************************************************************)
EXTENDS HeavyOptimizerFrontend, GuestContextOptimizer, InsnFolding, RegAlloc

CONSTANTS Source(_), \* the guest instructions that may be at an address
          MaxInsns   \* max_number_of_instructions of a region

VARIABLES program, \* the guest instructions translated so far
          fe,      \* the frontend
          ir,      \* the machine IR, once the frontend is done with it
          passes,  \* the passes that GenCode has still to run
          meaning  \* what the region's guest instructions promise to do

vars == <<program, fe, ir, passes, meaning>>

(* kDisableHeavyOptimizations leaves the passes that are required.         *)
(* FoldWriteFlags is left out: it only rewrites PseudoWriteFlags, which no *)
(* frontend generates.                                                     *)
RequiredPasses == <<"RemoveCriticalEdges", "RenameVRegs", "AllocRegs">>
AllPasses ==
    <<"RemoveCriticalEdges", "MoveColdBlocksToEnd", "RemoveLoopGuestContextAccesses",
      "RenameVRegs", "RemoveLocalGuestContextAccesses", "RemoveRedundantPut", "FoldInsns",
      "RenameCopyUses", "RemoveDeadCode", "AllocRegs", "RemoveNopPseudoCopy",
      "RemoveForwarderBlocks">>

Init == /\ program = << >>
        /\ fe = StartRegion
        /\ ir = EmptyIR
        /\ passes = <<"Finalize">>
        /\ meaning = {}

Translating == passes = <<"Finalize">>

TranslateGuestInsn ==
    /\ Translating
    /\ Len(program) < MaxInsns
    /\ fe.success
    /\ ~IsRegionEndReached(fe)
    /\ \E g \in Source(fe.pc) : /\ program' = Append(program, g)
                                /\ fe' = TranslateInsn(fe, g)
    /\ UNCHANGED <<ir, passes, meaning>>

(* The region ends at its limit, or where the executable memory ends. *)
FinalizeRegion ==
    /\ Translating
    /\ program # << >>
    /\ LET done == Finalize(fe)
       IN /\ fe' = [done EXCEPT !.ir = EmptyIR]
          /\ ir' = done.ir
    /\ meaning' = GuestBehaviours(program, Len(program))
    /\ passes' \in {AllPasses, RequiredPasses}
    /\ UNCHANGED program

Pass(name, result) ==
    /\ passes # << >>
    /\ Head(passes) = name
    /\ ~fe.stray
    /\ ir' = result
    /\ passes' = Tail(passes)
    /\ UNCHANGED <<program, fe, meaning>>

Next ==
    \/ TranslateGuestInsn
    \/ FinalizeRegion
    \/ Pass("RemoveCriticalEdges", RemoveCriticalEdges(ir))
    \/ Pass("MoveColdBlocksToEnd", MoveColdBlocksToEnd(ir))
    \/ Pass("RemoveLoopGuestContextAccesses", RemoveLoopGuestContextAccesses(ir))
    \/ Pass("RenameVRegs", RenameVRegs(ir))
    \/ Pass("RemoveLocalGuestContextAccesses", RemoveLocalGuestContextAccesses(ir))
    \/ Pass("RemoveRedundantPut", RemoveRedundantPut(ir))
    \/ Pass("FoldInsns", FoldInsns(ir))
    \/ Pass("RenameCopyUses", RenameCopyUses(ir))
    \/ Pass("RemoveDeadCode", RemoveDeadCode(ir))
    \/ Pass("AllocRegs", AllocRegs(ir))
    \/ Pass("RemoveNopPseudoCopy", RemoveNopPseudoCopy(ir))
    \/ Pass("RemoveForwarderBlocks", RemoveForwarderBlocks(ir))

Spec == Init /\ [][Next]_vars

(***************************************************************************)
(* Properties.                                                             *)
(***************************************************************************)
(* The machine code of a region does what its guest instructions promise,  *)
(* when the frontend is done and after every pass: the same branches and   *)
(* accesses in the same order, the same exits, and at each exit, a fault   *)
(* included, the same guest registers.                                     *)
MeaningIsKept == ~Translating /\ ~fe.stray => Behaviours(ir) = meaning

(* CheckMachineIR, which GenCode runs before the first and after the last  *)
(* pass, succeeds at each stage between them too.                          *)
GraphIsSound == ~Translating /\ ~fe.stray => CheckMachineIR(ir)

(* A block is split only at an instruction of its own, as SplitBasicBlock  *)
(* requires of its callers.                                                *)
SplitsOwnInsns == ~fe.stray

Ahead(name) == passes # << >> /\ Head(passes) = name

(* What the passes CHECK of each other's work holds whenever they start:   *)
(* loops are entered and left by edges of their own, no edge is critical   *)
(* where values move along it, the flags are one register in a block, and  *)
(* the allocator finds a register for every lifetime.                      *)
PassesCanRun ==
    /\ Ahead("RemoveLoopGuestContextAccesses") =>
          \A loop \in FindLoops(ir) : LoopHasOwnEdges(ir, loop)
    /\ Ahead("RenameVRegs") =>
          \A b \in ToSet(ir.list) : \A s \in Succs(ir, b) : ~IsCritical(ir, b, s)
    /\ Ahead("FoldInsns") => FlagsAreOneRegister(ir)
    /\ Ahead("AllocRegs") => Allocation(ir).ok

(* Once registers are allocated, every operand is a hard register of the   *)
(* class its instruction asks for; only a copy may use a stack slot, and   *)
(* only on one side.                                                       *)
OperandsFit ==
    ~Translating /\ ~Contains(passes, "AllocRegs") =>
        \A b \in ToSet(ir.list) : \A insn \in ToSet(Insns(ir, b)) :
            \A i \in Operands(insn) :
                \/ insn.regs[i] \in ToSet(RegClass[Kind(insn, i).cls])
                \/ IsCopy(insn) /\ IsSpilledReg(insn.regs[i]) /\ ~IsSpilledReg(insn.regs[3 - i])
=============================================================================
