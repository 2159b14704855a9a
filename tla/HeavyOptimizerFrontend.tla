----------------------- MODULE HeavyOptimizerFrontend -----------------------
(***************************************************************************)
(* The arm64 frontend of the heavy optimizer: a region of guest            *)
(* instructions becomes machine IR, and the jumps that stay inside the     *)
(* region become branches between its blocks.                              *)
(*                                                                         *)
(* The guest instructions are chosen so that every lowering pattern        *)
(* occurs: straight code with and without condition flags, a 32-bit        *)
(* operation, an operand bound to one host register (LSLV), accesses that  *)
(* may fault, with and without writeback, a conditional inside one         *)
(* instruction (CSEL), 16-byte and 8-byte accesses to vector registers,    *)
(* every kind of branch, an instruction that emits nothing (NOP), and one  *)
(* that is not supported.                                                  *)
(***************************************************************************)
EXTENDS GuestProgram

(***************************************************************************)
(* The state of the frontend: the IR, the block being filled, the guest    *)
(* address, `branch_targets_', `is_uncond_branch_' and `success_'.  A      *)
(* position has the block the frontend believes it is in, `bb' (0 for      *)
(* none), and the instruction it points at, which is the `idx'-th of block *)
(* `at': a list iterator follows its instruction when a block is split.    *)
(* `stray' says that a block was split at an instruction of another block. *)
(***************************************************************************)
NoPosition == [bb |-> 0, at |-> 0, idx |-> 0]

GetFlagsRegister == VRegFromIndex(0)
Temp(fe, i) == VRegFromIndex(fe.ir.nvreg + i)

(* Appends code to the current block, in which n new registers occur. *)
Gen(fe, n, insns) ==
    [fe EXCEPT !.ir = [AppendInsns(fe.ir, fe.bb, insns) EXCEPT !.nvreg = @ + n]]

StartBasicBlock(fe, b) == [fe EXCEPT !.ir.list = Append(@, b), !.bb = b]

StartRegion ==
    LET ir == AddEdge(NewBasicBlock(NewBasicBlock([EmptyIR EXCEPT !.nvreg = 1])), 1, 2)
        fe == [ir |-> ir, bb |-> 0, pc |-> 1, targets |-> << >>,
               uncond |-> FALSE, success |-> TRUE, stray |-> FALSE]
    IN StartBasicBlock(Gen(StartBasicBlock(fe, 1), 0, <<PseudoBranch(2)>>), 2)

(* A jump to a guest address, which is remembered as the target of one. *)
GenJump(fe, target) ==
    LET kind == IF target <= fe.pc THEN "check" ELSE "nocheck"
        Seen == IF target \in DOMAIN fe.targets THEN fe.targets
                ELSE (target :> NoPosition) @@ fe.targets
    IN Gen([fe EXCEPT !.targets = Seen], 0, <<PseudoJump(target, kind)>>)

ExitGeneratedCode(fe, target) == Gen(fe, 0, <<PseudoJump(target, "exit")>>)

(* The last instruction may fault: it ends its block, and a second block   *)
(* leaves the region for the guest's signal handler.                       *)
GenRecoveryBlockForLastInsn(fe) ==
    LET cur == fe.bb
        last == Len(Insns(fe.ir, cur))
        cont == NumBB(fe.ir) + 1
        rec == NumBB(fe.ir) + 2
        ir == AddEdge(AddEdge(NewBasicBlock(NewBasicBlock(fe.ir)), cur, cont), cur, rec)
        marked == [ir EXCEPT !.bb[cur].insns[last].rec = rec, !.bb[rec].rec = TRUE]
        branched == Gen([fe EXCEPT !.ir = marked], 0, <<PseudoBranch(cont)>>)
    IN StartBasicBlock(ExitGeneratedCode(StartBasicBlock(branched, rec), fe.pc), cont)

(* Two new blocks after the current one. *)
Fork(fe) ==
    LET a == NumBB(fe.ir) + 1
    IN [fe EXCEPT !.ir = AddEdge(AddEdge(NewBasicBlock(NewBasicBlock(@)), fe.bb, a),
                                 fe.bb, a + 1)]

(***************************************************************************)
(* Lowering.  Each operator appends the code of a guest instruction.       *)
(***************************************************************************)
AluImm(fn, r, imm) ==
    [Insn("AluImm", <<r, GetFlagsRegister>>) EXCEPT !.fn = fn, !.imm = imm]
AlulImm(fn, r, imm) ==
    [Insn("AlulImm", <<r, GetFlagsRegister>>) EXCEPT !.fn = fn, !.imm = imm]
Alu(fn, r, s) == [Insn("Alu", <<r, s, GetFlagsRegister>>) EXCEPT !.fn = fn]
TestRegReg(r) == Insn("Test", <<r, r, GetFlagsRegister>>)
Vop(fn, r, s) == [Insn("Vop", <<r, s>>) EXCEPT !.fn = fn]

kFlagsNZCVMask == 49409  \* N, Z, C and V in the host's layout
kFlagCarry == 256
kFlagZeroBit == 14

EmitMaterializeNZCVOfSub(raw) ==
    << Insn("ReadFlags", <<raw, GetFlagsRegister>>),
       AlulImm("and", raw, kFlagsNZCVMask), AlulImm("xor", raw, kFlagCarry),
       GenPut("PutW", FlagsOffset, raw) >>

ApplyTbi(r, base) ==
    <<PseudoCopy(r, base, 8), AluImm("shl", r, 8), AluImm("shr", r, 8)>>

AddImm(r, base, imm) ==
    <<PseudoCopy(r, base, 8)>> \o (IF imm # 0 THEN <<AluImm("add", r, imm)>> ELSE << >>)

AllocZeroedSimdReg(r) == <<Insn("DefRegX", <<r>>), Vop("xor", r, r)>>
SetVRegScalar(d, merged, value) ==
    AllocZeroedSimdReg(merged) \o
    <<Insn("MovsdXX", <<merged, value>>), GenPut("PutX16", VOffset(d), merged)>>

(* GetReg and SetReg, of the i-th new register. *)
GetReg(fe, i, r) == GenGet("Get", Temp(fe, i), XOffset(r))
SetReg(fe, r, i) == GenPut("Put", XOffset(r), Temp(fe, i))

MoveWide(fe, g) == Gen(fe, 1, <<MovImm(Temp(fe, 0), g.imm), SetReg(fe, g.d, 0)>>)

(* ADD, its 32-bit form, and SUBS, which sets the flags. *)
AddSubImm(fe, g) ==
  LET src == Temp(fe, 0)
      dst == Temp(fe, 1)
  IN CASE g.op = "AddImm" ->
            Gen(fe, 2, <<GetReg(fe, 0, g.n)>> \o AddImm(dst, src, g.imm)
                       \o <<SetReg(fe, g.d, 1)>>)
       [] g.op = "AddWImm" ->
            Gen(fe, 2, <<GetReg(fe, 0, g.n), Insn("Movl", <<dst, src>>)>>
                       \o (IF g.imm # 0 THEN <<AlulImm("add", dst, g.imm)>> ELSE << >>)
                       \o <<SetReg(fe, g.d, 1)>>)
       [] g.op = "SubsImm" ->
            Gen(fe, 3, <<GetReg(fe, 0, g.n), PseudoCopy(dst, src, 8), AluImm("sub", dst, g.imm)>>
                       \o EmitMaterializeNZCVOfSub(Temp(fe, 2)) \o <<SetReg(fe, g.d, 1)>>)

AddSubShiftedReg(fe, g) ==
    Gen(fe, 4, <<GetReg(fe, 0, g.n), GetReg(fe, 1, g.m),
                 PseudoCopy(Temp(fe, 2), Temp(fe, 1), 8), PseudoCopy(Temp(fe, 3), Temp(fe, 0), 8),
                 Alu("add", Temp(fe, 3), Temp(fe, 2)), SetReg(fe, g.d, 3)>>)

(* LSLV: the count is bound to RCX. *)
DataProc2Src(fe, g) ==
    Gen(fe, 4, <<GetReg(fe, 0, g.n), GetReg(fe, 1, g.m),
                 PseudoCopy(Temp(fe, 2), Temp(fe, 0), 8), PseudoCopy(Temp(fe, 3), Temp(fe, 1), 8),
                 Insn("ShlCl", <<Temp(fe, 2), Temp(fe, 3), GetFlagsRegister>>),
                 SetReg(fe, g.d, 2)>>)

AdvSimdThreeSame(fe, g) ==
    Gen(fe, 2, <<GenGet("GetX16", Temp(fe, 0), VOffset(g.n)),
                 GenGet("GetX16", Temp(fe, 1), VOffset(g.m)),
                 Vop("padd", Temp(fe, 0), Temp(fe, 1)),
                 GenPut("PutX16", VOffset(g.d), Temp(fe, 0))>>)

(* FMOV Dd, Dn *)
FpDataProc1(fe, g) ==
    Gen(fe, 2, <<GenGet("GetX8", Temp(fe, 0), VOffset(g.n))>>
               \o SetVRegScalar(g.d, Temp(fe, 1), Temp(fe, 0)))

(* FMOV Dd, Xn and FMOV Xd, Dn *)
FpIntConversion(fe, g) ==
    IF g.op = "FmovDX"
    THEN Gen(fe, 2, <<GetReg(fe, 0, g.n)>> \o AllocZeroedSimdReg(Temp(fe, 1))
                    \o <<Insn("MovqXR", <<Temp(fe, 1), Temp(fe, 0)>>),
                         GenPut("PutX16", VOffset(g.d), Temp(fe, 1))>>)
    ELSE Gen(fe, 2, <<GenGet("GetX8", Temp(fe, 0), VOffset(g.n)),
                      Insn("MovqRX", <<Temp(fe, 1), Temp(fe, 0)>>), SetReg(fe, g.d, 1)>>)

(* ORR Vd.4H, #imm: the low half is loaded, the upper half meant to be zero. *)
SimdModifiedImm(fe, g) ==
    Gen(fe, 3, AllocZeroedSimdReg(Temp(fe, 1)) \o
               <<MovImm(Temp(fe, 0), g.imm), Insn("MovqXR", <<Temp(fe, 1), Temp(fe, 0)>>),
                 GenGet("GetX8", Temp(fe, 2), VOffset(g.d)),
                 Vop("por", Temp(fe, 2), Temp(fe, 1)),
                 GenPut("PutX16", VOffset(g.d), Temp(fe, 2))>>)

(* LDR and STR, with post-index writeback if `imm' is not 0. *)
LowerAccess(fe, g) ==
  LET base == Temp(fe, 0)
      Base == GenGet("Get", base, XOffset(g.n))
      Data == GenGet("Get", Temp(fe, 1), XOffset(g.d))
      Done == GenRecoveryBlockForLastInsn(
                IF g.op = "Ldr"
                THEN Gen(fe, 3, <<Base>> \o ApplyTbi(Temp(fe, 2), base)
                                \o <<Insn("Load", <<Temp(fe, 1), Temp(fe, 2)>>)>>)
                ELSE Gen(fe, 3, <<Base, Data>> \o ApplyTbi(Temp(fe, 2), base)
                                \o <<Insn("Store", <<Temp(fe, 2), Temp(fe, 1)>>)>>))
      Loaded1 == IF g.op = "Ldr"
                 THEN Gen(Done, 0, <<GenPut("Put", XOffset(g.d), Temp(fe, 1))>>) ELSE Done
      wb == Temp(Loaded1, 0)
  IN IF g.imm = 0 THEN Loaded1
     ELSE Gen(Loaded1, 1, AddImm(wb, base, g.imm) \o <<GenPut("Put", XOffset(g.n), wb)>>)

(* The condition EQ or NE, and a branch on it. *)
EmitCondBranch(fe, cond, then, els) ==
  LET f == Temp(fe, 0)
      r == Temp(fe, 1)
  IN Gen(fe, 2,
         << GenGet("GetW", f, FlagsOffset), AlulImm("and", f, k0xFFFF),
            Insn("Movl", <<r, f>>), AlulImm("shr", r, kFlagZeroBit), AlulImm("and", r, 1) >>
         \o (IF cond = "Ne" THEN <<AlulImm("xor", r, 1)>> ELSE << >>)
         \o <<TestRegReg(r), PseudoCondBranch("NotZero", then, els, GetFlagsRegister)>>)

ConditionalSelect(fe, g) ==
  LET src1 == Temp(fe, 0)
      src2 == Temp(fe, 1)
      false_val == Temp(fe, 2)
      result == Temp(fe, 3)
      then == NumBB(fe.ir) + 1
      merge == NumBB(fe.ir) + 2
      cur == Gen(fe, 4, <<GenGet("Get", src1, XOffset(g.n)), GenGet("Get", src2, XOffset(g.m)),
                          PseudoCopy(false_val, src2, 8), PseudoCopy(result, false_val, 8)>>)
      taken == StartBasicBlock(EmitCondBranch(Fork(cur), "Eq", then, merge), then)
      over == Gen(taken, 1, <<PseudoCopy(Temp(taken, 0), src1, 8),
                              PseudoCopy(result, Temp(taken, 0), 8), PseudoBranch(merge)>>)
  IN Gen(StartBasicBlock([over EXCEPT !.ir = AddEdge(@, then, merge)], merge), 0,
         <<GenPut("Put", XOffset(g.d), result)>>)

(* The jump of a conditional branch; translation goes on where it is not taken. *)
BranchBlocks(fe, then, target) ==
    StartBasicBlock(GenJump(StartBasicBlock(fe, then), target), then + 1)

BranchCond(fe, g) ==
    LET then == NumBB(fe.ir) + 1
    IN BranchBlocks(EmitCondBranch(Fork(fe), "Ne", then, then + 1), then, g.to)

CompareAndBranch(fe, g) ==
    LET then == NumBB(fe.ir) + 1
        src == Temp(fe, 0)
    IN BranchBlocks(
         Gen(Fork(fe), 1, <<GenGet("Get", src, XOffset(g.n)), TestRegReg(src),
                            PseudoCondBranch("Zero", then, then + 1, GetFlagsRegister)>>),
         then, g.to)

Branch(fe, g) == GenJump([fe EXCEPT !.uncond = TRUE], g.to)

BranchRegister(fe, g) ==
    Gen([fe EXCEPT !.uncond = TRUE], 1,
        <<GenGet("Get", Temp(fe, 0), XOffset(g.n)), Insn("IndirectJump", <<Temp(fe, 0)>>)>>)

Undefined(fe) ==
    ExitGeneratedCode([fe EXCEPT !.success = FALSE, !.uncond = TRUE], fe.pc)

Decode(fe, g) ==
    CASE g.op \in {"Ldr", "Str"} -> LowerAccess(fe, g)
      [] g.op = "Csel" -> ConditionalSelect(fe, g)
      [] g.op = "BCond" -> BranchCond(fe, g)
      [] g.op = "Cbz" -> CompareAndBranch(fe, g)
      [] g.op = "B" -> Branch(fe, g)
      [] g.op = "Br" -> BranchRegister(fe, g)
      [] g.op = "Undefined" -> Undefined(fe)
      [] g.op = "Nop" -> fe
      [] g.op = "MovImm" -> MoveWide(fe, g)
      [] g.op \in {"AddImm", "AddWImm", "SubsImm"} -> AddSubImm(fe, g)
      [] g.op = "Add" -> AddSubShiftedReg(fe, g)
      [] g.op = "Lslv" -> DataProc2Src(fe, g)
      [] g.op = "VAdd" -> AdvSimdThreeSame(fe, g)
      [] g.op = "FmovDD" -> FpDataProc1(fe, g)
      [] g.op \in {"FmovDX", "FmovXD"} -> FpIntConversion(fe, g)
      [] g.op = "OrrD" -> SimdModifiedImm(fe, g)

(***************************************************************************)
(* Region formation.                                                       *)
(***************************************************************************)
StartInsn(fe) ==
    LET fresh == IF fe.uncond
                 THEN StartBasicBlock([fe EXCEPT !.ir = NewBasicBlock(@)], NumBB(fe.ir) + 1)
                 ELSE fe
        pos == [bb |-> fresh.bb, at |-> fresh.bb, idx |-> Len(Insns(fresh.ir, fresh.bb))]
    IN [fresh EXCEPT !.uncond = FALSE, !.targets = (fe.pc :> pos) @@ @]

(* One turn of the loop of HeavyOptimizeRegion. *)
TranslateInsn(fe, g) ==
    LET after == Decode(StartInsn(fe), g)
    IN IF after.success THEN [after EXCEPT !.pc = @ + 1] ELSE after

IsRegionEndReached(fe) == fe.uncond /\ fe.pc \notin DOMAIN fe.targets

(***************************************************************************)
(* Jump resolution.                                                        *)
(***************************************************************************)
ReplaceJumpWithBranch(fe, b, target_bb) ==
  LET insns == Insns(fe.ir, b)
      jump == Last(insns)
      exit_bb == NumBB(fe.ir) + 1
      WithExit == NewBasicBlock(fe.ir)
  IN IF jump.fn = "nocheck"
     THEN [fe EXCEPT !.ir = AddEdge(SetInsns(@, b, Front(insns) \o <<PseudoBranch(target_bb)>>),
                                    b, target_bb)]
     ELSE LET ir == SetInsns(WithExit, b,
                       Front(insns) \o
                       << Insn("CmpPending", <<GetFlagsRegister>>),
                          PseudoCondBranch("Equal", exit_bb, target_bb, GetFlagsRegister) >>)
              left == ExitGeneratedCode(StartBasicBlock([fe EXCEPT !.ir = ir], exit_bb),
                                        jump.target)
          IN [left EXCEPT !.ir = AddEdge(AddEdge(@, b, exit_bb), b, target_bb)]

(* The instructions from idx on move to a new block, and the edges and the *)
(* list iterators with them.                                               *)
SplitBasicBlock(fe, b, idx) ==
  LET ir == NewBasicBlock(fe.ir)
      new == NumBB(ir)
      insns == Insns(ir, b)
      Relinked(edges) == Listed([i \in DOMAIN edges |-> IF edges[i] = b THEN new ELSE edges[i]])
      moved == [ir EXCEPT
        !.bb = Listed([x \in DOMAIN @ |->
                  CASE x = new -> [@[x] EXCEPT !.insns = SubSeq(insns, idx, Len(insns)),
                                               !.out = ir.bb[b].out]
                    [] x = b -> [@[x] EXCEPT !.insns = SubSeq(insns, 1, idx - 1)
                                                       \o <<PseudoBranch(new)>>,
                                             !.out = << >>, !.in = Relinked(@)]
                    [] OTHER -> [@[x] EXCEPT !.in = Relinked(@)]])]
      Moved(p) == IF p.at = b /\ p.idx >= idx
                  THEN [p EXCEPT !.at = new, !.idx = @ - idx + 1] ELSE p
  IN [fe EXCEPT !.ir = [AddEdge(moved, b, new) EXCEPT !.list = Append(@, new)],
                !.targets = [a \in DOMAIN @ |-> Moved(@[a])]]

(* Mutant: the targets behind the split stay with the old block. *)
UpdateSplitTargetOnly(fe, addr, old_bb, new_bb) == [fe EXCEPT !.targets[addr].bb = new_bb]

(* The targets from addr upward, as far as they are thought to be in old_bb. *)
UpdateBranchTargetsAfterSplit(fe, addr, old_bb, new_bb) ==
    LET InOld(a) == \A x \in DOMAIN fe.targets : x \in addr..a => fe.targets[x].bb = old_bb
    IN [fe EXCEPT !.targets =
          [a \in DOMAIN @ |-> IF a >= addr /\ InOld(a) THEN [@[a] EXCEPT !.bb = new_bb] ELSE @[a]]]

RECURSIVE ResolveJumps(_, _)
ResolveJumps(fe, bb_list) ==
  IF bb_list = << >> THEN fe ELSE
  LET b == Head(bb_list)
      jump == Last(Insns(fe.ir, b))
      pos == fe.targets[jump.target]
      new == NumBB(fe.ir) + 1
      split == UpdateBranchTargetsAfterSplit(SplitBasicBlock(fe, pos.bb, pos.idx),
                                             jump.target, pos.bb, new)
  IN CASE \/ fe.ir.bb[b].rec
          \/ jump.op # "Jump"
          \/ jump.fn = "exit"
          \/ pos.bb = 0 -> ResolveJumps(fe, Tail(bb_list))
       [] pos.at = pos.bb /\ pos.idx = 1 ->
            ResolveJumps(ReplaceJumpWithBranch(fe, b, pos.bb), Tail(bb_list))
       [] pos.at = pos.bb /\ pos.idx # 1 ->
            ResolveJumps(ReplaceJumpWithBranch(split, IF b = pos.bb THEN new ELSE b, new),
                         Append(Tail(bb_list), new))
       \* The iterator is in another block's list: splitting here is undefined.
       [] OTHER -> [fe EXCEPT !.stray = TRUE]

Finalize(fe) ==
  LET insns == Insns(fe.ir, fe.bb)
      ended == IF insns = << >> \/ ~IsControlTransfer(Last(insns)) THEN GenJump(fe, fe.pc) ELSE fe
      advanced == [ended EXCEPT !.targets =
                     [a \in DOMAIN @ |-> IF @[a].bb = 0 THEN @[a] ELSE [@[a] EXCEPT !.idx = @ + 1]]]
  IN ResolveJumps(advanced, advanced.ir.list)
=============================================================================
