---------------------------- MODULE InsnFolding ----------------------------
(***************************************************************************)
(* Folding: an instruction whose operands are known (an immediate, a value *)
(* still in the guest context, a value already zero-extended) becomes a    *)
(* cheaper one.  Each block is folded by itself, from its first            *)
(* instruction on.                                                         *)
(***************************************************************************)
EXTENDS MachineIROpt, MachineSemantics

(***************************************************************************)
(* DefMap: where each virtual register was last defined, as the place of   *)
(* the instruction in the code folded so far and the operand of it.        *)
(***************************************************************************)
kNoDef == [at |-> 0, op |-> 0]

GetDef(defs, r, use_index) ==
    IF r \in DOMAIN defs /\ defs[r].at < use_index THEN defs[r] ELSE kNoDef

(* The definition behind any number of copies.  A copy whose source was    *)
(* redefined since says nothing.                                           *)
RECURSIVE FindNonPseudoCopyDefBefore(_, _, _)
FindNonPseudoCopyDefBefore(st, r, use_index) ==
  LET def == GetDef(st.defs, r, use_index)
  IN IF def = kNoDef \/ ~IsCopy(st.code[def.at]) THEN def
     ELSE FindNonPseudoCopyDefBefore(st, st.code[def.at].regs[2], def.at)

FindNonPseudoCopyDef(st, r) == FindNonPseudoCopyDefBefore(st, r, Len(st.code) + 1)

MapDefRegs(st, insn) ==
  LET at == Len(st.code) + 1
      Defines(r) == {i \in Operands(insn) : Kind(insn, i).def /\ insn.regs[i] = r}
  IN [st EXCEPT !.code = Append(@, insn),
                !.last_context_write = IF IsCPUStatePut(insn) THEN at ELSE @,
                !.defs = [r \in VRegsOf(Defs(insn)) |->
                            [at |-> at, op |-> CHOOSE i \in Defines(r) : TRUE]] @@ @]

IsContextReadActive(st, read) == st.last_context_write < read

(***************************************************************************)
(* ContextAccessInfo: how often the values read from each offset are used  *)
(* in the block, copies not counted.  `offset' says from which offset the  *)
(* value of a register comes.                                              *)
(***************************************************************************)
Offset(info, r) == IF r \in DOMAIN info.offset THEN info.offset[r] ELSE -1

HandleRegisterUse(info, insn, r) ==
    IF Offset(info, r) # -1 /\ ~IsCopy(insn)
    THEN [info EXCEPT !.uses = Append(@, Offset(info, r))] ELSE info

HandleRegisterDef(info, insn, r) ==
    LET from == CASE IsCPUStateGet(insn) -> insn.disp
                  [] IsCopy(insn) -> Offset(info, insn.regs[2])
                  [] OTHER -> -1
    IN [info EXCEPT !.offset = (r :> from) @@ @]

RECURSIVE ContextAccessInfo(_, _, _, _)
ContextAccessInfo(insns, i, op, info) ==
  IF i > Len(insns) THEN info
  ELSE IF op > Len(insns[i].regs) THEN ContextAccessInfo(insns, i + 1, 1, info)
  ELSE LET insn == insns[i]
           r == insn.regs[op]
           used == IF IsVReg(r) /\ Kind(insn, op).use THEN HandleRegisterUse(info, insn, r) ELSE info
           def == IF IsVReg(r) /\ Kind(insn, op).def THEN HandleRegisterDef(used, insn, r) ELSE used
       IN ContextAccessInfo(insns, i, op + 1, def)

ContextReadUsageCount(info, disp) == Cardinality({k \in DOMAIN info.uses : info.uses[k] = disp})

(***************************************************************************)
(* The folds.  Each yields the instructions that take an instruction's     *)
(* place, or kImpossible.  The immediates of the model fit in 32 bits, and *)
(* a test uses one register twice, which rules out its context reads.      *)
(***************************************************************************)
kImpossible == << >>

ImmDef(st, r) == FindNonPseudoCopyDef(st, r)
HasImm(st, r) == ImmDef(st, r) # kNoDef /\ st.code[ImmDef(st, r).at].op = "MovImm"
ImmOf(st, r) == st.code[ImmDef(st, r).at].imm

NewImmInsnFromRegInsn(insn, imm) ==
    CASE insn.op = "Alu" -> [Insn("AluImm", <<insn.regs[1], insn.regs[3]>>)
                               EXCEPT !.fn = insn.fn, !.imm = imm]
      [] insn.op = "ShlCl" -> [Insn("AluImm", <<insn.regs[1], insn.regs[3]>>)
                                 EXCEPT !.fn = "shl", !.imm = imm]
      [] insn.op = "Test" -> [Insn("TestImm", <<insn.regs[1], insn.regs[3]>>) EXCEPT !.imm = imm]
      [] insn.op = "Movl" -> MovImm(insn.regs[1], imm)
      [] insn.op = "Put" -> GenPutImm(insn.disp, imm)
      [] insn.op = "Store" -> [Insn("StoreImm", <<insn.regs[1]>>)
                                 EXCEPT !.imm = imm, !.rec = insn.rec]

(* The instruction stays for its flags; the result is loaded after it. *)
InsertResult(insn, fn, imm1, imm2) == <<insn, MovImm(insn.regs[1], Arith(fn, imm1, imm2))>>

TryFoldImmediateInput(st, insn) ==
  LET src == IF insn.op = "Put" THEN insn.regs[1] ELSE insn.regs[2]
      fn == IF insn.op = "ShlCl" THEN "shl" ELSE insn.fn
  IN CASE ~HasImm(st, src) -> kImpossible
       [] insn.op \in {"Alu", "ShlCl"} /\ HasImm(st, insn.regs[1]) ->
            InsertResult(insn, fn, ImmOf(st, insn.regs[1]), ImmOf(st, src))
       [] OTHER -> <<NewImmInsnFromRegInsn(insn, ImmOf(st, src))>>

TryFoldTwoImmediates(st, insn) ==
    IF HasImm(st, insn.regs[1])
    THEN InsertResult(insn, insn.fn, ImmOf(st, insn.regs[1]), insn.imm) ELSE kImpossible

(* A value that a 32-bit instruction defined is zero-extended already. *)
TryFoldRedundantMovl(st, insn) ==
  LET def == FindNonPseudoCopyDef(st, insn.regs[2])
  IN IF def # kNoDef /\ RegSize(Kind(st.code[def.at], def.op).cls) = 4
     THEN <<PseudoCopy(insn.regs[1], insn.regs[2], 8)>> ELSE kImpossible

(* The second operand is read from the context where it still is, if it    *)
(* has no other use.                                                       *)
TryFoldContextRead(st, insn) ==
  LET def == FindNonPseudoCopyDef(st, insn.regs[2])
      get == st.code[def.at]
  IN IF /\ def # kNoDef
        /\ IsCPUStateGet(get)
        /\ IsContextReadActive(st, def.at)
        /\ ContextReadUsageCount(st.info, get.disp) <= 1
     THEN <<[Insn("AluMem", <<insn.regs[1], insn.regs[3]>>)
               EXCEPT !.fn = insn.fn, !.disp = get.disp]>>
     ELSE kImpossible

FirstPossible(fold1, fold2) == IF fold1 # kImpossible THEN fold1 ELSE fold2

TryFoldInsn(st, insn) ==
    CASE insn.op \in {"Put", "Store", "ShlCl", "Test"} -> TryFoldImmediateInput(st, insn)
      [] insn.op = "Alu" -> FirstPossible(TryFoldImmediateInput(st, insn),
                                          TryFoldContextRead(st, insn))
      [] insn.op = "Movl" -> FirstPossible(TryFoldImmediateInput(st, insn),
                                           TryFoldRedundantMovl(st, insn))
      [] insn.op \in {"AluImm", "AlulImm"} -> TryFoldTwoImmediates(st, insn)
      [] OTHER -> kImpossible

RECURSIVE FoldInsnsFrom(_, _)
FoldInsnsFrom(st, insns) ==
  IF insns = << >> THEN st.code ELSE
  LET fold == TryFoldInsn(st, Head(insns))
      new == IF fold = kImpossible THEN <<Head(insns)>> ELSE fold
  IN FoldInsnsFrom(MapDefRegs(st, new[1]), Tail(new) \o Tail(insns))

FoldInsns(ir) ==
  LET InBlock(b) ==
        FoldInsnsFrom([code |-> << >>, defs |-> << >>, last_context_write |-> 0,
                       info |-> ContextAccessInfo(Insns(ir, b), 1, 1,
                                                  [offset |-> << >>, uses |-> << >>])],
                      Insns(ir, b))
  IN MapInsns(ir, InBlock)

(* MapDefRegs relies on the flags being one virtual register in a block. *)
FlagsAreOneRegister(ir) == \A b \in ToSet(ir.list) :
    Cardinality(UNION {{insn.regs[i] : i \in {j \in Operands(insn) : Kind(insn, j).cls = "flags"}}
                       : insn \in ToSet(Insns(ir, b))}) <= 1
=============================================================================
