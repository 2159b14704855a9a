----------------------------- MODULE MachineIR -----------------------------
(***************************************************************************)
(* The machine intermediate representation that the heavy optimizer's      *)
(* passes rewrite.  What a piece of it does is in MachineSemantics.        *)
(*                                                                         *)
(* An IR is a list of basic blocks, each a list of instructions, with in-  *)
(* and out-edges.  An instruction has register operands; what an operand   *)
(* is for (use, def, both) and which registers it may live in is a matter  *)
(* of its opcode.  The x86 opcodes are grouped by what the passes tell     *)
(* apart: all two-operand arithmetic is "Alu", told apart by `fn'.         *)
(***************************************************************************)
EXTENDS Integers, Sequences, FiniteSets, TLC, SequencesExt

CONSTANTS NumGeneral, \* how many general registers the allocator may use
          NumSimd,    \* how many XMM registers it may use
          MaxEvents   \* bound on the branches and accesses of an execution

ASSUME RegisterFileAssumption ==
    /\ NumGeneral \in 2..8
    /\ NumSimd \in 1..8
    /\ MaxEvents \in Nat

(***************************************************************************)
(* Registers.                                                              *)
(***************************************************************************)
kFirstVRegNumber == 1024
kLastSpilledRegNumber == -1024
IsVReg(r) == r >= kFirstVRegNumber
IsSpilledReg(r) == r <= kLastSpilledRegNumber
VRegFromIndex(i) == kFirstVRegNumber + i
SpilledRegFromIndex(i) == kLastSpilledRegNumber - i

kRAX == 1
kRCX == 2
kFLAGS == 20
Xmm(i) == 10 + i

(***************************************************************************)
(* A class is its registers in the order of preference.  The 32- and       *)
(* 64-bit general classes hold the same registers.  kReg64, the class of a *)
(* copy of at most 8 bytes, has the general and the XMM registers.         *)
(***************************************************************************)
General == [i \in 1..NumGeneral |-> i]
Simd == [i \in 1..NumSimd |-> Xmm(i)]
RegClass == [ gen   |-> General, gen32 |-> General, xmm |-> Simd,
              reg   |-> General \o Simd,
              rax   |-> <<kRAX>>, rcx |-> <<kRCX>>, flags |-> <<kFLAGS>> ]

IsSubsetOf(c, d) == ToSet(RegClass[c]) \subseteq ToSet(RegClass[d])

(* The narrower of two classes; the code knows no other intersection. *)
GetIntersection(c, d) == IF IsSubsetOf(c, d) THEN c
                         ELSE IF IsSubsetOf(d, c) THEN d ELSE "none"

(***************************************************************************)
(* Opcodes: the access and the class of each register operand.  The base   *)
(* register of the guest context, RBP, is never renamed or allocated and   *)
(* is left out.                                                            *)
(***************************************************************************)
Use(c) == [input |-> TRUE, use |-> TRUE, def |-> FALSE, cls |-> c]
Def(c) == [input |-> FALSE, use |-> FALSE, def |-> TRUE, cls |-> c]
UseDef(c) == [input |-> TRUE, use |-> TRUE, def |-> TRUE, cls |-> c]

RegKinds ==
  [ Get      |-> <<Def("gen")>>,        \* MOVQ reg, [context]
    GetW     |-> <<Def("gen")>>,        \* MOVW reg, [context]
    GetX8    |-> <<Def("xmm")>>,        \* MOVSD xmm, [context]
    GetX16   |-> <<Def("xmm")>>,        \* MOVDQA xmm, [context]
    Put      |-> <<Use("gen")>>,        \* MOVQ [context], reg
    PutW     |-> <<Use("gen")>>,        \* MOVW [context], reg
    PutX16   |-> <<Use("xmm")>>,        \* MOVDQA [context], xmm
    PutImm   |-> << >>,                 \* MOVQ [context], imm
    MovImm   |-> <<Def("gen")>>,
    Movl     |-> <<Def("gen32"), Use("gen32")>>,
    Copy     |-> <<Def("reg"), Use("reg")>>,        \* PseudoCopy, 8 bytes
    CopyX    |-> <<Def("xmm"), Use("xmm")>>,        \* PseudoCopy, 16 bytes
    DefRegX  |-> <<Def("xmm")>>,                    \* PseudoDefReg
    Alu      |-> <<UseDef("gen"), Use("gen"), Def("flags")>>,
    AluImm   |-> <<UseDef("gen"), Def("flags")>>,
    AluMem   |-> <<UseDef("gen"), Def("flags")>>,   \* folded context read
    AlulImm  |-> <<UseDef("gen32"), Def("flags")>>, \* 32-bit forms
    ShlCl    |-> <<UseDef("gen"), Use("rcx"), Def("flags")>>,
    Test     |-> <<Use("gen"), Use("gen"), Def("flags")>>,
    TestImm  |-> <<Use("gen"), Def("flags")>>,
    CmpPending |-> <<Def("flags")>>,    \* CMPB [pending_signals_status], imm
    ReadFlags  |-> <<Def("rax"), Use("flags")>>,    \* PseudoReadFlags
    Vop      |-> <<UseDef("xmm"), Use("xmm")>>,     \* packed arithmetic
    MovsdXX  |-> <<UseDef("xmm"), Use("xmm")>>,     \* merges the low half
    MovqXR   |-> <<Def("xmm"), Use("gen")>>,        \* zeroes the high half
    MovqRX   |-> <<Def("gen"), Use("xmm")>>,
    Load     |-> <<Def("gen"), Use("gen")>>,        \* guest memory
    Store    |-> <<Use("gen"), Use("gen")>>,
    StoreImm |-> <<Use("gen")>>,
    Branch   |-> << >>,
    CondBranch   |-> <<Use("flags")>>,
    Jump         |-> << >>,
    IndirectJump |-> <<Use("gen")>> ]

(* The bytes an instruction's class of a destination register has. *)
RegSize(c) == CASE c = "gen32" -> 4 [] c = "xmm" -> 16 [] OTHER -> 8

(***************************************************************************)
(* An instruction.  `fn' tells the operations of an opcode apart, `disp'   *)
(* is a context offset, `rec' the recovery block (0 for none), `then' and  *)
(* `els' the blocks of a branch, `target' the guest address of a jump.     *)
(***************************************************************************)
Insn(op, regs) == [op |-> op, regs |-> regs, fn |-> "", imm |-> 0, disp |-> 0,
                   rec |-> 0, then |-> 0, els |-> 0, target |-> 0]

GenGet(op, r, disp) == [Insn(op, <<r>>) EXCEPT !.disp = disp]
GenPut(op, disp, r) == [Insn(op, <<r>>) EXCEPT !.disp = disp]
GenPutImm(disp, imm) == [Insn("PutImm", << >>) EXCEPT !.disp = disp, !.imm = imm]
MovImm(r, imm) == [Insn("MovImm", <<r>>) EXCEPT !.imm = imm]
PseudoCopy(d, s, size) == Insn(IF size = 16 THEN "CopyX" ELSE "Copy", <<d, s>>)
PseudoBranch(bb) == [Insn("Branch", << >>) EXCEPT !.then = bb]
PseudoCondBranch(cond, then, els, flags) ==
    [Insn("CondBranch", <<flags>>) EXCEPT !.fn = cond, !.then = then, !.els = els]
PseudoJump(target, kind) ==
    [Insn("Jump", << >>) EXCEPT !.fn = kind, !.target = target]

Kind(insn, i) == RegKinds[insn.op][i]
Operands(insn) == 1..Len(insn.regs)
Inputs(insn) == {insn.regs[i] : i \in {j \in Operands(insn) : Kind(insn, j).input}}
Defs(insn) == {insn.regs[i] : i \in {j \in Operands(insn) : Kind(insn, j).def}}

IsCopy(insn) == insn.op \in {"Copy", "CopyX"}
IsControlTransfer(insn) ==
    insn.op \in {"Branch", "CondBranch", "IndirectJump", "Jump"}
HasSideEffects(insn) ==
    \/ IsControlTransfer(insn)
    \/ insn.op \in {"Put", "PutW", "PutX16", "PutImm", "Store", "StoreImm"}
    \/ insn.rec # 0
    \/ insn.regs = << >>

IsCPUStateGet(insn) == insn.op \in {"Get", "GetW", "GetX8", "GetX16"}
IsCPUStatePut(insn) == insn.op \in {"Put", "PutW", "PutX16", "PutImm"}

(***************************************************************************)
(* Basic blocks and the IR.                                                *)
(***************************************************************************)
NewBlock == [insns |-> << >>, in |-> << >>, out |-> << >>, rec |-> FALSE,
             livein |-> << >>, liveout |-> << >>]

EmptyIR == [list |-> << >>, bb |-> << >>, nvreg |-> 0, nspill |-> 0]

Insns(ir, b) == ir.bb[b].insns
NumBB(ir) == Len(ir.bb)

(* NewBasicBlock: the new block's id is NumBB of the result. *)
NewBasicBlock(ir) == [ir EXCEPT !.bb = Append(@, NewBlock)]
AddEdge(ir, src, dst) == [ir EXCEPT !.bb[src].out = Append(@, dst),
                                    !.bb[dst].in = Append(@, src)]
SetInsns(ir, b, insns) == [ir EXCEPT !.bb[b].insns = insns]
AppendInsns(ir, b, insns) == [ir EXCEPT !.bb[b].insns = @ \o insns]

(* The list of a function's values: f itself, evaluated element by element. *)
Listed(f) == f \o << >>

(* The numbers in S from the smallest to the largest. *)
RECURSIVE Ascending(_)
Ascending(S) == IF S = {} THEN << >> ELSE <<Min(S)>> \o Ascending(S \ {Min(S)})

(* The IR with the instructions of each of its blocks rewritten. *)
MapInsns(ir, Rewrite(_)) ==
    [ir EXCEPT !.bb = Listed([b \in DOMAIN @ |->
        IF b \in ToSet(ir.list) THEN [@[b] EXCEPT !.insns = Rewrite(b)] ELSE @[b]])]

(* The state after steps from st until Done, at most 2^n of them.  (As the *)
(* element of a set, the state half way is evaluated before it is used.)   *)
RECURSIVE Iterate(_, _, _, _)
Iterate(Done(_), Step(_), n, st) ==
    IF Done(st) THEN st
    ELSE IF n = 0 THEN Step(st)
    ELSE CHOOSE end \in {Iterate(Done, Step, n - 1, half) :
                            half \in {Iterate(Done, Step, n - 1, st)}} : TRUE

kMaxStepsLog == 9

(* What Step makes of st with each element of seq, from the first on. *)
ForEach(seq, Step(_, _), st) ==
    LET Done(s) == s.at > Len(seq)
        Next1(s) == [at |-> s.at + 1, st |-> Step(s.st, seq[s.at])]
    IN Iterate(Done, Next1, kMaxStepsLog, [at |-> 1, st |-> st]).st
=============================================================================
