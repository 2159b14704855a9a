----------------------- MODULE GuestContextOptimizer -----------------------
(***************************************************************************)
(* The two passes that keep guest registers in virtual registers instead   *)
(* of the guest context in memory: inside a basic block, and across a      *)
(* whole loop.                                                             *)
(***************************************************************************)
EXTENDS MachineIRAnalysis

CONSTANTS GeneralRegLimit, \* general_reg_limit of both passes' parameters
          SimdRegLimit     \* simd_reg_limit

ASSUME LimitAssumption == GeneralRegLimit \in Nat /\ SimdRegLimit \in Nat

IsSimdOffset(disp) == disp >= 32

IsContextAccess(insn) == IsCPUStateGet(insn) \/ IsCPUStatePut(insn)

(* The bytes of the context an access touches, and by which registers. *)
GetContextAccess(insn) ==
    CASE insn.op \in {"GetW", "PutW"} -> [size |-> 2, simd |-> FALSE]
      [] insn.op \in {"Get", "Put", "PutImm"} -> [size |-> 8, simd |-> FALSE]
      [] insn.op = "GetX8" -> [size |-> 8, simd |-> TRUE]
      [] insn.op \in {"GetX16", "PutX16"} -> [size |-> 16, simd |-> TRUE]

CopySize(insn) == IF insn.op \in {"GetX16", "PutX16"} THEN 16 ELSE 8

(***************************************************************************)
(* The offsets worth a register: the most accessed ones, as many of each   *)
(* kind as the limits allow.  Equal counts stay in the order of offsets.   *)
(***************************************************************************)
OptimizedOffsets(insns, excluded) ==
  LET accesses == SelectSeq(insns, IsContextAccess)
      Count(d) == Cardinality({i \in DOMAIN accesses : accesses[i].disp = d})
      offsets == {accesses[i].disp : i \in DOMAIN accesses} \ excluded
      Before(d, e) == Count(d) > Count(e) \/ (Count(d) = Count(e) /\ d < e)
      Rank(d) == Cardinality({e \in offsets : IsSimdOffset(e) = IsSimdOffset(d) /\ Before(e, d)})
  IN {d \in offsets : Rank(d) < IF IsSimdOffset(d) THEN SimdRegLimit ELSE GeneralRegLimit}

(***************************************************************************)
(* Inside a block.  `map' has the value known to be in the context at an   *)
(* offset: a register or an immediate, the store that put it there (its    *)
(* place in the code so far, 0 for a load), and how it was accessed.       *)
(***************************************************************************)
Erased == Insn("Erased", << >>)

Usage(value, is_imm, store, insn) ==
    [value |-> value, imm |-> is_imm, store |-> store, access |-> GetContextAccess(insn)]

(* No offset is held by a register that the instruction redefines. *)
Invalidate(map, insn) ==
    LET kept == {d \in DOMAIN map : map[d].imm \/ map[d].value \notin Defs(insn)}
    IN [d \in kept |-> map[d]]

(* Mutant: a narrow access supplies a wider get. *)
ReplaceGetOfAnyWidth(st, insn) ==
  LET disp == insn.disp
      usage == st.map[disp]
      dst == insn.regs[1]
  IN IF disp \notin DOMAIN st.map \/ usage.access.simd # GetContextAccess(insn).simd
     THEN [code |-> Append(st.code, insn),
           map |-> (disp :> Usage(dst, FALSE, 0, insn)) @@ st.map]
     ELSE [st EXCEPT !.code = Append(@, IF usage.imm THEN MovImm(dst, usage.value)
                                        ELSE PseudoCopy(dst, usage.value, CopySize(insn)))]

ReplaceGetAndUpdateMap(st, insn) ==
  LET disp == insn.disp
      known == disp \in DOMAIN st.map
      usage == st.map[disp]
      access == GetContextAccess(insn)
      dst == insn.regs[1]
  IN CASE \/ ~known
          \/ usage.access.size < access.size
          \/ usage.access.simd # access.simd ->
             [code |-> Append(st.code, insn),
              map |-> (disp :> Usage(dst, FALSE, 0, insn)) @@ st.map]
       [] OTHER ->
             [st EXCEPT !.code = Append(@, IF usage.imm THEN MovImm(dst, usage.value)
                                           ELSE PseudoCopy(dst, usage.value, CopySize(insn)))]

ReplacePutAndUpdateMap(st, insn) ==
  LET disp == insn.disp
      covered == /\ disp \in DOMAIN st.map
                 /\ st.map[disp].store # 0
                 /\ st.map[disp].access.size <= GetContextAccess(insn).size
      code == IF covered THEN [st.code EXCEPT ![st.map[disp].store] = Erased] ELSE st.code
      is_imm == insn.op = "PutImm"
      value == IF is_imm THEN insn.imm ELSE insn.regs[1]
  IN [code |-> Append(code, insn),
      map |-> (disp :> Usage(value, is_imm, Len(code) + 1, insn)) @@ st.map]

RECURSIVE LocalAccesses(_, _, _, _)
LocalAccesses(insns, i, optimized, st) ==
  IF i > Len(insns) THEN SelectSeq(st.code, LAMBDA x : x # Erased) ELSE
  LET insn == insns[i]
      inv == [st EXCEPT !.map = Invalidate(@, insn)]
      now == CASE IsCPUStateGet(insn) /\ insn.disp \in optimized ->
                    ReplaceGetAndUpdateMap(inv, insn)
               [] IsCPUStatePut(insn) /\ insn.disp \in optimized ->
                    ReplacePutAndUpdateMap(inv, insn)
               [] OTHER -> [inv EXCEPT !.code = Append(@, insn)]
  IN LocalAccesses(insns, i + 1, optimized, now)

RemoveLocalGuestContextAccesses(ir) ==
  LET InBlock(b) == LocalAccesses(Insns(ir, b), 1, OptimizedOffsets(Insns(ir, b), {}),
                                  [code |-> << >>, map |-> << >>])
  IN MapInsns(ir, InBlock)

(***************************************************************************)
(* Across a loop.                                                          *)
(***************************************************************************)
LoopAccesses(ir, loop) ==
    {insn \in UNION {ToSet(Insns(ir, b)) : b \in loop.body} : IsContextAccess(insn)}

FindMixedWidthOffsets(ir, loop) ==
    LET accesses == LoopAccesses(ir, loop)
        Widths(d) == {GetContextAccess(a).size : a \in {x \in accesses : x.disp = d}}
    IN {d \in {a.disp : a \in accesses} : Cardinality(Widths(d)) > 1}

(* The instructions that load and store a register at an access's width. *)
GetOp(insn) == CASE insn.op \in {"GetW", "PutW"} -> "GetW"
                 [] insn.op = "GetX8" -> "GetX8"
                 [] insn.op \in {"GetX16", "PutX16"} -> "GetX16"
                 [] OTHER -> "Get"
PutOp(insn) == CASE insn.op \in {"GetW", "PutW"} -> "PutW"
                 [] insn.op \in {"GetX16", "PutX16"} -> "PutX16"
                 [] OTHER -> "Put"

OptimizeLoop(ir, loop) ==
  LET blocks == SelectSeq(ir.list, LAMBDA b : b \in loop.body)
      optimized == OptimizedOffsets(FlattenSeq([i \in DOMAIN blocks |-> Insns(ir, blocks[i])]),
                                    FindMixedWidthOffsets(ir, loop))
      accesses == {a \in LoopAccesses(ir, loop) : a.disp \in optimized}
      offsets == Ascending(optimized)
      Access(d) == CHOOSE a \in accesses : a.disp = d
      Reg(d) == VRegFromIndex(ir.nvreg + Cardinality({e \in optimized : e < d}))
      Modified(d) == \E a \in accesses : a.disp = d /\ IsCPUStatePut(a)
      Replaced(insn) ==
        CASE ~IsContextAccess(insn) \/ insn.disp \notin optimized -> insn
          [] IsCPUStateGet(insn) -> PseudoCopy(insn.regs[1], Reg(insn.disp), CopySize(insn))
          [] insn.op = "PutImm" -> MovImm(Reg(insn.disp), insn.imm)
          [] OTHER -> PseudoCopy(Reg(insn.disp), insn.regs[1], CopySize(insn))
      gets == Listed([i \in DOMAIN offsets |->
                 GenGet(GetOp(Access(offsets[i])), Reg(offsets[i]), offsets[i])])
      modified == SelectSeq(offsets, Modified)
      puts == Listed([i \in DOMAIN modified |->
                 GenPut(PutOp(Access(modified[i])), modified[i], Reg(modified[i]))])
      preloop == Preds(ir, loop.head) \ loop.body
      postloop == UNION {Succs(ir, b) : b \in loop.body} \ loop.body
      Insns1(b) ==
        LET insns == Insns(ir, b)
        IN IF b \in loop.body THEN Listed([i \in DOMAIN insns |-> Replaced(insns[i])])
           ELSE LET start == IF b \in postloop THEN puts ELSE << >>
                    end == IF b \in preloop THEN gets ELSE << >>
                IN start \o Front(insns) \o end \o <<Last(insns)>>
  IN [MapInsns(ir, Insns1) EXCEPT !.nvreg = @ + Len(offsets)]

(* What the pass relies on: the loop is entered and left by edges of its   *)
(* own.                                                                    *)
LoopHasOwnEdges(ir, loop) ==
    /\ Len(ir.bb[loop.head].in) >= 2
    /\ \A b \in Preds(ir, loop.head) \ loop.body : Len(ir.bb[b].out) = 1
    /\ \A b \in UNION {Succs(ir, x) : x \in loop.body} \ loop.body : Len(ir.bb[b].in) = 1

RECURSIVE OptimizeLoops(_, _)
OptimizeLoops(ir, loops) ==
    IF loops = << >> THEN ir ELSE OptimizeLoops(OptimizeLoop(ir, Head(loops)), Tail(loops))

RemoveLoopGuestContextAccesses(ir) == OptimizeLoops(ir, OutermostLoops(ir))
=============================================================================
