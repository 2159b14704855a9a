---------------------------- MODULE MachineIROpt ----------------------------
(***************************************************************************)
(* The passes over machine IR that reshape the control flow graph, rename  *)
(* virtual registers and remove code, and the check of the graph that      *)
(* GenCode runs before and after them.                                     *)
(***************************************************************************)
EXTENDS MachineIRAnalysis

(* The first occurrence of an edge's end replaced. *)
ReplaceEnd(edges, old, new) ==
    [edges EXCEPT ![CHOOSE i \in DOMAIN edges :
                      edges[i] = old /\ \A j \in 1..(i - 1) : edges[j] # old] = new]

ChangeBranchTarget(ir, b, old_dst, new_dst) ==
  LET last == LastInsn(ir, b)
      changed == IF last.then = old_dst THEN [last EXCEPT !.then = new_dst]
                 ELSE IF last.els = old_dst THEN [last EXCEPT !.els = new_dst] ELSE last
  IN SetInsns(ir, b, Append(Front(Insns(ir, b)), changed))

(***************************************************************************)
(* Control flow.                                                           *)
(***************************************************************************)
(* Mutant: the branch still goes to the old target. *)
InsertNodeKeepBranch(ir, pred, succ, in_edge_index) ==
  LET with == NewBasicBlock(ir)
      new == NumBB(with)
  IN [with EXCEPT !.list = Append(@, new),
                  !.bb[succ].in[in_edge_index] = new,
                  !.bb[pred].out = ReplaceEnd(@, succ, new),
                  !.bb[new].in = <<pred>>,
                  !.bb[new].out = <<succ>>,
                  !.bb[new].insns = <<PseudoBranch(succ)>>]

InsertNodeOnEdge(ir, pred, succ, in_edge_index) ==
  LET with == NewBasicBlock(ir)
      new == NumBB(with)
      linked == [with EXCEPT !.list = Append(@, new),
                             !.bb[succ].in[in_edge_index] = new,
                             !.bb[pred].out = ReplaceEnd(@, succ, new),
                             !.bb[new].in = <<pred>>,
                             !.bb[new].out = <<succ>>,
                             !.bb[new].insns = <<PseudoBranch(succ)>>]
  IN ChangeBranchTarget(linked, pred, succ, new)

IsCritical(ir, pred, succ) == Len(ir.bb[succ].in) >= 2 /\ Len(ir.bb[pred].out) >= 2

(* Mutant: only the first in-edge of a block is looked at. *)
RemoveCriticalFirstEdge(ir, b, i) ==
    IF ir.bb[b].in # << >> /\ IsCritical(ir, ir.bb[b].in[i], b)
    THEN InsertNodeOnEdge(ir, ir.bb[b].in[i], b, i) ELSE ir

RECURSIVE RemoveCriticalInEdges(_, _, _)
RemoveCriticalInEdges(ir, b, i) ==
  IF i > Len(ir.bb[b].in) THEN ir
  ELSE RemoveCriticalInEdges(IF IsCritical(ir, ir.bb[b].in[i], b)
                             THEN InsertNodeOnEdge(ir, ir.bb[b].in[i], b, i) ELSE ir,
                             b, i + 1)

RECURSIVE RemoveCriticalEdgesFrom(_, _)
RemoveCriticalEdgesFrom(ir, k) ==
  IF k > Len(ir.list) THEN ir
  ELSE RemoveCriticalEdgesFrom(RemoveCriticalInEdges(ir, ir.list[k], 1), k + 1)

RemoveCriticalEdges(ir) == RemoveCriticalEdgesFrom(ir, 1)

(* Each normal block is swapped to the front of the recovery blocks. *)
RECURSIVE PartitionNormal(_, _, _, _)
PartitionNormal(ir, list, normal, i) ==
  IF i > Len(list) THEN list
  ELSE IF ir.bb[list[i]].rec THEN PartitionNormal(ir, list, normal, i + 1)
  ELSE PartitionNormal(ir, [list EXCEPT ![normal] = list[i], ![i] = list[normal]],
                       normal + 1, i + 1)

MoveColdBlocksToEnd(ir) == [ir EXCEPT !.list = PartitionNormal(ir, @, 1, 1)]

IsForwarderBlock(ir, b) ==
    /\ Len(Insns(ir, b)) = 1
    /\ ir.bb[b].in # << >>
    /\ ir.bb[b].out # <<b>>
    /\ LastInsn(ir, b).op = "Branch"

RECURSIVE RedirectInEdges(_, _, _, _)
RedirectInEdges(ir, b, dst, i) ==
  IF i > Len(ir.bb[b].in) THEN ir ELSE
  LET src == ir.bb[b].in[i]
      linked == [ir EXCEPT !.bb[src].out = ReplaceEnd(@, b, dst),
                           !.bb[dst].in = Append(@, src)]
  IN RedirectInEdges(ChangeBranchTarget(linked, src, b, dst), b, dst, i + 1)

UnlinkForwarderBlock(ir, b) ==
  LET dst == ir.bb[b].out[1]
      redirected == RedirectInEdges(ir, b, dst, 1)
  IN [redirected EXCEPT !.bb[dst].in = SelectSeq(@, LAMBDA p : p # b)]

RECURSIVE RemoveForwarderBlocksFrom(_, _)
RemoveForwarderBlocksFrom(ir, k) ==
  IF k > Len(ir.list) THEN ir
  ELSE IF IsForwarderBlock(ir, ir.list[k])
  THEN RemoveForwarderBlocksFrom([UnlinkForwarderBlock(ir, ir.list[k]) EXCEPT
                                    !.list = RemoveAt(@, k)], k)
  ELSE RemoveForwarderBlocksFrom(ir, k + 1)

RemoveForwarderBlocks(ir) == RemoveForwarderBlocksFrom(ir, 1)

(***************************************************************************)
(* Virtual registers get a name of their own in each block, and copies     *)
(* carry their values along the edges.                                     *)
(***************************************************************************)
RenamedVReg(ir, r, b) == IF IsVReg(r) THEN r + b * ir.nvreg ELSE r

(* The widest class that an operand gives a register. *)
GetMaxSize(ir, r) ==
  LET sizes == UNION {{RegSize(Kind(insn, i).cls) : i \in {j \in Operands(insn) : insn.regs[j] = r}}
                      : insn \in UNION {ToSet(Insns(ir, b)) : b \in ToSet(ir.list)}}
  IN IF 16 \in sizes THEN 16 ELSE 8

GenInterBasicBlockMove(ir, original, move) ==
  LET pred == move.pred
      succ == move.succ
      vreg == move.vreg
      pred_vreg == RenamedVReg(original, vreg, pred)
      succ_vreg == RenamedVReg(original, vreg, succ)
      copy == PseudoCopy(succ_vreg, pred_vreg, GetMaxSize(original, vreg))
      carried == IF Len(ir.bb[succ].in) = 1 THEN pred_vreg ELSE succ_vreg
      moved == IF Len(ir.bb[succ].in) = 1
               THEN SetInsns(ir, succ, <<copy>> \o Insns(ir, succ))
               ELSE SetInsns(ir, pred, Front(Insns(ir, pred)) \o <<copy, LastInsn(ir, pred)>>)
  IN [moved EXCEPT !.bb[succ].livein = Append(@, carried),
                   !.bb[pred].liveout = Append(@, carried)]

RenameVRegs(ir) ==
  LET live == LivenessAnalyzer(ir)
      Renamed(b) == LET insns == Insns(ir, b)
                    IN Listed([i \in DOMAIN insns |-> [insns[i] EXCEPT !.regs =
                          Listed([j \in DOMAIN @ |-> RenamedVReg(ir, @[j], b)])]])
      renamed == [MapInsns(ir, Renamed) EXCEPT !.nvreg = @ * (NumBB(ir) + 1)]
      OnEdge(p, s) == LET regs == Ascending(live[s])
                      IN Listed([i \in DOMAIN regs |-> [pred |-> p, succ |-> s, vreg |-> regs[i]]])
      OutOf(p) == FlattenSeq([i \in DOMAIN ir.bb[p].out |-> OnEdge(p, ir.bb[p].out[i])])
      Gen(now, move) == GenInterBasicBlockMove(now, ir, move)
  IN ForEach(FlattenSeq([k \in DOMAIN ir.list |-> OutOf(ir.list[k])]), Gen, renamed)

(***************************************************************************)
(* Uses of a copy become uses of its source, or of its target where that   *)
(* has to survive the block.  `map' has, for a register, the register its  *)
(* uses are renamed to (0 for none), when that was decided, and when the   *)
(* register was last defined; the instructions of a block are the clock.   *)
(***************************************************************************)
RenameData(map, r) ==
    IF r \in DOMAIN map THEN map[r] ELSE [renamed |-> 0, time |-> 0, def |-> 0]

RenamedUse(map, r) ==
    LET data == RenameData(map, r)
    IN IF data.renamed = 0 \/ RenameData(map, data.renamed).def > data.time
       THEN r ELSE data.renamed

ProcessDef(map, r, time) ==
    IF IsVReg(r) THEN (r :> [renamed |-> 0, time |-> 0, def |-> time]) @@ map ELSE map

ProcessCopy(map, copy, live_out, time) ==
  LET dst == copy.regs[1]
      src == copy.regs[2]
  IN CASE ~IsVReg(dst) \/ ~IsVReg(src) -> map
       [] dst \in live_out ->
            (src :> [RenameData(map, src) EXCEPT !.renamed = dst, !.time = time]) @@ map
       [] OTHER -> (dst :> [renamed |-> src, time |-> time, def |-> time]) @@ map

(* The operands of an instruction, from the i-th on. *)
RECURSIVE RenameOperands(_, _, _, _)
RenameOperands(insn, i, map, time) ==
  IF i > Len(insn.regs) THEN [insn |-> insn, map |-> map]
  ELSE IF Kind(insn, i).def
  THEN RenameOperands(insn, i + 1, ProcessDef(map, insn.regs[i], time), time)
  ELSE IF Len(RegClass[Kind(insn, i).cls]) = 1 \/ ~IsVReg(insn.regs[i])
  THEN RenameOperands(insn, i + 1, map, time)
  ELSE RenameOperands([insn EXCEPT !.regs[i] = RenamedUse(map, @)], i + 1, map, time)

RECURSIVE RenameCopyUsesFrom(_, _, _, _)
RenameCopyUsesFrom(insns, time, map, live_out) ==
  IF time > Len(insns) THEN insns ELSE
  LET done == RenameOperands(insns[time], 1, map, time)
  IN RenameCopyUsesFrom([insns EXCEPT ![time] = done.insn], time + 1,
                        IF IsCopy(done.insn)
                        THEN ProcessCopy(done.map, done.insn, live_out, time) ELSE done.map,
                        live_out)

RenameCopyUses(ir) ==
  LET InBlock(b) == RenameCopyUsesFrom(Insns(ir, b), 1, << >>, ToSet(ir.bb[b].liveout))
  IN MapInsns(ir, InBlock)

(***************************************************************************)
(* Code that has no effect.                                                *)
(***************************************************************************)
RECURSIVE RemoveDeadBefore(_, _, _, _)
RemoveDeadBefore(insns, i, used, kept) ==
  IF i = 0 THEN kept ELSE
  LET insn == insns[i]
      results == used \ Defs(insn)
      live == HasSideEffects(insn) \/ \E r \in Defs(insn) : ~IsVReg(r) \/ r \in used
  IN IF live THEN RemoveDeadBefore(insns, i - 1, results \cup VRegsOf(Inputs(insn)), <<insn>> \o kept)
             ELSE RemoveDeadBefore(insns, i - 1, results, kept)

RemoveDeadCode(ir) ==
  LET InBlock(b) == RemoveDeadBefore(Insns(ir, b), Len(Insns(ir, b)),
                                     ToSet(ir.bb[b].liveout), << >>)
  IN MapInsns(ir, InBlock)

(* Puts that later puts overwrite before the context is read. *)
RECURSIVE RemovePutsBefore(_, _, _, _, _)
RemovePutsBefore(insns, i, live_out, seen_get, kept) ==
  IF i = 0 THEN kept ELSE
  LET insn == insns[i]
      dead == IsCPUStatePut(insn) /\ insn.disp \notin seen_get \cup live_out
  IN RemovePutsBefore(insns, i - 1, live_out,
                      IF IsCPUStateGet(insn) THEN seen_get \cup {insn.disp} ELSE seen_get,
                      IF dead THEN kept ELSE <<insn>> \o kept)

RemoveRedundantPut(ir) ==
  LET live == ContextLivenessAnalyzer(ir)
      InBlock(b) == IF ir.bb[b].out = << >> THEN Insns(ir, b)
                    ELSE RemovePutsBefore(Insns(ir, b), Len(Insns(ir, b)),
                                          UNION {live[s] : s \in Succs(ir, b)}, {}, << >>)
  IN MapInsns(ir, InBlock)

RemoveNopPseudoCopy(ir) ==
  LET InBlock(b) == SelectSeq(Insns(ir, b), LAMBDA x : ~(IsCopy(x) /\ x.regs[1] = x.regs[2]))
  IN MapInsns(ir, InBlock)

(***************************************************************************)
(* CheckMachineIR.                                                         *)
(***************************************************************************)
NumEdges(ends, b) == Cardinality({i \in DOMAIN ends : ends[i] = b})

CheckNoDanglingEdgesOrBasicBlocks(ir, b) ==
    /\ ir.bb[b].in = << >> /\ ir.bb[b].out = << >> => Len(ir.list) = 1
    /\ \A d \in Succs(ir, b) :
          d \in ToSet(ir.list) /\ NumEdges(ir.bb[d].in, b) = NumEdges(ir.bb[b].out, d)
    /\ \A s \in Preds(ir, b) :
          s \in ToSet(ir.list) /\ NumEdges(ir.bb[s].out, b) = NumEdges(ir.bb[b].in, s)

CheckControlTransferInsn(ir, b) ==
  LET insns == Insns(ir, b)
  IN /\ {i \in DOMAIN insns : IsControlTransfer(insns[i])} = {Len(insns)}
     /\ Last(insns).op \in {"Branch", "CondBranch"} => Last(insns).then \in Succs(ir, b)
     /\ Last(insns).op = "CondBranch" => Last(insns).els \in Succs(ir, b)

CheckMachineIR(ir) == \A b \in ToSet(ir.list) :
    CheckNoDanglingEdgesOrBasicBlocks(ir, b) /\ CheckControlTransferInsn(ir, b)
=============================================================================
