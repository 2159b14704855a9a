------------------------- MODULE MachineIRAnalysis -------------------------
(***************************************************************************)
(* The analyses that the passes over machine IR ask: which virtual         *)
(* registers and which parts of the guest context are live, the blocks in  *)
(* reverse post order, and the loops.                                      *)
(***************************************************************************)
EXTENDS MachineIR

Succs(ir, b) == ToSet(ir.bb[b].out)
Preds(ir, b) == ToSet(ir.bb[b].in)
LastInsn(ir, b) == Last(Insns(ir, b))

(***************************************************************************)
(* Backward data flow.  The blocks whose successors changed are visited    *)
(* again, the block pushed last first; Visit(b, live) is the set that is   *)
(* live at the start of b when `live' is what is known of the others.      *)
(***************************************************************************)
BackwardDataFlow(ir, Visit(_, _)) ==
  LET Done(st) == st.worklist = << >>
      VisitNext(st) ==
        LET b == Last(st.worklist)
            rest == Front(st.worklist)
            now == Visit(b, st.live)
            again == SelectSeq(ir.bb[b].in, LAMBDA p : p \notin ToSet(rest))
        IN IF now = st.live[b] THEN [st EXCEPT !.worklist = rest]
           ELSE [worklist |-> rest \o again, live |-> [st.live EXCEPT ![b] = now]]
  IN Iterate(Done, VisitNext, kMaxStepsLog,
             [worklist |-> Reverse(ir.list), live |-> [b \in 1..NumBB(ir) |-> {}]]).live

VRegsOf(regs) == {r \in regs : IsVReg(r)}

RECURSIVE LiveBefore(_, _, _)
LiveBefore(insns, i, live) ==  \* live before the first i instructions
  IF i = 0 THEN live
  ELSE LiveBefore(insns, i - 1, (live \ Defs(insns[i])) \cup VRegsOf(Inputs(insns[i])))

(* LivenessAnalyzer: the virtual registers live at the start of each block. *)
LivenessAnalyzer(ir) ==
  LET Visit(b, live) == LiveBefore(Insns(ir, b), Len(Insns(ir, b)),
                                   UNION {live[s] : s \in Succs(ir, b)})
  IN BackwardDataFlow(ir, Visit)

RECURSIVE ContextLiveBefore(_, _, _)
ContextLiveBefore(insns, i, live) ==
  IF i = 0 THEN live
  ELSE LET insn == insns[i]
       IN ContextLiveBefore(insns, i - 1,
            CASE IsCPUStatePut(insn) -> live \ {insn.disp}
              [] IsCPUStateGet(insn) -> live \cup {insn.disp}
              [] OTHER -> live)

(* ContextLivenessAnalyzer: the offsets that may be read before they are   *)
(* written.  Outside the region everything may be read.  Only the offsets  *)
(* that the code accesses matter.                                          *)
ContextOffsets(ir) ==
    {insn.disp : insn \in {i \in UNION {ToSet(Insns(ir, b)) : b \in ToSet(ir.list)} :
                             IsCPUStateGet(i) \/ IsCPUStatePut(i)}}

ContextLivenessAnalyzer(ir) ==
  LET Visit(b, live) ==
        ContextLiveBefore(Insns(ir, b), Len(Insns(ir, b)),
          IF ir.bb[b].out = << >> THEN ContextOffsets(ir)
          ELSE UNION {live[s] : s \in Succs(ir, b)})
  IN BackwardDataFlow(ir, Visit)

(***************************************************************************)
(* Orders and loops.                                                       *)
(***************************************************************************)
(* A depth-first traversal; acc.order is the reverse of the post order. *)
RECURSIVE Traverse(_, _, _), TraverseAll(_, _, _)
Traverse(ir, b, acc) ==
    LET below == TraverseAll(ir, ir.bb[b].out, [acc EXCEPT !.visited = @ \cup {b}])
    IN [below EXCEPT !.order = <<b>> \o @]
TraverseAll(ir, bs, acc) ==
    IF bs = << >> THEN acc
    ELSE TraverseAll(ir, Tail(bs),
                     IF Head(bs) \in acc.visited THEN acc ELSE Traverse(ir, Head(bs), acc))

GetReversePostOrderBBList(ir) ==
    Traverse(ir, ir.list[1], [visited |-> {}, order |-> << >>]).order

(* The edges to a block that is not after their source. *)
BackEdges(ir) ==
    LET rpo == GetReversePostOrderBBList(ir)
    IN {<<rpo[i], rpo[j]>> : <<i, j>> \in {p \in (1..Len(rpo)) \X (1..Len(rpo)) :
                                p[2] <= p[1] /\ rpo[p[2]] \in Succs(ir, rpo[p[1]])}}

(* The blocks from which a back-branching block is reached without passing *)
(* the head.  The loop is dropped if they include the region's entry.      *)
RECURSIVE WalkBack(_, _)
WalkBack(ir, loop) ==
    LET more == UNION {Preds(ir, b) : b \in loop.body}
    IN IF more \subseteq loop.body \cup {loop.head} THEN loop
       ELSE WalkBack(ir, [loop EXCEPT !.body = @ \cup (more \ {loop.head})])

CollectLoop(ir, head, sources) ==
    LET loop == WalkBack(ir, [head |-> head, body |-> sources \ {head}])
    IN [loop EXCEPT !.body = @ \cup {head}]

IsReducible(ir, loop) == \A b \in loop.body \ {loop.head} : ir.bb[b].in # << >>

FindLoops(ir) ==
    LET edges == BackEdges(ir)
        heads == {e[2] : e \in edges}
        loops == {CollectLoop(ir, h, {e[1] : e \in {x \in edges : x[2] = h}}) : h \in heads}
    IN {l \in loops : IsReducible(ir, l)}

(* The outermost loops of the loop tree: the loops are inserted from the   *)
(* largest to the smallest, each below a loop that has its head.           *)
RECURSIVE InsertLoops(_, _)
InsertLoops(tops, loops) ==
    IF loops = << >> THEN tops
    ELSE InsertLoops(IF \E i \in DOMAIN tops : Head(loops).head \in tops[i].body
                     THEN tops ELSE Append(tops, Head(loops)), Tail(loops))

OutermostLoops(ir) ==
    InsertLoops(<< >>, SetToSortSeq(FindLoops(ir), LAMBDA l, k :
        \/ Cardinality(l.body) > Cardinality(k.body)
        \/ Cardinality(l.body) = Cardinality(k.body) /\ l.head < k.head))
=============================================================================
