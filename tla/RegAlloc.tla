------------------------------ MODULE RegAlloc ------------------------------
(***************************************************************************)
(* Register allocation: the lifetimes of virtual registers are collected   *)
(* in the order in which they begin, and each gets a hard register in that *)
(* order.  Where none is free, lifetimes are spilled: the register then    *)
(* lives in a stack slot, and each of its later uses becomes a lifetime of *)
(* its own.                                                                *)
(***************************************************************************)
EXTENDS MachineIR

(***************************************************************************)
(* A use is operand `op' of the `at'-th instruction of block `bb', in the  *)
(* ticks b..e-1.  A lifetime has live ranges with their uses, the class    *)
(* that fits all uses, and what the allocation decides.                    *)
(***************************************************************************)
kNoSpill == -1
LiveRange(b, e, uses) == [b |-> b, e |-> e, uses |-> uses]
NewLifetime(begin) ==
    [ranges |-> <<LiveRange(begin, begin, << >>)>>, cls |-> "", weight |-> 0,
     hard |-> 0, spill |-> kNoSpill]
TinyLifetime(use, spill) ==
    [ranges |-> <<LiveRange(use.b, use.e, <<use>>)>>, cls |-> use.kind.cls, weight |-> 1,
     hard |-> 0, spill |-> spill]

Begin(lt) == Head(lt.ranges).b
End(lt) == Last(lt.ranges).e
SetEnd(lt, end) == [lt EXCEPT !.ranges[Len(lt.ranges)].e = end]

AppendUse(lt, use) ==
  LET n == Len(lt.ranges)
      last == lt.ranges[n]
      hole == ~use.kind.use /\ last.e < use.b
      fresh == LiveRange(use.b, use.b, << >>)
      started == CASE ~hole -> lt.ranges
                   \* A live-in register that is overwritten was not live in.
                   [] last.uses = << >> -> [lt.ranges EXCEPT ![n] = fresh]
                   [] OTHER -> Append(lt.ranges, fresh)
      end == IF Last(started).e < use.e THEN use.e ELSE Last(started).e
  IN [lt EXCEPT !.ranges = Append(Front(started),
                             LiveRange(Last(started).b, end, Append(Last(started).uses, use))),
                !.cls = IF @ = "" THEN use.kind.cls ELSE GetIntersection(@, use.kind.cls),
                !.weight = @ + 1]

(***************************************************************************)
(* Lifetime analysis.  `of' has the lifetime of a virtual register, `hint' *)
(* the lifetime whose register one would share (0 for none); an            *)
(* instruction takes two ticks, one to read and one to write.              *)
(***************************************************************************)
GetVRegLifetime(an, r, begin) ==
    IF r \notin DOMAIN an.of
    THEN [an EXCEPT !.lt = Append(@, NewLifetime(begin)), !.hint = Append(@, 0),
                    !.of = (r :> Len(an.lt) + 1) @@ @]
    ELSE IF Last(an.lt[an.of[r]].ranges).b < an.bb_tick
    THEN [an EXCEPT !.lt[an.of[r]].ranges = Append(@, LiveRange(begin, begin, << >>))]
    ELSE an

RECURSIVE FindMoveHint(_, _)
FindMoveHint(hint, id) == IF hint[id] = 0 THEN id ELSE FindMoveHint(hint, hint[id])

TrySetMoveHint(an, insn) ==
  IF ~IsCopy(insn) \/ \E i \in 1..2 : ~IsVReg(insn.regs[i]) THEN an ELSE
  LET hint == FindMoveHint(an.hint, an.of[insn.regs[1]])
      other == FindMoveHint(an.hint, an.of[insn.regs[2]])
  IN CASE Begin(an.lt[hint]) > Begin(an.lt[other]) -> [an EXCEPT !.hint[hint] = other]
       [] other # hint -> [an EXCEPT !.hint[other] = hint]
       [] OTHER -> an

(* The operands in `ops', one after the other. *)
RECURSIVE AddUses(_, _, _, _, _)
AddUses(an, insn, b, at, ops) ==
  IF ops = << >> THEN an ELSE
  LET op == Head(ops)
      kind == Kind(insn, op)
      begin == IF kind.use THEN an.tick ELSE an.tick + 1
      end == IF kind.def THEN an.tick + 2 ELSE an.tick + 1
      use == [bb |-> b, at |-> at, op |-> op, b |-> begin, e |-> end, kind |-> kind]
      known == GetVRegLifetime(an, insn.regs[op], begin)
  IN AddUses([known EXCEPT !.lt[known.of[insn.regs[op]]] = AppendUse(@, use)],
             insn, b, at, Tail(ops))

AddInsn(an, insn, b, at) ==
  LET vregs == SelectSeq([i \in Operands(insn) |-> i], LAMBDA i : IsVReg(insn.regs[i]))
      uses == SelectSeq(vregs, LAMBDA i : Kind(insn, i).use)
      defs == SelectSeq(vregs, LAMBDA i : ~Kind(insn, i).use)
  IN [TrySetMoveHint(AddUses(an, insn, b, at, uses \o defs), insn) EXCEPT !.tick = @ + 2]

AddInsns(an, ir, b) ==
  LET Add(now, at) == AddInsn(now, Insns(ir, b)[at], b, at)
  IN ForEach(Listed([i \in DOMAIN Insns(ir, b) |-> i]), Add, an)

SetLiveIn(an, r) == GetVRegLifetime(an, r, an.tick)
SetLiveOut(an, r) == [an EXCEPT !.lt[an.of[r]] = SetEnd(@, an.tick)]

CollectLifetimes(ir) ==
  LET InBlock(an, b) ==
        LET in == ForEach(ir.bb[b].livein, SetLiveIn, an)
            out == ForEach(ir.bb[b].liveout, SetLiveOut, AddInsns(in, ir, b))
        IN [out EXCEPT !.bb_tick = out.tick]
  IN ForEach(ir.list, InBlock, [lt |-> << >>, of |-> << >>, hint |-> << >>,
                                tick |-> 0, bb_tick |-> 0])

(***************************************************************************)
(* Allocation.  `order' is the list of lifetimes, `alloc' the lifetimes    *)
(* that each hard register holds; `ok' says that a register was found for  *)
(* every lifetime so far.                                                  *)
(***************************************************************************)
kInfiniteSpillWeight == 99999

TestInterference(lt1, lt2) ==
    \E i \in DOMAIN lt1.ranges, j \in DOMAIN lt2.ranges :
        lt1.ranges[i].b < lt2.ranges[j].e /\ lt2.ranges[j].b < lt1.ranges[i].e

(* Lifetimes that ended are dropped up to the first that interferes. *)
TryAssign(st, id, r) ==
  LET held == st.alloc[r]
      new == st.lt[id]
      Expired(i) == End(st.lt[held[i]]) <= Begin(new)
      clashes == {i \in DOMAIN held : ~Expired(i) /\ TestInterference(st.lt[held[i]], new)}
      upto == IF clashes = {} THEN Len(held) ELSE (CHOOSE i \in clashes : \A j \in clashes : i <= j) - 1
      kept == [k \in 1..upto |-> IF Expired(k) THEN 0 ELSE held[k]]
      left == SelectSeq(kept, LAMBDA x : x # 0) \o SubSeq(held, upto + 1, Len(held))
  IN [ok |-> clashes = {},
      st |-> IF clashes = {}
             THEN [st EXCEPT !.alloc[r] = Append(left, id), !.lt[id].hard = r]
             ELSE [st EXCEPT !.alloc[r] = left]]

(* The first use, as <<range, use>>, that ends after `begin'. *)
UsesAfter(lt, begin) ==
    {p \in UNION {{i} \X DOMAIN lt.ranges[i].uses : i \in DOMAIN lt.ranges} :
        lt.ranges[p[1]].e > begin /\ lt.ranges[p[1]].uses[p[2]].e > begin}
FindSplitPos(lt, begin) ==
    LET after == UsesAfter(lt, begin)
    IN IF after = {} THEN << >>
       ELSE CHOOSE p \in after : \A q \in after : p[1] < q[1] \/ (p[1] = q[1] /\ p[2] <= q[2])

SplitKind(lt, begin) ==
    LET pos == FindSplitPos(lt, begin)
        use == lt.ranges[pos[1]].uses[pos[2]]
    IN CASE pos = << >> -> "ok"
         [] use.b < begin -> "impossible"
         [] use.b = begin -> "conflict"
         [] OTHER -> "ok"

(* The lifetimes to spill if `id' is to have register r, and their weight. *)
ConsiderSpill(st, id, r) ==
  LET new == st.lt[id]
      spills == SelectSeq(st.alloc[r], LAMBDA x : TestInterference(st.lt[x], new))
      Refused(x) == \/ SplitKind(st.lt[x], Begin(new)) = "impossible"
                    \/ SplitKind(st.lt[x], Begin(new)) = "conflict"
                       /\ IsSubsetOf(st.lt[x].cls, new.cls)
      Weight(x) == IF st.lt[x].spill = kNoSpill THEN st.lt[x].weight ELSE 0
  IN [reg |-> r, spills |-> spills,
      weight |-> IF \E x \in ToSet(spills) : Refused(x) THEN kInfiniteSpillWeight
                 ELSE FoldSeq(LAMBDA x, w : w + Weight(x), 0, spills)]

(* The uses from the split position on leave the lifetime. *)
SplitOff(lt, pos) ==
  IF pos = << >> THEN << >>
  ELSE SubSeq(lt.ranges[pos[1]].uses, pos[2], Len(lt.ranges[pos[1]].uses))
       \o FlattenSeq([k \in 1..(Len(lt.ranges) - pos[1]) |-> lt.ranges[pos[1] + k].uses])
Remaining(lt, pos) ==
  CASE pos = << >> -> lt.ranges
    [] pos[2] = 1 -> SubSeq(lt.ranges, 1, pos[1] - 1)
    [] OTHER -> SubSeq(lt.ranges, 1, pos[1] - 1)
                \o <<[lt.ranges[pos[1]] EXCEPT !.uses = SubSeq(@, 1, pos[2] - 1)]>>

(* Merges the lifetimes `ids' into the list, searching from position pos. *)
RECURSIVE MergeVRegLifetimeList(_, _, _, _)
MergeVRegLifetimeList(lt, order, pos, ids) ==
  IF ids = << >> THEN order
  ELSE IF pos <= Len(order) /\ ~(Begin(lt[Head(ids)]) < Begin(lt[order[pos]]))
  THEN MergeVRegLifetimeList(lt, order, pos + 1, ids)
  ELSE MergeVRegLifetimeList(lt, InsertAt(order, pos, Head(ids)), pos + 1, Tail(ids))

(* One lifetime spilled; `next' is the one that follows in the list, 0 at  *)
(* its end.                                                                *)
Spill(st, x, begin, slot, r, next) ==
  LET lt == [st.lt[x] EXCEPT !.spill = IF @ = kNoSpill THEN slot ELSE @]
      pos == FindSplitPos(lt, begin)
      off == SplitOff(lt, pos)
      tiny == Listed([k \in DOMAIN off |-> TinyLifetime(off[k], lt.spill)])
      ids == Listed([k \in DOMAIN off |-> Len(st.lt) + k])
      all == [st.lt EXCEPT ![x] = [lt EXCEPT !.ranges = Remaining(lt, pos)]] \o tiny
      from == IF next = 0 THEN Len(st.order) + 1
              ELSE CHOOSE i \in DOMAIN st.order : st.order[i] = next
  IN [st EXCEPT !.lt = all,
                !.hint = @ \o [k \in DOMAIN off |-> 0],
                !.order = MergeVRegLifetimeList(all, @, from, ids),
                !.alloc[r] = SelectSeq(@, LAMBDA y : y # x)]

RECURSIVE SpillAll(_, _, _, _, _, _)
SpillAll(st, xs, begin, slot, r, next) ==
    IF xs = << >> THEN st
    ELSE SpillAll(Spill(st, Head(xs), begin, slot, r, next), Tail(xs), begin, slot, r, next)

(* The first of the registers in `regs' that is free. *)
RECURSIVE TryRegs(_, _, _)
TryRegs(st, id, regs) ==
    IF regs = << >> THEN [ok |-> FALSE, st |-> st]
    ELSE LET try == TryAssign(st, id, Head(regs))
         IN IF try.ok THEN try ELSE TryRegs(try.st, id, Tail(regs))

RECURSIVE BestSpill(_, _)
BestSpill(spills, best) ==
    IF spills = << >> THEN best
    ELSE BestSpill(Tail(spills), IF best.weight > Head(spills).weight THEN Head(spills) ELSE best)

AllocateLifetime(st, k) ==
  LET id == st.order[k]
      class == RegClass[st.lt[id].cls]
      pref == st.lt[FindMoveHint(st.hint, id)].hard
      regs == SelectSeq(<<pref>>, LAMBDA r : r \in ToSet(class))
              \o SelectSeq(class, LAMBDA r : r # pref)
      free == TryRegs(st, id, regs)
      now == free.st
      spills == [i \in DOMAIN class |-> ConsiderSpill(now, id, class[i])]
      best == BestSpill(spills, [weight |-> kInfiniteSpillWeight])
      next == IF k < Len(now.order) THEN now.order[k + 1] ELSE 0
      spilled == SpillAll([now EXCEPT !.nspill = @ + 1], best.spills, Begin(now.lt[id]),
                          now.nspill, best.reg, next)
  IN CASE free.ok -> now
       [] ~free.ok /\ best.weight = kInfiniteSpillWeight -> [now EXCEPT !.ok = FALSE]
       [] OTHER -> [spilled EXCEPT !.alloc[best.reg] = Append(@, id), !.lt[id].hard = best.reg]

Allocate(st) ==
  LET Done(s) == s.next > Len(s.order) \/ ~s.ok
      Step(s) == [AllocateLifetime(s, s.next) EXCEPT !.next = @ + 1]
  IN Iterate(Done, Step, kMaxStepsLog, st)

(***************************************************************************)
(* Rewriting.  A cell is an instruction with what is inserted around it.   *)
(***************************************************************************)
(* Mutant: a copy uses the slot whatever its other end is. *)
RewriteToSlot(cell, use, reg, spill) ==
  LET set == [cell EXCEPT !.insn.regs[use.op] = reg]
      size == RegSize(use.kind.cls)
      slot == SpilledRegFromIndex(spill)
      read == CASE ~use.kind.use -> set
                [] IsCopy(cell.insn) -> [set EXCEPT !.insn.regs[2] = slot]
                [] OTHER -> [set EXCEPT !.before = Append(@, PseudoCopy(reg, slot, size))]
      written == CASE ~use.kind.def -> read
                   [] IsCopy(cell.insn) -> [read EXCEPT !.insn.regs[1] = slot]
                   [] OTHER -> [read EXCEPT !.after = <<PseudoCopy(slot, reg, size)>> \o @]
  IN IF spill = kNoSpill THEN set ELSE written

RewriteVReg(cell, use, reg, spill) ==
  LET set == [cell EXCEPT !.insn.regs[use.op] = reg]
      size == RegSize(use.kind.cls)
      slot == SpilledRegFromIndex(spill)
      \* A copy reads or writes the slot itself, unless its other end does.
      direct(other) == IsCopy(cell.insn) /\ ~IsSpilledReg(cell.insn.regs[other])
      read == CASE ~use.kind.use -> set
                [] direct(1) -> [set EXCEPT !.insn.regs[2] = slot]
                [] OTHER -> [set EXCEPT !.before = Append(@, PseudoCopy(reg, slot, size))]
      written == CASE ~use.kind.def -> read
                   [] direct(2) -> [read EXCEPT !.insn.regs[1] = slot]
                   [] OTHER -> [read EXCEPT !.after = <<PseudoCopy(slot, reg, size)>> \o @]
  IN IF spill = kNoSpill THEN set ELSE written

RECURSIVE RewriteUses(_, _)
RewriteUses(cell, uses) ==
    IF uses = << >> THEN cell.before \o <<cell.insn>> \o cell.after
    ELSE LET u == Head(uses)
         IN RewriteUses(RewriteVReg(cell, u.use, u.hard, u.spill), Tail(uses))

(* The uses of an instruction are rewritten in the order of the lifetimes. *)
RewriteAllocatedLifetimes(ir, st) ==
  LET UsesOf(lt) == LET uses == FlattenSeq([i \in DOMAIN lt.ranges |-> lt.ranges[i].uses])
                    IN Listed([i \in DOMAIN uses |-> [use |-> uses[i], hard |-> lt.hard, spill |-> lt.spill]])
      all == FlattenSeq([k \in DOMAIN st.order |-> UsesOf(st.lt[st.order[k]])])
      Rewritten(b) ==
        LET here == SelectSeq(all, LAMBDA u : u.use.bb = b)
            Cell(i) == [before |-> << >>, insn |-> Insns(ir, b)[i], after |-> << >>]
        IN FlattenSeq([i \in DOMAIN Insns(ir, b) |->
                         RewriteUses(Cell(i), SelectSeq(here, LAMBDA u : u.use.at = i))])
  IN [MapInsns(ir, Rewritten) EXCEPT !.nspill = st.nspill]

Allocation(ir) ==
  LET an == CollectLifetimes(ir)
  IN Allocate([lt |-> an.lt, hint |-> an.hint, order |-> Listed([i \in DOMAIN an.lt |-> i]),
                   alloc |-> [r \in UNION {ToSet(RegClass[c]) : c \in DOMAIN RegClass} |-> << >>],
                   nspill |-> 0, next |-> 1, ok |-> TRUE])

AllocRegs(ir) == RewriteAllocatedLifetimes(ir, Allocation(ir))
=============================================================================
