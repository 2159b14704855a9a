-------------------------- MODULE MachineSemantics --------------------------
(***************************************************************************)
(* What machine code does.  `Behaviours(ir)' is the set of outcomes of     *)
(* running an IR from its first block: the sequence of what an execution   *)
(* decides or does outside (branches taken, memory accesses and whether    *)
(* they fault), how it leaves the region, and the guest context it leaves  *)
(* behind.  The host instructions are not part of the repository; they are *)
(* modelled from how its code uses them.                                   *)
(***************************************************************************)
EXTENDS MachineIR

(***************************************************************************)
(* The guest context: two general registers, the condition flags and two   *)
(* vector registers, in 8-byte slots (a vector register has two).          *)
(***************************************************************************)
XOffset(r) == 8 * r
FlagsOffset == 16
VOffset(r) == 32 + 16 * r
Slots == {0, 8, 16, 32, 40, 48, 56}

InitialContext == [d \in Slots |-> <<"init", d>>]

(***************************************************************************)
(* Terms.  `Junk' is what a register holds where nothing defined it; an    *)
(* outcome that shows it is one the program never has.                     *)
(***************************************************************************)
Junk == <<"junk">>
Zero == <<"zero">>
Imm(n) == <<"imm", n>>
Zext32(t) == IF t[1] \in {"zext32", "imm"} THEN t ELSE <<"zext32", t>>

(* A 16-bit load leaves the rest of its register as it was. *)
Dirty16(t) == <<"dirty16", t>>
Low16(t) == CASE t[1] = "dirty16" -> t[2]
              [] t[1] = "zext32" /\ t[2][1] = "dirty16" -> t[2][2]
              [] OTHER -> t
k0xFFFF == 65535

Arith(fn, a, b) ==
    CASE fn = "add" -> a + b
      [] fn = "sub" -> a - b
      [] fn = "shl" -> a * 2 ^ b
      [] fn = "shr" -> a \div 2 ^ b

Apply(fn, a, b) ==
    CASE fn = "and" /\ b = Imm(k0xFFFF) -> Low16(a)
      [] a[1] = "imm" /\ b[1] = "imm" /\ fn \in {"add", "sub", "shl", "shr"} ->
             Imm(Arith(fn, a[2], b[2]))
      [] a = Zero /\ b = Zero -> Zero
      [] OTHER -> <<fn, a, b>>

FlagsOf(fn, a, b) == <<"flags", fn, a, b>>

(***************************************************************************)
(* One instruction that neither branches nor may fault.  A state is the    *)
(* register file `regs', the context `ctx' and the events so far.          *)
(***************************************************************************)
Val(st, r) == IF r \in DOMAIN st.regs THEN st.regs[r] ELSE <<Junk, Junk>>
Lo(st, r) == Val(st, r)[1]
Hi(st, r) == Val(st, r)[2]
SetR(st, r, lo, hi) == [st EXCEPT !.regs = (r :> <<lo, hi>>) @@ @]
SetG(st, r, lo) == SetR(st, r, lo, Junk)
SetC(st, disp, t) == [st EXCEPT !.ctx[disp] = t]

(* dst := fn(a, b), with the flags of the operation. *)
SetAlu(st, dst, flags, fn, a, b) ==
    SetG(SetG(st, flags, FlagsOf(fn, a, b)), dst, Apply(fn, a, b))

StepInsn(st, insn) ==
  LET r == insn.regs
      c == st.ctx
      d == insn.disp
  IN CASE insn.op = "Get" -> SetG(st, r[1], c[d])
       [] insn.op = "GetW" -> SetG(st, r[1], Dirty16(c[d]))
       [] insn.op = "GetX8" -> SetR(st, r[1], c[d], Zero)
       [] insn.op = "GetX16" -> SetR(st, r[1], c[d], c[d + 8])
       [] insn.op = "Put" -> SetC(st, d, Lo(st, r[1]))
       [] insn.op = "PutW" -> SetC(st, d, Low16(Lo(st, r[1])))
       [] insn.op = "PutX16" -> SetC(SetC(st, d, Lo(st, r[1])), d + 8, Hi(st, r[1]))
       [] insn.op = "PutImm" -> SetC(st, d, Imm(insn.imm))
       [] insn.op = "MovImm" -> SetG(st, r[1], Imm(insn.imm))
       [] insn.op = "Movl" -> SetG(st, r[1], Zext32(Lo(st, r[2])))
       \* An 8-byte copy is only promised to move 8 bytes: whether the rest
       \* comes along depends on the registers or slots it runs between.
       [] insn.op = "Copy" -> SetR(st, r[1], Lo(st, r[2]), Junk)
       [] insn.op = "CopyX" -> SetR(st, r[1], Lo(st, r[2]), Hi(st, r[2]))
       [] insn.op = "DefRegX" -> SetR(st, r[1], Junk, Junk)
       [] insn.op = "Alu" -> SetAlu(st, r[1], r[3], insn.fn, Lo(st, r[1]), Lo(st, r[2]))
       [] insn.op = "AluImm" -> SetAlu(st, r[1], r[2], insn.fn, Lo(st, r[1]), Imm(insn.imm))
       [] insn.op = "AluMem" -> SetAlu(st, r[1], r[2], insn.fn, Lo(st, r[1]), c[d])
       [] insn.op = "AlulImm" ->
              LET t == Apply(insn.fn, Zext32(Lo(st, r[1])), Imm(insn.imm))
              IN SetG(SetG(st, r[2], FlagsOf(insn.fn, Lo(st, r[1]), Imm(insn.imm))),
                      r[1], Zext32(t))
       [] insn.op = "ShlCl" -> SetAlu(st, r[1], r[3], "shl", Lo(st, r[1]), Lo(st, r[2]))
       [] insn.op = "Test" -> SetG(st, r[3], FlagsOf("test", Lo(st, r[1]), Lo(st, r[2])))
       [] insn.op = "TestImm" -> SetG(st, r[2], FlagsOf("test", Lo(st, r[1]), Imm(insn.imm)))
       [] insn.op = "CmpPending" -> SetG(st, r[1], <<"pending", Len(st.events)>>)
       [] insn.op = "ReadFlags" -> SetG(st, r[1], <<"lahf", Lo(st, r[2])>>)
       [] insn.op = "Vop" ->
              IF insn.fn = "xor" /\ r[1] = r[2] THEN SetR(st, r[1], Zero, Zero)
              ELSE SetR(st, r[1], Apply(insn.fn, Lo(st, r[1]), Lo(st, r[2])),
                                  Apply(insn.fn, Hi(st, r[1]), Hi(st, r[2])))
       [] insn.op = "MovsdXX" -> SetR(st, r[1], Lo(st, r[2]), Hi(st, r[1]))
       [] insn.op = "MovqXR" -> SetR(st, r[1], Lo(st, r[2]), Zero)
       [] insn.op = "MovqRX" -> SetG(st, r[1], Lo(st, r[2]))

(***************************************************************************)
(* Executions.                                                             *)
(***************************************************************************)
Event(st, e) == [st EXCEPT !.events = Append(@, e)]

(* Where an execution is cut off at the bound, only its events count. *)
IsCutOff(st) == Len(st.events) > MaxEvents
CutOff(st) == [events |-> SubSeq(st.events, 1, MaxEvents + 1), exit |-> <<"cut">>, ctx |-> << >>]
Outcome(st, exit) ==
    IF IsCutOff(st) THEN CutOff(st)
    ELSE [events |-> st.events, exit |-> exit, ctx |-> st.ctx]

(* A jump may be chained to the target's code, unless it has to leave. *)
ExitKind(kind) == IF kind = "exit" THEN "exit" ELSE "jump"

(* An access to guest memory: what is accessed, and what a load loads. *)
Access(st, insn) ==
    CASE insn.op = "Load" -> <<"load", Lo(st, insn.regs[2])>>
      [] insn.op = "Store" -> <<"store", Lo(st, insn.regs[1]), Lo(st, insn.regs[2])>>
      [] insn.op = "StoreImm" -> <<"store", Lo(st, insn.regs[1]), Imm(insn.imm)>>
Loaded(st, insn) ==
    IF insn.op = "Load" THEN SetG(st, insn.regs[1], <<"loaded", Len(st.events)>>) ELSE st

(* From the i-th instruction of b to the next that branches, leaves or may *)
(* fault.                                                                  *)
RunStraight(ir, b, i, st) ==
  LET Stops(s) == Insns(ir, b)[s.at].op \in
          {"Branch", "CondBranch", "Jump", "IndirectJump", "Load", "Store", "StoreImm"}
      Step(s) == [at |-> s.at + 1, st |-> StepInsn(s.st, Insns(ir, b)[s.at])]
  IN Iterate(Stops, Step, kMaxStepsLog, [at |-> i, st |-> st])

RECURSIVE RunFrom(_, _, _, _)
RunFrom(ir, b, start, entry) ==
  LET here == RunStraight(ir, b, start, entry)
      i == here.at
      st == here.st
      insn == Insns(ir, b)[i] IN
  IF IsCutOff(st) THEN {CutOff(st)}
  ELSE CASE insn.op = "Branch" -> RunFrom(ir, insn.then, 1, st)
         [] insn.op = "CondBranch" ->
              LET flags == Lo(st, insn.regs[1])
                  Taken == Event(st, <<"if", insn.fn, flags>>)
                  NotTaken == Event(st, <<"ifnot", insn.fn, flags>>)
              IN RunFrom(ir, insn.then, 1, Taken) \cup RunFrom(ir, insn.els, 1, NotTaken)
         [] insn.op = "Jump" -> {Outcome(st, <<ExitKind(insn.fn), insn.target>>)}
         [] insn.op = "IndirectJump" -> {Outcome(st, <<"indirect", Lo(st, insn.regs[1])>>)}
         [] insn.op \in {"Load", "Store", "StoreImm"} ->
              LET a == Access(st, insn)
              IN RunFrom(ir, b, i + 1, Event(Loaded(st, insn), <<"done", a>>))
                 \cup RunFrom(ir, insn.rec, 1, Event(st, <<"fault", a>>))

Behaviours(ir) ==
    RunFrom(ir, ir.list[1], 1,
            [regs |-> << >>, ctx |-> InitialContext, events |-> << >>])
=============================================================================
