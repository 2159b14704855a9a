---------------------------- MODULE GuestProgram ----------------------------
(***************************************************************************)
(* The guest programs that regions are made of, and what they promise to   *)
(* do: the reference that the code generated for a region is compared      *)
(* with.                                                                   *)
(*                                                                         *)
(* A program is a sequence of instructions, the one at address `a' being   *)
(* program[a], over two general and two vector registers.  A region is a   *)
(* prefix of it.  An execution of the region has the same form as one of   *)
(* machine code: what it decides and accesses, how it leaves, and the      *)
(* registers it leaves behind.  It leaves where the program leaves the     *)
(* region, where an access faults (at the faulting instruction, with the   *)
(* registers as they were before it), at an instruction that is not        *)
(* supported, and before a jump back if signals are pending.               *)
(***************************************************************************)
EXTENDS MachineSemantics

(* A guest instruction; the fields an operation does not use are 0. *)
G(op, d, n, m, imm, to) ==
    [op |-> op, d |-> d, n |-> n, m |-> m, imm |-> imm, to |-> to]

X(ctx, r) == ctx[XOffset(r)]
V(ctx, r) == <<ctx[VOffset(r)], ctx[VOffset(r) + 8]>>
SetX(ctx, r, t) == [ctx EXCEPT ![XOffset(r)] = t]
SetV(ctx, r, lo, hi) == [ctx EXCEPT ![VOffset(r)] = lo, ![VOffset(r) + 8] = hi]

(* The condition flags of a subtraction, in the layout of CPUState::flags, *)
(* and the 0/1 value of "Z is set" in them.                                *)
NZCVOfSub(a, b) ==
    Zext32(<<"xor", Zext32(<<"and", Zext32(<<"lahf", FlagsOf("sub", a, b)>>), Imm(49409)>>),
             Imm(256)>>)
ZSet(nzcv) ==
    LET w == Zext32(nzcv)
    IN Zext32(<<"and", Zext32(<<"shr", w, Imm(14)>>), Imm(1)>>)
ZClear(nzcv) == Zext32(<<"xor", ZSet(nzcv), Imm(1)>>)

AddOf(a, imm) == IF imm = 0 THEN a ELSE Apply("add", a, Imm(imm))
TbiAddr(a) == Apply("shr", Apply("shl", a, Imm(8)), Imm(8))

(* The registers after an instruction that neither branches nor faults. *)
Effect(c, g) ==
    CASE g.op = "MovImm" -> SetX(c, g.d, Imm(g.imm))
      [] g.op = "AddImm" -> SetX(c, g.d, AddOf(X(c, g.n), g.imm))
      [] g.op = "SubsImm" ->
           [SetX(c, g.d, Apply("sub", X(c, g.n), Imm(g.imm)))
              EXCEPT ![FlagsOffset] = NZCVOfSub(X(c, g.n), Imm(g.imm))]
      [] g.op = "AddWImm" -> SetX(c, g.d, Zext32(AddOf(Zext32(X(c, g.n)), g.imm)))
      [] g.op = "Add" -> SetX(c, g.d, Apply("add", X(c, g.n), X(c, g.m)))
      [] g.op = "Lslv" -> SetX(c, g.d, Apply("shl", X(c, g.n), X(c, g.m)))
      [] g.op = "VAdd" -> SetV(c, g.d, Apply("padd", V(c, g.n)[1], V(c, g.m)[1]),
                                       Apply("padd", V(c, g.n)[2], V(c, g.m)[2]))
      [] g.op = "FmovDD" -> SetV(c, g.d, V(c, g.n)[1], Zero)
      [] g.op = "FmovDX" -> SetV(c, g.d, X(c, g.n), Zero)
      [] g.op = "FmovXD" -> SetX(c, g.d, V(c, g.n)[1])
      [] g.op = "OrrD" -> SetV(c, g.d, Apply("por", V(c, g.d)[1], Imm(g.imm)), Zero)
      [] g.op = "Nop" -> c

RECURSIVE GuestRun(_, _, _, _)
GuestRun(program, last, pc, st) ==
  LET g == program[pc]
      c == st.ctx
      At(s, a) == GuestRun(program, last, a, s)
      Next1(s) == At(s, pc + 1)
      Ctx(x) == [st EXCEPT !.ctx = x]
      If(cond, v) == Event(st, <<"if", cond, FlagsOf("test", v, v)>>)
      IfNot(cond, v) == Event(st, <<"ifnot", cond, FlagsOf("test", v, v)>>)
      Pending(s) == <<"pending", Len(s.events)>>
      \* A jump from pc: out of the region, back, or forward.
      Goto(s, a) ==
        IF a \notin 1..last THEN {Outcome(s, <<"jump", a>>)}
        ELSE IF a > pc THEN At(s, a)
        ELSE {Outcome(Event(s, <<"if", "Equal", Pending(s)>>), <<"exit", a>>)}
             \cup At(Event(s, <<"ifnot", "Equal", Pending(s)>>), a)
      addr == TbiAddr(X(c, g.n))
      Back(x) == IF g.imm = 0 THEN x ELSE SetX(x, g.n, Apply("add", X(c, g.n), Imm(g.imm)))
      a == IF g.op = "Ldr" THEN <<"load", addr>> ELSE <<"store", addr, X(c, g.d)>>
      loaded == SetX(c, g.d, <<"loaded", Len(st.events)>>)
      Done == Event(Ctx(Back(IF g.op = "Ldr" THEN loaded ELSE c)), <<"done", a>>)
      z == ZSet(c[FlagsOffset])
  IN IF IsCutOff(st) THEN {CutOff(st)}
     ELSE IF pc > last THEN {Outcome(st, <<"jump", pc>>)}
     ELSE CASE g.op \in {"Ldr", "Str"} ->
                 {Outcome(Event(st, <<"fault", a>>), <<"exit", pc>>)} \cup Next1(Done)
            [] g.op = "Csel" ->
                 Next1([If("NotZero", z) EXCEPT !.ctx = SetX(c, g.d, X(c, g.n))])
                 \cup Next1([IfNot("NotZero", z) EXCEPT !.ctx = SetX(c, g.d, X(c, g.m))])
            [] g.op = "BCond" ->
                 LET ne == ZClear(c[FlagsOffset])
                 IN Goto(If("NotZero", ne), g.to) \cup Next1(IfNot("NotZero", ne))
            [] g.op = "Cbz" ->
                 Goto(If("Zero", X(c, g.n)), g.to) \cup Next1(IfNot("Zero", X(c, g.n)))
            [] g.op = "B" -> Goto(st, g.to)
            [] g.op = "Br" -> {Outcome(st, <<"indirect", X(c, g.n)>>)}
            [] g.op = "Undefined" -> {Outcome(st, <<"exit", pc>>)}
            [] OTHER -> Next1(Ctx(Effect(c, g)))

(* What the region that ends with the instruction at `last' may do. *)
GuestBehaviours(program, last) ==
    GuestRun(program, last, 1,
             [regs |-> << >>, ctx |-> InitialContext, events |-> << >>])
=============================================================================
