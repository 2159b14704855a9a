------------------------- MODULE GuestSignalsProofs -------------------------
(***************************************************************************)
(* The safety properties of GuestSignals, for any signals, masks and       *)
(* guests, and any number of signals, calls and flushes.                   *)
(*                                                                         *)
(* Whether pending signals are enabled is a matter of the frames on the    *)
(* host stack (Open): the innermost frame that has decided it, for itself  *)
(* and for what interrupts it.  Every frame remembers in prev what it has  *)
(* found, and is in the place where it puts that back.                     *)
(***************************************************************************)
EXTENDS GuestSignals, SequenceTheorems, TLAPS

Is(f, kind, where) == f.kind = kind /\ f.at = where

(* A frame in which pending signals are enabled. *)
Opens(f) ==
    \/ f.kind \in {"HostCall", "Impl"}
    \/ f.kind = "Call" /\ f.at # "Enter"
    \/ f.kind = "Signal" /\ f.at # "Test"
    \/ Is(f, "Syscall", "Disable")

(* A frame that did not look at the status yet. *)
Passes(f) == Is(f, "Call", "Enter") \/ Is(f, "Signal", "Test")

(* Pending signals are enabled in the frame n of the stack s. *)
Open(s, n) ==
    \E j \in 1 .. n : Opens(s[j]) /\ \A k \in j + 1 .. n : Passes(s[k])

(* The frame f, on top of the frame below, in which pending signals are      *)
(* enabled or not.                                                           *)
Fits(f, below, open, first) ==
    /\ f.kind = "Host" <=> first
    /\ f.kind = "Impl" => open
    /\ f.kind = "HostCall" => Is(below, "Call", "Gen")
    /\ f.kind = "Syscall" => Is(below, "Call", "Gen") \/ Is(below, "Call", "Loop")
    /\ f.kind = "Syscall" /\ f.at # "Disable" => f.prev
    /\ Opens(f) /\ f.kind \in {"Call", "Signal"} => (f.prev <=> open)
    /\ f.kind \in {"Call", "Signal"} /\ f.at = "Disable" => ~f.prev
    /\ Is(f, "Signal", "Return") => f.prev

FitsAt(s, n) == Fits(s[n], s[n - 1], Open(s, n - 1), n = 1)

(* Above the frame n there are only host signals that found pending signals  *)
(* enabled, and will leave it to others to handle them.                      *)
Quiet(s, n) ==
    \A j \in n + 1 .. Len(s) : s[j].kind = "Signal" /\ Open(s, j - 1)

(* The inductive invariant: every frame fits on the one below; the status is *)
(* enabled where the stack says so; the loop that dequeues, and generated    *)
(* code, are interrupted only by host signals that leave the handling to     *)
(* them.                                                                     *)
IInv ==
    /\ TypeOK
    /\ \A i \in DOMAIN stack : FitsAt(stack, i)
    /\ stack # <<>> => (status # "Disabled" <=> Open(stack, Len(stack)))
    /\ \A i \in DOMAIN stack : Is(stack[i], "Impl", "Dequeue") => Quiet(stack, i)
    /\ residence = "Inside" =>
          \E i \in DOMAIN stack : Is(stack[i], "Call", "Gen") /\ Quiet(stack, i)
    /\ NoLostSignal

-----------------------------------------------------------------------------

USE DEF NoSig

(* Open, from one frame to the next. *)
LEMMA OpenStep ==
  ASSUME NEW s, NEW n \in Nat \ {0}
  PROVE  Open(s, n) <=> Opens(s[n]) \/ (Passes(s[n]) /\ Open(s, n - 1))
<1>1. ASSUME Open(s, n) PROVE Opens(s[n]) \/ (Passes(s[n]) /\ Open(s, n - 1))
  <2>1. PICK j \in 1 .. n : Opens(s[j]) /\ \A k \in j + 1 .. n : Passes(s[k])
    BY <1>1 DEF Open
  <2>2. CASE j = n
    BY <2>1, <2>2
  <2>3. CASE j # n
    <3>1. j \in 1 .. n - 1 /\ n \in j + 1 .. n
      BY <2>3
    <3>2. \A k \in j + 1 .. n - 1 : k \in j + 1 .. n
      OBVIOUS
    <3> QED BY <2>1, <3>1, <3>2 DEF Open
  <2> QED BY <2>2, <2>3
<1>2. ASSUME Opens(s[n]) PROVE Open(s, n)
  <2>1. n \in 1 .. n /\ \A k \in n + 1 .. n : FALSE
    OBVIOUS
  <2> QED BY <1>2, <2>1 DEF Open
<1>3. ASSUME Passes(s[n]), Open(s, n - 1) PROVE Open(s, n)
  <2>1. PICK j \in 1 .. n - 1 : Opens(s[j]) /\ \A k \in j + 1 .. n - 1 : Passes(s[k])
    BY <1>3 DEF Open
  <2>2. j \in 1 .. n /\ \A k \in j + 1 .. n : k \in j + 1 .. n - 1 \/ k = n
    OBVIOUS
  <2> QED BY <1>3, <2>1, <2>2 DEF Open
<1> QED BY <1>1, <1>2, <1>3

(* Open depends on the frames up to n only. *)
LEMMA OpenSame ==
  ASSUME NEW s, NEW r, NEW m \in Nat, \A i \in 1 .. m : s[i] = r[i]
  PROVE  \A n \in 0 .. m : Open(s, n) <=> Open(r, n)
<1> SUFFICES ASSUME NEW n \in 0 .. m PROVE Open(s, n) <=> Open(r, n)
  OBVIOUS
<1>1. \A j \in 1 .. n : s[j] = r[j] /\ \A k \in j + 1 .. n : s[k] = r[k]
  OBVIOUS
<1> QED BY <1>1 DEF Open

(* Whether pending signals are enabled in the caller of the running frame. *)
OpenCaller == Open(stack, Len(stack) - 1)

(* What the actions on the stack do. *)
LEMMA StackOps ==
  ASSUME stack \in Seq(FrameType), stack # <<>>
  PROVE  /\ Len(stack) \in Nat \ {0} /\ Running \in FrameType
         /\ \A f \in FrameType : Becomes(f) =>
              /\ stack' \in Seq(FrameType) /\ Len(stack') = Len(stack)
              /\ stack'[Len(stack)] = f
              /\ \A i \in 1 .. Len(stack) - 1 : stack'[i] = stack[i]
         /\ \A f, g \in FrameType : Calls(f, g) =>
              /\ stack' \in Seq(FrameType) /\ Len(stack') = Len(stack) + 1
              /\ stack'[Len(stack)] = f /\ stack'[Len(stack) + 1] = g
              /\ \A i \in 1 .. Len(stack) - 1 : stack'[i] = stack[i]
         /\ Returns =>
              /\ stack' \in Seq(FrameType) /\ Len(stack') = Len(stack) - 1
              /\ \A i \in 1 .. Len(stack) - 1 : stack'[i] = stack[i]
<1> DEFINE n == Len(stack)
<1>1. n \in Nat \ {0} /\ Running \in FrameType
  BY DEF Running
<1>2. /\ Callers \in Seq(FrameType) /\ Len(Callers) = n - 1
      /\ \A i \in 1 .. n - 1 : Callers[i] = stack[i]
  <2>1. \A i \in 1 .. n - 1 : stack[i] \in FrameType
    BY <1>1
  <2>2. /\ SubSeq(stack, 1, n - 1) \in Seq(FrameType)
        /\ Len(SubSeq(stack, 1, n - 1)) = n - 1
        /\ \A i \in 1 .. n - 1 : SubSeq(stack, 1, n - 1)[i] = stack[i]
    <3> HIDE DEF n
    <3> QED BY <1>1, <2>1, SubSeqProperties
  <2> QED BY <2>2 DEF Callers
<1> HIDE DEF n
<1>3. ASSUME NEW f \in FrameType, Becomes(f)
      PROVE  /\ stack' \in Seq(FrameType) /\ Len(stack') = n /\ stack'[n] = f
             /\ \A i \in 1 .. n - 1 : stack'[i] = stack[i]
  BY <1>1, <1>2, <1>3 DEF Becomes
<1>4. ASSUME NEW f \in FrameType, NEW g \in FrameType, Calls(f, g)
      PROVE  /\ stack' \in Seq(FrameType) /\ Len(stack') = n + 1
             /\ stack'[n] = f /\ stack'[n + 1] = g
             /\ \A i \in 1 .. n - 1 : stack'[i] = stack[i]
  <2>1. stack' = Callers \o <<f, g>> /\ <<f, g>> \in Seq(FrameType) /\ Len(<<f, g>>) = 2
    BY <1>4 DEF Calls
  <2>2. /\ stack' \in Seq(FrameType) /\ Len(stack') = n + 1
        /\ \A i \in 1 .. n + 1 : stack'[i] =
              IF i <= n - 1 THEN Callers[i] ELSE <<f, g>>[i - (n - 1)]
    BY <1>1, <1>2, <2>1, ConcatProperties
  <2> QED BY <1>1, <1>2, <2>2
<1>5. ASSUME Returns
      PROVE  /\ stack' \in Seq(FrameType) /\ Len(stack') = n - 1
             /\ \A i \in 1 .. n - 1 : stack'[i] = stack[i]
  BY <1>1, <1>2, <1>5 DEF Returns
<1> QED BY <1>1, <1>3, <1>4, <1>5 DEF n

(* The first m frames stay; what is above them is replaced.  Then it is      *)
(* enough to look at the new frames, if these are host signals that leave    *)
(* everything to others or what they replace was not.                        *)
LEMMA Change ==
  ASSUME IInv, TypeOK', NoLostSignal',
         NEW m \in Nat, m <= Len(stack), m <= Len(stack'),
         \A i \in 1 .. m : stack'[i] = stack[i],
         \A i \in m + 1 .. Len(stack') : FitsAt(stack', i),
         stack' # <<>> => (status' # "Disabled" <=> Open(stack', Len(stack'))),
         \A i \in m + 1 .. Len(stack') - 1 : ~Is(stack'[i], "Impl", "Dequeue"),
         \/ \A j \in m + 1 .. Len(stack') : stack'[j].kind = "Signal" /\ Open(stack', j - 1)
         \/ \E j \in m + 1 .. Len(stack) : ~(stack[j].kind = "Signal" /\ Open(stack, j - 1)),
         residence' = "Inside" =>
            \/ stack' # <<>> /\ Is(stack'[Len(stack')], "Call", "Gen")
            \/ /\ residence = "Inside"
               /\ \A j \in m + 1 .. Len(stack) : stack[j].kind # "Call"
  PROVE  IInv'
<1>1. Len(stack) \in Nat /\ Len(stack') \in Nat
  BY DEF IInv, TypeOK
<1>7. DOMAIN stack = 1 .. Len(stack) /\ DOMAIN stack' = 1 .. Len(stack')
  BY DEF IInv, TypeOK
<1>2. \A n \in 0 .. m : Open(stack', n) <=> Open(stack, n)
  BY OpenSame
<1>3. ASSUME NEW i \in 1 .. m, Quiet(stack, i) PROVE Quiet(stack', i)
  <2>1. CASE \A j \in m + 1 .. Len(stack') : stack'[j].kind = "Signal" /\ Open(stack', j - 1)
    <3> SUFFICES ASSUME NEW j \in i + 1 .. Len(stack')
                 PROVE  stack'[j].kind = "Signal" /\ Open(stack', j - 1)
      BY DEF Quiet
    <3>1. CASE j <= m
      <4>1. j \in i + 1 .. Len(stack) /\ j \in 1 .. m /\ j - 1 \in 0 .. m
        BY <1>1, <3>1
      <4> QED BY <1>2, <1>3, <4>1 DEF Quiet
    <3>2. CASE j > m
      BY <1>1, <2>1, <3>2
    <3> QED BY <1>1, <3>1, <3>2
  <2>2. CASE \E j \in m + 1 .. Len(stack) : ~(stack[j].kind = "Signal" /\ Open(stack, j - 1))
    BY <1>1, <1>3, <2>2 DEF Quiet
  <2> QED BY <2>1, <2>2
<1>4. ASSUME NEW i \in 1 .. Len(stack') PROVE FitsAt(stack', i)
  <2>1. CASE i > m
    BY <1>1, <2>1
  <2>2. CASE i <= m
    <3>1. FitsAt(stack, i) /\ stack'[i] = stack[i]
      BY <1>1, <1>7, <2>2 DEF IInv
    <3>4. Open(stack', i - 1) <=> Open(stack, i - 1)
      BY <1>1, <1>2, <2>2
    <3>2. CASE i = 1
      BY <3>1, <3>2, <3>4 DEF FitsAt, Fits, Is
    <3>3. CASE i # 1
      <4>1. stack'[i - 1] = stack[i - 1]
        BY <2>2, <3>3
      <4> QED BY <3>1, <3>4, <4>1 DEF FitsAt, Fits
    <3> QED BY <3>2, <3>3
  <2> QED BY <1>1, <2>1, <2>2
<1>5. ASSUME NEW i \in 1 .. Len(stack'), Is(stack'[i], "Impl", "Dequeue")
      PROVE  Quiet(stack', i)
  <2>1. CASE i <= m
    <3>1. i \in 1 .. Len(stack) /\ i \in 1 .. m /\ stack'[i] = stack[i]
      BY <1>1, <2>1
    <3> QED BY <1>3, <1>5, <1>7, <3>1 DEF IInv
  <2>2. CASE i > m
    <3>1. i = Len(stack')
      <4>1. i # Len(stack') => i \in m + 1 .. Len(stack') - 1
        BY <1>1, <2>2
      <4> QED BY <1>5, <4>1
    <3> QED BY <1>1, <3>1 DEF Quiet
  <2> QED BY <1>1, <2>1, <2>2
<1>6. ASSUME residence' = "Inside"
      PROVE  \E i \in 1 .. Len(stack') : Is(stack'[i], "Call", "Gen") /\ Quiet(stack', i)
  <2>1. CASE stack' # <<>> /\ Is(stack'[Len(stack')], "Call", "Gen")
    <3>1. Len(stack') \in 1 .. Len(stack') /\ Quiet(stack', Len(stack'))
      BY <1>1, <2>1 DEF Quiet
    <3> QED BY <2>1, <3>1
  <2>2. CASE /\ residence = "Inside"
             /\ \A j \in m + 1 .. Len(stack) : stack[j].kind # "Call"
    <3>1. PICK i \in 1 .. Len(stack) : Is(stack[i], "Call", "Gen") /\ Quiet(stack, i)
      BY <1>7, <2>2 DEF IInv
    <3>2. i \in 1 .. m
      BY <1>1, <2>2, <3>1 DEF Is
    <3> QED BY <1>1, <1>3, <3>1, <3>2
  <2> QED BY <1>6, <2>1, <2>2
<1> QED BY <1>4, <1>5, <1>6, <1>7 DEF IInv

Announces(f) == f.kind = "Impl" \/ Is(f, "Signal", "Mark")

Inner(f, open) == Opens(f) \/ (Passes(f) /\ open)

(* Outside of generated code, unless a host signal has interrupted it. *)
LEMMA IsOutside ==
  ASSUME IInv, stack # <<>>, ~Is(Running, "Call", "Gen"),
         ~(Running.kind = "Signal" /\ OpenCaller)
  PROVE  residence = "Outside"
<1>1. Len(stack) \in Nat \ {0}
  BY DEF IInv, TypeOK
<1>3. residence \in {"Inside", "Outside"} /\ DOMAIN stack = 1 .. Len(stack)
  BY DEF IInv, TypeOK
<1>2. ASSUME NEW i \in 1 .. Len(stack), Is(stack[i], "Call", "Gen"), Quiet(stack, i)
      PROVE  FALSE
  <2>1. i # Len(stack)
    BY <1>2 DEF Running
  <2>2. Len(stack) \in i + 1 .. Len(stack)
    BY <1>1, <2>1
  <2>3. stack[Len(stack)].kind = "Signal" /\ Open(stack, Len(stack) - 1)
    BY <1>2, <2>2 DEF Quiet
  <2> QED BY <2>3 DEF Running, OpenCaller
<1> QED BY <1>2, <1>3 DEF IInv

(* When the frames new replace the running one, signals that wait are        *)
(* announced by the status or by one of them, or the running frame has not   *)
(* announced any.                                                            *)
Tells(new) ==
    ~NothingPending' /\ "longjmp" \notin uses' =>
        \/ status' = "Present"
        \/ \E f \in new : Announces(f)
        \/ ~NothingPending /\ uses' = uses /\ status # "Present" /\ ~Announces(Running)

(* Then NoLostSignal goes on to hold. *)
LEMMA NoneLost ==
  ASSUME IInv, stack # <<>>, NEW new, Tells(new), stack' \in Seq(FrameType),
         Len(stack') >= Len(stack) - 1,
         \A i \in 1 .. Len(stack) - 1 : stack'[i] = stack[i],
         \A f \in new : \E i \in 1 .. Len(stack') : stack'[i] = f
  PROVE  NoLostSignal'
<1>1. DOMAIN stack = 1 .. Len(stack) /\ DOMAIN stack' = 1 .. Len(stack') /\ NoLostSignal
  BY DEF IInv, TypeOK
<1>2. Len(stack) \in Nat \ {0} /\ Len(stack') \in Nat
  BY DEF IInv, TypeOK
<1> SUFFICES ASSUME ~NothingPending', "longjmp" \notin uses', status' # "Present"
             PROVE  \E i \in 1 .. Len(stack') : Announces(stack'[i])
  BY <1>1 DEF NoLostSignal, Announces, Is
<1>3. CASE \E f \in new : Announces(f)
  BY <1>3
<1>4. CASE ~NothingPending /\ uses' = uses /\ status # "Present" /\ ~Announces(Running)
  <2>1. PICK i \in 1 .. Len(stack) : Announces(stack[i])
    BY <1>1, <1>4 DEF NoLostSignal, Announces, Is
  <2>2. i # Len(stack)
    BY <1>4, <2>1 DEF Running
  <2>3. i \in 1 .. Len(stack) - 1 /\ i \in 1 .. Len(stack')
    BY <1>2, <2>2
  <2> QED BY <2>1, <2>3
<1> QED BY <1>3, <1>4 DEF Tells

(* The running frame goes to another place: IInv is a matter of the new      *)
(* frame.                                                                    *)
LEMMA TopBecomes ==
  ASSUME IInv, stack # <<>>, NEW f \in FrameType, Becomes(f),
         stack' \in Seq(FrameType) => TypeOK',
         Fits(f, Caller, OpenCaller, Len(stack) = 1),
         status' # "Disabled" <=> Inner(f, OpenCaller),
         \/ Running.kind = "Signal" /\ f.kind = "Signal" /\ residence' = residence
         \/ Running.kind # "Signal" /\ (residence' = "Inside" => Is(f, "Call", "Gen")),
         Tells({f})
  PROVE  IInv'
<1> DEFINE n == Len(stack)
<1>1. stack \in Seq(FrameType)
  BY DEF IInv, TypeOK
<1>2. /\ n \in Nat \ {0} /\ n - 1 \in Nat /\ Len(stack') = n /\ stack'[n] = f
      /\ \A i \in 1 .. n - 1 : stack'[i] = stack[i]
  BY <1>1, StackOps
<1>3. TypeOK' /\ stack' # <<>> /\ stack' \in Seq(FrameType)
  BY <1>1, <1>2, StackOps
<1> HIDE DEF n
<1>4. Open(stack', n - 1) <=> OpenCaller
  <2>1. \A k \in 0 .. n - 1 : Open(stack', k) <=> Open(stack, k)
    BY <1>2, OpenSame
  <2>2. n - 1 \in 0 .. n - 1
    BY <1>2
  <2> QED BY <2>1, <2>2 DEF OpenCaller, n
<1>5. FitsAt(stack', n)
  <2>1. CASE n = 1
    BY <1>2, <1>4, <2>1 DEF FitsAt, Fits, Is, n
  <2>2. CASE n # 1
    <3>1. stack'[n - 1] = Caller
      BY <1>2, <2>2 DEF Caller, n
    <3> QED BY <1>2, <1>4, <2>2, <3>1 DEF FitsAt, Fits, n
  <2> QED BY <2>1, <2>2
<1>6. Open(stack', n) <=> Inner(f, OpenCaller)
  BY <1>2, <1>4, OpenStep DEF Inner
<1>7. NoLostSignal'
  BY <1>2, <1>3, NoneLost DEF n
<1>8. \/ stack'[n].kind = "Signal" /\ Open(stack', n - 1)
      \/ ~(stack[n].kind = "Signal" /\ Open(stack, n - 1))
  BY <1>2, <1>4 DEF Running, OpenCaller, n
<1>9. residence' = "Inside" =>
         \/ Is(stack'[n], "Call", "Gen")
         \/ residence = "Inside" /\ stack[n].kind # "Call"
  BY <1>2 DEF Running, n
<1>10. n \in n - 1 + 1 .. n /\ \A i \in n - 1 + 1 .. n : i = n
  BY <1>2
<1>11. n - 1 <= n /\ \A i \in n - 1 + 1 .. n - 1 : FALSE
  BY <1>2
<1> QED BY <1>2, <1>3, <1>5, <1>6, <1>7, <1>8, <1>9, <1>10, <1>11, Change DEF n

(* The running frame calls another one: IInv is a matter of these two. *)
LEMMA TopCalls ==
  ASSUME IInv, stack # <<>>, NEW f \in FrameType, NEW g \in FrameType, Calls(f, g),
         stack' \in Seq(FrameType) => TypeOK',
         ~(Running.kind = "Signal" /\ OpenCaller), residence' = "Outside",
         Fits(f, Caller, OpenCaller, Len(stack) = 1), ~Is(f, "Impl", "Dequeue"),
         Fits(g, f, Inner(f, OpenCaller), FALSE),
         status' # "Disabled" <=> Inner(g, Inner(f, OpenCaller)),
         Tells({f, g})
  PROVE  IInv'
<1> DEFINE n == Len(stack)
<1>1. stack \in Seq(FrameType)
  BY DEF IInv, TypeOK
<1>2. /\ n \in Nat \ {0} /\ n - 1 \in Nat /\ Len(stack') = n + 1
      /\ stack'[n] = f /\ stack'[n + 1] = g
      /\ \A i \in 1 .. n - 1 : stack'[i] = stack[i]
  BY <1>1, StackOps
<1>3. TypeOK' /\ stack' # <<>> /\ stack' \in Seq(FrameType)
  BY <1>1, <1>2, StackOps
<1> HIDE DEF n
<1>4. Open(stack', n - 1) <=> OpenCaller
  <2>1. \A k \in 0 .. n - 1 : Open(stack', k) <=> Open(stack, k)
    BY <1>2, OpenSame
  <2>2. n - 1 \in 0 .. n - 1
    BY <1>2
  <2> QED BY <2>1, <2>2 DEF OpenCaller, n
<1>5. FitsAt(stack', n)
  <2>1. CASE n = 1
    BY <1>2, <1>4, <2>1 DEF FitsAt, Fits, Is, n
  <2>2. CASE n # 1
    <3>1. n - 1 \in 1 .. n - 1
      BY <1>2, <2>2
    <3>2. stack'[n - 1] = Caller
      BY <1>2, <3>1 DEF Caller, n
    <3> QED BY <1>2, <1>4, <2>2, <3>2 DEF FitsAt, Fits, n
  <2> QED BY <2>1, <2>2
<1>6. Open(stack', n) <=> Inner(f, OpenCaller)
  BY <1>2, <1>4, OpenStep DEF Inner
<1>7. n + 1 \in Nat \ {0} /\ n + 1 # 1 /\ n + 1 - 1 = n
  BY <1>2
<1>8. FitsAt(stack', n + 1)
  BY <1>2, <1>6, <1>7 DEF FitsAt, Fits
<1>9. Open(stack', n + 1) <=> Inner(g, Inner(f, OpenCaller))
  <2>1. Open(stack', n + 1) <=> Opens(g) \/ (Passes(g) /\ Open(stack', n))
    BY <1>2, <1>7, OpenStep
  <2> QED BY <1>6, <2>1 DEF Inner
<1>10. NoLostSignal'
  <2>1. \A h \in {f, g} : \E i \in 1 .. n + 1 : stack'[i] = h
    BY <1>2
  <2> QED BY <1>2, <1>3, <2>1, NoneLost DEF n
<1>11. ~(stack[n].kind = "Signal" /\ Open(stack, n - 1))
  BY DEF Running, OpenCaller, n
<1>12. PICK m \in Nat : m = n - 1
  BY <1>2
<1>13. \A i \in m + 1 .. Len(stack') : FitsAt(stack', i)
  <2>1. \A i \in m + 1 .. Len(stack') : i = n \/ i = n + 1
    BY <1>2, <1>12
  <2> QED BY <1>5, <1>8, <2>1
<1>14. \A i \in m + 1 .. Len(stack') - 1 : ~Is(stack'[i], "Impl", "Dequeue")
  <2>1. \A i \in m + 1 .. Len(stack') - 1 : i = n
    BY <1>2, <1>12
  <2> QED BY <1>2, <2>1
<1>15. \E j \in m + 1 .. Len(stack) : ~(stack[j].kind = "Signal" /\ Open(stack, j - 1))
  BY <1>2, <1>11, <1>12 DEF n
<1>16. m <= Len(stack) /\ m <= Len(stack') /\ \A i \in 1 .. m : stack'[i] = stack[i]
  BY <1>2, <1>12 DEF n
<1>17. status' # "Disabled" <=> Open(stack', Len(stack'))
  BY <1>2, <1>9
<1> QED BY <1>3, <1>10, <1>13, <1>14, <1>15, <1>16, <1>17, Change

(* The running frame returns: its caller goes on in the status it left, or   *)
(* one that was put back.                                                    *)
LEMMA TopReturns ==
  ASSUME IInv, stack # <<>>, Returns, Running.kind # "Host",
         stack' \in Seq(FrameType) => TypeOK',
         status' # "Disabled" <=> OpenCaller,
         residence' = "Inside" =>
            \/ residence = "Inside" /\ Running.kind # "Call"
            \/ Is(Caller, "Call", "Gen"),
         Tells({})
  PROVE  IInv'
<1> DEFINE n == Len(stack)
<1>1. stack \in Seq(FrameType) /\ n \in Nat \ {0} /\ n \in DOMAIN stack
  BY DEF IInv, TypeOK
<1>2. n # 1
  BY <1>1 DEF IInv, FitsAt, Fits, Running
<1>3. /\ n - 1 \in Nat \ {0} /\ Len(stack') = n - 1
      /\ \A i \in 1 .. n - 1 : stack'[i] = stack[i]
  BY <1>1, <1>2, StackOps
<1>4. TypeOK' /\ stack' \in Seq(FrameType)
  BY <1>1, StackOps
<1> HIDE DEF n
<1>5. n - 1 \in 0 .. n - 1 /\ n - 1 \in 1 .. n - 1 /\ n - 1 <= n
  BY <1>1, <1>3
<1>6. Open(stack', n - 1) <=> OpenCaller
  <2>1. \A k \in 0 .. n - 1 : Open(stack', k) <=> Open(stack, k)
    BY <1>3, OpenSame
  <2> QED BY <1>5, <2>1 DEF OpenCaller, n
<1>7. NoLostSignal'
  BY <1>1, <1>3, <1>4, <1>5, NoneLost DEF n
<1>8. stack' # <<>> /\ stack'[n - 1] = Caller
  BY <1>3, <1>5 DEF Caller, n
<1>9. PICK m \in Nat : m = n - 1
  BY <1>3
<1>10. /\ m <= Len(stack) /\ m <= Len(stack')
       /\ \A i \in m + 1 .. Len(stack') : FALSE
       /\ \A i \in m + 1 .. Len(stack') - 1 : FALSE
       /\ \A j \in m + 1 .. Len(stack) : j = Len(stack)
  BY <1>1, <1>3, <1>9 DEF n
<1>11. status' # "Disabled" <=> Open(stack', Len(stack'))
  BY <1>3, <1>6
<1>12. residence' = "Inside" =>
          \/ stack' # <<>> /\ Is(stack'[Len(stack')], "Call", "Gen")
          \/ /\ residence = "Inside"
             /\ \A j \in m + 1 .. Len(stack) : stack[j].kind # "Call"
  BY <1>3, <1>8, <1>10 DEF Running
<1>13. \A i \in 1 .. m : stack'[i] = stack[i]
  BY <1>3, <1>9
<1> QED BY <1>4, <1>7, <1>10, <1>11, <1>12, <1>13, Change

-----------------------------------------------------------------------------
(* What IInv says of the frame that runs. *)
LEMMA TopFits ==
  ASSUME IInv, stack # <<>>
  PROVE  /\ TypeOK /\ Running \in FrameType
         /\ Fits(Running, Caller, OpenCaller, Len(stack) = 1)
         /\ status # "Disabled" <=> Inner(Running, OpenCaller)
<1>1. TypeOK /\ stack \in Seq(FrameType)
  BY DEF IInv, TypeOK
<1>2. Len(stack) \in Nat \ {0} /\ Running \in FrameType
  BY <1>1, StackOps
<1>3. Len(stack) \in DOMAIN stack
  BY <1>1, <1>2
<1>4. Fits(Running, Caller, OpenCaller, Len(stack) = 1)
  BY <1>3 DEF IInv, FitsAt, Running, Caller, OpenCaller
<1>5. Open(stack, Len(stack)) <=> Inner(Running, OpenCaller)
  BY <1>2, OpenStep DEF Inner, Running, OpenCaller
<1> QED BY <1>1, <1>2, <1>4, <1>5 DEF IInv

(* A guest call goes from one place to another. *)
LEMMA CallMoves ==
  ASSUME IInv, stack # <<>>, Running.kind = "Call", Running.at \in {"Loop", "Gen", "Leave"},
         NEW w \in {"Loop", "Gen", "Leave", "Disable"}, w = "Disable" => ~Running.prev,
         Becomes([Running EXCEPT !.at = w]),
         residence' \in {"Inside", "Outside"}, residence' = "Inside" => w = "Gen",
         UNCHANGED <<status, pending, guarded, claimed, uses>>
  PROVE  IInv'
<1> DEFINE f == [Running EXCEPT !.at = w]
<1>1. /\ TypeOK /\ Running \in FrameType /\ Fits(Running, Caller, OpenCaller, Len(stack) = 1)
      /\ status # "Disabled" <=> Inner(Running, OpenCaller)
  BY TopFits
<1>2. f \in FrameType /\ f.kind = "Call" /\ f.at = w /\ f.prev = Running.prev
  BY <1>1 DEF FrameType, Frames
<1>3. stack' \in Seq(FrameType) => TypeOK'
  BY <1>1 DEF TypeOK
<1> HIDE DEF f
<1>4. Fits(f, Caller, OpenCaller, Len(stack) = 1)
  BY <1>1, <1>2 DEF Fits, Is, Opens
<1>5. status' # "Disabled" <=> Inner(f, OpenCaller)
  BY <1>1, <1>2 DEF Inner, Opens
<1>6. Tells({f})
  BY DEF Tells, NothingPending, Announces, Is
<1>7. Running.kind # "Signal" /\ (residence' = "Inside" => Is(f, "Call", "Gen"))
  BY <1>2 DEF Is
<1>8. Becomes(f)
  BY DEF f
<1> QED BY <1>2, <1>3, <1>4, <1>5, <1>6, <1>7, <1>8, TopBecomes

(* The dispatcher enters generated code, leaves it, and is told to stop. *)
LEMMA CallStepsKeep ==
  ASSUME IInv, RunGeneratedCode \/ ExitGeneratedCode \/ Stop
  PROVE  IInv'
<1>1. stack # <<>> /\ residence \in {"Inside", "Outside"}
  BY TopFits DEF RunGeneratedCode, ExitGeneratedCode, Stop, At, TypeOK
<1>2. CASE RunGeneratedCode
  BY <1>1, <1>2, CallMoves DEF RunGeneratedCode, At, Goto, bounds
<1>3. CASE ExitGeneratedCode
  BY <1>1, <1>3, CallMoves DEF ExitGeneratedCode, At, Goto, bounds
<1>4. CASE Stop
  <2>1. residence = "Outside"
    BY <1>1, <1>4, IsOutside DEF Stop, At, Is
  <2> QED BY <1>1, <1>4, <2>1, CallMoves DEF Stop, At, Goto, bounds
<1> QED BY <1>2, <1>3, <1>4

(* A host signal goes from one place to another. *)
LEMMA SignalMoves ==
  ASSUME IInv, stack # <<>>, Running.kind = "Signal", Running.at # "Test",
         NEW w \in {"Mark", "Return", "Disable"},
         w = "Disable" => ~Running.prev, w = "Return" => Running.prev,
         Becomes([Running EXCEPT !.at = w]),
         status' \in {"Disabled", "Enabled", "Present"},
         status' # "Disabled", w = "Mark" \/ status' = "Present",
         pending' \in [SigNo -> Nat],
         UNCHANGED <<residence, guarded, claimed, uses>>
  PROVE  IInv'
<1> DEFINE f == [Running EXCEPT !.at = w]
<1>1. TypeOK /\ Running \in FrameType /\ Fits(Running, Caller, OpenCaller, Len(stack) = 1)
  BY TopFits
<1>2. f \in FrameType /\ f.kind = "Signal" /\ f.at = w /\ f.prev = Running.prev
  BY <1>1 DEF FrameType, Frames
<1>3. stack' \in Seq(FrameType) => TypeOK'
  BY <1>1 DEF TypeOK
<1>8. Becomes(f)
  OBVIOUS
<1> HIDE DEF f
<1>4. Fits(f, Caller, OpenCaller, Len(stack) = 1)
  BY <1>1, <1>2 DEF Fits, Is, Opens
<1>5. status' # "Disabled" <=> Inner(f, OpenCaller)
  BY <1>2 DEF Inner, Opens
<1>6. Tells({f})
  BY <1>2 DEF Tells, Announces, Is
<1> QED BY <1>2, <1>3, <1>4, <1>5, <1>6, <1>8, TopBecomes

(* HandleHostSignal queues the signal and announces it. *)
LEMMA SignalStepsKeep ==
  ASSUME IInv, SignalEnqueue \/ SignalMark
  PROVE  IInv'
<1>1. /\ stack # <<>> /\ Running \in FrameType /\ TypeOK
      /\ Fits(Running, Caller, OpenCaller, Len(stack) = 1)
      /\ status # "Disabled" <=> Inner(Running, OpenCaller)
  BY TopFits DEF SignalEnqueue, SignalMark, At
<1>2. CASE SignalEnqueue
  <2>1. /\ Running.kind = "Signal" /\ Running.at = "Enqueue"
        /\ Becomes([Running EXCEPT !.at = "Mark"])
        /\ UNCHANGED <<status, residence, guarded, claimed, uses>>
    BY <1>1, <1>2 DEF SignalEnqueue, At, Goto, bounds
  <2>2. status # "Disabled"
    BY <1>1, <2>1 DEF Inner, Opens
  <2>3. pending' \in [SigNo -> Nat]
    <3>1. pending \in [SigNo -> Nat]
      BY <1>1 DEF TypeOK
    <3>2. PICK x : pending' = [pending EXCEPT ![x] = @ + 1]
      BY <1>2 DEF SignalEnqueue
    <3>3. pending' = [y \in SigNo |-> IF y = x THEN pending[y] + 1 ELSE pending[y]]
      BY <3>1, <3>2
    <3>4. \A y \in SigNo : pending[y] \in Nat /\ pending[y] + 1 \in Nat
      BY <3>1
    <3> QED BY <3>3, <3>4
  <2> QED BY <1>1, <2>1, <2>2, <2>3, SignalMoves DEF TypeOK
<1>3. CASE SignalMark
  <2>1. /\ Running.kind = "Signal" /\ Running.at = "Mark" /\ status' = "Present"
        /\ Becomes([Running EXCEPT !.at = IF Running.prev THEN "Return" ELSE "Disable"])
        /\ UNCHANGED <<residence, pending, guarded, claimed, uses>>
    BY <1>1, <1>3 DEF SignalMark, At, Goto, bounds
  <2>2. pending' \in [SigNo -> Nat]
    BY <1>1, <2>1 DEF TypeOK
  <2>3. CASE Running.prev
    BY <1>1, <2>1, <2>2, <2>3, SignalMoves
  <2>4. CASE ~Running.prev
    BY <1>1, <2>1, <2>2, <2>4, SignalMoves
  <2> QED BY <2>3, <2>4
<1> QED BY <1>2, <1>3

(* A stack that is cut at a frame, which goes to another place. *)
LEMMA CutIsAStack ==
  ASSUME stack \in Seq(FrameType), NEW i \in 1 .. Len(stack),
         stack[i].kind = "Call", stack[i].at \in {"Loop", "Gen"},
         stack' = Append(SubSeq(stack, 1, i - 1), [stack[i] EXCEPT !.at = "Loop"])
  PROVE  /\ stack' \in Seq(FrameType) /\ Len(stack') = i
         /\ stack'[i] = [stack[i] EXCEPT !.at = "Loop"]
         /\ \A k \in 1 .. i - 1 : stack'[k] = stack[k]
<1>1. i \in Nat \ {0} /\ stack[i] \in FrameType /\ \A k \in 1 .. i - 1 : stack[k] \in FrameType
  OBVIOUS
<1>2. [stack[i] EXCEPT !.at = "Loop"] \in FrameType
  BY <1>1 DEF FrameType, Frames
<1> DEFINE s == SubSeq(stack, 1, i - 1)
<1>3. s \in Seq(FrameType) /\ Len(s) = i - 1 /\ \A k \in 1 .. i - 1 : s[k] = stack[k]
  BY <1>1, SubSeqProperties
<1> HIDE DEF s
<1>4. stack' = Append(s, [stack[i] EXCEPT !.at = "Loop"])
  BY DEF s
<1> QED BY <1>1, <1>2, <1>3, <1>4

(* TestAndEnablePendingSignals: prev is what is enabled below. *)
LEMMA TestsKeep ==
  ASSUME IInv, SignalTest \/ CallEnter
  PROVE  IInv'
<1> DEFINE f(w) == [[Running EXCEPT !.at = w] EXCEPT !.prev = (status # "Disabled")]
<1>1. /\ stack # <<>> /\ Running \in FrameType /\ TypeOK
      /\ Fits(Running, Caller, OpenCaller, Len(stack) = 1)
      /\ status # "Disabled" <=> Inner(Running, OpenCaller)
  BY TopFits DEF SignalTest, CallEnter, At
<1>2. PICK w \in {"Enqueue", "Loop"} :
         /\ \/ Running.kind = "Signal" /\ Running.at = "Test" /\ w = "Enqueue"
            \/ Running.kind = "Call" /\ Running.at = "Enter" /\ w = "Loop"
         /\ Becomes(f(w))
         /\ status' = IF status = "Disabled" THEN "Enabled" ELSE status
         /\ UNCHANGED <<residence, pending, guarded, claimed, uses>>
  BY <1>1 DEF SignalTest, CallEnter, TestAndEnable, At, Goto, bounds
<1>3. /\ f(w) \in FrameType /\ f(w).kind = Running.kind /\ f(w).at = w
      /\ f(w).prev <=> status # "Disabled"
  BY <1>1, <1>2 DEF FrameType, Frames
<1>4. stack' \in Seq(FrameType) => TypeOK'
  BY <1>1, <1>2 DEF TypeOK
<1>5. Becomes(f(w))
  BY <1>2
<1> HIDE DEF f
<1>6. status # "Disabled" <=> OpenCaller
  BY <1>1, <1>2 DEF Inner, Opens, Passes, Is
<1>7. Fits(f(w), Caller, OpenCaller, Len(stack) = 1)
  BY <1>1, <1>2, <1>3, <1>6 DEF Fits, Is, Opens
<1>8. status' # "Disabled" <=> Inner(f(w), OpenCaller)
  BY <1>2, <1>3 DEF Inner, Opens
<1>9. Tells({f(w)})
  BY <1>2 DEF Tells, NothingPending, Announces, Is
<1>10. Running.kind # "Signal" => residence' = "Outside"
  BY <1>1, <1>2, IsOutside DEF Is
<1> QED BY <1>1, <1>2, <1>3, <1>4, <1>5, <1>7, <1>8, <1>9, <1>10, TopBecomes

(* What interrupts the running frame is called by it. *)
LEMMA AppendCalls ==
  ASSUME stack \in Seq(FrameType), stack # <<>>, NEW g \in FrameType,
         stack' = Append(stack, g)
  PROVE  Calls(Running, g)
<1> DEFINE n == Len(stack)
<1>1. n \in Nat \ {0} /\ Running \in FrameType
  BY StackOps
<1>2. /\ Callers \in Seq(FrameType) /\ Len(Callers) = n - 1
      /\ \A i \in 1 .. n - 1 : Callers[i] = stack[i]
  <2>1. \A i \in 1 .. n - 1 : stack[i] \in FrameType
    BY <1>1
  <2> HIDE DEF n
  <2>2. /\ SubSeq(stack, 1, n - 1) \in Seq(FrameType)
        /\ Len(SubSeq(stack, 1, n - 1)) = n - 1
        /\ \A i \in 1 .. n - 1 : SubSeq(stack, 1, n - 1)[i] = stack[i]
    BY <1>1, <2>1, SubSeqProperties
  <2> QED BY <2>2 DEF Callers, n
<1> HIDE DEF n
<1> DEFINE s == Callers \o <<Running, g>>
<1>3. <<Running, g>> \in Seq(FrameType) /\ Len(<<Running, g>>) = 2
  BY <1>1
<1>4. /\ s \in Seq(FrameType) /\ Len(s) = n + 1
      /\ \A i \in 1 .. n + 1 : s[i] = IF i <= n - 1 THEN Callers[i]
                                       ELSE <<Running, g>>[i - (n - 1)]
  BY <1>1, <1>2, <1>3, ConcatProperties
<1>5. /\ stack' \in Seq(FrameType) /\ Len(stack') = n + 1
      /\ \A i \in 1 .. n : stack'[i] = stack[i]
      /\ stack'[n + 1] = g
  BY <1>1 DEF n
<1>6. \A i \in 1 .. n + 1 : s[i] = stack'[i]
  BY <1>1, <1>2, <1>4, <1>5 DEF Running, n
<1> HIDE DEF s
<1>7. s = stack'
  BY <1>4, <1>5, <1>6, SeqEqual
<1> QED BY <1>7 DEF Calls, s

(* A host signal interrupts the frame that runs. *)
LEMMA HostSignalKeeps ==
  ASSUME IInv, NEW s \in SigNo, HostSignal(s)
  PROVE  IInv'
<1> DEFINE g == Frame("Signal", "Test", s)
           n == Len(stack)
<1>1. /\ stack # <<>> /\ Running \in FrameType /\ TypeOK
      /\ Fits(Running, Caller, OpenCaller, Len(stack) = 1)
      /\ status # "Disabled" <=> Inner(Running, OpenCaller)
  BY TopFits DEF HostSignal
<1>2. /\ stack' = Append(stack, g)
      /\ UNCHANGED <<status, residence, pending, guarded, claimed, uses>>
  BY DEF HostSignal
<1>3. g \in FrameType /\ g.kind = "Signal" /\ g.at = "Test"
  BY DEF Frame, FrameType, Frames
<1> HIDE DEF g
<1>4. stack' \in Seq(FrameType) => TypeOK'
  BY <1>1, <1>2 DEF TypeOK
<1>5. Fits(g, Running, Inner(Running, OpenCaller), FALSE)
  BY <1>3 DEF Fits, Is, Opens
<1>6. Inner(g, Inner(Running, OpenCaller)) <=> Inner(Running, OpenCaller)
  BY <1>3 DEF Inner, Opens, Passes, Is
<1>7. Announces(Running) => Tells({Running, g})
  BY DEF Tells
<1>8. Tells({Running, g})
  BY <1>2, <1>7 DEF Tells, NothingPending
<1>9. CASE ~Inner(Running, OpenCaller)
  <2>1. ~(Running.kind = "Signal" /\ OpenCaller) /\ ~Is(Running, "Impl", "Dequeue")
    BY <1>1, <1>9 DEF Inner, Opens, Passes, Is
  <2>2. residence = "Outside"
    BY <1>1, <1>9, <2>1, IsOutside DEF Inner, Opens, Is
  <2>3. Calls(Running, g)
    BY <1>1, <1>2, <1>3, AppendCalls DEF TypeOK
  <2> QED BY <1>1, <1>2, <1>3, <1>4, <1>5, <1>6, <1>8, <2>1, <2>2, <2>3, TopCalls
<1>10. CASE Inner(Running, OpenCaller)
  <2>1. stack \in Seq(FrameType) /\ n \in Nat \ {0}
    BY <1>1 DEF TypeOK
  <2>2. /\ stack' \in Seq(FrameType) /\ Len(stack') = n + 1 /\ stack'[n + 1] = g
        /\ \A i \in 1 .. n : stack'[i] = stack[i]
    BY <1>2, <1>3, <2>1
  <2> HIDE DEF n
  <2>3. Open(stack, n) /\ n \in 1 .. n /\ n \in 0 .. n
    BY <1>1, <1>10, <2>1, OpenStep DEF Inner, Running, OpenCaller, n
  <2>4. Open(stack', n)
    BY <2>1, <2>2, <2>3, OpenSame
  <2>5. n + 1 \in Nat \ {0} /\ n + 1 - 1 = n /\ n + 1 # 1
    BY <2>1
  <2>6. Open(stack', n + 1)
    <3>1. PICK k \in Nat \ {0} : k = n + 1
      BY <2>5
    <3>2. Open(stack', k) <=> Opens(stack'[k]) \/ (Passes(stack'[k]) /\ Open(stack', k - 1))
      BY OpenStep
    <3>3. stack'[k] = g /\ k - 1 = n
      BY <2>1, <2>2, <3>1
    <3>4. Open(stack', k)
      BY <1>3, <2>4, <3>2, <3>3 DEF Passes, Is
    <3> QED BY <3>1, <3>4
  <2>7. FitsAt(stack', n + 1)
    BY <1>3, <2>2, <2>5 DEF FitsAt, Fits, Is, Opens
  <2>8. /\ n <= Len(stack) /\ n <= Len(stack')
        /\ \A i \in n + 1 .. Len(stack') : i = n + 1 /\ i - 1 = n
        /\ \A i \in n + 1 .. Len(stack') - 1 : FALSE
        /\ \A i \in n + 1 .. Len(stack) : FALSE
    BY <2>1, <2>2 DEF n
  <2>9. \A i \in n + 1 .. Len(stack') : FitsAt(stack', i)
    BY <2>7, <2>8
  <2>10. \A j \in n + 1 .. Len(stack') : stack'[j].kind = "Signal" /\ Open(stack', j - 1)
    BY <1>3, <2>2, <2>4, <2>5, <2>8
  <2>11. NoLostSignal'
    <3>1. \A h \in {Running, g} : \E i \in 1 .. Len(stack') : stack'[i] = h
      BY <2>1, <2>2 DEF Running, n
    <3> QED BY <1>1, <1>8, <2>1, <2>2, <3>1, NoneLost DEF n
  <2>12. status' # "Disabled" <=> Open(stack', Len(stack'))
    BY <1>1, <1>2, <1>10, <2>2, <2>6
  <2> QED BY <1>2, <1>4, <2>1, <2>2, <2>8, <2>9, <2>10, <2>11, <2>12, Change
<1> QED BY <1>9, <1>10

(* Host code is left by a jump: the frames above a guest call are dropped. *)
LEMMA Unwinds ==
  ASSUME IInv, NEW i \in 1 .. Len(stack), stack' \in Seq(FrameType), Len(stack') = i,
         \A k \in 1 .. i - 1 : stack'[k] = stack[k],
         stack'[i] = [stack[i] EXCEPT !.at = "Loop"],
         stack[i].kind = "Call", stack[i].at \in {"Loop", "Gen"},
         status # "Disabled", residence' = "Outside", NoLostSignal',
         UNCHANGED <<status, pending, guarded, claimed, uses>>
  PROVE  IInv'
<1> DEFINE f == [stack[i] EXCEPT !.at = "Loop"]
<1>1. stack \in Seq(FrameType) /\ TypeOK /\ TypeOK'
  BY DEF IInv, TypeOK
<1>2. Len(stack) \in Nat /\ i \in Nat /\ i - 1 \in Nat /\ stack[i] \in FrameType
  BY <1>1
<1>3. f.kind = "Call" /\ f.at = "Loop" /\ f.prev = stack[i].prev
  BY <1>2 DEF FrameType, Frames
<1> HIDE DEF f
<1>4. i \in DOMAIN stack
  BY <1>1, <1>2
<1>5. FitsAt(stack, i) /\ i # 1
  BY <1>4 DEF IInv, FitsAt, Fits
<1>6. i - 1 \in 0 .. i - 1 /\ i - 1 \in 1 .. i - 1 /\ i \in Nat \ {0}
  BY <1>2, <1>5
<1>7. Open(stack', i - 1) <=> Open(stack, i - 1)
  BY <1>2, <1>6, OpenSame
<1>8. stack'[i] = f /\ stack'[i - 1] = stack[i - 1]
  BY <1>6 DEF f
<1>9. FitsAt(stack', i)
  BY <1>3, <1>5, <1>7, <1>8 DEF FitsAt, Fits, Is, Opens
<1>10. Open(stack', i)
  BY <1>3, <1>6, <1>8, OpenStep DEF Opens
<1>11. PICK m \in Nat : m = i - 1
  BY <1>2
<1>12. /\ m <= Len(stack) /\ m <= Len(stack')
       /\ \A k \in m + 1 .. Len(stack') : k = i
       /\ \A k \in m + 1 .. Len(stack') - 1 : FALSE
       /\ i \in m + 1 .. Len(stack)
  BY <1>2, <1>11
<1>13. \A k \in m + 1 .. Len(stack') : FitsAt(stack', k)
  BY <1>9, <1>12
<1>14. \E j \in m + 1 .. Len(stack) : ~(stack[j].kind = "Signal" /\ Open(stack, j - 1))
  BY <1>12
<1>15. \A k \in 1 .. m : stack'[k] = stack[k]
  BY <1>11
<1>16. status' # "Disabled" <=> Open(stack', Len(stack'))
  BY <1>10
<1> QED BY <1>1, <1>12, <1>13, <1>14, <1>15, <1>16, Change

(* Nothing changes for the signals that wait. *)
LEMMA TellsSame ==
  ASSUME NEW new, UNCHANGED <<pending, uses>>, ~Announces(Running),
         status = "Present" => status' = "Present"
  PROVE  Tells(new)
  BY DEF Tells, NothingPending

(* Signals are enabled in a caller that enables them. *)
LEMMA CallerOpens ==
  ASSUME IInv, stack # <<>>, Running.kind # "Host", Opens(Caller)
  PROVE  OpenCaller
<1>1. Len(stack) \in Nat \ {0} /\ Len(stack) # 1
  BY TopFits DEF Fits, TypeOK
<1>2. Len(stack) - 1 \in Nat \ {0}
  BY <1>1
<1> QED BY <1>2, OpenStep DEF OpenCaller, Caller

(* HandleHostSignal leaves the signal pending, and perhaps generated code. *)
LEMMA SignalReturnKeeps ==
  ASSUME IInv, SignalReturn
  PROVE  IInv'
<1>1. /\ stack # <<>> /\ Running \in FrameType /\ TypeOK
      /\ Fits(Running, Caller, OpenCaller, Len(stack) = 1)
      /\ status # "Disabled" <=> Inner(Running, OpenCaller)
  BY TopFits DEF SignalReturn, At
<1>2. /\ Running.kind = "Signal" /\ Running.at = "Return"
      /\ UNCHANGED <<status, pending, guarded, claimed, uses>>
  BY DEF SignalReturn, At, bounds
<1>3. OpenCaller /\ status # "Disabled" /\ Len(stack) # 1
  BY <1>1, <1>2 DEF Fits, Is, Opens, Inner
<1>4. Tells({})
  BY <1>2, TellsSame DEF Announces, Is
<1>5. CASE Returns /\ UNCHANGED residence
  <2>1. stack' \in Seq(FrameType) => TypeOK'
    BY <1>1, <1>2, <1>5 DEF TypeOK
  <2> QED BY <1>1, <1>2, <1>3, <1>4, <1>5, <2>1, TopReturns
<1>6. CASE /\ Caller.kind = "Call" /\ Caller.at = "Gen"
           /\ stack' = Append(SubSeq(stack, 1, Len(stack) - 2), [Caller EXCEPT !.at = "Loop"])
           /\ residence' = "Outside"
  <2>1. PICK i \in Nat : i = Len(stack) - 1 /\ i \in 1 .. Len(stack) /\ i # Len(stack)
    <3>1. Len(stack) \in Nat \ {0}
      BY <1>1 DEF TypeOK
    <3>2. /\ Len(stack) - 1 \in Nat /\ Len(stack) - 1 \in 1 .. Len(stack)
          /\ Len(stack) - 1 # Len(stack)
      BY <1>3, <3>1
    <3> QED BY <3>2
  <2>2. /\ stack' = Append(SubSeq(stack, 1, i - 1), [stack[i] EXCEPT !.at = "Loop"])
        /\ stack[i].kind = "Call" /\ stack[i].at = "Gen"
    BY <1>1, <1>6, <2>1 DEF Caller, TypeOK
  <2>3. /\ stack' \in Seq(FrameType) /\ Len(stack') = i
        /\ stack'[i] = [stack[i] EXCEPT !.at = "Loop"]
        /\ \A k \in 1 .. i - 1 : stack'[k] = stack[k]
    BY <1>1, <2>1, <2>2, CutIsAStack DEF TypeOK
  <2>4. NoLostSignal'
    <3>1. NoLostSignal /\ DOMAIN stack = 1 .. Len(stack) /\ DOMAIN stack' = 1 .. i
      BY <2>3 DEF IInv, TypeOK
    <3> SUFFICES ASSUME ~NothingPending, "longjmp" \notin uses, status # "Present"
                 PROVE  \E k \in 1 .. i : Announces(stack'[k])
      BY <1>2, <3>1 DEF NoLostSignal, NothingPending, Announces, Is
    <3>2. PICK k \in 1 .. Len(stack) : Announces(stack[k])
      BY <1>1, <3>1 DEF NoLostSignal, Announces, Is
    <3>3. k # Len(stack) /\ k # i
      BY <1>2, <2>2, <3>2 DEF Announces, Is, Running
    <3>4. k \in 1 .. i - 1 /\ k \in 1 .. i
      BY <2>1, <3>3
    <3> QED BY <2>3, <3>2, <3>4
  <2> QED BY <1>2, <1>3, <1>6, <2>1, <2>2, <2>3, <2>4, Unwinds
<1> QED BY <1>5, <1>6 DEF SignalReturn

(* A longjmp of the guest ends calls of host code. *)
LEMMA CallLongjmpKeeps ==
  ASSUME IInv, CallLongjmp
  PROVE  IInv'
<1>1. /\ stack # <<>> /\ TypeOK
      /\ status # "Disabled" <=> Inner(Running, OpenCaller)
  BY TopFits DEF CallLongjmp, At
<1>2. /\ Running.kind = "Call" /\ Running.at = "Leave" /\ "longjmp" \in uses
      /\ UNCHANGED <<status, residence, pending, guarded, claimed, uses>>
  BY DEF CallLongjmp, At, bounds
<1>3. status # "Disabled" /\ residence = "Outside"
  BY <1>1, <1>2, IsOutside DEF Inner, Opens, Is
<1>4. PICK i \in 1 .. Len(stack) - 1 :
         /\ stack[i].kind = "Call" /\ stack[i].at \in {"Loop", "Gen"}
         /\ stack' = Append(SubSeq(stack, 1, i - 1), [stack[i] EXCEPT !.at = "Loop"])
  BY DEF CallLongjmp
<1>5. i \in 1 .. Len(stack)
  BY <1>1 DEF TypeOK
<1>6. /\ stack' \in Seq(FrameType) /\ Len(stack') = i
      /\ stack'[i] = [stack[i] EXCEPT !.at = "Loop"]
      /\ \A k \in 1 .. i - 1 : stack'[k] = stack[k]
  <2>1. stack \in Seq(FrameType)
    BY <1>1 DEF TypeOK
  <2> QED BY <1>4, <1>5, <2>1, CutIsAStack
<1>7. NoLostSignal'
  BY <1>2 DEF NoLostSignal
<1> QED BY <1>2, <1>3, <1>4, <1>5, <1>6, <1>7, Unwinds

(* ProcessPendingSignalsImpl is called. *)
LEMMA CallsImpl ==
  ASSUME IInv, stack # <<>>, Opens(Running), Running.kind \in {"Signal", "Call", "Syscall"},
         ~Is(Running, "Call", "Gen"), ~(Running.kind = "Signal" /\ OpenCaller),
         status = "Present", Calls(Running, Impl),
         UNCHANGED <<status, residence, pending, guarded, claimed, uses>>
  PROVE  IInv'
<1>1. TypeOK /\ Running \in FrameType /\ Fits(Running, Caller, OpenCaller, Len(stack) = 1)
  BY TopFits
<1>2. stack' \in Seq(FrameType) => TypeOK'
  BY <1>1 DEF TypeOK
<1>3. Impl \in FrameType /\ Impl.kind = "Impl" /\ Impl.at = "Clear"
  BY DEF Impl, Frame, FrameType, Frames
<1>4. residence' = "Outside"
  BY IsOutside
<1>5. Inner(Running, OpenCaller) /\ ~Is(Running, "Impl", "Dequeue")
  BY DEF Inner, Is
<1>6. Fits(Impl, Running, Inner(Running, OpenCaller), FALSE)
  BY <1>3, <1>5 DEF Fits, Is, Opens
<1>7. status' # "Disabled" <=> Inner(Impl, Inner(Running, OpenCaller))
  BY <1>3 DEF Inner, Opens
<1>8. Tells({Running, Impl})
  BY DEF Tells
<1> QED BY <1>1, <1>2, <1>3, <1>4, <1>5, <1>6, <1>7, <1>8, TopCalls

(* ProcessAndDisablePendingSignals puts back what its caller has found. *)
LEMMA ProcessAndDisableKeeps ==
  ASSUME IInv, ProcessAndDisable
  PROVE  IInv'
<1>1. /\ stack # <<>> /\ Running \in FrameType /\ TypeOK
      /\ Fits(Running, Caller, OpenCaller, Len(stack) = 1)
      /\ status # "Disabled" <=> Inner(Running, OpenCaller)
  BY TopFits DEF ProcessAndDisable, At
<1>2. /\ Running.kind \in {"Signal", "Call", "Syscall"} /\ Running.at = "Disable"
      /\ UNCHANGED <<residence, pending, guarded, claimed, uses>>
  BY DEF ProcessAndDisable, At, bounds
<1>3. /\ Opens(Running) /\ status # "Disabled" /\ ~Announces(Running)
      /\ ~Is(Running, "Call", "Gen")
  BY <1>1, <1>2 DEF Opens, Inner, Is, Announces
<1>4. Running.kind \in {"Signal", "Call"} => ~OpenCaller
  BY <1>1, <1>2, <1>3 DEF Fits
<1>5. residence = "Outside"
  BY <1>1, <1>3, <1>4, IsOutside
<1>6. CASE status = "Present"
  BY <1>1, <1>2, <1>3, <1>4, <1>6, CallsImpl DEF ProcessAndDisable
<1>7. CASE status # "Present" /\ Running.kind # "Syscall"
  <2>1. status' = "Disabled" /\ Returns
    BY <1>7 DEF ProcessAndDisable, Disabled
  <2>2. stack' \in Seq(FrameType) => TypeOK'
    BY <1>1, <1>2, <2>1 DEF TypeOK
  <2>3. Tells({})
    BY <1>2, <1>3, <1>7, TellsSame
  <2> QED BY <1>1, <1>2, <1>4, <1>5, <1>7, <2>1, <2>2, <2>3, TopReturns
<1>8. CASE status # "Present" /\ Running.kind = "Syscall"
  <2> DEFINE f == [[Running EXCEPT !.at = "Run"] EXCEPT !.prev = (status = "Enabled")]
  <2>1. status' = "Disabled" /\ Becomes(f)
    BY <1>8 DEF ProcessAndDisable, Disabled, Goto
  <2>2. status = "Enabled"
    BY <1>1, <1>3, <1>8 DEF TypeOK
  <2>3. f \in FrameType /\ f.kind = "Syscall" /\ f.at = "Run" /\ f.prev
    BY <1>1, <1>8, <2>2 DEF FrameType, Frames
  <2> HIDE DEF f
  <2>4. stack' \in Seq(FrameType) => TypeOK'
    BY <1>1, <1>2, <2>1 DEF TypeOK
  <2>5. Fits(f, Caller, OpenCaller, Len(stack) = 1)
    BY <1>1, <1>8, <2>3 DEF Fits, Is, Opens
  <2>6. ~Inner(f, OpenCaller)
    BY <2>3 DEF Inner, Opens, Passes, Is
  <2>7. Tells({f})
    BY <1>2, <1>3, <1>8, TellsSame
  <2> QED BY <1>1, <1>2, <1>5, <1>8, <2>1, <2>3, <2>4, <2>5, <2>6, <2>7, TopBecomes
<1> QED BY <1>6, <1>7, <1>8

(* ProcessPendingSignalsImpl takes the signals from the queue. *)
LEMMA ImplKeeps ==
  ASSUME IInv, ImplClear \/ ImplDequeue \/ ImplFind \/ ImplFree
  PROVE  IInv'
<1>1. /\ stack # <<>> /\ Running \in FrameType /\ TypeOK
      /\ Fits(Running, Caller, OpenCaller, Len(stack) = 1)
      /\ status # "Disabled" <=> Inner(Running, OpenCaller)
  BY TopFits DEF ImplClear, ImplDequeue, ImplFind, ImplFree, At
<1>2. /\ Running.kind = "Impl"
      /\ UNCHANGED <<residence, guarded, claimed, uses>>
  BY DEF ImplClear, ImplDequeue, ImplFind, ImplFree, At, bounds
<1>3. OpenCaller /\ status # "Disabled" /\ residence' = "Outside"
  BY <1>1, <1>2, IsOutside DEF Fits, Inner, Opens, Is
<1>4. ASSUME NEW w \in {"Dequeue", "Find"}, NEW x \in SigNo \cup {NoSig},
             Becomes([[Running EXCEPT !.at = w] EXCEPT !.sig = x]),
             status' \in {"Enabled", "Present"}, pending' \in [SigNo -> Nat]
      PROVE  IInv'
  <2> DEFINE f == [[Running EXCEPT !.at = w] EXCEPT !.sig = x]
  <2>1. f \in FrameType /\ f.kind = "Impl" /\ Becomes(f)
    BY <1>1, <1>2, <1>4 DEF FrameType, Frames
  <2> HIDE DEF f
  <2>2. stack' \in Seq(FrameType) => TypeOK'
    BY <1>1, <1>2, <1>4 DEF TypeOK
  <2>3. Fits(f, Caller, OpenCaller, Len(stack) = 1)
    BY <1>1, <1>2, <1>3, <2>1 DEF Fits, Is, Opens
  <2>4. status' # "Disabled" <=> Inner(f, OpenCaller)
    BY <1>4, <2>1 DEF Inner, Opens
  <2>5. Tells({f})
    BY <2>1 DEF Tells, Announces
  <2> QED BY <1>1, <1>2, <1>3, <2>1, <2>2, <2>3, <2>4, <2>5, TopBecomes
<1>5. ASSUME ImplClear PROVE IInv'
  <2>1. /\ Becomes([[Running EXCEPT !.at = "Dequeue"] EXCEPT !.sig = Running.sig])
        /\ Running.sig \in SigNo \cup {NoSig}
    <3>1. /\ [[Running EXCEPT !.at = "Dequeue"] EXCEPT !.sig = Running.sig] =
                [Running EXCEPT !.at = "Dequeue"]
          /\ Running.sig \in SigNo \cup {NoSig}
      BY <1>1, <1>2 DEF FrameType, Frames
    <3> QED BY <1>5, <3>1 DEF ImplClear, Goto
  <2>2. status' = "Enabled" /\ pending' = pending /\ pending \in [SigNo -> Nat]
    BY <1>1, <1>5 DEF ImplClear, TypeOK
  <2> QED BY <1>4, <2>1, <2>2
<1>6. ASSUME ImplDequeue PROVE IInv'
  <2>1. status' = status /\ status \in {"Enabled", "Present"} /\ pending \in [SigNo -> Nat]
    BY <1>1, <1>3, <1>6 DEF ImplDequeue, TypeOK
  <2>2. CASE NothingPending /\ Returns /\ UNCHANGED pending
    <3>1. stack' \in Seq(FrameType) => TypeOK'
      BY <1>1, <1>2, <2>1, <2>2 DEF TypeOK
    <3>2. Tells({})
      BY <2>2 DEF Tells, NothingPending
    <3> QED BY <1>1, <1>2, <1>3, <2>1, <2>2, <3>1, <3>2, TopReturns
  <2>3. ASSUME NEW s \in SigNo, pending[s] > 0, pending' = [pending EXCEPT ![s] = @ - 1],
               Becomes([Goto("Find") EXCEPT !.sig = s])
        PROVE  IInv'
    <3>1. pending' \in [SigNo -> Nat]
      BY <2>1, <2>3
    <3> QED BY <1>4, <2>1, <2>3, <3>1 DEF Goto
  <2> QED BY <1>6, <2>2, <2>3 DEF ImplDequeue
<1>7. ASSUME ImplFind PROVE IInv'
  <2>1. UNCHANGED <<status, pending>>
    BY <1>7 DEF ImplFind
  <2>2. CASE Running.sig \in claimed
    <3> DEFINE f == [Running EXCEPT !.at = "Handling"]
               g == Frame("Call", "Enter", Running.sig)
    <3>1. /\ f \in FrameType /\ f.kind = "Impl" /\ f.at = "Handling"
          /\ g \in FrameType /\ g.kind = "Call" /\ g.at = "Enter"
      BY <1>1, <1>2 DEF Frame, FrameType, Frames
    <3>2. Calls(f, g)
      BY <1>7, <2>2 DEF ImplFind, Goto
    <3> HIDE DEF f, g
    <3>3. stack' \in Seq(FrameType) => TypeOK'
      BY <1>1, <1>2, <2>1 DEF TypeOK
    <3>4. Fits(f, Caller, OpenCaller, Len(stack) = 1) /\ Inner(f, OpenCaller)
      BY <1>1, <1>2, <1>3, <3>1 DEF Fits, Is, Opens, Inner
    <3>5. Fits(g, f, Inner(f, OpenCaller), FALSE) /\ Inner(g, Inner(f, OpenCaller))
      BY <3>1, <3>4 DEF Fits, Is, Opens, Inner, Passes
    <3>6. Tells({f, g})
      BY <3>1 DEF Tells, Announces
    <3>7. ~(Running.kind = "Signal" /\ OpenCaller) /\ ~Is(f, "Impl", "Dequeue")
      BY <1>2, <3>1 DEF Is
    <3> QED BY <1>1, <1>3, <2>1, <3>1, <3>2, <3>3, <3>4, <3>5, <3>6, <3>7, TopCalls
  <2>3. CASE Running.sig \notin claimed
    <3>1. stack' = <<>>
      BY <1>7, <2>3 DEF ImplFind
    <3>2. TypeOK' /\ NoLostSignal' /\ Len(stack') = 0
      BY <1>1, <1>2, <2>1, <3>1 DEF TypeOK, NoLostSignal
    <3>3. Len(stack) \in Nat
      BY <1>1 DEF TypeOK
    <3> QED BY <1>3, <3>1, <3>2, <3>3, Change
  <2> QED BY <2>2, <2>3
<1>8. ASSUME ImplFree PROVE IInv'
  <2>1. /\ Becomes([[Running EXCEPT !.at = "Dequeue"] EXCEPT !.sig = NoSig])
        /\ status' = status /\ pending' = pending
    BY <1>8 DEF ImplFree, Goto
  <2>2. status \in {"Enabled", "Present"} /\ pending \in [SigNo -> Nat]
    BY <1>1, <1>3 DEF TypeOK
  <2> QED BY <1>4, <2>1, <2>2
<1> QED BY <1>5, <1>6, <1>7, <1>8

(* Guest calls, and what the dispatcher does with pending signals. *)
LEMMA CallsKeep ==
  ASSUME IInv, CallGuest \/ ProcessPending \/ CallLeave
  PROVE  IInv'
<1>1. /\ stack # <<>> /\ Running \in FrameType /\ TypeOK
      /\ Fits(Running, Caller, OpenCaller, Len(stack) = 1)
      /\ status # "Disabled" <=> Inner(Running, OpenCaller)
  BY TopFits DEF CallGuest, ProcessPending, CallLeave, At
<1>2. UNCHANGED <<status, residence, pending, guarded, claimed, uses>>
  BY DEF CallGuest, ProcessPending, CallLeave, bounds
<1>3. stack' \in Seq(FrameType) => TypeOK'
  BY <1>1, <1>2 DEF TypeOK
<1>4. ASSUME CallGuest PROVE IInv'
  <2> DEFINE g == Frame("Call", "Enter", NoSig)
  <2>1. Running.kind \in {"Host", "HostCall"} /\ Calls(Running, g)
    BY <1>4 DEF CallGuest, At
  <2>2. g \in FrameType /\ g.kind = "Call" /\ g.at = "Enter"
    BY DEF Frame, FrameType, Frames
  <2> HIDE DEF g
  <2>3. residence = "Outside" /\ ~Is(Running, "Impl", "Dequeue")
    BY <1>1, <2>1, IsOutside DEF Is
  <2>4. Fits(g, Running, Inner(Running, OpenCaller), FALSE)
    BY <2>2 DEF Fits, Is, Opens
  <2>5. Inner(g, Inner(Running, OpenCaller)) <=> Inner(Running, OpenCaller)
    BY <2>2 DEF Inner, Opens, Passes, Is
  <2>6. Tells({Running, g})
    BY <1>2, <2>1, TellsSame DEF Announces, Is
  <2> QED BY <1>1, <1>2, <1>3, <2>1, <2>2, <2>3, <2>4, <2>5, <2>6, TopCalls
<1>5. ASSUME ProcessPending PROVE IInv'
  <2>1. /\ Running.kind = "Call" /\ Running.at = "Loop" /\ status = "Present"
        /\ Calls(Running, Impl)
    BY <1>5 DEF ProcessPending, At
  <2> QED BY <1>1, <1>2, <2>1, CallsImpl DEF Opens, Is
<1>6. ASSUME CallLeave PROVE IInv'
  <2>1. Running.kind = "Call" /\ Running.at = "Leave"
    BY <1>6 DEF CallLeave, At
  <2>2. residence = "Outside" /\ status # "Disabled"
    BY <1>1, <2>1, IsOutside DEF Is, Inner, Opens
  <2>3. CASE Running.prev
    <3>1. Returns
      BY <1>6, <2>3 DEF CallLeave
    <3>2. OpenCaller
      BY <1>1, <2>1, <2>3 DEF Fits, Opens
    <3>3. Tells({})
      BY <1>2, <2>1, TellsSame DEF Announces, Is
    <3> QED BY <1>1, <1>2, <1>3, <2>1, <2>2, <3>1, <3>2, <3>3, TopReturns
  <2>4. CASE ~Running.prev
    <3>1. Becomes([Running EXCEPT !.at = "Disable"])
      BY <1>6, <2>4 DEF CallLeave, Goto
    <3> QED BY <1>1, <1>2, <2>1, <2>2, <2>4, <3>1, CallMoves
  <2> QED BY <2>3, <2>4
<1> QED BY <1>4, <1>5, <1>6

(* Generated code calls the host. *)
LEMMA EntersKeep ==
  ASSUME IInv, EnterSyscall \/ EnterHostCall
  PROVE  IInv'
<1>1. /\ stack # <<>> /\ Running \in FrameType /\ TypeOK
      /\ Fits(Running, Caller, OpenCaller, Len(stack) = 1)
      /\ status # "Disabled" <=> Inner(Running, OpenCaller)
  BY TopFits DEF EnterSyscall, EnterHostCall, At
<1>2. /\ Running.kind = "Call" /\ Running.at = "Gen" /\ residence' = "Outside"
      /\ UNCHANGED <<status, pending, guarded, claimed, uses>>
  BY DEF EnterSyscall, EnterHostCall, At, bounds
<1>3. PICK back \in {"Gen", "Loop"}, g \in FrameType :
         /\ Calls([Running EXCEPT !.at = back], g)
         /\ \/ g.kind = "Syscall" /\ g.at = "Disable"
            \/ g.kind = "HostCall" /\ g.at = "Run" /\ back = "Gen"
  <2>1. CASE EnterSyscall
    <3>1. PICK back \in {"Gen", "Loop"} :
             Calls(Goto(back), Frame("Syscall", "Disable", NoSig))
      BY <2>1 DEF EnterSyscall
    <3>2. /\ Frame("Syscall", "Disable", NoSig) \in FrameType
          /\ Frame("Syscall", "Disable", NoSig).kind = "Syscall"
          /\ Frame("Syscall", "Disable", NoSig).at = "Disable"
      BY DEF Frame, FrameType, Frames
    <3> QED BY <3>1, <3>2 DEF Goto
  <2>2. CASE EnterHostCall
    <3>1. Calls(Running, Frame("HostCall", "Run", NoSig))
      BY <2>2 DEF EnterHostCall
    <3>2. /\ Frame("HostCall", "Run", NoSig) \in FrameType
          /\ Frame("HostCall", "Run", NoSig).kind = "HostCall"
          /\ Frame("HostCall", "Run", NoSig).at = "Run"
      BY DEF Frame, FrameType, Frames
    <3>3. [Running EXCEPT !.at = "Gen"] = Running
      BY <1>1, <1>2 DEF FrameType, Frames
    <3> QED BY <3>1, <3>2, <3>3
  <2> QED BY <2>1, <2>2
<1> DEFINE f == [Running EXCEPT !.at = back]
<1>4. f \in FrameType /\ f.kind = "Call" /\ f.at = back /\ f.prev = Running.prev
  BY <1>1, <1>2 DEF FrameType, Frames
<1>5. Calls(f, g)
  BY <1>3
<1> HIDE DEF f
<1>6. stack' \in Seq(FrameType) => TypeOK'
  BY <1>1, <1>2 DEF TypeOK
<1>7. Fits(f, Caller, OpenCaller, Len(stack) = 1) /\ ~Is(f, "Impl", "Dequeue")
  BY <1>1, <1>2, <1>4 DEF Fits, Is, Opens
<1>8. Fits(g, f, Inner(f, OpenCaller), FALSE)
  BY <1>3, <1>4 DEF Fits, Is, Opens
<1>9. status' # "Disabled" <=> Inner(g, Inner(f, OpenCaller))
  BY <1>1, <1>2, <1>3 DEF Inner, Opens, Is
<1>10. Tells({f, g})
  BY <1>2, TellsSame DEF Announces, Is
<1> QED BY <1>1, <1>2, <1>3, <1>4, <1>5, <1>6, <1>7, <1>8, <1>9, <1>10, TopCalls

(* The host returns to generated code or to the dispatcher. *)
LEMMA LeavesKeep ==
  ASSUME IInv, LeaveSyscall \/ LeaveHostCall
  PROVE  IInv'
<1>1. /\ stack # <<>> /\ TypeOK
      /\ Fits(Running, Caller, OpenCaller, Len(stack) = 1)
      /\ status # "Disabled" <=> Inner(Running, OpenCaller)
  BY TopFits DEF LeaveSyscall, LeaveHostCall, At
<1>2. /\ Running.kind \in {"Syscall", "HostCall"} /\ Running.at = "Run" /\ Returns
      /\ UNCHANGED <<pending, guarded, claimed, uses>>
  BY DEF LeaveSyscall, LeaveHostCall, At, bounds
<1>3. /\ \/ Is(Caller, "Call", "Gen")
         \/ Running.kind = "Syscall" /\ Is(Caller, "Call", "Loop")
      /\ Running.kind = "Syscall" => Running.prev
  BY <1>1, <1>2 DEF Fits
<1>4. OpenCaller
  BY <1>1, <1>2, <1>3, CallerOpens DEF Opens, Is
<1>5. status' \in {"Enabled", "Present"} /\ (status = "Present" => status' = "Present")
  <2>1. CASE Running.kind = "Syscall"
    BY <1>1, <1>2, <1>3, <2>1 DEF LeaveSyscall, LeaveHostCall, At, TypeOK
  <2>2. CASE Running.kind = "HostCall"
    BY <1>1, <1>2, <2>2 DEF LeaveSyscall, LeaveHostCall, At, TypeOK, Inner, Opens
  <2> QED BY <1>2, <2>1, <2>2
<1>6. /\ residence' \in {"Inside", "Outside"}
      /\ residence' = "Inside" => Is(Caller, "Call", "Gen")
  BY <1>2, <1>3 DEF LeaveSyscall, LeaveHostCall, Residence, At, Is
<1>7. stack' \in Seq(FrameType) => TypeOK'
  BY <1>1, <1>2, <1>5, <1>6 DEF TypeOK
<1>8. Tells({})
  BY <1>2, <1>5, TellsSame DEF Announces, Is
<1> QED BY <1>1, <1>2, <1>4, <1>5, <1>6, <1>7, <1>8, TopReturns

(* rt_sigaction takes the mutex of the signal actions and gives it back. *)
LEMMA SigactionsKeep ==
  ASSUME IInv, SigactionLock \/ SigactionChange
  PROVE  IInv'
<1>1. /\ stack # <<>> /\ Running \in FrameType /\ TypeOK
      /\ Fits(Running, Caller, OpenCaller, Len(stack) = 1)
      /\ status # "Disabled" <=> Inner(Running, OpenCaller)
  BY TopFits DEF SigactionLock, SigactionChange, At
<1>2. /\ Running.kind = "Syscall" /\ Running.at \in {"Run", "Guarded"}
      /\ UNCHANGED <<status, residence, pending, uses>>
  BY DEF SigactionLock, SigactionChange, At, bounds
<1>3. PICK w \in {"Run", "Guarded"} : Becomes([Running EXCEPT !.at = w])
  BY DEF SigactionLock, SigactionChange, Goto
<1>4. guarded' \in BOOLEAN /\ claimed' \subseteq SigNo
  BY <1>1 DEF SigactionLock, SigactionChange, TypeOK
<1> DEFINE f == [Running EXCEPT !.at = w]
<1>5. f \in FrameType /\ f.kind = "Syscall" /\ f.at = w /\ f.prev = Running.prev /\ Becomes(f)
  BY <1>1, <1>2, <1>3 DEF FrameType, Frames
<1> HIDE DEF f
<1>6. stack' \in Seq(FrameType) => TypeOK'
  BY <1>1, <1>2, <1>4 DEF TypeOK
<1>7. Fits(f, Caller, OpenCaller, Len(stack) = 1)
  BY <1>1, <1>2, <1>5 DEF Fits, Is, Opens
<1>8. status' # "Disabled" <=> Inner(f, OpenCaller)
  BY <1>1, <1>2, <1>5 DEF Inner, Opens, Passes, Is
<1>9. residence' = "Outside"
  BY <1>1, <1>2, IsOutside DEF Is
<1>10. Tells({f})
  BY <1>2, TellsSame DEF Announces, Is
<1> QED BY <1>1, <1>2, <1>5, <1>6, <1>7, <1>8, <1>9, <1>10, TopBecomes

(* FlushGuestCodeCache of another thread asks for the attention of this one. *)
LEMMA FlushKeeps ==
  ASSUME IInv, Flush
  PROVE  IInv'
<1>1. /\ status' = IF status = "Enabled" THEN "Present" ELSE status
      /\ UNCHANGED <<residence, pending, stack, guarded, claimed, uses>>
  BY DEF Flush
<1>2. TypeOK'
  BY <1>1 DEF IInv, TypeOK
<1>3. NoLostSignal'
  BY <1>1 DEF IInv, NoLostSignal, NothingPending
<1> QED BY <1>1, <1>2, <1>3 DEF IInv

-----------------------------------------------------------------------------

(* A thread starts in native code, with pending signals disabled. *)
LEMMA InitIInv == Init => IInv
<1> SUFFICES ASSUME Init PROVE IInv
  OBVIOUS
<1> DEFINE h == Frame("Host", "Run", NoSig)
<1>1. /\ h \in FrameType /\ h.kind = "Host" /\ h.at = "Run"
      /\ stack = <<h>> /\ Len(stack) = 1 /\ stack[1] = h
  BY DEF Init, Frame, FrameType, Frames
<1> HIDE DEF h
<1>2. TypeOK
  <2>1. stack \in Seq(FrameType)
    BY <1>1
  <2> QED BY <2>1, SignalsAssumption DEF Init, TypeOK
<1>3. ~Open(stack, 0) /\ ~Open(stack, 1)
  BY <1>1 DEF Open, Opens, Is
<1>4. FitsAt(stack, 1)
  BY <1>1 DEF FitsAt, Fits, Opens, Is
<1>5. NothingPending
  BY DEF Init, NothingPending
<1>6. DOMAIN stack = {1}
  BY <1>1
<1> QED BY <1>1, <1>2, <1>3, <1>4, <1>5, <1>6 DEF IInv, Init, NoLostSignal, Is

(* Every step keeps the invariant. *)
LEMMA Inductive == IInv /\ [Next]_vars => IInv'
<1> SUFFICES ASSUME IInv, [Next]_vars PROVE IInv'
  OBVIOUS
<1>1. CASE Step
  <2>1. CASE SignalStep
    BY <2>1, TestsKeep, SignalStepsKeep, SignalReturnKeeps DEF SignalStep
  <2>2. CASE ProcessAndDisable
    BY <2>2, ProcessAndDisableKeeps
  <2>3. CASE ImplStep
    BY <2>3, ImplKeeps DEF ImplStep
  <2>4. CASE CallStep
    BY <2>4, TestsKeep, CallsKeep, CallStepsKeep, LeavesKeep DEF CallStep
  <2>5. CASE SigactionChange
    BY <2>5, SigactionsKeep
  <2> QED BY <1>1, <2>1, <2>2, <2>3, <2>4, <2>5 DEF Step
<1>2. CASE Stop
  BY <1>2, CallStepsKeep
<1>3. CASE CallGuest \/ EnterSyscall \/ EnterHostCall
  BY <1>3, CallsKeep, EntersKeep
<1>4. CASE SigactionLock \/ CallLongjmp
  BY <1>4, SigactionsKeep, CallLongjmpKeeps
<1>5. CASE Flush \/ \E s \in SigNo : HostSignal(s)
  BY <1>5, FlushKeeps, HostSignalKeeps
<1>6. CASE UNCHANGED vars
  BY <1>6 DEF vars, IInv, TypeOK, NoLostSignal, NothingPending
<1> QED BY <1>1, <1>2, <1>3, <1>4, <1>5, <1>6 DEF Next

(* What frames there are on the host stack, and what they found, decides     *)
(* whether pending signals are enabled.                                      *)
THEOREM Invariance == Spec => []IInv
<1> QED BY InitIInv, Inductive, PTL DEF Spec

(* The CHECKs of HandleHostSignal, RunGuestCall and the scoped objects that  *)
(* disable pending signals hold.                                             *)
THEOREM NoCheckFails == Spec => []ChecksHold
<1>1. IInv => ChecksHold
  <2> SUFFICES ASSUME IInv PROVE ChecksHold
    OBVIOUS
  <2>1. TypeOK
    BY DEF IInv
  <2>2. CASE stack = <<>>
    BY <2>1, <2>2 DEF ChecksHold, At
  <2>3. CASE stack # <<>>
    <3>1. /\ Fits(Running, Caller, OpenCaller, Len(stack) = 1)
          /\ status # "Disabled" <=> Inner(Running, OpenCaller)
      BY <2>3, TopFits
    <3>2. At("Signal", "Disable") => residence = "Outside"
      BY <2>3, <3>1, IsOutside DEF At, Is, Fits, Opens
    <3>3. /\ At("Signal", "Mark") => status # "Disabled"
          /\ At("Call", "Loop") => status # "Disabled"
          /\ At("Call", "Disable") => status # "Disabled"
          /\ At("Syscall", "Run") => status = "Disabled"
      BY <3>1 DEF At, Inner, Opens, Passes, Is
    <3> QED BY <2>1, <3>2, <3>3 DEF ChecksHold
  <2> QED BY <2>2, <2>3
<1> QED BY <1>1, Invariance, PTL

(* DequeueSignalUnsafe is never interrupted by another loop of its thread    *)
(* over the pending signals.                                                 *)
THEOREM OneConsumer == Spec => []SingleConsumer
<1>1. IInv => SingleConsumer
  BY DEF IInv, SingleConsumer, Quiet, Is
<1> QED BY <1>1, Invariance, PTL

(* A queued signal is announced, or about to be, or a loop over the pending  *)
(* signals will still see it, unless a guest leaves a handler by longjmp.    *)
THEOREM NoSignalIsLost == Spec => []NoLostSignal
<1>1. IInv => NoLostSignal
  BY DEF IInv
<1> QED BY <1>1, Invariance, PTL

(* A guest call returns to native code with pending signals disabled and     *)
(* none left, unless a guest leaves a handler by longjmp.                    *)
THEOREM CleanReturn == Spec => []NativeCodeIsClean
<1>1. IInv => NativeCodeIsClean
  <2> SUFFICES ASSUME IInv, Len(stack) = 1, "longjmp" \notin uses
               PROVE  status = "Disabled" /\ NothingPending
    BY DEF NativeCodeIsClean
  <2>1. stack \in Seq(FrameType) /\ stack # <<>>
    BY DEF IInv, TypeOK
  <2>2. DOMAIN stack = {1}
    BY <2>1
  <2>3. stack[1].kind = "Host"
    BY <2>2 DEF IInv, FitsAt, Fits
  <2>4. status = "Disabled"
    BY <2>1, <2>3 DEF IInv, Open, Opens, Is
  <2> QED BY <2>1, <2>2, <2>3, <2>4 DEF IInv, NoLostSignal
<1> QED BY <1>1, Invariance, PTL

=============================================================================
