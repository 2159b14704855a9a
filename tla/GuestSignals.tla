----------------------------- MODULE GuestSignals -----------------------------
(***************************************************************************)
(* How one guest thread takes host signals (guest_signal_handling.cc) while *)
(* it runs host code, the dispatcher, generated code, system calls and the  *)
(* guest's own signal handlers.                                            *)
(*                                                                         *)
(* The host stack of the thread is a sequence of frames, one per function   *)
(* that changes the status of pending signals; only the last frame runs.    *)
(* A host signal pushes a HandleHostSignal frame between any two steps.     *)
(* The other actor is any thread that flushes the code cache.              *)
(*                                                                         *)
(* Signals are asynchronous, sent by users, or faults that have recovery   *)
(* code; a fault without it ends the process.                              *)
(***************************************************************************)
EXTENDS Naturals, Sequences

CONSTANTS
    SigNo,           \* signal numbers; smaller ones have priority
    Mask,            \* signal -> what its action blocks, itself if not SA_NODEFER
    GuestUses,       \* what the guests may do, a set of subsets of Feature
    MaxSignals(_),   \* bound: host signals, for what a guest does
    MaxCalls(_),     \* bound: guest calls other than signal handlers
    MaxFlushes       \* bound: flushes by other threads

(* A guest may reset the actions of its signals, and may leave its handlers  *)
(* by a longjmp.                                                             *)
Feature == {"sigaction", "longjmp"}

ASSUME SignalsAssumption ==
    /\ SigNo \subseteq Nat \ {0}
    /\ Mask \in [SigNo -> SUBSET SigNo]
    /\ GuestUses \subseteq SUBSET Feature

VARIABLES
    status,      \* ThreadState::pending_signals_status
    residence,   \* ThreadState::residence
    pending,     \* pending_signals_: signal -> how many of it are queued
    stack,       \* the frames on the host stack; empty when the process has ended
    guarded,     \* whether this thread holds GetSignalActionsGuardMutex
    claimed,     \* the signals with a guest action
    sent,        \* host signals so far
    calls,       \* guest calls so far
    flushes,     \* flushes so far
    uses         \* what this guest does

vars == <<status, residence, pending, stack, guarded, claimed, sent, calls, flushes,
          uses>>

bounds == <<sent, calls, flushes, uses>>

NoSig == 0

(* prev is prev_pending_signals_enabled(_); sig is the signal that a         *)
(* HandleHostSignal, a ProcessPendingSignalsImpl or a handler's call is for. *)
Frame(kind, at, sig) == [kind |-> kind, at |-> at, prev |-> FALSE, sig |-> sig]

Init ==
    /\ status = "Disabled"
    /\ residence = "Outside"
    /\ pending = [s \in SigNo |-> 0]
    /\ stack = <<Frame("Host", "Run", NoSig)>>
    /\ guarded = FALSE
    /\ claimed = SigNo
    /\ sent = 0
    /\ calls = 0
    /\ flushes = 0
    /\ uses \in GuestUses

(* The frame that runs, and those it returns to. *)
Running == stack[Len(stack)]
Caller == stack[Len(stack) - 1]
Callers == SubSeq(stack, 1, Len(stack) - 1)

At(kind, where) ==
    /\ stack # <<>>
    /\ Running.kind = kind
    /\ Running.at = where

Goto(where) == [Running EXCEPT !.at = where]

Becomes(frame) == stack' = Append(Callers, frame)
Calls(caller, callee) == stack' = Callers \o <<caller, callee>>
Returns == stack' = Callers

Blocked ==
    UNION {Mask[stack[i].sig] : i \in {j \in DOMAIN stack :
              stack[j].kind \in {"Signal", "Call"} /\ stack[j].sig # NoSig}}

NothingPending == \A s \in SigNo : pending[s] = 0

-----------------------------------------------------------------------------
(* HandleHostSignal: it may interrupt anything, itself included. *)

HostSignal(s) ==
    /\ stack # <<>>
    /\ s \in claimed \ Blocked
    /\ sent < MaxSignals(uses)
    /\ sent' = sent + 1
    /\ stack' = Append(stack, Frame("Signal", "Test", s))
    /\ UNCHANGED <<status, residence, pending, guarded, claimed, calls, flushes, uses>>

(* TestAndEnablePendingSignals: its result goes to prev. *)
TestAndEnable(frame) ==
    /\ status' = IF status = "Disabled" THEN "Enabled" ELSE status
    /\ Becomes([frame EXCEPT !.prev = (status # "Disabled")])

SignalTest ==
    /\ At("Signal", "Test")
    /\ TestAndEnable(Goto("Enqueue"))
    /\ UNCHANGED <<residence, pending, guarded, claimed, bounds>>

SignalEnqueue ==
    /\ At("Signal", "Enqueue")
    /\ pending' = [pending EXCEPT ![Running.sig] = @ + 1]
    /\ Becomes(Goto("Mark"))
    /\ UNCHANGED <<status, residence, guarded, claimed, bounds>>

(* Mutant: the handlers are run whether or not signals were disabled. *)
SignalMarkAlways ==
    /\ At("Signal", "Mark")
    /\ status' = "Present"
    /\ Becomes(Goto("Disable"))
    /\ UNCHANGED <<residence, pending, guarded, claimed, bounds>>

(* Mutant: the status is not set when signals were enabled before. *)
SignalMarkIfDisabled ==
    /\ At("Signal", "Mark")
    /\ status' = IF Running.prev THEN status ELSE "Present"
    /\ Becomes(Goto(IF Running.prev THEN "Return" ELSE "Disable"))
    /\ UNCHANGED <<residence, pending, guarded, claimed, bounds>>

SignalMark ==
    /\ At("Signal", "Mark")
    /\ status' = "Present"
    /\ Becomes(Goto(IF Running.prev THEN "Return" ELSE "Disable"))
    /\ UNCHANGED <<residence, pending, guarded, claimed, bounds>>

(* The signal stays pending.  Where generated code has recovery code it is   *)
(* left at once.                                                             *)
SignalReturn ==
    /\ At("Signal", "Return")
    /\ \/ Returns /\ UNCHANGED residence
       \/ /\ Caller.kind = "Call" /\ Caller.at = "Gen"
          /\ stack' = Append(SubSeq(stack, 1, Len(stack) - 2), [Caller EXCEPT !.at = "Loop"])
          /\ residence' = "Outside"
    /\ UNCHANGED <<status, pending, guarded, claimed, bounds>>

-----------------------------------------------------------------------------
(* ProcessAndDisablePendingSignals, called by HandleHostSignal and by the    *)
(* scoped objects of guest calls (on their end) and system calls.            *)

Impl == Frame("Impl", "Clear", NoSig)

(* What its caller does with the result. *)
Disabled(result) ==
    IF Running.kind = "Syscall"
    THEN Becomes([Goto("Run") EXCEPT !.prev = result])
    ELSE Returns

(* Mutant: pending signals are disabled without a look at whether there are  *)
(* any.                                                                      *)
DisableUnconditionally ==
    /\ \E kind \in {"Signal", "Call", "Syscall"} : At(kind, "Disable")
    /\ status' = "Disabled"
    /\ Disabled(status # "Disabled")
    /\ UNCHANGED <<residence, pending, guarded, claimed, bounds>>

ProcessAndDisable ==
    /\ \E kind \in {"Signal", "Call", "Syscall"} : At(kind, "Disable")
    /\ IF status = "Present"
       THEN UNCHANGED status /\ Calls(Running, Impl)
       ELSE status' = "Disabled" /\ Disabled(status = "Enabled")
    /\ UNCHANGED <<residence, pending, guarded, claimed, bounds>>

-----------------------------------------------------------------------------
(* ProcessPendingSignalsImpl. *)

(* Mutant: signals that interrupt the loop are to be handled at once. *)
ImplClearDisabled ==
    /\ At("Impl", "Clear")
    /\ status' = "Disabled"
    /\ Becomes(Goto("Dequeue"))
    /\ UNCHANGED <<residence, pending, guarded, claimed, bounds>>

ImplClear ==
    /\ At("Impl", "Clear")
    /\ status' = "Enabled"
    /\ Becomes(Goto("Dequeue"))
    /\ UNCHANGED <<residence, pending, guarded, claimed, bounds>>

ImplDequeue ==
    /\ At("Impl", "Dequeue")
    /\ \/ NothingPending /\ Returns /\ UNCHANGED pending
       \/ \E s \in SigNo :
             /\ pending[s] > 0
             /\ \A r \in SigNo : pending[r] > 0 => s <= r
             /\ pending' = [pending EXCEPT ![s] = @ - 1]
             /\ Becomes([Goto("Find") EXCEPT !.sig = s])
    /\ UNCHANGED <<status, residence, guarded, claimed, bounds>>

(* FindSignalHandler waits for the mutex; ProcessGuestSignal calls the       *)
(* handler.  Without a guest action the process ends (CHECK(IsClaimed()) on  *)
(* riscv64, the default action on arm64).                                    *)
ImplFind ==
    /\ At("Impl", "Find")
    /\ ~guarded
    /\ IF Running.sig \in claimed
       THEN Calls(Goto("Handling"), Frame("Call", "Enter", Running.sig))
       ELSE stack' = <<>>
    /\ UNCHANGED <<status, residence, pending, guarded, claimed, bounds>>

ImplFree ==
    /\ At("Impl", "Handling")
    /\ Becomes([Goto("Dequeue") EXCEPT !.sig = NoSig])
    /\ UNCHANGED <<status, residence, pending, guarded, claimed, bounds>>

-----------------------------------------------------------------------------
(* RunGuestCall and ExecuteGuest. *)

(* From host code: the thread's own, or a host function called by the guest. *)
CallGuest ==
    /\ At("Host", "Run") \/ At("HostCall", "Run")
    /\ calls < MaxCalls(uses)
    /\ calls' = calls + 1
    /\ Calls(Running, Frame("Call", "Enter", NoSig))
    /\ UNCHANGED <<status, residence, pending, guarded, claimed, sent, flushes, uses>>

CallEnter ==
    /\ At("Call", "Enter")
    /\ TestAndEnable(Goto("Loop"))
    /\ UNCHANGED <<residence, pending, guarded, claimed, bounds>>

ProcessPending ==
    /\ At("Call", "Loop")
    /\ status = "Present"
    /\ Calls(Running, Impl)
    /\ UNCHANGED <<status, residence, pending, guarded, claimed, bounds>>

RunGeneratedCode ==
    /\ At("Call", "Loop")
    /\ status # "Present"
    /\ residence' = "Inside"
    /\ Becomes(Goto("Gen"))
    /\ UNCHANGED <<status, pending, guarded, claimed, bounds>>

ExitGeneratedCode ==
    /\ At("Call", "Gen")
    /\ residence' = "Outside"
    /\ Becomes(Goto("Loop"))
    /\ UNCHANGED <<status, pending, guarded, claimed, bounds>>

(* The dispatcher reached the stop address. *)
Stop ==
    /\ At("Call", "Loop")
    /\ status # "Present"
    /\ Becomes(Goto("Leave"))
    /\ UNCHANGED <<status, residence, pending, guarded, claimed, bounds>>

(* Mutant: signals stay enabled when a guest call ends. *)
CallLeaveEnabled ==
    /\ At("Call", "Leave")
    /\ Returns
    /\ UNCHANGED <<status, residence, pending, guarded, claimed, bounds>>

CallLeave ==
    /\ At("Call", "Leave")
    /\ IF Running.prev THEN Returns ELSE Becomes(Goto("Disable"))
    /\ UNCHANGED <<status, residence, pending, guarded, claimed, bounds>>

(* The guest had restored the stack of an outer call (a statically linked    *)
(* longjmp): siglongjmp drops the frames in between, and ExecuteGuest runs   *)
(* again in the outer call, at the stop address.                             *)
CallLongjmp ==
    /\ "longjmp" \in uses
    /\ At("Call", "Leave")
    /\ \E i \in 1 .. Len(stack) - 1 :
          /\ stack[i].kind = "Call"
          /\ stack[i].at \in {"Loop", "Gen"}
          /\ stack' = Append(SubSeq(stack, 1, i - 1), [stack[i] EXCEPT !.at = "Loop"])
    /\ UNCHANGED <<status, residence, pending, guarded, claimed, bounds>>

-----------------------------------------------------------------------------
(* What generated code calls. *)

(* RunGuestSyscall returns to generated code, berberis_HandleNoExec to the   *)
(* dispatcher.  Both disable pending signals while they run.                 *)
EnterSyscall ==
    /\ At("Call", "Gen")
    /\ residence' = "Outside"
    /\ \E back \in {"Gen", "Loop"} : Calls(Goto(back), Frame("Syscall", "Disable", NoSig))
    /\ UNCHANGED <<status, pending, guarded, claimed, bounds>>

Residence(frame) == IF frame.at = "Gen" THEN "Inside" ELSE "Outside"

LeaveSyscall ==
    /\ At("Syscall", "Run")
    /\ status' = IF Running.prev /\ status = "Disabled" THEN "Enabled" ELSE status
    /\ residence' = Residence(Caller)
    /\ Returns
    /\ UNCHANGED <<pending, guarded, claimed, bounds>>

(* A host function behind a trampoline: pending signals stay enabled. *)
EnterHostCall ==
    /\ At("Call", "Gen")
    /\ residence' = "Outside"
    /\ Calls(Running, Frame("HostCall", "Run", NoSig))
    /\ UNCHANGED <<status, pending, guarded, claimed, bounds>>

LeaveHostCall ==
    /\ At("HostCall", "Run")
    /\ residence' = "Inside"
    /\ Returns
    /\ UNCHANGED <<status, pending, guarded, claimed, bounds>>

(* The system call rt_sigaction: SetGuestSignalHandler. *)
SigactionLock ==
    /\ "sigaction" \in uses
    /\ At("Syscall", "Run")
    /\ Caller.at = "Gen"
    /\ ~guarded
    /\ guarded' = TRUE
    /\ Becomes(Goto("Guarded"))
    /\ UNCHANGED <<status, residence, pending, claimed, bounds>>

SigactionChange ==
    /\ At("Syscall", "Guarded")
    /\ \E s \in SigNo : claimed' \in {claimed \cup {s}, claimed \ {s}}
    /\ guarded' = FALSE
    /\ Becomes(Goto("Run"))
    /\ UNCHANGED <<status, residence, pending, bounds>>

-----------------------------------------------------------------------------

(* FlushGuestCodeCache of another thread. *)
Flush ==
    /\ flushes < MaxFlushes
    /\ flushes' = flushes + 1
    /\ status' = IF status = "Enabled" THEN "Present" ELSE status
    /\ UNCHANGED <<residence, pending, stack, guarded, claimed, sent, calls, uses>>

SignalStep == SignalTest \/ SignalEnqueue \/ SignalMark \/ SignalReturn

ImplStep == ImplClear \/ ImplDequeue \/ ImplFind \/ ImplFree

CallStep ==
    \/ CallEnter \/ ProcessPending \/ RunGeneratedCode \/ ExitGeneratedCode
    \/ CallLeave \/ LeaveSyscall \/ LeaveHostCall

Step == SignalStep \/ ProcessAndDisable \/ ImplStep \/ CallStep \/ SigactionChange

Next ==
    \/ Step \/ Stop
    \/ CallGuest \/ EnterSyscall \/ EnterHostCall
    \/ SigactionLock \/ CallLongjmp
    \/ Flush \/ \E s \in SigNo : HostSignal(s)

InHandler == \E i \in DOMAIN stack : stack[i].kind = "Call" /\ stack[i].sig # NoSig

OfHandler == Running.sig # NoSig

(* The thread is scheduled and generated code polls; handlers, the guest     *)
(* calls made for them, system calls and host functions return.              *)
Spec ==
    /\ Init
    /\ [][Next]_vars
    /\ WF_vars(Step)
    /\ SF_vars(Stop /\ OfHandler)
    /\ SF_vars(Stop /\ InHandler /\ ~OfHandler)
    /\ SF_vars(ExitGeneratedCode /\ OfHandler)
    /\ SF_vars(ExitGeneratedCode /\ ~OfHandler)

-----------------------------------------------------------------------------

Frames(kinds, places) ==
    [kind : kinds, at : places, prev : BOOLEAN, sig : SigNo \cup {NoSig}]

FrameType ==
    Frames({"Host", "HostCall"}, {"Run"})
    \cup Frames({"Signal"}, {"Test", "Enqueue", "Mark", "Return", "Disable"})
    \cup Frames({"Impl"}, {"Clear", "Dequeue", "Find", "Handling"})
    \cup Frames({"Call"}, {"Enter", "Loop", "Gen", "Leave", "Disable"})
    \cup Frames({"Syscall"}, {"Disable", "Run", "Guarded"})

TypeOK ==
    /\ status \in {"Disabled", "Enabled", "Present"}
    /\ residence \in {"Inside", "Outside"}
    /\ pending \in [SigNo -> Nat]
    /\ stack \in Seq(FrameType)
    /\ guarded \in BOOLEAN
    /\ claimed \subseteq SigNo
    /\ uses \in GuestUses

(* None of the CHECKs on the status fails: SetSignalFromHost never finds     *)
(* pending signals disabled, nor does the dispatcher; a handler run from     *)
(* HandleHostSignal runs outside generated code; a scoped object finds the   *)
(* status it left when it restores the one before.  The state is well typed. *)
ChecksHold ==
    /\ TypeOK
    /\ At("Signal", "Mark") => status # "Disabled"
    /\ At("Signal", "Disable") => residence = "Outside"
    /\ At("Call", "Loop") => status # "Disabled"
    /\ At("Call", "Disable") => status # "Disabled"
    /\ At("Syscall", "Run") /\ Running.prev => status = "Disabled"

(* DequeueSignalUnsafe, which is not reentrant, is never interrupted by      *)
(* another ProcessPendingSignalsImpl of the same thread.                     *)
SingleConsumer ==
    \A i \in DOMAIN stack : \A j \in i + 1 .. Len(stack) :
        stack[i].kind = "Impl" /\ stack[i].at = "Dequeue" => stack[j].kind # "Impl"

(* "It is important to change status before the queue": a queued signal is   *)
(* announced by the status, or a ProcessPendingSignalsImpl will still look   *)
(* at the queue, or the handler that queued it is about to announce it.  A   *)
(* guest that leaves a handler by longjmp drops a ProcessPendingSignalsImpl  *)
(* that had cleared the status and not the queue, so it is left out.         *)
NoLostSignal ==
    ~NothingPending /\ stack # <<>> /\ "longjmp" \notin uses =>
        \/ status = "Present"
        \/ \E i \in DOMAIN stack : stack[i].kind = "Impl"
        \/ \E i \in DOMAIN stack : stack[i].kind = "Signal" /\ stack[i].at = "Mark"

(* A thread that is back in its native code has pending signals disabled and *)
(* leaves none behind, however guest calls ended, unless by longjmp.         *)
NativeCodeIsClean ==
    Len(stack) = 1 /\ "longjmp" \notin uses => status = "Disabled" /\ NothingPending

(* A thread never waits for the mutex of the signal actions that it holds    *)
(* itself: code that is not reentrant has pending signals enabled.           *)
NoSelfDeadlock == ~(At("Impl", "Find") /\ guarded)

(* Every host signal that a guest thread takes reaches its guest handler,    *)
(* if the guest keeps its signal actions and returns from its handlers.      *)
Handled ==
    \A s \in SigNo :
        uses = {} /\ pending[s] > 0 ~> At("Call", "Enter") /\ Running.sig = s
=============================================================================
