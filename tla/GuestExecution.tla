--------------------------- MODULE GuestExecution ---------------------------
(***************************************************************************)
(* Guest threads that execute through the translation cache: the dispatch  *)
(* loop (runtime/execute_guest.cc), what generated code does at its entry, *)
(* at its back edges and at its exits (lite translators, heavy optimizer,  *)
(* code_gen_lib), and invalidation followed by FlushGuestCodeCache, which  *)
(* asks the other threads to leave generated code by setting their pending *)
(* signals status to Present.                                              *)
(*                                                                         *)
(* The cache operations are those of TranslationCache, and every step is a *)
(* step of it or leaves the cache alone.  Threads run code they have read  *)
(* from the cache without any lock: what they run may no longer be there.  *)
(***************************************************************************)
EXTENDS Integers, FiniteSets

CONSTANTS
    Thread, Addr, StopAddr, InsnSize, MaxRegion, ColdThreshold,
    GearSwitchThreshold,
    LoopingKind,       \* kinds whose regions may contain loops
    MaxInvalidations   \* bound: calls of InvalidateGuestRange

(* What TranslationCache assumes, and that there is guest code to run. *)
ASSUME ExecutionAssumption ==
    /\ Addr \subseteq Nat
    /\ StopAddr \subseteq Addr
    /\ Addr \ StopAddr # {}
    /\ InsnSize \subseteq 1..MaxRegion
    /\ MaxRegion \in Nat \ {0}
    /\ ColdThreshold \in Nat
    /\ GearSwitchThreshold \in Nat
    /\ MaxInvalidations \in Nat

VARIABLES
    hostCode, kind, guestSize, counter, translating, maxGuestSize, job, dirty,
    profiled,       \* pc -> the installed code increments the entry's counter
    hot,            \* pc -> that counter has passed its threshold
    at,             \* thread -> where its host pc is
    pc,             \* thread -> CPUState::insn_addr
    status,         \* thread -> ThreadState::pending_signals_status
    code,           \* thread -> the region it runs, meaningful in Generated
    toFlush,        \* thread -> whom its FlushGuestCodeCache has yet to visit
    obsolete,       \* history: how the code the thread runs became obsolete
    invalidations   \* calls of InvalidateGuestRange so far

TC == INSTANCE TranslationCache

cacheVars == <<hostCode, kind, guestSize, counter, translating, maxGuestSize,
               job, dirty>>
execVars == <<profiled, hot, at, pc, status, code, toFlush, obsolete,
              invalidations>>
vars == <<cacheVars, execVars>>

CodeAddr == TC!CodeAddr

Phase == {"Outside", "Dispatch", "Fetch", "Miss", "Translate", "Interpret",
          "Count", "Run", "Loop", "Exit"}

(* Where a thread executes generated code. *)
Generated == {"Count", "Run", "Loop"}

(* current: the address map still points to this code; live: the             *)
(* GuestCodeEntry whose counter it increments has not been erased.           *)
Code == [pc : Addr, size : 1..MaxRegion, kind : TC!Kind, profiled : BOOLEAN,
         current : BOOLEAN, live : BOOLEAN]

NoCode == [pc |-> CHOOSE a \in Addr : TRUE, size |-> 1, kind |-> "Absent",
           profiled |-> FALSE, current |-> FALSE, live |-> FALSE]

Init ==
    /\ TC!Init
    /\ profiled = [a \in Addr |-> FALSE]
    /\ hot = [a \in Addr |-> FALSE]
    /\ at = [t \in Thread |-> "Outside"]
    /\ pc = [t \in Thread |-> CHOOSE a \in CodeAddr : TRUE]
    /\ status = [t \in Thread |-> "Disabled"]
    /\ code = [t \in Thread |-> NoCode]
    /\ toFlush = [t \in Thread |-> {}]
    /\ obsolete = [t \in Thread |-> "No"]
    /\ invalidations = 0

(* The thread is at that point and not inside FlushGuestCodeCache. *)
In(t, phase) == at[t] = phase /\ toFlush[t] = {}

Goto(t, phase) == at' = [at EXCEPT ![t] = phase]

(* The thread leaves or never was in generated code. *)
LeaveCode(t) ==
    /\ code' = [code EXCEPT ![t] = NoCode]
    /\ obsolete' = [obsolete EXCEPT ![t] = "No"]

-----------------------------------------------------------------------------
(* The dispatch loop. *)

(* The return address of guest calls is made a stop before any is made. *)
SetStop(t) ==
    /\ In(t, "Outside")
    /\ \E a \in StopAddr : TC!SetStop(a)
    /\ UNCHANGED execVars

(* Guest code is entered from the host, or a syscall returns to it: pending  *)
(* signals are enabled again.                                                *)
Enter(t) ==
    /\ In(t, "Outside")
    /\ \A a \in StopAddr : hostCode[a] = "Stop"
    /\ status' = [status EXCEPT ![t] = "Enabled"]
    /\ \E a \in CodeAddr : pc' = [pc EXCEPT ![t] = a]
    /\ Goto(t, "Dispatch")
    /\ UNCHANGED <<cacheVars, profiled, hot, code, toFlush, obsolete,
                   invalidations>>

(* A syscall, a non-executable pc or the end of the guest call: the thread    *)
(* disables pending signals once none is present.                             *)
Exit(t) ==
    /\ In(t, "Exit")
    /\ \/ /\ status[t] = "Present"
          /\ status' = [status EXCEPT ![t] = "Enabled"]
          /\ UNCHANGED at
       \/ /\ status[t] = "Enabled"
          /\ status' = [status EXCEPT ![t] = "Disabled"]
          /\ Goto(t, "Outside")
    /\ UNCHANGED <<cacheVars, profiled, hot, pc, code, toFlush, obsolete,
                   invalidations>>

(* Mutant: processing pending signals leaves the status at Present. *)
DispatchKeepPresent(t) ==
    /\ In(t, "Dispatch")
    /\ \/ /\ status[t] = "Present"
          /\ \E a \in CodeAddr : pc' = [pc EXCEPT ![t] = a]
          /\ UNCHANGED at
       \/ /\ status[t] # "Present"
          /\ Goto(t, "Fetch")
          /\ UNCHANGED pc
    /\ UNCHANGED <<cacheVars, profiled, hot, status, code, toFlush, obsolete,
                   invalidations>>

(* The loop's pending signals check, made before the cache is read. Handlers  *)
(* may change the pc.                                                         *)
Dispatch(t) ==
    /\ In(t, "Dispatch")
    /\ \/ /\ status[t] = "Present"
          /\ status' = [status EXCEPT ![t] = "Enabled"]
          /\ \E a \in CodeAddr : pc' = [pc EXCEPT ![t] = a]
          /\ UNCHANGED at
       \/ /\ status[t] # "Present"
          /\ Goto(t, "Fetch")
          /\ UNCHANGED <<status, pc>>
    /\ UNCHANGED <<cacheVars, profiled, hot, code, toFlush, obsolete,
                   invalidations>>

(* The code read from the address map, as of now. *)
FetchedCode(a) ==
    [pc |-> a, size |-> guestSize[a], kind |-> kind[a],
     profiled |-> profiled[a], current |-> TRUE, live |-> TRUE]

(* The host code at pc is loaded and jumped to. *)
Fetch(t) ==
    /\ In(t, "Fetch")
    /\ Goto(t, CASE hostCode[pc[t]] \in {"Stop", "NoExec"} -> "Exit"
                 [] hostCode[pc[t]] = "NotTranslated" -> "Miss"
                 [] hostCode[pc[t]] = "Interpret" -> "Interpret"
                 [] hostCode[pc[t]] = "Generated" ->
                        IF profiled[pc[t]] THEN "Count" ELSE "Run"
                 [] OTHER -> "Dispatch")
    /\ code' = [code EXCEPT ![t] =
                    IF hostCode[pc[t]] = "Generated" THEN FetchedCode(pc[t]) ELSE @]
    /\ UNCHANGED <<cacheVars, profiled, hot, pc, status, toFlush, obsolete,
                   invalidations>>

-----------------------------------------------------------------------------
(* Translation, at first gear (Miss) and at second gear (Hot). *)

(* Everything that runs code of a is told that the address map moved on. *)
Detach(a) ==
    code' = [u \in Thread |->
                 IF code[u].pc = a THEN [code[u] EXCEPT !.current = FALSE] ELSE code[u]]

Miss(t) ==
    /\ In(t, "Miss")
    /\ \/ TC!AddAndLockForTranslation(t, pc[t]) /\ Goto(t, "Translate")
       \/ TC!CountColdVisit(t, pc[t]) /\ Goto(t, "Interpret")
       \/ /\ TC!CodeAfterAdd(pc[t]) # "NotTranslated"
          /\ Goto(t, "Dispatch")
          /\ UNCHANGED cacheVars
    /\ UNCHANGED <<profiled, hot, pc, status, code, toFlush, obsolete,
                   invalidations>>

(* The counter is in the entry of the region that runs, if that still exists. *)
PassThreshold(t) ==
    hot' = [hot EXCEPT ![code[t].pc] = @ \/ code[t].live]

(* Increments are not atomic: those that race may roll the counter back. *)
StayBelowThreshold(t) ==
    LET a == code[t].pc IN
    \/ /\ code[t].profiled /\ code[t].live => ~hot[a]
       /\ UNCHANGED hot
    \/ /\ code[t].profiled
       /\ \E u \in Thread \ {t} :
             at[u] \in {"Count", "Loop"} /\ code[u].profiled /\ code[u].pc = a
       /\ hot' = [hot EXCEPT ![a] = FALSE]

(* Mutant: second gear locks the entry whatever its kind. *)
HotAnyKind(t) ==
    /\ In(t, "Count") \/ In(t, "Loop")
    /\ code[t].profiled
    /\ TC!LockAnyForGearUp(t, pc[t])
    /\ Detach(pc[t])
    /\ PassThreshold(t)
    /\ Goto(t, "Translate")
    /\ UNCHANGED <<profiled, pc, status, toFlush, invalidations, obsolete>>

(* The profile counter passes its threshold, at the region's entry or at a   *)
(* back edge, which asks for its own target.  When the entry cannot be       *)
(* locked the thread goes back to the dispatcher.                            *)
Hot(t) ==
    /\ In(t, "Count") \/ In(t, "Loop")
    /\ code[t].profiled
    /\ PassThreshold(t)
    /\ \/ /\ TC!LockForGearUpTranslation(t, pc[t])
          /\ Detach(pc[t])
          /\ Goto(t, "Translate")
          /\ UNCHANGED obsolete
       \/ /\ kind[pc[t]] # "LiteTranslated"
          /\ LeaveCode(t)
          /\ Goto(t, "Dispatch")
          /\ UNCHANGED cacheVars
    /\ UNCHANGED <<profiled, pc, status, toFlush, invalidations>>

(* The counter stays below its threshold. *)
Counted(t) ==
    /\ In(t, "Count")
    /\ StayBelowThreshold(t)
    /\ Goto(t, "Run")
    /\ UNCHANGED <<cacheVars, profiled, pc, status, code, toFlush, obsolete,
                   invalidations>>

(* Lite code made at first gear counts its executions; what gear-up installs *)
(* does not.  An abandoned entry is erased, and its counter with it.         *)
Publish(t) ==
    LET a == job[t].pc IN
    /\ In(t, "Translate")
    /\ \/ /\ TC!Abandon(t)
          /\ profiled' = [profiled EXCEPT ![a] = FALSE]
          /\ hot' = [hot EXCEPT ![a] = FALSE]
          /\ code' = [u \in Thread |->
                 IF u = t THEN NoCode
                 ELSE IF code[u].pc = a THEN [code[u] EXCEPT !.live = FALSE]
                 ELSE code[u]]
       \/ \E tr \in TC!Translation :
             /\ TC!SetTranslatedAndUnlock(t, tr)
             /\ profiled' = [profiled EXCEPT ![a] =
                    job[t].op = "Translate" /\ tr.kind = "LiteTranslated"]
             /\ hot' = [hot EXCEPT ![a] = @ /\ job[t].op = "GearUp"]
             /\ code' = [code EXCEPT ![t] = NoCode]
    /\ obsolete' = [obsolete EXCEPT ![t] = "No"]
    /\ Goto(t, "Dispatch")
    /\ UNCHANGED <<pc, status, toFlush, invalidations>>

-----------------------------------------------------------------------------
(* Running. *)

(* A loop inside the region takes a back edge to a. *)
BackEdge(t) ==
    /\ In(t, "Run")
    /\ code[t].kind \in LoopingKind
    /\ \E a \in CodeAddr \cap (code[t].pc .. code[t].pc + code[t].size - 1) :
          pc' = [pc EXCEPT ![t] = a]
    /\ Goto(t, "Loop")
    /\ UNCHANGED <<cacheVars, profiled, hot, status, code, toFlush, obsolete,
                   invalidations>>

(* Mutant: the back edge does not poll the status. *)
LoopWithoutPoll(t) ==
    /\ In(t, "Loop")
    /\ Goto(t, "Run")
    /\ UNCHANGED <<cacheVars, profiled, hot, pc, status, code, toFlush, obsolete,
                   invalidations>>

(* The back edge counts and polls the status before the loop continues. *)
Loop(t) ==
    /\ In(t, "Loop")
    /\ StayBelowThreshold(t)
    /\ \/ /\ status[t] = "Present"
          /\ LeaveCode(t)
          /\ Goto(t, "Dispatch")
       \/ /\ status[t] # "Present"
          /\ Goto(t, "Run")
          /\ UNCHANGED <<code, obsolete>>
    /\ UNCHANGED <<cacheVars, profiled, pc, status, toFlush, invalidations>>

(* The region ends in a jump to another one.  The exits poll the status and   *)
(* then read the address map, which is what Dispatch does; only a forward     *)
(* jump of a heavy-optimized region reads the map at once.                    *)
RegionEnd(t) ==
    /\ In(t, "Run")
    /\ \E a \in Addr :
          /\ pc' = [pc EXCEPT ![t] = a]
          /\ \/ Goto(t, "Dispatch")
             \/ code[t].kind = "HeavyOptimized" /\ a > code[t].pc /\ Goto(t, "Fetch")
    /\ LeaveCode(t)
    /\ UNCHANGED <<cacheVars, profiled, hot, status, toFlush, invalidations>>

(* A syscall from generated code; the region is not returned to. *)
Syscall(t) ==
    /\ In(t, "Run") \/ In(t, "Interpret")
    /\ LeaveCode(t)
    /\ Goto(t, "Exit")
    /\ UNCHANGED <<cacheVars, profiled, hot, pc, status, toFlush, invalidations>>

(* A batch of interpreted instructions, read from guest memory as it is. *)
Interpret(t) ==
    /\ In(t, "Interpret")
    /\ \E a \in Addr : pc' = [pc EXCEPT ![t] = a]
    /\ Goto(t, "Dispatch")
    /\ UNCHANGED <<cacheVars, profiled, hot, status, code, toFlush, obsolete,
                   invalidations>>

-----------------------------------------------------------------------------
(* Invalidation. *)

RunsBytesOf(u, start, end) ==
    /\ at[u] \in Generated
    /\ code[u].pc < end
    /\ code[u].pc + code[u].size > start

(* InvalidateGuestRange of runtime/translator.cc, from a syscall such as      *)
(* munmap, mprotect or riscv_flush_icache or from an interpreted IC IVAU: the *)
(* other threads are flushed only if the cache says an entry was invalidated. *)
Invalidate(t, start, end) ==
    /\ In(t, "Outside") \/ In(t, "Interpret")
    /\ invalidations < MaxInvalidations
    /\ start < end
    /\ TC!InvalidateGuestRange(start, end)
    /\ toFlush' = [toFlush EXCEPT ![t] =
           IF TC!InvalidatedExecutable(start, end) THEN Thread \ {t} ELSE {}]
    /\ profiled' = [a \in Addr |-> profiled[a] /\ a \notin TC!Erased(start, end)]
    /\ hot' = [a \in Addr |-> hot[a] /\ a \notin TC!Erased(start, end)]
    /\ code' = [u \in Thread |->
           IF code[u].pc \in TC!Erased(start, end)
           THEN [code[u] EXCEPT !.current = FALSE, !.live = FALSE] ELSE code[u]]
    /\ obsolete' = [u \in Thread |->
           IF obsolete[u] = "No" /\ RunsBytesOf(u, start, end)
           THEN IF code[u].current THEN "Invalidated" ELSE "Replaced"
           ELSE obsolete[u]]
    /\ invalidations' = invalidations + 1
    /\ UNCHANGED <<at, pc, status>>

(* One thread of the walk of FlushGuestCodeCache: a compare-and-swap from     *)
(* Enabled to Present.                                                        *)
Flush(t, u) ==
    /\ u \in toFlush[t]
    /\ status' = [status EXCEPT ![u] = IF @ = "Enabled" THEN "Present" ELSE @]
    /\ toFlush' = [toFlush EXCEPT ![t] = @ \ {u}]
    /\ UNCHANGED <<cacheVars, profiled, hot, at, pc, code, obsolete,
                   invalidations>>

-----------------------------------------------------------------------------

Next ==
    \E t \in Thread :
        \/ SetStop(t) \/ Enter(t) \/ Exit(t) \/ Dispatch(t) \/ Fetch(t)
        \/ Miss(t) \/ Hot(t) \/ Counted(t) \/ Publish(t)
        \/ BackEdge(t) \/ Loop(t) \/ RegionEnd(t) \/ Syscall(t) \/ Interpret(t)
        \/ \E start, end \in TC!Bound : Invalidate(t, start, end)
        \/ \E u \in Thread : Flush(t, u)

(* What a thread does without waiting for the guest program: runtime code    *)
(* runs to its end, a region without a loop reaches its exit, a loop reaches *)
(* its back edge.  That a loop, a syscall or host code ends is not assumed.  *)
RuntimeStep(t) ==
    \/ Dispatch(t) \/ Fetch(t) \/ Miss(t) \/ Counted(t) \/ Hot(t) \/ Publish(t)
    \/ Interpret(t)
    \/ \E u \in Thread : Flush(t, u)
    \/ BackEdge(t) \/ Loop(t)
    \/ In(t, "Run") /\ code[t].kind \notin LoopingKind /\ RegionEnd(t)

Spec == Init /\ [][Next]_vars /\ \A t \in Thread : WF_vars(RuntimeStep(t))

-----------------------------------------------------------------------------

TypeOK ==
    /\ TC!TypeOK
    /\ profiled \in [Addr -> BOOLEAN]
    /\ hot \in [Addr -> BOOLEAN]
    /\ at \in [Thread -> Phase]
    /\ pc \in [Thread -> Addr]
    /\ status \in [Thread -> {"Disabled", "Enabled", "Present"}]
    /\ code \in [Thread -> Code]
    /\ toFlush \in [Thread -> SUBSET Thread]
    /\ obsolete \in [Thread -> {"No", "Invalidated", "Replaced"}]
    /\ invalidations \in 0..MaxInvalidations

(* The thread is asked, or is about to be asked, to leave generated code. *)
Notified(u) == status[u] = "Present" \/ \E t \in Thread : u \in toFlush[t]

(* A thread that runs invalidated code which the address map pointed to when *)
(* it was invalidated is asked to leave it: FlushGuestCodeCache misses none  *)
(* that fetched the code before, whatever the order of its compare-and-swaps *)
(* and of the threads' own checks and fetches.                               *)
InvalidatedIsNotified ==
    \A u \in Thread :
        at[u] \in Generated /\ obsolete[u] = "Invalidated" => Notified(u)

(* Every step of the runtime is a step the cache allows. *)
CacheSpec == TC!Init /\ [][TC!Next]_cacheVars

(* Invalidated code that a thread was asked to leave is left, even if it      *)
(* loops: back edges and exits poll the status.                               *)
ObsoleteIsLeft ==
    \A u \in Thread :
        (at[u] \in Generated /\ obsolete[u] = "Invalidated")
            ~> (at[u] \notin Generated \/ obsolete[u] # "Invalidated")

(* A thread in the dispatcher gets to guest code, or out of the guest call:   *)
(* once invalidations stop, no one spins forever on an entry that is being    *)
(* translated or on a status that says Present.                               *)
DispatchEnds ==
    \A t \in Thread :
        at[t] = "Dispatch" ~> at[t] \in {"Run", "Count", "Interpret", "Exit"}
=============================================================================
