-------------------------- MODULE TranslationCache --------------------------
(***************************************************************************)
(* The cache of translated guest code (runtime_primitives/translation_cache)*)
(* with its most general clients: threads that translate and wrap regions  *)
(* the way runtime/<guest>/translator_<host>.cc and                        *)
(* host_function_wrapper_impl.cc do, and threads that invalidate ranges.   *)
(*                                                                         *)
(* Every operation runs under mutex_, so each is one action.  A thread     *)
(* that locked an entry keeps the raw GuestCodeEntry pointer until it      *)
(* unlocks; job[t] is that pointer, named by the guest pc of the entry.    *)
(* What the thread does between lock and unlock (decode, generate,         *)
(* install) is the time during which the other threads interleave.        *)
(***************************************************************************)
EXTENDS Integers, FiniteSets

CONSTANTS
    Thread,               \* host threads that run guest code
    Addr,                 \* guest addresses that occur as region starts
    StopAddr,             \* the addresses SetStop is called for
    InsnSize,             \* sizes of one guest instruction
    MaxRegion,            \* size of the longest region a translator makes
    ColdThreshold,        \* counter_threshold of AddAndLockForTranslation
    GearSwitchThreshold   \* config::kGearSwitchThreshold

ASSUME CacheAssumption ==
    /\ Addr \subseteq Nat
    /\ StopAddr \subseteq Addr
    /\ InsnSize \subseteq 1..MaxRegion
    /\ MaxRegion \in Nat \ {0}
    /\ ColdThreshold \in Nat
    /\ GearSwitchThreshold \in Nat

VARIABLES
    hostCode,      \* address_map_: the code that runs when pc is dispatched
    kind,          \* guest_entries_[pc].kind, Absent when there is no entry
    guestSize,     \* guest_entries_[pc].guest_size
    counter,       \* guest_entries_[pc].invocation_counter
    translating,   \* translating_
    maxGuestSize,  \* max_guest_size_
    job,           \* the entry each thread holds locked
    dirty          \* history: the addresses invalidated since pc was locked

cacheVars == <<hostCode, kind, guestSize, counter, translating, maxGuestSize,
               job, dirty>>

-----------------------------------------------------------------------------

HostCode == {"NotTranslated", "Translating", "Invalidating", "Wrapping",
             "Stop", "NoExec", "Interpret", "Generated"}

Absent == "Absent"

FinishedKind == {"Interpreted", "LiteTranslated", "HeavyOptimized",
                 "SpecialHandler", "GuestWrapped", "HostWrapped"}

Kind == FinishedKind \cup {"UnderProcessing", Absent}

NoJob == [pc |-> -1, op |-> "None"]
Job == [pc : Addr, op : {"Translate", "GearUp", "Wrap"}] \cup {NoJob}

Idle(t) == job[t] = NoJob

(* The guest addresses the entry at pc was made from. *)
Region(pc) == pc .. (pc + guestSize[pc] - 1)

(* What SetTranslatedAndUnlock may be given: a lite or heavy region, an     *)
(* instruction left to the interpreter, or a non-executable address.       *)
Translation ==
    [code : {"Generated"}, kind : {"LiteTranslated", "HeavyOptimized"},
     size : 1..MaxRegion]
    \cup [code : {"Interpret"}, kind : {"Interpreted"}, size : InsnSize]
    \cup [code : {"NoExec"}, kind : {"SpecialHandler"}, size : InsnSize]

-----------------------------------------------------------------------------

Init ==
    /\ hostCode = [pc \in Addr |-> "NotTranslated"]
    /\ kind = [pc \in Addr |-> Absent]
    /\ guestSize = [pc \in Addr |-> 1]
    /\ counter = [pc \in Addr |-> 0]
    /\ translating = {}
    /\ maxGuestSize = 1
    /\ job = [t \in Thread |-> NoJob]
    /\ dirty = [pc \in Addr |-> {}]

(* CAS of the address map cell; no entry is made and no mutex is taken. *)
SetStop(pc) ==
    /\ hostCode[pc] = "NotTranslated"
    /\ hostCode' = [hostCode EXCEPT ![pc] = "Stop"]
    /\ UNCHANGED <<kind, guestSize, counter, translating, maxGuestSize, job,
                   dirty>>

(* LockForTranslationUnsafe, and the history of the new translation starts. *)
LockForTranslation(t, pc, op) ==
    /\ hostCode' = [hostCode EXCEPT ![pc] = "Translating"]
    /\ kind' = [kind EXCEPT ![pc] = "UnderProcessing"]
    /\ translating' = translating \cup {pc}
    /\ job' = [job EXCEPT ![t] = [pc |-> pc, op |-> op]]
    /\ dirty' = [dirty EXCEPT ![pc] = {}]

(* The entry's code, or NotTranslated when AddUnsafe just inserted it. *)
CodeAfterAdd(pc) == IF kind[pc] = Absent THEN "NotTranslated" ELSE hostCode[pc]

(* The entry is cold: count the visit and let the caller interpret.  AddUnsafe *)
(* inserts the entry if there is none.                                         *)
CountColdVisit(t, pc) ==
    /\ Idle(t)
    /\ CodeAfterAdd(pc) = "NotTranslated"
    /\ counter[pc] < ColdThreshold
    /\ counter' = [counter EXCEPT ![pc] = @ + 1]
    /\ kind' = [kind EXCEPT ![pc] = IF @ = Absent THEN "Interpreted" ELSE @]
    /\ hostCode' = [hostCode EXCEPT ![pc] = "NotTranslated"]
    /\ UNCHANGED <<guestSize, translating, maxGuestSize, job, dirty>>

AddAndLockForTranslation(t, pc) ==
    /\ Idle(t)
    /\ CodeAfterAdd(pc) = "NotTranslated"
    /\ counter[pc] >= ColdThreshold
    /\ LockForTranslation(t, pc, "Translate")
    /\ UNCHANGED <<guestSize, counter, maxGuestSize>>

(* Mutant: the entry is not checked to be still lite-translated. *)
LockAnyForGearUp(t, pc) ==
    /\ Idle(t)
    /\ kind[pc] # Absent
    /\ LockForTranslation(t, pc, "GearUp")
    /\ UNCHANGED <<guestSize, counter, maxGuestSize>>

LockForGearUpTranslation(t, pc) ==
    /\ Idle(t)
    /\ kind[pc] = "LiteTranslated"
    /\ LockForTranslation(t, pc, "GearUp")
    /\ UNCHANGED <<guestSize, counter, maxGuestSize>>

(* A first-gear lite translation zeroes the counter of the entry it holds:  *)
(* GenIncrementProfileCounter writes it without the mutex.                  *)
ResetProfileCounter(t) ==
    /\ job[t].op = "Translate"
    /\ counter' = [counter EXCEPT ![job[t].pc] = 0]
    /\ UNCHANGED <<hostCode, kind, guestSize, translating, maxGuestSize, job,
                   dirty>>

(* guest_entries_.erase for every pc of S; size 1 is what AddUnsafe is given *)
(* for the next entry there.                                                 *)
Erase(S) ==
    /\ kind' = [pc \in Addr |-> IF pc \in S THEN Absent ELSE kind[pc]]
    /\ guestSize' = [pc \in Addr |-> IF pc \in S THEN 1 ELSE guestSize[pc]]
    /\ counter' = [pc \in Addr |-> IF pc \in S THEN 0 ELSE counter[pc]]

(* Mutant: the invalidated entry is neither reset nor erased. *)
AbandonWithoutErase(t) ==
    /\ job[t] # NoJob
    /\ hostCode[job[t].pc] = "Invalidating"
    /\ job' = [job EXCEPT ![t] = NoJob]
    /\ UNCHANGED <<hostCode, kind, guestSize, counter, translating,
                   maxGuestSize, dirty>>

(* The entry was invalidated while the thread held it: throw the result away. *)
Abandon(t) ==
    LET pc == job[t].pc IN
    /\ job[t] # NoJob
    /\ hostCode[pc] = "Invalidating"
    /\ hostCode' = [hostCode EXCEPT ![pc] = "NotTranslated"]
    /\ Erase({pc})
    /\ job' = [job EXCEPT ![t] = NoJob]
    /\ dirty' = [dirty EXCEPT ![pc] = {}]
    /\ UNCHANGED <<translating, maxGuestSize>>

SetTranslatedAndUnlock(t, tr) ==
    LET pc == job[t].pc IN
    /\ job[t].op \in {"Translate", "GearUp"}
    /\ hostCode[pc] # "Invalidating"
    /\ hostCode' = [hostCode EXCEPT ![pc] = tr.code]
    /\ guestSize' = [guestSize EXCEPT ![pc] = tr.size]
    /\ kind' = [kind EXCEPT ![pc] = tr.kind]
    /\ translating' = translating \ {pc}
    /\ maxGuestSize' = IF maxGuestSize < tr.size THEN tr.size ELSE maxGuestSize
    /\ job' = [job EXCEPT ![t] = NoJob]
    /\ UNCHANGED <<counter, dirty>>

AddAndLockForWrapping(t, pc) ==
    /\ Idle(t)
    /\ kind[pc] = Absent
    /\ hostCode' = [hostCode EXCEPT ![pc] = "Wrapping"]
    /\ kind' = [kind EXCEPT ![pc] = "UnderProcessing"]
    /\ job' = [job EXCEPT ![t] = [pc |-> pc, op |-> "Wrap"]]
    /\ dirty' = [dirty EXCEPT ![pc] = {}]
    /\ UNCHANGED <<guestSize, counter, translating, maxGuestSize>>

SetWrappedAndUnlock(t, wrapped) ==
    LET pc == job[t].pc IN
    /\ job[t].op = "Wrap"
    /\ hostCode[pc] # "Invalidating"
    /\ hostCode' = [hostCode EXCEPT ![pc] = "Generated"]
    /\ kind' = [kind EXCEPT ![pc] = wrapped]
    /\ job' = [job EXCEPT ![t] = NoJob]
    /\ UNCHANGED <<guestSize, counter, translating, maxGuestSize, dirty>>

-----------------------------------------------------------------------------
(* Invalidation of the guest range start .. end - 1. *)

(* Mutant: the loop starts one address too late. *)
VisitedLate(start, end) ==
    {pc \in Addr : /\ kind[pc] # Absent
                   /\ start <= maxGuestSize \/ pc > start - maxGuestSize + 1
                   /\ pc < end}

(* The entries the loop visits: it starts at the first entry that may reach  *)
(* into the range, given the longest size seen, and stops at the range's end. *)
Visited(start, end) ==
    {pc \in Addr : /\ kind[pc] # Absent
                   /\ start <= maxGuestSize \/ pc > start - maxGuestSize
                   /\ pc < end}

Overlapping(start, end) ==
    {pc \in Visited(start, end) : pc + guestSize[pc] > start}

(* InvalidateEntriesBeingTranslatedUnsafe has already marked translating_. *)
Skipped(pc) == pc \in translating \/ hostCode[pc] = "Invalidating"

Wrappings(start, end) ==
    {pc \in Overlapping(start, end) : hostCode[pc] = "Wrapping"}

(* Mutant: no case of its own for an entry being wrapped. *)
ErasedWithWrappings(start, end) ==
    {pc \in Overlapping(start, end) : ~Skipped(pc)}

Erased(start, end) ==
    {pc \in Overlapping(start, end) : ~Skipped(pc) /\ hostCode[pc] # "Wrapping"}

(* Mutant: erasing a finished entry does not ask for a flush. *)
InvalidatedWrapping(start, end) == Wrappings(start, end) # {}

(* The result: whether the caller flushes the guest code cache. *)
InvalidatedExecutable(start, end) ==
    Wrappings(start, end) \cup Erased(start, end) # {}

(* Mutant: every address map cell of the range is reset, entry or not. *)
InvalidateCells(start, end) ==
    /\ hostCode' = [pc \in Addr |->
           IF pc \in translating \cup Wrappings(start, end) THEN "Invalidating"
           ELSE IF pc \in Erased(start, end) \/ (pc \in start .. end - 1 /\ kind[pc] = Absent)
           THEN "NotTranslated" ELSE hostCode[pc]]
    /\ Erase(Erased(start, end))
    /\ translating' = {}
    /\ dirty' = [pc \in Addr |->
           IF pc \in Erased(start, end) \/ kind[pc] = Absent THEN {}
           ELSE dirty[pc] \cup (start .. end - 1)]
    /\ UNCHANGED <<maxGuestSize, job>>

InvalidateGuestRange(start, end) ==
    /\ hostCode' = [pc \in Addr |->
           IF pc \in translating \cup Wrappings(start, end) THEN "Invalidating"
           ELSE IF pc \in Erased(start, end) THEN "NotTranslated"
           ELSE hostCode[pc]]
    /\ Erase(Erased(start, end))
    /\ translating' = {}
    /\ dirty' = [pc \in Addr |->
           IF pc \in Erased(start, end) \/ kind[pc] = Absent THEN {}
           ELSE dirty[pc] \cup (start .. end - 1)]
    /\ UNCHANGED <<maxGuestSize, job>>

(* Counters of the lite regions within range of target reach the threshold. *)
TriggerGearShift(target, range) ==
    /\ counter' = [pc \in Addr |->
           IF /\ kind[pc] = "LiteTranslated"
              /\ pc >= target - range
              /\ pc <= target + range
           THEN GearSwitchThreshold ELSE counter[pc]]
    /\ UNCHANGED <<hostCode, kind, guestSize, translating, maxGuestSize, job,
                   dirty>>

(* The child of a clone without CLONE_VM: only t survives, it holds no lock, *)
(* and FinishFork drops what the others were working on.                     *)
ForkChild(t) ==
    LET unfinished == {pc \in Addr : kind[pc] = "UnderProcessing"} IN
    /\ Idle(t)
    /\ hostCode' = [pc \in Addr |->
           IF pc \in unfinished THEN "NotTranslated" ELSE hostCode[pc]]
    /\ Erase(unfinished)
    /\ translating' = {}
    /\ job' = [u \in Thread |-> NoJob]
    /\ dirty' = [pc \in Addr |-> IF pc \in unfinished THEN {} ELSE dirty[pc]]
    /\ UNCHANGED maxGuestSize

-----------------------------------------------------------------------------

CodeAddr == Addr \ StopAddr

Bound == Addr \cup {pc + 1 : pc \in Addr}

Unlock(t) ==
    \/ Abandon(t)
    \/ \E tr \in Translation : SetTranslatedAndUnlock(t, tr)
    \/ \E w \in {"GuestWrapped", "HostWrapped"} : SetWrappedAndUnlock(t, w)

Next ==
    \/ \E pc \in StopAddr : SetStop(pc)
    \/ \E t \in Thread, pc \in CodeAddr : CountColdVisit(t, pc)
    \/ \E t \in Thread, pc \in CodeAddr : AddAndLockForTranslation(t, pc)
    \/ \E t \in Thread, pc \in CodeAddr : LockForGearUpTranslation(t, pc)
    \/ \E t \in Thread, pc \in CodeAddr : AddAndLockForWrapping(t, pc)
    \/ \E t \in Thread : ResetProfileCounter(t)
    \/ \E t \in Thread : Unlock(t)
    \/ \E start, end \in Bound : start < end /\ InvalidateGuestRange(start, end)
    \/ \E target \in CodeAddr, range \in 0..1 : TriggerGearShift(target, range)
    \/ \E t \in Thread : ForkChild(t)

(* A translator or wrapper never waits between lock and unlock, so it gets  *)
(* there; nothing else is assumed of the threads.                           *)
Spec == Init /\ [][Next]_cacheVars /\ \A t \in Thread : WF_cacheVars(Unlock(t))

-----------------------------------------------------------------------------

TypeOK ==
    /\ hostCode \in [Addr -> HostCode]
    /\ kind \in [Addr -> Kind]
    /\ guestSize \in [Addr -> 1..MaxRegion]
    /\ counter \in [Addr -> Nat]
    /\ translating \subseteq Addr
    /\ maxGuestSize \in 1..MaxRegion
    /\ job \in [Thread -> Job]
    /\ dirty \in [Addr -> SUBSET Int]

(* Code that can be dispatched was made from bytes that have not been       *)
(* invalidated since its translation began: InvalidateGuestRange removes    *)
(* every finished entry that overlaps the range and makes every translation *)
(* in flight come to nothing.                                               *)
NoObsoleteCode ==
    \A pc \in Addr : kind[pc] \in FinishedKind => Region(pc) \cap dirty[pc] = {}

(* The GuestCodeEntry pointer a thread keeps across its translation stays    *)
(* valid and its own: the entry is there, UnderProcessing, in the state the  *)
(* CHECKs of Set...AndUnlock expect, and no other thread holds it.           *)
LockedEntryIsOwned ==
    /\ \A t \in Thread : job[t] # NoJob =>
           /\ kind[job[t].pc] = "UnderProcessing"
           /\ hostCode[job[t].pc] \in
                  IF job[t].op = "Wrap" THEN {"Wrapping", "Invalidating"}
                                        ELSE {"Translating", "Invalidating"}
           /\ \A u \in Thread \ {t} : job[u] # NoJob => job[u].pc # job[t].pc
    /\ \A pc \in Addr : kind[pc] = "UnderProcessing" =>
           \E t \in Thread : job[t] # NoJob /\ job[t].pc = pc

(* translating_ is the set of entries in state Translating, which the CHECKs *)
(* of InvalidateEntriesBeingTranslatedUnsafe and SetTranslatedAndUnlock      *)
(* take for granted.                                                         *)
TranslatingIsExact ==
    translating = {pc \in Addr : hostCode[pc] = "Translating"}

(* No entry is longer than max_guest_size_, so starting the loop at          *)
(* upper_bound(start - max_guest_size_) skips no entry that reaches start.   *)
MaxSizeBounds ==
    \A pc \in Addr : kind[pc] # Absent => guestSize[pc] <= maxGuestSize

(* A stop address set for the return from guest calls is never lost, though  *)
(* invalidations range over it and it has no entry to protect it.            *)
StopIsPermanent ==
    [][\A pc \in Addr : hostCode[pc] = "Stop" => hostCode'[pc] = "Stop"]_cacheVars

(* The state of a locked entry is changed only by its owner, by a            *)
(* fork that drops the owner, or by an invalidation that marks it.           *)
OnlyOwnerUnlocks ==
    [][\A t \in Thread : job[t] # NoJob /\ job'[t] = job[t] =>
           \/ hostCode'[job[t].pc] = hostCode[job[t].pc]
           \/ hostCode'[job[t].pc] = "Invalidating"]_cacheVars

(* An entry that is locked, invalidated or not, is eventually released, so   *)
(* threads that wait at its pc in the dispatcher get to run again.           *)
LockedIsReleased ==
    \A pc \in CodeAddr : kind[pc] = "UnderProcessing" ~> kind[pc] # "UnderProcessing"
=============================================================================
