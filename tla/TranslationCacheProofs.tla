----------------------- MODULE TranslationCacheProofs -----------------------
(***************************************************************************)
(* Proofs about the translation cache, for any number of threads, any set  *)
(* of guest addresses and any region length.                               *)
(*                                                                         *)
(* NoObsoleteCode is not inductive by itself.  That a result published by  *)
(* SetTranslatedAndUnlock is fresh rests on the entry having been in state *)
(* Translating all the time, hence untouched by any invalidation           *)
(* (LockHistory), which the unlocking thread may conclude because the      *)
(* entry is its own (LockedEntryIsOwned).  That an invalidation misses no  *)
(* finished entry rests on MaxSizeBounds.                                  *)
(***************************************************************************)
EXTENDS TranslationCache, TLAPS

Locked == {"Translating", "Wrapping", "Invalidating"}

(* What the state of an entry says of its past: a locked state means that   *)
(* some thread works on it, Translating that nothing was invalidated since, *)
(* Wrapping that the one address it covers was not.                         *)
LockHistory ==
    \A pc \in Addr :
        /\ hostCode[pc] \in Locked => kind[pc] = "UnderProcessing"
        /\ hostCode[pc] = "Translating" => dirty[pc] = {}
        /\ hostCode[pc] = "Wrapping" => guestSize[pc] = 1 /\ pc \notin dirty[pc]
        /\ kind[pc] = Absent => guestSize[pc] = 1 /\ dirty[pc] = {}

(* Stop is a state of addresses that are not code, which have no entry. *)
StopHasNoEntry ==
    \A pc \in Addr :
        /\ hostCode[pc] = "Stop" => pc \in StopAddr
        /\ pc \in StopAddr => kind[pc] = Absent

IInv ==
    /\ TypeOK
    /\ LockedEntryIsOwned
    /\ TranslatingIsExact
    /\ MaxSizeBounds
    /\ NoObsoleteCode
    /\ LockHistory
    /\ StopHasNoEntry

-----------------------------------------------------------------------------

(* The empty cache satisfies the invariant. *)
LEMMA InitIInv == Init => IInv
  BY CacheAssumption
  DEF Init, IInv, TypeOK, LockedEntryIsOwned, TranslatingIsExact,
      MaxSizeBounds, NoObsoleteCode, LockHistory, StopHasNoEntry, HostCode,
      Kind, Absent, FinishedKind, Job, NoJob, Region, Locked

(* One lemma per action: it preserves the invariant.  The conjuncts are      *)
(* proved one at a time; what a leaf expands is what that conjunct needs.    *)

(* SetStop moves a cell from NotTranslated to Stop. *)
LEMMA SetStopInv ==
  ASSUME IInv, NEW pc \in StopAddr, SetStop(pc)
  PROVE  IInv'
<1> USE DEF IInv
<1>1. TypeOK'
  BY CacheAssumption DEF HostCode, TypeOK, SetStop
<1>2. LockedEntryIsOwned'
  BY DEF LockedEntryIsOwned, SetStop
<1>3. TranslatingIsExact'
  BY DEF TranslatingIsExact, SetStop
<1>4. MaxSizeBounds'
  BY DEF MaxSizeBounds, SetStop
<1>5. NoObsoleteCode'
  BY DEF Region, NoObsoleteCode, SetStop
<1>6. LockHistory'
  BY DEF Locked, LockHistory, SetStop
<1>7. StopHasNoEntry'
  BY DEF StopHasNoEntry, SetStop
<1> QED BY <1>1, <1>2, <1>3, <1>4, <1>5, <1>6, <1>7

(* A cold visit may add an entry that is not locked. *)
LEMMA CountColdVisitInv ==
  ASSUME IInv, NEW t \in Thread, NEW pc \in CodeAddr, CountColdVisit(t, pc)
  PROVE  IInv'
<1> USE DEF IInv
<1>1. TypeOK'
  BY DEF FinishedKind, Kind, HostCode, TypeOK, CountColdVisit, CodeAddr
<1>2. LockedEntryIsOwned'
  BY DEF Absent, LockedEntryIsOwned, CountColdVisit, CodeAfterAdd
<1>3. TranslatingIsExact'
  BY DEF LockHistory, Locked, Absent, TranslatingIsExact, CountColdVisit,
    CodeAfterAdd
<1>4. MaxSizeBounds'
  BY DEF LockHistory, TypeOK, MaxSizeBounds, CountColdVisit
<1>5. NoObsoleteCode'
  BY DEF LockHistory, Region, NoObsoleteCode, CountColdVisit
<1>6. LockHistory'
  BY DEF Locked, TypeOK, LockHistory, CountColdVisit
<1>7. StopHasNoEntry'
  BY DEF StopHasNoEntry, CountColdVisit, CodeAddr
<1> QED BY <1>1, <1>2, <1>3, <1>4, <1>5, <1>6, <1>7

(* First gear: the locked entry was nobody's, and its history starts empty. *)
LEMMA AddAndLockInv ==
  ASSUME IInv, NEW t \in Thread, NEW pc \in CodeAddr, AddAndLockForTranslation(t, pc)
  PROVE  IInv'
<1> USE DEF IInv
<1>1. TypeOK'
  BY DEF Kind, HostCode, Job, TypeOK, AddAndLockForTranslation,
    LockForTranslation, CodeAddr
<1>2. LockedEntryIsOwned'
  BY DEF Absent, NoJob, Idle, TypeOK, LockedEntryIsOwned,
    AddAndLockForTranslation, LockForTranslation, CodeAfterAdd, CodeAddr
<1>3. TranslatingIsExact'
  BY DEF TypeOK, TranslatingIsExact, AddAndLockForTranslation,
    LockForTranslation, CodeAddr
<1>4. MaxSizeBounds'
  BY DEF LockHistory, TypeOK, MaxSizeBounds, AddAndLockForTranslation
<1>5. NoObsoleteCode'
  BY DEF Region, TypeOK, NoObsoleteCode, AddAndLockForTranslation,
    LockForTranslation
<1>6. LockHistory'
  BY DEF Absent, TypeOK, LockHistory, AddAndLockForTranslation,
    LockForTranslation
<1>7. StopHasNoEntry'
  BY DEF StopHasNoEntry, AddAndLockForTranslation, LockForTranslation,
    CodeAddr
<1> QED BY <1>1, <1>2, <1>3, <1>4, <1>5, <1>6, <1>7

(* Second gear locks a finished entry, hence nobody's. *)
LEMMA GearUpInv ==
  ASSUME IInv, NEW t \in Thread, NEW pc \in CodeAddr, LockForGearUpTranslation(t, pc)
  PROVE  IInv'
<1> USE DEF IInv
<1>1. TypeOK'
  BY DEF Kind, HostCode, Job, TypeOK, LockForGearUpTranslation,
    LockForTranslation, CodeAddr
<1>2. LockedEntryIsOwned'
  BY DEF NoJob, Idle, TypeOK, LockedEntryIsOwned, LockForGearUpTranslation,
    LockForTranslation, CodeAddr
<1>3. TranslatingIsExact'
  BY DEF TypeOK, TranslatingIsExact, LockForGearUpTranslation,
    LockForTranslation, CodeAddr
<1>4. MaxSizeBounds'
  BY DEF Absent, MaxSizeBounds, LockForGearUpTranslation, LockForTranslation
<1>5. NoObsoleteCode'
  BY DEF Region, TypeOK, NoObsoleteCode, LockForGearUpTranslation,
    LockForTranslation
<1>6. LockHistory'
  BY DEF Absent, TypeOK, LockHistory, LockForGearUpTranslation,
    LockForTranslation
<1>7. StopHasNoEntry'
  BY DEF StopHasNoEntry, LockForGearUpTranslation, LockForTranslation,
    CodeAddr
<1> QED BY <1>1, <1>2, <1>3, <1>4, <1>5, <1>6, <1>7

(* Wrapping locks an entry it has just added. *)
LEMMA AddAndLockForWrappingInv ==
  ASSUME IInv, NEW t \in Thread, NEW pc \in CodeAddr, AddAndLockForWrapping(t, pc)
  PROVE  IInv'
<1> USE DEF IInv
<1>1. TypeOK'
  BY DEF Kind, HostCode, Job, TypeOK, AddAndLockForWrapping, CodeAddr
<1>2. LockedEntryIsOwned'
  BY DEF Absent, NoJob, Idle, TypeOK, LockedEntryIsOwned,
    AddAndLockForWrapping, CodeAddr
<1>3. TranslatingIsExact'
  BY DEF LockHistory, Locked, Absent, TranslatingIsExact,
    AddAndLockForWrapping
<1>4. MaxSizeBounds'
  BY DEF LockHistory, TypeOK, MaxSizeBounds, AddAndLockForWrapping
<1>5. NoObsoleteCode'
  BY DEF Region, TypeOK, NoObsoleteCode, AddAndLockForWrapping
<1>6. LockHistory'
  BY DEF TypeOK, LockHistory, AddAndLockForWrapping
<1>7. StopHasNoEntry'
  BY DEF StopHasNoEntry, AddAndLockForWrapping, CodeAddr
<1> QED BY <1>1, <1>2, <1>3, <1>4, <1>5, <1>6, <1>7

(* The owner erases its invalidated entry. *)
LEMMA AbandonInv ==
  ASSUME IInv, NEW t \in Thread, Abandon(t)
  PROVE  IInv'
<1> USE DEF IInv
<1>1. TypeOK'
  BY CacheAssumption DEF Kind, HostCode, Job, TypeOK, Abandon, Erase
<1>2. LockedEntryIsOwned'
  BY DEF Job, Absent, TypeOK, LockedEntryIsOwned, Abandon, Erase
<1>3. TranslatingIsExact'
  BY DEF TranslatingIsExact, Abandon
<1>4. MaxSizeBounds'
  BY DEF MaxSizeBounds, Abandon, Erase
<1>5. NoObsoleteCode'
  BY DEF Region, TypeOK, NoObsoleteCode, Abandon, Erase
<1>6. LockHistory'
  BY DEF Locked, TypeOK, LockHistory, Abandon, Erase
<1>7. StopHasNoEntry'
  BY DEF StopHasNoEntry, Abandon, Erase
<1> QED BY <1>1, <1>2, <1>3, <1>4, <1>5, <1>6, <1>7

(* The owner publishes a translation nothing of which was invalidated. *)
LEMMA SetTranslatedInv ==
  ASSUME IInv, NEW t \in Thread, NEW tr \in Translation, SetTranslatedAndUnlock(t, tr)
  PROVE  IInv'
<1> USE DEF IInv
<1>1. TypeOK'
  <2>1. job[t] # NoJob /\ job[t].pc \in Addr /\ job[t] \in Job
    BY DEF TypeOK, Job, NoJob, SetTranslatedAndUnlock
  <2>2. tr.code \in HostCode /\ tr.kind \in Kind /\ tr.size \in 1..MaxRegion
    BY CacheAssumption DEF Translation, HostCode, Kind, FinishedKind
  <2> QED BY <2>1, <2>2 DEF TypeOK, SetTranslatedAndUnlock, Job
<1>2. LockedEntryIsOwned'
  BY DEF NoJob, TypeOK, LockedEntryIsOwned, SetTranslatedAndUnlock,
    Translation
<1>3. TranslatingIsExact'
  BY DEF TypeOK, TranslatingIsExact, SetTranslatedAndUnlock, Translation
<1>4. MaxSizeBounds'
  <2>1. tr.size \in 1..MaxRegion
    BY CacheAssumption DEF Translation
  <2> QED BY <2>1 DEF MaxSizeBounds, TypeOK, LockedEntryIsOwned, SetTranslatedAndUnlock,
                     Absent, Job, NoJob
<1>5. NoObsoleteCode'
  BY DEF LockHistory, LockedEntryIsOwned, Region, NoJob, NoObsoleteCode,
    SetTranslatedAndUnlock
<1>6. LockHistory'
  BY DEF Locked, Absent, TypeOK, LockHistory, SetTranslatedAndUnlock,
    Translation
<1>7. StopHasNoEntry'
  BY DEF LockedEntryIsOwned, Absent, NoJob, StopHasNoEntry,
    SetTranslatedAndUnlock, Translation
<1> QED BY <1>1, <1>2, <1>3, <1>4, <1>5, <1>6, <1>7

(* The owner publishes a wrapper whose address was not invalidated. *)
LEMMA SetWrappedInv ==
  ASSUME IInv, NEW t \in Thread, NEW w \in {"GuestWrapped", "HostWrapped"}, SetWrappedAndUnlock(t, w)
  PROVE  IInv'
<1> USE DEF IInv
<1>1. TypeOK'
  BY DEF FinishedKind, Kind, HostCode, Job, NoJob, TypeOK,
    SetWrappedAndUnlock
<1>2. LockedEntryIsOwned'
  BY DEF NoJob, TypeOK, LockedEntryIsOwned, SetWrappedAndUnlock
<1>3. TranslatingIsExact'
  BY DEF LockedEntryIsOwned, NoJob, TranslatingIsExact, SetWrappedAndUnlock
<1>4. MaxSizeBounds'
  BY DEF LockedEntryIsOwned, Absent, NoJob, MaxSizeBounds,
    SetWrappedAndUnlock
<1>5. NoObsoleteCode'
  BY CacheAssumption DEF StopHasNoEntry, LockHistory, LockedEntryIsOwned,
    Region, NoJob, NoObsoleteCode, SetWrappedAndUnlock
<1>6. LockHistory'
  BY DEF Locked, Absent, TypeOK, LockHistory, SetWrappedAndUnlock
<1>7. StopHasNoEntry'
  BY DEF LockedEntryIsOwned, Absent, NoJob, StopHasNoEntry,
    SetWrappedAndUnlock
<1> QED BY <1>1, <1>2, <1>3, <1>4, <1>5, <1>6, <1>7

(* Invalidation reaches every finished entry that overlaps the range. *)
LEMMA InvalidateInv ==
  ASSUME IInv, NEW start \in Int, NEW end \in Int, InvalidateGuestRange(start, end)
  PROVE  IInv'
<1> USE DEF IInv
<1>1. TypeOK'
  BY CacheAssumption DEF Kind, HostCode, TypeOK, InvalidateGuestRange, Erase
<1>2. LockedEntryIsOwned'
  BY DEF TranslatingIsExact, Job, Absent, TypeOK, LockedEntryIsOwned,
    InvalidateGuestRange, Erased, Skipped, Erase
<1>3. TranslatingIsExact'
  BY DEF TranslatingIsExact, InvalidateGuestRange
<1>4. MaxSizeBounds'
  BY DEF MaxSizeBounds, InvalidateGuestRange, Erase
<1>5. NoObsoleteCode'
  <2> SUFFICES ASSUME NEW a \in Addr, kind'[a] \in FinishedKind
               PROVE  Region(a)' \cap dirty'[a] = {}
    BY DEF NoObsoleteCode
  <2>1. a \notin Erased(start, end) /\ kind[a] \in FinishedKind
    BY DEF InvalidateGuestRange, Erase, FinishedKind, Absent
  <2>2. ~Skipped(a) /\ hostCode[a] # "Wrapping"
    BY <2>1 DEF Skipped, TranslatingIsExact, LockHistory, Locked, FinishedKind
  <2>3. a \notin Visited(start, end) \/ a + guestSize[a] <= start
    BY <2>1, <2>2, CacheAssumption DEF Erased, Overlapping, TypeOK
  <2>4. a + guestSize[a] <= start \/ a >= end
    <3>1. kind[a] # Absent /\ guestSize[a] <= maxGuestSize
      BY <2>1 DEF MaxSizeBounds, FinishedKind, Absent
    <3>2. a \in Int /\ guestSize[a] \in Int /\ maxGuestSize \in Int
      BY CacheAssumption DEF TypeOK
    <3> QED BY <2>3, <3>1, <3>2 DEF Visited
  <2>5. Region(a) \cap (start .. end - 1) = {}
    BY <2>4, CacheAssumption DEF Region, TypeOK
  <2>6. Region(a)' = Region(a) /\ dirty'[a] \subseteq dirty[a] \cup (start .. end - 1)
    BY <2>1 DEF Region, InvalidateGuestRange, Erase
  <2> QED BY <2>1, <2>5, <2>6 DEF NoObsoleteCode
<1>6. LockHistory'
  BY DEF TranslatingIsExact, Locked, TypeOK, LockHistory,
    InvalidateGuestRange, Erased, Wrappings, Skipped, Overlapping, Visited,
    Erase
<1>7. StopHasNoEntry'
  BY DEF StopHasNoEntry, InvalidateGuestRange, Erase
<1> QED BY <1>1, <1>2, <1>3, <1>4, <1>5, <1>6, <1>7

(* FinishFork leaves no entry without an owner. *)
LEMMA ForkChildInv ==
  ASSUME IInv, NEW t \in Thread, ForkChild(t)
  PROVE  IInv'
<1> USE DEF IInv
<1>1. TypeOK'
  BY CacheAssumption DEF Kind, HostCode, Idle, TypeOK, ForkChild, Erase
<1>2. LockedEntryIsOwned'
  BY DEF Absent, LockedEntryIsOwned, ForkChild, Erase
<1>3. TranslatingIsExact'
  BY DEF TranslatingIsExact, LockHistory, Locked, ForkChild, Erase, TypeOK
<1>4. MaxSizeBounds'
  BY DEF MaxSizeBounds, ForkChild, Erase
<1>5. NoObsoleteCode'
  BY DEF Region, NoObsoleteCode, ForkChild, Erase
<1>6. LockHistory'
  BY DEF Locked, LockHistory, ForkChild, Erase
<1>7. StopHasNoEntry'
  BY DEF StopHasNoEntry, ForkChild, Erase
<1> QED BY <1>1, <1>2, <1>3, <1>4, <1>5, <1>6, <1>7

(* The two actions that only write counters. *)
LEMMA CounterOnlyInv ==
  ASSUME IInv, counter' \in [Addr -> Nat],
         UNCHANGED <<hostCode, kind, guestSize, translating, maxGuestSize, job,
                     dirty>>
  PROVE  IInv'
  BY DEF IInv, TypeOK, LockedEntryIsOwned, TranslatingIsExact, MaxSizeBounds,
         NoObsoleteCode, LockHistory, StopHasNoEntry, Region

(* The invariant is inductive. *)
THEOREM Inductive == IInv /\ [Next]_cacheVars => IInv'
<1> SUFFICES ASSUME IInv, [Next]_cacheVars PROVE IInv'
  OBVIOUS
<1>1. ASSUME NEW pc \in StopAddr, SetStop(pc) PROVE IInv'
  BY <1>1, SetStopInv
<1>2. ASSUME NEW t \in Thread, NEW pc \in CodeAddr, CountColdVisit(t, pc) PROVE IInv'
  BY <1>2, CountColdVisitInv
<1>3. ASSUME NEW t \in Thread, NEW pc \in CodeAddr, AddAndLockForTranslation(t, pc)
      PROVE IInv'
  BY <1>3, AddAndLockInv
<1>4. ASSUME NEW t \in Thread, NEW pc \in CodeAddr, LockForGearUpTranslation(t, pc)
      PROVE IInv'
  BY <1>4, GearUpInv
<1>5. ASSUME NEW t \in Thread, NEW pc \in CodeAddr, AddAndLockForWrapping(t, pc)
      PROVE IInv'
  BY <1>5, AddAndLockForWrappingInv
<1>6. ASSUME NEW t \in Thread, ResetProfileCounter(t) PROVE IInv'
  BY <1>6, CounterOnlyInv DEF ResetProfileCounter, IInv, TypeOK
<1>7. ASSUME NEW t \in Thread, Unlock(t) PROVE IInv'
  BY <1>7, AbandonInv, SetTranslatedInv, SetWrappedInv DEF Unlock
<1>8. ASSUME NEW start \in Bound, NEW end \in Bound, InvalidateGuestRange(start, end)
      PROVE IInv'
  <2>1. start \in Int /\ end \in Int
    BY CacheAssumption DEF Bound
  <2> QED BY <1>8, <2>1, InvalidateInv
<1>9. ASSUME NEW target \in CodeAddr, NEW range \in 0..1, TriggerGearShift(target, range)
      PROVE IInv'
  BY <1>9, CounterOnlyInv, CacheAssumption DEF TriggerGearShift, IInv, TypeOK
<1>10. ASSUME NEW t \in Thread, ForkChild(t) PROVE IInv'
  BY <1>10, ForkChildInv
<1>11. CASE UNCHANGED cacheVars
  BY <1>11, CounterOnlyInv DEF cacheVars, IInv, TypeOK
<1> QED
  BY <1>1, <1>2, <1>3, <1>4, <1>5, <1>6, <1>7, <1>8, <1>9, <1>10, <1>11 DEF Next

(* The cache never leaves the states of the invariant. *)
THEOREM Invariance == Spec => []IInv
  BY InitIInv, Inductive, PTL DEF Spec

(* Type correctness of the cache. *)
THEOREM TypeCorrect == Spec => []TypeOK
<1>1. IInv => TypeOK
  BY DEF IInv
<1> QED BY <1>1, Invariance, PTL

(* Code that can be dispatched was made from bytes not invalidated since its *)
(* translation began, whatever the interleaving of translations, gear-ups,   *)
(* wrappings, invalidations and forks.                                       *)
THEOREM FreshCode == Spec => []NoObsoleteCode
<1>1. IInv => NoObsoleteCode
  BY DEF IInv
<1> QED BY <1>1, Invariance, PTL

(* The GuestCodeEntry pointer kept by a translating or wrapping thread stays *)
(* valid and exclusive until the thread unlocks it.                          *)
THEOREM Ownership == Spec => []LockedEntryIsOwned
<1>1. IInv => LockedEntryIsOwned
  BY DEF IInv
<1> QED BY <1>1, Invariance, PTL

(* translating_ is exactly the set of entries in state Translating: the      *)
(* CHECKs on it cannot fail.                                                 *)
THEOREM ExactTranslating == Spec => []TranslatingIsExact
<1>1. IInv => TranslatingIsExact
  BY DEF IInv
<1> QED BY <1>1, Invariance, PTL

(* The lower bound of the invalidation loop skips no overlapping entry. *)
THEOREM SizesBounded == Spec => []MaxSizeBounds
<1>1. IInv => MaxSizeBounds
  BY DEF IInv
<1> QED BY <1>1, Invariance, PTL

(* A stop address stays a stop address. *)
THEOREM StopStays == Spec => StopIsPermanent
<1> DEFINE Keeps == \A pc \in Addr : hostCode[pc] = "Stop" => hostCode'[pc] = "Stop"
<1>1. ASSUME IInv, [Next]_cacheVars PROVE [Keeps]_cacheVars
  <2> SUFFICES ASSUME Next, NEW a \in Addr, hostCode[a] = "Stop" PROVE hostCode'[a] = "Stop"
    BY <1>1
  <2>1. kind[a] = "Absent" /\ a \notin CodeAddr /\ a \notin translating
    BY <1>1 DEF IInv, StopHasNoEntry, TranslatingIsExact, CodeAddr, Absent
  <2>2. ASSUME NEW t \in Thread, job[t] # NoJob PROVE job[t].pc # a
    BY <1>1, <2>1, <2>2 DEF IInv, LockedEntryIsOwned
  <2>3. ASSUME NEW pc \in StopAddr, SetStop(pc) PROVE hostCode'[a] = "Stop"
    BY <1>1, <2>3 DEF SetStop, IInv, TypeOK
  <2>4. ASSUME NEW t \in Thread, NEW pc \in CodeAddr,
               \/ CountColdVisit(t, pc)
               \/ AddAndLockForTranslation(t, pc)
               \/ LockForGearUpTranslation(t, pc)
               \/ AddAndLockForWrapping(t, pc)
        PROVE  hostCode'[a] = "Stop"
    BY <1>1, <2>1, <2>4
    DEF CountColdVisit, AddAndLockForTranslation, LockForGearUpTranslation,
        AddAndLockForWrapping, LockForTranslation, IInv, TypeOK
  <2>5. ASSUME NEW t \in Thread, ResetProfileCounter(t) PROVE hostCode'[a] = "Stop"
    BY <2>5 DEF ResetProfileCounter
  <2>6. ASSUME NEW t \in Thread, Unlock(t) PROVE hostCode'[a] = "Stop"
    BY <1>1, <2>2, <2>6
    DEF Unlock, Abandon, SetTranslatedAndUnlock, SetWrappedAndUnlock, NoJob,
        IInv, TypeOK
  <2>7. ASSUME NEW start \in Bound, NEW end \in Bound, InvalidateGuestRange(start, end)
        PROVE  hostCode'[a] = "Stop"
    BY <2>1, <2>7
    DEF InvalidateGuestRange, Wrappings, Erased, Overlapping, Visited, Absent
  <2>8. ASSUME NEW target \in CodeAddr, NEW range \in 0..1, TriggerGearShift(target, range)
        PROVE  hostCode'[a] = "Stop"
    BY <2>8 DEF TriggerGearShift
  <2>9. ASSUME NEW t \in Thread, ForkChild(t) PROVE hostCode'[a] = "Stop"
    BY <2>1, <2>9 DEF ForkChild
  <2> QED BY <2>3, <2>4, <2>5, <2>6, <2>7, <2>8, <2>9 DEF Next
<1> QED BY <1>1, Invariance, PTL DEF Spec, StopIsPermanent

(* Only the owner of a locked entry, a fork that drops the owner and an      *)
(* invalidation, which marks it, change the state of the entry.              *)
THEOREM OwnerUnlocks == Spec => OnlyOwnerUnlocks
<1> DEFINE Kept(pc) == hostCode'[pc] = hostCode[pc] \/ hostCode'[pc] = "Invalidating"
           Keeps == \A t \in Thread : job[t] # NoJob /\ job'[t] = job[t] =>
                       \/ hostCode'[job[t].pc] = hostCode[job[t].pc]
                       \/ hostCode'[job[t].pc] = "Invalidating"
<1>1. ASSUME IInv, [Next]_cacheVars PROVE [Keeps]_cacheVars
  <2> SUFFICES ASSUME Next, NEW t \in Thread, job[t] # NoJob, job'[t] = job[t]
               PROVE  Kept(job[t].pc)
    BY <1>1
  <2> DEFINE a == job[t].pc
  <2>1. /\ a \in Addr /\ kind[a] = "UnderProcessing"
        /\ hostCode[a] \in {"Translating", "Wrapping", "Invalidating"}
    BY <1>1 DEF IInv, TypeOK, LockedEntryIsOwned, Job, NoJob
  <2>2. ASSUME NEW u \in Thread \ {t}, job[u] # NoJob PROVE job[u].pc # a
    BY <1>1, <2>2 DEF IInv, LockedEntryIsOwned
  <2>3. hostCode[a] = "Translating" => a \in translating
    BY <1>1, <2>1 DEF IInv, TranslatingIsExact
  <2> HIDE DEF a
  <2>4. ASSUME NEW pc \in StopAddr, SetStop(pc) PROVE Kept(a)
    BY <1>1, <2>1, <2>4 DEF SetStop, IInv, TypeOK
  <2>5. ASSUME NEW u \in Thread, NEW pc \in CodeAddr,
               \/ CountColdVisit(u, pc)
               \/ AddAndLockForTranslation(u, pc)
               \/ LockForGearUpTranslation(u, pc)
               \/ AddAndLockForWrapping(u, pc)
        PROVE  Kept(a)
    <3>1. pc # a
      BY <2>1, <2>5
      DEF CountColdVisit, AddAndLockForTranslation, LockForGearUpTranslation,
          AddAndLockForWrapping, CodeAfterAdd, Absent
    <3> QED
      BY <1>1, <2>1, <2>5, <3>1
      DEF CountColdVisit, AddAndLockForTranslation, LockForGearUpTranslation,
          AddAndLockForWrapping, LockForTranslation, IInv, TypeOK
  <2>6. ASSUME NEW u \in Thread, ResetProfileCounter(u) PROVE Kept(a)
    BY <2>6 DEF ResetProfileCounter
  <2>7. ASSUME NEW u \in Thread, Unlock(u) PROVE Kept(a)
    <3>1. job[u] # NoJob /\ job'[u] = NoJob
      BY <1>1, <2>7
      DEF Unlock, Abandon, SetTranslatedAndUnlock, SetWrappedAndUnlock, NoJob,
          IInv, TypeOK
    <3>2. job[u].pc # a
      BY <2>2, <3>1
    <3> QED
      BY <1>1, <2>1, <2>7, <3>2
      DEF Unlock, Abandon, SetTranslatedAndUnlock, SetWrappedAndUnlock, IInv,
          TypeOK
  <2>8. ASSUME NEW start \in Bound, NEW end \in Bound, InvalidateGuestRange(start, end)
        PROVE  Kept(a)
    BY <2>1, <2>3, <2>8 DEF InvalidateGuestRange, Erased, Skipped
  <2>9. ASSUME NEW target \in CodeAddr, NEW range \in 0..1, TriggerGearShift(target, range)
        PROVE  Kept(a)
    BY <2>9 DEF TriggerGearShift
  <2>10. ASSUME NEW u \in Thread, ForkChild(u) PROVE FALSE
    BY <2>10 DEF ForkChild
  <2> QED BY <2>4, <2>5, <2>6, <2>7, <2>8, <2>9, <2>10 DEF Next, a
<1> QED BY <1>1, Invariance, PTL DEF Spec, OnlyOwnerUnlocks
=============================================================================
