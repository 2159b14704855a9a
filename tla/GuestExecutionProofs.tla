------------------------ MODULE GuestExecutionProofs ------------------------
(***************************************************************************)
(* Proofs about guest execution, for any number of threads, any guest      *)
(* addresses and regions, and any number of invalidations.                 *)
(*                                                                         *)
(* A thread runs code that it read from the address map without a lock.    *)
(* That FlushGuestCodeCache reaches it rests on two facts: while the map   *)
(* still points to the code, its entry is finished and at least as long    *)
(* (CurrentIsCached), so that an invalidation of bytes the thread runs     *)
(* finds it; and a thread inside guest code never has its pending signals  *)
(* disabled (SignalsAreOn), so that the compare-and-swap of the flush has  *)
(* an effect.                                                              *)
(***************************************************************************)
EXTENDS GuestExecution, TLAPS

Absent == TC!Absent
NoJob == TC!NoJob

(* A locked entry is its thread's own. *)
LocksAreOwned ==
    \A t \in Thread : job[t] # NoJob =>
        /\ job[t].op \in {"Translate", "GearUp"}
        /\ kind[job[t].pc] = "UnderProcessing"
        /\ hostCode[job[t].pc] \in {"Translating", "Invalidating"}
        /\ \A u \in Thread \ {t} : job[u] # NoJob => job[u].pc # job[t].pc

SizesAreBounded == \A a \in Addr : guestSize[a] <= maxGuestSize

(* An address without an entry has no code, a stop address has no entry, and *)
(* the states of a locked entry are not those of a finished one.             *)
StatesFit ==
    /\ \A a \in Addr :
           /\ kind[a] = Absent => hostCode[a] \in {"NotTranslated", "Stop"}
           /\ hostCode[a] = "Stop" => a \in StopAddr
           /\ hostCode[a] \in {"Translating", "Wrapping", "Invalidating"} =>
                  kind[a] = "UnderProcessing"
    /\ \A a \in StopAddr : kind[a] = Absent

CacheInv ==
    /\ TC!TypeOK
    /\ LocksAreOwned
    /\ TC!TranslatingIsExact
    /\ SizesAreBounded
    /\ StatesFit

(* No thread translates a stop address: all are set before guest code runs. *)
StopsAreSet ==
    \A t \in Thread :
        /\ at[t] # "Outside" => \A a \in StopAddr : hostCode[a] = "Stop"
        /\ at[t] = "Miss" => pc[t] \notin StopAddr

SignalsAreOn == \A t \in Thread : at[t] # "Outside" => status[t] # "Disabled"

ObsoleteIsRun ==
    \A t \in Thread : obsolete[t] # "No" => at[t] \in Generated \cup {"Translate"}

CurrentIsCached ==
    \A t \in Thread : at[t] \in Generated /\ code[t].current =>
        /\ hostCode[code[t].pc] = "Generated"
        /\ guestSize[code[t].pc] = code[t].size

IInv ==
    /\ TypeOK
    /\ CacheInv
    /\ StopsAreSet
    /\ SignalsAreOn
    /\ ObsoleteIsRun
    /\ CurrentIsCached
    /\ InvalidatedIsNotified

-----------------------------------------------------------------------------
(* What the operations of the cache do to its part of the invariant. *)

(* SetStop moves a cell from NotTranslated to Stop. *)
LEMMA SetStopInv ==
  ASSUME CacheInv, NEW a \in StopAddr, TC!SetStop(a)
  PROVE  CacheInv'
<1> USE ExecutionAssumption DEF CacheInv, TC!SetStop, TC!TypeOK
<1>1. TC!TypeOK'
  BY DEF TC!HostCode
<1>2. LocksAreOwned'
  BY DEF LocksAreOwned, NoJob, TC!NoJob, TC!Job
<1>3. TC!TranslatingIsExact'
  BY DEF TC!TranslatingIsExact
<1>4. SizesAreBounded'
  BY DEF SizesAreBounded
<1>5. StatesFit'
  BY DEF StatesFit
<1> QED BY <1>1, <1>2, <1>3, <1>4, <1>5

(* Locking an entry that no thread holds, at first or at second gear. *)
LEMMA LockInv ==
  ASSUME CacheInv, NEW t \in Thread, NEW a \in Addr \ StopAddr,
         NEW op \in {"Translate", "GearUp"},
         TC!Idle(t), hostCode[a] \notin {"Translating", "Invalidating"},
         TC!LockForTranslation(t, a, op),
         UNCHANGED <<guestSize, counter, maxGuestSize>>
  PROVE  CacheInv'
<1> USE ExecutionAssumption DEF CacheInv, TC!LockForTranslation, TC!TypeOK
<1>1. TC!TypeOK'
  BY DEF TC!HostCode, TC!Kind, TC!Job
<1>2. LocksAreOwned'
  BY DEF LocksAreOwned, NoJob, TC!NoJob, TC!Job, TC!Idle
<1>3. TC!TranslatingIsExact'
  BY DEF TC!TranslatingIsExact
<1>4. SizesAreBounded'
  BY DEF SizesAreBounded
<1>5. StatesFit'
  BY DEF StatesFit, Absent, TC!Absent
<1> QED BY <1>1, <1>2, <1>3, <1>4, <1>5

(* A cold visit counts, and inserts an entry if there is none. *)
LEMMA CountColdVisitInv ==
  ASSUME CacheInv, NEW t \in Thread, NEW a \in Addr \ StopAddr,
         TC!CountColdVisit(t, a)
  PROVE  CacheInv'
<1> USE ExecutionAssumption DEF CacheInv, TC!CountColdVisit, TC!CodeAfterAdd, TC!TypeOK
<1>1. TC!TypeOK'
  BY DEF TC!HostCode, TC!Kind, TC!FinishedKind
<1>2. LocksAreOwned'
  BY DEF LocksAreOwned, NoJob, TC!NoJob, TC!Job, TC!Absent
<1>3. TC!TranslatingIsExact'
  BY DEF TC!TranslatingIsExact, StatesFit, Absent
<1>4. SizesAreBounded'
  BY DEF SizesAreBounded
<1>5. StatesFit'
  BY DEF StatesFit, Absent, TC!Absent
<1> QED BY <1>1, <1>2, <1>3, <1>4, <1>5

(* The thread throws away a translation that was invalidated. *)
LEMMA AbandonInv ==
  ASSUME CacheInv, NEW t \in Thread, TC!Abandon(t)
  PROVE  CacheInv'
<1> DEFINE a == job[t].pc
<1>0. a \in Addr
  BY DEF TC!Abandon, CacheInv, TC!TypeOK, TC!Job, TC!NoJob
<1> USE ExecutionAssumption, <1>0 DEF CacheInv, TC!Abandon, TC!Erase, TC!TypeOK
<1>1. TC!TypeOK'
  BY DEF TC!HostCode, TC!Kind, TC!Job
<1>2. LocksAreOwned'
  BY DEF LocksAreOwned, NoJob, TC!NoJob, TC!Job
<1>3. TC!TranslatingIsExact'
  BY DEF TC!TranslatingIsExact
<1>4. SizesAreBounded'
  BY DEF SizesAreBounded
<1>5. StatesFit'
  BY DEF StatesFit, Absent
<1> QED BY <1>1, <1>2, <1>3, <1>4, <1>5

(* The thread publishes a translation. *)
LEMMA SetTranslatedInv ==
  ASSUME CacheInv, NEW t \in Thread, NEW tr \in TC!Translation,
         TC!SetTranslatedAndUnlock(t, tr)
  PROVE  CacheInv'
<1> DEFINE a == job[t].pc
<1>0. job[t] # NoJob /\ a \in Addr
  BY DEF TC!SetTranslatedAndUnlock, CacheInv, TC!TypeOK, TC!Job, TC!NoJob, NoJob
<1>a. /\ tr.code \in {"Generated", "Interpret", "NoExec"}
      /\ tr.kind \in {"LiteTranslated", "HeavyOptimized", "Interpreted", "SpecialHandler"}
      /\ tr.size \in 1..MaxRegion
  BY ExecutionAssumption DEF TC!Translation
<1> USE ExecutionAssumption, <1>0, <1>a DEF CacheInv, TC!SetTranslatedAndUnlock, TC!TypeOK
<1>1. TC!TypeOK'
  BY DEF TC!HostCode, TC!Kind, TC!FinishedKind, TC!Job
<1>2. LocksAreOwned'
  BY DEF LocksAreOwned, NoJob, TC!NoJob, TC!Job
<1>3. TC!TranslatingIsExact'
  BY DEF TC!TranslatingIsExact
<1>4. SizesAreBounded'
  BY DEF SizesAreBounded
<1>5. StatesFit'
  BY DEF StatesFit, Absent, TC!Absent, LocksAreOwned
<1> QED BY <1>1, <1>2, <1>3, <1>4, <1>5

(* An invalidation of any range. *)
LEMMA InvalidateInv ==
  ASSUME CacheInv, NEW start \in Int, NEW end \in Int,
         TC!InvalidateGuestRange(start, end)
  PROVE  CacheInv'
<1> DEFINE E == TC!Erased(start, end)
           W == TC!Wrappings(start, end)
<1>0. /\ E \subseteq Addr /\ W \subseteq Addr
      /\ \A a \in E : /\ a \notin translating /\ kind[a] # Absent
                      /\ hostCode[a] \notin {"Invalidating", "Wrapping"}
      /\ \A a \in W : hostCode[a] = "Wrapping" /\ kind[a] # Absent
  BY DEF TC!Erased, TC!Wrappings, TC!Overlapping, TC!Visited, TC!Skipped, Absent
<1> HIDE DEF E, W
<1>a. /\ hostCode' = [a \in Addr |-> IF a \in translating \cup W THEN "Invalidating"
                                     ELSE IF a \in E THEN "NotTranslated"
                                     ELSE hostCode[a]]
      /\ kind' = [a \in Addr |-> IF a \in E THEN Absent ELSE kind[a]]
      /\ guestSize' = [a \in Addr |-> IF a \in E THEN 1 ELSE guestSize[a]]
      /\ counter' = [a \in Addr |-> IF a \in E THEN 0 ELSE counter[a]]
      /\ translating' = {}
      /\ dirty' = [a \in Addr |-> IF a \in E \/ kind[a] = Absent THEN {}
                                  ELSE dirty[a] \cup (start .. end - 1)]
      /\ UNCHANGED <<maxGuestSize, job>>
  BY DEF TC!InvalidateGuestRange, TC!Erase, E, W, Absent
<1> USE ExecutionAssumption, <1>0, <1>a DEF CacheInv, TC!TypeOK
<1>1. TC!TypeOK'
  BY DEF TC!HostCode, TC!Kind, Absent
<1>2. LocksAreOwned'
  BY DEF LocksAreOwned, TC!TranslatingIsExact, NoJob, TC!NoJob, TC!Job
<1>3. TC!TranslatingIsExact'
  BY DEF TC!TranslatingIsExact
<1>4. SizesAreBounded'
  BY DEF SizesAreBounded
<1>5. StatesFit'
  BY DEF StatesFit, TC!TranslatingIsExact
<1> QED BY <1>1, <1>2, <1>3, <1>4, <1>5

-----------------------------------------------------------------------------
(* One lemma per action.  An action that leaves the cache alone, or the       *)
(* thread's place in it, disturbs only the conjuncts named under it.          *)

(* A step that leaves the cache alone leaves its part of the invariant alone. *)
LEMMA CacheUnchanged ==
  ASSUME CacheInv, UNCHANGED cacheVars
  PROVE  CacheInv' /\ TC!TypeOK'
  BY DEF CacheInv, cacheVars, TC!TypeOK, LocksAreOwned, TC!TranslatingIsExact,
         SizesAreBounded, StatesFit

(* The cell of a stop address. *)
LEMMA ExecSetStopInv ==
  ASSUME IInv, NEW t \in Thread, SetStop(t)
  PROVE  IInv'
<1> PICK a \in StopAddr : TC!SetStop(a)
  BY DEF SetStop
<1>0. CacheInv' /\ UNCHANGED execVars /\ a \in Addr
  BY SetStopInv, ExecutionAssumption DEF SetStop, IInv
<1>a. hostCode[a] = "NotTranslated" /\ hostCode' = [hostCode EXCEPT ![a] = "Stop"]
      /\ UNCHANGED guestSize /\ hostCode \in [Addr -> TC!HostCode]
  BY DEF TC!SetStop, IInv, CacheInv, TC!TypeOK
<1> USE <1>0, <1>a DEF IInv, execVars
<1>1. TypeOK'
  BY DEF TypeOK, CacheInv
<1>2. StopsAreSet'
  BY ExecutionAssumption DEF StopsAreSet
<1>3. SignalsAreOn' /\ ObsoleteIsRun'
  BY DEF SignalsAreOn, ObsoleteIsRun
<1>4. CurrentIsCached'
  BY DEF CurrentIsCached, TypeOK, Code
<1>5. InvalidatedIsNotified'
  BY DEF InvalidatedIsNotified, Notified
<1> QED BY <1>1, <1>2, <1>3, <1>4, <1>5

(* Guest code is entered with the stop addresses set and signals enabled. *)
LEMMA EnterInv ==
  ASSUME IInv, NEW t \in Thread, Enter(t)
  PROVE  IInv'
<1>0. CacheInv' /\ TC!TypeOK'
  BY CacheUnchanged DEF Enter, IInv
<1> USE <1>0 DEF IInv, Enter, In, Goto
<1>1. TypeOK'
  BY ExecutionAssumption DEF TypeOK, CodeAddr, TC!CodeAddr, Phase
<1>2. StopsAreSet'
  BY DEF StopsAreSet, TypeOK, cacheVars
<1>3. SignalsAreOn' /\ ObsoleteIsRun'
  BY DEF SignalsAreOn, ObsoleteIsRun, TypeOK, Generated
<1>4. CurrentIsCached'
  BY DEF CurrentIsCached, TypeOK, cacheVars, Generated
<1>5. InvalidatedIsNotified'
  BY DEF InvalidatedIsNotified, Notified, TypeOK, Generated
<1> QED BY <1>1, <1>2, <1>3, <1>4, <1>5

(* Pending signals are processed, then disabled. *)
LEMMA ExitInv ==
  ASSUME IInv, NEW t \in Thread, Exit(t)
  PROVE  IInv'
<1>0. CacheInv' /\ TC!TypeOK'
  BY CacheUnchanged DEF Exit, IInv
<1> USE <1>0 DEF IInv, Exit, In, Goto
<1>1. TypeOK'
  BY DEF TypeOK, Phase
<1>2. StopsAreSet'
  BY DEF StopsAreSet, TypeOK, cacheVars
<1>3. SignalsAreOn' /\ ObsoleteIsRun'
  BY DEF SignalsAreOn, ObsoleteIsRun, TypeOK, Generated
<1>4. CurrentIsCached'
  BY DEF CurrentIsCached, TypeOK, cacheVars, Generated
<1>5. InvalidatedIsNotified'
  BY DEF InvalidatedIsNotified, Notified, TypeOK, Generated
<1> QED BY <1>1, <1>2, <1>3, <1>4, <1>5

(* The check of the dispatcher: the thread runs no code, obsolete or not. *)
LEMMA DispatchInv ==
  ASSUME IInv, NEW t \in Thread, Dispatch(t)
  PROVE  IInv'
<1>0. CacheInv' /\ TC!TypeOK'
  BY CacheUnchanged DEF Dispatch, IInv
<1> USE <1>0 DEF IInv, Dispatch, In, Goto
<1>1. TypeOK'
  BY ExecutionAssumption DEF TypeOK, Phase, CodeAddr, TC!CodeAddr
<1>2. StopsAreSet'
  BY DEF StopsAreSet, TypeOK, cacheVars
<1>3. SignalsAreOn' /\ ObsoleteIsRun'
  BY DEF SignalsAreOn, ObsoleteIsRun, TypeOK, Generated
<1>4. CurrentIsCached'
  BY DEF CurrentIsCached, TypeOK, cacheVars, Generated
<1>5. InvalidatedIsNotified'
  BY DEF InvalidatedIsNotified, Notified, TypeOK, Generated
<1> QED BY <1>1, <1>2, <1>3, <1>4, <1>5

(* The fetch: what is read is what the map has now, and a stop address is    *)
(* not missed.                                                               *)
LEMMA FetchInv ==
  ASSUME IInv, NEW t \in Thread, Fetch(t)
  PROVE  IInv'
<1>0. CacheInv' /\ TC!TypeOK'
  BY CacheUnchanged DEF Fetch, IInv
<1> DEFINE a == pc[t]
           to == CASE hostCode[a] \in {"Stop", "NoExec"} -> "Exit"
                   [] hostCode[a] = "NotTranslated" -> "Miss"
                   [] hostCode[a] = "Interpret" -> "Interpret"
                   [] hostCode[a] = "Generated" ->
                          IF profiled[a] THEN "Count" ELSE "Run"
                   [] OTHER -> "Dispatch"
<1>a. /\ a \in Addr /\ to \in Phase \ {"Outside", "Translate"}
      /\ to = "Miss" => hostCode[a] = "NotTranslated"
      /\ to \in Generated => hostCode[a] = "Generated"
      /\ at' = [at EXCEPT ![t] = to] /\ at[t] = "Fetch"
      /\ code' = [code EXCEPT ![t] =
                    IF hostCode[a] = "Generated" THEN FetchedCode(a) ELSE @]
      /\ UNCHANGED <<cacheVars, profiled, hot, pc, status, toFlush, obsolete, invalidations>>
      /\ at \in [Thread -> Phase]
  BY DEF Fetch, In, Goto, IInv, TypeOK, Phase, Generated
<1>b. FetchedCode(a) \in Code
  BY <1>a DEF IInv, TypeOK, TC!TypeOK, FetchedCode, Code
<1> HIDE DEF to
<1> USE <1>0, <1>a, <1>b DEF IInv
<1>1. TypeOK'
  BY DEF TypeOK
<1>2. StopsAreSet'
  BY DEF StopsAreSet, cacheVars
<1>3. SignalsAreOn' /\ ObsoleteIsRun'
  BY DEF SignalsAreOn, ObsoleteIsRun, Generated
<1>4. CurrentIsCached'
  BY DEF CurrentIsCached, TypeOK, cacheVars, FetchedCode
<1>5. InvalidatedIsNotified'
  BY DEF InvalidatedIsNotified, Notified, ObsoleteIsRun, Generated
<1> QED BY <1>1, <1>2, <1>3, <1>4, <1>5

(* A miss locks the entry, counts a cold visit, or finds another thread      *)
(* there; code that a thread runs from the map is not at that address.       *)
LEMMA MissInv ==
  ASSUME IInv, NEW t \in Thread, Miss(t)
  PROVE  IInv'
<1> DEFINE a == pc[t]
<1>a. /\ a \in Addr \ StopAddr /\ at[t] = "Miss"
      /\ UNCHANGED <<profiled, hot, pc, status, code, toFlush, obsolete, invalidations>>
      /\ at \in [Thread -> Phase] /\ code \in [Thread -> Code]
      /\ guestSize' = guestSize
      /\ \E to \in {"Translate", "Interpret", "Dispatch"} : at' = [at EXCEPT ![t] = to]
  BY DEF Miss, In, Goto, IInv, TypeOK, StopsAreSet, TC!AddAndLockForTranslation,
         TC!CountColdVisit, cacheVars
<1>b. CacheInv'
  <2>1. CASE TC!AddAndLockForTranslation(t, a)
    BY <2>1, <1>a, LockInv
    DEF TC!AddAndLockForTranslation, TC!CodeAfterAdd, IInv, CacheInv, StatesFit, Absent
  <2>2. CASE TC!CountColdVisit(t, a)
    BY <2>2, <1>a, CountColdVisitInv DEF IInv
  <2>3. CASE UNCHANGED cacheVars
    BY <2>3, CacheUnchanged DEF IInv
  <2> QED BY <2>1, <2>2, <2>3 DEF Miss
<1>c. \A b \in Addr : b # a \/ hostCode[b] \in {"Generated", "Stop"} =>
          hostCode'[b] = hostCode[b]
  BY <1>a
  DEF Miss, TC!AddAndLockForTranslation, TC!CountColdVisit, TC!LockForTranslation,
      TC!CodeAfterAdd, cacheVars, IInv, CacheInv, TC!TypeOK, StatesFit, Absent
<1> USE <1>a, <1>b, <1>c DEF IInv
<1>1. TypeOK'
  BY DEF TypeOK, CacheInv, Phase
<1>2. StopsAreSet'
  BY ExecutionAssumption DEF StopsAreSet
<1>3. SignalsAreOn' /\ ObsoleteIsRun'
  BY DEF SignalsAreOn, ObsoleteIsRun, Generated
<1>4. CurrentIsCached'
  BY DEF CurrentIsCached, Code, Generated
<1>5. InvalidatedIsNotified'
  BY DEF InvalidatedIsNotified, Notified, Generated
<1> QED BY <1>1, <1>2, <1>3, <1>4, <1>5

(* A hot region is locked for second gear, which detaches the threads that    *)
(* run it from the map; or the thread leaves its code.                        *)
LEMMA HotInv ==
  ASSUME IInv, NEW t \in Thread, Hot(t)
  PROVE  IInv'
<1> DEFINE a == pc[t]
<1>a. /\ a \in Addr /\ at[t] \in Generated /\ at \in [Thread -> Phase]
      /\ code \in [Thread -> Code] /\ code[t] \in Code
      /\ obsolete \in [Thread -> {"No", "Invalidated", "Replaced"}]
      /\ hot' \in [Addr -> BOOLEAN]
      /\ UNCHANGED <<profiled, pc, status, toFlush, invalidations>>
  BY DEF Hot, In, IInv, TypeOK, Generated, PassThreshold, Code
<1>1. CASE /\ TC!LockForGearUpTranslation(t, a) /\ Detach(a)
           /\ Goto(t, "Translate") /\ UNCHANGED obsolete
  <2>1. a \in Addr \ StopAddr
    BY <1>1, <1>a DEF TC!LockForGearUpTranslation, IInv, CacheInv, StatesFit, Absent, TC!Absent
  <2>2. hostCode[a] \notin {"Translating", "Invalidating"}
    BY <1>1, <2>1 DEF TC!LockForGearUpTranslation, IInv, CacheInv, StatesFit
  <2>3. CacheInv'
    BY <1>1, <2>1, <2>2, LockInv DEF TC!LockForGearUpTranslation, IInv
  <2>4. /\ at' = [at EXCEPT ![t] = "Translate"]
        /\ code' = [u \in Thread |->
               IF code[u].pc = a THEN [code[u] EXCEPT !.current = FALSE] ELSE code[u]]
        /\ UNCHANGED <<obsolete, guestSize>>
        /\ \A b \in Addr \ {a} : hostCode'[b] = hostCode[b]
        /\ StopAddr \subseteq Addr \ {a}
    BY <1>1, <2>1, ExecutionAssumption
    DEF TC!LockForGearUpTranslation, TC!LockForTranslation, Goto, Detach, IInv,
        CacheInv, TC!TypeOK
  <2>5. \A u \in Thread : /\ code'[u] \in Code /\ code'[u].pc = code[u].pc
                          /\ code'[u].size = code[u].size
                          /\ code'[u].current => code[u].current /\ code[u].pc # a
    BY <1>a, <2>4 DEF Code
  <2> USE <1>a, <2>3, <2>4, <2>5 DEF IInv
  <2>6. TypeOK'
    BY DEF TypeOK, CacheInv, Phase
  <2>7. StopsAreSet'
    BY DEF StopsAreSet, Generated
  <2>8. SignalsAreOn' /\ ObsoleteIsRun'
    BY DEF SignalsAreOn, ObsoleteIsRun, Generated
  <2>9. CurrentIsCached'
    BY DEF CurrentIsCached, Generated, Code
  <2>10. InvalidatedIsNotified'
    BY DEF InvalidatedIsNotified, Notified, Generated
  <2> QED BY <2>6, <2>7, <2>8, <2>9, <2>10
<1>2. CASE LeaveCode(t) /\ Goto(t, "Dispatch") /\ UNCHANGED cacheVars
  <2>1. NoCode \in Code
    BY ExecutionAssumption DEF NoCode, Code, TC!Kind, TC!Absent
  <2>2. CacheInv' /\ TC!TypeOK'
    BY <1>2, CacheUnchanged DEF IInv
  <2> USE <1>2, <1>a, <2>1, <2>2 DEF IInv, LeaveCode, Goto
  <2>3. TypeOK'
    BY DEF TypeOK, Phase
  <2>4. StopsAreSet'
    BY DEF StopsAreSet, cacheVars, Generated
  <2>5. SignalsAreOn' /\ ObsoleteIsRun'
    BY DEF SignalsAreOn, ObsoleteIsRun, Generated
  <2>6. CurrentIsCached'
    BY DEF CurrentIsCached, cacheVars, Generated
  <2>7. InvalidatedIsNotified'
    BY DEF InvalidatedIsNotified, Notified, Generated
  <2> QED BY <2>2, <2>3, <2>4, <2>5, <2>6, <2>7
<1> QED BY <1>1, <1>2 DEF Hot

(* Steps that stay in the region or leave it, with the cache and the signals  *)
(* as they are: what the thread runs afterwards it ran before.                *)
LEMMA MoveInv ==
  ASSUME IInv, NEW t \in Thread, NEW to \in Phase \ {"Outside", "Miss"},
         at[t] # "Outside", at' = [at EXCEPT ![t] = to],
         TypeOK', UNCHANGED <<cacheVars, status, toFlush>>,
         pc' = [pc EXCEPT ![t] = pc'[t]],
         \/ to \in Generated /\ at[t] \in Generated /\ UNCHANGED <<code, obsolete>>
         \/ to \notin Generated /\ LeaveCode(t)
         \/ to \notin Generated /\ at[t] = "Interpret" /\ UNCHANGED <<code, obsolete>>
  PROVE  IInv'
<1>0. CacheInv' /\ at \in [Thread -> Phase] /\ pc \in [Thread -> Addr]
      /\ code \in [Thread -> Code]
      /\ obsolete \in [Thread -> {"No", "Invalidated", "Replaced"}]
  BY CacheUnchanged DEF IInv, TypeOK
<1> USE <1>0 DEF IInv, LeaveCode
<1>2. StopsAreSet'
  BY DEF StopsAreSet, cacheVars
<1>3. SignalsAreOn' /\ ObsoleteIsRun'
  BY DEF SignalsAreOn, ObsoleteIsRun, Generated
<1>4. CurrentIsCached'
  BY DEF CurrentIsCached, cacheVars
<1>5. InvalidatedIsNotified'
  BY DEF InvalidatedIsNotified, Notified
<1> QED BY <1>2, <1>3, <1>4, <1>5

(* The counter stays below its threshold, or is rolled back. *)
LEMMA StayBelowType ==
  ASSUME TypeOK, NEW t \in Thread, StayBelowThreshold(t)
  PROVE  hot' \in [Addr -> BOOLEAN]
  BY DEF TypeOK, StayBelowThreshold

(* A thread outside generated code has no code.                             *)
LEMMA NoCodeType == NoCode \in Code
  BY ExecutionAssumption DEF NoCode, Code, TC!Kind, TC!Absent

(* The steps of running code and of the interpreter. *)
LEMMA CountedInv ==
  ASSUME IInv, NEW t \in Thread, Counted(t)
  PROVE  IInv'
<1>1. TypeOK'
  BY StayBelowType, CacheUnchanged DEF Counted, IInv, TypeOK, Goto, Phase
<1>2. /\ "Run" \in Phase \ {"Outside", "Miss"} /\ at[t] # "Outside"
      /\ at' = [at EXCEPT ![t] = "Run"] /\ pc' = [pc EXCEPT ![t] = pc'[t]]
      /\ UNCHANGED <<cacheVars, status, toFlush>>
      /\ at[t] \in Generated /\ "Run" \in Generated /\ UNCHANGED <<code, obsolete>>
  BY DEF Counted, In, Goto, Phase, Generated, IInv, TypeOK
<1> QED BY <1>1, <1>2, MoveInv

(* A back edge polls the status and goes on or leaves the region.           *)
LEMMA BackEdgeInv ==
  ASSUME IInv, NEW t \in Thread, BackEdge(t)
  PROVE  IInv'
<1>1. TypeOK'
  BY CacheUnchanged, ExecutionAssumption
  DEF BackEdge, IInv, TypeOK, Goto, Phase, CodeAddr, TC!CodeAddr
<1>2. /\ "Loop" \in Phase \ {"Outside", "Miss"} /\ at[t] # "Outside"
      /\ at' = [at EXCEPT ![t] = "Loop"] /\ pc' = [pc EXCEPT ![t] = pc'[t]]
      /\ UNCHANGED <<cacheVars, status, toFlush>>
      /\ at[t] \in Generated /\ "Loop" \in Generated /\ UNCHANGED <<code, obsolete>>
  BY DEF BackEdge, In, Goto, Phase, Generated, IInv, TypeOK
<1> QED BY <1>1, <1>2, MoveInv

(* A loop of heavy code stays in its region.                                *)
LEMMA LoopInv ==
  ASSUME IInv, NEW t \in Thread, Loop(t)
  PROVE  IInv'
<1>1. TypeOK'
  BY StayBelowType, CacheUnchanged, NoCodeType
  DEF Loop, IInv, TypeOK, Goto, Phase, LeaveCode
<1> QED
  BY <1>1, MoveInv DEF Loop, In, Goto, Phase, Generated, IInv, TypeOK

(* At its end a region goes to the next one or to the dispatcher.           *)
LEMMA RegionEndInv ==
  ASSUME IInv, NEW t \in Thread, RegionEnd(t)
  PROVE  IInv'
<1>1. TypeOK'
  BY CacheUnchanged, NoCodeType DEF RegionEnd, IInv, TypeOK, Goto, Phase, LeaveCode
<1>2. PICK to \in {"Dispatch", "Fetch"} : at' = [at EXCEPT ![t] = to]
  BY DEF RegionEnd, Goto
<1>3. /\ to \in Phase \ {"Outside", "Miss"} /\ at[t] # "Outside"
      /\ pc' = [pc EXCEPT ![t] = pc'[t]]
      /\ UNCHANGED <<cacheVars, status, toFlush>>
      /\ to \notin Generated /\ LeaveCode(t)
  BY DEF RegionEnd, In, Phase, Generated, IInv, TypeOK
<1> QED BY <1>1, <1>2, <1>3, MoveInv

(* A system call leaves generated code and comes back to the dispatcher.    *)
LEMMA SyscallInv ==
  ASSUME IInv, NEW t \in Thread, Syscall(t)
  PROVE  IInv'
<1>1. TypeOK'
  BY CacheUnchanged, NoCodeType DEF Syscall, IInv, TypeOK, Goto, Phase, LeaveCode
<1>2. /\ "Exit" \in Phase \ {"Outside", "Miss"} /\ at[t] # "Outside"
      /\ at' = [at EXCEPT ![t] = "Exit"] /\ pc' = [pc EXCEPT ![t] = pc'[t]]
      /\ UNCHANGED <<cacheVars, status, toFlush>>
      /\ "Exit" \notin Generated /\ LeaveCode(t)
  BY DEF Syscall, In, Goto, Phase, Generated, IInv, TypeOK
<1> QED BY <1>1, <1>2, MoveInv

(* The interpreter runs instructions without code of the cache.             *)
LEMMA InterpretInv ==
  ASSUME IInv, NEW t \in Thread, Interpret(t)
  PROVE  IInv'
<1>1. TypeOK'
  BY CacheUnchanged DEF Interpret, IInv, TypeOK, Goto, Phase
<1>2. /\ "Dispatch" \in Phase \ {"Outside", "Miss"} /\ at[t] # "Outside"
      /\ at' = [at EXCEPT ![t] = "Dispatch"] /\ pc' = [pc EXCEPT ![t] = pc'[t]]
      /\ UNCHANGED <<cacheVars, status, toFlush>>
      /\ "Dispatch" \notin Generated /\ at[t] = "Interpret" /\ UNCHANGED <<code, obsolete>>
  BY DEF Interpret, In, Goto, Phase, Generated, IInv, TypeOK
<1> QED BY <1>1, <1>2, MoveInv

(* The compare-and-swap of the flush, on a thread whose signals are on. *)
LEMMA FlushInv ==
  ASSUME IInv, NEW t \in Thread, NEW u \in Thread, Flush(t, u)
  PROVE  IInv'
<1>0. CacheInv' /\ TC!TypeOK'
  BY CacheUnchanged DEF Flush, IInv
<1> USE <1>0 DEF IInv, Flush
<1>1. TypeOK'
  BY DEF TypeOK
<1>2. StopsAreSet'
  BY DEF StopsAreSet, cacheVars
<1>3. SignalsAreOn' /\ ObsoleteIsRun'
  BY DEF SignalsAreOn, ObsoleteIsRun, TypeOK
<1>4. CurrentIsCached'
  BY DEF CurrentIsCached, cacheVars
<1>5. InvalidatedIsNotified'
  <2> SUFFICES ASSUME NEW v \in Thread, at[v] \in Generated, obsolete[v] = "Invalidated"
               PROVE  Notified(v)'
    BY DEF InvalidatedIsNotified
  <2>1. Notified(v)
    BY DEF InvalidatedIsNotified
  <2>2. CASE v = u
    BY <2>2 DEF Notified, SignalsAreOn, Generated, TypeOK
  <2>3. CASE v # u
    BY <2>1, <2>3 DEF Notified, TypeOK
  <2> QED BY <2>2, <2>3
<1> QED BY <1>1, <1>2, <1>3, <1>4, <1>5

(* A translation is published or thrown away.  Its entry was locked, so no   *)
(* thread runs code that the map still has there.                            *)
LEMMA PublishInv ==
  ASSUME IInv, NEW t \in Thread, Publish(t)
  PROVE  IInv'
<1> DEFINE a == job[t].pc
<1>a. /\ job[t] # NoJob /\ a \in Addr
      /\ hostCode[a] \in {"Translating", "Invalidating"} /\ a \notin StopAddr
  <2>1. job[t] # NoJob
    BY DEF Publish, TC!Abandon, TC!SetTranslatedAndUnlock, NoJob, TC!NoJob
  <2> QED
    BY <2>1 DEF IInv, CacheInv, LocksAreOwned, TC!TypeOK, TC!Job, NoJob, StatesFit,
                Absent, TC!Absent
<1>b. /\ at[t] = "Translate" /\ at' = [at EXCEPT ![t] = "Dispatch"]
      /\ at \in [Thread -> Phase] /\ code \in [Thread -> Code]
      /\ obsolete' = [obsolete EXCEPT ![t] = "No"]
      /\ obsolete \in [Thread -> {"No", "Invalidated", "Replaced"}]
      /\ UNCHANGED <<pc, status, toFlush, invalidations>>
      /\ profiled' \in [Addr -> BOOLEAN] /\ hot' \in [Addr -> BOOLEAN]
  BY <1>a DEF Publish, In, Goto, IInv, TypeOK
<1>c. CacheInv'
  BY AbandonInv, SetTranslatedInv DEF Publish, IInv
<1>d. \A b \in Addr \ {a} : hostCode'[b] = hostCode[b] /\ guestSize'[b] = guestSize[b]
  BY DEF Publish, TC!Abandon, TC!SetTranslatedAndUnlock, TC!Erase, IInv, CacheInv,
         TC!TypeOK
<1>e. /\ code' \in [Thread -> Code]
      /\ \A u \in Thread \ {t} :
             /\ code'[u].pc = code[u].pc /\ code'[u].size = code[u].size
             /\ code'[u].current = code[u].current
  <2>1. CASE code' = [u \in Thread |->
                 IF u = t THEN NoCode
                 ELSE IF code[u].pc = a THEN [code[u] EXCEPT !.live = FALSE]
                 ELSE code[u]]
    BY <2>1, <1>b, NoCodeType DEF Code
  <2>2. CASE code' = [code EXCEPT ![t] = NoCode]
    BY <2>2, <1>b, NoCodeType
  <2> QED BY <2>1, <2>2 DEF Publish
<1> USE <1>a, <1>b, <1>c, <1>d, <1>e DEF IInv
<1>1. TypeOK'
  BY DEF TypeOK, CacheInv, Phase
<1>2. StopsAreSet'
  BY ExecutionAssumption DEF StopsAreSet
<1>3. SignalsAreOn' /\ ObsoleteIsRun'
  BY DEF SignalsAreOn, ObsoleteIsRun, Generated
<1>4. CurrentIsCached'
  BY DEF CurrentIsCached, Code, Generated
<1>5. InvalidatedIsNotified'
  BY DEF InvalidatedIsNotified, Notified, Generated
<1> QED BY <1>1, <1>2, <1>3, <1>4, <1>5

(* An invalidation of bytes that a thread runs from the map finds its entry,  *)
(* so the other threads are flushed.                                          *)
LEMMA CurrentIsErased ==
  ASSUME IInv, NEW u \in Thread, NEW start \in Int, NEW end \in Int,
         RunsBytesOf(u, start, end), code[u].current
  PROVE  code[u].pc \in TC!Erased(start, end)
<1> DEFINE a == code[u].pc
<1>1. /\ a \in Addr /\ hostCode[a] = "Generated" /\ guestSize[a] = code[u].size
      /\ a < end /\ a + guestSize[a] > start
  BY DEF RunsBytesOf, IInv, CurrentIsCached, TypeOK, Code
<1>2. a \in Int /\ guestSize[a] \in 1..MaxRegion /\ maxGuestSize \in 1..MaxRegion
  <2>1. guestSize \in [Addr -> 1..MaxRegion] /\ maxGuestSize \in 1..MaxRegion
    BY DEF IInv, CacheInv, TC!TypeOK
  <2>2. a \in Int
    BY <1>1, ExecutionAssumption
  <2> QED BY <1>1, <2>1, <2>2
<1>3. guestSize[a] <= maxGuestSize
  BY <1>1 DEF IInv, CacheInv, SizesAreBounded
<1>4. kind[a] # TC!Absent /\ a \notin translating
  BY <1>1 DEF IInv, CacheInv, StatesFit, Absent, TC!TranslatingIsExact
<1>5. start <= maxGuestSize \/ a > start - maxGuestSize
  BY <1>1, <1>2, <1>3, ExecutionAssumption
<1> QED
  BY <1>1, <1>4, <1>5 DEF TC!Erased, TC!Overlapping, TC!Visited, TC!Skipped

(* An invalidation queues every other thread for the flush if it met an     *)
(* executable entry; threads in the code it erases are among them.          *)
LEMMA ExecInvalidateInv ==
  ASSUME IInv, NEW t \in Thread, NEW start \in Int, NEW end \in Int,
         Invalidate(t, start, end)
  PROVE  IInv'
<1> DEFINE E == TC!Erased(start, end)
<1>a. /\ at[t] \notin Generated /\ toFlush[t] = {}
      /\ toFlush' = [toFlush EXCEPT ![t] =
             IF TC!InvalidatedExecutable(start, end) THEN Thread \ {t} ELSE {}]
      /\ code' = [u \in Thread |-> IF code[u].pc \in E
             THEN [code[u] EXCEPT !.current = FALSE, !.live = FALSE] ELSE code[u]]
      /\ obsolete' = [u \in Thread |->
             IF obsolete[u] = "No" /\ RunsBytesOf(u, start, end)
             THEN IF code[u].current THEN "Invalidated" ELSE "Replaced"
             ELSE obsolete[u]]
      /\ UNCHANGED <<at, pc, status>>
  BY DEF Invalidate, In, Generated
<1>t. /\ profiled' \in [Addr -> BOOLEAN] /\ hot' \in [Addr -> BOOLEAN]
      /\ invalidations' \in 0..MaxInvalidations
      /\ code \in [Thread -> Code]
      /\ toFlush \in [Thread -> SUBSET Thread]
      /\ obsolete \in [Thread -> {"No", "Invalidated", "Replaced"}]
  <2>1. invalidations' \in 0..MaxInvalidations
    <3>1. /\ invalidations \in 0..MaxInvalidations /\ invalidations < MaxInvalidations
          /\ invalidations' = invalidations + 1
      BY DEF Invalidate, IInv, TypeOK
    <3> QED BY <3>1, ExecutionAssumption
  <2>2. profiled' \in [Addr -> BOOLEAN] /\ hot' \in [Addr -> BOOLEAN]
    BY DEF Invalidate, IInv, TypeOK
  <2> QED BY <2>1, <2>2 DEF IInv, TypeOK
<1>b. CacheInv'
  BY InvalidateInv DEF Invalidate, IInv
<1>c. \A b \in Addr : hostCode[b] \in {"Generated", "Stop"} /\ b \notin E =>
          hostCode'[b] = hostCode[b] /\ guestSize'[b] = guestSize[b]
  BY DEF Invalidate, TC!InvalidateGuestRange, TC!Erase, TC!Wrappings, IInv, CacheInv,
         TC!TranslatingIsExact
<1>d. E \cap StopAddr = {}
  BY DEF TC!Erased, TC!Overlapping, TC!Visited, IInv, CacheInv, StatesFit, Absent
<1>e. /\ code' \in [Thread -> Code]
      /\ \A u \in Thread : code'[u].current =>
             code'[u] = code[u] /\ code[u].pc \notin E
  BY <1>a, <1>t DEF Code
<1>f. E # {} => TC!InvalidatedExecutable(start, end)
  BY DEF TC!InvalidatedExecutable
<1>g. ASSUME NEW u \in Thread, obsolete[u] = "No", RunsBytesOf(u, start, end),
             code[u].current
      PROVE  u \in toFlush'[t]
  BY <1>a, <1>t, <1>f, <1>g, CurrentIsErased DEF RunsBytesOf
<1> HIDE DEF E
<1> USE <1>a, <1>t, <1>b, <1>c, <1>d, <1>e DEF IInv
<1>1. TypeOK'
  BY DEF TypeOK, CacheInv
<1>2. StopsAreSet'
  BY ExecutionAssumption DEF StopsAreSet
<1>3. SignalsAreOn' /\ ObsoleteIsRun'
  BY DEF SignalsAreOn, ObsoleteIsRun, RunsBytesOf
<1>4. CurrentIsCached'
  <2> SUFFICES ASSUME NEW u \in Thread, at[u] \in Generated, code'[u].current
               PROVE  /\ hostCode'[code'[u].pc] = "Generated"
                      /\ guestSize'[code'[u].pc] = code'[u].size
    BY DEF CurrentIsCached
  <2>1. code'[u] = code[u] /\ code[u].pc \in Addr \ E
    BY DEF Code
  <2>2. hostCode[code[u].pc] = "Generated" /\ guestSize[code[u].pc] = code[u].size
    BY <2>1 DEF CurrentIsCached
  <2> QED BY <2>1, <2>2
<1>5. InvalidatedIsNotified'
  <2> SUFFICES ASSUME NEW u \in Thread, at[u] \in Generated, obsolete'[u] = "Invalidated"
               PROVE  Notified(u)'
    BY DEF InvalidatedIsNotified
  <2>1. CASE obsolete[u] = "Invalidated"
    BY <2>1 DEF InvalidatedIsNotified, Notified
  <2>2. CASE obsolete[u] # "Invalidated"
    BY <2>2, <1>g DEF Notified
  <2> QED BY <2>1, <2>2
<1> QED BY <1>1, <1>2, <1>3, <1>4, <1>5

-----------------------------------------------------------------------------

(* The invariant holds before the first thread enters guest code.           *)
LEMMA InitIInv == Init => IInv
<1> SUFFICES ASSUME Init PROVE IInv
  OBVIOUS
<1>1. TC!TypeOK
  BY ExecutionAssumption
  DEF Init, TC!Init, TC!TypeOK, TC!HostCode, TC!Kind, TC!Absent, TC!Job, TC!NoJob
<1>2. CacheInv
  BY <1>1, ExecutionAssumption
  DEF Init, TC!Init, CacheInv, LocksAreOwned, TC!TranslatingIsExact, SizesAreBounded,
      StatesFit, Absent, NoJob
<1>3. TypeOK
  BY <1>1, NoCodeType, ExecutionAssumption
  DEF Init, TypeOK, Phase, CodeAddr, TC!CodeAddr
<1> QED
  BY <1>2, <1>3
  DEF Init, IInv, StopsAreSet, SignalsAreOn, ObsoleteIsRun, CurrentIsCached,
      InvalidatedIsNotified, Generated

(* The ends of an invalidated range are numbers. *)
LEMMA BoundIsInt == ASSUME NEW b \in TC!Bound PROVE b \in Int
  BY ExecutionAssumption, SMTT(30) DEF TC!Bound

(* The invariant is inductive. *)
THEOREM Inductive == IInv /\ [Next]_vars => IInv'
<1> SUFFICES ASSUME IInv, [Next]_vars PROVE IInv'
  OBVIOUS
<1>1. CASE UNCHANGED vars
  <2>1. CacheInv' /\ UNCHANGED <<cacheVars, execVars>>
    BY <1>1, CacheUnchanged DEF vars, IInv
  <2> QED
    BY <2>1
    DEF IInv, cacheVars, execVars, CacheInv, TypeOK, StopsAreSet, SignalsAreOn,
        ObsoleteIsRun, CurrentIsCached, InvalidatedIsNotified, Notified
<1>2. CASE Next
  <2> PICK t \in Thread :
        \/ SetStop(t) \/ Enter(t) \/ Exit(t) \/ Dispatch(t) \/ Fetch(t)
        \/ Miss(t) \/ Hot(t) \/ Counted(t) \/ Publish(t)
        \/ BackEdge(t) \/ Loop(t) \/ RegionEnd(t) \/ Syscall(t) \/ Interpret(t)
        \/ \E start, end \in TC!Bound : Invalidate(t, start, end)
        \/ \E u \in Thread : Flush(t, u)
    BY <1>2 DEF Next
  <2>1. ASSUME NEW start \in TC!Bound, NEW end \in TC!Bound, Invalidate(t, start, end)
        PROVE  IInv'
    <3>1. start \in Int /\ end \in Int
      BY BoundIsInt
    <3> QED BY <2>1, <3>1, ExecInvalidateInv
  <2> QED
    BY <2>1, ExecSetStopInv, EnterInv, ExitInv, DispatchInv, FetchInv, MissInv, HotInv,
       CountedInv, PublishInv, BackEdgeInv, LoopInv, RegionEndInv, SyscallInv,
       InterpretInv, FlushInv
<1> QED BY <1>1, <1>2

(* The inductive invariant of guest execution, in every reachable state.    *)
THEOREM Invariance == Spec => []IInv
  BY InitIInv, Inductive, PTL DEF Spec

(* Type correctness of the threads that execute guest code. *)
THEOREM TypeCorrect == Spec => []TypeOK
<1>1. IInv => TypeOK
  BY DEF IInv
<1> QED BY <1>1, Invariance, PTL

(* FlushGuestCodeCache misses no thread that runs invalidated code which the  *)
(* address map pointed to, for any number of threads and invalidations.       *)
THEOREM FlushReachesAll == Spec => []InvalidatedIsNotified
<1>1. IInv => InvalidatedIsNotified
  BY DEF IInv
<1> QED BY <1>1, Invariance, PTL

(* The threads use the cache only by its operations: every execution of the   *)
(* runtime is one of TranslationCache, whose theorems therefore hold of it.   *)
THEOREM RefinesCache == Spec => CacheSpec
<1>1. Init => TC!Init
  BY DEF Init
<1>2. ASSUME IInv, [Next]_vars PROVE [TC!Next]_cacheVars
  <2>1. CASE UNCHANGED vars
    BY <2>1 DEF vars
  <2>2. CASE Next
    <3> PICK t \in Thread :
          \/ SetStop(t) \/ Enter(t) \/ Exit(t) \/ Dispatch(t) \/ Fetch(t)
          \/ Miss(t) \/ Hot(t) \/ Counted(t) \/ Publish(t)
          \/ BackEdge(t) \/ Loop(t) \/ RegionEnd(t) \/ Syscall(t) \/ Interpret(t)
          \/ \E start, end \in TC!Bound : Invalidate(t, start, end)
          \/ \E u \in Thread : Flush(t, u)
      BY <2>2 DEF Next
    <3>1. CASE SetStop(t)
      BY <3>1 DEF SetStop, TC!Next
    <3>2. CASE Miss(t)
      BY <3>2, <1>2 DEF Miss, In, IInv, StopsAreSet, TypeOK, TC!Next, TC!CodeAddr
    <3>3. CASE Hot(t)
      <4>1. pc[t] \in Addr /\ (kind[pc[t]] = "LiteTranslated" => pc[t] \in TC!CodeAddr)
        BY <1>2 DEF IInv, TypeOK, CacheInv, StatesFit, Absent, TC!Absent, TC!CodeAddr
      <4> QED
        BY <3>3, <4>1 DEF Hot, TC!LockForGearUpTranslation, TC!Next
    <3>4. CASE Publish(t)
      BY <3>4 DEF Publish, TC!Unlock, TC!Next
    <3>5. CASE \E start, end \in TC!Bound : Invalidate(t, start, end)
      BY <3>5 DEF Invalidate, TC!Next
    <3>6. ASSUME Enter(t) \/ Exit(t) \/ Dispatch(t) \/ Fetch(t) \/ Counted(t)
                 \/ BackEdge(t) \/ Loop(t) \/ RegionEnd(t) \/ Syscall(t) \/ Interpret(t)
                 \/ \E u \in Thread : Flush(t, u)
          PROVE  UNCHANGED cacheVars
      BY <3>6 DEF Enter, Exit, Dispatch, Fetch, Counted, BackEdge, Loop, RegionEnd,
                  Syscall, Interpret, Flush
    <3> QED BY <3>1, <3>2, <3>3, <3>4, <3>5, <3>6
  <2> QED BY <1>2, <2>1, <2>2
<1> QED BY <1>1, <1>2, Invariance, PTL DEF Spec, CacheSpec
=============================================================================
