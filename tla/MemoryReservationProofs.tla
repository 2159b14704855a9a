----------------------- MODULE MemoryReservationProofs -----------------------
(***************************************************************************)
(* Proofs about load-reserved and store-conditional for any number of      *)
(* threads, regions and entries and any hash function.                     *)
(*                                                                         *)
(* LockInv carries the types and the locks, whatever signal handlers do.   *)
(* That a broken reservation never gets the lock needs BrokenIsLost: the   *)
(* store that broke it held the lock of the entry, so its thread was not   *)
(* the owner, and only a load of its own can make it the owner again.      *)
(* LeaveHandler would bring back a reservation after such a load, so this  *)
(* part is about threads without handlers of their own.                    *)
(***************************************************************************)
EXTENDS MemoryReservation, TLAPS

(* A thread in the middle of an instruction knows the region it is about, and *)
(* a store-conditional has given up the reservation.                          *)
RegionIsKnown ==
    \A t \in Thread :
        /\ at[t] \in {"Steal", "Read"} => reserved[t] \in Region
        /\ at[t] \in {"Lock", "Swap", "Unlock"} =>
              store[t] \in StoreArgs /\ reserved[t] = Null

LockInv == TypeOK /\ RegionIsKnown /\ LockHasOneHolder

(* Whose reservation is broken does not own the entry: only its own next      *)
(* load, which makes a new reservation, can make it the owner again.          *)
BrokenIsLost ==
    \A t \in Thread \ HandlerThread : broken[t] =>
        /\ at[t] = "Idle" /\ reserved[t] \in Region => owner[Hash[reserved[t]]] # t
        /\ at[t] = "Lock" => owner[Hash[store[t].region]] # t
        /\ at[t] # "Swap"

NoneSaved == \A t \in Thread \ HandlerThread : saved[t] = Null

ExclusiveInv == LockInv /\ NoneSaved /\ BrokenIsLost

-----------------------------------------------------------------------------

(* Storing to parts of a region gives the content of a region. *)
LEMMA EmbedType ==
    ASSUME NEW c \in Content, NEW part \in SUBSET Part, NEW v \in Value
    PROVE  Embed(c, part, v) \in Content
  BY DEF Embed, Content

(* The empty table, with no thread in an instruction. *)
LEMMA InitLockInv == Init => LockInv
  <1> SUFFICES ASSUME Init PROVE LockInv
    OBVIOUS
  <1>0. [p \in Part |-> CHOOSE v \in Value : TRUE] \in Content
    BY ReservationAssumption DEF Content
  <1>1. TypeOK
    BY <1>0, ReservationAssumption DEF Init, TypeOK, Where, NoStore
  <1>2. RegionIsKnown
    BY DEF Init, RegionIsKnown
  <1>3. LockHasOneHolder
    BY ReservationAssumption DEF Init, LockHasOneHolder, HoldsLock
  <1> QED
    BY <1>1, <1>2, <1>3 DEF LockInv

(* Load keeps the types and the locks. *)
LEMMA LoadLock ==
    ASSUME LockInv, NEW t \in Thread, NEW r \in Region, Load(t, r)
    PROVE  LockInv'
  <1>1. TypeOK'
    BY ReservationAssumption DEF LockInv, TypeOK, Load, Goto, Where
  <1>2. RegionIsKnown'
    BY DEF LockInv, TypeOK, RegionIsKnown, Load, Goto
  <1>3. LockHasOneHolder'
    BY DEF LockInv, TypeOK, LockHasOneHolder, HoldsLock, Load, Goto
  <1> QED
    BY <1>1, <1>2, <1>3 DEF LockInv

(* Steal keeps the types and the locks. *)
LEMMA StealLock ==
    ASSUME LockInv, NEW t \in Thread, Steal(t)
    PROVE  LockInv'
  <1>1. TypeOK'
    BY ReservationAssumption
    DEF LockInv, TypeOK, RegionIsKnown, Steal, Goto, Where
  <1>2. RegionIsKnown'
    BY DEF LockInv, RegionIsKnown, Steal, Goto
  <1>3. LockHasOneHolder'
    BY ReservationAssumption
    DEF LockInv, TypeOK, LockHasOneHolder, HoldsLock, Steal, Goto
  <1> QED
    BY <1>1, <1>2, <1>3 DEF LockInv

(* ReservationLoad keeps the types and the locks. *)
LEMMA ReservationLoadLock ==
    ASSUME LockInv, NEW t \in Thread, ReservationLoad(t)
    PROVE  LockInv'
  <1>1. TypeOK'
    BY DEF LockInv, TypeOK, RegionIsKnown, ReservationLoad, Goto, Where
  <1>2. RegionIsKnown'
    BY DEF LockInv, RegionIsKnown, ReservationLoad, Goto
  <1>3. LockHasOneHolder'
    BY DEF LockInv, LockHasOneHolder, HoldsLock, ReservationLoad, Goto
  <1> QED
    BY <1>1, <1>2, <1>3 DEF LockInv

(* Store keeps the types and the locks. *)
LEMMA StoreLock ==
    ASSUME LockInv, NEW t \in Thread, NEW r \in Region,
           NEW part \in SUBSET Part, NEW v \in Value, Store(t, r, part, v)
    PROVE  LockInv'
  <1>0. Embed(value[t], part, v) \in Content
    BY EmbedType DEF LockInv, TypeOK
  <1>1. TypeOK'
    BY <1>0 DEF LockInv, TypeOK, Store, Goto, Where, StoreArgs
  <1>2. RegionIsKnown'
    BY EmbedType DEF LockInv, TypeOK, RegionIsKnown, Store, Goto, StoreArgs
  <1>3. LockHasOneHolder'
    <2>1. ASSUME NEW u \in Thread, NEW e \in Entry
          PROVE  HoldsLock(u, e)' <=> HoldsLock(u, e)
      BY DEF LockInv, TypeOK, HoldsLock, Store, Goto
    <2> QED
      BY <2>1 DEF LockInv, LockHasOneHolder, Store
  <1> QED
    BY <1>1, <1>2, <1>3 DEF LockInv

(* TryLock keeps the types and the locks. *)
LEMMA TryLockLock ==
    ASSUME LockInv, NEW t \in Thread, TryLock(t)
    PROVE  LockInv'
  <1>1. TypeOK'
    BY DEF LockInv, TypeOK, TryLock, Goto, Where
  <1>2. RegionIsKnown'
    BY DEF LockInv, TypeOK, RegionIsKnown, TryLock, Goto
  <1>3. LockHasOneHolder'
    <2> DEFINE e0 == Hash[store[t].region]
    <2>0. e0 \in Entry
      BY ReservationAssumption DEF LockInv, RegionIsKnown, TryLock, StoreArgs
    <2>1. ASSUME NEW u \in Thread \ {t}, NEW e \in Entry
          PROVE  HoldsLock(u, e)' <=> HoldsLock(u, e)
      BY DEF LockInv, TypeOK, HoldsLock, TryLock, Goto
    <2>2. CASE owner[e0] = t
      <3>1. ASSUME NEW e \in Entry PROVE HoldsLock(t, e)' <=> e = e0
        BY <2>2 DEF LockInv, TypeOK, HoldsLock, TryLock, Goto
      <3>2. ASSUME NEW u \in Thread PROVE ~HoldsLock(u, e0)
        BY <2>0, <2>2, ReservationAssumption DEF LockInv, LockHasOneHolder
      <3>3. ASSUME NEW e \in Entry PROVE ~HoldsLock(t, e)
        BY DEF HoldsLock, TryLock
      <3>4. owner' = [owner EXCEPT ![e0] = Locked]
        BY <2>2 DEF TryLock
      <3> QED
        BY <2>1, <3>1, <3>2, <3>3, <3>4 DEF LockInv, TypeOK, LockHasOneHolder
    <2>3. CASE owner[e0] # t
      <3>1. ASSUME NEW e \in Entry PROVE ~HoldsLock(t, e) /\ ~HoldsLock(t, e)'
        BY <2>3 DEF LockInv, TypeOK, HoldsLock, TryLock, Goto
      <3>2. owner' = owner
        BY <2>3 DEF TryLock
      <3> QED
        BY <2>1, <3>1, <3>2 DEF LockInv, LockHasOneHolder
    <2> QED
      BY <2>2, <2>3
  <1> QED
    BY <1>1, <1>2, <1>3 DEF LockInv

(* ReservationExchange keeps the types and the locks. *)
LEMMA ReservationExchangeLock ==
    ASSUME LockInv, NEW t \in Thread, ReservationExchange(t)
    PROVE  LockInv'
  <1>0. store[t].region \in Region /\ store[t].new \in Content
    BY DEF LockInv, RegionIsKnown, ReservationExchange, StoreArgs
  <1>a. broken' \in [Thread -> BOOLEAN] /\ saved' \in [Thread -> Saved \cup {Null}]
    <2>1. CASE Break(t, store[t].region)
      <3>1. broken' \in [Thread -> BOOLEAN]
        BY <2>1 DEF Break
      <3>2. ASSUME NEW u \in Thread PROVE saved'[u] \in Saved \cup {Null}
        BY <2>1 DEF Break, LockInv, TypeOK, Saved
      <3> QED BY <2>1, <3>1, <3>2 DEF Break
    <2> QED
      BY <2>1 DEF ReservationExchange, LockInv, TypeOK
  <1>1. TypeOK'
    BY <1>0, <1>a DEF LockInv, TypeOK, ReservationExchange, Goto, Where
  <1>2. RegionIsKnown'
    BY DEF LockInv, RegionIsKnown, ReservationExchange, Goto
  <1>3. LockHasOneHolder'
    BY DEF LockInv, LockHasOneHolder, HoldsLock, ReservationExchange, Goto
  <1> QED
    BY <1>1, <1>2, <1>3 DEF LockInv

(* Unlock keeps the types and the locks. *)
LEMMA UnlockLock ==
    ASSUME LockInv, NEW t \in Thread, Unlock(t)
    PROVE  LockInv'
  <1>1. TypeOK'
    BY ReservationAssumption
    DEF LockInv, TypeOK, RegionIsKnown, Unlock, Goto, Where, StoreArgs
  <1>2. RegionIsKnown'
    BY DEF LockInv, TypeOK, RegionIsKnown, Unlock, Goto
  <1>3. LockHasOneHolder'
    BY ReservationAssumption
    DEF LockInv, TypeOK, LockHasOneHolder, HoldsLock, Unlock, Goto
  <1> QED
    BY <1>1, <1>2, <1>3 DEF LockInv

(* PlainStore keeps the types and the locks. *)
LEMMA PlainStoreLock ==
    ASSUME LockInv, NEW r \in Region, NEW part \in SUBSET Part,
           NEW v \in Value, PlainStore(r, part, v)
    PROVE  LockInv'
  <1>1. TypeOK'
    BY EmbedType DEF LockInv, TypeOK, PlainStore
  <1>2. RegionIsKnown'
    BY DEF LockInv, RegionIsKnown, PlainStore
  <1>3. LockHasOneHolder'
    BY DEF LockInv, LockHasOneHolder, HoldsLock, PlainStore
  <1> QED
    BY <1>1, <1>2, <1>3 DEF LockInv

(* EnterHandler keeps the types and the locks. *)
LEMMA EnterHandlerLock ==
    ASSUME LockInv, NEW t \in Thread, EnterHandler(t)
    PROVE  LockInv'
  <1>1. TypeOK'
    BY DEF LockInv, TypeOK, EnterHandler, Saved
  <1>2. RegionIsKnown'
    BY DEF LockInv, RegionIsKnown, EnterHandler
  <1>3. LockHasOneHolder'
    BY DEF LockInv, LockHasOneHolder, HoldsLock, EnterHandler
  <1> QED
    BY <1>1, <1>2, <1>3 DEF LockInv

(* LeaveHandler keeps the types and the locks. *)
LEMMA LeaveHandlerLock ==
    ASSUME LockInv, NEW t \in Thread, LeaveHandler(t)
    PROVE  LockInv'
  <1>1. TypeOK'
    BY DEF LockInv, TypeOK, LeaveHandler, Saved
  <1>2. RegionIsKnown'
    BY DEF LockInv, RegionIsKnown, LeaveHandler
  <1>3. LockHasOneHolder'
    BY DEF LockInv, LockHasOneHolder, HoldsLock, LeaveHandler
  <1> QED
    BY <1>1, <1>2, <1>3 DEF LockInv

-----------------------------------------------------------------------------

(* The types and the locks are kept by every step. *)
THEOREM LockInductive == LockInv /\ [Next]_vars => LockInv'
  <1> SUFFICES ASSUME LockInv, [Next]_vars PROVE LockInv'
    OBVIOUS
  <1>1. CASE UNCHANGED vars
    BY <1>1
    DEF vars, LockInv, TypeOK, RegionIsKnown, LockHasOneHolder, HoldsLock
  <1>2. ASSUME NEW t \in Thread, Continue(t) PROVE LockInv'
    BY <1>2, StealLock, ReservationLoadLock, TryLockLock,
       ReservationExchangeLock, UnlockLock
    DEF Continue
  <1> QED
    BY <1>1, <1>2, LoadLock, StoreLock, PlainStoreLock, EnterHandlerLock,
       LeaveHandlerLock
    DEF Next

(* Every reachable state satisfies the invariant of the locks. *)
THEOREM LockInvariance == Spec => []LockInv
  BY InitLockInv, LockInductive, PTL DEF Spec

(* Type correctness of the reservation table and of the reservations. *)
THEOREM TypeCorrect == Spec => []TypeOK
  <1>1. LockInv => TypeOK
    BY DEF LockInv
  <1> QED BY <1>1, LockInvariance, PTL

(* An entry is locked exactly while one thread is between TryLock and Unlock,  *)
(* with or without signal handlers: Unlock needs no compare-and-swap.          *)
THEOREM OneHolder == Spec => []LockHasOneHolder
  <1>1. LockInv => LockHasOneHolder
    BY DEF LockInv
  <1> QED BY <1>1, LockInvariance, PTL

(* No step of a store-conditional undoes a plain store to a neighbouring part. *)
THEOREM Neighbours == Spec => NeighboursSurvive
  <1> DEFINE Keeps == \A t \in Thread : at[t] = "Swap" /\ at'[t] # "Swap" =>
                 \A p \in Part : store[t].new[p] = value[t][p] =>
                     mem'[store[t].region][p] = mem[store[t].region][p]
  <1>1. LockInv /\ [Next]_vars => [Keeps]_vars
    <2> SUFFICES ASSUME LockInv, Next,
                        NEW t \in Thread, at[t] = "Swap", at'[t] # "Swap",
                        NEW p \in Part, store[t].new[p] = value[t][p]
                 PROVE  mem'[store[t].region][p] = mem[store[t].region][p]
      OBVIOUS
    <2>1. ReservationExchange(t)
      BY DEF Next, Continue, LockInv, TypeOK, Load, Steal, ReservationLoad,
             Store, TryLock, ReservationExchange, Unlock, PlainStore,
             EnterHandler, LeaveHandler, Goto
    <2>2. store[t].region \in Region
      BY DEF LockInv, RegionIsKnown, StoreArgs
    <2> QED
      BY <2>1 DEF ReservationExchange, LockInv, TypeOK
  <1> QED
    BY <1>1, LockInvariance, PTL DEF Spec, NeighboursSurvive

-----------------------------------------------------------------------------

(* The empty table breaks nothing. *)
LEMMA InitExclusive == Init => ExclusiveInv
  BY InitLockInv DEF Init, ExclusiveInv, NoneSaved, BrokenIsLost

(* Load leaves broken reservations without their entry. *)
LEMMA LoadBroken ==
    ASSUME ExclusiveInv, NEW t \in Thread, NEW r \in Region, Load(t, r)
    PROVE  NoneSaved' /\ BrokenIsLost'
  <1>1. NoneSaved'
    BY DEF ExclusiveInv, NoneSaved, Load
  <1>2. BrokenIsLost'
    BY DEF ExclusiveInv, LockInv, TypeOK, BrokenIsLost, Load, Goto
  <1> QED
    BY <1>1, <1>2

(* Steal leaves broken reservations without their entry. *)
LEMMA StealBroken ==
    ASSUME ExclusiveInv, NEW t \in Thread, Steal(t)
    PROVE  NoneSaved' /\ BrokenIsLost'
  <1>1. NoneSaved'
    BY DEF ExclusiveInv, NoneSaved, Steal
  <1>2. BrokenIsLost'
    BY DEF ExclusiveInv, BrokenIsLost, Steal, Goto
  <1> QED
    BY <1>1, <1>2

(* ReservationLoad leaves broken reservations without their entry. *)
LEMMA ReservationLoadBroken ==
    ASSUME ExclusiveInv, NEW t \in Thread, ReservationLoad(t)
    PROVE  NoneSaved' /\ BrokenIsLost'
  <1>1. NoneSaved'
    BY DEF ExclusiveInv, NoneSaved, ReservationLoad
  <1>2. BrokenIsLost'
    BY DEF ExclusiveInv, LockInv, TypeOK, BrokenIsLost, ReservationLoad, Goto
  <1> QED
    BY <1>1, <1>2

(* Store leaves broken reservations without their entry. *)
LEMMA StoreBroken ==
    ASSUME ExclusiveInv, NEW t \in Thread, NEW r \in Region,
           NEW part \in SUBSET Part, NEW v \in Value, Store(t, r, part, v)
    PROVE  NoneSaved' /\ BrokenIsLost'
  <1>1. NoneSaved'
    BY DEF ExclusiveInv, NoneSaved, Store
  <1>2. BrokenIsLost'
    BY ReservationAssumption
    DEF ExclusiveInv, LockInv, TypeOK, BrokenIsLost, Store, Goto
  <1> QED
    BY <1>1, <1>2

(* TryLock leaves broken reservations without their entry. *)
LEMMA TryLockBroken ==
    ASSUME ExclusiveInv, NEW t \in Thread, TryLock(t)
    PROVE  NoneSaved' /\ BrokenIsLost'
  <1>1. NoneSaved'
    BY DEF ExclusiveInv, NoneSaved, TryLock
  <1>2. BrokenIsLost'
    BY ReservationAssumption
    DEF ExclusiveInv, LockInv, TypeOK, RegionIsKnown, BrokenIsLost, TryLock,
        Goto, StoreArgs
  <1> QED
    BY <1>1, <1>2

(* ReservationExchange leaves broken reservations without their entry. *)
LEMMA ReservationExchangeBroken ==
    ASSUME ExclusiveInv, NEW t \in Thread, ReservationExchange(t)
    PROVE  NoneSaved' /\ BrokenIsLost'
  <1>1. NoneSaved'
    BY DEF ExclusiveInv, NoneSaved, ReservationExchange, Break
  <1>2. BrokenIsLost'
    <2> DEFINE r0 == store[t].region
    <2>0. r0 \in Region /\ HoldsLock(t, Hash[r0]) /\ Hash[r0] \in Entry
      BY ReservationAssumption
      DEF ExclusiveInv, LockInv, RegionIsKnown, ReservationExchange,
          StoreArgs, HoldsLock
    <2>1. owner[Hash[r0]] = Locked
      BY <2>0 DEF ExclusiveInv, LockInv, LockHasOneHolder
    <2>2. ASSUME NEW u \in Thread \ {t} PROVE ~(at[u] = "Swap" /\ store[u].region = r0)
      BY <2>0 DEF ExclusiveInv, LockInv, LockHasOneHolder, HoldsLock
    <2>3. ASSUME NEW u \in Thread, broken'[u]
          PROVE  broken[u] \/ (u # t /\ Holds(u, r0))
      BY <2>3 DEF ReservationExchange, Break
    <2>4. t \notin HandlerThread => ~broken[t]
      BY DEF ExclusiveInv, BrokenIsLost, ReservationExchange
    <2>5. ASSUME NEW u \in Thread \ {t} PROVE at'[u] = at[u]
      BY DEF ReservationExchange, Goto
    <2>6. UNCHANGED <<owner, reserved, store>>
      BY DEF ReservationExchange
    <2>7. Locked \notin Thread /\ Null \notin Region
      BY ReservationAssumption
    <2>8. ASSUME NEW u \in Thread \ HandlerThread, broken'[u]
          PROVE  /\ at'[u] = "Idle" /\ reserved[u] \in Region => owner[Hash[reserved[u]]] # u
                 /\ at'[u] = "Lock" => owner[Hash[store[u].region]] # u
                 /\ at'[u] # "Swap"
      <3>1. u # t
        BY <2>3, <2>4, <2>8 
      <3>2. CASE broken[u]
        BY <3>1, <3>2, <2>5 DEF ExclusiveInv, BrokenIsLost
      <3>3. CASE Holds(u, r0)
        <4>1. CASE at[u] = "Swap"
          BY <3>1, <3>3, <4>1, <2>0, <2>2, <2>7
          DEF Holds, ExclusiveInv, LockInv, RegionIsKnown
        <4>2. CASE at[u] = "Lock"
          BY <3>1, <3>3, <4>2, <2>0, <2>1, <2>5, <2>7
          DEF Holds, ExclusiveInv, LockInv, RegionIsKnown
        <4>3. CASE at[u] \notin {"Lock", "Swap"}
          BY <3>1, <3>3, <4>3, <2>1, <2>5, <2>7 DEF Holds
        <4> QED BY <4>1, <4>2, <4>3
      <3> QED
        BY <3>2, <3>3, <2>3, <2>8 
    <2> QED
      BY <2>6, <2>8 DEF BrokenIsLost
  <1> QED
    BY <1>1, <1>2

(* Unlock leaves broken reservations without their entry. *)
LEMMA UnlockBroken ==
    ASSUME ExclusiveInv, NEW t \in Thread, Unlock(t)
    PROVE  NoneSaved' /\ BrokenIsLost'
  <1>1. NoneSaved'
    BY DEF ExclusiveInv, NoneSaved, Unlock
  <1>2. BrokenIsLost'
    BY ReservationAssumption
    DEF ExclusiveInv, LockInv, RegionIsKnown, BrokenIsLost, Unlock, Goto
  <1> QED
    BY <1>1, <1>2

(* PlainStore leaves broken reservations without their entry. *)
LEMMA PlainStoreBroken ==
    ASSUME ExclusiveInv, NEW r \in Region, NEW part \in SUBSET Part,
           NEW v \in Value, PlainStore(r, part, v)
    PROVE  NoneSaved' /\ BrokenIsLost'
  <1>1. NoneSaved'
    BY DEF ExclusiveInv, NoneSaved, PlainStore
  <1>2. BrokenIsLost'
    BY DEF ExclusiveInv, BrokenIsLost, PlainStore
  <1> QED
    BY <1>1, <1>2

(* EnterHandler is about a thread that has handlers. *)
LEMMA EnterHandlerBroken ==
    ASSUME ExclusiveInv, NEW t \in Thread, EnterHandler(t)
    PROVE  NoneSaved' /\ BrokenIsLost'
  <1>1. NoneSaved'
    BY DEF ExclusiveInv, LockInv, TypeOK, NoneSaved, EnterHandler
  <1>2. BrokenIsLost'
    BY DEF ExclusiveInv, BrokenIsLost, EnterHandler
  <1> QED
    BY <1>1, <1>2

(* LeaveHandler is about a thread that has handlers. *)
LEMMA LeaveHandlerBroken ==
    ASSUME ExclusiveInv, NEW t \in Thread, LeaveHandler(t)
    PROVE  NoneSaved' /\ BrokenIsLost'
  <1>0. t \in HandlerThread
    BY DEF ExclusiveInv, NoneSaved, LeaveHandler
  <1>1. NoneSaved'
    BY <1>0 DEF ExclusiveInv, LockInv, TypeOK, NoneSaved, LeaveHandler
  <1>2. BrokenIsLost'
    BY <1>0 DEF ExclusiveInv, LockInv, TypeOK, BrokenIsLost, LeaveHandler
  <1> QED
    BY <1>1, <1>2

(* Every step leaves broken reservations of uninterrupted threads broken. *)
THEOREM ExclusiveInductive == ExclusiveInv /\ [Next]_vars => ExclusiveInv'
  <1> SUFFICES ASSUME ExclusiveInv, [Next]_vars PROVE ExclusiveInv'
    OBVIOUS
  <1>1. LockInv'
    BY LockInductive DEF ExclusiveInv
  <1>2. NoneSaved' /\ BrokenIsLost'
    <2>1. CASE UNCHANGED vars
      BY <2>1 DEF vars, ExclusiveInv, NoneSaved, BrokenIsLost
    <2>2. ASSUME NEW t \in Thread, Continue(t) PROVE NoneSaved' /\ BrokenIsLost'
      BY <2>2, StealBroken, ReservationLoadBroken, TryLockBroken,
         ReservationExchangeBroken, UnlockBroken
      DEF Continue
    <2> QED
      BY <2>1, <2>2, LoadBroken, StoreBroken, PlainStoreBroken,
         EnterHandlerBroken, LeaveHandlerBroken
      DEF Next
  <1> QED
    BY <1>1, <1>2 DEF ExclusiveInv

(* A store-conditional of a thread without signal handlers that reaches its    *)
(* compare-and-swap follows a load with no other thread's store-conditional to *)
(* the region in between: owner and lock rule out ABA among them, whatever     *)
(* collisions the hash table has and whatever handlers the other threads run.  *)
THEOREM ExclusiveStores == Spec => []UninterruptedIsExclusive
  <1>1. ExclusiveInv => UninterruptedIsExclusive
    BY DEF ExclusiveInv, BrokenIsLost, UninterruptedIsExclusive
  <1> QED
    BY <1>1, InitExclusive, ExclusiveInductive, PTL DEF Spec
=============================================================================
