-------------------------- MODULE MemoryReservation --------------------------
(***************************************************************************)
(* Load-reserved and store-conditional of riscv64 guests                   *)
(* (runtime_primitives/memory_region_reservation), as the interpreter runs *)
(* them and the heavy optimizer inlines them.                              *)
(*                                                                         *)
(* A reservation is for an aligned region of memory.  Regions share the    *)
(* entries of a hash table that says which thread reserved one of them     *)
(* last.  A store-conditional locks the entry, and then compares and swaps *)
(* the whole region.  Plain stores know nothing of reservations.           *)
(***************************************************************************)
EXTENDS Naturals

CONSTANTS
    Thread,
    Region,        \* aligned addresses
    Entry,         \* cells of g_owners
    Hash,          \* region -> its entry, many to one
    Part,          \* parts of a region that can be stored to on their own
    Value,         \* what a part can hold
    Null,
    Locked,        \* kLockedOwner
    HandlerThread  \* threads that run guest signal handlers

ASSUME ReservationAssumption ==
    /\ Hash \in [Region -> Entry]
    /\ Null \notin Thread \cup Region \cup {Locked}
    /\ Locked \notin Thread
    /\ Value # {}
    /\ HandlerThread \subseteq Thread

VARIABLES
    owner,      \* g_owners
    mem,        \* region -> its content
    at,         \* thread -> where it is in the instruction
    prev,       \* thread -> the owner that SetOwner loaded
    reserved,   \* thread -> CPUState::reservation_address
    value,      \* thread -> CPUState::reservation_value
    store,      \* thread -> region and content of its store-conditional
    broken,     \* history: another thread's store-conditional wrote the region
                \* since the thread loaded it
    saved       \* thread -> the reservation that GuestContext holds, or Null

vars == <<owner, mem, at, prev, reserved, value, store, broken, saved>>

Content == [Part -> Value]

Where == {"Idle", "Steal", "Read", "Lock", "Swap", "Unlock"}

StoreArgs == [region : Region, new : Content]

NoStore == Null

Saved == [reserved : Region \cup {Null}, value : Content, broken : BOOLEAN]

(* The content after a store of v to the parts in part. *)
Embed(content, part, v) == [p \in Part |-> IF p \in part THEN v ELSE content[p]]

Init ==
    /\ owner = [e \in Entry |-> Null]
    /\ mem \in [Region -> Content]
    /\ at = [t \in Thread |-> "Idle"]
    /\ prev = [t \in Thread |-> Null]
    /\ reserved = [t \in Thread |-> Null]
    /\ value \in [Thread -> {[p \in Part |-> CHOOSE v \in Value : TRUE]}]
    /\ store = [t \in Thread |-> NoStore]
    /\ broken = [t \in Thread |-> FALSE]
    /\ saved = [t \in Thread |-> Null]

Goto(t, where) == at' = [at EXCEPT ![t] = where]

-----------------------------------------------------------------------------
(* Load: the entry is taken over, unless it is locked or another thread is   *)
(* faster; then the region is loaded.                                        *)

Load(t, r) ==
    /\ at[t] = "Idle"
    /\ reserved' = [reserved EXCEPT ![t] = r]
    /\ IF owner[Hash[r]] = Locked
       THEN Goto(t, "Read") /\ UNCHANGED prev
       ELSE Goto(t, "Steal") /\ prev' = [prev EXCEPT ![t] = owner[Hash[r]]]
    /\ UNCHANGED <<owner, mem, value, store, broken, saved>>

Steal(t) ==
    LET e == Hash[reserved[t]] IN
    /\ at[t] = "Steal"
    /\ owner' = [owner EXCEPT ![e] = IF @ = prev[t] THEN t ELSE @]
    /\ prev' = [prev EXCEPT ![t] = Null]
    /\ Goto(t, "Read")
    /\ UNCHANGED <<mem, reserved, value, store, broken, saved>>

ReservationLoad(t) ==
    /\ at[t] = "Read"
    /\ value' = [value EXCEPT ![t] = mem[reserved[t]]]
    /\ broken' = [broken EXCEPT ![t] = FALSE]
    /\ Goto(t, "Idle")
    /\ UNCHANGED <<owner, mem, prev, reserved, store, saved>>

-----------------------------------------------------------------------------
(* Store. *)

(* The reservation is given up in any case. *)
Store(t, r, part, v) ==
    /\ at[t] = "Idle"
    /\ reserved' = [reserved EXCEPT ![t] = Null]
    /\ IF reserved[t] = r
       THEN /\ store' = [store EXCEPT ![t] =
                    [region |-> r, new |-> Embed(value[t], part, v)]]
            /\ Goto(t, "Lock")
       ELSE UNCHANGED <<store, at>>
    /\ UNCHANGED <<owner, mem, prev, value, broken, saved>>

(* Mutant: the entry is locked unless another store-conditional holds it. *)
TryLockAnyOwner(t) ==
    LET e == Hash[store[t].region] IN
    /\ at[t] = "Lock"
    /\ IF owner[e] # Locked
       THEN /\ owner' = [owner EXCEPT ![e] = Locked]
            /\ Goto(t, "Swap")
            /\ UNCHANGED store
       ELSE /\ Goto(t, "Idle")
            /\ store' = [store EXCEPT ![t] = NoStore]
            /\ UNCHANGED owner
    /\ UNCHANGED <<mem, prev, reserved, value, broken, saved>>

TryLock(t) ==
    LET e == Hash[store[t].region] IN
    /\ at[t] = "Lock"
    /\ IF owner[e] = t
       THEN /\ owner' = [owner EXCEPT ![e] = Locked]
            /\ Goto(t, "Swap")
            /\ UNCHANGED store
       ELSE /\ Goto(t, "Idle")
            /\ store' = [store EXCEPT ![t] = NoStore]
            /\ UNCHANGED owner
    /\ UNCHANGED <<mem, prev, reserved, value, broken, saved>>

(* The reservations that the store-conditional of t to r breaks. *)
Holds(u, r) ==
    \/ reserved[u] = r
    \/ at[u] \in {"Lock", "Swap"} /\ store[u].region = r

Break(t, r) ==
    /\ broken' = [u \in Thread |-> broken[u] \/ (u # t /\ Holds(u, r))]
    /\ saved' = [u \in Thread |->
           IF u # t /\ saved[u] # Null /\ saved[u].reserved = r
           THEN [saved[u] EXCEPT !.broken = TRUE] ELSE saved[u]]

(* Mutant: the locked region is stored without a comparison. *)
ExchangeBlindly(t) ==
    /\ at[t] = "Swap"
    /\ mem' = [mem EXCEPT ![store[t].region] = store[t].new]
    /\ Break(t, store[t].region)
    /\ Goto(t, "Unlock")
    /\ UNCHANGED <<owner, prev, reserved, value, store>>

(* Mutant: a failed comparison returns without unlocking. *)
ExchangeOrReturn(t) ==
    /\ at[t] = "Swap"
    /\ IF mem[store[t].region] = value[t]
       THEN /\ mem' = [mem EXCEPT ![store[t].region] = store[t].new]
            /\ Break(t, store[t].region)
            /\ Goto(t, "Unlock")
       ELSE Goto(t, "Idle") /\ UNCHANGED <<mem, broken, saved>>
    /\ UNCHANGED <<owner, prev, reserved, value, store>>

ReservationExchange(t) ==
    /\ at[t] = "Swap"
    /\ IF mem[store[t].region] = value[t]
       THEN /\ mem' = [mem EXCEPT ![store[t].region] = store[t].new]
            /\ Break(t, store[t].region)
       ELSE UNCHANGED <<mem, broken, saved>>
    /\ Goto(t, "Unlock")
    /\ UNCHANGED <<owner, prev, reserved, value, store>>

Unlock(t) ==
    /\ at[t] = "Unlock"
    /\ owner' = [owner EXCEPT ![Hash[store[t].region]] = Null]
    /\ store' = [store EXCEPT ![t] = NoStore]
    /\ Goto(t, "Idle")
    /\ UNCHANGED <<mem, prev, reserved, value, broken, saved>>

-----------------------------------------------------------------------------
(* Everything else that touches this state. *)

(* Any other store or atomic operation of the guest or the host. *)
PlainStore(r, part, v) ==
    /\ mem' = [mem EXCEPT ![r] = Embed(@, part, v)]
    /\ UNCHANGED <<owner, at, prev, reserved, value, store, broken, saved>>

(* ProcessGuestSignal: the handler runs on the CPUState of the interrupted   *)
(* code, which GuestContext saves and restores as a whole.                   *)
EnterHandler(t) ==
    /\ t \in HandlerThread
    /\ at[t] = "Idle"
    /\ saved[t] = Null
    /\ saved' = [saved EXCEPT ![t] =
           [reserved |-> reserved[t], value |-> value[t], broken |-> broken[t]]]
    /\ UNCHANGED <<owner, mem, at, prev, reserved, value, store, broken>>

LeaveHandler(t) ==
    /\ at[t] = "Idle"
    /\ saved[t] # Null
    /\ reserved' = [reserved EXCEPT ![t] = saved[t].reserved]
    /\ value' = [value EXCEPT ![t] = saved[t].value]
    /\ broken' = [broken EXCEPT ![t] = saved[t].broken]
    /\ saved' = [saved EXCEPT ![t] = Null]
    /\ UNCHANGED <<owner, mem, at, prev, store>>

-----------------------------------------------------------------------------

(* The part of an instruction after its first access runs to its end. *)
Continue(t) ==
    \/ Steal(t) \/ ReservationLoad(t)
    \/ TryLock(t) \/ ReservationExchange(t) \/ Unlock(t)

Next ==
    \/ \E t \in Thread : Continue(t) \/ EnterHandler(t) \/ LeaveHandler(t)
    \/ \E t \in Thread, r \in Region : Load(t, r)
    \/ \E t \in Thread, r \in Region, part \in SUBSET Part, v \in Value :
          part # {} /\ Store(t, r, part, v)
    \/ \E r \in Region, part \in SUBSET Part, v \in Value :
          part # {} /\ PlainStore(r, part, v)

Spec == Init /\ [][Next]_vars /\ \A t \in Thread : WF_vars(Continue(t))

-----------------------------------------------------------------------------

TypeOK ==
    /\ owner \in [Entry -> Thread \cup {Null, Locked}]
    /\ mem \in [Region -> Content]
    /\ at \in [Thread -> Where]
    /\ prev \in [Thread -> Thread \cup {Null}]
    /\ reserved \in [Thread -> Region \cup {Null}]
    /\ value \in [Thread -> Content]
    /\ store \in [Thread -> StoreArgs \cup {NoStore}]
    /\ broken \in [Thread -> BOOLEAN]
    /\ saved \in [Thread -> Saved \cup {Null}]

(* "Fails if Load failed to steal the address or the address was stolen       *)
(* afterwards" (TryLock): a store-conditional that gets to compare and swap   *)
(* follows a load with no other thread's store-conditional to the region in   *)
(* between, even one that stored what was there already.  This is so for the  *)
(* threads that are not interrupted by a handler of their own, whatever the   *)
(* other threads and their handlers do.                                       *)
UninterruptedIsExclusive ==
    \A t \in Thread \ HandlerThread : at[t] = "Swap" => ~broken[t]

HoldsLock(t, e) ==
    at[t] \in {"Swap", "Unlock"} /\ Hash[store[t].region] = e

(* "No need to compare and swap as the locked address cannot be stolen": an   *)
(* entry is locked exactly while one thread is between TryLock and Unlock, so *)
(* the plain store of Unlock frees nobody else's lock.                        *)
LockHasOneHolder ==
    \A e \in Entry :
        /\ owner[e] = Locked => \E t \in Thread : HoldsLock(t, e)
        /\ \A t \in Thread : HoldsLock(t, e) =>
              owner[e] = Locked /\ \A u \in Thread : HoldsLock(u, e) => u = t

(* The store-conditional writes back the whole region, yet changes only the   *)
(* part it stores to: a plain store to the rest since the load is not undone. *)
NeighboursSurvive ==
    [][\A t \in Thread : at[t] = "Swap" /\ at'[t] # "Swap" =>
           \A p \in Part : store[t].new[p] = value[t][p] =>
               mem'[store[t].region][p] = mem[store[t].region][p]]_vars

(* A locked entry, which nobody can reserve, is unlocked again. *)
LockIsReleased == \A e \in Entry : owner[e] = Locked ~> owner[e] # Locked
=============================================================================
