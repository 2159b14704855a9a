---------------------------- MODULE LockFreeStack ----------------------------
(***************************************************************************)
(* The free list of a ForeverPool: base/lock_free_stack.h as used by       *)
(* base/forever_pool.h.  Alloc pops a node, or takes a fresh one when the  *)
(* stack is empty; Free pushes it.  The head word packs a pointer with a   *)
(* counter of pushes that is truncated to CounterSize values.              *)
(*                                                                         *)
(* Pop reads the next field of a node that another thread may have popped  *)
(* meanwhile.  Its new owner overwrites that field (Node is a union), so   *)
(* the value read may be anything; only the counter tells.                 *)
(***************************************************************************)
EXTENDS Integers, FiniteSets

CONSTANTS
    Thread,        \* threads, and signal handlers that interrupt them
    Node,
    CounterSize,   \* PointerAndCounter::kMaxCounter
    Null

ASSUME StackAssumption == CounterSize \in Nat \ {0} /\ Null \notin Node

VARIABLES
    head,    \* head_
    next,    \* node -> its first word: Node::next, or part of the value
    at,      \* thread -> where it is
    cmp,     \* thread -> its copy of head_
    nxt,     \* thread -> the next field it read, in Pop
    arg,     \* thread -> the node it pushes
    own,     \* thread -> the nodes it holds
    fresh,   \* nodes that AllocateForever has not returned yet
    depth,   \* history: node -> its height in the stack, 0 when not in it
    since    \* history: thread -> pushes since it copied head_ to pop

vars == <<head, next, at, cmp, nxt, arg, own, fresh, depth, since>>

Pointer == Node \cup {Null}
Word == [ptr : Pointer, cnt : 0 .. CounterSize - 1]

Popping == {"PopRead", "PopSwap"}
Pushing == {"PushLink", "PushSwap"}

Init ==
    /\ head = [ptr |-> Null, cnt |-> 0]
    /\ next \in [Node -> {Null}]
    /\ at = [t \in Thread |-> "Idle"]
    /\ cmp = [t \in Thread |-> head]
    /\ nxt = [t \in Thread |-> Null]
    /\ arg = [t \in Thread |-> Null]
    /\ own = [t \in Thread |-> {}]
    /\ fresh = Node
    /\ depth = [n \in Node |-> 0]
    /\ since = [t \in Thread |-> 0]

Goto(t, where) == at' = [at EXCEPT ![t] = where]

CopyHead(t) == cmp' = [cmp EXCEPT ![t] = head] /\ since' = [since EXCEPT ![t] = 0]

-----------------------------------------------------------------------------
(* ForeverPool::Alloc. *)

PopLoad(t) ==
    /\ at[t] = "Idle"
    /\ CopyHead(t)
    /\ Goto(t, "PopRead")
    /\ UNCHANGED <<head, next, nxt, arg, own, fresh, depth>>

(* The stack was empty: Pop returns nullptr and AllocateForever is called. *)
AllocateForever(t) ==
    /\ at[t] = "PopRead"
    /\ cmp[t].ptr = Null
    /\ \E n \in fresh :
          /\ own' = [own EXCEPT ![t] = @ \cup {n}]
          /\ fresh' = fresh \ {n}
    /\ Goto(t, "Idle")
    /\ UNCHANGED <<head, next, cmp, nxt, arg, depth, since>>

PopRead(t) ==
    /\ at[t] = "PopRead"
    /\ cmp[t].ptr # Null
    /\ nxt' = [nxt EXCEPT ![t] = next[cmp[t].ptr]]
    /\ Goto(t, "PopSwap")
    /\ UNCHANGED <<head, next, cmp, arg, own, fresh, depth, since>>

PopSwap(t) ==
    /\ at[t] = "PopSwap"
    /\ head = cmp[t]
    /\ head' = [ptr |-> nxt[t], cnt |-> cmp[t].cnt]
    /\ own' = [own EXCEPT ![t] = @ \cup {cmp[t].ptr}]
    /\ depth' = [depth EXCEPT ![cmp[t].ptr] = 0]
    /\ Goto(t, "Idle")
    /\ UNCHANGED <<next, cmp, nxt, arg, fresh, since>>

(* Mutant: the loop retries with the next field it has read already. *)
PopRetryStale(t) ==
    /\ at[t] = "PopSwap"
    /\ CopyHead(t)
    /\ Goto(t, IF head.ptr = Null THEN "PopRead" ELSE "PopSwap")
    /\ UNCHANGED <<head, next, nxt, arg, own, fresh, depth>>

(* compare_exchange_weak may also fail when the words are equal. *)
PopRetry(t) ==
    /\ at[t] = "PopSwap"
    /\ CopyHead(t)
    /\ Goto(t, "PopRead")
    /\ UNCHANGED <<head, next, nxt, arg, own, fresh, depth>>

-----------------------------------------------------------------------------
(* The owner of a node, and ForeverPool::Free. *)

(* The value is written over the next field. *)
Use(t, n) ==
    /\ at[t] = "Idle"
    /\ n \in own[t]
    /\ \E p \in Pointer : next' = [next EXCEPT ![n] = p]
    /\ UNCHANGED <<head, at, cmp, nxt, arg, own, fresh, depth, since>>

PushLoad(t, n) ==
    /\ at[t] = "Idle"
    /\ n \in own[t]
    /\ arg' = [arg EXCEPT ![t] = n]
    /\ CopyHead(t)
    /\ Goto(t, "PushLink")
    /\ UNCHANGED <<head, next, nxt, own, fresh, depth>>

PushLink(t) ==
    /\ at[t] = "PushLink"
    /\ next' = [next EXCEPT ![arg[t]] = cmp[t].ptr]
    /\ Goto(t, "PushSwap")
    /\ UNCHANGED <<head, cmp, nxt, arg, own, fresh, depth, since>>

(* No pop is delayed for as many pushes as the counter has values. *)
PopsAreShort ==
    \A u \in Thread : at[u] \in Popping => since[u] + 1 < CounterSize

HeightOfHead == IF head.ptr = Null THEN 0 ELSE depth[head.ptr]

(* Mutant: the counter is not advanced. *)
PushSwapSameCount(t) ==
    /\ at[t] = "PushSwap"
    /\ head = cmp[t]
    /\ PopsAreShort
    /\ head' = [ptr |-> arg[t], cnt |-> cmp[t].cnt]
    /\ own' = [own EXCEPT ![t] = @ \ {arg[t]}]
    /\ depth' = [depth EXCEPT ![arg[t]] = HeightOfHead + 1]
    /\ since' = [u \in Thread |-> IF at[u] \in Popping THEN since[u] + 1 ELSE 0]
    /\ Goto(t, "Idle")
    /\ UNCHANGED <<next, cmp, nxt, arg, fresh>>

PushSwap(t) ==
    /\ at[t] = "PushSwap"
    /\ head = cmp[t]
    /\ PopsAreShort
    /\ head' = [ptr |-> arg[t], cnt |-> (cmp[t].cnt + 1) % CounterSize]
    /\ own' = [own EXCEPT ![t] = @ \ {arg[t]}]
    /\ depth' = [depth EXCEPT ![arg[t]] = HeightOfHead + 1]
    /\ since' = [u \in Thread |-> IF at[u] \in Popping THEN since[u] + 1 ELSE 0]
    /\ Goto(t, "Idle")
    /\ UNCHANGED <<next, cmp, nxt, arg, fresh>>

PushRetry(t) ==
    /\ at[t] = "PushSwap"
    /\ CopyHead(t)
    /\ Goto(t, "PushLink")
    /\ UNCHANGED <<head, next, nxt, arg, own, fresh, depth>>

-----------------------------------------------------------------------------

Next ==
    \E t \in Thread :
        \/ PopLoad(t) \/ AllocateForever(t) \/ PopRead(t) \/ PopSwap(t) \/ PopRetry(t)
        \/ \E n \in Node : Use(t, n) \/ PushLoad(t, n)
        \/ PushLink(t) \/ PushSwap(t) \/ PushRetry(t)

Spec == Init /\ [][Next]_vars

-----------------------------------------------------------------------------

TypeOK ==
    /\ head \in Word
    /\ next \in [Node -> Pointer]
    /\ at \in [Thread -> {"Idle"} \cup Popping \cup Pushing]
    /\ cmp \in [Thread -> Word]
    /\ nxt \in [Thread -> Pointer]
    /\ arg \in [Thread -> Pointer]
    /\ own \in [Thread -> SUBSET Node]
    /\ fresh \subseteq Node
    /\ depth \in [Node -> Nat]
    /\ since \in [Thread -> 0 .. CounterSize - 1]

InStack == {n \in Node : depth[n] > 0}

(* ForeverPool never has a node in two hands: what Alloc returned belongs to *)
(* one caller until it is freed, though pops read the next fields of nodes   *)
(* that others own, push again and overwrite (the ABA problem).              *)
ExclusiveOwner ==
    \A n \in Node :
        /\ \A t, u \in Thread : n \in own[t] /\ n \in own[u] => t = u
        /\ n \in fresh => \A t \in Thread : n \notin own[t]
        /\ n \in InStack => n \notin fresh /\ \A t \in Thread : n \notin own[t]

(* The list at head_ holds the nodes pushed and not popped, last in first    *)
(* out: head_ points to the highest, and every next to the one below.        *)
StackIsLinked ==
    /\ head.ptr = Null => InStack = {}
    /\ head.ptr # Null => head.ptr \in InStack
    /\ \A n \in InStack :
          /\ depth[n] <= HeightOfHead
          /\ \A m \in InStack : depth[m] = depth[n] => m = n
          /\ next[n] = Null => depth[n] = 1
          /\ next[n] # Null => next[n] \in InStack /\ depth[next[n]] = depth[n] - 1
=============================================================================
