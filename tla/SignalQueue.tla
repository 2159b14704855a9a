----------------------------- MODULE SignalQueue -----------------------------
(***************************************************************************)
(* The lock-free queue of pending signals (runtime_primitives/signal_queue):*)
(* any number of producers push onto the list produced_, the one consumer  *)
(* takes that list whole, puts it in front of its own list consumed_ and   *)
(* unlinks the best node of it.  Nodes come from a pool and are reused.    *)
(*                                                                         *)
(* One action per access to shared memory.  The consumer's walks over      *)
(* consumed_ are one action each: no other thread reaches those nodes.     *)
(***************************************************************************)
EXTENDS Naturals, Sequences, SequencesExt, FiniteSets

CONSTANTS
    Producer,
    Node,         \* the nodes of the pool; bound on the signals in flight
    SigNo,        \* signal numbers
    MaxSignals,   \* bound: signals ever enqueued
    Null, None

VARIABLES
    info,        \* node -> the siginfo_t in it
    next,        \* node -> Node::next
    produced,    \* produced_
    consumed,    \* consumed_
    free,        \* the nodes in the pool, the one freed last first
    node,        \* producer -> the node it enqueues, Null outside EnqueueSignal
    seen,        \* producer -> its local copy of produced_, Null when it has none
    at,          \* producer -> where it is
    consumerAt,  \* where the consumer is
    grabbed,     \* the consumer's local list
    best,        \* the node the consumer dequeued last, until it is freed
    result,      \* what DequeueSignalUnsafe returned last
    count        \* signals allocated so far; the serial number of the next

vars == <<info, next, produced, consumed, free, node, seen, at, consumerAt,
          grabbed, best, result, count>>

(* The serial number stands for the rest of siginfo_t. *)
Signal == [signo : SigNo, serial : 0 .. MaxSignals - 1]

Init ==
    /\ info = [n \in Node |-> None]
    /\ next = [n \in Node |-> Null]
    /\ produced = Null
    /\ consumed = Null
    /\ free = SetToSeq(Node)
    /\ node = [p \in Producer |-> Null]
    /\ seen = [p \in Producer |-> Null]
    /\ at = [p \in Producer |-> "Idle"]
    /\ consumerAt = "Idle"
    /\ grabbed = Null
    /\ best = Null
    /\ result = None
    /\ count = 0

consumerVars == <<consumed, consumerAt, grabbed, best, result>>

-----------------------------------------------------------------------------
(* A producer. *)

AllocSignal(p) ==
    /\ at[p] = "Idle"
    /\ count < MaxSignals
    /\ free # <<>>
    /\ \E s \in SigNo :
          info' = [info EXCEPT ![Head(free)] = [signo |-> s, serial |-> count]]
    /\ node' = [node EXCEPT ![p] = Head(free)]
    /\ free' = Tail(free)
    /\ count' = count + 1
    /\ at' = [at EXCEPT ![p] = "Load"]
    /\ UNCHANGED <<next, produced, seen, consumerVars>>

LoadProduced(p) ==
    /\ at[p] = "Load"
    /\ seen' = [seen EXCEPT ![p] = produced]
    /\ at' = [at EXCEPT ![p] = "Link"]
    /\ UNCHANGED <<info, next, produced, free, node, count, consumerVars>>

Link(p) ==
    /\ at[p] = "Link"
    /\ next' = [next EXCEPT ![node[p]] = seen[p]]
    /\ at' = [at EXCEPT ![p] = "Swap"]
    /\ UNCHANGED <<info, produced, free, node, seen, count, consumerVars>>

(* Mutant: after a failed compare-and-swap the node is not linked again. *)
SwapWithoutRelink(p) ==
    /\ at[p] = "Swap"
    /\ \/ /\ produced = seen[p]
          /\ produced' = node[p]
          /\ node' = [node EXCEPT ![p] = Null]
          /\ at' = [at EXCEPT ![p] = "Idle"]
          /\ seen' = [seen EXCEPT ![p] = Null]
       \/ /\ seen' = [seen EXCEPT ![p] = produced]
          /\ UNCHANGED <<produced, node, at>>
    /\ UNCHANGED <<info, next, free, count, consumerVars>>

(* Mutant: a failed compare-and-swap is not tried again. *)
SwapOnce(p) ==
    /\ at[p] = "Swap"
    /\ \/ produced = seen[p] /\ produced' = node[p]
       \/ UNCHANGED produced
    /\ node' = [node EXCEPT ![p] = Null]
    /\ at' = [at EXCEPT ![p] = "Idle"]
    /\ seen' = [seen EXCEPT ![p] = Null]
    /\ UNCHANGED <<info, next, free, count, consumerVars>>

(* compare_exchange_weak, which may also fail when the words are equal; a    *)
(* failure loads produced_ and the loop goes on.                             *)
Swap(p) ==
    /\ at[p] = "Swap"
    /\ \/ /\ produced = seen[p]
          /\ produced' = node[p]
          /\ node' = [node EXCEPT ![p] = Null]
          /\ at' = [at EXCEPT ![p] = "Idle"]
          /\ seen' = [seen EXCEPT ![p] = Null]
       \/ /\ seen' = [seen EXCEPT ![p] = produced]
          /\ at' = [at EXCEPT ![p] = "Link"]
          /\ UNCHANGED <<produced, node>>
    /\ UNCHANGED <<info, next, free, count, consumerVars>>

-----------------------------------------------------------------------------
(* The consumer. *)

RECURSIVE Chain(_)

(* The list that starts at n. *)
Chain(n) == IF n = Null THEN <<>> ELSE <<n>> \o Chain(next[n])

Exchange ==
    /\ consumerAt = "Idle"
    /\ grabbed' = produced
    /\ produced' = Null
    /\ consumerAt' = "Prepend"
    /\ UNCHANGED <<info, next, consumed, free, node, seen, at, best, result, count>>

Prepend ==
    /\ consumerAt = "Prepend"
    /\ next' = IF grabbed = Null THEN next
               ELSE [next EXCEPT ![Last(Chain(grabbed))] = consumed]
    /\ consumed' = IF grabbed = Null THEN consumed ELSE grabbed
    /\ grabbed' = Null
    /\ consumerAt' = "Select"
    /\ UNCHANGED <<info, produced, free, node, seen, at, best, result, count>>

(* Mutant: '<' keeps the first match of a list in reverse order. *)
BestIndexNewest(c) ==
    CHOOSE i \in DOMAIN c :
        /\ \A j \in DOMAIN c : info[c[i]].signo <= info[c[j]].signo
        /\ \A j \in 1 .. i - 1 : info[c[i]].signo < info[c[j]].signo

(* The loop keeps the last node whose number is no larger than the best. *)
BestIndex(c) ==
    CHOOSE i \in DOMAIN c :
        /\ \A j \in DOMAIN c : info[c[i]].signo <= info[c[j]].signo
        /\ \A j \in i + 1 .. Len(c) : info[c[i]].signo < info[c[j]].signo

Select ==
    LET c == Chain(consumed)
        i == BestIndex(c)
    IN
    /\ consumerAt = "Select"
    /\ IF c = <<>>
       THEN /\ result' = None
            /\ consumerAt' = "Idle"
            /\ UNCHANGED <<best, consumed, next>>
       ELSE /\ best' = c[i]
            /\ result' = info[c[i]]
            /\ consumed' = IF i = 1 THEN next[c[1]] ELSE consumed
            /\ next' = IF i = 1 THEN next ELSE [next EXCEPT ![c[i - 1]] = next[c[i]]]
            /\ consumerAt' = "Deliver"
    /\ UNCHANGED <<info, produced, free, node, seen, at, grabbed, count>>

(* The handler has run; the node goes back to the pool, and what was in it   *)
(* is gone.                                                                  *)
FreeSignal ==
    /\ consumerAt = "Deliver"
    /\ free' = <<best>> \o free
    /\ info' = [info EXCEPT ![best] = None]
    /\ next' = [next EXCEPT ![best] = Null]
    /\ best' = Null
    /\ consumerAt' = "Idle"
    /\ UNCHANGED <<produced, consumed, node, seen, at, grabbed, result, count>>

-----------------------------------------------------------------------------

EnqueueStep(p) == LoadProduced(p) \/ Link(p) \/ Swap(p)

ConsumerStep == Exchange \/ Prepend \/ Select \/ FreeSignal

Next == ConsumerStep \/ \E p \in Producer : AllocSignal(p) \/ EnqueueStep(p)

(* EnqueueSignal does not wait, the compare-and-swap of equal words does not *)
(* fail for ever, and the consumer's caller dequeues for as long as signals  *)
(* are there (ProcessPendingSignalsImpl).                                    *)
Spec ==
    /\ Init
    /\ [][Next]_vars
    /\ WF_vars(ConsumerStep)
    /\ \A p \in Producer :
          /\ WF_vars(EnqueueStep(p))
          /\ SF_vars(Swap(p) /\ node'[p] = Null)

-----------------------------------------------------------------------------

TypeOK ==
    /\ info \in [Node -> Signal \cup {None}]
    /\ next \in [Node -> Node \cup {Null}]
    /\ {produced, consumed, grabbed, best} \subseteq Node \cup {Null}
    /\ free \in Seq(Node)
    /\ node \in [Producer -> Node \cup {Null}]
    /\ seen \in [Producer -> Node \cup {Null}]
    /\ at \in [Producer -> {"Idle", "Load", "Link", "Swap"}]
    /\ consumerAt \in {"Idle", "Prepend", "Select", "Deliver"}
    /\ result \in Signal \cup {None}
    /\ count \in 0 .. MaxSignals

(* The sets of nodes that the lists, the producers, the consumer and the     *)
(* pool hold.                                                                *)
Holders ==
    <<ToSet(Chain(produced)), ToSet(Chain(grabbed)), ToSet(Chain(consumed)),
      {best} \ {Null}, ToSet(free)>>

(* Every node is in one place: no signal is lost from the lists or is in two *)
(* of them, and no node is reused while a list still reaches it, though      *)
(* pushes race with the exchange and nodes come back with the same address.  *)
(* The state is well typed.                                                  *)
NodeInOnePlace ==
    /\ TypeOK
    /\ \A n \in Node :
          Cardinality({i \in DOMAIN Holders : n \in Holders[i]})
              + Cardinality({p \in Producer : node[p] = n}) = 1

(* The signals of a list, oldest first. *)
Signals(n) ==
    LET c == Reverse(Chain(n)) IN [i \in DOMAIN c |-> info[c[i]]]

Held == Signals(consumed) \o Signals(grabbed)

(* Dequeue takes effect at the exchange: from there until it is unlinked the *)
(* oldest of the smallest signals held is no longer pending.                 *)
Taken ==
    LET h == Held IN
    {h[i] : i \in {k \in DOMAIN h :
        /\ consumerAt \in {"Prepend", "Select"}
        /\ \A j \in DOMAIN h \ {k} :
              h[k].signo < h[j].signo + (IF k < j THEN 1 ELSE 0)}}

AbstractPending ==
    LET taken == Taken IN
    SelectSeq(Held, LAMBDA s : s \notin taken) \o Signals(produced)

AbstractResult ==
    IF consumerAt \notin {"Prepend", "Select"} THEN result
    ELSE IF Taken = {} THEN None ELSE CHOOSE s \in Taken : TRUE

Abstract ==
    INSTANCE PriorityQueue WITH pending <- AbstractPending, result <- AbstractResult

(* The queue is linearizable: every EnqueueSignal takes effect at its        *)
(* compare-and-swap, every DequeueSignalUnsafe at its exchange, and what is  *)
(* returned is the oldest of the signals with the smallest number, as        *)
(* signal_queue.h promises.                                                  *)
Linearizable == Abstract!Spec

(* A signal handed to EnqueueSignal is delivered, whatever the other         *)
(* producers do and however often the compare-and-swap fails.                *)
Delivered ==
    \A k \in 0 .. MaxSignals - 1 :
        (\E p \in Producer : node[p] # Null /\ info[node[p]].serial = k)
            ~> (result # None /\ result.serial = k)
=============================================================================
