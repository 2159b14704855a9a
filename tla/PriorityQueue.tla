---------------------------- MODULE PriorityQueue ----------------------------
(***************************************************************************)
(* What SignalQueue promises (the comment on the class in signal_queue.h): *)
(* signals with smaller numbers come first, signals with equal numbers are *)
(* FIFO.  Enqueue and Dequeue are atomic.                                  *)
(***************************************************************************)
EXTENDS Naturals, Sequences, SequencesExt

CONSTANTS
    Signal,   \* records with a field signo
    None      \* what a dequeue of the empty queue returns

VARIABLES
    pending,   \* the signals enqueued and not dequeued, in order of arrival
    result     \* what the last dequeue returned

Init == pending = <<>> /\ result = None

(* The first of those with the smallest number. *)
IsBest(q, i) ==
    /\ \A j \in DOMAIN q : q[i].signo <= q[j].signo
    /\ \A j \in 1 .. i - 1 : q[i].signo < q[j].signo

Enqueue(s) == UNCHANGED result /\ pending' = Append(pending, s)

Dequeue ==
    \/ pending = <<>> /\ result' = None /\ UNCHANGED pending
    \/ LET q == pending IN
       \E i \in DOMAIN q :
          /\ IsBest(q, i)
          /\ result' = q[i]
          /\ pending' = RemoveAt(q, i)

Next == Dequeue \/ \E s \in Signal : Enqueue(s)

Spec == Init /\ [][Next]_<<pending, result>>
=============================================================================
