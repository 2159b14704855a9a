------------------------- MODULE LockFreeStackProofs -------------------------
(***************************************************************************)
(* ExclusiveOwner and StackIsLinked, for any number of threads and nodes   *)
(* and any size of the counter.                                            *)
(*                                                                         *)
(* The inductive invariant says why a pop may trust the next field it read *)
(* without holding the node: as long as nothing was pushed since it copied *)
(* head_, a node that is still in the stack still has that next field; and *)
(* if the counter of head_ is the one it copied, nothing was pushed.       *)
(***************************************************************************)
EXTENDS LockFreeStack, TLAPS

(* The node a thread pushes is its own, and linked to what it copied. *)
PushHoldsNode ==
    \A t \in Thread :
        /\ at[t] \in Pushing => arg[t] \in own[t]
        /\ at[t] = "PushSwap" => next[arg[t]] = cmp[t].ptr

(* The counter says how many pushes there were since head_ was copied. *)
CounterCounts ==
    \A t \in Thread : at[t] \in Popping =>
        head.cnt = IF cmp[t].cnt + since[t] < CounterSize
                   THEN cmp[t].cnt + since[t]
                   ELSE cmp[t].cnt + since[t] - CounterSize

(* Without a push the next field read is right for as long as it matters. *)
NextIsRight ==
    \A t \in Thread : at[t] = "PopSwap" =>
        /\ cmp[t].ptr # Null
        /\ since[t] = 0 /\ cmp[t].ptr \in InStack => nxt[t] = next[cmp[t].ptr]

IInv ==
    /\ TypeOK
    /\ ExclusiveOwner
    /\ StackIsLinked
    /\ PushHoldsNode
    /\ CounterCounts
    /\ NextIsRight
-----------------------------------------------------------------------------

(* Truncating the incremented counter wraps it to zero. *)
LEMMA Increment ==
    ASSUME NEW c \in 0 .. CounterSize - 1
    PROVE  (c + 1) % CounterSize = IF c + 1 < CounterSize THEN c + 1 ELSE 0
  BY StackAssumption

(* The free list starts empty and no node has been handed out.               *)
LEMMA InitIInv == Init => IInv
  BY StackAssumption
  DEF Init, IInv, TypeOK, Word, Pointer, Pushing, ExclusiveOwner,
      StackIsLinked, InStack, PushHoldsNode, CounterCounts, NextIsRight

(* PopLoad keeps the invariant.                                              *)
LEMMA PopLoadInv ==
    ASSUME IInv, NEW t \in Thread, PopLoad(t)
    PROVE  IInv'
  <1> USE StackAssumption DEF IInv
  <1>1. TypeOK'
    BY DEF PopLoad, CopyHead, Goto, TypeOK, Popping
  <1>2. ExclusiveOwner'
    BY DEF PopLoad, ExclusiveOwner, InStack
  <1>3. StackIsLinked'
    BY DEF PopLoad, StackIsLinked, InStack, HeightOfHead
  <1>4. PushHoldsNode'
    BY DEF PopLoad, CopyHead, Goto, Pushing, PushHoldsNode
  <1>5. CounterCounts'
    BY DEF PopLoad, CopyHead, Goto, TypeOK, Word, CounterCounts
  <1>6. NextIsRight'
    BY DEF PopLoad, CopyHead, Goto, NextIsRight, InStack
  <1> QED
    BY <1>1, <1>2, <1>3, <1>4, <1>5, <1>6 

(* AllocateForever keeps the invariant.                                      *)
LEMMA AllocateForeverInv ==
    ASSUME IInv, NEW t \in Thread, AllocateForever(t)
    PROVE  IInv'
  <1> USE StackAssumption DEF IInv
  <1>1. TypeOK'
    BY DEF AllocateForever, Goto, TypeOK
  <1>2. ExclusiveOwner'
    BY DEF AllocateForever, ExclusiveOwner, InStack
  <1>3. StackIsLinked'
    BY DEF AllocateForever, StackIsLinked, InStack, HeightOfHead
  <1>4. PushHoldsNode'
    BY DEF AllocateForever, Goto, Pushing, PushHoldsNode
  <1>5. CounterCounts'
    BY DEF AllocateForever, Goto, Popping, CounterCounts
  <1>6. NextIsRight'
    BY DEF AllocateForever, Goto, NextIsRight, InStack
  <1> QED
    BY <1>1, <1>2, <1>3, <1>4, <1>5, <1>6 

(* PopRead keeps the invariant.                                              *)
LEMMA PopReadInv ==
    ASSUME IInv, NEW t \in Thread, PopRead(t)
    PROVE  IInv'
  <1> USE StackAssumption DEF IInv
  <1>1. TypeOK'
    BY DEF PopRead, Goto, TypeOK, Word, Pointer, Popping
  <1>2. ExclusiveOwner'
    BY DEF PopRead, ExclusiveOwner, InStack
  <1>3. StackIsLinked'
    BY DEF PopRead, StackIsLinked, InStack, HeightOfHead
  <1>4. PushHoldsNode'
    BY DEF PopRead, Goto, Pushing, PushHoldsNode
  <1>5. CounterCounts'
    BY DEF PopRead, Goto, Popping, CounterCounts
  <1>6. NextIsRight'
    BY DEF PopRead, Goto, TypeOK, NextIsRight, InStack
  <1> QED
    BY <1>1, <1>2, <1>3, <1>4, <1>5, <1>6 

(* The pop that succeeds takes the highest node and leaves the one below.     *)
LEMMA PopSwapInv ==
    ASSUME IInv, NEW t \in Thread, PopSwap(t)
    PROVE  IInv'
  <1> DEFINE top == head.ptr
  <1> USE StackAssumption DEF IInv
  <1>0. /\ since[t] = 0
        /\ head = cmp[t]
        /\ top \in Node
        /\ depth[top] > 0
        /\ HeightOfHead = depth[top]
        /\ nxt[t] = next[top]
        /\ next[top] = Null => depth[top] = 1
        /\ next[top] # Null => next[top] \in Node /\ depth[next[top]] = depth[top] - 1
                              /\ depth[next[top]] > 0
        /\ \A u \in Thread : top \notin own[u]
        /\ top \notin fresh
    <2>1. head = cmp[t] /\ top # Null
      BY DEF PopSwap, NextIsRight
    <2>2. top \in InStack
      BY <2>1 DEF StackIsLinked
    <2>3. since[t] = 0
      <3>1. /\ since[t] \in 0 .. CounterSize - 1
            /\ cmp[t].cnt \in 0 .. CounterSize - 1
        BY DEF TypeOK, Word
      <3>2. cmp[t].cnt = IF cmp[t].cnt + since[t] < CounterSize
                            THEN cmp[t].cnt + since[t]
                            ELSE cmp[t].cnt + since[t] - CounterSize
        BY DEF CounterCounts, PopSwap, Popping
      <3> HIDE DEF IInv
      <3> QED
        BY <3>1, <3>2
    <2>4. nxt[t] = next[top]
      BY <2>2, <2>3 DEF NextIsRight, PopSwap
    <2> QED
      BY <2>1, <2>3, <2>4
      DEF StackIsLinked, InStack, HeightOfHead, ExclusiveOwner
  <1>00. /\ head' = [ptr |-> next[top], cnt |-> head.cnt]
         /\ own' = [own EXCEPT ![t] = @ \cup {top}]
         /\ depth' = [depth EXCEPT ![top] = 0]
         /\ at' = [at EXCEPT ![t] = "Idle"]
         /\ UNCHANGED <<next, cmp, nxt, arg, fresh, since>>
    BY <1>0 DEF PopSwap, Goto
  <1> HIDE DEF top
  <1>1. TypeOK'
    BY <1>0, <1>00 DEF TypeOK, Word
  <1>2. ExclusiveOwner'
    BY <1>0, <1>00 DEF TypeOK, ExclusiveOwner, InStack
  <1>3. StackIsLinked'
    <2>1. \A n \in Node : depth'[n] > 0 =>
              depth[n] > 0 /\ depth'[n] = depth[n] /\ n # top /\ depth[n] < depth[top]
      BY <1>0, <1>00 DEF StackIsLinked, InStack, TypeOK
    <2>2. \A n \in Node : depth'[n] > 0 =>
              /\ next[n] = Null => depth[n] = 1
              /\ next[n] # Null => next[n] \in Node /\ depth'[next[n]] = depth[n] - 1
                                 /\ depth'[next[n]] > 0
      BY <1>00, <2>1 DEF StackIsLinked, InStack, TypeOK
    <2>3. \A n, m \in Node : depth'[n] > 0 /\ depth'[m] = depth'[n] => m = n
      BY <1>00 DEF StackIsLinked, InStack
    <2>4. CASE next[top] = Null
      BY <1>0, <1>00, <2>4 DEF StackIsLinked, InStack, TypeOK
    <2>5. CASE next[top] # Null
      <3>1. head'.ptr \in Node /\ depth'[head'.ptr] = depth[top] - 1
        BY <1>0, <1>00, <2>5 DEF TypeOK
      <3> QED
        BY <1>0, <1>00, <2>1 DEF StackIsLinked, InStack, HeightOfHead, TypeOK
    <2> QED
      BY <2>4, <2>5
  <1>4. PushHoldsNode'
    BY <1>00 DEF PushHoldsNode, Pushing
  <1>5. CounterCounts'
    BY <1>00 DEF Popping, CounterCounts
  <1>6. NextIsRight'
    BY <1>00 DEF NextIsRight, InStack
  <1> QED
    BY <1>1, <1>2, <1>3, <1>4, <1>5, <1>6 

(* PopRetry keeps the invariant.                                             *)
LEMMA PopRetryInv ==
    ASSUME IInv, NEW t \in Thread, PopRetry(t)
    PROVE  IInv'
  <1> USE StackAssumption DEF IInv
  <1>1. TypeOK'
    BY DEF PopRetry, CopyHead, Goto, TypeOK, Popping
  <1>2. ExclusiveOwner'
    BY DEF PopRetry, ExclusiveOwner, InStack
  <1>3. StackIsLinked'
    BY DEF PopRetry, StackIsLinked, InStack, HeightOfHead
  <1>4. PushHoldsNode'
    BY DEF PopRetry, CopyHead, Goto, Pushing, PushHoldsNode
  <1>5. CounterCounts'
    BY DEF PopRetry, CopyHead, Goto, TypeOK, Word, CounterCounts
  <1>6. NextIsRight'
    BY DEF PopRetry, CopyHead, Goto, TypeOK, NextIsRight, InStack
  <1> QED
    BY <1>1, <1>2, <1>3, <1>4, <1>5, <1>6 

(* Use keeps the invariant.                                                  *)
LEMMA UseInv ==
    ASSUME IInv, NEW t \in Thread, NEW n \in Node, Use(t, n)
    PROVE  IInv'
  <1> USE StackAssumption DEF IInv
  <1>1. TypeOK'
    BY DEF Use, TypeOK
  <1>2. ExclusiveOwner'
    BY DEF Use, ExclusiveOwner, InStack
  <1>3. StackIsLinked'
    BY DEF Use, StackIsLinked, InStack, HeightOfHead, ExclusiveOwner
  <1>4. PushHoldsNode'
    BY DEF Use, Pushing, PushHoldsNode, ExclusiveOwner
  <1>5. CounterCounts'
    BY DEF Use, CounterCounts
  <1>6. NextIsRight'
    BY DEF Use, NextIsRight, InStack, ExclusiveOwner
  <1> QED
    BY <1>1, <1>2, <1>3, <1>4, <1>5, <1>6 

(* PushLoad keeps the invariant.                                             *)
LEMMA PushLoadInv ==
    ASSUME IInv, NEW t \in Thread, NEW n \in Node, PushLoad(t, n)
    PROVE  IInv'
  <1> USE StackAssumption DEF IInv
  <1>1. TypeOK'
    BY DEF PushLoad, CopyHead, Goto, TypeOK, Pointer, Pushing
  <1>2. ExclusiveOwner'
    BY DEF PushLoad, ExclusiveOwner, InStack
  <1>3. StackIsLinked'
    BY DEF PushLoad, StackIsLinked, InStack, HeightOfHead
  <1>4. PushHoldsNode'
    BY DEF PushLoad, CopyHead, Goto, TypeOK, PushHoldsNode
  <1>5. CounterCounts'
    BY DEF PushLoad, CopyHead, Goto, Popping, CounterCounts
  <1>6. NextIsRight'
    BY DEF PushLoad, CopyHead, Goto, NextIsRight, InStack
  <1> QED
    BY <1>1, <1>2, <1>3, <1>4, <1>5, <1>6 

(* Linking writes a node that is not in the stack.                            *)
LEMMA PushLinkInv ==
    ASSUME IInv, NEW t \in Thread, PushLink(t)
    PROVE  IInv'
  <1> USE StackAssumption DEF IInv
  <1>0. arg[t] \in own[t] /\ arg[t] \in Node /\ arg[t] \notin InStack
    BY DEF PushLink, PushHoldsNode, Pushing, ExclusiveOwner, TypeOK
  <1>1. TypeOK'
    BY DEF PushLink, Goto, TypeOK, Word, Pointer, Popping, Pushing
  <1>2. ExclusiveOwner'
    BY DEF PushLink, ExclusiveOwner, InStack
  <1>00. InStack' = InStack /\ \A n \in InStack : next'[n] = next[n]
    BY <1>0 DEF PushLink, InStack
  <1>3. StackIsLinked'
    BY <1>00 DEF PushLink, StackIsLinked, HeightOfHead
  <1>4. PushHoldsNode'
    BY DEF PushLink, Goto, TypeOK, Pushing, PushHoldsNode, ExclusiveOwner
  <1>5. CounterCounts'
    BY DEF PushLink, Goto, Popping, CounterCounts
  <1>6. NextIsRight'
    BY <1>00 DEF PushLink, Goto, NextIsRight
  <1> QED
    BY <1>1, <1>2, <1>3, <1>4, <1>5, <1>6 

(* The push that succeeds puts its node on top and makes every pop under way  *)
(* see another counter.                                                       *)
LEMMA PushSwapInv ==
    ASSUME IInv, NEW t \in Thread, PushSwap(t)
    PROVE  IInv'
  <1> DEFINE new == arg[t]
             h == HeightOfHead
  <1> USE StackAssumption DEF IInv
  <1>0. /\ new \in own[t] /\ new \in Node /\ depth[new] = 0 /\ new \notin fresh
        /\ next[new] = head.ptr
        /\ h \in Nat
        /\ \A u \in Thread : new \in own[u] => u = t
    BY DEF PushSwap, PushHoldsNode, Pushing, ExclusiveOwner, TypeOK, InStack,
           HeightOfHead, Pointer
  <1>00. /\ head' = [ptr |-> new,
                     cnt |-> IF head.cnt + 1 < CounterSize THEN head.cnt + 1 ELSE 0]
         /\ own' = [own EXCEPT ![t] = @ \ {new}]
         /\ depth' = [depth EXCEPT ![new] = h + 1]
         /\ since' = [u \in Thread |-> IF at[u] \in Popping THEN since[u] + 1 ELSE 0]
         /\ at' = [at EXCEPT ![t] = "Idle"]
         /\ \A u \in Thread : at[u] \in Popping => since[u] + 1 < CounterSize
         /\ UNCHANGED <<next, cmp, nxt, arg, fresh>>
    BY Increment DEF PushSwap, Goto, PopsAreShort, TypeOK, Word
  <1> HIDE DEF new, h
  <1>1. TypeOK'
    BY <1>0, <1>00 DEF TypeOK, Word, Pointer
  <1>2. ExclusiveOwner'
    BY <1>0, <1>00 DEF TypeOK, ExclusiveOwner, InStack
  <1>3. StackIsLinked'
    <2>1. \A n \in Node : depth[n] > 0 => depth'[n] = depth[n] /\ n # new /\ depth[n] <= h
      BY <1>0, <1>00 DEF StackIsLinked, InStack, h
    <2>2. head.ptr = Null => h = 0
      BY DEF h, HeightOfHead
    <2>3. head.ptr # Null => head.ptr \in Node /\ depth[head.ptr] = h /\ h > 0
      BY DEF h, HeightOfHead, StackIsLinked, InStack
    <2>4. HeightOfHead' = h + 1 /\ depth'[new] = h + 1
      BY <1>0, <1>00 DEF HeightOfHead, TypeOK
    <2> QED
      BY <1>0, <1>00, <2>1, <2>2, <2>3, <2>4 DEF StackIsLinked, InStack, TypeOK
  <1>4. PushHoldsNode'
    BY <1>00 DEF TypeOK, PushHoldsNode, Pushing
  <1>5. CounterCounts'
    BY <1>00 DEF TypeOK, Word, Popping, CounterCounts
  <1>6. NextIsRight'
    BY <1>00 DEF TypeOK, NextIsRight, Popping
  <1> QED
    BY <1>1, <1>2, <1>3, <1>4, <1>5, <1>6 

(* PushRetry keeps the invariant.                                            *)
LEMMA PushRetryInv ==
    ASSUME IInv, NEW t \in Thread, PushRetry(t)
    PROVE  IInv'
  <1> USE StackAssumption DEF IInv
  <1>1. TypeOK'
    BY DEF PushRetry, CopyHead, Goto, TypeOK, Pushing
  <1>2. ExclusiveOwner'
    BY DEF PushRetry, ExclusiveOwner, InStack
  <1>3. StackIsLinked'
    BY DEF PushRetry, StackIsLinked, InStack, HeightOfHead
  <1>4. PushHoldsNode'
    BY DEF PushRetry, CopyHead, Goto, TypeOK, Pushing, PushHoldsNode
  <1>5. CounterCounts'
    BY DEF PushRetry, CopyHead, Goto, Popping, CounterCounts
  <1>6. NextIsRight'
    BY DEF PushRetry, CopyHead, Goto, NextIsRight, InStack
  <1> QED
    BY <1>1, <1>2, <1>3, <1>4, <1>5, <1>6 

-----------------------------------------------------------------------------

(* The invariant is kept by every step of Alloc, Free and the nodes' owners. *)
THEOREM Inductive == IInv /\ [Next]_vars => IInv'
  <1> SUFFICES ASSUME IInv, [Next]_vars PROVE IInv'
    OBVIOUS
  <1>1. CASE UNCHANGED vars
    BY <1>1
    DEF vars, IInv, TypeOK, ExclusiveOwner, StackIsLinked, InStack,
        HeightOfHead, PushHoldsNode, CounterCounts, NextIsRight
  <1>2. CASE Next
    BY <1>2, PopLoadInv, AllocateForeverInv, PopReadInv, PopSwapInv,
       PopRetryInv, UseInv, PushLoadInv, PushLinkInv, PushSwapInv,
       PushRetryInv
    DEF Next
  <1> QED
    BY <1>1, <1>2

(* Every state that Alloc and Free reach satisfies the inductive invariant.   *)
THEOREM Invariance == Spec => []IInv
  BY InitIInv, Inductive, PTL DEF Spec

(* ForeverPool hands a node to one caller at a time, for any number of       *)
(* threads: no interleaving of Alloc and Free suffers from ABA as long as no *)
(* pop is delayed for CounterSize pushes.                                    *)
THEOREM NoSharing == Spec => []ExclusiveOwner
  BY Invariance, PTL DEF IInv

(* The free list is always a linked list of exactly the nodes that were      *)
(* freed and not allocated again.                                            *)
THEOREM WellLinked == Spec => []StackIsLinked
  BY Invariance, PTL DEF IInv

(* The counter stays within its bits and the head, the links and every        *)
(* thread's local copies keep their types.                                    *)
THEOREM TypeCorrect == Spec => []TypeOK
  BY Invariance, PTL DEF IInv
=============================================================================
