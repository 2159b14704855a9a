--------------------------- MODULE CodePoolProofs ---------------------------
(***************************************************************************)
(* CodeIsIntact, RecoveryIsKept and FindIsReentrant, for any number of     *)
(* threads and processes and any sizes of regions and code.                *)
(*                                                                         *)
(* A pool writes only for a process that is its owner: Add makes it so     *)
(* first.  A process lives in one address space, and the copy of a pool    *)
(* in the child of a fork belongs to the parent's process, which never     *)
(* runs there.  So of the address spaces that share a region one at most   *)
(* writes to it, and its current_address_ is beyond every piece of code in *)
(* the region, whichever process runs it.                                  *)
(***************************************************************************)
EXTENDS CodePool, TLAPS

(* A thread of the process that owns the pool runs in the address space. *)
Writer(m) ==
    \E t \in Tid : space[t] = m /\ pid[t] = pool[m].owner_pid

(* Threads, processes and address spaces are named after threads that were   *)
(* started, and a process is in one address space.                           *)
ProcessesAreApart ==
    /\ \A t \in Tid :
        /\ Started(t) => Started(pid[t]) /\ pid[t] \in Tid /\ Started(space[t])
        /\ ~Started(t) => step[t] = "none"
    /\ \A t, u \in Tid :
        Started(t) /\ Started(u) /\ pid[t] = pid[u] => space[t] = space[u]

OwnersAreStarted ==
    \A m \in Tid :
        /\ Started(pool[m].owner_pid)
        /\ pool[m].mutex # NoTid => Started(pool[m].mutex)

HoldersAdd ==
    \A t \in Tid : Started(t) /\ pool[space[t]].mutex = t => step[t] = "add"

OneWriter ==
    \A m, n \in Tid :
        m # n /\ Writer(m) /\ Writer(n) => pool[m].exec # pool[n].exec

WritesBeyondCode ==
    \A m, n \in Tid : \A f \in code[n] :
        Writer(m) /\ f.region = pool[m].exec
            => f.start + f.size <= pool[m].current_address

CodeIsInRegions ==
    \A m \in Tid : \A f \in code[m] : f.region \in DOMAIN region

IInv ==
    /\ TypeOK
    /\ ProcessesAreApart
    /\ OwnersAreStarted
    /\ HoldersAdd
    /\ OneWriter
    /\ WritesBeyondCode
    /\ CodeIsInRegions
    /\ CodeIsIntact
    /\ RecoveryIsKept
    /\ FindIsReentrant
-----------------------------------------------------------------------------

(* Aligning an address does not lower it.                                    *)
LEMMA AlignUpIsAbove ==
    ASSUME NEW x \in Nat
    PROVE  AlignUp(x) \in Nat /\ x <= AlignUp(x)
  <1> DEFINE n == x + Align - 1
  <1>1. n \in Nat /\ Align \in Nat \ {0}
    BY PoolAssumption
  <1>2. n = (Align * (n \div Align)) + (n % Align)
    BY <1>1
  <1>3. n % Align \in 0 .. Align - 1 /\ n \div Align \in Nat
    BY <1>1
  <1>4. (n \div Align) * Align = Align * (n \div Align)
    BY <1>1, <1>3
  <1>5. (n \div Align) * Align \in Nat
    BY <1>1, <1>3
  <1> QED
    BY <1>1, <1>2, <1>3, <1>4, <1>5 DEF AlignUp

(* The numbers of a piece.                                                   *)
LEMMA PieceType ==
    ASSUME NEW f \in Piece
    PROVE  f.start \in Nat /\ f.size \in Nat /\ f.region \in Nat
  <1>1. f.start \in Nat /\ f.size \in InstallSize /\ f.region \in Nat
    BY DEF Piece
  <1>2. InstallSize \subseteq Nat
    BY PoolAssumption
  <1> QED
    BY <1>1, <1>2

(* A new region is a region.                                                 *)
LEMMA NewRegionType ==
    ASSUME NEW n \in 1 .. MaxSize
    PROVE  NewRegion(n) \in Region /\ NewRegion(n).size = n
  BY PoolAssumption DEF NewRegion, Region

(* The invariant holds when the first process starts.                        *)
LEMMA InitInv == Init => IInv
  <1> SUFFICES ASSUME Init PROVE IInv
    OBVIOUS
  <1>1. TypeOK
    BY PoolAssumption, NewRegionType
    DEF Init, TypeOK, Pool, Step, Piece, NoTid
  <1>2. ProcessesAreApart /\ OwnersAreStarted /\ HoldersAdd
    BY PoolAssumption DEF Init, ProcessesAreApart, OwnersAreStarted, HoldersAdd,
                          Started, NoTid
  <1>3. OneWriter
    BY PoolAssumption DEF Init, OneWriter, Writer, NoTid
  <1>4. /\ WritesBeyondCode /\ CodeIsInRegions
        /\ CodeIsIntact /\ RecoveryIsKept
    BY DEF Init, WritesBeyondCode, CodeIsInRegions, CodeIsIntact, RecoveryIsKept
  <1>5. FindIsReentrant
    BY DEF Init, FindIsReentrant
  <1> QED
    BY <1>1, <1>2, <1>3, <1>4, <1>5 DEF IInv

(* A thread with something to do was started, in one of the spaces.          *)
LEMMA ActorIsStarted ==
    ASSUME IInv, NEW t \in Tid, step[t] # "none"
    PROVE  Started(t) /\ space[t] \in Tid /\ pid[t] \in Tid /\ Started(pid[t])
  <1>1. TypeOK /\ ProcessesAreApart
    BY DEF IInv
  <1>2. Started(t)
    BY <1>1 DEF ProcessesAreApart
  <1> QED
    BY <1>1, <1>2 DEF ProcessesAreApart, TypeOK, Started

(* No thread id is the absence of one.                                       *)
LEMMA NoTidIsNone == NoTid \notin Tid
  BY PoolAssumption DEF NoTid

(* Taking the mutex keeps the invariant.                                     *)
LEMMA BeginAddInv ==
    ASSUME IInv, NEW t \in Tid, BeginAdd(t)
    PROVE  IInv'
  <1>1. /\ step[t] = "run"
        /\ pool' = [pool EXCEPT ![space[t]] = [@ EXCEPT !.mutex = t]]
        /\ step' = [step EXCEPT ![t] = "add"]
        /\ UNCHANGED <<space, pid, region, code, adds>>
    BY DEF BeginAdd
  <1>2. Started(t) /\ space[t] \in Tid
    BY <1>1, ActorIsStarted
  <1>3. TypeOK
    BY DEF IInv
  <1>4. \A n \in Tid : pool'[n] = IF n = space[t]
                                 THEN [pool[n] EXCEPT !.mutex = t]
                                 ELSE pool[n]
    BY <1>1, <1>2, <1>3 DEF TypeOK
  <1>5. \A n \in Tid :
          /\ pool'[n].exec = pool[n].exec
          /\ pool'[n].current_address = pool[n].current_address
          /\ pool'[n].owner_pid = pool[n].owner_pid
          /\ pool'[n].recovery_map = pool[n].recovery_map
          /\ pool'[n].mutex = IF n = space[t] THEN t ELSE pool[n].mutex
    <2>1. \A n \in Tid : pool[n] \in Pool
      BY <1>3 DEF TypeOK
    <2> QED
      BY <1>4, <2>1 DEF Pool
  <1>6. pool' \in [Tid -> Pool]
    <2>1. \A n \in Tid : pool[n] \in Pool
      BY <1>3 DEF TypeOK
    <2>2. \A q \in Pool : [q EXCEPT !.mutex = t] \in Pool
      BY DEF Pool
    <2>3. \A n \in Tid : pool'[n] \in Pool
      BY <1>4, <2>1, <2>2
    <2>4. pool' = [n \in Tid |-> pool'[n]]
      BY <1>1, <1>3 DEF TypeOK
    <2> QED
      BY <2>3, <2>4
  <1>7. TypeOK'
    BY <1>1, <1>3, <1>5, <1>6 DEF TypeOK, Step
  <1>8. \A n \in Tid : Writer(n)' <=> Writer(n)
    BY <1>1, <1>5 DEF Writer
  <1>9. ProcessesAreApart'
    BY <1>1, <1>2, <1>3 DEF IInv, ProcessesAreApart, Started, TypeOK
  <1>10. OwnersAreStarted'
    BY <1>1, <1>2, <1>5 DEF IInv, OwnersAreStarted, Started
  <1>11. \A u \in Tid : step'[u] = IF u = t THEN "add" ELSE step[u]
    BY <1>1, <1>3 DEF TypeOK
  <1>12. \A u \in Tid : Started(u) => space[u] \in Tid
    BY <1>3 DEF TypeOK, Started
  <1>13. HoldersAdd'
    BY <1>1, <1>5, <1>11, <1>12 DEF IInv, HoldersAdd, Started
  <1>14. OneWriter' /\ WritesBeyondCode'
    BY <1>1, <1>5, <1>8 DEF IInv, OneWriter, WritesBeyondCode
  <1>15. CodeIsInRegions' /\ CodeIsIntact' /\ RecoveryIsKept'
    BY <1>1, <1>5 DEF IInv, CodeIsInRegions, CodeIsIntact, RecoveryIsKept
  <1>16. \A u \in Tid : step[u] = "find" => Started(u)
    BY ActorIsStarted
  <1>17. FindIsReentrant'
    BY <1>1, <1>5, <1>11, <1>12, <1>16 DEF IInv, FindIsReentrant
  <1> QED
    BY <1>7, <1>9, <1>10, <1>13, <1>14, <1>15, <1>17 DEF IInv

(* A fault, and its end, move the thread only.                               *)
LEMMA FaultInv ==
    ASSUME IInv, NEW t \in Tid, Fault(t) \/ FindRecoveryCode(t)
    PROVE  IInv'
  <1>1. UNCHANGED <<space, pid, pool, region, code, adds>>
    BY DEF Fault, FindRecoveryCode
  <1>2. /\ step[t] \in {"run", "find"}
        /\ \/ step' = [step EXCEPT ![t] = "find"]
           \/ step' = [step EXCEPT ![t] = "run"]
    BY DEF Fault, FindRecoveryCode, InsideGeneratedCode
  <1>3. TypeOK'
    BY <1>1, <1>2 DEF IInv, TypeOK, Step
  <1>4. ProcessesAreApart' /\ OwnersAreStarted' /\ HoldersAdd'
    BY <1>1, <1>2
    DEF IInv, TypeOK, ProcessesAreApart, OwnersAreStarted, HoldersAdd, Started
  <1>5. OneWriter' /\ WritesBeyondCode'
    BY <1>1 DEF IInv, OneWriter, WritesBeyondCode, Writer
  <1>6. CodeIsInRegions' /\ CodeIsIntact' /\ RecoveryIsKept'
    BY <1>1 DEF IInv, CodeIsInRegions, CodeIsIntact, RecoveryIsKept
  <1>7. FindIsReentrant'
    BY <1>1, <1>2
    DEF IInv, TypeOK, FindIsReentrant, HoldersAdd, ProcessesAreApart
  <1> QED
    BY <1>3, <1>4, <1>5, <1>6, <1>7 DEF IInv

(* A thread that shares the memory makes no pool writable that was not: its  *)
(* process is its creator's, or too young to own a pool.                     *)
LEMMA ShareInv ==
    ASSUME IInv, NEW t \in Tid, NEW c \in Tid, NEW p \in Tid, Share(t, c, p)
    PROVE  IInv'
  <1>0. TypeOK /\ Started(t) /\ ~Started(c) /\ space[t] \in Tid /\ c # t
    BY DEF IInv, TypeOK, Share, IsNext, Started
  <1>1. /\ space' = [space EXCEPT ![c] = space[t]]
        /\ pid' = [pid EXCEPT ![c] = p]
        /\ step' = [step EXCEPT ![c] = "run"]
        /\ UNCHANGED <<pool, region, code, adds>>
        /\ p = pid[t] \/ p = c
    BY DEF Share
  <1>2. TypeOK'
    BY <1>0, <1>1 DEF TypeOK, Step
  <1>4. space'[c] = space[t] /\ pid'[c] = p /\ Started(c)'
    BY <1>0, <1>1 DEF TypeOK, Started
  <1>5. \A u \in Tid : u # c => /\ space'[u] = space[u] /\ pid'[u] = pid[u]
                                /\ step'[u] = step[u]
    BY <1>0, <1>1 DEF TypeOK
  <1>6. \A u \in Tid : Started(u)' <=> Started(u) \/ u = c
    BY <1>4, <1>5 DEF Started
  <1>7. ProcessesAreApart /\ pid[t] \in Tid /\ Started(pid[t]) /\ Started(space[t])
    BY <1>0 DEF IInv, ProcessesAreApart
  <1>8. ProcessesAreApart'
    <2>1. ASSUME NEW u \in Tid, Started(u)'
          PROVE  pid'[u] \in Tid /\ Started(pid[u])' /\ Started(space[u])'
      <3>1. CASE u = c
        <4>1. pid'[u] \in Tid /\ space'[u] \in Tid
          BY <1>0, <1>4, <3>1
        <4>2. Started(pid'[u]) \/ pid'[u] = c
          BY <1>1, <1>4, <1>7, <3>1
        <4>3. Started(space'[u])
          BY <1>4, <1>7, <3>1
        <4>4. (space')[pid'[u]] # NoTid /\ (space')[space'[u]] # NoTid
          BY <1>6, <4>1, <4>2, <4>3 DEF Started
        <4> QED
          BY <4>1, <4>4 DEF Started
      <3>2. CASE u # c
        <4>1. Started(u)
          BY <1>6, <2>1, <3>2
        <4>2. pid[u] \in Tid /\ Started(pid[u]) /\ Started(space[u])
          BY <1>7, <4>1 DEF ProcessesAreApart
        <4>3. space[u] \in Tid
          BY <1>0, <4>1 DEF TypeOK, Started
        <4>4. (space')[pid'[u]] # NoTid /\ (space')[space'[u]] # NoTid
          BY <1>5, <1>6, <3>2, <4>2, <4>3 DEF Started
        <4> QED
          BY <1>5, <3>2, <4>2, <4>4 DEF Started
      <3> QED
        BY <3>1, <3>2
    <2>2. ASSUME NEW u \in Tid, ~Started(u)'
          PROVE  step'[u] = "none"
      BY <1>5, <1>6, <1>7, <2>2 DEF ProcessesAreApart
    <2>3. ASSUME NEW u \in Tid, NEW v \in Tid,
                 Started(u)', Started(v)', pid'[u] = pid'[v]
          PROVE  space'[u] = space'[v]
      <3>1. \A w \in Tid : Started(w) => pid[w] # c
        BY <1>0, <1>7 DEF ProcessesAreApart
      <3>2. \A w \in Tid \ {c} : Started(w)' /\ pid'[w] = p => space'[w] = space[t]
        BY <1>0, <1>1, <1>5, <1>6, <1>7, <3>1 DEF ProcessesAreApart
      <3>3. CASE u = c \/ v = c
        BY <1>4, <2>3, <3>2, <3>3
      <3>4. CASE u # c /\ v # c
        BY <1>5, <1>6, <1>7, <2>3, <3>4 DEF ProcessesAreApart
      <3> QED
        BY <3>3, <3>4
    <2> QED
      BY <2>1, <2>2, <2>3 DEF ProcessesAreApart
  <1>9. \A n \in Tid : pool[n].owner_pid \in Tid /\ Started(pool[n].owner_pid)
    BY <1>0 DEF IInv, OwnersAreStarted, TypeOK, Pool
  <1>10. \A n \in Tid : pool[n].mutex \in Tid \cup {NoTid}
    BY <1>0 DEF TypeOK, Pool
  <1>11. OwnersAreStarted'
    <2>1. \A n \in Tid : /\ (space')[pool[n].owner_pid] # NoTid
                         /\ pool[n].mutex # NoTid
                              => (space')[pool[n].mutex] # NoTid
      BY <1>6, <1>9, <1>10 DEF IInv, OwnersAreStarted, Started
    <2> QED
      BY <1>1, <2>1 DEF OwnersAreStarted, Started
  <1>12. \A u \in Tid : Started(u) => space[u] \in Tid
    BY <1>0 DEF TypeOK, Started
  <1>13. pool[space[t]].mutex # c
    BY <1>0, NoTidIsNone DEF IInv, OwnersAreStarted
  <1>14. HoldersAdd'
    BY <1>1, <1>4, <1>5, <1>6, <1>13 DEF IInv, HoldersAdd
  <1>15. \A n \in Tid : Writer(n)' => Writer(n)
    <2>1. ASSUME NEW n \in Tid, NEW u \in Tid,
                 space'[u] = n, pid'[u] = pool[n].owner_pid
          PROVE  \E v \in Tid : space[v] = n /\ pid[v] = pool[n].owner_pid
      <3>1. CASE u = c
        BY <1>0, <1>1, <1>4, <1>9, <2>1, <3>1
      <3>2. CASE u # c
        BY <1>5, <2>1, <3>2
      <3> QED
        BY <3>1, <3>2
    <2> QED
      BY <1>1, <2>1 DEF Writer
  <1>16. OneWriter' /\ WritesBeyondCode'
    BY <1>1, <1>15 DEF IInv, OneWriter, WritesBeyondCode
  <1>17. CodeIsInRegions' /\ CodeIsIntact' /\ RecoveryIsKept'
    BY <1>1 DEF IInv, CodeIsInRegions, CodeIsIntact, RecoveryIsKept
  <1>18. step'[c] = "run"
    BY <1>0, <1>1 DEF TypeOK
  <1>19. FindIsReentrant'
    BY <1>1, <1>5, <1>18 DEF IInv, FindIsReentrant
  <1> QED
    BY <1>2, <1>8, <1>11, <1>14, <1>16, <1>17, <1>19 DEF IInv

(* A copy of the memory adds no writer: the child's pool belongs to a        *)
(* process that is older than the child.                                     *)
LEMMA CopyInv ==
    ASSUME IInv, NEW t \in Tid, NEW c \in Tid, NEW first \in {"run", "forked"},
           Copy(t, c, first)
    PROVE  IInv'
  <1>1. /\ step[t] = "run" /\ ~Started(c)
        /\ space' = [space EXCEPT ![c] = c]
        /\ pid' = [pid EXCEPT ![c] = c]
        /\ step' = [step EXCEPT ![c] = first]
        /\ pool' = [pool EXCEPT ![c] = pool[space[t]]]
        /\ code' = [code EXCEPT ![c] = code[space[t]]]
        /\ UNCHANGED <<region, adds>>
    BY DEF Copy, IsNext
  <1>2. TypeOK /\ Started(t) /\ space[t] \in Tid
    BY <1>1, ActorIsStarted DEF IInv
  <1>3. /\ space'[c] = c /\ pid'[c] = c /\ step'[c] = first
        /\ pool'[c] = pool[space[t]] /\ code'[c] = code[space[t]]
    BY <1>1, <1>2 DEF TypeOK
  <1>4. \A u \in Tid : u # c => /\ space'[u] = space[u] /\ pid'[u] = pid[u]
                                /\ step'[u] = step[u] /\ pool'[u] = pool[u]
                                /\ code'[u] = code[u]
    BY <1>1, <1>2 DEF TypeOK
  <1>5. TypeOK'
    <2>1. pool' \in [Tid -> Pool] /\ code' \in [Tid -> SUBSET Piece]
      BY <1>1, <1>2 DEF TypeOK
    <2>2. \A m \in Tid : pool'[m].exec \in DOMAIN region'
      BY <1>1, <1>2, <1>3, <1>4 DEF TypeOK
    <2>3. /\ space' \in [Tid -> Tid \cup {NoTid}]
          /\ pid' \in [Tid -> Tid \cup {NoTid}]
          /\ step' \in [Tid -> Step]
      BY <1>1, <1>2 DEF TypeOK, Step
    <2> QED
      BY <1>1, <1>2, <2>1, <2>2, <2>3 DEF TypeOK
  <1>6. \A u \in Tid : Started(u)' <=> Started(u) \/ u = c
    BY <1>3, <1>4, NoTidIsNone DEF Started
  <1>7. ProcessesAreApart
    BY DEF IInv
  <1>8. \A u \in Tid : Started(u) =>
            /\ u # c /\ pid[u] # c /\ space[u] # c
            /\ pid[u] \in Tid /\ space[u] \in Tid
            /\ Started(pid[u]) /\ Started(space[u])
    <2>1. ~Started(c)
      BY <1>1
    <2>2. \A u \in Tid : Started(u) => space[u] \in Tid
      BY <1>2 DEF TypeOK, Started
    <2> QED
      BY <1>7, <2>1, <2>2 DEF ProcessesAreApart
  <1>9. ProcessesAreApart'
    <2>1. ASSUME NEW u \in Tid, Started(u)'
          PROVE  pid'[u] \in Tid /\ Started(pid[u])' /\ Started(space[u])'
      <3>1. CASE u = c
        BY <1>3, <3>1, NoTidIsNone DEF Started
      <3>2. CASE u # c
        <4>1. Started(u)
          BY <1>6, <2>1, <3>2
        <4>2. (space')[pid[u]] # NoTid /\ (space')[space[u]] # NoTid
          BY <1>4, <1>8, <4>1 DEF Started
        <4> QED
          BY <1>4, <1>8, <3>2, <4>1, <4>2 DEF Started
      <3> QED
        BY <3>1, <3>2
    <2>2. ASSUME NEW u \in Tid, ~Started(u)'
          PROVE  step'[u] = "none"
      BY <1>4, <1>6, <1>7, <2>2 DEF ProcessesAreApart
    <2>3. ASSUME NEW u \in Tid, NEW v \in Tid,
                 Started(u)', Started(v)', pid'[u] = pid'[v]
          PROVE  space'[u] = space'[v]
      <3>1. CASE u = c \/ v = c
        BY <1>3, <1>4, <1>6, <1>8, <2>3, <3>1
      <3>2. CASE u # c /\ v # c
        BY <1>4, <1>6, <1>7, <2>3, <3>2 DEF ProcessesAreApart
      <3> QED
        BY <3>1, <3>2
    <2> QED
      BY <2>1, <2>2, <2>3 DEF ProcessesAreApart
  <1>10. \A n \in Tid :
          /\ pool[n].owner_pid \in Tid /\ Started(pool[n].owner_pid)
          /\ pool[n].owner_pid # c
          /\ pool[n].mutex \in Tid \cup {NoTid} /\ pool[n].mutex # c
          /\ pool[n].mutex # NoTid => Started(pool[n].mutex)
    <2>1. \A n \in Tid : pool[n].owner_pid \in Tid
                        /\ pool[n].mutex \in Tid \cup {NoTid}
      BY <1>2 DEF TypeOK, Pool
    <2> QED
      BY <1>1, <2>1, NoTidIsNone DEF IInv, OwnersAreStarted
  <1>11. OwnersAreStarted'
    <2>1. \A n \in Tid : /\ (space')[pool[n].owner_pid] # NoTid
                         /\ pool[n].mutex # NoTid
                              => (space')[pool[n].mutex] # NoTid
      BY <1>6, <1>10 DEF Started
    <2> QED
      BY <1>2, <1>3, <1>4, <2>1 DEF OwnersAreStarted, Started
  <1>12. HoldersAdd'
    <2>1. ASSUME NEW u \in Tid, Started(u)', pool'[space'[u]].mutex = u
          PROVE  step'[u] = "add"
      <3>1. CASE u = c
        BY <1>2, <1>3, <1>10, <2>1, <3>1
      <3>2. CASE u # c
        BY <1>4, <1>6, <1>8, <2>1, <3>2 DEF IInv, HoldersAdd
      <3> QED
        BY <3>1, <3>2
    <2> QED
      BY <2>1 DEF HoldersAdd
  <1>13. ~Writer(c)'
    <2>1. ASSUME NEW u \in Tid, space'[u] = c, pid'[u] = pool'[c].owner_pid
          PROVE  FALSE
      <3>1. u = c
        BY <1>4, <1>8, <2>1, NoTidIsNone DEF Started
      <3> QED
        BY <1>2, <1>3, <1>10, <2>1, <3>1
    <2> QED
      BY <2>1 DEF Writer
  <1>14. \A n \in Tid : n # c /\ Writer(n)' => Writer(n)
    BY <1>3, <1>4 DEF Writer
  <1>15. OneWriter'
    BY <1>4, <1>13, <1>14 DEF IInv, OneWriter
  <1>16. \A n \in Tid : \E k \in Tid :
            /\ code'[n] = code[k]
            /\ pool'[n].recovery_map = pool[k].recovery_map
    BY <1>2, <1>3, <1>4
  <1>17. WritesBeyondCode'
    BY <1>4, <1>13, <1>14, <1>16 DEF IInv, WritesBeyondCode
  <1>18. CodeIsInRegions'
    BY <1>1, <1>16 DEF IInv, CodeIsInRegions
  <1>19. CodeIsIntact'
    BY <1>1, <1>16 DEF IInv, CodeIsIntact
  <1>20. RecoveryIsKept'
    BY <1>16 DEF IInv, RecoveryIsKept
  <1>21. FindIsReentrant'
    BY <1>3, <1>4, <1>8, ActorIsStarted DEF IInv, FindIsReentrant
  <1> QED
    BY <1>5, <1>9, <1>11, <1>12, <1>15, <1>17, <1>18, <1>19, <1>20, <1>21
    DEF IInv

(* Appending a region changes none of those there are.                       *)
LEMMA AppendRegion ==
    ASSUME NEW r \in Seq(Region), NEW e \in Region
    PROVE  /\ Append(r, e) \in Seq(Region)
           /\ Len(Append(r, e)) = Len(r) + 1
           /\ Len(r) + 1 \in DOMAIN Append(r, e)
           /\ Append(r, e)[Len(r) + 1] = e
           /\ \A i \in DOMAIN r : /\ i \in DOMAIN Append(r, e)
                                 /\ Append(r, e)[i] = r[i]
                                 /\ i \in Nat /\ i # Len(r) + 1
           /\ Len(r) + 1 \in Nat
  OBVIOUS

(* A child that resets its pool writes to a region nobody else has.          *)
LEMMA ResetExecRegionInv ==
    ASSUME IInv, NEW c \in Tid, ResetExecRegion(c)
    PROVE  IInv'
  <1> DEFINE x == Len(region) + 1
  <1>1. /\ step[c] = "forked"
        /\ region' = Append(region, NewRegion(kExecRegionSize))
        /\ pool' = [pool EXCEPT ![c] = Reset(pool[c], Len(region'))]
        /\ step' = [step EXCEPT ![c] = "run"]
        /\ UNCHANGED <<space, pid, code, adds>>
    BY DEF ResetExecRegion
  <1>2. TypeOK /\ Started(c)
    BY <1>1, ActorIsStarted DEF IInv
  <1>3. region \in Seq(Region) /\ \A n \in Tid : pool[n] \in Pool
    BY <1>2 DEF TypeOK
  <1>4. /\ region' \in Seq(Region) /\ Len(region') = x /\ x \in DOMAIN region'
        /\ \A i \in DOMAIN region : i \in DOMAIN region' /\ region'[i] = region[i]
                                   /\ i # x
        /\ x \in Nat
    BY <1>1, <1>3, NewRegionType, AppendRegion, PoolAssumption
  <1>5. \A n \in Tid : pool'[n] = IF n = c
                                 THEN [pool[n] EXCEPT !.exec = x, !.current_address = 0]
                                 ELSE pool[n]
    BY <1>1, <1>2, <1>4 DEF TypeOK, Reset
  <1>6. \A n \in Tid :
          /\ pool'[n].exec = IF n = c THEN x ELSE pool[n].exec
          /\ pool'[n].current_address = IF n = c THEN 0 ELSE pool[n].current_address
          /\ pool'[n].owner_pid = pool[n].owner_pid
          /\ pool'[n].recovery_map = pool[n].recovery_map
          /\ pool'[n].mutex = pool[n].mutex
    BY <1>3, <1>5 DEF Pool
  <1>7. pool' \in [Tid -> Pool]
    <2>1. \A q \in Pool : [q EXCEPT !.exec = x, !.current_address = 0] \in Pool
      BY <1>4 DEF Pool
    <2>2. \A n \in Tid : pool'[n] \in Pool
      BY <1>3, <1>5, <2>1
    <2>3. pool' = [n \in Tid |-> pool'[n]]
      BY <1>1, <1>2 DEF TypeOK
    <2> QED
      BY <2>2, <2>3
  <1>8. \A n \in Tid : pool[n].exec \in DOMAIN region
    BY <1>2 DEF TypeOK
  <1>9. \A n \in Tid : pool'[n].exec \in DOMAIN region'
    BY <1>4, <1>6, <1>8
  <1>10. step' \in [Tid -> Step]
    BY <1>1, <1>2 DEF TypeOK, Step
  <1>11. TypeOK'
    BY <1>1, <1>2, <1>4, <1>7, <1>9, <1>10 DEF TypeOK
  <1>12. \A u \in Tid : step'[u] = IF u = c THEN "run" ELSE step[u]
    BY <1>1, <1>2 DEF TypeOK
  <1>13. ProcessesAreApart'
    BY <1>1, <1>2, <1>12 DEF IInv, ProcessesAreApart, Started
  <1>14. OwnersAreStarted'
    BY <1>1, <1>6 DEF IInv, OwnersAreStarted, Started
  <1>15. \A u \in Tid : Started(u) => space[u] \in Tid
    BY <1>2 DEF TypeOK, Started
  <1>16. HoldersAdd'
    BY <1>1, <1>6, <1>12, <1>15 DEF IInv, HoldersAdd, Started
  <1>17. \A n \in Tid : Writer(n)' <=> Writer(n)
    BY <1>1, <1>6 DEF Writer
  <1>18. OneWriter'
    BY <1>4, <1>6, <1>8, <1>17 DEF IInv, OneWriter
  <1>19. \A n \in Tid : \A f \in code[n] : f.region \in DOMAIN region
    BY DEF IInv, CodeIsInRegions
  <1>20. WritesBeyondCode'
    BY <1>1, <1>4, <1>6, <1>17, <1>19 DEF IInv, WritesBeyondCode
  <1>21. CodeIsInRegions' /\ CodeIsIntact'
    BY <1>1, <1>4, <1>19 DEF IInv, CodeIsInRegions, CodeIsIntact
  <1>22. RecoveryIsKept'
    BY <1>1, <1>6 DEF IInv, RecoveryIsKept
  <1>23. \A u \in Tid : step[u] = "find" => Started(u)
    BY ActorIsStarted
  <1>24. FindIsReentrant'
    BY <1>1, <1>6, <1>12, <1>15, <1>23 DEF IInv, FindIsReentrant
  <1> QED
    BY <1>11, <1>13, <1>14, <1>16, <1>18, <1>20, <1>21, <1>22, <1>24 DEF IInv

(* The pool p and the regions r may be written to by t: the region is the    *)
(* pool's alone, and the place is beyond every piece of code.                *)
Ready(t, p, r) ==
    /\ p \in Pool /\ r \in Seq(Region) /\ p.exec \in DOMAIN r
    /\ \A i \in DOMAIN region : i \in DOMAIN r /\ r[i] = region[i]
    /\ p.owner_pid = pid[t]
    /\ p.recovery_map = pool[space[t]].recovery_map
    /\ \A n \in Tid : \A f \in code[n] :
        f.region = p.exec => f.start + f.size <= p.current_address
    /\ \A n \in Tid : n # space[t] /\ Writer(n) => pool[n].exec # p.exec

(* A pool that starts a new region is ready.                                 *)
LEMMA NewRegionIsReady ==
    ASSUME IInv, NEW t \in Tid, NEW p \in Pool, NEW r \in Seq(Region),
           NEW size \in 1 .. MaxSize,
           p.owner_pid = pid[t],
           p.recovery_map = pool[space[t]].recovery_map,
           p.current_address = 0, p.exec = Len(r) + 1,
           \A i \in DOMAIN region : i \in DOMAIN r /\ r[i] = region[i]
    PROVE  Ready(t, p, Append(r, NewRegion(size)))
  <1> DEFINE more == Append(r, NewRegion(size))
  <1>1. /\ more \in Seq(Region) /\ p.exec \in DOMAIN more
        /\ \A i \in DOMAIN r : i \in DOMAIN more /\ more[i] = r[i] /\ i # p.exec
    BY NewRegionType, AppendRegion
  <1>2. \A i \in DOMAIN region : /\ i \in DOMAIN more /\ more[i] = region[i]
                                /\ i # p.exec
    BY <1>1
  <1>3. \A n \in Tid : \A f \in code[n] : f.region # p.exec
    BY <1>2 DEF IInv, CodeIsInRegions
  <1>4. \A n \in Tid : pool[n].exec # p.exec
    BY <1>2 DEF IInv, TypeOK
  <1> QED
    BY <1>1, <1>2, <1>3, <1>4 DEF Ready

(* What Add works with once it has looked at owner_pid_ is ready.            *)
LEMMA OwnPoolIsReady ==
    ASSUME IInv, NEW t \in Tid, step[t] = "add"
    PROVE  Ready(t, OwnPool(t), OwnRegions(t))
  <1> DEFINE m == space[t]
  <1> DEFINE p == pool[m]
  <1>1. m \in Tid /\ pid[t] \in Tid
    BY ActorIsStarted
  <1>2. p \in Pool /\ region \in Seq(Region) /\ p.exec \in DOMAIN region
    BY <1>1 DEF IInv, TypeOK
  <1>3. CASE HasForked(t)
    <2> DEFINE q == [Reset(p, Len(region) + 1) EXCEPT !.owner_pid = pid[t]]
    <2>1. OwnRegions(t) = Append(region, NewRegion(kExecRegionSize))
      BY <1>3 DEF OwnRegions
    <2>2. Len(OwnRegions(t)) = Len(region) + 1 /\ Len(region) + 1 \in Nat
      BY <1>2, <2>1, NewRegionType, AppendRegion, PoolAssumption
    <2>3. OwnPool(t) = [q EXCEPT !.current_address = AlignUp(q.current_address)]
      BY <1>3, <2>2 DEF OwnPool
    <2>4. /\ q \in Pool /\ q.current_address = 0 /\ q.exec = Len(region) + 1
          /\ q.owner_pid = pid[t] /\ q.recovery_map = p.recovery_map
      BY <1>1, <1>2, <2>2 DEF Pool, Reset
    <2> HIDE DEF q
    <2>5. Ready(t, q, OwnRegions(t))
      BY <1>2, <2>1, <2>4, NewRegionIsReady, PoolAssumption
    <2>6. AlignUp(0) \in Nat /\ 0 <= AlignUp(0)
      BY AlignUpIsAbove
    <2>7. /\ OwnPool(t) \in Pool /\ OwnPool(t).current_address = AlignUp(0)
          /\ OwnPool(t).exec = q.exec /\ OwnPool(t).owner_pid = q.owner_pid
          /\ OwnPool(t).recovery_map = q.recovery_map
      BY <2>3, <2>4, <2>6 DEF Pool
    <2>8. \A n \in Tid : \A f \in code[n] : f.region \in DOMAIN region
      BY DEF IInv, CodeIsInRegions
    <2>9. Len(region) + 1 \notin DOMAIN region
      BY <1>2
    <2> QED
      BY <2>4, <2>5, <2>7, <2>8, <2>9 DEF Ready
  <1>4. CASE ~HasForked(t)
    <2>1. OwnRegions(t) = region
      BY <1>4 DEF OwnRegions
    <2>2. OwnPool(t) = [p EXCEPT !.current_address = AlignUp(p.current_address)]
      BY <1>4 DEF OwnPool
    <2>3. p.current_address \in Nat
      BY <1>2 DEF Pool
    <2>4. /\ AlignUp(p.current_address) \in Nat
          /\ p.current_address <= AlignUp(p.current_address)
      BY <2>3, AlignUpIsAbove
    <2>5. /\ OwnPool(t) \in Pool
          /\ OwnPool(t).current_address = AlignUp(p.current_address)
          /\ OwnPool(t).exec = p.exec /\ OwnPool(t).owner_pid = p.owner_pid
          /\ OwnPool(t).recovery_map = p.recovery_map
      BY <1>2, <2>2, <2>4 DEF Pool
    <2>6. p.owner_pid = pid[t] /\ Writer(m)
      BY <1>4 DEF HasForked, Writer
    <2>7. ASSUME NEW n \in Tid, NEW f \in code[n], f.region = p.exec
          PROVE  f.start + f.size <= AlignUp(p.current_address)
      <3>1. f.start + f.size <= p.current_address
        BY <1>1, <2>6, <2>7 DEF IInv, WritesBeyondCode
      <3>2. f \in Piece
        BY DEF IInv, TypeOK
      <3>3. f.start \in Nat /\ f.size \in Nat
        BY <3>2, PieceType
      <3> QED
        BY <2>3, <2>4, <3>1, <3>3
    <2>8. \A n \in Tid : n # m /\ Writer(n) => pool[n].exec # p.exec
      BY <1>1, <2>6 DEF IInv, OneWriter
    <2> QED
      BY <1>2, <2>1, <2>5, <2>6, <2>7, <2>8 DEF Ready
  <1> QED
    BY <1>3, <1>4

(* The end of an Add, whatever it did to the region: the pool is t's, and    *)
(* its region is nobody else's.                                              *)
LEMMA AddEndsInv ==
    ASSUME IInv, NEW t \in Tid, step[t] = "add", NEW q \in Pool,
           pool' = [pool EXCEPT ![space[t]] = q],
           q.mutex = NoTid, q.owner_pid = pid[t], q.exec \in DOMAIN region',
           \A n \in Tid : n # space[t] /\ Writer(n) => pool[n].exec # q.exec,
           region' \in Seq(Region), DOMAIN region \subseteq DOMAIN region',
           code' \in [Tid -> SUBSET Piece], adds' \in Nat,
           step' = [step EXCEPT ![t] = "run"], UNCHANGED <<space, pid>>
    PROVE  /\ TypeOK' /\ ProcessesAreApart' /\ OwnersAreStarted' /\ HoldersAdd'
           /\ OneWriter' /\ FindIsReentrant'
           /\ space[t] \in Tid
           /\ \A n \in Tid : pool'[n] = IF n = space[t] THEN q ELSE pool[n]
           /\ \A n \in Tid : n # space[t] => (Writer(n)' <=> Writer(n))
  <1>1. /\ Started(t) /\ space[t] \in Tid
        /\ pid[t] \in Tid /\ Started(pid[t])
    BY ActorIsStarted
  <1>2. TypeOK
    BY DEF IInv
  <1>3. \A n \in Tid : pool'[n] = IF n = space[t] THEN q ELSE pool[n]
    BY <1>2 DEF TypeOK
  <1>4. \A n \in Tid : n # space[t] => (Writer(n)' <=> Writer(n))
    BY <1>3 DEF Writer
  <1>5. TypeOK'
    <2>1. pool' \in [Tid -> Pool]
      BY <1>1, <1>2 DEF TypeOK
    <2>2. \A n \in Tid : pool'[n].exec \in DOMAIN region'
      BY <1>2, <1>3 DEF TypeOK
    <2>3. step' \in [Tid -> Step]
      BY <1>2 DEF TypeOK, Step
    <2> QED
      BY <1>2, <2>1, <2>2, <2>3 DEF TypeOK
  <1>6. \A u \in Tid : step'[u] = IF u = t THEN "run" ELSE step[u]
    BY <1>2 DEF TypeOK
  <1>7. ProcessesAreApart'
    BY <1>1, <1>6 DEF IInv, ProcessesAreApart, Started
  <1>8. OwnersAreStarted'
    BY <1>1, <1>3 DEF IInv, OwnersAreStarted, Started
  <1>9. \A u \in Tid : Started(u) => space[u] \in Tid
    BY <1>2 DEF TypeOK, Started
  <1>10. HoldersAdd'
    BY <1>3, <1>6, <1>9, NoTidIsNone DEF IInv, HoldersAdd, Started
  <1>11. OneWriter'
    BY <1>3, <1>4 DEF IInv, OneWriter
  <1>12. \A u \in Tid : step[u] = "find" => Started(u)
    BY ActorIsStarted
  <1>13. FindIsReentrant'
    BY <1>3, <1>6, <1>9, <1>12, NoTidIsNone DEF IInv, FindIsReentrant
  <1> QED
    BY <1>1, <1>3, <1>4, <1>5, <1>7, <1>8, <1>10, <1>11, <1>13

(* A failed Add leaves the regions as they were.                             *)
LEMMA AddFailsInv ==
    ASSUME IInv, NEW t \in Tid, NEW size \in InstallSize, AddFails(t, size)
    PROVE  IInv'
  <1> DEFINE p == OwnPool(t)
  <1> DEFINE q == [p EXCEPT !.mutex = NoTid]
  <1>1. /\ step[t] = "add"
        /\ region' = OwnRegions(t)
        /\ pool' = [pool EXCEPT ![space[t]] = q]
        /\ step' = [step EXCEPT ![t] = "run"]
        /\ adds' = adds + 1
        /\ UNCHANGED <<space, pid, code>>
    BY DEF AddFails
  <1>2. Ready(t, p, region')
    BY <1>1, OwnPoolIsReady
  <1>3. p \in Pool
    BY <1>2 DEF Ready
  <1>4. /\ q \in Pool /\ q.mutex = NoTid /\ q.owner_pid = p.owner_pid
        /\ q.exec = p.exec /\ q.current_address = p.current_address
        /\ q.recovery_map = p.recovery_map
    BY <1>3 DEF Pool
  <1>5. adds' \in Nat /\ code' \in [Tid -> SUBSET Piece]
    BY <1>1 DEF IInv, TypeOK
  <1>6. /\ q.owner_pid = pid[t] /\ q.exec \in DOMAIN region'
        /\ \A n \in Tid : n # space[t] /\ Writer(n) => pool[n].exec # q.exec
        /\ region' \in Seq(Region) /\ DOMAIN region \subseteq DOMAIN region'
        /\ \A i \in DOMAIN region : region'[i] = region[i]
        /\ q.recovery_map = pool[space[t]].recovery_map
        /\ \A n \in Tid : \A f \in code[n] :
            f.region = q.exec => f.start + f.size <= q.current_address
    BY <1>2, <1>4 DEF Ready
  <1> HIDE DEF q
  <1>7. /\ TypeOK' /\ ProcessesAreApart' /\ OwnersAreStarted' /\ HoldersAdd'
        /\ OneWriter' /\ FindIsReentrant'
        /\ \A n \in Tid : pool'[n] = IF n = space[t] THEN q ELSE pool[n]
        /\ \A n \in Tid : n # space[t] => (Writer(n)' <=> Writer(n))
    BY <1>1, <1>4, <1>5, <1>6, AddEndsInv
  <1>8. WritesBeyondCode'
    <2>1. \A n, k \in Tid : \A f \in code[k] :
            Writer(n)' /\ f.region = pool'[n].exec
                => f.start + f.size <= pool'[n].current_address
      BY <1>6, <1>7 DEF IInv, WritesBeyondCode
    <2> QED
      BY <1>1, <2>1 DEF WritesBeyondCode
  <1>9. CodeIsInRegions' /\ CodeIsIntact'
    BY <1>1, <1>6 DEF IInv, CodeIsInRegions, CodeIsIntact
  <1>10. RecoveryIsKept'
    <2>1. \A n \in Tid : pool'[n].recovery_map = pool[n].recovery_map
      BY <1>6, <1>7
    <2> QED
      BY <1>1, <2>1 DEF IInv, RecoveryIsKept
  <1> QED
    BY <1>7, <1>8, <1>9, <1>10 DEF IInv

(* Writing a piece where the pool stands changes no byte of another piece.   *)
LEMMA InstallInv ==
    ASSUME IInv, NEW t \in Tid, NEW size \in InstallSize, NEW p, NEW r,
           Ready(t, p, r), Fits(p, r, size), Install(t, p, r, size),
           step[t] = "add", step' = [step EXCEPT ![t] = "run"],
           UNCHANGED <<space, pid>>
    PROVE  IInv'
  <1> DEFINE m == space[t]
             x == p.exec
             at == p.current_address
             piece == [region |-> x, start |-> at, size |-> size, id |-> adds + 1]
             bytes == [i \in DOMAIN r[x].byte |->
                         IF at <= i /\ i < at + size THEN adds + 1 ELSE r[x].byte[i]]
             q == [p EXCEPT !.current_address = at + size, !.mutex = NoTid,
                            !.recovery_map = @ \cup {<<x, at>>}]
  <1>1. /\ p \in Pool /\ r \in Seq(Region) /\ x \in DOMAIN r
        /\ \A i \in DOMAIN region : i \in DOMAIN r /\ r[i] = region[i]
        /\ p.owner_pid = pid[t] /\ p.recovery_map = pool[m].recovery_map
        /\ \A n \in Tid : \A f \in code[n] : f.region = x => f.start + f.size <= at
        /\ \A n \in Tid : n # m /\ Writer(n) => pool[n].exec # x
    BY DEF Ready
  <1>2. /\ region' = [r EXCEPT ![x] = [@ EXCEPT !.byte = bytes]]
        /\ pool' = [pool EXCEPT ![m] = q]
        /\ code' = [code EXCEPT ![m] = @ \cup {piece}]
        /\ adds' = adds + 1
    BY DEF Install
  <1>3. m \in Tid /\ adds \in Nat /\ code \in [Tid -> SUBSET Piece]
    BY ActorIsStarted DEF IInv, TypeOK
  <1>4. at \in Nat /\ size \in Nat /\ size > 0 /\ x \in Nat
    <2>1. p \in Pool
      BY <1>1
    <2>2. at \in Nat /\ x \in Nat
      BY <2>1 DEF Pool
    <2> QED
      BY <2>2, PoolAssumption
  <1>5. /\ r[x] \in Region /\ r[x].size \in Nat /\ r[x].size <= MaxSize
        /\ DOMAIN r[x].byte = 0 .. MaxSize - 1
        /\ at + size <= r[x].size
    <2>1. r \in Seq(Region) /\ x \in DOMAIN r
      BY <1>1
    <2>2. r[x] \in Region
      BY <2>1
    <2> QED
      BY <2>2, PoolAssumption DEF Region, Fits
  <1>6. bytes \in [0 .. MaxSize - 1 -> Nat]
    <2>1. \A i \in 0 .. MaxSize - 1 : r[x].byte[i] \in Nat
      BY <1>5 DEF Region
    <2> QED
      BY <1>3, <1>5, <2>1
  <1>7. /\ region' \in Seq(Region) /\ DOMAIN region' = DOMAIN r
        /\ region'[x].size = r[x].size /\ region'[x].byte = bytes
        /\ \A i \in DOMAIN r : i # x => region'[i] = r[i]
    <2> DEFINE e == [r[x] EXCEPT !.byte = bytes]
    <2>1. e \in Region /\ e.size = r[x].size /\ e.byte = bytes
      BY <1>5, <1>6 DEF Region
    <2> HIDE DEF e
    <2>2. region' = [r EXCEPT ![x] = e]
      BY <1>2 DEF e
    <2> QED
      BY <1>1, <2>1, <2>2
  <1>8. piece \in Piece
    BY <1>3, <1>4 DEF Piece
  <1>9. code' \in [Tid -> SUBSET Piece]
        /\ \A n \in Tid : code'[n] = IF n = m THEN code[n] \cup {piece} ELSE code[n]
    BY <1>2, <1>3, <1>8
  <1>10. /\ q \in Pool /\ q.mutex = NoTid /\ q.owner_pid = p.owner_pid
         /\ q.exec = x /\ q.current_address = at + size
         /\ q.recovery_map = p.recovery_map \cup {<<x, at>>}
    <2>1. <<x, at>> \in Nat \X Nat
      BY <1>4
    <2> DEFINE found == p.recovery_map \cup {<<x, at>>}
    <2>2. found \in SUBSET (Nat \X Nat)
      BY <1>1, <2>1 DEF Pool
    <2>3. q = [p EXCEPT !.current_address = at + size, !.mutex = NoTid,
                        !.recovery_map = found]
      BY <1>1 DEF Pool
    <2>4. at + size \in Nat
      BY <1>4
    <2> HIDE DEF found
    <2>5. /\ q \in Pool /\ q.mutex = NoTid /\ q.owner_pid = p.owner_pid
          /\ q.exec = x /\ q.current_address = at + size
          /\ q.recovery_map = found
      BY <1>1, <2>2, <2>3, <2>4 DEF Pool
    <2> QED
      BY <2>5 DEF found
  <1>11. adds' \in Nat
    BY <1>2, <1>3
  <1>12. /\ piece.region = x /\ piece.start = at /\ piece.size = size
         /\ piece.id = adds + 1
    OBVIOUS
  <1>13. \A i \in 0 .. MaxSize - 1 :
            bytes[i] = IF at <= i /\ i < at + size THEN adds + 1 ELSE r[x].byte[i]
    BY <1>5
  <1>14. pool' = [pool EXCEPT ![space[t]] = q]
    BY <1>2
  <1>15. region' \in Seq(Region) /\ code' \in [Tid -> SUBSET Piece]
    BY <1>7, <1>9
  <1>16. q \in Pool /\ q.mutex = NoTid
    BY <1>10
  <1> HIDE DEF q, piece, bytes
  <1>17. DOMAIN region \subseteq DOMAIN region' /\ q.exec \in DOMAIN region'
    BY <1>1, <1>7, <1>10
  <1>18. /\ \A n \in Tid : n # m /\ Writer(n) => pool[n].exec # q.exec
         /\ q.owner_pid = pid[t]
    BY <1>1, <1>10
  <1>19. /\ TypeOK' /\ ProcessesAreApart' /\ OwnersAreStarted' /\ HoldersAdd'
         /\ OneWriter' /\ FindIsReentrant'
         /\ \A n \in Tid : pool'[n] = IF n = m THEN q ELSE pool[n]
         /\ \A n \in Tid : n # m => (Writer(n)' <=> Writer(n))
    BY <1>14, <1>15, <1>16, <1>11, <1>17, <1>18, AddEndsInv
  <1>20. \A n \in Tid : \A f \in code[n] :
            /\ f.start \in Nat /\ f.size \in Nat /\ f.region \in DOMAIN region
            /\ f.start + f.size <= region[f.region].size
            /\ \A i \in f.start .. f.start + f.size - 1 :
                region[f.region].byte[i] = f.id
    <2>1. \A n \in Tid : \A f \in code[n] : f \in Piece
      BY <1>3
    <2> QED
      BY <2>1, PieceType DEF IInv, CodeIsInRegions, CodeIsIntact
  <1>21. \A n \in Tid : \A f \in code'[n] :
            f = piece \/ \E k \in Tid : f \in code[k]
    BY <1>9
  <1>22. WritesBeyondCode'
    <2>1. ASSUME NEW n \in Tid, NEW k \in Tid, NEW f \in code'[k],
                 Writer(n)', f.region = pool'[n].exec
          PROVE  f.start + f.size <= pool'[n].current_address
      <3>1. CASE n = m /\ f = piece
        <4>1. pool'[n].current_address = at + size
          BY <1>10, <1>19, <3>1
        <4>2. f.start + f.size = at + size /\ at + size \in Nat
          BY <1>4, <1>12, <3>1
        <4> QED
          BY <4>1, <4>2
      <3>2. CASE n = m /\ f # piece
        <4>1. f.region = x /\ pool'[n].current_address = at + size
          BY <1>10, <1>19, <2>1, <3>2
        <4>2. f.start + f.size <= at /\ f.start \in Nat /\ f.size \in Nat
          BY <1>1, <1>20, <1>21, <3>2, <4>1
        <4> QED
          BY <1>4, <4>1, <4>2
      <3>3. CASE n # m /\ f = piece
        BY <1>1, <1>12, <1>19, <2>1, <3>3
      <3>4. CASE n # m /\ f # piece
        BY <1>19, <1>21, <2>1, <3>4 DEF IInv, WritesBeyondCode
      <3> QED
        BY <3>1, <3>2, <3>3, <3>4
    <2> QED
      BY <2>1 DEF WritesBeyondCode
  <1>23. CodeIsInRegions'
    BY <1>1, <1>7, <1>12, <1>20, <1>21 DEF CodeIsInRegions
  <1>24. CodeIsIntact'
    <2>1. ASSUME NEW n \in Tid, NEW f \in code'[n]
          PROVE  /\ f.start + f.size <= region'[f.region].size
                 /\ \A i \in f.start .. f.start + f.size - 1 :
                     region'[f.region].byte[i] = f.id
      <3>1. CASE f = piece
        <4>1. at + size <= MaxSize
          BY <1>4, <1>5, PoolAssumption
        <4>2. \A i \in at .. at + size - 1 : bytes[i] = adds + 1
          BY <1>4, <1>13, <4>1, PoolAssumption
        <4> QED
          BY <1>5, <1>7, <1>12, <3>1, <4>2
      <3>2. CASE f # piece
        <4>1. PICK k \in Tid : f \in code[k]
          BY <1>21, <3>2
        <4>2. CASE f.region # x
          <5>1. f.region \in DOMAIN region
            BY <1>20, <4>1
          <5>2. region'[f.region] = region[f.region]
            BY <1>1, <1>7, <4>2, <5>1
          <5> QED
            BY <1>20, <4>1, <5>2
        <4>3. CASE f.region = x
          <5>1. r[x] = region[x] /\ region'[x].size = r[x].size
            BY <1>1, <1>7, <1>20, <4>1, <4>3
          <5>2. f.start + f.size <= at /\ f.start \in Nat /\ f.size \in Nat
            BY <1>1, <1>20, <4>1, <4>3
          <5>3. \A i \in f.start .. f.start + f.size - 1 :
                    bytes[i] = r[x].byte[i]
            <6>1. at <= MaxSize - 1 /\ MaxSize \in Nat
              BY <1>4, <1>5, PoolAssumption
            <6>2. at \in Nat
              BY <1>4
            <6>3. ASSUME NEW i \in f.start .. f.start + f.size - 1
                  PROVE  i \in 0 .. MaxSize - 1 /\ ~(at <= i)
              BY <5>2, <6>1, <6>2
            <6> QED
              BY <1>13, <6>3
          <5>4. region'[x].byte = bytes
            BY <1>7
          <5>5. /\ f.start + f.size <= region[x].size
                /\ \A i \in f.start .. f.start + f.size - 1 :
                    region[x].byte[i] = f.id
            BY <1>20, <4>1, <4>3
          <5> QED
            BY <4>3, <5>1, <5>3, <5>4, <5>5
        <4> QED
          BY <4>2, <4>3
      <3> QED
        BY <3>1, <3>2
    <2> QED
      BY <2>1 DEF CodeIsIntact
  <1>25. RecoveryIsKept'
    <2>1. ASSUME NEW n \in Tid, NEW f \in code'[n]
          PROVE  <<f.region, f.start>> \in pool'[n].recovery_map
      <3>1. CASE n = m
        <4>1. pool'[n].recovery_map = pool[n].recovery_map \cup {<<x, at>>}
          BY <1>1, <1>10, <1>19, <3>1
        <4>2. f \in code[n] \/ f = piece
          BY <1>9, <3>1
        <4> QED
          BY <1>12, <4>1, <4>2 DEF IInv, RecoveryIsKept
      <3>2. CASE n # m
        BY <1>9, <1>19, <3>2 DEF IInv, RecoveryIsKept
      <3> QED
        BY <3>1, <3>2
    <2> QED
      BY <2>1 DEF RecoveryIsKept
  <1> QED
    BY <1>19, <1>22, <1>23, <1>24, <1>25 DEF IInv

(* Add installs its piece in the region it has or in a new one.              *)
LEMMA AddInv ==
    ASSUME IInv, NEW t \in Tid, NEW size \in InstallSize, Add(t, size)
    PROVE  IInv'
  <1> DEFINE p == OwnPool(t)
             r == OwnRegions(t)
             n == Larger(size, kExecRegionSize)
             more == Append(r, NewRegion(n))
             q == Reset(p, Len(more))
  <1>1. /\ step[t] = "add" /\ step' = [step EXCEPT ![t] = "run"]
        /\ UNCHANGED <<space, pid>>
        /\ \/ Fits(p, r, size) /\ Install(t, p, r, size)
           \/ ~Fits(p, r, size) /\ Install(t, q, more, size)
    BY DEF Add
  <1>2. Ready(t, p, r)
    BY <1>1, OwnPoolIsReady
  <1>3. CASE Fits(p, r, size) /\ Install(t, p, r, size)
    BY <1>1, <1>2, <1>3, InstallInv
  <1>4. CASE Install(t, q, more, size)
    <2>1. /\ p \in Pool /\ r \in Seq(Region)
          /\ \A i \in DOMAIN region : i \in DOMAIN r /\ r[i] = region[i]
          /\ p.owner_pid = pid[t] /\ p.recovery_map = pool[space[t]].recovery_map
      BY <1>2 DEF Ready
    <2>2. n \in 1 .. MaxSize /\ size <= n /\ size \in Nat
      BY PoolAssumption DEF Larger
    <2>3. /\ Len(more) = Len(r) + 1 /\ Len(r) + 1 \in Nat
          /\ more[Len(r) + 1].size = n
      <3>1. NewRegion(n) \in Region /\ NewRegion(n).size = n
        BY <2>2, NewRegionType
      <3> HIDE DEF n
      <3> QED
        BY <2>1, <3>1, AppendRegion
    <2>4. /\ q \in Pool /\ q.current_address = 0 /\ q.exec = Len(r) + 1
          /\ q.owner_pid = p.owner_pid /\ q.recovery_map = p.recovery_map
      BY <2>1, <2>3 DEF Reset, Pool
    <2>5. Ready(t, q, more)
      BY <2>1, <2>2, <2>4, NewRegionIsReady
    <2>6. Fits(q, more, size)
      <3>1. more[q.exec].size = n /\ q.current_address + size = size
        BY <2>2, <2>3, <2>4
      <3> QED
        BY <2>2, <3>1 DEF Fits
    <2> QED
      BY <1>1, <1>4, <2>5, <2>6, InstallInv
  <1> QED
    BY <1>1, <1>3, <1>4
-----------------------------------------------------------------------------

(* Every step of every thread keeps the invariant.                           *)
LEMMA StepInv == IInv /\ [Next]_vars => IInv'
  <1> SUFFICES ASSUME IInv, [Next]_vars PROVE IInv'
    OBVIOUS
  <1>1. CASE UNCHANGED vars
    <2>1. UNCHANGED <<space, pid, step, pool, region, code, adds>>
      BY <1>1 DEF vars
    <2>2. TypeOK' /\ ProcessesAreApart' /\ OwnersAreStarted' /\ HoldersAdd'
      BY <2>1 DEF IInv, TypeOK, ProcessesAreApart, OwnersAreStarted, HoldersAdd,
                  Started
    <2>3. OneWriter' /\ WritesBeyondCode' /\ CodeIsInRegions'
      BY <2>1 DEF IInv, OneWriter, WritesBeyondCode, CodeIsInRegions, Writer
    <2>4. CodeIsIntact' /\ RecoveryIsKept' /\ FindIsReentrant'
      BY <2>1 DEF IInv, CodeIsIntact, RecoveryIsKept, FindIsReentrant
    <2> QED
      BY <2>2, <2>3, <2>4 DEF IInv
  <1>2. ASSUME NEW t \in Tid, BeginAdd(t)
        PROVE  IInv'
    BY <1>2, BeginAddInv
  <1>3. ASSUME NEW t \in Tid, Fault(t) \/ FindRecoveryCode(t)
        PROVE  IInv'
    BY <1>3, FaultInv
  <1>4. ASSUME NEW t \in Tid, ResetExecRegion(t)
        PROVE  IInv'
    BY <1>4, ResetExecRegionInv
  <1>5. ASSUME NEW t \in Tid, NEW size \in InstallSize,
               Add(t, size) \/ AddFails(t, size)
        PROVE  IInv'
    BY <1>5, AddInv, AddFailsInv
  <1>6. ASSUME NEW t \in Tid, NEW c \in Tid, NEW p \in Tid, Share(t, c, p)
        PROVE  IInv'
    BY <1>6, ShareInv
  <1>7. ASSUME NEW t \in Tid, NEW c \in Tid, NEW first \in {"run", "forked"},
               Copy(t, c, first)
        PROVE  IInv'
    BY <1>7, CopyInv
  <1> QED
    BY <1>1, <1>2, <1>3, <1>4, <1>5, <1>6, <1>7 DEF Next

(* The invariant of all pools, of any number of threads and processes.       *)
THEOREM Invariance == Spec => []IInv
  BY InitInv, StepInv, PTL DEF Spec

(* Code stays as CodePool::Add installed it, whatever the processes that     *)
(* share the memfd of its region install later: for any number of forks and  *)
(* threads, any size of the regions and of the pieces, any alignment.        *)
THEOREM CodeStaysIntact == Spec => []CodeIsIntact
  <1>1. IInv => CodeIsIntact
    BY DEF IInv
  <1> QED
    BY <1>1, Invariance, PTL

(* Every piece of code a process may run keeps its entry in recovery_map_,   *)
(* across Reset of the region and across forks.                              *)
THEOREM RecoveryStays == Spec => []RecoveryIsKept
  <1>1. IInv => RecoveryIsKept
    BY DEF IInv
  <1> QED
    BY <1>1, Invariance, PTL

(* The lookup of recovery code by a signal handler never waits for a mutex   *)
(* that the interrupted thread holds.                                        *)
THEOREM FindReenters == Spec => []FindIsReentrant
  <1>1. IInv => FindIsReentrant
    BY DEF IInv
  <1> QED
    BY <1>1, Invariance, PTL
=============================================================================
