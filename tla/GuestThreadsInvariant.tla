----------------------- MODULE GuestThreadsInvariant ------------------------
(***************************************************************************)
(* The properties of GuestThreads, for any number of threads, processes    *)
(* and interruptions.                                                      *)
(*                                                                         *)
(* What a thread is doing (at, saved) determines whether the table has an  *)
(* entry for it and which object it uses (Fits), and an entry for a thread *)
(* is changed by that thread alone: a fork makes a table for an address    *)
(* space in which nobody but the child lives (Alone).  An object named     *)
(* after a thread that lives in an address space is used by no other       *)
(* thread of it (NamesAreOwn), so that what one thread destroys no other   *)
(* thread finds in the table.                                              *)
(***************************************************************************)
EXTENDS GuestThreads, TLAPS

Entry(t) == table[space[t]][t]

(* Nothing refers to a thread that was not started yet. *)
Unused(c) ==
    /\ saved[c] = NoPlace /\ ~owns[c] /\ ~key[c]
    /\ kind[c] = "host" /\ creator[c] = NoTid
    /\ \A m \in Tid : c \notin heap[m] /\ mutex[m] # c /\ table[m][c] = NoTid
    /\ \A m, u \in Tid : table[m][u] # c
    /\ \A t \in Tid : mine[t] # c /\ creator[t] # c

Fresh == \A c \in Tid : at[c] = NoPlace => Unused(c)

(* An address space is named after a thread that was started. *)
Spaces ==
    \A t \in Tid :
        /\ Started(t) <=> at[t] \notin {NoPlace, "refused"}
        /\ Started(t) => Started(space[t])

(* The child of a fork is the only thread of its address space until it has  *)
(* reset the table.                                                          *)
Alone ==
    \A c \in Tid : at[c] = "forked" =>
        space[c] = c /\ \A u \in Tid : space[u] = c => u = c

(* An object with the name of a thread of the address space is found by that *)
(* thread only.                                                              *)
NamesAreOwn ==
    \A t, u \in Tid : Started(t) /\ table[space[t]][u] = t => u = t

Starting(c) == at[c] \in {"born", "post"} \/ saved[c] = "post"

(* A thread that waits for the start of another has one to wait for, and is  *)
(* where the other will look for it.                                         *)
Creating ==
    /\ \A t \in Tid : at[t] = "create" => \E c \in Tid : creator[c] = t
    /\ \A c \in Tid : Starting(c) <=> creator[c] # NoTid
    /\ \A c \in Tid : creator[c] # NoTid =>
          at[creator[c]] = "create" /\ space[creator[c]] = space[c]
    /\ \A c, d \in Tid : creator[c] # NoTid /\ creator[c] = creator[d] => c = d
-----------------------------------------------------------------------------
(* What holds of each thread, by what it is doing. *)

(* What a handler may do depends on what it interrupted: one that attached   *)
(* the thread itself has interrupted code that needs no object.              *)
HandlerFits(t) ==
    /\ saved[t] = NoPlace => ~owns[t] /\ at[t] \notin {"handler", "stuck"}
    /\ saved[t] # NoPlace =>
          at[t] \in {"attach", "insert", "handler", "detach", "destroy", "stuck"}
    /\ saved[t] # NoPlace /\ at[t] \in {"insert", "detach", "destroy"} => owns[t]
    /\ owns[t] => /\ at[t] \in {"insert", "handler", "detach", "destroy"}
                  /\ saved[t] \in {"host", "dying"}
    /\ at[t] = "stuck" => saved[t] = "flush"

UsesObject(t) ==
    \/ at[t] \in {"guest", "flush", "post", "create", "exit"}
    \/ saved[t] \in {"guest", "flush", "post"}

(* The entry of the thread and the object it uses. *)
ObjectFits(t) ==
    /\ UsesObject(t) => Entry(t) # NoTid /\ mine[t] = Entry(t)
    /\ at[t] \in {"insert", "born"} =>
          Entry(t) = NoTid /\ mine[t] = t /\ t \in heap[space[t]]
    /\ at[t] = "forked" => Entry(t) = NoTid /\ mine[t] \in heap[space[t]]
    /\ at[t] = "detach" \/ (at[t] = "handler" /\ owns[t]) => Entry(t) # NoTid
    /\ at[t] \in {"destroy", "exiting", "dead"} => Entry(t) = NoTid
    /\ t \in heap[space[t]] => Entry(t) = t \/ Between(t)

(* An object that was taken out of the table is referred to by nobody else,  *)
(* and is the one with the name of the thread if there is one.               *)
PartedFits(t) ==
    at[t] \in {"destroy", "exiting"} =>
        /\ mine[t] \in Tid
        /\ \A u \in Tid : table[space[t]][u] # mine[t]
        /\ mine[t] # t => space[mine[t]] # space[t]
        /\ t \in heap[space[t]] => mine[t] = t

AtHost(t) ==
    at[t] = "host" \/ saved[t] = "host" \/ (saved[t] = NoPlace /\ at[t] = "attach")

(* The destructor of the key runs if and only if there is an entry to be     *)
(* removed; the child of a fork of the host, which ends by exit, may have    *)
(* the key without the entry.                                                *)
KeyFits(t) ==
    /\ AtHost(t) => /\ kind[t] = "host"
                    /\ ~owns[t] /\ Entry(t) # NoTid => key[t]
                    /\ key[t] => pid[t] = t \/ (~owns[t] /\ Entry(t) # NoTid)
    /\ saved[t] = NoPlace /\ at[t] = "insert" => kind[t] = "host"
    /\ at[t] = "born" => kind[t] # "host"
    /\ at[t] = "dying" \/ saved[t] = "dying" =>
          (key[t] <=> ~owns[t] /\ Entry(t) # NoTid)
    /\ saved[t] = NoPlace /\ at[t] \in {"detach", "destroy"} => ~key[t]
    /\ UsesObject(t) \/ at[t] = "forked" => (kind[t] # "clone" => key[t])

(* A thread holds the mutex only while it uses the table. *)
HoldFits(t) == Holds(t) => at[t] \in TableOps \cup {"stuck"}

Fits(t) ==
    HandlerFits(t) /\ ObjectFits(t) /\ PartedFits(t) /\ KeyFits(t) /\ HoldFits(t)

IInv ==
    /\ TypeOK
    /\ Fresh /\ Spaces /\ Alone /\ NamesAreOwn /\ Creating
    /\ TableIsLive
    /\ \A t \in Tid : Started(t) => Fits(t)
-----------------------------------------------------------------------------

USE DEF NoTid, NoPlace, procs, Started, Table, Holds, Goto, Release, Entry

(* A thread that is somewhere has an address space. *)
There(t) ==
    /\ Started(t) /\ space[t] \in Tid /\ Fits(t)
    /\ table[space[t]] \in [Tid -> Tid \cup {NoTid}]
    /\ Entry(t) \in Tid \cup {NoTid}
    /\ Entry(t) # NoTid => Entry(t) \in heap[space[t]]
    /\ heap[space[t]] \subseteq Tid
    /\ mutex[space[t]] \in Tid \cup {NoTid}

USE DEF There

LEMMA FitsThere ==
  ASSUME IInv, NEW t \in Tid, at[t] \notin {NoPlace, "refused"}
  PROVE  There(t)
<1>1. Started(t) /\ Fits(t) /\ space[t] \in Tid
  BY DEF IInv, TypeOK, Spaces
<1>2. /\ table[space[t]] \in [Tid -> Tid \cup {NoTid}]
      /\ heap[space[t]] \in SUBSET Tid /\ mutex[space[t]] \in Tid \cup {NoTid}
  BY <1>1 DEF IInv, TypeOK
<1>3. Entry(t) # NoTid => Entry(t) \in heap[space[t]]
  BY <1>1 DEF IInv, TableIsLive
<1> QED BY <1>1, <1>2, <1>3

(* The thread t acts, and nobody starts or is waited for: only its own entry *)
(* changes, and the heap only by an object with its name and by the one it   *)
(* has taken out of the table.                                               *)
Acts(t) ==
    /\ at[t] \notin {NoPlace, "refused"} /\ at'[t] \notin {NoPlace, "refused"}
    /\ at'[t] = "forked" => at[t] = "forked"
    /\ at'[t] = "create" <=> at[t] = "create"
    /\ Starting(t)' <=> Starting(t)
    /\ UNCHANGED <<space, pid, kind, creator>>
    /\ \A u \in Tid \ {t} :
          /\ at'[u] = at[u] /\ mine'[u] = mine[u] /\ key'[u] = key[u]
          /\ saved'[u] = saved[u] /\ owns'[u] = owns[u]
    /\ mine'[t] \in {mine[t], NoTid, Entry(t), t}
    /\ \A m \in Tid : mutex'[m] \in {mutex[m], NoTid, t}
    /\ \A m, u \in Tid : m # space[t] \/ u # t => table'[m][u] = table[m][u]
    /\ Entry(t)' \in {Entry(t), NoTid, t}
    /\ Entry(t)' # NoTid => Entry(t)' \in heap'[space[t]]
    /\ \A m \in Tid :
          /\ \A x \in heap'[m] : x \in heap[m] \/ (m = space[t] /\ x = t)
          /\ \A x \in heap[m] \ heap'[m] :
                m = space[t] /\ x = mine[t] /\ at[t] \in {"destroy", "exiting"}

(* Then it is enough to look at that thread. *)
LEMMA OneThread ==
  ASSUME IInv, TypeOK', NEW t \in Tid, Acts(t), HandlerFits(t)', HoldFits(t)',
         ObjectFits(t)', PartedFits(t)', KeyFits(t)'
  PROVE  IInv'
<1> TypeOK /\ Fresh /\ Spaces /\ Alone /\ NamesAreOwn /\ Creating /\ TableIsLive
  BY DEF IInv
<1> /\ Started(t) /\ space[t] \in Tid /\ PartedFits(t)
    /\ Entry(t) \in Tid \cup {NoTid}
  BY FitsThere DEF Acts, Fits
<1>3. Fresh'
  BY DEF Acts, Fresh, Unused
<1>4. Spaces'
  BY DEF Acts, Spaces
<1>5. Alone'
  BY DEF Acts, Alone
<1>6. NamesAreOwn'
  <2> SUFFICES ASSUME NEW x \in Tid, NEW u \in Tid, space[x] # NoTid,
                      table'[space[x]][u] = x
               PROVE  u = x
    BY DEF Acts, NamesAreOwn
  <2>1. space[x] \in Tid
    BY DEF TypeOK
  <2>2. CASE space[x] # space[t] \/ u # t
    BY <2>1, <2>2 DEF Acts, NamesAreOwn
  <2>3. CASE space[x] = space[t] /\ u = t
    <3>1. x \in {Entry(t), t}
      BY <2>3, ThreadAssumption DEF Acts
    <3> QED BY <2>3, <3>1 DEF NamesAreOwn
  <2> QED BY <2>2, <2>3
<1>7. Creating'
  <2>1. \A u \in Tid : Starting(u)' <=> Starting(u)
    BY DEF Acts, Starting
  <2>2. \A u \in Tid : at'[u] = "create" <=> at[u] = "create"
    BY DEF Acts
  <2> QED BY <2>1, <2>2 DEF Acts, Creating, TypeOK
<1>8. TableIsLive'
  <2> SUFFICES ASSUME NEW m \in Tid, NEW u \in Tid, table'[m][u] # NoTid
               PROVE  /\ table'[m][u] \in heap'[m]
                      /\ \A v \in Tid \ {u} : table'[m][v] # table'[m][u]
    BY DEF TableIsLive
  <2>1. CASE m # space[t]
    BY <2>1 DEF Acts, TableIsLive
  <2>2. CASE m = space[t] /\ u = t
    <3>1. table'[m][u] \in {Entry(t), t} /\ table'[m][u] \in heap'[m]
      BY <2>2 DEF Acts
    <3>2. ASSUME NEW v \in Tid \ {u} PROVE table'[m][v] # table'[m][u]
      BY <2>2, <3>1 DEF Acts, TableIsLive, NamesAreOwn
    <3> QED BY <3>1, <3>2
  <2>3. CASE m = space[t] /\ u # t
    <3>1. table'[m][u] = table[m][u] /\ table[m][u] \in heap[m]
      BY <2>3 DEF Acts, TableIsLive
    <3>2. table'[m][u] \in heap'[m]
      BY <2>3, <3>1 DEF Acts, PartedFits
    <3>3. ASSUME NEW v \in Tid \ {u} PROVE table'[m][v] # table'[m][u]
      BY <2>3, <3>1 DEF Acts, TableIsLive, NamesAreOwn
    <3> QED BY <3>2, <3>3
  <2> QED BY <2>1, <2>2, <2>3
<1>9. ASSUME NEW u \in Tid \ {t}, Started(u) PROVE Fits(u)'
  <2>1. Fits(u) /\ at[u] \notin {NoPlace, "refused"} /\ space[u] \in Tid
    BY <1>9 DEF IInv, Spaces, TypeOK
  <2>2. Entry(u)' = Entry(u) /\ (u \in heap'[space[u]] => u \in heap[space[u]])
    BY <2>1 DEF Acts
  <2>3. HandlerFits(u)'
    BY <2>1 DEF Acts, Fits, HandlerFits
  <2>4. ObjectFits(u)'
    <3>1. at[u] \in {"insert", "born"} /\ u \in heap[space[u]] => u \in heap'[space[u]]
      BY <2>1 DEF Acts, PartedFits
    <3>2. at[u] = "forked" /\ mine[u] \in heap[space[u]] => mine[u] \in heap'[space[u]]
      <4>1. at[u] = "forked" => space[u] # space[t]
        BY DEF Alone
      <4> QED BY <2>1, <4>1 DEF Acts
    <3> QED BY <2>1, <2>2, <3>1, <3>2 DEF Acts, Fits, ObjectFits, UsesObject, Between
  <2>5. PartedFits(u)'
    <3> SUFFICES ASSUME at[u] \in {"destroy", "exiting"}
                 PROVE  /\ mine[u] \in Tid
                        /\ \A x \in Tid : table'[space[u]][x] # mine[u]
                        /\ mine[u] # u => space[mine[u]] # space[u]
                        /\ u \in heap'[space[u]] => mine[u] = u
      BY DEF Acts, PartedFits
    <3>1. /\ mine[u] \in Tid
          /\ \A x \in Tid : table[space[u]][x] # mine[u]
          /\ mine[u] # u => space[mine[u]] # space[u]
          /\ u \in heap[space[u]] => mine[u] = u
      BY <2>1 DEF Fits, PartedFits
    <3>2. space[u] = space[t] => mine[u] \notin {Entry(t), NoTid, t}
      BY <3>1, ThreadAssumption
    <3>3. \A x \in Tid : table'[space[u]][x] # mine[u]
      BY <2>1, <3>1, <3>2 DEF Acts
    <3> QED BY <2>2, <3>1, <3>3
  <2>6. KeyFits(u)'
    BY Zenon, <2>1, <2>2 DEF Acts, Fits, KeyFits, AtHost, UsesObject
  <2>7. HoldFits(u)'
    <3>1. mutex'[space[u]] = u => mutex[space[u]] = u
      BY <2>1, ThreadAssumption DEF Acts
    <3> QED BY <2>1, <3>1 DEF Acts, Fits, HoldFits
  <2> QED BY <2>3, <2>4, <2>5, <2>6, <2>7 DEF Fits
<1> QED BY <1>3, <1>4, <1>5, <1>6, <1>7, <1>8, <1>9 DEF IInv, Acts, Fits
-----------------------------------------------------------------------------

(* Steps that only take the thread to another place. *)
LEMMA MoveKeeps ==
  ASSUME IInv, TypeOK, NEW t \in Tid, There(t),
         CallGuest(t) \/ ReturnFromHost(t) \/ ExitSyscall(t)
           \/ BeginFlush(t) \/ Exec(t) \/ Die(t)
  PROVE  IInv'
<1> saved[t] = NoPlace /\ (at[t] = "dying" /\ ~key[t] => Entry(t) = NoTid)
  BY DEF CallGuest, ReturnFromHost, ExitSyscall, BeginFlush, Exec, Die,
    Fits, HandlerFits, KeyFits
<1>1. TypeOK'
  BY ThreadAssumption DEF CallGuest, ReturnFromHost, ExitSyscall, BeginFlush,
    Exec, Die, TypeOK, Place, TableOps
<1>2. Acts(t)
  BY DEF CallGuest, ReturnFromHost, ExitSyscall, BeginFlush, Exec, Die, Acts,
    Starting, TypeOK
<1>3. HandlerFits(t)' /\ HoldFits(t)'
  BY ThreadAssumption DEF CallGuest, ReturnFromHost, ExitSyscall, BeginFlush,
    Exec, Die, TypeOK, Fits, HandlerFits, HoldFits, TableOps
<1>4. ObjectFits(t)' /\ PartedFits(t)'
  BY ThreadAssumption DEF CallGuest, ReturnFromHost, ExitSyscall, BeginFlush,
    Exec, Die, TypeOK, Fits, HandlerFits, ObjectFits, PartedFits, UsesObject,
    Between
<1>5. KeyFits(t)'
  BY ThreadAssumption DEF CallGuest, ReturnFromHost, ExitSyscall, BeginFlush,
    Exec, Die, TypeOK, Fits, HandlerFits, ObjectFits, KeyFits, AtHost,
    UsesObject
<1> QED BY <1>1, <1>2, <1>3, <1>4, <1>5, OneThread

(* Taking the mutex, where the table is used. *)
LEMMA LockKeeps ==
  ASSUME IInv, TypeOK, NEW t \in Tid, There(t), Lock(t)
  PROVE  IInv'
<1>1. TypeOK'
  BY ThreadAssumption DEF Lock, TableOps, TypeOK, Place, TableOps
<1>2. Acts(t)
  BY DEF Lock, TableOps, Acts, Starting, TypeOK
<1>3. HandlerFits(t)' /\ HoldFits(t)'
  BY ThreadAssumption DEF Lock, TableOps, TypeOK, Fits, HandlerFits, HoldFits,
    TableOps
<1>4. ObjectFits(t)' /\ PartedFits(t)'
  BY ThreadAssumption DEF Lock, TableOps, TypeOK, Fits, HandlerFits,
    ObjectFits, PartedFits, UsesObject, Between
<1>5. KeyFits(t)'
  BY ThreadAssumption DEF Lock, TableOps, TypeOK, Fits, HandlerFits,
    ObjectFits, KeyFits, AtHost, UsesObject
<1> QED BY <1>1, <1>2, <1>3, <1>4, <1>5, OneThread

(* A thread that holds the mutex with signals unblocked is in the flush. *)
LEMMA InterruptKeeps ==
  ASSUME IInv, TypeOK, NEW t \in Tid, There(t), Interrupt(t)
  PROVE  IInv'
<1> at[t] \in {"host", "guest", "flush", "post", "dying"}
  BY DEF Interrupt, Alive, Blocked, TypeOK, Place, TableOps, Fits,
    HandlerFits
<1>1. TypeOK'
  BY ThreadAssumption DEF Interrupt, Alive, TypeOK, Place, TableOps
<1>2. Acts(t)
  BY DEF Interrupt, Alive, Acts, Starting, TypeOK
<1>3. HandlerFits(t)' /\ HoldFits(t)'
  BY ThreadAssumption DEF Interrupt, Alive, TypeOK, Fits, HandlerFits,
    HoldFits, TableOps
<1>4. ObjectFits(t)' /\ PartedFits(t)'
  BY ThreadAssumption DEF Interrupt, Alive, TypeOK, Fits, HandlerFits,
    ObjectFits, PartedFits, UsesObject, Between
<1>5. KeyFits(t)'
  BY ThreadAssumption DEF Interrupt, Alive, TypeOK, Fits, HandlerFits,
    ObjectFits, KeyFits, AtHost, UsesObject
<1> QED BY <1>1, <1>2, <1>3, <1>4, <1>5, OneThread

(* The thread goes on with the object of its entry. *)
LEMMA AttachFoundKeeps ==
  ASSUME IInv, TypeOK, NEW t \in Tid, There(t), AttachFound(t)
  PROVE  IInv'
<1>1. TypeOK'
  BY ThreadAssumption DEF AttachFound, TypeOK, Place, TableOps
<1>2. Acts(t)
  BY DEF AttachFound, Acts, Starting, TypeOK
<1>3. HandlerFits(t)' /\ HoldFits(t)'
  BY ThreadAssumption DEF AttachFound, TypeOK, Fits, HandlerFits, HoldFits,
    TableOps
<1>4. ObjectFits(t)' /\ PartedFits(t)'
  BY ThreadAssumption DEF AttachFound, TypeOK, Fits, HandlerFits, ObjectFits,
    PartedFits, UsesObject, Between
<1>5. KeyFits(t)'
  BY ThreadAssumption DEF AttachFound, TypeOK, Fits, HandlerFits, ObjectFits,
    KeyFits, AtHost, UsesObject
<1> QED BY <1>1, <1>2, <1>3, <1>4, <1>5, OneThread

(* Without an entry, nothing of the thread needs the object. *)
LEMMA AttachNewKeeps ==
  ASSUME IInv, TypeOK, NEW t \in Tid, There(t), AttachNew(t)
  PROVE  IInv'
<1> saved[t] \in {NoPlace, "host", "dying"}
  BY DEF AttachNew, TypeOK, Fits, ObjectFits, UsesObject
<1>1. TypeOK'
  BY ThreadAssumption DEF AttachNew, TypeOK, Place, TableOps
<1>2. Acts(t)
  BY DEF AttachNew, Acts, Starting, TypeOK
<1>3. HandlerFits(t)' /\ HoldFits(t)'
  <2>1. at'[t] = "insert" /\ saved'[t] = saved[t] /\ (owns'[t] <=> saved[t] # NoPlace)
    BY Zenon DEF AttachNew, TypeOK
  <2> QED BY <2>1 DEF HandlerFits, HoldFits, TableOps
<1>4. ObjectFits(t)' /\ PartedFits(t)'
  BY ThreadAssumption DEF AttachNew, TypeOK, Fits, HandlerFits, ObjectFits,
    PartedFits, UsesObject, Between
<1>5. KeyFits(t)'
  BY ThreadAssumption DEF AttachNew, TypeOK, Fits, HandlerFits, ObjectFits,
    KeyFits, AtHost, UsesObject
<1> QED BY <1>1, <1>2, <1>3, <1>4, <1>5, OneThread

(* The new entry is named after the thread, hence nobody else's. *)
LEMMA AttachInsertKeeps ==
  ASSUME IInv, TypeOK, NEW t \in Tid, There(t), AttachInsert(t)
  PROVE  IInv'
<1> mine[t] = t /\ Entry(t) = NoTid /\ t \in heap[space[t]]
  BY DEF AttachInsert, Fits, ObjectFits
<1> IF owns[t] THEN saved[t] \in {"host", "dying"} ELSE saved[t] = NoPlace
  BY DEF AttachInsert, Fits, HandlerFits
<1> table'[space[t]] = [table[space[t]] EXCEPT ![t] = t]
  BY DEF AttachInsert, TypeOK
<1>1. TypeOK'
  BY ThreadAssumption DEF AttachInsert, TypeOK, Place, TableOps
<1>2. Acts(t)
  BY DEF AttachInsert, Acts, Starting, TypeOK
<1>3. HandlerFits(t)' /\ HoldFits(t)'
  BY ThreadAssumption DEF AttachInsert, TypeOK,
    Fits, HandlerFits, HoldFits, TableOps
<1>4. ObjectFits(t)' /\ PartedFits(t)'
  BY ThreadAssumption DEF AttachInsert,
    TypeOK, Fits, HandlerFits, ObjectFits, PartedFits, UsesObject, Between
<1>5. KeyFits(t)'
  <2>1. /\ at[t] = "insert" /\ at'[t] = IF owns[t] THEN "handler" ELSE "guest"
        /\ key'[t] <=> key[t] \/ ~owns[t]
        /\ UNCHANGED <<space, pid, kind, saved, owns>>
    BY Zenon DEF AttachInsert, TypeOK
  <2>2. Entry(t)' # NoTid
    BY Zenon, <2>1, ThreadAssumption
  <2>3. kind[t] \in Kind /\ key[t] \in BOOLEAN /\ owns[t] \in BOOLEAN
    BY DEF TypeOK
  <2>4. CASE owns[t]
    BY <2>1, <2>2, <2>4 DEF Fits, KeyFits, AtHost, UsesObject
  <2>5. CASE ~owns[t]
    BY <2>1, <2>2, <2>5 DEF Fits, KeyFits, AtHost, UsesObject
  <2> QED BY <2>4, <2>5
<1> QED BY Zenon, <1>1, <1>2, <1>3, <1>4, <1>5, OneThread

(* The handler goes back, or on to the detachment. *)
LEMMA HandlerReturnsKeeps ==
  ASSUME IInv, TypeOK, NEW t \in Tid, There(t), HandlerReturns(t)
  PROVE  IInv'
<1>1. TypeOK'
  <2>1. at' \in [Tid -> Place]
    BY DEF HandlerReturns, Leave, TypeOK, Place, TableOps
  <2>2. /\ owns' \in [Tid -> BOOLEAN]
        /\ saved' \in [Tid -> {NoPlace, "host", "guest", "flush", "post", "dying"}]
    BY Zenon DEF HandlerReturns, Leave, TypeOK
  <2>3. mine' \in [Tid -> Tid \cup {NoTid}]
    BY DEF HandlerReturns, TypeOK
  <2> QED BY <2>1, <2>2, <2>3 DEF HandlerReturns, TypeOK
<1>2. /\ at[t] = "handler" /\ mine'[t] \in {mine[t], NoTid}
      /\ saved[t] \in {"guest", "flush", "post"} => mine'[t] = mine[t]
      /\ UNCHANGED <<space, pid, kind, key, creator, table, mutex, heap>>
  BY DEF HandlerReturns, TypeOK
<1>3. \/ /\ ~owns[t] /\ at'[t] = saved[t] /\ saved'[t] = NoPlace /\ ~owns'[t]
      \/ /\ owns[t] /\ at'[t] = "detach" /\ saved'[t] = saved[t] /\ owns'[t]
  BY DEF HandlerReturns, Leave, TypeOK
<1>4. \A u \in Tid \ {t} : /\ at'[u] = at[u] /\ mine'[u] = mine[u]
                           /\ saved'[u] = saved[u] /\ owns'[u] = owns[u]
  BY DEF HandlerReturns, Leave, TypeOK
<1>5. HandlerFits(t) /\ ObjectFits(t) /\ KeyFits(t) /\ HoldFits(t)
  BY DEF Fits
<1>6. /\ saved[t] \in {"host", "guest", "flush", "post", "dying"}
      /\ owns[t] => saved[t] \in {"host", "dying"}
  BY <1>2, <1>5 DEF HandlerFits, TypeOK
<1>7. Acts(t)
  <2>1. Starting(t)' <=> Starting(t)
    BY Zenon, <1>2, <1>3, <1>6 DEF Starting
  <2> QED BY Zenon, <1>2, <1>3, <1>4, <1>6, <2>1 DEF Acts
<1>8. HandlerFits(t)' /\ HoldFits(t)' /\ PartedFits(t)'
  BY Zenon, <1>2, <1>3, <1>5, <1>6 DEF HandlerFits, HoldFits, PartedFits, TableOps
<1>9. ObjectFits(t)'
  BY Zenon, <1>2, <1>3, <1>5, <1>6 DEF ObjectFits, UsesObject, Between
<1>10. KeyFits(t)'
  BY <1>2, <1>3, <1>5, <1>6 DEF KeyFits, AtHost, UsesObject
<1> QED BY <1>1, <1>7, <1>8, <1>9, <1>10, OneThread

(* The object loses its only entry. *)
LEMMA DetachRemovesKeeps ==
  ASSUME IInv, TypeOK, NEW t \in Tid, There(t), DetachRemoves(t)
  PROVE  IInv'
<1> Entry(t) \in Tid
  BY DEF DetachRemoves, Fits, ObjectFits, UsesObject
<1> table'[space[t]] = [table[space[t]] EXCEPT ![t] = NoTid] /\ mine'[t] = Entry(t)
  BY DEF DetachRemoves, TypeOK
<1>1. TypeOK'
  BY ThreadAssumption DEF DetachRemoves, TypeOK, Place, TableOps
<1>2. Acts(t)
  BY DEF DetachRemoves, Acts, Starting, TypeOK
<1>3. HandlerFits(t)' /\ HoldFits(t)'
  BY ThreadAssumption DEF DetachRemoves, TypeOK, Fits,
    HandlerFits, HoldFits, TableOps
<1>4. ObjectFits(t)'
  BY ThreadAssumption DEF DetachRemoves, TypeOK, Fits,
    HandlerFits, ObjectFits, UsesObject, Between
<1>5. PartedFits(t)'
  <2>1. \A u \in Tid : table'[space[t]][u] # Entry(t)
    <3>1. \A u \in Tid \ {t} : table[space[t]][u] # Entry(t)
      BY Zenon, ThreadAssumption DEF IInv, TableIsLive
    <3> QED BY <3>1, ThreadAssumption
  <2>2. Entry(t) # t => space[Entry(t)] # space[t]
    BY DEF IInv, NamesAreOwn
  <2>3. t \in heap[space[t]] => Entry(t) = t
    BY DEF DetachRemoves, Fits, ObjectFits, Between
  <2> QED BY <2>1, <2>2, <2>3 DEF DetachRemoves, PartedFits
<1>6. KeyFits(t)'
  BY ThreadAssumption DEF DetachRemoves, TypeOK, Fits,
    HandlerFits, ObjectFits, KeyFits, AtHost, UsesObject
<1> QED BY <1>1, <1>2, <1>3, <1>4, <1>5, <1>6, OneThread

(* Nobody refers to the object that is destroyed. *)
LEMMA DestroyKeeps ==
  ASSUME IInv, TypeOK, NEW t \in Tid, There(t), Destroy(t)
  PROVE  IInv'
<1> /\ saved[t] \in {NoPlace, "host", "dying"} /\ Entry(t) = NoTid
      /\ at'[t] \in {"host", "dying"} /\ saved'[t] = NoPlace
  BY DEF Destroy, Leave, TypeOK, Fits, HandlerFits, ObjectFits
<1>1. TypeOK'
  <2>1. at' \in [Tid -> Place]
    BY DEF Destroy, Leave, TypeOK, Place, TableOps
  <2>2. /\ mine' \in [Tid -> Tid \cup {NoTid}] /\ owns' \in [Tid -> BOOLEAN]
        /\ saved' \in [Tid -> {NoPlace, "host", "guest", "flush", "post", "dying"}]
        /\ heap' \in [Tid -> SUBSET Tid]
    BY Zenon DEF Destroy, Leave, TypeOK
  <2> QED BY <2>1, <2>2 DEF Destroy, TypeOK
<1>2. Acts(t)
  BY DEF Destroy, Leave, Acts, Starting, TypeOK
<1>3. HandlerFits(t)' /\ HoldFits(t)'
  BY ThreadAssumption DEF Destroy, Leave, TypeOK, Fits, HandlerFits, HoldFits,
    TableOps
<1>4. ObjectFits(t)' /\ PartedFits(t)'
  BY ThreadAssumption DEF Destroy, Leave, TypeOK, Fits, HandlerFits,
    ObjectFits, PartedFits, UsesObject, Between
<1>5. KeyFits(t)'
  BY ThreadAssumption DEF Destroy, Leave, TypeOK, Fits, HandlerFits,
    ObjectFits, KeyFits, AtHost, UsesObject
<1> QED BY Zenon, <1>1, <1>2, <1>3, <1>4, <1>5, OneThread

(* Guest code of a thread with a key returns. *)
LEMMA ReturnFromGuestKeeps ==
  ASSUME IInv, TypeOK, NEW t \in Tid, There(t), ReturnFromGuest(t)
  PROVE  IInv'
<1>1. TypeOK'
  BY ThreadAssumption DEF ReturnFromGuest, TypeOK, Place, TableOps
<1>2. Acts(t)
  BY DEF ReturnFromGuest, Acts, Starting, TypeOK
<1>3. HandlerFits(t)' /\ HoldFits(t)'
  BY ThreadAssumption DEF ReturnFromGuest, TypeOK, Fits, HandlerFits,
    HoldFits, TableOps
<1>4. ObjectFits(t)' /\ PartedFits(t)'
  BY ThreadAssumption DEF ReturnFromGuest, TypeOK, Fits, HandlerFits,
    ObjectFits, PartedFits, UsesObject, Between
<1>5. KeyFits(t)'
  BY ThreadAssumption DEF ReturnFromGuest, TypeOK, Fits, HandlerFits,
    ObjectFits, KeyFits, AtHost, UsesObject
<1> QED BY <1>1, <1>2, <1>3, <1>4, <1>5, OneThread

(* The key says that there is an entry. *)
LEMMA RunDestructorKeeps ==
  ASSUME IInv, TypeOK, NEW t \in Tid, There(t), RunDestructor(t)
  PROVE  IInv'
<1> saved[t] = NoPlace /\ Entry(t) # NoTid
  BY Zenon DEF RunDestructor, Fits, HandlerFits, KeyFits
<1>1. TypeOK'
  BY ThreadAssumption DEF RunDestructor, TypeOK, Place, TableOps
<1>2. Acts(t)
  BY DEF RunDestructor, Acts, Starting, TypeOK
<1>3. HandlerFits(t)' /\ HoldFits(t)'
  BY ThreadAssumption DEF RunDestructor, TypeOK, Fits, HandlerFits, HoldFits,
    TableOps
<1>4. ObjectFits(t)' /\ PartedFits(t)'
  BY ThreadAssumption DEF RunDestructor, TypeOK, Fits, HandlerFits,
    ObjectFits, PartedFits, UsesObject, Between
<1>5. KeyFits(t)'
  BY ThreadAssumption DEF RunDestructor, TypeOK, Fits, HandlerFits,
    ObjectFits, KeyFits, AtHost, UsesObject
<1> QED BY Zenon, <1>1, <1>2, <1>3, <1>4, <1>5, OneThread

(* The object loses its only entry, on exit. *)
LEMMA ExitRemovesKeeps ==
  ASSUME IInv, TypeOK, NEW t \in Tid, There(t), ExitRemoves(t)
  PROVE  IInv'
<1> Entry(t) \in Tid
  BY DEF ExitRemoves, Fits, ObjectFits, UsesObject
<1> table'[space[t]] = [table[space[t]] EXCEPT ![t] = NoTid] /\ mine'[t] = Entry(t)
  BY DEF ExitRemoves, TypeOK
<1>1. TypeOK'
  BY ThreadAssumption DEF ExitRemoves, TypeOK, Place, TableOps
<1>2. Acts(t)
  BY DEF ExitRemoves, Acts, Starting, TypeOK
<1>3. HandlerFits(t)' /\ HoldFits(t)'
  BY ThreadAssumption DEF ExitRemoves, TypeOK, Fits,
    HandlerFits, HoldFits, TableOps
<1>4. ObjectFits(t)'
  BY ThreadAssumption DEF ExitRemoves, TypeOK, Fits,
    HandlerFits, ObjectFits, UsesObject, Between
<1>5. PartedFits(t)'
  <2>1. \A u \in Tid : table'[space[t]][u] # Entry(t)
    <3>1. \A u \in Tid \ {t} : table[space[t]][u] # Entry(t)
      BY Zenon, ThreadAssumption DEF IInv, TableIsLive
    <3> QED BY <3>1, ThreadAssumption
  <2>2. Entry(t) # t => space[Entry(t)] # space[t]
    BY DEF IInv, NamesAreOwn
  <2>3. t \in heap[space[t]] => Entry(t) = t
    BY DEF ExitRemoves, Fits, ObjectFits, Between
  <2> QED BY <2>1, <2>2, <2>3 DEF ExitRemoves, PartedFits
<1>6. KeyFits(t)'
  BY ThreadAssumption DEF ExitRemoves, TypeOK, Fits,
    HandlerFits, ObjectFits, KeyFits, AtHost, UsesObject
<1> QED BY <1>1, <1>2, <1>3, <1>4, <1>5, <1>6, OneThread

(* Nobody refers to the object that is destroyed on exit. *)
LEMMA ExitKeeps ==
  ASSUME IInv, TypeOK, NEW t \in Tid, There(t), Exit(t)
  PROVE  IInv'
<1> Entry(t) = NoTid
  BY Zenon DEF Exit, Fits, ObjectFits
<1>1. TypeOK'
  BY ThreadAssumption DEF Exit, TypeOK, Place, TableOps
<1>2. Acts(t)
  BY DEF Exit, Acts, Starting, TypeOK
<1>3. HandlerFits(t)' /\ HoldFits(t)'
  BY ThreadAssumption DEF Exit, TypeOK, Fits, HandlerFits, HoldFits, TableOps
<1>4. ObjectFits(t)' /\ PartedFits(t)'
  BY ThreadAssumption DEF Exit, TypeOK, Fits, HandlerFits, ObjectFits,
    PartedFits, UsesObject, Between
<1>5. KeyFits(t)'
  BY ThreadAssumption DEF Exit, TypeOK, Fits, HandlerFits, ObjectFits,
    KeyFits, AtHost, UsesObject
<1> QED BY Zenon, <1>1, <1>2, <1>3, <1>4, <1>5, OneThread

(* The flush ends. *)
LEMMA FlushKeeps ==
  ASSUME IInv, TypeOK, NEW t \in Tid, There(t), Flush(t)
  PROVE  IInv'
<1>1. TypeOK'
  BY ThreadAssumption DEF Flush, TypeOK, Place, TableOps
<1>2. Acts(t)
  BY DEF Flush, Acts, Starting, TypeOK
<1>3. HandlerFits(t)' /\ HoldFits(t)'
  BY ThreadAssumption DEF Flush, TypeOK, Fits, HandlerFits, HoldFits, TableOps
<1>4. ObjectFits(t)' /\ PartedFits(t)'
  BY ThreadAssumption DEF Flush, TypeOK, Fits, HandlerFits, ObjectFits,
    PartedFits, UsesObject, Between
<1>5. KeyFits(t)'
  BY ThreadAssumption DEF Flush, TypeOK, Fits, HandlerFits, ObjectFits,
    KeyFits, AtHost, UsesObject
<1> QED BY <1>1, <1>2, <1>3, <1>4, <1>5, OneThread

(* A new thread inserts itself; a pthread gets the key. *)
LEMMA InsertNewKeeps ==
  ASSUME IInv, TypeOK, NEW t \in Tid, There(t), InsertNew(t)
  PROVE  IInv'
<1> mine[t] = t /\ Entry(t) = NoTid /\ t \in heap[space[t]]
  BY DEF InsertNew, Fits, ObjectFits
<1> table'[space[t]] = [table[space[t]] EXCEPT ![t] = t]
  BY DEF InsertNew, TypeOK
<1>1. TypeOK'
  BY ThreadAssumption DEF InsertNew, Kind, TypeOK, Place, TableOps
<1>2. Acts(t)
  BY DEF InsertNew, Kind, Acts, Starting, TypeOK
<1>3. HandlerFits(t)' /\ HoldFits(t)'
  BY ThreadAssumption DEF InsertNew, TypeOK, Fits,
    HandlerFits, HoldFits, TableOps
<1>4. ObjectFits(t)' /\ PartedFits(t)'
  BY ThreadAssumption DEF InsertNew, TypeOK, Fits,
    HandlerFits, ObjectFits, PartedFits, UsesObject, Between
<1>5. KeyFits(t)'
  <2>1. /\ at[t] = "born" /\ at'[t] = "post"
        /\ key'[t] <=> kind[t] = "pthread"
        /\ UNCHANGED <<space, pid, kind, saved, owns>>
    BY Zenon DEF InsertNew, TypeOK
  <2>2. Entry(t)' # NoTid
    BY Zenon, <2>1, ThreadAssumption
  <2>3. kind[t] \in Kind /\ key[t] \in BOOLEAN /\ owns[t] \in BOOLEAN
    BY Zenon DEF TypeOK
  <2>4. saved[t] = NoPlace
    BY <2>1 DEF Fits, HandlerFits
  <2> QED BY Zenon, <2>1, <2>2, <2>3, <2>4 DEF Fits, KeyFits, AtHost, UsesObject, Kind
<1> QED BY Zenon, <1>1, <1>2, <1>3, <1>4, <1>5, OneThread
=============================================================================
