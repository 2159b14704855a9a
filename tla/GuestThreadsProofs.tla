------------------------- MODULE GuestThreadsProofs -------------------------
(***************************************************************************)
(* The steps that concern two threads keep the invariant of                *)
(* GuestThreadsInvariant, and what follows from it.                        *)
(***************************************************************************)
EXTENDS GuestThreadsInvariant

USE DEF NoTid, NoPlace, procs, Started, Table, Holds, Goto, Release, Entry, There

(* Nothing that the state of the thread u depends on changes. *)
Same(u) ==
    /\ space'[u] = space[u] /\ pid'[u] = pid[u] /\ at'[u] = at[u]
    /\ kind'[u] = kind[u] /\ mine'[u] = mine[u] /\ key'[u] = key[u]
    /\ saved'[u] = saved[u] /\ owns'[u] = owns[u]
    /\ table'[space[u]] = table[space[u]] /\ mutex'[space[u]] = mutex[space[u]]
    /\ heap[space[u]] \subseteq heap'[space[u]]
    /\ u \in heap'[space[u]] => u \in heap[space[u]]
    /\ mine[u] \in Tid => space'[mine[u]] = space[mine[u]]

LEMMA SameFits ==
  ASSUME NEW u \in Tid, Same(u), Fits(u)
  PROVE  Fits(u)'
<1>1. HandlerFits(u)' /\ HoldFits(u)' /\ PartedFits(u)'
  BY DEF Same, Fits, HandlerFits, HoldFits, PartedFits
<1>2. ObjectFits(u)'
  BY DEF Same, Fits, ObjectFits, UsesObject, Between
<1>3. KeyFits(u)'
  BY DEF Same, Fits, KeyFits, AtHost, UsesObject
<1> QED BY <1>1, <1>2, <1>3 DEF Fits

(* The creator is where the new thread expects it. *)
LEMMA PostKeeps ==
  ASSUME IInv, NEW t \in Tid, Post(t)
  PROVE  IInv'
<1>1. TypeOK /\ Fresh /\ Spaces /\ Alone /\ NamesAreOwn /\ Creating /\ TableIsLive
  BY DEF IInv
<1>2. at[t] = "post" /\ Started(t) /\ Fits(t)
  BY FitsThere DEF Post
<1>3. /\ saved[t] = NoPlace /\ creator[t] \in Tid /\ creator[t] # t
      /\ at[creator[t]] = "create" /\ space[creator[t]] = space[t]
  BY <1>1, <1>2 DEF Fits, HandlerFits, TypeOK, Creating, Starting
<1>4. Fits(creator[t]) /\ saved[creator[t]] = NoPlace
  BY <1>2, <1>3 DEF IInv, Fits, HandlerFits
<1>5. /\ at'[t] = "guest" /\ at'[creator[t]] = "guest" /\ creator'[t] = NoTid
      /\ \A u \in Tid \ {t, creator[t]} : at'[u] = at[u]
      /\ \A u \in Tid \ {t} : creator'[u] = creator[u]
      /\ UNCHANGED <<space, pid, kind, mine, key, saved, owns, table, mutex, heap>>
  BY <1>1, <1>3 DEF Post, TypeOK
<1>6. TypeOK'
  BY <1>1, <1>3 DEF Post, TypeOK, Place, TableOps
<1>7. Spaces' /\ Alone'
  BY <1>1, <1>2, <1>3, <1>5 DEF Spaces, Alone
<1>11. Fresh'
  <2> SUFFICES ASSUME NEW d \in Tid, at'[d] = NoPlace PROVE Unused(d)'
    BY DEF Fresh
  <2>1. Unused(d) /\ d # t
    BY <1>1, <1>5 DEF Fresh
  <2>2. \A u \in Tid : creator'[u] # d
    BY <1>5, <2>1, ThreadAssumption DEF Unused
  <2> QED BY <1>5, <2>1, <2>2 DEF Unused
<1>8. NamesAreOwn' /\ TableIsLive'
  BY <1>1, <1>5, <1>6 DEF NamesAreOwn, TableIsLive
<1>9. Creating'
  <2>1. \A u \in Tid : Starting(u)' <=> u # t /\ Starting(u)
    BY <1>2, <1>3, <1>4, <1>5 DEF Starting
  <2>2. ASSUME NEW u \in Tid, at'[u] = "create" PROVE \E d \in Tid : creator'[d] = u
    BY <1>1, <1>5, <2>2 DEF Creating
  <2>3. ASSUME NEW d \in Tid, creator'[d] # NoTid
        PROVE  /\ at'[creator'[d]] = "create" /\ space[creator'[d]] = space[d]
               /\ \A e \in Tid : creator'[d] = creator'[e] => d = e
    <3>1. d # t /\ creator'[d] = creator[d] /\ creator[d] \in Tid
      BY <1>1, <1>5, <2>3 DEF TypeOK
    <3>2. creator[d] # creator[t] /\ at[creator[d]] = "create" /\ space[creator[d]] = space[d]
      BY <1>1, <1>3, <2>3, <3>1 DEF Creating
    <3>3. creator[d] # t
      BY <1>2, <3>2
    <3>4. \A e \in Tid : creator'[d] = creator'[e] => d = e
      BY <1>1, <1>5, <2>3, <3>1 DEF Creating
    <3> QED BY <1>5, <3>1, <3>2, <3>3, <3>4
  <2>4. ASSUME NEW d \in Tid PROVE Starting(d)' <=> creator'[d] # NoTid
    BY <1>1, <1>5, <2>1 DEF Creating
  <2> QED BY <1>5, <2>2, <2>3, <2>4 DEF Creating
<1>10. ASSUME NEW u \in Tid, Started(u) PROVE Fits(u)'
  <2>1. CASE u = t \/ u = creator[t]
    <3>1. Fits(u) /\ saved[u] = NoPlace /\ at[u] \in {"post", "create"} /\ at'[u] = "guest"
      BY <1>2, <1>3, <1>4, <1>5, <2>1
    <3>2. HandlerFits(u)' /\ HoldFits(u)' /\ PartedFits(u)'
      BY <1>5, <3>1 DEF Fits, HandlerFits, HoldFits, PartedFits, TableOps
    <3>3. ObjectFits(u)' /\ KeyFits(u)'
      BY <1>5, <3>1 DEF Fits, ObjectFits, KeyFits, AtHost, UsesObject, Between
    <3> QED BY <3>2, <3>3 DEF Fits
  <2>2. CASE u # t /\ u # creator[t]
    BY <1>5, <1>10, <2>2, SameFits DEF IInv, Same
  <2> QED BY <2>1, <2>2
<1> QED BY <1>5, <1>6, <1>7, <1>8, <1>9, <1>10, <1>11 DEF IInv

(* The child of a fork, alone in its space, keeps its own entry only. *)
LEMMA ResetThreadTableKeeps ==
  ASSUME IInv, NEW t \in Tid, ResetThreadTable(t)
  PROVE  IInv'
<1>1. TypeOK /\ Fresh /\ Spaces /\ Alone /\ NamesAreOwn /\ Creating /\ TableIsLive
  BY DEF IInv
<1>2. /\ Started(t) /\ Fits(t) /\ at[t] = "forked"
      /\ space[t] = t /\ \A u \in Tid : space[u] = t => u = t
  BY <1>1, FitsThere DEF ResetThreadTable, Alone
<1>3. mine[t] \in heap[t] /\ mine[t] \in Tid /\ saved[t] = NoPlace /\ mutex[t] = t
  BY <1>1, <1>2 DEF ResetThreadTable, Fits, ObjectFits, HandlerFits, TypeOK
<1>4. /\ at'[t] = "guest" /\ mutex'[t] = NoTid /\ table'[t][t] = mine[t]
      /\ \A u \in Tid \ {t} : at'[u] = at[u] /\ table'[t][u] = NoTid
      /\ \A m \in Tid \ {t} : table'[m] = table[m] /\ mutex'[m] = mutex[m]
      /\ UNCHANGED <<space, pid, kind, mine, key, saved, owns, creator, heap>>
  BY <1>1, <1>2 DEF ResetThreadTable, TypeOK
<1>5. TypeOK'
  BY <1>1, <1>2, <1>3 DEF ResetThreadTable, TypeOK, Place, TableOps
<1>6. Spaces' /\ Alone'
  BY <1>1, <1>2, <1>4 DEF Spaces, Alone
<1>11. Fresh'
  <2> SUFFICES ASSUME NEW d \in Tid, at'[d] = NoPlace PROVE Unused(d)'
    BY DEF Fresh
  <2>1. Unused(d) /\ d # t
    BY <1>1, <1>4 DEF Fresh
  <2>2. /\ \A m \in Tid : mutex'[m] # d /\ table'[m][d] = NoTid
        /\ \A m, u \in Tid : table'[m][u] # d
    BY <1>4, <2>1, ThreadAssumption DEF Unused
  <2> QED BY <1>4, <2>1, <2>2 DEF Unused
<1>7. NamesAreOwn'
  <2> SUFFICES ASSUME NEW x \in Tid, NEW u \in Tid, Started(x), table'[space[x]][u] = x
               PROVE  u = x
    BY <1>4 DEF NamesAreOwn
  <2>1. CASE space[x] = t
    BY <1>2, <1>4, <2>1, ThreadAssumption
  <2>2. CASE space[x] # t
    BY <1>1, <1>4, <2>2 DEF NamesAreOwn, TypeOK
  <2> QED BY <2>1, <2>2
<1>8. Creating'
  <2>1. /\ \A u \in Tid : Starting(u)' <=> Starting(u)
        /\ \A u \in Tid : at'[u] = "create" <=> at[u] = "create"
    BY <1>2, <1>3, <1>4 DEF Starting
  <2>2. \A d \in Tid : creator[d] \in Tid \cup {NoTid}
    BY <1>1 DEF TypeOK
  <2> QED BY <1>1, <1>4, <2>1, <2>2 DEF Creating
<1>9. TableIsLive'
  BY <1>1, <1>3, <1>4, <1>5, ThreadAssumption DEF TableIsLive
<1>10. ASSUME NEW u \in Tid, Started(u) PROVE Fits(u)'
  <2>1. CASE u = t
    <3>1. HandlerFits(t)' /\ HoldFits(t)' /\ PartedFits(t)'
      BY <1>2, <1>3, <1>4, ThreadAssumption DEF Fits, HandlerFits, HoldFits, PartedFits
    <3>2. Entry(t)' = mine[t] /\ mine[t] # NoTid
      BY <1>2, <1>3, <1>4, ThreadAssumption
    <3>3. ObjectFits(t)'
      BY <1>2, <1>3, <1>4, <3>2 DEF Fits, ObjectFits, UsesObject, Between
    <3>4. KeyFits(t)'
      BY <1>2, <1>3, <1>4, <3>2 DEF Fits, KeyFits, AtHost, UsesObject
    <3> QED BY <2>1, <3>1, <3>3, <3>4 DEF Fits
  <2>2. CASE u # t
    <3>1. space[u] \in Tid \ {t}
      BY <1>1, <1>2, <1>10, <2>2 DEF TypeOK
    <3>2. Same(u)
      BY <1>4, <2>2, <3>1 DEF Same
    <3> QED BY <1>10, <3>2, SameFits DEF IInv
  <2> QED BY <2>1, <2>2
<1> QED BY <1>4, <1>5, <1>6, <1>7, <1>8, <1>9, <1>10, <1>11 DEF IInv
-----------------------------------------------------------------------------

(* The thread c is the next one to be started: by t, in the address space of *)
(* t or in a copy of it, or in vain.                                         *)
Joins(t, c) ==
    /\ IsNext(c) /\ at[t] \in {"host", "guest"} /\ at'[c] \notin {NoPlace, "create"}
    /\ \A u \in Tid \ {c} :
          /\ space'[u] = space[u] /\ pid'[u] = pid[u] /\ kind'[u] = kind[u]
          /\ mine'[u] = mine[u] /\ key'[u] = key[u] /\ creator'[u] = creator[u]
          /\ u # t => at'[u] = at[u]
    /\ UNCHANGED <<saved, owns>>
    /\ mine'[c] \in {mine[c], mine[t], c}
    /\ at'[c] = "refused" => space'[c] = NoTid
    /\ at'[c] # "refused" => space'[c] \in {c, space[t]}
    /\ at'[c] = "forked" => space'[c] = c
    /\ Starting(c)' <=> creator'[c] = t
    /\ \/ creator'[c] = t /\ at[t] = "guest" /\ at'[t] = "create" /\ space'[c] = space[t]
       \/ creator'[c] = NoTid /\ at'[t] = at[t]
    /\ \A m \in Tid \ {c} :
          /\ table'[m] = table[m] /\ mutex'[m] = mutex[m]
          /\ heap[m] \subseteq heap'[m]
          /\ \A x \in heap'[m] : x \in heap[m] \/ x = c
    /\ \E m \in {c, space[t]} :
          table'[c] = table[m] /\ mutex'[c] = mutex[m] /\ heap'[c] = heap[m]

(* Then it is enough to look at the two threads. *)
LEMMA NewThread ==
  ASSUME IInv, TypeOK', NEW t \in Tid, NEW c \in Tid, Joins(t, c),
         at'[c] # "refused" => Fits(c)',
         at'[t] # at[t] => Fits(t)'
  PROVE  IInv'
<1>1. TypeOK /\ Fresh /\ Spaces /\ Alone /\ NamesAreOwn /\ Creating /\ TableIsLive
  BY DEF IInv
<1>2. There(t)
  BY FitsThere DEF Joins
<1>3. at[c] = NoPlace /\ c # t /\ Unused(c) /\ \A u \in Tid : space[u] # c
  <2>1. at[c] = NoPlace /\ c # t
    BY DEF Joins, IsNext
  <2> QED BY <1>1, <2>1, ThreadAssumption DEF Fresh, Spaces
<1>4. Started(space[t]) /\ space[t] # c
  BY <1>1, <1>2, <1>3 DEF Spaces
<1>5. Fresh'
  <2> SUFFICES ASSUME NEW d \in Tid, at'[d] = NoPlace PROVE Unused(d)'
    BY DEF Fresh
  <2>1. Unused(d) /\ d # c /\ d # t
    <3>1. d # c
      BY DEF Joins
    <3>2. d # t
      BY DEF Joins
    <3> QED BY <1>1, <3>1, <3>2 DEF Joins, Fresh
  <2>2. PICK n \in {c, space[t]} :
           table'[c] = table[n] /\ mutex'[c] = mutex[n] /\ heap'[c] = heap[n]
    BY DEF Joins
  <2>3. ASSUME NEW m \in Tid
        PROVE  /\ d \notin heap'[m] /\ mutex'[m] # d /\ table'[m][d] = NoTid
               /\ \A u \in Tid : table'[m][u] # d
    <3>1. CASE m = c
      BY <1>2, <2>1, <2>2, <3>1 DEF Unused
    <3>2. CASE m # c
      BY <2>1, <3>2 DEF Joins, Unused
    <3> QED BY <3>1, <3>2
  <2>4. \A u \in Tid : mine'[u] # d /\ creator'[u] # d
    <3>1. \A u \in Tid : mine[u] # d /\ creator[u] # d
      BY <2>1 DEF Unused
    <3>2. mine'[c] # d /\ creator'[c] # d
      BY Zenon, <2>1, <3>1, ThreadAssumption DEF Joins
    <3>3. \A u \in Tid \ {c} : mine'[u] = mine[u] /\ creator'[u] = creator[u]
      BY DEF Joins
    <3> QED BY <3>1, <3>2, <3>3
  <2>5. /\ saved'[d] = NoPlace /\ ~owns'[d] /\ ~key'[d]
        /\ kind'[d] = "host" /\ creator'[d] = NoTid
    BY <2>1 DEF Joins, Unused
  <2> QED BY <2>3, <2>4, <2>5 DEF Unused
<1>6. Spaces'
  <2>1. ASSUME NEW u \in Tid PROVE space'[u] # NoTid <=> at'[u] \notin {NoPlace, "refused"}
    BY <1>1, <1>2, ThreadAssumption DEF Joins, Spaces
  <2>2. ASSUME NEW u \in Tid, space'[u] # NoTid PROVE space'[space'[u]] # NoTid
    <3>1. CASE u = c
      BY <1>2, <1>4, <2>2, <3>1 DEF Joins
    <3>2. CASE u # c
      <4>1. space'[u] = space[u] /\ space[u] \in Tid \ {c}
        BY <1>1, <1>3, <2>2, <3>2 DEF Joins, TypeOK
      <4>2. space[space[u]] # NoTid
        BY <1>1, <2>2, <4>1 DEF Spaces
      <4> QED BY <4>1, <4>2 DEF Joins
    <3> QED BY <3>1, <3>2
  <2> QED BY <2>1, <2>2 DEF Spaces
<1>7. Alone'
  <2> SUFFICES ASSUME NEW d \in Tid, at'[d] = "forked"
               PROVE  space'[d] = d /\ \A u \in Tid : space'[u] = d => u = d
    BY DEF Alone
  <2>1. CASE d = c
    BY <1>3, <2>1 DEF Joins
  <2>2. CASE d # c
    <3>1. d # t /\ at[d] = "forked"
      BY <2>2 DEF Joins
    <3> QED BY <1>1, <1>2, <2>2, <3>1, ThreadAssumption DEF Joins, Alone
  <2> QED BY <2>1, <2>2
<1>8. NamesAreOwn'
  <2> SUFFICES ASSUME NEW x \in Tid, NEW u \in Tid, space'[x] # NoTid,
                      table'[space'[x]][u] = x
               PROVE  u = x
    BY DEF NamesAreOwn
  <2>1. CASE x = c
    BY <1>2, <1>3, <1>4, <2>1 DEF Joins, Unused
  <2>2. CASE x # c
    BY <1>1, <1>3, <2>2 DEF Joins, NamesAreOwn, TypeOK
  <2> QED BY <2>1, <2>2
<1>9. TableIsLive'
  <2> SUFFICES ASSUME NEW m \in Tid, NEW u \in Tid, table'[m][u] # NoTid
               PROVE  /\ table'[m][u] \in heap'[m]
                      /\ \A v \in Tid \ {u} : table'[m][v] # table'[m][u]
    BY DEF TableIsLive
  <2>1. PICK n \in Tid : table'[m] = table[n] /\ heap[n] \subseteq heap'[m]
    BY <1>2 DEF Joins
  <2> QED BY <1>1, <2>1 DEF TableIsLive
<1>10. Creating'
  <2>1. \A u \in Tid \ {c} : Starting(u)' <=> Starting(u)
    BY <1>3 DEF Joins, Starting
  <2>2. \A u \in Tid : creator[u] \notin {c, t}
    BY <1>1, <1>3, ThreadAssumption DEF Joins, Creating, Unused
  <2>3. \A u \in Tid \ {c} : creator'[u] = creator[u] /\ space'[u] = space[u]
    BY DEF Joins
  <2>4. \A u \in Tid \ {c, t} : at'[u] = at[u]
    BY DEF Joins
  <2>5. /\ Starting(c)' <=> creator'[c] # NoTid
        /\ creator'[c] # NoTid =>
              creator'[c] = t /\ at'[t] = "create" /\ space'[c] = space[t]
        /\ at'[t] = "create" => creator'[c] = t
        /\ at'[c] # "create"
    BY ThreadAssumption DEF Joins
  <2>6. ASSUME NEW u \in Tid, at'[u] = "create" PROVE \E d \in Tid : creator'[d] = u
    <3>1. CASE u = t
      BY <2>5, <2>6, <3>1
    <3>2. CASE u # t
      <4>1. PICK d \in Tid : creator[d] = u
        BY <1>1, <2>4, <2>5, <2>6, <3>2 DEF Creating
      <4>2. d # c
        BY <1>3, <4>1, ThreadAssumption DEF Unused
      <4> QED BY <2>3, <4>1, <4>2
    <3> QED BY <3>1, <3>2
  <2>7. ASSUME NEW d \in Tid PROVE Starting(d)' <=> creator'[d] # NoTid
    BY <1>1, <2>1, <2>3, <2>5 DEF Creating
  <2>8. ASSUME NEW d \in Tid, creator'[d] # NoTid
        PROVE  at'[creator'[d]] = "create" /\ space'[creator'[d]] = space'[d]
    <3>1. CASE d = c
      BY <1>3, <2>3, <2>5, <2>8, <3>1
    <3>2. CASE d # c
      <4>1. creator'[d] = creator[d] /\ creator[d] \in Tid \ {c, t}
        BY <1>1, <2>2, <2>3, <2>8, <3>2 DEF TypeOK
      <4> QED BY <1>1, <2>3, <2>4, <2>8, <3>2, <4>1 DEF Creating
    <3> QED BY <3>1, <3>2
  <2>9. ASSUME NEW d \in Tid, NEW e \in Tid, creator'[d] # NoTid, creator'[d] = creator'[e]
        PROVE  d = e
    BY <1>1, <2>2, <2>3, <2>5, <2>9 DEF Creating
  <2> QED BY <2>6, <2>7, <2>8, <2>9 DEF Creating
<1>11. ASSUME NEW u \in Tid, Started(u)' PROVE Fits(u)'
  <2>1. CASE u = c
    BY <1>11, <2>1 DEF Joins
  <2>2. CASE u # c /\ at'[u] = at[u]
    <3>1. space'[u] = space[u] /\ space[u] \in Tid \ {c} /\ mine[u] # c
      BY <1>1, <1>3, <1>11, <2>2 DEF Joins, TypeOK, Unused
    <3>2. Same(u)
      BY Zenon, <2>2, <3>1 DEF Joins, Same
    <3> QED BY <1>11, <3>1, <3>2, SameFits DEF IInv
  <2>3. CASE u # c /\ at'[u] # at[u]
    BY Zenon, <2>3 DEF Joins
  <2> QED BY <2>1, <2>2, <2>3
<1> QED BY <1>5, <1>6, <1>7, <1>8, <1>9, <1>10, <1>11 DEF IInv

LEMMA NextIsUnused ==
  ASSUME IInv, NEW t \in Tid, NEW c \in Tid, IsNext(c), at[t] \in {"guest", "host"}
  PROVE  TypeOK /\ There(t) /\ Unused(c) /\ c # t /\ space[c] = NoTid /\ space[t] # c
<1>1. TypeOK /\ Fresh /\ Spaces /\ There(t)
  BY FitsThere DEF IInv
<1>2. at[c] = NoPlace
  BY DEF IsNext
<1>3. Unused(c) /\ c # t /\ space[c] = NoTid
  BY <1>1, <1>2 DEF Fresh, Spaces
<1> QED BY <1>1, <1>3 DEF Spaces

(* A new host thread has no entry and no key. *)
LEMMA HostThreadKeeps ==
  ASSUME IInv, TypeOK, NEW t \in Tid, NEW c \in Tid, There(t), Unused(c),
         c # t, space[t] # c,
         HostThread(t, c)
  PROVE  IInv'
<1>1. TypeOK'
  BY DEF HostThread, Begin, TypeOK, Place, TableOps
<1>2. Joins(t, c)
  BY ThreadAssumption DEF HostThread, Begin, Joins, Starting, Unused, TypeOK
<1>3. /\ at'[c] = "host" /\ space'[c] = space[t]
      /\ UNCHANGED <<saved, owns, kind, key, table, mutex, heap>>
  BY DEF HostThread, Begin, TypeOK
<1>4. HandlerFits(c)' /\ HoldFits(c)' /\ PartedFits(c)' /\ ObjectFits(c)' /\ KeyFits(c)'
  BY Zenon, <1>3 DEF Unused, HandlerFits, HoldFits, PartedFits, ObjectFits,
    KeyFits, AtHost, UsesObject
<1>5. at'[t] = at[t]
  BY DEF HostThread
<1> QED BY <1>1, <1>2, <1>4, <1>5, NewThread DEF Fits

(* A refused thread is never started. *)
LEMMA RefuseCloneKeeps ==
  ASSUME IInv, TypeOK, NEW t \in Tid, NEW c \in Tid, There(t), Unused(c),
         c # t, space[t] # c,
         space[c] = NoTid, RefuseClone(t, c)
  PROVE  IInv'
<1>1. at' \in [Tid -> Place] /\ heap' \in [Tid -> SUBSET Tid]
  BY DEF RefuseClone, TypeOK, Place, TableOps
<1>2. TypeOK'
  BY <1>1 DEF RefuseClone, TypeOK
<1>3. /\ at'[c] = "refused" /\ at[t] = "guest" /\ IsNext(c)
      /\ \A u \in Tid \ {c} : at'[u] = at[u]
      /\ \A m \in Tid : \A x : x \in heap'[m] <=> x \in heap[m] \/ (m = space[t] /\ x = c)
      /\ UNCHANGED <<space, pid, kind, mine, key, saved, owns, creator, table, mutex>>
  BY DEF RefuseClone, TypeOK
<1>4. heap'[c] = heap[c] \/ space[t] = c
  BY DEF RefuseClone, TypeOK
<1>5. Joins(t, c)
  BY Zenon, <1>3, <1>4, ThreadAssumption DEF Joins, Starting, Unused
<1> QED BY Zenon, <1>2, <1>3, <1>5, NewThread

(* Nothing refers to the thread that is started. *)
LEMMA StartKeeps ==
  ASSUME IInv, TypeOK, NEW t \in Tid, NEW c \in Tid, There(t), Unused(c),
         c # t, space[t] # c,
         NEW k \in {"pthread", "clone"}, NEW p \in Tid \cup {NoTid}, Start(t, c, k, p)
  PROVE  IInv'
<1>1. TypeOK'
  <2>1. /\ space' \in [Tid -> Tid \cup {NoTid}] /\ pid' \in [Tid -> Tid \cup {NoTid}]
        /\ mine' \in [Tid -> Tid \cup {NoTid}] /\ creator' \in [Tid -> Tid \cup {NoTid}]
    BY DEF Start, Begin, TypeOK
  <2>2. kind' \in [Tid -> Kind] /\ at' \in [Tid -> Place] /\ heap' \in [Tid -> SUBSET Tid]
    BY DEF Start, TypeOK, Kind, Place, TableOps
  <2> QED BY Zenon, <2>1, <2>2 DEF Start, TypeOK
<1>8. /\ at[t] = "guest" /\ at'[t] = "create" /\ at'[c] = "born" /\ IsNext(c)
      /\ \A u \in Tid \ {c} :
           /\ space'[u] = space[u] /\ pid'[u] = pid[u] /\ kind'[u] = kind[u]
           /\ mine'[u] = mine[u] /\ creator'[u] = creator[u]
           /\ u # t => at'[u] = at[u]
      /\ space'[c] = space[t] /\ mine'[c] = c /\ creator'[c] = t
      /\ UNCHANGED <<key, saved, owns, table, mutex>>
  BY DEF Start, Begin, TypeOK
<1>9. /\ \A m \in Tid : \A x : x \in heap'[m] <=> x \in heap[m] \/ (m = space[t] /\ x = c)
      /\ space[t] # c => heap'[c] = heap[c]
  BY DEF Start, TypeOK
<1>2. Joins(t, c)
  BY Zenon, <1>8, <1>9, ThreadAssumption DEF Joins, Starting
<1>3. /\ at'[c] = "born" /\ space'[c] = space[t] /\ mine'[c] = c /\ kind'[c] = k
      /\ c \in heap'[space[t]] /\ at[t] = "guest" /\ at'[t] = "create"
      /\ t \in heap'[space[t]] => t \in heap[space[t]]
      /\ UNCHANGED <<saved, owns, key, table, mutex>>
  BY DEF Start, Begin, TypeOK
<1>4. HandlerFits(c)' /\ HoldFits(c)' /\ PartedFits(c)' /\ ObjectFits(c)' /\ KeyFits(c)'
  BY Zenon, <1>3 DEF Unused, HandlerFits, HoldFits, PartedFits, ObjectFits,
    Between, KeyFits, AtHost, UsesObject
<1>5. space'[t] = space[t] /\ mine'[t] = mine[t] /\ kind'[t] = kind[t]
  BY Zenon, <1>2 DEF Joins
<1>6. HandlerFits(t)' /\ HoldFits(t)' /\ PartedFits(t)'
  BY Zenon, <1>3, <1>5 DEF Fits, HandlerFits, HoldFits, PartedFits, TableOps
<1>7. ObjectFits(t)' /\ KeyFits(t)'
  BY Zenon, <1>3, <1>5 DEF Fits, HandlerFits, ObjectFits, KeyFits, AtHost,
    UsesObject, Between
<1> QED BY Zenon, <1>1, <1>2, <1>4, <1>6, <1>7, NewThread DEF Fits

(* The child of a fork of the guest or of the host. *)
Forks(t, c, place) ==
    /\ at[t] = IF place = "forked" THEN "guest" ELSE "host"
    /\ IsNext(c) /\ Goto(c, place) /\ Copy(t, c)

LEMMA ForkKeeps ==
  ASSUME IInv, TypeOK, NEW t \in Tid, NEW c \in Tid, There(t), Unused(c),
         c # t, space[t] # c,
         NEW place \in {"forked", "host"}, Forks(t, c, place)
  PROVE  IInv'
<1>1. TypeOK'
  <2>1. /\ space' \in [Tid -> Tid \cup {NoTid}] /\ pid' \in [Tid -> Tid \cup {NoTid}]
        /\ mine' \in [Tid -> Tid \cup {NoTid}] /\ key' \in [Tid -> BOOLEAN]
        /\ kind' \in [Tid -> Kind] /\ at' \in [Tid -> Place]
    BY DEF Forks, Copy, Begin, TypeOK, Place, TableOps
  <2>2. /\ table' \in [Tid -> [Tid -> Tid \cup {NoTid}]]
        /\ mutex' \in [Tid -> Tid \cup {NoTid}] /\ heap' \in [Tid -> SUBSET Tid]
    BY DEF Forks, Copy, TypeOK
  <2> QED BY Zenon, <2>1, <2>2 DEF Forks, Copy, TypeOK
<1>2. Joins(t, c)
  BY ThreadAssumption DEF Forks, Copy, Begin, Joins, Starting, Unused, TypeOK
<1>3. /\ at'[c] = place /\ space'[c] = c /\ mine'[c] = mine[t] /\ kind'[c] = kind[t]
      /\ key'[c] = key[t] /\ pid'[c] = c
      /\ table'[c] = table[space[t]] /\ mutex'[c] = mutex[space[t]]
      /\ heap'[c] = heap[space[t]]
      /\ UNCHANGED <<saved, owns>>
  BY DEF Forks, Copy, Begin, TypeOK
<1>4. at[t] = (IF place = "forked" THEN "guest" ELSE "host") /\ at'[t] = at[t]
  BY DEF Forks, TypeOK
<1>5. HandlerFits(c)' /\ HoldFits(c)' /\ PartedFits(c)' /\ Entry(c)' = NoTid
  BY Zenon, <1>3 DEF Unused, HandlerFits, HoldFits, PartedFits
<1>6. ObjectFits(c)'
  BY Zenon, <1>3, <1>4, <1>5 DEF Unused, Fits, ObjectFits, UsesObject
<1>7. KeyFits(c)'
  BY Zenon, <1>3, <1>4, <1>5 DEF Unused, Fits, KeyFits, AtHost, UsesObject
<1> QED BY Zenon, <1>1, <1>2, <1>4, <1>5, <1>6, <1>7, NewThread DEF Fits

-----------------------------------------------------------------------------

(* The first thread, at home. *)
LEMMA InitIInv == Init => IInv
<1> SUFFICES ASSUME Init PROVE IInv
  OBVIOUS
<1>1. TypeOK
  BY ThreadAssumption DEF Init, TypeOK, Place, TableOps, Kind
<1>2. Fresh /\ Spaces /\ Alone /\ NamesAreOwn
  BY ThreadAssumption DEF Init, Fresh, Unused, Spaces, Alone, NamesAreOwn
<1>3. Creating /\ TableIsLive
  BY <1>1, ThreadAssumption DEF Init, Creating, Starting, TableIsLive
<1>4. ASSUME NEW t \in Tid, Started(t) PROVE Fits(t)
  <2>1. HandlerFits(t) /\ PartedFits(t) /\ HoldFits(t)
    BY <1>4, ThreadAssumption DEF Init, HandlerFits, PartedFits, HoldFits
  <2>2. ObjectFits(t) /\ KeyFits(t)
    BY <1>4, ThreadAssumption DEF Init, ObjectFits, KeyFits, AtHost, UsesObject
  <2> QED BY <2>1, <2>2 DEF Fits
<1> QED BY <1>1, <1>2, <1>3, <1>4 DEF IInv

(* The invariant is inductive. *)
THEOREM Inductive == IInv /\ [Next]_vars => IInv'
<1> SUFFICES ASSUME IInv, [Next]_vars PROVE IInv'
  OBVIOUS
<1>1. ASSUME NEW t \in Tid, \/ Lock(t) \/ CallGuest(t) \/ Interrupt(t)
                            \/ AttachFound(t) \/ AttachNew(t) \/ AttachInsert(t)
      PROVE  IInv'
  <2>1. TypeOK /\ There(t)
    BY Zenon, <1>1, FitsThere DEF IInv, Lock, CallGuest, Interrupt, Alive, AttachFound,
      AttachNew, AttachInsert, TableOps
  <2> QED BY Zenon, <1>1, <2>1, LockKeeps, MoveKeeps, InterruptKeeps, AttachFoundKeeps,
        AttachNewKeeps, AttachInsertKeeps
<1>2. ASSUME NEW t \in Tid, \/ HandlerReturns(t) \/ DetachRemoves(t) \/ Destroy(t)
                            \/ ReturnFromGuest(t) \/ ReturnFromHost(t)
                            \/ RunDestructor(t) \/ Die(t)
      PROVE  IInv'
  <2>1. TypeOK /\ There(t)
    BY <1>2, FitsThere DEF IInv, HandlerReturns, DetachRemoves, Destroy,
      ReturnFromGuest, ReturnFromHost, RunDestructor, Die
  <2> QED BY Zenon, <1>2, <2>1, HandlerReturnsKeeps, DetachRemovesKeeps, DestroyKeeps,
        ReturnFromGuestKeeps, MoveKeeps, RunDestructorKeeps
<1>3. ASSUME NEW t \in Tid, \/ ExitSyscall(t) \/ ExitRemoves(t) \/ Exit(t)
                            \/ BeginFlush(t) \/ Flush(t)
                            \/ InsertNew(t) \/ Post(t) \/ Exec(t) \/ ResetThreadTable(t)
      PROVE  IInv'
  <2>1. TypeOK /\ There(t)
    BY Zenon, <1>3, FitsThere DEF IInv, ExitSyscall, ExitRemoves, Exit, BeginFlush, Flush,
      InsertNew, Post, Exec, ResetThreadTable
  <2> QED BY Zenon, <1>3, <2>1, MoveKeeps, ExitRemovesKeeps, ExitKeeps, FlushKeeps,
        InsertNewKeeps, PostKeeps, ResetThreadTableKeeps
<1>4. ASSUME NEW t \in Tid, NEW c \in Tid, CreateThread(t, c) PROVE IInv'
  <2>1. TypeOK /\ There(t) /\ Unused(c) /\ c # t /\ space[t] # c
    BY Zenon, <1>4, NextIsUnused DEF CreateThread, Start
  <2>2. pid[t] \in Tid \cup {NoTid}
    BY <2>1 DEF TypeOK
  <2> QED BY Zenon, <1>4, <2>1, <2>2, StartKeeps DEF CreateThread
<1>5. ASSUME NEW t \in Tid, NEW c \in Tid, RefuseClone(t, c) \/ HostThread(t, c)
      PROVE  IInv'
  <2>1. TypeOK /\ There(t) /\ Unused(c) /\ c # t /\ space[t] # c /\ space[c] = NoTid
    BY Zenon, <1>5, NextIsUnused DEF RefuseClone, HostThread
  <2> QED BY Zenon, <1>5, <2>1, RefuseCloneKeeps, HostThreadKeeps
<1>6. ASSUME NEW t \in Tid, NEW c \in Tid, GuestFork(t, c) \/ HostFork(t, c)
      PROVE  IInv'
  <2>1. TypeOK /\ There(t) /\ Unused(c) /\ c # t /\ space[t] # c
    BY Zenon, <1>6, NextIsUnused DEF GuestFork, HostFork
  <2>2. Forks(t, c, "forked") \/ Forks(t, c, "host")
    BY <1>6 DEF GuestFork, HostFork, Forks
  <2> QED BY Zenon, <2>1, <2>2, ForkKeeps
<1>7. CASE UNCHANGED vars
  <2>1. TypeOK' /\ Fresh' /\ Spaces' /\ Alone' /\ NamesAreOwn'
    BY <1>7 DEF IInv, vars, TypeOK, Fresh, Unused, Spaces, Alone, NamesAreOwn
  <2>2. Creating' /\ TableIsLive'
    BY <1>7, <2>1 DEF IInv, vars, Creating, Starting, TableIsLive
  <2>3. ASSUME NEW t \in Tid, Started(t) PROVE Fits(t)'
    BY Zenon, <1>7, <2>3, SameFits DEF IInv, vars, Same
  <2>4. space' = space
    BY <1>7 DEF vars
  <2> QED BY <2>1, <2>2, <2>3, <2>4 DEF IInv
<1> QED BY <1>1, <1>2, <1>3, <1>4, <1>5, <1>6, <1>7 DEF Next

(* The threads never leave the states of the invariant. *)
THEOREM Invariance == Spec => []IInv
  BY InitIInv, Inductive, PTL DEF Spec

(* The CHECKs of GuestThreadMap never fail, whatever forks and signals come  *)
(* between an attachment and its detachment.                                 *)
THEOREM NoCheckFails == Spec => []ChecksHold
<1>1. IInv => ChecksHold
  BY DEF IInv, ChecksHold, Fits, ObjectFits, UsesObject
<1> QED BY <1>1, Invariance, PTL

(* FlushGuestCodeCache, which follows every entry, finds mapped objects      *)
(* only, and each once.                                                      *)
THEOREM LiveTable == Spec => []TableIsLive
<1>1. IInv => TableIsLive
  BY DEF IInv
<1> QED BY <1>1, Invariance, PTL

(* Guest code and the signal handlers of its thread use one object, and it   *)
(* is mapped.                                                                *)
THEOREM OneObject == Spec => []GuestUsesItsObject
<1>1. ASSUME IInv PROVE GuestUsesItsObject
  <2> SUFFICES ASSUME NEW t \in Tid, at[t] \in {"guest", "flush", "post"}
               PROVE  mine[t] \in heap[space[t]] /\ mine[t] = Table(t)[t]
    BY DEF GuestUsesItsObject
  <2>1. Fits(t) /\ (Entry(t) # NoTid => Entry(t) \in heap[space[t]])
    BY <1>1, FitsThere
  <2> QED BY Zenon, <2>1 DEF Fits, ObjectFits, UsesObject
<1> QED BY <1>1, Invariance, PTL

(* An object that was made for a thread is in the table, or on its way there *)
(* or from there, and a thread that ended leaves no entry.                   *)
THEOREM NoLeak == Spec => []NothingIsLeaked
<1>1. IInv => NothingIsLeaked
  BY DEF IInv, NothingIsLeaked, Fits, ObjectFits
<1> QED BY <1>1, Invariance, PTL

(* A signal makes a thread wait for itself in FlushGuestCodeCache only.      *)
THEOREM OnlyFlush == Spec => []OnlyFlushWaitsForItself
<1>1. IInv => OnlyFlushWaitsForItself
  BY Zenon, FitsThere DEF OnlyFlushWaitsForItself, Fits, HandlerFits
<1> QED BY <1>1, Invariance, PTL

(* The holder of a mutex that was not lost runs. *)
LEMMA HolderRuns ==
  ASSUME IInv, NEW t \in Tid, at[t] \in TableOps, mutex[space[t]] # NoTid, ~IsLost(t)
  PROVE  mutex[space[t]] \in Tid /\ Runs(mutex[space[t]])
<1> DEFINE h == mutex[space[t]]
<1>1. Started(t) /\ space[t] \in Tid /\ h \in Tid
  BY FitsThere DEF TableOps
<1>2. space[h] = space[t] /\ at[h] # "stuck"
  BY DEF IsLost
<1>3. at[h] \in TableOps
  BY <1>1, <1>2 DEF IInv, Fits, HoldFits
<1> QED BY <1>1, <1>2, <1>3 DEF Runs, Alive, Waits, Awaits, TableOps

(* No circle of waiting threads: the one a thread waits for runs, or waits   *)
(* for one that does, unless the mutex of the table was lost.                *)
THEOREM NoCircle == Spec => []WaitsEnd
<1>1. ASSUME IInv PROVE WaitsEnd
  <2> SUFFICES ASSUME NEW t \in Tid, Waits(t), ~IsLost(t)
               PROVE  \E u \in Tid :
                         /\ Awaits(t, u)
                         /\ Runs(u) \/ \E v \in Tid : Awaits(u, v) /\ Runs(v)
    BY DEF WaitsEnd
  <2> USE <1>1
  <2>1. CASE at[t] = "create"
    <3>1. PICK c \in Tid : creator[c] = t
      BY <2>1 DEF IInv, Creating
    <3>2. space[c] = space[t] /\ (at[c] \in {"born", "post"} \/ saved[c] = "post")
      BY <3>1, ThreadAssumption DEF IInv, Creating, Starting
    <3>3. at[c] \in {"born", "post", "attach", "insert", "handler", "detach", "destroy"}
      <4>1. Fits(c)
        BY <2>1, <3>2, FitsThere DEF IInv
      <4> QED BY <3>2, <4>1 DEF Fits, HandlerFits
    <3>4. Awaits(t, c)
      BY <2>1, <3>1 DEF Awaits
    <3>5. ~IsLost(c)
      BY <3>2 DEF IsLost
    <3>6. CASE Waits(c)
      <4>1. PICK v \in Tid : at[c] \in TableOps /\ v # c /\ mutex[space[c]] = v
        BY <3>3, <3>6 DEF Waits, Awaits
      <4>2. Runs(v)
        BY <3>5, <4>1, HolderRuns, ThreadAssumption
      <4>3. Awaits(c, v)
        BY <4>1 DEF Awaits
      <4> QED BY <3>4, <4>2, <4>3
    <3>7. CASE ~Waits(c)
      <4>1. Runs(c)
        BY <3>3, <3>7 DEF Runs, Alive
      <4> QED BY <3>4, <4>1
    <3> QED BY <3>6, <3>7
  <2>2. CASE at[t] # "create"
    <3>1. PICK u \in Tid : at[t] \in TableOps /\ u # t /\ mutex[space[t]] = u
      BY <2>2 DEF Waits, Awaits
    <3>2. Runs(u) /\ Awaits(t, u)
      BY <3>1, HolderRuns, ThreadAssumption DEF Awaits
    <3> QED BY <3>2
  <2> QED BY <2>1, <2>2
<1> QED BY <1>1, Invariance, PTL
=============================================================================
