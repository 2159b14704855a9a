---------------------------- MODULE GuestThreads ----------------------------
(***************************************************************************)
(* GuestThread objects and the table that finds them by thread id          *)
(* (guest_os_primitives/guest_thread_manager.cc, guest_thread_map.cc,      *)
(* guest_thread.cc), the two ways to start a guest thread                  *)
(* (guest_thread_clone.cc, guest_thread_pthread_create*.cc), signals that  *)
(* come to a thread without an object, and forks, of the guest and of the  *)
(* host.                                                                   *)
(*                                                                         *)
(* An object is named after the thread it was created for; the child of a  *)
(* fork goes on with the copy of its parent's.  An address space is named  *)
(* after the thread that started it.  Each operation of the table takes    *)
(* its mutex in one step and acts and releases it in another, so that      *)
(* forks and signals happen in between.                                    *)
(***************************************************************************)
EXTENDS Integers, FiniteSets

CONSTANTS
    Tid,            \* thread ids
    Boot,           \* the first thread
    MaxInterrupts   \* bound: signals and key destructors of the guest

NoTid == 0

ASSUME ThreadAssumption ==
    /\ Tid \subseteq Nat \ {NoTid}
    /\ Boot \in Tid
    /\ MaxInterrupts \in Nat

VARIABLES
    space,      \* the address space a thread runs in
    pid,        \* the process it belongs to
    at,         \* where it is
    kind,       \* how it was started
    mine,       \* the object its guest code uses
    key,        \* g_guest_thread_key is set: the destructor will run
    saved,      \* where the signal handler or key destructor will return to
    owns,       \* that handler attached the object itself
    interrupts, \* how many of these there were
    creator,    \* the thread that waits for this one to start
    table,      \* GuestThreadMap::map_ of each address space
    mutex,      \* GuestThreadMap::mutex_
    heap        \* the objects that are mapped

procs == <<space, pid>>

vars == <<procs, at, kind, mine, key, saved, owns, interrupts, creator,
          table, mutex, heap>>

NoPlace == "none"

Kind == {"host", "pthread", "clone"}

(* The places where a thread uses the table. *)
TableOps == {"attach", "insert", "detach", "exit", "flush", "born", "forked"}

Place == TableOps \cup
         {NoPlace, "host", "guest", "handler", "destroy", "exiting", "create",
          "post", "dying", "stuck", "dead", "gone", "refused"}

Started(t) == space[t] # NoTid

Alive(t) == at[t] \notin {NoPlace, "dead", "gone", "refused"}

(* The kernel numbers threads in order. *)
IsNext(c) == at[c] = NoPlace /\ \A d \in Tid : at[d] = NoPlace => c <= d

Table(t) == table[space[t]]

Holds(t) == mutex[space[t]] = t

Goto(t, place) == at' = [at EXCEPT ![t] = place]

Release(t) == mutex' = [mutex EXCEPT ![space[t]] = NoTid]

(* A handler is left for what it interrupted.                                *)
Leave(t) ==
    /\ at' = [at EXCEPT ![t] = saved[t]]
    /\ saved' = [saved EXCEPT ![t] = NoPlace]
    /\ owns' = [owns EXCEPT ![t] = FALSE]

(* ScopedSignalBlocker, and the mask a new thread is started with.           *)
BlockedNotInAttach(t) ==
    at[t] \in {"detach", "exit", "destroy", "exiting", "create", "born",
               "forked"}

Blocked(t) ==
    at[t] \in {"attach", "insert", "detach", "exit", "destroy", "exiting",
               "create", "born", "forked"}
-----------------------------------------------------------------------------

Init ==
    /\ space = [t \in Tid |-> IF t = Boot THEN Boot ELSE NoTid]
    /\ pid = [t \in Tid |-> IF t = Boot THEN Boot ELSE NoTid]
    /\ at = [t \in Tid |-> IF t = Boot THEN "host" ELSE NoPlace]
    /\ kind = [t \in Tid |-> "host"]
    /\ mine = [t \in Tid |-> NoTid]
    /\ key = [t \in Tid |-> FALSE]
    /\ saved = [t \in Tid |-> NoPlace]
    /\ owns = [t \in Tid |-> FALSE]
    /\ interrupts = 0
    /\ creator = [t \in Tid |-> NoTid]
    /\ table = [m \in Tid |-> [t \in Tid |-> NoTid]]
    /\ mutex = [m \in Tid |-> NoTid]
    /\ heap = [m \in Tid |-> {}]

(* std::lock_guard in the operations of the table.                           *)
Lock(t) ==
    /\ at[t] \in TableOps
    /\ mutex[space[t]] = NoTid
    /\ mutex' = [mutex EXCEPT ![space[t]] = t]
    /\ UNCHANGED <<procs, at, kind, mine, key, saved, owns, interrupts,
                   creator, table, heap>>
-----------------------------------------------------------------------------

(* Host code calls guest code: GetCurrentGuestThread.                        *)
CallGuest(t) ==
    /\ at[t] = "host"
    /\ Goto(t, "attach")
    /\ UNCHANGED <<procs, kind, mine, key, saved, owns, interrupts, creator,
                   table, mutex, heap>>

(* A signal, or a key destructor of the guest: both attach the thread if it  *)
(* is not attached, and detach it again.  The table is looked into whether   *)
(* or not pending signals are enabled; a thread that holds its mutex then    *)
(* waits for itself.                                                         *)
Interrupt(t) ==
    /\ Alive(t) /\ ~Blocked(t)
    /\ saved[t] = NoPlace
    /\ interrupts < MaxInterrupts
    /\ interrupts' = interrupts + 1
    /\ saved' = [saved EXCEPT ![t] = at[t]]
    /\ Goto(t, IF Holds(t) THEN "stuck" ELSE "attach")
    /\ UNCHANGED <<procs, kind, mine, key, owns, creator, table, mutex, heap>>

(* AttachCurrentThread finds the object of the thread.                       *)
AttachFound(t) ==
    /\ at[t] = "attach" /\ Holds(t)
    /\ Table(t)[t] # NoTid
    /\ Release(t)
    /\ Goto(t, IF saved[t] = NoPlace THEN "guest" ELSE "handler")
    /\ mine' = [mine EXCEPT ![t] = Table(t)[t]]
    /\ UNCHANGED <<procs, kind, key, saved, owns, interrupts, creator, table,
                   heap>>

(* It does not, and creates one.                                             *)
AttachNew(t) ==
    /\ at[t] = "attach" /\ Holds(t)
    /\ Table(t)[t] = NoTid
    /\ Release(t)
    /\ heap' = [heap EXCEPT ![space[t]] = @ \cup {t}]
    /\ mine' = [mine EXCEPT ![t] = t]
    /\ owns' = [owns EXCEPT ![t] = saved[t] # NoPlace]
    /\ Goto(t, "insert")
    /\ UNCHANGED <<procs, kind, key, saved, interrupts, creator, table>>

(* InsertCurrentThread, in AttachCurrentThread: only the attachment of an    *)
(* ordinary call registers the destructor.                                   *)
AttachInsertRegisters(t) ==
    /\ at[t] = "insert" /\ Holds(t)
    /\ Release(t)
    /\ table' = [table EXCEPT ![space[t]][t] = mine[t]]
    /\ key' = [key EXCEPT ![t] = TRUE]
    /\ Goto(t, IF owns[t] THEN "handler" ELSE "guest")
    /\ UNCHANGED <<procs, kind, mine, saved, owns, interrupts, creator,
                   heap>>

AttachInsert(t) ==
    /\ at[t] = "insert" /\ Holds(t)
    /\ Release(t)
    /\ table' = [table EXCEPT ![space[t]][t] = mine[t]]
    /\ key' = [key EXCEPT ![t] = key[t] \/ ~owns[t]]
    /\ Goto(t, IF owns[t] THEN "handler" ELSE "guest")
    /\ UNCHANGED <<procs, kind, mine, saved, owns, interrupts, creator, heap>>

(* A handler returns: to what it interrupted if it found the object,         *)
(* through DetachCurrentThread if it attached it.                            *)
HandlerStaysAttached(t) ==
    /\ at[t] = "handler"
    /\ Leave(t)
    /\ mine' = [mine EXCEPT ![t] = IF saved[t] \in {"host", "dying"}
                                   THEN NoTid ELSE @]
    /\ UNCHANGED <<procs, kind, key, interrupts, creator, table, mutex,
                   heap>>

HandlerReturns(t) ==
    /\ at[t] = "handler"
    /\ \/ ~owns[t] /\ Leave(t)
       \/ owns[t] /\ Goto(t, "detach") /\ UNCHANGED <<saved, owns>>
    /\ mine' = [mine EXCEPT ![t] = IF ~owns[t] /\ saved[t] \in {"host", "dying"}
                                   THEN NoTid ELSE @]
    /\ UNCHANGED <<procs, kind, key, interrupts, creator, table, mutex, heap>>

(* DetachCurrentThread: first out of the table, then destroyed.              *)
DetachDestroys(t) ==
    /\ at[t] = "detach" /\ Holds(t)
    /\ Release(t)
    /\ mine' = [mine EXCEPT ![t] = Table(t)[t]]
    /\ heap' = [heap EXCEPT ![space[t]] = @ \ {Table(t)[t]}]
    /\ Goto(t, "destroy")
    /\ UNCHANGED <<procs, kind, key, saved, owns, interrupts, creator, table>>

DetachRemoves(t) ==
    /\ at[t] = "detach" /\ Holds(t)
    /\ Release(t)
    /\ mine' = [mine EXCEPT ![t] = Table(t)[t]]
    /\ table' = [table EXCEPT ![space[t]][t] = NoTid]
    /\ Goto(t, "destroy")
    /\ UNCHANGED <<procs, kind, key, saved, owns, interrupts, creator, heap>>

Destroy(t) ==
    /\ at[t] = "destroy"
    /\ heap' = [heap EXCEPT ![space[t]] = @ \ {mine[t]}]
    /\ mine' = [mine EXCEPT ![t] = NoTid]
    /\ \/ saved[t] # NoPlace /\ Leave(t)
       \/ saved[t] = NoPlace /\ Goto(t, "dying") /\ UNCHANGED <<saved, owns>>
    /\ UNCHANGED <<procs, kind, key, interrupts, creator, table, mutex>>
-----------------------------------------------------------------------------

(* Guest code returns: to the host code that called it, or from the start    *)
(* function of a thread made by pthread_create.                              *)
ReturnFromGuest(t) ==
    /\ at[t] = "guest"
    /\ kind[t] # "clone"
    /\ Goto(t, IF kind[t] = "host" THEN "host" ELSE "dying")
    /\ mine' = [mine EXCEPT ![t] = NoTid]
    /\ UNCHANGED <<procs, kind, key, saved, owns, interrupts, creator, table,
                   mutex, heap>>

(* A thread of the host ends.  The first thread of a process ends with it,   *)
(* by exit, which runs no key destructor.                                    *)
ReturnFromHost(t) ==
    /\ at[t] = "host" /\ pid[t] # t
    /\ Goto(t, "dying")
    /\ UNCHANGED <<procs, kind, mine, key, saved, owns, interrupts, creator,
                   table, mutex, heap>>

(* GuestThreadDtor.                                                          *)
RunDestructor(t) ==
    /\ at[t] = "dying" /\ key[t]
    /\ key' = [key EXCEPT ![t] = FALSE]
    /\ Goto(t, "detach")
    /\ UNCHANGED <<procs, kind, mine, saved, owns, interrupts, creator, table,
                   mutex, heap>>

Die(t) ==
    /\ at[t] = "dying" /\ ~key[t]
    /\ Goto(t, "dead")
    /\ UNCHANGED <<procs, kind, mine, key, saved, owns, interrupts, creator,
                   table, mutex, heap>>

(* The exit system call of the guest: ExitCurrentThread.                     *)
ExitSyscall(t) ==
    /\ at[t] = "guest"
    /\ Goto(t, "exit")
    /\ UNCHANGED <<procs, kind, mine, key, saved, owns, interrupts, creator,
                   table, mutex, heap>>

ExitRemoves(t) ==
    /\ at[t] = "exit" /\ Holds(t)
    /\ Release(t)
    /\ mine' = [mine EXCEPT ![t] = Table(t)[t]]
    /\ table' = [table EXCEPT ![space[t]][t] = NoTid]
    /\ Goto(t, "exiting")
    /\ UNCHANGED <<procs, kind, key, saved, owns, interrupts, creator, heap>>

(* GuestThread::Exit; the key destructors do not run.                        *)
Exit(t) ==
    /\ at[t] = "exiting"
    /\ heap' = [heap EXCEPT ![space[t]] = @ \ {mine[t]}]
    /\ mine' = [mine EXCEPT ![t] = NoTid]
    /\ Goto(t, "dead")
    /\ UNCHANGED <<procs, kind, key, saved, owns, interrupts, creator, table,
                   mutex>>

(* FlushGuestCodeCache, in a system call of the guest.                       *)
BeginFlush(t) ==
    /\ at[t] = "guest"
    /\ Goto(t, "flush")
    /\ UNCHANGED <<procs, kind, mine, key, saved, owns, interrupts, creator,
                   table, mutex, heap>>

Flush(t) ==
    /\ at[t] = "flush" /\ Holds(t)
    /\ Release(t)
    /\ Goto(t, "guest")
    /\ UNCHANGED <<procs, kind, mine, key, saved, owns, interrupts, creator,
                   table, heap>>
-----------------------------------------------------------------------------

(* The kernel starts a thread in an address space and a process.             *)
Begin(c, m, p) ==
    /\ space' = [space EXCEPT ![c] = m]
    /\ pid' = [pid EXCEPT ![c] = p]

(* A thread is started with an object made by its creator, which waits.      *)
(* CLONE_VM without CLONE_THREAD starts a process of its own.                *)
Start(t, c, k, p) ==
    /\ at[t] = "guest" /\ IsNext(c)
    /\ Begin(c, space[t], p)
    /\ heap' = [heap EXCEPT ![space[t]] = @ \cup {c}]
    /\ kind' = [kind EXCEPT ![c] = k]
    /\ mine' = [mine EXCEPT ![c] = c]
    /\ creator' = [creator EXCEPT ![c] = t]
    /\ at' = [at EXCEPT ![t] = "create", ![c] = "born"]
    /\ UNCHANGED <<key, saved, owns, interrupts, table, mutex>>

(* CreateNewGuestThread and CloneGuestThread with memory shared.             *)
CreateThread(t, c) ==
    \/ Start(t, c, "pthread", pid[t])
    \/ Start(t, c, "clone", pid[t])
    \/ Start(t, c, "clone", c)

(* CLONE_VM without a stack and without CLONE_VFORK is refused after the     *)
(* object was made.  A clone that the kernel refuses leaves nothing behind.  *)
RefuseClone(t, c) ==
    /\ at[t] = "guest" /\ IsNext(c)
    /\ heap' = [heap EXCEPT ![space[t]] = @ \cup {c}]
    /\ Goto(c, "refused")
    /\ UNCHANGED <<procs, kind, mine, key, saved, owns, interrupts, creator,
                   table, mutex>>

(* The new thread inserts its object; pthread threads register the           *)
(* destructor.  Then signals are unblocked.                                  *)
InsertNewSilently(c) ==
    /\ at[c] = "born" /\ Holds(c)
    /\ Release(c)
    /\ table' = [table EXCEPT ![space[c]][c] = mine[c]]
    /\ key' = [key EXCEPT ![c] = kind[c] = "pthread"]
    /\ Goto(c, "guest")
    /\ UNCHANGED <<procs, kind, mine, saved, owns, interrupts, creator,
                   heap>>

InsertNew(c) ==
    /\ at[c] = "born" /\ Holds(c)
    /\ Release(c)
    /\ table' = [table EXCEPT ![space[c]][c] = mine[c]]
    /\ key' = [key EXCEPT ![c] = kind[c] = "pthread"]
    /\ Goto(c, "post")
    /\ UNCHANGED <<procs, kind, mine, saved, owns, interrupts, creator, heap>>

(* It tells its creator, which frees the GuestThreadCloneInfo it used.       *)
Post(c) ==
    /\ at[c] = "post"
    /\ at' = [at EXCEPT ![c] = "guest", ![creator[c]] = "guest"]
    /\ creator' = [creator EXCEPT ![c] = NoTid]
    /\ UNCHANGED <<procs, kind, mine, key, saved, owns, interrupts, table,
                   mutex, heap>>

(* A process that shares memory with its creator runs another program.       *)
Exec(c) ==
    /\ at[c] = "guest"
    /\ space[c] # c /\ pid[c] = c
    /\ Goto(c, "gone")
    /\ UNCHANGED <<procs, kind, mine, key, saved, owns, interrupts, creator,
                   table, mutex, heap>>

(* The host starts a thread.                                                 *)
HostThread(t, c) ==
    /\ at[t] = "host" /\ IsNext(c)
    /\ Begin(c, space[t], pid[t])
    /\ Goto(c, "host")
    /\ UNCHANGED <<kind, mine, key, saved, owns, interrupts, creator, table,
                   mutex, heap>>
-----------------------------------------------------------------------------

(* What a fork copies.                                                       *)
Copy(t, c) ==
    /\ Begin(c, c, c)
    /\ kind' = [kind EXCEPT ![c] = kind[t]]
    /\ mine' = [mine EXCEPT ![c] = mine[t]]
    /\ key' = [key EXCEPT ![c] = key[t]]
    /\ table' = [table EXCEPT ![c] = Table(t)]
    /\ mutex' = [mutex EXCEPT ![c] = mutex[space[t]]]
    /\ heap' = [heap EXCEPT ![c] = heap[space[t]]]
    /\ UNCHANGED <<saved, owns, interrupts, creator>>

(* CloneGuestThread without CLONE_VM, up to FinishFork.                      *)
GuestFork(t, c) ==
    /\ at[t] = "guest" /\ IsNext(c)
    /\ Goto(c, "forked")
    /\ Copy(t, c)

(* fork in host code, which knows nothing of the table.                      *)
HostFork(t, c) ==
    /\ at[t] = "host" /\ IsNext(c)
    /\ Goto(c, "host")
    /\ Copy(t, c)

(* ResetThreadTable, in the child of a fork of the guest; what is left of    *)
(* ResetCurrentGuestThreadAfterFork concerns the code pools.                 *)
ClearThreadTable(c) ==
    /\ at[c] = "forked" /\ Holds(c)
    /\ Release(c)
    /\ table' = [table EXCEPT ![c] = [t \in Tid |-> NoTid]]
    /\ Goto(c, "guest")
    /\ UNCHANGED <<procs, kind, mine, key, saved, owns, interrupts,
                   creator, heap>>

ResetThreadTable(c) ==
    /\ at[c] = "forked" /\ Holds(c)
    /\ Release(c)
    /\ table' = [table EXCEPT ![c] =
                   [t \in Tid |-> IF t = c THEN mine[c] ELSE NoTid]]
    /\ Goto(c, "guest")
    /\ UNCHANGED <<procs, kind, mine, key, saved, owns, interrupts, creator,
                   heap>>

-----------------------------------------------------------------------------

Next ==
    \E t \in Tid :
        \/ Lock(t) \/ CallGuest(t) \/ Interrupt(t)
        \/ AttachFound(t) \/ AttachNew(t) \/ AttachInsert(t)
        \/ HandlerReturns(t) \/ DetachRemoves(t) \/ Destroy(t)
        \/ ReturnFromGuest(t) \/ ReturnFromHost(t) \/ RunDestructor(t) \/ Die(t)
        \/ ExitSyscall(t) \/ ExitRemoves(t) \/ Exit(t)
        \/ BeginFlush(t) \/ Flush(t)
        \/ InsertNew(t) \/ Post(t) \/ Exec(t) \/ ResetThreadTable(t)
        \/ \E c \in Tid :
            \/ CreateThread(t, c) \/ RefuseClone(t, c) \/ HostThread(t, c)
            \/ GuestFork(t, c) \/ HostFork(t, c)

Spec == Init /\ [][Next]_vars
-----------------------------------------------------------------------------

TypeOK ==
    /\ space \in [Tid -> Tid \cup {NoTid}]
    /\ pid \in [Tid -> Tid \cup {NoTid}]
    /\ at \in [Tid -> Place]
    /\ kind \in [Tid -> Kind]
    /\ mine \in [Tid -> Tid \cup {NoTid}]
    /\ key \in [Tid -> BOOLEAN]
    /\ saved \in [Tid -> {NoPlace, "host", "guest", "flush", "post", "dying"}]
    /\ owns \in [Tid -> BOOLEAN]
    /\ interrupts \in 0 .. MaxInterrupts
    /\ creator \in [Tid -> Tid \cup {NoTid}]
    /\ table \in [Tid -> [Tid -> Tid \cup {NoTid}]]
    /\ mutex \in [Tid -> Tid \cup {NoTid}]
    /\ heap \in [Tid -> SUBSET Tid]

(* The CHECKs of GuestThreadMap never fail: a thread that is inserted is not *)
(* in the table ("Thread should not be already in the table!"), one that is  *)
(* removed is, whatever signals and forks came in between.                   *)
ChecksHold ==
    \A t \in Tid : Started(t) =>
        /\ at[t] \in {"insert", "born"} => Table(t)[t] = NoTid
        /\ at[t] \in {"detach", "exit"} => Table(t)[t] # NoTid

(* The table leads to mapped objects only, and to each from one thread:      *)
(* FlushGuestCodeCache, which follows all of them while other threads exit,  *)
(* never touches an object that was destroyed.  The state is well typed.     *)
TableIsLive ==
    /\ TypeOK
    /\ \A m, t \in Tid : table[m][t] # NoTid =>
          /\ table[m][t] \in heap[m]
          /\ \A u \in Tid \ {t} : table[m][u] # table[m][t]

(* The object guest code runs on is the one a signal handler of the same     *)
(* thread will find, and it is mapped: also in the child of a fork and after *)
(* handlers that attached and detached the thread.                           *)
GuestUsesItsObject ==
    \A t \in Tid : at[t] \in {"guest", "flush", "post"} =>
        mine[t] \in heap[space[t]] /\ mine[t] = Table(t)[t]

(* The object of the thread is made or was removed, and is not in the table. *)
Between(t) == at[t] \in {"insert", "born", "destroy", "exiting"}

(* "GuestThread is never leaked": an object that is in no table is about to  *)
(* be inserted or destroyed, and a thread that has ended leaves no entry.    *)
(* (The object of a refused clone, and the entry of a process that shared    *)
(* the memory and runs another program, do stay behind.)                     *)
NothingIsLeaked ==
    \A t \in Tid : Started(t) =>
        /\ t \in heap[space[t]] =>
              Table(t)[t] = t \/ Between(t)
        /\ at[t] = "dead" => Table(t)[t] = NoTid

(* A signal makes a thread wait for itself only in FlushGuestCodeCache, the  *)
(* one place that holds the mutex of the table with signals unblocked.       *)
OnlyFlushWaitsForItself ==
    \A t \in Tid : at[t] = "stuck" => saved[t] = "flush"

(* The mutex of the table will not be released: its holder waits for itself, *)
(* or does not exist in this process.                                        *)
IsLost(t) ==
    LET holder == mutex[space[t]]
    IN  /\ holder # NoTid
        /\ space[holder] # space[t] \/ at[holder] = "stuck"

(* A thread waits for one it started to tell it so, or for the mutex.        *)
Awaits(t, u) ==
    \/ at[t] = "create" /\ creator[u] = t
    \/ at[t] \in TableOps /\ u # t /\ mutex[space[t]] = u

Waits(t) ==
    at[t] = "create" \/ \E u \in Tid : Awaits(t, u)

Runs(t) == Alive(t) /\ at[t] # "stuck" /\ ~Waits(t)

(* Nobody waits in vain: the one a thread waits for runs, or waits for one   *)
(* that does, unless the mutex of the table was lost, in a fork made while   *)
(* another thread held it or to a signal in FlushGuestCodeCache.             *)
WaitsEnd ==
    \A t \in Tid : Waits(t) /\ ~IsLost(t) =>
        \E u \in Tid :
            /\ Awaits(t, u)
            /\ Runs(u) \/ \E v \in Tid : Awaits(u, v) /\ Runs(v)
=============================================================================
