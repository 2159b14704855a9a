------------------------------ MODULE CodePool ------------------------------
(***************************************************************************)
(* The code pools of processes that fork from one another                  *)
(* (runtime_primitives/include/berberis/runtime_primitives/code_pool.h).   *)
(*                                                                         *)
(* A pool hands out consecutive pieces of one executable region and starts *)
(* a new region when the piece does not fit.  A region is a MAP_SHARED     *)
(* memfd: after a fork both processes write to the same bytes, each with a *)
(* copy of current_address_ of its own.  What keeps them apart is that the *)
(* child takes a region of its own before it installs anything: at once    *)
(* when the guest forks (ResetAllExecRegions), at the first Add when the   *)
(* host does (owner_pid_).                                                 *)
(*                                                                         *)
(* An address space is named after the thread that started it, so threads, *)
(* processes and address spaces all are members of Tid.  The kernel does   *)
(* not give a number out twice.                                            *)
(***************************************************************************)
EXTENDS Integers, Sequences, FiniteSets

CONSTANTS
    Tid,                \* thread ids
    Boot,               \* the first thread
    kExecRegionSize,    \* the size of a region
    Align,              \* what the start of a piece is aligned on
    InstallSize,        \* the sizes of the pieces of code
    MaxSize,            \* bound: the largest of these sizes
    MaxAdds             \* bound: how many times code is added

NoTid == 0

VARIABLES
    space,      \* the address space a thread runs in, NoTid before its start
    pid,        \* what getpid() returns to it
    step,       \* what it does with the pool
    pool,       \* the pool of each address space
    region,     \* the memfds, in the order they were created
    code,       \* the pieces an address space was given by its pool
    adds        \* how many calls of Add have ended, in all processes

vars == <<space, pid, step, pool, region, code, adds>>

ASSUME PoolAssumption ==
    /\ Tid \subseteq Nat \ {NoTid}
    /\ Boot \in Tid
    /\ MaxSize \in Nat
    /\ kExecRegionSize \in 1 .. MaxSize
    /\ InstallSize \subseteq 1 .. MaxSize
    /\ Align \in Nat \ {0}
    /\ MaxAdds \in Nat

(* A piece of code: where it is and which one it is. *)
Piece ==
    [region : Nat, start : Nat, size : InstallSize, id : Nat]

Pool ==
    [exec : Nat, current_address : Nat, owner_pid : Tid,
     mutex : Tid \cup {NoTid}, recovery_map : SUBSET (Nat \X Nat)]

Region == [size : 1 .. MaxSize, byte : [0 .. MaxSize - 1 -> Nat]]

Step == {"none", "run", "add", "find", "forked"}

Started(t) == space[t] # NoTid

(* The kernel numbers threads in order. *)
IsNext(c) == ~Started(c) /\ \A d \in Tid : ~Started(d) => c <= d
-----------------------------------------------------------------------------

(* A region just after its creation: no byte belongs to a piece. *)
NewRegion(n) == [size |-> n, byte |-> [i \in 0 .. MaxSize - 1 |-> 0]]

AlignUp(address) == ((address + Align - 1) \div Align) * Align

Larger(a, b) == IF a < b THEN b ELSE a

(* Detaching the current region unmaps its writable alias only: the code in  *)
(* it stays, and so do its recovery points.                                  *)
ResetForgetsRecovery(p, last) ==
    [p EXCEPT !.exec = last, !.current_address = 0, !.recovery_map = {}]

Reset(p, last) == [p EXCEPT !.exec = last, !.current_address = 0]
-----------------------------------------------------------------------------

Init ==
    /\ space = [t \in Tid |-> IF t = Boot THEN Boot ELSE NoTid]
    /\ pid = [t \in Tid |-> IF t = Boot THEN Boot ELSE NoTid]
    /\ step = [t \in Tid |-> IF t = Boot THEN "run" ELSE "none"]
    /\ pool = [m \in Tid |->
                 [exec |-> 1, current_address |-> 0, owner_pid |-> Boot,
                  mutex |-> NoTid, recovery_map |-> {}]]
    /\ region = <<NewRegion(kExecRegionSize)>>
    /\ code = [m \in Tid |-> {}]
    /\ adds = 0

(* A thread takes the mutex of its pool to add a piece.                      *)
BeginAdd(t) ==
    /\ step[t] = "run"
    /\ adds + Cardinality({u \in Tid : step[u] = "add"}) < MaxAdds
    /\ pool[space[t]].mutex = NoTid
    /\ pool' = [pool EXCEPT ![space[t]].mutex = t]
    /\ step' = [step EXCEPT ![t] = "add"]
    /\ UNCHANGED <<space, pid, region, code, adds>>

(* The process forked since the pool took its region.                        *)
HasForkedNever(t) == FALSE

HasForked(t) == pid[t] # pool[space[t]].owner_pid

(* The pool and the regions once the fork has been noticed, in Add.          *)
OwnRegions(t) ==
    IF HasForked(t) THEN Append(region, NewRegion(kExecRegionSize)) ELSE region

OwnPool(t) ==
    LET p == pool[space[t]]
        q == IF HasForked(t)
             THEN [Reset(p, Len(OwnRegions(t))) EXCEPT !.owner_pid = pid[t]]
             ELSE p
    IN  [q EXCEPT !.current_address = AlignUp(q.current_address)]

(* The piece lies inside the current region.                                 *)
Fits(p, regions, size) == p.current_address + size <= regions[p.exec].size

(* A piece is written where the pool stands, with its recovery point.        *)
Install(t, p, regions, size) ==
    LET id == adds + 1
        at == p.current_address
        piece == [region |-> p.exec, start |-> at, size |-> size, id |-> id]
    IN  /\ region' = [regions EXCEPT ![p.exec].byte =
                        [i \in DOMAIN @ |->
                            IF at <= i /\ i < at + size THEN id ELSE @[i]]]
        /\ pool' = [pool EXCEPT ![space[t]] =
                      [p EXCEPT !.current_address = at + size,
                                !.mutex = NoTid,
                                !.recovery_map = @ \cup {<<p.exec, at>>}]]
        /\ code' = [code EXCEPT ![space[t]] = @ \cup {piece}]
        /\ adds' = id

(* The rest of Add, with the mutex held.                                     *)
Add(t, size) ==
    LET p == OwnPool(t)
        regions == OwnRegions(t)
        more == Append(regions, NewRegion(Larger(size, kExecRegionSize)))
    IN  /\ step[t] = "add"
        /\ \/ /\ Fits(p, regions, size)
              /\ Install(t, p, regions, size)
           \/ /\ ~Fits(p, regions, size)
              /\ Install(t, Reset(p, Len(more)), more, size)
        /\ step' = [step EXCEPT ![t] = "run"]
        /\ UNCHANGED <<space, pid>>

(* Mutant: the failing path leaves the mutex locked. *)
AddFailsLocked(t, size) ==
    /\ step[t] = "add"
    /\ ~Fits(OwnPool(t), OwnRegions(t), size)
    /\ region' = OwnRegions(t)
    /\ pool' = [pool EXCEPT ![space[t]] = OwnPool(t)]
    /\ step' = [step EXCEPT ![t] = "run"]
    /\ adds' = adds + 1
    /\ UNCHANGED <<space, pid, code>>

(* The host has no memory for another region: Add returns the null code      *)
(* address, for which the caller installs the interpreter, and the pool      *)
(* keeps its region.                                                         *)
AddFails(t, size) ==
    LET p == OwnPool(t)
        regions == OwnRegions(t)
    IN  /\ step[t] = "add"
        /\ ~Fits(p, regions, size)
        /\ region' = regions
        /\ pool' = [pool EXCEPT ![space[t]] = [p EXCEPT !.mutex = NoTid]]
        /\ step' = [step EXCEPT ![t] = "run"]
        /\ adds' = adds + 1
        /\ UNCHANGED <<space, pid, code>>

(* FindRecoveryCode looks into the pool only if the signal came while the    *)
(* thread was inside generated code.                                         *)
AnywhereInRuntime(t) == step[t] \in {"run", "add"}

InsideGeneratedCode(t) == step[t] = "run" /\ code[space[t]] # {}

Fault(t) ==
    /\ InsideGeneratedCode(t)
    /\ step' = [step EXCEPT ![t] = "find"]
    /\ UNCHANGED <<space, pid, pool, region, code, adds>>

(* The signal handler looks the address up under the mutex.                  *)
FindRecoveryCode(t) ==
    /\ step[t] = "find"
    /\ pool[space[t]].mutex = NoTid
    /\ step' = [step EXCEPT ![t] = "run"]
    /\ UNCHANGED <<space, pid, pool, region, code, adds>>
-----------------------------------------------------------------------------

(* A thread that shares memory with its creator: of the same process, or of  *)
(* a process of its own (CLONE_VM without CLONE_THREAD).                     *)
Share(t, c, p) ==
    /\ Started(t) /\ IsNext(c)
    /\ p \in {pid[t], c}
    /\ space' = [space EXCEPT ![c] = space[t]]
    /\ pid' = [pid EXCEPT ![c] = p]
    /\ step' = [step EXCEPT ![c] = "run"]
    /\ UNCHANGED <<pool, region, code, adds>>

(* A child with a copy of the memory, the mutex of the pool as it is.  The   *)
(* child of a clone of the guest will reset the pools.                       *)
Copy(t, c, first) ==
    /\ step[t] = "run" /\ IsNext(c)
    /\ space' = [space EXCEPT ![c] = c]
    /\ pid' = [pid EXCEPT ![c] = c]
    /\ step' = [step EXCEPT ![c] = first]
    /\ pool' = [pool EXCEPT ![c] = pool[space[t]]]
    /\ code' = [code EXCEPT ![c] = code[space[t]]]
    /\ UNCHANGED <<region, adds>>

(* ResetAllExecRegions takes no mutex: the child has one thread.  It leaves  *)
(* owner_pid_ alone, so the first Add of the child resets the pool again.    *)
ResetExecRegion(c) ==
    /\ step[c] = "forked"
    /\ region' = Append(region, NewRegion(kExecRegionSize))
    /\ pool' = [pool EXCEPT ![c] = Reset(@, Len(region'))]
    /\ step' = [step EXCEPT ![c] = "run"]
    /\ UNCHANGED <<space, pid, code, adds>>

Next ==
    \/ \E t \in Tid :
        \/ BeginAdd(t) \/ Fault(t) \/ FindRecoveryCode(t) \/ ResetExecRegion(t)
        \/ \E size \in InstallSize : Add(t, size) \/ AddFails(t, size)
    \/ \E t, c \in Tid :
        \/ \E p \in Tid : Share(t, c, p)
        \/ \E first \in {"run", "forked"} : Copy(t, c, first)

Spec == Init /\ [][Next]_vars

(* The scheduler runs a thread that holds a mutex, and the mutex lets every  *)
(* thread that waits for it through.                                         *)
Fairness ==
    \A t \in Tid :
        /\ WF_vars(\E size \in InstallSize : Add(t, size) \/ AddFails(t, size))
        /\ SF_vars(FindRecoveryCode(t))

FairSpec == Spec /\ Fairness
-----------------------------------------------------------------------------

TypeOK ==
    /\ space \in [Tid -> Tid \cup {NoTid}]
    /\ pid \in [Tid -> Tid \cup {NoTid}]
    /\ step \in [Tid -> Step]
    /\ pool \in [Tid -> Pool]
    /\ \A m \in Tid : pool[m].exec \in DOMAIN region
    /\ region \in Seq(Region)
    /\ code \in [Tid -> SUBSET Piece]
    /\ adds \in Nat

(* Code stays as it was installed: whatever the processes that share the     *)
(* memfd install, every byte of a piece of code that a process may run is    *)
(* the byte its pool wrote ("Parent translations stay valid", in the comment *)
(* on fork safety of CodePool::Add).                                         *)
CodeIsIntact ==
    \A m \in Tid : \A f \in code[m] :
        /\ f.start + f.size <= region[f.region].size
        /\ \A i \in f.start .. f.start + f.size - 1 :
            region[f.region].byte[i] = f.id

(* A fault in generated code finds its recovery code, in the process that    *)
(* installed the code and in those forked from it.                           *)
RecoveryIsKept ==
    \A m \in Tid : \A f \in code[m] :
        <<f.region, f.start>> \in pool[m].recovery_map

(* A thread never waits for a mutex of the pool that it holds itself: a      *)
(* signal that interrupts Add does not look into the pool.                   *)
FindIsReentrant ==
    \A t \in Tid : step[t] = "find" => pool[space[t]].mutex # t

(* The holder of the mutex does not exist in this process: another thread    *)
(* held it when the process was forked.                                      *)
MutexIsLost(t) ==
    /\ Started(t)
    /\ pool[space[t]].mutex # NoTid
    /\ space[pool[space[t]].mutex] # space[t]

(* A fault in generated code is resolved: the thread goes on, however often  *)
(* other threads add code and whether or not there is memory for it, unless  *)
(* it runs in a process that was forked while another thread added code.     *)
FaultEnds ==
    \A t \in Tid : step[t] = "find" ~> step[t] = "run" \/ MutexIsLost(t)
=============================================================================
