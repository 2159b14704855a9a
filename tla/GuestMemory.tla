----------------------------- MODULE GuestMemory -----------------------------
(***************************************************************************)
(* Which guest pages are executable (guest_os_primitives/guest_map_shadow),*)
(* the memory calls that change it (kernel_api/sys_mman_emulation), and the*)
(* translators that read it before they read guest code                    *)
(* (runtime/arm64/translator_x86_64), composed with the translation cache. *)
(*                                                                         *)
(* The shadow has one bit per page and several pages per byte.  A bit is   *)
(* changed by a load and a store of its byte with no lock, so a call is    *)
(* modelled one page, one load or store and one host call at a time.  What *)
(* is mapped at a page is told apart by a number: a mapping or a store of  *)
(* guest code into a page gives it a new one, and a translation remembers  *)
(* the numbers it was made from.  Addresses are counted in pages; a region *)
(* that starts near the end of a page reaches into the next one.           *)
(*                                                                         *)
(* A guest does not work on one page from two threads at once.  What it    *)
(* cannot avoid is that the kernel places a new mapping on pages that      *)
(* another thread's call is giving up.                                     *)
(***************************************************************************)
EXTENDS Integers, Sequences, FiniteSets

CONSTANTS
    Thread, Addr, StopAddr, InsnSize, MaxRegion, ColdThreshold,
    GearSwitchThreshold,   \* the constants of TranslationCache; Addr: pages
    PagesPerByte,          \* pages whose bits share a byte of shadow_
    ProtectedPage,         \* protected_maps_
    MaxLength,             \* bound: pages of one call
    MaxWork                \* bound: calls and stores that change guest code,
                           \* and times a region is translated

ASSUME MemoryAssumption ==
    /\ Addr \subseteq Nat /\ IsFiniteSet(Addr)
    /\ StopAddr \subseteq Addr
    /\ MaxRegion \in Nat \ {0, 1}     \* a region reaches into the next page
    /\ InsnSize \subseteq 1..MaxRegion
    /\ ColdThreshold \in Nat
    /\ GearSwitchThreshold \in Nat
    /\ PagesPerByte \in Nat \ {0}
    /\ MaxLength \in Nat \ {0}
    /\ MaxWork \in Nat
    /\ ProtectedPage \subseteq Addr

VARIABLES
    hostCode, kind, guestSize, counter, translating, maxGuestSize, job, dirty,
    shadow,      \* the pages whose bit of shadow_ is set
    content,     \* page -> what is mapped there, 0 for nothing
    prot,        \* the pages last given PROT_EXEC by a call that succeeded
    call,        \* thread -> what is left of the call it is in
    trans,       \* thread -> the translator's locals while it holds an entry
    regions,     \* translations begun so far
    madeFrom,    \* entry -> the contents its host code was made from
    calls,       \* calls and stores so far; also the newest content
    disturbed,   \* history: pages whose bit was changed by another's call
                 \* or by a call that failed
    replaced,    \* history: pages mapped executable over executable ones
    died         \* the page a translator died of, if one did

TC == INSTANCE TranslationCache

cacheVars == <<hostCode, kind, guestSize, counter, translating, maxGuestSize,
               job, dirty>>
callVars == <<shadow, content, prot, call, calls, disturbed, replaced>>
transVars == <<trans, regions, madeFrom, died>>
vars == <<cacheVars, callVars, transVars>>

Page == Addr
Unmapped == 0
Nowhere == -1
Content == Unmapped .. (Cardinality(Page) + MaxWork)

(* Consecutive pages, as [first, end). *)
Range == {r \in [first : Page, end : {p + 1 : p \in Page}] :
              /\ r.first < r.end
              /\ r.end - r.first <= MaxLength
              /\ r.first .. (r.end - 1) \subseteq Page}
Pages(r) == r.first .. (r.end - 1)
Mapped(r) == \A p \in Pages(r) : content[p] # Unmapped
Free(r) == \A p \in Pages(r) : content[p] = Unmapped

SameByte(p) == {q \in Page : q \div PagesPerByte = p \div PagesPerByte}

-----------------------------------------------------------------------------
(* A call is the sequence of the steps it has yet to take. *)

Alive == died = Nowhere

Idle(t) == Alive /\ call[t] = << >> /\ TC!Idle(t)

Now(t) == Head(call[t])
At(t, op) == Alive /\ call[t] # << >> /\ Now(t).op = op

(* The pages the steps of a call work on. *)
Work(s) == Pages(s) \cup (IF s.op = "Scan" THEN Pages(s.target) ELSE {})
Busy(t) == UNION {Work(call[t][i]) : i \in 1..Len(call[t])}

Untouched(r) == \A u \in Thread : Pages(r) \cap Busy(u) = {}

(* SetExecutable or ClearExecutable of the pages r, before the page at. *)
Bits(set, r) ==
    [op |-> "Load", set |-> set, first |-> r.first, end |-> r.end,
     at |-> r.first, byte |-> {}, changed |-> FALSE]

UpdateGuestProt(exec, r) == Bits(exec, r)

Step(op, r) == [op |-> op, first |-> r.first, end |-> r.end]

(* GetExecutable of the pages r, before the page at: exec is the bit of the  *)
(* first page.  The result decides whether the call goes on (Check) or which *)
(* bits the pages target get (Copy).                                         *)
Scan(r, then, target) ==
    [op |-> "Scan", first |-> r.first, end |-> r.end, at |-> r.first,
     exec |-> FALSE, then |-> then, target |-> target]

Continue(t, steps) == call' = [call EXCEPT ![t] = steps \o Tail(@)]
Return(t) == call' = [call EXCEPT ![t] = << >>]

(* The content a call or a store brings, different from all the others. *)
Fresh == Cardinality(Page) + calls + 1

(* The thread starts a call on pages no other call is working on. *)
Start(t, r, steps) ==
    /\ Idle(t)
    /\ calls + regions < MaxWork
    /\ Untouched(r)
    /\ calls' = calls + 1
    /\ call' = [call EXCEPT ![t] = steps]
    /\ UNCHANGED <<cacheVars, transVars, shadow, content, prot, disturbed,
                   replaced>>

(* The pages the kernel has placed a mapping on while another thread's call  *)
(* was still at work there.                                                  *)
TakenFromOthers(t, r) ==
    {p \in Pages(r) : \E u \in Thread \ {t} : p \in Busy(u)}

-----------------------------------------------------------------------------
(* The calls. *)

(* MmapForGuest: the host call first.  Without MAP_FIXED the kernel chooses   *)
(* pages that are free; with it the guest chooses.  A call that fails in the  *)
(* kernel changes nothing.                                                    *)
Mmap(t, r, exec) ==
    /\ Idle(t)
    /\ calls + regions < MaxWork
    /\ Free(r) \/ Untouched(r)
    /\ calls' = calls + 1
    /\ content' = [p \in Page |-> IF p \in Pages(r) THEN Fresh ELSE content[p]]
    /\ prot' = IF exec THEN prot \cup Pages(r) ELSE prot \ Pages(r)
    /\ disturbed' = disturbed \cup TakenFromOthers(t, r)
    /\ replaced' = replaced \cup (IF exec THEN Pages(r) \cap shadow ELSE {})
    /\ call' = [call EXCEPT ![t] = <<UpdateGuestProt(exec, r)>>]
    /\ UNCHANGED <<cacheVars, transVars, shadow>>

(* MunmapForGuest: the bits first. *)
Munmap(t, r) ==
    /\ Mapped(r)
    /\ Start(t, r, <<Bits(FALSE, r), Step("Munmap", r)>>)

HostMunmap(t) ==
    LET r == Now(t) IN
    /\ At(t, "Munmap")
    /\ \/ /\ content' = [p \in Page |->
                 IF p \in Pages(r) THEN Unmapped ELSE content[p]]
          /\ prot' = prot \ Pages(r)
          /\ UNCHANGED disturbed
       \/ /\ disturbed' = disturbed \cup (Pages(r) \cap prot)
          /\ UNCHANGED <<content, prot>>
    /\ Return(t)
    /\ UNCHANGED <<cacheVars, transVars, shadow, calls, replaced>>

(* MprotectForGuest: refused for protected mappings, else the bits first. *)
Mprotect(t, r, exec) ==
    /\ Mapped(r)
    /\ Pages(r) \cap ProtectedPage = {}
    /\ Start(t, r, <<UpdateGuestProt(exec, r),
                     Step(IF exec THEN "ProtectExec" ELSE "Protect", r)>>)

HostMprotect(t) ==
    LET r == Now(t)
        new == IF r.op = "ProtectExec" THEN prot \cup Pages(r) ELSE prot \ Pages(r)
    IN
    /\ At(t, "Protect") \/ At(t, "ProtectExec")
    /\ \/ prot' = new /\ UNCHANGED disturbed
       \/ /\ disturbed' = disturbed \cup {p \in Pages(r) : (p \in prot) # (p \in new)}
          /\ UNCHANGED prot
    /\ Return(t)
    /\ UNCHANGED <<cacheVars, transVars, shadow, content, calls, replaced>>

(* MremapForGuest of r to size pages, with MREMAP_FIXED to any pages of the   *)
(* guest's own when fixed.  A shrinking call that may not move is not         *)
(* checked; the others need one permission throughout what they keep.         *)
Mremap(t, r, size, fixed) ==
    LET kept == [r EXCEPT !.end = IF r.first + size < @ THEN r.first + size ELSE @]
        host == [op |-> IF fixed THEN "MremapFixed" ELSE "Mremap",
                 first |-> r.first, end |-> r.end, size |-> size, new |-> Fresh]
    IN
    /\ Mapped(r)
    /\ Start(t, r, IF size <= r.end - r.first /\ ~fixed THEN <<host>>
                   ELSE <<Scan(kept, "Check", kept), host>>)

(* Mutant: the bits of the pages a mapping has left stay. *)
RemapKeepOld(old, new) ==
    IF old.first # new.first
    THEN LET kept == [first |-> old.first,
                      end |-> IF new.end - new.first < old.end - old.first
                              THEN old.first + (new.end - new.first) ELSE old.end]
         IN <<Scan(kept, "Copy", new)>>
    ELSE IF new.end <= old.end
    THEN <<Bits(FALSE, [first |-> new.end, end |-> old.end])>>
    ELSE <<Scan(old, "Copy", [first |-> old.end, end |-> new.end])>>

RemapExecutable(old, new) ==
    IF old.first # new.first
    THEN LET kept == [first |-> old.first,
                      end |-> IF new.end - new.first < old.end - old.first
                              THEN old.first + (new.end - new.first) ELSE old.end]
         IN <<Scan(kept, "Copy", new), Bits(FALSE, old)>>
    ELSE IF new.end <= old.end
    THEN <<Bits(FALSE, [first |-> new.end, end |-> old.end])>>
    ELSE <<Scan(old, "Copy", [first |-> old.end, end |-> new.end])>>

(* The kernel keeps the place if it can shrink there or the pages behind are  *)
(* free, or moves the mapping to free pages; or to the pages asked for.  The   *)
(* pages that stay mapped keep their content, those added are new.             *)
MremapTargets(old, size, fixed) ==
    {new \in Range :
        /\ new.end - new.first = size
        /\ IF fixed THEN /\ Pages(new) \cap Pages(old) = {}
                         /\ Untouched(new)
           ELSE IF size <= old.end - old.first THEN new.first = old.first
           ELSE Pages(new) \ Pages(old) \subseteq {p \in Page : content[p] = Unmapped}
                /\ (new.first = old.first \/ Pages(new) \cap Pages(old) = {})}

HostMremap(t) ==
    LET old == [first |-> Now(t).first, end |-> Now(t).end]
        exec == old.first \in prot
    IN
    /\ At(t, "Mremap") \/ At(t, "MremapFixed")
    /\ \/ \E new \in MremapTargets(old, Now(t).size, Now(t).op = "MremapFixed") :
            LET shift == new.first - old.first
                gone == Pages(old) \ Pages(new)
            IN
            /\ content' = [p \in Page |->
                   IF p \in Pages(new)
                   THEN IF p - shift \in Pages(old) THEN content[p - shift]
                        ELSE Now(t).new
                   ELSE IF p \in gone THEN Unmapped ELSE content[p]]
            /\ prot' = (prot \ (Pages(old) \cup Pages(new))) \cup
                   {p \in Pages(new) : IF p - shift \in Pages(old)
                                       THEN p - shift \in prot ELSE exec}
            /\ disturbed' = disturbed \cup TakenFromOthers(t, new)
            /\ replaced' = replaced \cup (IF shift # 0 THEN Pages(new) \cap shadow ELSE {})
            /\ Continue(t, RemapExecutable(old, new))
       \/ Return(t) /\ UNCHANGED <<content, prot, disturbed, replaced>>
    /\ UNCHANGED <<cacheVars, transVars, shadow, calls>>

-----------------------------------------------------------------------------
(* The steps on the shadow. *)

(* Mutant: the loop over the pages takes one too many. *)
LoadBitsToEnd(t) ==
    LET s == Now(t) IN
    /\ At(t, "Load")
    /\ s.at <= s.end
    /\ call' = [call EXCEPT ![t][1].op = "Store",
                            ![t][1].byte = shadow \cap SameByte(s.at)]
    /\ UNCHANGED <<cacheVars, transVars, shadow, content, prot, calls,
                   disturbed, replaced>>

(* SetExecAddr, the load. *)
LoadBits(t) ==
    LET s == Now(t) IN
    /\ At(t, "Load")
    /\ s.at < s.end
    /\ call' = [call EXCEPT ![t][1].op = "Store",
                            ![t][1].byte = shadow \cap SameByte(s.at)]
    /\ UNCHANGED <<cacheVars, transVars, shadow, content, prot, calls,
                   disturbed, replaced>>

(* SetExecAddr, the store of the whole byte: a bit of a neighbour that was    *)
(* changed since the load is changed back.                                    *)
StoreBits(t) ==
    LET s == Now(t)
        new == IF s.set THEN s.byte \cup {s.at} ELSE s.byte \ {s.at}
    IN
    /\ At(t, "Store")
    /\ shadow' = (shadow \ SameByte(s.at)) \cup new
    /\ disturbed' = disturbed \cup
           {q \in SameByte(s.at) \ {s.at} : (q \in s.byte) # (q \in shadow)}
    /\ call' = [call EXCEPT
           ![t][1] = [s EXCEPT !.op = "Load", !.at = @ + 1, !.byte = {},
                               !.changed = @ \/ ((s.at \in s.byte) # s.set)]]
    /\ UNCHANGED <<cacheVars, transVars, content, prot, calls, replaced>>

(* The end of SetExecutable, or of ClearExecutable when nothing changed. *)
EndBits(t) ==
    LET s == Now(t) IN
    /\ At(t, "Load")
    /\ s.at >= s.end
    /\ s.set \/ ~s.changed
    /\ Continue(t, << >>)
    /\ UNCHANGED <<cacheVars, transVars, shadow, content, prot, calls,
                   disturbed, replaced>>

(* Mutant: a translation in flight when bits are cleared goes on. *)
InvalidateFinishedOnly(t) ==
    LET s == Now(t) IN
    /\ At(t, "Load")
    /\ s.at >= s.end
    /\ ~s.set /\ s.changed
    /\ IF translating = {} THEN TC!InvalidateGuestRange(s.first, s.end)
       ELSE UNCHANGED cacheVars
    /\ Continue(t, << >>)
    /\ replaced' = replaced \ Pages(s)
    /\ UNCHANGED <<transVars, shadow, content, prot, calls, disturbed>>

(* The end of ClearExecutable when a bit changed.  FlushGuestCodeCache, which *)
(* follows, is part of GuestExecution.                                        *)
InvalidateCleared(t) ==
    LET s == Now(t) IN
    /\ At(t, "Load")
    /\ s.at >= s.end
    /\ ~s.set /\ s.changed
    /\ TC!InvalidateGuestRange(s.first, s.end)
    /\ Continue(t, << >>)
    /\ replaced' = replaced \ Pages(s)
    /\ UNCHANGED <<transVars, shadow, content, prot, calls, disturbed>>

(* GetExecutableRegionSize reads a page and goes on until one differs.        *)
(* MremapForGuest fails with EFAULT when its check finds a difference;        *)
(* CopyExecutable sets its target when all is executable.                     *)
ScanPage(t) ==
    LET s == Now(t)
        exec == s.at \in shadow
        mixed == s.at # s.first /\ exec # s.exec
        last == mixed \/ s.at + 1 = s.end
    IN
    /\ At(t, "Scan")
    /\ IF ~last THEN call' = [call EXCEPT ![t][1].at = @ + 1, ![t][1].exec = exec]
       ELSE IF s.then = "Copy"
       THEN Continue(t, <<Bits(exec /\ ~mixed, s.target)>>)
       ELSE IF mixed THEN Return(t) ELSE Continue(t, << >>)
    /\ disturbed' = disturbed \cup
           (IF s.then = "Copy" /\ s.at \in disturbed THEN Pages(s.target) ELSE {})
    /\ UNCHANGED <<cacheVars, transVars, shadow, content, prot, calls, replaced>>

-----------------------------------------------------------------------------
(* Guest code is written. *)

(* A store into a mapped page that is not executable, as a just-in-time       *)
(* compiler does between two calls of mprotect.                               *)
GuestStore(p) ==
    /\ Alive
    /\ calls + regions < MaxWork
    /\ content[p] # Unmapped
    /\ p \notin prot
    /\ Untouched([first |-> p, end |-> p + 1])
    /\ calls' = calls + 1
    /\ content' = [content EXCEPT ![p] = Fresh]
    /\ UNCHANGED <<cacheVars, transVars, shadow, prot, call, disturbed, replaced>>

(* A store into an executable page; the guest then executes IC IVAU, or the   *)
(* riscv64 guest calls riscv_flush_icache.                                    *)
GuestPatch(t, p) ==
    /\ Idle(t)
    /\ calls + regions < MaxWork
    /\ p \in prot
    /\ Untouched([first |-> p, end |-> p + 1])
    /\ calls' = calls + 1
    /\ content' = [content EXCEPT ![p] = Fresh]
    /\ call' = [call EXCEPT ![t] = <<Step("IcIvau", [first |-> p, end |-> p + 1])>>]
    /\ UNCHANGED <<cacheVars, transVars, shadow, prot, disturbed, replaced>>

IcIvau(t) ==
    /\ At(t, "IcIvau")
    /\ TC!InvalidateGuestRange(Now(t).first, Now(t).end)
    /\ Return(t)
    /\ UNCHANGED <<transVars, shadow, content, prot, calls, disturbed, replaced>>

-----------------------------------------------------------------------------
(* TranslateRegion. *)

NoTrans == [phase |-> "None", end |-> 0, source |-> << >>, again |-> FALSE]

Goto(t, phase) == trans' = [trans EXCEPT ![t].phase = phase]

(* The translator cannot go on with the page and takes the process with it. *)
Die(p) == died' = p

Translating(t, phase) == Alive /\ ~TC!Idle(t) /\ trans[t].phase = phase

Lock(t, pc) ==
    /\ Idle(t)
    /\ calls + regions < MaxWork
    /\ regions' = regions + 1
    /\ TC!AddAndLockForTranslation(t, pc) \/ TC!LockForGearUpTranslation(t, pc)
    /\ trans' = [trans EXCEPT ![t] = [NoTrans EXCEPT !.phase = "Check"]]
    /\ UNCHANGED <<callVars, madeFrom, died>>

(* SetTranslatedAndUnlock, which throws the translation away if the entry was *)
(* invalidated since it was locked.                                           *)
Unlock(t, tr, source) ==
    /\ \/ /\ TC!SetTranslatedAndUnlock(t, tr)
          /\ madeFrom' = [madeFrom EXCEPT ![job[t].pc] = source]
       \/ TC!Abandon(t) /\ UNCHANGED madeFrom
    /\ trans' = [trans EXCEPT ![t] = NoTrans]
    /\ UNCHANGED <<callVars, regions, died>>

IsPcExecutable(t) ==
    /\ Translating(t, "Check")
    /\ IF job[t].pc \in shadow
       THEN Goto(t, "Size") /\ UNCHANGED <<cacheVars, callVars, regions, madeFrom, died>>
       ELSE \E size \in InsnSize :
               Unlock(t, [code |-> "NoExec", kind |-> "SpecialHandler",
                          size |-> size], << >>)

(* GetExecutableRegionSize of one page from pc: it ends with the page or, if  *)
(* pc is inside the page, with the next one.  CHECK(is_exec) kills the        *)
(* process.                                                                   *)
SizeFirst(t) ==
    /\ Translating(t, "Size")
    /\ IF job[t].pc \in shadow THEN Goto(t, "SizeNext") /\ UNCHANGED died
       ELSE Die(job[t].pc) /\ UNCHANGED trans
    /\ UNCHANGED <<cacheVars, callVars, regions, madeFrom>>

SizeNext(t) ==
    LET pc == job[t].pc IN
    /\ Translating(t, "SizeNext")
    /\ \E next \in {n \in {pc, pc + 1} : n = pc + 1 => n \in shadow} :
           trans' = [trans EXCEPT ![t].phase = "Read", ![t].end = next + 1]
    /\ UNCHANGED <<cacheVars, callVars, regions, madeFrom, died>>

(* The decoder reads the next page of the region; nothing is mapped there     *)
(* only when another thread unmaps code that is being run.                    *)
ReadPage(t) ==
    LET p == job[t].pc + Len(trans[t].source) IN
    /\ Translating(t, "Read")
    /\ p < trans[t].end
    /\ IF content[p] = Unmapped THEN Die(p) /\ UNCHANGED trans
       ELSE /\ trans' = [trans EXCEPT ![t].source = Append(@, content[p])]
            /\ UNCHANGED died
    /\ UNCHANGED <<cacheVars, callVars, regions, madeFrom>>

(* The region is installed, whatever part of the pages it covers. *)
Install(t) ==
    /\ Translating(t, "Read")
    /\ trans[t].source # << >>
    /\ \E k \in IF job[t].op = "GearUp" /\ ~trans[t].again
                THEN {"HeavyOptimized"} ELSE {"LiteTranslated"} :
           Unlock(t, [code |-> "Generated", kind |-> k,
                      size |-> Len(trans[t].source)], trans[t].source)

(* The heavy optimizer gives up and the lite translator starts from the       *)
(* beginning, or that one gives up too and the instruction is interpreted.    *)
GiveUp(t) ==
    /\ Translating(t, "Read")
    /\ trans[t].source # << >>
    /\ IF job[t].op = "GearUp" /\ ~trans[t].again
       THEN /\ trans' = [trans EXCEPT ![t] = [NoTrans EXCEPT !.phase = "Size",
                                                             !.again = TRUE]]
            /\ UNCHANGED <<cacheVars, callVars, regions, madeFrom, died>>
       ELSE \E size \in InsnSize :
               Unlock(t, [code |-> "Interpret", kind |-> "Interpreted",
                          size |-> size], << >>)

-----------------------------------------------------------------------------

(* Some pages are mapped, some of them executable, nothing is translated. *)
Init ==
    /\ TC!Init
    /\ \E mapped \in SUBSET Page : \E exec \in SUBSET mapped :
           /\ ProtectedPage \subseteq exec
           /\ content = [p \in Page |->
                  IF p \in mapped THEN Cardinality({q \in Page : q <= p}) ELSE Unmapped]
           /\ shadow = exec
           /\ prot = exec
    /\ call = [t \in Thread |-> << >>]
    /\ trans = [t \in Thread |-> NoTrans]
    /\ regions = 0
    /\ madeFrom = [pc \in Addr |-> << >>]
    /\ calls = 0
    /\ disturbed = {}
    /\ replaced = {}
    /\ died = Nowhere

Call(t) ==
    \E r \in Range :
        \/ \E exec \in BOOLEAN : Mmap(t, r, exec)
        \/ Munmap(t, r)
        \/ \E exec \in BOOLEAN : Mprotect(t, r, exec)
        \/ \E size \in 1..MaxLength, fixed \in BOOLEAN : Mremap(t, r, size, fixed)

Next ==
    \/ \E p \in Page : GuestStore(p)
    \/ \E t \in Thread :
        \/ Call(t)
        \/ HostMunmap(t)
        \/ HostMprotect(t)
        \/ HostMremap(t)
        \/ LoadBits(t)
        \/ StoreBits(t)
        \/ EndBits(t)
        \/ InvalidateCleared(t)
        \/ ScanPage(t)
        \/ \E p \in Page : GuestPatch(t, p)
        \/ IcIvau(t)
        \/ \E pc \in TC!CodeAddr : Lock(t, pc)
        \/ IsPcExecutable(t)
        \/ SizeFirst(t)
        \/ SizeNext(t)
        \/ ReadPage(t)
        \/ Install(t)
        \/ GiveUp(t)

Spec == Init /\ [][Next]_vars

-----------------------------------------------------------------------------

BitsStep ==
    [op : {"Load", "Store"}, set : BOOLEAN, first : Int, end : Int, at : Int,
     byte : SUBSET Page, changed : BOOLEAN]
ScanStep ==
    [op : {"Scan"}, first : Int, end : Int, at : Int, exec : BOOLEAN,
     then : {"Check", "Copy"}, target : [first : Int, end : Int]]
RangeStep ==
    [op : {"Munmap", "Protect", "ProtectExec", "IcIvau"}, first : Int, end : Int]
MremapStep ==
    [op : {"Mremap", "MremapFixed"}, first : Int, end : Int, size : 1..MaxLength,
     new : Content]

CallStep == BitsStep \cup ScanStep \cup RangeStep \cup MremapStep

Source == Seq(Content \ {Unmapped})

Trans ==
    [phase : {"None", "Check", "Size", "SizeNext", "Read"}, end : Int,
     source : Source, again : BOOLEAN]

TypeOK ==
    /\ TC!TypeOK
    /\ shadow \subseteq Page
    /\ content \in [Page -> Content]
    /\ prot \subseteq Page
    /\ call \in [Thread -> Seq(CallStep)]
    /\ trans \in [Thread -> Trans]
    /\ \A t \in Thread : trans[t].phase = "None" <=> TC!Idle(t)
    /\ madeFrom \in [Addr -> Source]
    /\ regions \in Nat /\ calls \in Nat /\ calls + regions <= MaxWork
    /\ disturbed \subseteq Page
    /\ replaced \subseteq Page
    /\ died \in Page \cup {Nowhere}

(* The pages no call is at work on. *)
Settled == {p \in Page : \A t \in Thread : p \notin Busy(t)}

(* Once the calls on a page are over, its bit says whether the guest may      *)
(* execute it, whatever the neighbours in the byte, moved, grown and shrunk   *)
(* mappings included.  The exceptions are a page whose bit another thread's   *)
(* call wrote over, and one whose call failed in the kernel after its bits    *)
(* were changed.  The state is well typed.                                    *)
XbitIsExact ==
    /\ TypeOK
    /\ \A p \in Settled \ disturbed : p \in shadow <=> p \in prot

(* Code that can be dispatched was made from what is mapped now on each of    *)
(* its pages, though it was translated while calls were under way: bits are   *)
(* cleared before the range is invalidated, and a translator checks them      *)
(* after it has locked its entry.  The exceptions are the pages above, and    *)
(* those mapped executable over executable ones, which SetExecutable does not *)
(* invalidate.                                                                *)
NoStaleCode ==
    \A pc \in Addr : hostCode[pc] = "Generated" =>
        \A i \in 1..Len(madeFrom[pc]) :
            LET p == pc + i - 1 IN
            p \in Settled \ (disturbed \cup replaced) => madeFrom[pc][i] = content[p]

(* A translator fails CHECK(is_exec) or reads where nothing is mapped only if *)
(* a call has taken the page away from under it: not because of calls on      *)
(* other pages, unless they wrote over its bit.                               *)
DiesOnlyOfItsPage ==
    died # Nowhere => died \notin Settled \/ died \notin prot \/ died \in disturbed

=============================================================================
