------------------------------ MODULE CowMemory ------------------------------
(***************************************************************************)
(* Copy-on-write memory: the frame allocator and its reference counts      *)
(* (VMM::alloc, VMM::free, VMMInfo), page tables and the page fault        *)
(* handler (AddressSpace), and what fork, execl and exit do to them.       *)
(*                                                                         *)
(* Every process runs on, or is preempted, at any of its steps.  Only the  *)
(* frames that hold user pages are modelled: page tables and directories   *)
(* are never shared between processes.  A page is a user page below        *)
(* 0xF0000000, and its contents one value.                                 *)
(***************************************************************************)
EXTENDS Naturals, FiniteSets, SequencesExt

CONSTANTS
  Procs,     \* processes: a bound, an exited process is not used again
  First,     \* the process the kernel starts
  Pages,     \* user pages
  NoPage,    \* not a page
  Values,    \* what a page may contain
  Zero,      \* what bzero leaves in a frame
  Limit,     \* number of frames
  MaxInDec   \* bound: how many processes may be between dec's two accesses at once

ASSUME CowAssumption ==
  /\ IsFiniteSet(Procs)
  /\ IsFiniteSet(Pages)
  /\ "free" \notin Procs
  /\ First \in Procs
  /\ Zero \in Values
  /\ NoPage \notin Pages
  /\ Limit \in Nat
  /\ MaxInDec \in Nat

Frames  == 1 .. Limit
NoFrame == 0

VARIABLES
  refs,      \* VMMInfo::refs
  freeList,  \* VMMInfo::firstFree and the links from it
  avail,     \* VMMInfo::avail: the first frame that was never used
  contents,  \* per frame
  pte,       \* per process and page: frame (NoFrame: P is clear) and W
  old,       \* per process and page: the frame in the space execl deletes
  pfLock,    \* the process that holds pfLock, or "free"
  loc,       \* per process: where it is
  page,      \* per process: the page of the fault, being copied or being freed
  fresh,     \* per process: the frame the fault handler has allocated
  child      \* per process: the process its fork creates

memVars == <<refs, freeList, avail, contents>>
vars    == <<refs, freeList, avail, contents, pte, old, pfLock, loc, page, fresh, child>>

Unmapped == [va \in Pages |-> [frame |-> NoFrame, w |-> FALSE]]
NoOld    == [va \in Pages |-> NoFrame]

\* "user": user code, or kernel code that leaves the memory alone.  f_*: in
\* the page fault handler; x_*: execl deletes the previous address space;
\* "stalled": fork waits for its child; c_*: the child copies the mappings.
Locations == {"none", "user", "dead", "stalled", "c_next", "c_share",
              "f_look", "f_dec", "f_read", "x_next", "x_read"}

Init ==
  /\ refs = [f \in Frames |-> 0]
  /\ freeList = <<>>
  /\ avail = 1
  /\ contents = [f \in Frames |-> Zero]
  /\ pte = [p \in Procs |-> Unmapped]
  /\ old = [p \in Procs |-> NoOld]
  /\ pfLock = "free"
  /\ loc = [p \in Procs |-> IF p = First THEN "user" ELSE "none"]
  /\ page = [p \in Procs |-> NoPage]
  /\ fresh = [p \in Procs |-> NoFrame]
  /\ child = [p \in Procs |-> p]

-----------------------------------------------------------------------------
(* VMM::alloc and VMM::free *)

\* alloc hands out f, with v in it.  "no more frames" is a panic: no step.
Alloc(f, v) ==
  /\ \/ /\ freeList # <<>>
        /\ f = Head(freeList)
        /\ freeList' = Tail(freeList)
        /\ UNCHANGED avail
     \/ /\ freeList = <<>>
        /\ avail <= Limit
        /\ f = avail
        /\ avail' = avail + 1
        /\ UNCHANGED freeList
  /\ refs[f] = 0
  /\ refs' = [refs EXCEPT ![f] = 1]
  /\ contents' = [contents EXCEPT ![f] = v]

\* dec is an atomic decrement, and then a second, separate read of the count:
\* the lock around them is commented out.
Dec(f) ==
  /\ Cardinality({p \in Procs : loc[p] \in {"f_read", "x_read"}}) < MaxInDec
  /\ refs' = [refs EXCEPT ![f] = @ - 1]

\* Mutant of FreeIfZero: the frame is freed whatever the count.
FreeAlways(f) == freeList' = <<f>> \o freeList

\* Mutant of FreeIfZero: the frame is freed one reference too early, and then
\* with its last reference not.
FreeIfOne(f) == freeList' = IF refs[f] = 1 THEN <<f>> \o freeList ELSE freeList

FreeIfZero(f) ==
  freeList' = IF refs[f] = 0 THEN <<f>> \o freeList ELSE freeList

-----------------------------------------------------------------------------
(* User code and the page fault handler *)

Move(p, to) == loc' = [loc EXCEPT ![p] = to]

\* A store the processor allows.
Write(p, va, v) ==
  /\ loc[p] = "user"
  /\ pte[p][va].w
  /\ contents' = [contents EXCEPT ![pte[p][va].frame] = v]
  /\ UNCHANGED <<refs, freeList, avail, pte, old, pfLock, loc, page, fresh, child>>

\* A store to a page without W, or any access to one without P.
Fault(p, va) ==
  /\ loc[p] = "user"
  /\ ~pte[p][va].w
  /\ pfLock = "free"
  /\ pfLock' = p
  /\ page' = [page EXCEPT ![p] = va]
  /\ Move(p, "f_look")
  /\ UNCHANGED <<memVars, pte, old, fresh, child>>

\* The handler ends with the page mapped, and W set.
MapAndReturn(p, f) ==
  /\ pte' = [pte EXCEPT ![p][page[p]] = [frame |-> f, w |-> TRUE]]
  /\ pfLock' = "free"
  /\ page' = [page EXCEPT ![p] = NoPage]
  /\ Move(p, "user")

FaultZero(p) ==
  /\ loc[p] = "f_look"
  /\ pte[p][page[p]].frame = NoFrame
  /\ \E f \in Frames : Alloc(f, Zero) /\ MapAndReturn(p, f)
  /\ UNCHANGED <<old, fresh, child>>

\* Mutant of FaultReuse: a frame with one other user is taken for unshared.
FaultReuseShared(p) == LET f == pte[p][page[p]].frame IN
  /\ loc[p] = "f_look"
  /\ f # NoFrame
  /\ refs[f] \in 1 .. 2
  /\ MapAndReturn(p, f)
  /\ UNCHANGED <<memVars, old, fresh, child>>

\* The last one that maps a frame gets it back for writing.
FaultReuse(p) == LET f == pte[p][page[p]].frame IN
  /\ loc[p] = "f_look"
  /\ f # NoFrame
  /\ refs[f] = 1
  /\ MapAndReturn(p, f)
  /\ UNCHANGED <<memVars, old, fresh, child>>

FaultCopy(p) == LET f == pte[p][page[p]].frame IN
  /\ loc[p] = "f_look"
  /\ f # NoFrame
  /\ refs[f] # 1
  /\ \E g \in Frames : /\ Alloc(g, contents[f])
                       /\ fresh' = [fresh EXCEPT ![p] = g]
  /\ Move(p, "f_dec")
  /\ UNCHANGED <<pte, old, pfLock, page, child>>

FaultDec(p) ==
  /\ loc[p] = "f_dec"
  /\ Dec(pte[p][page[p]].frame)
  /\ Move(p, "f_read")
  /\ UNCHANGED <<freeList, avail, contents, pte, old, pfLock, page, fresh, child>>

FaultFree(p) ==
  /\ loc[p] = "f_read"
  /\ FreeIfZero(pte[p][page[p]].frame)
  /\ MapAndReturn(p, fresh[p])
  /\ fresh' = [fresh EXCEPT ![p] = NoFrame]
  /\ UNCHANGED <<refs, avail, contents, old, child>>

-----------------------------------------------------------------------------
(* fork: the parent waits while the child's thread goes through its pages *)

Fork(p, q) ==
  /\ loc[p] = "user"
  /\ loc[q] = "none"
  /\ loc' = [loc EXCEPT ![p] = "stalled", ![q] = "c_next"]
  /\ child' = [child EXCEPT ![p] = q]
  /\ UNCHANGED <<memVars, pte, old, pfLock, page, fresh>>

\* Mutant of CopyProtect: the parent may go on writing.
CopyNoProtect(p, va) == LET q == child[p] IN
  /\ loc[p] = "stalled" /\ loc[q] = "c_next"
  /\ pte[p][va].frame # NoFrame /\ pte[q][va].frame = NoFrame
  /\ page' = [page EXCEPT ![q] = va]
  /\ Move(q, "c_share")
  /\ UNCHANGED <<memVars, pte, old, pfLock, fresh, child>>

\* The parent's page becomes read-only ...
CopyProtect(p, va) == LET q == child[p] IN
  /\ loc[p] = "stalled" /\ loc[q] = "c_next"
  /\ pte[p][va].frame # NoFrame /\ pte[q][va].frame = NoFrame
  /\ pte' = [pte EXCEPT ![p][va].w = FALSE]
  /\ page' = [page EXCEPT ![q] = va]
  /\ Move(q, "c_share")
  /\ UNCHANGED <<memVars, old, pfLock, fresh, child>>

\* Mutant of CopyShare: the child's reference is not counted.
CopyShareNoInc(p) == LET q == child[p]
                         f == pte[p][page[q]].frame IN
  /\ loc[p] = "stalled" /\ loc[q] = "c_share"
  /\ pte' = [pte EXCEPT ![q][page[q]] = [frame |-> f, w |-> FALSE]]
  /\ page' = [page EXCEPT ![q] = NoPage]
  /\ Move(q, "c_next")
  /\ UNCHANGED <<memVars, old, pfLock, fresh, child>>

\* ... is counted and mapped read-only in the child.
CopyShare(p) == LET q == child[p]
                    f == pte[p][page[q]].frame IN
  /\ loc[p] = "stalled" /\ loc[q] = "c_share"
  /\ refs' = [refs EXCEPT ![f] = @ + 1]
  /\ pte' = [pte EXCEPT ![q][page[q]] = [frame |-> f, w |-> FALSE]]
  /\ page' = [page EXCEPT ![q] = NoPage]
  /\ Move(q, "c_next")
  /\ UNCHANGED <<freeList, avail, contents, old, pfLock, fresh, child>>

\* sync.set(1) lets the parent go; the child enters user mode.
CopyDone(p) == LET q == child[p] IN
  /\ loc[p] = "stalled" /\ loc[q] = "c_next"
  /\ \A va \in Pages : pte[p][va].frame # NoFrame => pte[q][va].frame # NoFrame
  /\ loc' = [loc EXCEPT ![p] = "user", ![q] = "user"]
  /\ child' = [child EXCEPT ![p] = p]
  /\ UNCHANGED <<memVars, pte, old, pfLock, page, fresh>>

-----------------------------------------------------------------------------
(* execl and exit *)

\* execl changes to a new, empty address space; what ELF::load writes before
\* and after that are stores of the process like any other (CR0.WP is set).
Exec(p) ==
  /\ loc[p] = "user"
  /\ old' = [old EXCEPT ![p] = [va \in Pages |-> pte[p][va].frame]]
  /\ pte' = [pte EXCEPT ![p] = Unmapped]
  /\ Move(p, "x_next")
  /\ UNCHANGED <<memVars, pfLock, page, fresh, child>>

\* ~AddressSpace frees the pages one by one.
DropDec(p, va) ==
  /\ loc[p] = "x_next"
  /\ old[p][va] # NoFrame
  /\ Dec(old[p][va])
  /\ page' = [page EXCEPT ![p] = va]
  /\ Move(p, "x_read")
  /\ UNCHANGED <<freeList, avail, contents, pte, old, pfLock, fresh, child>>

DropFree(p) ==
  /\ loc[p] = "x_read"
  /\ FreeIfZero(old[p][page[p]])
  /\ old' = [old EXCEPT ![p][page[p]] = NoFrame]
  /\ page' = [page EXCEPT ![p] = NoPage]
  /\ Move(p, "x_next")
  /\ UNCHANGED <<refs, avail, contents, pte, pfLock, fresh, child>>

ExecDone(p) ==
  /\ loc[p] = "x_next"
  /\ old[p] = NoOld
  /\ Move(p, "user")
  /\ UNCHANGED <<memVars, pte, old, pfLock, page, fresh, child>>

\* The PCB has no destructor: the address space of an exited process stays.
Exit(p) ==
  /\ loc[p] = "user"
  /\ Move(p, "dead")
  /\ UNCHANGED <<memVars, pte, old, pfLock, page, fresh, child>>

-----------------------------------------------------------------------------
UserStep(p) ==
  \/ \E va \in Pages, v \in Values : Write(p, va, v)
  \/ \E va \in Pages : Fault(p, va)
  \/ \E q \in Procs : Fork(p, q)
  \/ Exec(p) \/ Exit(p)

KernelStep(p) ==
  \/ FaultZero(p) \/ FaultReuse(p) \/ FaultCopy(p) \/ FaultDec(p) \/ FaultFree(p)
  \/ \E va \in Pages : CopyProtect(p, va)
  \/ CopyShare(p) \/ CopyDone(p)
  \/ \E va \in Pages : DropDec(p, va)
  \/ DropFree(p) \/ ExecDone(p)

Next == \E p \in Procs : UserStep(p) \/ KernelStep(p)

Spec == Init /\ [][Next]_vars

\* What the kernel stores in a user buffer, in read and in wait.  Outside execl
\* CR0.WP is clear: in kernel mode the processor does not look at W.
KernelWrite(p, va, v) ==
  /\ loc[p] = "user"
  /\ pte[p][va].frame # NoFrame
  /\ contents' = [contents EXCEPT ![pte[p][va].frame] = v]
  /\ UNCHANGED <<refs, freeList, avail, pte, old, pfLock, loc, page, fresh, child>>

SpecWithKernelWrites ==
  Init /\ [][Next \/ \E p \in Procs, va \in Pages, v \in Values : KernelWrite(p, va, v)]_vars

-----------------------------------------------------------------------------
(* Properties *)

CowTypeOK ==
  /\ refs \in [Frames -> Nat]
  /\ freeList \in Seq(Frames)
  /\ avail \in 1 .. Limit + 1
  /\ contents \in [Frames -> Values]
  /\ pte \in [Procs -> [Pages -> [frame : Frames \cup {NoFrame}, w : BOOLEAN]]]
  /\ old \in [Procs -> [Pages -> Frames \cup {NoFrame}]]
  /\ pfLock \in Procs \cup {"free"}
  /\ loc \in [Procs -> Locations]
  /\ page \in [Procs -> Pages \cup {NoPage}]
  /\ fresh \in [Procs -> Frames \cup {NoFrame}]
  /\ child \in [Procs -> Procs]

\* Every process sees a memory of its own, through forks, copies and execs that
\* interleave.
Alive == {p \in Procs : loc[p] \notin {"none", "dead", "c_next", "c_share"}}

Seen == [p \in Procs |-> [va \in Pages |->
           IF p \in Alive /\ pte[p][va].frame # NoFrame
           THEN contents[pte[p][va].frame] ELSE Zero]]

Private == INSTANCE PrivateMemory WITH alive <- Alive, memory <- Seen
MemoryIsPrivate == Private!Spec

\* The references to a frame: page table entries, entries of a space that execl
\* deletes, and the handler's new frame; an entry counts until its dec.
Refers(p, va, by, f) ==
  \/ by = "pte" /\ va \in Pages /\ pte[p][va].frame = f /\ ~(loc[p] = "f_read" /\ page[p] = va)
  \/ by = "old" /\ va \in Pages /\ old[p][va] = f /\ ~(loc[p] = "x_read" /\ page[p] = va)
  \/ by = "fresh" /\ va = NoPage /\ fresh[p] = f

Tokens == Procs \X (Pages \cup {NoPage}) \X {"pte", "old", "fresh"}

References(f) == {r \in Tokens : Refers(r[1], r[2], r[3], f)}

\* The count of a frame is the number of references to it.
RefsExact == CowTypeOK /\ \A f \in Frames : refs[f] = Cardinality(References(f))

\* A page that may be written without a fault is in nobody else's memory.
WritableIsUnshared ==
  \A p, q \in Procs, va, vb \in Pages :
    pte[p][va].w /\ pte[q][vb].frame = pte[p][va].frame => <<p, va>> = <<q, vb>>

\* The assertion of alloc ("Allocated block has non zero refs"), for the frame
\* that it would take next from the list.
AllocatesUnused == freeList # <<>> => refs[Head(freeList)] = 0

\* The free list and what is above avail are the frames without a reference, each
\* once: alloc finds no frame in use, and no frame is lost but the one a thread is
\* about to free.
AboutToFree(p, f) == \/ loc[p] = "f_read" /\ pte[p][page[p]].frame = f
                     \/ loc[p] = "x_read" /\ old[p][page[p]] = f

FreeListExact ==
  /\ \A f \in ToSet(freeList) \cup avail .. Limit : refs[f] = 0
  /\ IsInjective(freeList)
  /\ \A f \in 1 .. avail - 1 :
       refs[f] = 0 => f \in ToSet(freeList) \/ \E p \in Procs : AboutToFree(p, f)
=============================================================================
