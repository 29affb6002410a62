----------------------------- MODULE Descriptors -----------------------------
(***************************************************************************)
(* The descriptors of processes (kernel/threads.h, kernel/sys.cc): the     *)
(* tables of open files and of semaphores, the objects they point to       *)
(* through StrongPtr (kernel/refs.h), the cache of files that are open     *)
(* anywhere (g_FS::openFiles, a kernel/hashmap.h), and the calls open,     *)
(* close, read, write, seek, sem, up, down, fork and exit on them.  len    *)
(* and execl change none of this, and so does a call that answers -1.      *)
(*                                                                         *)
(* One processor: the Makefile starts one.  A process has one thread; an   *)
(* action goes from one point where the thread can be left by the          *)
(* processor to the next one that others could notice.  A spin lock is     *)
(* held with interrupts off, so what it guards is one step.                *)
(***************************************************************************)
EXTENDS Naturals, SequencesExt, FiniteSetsExt

CONSTANTS
  Procs,        \* the processes there may be
  FirstProc,    \* the one there is at the start
  Inodes,       \* the files of the disk
  FileSize,     \* their size
  MaxNum,       \* PCB::max_num, entries of a table
  Std,          \* entries that PCB's constructor opens on the console; it opens 3
  BucketCount,  \* MAP_INITIAL_SIZE
  MaxObjects,   \* bound: objects that exist at the same time
  MaxOffset,    \* bound: offsets
  MaxCalls,     \* bound: calls that are made
  Null

ASSUME DescriptorsAssumption ==
  /\ FirstProc \in Procs /\ IsFiniteSet(Procs)
  /\ Inodes \subseteq Nat \ {0} /\ FileSize \in Nat
  /\ MaxNum \in Nat /\ Std \in 1 .. MaxNum
  /\ BucketCount \in Nat /\ BucketCount > 0
  /\ MaxObjects \in Nat /\ MaxObjects > Std
  /\ Null \notin Procs \cup Nat

Console == 0                    \* the n of a file that is the console
Slots   == 0 .. MaxNum - 1
Ids     == 1 .. MaxObjects

Object(kind, file, n) ==
  [kind |-> kind, refs |-> 0, file |-> file, n |-> n, waiters |-> <<>>]

Freed == Object("free", Null, 0)

VARIABLES
  objects,     \* per id: File (n is its inode), OpenFile (its file; n is the
               \* offset), Semaphore (n is the count), or Freed
  fdArray,     \* per process: PCB::fdArray, ids
  semaphores,  \* per process: PCB::semaphores
  openFiles,   \* the buckets of the hashmap: chains of [key, val]
  size,        \* Hashmap::size
  hung,        \* the processor spins with interrupts off
  pc,          \* per process: where its thread is
  loc,         \* per process: the locals of the call, [file, arg, slot]
  calls

tables == <<fdArray, semaphores>>
cache  == <<openFiles, size, hung>>
vars   == <<objects, tables, cache, pc, loc, calls>>

NoLocals == [file |-> Null, arg |-> 0, slot |-> 0]

Opening == {"found", "hit", "miss", "alloc"}

-----------------------------------------------------------------------------
(* StrongPtr *)

\* The id that an action gives to a new object, as long as MaxObjects allows one.
Room     == \E i \in Ids : objects[i] = Freed
Fresh(O) == CHOOSE i \in Ids : O[i] = Freed

\* new T, and the StrongPtr that is made of it.
Create(O, id, obj) == [O EXCEPT ![id] = [obj EXCEPT !.refs = 1]]

\* Copying a pointer.
Inc(O, x) == IF x = Null THEN O ELSE [O EXCEPT ![x].refs = @ + 1]

Dec(O, x) ==
  IF x = Null THEN O
  ELSE IF O[x].refs = 1 THEN [O EXCEPT ![x] = Freed]
  ELSE [O EXCEPT ![x].refs = @ - 1]

\* ~StrongPtr, reset and the pointer that is assigned over: ~OpenFile lets its
\* file go.
Release(O, x) ==
  IF x # Null /\ O[x].refs = 1 THEN Dec(Dec(O, x), O[x].file) ELSE Dec(O, x)

\* A new OpenFile, which copies the pointer to the file.
CreateOpen(O, id, f, off) == Create(Inc(O, f), id, Object("open", f, off))

-----------------------------------------------------------------------------
(* PCB *)

\* d of p gets a new OpenFile, and what was there is let go.
Install(p, d, f, off) ==
  LET o == Fresh(objects)
  IN  /\ objects' = Release(CreateOpen(objects, o, f, off), fdArray[p][d])
      /\ fdArray' = [fdArray EXCEPT ![p][d] = o]

NullSlots(table) == {i \in Slots : table[i] = Null}
FirstNull(table) == Min(NullSlots(table))

\* The first process has the PCB that its thread was made with.
Init ==
  /\ objects = [i \in Ids |->
       IF i = 1 THEN [Object("file", Null, Console) EXCEPT !.refs = Std]
       ELSE IF i <= Std + 1 THEN [Object("open", 1, 0) EXCEPT !.refs = 1] ELSE Freed]
  /\ fdArray = [p \in Procs |-> [d \in Slots |->
       IF p = FirstProc /\ d < Std THEN d + 2 ELSE Null]]
  /\ semaphores = [p \in Procs |-> [s \in Slots |-> Null]]
  /\ openFiles = [b \in 0 .. BucketCount - 1 |-> <<>>]
  /\ size = 0 /\ hung = FALSE
  /\ pc = [p \in Procs |-> IF p = FirstProc THEN "user" ELSE "none"]
  /\ loc = [p \in Procs |-> NoLocals]
  /\ calls = 0

\* A process enters the kernel.
Call(p) ==
  /\ pc[p] = "user" /\ ~hung /\ calls < MaxCalls
  /\ calls' = calls + 1

\* It is somewhere in the kernel and runs.
At(p, where) == pc[p] = where /\ ~hung /\ UNCHANGED calls

Goto(p, where, locals) ==
  /\ pc' = [pc EXCEPT ![p] = where]
  /\ loc' = [loc EXCEPT ![p] = locals]

Stay == UNCHANGED <<pc, loc>>

-----------------------------------------------------------------------------
(* Hashmap *)

Chain(key) == openFiles[key % BucketCount]
HasKey(key) == \E i \in DOMAIN Chain(key) : Chain(key)[i].key = key
ValueOf(key) == Chain(key)[CHOOSE i \in DOMAIN Chain(key) : Chain(key)[i].key = key].val

\* size / bucket_count > load_limit.
OverLimit == 4 * size > 3 * BucketCount

\* insert and operator[] hold mLock and call resize, which takes it again: with
\* interrupts off, and so for ever.
Resize ==
  /\ hung' = TRUE
  /\ UNCHANGED <<objects, tables, openFiles, size, pc, loc>>

AppendNode(key, val) ==
  /\ openFiles' = [openFiles EXCEPT ![key % BucketCount] = Append(@, [key |-> key, val |-> val])]
  /\ size' = size + 1

-----------------------------------------------------------------------------
(* open *)

\* BobFS::find has come back with the node.
Open(p, inum) ==
  /\ Call(p)
  /\ Goto(p, "found", [NoLocals EXCEPT !.arg = inum])
  /\ UNCHANGED <<objects, tables, cache>>

Lookup(p) ==
  /\ At(p, "found")
  /\ Goto(p, IF HasKey(loc[p].arg) THEN "hit" ELSE "miss", loc[p])
  /\ UNCHANGED <<objects, tables, cache>>

\* operator[] and the assignment to the local pointer.
Hit(p) ==
  /\ At(p, "hit")
  /\ IF OverLimit THEN Resize
     ELSE LET f == ValueOf(loc[p].arg)
          IN  /\ objects' = Inc(objects, f)
              /\ Goto(p, "alloc", [loc[p] EXCEPT !.file = f])
              /\ UNCHANGED <<tables, cache>>

\* Mutant of Insert: a key that is there is not looked for.
InsertAlways(O, key, f) ==
  /\ AppendNode(key, f)
  /\ objects' = Inc(O, f)

\* insert of a key that is there leaves the map alone.
Insert(O, key, f) ==
  IF HasKey(key) THEN objects' = O /\ UNCHANGED <<openFiles, size>>
  ELSE /\ AppendNode(key, f)
       /\ objects' = Inc(O, f)

\* A new FsFile, and the insertion.
Miss(p) ==
  /\ At(p, "miss")
  /\ IF OverLimit THEN Resize
     ELSE LET f == Fresh(objects)
          IN  /\ Room
              /\ Insert(Create(objects, f, Object("file", Null, loc[p].arg)), loc[p].arg, f)
              /\ Goto(p, "alloc", [loc[p] EXCEPT !.file = f])
              /\ UNCHANGED <<tables, hung>>

\* allocateFD, in a place that is null; the local pointer goes.
AllocateFD(p) ==
  /\ At(p, "alloc")
  /\ IF NullSlots(fdArray[p]) = {}
     THEN /\ objects' = Release(objects, loc[p].file)
          /\ UNCHANGED fdArray
     ELSE LET o == Fresh(objects)
          IN  /\ Room
              /\ objects' = Release(CreateOpen(objects, o, loc[p].file, 0), loc[p].file)
              /\ fdArray' = [fdArray EXCEPT ![p][FirstNull(fdArray[p])] = o]
  /\ Goto(p, "user", NoLocals)
  /\ UNCHANGED <<semaphores, cache>>

-----------------------------------------------------------------------------
(* read, write, seek *)

IsOpenFile(p, d) == fdArray[p][d] # Null

\* The call holds a pointer to the file while the disk or the console is at work.
StartIO(p, d, op) ==
  /\ Call(p) /\ IsOpenFile(p, d) /\ objects[fdArray[p][d]].n + 2 <= MaxOffset
  /\ LET f == objects[fdArray[p][d]].file
     IN  /\ objects' = Inc(objects, f)
         /\ Goto(p, op, [NoLocals EXCEPT !.file = f, !.arg = d])
  /\ UNCHANGED <<tables, cache>>

\* The offset of the descriptor grows by n; the local pointer goes.
EndIO(p, n) ==
  LET o == fdArray[p][loc[p].arg]
  IN  /\ objects' = Release([objects EXCEPT ![o].n = @ + n], loc[p].file)
      /\ Goto(p, "user", NoLocals)
      /\ UNCHANGED <<tables, cache>>

\* One byte is asked for.  Of the console there always is one.
EndRead(p) ==
  /\ At(p, "read")
  /\ LET o == objects[fdArray[p][loc[p].arg]]
     IN  EndIO(p, IF objects[o.file].n = Console \/ o.n < FileSize THEN 1 ELSE 0)

\* One byte: writeAll adds it to the offset, and write once more if it is a file.
EndWrite(p) ==
  /\ At(p, "write")
  /\ EndIO(p, IF objects[loc[p].file].n = Console THEN 1 ELSE 2)

Seek(p, d, off) ==
  /\ Call(p) /\ IsOpenFile(p, d)
  /\ objects' = [objects EXCEPT ![fdArray[p][d]].n = off]
  /\ Stay /\ UNCHANGED <<tables, cache>>

-----------------------------------------------------------------------------
(* sem, up, down, close *)

\* allocateSemaphore.
Sem(p, initial) ==
  /\ Call(p) /\ NullSlots(semaphores[p]) # {} /\ Room
  /\ LET x == Fresh(objects)
     IN  /\ objects' = Create(objects, x, Object("sem", Null, initial))
         /\ semaphores' = [semaphores EXCEPT ![p][FirstNull(semaphores[p])] = x]
  /\ Stay /\ UNCHANGED <<fdArray, cache>>

Down(p, s) ==
  /\ Call(p) /\ semaphores[p][s] # Null
  /\ LET x == semaphores[p][s]
     IN  IF objects[x].n > 0
         THEN objects' = [objects EXCEPT ![x].n = @ - 1] /\ Stay
         ELSE /\ objects' = [objects EXCEPT ![x].waiters = Append(@, p)]
              /\ Goto(p, "down", [NoLocals EXCEPT !.arg = s])
  /\ UNCHANGED <<tables, cache>>

\* up hands the permit to the first who waits.
Up(p, s) ==
  /\ Call(p) /\ semaphores[p][s] # Null
  /\ LET x == semaphores[p][s]
     IN  IF objects[x].waiters = <<>>
         THEN objects' = [objects EXCEPT ![x].n = @ + 1] /\ Stay
         ELSE /\ objects' = [objects EXCEPT ![x].waiters = Tail(@)]
              /\ Goto(Head(objects[x].waiters), "user", NoLocals)
  /\ UNCHANGED <<tables, cache>>

CloseFile(p, d) ==
  /\ Call(p) /\ fdArray[p][d] # Null
  /\ objects' = Release(objects, fdArray[p][d])
  /\ fdArray' = [fdArray EXCEPT ![p][d] = Null]
  /\ Stay /\ UNCHANGED <<semaphores, cache>>

CloseSemaphore(p, s) ==
  /\ Call(p) /\ semaphores[p][s] # Null
  /\ objects' = Release(objects, semaphores[p][s])
  /\ semaphores' = [semaphores EXCEPT ![p][s] = Null]
  /\ Stay /\ UNCHANGED <<fdArray, cache>>

-----------------------------------------------------------------------------
(* fork and exit *)

\* A new thread, with a PCB, whose constructor makes a file for the console.
Fork(p, c) ==
  /\ Call(p) /\ pc[c] = "none" /\ Room
  /\ LET f == Fresh(objects)
     IN  /\ objects' = Create(objects, f, Object("file", Null, Console))
         /\ loc' = [loc EXCEPT ![p] = [file |-> f, arg |-> c, slot |-> 0]]
  /\ pc' = [pc EXCEPT ![p] = "pcb", ![c] = "made"]
  /\ UNCHANGED <<tables, cache>>

\* The constructor opens it for one descriptor after the other.
PcbOpen(p) ==
  /\ At(p, "pcb") /\ loc[p].slot < Std /\ Room
  /\ Install(loc[p].arg, loc[p].slot, loc[p].file, 0)
  /\ Goto(p, "pcb", [loc[p] EXCEPT !.slot = @ + 1])
  /\ UNCHANGED <<semaphores, cache>>

\* Its pointer to the file goes.  The child can run, and the parent stalls.
PcbDone(p) ==
  /\ At(p, "pcb") /\ loc[p].slot = Std
  /\ objects' = Release(objects, loc[p].file)
  /\ pc' = [pc EXCEPT ![p] = "forking", ![loc[p].arg] = "copy_file"]
  /\ loc' = [loc EXCEPT ![p] = NoLocals, ![loc[p].arg].arg = p]
  /\ UNCHANGED <<tables, cache>>

\* Mutant of AssignPtr: the pointer is copied as it is.
AssignRaw(O, from, to) == O

\* A pointer is assigned over another one.
AssignPtr(O, from, to) == Release(Inc(O, from), to)

\* Mutant of CopyFile: the child points to the OpenFile of the parent.
CopyFileShared(c) ==
  /\ At(c, "copy_file") /\ loc[c].slot < MaxNum
  /\ LET d    == loc[c].slot
         from == fdArray[loc[c].arg][d]
     IN  IF from = Null THEN UNCHANGED <<objects, fdArray>>
         ELSE /\ objects' = AssignPtr(objects, from, fdArray[c][d])
              /\ fdArray' = [fdArray EXCEPT ![c][d] = from]
  /\ Goto(c, "copy_sem", loc[c])
  /\ UNCHANGED <<semaphores, cache>>

\* The child copies the OpenFile.  What the parent has closed stays what the
\* child's constructor made it.
CopyFile(c) ==
  /\ At(c, "copy_file") /\ loc[c].slot < MaxNum
  /\ LET d    == loc[c].slot
         from == fdArray[loc[c].arg][d]
     IN  IF from = Null THEN UNCHANGED <<objects, fdArray>>
         ELSE Room /\ Install(c, d, objects[from].file, objects[from].n)
  /\ Goto(c, "copy_sem", loc[c])
  /\ UNCHANGED <<semaphores, cache>>

\* Of the semaphore it copies the pointer.
CopySemaphore(c) ==
  /\ At(c, "copy_sem")
  /\ LET s    == loc[c].slot
         from == semaphores[loc[c].arg][s]
     IN  /\ objects' = AssignPtr(objects, from, semaphores[c][s])
         /\ semaphores' = [semaphores EXCEPT ![c][s] = from]
  /\ Goto(c, "copy_file", [loc[c] EXCEPT !.slot = @ + 1])
  /\ UNCHANGED <<fdArray, cache>>

\* The parent can go.
CopyDone(c) ==
  /\ At(c, "copy_file") /\ loc[c].slot = MaxNum
  /\ pc' = [pc EXCEPT ![loc[c].arg] = "user", ![c] = "user"]
  /\ loc' = [loc EXCEPT ![c] = NoLocals]
  /\ UNCHANGED <<objects, tables, cache>>

\* The call that never returns keeps its pointer to the PCB: the tables stay.
Exit(p) ==
  /\ Call(p)
  /\ Goto(p, "exited", NoLocals)
  /\ UNCHANGED <<objects, tables, cache>>

-----------------------------------------------------------------------------
OpenStep(p)  == Lookup(p) \/ Hit(p) \/ Miss(p) \/ AllocateFD(p)
IOStep(p)    == EndRead(p) \/ EndWrite(p)
ForkStep(p)  == PcbOpen(p) \/ PcbDone(p) \/ CopyFile(p) \/ CopySemaphore(p) \/ CopyDone(p)

Next == \E p \in Procs :
  \/ OpenStep(p) \/ IOStep(p) \/ ForkStep(p)
  \/ \E inum \in Inodes : Open(p, inum)
  \/ \E d \in Slots : \/ StartIO(p, d, "read") \/ StartIO(p, d, "write")
                      \/ \E off \in 0 .. MaxOffset : Seek(p, d, off)
                      \/ CloseFile(p, d)
                      \/ Down(p, d) \/ Up(p, d) \/ CloseSemaphore(p, d)
  \/ \E initial \in 0 .. 1 : Sem(p, initial)
  \/ \E c \in Procs : Fork(p, c)
  \/ Exit(p)

Spec == Init /\ [][Next]_vars

\* A thread in the kernel that is ready runs again (Scheduler!ReadyRuns).
FairSpec ==
  Spec /\ \A p \in Procs : WF_vars(OpenStep(p)) /\ WF_vars(IOStep(p)) /\ WF_vars(ForkStep(p))

-----------------------------------------------------------------------------
(* Properties *)

Cells == Procs \X Slots
Nodes == {a \in (0 .. BucketCount - 1) \X (1 .. size) : a[2] <= Len(openFiles[a[1]])}

\* How many pointers there are to object x: descriptors, OpenFiles, the nodes of
\* the cache and the locals of calls in progress.
PointersTo(x) ==
    Cardinality({c \in Cells : fdArray[c[1]][c[2]] = x})
  + Cardinality({c \in Cells : semaphores[c[1]][c[2]] = x})
  + Cardinality({o \in Ids : objects[o].file = x})
  + Cardinality({a \in Nodes : openFiles[a[1]][a[2]].val = x})
  + Cardinality({p \in Procs : loc[p].file = x})

KindsRight ==
  /\ \A c \in Cells : /\ fdArray[c[1]][c[2]] # Null => objects[fdArray[c[1]][c[2]]].kind = "open"
                      /\ semaphores[c[1]][c[2]] # Null =>
                           objects[semaphores[c[1]][c[2]]].kind = "sem"
  /\ \A o \in Ids : objects[o].kind = "open" => objects[objects[o].file].kind = "file"

\* An object is there exactly as long as somebody points to it, whatever order
\* opens, closes, forks and exits come in, and whoever sleeps in down sleeps in
\* a semaphore that is there and that it can still be woken from.
CountsExact ==
  /\ KindsRight
  /\ \A x \in Ids : objects[x].refs = PointersTo(x) /\ (objects[x] = Freed <=> PointersTo(x) = 0)
  /\ \A p \in Procs : pc[p] = "down" =>
       \E i \in DOMAIN objects[semaphores[p][loc[p].arg]].waiters :
         objects[semaphores[p][loc[p].arg]].waiters[i] = p

\* The cache of open files is a map although two opens of one file may both miss
\* it: every key is in its bucket, once, with a file of that inode that is there.
CacheIsMap ==
  /\ Cardinality(Nodes) = size
  /\ \A a \in Nodes :
       LET node == openFiles[a[1]][a[2]]
       IN  /\ node.key % BucketCount = a[1]
           /\ objects[node.val].kind = "file" /\ objects[node.val].n = node.key
           /\ \A b \in Nodes : openFiles[b[1]][b[2]].key = node.key => a = b

\* An offset moves only by a call of the process whose descriptor it is: fork gives
\* the child OpenFiles of its own, at the offsets of the parent.
OffsetsPrivate ==
  [][\A c, e \in Cells :
       LET o == fdArray[c[1]][c[2]]
       IN  o # Null /\ fdArray[e[1]][e[2]] = o /\ objects'[o].n # objects[o].n => e = c]_vars

\* A call of open returns, unless as many files have ever been opened as the
\* table of the cache can take: closing takes none of them out again.
Overfull == Cardinality({i \in Inodes : HasKey(i)}) > (3 * BucketCount) \div 4

OpenReturns ==
  \A p \in Procs : pc[p] \in Opening ~> pc[p] \notin Opening \/ Overfull
=============================================================================
