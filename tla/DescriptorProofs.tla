--------------------------- MODULE DescriptorProofs ---------------------------
(***************************************************************************)
(* Proofs about Descriptors, for all processes, files, tables and buckets. *)
(*                                                                         *)
(* Of the pointers to an object, those of OpenFiles are in the objects     *)
(* themselves, and the others are held outside: by descriptors, tables of  *)
(* semaphores, nodes of the cache and calls.  Every operation of StrongPtr *)
(* changes what is counted outside by one for the pointer it is given      *)
(* (IncFacts, CreateFacts, ReleaseFacts), whatever happens to OpenFiles,   *)
(* and every action changes what is held outside by as much.               *)
(***************************************************************************)
EXTENDS Descriptors, QueueLemmas, FiniteSetTheorems, WellFoundedInduction

Places == {"none", "made", "user", "found", "hit", "miss", "alloc", "read", "write", "down",
           "pcb", "forking", "copy_file", "copy_sem", "exited"}

\* What there can be in the place of an object.
Things == [kind : {"free", "file", "open", "sem"}, refs : Nat, file : Ids \cup {Null},
           n : Nat, waiters : Seq(Procs)]

\* Objects that are there count something, and an OpenFile has a file.
Good(O) ==
  /\ O \in [Ids -> Things]
  /\ \A x \in Ids : /\ O[x].refs = 0 <=> O[x] = Freed
                    /\ O[x].kind = "free" <=> O[x] = Freed
                    /\ O[x].file # Null <=> O[x].kind = "open"
                    /\ O[x].kind = "open" => O[O[x].file].kind = "file"

\* The OpenFiles of x, and how many pointers it counts that are not theirs.
FilesOf(O, x) == {o \in Ids : O[o].file = x}
Outside(O, x) == O[x].refs - Cardinality(FilesOf(O, x))

\* Pointers to x in a table, in locals and in the nodes of the cache.
TableTo(T, x)  == {c \in Cells : T[c[1]][c[2]] = x}
LocalTo(L, x)  == {p \in Procs : L[p].file = x}
Buckets        == 0 .. BucketCount - 1
NodesOf(B, m)  == {a \in Buckets \X (1 .. m) : a[2] <= Len(B[a[1]])}
NodesTo(B, m, x) == {a \in NodesOf(B, m) : B[a[1]][a[2]].val = x}

\* All of them, and that the objects count just these.
Held(F, S, B, m, L, x) ==
  Cardinality(TableTo(F, x)) + Cardinality(TableTo(S, x))
    + Cardinality(NodesTo(B, m, x)) + Cardinality(LocalTo(L, x))

Counted(O, F, S, B, m, L) ==
  Good(O) /\ \A x \in Ids : Outside(O, x) = Held(F, S, B, m, L, x)

Tables  == [Procs -> [Slots -> Ids \cup {Null}]]
Chains  == [Buckets -> Seq([key : Inodes, val : Ids])]
Locals  == [Procs -> [file : Ids \cup {Null}, arg : Inodes \cup Slots \cup Procs \cup {0},
                      slot : 0 .. MaxNum]]

DescTypeOK ==
  /\ fdArray \in Tables /\ semaphores \in Tables
  /\ openFiles \in Chains /\ size \in Nat
  /\ pc \in [Procs -> Places] /\ loc \in Locals

\* Every object counts the pointers to it.
CountsRight == Counted(objects, fdArray, semaphores, openFiles, size, loc)

\* What the pointers of processes and of calls point to.
PointersRight ==
  /\ \A p \in Procs, d \in Slots :
       /\ fdArray[p][d] # Null => objects[fdArray[p][d]].kind = "open"
       /\ semaphores[p][d] # Null => objects[semaphores[p][d]].kind = "sem"
  /\ \A p \in Procs : loc[p].file # Null => objects[loc[p].file].kind = "file"

\* No two descriptors have an OpenFile in common.
FdOnce ==
  \A p, q \in Procs, d, e \in Slots :
    fdArray[p][d] # Null /\ fdArray[p][d] = fdArray[q][e] => p = q /\ d = e

Copying == {"copy_file", "copy_sem"}

\* What a call knows of its locals, of its descriptor and of the process it makes or copies.
LocalsAt(p) ==
  /\ loc[p].file # Null <=> pc[p] \in {"alloc", "read", "write", "pcb"}
  /\ pc[p] \in {"found", "hit", "miss"} => loc[p].arg \in Inodes
  /\ pc[p] = "hit" => HasKey(loc[p].arg)
  /\ pc[p] \in {"read", "write"} => loc[p].arg \in Slots /\ fdArray[p][loc[p].arg] # Null
  /\ pc[p] = "down" => loc[p].arg \in Slots /\ semaphores[p][loc[p].arg] # Null
  /\ pc[p] = "pcb" => loc[p].arg \in Procs /\ pc[loc[p].arg] = "made" /\ loc[p].slot <= Std
  /\ pc[p] \in Copying => loc[p].arg \in Procs /\ pc[loc[p].arg] = "forking"
  /\ pc[p] = "copy_sem" => loc[p].slot < MaxNum

LocalsRight == \A p \in Procs : LocalsAt(p)

\* One process makes a child, and one child copies from a process.
ForksRight ==
  \A p, q \in Procs : loc[p].arg = loc[q].arg =>
    /\ pc[p] = "pcb" /\ pc[q] = "pcb" => p = q
    /\ pc[p] \in Copying /\ pc[q] \in Copying => p = q

Waits(p, x) == pc[p] = "down" /\ semaphores[p][loc[p].arg] = x

\* Who sleeps in down waits for the semaphore of its descriptor, once, and nobody else does.
SleepersRight ==
  \A x \in Ids :
    /\ IsInjective(objects[x].waiters)
    /\ \A p \in Procs : p \in ToSet(objects[x].waiters) <=> Waits(p, x)

\* The cache is a map, and no chain is longer than its size.
CacheRight ==
  /\ CacheIsMap
  /\ \A b \in Buckets : Len(openFiles[b]) <= size

\* The inductive invariant.
DescInv ==
  /\ DescTypeOK
  /\ CountsRight
  /\ PointersRight
  /\ FdOnce
  /\ LocalsRight
  /\ ForksRight
  /\ SleepersRight
  /\ CacheRight

\* One pointer, a, to x.
One(a, x) == IF a = x THEN 1 ELSE 0

\* What an object is, as long as it is there; and who waits for it.
KindStays(O, Q) ==
  \A x \in Ids : O[x] # Freed /\ Q[x] # Freed =>
    Q[x].kind = O[x].kind /\ Q[x].file = O[x].file /\ (O[x].kind = "file" => Q[x].n = O[x].n)

WaitersStay(O, Q) == \A x \in Ids : Q[x] # Freed => Q[x].waiters = O[x].waiters

Stays(O, Q) == KindStays(O, Q) /\ WaitersStay(O, Q)

-----------------------------------------------------------------------------
(* Objects and StrongPtr *)

\* Null is no object and no place of a table, and there are finitely many objects.
LEMMA NullApart == Null \notin Ids /\ Null \notin Slots /\ IsFiniteSet(Ids) /\ MaxObjects \in Nat
BY DescriptorsAssumption, FS_Interval DEF Ids, Slots

\* One counts a pointer, if it is the one that is asked for.
LEMMA OneIs == \A a, b : One(a, b) \in {0, 1} /\ (a = b <=> One(a, b) = 1)
BY DEF One

\* Two sets that differ in at most one element: what that does to their size.
LEMMA ChangeOne ==
  ASSUME NEW S, IsFiniteSet(S), NEW T, IsFiniteSet(T), NEW e, S \ {e} = T \ {e}
  PROVE  /\ Cardinality(S) \in Nat /\ Cardinality(T) \in Nat
         /\ (e \in S <=> e \in T) => Cardinality(T) = Cardinality(S)
         /\ e \in S /\ e \notin T => Cardinality(S) = Cardinality(T) + 1
         /\ e \notin S /\ e \in T => Cardinality(T) = Cardinality(S) + 1
<1>1. Cardinality(S) \in Nat /\ Cardinality(T) \in Nat
  BY FS_CardinalityType
<1>2. (e \in S <=> e \in T) => S = T
  OBVIOUS
<1>3. e \in S /\ e \notin T => S = T \cup {e}
  OBVIOUS
<1>4. e \notin S /\ e \in T => T = S \cup {e}
  OBVIOUS
<1> QED BY <1>1, <1>2, <1>3, <1>4, FS_AddElement

\* The OpenFiles of a file can be counted.
LEMMA FilesFinite ==
  ASSUME NEW O, NEW x
  PROVE  IsFiniteSet(FilesOf(O, x)) /\ Cardinality(FilesOf(O, x)) \in Nat
<1>1. FilesOf(O, x) \subseteq Ids
  BY DEF FilesOf
<1> QED BY <1>1, NullApart, FS_Subset, FS_CardinalityType

\* Their number, when the file pointer of one object changes.
LEMMA FilesChange ==
  ASSUME NEW O, NEW Q, NEW y \in Ids, \A o \in Ids \ {y} : Q[o].file = O[o].file, NEW x
  PROVE  Cardinality(FilesOf(Q, x)) + One(O[y].file, x)
           = Cardinality(FilesOf(O, x)) + One(Q[y].file, x)
<1>1. FilesOf(O, x) \ {y} = FilesOf(Q, x) \ {y}
  BY DEF FilesOf
<1>2. /\ y \in FilesOf(O, x) <=> O[y].file = x
      /\ y \in FilesOf(Q, x) <=> Q[y].file = x
  BY DEF FilesOf
<1>3. /\ Cardinality(FilesOf(O, x)) \in Nat /\ Cardinality(FilesOf(Q, x)) \in Nat
      /\ (y \in FilesOf(O, x) <=> y \in FilesOf(Q, x)) => Cardinality(FilesOf(Q, x)) = Cardinality(FilesOf(O, x))
      /\ y \in FilesOf(O, x) /\ y \notin FilesOf(Q, x) => Cardinality(FilesOf(O, x)) = Cardinality(FilesOf(Q, x)) + 1
      /\ y \notin FilesOf(O, x) /\ y \in FilesOf(Q, x) => Cardinality(FilesOf(Q, x)) = Cardinality(FilesOf(O, x)) + 1
  BY <1>1, FilesFinite, ChangeOne
<1> HIDE DEF FilesOf
<1> QED BY <1>2, <1>3 DEF One

\* The place that allocateFD and allocateSemaphore take is one that is null.
LEMMA FirstNullIs ==
  ASSUME NEW table, NullSlots(table) # {}
  PROVE  FirstNull(table) \in NullSlots(table)
<1>1. NullSlots(table) \subseteq Nat
  BY DescriptorsAssumption DEF NullSlots, Slots
<1>2. \E i \in NullSlots(table) : \A j \in NullSlots(table) : ~(<<j, i>> \in OpToRel(<, Nat))
  BY <1>1, WFMin, NatLessThanWellFounded
<1>3. \E i \in NullSlots(table) : \A j \in NullSlots(table) : i <= j
  <2>1. ASSUME NEW i \in Nat, NEW j \in Nat, j < i PROVE <<j, i>> \in OpToRel(<, Nat)
    BY <2>1 DEF OpToRel
  <2>2. \A i, j \in NullSlots(table) : i <= j \/ j < i
    BY <1>1
  <2> QED BY <1>1, <1>2, <2>1, <2>2
<1> QED BY <1>3 DEF FirstNull, Min

\* An object that is not there counts nothing and points to nothing.
LEMMA FreedIs ==
  /\ Freed \in Things /\ Freed.refs = 0 /\ Freed.kind = "free" /\ Freed.file = Null /\ Freed.n = 0
  /\ Freed.waiters = << >>
BY DEF Freed, Object, Things

\* Copying a pointer counts one more to what it points to, and nothing else.
LEMMA IncFacts ==
  ASSUME NEW O, Good(O), NEW y \in Ids \cup {Null}, y # Null => O[y] # Freed
  PROVE  /\ Good(Inc(O, y))
         /\ \A x \in Ids : Outside(Inc(O, y), x) = Outside(O, x) + One(y, x)
         /\ Stays(O, Inc(O, y))
         /\ \A x \in Ids : Inc(O, y)[x] = Freed <=> O[x] = Freed
         /\ \A x \in Ids : Inc(O, y)[x].kind = O[x].kind /\ Inc(O, y)[x].n = O[x].n
<1>1. CASE y = Null
  <2>1. Inc(O, y) = O
    BY <1>1 DEF Inc
  <2>2. \A x \in Ids : One(y, x) = 0
    BY <1>1, NullApart DEF One
  <2>3. \A x \in Ids : O[x].refs \in Nat
    BY DEF Good, Things
  <2> QED BY <2>1, <2>2, <2>3, FilesFinite DEF Outside, Stays, KindStays, WaitersStay
<1>2. CASE y # Null
  <2> DEFINE Q == Inc(O, y)
  <2>0. y \in Ids /\ O[y] \in Things /\ O[y].refs \in Nat \ {0} /\ O \in [Ids -> Things]
    BY <1>2 DEF Good, Things
  <2>1. Q = [O EXCEPT ![y].refs = @ + 1]
    BY <1>2 DEF Inc
  <2>2. /\ Q[y] = [O[y] EXCEPT !.refs = @ + 1]
        /\ \A x \in Ids \ {y} : Q[x] = O[x]
        /\ DOMAIN Q = Ids
    BY <2>0, <2>1
  <2>3. /\ Q[y] \in Things /\ Q[y].refs = O[y].refs + 1 /\ Q[y].kind = O[y].kind
        /\ Q[y].file = O[y].file /\ Q[y].n = O[y].n /\ Q[y].waiters = O[y].waiters
    BY <2>0, <2>2 DEF Things
  <2>4. Q \in [Ids -> Things]
    BY <2>0, <2>1, <2>2, <2>3
  <2> HIDE DEF Q
  <2>5. Q[y] # Freed /\ O[y] # Freed
    BY <1>2, <2>0, <2>3, FreedIs
  <2>6. \A x \in Ids : Q[x].file = O[x].file /\ Q[x].kind = O[x].kind /\ Q[x].n = O[x].n
                       /\ Q[x].waiters = O[x].waiters /\ (Q[x] = Freed <=> O[x] = Freed)
    BY <2>2, <2>3, <2>5
  <2>7. Good(Q)
    <3> SUFFICES ASSUME NEW x \in Ids
                 PROVE  /\ Q[x].refs = 0 <=> Q[x] = Freed
                        /\ Q[x].kind = "free" <=> Q[x] = Freed
                        /\ Q[x].file # Null <=> Q[x].kind = "open"
                        /\ Q[x].kind = "open" => Q[Q[x].file].kind = "file"
      BY <2>4 DEF Good
    <3>1. O[x].file \in Ids \cup {Null}
      BY <2>0 DEF Things
    <3>2. Q[x].refs = 0 <=> Q[x] = Freed
      <4>1. CASE x = y
        BY <2>0, <2>3, <2>5, <4>1
      <4>2. CASE x # y
        BY <2>2, <4>2 DEF Good
      <4> QED BY <4>1, <4>2
    <3> QED BY <2>6, <3>1, <3>2 DEF Good
  <2>8. \A x \in Ids : FilesOf(Q, x) = FilesOf(O, x)
    BY <2>6 DEF FilesOf
  <2>9. \A x \in Ids : Q[x].refs = O[x].refs + One(y, x) /\ O[x].refs \in Nat
    BY <2>0, <2>2, <2>3 DEF One, Things
  <2>10. \A x \in Ids : Outside(Q, x) = Outside(O, x) + One(y, x)
    BY <2>8, <2>9, FilesFinite, OneIs DEF Outside
  <2> QED BY <2>6, <2>7, <2>10 DEF Stays, KindStays, WaitersStay, Q
<1> QED BY <1>1, <1>2

\* new makes one object more, with one pointer to it.
LEMMA CreateFacts ==
  ASSUME NEW O, Good(O), NEW id \in Ids, O[id] = Freed, NEW k \in {"file", "sem"}, NEW m \in Nat
  PROVE  LET Q == Create(O, id, Object(k, Null, m)) IN
         /\ Good(Q)
         /\ \A x \in Ids : Outside(Q, x) = Outside(O, x) + One(id, x)
         /\ Stays(O, Q)
         /\ Q[id] # Freed /\ Q[id].kind = k /\ Q[id].n = m
         /\ \A x \in Ids \ {id} : Q[x] = O[x]
<1> DEFINE Q == Create(O, id, Object(k, Null, m))
<1>0. O \in [Ids -> Things]
  BY DEF Good
<1>1. /\ Q[id] = [kind |-> k, refs |-> 1, file |-> Null, n |-> m, waiters |-> << >>]
      /\ \A x \in Ids \ {id} : Q[x] = O[x]
      /\ Q = [O EXCEPT ![id] = Q[id]]
  BY <1>0 DEF Create, Object
<1>2. Q[id] \in Things /\ Q[id].refs = 1 /\ Q[id].kind = k /\ Q[id].file = Null /\ Q[id].n = m
      /\ Q[id].waiters = << >>
  BY <1>1 DEF Things
<1>3. Q \in [Ids -> Things]
  BY <1>0, <1>1, <1>2
<1> HIDE DEF Q
<1>4. Q[id] # Freed
  BY <1>2, FreedIs
<1>5. Good(Q)
  <2> SUFFICES ASSUME NEW x \in Ids
               PROVE  /\ Q[x].refs = 0 <=> Q[x] = Freed
                      /\ Q[x].kind = "free" <=> Q[x] = Freed
                      /\ Q[x].file # Null <=> Q[x].kind = "open"
                      /\ Q[x].kind = "open" => Q[Q[x].file].kind = "file"
    BY <1>3 DEF Good
  <2>1. CASE x = id
    BY <1>2, <1>4, <2>1
  <2>2. CASE x # id
    <3>1. Q[x] = O[x] /\ O[x].file \in Ids \cup {Null}
      BY <1>0, <1>1, <2>2 DEF Things
    <3>2. O[x].kind = "open" => O[x].file \in Ids /\ O[x].file # id
      BY <3>1, FreedIs DEF Good
    <3> QED BY <1>1, <3>1, <3>2 DEF Good
  <2> QED BY <2>1, <2>2
<1>6. \A x \in Ids : Outside(Q, x) = Outside(O, x) + One(id, x)
  <2> TAKE x \in Ids
  <2>1. Cardinality(FilesOf(Q, x)) + One(O[id].file, x) = Cardinality(FilesOf(O, x)) + One(Q[id].file, x)
    <3>1. \A o \in Ids \ {id} : Q[o].file = O[o].file
      BY <1>1
    <3> QED BY <3>1, FilesChange
  <2>2. Q[x].refs = O[x].refs + One(id, x) /\ O[x].refs \in Nat
    BY <1>0, <1>1, <1>2, FreedIs DEF One, Things
  <2> QED BY <1>2, <2>1, <2>2, FilesFinite, OneIs, FreedIs DEF Outside
<1>7. Stays(O, Q)
  BY <1>1, <1>2, FreedIs DEF Stays, KindStays, WaitersStay
<1> QED BY <1>1, <1>2, <1>4, <1>5, <1>6, <1>7 DEF Q

\* A new OpenFile takes a pointer to its file: from outside there is one pointer more,
\* the one to the OpenFile.
LEMMA CreateOpenFacts ==
  ASSUME NEW O, Good(O), NEW id \in Ids, O[id] = Freed, NEW f \in Ids, O[f].kind = "file",
         NEW off \in Nat
  PROVE  LET Q == CreateOpen(O, id, f, off) IN
         /\ Good(Q)
         /\ \A x \in Ids : Outside(Q, x) = Outside(O, x) + One(id, x)
         /\ Stays(O, Q)
         /\ Q[id] # Freed /\ Q[id].kind = "open" /\ Q[id].n = off
         /\ \A x \in Ids \ {id} : Q[x] = Freed <=> O[x] = Freed
<1> DEFINE P == Inc(O, f)
           Q == CreateOpen(O, id, f, off)
<1>0. f # Null /\ O[f] # Freed /\ f # id
  BY NullApart, FreedIs
<1>1. /\ Good(P) /\ Stays(O, P)
      /\ \A x \in Ids : Outside(P, x) = Outside(O, x) + One(f, x)
      /\ \A x \in Ids : P[x] = Freed <=> O[x] = Freed
      /\ P[f].kind = "file"
  BY <1>0, IncFacts
<1>2. P \in [Ids -> Things] /\ P[id] = Freed /\ P[f] # Freed
  BY <1>0, <1>1 DEF Good
<1>3. Q = Create(P, id, Object("open", f, off))
  BY DEF CreateOpen
<1> HIDE DEF P
<1>4. /\ Q[id] = [kind |-> "open", refs |-> 1, file |-> f, n |-> off, waiters |-> << >>]
      /\ \A x \in Ids \ {id} : Q[x] = P[x]
      /\ Q = [P EXCEPT ![id] = Q[id]]
  BY <1>2, <1>3 DEF Create, Object
<1>5. Q[id] \in Things /\ Q[id].refs = 1 /\ Q[id].kind = "open" /\ Q[id].file = f /\ Q[id].n = off
      /\ Q[id].waiters = << >>
  BY <1>4 DEF Things
<1>6. Q \in [Ids -> Things]
  BY <1>2, <1>4, <1>5
<1> HIDE DEF Q
<1>7. Q[id] # Freed
  BY <1>5, FreedIs
<1>8. Good(Q)
  <2> SUFFICES ASSUME NEW x \in Ids
               PROVE  /\ Q[x].refs = 0 <=> Q[x] = Freed
                      /\ Q[x].kind = "free" <=> Q[x] = Freed
                      /\ Q[x].file # Null <=> Q[x].kind = "open"
                      /\ Q[x].kind = "open" => Q[Q[x].file].kind = "file"
    BY <1>6 DEF Good
  <2>1. CASE x = id
    BY <1>0, <1>1, <1>4, <1>5, <1>7, <2>1
  <2>2. CASE x # id
    <3>1. Q[x] = P[x] /\ P[x].file \in Ids \cup {Null}
      BY <1>2, <1>4, <2>2 DEF Things
    <3>2. P[x].kind = "open" => P[x].file \in Ids /\ P[x].file # id
      BY <1>1, <1>2, <3>1, FreedIs DEF Good
    <3> QED BY <1>1, <1>4, <3>1, <3>2 DEF Good
  <2> QED BY <2>1, <2>2
<1>9. \A x \in Ids : Outside(Q, x) = Outside(O, x) + One(id, x)
  <2> TAKE x \in Ids
  <2>1. Cardinality(FilesOf(Q, x)) + One(P[id].file, x) = Cardinality(FilesOf(P, x)) + One(Q[id].file, x)
    <3>1. \A o \in Ids \ {id} : Q[o].file = P[o].file
      BY <1>4
    <3> QED BY <3>1, FilesChange
  <2>2. Q[x].refs = P[x].refs + One(id, x) /\ P[x].refs \in Nat
    BY <1>2, <1>4, <1>5, FreedIs DEF One, Things
  <2>3. One(P[id].file, x) = 0 /\ One(Q[id].file, x) = One(f, x)
    BY <1>2, <1>5, FreedIs, NullApart DEF One
  <2>4. Outside(P, x) = Outside(O, x) + One(f, x) /\ Outside(O, x) \in Int
    BY <1>1, FilesFinite DEF Outside, Good, Things
  <2> QED BY <2>1, <2>2, <2>3, <2>4, FilesFinite, OneIs DEF Outside
<1>10. Stays(O, Q)
  BY <1>0, <1>1, <1>2, <1>4, <1>5, FreedIs DEF Stays, KindStays, WaitersStay
<1> QED BY <1>1, <1>4, <1>5, <1>7, <1>8, <1>9, <1>10 DEF Q

\* An object whose only pointer is from outside has no OpenFile.
LEMMA NoFiles ==
  ASSUME NEW O, Good(O), NEW y \in Ids, O[y].refs = 1, Outside(O, y) >= 1
  PROVE  \A o \in Ids : O[o].file # y
<1>1. Cardinality(FilesOf(O, y)) = 0
  BY FilesFinite DEF Outside
<1>2. FilesOf(O, y) = {}
  BY <1>1, FilesFinite, FS_EmptySet
<1> QED BY <1>2 DEF FilesOf

\* A file that is counted once and not pointed to from outside has one OpenFile.
LEMMA LastFile ==
  ASSUME NEW O, Good(O), NEW y \in Ids, NEW f \in Ids, O[y].file = f, O[f].refs = 1,
         Outside(O, f) >= 0
  PROVE  \A o \in Ids : O[o].file = f => o = y
<1>1. Cardinality(FilesOf(O, f)) \in {0, 1} /\ y \in FilesOf(O, f)
  <2>1. y \in FilesOf(O, f)
    BY DEF FilesOf
  <2> QED BY <2>1, FilesFinite DEF Outside
<1>2. Cardinality(FilesOf(O, f)) = 1
  BY <1>1, FilesFinite, FS_EmptySet
<1>3. PICK z : FilesOf(O, f) = {z}
  BY <1>2, FilesFinite, FS_Singleton
<1> QED BY <1>1, <1>3 DEF FilesOf

\* What letting go of a pointer to y does.
Released(O, Q, y) ==
  /\ Good(Q)
  /\ \A x \in Ids : Outside(Q, x) = Outside(O, x) - One(y, x)
  /\ Stays(O, Q)
  /\ \A x \in Ids : O[x] = Freed => Q[x] = Freed

\* A pointer that goes counts one less, and what goes with it, ~OpenFile's pointer to the
\* file too, was pointed to by nobody else.
LEMMA ReleaseFacts ==
  ASSUME NEW O, Good(O), \A x \in Ids : Outside(O, x) >= 0,
         NEW y \in Ids \cup {Null}, y # Null => Outside(O, y) >= 1
  PROVE  Released(O, Release(O, y), y)
<1> DEFINE Q == Release(O, y)
<1>0. /\ O \in [Ids -> Things]
      /\ \A x \in Ids : O[x].refs \in Nat /\ O[x].file \in Ids \cup {Null} /\ Outside(O, x) \in Int
  BY FilesFinite, FreedIs DEF Good, Things, Outside
<1>1. CASE y = Null
  <2>1. Q = O
    BY <1>1 DEF Release, Dec
  <2>2. \A x \in Ids : One(y, x) = 0
    BY <1>1, NullApart DEF One
  <2> HIDE DEF Q
  <2> QED BY <1>0, <2>1, <2>2 DEF Released, Stays, KindStays, WaitersStay, Q
<1>2. CASE y # Null /\ O[y].refs # 1
  <2>0. y \in Ids /\ O[y].refs >= 2
    <3>1. y \in Ids /\ O[y].refs \in Nat
      BY <1>0, <1>2
    <3>2. O[y].refs >= 1
      BY <1>0, <1>2, <3>1, FilesFinite DEF Outside
    <3> QED BY <1>2, <3>1, <3>2
  <2>1. Q = [O EXCEPT ![y].refs = @ - 1]
    BY <1>2 DEF Release, Dec
  <2>2. /\ Q[y] = [O[y] EXCEPT !.refs = O[y].refs - 1]
        /\ \A x \in Ids \ {y} : Q[x] = O[x]
    BY <1>0, <2>0, <2>1
  <2>3. /\ Q[y] \in Things /\ Q[y].refs = O[y].refs - 1 /\ Q[y].kind = O[y].kind
        /\ Q[y].file = O[y].file /\ Q[y].n = O[y].n /\ Q[y].waiters = O[y].waiters
    <3>1. O[y] \in Things /\ O[y].refs - 1 \in Nat
      BY <1>0, <2>0
    <3> QED BY <2>2, <3>1 DEF Things
  <2>4. Q \in [Ids -> Things]
    BY <1>0, <2>1, <2>2, <2>3
  <2> HIDE DEF Q
  <2>5. Q[y] # Freed /\ O[y] # Freed /\ Q[y].refs # 0
    BY <1>0, <2>0, <2>3, FreedIs
  <2>6. \A x \in Ids : Q[x].file = O[x].file /\ Q[x].kind = O[x].kind /\ Q[x].n = O[x].n
                       /\ Q[x].waiters = O[x].waiters /\ (Q[x] = Freed <=> O[x] = Freed)
                       /\ (Q[x].refs = 0 <=> O[x].refs = 0)
    <3> TAKE x \in Ids
    <3>1. CASE x = y
      BY <1>0, <2>0, <2>3, <2>5, <3>1
    <3>2. CASE x # y
      BY <2>2, <3>2
    <3> QED BY <3>1, <3>2
  <2>7. Good(Q)
    BY <1>0, <2>4, <2>6 DEF Good
  <2>8. \A x \in Ids : FilesOf(Q, x) = FilesOf(O, x)
    BY <2>6 DEF FilesOf
  <2>9. \A x \in Ids : Q[x].refs = O[x].refs - One(y, x)
    <3> TAKE x \in Ids
    <3>1. CASE x = y
      BY <1>0, <2>3, <3>1 DEF One
    <3>2. CASE x # y
      BY <1>0, <2>2, <3>2 DEF One
    <3> QED BY <3>1, <3>2
  <2>10. \A x \in Ids : Outside(Q, x) = Outside(O, x) - One(y, x)
    BY <1>0, <2>8, <2>9, FilesFinite, OneIs DEF Outside
  <2> QED BY <2>6, <2>7, <2>10 DEF Stays, KindStays, WaitersStay, Released, Q
<1>3. CASE y # Null /\ O[y].refs = 1
  <2> DEFINE f == O[y].file
             P == [O EXCEPT ![y] = Freed]
  <2>0. y \in Ids /\ Outside(O, y) >= 1 /\ f \in Ids \cup {Null}
    BY <1>0, <1>3
  <2>1. Q = Dec(P, f)
    BY <1>0, <1>3, <2>0 DEF Release, Dec
  <2>2. \A o \in Ids : O[o].file # y
    BY <1>3, <2>0, NoFiles
  <2>3. P \in [Ids -> Things] /\ P[y] = Freed /\ \A x \in Ids \ {y} : P[x] = O[x]
    BY <1>0, <2>0, FreedIs
  <2>4. CASE f = Null
    <3>1. Q = P
      BY <2>1, <2>4 DEF Dec
    <3> HIDE DEF P, Q, f
    <3>2. Good(Q)
      <4> SUFFICES ASSUME NEW x \in Ids
                   PROVE  /\ Q[x].refs = 0 <=> Q[x] = Freed
                          /\ Q[x].kind = "free" <=> Q[x] = Freed
                          /\ Q[x].file # Null <=> Q[x].kind = "open"
                          /\ Q[x].kind = "open" => Q[Q[x].file].kind = "file"
        BY <2>3, <3>1 DEF Good
      <4>1. CASE x = y
        BY <2>3, <3>1, <4>1, FreedIs
      <4>2. CASE x # y
        BY <1>0, <2>2, <2>3, <3>1, <4>2, NullApart DEF Good
      <4> QED BY <4>1, <4>2
    <3>3. \A x \in Ids : FilesOf(Q, x) = FilesOf(O, x)
      BY <2>0, <2>3, <2>4, <3>1, FreedIs, NullApart DEF FilesOf, f
    <3>4. \A x \in Ids : Q[x].refs = O[x].refs - One(y, x)
      BY <1>0, <1>3, <2>3, <3>1, FreedIs DEF One
    <3>5. \A x \in Ids : Outside(Q, x) = Outside(O, x) - One(y, x)
      BY <1>0, <3>3, <3>4, FilesFinite, OneIs DEF Outside
    <3> QED BY <2>3, <3>1, <3>2, <3>5 DEF Released, Stays, KindStays, WaitersStay, Q
  <2>5. CASE f # Null
    <3>0. f \in Ids /\ f # y /\ O[f].kind = "file" /\ O[f].file = Null /\ O[y].kind = "open" /\ O[f].refs >= 1
      <4>1. f \in Ids /\ f # y
        BY <2>0, <2>2, <2>5
      <4>2. O[y].kind = "open" /\ O[f].kind = "file"
        BY <2>0, <2>5 DEF Good
      <4>3. O[f].file = Null /\ O[f] # Freed
        BY <4>1, <4>2, FreedIs DEF Good
      <4>4. O[f].refs # 0
        BY <4>1, <4>3 DEF Good
      <4> QED BY <1>0, <4>1, <4>2, <4>3, <4>4
    <3>1. Q = IF P[f].refs = 1 THEN [P EXCEPT ![f] = Freed] ELSE [P EXCEPT ![f].refs = @ - 1]
      BY <2>1, <2>5 DEF Dec
    <3>2. /\ P[f] = O[f]
          /\ Q[f] = IF O[f].refs = 1 THEN Freed ELSE [O[f] EXCEPT !.refs = @ - 1]
          /\ Q[y] = Freed
          /\ \A x \in Ids \ {y, f} : Q[x] = O[x]
      BY <2>0, <2>3, <3>0, <3>1
    <3>3. /\ Q[f] \in Things /\ Q[f].refs = O[f].refs - 1 /\ Q[f].file = Null
          /\ Q[f] # Freed => /\ Q[f].kind = "file" /\ Q[f].n = O[f].n /\ Q[f].refs # 0
                             /\ Q[f].waiters = O[f].waiters
      <4>1. CASE O[f].refs = 1
        BY <3>2, <4>1, FreedIs
      <4>2. CASE O[f].refs # 1
        <5>1. Q[f] = [O[f] EXCEPT !.refs = @ - 1] /\ O[f] \in Things
          BY <1>0, <3>0, <3>2, <4>2
        <5>2. O[f].refs - 1 \in Nat /\ O[f].refs - 1 # 0
          BY <1>0, <3>0, <4>2
        <5> QED BY <3>0, <5>1, <5>2 DEF Things
      <4> QED BY <4>1, <4>2
    <3>4. Q \in [Ids -> Things]
      BY <2>3, <3>0, <3>1, <3>2, <3>3
    <3> HIDE DEF P, Q, f
    <3>5. Q[f] = Freed => \A o \in Ids : O[o].file = f => o = y
      <4> SUFFICES ASSUME Q[f] = Freed PROVE \A o \in Ids : O[o].file = f => o = y
        OBVIOUS
      <4>1. O[f].refs = 1
        BY <1>0, <3>0, <3>3, FreedIs
      <4> QED BY <2>0, <3>0, <4>1, LastFile DEF f
    <3>6. Good(Q)
      <4> SUFFICES ASSUME NEW x \in Ids
                   PROVE  /\ Q[x].refs = 0 <=> Q[x] = Freed
                          /\ Q[x].kind = "free" <=> Q[x] = Freed
                          /\ Q[x].file # Null <=> Q[x].kind = "open"
                          /\ Q[x].kind = "open" => Q[Q[x].file].kind = "file"
        BY <3>4 DEF Good
      <4>1. CASE x = y
        BY <3>2, <4>1, FreedIs
      <4>2. CASE x = f
        BY <3>0, <3>3, <4>2, FreedIs
      <4>3. CASE x # y /\ x # f
        <5>1. Q[x] = O[x]
          BY <3>2, <4>3
        <5>2. ASSUME O[x].kind = "open" PROVE Q[O[x].file].kind = "file"
          <6>1. O[x].file \in Ids /\ O[x].file # y /\ O[O[x].file].kind = "file"
            BY <1>0, <2>2, <5>2 DEF Good
          <6>2. CASE O[x].file = f
            <7>1. Q[f] # Freed
              BY <3>5, <4>3, <6>2
            <7> QED BY <3>3, <6>2, <7>1
          <6>3. CASE O[x].file # f
            BY <3>2, <6>1, <6>3
          <6> QED BY <6>2, <6>3
        <5> QED BY <5>1, <5>2 DEF Good
      <4> QED BY <4>1, <4>2, <4>3
    <3>7. \A x \in Ids : Outside(Q, x) = Outside(O, x) - One(y, x)
      <4> TAKE x \in Ids
      <4>1. Cardinality(FilesOf(Q, x)) + One(O[y].file, x) = Cardinality(FilesOf(O, x)) + One(Q[y].file, x)
        <5>1. \A o \in Ids \ {y} : Q[o].file = O[o].file
          BY <3>0, <3>2, <3>3
        <5>2. y \in Ids
          BY <2>0
        <5> QED BY <5>1, <5>2, FilesChange
      <4>2. One(O[y].file, x) = One(f, x) /\ One(Q[y].file, x) = 0
        BY <3>2, FreedIs, NullApart DEF One, f
      <4>3. Q[x].refs = O[x].refs - One(y, x) - One(f, x)
        <5>1. CASE x = y
          BY <1>3, <3>0, <3>2, <5>1, FreedIs DEF One
        <5>2. CASE x = f
          BY <1>0, <3>0, <3>3, <5>2 DEF One
        <5>3. CASE x # y /\ x # f
          BY <1>0, <3>2, <5>3 DEF One
        <5> QED BY <5>1, <5>2, <5>3
      <4> QED BY <1>0, <4>1, <4>2, <4>3, FilesFinite, OneIs DEF Outside
    <3>8. Stays(O, Q) /\ \A x \in Ids : O[x] = Freed => Q[x] = Freed
      <4> SUFFICES ASSUME NEW x \in Ids
                   PROVE  /\ O[x] # Freed /\ Q[x] # Freed =>
                               Q[x].kind = O[x].kind /\ Q[x].file = O[x].file
                               /\ (O[x].kind = "file" => Q[x].n = O[x].n)
                          /\ Q[x] # Freed => Q[x].waiters = O[x].waiters
                          /\ O[x] = Freed => Q[x] = Freed
        BY DEF Stays, KindStays, WaitersStay
      <4>1. CASE x = y
        BY <1>3, <3>2, <4>1, FreedIs
      <4>2. CASE x = f
        BY <3>0, <3>3, <4>2, FreedIs
      <4>3. CASE x # y /\ x # f
        BY <3>2, <4>3
      <4> QED BY <4>1, <4>2, <4>3
    <3> QED BY <3>6, <3>7, <3>8 DEF Released, Q
  <2> QED BY <2>4, <2>5
<1> QED BY <1>1, <1>2, <1>3

\* All objects but y stay.
SameBut(O, Q, y) == \A x \in Ids : x # y => Q[x] = O[x]

\* y changes in a field that is not counted.
FieldsOf(O, Q, y) ==
  /\ Q \in [Ids -> Things] /\ SameBut(O, Q, y)
  /\ O[y].kind # "file" /\ O[y] # Freed
  /\ Q[y].refs = O[y].refs /\ Q[y].kind = O[y].kind /\ Q[y].file = O[y].file

\* A change of a number or of a queue changes nothing that is counted.
LEMMA FieldFacts ==
  ASSUME NEW O, Good(O), NEW Q, NEW y \in Ids, FieldsOf(O, Q, y)
  PROVE  /\ Good(Q)
         /\ \A x \in Ids : Outside(Q, x) = Outside(O, x)
         /\ KindStays(O, Q)
         /\ \A x \in Ids : Q[x] = Freed <=> O[x] = Freed
<1> USE DEF FieldsOf
<1>1. Q[y] # Freed
  BY FreedIs DEF Good
<1>2. \A x \in Ids : /\ Q[x].refs = O[x].refs /\ Q[x].kind = O[x].kind /\ Q[x].file = O[x].file
                     /\ Q[x] = Freed <=> O[x] = Freed
  BY <1>1 DEF SameBut
<1>3. Good(Q)
  <2> SUFFICES ASSUME NEW x \in Ids
               PROVE  /\ Q[x].refs = 0 <=> Q[x] = Freed
                      /\ Q[x].kind = "free" <=> Q[x] = Freed
                      /\ Q[x].file # Null <=> Q[x].kind = "open"
                      /\ Q[x].kind = "open" => Q[Q[x].file].kind = "file"
    BY DEF Good
  <2>1. O[x].file \in Ids \cup {Null}
    BY DEF Good, Things
  <2> QED BY <1>2, <2>1 DEF Good
<1>4. \A x \in Ids : FilesOf(Q, x) = FilesOf(O, x)
  BY <1>2 DEF FilesOf
<1> QED BY <1>2, <1>3, <1>4 DEF Outside, KindStays, SameBut

-----------------------------------------------------------------------------
(* Pointers held outside *)

\* Pointers of each sort can be counted.
LEMMA Finite ==
  /\ \A T, x : IsFiniteSet(TableTo(T, x)) /\ Cardinality(TableTo(T, x)) \in Nat
  /\ \A L, x : IsFiniteSet(LocalTo(L, x)) /\ Cardinality(LocalTo(L, x)) \in Nat
  /\ \A B, x : \A m \in Nat : /\ IsFiniteSet(NodesOf(B, m)) /\ Cardinality(NodesOf(B, m)) \in Nat
                              /\ IsFiniteSet(NodesTo(B, m, x)) /\ Cardinality(NodesTo(B, m, x)) \in Nat
<1>1. IsFiniteSet(Cells)
  <2>1. MaxNum - 1 \in Int /\ 0 \in Int /\ IsFiniteSet(Procs)
    BY DescriptorsAssumption
  <2>2. IsFiniteSet(Slots)
    BY <2>1, FS_Interval DEF Slots
  <2> QED BY <2>1, <2>2, FS_Product DEF Cells
<1>2. \A m \in Nat : IsFiniteSet(Buckets \X (1 .. m))
  <2> TAKE m \in Nat
  <2>1. BucketCount - 1 \in Int /\ 0 \in Int /\ 1 \in Int /\ m \in Int
    BY DescriptorsAssumption
  <2>2. IsFiniteSet(Buckets) /\ IsFiniteSet(1 .. m)
    BY <2>1, FS_Interval DEF Buckets
  <2> QED BY <2>2, FS_Product
<1>3. \A T, x : TableTo(T, x) \subseteq Cells
  BY DEF TableTo
<1>4. \A L, x : LocalTo(L, x) \subseteq Procs
  BY DEF LocalTo
<1>5. \A B, m, x : NodesOf(B, m) \subseteq Buckets \X (1 .. m) /\ NodesTo(B, m, x) \subseteq NodesOf(B, m)
  BY DEF NodesOf, NodesTo
<1>6. ASSUME NEW B, NEW x, NEW m \in Nat
      PROVE  IsFiniteSet(NodesOf(B, m)) /\ IsFiniteSet(NodesTo(B, m, x))
  <2>1. IsFiniteSet(NodesOf(B, m))
    <3>1. IsFiniteSet(Buckets \X (1 .. m)) /\ NodesOf(B, m) \in SUBSET (Buckets \X (1 .. m))
      BY <1>2, <1>5
    <3> QED BY <3>1, FS_Subset
  <2> QED BY <1>5, <2>1, FS_Subset
<1>7. \A T, x : IsFiniteSet(TableTo(T, x))
  BY <1>1, <1>3, FS_Subset
<1>8. \A L, x : IsFiniteSet(LocalTo(L, x))
  BY <1>4, DescriptorsAssumption, FS_Subset
<1> QED BY <1>6, <1>7, <1>8, FS_CardinalityType

\* Their number, when one entry of a table changes.
LEMMA TableChange ==
  ASSUME NEW T, NEW U, NEW p \in Procs, NEW d \in Slots, NEW x,
         \A q \in Procs, e \in Slots : <<q, e>> # <<p, d>> => U[q][e] = T[q][e]
  PROVE  Cardinality(TableTo(U, x)) + One(T[p][d], x) = Cardinality(TableTo(T, x)) + One(U[p][d], x)
<1> DEFINE c == <<p, d>>
<1>1. TableTo(U, x) \ {c} = TableTo(T, x) \ {c}
  BY DEF TableTo, Cells
<1>2. (c \in TableTo(T, x) <=> T[p][d] = x) /\ (c \in TableTo(U, x) <=> U[p][d] = x)
  BY DEF TableTo, Cells
<1> HIDE DEF c
<1>3. /\ Cardinality(TableTo(T, x)) \in Nat /\ Cardinality(TableTo(U, x)) \in Nat
      /\ (c \in TableTo(T, x) <=> c \in TableTo(U, x)) => Cardinality(TableTo(U, x)) = Cardinality(TableTo(T, x))
      /\ c \in TableTo(T, x) /\ c \notin TableTo(U, x) => Cardinality(TableTo(T, x)) = Cardinality(TableTo(U, x)) + 1
      /\ c \notin TableTo(T, x) /\ c \in TableTo(U, x) => Cardinality(TableTo(U, x)) = Cardinality(TableTo(T, x)) + 1
  BY <1>1, Finite, ChangeOne
<1> QED BY <1>2, <1>3 DEF One

\* The local pointers of all but p stay.
LocalBut(L, M, p) == \A q \in Procs : q # p => M[q].file = L[q].file

\* Their number, when the local pointer of one call changes.
LEMMA LocalChange ==
  ASSUME NEW L, NEW M, NEW p \in Procs, NEW x, LocalBut(L, M, p)
  PROVE  Cardinality(LocalTo(M, x)) + One(L[p].file, x) = Cardinality(LocalTo(L, x)) + One(M[p].file, x)
<1>1. LocalTo(M, x) \ {p} = LocalTo(L, x) \ {p}
  BY DEF LocalTo, LocalBut
<1>2. (p \in LocalTo(L, x) <=> L[p].file = x) /\ (p \in LocalTo(M, x) <=> M[p].file = x)
  BY DEF LocalTo
<1>3. /\ Cardinality(LocalTo(L, x)) \in Nat /\ Cardinality(LocalTo(M, x)) \in Nat
      /\ (p \in LocalTo(L, x) <=> p \in LocalTo(M, x)) => Cardinality(LocalTo(M, x)) = Cardinality(LocalTo(L, x))
      /\ p \in LocalTo(L, x) /\ p \notin LocalTo(M, x) => Cardinality(LocalTo(L, x)) = Cardinality(LocalTo(M, x)) + 1
      /\ p \notin LocalTo(L, x) /\ p \in LocalTo(M, x) => Cardinality(LocalTo(M, x)) = Cardinality(LocalTo(L, x)) + 1
  BY <1>1, Finite, ChangeOne
<1> HIDE DEF LocalTo
<1> QED BY <1>2, <1>3 DEF One

\* Who is pointed to is there.
LEMMA Nonempty ==
  ASSUME NEW S, IsFiniteSet(S), NEW e \in S
  PROVE  Cardinality(S) >= 1
BY FS_CardinalityType, FS_EmptySet

\* Who is pointed to from outside the objects is there.
LEMMA PointedThere ==
  ASSUME NEW O, NEW F, NEW S, NEW B, NEW m \in Nat, NEW L, Counted(O, F, S, B, m, L),
         NEW x \in Ids,
         \/ \E p \in Procs, d \in Slots : F[p][d] = x \/ S[p][d] = x
         \/ \E a \in NodesOf(B, m) : B[a[1]][a[2]].val = x
         \/ \E p \in Procs : L[p].file = x
  PROVE  O[x] # Freed /\ Outside(O, x) >= 1
<1>1. \/ TableTo(F, x) # {} \/ TableTo(S, x) # {} \/ NodesTo(B, m, x) # {} \/ LocalTo(L, x) # {}
  <2>1. \A p \in Procs, d \in Slots : F[p][d] = x => <<p, d>> \in TableTo(F, x)
    BY DEF TableTo, Cells
  <2>2. \A p \in Procs, d \in Slots : S[p][d] = x => <<p, d>> \in TableTo(S, x)
    BY DEF TableTo, Cells
  <2>3. \A a \in NodesOf(B, m) : B[a[1]][a[2]].val = x => a \in NodesTo(B, m, x)
    BY DEF NodesTo
  <2>4. \A p \in Procs : L[p].file = x => p \in LocalTo(L, x)
    BY DEF LocalTo
  <2> QED BY <2>1, <2>2, <2>3, <2>4
<1>2. /\ Cardinality(TableTo(F, x)) \in Nat /\ (TableTo(F, x) # {} => Cardinality(TableTo(F, x)) >= 1)
      /\ Cardinality(TableTo(S, x)) \in Nat /\ (TableTo(S, x) # {} => Cardinality(TableTo(S, x)) >= 1)
      /\ Cardinality(NodesTo(B, m, x)) \in Nat /\ (NodesTo(B, m, x) # {} => Cardinality(NodesTo(B, m, x)) >= 1)
      /\ Cardinality(LocalTo(L, x)) \in Nat /\ (LocalTo(L, x) # {} => Cardinality(LocalTo(L, x)) >= 1)
  BY Finite, Nonempty
<1>3. Held(F, S, B, m, L, x) >= 1
  BY <1>1, <1>2 DEF Held
<1>4. Outside(O, x) >= 1
  BY <1>3 DEF Counted
<1>5. O[x].refs \in Nat
  BY DEF Counted, Good, Things
<1> QED BY <1>4, <1>5, FilesFinite, FreedIs DEF Outside

\* No object counts less than its OpenFiles.
LEMMA OutsideNat ==
  ASSUME NEW O, NEW F, NEW S, NEW B, NEW m \in Nat, NEW L, Counted(O, F, S, B, m, L)
  PROVE  \A x \in Ids : Outside(O, x) \in Nat
BY Finite DEF Counted, Held

\* All entries but one stay.
TableBut(T, U, p, d) == \A q \in Procs, e \in Slots : <<q, e>> # <<p, d>> => U[q][e] = T[q][e]

\* All pointers to an object, when one descriptor changes.
LEMMA HeldFd ==
  ASSUME NEW F, NEW G, NEW S, NEW B, NEW m \in Nat, NEW L, NEW p \in Procs, NEW d \in Slots,
         TableBut(F, G, p, d)
  PROVE  \A x \in Ids : Held(G, S, B, m, L, x) = Held(F, S, B, m, L, x) - One(F[p][d], x) + One(G[p][d], x)
<1> TAKE x \in Ids
<1>1. Cardinality(TableTo(G, x)) + One(F[p][d], x) = Cardinality(TableTo(F, x)) + One(G[p][d], x)
  BY TableChange DEF TableBut
<1> QED BY <1>1, Finite, OneIs DEF Held

\* The same for an entry of a table of semaphores.
LEMMA HeldSem ==
  ASSUME NEW F, NEW S, NEW T, NEW B, NEW m \in Nat, NEW L, NEW p \in Procs, NEW d \in Slots,
         TableBut(S, T, p, d)
  PROVE  \A x \in Ids : Held(F, T, B, m, L, x) = Held(F, S, B, m, L, x) - One(S[p][d], x) + One(T[p][d], x)
<1> TAKE x \in Ids
<1>1. Cardinality(TableTo(T, x)) + One(S[p][d], x) = Cardinality(TableTo(S, x)) + One(T[p][d], x)
  BY TableChange DEF TableBut
<1> QED BY <1>1, Finite, OneIs DEF Held

\* The same for the local pointer of a call.
LEMMA HeldLocal ==
  ASSUME NEW F, NEW S, NEW B, NEW m \in Nat, NEW L, NEW M, NEW p \in Procs,
         LocalBut(L, M, p)
  PROVE  \A x \in Ids : Held(F, S, B, m, M, x) = Held(F, S, B, m, L, x) - One(L[p].file, x) + One(M[p].file, x)
<1> SUFFICES ASSUME NEW x \in Ids
             PROVE  Held(F, S, B, m, M, x) = Held(F, S, B, m, L, x) - One(L[p].file, x) + One(M[p].file, x)
  OBVIOUS
<1>1. Cardinality(LocalTo(M, x)) + One(L[p].file, x) = Cardinality(LocalTo(L, x)) + One(M[p].file, x)
  BY LocalChange
<1> QED BY <1>1, Finite, OneIs DEF Held

\* They can be counted.
LEMMA HeldNat ==
  ASSUME NEW F, NEW S, NEW B, NEW m \in Nat, NEW L
  PROVE  \A x \in Ids : Held(F, S, B, m, L, x) \in Nat
BY Finite DEF Held

\* A chain with a node more.
Longer(B, b, k, v) == [B EXCEPT ![b] = Append(@, [key |-> k, val |-> v])]

\* What it is after that.
Appended(B, m, C, e, k, v) ==
  /\ C \in Chains
  /\ e \notin NodesOf(B, m) /\ NodesOf(C, m + 1) = NodesOf(B, m) \cup {e}
  /\ \A a \in NodesOf(B, m) : C[a[1]][a[2]] = B[a[1]][a[2]]
  /\ C[e[1]][e[2]] = [key |-> k, val |-> v]
  /\ \A c \in Buckets : Len(C[c]) <= m + 1

\* A node that is added to a chain, while no chain is longer than m.
LEMMA NodesAppend ==
  ASSUME NEW B \in Chains, NEW m \in Nat, NEW b \in Buckets, NEW k \in Inodes, NEW v \in Ids,
         \A c \in Buckets : Len(B[c]) <= m
  PROVE  Appended(B, m, Longer(B, b, k, v), <<b, Len(B[b]) + 1>>, k, v)
<1> DEFINE N == [key |-> k, val |-> v]
           V == [key : Inodes, val : Ids]
           C == Longer(B, b, k, v)
           e == <<b, Len(B[b]) + 1>>
<1>1. N \in V /\ \A c \in Buckets : B[c] \in Seq(V)
  BY DEF Chains
<1> HIDE DEF N, V
<1>2. /\ Append(B[b], N) \in Seq(V) /\ Len(Append(B[b], N)) = Len(B[b]) + 1
      /\ \A i \in 1 .. Len(B[b]) : Append(B[b], N)[i] = B[b][i]
      /\ Append(B[b], N)[Len(B[b]) + 1] = N
  BY <1>1, AppendProperties
<1>3. \A c \in Buckets : Len(B[c]) \in Nat
  BY <1>1, LenProperties
<1>4. /\ C[b] = Append(B[b], N) /\ \A c \in Buckets \ {b} : C[c] = B[c]
      /\ C \in [Buckets -> Seq(V)]
  BY <1>1, <1>2 DEF Chains, V, Longer, N
<1> HIDE DEF C
<1>5. C \in Chains
  BY <1>4 DEF Chains, V
<1>6. e \notin NodesOf(B, m)
  BY <1>3 DEF NodesOf
<1>7. NodesOf(C, m + 1) = NodesOf(B, m) \cup {e}
  <2>1. ASSUME NEW a \in NodesOf(C, m + 1) PROVE a \in NodesOf(B, m) \cup {e}
    <3>1. PICK c \in Buckets, i \in 1 .. (m + 1) : a = <<c, i>> /\ i <= Len(C[c])
      BY <2>1 DEF NodesOf
    <3>2. CASE c = b /\ i = Len(B[b]) + 1
      BY <3>1, <3>2
    <3>3. CASE ~(c = b /\ i = Len(B[b]) + 1)
      <4>1. i <= Len(B[c])
        BY <1>2, <1>3, <1>4, <3>1, <3>3
      <4>2. i \in 1 .. m
        BY <1>3, <3>1, <4>1
      <4> QED BY <3>1, <4>1, <4>2 DEF NodesOf
    <3> QED BY <3>2, <3>3
  <2>2. ASSUME NEW a \in NodesOf(B, m) PROVE a \in NodesOf(C, m + 1)
    <3>1. PICK c \in Buckets, i \in 1 .. m : a = <<c, i>> /\ i <= Len(B[c])
      BY <2>2 DEF NodesOf
    <3>2. i \in 1 .. (m + 1) /\ i <= Len(C[c])
      BY <1>2, <1>3, <1>4, <3>1
    <3> QED BY <3>1, <3>2 DEF NodesOf
  <2>3. e \in NodesOf(C, m + 1)
    <3>1. Len(B[b]) + 1 \in 1 .. (m + 1) /\ Len(B[b]) + 1 <= Len(C[b])
      BY <1>2, <1>3, <1>4
    <3> QED BY <3>1 DEF NodesOf
  <2> QED BY <2>1, <2>2, <2>3
<1>8. \A a \in NodesOf(B, m) : C[a[1]][a[2]] = B[a[1]][a[2]]
  <2> TAKE a \in NodesOf(B, m)
  <2>1. PICK c \in Buckets, i \in 1 .. m : a = <<c, i>> /\ i <= Len(B[c])
    BY DEF NodesOf
  <2>2. i \in 1 .. Len(B[c])
    BY <1>3, <2>1
  <2> QED BY <1>2, <1>4, <2>1, <2>2
<1>9. C[e[1]][e[2]] = N
  BY <1>2, <1>4
<1>10. \A c \in Buckets : Len(C[c]) <= m + 1
  BY <1>2, <1>3, <1>4
<1> QED BY <1>5, <1>6, <1>7, <1>8, <1>9, <1>10 DEF C, N, Appended

\* The pointers to an object, when a node is added.
LEMMA HeldNode ==
  ASSUME NEW F, NEW S, NEW B \in Chains, NEW m \in Nat, NEW L,
         NEW b \in Buckets, NEW k \in Inodes, NEW v \in Ids, \A c \in Buckets : Len(B[c]) <= m
  PROVE  \A x \in Ids : Held(F, S, Longer(B, b, k, v), m + 1, L, x) = Held(F, S, B, m, L, x) + One(v, x)
<1> DEFINE C == Longer(B, b, k, v)
           e == <<b, Len(B[b]) + 1>>
<1>1. /\ e \notin NodesOf(B, m) /\ NodesOf(C, m + 1) = NodesOf(B, m) \cup {e}
      /\ \A a \in NodesOf(B, m) : C[a[1]][a[2]] = B[a[1]][a[2]]
      /\ C[e[1]][e[2]] = [key |-> k, val |-> v]
  <2>1. \A c \in Buckets : Len(B[c]) <= m
    OBVIOUS
  <2> QED BY <2>1, NodesAppend DEF Appended
<1>2. C[e[1]][e[2]].val = v
  BY <1>1
<1> HIDE DEF C, e
<1> SUFFICES ASSUME NEW x \in Ids
             PROVE  Held(F, S, C, m + 1, L, x) = Held(F, S, B, m, L, x) + One(v, x)
  BY DEF C
<1>3. NodesTo(C, m + 1, x) = IF v = x THEN NodesTo(B, m, x) \cup {e} ELSE NodesTo(B, m, x)
  BY <1>1, <1>2 DEF NodesTo
<1>4. e \notin NodesTo(B, m, x)
  BY <1>1 DEF NodesTo
<1>41. IsFiniteSet(NodesTo(B, m, x)) /\ Cardinality(NodesTo(B, m, x)) \in Nat
  BY Finite
<1>5. Cardinality(NodesTo(C, m + 1, x)) = Cardinality(NodesTo(B, m, x)) + One(v, x)
  <2>1. Cardinality(NodesTo(B, m, x) \cup {e}) = Cardinality(NodesTo(B, m, x)) + 1
    BY <1>4, <1>41, FS_AddElement
  <2>2. CASE v = x
    BY <1>3, <2>1, <2>2 DEF One
  <2>3. CASE v # x
    BY <1>3, <1>41, <2>3 DEF One
  <2> QED BY <2>2, <2>3
<1> QED BY <1>41, <1>5, Finite, OneIs DEF Held

-----------------------------------------------------------------------------
(* What a step leaves *)

\* Two changes of the objects after one another.
LEMMA StaysTwice ==
  ASSUME NEW O, NEW P, NEW Q, Stays(O, P), Stays(P, Q), \A x \in Ids : P[x] = Freed => Q[x] = Freed
  PROVE  Stays(O, Q)
BY DEF Stays, KindStays, WaitersStay

\* A place that is null, and what is made there.
LEMMA FreshIs ==
  ASSUME Room
  PROVE  Fresh(objects) \in Ids /\ objects[Fresh(objects)] = Freed
BY DEF Room, Fresh

\* What a node points to is there.
LEMMA NodeThere ==
  ASSUME NEW O, NEW F, NEW S, NEW B, NEW m \in Nat, NEW L, Counted(O, F, S, B, m, L),
         NEW x \in Ids, NEW a \in NodesOf(B, m), B[a[1]][a[2]].val = x
  PROVE  O[x] # Freed
BY PointedThere

\* Who is free is not pointed to.
LEMMA FreePointedNot ==
  ASSUME DescTypeOK, CountsRight, NEW x \in Ids, objects[x] = Freed
  PROVE  /\ \A p \in Procs, d \in Slots : fdArray[p][d] # x /\ semaphores[p][d] # x
         /\ \A a \in Nodes : openFiles[a[1]][a[2]].val # x
         /\ \A p \in Procs : loc[p].file # x
<1>1. Nodes = NodesOf(openFiles, size)
  BY DEF Nodes, NodesOf, Buckets
<1> QED BY <1>1, PointedThere DEF CountsRight, DescTypeOK

\* Pointers that do not change, and new ones to what they should point to.
LEMMA PointersKept ==
  ASSUME DescTypeOK, CountsRight, PointersRight, KindStays(objects, objects'), DescTypeOK', CountsRight',
         \A p \in Procs, d \in Slots :
           /\ \/ fdArray'[p][d] = fdArray[p][d]
              \/ fdArray'[p][d] # Null => objects'[fdArray'[p][d]].kind = "open"
           /\ \/ semaphores'[p][d] = semaphores[p][d]
              \/ semaphores'[p][d] # Null => objects'[semaphores'[p][d]].kind = "sem",
         \A p \in Procs :
           \/ loc'[p].file = loc[p].file
           \/ loc'[p].file # Null => objects'[loc'[p].file].kind = "file"
  PROVE  PointersRight'
<1>1. \A x \in Ids : objects[x].kind \in {"open", "sem", "file"} => objects[x] # Freed
  BY FreedIs
<1>2. \A p \in Procs, d \in Slots :
        /\ fdArray'[p][d] # Null => fdArray'[p][d] \in Ids /\ objects'[fdArray'[p][d]] # Freed
        /\ semaphores'[p][d] # Null => semaphores'[p][d] \in Ids /\ objects'[semaphores'[p][d]] # Freed
  <2> TAKE p \in Procs, d \in Slots
  <2>1. fdArray'[p][d] \in Ids \cup {Null} /\ semaphores'[p][d] \in Ids \cup {Null}
    BY DEF DescTypeOK, Tables
  <2>2. size' \in Nat
    BY DEF DescTypeOK
  <2> QED BY <2>1, <2>2, PointedThere DEF CountsRight
<1>3. \A p \in Procs : loc'[p].file # Null => loc'[p].file \in Ids /\ objects'[loc'[p].file] # Freed
  <2> TAKE p \in Procs
  <2>1. loc'[p].file \in Ids \cup {Null}
    BY DEF DescTypeOK, Locals
  <2>2. size' \in Nat
    BY DEF DescTypeOK
  <2> QED BY <2>1, <2>2, PointedThere DEF CountsRight
<1>4. \A p \in Procs, d \in Slots :
        /\ fdArray'[p][d] # Null => objects'[fdArray'[p][d]].kind = "open"
        /\ semaphores'[p][d] # Null => objects'[semaphores'[p][d]].kind = "sem"
  BY <1>1, <1>2 DEF PointersRight, KindStays
<1>5. \A p \in Procs : loc'[p].file # Null => objects'[loc'[p].file].kind = "file"
  BY <1>1, <1>3 DEF PointersRight, KindStays
<1> QED BY <1>4, <1>5 DEF PointersRight

\* The cache, while nothing is put into it.
LEMMA CacheKept ==
  ASSUME DescTypeOK, CountsRight, CacheRight, KindStays(objects, objects'), CountsRight',
         openFiles' = openFiles, size' = size
  PROVE  CacheRight'
<1>1. Nodes' = Nodes /\ Nodes = NodesOf(openFiles, size)
  BY DEF Nodes, NodesOf, Buckets
<1>2. size \in Nat /\ \A a \in Nodes : openFiles[a[1]][a[2]].val \in Ids
  <2> SUFFICES ASSUME NEW a \in Nodes PROVE openFiles[a[1]][a[2]].val \in Ids
    BY DEF DescTypeOK
  <2>1. a[1] \in Buckets /\ a[2] \in 1 .. size /\ a[2] <= Len(openFiles[a[1]])
    BY DEF Nodes, Buckets
  <2>2. openFiles[a[1]] \in Seq([key : Inodes, val : Ids]) /\ size \in Nat
    BY <2>1 DEF DescTypeOK, Chains
  <2>3. openFiles[a[1]][a[2]] \in [key : Inodes, val : Ids]
    <3>1. Len(openFiles[a[1]]) \in Nat
      BY <2>2, LenProperties
    <3>2. a[2] \in 1 .. Len(openFiles[a[1]])
      BY <2>1, <2>2, <3>1
    <3> QED BY <2>2, <3>2, ElementOfSeq
  <2> QED BY <2>3
<1>3. \A a \in Nodes : objects'[openFiles[a[1]][a[2]].val] # Freed
  BY <1>1, <1>2, PointedThere DEF CountsRight
<1>4. \A a \in Nodes : LET node == openFiles[a[1]][a[2]] IN
        objects[node.val].kind = "file" /\ objects[node.val].n = node.key
  BY DEF CacheRight, CacheIsMap
<1>5. \A a \in Nodes : LET node == openFiles[a[1]][a[2]] IN
        objects'[node.val].kind = "file" /\ objects'[node.val].n = node.key
  BY <1>2, <1>3, <1>4, FreedIs DEF KindStays
<1>6. CacheIsMap'
  BY <1>1, <1>5 DEF CacheRight, CacheIsMap
<1> QED BY <1>6 DEF CacheRight

\* Sleepers, while nobody begins or ends to sleep.
LEMMA SleepersKept ==
  ASSUME DescTypeOK, SleepersRight, WaitersStay(objects, objects'), DescTypeOK', CountsRight', LocalsRight',
         \A p \in Procs, x \in Ids : Waits(p, x)' <=> Waits(p, x)
  PROVE  SleepersRight'
<1>1. \A p \in Procs, x \in Ids : Waits(p, x)' => objects'[x] # Freed
  <2> SUFFICES ASSUME NEW p \in Procs, NEW x \in Ids, Waits(p, x)' PROVE objects'[x] # Freed
    OBVIOUS
  <2>1. loc'[p].arg \in Slots /\ semaphores'[p][loc'[p].arg] = x
    BY DEF Waits, LocalsRight, LocalsAt
  <2>2. size' \in Nat
    BY DEF DescTypeOK
  <2> QED BY <2>1, <2>2, PointedThere DEF CountsRight
<1>2. Freed.waiters = << >> /\ IsInjective(<< >>) /\ ToSet(<< >>) = {}
  BY FreedIs DEF IsInjective, ToSet
<1> SUFFICES ASSUME NEW x \in Ids
             PROVE  /\ IsInjective(objects'[x].waiters)
                    /\ \A p \in Procs : p \in ToSet(objects'[x].waiters) <=> Waits(p, x)'
  BY DEF SleepersRight
<1>3. CASE objects'[x] = Freed
  BY <1>1, <1>2, <1>3
<1>4. CASE objects'[x] # Freed
  BY <1>4 DEF SleepersRight, WaitersStay
<1> QED BY <1>3, <1>4

\* What calls of processes outside P know, while P takes nothing from them.
LEMMA OthersKnown ==
  ASSUME LocalsRight, NEW P \in SUBSET Procs,
         \A q \in Procs \ P : /\ pc'[q] = pc[q] /\ loc'[q] = loc[q]
                              /\ fdArray'[q] = fdArray[q] /\ semaphores'[q] = semaphores[q]
                              /\ pc[q] = "pcb" => pc'[loc[q].arg] = "made"
                              /\ pc[q] \in Copying => pc'[loc[q].arg] = "forking",
         \A i \in Inodes : HasKey(i) => HasKey(i)'
  PROVE  \A q \in Procs \ P : LocalsAt(q)'
<1> TAKE q \in Procs \ P
<1>1. /\ pc'[q] = pc[q] /\ loc'[q] = loc[q]
      /\ fdArray'[q] = fdArray[q] /\ semaphores'[q] = semaphores[q]
      /\ pc[q] = "pcb" => pc'[loc[q].arg] = "made"
      /\ pc[q] \in Copying => pc'[loc[q].arg] = "forking"
  OBVIOUS
<1>2. LocalsAt(q)
  BY DEF LocalsRight
<1>3. pc[q] = "hit" => HasKey(loc[q].arg)'
  BY <1>1, <1>2 DEF LocalsAt
<1> QED BY <1>1, <1>2, <1>3 DEF LocalsAt

\* The locals of one call.
Local == [file : Ids \cup {Null}, arg : Inodes \cup Slots \cup Procs \cup {0}, slot : 0 .. MaxNum]

\* A step in which only the thread of p gets to another place.
Shifts(p, w, l) ==
  /\ Goto(p, w, l) /\ w \in Places /\ l \in Local
  /\ pc[p] \notin {"made", "forking"}
  /\ w = "pcb" => pc[p] = "pcb" /\ l.arg = loc[p].arg
  /\ w \in Copying => pc[p] \in Copying /\ l.arg = loc[p].arg

\* One that is not into down or out of it.
Moves(p, w, l) ==
  /\ Goto(p, w, l) /\ w \in Places \ {"down"} /\ l \in Local
  /\ pc[p] \notin {"made", "forking", "down"}
  /\ w = "pcb" => pc[p] = "pcb" /\ l.arg = loc[p].arg
  /\ w \in Copying => pc[p] \in Copying /\ l.arg = loc[p].arg

\* It may change its own tables, and those of a process that is being made.
TablesOf(p) ==
  /\ fdArray' \in Tables /\ semaphores' \in Tables
  /\ \A q \in Procs : q # p => /\ semaphores'[q] = semaphores[q]
                               /\ fdArray'[q] = fdArray[q] \/ pc[q] = "made"

\* What is pointed to anew is of the kind that it should be.
NewPointers ==
  /\ \A q \in Procs, d \in Slots :
       /\ \/ fdArray'[q][d] = fdArray[q][d]
          \/ fdArray'[q][d] # Null => objects'[fdArray'[q][d]].kind = "open"
       /\ \/ semaphores'[q][d] = semaphores[q][d]
          \/ semaphores'[q][d] # Null => objects'[semaphores'[q][d]].kind = "sem"
  /\ \A q \in Procs :
       \/ loc'[q].file = loc[q].file
       \/ loc'[q].file # Null => objects'[loc'[q].file].kind = "file"

\* Where threads are after one of them went on.
LEMMA GotoFacts ==
  ASSUME DescTypeOK, NEW p \in Procs, NEW w \in Places, NEW l \in Local, Goto(p, w, l)
  PROVE  /\ pc' \in [Procs -> Places] /\ loc' \in Locals
         /\ pc'[p] = w /\ loc'[p] = l
         /\ \A q \in Procs : q # p => pc'[q] = pc[q] /\ loc'[q] = loc[q]
         /\ LocalBut(loc, loc', p)
BY DEF Goto, DescTypeOK, Locals, Local, LocalBut

\* A call that is one step leaves its thread where it is.
LEMMA StayIs ==
  ASSUME DescTypeOK, NEW p \in Procs, pc[p] = "user", Stay
  PROVE  Goto(p, "user", loc[p]) /\ loc[p] \in Local
BY DEF Stay, Goto, DescTypeOK, Locals, Local

\* All of the invariant but what it says of sleepers.
LEMMA MostOfStep ==
  ASSUME DescInv, NEW p \in Procs, NEW w, NEW l, Shifts(p, w, l), TablesOf(p),
         openFiles' = openFiles, size' = size,
         KindStays(objects, objects'), NewPointers, CountsRight', FdOnce', LocalsAt(p)'
  PROVE  /\ DescTypeOK' /\ CountsRight' /\ PointersRight' /\ FdOnce'
         /\ LocalsRight' /\ ForksRight' /\ CacheRight'
<1> USE DEF DescInv
<1>1. /\ pc' \in [Procs -> Places] /\ loc' \in Locals
      /\ pc'[p] = w /\ loc'[p] = l
      /\ \A q \in Procs : q # p => pc'[q] = pc[q] /\ loc'[q] = loc[q]
  BY GotoFacts DEF Shifts
<1>2. DescTypeOK'
  BY <1>1 DEF DescTypeOK, TablesOf
<1>3. PointersRight'
  BY <1>2, PointersKept DEF NewPointers
<1>4. CacheRight'
  BY CacheKept
<1>5. LocalsRight'
  <2> DEFINE P == {q \in Procs : q = p \/ pc[q] = "made"}
  <2>1. \A i \in Inodes : HasKey(i) => HasKey(i)'
    BY DEF HasKey, Chain
  <2>2. ASSUME NEW q \in Procs \ P
        PROVE  /\ pc'[q] = pc[q] /\ loc'[q] = loc[q]
               /\ fdArray'[q] = fdArray[q] /\ semaphores'[q] = semaphores[q]
               /\ pc[q] = "pcb" => pc'[loc[q].arg] = "made"
               /\ pc[q] \in Copying => pc'[loc[q].arg] = "forking"
    <3>1. q \in Procs /\ q # p /\ pc[q] # "made" /\ LocalsAt(q)
      BY DEF LocalsRight
    <3> QED BY <1>1, <3>1 DEF TablesOf, LocalsAt, Shifts
  <2>3. \A q \in Procs \ P : LocalsAt(q)'
    <3>1. P \in SUBSET Procs
      OBVIOUS
    <3> HIDE DEF P
    <3> QED BY <2>1, <2>2, <3>1, OthersKnown
  <2>4. ASSUME NEW q \in Procs, q # p, pc[q] = "made" PROVE LocalsAt(q)'
    <3>1. pc'[q] = "made" /\ loc'[q] = loc[q] /\ LocalsAt(q)
      BY <1>1, <2>4 DEF LocalsRight
    <3> QED BY <2>4, <3>1 DEF LocalsAt, Copying
  <2> QED BY <2>3, <2>4 DEF LocalsRight
<1>6. ForksRight'
  <2>1. ASSUME NEW q \in Procs
        PROVE  /\ pc'[q] = "pcb" => pc[q] = "pcb" /\ loc'[q].arg = loc[q].arg
               /\ pc'[q] \in Copying => pc[q] \in Copying /\ loc'[q].arg = loc[q].arg
    BY <1>1 DEF Shifts
  <2> QED BY <2>1 DEF ForksRight
<1> QED BY <1>2, <1>3, <1>4, <1>5, <1>6

\* The whole of the invariant, after a step that is not into down or out of it.
LEMMA OneStep ==
  ASSUME DescInv, NEW p \in Procs, NEW w, NEW l, Moves(p, w, l), TablesOf(p),
         openFiles' = openFiles, size' = size,
         Stays(objects, objects'), NewPointers, CountsRight', FdOnce', LocalsAt(p)'
  PROVE  DescInv'
<1>1. /\ pc' \in [Procs -> Places] /\ loc' \in Locals
      /\ pc'[p] = w /\ loc'[p] = l
      /\ \A q \in Procs : q # p => pc'[q] = pc[q] /\ loc'[q] = loc[q]
  BY GotoFacts DEF Moves, DescInv
<1>2. Shifts(p, w, l) /\ KindStays(objects, objects') /\ WaitersStay(objects, objects')
  BY DEF Moves, Shifts, Stays
<1>3. /\ DescTypeOK' /\ CountsRight' /\ PointersRight' /\ FdOnce'
      /\ LocalsRight' /\ ForksRight' /\ CacheRight'
  BY <1>2, MostOfStep
<1>4. SleepersRight'
  <2>1. \A q \in Procs, x \in Ids : Waits(q, x)' <=> Waits(q, x)
    BY <1>1 DEF Waits, Moves, TablesOf
  <2> QED BY <1>2, <1>3, <2>1, SleepersKept DEF DescInv
<1> QED BY <1>3, <1>4 DEF DescInv

\* What is counted after a step.
LEMMA CountedAfter ==
  ASSUME DescTypeOK, CountsRight, Good(objects'), size' \in Nat,
         \A x \in Ids : Outside(objects', x) - Outside(objects, x)
                          = Held(fdArray', semaphores', openFiles', size', loc', x)
                              - Held(fdArray, semaphores, openFiles, size, loc, x)
  PROVE  CountsRight'
<1>1. size \in Nat
  BY DEF DescTypeOK
<1>2. \A x \in Ids : /\ Held(fdArray', semaphores', openFiles', size', loc', x) \in Nat
                     /\ Held(fdArray, semaphores, openFiles, size, loc, x) \in Nat
  BY <1>1, HeldNat
<1>3. \A x \in Ids : Outside(objects, x) = Held(fdArray, semaphores, openFiles, size, loc, x)
  BY DEF CountsRight, Counted
<1>4. \A x \in Ids : Outside(objects', x) \in Int
  BY FilesFinite DEF Outside, Good, Things
<1> QED BY <1>2, <1>3, <1>4 DEF CountsRight, Counted

\* The pointers of processes and calls after a step that changes at most three of them.
LEMMA HeldStep ==
  ASSUME size \in Nat, NEW p \in Procs, NEW d \in Slots, NEW q \in Procs, NEW e \in Slots, NEW r \in Procs,
         TableBut(fdArray, fdArray', p, d), TableBut(semaphores, semaphores', q, e),
         LocalBut(loc, loc', r), openFiles' = openFiles, size' = size
  PROVE  \A x \in Ids :
           Held(fdArray', semaphores', openFiles', size', loc', x)
             = Held(fdArray, semaphores, openFiles, size, loc, x)
                 - One(fdArray[p][d], x) + One(fdArray'[p][d], x)
                 - One(semaphores[q][e], x) + One(semaphores'[q][e], x)
                 - One(loc[r].file, x) + One(loc'[r].file, x)
<1>1. \A x \in Ids : Held(fdArray', semaphores, openFiles, size, loc, x)
        = Held(fdArray, semaphores, openFiles, size, loc, x) - One(fdArray[p][d], x) + One(fdArray'[p][d], x)
  BY HeldFd
<1>2. \A x \in Ids : Held(fdArray', semaphores', openFiles, size, loc, x)
        = Held(fdArray', semaphores, openFiles, size, loc, x) - One(semaphores[q][e], x) + One(semaphores'[q][e], x)
  BY HeldSem
<1>3. \A x \in Ids : Held(fdArray', semaphores', openFiles, size, loc', x)
        = Held(fdArray', semaphores', openFiles, size, loc, x) - One(loc[r].file, x) + One(loc'[r].file, x)
  BY HeldLocal
<1>4. /\ \A x \in Ids : Held(fdArray, semaphores, openFiles, size, loc, x) \in Nat
      /\ \A x \in Ids : Held(fdArray', semaphores, openFiles, size, loc, x) \in Nat
      /\ \A x \in Ids : Held(fdArray', semaphores', openFiles, size, loc, x) \in Nat
  BY HeldNat
<1> SUFFICES ASSUME NEW x \in Ids
    PROVE  Held(fdArray', semaphores', openFiles, size, loc', x)
             = Held(fdArray, semaphores, openFiles, size, loc, x)
                 - One(fdArray[p][d], x) + One(fdArray'[p][d], x)
                 - One(semaphores[q][e], x) + One(semaphores'[q][e], x)
                 - One(loc[r].file, x) + One(loc'[r].file, x)
  OBVIOUS
<1>5. /\ One(fdArray[p][d], x) \in Int /\ One(fdArray'[p][d], x) \in Int
      /\ One(semaphores[q][e], x) \in Int /\ One(semaphores'[q][e], x) \in Int
      /\ One(loc[r].file, x) \in Int /\ One(loc'[r].file, x) \in Int
  BY OneIs
<1> QED BY <1>1, <1>2, <1>3, <1>4, <1>5

\* What the objects count after it.
CountsMove(p, d, q, e, r) ==
  \A x \in Ids :
    Outside(objects', x) = Outside(objects, x)
      - One(fdArray[p][d], x) + One(fdArray'[p][d], x)
      - One(semaphores[q][e], x) + One(semaphores'[q][e], x)
      - One(loc[r].file, x) + One(loc'[r].file, x)

\* The counts are right after it, if the objects count just that.
LEMMA CountsStep ==
  ASSUME DescTypeOK, CountsRight, Good(objects'),
         NEW p \in Procs, NEW d \in Slots, NEW q \in Procs, NEW e \in Slots, NEW r \in Procs,
         TableBut(fdArray, fdArray', p, d), TableBut(semaphores, semaphores', q, e),
         LocalBut(loc, loc', r), openFiles' = openFiles, size' = size,
         CountsMove(p, d, q, e, r)
  PROVE  CountsRight'
<1>1. size \in Nat
  BY DEF DescTypeOK
<1>2. \A x \in Ids :
        Held(fdArray', semaphores', openFiles', size', loc', x)
          = Held(fdArray, semaphores, openFiles, size, loc, x)
              - One(fdArray[p][d], x) + One(fdArray'[p][d], x)
              - One(semaphores[q][e], x) + One(semaphores'[q][e], x)
              - One(loc[r].file, x) + One(loc'[r].file, x)
  BY <1>1, HeldStep
<1>3. \A x \in Ids : Outside(objects', x) - Outside(objects, x)
                       = Held(fdArray', semaphores', openFiles', size', loc', x)
                           - Held(fdArray, semaphores, openFiles, size, loc, x)
  <2> SUFFICES ASSUME NEW x \in Ids
               PROVE  Outside(objects', x) - Outside(objects, x)
                        = Held(fdArray', semaphores', openFiles', size', loc', x)
                           - Held(fdArray, semaphores, openFiles, size, loc, x)
    OBVIOUS
  <2>1. /\ One(fdArray[p][d], x) \in Int /\ One(fdArray'[p][d], x) \in Int
        /\ One(semaphores[q][e], x) \in Int /\ One(semaphores'[q][e], x) \in Int
        /\ One(loc[r].file, x) \in Int /\ One(loc'[r].file, x) \in Int
    BY OneIs
  <2>2. Held(fdArray, semaphores, openFiles, size, loc, x) \in Nat
    BY <1>1, HeldNat
  <2>3. Outside(objects, x) \in Int
    BY FilesFinite DEF Outside, CountsRight, Counted, Good, Things
  <2>4. Outside(objects', x) = Outside(objects, x)
          - One(fdArray[p][d], x) + One(fdArray'[p][d], x)
          - One(semaphores[q][e], x) + One(semaphores'[q][e], x)
          - One(loc[r].file, x) + One(loc'[r].file, x)
    BY DEF CountsMove
  <2> QED BY <1>2, <2>1, <2>2, <2>3, <2>4
<1> QED BY <1>1, <1>3, CountedAfter

\* A descriptor that gets an OpenFile that nobody has, or none.
LEMMA FdOnceAfter ==
  ASSUME FdOnce, NEW p \in Procs, NEW d \in Slots, TableBut(fdArray, fdArray', p, d),
         fdArray'[p][d] = Null \/ \A q \in Procs, e \in Slots : fdArray[q][e] # fdArray'[p][d]
  PROVE  FdOnce'
<1> SUFFICES ASSUME NEW q \in Procs, NEW r \in Procs, NEW e \in Slots, NEW i \in Slots,
                    fdArray'[q][e] # Null, fdArray'[q][e] = fdArray'[r][i]
             PROVE  q = r /\ e = i
  BY DEF FdOnce
<1>1. CASE <<q, e>> # <<p, d>> /\ <<r, i>> # <<p, d>>
  BY <1>1 DEF FdOnce, TableBut
<1>2. CASE <<q, e>> = <<p, d>> /\ <<r, i>> # <<p, d>>
  BY <1>2 DEF TableBut
<1>3. CASE <<q, e>> # <<p, d>> /\ <<r, i>> = <<p, d>>
  BY <1>3 DEF TableBut
<1>4. CASE <<q, e>> = <<p, d>> /\ <<r, i>> = <<p, d>>
  BY <1>4
<1> QED BY <1>1, <1>2, <1>3, <1>4

\* Steps that leave the tables alone.
LEMMA ObjectsStep ==
  ASSUME DescInv, NEW p \in Procs, NEW w, NEW l, Moves(p, w, l),
         UNCHANGED <<fdArray, semaphores, openFiles, size>>,
         Good(objects'), Stays(objects, objects'),
         \A x \in Ids : Outside(objects', x) = Outside(objects, x) - One(loc[p].file, x) + One(l.file, x),
         l.file = loc[p].file \/ (l.file # Null => objects'[l.file].kind = "file"),
         LocalsAt(p)'
  PROVE  DescInv'
<1>1. /\ loc' \in Locals /\ pc'[p] = w /\ loc'[p] = l
      /\ \A q \in Procs : q # p => pc'[q] = pc[q] /\ loc'[q] = loc[q]
      /\ LocalBut(loc, loc', p)
  BY GotoFacts DEF Moves, DescInv
<1>2. 0 \in Slots
  BY DescriptorsAssumption DEF Slots
<1>3. TableBut(fdArray, fdArray', p, 0) /\ TableBut(semaphores, semaphores', p, 0)
  BY DEF TableBut
<1>4. CountsMove(p, 0, p, 0, p)
  <2> SUFFICES ASSUME NEW x \in Ids
               PROVE  Outside(objects', x) = Outside(objects, x)
                        - One(fdArray[p][0], x) + One(fdArray'[p][0], x)
                        - One(semaphores[p][0], x) + One(semaphores'[p][0], x)
                        - One(loc[p].file, x) + One(loc'[p].file, x)
    BY DEF CountsMove
  <2>1. /\ One(fdArray[p][0], x) \in Int /\ One(semaphores[p][0], x) \in Int
        /\ One(loc[p].file, x) \in Int /\ One(l.file, x) \in Int
    BY OneIs
  <2>2. Outside(objects, x) \in Int
    BY FilesFinite DEF Outside, DescInv, CountsRight, Counted, Good, Things
  <2>3. Outside(objects', x) = Outside(objects, x) - One(loc[p].file, x) + One(l.file, x)
    OBVIOUS
  <2> QED BY <1>1, <2>1, <2>2, <2>3
<1>5. CountsRight'
  BY <1>1, <1>2, <1>3, <1>4, CountsStep DEF DescInv
<1>6. TablesOf(p)
  BY DEF TablesOf, DescInv, DescTypeOK
<1>7. NewPointers
  BY <1>1 DEF NewPointers
<1>8. FdOnce'
  BY DEF FdOnce, DescInv
<1> QED BY <1>5, <1>6, <1>7, <1>8, OneStep

\* Steps that change nothing but where the thread is.
LEMMA QuietStep ==
  ASSUME DescInv, NEW p \in Procs, NEW w, NEW l, Moves(p, w, l),
         UNCHANGED <<objects, fdArray, semaphores, openFiles, size>>, l.file = loc[p].file, LocalsAt(p)'
  PROVE  DescInv'
<1>1. Good(objects) /\ \A x \in Ids : Outside(objects, x) \in Int /\ One(l.file, x) \in Int
  BY FilesFinite, OneIs DEF DescInv, CountsRight, Counted, Outside, Good, Things
<1>2. Stays(objects, objects')
  BY DEF Stays, KindStays, WaitersStay
<1>3. \A x \in Ids : Outside(objects', x) = Outside(objects, x) - One(loc[p].file, x) + One(l.file, x)
  BY <1>1
<1>4. Good(objects')
  BY <1>1
<1>5. UNCHANGED <<fdArray, semaphores, openFiles, size>>
  OBVIOUS
<1> QED BY <1>2, <1>3, <1>4, <1>5, ObjectsStep

-----------------------------------------------------------------------------
(* Actions *)

\* A step that changes nothing of it.
LEMMA NoStep ==
  ASSUME DescInv, UNCHANGED <<objects, fdArray, semaphores, openFiles, size, pc, loc>>
  PROVE  DescInv'
<1> USE DEF DescInv
<1>1. DescTypeOK'
  BY DEF DescTypeOK
<1>2. CountsRight'
  BY DEF CountsRight
<1>3. PointersRight'
  BY DEF PointersRight
<1>4. FdOnce'
  BY DEF FdOnce
<1>5. LocalsRight'
  <2>1. \A p \in Procs : LocalsAt(p)'
    BY DEF LocalsRight, LocalsAt, HasKey, Chain
  <2> QED BY <2>1 DEF LocalsRight
<1>6. ForksRight'
  BY DEF ForksRight
<1>7. SleepersRight'
  BY DEF SleepersRight, Waits
<1>8. CacheRight'
  BY DEF CacheRight, CacheIsMap, Nodes
<1> QED BY <1>1, <1>2, <1>3, <1>4, <1>5, <1>6, <1>7, <1>8

\* The locals that the steps set are of their type.
LEMMA NoLocalsIs ==
  /\ NoLocals \in Local /\ NoLocals.file = Null
  /\ \A a \in Inodes \cup Slots \cup Procs \cup {0} :
       [NoLocals EXCEPT !.arg = a] \in Local /\ [NoLocals EXCEPT !.arg = a].file = Null
       /\ [NoLocals EXCEPT !.arg = a].arg = a
  /\ \A f \in Ids \cup {Null}, a \in Inodes \cup Slots \cup Procs \cup {0} :
       [NoLocals EXCEPT !.file = f, !.arg = a] \in Local /\ [NoLocals EXCEPT !.file = f, !.arg = a].file = f
       /\ [NoLocals EXCEPT !.file = f, !.arg = a].arg = a
<1>1. NoLocals = [file |-> Null, arg |-> 0, slot |-> 0] /\ 0 \in 0 .. MaxNum
  BY DescriptorsAssumption DEF NoLocals
<1>2. NoLocals \in Local /\ NoLocals.file = Null
  BY <1>1 DEF Local
<1>3. ASSUME NEW a \in Inodes \cup Slots \cup Procs \cup {0}
      PROVE  /\ [NoLocals EXCEPT !.arg = a] \in Local /\ [NoLocals EXCEPT !.arg = a].file = Null
             /\ [NoLocals EXCEPT !.arg = a].arg = a
  BY <1>2 DEF Local
<1>4. ASSUME NEW f \in Ids \cup {Null}, NEW a \in Inodes \cup Slots \cup Procs \cup {0}
      PROVE  /\ [NoLocals EXCEPT !.file = f, !.arg = a] \in Local
             /\ [NoLocals EXCEPT !.file = f, !.arg = a].file = f
             /\ [NoLocals EXCEPT !.file = f, !.arg = a].arg = a
  BY <1>2 DEF Local
<1> QED BY <1>2, <1>3, <1>4

\* What is known of a thread at its place.
LEMMA Known ==
  ASSUME DescInv, NEW p \in Procs
  PROVE  loc[p] \in Local /\ LocalsAt(p) /\ pc[p] \in Places
BY DEF DescInv, DescTypeOK, Locals, Local, LocalsRight

\* Open keeps the invariant.
LEMMA OpenStepRight ==
  ASSUME DescInv, NEW p \in Procs, NEW inum \in Inodes, Open(p, inum)
  PROVE  DescInv'
<1> DEFINE l == [NoLocals EXCEPT !.arg = inum]
<1>1. pc[p] = "user" /\ Goto(p, "found", l)
  BY DEF Open, Call
<1>2. l \in Local /\ l.file = Null /\ l.arg = inum
  BY NoLocalsIs
<1> HIDE DEF l
<1>3. Moves(p, "found", l)
  BY <1>1, <1>2 DEF Moves, Places, Copying
<1>4. pc'[p] = "found" /\ loc'[p] = l
  BY <1>1, <1>2, GotoFacts DEF DescInv, Places
<1>5. LocalsAt(p)'
  BY <1>2, <1>4 DEF LocalsAt, Copying
<1>6. l.file = loc[p].file
  BY <1>1, <1>2, Known DEF LocalsAt
<1>7. UNCHANGED <<objects, fdArray, semaphores, openFiles, size>>
  BY DEF Open, tables, cache
<1> QED BY <1>3, <1>5, <1>6, <1>7, QuietStep

\* Lookup keeps the invariant.
LEMMA LookupRight ==
  ASSUME DescInv, NEW p \in Procs, Lookup(p)
  PROVE  DescInv'
<1> DEFINE w == IF HasKey(loc[p].arg) THEN "hit" ELSE "miss"
<1>1. pc[p] = "found" /\ Goto(p, w, loc[p]) /\ w \in {"hit", "miss"} /\ (w = "hit" => HasKey(loc[p].arg))
  BY DEF Lookup, At
<1> HIDE DEF w
<1>2. loc[p] \in Local /\ LocalsAt(p)
  BY Known
<1>3. Moves(p, w, loc[p])
  BY <1>1, <1>2 DEF Moves, Places, Copying
<1>4. pc'[p] = w /\ loc'[p] = loc[p]
  BY <1>1, <1>2, GotoFacts DEF DescInv, Places
<1>5. UNCHANGED <<objects, fdArray, semaphores, openFiles, size>>
  BY DEF Lookup, tables, cache
<1>6. HasKey(loc[p].arg) => HasKey(loc[p].arg)'
  BY <1>4, <1>5 DEF HasKey, Chain
<1>7. LocalsAt(p)'
  BY <1>1, <1>2, <1>4, <1>6 DEF LocalsAt, Copying
<1> QED BY <1>3, <1>5, <1>7, QuietStep

\* Exit keeps the invariant.
LEMMA ExitRight ==
  ASSUME DescInv, NEW p \in Procs, Exit(p)
  PROVE  DescInv'
<1>1. pc[p] = "user" /\ Goto(p, "exited", NoLocals)
  BY DEF Exit, Call
<1>2. NoLocals \in Local /\ NoLocals.file = Null
  BY NoLocalsIs
<1>3. Moves(p, "exited", NoLocals)
  BY <1>1, <1>2 DEF Moves, Places, Copying
<1>4. pc'[p] = "exited" /\ loc'[p] = NoLocals
  BY <1>1, <1>2, GotoFacts DEF DescInv, Places
<1>5. LocalsAt(p)'
  BY <1>2, <1>4 DEF LocalsAt, Copying
<1>6. NoLocals.file = loc[p].file
  BY <1>1, <1>2, Known DEF LocalsAt
<1>7. UNCHANGED <<objects, fdArray, semaphores, openFiles, size>>
  BY DEF Exit, tables, cache
<1> QED BY <1>3, <1>5, <1>6, <1>7, QuietStep

\* The node that operator[] finds.
LEMMA ValueIs ==
  ASSUME DescInv, NEW key \in Inodes, HasKey(key)
  PROVE  ValueOf(key) \in Ids /\ objects[ValueOf(key)].kind = "file"
<1>1. PICK i \in DOMAIN Chain(key) : ValueOf(key) = Chain(key)[i].val
  BY DEF HasKey, ValueOf
<1>2. key % BucketCount \in Buckets
  BY DescriptorsAssumption DEF Buckets
<1>3. Chain(key) \in Seq([key : Inodes, val : Ids]) /\ Len(Chain(key)) <= size /\ size \in Nat
  BY <1>2 DEF DescInv, DescTypeOK, Chains, CacheRight, Chain
<1>4. i \in 1 .. Len(Chain(key)) /\ Len(Chain(key)) \in Nat
  BY <1>1, <1>3, LenProperties
<1>5. <<key % BucketCount, i>> \in Nodes
  BY <1>2, <1>3, <1>4 DEF Nodes, Buckets, Chain
<1>6. Chain(key)[i] \in [key : Inodes, val : Ids]
  BY <1>3, <1>4, ElementOfSeq
<1>7. objects[Chain(key)[i].val].kind = "file"
  BY <1>5 DEF DescInv, CacheRight, CacheIsMap, Chain
<1> QED BY <1>1, <1>6, <1>7

\* Hit keeps the invariant.
LEMMA HitRight ==
  ASSUME DescInv, NEW p \in Procs, Hit(p)
  PROVE  DescInv'
<1>1. CASE OverLimit
  <2>1. UNCHANGED <<objects, fdArray, semaphores, openFiles, size, pc, loc>>
    BY <1>1 DEF Hit, Resize, tables
  <2> QED BY <2>1, NoStep
<1>2. CASE ~OverLimit
  <2> DEFINE f == ValueOf(loc[p].arg)
             l == [loc[p] EXCEPT !.file = f]
  <2>0. loc[p] \in Local /\ LocalsAt(p)
    BY Known
  <2>1. /\ pc[p] = "hit" /\ objects' = Inc(objects, f) /\ Goto(p, "alloc", l)
        /\ UNCHANGED <<fdArray, semaphores, openFiles, size>>
    BY <1>2 DEF Hit, At, tables, cache
  <2>2. f \in Ids /\ objects[f].kind = "file" /\ f # Null
    BY <2>0, <2>1, ValueIs, NullApart DEF LocalsAt
  <2> HIDE DEF f
  <2>3. l \in Local /\ l.file = f
    BY <2>0, <2>2 DEF Local
  <2> HIDE DEF l
  <2>4. Moves(p, "alloc", l)
    BY <2>1, <2>3 DEF Moves, Places, Copying
  <2>5. pc'[p] = "alloc" /\ loc'[p] = l
    BY <2>1, <2>3, GotoFacts DEF DescInv, Places
  <2>6. LocalsAt(p)'
    BY <2>2, <2>3, <2>5 DEF LocalsAt, Copying
  <2>7. Good(objects) /\ objects[f] # Freed
    BY <2>2, FreedIs DEF DescInv, CountsRight, Counted
  <2>8. /\ Good(objects') /\ Stays(objects, objects')
        /\ \A x \in Ids : Outside(objects', x) = Outside(objects, x) + One(f, x)
        /\ objects'[f].kind = "file"
    BY <2>1, <2>2, <2>7, IncFacts
  <2>9. loc[p].file = Null /\ \A x \in Ids : One(loc[p].file, x) = 0
    BY <2>0, <2>1, NullApart DEF LocalsAt, One
  <2>10. \A x \in Ids : Outside(objects', x) = Outside(objects, x) - One(loc[p].file, x) + One(l.file, x)
    <3>1. \A x \in Ids : Outside(objects, x) \in Int
      BY FilesFinite DEF DescInv, CountsRight, Counted, Good, Things, Outside
    <3> QED BY <2>3, <2>8, <2>9, <3>1, OneIs
  <2> QED BY <2>1, <2>3, <2>4, <2>6, <2>8, <2>10, ObjectsStep
<1> QED BY <1>1, <1>2

\* The number, or the queue, of an object is set.
SetNumber(O, y, m) == [O EXCEPT ![y].n = m]
SetQueue(O, y, s)  == [O EXCEPT ![y].waiters = s]

\* The field of an object that is an offset or a count.
LEMMA NumberFacts ==
  ASSUME NEW O, Good(O), NEW y \in Ids, O[y].kind \in {"open", "sem"}, NEW m \in Nat,
         NEW Q, Q = SetNumber(O, y, m)
  PROVE  /\ Good(Q)
         /\ \A x \in Ids : Outside(Q, x) = Outside(O, x)
         /\ Stays(O, Q)
         /\ \A x \in Ids : Q[x] = Freed <=> O[x] = Freed
         /\ \A x \in Ids : Q[x].kind = O[x].kind
<1>1. O \in [Ids -> Things] /\ O[y] \in Things
  BY DEF Good
<1>2. Q[y] = [O[y] EXCEPT !.n = m] /\ SameBut(O, Q, y)
  BY <1>1 DEF SetNumber, SameBut
<1>3. /\ Q[y] \in Things /\ Q[y].refs = O[y].refs /\ Q[y].kind = O[y].kind /\ Q[y].file = O[y].file
      /\ Q[y].waiters = O[y].waiters
  BY <1>1, <1>2 DEF Things
<1>4. Q \in [Ids -> Things]
  BY <1>1, <1>2, <1>3 DEF SetNumber
<1>5. O[y].kind # "file" /\ O[y] # Freed
  BY FreedIs
<1>6. /\ Good(Q)
      /\ \A x \in Ids : Outside(Q, x) = Outside(O, x)
      /\ KindStays(O, Q)
      /\ \A x \in Ids : Q[x] = Freed <=> O[x] = Freed
  <2>1. FieldsOf(O, Q, y)
    BY <1>2, <1>3, <1>4, <1>5 DEF FieldsOf
  <2> QED BY <2>1, FieldFacts
<1>7. WaitersStay(O, Q) /\ \A x \in Ids : Q[x].kind = O[x].kind
  BY <1>2, <1>3 DEF WaitersStay, SameBut
<1> QED BY <1>6, <1>7 DEF Stays

\* The queue of a semaphore.
LEMMA QueueFacts ==
  ASSUME NEW O, Good(O), NEW y \in Ids, O[y].kind = "sem", NEW s \in Seq(Procs),
         NEW Q, Q = SetQueue(O, y, s)
  PROVE  /\ Good(Q)
         /\ \A x \in Ids : Outside(Q, x) = Outside(O, x)
         /\ KindStays(O, Q)
         /\ Q[y].waiters = s
         /\ SameBut(O, Q, y)
<1>1. O \in [Ids -> Things] /\ O[y] \in Things
  BY DEF Good
<1>2. Q[y] = [O[y] EXCEPT !.waiters = s] /\ SameBut(O, Q, y)
  BY <1>1 DEF SetQueue, SameBut
<1>3. /\ Q[y] \in Things /\ Q[y].refs = O[y].refs /\ Q[y].kind = O[y].kind /\ Q[y].file = O[y].file
      /\ Q[y].waiters = s
  BY <1>1, <1>2 DEF Things
<1>4. Q \in [Ids -> Things]
  BY <1>1, <1>2, <1>3 DEF SetQueue
<1>5. O[y].kind # "file" /\ O[y] # Freed
  BY FreedIs
<1>6. FieldsOf(O, Q, y)
  BY <1>2, <1>3, <1>4, <1>5 DEF FieldsOf
<1> QED BY <1>2, <1>3, <1>6, FieldFacts

\* What the invariant says of the objects.
LEMMA ObjectsGood ==
  ASSUME DescInv
  PROVE  /\ Good(objects) /\ objects \in [Ids -> Things]
         /\ \A x \in Ids : Outside(objects, x) \in Nat
<1>1. size \in Nat
  BY DEF DescInv, DescTypeOK
<1> QED BY <1>1, OutsideNat DEF DescInv, CountsRight, Counted, Good

\* What descriptors and calls point to.
LEMMA PointedIs ==
  ASSUME DescInv, NEW p \in Procs
  PROVE  /\ \A d \in Slots : fdArray[p][d] # Null =>
              /\ fdArray[p][d] \in Ids /\ objects[fdArray[p][d]].kind = "open"
              /\ Outside(objects, fdArray[p][d]) >= 1 /\ objects[fdArray[p][d]] # Freed
              /\ objects[fdArray[p][d]].file \in Ids
              /\ objects[objects[fdArray[p][d]].file].kind = "file"
         /\ \A d \in Slots : semaphores[p][d] # Null =>
              /\ semaphores[p][d] \in Ids /\ objects[semaphores[p][d]].kind = "sem"
              /\ Outside(objects, semaphores[p][d]) >= 1 /\ objects[semaphores[p][d]] # Freed
         /\ loc[p].file # Null =>
              /\ loc[p].file \in Ids /\ objects[loc[p].file].kind = "file"
              /\ Outside(objects, loc[p].file) >= 1 /\ objects[loc[p].file] # Freed
<1>1. size \in Nat /\ Counted(objects, fdArray, semaphores, openFiles, size, loc)
  BY DEF DescInv, DescTypeOK, CountsRight
<1>2. ASSUME NEW d \in Slots, fdArray[p][d] # Null
      PROVE  /\ fdArray[p][d] \in Ids /\ objects[fdArray[p][d]].kind = "open"
             /\ Outside(objects, fdArray[p][d]) >= 1 /\ objects[fdArray[p][d]] # Freed
             /\ objects[fdArray[p][d]].file \in Ids
             /\ objects[objects[fdArray[p][d]].file].kind = "file"
  <2>1. fdArray[p][d] \in Ids
    BY <1>2 DEF DescInv, DescTypeOK, Tables
  <2>2. objects[fdArray[p][d]].kind = "open"
    BY <1>2 DEF DescInv, PointersRight
  <2>3. Outside(objects, fdArray[p][d]) >= 1 /\ objects[fdArray[p][d]] # Freed
    BY <1>1, <2>1, PointedThere
  <2>4. objects[fdArray[p][d]].file \in Ids /\ objects[objects[fdArray[p][d]].file].kind = "file"
    BY <2>1, <2>2, ObjectsGood DEF Good, Things
  <2> QED BY <2>1, <2>2, <2>3, <2>4
<1>3. ASSUME NEW d \in Slots, semaphores[p][d] # Null
      PROVE  /\ semaphores[p][d] \in Ids /\ objects[semaphores[p][d]].kind = "sem"
             /\ Outside(objects, semaphores[p][d]) >= 1 /\ objects[semaphores[p][d]] # Freed
  <2>1. semaphores[p][d] \in Ids
    BY <1>3 DEF DescInv, DescTypeOK, Tables
  <2>2. objects[semaphores[p][d]].kind = "sem"
    BY <1>3 DEF DescInv, PointersRight
  <2> QED BY <1>1, <2>1, <2>2, PointedThere
<1>4. ASSUME loc[p].file # Null
      PROVE  /\ loc[p].file \in Ids /\ objects[loc[p].file].kind = "file"
             /\ Outside(objects, loc[p].file) >= 1 /\ objects[loc[p].file] # Freed
  <2>1. loc[p].file \in Ids
    BY <1>4 DEF DescInv, DescTypeOK, Locals
  <2>2. objects[loc[p].file].kind = "file"
    BY <1>4 DEF DescInv, PointersRight
  <2> QED BY <1>1, <2>1, <2>2, PointedThere
<1> QED BY <1>2, <1>3, <1>4

\* StartIO keeps the invariant.
LEMMA StartIORight ==
  ASSUME DescInv, NEW p \in Procs, NEW d \in Slots, NEW op \in {"read", "write"}, StartIO(p, d, op)
  PROVE  DescInv'
<1> DEFINE f == objects[fdArray[p][d]].file
           l == [NoLocals EXCEPT !.file = f, !.arg = d]
<1>1. /\ pc[p] = "user" /\ fdArray[p][d] # Null /\ objects' = Inc(objects, f) /\ Goto(p, op, l)
      /\ UNCHANGED <<fdArray, semaphores, openFiles, size>>
  BY DEF StartIO, Call, IsOpenFile, tables, cache
<1>2. f \in Ids /\ objects[f].kind = "file" /\ f # Null /\ objects[f] # Freed
  BY <1>1, PointedIs, NullApart, FreedIs
<1> HIDE DEF f
<1>3. l \in Local /\ l.file = f /\ l.arg = d
  <2>1. f \in Ids \cup {Null} /\ d \in Inodes \cup Slots \cup Procs \cup {0}
    BY <1>2
  <2> QED BY <2>1, NoLocalsIs
<1> HIDE DEF l
<1>4. Moves(p, op, l)
  BY <1>1, <1>3 DEF Moves, Places, Copying
<1>5. pc'[p] = op /\ loc'[p] = l
  BY <1>1, <1>3, GotoFacts DEF DescInv, Places
<1>6. LocalsAt(p)'
  BY <1>1, <1>2, <1>3, <1>5 DEF LocalsAt, Copying
<1>7. Good(objects) /\ \A x \in Ids : Outside(objects, x) \in Nat
  BY ObjectsGood
<1>8. /\ Good(objects') /\ Stays(objects, objects')
      /\ \A x \in Ids : Outside(objects', x) = Outside(objects, x) + One(f, x)
      /\ objects'[f].kind = "file"
  BY <1>1, <1>2, <1>7, IncFacts
<1>9. loc[p].file = Null /\ \A x \in Ids : One(loc[p].file, x) = 0
  BY <1>1, NullApart, Known DEF LocalsAt, One
<1>10. \A x \in Ids : Outside(objects', x) = Outside(objects, x) - One(loc[p].file, x) + One(l.file, x)
  BY <1>3, <1>7, <1>8, <1>9, OneIs
<1> QED BY <1>1, <1>3, <1>4, <1>6, <1>8, <1>10, ObjectsStep

\* EndIO keeps the invariant: the descriptor is still open, as its process is in the call.
LEMMA EndIORight ==
  ASSUME DescInv, NEW p \in Procs, pc[p] \in {"read", "write"}, NEW n \in Nat, EndIO(p, n)
  PROVE  DescInv'
<1> DEFINE o == fdArray[p][loc[p].arg]
           f == loc[p].file
           m == objects[o].n + n
           P == SetNumber(objects, o, m)
<1>1. /\ objects' = Release(P, f) /\ Goto(p, "user", NoLocals)
      /\ UNCHANGED <<fdArray, semaphores, openFiles, size>>
  BY DEF EndIO, tables, cache, SetNumber
<1>2. loc[p].arg \in Slots /\ o # Null /\ f # Null
  BY Known DEF LocalsAt
<1>3. o \in Ids /\ objects[o].kind = "open" /\ f \in Ids /\ Outside(objects, f) >= 1
  BY <1>2, PointedIs
<1>4. Good(objects) /\ objects \in [Ids -> Things] /\ \A x \in Ids : Outside(objects, x) \in Nat
  BY ObjectsGood
<1> HIDE DEF o, f
<1>5. m \in Nat
  BY <1>3, <1>4 DEF Things
<1> HIDE DEF m
<1>6. /\ Good(P) /\ Stays(objects, P)
      /\ \A x \in Ids : Outside(P, x) = Outside(objects, x)
  BY <1>3, <1>4, <1>5, NumberFacts
<1> HIDE DEF P
<1>7. Released(P, objects', f)
  BY <1>1, <1>3, <1>4, <1>6, ReleaseFacts
<1>8. /\ Good(objects') /\ Stays(objects, objects')
      /\ \A x \in Ids : Outside(objects', x) = Outside(objects, x) - One(f, x)
  BY <1>6, <1>7, StaysTwice DEF Released
<1>9. NoLocals \in Local /\ NoLocals.file = Null
  BY NoLocalsIs
<1>10. Moves(p, "user", NoLocals)
  BY <1>1, <1>9 DEF Moves, Places, Copying
<1>11. pc'[p] = "user" /\ loc'[p] = NoLocals
  BY <1>1, <1>9, GotoFacts DEF DescInv, Places
<1>12. LocalsAt(p)'
  BY <1>9, <1>11 DEF LocalsAt, Copying
<1>13. \A x \in Ids : Outside(objects', x) = Outside(objects, x) - One(loc[p].file, x) + One(NoLocals.file, x)
  <2>1. \A x \in Ids : One(Null, x) = 0
    BY NullApart DEF One
  <2> QED BY <1>4, <1>8, <1>9, <2>1, OneIs DEF f
<1> QED BY <1>1, <1>8, <1>9, <1>10, <1>12, <1>13, ObjectsStep

\* EndRead keeps the invariant.
LEMMA EndReadRight ==
  ASSUME DescInv, NEW p \in Procs, EndRead(p)
  PROVE  DescInv'
<1>1. pc[p] = "read" /\ (EndIO(p, 1) \/ EndIO(p, 0))
  BY DEF EndRead, At
<1> QED BY <1>1, EndIORight

\* EndWrite keeps the invariant.
LEMMA EndWriteRight ==
  ASSUME DescInv, NEW p \in Procs, EndWrite(p)
  PROVE  DescInv'
<1>1. pc[p] = "write" /\ (EndIO(p, 1) \/ EndIO(p, 2))
  BY DEF EndWrite, At
<1> QED BY <1>1, EndIORight

\* A call that changes the number of an object, and nothing else.
LEMMA NumberStep ==
  ASSUME DescInv, NEW p \in Procs, pc[p] = "user", NEW y \in Ids, objects[y].kind \in {"open", "sem"},
         NEW m \in Nat, objects' = SetNumber(objects, y, m), Stay,
         UNCHANGED <<fdArray, semaphores, openFiles, size>>
  PROVE  DescInv'
<1>1. Goto(p, "user", loc[p]) /\ loc[p] \in Local
  BY StayIs DEF DescInv
<1>2. Moves(p, "user", loc[p])
  BY <1>1 DEF Moves, Places, Copying
<1>3. Good(objects) /\ \A x \in Ids : Outside(objects, x) \in Nat
  BY ObjectsGood
<1>4. /\ Good(objects') /\ Stays(objects, objects')
      /\ \A x \in Ids : Outside(objects', x) = Outside(objects, x)
  BY <1>3, NumberFacts
<1>5. \A x \in Ids : Outside(objects', x) = Outside(objects, x) - One(loc[p].file, x) + One(loc[p].file, x)
  <2> TAKE x \in Ids
  <2>1. One(loc[p].file, x) \in Int
    BY OneIs
  <2> QED BY <1>3, <1>4, <2>1
<1>6. LocalsAt(p)'
  BY Known DEF Stay, LocalsAt, Copying
<1> QED BY <1>2, <1>4, <1>5, <1>6, ObjectsStep

\* Seek keeps the invariant.
LEMMA SeekRight ==
  ASSUME DescInv, NEW p \in Procs, NEW d \in Slots, NEW off \in Nat, Seek(p, d, off)
  PROVE  DescInv'
<1> DEFINE o == fdArray[p][d]
<1>1. /\ pc[p] = "user" /\ o # Null /\ objects' = SetNumber(objects, o, off) /\ Stay
      /\ UNCHANGED <<fdArray, semaphores, openFiles, size>>
  BY DEF Seek, Call, IsOpenFile, tables, cache, SetNumber
<1>2. o \in Ids /\ objects[o].kind = "open"
  BY <1>1, PointedIs
<1> HIDE DEF o
<1> QED BY <1>1, <1>2, NumberStep

\* After a step that changes the queue of y to s.
SleepersOf(y, s) ==
  /\ IsInjective(s)
  /\ \A q \in Procs : q \in ToSet(s) <=> Waits(q, y)'
  /\ \A q \in Procs, x \in Ids : x # y => (Waits(q, x)' <=> Waits(q, x))

\* Somebody begins or ends to sleep.
LEMMA SleepStep ==
  ASSUME DescInv, NEW p \in Procs, NEW w, NEW l, Shifts(p, w, l), l.file = loc[p].file,
         NEW y \in Ids, objects[y].kind = "sem", NEW s \in Seq(Procs),
         objects' = SetQueue(objects, y, s),
         UNCHANGED <<fdArray, semaphores, openFiles, size>>, LocalsAt(p)',
         SleepersOf(y, s)
  PROVE  DescInv'
<1>1. Good(objects) /\ \A x \in Ids : Outside(objects, x) \in Nat
  BY ObjectsGood
<1>2. /\ Good(objects') /\ KindStays(objects, objects')
      /\ \A x \in Ids : Outside(objects', x) = Outside(objects, x)
      /\ objects'[y].waiters = s /\ SameBut(objects, objects', y)
  BY <1>1, QueueFacts
<1>3. /\ loc'[p] = l /\ \A q \in Procs : q # p => loc'[q] = loc[q]
      /\ LocalBut(loc, loc', p)
  BY GotoFacts DEF Shifts, DescInv
<1>4. CountsRight'
  <2>1. 0 \in Slots
    BY DescriptorsAssumption DEF Slots
  <2>2. TableBut(fdArray, fdArray', p, 0) /\ TableBut(semaphores, semaphores', p, 0)
    BY DEF TableBut
  <2>3. CountsMove(p, 0, p, 0, p)
    <3> SUFFICES ASSUME NEW x \in Ids
                 PROVE  Outside(objects', x) = Outside(objects, x)
                          - One(fdArray[p][0], x) + One(fdArray'[p][0], x)
                          - One(semaphores[p][0], x) + One(semaphores'[p][0], x)
                          - One(loc[p].file, x) + One(loc'[p].file, x)
      BY DEF CountsMove
    <3>1. /\ One(fdArray[p][0], x) \in Int /\ One(semaphores[p][0], x) \in Int
          /\ One(loc[p].file, x) \in Int
      BY OneIs
    <3> QED BY <1>1, <1>2, <1>3, <3>1
  <2> QED BY <1>2, <1>3, <2>1, <2>2, <2>3, CountsStep DEF DescInv
<1>5. TablesOf(p)
  BY DEF TablesOf, DescInv, DescTypeOK
<1>6. NewPointers
  BY <1>3 DEF NewPointers
<1>7. FdOnce'
  BY DEF FdOnce, DescInv
<1>8. /\ DescTypeOK' /\ CountsRight' /\ PointersRight' /\ FdOnce'
      /\ LocalsRight' /\ ForksRight' /\ CacheRight'
  BY <1>2, <1>4, <1>5, <1>6, <1>7, MostOfStep
<1>9. SleepersRight'
  <2> SUFFICES ASSUME NEW x \in Ids
               PROVE  /\ IsInjective(objects'[x].waiters)
                      /\ \A q \in Procs : q \in ToSet(objects'[x].waiters) <=> Waits(q, x)'
    BY DEF SleepersRight
  <2>1. CASE x = y
    BY <1>2, <2>1 DEF SleepersOf
  <2>2. CASE x # y
    BY <1>2, <2>2 DEF DescInv, SleepersRight, SameBut, SleepersOf
  <2> QED BY <2>1, <2>2
<1> QED BY <1>8, <1>9 DEF DescInv

\* Down keeps the invariant: who begins to sleep joins the queue.
LEMMA DownRight ==
  ASSUME DescInv, NEW p \in Procs, NEW s \in Slots, Down(p, s)
  PROVE  DescInv'
<1>1. pc[p] = "user" /\ semaphores[p][s] # Null /\ UNCHANGED <<fdArray, semaphores, openFiles, size>>
  BY DEF Down, Call, tables, cache
<1>2. PICK x \in Ids : x = semaphores[p][s] /\ objects[x].kind = "sem"
  BY <1>1, PointedIs
<1>3. objects[x].n \in Nat /\ objects[x].waiters \in Seq(Procs)
  BY <1>2, ObjectsGood DEF Things
<1>4. CASE objects[x].n > 0
  <2> DEFINE m == objects[x].n - 1
  <2>1. objects' = SetNumber(objects, x, m) /\ Stay
    BY <1>2, <1>4 DEF Down, SetNumber
  <2>2. m \in Nat
    BY <1>3, <1>4
  <2> HIDE DEF m
  <2> QED BY <1>1, <1>2, <2>1, <2>2, NumberStep
<1>5. CASE ~(objects[x].n > 0)
  <2> DEFINE t == Append(objects[x].waiters, p)
             l == [NoLocals EXCEPT !.arg = s]
  <2>1. objects' = SetQueue(objects, x, t) /\ Goto(p, "down", l)
    BY <1>2, <1>5 DEF Down, SetQueue
  <2>2. \A q \in Procs : q \in ToSet(objects[x].waiters) <=> Waits(q, x)
    BY <1>2 DEF DescInv, SleepersRight
  <2>3. p \notin ToSet(objects[x].waiters) /\ IsInjective(objects[x].waiters)
    BY <1>1, <1>2, <2>2 DEF DescInv, SleepersRight, Waits
  <2>4. t \in Seq(Procs) /\ IsInjective(t) /\ ToSet(t) = ToSet(objects[x].waiters) \cup {p}
    BY <1>3, <2>3, AddFacts
  <2>5. l \in Local /\ l.file = Null /\ l.arg = s
    BY NoLocalsIs
  <2> HIDE DEF l, t
  <2>6. loc[p].file = Null
    BY <1>1, Known DEF LocalsAt
  <2>7. Shifts(p, "down", l)
    BY <1>1, <2>1, <2>5 DEF Shifts, Places, Copying
  <2>8. /\ pc'[p] = "down" /\ loc'[p] = l
        /\ \A q \in Procs : q # p => pc'[q] = pc[q] /\ loc'[q] = loc[q]
    BY <2>1, <2>5, GotoFacts DEF DescInv, Places
  <2>9. LocalsAt(p)'
    BY <1>1, <2>5, <2>8 DEF LocalsAt, Copying
  <2>10. \A q \in Procs, y \in Ids : Waits(q, y)' <=> Waits(q, y) \/ (q = p /\ y = x)
    <3> TAKE q \in Procs, y \in Ids
    <3>1. semaphores'[q] = semaphores[q]
      BY <1>1
    <3>2. CASE q = p
      BY <1>1, <1>2, <2>5, <2>8, <3>1, <3>2 DEF Waits
    <3>3. CASE q # p
      BY <2>8, <3>1, <3>3 DEF Waits
    <3> QED BY <3>2, <3>3
  <2>11. \A q \in Procs : q \in ToSet(t) <=> Waits(q, x)'
    BY <1>2, <2>2, <2>4, <2>10
  <2>12. SleepersOf(x, t)
    BY <2>4, <2>10, <2>11 DEF SleepersOf
  <2> QED BY <1>1, <1>2, <2>1, <2>4, <2>5, <2>6, <2>7, <2>9, <2>12, SleepStep
<1> QED BY <1>4, <1>5

\* Up keeps the invariant: who is woken leaves it.
LEMMA UpRight ==
  ASSUME DescInv, NEW p \in Procs, NEW s \in Slots, Up(p, s)
  PROVE  DescInv'
<1>1. pc[p] = "user" /\ semaphores[p][s] # Null /\ UNCHANGED <<fdArray, semaphores, openFiles, size>>
  BY DEF Up, Call, tables, cache
<1>2. PICK x \in Ids : x = semaphores[p][s] /\ objects[x].kind = "sem"
  BY <1>1, PointedIs
<1>3. objects[x].n \in Nat /\ objects[x].waiters \in Seq(Procs)
  BY <1>2, ObjectsGood DEF Things
<1>4. CASE objects[x].waiters = << >>
  <2> DEFINE m == objects[x].n + 1
  <2>1. objects' = SetNumber(objects, x, m) /\ Stay
    BY <1>2, <1>4 DEF Up, SetNumber
  <2>2. m \in Nat
    BY <1>3
  <2> HIDE DEF m
  <2> QED BY <1>1, <1>2, <2>1, <2>2, NumberStep
<1>5. CASE objects[x].waiters # << >>
  <2> DEFINE t == Tail(objects[x].waiters)
  <2>0. PICK h \in Procs : h = Head(objects[x].waiters)
    BY <1>3, <1>5, RemoveFacts
  <2>1. objects' = SetQueue(objects, x, t) /\ Goto(h, "user", NoLocals)
    BY <1>2, <1>5, <2>0 DEF Up, SetQueue
  <2>2. \A q \in Procs : q \in ToSet(objects[x].waiters) <=> Waits(q, x)
    BY <1>2 DEF DescInv, SleepersRight
  <2>3. IsInjective(objects[x].waiters)
    BY <1>2 DEF DescInv, SleepersRight
  <2>4. t \in Seq(Procs) /\ IsInjective(t) /\ ToSet(t) = ToSet(objects[x].waiters) \ {h}
        /\ h \in ToSet(objects[x].waiters)
    BY <1>3, <1>5, <2>0, <2>3, RemoveFacts
  <2>5. NoLocals \in Local /\ NoLocals.file = Null
    BY NoLocalsIs
  <2> HIDE DEF t
  <2>6. pc[h] = "down" /\ semaphores[h][loc[h].arg] = x
    BY <2>2, <2>4 DEF Waits
  <2>7. loc[h].file = Null
    BY <2>4, <2>6, Known DEF LocalsAt
  <2>8. Shifts(h, "user", NoLocals)
    BY <2>1, <2>5, <2>6 DEF Shifts, Places, Copying
  <2>9. /\ pc'[h] = "user" /\ loc'[h] = NoLocals
        /\ \A q \in Procs : q # h => pc'[q] = pc[q] /\ loc'[q] = loc[q]
    BY <2>1, <2>4, <2>5, GotoFacts DEF DescInv, Places
  <2>10. LocalsAt(h)'
    BY <2>5, <2>9 DEF LocalsAt, Copying
  <2>11. \A q \in Procs, y \in Ids : Waits(q, y)' <=> Waits(q, y) /\ q # h
    BY <1>1, <2>9 DEF Waits
  <2>12. \A q \in Procs : q \in ToSet(t) <=> Waits(q, x)'
    BY <1>2, <2>2, <2>4, <2>11
  <2>13. \A q \in Procs, y \in Ids : y # x => (Waits(q, y)' <=> Waits(q, y))
    BY <2>6, <2>11 DEF Waits
  <2>14. SleepersOf(x, t)
    BY <2>4, <2>12, <2>13 DEF SleepersOf
  <2> QED BY <1>1, <1>2, <2>1, <2>4, <2>5, <2>7, <2>8, <2>10, <2>14, SleepStep
<1> QED BY <1>4, <1>5

\* A descriptor gets another OpenFile, or none.
FdTo(q, d, o) ==
  /\ o \in Ids \cup {Null} /\ fdArray' = [fdArray EXCEPT ![q][d] = o]
  /\ o # Null => objects[o] = Freed /\ objects'[o].kind = "open"

\* The counts after a step that sets descriptor d of q to o, and the locals of p to l.
FdCounts(p, l, q, d, o) ==
  \A x \in Ids : Outside(objects', x) = Outside(objects, x)
    - One(fdArray[q][d], x) + One(o, x) - One(loc[p].file, x) + One(l.file, x)

\* A step that changes one descriptor.
LEMMA FdStep ==
  ASSUME DescInv, NEW p \in Procs, NEW w, NEW l, Moves(p, w, l),
         NEW q \in Procs, NEW d \in Slots, q = p \/ pc[q] = "made", NEW o, FdTo(q, d, o),
         UNCHANGED <<semaphores, openFiles, size>>,
         Good(objects'), Stays(objects, objects'), FdCounts(p, l, q, d, o),
         l.file = loc[p].file \/ l.file = Null, LocalsAt(p)'
  PROVE  DescInv'
<1> USE DEF FdTo
<1>1. /\ loc'[p] = l /\ \A r \in Procs : r # p => loc'[r] = loc[r]
      /\ LocalBut(loc, loc', p)
  BY GotoFacts DEF Moves, DescInv
<1>2. fdArray \in Tables /\ semaphores \in Tables
  BY DEF DescInv, DescTypeOK
<1>3. fdArray' \in Tables /\ fdArray'[q][d] = o /\ TableBut(fdArray, fdArray', q, d)
      /\ \A r \in Procs : r # q => fdArray'[r] = fdArray[r]
  BY <1>2 DEF Tables, TableBut
<1>4. TableBut(semaphores, semaphores', p, d)
  BY DEF TableBut
<1>5. CountsMove(q, d, p, d, p)
  <2> SUFFICES ASSUME NEW x \in Ids
               PROVE  Outside(objects', x) = Outside(objects, x)
                        - One(fdArray[q][d], x) + One(fdArray'[q][d], x)
                        - One(semaphores[p][d], x) + One(semaphores'[p][d], x)
                        - One(loc[p].file, x) + One(loc'[p].file, x)
    BY DEF CountsMove
  <2>1. /\ One(fdArray[q][d], x) \in Int /\ One(o, x) \in Int /\ One(semaphores[p][d], x) \in Int
        /\ One(loc[p].file, x) \in Int /\ One(l.file, x) \in Int
    BY OneIs
  <2>2. Outside(objects, x) \in Nat
    BY ObjectsGood
  <2>3. Outside(objects', x) = Outside(objects, x)
          - One(fdArray[q][d], x) + One(o, x) - One(loc[p].file, x) + One(l.file, x)
    BY DEF FdCounts
  <2> QED BY <1>1, <1>3, <2>1, <2>2, <2>3
<1>6. CountsRight'
  BY <1>1, <1>3, <1>4, <1>5, CountsStep DEF DescInv
<1>7. TablesOf(p)
  BY <1>2, <1>3 DEF TablesOf
<1>8. NewPointers
  <2>1. \A r \in Procs, e \in Slots : fdArray'[r][e] = fdArray[r][e] \/ fdArray'[r][e] = o
    BY <1>3 DEF TableBut
  <2> QED BY <1>1, <2>1 DEF NewPointers
<1>9. FdOnce'
  <2>1. o # Null => \A r \in Procs, e \in Slots : fdArray[r][e] # o
    BY FreePointedNot DEF DescInv
  <2> QED BY <1>3, <2>1, FdOnceAfter DEF DescInv
<1> QED BY <1>6, <1>7, <1>8, <1>9, OneStep

\* A step that changes one of the caller's semaphores.
LEMMA SemStep ==
  ASSUME DescInv, NEW p \in Procs, NEW w, NEW l, Moves(p, w, l), l.file = loc[p].file,
         NEW d \in Slots, NEW o \in Ids \cup {Null}, semaphores' = [semaphores EXCEPT ![p][d] = o],
         UNCHANGED <<fdArray, openFiles, size>>,
         Good(objects'), Stays(objects, objects'),
         o # Null => objects'[o].kind = "sem",
         \A x \in Ids : Outside(objects', x) = Outside(objects, x) - One(semaphores[p][d], x) + One(o, x),
         LocalsAt(p)'
  PROVE  DescInv'
<1>1. /\ loc'[p] = l /\ \A r \in Procs : r # p => loc'[r] = loc[r]
      /\ LocalBut(loc, loc', p)
  BY GotoFacts DEF Moves, DescInv
<1>2. fdArray \in Tables /\ semaphores \in Tables
  BY DEF DescInv, DescTypeOK
<1>3. semaphores' \in Tables /\ semaphores'[p][d] = o /\ TableBut(semaphores, semaphores', p, d)
      /\ \A r \in Procs : r # p => semaphores'[r] = semaphores[r]
  BY <1>2 DEF Tables, TableBut
<1>4. TableBut(fdArray, fdArray', p, d)
  BY DEF TableBut
<1>5. CountsMove(p, d, p, d, p)
  <2> SUFFICES ASSUME NEW x \in Ids
               PROVE  Outside(objects', x) = Outside(objects, x)
                        - One(fdArray[p][d], x) + One(fdArray'[p][d], x)
                        - One(semaphores[p][d], x) + One(semaphores'[p][d], x)
                        - One(loc[p].file, x) + One(loc'[p].file, x)
    BY DEF CountsMove
  <2>1. /\ One(fdArray[p][d], x) \in Int /\ One(o, x) \in Int /\ One(semaphores[p][d], x) \in Int
        /\ One(loc[p].file, x) \in Int
    BY OneIs
  <2>2. Outside(objects, x) \in Nat
    BY ObjectsGood
  <2>3. Outside(objects', x) = Outside(objects, x) - One(semaphores[p][d], x) + One(o, x)
    OBVIOUS
  <2> QED BY <1>1, <1>3, <2>1, <2>2, <2>3
<1>6. CountsRight'
  BY <1>1, <1>3, <1>4, <1>5, CountsStep DEF DescInv
<1>7. TablesOf(p)
  BY <1>2, <1>3 DEF TablesOf
<1>8. NewPointers
  <2>1. \A r \in Procs, e \in Slots : semaphores'[r][e] = semaphores[r][e] \/ semaphores'[r][e] = o
    BY <1>3 DEF TableBut
  <2> QED BY <1>1, <2>1 DEF NewPointers
<1>9. FdOnce'
  BY DEF FdOnce, DescInv
<1> QED BY <1>6, <1>7, <1>8, <1>9, OneStep

\* A new OpenFile, and a pointer that goes.
LEMMA MakeOpen ==
  ASSUME DescInv, Room, NEW o, o = Fresh(objects), NEW f \in Ids, objects[f].kind = "file",
         NEW off \in Nat, NEW y \in Ids \cup {Null}, y # Null => Outside(objects, y) >= 1 /\ objects[y] # Freed,
         objects' = Release(CreateOpen(objects, o, f, off), y)
  PROVE  /\ o \in Ids /\ objects[o] = Freed
         /\ Good(objects') /\ Stays(objects, objects')
         /\ objects'[o].kind = "open"
         /\ \A x \in Ids : Outside(objects', x) = Outside(objects, x) + One(o, x) - One(y, x)
<1> DEFINE P == CreateOpen(objects, o, f, off)
<1>1. o \in Ids /\ objects[o] = Freed
  BY FreshIs
<1>2. Good(objects) /\ \A x \in Ids : Outside(objects, x) \in Nat
  BY ObjectsGood
<1>3. /\ Good(P) /\ Stays(objects, P)
      /\ \A x \in Ids : Outside(P, x) = Outside(objects, x) + One(o, x)
      /\ P[o] # Freed /\ P[o].kind = "open"
  BY <1>1, <1>2, CreateOpenFacts
<1> HIDE DEF P
<1>4. \A x \in Ids : Outside(P, x) \in Nat
  BY <1>2, <1>3, OneIs
<1>5. y # Null => Outside(P, y) >= 1
  BY <1>2, <1>3, OneIs
<1>6. Released(P, objects', y)
  BY <1>3, <1>4, <1>5, ReleaseFacts DEF P
<1>7. Stays(objects, objects')
  BY <1>3, <1>6, StaysTwice DEF Released
<1>8. \A x \in Ids : Outside(objects', x) = Outside(objects, x) + One(o, x) - One(y, x)
  BY <1>2, <1>3, <1>6, OneIs DEF Released
<1>9. objects'[o] # Freed
  <2>1. o # y
    BY <1>1, NullApart
  <2>2. Outside(objects', o) >= 1
    <3>1. One(o, o) = 1 /\ One(y, o) = 0
      BY <2>1 DEF One
    <3> QED BY <1>1, <1>2, <1>8, <3>1
  <2>3. Good(objects')
    BY <1>6 DEF Released
  <2> QED BY <1>1, <2>2, <2>3, FilesFinite, FreedIs DEF Outside, Good, Things
<1>10. objects'[o].kind = "open"
  BY <1>1, <1>3, <1>6, <1>9 DEF Released, Stays, KindStays
<1> QED BY <1>1, <1>6, <1>7, <1>8, <1>10 DEF Released

\* A pointer goes.
LEMMA LetGo ==
  ASSUME DescInv, NEW y \in Ids \cup {Null}, y # Null => Outside(objects, y) >= 1,
         objects' = Release(objects, y)
  PROVE  /\ Good(objects') /\ Stays(objects, objects')
         /\ \A x \in Ids : Outside(objects', x) = Outside(objects, x) - One(y, x)
<1>1. Good(objects) /\ \A x \in Ids : Outside(objects, x) \in Nat
  BY ObjectsGood
<1>2. Released(objects, objects', y)
  BY <1>1, ReleaseFacts
<1> QED BY <1>2 DEF Released

\* A pointer that is null counts for nothing.
LEMMA OneOfNull == \A x \in Ids : One(Null, x) = 0
BY NullApart DEF One

\* AllocateFD keeps the invariant.
LEMMA AllocateFDRight ==
  ASSUME DescInv, NEW p \in Procs, AllocateFD(p)
  PROVE  DescInv'
<1> DEFINE f == loc[p].file
<1>1. pc[p] = "alloc" /\ Goto(p, "user", NoLocals) /\ UNCHANGED <<semaphores, openFiles, size>>
  BY DEF AllocateFD, At, cache
<1>2. f \in Ids /\ objects[f].kind = "file" /\ Outside(objects, f) >= 1 /\ objects[f] # Freed
  BY <1>1, Known, PointedIs DEF LocalsAt
<1>3. NoLocals \in Local /\ NoLocals.file = Null
  BY NoLocalsIs
<1>4. Moves(p, "user", NoLocals)
  BY <1>1, <1>3 DEF Moves, Places, Copying
<1>5. pc'[p] = "user" /\ loc'[p] = NoLocals
  BY <1>1, <1>3, GotoFacts DEF DescInv, Places
<1>6. LocalsAt(p)'
  BY <1>3, <1>5 DEF LocalsAt, Copying
<1>7. \A x \in Ids : Outside(objects, x) \in Nat
  BY ObjectsGood
<1>8. CASE NullSlots(fdArray[p]) = {}
  <2>1. objects' = Release(objects, f) /\ UNCHANGED fdArray
    BY <1>8 DEF AllocateFD
  <2> HIDE DEF f
  <2>2. /\ Good(objects') /\ Stays(objects, objects')
        /\ \A x \in Ids : Outside(objects', x) = Outside(objects, x) - One(f, x)
    BY <1>2, <2>1, LetGo
  <2>3. \A x \in Ids : Outside(objects', x) = Outside(objects, x) - One(loc[p].file, x) + One(NoLocals.file, x)
    BY <1>3, <1>7, <2>2, OneOfNull, OneIs DEF f
  <2> QED BY <1>1, <1>3, <1>4, <1>6, <2>1, <2>2, <2>3, ObjectsStep
<1>9. CASE NullSlots(fdArray[p]) # {}
  <2>1. PICK o : o = Fresh(objects)
    OBVIOUS
  <2>2. PICK d \in Slots : d = FirstNull(fdArray[p]) /\ fdArray[p][d] = Null
    BY <1>9, FirstNullIs DEF NullSlots
  <2>3. /\ Room /\ objects' = Release(CreateOpen(objects, o, f, 0), f)
        /\ fdArray' = [fdArray EXCEPT ![p][d] = o]
    BY <1>9, <2>1, <2>2 DEF AllocateFD
  <2> HIDE DEF f
  <2>4. /\ o \in Ids /\ objects[o] = Freed
        /\ Good(objects') /\ Stays(objects, objects')
        /\ objects'[o].kind = "open"
        /\ \A x \in Ids : Outside(objects', x) = Outside(objects, x) + One(o, x) - One(f, x)
    BY <1>2, <2>1, <2>3, MakeOpen
  <2>5. FdCounts(p, NoLocals, p, d, o)
    <3> SUFFICES \A x \in Ids : Outside(objects', x) = Outside(objects, x)
          - One(fdArray[p][d], x) + One(o, x) - One(loc[p].file, x) + One(NoLocals.file, x)
      BY DEF FdCounts
    <3> TAKE x \in Ids
    <3>1. One(o, x) \in Int /\ One(f, x) \in Int /\ One(Null, x) = 0
      BY OneIs, OneOfNull
    <3> QED BY <1>3, <1>7, <2>2, <2>4, <3>1 DEF f
  <2>6. FdTo(p, d, o)
    BY <2>3, <2>4 DEF FdTo
  <2> QED BY <1>1, <1>3, <1>4, <1>6, <2>4, <2>5, <2>6, FdStep
<1> QED BY <1>8, <1>9

\* CloseFile keeps the invariant.
LEMMA CloseFileRight ==
  ASSUME DescInv, NEW p \in Procs, NEW d \in Slots, CloseFile(p, d)
  PROVE  DescInv'
<1> DEFINE y == fdArray[p][d]
<1>1. /\ pc[p] = "user" /\ y # Null /\ objects' = Release(objects, y)
      /\ fdArray' = [fdArray EXCEPT ![p][d] = Null] /\ Stay
      /\ UNCHANGED <<semaphores, openFiles, size>>
  BY DEF CloseFile, Call, cache
<1>2. y \in Ids /\ Outside(objects, y) >= 1
  BY <1>1, PointedIs
<1> HIDE DEF y
<1>3. /\ Good(objects') /\ Stays(objects, objects')
      /\ \A x \in Ids : Outside(objects', x) = Outside(objects, x) - One(y, x)
  BY <1>1, <1>2, LetGo
<1>4. Goto(p, "user", loc[p]) /\ loc[p] \in Local
  BY <1>1, StayIs DEF DescInv
<1>5. Moves(p, "user", loc[p])
  BY <1>1, <1>4 DEF Moves, Places, Copying
<1>6. LocalsAt(p)'
  BY <1>1, Known DEF Stay, LocalsAt, Copying
<1>7. FdCounts(p, loc[p], p, d, Null)
  <2> SUFFICES \A x \in Ids : Outside(objects', x) = Outside(objects, x)
        - One(fdArray[p][d], x) + One(Null, x) - One(loc[p].file, x) + One(loc[p].file, x)
    BY DEF FdCounts
  <2> TAKE x \in Ids
  <2>1. Outside(objects, x) \in Nat
    BY ObjectsGood
  <2>2. One(y, x) \in Int /\ One(loc[p].file, x) \in Int /\ One(Null, x) = 0
    BY OneIs, OneOfNull
  <2> QED BY <1>3, <2>1, <2>2 DEF y
<1>8. FdTo(p, d, Null)
  BY <1>1 DEF FdTo
<1> QED BY <1>1, <1>3, <1>5, <1>6, <1>7, <1>8, FdStep

\* CloseSemaphore keeps the invariant.
LEMMA CloseSemaphoreRight ==
  ASSUME DescInv, NEW p \in Procs, NEW s \in Slots, CloseSemaphore(p, s)
  PROVE  DescInv'
<1> DEFINE y == semaphores[p][s]
<1>1. /\ pc[p] = "user" /\ y # Null /\ objects' = Release(objects, y)
      /\ semaphores' = [semaphores EXCEPT ![p][s] = Null] /\ Stay
      /\ UNCHANGED <<fdArray, openFiles, size>>
  BY DEF CloseSemaphore, Call, cache
<1>2. y \in Ids /\ Outside(objects, y) >= 1
  BY <1>1, PointedIs
<1> HIDE DEF y
<1>3. /\ Good(objects') /\ Stays(objects, objects')
      /\ \A x \in Ids : Outside(objects', x) = Outside(objects, x) - One(y, x)
  BY <1>1, <1>2, LetGo
<1>4. Goto(p, "user", loc[p]) /\ loc[p] \in Local
  BY <1>1, StayIs DEF DescInv
<1>5. Moves(p, "user", loc[p])
  BY <1>1, <1>4 DEF Moves, Places, Copying
<1>6. LocalsAt(p)'
  BY <1>1, Known DEF Stay, LocalsAt, Copying
<1>7. \A x \in Ids : Outside(objects', x) = Outside(objects, x) - One(semaphores[p][s], x) + One(Null, x)
  <2> TAKE x \in Ids
  <2>1. Outside(objects, x) \in Nat
    BY ObjectsGood
  <2>2. One(y, x) \in Int /\ One(Null, x) = 0
    BY OneIs, OneOfNull
  <2> QED BY <1>3, <2>1, <2>2 DEF y
<1> QED BY <1>1, <1>3, <1>5, <1>6, <1>7, SemStep

\* Sem keeps the invariant.
LEMMA SemRight ==
  ASSUME DescInv, NEW p \in Procs, NEW initial \in Nat, Sem(p, initial)
  PROVE  DescInv'
<1>1. PICK o : o = Fresh(objects)
  OBVIOUS
<1>2. PICK d \in Slots : d = FirstNull(semaphores[p]) /\ semaphores[p][d] = Null
  <2>1. NullSlots(semaphores[p]) # {}
    BY DEF Sem
  <2> QED BY <2>1, FirstNullIs DEF NullSlots
<1>3. /\ pc[p] = "user" /\ Room /\ objects' = Create(objects, o, Object("sem", Null, initial))
      /\ semaphores' = [semaphores EXCEPT ![p][d] = o] /\ Stay
      /\ UNCHANGED <<fdArray, openFiles, size>>
  BY <1>1, <1>2 DEF Sem, Call, cache
<1>4. o \in Ids /\ objects[o] = Freed
  BY <1>1, <1>3, FreshIs
<1>5. Good(objects) /\ \A x \in Ids : Outside(objects, x) \in Nat
  BY ObjectsGood
<1>6. /\ Good(objects') /\ Stays(objects, objects')
      /\ objects'[o].kind = "sem"
      /\ \A x \in Ids : Outside(objects', x) = Outside(objects, x) + One(o, x)
  BY <1>3, <1>4, <1>5, CreateFacts
<1>7. Goto(p, "user", loc[p]) /\ loc[p] \in Local
  BY <1>3, StayIs DEF DescInv
<1>8. Moves(p, "user", loc[p])
  BY <1>3, <1>7 DEF Moves, Places, Copying
<1>9. LocalsAt(p)'
  BY <1>3, Known DEF Stay, LocalsAt, Copying
<1>10. \A x \in Ids : Outside(objects', x) = Outside(objects, x) - One(semaphores[p][d], x) + One(o, x)
  <2> TAKE x \in Ids
  <2>1. One(o, x) \in Int /\ One(Null, x) = 0
    BY OneIs, OneOfNull
  <2> QED BY <1>2, <1>5, <1>6, <2>1
<1> QED BY <1>3, <1>4, <1>6, <1>8, <1>9, <1>10, SemStep

\* PcbOpen keeps the invariant.
LEMMA PcbOpenRight ==
  ASSUME DescInv, NEW p \in Procs, PcbOpen(p)
  PROVE  DescInv'
<1>1. pc[p] = "pcb" /\ loc[p].slot < Std /\ Room
  BY DEF PcbOpen, At
<1>2. LocalsAt(p) /\ loc[p] \in Local
  BY Known
<1>3. PICK c \in Procs : c = loc[p].arg /\ pc[c] = "made"
  BY <1>1, <1>2 DEF LocalsAt
<1>4. PICK d \in Slots : d = loc[p].slot /\ d \in 0 .. MaxNum
  BY <1>1, <1>2, DescriptorsAssumption DEF Local, Slots
<1>5. PICK f \in Ids : f = loc[p].file /\ objects[f].kind = "file"
  BY <1>1, <1>2, PointedIs DEF LocalsAt
<1>6. PICK o : o = Fresh(objects)
  OBVIOUS
<1>7. PICK y \in Ids \cup {Null} :
        y = fdArray[c][d] /\ (y # Null => Outside(objects, y) >= 1 /\ objects[y] # Freed)
  <2>1. fdArray[c][d] \in Ids \cup {Null}
    BY DEF DescInv, DescTypeOK, Tables
  <2> QED BY <2>1, PointedIs
<1> DEFINE l == [loc[p] EXCEPT !.slot = @ + 1]
<1>8. /\ objects' = Release(CreateOpen(objects, o, f, 0), y)
      /\ fdArray' = [fdArray EXCEPT ![c][d] = o]
      /\ Goto(p, "pcb", l) /\ UNCHANGED <<semaphores, openFiles, size>>
  BY <1>3, <1>4, <1>5, <1>6, <1>7 DEF PcbOpen, Install, cache
<1>9. l \in Local /\ l.file = f /\ l.arg = c /\ l.slot = d + 1
  <2>1. loc[p].slot + 1 \in 0 .. MaxNum
    BY <1>1, <1>4, DescriptorsAssumption
  <2> QED BY <1>2, <1>3, <1>4, <1>5, <2>1 DEF Local
<1> HIDE DEF l
<1>10. Moves(p, "pcb", l)
  BY <1>1, <1>3, <1>8, <1>9 DEF Moves, Places, Copying
<1>11. /\ pc'[p] = "pcb" /\ loc'[p] = l /\ pc'[c] = "made"
  BY <1>1, <1>3, <1>8, <1>9, GotoFacts DEF DescInv, Places
<1>12. l.slot <= Std
  BY <1>1, <1>4, <1>9, DescriptorsAssumption
<1>13. LocalsAt(p)'
  BY <1>5, <1>9, <1>11, <1>12, NullApart DEF LocalsAt, Copying
<1>14. /\ o \in Ids /\ objects[o] = Freed
       /\ Good(objects') /\ Stays(objects, objects')
       /\ objects'[o].kind = "open"
       /\ \A x \in Ids : Outside(objects', x) = Outside(objects, x) + One(o, x) - One(y, x)
  BY <1>1, <1>5, <1>6, <1>7, <1>8, MakeOpen
<1>15. FdCounts(p, l, c, d, o)
  <2> SUFFICES \A x \in Ids : Outside(objects', x) = Outside(objects, x)
        - One(fdArray[c][d], x) + One(o, x) - One(loc[p].file, x) + One(l.file, x)
    BY DEF FdCounts
  <2> TAKE x \in Ids
  <2>1. One(o, x) \in Int /\ One(y, x) \in Int /\ One(f, x) \in Int
    BY OneIs
  <2>2. Outside(objects, x) \in Nat
    BY ObjectsGood
  <2> QED BY <1>5, <1>7, <1>9, <1>14, <2>1, <2>2
<1>16. l.file = loc[p].file
  BY <1>5, <1>9
<1>17. FdTo(c, d, o)
  BY <1>8, <1>14 DEF FdTo
<1> QED BY <1>3, <1>8, <1>10, <1>13, <1>14, <1>15, <1>16, <1>17, FdStep

\* CopyFile keeps the invariant: the child gets an OpenFile of its own.
LEMMA CopyFileRight ==
  ASSUME DescInv, NEW c \in Procs, CopyFile(c)
  PROVE  DescInv'
<1>1. pc[c] = "copy_file" /\ loc[c].slot < MaxNum /\ Goto(c, "copy_sem", loc[c])
      /\ UNCHANGED <<semaphores, openFiles, size>>
  BY DEF CopyFile, At, cache
<1>2. LocalsAt(c) /\ loc[c] \in Local
  BY Known
<1>3. PICK q \in Procs : q = loc[c].arg /\ pc[q] = "forking"
  BY <1>1, <1>2 DEF LocalsAt, Copying
<1>4. PICK d \in Slots : d = loc[c].slot
  BY <1>1, <1>2, DescriptorsAssumption DEF Local, Slots
<1>5. Moves(c, "copy_sem", loc[c])
  BY <1>1, <1>2 DEF Moves, Places, Copying
<1>6. /\ pc'[c] = "copy_sem" /\ loc'[c] = loc[c] /\ pc'[q] = "forking"
  BY <1>1, <1>2, <1>3, GotoFacts DEF DescInv, Places
<1>7. LocalsAt(c)'
  BY <1>1, <1>2, <1>3, <1>6 DEF LocalsAt, Copying
<1>8. CASE fdArray[q][d] = Null
  <2>1. UNCHANGED <<objects, fdArray, semaphores, openFiles, size>>
    BY <1>1, <1>3, <1>4, <1>8 DEF CopyFile
  <2> QED BY <1>5, <1>7, <2>1, QuietStep
<1>9. CASE fdArray[q][d] # Null
  <2>1. PICK f \in Ids : f = objects[fdArray[q][d]].file /\ objects[f].kind = "file"
    BY <1>9, PointedIs
  <2>2. PICK off \in Nat : off = objects[fdArray[q][d]].n
    BY <1>9, PointedIs, ObjectsGood DEF Things
  <2>3. PICK o : o = Fresh(objects)
    OBVIOUS
  <2>4. PICK y \in Ids \cup {Null} :
          y = fdArray[c][d] /\ (y # Null => Outside(objects, y) >= 1 /\ objects[y] # Freed)
    <3>1. fdArray[c][d] \in Ids \cup {Null}
      BY DEF DescInv, DescTypeOK, Tables
    <3> QED BY <3>1, PointedIs
  <2>5. /\ Room /\ objects' = Release(CreateOpen(objects, o, f, off), y)
        /\ fdArray' = [fdArray EXCEPT ![c][d] = o]
    BY <1>3, <1>4, <1>9, <2>1, <2>2, <2>3, <2>4 DEF CopyFile, Install
  <2>6. /\ o \in Ids /\ objects[o] = Freed
        /\ Good(objects') /\ Stays(objects, objects')
        /\ objects'[o].kind = "open"
        /\ \A x \in Ids : Outside(objects', x) = Outside(objects, x) + One(o, x) - One(y, x)
    BY <2>1, <2>3, <2>4, <2>5, MakeOpen
  <2>7. FdCounts(c, loc[c], c, d, o)
    <3> SUFFICES \A x \in Ids : Outside(objects', x) = Outside(objects, x)
          - One(fdArray[c][d], x) + One(o, x) - One(loc[c].file, x) + One(loc[c].file, x)
      BY DEF FdCounts
    <3> TAKE x \in Ids
    <3>1. One(o, x) \in Int /\ One(y, x) \in Int /\ One(loc[c].file, x) \in Int
      BY OneIs
    <3>2. Outside(objects, x) \in Nat
      BY ObjectsGood
    <3> QED BY <2>4, <2>6, <3>1, <3>2
  <2>8. FdTo(c, d, o)
    BY <2>5, <2>6 DEF FdTo
  <2> QED BY <1>1, <1>5, <1>7, <2>6, <2>7, <2>8, FdStep
<1> QED BY <1>8, <1>9

\* A pointer is assigned over another one.
LEMMA AssignFacts ==
  ASSUME DescInv, NEW a \in Ids \cup {Null}, NEW y \in Ids \cup {Null},
         a # Null => Outside(objects, a) >= 1 /\ objects[a] # Freed,
         y # Null => Outside(objects, y) >= 1,
         objects' = AssignPtr(objects, a, y)
  PROVE  /\ Good(objects') /\ Stays(objects, objects')
         /\ \A x \in Ids : Outside(objects', x) = Outside(objects, x) + One(a, x) - One(y, x)
         /\ a # Null => objects'[a].kind = objects[a].kind
<1> DEFINE P == Inc(objects, a)
<1>1. Good(objects) /\ \A x \in Ids : Outside(objects, x) \in Nat
  BY ObjectsGood
<1>2. /\ Good(P) /\ Stays(objects, P)
      /\ \A x \in Ids : Outside(P, x) = Outside(objects, x) + One(a, x)
      /\ \A x \in Ids : P[x] = Freed <=> objects[x] = Freed
      /\ \A x \in Ids : P[x].kind = objects[x].kind
  BY <1>1, IncFacts
<1>3. objects' = Release(P, y)
  BY DEF AssignPtr
<1> HIDE DEF P
<1>4. \A x \in Ids : Outside(P, x) \in Nat
  BY <1>1, <1>2, OneIs
<1>5. y # Null => Outside(P, y) >= 1
  BY <1>1, <1>2, OneIs
<1>6. Released(P, objects', y)
  BY <1>2, <1>3, <1>4, <1>5, ReleaseFacts
<1>7. Stays(objects, objects')
  BY <1>2, <1>6, StaysTwice DEF Released
<1>8. \A x \in Ids : Outside(objects', x) = Outside(objects, x) + One(a, x) - One(y, x)
  BY <1>1, <1>2, <1>6, OneIs DEF Released
<1>9. ASSUME a # Null PROVE objects'[a].kind = objects[a].kind
  <2>1. a \in Ids /\ Outside(objects, a) >= 1
    BY <1>9
  <2>2. One(a, a) = 1 /\ One(y, a) \in {0, 1}
    BY OneIs
  <2>3. Outside(objects', a) >= 1
    BY <1>1, <1>8, <2>1, <2>2
  <2>4. Good(objects')
    BY <1>6 DEF Released
  <2>5. objects'[a] # Freed
    BY <2>1, <2>3, <2>4, FilesFinite, FreedIs DEF Outside, Good, Things
  <2> QED BY <1>7, <1>9, <2>1, <2>5 DEF Stays, KindStays
<1> QED BY <1>6, <1>7, <1>8, <1>9 DEF Released

\* CopySemaphore keeps the invariant: one pointer more to the parent's semaphore, and one
\* less to what the child had.
LEMMA CopySemaphoreRight ==
  ASSUME DescInv, NEW c \in Procs, CopySemaphore(c)
  PROVE  DescInv'
<1> DEFINE l == [loc[c] EXCEPT !.slot = @ + 1]
<1>1. pc[c] = "copy_sem" /\ Goto(c, "copy_file", l) /\ UNCHANGED <<fdArray, openFiles, size>>
  BY DEF CopySemaphore, At, cache
<1>2. LocalsAt(c) /\ loc[c] \in Local
  BY Known
<1>3. PICK q \in Procs : q = loc[c].arg /\ pc[q] = "forking"
  BY <1>1, <1>2 DEF LocalsAt, Copying
<1>4. PICK d \in Slots : d = loc[c].slot
  BY <1>1, <1>2, DescriptorsAssumption DEF Local, Slots, LocalsAt
<1>5. l \in Local /\ l.file = loc[c].file /\ l.arg = q
  <2>1. loc[c].slot + 1 \in 0 .. MaxNum
    BY <1>4, DescriptorsAssumption DEF Slots
  <2> QED BY <1>2, <1>3, <2>1 DEF Local
<1> HIDE DEF l
<1>6. Moves(c, "copy_file", l)
  BY <1>1, <1>3, <1>5 DEF Moves, Places, Copying
<1>7. /\ pc'[c] = "copy_file" /\ loc'[c] = l /\ pc'[q] = "forking"
  BY <1>1, <1>3, <1>5, GotoFacts DEF DescInv, Places
<1>8. loc[c].file = Null
  BY <1>1, <1>2 DEF LocalsAt
<1>9. LocalsAt(c)'
  BY <1>3, <1>5, <1>7, <1>8 DEF LocalsAt, Copying
<1>10. PICK a \in Ids \cup {Null} :
         /\ a = semaphores[q][d]
         /\ a # Null => Outside(objects, a) >= 1 /\ objects[a] # Freed /\ objects[a].kind = "sem"
  <2>1. semaphores[q][d] \in Ids \cup {Null}
    BY DEF DescInv, DescTypeOK, Tables
  <2> QED BY <2>1, PointedIs
<1>11. PICK y \in Ids \cup {Null} : y = semaphores[c][d] /\ (y # Null => Outside(objects, y) >= 1)
  <2>1. semaphores[c][d] \in Ids \cup {Null}
    BY DEF DescInv, DescTypeOK, Tables
  <2> QED BY <2>1, PointedIs
<1>12. objects' = AssignPtr(objects, a, y) /\ semaphores' = [semaphores EXCEPT ![c][d] = a]
  BY <1>3, <1>4, <1>10, <1>11 DEF CopySemaphore
<1>13. /\ Good(objects') /\ Stays(objects, objects')
       /\ \A x \in Ids : Outside(objects', x) = Outside(objects, x) + One(a, x) - One(y, x)
       /\ a # Null => objects'[a].kind = objects[a].kind
  BY <1>10, <1>11, <1>12, AssignFacts
<1>14. \A x \in Ids : Outside(objects', x) = Outside(objects, x) - One(semaphores[c][d], x) + One(a, x)
  <2> TAKE x \in Ids
  <2>1. One(a, x) \in Int /\ One(y, x) \in Int
    BY OneIs
  <2>2. Outside(objects, x) \in Nat
    BY ObjectsGood
  <2> QED BY <1>11, <1>13, <2>1, <2>2
<1>15. a # Null => objects'[a].kind = "sem"
  BY <1>10, <1>13
<1> QED BY <1>1, <1>5, <1>6, <1>9, <1>12, <1>13, <1>14, <1>15, SemStep

\* A step in which the threads of p and c get to other places, neither into down nor out of it.
Pair(p, c) ==
  /\ pc' \in [Procs -> Places] /\ loc' \in Locals
  /\ \A q \in Procs : q # p /\ q # c => pc'[q] = pc[q] /\ loc'[q] = loc[q]
  /\ loc'[c].file = loc[c].file
  /\ pc[p] # "down" /\ pc[c] # "down" /\ pc'[p] # "down" /\ pc'[c] # "down"

\* The others that make a child, or copy, still know where it is.
Partners(p, c) ==
  \A q \in Procs : q # p /\ q # c =>
    /\ pc[q] = "pcb" => pc'[loc[q].arg] = "made"
    /\ pc[q] \in Copying => pc'[loc[q].arg] = "forking"

\* Such a step keeps the invariant, if it counts rightly.
LEMMA PairStep ==
  ASSUME DescInv, NEW p \in Procs, NEW c \in Procs, Pair(p, c), Partners(p, c),
         UNCHANGED <<fdArray, semaphores, openFiles, size>>,
         Good(objects'), Stays(objects, objects'),
         \A x \in Ids : Outside(objects', x) = Outside(objects, x) - One(loc[p].file, x) + One(loc'[p].file, x),
         loc'[p].file = Null \/ objects'[loc'[p].file].kind = "file",
         LocalsAt(p)', LocalsAt(c)', ForksRight'
  PROVE  DescInv'
<1> USE DEF Pair
<1>1. DescTypeOK'
  BY DEF DescInv, DescTypeOK
<1>2. LocalBut(loc, loc', p)
  BY DEF LocalBut
<1>3. CountsRight'
  <2>1. 0 \in Slots
    BY DescriptorsAssumption DEF Slots
  <2>2. TableBut(fdArray, fdArray', p, 0) /\ TableBut(semaphores, semaphores', p, 0)
    BY DEF TableBut
  <2>3. CountsMove(p, 0, p, 0, p)
    <3> SUFFICES ASSUME NEW x \in Ids
                 PROVE  Outside(objects', x) = Outside(objects, x)
                          - One(fdArray[p][0], x) + One(fdArray'[p][0], x)
                          - One(semaphores[p][0], x) + One(semaphores'[p][0], x)
                          - One(loc[p].file, x) + One(loc'[p].file, x)
      BY DEF CountsMove
    <3>1. /\ One(fdArray[p][0], x) \in Int /\ One(semaphores[p][0], x) \in Int
          /\ One(loc[p].file, x) \in Int /\ One(loc'[p].file, x) \in Int
      BY OneIs
    <3>2. Outside(objects, x) \in Nat
      BY ObjectsGood
    <3> QED BY <3>1, <3>2
  <2> QED BY <1>2, <2>1, <2>2, <2>3, CountsStep DEF DescInv
<1>4. PointersRight'
  <2>1. NewPointers
    BY DEF NewPointers
  <2> QED BY <1>1, <1>3, <2>1, PointersKept DEF NewPointers, Stays, DescInv
<1>5. FdOnce'
  BY DEF FdOnce, DescInv
<1>6. LocalsRight'
  <2> DEFINE P == {p, c}
  <2>1. \A i \in Inodes : HasKey(i) => HasKey(i)'
    BY DEF HasKey, Chain
  <2>2. ASSUME NEW q \in Procs \ P
        PROVE  /\ pc'[q] = pc[q] /\ loc'[q] = loc[q]
               /\ fdArray'[q] = fdArray[q] /\ semaphores'[q] = semaphores[q]
               /\ pc[q] = "pcb" => pc'[loc[q].arg] = "made"
               /\ pc[q] \in Copying => pc'[loc[q].arg] = "forking"
    BY DEF Partners
  <2>3. \A q \in Procs \ P : LocalsAt(q)'
    <3>1. P \in SUBSET Procs
      OBVIOUS
    <3> HIDE DEF P
    <3> QED BY <2>1, <2>2, <3>1, OthersKnown DEF DescInv
  <2> QED BY <2>3 DEF LocalsRight
<1>7. SleepersRight'
  <2>1. \A q \in Procs, x \in Ids : Waits(q, x)' <=> Waits(q, x)
    <3> TAKE q \in Procs, x \in Ids
    <3>1. semaphores'[q] = semaphores[q]
      OBVIOUS
    <3>2. CASE q \in {p, c}
      BY <3>2 DEF Waits
    <3>3. CASE q \notin {p, c}
      BY <3>1, <3>3 DEF Waits
    <3> QED BY <3>2, <3>3
  <2> QED BY <1>1, <1>3, <1>6, <2>1, SleepersKept DEF DescInv, Stays
<1>8. CacheRight'
  BY <1>3, CacheKept DEF DescInv, Stays
<1> QED BY <1>1, <1>3, <1>4, <1>5, <1>6, <1>7, <1>8 DEF DescInv

\* Fork keeps the invariant.
LEMMA ForkRight ==
  ASSUME DescInv, NEW p \in Procs, NEW c \in Procs, Fork(p, c)
  PROVE  DescInv'
<1>1. PICK f : f = Fresh(objects)
  OBVIOUS
<1> DEFINE l == [file |-> f, arg |-> c, slot |-> 0]
<1>2. /\ pc[p] = "user" /\ pc[c] = "none" /\ Room
      /\ objects' = Create(objects, f, Object("file", Null, Console))
      /\ loc' = [loc EXCEPT ![p] = l]
      /\ pc' = [pc EXCEPT ![p] = "pcb", ![c] = "made"]
      /\ UNCHANGED <<fdArray, semaphores, openFiles, size>>
  BY <1>1 DEF Fork, Call, tables, cache
<1>3. f \in Ids /\ objects[f] = Freed /\ f # Null
  BY <1>1, <1>2, FreshIs, NullApart
<1>4. l \in Local /\ l.file = f /\ l.arg = c /\ l.slot = 0
  BY <1>3, DescriptorsAssumption DEF Local
<1> HIDE DEF l
<1>5. pc \in [Procs -> Places] /\ loc \in [Procs -> Local]
  BY DEF DescInv, DescTypeOK, Locals, Local
<1>6. /\ pc' \in [Procs -> Places] /\ loc' \in [Procs -> Local] /\ p # c
      /\ pc'[p] = "pcb" /\ pc'[c] = "made" /\ loc'[p] = l /\ loc'[c] = loc[c]
      /\ \A q \in Procs : q # p /\ q # c => pc'[q] = pc[q] /\ loc'[q] = loc[q]
  BY <1>2, <1>4, <1>5 DEF Places
<1>7. Pair(p, c)
  BY <1>2, <1>6 DEF Pair, Locals, Local
<1>8. \A q \in Procs : /\ pc[q] = "pcb" => loc[q].arg \in Procs /\ pc[loc[q].arg] = "made"
                       /\ pc[q] \in Copying => loc[q].arg \in Procs /\ pc[loc[q].arg] = "forking"
  BY Known DEF LocalsAt
<1>9. Partners(p, c)
  BY <1>2, <1>6, <1>8 DEF Partners
<1>10. Good(objects) /\ \A x \in Ids : Outside(objects, x) \in Nat
  BY ObjectsGood
<1>11. /\ Good(objects') /\ Stays(objects, objects')
       /\ objects'[f].kind = "file"
       /\ \A x \in Ids : Outside(objects', x) = Outside(objects, x) + One(f, x)
  <2>1. Console \in Nat
    BY DEF Console
  <2> QED BY <1>2, <1>3, <1>10, <2>1, CreateFacts
<1>12. loc[p].file = Null /\ loc[c].file = Null
  BY <1>2, Known DEF LocalsAt
<1>13. \A x \in Ids : Outside(objects', x) = Outside(objects, x) - One(loc[p].file, x) + One(loc'[p].file, x)
  BY <1>4, <1>6, <1>10, <1>11, <1>12, OneIs, OneOfNull
<1>14. LocalsAt(p)'
  BY <1>3, <1>4, <1>6, DescriptorsAssumption DEF LocalsAt, Copying
<1>15. LocalsAt(c)'
  BY <1>6, <1>12 DEF LocalsAt, Copying
<1>16. ForksRight'
  <2> SUFFICES ASSUME NEW q \in Procs, NEW r \in Procs, loc'[q].arg = loc'[r].arg
               PROVE  /\ pc'[q] = "pcb" /\ pc'[r] = "pcb" => q = r
                      /\ pc'[q] \in Copying /\ pc'[r] \in Copying => q = r
    BY DEF ForksRight
  <2>1. \A s \in Procs : pc'[s] = "pcb" => s = p \/ (pc[s] = "pcb" /\ loc'[s] = loc[s] /\ loc[s].arg # c)
    BY <1>2, <1>6, <1>8
  <2>2. \A s \in Procs : pc'[s] \in Copying => pc[s] \in Copying /\ loc'[s] = loc[s]
    BY <1>6 DEF Copying
  <2> QED BY <1>4, <1>6, <2>1, <2>2 DEF DescInv, ForksRight
<1>17. objects'[loc'[p].file].kind = "file"
  BY <1>4, <1>6, <1>11
<1> QED BY <1>2, <1>7, <1>9, <1>11, <1>13, <1>14, <1>15, <1>16, <1>17, PairStep

\* PcbDone keeps the invariant: the child that is made has one parent.
LEMMA PcbDoneRight ==
  ASSUME DescInv, NEW p \in Procs, PcbDone(p)
  PROVE  DescInv'
<1>1. pc[p] = "pcb"
  BY DEF PcbDone, At
<1>2. PICK c \in Procs : c = loc[p].arg /\ pc[c] = "made"
  BY <1>1, Known DEF LocalsAt
<1>3. PICK f \in Ids : f = loc[p].file /\ Outside(objects, f) >= 1
  BY <1>1, Known, PointedIs DEF LocalsAt
<1>4. /\ objects' = Release(objects, f)
      /\ pc' = [pc EXCEPT ![p] = "forking", ![c] = "copy_file"]
      /\ loc' = [loc EXCEPT ![p] = NoLocals, ![c].arg = p]
      /\ UNCHANGED <<fdArray, semaphores, openFiles, size>>
  BY <1>2, <1>3 DEF PcbDone, tables, cache
<1>5. pc \in [Procs -> Places] /\ loc \in [Procs -> Local] /\ p # c
  BY <1>1, <1>2 DEF DescInv, DescTypeOK, Locals, Local
<1>6. NoLocals \in Local /\ NoLocals.file = Null
  BY NoLocalsIs
<1>7. PICK m \in Local : m = [loc[c] EXCEPT !.arg = p] /\ m.arg = p /\ m.file = loc[c].file
  <2>1. loc[c] \in Local
    BY <1>5
  <2>2. [loc[c] EXCEPT !.arg = p] \in Local
    BY <2>1 DEF Local
  <2>3. [loc[c] EXCEPT !.arg = p].arg = p /\ [loc[c] EXCEPT !.arg = p].file = loc[c].file
    BY <2>1 DEF Local
  <2> QED BY <2>2, <2>3
<1>8. /\ pc' \in [Procs -> Places] /\ loc' \in [Procs -> Local]
      /\ pc'[p] = "forking" /\ pc'[c] = "copy_file" /\ loc'[p] = NoLocals /\ loc'[c] = m
      /\ \A q \in Procs : q # p /\ q # c => pc'[q] = pc[q] /\ loc'[q] = loc[q]
  BY <1>4, <1>5, <1>6, <1>7 DEF Places
<1>9. Pair(p, c)
  BY <1>1, <1>2, <1>7, <1>8 DEF Pair, Locals, Local
<1>10. \A q \in Procs : /\ pc[q] = "pcb" => loc[q].arg \in Procs /\ pc[loc[q].arg] = "made"
                                            /\ (loc[q].arg = c => q = p)
                        /\ pc[q] \in Copying => loc[q].arg \in Procs /\ pc[loc[q].arg] = "forking"
  <2>1. \A q \in Procs : pc[q] = "pcb" /\ loc[q].arg = c => q = p
    BY <1>1, <1>2 DEF DescInv, ForksRight
  <2> QED BY <2>1, Known DEF LocalsAt
<1>11. Partners(p, c)
  <2> SUFFICES ASSUME NEW q \in Procs, q # p, q # c
               PROVE  /\ pc[q] = "pcb" => pc'[loc[q].arg] = "made"
                      /\ pc[q] \in Copying => pc'[loc[q].arg] = "forking"
    BY DEF Partners
  <2>1. ASSUME pc[q] = "pcb" PROVE pc'[loc[q].arg] = "made"
    BY <1>1, <1>8, <1>10, <2>1
  <2>2. ASSUME pc[q] \in Copying PROVE pc'[loc[q].arg] = "forking"
    BY <1>1, <1>2, <1>8, <1>10, <2>2
  <2> QED BY <2>1, <2>2
<1>12. /\ Good(objects') /\ Stays(objects, objects')
       /\ \A x \in Ids : Outside(objects', x) = Outside(objects, x) - One(f, x)
  BY <1>3, <1>4, LetGo
<1>13. \A x \in Ids : Outside(objects', x) = Outside(objects, x) - One(loc[p].file, x) + One(loc'[p].file, x)
  BY <1>3, <1>6, <1>8, <1>12, ObjectsGood, OneIs, OneOfNull
<1>14. LocalsAt(p)'
  BY <1>6, <1>8 DEF LocalsAt, Copying
<1>15. LocalsAt(c)'
  <2>1. loc[c].file = Null
    BY <1>2, Known DEF LocalsAt
  <2> QED BY <1>7, <1>8, <2>1 DEF LocalsAt, Copying
<1>16. ForksRight'
  <2> SUFFICES ASSUME NEW q \in Procs, NEW r \in Procs, loc'[q].arg = loc'[r].arg
               PROVE  /\ pc'[q] = "pcb" /\ pc'[r] = "pcb" => q = r
                      /\ pc'[q] \in Copying /\ pc'[r] \in Copying => q = r
    BY DEF ForksRight
  <2>1. \A s \in Procs : pc'[s] = "pcb" => pc[s] = "pcb" /\ loc'[s] = loc[s]
    BY <1>8 
  <2>2. \A s \in Procs : pc'[s] \in Copying => s = c \/ (pc[s] \in Copying /\ loc'[s] = loc[s] /\ loc[s].arg # p)
    BY <1>1, <1>8, <1>10 DEF Copying
  <2>3. ASSUME pc'[q] = "pcb", pc'[r] = "pcb" PROVE q = r
    BY <2>1, <2>3 DEF DescInv, ForksRight
  <2>4. ASSUME pc'[q] \in Copying, pc'[r] \in Copying PROVE q = r
    <3>1. CASE q = c \/ r = c
      BY <1>7, <1>8, <2>2, <2>4, <3>1
    <3>2. CASE q # c /\ r # c
      BY <2>2, <2>4, <3>2 DEF DescInv, ForksRight
    <3> QED BY <3>1, <3>2
  <2> QED BY <2>3, <2>4
<1>17. loc'[p].file = Null
  BY <1>6, <1>8
<1> QED BY <1>4, <1>9, <1>11, <1>12, <1>13, <1>14, <1>15, <1>16, <1>17, PairStep

\* CopyDone keeps the invariant: nobody else copies from the parent.
LEMMA CopyDoneRight ==
  ASSUME DescInv, NEW c \in Procs, CopyDone(c)
  PROVE  DescInv'
<1>1. pc[c] = "copy_file"
  BY DEF CopyDone, At
<1>2. PICK p \in Procs : p = loc[c].arg /\ pc[p] = "forking"
  BY <1>1, Known DEF LocalsAt, Copying
<1>3. /\ pc' = [pc EXCEPT ![p] = "user", ![c] = "user"]
      /\ loc' = [loc EXCEPT ![c] = NoLocals]
      /\ UNCHANGED <<objects, fdArray, semaphores, openFiles, size>>
  BY <1>2 DEF CopyDone, tables, cache
<1>4. pc \in [Procs -> Places] /\ loc \in [Procs -> Local] /\ p # c
  BY <1>1, <1>2 DEF DescInv, DescTypeOK, Locals, Local
<1>5. NoLocals \in Local /\ NoLocals.file = Null
  BY NoLocalsIs
<1>6. /\ pc' \in [Procs -> Places] /\ loc' \in [Procs -> Local]
      /\ pc'[p] = "user" /\ pc'[c] = "user" /\ loc'[c] = NoLocals /\ loc'[p] = loc[p]
      /\ \A q \in Procs : q # p /\ q # c => pc'[q] = pc[q] /\ loc'[q] = loc[q]
  BY <1>3, <1>4, <1>5 DEF Places
<1>7. loc[c].file = Null /\ loc[p].file = Null
  BY <1>1, <1>2, Known DEF LocalsAt
<1>8. Pair(c, p)
  BY <1>1, <1>2, <1>6 DEF Pair, Locals, Local
<1>9. \A q \in Procs : /\ pc[q] = "pcb" => loc[q].arg \in Procs /\ pc[loc[q].arg] = "made"
                       /\ pc[q] \in Copying => loc[q].arg \in Procs /\ pc[loc[q].arg] = "forking"
                                               /\ (loc[q].arg = p => q = c)
  <2>1. \A q \in Procs : pc[q] \in Copying /\ loc[q].arg = p => q = c
    BY <1>1, <1>2 DEF DescInv, ForksRight, Copying
  <2> QED BY <2>1, Known DEF LocalsAt
<1>10. Partners(c, p)
  <2> SUFFICES ASSUME NEW q \in Procs, q # p, q # c
               PROVE  /\ pc[q] = "pcb" => pc'[loc[q].arg] = "made"
                      /\ pc[q] \in Copying => pc'[loc[q].arg] = "forking"
    BY DEF Partners
  <2>1. ASSUME pc[q] = "pcb" PROVE pc'[loc[q].arg] = "made"
    BY <1>1, <1>2, <1>6, <1>9, <2>1
  <2>2. ASSUME pc[q] \in Copying PROVE pc'[loc[q].arg] = "forking"
    BY <1>1, <1>6, <1>9, <2>2
  <2> QED BY <2>1, <2>2
<1>11. Good(objects') /\ Stays(objects, objects')
  BY <1>3, ObjectsGood DEF Stays, KindStays, WaitersStay
<1>12. \A x \in Ids : Outside(objects', x) = Outside(objects, x) - One(loc[c].file, x) + One(loc'[c].file, x)
  BY <1>3, <1>5, <1>6, <1>7, ObjectsGood, OneOfNull
<1>13. LocalsAt(p)' /\ LocalsAt(c)'
  BY <1>5, <1>6, <1>7 DEF LocalsAt, Copying
<1>14. ForksRight'
  <2> SUFFICES ASSUME NEW q \in Procs, NEW r \in Procs, loc'[q].arg = loc'[r].arg
               PROVE  /\ pc'[q] = "pcb" /\ pc'[r] = "pcb" => q = r
                      /\ pc'[q] \in Copying /\ pc'[r] \in Copying => q = r
    BY DEF ForksRight
  <2>1. \A s \in Procs : pc'[s] = "pcb" => pc[s] = "pcb" /\ loc'[s] = loc[s]
    BY <1>6
  <2>2. \A s \in Procs : pc'[s] \in Copying => pc[s] \in Copying /\ loc'[s] = loc[s]
    BY <1>6 DEF Copying
  <2> QED BY <2>1, <2>2 DEF DescInv, ForksRight
<1>15. loc'[c].file = Null
  BY <1>5, <1>6
<1> QED BY <1>3, <1>8, <1>10, <1>11, <1>12, <1>13, <1>14, <1>15, PairStep

\* The nodes of the cache.
LEMMA NodesAre == Nodes = NodesOf(openFiles, size) /\ Nodes' = NodesOf(openFiles', size')
BY DEF Nodes, NodesOf, Buckets

\* A key that is there has a node, and the other way round.
LEMMA KeyNode ==
  ASSUME NEW B \in Chains, NEW m \in Nat, \A c \in Buckets : Len(B[c]) <= m
  PROVE  /\ \A b \in Buckets : \A i \in DOMAIN B[b] : <<b, i>> \in NodesOf(B, m)
         /\ \A a \in NodesOf(B, m) : a[1] \in Buckets /\ a[2] \in DOMAIN B[a[1]] /\ a = <<a[1], a[2]>>
<1>1. \A b \in Buckets : B[b] \in Seq([key : Inodes, val : Ids]) /\ Len(B[b]) \in Nat
                         /\ DOMAIN B[b] = 1 .. Len(B[b])
  BY LenProperties DEF Chains
<1>2. ASSUME NEW b \in Buckets, NEW i \in DOMAIN B[b] PROVE <<b, i>> \in NodesOf(B, m)
  <2>1. i \in 1 .. m /\ i <= Len(B[b])
    BY <1>1
  <2> QED BY <2>1 DEF NodesOf
<1>3. ASSUME NEW a \in NodesOf(B, m)
      PROVE  a[1] \in Buckets /\ a[2] \in DOMAIN B[a[1]] /\ a = <<a[1], a[2]>>
  <2>1. PICK c \in Buckets, i \in 1 .. m : a = <<c, i>> /\ i <= Len(B[c])
    BY DEF NodesOf
  <2> QED BY <1>1, <2>1
<1> QED BY <1>2, <1>3

\* A node more, of a key that was not there.
LEMMA CacheGrows ==
  ASSUME DescInv, NEW k \in Inodes, ~HasKey(k), NEW f \in Ids,
         openFiles' = Longer(openFiles, k % BucketCount, k, f), size' = size + 1,
         KindStays(objects, objects'), CountsRight', objects'[f].kind = "file", objects'[f].n = k
  PROVE  /\ openFiles' \in Chains /\ CacheRight'
         /\ \A i \in Inodes : HasKey(i) => HasKey(i)'
<1>1. PICK b \in Buckets : b = k % BucketCount
  BY DescriptorsAssumption DEF Buckets
<1>2. openFiles \in Chains /\ size \in Nat /\ \A c \in Buckets : Len(openFiles[c]) <= size
  BY DEF DescInv, DescTypeOK, CacheRight
<1>3. PICK e : e = <<b, Len(openFiles[b]) + 1>>
  OBVIOUS
<1>4. Appended(openFiles, size, openFiles', e, k, f)
  BY <1>1, <1>2, <1>3, NodesAppend
<1>5. /\ openFiles' \in Chains
      /\ e \notin Nodes /\ Nodes' = Nodes \cup {e}
      /\ \A a \in Nodes : openFiles'[a[1]][a[2]] = openFiles[a[1]][a[2]]
      /\ openFiles'[e[1]][e[2]] = [key |-> k, val |-> f] /\ e[1] = b
      /\ \A c \in Buckets : Len(openFiles'[c]) <= size'
  BY <1>3, <1>4, NodesAre DEF Appended
<1>6. /\ \A c \in Buckets : \A i \in DOMAIN openFiles[c] : <<c, i>> \in Nodes
      /\ \A a \in Nodes : a[1] \in Buckets /\ a[2] \in DOMAIN openFiles[a[1]] /\ a = <<a[1], a[2]>>
  BY <1>2, KeyNode, NodesAre
<1>7. \A a \in Nodes' : a[1] \in Buckets /\ a[2] \in DOMAIN openFiles'[a[1]] /\ a = <<a[1], a[2]>>
  BY <1>2, <1>5, KeyNode, NodesAre
<1>8. \A i \in Inodes : HasKey(i) => HasKey(i)'
  <2> SUFFICES ASSUME NEW i \in Inodes, HasKey(i) PROVE HasKey(i)'
    OBVIOUS
  <2>1. PICK c \in Buckets : c = i % BucketCount
    BY DescriptorsAssumption DEF Buckets
  <2>2. PICK j \in DOMAIN openFiles[c] : openFiles[c][j].key = i
    BY <2>1 DEF HasKey, Chain
  <2>3. PICK a : a = <<c, j>>
    OBVIOUS
  <2>4. a \in Nodes
    BY <1>6, <2>3
  <2>5. j \in DOMAIN openFiles'[c] /\ openFiles'[c][j].key = i
    BY <1>5, <1>7, <2>2, <2>3, <2>4
  <2> QED BY <2>1, <2>5 DEF HasKey, Chain
<1>9. \A a \in Nodes : openFiles[a[1]][a[2]].key # k
  <2> SUFFICES ASSUME NEW a \in Nodes, openFiles[a[1]][a[2]].key = k PROVE FALSE
    OBVIOUS
  <2>1. a[1] = b
    BY <1>1 DEF DescInv, CacheRight, CacheIsMap
  <2> QED BY <1>1, <1>6, <2>1 DEF HasKey, Chain
<1>10. \A a \in Nodes : LET node == openFiles[a[1]][a[2]] IN
         /\ node.key % BucketCount = a[1] /\ node.val \in Ids
         /\ objects'[node.val].kind = "file" /\ objects'[node.val].n = node.key
         /\ \A c \in Nodes : openFiles[c[1]][c[2]].key = node.key => a = c
  <2> TAKE a \in Nodes
  <2>1. PICK node : node = openFiles[a[1]][a[2]]
    OBVIOUS
  <2>2. node \in [key : Inodes, val : Ids]
    <3>1. openFiles[a[1]] \in Seq([key : Inodes, val : Ids]) /\ a[2] \in DOMAIN openFiles[a[1]]
      BY <1>2, <1>6 DEF Chains
    <3> QED BY <2>1, <3>1, LenProperties, ElementOfSeq
  <2>3. objects[node.val].kind = "file" /\ objects[node.val].n = node.key /\ node.key % BucketCount = a[1]
        /\ \A c \in Nodes : openFiles[c[1]][c[2]].key = node.key => a = c
    BY <2>1 DEF DescInv, CacheRight, CacheIsMap
  <2>4. objects'[node.val] # Freed
    <3>1. PICK v \in Ids : v = node.val
      BY <2>2
    <3>2. PICK d \in NodesOf(openFiles', size') : openFiles'[d[1]][d[2]].val = v
      BY <1>5, <2>1, <3>1, NodesAre
    <3>3. size' \in Nat
      BY <1>2
    <3>4. objects'[v] # Freed
      BY <3>2, <3>3, NodeThere DEF CountsRight
    <3> QED BY <3>1, <3>4
  <2>5. node.val \in Ids /\ objects[node.val] # Freed
    BY <2>2, <2>3, FreedIs
  <2>6. objects'[node.val].kind = "file" /\ objects'[node.val].n = node.key
    BY <2>3, <2>4, <2>5 DEF KindStays
  <2> QED BY <2>1, <2>3, <2>5, <2>6
<1>11. Cardinality(Nodes') = size'
  <2>1. IsFiniteSet(Nodes) /\ Cardinality(Nodes) = size
    BY <1>2, Finite, NodesAre DEF DescInv, CacheRight, CacheIsMap
  <2> QED BY <1>5, <2>1, FS_AddElement
<1>12. ASSUME NEW a \in Nodes'
       PROVE  LET node == openFiles'[a[1]][a[2]] IN
              /\ node.key % BucketCount = a[1]
              /\ objects'[node.val].kind = "file" /\ objects'[node.val].n = node.key
              /\ \A c \in Nodes' : openFiles'[c[1]][c[2]].key = node.key => a = c
  <2>1. CASE a = e
    BY <1>1, <1>5, <1>9, <2>1
  <2>2. CASE a \in Nodes
    BY <1>5, <1>9, <1>10, <2>2
  <2> QED BY <1>5, <2>1, <2>2
<1>13. CacheIsMap'
  BY <1>11, <1>12 DEF CacheIsMap
<1> QED BY <1>5, <1>8, <1>13 DEF CacheRight

\* Miss keeps the invariant, whether another call has put the file in meanwhile or not.
LEMMA MissRight ==
  ASSUME DescInv, NEW p \in Procs, Miss(p)
  PROVE  DescInv'
<1>1. CASE OverLimit
  <2>1. UNCHANGED <<objects, fdArray, semaphores, openFiles, size, pc, loc>>
    BY <1>1 DEF Miss, Resize, tables
  <2> QED BY <2>1, NoStep
<1>2. CASE ~OverLimit
  <2>1. LocalsAt(p) /\ loc[p] \in Local /\ pc[p] = "miss"
    BY Known DEF Miss, At
  <2>2. PICK k \in Inodes : k = loc[p].arg
    BY <2>1 DEF LocalsAt
  <2>3. PICK f : f = Fresh(objects)
    OBVIOUS
  <2> DEFINE l == [loc[p] EXCEPT !.file = f]
             P == Create(objects, f, Object("file", Null, k))
  <2>4. Room /\ Insert(P, k, f) /\ Goto(p, "alloc", l) /\ UNCHANGED <<fdArray, semaphores>>
    BY <1>2, <2>2, <2>3 DEF Miss, tables
  <2>5. f \in Ids /\ objects[f] = Freed /\ f # Null
    BY <2>3, <2>4, FreshIs, NullApart
  <2>6. Good(objects) /\ \A x \in Ids : Outside(objects, x) \in Nat
    BY ObjectsGood
  <2>7. /\ Good(P) /\ Stays(objects, P)
        /\ P[f] # Freed /\ P[f].kind = "file" /\ P[f].n = k
        /\ \A x \in Ids : Outside(P, x) = Outside(objects, x) + One(f, x)
    <3>1. k \in Nat
      BY DescriptorsAssumption
    <3> QED BY <2>5, <2>6, <3>1, CreateFacts
  <2> HIDE DEF P
  <2>8. l \in Local /\ l.file = f
    BY <2>1, <2>5 DEF Local
  <2> HIDE DEF l
  <2>9. Moves(p, "alloc", l)
    BY <2>1, <2>4, <2>8 DEF Moves, Places, Copying
  <2>10. /\ pc' \in [Procs -> Places] /\ loc' \in Locals
         /\ pc'[p] = "alloc" /\ loc'[p] = l
         /\ \A q \in Procs : q # p => pc'[q] = pc[q] /\ loc'[q] = loc[q]
         /\ LocalBut(loc, loc', p)
    BY <2>4, <2>8, GotoFacts DEF DescInv, Places
  <2>11. LocalsAt(p)'
    BY <2>5, <2>8, <2>10 DEF LocalsAt, Copying
  <2>12. loc[p].file = Null
    BY <2>1 DEF LocalsAt
  <2>13. CASE HasKey(k)
    <3>1. objects' = P /\ UNCHANGED <<fdArray, semaphores, openFiles, size>>
      BY <2>4, <2>13 DEF Insert
    <3>2. \A x \in Ids : Outside(objects', x) = Outside(objects, x) - One(loc[p].file, x) + One(l.file, x)
      BY <2>6, <2>7, <2>8, <2>12, <3>1, OneOfNull, OneIs
    <3> QED BY <2>7, <2>8, <2>9, <2>11, <3>1, <3>2, ObjectsStep
  <2>14. CASE ~HasKey(k)
    <3>1. /\ objects' = Inc(P, f) /\ size' = size + 1
          /\ openFiles' = Longer(openFiles, k % BucketCount, k, f)
      BY <2>4, <2>14 DEF Insert, AppendNode, Longer
    <3>2. /\ Good(objects') /\ Stays(P, objects')
          /\ \A x \in Ids : Outside(objects', x) = Outside(P, x) + One(f, x)
          /\ \A x \in Ids : objects'[x] = Freed <=> P[x] = Freed
          /\ objects'[f].kind = "file" /\ objects'[f].n = k
      BY <2>5, <2>7, <3>1, IncFacts
    <3>3. Stays(objects, objects')
      BY <2>7, <3>2, StaysTwice
    <3>4. /\ openFiles \in Chains /\ size \in Nat /\ \A c \in Buckets : Len(openFiles[c]) <= size
          /\ k % BucketCount \in Buckets
      BY DescriptorsAssumption DEF DescInv, DescTypeOK, CacheRight, Buckets
    <3>5. \A x \in Ids : Held(fdArray, semaphores, openFiles', size', loc, x)
                           = Held(fdArray, semaphores, openFiles, size, loc, x) + One(f, x)
      BY <2>5, <3>1, <3>4, HeldNode
    <3>6. \A x \in Ids : Held(fdArray, semaphores, openFiles', size', loc', x)
            = Held(fdArray, semaphores, openFiles', size', loc, x) - One(loc[p].file, x) + One(loc'[p].file, x)
      <4>1. size' \in Nat
        BY <3>1, <3>4
      <4> QED BY <2>10, <4>1, HeldLocal
    <3>7. CountsRight'
      <4>1. size' \in Nat
        BY <3>1, <3>4
      <4>2. \A x \in Ids : Outside(objects', x) - Outside(objects, x)
              = Held(fdArray', semaphores', openFiles', size', loc', x)
                  - Held(fdArray, semaphores, openFiles, size, loc, x)
        <5> SUFFICES ASSUME NEW x \in Ids
                     PROVE  Outside(objects', x) - Outside(objects, x)
                              = Held(fdArray, semaphores, openFiles', size', loc', x)
                                  - Held(fdArray, semaphores, openFiles, size, loc, x)
          BY <2>4
        <5>1. Held(fdArray, semaphores, openFiles, size, loc, x) \in Nat /\ One(f, x) \in Int /\ One(Null, x) = 0
          BY <3>4, HeldNat, OneIs, OneOfNull
        <5>2. Held(fdArray, semaphores, openFiles', size', loc', x)
                = Held(fdArray, semaphores, openFiles, size, loc, x) + One(f, x) + One(f, x)
          BY <2>8, <2>10, <2>12, <3>5, <3>6, <5>1
        <5>3. Outside(objects', x) = Outside(objects, x) + One(f, x) + One(f, x)
          BY <2>7, <3>2
        <5> QED BY <2>6, <5>1, <5>2, <5>3
      <4> QED BY <3>2, <4>1, <4>2, CountedAfter DEF DescInv
    <3>8. openFiles' \in Chains /\ CacheRight' /\ \A i \in Inodes : HasKey(i) => HasKey(i)'
      BY <2>5, <2>14, <3>1, <3>2, <3>3, <3>7, CacheGrows DEF Stays
    <3>9. DescTypeOK'
      BY <2>4, <2>10, <3>1, <3>4, <3>8 DEF DescInv, DescTypeOK
    <3>10. NewPointers
      BY <2>4, <2>8, <2>10, <3>2 DEF NewPointers
    <3>11. PointersRight'
      BY <3>3, <3>7, <3>9, <3>10, PointersKept DEF NewPointers, Stays, DescInv
    <3>12. FdOnce'
      BY <2>4 DEF FdOnce, DescInv
    <3>13. LocalsRight'
      <4> DEFINE S == {p}
      <4>1. ASSUME NEW q \in Procs \ S
            PROVE  /\ pc'[q] = pc[q] /\ loc'[q] = loc[q]
                   /\ fdArray'[q] = fdArray[q] /\ semaphores'[q] = semaphores[q]
                   /\ pc[q] = "pcb" => pc'[loc[q].arg] = "made"
                   /\ pc[q] \in Copying => pc'[loc[q].arg] = "forking"
        <5>1. LocalsAt(q)
          BY DEF DescInv, LocalsRight
        <5> QED BY <2>1, <2>4, <2>10, <5>1 DEF LocalsAt
      <4>2. \A q \in Procs \ S : LocalsAt(q)'
        <5>1. S \in SUBSET Procs
          OBVIOUS
        <5> HIDE DEF S
        <5> QED BY <3>8, <4>1, <5>1, OthersKnown DEF DescInv
      <4> QED BY <2>11, <4>2 DEF LocalsRight
    <3>14. ForksRight'
      <4>1. ASSUME NEW q \in Procs
            PROVE  /\ pc'[q] = "pcb" => pc[q] = "pcb" /\ loc'[q].arg = loc[q].arg
                   /\ pc'[q] \in Copying => pc[q] \in Copying /\ loc'[q].arg = loc[q].arg
        BY <2>10 DEF Copying
      <4> QED BY <4>1 DEF ForksRight, DescInv
    <3>15. SleepersRight'
      <4>1. \A q \in Procs, x \in Ids : Waits(q, x)' <=> Waits(q, x)
        BY <2>1, <2>4, <2>10 DEF Waits
      <4> QED BY <3>3, <3>7, <3>9, <3>13, <4>1, SleepersKept DEF DescInv, Stays
    <3> QED BY <3>7, <3>8, <3>9, <3>11, <3>12, <3>13, <3>14, <3>15 DEF DescInv
  <2> QED BY <2>13, <2>14
<1> QED BY <1>1, <1>2

-----------------------------------------------------------------------------
(* Theorems *)

\* The first process has its console open Std times, and there is nothing else.
LEMMA InitObjects ==
  ASSUME Init
  PROVE  /\ objects \in [Ids -> Things] /\ 1 \in Ids
         /\ objects[1].kind = "file" /\ objects[1].refs = Std /\ objects[1].file = Null /\ objects[1] # Freed
         /\ \A x \in Ids : x # 1 /\ x <= Std + 1 =>
              objects[x].kind = "open" /\ objects[x].refs = 1 /\ objects[x].file = 1 /\ objects[x] # Freed
         /\ \A x \in Ids : x > Std + 1 => objects[x] = Freed
         /\ \A x \in Ids : objects[x].waiters = << >>
         /\ Std \in Nat /\ Std >= 1 /\ Std < MaxObjects /\ Std <= MaxNum
<1>1. Std \in Nat /\ Std >= 1 /\ Std < MaxObjects /\ Std <= MaxNum /\ MaxObjects \in Nat /\ MaxNum \in Nat
  BY DescriptorsAssumption
<1>2. 1 \in Ids /\ Ids \subseteq Nat
  BY <1>1 DEF Ids
<1>3. PICK A : A = [Object("file", Null, Console) EXCEPT !.refs = Std]
  OBVIOUS
<1>4. PICK B : B = [Object("open", 1, 0) EXCEPT !.refs = 1]
  OBVIOUS
<1>5. A \in Things /\ A.kind = "file" /\ A.refs = Std /\ A.file = Null /\ A.waiters = << >>
  <2>1. A = [kind |-> "file", refs |-> Std, file |-> Null, n |-> 0, waiters |-> << >>]
    BY <1>3 DEF Object, Console
  <2>2. << >> \in Seq(Procs)
    BY EmptySeq
  <2> QED BY <1>1, <2>1, <2>2 DEF Things
<1>6. B \in Things /\ B.kind = "open" /\ B.refs = 1 /\ B.file = 1 /\ B.waiters = << >>
  <2>1. B = [kind |-> "open", refs |-> 1, file |-> 1, n |-> 0, waiters |-> << >>]
    BY <1>4 DEF Object
  <2>2. << >> \in Seq(Procs)
    BY EmptySeq
  <2> QED BY <1>2, <2>1, <2>2 DEF Things
<1>7. A # Freed /\ B # Freed /\ Freed \in Things /\ Freed.waiters = << >>
  BY <1>5, <1>6, FreedIs
<1>8. objects = [i \in Ids |-> IF i = 1 THEN A ELSE IF i <= Std + 1 THEN B ELSE Freed]
  BY <1>3, <1>4 DEF Init
<1>9. \A x \in Ids : /\ x = 1 => objects[x] = A
                     /\ x # 1 /\ x <= Std + 1 => objects[x] = B
                     /\ x > Std + 1 => objects[x] = Freed
  BY <1>1, <1>2, <1>8
<1>10. objects \in [Ids -> Things]
  BY <1>5, <1>6, <1>7, <1>8
<1>11. \A x \in Ids : objects[x].waiters = << >>
  BY <1>5, <1>6, <1>7, <1>8
<1> QED BY <1>1, <1>2, <1>5, <1>6, <1>7, <1>9, <1>10, <1>11

\* They are objects as they should be.
LEMMA InitGood ==
  ASSUME Init
  PROVE  Good(objects)
<1>1. \A x \in Ids : x = 1 \/ (x # 1 /\ x <= Std + 1) \/ x > Std + 1
  BY InitObjects DEF Ids
<1> SUFFICES ASSUME NEW x \in Ids
             PROVE  /\ objects[x].refs = 0 <=> objects[x] = Freed
                    /\ objects[x].kind = "free" <=> objects[x] = Freed
                    /\ objects[x].file # Null <=> objects[x].kind = "open"
                    /\ objects[x].kind = "open" => objects[objects[x].file].kind = "file"
  BY InitObjects DEF Good
<1>2. CASE x = 1
  BY <1>2, InitObjects
<1>3. CASE x # 1 /\ x <= Std + 1
  BY <1>3, InitObjects, NullApart
<1>4. CASE x > Std + 1
  BY <1>4, InitObjects, FreedIs
<1> QED BY <1>1, <1>2, <1>3, <1>4

\* The file of the console counts its OpenFiles, and each of those its descriptor.
LEMMA InitCounts ==
  ASSUME Init
  PROVE  CountsRight
<1>1. Good(objects) /\ size = 0 /\ 0 \in Nat
  BY InitGood DEF Init
<1>2. \A x \in Ids : x \in Nat /\ (x = 1 \/ (x # 1 /\ x <= Std + 1) \/ x > Std + 1)
  BY InitObjects DEF Ids
<1> SUFFICES ASSUME NEW x \in Ids
             PROVE  Outside(objects, x) = Held(fdArray, semaphores, openFiles, size, loc, x)
  BY <1>1 DEF CountsRight, Counted
<1>3. x # Null
  BY NullApart
<1>4. Cardinality(TableTo(semaphores, x)) = 0
  <2>1. TableTo(semaphores, x) = {}
    BY <1>3 DEF TableTo, Cells, Init
  <2> QED BY <2>1, FS_EmptySet
<1>5. Cardinality(LocalTo(loc, x)) = 0
  <2>1. LocalTo(loc, x) = {}
    BY <1>3 DEF LocalTo, Init, NoLocals
  <2> QED BY <2>1, FS_EmptySet
<1>6. Cardinality(NodesTo(openFiles, size, x)) = 0
  <2>1. 1 .. size = {}
    BY <1>1
  <2>2. NodesTo(openFiles, size, x) = {}
    BY <2>1 DEF NodesTo, NodesOf
  <2> QED BY <2>2, FS_EmptySet
<1>7. \A p \in Procs, d \in Slots : fdArray[p][d] = IF p = FirstProc /\ d < Std THEN d + 2 ELSE Null
  BY DEF Init
<1>8. Cardinality(TableTo(fdArray, x)) = IF x # 1 /\ x <= Std + 1 THEN 1 ELSE 0
  <2>1. CASE x # 1 /\ x <= Std + 1
    <3> DEFINE c == <<FirstProc, x - 2>>
    <3>1. FirstProc \in Procs /\ x - 2 \in Slots /\ x - 2 < Std
      BY <1>2, <2>1, InitObjects, DescriptorsAssumption DEF Slots, Ids
    <3>2. c \in TableTo(fdArray, x)
      BY <1>2, <1>7, <3>1 DEF TableTo, Cells
    <3>3. ASSUME NEW e \in TableTo(fdArray, x) PROVE e = c
      <4>1. PICK p \in Procs, d \in Slots : e = <<p, d>> /\ fdArray[p][d] = x
        BY DEF TableTo, Cells
      <4>2. p = FirstProc /\ d + 2 = x
        BY <1>3, <1>7, <4>1
      <4>3. d \in Int
        BY DEF Slots
      <4> QED BY <1>2, <4>1, <4>2, <4>3
    <3>4. TableTo(fdArray, x) = {c}
      BY <3>2, <3>3
    <3> QED BY <2>1, <3>4, FS_Singleton
  <2>2. CASE ~(x # 1 /\ x <= Std + 1)
    <3>1. TableTo(fdArray, x) = {}
      <4> SUFFICES ASSUME NEW e \in TableTo(fdArray, x) PROVE FALSE
        OBVIOUS
      <4>1. PICK p \in Procs, d \in Slots : e = <<p, d>> /\ fdArray[p][d] = x
        BY DEF TableTo, Cells
      <4>2. d < Std /\ d + 2 = x
        BY <1>3, <1>7, <4>1
      <4>3. d \in Int /\ d >= 0 /\ Std \in Nat
        BY InitObjects, DescriptorsAssumption DEF Slots
      <4> QED BY <2>2, <4>2, <4>3
    <3> QED BY <2>2, <3>1, FS_EmptySet
  <2> QED BY <2>1, <2>2
<1>9. Held(fdArray, semaphores, openFiles, size, loc, x) = IF x # 1 /\ x <= Std + 1 THEN 1 ELSE 0
  BY <1>4, <1>5, <1>6, <1>8 DEF Held
<1>10. \A o \in Ids : objects[o].file = x <=> x = 1 /\ o # 1 /\ o <= Std + 1
  <2> TAKE o \in Ids
  <2>1. CASE o = 1
    BY <1>3, <2>1, InitObjects
  <2>2. CASE o # 1 /\ o <= Std + 1
    BY <2>2, InitObjects
  <2>3. CASE o > Std + 1
    BY <1>2, <1>3, <2>3, InitObjects, FreedIs
  <2> QED BY <1>2, <2>1, <2>2, <2>3
<1>11. Cardinality(FilesOf(objects, x)) = IF x = 1 THEN Std ELSE 0
  <2>1. CASE x = 1
    <3>1. FilesOf(objects, x) = 2 .. (Std + 1)
      <4>1. \A o \in Ids : o \in 2 .. (Std + 1) <=> o # 1 /\ o <= Std + 1
        BY InitObjects DEF Ids
      <4>2. 2 .. (Std + 1) \subseteq Ids
        BY InitObjects, DescriptorsAssumption DEF Ids
      <4> QED BY <1>10, <2>1, <4>1, <4>2 DEF FilesOf
    <3>2. Cardinality(2 .. (Std + 1)) = Std
      <4>1. 2 \in Int /\ Std + 1 \in Int /\ ~(2 > Std + 1) /\ (Std + 1) - 2 + 1 = Std
        BY InitObjects
      <4> QED BY <4>1, FS_Interval
    <3> QED BY <2>1, <3>1, <3>2
  <2>2. CASE x # 1
    <3>1. FilesOf(objects, x) = {}
      BY <1>10, <2>2 DEF FilesOf
    <3> QED BY <2>2, <3>1, FS_EmptySet
  <2> QED BY <2>1, <2>2
<1>12. Outside(objects, x) = IF x # 1 /\ x <= Std + 1 THEN 1 ELSE 0
  <2>1. CASE x = 1
    BY <1>11, <2>1, InitObjects DEF Outside
  <2>2. CASE x # 1 /\ x <= Std + 1
    BY <1>11, <2>2, InitObjects DEF Outside
  <2>3. CASE x > Std + 1
    BY <1>2, <1>11, <2>3, InitObjects, FreedIs DEF Outside
  <2> QED BY <1>2, <2>1, <2>2, <2>3
<1> QED BY <1>9, <1>12

\* The invariant holds at the start.
LEMMA InitRight ==
  ASSUME Init
  PROVE  DescInv
<1>1. /\ size = 0 /\ calls = 0 /\ loc = [p \in Procs |-> NoLocals]
      /\ pc = [p \in Procs |-> IF p = FirstProc THEN "user" ELSE "none"]
      /\ \A p \in Procs, d \in Slots : fdArray[p][d] = IF p = FirstProc /\ d < Std THEN d + 2 ELSE Null
      /\ \A p \in Procs, s \in Slots : semaphores[p][s] = Null
      /\ openFiles = [b \in Buckets |-> << >>]
  BY DEF Init, Buckets
<1>2. \A d \in Slots : d \in Nat /\ (d < Std => d + 2 \in Ids /\ d + 2 # 1 /\ d + 2 <= Std + 1)
  BY InitObjects, DescriptorsAssumption DEF Slots, Ids
<1>3. DescTypeOK
  <2>1. fdArray \in Tables
    <3>1. fdArray = [p \in Procs |-> [d \in Slots |-> IF p = FirstProc /\ d < Std THEN d + 2 ELSE Null]]
      BY DEF Init
    <3> QED BY <1>2, <3>1 DEF Tables
  <2>2. semaphores \in Tables
    BY DEF Init, Tables
  <2>3. openFiles \in Chains
    <3>1. << >> \in Seq([key : Inodes, val : Ids])
      BY EmptySeq
    <3> QED BY <1>1, <3>1 DEF Chains
  <2>4. pc \in [Procs -> Places] /\ loc \in Locals
    BY <1>1, NoLocalsIs DEF Places, Locals, Local
  <2> QED BY <1>1, <2>1, <2>2, <2>3, <2>4 DEF DescTypeOK
<1>4. CountsRight
  BY InitCounts
<1>5. PointersRight
  <2>1. ASSUME NEW p \in Procs, NEW d \in Slots, fdArray[p][d] # Null
        PROVE  objects[fdArray[p][d]].kind = "open"
    <3>1. fdArray[p][d] = d + 2 /\ d < Std
      BY <1>1, <2>1
    <3> QED BY <1>2, <3>1, InitObjects
  <2>2. \A p \in Procs : loc[p].file = Null
    BY <1>1, NoLocalsIs
  <2> QED BY <1>1, <2>1, <2>2 DEF PointersRight
<1>6. FdOnce
  <2> SUFFICES ASSUME NEW p \in Procs, NEW q \in Procs, NEW d \in Slots, NEW e \in Slots,
                      fdArray[p][d] # Null, fdArray[p][d] = fdArray[q][e]
               PROVE  p = q /\ d = e
    BY DEF FdOnce
  <2>1. p = FirstProc /\ q = FirstProc /\ d + 2 = e + 2
    BY <1>1
  <2> QED BY <1>2, <2>1
<1>7. LocalsRight
  <2> SUFFICES ASSUME NEW p \in Procs PROVE LocalsAt(p)
    BY DEF LocalsRight
  <2>1. loc[p].file = Null /\ pc[p] \in {"user", "none"}
    BY <1>1, NoLocalsIs
  <2> QED BY <2>1 DEF LocalsAt, Copying
<1>8. ForksRight
  <2>1. \A p \in Procs : pc[p] \in {"user", "none"}
    BY <1>1
  <2> QED BY <2>1 DEF ForksRight, Copying
<1>9. SleepersRight
  <2>1. \A p \in Procs, x \in Ids : ~Waits(p, x)
    BY <1>1 DEF Waits
  <2>2. IsInjective(<< >>) /\ ToSet(<< >>) = {}
    BY DEF IsInjective, ToSet
  <2> QED BY <2>1, <2>2, InitObjects DEF SleepersRight
<1>10. CacheRight
  <2>1. Nodes = {}
    <3>1. 1 .. size = {}
      BY <1>1
    <3> QED BY <3>1 DEF Nodes
  <2>2. Cardinality(Nodes) = size
    BY <1>1, <2>1, FS_EmptySet
  <2>3. \A b \in Buckets : Len(openFiles[b]) <= size
    BY <1>1
  <2> QED BY <2>1, <2>2, <2>3 DEF CacheRight, CacheIsMap
<1> QED BY <1>3, <1>4, <1>5, <1>6, <1>7, <1>8, <1>9, <1>10 DEF DescInv

\* Every step keeps the invariant.
LEMMA NextRight ==
  ASSUME DescInv, [Next]_vars
  PROVE  DescInv'
<1>1. CASE UNCHANGED vars
  <2>1. UNCHANGED <<objects, fdArray, semaphores, openFiles, size, pc, loc>>
    BY <1>1 DEF vars, tables, cache
  <2> QED BY <2>1, NoStep
<1>2. CASE Next
  <2>1. PICK p \in Procs :
          \/ OpenStep(p) \/ IOStep(p) \/ ForkStep(p)
          \/ \E inum \in Inodes : Open(p, inum)
          \/ \E d \in Slots : \/ StartIO(p, d, "read") \/ StartIO(p, d, "write")
                              \/ \E off \in 0 .. MaxOffset : Seek(p, d, off)
                              \/ CloseFile(p, d)
                              \/ Down(p, d) \/ Up(p, d) \/ CloseSemaphore(p, d)
          \/ \E initial \in 0 .. 1 : Sem(p, initial)
          \/ \E c \in Procs : Fork(p, c)
          \/ Exit(p)
    BY <1>2 DEF Next
  <2>2. ASSUME OpenStep(p) PROVE DescInv'
    BY <2>2, LookupRight, HitRight, MissRight, AllocateFDRight DEF OpenStep
  <2>3. ASSUME IOStep(p) PROVE DescInv'
    BY <2>3, EndReadRight, EndWriteRight DEF IOStep
  <2>4. ASSUME ForkStep(p) PROVE DescInv'
    BY <2>4, PcbOpenRight, PcbDoneRight, CopyFileRight, CopySemaphoreRight, CopyDoneRight DEF ForkStep
  <2>5. ASSUME NEW inum \in Inodes, Open(p, inum) PROVE DescInv'
    BY <2>5, OpenStepRight
  <2>6. ASSUME NEW d \in Slots, StartIO(p, d, "read") \/ StartIO(p, d, "write") PROVE DescInv'
    BY <2>6, StartIORight
  <2>7. ASSUME NEW d \in Slots, NEW off \in 0 .. MaxOffset, Seek(p, d, off) PROVE DescInv'
    <3>1. off \in Nat
      BY DescriptorsAssumption
    <3> QED BY <2>7, <3>1, SeekRight
  <2>8. ASSUME NEW d \in Slots, CloseFile(p, d) PROVE DescInv'
    BY <2>8, CloseFileRight
  <2>9. ASSUME NEW s \in Slots, Down(p, s) PROVE DescInv'
    BY <2>9, DownRight
  <2>10. ASSUME NEW s \in Slots, Up(p, s) PROVE DescInv'
    BY <2>10, UpRight
  <2>11. ASSUME NEW s \in Slots, CloseSemaphore(p, s) PROVE DescInv'
    BY <2>11, CloseSemaphoreRight
  <2>12. ASSUME NEW initial \in 0 .. 1, Sem(p, initial) PROVE DescInv'
    <3>1. initial \in Nat
      OBVIOUS
    <3> QED BY <2>12, <3>1, SemRight
  <2>13. ASSUME NEW c \in Procs, Fork(p, c) PROVE DescInv'
    BY <2>13, ForkRight
  <2>14. ASSUME Exit(p) PROVE DescInv'
    BY <2>14, ExitRight
  <2> QED BY <2>1, <2>2, <2>3, <2>4, <2>5, <2>6, <2>7, <2>8, <2>9, <2>10, <2>11, <2>12, <2>13, <2>14
<1> QED BY <1>1, <1>2

\* The invariant holds whatever order opens, closes, forks and exits come in, for all
\* processes, files, tables and buckets.
THEOREM DescriptorInvariant == Spec => []DescInv
<1>1. Init => DescInv
  BY InitRight
<1>2. DescInv /\ [Next]_vars => DescInv'
  BY NextRight
<1> QED BY <1>1, <1>2, PTL DEF Spec

\* Counts are exact: what an object counts is its OpenFiles and what is held from outside.
LEMMA CountsFollow ==
  ASSUME DescInv
  PROVE  CountsExact
<1>1. Good(objects) /\ size \in Nat
  BY ObjectsGood DEF DescInv, DescTypeOK
<1>2. KindsRight
  <2>1. \A c \in Cells : c[1] \in Procs /\ c[2] \in Slots
    BY DEF Cells
  <2>2. \A c \in Cells : /\ fdArray[c[1]][c[2]] # Null => objects[fdArray[c[1]][c[2]]].kind = "open"
                         /\ semaphores[c[1]][c[2]] # Null => objects[semaphores[c[1]][c[2]]].kind = "sem"
    BY <2>1 DEF DescInv, PointersRight
  <2>3. \A o \in Ids : objects[o].kind = "open" => objects[objects[o].file].kind = "file"
    BY <1>1 DEF Good
  <2> QED BY <2>2, <2>3 DEF KindsRight
<1>3. ASSUME NEW x \in Ids PROVE objects[x].refs = PointersTo(x) /\ (objects[x] = Freed <=> PointersTo(x) = 0)
  <2>1. PointersTo(x) = Cardinality(TableTo(fdArray, x)) + Cardinality(TableTo(semaphores, x))
          + Cardinality(FilesOf(objects, x)) + Cardinality(NodesTo(openFiles, size, x))
          + Cardinality(LocalTo(loc, x))
    BY NodesAre DEF PointersTo, TableTo, FilesOf, NodesTo, LocalTo
  <2>2. Outside(objects, x) = Held(fdArray, semaphores, openFiles, size, loc, x)
    BY DEF DescInv, CountsRight, Counted
  <2>3. objects[x].refs \in Nat
    BY <1>1 DEF Good, Things
  <2>4. objects[x].refs = PointersTo(x)
    BY <1>1, <2>1, <2>2, <2>3, Finite, FilesFinite DEF Outside, Held
  <2> QED BY <1>1, <2>4 DEF Good
<1>4. ASSUME NEW p \in Procs, pc[p] = "down"
      PROVE  \E i \in DOMAIN objects[semaphores[p][loc[p].arg]].waiters :
               objects[semaphores[p][loc[p].arg]].waiters[i] = p
  <2>1. PICK x \in Ids : x = semaphores[p][loc[p].arg]
    BY <1>4, Known, PointedIs DEF LocalsAt
  <2>2. p \in ToSet(objects[x].waiters)
    BY <1>4, <2>1 DEF DescInv, SleepersRight, Waits
  <2> QED BY <2>1, <2>2 DEF ToSet
<1> QED BY <1>2, <1>3, <1>4 DEF CountsExact

\* CountsExact: an object is there exactly as long as somebody points to it, and who
\* sleeps in down can be woken.
THEOREM PointersCounted == Spec => []CountsExact
BY DescriptorInvariant, CountsFollow, PTL

\* CacheIsMap: two opens of a file that both miss it leave one node of it.
THEOREM OpenFilesAreMap == Spec => []CacheIsMap
<1>1. DescInv => CacheIsMap
  BY DEF DescInv, CacheRight
<1> QED BY <1>1, DescriptorInvariant, PTL

\* OffsetsPrivate: an OpenFile that moves is the one of one descriptor of one process.
THEOREM OffsetsStayPrivate == Spec => OffsetsPrivate
<1>1. DescInv /\ [Next]_vars =>
        [\A c, e \in Cells :
           LET o == fdArray[c[1]][c[2]]
           IN  o # Null /\ fdArray[e[1]][e[2]] = o /\ objects'[o].n # objects[o].n => e = c]_vars
  <2> SUFFICES ASSUME DescInv, NEW c \in Cells, NEW e \in Cells,
                      fdArray[c[1]][c[2]] # Null, fdArray[e[1]][e[2]] = fdArray[c[1]][c[2]]
               PROVE  e = c
    OBVIOUS
  <2>1. c[1] \in Procs /\ c[2] \in Slots /\ c = <<c[1], c[2]>>
    BY DEF Cells
  <2>2. e[1] \in Procs /\ e[2] \in Slots /\ e = <<e[1], e[2]>>
    BY DEF Cells
  <2> QED BY <2>1, <2>2 DEF DescInv, FdOnce
<1> QED BY <1>1, DescriptorInvariant, PTL DEF Spec, OffsetsPrivate
=============================================================================
