------------------------------ MODULE UserHeap ------------------------------
(***************************************************************************)
(* The heap of a user program (user/heap.c).  Its blocks and its list are  *)
(* those of the kernel's heap, line for line; it differs in malloc, which  *)
(* takes the first block that fits, in free, which passes over a block     *)
(* that is not taken, and in realloc.                                      *)
(*                                                                         *)
(* A process has one thread and the array is in its own memory, so a call  *)
(* is one step.  The state is that of Heap, for one program.               *)
(***************************************************************************)
EXTENDS Heap

\* The first block of the list that is large enough; 0 if there is none.
FirstFit(h, ints) ==
  LET s    == FreeList(h)
      fits == Fits(h, s, ints)
  IN  IF fits = {} THEN 0 ELSE s[Min(fits)]

\* What malloc does to h when i is what it found: nothing when that is none.
Take(h, i, ints) == IF i = 0 THEN h ELSE Carve(h, i, ints)

UserMalloc(bytes) == LET i == FirstFit(heap, Ints(bytes)) IN
  /\ i # 0
  /\ heap' = Fill(Take(heap, i, Ints(bytes)), i + 1, bytes)
  /\ held' = held \cup {<<i + 1, bytes>>}

\* free, of a block that is taken or of one that is not.
Release(h, i) == IF h.array[i] < 0 THEN Merge(h, i) ELSE h

UserFree(p, bytes) ==
  /\ <<p, bytes>> \in held
  /\ heap' = Release(heap, p - 1)
  /\ held' = held \ {<<p, bytes>>}

\* memcpy of so many bytes from p to q, in whole words.
Copied(h, q, p, bytes) ==
  [h EXCEPT !.array = [k \in Indices |->
     IF k \in Area(q, bytes) THEN h.array[p + (k - q)] ELSE h.array[k]]]

\* How many bytes realloc copies: up to the size of the block, both tags included.
Kept(p, size) == IF size > 4 * Size(heap, p - 1) THEN 4 * Size(heap, p - 1) ELSE size

\* Mutant of Moved: the old block is freed before its contents are copied.
MovedFreeFirst(p, i, size) ==
  Copied(Release(Take(heap, i, Ints(size)), p - 1), i + 1, p, Kept(p, size))

\* A new block at i, the contents copied to it, then the old block freed.
Moved(p, i, size) ==
  Release(Copied(Take(heap, i, Ints(size)), i + 1, p, Kept(p, size)), p - 1)

\* The client fills what its new block has beyond the bytes it had.
FillRest(h, q, bytes, size) ==
  [h EXCEPT !.array = [k \in Indices |->
     IF k \in Area(q, size) \ Area(q, bytes) THEN Junk ELSE h.array[k]]]

\* realloc.  The old block is freed also when there is no new one: the client then
\* has neither.  Afterwards the client fills what the new block has more.
Realloc(p, bytes, size) ==
  /\ <<p, bytes>> \in held
  /\ heap.array[p - 1] < 0
  /\ \E i \in {FirstFit(heap, Ints(size))} :
       \/ /\ i = 0
          /\ heap' = Release(heap, p - 1)
          /\ held' = held \ {<<p, bytes>>}
       \/ /\ i # 0
          /\ heap' = FillRest(Moved(p, i, size), i + 1, bytes, size)
          /\ held' = (held \ {<<p, bytes>>}) \cup {<<i + 1, size>>}

UserNext ==
  \/ \E bytes \in Requests : UserMalloc(bytes)
  \/ \E p \in Indices, bytes \in Requests : UserFree(p, bytes)
  \/ \E p \in Indices, bytes, size \in Requests : Realloc(p, bytes, size)

UserSpec == HeapInit /\ [][UserNext]_vars

-----------------------------------------------------------------------------
(* Properties *)

\* Both searches, the kernel's for the best fit and the program's for the first, give
\* up only when no gap between what is held is large enough.
SearchesFind ==
  /\ RefusesOnlyWhenFull
  /\ \A bytes \in Requests : FirstFit(heap, Ints(bytes)) = 0 => NoGap(Ints(bytes))
=============================================================================
