-------------------------------- MODULE Heap --------------------------------
(***************************************************************************)
(* The heap of the kernel (kernel/heap.cc): blocks with their size in the  *)
(* first and the last word, negative when taken, and the free blocks       *)
(* linked through their second and third words.                            *)
(*                                                                         *)
(* A call holds heapLock from its first read to its last write, so a call  *)
(* is one step.  Pointers are word indices in the array.  malloc(0) and    *)
(* free(0) change nothing, nor does a malloc that finds no block.          *)
(***************************************************************************)
EXTENDS Integers, SequencesExt

CONSTANTS
  Words,     \* words of the array
  Requests,  \* the arguments of malloc, in bytes
  Look,      \* how many blocks that fit malloc compares: 20
  Junk       \* what clients store; what the memory holds before heapInit

ASSUME HeapAssumption ==
  /\ Words \in Nat /\ Words >= 8
  /\ Requests \subseteq Nat \ {0}
  /\ Look \in Nat \ {0}
  /\ Junk \in -Words .. Words

VARIABLES
  heap,  \* the statics array and avail
  held   \* what clients hold: pairs of a pointer and the bytes asked for

vars == <<heap, held>>

Indices == 0 .. Words - 1

-----------------------------------------------------------------------------
(* A heap h is [array, avail]: the helpers of heap.cc *)

Size(h, i)     == IF h.array[i] < 0 THEN -h.array[i] ELSE h.array[i]
IsAvail(h, i)  == h.array[i] > 0
Left(h, i)     == (i - 1) - Size(h, i - 1) + 1
Right(h, i)    == i + Size(h, i)
NextOf(h, i)   == h.array[i + 1]
PrevOf(h, i)   == h.array[i + 2]

\* A store through an index that is 0 for none.
Store(array, i, at, x) == IF i = 0 THEN array ELSE [array EXCEPT ![at] = x]

\* remove: the head has no previous block, the last no next.
Unlink(h, i) == LET p == PrevOf(h, i)
                    n == NextOf(h, i) IN
  [array |-> Store(Store(h.array, p, p + 1, n), n, n + 2, p),
   avail |-> IF p = 0 THEN n ELSE h.avail]

FreeBlock(h, i, ints) ==
  [h.array EXCEPT ![i] = ints, ![i + ints - 1] = ints, ![i + 1] = h.avail, ![i + 2] = 0]

\* The new block goes to the front of the list.
MakeAvail(h, i, ints) ==
  [array |-> Store(FreeBlock(h, i, ints), h.avail, h.avail + 2, i), avail |-> i]

MakeTaken(h, i, ints) == [h EXCEPT !.array[i] = -ints, !.array[i + ints - 1] = -ints]

\* What a loop comes by that starts at a and goes on by next, until it leaves the
\* domain; at most so many rounds as there are words.
Chain(next, a) ==
  LET From[w \in (DOMAIN next) \X Nat] ==
        LET i == w[1] IN
        <<i>> \o IF w[2] > 0 /\ next[i] \in DOMAIN next THEN From[<<next[i], w[2] - 1>>] ELSE <<>>
  IN  IF a \in DOMAIN next THEN From[<<a, Words>>] ELSE <<>>

\* The list from avail on.
FreeList(h) == Chain([i \in 1 .. Words - 2 |-> NextOf(h, i)], h.avail)

\* Mutant of Ints: one tag.
IntsOneTag(bytes) == LET n == (bytes + 3) \div 4 + 1 IN IF n < 4 THEN 4 ELSE n

\* Bytes to words, with the two tags; a free block needs its two links as well.
Ints(bytes) == LET n == (bytes + 3) \div 4 + 2 IN IF n < 4 THEN 4 ELSE n

\* The positions in list s of the blocks that fit.
Fits(h, s, ints) == {k \in DOMAIN s : Size(h, s[k]) >= ints}

\* The smallest of the first Look blocks that fit, the first of those; 0 if none.
BestFit(h, ints) ==
  LET s      == FreeList(h)
      fits   == Fits(h, s, ints)
      looked == {k \in fits : Cardinality({j \in fits : j < k}) < Look}
      best   == {k \in looked : \A j \in looked : Size(h, s[k]) <= Size(h, s[j])}
  IN  IF fits = {} THEN 0 ELSE s[Min(best)]

\* Mutant of Carve: a rest of fewer than four words is made a free block.
CarveAll(h, i, ints) == LET extra == Size(h, i) - ints IN
  IF extra >= 3
  THEN MakeAvail(MakeTaken(Unlink(h, i), i, ints), i + ints, extra)
  ELSE MakeTaken(Unlink(h, i), i, Size(h, i))

\* A rest of four words is a block of its own.
Carve(h, i, ints) == LET extra == Size(h, i) - ints IN
  IF extra >= 4
  THEN MakeAvail(MakeTaken(Unlink(h, i), i, ints), i + ints, extra)
  ELSE MakeTaken(Unlink(h, i), i, Size(h, i))

\* Mutant of Merge: the block on the right stays on its own.
MergeLeftOnly(h, i) ==
  LET l  == Left(h, i)
      sz == Size(h, i) + IF IsAvail(h, l) THEN Size(h, l) ELSE 0
  IN MakeAvail(IF IsAvail(h, l) THEN Unlink(h, l) ELSE h, IF IsAvail(h, l) THEN l ELSE i, sz)

\* free: the block with its free neighbours.
Merge(h, i) ==
  LET l  == Left(h, i)
      r  == Right(h, i)
      h1 == IF IsAvail(h, l) THEN Unlink(h, l) ELSE h
      h2 == IF IsAvail(h1, r) THEN Unlink(h1, r) ELSE h1
      sz == Size(h, i) + (IF IsAvail(h, l) THEN Size(h, l) ELSE 0)
                       + (IF IsAvail(h, r) THEN Size(h, r) ELSE 0)
  IN MakeAvail(h2, IF IsAvail(h, l) THEN l ELSE i, sz)

-----------------------------------------------------------------------------
HeapInit ==
  LET blank == [array |-> [k \in Indices |-> Junk], avail |-> 0] IN
  /\ heap = MakeTaken(MakeAvail(MakeTaken(blank, 0, 2), 2, Words - 4), Words - 2, 2)
  /\ held = {}

\* The words that hold the bytes asked for.
Area(p, bytes) == p .. (p + (bytes + 3) \div 4 - 1)

\* The client fills the bytes it asked for, in whole words.
Fill(h, p, bytes) ==
  [h EXCEPT !.array = [k \in Indices |-> IF k \in Area(p, bytes) THEN Junk ELSE h.array[k]]]

Malloc(bytes) == LET i == BestFit(heap, Ints(bytes)) IN
  /\ i # 0
  /\ heap' = Fill(Carve(heap, i, Ints(bytes)), i + 1, bytes)
  /\ held' = held \cup {<<i + 1, bytes>>}

\* Who holds a pointer frees it once: of a free block the kernel's free panics.
Free(p, bytes) ==
  /\ <<p, bytes>> \in held
  /\ heap.array[p - 1] < 0
  /\ heap' = Merge(heap, p - 1)
  /\ held' = held \ {<<p, bytes>>}

HeapNext ==
  \/ \E bytes \in Requests : Malloc(bytes)
  \/ \E p \in Indices, bytes \in Requests : Free(p, bytes)

HeapSpec == HeapInit /\ [][HeapNext]_vars

-----------------------------------------------------------------------------
(* Properties *)

HeapTypeOK ==
  /\ heap.array \in [Indices -> -Words .. Words]
  /\ heap.avail \in Indices
  /\ held \subseteq Indices \X Requests

\* The headers from the left end to the right end, going by the sizes.
Headers == ToSet(Chain([i \in Indices |-> Right(heap, i)], 0))

\* The blocks fill the array, the size at either end of a block is the same, and
\* the taken ones are those that clients hold and the two ends.
BlocksTile ==
  /\ Words - 2 \in Headers
  /\ \A i \in Headers : heap.array[i + Size(heap, i) - 1] = heap.array[i]
  /\ {i \in Headers : ~IsAvail(heap, i)} = {0, Words - 2} \cup {h[1] - 1 : h \in held}

\* The list holds every free block once, and prev is the inverse of next.
ListIsFree == LET s == FreeList(heap) IN
  /\ IsInjective(s)
  /\ ToSet(s) = {i \in Headers : IsAvail(heap, i)}
  /\ \A k \in DOMAIN s : PrevOf(heap, s[k]) = IF k = 1 THEN 0 ELSE s[k - 1]

\* Two ways lead through the blocks, by the sizes from end to end and by the
\* links of the free ones, and over any sequence of calls they agree.
BlocksConsistent == HeapTypeOK /\ BlocksTile /\ ListIsFree

\* What a client has stored stays: no tag or link of a block is written to the area
\* of another, whatever is allocated and freed around it.
ContentsKept == \A h \in held : \A k \in Area(h[1], h[2]) : heap.array[k] = Junk

\* No gap between the taken blocks has room for a block of so many words.
NoGap(ints) ==
  LET taken == UNION {(h[1] - 1) .. (h[1] + Size(heap, h[1] - 1) - 2) : h \in held}
  IN \A i \in 2 .. (Words - 2 - ints) : (i .. (i + ints - 1)) \cap taken # {}

\* malloc refuses only when no gap between what clients hold is large enough: free
\* has merged what it could.
RefusesOnlyWhenFull ==
  \A bytes \in Requests : BestFit(heap, Ints(bytes)) = 0 => NoGap(Ints(bytes))
=============================================================================
