----------------------------- MODULE HeapProofs -----------------------------
(***************************************************************************)
(* The two heaps, of any number of words and any requests: that the blocks *)
(* fill the array and the list holds the free ones, that clients keep what *)
(* they stored, and that a search finds a block when there is room.        *)
(*                                                                         *)
(* The invariant names the set of the headers, B, and a rank of the free   *)
(* blocks, r, that falls along the list: what the code's links and sizes   *)
(* say is then said without walking.  That the walks of the code come by   *)
(* these blocks is proved apart, by a least counterexample: the library's  *)
(* induction theorems take an operator, WFMin does not.                    *)
(***************************************************************************)
EXTENDS UserHeap, FiniteSetTheorems, WellFoundedInduction, TLAPS

\* A set of numbers that is not empty has a least one, and Min is it.
LEMMA LeastOf ==
  ASSUME NEW S, S \subseteq Nat, S # {}
  PROVE  \E m \in S : \A k \in S : m <= k
<1>1. \E m \in S : \A k \in S : ~(<<k, m>> \in OpToRel(<, Nat))
  BY WFMin, NatLessThanWellFounded
<1>2. ASSUME NEW i \in Nat, NEW j \in Nat, j < i PROVE <<j, i>> \in OpToRel(<, Nat)
  BY <1>2 DEF OpToRel
<1>3. \A i, j \in S : i <= j \/ j < i
  OBVIOUS
<1> QED BY <1>1, <1>2, <1>3

\* Min is the least element.
LEMMA MinIs ==
  ASSUME NEW S, S \subseteq Nat, S # {}
  PROVE  Min(S) \in S /\ \A k \in S : Min(S) <= k
BY LeastOf DEF Min

\* A set of numbers below a bound has a greatest one, when it is not empty.
LEMMA GreatestOf ==
  ASSUME NEW top \in Nat, NEW S, S \subseteq 0 .. top, S # {}
  PROVE  \E m \in S : \A k \in S : k <= m
<1> DEFINE T == {top - k : k \in S}
<1>0. \A k \in S : k \in Nat /\ top - k \in Nat
  OBVIOUS
<1>1. T \subseteq Nat /\ T # {}
  BY <1>0
<1>2. PICK t \in T : \A u \in T : t <= u
  BY <1>1, LeastOf
<1>3. PICK m \in S : t = top - m
  OBVIOUS
<1>4. \A k \in S : top - m <= top - k
  BY <1>2, <1>3
<1> HIDE DEF T
<1> QED BY <1>0, <1>4

-----------------------------------------------------------------------------
(* The loops that go along the list and along the blocks *)

Round(next, F) == [w \in (DOMAIN next) \X Nat |->
  LET i == w[1] IN
  <<i>> \o IF w[2] > 0 /\ next[i] \in DOMAIN next THEN F[<<next[i], w[2] - 1>>] ELSE <<>>]

Walk(next) == CHOOSE F : F = Round(next, F)

\* Chain is defined by a recursive function, and takes what Walk has.
LEMMA ChainIsWalk ==
  ASSUME NEW next, NEW a \in DOMAIN next
  PROVE  Chain(next, a) = Walk(next)[<<a, Words>>]
BY Zenon DEF Chain, Walk, Round

\* From i on, with n rounds left, when F says what comes of fewer.
From(next, F, i, n) ==
  <<i>> \o IF n > 0 /\ next[i] \in DOMAIN next THEN F[<<next[i], n - 1>>] ELSE <<>>

\* F is right as far as n rounds.
UpTo(next, F, n) == \A i \in DOMAIN next, k \in 0 .. n : F[<<i, k>>] = From(next, F, i, k)

\* As far as it goes there is one such function.
LEMMA OneWalk ==
  ASSUME NEW next, NEW F, NEW G, NEW m \in Nat, NEW n \in Nat, UpTo(next, F, m), UpTo(next, G, n),
         NEW i \in DOMAIN next, NEW k \in Nat, k <= m, k <= n
  PROVE  F[<<i, k>>] = G[<<i, k>>]
<1> DEFINE Bad == {x \in Nat : x <= m /\ x <= n /\ \E j \in DOMAIN next : F[<<j, x>>] # G[<<j, x>>]}
<1> SUFFICES ASSUME Bad # {} PROVE FALSE
  OBVIOUS
<1>1. PICK x \in Bad : \A y \in Bad : x <= y
  BY LeastOf
<1>2. PICK j \in DOMAIN next : F[<<j, x>>] # G[<<j, x>>]
  BY <1>1
<1>3. F[<<j, x>>] = From(next, F, j, x) /\ G[<<j, x>>] = From(next, G, j, x)
  BY <1>1 DEF UpTo
<1>4. x > 0 /\ next[j] \in DOMAIN next /\ F[<<next[j], x - 1>>] # G[<<next[j], x - 1>>]
  BY <1>2, <1>3 DEF From
<1>5. x - 1 \in Bad
  BY <1>1, <1>4
<1> QED BY <1>1, <1>5

\* There is one for any number of rounds.
LEMMA WalkUpTo ==
  ASSUME NEW next, NEW n \in Nat
  PROVE  \E F : UpTo(next, F, n)
<1> DEFINE Bad == {x \in Nat : ~ \E F : UpTo(next, F, x)}
<1> SUFFICES ASSUME Bad # {} PROVE FALSE
  OBVIOUS
<1>1. PICK x \in Bad : \A y \in Bad : x <= y
  BY LeastOf
<1>2. x # 0
  <2> DEFINE F == [w \in (DOMAIN next) \X {0} |-> <<w[1]>> \o <<>>]
  <2>1. ASSUME NEW i \in DOMAIN next, NEW k \in 0 .. 0 PROVE F[<<i, k>>] = From(next, F, i, k)
    <3>1. k = 0 /\ <<i, k>> \in (DOMAIN next) \X {0}
      OBVIOUS
    <3>2. F[<<i, k>>] = <<i>> \o <<>>
      BY <3>1
    <3> QED BY <3>1, <3>2 DEF From
  <2>2. UpTo(next, F, 0)
    BY <2>1 DEF UpTo
  <2> QED BY <1>1, <2>2
<1>3. x - 1 \in Nat /\ x - 1 \notin Bad
  BY <1>1, <1>2
<1>4. PICK F : UpTo(next, F, x - 1)
  BY <1>3
<1> DEFINE G == [w \in (DOMAIN next) \X (0 .. x) |->
                   IF w[2] < x THEN F[w] ELSE From(next, F, w[1], x)]
<1>5. ASSUME NEW i \in DOMAIN next, NEW k \in 0 .. x
      PROVE  G[<<i, k>>] = IF k < x THEN F[<<i, k>>] ELSE From(next, F, i, x)
  OBVIOUS
<1> HIDE DEF G
<1>6. ASSUME NEW i \in DOMAIN next, NEW k \in 0 .. x
      PROVE  G[<<i, k>>] = From(next, G, i, k)
  <2>1. G[<<i, k>>] = From(next, F, i, k)
    <3>1. CASE k < x
      <4>1. k \in 0 .. x - 1
        BY <3>1
      <4> QED BY <1>4, <1>5, <3>1, <4>1 DEF UpTo
    <3>2. CASE k = x
      BY <1>5, <3>2
    <3> QED BY <1>1, <3>1, <3>2
  <2>2. k > 0 /\ next[i] \in DOMAIN next => G[<<next[i], k - 1>>] = F[<<next[i], k - 1>>]
    BY <1>3, <1>5
  <2> QED BY <2>1, <2>2 DEF From
<1>7. UpTo(next, G, x)
  BY <1>6 DEF UpTo
<1> QED BY <1>1, <1>7

\* So the recursive function is what its definition says.
LEMMA WalkIs ==
  ASSUME NEW next, NEW i \in DOMAIN next, NEW n \in Nat
  PROVE  Walk(next)[<<i, n>>] = From(next, Walk(next), i, n)
<1> DEFINE Pick(k) == CHOOSE F : UpTo(next, F, k)
           G == [w \in (DOMAIN next) \X Nat |-> Pick(w[2])[w]]
<1>1. \A k \in Nat : UpTo(next, Pick(k), k)
  BY WalkUpTo
<1> HIDE DEF Pick
<1>2. \A j \in DOMAIN next, k \in Nat : G[<<j, k>>] = Pick(k)[<<j, k>>]
  OBVIOUS
<1>3. ASSUME NEW j \in DOMAIN next, NEW k \in Nat PROVE G[<<j, k>>] = From(next, G, j, k)
  <2>1. G[<<j, k>>] = From(next, Pick(k), j, k)
    BY <1>1, <1>2 DEF UpTo
  <2>2. CASE k > 0 /\ next[j] \in DOMAIN next
    <3>1. k - 1 \in Nat /\ k - 1 <= k
      BY <2>2
    <3>2. Pick(k)[<<next[j], k - 1>>] = Pick(k - 1)[<<next[j], k - 1>>]
      BY <1>1, <2>2, <3>1, OneWalk
    <3> QED BY <1>2, <2>1, <2>2, <3>1, <3>2 DEF From
  <2>3. CASE ~(k > 0 /\ next[j] \in DOMAIN next)
    BY <2>1, <2>3 DEF From
  <2> QED BY <2>2, <2>3
<1>4. G = Round(next, G)
  <2>1. ASSUME NEW w \in (DOMAIN next) \X Nat PROVE G[w] = Round(next, G)[w]
    <3>1. w = <<w[1], w[2]>> /\ w[1] \in DOMAIN next /\ w[2] \in Nat
      OBVIOUS
    <3>2. G[w] = From(next, G, w[1], w[2])
      BY <1>3, <3>1
    <3> HIDE DEF G
    <3>3. Round(next, G)[w] = From(next, G, w[1], w[2])
      BY DEF Round, From
    <3> QED BY <3>2, <3>3
  <2> DEFINE R == Round(next, G)
  <2>2. R = [w \in (DOMAIN next) \X Nat |-> R[w]]
    BY DEF Round
  <2>3. G = [w \in (DOMAIN next) \X Nat |-> G[w]]
    OBVIOUS
  <2>4. \A w \in (DOMAIN next) \X Nat : G[w] = R[w]
    BY <2>1
  <2> HIDE DEF G, R
  <2> QED BY <2>2, <2>3, <2>4 DEF R
<1> HIDE DEF G
<1>5. Walk(next) = Round(next, Walk(next))
  BY <1>4 DEF Walk
<1>6. \A W : W = Round(next, W) => W[<<i, n>>] = From(next, W, i, n)
  BY DEF Round, From
<1> QED BY <1>5, <1>6

\* A walk from i to where next leaves its domain, on which the measure m falls.
IsWalk(next, M, m, i, s) ==
  /\ s \in Seq(M) /\ Len(s) > 0 /\ s[1] = i
  /\ next[s[Len(s)]] \notin DOMAIN next
  /\ \A k \in 1 .. Len(s) - 1 : next[s[k]] = s[k + 1]
  /\ \A j, k \in 1 .. Len(s) : j < k => m[s[k]] < m[s[j]]

\* The elements of a sequence with one more at the front.
LEMMA ConsIs ==
  ASSUME NEW S, NEW i \in S, NEW s \in Seq(S)
  PROVE  /\ <<i>> \o s \in Seq(S) /\ Len(<<i>> \o s) = Len(s) + 1 /\ Len(s) \in Nat
         /\ (<<i>> \o s)[1] = i
         /\ \A k \in 2 .. Len(s) + 1 : (<<i>> \o s)[k] = s[k - 1]
OBVIOUS

\* When m falls along next and is small enough at first, the rounds suffice.
LEMMA WalkFalls ==
  ASSUME NEW next, NEW M, M \subseteq DOMAIN next, NEW m \in [M -> Nat],
         \A j \in M : next[j] \in DOMAIN next => next[j] \in M /\ m[next[j]] < m[j],
         NEW n \in Nat, NEW i \in M, m[i] <= n
  PROVE  IsWalk(next, M, m, i, Walk(next)[<<i, n>>])
<1> DEFINE Bad == {x \in Nat : \E j \in M : m[j] <= x /\ ~IsWalk(next, M, m, j, Walk(next)[<<j, x>>])}
<1> SUFFICES ASSUME Bad # {} PROVE FALSE
  OBVIOUS
<1>1. PICK x \in Bad : \A y \in Bad : x <= y
  BY LeastOf
<1>2. PICK j \in M : m[j] <= x /\ ~IsWalk(next, M, m, j, Walk(next)[<<j, x>>])
  BY <1>1
<1> DEFINE W(k, y) == Walk(next)[<<k, y>>]
<1>3. W(j, x) = <<j>> \o IF x > 0 /\ next[j] \in DOMAIN next THEN W(next[j], x - 1) ELSE <<>>
  BY <1>1, WalkIs DEF From
<1> HIDE DEF W
<1>4. CASE next[j] \in DOMAIN next
  <2>1. next[j] \in M /\ m[next[j]] < m[j] /\ m[j] \in Nat /\ m[next[j]] \in Nat
    BY <1>4
  <2>2. x > 0 /\ x - 1 \in Nat /\ m[next[j]] <= x - 1
    BY <1>1, <1>2, <2>1
  <2>3. x - 1 \notin Bad
    <3>1. ~(x <= x - 1)
      BY <1>1
    <3> HIDE DEF Bad
    <3> QED BY <1>1, <3>1
  <2> DEFINE s == W(next[j], x - 1)
  <2>4. IsWalk(next, M, m, next[j], s)
    BY <2>1, <2>2, <2>3 DEF W
  <2>5. W(j, x) = <<j>> \o s
    BY <1>3, <1>4, <2>2
  <2> HIDE DEF s
  <2> DEFINE t == <<j>> \o s
  <2>6. /\ t \in Seq(M) /\ Len(t) = Len(s) + 1 /\ Len(s) \in Nat /\ t[1] = j
        /\ \A k \in 2 .. Len(t) : t[k] = s[k - 1]
    BY <2>4, ConsIs DEF IsWalk
  <2> HIDE DEF t
  <2>7. Len(t) > 0 /\ next[t[Len(t)]] \notin DOMAIN next
    <3>1. Len(s) > 0 /\ t[Len(t)] = s[Len(s)]
      <4>1. Len(s) > 0 /\ Len(t) \in 2 .. Len(t) /\ Len(t) - 1 = Len(s)
        BY <2>4, <2>6 DEF IsWalk
      <4> QED BY <2>6, <4>1
    <3> QED BY <2>4, <2>6, <3>1 DEF IsWalk
  <2>8. ASSUME NEW k \in 1 .. Len(t) - 1 PROVE next[t[k]] = t[k + 1]
    <3>1. CASE k = 1
      BY <2>4, <2>6, <3>1 DEF IsWalk
    <3>2. CASE k # 1
      <4>1. k - 1 \in 1 .. Len(s) - 1 /\ t[k] = s[k - 1] /\ t[k + 1] = s[(k - 1) + 1]
        BY <2>6, <3>2
      <4> QED BY <2>4, <4>1 DEF IsWalk
    <3> QED BY <3>1, <3>2
  <2>9. ASSUME NEW a \in 1 .. Len(t), NEW b \in 1 .. Len(t), a < b PROVE m[t[b]] < m[t[a]]
    <3>1. b - 1 \in 1 .. Len(s) /\ t[b] = s[b - 1] /\ s[b - 1] \in M /\ m[s[b - 1]] \in Nat
      BY <2>4, <2>6, <2>9 DEF IsWalk
    <3>2. m[s[b - 1]] <= m[next[j]]
      <4>1. CASE b - 1 = 1
        BY <2>1, <2>4, <4>1 DEF IsWalk
      <4>2. CASE b - 1 > 1
        <5>1. 1 \in 1 .. Len(s) /\ s[1] = next[j]
          BY <2>4, <3>1 DEF IsWalk
        <5>2. m[s[b - 1]] < m[s[1]]
          BY <2>4, <3>1, <4>2, <5>1 DEF IsWalk
        <5> QED BY <2>1, <3>1, <5>1, <5>2
      <4> QED BY <3>1, <4>1, <4>2
    <3>3. CASE a = 1
      BY <2>1, <2>6, <3>1, <3>2, <3>3
    <3>4. CASE a # 1
      <4>1. a - 1 \in 1 .. Len(s) /\ t[a] = s[a - 1] /\ a - 1 < b - 1
        BY <2>6, <2>9, <3>4
      <4> QED BY <2>4, <3>1, <4>1 DEF IsWalk
    <3> QED BY <3>3, <3>4
  <2>10. IsWalk(next, M, m, j, t)
    BY <2>6, <2>7, <2>8, <2>9 DEF IsWalk
  <2> QED BY <1>2, <2>5, <2>10 DEF t, W
<1>5. CASE next[j] \notin DOMAIN next
  <2>1. W(j, x) = <<j>> \o << >>
    BY <1>3, <1>5
  <2>2. W(j, x) = <<j>>
    BY <2>1
  <2>3. IsWalk(next, M, m, j, <<j>>)
    BY <1>5 DEF IsWalk
  <2> QED BY <1>2, <2>2, <2>3 DEF W
<1> QED BY <1>4, <1>5

\* A place with which its predecessor on the walk is, is on the walk.
LEMMA WalkGoesOn ==
  ASSUME NEW next, NEW M, NEW m, NEW i, NEW s, IsWalk(next, M, m, i, s),
         NEW j \in ToSet(s), next[j] \in DOMAIN next
  PROVE  next[j] \in ToSet(s)
<1>1. PICK k \in 1 .. Len(s) : s[k] = j
  BY DEF IsWalk, ToSet
<1>2. k # Len(s)
  BY <1>1 DEF IsWalk
<1>3. Len(s) \in Nat /\ s \in Seq(M)
  BY DEF IsWalk
<1>4. k \in 1 .. Len(s) - 1 /\ k + 1 \in 1 .. Len(s)
  BY <1>2, <1>3
<1>5. next[j] = s[k + 1]
  BY <1>1, <1>4 DEF IsWalk
<1> QED BY <1>3, <1>4, <1>5 DEF ToSet

\* No place is on a walk twice, and all of them are in M.
LEMMA WalkOnce ==
  ASSUME NEW next, NEW M, NEW m \in [M -> Nat], NEW i, NEW s, IsWalk(next, M, m, i, s)
  PROVE  IsInjective(s) /\ ToSet(s) \subseteq M /\ DOMAIN s = 1 .. Len(s) /\ i \in ToSet(s)
<1>1. s \in Seq(M) /\ Len(s) \in Nat /\ DOMAIN s = 1 .. Len(s) /\ \A k \in 1 .. Len(s) : s[k] \in M
  BY DEF IsWalk
<1>2. ASSUME NEW a \in 1 .. Len(s), NEW b \in 1 .. Len(s), s[a] = s[b] PROVE a = b
  <2>1. m[s[a]] \in Nat /\ ~(m[s[a]] < m[s[b]]) /\ ~(m[s[b]] < m[s[a]])
    BY <1>1, <1>2
  <2> QED BY <1>1, <2>1 DEF IsWalk
<1>3. 1 \in 1 .. Len(s) /\ s[1] = i
  BY <1>1 DEF IsWalk
<1> QED BY <1>1, <1>2, <1>3 DEF IsInjective, ToSet

-----------------------------------------------------------------------------
(* What the helpers of heap.cc change *)

\* The block at the right end.
Edge == Words - 2

Heaps == [array : [Indices -> -Words .. Words], avail : Indices]

\* The array has the words of the ends.
LEMMA WordsIs == Words \in Nat /\ Words >= 8 /\ 0 \in Indices /\ Edge \in Indices
BY HeapAssumption DEF Indices, Edge

\* What makeTaken changes.
LEMMA MakeTakenIs ==
  ASSUME NEW h \in Heaps, NEW i \in Indices, NEW ints \in 1 .. Words, i + ints - 1 \in Indices
  PROVE  /\ MakeTaken(h, i, ints) \in Heaps
         /\ MakeTaken(h, i, ints).avail = h.avail
         /\ \A k \in Indices : MakeTaken(h, i, ints).array[k]
                                 = IF k \in {i, i + ints - 1} THEN -ints ELSE h.array[k]
<1>1. -ints \in -Words .. Words
  BY WordsIs
<1> QED BY <1>1 DEF MakeTaken, Heaps

\* What remove changes.
LEMMA UnlinkIs ==
  ASSUME NEW h \in Heaps, NEW i \in Indices, i + 2 \in Indices,
         NEW p \in Indices, p = PrevOf(h, i), p # 0 => p + 1 \in Indices,
         NEW n \in Indices, n = NextOf(h, i), n # 0 => n + 2 \in Indices
  PROVE  /\ Unlink(h, i) \in Heaps
         /\ Unlink(h, i).avail = IF p = 0 THEN n ELSE h.avail
         /\ \A k \in Indices : Unlink(h, i).array[k]
                                 = IF n # 0 /\ k = n + 2 THEN p
                                   ELSE IF p # 0 /\ k = p + 1 THEN n ELSE h.array[k]
<1> DEFINE A == Store(h.array, p, p + 1, n)
           C == Store(A, n, n + 2, p)
           S == -Words .. Words
<1>1. Unlink(h, i) = [array |-> C, avail |-> IF p = 0 THEN n ELSE h.avail]
  BY DEF Unlink
<1>2. p \in S /\ n \in S /\ h.array \in [Indices -> S] /\ h.avail \in Indices
  BY WordsIs DEF Heaps, Indices
<1>3. /\ A \in [Indices -> S]
      /\ \A k \in Indices : A[k] = IF p # 0 /\ k = p + 1 THEN n ELSE h.array[k]
  BY <1>2 DEF Store
<1> HIDE DEF A
<1>4. /\ C \in [Indices -> S]
      /\ \A k \in Indices : C[k] = IF n # 0 /\ k = n + 2 THEN p ELSE A[k]
  BY <1>2, <1>3 DEF Store
<1> HIDE DEF C
<1> QED BY <1>1, <1>2, <1>3, <1>4 DEF Heaps

\* What makeAvail changes.
LEMMA MakeAvailIs ==
  ASSUME NEW h \in Heaps, NEW i \in Indices, NEW ints \in 4 .. Words, i + ints <= Words,
         h.avail # 0 => h.avail + 2 \in Indices
  PROVE  /\ MakeAvail(h, i, ints) \in Heaps
         /\ MakeAvail(h, i, ints).avail = i
         /\ \A k \in Indices : MakeAvail(h, i, ints).array[k]
                                 = IF h.avail # 0 /\ k = h.avail + 2 THEN i
                                   ELSE IF k = i + 2 THEN 0 ELSE IF k = i + 1 THEN h.avail
                                   ELSE IF k \in {i, i + ints - 1} THEN ints ELSE h.array[k]
<1> DEFINE A == FreeBlock(h, i, ints)
           C == Store(A, h.avail, h.avail + 2, i)
           S == -Words .. Words
<1>1. MakeAvail(h, i, ints) = [array |-> C, avail |-> i]
  BY DEF MakeAvail
<1>2. /\ i \in S /\ 0 \in S /\ h.avail \in S /\ ints \in S /\ h.array \in [Indices -> S]
      /\ i + 1 \in Indices /\ i + 2 \in Indices /\ i + ints - 1 \in Indices
  BY WordsIs DEF Heaps, Indices
<1>3. /\ A \in [Indices -> S]
      /\ \A k \in Indices : A[k] = IF k = i + 2 THEN 0 ELSE IF k = i + 1 THEN h.avail
                                   ELSE IF k \in {i, i + ints - 1} THEN ints ELSE h.array[k]
  BY <1>2 DEF FreeBlock, Indices
<1> HIDE DEF A
<1>4. /\ C \in [Indices -> S]
      /\ \A k \in Indices : C[k] = IF h.avail # 0 /\ k = h.avail + 2 THEN i ELSE A[k]
  BY <1>2, <1>3 DEF Store
<1> HIDE DEF C
<1> QED BY <1>1, <1>3, <1>4 DEF Heaps

-----------------------------------------------------------------------------
(* The list, as a rank that falls along it *)

\* n is what follows i in the list of the blocks of F in the order of falling r, p what
\* precedes it, and v its first; 0 is for none.
IsNext(F, r, i, n) ==
  IF n = 0 THEN \A j \in F : r[i] <= r[j]
  ELSE n \in F /\ r[n] < r[i] /\ \A j \in F : r[j] <= r[n] \/ r[i] <= r[j]

IsPrev(F, r, i, p) ==
  IF p = 0 THEN \A j \in F : r[j] <= r[i]
  ELSE p \in F /\ r[i] < r[p] /\ \A j \in F : r[j] <= r[i] \/ r[p] <= r[j]

IsFirst(F, r, v) == IF v = 0 THEN F = {} ELSE v \in F /\ \A j \in F : r[j] <= r[v]

\* The list of h is of the blocks of F, in the order of falling r.
Listed(h, F, r) ==
  /\ r \in [Indices -> Nat]
  /\ \A i, j \in F : r[i] = r[j] => i = j
  /\ IsFirst(F, r, h.avail)
  /\ \A i \in F : IsNext(F, r, i, NextOf(h, i)) /\ IsPrev(F, r, i, PrevOf(h, i))

\* Blocks of four words or more.
Spread(F) ==
  /\ \A i \in F : i \in Indices /\ i # 0 /\ i + 4 <= Words
  /\ \A i, j \in F : i < j => i + 4 <= j

\* The links of the blocks of F.
LinksOf(F) == UNION {{i + 1, i + 2} : i \in F}

\* A change elsewhere.
LEMMA ListKept ==
  ASSUME NEW h, NEW g, NEW F, NEW r, Listed(h, F, r), g.avail = h.avail,
         \A k \in LinksOf(F) : g.array[k] = h.array[k]
  PROVE  Listed(g, F, r)
<1>1. \A i \in F : NextOf(g, i) = NextOf(h, i) /\ PrevOf(g, i) = PrevOf(h, i)
  BY DEF NextOf, PrevOf, LinksOf
<1> QED BY <1>1 DEF Listed

\* remove takes the block out of the list, and changes links of other free blocks only.
LEMMA UnlinkListed ==
  ASSUME NEW h \in Heaps, NEW F, NEW r, Listed(h, F, r), Spread(F), NEW i \in F
  PROVE  /\ Unlink(h, i) \in Heaps
         /\ Listed(Unlink(h, i), F \ {i}, r)
         /\ \A k \in Indices \ LinksOf(F \ {i}) : Unlink(h, i).array[k] = h.array[k]
<1> DEFINE p == PrevOf(h, i)
           n == NextOf(h, i)
           g == Unlink(h, i)
           G == F \ {i}
<1>1. IsNext(F, r, i, n) /\ IsPrev(F, r, i, p) /\ IsFirst(F, r, h.avail) /\ r \in [Indices -> Nat]
  BY DEF Listed
<1>2. \A j \in F : j \in Indices /\ j # 0 /\ j + 1 \in Indices /\ j + 2 \in Indices /\ r[j] \in Nat
  BY <1>1, WordsIs DEF Spread, Indices
<1>3. /\ p \in Indices /\ n \in Indices
      /\ p # 0 => p \in G /\ p + 1 \in Indices
      /\ n # 0 => n \in G /\ n + 2 \in Indices
  BY <1>1, <1>2, WordsIs DEF IsNext, IsPrev
<1> HIDE DEF p, n
<1>4. /\ g \in Heaps
      /\ g.avail = IF p = 0 THEN n ELSE h.avail
      /\ \A k \in Indices : g.array[k] = IF n # 0 /\ k = n + 2 THEN p
                                         ELSE IF p # 0 /\ k = p + 1 THEN n ELSE h.array[k]
  BY <1>2, <1>3, UnlinkIs DEF p, n
<1> HIDE DEF g
<1>5. \A k \in Indices \ LinksOf(G) : g.array[k] = h.array[k]
  BY <1>3, <1>4 DEF LinksOf
<1>6. \A j \in G : /\ NextOf(g, j) = IF p # 0 /\ j = p THEN n ELSE NextOf(h, j)
                   /\ PrevOf(g, j) = IF n # 0 /\ j = n THEN p ELSE PrevOf(h, j)
  <2> TAKE j \in G
  <2>1. /\ n # 0 => j + 1 # n + 2
        /\ p # 0 => j + 2 # p + 1
    BY <1>2, <1>3 DEF Spread, Indices
  <2>2. /\ j + 2 = n + 2 <=> j = n
        /\ j + 1 = p + 1 <=> j = p
    BY <1>2, <1>3 DEF Indices
  <2> QED BY <1>2, <1>4, <2>1, <2>2 DEF NextOf, PrevOf
<1>7. \A a, b \in F : r[a] = r[b] => a = b
  BY DEF Listed
<1>8. IsFirst(G, r, g.avail)
  <2>1. CASE p = 0
    <3>1. \A j \in F : r[j] <= r[i]
      BY <1>1, <2>1 DEF IsPrev
    <3>2. CASE n = 0
      <4>1. \A j \in F : r[i] <= r[j]
        BY <1>1, <3>2 DEF IsNext
      <4>2. \A j \in F : j = i
        BY <1>2, <1>7, <3>1, <4>1
      <4> QED BY <1>4, <2>1, <3>2, <4>2 DEF IsFirst
    <3>3. CASE n # 0
      <4>1. n \in G /\ \A j \in F : r[j] <= r[n] \/ r[i] <= r[j]
        BY <1>1, <1>3, <3>3 DEF IsNext
      <4>2. \A j \in G : r[j] <= r[n]
        BY <1>2, <1>7, <3>1, <4>1
      <4> QED BY <1>4, <2>1, <3>3, <4>1, <4>2 DEF IsFirst
    <3> QED BY <3>2, <3>3
  <2>2. CASE p # 0
    <3>1. h.avail # 0 /\ h.avail \in F /\ \A j \in F : r[j] <= r[h.avail]
      BY <1>1, <1>3, <2>2 DEF IsFirst
    <3>2. r[i] < r[p] /\ p \in F
      BY <1>1, <2>2 DEF IsPrev
    <3>3. h.avail # i
      BY <1>2, <3>1, <3>2
    <3> QED BY <1>4, <2>2, <3>1, <3>3 DEF IsFirst
  <2> QED BY <2>1, <2>2
<1>9. ASSUME NEW j \in G PROVE IsNext(G, r, j, NextOf(g, j))
  <2>1. IsNext(F, r, j, NextOf(h, j)) /\ j \in F /\ j # i
    BY DEF Listed
  <2>2. CASE p # 0 /\ j = p
    <3>1. r[i] < r[p] /\ \A a \in F : r[a] <= r[i] \/ r[p] <= r[a]
      BY <1>1, <2>2 DEF IsPrev
    <3>2. NextOf(g, j) = n
      BY <1>6, <2>2
    <3>3. CASE n = 0
      BY <1>1, <1>2, <1>7, <2>2, <3>1, <3>2, <3>3 DEF IsNext
    <3>4. CASE n # 0
      <4>1. n \in G /\ r[n] < r[i] /\ \A a \in F : r[a] <= r[n] \/ r[i] <= r[a]
        BY <1>1, <1>3, <3>4 DEF IsNext
      <4>2. r[n] < r[p]
        BY <1>2, <2>2, <3>1, <4>1
      <4>3. ASSUME NEW a \in G PROVE r[a] <= r[n] \/ r[p] <= r[a]
        <5>1. r[a] # r[i] /\ r[a] \in Nat /\ r[i] \in Nat /\ r[p] \in Nat /\ r[n] \in Nat
          BY <1>2, <1>7, <2>2, <4>1
        <5> QED BY <3>1, <4>1, <5>1
      <4> QED BY <2>2, <3>2, <3>4, <4>1, <4>2, <4>3 DEF IsNext
    <3> QED BY <3>3, <3>4
  <2>3. CASE ~(p # 0 /\ j = p)
    <3>1. NextOf(g, j) = NextOf(h, j)
      BY <1>6, <2>3
    <3>2. NextOf(h, j) # i
      <4> SUFFICES ASSUME NextOf(h, j) = i PROVE FALSE
        OBVIOUS
      <4>1. r[i] < r[j] /\ \A a \in F : r[a] <= r[i] \/ r[j] <= r[a]
        BY <1>2, <2>1 DEF IsNext
      <4>2. p # 0 /\ p \in F /\ r[i] < r[p] /\ \A a \in F : r[a] <= r[i] \/ r[p] <= r[a]
        BY <1>1, <1>2, <2>1, <4>1 DEF IsPrev
      <4>3. r[p] = r[j]
        BY <1>2, <2>1, <4>1, <4>2
      <4> QED BY <1>7, <2>1, <2>3, <4>2, <4>3
    <3> QED BY <2>1, <3>1, <3>2 DEF IsNext
  <2> QED BY <2>2, <2>3
<1>10. ASSUME NEW j \in G PROVE IsPrev(G, r, j, PrevOf(g, j))
  <2>1. IsPrev(F, r, j, PrevOf(h, j)) /\ j \in F /\ j # i
    BY DEF Listed
  <2>2. CASE n # 0 /\ j = n
    <3>1. r[n] < r[i] /\ \A a \in F : r[a] <= r[n] \/ r[i] <= r[a]
      BY <1>1, <2>2 DEF IsNext
    <3>2. PrevOf(g, j) = p
      BY <1>6, <2>2
    <3>3. CASE p = 0
      BY <1>1, <1>2, <1>7, <2>2, <3>1, <3>2, <3>3 DEF IsPrev
    <3>4. CASE p # 0
      <4>1. p \in G /\ r[i] < r[p] /\ \A a \in F : r[a] <= r[i] \/ r[p] <= r[a]
        BY <1>1, <1>3, <3>4 DEF IsPrev
      <4>2. r[n] < r[p]
        BY <1>2, <2>2, <3>1, <4>1
      <4>3. ASSUME NEW a \in G PROVE r[a] <= r[n] \/ r[p] <= r[a]
        <5>1. r[a] # r[i] /\ r[a] \in Nat /\ r[i] \in Nat /\ r[p] \in Nat /\ r[n] \in Nat
          BY <1>2, <1>7, <2>2, <4>1
        <5> QED BY <3>1, <4>1, <5>1
      <4> QED BY <2>2, <3>2, <3>4, <4>1, <4>2, <4>3 DEF IsPrev
    <3> QED BY <3>3, <3>4
  <2>3. CASE ~(n # 0 /\ j = n)
    <3>1. PrevOf(g, j) = PrevOf(h, j)
      BY <1>6, <2>3
    <3>2. PrevOf(h, j) # i
      <4> SUFFICES ASSUME PrevOf(h, j) = i PROVE FALSE
        OBVIOUS
      <4>1. r[j] < r[i] /\ \A a \in F : r[a] <= r[j] \/ r[i] <= r[a]
        BY <1>2, <2>1 DEF IsPrev
      <4>2. n # 0 /\ n \in F /\ r[n] < r[i] /\ \A a \in F : r[a] <= r[n] \/ r[i] <= r[a]
        BY <1>1, <1>2, <2>1, <4>1 DEF IsNext
      <4>3. r[n] = r[j]
        BY <1>2, <2>1, <4>1, <4>2
      <4> QED BY <1>7, <2>1, <2>3, <4>2, <4>3
    <3> QED BY <2>1, <3>1, <3>2 DEF IsPrev
  <2> QED BY <2>2, <2>3
<1>11. Listed(g, G, r)
  BY <1>1, <1>7, <1>8, <1>9, <1>10 DEF Listed
<1> QED BY <1>4, <1>5, <1>11 DEF g

\* makeAvail puts a block that is not in the list at its front.
LEMMA PushListed ==
  ASSUME NEW h \in Heaps, NEW F, NEW r, Listed(h, F, r), NEW i \in Indices, i \notin F,
         NEW G, G = F \cup {i}, Spread(G), NEW ints \in 4 .. Words, i + ints <= Words,
         \A j \in F : i < j => i + ints <= j
  PROVE  /\ MakeAvail(h, i, ints) \in Heaps
         /\ \E s : Listed(MakeAvail(h, i, ints), G, s)
         /\ MakeAvail(h, i, ints).array[i] = ints
         /\ MakeAvail(h, i, ints).array[i + ints - 1] = ints
         /\ \A k \in Indices \ LinksOf(G) :
              k # i /\ k # i + ints - 1 => MakeAvail(h, i, ints).array[k] = h.array[k]
<1> DEFINE v == h.avail
           g == MakeAvail(h, i, ints)
           s == [r EXCEPT ![i] = IF v = 0 THEN 0 ELSE r[v] + 1]
<1>1. IsFirst(F, r, v) /\ r \in [Indices -> Nat] /\ i \in Nat /\ ints \in Nat
  BY DEF Listed, Indices
<1>2. \A j \in G : j \in Indices /\ j # 0 /\ j + 1 \in Indices /\ j + 2 \in Indices /\ r[j] \in Nat
  <2>1. \A j \in G : j \in Indices /\ j # 0 /\ j + 4 <= Words
    BY DEF Spread
  <2> TAKE j \in G
  <2>2. j \in Indices /\ j # 0 /\ j + 4 <= Words
    BY <2>1
  <2>3. j \in Nat /\ Words \in Nat
    BY <2>2, WordsIs DEF Indices
  <2>4. j + 1 \in Indices /\ j + 2 \in Indices
    BY <2>2, <2>3 DEF Indices
  <2> QED BY <1>1, <2>2, <2>4
<1>3. v # 0 => v \in F /\ v + 2 \in Indices
  BY <1>1, <1>2 DEF IsFirst
<1>4. /\ g \in Heaps /\ g.avail = i
      /\ \A k \in Indices : g.array[k] = IF v # 0 /\ k = v + 2 THEN i
                                         ELSE IF k = i + 2 THEN 0 ELSE IF k = i + 1 THEN v
                                         ELSE IF k \in {i, i + ints - 1} THEN ints ELSE h.array[k]
  BY <1>3, MakeAvailIs
<1> HIDE DEF g
<1>5. i + ints - 1 \in Indices /\ i + ints - 1 # i + 1 /\ i + ints - 1 # i + 2
  BY <1>1, WordsIs DEF Indices
<1>6. v # 0 => v + 2 # i /\ v + 2 # i + ints - 1 /\ v + 2 # i + 1
  <2> SUFFICES ASSUME v # 0 PROVE v + 2 # i /\ v + 2 # i + ints - 1 /\ v + 2 # i + 1
    OBVIOUS
  <2>1. v \in Nat /\ v # i /\ v \in F
    BY <1>2, <1>3 DEF Indices
  <2>2. v < i => v + 4 <= i
    BY <2>1 DEF Spread
  <2>3. i < v => i + ints <= v
    BY <2>1
  <2> QED BY <1>1, <2>1, <2>2, <2>3
<1>7. /\ g.array[i] = ints /\ g.array[i + ints - 1] = ints
  BY <1>1, <1>4, <1>5, <1>6
<1>8. ASSUME NEW k \in Indices \ LinksOf(G), k # i, k # i + ints - 1
      PROVE  g.array[k] = h.array[k]
  <2>1. k # i + 1 /\ k # i + 2 /\ (v # 0 => k # v + 2)
    BY <1>3, <1>8 DEF LinksOf
  <2> QED BY <1>4, <1>8, <2>1
<1>9. ASSUME NEW j \in F
      PROVE  NextOf(g, j) = NextOf(h, j) /\ PrevOf(g, j) = IF j = v THEN i ELSE PrevOf(h, j)
  <2>1. j \in Nat /\ j # i /\ j \in G /\ v \in Nat
    BY <1>2 DEF Indices, Heaps
  <2>2. /\ j < i => j + 4 <= i
        /\ i < j => i + ints <= j /\ i + 4 <= j
        /\ v # 0 /\ j < v => j + 4 <= v
        /\ v # 0 /\ v < j => v + 4 <= j
    BY <1>3, <2>1 DEF Spread
  <2>3. /\ j + 1 \notin {i, i + 1, i + 2, i + ints - 1} /\ (v # 0 => j + 1 # v + 2)
        /\ j + 2 \notin {i, i + 1, i + 2, i + ints - 1} /\ (v # 0 => (j + 2 = v + 2 <=> j = v))
    BY <1>1, <2>1, <2>2
  <2>4. v = 0 => j # v
    BY <1>2
  <2> QED BY <1>2, <1>4, <2>3, <2>4 DEF NextOf, PrevOf
<1>10. NextOf(g, i) = v /\ PrevOf(g, i) = 0
  <2>1. (v # 0 => i + 1 # v + 2 /\ i + 2 # v + 2) /\ i + 1 # i + 2
    BY <1>1, <1>2, <1>3, <1>6 DEF Indices
  <2> QED BY <1>2, <1>4, <2>1 DEF NextOf, PrevOf
<1>11. /\ s \in [Indices -> Nat]
       /\ \A j \in F : s[j] = r[j] /\ s[j] \in Nat /\ s[j] < s[i]
       /\ s[i] \in Nat
  BY <1>1, <1>2, <1>3 DEF IsFirst
<1> HIDE DEF s
<1>12. \A a, b \in F : r[a] = r[b] => a = b
  BY DEF Listed
<1>13. \A a, b \in G : s[a] = s[b] => a = b
  BY <1>11, <1>12
<1>14. IsFirst(G, s, g.avail)
  BY <1>2, <1>4, <1>11 DEF IsFirst
<1>15. ASSUME NEW j \in F
       PROVE  IsNext(G, s, j, NextOf(g, j)) /\ IsPrev(G, s, j, PrevOf(g, j))
  <2>1. IsNext(F, r, j, NextOf(h, j)) /\ IsPrev(F, r, j, PrevOf(h, j))
    BY DEF Listed
  <2>2. IsNext(G, s, j, NextOf(g, j))
    BY <1>9, <1>11, <2>1 DEF IsNext
  <2>3. CASE j = v
    <3>1. PrevOf(g, j) = i /\ i # 0 /\ \A a \in F : s[a] <= s[j]
      BY <1>1, <1>2, <1>3, <1>9, <1>11, <2>3 DEF IsFirst
    <3> QED BY <1>11, <2>2, <3>1 DEF IsPrev
  <2>4. CASE j # v
    <3>1. PrevOf(g, j) = PrevOf(h, j)
      BY <1>9, <2>4
    <3>2. v # 0 /\ v \in F /\ \A a \in F : r[a] <= r[v]
      BY <1>1 DEF IsFirst
    <3>3. r[j] < r[v]
      BY <1>2, <1>12, <2>4, <3>2
    <3>4. PrevOf(h, j) # 0
      BY <1>2, <2>1, <3>2, <3>3 DEF IsPrev
    <3> QED BY <1>11, <2>1, <2>2, <3>1, <3>4 DEF IsPrev
  <2> QED BY <2>3, <2>4
<1>16. IsNext(G, s, i, NextOf(g, i)) /\ IsPrev(G, s, i, PrevOf(g, i))
  <2>1. IsPrev(G, s, i, 0)
    BY <1>11 DEF IsPrev
  <2>2. IsNext(G, s, i, v)
    BY <1>1, <1>11 DEF IsNext, IsFirst
  <2> QED BY <1>10, <2>1, <2>2
<1>17. Listed(g, G, s)
  BY <1>11, <1>13, <1>14, <1>15, <1>16 DEF Listed
<1> QED BY <1>4, <1>7, <1>8, <1>17 DEF g

-----------------------------------------------------------------------------
(* The blocks, as the set of their headers *)

\* B are the headers of blocks that fill the array, with a size at either end.
Tiled(h, B) ==
  /\ B \subseteq 0 .. Edge /\ 0 \in B /\ Edge \in B
  /\ h.array[0] = -2 /\ h.array[Edge] = -2
  /\ \A i \in B : /\ i # Edge => Right(h, i) \in B
                  /\ i # 0 /\ i # Edge => Size(h, i) >= 4
                  /\ h.array[Right(h, i) - 1] = h.array[i]
                  /\ \A j \in B : i < j => Right(h, i) <= j

FreeOf(h, B)  == {i \in B : h.array[i] > 0}
TakenOf(h, B) == {i \in B : h.array[i] < 0}

\* The blocks between the ends.
Inner(B) == B \ {0, Edge}

CellsOf(h, i) == i .. i + Size(h, i) - 1

\* free leaves no free block next to another one.
NoTwoFree(h, B) == \A i \in FreeOf(h, B) : Right(h, i) \notin FreeOf(h, B)

\* The size of a block is what its tag says, without the sign.
LEMMA SizeIs ==
  ASSUME NEW h \in Heaps, NEW i \in Indices
  PROVE  /\ h.array[i] \in Int /\ Size(h, i) \in Nat
         /\ Size(h, i) = IF h.array[i] < 0 THEN -h.array[i] ELSE h.array[i]
<1>1. h.array[i] \in Int
  BY WordsIs DEF Heaps
<1> QED BY <1>1 DEF Size

\* The sizes of blocks are numbers, and no block reaches into the right end.
LEMMA TileFacts ==
  ASSUME NEW h \in Heaps, NEW B, Tiled(h, B), NEW i \in B
  PROVE  /\ i \in Nat /\ i <= Edge /\ i \in Indices /\ Edge \in Nat
         /\ h.array[i] \in Int /\ Size(h, i) \in Nat /\ Size(h, i) >= 2
         /\ Size(h, i) = IF h.array[i] < 0 THEN -h.array[i] ELSE h.array[i]
         /\ Right(h, i) = i + Size(h, i) /\ Right(h, i) \in Nat /\ Right(h, i) - 1 \in Indices
         /\ i # Edge => Right(h, i) <= Edge
         /\ i \in {0, Edge} => h.array[i] = -2 /\ Size(h, i) = 2
         /\ i \in Inner(B) => 2 <= i /\ Size(h, i) >= 4 /\ i + 4 <= Edge
<1>1. /\ i \in Nat /\ i <= Edge /\ i \in Indices /\ Edge \in Nat /\ Edge = Words - 2 /\ Words \in Nat
      /\ h.array[i] \in Int
  BY WordsIs DEF Tiled, Indices, Edge, Heaps
<1>2. Size(h, i) \in Nat /\ Size(h, i) = IF h.array[i] < 0 THEN -h.array[i] ELSE h.array[i]
  BY <1>1, SizeIs
<1>3. i \in {0, Edge} => h.array[i] = -2 /\ Size(h, i) = 2
  BY <1>2 DEF Tiled
<1>4. i \notin {0, Edge} => Size(h, i) >= 4
  BY DEF Tiled
<1>5. Right(h, i) = i + Size(h, i)
  BY DEF Right
<1>6. i # Edge => Right(h, i) <= Edge /\ Right(h, i) \in Nat
  <2>1. i # Edge => Right(h, i) \in 0 .. Edge
    BY DEF Tiled
  <2> QED BY <1>1, <2>1
<1>7. i # 0 => 2 <= i
  <2>1. 0 \in B /\ Right(h, 0) = 2
    <3>1. 0 \in B /\ h.array[0] = -2
      BY DEF Tiled
    <3>2. Size(h, 0) = 2
      BY <3>1, SizeIs, WordsIs
    <3> QED BY <3>1, <3>2 DEF Right
  <2> QED BY <1>1, <2>1 DEF Tiled
<1>8. Right(h, i) - 1 \in Indices
  <2>1. CASE i = Edge
    BY <1>1, <1>3, <1>5, <2>1 DEF Indices
  <2>2. CASE i # Edge
    BY <1>1, <1>2, <1>3, <1>4, <1>5, <1>6, <2>2 DEF Indices
  <2> QED BY <2>1, <2>2
<1> QED BY <1>1, <1>2, <1>3, <1>4, <1>5, <1>6, <1>7, <1>8 DEF Inner

\* What is free is between the ends, and every block is free or taken.
LEMMA FreeFacts ==
  ASSUME NEW h \in Heaps, NEW B, Tiled(h, B)
  PROVE  /\ FreeOf(h, B) \subseteq Inner(B)
         /\ TakenOf(h, B) = B \ FreeOf(h, B)
         /\ {0, Edge} \subseteq TakenOf(h, B)
         /\ FreeOf(h, B) = {i \in B : IsAvail(h, i)}
<1>1. \A i \in B : h.array[i] \in Int /\ (i \in {0, Edge} => h.array[i] = -2) /\ h.array[i] # 0
  <2> TAKE i \in B
  <2>1. h.array[i] \in Int /\ (i \in {0, Edge} => h.array[i] = -2)
    BY TileFacts
  <2>2. Size(h, i) \in Nat /\ Size(h, i) >= 2
        /\ Size(h, i) = IF h.array[i] < 0 THEN -h.array[i] ELSE h.array[i]
    BY TileFacts
  <2> QED BY <2>1, <2>2
<1>2. 0 \in B /\ Edge \in B
  BY DEF Tiled
<1> QED BY <1>1, <1>2 DEF FreeOf, TakenOf, Inner, IsAvail

\* Blocks between the ends are four words apart.
LEMMA InnerSpread ==
  ASSUME NEW h \in Heaps, NEW B, Tiled(h, B), NEW F, F \subseteq Inner(B)
  PROVE  Spread(F)
<1>1. ASSUME NEW i \in F PROVE i \in Indices /\ i # 0 /\ i + 4 <= Words
  <2>1. i \in B /\ i \in Inner(B)
    BY DEF Inner
  <2>2. i \in Nat /\ i \in Indices /\ 2 <= i /\ i + 4 <= Edge
    BY <2>1, TileFacts
  <2> QED BY <2>2, WordsIs DEF Edge
<1>2. ASSUME NEW i \in F, NEW j \in F, i < j PROVE i + 4 <= j
  <2>1. i \in B /\ j \in B /\ i \in Inner(B)
    BY DEF Inner
  <2>2. i \in Nat /\ j \in Nat /\ Size(h, i) \in Nat /\ Size(h, i) >= 4 /\ Right(h, i) = i + Size(h, i)
    BY <2>1, TileFacts
  <2>3. Right(h, i) <= j
    BY <1>2, <2>1 DEF Tiled
  <2> QED BY <2>2, <2>3
<1> QED BY <1>1, <1>2 DEF Spread

\* Blocks have no cell in common.
LEMMA CellsApart ==
  ASSUME NEW h \in Heaps, NEW B, Tiled(h, B), NEW i \in B, NEW j \in B, i # j,
         NEW k \in CellsOf(h, i)
  PROVE  k \notin CellsOf(h, j) /\ k \in Indices
<1>1. /\ i \in Nat /\ Size(h, i) \in Nat /\ Right(h, i) = i + Size(h, i)
      /\ j \in Nat /\ Size(h, j) \in Nat /\ Right(h, j) = j + Size(h, j)
      /\ Right(h, i) - 1 \in Indices
  BY TileFacts
<1>2. (i < j => Right(h, i) <= j) /\ (j < i => Right(h, j) <= i)
  BY DEF Tiled
<1>3. k \notin CellsOf(h, j)
  BY <1>1, <1>2 DEF CellsOf
<1>4. k \in Indices
  BY <1>1, WordsIs DEF CellsOf, Indices
<1> QED BY <1>3, <1>4

\* The first and the last cell of a block are its own, and so are the links; these
\* are neither of those.
LEMMA CellsAre ==
  ASSUME NEW h \in Heaps, NEW B, Tiled(h, B), NEW i \in B
  PROVE  /\ i \in CellsOf(h, i) /\ Right(h, i) - 1 \in CellsOf(h, i)
         /\ i \in Inner(B) => /\ i + 1 \in CellsOf(h, i) /\ i + 2 \in CellsOf(h, i)
                              /\ {i + 1, i + 2} \cap {i, Right(h, i) - 1} = {}
<1>1. /\ i \in Nat /\ Size(h, i) \in Nat /\ Right(h, i) = i + Size(h, i) /\ Size(h, i) >= 2
      /\ i \in Inner(B) => Size(h, i) >= 4
  BY TileFacts
<1> QED BY <1>1 DEF CellsOf

\* So no tag of a block is a link of one, and no cell of a block is a link of another.
LEMMA LinksApart ==
  ASSUME NEW h \in Heaps, NEW B, Tiled(h, B), NEW i \in B, NEW F, F \subseteq Inner(B)
  PROVE  /\ i \notin LinksOf(F) /\ Right(h, i) - 1 \notin LinksOf(F)
         /\ i \notin F => \A k \in CellsOf(h, i) : k \notin LinksOf(F)
<1>1. ASSUME NEW j \in F, j # i, NEW k \in CellsOf(h, i) PROVE k \notin {j + 1, j + 2}
  <2>1. j \in B /\ j \in Inner(B)
    BY DEF Inner
  <2>2. j + 1 \in CellsOf(h, j) /\ j + 2 \in CellsOf(h, j)
    BY <2>1, CellsAre
  <2>3. k \notin CellsOf(h, j)
    BY <1>1, <2>1, CellsApart
  <2> QED BY <2>2, <2>3
<1>2. i \in CellsOf(h, i) /\ Right(h, i) - 1 \in CellsOf(h, i)
      /\ (i \in F => {i + 1, i + 2} \cap {i, Right(h, i) - 1} = {})
  BY CellsAre
<1> QED BY <1>1, <1>2 DEF LinksOf

\* The blocks between i and e are replaced by those of N.
LEMMA Retile ==
  ASSUME NEW h \in Heaps, NEW g \in Heaps, NEW B, Tiled(h, B), NEW i \in B, NEW e \in B, i # 0, i < e,
         NEW N \in SUBSET (i .. e - 1), i \in N,
         \A j \in N : /\ Size(g, j) >= 4 /\ Right(g, j) \in N \cup {e}
                      /\ g.array[Right(g, j) - 1] = g.array[j]
                      /\ \A k \in N : j < k => Right(g, j) <= k,
         \A k \in B : k \notin i .. e - 1 =>
           g.array[k] = h.array[k] /\ g.array[Right(h, k) - 1] = h.array[Right(h, k) - 1]
  PROVE  Tiled(g, (B \ (i .. e - 1)) \cup N)
<1> DEFINE O == B \ (i .. e - 1)
           C == O \cup N
<1>1. i \in Nat /\ e \in Nat /\ i >= 2 /\ e <= Edge /\ Edge \in Nat
  <2>1. i # Edge
    <3>1. i \in Nat /\ e \in Nat /\ e <= Edge /\ Edge \in Nat
      BY TileFacts
    <3> QED BY <3>1
  <2>2. i \in Inner(B)
    BY <2>1 DEF Inner
  <2>3. i \in Nat /\ 2 <= i
    BY <2>2, TileFacts
  <2>4. e \in Nat /\ e <= Edge /\ Edge \in Nat
    BY TileFacts
  <2> QED BY <2>3, <2>4
<1>2. ASSUME NEW k \in O
      PROVE  /\ k \in B /\ k \in Nat /\ (k < i \/ e <= k)
             /\ g.array[k] = h.array[k] /\ Size(g, k) = Size(h, k) /\ Right(g, k) = Right(h, k)
             /\ g.array[Right(g, k) - 1] = g.array[k]
  <2>1. k \in B /\ k \in Nat /\ (k < i \/ e <= k)
    <3>1. k \in B /\ k \in Nat
      BY TileFacts
    <3> QED BY <1>1, <3>1
  <2>2. g.array[k] = h.array[k] /\ g.array[Right(h, k) - 1] = h.array[Right(h, k) - 1]
    BY <2>1
  <2>3. Size(g, k) = Size(h, k) /\ Right(g, k) = Right(h, k)
    BY <2>2 DEF Size, Right
  <2>4. h.array[Right(h, k) - 1] = h.array[k]
    BY <2>1 DEF Tiled
  <2> QED BY <2>1, <2>2, <2>3, <2>4
<1>3. \A j \in N : j \in Nat /\ i <= j /\ j < e
  BY <1>1
<1>4. C \subseteq 0 .. Edge /\ 0 \in O /\ Edge \in O
  <2>1. B \subseteq 0 .. Edge /\ 0 \in B /\ Edge \in B
    BY DEF Tiled
  <2> QED BY <1>1, <1>3, <2>1
<1>5. g.array[0] = -2 /\ g.array[Edge] = -2
  BY <1>2, <1>4 DEF Tiled
<1>6. ASSUME NEW k \in O, NEW l \in C
      PROVE  /\ k # Edge => Right(g, k) \in C
             /\ k # 0 /\ k # Edge => Size(g, k) >= 4
             /\ k < l => Right(g, k) <= l
  <2>1. /\ k # Edge => Right(h, k) \in B
        /\ k # 0 /\ k # Edge => Size(h, k) >= 4
        /\ \A j \in B : k < j => Right(h, k) <= j
    BY <1>2 DEF Tiled
  <2>2. Right(h, k) \in Nat /\ k < Right(h, k)
    BY <1>2, TileFacts
  <2>3. k < i => Right(h, k) <= i
    BY <2>1
  <2>4. k # Edge => Right(h, k) \in C
    <3>1. CASE k < i
      BY <1>1, <2>1, <2>2, <2>3, <3>1
    <3>2. CASE e <= k
      BY <1>1, <1>2, <2>1, <2>2, <3>2
    <3> QED BY <1>2, <3>1, <3>2
  <2>5. k < l => Right(h, k) <= l
    <3>1. CASE l \in O
      BY <2>1, <3>1
    <3>2. CASE l \in N
      BY <1>1, <1>2, <1>3, <2>2, <2>3, <3>2
    <3> QED BY <3>1, <3>2
  <2> QED BY <1>2, <2>1, <2>4, <2>5
<1>7. ASSUME NEW j \in N, NEW l \in C
      PROVE  /\ Right(g, j) \in C /\ Size(g, j) >= 4 /\ g.array[Right(g, j) - 1] = g.array[j]
             /\ j < l => Right(g, j) <= l
  <2>1. Right(g, j) \in N \cup {e} /\ e \in O
    BY <1>1
  <2>2. Right(g, j) \in Nat /\ Right(g, j) <= e
    <3>1. CASE Right(g, j) = e
      BY <1>1, <3>1
    <3>2. CASE Right(g, j) \in N
      <4>1. Right(g, j) \in i .. e - 1
        BY <3>2
      <4> QED BY <1>1, <4>1
    <3> QED BY <2>1, <3>1, <3>2
  <2>3. l \in O /\ j < l => e <= l
    BY <1>1, <1>2, <1>3
  <2>4. l \in O => l \in Nat
    BY <1>2
  <2>5. /\ Size(g, j) >= 4 /\ g.array[Right(g, j) - 1] = g.array[j]
        /\ l \in N /\ j < l => Right(g, j) <= l
    OBVIOUS
  <2>6. l \in O /\ j < l => Right(g, j) <= l
    BY <1>1, <2>2, <2>3, <2>4
  <2> QED BY <2>1, <2>5, <2>6
<1>8. \A k \in O : g.array[Right(g, k) - 1] = g.array[k]
  BY <1>2
<1> HIDE DEF O
<1>9. Tiled(g, C)
  BY <1>4, <1>5, <1>6, <1>7, <1>8 DEF Tiled
<1> QED BY <1>9 DEF O

\* A header that is not the first one has a block on its left, which Left finds.
LEMMA LeftIs ==
  ASSUME NEW h \in Heaps, NEW B, Tiled(h, B), NEW i \in B, i # 0
  PROVE  Left(h, i) \in B /\ Right(h, Left(h, i)) = i /\ Left(h, i) < i
<1>1. i \in Nat /\ i <= Edge /\ Edge \in Nat
  BY TileFacts
<1> DEFINE S == {j \in B : j < i}
<1>2. S \subseteq 0 .. Edge /\ S # {}
  <2>1. 0 \in S
    BY <1>1 DEF Tiled
  <2>2. \A j \in S : j \in 0 .. Edge
    BY DEF Tiled
  <2> QED BY <2>1, <2>2
<1>3. PICK l \in S : \A j \in S : j <= l
  BY <1>1, <1>2, GreatestOf
<1>4. /\ l \in B /\ l \in Nat /\ l < i /\ l # Edge /\ Size(h, l) \in Nat /\ Size(h, l) >= 2
      /\ Right(h, l) = l + Size(h, l)
  BY <1>1, TileFacts
<1>5. Right(h, l) \in B /\ Right(h, l) <= i /\ h.array[Right(h, l) - 1] = h.array[l]
  BY <1>1, <1>4 DEF Tiled
<1>6. Right(h, l) = i
  <2>1. ~(Right(h, l) < i)
    BY <1>3, <1>4, <1>5
  <2> QED BY <1>1, <1>4, <1>5, <2>1
<1>7. Size(h, i - 1) = Size(h, l)
  BY <1>5, <1>6 DEF Size
<1>8. Left(h, i) = l
  BY <1>1, <1>4, <1>6, <1>7 DEF Left
<1> QED BY <1>4, <1>6, <1>8

-----------------------------------------------------------------------------
(* malloc: the heap after it *)

\* The heap is made of the blocks at B, its free ones are in the list in the order of
\* falling r, and no two of them are neighbours.
Shape(h, B, r) ==
  /\ h \in Heaps
  /\ Tiled(h, B)
  /\ Listed(h, FreeOf(h, B), r)
  /\ NoTwoFree(h, B)

\* The blocks T of h have the same contents in g, tags included.
SameCells(h, g, T) == \A t \in T : \A k \in CellsOf(h, t) : g.array[k] = h.array[k]

\* The tags of the blocks T of h are the same in g.
SameTags(h, g, T) ==
  \A t \in T : g.array[t] = h.array[t] /\ g.array[Right(h, t) - 1] = h.array[Right(h, t) - 1]

\* Fewer blocks have fewer links.
LEMMA LinksSubset == ASSUME NEW F, NEW G, F \subseteq G PROVE LinksOf(F) \subseteq LinksOf(G)
BY DEF LinksOf

\* No header is within another block.
LEMMA NoneWithin ==
  ASSUME NEW h \in Heaps, NEW B, Tiled(h, B), NEW i \in B
  PROVE  \A j \in B : j \in i .. Right(h, i) - 1 <=> j = i
<1> TAKE j \in B
<1>1. /\ i \in Nat /\ j \in Nat /\ Size(h, i) \in Nat /\ Size(h, i) >= 2
      /\ Right(h, i) = i + Size(h, i)
  BY TileFacts
<1>2. i < j => Right(h, i) <= j
  BY DEF Tiled
<1> QED BY <1>1, <1>2

\* A change of cells that are links of F, or in block i, changes nothing of the tags of
\* other blocks, nor of the blocks that are not in F.
LEMMA OthersSame ==
  ASSUME NEW h \in Heaps, NEW g \in Heaps, NEW B, Tiled(h, B), NEW i \in B,
         NEW F, F \subseteq Inner(B),
         \A k \in Indices \ LinksOf(F) : k \notin CellsOf(h, i) => g.array[k] = h.array[k]
  PROVE  SameTags(h, g, B \ {i}) /\ SameCells(h, g, (B \ F) \ {i})
<1>1. ASSUME NEW b \in B, b # i
      PROVE  g.array[b] = h.array[b] /\ g.array[Right(h, b) - 1] = h.array[Right(h, b) - 1]
  <2>1. b \in CellsOf(h, b) /\ Right(h, b) - 1 \in CellsOf(h, b)
    BY CellsAre
  <2>2. b \notin LinksOf(F) /\ Right(h, b) - 1 \notin LinksOf(F)
    BY LinksApart
  <2>3. /\ b \in Indices /\ b \notin CellsOf(h, i)
        /\ Right(h, b) - 1 \in Indices /\ Right(h, b) - 1 \notin CellsOf(h, i)
    BY <1>1, <2>1, CellsApart
  <2> QED BY <2>2, <2>3
<1>2. ASSUME NEW b \in B \ F, b # i, NEW k \in CellsOf(h, b) PROVE g.array[k] = h.array[k]
  <2>1. k \notin LinksOf(F)
    BY LinksApart
  <2>2. k \in Indices /\ k \notin CellsOf(h, i)
    BY <1>2, CellsApart
  <2> QED BY <2>1, <2>2
<1> QED BY <1>1, <1>2 DEF SameTags, SameCells

\* What blocks are, given their tags.
LEMMA SameTagsAre ==
  ASSUME NEW h, NEW g, NEW T, SameTags(h, g, T), NEW t \in T
  PROVE  Size(g, t) = Size(h, t) /\ Right(g, t) = Right(h, t) /\ CellsOf(g, t) = CellsOf(h, t)
BY DEF SameTags, Size, Right, CellsOf

\* malloc: the block that was found is taken, of the size that was asked for or a little more.
LEMMA CarveWhole ==
  ASSUME NEW h, NEW B, NEW r, Shape(h, B, r), NEW i \in FreeOf(h, B)
  PROVE  LET g == MakeTaken(Unlink(h, i), i, Size(h, i)) IN
         /\ Shape(g, B, r) /\ FreeOf(g, B) = FreeOf(h, B) \ {i}
         /\ Size(g, i) = Size(h, i)
         /\ SameCells(h, g, TakenOf(h, B))
<1> DEFINE F == FreeOf(h, B)
           G == F \ {i}
           e == Right(h, i)
           s == Size(h, i)
           u == Unlink(h, i)
           g == MakeTaken(u, i, s)
<1>1. h \in Heaps /\ Tiled(h, B) /\ Listed(h, F, r) /\ NoTwoFree(h, B)
  BY DEF Shape
<1>2. F \subseteq Inner(B) /\ i \in B /\ i \in Inner(B) /\ G \subseteq Inner(B) /\ i \notin G
  BY <1>1, FreeFacts DEF Inner
<1>3. /\ i \in Nat /\ i \in Indices /\ s \in Nat /\ s >= 4 /\ e = i + s /\ e - 1 \in Indices /\ s = h.array[i]
      /\ i # 0 /\ i # Edge
  <2>1. /\ i \in Nat /\ i \in Indices /\ s \in Nat /\ s >= 4 /\ e = i + s /\ e - 1 \in Indices
        /\ s = IF h.array[i] < 0 THEN -h.array[i] ELSE h.array[i]
        /\ h.array[i] \in Int
    BY <1>1, <1>2, TileFacts
  <2>2. h.array[i] > 0
    BY DEF FreeOf
  <2> QED BY <1>2, <2>1, <2>2 DEF Inner
<1>4. e \in B /\ h.array[e - 1] = h.array[i]
  BY <1>1, <1>2, <1>3 DEF Tiled
<1>5. /\ u \in Heaps /\ Listed(u, G, r)
      /\ \A k \in Indices \ LinksOf(G) : u.array[k] = h.array[k]
  <2>1. Spread(F)
    BY <1>1, <1>2, InnerSpread
  <2> QED BY <1>1, <2>1, UnlinkListed
<1> HIDE DEF u
<1>6. /\ g \in Heaps /\ g.avail = u.avail
      /\ \A k \in Indices : g.array[k] = IF k \in {i, i + s - 1} THEN -s ELSE u.array[k]
  <2>1. s \in 1 .. Words /\ i + s - 1 \in Indices
    BY <1>3, WordsIs DEF Indices
  <2> HIDE DEF s
  <2>2. u \in Heaps /\ i \in Indices
    BY <1>3, <1>5
  <2> QED BY <2>1, <2>2, MakeTakenIs
<1> HIDE DEF g
<1>7. i \in CellsOf(h, i) /\ e - 1 \in CellsOf(h, i) /\ CellsOf(h, i) = i .. e - 1
  BY <1>3 DEF CellsOf
<1>8. \A k \in Indices \ LinksOf(G) : k \notin CellsOf(h, i) => g.array[k] = h.array[k]
  <2> TAKE k \in Indices \ LinksOf(G)
  <2>1. i + s - 1 = e - 1
    BY <1>3
  <2> QED BY <1>5, <1>6, <1>7, <2>1
<1>9. SameTags(h, g, B \ {i}) /\ SameCells(h, g, (B \ G) \ {i})
  BY <1>1, <1>2, <1>6, <1>8, OthersSame
<1>10. Listed(g, G, r)
  <2>1. \A k \in LinksOf(G) : k \in Indices /\ g.array[k] = u.array[k]
    <3> TAKE k \in LinksOf(G)
    <3>1. k # i /\ k # i + s - 1
      BY <1>1, <1>2, <1>3, LinksApart
    <3>2. k \in Indices
      <4>1. PICK j \in G : k \in {j + 1, j + 2}
        BY DEF LinksOf
      <4>2. j \in B /\ j \in Inner(B)
        BY <1>2 DEF Inner
      <4>3. j + 1 \in CellsOf(h, j) /\ j + 2 \in CellsOf(h, j) /\ i # j
        BY <1>1, <1>2, <4>2, CellsAre
      <4> QED BY <1>1, <1>2, <4>1, <4>2, <4>3, CellsApart
    <3> QED BY <1>6, <3>1, <3>2
  <2> QED BY <1>5, <1>6, <2>1, ListKept
<1>11. /\ g.array[i] = -s /\ g.array[e - 1] = -s /\ Size(g, i) = s /\ Right(g, i) = e
  <2>1. g.array[i] = -s /\ g.array[e - 1] = -s
    BY <1>3, <1>6
  <2>2. Size(g, i) = s
    BY <1>3, <1>6, <2>1, SizeIs
  <2> QED BY <1>3, <2>1, <2>2 DEF Right
<1>12. Tiled(g, B)
  <2> DEFINE N == {i}
  <2>1. N \in SUBSET (i .. e - 1) /\ i \in N /\ i < e
    BY <1>3, <1>4
  <2>2. \A j \in N : /\ Size(g, j) >= 4 /\ Right(g, j) \in N \cup {e}
                     /\ g.array[Right(g, j) - 1] = g.array[j]
                     /\ \A k \in N : j < k => Right(g, j) <= k
    BY <1>3, <1>11
  <2>3. \A k \in B : k \notin i .. e - 1 =>
           g.array[k] = h.array[k] /\ g.array[Right(h, k) - 1] = h.array[Right(h, k) - 1]
    BY <1>7, <1>9 DEF SameTags
  <2>4. (B \ (i .. e - 1)) \cup N = B
    BY <1>1, <1>2, NoneWithin
  <2> HIDE DEF N
  <2>5. Tiled(g, (B \ (i .. e - 1)) \cup N)
    BY <1>1, <1>2, <1>3, <1>4, <1>6, <2>1, <2>2, <2>3, Retile
  <2> QED BY <2>4, <2>5
<1>13. FreeOf(g, B) = G
  <2>1. ~(g.array[i] > 0)
    BY <1>3, <1>11
  <2>2. \A j \in B : j # i => g.array[j] = h.array[j]
    BY <1>9 DEF SameTags
  <2> QED BY <2>1, <2>2 DEF FreeOf
<1>14. NoTwoFree(g, B)
  <2>1. \A j \in G : j \in F /\ j \in B \ {i} /\ Right(g, j) = Right(h, j)
    BY <1>9, SameTagsAre DEF FreeOf
  <2> QED BY <1>1, <1>13, <2>1 DEF NoTwoFree
<1>15. SameCells(h, g, TakenOf(h, B))
  BY <1>1, <1>2, <1>9, FreeFacts DEF SameCells
<1> QED BY <1>6, <1>10, <1>11, <1>12, <1>13, <1>14, <1>15 DEF Shape, g, u

\* The links of blocks are words of the array.
LEMMA LinksIn ==
  ASSUME NEW h \in Heaps, NEW B, Tiled(h, B), NEW F, F \subseteq Inner(B)
  PROVE  LinksOf(F) \subseteq Indices
<1>1. ASSUME NEW j \in F PROVE j + 1 \in Indices /\ j + 2 \in Indices
  <2>1. j \in B /\ j \in Inner(B)
    BY DEF Inner
  <2>2. j \in Nat /\ j + 4 <= Edge
    BY <2>1, TileFacts
  <2> QED BY <2>2, WordsIs DEF Indices, Edge
<1> QED BY <1>1 DEF LinksOf

\* malloc: the rest of the block is large enough to be a free block.
LEMMA CarveSplit ==
  ASSUME NEW h, NEW B, NEW r, Shape(h, B, r), NEW i \in FreeOf(h, B),
         NEW ints \in Nat, ints >= 4, Size(h, i) >= ints + 4
  PROVE  LET g == MakeAvail(MakeTaken(Unlink(h, i), i, ints), i + ints, Size(h, i) - ints)
             C == B \cup {i + ints} IN
         /\ \E s : Shape(g, C, s)
         /\ TakenOf(g, C) = TakenOf(h, B) \cup {i}
         /\ Size(g, i) = ints
         /\ SameCells(h, g, TakenOf(h, B))
<1> DEFINE F == FreeOf(h, B)
           G == F \ {i}
           e == Right(h, i)
           s == Size(h, i)
           n == i + ints
           x == s - ints
           u == Unlink(h, i)
           m == MakeTaken(u, i, ints)
           g == MakeAvail(m, n, x)
           C == B \cup {n}
<1>1. h \in Heaps /\ Tiled(h, B) /\ Listed(h, F, r) /\ NoTwoFree(h, B)
  BY DEF Shape
<1>2. F \subseteq Inner(B) /\ i \in B /\ i \in Inner(B) /\ G \subseteq Inner(B) /\ i \notin G
  BY <1>1, FreeFacts DEF Inner
<1>3. /\ i \in Nat /\ i \in Indices /\ s \in Nat /\ e = i + s /\ e - 1 \in Indices
      /\ i # 0 /\ i # Edge /\ e <= Edge /\ Edge = Words - 2 /\ Words \in Nat
  <2>1. /\ i \in Nat /\ i \in Indices /\ s \in Nat /\ e = i + s /\ e - 1 \in Indices
        /\ (i # Edge => e <= Edge)
    BY <1>1, <1>2, TileFacts
  <2> QED BY <1>2, <2>1, WordsIs DEF Inner, Edge
<1>4. e \in B
  BY <1>1, <1>2, <1>3 DEF Tiled
<1>5. /\ n \in Nat /\ x \in Nat /\ x >= 4 /\ i < n /\ n < e /\ n + x = e /\ n - 1 \in Indices /\ n \in Indices
      /\ n + 1 \in Indices /\ n + 2 \in Indices
      /\ n - 1 # i /\ n - 1 > i /\ n + 3 <= e - 1
  BY <1>3 DEF Indices
<1>6. /\ u \in Heaps /\ Listed(u, G, r)
      /\ \A k \in Indices \ LinksOf(G) : u.array[k] = h.array[k]
  <2>1. Spread(F)
    BY <1>1, <1>2, InnerSpread
  <2> QED BY <1>1, <2>1, UnlinkListed
<1> HIDE DEF u
<1>7. /\ m \in Heaps /\ m.avail = u.avail
      /\ \A k \in Indices : m.array[k] = IF k \in {i, n - 1} THEN -ints ELSE u.array[k]
  <2>1. ints \in 1 .. Words /\ i + ints - 1 \in Indices
    BY <1>3, <1>5, WordsIs DEF Indices
  <2>2. u \in Heaps /\ i \in Indices
    BY <1>3, <1>6
  <2>3. i + ints - 1 = n - 1
    BY <1>3
  <2> HIDE DEF n, x, g, C, G, F, e, s
  <2>4. /\ m \in Heaps /\ m.avail = u.avail
        /\ \A k \in Indices : m.array[k] = IF k \in {i, i + ints - 1} THEN -ints ELSE u.array[k]
    BY <2>1, <2>2, MakeTakenIs
  <2> QED BY <2>3, <2>4
<1> HIDE DEF m
<1>8. CellsOf(h, i) = i .. e - 1 /\ {i, n - 1, n, n + 1, n + 2, e - 1} \subseteq CellsOf(h, i)
  <2>1. CellsOf(h, i) = i .. e - 1
    BY <1>3 DEF CellsOf
  <2> QED BY <1>3, <1>5, <2>1
<1>9. LinksOf(G) \subseteq Indices /\ \A k \in LinksOf(G) : k \notin CellsOf(h, i)
  BY <1>1, <1>2, LinksIn, LinksApart
<1>10. Listed(m, G, r)
  <2>1. \A k \in LinksOf(G) : m.array[k] = u.array[k]
    BY <1>7, <1>8, <1>9
  <2> QED BY <1>6, <1>7, <2>1, ListKept
<1>11. \A j \in G : j \in B /\ j \in Nat /\ (i < j => e <= j) /\ (j < i => j + 4 <= i) /\ j # i
                    /\ j # n /\ (n < j => e <= j) /\ (j < n => j + 4 <= n)
  <2> TAKE j \in G
  <2>1. j \in B /\ j \in Nat /\ j \in Inner(B) /\ j # i
    BY <1>1, <1>2, TileFacts DEF Inner
  <2>2. /\ i < j => e <= j
        /\ j < i => Right(h, j) <= i
        /\ Right(h, j) = j + Size(h, j) /\ Size(h, j) >= 4 /\ Size(h, j) \in Nat
    BY <1>1, <1>2, <2>1, TileFacts DEF Tiled
  <2> QED BY <1>3, <1>5, <2>1, <2>2
<1>12. Spread(G \cup {n})
  <2>1. Spread(G)
    BY <1>1, <1>2, InnerSpread
  <2>2. n \in Indices /\ n # 0 /\ n + 4 <= Words
    BY <1>3, <1>5
  <2>3. \A j \in G : (n < j => n + 4 <= j) /\ (j < n => j + 4 <= n)
    BY <1>3, <1>5, <1>11
  <2> QED BY <1>5, <2>1, <2>2, <2>3 DEF Spread
<1>13. /\ g \in Heaps /\ \E q : Listed(g, G \cup {n}, q)
       /\ g.array[n] = x /\ g.array[e - 1] = x
       /\ \A k \in Indices \ LinksOf(G \cup {n}) : k # n /\ k # e - 1 => g.array[k] = m.array[k]
  <2>1. /\ n \in Indices /\ n \notin G /\ x \in 4 .. Words /\ n + x <= Words /\ n + x - 1 = e - 1
        /\ \A j \in G : n < j => n + x <= j
    BY <1>3, <1>5, <1>11
  <2>2. m \in Heaps
    BY <1>7
  <2> HIDE DEF n, x, G, e, C, F, s
  <2> DEFINE P == G \cup {n}
  <2>3. P = G \cup {n} /\ Spread(P)
    BY <1>12
  <2> HIDE DEF P
  <2>4. /\ g \in Heaps /\ \E q : Listed(g, P, q)
        /\ g.array[n] = x /\ g.array[n + x - 1] = x
        /\ \A k \in Indices \ LinksOf(P) :
             k # n /\ k # n + x - 1 => g.array[k] = m.array[k]
    <3>1. g \in Heaps /\ \E q : Listed(g, P, q)
      BY <1>10, <2>1, <2>2, <2>3, PushListed
    <3>2. g.array[n] = x /\ g.array[n + x - 1] = x
      BY <1>10, <2>1, <2>2, <2>3, PushListed
    <3>3. \A k \in Indices \ LinksOf(P) :
             k # n /\ k # n + x - 1 => g.array[k] = m.array[k]
      BY <1>10, <2>1, <2>2, <2>3, PushListed
    <3> QED BY <3>1, <3>2, <3>3
  <2> QED BY <2>1, <2>3, <2>4
<1> HIDE DEF g
<1>14. \A k \in Indices \ LinksOf(G) : k \notin CellsOf(h, i) => g.array[k] = h.array[k]
  <2> TAKE k \in Indices \ LinksOf(G)
  <2>1. k \notin CellsOf(h, i) => k \notin {i, n - 1, n, n + 1, n + 2, e - 1}
    BY <1>8
  <2>2. k \notin {n + 1, n + 2} => k \notin LinksOf(G \cup {n})
    BY DEF LinksOf
  <2> QED BY <1>6, <1>7, <1>13, <2>1, <2>2
<1>15. SameTags(h, g, B \ {i}) /\ SameCells(h, g, (B \ G) \ {i})
  BY <1>1, <1>2, <1>13, <1>14, OthersSame
<1>16. /\ g.array[i] = -ints /\ g.array[n - 1] = -ints /\ Size(g, i) = ints /\ Right(g, i) = n
       /\ Size(g, n) = x /\ Right(g, n) = e
  <2>1. g.array[i] = -ints /\ g.array[n - 1] = -ints
    <3>1. i \notin LinksOf(G) /\ n - 1 \notin LinksOf(G)
      BY <1>8, <1>9
    <3>2. i \notin {n + 1, n + 2} /\ n - 1 \notin {n + 1, n + 2}
      BY <1>3, <1>5
    <3>3. i \notin LinksOf(G \cup {n}) /\ n - 1 \notin LinksOf(G \cup {n})
      BY <3>1, <3>2 DEF LinksOf
    <3>4. i \in Indices /\ n - 1 \in Indices /\ i # n /\ i # e - 1 /\ n - 1 # n /\ n - 1 # e - 1
      BY <1>3, <1>5
    <3> HIDE DEF n, e, G, F, s, x, C
    <3>5. g.array[i] = m.array[i] /\ g.array[n - 1] = m.array[n - 1]
      BY <1>13, <3>3, <3>4
    <3>6. m.array[i] = -ints /\ m.array[n - 1] = -ints
      BY <1>7, <3>4
    <3> QED BY <3>5, <3>6
  <2>2. Size(g, i) = ints
    BY <1>3, <1>13, <2>1, SizeIs
  <2>3. Size(g, n) = x
    BY <1>5, <1>13, SizeIs
  <2> QED BY <1>5, <2>1, <2>2, <2>3 DEF Right
<1>17. Tiled(g, C)
  <2> DEFINE N == {i, n}
  <2>1. N \in SUBSET (i .. e - 1) /\ i \in N /\ i < e
    BY <1>3, <1>5
  <2>2. \A j \in N : /\ Size(g, j) >= 4 /\ Right(g, j) \in N \cup {e}
                     /\ g.array[Right(g, j) - 1] = g.array[j]
                     /\ \A k \in N : j < k => Right(g, j) <= k
    BY <1>3, <1>5, <1>13, <1>16
  <2>3. \A k \in B : k \notin i .. e - 1 =>
           g.array[k] = h.array[k] /\ g.array[Right(h, k) - 1] = h.array[Right(h, k) - 1]
    BY <1>8, <1>15 DEF SameTags
  <2>4. (B \ (i .. e - 1)) \cup N = C
    BY <1>1, <1>2, NoneWithin
  <2> HIDE DEF N, C
  <2>5. Tiled(g, (B \ (i .. e - 1)) \cup N)
    BY <1>1, <1>2, <1>3, <1>4, <1>13, <2>1, <2>2, <2>3, Retile
  <2> QED BY <2>4, <2>5
<1>18. \A j \in B : j # i => g.array[j] = h.array[j]
  BY <1>15 DEF SameTags
<1>19. n \notin B
  <2>1. n \in i .. e - 1
    BY <1>3, <1>5
  <2> QED BY <1>1, <1>2, <1>5, <2>1, NoneWithin
<1>20. FreeOf(g, C) = G \cup {n} /\ TakenOf(g, C) = TakenOf(h, B) \cup {i}
  <2>1. ~(g.array[i] > 0) /\ g.array[i] < 0 /\ g.array[n] > 0 /\ ~(g.array[n] < 0) /\ ~(h.array[n] < 0 /\ n \in B)
    BY <1>5, <1>13, <1>16, <1>19
  <2> HIDE DEF n
  <2> QED BY <1>2, <1>18, <1>19, <2>1 DEF FreeOf, TakenOf
<1>21. NoTwoFree(g, C)
  <2>1. ASSUME NEW j \in G PROVE Right(g, j) \notin G \cup {n}
    <3>1. j \in F /\ j \in B \ {i} /\ Right(g, j) = Right(h, j)
      BY <1>15, SameTagsAre DEF FreeOf
    <3>2. Right(h, j) \in B
      <4>1. j # Edge
        BY <1>2 DEF Inner
      <4> QED BY <1>1, <3>1, <4>1 DEF Tiled
    <3> QED BY <1>1, <1>19, <3>1, <3>2 DEF NoTwoFree
  <2>2. e \notin G \cup {n}
    <3>1. e \notin F
      BY <1>1 DEF NoTwoFree
    <3> QED BY <1>4, <1>19, <3>1
  <2> HIDE DEF n, e
  <2> QED BY <1>16, <1>20, <2>1, <2>2 DEF NoTwoFree
<1>22. SameCells(h, g, TakenOf(h, B))
  BY <1>1, <1>2, <1>15, FreeFacts DEF SameCells
<1>23. \E q : Shape(g, C, q)
  <2>1. PICK q : Listed(g, G \cup {n}, q)
    BY <1>13
  <2> QED BY <1>13, <1>17, <1>20, <1>21, <2>1 DEF Shape
<1> QED BY <1>16, <1>20, <1>22, <1>23 DEF g, m, u

\* malloc, whichever way.
LEMMA CarveShape ==
  ASSUME NEW h, NEW B, NEW r, Shape(h, B, r), NEW i \in FreeOf(h, B),
         NEW ints \in Nat, ints >= 4, Size(h, i) >= ints
  PROVE  \E C, s :
           /\ Shape(Carve(h, i, ints), C, s)
           /\ TakenOf(Carve(h, i, ints), C) = TakenOf(h, B) \cup {i}
           /\ Size(Carve(h, i, ints), i) >= ints
           /\ SameCells(h, Carve(h, i, ints), TakenOf(h, B))
<1>1. h \in Heaps /\ Tiled(h, B) /\ i \in B
  BY DEF Shape, FreeOf
<1>2. Size(h, i) \in Nat
  BY <1>1, TileFacts
<1>3. CASE Size(h, i) - ints >= 4
  <2>1. Size(h, i) >= ints + 4
    BY <1>2, <1>3
  <2> DEFINE g == MakeAvail(MakeTaken(Unlink(h, i), i, ints), i + ints, Size(h, i) - ints)
             C == B \cup {i + ints}
  <2>2. Carve(h, i, ints) = g
    BY <1>3 DEF Carve
  <2>3. /\ \E s : Shape(g, C, s)
        /\ TakenOf(g, C) = TakenOf(h, B) \cup {i}
        /\ Size(g, i) = ints
        /\ SameCells(h, g, TakenOf(h, B))
    BY <2>1, CarveSplit
  <2> HIDE DEF g, C
  <2> QED BY <2>2, <2>3
<1>4. CASE ~(Size(h, i) - ints >= 4)
  <2> DEFINE g == MakeTaken(Unlink(h, i), i, Size(h, i))
  <2>1. Carve(h, i, ints) = g
    BY <1>4 DEF Carve
  <2>2. /\ Shape(g, B, r) /\ FreeOf(g, B) = FreeOf(h, B) \ {i}
        /\ Size(g, i) = Size(h, i)
        /\ SameCells(h, g, TakenOf(h, B))
    BY CarveWhole
  <2> HIDE DEF g
  <2>3. TakenOf(g, B) = TakenOf(h, B) \cup {i}
    <3>1. TakenOf(g, B) = B \ FreeOf(g, B) /\ TakenOf(h, B) = B \ FreeOf(h, B)
      BY <1>1, <2>2, FreeFacts DEF Shape
    <3> QED BY <1>1, <2>2, <3>1
  <2> QED BY <2>1, <2>2, <2>3
<1> QED BY <1>3, <1>4

-----------------------------------------------------------------------------
(* free: the heap after it *)

\* Where the block begins and ends that free makes of block i and its free neighbours.
Since(h, i) == IF IsAvail(h, Left(h, i)) THEN Left(h, i) ELSE i
Until(h, i) == IF IsAvail(h, Right(h, i)) THEN Right(h, Right(h, i)) ELSE Right(h, i)

\* Two blocks do not end at the same place.
LEMMA RightOnce ==
  ASSUME NEW h \in Heaps, NEW B, Tiled(h, B), NEW i \in B, NEW j \in B, Right(h, i) = Right(h, j)
  PROVE  i = j
<1>1. /\ i \in Nat /\ Size(h, i) \in Nat /\ Size(h, i) >= 2 /\ Right(h, i) = i + Size(h, i)
      /\ j \in Nat /\ Size(h, j) \in Nat /\ Size(h, j) >= 2 /\ Right(h, j) = j + Size(h, j)
  BY TileFacts
<1>2. (i < j => Right(h, i) <= j) /\ (j < i => Right(h, j) <= i)
  BY DEF Tiled
<1>3. i + Size(h, i) = j + Size(h, j)
  BY <1>1
<1>4. ~(i < j) /\ ~(j < i)
  BY <1>1, <1>2, <1>3
<1> QED BY <1>1, <1>4

\* The block that free makes is of blocks: the one that is freed and, of its neighbours, those
\* that are free.  No free block comes next to it.
LEMMA MergeSpan ==
  ASSUME NEW h, NEW B, NEW r, Shape(h, B, r), NEW i \in Inner(B), h.array[i] < 0
  PROVE  LET F == FreeOf(h, B)
             l == Left(h, i)
             t == Right(h, i)
             a == Since(h, i)
             e == Until(h, i) IN
         /\ l \in B /\ t \in B /\ l # t /\ i \in B /\ i \notin F
         /\ IsAvail(h, l) <=> l \in F
         /\ IsAvail(h, t) <=> t \in F
         /\ a \in B /\ a \in Inner(B) /\ e \in B /\ a \in Nat /\ e \in Nat /\ a + 4 <= e /\ e <= Edge
         /\ i \in a .. e - 1
         /\ e - a = Size(h, i) + (IF IsAvail(h, l) THEN Size(h, l) ELSE 0)
                               + (IF IsAvail(h, t) THEN Size(h, t) ELSE 0)
         /\ \A j \in B : j \in a .. e - 1 => j = i \/ j \in F \cap {l, t}
         /\ \A j \in F \ {l, t} : Right(h, j) # a
         /\ a \notin F \ {l, t} /\ e \notin F
<1> DEFINE F == FreeOf(h, B)
           l == Left(h, i)
           t == Right(h, i)
           a == Since(h, i)
           e == Until(h, i)
<1>1. h \in Heaps /\ Tiled(h, B) /\ NoTwoFree(h, B) /\ i \in B /\ i # 0 /\ i # Edge
  BY DEF Shape, Inner
<1>2. /\ i \in Nat /\ Size(h, i) \in Nat /\ Size(h, i) >= 4 /\ t = i + Size(h, i)
      /\ t <= Edge /\ Edge \in Nat
  BY <1>1, TileFacts
<1>3. l \in B /\ Right(h, l) = i /\ l < i
  BY <1>1, LeftIs
<1>4. t \in B
  BY <1>1 DEF Tiled
<1>5. /\ l \in Nat /\ Size(h, l) \in Nat /\ i = l + Size(h, l) /\ h.array[l] \in Int
      /\ t \in Nat /\ Size(h, t) \in Nat /\ Right(h, t) = t + Size(h, t) /\ h.array[t] \in Int
      /\ (t # Edge => Right(h, t) <= Edge)
      /\ h.array[i] \in Int
  BY <1>1, <1>3, <1>4, TileFacts
<1>6. /\ IsAvail(h, l) <=> l \in F
      /\ IsAvail(h, t) <=> t \in F
      /\ i \notin F
  BY <1>1, <1>3, <1>4, <1>5 DEF FreeOf, IsAvail
<1>7. F \subseteq Inner(B)
  BY <1>1, FreeFacts
<1>8. t \in F => t # Edge /\ t # 0 /\ Right(h, t) \in B /\ Right(h, t) \notin F
  <2>1. t \in F => t # Edge /\ t # 0
    BY <1>7 DEF Inner
  <2> QED BY <1>1, <1>4, <2>1 DEF Tiled, NoTwoFree
<1>9. /\ a = IF l \in F THEN l ELSE i
      /\ e = IF t \in F THEN Right(h, t) ELSE t
  BY <1>6 DEF Since, Until
<1>10. a \in Inner(B) /\ a \in B /\ a \in Nat /\ a <= i
  BY <1>1, <1>2, <1>3, <1>5, <1>7, <1>9
<1>11. e \in B /\ e \in Nat /\ t <= e /\ e <= Edge /\ e \notin F
  BY <1>2, <1>4, <1>5, <1>8, <1>9
<1>12. ASSUME NEW j \in B, j \in a .. e - 1 PROVE j = i \/ j \in F \cap {l, t}
  <2>1. j \in i .. t - 1 => j = i
    BY <1>1, NoneWithin
  <2>2. j \in l .. i - 1 => j = l
    BY <1>1, <1>3, NoneWithin
  <2>3. j \in t .. Right(h, t) - 1 => j = t
    BY <1>1, <1>4, NoneWithin
  <2> HIDE DEF l, t, a, e, F
  <2>4. j \in Nat /\ a <= j /\ j < e
    BY <1>10, <1>11, <1>12
  <2>5. CASE j < i
    BY <1>2, <1>5, <1>9, <2>2, <2>4, <2>5
  <2>6. CASE i <= j /\ j < t
    BY <1>2, <1>5, <2>1, <2>4, <2>6
  <2>7. CASE t <= j
    BY <1>2, <1>5, <1>9, <2>3, <2>4, <2>7
  <2> QED BY <1>2, <1>5, <2>4, <2>5, <2>6, <2>7
<1>13. ASSUME NEW j \in F \ {l, t} PROVE Right(h, j) # a
  <2>1. j \in B /\ Right(h, j) \notin F
    BY <1>1 DEF NoTwoFree, FreeOf
  <2>2. Right(h, j) # i
    BY <1>1, <1>3, <2>1, RightOnce
  <2> HIDE DEF l, t, F, a
  <2> QED BY <1>9, <2>1, <2>2
<1>14. a \notin F \ {l, t}
  BY <1>6, <1>9
<1>15. e - a = Size(h, i) + (IF IsAvail(h, l) THEN Size(h, l) ELSE 0)
                          + (IF IsAvail(h, t) THEN Size(h, t) ELSE 0)
  BY <1>2, <1>5, <1>6, <1>9
<1>16. a + 4 <= e /\ i \in a .. e - 1 /\ l # t
  BY <1>2, <1>3, <1>5, <1>10, <1>11
<1> HIDE DEF l, t, F, a, e
<1>17. /\ l \in B /\ t \in B /\ l # t /\ i \in B /\ i \notin F
       /\ IsAvail(h, l) <=> l \in F
       /\ IsAvail(h, t) <=> t \in F
       /\ a \in B /\ a \in Inner(B) /\ e \in B /\ a \in Nat /\ e \in Nat /\ a + 4 <= e /\ e <= Edge
       /\ i \in a .. e - 1
       /\ e - a = Size(h, i) + (IF IsAvail(h, l) THEN Size(h, l) ELSE 0)
                             + (IF IsAvail(h, t) THEN Size(h, t) ELSE 0)
       /\ \A j \in B : j \in a .. e - 1 => j = i \/ j \in F \cap {l, t}
       /\ \A j \in F \ {l, t} : Right(h, j) # a
       /\ a \notin F \ {l, t} /\ e \notin F
  BY <1>1, <1>3, <1>4, <1>6, <1>10, <1>11, <1>12, <1>13, <1>14, <1>15, <1>16
<1> QED BY <1>17 DEF l, t, F, a, e

\* remove, when there is something to remove.
LEMMA DropListed ==
  ASSUME NEW h \in Heaps, NEW F, NEW r, Listed(h, F, r), Spread(F), NEW i, NEW u,
         u = IF i \in F THEN Unlink(h, i) ELSE h,
         NEW G, G = F \ {i}
  PROVE  /\ u \in Heaps /\ Listed(u, G, r)
         /\ \A k \in Indices \ LinksOf(G) : u.array[k] = h.array[k]
<1>1. CASE i \in F
  BY <1>1, UnlinkListed
<1>2. CASE i \notin F
  <2>1. G = F
    BY <1>2
  <2> QED BY <1>2, <2>1
<1> QED BY <1>1, <1>2

\* free: the heap stays well formed, the block is free, and other taken blocks keep
\* their contents.
LEMMA MergeShape ==
  ASSUME NEW h, NEW B, NEW r, Shape(h, B, r), NEW i \in Inner(B), h.array[i] < 0
  PROVE  \E C, s :
           /\ Shape(Merge(h, i), C, s)
           /\ TakenOf(Merge(h, i), C) = TakenOf(h, B) \ {i}
           /\ SameCells(h, Merge(h, i), TakenOf(h, B) \ {i})
<1> DEFINE F == FreeOf(h, B)
           l == Left(h, i)
           t == Right(h, i)
           a == Since(h, i)
           e == Until(h, i)
           G == (F \ {l}) \ {t}
           x == e - a
           h1 == IF IsAvail(h, l) THEN Unlink(h, l) ELSE h
           h2 == IF IsAvail(h1, t) THEN Unlink(h1, t) ELSE h1
           g == MakeAvail(h2, a, x)
           O == B \ (a .. e - 1)
           C == O \cup {a}
           P == G \cup {a}
<1>1. h \in Heaps /\ Tiled(h, B) /\ Listed(h, F, r) /\ NoTwoFree(h, B)
  BY DEF Shape
<1>2. F \subseteq Inner(B) /\ G \subseteq F /\ G \subseteq Inner(B) /\ F \subseteq B /\ F \ {l} \subseteq Inner(B)
      /\ \A j : j \in G <=> j \in F /\ j # l /\ j # t
  BY <1>1, FreeFacts DEF Inner
<1>3. /\ l \in B /\ t \in B /\ l # t /\ i \in B /\ i \notin F
      /\ IsAvail(h, l) <=> l \in F
      /\ IsAvail(h, t) <=> t \in F
      /\ a \in B /\ a \in Inner(B) /\ e \in B /\ a \in Nat /\ e \in Nat /\ a + 4 <= e /\ e <= Edge
      /\ i \in a .. e - 1
  BY MergeSpan
<1>4. /\ x = Size(h, i) + (IF IsAvail(h, l) THEN Size(h, l) ELSE 0)
                        + (IF IsAvail(h, t) THEN Size(h, t) ELSE 0)
      /\ \A j \in B : j \in a .. e - 1 => j = i \/ j \in F \cap {l, t}
      /\ \A j \in F \ {l, t} : Right(h, j) # a
      /\ a \notin F \ {l, t} /\ e \notin F
  BY MergeSpan
<1>5. Merge(h, i) = g
  <2>1. Merge(h, i) = MakeAvail(h2, a, Size(h, i) + (IF IsAvail(h, l) THEN Size(h, l) ELSE 0)
                                                  + (IF IsAvail(h, t) THEN Size(h, t) ELSE 0))
    BY DEF Merge, Since
  <2> HIDE DEF h2, a, x, l, t
  <2> QED BY <1>4, <2>1
<1>6. Edge = Words - 2 /\ Words \in Nat /\ x \in Nat /\ x >= 4 /\ a + x = e /\ a \in Indices /\ a # 0
      /\ \A k \in a .. e - 1 : k \in Indices
  <2>1. Edge = Words - 2 /\ Words \in Nat
    BY WordsIs DEF Edge
  <2>2. a # 0
    BY <1>3 DEF Inner
  <2> HIDE DEF a, e
  <2> QED BY <1>3, <2>1, <2>2 DEF Indices
<1> HIDE DEF a, e, l, t, F
<1>7. Spread(F) /\ Spread(F \ {l}) /\ Spread(P)
  <2>1. P \subseteq Inner(B)
    BY <1>2, <1>3
  <2> HIDE DEF P
  <2> QED BY <1>1, <1>2, <2>1, InnerSpread
<1>8. /\ h1 \in Heaps /\ Listed(h1, F \ {l}, r)
      /\ \A k \in Indices \ LinksOf(F \ {l}) : h1.array[k] = h.array[k]
  <2> DEFINE D == F \ {l}
  <2>1. h1 = (IF l \in F THEN Unlink(h, l) ELSE h) /\ D = F \ {l}
    BY <1>3
  <2> HIDE DEF h1, D, G, P, O, C, x, g, h2
  <2>2. h1 \in Heaps /\ Listed(h1, D, r)
    BY <1>1, <1>7, <2>1, DropListed
  <2>3. \A k \in Indices \ LinksOf(D) : h1.array[k] = h.array[k]
    BY <1>1, <1>7, <2>1, DropListed
  <2> QED BY <2>2, <2>3 DEF D
<1> HIDE DEF h1
<1>9. IsAvail(h1, t) <=> t \in F \ {l}
  <2>1. t \notin LinksOf(F \ {l}) /\ t \in Indices
    BY <1>1, <1>2, <1>3, LinksApart, TileFacts
  <2>2. h1.array[t] = h.array[t]
    BY <1>8, <2>1
  <2> QED BY <1>3, <2>2 DEF IsAvail
<1>10. /\ h2 \in Heaps /\ Listed(h2, G, r)
       /\ \A k \in Indices \ LinksOf(G) : h2.array[k] = h1.array[k]
  <2>1. h2 = IF t \in F \ {l} THEN Unlink(h1, t) ELSE h1
    BY <1>9
  <2> DEFINE D == F \ {l}
  <2>2. h1 \in Heaps /\ Listed(h1, D, r) /\ Spread(D)
    BY <1>7, <1>8
  <2> HIDE DEF h2, D
  <2>3. h2 = (IF t \in D THEN Unlink(h1, t) ELSE h1) /\ G = D \ {t}
    BY <2>1 DEF D
  <2> HIDE DEF G, P, O, C, x, g
  <2>4. h2 \in Heaps /\ Listed(h2, G, r)
    BY <2>2, <2>3, DropListed
  <2>5. \A k \in Indices \ LinksOf(G) : h2.array[k] = h1.array[k]
    BY <2>2, <2>3, DropListed
  <2> QED BY <2>4, <2>5
<1> HIDE DEF h2
<1>11. \A k \in Indices \ LinksOf(F) : h2.array[k] = h.array[k]
  <2>1. LinksOf(G) \subseteq LinksOf(F) /\ LinksOf(F \ {l}) \subseteq LinksOf(F)
    BY <1>2, LinksSubset
  <2> QED BY <1>8, <1>10, <2>1
<1>12. ASSUME NEW j \in B, j \notin a .. e - 1
       PROVE  /\ j \in Nat /\ j \in Indices /\ (j < a \/ e <= j) /\ j \in O
              /\ j < a => Right(h, j) <= a
  <2>1. j \in Nat /\ j \in Indices
    BY <1>1, TileFacts
  <2>2. j < a => Right(h, j) <= a
    BY <1>1, <1>3 DEF Tiled
  <2> QED BY <1>3, <1>12, <2>1, <2>2
<1>13. \A j \in G : j \in B /\ j \in F /\ j # l /\ j # t /\ j # i /\ j \notin a .. e - 1 /\ j \in Nat
  <2> TAKE j \in G
  <2>1. j \in B /\ j \in F /\ j # l /\ j # t /\ j # i
    BY <1>2, <1>3
  <2>2. j \notin a .. e - 1
    BY <1>4, <2>1
  <2> QED BY <1>12, <2>1, <2>2
<1>14. /\ g \in Heaps /\ \E q : Listed(g, P, q)
       /\ g.array[a] = x /\ g.array[e - 1] = x
       /\ \A k \in Indices \ LinksOf(P) : k # a /\ k # e - 1 => g.array[k] = h2.array[k]
  <2>1. a \in Indices /\ a \notin G /\ x \in 4 .. Words /\ a + x <= Words /\ a + x - 1 = e - 1
    BY <1>3, <1>4, <1>6, <1>13
  <2>2. ASSUME NEW j \in G, a < j PROVE a + x <= j
    <3>1. j \in B /\ j \notin a .. e - 1
      BY <1>13
    <3> HIDE DEF x, G, P, O, C
    <3> QED BY <1>3, <1>6, <1>12, <2>2, <3>1
  <2>3. P = G \cup {a}
    OBVIOUS
  <2> HIDE DEF G, P, x, O, C
  <2>4. g \in Heaps /\ \E q : Listed(g, P, q)
    BY <1>7, <1>10, <2>1, <2>2, <2>3, PushListed
  <2>5. g.array[a] = x /\ g.array[a + x - 1] = x
    BY <1>7, <1>10, <2>1, <2>2, <2>3, PushListed
  <2>6. \A k \in Indices \ LinksOf(P) : k # a /\ k # a + x - 1 => g.array[k] = h2.array[k]
    BY <1>7, <1>10, <2>1, <2>2, <2>3, PushListed
  <2> QED BY <2>1, <2>4, <2>5, <2>6
<1> HIDE DEF g
<1>15. \A k \in Indices \ LinksOf(F) : k \notin a .. e - 1 => g.array[k] = h.array[k]
  <2> TAKE k \in Indices \ LinksOf(F)
  <2> SUFFICES ASSUME k \notin a .. e - 1 PROVE g.array[k] = h.array[k]
    OBVIOUS
  <2>1. a \in a .. e - 1 /\ a + 1 \in a .. e - 1 /\ a + 2 \in a .. e - 1 /\ e - 1 \in a .. e - 1
    BY <1>3
  <2>2. k # a /\ k # a + 1 /\ k # a + 2 /\ k # e - 1
    BY <2>1
  <2>3. k \notin LinksOf(G)
    BY <1>2, LinksSubset
  <2>4. k \notin LinksOf(P)
    BY <2>2, <2>3 DEF LinksOf
  <2> QED BY <1>11, <1>14, <2>2, <2>4
<1>16. ASSUME NEW j \in B, j \notin a .. e - 1
       PROVE  g.array[j] = h.array[j] /\ g.array[Right(h, j) - 1] = h.array[Right(h, j) - 1]
  <2>1. j \notin LinksOf(F) /\ Right(h, j) - 1 \notin LinksOf(F)
    BY <1>1, <1>2, LinksApart
  <2>2. /\ j \in Nat /\ Right(h, j) = j + Size(h, j) /\ Size(h, j) \in Nat /\ Size(h, j) >= 2
        /\ Right(h, j) - 1 \in Indices
    BY <1>1, TileFacts
  <2>3. Right(h, j) - 1 \notin a .. e - 1
    BY <1>3, <1>12, <1>16, <2>2
  <2> QED BY <1>12, <1>15, <1>16, <2>1, <2>2, <2>3
<1>17. /\ Size(g, a) = x /\ Right(g, a) = e
  <2>1. Size(g, a) = x
    BY <1>6, <1>14, SizeIs
  <2> QED BY <1>6, <2>1 DEF Right
<1>18. Tiled(g, C)
  <2> DEFINE N == {a}
  <2>1. N \in SUBSET (a .. e - 1) /\ a \in N /\ a < e
    BY <1>3
  <2>2. \A j \in N : /\ Size(g, j) >= 4 /\ Right(g, j) \in N \cup {e}
                     /\ g.array[Right(g, j) - 1] = g.array[j]
                     /\ \A k \in N : j < k => Right(g, j) <= k
    BY <1>3, <1>6, <1>14, <1>17
  <2>3. C = (B \ (a .. e - 1)) \cup N
    OBVIOUS
  <2> HIDE DEF N, C, O, G, P, x
  <2>4. Tiled(g, (B \ (a .. e - 1)) \cup N)
    BY <1>1, <1>3, <1>6, <1>14, <1>16, <2>1, <2>2, Retile
  <2> QED BY <2>3, <2>4
<1>19. /\ FreeOf(g, C) = P
       /\ TakenOf(g, C) = TakenOf(h, B) \ {i}
  <2>1. g.array[a] > 0 /\ ~(g.array[a] < 0)
    BY <1>6, <1>14
  <2>2. \A j \in O : j \in B /\ g.array[j] = h.array[j] /\ j # i /\ j # a
    BY <1>3, <1>16
  <2>3. \A j \in B : j \in O \/ j = i \/ j \in F \cap {l, t}
    BY <1>4
  <2>4. \A j \in F : j \in B /\ h.array[j] > 0 /\ ~(h.array[j] < 0)
    <3> TAKE j \in F
    <3>1. j \in B /\ h.array[j] > 0
      BY DEF F, FreeOf
    <3>2. h.array[j] \in Int
      BY <1>1, <3>1, TileFacts
    <3> QED BY <3>1, <3>2
  <2>5. \A j \in G : j \in O /\ h.array[j] > 0
    BY <1>13, <2>4
  <2>6. \A j \in O : h.array[j] > 0 => j \in G \/ j \in {l, t} \cap F
    BY <1>2, <2>2 DEF F, FreeOf
  <2>7. \A j \in {l, t} \cap F : j \notin O
    <3>1. l \in F => l \in a .. e - 1
      <4>1. CASE l \in F
        <5>1. l = a
          BY <1>3, <4>1 DEF a, l, Since
        <5> QED BY <1>3, <5>1
      <4> QED BY <4>1
    <3>2. t \in F => t \in a .. e - 1
      <4>1. CASE t \in F
        <5>1. e = Right(h, t)
          BY <1>3, <4>1 DEF e, t, Until
        <5>2. t \in Nat /\ Size(h, t) \in Nat /\ Size(h, t) >= 2 /\ Right(h, t) = t + Size(h, t)
          BY <1>1, <1>3, TileFacts
        <5>3. i \in Nat /\ Size(h, i) \in Nat /\ t = i + Size(h, i)
          BY <1>1, <1>3, TileFacts DEF t
        <5> QED BY <1>3, <5>1, <5>2, <5>3
      <4> QED BY <4>1
    <3> QED BY <3>1, <3>2
  <2>8. FreeOf(g, C) = P
    <3> HIDE DEF O, G
    <3> QED BY <2>1, <2>2, <2>5, <2>6, <2>7 DEF FreeOf
  <2>9. TakenOf(g, C) = TakenOf(h, B) \ {i}
    <3> HIDE DEF O, G
    <3> QED BY <2>1, <2>2, <2>3, <2>4 DEF TakenOf
  <2> QED BY <2>8, <2>9
<1>20. NoTwoFree(g, C)
  <2>1. ASSUME NEW j \in G PROVE Right(g, j) \notin P
    <3>1. j \in F /\ j \in B /\ j \notin a .. e - 1 /\ j \in F \ {l, t}
      BY <1>13
    <3>2. Right(g, j) = Right(h, j)
      BY <1>16, <3>1 DEF Right, Size
    <3>3. Right(h, j) \notin F /\ Right(h, j) # a
      BY <1>1, <1>4, <3>1 DEF NoTwoFree, F
    <3> QED BY <1>2, <3>2, <3>3
  <2>2. e \notin P
    BY <1>2, <1>3, <1>4
  <2> QED BY <1>17, <1>19, <2>1, <2>2 DEF NoTwoFree
<1>21. SameCells(h, g, TakenOf(h, B) \ {i})
  <2>1. ASSUME NEW b \in TakenOf(h, B) \ {i}, NEW k \in CellsOf(h, b) PROVE g.array[k] = h.array[k]
    <3>1. b \in B /\ b \notin F
      BY <1>1, FreeFacts DEF TakenOf, F
    <3>2. b \notin a .. e - 1
      BY <1>4, <3>1
    <3>3. k \notin LinksOf(F)
      BY <1>1, <1>2, <3>1, LinksApart
    <3>4. /\ b \in Nat /\ Right(h, b) = b + Size(h, b) /\ Size(h, b) \in Nat /\ Size(h, b) >= 2
          /\ Right(h, b) - 1 \in Indices
      BY <1>1, <3>1, TileFacts
    <3>5. k \in Indices /\ k \notin a .. e - 1
      BY <1>3, <1>6, <1>12, <3>1, <3>2, <3>4 DEF CellsOf, Indices
    <3> QED BY <1>15, <3>3, <3>5
  <2> QED BY <2>1 DEF SameCells
<1>22. \E q : Shape(g, C, q)
  <2>1. PICK q : Listed(g, P, q)
    BY <1>14
  <2> QED BY <1>14, <1>18, <1>19, <1>20, <2>1 DEF Shape
<1> QED BY <1>5, <1>19, <1>21, <1>22

-----------------------------------------------------------------------------
(* What clients do *)

\* With the tags of its blocks a heap has its blocks.
LEMMA TagsTile ==
  ASSUME NEW h \in Heaps, NEW g \in Heaps, NEW B, Tiled(h, B), NoTwoFree(h, B), SameTags(h, g, B)
  PROVE  /\ Tiled(g, B) /\ NoTwoFree(g, B)
         /\ FreeOf(g, B) = FreeOf(h, B) /\ TakenOf(g, B) = TakenOf(h, B)
<1>1. \A b \in B : /\ g.array[b] = h.array[b] /\ Size(g, b) = Size(h, b) /\ Right(g, b) = Right(h, b)
                   /\ g.array[Right(h, b) - 1] = h.array[Right(h, b) - 1]
  BY SameTagsAre DEF SameTags
<1>2. FreeOf(g, B) = FreeOf(h, B) /\ TakenOf(g, B) = TakenOf(h, B)
  BY <1>1 DEF FreeOf, TakenOf
<1>3. Tiled(g, B)
  <2>1. B \subseteq 0 .. Edge /\ 0 \in B /\ Edge \in B /\ h.array[0] = -2 /\ h.array[Edge] = -2
    BY DEF Tiled
  <2>2. g.array[0] = -2 /\ g.array[Edge] = -2
    BY <1>1, <2>1
  <2>3. ASSUME NEW i \in B
        PROVE  /\ i # Edge => Right(g, i) \in B
               /\ i # 0 /\ i # Edge => Size(g, i) >= 4
               /\ g.array[Right(g, i) - 1] = g.array[i]
               /\ \A j \in B : i < j => Right(g, i) <= j
    BY <1>1 DEF Tiled
  <2> QED BY <2>1, <2>2, <2>3 DEF Tiled
<1>4. NoTwoFree(g, B)
  <2>1. \A i \in FreeOf(h, B) : Right(h, i) \notin FreeOf(h, B) /\ i \in B
    BY DEF NoTwoFree, FreeOf
  <2> QED BY <1>1, <1>2, <2>1 DEF NoTwoFree
<1> QED BY <1>2, <1>3, <1>4

\* What a client does in its own block, between the tags, is no matter of the heap's.
LEMMA InsideShape ==
  ASSUME NEW h, NEW B, NEW r, Shape(h, B, r), NEW i \in TakenOf(h, B),
         NEW g \in Heaps, g.avail = h.avail,
         \A k \in Indices : k \notin i + 1 .. i + Size(h, i) - 2 => g.array[k] = h.array[k]
  PROVE  /\ Shape(g, B, r) /\ TakenOf(g, B) = TakenOf(h, B)
         /\ \A b \in B : Size(g, b) = Size(h, b)
         /\ SameCells(h, g, TakenOf(h, B) \ {i})
<1> DEFINE F == FreeOf(h, B)
<1>1. h \in Heaps /\ Tiled(h, B) /\ Listed(h, F, r) /\ NoTwoFree(h, B)
  BY DEF Shape
<1>2. i \in B /\ i \notin F /\ F \subseteq Inner(B) /\ F \subseteq B /\ \A b \in TakenOf(h, B) : b \in B /\ b \notin F
  BY <1>1, FreeFacts DEF Inner
<1>3. /\ i \in Nat /\ Size(h, i) \in Nat /\ Size(h, i) >= 2 /\ Right(h, i) = i + Size(h, i)
      /\ Right(h, i) - 1 \in Indices /\ i \in Indices
  BY <1>1, <1>2, TileFacts
<1>4. \A k \in Indices : k \notin CellsOf(h, i) => g.array[k] = h.array[k]
  <2> TAKE k \in Indices
  <2> SUFFICES ASSUME k \notin CellsOf(h, i) PROVE k \notin i + 1 .. i + Size(h, i) - 2
    OBVIOUS
  <2>1. CellsOf(h, i) = i .. i + Size(h, i) - 1
    BY DEF CellsOf
  <2> QED BY <1>3, <2>1
<1> HIDE DEF F
<1>5. SameTags(h, g, B \ {i}) /\ SameCells(h, g, (B \ F) \ {i})
  BY <1>1, <1>2, <1>4, OthersSame
<1>6. g.array[i] = h.array[i] /\ g.array[Right(h, i) - 1] = h.array[Right(h, i) - 1]
  BY <1>3
<1>7. SameTags(h, g, B)
  BY <1>5, <1>6 DEF SameTags
<1>8. /\ Tiled(g, B) /\ NoTwoFree(g, B)
      /\ FreeOf(g, B) = F /\ TakenOf(g, B) = TakenOf(h, B)
  BY <1>1, <1>7, TagsTile DEF F
<1>9. Listed(g, F, r)
  <2>1. \A k \in LinksOf(F) : k \in Indices /\ k \notin CellsOf(h, i)
    BY <1>1, <1>2, LinksIn, LinksApart
  <2>2. \A k \in LinksOf(F) : g.array[k] = h.array[k]
    BY <1>4, <2>1
  <2> QED BY <1>1, <2>2, ListKept
<1>10. SameCells(h, g, TakenOf(h, B) \ {i})
  BY <1>2, <1>5 DEF SameCells
<1>11. \A b \in B : Size(g, b) = Size(h, b)
  BY <1>7, SameTagsAre
<1> QED BY <1>8, <1>9, <1>10, <1>11 DEF Shape

-----------------------------------------------------------------------------
(* The area of a client *)

\* The words of so many bytes lie between the tags of a block of so many words.
LEMMA AreaIs ==
  ASSUME NEW bytes \in Requests, NEW i \in Nat
  PROVE  /\ Ints(bytes) \in Nat /\ Ints(bytes) >= 4
         /\ \A s \in Nat : s >= Ints(bytes) => Area(i + 1, bytes) \subseteq i + 1 .. i + s - 2
<1> DEFINE n == (bytes + 3) \div 4
<1>1. bytes \in Nat
  BY HeapAssumption
<1>2. n \in Nat
  BY <1>1
<1>3. Ints(bytes) = IF n + 2 < 4 THEN 4 ELSE n + 2
  BY DEF Ints
<1>4. Area(i + 1, bytes) = i + 1 .. (i + 1) + n - 1
  BY <1>2 DEF Area
<1> HIDE DEF n
<1>5. \A s \in Nat : s >= n + 2 => i + 1 .. (i + 1) + n - 1 \subseteq i + 1 .. i + s - 2
  BY <1>2
<1>6. Ints(bytes) \in Nat /\ Ints(bytes) >= 4 /\ Ints(bytes) >= n + 2
  BY <1>2, <1>3
<1>7. \A s \in Nat : s >= Ints(bytes) => s >= n + 2
  BY <1>2, <1>6
<1> QED BY <1>4, <1>5, <1>6, <1>7

-----------------------------------------------------------------------------
(* What the walks come by *)

\* Going right from the left end comes by every block, and by nothing else.
LEMMA HeadersAre ==
  ASSUME NEW h \in Heaps, NEW B, Tiled(h, B)
  PROVE  ToSet(Chain([i \in Indices |-> Right(h, i)], 0)) = B
<1> DEFINE next == [i \in Indices |-> Right(h, i)]
           m    == [b \in B |-> Words - b]
           s    == Chain(next, 0)
<1>1. \A b \in B : /\ b \in Indices /\ b \in Nat /\ next[b] = Right(h, b) /\ m[b] \in Nat /\ m[b] = Words - b
                   /\ m[b] <= Words
  <2> TAKE b \in B
  <2>1. b \in Indices /\ b \in Nat /\ b <= Edge /\ Edge \in Nat /\ Edge = Words - 2 /\ Words \in Nat
    BY TileFacts, WordsIs DEF Edge
  <2> QED BY <2>1
<1>2. DOMAIN next = Indices /\ B \subseteq Indices /\ 0 \in B /\ Edge \in B /\ m \in [B -> Nat]
  BY <1>1 DEF Tiled
<1>3. s = Walk(next)[<<0, Words>>]
  BY <1>2, ChainIsWalk
<1> HIDE DEF next, m, s
<1>4. ASSUME NEW b \in B, b # Edge PROVE next[b] \in B /\ m[next[b]] < m[b]
  <2>1. Right(h, b) \in B
    BY <1>4 DEF Tiled
  <2>2. Size(h, b) \in Nat /\ Size(h, b) >= 2 /\ Right(h, b) = b + Size(h, b)
    BY TileFacts
  <2> QED BY <1>1, <2>1, <2>2, WordsIs
<1>5. next[Edge] \notin Indices
  <2>1. Right(h, Edge) = Edge + 2
    BY <1>2, TileFacts
  <2> QED BY <1>1, <1>2, <2>1, WordsIs DEF Edge, Indices
<1>6. \A j \in B : next[j] \in DOMAIN next => next[j] \in B /\ m[next[j]] < m[j]
  BY <1>2, <1>4, <1>5
<1>7. IsWalk(next, B, m, 0, s)
  <2>1. m[0] <= Words /\ Words \in Nat
    BY <1>1, <1>2, WordsIs
  <2> QED BY <1>2, <1>3, <1>6, <2>1, WalkFalls
<1>8. ToSet(s) \subseteq B /\ 0 \in ToSet(s)
  BY <1>2, <1>7, WalkOnce
<1>9. B \subseteq ToSet(s)
  <2> DEFINE Bad == B \ ToSet(s)
  <2> SUFFICES ASSUME Bad # {} PROVE FALSE
    OBVIOUS
  <2>1. Bad \subseteq Nat
    BY <1>1
  <2>2. PICK b \in Bad : \A c \in Bad : b <= c
    BY <2>1, LeastOf
  <2>3. b \in B /\ b # 0 /\ b \notin ToSet(s)
    BY <1>8
  <2>4. Left(h, b) \in B /\ Right(h, Left(h, b)) = b /\ Left(h, b) < b
    BY <2>3, LeftIs
  <2>5. Left(h, b) \in ToSet(s)
    BY <1>1, <2>1, <2>2, <2>4
  <2>6. next[Left(h, b)] = b /\ b \in DOMAIN next
    BY <1>1, <1>2, <2>3, <2>4
  <2> QED BY <1>7, <2>3, <2>5, <2>6, WalkGoesOn
<1> QED BY <1>8, <1>9 DEF s, next

\* What follows i and what precedes it, the other way round.
LEMMA NextPrev ==
  ASSUME NEW F, NEW r, \A i \in F : r[i] \in Nat, \A i, j \in F : r[i] = r[j] => i = j, 0 \notin F,
         NEW i \in F, NEW n \in F
  PROVE  IsNext(F, r, i, n) <=> IsPrev(F, r, n, i)
<1>1. i # 0 /\ n # 0
  OBVIOUS
<1> QED BY <1>1 DEF IsNext, IsPrev

\* A block has one next block,
LEMMA NextOnce ==
  ASSUME NEW F, NEW r, \A i \in F : r[i] \in Nat, \A i, j \in F : r[i] = r[j] => i = j,
         NEW i \in F, NEW n \in F, NEW k, IsNext(F, r, i, n), IsNext(F, r, i, k), n # 0
  PROVE  n = k
<1>1. n \in F /\ r[n] < r[i] /\ \A j \in F : r[j] <= r[n] \/ r[i] <= r[j]
  BY DEF IsNext
<1>2. k # 0
  BY <1>1 DEF IsNext
<1>3. k \in F /\ r[k] < r[i] /\ \A j \in F : r[j] <= r[k] \/ r[i] <= r[j]
  BY <1>2 DEF IsNext
<1>4. r[n] = r[k]
  BY <1>1, <1>3
<1> QED BY <1>1, <1>3, <1>4

\* and one previous one.
LEMMA PrevOnce ==
  ASSUME NEW F, NEW r, \A i \in F : r[i] \in Nat, \A i, j \in F : r[i] = r[j] => i = j,
         NEW i \in F, NEW n \in F, NEW k, IsPrev(F, r, i, n), IsPrev(F, r, i, k), n # 0
  PROVE  n = k
<1>1. n \in F /\ r[i] < r[n] /\ \A j \in F : r[j] <= r[i] \/ r[n] <= r[j]
  BY DEF IsPrev
<1>2. k # 0
  BY <1>1 DEF IsPrev
<1>3. k \in F /\ r[i] < r[k] /\ \A j \in F : r[j] <= r[i] \/ r[k] <= r[j]
  BY <1>2 DEF IsPrev
<1>4. r[n] = r[k]
  BY <1>1, <1>3
<1> QED BY <1>1, <1>3, <1>4

\* How many of F come after i.
After(F, r, i) == {j \in F : r[j] < r[i]}

\* They are no more than there are words, and fewer for what comes later.
LEMMA AfterFalls ==
  ASSUME NEW F \in SUBSET Indices, NEW r, \A i \in F : r[i] \in Nat, NEW i \in F
  PROVE  /\ Cardinality(After(F, r, i)) \in Nat /\ Cardinality(After(F, r, i)) <= Words
         /\ \A n \in F : r[n] < r[i] => Cardinality(After(F, r, n)) < Cardinality(After(F, r, i))
<1>1. IsFiniteSet(Indices) /\ Cardinality(Indices) = Words
  <2>1. Indices = 0 .. Words - 1 /\ 0 \in Int /\ Words - 1 \in Int /\ Words >= 8 /\ Words \in Nat
    BY WordsIs DEF Indices
  <2>2. IsFiniteSet(0 .. Words - 1) /\ Cardinality(0 .. Words - 1) = IF 0 > Words - 1 THEN 0 ELSE (Words - 1) - 0 + 1
    BY <2>1, FS_Interval
  <2> QED BY <2>1, <2>2
<1>2. \A j \in F : After(F, r, j) \subseteq Indices
  BY DEF After
<1>3. \A j \in F : /\ IsFiniteSet(After(F, r, j))
                   /\ Cardinality(After(F, r, j)) \in Nat /\ Cardinality(After(F, r, j)) <= Words
  BY <1>1, <1>2, FS_Subset, FS_CardinalityType
<1>4. ASSUME NEW n \in F, r[n] < r[i]
      PROVE  Cardinality(After(F, r, n)) < Cardinality(After(F, r, i))
  <2>1. After(F, r, n) \subseteq After(F, r, i)
    <3>1. r[n] \in Nat /\ r[i] \in Nat /\ \A j \in F : r[j] \in Nat
      OBVIOUS
    <3> QED BY <1>4, <3>1 DEF After
  <2>2. n \in After(F, r, i) /\ n \notin After(F, r, n)
    BY <1>4 DEF After
  <2>3. After(F, r, n) # After(F, r, i)
    BY <2>2
  <2>4. IsFiniteSet(After(F, r, i))
    BY <1>3
  <2>5. Cardinality(After(F, r, n)) <= Cardinality(After(F, r, i))
        /\ (Cardinality(After(F, r, n)) = Cardinality(After(F, r, i)) => After(F, r, n) = After(F, r, i))
    BY <2>1, <2>4, FS_Subset
  <2> QED BY <1>3, <2>3, <2>5
<1> QED BY <1>3, <1>4

\* Going along the list comes by every free block once.
LEMMA FreeListIs ==
  ASSUME NEW h, NEW B, NEW r, Shape(h, B, r)
  PROVE  LET s == FreeList(h) IN
         /\ Len(s) \in Nat /\ DOMAIN s = 1 .. Len(s)
         /\ IsInjective(s) /\ ToSet(s) = FreeOf(h, B)
         /\ \A k \in DOMAIN s : PrevOf(h, s[k]) = IF k = 1 THEN 0 ELSE s[k - 1]
<1> DEFINE F    == FreeOf(h, B)
           next == [i \in 1 .. Words - 2 |-> NextOf(h, i)]
           m    == [i \in F |-> Cardinality(After(F, r, i))]
           v    == h.avail
           s    == Chain(next, v)
<1>1. h \in Heaps /\ Tiled(h, B) /\ Listed(h, F, r)
  BY DEF Shape
<1>2. F \subseteq Inner(B) /\ F \subseteq B
  BY <1>1, FreeFacts DEF Inner
<1>3. \A i \in F : i \in Indices /\ i \in 1 .. Words - 2 /\ i # 0
  <2> TAKE i \in F
  <2>1. i \in B /\ i \in Inner(B)
    BY <1>2
  <2>2. i \in Nat /\ 2 <= i /\ i + 4 <= Edge /\ i \in Indices
    BY <1>1, <2>1, TileFacts
  <2> QED BY <2>2, WordsIs DEF Edge
<1>4. /\ \A i \in F : r[i] \in Nat
      /\ \A i, j \in F : r[i] = r[j] => i = j
      /\ IsFirst(F, r, v)
      /\ \A i \in F : IsNext(F, r, i, NextOf(h, i)) /\ IsPrev(F, r, i, PrevOf(h, i))
      /\ 0 \notin F
  BY <1>1, <1>3 DEF Listed
<1>5. FreeList(h) = s
  BY DEF FreeList
<1>6. DOMAIN next = 1 .. Words - 2 /\ \A i \in F : i \in DOMAIN next /\ next[i] = NextOf(h, i)
  BY <1>3
<1>7. m \in [F -> Nat] /\ \A i \in F : m[i] = Cardinality(After(F, r, i)) /\ m[i] <= Words
  <2>1. F \in SUBSET Indices
    BY <1>3
  <2> HIDE DEF F
  <2>2. \A i \in F : Cardinality(After(F, r, i)) \in Nat /\ Cardinality(After(F, r, i)) <= Words
    BY <1>4, <2>1, AfterFalls
  <2> QED BY <2>2
<1>8. v \in DOMAIN next => s = Walk(next)[<<v, Words>>]
  BY ChainIsWalk
<1>9. v \notin DOMAIN next => s = << >>
  <2> HIDE DEF next, v
  <2> QED BY DEF Chain
<1> HIDE DEF F, next, m, v, s
<1>10. CASE F = {}
  <2>1. v = 0
    BY <1>4, <1>10 DEF IsFirst
  <2>2. 0 \notin DOMAIN next
    BY <1>6
  <2>3. s = << >>
    BY <1>9, <2>1, <2>2
  <2>4. /\ Len(s) \in Nat /\ DOMAIN s = 1 .. Len(s) /\ DOMAIN s = {}
    BY <2>3
  <2>5. IsInjective(s) /\ ToSet(s) = {}
    BY <2>4 DEF IsInjective, ToSet
  <2> QED BY <1>5, <1>10, <2>4, <2>5 DEF F
<1>11. CASE F # {}
  <2>1. v \in F /\ v # 0 /\ \A j \in F : r[j] <= r[v]
    BY <1>4, <1>11 DEF IsFirst
  <2>2. ASSUME NEW j \in F, next[j] \in DOMAIN next
        PROVE  next[j] \in F /\ r[next[j]] < r[j] /\ m[next[j]] < m[j]
    <3>1. next[j] # 0 /\ next[j] = NextOf(h, j) /\ IsNext(F, r, j, next[j])
      BY <1>4, <1>6, <2>2
    <3>2. next[j] \in F /\ r[next[j]] < r[j]
      BY <3>1 DEF IsNext
    <3>3. F \in SUBSET Indices
      BY <1>3
    <3>4. Cardinality(After(F, r, next[j])) < Cardinality(After(F, r, j))
      BY <1>4, <3>2, <3>3, AfterFalls
    <3> QED BY <1>7, <3>2, <3>4
  <2>3. IsWalk(next, F, m, v, s)
    <3>1. F \subseteq DOMAIN next /\ v \in DOMAIN next /\ m[v] <= Words /\ Words \in Nat
      BY <1>6, <1>7, <2>1, WordsIs
    <3> QED BY <1>7, <1>8, <2>1, <2>2, <3>1, WalkFalls
  <2>4. IsInjective(s) /\ ToSet(s) \subseteq F /\ DOMAIN s = 1 .. Len(s) /\ v \in ToSet(s)
    BY <1>7, <2>3, WalkOnce
  <2>5. /\ s \in Seq(F) /\ Len(s) \in Nat /\ Len(s) > 0 /\ s[1] = v
        /\ \A k \in 1 .. Len(s) - 1 : next[s[k]] = s[k + 1]
        /\ \A k \in 1 .. Len(s) : s[k] \in F
    BY <2>3 DEF IsWalk
  <2>6. F \subseteq ToSet(s)
    <3> DEFINE R == {r[j] : j \in F \ ToSet(s)}
    <3> SUFFICES ASSUME F \ ToSet(s) # {} PROVE FALSE
      OBVIOUS
    <3>1. R # {} /\ R \subseteq 0 .. r[v] /\ r[v] \in Nat
      <4>1. \A j \in F : r[j] \in 0 .. r[v]
        BY <1>4, <2>1
      <4> QED BY <1>4, <2>1, <4>1
    <3>2. PICK x \in R : \A y \in R : y <= x
      <4> HIDE DEF R
      <4> QED BY <3>1, GreatestOf
    <3>3. PICK j \in F \ ToSet(s) : x = r[j]
      OBVIOUS
    <3>4. \A y \in F \ ToSet(s) : r[y] <= r[j]
      BY <3>2, <3>3
    <3> HIDE DEF R
    <3> DEFINE p == PrevOf(h, j)
    <3>5. IsPrev(F, r, j, p)
      BY <1>4
    <3> HIDE DEF p
    <3>6. p # 0
      <4> SUFFICES ASSUME p = 0 PROVE FALSE
        OBVIOUS
      <4>1. r[v] <= r[j]
        BY <2>1, <3>5 DEF IsPrev
      <4>2. v = j
        BY <1>4, <2>1, <4>1
      <4> QED BY <2>4, <4>2
    <3>7. p \in F /\ r[j] < r[p]
      BY <3>5, <3>6 DEF IsPrev
    <3>8. p \in ToSet(s)
      BY <1>4, <3>4, <3>7
    <3>9. IsNext(F, r, p, j)
      BY <1>4, <3>5, <3>7, NextPrev
    <3>10. NextOf(h, p) = j
      <4>1. IsNext(F, r, p, NextOf(h, p)) /\ j # 0
        BY <1>4, <3>7
      <4> QED BY <1>4, <3>7, <3>9, <4>1, NextOnce
    <3>11. next[p] = j /\ j \in DOMAIN next
      BY <1>6, <3>7, <3>10
    <3> QED BY <2>3, <3>8, <3>11, WalkGoesOn
  <2>7. ASSUME NEW k \in 1 .. Len(s)
        PROVE  PrevOf(h, s[k]) = IF k = 1 THEN 0 ELSE s[k - 1]
    <3>1. s[k] \in F /\ IsPrev(F, r, s[k], PrevOf(h, s[k]))
      BY <1>4, <2>5
    <3>2. CASE k = 1
      <4> SUFFICES ASSUME PrevOf(h, v) # 0 PROVE FALSE
        BY <2>5, <3>2
      <4>1. r[v] < r[PrevOf(h, v)] /\ PrevOf(h, v) \in F
        BY <2>5, <3>1, <3>2 DEF IsPrev
      <4> QED BY <1>4, <2>1, <4>1
    <3>3. CASE k # 1
      <4>1. k - 1 \in 1 .. Len(s) - 1 /\ k - 1 \in 1 .. Len(s) /\ (k - 1) + 1 = k
        BY <2>5, <3>3
      <4>2. s[k - 1] \in F /\ next[s[k - 1]] = s[k]
        BY <2>5, <4>1
      <4>3. IsNext(F, r, s[k - 1], s[k])
        BY <1>4, <1>6, <4>2
      <4>4. IsPrev(F, r, s[k], s[k - 1])
        BY <1>4, <3>1, <4>2, <4>3, NextPrev
      <4>5. s[k - 1] # 0
        BY <1>4, <4>2
      <4> QED BY <1>4, <3>1, <3>3, <4>2, <4>4, <4>5, PrevOnce
    <3> QED BY <3>2, <3>3
  <2> QED BY <1>5, <2>4, <2>5, <2>6, <2>7 DEF F
<1> QED BY <1>10, <1>11

-----------------------------------------------------------------------------
(* The searches *)

\* Both searches find a free block that fits, if there is one.
LEMMA BestFitIs ==
  ASSUME NEW h, NEW B, NEW r, Shape(h, B, r), NEW ints \in Nat
  PROVE  IF BestFit(h, ints) = 0 THEN \A i \in FreeOf(h, B) : Size(h, i) < ints
         ELSE BestFit(h, ints) \in FreeOf(h, B) /\ Size(h, BestFit(h, ints)) >= ints
<1> DEFINE s      == FreeList(h)
           fits   == Fits(h, s, ints)
           looked == {k \in fits : Cardinality({j \in fits : j < k}) < Look}
           best   == {k \in looked : \A j \in looked : Size(h, s[k]) <= Size(h, s[j])}
<1>1. /\ Len(s) \in Nat /\ DOMAIN s = 1 .. Len(s) /\ ToSet(s) = FreeOf(h, B)
  BY FreeListIs
<1>2. BestFit(h, ints) = IF fits = {} THEN 0 ELSE s[Min(best)]
  BY DEF BestFit
<1>3. fits = {k \in DOMAIN s : Size(h, s[k]) >= ints}
  BY DEF Fits
<1>4. /\ \A k \in DOMAIN s : s[k] \in FreeOf(h, B)
      /\ \A i \in FreeOf(h, B) : \E k \in DOMAIN s : s[k] = i
  BY <1>1 DEF ToSet
<1>5. \A i \in FreeOf(h, B) : i # 0 /\ Size(h, i) \in Nat
  <2>1. h \in Heaps /\ Tiled(h, B)
    BY DEF Shape
  <2> TAKE i \in FreeOf(h, B)
  <2>2. i \in B /\ i \in Inner(B)
    BY <2>1, FreeFacts DEF Inner
  <2> QED BY <2>1, <2>2, TileFacts DEF Inner
<1> HIDE DEF s, fits
<1>6. CASE fits = {}
  <2>1. ASSUME NEW i \in FreeOf(h, B) PROVE Size(h, i) < ints
    <3>1. PICK k \in DOMAIN s : s[k] = i
      BY <1>4
    <3>2. ~(Size(h, i) >= ints)
      BY <1>3, <1>6, <3>1
    <3> QED BY <1>5, <3>2
  <2> QED BY <1>2, <1>6, <2>1
<1>7. CASE fits # {}
  <2>1. looked # {}
    <3>1. fits \subseteq Nat
      BY <1>1, <1>3
    <3>2. PICK k \in fits : \A j \in fits : k <= j
      BY <1>7, <3>1, LeastOf
    <3>3. {j \in fits : j < k} = {}
      <4>1. \A j \in fits : j \in Nat /\ k \in Nat /\ k <= j
        BY <3>1, <3>2
      <4>2. \A j \in fits : ~(j < k)
        BY <4>1
      <4> QED BY <4>2
    <3>4. Cardinality({j \in fits : j < k}) = 0
      BY <3>3, FS_EmptySet
    <3> QED BY <3>2, <3>4, HeapAssumption
  <2>2. best # {}
    <3> DEFINE Z == {Size(h, s[k]) : k \in looked}
    <3>0. \A k \in looked : Size(h, s[k]) \in Nat
      BY <1>3, <1>4, <1>5
    <3>1. Z # {} /\ Z \subseteq Nat
      BY <2>1, <3>0
    <3> HIDE DEF looked
    <3>2. PICK z \in Z : \A y \in Z : z <= y
      <4> HIDE DEF Z
      <4> QED BY <3>1, LeastOf
    <3>3. PICK k \in looked : z = Size(h, s[k])
      OBVIOUS
    <3>4. \A j \in looked : Size(h, s[k]) <= Size(h, s[j])
      BY <3>2, <3>3
    <3> QED BY <3>3, <3>4
  <2>3. best \subseteq fits /\ best \subseteq Nat
    BY <1>1, <1>3
  <2> HIDE DEF best, looked
  <2>4. Min(best) \in fits
    BY <2>2, <2>3, MinIs
  <2>5. s[Min(best)] \in FreeOf(h, B) /\ Size(h, s[Min(best)]) >= ints
    BY <1>3, <1>4, <2>4
  <2> QED BY <1>2, <1>5, <1>7, <2>5
<1> QED BY <1>6, <1>7

\* The same of the program's search.
LEMMA FirstFitIs ==
  ASSUME NEW h, NEW B, NEW r, Shape(h, B, r), NEW ints \in Nat
  PROVE  IF FirstFit(h, ints) = 0 THEN \A i \in FreeOf(h, B) : Size(h, i) < ints
         ELSE FirstFit(h, ints) \in FreeOf(h, B) /\ Size(h, FirstFit(h, ints)) >= ints
<1> DEFINE s    == FreeList(h)
           fits == Fits(h, s, ints)
<1>1. /\ Len(s) \in Nat /\ DOMAIN s = 1 .. Len(s) /\ ToSet(s) = FreeOf(h, B)
  BY FreeListIs
<1>2. FirstFit(h, ints) = IF fits = {} THEN 0 ELSE s[Min(fits)]
  BY DEF FirstFit
<1>3. fits = {k \in DOMAIN s : Size(h, s[k]) >= ints}
  BY DEF Fits
<1>4. /\ \A k \in DOMAIN s : s[k] \in FreeOf(h, B)
      /\ \A i \in FreeOf(h, B) : \E k \in DOMAIN s : s[k] = i
  BY <1>1 DEF ToSet
<1>5. \A i \in FreeOf(h, B) : i # 0 /\ Size(h, i) \in Nat
  <2>1. h \in Heaps /\ Tiled(h, B)
    BY DEF Shape
  <2> TAKE i \in FreeOf(h, B)
  <2>2. i \in B /\ i \in Inner(B)
    BY <2>1, FreeFacts DEF Inner
  <2> QED BY <2>1, <2>2, TileFacts DEF Inner
<1> HIDE DEF s, fits
<1>6. CASE fits = {}
  <2>1. ASSUME NEW i \in FreeOf(h, B) PROVE Size(h, i) < ints
    <3>1. PICK k \in DOMAIN s : s[k] = i
      BY <1>4
    <3>2. ~(Size(h, i) >= ints)
      BY <1>3, <1>6, <3>1
    <3> QED BY <1>5, <3>2
  <2> QED BY <1>2, <1>6, <2>1
<1>7. CASE fits # {}
  <2>1. fits \subseteq Nat
    BY <1>1, <1>3
  <2>2. Min(fits) \in fits
    BY <1>7, <2>1, MinIs
  <2>3. s[Min(fits)] \in FreeOf(h, B) /\ Size(h, s[Min(fits)]) >= ints
    BY <1>3, <1>4, <2>2
  <2> QED BY <1>2, <1>5, <1>7, <2>3
<1> QED BY <1>6, <1>7

-----------------------------------------------------------------------------
(* The invariant *)

\* Clients have pointers into different blocks.
Pointers(H) ==
  /\ H \subseteq Indices \X Requests
  /\ \A x \in H : x[1] - 1 \notin {0, Edge}
  /\ \A x, y \in H : x[1] = y[1] => x = y

\* What is taken is what clients hold, and the ends.
Blocks(H) == {0, Edge} \cup {x[1] - 1 : x \in H}

Holds(h, B, H) == TakenOf(h, B) = Blocks(H)

\* A client has a block as large as it asked for, and in it what it stored.
Served(h, x) ==
  /\ Size(h, x[1] - 1) >= Ints(x[2])
  /\ \A k \in Area(x[1], x[2]) : h.array[k] = Junk

Good(h, H) ==
  \E B, r : /\ Shape(h, B, r)
            /\ Pointers(H)
            /\ Holds(h, B, H)
            /\ \A x \in H : Served(h, x)

HeapInv == Good(heap, held)

\* The block of a client.
LEMMA ClientIs ==
  ASSUME NEW h, NEW B, NEW r, Shape(h, B, r), NEW H, Pointers(H), NEW x \in H,
         x[1] - 1 \in TakenOf(h, B), Size(h, x[1] - 1) >= Ints(x[2])
  PROVE  /\ x = <<x[1], x[2]>> /\ x[1] \in Nat /\ x[1] \in Indices /\ x[2] \in Requests
         /\ x[1] - 1 \in Inner(B) /\ x[1] - 1 \in Nat /\ (x[1] - 1) + 1 = x[1]
         /\ Area(x[1], x[2]) \subseteq x[1] .. (x[1] - 1) + Size(h, x[1] - 1) - 2
         /\ Area(x[1], x[2]) \subseteq CellsOf(h, x[1] - 1)
<1> DEFINE i == x[1] - 1
           w == Size(h, i)
<1>1. x \in Indices \X Requests /\ i \notin {0, Edge}
  BY DEF Pointers
<1>2. x = <<x[1], x[2]>> /\ x[1] \in Indices /\ x[2] \in Requests
  BY <1>1
<1>3. i \in B /\ h \in Heaps /\ Tiled(h, B)
  BY DEF TakenOf, Shape
<1>4. i \in Nat /\ w \in Nat /\ x[1] \in Nat /\ i + 1 = x[1]
  <2>1. i \in Nat /\ w \in Nat
    BY <1>3, TileFacts
  <2>2. x[1] \in Nat
    BY <1>2 DEF Indices
  <2> QED BY <2>1, <2>2
<1> HIDE DEF w
<1>5. Area(i + 1, x[2]) \subseteq i + 1 .. i + w - 2
  BY <1>2, <1>4, AreaIs DEF w
<1>6. CellsOf(h, i) = i .. i + w - 1
  BY DEF CellsOf, w
<1>7. i + 1 .. i + w - 2 \subseteq i .. i + w - 1
  BY <1>4
<1>8. Area(x[1], x[2]) \subseteq x[1] .. i + w - 2
  BY <1>4, <1>5
<1>9. Area(x[1], x[2]) \subseteq CellsOf(h, i)
  BY <1>4, <1>5, <1>6, <1>7
<1> HIDE DEF i
<1>10. i \in Inner(B)
  BY <1>1, <1>3 DEF Inner
<1> QED BY <1>2, <1>4, <1>8, <1>9, <1>10 DEF i, w

\* A block that is the same serves its client as before.
LEMMA ServedKept ==
  ASSUME NEW h, NEW B, NEW r, Shape(h, B, r), NEW H, Pointers(H), NEW x \in H, NEW g,
         NEW T, T \subseteq TakenOf(h, B), x[1] - 1 \in T, SameCells(h, g, T), Served(h, x)
  PROVE  Served(g, x)
<1> DEFINE i == x[1] - 1
<1>1. i \in TakenOf(h, B) /\ Size(h, i) >= Ints(x[2]) /\ \A k \in CellsOf(h, i) : g.array[k] = h.array[k]
  BY DEF Served, SameCells
<1>2. Area(x[1], x[2]) \subseteq CellsOf(h, i)
  BY <1>1, ClientIs
<1>3. g.array[i] = h.array[i]
  <2>1. i \in B /\ h \in Heaps /\ Tiled(h, B)
    BY <1>1 DEF TakenOf, Shape
  <2> HIDE DEF i
  <2>2. i \in CellsOf(h, i)
    BY <2>1, CellsAre
  <2> QED BY <1>1, <2>2
<1>4. Size(g, i) = Size(h, i)
  BY <1>3 DEF Size
<1>5. \A k \in Area(x[1], x[2]) : g.array[k] = h.array[k]
  BY <1>1, <1>2
<1> QED BY <1>4, <1>5 DEF Served

-----------------------------------------------------------------------------
(* malloc *)

\* What the client fills, or copies, are words of its own.
LEMMA FillIs ==
  ASSUME NEW h \in Heaps, NEW p, NEW bytes
  PROVE  /\ Fill(h, p, bytes) \in Heaps /\ Fill(h, p, bytes).avail = h.avail
         /\ \A k \in Indices : Fill(h, p, bytes).array[k] = IF k \in Area(p, bytes) THEN Junk ELSE h.array[k]
BY HeapAssumption DEF Fill, Heaps

\* A block that was found is carved, and the clients are served as before.
LEMMA CarveServes ==
  ASSUME NEW h, NEW B, NEW r, Shape(h, B, r), NEW H, Pointers(H), Holds(h, B, H), \A x \in H : Served(h, x),
         NEW i \in FreeOf(h, B), NEW bytes \in Requests, Size(h, i) >= Ints(bytes)
  PROVE  \E C, s : /\ Shape(Carve(h, i, Ints(bytes)), C, s)
                   /\ TakenOf(Carve(h, i, Ints(bytes)), C) = TakenOf(h, B) \cup {i}
                   /\ Size(Carve(h, i, Ints(bytes)), i) >= Ints(bytes)
                   /\ \A x \in H : Served(Carve(h, i, Ints(bytes)), x)
<1> DEFINE g == Carve(h, i, Ints(bytes))
<1>1. Ints(bytes) \in Nat /\ Ints(bytes) >= 4
  BY AreaIs
<1>2. PICK C, s : /\ Shape(g, C, s)
                  /\ TakenOf(g, C) = TakenOf(h, B) \cup {i}
                  /\ Size(g, i) >= Ints(bytes)
                  /\ SameCells(h, g, TakenOf(h, B))
  BY <1>1, CarveShape
<1> HIDE DEF g
<1>3. \A x \in H : x[1] - 1 \in TakenOf(h, B)
  BY DEF Holds, Blocks
<1>4. \A x \in H : Served(g, x)
  BY <1>2, <1>3, ServedKept
<1> QED BY <1>2, <1>4 DEF g

\* A new client, with a block of its own.
LEMMA OneMore ==
  ASSUME NEW h, NEW B, NEW r, Shape(h, B, r), NEW H, Pointers(H),
         NEW i \in TakenOf(h, B), i \notin {0, Edge}, \A x \in H : x[1] - 1 # i,
         TakenOf(h, B) = Blocks(H) \cup {i},
         NEW bytes \in Requests, NEW K, K = H \cup {<<i + 1, bytes>>}
  PROVE  Pointers(K) /\ Holds(h, B, K)
<1>1. i \in Nat /\ i + 1 \in Indices /\ (i + 1) - 1 = i
  <2>1. i \in B /\ h \in Heaps /\ Tiled(h, B)
    BY DEF TakenOf, Shape
  <2>2. i \in Nat /\ i <= Edge /\ Edge = Words - 2 /\ Words \in Nat
    BY <2>1, TileFacts, WordsIs DEF Edge
  <2> QED BY <2>2 DEF Indices
<1> DEFINE n == <<i + 1, bytes>>
<1>2. n \in Indices \X Requests /\ n[1] = i + 1
  BY <1>1
<1> HIDE DEF n
<1>3. K = H \cup {n}
  BY DEF n
<1>4. /\ H \subseteq Indices \X Requests
      /\ \A x \in H : x[1] - 1 \notin {0, Edge}
      /\ \A x, y \in H : x[1] = y[1] => x = y
      /\ \A x \in H : x[1] \in Indices
  BY DEF Pointers
<1>5. n[1] - 1 = i
  BY <1>1, <1>2
<1>6. \A x \in H : x[1] # n[1]
  BY <1>5
<1>7. Pointers(K)
  <2>1. K \subseteq Indices \X Requests
    BY <1>2, <1>3, <1>4
  <2>2. \A x \in K : x[1] - 1 \notin {0, Edge}
    BY <1>3, <1>4, <1>5
  <2>3. ASSUME NEW x \in K, NEW y \in K, x[1] = y[1] PROVE x = y
    BY <1>3, <1>4, <1>6, <2>3
  <2> QED BY <2>1, <2>2, <2>3 DEF Pointers
<1>8. {x[1] - 1 : x \in K} = {x[1] - 1 : x \in H} \cup {i}
  BY <1>3, <1>5
<1>9. Holds(h, B, K)
  BY <1>8 DEF Holds, Blocks
<1> QED BY <1>7, <1>9

\* malloc: the invariant holds again, with the new client and what it has filled.
LEMMA MallocGood ==
  ASSUME NEW h, NEW B, NEW r, Shape(h, B, r), NEW H, Pointers(H), Holds(h, B, H), \A x \in H : Served(h, x),
         NEW i \in FreeOf(h, B), NEW bytes \in Requests, Size(h, i) >= Ints(bytes)
  PROVE  Good(Fill(Carve(h, i, Ints(bytes)), i + 1, bytes), H \cup {<<i + 1, bytes>>})
<1> DEFINE c == Carve(h, i, Ints(bytes))
           g == Fill(c, i + 1, bytes)
           n == <<i + 1, bytes>>
           K == H \cup {<<i + 1, bytes>>}
<1>1. PICK C, s : /\ Shape(c, C, s)
                  /\ TakenOf(c, C) = TakenOf(h, B) \cup {i}
                  /\ Size(c, i) >= Ints(bytes)
                  /\ \A x \in H : Served(c, x)
  BY CarveServes
<1> HIDE DEF c
<1>2. c \in Heaps /\ Tiled(c, C)
  BY <1>1 DEF Shape
<1>3. i \in TakenOf(c, C) /\ i \notin TakenOf(h, B) /\ i \notin {0, Edge} /\ i \in C /\ i \in B
  <2>1. h \in Heaps /\ Tiled(h, B)
    BY DEF Shape
  <2> QED BY <1>1, <2>1, FreeFacts DEF TakenOf, Inner
<1>4. i \in Nat /\ Size(c, i) \in Nat
  BY <1>2, <1>3, TileFacts
<1>5. Area(i + 1, bytes) \subseteq i + 1 .. i + Size(c, i) - 2
  BY <1>1, <1>4, AreaIs
<1>6. /\ g \in Heaps /\ g.avail = c.avail
      /\ \A k \in Indices : g.array[k] = IF k \in Area(i + 1, bytes) THEN Junk ELSE c.array[k]
  BY <1>2, FillIs
<1> HIDE DEF g
<1>7. \A k \in Indices : k \notin i + 1 .. i + Size(c, i) - 2 => g.array[k] = c.array[k]
  BY <1>5, <1>6
<1>8. /\ Shape(g, C, s) /\ TakenOf(g, C) = TakenOf(c, C)
      /\ \A b \in C : Size(g, b) = Size(c, b)
      /\ SameCells(c, g, TakenOf(c, C) \ {i})
  BY <1>1, <1>3, <1>6, <1>7, InsideShape
<1>9. \A x \in H : x[1] - 1 # i /\ x[1] - 1 \in TakenOf(c, C) \ {i}
  BY <1>1, <1>3 DEF Holds, Blocks
<1>10. \A x \in H : Served(g, x)
  <2> TAKE x \in H
  <2> DEFINE T == TakenOf(c, C) \ {i}
  <2>1. T \subseteq TakenOf(c, C) /\ x[1] - 1 \in T /\ SameCells(c, g, T)
    BY <1>8, <1>9
  <2> HIDE DEF T
  <2> QED BY <1>1, <2>1, ServedKept
<1>11. Pointers(K) /\ Holds(g, C, K)
  <2>1. TakenOf(g, C) = Blocks(H) \cup {i}
    BY <1>1, <1>8 DEF Holds
  <2>2. i \in TakenOf(g, C) /\ K = H \cup {<<i + 1, bytes>>} /\ \A x \in H : x[1] - 1 # i
    BY <1>3, <1>8, <1>9
  <2> HIDE DEF K
  <2>3. Pointers(K)
    BY <1>3, <1>8, <2>1, <2>2, OneMore
  <2>4. Holds(g, C, K)
    BY <1>3, <1>8, <2>1, <2>2, OneMore
  <2> QED BY <2>3, <2>4
<1>12. Served(g, n)
  <2>1. n[1] = i + 1 /\ n[2] = bytes /\ n[1] - 1 = i
    BY <1>4
  <2> HIDE DEF n
  <2>2. Size(g, i) >= Ints(bytes)
    BY <1>1, <1>3, <1>8
  <2>3. ASSUME NEW k \in Area(i + 1, bytes) PROVE g.array[k] = Junk
    <3>1. i + Size(c, i) - 1 \in Indices
      BY <1>2, <1>3, TileFacts
    <3>2. k \in Indices
      <4>1. k \in i + 1 .. i + Size(c, i) - 2
        BY <1>5
      <4> QED BY <1>4, <3>1, <4>1, WordsIs DEF Indices
    <3> QED BY <1>6, <3>2
  <2> QED BY <2>1, <2>2, <2>3 DEF Served
<1>13. \A x \in K : Served(g, x)
  <2>1. \A x \in K : x \in H \/ x = n
    OBVIOUS
  <2> HIDE DEF n, K
  <2> QED BY <1>10, <1>12, <2>1
<1>14. Good(g, K)
  <2> HIDE DEF K
  <2> QED BY <1>8, <1>11, <1>13 DEF Good
<1> QED BY <1>14 DEF g, c

\* One client less.
LEMMA OneLess ==
  ASSUME NEW H, Pointers(H), NEW n \in H, NEW m, m = n[1] - 1, NEW K, K = H \ {n}
  PROVE  /\ Pointers(K)
         /\ Blocks(K) = Blocks(H) \ {m}
         /\ \A x \in K : x[1] - 1 # m
<1>1. \A x \in H : x[1] \in Nat /\ x[1] - 1 \notin {0, Edge}
  <2> TAKE x \in H
  <2>1. x \in Indices \X Requests /\ x[1] - 1 \notin {0, Edge}
    BY DEF Pointers
  <2>2. x[1] \in Indices
    BY <2>1
  <2> QED BY <2>1, <2>2, WordsIs DEF Indices
<1>2. \A x, y \in H : x[1] = y[1] => x = y
  BY DEF Pointers
<1>3. \A x \in K : x[1] - 1 # n[1] - 1
  <2> TAKE x \in K
  <2>1. x \in H /\ x # n
    OBVIOUS
  <2>2. x[1] # n[1] /\ x[1] \in Nat /\ n[1] \in Nat
    BY <1>1, <1>2, <2>1
  <2> QED BY <2>2
<1>4. Pointers(K)
  BY DEF Pointers
<1>5. \A x \in H : x \in K \/ x = n
  OBVIOUS
<1>6. K \subseteq H
  OBVIOUS
<1>7. Blocks(K) = Blocks(H) \ {n[1] - 1}
  <2>1. n[1] - 1 \notin {0, Edge}
    BY <1>1
  <2>2. {x[1] - 1 : x \in H} = {x[1] - 1 : x \in K} \cup {n[1] - 1}
    BY <1>5, <1>6
  <2>3. n[1] - 1 \notin {x[1] - 1 : x \in K}
    BY <1>3
  <2> QED BY <2>1, <2>2, <2>3 DEF Blocks
<1> QED BY <1>3, <1>4, <1>7

\* free.
LEMMA MergeGood ==
  ASSUME NEW h, NEW B, NEW r, Shape(h, B, r), NEW H, Pointers(H), Holds(h, B, H), \A x \in H : Served(h, x),
         NEW n \in H
  PROVE  h.array[n[1] - 1] < 0 /\ Good(Merge(h, n[1] - 1), H \ {n})
<1> DEFINE i == n[1] - 1
           g == Merge(h, i)
           K == H \ {n}
           T == TakenOf(h, B) \ {i}
<1>1. h \in Heaps /\ Tiled(h, B)
  BY DEF Shape
<1>2. i \in TakenOf(h, B) /\ h.array[i] < 0
  BY DEF Holds, Blocks, TakenOf
<1>3. i \in Inner(B)
  BY <1>2, ClientIs DEF Served
<1> HIDE DEF i
<1>4. PICK C, s : /\ Shape(g, C, s)
                  /\ TakenOf(g, C) = T
                  /\ SameCells(h, g, T)
  BY <1>2, <1>3, MergeShape
<1> HIDE DEF g
<1>5. /\ Pointers(K) /\ T = Blocks(K) /\ \A x \in K : x[1] - 1 # i
  <2>1. T = Blocks(H) \ {i} /\ K = H \ {n} /\ i = n[1] - 1
    BY DEF Holds, i
  <2> HIDE DEF K, T
  <2> QED BY <2>1, OneLess
<1>6. Holds(g, C, K)
  <2> HIDE DEF K, T
  <2> QED BY <1>4, <1>5 DEF Holds
<1>7. \A x \in K : Served(g, x)
  <2> TAKE x \in K
  <2>1. x \in H /\ x[1] - 1 \in T /\ T \subseteq TakenOf(h, B)
    BY <1>5 DEF Blocks
  <2> HIDE DEF T
  <2> QED BY <1>4, <2>1, ServedKept
<1> HIDE DEF K
<1>8. Good(g, K)
  BY <1>4, <1>5, <1>6, <1>7 DEF Good
<1> QED BY <1>2, <1>8 DEF i, g, K

-----------------------------------------------------------------------------
(* realloc *)

\* How much is copied, by the size w of the old block: no more than the new one holds, nor
\* than there are words from the old pointer on, and all of what was stored.
LEMMA KeptIs ==
  ASSUME NEW bytes \in Requests, NEW size \in Requests, NEW p \in Nat, NEW q \in Nat,
         NEW w \in Nat, w = Size(heap, p - 1), w >= Ints(bytes)
  PROVE  /\ Area(q, Kept(p, size)) \subseteq Area(q, size)
         /\ \A k \in Area(q, Kept(p, size)) : k - q \in 0 .. w - 1
         /\ Area(q, size) \cap Area(q, bytes) \subseteq Area(q, Kept(p, size))
         /\ \A k \in Area(q, bytes) : p + (k - q) \in Area(p, bytes)
<1> DEFINE kept == Kept(p, size)
           n(b) == (b + 3) \div 4
<1>1. bytes \in Nat /\ size \in Nat
  BY HeapAssumption
<1>2. kept = IF size > 4 * w THEN 4 * w ELSE size
  BY DEF Kept
<1>3. kept \in Nat /\ kept <= size /\ kept <= 4 * w
  BY <1>1, <1>2
<1> HIDE DEF kept
<1>4. /\ n(bytes) \in Nat /\ n(size) \in Nat /\ n(kept) \in Nat
      /\ n(kept) <= n(size) /\ n(kept) <= w
  BY <1>1, <1>3
<1>5. n(bytes) <= w
  BY <1>1, <1>4 DEF Ints
<1>6. n(kept) = n(size) \/ n(kept) = w
  BY <1>1, <1>2
<1>7. \A b : Area(q, b) = q .. q + n(b) - 1 /\ Area(p, b) = p .. p + n(b) - 1
  BY DEF Area
<1> HIDE DEF n
<1>8. Area(q, kept) \subseteq Area(q, size)
  BY <1>4, <1>7
<1>9. \A k \in Area(q, kept) : k - q \in 0 .. w - 1
  BY <1>4, <1>7
<1>10. Area(q, size) \cap Area(q, bytes) \subseteq Area(q, kept)
  BY <1>4, <1>5, <1>6, <1>7
<1>11. \A k \in Area(q, bytes) : p + (k - q) \in Area(p, bytes)
  BY <1>4, <1>7
<1> QED BY <1>8, <1>9, <1>10, <1>11 DEF kept

\* What is copied, and what is filled of the rest.
LEMMA CopiedIs ==
  ASSUME NEW h \in Heaps, NEW q, NEW p, NEW bytes,
         \A k \in Indices : k \in Area(q, bytes) => p + (k - q) \in Indices
  PROVE  /\ Copied(h, q, p, bytes) \in Heaps /\ Copied(h, q, p, bytes).avail = h.avail
         /\ \A k \in Indices : Copied(h, q, p, bytes).array[k]
                                 = IF k \in Area(q, bytes) THEN h.array[p + (k - q)] ELSE h.array[k]
BY DEF Copied, Heaps

\* What the client fills that realloc gave more.
LEMMA FillRestIs ==
  ASSUME NEW h \in Heaps, NEW q, NEW bytes, NEW size
  PROVE  /\ FillRest(h, q, bytes, size) \in Heaps /\ FillRest(h, q, bytes, size).avail = h.avail
         /\ \A k \in Indices : FillRest(h, q, bytes, size).array[k]
                                 = IF k \in Area(q, size) \ Area(q, bytes) THEN Junk ELSE h.array[k]
BY HeapAssumption DEF FillRest, Heaps

\* realloc, when there is a block: the invariant holds again, with the client at its new block
\* and what it had stored there.
LEMMA ReallocGood ==
  ASSUME NEW B, NEW r, Shape(heap, B, r), Pointers(held), Holds(heap, B, held), \A x \in held : Served(heap, x),
         NEW p, NEW bytes \in Requests, <<p, bytes>> \in held,
         NEW i \in FreeOf(heap, B), NEW size \in Requests, Size(heap, i) >= Ints(size)
  PROVE  Good(FillRest(Moved(p, i, size), i + 1, bytes, size),
              (held \ {<<p, bytes>>}) \cup {<<i + 1, size>>})
<1> DEFINE n == <<p, bytes>>
           o == p - 1
           w == Size(heap, o)
           kept == Kept(p, size)
           c == Carve(heap, i, Ints(size))
           d == Copied(c, i + 1, p, kept)
           e == Merge(d, o)
           f == FillRest(e, i + 1, bytes, size)
           H == held \ {n}
           K == H \cup {<<i + 1, size>>}
<1>1. PICK C, s : /\ Shape(c, C, s)
                  /\ TakenOf(c, C) = TakenOf(heap, B) \cup {i}
                  /\ Size(c, i) >= Ints(size)
                  /\ \A x \in held : Served(c, x)
  BY CarveServes
<1>2. heap \in Heaps /\ Tiled(heap, B) /\ c \in Heaps /\ Tiled(c, C)
  BY <1>1 DEF Shape
<1>3. /\ i \in B /\ i \in C /\ i \in TakenOf(c, C) /\ i \notin TakenOf(heap, B) /\ i \notin {0, Edge} /\ i # 0
      /\ i \in Nat /\ Size(c, i) \in Nat /\ i + Size(c, i) - 1 \in Indices
  <2>1. i \in B /\ i \in C /\ i \in TakenOf(c, C) /\ i \notin TakenOf(heap, B) /\ i \notin {0, Edge} /\ i # 0
    BY <1>1, <1>2, FreeFacts DEF TakenOf, Inner
  <2> HIDE DEF c
  <2> QED BY <1>2, <2>1, TileFacts
<1>4. /\ n \in held /\ n[1] = p /\ n[2] = bytes
      /\ o \in TakenOf(heap, B) /\ w >= Ints(bytes) /\ Served(c, n)
  <2>1. n \in held /\ n[1] = p /\ n[2] = bytes
    OBVIOUS
  <2>2. Served(heap, n) /\ Served(c, n)
    BY <1>1, <2>1
  <2>3. o \in TakenOf(heap, B)
    BY <2>1 DEF Holds, Blocks
  <2> QED BY <2>1, <2>2, <2>3 DEF Served
<1>5. /\ p \in Nat /\ o \in Inner(B) /\ o \in Nat /\ o + 1 = p /\ o \in B
  <2> HIDE DEF n, c
  <2>1. n[1] \in Nat /\ n[1] - 1 \in Inner(B) /\ n[1] - 1 \in Nat /\ (n[1] - 1) + 1 = n[1]
    BY <1>4, ClientIs
  <2> QED BY <1>4, <2>1 DEF TakenOf
<1>6. w \in Nat /\ o + w <= Edge /\ Edge = Words - 2 /\ Words \in Nat
  <2>1. w \in Nat /\ (o # Edge => o + w <= Edge) /\ Edge = Words - 2 /\ Words \in Nat
    BY <1>2, <1>5, TileFacts, WordsIs DEF Edge
  <2> QED BY <1>5, <2>1 DEF Inner
<1> HIDE DEF n, w, c
<1>7. /\ Area(i + 1, kept) \subseteq Area(i + 1, size)
      /\ \A k \in Area(i + 1, kept) : k - (i + 1) \in 0 .. w - 1
      /\ Area(i + 1, size) \cap Area(i + 1, bytes) \subseteq Area(i + 1, kept)
      /\ \A k \in Area(i + 1, bytes) : p + (k - (i + 1)) \in Area(p, bytes)
  <2>1. w = Size(heap, p - 1) /\ i + 1 \in Nat
    BY <1>3 DEF w
  <2> HIDE DEF o, kept
  <2> QED BY <1>4, <1>5, <1>6, <2>1, KeptIs DEF kept
<1> HIDE DEF kept
<1>8. Area(i + 1, size) \subseteq i + 1 .. i + Size(c, i) - 2
  BY <1>1, <1>3, AreaIs
<1>9. \A k \in Area(i + 1, size) : k \in Indices /\ k \in CellsOf(c, i)
  <2> TAKE k \in Area(i + 1, size)
  <2>1. k \in i + 1 .. i + Size(c, i) - 2
    BY <1>8
  <2>2. k \in Indices
    BY <1>3, <2>1, WordsIs DEF Indices
  <2>3. k \in CellsOf(c, i)
    BY <1>3, <2>1 DEF CellsOf
  <2> QED BY <2>2, <2>3
<1>10. /\ d \in Heaps /\ d.avail = c.avail
       /\ \A k \in Indices : d.array[k] = IF k \in Area(i + 1, kept) THEN c.array[p + (k - (i + 1))]
                                          ELSE c.array[k]
  <2>1. ASSUME NEW k \in Indices, k \in Area(i + 1, kept) PROVE p + (k - (i + 1)) \in Indices
    <3> DEFINE z == k - (i + 1)
    <3>1. z \in 0 .. w - 1
      BY <1>7, <2>1
    <3> HIDE DEF z, o
    <3>2. p + z <= Words - 2 /\ p + z \in Nat
      <4>1. p + w <= Words - 1
        BY <1>5, <1>6
      <4> QED BY <1>5, <1>6, <3>1, <4>1
    <3>3. p + z \in Indices
      BY <1>6, <3>2 DEF Indices
    <3> QED BY <3>3 DEF z
  <2> QED BY <1>2, <2>1, CopiedIs
<1> HIDE DEF d
<1>11. /\ Shape(d, C, s) /\ TakenOf(d, C) = TakenOf(c, C)
       /\ \A b \in C : Size(d, b) = Size(c, b)
       /\ SameCells(c, d, TakenOf(c, C) \ {i})
  <2>1. \A k \in Indices : k \notin i + 1 .. i + Size(c, i) - 2 => d.array[k] = c.array[k]
    BY <1>7, <1>8, <1>10
  <2> QED BY <1>1, <1>3, <1>10, <2>1, InsideShape
<1>12. \A x \in held : x[1] - 1 # i /\ x[1] - 1 \in TakenOf(c, C) \ {i} /\ x[1] - 1 \in TakenOf(d, C)
  BY <1>1, <1>3, <1>11 DEF Holds, Blocks
<1>13. \A x \in held : Served(d, x)
  <2> TAKE x \in held
  <2> DEFINE T == TakenOf(c, C) \ {i}
  <2>1. T \subseteq TakenOf(c, C) /\ x[1] - 1 \in T /\ SameCells(c, d, T) /\ Served(c, x)
    BY <1>1, <1>11, <1>12
  <2> HIDE DEF T
  <2> QED BY <1>1, <2>1, ServedKept
<1>14. o \in TakenOf(d, C) /\ o \in Inner(C) /\ d.array[o] < 0 /\ o # i
  <2>1. o \in TakenOf(d, C) /\ o # i
    BY <1>4, <1>12
  <2>2. o \notin {0, Edge}
    BY <1>5 DEF Inner
  <2> HIDE DEF o
  <2> QED BY <2>1, <2>2 DEF TakenOf, Inner
<1>15. PICK D, t : /\ Shape(e, D, t)
                   /\ TakenOf(e, D) = TakenOf(d, C) \ {o}
                   /\ SameCells(d, e, TakenOf(d, C) \ {o})
  <2> HIDE DEF o
  <2> QED BY <1>11, <1>14, MergeShape
<1> HIDE DEF e
<1> DEFINE T == TakenOf(d, C) \ {o}
<1>16. /\ Pointers(H) /\ T = Blocks(H) \cup {i}
       /\ \A x \in H : x \in held /\ x[1] - 1 # o /\ x[1] - 1 # i /\ x[1] - 1 \in T
  <2>1. o = n[1] - 1 /\ H = held \ {n} /\ n \in held /\ \A x \in H : x \in held
    BY <1>4
  <2>2. TakenOf(d, C) = Blocks(held) \cup {i}
    BY <1>1, <1>11 DEF Holds
  <2> HIDE DEF H, o
  <2>3. Pointers(H) /\ Blocks(H) = Blocks(held) \ {o} /\ \A x \in H : x[1] - 1 # o
    BY <2>1, OneLess
  <2>4. T = Blocks(H) \cup {i}
    BY <1>14, <2>2, <2>3
  <2>5. \A x \in H : x[1] - 1 \in Blocks(H)
    BY DEF Blocks
  <2> HIDE DEF T
  <2> QED BY <1>12, <2>1, <2>3, <2>4, <2>5
<1>17. \A x \in H : Served(e, x)
  <2> TAKE x \in H
  <2>1. T \subseteq TakenOf(d, C) /\ x \in held /\ x[1] - 1 \in T /\ SameCells(d, e, T) /\ Served(d, x)
    BY <1>13, <1>15, <1>16
  <2> HIDE DEF T, H
  <2> QED BY <1>11, <2>1, ServedKept
<1>18. i \in TakenOf(e, D) /\ i \in T /\ \A k \in CellsOf(d, i) : e.array[k] = d.array[k]
  BY <1>1, <1>3, <1>11, <1>14, <1>15 DEF SameCells
<1>19. /\ Size(d, i) = Size(c, i) /\ CellsOf(d, i) = CellsOf(c, i) /\ Size(e, i) = Size(c, i)
       /\ i \in D
  <2>1. Size(d, i) = Size(c, i)
    BY <1>3, <1>11
  <2>2. CellsOf(d, i) = CellsOf(c, i)
    BY <2>1 DEF CellsOf
  <2>3. i \in CellsOf(c, i)
    BY <1>2, <1>3, CellsAre
  <2>4. e.array[i] = d.array[i]
    BY <1>18, <2>2, <2>3
  <2>5. Size(e, i) = Size(d, i)
    BY <2>4 DEF Size
  <2> QED BY <1>18, <2>1, <2>2, <2>5 DEF TakenOf
<1>20. /\ f \in Heaps /\ f.avail = e.avail
       /\ \A k \in Indices : f.array[k] = IF k \in Area(i + 1, size) \ Area(i + 1, bytes) THEN Junk
                                          ELSE e.array[k]
  <2>1. e \in Heaps
    BY <1>15 DEF Shape
  <2> QED BY <2>1, FillRestIs
<1> HIDE DEF f
<1>21. /\ Shape(f, D, t) /\ TakenOf(f, D) = TakenOf(e, D)
       /\ \A b \in D : Size(f, b) = Size(e, b)
       /\ SameCells(e, f, TakenOf(e, D) \ {i})
  <2>1. \A k \in Indices : k \notin i + 1 .. i + Size(e, i) - 2 => f.array[k] = e.array[k]
    BY <1>8, <1>19, <1>20
  <2> QED BY <1>15, <1>18, <1>20, <2>1, InsideShape
<1>22. \A x \in H : Served(f, x)
  <2> TAKE x \in H
  <2> DEFINE Q == TakenOf(e, D) \ {i}
  <2>1. Q \subseteq TakenOf(e, D) /\ x[1] - 1 \in Q /\ SameCells(e, f, Q) /\ Served(e, x) /\ Pointers(H)
    BY <1>15, <1>16, <1>17, <1>21
  <2> HIDE DEF Q, H, T
  <2> QED BY <1>15, <2>1, ServedKept
<1>23. Pointers(K) /\ Holds(f, D, K)
  <2>1. TakenOf(f, D) = Blocks(H) \cup {i} /\ i \in TakenOf(f, D)
        /\ K = H \cup {<<i + 1, size>>} /\ Pointers(H) /\ \A x \in H : x[1] - 1 # i
    BY <1>15, <1>16, <1>18, <1>21
  <2> HIDE DEF K, H, T
  <2>2. Pointers(K)
    BY <1>3, <1>21, <2>1, OneMore
  <2>3. Holds(f, D, K)
    BY <1>3, <1>21, <2>1, OneMore
  <2> QED BY <2>2, <2>3
<1>24. ASSUME NEW k \in Area(i + 1, size) PROVE f.array[k] = Junk
  <2>1. k \in Indices /\ k \in CellsOf(c, i)
    BY <1>9
  <2>2. CASE k \notin Area(i + 1, bytes)
    BY <1>20, <2>1, <2>2
  <2>3. CASE k \in Area(i + 1, bytes)
    <3>1. k \in Area(i + 1, kept) /\ p + (k - (i + 1)) \in Area(p, bytes)
      BY <1>7, <2>3
    <3>2. f.array[k] = e.array[k] /\ e.array[k] = d.array[k]
      BY <1>18, <1>19, <1>20, <2>1, <2>3
    <3>3. d.array[k] = c.array[p + (k - (i + 1))]
      BY <1>10, <2>1, <3>1
    <3>4. \A j \in Area(p, bytes) : c.array[j] = Junk
      BY <1>4 DEF Served
    <3> QED BY <3>1, <3>2, <3>3, <3>4
  <2> QED BY <2>2, <2>3
<1> DEFINE y == <<i + 1, size>>
<1>25. Served(f, y)
  <2>1. y[1] = i + 1 /\ y[2] = size /\ y[1] - 1 = i
    BY <1>3
  <2> HIDE DEF y
  <2>2. Size(f, i) >= Ints(size)
    BY <1>1, <1>19, <1>21
  <2> QED BY <1>24, <2>1, <2>2 DEF Served
<1>26. Good(f, K)
  <2>1. \A x \in K : x \in H \/ x = y
    OBVIOUS
  <2> HIDE DEF K, H, y
  <2> QED BY <1>21, <1>22, <1>23, <1>25, <2>1 DEF Good
<1>27. FillRest(Moved(p, i, size), i + 1, bytes, size) = f
  <2>1. Take(heap, i, Ints(size)) = c
    BY <1>3 DEF Take, c
  <2>2. Copied(Take(heap, i, Ints(size)), i + 1, p, Kept(p, size)) = d
    BY <2>1 DEF d, kept
  <2>3. Release(d, p - 1) = e
    BY <1>14 DEF Release, e
  <2> QED BY <2>2, <2>3 DEF Moved, f
<1> QED BY <1>26, <1>27 DEF n

\* What heapInit makes: the ends, and one free block between them.
LEMMA InitGood == HeapInit => HeapInv
<1> SUFFICES ASSUME HeapInit PROVE Good(heap, held)
  BY DEF HeapInv
<1> DEFINE blank == [array |-> [k \in Indices |-> Junk], avail |-> 0]
           h1 == MakeTaken(blank, 0, 2)
           h2 == MakeAvail(h1, 2, Words - 4)
           B  == {0, 2, Edge}
           r  == [k \in Indices |-> 0]
<1>1. Words \in Nat /\ Words >= 8 /\ Edge = Words - 2 /\ Indices = 0 .. Words - 1
  BY WordsIs DEF Edge, Indices
<1>2. heap = MakeTaken(h2, Edge, 2) /\ held = {}
  BY DEF HeapInit, Edge
<1>3. blank \in Heaps /\ blank.avail = 0 /\ \A k \in Indices : blank.array[k] = Junk
  BY <1>1, HeapAssumption DEF Heaps
<1> HIDE DEF blank
<1>4. /\ h1 \in Heaps /\ h1.avail = 0
      /\ \A k \in Indices : h1.array[k] = IF k \in {0, 1} THEN -2 ELSE blank.array[k]
  <2>1. 0 \in Indices /\ 2 \in 1 .. Words /\ 0 + 2 - 1 \in Indices /\ 0 + 2 - 1 = 1
    BY <1>1
  <2>2. /\ h1 \in Heaps /\ h1.avail = blank.avail
        /\ \A k \in Indices : h1.array[k] = IF k \in {0, 0 + 2 - 1} THEN -2 ELSE blank.array[k]
    BY <1>3, <2>1, MakeTakenIs
  <2> QED BY <1>3, <2>1, <2>2
<1> HIDE DEF h1
<1>5. /\ h2 \in Heaps /\ h2.avail = 2
      /\ \A k \in Indices : h2.array[k] = IF k = 4 THEN 0 ELSE IF k = 3 THEN 0
                                          ELSE IF k \in {2, Words - 3} THEN Words - 4 ELSE h1.array[k]
  <2>1. 2 \in Indices /\ Words - 4 \in 4 .. Words /\ 2 + (Words - 4) <= Words /\ 2 + (Words - 4) - 1 = Words - 3
    BY <1>1
  <2>2. /\ h2 \in Heaps /\ h2.avail = 2
        /\ \A k \in Indices : h2.array[k] = IF h1.avail # 0 /\ k = h1.avail + 2 THEN 2
                                            ELSE IF k = 2 + 2 THEN 0 ELSE IF k = 2 + 1 THEN h1.avail
                                            ELSE IF k \in {2, 2 + (Words - 4) - 1} THEN Words - 4 ELSE h1.array[k]
    BY <1>4, <2>1, MakeAvailIs
  <2> QED BY <1>4, <2>1, <2>2
<1> HIDE DEF h2
<1>6. /\ heap \in Heaps /\ heap.avail = 2
      /\ \A k \in Indices : heap.array[k] = IF k \in {Edge, Words - 1} THEN -2 ELSE h2.array[k]
  <2>1. Edge \in Indices /\ 2 \in 1 .. Words /\ Edge + 2 - 1 \in Indices /\ Edge + 2 - 1 = Words - 1
    BY <1>1
  <2>2. /\ heap \in Heaps /\ heap.avail = h2.avail
        /\ \A k \in Indices : heap.array[k] = IF k \in {Edge, Edge + 2 - 1} THEN -2 ELSE h2.array[k]
    BY <1>2, <1>5, <2>1, MakeTakenIs
  <2> QED BY <1>5, <2>1, <2>2
<1>7. /\ heap.array[0] = -2 /\ heap.array[1] = -2
      /\ heap.array[2] = Words - 4 /\ heap.array[Words - 3] = Words - 4
      /\ heap.array[3] = 0 /\ heap.array[4] = 0
      /\ heap.array[Edge] = -2 /\ heap.array[Words - 1] = -2
  <2>1. 0 \in Indices /\ 1 \in Indices /\ 2 \in Indices /\ 3 \in Indices /\ 4 \in Indices
        /\ Edge \in Indices /\ Words - 1 \in Indices /\ Words - 3 \in Indices
    BY <1>1
  <2>2. /\ heap.array[0] = h2.array[0] /\ heap.array[1] = h2.array[1] /\ heap.array[2] = h2.array[2]
        /\ heap.array[3] = h2.array[3] /\ heap.array[4] = h2.array[4]
        /\ heap.array[Words - 3] = h2.array[Words - 3]
        /\ heap.array[Edge] = -2 /\ heap.array[Words - 1] = -2
    BY <1>1, <1>6, <2>1
  <2>3. /\ h2.array[0] = h1.array[0] /\ h2.array[1] = h1.array[1]
        /\ h2.array[2] = Words - 4 /\ h2.array[Words - 3] = Words - 4
        /\ h2.array[3] = 0 /\ h2.array[4] = 0
    BY <1>1, <1>5, <2>1
  <2>4. h1.array[0] = -2 /\ h1.array[1] = -2
    BY <1>4, <2>1
  <2> QED BY <2>2, <2>3, <2>4
<1>8. /\ Size(heap, 0) = 2 /\ Size(heap, Edge) = 2 /\ Size(heap, 2) = Words - 4
      /\ Right(heap, 0) = 2 /\ Right(heap, Edge) = Words /\ Right(heap, 2) = Edge
  <2>1. Size(heap, 0) = 2 /\ Size(heap, Edge) = 2 /\ Size(heap, 2) = Words - 4
    <3>1. 0 \in Indices /\ 2 \in Indices /\ Edge \in Indices /\ heap \in Heaps
      BY <1>1, <1>6
    <3>2. ~(Words - 4 < 0)
      BY <1>1
    <3> QED BY <1>7, <3>1, <3>2, SizeIs
  <2> QED BY <1>1, <2>1 DEF Right
<1>9. Tiled(heap, B)
  <2>1. B \subseteq 0 .. Edge /\ 0 \in B /\ Edge \in B
    BY <1>1
  <2>2. ASSUME NEW i \in B
        PROVE  /\ i # Edge => Right(heap, i) \in B
               /\ i # 0 /\ i # Edge => Size(heap, i) >= 4
               /\ heap.array[Right(heap, i) - 1] = heap.array[i]
               /\ \A j \in B : i < j => Right(heap, i) <= j
    <3>1. CASE i = 0
      BY <1>1, <1>7, <1>8, <3>1
    <3>2. CASE i = 2
      <4>1. Right(heap, i) - 1 = Words - 3
        BY <1>1, <1>8, <3>2
      <4> QED BY <1>1, <1>7, <1>8, <3>2, <4>1
    <3>3. CASE i = Edge
      BY <1>1, <1>7, <1>8, <3>3
    <3> QED BY <3>1, <3>2, <3>3
  <2> QED BY <1>7, <2>1, <2>2 DEF Tiled
<1>10. FreeOf(heap, B) = {2} /\ TakenOf(heap, B) = {0, Edge}
  BY <1>1, <1>7 DEF FreeOf, TakenOf
<1>11. Listed(heap, {2}, r)
  <2>1. r \in [Indices -> Nat] /\ r[2] = 0 /\ 2 \in Indices
    BY <1>1
  <2>2. NextOf(heap, 2) = 0 /\ PrevOf(heap, 2) = 0
    BY <1>7 DEF NextOf, PrevOf
  <2>3. IsFirst({2}, r, heap.avail)
    <3>1. heap.avail = 2 /\ r[2] <= r[2]
      BY <1>6, <2>1
    <3> HIDE DEF r
    <3> QED BY <3>1 DEF IsFirst
  <2>4. IsNext({2}, r, 2, 0) /\ IsPrev({2}, r, 2, 0)
    BY <2>1 DEF IsNext, IsPrev
  <2> HIDE DEF r
  <2> QED BY <2>1, <2>2, <2>3, <2>4 DEF Listed
<1>12. NoTwoFree(heap, B)
  <2>1. Edge \notin {2}
    BY <1>1
  <2> QED BY <1>8, <1>10, <2>1 DEF NoTwoFree
<1>13. Shape(heap, B, r)
  BY <1>6, <1>9, <1>10, <1>11, <1>12 DEF Shape
<1>14. Pointers(held) /\ Holds(heap, B, held) /\ \A x \in held : Served(heap, x)
  BY <1>2, <1>10 DEF Pointers, Holds, Blocks
<1> HIDE DEF B, r
<1> QED BY <1>13, <1>14 DEF Good

-----------------------------------------------------------------------------
\* The kernel's malloc keeps the invariant.
LEMMA MallocKeeps == ASSUME HeapInv, NEW bytes \in Requests, Malloc(bytes) PROVE HeapInv'
<1> DEFINE i == BestFit(heap, Ints(bytes))
           g == Fill(Carve(heap, i, Ints(bytes)), i + 1, bytes)
           K == held \cup {<<i + 1, bytes>>}
<1>1. PICK B, r : /\ Shape(heap, B, r) /\ Pointers(held) /\ Holds(heap, B, held)
                  /\ \A x \in held : Served(heap, x)
  BY DEF HeapInv, Good
<1>2. i # 0 /\ heap' = g /\ held' = K
  BY DEF Malloc
<1>3. Ints(bytes) \in Nat
  BY AreaIs
<1>4. i \in FreeOf(heap, B) /\ Size(heap, i) >= Ints(bytes)
  BY <1>1, <1>2, <1>3, BestFitIs
<1> HIDE DEF i
<1>5. Good(g, K)
  BY <1>1, <1>4, MallocGood
<1> HIDE DEF g, K
<1> QED BY <1>2, <1>5 DEF HeapInv

\* So does a program's malloc,
LEMMA UserMallocKeeps == ASSUME HeapInv, NEW bytes \in Requests, UserMalloc(bytes) PROVE HeapInv'
<1> DEFINE i == FirstFit(heap, Ints(bytes))
           g == Fill(Carve(heap, i, Ints(bytes)), i + 1, bytes)
           K == held \cup {<<i + 1, bytes>>}
<1>1. PICK B, r : /\ Shape(heap, B, r) /\ Pointers(held) /\ Holds(heap, B, held)
                  /\ \A x \in held : Served(heap, x)
  BY DEF HeapInv, Good
<1>2. i # 0 /\ heap' = g /\ held' = K
  BY DEF UserMalloc, Take
<1>3. Ints(bytes) \in Nat
  BY AreaIs
<1>4. i \in FreeOf(heap, B) /\ Size(heap, i) >= Ints(bytes)
  BY <1>1, <1>2, <1>3, FirstFitIs
<1> HIDE DEF i
<1>5. Good(g, K)
  BY <1>1, <1>4, MallocGood
<1> HIDE DEF g, K
<1> QED BY <1>2, <1>5 DEF HeapInv

\* What a client holds it may free, and what free does keeps the invariant.
LEMMA FreeGood ==
  ASSUME HeapInv, NEW p, NEW bytes, <<p, bytes>> \in held
  PROVE  heap.array[p - 1] < 0 /\ Good(Merge(heap, p - 1), held \ {<<p, bytes>>})
<1> DEFINE n == <<p, bytes>>
<1>1. PICK B, r : /\ Shape(heap, B, r) /\ Pointers(held) /\ Holds(heap, B, held)
                  /\ \A x \in held : Served(heap, x)
  BY DEF HeapInv, Good
<1>2. n[1] = p /\ n \in held
  OBVIOUS
<1> HIDE DEF n
<1>3. heap.array[n[1] - 1] < 0 /\ Good(Merge(heap, n[1] - 1), held \ {n})
  BY <1>1, <1>2, MergeGood
<1> QED BY <1>2, <1>3 DEF n

\* the kernel's free,
LEMMA FreeKeeps == ASSUME HeapInv, NEW p, NEW bytes, Free(p, bytes) PROVE HeapInv'
<1>1. <<p, bytes>> \in held /\ heap' = Merge(heap, p - 1) /\ held' = held \ {<<p, bytes>>}
  BY DEF Free
<1>2. Good(Merge(heap, p - 1), held \ {<<p, bytes>>})
  BY <1>1, FreeGood
<1> QED BY <1>1, <1>2 DEF HeapInv

\* a program's free,
LEMMA UserFreeKeeps == ASSUME HeapInv, NEW p, NEW bytes, UserFree(p, bytes) PROVE HeapInv'
<1>1. <<p, bytes>> \in held /\ heap' = Release(heap, p - 1) /\ held' = held \ {<<p, bytes>>}
  BY DEF UserFree
<1>2. heap.array[p - 1] < 0 /\ Good(Merge(heap, p - 1), held \ {<<p, bytes>>})
  BY <1>1, FreeGood
<1>3. heap' = Merge(heap, p - 1)
  BY <1>1, <1>2 DEF Release
<1> QED BY <1>1, <1>2, <1>3 DEF HeapInv

\* and realloc, with a new block and without.
LEMMA ReallocKeeps ==
  ASSUME HeapInv, NEW p, NEW bytes \in Requests, NEW size \in Requests, Realloc(p, bytes, size)
  PROVE  HeapInv'
<1> DEFINE i == FirstFit(heap, Ints(size))
           g == FillRest(Moved(p, i, size), i + 1, bytes, size)
           K == (held \ {<<p, bytes>>}) \cup {<<i + 1, size>>}
<1>1. PICK B, r : /\ Shape(heap, B, r) /\ Pointers(held) /\ Holds(heap, B, held)
                  /\ \A x \in held : Served(heap, x)
  BY DEF HeapInv, Good
<1>2. /\ <<p, bytes>> \in held
      /\ \/ i = 0 /\ heap' = Release(heap, p - 1) /\ held' = held \ {<<p, bytes>>}
         \/ i # 0 /\ heap' = g /\ held' = K
  BY DEF Realloc
<1>3. CASE i = 0 /\ heap' = Release(heap, p - 1) /\ held' = held \ {<<p, bytes>>}
  <2>1. heap.array[p - 1] < 0 /\ Good(Merge(heap, p - 1), held \ {<<p, bytes>>})
    BY <1>2, FreeGood
  <2>2. heap' = Merge(heap, p - 1)
    BY <1>3, <2>1 DEF Release
  <2> QED BY <1>3, <2>1, <2>2 DEF HeapInv
<1>4. CASE i # 0 /\ heap' = g /\ held' = K
  <2>1. Ints(size) \in Nat
    BY AreaIs
  <2>2. i \in FreeOf(heap, B) /\ Size(heap, i) >= Ints(size)
    BY <1>1, <1>4, <2>1, FirstFitIs
  <2> HIDE DEF i
  <2>3. Good(g, K)
    BY <1>1, <1>2, <2>2, ReallocGood
  <2> HIDE DEF g, K
  <2> QED BY <1>4, <2>3 DEF HeapInv
<1> QED BY <1>2, <1>3, <1>4

-----------------------------------------------------------------------------
\* The invariant of the kernel's heap.
THEOREM HeapInvariant == HeapSpec => []HeapInv
<1>1. HeapInit => HeapInv
  BY InitGood
<1>2. HeapInv /\ [HeapNext]_vars => HeapInv'
  <2> SUFFICES ASSUME HeapInv, [HeapNext]_vars PROVE HeapInv'
    OBVIOUS
  <2>1. CASE HeapNext
    <3>1. ASSUME NEW bytes \in Requests, Malloc(bytes) PROVE HeapInv'
      BY <3>1, MallocKeeps
    <3>2. ASSUME NEW p \in Indices, NEW bytes \in Requests, Free(p, bytes) PROVE HeapInv'
      BY <3>2, FreeKeeps
    <3> QED BY <2>1, <3>1, <3>2 DEF HeapNext
  <2>2. CASE UNCHANGED vars
    BY <2>2 DEF vars, HeapInv
  <2> QED BY <2>1, <2>2
<1> QED BY <1>1, <1>2, PTL DEF HeapSpec

\* The invariant of a program's heap, the same.
THEOREM UserHeapInvariant == UserSpec => []HeapInv
<1>1. HeapInit => HeapInv
  BY InitGood
<1>2. HeapInv /\ [UserNext]_vars => HeapInv'
  <2> SUFFICES ASSUME HeapInv, [UserNext]_vars PROVE HeapInv'
    OBVIOUS
  <2>1. CASE UserNext
    <3>1. ASSUME NEW bytes \in Requests, UserMalloc(bytes) PROVE HeapInv'
      BY <3>1, UserMallocKeeps
    <3>2. ASSUME NEW p \in Indices, NEW bytes \in Requests, UserFree(p, bytes) PROVE HeapInv'
      BY <3>2, UserFreeKeeps
    <3>3. ASSUME NEW p \in Indices, NEW bytes \in Requests, NEW size \in Requests, Realloc(p, bytes, size)
          PROVE  HeapInv'
      BY <3>3, ReallocKeeps
    <3> QED BY <2>1, <3>1, <3>2, <3>3 DEF UserNext
  <2>2. CASE UNCHANGED vars
    BY <2>2 DEF vars, HeapInv
  <2> QED BY <2>1, <2>2
<1> QED BY <1>1, <1>2, PTL DEF UserSpec

-----------------------------------------------------------------------------
(* What the invariant says *)

\* The walks of BlocksTile and ListIsFree come by the blocks of the invariant.
LEMMA InvConsistent == HeapInv => BlocksConsistent
<1> SUFFICES ASSUME HeapInv PROVE BlocksConsistent
  OBVIOUS
<1>1. PICK B, r : /\ Shape(heap, B, r) /\ Pointers(held) /\ Holds(heap, B, held)
                  /\ \A x \in held : Served(heap, x)
  BY DEF HeapInv, Good
<1>2. heap \in Heaps /\ Tiled(heap, B)
  BY <1>1 DEF Shape
<1>3. Headers = B
  BY <1>2, HeadersAre DEF Headers
<1>4. HeapTypeOK
  BY <1>1, <1>2 DEF HeapTypeOK, Heaps, Pointers
<1>5. /\ FreeOf(heap, B) = {i \in B : IsAvail(heap, i)}
      /\ TakenOf(heap, B) = {i \in B : ~IsAvail(heap, i)}
  BY <1>2, FreeFacts
<1>6. BlocksTile
  <2>1. Words - 2 \in Headers
    BY <1>2, <1>3 DEF Tiled, Edge
  <2>2. ASSUME NEW i \in B PROVE heap.array[i + Size(heap, i) - 1] = heap.array[i]
    <3>1. heap.array[Right(heap, i) - 1] = heap.array[i]
      BY <1>2 DEF Tiled
    <3>2. Right(heap, i) - 1 = i + Size(heap, i) - 1
      BY <1>2, TileFacts
    <3> QED BY <3>1, <3>2
  <2>3. {i \in Headers : ~IsAvail(heap, i)} = {0, Words - 2} \cup {x[1] - 1 : x \in held}
    BY <1>1, <1>3, <1>5 DEF Holds, Blocks, Edge
  <2> QED BY <1>3, <2>1, <2>2, <2>3 DEF BlocksTile
<1>7. ListIsFree
  <2> DEFINE s == FreeList(heap)
  <2>1. /\ IsInjective(s) /\ ToSet(s) = FreeOf(heap, B)
        /\ \A k \in DOMAIN s : PrevOf(heap, s[k]) = IF k = 1 THEN 0 ELSE s[k - 1]
    BY <1>1, FreeListIs
  <2> QED BY <1>3, <1>5, <2>1 DEF ListIsFree
<1> QED BY <1>4, <1>6, <1>7 DEF BlocksConsistent

\* Every client is served.
LEMMA InvContents == HeapInv => ContentsKept
BY DEF HeapInv, Good, Served, ContentsKept

\* A gap between the taken blocks that is large enough has a free block that is.
LEMMA GapIsFree ==
  ASSUME NEW B, NEW r, Shape(heap, B, r), Pointers(held), Holds(heap, B, held),
         \A x \in held : Served(heap, x),
         NEW ints \in Nat, ints >= 4, \A b \in FreeOf(heap, B) : Size(heap, b) < ints
  PROVE  NoGap(ints)
<1> DEFINE cells == UNION {(x[1] - 1) .. (x[1] + Size(heap, x[1] - 1) - 2) : x \in held}
<1>1. heap \in Heaps /\ Tiled(heap, B) /\ NoTwoFree(heap, B) /\ Words \in Nat /\ Edge = Words - 2
  BY WordsIs DEF Shape, Edge
<1>2. ASSUME NEW b \in TakenOf(heap, B), b \notin {0, Edge}
      PROVE  \A k \in CellsOf(heap, b) : k \in cells
  <2>1. PICK x \in held : b = x[1] - 1
    BY <1>2 DEF Holds, Blocks
  <2>2. b \in B
    BY DEF TakenOf
  <2>3. b \in Nat /\ Size(heap, b) \in Nat
    BY <1>1, <2>2, TileFacts
  <2>4. x[1] \in Nat
    <3>1. x[1] \in Indices
      BY DEF Pointers
    <3> QED BY <3>1 DEF Indices
  <2>5. x[1] + Size(heap, x[1] - 1) - 2 = b + Size(heap, b) - 1
    BY <2>1, <2>3, <2>4
  <2>6. CellsOf(heap, b) = (x[1] - 1) .. (x[1] + Size(heap, x[1] - 1) - 2)
    BY <2>1, <2>5 DEF CellsOf
  <2> QED BY <2>6
<1> HIDE DEF cells
<1>3. ASSUME NEW i \in 2 .. (Words - 2 - ints) PROVE (i .. (i + ints - 1)) \cap cells # {}
  <2>1. i \in Nat /\ 2 <= i /\ i + ints <= Edge /\ Edge \in Nat
    BY <1>1
  <2> DEFINE S == {b \in B : b <= i}
  <2>2. S # {} /\ S \subseteq 0 .. i
    <3>1. 0 \in S
      BY <1>1, <2>1 DEF Tiled
    <3>2. \A b \in S : b \in 0 .. i
      <4> TAKE b \in S
      <4>1. b \in B /\ b <= i
        OBVIOUS
      <4>2. b \in Nat
        BY <1>1, <4>1, TileFacts
      <4> QED BY <2>1, <4>1, <4>2
    <3> QED BY <3>1, <3>2
  <2>3. PICK b \in S : \A c \in S : c <= b
    <3> HIDE DEF S
    <3> QED BY <2>1, <2>2, GreatestOf
  <2>4. /\ b \in B /\ b <= i /\ b \in Nat /\ Size(heap, b) \in Nat /\ Size(heap, b) >= 2
        /\ Right(heap, b) = b + Size(heap, b)
    BY <1>1, TileFacts
  <2>5. b # Edge
    BY <2>1, <2>4
  <2>6. Right(heap, b) \in B /\ Right(heap, b) \notin S
    <3>1. Right(heap, b) \in B
      BY <1>1, <2>4, <2>5 DEF Tiled
    <3>2. ~(Right(heap, b) <= b)
      BY <2>4
    <3> HIDE DEF S
    <3> QED BY <2>3, <3>1, <3>2
  <2>7. i < Right(heap, b)
    <3>1. ~(Right(heap, b) <= i)
      BY <2>6
    <3> QED BY <2>1, <2>4, <3>1
  <2>8. b # 0
    <3>1. Size(heap, 0) = 2
      <4>1. 0 \in B
        BY <1>1 DEF Tiled
      <4> QED BY <1>1, <4>1, TileFacts
    <3> QED BY <2>1, <2>4, <2>7, <3>1
  <2> HIDE DEF S
  <2>9. CASE b \in TakenOf(heap, B)
    <3>1. i \in CellsOf(heap, b)
      BY <2>1, <2>4, <2>7 DEF CellsOf
    <3>2. i \in cells
      BY <1>2, <2>5, <2>8, <2>9, <3>1
    <3>3. i \in i .. (i + ints - 1)
      BY <2>1
    <3> QED BY <3>2, <3>3
  <2>10. CASE b \in FreeOf(heap, B)
    <3> DEFINE c == Right(heap, b)
    <3>1. Size(heap, b) < ints /\ c \in B /\ c \notin FreeOf(heap, B)
      BY <1>1, <2>6, <2>10 DEF NoTwoFree
    <3>2. c \in TakenOf(heap, B)
      BY <1>1, <3>1, FreeFacts
    <3>3. c \in Nat /\ i < c /\ c <= i + ints - 1
      BY <2>1, <2>4, <2>7, <3>1
    <3>4. c \notin {0, Edge}
      BY <2>1, <3>3
    <3>5. c \in CellsOf(heap, c)
      BY <1>1, <3>1, CellsAre
    <3>6. c \in cells
      BY <1>2, <3>2, <3>4, <3>5
    <3>7. c \in i .. (i + ints - 1)
      BY <2>1, <3>3
    <3> QED BY <3>6, <3>7
  <2> QED BY <1>1, <2>4, <2>9, <2>10, FreeFacts
<1> QED BY <1>3 DEF NoGap, cells

\* A search that finds nothing means that no free block is large enough.
LEMMA InvSearches == HeapInv => SearchesFind
<1> SUFFICES ASSUME HeapInv, NEW bytes \in Requests,
                    BestFit(heap, Ints(bytes)) = 0 \/ FirstFit(heap, Ints(bytes)) = 0
             PROVE  NoGap(Ints(bytes))
  BY DEF SearchesFind, RefusesOnlyWhenFull
<1>1. PICK B, r : /\ Shape(heap, B, r) /\ Pointers(held) /\ Holds(heap, B, held)
                  /\ \A x \in held : Served(heap, x)
  BY DEF HeapInv, Good
<1>2. Ints(bytes) \in Nat /\ Ints(bytes) >= 4
  BY AreaIs
<1>3. \A i \in FreeOf(heap, B) : Size(heap, i) < Ints(bytes)
  BY <1>1, <1>2, BestFitIs, FirstFitIs
<1> QED BY <1>1, <1>2, <1>3, GapIsFree

\* BlocksConsistent of the kernel's heap and of a program's (malloc, free and realloc of
\* heap.cc and heap.c): sizes, tags and the doubly linked list agree after any calls.
THEOREM HeapConsistent == (HeapSpec => []BlocksConsistent) /\ (UserSpec => []BlocksConsistent)
BY HeapInvariant, UserHeapInvariant, InvConsistent, PTL

\* ContentsKept of both heaps: no call writes to what a client holds, and realloc copies all
\* of what was stored.
THEOREM HeapKeepsContents == (HeapSpec => []ContentsKept) /\ (UserSpec => []ContentsKept)
BY HeapInvariant, UserHeapInvariant, InvContents, PTL

\* SearchesFind of both heaps: malloc refuses only when no gap between the taken blocks is
\* large enough, the best fit of the kernel and the first fit of a program alike.
THEOREM SearchesSucceed == (HeapSpec => []SearchesFind) /\ (UserSpec => []SearchesFind)
BY HeapInvariant, UserHeapInvariant, InvSearches, PTL
=============================================================================
