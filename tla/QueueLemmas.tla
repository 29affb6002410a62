----------------------------- MODULE QueueLemmas -----------------------------
\* What Queue::add and Queue::remove, as Append and Tail, do to the set of
\* elements of a queue and to their being there once.
EXTENDS SequencesExt, SequenceTheorems, TLAPS

\* The elements of a queue are of its type.
LEMMA ElementsFacts ==
  ASSUME NEW S, NEW q \in Seq(S)
  PROVE  ToSet(q) \subseteq S
BY LenProperties DEF ToSet

\* add puts one element in, and keeps the elements distinct if it is a new one.
LEMMA AddFacts ==
  ASSUME NEW S, NEW q \in Seq(S), NEW x \in S
  PROVE  /\ Append(q, x) \in Seq(S)
         /\ ToSet(q) \subseteq S
         /\ ToSet(Append(q, x)) = ToSet(q) \cup {x}
         /\ IsInjective(q) /\ x \notin ToSet(q) => IsInjective(Append(q, x))
<1>1. /\ Append(q, x) \in Seq(S)
      /\ Len(q) \in Nat
      /\ DOMAIN q = 1 .. Len(q)
      /\ DOMAIN Append(q, x) = 1 .. (Len(q) + 1)
      /\ \A i \in 1 .. Len(q) : Append(q, x)[i] = q[i]
      /\ Append(q, x)[Len(q) + 1] = x
  BY AppendProperties, LenProperties
<1>2. ToSet(Append(q, x)) = ToSet(q) \cup {x}
  <2>1. \A i \in 1 .. (Len(q) + 1) : i \in 1 .. Len(q) \/ i = Len(q) + 1
    BY <1>1
  <2>2. 1 .. Len(q) \subseteq 1 .. (Len(q) + 1) /\ Len(q) + 1 \in 1 .. (Len(q) + 1)
    BY <1>1
  <2> QED BY <1>1, <2>1, <2>2 DEF ToSet
<1>3. ASSUME IsInjective(q), x \notin ToSet(q) PROVE IsInjective(Append(q, x))
  <2>1. \A i \in 1 .. Len(q) : q[i] # x
    BY <1>1, <1>3 DEF ToSet
  <2> QED BY <1>1, <1>3, <2>1 DEF IsInjective
<1>4. ToSet(q) \subseteq S
  BY ElementsFacts
<1> QED BY <1>1, <1>2, <1>3, <1>4

\* remove takes the head out; of distinct elements, it is not in the rest.
LEMMA RemoveFacts ==
  ASSUME NEW S, NEW q \in Seq(S), q # << >>
  PROVE  /\ Head(q) \in S /\ Tail(q) \in Seq(S)
         /\ ToSet(q) \subseteq S
         /\ ToSet(q) = ToSet(Tail(q)) \cup {Head(q)}
         /\ IsInjective(q) => IsInjective(Tail(q)) /\ Head(q) \notin ToSet(Tail(q))
<1>1. /\ Head(q) \in S /\ Tail(q) \in Seq(S)
      /\ Len(q) \in Nat \ {0}
      /\ DOMAIN q = 1 .. Len(q)
      /\ Head(q) = q[1]
      /\ DOMAIN Tail(q) = 1 .. (Len(q) - 1)
      /\ \A i \in 1 .. (Len(q) - 1) : Tail(q)[i] = q[i + 1]
  BY HeadTailProperties, LenProperties, EmptySeq
<1>2. \A i \in 1 .. Len(q) : i = 1 \/ (i - 1 \in 1 .. (Len(q) - 1) /\ (i - 1) + 1 = i)
  BY <1>1
<1>3. \A i \in 1 .. (Len(q) - 1) : i + 1 \in 1 .. Len(q) /\ i + 1 # 1
  BY <1>1
<1>4. ToSet(q) = ToSet(Tail(q)) \cup {Head(q)}
  <2>1. ToSet(q) \subseteq ToSet(Tail(q)) \cup {Head(q)}
    <3> SUFFICES ASSUME NEW i \in 1 .. Len(q)
                 PROVE  q[i] \in ToSet(Tail(q)) \cup {Head(q)}
      BY <1>1 DEF ToSet
    <3>1. CASE i = 1
      BY <3>1, <1>1
    <3>2. CASE i # 1
      <4>1. i - 1 \in 1 .. (Len(q) - 1) /\ Tail(q)[i - 1] = q[i]
        BY <3>2, <1>1, <1>2
      <4> QED BY <4>1, <1>1 DEF ToSet
    <3> QED BY <3>1, <3>2
  <2>2. ToSet(Tail(q)) \cup {Head(q)} \subseteq ToSet(q)
    BY <1>1, <1>3 DEF ToSet
  <2> QED BY <2>1, <2>2
<1>5. ASSUME IsInjective(q)
      PROVE  IsInjective(Tail(q)) /\ Head(q) \notin ToSet(Tail(q))
  <2>1. IsInjective(Tail(q))
    BY <1>1, <1>3, <1>5 DEF IsInjective
  <2>2. \A i \in 1 .. (Len(q) - 1) : Tail(q)[i] # Head(q)
    BY <1>1, <1>3, <1>5 DEF IsInjective
  <2> QED BY <1>1, <2>1, <2>2 DEF ToSet
<1>6. ToSet(q) \subseteq S
  BY ElementsFacts
<1> QED BY <1>1, <1>4, <1>5, <1>6

\* The empty queue.
LEMMA EmptyFacts ==
  ASSUME NEW S
  PROVE  << >> \in Seq(S) /\ ToSet(<< >>) = {} /\ IsInjective(<< >>)
BY EmptySeq DEF ToSet, IsInjective

\* A queue of one.
LEMMA SingletonFacts ==
  ASSUME NEW S, NEW x \in S
  PROVE  <<x>> \in Seq(S) /\ ToSet(<<x>>) = {x} /\ IsInjective(<<x>>)
<1>1. DOMAIN <<x>> = {1} /\ <<x>>[1] = x /\ <<x>> \in Seq(S)
  OBVIOUS
<1> QED BY <1>1 DEF ToSet, IsInjective

\* Putting an element at the front, where a free list takes it.
LEMMA PushFacts ==
  ASSUME NEW S, NEW q \in Seq(S), NEW x \in S
  PROVE  /\ <<x>> \o q \in Seq(S)
         /\ ToSet(<<x>> \o q) = ToSet(q) \cup {x}
         /\ IsInjective(q) /\ x \notin ToSet(q) => IsInjective(<<x>> \o q)
<1> DEFINE t == <<x>> \o q
<1>1. /\ t \in Seq(S) /\ Len(q) \in Nat /\ DOMAIN q = 1 .. Len(q)
      /\ DOMAIN t = 1 .. (Len(q) + 1)
      /\ t[1] = x /\ \A i \in 2 .. (Len(q) + 1) : t[i] = q[i - 1]
  BY ConcatProperties, LenProperties
<1>2. \A i \in 1 .. Len(q) : i + 1 \in 2 .. (Len(q) + 1) /\ (i + 1) - 1 = i /\ t[i + 1] = q[i]
  BY <1>1
<1>3. \A i \in 1 .. (Len(q) + 1) : i = 1 \/ (i \in 2 .. (Len(q) + 1) /\ i - 1 \in 1 .. Len(q))
  BY <1>1
<1>4. 1 \in DOMAIN t /\ \A i \in 1 .. Len(q) : i + 1 \in DOMAIN t
  BY <1>1
<1> HIDE DEF t
<1>5. ToSet(t) = ToSet(q) \cup {x}
  <2>1. ToSet(t) \subseteq ToSet(q) \cup {x}
    BY <1>1, <1>3 DEF ToSet
  <2>2. ToSet(q) \cup {x} \subseteq ToSet(t)
    BY <1>1, <1>2, <1>4 DEF ToSet
  <2> QED BY <2>1, <2>2
<1>6. ASSUME IsInjective(q), x \notin ToSet(q) PROVE IsInjective(t)
  <2>1. \A i \in 1 .. Len(q) : q[i] # x
    BY <1>1, <1>6 DEF ToSet
  <2>2. \A i, j \in 1 .. Len(q) : q[i] = q[j] => i = j
    BY <1>1, <1>6 DEF IsInjective
  <2> QED BY <1>1, <1>3, <2>1, <2>2 DEF IsInjective
<1> QED BY <1>1, <1>5, <1>6 DEF t
=============================================================================
