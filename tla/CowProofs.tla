------------------------------ MODULE CowProofs ------------------------------
(***************************************************************************)
(* Safety of copy-on-write memory for any number of processes, pages and   *)
(* frames: the counts are the number of references, a writable page is in  *)
(* one memory only, the frame allocator frees each frame once where one    *)
(* process at a time is in dec, and the whole implements private memories. *)
(* The lemmas take the steps one action at a time.                         *)
(***************************************************************************)
EXTENDS CowMemory, QueueLemmas, FiniteSetTheorems, FunctionTheorems

(* Why they hold: the inductive invariant *)

\* The process that has pfLock is the one in the fault handler.
Handler   == {"f_look", "f_dec", "f_read"}
LockExact == \A p \in Procs : loc[p] \in Handler <=> pfLock = p

\* What the handler, execl and fork know of the entries they work on.
HandlerEntry ==
  \A p \in Procs :
    /\ loc[p] \in Handler => page[p] \in Pages /\ ~pte[p][page[p]].w
    /\ loc[p] \in {"f_dec", "f_read"} => pte[p][page[p]].frame # NoFrame
    /\ fresh[p] # NoFrame <=> loc[p] \in {"f_dec", "f_read"}

DropEntry ==
  \A p \in Procs :
    /\ loc[p] = "x_read" => page[p] \in Pages /\ old[p][page[p]] # NoFrame
    /\ loc[p] \notin {"x_next", "x_read"} => old[p] = NoOld
    /\ loc[p] = "none" => pte[p] = Unmapped

CopyEntry ==
  \A p \in Procs : loc[p] = "stalled" => LET q == child[p] IN
    /\ loc[q] \in {"c_next", "c_share"}
    /\ \A r \in Procs : loc[r] = "stalled" /\ child[r] = q => r = p
    /\ \A va \in Pages : pte[q][va].frame # NoFrame => pte[q][va].frame = pte[p][va].frame
    /\ loc[q] = "c_share" => /\ page[q] \in Pages
                             /\ pte[p][page[q]].frame # NoFrame /\ ~pte[p][page[q]].w
                             /\ pte[q][page[q]].frame = NoFrame

\* Entries that may be written, and the frame the handler copies to, are the only
\* references to their frames; the new frame has what the old one has.
OnlyOne(p, va, by, f) ==
  \A q \in Procs, vb \in Pages \cup {NoPage}, b \in {"pte", "old", "fresh"} :
    Refers(q, vb, b, f) => q = p /\ vb = va /\ b = by

WritableAlone ==
  \A p \in Procs, va \in Pages :
    pte[p][va].w => pte[p][va].frame # NoFrame /\ OnlyOne(p, va, "pte", pte[p][va].frame)

FreshAlone ==
  \A p \in Procs : fresh[p] # NoFrame =>
    /\ OnlyOne(p, NoPage, "fresh", fresh[p])
    /\ \A q \in Procs, va \in Pages : pte[q][va].frame # fresh[p]
    /\ contents[fresh[p]] = contents[pte[p][page[p]].frame]

CowInv == /\ RefsExact /\ WritableIsUnshared /\ WritableAlone /\ FreshAlone
          /\ LockExact /\ HandlerEntry /\ DropEntry /\ CopyEntry

\* With one process at a time between dec's accesses: the frame it may free is not
\* free yet, and no free frame is counted among the unused ones too.
FreesOnce ==
  /\ \A p, q \in Procs : loc[p] \in {"f_read", "x_read"} /\ loc[q] \in {"f_read", "x_read"} => p = q
  /\ \A p \in Procs, f \in Frames : AboutToFree(p, f) => f \notin ToSet(freeList) \cup avail .. Limit
  /\ ToSet(freeList) \subseteq 1 .. avail - 1

FreeInv == CowInv /\ FreesOnce /\ FreeListExact

-----------------------------------------------------------------------------
\* A step of p.
Works(p) == UserStep(p) \/ KernelStep(p)

\* How and where a frame is referred to.
Tags == {"pte", "old", "fresh"}
Keys == Pages \cup {NoPage}

\* There are finitely many references.
LEMMA TokensFinite ==
  ASSUME NEW S \in SUBSET Tokens
  PROVE  IsFiniteSet(S) /\ Cardinality(S) \in Nat
<1> DEFINE Pairs == (Procs \X Keys) \X Tags
           g == [r \in Tokens |-> <<<<r[1], r[2]>>, r[3]>>]
<1>1. IsFiniteSet(Keys)
  BY CowAssumption, FS_AddElement DEF Keys
<1>2. IsFiniteSet(Tags)
  <2>1. IsFiniteSet({"pte"}) /\ Tags = ({"pte"} \cup {"old"}) \cup {"fresh"}
    BY FS_Singleton DEF Tags
  <2>2. IsFiniteSet({"pte"} \cup {"old"})
    BY <2>1, FS_AddElement
  <2> QED BY <2>1, <2>2, FS_AddElement
<1>3. IsFiniteSet(Pairs)
  <2>1. IsFiniteSet(Procs \X Keys)
    BY <1>1, CowAssumption, FS_Product
  <2> QED BY <1>2, <2>1, FS_Product
<1>4. g \in Injection(Tokens, Pairs)
  <2>1. g \in [Tokens -> Pairs]
    BY DEF Tokens, Keys, Tags
  <2>2. \A a, b \in Tokens : g[a] = g[b] => a = b
    BY DEF Tokens
  <2> QED BY <2>1, <2>2 DEF Injection, IsInjective
<1>5. IsFiniteSet(Tokens)
  BY <1>3, <1>4, FS_Injection
<1> QED BY <1>5, FS_Subset, FS_CardinalityType

\* When a token is in the references.
LEMMA TokenFacts ==
  ASSUME NEW f
  PROVE  /\ \A p \in Procs, va \in Keys, by \in Tags :
              <<p, va, by>> \in References(f) <=> Refers(p, va, by, f)
         /\ \A r \in References(f) : r \in Tokens /\ r = <<r[1], r[2], r[3]>>
BY DEF References, Tokens, Keys, Tags

\* The count of a frame stays exact when no reference to it comes or goes, ...
LEMMA CountSame ==
  ASSUME RefsExact, NEW f \in Frames, refs'[f] = refs[f],
         \A p \in Procs, va \in Keys, by \in Tags : Refers(p, va, by, f)' <=> Refers(p, va, by, f)
  PROVE  refs'[f] = Cardinality(References(f))'
<1>1. References(f)' = References(f)
  BY DEF References, Tokens, Keys, Tags
<1> QED BY <1>1 DEF RefsExact

\* ... when one comes and it is incremented, ...
LEMMA CountMore ==
  ASSUME RefsExact, NEW f \in Frames, refs'[f] = refs[f] + 1,
         NEW q \in Procs, NEW vb \in Keys, NEW b \in Tags, ~Refers(q, vb, b, f),
         \A p \in Procs, va \in Keys, by \in Tags :
           Refers(p, va, by, f)' <=> Refers(p, va, by, f) \/ <<p, va, by>> = <<q, vb, b>>
  PROVE  refs'[f] = Cardinality(References(f))'
<1>1. References(f)' = References(f) \cup {<<q, vb, b>>} /\ <<q, vb, b>> \notin References(f)
  BY DEF References, Tokens, Keys, Tags
<1>2. IsFiniteSet(References(f))
  BY TokensFinite DEF References
<1> QED BY <1>1, <1>2, FS_AddElement DEF RefsExact

\* ... when one goes and it is decremented, ...
LEMMA CountLess ==
  ASSUME RefsExact, NEW f \in Frames, refs'[f] = refs[f] - 1,
         NEW q \in Procs, NEW vb \in Keys, NEW b \in Tags, Refers(q, vb, b, f),
         \A p \in Procs, va \in Keys, by \in Tags :
           Refers(p, va, by, f)' <=> Refers(p, va, by, f) /\ <<p, va, by>> # <<q, vb, b>>
  PROVE  refs'[f] = Cardinality(References(f))'
<1>1. References(f)' = References(f) \ {<<q, vb, b>>} /\ <<q, vb, b>> \in References(f)
  BY DEF References, Tokens, Keys, Tags
<1>2. IsFiniteSet(References(f))
  BY TokensFinite DEF References
<1> QED BY <1>1, <1>2, FS_RemoveElement DEF RefsExact

\* ... and when the references of a process from one kind of entry become references
\* from another kind.
LEMMA CountMoved ==
  ASSUME RefsExact, NEW f \in Frames, refs'[f] = refs[f],
         NEW q \in Procs, NEW a \in Tags, NEW b \in Tags,
         \A va \in Keys : /\ Refers(q, va, b, f)' <=> Refers(q, va, a, f)
                          /\ ~Refers(q, va, b, f) /\ ~Refers(q, va, a, f)',
         \A p \in Procs, va \in Keys, by \in Tags :
           p # q \/ by \notin {a, b} => (Refers(p, va, by, f)' <=> Refers(p, va, by, f))
  PROVE  refs'[f] = Cardinality(References(f))'
<1> DEFINE S == References(f)
           T == References(f)'
           m == [r \in S |-> IF r[1] = q /\ r[3] = a THEN <<q, r[2], b>> ELSE r]
<1>1. \A r \in S : m[r] \in T
  BY DEF References, Tokens, Keys, Tags
<1>2. \A r, s \in S : m[r] = m[s] => r = s
  BY DEF References, Tokens, Keys, Tags
<1>3. \A t \in T : \E r \in S : m[r] = t
  <2> SUFFICES ASSUME NEW t \in T PROVE \E r \in S : m[r] = t
    OBVIOUS
  <2>1. CASE t[1] = q /\ t[3] = b
    <3>1. <<q, t[2], a>> \in S /\ m[<<q, t[2], a>>] = t
      BY <2>1 DEF References, Tokens, Keys, Tags
    <3> QED BY <3>1
  <2>2. CASE ~(t[1] = q /\ t[3] = b)
    <3>1. t \in S /\ m[t] = t
      BY <2>2 DEF References, Tokens, Keys, Tags
    <3> QED BY <3>1
  <2> QED BY <2>1, <2>2
<1>4. m \in Bijection(S, T)
  BY <1>1, <1>2, <1>3, Fun_IsBij
<1>5. IsFiniteSet(S)
  BY TokensFinite DEF References
<1>6. Cardinality(T) = Cardinality(S)
  BY <1>4, <1>5, FS_Bijection DEF ExistsBijection
<1> QED BY <1>6 DEF RefsExact

\* A frame that is referred to has a count.
LEMMA CountedFacts ==
  ASSUME RefsExact, NEW f \in Frames
  PROVE  /\ \A p \in Procs, va \in Keys, by \in Tags : Refers(p, va, by, f) => refs[f] > 0
         /\ refs[f] = 1 => \A p, q \in Procs, va, vb \in Keys, a, b \in Tags :
              Refers(p, va, a, f) /\ Refers(q, vb, b, f) => p = q /\ va = vb /\ a = b
<1>1. IsFiniteSet(References(f)) /\ refs[f] = Cardinality(References(f)) /\ refs[f] \in Nat
  BY TokensFinite DEF References, RefsExact, CowTypeOK
<1>2. \A r \in References(f) : refs[f] > 0
  BY <1>1, FS_EmptySet
<1>3. refs[f] = 1 => \A r, s \in References(f) : r = s
  <2>1. refs[f] = 1 => \E x : References(f) = {x}
    BY <1>1, FS_Singleton
  <2> QED BY <2>1
<1>4. ASSUME NEW p \in Procs, NEW va \in Keys, NEW by \in Tags, Refers(p, va, by, f)
      PROVE  <<p, va, by>> \in References(f)
  BY <1>4, TokenFacts
<1>5. ASSUME refs[f] = 1, NEW p \in Procs, NEW q \in Procs, NEW va \in Keys, NEW vb \in Keys,
             NEW a \in Tags, NEW b \in Tags, Refers(p, va, a, f), Refers(q, vb, b, f)
      PROVE  p = q /\ va = vb /\ a = b
  <2>1. <<p, va, a>> = <<q, vb, b>>
    BY <1>3, <1>4, <1>5
  <2> QED BY <2>1
<1> QED BY <1>2, <1>4, <1>5

\* The lock of the handler and what it knows of its entry.
LEMMA HandlerStep ==
  ASSUME CowInv, NEW p \in Procs, Works(p)
  PROVE  LockExact' /\ HandlerEntry'
<1> USE CowAssumption
<1> USE DEF CowInv, RefsExact, CowTypeOK, Frames, NoFrame, Locations,
            memVars, Move, MapAndReturn, Unmapped
<1> USE DEF LockExact, HandlerEntry, Handler
<1>1. ASSUME NEW va \in Pages, NEW v \in Values, Write(p, va, v) PROVE LockExact' /\ HandlerEntry'
  BY <1>1 DEF Write
<1>2. ASSUME NEW va \in Pages, Fault(p, va) PROVE LockExact' /\ HandlerEntry'
  BY <1>2 DEF Fault
<1>3. ASSUME NEW q \in Procs, Fork(p, q) PROVE LockExact' /\ HandlerEntry'
  BY <1>3 DEF Fork
<1>4. CASE Exec(p)
  BY <1>4 DEF Exec
<1>5. CASE Exit(p)
  BY <1>5 DEF Exit
<1>6. CASE FaultZero(p)
  <2>1. PICK f \in Frames : MapAndReturn(p, f)
    BY <1>6 DEF FaultZero
  <2> QED BY <1>6, <2>1 DEF FaultZero
<1>7. CASE FaultReuse(p)
  BY <1>7 DEF FaultReuse
<1>8. CASE FaultCopy(p)
  <2>1. PICK g \in Frames : fresh' = [fresh EXCEPT ![p] = g]
    BY <1>8 DEF FaultCopy
  <2> QED BY <1>8, <2>1 DEF FaultCopy
<1>9. CASE FaultDec(p)
  BY <1>9 DEF FaultDec
<1>10. CASE FaultFree(p)
  BY <1>10 DEF FaultFree
<1>11. ASSUME NEW va \in Pages, CopyProtect(p, va) PROVE LockExact' /\ HandlerEntry'
  BY <1>11 DEF CopyProtect
<1>12. CASE CopyShare(p)
  BY <1>12 DEF CopyShare
<1>13. CASE CopyDone(p)
  BY <1>13 DEF CopyDone
<1>14. ASSUME NEW va \in Pages, DropDec(p, va) PROVE LockExact' /\ HandlerEntry'
  BY <1>14 DEF DropDec
<1>15. CASE DropFree(p)
  BY <1>15 DEF DropFree
<1>16. CASE ExecDone(p)
  BY <1>16 DEF ExecDone
<1> QED BY <1>1, <1>2, <1>3, <1>4, <1>5, <1>6, <1>7, <1>8,
  <1>9, <1>10, <1>11, <1>12, <1>13, <1>14, <1>15, <1>16
  DEF Works, UserStep, KernelStep

\* The space that execl deletes.
LEMMA DropStep ==
  ASSUME CowInv, NEW p \in Procs, Works(p)
  PROVE  DropEntry'
<1> USE CowAssumption
<1> USE DEF CowInv, RefsExact, CowTypeOK, Frames, NoFrame, Locations,
            memVars, Move, MapAndReturn, Unmapped
<1> USE DEF DropEntry, NoOld, HandlerEntry, Handler, CopyEntry
<1>1. ASSUME NEW va \in Pages, NEW v \in Values, Write(p, va, v) PROVE DropEntry'
  BY <1>1 DEF Write
<1>2. ASSUME NEW va \in Pages, Fault(p, va) PROVE DropEntry'
  BY <1>2 DEF Fault
<1>3. ASSUME NEW q \in Procs, Fork(p, q) PROVE DropEntry'
  BY <1>3 DEF Fork
<1>4. CASE Exec(p)
  BY <1>4 DEF Exec
<1>5. CASE Exit(p)
  BY <1>5 DEF Exit
<1>6. CASE FaultZero(p)
  <2>1. PICK f \in Frames : MapAndReturn(p, f)
    BY <1>6 DEF FaultZero
  <2> QED BY <1>6, <2>1 DEF FaultZero
<1>7. CASE FaultReuse(p)
  BY <1>7 DEF FaultReuse
<1>8. CASE FaultCopy(p)
  <2>1. PICK g \in Frames : fresh' = [fresh EXCEPT ![p] = g]
    BY <1>8 DEF FaultCopy
  <2> QED BY <1>8, <2>1 DEF FaultCopy
<1>9. CASE FaultDec(p)
  BY <1>9 DEF FaultDec
<1>10. CASE FaultFree(p)
  BY <1>10 DEF FaultFree
<1>11. ASSUME NEW va \in Pages, CopyProtect(p, va) PROVE DropEntry'
  BY <1>11 DEF CopyProtect
<1>12. CASE CopyShare(p)
  BY <1>12 DEF CopyShare
<1>13. CASE CopyDone(p)
  BY <1>13 DEF CopyDone
<1>14. ASSUME NEW va \in Pages, DropDec(p, va) PROVE DropEntry'
  BY <1>14 DEF DropDec
<1>15. CASE DropFree(p)
  BY <1>15 DEF DropFree
<1>16. CASE ExecDone(p)
  BY <1>16 DEF ExecDone
<1> QED BY <1>1, <1>2, <1>3, <1>4, <1>5, <1>6, <1>7, <1>8,
  <1>9, <1>10, <1>11, <1>12, <1>13, <1>14, <1>15, <1>16
  DEF Works, UserStep, KernelStep

\* The pages of a parent and of the child that copies them.
LEMMA CopyStep ==
  ASSUME CowInv, NEW p \in Procs, Works(p)
  PROVE  CopyEntry'
<1> USE CowAssumption
<1> USE DEF CowInv, RefsExact, CowTypeOK, Frames, NoFrame, Locations,
            memVars, Move, MapAndReturn, Unmapped
<1> USE DEF DropEntry, NoOld, CopyEntry
<1>1. ASSUME NEW va \in Pages, NEW v \in Values, Write(p, va, v) PROVE CopyEntry'
  BY <1>1 DEF Write
<1>2. ASSUME NEW va \in Pages, Fault(p, va) PROVE CopyEntry'
  BY <1>2 DEF Fault
<1>3. ASSUME NEW q \in Procs, Fork(p, q) PROVE CopyEntry'
  BY <1>3 DEF Fork
<1>4. CASE Exec(p)
  BY <1>4 DEF Exec
<1>5. CASE Exit(p)
  BY <1>5 DEF Exit
<1>6. CASE FaultZero(p)
  <2>1. PICK f \in Frames : MapAndReturn(p, f)
    BY <1>6 DEF FaultZero
  <2> QED BY <1>6, <2>1 DEF FaultZero
<1>7. CASE FaultReuse(p)
  BY <1>7 DEF FaultReuse
<1>8. CASE FaultCopy(p)
  <2>1. PICK g \in Frames : fresh' = [fresh EXCEPT ![p] = g]
    BY <1>8 DEF FaultCopy
  <2> QED BY <1>8, <2>1 DEF FaultCopy
<1>9. CASE FaultDec(p)
  BY <1>9 DEF FaultDec
<1>10. CASE FaultFree(p)
  BY <1>10 DEF FaultFree
<1>11. ASSUME NEW va \in Pages, CopyProtect(p, va) PROVE CopyEntry'
  BY <1>11 DEF CopyProtect
<1>12. CASE CopyShare(p)
  BY <1>12 DEF CopyShare
<1>13. CASE CopyDone(p)
  BY <1>13 DEF CopyDone
<1>14. ASSUME NEW va \in Pages, DropDec(p, va) PROVE CopyEntry'
  BY <1>14 DEF DropDec
<1>15. CASE DropFree(p)
  BY <1>15 DEF DropFree
<1>16. CASE ExecDone(p)
  BY <1>16 DEF ExecDone
<1> QED BY <1>1, <1>2, <1>3, <1>4, <1>5, <1>6, <1>7, <1>8,
  <1>9, <1>10, <1>11, <1>12, <1>13, <1>14, <1>15, <1>16
  DEF Works, UserStep, KernelStep

\* alloc takes a frame with count zero, and sets the count to one.
LEMMA AllocTypes ==
  ASSUME CowTypeOK, NEW f \in Frames, NEW v \in Values, Alloc(f, v)
  PROVE  /\ freeList' \in Seq(Frames) /\ avail' \in 1 .. Limit + 1
         /\ refs' \in [Frames -> Nat] /\ contents' \in [Frames -> Values]
         /\ refs[f] = 0
<1>1. freeList' \in Seq(Frames)
  <2>1. CASE freeList = << >>
    BY <2>1 DEF Alloc, CowTypeOK
  <2>2. CASE freeList # << >>
    <3>1. freeList \in Seq(Frames)
      BY DEF CowTypeOK
    <3>2. Tail(freeList) \in Seq(Frames)
      BY <2>2, <3>1, RemoveFacts
    <3> QED BY <2>2, <3>2 DEF Alloc
  <2> QED BY <2>1, <2>2
<1>2. avail' \in 1 .. Limit + 1
  BY CowAssumption DEF Alloc, CowTypeOK
<1> QED BY <1>1, <1>2 DEF Alloc, CowTypeOK

\* Every step keeps the types; a count that dec decrements is not zero.
LEMMA TypeStep ==
  ASSUME CowInv, NEW p \in Procs, Works(p)
  PROVE  CowTypeOK'
<1> USE CowAssumption
<1> USE DEF CowInv, RefsExact, CowTypeOK, Frames, NoFrame, Locations,
            memVars, Move, MapAndReturn, Unmapped
<1>1. ASSUME NEW va \in Pages, NEW v \in Values, Write(p, va, v) PROVE CowTypeOK'
  <2>1. pte[p][va].frame \in Frames
    BY <1>1 DEF Write, WritableAlone
  <2> QED BY <1>1, <2>1 DEF Write
<1>2. ASSUME NEW va \in Pages, Fault(p, va) PROVE CowTypeOK'
  BY <1>2 DEF Fault
<1>3. ASSUME NEW q \in Procs, Fork(p, q) PROVE CowTypeOK'
  BY <1>3 DEF Fork
<1>4. CASE Exec(p)
  BY <1>4 DEF Exec
<1>5. CASE Exit(p)
  BY <1>5 DEF Exit
<1>6. CASE FaultZero(p)
  <2>1. PICK f \in Frames : Alloc(f, Zero) /\ MapAndReturn(p, f)
    BY <1>6 DEF FaultZero
  <2>2. page[p] \in Pages
    BY <1>6 DEF FaultZero, HandlerEntry, Handler
  <2>3. freeList' \in Seq(Frames) /\ avail' \in 1 .. Limit + 1 /\ refs' \in [Frames -> Nat]
        /\ contents' \in [Frames -> Values]
    BY <2>1, AllocTypes
  <2> QED BY <1>6, <2>1, <2>2, <2>3 DEF FaultZero
<1>7. CASE FaultReuse(p)
  <2>1. page[p] \in Pages
    BY <1>7 DEF FaultReuse, HandlerEntry, Handler
  <2> QED BY <1>7, <2>1 DEF FaultReuse
<1>8. CASE FaultCopy(p)
  <2>1. page[p] \in Pages
    BY <1>8 DEF FaultCopy, HandlerEntry, Handler
  <2> DEFINE f == pte[p][page[p]].frame
  <2>2. PICK g \in Frames : Alloc(g, contents[f]) /\ fresh' = [fresh EXCEPT ![p] = g]
    BY <1>8 DEF FaultCopy
  <2>3. contents[f] \in Values
    BY <1>8, <2>1 DEF FaultCopy
  <2>4. freeList' \in Seq(Frames) /\ avail' \in 1 .. Limit + 1 /\ refs' \in [Frames -> Nat]
        /\ contents' \in [Frames -> Values]
    BY <2>2, <2>3, AllocTypes
  <2> QED BY <1>8, <2>1, <2>2, <2>4 DEF FaultCopy
<1>9. CASE FaultDec(p)
  <2>1. page[p] \in Pages /\ pte[p][page[p]].frame \in Frames
    BY <1>9 DEF FaultDec, HandlerEntry, Handler
  <2>2. Refers(p, page[p], "pte", pte[p][page[p]].frame)
    BY <1>9, <2>1 DEF FaultDec, Refers
  <2>3. refs[pte[p][page[p]].frame] > 0
    BY <2>1, <2>2, CountedFacts DEF Keys, Tags
  <2> QED BY <1>9, <2>1, <2>3 DEF FaultDec, Dec
<1>10. CASE FaultFree(p)
  <2>1. page[p] \in Pages /\ pte[p][page[p]].frame \in Frames /\ fresh[p] \in Frames
    BY <1>10 DEF FaultFree, HandlerEntry, Handler
  <2>2. freeList' \in Seq(Frames)
    BY <1>10, <2>1, PushFacts DEF FaultFree, FreeIfZero
  <2> QED BY <1>10, <2>1, <2>2 DEF FaultFree
<1>11. ASSUME NEW va \in Pages, CopyProtect(p, va) PROVE CowTypeOK'
  <2>0. pte[p][va] \in [frame : Frames \cup {NoFrame}, w : BOOLEAN]
    OBVIOUS
  <2>1. [pte[p][va] EXCEPT !.w = FALSE] \in [frame : Frames \cup {NoFrame}, w : BOOLEAN]
    BY <2>0
  <2>2. pte' = [pte EXCEPT ![p] = [pte[p] EXCEPT ![va] = [pte[p][va] EXCEPT !.w = FALSE]]]
    BY <1>11 DEF CopyProtect
  <2>3. pte' \in [Procs -> [Pages -> [frame : Frames \cup {NoFrame}, w : BOOLEAN]]]
    BY <2>1, <2>2
  <2> QED BY <1>11, <2>3 DEF CopyProtect
<1>12. CASE CopyShare(p)
  <2>1. page[child[p]] \in Pages /\ pte[p][page[child[p]]].frame \in Frames
    BY <1>12 DEF CopyShare, CopyEntry
  <2> QED BY <1>12, <2>1 DEF CopyShare
<1>13. CASE CopyDone(p)
  BY <1>13 DEF CopyDone
<1>14. ASSUME NEW va \in Pages, DropDec(p, va) PROVE CowTypeOK'
  <2>1. Refers(p, va, "old", old[p][va]) /\ old[p][va] \in Frames
    BY <1>14 DEF DropDec, Refers
  <2>2. refs[old[p][va]] > 0
    BY <2>1, CountedFacts DEF Keys, Tags
  <2> QED BY <1>14, <2>1, <2>2 DEF DropDec, Dec
<1>15. CASE DropFree(p)
  <2>1. page[p] \in Pages /\ old[p][page[p]] \in Frames
    BY <1>15 DEF DropFree, DropEntry
  <2>2. freeList' \in Seq(Frames)
    BY <1>15, <2>1, PushFacts DEF DropFree, FreeIfZero
  <2> QED BY <1>15, <2>1, <2>2 DEF DropFree
<1>16. CASE ExecDone(p)
  BY <1>16 DEF ExecDone
<1> QED BY <1>1, <1>2, <1>3, <1>4, <1>5, <1>6, <1>7, <1>8,
  <1>9, <1>10, <1>11, <1>12, <1>13, <1>14, <1>15, <1>16
  DEF Works, UserStep, KernelStep

\* Every step keeps the counts exact.
LEMMA CountStep ==
  ASSUME CowInv, NEW p \in Procs, Works(p)
  PROVE  \A f \in Frames : refs'[f] = Cardinality(References(f))'
<1>0. RefsExact /\ CowTypeOK
  BY DEF CowInv, RefsExact
<1> USE CowAssumption, <1>0
<1> USE DEF CowInv, CowTypeOK, Frames, NoFrame, Locations, memVars, Move, MapAndReturn, Unmapped
<1>1. ASSUME NEW va \in Pages, NEW v \in Values, Write(p, va, v)
      PROVE  \A f \in Frames : refs'[f] = Cardinality(References(f))'
  <2>1. refs' = refs
    BY <1>1 DEF Write
  <2>2. ASSUME NEW f \in Frames, NEW q \in Procs, NEW vb \in Keys, NEW b \in Tags
        PROVE  Refers(q, vb, b, f)' <=> Refers(q, vb, b, f)
    BY <1>1 DEF Write, Refers, Keys, Tags, HandlerEntry, DropEntry, CopyEntry, Handler, NoOld
  <2> QED BY <2>1, <2>2, CountSame
<1>2. ASSUME NEW va \in Pages, Fault(p, va)
      PROVE  \A f \in Frames : refs'[f] = Cardinality(References(f))'
  <2>1. refs' = refs
    BY <1>2 DEF Fault
  <2>2. ASSUME NEW f \in Frames, NEW q \in Procs, NEW vb \in Keys, NEW b \in Tags
        PROVE  Refers(q, vb, b, f)' <=> Refers(q, vb, b, f)
    BY <1>2 DEF Fault, Refers, Keys, Tags, HandlerEntry, DropEntry, CopyEntry, Handler, NoOld
  <2> QED BY <2>1, <2>2, CountSame
<1>3. ASSUME NEW q \in Procs, Fork(p, q)
      PROVE  \A f \in Frames : refs'[f] = Cardinality(References(f))'
  <2>1. refs' = refs
    BY <1>3 DEF Fork
  <2>2. ASSUME NEW f \in Frames, NEW r \in Procs, NEW vb \in Keys, NEW b \in Tags
        PROVE  Refers(r, vb, b, f)' <=> Refers(r, vb, b, f)
    BY <1>3 DEF Fork, Refers, Keys, Tags, HandlerEntry, DropEntry, CopyEntry, Handler, NoOld
  <2> QED BY <2>1, <2>2, CountSame
<1>4. CASE Exec(p)
  <2>1. /\ \A va \in Pages : old[p][va] = NoFrame
        /\ old' = [old EXCEPT ![p] = [va \in Pages |-> pte[p][va].frame]]
        /\ pte' = [pte EXCEPT ![p] = Unmapped]
        /\ loc[p] = "user" /\ loc' = [loc EXCEPT ![p] = "x_next"] /\ page' = page
        /\ fresh' = fresh /\ refs' = refs
    BY <1>4 DEF Exec, DropEntry, NoOld
  <2>2. ASSUME NEW f \in Frames, NEW vb \in Keys
        PROVE  /\ Refers(p, vb, "old", f)' <=> Refers(p, vb, "pte", f)
               /\ ~Refers(p, vb, "old", f) /\ ~Refers(p, vb, "pte", f)'
    BY <2>1 DEF Refers, Keys
  <2>3. ASSUME NEW f \in Frames, NEW q \in Procs, NEW vb \in Keys, NEW b \in Tags,
               q # p \/ b \notin {"pte", "old"}
        PROVE  Refers(q, vb, b, f)' <=> Refers(q, vb, b, f)
    BY <2>1, <2>3 DEF Refers, Keys, Tags
  <2>4. "pte" \in Tags /\ "old" \in Tags
    BY DEF Tags
  <2> QED BY <2>1, <2>2, <2>3, <2>4, CountMoved
<1>5. CASE Exit(p)
  <2>1. refs' = refs
    BY <1>5 DEF Exit
  <2>2. ASSUME NEW f \in Frames, NEW q \in Procs, NEW vb \in Keys, NEW b \in Tags
        PROVE  Refers(q, vb, b, f)' <=> Refers(q, vb, b, f)
    BY <1>5 DEF Exit, Refers, Keys, Tags, HandlerEntry, DropEntry, CopyEntry, Handler, NoOld
  <2> QED BY <2>1, <2>2, CountSame
<1>6. CASE FaultZero(p)
  <2>1. PICK g \in Frames : Alloc(g, Zero) /\ MapAndReturn(p, g)
    BY <1>6 DEF FaultZero
  <2>2. PICK va \in Pages : va = page[p]
    BY <1>6 DEF FaultZero, HandlerEntry, Handler
  <2>3. \A q \in Procs, vb \in Keys, b \in Tags : ~Refers(q, vb, b, g)
    <3>1. refs[g] = 0
      BY <2>1 DEF Alloc
    <3> QED BY <3>1, CountedFacts
  <2>4. ASSUME NEW f \in Frames, NEW q \in Procs, NEW vb \in Keys, NEW b \in Tags
        PROVE  Refers(q, vb, b, f)' <=> Refers(q, vb, b, f) \/ (f = g /\ <<q, vb, b>> = <<p, va, "pte">>)
    BY <1>6, <2>1, <2>2, <2>3 DEF FaultZero, Refers, Keys, Tags
  <2>5. \A f \in Frames : refs'[f] = IF f = g THEN refs[f] + 1 ELSE refs[f]
    BY <2>1 DEF Alloc
  <2>6. va \in Keys /\ "pte" \in Tags
    BY DEF Keys, Tags
  <2>7. refs'[g] = Cardinality(References(g))'
    BY <2>3, <2>4, <2>5, <2>6, CountMore
  <2> QED BY <2>4, <2>5, <2>7, CountSame
<1>7. CASE FaultReuse(p)
  <2>1. refs' = refs
    BY <1>7 DEF FaultReuse
  <2>2. ASSUME NEW f \in Frames, NEW q \in Procs, NEW vb \in Keys, NEW b \in Tags
        PROVE  Refers(q, vb, b, f)' <=> Refers(q, vb, b, f)
    BY <1>7 DEF FaultReuse, Refers, Keys, Tags, HandlerEntry, DropEntry, CopyEntry, Handler, NoOld
  <2> QED BY <2>1, <2>2, CountSame
<1>8. CASE FaultCopy(p)
  <2>1. PICK g \in Frames : /\ Alloc(g, contents[pte[p][page[p]].frame])
                            /\ fresh' = [fresh EXCEPT ![p] = g]
    BY <1>8 DEF FaultCopy
  <2>2. fresh[p] = NoFrame
    BY <1>8 DEF FaultCopy, HandlerEntry
  <2>3. \A q \in Procs, vb \in Keys, b \in Tags : ~Refers(q, vb, b, g)
    <3>1. refs[g] = 0
      BY <2>1 DEF Alloc
    <3> QED BY <3>1, CountedFacts
  <2>4. ASSUME NEW f \in Frames, NEW q \in Procs, NEW vb \in Keys, NEW b \in Tags
        PROVE  Refers(q, vb, b, f)' <=> Refers(q, vb, b, f) \/ (f = g /\ <<q, vb, b>> = <<p, NoPage, "fresh">>)
    BY <1>8, <2>1, <2>2, <2>3 DEF FaultCopy, Refers, Keys, Tags
  <2>5. \A f \in Frames : refs'[f] = IF f = g THEN refs[f] + 1 ELSE refs[f]
    BY <2>1 DEF Alloc
  <2>6. NoPage \in Keys /\ "fresh" \in Tags
    BY DEF Keys, Tags
  <2>7. refs'[g] = Cardinality(References(g))'
    BY <2>3, <2>4, <2>5, <2>6, CountMore
  <2> QED BY <2>4, <2>5, <2>7, CountSame
<1>9. CASE FaultDec(p)
  <2>1. PICK vc \in Pages : vc = page[p]
    BY <1>9 DEF FaultDec, HandlerEntry, Handler
  <2>2. PICK g \in Frames : g = pte[p][page[p]].frame
    BY <1>9, <2>1 DEF FaultDec, HandlerEntry, Handler
  <2>3. Refers(p, vc, "pte", g)
    BY <1>9, <2>1, <2>2 DEF FaultDec, Refers
  <2>4. ASSUME NEW f \in Frames, NEW q \in Procs, NEW vb \in Keys, NEW b \in Tags
        PROVE  Refers(q, vb, b, f)' <=> Refers(q, vb, b, f) /\ ~(f = g /\ <<q, vb, b>> = <<p, vc, "pte">>)
    BY <1>9, <2>1, <2>2 DEF FaultDec, Refers, Keys, Tags
  <2>5. \A f \in Frames : refs'[f] = IF f = g THEN refs[f] - 1 ELSE refs[f]
    BY <1>9, <2>1, <2>2 DEF FaultDec, Dec
  <2>6. vc \in Keys /\ "pte" \in Tags
    BY DEF Keys, Tags
  <2>7. refs'[g] = Cardinality(References(g))'
    <3>1. refs'[g] = refs[g] - 1
      BY <2>5
    <3>2. \A q \in Procs, vb \in Keys, b \in Tags :
            Refers(q, vb, b, g)' <=> Refers(q, vb, b, g) /\ <<q, vb, b>> # <<p, vc, "pte">>
      BY <2>4
    <3> QED BY <2>3, <2>6, <3>1, <3>2, CountLess
  <2> QED BY <2>4, <2>5, <2>7, CountSame
<1>10. CASE FaultFree(p)
  <2>1. PICK va \in Pages : va = page[p]
    BY <1>10 DEF FaultFree, HandlerEntry, Handler
  <2>2. PICK g \in Frames : g = fresh[p]
    BY <1>10 DEF FaultFree, HandlerEntry
  <2>3. OnlyOne(p, NoPage, "fresh", g) /\ Refers(p, NoPage, "fresh", g)
    BY <2>2 DEF FreshAlone, Refers
  <2>4. ASSUME NEW f \in Frames, NEW q \in Procs, NEW vb \in Keys, NEW b \in Tags
        PROVE  Refers(q, vb, b, f)' <=>
                 IF f = g THEN <<q, vb, b>> = <<p, va, "pte">> ELSE Refers(q, vb, b, f)
    BY <1>10, <2>1, <2>2, <2>3 DEF FaultFree, Refers, OnlyOne, Keys, Tags
  <2>5. \A f \in Frames : refs'[f] = refs[f]
    BY <1>10 DEF FaultFree
  <2>6. References(g) = {<<p, NoPage, "fresh">>} /\ References(g)' = {<<p, va, "pte">>}
    BY <2>3, <2>4 DEF References, Tokens, OnlyOne, Keys, Tags
  <2>7. refs'[g] = Cardinality(References(g))'
    <3>1. Cardinality(References(g)) = 1 /\ Cardinality(References(g)') = 1
      BY <2>6, FS_Singleton
    <3> QED BY <2>5, <3>1 DEF RefsExact
  <2> QED BY <2>4, <2>5, <2>7, CountSame
<1>11. ASSUME NEW va \in Pages, CopyProtect(p, va)
      PROVE  \A f \in Frames : refs'[f] = Cardinality(References(f))'
  <2>1. refs' = refs
    BY <1>11 DEF CopyProtect
  <2>2. ASSUME NEW f \in Frames, NEW q \in Procs, NEW vb \in Keys, NEW b \in Tags
        PROVE  Refers(q, vb, b, f)' <=> Refers(q, vb, b, f)
    BY <1>11 DEF CopyProtect, Refers, Keys, Tags, HandlerEntry, DropEntry, CopyEntry, Handler, NoOld
  <2> QED BY <2>1, <2>2, CountSame
<1>12. CASE CopyShare(p)
  <2>1. PICK q \in Procs : q = child[p]
    OBVIOUS
  <2>2. PICK va \in Pages : va = page[q]
    BY <1>12, <2>1 DEF CopyShare, CopyEntry
  <2>3. PICK g \in Frames : g = pte[p][va].frame
    BY <1>12, <2>1, <2>2 DEF CopyShare, CopyEntry
  <2>4. pte[q][va].frame = NoFrame /\ q # p
    BY <1>12, <2>1, <2>2 DEF CopyShare, CopyEntry
  <2>5. ~Refers(q, va, "pte", g)
    BY <2>4 DEF Refers
  <2>6. ASSUME NEW f \in Frames, NEW r \in Procs, NEW vb \in Keys, NEW b \in Tags
        PROVE  Refers(r, vb, b, f)' <=> Refers(r, vb, b, f) \/ (f = g /\ <<r, vb, b>> = <<q, va, "pte">>)
    BY <1>12, <2>1, <2>2, <2>3, <2>4 DEF CopyShare, Refers, Keys, Tags
  <2>7. \A f \in Frames : refs'[f] = IF f = g THEN refs[f] + 1 ELSE refs[f]
    BY <1>12, <2>1, <2>2, <2>3 DEF CopyShare
  <2>8. va \in Keys /\ "pte" \in Tags
    BY DEF Keys, Tags
  <2>9. refs'[g] = Cardinality(References(g))'
    BY <2>5, <2>6, <2>7, <2>8, CountMore
  <2> QED BY <2>6, <2>7, <2>9, CountSame
<1>13. CASE CopyDone(p)
  <2>1. refs' = refs
    BY <1>13 DEF CopyDone
  <2>2. ASSUME NEW f \in Frames, NEW q \in Procs, NEW vb \in Keys, NEW b \in Tags
        PROVE  Refers(q, vb, b, f)' <=> Refers(q, vb, b, f)
    BY <1>13 DEF CopyDone, Refers, Keys, Tags, HandlerEntry, DropEntry, CopyEntry, Handler, NoOld
  <2> QED BY <2>1, <2>2, CountSame
<1>14. ASSUME NEW va \in Pages, DropDec(p, va)
      PROVE  \A f \in Frames : refs'[f] = Cardinality(References(f))'
  <2>1. PICK vc \in Pages : vc = va
    OBVIOUS
  <2>2. PICK g \in Frames : g = old[p][va]
    BY <1>14, <2>1 DEF DropDec
  <2>3. Refers(p, vc, "old", g)
    BY <1>14, <2>1, <2>2 DEF DropDec, Refers
  <2>4. ASSUME NEW f \in Frames, NEW q \in Procs, NEW vb \in Keys, NEW b \in Tags
        PROVE  Refers(q, vb, b, f)' <=> Refers(q, vb, b, f) /\ ~(f = g /\ <<q, vb, b>> = <<p, vc, "old">>)
    BY <1>14, <2>1, <2>2 DEF DropDec, Refers, Keys, Tags
  <2>5. \A f \in Frames : refs'[f] = IF f = g THEN refs[f] - 1 ELSE refs[f]
    BY <1>14, <2>1, <2>2 DEF DropDec, Dec
  <2>6. vc \in Keys /\ "old" \in Tags
    BY DEF Keys, Tags
  <2>7. refs'[g] = Cardinality(References(g))'
    <3>1. refs'[g] = refs[g] - 1
      BY <2>5
    <3>2. \A q \in Procs, vb \in Keys, b \in Tags :
            Refers(q, vb, b, g)' <=> Refers(q, vb, b, g) /\ <<q, vb, b>> # <<p, vc, "old">>
      BY <2>4
    <3> QED BY <2>3, <2>6, <3>1, <3>2, CountLess
  <2> QED BY <2>4, <2>5, <2>7, CountSame
<1>15. CASE DropFree(p)
  <2>1. refs' = refs
    BY <1>15 DEF DropFree
  <2>2. ASSUME NEW f \in Frames, NEW q \in Procs, NEW vb \in Keys, NEW b \in Tags
        PROVE  Refers(q, vb, b, f)' <=> Refers(q, vb, b, f)
    BY <1>15 DEF DropFree, Refers, Keys, Tags, HandlerEntry, DropEntry, CopyEntry, Handler, NoOld
  <2> QED BY <2>1, <2>2, CountSame
<1>16. CASE ExecDone(p)
  <2>1. refs' = refs
    BY <1>16 DEF ExecDone
  <2>2. ASSUME NEW f \in Frames, NEW q \in Procs, NEW vb \in Keys, NEW b \in Tags
        PROVE  Refers(q, vb, b, f)' <=> Refers(q, vb, b, f)
    BY <1>16 DEF ExecDone, Refers, Keys, Tags, HandlerEntry, DropEntry, CopyEntry, Handler, NoOld
  <2> QED BY <2>1, <2>2, CountSame
<1> QED BY <1>1, <1>2, <1>3, <1>4, <1>5, <1>6, <1>7, <1>8,
  <1>9, <1>10, <1>11, <1>12, <1>13, <1>14, <1>15, <1>16
  DEF Works, UserStep, KernelStep

\* A frame with count zero is mapped nowhere when a process is in the fault handler
\* that has not counted its frame out.
LEMMA UnusedFacts ==
  ASSUME CowInv, NEW p \in Procs, loc[p] = "f_look", NEW g \in Frames, refs[g] = 0
  PROVE  /\ \A r \in Procs, vc \in Pages : pte[r][vc].frame # g
         /\ \A q \in Procs, vb \in Keys, b \in Tags : ~Refers(q, vb, b, g)
<1>1. RefsExact
  BY DEF CowInv
<1>2. \A q \in Procs, vb \in Keys, b \in Tags : ~Refers(q, vb, b, g)
  BY <1>1, CountedFacts
<1>3. \A r \in Procs : loc[r] # "f_read"
  BY DEF CowInv, LockExact, Handler
<1>4. ASSUME NEW r \in Procs, NEW vc \in Pages, pte[r][vc].frame = g PROVE FALSE
  <2>1. Refers(r, vc, "pte", g)
    BY <1>3, <1>4 DEF Refers
  <2> QED BY <1>2, <2>1 DEF Keys, Tags
<1> QED BY <1>2, <1>4

\* Writable entries stay alone when no reference comes and no W is set, ...
LEMMA UnsharedStays ==
  ASSUME CowTypeOK, WritableAlone, WritableIsUnshared,
         \A r \in Procs, vc \in Pages :
           pte[r][vc].frame' = pte[r][vc].frame /\ (pte[r][vc].w' => pte[r][vc].w),
         \A f \in Frames, q \in Procs, vb \in Keys, b \in Tags :
           Refers(q, vb, b, f)' => Refers(q, vb, b, f)
  PROVE  WritableAlone' /\ WritableIsUnshared'
<1>1. ASSUME NEW q \in Procs, NEW vb \in Pages, pte'[q][vb].w
      PROVE  /\ pte[q][vb].w /\ pte'[q][vb].frame = pte[q][vb].frame /\ pte[q][vb].frame \in Frames
             /\ OnlyOne(q, vb, "pte", pte[q][vb].frame)
  BY <1>1 DEF WritableAlone, CowTypeOK, NoFrame
<1>2. WritableAlone'
  BY <1>1 DEF WritableAlone, OnlyOne, Keys, Tags, NoFrame, Frames
<1>3. WritableIsUnshared'
  BY <1>1 DEF WritableIsUnshared
<1> QED BY <1>2, <1>3

\* ... and when one entry gets a frame that nothing else refers to.
LEMMA UnsharedGained ==
  ASSUME CowTypeOK, WritableAlone, WritableIsUnshared,
         NEW p \in Procs, NEW va \in Pages, NEW g \in Frames,
         \A r \in Procs, vc \in Pages :
           pte'[r][vc] = IF r = p /\ vc = va THEN [frame |-> g, w |-> TRUE] ELSE pte[r][vc],
         \A r \in Procs, vc \in Pages : pte[r][vc].frame = g => r = p /\ vc = va,
         \A f \in Frames, q \in Procs, vb \in Keys, b \in Tags :
           Refers(q, vb, b, f)' =>
             IF f = g THEN q = p /\ vb = va /\ b = "pte" ELSE Refers(q, vb, b, f)
  PROVE  WritableAlone' /\ WritableIsUnshared'
<1>1. ASSUME NEW q \in Procs, NEW vb \in Pages, pte'[q][vb].w, ~(q = p /\ vb = va)
      PROVE  /\ pte[q][vb].w /\ pte'[q][vb] = pte[q][vb]
             /\ pte[q][vb].frame \in Frames /\ pte[q][vb].frame # g
             /\ OnlyOne(q, vb, "pte", pte[q][vb].frame)
  BY <1>1 DEF WritableAlone, CowTypeOK, NoFrame
<1>2. pte'[p][va].frame = g /\ g # NoFrame
  BY DEF Frames, NoFrame
<1>3. OnlyOne(p, va, "pte", g)'
  BY DEF OnlyOne, Keys, Tags
<1>5. ASSUME NEW q \in Procs, NEW vb \in Pages, pte'[q][vb].w, ~(q = p /\ vb = va)
      PROVE  pte'[q][vb].frame # NoFrame /\ OnlyOne(q, vb, "pte", pte[q][vb].frame)'
  <2>1. PICK f \in Frames : f = pte[q][vb].frame /\ f = pte'[q][vb].frame /\ f # g
    BY <1>1, <1>5
  <2>2. OnlyOne(q, vb, "pte", f)
    BY <1>1, <1>5, <2>1
  <2>3. OnlyOne(q, vb, "pte", f)'
    BY <2>1, <2>2 DEF OnlyOne, Keys, Tags
  <2> QED BY <2>1, <2>3 DEF Frames, NoFrame, OnlyOne, Refers
<1>6. WritableAlone'
  <2> SUFFICES ASSUME NEW q \in Procs, NEW vb \in Pages, pte'[q][vb].w
               PROVE  pte'[q][vb].frame # NoFrame /\ OnlyOne(q, vb, "pte", pte[q][vb].frame)'
    BY DEF WritableAlone
  <2>1. CASE q = p /\ vb = va
    BY <1>2, <1>3, <2>1 DEF OnlyOne, Refers
  <2> QED BY <1>5, <2>1
<1>4. WritableIsUnshared'
  BY <1>1, <1>2 DEF WritableIsUnshared
<1> QED BY <1>4, <1>6

\* Every step keeps the writable entries alone with their frames.
LEMMA WritableStep ==
  ASSUME CowInv, NEW p \in Procs, Works(p)
  PROVE  WritableAlone' /\ WritableIsUnshared'
<1>0. RefsExact /\ CowTypeOK /\ CowInv /\ WritableAlone /\ WritableIsUnshared
  BY DEF CowInv, RefsExact
<1> USE CowAssumption, <1>0
<1> USE DEF CowInv, CowTypeOK, Frames, NoFrame, Locations, memVars, Move, MapAndReturn, Unmapped
<1>1. ASSUME NEW va \in Pages, NEW v \in Values, Write(p, va, v)
      PROVE  WritableAlone' /\ WritableIsUnshared'
  <2>1. ASSUME NEW r \in Procs, NEW vc \in Pages PROVE pte[r][vc]' = pte[r][vc]
    BY <1>1 DEF Write
  <2>2. ASSUME NEW f \in Frames, NEW q \in Procs, NEW vb \in Keys, NEW b \in Tags,
               Refers(q, vb, b, f)'
        PROVE  Refers(q, vb, b, f)
    BY <1>1, <2>2 DEF Write, Refers, Keys, Tags, HandlerEntry, DropEntry, CopyEntry, Handler,
        LockExact, NoOld
  <2> HIDE DEF CowInv, CowTypeOK, Frames, NoFrame, Locations, memVars, Move, MapAndReturn, Unmapped
  <2> QED BY <1>0, <2>1, <2>2, UnsharedStays
<1>2. ASSUME NEW va \in Pages, Fault(p, va) PROVE WritableAlone' /\ WritableIsUnshared'
  <2>1. ASSUME NEW r \in Procs, NEW vc \in Pages PROVE pte[r][vc]' = pte[r][vc]
    BY <1>2 DEF Fault
  <2>2. ASSUME NEW f \in Frames, NEW q \in Procs, NEW vb \in Keys, NEW b \in Tags,
               Refers(q, vb, b, f)'
        PROVE  Refers(q, vb, b, f)
    BY <1>2, <2>2 DEF Fault, Refers, Keys, Tags, HandlerEntry, DropEntry, CopyEntry, Handler,
        LockExact, NoOld
  <2> HIDE DEF CowInv, CowTypeOK, Frames, NoFrame, Locations, memVars, Move, MapAndReturn, Unmapped
  <2> QED BY <1>0, <2>1, <2>2, UnsharedStays
<1>3. ASSUME NEW q \in Procs, Fork(p, q) PROVE WritableAlone' /\ WritableIsUnshared'
  <2>1. ASSUME NEW r \in Procs, NEW vc \in Pages PROVE pte[r][vc]' = pte[r][vc]
    BY <1>3 DEF Fork
  <2>2. ASSUME NEW f \in Frames, NEW r \in Procs, NEW vb \in Keys, NEW b \in Tags,
               Refers(r, vb, b, f)'
        PROVE  Refers(r, vb, b, f)
    BY <1>3, <2>2 DEF Fork, Refers, Keys, Tags, HandlerEntry, DropEntry, CopyEntry, Handler,
        LockExact, NoOld
  <2> HIDE DEF CowInv, CowTypeOK, Frames, NoFrame, Locations, memVars, Move, MapAndReturn, Unmapped
  <2> QED BY <1>0, <2>1, <2>2, UnsharedStays
<1>4. CASE Exec(p)
  <2>1. /\ \A va \in Pages : old[p][va] = NoFrame
        /\ old' = [old EXCEPT ![p] = [va \in Pages |-> pte[p][va].frame]]
        /\ pte' = [pte EXCEPT ![p] = Unmapped]
        /\ loc[p] = "user" /\ loc' = [loc EXCEPT ![p] = "x_next"] /\ page' = page
        /\ fresh' = fresh
    BY <1>4 DEF Exec, DropEntry, NoOld
  <2>2. \A r \in Procs, vc \in Pages :
          /\ pte'[r][vc].w => r # p /\ pte'[r][vc] = pte[r][vc]
          /\ pte'[r][vc].frame # NoFrame => pte'[r][vc] = pte[r][vc]
    BY <2>1
  <2>3. ASSUME NEW f \in Frames, NEW q \in Procs, NEW vb \in Keys, NEW b \in Tags,
               Refers(q, vb, b, f)'
        PROVE  Refers(q, vb, b, f) \/ (q = p /\ Refers(p, vb, "pte", f))
    BY <2>1, <2>3 DEF Refers, Keys, Tags
  <2>4. ASSUME NEW r \in Procs, NEW vb \in Pages, pte'[r][vb].w
        PROVE  /\ pte[r][vb].w /\ pte'[r][vb] = pte[r][vb] /\ r # p
               /\ pte[r][vb].frame \in Frames
               /\ OnlyOne(r, vb, "pte", pte[r][vb].frame)
    BY <2>2, <2>4 DEF WritableAlone
  <2>5. WritableAlone'
    BY <2>3, <2>4 DEF WritableAlone, OnlyOne, Keys, Tags
  <2>6. WritableIsUnshared'
    <3> SUFFICES ASSUME NEW r \in Procs, NEW q \in Procs, NEW va \in Pages, NEW vb \in Pages,
                        pte'[r][va].w, pte'[q][vb].frame = pte'[r][va].frame
                 PROVE  r = q /\ va = vb
      BY DEF WritableIsUnshared
    <3>1. pte'[r][va] = pte[r][va] /\ pte[r][va].w /\ pte[r][va].frame # NoFrame
      BY <2>4
    <3>2. pte'[q][vb] = pte[q][vb]
      BY <2>2, <3>1
    <3> QED BY <3>1, <3>2 DEF WritableIsUnshared
  <2> QED BY <2>5, <2>6
<1>5. CASE Exit(p)
  <2>1. ASSUME NEW r \in Procs, NEW vc \in Pages PROVE pte[r][vc]' = pte[r][vc]
    BY <1>5 DEF Exit
  <2>2. ASSUME NEW f \in Frames, NEW q \in Procs, NEW vb \in Keys, NEW b \in Tags,
               Refers(q, vb, b, f)'
        PROVE  Refers(q, vb, b, f)
    BY <1>5, <2>2 DEF Exit, Refers, Keys, Tags, HandlerEntry, DropEntry, CopyEntry, Handler,
        LockExact, NoOld
  <2> HIDE DEF CowInv, CowTypeOK, Frames, NoFrame, Locations, memVars, Move, MapAndReturn, Unmapped
  <2> QED BY <1>0, <2>1, <2>2, UnsharedStays
<1>6. CASE FaultZero(p)
  <2>1. PICK va \in Pages : va = page[p]
    BY <1>6 DEF FaultZero, HandlerEntry, Handler
  <2>2. PICK g \in Frames : Alloc(g, Zero) /\ MapAndReturn(p, g)
    BY <1>6, <2>1 DEF FaultZero
  <2>3. /\ \A r \in Procs, vc \in Pages :
             pte'[r][vc] = IF r = p /\ vc = va THEN [frame |-> g, w |-> TRUE] ELSE pte[r][vc]
        /\ \A r \in Procs, vc \in Pages : pte[r][vc].frame = g => r = p /\ vc = va
    <3>1. refs[g] = 0
      BY <2>2 DEF Alloc
    <3>2. \A r \in Procs, vc \in Pages : pte[r][vc].frame # g
      BY <1>6, <3>1, UnusedFacts DEF FaultZero, Handler
    <3> QED BY <2>1, <2>2, <3>2
  <2>4. ASSUME NEW f \in Frames, NEW q \in Procs, NEW vb \in Keys, NEW b \in Tags,
               Refers(q, vb, b, f)'
        PROVE  IF f = g THEN q = p /\ vb = va /\ b = "pte" ELSE Refers(q, vb, b, f)
    <3>1. refs[g] = 0
      BY <2>2 DEF Alloc
    <3>2. ~Refers(q, vb, b, g)
      BY <3>1, CountedFacts
    <3> QED BY <1>6, <2>1, <2>2, <2>4, <3>2 DEF FaultZero, Refers, Keys, Tags
  <2> HIDE DEF CowInv, CowTypeOK, Frames, NoFrame, Locations, memVars, Move, MapAndReturn, Unmapped
  <2> QED BY <1>0, <2>3, <2>4, UnsharedGained
<1>7. CASE FaultReuse(p)
  <2>1. PICK va \in Pages : va = page[p]
    BY <1>7 DEF FaultReuse, HandlerEntry, Handler
  <2>2. PICK g \in Frames : g = pte[p][va].frame /\ refs[g] = 1
    BY <1>7, <2>1 DEF FaultReuse
  <2>3. /\ \A r \in Procs, vc \in Pages :
             pte'[r][vc] = IF r = p /\ vc = va THEN [frame |-> g, w |-> TRUE] ELSE pte[r][vc]
        /\ \A r \in Procs, vc \in Pages : pte[r][vc].frame = g => r = p /\ vc = va
    <3>1. \A r \in Procs, vc \in Pages : pte[r][vc].frame = g => r = p /\ vc = va
      <4>1. \A r \in Procs : loc[r] # "f_read"
        BY <1>7 DEF FaultReuse, LockExact, Handler
      <4>2. \A r \in Procs, vc \in Pages : pte[r][vc].frame = g => Refers(r, vc, "pte", g)
        BY <4>1 DEF Refers
      <4>3. Refers(p, va, "pte", g) /\ "pte" \in Tags /\ Pages \subseteq Keys
        BY <2>2, <4>2 DEF Keys, Tags
      <4> QED BY <2>2, <4>2, <4>3, CountedFacts
    <3> QED BY <1>7, <2>1, <2>2, <3>1 DEF FaultReuse
  <2>4. ASSUME NEW f \in Frames, NEW q \in Procs, NEW vb \in Keys, NEW b \in Tags,
               Refers(q, vb, b, f)'
        PROVE  IF f = g THEN q = p /\ vb = va /\ b = "pte" ELSE Refers(q, vb, b, f)
    <3>1. Refers(q, vb, b, f)
      BY <1>7, <2>1, <2>2, <2>4 DEF FaultReuse, Refers, Keys, Tags, LockExact, Handler
    <3>2. Refers(p, va, "pte", g) /\ "pte" \in Tags /\ va \in Keys
      BY <1>7, <2>2 DEF FaultReuse, Refers, Keys, Tags
    <3> QED BY <2>2, <3>1, <3>2, CountedFacts
  <2> HIDE DEF CowInv, CowTypeOK, Frames, NoFrame, Locations, memVars, Move, MapAndReturn, Unmapped
  <2> QED BY <1>0, <2>3, <2>4, UnsharedGained
<1>8. CASE FaultCopy(p)
  <2>1. PICK g \in Frames : /\ Alloc(g, contents[pte[p][page[p]].frame])
                            /\ fresh' = [fresh EXCEPT ![p] = g]
    BY <1>8 DEF FaultCopy
  <2>2. \A r \in Procs, vc \in Pages : pte[r][vc].frame # g
    <3>1. refs[g] = 0
      BY <2>1 DEF Alloc
    <3> QED BY <1>8, <3>1, UnusedFacts DEF FaultCopy, Handler
  <2>3. ASSUME NEW f \in Frames, f # g,
               NEW q \in Procs, NEW vb \in Keys, NEW b \in Tags, Refers(q, vb, b, f)'
        PROVE  Refers(q, vb, b, f)
    BY <1>8, <2>1, <2>3 DEF FaultCopy, Refers, Keys, Tags
  <2>4. \A r \in Procs, vc \in Pages : pte[r][vc]' = pte[r][vc]
    BY <1>8 DEF FaultCopy
  <2>5. ASSUME NEW q \in Procs, NEW vb \in Pages, pte[q][vb].w
        PROVE  /\ pte[q][vb].frame \in Frames /\ pte[q][vb].frame # g
               /\ OnlyOne(q, vb, "pte", pte[q][vb].frame)
    BY <2>2, <2>5 DEF WritableAlone
  <2>6. WritableAlone'
    BY <2>3, <2>4, <2>5 DEF WritableAlone, OnlyOne, Keys, Tags
  <2>7. WritableIsUnshared'
    BY <2>4 DEF WritableIsUnshared
  <2> QED BY <2>6, <2>7
<1>9. CASE FaultDec(p)
  <2>1. ASSUME NEW r \in Procs, NEW vc \in Pages PROVE pte[r][vc]' = pte[r][vc]
    BY <1>9 DEF FaultDec
  <2>2. ASSUME NEW f \in Frames, NEW q \in Procs, NEW vb \in Keys, NEW b \in Tags,
               Refers(q, vb, b, f)'
        PROVE  Refers(q, vb, b, f)
    BY <1>9, <2>2 DEF FaultDec, Refers, Keys, Tags, HandlerEntry, DropEntry, CopyEntry, Handler,
        LockExact, NoOld
  <2> HIDE DEF CowInv, CowTypeOK, Frames, NoFrame, Locations, memVars, Move, MapAndReturn, Unmapped
  <2> QED BY <1>0, <2>1, <2>2, UnsharedStays
<1>10. CASE FaultFree(p)
  <2>1. PICK va \in Pages : va = page[p]
    BY <1>10 DEF FaultFree, HandlerEntry, Handler
  <2>2. PICK g \in Frames : g = fresh[p]
    BY <1>10, <2>1 DEF FaultFree, HandlerEntry
  <2>3. /\ \A r \in Procs, vc \in Pages :
             pte'[r][vc] = IF r = p /\ vc = va THEN [frame |-> g, w |-> TRUE] ELSE pte[r][vc]
        /\ \A r \in Procs, vc \in Pages : pte[r][vc].frame = g => r = p /\ vc = va
    <3>1. \A r \in Procs, vc \in Pages : pte[r][vc].frame # g
      <4>1. fresh[p] # NoFrame /\ FreshAlone
        BY <2>2
      <4> QED BY <2>2, <4>1 DEF FreshAlone
    <3>2. pte' = [pte EXCEPT ![p] = [pte[p] EXCEPT ![va] = [frame |-> g, w |-> TRUE]]]
      BY <1>10, <2>1, <2>2 DEF FaultFree
    <3> QED BY <3>1, <3>2
  <2>4. ASSUME NEW f \in Frames, NEW q \in Procs, NEW vb \in Keys, NEW b \in Tags,
               Refers(q, vb, b, f)'
        PROVE  IF f = g THEN q = p /\ vb = va /\ b = "pte" ELSE Refers(q, vb, b, f)
    <3>1. OnlyOne(p, NoPage, "fresh", g)
      BY <2>2 DEF FreshAlone
    <3> QED BY <1>10, <2>1, <2>2, <2>4, <3>1 DEF FaultFree, Refers, OnlyOne, Keys, Tags
  <2> HIDE DEF CowInv, CowTypeOK, Frames, NoFrame, Locations, memVars, Move, MapAndReturn, Unmapped
  <2> QED BY <1>0, <2>3, <2>4, UnsharedGained
<1>11. ASSUME NEW va \in Pages, CopyProtect(p, va) PROVE WritableAlone' /\ WritableIsUnshared'
  <2>1. \A r \in Procs, vc \in Pages :
          pte[r][vc].frame' = pte[r][vc].frame /\ (pte[r][vc].w' => pte[r][vc].w)
    BY <1>11 DEF CopyProtect
  <2>2. ASSUME NEW f \in Frames, NEW q \in Procs, NEW vb \in Keys, NEW b \in Tags,
               Refers(q, vb, b, f)'
        PROVE  Refers(q, vb, b, f)
    BY <1>11, <2>2 DEF CopyProtect, Refers, Keys, Tags, HandlerEntry, DropEntry, CopyEntry,
        Handler, LockExact, NoOld
  <2> HIDE DEF CowInv, CowTypeOK, Frames, NoFrame, Locations, memVars, Move, MapAndReturn, Unmapped
  <2> QED BY <1>0, <2>1, <2>2, UnsharedStays
<1>12. CASE CopyShare(p)
  <2>1. PICK q \in Procs : q = child[p]
    OBVIOUS
  <2>2. PICK va \in Pages : va = page[q]
    BY <1>12, <2>1 DEF CopyShare, CopyEntry
  <2>3. PICK g \in Frames : g = pte[p][va].frame
    BY <1>12, <2>1, <2>2 DEF CopyShare, CopyEntry
  <2>4. \A r \in Procs, vc \in Pages : pte[r][vc].frame = g => ~pte[r][vc].w
    BY <1>12, <2>1, <2>2, <2>3 DEF CopyShare, CopyEntry, WritableIsUnshared
  <2>5. \A r \in Procs, vc \in Pages :
          pte'[r][vc] = IF r = q /\ vc = va THEN [frame |-> g, w |-> FALSE] ELSE pte[r][vc]
    BY <1>12, <2>1, <2>2, <2>3 DEF CopyShare
  <2>6. ASSUME NEW f \in Frames, f # g,
               NEW r \in Procs, NEW vb \in Keys, NEW b \in Tags, Refers(r, vb, b, f)'
        PROVE  Refers(r, vb, b, f)
    BY <1>12, <2>1, <2>2, <2>3, <2>6 DEF CopyShare, Refers, Keys, Tags
  <2>7. ASSUME NEW r \in Procs, NEW vb \in Pages, pte'[r][vb].w
        PROVE  /\ pte[r][vb].w /\ pte'[r][vb] = pte[r][vb]
               /\ pte[r][vb].frame \in Frames /\ pte[r][vb].frame # g
               /\ OnlyOne(r, vb, "pte", pte[r][vb].frame)
    <3>1. ~(r = q /\ vb = va)
      BY <2>5, <2>7
    <3>2. pte'[r][vb] = pte[r][vb] /\ pte[r][vb].w
      BY <2>5, <2>7, <3>1
    <3>3. pte[r][vb].frame # g
      BY <2>4, <3>2
    <3> QED BY <3>2, <3>3 DEF WritableAlone
  <2>8. WritableAlone'
    <3> SUFFICES ASSUME NEW r \in Procs, NEW vb \in Pages, pte'[r][vb].w
                 PROVE  pte'[r][vb].frame # NoFrame /\ OnlyOne(r, vb, "pte", pte[r][vb].frame)'
      BY DEF WritableAlone
    <3>1. PICK f \in Frames : f = pte[r][vb].frame /\ f = pte'[r][vb].frame /\ f # g
      BY <2>7
    <3>2. OnlyOne(r, vb, "pte", f)
      BY <2>7, <3>1
    <3>3. OnlyOne(r, vb, "pte", f)'
      BY <2>6, <3>1, <3>2 DEF OnlyOne, Keys, Tags
    <3> QED BY <3>1, <3>3 DEF OnlyOne, Refers
  <2>9. WritableIsUnshared'
    <3> SUFFICES ASSUME NEW r \in Procs, NEW s \in Procs, NEW vb \in Pages, NEW vc \in Pages,
                        pte'[r][vb].w, pte'[s][vc].frame = pte'[r][vb].frame
                 PROVE  r = s /\ vb = vc
      BY DEF WritableIsUnshared
    <3>1. pte[r][vb].w /\ pte'[r][vb] = pte[r][vb] /\ pte[r][vb].frame # g
      BY <2>7
    <3>2. pte'[s][vc] = pte[s][vc]
      BY <2>5, <3>1
    <3> QED BY <3>1, <3>2 DEF WritableIsUnshared
  <2> QED BY <2>8, <2>9
<1>13. CASE CopyDone(p)
  <2>1. ASSUME NEW r \in Procs, NEW vc \in Pages PROVE pte[r][vc]' = pte[r][vc]
    BY <1>13 DEF CopyDone
  <2>2. ASSUME NEW f \in Frames, NEW q \in Procs, NEW vb \in Keys, NEW b \in Tags,
               Refers(q, vb, b, f)'
        PROVE  Refers(q, vb, b, f)
    BY <1>13, <2>2 DEF CopyDone, Refers, Keys, Tags, HandlerEntry, DropEntry, CopyEntry, Handler,
        LockExact, NoOld
  <2> HIDE DEF CowInv, CowTypeOK, Frames, NoFrame, Locations, memVars, Move, MapAndReturn, Unmapped
  <2> QED BY <1>0, <2>1, <2>2, UnsharedStays
<1>14. ASSUME NEW va \in Pages, DropDec(p, va) PROVE WritableAlone' /\ WritableIsUnshared'
  <2>1. ASSUME NEW r \in Procs, NEW vc \in Pages PROVE pte[r][vc]' = pte[r][vc]
    BY <1>14 DEF DropDec
  <2>2. ASSUME NEW f \in Frames, NEW q \in Procs, NEW vb \in Keys, NEW b \in Tags,
               Refers(q, vb, b, f)'
        PROVE  Refers(q, vb, b, f)
    BY <1>14, <2>2 DEF DropDec, Refers, Keys, Tags, HandlerEntry, DropEntry, CopyEntry, Handler,
        LockExact, NoOld
  <2> HIDE DEF CowInv, CowTypeOK, Frames, NoFrame, Locations, memVars, Move, MapAndReturn, Unmapped
  <2> QED BY <1>0, <2>1, <2>2, UnsharedStays
<1>15. CASE DropFree(p)
  <2>1. ASSUME NEW r \in Procs, NEW vc \in Pages PROVE pte[r][vc]' = pte[r][vc]
    BY <1>15 DEF DropFree
  <2>2. ASSUME NEW f \in Frames, NEW q \in Procs, NEW vb \in Keys, NEW b \in Tags,
               Refers(q, vb, b, f)'
        PROVE  Refers(q, vb, b, f)
    BY <1>15, <2>2 DEF DropFree, Refers, Keys, Tags, HandlerEntry, DropEntry, CopyEntry, Handler,
        LockExact, NoOld
  <2> HIDE DEF CowInv, CowTypeOK, Frames, NoFrame, Locations, memVars, Move, MapAndReturn, Unmapped
  <2> QED BY <1>0, <2>1, <2>2, UnsharedStays
<1>16. CASE ExecDone(p)
  <2>1. ASSUME NEW r \in Procs, NEW vc \in Pages PROVE pte[r][vc]' = pte[r][vc]
    BY <1>16 DEF ExecDone
  <2>2. ASSUME NEW f \in Frames, NEW q \in Procs, NEW vb \in Keys, NEW b \in Tags,
               Refers(q, vb, b, f)'
        PROVE  Refers(q, vb, b, f)
    BY <1>16, <2>2 DEF ExecDone, Refers, Keys, Tags, HandlerEntry, DropEntry, CopyEntry, Handler,
        LockExact, NoOld
  <2> HIDE DEF CowInv, CowTypeOK, Frames, NoFrame, Locations, memVars, Move, MapAndReturn, Unmapped
  <2> QED BY <1>0, <2>1, <2>2, UnsharedStays
<1> QED BY <1>1, <1>2, <1>3, <1>4, <1>5, <1>6, <1>7, <1>8,
  <1>9, <1>10, <1>11, <1>12, <1>13, <1>14, <1>15, <1>16
  DEF Works, UserStep, KernelStep

\* FreshAlone, of one process.
FreshOf(p) ==
  /\ OnlyOne(p, NoPage, "fresh", fresh[p])
  /\ \A q \in Procs, va \in Pages : pte[q][va].frame # fresh[p]
  /\ contents[fresh[p]] = contents[pte[p][page[p]].frame]

\* Every step keeps the new frame of the fault handler alone, with what the old frame has.
LEMMA FreshStep ==
  ASSUME CowInv, NEW p \in Procs, Works(p)
  PROVE  FreshAlone'
<1>0. RefsExact /\ CowTypeOK /\ CowInv /\ FreshAlone /\ WritableIsUnshared
  BY DEF CowInv, RefsExact
<1> USE CowAssumption, <1>0
<1> USE DEF CowInv, CowTypeOK, Frames, NoFrame, Locations, memVars, Move, MapAndReturn, Unmapped
<1>1. ASSUME NEW vw \in Pages, NEW v \in Values, Write(p, vw, v) PROVE FreshAlone'
  <2> SUFFICES ASSUME NEW q \in Procs, fresh'[q] # NoFrame, fresh'[q] = fresh[q]
               PROVE  FreshOf(q)'
    BY <1>1 DEF Write, FreshAlone, FreshOf
  <2>1. PICK g \in Frames : g = fresh[q]
    OBVIOUS
  <2>2. PICK va \in Pages : va = page[q]
    BY <2>1 DEF HandlerEntry, Handler
  <2>3. PICK f \in Frames : f = pte[q][va].frame
    BY <2>1, <2>2 DEF HandlerEntry
  <2>4. /\ OnlyOne(q, NoPage, "fresh", g)
        /\ \A r \in Procs, vc \in Pages : pte[r][vc].frame # g
        /\ contents[g] = contents[f]
    BY <1>0, <2>1, <2>2, <2>3 DEF FreshAlone
  <2>5. /\ \A r \in Procs, vc \in Pages : pte'[r][vc].frame # g
        /\ page'[q] = va /\ pte'[q][va].frame = f /\ fresh'[q] = g
    BY <1>1, <2>1, <2>2, <2>3, <2>4 DEF Write, HandlerEntry, CopyEntry
  <2>6. ASSUME NEW r \in Procs, NEW vb \in Keys, NEW b \in Tags, Refers(r, vb, b, g)'
        PROVE  r = q /\ vb = NoPage /\ b = "fresh"
    <3>1. Refers(r, vb, b, g)
      BY <1>1, <2>1, <2>2, <2>3, <2>4, <2>6 DEF Write, Refers, Keys, Tags, DropEntry, CopyEntry,
          NoOld
    <3> QED BY <2>4, <3>1 DEF OnlyOne, Keys, Tags
  <2>7. contents'[g] = contents[g] /\ contents'[f] = contents[f]
    <3>1. loc[q] # "user" /\ ~pte[q][va].w
      BY <2>1, <2>2 DEF HandlerEntry, Handler
    <3>2. pte[p][vw].frame # f
      BY <1>1, <2>3, <3>1 DEF Write, WritableIsUnshared
    <3> QED BY <1>1, <2>4, <3>2 DEF Write
  <2> QED BY <2>4, <2>5, <2>6, <2>7 DEF FreshOf, OnlyOne, Refers, Keys, Tags
<1>2. ASSUME NEW va \in Pages, Fault(p, va) PROVE FreshAlone'
  <2>1. \A q \in Procs : fresh'[q] = NoFrame
    BY <1>2 DEF Fault, HandlerEntry, LockExact, Handler
  <2> QED BY <2>1 DEF FreshAlone
<1>3. ASSUME NEW s \in Procs, Fork(p, s) PROVE FreshAlone'
  <2> SUFFICES ASSUME NEW q \in Procs, fresh'[q] # NoFrame, fresh'[q] = fresh[q]
               PROVE  FreshOf(q)'
    BY <1>3 DEF Fork, FreshAlone, FreshOf
  <2>1. PICK g \in Frames : g = fresh[q]
    OBVIOUS
  <2>2. PICK va \in Pages : va = page[q]
    BY <2>1 DEF HandlerEntry, Handler
  <2>3. PICK f \in Frames : f = pte[q][va].frame
    BY <2>1, <2>2 DEF HandlerEntry
  <2>4. /\ OnlyOne(q, NoPage, "fresh", g)
        /\ \A r \in Procs, vc \in Pages : pte[r][vc].frame # g
        /\ contents[g] = contents[f]
    BY <1>0, <2>1, <2>2, <2>3 DEF FreshAlone
  <2>5. /\ \A r \in Procs, vc \in Pages : pte'[r][vc].frame # g
        /\ page'[q] = va /\ pte'[q][va].frame = f /\ fresh'[q] = g
    BY <1>3, <2>1, <2>2, <2>3, <2>4 DEF Fork, HandlerEntry, CopyEntry
  <2>6. ASSUME NEW r \in Procs, NEW vb \in Keys, NEW b \in Tags, Refers(r, vb, b, g)'
        PROVE  r = q /\ vb = NoPage /\ b = "fresh"
    <3>1. Refers(r, vb, b, g)
      BY <1>3, <2>1, <2>2, <2>3, <2>4, <2>6 DEF Fork, Refers, Keys, Tags, DropEntry, CopyEntry,
          NoOld
    <3> QED BY <2>4, <3>1 DEF OnlyOne, Keys, Tags
  <2>7. contents'[g] = contents[g] /\ contents'[f] = contents[f]
    BY <1>3 DEF Fork
  <2> QED BY <2>4, <2>5, <2>6, <2>7 DEF FreshOf, OnlyOne, Refers, Keys, Tags
<1>4. CASE Exec(p)
  <2> SUFFICES ASSUME NEW q \in Procs, fresh'[q] # NoFrame, fresh'[q] = fresh[q]
               PROVE  FreshOf(q)'
    BY <1>4 DEF Exec, FreshAlone, FreshOf
  <2>1. PICK g \in Frames : g = fresh[q]
    OBVIOUS
  <2>2. PICK va \in Pages : va = page[q]
    BY <2>1 DEF HandlerEntry, Handler
  <2>3. PICK f \in Frames : f = pte[q][va].frame
    BY <2>1, <2>2 DEF HandlerEntry
  <2>4. /\ OnlyOne(q, NoPage, "fresh", g)
        /\ \A r \in Procs, vc \in Pages : pte[r][vc].frame # g
        /\ contents[g] = contents[f]
    BY <1>0, <2>1, <2>2, <2>3 DEF FreshAlone
  <2>5. /\ \A r \in Procs, vc \in Pages : pte'[r][vc].frame # g
        /\ page'[q] = va /\ pte'[q][va].frame = f /\ fresh'[q] = g
    <3>1. q # p
      BY <1>4, <2>1 DEF Exec, HandlerEntry
    <3>2. /\ \A r \in Procs, vc \in Pages : r # p => pte'[r][vc].frame = pte[r][vc].frame
          /\ \A vc \in Pages : pte'[p][vc].frame \in {pte[p][vc].frame, NoFrame}
      BY <1>4 DEF Exec
    <3>3. page' = page
      BY <1>4 DEF Exec
    <3>4. fresh' = fresh
      BY <1>4 DEF Exec
    <3>5. g # NoFrame
      OBVIOUS
    <3>6. \A r \in Procs, vc \in Pages : pte'[r][vc].frame # g
      BY ONLY <2>4, <3>2, <3>5
    <3>7. page'[q] = va /\ fresh'[q] = g
      BY <2>1, <2>2, <3>1, <3>3, <3>4
    <3>8. pte'[q][va].frame = f
      BY <2>3, <3>1, <3>2
    <3> QED BY <3>6, <3>7, <3>8
  <2>6. ASSUME NEW r \in Procs, NEW vb \in Keys, NEW b \in Tags, Refers(r, vb, b, g)'
        PROVE  r = q /\ vb = NoPage /\ b = "fresh"
    <3>1. Refers(r, vb, b, g)
      BY <1>4, <2>1, <2>2, <2>3, <2>4, <2>6 DEF Exec, Refers, Keys, Tags, DropEntry, CopyEntry,
          NoOld
    <3> QED BY <2>4, <3>1 DEF OnlyOne, Keys, Tags
  <2>7. contents'[g] = contents[g] /\ contents'[f] = contents[f]
    BY <1>4 DEF Exec
  <2> QED BY <2>4, <2>5, <2>6, <2>7 DEF FreshOf, OnlyOne, Refers, Keys, Tags
<1>5. CASE Exit(p)
  <2> SUFFICES ASSUME NEW q \in Procs, fresh'[q] # NoFrame, fresh'[q] = fresh[q]
               PROVE  FreshOf(q)'
    BY <1>5 DEF Exit, FreshAlone, FreshOf
  <2>1. PICK g \in Frames : g = fresh[q]
    OBVIOUS
  <2>2. PICK va \in Pages : va = page[q]
    BY <2>1 DEF HandlerEntry, Handler
  <2>3. PICK f \in Frames : f = pte[q][va].frame
    BY <2>1, <2>2 DEF HandlerEntry
  <2>4. /\ OnlyOne(q, NoPage, "fresh", g)
        /\ \A r \in Procs, vc \in Pages : pte[r][vc].frame # g
        /\ contents[g] = contents[f]
    BY <1>0, <2>1, <2>2, <2>3 DEF FreshAlone
  <2>5. /\ \A r \in Procs, vc \in Pages : pte'[r][vc].frame # g
        /\ page'[q] = va /\ pte'[q][va].frame = f /\ fresh'[q] = g
    BY <1>5, <2>1, <2>2, <2>3, <2>4 DEF Exit, HandlerEntry, CopyEntry
  <2>6. ASSUME NEW r \in Procs, NEW vb \in Keys, NEW b \in Tags, Refers(r, vb, b, g)'
        PROVE  r = q /\ vb = NoPage /\ b = "fresh"
    <3>1. Refers(r, vb, b, g)
      BY <1>5, <2>1, <2>2, <2>3, <2>4, <2>6 DEF Exit, Refers, Keys, Tags, DropEntry, CopyEntry,
          NoOld
    <3> QED BY <2>4, <3>1 DEF OnlyOne, Keys, Tags
  <2>7. contents'[g] = contents[g] /\ contents'[f] = contents[f]
    BY <1>5 DEF Exit
  <2> QED BY <2>4, <2>5, <2>6, <2>7 DEF FreshOf, OnlyOne, Refers, Keys, Tags
<1>6. CASE FaultZero(p)
  <2>1. \A q \in Procs : fresh'[q] = NoFrame
    BY <1>6 DEF FaultZero, HandlerEntry, LockExact, Handler
  <2> QED BY <2>1 DEF FreshAlone
<1>7. CASE FaultReuse(p)
  <2>1. \A q \in Procs : fresh'[q] = NoFrame
    BY <1>7 DEF FaultReuse, HandlerEntry, LockExact, Handler
  <2> QED BY <2>1 DEF FreshAlone
<1>8. CASE FaultCopy(p)
  <2>1. PICK va \in Pages : va = page[p]
    BY <1>8 DEF FaultCopy, HandlerEntry, Handler
  <2>2. PICK f \in Frames : f = pte[p][va].frame /\ refs[f] # 1
    BY <1>8, <2>1 DEF FaultCopy
  <2>3. PICK g \in Frames : Alloc(g, contents[f]) /\ fresh' = [fresh EXCEPT ![p] = g]
    BY <1>8, <2>1, <2>2 DEF FaultCopy
  <2>4. \A q \in Procs : q # p => fresh'[q] = NoFrame
    BY <1>8, <2>3 DEF FaultCopy, HandlerEntry, LockExact, Handler
  <2>5. refs[g] = 0 /\ contents' = [contents EXCEPT ![g] = contents[f]]
    BY <2>3 DEF Alloc
  <2>6. /\ \A r \in Procs, vc \in Pages : pte[r][vc].frame # g
        /\ \A q \in Procs, vb \in Keys, b \in Tags : ~Refers(q, vb, b, g)
    BY <1>8, <2>5, UnusedFacts DEF FaultCopy
  <2>7. OnlyOne(p, NoPage, "fresh", g)'
    BY <1>8, <2>3, <2>6 DEF FaultCopy, OnlyOne, Refers, Keys, Tags
  <2>8. /\ pte' = pte /\ page' = page /\ fresh'[p] = g
        /\ contents'[g] = contents[f] /\ contents'[f] = contents[f]
    BY <1>8, <2>3, <2>5, <2>6, <2>2 DEF FaultCopy
  <2>9. FreshOf(p)'
    BY <2>1, <2>2, <2>6, <2>7, <2>8 DEF FreshOf, OnlyOne, Refers
  <2> QED BY <2>4, <2>9 DEF FreshAlone, FreshOf
<1>9. CASE FaultDec(p)
  <2> SUFFICES ASSUME NEW q \in Procs, fresh'[q] # NoFrame, fresh'[q] = fresh[q]
               PROVE  FreshOf(q)'
    BY <1>9 DEF FaultDec, FreshAlone, FreshOf
  <2>1. PICK g \in Frames : g = fresh[q]
    OBVIOUS
  <2>2. PICK va \in Pages : va = page[q]
    BY <2>1 DEF HandlerEntry, Handler
  <2>3. PICK f \in Frames : f = pte[q][va].frame
    BY <2>1, <2>2 DEF HandlerEntry
  <2>4. /\ OnlyOne(q, NoPage, "fresh", g)
        /\ \A r \in Procs, vc \in Pages : pte[r][vc].frame # g
        /\ contents[g] = contents[f]
    BY <1>0, <2>1, <2>2, <2>3 DEF FreshAlone
  <2>5. /\ \A r \in Procs, vc \in Pages : pte'[r][vc].frame # g
        /\ page'[q] = va /\ pte'[q][va].frame = f /\ fresh'[q] = g
    BY <1>9, <2>1, <2>2, <2>3, <2>4 DEF FaultDec, HandlerEntry, CopyEntry
  <2>6. ASSUME NEW r \in Procs, NEW vb \in Keys, NEW b \in Tags, Refers(r, vb, b, g)'
        PROVE  r = q /\ vb = NoPage /\ b = "fresh"
    <3>1. Refers(r, vb, b, g)
      BY <1>9, <2>1, <2>2, <2>3, <2>4, <2>6 DEF FaultDec, Refers, Keys, Tags, DropEntry,
          CopyEntry, NoOld
    <3> QED BY <2>4, <3>1 DEF OnlyOne, Keys, Tags
  <2>7. contents'[g] = contents[g] /\ contents'[f] = contents[f]
    BY <1>9 DEF FaultDec
  <2> QED BY <2>4, <2>5, <2>6, <2>7 DEF FreshOf, OnlyOne, Refers, Keys, Tags
<1>10. CASE FaultFree(p)
  <2>1. \A q \in Procs : fresh'[q] = NoFrame
    BY <1>10 DEF FaultFree, HandlerEntry, LockExact, Handler
  <2> QED BY <2>1 DEF FreshAlone
<1>11. ASSUME NEW vw \in Pages, CopyProtect(p, vw) PROVE FreshAlone'
  <2> SUFFICES ASSUME NEW q \in Procs, fresh'[q] # NoFrame, fresh'[q] = fresh[q]
               PROVE  FreshOf(q)'
    BY <1>11 DEF CopyProtect, FreshAlone, FreshOf
  <2>1. PICK g \in Frames : g = fresh[q]
    OBVIOUS
  <2>2. PICK va \in Pages : va = page[q]
    BY <2>1 DEF HandlerEntry, Handler
  <2>3. PICK f \in Frames : f = pte[q][va].frame
    BY <2>1, <2>2 DEF HandlerEntry
  <2>4. /\ OnlyOne(q, NoPage, "fresh", g)
        /\ \A r \in Procs, vc \in Pages : pte[r][vc].frame # g
        /\ contents[g] = contents[f]
    BY <1>0, <2>1, <2>2, <2>3 DEF FreshAlone
  <2>5. /\ \A r \in Procs, vc \in Pages : pte'[r][vc].frame # g
        /\ page'[q] = va /\ pte'[q][va].frame = f /\ fresh'[q] = g
    <3>1. q # p /\ q # child[p]
      BY <1>11, <2>1 DEF CopyProtect, HandlerEntry
    <3>2. /\ \A r \in Procs, vc \in Pages : r # p => pte'[r][vc].frame = pte[r][vc].frame
          /\ \A vc \in Pages : pte'[p][vc].frame \in {pte[p][vc].frame, NoFrame}
      BY <1>11 DEF CopyProtect
    <3>3. \A r \in Procs : r # child[p] => page'[r] = page[r]
      BY <1>11 DEF CopyProtect
    <3>4. fresh' = fresh
      BY <1>11 DEF CopyProtect
    <3>5. g # NoFrame
      OBVIOUS
    <3>6. \A r \in Procs, vc \in Pages : pte'[r][vc].frame # g
      BY ONLY <2>4, <3>2, <3>5
    <3>7. page'[q] = va /\ fresh'[q] = g
      BY <2>1, <2>2, <3>1, <3>3, <3>4
    <3>8. pte'[q][va].frame = f
      BY <2>3, <3>1, <3>2
    <3> QED BY <3>6, <3>7, <3>8
  <2>6. ASSUME NEW r \in Procs, NEW vb \in Keys, NEW b \in Tags, Refers(r, vb, b, g)'
        PROVE  r = q /\ vb = NoPage /\ b = "fresh"
    <3>1. Refers(r, vb, b, g)
      BY <1>11, <2>1, <2>2, <2>3, <2>4, <2>6 DEF CopyProtect, Refers, Keys, Tags, DropEntry,
          CopyEntry, NoOld
    <3> QED BY <2>4, <3>1 DEF OnlyOne, Keys, Tags
  <2>7. contents'[g] = contents[g] /\ contents'[f] = contents[f]
    BY <1>11 DEF CopyProtect
  <2> QED BY <2>4, <2>5, <2>6, <2>7 DEF FreshOf, OnlyOne, Refers, Keys, Tags
<1>12. CASE CopyShare(p)
  <2> SUFFICES ASSUME NEW q \in Procs, fresh'[q] # NoFrame, fresh'[q] = fresh[q]
               PROVE  FreshOf(q)'
    BY <1>12 DEF CopyShare, FreshAlone, FreshOf
  <2>1. PICK g \in Frames : g = fresh[q]
    OBVIOUS
  <2>2. PICK va \in Pages : va = page[q]
    BY <2>1 DEF HandlerEntry, Handler
  <2>3. PICK f \in Frames : f = pte[q][va].frame
    BY <2>1, <2>2 DEF HandlerEntry
  <2>4. /\ OnlyOne(q, NoPage, "fresh", g)
        /\ \A r \in Procs, vc \in Pages : pte[r][vc].frame # g
        /\ contents[g] = contents[f]
    BY <1>0, <2>1, <2>2, <2>3 DEF FreshAlone
  <2>5. /\ \A r \in Procs, vc \in Pages : pte'[r][vc].frame # g
        /\ page'[q] = va /\ pte'[q][va].frame = f /\ fresh'[q] = g
    BY <1>12, <2>1, <2>2, <2>3, <2>4 DEF CopyShare, HandlerEntry, CopyEntry
  <2>6. ASSUME NEW r \in Procs, NEW vb \in Keys, NEW b \in Tags, Refers(r, vb, b, g)'
        PROVE  r = q /\ vb = NoPage /\ b = "fresh"
    <3>1. Refers(r, vb, b, g)
      BY <1>12, <2>1, <2>2, <2>3, <2>4, <2>6 DEF CopyShare, Refers, Keys, Tags, DropEntry,
          CopyEntry, NoOld
    <3> QED BY <2>4, <3>1 DEF OnlyOne, Keys, Tags
  <2>7. contents'[g] = contents[g] /\ contents'[f] = contents[f]
    BY <1>12 DEF CopyShare
  <2> QED BY <2>4, <2>5, <2>6, <2>7 DEF FreshOf, OnlyOne, Refers, Keys, Tags
<1>13. CASE CopyDone(p)
  <2> SUFFICES ASSUME NEW q \in Procs, fresh'[q] # NoFrame, fresh'[q] = fresh[q]
               PROVE  FreshOf(q)'
    BY <1>13 DEF CopyDone, FreshAlone, FreshOf
  <2>1. PICK g \in Frames : g = fresh[q]
    OBVIOUS
  <2>2. PICK va \in Pages : va = page[q]
    BY <2>1 DEF HandlerEntry, Handler
  <2>3. PICK f \in Frames : f = pte[q][va].frame
    BY <2>1, <2>2 DEF HandlerEntry
  <2>4. /\ OnlyOne(q, NoPage, "fresh", g)
        /\ \A r \in Procs, vc \in Pages : pte[r][vc].frame # g
        /\ contents[g] = contents[f]
    BY <1>0, <2>1, <2>2, <2>3 DEF FreshAlone
  <2>5. /\ \A r \in Procs, vc \in Pages : pte'[r][vc].frame # g
        /\ page'[q] = va /\ pte'[q][va].frame = f /\ fresh'[q] = g
    BY <1>13, <2>1, <2>2, <2>3, <2>4 DEF CopyDone, HandlerEntry, CopyEntry
  <2>6. ASSUME NEW r \in Procs, NEW vb \in Keys, NEW b \in Tags, Refers(r, vb, b, g)'
        PROVE  r = q /\ vb = NoPage /\ b = "fresh"
    <3>1. Refers(r, vb, b, g)
      BY <1>13, <2>1, <2>2, <2>3, <2>4, <2>6 DEF CopyDone, Refers, Keys, Tags, DropEntry,
          CopyEntry, NoOld
    <3> QED BY <2>4, <3>1 DEF OnlyOne, Keys, Tags
  <2>7. contents'[g] = contents[g] /\ contents'[f] = contents[f]
    BY <1>13 DEF CopyDone
  <2> QED BY <2>4, <2>5, <2>6, <2>7 DEF FreshOf, OnlyOne, Refers, Keys, Tags
<1>14. ASSUME NEW vw \in Pages, DropDec(p, vw) PROVE FreshAlone'
  <2> SUFFICES ASSUME NEW q \in Procs, fresh'[q] # NoFrame, fresh'[q] = fresh[q]
               PROVE  FreshOf(q)'
    BY <1>14 DEF DropDec, FreshAlone, FreshOf
  <2>1. PICK g \in Frames : g = fresh[q]
    OBVIOUS
  <2>2. PICK va \in Pages : va = page[q]
    BY <2>1 DEF HandlerEntry, Handler
  <2>3. PICK f \in Frames : f = pte[q][va].frame
    BY <2>1, <2>2 DEF HandlerEntry
  <2>4. /\ OnlyOne(q, NoPage, "fresh", g)
        /\ \A r \in Procs, vc \in Pages : pte[r][vc].frame # g
        /\ contents[g] = contents[f]
    BY <1>0, <2>1, <2>2, <2>3 DEF FreshAlone
  <2>5. /\ \A r \in Procs, vc \in Pages : pte'[r][vc].frame # g
        /\ page'[q] = va /\ pte'[q][va].frame = f /\ fresh'[q] = g
    <3>1. q # p
      BY <1>14, <2>1 DEF DropDec, HandlerEntry
    <3>2. /\ \A r \in Procs, vc \in Pages : r # p => pte'[r][vc].frame = pte[r][vc].frame
          /\ \A vc \in Pages : pte'[p][vc].frame \in {pte[p][vc].frame, NoFrame}
      BY <1>14 DEF DropDec
    <3>3. \A r \in Procs : r # p => page'[r] = page[r]
      BY <1>14 DEF DropDec
    <3>4. fresh' = fresh
      BY <1>14 DEF DropDec
    <3>5. g # NoFrame
      OBVIOUS
    <3>6. \A r \in Procs, vc \in Pages : pte'[r][vc].frame # g
      BY ONLY <2>4, <3>2, <3>5
    <3>7. page'[q] = va /\ fresh'[q] = g
      BY <2>1, <2>2, <3>1, <3>3, <3>4
    <3>8. pte'[q][va].frame = f
      BY <2>3, <3>1, <3>2
    <3> QED BY <3>6, <3>7, <3>8
  <2>6. ASSUME NEW r \in Procs, NEW vb \in Keys, NEW b \in Tags, Refers(r, vb, b, g)'
        PROVE  r = q /\ vb = NoPage /\ b = "fresh"
    <3>1. Refers(r, vb, b, g)
      BY <1>14, <2>1, <2>2, <2>3, <2>4, <2>6 DEF DropDec, Refers, Keys, Tags, DropEntry,
          CopyEntry, NoOld
    <3> QED BY <2>4, <3>1 DEF OnlyOne, Keys, Tags
  <2>7. contents'[g] = contents[g] /\ contents'[f] = contents[f]
    BY <1>14 DEF DropDec
  <2> QED BY <2>4, <2>5, <2>6, <2>7 DEF FreshOf, OnlyOne, Refers, Keys, Tags
<1>15. CASE DropFree(p)
  <2> SUFFICES ASSUME NEW q \in Procs, fresh'[q] # NoFrame, fresh'[q] = fresh[q]
               PROVE  FreshOf(q)'
    BY <1>15 DEF DropFree, FreshAlone, FreshOf
  <2>1. PICK g \in Frames : g = fresh[q]
    OBVIOUS
  <2>2. PICK va \in Pages : va = page[q]
    BY <2>1 DEF HandlerEntry, Handler
  <2>3. PICK f \in Frames : f = pte[q][va].frame
    BY <2>1, <2>2 DEF HandlerEntry
  <2>4. /\ OnlyOne(q, NoPage, "fresh", g)
        /\ \A r \in Procs, vc \in Pages : pte[r][vc].frame # g
        /\ contents[g] = contents[f]
    BY <1>0, <2>1, <2>2, <2>3 DEF FreshAlone
  <2>5. /\ \A r \in Procs, vc \in Pages : pte'[r][vc].frame # g
        /\ page'[q] = va /\ pte'[q][va].frame = f /\ fresh'[q] = g
    <3>1. q # p
      BY <1>15, <2>1 DEF DropFree, HandlerEntry
    <3>2. /\ \A r \in Procs, vc \in Pages : r # p => pte'[r][vc].frame = pte[r][vc].frame
          /\ \A vc \in Pages : pte'[p][vc].frame \in {pte[p][vc].frame, NoFrame}
      BY <1>15 DEF DropFree
    <3>3. \A r \in Procs : r # p => page'[r] = page[r]
      BY <1>15 DEF DropFree
    <3>4. fresh' = fresh
      BY <1>15 DEF DropFree
    <3>5. g # NoFrame
      OBVIOUS
    <3>6. \A r \in Procs, vc \in Pages : pte'[r][vc].frame # g
      BY ONLY <2>4, <3>2, <3>5
    <3>7. page'[q] = va /\ fresh'[q] = g
      BY <2>1, <2>2, <3>1, <3>3, <3>4
    <3>8. pte'[q][va].frame = f
      BY <2>3, <3>1, <3>2
    <3> QED BY <3>6, <3>7, <3>8
  <2>6. ASSUME NEW r \in Procs, NEW vb \in Keys, NEW b \in Tags, Refers(r, vb, b, g)'
        PROVE  r = q /\ vb = NoPage /\ b = "fresh"
    <3>1. Refers(r, vb, b, g)
      BY <1>15, <2>1, <2>2, <2>3, <2>4, <2>6 DEF DropFree, Refers, Keys, Tags, DropEntry,
          CopyEntry, NoOld
    <3> QED BY <2>4, <3>1 DEF OnlyOne, Keys, Tags
  <2>7. contents'[g] = contents[g] /\ contents'[f] = contents[f]
    BY <1>15 DEF DropFree
  <2> QED BY <2>4, <2>5, <2>6, <2>7 DEF FreshOf, OnlyOne, Refers, Keys, Tags
<1>16. CASE ExecDone(p)
  <2> SUFFICES ASSUME NEW q \in Procs, fresh'[q] # NoFrame, fresh'[q] = fresh[q]
               PROVE  FreshOf(q)'
    BY <1>16 DEF ExecDone, FreshAlone, FreshOf
  <2>1. PICK g \in Frames : g = fresh[q]
    OBVIOUS
  <2>2. PICK va \in Pages : va = page[q]
    BY <2>1 DEF HandlerEntry, Handler
  <2>3. PICK f \in Frames : f = pte[q][va].frame
    BY <2>1, <2>2 DEF HandlerEntry
  <2>4. /\ OnlyOne(q, NoPage, "fresh", g)
        /\ \A r \in Procs, vc \in Pages : pte[r][vc].frame # g
        /\ contents[g] = contents[f]
    BY <1>0, <2>1, <2>2, <2>3 DEF FreshAlone
  <2>5. /\ \A r \in Procs, vc \in Pages : pte'[r][vc].frame # g
        /\ page'[q] = va /\ pte'[q][va].frame = f /\ fresh'[q] = g
    BY <1>16, <2>1, <2>2, <2>3, <2>4 DEF ExecDone, HandlerEntry, CopyEntry
  <2>6. ASSUME NEW r \in Procs, NEW vb \in Keys, NEW b \in Tags, Refers(r, vb, b, g)'
        PROVE  r = q /\ vb = NoPage /\ b = "fresh"
    <3>1. Refers(r, vb, b, g)
      BY <1>16, <2>1, <2>2, <2>3, <2>4, <2>6 DEF ExecDone, Refers, Keys, Tags, DropEntry,
          CopyEntry, NoOld
    <3> QED BY <2>4, <3>1 DEF OnlyOne, Keys, Tags
  <2>7. contents'[g] = contents[g] /\ contents'[f] = contents[f]
    BY <1>16 DEF ExecDone
  <2> QED BY <2>4, <2>5, <2>6, <2>7 DEF FreshOf, OnlyOne, Refers, Keys, Tags
<1> QED BY <1>1, <1>2, <1>3, <1>4, <1>5, <1>6, <1>7, <1>8,
  <1>9, <1>10, <1>11, <1>12, <1>13, <1>14, <1>15, <1>16
  DEF Works, UserStep, KernelStep

\* The invariant holds when the kernel starts, and every step keeps it.
LEMMA CowInitInv ==
  ASSUME Init
  PROVE  CowInv
<1> USE CowAssumption DEF Init
<1>1. CowTypeOK
  <2>1. freeList \in Seq(Frames)
    BY EmptyFacts
  <2> QED BY <2>1 DEF CowTypeOK, Frames, NoFrame, Locations, Unmapped, NoOld
<1>2. ASSUME NEW f \in Frames PROVE refs[f] = Cardinality(References(f))
  <2>1. References(f) = {}
    BY DEF References, Tokens, Refers, Unmapped, NoOld, Frames, NoFrame
  <2> QED BY <2>1, FS_EmptySet
<1>3. RefsExact
  BY <1>1, <1>2 DEF RefsExact
<1>4. WritableIsUnshared /\ WritableAlone /\ FreshAlone
  BY DEF WritableIsUnshared, WritableAlone, FreshAlone, Unmapped
<1>5. LockExact /\ HandlerEntry /\ DropEntry /\ CopyEntry
  BY DEF LockExact, HandlerEntry, DropEntry, CopyEntry, Handler
<1> QED BY <1>3, <1>4, <1>5 DEF CowInv

\* Every step of every process keeps it.
LEMMA CowStep ==
  ASSUME CowInv, [Next]_vars
  PROVE  CowInv'
<1>1. ASSUME NEW p \in Procs, Works(p) PROVE CowInv'
  <2>1. RefsExact'
    BY <1>1, TypeStep, CountStep DEF RefsExact
  <2> QED BY <1>1, <2>1, HandlerStep, DropStep, CopyStep, WritableStep, FreshStep DEF CowInv
<1>2. CASE UNCHANGED vars
  <2>1. CowTypeOK'
    BY <1>2 DEF vars, CowInv, RefsExact, CowTypeOK
  <2>2. ASSUME NEW f, NEW q \in Procs, NEW vb \in Keys, NEW b \in Tags
        PROVE  Refers(q, vb, b, f)' <=> Refers(q, vb, b, f)
    BY <1>2 DEF vars, Refers
  <2>3. RefsExact'
    <3>1. \A f \in Frames : refs'[f] = Cardinality(References(f))'
      BY <1>2, <2>2, CountSame DEF vars, CowInv
    <3> QED BY <2>1, <3>1 DEF RefsExact
  <2>4. WritableIsUnshared' /\ WritableAlone' /\ FreshAlone'
    BY <1>2 DEF vars, CowInv, WritableIsUnshared, WritableAlone, FreshAlone, OnlyOne, Refers
  <2>5. LockExact' /\ HandlerEntry' /\ DropEntry' /\ CopyEntry'
    BY <1>2 DEF vars, CowInv, LockExact, HandlerEntry, DropEntry, CopyEntry, Handler
  <2> QED BY <2>3, <2>4, <2>5 DEF CowInv
<1> QED BY <1>1, <1>2 DEF Next, Works

-----------------------------------------------------------------------------
(* The theorems *)

\* In every reachable state, whatever the number of processes, pages and frames.
THEOREM CowInvariant == Spec => []CowInv
<1>1. Init => CowInv
  BY CowInitInv
<1>2. CowInv /\ [Next]_vars => CowInv'
  BY CowStep
<1> QED BY <1>1, <1>2, PTL DEF Spec

\* The counts of the frame allocator are the number of references, also where two
\* processes are between the two accesses of dec.
THEOREM CountsAreExact == Spec => []RefsExact
<1>1. CowInv => RefsExact
  BY DEF CowInv
<1> QED BY <1>1, CowInvariant, PTL

\* A page that a process may write without a fault is in no other memory.
THEOREM WritableStaysUnshared == Spec => []WritableIsUnshared
<1>1. CowInv => WritableIsUnshared
  BY DEF CowInv
<1> QED BY <1>1, CowInvariant, PTL

-----------------------------------------------------------------------------
(* The free list *)

\* A step that leaves the allocator and the frames about to be freed alone.
LEMMA FreeStays ==
  ASSUME FreesOnce, FreeListExact, UNCHANGED <<refs, freeList, avail>>,
         \A q \in Procs : loc'[q] \in {"f_read", "x_read"} <=> loc[q] \in {"f_read", "x_read"},
         \A q \in Procs, f \in Frames : AboutToFree(q, f)' <=> AboutToFree(q, f),
         avail \in 1 .. Limit + 1
  PROVE  FreesOnce' /\ FreeListExact'
<1>1. FreesOnce'
  BY DEF FreesOnce
<1>2. 1 .. avail - 1 \subseteq Frames
  BY CowAssumption DEF Frames
<1>3. FreeListExact'
  BY <1>2 DEF FreeListExact
<1> QED BY <1>1, <1>3

\* alloc takes a free frame.
LEMMA FreeAlloc ==
  ASSUME CowTypeOK, FreesOnce, FreeListExact, NEW g \in Frames, NEW v, Alloc(g, v),
         \A q \in Procs : loc'[q] \in {"f_read", "x_read"} <=> loc[q] \in {"f_read", "x_read"},
         \A q \in Procs, f \in Frames : AboutToFree(q, f)' <=> AboutToFree(q, f)
  PROVE  FreesOnce' /\ FreeListExact'
<1>0. /\ freeList \in Seq(Frames) /\ avail \in 1 .. Limit + 1 /\ Limit \in Nat
      /\ \A f \in Frames : refs'[f] = IF f = g THEN 1 ELSE refs[f]
  BY CowAssumption DEF Alloc, CowTypeOK
<1>1. CASE freeList # << >>
  <2>1. /\ g = Head(freeList) /\ freeList' = Tail(freeList) /\ avail' = avail
    BY <1>1 DEF Alloc
  <2>2. /\ ToSet(freeList) = ToSet(freeList') \cup {g} /\ g \notin ToSet(freeList')
        /\ IsInjective(freeList')
    BY <1>0, <1>1, <2>1, RemoveFacts DEF FreeListExact
  <2>3. FreesOnce'
    BY <2>1, <2>2 DEF FreesOnce
  <2>4. ASSUME NEW f \in ToSet(freeList') \cup avail' .. Limit PROVE refs'[f] = 0
    <3>1. f # g /\ f \in Frames
      BY <1>0, <2>1, <2>2 DEF FreesOnce, Frames
    <3> QED BY <1>0, <2>1, <2>2, <3>1 DEF FreeListExact
  <2>5. ASSUME NEW f \in 1 .. avail' - 1, refs'[f] = 0
        PROVE  f \in ToSet(freeList') \/ \E p \in Procs : AboutToFree(p, f)'
    <3>1. f \in Frames /\ f # g
      BY <1>0, <2>1, <2>5 DEF Frames
    <3> QED BY <1>0, <2>1, <2>2, <2>5, <3>1 DEF FreeListExact
  <2> QED BY <2>2, <2>3, <2>4, <2>5 DEF FreeListExact
<1>2. CASE freeList = << >>
  <2>1. g = avail /\ freeList' = freeList /\ avail' = avail + 1 /\ avail <= Limit
    BY <1>2 DEF Alloc
  <2>2. ToSet(freeList) = {}
    BY <1>2, EmptyFacts
  <2>3. FreesOnce'
    BY <1>0, <2>1, <2>2 DEF FreesOnce
  <2>4. ASSUME NEW f \in ToSet(freeList') \cup avail' .. Limit PROVE refs'[f] = 0
    <3>1. f # g /\ f \in Frames /\ f \in avail .. Limit
      BY <1>0, <2>1, <2>2 DEF Frames
    <3> QED BY <1>0, <3>1 DEF FreeListExact
  <2>5. ASSUME NEW f \in 1 .. avail' - 1, refs'[f] = 0
        PROVE  f \in ToSet(freeList') \/ \E p \in Procs : AboutToFree(p, f)'
    <3>1. f \in Frames /\ f # g /\ f \in 1 .. avail - 1
      BY <1>0, <2>1, <2>5 DEF Frames
    <3> QED BY <1>0, <2>1, <2>2, <2>5, <3>1 DEF FreeListExact
  <2>6. IsInjective(freeList')
    BY <2>1 DEF FreeListExact
  <2> QED BY <2>3, <2>4, <2>5, <2>6 DEF FreeListExact
<1> QED BY <1>1, <1>2

\* The first access of dec: the frame had a reference, so it is not free.
LEMMA FreeDec ==
  ASSUME CowTypeOK, FreesOnce, FreeListExact, UNCHANGED <<freeList, avail>>,
         NEW p \in Procs, NEW g \in Frames, refs[g] > 0,
         \A f \in Frames : refs'[f] = IF f = g THEN refs[f] - 1 ELSE refs[f],
         \A q \in Procs : loc[q] \notin {"f_read", "x_read"},
         \A q \in Procs : loc'[q] \in {"f_read", "x_read"} <=> q = p,
         \A f \in Frames : AboutToFree(p, f)' <=> f = g
  PROVE  FreesOnce' /\ FreeListExact'
<1>1. /\ avail \in 1 .. Limit + 1 /\ Limit \in Nat /\ g \notin ToSet(freeList) \cup avail .. Limit
      /\ ToSet(freeList) \subseteq Frames
  BY CowAssumption, ElementsFacts DEF CowTypeOK, FreeListExact
<1>2. \A q \in Procs, f \in Frames : AboutToFree(q, f)' <=> q = p /\ f = g
  BY DEF AboutToFree
<1>3. FreesOnce'
  BY <1>1, <1>2 DEF FreesOnce
<1>4. \A q \in Procs, f \in Frames : ~AboutToFree(q, f)
  BY DEF AboutToFree
<1>5. ASSUME NEW f \in ToSet(freeList') \cup avail' .. Limit PROVE refs'[f] = 0
  <2>1. f # g /\ f \in Frames
    BY <1>1 DEF Frames
  <2> QED BY <1>1, <2>1 DEF FreeListExact
<1>6. ASSUME NEW f \in 1 .. avail' - 1, refs'[f] = 0
      PROVE  f \in ToSet(freeList') \/ \E q \in Procs : AboutToFree(q, f)'
  <2>1. f \in Frames
    BY <1>1 DEF Frames
  <2> QED BY <1>1, <1>2, <1>4, <1>6, <2>1 DEF FreeListExact
<1> QED BY <1>3, <1>5, <1>6 DEF FreeListExact

\* The second access: the frame is put on the list if the count is zero.
LEMMA FreeRead ==
  ASSUME CowTypeOK, FreesOnce, FreeListExact, UNCHANGED <<refs, avail>>,
         NEW p \in Procs, NEW g \in Frames, AboutToFree(p, g), FreeIfZero(g),
         \A f \in Frames : AboutToFree(p, f) => f = g,
         \A q \in Procs : loc'[q] \in {"f_read", "x_read"} <=>
                            loc[q] \in {"f_read", "x_read"} /\ q # p
  PROVE  FreesOnce' /\ FreeListExact'
<1>1. /\ avail \in 1 .. Limit + 1 /\ Limit \in Nat /\ freeList \in Seq(Frames)
      /\ g \notin ToSet(freeList) \cup avail .. Limit
      /\ loc[p] \in {"f_read", "x_read"}
  BY CowAssumption DEF CowTypeOK, FreesOnce, AboutToFree
<1>2. \A q \in Procs : loc'[q] \notin {"f_read", "x_read"}
  BY <1>1 DEF FreesOnce
<1>3. \A q \in Procs, f \in Frames : ~AboutToFree(q, f)' /\ (AboutToFree(q, f) <=> q = p /\ f = g)
  BY <1>1, <1>2 DEF AboutToFree, FreesOnce
<1>4. /\ ToSet(freeList') = IF refs[g] = 0 THEN ToSet(freeList) \cup {g} ELSE ToSet(freeList)
      /\ IsInjective(freeList')
  BY <1>1, PushFacts DEF FreeIfZero, FreeListExact
<1>5. g \in 1 .. avail - 1
  BY <1>1 DEF Frames
<1>6. FreesOnce'
  BY <1>1, <1>2, <1>3, <1>4, <1>5 DEF FreesOnce
<1>7. \A f \in ToSet(freeList') \cup avail' .. Limit : refs'[f] = 0
  BY <1>4 DEF FreeListExact
<1>8. ASSUME NEW f \in 1 .. avail' - 1, refs'[f] = 0
      PROVE  f \in ToSet(freeList')
  <2>1. f \in Frames
    BY <1>1 DEF Frames
  <2> QED BY <1>3, <1>4, <1>8, <2>1 DEF FreeListExact
<1> QED BY <1>4, <1>6, <1>7, <1>8 DEF FreeListExact

\* Where dec is not entered while another process is between its accesses, there is
\* none when it is.
LEMMA DecAlone ==
  ASSUME MaxInDec <= 1, NEW f \in Frames, Dec(f)
  PROVE  \A q \in Procs : loc[q] \notin {"f_read", "x_read"}
<1> DEFINE S == {q \in Procs : loc[q] \in {"f_read", "x_read"}}
<1>1. IsFiniteSet(S) /\ Cardinality(S) \in Nat
  BY CowAssumption, FS_Subset, FS_CardinalityType
<1>2. Cardinality(S) = 0
  BY <1>1, CowAssumption DEF Dec
<1>3. S = {}
  BY <1>1, <1>2, FS_EmptySet
<1> QED BY <1>3

\* fork counts a reference to a frame that has one.
LEMMA FreeMore ==
  ASSUME CowTypeOK, FreesOnce, FreeListExact, freeList' = freeList, avail' = avail,
         NEW g \in Frames, refs[g] > 0,
         \A f \in Frames : refs'[f] = IF f = g THEN refs[f] + 1 ELSE refs[f],
         \A q \in Procs : loc'[q] \in {"f_read", "x_read"} <=> loc[q] \in {"f_read", "x_read"},
         \A q \in Procs, f \in Frames : AboutToFree(q, f)' <=> AboutToFree(q, f)
  PROVE  FreesOnce' /\ FreeListExact'
<1>1. /\ avail \in 1 .. Limit + 1 /\ Limit \in Nat /\ g \notin ToSet(freeList) \cup avail .. Limit
      /\ ToSet(freeList) \subseteq Frames
  BY CowAssumption, ElementsFacts DEF CowTypeOK, FreeListExact
<1>2. \A f \in Frames : refs'[f] = (IF f = g THEN refs[f] + 1 ELSE refs[f]) /\ refs[f] \in Nat
  BY DEF CowTypeOK
<1>3. 1 .. avail - 1 \subseteq Frames /\ avail .. Limit \subseteq Frames
  BY <1>1 DEF Frames
<1>4. FreesOnce'
  BY DEF FreesOnce
<1>5. \A f \in ToSet(freeList') \cup avail' .. Limit : refs'[f] = 0
  BY <1>1, <1>2, <1>3 DEF FreeListExact
<1>6. ASSUME NEW f \in 1 .. avail' - 1, refs'[f] = 0
      PROVE  f \in ToSet(freeList') \/ \E q \in Procs : AboutToFree(q, f)'
  BY <1>2, <1>3, <1>6 DEF FreeListExact
<1> QED BY <1>4, <1>5, <1>6 DEF FreeListExact

\* Where only one process at a time is between dec's accesses, the list stays exact.
LEMMA FreeStep ==
  ASSUME CowInv, FreesOnce, FreeListExact, MaxInDec <= 1, NEW p \in Procs, Works(p)
  PROVE  FreesOnce' /\ FreeListExact'
<1>0. RefsExact /\ CowTypeOK /\ CowInv /\ FreesOnce /\ FreeListExact /\ avail \in 1 .. Limit + 1
  BY DEF CowInv, RefsExact, CowTypeOK
<1> USE CowAssumption, <1>0
<1> USE DEF CowInv, CowTypeOK, Frames, NoFrame, Locations, memVars, Move, MapAndReturn, Unmapped
<1>1. ASSUME NEW va \in Pages, NEW v \in Values, Write(p, va, v) PROVE FreesOnce' /\ FreeListExact'
  <2>1. UNCHANGED <<refs, freeList, avail>>
    BY <1>1 DEF Write
  <2>2. ASSUME NEW r \in Procs
        PROVE  /\ loc'[r] \in {"f_read", "x_read"} <=> loc[r] \in {"f_read", "x_read"}
               /\ \A f \in Frames : AboutToFree(r, f)' <=> AboutToFree(r, f)
    BY <1>1 DEF Write, AboutToFree, HandlerEntry, LockExact, DropEntry, CopyEntry, Handler
  <2> HIDE DEF CowInv, CowTypeOK, Frames, NoFrame, Locations, memVars, Move, MapAndReturn, Unmapped
  <2> QED BY <1>0, <2>1, <2>2, FreeStays
<1>2. ASSUME NEW va \in Pages, Fault(p, va) PROVE FreesOnce' /\ FreeListExact'
  <2>1. UNCHANGED <<refs, freeList, avail>>
    BY <1>2 DEF Fault
  <2>2. ASSUME NEW r \in Procs
        PROVE  /\ loc'[r] \in {"f_read", "x_read"} <=> loc[r] \in {"f_read", "x_read"}
               /\ \A f \in Frames : AboutToFree(r, f)' <=> AboutToFree(r, f)
    BY <1>2 DEF Fault, AboutToFree, HandlerEntry, LockExact, DropEntry, CopyEntry, Handler
  <2> HIDE DEF CowInv, CowTypeOK, Frames, NoFrame, Locations, memVars, Move, MapAndReturn, Unmapped
  <2> QED BY <1>0, <2>1, <2>2, FreeStays
<1>3. ASSUME NEW q \in Procs, Fork(p, q) PROVE FreesOnce' /\ FreeListExact'
  <2>1. UNCHANGED <<refs, freeList, avail>>
    BY <1>3 DEF Fork
  <2>2. ASSUME NEW r \in Procs
        PROVE  /\ loc'[r] \in {"f_read", "x_read"} <=> loc[r] \in {"f_read", "x_read"}
               /\ \A f \in Frames : AboutToFree(r, f)' <=> AboutToFree(r, f)
    BY <1>3 DEF Fork, AboutToFree, HandlerEntry, LockExact, DropEntry, CopyEntry, Handler
  <2> HIDE DEF CowInv, CowTypeOK, Frames, NoFrame, Locations, memVars, Move, MapAndReturn, Unmapped
  <2> QED BY <1>0, <2>1, <2>2, FreeStays
<1>4. CASE Exec(p)
  <2>1. UNCHANGED <<refs, freeList, avail>>
    BY <1>4 DEF Exec
  <2>2. ASSUME NEW r \in Procs
        PROVE  /\ loc'[r] \in {"f_read", "x_read"} <=> loc[r] \in {"f_read", "x_read"}
               /\ \A f \in Frames : AboutToFree(r, f)' <=> AboutToFree(r, f)
    BY <1>4 DEF Exec, AboutToFree, HandlerEntry, LockExact, DropEntry, CopyEntry, Handler
  <2> HIDE DEF CowInv, CowTypeOK, Frames, NoFrame, Locations, memVars, Move, MapAndReturn, Unmapped
  <2> QED BY <1>0, <2>1, <2>2, FreeStays
<1>5. CASE Exit(p)
  <2>1. UNCHANGED <<refs, freeList, avail>>
    BY <1>5 DEF Exit
  <2>2. ASSUME NEW r \in Procs
        PROVE  /\ loc'[r] \in {"f_read", "x_read"} <=> loc[r] \in {"f_read", "x_read"}
               /\ \A f \in Frames : AboutToFree(r, f)' <=> AboutToFree(r, f)
    BY <1>5 DEF Exit, AboutToFree, HandlerEntry, LockExact, DropEntry, CopyEntry, Handler
  <2> HIDE DEF CowInv, CowTypeOK, Frames, NoFrame, Locations, memVars, Move, MapAndReturn, Unmapped
  <2> QED BY <1>0, <2>1, <2>2, FreeStays
<1>6. CASE FaultZero(p)
  <2>1. PICK g \in Frames : Alloc(g, Zero) /\ MapAndReturn(p, g)
    BY <1>6 DEF FaultZero
  <2>2. ASSUME NEW r \in Procs
        PROVE  /\ loc'[r] \in {"f_read", "x_read"} <=> loc[r] \in {"f_read", "x_read"}
               /\ \A f \in Frames : AboutToFree(r, f)' <=> AboutToFree(r, f)
    BY <1>6, <2>1 DEF FaultZero, AboutToFree, HandlerEntry, LockExact, DropEntry, Handler
  <2> HIDE DEF CowInv, CowTypeOK, Frames, NoFrame, Locations, memVars, Move, MapAndReturn, Unmapped
  <2> QED BY <1>0, <2>1, <2>2, FreeAlloc
<1>7. CASE FaultReuse(p)
  <2>1. UNCHANGED <<refs, freeList, avail>>
    BY <1>7 DEF FaultReuse
  <2>2. ASSUME NEW r \in Procs
        PROVE  /\ loc'[r] \in {"f_read", "x_read"} <=> loc[r] \in {"f_read", "x_read"}
               /\ \A f \in Frames : AboutToFree(r, f)' <=> AboutToFree(r, f)
    BY <1>7 DEF FaultReuse, AboutToFree, HandlerEntry, LockExact, DropEntry, CopyEntry, Handler
  <2> HIDE DEF CowInv, CowTypeOK, Frames, NoFrame, Locations, memVars, Move, MapAndReturn, Unmapped
  <2> QED BY <1>0, <2>1, <2>2, FreeStays
<1>8. CASE FaultCopy(p)
  <2>1. PICK g \in Frames : Alloc(g, contents[pte[p][page[p]].frame])
    BY <1>8 DEF FaultCopy
  <2>2. ASSUME NEW r \in Procs
        PROVE  /\ loc'[r] \in {"f_read", "x_read"} <=> loc[r] \in {"f_read", "x_read"}
               /\ \A f \in Frames : AboutToFree(r, f)' <=> AboutToFree(r, f)
    BY <1>8, <2>1 DEF FaultCopy, AboutToFree, HandlerEntry, LockExact, DropEntry, Handler
  <2> HIDE DEF CowInv, CowTypeOK, Frames, NoFrame, Locations, memVars, Move, MapAndReturn, Unmapped
  <2> QED BY <1>0, <2>1, <2>2, FreeAlloc
<1>9. CASE FaultDec(p)
  <2>1. PICK g \in Frames : g = pte[p][page[p]].frame
    <3>1. page[p] \in Pages /\ pte[p][page[p]].frame # NoFrame
      BY <1>9 DEF FaultDec, HandlerEntry, Handler
    <3> QED BY <3>1
  <2>2. refs[g] > 0
    <3>1. PICK vb \in Pages : vb = page[p]
      BY <1>9 DEF FaultDec, HandlerEntry, Handler
    <3>2. Refers(p, vb, "pte", g)
      BY <1>9, <2>1, <3>1 DEF FaultDec, Refers
    <3> QED BY <3>2, CountedFacts DEF Keys, Tags
  <2>3. /\ \A f \in Frames : refs'[f] = IF f = g THEN refs[f] - 1 ELSE refs[f]
        /\ freeList' = freeList /\ avail' = avail
    BY <1>9, <2>1 DEF FaultDec, Dec
  <2>4. \A q \in Procs : loc[q] \notin {"f_read", "x_read"}
    BY <1>9, <2>1, DecAlone DEF FaultDec
  <2>5. \A q \in Procs : loc'[q] \in {"f_read", "x_read"} <=> q = p
    BY <1>9, <2>4 DEF FaultDec
  <2>6. \A f \in Frames : AboutToFree(p, f)' <=> f = g
    BY <1>9, <2>1 DEF FaultDec, AboutToFree
  <2> HIDE DEF CowInv, CowTypeOK, Frames, NoFrame, Locations, memVars, Move, MapAndReturn, Unmapped
  <2> QED BY <1>0, <2>2, <2>3, <2>4, <2>5, <2>6, FreeDec
<1>10. CASE FaultFree(p)
  <2>1. PICK g \in Frames : g = pte[p][page[p]].frame
    <3>1. page[p] \in Pages /\ pte[p][page[p]].frame # NoFrame
      BY <1>10 DEF FaultFree, HandlerEntry, Handler
    <3> QED BY <3>1
  <2>2. AboutToFree(p, g) /\ FreeIfZero(g) /\ refs' = refs /\ avail' = avail
        /\ \A f \in Frames : AboutToFree(p, f) => f = g
    BY <1>10, <2>1 DEF FaultFree, AboutToFree
  <2>3. \A q \in Procs : loc'[q] \in {"f_read", "x_read"} <=> loc[q] \in {"f_read", "x_read"} /\ q # p
    BY <1>10 DEF FaultFree
  <2> HIDE DEF CowInv, CowTypeOK, Frames, NoFrame, Locations, memVars, Move, MapAndReturn, Unmapped
  <2> QED BY <1>0, <2>2, <2>3, FreeRead
<1>11. ASSUME NEW va \in Pages, CopyProtect(p, va) PROVE FreesOnce' /\ FreeListExact'
  <2>1. UNCHANGED <<refs, freeList, avail>>
    BY <1>11 DEF CopyProtect
  <2>2. ASSUME NEW r \in Procs
        PROVE  /\ loc'[r] \in {"f_read", "x_read"} <=> loc[r] \in {"f_read", "x_read"}
               /\ \A f \in Frames : AboutToFree(r, f)' <=> AboutToFree(r, f)
    BY <1>11 DEF CopyProtect, AboutToFree, HandlerEntry, LockExact, DropEntry, CopyEntry, Handler
  <2> HIDE DEF CowInv, CowTypeOK, Frames, NoFrame, Locations, memVars, Move, MapAndReturn, Unmapped
  <2> QED BY <1>0, <2>1, <2>2, FreeStays
<1>12. CASE CopyShare(p)
  <2>1. PICK g \in Frames : /\ g = pte[p][page[child[p]]].frame
                            /\ \A f \in Frames : refs'[f] = IF f = g THEN refs[f] + 1 ELSE refs[f]
    <3>1. page[child[p]] \in Pages /\ pte[p][page[child[p]]].frame # NoFrame
      BY <1>12 DEF CopyShare, CopyEntry
    <3>2. pte[p][page[child[p]]].frame \in Frames
      BY <3>1
    <3>3. refs' = [refs EXCEPT ![pte[p][page[child[p]]].frame] = @ + 1]
      BY <1>12 DEF CopyShare
    <3> QED BY <3>2, <3>3
  <2>2. refs[g] > 0
    <3>1. PICK va \in Pages : va = page[child[p]]
      BY <1>12 DEF CopyShare, CopyEntry
    <3>2. Refers(p, va, "pte", g)
      BY <1>12, <2>1, <3>1 DEF CopyShare, Refers
    <3> QED BY <3>2, CountedFacts DEF Keys, Tags
  <2>3. ASSUME NEW r \in Procs
        PROVE  /\ loc'[r] \in {"f_read", "x_read"} <=> loc[r] \in {"f_read", "x_read"}
               /\ \A f \in Frames : AboutToFree(r, f)' <=> AboutToFree(r, f)
    BY <1>12 DEF CopyShare, AboutToFree, CopyEntry
  <2>4. freeList' = freeList /\ avail' = avail
    BY <1>12 DEF CopyShare
  <2> HIDE DEF CowInv, CowTypeOK, Frames, NoFrame, Locations, memVars, Move, MapAndReturn, Unmapped
  <2> QED BY <1>0, <2>1, <2>2, <2>3, <2>4, FreeMore
<1>13. CASE CopyDone(p)
  <2>1. UNCHANGED <<refs, freeList, avail>>
    BY <1>13 DEF CopyDone
  <2>2. ASSUME NEW r \in Procs
        PROVE  /\ loc'[r] \in {"f_read", "x_read"} <=> loc[r] \in {"f_read", "x_read"}
               /\ \A f \in Frames : AboutToFree(r, f)' <=> AboutToFree(r, f)
    BY <1>13 DEF CopyDone, AboutToFree, HandlerEntry, LockExact, DropEntry, CopyEntry, Handler
  <2> HIDE DEF CowInv, CowTypeOK, Frames, NoFrame, Locations, memVars, Move, MapAndReturn, Unmapped
  <2> QED BY <1>0, <2>1, <2>2, FreeStays
<1>14. ASSUME NEW va \in Pages, DropDec(p, va) PROVE FreesOnce' /\ FreeListExact'
  <2>1. PICK g \in Frames : g = old[p][va]
    BY <1>14 DEF DropDec, HandlerEntry, DropEntry
  <2>2. refs[g] > 0
    <3>1. PICK vb \in Pages : vb = va
      BY <1>14 DEF DropDec, HandlerEntry, Handler
    <3>2. Refers(p, vb, "old", g)
      BY <1>14, <2>1, <3>1 DEF DropDec, Refers
    <3> QED BY <3>2, CountedFacts DEF Keys, Tags
  <2>3. /\ \A f \in Frames : refs'[f] = IF f = g THEN refs[f] - 1 ELSE refs[f]
        /\ freeList' = freeList /\ avail' = avail
    BY <1>14, <2>1 DEF DropDec, Dec
  <2>4. \A q \in Procs : loc[q] \notin {"f_read", "x_read"}
    BY <1>14, <2>1, DecAlone DEF DropDec
  <2>5. \A q \in Procs : loc'[q] \in {"f_read", "x_read"} <=> q = p
    BY <1>14, <2>4 DEF DropDec
  <2>6. \A f \in Frames : AboutToFree(p, f)' <=> f = g
    BY <1>14, <2>1 DEF DropDec, AboutToFree
  <2> HIDE DEF CowInv, CowTypeOK, Frames, NoFrame, Locations, memVars, Move, MapAndReturn, Unmapped
  <2> QED BY <1>0, <2>2, <2>3, <2>4, <2>5, <2>6, FreeDec
<1>15. CASE DropFree(p)
  <2>1. PICK g \in Frames : g = old[p][page[p]]
    BY <1>15 DEF DropFree, HandlerEntry, DropEntry
  <2>2. AboutToFree(p, g) /\ FreeIfZero(g) /\ refs' = refs /\ avail' = avail
        /\ \A f \in Frames : AboutToFree(p, f) => f = g
    BY <1>15, <2>1 DEF DropFree, AboutToFree
  <2>3. \A q \in Procs : loc'[q] \in {"f_read", "x_read"} <=> loc[q] \in {"f_read", "x_read"} /\ q # p
    BY <1>15 DEF DropFree
  <2> HIDE DEF CowInv, CowTypeOK, Frames, NoFrame, Locations, memVars, Move, MapAndReturn, Unmapped
  <2> QED BY <1>0, <2>2, <2>3, FreeRead
<1>16. CASE ExecDone(p)
  <2>1. UNCHANGED <<refs, freeList, avail>>
    BY <1>16 DEF ExecDone
  <2>2. ASSUME NEW r \in Procs
        PROVE  /\ loc'[r] \in {"f_read", "x_read"} <=> loc[r] \in {"f_read", "x_read"}
               /\ \A f \in Frames : AboutToFree(r, f)' <=> AboutToFree(r, f)
    BY <1>16 DEF ExecDone, AboutToFree, HandlerEntry, LockExact, DropEntry, CopyEntry, Handler
  <2> HIDE DEF CowInv, CowTypeOK, Frames, NoFrame, Locations, memVars, Move, MapAndReturn, Unmapped
  <2> QED BY <1>0, <2>1, <2>2, FreeStays
<1> QED BY <1>1, <1>2, <1>3, <1>4, <1>5, <1>6, <1>7, <1>8,
  <1>9, <1>10, <1>11, <1>12, <1>13, <1>14, <1>15, <1>16
  DEF Works, UserStep, KernelStep

\* Under that bound no frame is freed twice, none that is in use is free, and none is
\* lost.
THEOREM FreeListIsExact ==
  ASSUME MaxInDec <= 1
  PROVE  Spec => []FreeListExact
<1>1. Init => FreeInv
  <2> SUFFICES ASSUME Init PROVE FreeInv
    OBVIOUS
  <2>1. CowInv
    BY CowInitInv
  <2>2. ToSet(freeList) = {} /\ IsInjective(freeList) /\ avail = 1
    BY EmptyFacts DEF Init
  <2>3. FreesOnce
    BY <2>2 DEF Init, FreesOnce, AboutToFree
  <2>4. FreeListExact
    BY <2>2, CowAssumption DEF Init, FreeListExact, Frames
  <2> QED BY <2>1, <2>3, <2>4 DEF FreeInv
<1>2. FreeInv /\ [Next]_vars => FreeInv'
  <2> SUFFICES ASSUME FreeInv, [Next]_vars PROVE FreeInv'
    OBVIOUS
  <2>1. CowInv'
    BY CowStep DEF FreeInv
  <2>2. ASSUME NEW p \in Procs, Works(p) PROVE FreesOnce' /\ FreeListExact'
    BY <2>2, FreeStep DEF FreeInv
  <2>3. CASE UNCHANGED vars
    <3>1. \A q \in Procs, f \in Frames : AboutToFree(q, f)' <=> AboutToFree(q, f)
      BY <2>3 DEF vars, AboutToFree
    <3>2. UNCHANGED <<refs, freeList, avail>>
      BY <2>3 DEF vars
    <3>3. FreesOnce /\ FreeListExact /\ avail \in 1 .. Limit + 1
      BY DEF FreeInv, CowInv, RefsExact, CowTypeOK
    <3>4. \A q \in Procs : loc'[q] \in {"f_read", "x_read"} <=> loc[q] \in {"f_read", "x_read"}
      BY <2>3 DEF vars
    <3> QED BY <2>1, <3>1, <3>2, <3>3, <3>4, FreeStays DEF FreeInv
  <2> QED BY <2>1, <2>2, <2>3 DEF Next, Works, FreeInv
<1>3. FreeInv => FreeListExact
  BY DEF FreeInv
<1> QED BY <1>1, <1>2, <1>3, PTL DEF Spec

-----------------------------------------------------------------------------
(* Private memories *)

\* What a process reads in a page.
See(p, va) == IF p \in Alive /\ pte[p][va].frame # NoFrame
              THEN contents[pte[p][va].frame] ELSE Zero

\* The memories of all processes are what they read.
LEMMA SeenFacts ==
  /\ Seen = [p \in Procs |-> [va \in Pages |-> See(p, va)]]
  /\ Seen' = [p \in Procs |-> [va \in Pages |-> See(p, va)']]
BY DEF Seen, See

\* Then the step is none of the private memories.
LEMMA SeenStays ==
  ASSUME Alive' = Alive, \A q \in Procs, vb \in Pages : See(q, vb)' = See(q, vb)
  PROVE  <<Alive, Seen>>' = <<Alive, Seen>>
BY SeenFacts

\* Each step of the code is a step of the private memories, or none.
LEMMA PrivateStep ==
  ASSUME CowInv, NEW p \in Procs, Works(p)
  PROVE  [Private!Next]_<<Alive, Seen>>
<1>0. RefsExact /\ CowTypeOK /\ CowInv
  BY DEF CowInv, RefsExact
<1> USE CowAssumption, <1>0
<1> USE DEF CowInv, CowTypeOK, Frames, NoFrame, Locations, memVars, Move, MapAndReturn, Unmapped
<1>1. ASSUME NEW va \in Pages, NEW v \in Values, Write(p, va, v)
      PROVE  [Private!Next]_<<Alive, Seen>>
  <2>1. PICK f \in Frames : f = pte[p][va].frame /\ contents' = [contents EXCEPT ![f] = v]
    <3>1. pte[p][va].frame \in Frames
      BY <1>1 DEF Write, WritableAlone
    <3> QED BY <1>1, <3>1 DEF Write
  <2>2. \A q \in Procs, vb \in Pages : pte[q][vb].frame = f => q = p /\ vb = va
    BY <1>1, <2>1 DEF Write, WritableIsUnshared
  <2>3. Alive' = Alive /\ p \in Alive /\ pte' = pte
    BY <1>1 DEF Write, Alive
  <2>4. \A q \in Procs, vb \in Pages :
          See(q, vb)' = IF q = p /\ vb = va THEN v ELSE See(q, vb)
    BY <2>1, <2>2, <2>3 DEF See
  <2>5. Seen' = [Seen EXCEPT ![p][va] = v]
    <3>1. Seen' = [q \in Procs |-> [vb \in Pages |-> IF q = p /\ vb = va THEN v ELSE See(q, vb)]]
      BY <2>4, SeenFacts
    <3>2. Seen = [q \in Procs |-> [vb \in Pages |-> See(q, vb)]]
      BY SeenFacts
    <3> QED BY ONLY <3>1, <3>2, <2>3
  <2>6. Private!Write(p, va, v)
    BY <2>3, <2>5 DEF Private!Write
  <2> QED BY <2>6 DEF Private!Next
<1>2. ASSUME NEW va \in Pages, Fault(p, va) PROVE [Private!Next]_<<Alive, Seen>>
  <2>1. Alive' = Alive
    BY <1>2 DEF Fault, Alive, HandlerEntry, DropEntry, CopyEntry
  <2>2. \A q \in Procs, vb \in Pages : See(q, vb)' = See(q, vb)
    BY <1>2 DEF Fault, See, Alive, HandlerEntry, DropEntry, CopyEntry, Handler
  <2> QED BY <2>1, <2>2, SeenStays
<1>3. ASSUME NEW q \in Procs, Fork(p, q) PROVE [Private!Next]_<<Alive, Seen>>
  <2>1. Alive' = Alive
    BY <1>3 DEF Fork, Alive, HandlerEntry, DropEntry, CopyEntry
  <2>2. \A r \in Procs, vb \in Pages : See(r, vb)' = See(r, vb)
    BY <1>3 DEF Fork, See, Alive, HandlerEntry, DropEntry, CopyEntry, Handler
  <2> QED BY <2>1, <2>2, SeenStays
<1>4. CASE Exec(p)
  <2>1. Alive' = Alive /\ p \in Alive /\ contents' = contents
    BY <1>4 DEF Exec, Alive
  <2>2. pte' = [pte EXCEPT ![p] = Unmapped]
    BY <1>4 DEF Exec
  <2>3. \A r \in Procs, vb \in Pages : See(r, vb)' = IF r = p THEN Zero ELSE See(r, vb)
    BY <2>1, <2>2 DEF See
  <2>4. Seen' = [Seen EXCEPT ![p] = Private!Blank]
    BY <2>3, SeenFacts DEF Private!Blank
  <2>5. Private!Exec(p)
    BY <2>1, <2>4 DEF Private!Exec
  <2> QED BY <2>5 DEF Private!Next
<1>5. CASE Exit(p)
  <2>1. Alive' = Alive \ {p} /\ p \in Alive /\ contents' = contents /\ pte' = pte
    BY <1>5 DEF Exit, Alive
  <2>2. \A r \in Procs, vb \in Pages : See(r, vb)' = IF r = p THEN Zero ELSE See(r, vb)
    BY <2>1 DEF See
  <2>3. Seen' = [Seen EXCEPT ![p] = Private!Blank]
    BY <2>2, SeenFacts DEF Private!Blank
  <2>4. Private!Exit(p)
    BY <2>1, <2>3 DEF Private!Exit
  <2> QED BY <2>4 DEF Private!Next
<1>6. CASE FaultZero(p)
  <2>1. PICK g \in Frames : Alloc(g, Zero) /\ MapAndReturn(p, g)
    BY <1>6 DEF FaultZero
  <2>2. refs[g] = 0 /\ \A f \in Frames : f # g => contents'[f] = contents[f]
    BY <2>1 DEF Alloc
  <2>3. \A r \in Procs, vc \in Pages : pte[r][vc].frame # g
    BY <1>6, <2>2, UnusedFacts DEF FaultZero
  <2>4. PICK va \in Pages : /\ va = page[p] /\ pte[p][va].frame = NoFrame /\ contents'[g] = Zero
                            /\ \A r \in Procs, vc \in Pages :
                                 pte'[r][vc] = IF r = p /\ vc = va THEN [frame |-> g, w |-> TRUE]
                                                                   ELSE pte[r][vc]
    <3>1. PICK va \in Pages : va = page[p] /\ pte[p][va].frame = NoFrame
      BY <1>6 DEF FaultZero, HandlerEntry, Handler
    <3>2. contents'[g] = Zero
      BY <2>1 DEF Alloc
    <3>3. pte' = [pte EXCEPT ![p] = [pte[p] EXCEPT ![va] = [frame |-> g, w |-> TRUE]]]
      BY <2>1, <3>1
    <3> QED BY <3>1, <3>2, <3>3
  <2>5. Alive' = Alive
    BY <1>6, <2>1 DEF FaultZero, Alive
  <2>6. \A q \in Procs, vb \in Pages : See(q, vb)' = See(q, vb)
    <3> SUFFICES ASSUME NEW q \in Procs, NEW vb \in Pages PROVE See(q, vb)' = See(q, vb)
      OBVIOUS
    <3>1. CASE q = p /\ vb = va
      BY <2>4, <2>5, <3>1 DEF See
    <3>2. CASE ~(q = p /\ vb = va)
      <4>1. pte'[q][vb] = pte[q][vb] /\ pte[q][vb].frame # g
        BY <2>3, <2>4, <3>2
      <4>2. pte[q][vb].frame # NoFrame => contents'[pte[q][vb].frame] = contents[pte[q][vb].frame]
        BY <2>2, <4>1
      <4> QED BY <2>5, <4>1, <4>2 DEF See
    <3> QED BY <3>1, <3>2
  <2> QED BY <2>5, <2>6, SeenStays
<1>7. CASE FaultReuse(p)
  <2>1. Alive' = Alive
    BY <1>7 DEF FaultReuse, Alive, HandlerEntry, DropEntry, CopyEntry
  <2>2. \A q \in Procs, vb \in Pages : See(q, vb)' = See(q, vb)
    BY <1>7 DEF FaultReuse, See, Alive, HandlerEntry, DropEntry, CopyEntry, Handler
  <2> QED BY <2>1, <2>2, SeenStays
<1>8. CASE FaultCopy(p)
  <2>1. PICK g \in Frames : Alloc(g, contents[pte[p][page[p]].frame])
    BY <1>8 DEF FaultCopy
  <2>2. refs[g] = 0 /\ \A f \in Frames : f # g => contents'[f] = contents[f]
    BY <2>1 DEF Alloc
  <2>3. \A r \in Procs, vc \in Pages : pte[r][vc].frame # g
    BY <1>8, <2>2, UnusedFacts DEF FaultCopy
  <2>4. pte' = pte
    BY <1>8 DEF FaultCopy
  <2>5. Alive' = Alive
    BY <1>8, <2>1 DEF FaultCopy, Alive
  <2>6. \A q \in Procs, vb \in Pages : See(q, vb)' = See(q, vb)
    <3> SUFFICES ASSUME NEW q \in Procs, NEW vb \in Pages PROVE See(q, vb)' = See(q, vb)
      OBVIOUS
    <3>1. pte'[q][vb] = pte[q][vb] /\ pte[q][vb].frame # g
      BY <2>3, <2>4
    <3>2. pte[q][vb].frame # NoFrame => contents'[pte[q][vb].frame] = contents[pte[q][vb].frame]
      BY <2>2, <3>1
    <3> QED BY <2>5, <3>1, <3>2 DEF See
  <2> QED BY <2>5, <2>6, SeenStays
<1>9. CASE FaultDec(p)
  <2>1. Alive' = Alive
    BY <1>9 DEF FaultDec, Alive, HandlerEntry, DropEntry, CopyEntry
  <2>2. \A q \in Procs, vb \in Pages : See(q, vb)' = See(q, vb)
    BY <1>9 DEF FaultDec, See, Alive, HandlerEntry, DropEntry, CopyEntry, Handler
  <2> QED BY <2>1, <2>2, SeenStays
<1>10. CASE FaultFree(p)
  <2>1. PICK va \in Pages : va = page[p]
    BY <1>10 DEF FaultFree, HandlerEntry, Handler
  <2>2. /\ pte[p][va].frame # NoFrame /\ fresh[p] # NoFrame /\ contents' = contents
        /\ contents[fresh[p]] = contents[pte[p][va].frame]
    BY <1>10, <2>1 DEF FaultFree, HandlerEntry, FreshAlone
  <2>3. \A r \in Procs, vc \in Pages :
          pte'[r][vc] = IF r = p /\ vc = va THEN [frame |-> fresh[p], w |-> TRUE] ELSE pte[r][vc]
    BY <1>10, <2>1 DEF FaultFree
  <2>4. Alive' = Alive
    BY <1>10 DEF FaultFree, Alive
  <2>5. \A q \in Procs, vb \in Pages : See(q, vb)' = See(q, vb)
    <3> SUFFICES ASSUME NEW q \in Procs, NEW vb \in Pages PROVE See(q, vb)' = See(q, vb)
      OBVIOUS
    <3>1. CASE q = p /\ vb = va
      BY <2>2, <2>3, <2>4, <3>1 DEF See
    <3>2. CASE ~(q = p /\ vb = va)
      <4>1. pte'[q][vb] = pte[q][vb]
        BY <2>3, <3>2
      <4> QED BY <2>2, <2>4, <4>1 DEF See
    <3> QED BY <3>1, <3>2
  <2> QED BY <2>4, <2>5, SeenStays
<1>11. ASSUME NEW va \in Pages, CopyProtect(p, va) PROVE [Private!Next]_<<Alive, Seen>>
  <2>1. Alive' = Alive
    BY <1>11 DEF CopyProtect, Alive, HandlerEntry, DropEntry, CopyEntry
  <2>2. \A q \in Procs, vb \in Pages : See(q, vb)' = See(q, vb)
    BY <1>11 DEF CopyProtect, See, Alive, HandlerEntry, DropEntry, CopyEntry, Handler
  <2> QED BY <2>1, <2>2, SeenStays
<1>12. CASE CopyShare(p)
  <2>1. Alive' = Alive
    BY <1>12 DEF CopyShare, Alive, HandlerEntry, DropEntry, CopyEntry
  <2>2. \A q \in Procs, vb \in Pages : See(q, vb)' = See(q, vb)
    BY <1>12 DEF CopyShare, See, Alive, HandlerEntry, DropEntry, CopyEntry, Handler
  <2> QED BY <2>1, <2>2, SeenStays
<1>13. CASE CopyDone(p)
  <2>1. PICK q \in Procs : q = child[p] /\ q # p
    BY <1>13 DEF CopyDone
  <2>2. Alive' = Alive \cup {q} /\ p \in Alive /\ q \notin Alive
    BY <1>13, <2>1 DEF CopyDone, Alive
  <2>3. pte' = pte /\ contents' = contents
    BY <1>13 DEF CopyDone
  <2>4. \A vb \in Pages : pte[q][vb].frame = pte[p][vb].frame
    BY <1>13, <2>1 DEF CopyDone, CopyEntry
  <2>5. \A r \in Procs, vb \in Pages : See(r, vb)' = IF r = q THEN See(p, vb) ELSE See(r, vb)
    BY <2>2, <2>3, <2>4 DEF See
  <2>6. Seen' = [Seen EXCEPT ![q] = Seen[p]]
    BY <2>5, SeenFacts
  <2>7. Private!Fork(p, q)
    BY <2>2, <2>6 DEF Private!Fork
  <2> QED BY <2>7 DEF Private!Next
<1>14. ASSUME NEW va \in Pages, DropDec(p, va) PROVE [Private!Next]_<<Alive, Seen>>
  <2>1. Alive' = Alive
    BY <1>14 DEF DropDec, Alive, HandlerEntry, DropEntry, CopyEntry
  <2>2. \A q \in Procs, vb \in Pages : See(q, vb)' = See(q, vb)
    BY <1>14 DEF DropDec, See, Alive, HandlerEntry, DropEntry, CopyEntry, Handler
  <2> QED BY <2>1, <2>2, SeenStays
<1>15. CASE DropFree(p)
  <2>1. Alive' = Alive
    BY <1>15 DEF DropFree, Alive, HandlerEntry, DropEntry, CopyEntry
  <2>2. \A q \in Procs, vb \in Pages : See(q, vb)' = See(q, vb)
    BY <1>15 DEF DropFree, See, Alive, HandlerEntry, DropEntry, CopyEntry, Handler
  <2> QED BY <2>1, <2>2, SeenStays
<1>16. CASE ExecDone(p)
  <2>1. Alive' = Alive
    BY <1>16 DEF ExecDone, Alive, HandlerEntry, DropEntry, CopyEntry
  <2>2. \A q \in Procs, vb \in Pages : See(q, vb)' = See(q, vb)
    BY <1>16 DEF ExecDone, See, Alive, HandlerEntry, DropEntry, CopyEntry, Handler
  <2> QED BY <2>1, <2>2, SeenStays
<1> QED BY <1>1, <1>2, <1>3, <1>4, <1>5, <1>6, <1>7, <1>8,
  <1>9, <1>10, <1>11, <1>12, <1>13, <1>14, <1>15, <1>16
  DEF Works, UserStep, KernelStep

\* Every process sees a memory of its own: copy-on-write implements private memories.
THEOREM CowIsPrivate == Spec => MemoryIsPrivate
<1>1. Init => Private!Init
  <2> SUFFICES ASSUME Init PROVE Private!Init
    OBVIOUS
  <2>1. Alive = {First}
    BY CowAssumption DEF Init, Alive
  <2>2. Seen = [p \in Procs |-> Private!Blank]
    BY DEF Init, Seen, Unmapped, Private!Blank
  <2> QED BY <2>1, <2>2 DEF Private!Init
<1>2. CowInv /\ [Next]_vars => [Private!Next]_<<Alive, Seen>>
  <2> SUFFICES ASSUME CowInv, [Next]_vars PROVE [Private!Next]_<<Alive, Seen>>
    OBVIOUS
  <2>1. ASSUME NEW p \in Procs, Works(p) PROVE [Private!Next]_<<Alive, Seen>>
    BY <2>1, PrivateStep
  <2>2. CASE UNCHANGED vars
    <3>1. UNCHANGED <<Alive, Seen>>
      BY <2>2 DEF vars, Alive, Seen
    <3> QED BY <3>1
  <2> QED BY <2>1, <2>2 DEF Next, Works
<1> QED BY <1>1, <1>2, CowInvariant, PTL DEF Spec, MemoryIsPrivate, Private!Spec
=============================================================================
