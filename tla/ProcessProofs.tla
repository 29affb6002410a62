--------------------------- MODULE ProcessProofs ---------------------------
(***************************************************************************)
(* Proofs about Processes and Boot, which MCBoot puts one after the other. *)
(*                                                                         *)
(* Of Processes, for any number of processes and any exit codes:           *)
(* the invariant ProcInv, and from it that no thread touches a Future that *)
(* is gone, that wait returns the child's exit code, that a parent stalls  *)
(* while its child copies, and that nobody who sleeps is forgotten.        *)
(*                                                                         *)
(* For one Future at most one process sets and at most one gets, and the   *)
(* count, the queue and the lock follow from where these two are: so a     *)
(* step of a process can disturb the one Future it uses, and the lemmas of *)
(* the third section say that the others stay as they were.                *)
(*                                                                         *)
(* Of Boot, for any table of processors: no stack is shared, nothing is    *)
(* used before it is initialized, and one thread of kernelMain is made.    *)
(* BootInv says where the others can be, given where the first processor   *)
(* is; there is a lemma for each action, with a step for each conjunct.    *)
(***************************************************************************)
EXTENDS Processes, Boot, FiniteSetTheorems, FunctionTheorems, TLAPS

(* Why they hold: the inductive invariant *)

SetLocs == {"s_value", "up", "up_unlock", "up_sched"}
GetLocs == {"down", "down_took", "down_queued", "asleep", "up", "up_unlock", "g_value"}

\* p is in get of f; q has not finished its set of f; it has given f its permit.
Gets(p, f) == pc[p] \in GetLocs /\ after[p] = "g_value" /\ on[p] = f
Sets(q, f) == /\ q \in Pids /\ parent[q] # Nobody
              /\ \/ f = ExitOf(q) /\ pc[q] # "dead"
                 \/ f = SyncOf(parent[q]) /\ \/ pc[q] = "copy"
                                             \/ pc[q] \in SetLocs /\ after[q] = "run"
Signalled(q, f) == pc[q] \in {"up_unlock", "up_sched"} /\ after[q] # "g_value" /\ on[q] = f

\* The processes that exist, and the one that each fork is about to start.
Known ==
  /\ parent[First] = Nobody /\ pc[First] # "none"
  /\ \A q \in Pids :
       /\ parent[q] = Nobody <=> q > pidC
       /\ parent[q] = Nobody <=> pidMap[q] = "none"
       /\ parent[q] = Nobody => pc[q] = "none"
       /\ parent[q] # Nobody /\ pc[q] = "none" =>
            /\ pc[parent[q]] = "f_thread"
            /\ \A r \in Pids : pc[r] = "none" /\ parent[r] = parent[q] => r = q

\* What a thread knows of the Future it is about to use or uses.
Child(p, q) == q \in Pids /\ on[p] = ExitOf(q) /\ parent[q] = p

PlacedAt(p) ==
  /\ pc[p] \in {"copy", "e_ptr"} => p # First
  /\ pc[p] \in SetLocs /\ after[p] # "g_value" => p # First
  /\ pc[p] = "s_value" => after[p] # "g_value"
  /\ pc[p] \in SetLocs /\ after[p] = "run" => on[p] = SyncOf(parent[p])
  /\ pc[p] \in SetLocs /\ after[p] = "dead" => on[p] = ExitOf(p)
  /\ pc[p] \in (GetLocs \ {"up", "up_unlock"}) \cup {"w_null", "w_ptr"} => after[p] = "g_value"
  /\ pc[p] \in GetLocs /\ after[p] = "g_value" =>
       on[p] = SyncOf(p) \/ \E q \in Pids : Child(p, q) /\ pidMap[q] = "set"
  /\ pc[p] = "w_null" => \E q \in Pids : Child(p, q)
  /\ pc[p] = "w_ptr" => \E q \in Pids : Child(p, q) /\ pidMap[q] = "set"
  /\ pc[p] = "c_null" => \E q \in Pids : Child(p, q) /\ status[p][q] # NoCode
  /\ pc[p] \in {"c_reset", "c_clear"} =>
       \E q \in Pids : Child(p, q) /\ status[p][q] # NoCode /\ pidMap[q] = "set"
  /\ woken[p] # Nobody => pc[p] \in {"up_unlock", "up_sched"} /\ after[p] # "g_value"
  /\ pc[p] = "up_sched" => woken[p] # Nobody
  /\ code[p] # NoCode <=> \/ pc[p] \in {"e_ptr", "dead"}
                          \/ pc[p] \in SetLocs /\ after[p] = "dead"

Placed == \A p \in Procs : PlacedAt(p)

\* Which Futures exist.
LiveExact ==
  /\ \A p \in Procs : SyncOf(p) \in live <=> Gets(p, SyncOf(p))
  /\ \A q \in Pids :
       ExitOf(q) \in live <=>
         pidMap[q] = "set" /\ ~(pc[parent[q]] = "c_clear" /\ on[parent[q]] = ExitOf(q))

\* One thread at a time has the lock of a Future.
Holds(p, f) == pc[p] \in {"up_unlock", "down_took", "down_queued"} /\ on[p] = f

LockOne ==
  \A p, q \in Procs, f \in Futures :
    Holds(p, f) => taken[f] /\ (Holds(q, f) => q = p)

\* Before the permit is given, while it is, and after that.
Unset(f) ==
  \A q \in Procs : Sets(q, f) /\ ~Signalled(q, f) =>
    /\ f \in live /\ count[f] = 0
    /\ waiting[f] = << >> \/ \E p \in Procs : waiting[f] = <<p>>
    /\ \A p \in Procs :
         /\ Gets(p, f) => pc[p] \in {"down", "down_queued", "asleep"}
         /\ waiting[f] = <<p>> <=> Gets(p, f) /\ pc[p] \in {"down_queued", "asleep"}

Setting(f) ==
  \A q \in Procs : Sets(q, f) /\ Signalled(q, f) =>
    /\ f \in live /\ waiting[f] = << >>
    /\ \/ woken[q] = Nobody /\ count[f] = 1 /\ \A p \in Procs : Gets(p, f) => pc[p] = "down"
       \/ /\ woken[q] \in Procs /\ count[f] = 0
          /\ Gets(woken[q], f) /\ pc[woken[q]] = "asleep"

IsSet(f) ==
  f \in live /\ (\A q \in Procs : ~Sets(q, f)) =>
    /\ waiting[f] = << >>
    /\ \A p \in Procs : Gets(p, f) => pc[p] \notin {"down_queued", "asleep"}
    /\ count[f] = IF \E p \in Procs : Gets(p, f) /\ pc[p] \in {"down_took", "up"} THEN 0 ELSE 1

FutureAt(f)  == Unset(f) /\ Setting(f) /\ IsSet(f)
FuturesExact == \A f \in Futures : FutureAt(f)

\* A parent in fork has one child that lets it go.
OneSetter ==
  \A q, r \in Procs, f \in Futures : Sets(q, f) /\ Sets(r, f) => q = r

\* What the exit of a process has left behind.
Ends(q) == \/ pc[q] = "dead"
           \/ pc[q] \in SetLocs \ {"s_value"} /\ after[q] = "dead"

ExitKept ==
  \A q \in Pids :
    /\ Ends(q) => value[ExitOf(q)] = code[q]
    /\ pidMap[q] = "null" => status[parent[q]][q] # NoCode
    /\ \A p \in Procs : status[p][q] # NoCode =>
         parent[q] = p /\ pc[q] = "dead" /\ status[p][q] = code[q]

ProcInv == /\ ProcTypeOK /\ Known /\ Placed /\ LiveExact /\ LockOne
           /\ FuturesExact /\ OneSetter /\ ExitKept

-----------------------------------------------------------------------------
(* The state of the program and its types *)

\* A step of process p.
Step(p) == Call(p) \/ Kernel(p) \/ \E q \in Pids : CloseWaited(p, q)

\* Futures are told apart by their kind and their process.
LEMMA FutureFacts ==
  /\ \A q, r : (ExitOf(q) = ExitOf(r) <=> q = r) /\ (SyncOf(q) = SyncOf(r) <=> q = r)
  /\ \A q, r : ExitOf(q) # SyncOf(r) /\ SyncOf(q) # ExitOf(r)
  /\ \A q : ExitOf(q) # Null /\ SyncOf(q) # Null
  /\ \A q : ExitOf(q)[1] = "exit" /\ ExitOf(q)[2] = q /\ SyncOf(q)[1] = "sync"
  /\ Null \notin Futures
  /\ \A q \in Procs : ExitOf(q) \in Futures /\ SyncOf(q) \in Futures
  /\ \A f \in Futures : \E q \in Procs : f = ExitOf(q) \/ f = SyncOf(q)
BY DEF ExitOf, SyncOf, Null, Futures

\* The processes.
LEMMA ProcessFacts ==
  /\ First \in Procs /\ First \notin Pids /\ Pids \subseteq Procs
  /\ Procs = Pids \cup {First}
  /\ Nobody \notin Procs /\ First # Nobody
  /\ Nobody \notin Pids /\ Pids \subseteq Nat
BY ProcessesAssumption DEF Procs, Pids, First, Nobody

\* What queues of at most one process do.
LEMMA QueueFacts ==
  /\ \A S, x : x \in S => <<x>> \in Seq(S) /\ << >> \in Seq(S)
  /\ \A x : << >> # <<x>> /\ Append(<< >>, x) = <<x>> /\ Head(<<x>>) = x /\ Tail(<<x>>) = << >>
  /\ \A x, y : <<x>> = <<y>> => x = y
  /\ \A x : ToSet(<<x>>) = {x}
BY DEF ToSet

\* What a step may rely on, in pieces.
LEMMA ChildFacts ==
  ASSUME ProcTypeOK, Known, Placed, NEW p \in Procs
  PROVE  /\ pc[p] \in {"copy", "e_ptr"} => p \in Pids /\ parent[p] \in Procs
         /\ pc[p] \in SetLocs /\ after[p] # "g_value" => p \in Pids /\ parent[p] \in Procs
         /\ p \in Pids /\ pc[p] # "none" => parent[p] \in Procs
         /\ pc[p] = "up_sched" => woken[p] \in Procs
         /\ pidC < MaxPid => /\ pidC + 1 \in Pids /\ pidMap[pidC + 1] = "none"
                             /\ parent[pidC + 1] = Nobody /\ pc[pidC + 1] = "none"
<1> USE ProcessesAssumption, ProcessFacts
<1>1. ASSUME p \in Pids, pc[p] # "none" PROVE parent[p] \in Procs
  BY <1>1 DEF ProcTypeOK, Known
<1>2. ASSUME pc[p] \in {"copy", "e_ptr"} PROVE p \in Pids
  BY <1>2 DEF ProcTypeOK, Placed, PlacedAt
<1>3. ASSUME pc[p] \in SetLocs, after[p] # "g_value" PROVE p \in Pids
  BY <1>3 DEF ProcTypeOK, Placed, PlacedAt
<1>4. pc[p] = "up_sched" => woken[p] \in Procs
  BY DEF ProcTypeOK, Placed, PlacedAt
<1>5. ASSUME pidC < MaxPid
      PROVE  /\ pidC + 1 \in Pids /\ pidMap[pidC + 1] = "none"
             /\ parent[pidC + 1] = Nobody /\ pc[pidC + 1] = "none"
  BY <1>5 DEF ProcTypeOK, Known, Pids
<1> QED BY <1>1, <1>2, <1>3, <1>4, <1>5 DEF SetLocs

\* A new Future is of the types of the others.
LEMMA ConstructTypes ==
  ASSUME ProcTypeOK, NEW f \in Futures, Construct(f)
  PROVE  /\ live' \subseteq Futures
         /\ count' \in [Futures -> Nat]
         /\ waiting' \in [Futures -> Seq(Procs)]
         /\ taken' \in [Futures -> BOOLEAN]
         /\ value' \in [Futures -> Codes \cup {NoCode}]
<1>1. << >> \in Seq(Procs)
  OBVIOUS
<1> QED BY <1>1 DEF ProcTypeOK, Construct

\* The types.
LEMMA TypeStep ==
  ASSUME ProcTypeOK, Known, Placed, NEW p \in Procs, Step(p)
  PROVE  ProcTypeOK'
<1> USE ProcessesAssumption
<1> USE DEF ProcTypeOK, Construct, Use, Goto, Locations, futVars, procVars
<1>1. CASE Fork(p)
  <2>1. pidC + 1 \in Pids /\ pidC + 1 \in 0 .. MaxPid
    BY <1>1, ChildFacts DEF Fork
  <2>2. ExitOf(pidC + 1) \in Futures /\ Construct(ExitOf(pidC + 1))
    BY <1>1, <2>1, FutureFacts, ProcessFacts DEF Fork
  <2> HIDE DEF Construct
  <2> QED BY <1>1, <2>1, <2>2, ConstructTypes, ProcessFacts DEF Fork
<1>2. ASSUME NEW rc \in Codes, Exit(p, rc) PROVE ProcTypeOK'
  BY <1>2 DEF Exit
<1>3. ASSUME NEW q \in Pids, Wait(p, q) PROVE ProcTypeOK'
  BY <1>3, FutureFacts, ProcessFacts DEF Wait
<1>4. ASSUME NEW q \in Pids, CloseWaited(p, q) PROVE ProcTypeOK'
  BY <1>4, FutureFacts, ProcessFacts DEF CloseWaited, Close
<1>5. CASE SetValue(p)
  BY <1>5 DEF SetValue
<1>6. CASE UpWake(p)
  BY <1>6 DEF UpWake
<1>7. CASE UpCount(p)
  BY <1>7 DEF UpCount
<1>8. CASE UpUnlock(p)
  BY <1>8 DEF UpUnlock
<1>9. CASE UpSchedule(p)
  BY <1>9, ChildFacts DEF UpSchedule
<1>10. CASE DownTake(p)
  BY <1>10 DEF DownTake
<1>11. CASE DownWait(p)
  BY <1>11 DEF DownWait
<1>12. CASE DownUnlock(p)
  BY <1>12 DEF DownUnlock
<1>13. CASE ForkThread(p)
  <2>1. PICK q \in Pids : pc[q] = "none" /\ pc' = [pc EXCEPT ![p] = "down", ![q] = "copy"]
    BY <1>13 DEF ForkThread, Unborn
  <2>2. SyncOf(p) \in Futures
    BY FutureFacts
  <2>3. Construct(SyncOf(p))
    BY <1>13 DEF ForkThread
  <2> HIDE DEF Construct
  <2> QED BY <1>13, <2>1, <2>2, <2>3, ConstructTypes DEF ForkThread
<1>14. CASE CopyDone(p)
  BY <1>14, FutureFacts, ChildFacts DEF CopyDone
<1>15. CASE ForkReturn(p)
  BY <1>15 DEF ForkReturn
<1>16. CASE ExitPointer(p)
  BY <1>16, FutureFacts DEF ExitPointer, Pointer
<1>17. CASE WaitNull(p)
  BY <1>17 DEF WaitNull
<1>18. CASE WaitPointer(p)
  <2>1. PICK q \in Pids : on[p] = ExitOf(q)
    BY <1>18 DEF WaitPointer, Placed, PlacedAt, Child
  <2>2. on[p][2] = q /\ q \in Procs /\ ExitOf(q) \in Futures
    BY <2>1, FutureFacts, ProcessFacts
  <2> QED BY <1>18, <2>2 DEF WaitPointer, Pointer
<1>19. CASE WaitReturn(p)
  BY <1>19 DEF WaitReturn
<1>20. CASE CloseNull(p)
  BY <1>20 DEF CloseNull
<1>21. CASE CloseReset(p)
  BY <1>21 DEF CloseReset
<1>22. CASE CloseClear(p)
  BY <1>22 DEF CloseClear
<1> QED BY <1>1, <1>2, <1>3, <1>4, <1>5, <1>6, <1>7, <1>8, <1>9, <1>10, <1>11,
  <1>12, <1>13, <1>14, <1>15, <1>16, <1>17, <1>18, <1>19, <1>20, <1>21, <1>22
  DEF Step, Call, Kernel

-----------------------------------------------------------------------------
(* What the parts of the invariant say of one process, and who exists *)

\* Who gets from a Future is one process, and the Future exists.
LEMMA GetterFacts ==
  ASSUME ProcTypeOK, Known, Placed, LiveExact
  PROVE  /\ \A p \in Procs : pc[p] \in GetLocs /\ after[p] = "g_value" => Gets(p, on[p])
         /\ \A p \in Procs : \A f : Gets(p, f) => f \in live /\ f \in Futures
         /\ \A p, r \in Procs : \A f : Gets(p, f) /\ Gets(r, f) => p = r
<1> USE FutureFacts, ProcessFacts
<1>1. \A p \in Procs : pc[p] \in GetLocs /\ after[p] = "g_value" => Gets(p, on[p])
  BY DEF Gets
<1>2. ASSUME NEW p \in Procs, NEW f, Gets(p, f)
      PROVE  /\ f = SyncOf(p) \/ \E q \in Pids : f = ExitOf(q) /\ parent[q] = p /\ pidMap[q] = "set"
             /\ f \in live /\ f \in Futures
  <2>1. f = SyncOf(p) \/ \E q \in Pids : f = ExitOf(q) /\ parent[q] = p /\ pidMap[q] = "set"
    BY <1>2 DEF Placed, PlacedAt, Gets, Child
  <2>2. CASE f = SyncOf(p)
    BY <1>2, <2>2 DEF LiveExact
  <2>3. ASSUME NEW q \in Pids, f = ExitOf(q), parent[q] = p, pidMap[q] = "set"
        PROVE  f \in live /\ f \in Futures
    <3>1. pc[p] # "c_clear"
      BY <1>2 DEF Gets, GetLocs
    <3> QED BY <2>3, <3>1 DEF LiveExact
  <2> QED BY <2>1, <2>2, <2>3
<1>3. ASSUME NEW p \in Procs, NEW r \in Procs, NEW f, Gets(p, f), Gets(r, f) PROVE p = r
  <2>1. /\ f = SyncOf(p) \/ \E q \in Pids : f = ExitOf(q) /\ parent[q] = p
        /\ f = SyncOf(r) \/ \E q \in Pids : f = ExitOf(q) /\ parent[q] = r
    BY <1>2, <1>3
  <2> QED BY <2>1
<1> QED BY <1>1, <1>2, <1>3

\* Who sets a Future is its process, or the child of its process; the Future exists.
LEMMA SetterFacts ==
  ASSUME ProcTypeOK, Known, Placed, FuturesExact
  PROVE  /\ \A p \in Procs : pc[p] \in SetLocs /\ after[p] # "g_value" => Sets(p, on[p])
         /\ \A p \in Procs : \A f : Sets(p, f) => f \in live /\ f \in Futures
         /\ \A q \in Pids : pc[q] = "copy" => Sets(q, SyncOf(parent[q]))
<1> USE FutureFacts, ProcessFacts
<1>1. ASSUME NEW p \in Procs, pc[p] \in SetLocs, after[p] # "g_value" PROVE Sets(p, on[p])
  <2>1. p \in Pids /\ parent[p] \in Procs
    BY <1>1, ChildFacts
  <2>2. CASE after[p] = "run"
    BY <1>1, <2>1, <2>2 DEF Placed, PlacedAt, Sets
  <2>3. CASE after[p] = "dead"
    BY <1>1, <2>1, <2>3 DEF Placed, PlacedAt, Sets, SetLocs
  <2> QED BY <1>1, <2>2, <2>3 DEF ProcTypeOK
<1>2. ASSUME NEW p \in Procs, NEW f, Sets(p, f) PROVE f \in live /\ f \in Futures
  <2>1. p \in Pids /\ parent[p] \in Procs /\ (f = ExitOf(p) \/ f = SyncOf(parent[p]))
    BY <1>2 DEF Sets, ProcTypeOK
  <2>2. f \in Futures
    <3>1. CASE f = ExitOf(p)
      BY <2>1, <3>1
    <3>2. CASE f = SyncOf(parent[p])
      BY <2>1, <3>2
    <3> QED BY <2>1, <3>1, <3>2
  <2> QED BY <1>2, <2>2 DEF FuturesExact, FutureAt, Unset, Setting
<1>3. \A q \in Pids : pc[q] = "copy" => Sets(q, SyncOf(parent[q]))
  BY ChildFacts DEF Sets
<1> QED BY <1>1, <1>2, <1>3

\* The thread that up is about to schedule.
LEMMA WokenFacts ==
  ASSUME ProcInv, NEW p \in Procs, woken[p] # Nobody
  PROVE  /\ woken[p] \in Procs /\ woken[p] # p /\ pc[woken[p]] = "asleep"
         /\ Gets(woken[p], on[p]) /\ Sets(p, on[p]) /\ Signalled(p, on[p])
         /\ on[p] \in live /\ on[p] \in Futures /\ on[woken[p]] = on[p]
<1> USE DEF ProcInv
<1>1. pc[p] \in {"up_unlock", "up_sched"} /\ after[p] # "g_value"
  BY DEF Placed, PlacedAt
<1>2. Sets(p, on[p]) /\ Signalled(p, on[p])
  BY <1>1, SetterFacts DEF SetLocs, Signalled
<1>3. on[p] \in live /\ on[p] \in Futures
  BY <1>2, SetterFacts
<1>4. woken[p] \in Procs /\ Gets(woken[p], on[p]) /\ pc[woken[p]] = "asleep"
  BY <1>2, <1>3 DEF FuturesExact, FutureAt, Setting
<1> QED BY <1>1, <1>2, <1>3, <1>4 DEF Gets

\* What Known does not speak of may change.
LEMMA KnownKept ==
  ASSUME ProcInv, UNCHANGED <<pidC, pidMap, parent>>,
         \A q \in Procs : pc'[q] = "none" <=> pc[q] = "none",
         \A q \in Procs : pc[q] = "f_thread" => pc'[q] = "f_thread"
  PROVE  Known'
<1> USE ProcessFacts DEF ProcInv, Known
<1>1. \A q \in Pids : parent[q] # Nobody => parent[q] \in Procs
  BY DEF ProcTypeOK
<1> QED BY <1>1

\* Whom a call of wait or close names.
LEMMA CalledFacts ==
  ASSUME ProcInv, NEW p \in Procs, pc[p] \in {"w_null", "w_ptr", "c_null", "c_reset", "c_clear"}
  PROVE  /\ on[p][2] \in Pids /\ on[p][1] = "exit" /\ on[p] = ExitOf(on[p][2])
         /\ parent[on[p][2]] = p /\ pidMap[on[p][2]] # "none"
         /\ ExitOf(on[p][2]) \in Futures
         /\ pc[p] \in {"w_ptr", "c_reset", "c_clear"} => pidMap[on[p][2]] = "set"
<1>1. PICK q \in Pids : Child(p, q) /\ (pc[p] \in {"w_ptr", "c_reset", "c_clear"} => pidMap[q] = "set")
  BY DEF ProcInv, Placed, PlacedAt
<1>2. on[p][2] = q /\ on[p][1] = "exit" /\ on[p] = ExitOf(q) /\ q \in Procs /\ ExitOf(q) \in Futures
  BY <1>1, FutureFacts, ProcessFacts DEF Child
<1>3. parent[q] = p /\ pidMap[q] # "none"
  BY <1>1, ProcessFacts DEF Child, ProcInv, Known, ProcTypeOK
<1> QED BY <1>1, <1>2, <1>3

\* The processes that exist.
LEMMA KnownStep ==
  ASSUME ProcInv, NEW p \in Procs, Step(p)
  PROVE  Known'
<1> USE ProcessesAssumption
<1>1. CASE Fork(p)
  <2>1. /\ pidC + 1 \in Pids /\ pc[p] = "run"
        /\ pidC' = pidC + 1 /\ pidMap' = [pidMap EXCEPT ![pidC + 1] = "set"]
        /\ parent' = [parent EXCEPT ![pidC + 1] = p] /\ pc' = [pc EXCEPT ![p] = "f_thread"]
        /\ parent[pidC + 1] = Nobody /\ pc[pidC + 1] = "none"
    BY <1>1, ChildFacts DEF Fork, Goto, ProcInv
  <2>2. /\ parent'[First] = Nobody /\ pc'[First] # "none"
    BY <2>1, ProcessFacts DEF ProcInv, Known, ProcTypeOK
  <2>3. \A q \in Pids : q > pidC' <=> (q > pidC /\ q # pidC + 1)
    BY <2>1, ProcessFacts DEF ProcInv, ProcTypeOK
  <2>4. ASSUME NEW q \in Pids
        PROVE  /\ parent'[q] = Nobody <=> q > pidC'
               /\ parent'[q] = Nobody <=> pidMap'[q] = "none"
               /\ parent'[q] = Nobody => pc'[q] = "none"
    BY <2>1, <2>3, ProcessFacts DEF ProcInv, Known, ProcTypeOK
  <2>5. \A r \in Pids : parent[r] = p => pc[r] # "none"
    BY <2>1, ProcessFacts DEF ProcInv, Known, ProcTypeOK
  <2>6. \A r \in Pids : /\ pc'[r] = "none" <=> pc[r] = "none"
                        /\ parent'[r] = IF r = pidC + 1 THEN p ELSE parent[r]
    BY <2>1, ProcessFacts DEF ProcInv, ProcTypeOK
  <2>7. ASSUME NEW q \in Pids, parent'[q] # Nobody, pc'[q] = "none"
        PROVE  /\ pc'[parent'[q]] = "f_thread"
               /\ \A r \in Pids : pc'[r] = "none" /\ parent'[r] = parent'[q] => r = q
    <3>1. CASE q = pidC + 1
      BY <2>1, <2>5, <2>6, <3>1, ProcessFacts DEF ProcInv, ProcTypeOK
    <3>2. CASE q # pidC + 1
      <4>1. pc[q] = "none" /\ parent[q] # Nobody /\ parent[q] # p /\ parent'[q] = parent[q]
        BY <2>5, <2>6, <2>7, <3>2
      <4>2. /\ pc[parent[q]] = "f_thread" /\ parent[q] \in Procs
            /\ \A r \in Pids : pc[r] = "none" /\ parent[r] = parent[q] => r = q
        BY <4>1, ProcessFacts DEF ProcInv, Known, ProcTypeOK
      <4> QED BY <2>1, <2>6, <3>2, <4>1, <4>2 DEF ProcInv, ProcTypeOK
    <3> QED BY <3>1, <3>2
  <2> QED BY <2>2, <2>4, <2>7 DEF Known
<1>2. ASSUME NEW rc \in Codes, Exit(p, rc) PROVE Known'
  <2>1. /\ UNCHANGED <<pidC, pidMap, parent>>
        /\ \A q \in Procs : pc'[q] = "none" <=> pc[q] = "none"
        /\ \A q \in Procs : pc[q] = "f_thread" => pc'[q] = "f_thread"
    BY <1>2 DEF Exit, ProcInv, ProcTypeOK, Use, Goto, futVars, procVars
  <2> QED BY <2>1, KnownKept
<1>3. ASSUME NEW q \in Pids, Wait(p, q) PROVE Known'
  <2>1. /\ UNCHANGED <<pidC, pidMap, parent>>
        /\ \A r \in Procs : pc'[r] = "none" <=> pc[r] = "none"
        /\ \A r \in Procs : pc[r] = "f_thread" => pc'[r] = "f_thread"
    BY <1>3 DEF Wait, ProcInv, ProcTypeOK, Use, Goto, futVars, procVars
  <2> QED BY <2>1, KnownKept
<1>4. ASSUME NEW q \in Pids, CloseWaited(p, q) PROVE Known'
  <2>1. /\ UNCHANGED <<pidC, pidMap, parent>>
        /\ \A r \in Procs : pc'[r] = "none" <=> pc[r] = "none"
        /\ \A r \in Procs : pc[r] = "f_thread" => pc'[r] = "f_thread"
    BY <1>4 DEF CloseWaited, Close, ProcInv, ProcTypeOK, Use, Goto, futVars, procVars
  <2> QED BY <2>1, KnownKept
<1>5. CASE SetValue(p)
  <2>1. /\ UNCHANGED <<pidC, pidMap, parent>>
        /\ \A q \in Procs : pc'[q] = "none" <=> pc[q] = "none"
        /\ \A q \in Procs : pc[q] = "f_thread" => pc'[q] = "f_thread"
    BY <1>5 DEF SetValue, ProcInv, ProcTypeOK, Use, Goto, futVars, procVars
  <2> QED BY <2>1, KnownKept
<1>6. CASE UpWake(p)
  <2>1. /\ UNCHANGED <<pidC, pidMap, parent>>
        /\ \A q \in Procs : pc'[q] = "none" <=> pc[q] = "none"
        /\ \A q \in Procs : pc[q] = "f_thread" => pc'[q] = "f_thread"
    BY <1>6 DEF UpWake, ProcInv, ProcTypeOK, Use, Goto, futVars, procVars
  <2> QED BY <2>1, KnownKept
<1>7. CASE UpCount(p)
  <2>1. /\ UNCHANGED <<pidC, pidMap, parent>>
        /\ \A q \in Procs : pc'[q] = "none" <=> pc[q] = "none"
        /\ \A q \in Procs : pc[q] = "f_thread" => pc'[q] = "f_thread"
    BY <1>7 DEF UpCount, ProcInv, ProcTypeOK, Use, Goto, futVars, procVars
  <2> QED BY <2>1, KnownKept
<1>8. CASE UpUnlock(p)
  <2>1. /\ UNCHANGED <<pidC, pidMap, parent>>
        /\ \A q \in Procs : pc'[q] = "none" <=> pc[q] = "none"
        /\ \A q \in Procs : pc[q] = "f_thread" => pc'[q] = "f_thread"
    BY <1>8 DEF UpUnlock, ProcInv, ProcTypeOK, Use, Goto, futVars, procVars
  <2> QED BY <2>1, KnownKept
<1>9. CASE UpSchedule(p)
  <2>1. /\ UNCHANGED <<pidC, pidMap, parent>> /\ pc[p] = "up_sched"
        /\ pc' = [pc EXCEPT ![woken[p]] = "up", ![p] = after[p]]
    BY <1>9 DEF UpSchedule, procVars
  <2>2. /\ woken[p] \in Procs /\ pc[woken[p]] = "asleep"
        /\ after[p] \in {"run", "dead", "g_value"}
    <3>1. woken[p] # Nobody
      BY <2>1 DEF ProcInv, Placed, PlacedAt
    <3>2. woken[p] \in Procs /\ pc[woken[p]] = "asleep"
      BY <3>1, WokenFacts
    <3>3. after[p] \in {"run", "dead", "g_value"}
      BY DEF ProcInv, ProcTypeOK
    <3> QED BY <3>2, <3>3
  <2>3. /\ \A q \in Procs : pc'[q] = "none" <=> pc[q] = "none"
        /\ \A q \in Procs : pc[q] = "f_thread" => pc'[q] = "f_thread"
    BY <2>1, <2>2 DEF ProcInv, ProcTypeOK
  <2> QED BY <2>1, <2>3, KnownKept
<1>10. CASE DownTake(p)
  <2>1. /\ UNCHANGED <<pidC, pidMap, parent>>
        /\ \A q \in Procs : pc'[q] = "none" <=> pc[q] = "none"
        /\ \A q \in Procs : pc[q] = "f_thread" => pc'[q] = "f_thread"
    BY <1>10 DEF DownTake, ProcInv, ProcTypeOK, Use, Goto, futVars, procVars
  <2> QED BY <2>1, KnownKept
<1>11. CASE DownWait(p)
  <2>1. /\ UNCHANGED <<pidC, pidMap, parent>>
        /\ \A q \in Procs : pc'[q] = "none" <=> pc[q] = "none"
        /\ \A q \in Procs : pc[q] = "f_thread" => pc'[q] = "f_thread"
    BY <1>11 DEF DownWait, ProcInv, ProcTypeOK, Use, Goto, futVars, procVars
  <2> QED BY <2>1, KnownKept
<1>12. CASE DownUnlock(p)
  <2>1. /\ UNCHANGED <<pidC, pidMap, parent>>
        /\ \A q \in Procs : pc'[q] = "none" <=> pc[q] = "none"
        /\ \A q \in Procs : pc[q] = "f_thread" => pc'[q] = "f_thread"
    BY <1>12 DEF DownUnlock, ProcInv, ProcTypeOK, Use, Goto, futVars, procVars
  <2> QED BY <2>1, KnownKept
<1>13. CASE ForkThread(p)
  <2>1. PICK c \in Unborn(p) : pc' = [pc EXCEPT ![p] = "down", ![c] = "copy"]
    BY <1>13 DEF ForkThread
  <2>2. /\ c \in Pids /\ c # p /\ pc[p] = "f_thread" /\ pc[c] = "none" /\ parent[c] = p
        /\ UNCHANGED <<pidC, pidMap, parent>>
    BY <1>13, <2>1 DEF ForkThread, Unborn, procVars
  <2>3. \A q \in Pids : pc'[q] = "none" <=> pc[q] = "none" /\ q # c
    BY <2>1, <2>2, ProcessFacts DEF ProcInv, ProcTypeOK
  <2>4. parent[c] # Nobody
    BY <2>2, ProcessFacts DEF ProcInv, Known
  <2>5. \A q \in Pids : pc[q] = "none" /\ parent[q] = p => q = c
    BY <2>2, <2>4 DEF ProcInv, Known
  <2>6. \A q \in Pids : parent[q] # Nobody => parent[q] \in Procs
    BY ProcessFacts DEF ProcInv, ProcTypeOK
  <2>7. \A r \in Procs : r # p /\ pc[r] = "f_thread" => pc'[r] = "f_thread"
    BY <2>1, <2>2, ProcessFacts DEF ProcInv, ProcTypeOK
  <2>8. pc'[First] # "none"
    BY <2>1, <2>2, ProcessFacts DEF ProcInv, ProcTypeOK, Known
  <2>9. ASSUME NEW q \in Pids, parent[q] # Nobody, pc[q] = "none", q # c
        PROVE  pc'[parent[q]] = "f_thread"
    BY <2>5, <2>6, <2>7, <2>9 DEF ProcInv, Known
  <2>10. ASSUME NEW q \in Pids
         PROVE  /\ parent[q] = Nobody <=> q > pidC
                /\ parent[q] = Nobody <=> pidMap[q] = "none"
                /\ parent[q] = Nobody => pc'[q] = "none"
    BY <2>2, <2>3, <2>4 DEF ProcInv, Known
  <2>11. ASSUME NEW q \in Pids, NEW r \in Pids, parent[q] # Nobody, pc'[q] = "none",
                pc'[r] = "none", parent[r] = parent[q]
         PROVE  r = q
    BY <2>3, <2>11 DEF ProcInv, Known
  <2>12. parent[First] = Nobody
    BY DEF ProcInv, Known
  <2> QED BY <2>2, <2>3, <2>8, <2>9, <2>10, <2>11, <2>12 DEF Known
<1>14. CASE CopyDone(p)
  <2>1. /\ UNCHANGED <<pidC, pidMap, parent>>
        /\ \A q \in Procs : pc'[q] = "none" <=> pc[q] = "none"
        /\ \A q \in Procs : pc[q] = "f_thread" => pc'[q] = "f_thread"
    BY <1>14 DEF CopyDone, ProcInv, ProcTypeOK, Use, Goto, futVars, procVars
  <2> QED BY <2>1, KnownKept
<1>15. CASE ForkReturn(p)
  <2>1. /\ UNCHANGED <<pidC, pidMap, parent>>
        /\ \A q \in Procs : pc'[q] = "none" <=> pc[q] = "none"
        /\ \A q \in Procs : pc[q] = "f_thread" => pc'[q] = "f_thread"
    BY <1>15 DEF ForkReturn, ProcInv, ProcTypeOK, Use, Goto, futVars, procVars
  <2> QED BY <2>1, KnownKept
<1>16. CASE ExitPointer(p)
  <2>1. /\ UNCHANGED <<pidC, pidMap, parent>>
        /\ \A q \in Procs : pc'[q] = "none" <=> pc[q] = "none"
        /\ \A q \in Procs : pc[q] = "f_thread" => pc'[q] = "f_thread"
    BY <1>16 DEF ExitPointer, ProcInv, ProcTypeOK, Use, Goto, futVars, procVars
  <2> QED BY <2>1, KnownKept
<1>17. CASE WaitNull(p)
  <2>1. /\ UNCHANGED <<pidC, pidMap, parent>>
        /\ \A q \in Procs : pc'[q] = "none" <=> pc[q] = "none"
        /\ \A q \in Procs : pc[q] = "f_thread" => pc'[q] = "f_thread"
    BY <1>17 DEF WaitNull, ProcInv, ProcTypeOK, Use, Goto, futVars, procVars
  <2> QED BY <2>1, KnownKept
<1>18. CASE WaitPointer(p)
  <2>1. /\ UNCHANGED <<pidC, pidMap, parent>>
        /\ \A q \in Procs : pc'[q] = "none" <=> pc[q] = "none"
        /\ \A q \in Procs : pc[q] = "f_thread" => pc'[q] = "f_thread"
    BY <1>18 DEF WaitPointer, ProcInv, ProcTypeOK, Use, Goto, futVars, procVars
  <2> QED BY <2>1, KnownKept
<1>19. CASE WaitReturn(p)
  <2>1. /\ UNCHANGED <<pidC, pidMap, parent>>
        /\ \A q \in Procs : pc'[q] = "none" <=> pc[q] = "none"
        /\ \A q \in Procs : pc[q] = "f_thread" => pc'[q] = "f_thread"
    BY <1>19 DEF WaitReturn, ProcInv, ProcTypeOK, Use, Goto, futVars, procVars
  <2> QED BY <2>1, KnownKept
<1>20. CASE CloseNull(p)
  <2>1. /\ UNCHANGED <<pidC, pidMap, parent>>
        /\ \A q \in Procs : pc'[q] = "none" <=> pc[q] = "none"
        /\ \A q \in Procs : pc[q] = "f_thread" => pc'[q] = "f_thread"
    BY <1>20 DEF CloseNull, ProcInv, ProcTypeOK, Use, Goto, futVars, procVars
  <2> QED BY <2>1, KnownKept
<1>21. CASE CloseReset(p)
  <2>1. /\ UNCHANGED <<pidC, pidMap, parent>>
        /\ \A q \in Procs : pc'[q] = "none" <=> pc[q] = "none"
        /\ \A q \in Procs : pc[q] = "f_thread" => pc'[q] = "f_thread"
    BY <1>21 DEF CloseReset, ProcInv, ProcTypeOK, Use, Goto, futVars, procVars
  <2> QED BY <2>1, KnownKept
<1>22. CASE CloseClear(p)
  <2>1. /\ on[p][2] \in Pids /\ pidMap[on[p][2]] # "none" /\ pc[p] = "c_clear"
        /\ pidMap' = [pidMap EXCEPT ![on[p][2]] = "null"] /\ UNCHANGED <<pidC, parent>>
        /\ pc' = [pc EXCEPT ![p] = "run"]
    BY <1>22, CalledFacts DEF CloseClear, Goto, procVars
  <2>2. /\ \A q \in Pids : pidMap'[q] = "none" <=> pidMap[q] = "none"
        /\ \A q \in Procs : pc'[q] = "none" <=> pc[q] = "none"
        /\ \A q \in Procs : pc[q] = "f_thread" => pc'[q] = "f_thread"
        /\ \A q \in Pids : parent[q] # Nobody => parent[q] \in Procs
    BY <2>1, ProcessFacts DEF ProcInv, ProcTypeOK, Known
  <2> QED BY <2>1, <2>2, ProcessFacts DEF ProcInv, Known
<1> QED BY <1>1, <1>2, <1>3, <1>4, <1>5, <1>6, <1>7, <1>8, <1>9, <1>10, <1>11,
  <1>12, <1>13, <1>14, <1>15, <1>16, <1>17, <1>18, <1>19, <1>20, <1>21, <1>22
  DEF Step, Call, Kernel

-----------------------------------------------------------------------------
(* What a step leaves alone *)

\* Process r does not move; it does with Future f what it did.
Same(r) ==
  pc'[r] = pc[r] /\ on'[r] = on[r] /\ after'[r] = after[r] /\ woken'[r] = woken[r] /\ code'[r] = code[r]

SameView(r, f) ==
  /\ Gets(r, f)' <=> Gets(r, f)
  /\ Sets(r, f)' <=> Sets(r, f)
  /\ Signalled(r, f)' <=> Signalled(r, f)
  /\ Gets(r, f) => pc'[r] = pc[r]
  /\ Sets(r, f) /\ Signalled(r, f) => woken'[r] = woken[r]

\* Where a process is does not change when it does not move and its calls do not.
LEMMA PlacedKept ==
  ASSUME ProcInv, NEW r \in Procs, Same(r),
         pc[r] # "none" => parent'[r] = parent[r],
         \A q \in Pids : parent[q] = r =>
           parent'[q] = r /\ pidMap'[q] = pidMap[q] /\ status'[r][q] = status[r][q]
  PROVE  PlacedAt(r)'
<1> USE DEF ProcInv, Placed, PlacedAt, Child, Same
<1>1. PlacedAt(r)
  OBVIOUS
<1>2. \A q \in Pids : Child(r, q) => Child(r, q)'
  OBVIOUS
<1>3. ASSUME NEW q \in Pids, Child(r, q)
      PROVE  Child(r, q)' /\ pidMap'[q] = pidMap[q] /\ status'[r][q] = status[r][q]
  BY <1>3
<1>4. pc[r] \in {"copy", "e_ptr"} \cup SetLocs => parent'[r] = parent[r]
  BY DEF SetLocs
<1> HIDE DEF Child
<1> QED BY <1>1, <1>3, <1>4 DEF SetLocs, GetLocs

\* A process that does not move does what it did with every Future.
LEMMA SameViews ==
  ASSUME NEW r \in Procs, Same(r), parent'[r] = parent[r], NEW f
  PROVE  SameView(r, f) /\ (Holds(r, f)' <=> Holds(r, f))
BY DEF Same, SameView, Gets, Sets, Signalled, Holds

\* A Future is as it was when its memory is and its processes do what they did.
LEMMA FutureKept ==
  ASSUME NEW f \in Futures, FutureAt(f), f \in live' <=> f \in live,
         count'[f] = count[f], waiting'[f] = waiting[f], \A r \in Procs : SameView(r, f)
  PROVE  FutureAt(f)'
<1> USE DEF SameView
<1>1. Unset(f)'
  BY DEF FutureAt, Unset
<1>2. Setting(f)'
  <2> SUFFICES ASSUME NEW q \in Procs, Sets(q, f)', Signalled(q, f)'
               PROVE  /\ f \in live' /\ waiting'[f] = << >>
                      /\ \/ /\ woken'[q] = Nobody /\ count'[f] = 1
                            /\ \A p \in Procs : Gets(p, f)' => pc'[p] = "down"
                         \/ /\ woken'[q] \in Procs /\ count'[f] = 0
                            /\ Gets(woken[q], f)' /\ pc'[woken'[q]] = "asleep"
                            /\ woken'[q] = woken[q]
    BY DEF Setting
  <2>1. Sets(q, f) /\ Signalled(q, f) /\ woken'[q] = woken[q]
    OBVIOUS
  <2> QED BY <2>1 DEF FutureAt, Setting
<1>3. IsSet(f)'
  BY DEF FutureAt, IsSet
<1> QED BY <1>1, <1>2, <1>3 DEF FutureAt

\* Which Futures exist does not change when nobody begins or ends with one.
LEMMA LiveKept ==
  ASSUME ProcInv, UNCHANGED <<live, pidMap, parent>>,
         \A r \in Procs : Gets(r, SyncOf(r))' <=> Gets(r, SyncOf(r)),
         \A r \in Procs : pc'[r] = "c_clear" <=> pc[r] = "c_clear",
         \A r \in Procs : pc[r] = "c_clear" => on'[r] = on[r]
  PROVE  LiveExact'
<1>1. ASSUME NEW r \in Procs PROVE SyncOf(r) \in live' <=> Gets(r, SyncOf(r))'
  BY DEF ProcInv, LiveExact
<1>2. ASSUME NEW q \in Pids
      PROVE  ExitOf(q) \in live' <=>
               pidMap'[q] = "set" /\ ~(pc'[parent'[q]] = "c_clear" /\ on'[parent'[q]] = ExitOf(q))
  <2>1. pidMap[q] = "set" => parent[q] \in Procs
    BY ProcessFacts DEF ProcInv, Known, ProcTypeOK
  <2> QED BY <2>1 DEF ProcInv, LiveExact
<1> QED BY <1>1, <1>2 DEF LiveExact, SyncOf, ExitOf

\* The locks.
LEMMA LockKept ==
  ASSUME ProcInv, \A r \in Procs, f \in Futures : Holds(r, f)' <=> Holds(r, f),
         UNCHANGED taken
  PROVE  LockOne'
BY DEF ProcInv, LockOne

\* Who takes a lock that is free is the only one to hold it.
LEMMA LockTaken ==
  ASSUME ProcInv, NEW p \in Procs, NEW f \in Futures, ~taken[f], taken' = [taken EXCEPT ![f] = TRUE],
         \A r \in Procs, g \in Futures : Holds(r, g)' => Holds(r, g) \/ (r = p /\ g = f)
  PROVE  LockOne'
BY DEF ProcInv, LockOne, ProcTypeOK

\* Who gives a lock back leaves nobody with it.
LEMMA LockGiven ==
  ASSUME ProcInv, NEW p \in Procs, NEW f \in Futures, Holds(p, f), taken' = [taken EXCEPT ![f] = FALSE],
         \A r \in Procs, g \in Futures : Holds(r, g)' => Holds(r, g) /\ r # p
  PROVE  LockOne'
BY DEF ProcInv, LockOne, ProcTypeOK

\* Nobody begins to set a Future.
LEMMA SettersKept ==
  ASSUME ProcInv, \A r \in Procs, f \in Futures : Sets(r, f)' => Sets(r, f)
  PROVE  OneSetter'
BY DEF ProcInv, OneSetter

\* What exits have left behind.
LEMMA ExitsKept ==
  ASSUME ProcInv, UNCHANGED <<value, parent, pidMap, status>>,
         \A r \in Pids : /\ Ends(r)' => Ends(r)
                         /\ Ends(r) => code'[r] = code[r]
                         /\ pc[r] = "dead" => pc'[r] = "dead"
  PROVE  ExitKept'
<1> USE DEF ProcInv, ExitKept
<1>1. ASSUME NEW q \in Pids, Ends(q)' PROVE value'[ExitOf(q)] = code'[q]
  BY <1>1, ProcessFacts
<1>2. ASSUME NEW q \in Pids, pidMap'[q] = "null" PROVE status'[parent'[q]][q] # NoCode
  BY <1>2
<1>3. ASSUME NEW q \in Pids, NEW r \in Procs, status'[r][q] # NoCode
      PROVE  parent'[q] = r /\ pc'[q] = "dead" /\ status'[r][q] = code'[q]
  <2>1. parent[q] = r /\ pc[q] = "dead" /\ status[r][q] = code[q]
    BY <1>3
  <2>2. Ends(q)
    BY <2>1 DEF Ends
  <2> QED BY <2>1, <2>2, ProcessFacts
<1> QED BY <1>1, <1>2, <1>3 DEF ExitOf

-----------------------------------------------------------------------------
(* Steps that leave every Future as it was *)

\* set writes the value.
LEMMA SetValueKeeps ==
  ASSUME ProcInv, NEW p \in Procs, SetValue(p)
  PROVE  (Placed /\ LiveExact /\ LockOne /\ FuturesExact /\ OneSetter /\ ExitKept)'
<1> USE ProcessesAssumption
<1>1. /\ UNCHANGED <<pidC, pidMap, live, count, waiting, taken, parent, status>>
      /\ pc[p] = "s_value" /\ pc'[p] = "up" /\ value' = [value EXCEPT ![on[p]] = code[p]]
      /\ on'[p] = on[p] /\ after'[p] = after[p] /\ woken'[p] = woken[p] /\ code'[p] = code[p]
      /\ \A r \in Procs : r # p => Same(r)
  BY DEF SetValue, ProcInv, ProcTypeOK, Use, Goto, futVars, procVars, Same
<1>2. PlacedAt(p) /\ Placed
  BY DEF ProcInv, Placed
<1>3. ASSUME NEW f PROVE SameView(p, f) /\ (Holds(p, f)' <=> Holds(p, f))
  BY <1>1, <1>2 DEF SameView, Gets, Sets, Signalled, Holds, GetLocs, SetLocs, PlacedAt
<1>4. \A r \in Procs : \A f : SameView(r, f) /\ (Holds(r, f)' <=> Holds(r, f))
  BY <1>1, <1>3, SameViews
<1>5. PlacedAt(p)'
  BY <1>1, <1>2 DEF PlacedAt, Child, GetLocs, SetLocs
<1>6. Placed'
  BY <1>1, <1>5, PlacedKept DEF Placed
<1>7. LiveExact'
  BY <1>1, <1>4, LiveKept DEF Same, SameView
<1>8. LockOne'
  BY <1>1, <1>4, LockKept
<1>9. FuturesExact'
  BY <1>1, <1>4, FutureKept DEF ProcInv, FuturesExact
<1>10. OneSetter'
  BY <1>4, SettersKept DEF SameView
<1>11. ExitKept'
  <2>1. \A q \in Pids : value'[ExitOf(q)] = IF on[p] = ExitOf(q) THEN code[p] ELSE value[ExitOf(q)]
    BY <1>1, FutureFacts, ProcessFacts DEF ProcInv, ProcTypeOK
  <2>2. /\ \A q \in Pids : on[p] = ExitOf(q) => q = p
        /\ after[p] = "dead" => on[p] = ExitOf(p)
    <3>1. after[p] \in {"run", "dead"}
      BY <1>1, <1>2 DEF PlacedAt, ProcInv, ProcTypeOK
    <3> QED BY <1>1, <1>2, <3>1, FutureFacts DEF PlacedAt, SetLocs
  <2>3. ASSUME NEW q \in Pids, Ends(q)' PROVE value'[ExitOf(q)] = code'[q]
    <3>1. CASE q = p
      BY <1>1, <2>1, <2>2, <2>3, <3>1 DEF Ends
    <3>2. CASE q # p
      BY <1>1, <2>1, <2>2, <2>3, <3>2, ProcessFacts DEF Ends, Same, ProcInv, ExitKept
    <3> QED BY <3>1, <3>2
  <2>4. ASSUME NEW q \in Pids, NEW r \in Procs, status[r][q] # NoCode
        PROVE  parent[q] = r /\ pc'[q] = "dead" /\ status[r][q] = code'[q]
    BY <1>1, <2>4, ProcessFacts DEF Same, ProcInv, ExitKept
  <2>5. \A q \in Pids : pidMap[q] = "null" => status[parent[q]][q] # NoCode
    BY DEF ProcInv, ExitKept
  <2> QED BY <1>1, <2>3, <2>4, <2>5 DEF ExitKept, ExitOf
<1> QED BY <1>6, <1>7, <1>8, <1>9, <1>10, <1>11

\* wait looks up the child.
LEMMA WaitKeeps ==
  ASSUME ProcInv, NEW p \in Procs, NEW q \in Pids, Wait(p, q)
  PROVE  (Placed /\ LiveExact /\ LockOne /\ FuturesExact /\ OneSetter /\ ExitKept)'
<1> USE ProcessesAssumption
<1>1. /\ UNCHANGED <<pidC, pidMap, live, count, waiting, taken, parent, status>>
      /\ pc[p] = "run" /\ pc'[p] = "w_null" /\ parent[q] = p /\ on'[p] = ExitOf(q)
      /\ after'[p] = "g_value" /\ woken'[p] = woken[p] /\ code'[p] = code[p] /\ UNCHANGED value
      /\ \A r \in Procs : r # p => Same(r)
  BY DEF Wait, ProcInv, ProcTypeOK, Use, Goto, futVars, procVars, Same
<1>2. PlacedAt(p) /\ Placed
  BY DEF ProcInv, Placed
<1>3. ASSUME NEW f PROVE SameView(p, f) /\ (Holds(p, f)' <=> Holds(p, f))
  BY <1>1, <1>2 DEF SameView, Gets, Sets, Signalled, Holds, GetLocs, SetLocs, PlacedAt
<1>4. \A r \in Procs : \A f : SameView(r, f) /\ (Holds(r, f)' <=> Holds(r, f))
  BY <1>1, <1>3, SameViews
<1>5. PlacedAt(p)'
  BY <1>1, <1>2 DEF PlacedAt, Child, GetLocs, SetLocs
<1>6. Placed'
  BY <1>1, <1>5, PlacedKept DEF Placed
<1>7. LiveExact'
  BY <1>1, <1>4, LiveKept DEF Same, SameView
<1>8. LockOne'
  BY <1>1, <1>4, LockKept
<1>9. FuturesExact'
  BY <1>1, <1>4, FutureKept DEF ProcInv, FuturesExact
<1>10. OneSetter'
  BY <1>4, SettersKept DEF SameView
<1>11. ExitKept'
  BY <1>1, ExitsKept, ProcessFacts DEF Ends, Same, SetLocs
<1> QED BY <1>6, <1>7, <1>8, <1>9, <1>10, <1>11

\* close looks up the child.
LEMMA CloseWaitedKeeps ==
  ASSUME ProcInv, NEW p \in Procs, NEW q \in Pids, CloseWaited(p, q)
  PROVE  (Placed /\ LiveExact /\ LockOne /\ FuturesExact /\ OneSetter /\ ExitKept)'
<1> USE ProcessesAssumption
<1>1. /\ UNCHANGED <<pidC, pidMap, live, count, waiting, taken, parent, status>>
      /\ pc[p] = "run" /\ pc'[p] = "c_null" /\ parent[q] = p /\ on'[p] = ExitOf(q)
      /\ status[p][q] # NoCode
      /\ after'[p] = "run" /\ woken'[p] = woken[p] /\ code'[p] = code[p] /\ UNCHANGED value
      /\ \A r \in Procs : r # p => Same(r)
  BY DEF CloseWaited, Close, ProcInv, ProcTypeOK, Use, Goto, futVars, procVars, Same
<1>2. PlacedAt(p) /\ Placed
  BY DEF ProcInv, Placed
<1>3. ASSUME NEW f PROVE SameView(p, f) /\ (Holds(p, f)' <=> Holds(p, f))
  BY <1>1, <1>2 DEF SameView, Gets, Sets, Signalled, Holds, GetLocs, SetLocs, PlacedAt
<1>4. \A r \in Procs : \A f : SameView(r, f) /\ (Holds(r, f)' <=> Holds(r, f))
  BY <1>1, <1>3, SameViews
<1>5. PlacedAt(p)'
  BY <1>1, <1>2 DEF PlacedAt, Child, GetLocs, SetLocs
<1>6. Placed'
  BY <1>1, <1>5, PlacedKept DEF Placed
<1>7. LiveExact'
  BY <1>1, <1>4, LiveKept DEF Same, SameView
<1>8. LockOne'
  BY <1>1, <1>4, LockKept
<1>9. FuturesExact'
  BY <1>1, <1>4, FutureKept DEF ProcInv, FuturesExact
<1>10. OneSetter'
  BY <1>4, SettersKept DEF SameView
<1>11. ExitKept'
  BY <1>1, ExitsKept, ProcessFacts DEF Ends, Same, SetLocs
<1> QED BY <1>6, <1>7, <1>8, <1>9, <1>10, <1>11

\* wait finds the pointer null, or reads on.
LEMMA WaitNullKeeps ==
  ASSUME ProcInv, NEW p \in Procs, WaitNull(p)
  PROVE  (Placed /\ LiveExact /\ LockOne /\ FuturesExact /\ OneSetter /\ ExitKept)'
<1> USE ProcessesAssumption
<1>1. /\ UNCHANGED <<pidC, pidMap, live, count, waiting, taken, parent, status>>
      /\ pc[p] = "w_null" /\ pc'[p] = IF pidMap[on[p][2]] = "null" THEN "run" ELSE "w_ptr"
      /\ on'[p] = on[p] /\ after'[p] = after[p] /\ woken'[p] = woken[p] /\ code'[p] = code[p]
      /\ UNCHANGED value
      /\ \A r \in Procs : r # p => Same(r)
  BY DEF WaitNull, ProcInv, ProcTypeOK, Use, Goto, futVars, procVars, Same
<1>2. PlacedAt(p) /\ Placed
  BY DEF ProcInv, Placed
<1>3. ASSUME NEW f PROVE SameView(p, f) /\ (Holds(p, f)' <=> Holds(p, f))
  BY <1>1, <1>2 DEF SameView, Gets, Sets, Signalled, Holds, GetLocs, SetLocs, PlacedAt
<1>4. \A r \in Procs : \A f : SameView(r, f) /\ (Holds(r, f)' <=> Holds(r, f))
  BY <1>1, <1>3, SameViews
<1>5. PlacedAt(p)'
  <2>1. PICK q \in Pids : Child(p, q) /\ q = on[p][2] /\ pidMap[q] # "none"
    BY <1>1, <1>2, CalledFacts, FutureFacts DEF PlacedAt, Child
  <2>2. pidMap[q] \in {"none", "set", "null"}
    BY DEF ProcInv, ProcTypeOK
  <2>3. Child(p, q)' /\ pidMap'[q] = pidMap[q] /\ status' = status
    BY <1>1, <2>1 DEF Child
  <2> QED BY <1>1, <1>2, <2>1, <2>2, <2>3 DEF PlacedAt, GetLocs, SetLocs
<1>6. Placed'
  BY <1>1, <1>5, PlacedKept DEF Placed
<1>7. LiveExact'
  BY <1>1, <1>4, LiveKept DEF Same, SameView
<1>8. LockOne'
  BY <1>1, <1>4, LockKept
<1>9. FuturesExact'
  BY <1>1, <1>4, FutureKept DEF ProcInv, FuturesExact
<1>10. OneSetter'
  BY <1>4, SettersKept DEF SameView
<1>11. ExitKept'
  BY <1>1, ExitsKept, ProcessFacts DEF Ends, Same, SetLocs
<1> QED BY <1>6, <1>7, <1>8, <1>9, <1>10, <1>11

\* close finds the pointer null, or goes on.
LEMMA CloseNullKeeps ==
  ASSUME ProcInv, NEW p \in Procs, CloseNull(p)
  PROVE  (Placed /\ LiveExact /\ LockOne /\ FuturesExact /\ OneSetter /\ ExitKept)'
<1> USE ProcessesAssumption
<1>1. /\ UNCHANGED <<pidC, pidMap, live, count, waiting, taken, parent, status>>
      /\ pc[p] = "c_null" /\ pc'[p] = IF pidMap[on[p][2]] = "null" THEN "run" ELSE "c_reset"
      /\ on'[p] = on[p] /\ after'[p] = after[p] /\ woken'[p] = woken[p] /\ code'[p] = code[p]
      /\ UNCHANGED value
      /\ \A r \in Procs : r # p => Same(r)
  BY DEF CloseNull, ProcInv, ProcTypeOK, Use, Goto, futVars, procVars, Same
<1>2. PlacedAt(p) /\ Placed
  BY DEF ProcInv, Placed
<1>3. ASSUME NEW f PROVE SameView(p, f) /\ (Holds(p, f)' <=> Holds(p, f))
  BY <1>1, <1>2 DEF SameView, Gets, Sets, Signalled, Holds, GetLocs, SetLocs, PlacedAt
<1>4. \A r \in Procs : \A f : SameView(r, f) /\ (Holds(r, f)' <=> Holds(r, f))
  BY <1>1, <1>3, SameViews
<1>5. PlacedAt(p)'
  <2>1. PICK q \in Pids : Child(p, q) /\ q = on[p][2] /\ pidMap[q] # "none" /\ status[p][q] # NoCode
    BY <1>1, <1>2, CalledFacts, FutureFacts DEF PlacedAt, Child
  <2>2. pidMap[q] \in {"none", "set", "null"}
    BY DEF ProcInv, ProcTypeOK
  <2>3. Child(p, q)' /\ pidMap'[q] = pidMap[q] /\ status' = status
    BY <1>1, <2>1 DEF Child
  <2> QED BY <1>1, <1>2, <2>1, <2>2, <2>3 DEF PlacedAt, GetLocs, SetLocs
<1>6. Placed'
  BY <1>1, <1>5, PlacedKept DEF Placed
<1>7. LiveExact'
  BY <1>1, <1>4, LiveKept DEF Same, SameView
<1>8. LockOne'
  BY <1>1, <1>4, LockKept
<1>9. FuturesExact'
  BY <1>1, <1>4, FutureKept DEF ProcInv, FuturesExact
<1>10. OneSetter'
  BY <1>4, SettersKept DEF SameView
<1>11. ExitKept'
  BY <1>1, ExitsKept, ProcessFacts DEF Ends, Same, SetLocs
<1> QED BY <1>6, <1>7, <1>8, <1>9, <1>10, <1>11

\* The child is about to let its parent go.
LEMMA CopyDoneKeeps ==
  ASSUME ProcInv, NEW p \in Procs, CopyDone(p)
  PROVE  (Placed /\ LiveExact /\ LockOne /\ FuturesExact /\ OneSetter /\ ExitKept)'
<1> USE ProcessesAssumption
<1>1. /\ UNCHANGED <<pidC, pidMap, live, count, waiting, taken, parent, status>>
      /\ pc[p] = "copy" /\ pc'[p] = "s_value" /\ on'[p] = SyncOf(parent[p])
      /\ after'[p] = "run" /\ woken'[p] = woken[p] /\ code'[p] = code[p] /\ UNCHANGED value
      /\ \A r \in Procs : r # p => Same(r)
  BY DEF CopyDone, ProcInv, ProcTypeOK, Use, Goto, futVars, procVars, Same
<1>2. PlacedAt(p) /\ Placed
  BY DEF ProcInv, Placed
<1>3. ASSUME NEW f PROVE SameView(p, f) /\ (Holds(p, f)' <=> Holds(p, f))
  BY <1>1, <1>2 DEF SameView, Gets, Sets, Signalled, Holds, GetLocs, SetLocs, PlacedAt
<1>4. \A r \in Procs : \A f : SameView(r, f) /\ (Holds(r, f)' <=> Holds(r, f))
  BY <1>1, <1>3, SameViews
<1>5. PlacedAt(p)'
  BY <1>1, <1>2 DEF PlacedAt, Child, GetLocs, SetLocs
<1>6. Placed'
  BY <1>1, <1>5, PlacedKept DEF Placed
<1>7. LiveExact'
  BY <1>1, <1>4, LiveKept DEF Same, SameView
<1>8. LockOne'
  BY <1>1, <1>4, LockKept
<1>9. FuturesExact'
  BY <1>1, <1>4, FutureKept DEF ProcInv, FuturesExact
<1>10. OneSetter'
  BY <1>4, SettersKept DEF SameView
<1>11. ExitKept'
  BY <1>1, ExitsKept, ProcessFacts DEF Ends, Same, SetLocs
<1> QED BY <1>6, <1>7, <1>8, <1>9, <1>10, <1>11

\* exit begins.
LEMMA ExitKeeps ==
  ASSUME ProcInv, NEW p \in Procs, NEW rc \in Codes, Exit(p, rc)
  PROVE  (Placed /\ LiveExact /\ LockOne /\ FuturesExact /\ OneSetter /\ ExitKept)'
<1> USE ProcessesAssumption
<1>1. /\ UNCHANGED <<pidC, pidMap, live, count, waiting, taken, parent, status>>
      /\ pc[p] = "run" /\ pc'[p] = (IF p = First THEN "dead" ELSE "e_ptr") /\ code'[p] = rc
      /\ on'[p] = on[p] /\ after'[p] = after[p] /\ woken'[p] = woken[p] /\ UNCHANGED value
      /\ \A r \in Procs : r # p => Same(r)
  BY DEF Exit, ProcInv, ProcTypeOK, Use, Goto, futVars, procVars, Same
<1>2. PlacedAt(p) /\ Placed
  BY DEF ProcInv, Placed
<1>3. ASSUME NEW f PROVE SameView(p, f) /\ (Holds(p, f)' <=> Holds(p, f))
  BY <1>1, <1>2, ProcessFacts DEF SameView, Gets, Sets, Signalled, Holds, GetLocs, SetLocs, PlacedAt
<1>4. \A r \in Procs : \A f : SameView(r, f) /\ (Holds(r, f)' <=> Holds(r, f))
  BY <1>1, <1>3, SameViews
<1>5. PlacedAt(p)'
  BY <1>1, <1>2 DEF PlacedAt, Child, GetLocs, SetLocs
<1>6. Placed'
  BY <1>1, <1>5, PlacedKept DEF Placed
<1>7. LiveExact'
  BY <1>1, <1>4, LiveKept DEF Same, SameView
<1>8. LockOne'
  BY <1>1, <1>4, LockKept
<1>9. FuturesExact'
  BY <1>1, <1>4, FutureKept DEF ProcInv, FuturesExact
<1>10. OneSetter'
  BY <1>4, SettersKept DEF SameView
<1>11. ExitKept'
  BY <1>1, ExitsKept, ProcessFacts DEF Ends, Same, SetLocs
<1> QED BY <1>6, <1>7, <1>8, <1>9, <1>10, <1>11

\* exit reads the pointer: it is not null.
LEMMA ExitPointerKeeps ==
  ASSUME ProcInv, NEW p \in Procs, ExitPointer(p)
  PROVE  (Placed /\ LiveExact /\ LockOne /\ FuturesExact /\ OneSetter /\ ExitKept)'
<1> USE ProcessesAssumption
<1>1. /\ UNCHANGED <<pidC, pidMap, live, count, waiting, taken, parent, status>>
      /\ pc[p] = "e_ptr" /\ pc'[p] = "s_value" /\ on'[p] = Pointer(p)
      /\ after'[p] = "dead" /\ woken'[p] = woken[p] /\ code'[p] = code[p] /\ UNCHANGED value
      /\ \A r \in Procs : r # p => Same(r)
  BY DEF ExitPointer, ProcInv, ProcTypeOK, Use, Goto, futVars, procVars, Same
<1>2. PlacedAt(p) /\ Placed
  BY DEF ProcInv, Placed
<1>a. p \in Pids /\ pidMap[p] = "set"
  <2>1. p \in Pids /\ parent[p] \in Procs
    BY <1>1, ChildFacts DEF ProcInv
  <2>2. pidMap[p] \in {"none", "set", "null"} /\ pidMap[p] # "none"
    BY <2>1, ProcessFacts DEF ProcInv, Known, ProcTypeOK
  <2>3. pidMap[p] # "null"
    BY <1>1, <2>1 DEF ProcInv, ExitKept
  <2> QED BY <2>1, <2>2, <2>3
<1>3. ASSUME NEW f PROVE SameView(p, f) /\ (Holds(p, f)' <=> Holds(p, f))
  BY <1>1, <1>2 DEF SameView, Gets, Sets, Signalled, Holds, GetLocs, SetLocs, PlacedAt
<1>4. \A r \in Procs : \A f : SameView(r, f) /\ (Holds(r, f)' <=> Holds(r, f))
  BY <1>1, <1>3, SameViews
<1>5. PlacedAt(p)'
  <2>1. on'[p] = ExitOf(p)
    BY <1>1, <1>a DEF Pointer
  <2> QED BY <1>1, <1>2, <1>a, <2>1, ProcessFacts DEF PlacedAt, Child, GetLocs, SetLocs
<1>6. Placed'
  BY <1>1, <1>5, PlacedKept DEF Placed
<1>7. LiveExact'
  BY <1>1, <1>4, LiveKept DEF Same, SameView
<1>8. LockOne'
  BY <1>1, <1>4, LockKept
<1>9. FuturesExact'
  BY <1>1, <1>4, FutureKept DEF ProcInv, FuturesExact
<1>10. OneSetter'
  BY <1>4, SettersKept DEF SameView
<1>11. ExitKept'
  BY <1>1, ExitsKept, ProcessFacts DEF Ends, Same, SetLocs
<1> QED BY <1>6, <1>7, <1>8, <1>9, <1>10, <1>11

-----------------------------------------------------------------------------
(* Steps of up and down *)

\* The Future that a thread is about to touch.
LEMMA TouchedFacts ==
  ASSUME ProcInv, NEW p \in Procs, pc[p] \in Touching \cup {"asleep", "up_sched"}
  PROVE  /\ on[p] \in live /\ on[p] \in Futures
         /\ after[p] = "g_value" => Gets(p, on[p])
         /\ after[p] # "g_value" => Sets(p, on[p]) /\ pc[p] \in SetLocs
         /\ pc[p] \in {"down", "down_took", "down_queued", "asleep", "g_value"} => after[p] = "g_value"
<1>1. pc[p] \in GetLocs \cup SetLocs
  BY DEF Touching, GetLocs, SetLocs
<1>2. pc[p] \in {"down", "down_took", "down_queued", "asleep", "g_value"} => after[p] = "g_value"
  BY DEF ProcInv, Placed, PlacedAt, GetLocs
<1>3. after[p] = "g_value" => pc[p] \in GetLocs
  BY <1>1 DEF ProcInv, Placed, PlacedAt, SetLocs, GetLocs
<1>4. after[p] # "g_value" => pc[p] \in SetLocs
  BY <1>1, <1>2 DEF SetLocs, GetLocs
<1>5. after[p] = "g_value" => Gets(p, on[p]) /\ on[p] \in live /\ on[p] \in Futures
  BY <1>3, GetterFacts DEF ProcInv
<1>6. after[p] # "g_value" => Sets(p, on[p]) /\ on[p] \in live /\ on[p] \in Futures
  BY <1>4, SetterFacts DEF ProcInv
<1> QED BY <1>2, <1>4, <1>5, <1>6

\* A thread that has come past down of a Future gets from one that nobody sets.
LEMMA GetterAlone ==
  ASSUME ProcInv, NEW p \in Procs, NEW f \in Futures, Gets(p, f),
         pc[p] \notin {"down", "down_queued", "asleep"}
  PROVE  \A q \in Procs : ~Sets(q, f)
<1> SUFFICES ASSUME NEW q \in Procs, Sets(q, f) PROVE FALSE
  OBVIOUS
<1>1. FutureAt(f) /\ \A r \in Procs : Gets(r, f) => r = p
  BY GetterFacts DEF ProcInv, FuturesExact
<1>2. CASE Signalled(q, f)
  BY <1>1, <1>2 DEF FutureAt, Setting
<1>3. CASE ~Signalled(q, f)
  BY <1>1, <1>3 DEF FutureAt, Unset
<1> QED BY <1>2, <1>3

\* One process sets a Future.
LEMMA SetterAlone ==
  ASSUME ProcInv, NEW p \in Procs, NEW f \in Futures, Sets(p, f)
  PROVE  \A q \in Procs : Sets(q, f) => q = p
BY DEF ProcInv, OneSetter

\* up takes the thread that waits.
LEMMA UpWakeKeeps ==
  ASSUME ProcInv, NEW p \in Procs, UpWake(p)
  PROVE  (Placed /\ LiveExact /\ LockOne /\ FuturesExact /\ OneSetter /\ ExitKept)'
<1>0. PICK f \in Futures : f = on[p]
  BY TouchedFacts DEF UpWake, Touching
<1>1. /\ UNCHANGED <<pidC, pidMap, live, count, value, parent, status>>
      /\ pc[p] = "up" /\ pc'[p] = "up_unlock" /\ on'[p] = on[p] /\ after'[p] = after[p]
      /\ woken'[p] = Head(waiting[f]) /\ code'[p] = code[p]
      /\ ~taken[f] /\ taken' = [taken EXCEPT ![f] = TRUE]
      /\ waiting[f] # << >> /\ waiting' = [waiting EXCEPT ![f] = Tail(waiting[f])]
      /\ \A r \in Procs : r # p => Same(r)
  BY <1>0 DEF UpWake, ProcInv, ProcTypeOK, Use, Goto, futVars, procVars, Same
<1>2. PlacedAt(p) /\ Placed
  BY DEF ProcInv, Placed
<1>a. /\ Sets(p, f) /\ after[p] # "g_value" /\ f \in live /\ count[f] = 0
      /\ \E w \in Procs :
           waiting[f] = <<w>> /\ Head(waiting[f]) = w /\ w # p /\ Gets(w, f) /\ pc[w] = "asleep"
  <2>1. FutureAt(f)
    BY DEF ProcInv, FuturesExact
  <2>2. after[p] # "g_value" /\ Sets(p, f) /\ f \in live
    <3>1. ASSUME after[p] = "g_value" PROVE FALSE
      <4>1. Gets(p, f) /\ f \in live /\ \A q \in Procs : ~Sets(q, f)
        BY <1>0, <1>1, <3>1, TouchedFacts, GetterAlone DEF Touching
      <4> QED BY <1>1, <2>1, <4>1 DEF FutureAt, IsSet
    <3> QED BY <1>0, <1>1, <3>1, TouchedFacts DEF Touching
  <2>3. ~Signalled(p, f)
    BY <1>1 DEF Signalled
  <2>4. PICK w \in Procs : waiting[f] = <<w>>
    BY <1>1, <2>1, <2>2, <2>3 DEF FutureAt, Unset
  <2>5. count[f] = 0 /\ Gets(w, f) /\ pc[w] \in {"down_queued", "asleep"}
    BY <2>1, <2>2, <2>3, <2>4 DEF FutureAt, Unset
  <2>6. pc[w] # "down_queued"
    BY <1>1, <2>5 DEF ProcInv, LockOne, Holds, Gets
  <2> QED BY <1>1, <2>2, <2>4, <2>5, <2>6, QueueFacts
<1>3. ASSUME NEW g, g # f PROVE SameView(p, g) /\ (Holds(p, g)' <=> Holds(p, g))
  BY <1>0, <1>1, <1>2, <1>3 DEF SameView, Gets, Sets, Signalled, Holds, GetLocs, SetLocs, PlacedAt
<1>4. \A r \in Procs : \A g : r # p => SameView(r, g) /\ (Holds(r, g)' <=> Holds(r, g))
  BY <1>1, SameViews
<1>5. PlacedAt(p)'
  BY <1>0, <1>1, <1>2, <1>a, ProcessFacts DEF PlacedAt, Child, GetLocs, SetLocs
<1>6. Placed'
  BY <1>1, <1>5, PlacedKept DEF Placed
<1>7. ASSUME NEW g PROVE Gets(p, g)' <=> Gets(p, g)
  BY <1>1, <1>2 DEF Gets, GetLocs, PlacedAt
<1>8. LiveExact'
  BY <1>1, <1>4, <1>7, LiveKept DEF Same, SameView
<1>9. LockOne'
  <2>1. \A r \in Procs, g \in Futures : Holds(r, g)' => Holds(r, g) \/ (r = p /\ g = f)
    BY <1>3, <1>4
  <2> QED BY <1>1, <2>1, LockTaken
<1>10. OneSetter'
  <2>1. \A r \in Procs, g \in Futures : Sets(r, g)' => Sets(r, g)
    BY <1>0, <1>1, <1>2, <1>4 DEF SameView, Sets, SetLocs, PlacedAt
  <2> QED BY <2>1, SettersKept
<1>11. FutureAt(f)'
  <2>1. waiting'[f] = << >> /\ count'[f] = count[f] /\ f \in live'
    BY <1>1, <1>a, QueueFacts DEF ProcInv, ProcTypeOK
  <2>2. Sets(p, f)' /\ Signalled(p, f)' /\ \A q \in Procs : Sets(q, f)' => q = p
    <3>1. Sets(p, f)' /\ Signalled(p, f)'
      BY <1>0, <1>1, <1>a DEF Sets, Signalled, SetLocs
    <3> QED BY <1>4, <1>a, <3>1, SetterAlone DEF SameView
  <2>3. \A r \in Procs : Gets(r, f)' <=> Gets(r, f)
    BY <1>4, <1>7 DEF SameView
  <2>4. Unset(f)' /\ IsSet(f)'
    BY <2>2 DEF Unset, IsSet
  <2>5. PICK w \in Procs : w = woken'[p] /\ w # p /\ Gets(w, f) /\ pc[w] = "asleep" /\ count[f] = 0
    BY <1>1, <1>a
  <2>6. Gets(w, f)' /\ pc'[w] = "asleep"
    BY <1>1, <2>3, <2>5 DEF Same
  <2>7. Setting(f)'
    BY <2>1, <2>2, <2>5, <2>6 DEF Setting
  <2> QED BY <2>4, <2>7 DEF FutureAt
<1>12. FuturesExact'
  BY <1>1, <1>3, <1>4, <1>11, FutureKept DEF ProcInv, ProcTypeOK, FuturesExact
<1>13. ExitKept'
  BY <1>1, ExitsKept, ProcessFacts DEF Ends, Same, SetLocs
<1> QED BY <1>6, <1>8, <1>9, <1>10, <1>12, <1>13

\* up counts when nobody waits.
LEMMA UpCountKeeps ==
  ASSUME ProcInv, NEW p \in Procs, UpCount(p)
  PROVE  (Placed /\ LiveExact /\ LockOne /\ FuturesExact /\ OneSetter /\ ExitKept)'
<1>0. PICK f \in Futures : f = on[p]
  BY TouchedFacts DEF UpCount, Touching
<1>1. /\ UNCHANGED <<pidC, pidMap, live, waiting, value, parent, status>>
      /\ pc[p] = "up" /\ pc'[p] = "up_unlock" /\ on'[p] = on[p] /\ after'[p] = after[p]
      /\ woken'[p] = woken[p] /\ code'[p] = code[p]
      /\ ~taken[f] /\ taken' = [taken EXCEPT ![f] = TRUE]
      /\ waiting[f] = << >> /\ count' = [count EXCEPT ![f] = count[f] + 1]
      /\ \A r \in Procs : r # p => Same(r)
  BY <1>0 DEF UpCount, ProcInv, ProcTypeOK, Use, Goto, futVars, procVars, Same
<1>2. PlacedAt(p) /\ Placed
  BY DEF ProcInv, Placed
<1>a. f \in live
  BY <1>0 DEF UpCount
<1>3. ASSUME NEW g, g # f PROVE SameView(p, g) /\ (Holds(p, g)' <=> Holds(p, g))
  BY <1>0, <1>1, <1>2, <1>3 DEF SameView, Gets, Sets, Signalled, Holds, GetLocs, SetLocs, PlacedAt
<1>4. \A r \in Procs : \A g : r # p => SameView(r, g) /\ (Holds(r, g)' <=> Holds(r, g))
  BY <1>1, SameViews
<1>5. PlacedAt(p)'
  BY <1>0, <1>1, <1>2 DEF PlacedAt, Child, GetLocs, SetLocs
<1>6. Placed'
  BY <1>1, <1>5, PlacedKept DEF Placed
<1>7. ASSUME NEW g PROVE Gets(p, g)' <=> Gets(p, g)
  BY <1>1, <1>2 DEF Gets, GetLocs, PlacedAt
<1>8. LiveExact'
  BY <1>1, <1>4, <1>7, LiveKept DEF Same, SameView
<1>9. LockOne'
  <2>1. \A r \in Procs, g \in Futures : Holds(r, g)' => Holds(r, g) \/ (r = p /\ g = f)
    BY <1>3, <1>4
  <2> QED BY <1>1, <2>1, LockTaken
<1>10. OneSetter'
  <2>1. \A r \in Procs, g \in Futures : Sets(r, g)' => Sets(r, g)
    BY <1>0, <1>1, <1>2, <1>4 DEF SameView, Sets, SetLocs, PlacedAt
  <2> QED BY <2>1, SettersKept
<1>11. FutureAt(f)'
  <2>1. /\ FutureAt(f) /\ waiting'[f] = << >> /\ count'[f] = count[f] + 1 /\ f \in live'
        /\ \A r \in Procs : r # p =>
             (Gets(r, f)' <=> Gets(r, f)) /\ (Sets(r, f)' <=> Sets(r, f)) /\ pc'[r] = pc[r]
    BY <1>1, <1>4, <1>a DEF SameView, Same, ProcInv, ProcTypeOK, FuturesExact
  <2>2. CASE after[p] = "g_value"
    <3>1. Gets(p, f) /\ \A r \in Procs : Gets(r, f) => r = p
      BY <1>0, <1>1, <1>a, <2>2, TouchedFacts, GetterFacts DEF Touching, ProcInv
    <3>2. \A q \in Procs : ~Sets(q, f)
      BY <1>1, <3>1, GetterAlone
    <3>3. count[f] = 0
      BY <1>1, <1>a, <2>1, <3>1, <3>2 DEF FutureAt, IsSet
    <3>4. \A q \in Procs : ~Sets(q, f)'
      BY <1>0, <1>1, <2>1, <2>2, <3>2 DEF Sets, SetLocs
    <3>5. \A r \in Procs : Gets(r, f)' => r = p
      BY <2>1, <3>1
    <3> QED BY <1>1, <2>1, <3>3, <3>4, <3>5 DEF FutureAt, Unset, Setting, IsSet
  <2>3. CASE after[p] # "g_value"
    <3>1. Sets(p, f) /\ ~Signalled(p, f) /\ \A q \in Procs : Sets(q, f) => q = p
      BY <1>0, <1>1, <2>3, TouchedFacts, SetterAlone DEF Touching, Signalled
    <3>2. count[f] = 0 /\ (\A r \in Procs : Gets(r, f) => pc[r] = "down")
      BY <1>1, <2>1, <3>1, QueueFacts DEF FutureAt, Unset
    <3>3. Sets(p, f)' /\ Signalled(p, f)' /\ ~Gets(p, f)'
      BY <1>0, <1>1, <2>3, <3>1 DEF Sets, Signalled, SetLocs, Gets
    <3>4. \A q \in Procs : Sets(q, f)' => q = p
      BY <2>1, <3>1
    <3>5. \A r \in Procs : Gets(r, f)' => pc'[r] = "down"
      BY <2>1, <3>2, <3>3
    <3>6. woken'[p] = Nobody
      BY <1>1, <1>2 DEF PlacedAt
    <3> QED BY <2>1, <3>2, <3>3, <3>4, <3>5, <3>6 DEF FutureAt, Unset, Setting, IsSet
  <2> QED BY <2>2, <2>3
<1>12. FuturesExact'
  BY <1>1, <1>3, <1>4, <1>11, FutureKept DEF ProcInv, ProcTypeOK, FuturesExact
<1>13. ExitKept'
  BY <1>1, ExitsKept, ProcessFacts DEF Ends, Same, SetLocs
<1> QED BY <1>6, <1>8, <1>9, <1>10, <1>12, <1>13

\* down takes the permit.
LEMMA DownTakeKeeps ==
  ASSUME ProcInv, NEW p \in Procs, DownTake(p)
  PROVE  (Placed /\ LiveExact /\ LockOne /\ FuturesExact /\ OneSetter /\ ExitKept)'
<1>0. PICK f \in Futures : f = on[p]
  BY TouchedFacts DEF DownTake, Touching
<1>1. /\ UNCHANGED <<pidC, pidMap, live, waiting, value, parent, status>>
      /\ pc[p] = "down" /\ pc'[p] = "down_took" /\ on'[p] = on[p] /\ after'[p] = after[p]
      /\ after[p] = "g_value"
      /\ woken'[p] = woken[p] /\ code'[p] = code[p]
      /\ ~taken[f] /\ taken' = [taken EXCEPT ![f] = TRUE]
      /\ f \in live /\ count[f] > 0 /\ count' = [count EXCEPT ![f] = count[f] - 1]
      /\ \A r \in Procs : r # p => Same(r)
  BY <1>0 DEF DownTake, ProcInv, ProcTypeOK, Use, Goto, futVars, procVars, Same, Placed, PlacedAt,
      GetLocs
<1>2. PlacedAt(p) /\ Placed
  BY DEF ProcInv, Placed
<1>3. ASSUME NEW g, g # f PROVE SameView(p, g) /\ (Holds(p, g)' <=> Holds(p, g))
  BY <1>0, <1>1, <1>2, <1>3 DEF SameView, Gets, Sets, Signalled, Holds, GetLocs, SetLocs, PlacedAt
<1>4. \A r \in Procs : \A g : r # p => SameView(r, g) /\ (Holds(r, g)' <=> Holds(r, g))
  BY <1>1, SameViews
<1>5. PlacedAt(p)'
  BY <1>0, <1>1, <1>2 DEF PlacedAt, Child, GetLocs, SetLocs
<1>6. Placed'
  BY <1>1, <1>5, PlacedKept DEF Placed
<1>7. ASSUME NEW g PROVE Gets(p, g)' <=> Gets(p, g)
  BY <1>1, <1>2 DEF Gets, GetLocs, PlacedAt
<1>8. LiveExact'
  BY <1>1, <1>4, <1>7, LiveKept DEF Same, SameView
<1>9. LockOne'
  <2>1. \A r \in Procs, g \in Futures : Holds(r, g)' => Holds(r, g) \/ (r = p /\ g = f)
    BY <1>3, <1>4
  <2> QED BY <1>1, <2>1, LockTaken
<1>10. OneSetter'
  <2>1. \A r \in Procs, g \in Futures : Sets(r, g)' => Sets(r, g)
    BY <1>0, <1>1, <1>2, <1>4 DEF SameView, Sets, SetLocs, PlacedAt
  <2> QED BY <2>1, SettersKept
<1>11. FutureAt(f)'
  <2>1. /\ FutureAt(f) /\ waiting'[f] = waiting[f] /\ count'[f] = count[f] - 1 /\ f \in live'
        /\ \A r \in Procs : r # p =>
             (Gets(r, f)' <=> Gets(r, f)) /\ (Sets(r, f)' <=> Sets(r, f)) /\ pc'[r] = pc[r]
        /\ count[f] # 0
    BY <1>1, <1>4 DEF SameView, Same, ProcInv, ProcTypeOK, FuturesExact
  <2>2. Gets(p, f) /\ \A r \in Procs : Gets(r, f) => r = p
    BY <1>0, <1>1, TouchedFacts, GetterFacts DEF Touching, ProcInv
  <2>3. ASSUME NEW q \in Procs, Sets(q, f) PROVE FALSE
    <3>1. Signalled(q, f)
      BY <2>1, <2>3 DEF FutureAt, Unset
    <3>2. woken[q] = Nobody
      BY <2>1, <2>3, <3>1 DEF FutureAt, Setting
    <3>3. Holds(q, f)
      BY <1>2, <3>1, <3>2 DEF Placed, PlacedAt, Signalled, Holds
    <3> QED BY <1>1, <3>3 DEF ProcInv, LockOne
  <2>4. waiting[f] = << >> /\ count[f] = 1
    BY <1>1, <2>1, <2>3 DEF FutureAt, IsSet
  <2>5. \A q \in Procs : ~Sets(q, f)'
    BY <1>0, <1>1, <2>1, <2>3 DEF Sets, SetLocs
  <2>6. Gets(p, f)' /\ \A r \in Procs : Gets(r, f)' => r = p
    BY <1>7, <2>1, <2>2
  <2> QED BY <1>1, <2>1, <2>4, <2>5, <2>6 DEF FutureAt, Unset, Setting, IsSet
<1>12. FuturesExact'
  BY <1>1, <1>3, <1>4, <1>11, FutureKept DEF ProcInv, ProcTypeOK, FuturesExact
<1>13. ExitKept'
  BY <1>1, ExitsKept, ProcessFacts DEF Ends, Same, SetLocs
<1> QED BY <1>6, <1>8, <1>9, <1>10, <1>12, <1>13

\* down queues up.
LEMMA DownWaitKeeps ==
  ASSUME ProcInv, NEW p \in Procs, DownWait(p)
  PROVE  (Placed /\ LiveExact /\ LockOne /\ FuturesExact /\ OneSetter /\ ExitKept)'
<1>0. PICK f \in Futures : f = on[p]
  BY TouchedFacts DEF DownWait, Touching
<1>1. /\ UNCHANGED <<pidC, pidMap, live, count, value, parent, status>>
      /\ pc[p] = "down" /\ pc'[p] = "down_queued" /\ on'[p] = on[p] /\ after'[p] = after[p]
      /\ after[p] = "g_value"
      /\ woken'[p] = woken[p] /\ code'[p] = code[p]
      /\ ~taken[f] /\ taken' = [taken EXCEPT ![f] = TRUE]
      /\ f \in live /\ count[f] = 0 /\ waiting' = [waiting EXCEPT ![f] = Append(waiting[f], p)]
      /\ \A r \in Procs : r # p => Same(r)
  BY <1>0 DEF DownWait, ProcInv, ProcTypeOK, Use, Goto, futVars, procVars, Same, Placed, PlacedAt,
      GetLocs
<1>2. PlacedAt(p) /\ Placed
  BY DEF ProcInv, Placed
<1>3. ASSUME NEW g, g # f PROVE SameView(p, g) /\ (Holds(p, g)' <=> Holds(p, g))
  BY <1>0, <1>1, <1>2, <1>3 DEF SameView, Gets, Sets, Signalled, Holds, GetLocs, SetLocs, PlacedAt
<1>4. \A r \in Procs : \A g : r # p => SameView(r, g) /\ (Holds(r, g)' <=> Holds(r, g))
  BY <1>1, SameViews
<1>5. PlacedAt(p)'
  BY <1>0, <1>1, <1>2 DEF PlacedAt, Child, GetLocs, SetLocs
<1>6. Placed'
  BY <1>1, <1>5, PlacedKept DEF Placed
<1>7. ASSUME NEW g PROVE Gets(p, g)' <=> Gets(p, g)
  BY <1>1, <1>2 DEF Gets, GetLocs, PlacedAt
<1>8. LiveExact'
  BY <1>1, <1>4, <1>7, LiveKept DEF Same, SameView
<1>9. LockOne'
  <2>1. \A r \in Procs, g \in Futures : Holds(r, g)' => Holds(r, g) \/ (r = p /\ g = f)
    BY <1>3, <1>4
  <2> QED BY <1>1, <2>1, LockTaken
<1>10. OneSetter'
  <2>1. \A r \in Procs, g \in Futures : Sets(r, g)' => Sets(r, g)
    BY <1>0, <1>1, <1>2, <1>4 DEF SameView, Sets, SetLocs, PlacedAt
  <2> QED BY <2>1, SettersKept
<1>11. FutureAt(f)'
  <2>1. /\ FutureAt(f) /\ waiting'[f] = Append(waiting[f], p) /\ count'[f] = 0 /\ f \in live'
        /\ \A r \in Procs : r # p =>
             (Gets(r, f)' <=> Gets(r, f)) /\ (Sets(r, f)' <=> Sets(r, f)) /\ pc'[r] = pc[r]
        /\ \A r \in Procs : r # p => (Signalled(r, f)' <=> Signalled(r, f))
    BY <1>1, <1>4 DEF SameView, Same, ProcInv, ProcTypeOK, FuturesExact
  <2>2. Gets(p, f) /\ \A r \in Procs : Gets(r, f) => r = p
    BY <1>0, <1>1, TouchedFacts, GetterFacts DEF Touching, ProcInv
  <2>3. (Sets(p, f)' <=> Sets(p, f)) /\ ~Signalled(p, f) /\ ~Signalled(p, f)'
    BY <1>0, <1>1 DEF Sets, SetLocs, Signalled
  <2>4. PICK q \in Procs : Sets(q, f) /\ ~Signalled(q, f)
    <3>1. \E q \in Procs : Sets(q, f)
      BY <1>1, <2>1, <2>2 DEF FutureAt, IsSet
    <3>2. ASSUME NEW q \in Procs, Sets(q, f), Signalled(q, f) PROVE FALSE
      BY <1>1, <2>1, <2>2, <3>2 DEF FutureAt, Setting
    <3> QED BY <3>1, <3>2
  <2>5. waiting[f] = << >>
    BY <1>1, <2>1, <2>2, <2>4 DEF FutureAt, Unset
  <2>6. waiting'[f] = <<p>>
    BY <2>1, <2>5, QueueFacts
  <2>7. Gets(p, f)' /\ \A r \in Procs : Gets(r, f)' => r = p
    BY <1>7, <2>1, <2>2
  <2>8. Sets(q, f)' /\ \A r \in Procs : Sets(r, f)' => r = q
    BY <2>1, <2>3, <2>4, SetterAlone
  <2>9. ~Signalled(q, f)'
    BY <2>1, <2>3, <2>4
  <2>10. Unset(f)'
    BY <1>1, <2>1, <2>6, <2>7, QueueFacts DEF Unset
  <2> QED BY <2>8, <2>9, <2>10 DEF FutureAt, Setting, IsSet
<1>12. FuturesExact'
  BY <1>1, <1>3, <1>4, <1>11, FutureKept DEF ProcInv, ProcTypeOK, FuturesExact
<1>13. ExitKept'
  BY <1>1, ExitsKept, ProcessFacts DEF Ends, Same, SetLocs
<1> QED BY <1>6, <1>8, <1>9, <1>10, <1>12, <1>13

\* down gives the lock back.
LEMMA DownUnlockKeeps ==
  ASSUME ProcInv, NEW p \in Procs, DownUnlock(p)
  PROVE  (Placed /\ LiveExact /\ LockOne /\ FuturesExact /\ OneSetter /\ ExitKept)'
<1>0. PICK f \in Futures : f = on[p]
  BY TouchedFacts DEF DownUnlock, Touching
<1>1. /\ UNCHANGED <<pidC, pidMap, live, count, waiting, value, parent, status>>
      /\ pc[p] \in {"down_took", "down_queued"}
      /\ pc'[p] = IF pc[p] = "down_took" THEN "up" ELSE "asleep"
      /\ on'[p] = on[p] /\ after'[p] = after[p] /\ after[p] = "g_value"
      /\ woken'[p] = woken[p] /\ code'[p] = code[p]
      /\ f \in live /\ taken' = [taken EXCEPT ![f] = FALSE]
      /\ \A r \in Procs : r # p => Same(r)
  BY <1>0 DEF DownUnlock, ProcInv, ProcTypeOK, Use, Goto, futVars, procVars, Same, Placed,
      PlacedAt, GetLocs
<1>2. PlacedAt(p) /\ Placed
  BY DEF ProcInv, Placed
<1>3. ASSUME NEW g, g # f PROVE SameView(p, g) /\ (Holds(p, g)' <=> Holds(p, g))
  BY <1>0, <1>1, <1>2, <1>3 DEF SameView, Gets, Sets, Signalled, Holds, GetLocs, SetLocs, PlacedAt
<1>4. \A r \in Procs : \A g : r # p => SameView(r, g) /\ (Holds(r, g)' <=> Holds(r, g))
  BY <1>1, SameViews
<1>5. PlacedAt(p)'
  BY <1>0, <1>1, <1>2 DEF PlacedAt, Child, GetLocs, SetLocs
<1>6. Placed'
  BY <1>1, <1>5, PlacedKept DEF Placed
<1>7. ASSUME NEW g PROVE Gets(p, g)' <=> Gets(p, g)
  BY <1>1, <1>2 DEF Gets, GetLocs, PlacedAt
<1>8. LiveExact'
  BY <1>1, <1>4, <1>7, LiveKept DEF Same, SameView
<1>9. LockOne'
  <2>1. Holds(p, f) /\ \A g : ~Holds(p, g)'
    BY <1>0, <1>1, <1>2 DEF Holds, PlacedAt, ProcInv, ProcTypeOK
  <2>2. \A r \in Procs, g \in Futures : Holds(r, g)' => Holds(r, g) /\ r # p
    BY <1>4, <2>1
  <2> QED BY <1>1, <2>1, <2>2, LockGiven
<1>10. OneSetter'
  <2>1. \A r \in Procs, g \in Futures : Sets(r, g)' => Sets(r, g)
    BY <1>0, <1>1, <1>2, <1>4 DEF SameView, Sets, SetLocs, PlacedAt
  <2> QED BY <2>1, SettersKept
<1>11. FutureAt(f)'
  <2>1. /\ FutureAt(f) /\ waiting'[f] = waiting[f] /\ count'[f] = count[f] /\ f \in live'
        /\ \A r \in Procs : r # p =>
             (Gets(r, f)' <=> Gets(r, f)) /\ (Sets(r, f)' <=> Sets(r, f)) /\ pc'[r] = pc[r]
        /\ \A r \in Procs : r # p => (Signalled(r, f)' <=> Signalled(r, f))
    BY <1>1, <1>4 DEF SameView, Same, ProcInv, ProcTypeOK, FuturesExact
  <2>2. Gets(p, f) /\ \A r \in Procs : Gets(r, f) => r = p
    BY <1>0, <1>1, TouchedFacts, GetterFacts DEF Touching, ProcInv
  <2>3. (Sets(p, f)' <=> Sets(p, f)) /\ ~Signalled(p, f) /\ ~Signalled(p, f)'
    BY <1>0, <1>1 DEF Sets, SetLocs, Signalled
  <2>4. Gets(p, f)' /\ \A r \in Procs : Gets(r, f)' => r = p
    BY <1>7, <2>1, <2>2
  <2>5. CASE pc[p] = "down_took"
    <3>1. \A q \in Procs : ~Sets(q, f)
      BY <2>2, <2>5, GetterAlone
    <3>2. waiting[f] = << >> /\ count[f] = 0
      BY <1>1, <2>1, <2>2, <2>5, <3>1 DEF FutureAt, IsSet
    <3>3. \A q \in Procs : ~Sets(q, f)'
      BY <2>1, <2>3, <3>1
    <3> QED BY <1>1, <2>1, <2>4, <2>5, <3>2, <3>3 DEF FutureAt, Unset, Setting, IsSet
  <2>6. CASE pc[p] = "down_queued"
    <3>1. PICK q \in Procs : Sets(q, f) /\ ~Signalled(q, f)
      <4>1. \E q \in Procs : Sets(q, f)
        BY <1>1, <2>1, <2>2, <2>6 DEF FutureAt, IsSet
      <4>2. ASSUME NEW q \in Procs, Sets(q, f), Signalled(q, f) PROVE FALSE
        BY <1>1, <2>1, <2>2, <2>6, <4>2 DEF FutureAt, Setting
      <4> QED BY <4>1, <4>2
    <3>2. Sets(q, f)' /\ \A r \in Procs : Sets(r, f)' => r = q
      BY <2>1, <2>3, <3>1, SetterAlone
    <3>3. ~Signalled(q, f)'
      BY <2>1, <2>3, <3>1
    <3>4. /\ count[f] = 0 /\ (waiting[f] = << >> \/ \E r \in Procs : waiting[f] = <<r>>)
          /\ \A r \in Procs : waiting[f] = <<r>> <=> Gets(r, f) /\ pc[r] \in {"down_queued", "asleep"}
      BY <2>1, <3>1 DEF FutureAt, Unset
    <3>5. pc'[p] = "asleep"
      BY <1>1, <2>6
    <3>6. \A r \in Procs : /\ Gets(r, f)' => pc'[r] = "asleep"
                           /\ waiting'[f] = <<r>> <=> Gets(r, f)' /\ pc'[r] \in {"down_queued", "asleep"}
      <4>1. \A r \in Procs : waiting[f] = <<r>> <=> r = p
        BY <2>2, <2>6, <3>4
      <4> QED BY <2>1, <2>4, <3>5, <4>1
    <3>7. Unset(f)'
      BY <2>1, <3>4, <3>6 DEF Unset
    <3> QED BY <3>2, <3>3, <3>7 DEF FutureAt, Setting, IsSet
  <2> QED BY <1>1, <2>5, <2>6
<1>12. FuturesExact'
  BY <1>1, <1>3, <1>4, <1>11, FutureKept DEF ProcInv, ProcTypeOK, FuturesExact
<1>13. ExitKept'
  BY <1>1, ExitsKept, ProcessFacts DEF Ends, Same, SetLocs
<1> QED BY <1>6, <1>8, <1>9, <1>10, <1>12, <1>13

\* up gives the lock back.
LEMMA UpUnlockKeeps ==
  ASSUME ProcInv, NEW p \in Procs, UpUnlock(p)
  PROVE  (Placed /\ LiveExact /\ LockOne /\ FuturesExact /\ OneSetter /\ ExitKept)'
<1>0. PICK f \in Futures : f = on[p]
  BY TouchedFacts DEF UpUnlock, Touching
<1>1. /\ UNCHANGED <<pidC, pidMap, live, count, waiting, value, parent, status>>
      /\ pc[p] = "up_unlock" /\ pc'[p] = IF woken[p] = Nobody THEN after[p] ELSE "up_sched"
      /\ on'[p] = on[p] /\ after'[p] = after[p] /\ after[p] \in {"run", "dead", "g_value"}
      /\ woken'[p] = woken[p] /\ code'[p] = code[p]
      /\ f \in live /\ taken' = [taken EXCEPT ![f] = FALSE]
      /\ \A r \in Procs : r # p => Same(r)
  BY <1>0 DEF UpUnlock, ProcInv, ProcTypeOK, Use, Goto, futVars, procVars, Same
<1>2. PlacedAt(p) /\ Placed
  BY DEF ProcInv, Placed
<1>3. ASSUME NEW g, g # f PROVE SameView(p, g) /\ (Holds(p, g)' <=> Holds(p, g))
  BY <1>0, <1>1, <1>2, <1>3 DEF SameView, Gets, Sets, Signalled, Holds, GetLocs, SetLocs, PlacedAt
<1>4. \A r \in Procs : \A g : r # p => SameView(r, g) /\ (Holds(r, g)' <=> Holds(r, g))
  BY <1>1, SameViews
<1>5. PlacedAt(p)'
  BY <1>0, <1>1, <1>2 DEF PlacedAt, Child, GetLocs, SetLocs
<1>6. Placed'
  BY <1>1, <1>5, PlacedKept DEF Placed
<1>7. ASSUME NEW g PROVE Gets(p, g)' <=> Gets(p, g)
  BY <1>1, <1>2 DEF Gets, GetLocs, PlacedAt
<1>8. LiveExact'
  BY <1>1, <1>4, <1>7, LiveKept DEF Same, SameView
<1>9. LockOne'
  <2>1. Holds(p, f) /\ \A g : ~Holds(p, g)'
    BY <1>0, <1>1, <1>2 DEF Holds, PlacedAt, ProcInv, ProcTypeOK
  <2>2. \A r \in Procs, g \in Futures : Holds(r, g)' => Holds(r, g) /\ r # p
    BY <1>4, <2>1
  <2> QED BY <1>1, <2>1, <2>2, LockGiven
<1>10. OneSetter'
  <2>1. \A r \in Procs, g \in Futures : Sets(r, g)' => Sets(r, g)
    BY <1>0, <1>1, <1>2, <1>4 DEF SameView, Sets, SetLocs, PlacedAt
  <2> QED BY <2>1, SettersKept
<1>11. FutureAt(f)'
  <2>1. /\ FutureAt(f) /\ waiting'[f] = waiting[f] /\ count'[f] = count[f] /\ f \in live'
        /\ \A r \in Procs : r # p =>
             (Gets(r, f)' <=> Gets(r, f)) /\ (Sets(r, f)' <=> Sets(r, f)) /\ pc'[r] = pc[r]
        /\ \A r \in Procs : r # p => (Signalled(r, f)' <=> Signalled(r, f))
        /\ \A r \in Procs : r # p => SameView(r, f)
    BY <1>1, <1>4 DEF SameView, Same, ProcInv, ProcTypeOK, FuturesExact
  <2>2. CASE after[p] = "g_value"
    <3>1. Gets(p, f) /\ \A r \in Procs : Gets(r, f) => r = p
      BY <1>0, <1>1, <2>2, TouchedFacts, GetterFacts DEF Touching, ProcInv
    <3>2. \A q \in Procs : ~Sets(q, f)
      BY <1>1, <3>1, GetterAlone
    <3>3. waiting[f] = << >> /\ count[f] = 1
      BY <1>1, <2>1, <3>1, <3>2 DEF FutureAt, IsSet
    <3>4. pc'[p] = "g_value"
      BY <1>1, <1>2, <2>2 DEF PlacedAt
    <3>5. \A q \in Procs : ~Sets(q, f)'
      BY <1>0, <1>1, <2>1, <2>2, <3>2, <3>4 DEF Sets, SetLocs
    <3>6. \A r \in Procs : Gets(r, f)' => r = p
      BY <2>1, <3>1
    <3> QED BY <2>1, <3>3, <3>4, <3>5, <3>6 DEF FutureAt, Unset, Setting, IsSet
  <2>3. CASE after[p] # "g_value" /\ woken[p] # Nobody
    <3>1. SameView(p, f)
      BY <1>0, <1>1, <1>2, <2>3 DEF SameView, Gets, Sets, Signalled, SetLocs, GetLocs, PlacedAt
    <3>2. \A r \in Procs : SameView(r, f)
      BY <2>1, <3>1
    <3>3. f \in live' <=> f \in live
      BY <1>1
    <3> QED BY <2>1, <3>2, <3>3, FutureKept
  <2>4. CASE after[p] # "g_value" /\ woken[p] = Nobody
    <3>1. Sets(p, f) /\ Signalled(p, f) /\ \A q \in Procs : Sets(q, f) => q = p
      BY <1>0, <1>1, <2>4, TouchedFacts, SetterAlone DEF Touching, Signalled
    <3>2. waiting[f] = << >> /\ count[f] = 1 /\ \A r \in Procs : Gets(r, f) => pc[r] = "down"
      BY <2>1, <2>4, <3>1, ProcessFacts DEF FutureAt, Setting
    <3>3. ~Sets(p, f)' /\ ~Gets(p, f)'
      BY <1>0, <1>1, <1>2, <2>4, FutureFacts DEF Sets, Gets, SetLocs, GetLocs, PlacedAt
    <3>4. \A q \in Procs : ~Sets(q, f)' /\ (Gets(q, f)' => pc'[q] = "down")
      BY <2>1, <3>1, <3>2, <3>3
    <3> QED BY <2>1, <3>2, <3>4 DEF FutureAt, Unset, Setting, IsSet
  <2> QED BY <2>2, <2>3, <2>4
<1>12. FuturesExact'
  BY <1>1, <1>3, <1>4, <1>11, FutureKept DEF ProcInv, ProcTypeOK, FuturesExact
<1>13. ExitKept'
  BY <1>1, ExitsKept, ProcessFacts DEF Ends, Same, SetLocs
<1> QED BY <1>6, <1>8, <1>9, <1>10, <1>12, <1>13

\* schedule lets the thread that waited go on, and up is done.
LEMMA UpScheduleKeeps ==
  ASSUME ProcInv, NEW p \in Procs, UpSchedule(p)
  PROVE  (Placed /\ LiveExact /\ LockOne /\ FuturesExact /\ OneSetter /\ ExitKept)'
<1>1. pc[p] = "up_sched" /\ woken[p] # Nobody /\ after[p] \in {"run", "dead"}
  BY DEF UpSchedule, ProcInv, Placed, PlacedAt, ProcTypeOK
<1>2. PICK f \in Futures, w \in Procs :
        /\ f = on[p] /\ w = woken[p] /\ w # p /\ pc[w] = "asleep" /\ on[w] = f
        /\ after[w] = "g_value"
        /\ Gets(w, f) /\ Sets(p, f) /\ Signalled(p, f) /\ f \in live
  BY <1>1, WokenFacts DEF Gets
<1>3. /\ UNCHANGED <<pidC, pidMap, live, count, waiting, taken, value, parent, status, on, after, code>>
      /\ pc'[p] = after[p] /\ woken'[p] = Nobody /\ pc'[w] = "up" /\ woken'[w] = woken[w]
      /\ \A r \in Procs : r # p /\ r # w => Same(r)
  BY <1>2 DEF UpSchedule, ProcInv, ProcTypeOK, futVars, procVars, Same
<1>4. PlacedAt(p) /\ PlacedAt(w) /\ Placed /\ FutureAt(f)
  BY DEF ProcInv, Placed, FuturesExact
<1>5. PlacedAt(p)'
  BY <1>1, <1>2, <1>3, <1>4 DEF PlacedAt, SetLocs, GetLocs
<1>6. PlacedAt(w)'
  BY <1>1, <1>2, <1>3, <1>4 DEF PlacedAt, SetLocs, GetLocs, Child
<1>7. Placed'
  <2>1. ASSUME NEW r \in Procs, r # p, r # w PROVE PlacedAt(r)'
    BY <1>3, <2>1, PlacedKept
  <2> QED BY <1>5, <1>6, <2>1 DEF Placed
<1>8. ASSUME NEW g
      PROVE  /\ \A r \in Procs : (Gets(r, g)' <=> Gets(r, g)) /\ (Holds(r, g)' <=> Holds(r, g))
             /\ g # f => SameView(p, g) /\ SameView(w, g)
             /\ Sets(w, g)' <=> Sets(w, g)
  <2>1. \A r \in Procs : r # p /\ r # w => (Gets(r, g)' <=> Gets(r, g)) /\ (Holds(r, g)' <=> Holds(r, g))
    BY <1>3, SameViews DEF SameView
  <2>2. /\ (Gets(w, g)' <=> Gets(w, g)) /\ (Holds(w, g)' <=> Holds(w, g))
        /\ g # f => SameView(w, g)
        /\ Sets(w, g)' <=> Sets(w, g)
    BY <1>2, <1>3 DEF SameView, Gets, Sets, Signalled, Holds, GetLocs, SetLocs
  <2>3. /\ (Gets(p, g)' <=> Gets(p, g)) /\ (Holds(p, g)' <=> Holds(p, g))
        /\ g # f => SameView(p, g)
    BY <1>1, <1>2, <1>3, <1>4 DEF SameView, Gets, Sets, Signalled, Holds, GetLocs, SetLocs, PlacedAt
  <2> QED BY <2>1, <2>2, <2>3
<1>9. LiveExact'
  <2>1. \A r \in Procs : /\ pc'[r] = "c_clear" <=> pc[r] = "c_clear"
                         /\ pc[r] = "c_clear" => on'[r] = on[r]
    BY <1>1, <1>2, <1>3 DEF Same
  <2> QED BY <1>3, <1>8, <2>1, LiveKept
<1>10. LockOne'
  BY <1>3, <1>8, LockKept
<1>11. ~Sets(p, f)'
  BY <1>1, <1>2, <1>3, <1>4, FutureFacts DEF Sets, SetLocs, PlacedAt
<1>12. \A q \in Procs : \A g : Sets(q, g)' => Sets(q, g)
  <2>1. ASSUME NEW q \in Procs, NEW g, q # p, q # w, Sets(q, g)' PROVE Sets(q, g)
    BY <1>3, <2>1, SameViews DEF SameView
  <2> QED BY <1>8, <1>11, <2>1 DEF SameView
<1>13. OneSetter'
  BY <1>12, SettersKept
<1>14. FutureAt(f)'
  <2>1. \A q \in Procs : ~Sets(q, f)'
    BY <1>2, <1>11, <1>12, SetterAlone
  <2>2. waiting[f] = << >> /\ count[f] = 0
    BY <1>1, <1>2, <1>4, ProcessFacts DEF FutureAt, Setting
  <2>3. Gets(w, f)' /\ \A r \in Procs : Gets(r, f)' => r = w
    BY <1>2, <1>8, GetterFacts DEF ProcInv
  <2> QED BY <1>3, <2>1, <2>2, <2>3 DEF FutureAt, Unset, Setting, IsSet
<1>15. FuturesExact'
  <2>1. ASSUME NEW g \in Futures, g # f PROVE FutureAt(g)'
    <3>1. \A r \in Procs : SameView(r, g)
      BY <1>3, <1>8, <2>1, SameViews
    <3> QED BY <1>3, <3>1, FutureKept DEF ProcInv, FuturesExact
  <2> QED BY <1>14, <2>1 DEF FuturesExact
<1>16. ExitKept'
  <2>1. ASSUME NEW r \in Pids
        PROVE  Ends(r)' => Ends(r) /\ (pc[r] = "dead" => pc'[r] = "dead")
    BY <1>1, <1>2, <1>3, ProcessFacts DEF Ends, Same, SetLocs
  <2>2. \A r \in Pids : pc[r] = "dead" => pc'[r] = "dead"
    BY <1>1, <1>2, <1>3, ProcessFacts DEF Same
  <2> QED BY <1>3, <2>1, <2>2, ExitsKept
<1> QED BY <1>7, <1>9, <1>10, <1>13, <1>15, <1>16

-----------------------------------------------------------------------------
(* wait *)

\* wait reads the pointer: the child's Future, on which nobody else waits.
LEMMA WaitPointerKeeps ==
  ASSUME ProcInv, NEW p \in Procs, WaitPointer(p)
  PROVE  (Placed /\ LiveExact /\ LockOne /\ FuturesExact /\ OneSetter /\ ExitKept)'
<1>0. PICK q \in Pids : Child(p, q) /\ q = on[p][2] /\ pidMap[q] = "set"
  BY CalledFacts DEF WaitPointer, Child
<1>1. PICK f \in Futures : f = ExitOf(q) /\ on[p] = f
  BY <1>0, FutureFacts, ProcessFacts DEF Child
<1>2. /\ UNCHANGED <<pidC, pidMap, live, count, waiting, taken, value, parent, status>>
      /\ pc[p] = "w_ptr" /\ pc'[p] = "down"
      /\ on'[p] = on[p] /\ after'[p] = after[p] /\ woken'[p] = woken[p] /\ code'[p] = code[p]
      /\ \A r \in Procs : r # p => Same(r)
  BY <1>0, <1>1 DEF WaitPointer, Pointer, ProcInv, ProcTypeOK, Goto, futVars, procVars, Same
<1>3. PlacedAt(p) /\ Placed /\ FutureAt(f) /\ after[p] = "g_value"
  BY <1>2 DEF ProcInv, Placed, PlacedAt, FuturesExact
<1>4. ASSUME NEW g
      PROVE  /\ g # f => SameView(p, g)
             /\ Holds(p, g)' <=> Holds(p, g)
             /\ Sets(p, g)' <=> Sets(p, g)
             /\ ~Gets(p, g) /\ ~Signalled(p, g) /\ ~Signalled(p, g)' /\ ~Holds(p, g)'
             /\ Gets(p, g)' <=> g = f
  BY <1>1, <1>2, <1>3 DEF SameView, Gets, Sets, Signalled, Holds, GetLocs, SetLocs
<1>5. \A r \in Procs : \A g : r # p => SameView(r, g) /\ (Holds(r, g)' <=> Holds(r, g))
  BY <1>2, SameViews
<1>6. Placed'
  <2>1. Child(p, q)'
    BY <1>0, <1>2 DEF Child
  <2>2. PlacedAt(p)'
    BY <1>0, <1>2, <1>3, <2>1 DEF PlacedAt, GetLocs, SetLocs
  <2> QED BY <1>2, <2>2, PlacedKept DEF Placed
<1>7. LiveExact'
  <2>1. \A r \in Procs : Gets(r, SyncOf(r))' <=> Gets(r, SyncOf(r))
    BY <1>1, <1>4, <1>5, FutureFacts DEF SameView
  <2> QED BY <1>2, <2>1, LiveKept DEF Same
<1>8. LockOne'
  BY <1>2, <1>4, <1>5, LockKept
<1>9. OneSetter'
  BY <1>4, <1>5, SettersKept DEF SameView
<1>10. FutureAt(f)'
  <2>1. \A r \in Procs : ~Gets(r, f)
    <3>1. ASSUME NEW r \in Procs, Gets(r, f) PROVE FALSE
      <4>1. f = SyncOf(r) \/ \E c \in Pids : f = ExitOf(c) /\ parent[c] = r
        BY <1>3, <3>1 DEF Placed, PlacedAt, Gets, Child
      <4>2. r = p
        BY <1>0, <1>1, <4>1, FutureFacts DEF Child
      <4> QED BY <1>4, <3>1, <4>2
    <3> QED BY <3>1
  <2>2. \A r \in Procs : Gets(r, f)' <=> r = p
    BY <1>4, <1>5, <2>1 DEF SameView
  <2>3. \A r \in Procs : (Sets(r, f)' <=> Sets(r, f)) /\ (Signalled(r, f)' <=> Signalled(r, f))
    BY <1>4, <1>5 DEF SameView
  <2>4. f \in live /\ f \in live'
    <3>1. parent[q] = p
      BY <1>0 DEF Child
    <3> QED BY <1>0, <1>1, <1>2, <3>1 DEF ProcInv, LiveExact
  <2>5. Unset(f)'
    <3> SUFFICES ASSUME NEW s \in Procs, Sets(s, f)', ~Signalled(s, f)'
                 PROVE  /\ count[f] = 0 /\ waiting[f] = << >>
                        /\ \A r \in Procs : waiting[f] # <<r>>
      BY <1>2, <2>2, <2>4 DEF Unset
    <3>1. Sets(s, f) /\ ~Signalled(s, f)
      BY <2>3
    <3> QED BY <1>3, <2>1, <3>1, QueueFacts DEF FutureAt, Unset
  <2>6. Setting(f)'
    <3> SUFFICES ASSUME NEW s \in Procs, Sets(s, f)', Signalled(s, f)'
                 PROVE  woken'[s] = Nobody /\ count[f] = 1 /\ waiting[f] = << >>
      BY <1>2, <2>2, <2>4 DEF Setting
    <3>1. Sets(s, f) /\ Signalled(s, f) /\ s # p
      BY <1>4, <2>3
    <3> QED BY <1>2, <1>3, <2>1, <3>1 DEF FutureAt, Setting, Same
  <2>7. IsSet(f)'
    <3> SUFFICES ASSUME \A s \in Procs : ~Sets(s, f)'
                 PROVE  waiting[f] = << >> /\ count[f] = 1
      BY <1>2, <2>2, <2>4 DEF IsSet
    <3> QED BY <1>3, <2>1, <2>3, <2>4 DEF FutureAt, IsSet
  <2> QED BY <2>5, <2>6, <2>7 DEF FutureAt
<1>11. FuturesExact'
  BY <1>2, <1>4, <1>5, <1>10, FutureKept DEF ProcInv, FuturesExact
<1>12. ExitKept'
  BY <1>2, ExitsKept, ProcessFacts DEF Ends, Same, SetLocs
<1> QED BY <1>6, <1>7, <1>8, <1>9, <1>11, <1>12

\* wait returns what the child's exit has left.
LEMMA WaitReturnKeeps ==
  ASSUME ProcInv, NEW p \in Procs, WaitReturn(p)
  PROVE  (Placed /\ LiveExact /\ LockOne /\ FuturesExact /\ OneSetter /\ ExitKept)'
<1>0. PICK f \in Futures : f = on[p] /\ Gets(p, f) /\ f \in live /\ f[1] = "exit"
  BY TouchedFacts DEF WaitReturn, Touching
<1>1. PICK q \in Pids : f = ExitOf(q) /\ parent[q] = p /\ pidMap[q] = "set" /\ f[2] = q
  BY <1>0, FutureFacts DEF ProcInv, Placed, PlacedAt, Child, Gets
<1>2. /\ UNCHANGED <<pidC, pidMap, live, count, waiting, taken, value, parent>>
      /\ pc[p] = "g_value" /\ pc'[p] = "run"
      /\ on'[p] = on[p] /\ after'[p] = after[p] /\ woken'[p] = woken[p] /\ code'[p] = code[p]
      /\ \A r \in Procs : r # p => Same(r)
      /\ \A r \in Procs, c \in Pids : status'[r][c] = IF r = p /\ c = q THEN value[f] ELSE status[r][c]
  BY <1>0, <1>1 DEF WaitReturn, ProcInv, ProcTypeOK, Goto, futVars, procVars, Same
<1>3. PlacedAt(p) /\ Placed /\ FutureAt(f) /\ after[p] = "g_value"
  BY <1>2 DEF ProcInv, Placed, PlacedAt, FuturesExact, GetLocs
<1>4. \A s \in Procs : ~Sets(s, f)
  BY <1>0, <1>2, GetterAlone
<1>5. ASSUME NEW g
      PROVE  /\ g # f => SameView(p, g)
             /\ Holds(p, g)' <=> Holds(p, g)
             /\ Sets(p, g)' <=> Sets(p, g)
             /\ ~Gets(p, g)'
             /\ Gets(p, g) <=> g = f
  BY <1>0, <1>2, <1>3 DEF SameView, Gets, Sets, Signalled, Holds, GetLocs, SetLocs
<1>6. \A r \in Procs : \A g : r # p => SameView(r, g) /\ (Holds(r, g)' <=> Holds(r, g))
  BY <1>2, SameViews
<1>7. pc[q] = "dead" /\ value[f] = code[q] /\ q # p
  <2>1. ~Sets(q, f) /\ parent[q] # Nobody
    BY <1>1, <1>4, ProcessFacts
  <2>2. pc[q] = "dead"
    BY <1>1, <2>1 DEF Sets
  <2> QED BY <1>1, <1>2, <2>2 DEF ProcInv, ExitKept, Ends
<1>8. Placed'
  <2>1. PlacedAt(p)'
    BY <1>2, <1>3 DEF PlacedAt, GetLocs, SetLocs
  <2> QED BY <1>2, <2>1, PlacedKept DEF Placed
<1>9. LiveExact'
  <2>1. \A r \in Procs : Gets(r, SyncOf(r))' <=> Gets(r, SyncOf(r))
    BY <1>1, <1>5, <1>6, FutureFacts DEF SameView
  <2> QED BY <1>2, <2>1, LiveKept DEF Same
<1>10. LockOne'
  BY <1>2, <1>5, <1>6, LockKept
<1>11. OneSetter'
  BY <1>5, <1>6, SettersKept DEF SameView
<1>12. FutureAt(f)'
  <2>1. \A r \in Procs : Gets(r, f) => r = p
    BY <1>0, GetterFacts DEF ProcInv
  <2>2. \A r \in Procs : ~Gets(r, f)'
    BY <1>5, <1>6, <2>1 DEF SameView
  <2>3. \A r \in Procs : ~Sets(r, f)'
    BY <1>4, <1>5, <1>6 DEF SameView
  <2>4. waiting[f] = << >> /\ count[f] = 1
    BY <1>0, <1>2, <1>3, <1>4, <2>1 DEF FutureAt, IsSet
  <2> QED BY <1>2, <2>2, <2>3, <2>4 DEF FutureAt, Unset, Setting, IsSet
<1>13. FuturesExact'
  BY <1>2, <1>5, <1>6, <1>12, FutureKept DEF ProcInv, FuturesExact
<1>14. ExitKept'
  <2>1. ASSUME NEW c \in Pids, Ends(c)' PROVE value[ExitOf(c)] = code'[c]
    BY <1>2, <2>1, ProcessFacts DEF ProcInv, ExitKept, Ends, Same, SetLocs
  <2>2. ASSUME NEW c \in Pids, NEW r \in Procs, status'[r][c] # NoCode
        PROVE  parent[c] = r /\ pc'[c] = "dead" /\ status'[r][c] = code'[c]
    <3>1. CASE r = p /\ c = q
      BY <1>1, <1>2, <1>7, <3>1, ProcessFacts DEF Same
    <3>2. CASE ~(r = p /\ c = q)
      <4>1. parent[c] = r /\ pc[c] = "dead" /\ status[r][c] = code[c]
        BY <1>2, <2>2, <3>2 DEF ProcInv, ExitKept
      <4> QED BY <1>2, <2>2, <3>2, <4>1, ProcessFacts DEF Same
    <3> QED BY <3>1, <3>2
  <2>3. ASSUME NEW c \in Pids, pidMap[c] = "null" PROVE status'[parent[c]][c] # NoCode
    <3>1. c # q /\ status[parent[c]][c] # NoCode
      BY <1>1, <2>3 DEF ProcInv, ExitKept
    <3>2. parent[c] \in Procs
      BY <2>3, ProcessFacts DEF ProcInv, Known, ProcTypeOK
    <3> QED BY <1>2, <3>1, <3>2
  <2> QED BY <1>2, <2>1, <2>2, <2>3 DEF ExitKept, ExitOf
<1> QED BY <1>8, <1>9, <1>10, <1>11, <1>13, <1>14

-----------------------------------------------------------------------------
(* The ends of fork and close *)

\* fork returns, and its Future goes.
LEMMA ForkReturnKeeps ==
  ASSUME ProcInv, NEW p \in Procs, ForkReturn(p)
  PROVE  (Placed /\ LiveExact /\ LockOne /\ FuturesExact /\ OneSetter /\ ExitKept)'
<1>0. PICK f \in Futures : f = on[p] /\ f = SyncOf(p) /\ Gets(p, f) /\ f \in live
  BY TouchedFacts DEF ForkReturn, Touching
<1>1. /\ UNCHANGED <<pidC, pidMap, count, waiting, taken, value, parent, status>>
      /\ pc[p] = "g_value" /\ pc'[p] = "run" /\ live' = live \ {f}
      /\ on'[p] = on[p] /\ after'[p] = after[p] /\ woken'[p] = woken[p] /\ code'[p] = code[p]
      /\ \A r \in Procs : r # p => Same(r)
  BY <1>0 DEF ForkReturn, ProcInv, ProcTypeOK, Goto, futVars, procVars, Same
<1>2. PlacedAt(p) /\ Placed /\ after[p] = "g_value"
  BY <1>1 DEF ProcInv, Placed, PlacedAt, GetLocs
<1>3. \A s \in Procs : ~Sets(s, f)
  BY <1>0, <1>1, GetterAlone
<1>4. ASSUME NEW g
      PROVE  /\ g # f => SameView(p, g)
             /\ Holds(p, g)' <=> Holds(p, g)
             /\ Sets(p, g)' <=> Sets(p, g)
             /\ ~Gets(p, g)'
             /\ Gets(p, g) <=> g = f
  BY <1>0, <1>1, <1>2 DEF SameView, Gets, Sets, Signalled, Holds, GetLocs, SetLocs
<1>5. \A r \in Procs : \A g : r # p => SameView(r, g) /\ (Holds(r, g)' <=> Holds(r, g))
  BY <1>1, SameViews
<1>6. Placed'
  <2>1. PlacedAt(p)'
    BY <1>1, <1>2 DEF PlacedAt, GetLocs, SetLocs
  <2> QED BY <1>1, <2>1, PlacedKept DEF Placed
<1>7. LiveExact'
  <2>1. ASSUME NEW r \in Procs PROVE SyncOf(r) \in live' <=> Gets(r, SyncOf(r))'
    <3>1. CASE r = p
      BY <1>0, <1>1, <1>4, <3>1
    <3>2. CASE r # p
      BY <1>0, <1>1, <1>5, <3>2, FutureFacts DEF SameView, ProcInv, LiveExact
    <3> QED BY <3>1, <3>2
  <2>2. ASSUME NEW q \in Pids
        PROVE  ExitOf(q) \in live' <=>
                 pidMap'[q] = "set" /\ ~(pc'[parent'[q]] = "c_clear" /\ on'[parent'[q]] = ExitOf(q))
    <3>1. pidMap[q] = "set" => parent[q] \in Procs
      BY ProcessFacts DEF ProcInv, Known, ProcTypeOK
    <3>2. ExitOf(q) \in live' <=> ExitOf(q) \in live
      BY <1>0, <1>1, FutureFacts
    <3> QED BY <1>1, <3>1, <3>2 DEF ProcInv, LiveExact, Same
  <2> QED BY <2>1, <2>2 DEF LiveExact, SyncOf, ExitOf
<1>8. LockOne'
  BY <1>1, <1>4, <1>5, LockKept
<1>9. OneSetter'
  BY <1>4, <1>5, SettersKept DEF SameView
<1>10. FutureAt(f)'
  <2>1. \A s \in Procs : ~Sets(s, f)'
    BY <1>3, <1>4, <1>5 DEF SameView
  <2> QED BY <1>1, <2>1 DEF FutureAt, Unset, Setting, IsSet
<1>11. FuturesExact'
  BY <1>1, <1>4, <1>5, <1>10, FutureKept DEF ProcInv, FuturesExact
<1>12. ExitKept'
  BY <1>1, ExitsKept, ProcessFacts DEF Ends, Same, SetLocs
<1> QED BY <1>6, <1>7, <1>8, <1>9, <1>11, <1>12

\* close deletes the Future of a child that is gone and that nobody waits for.
LEMMA CloseResetKeeps ==
  ASSUME ProcInv, NEW p \in Procs, CloseReset(p)
  PROVE  (Placed /\ LiveExact /\ LockOne /\ FuturesExact /\ OneSetter /\ ExitKept)'
<1>0. PICK q \in Pids : Child(p, q) /\ status[p][q] # NoCode /\ pidMap[q] = "set"
  BY DEF CloseReset, ProcInv, Placed, PlacedAt
<1>a. PICK f \in Futures : f = ExitOf(q) /\ on[p] = f /\ parent[q] = p
  BY <1>0, FutureFacts, ProcessFacts DEF Child
<1>1. /\ UNCHANGED <<pidC, pidMap, count, waiting, taken, value, parent, status>>
      /\ pc[p] = "c_reset" /\ pc'[p] = "c_clear" /\ live' = live \ {f}
      /\ on'[p] = on[p] /\ after'[p] = after[p] /\ woken'[p] = woken[p] /\ code'[p] = code[p]
      /\ \A r \in Procs : r # p => Same(r)
  BY <1>a DEF CloseReset, ProcInv, ProcTypeOK, Goto, futVars, procVars, Same
<1>2. PlacedAt(p) /\ Placed
  BY DEF ProcInv, Placed
<1>3. \A s \in Procs : ~Sets(s, f)
  BY <1>0, <1>a, FutureFacts DEF Sets, ProcInv, ExitKept
<1>4. ASSUME NEW g PROVE SameView(p, g) /\ (Holds(p, g)' <=> Holds(p, g))
  BY <1>1 DEF SameView, Gets, Sets, Signalled, Holds, GetLocs, SetLocs
<1>5. \A r \in Procs : \A g : SameView(r, g) /\ (Holds(r, g)' <=> Holds(r, g))
  BY <1>1, <1>4, SameViews
<1>6. Placed'
  <2>1. Child(p, q)'
    BY <1>0, <1>1 DEF Child
  <2>2. PlacedAt(p)'
    BY <1>0, <1>1, <1>2, <2>1 DEF PlacedAt, GetLocs, SetLocs
  <2> QED BY <1>1, <2>2, PlacedKept DEF Placed
<1>7. LiveExact'
  <2>1. ASSUME NEW r \in Procs PROVE SyncOf(r) \in live' <=> Gets(r, SyncOf(r))'
    BY <1>a, <1>1, <1>5, FutureFacts DEF SameView, ProcInv, LiveExact
  <2>2. ASSUME NEW c \in Pids
        PROVE  ExitOf(c) \in live' <=>
                 pidMap'[c] = "set" /\ ~(pc'[parent'[c]] = "c_clear" /\ on'[parent'[c]] = ExitOf(c))
    <3>1. pidMap[c] = "set" => parent[c] \in Procs
      BY ProcessFacts DEF ProcInv, Known, ProcTypeOK
    <3>2. CASE c = q
      BY <1>a, <1>1, <3>2
    <3>3. CASE c # q
      <4>1. ExitOf(c) \in live' <=> ExitOf(c) \in live
        BY <1>a, <1>1, <3>3, FutureFacts
      <4>2. on[p] # ExitOf(c)
        BY <1>a, <3>3, FutureFacts
      <4> QED BY <1>1, <3>1, <4>1, <4>2 DEF ProcInv, LiveExact, Same
    <3> QED BY <3>2, <3>3
  <2> QED BY <2>1, <2>2 DEF LiveExact, SyncOf, ExitOf
<1>8. LockOne'
  BY <1>1, <1>5, LockKept
<1>9. OneSetter'
  BY <1>5, SettersKept DEF SameView
<1>10. FutureAt(f)'
  <2>1. \A s \in Procs : ~Sets(s, f)'
    BY <1>3, <1>5 DEF SameView
  <2> QED BY <1>1, <2>1 DEF FutureAt, Unset, Setting, IsSet
<1>11. FuturesExact'
  BY <1>1, <1>5, <1>10, FutureKept DEF ProcInv, FuturesExact
<1>12. ExitKept'
  BY <1>1, ExitsKept, ProcessFacts DEF Ends, Same, SetLocs
<1> QED BY <1>6, <1>7, <1>8, <1>9, <1>11, <1>12

\* close clears the pointer to the Future that is gone.
LEMMA CloseClearKeeps ==
  ASSUME ProcInv, NEW p \in Procs, CloseClear(p)
  PROVE  (Placed /\ LiveExact /\ LockOne /\ FuturesExact /\ OneSetter /\ ExitKept)'
<1>0. PICK q \in Pids : Child(p, q) /\ status[p][q] # NoCode /\ pidMap[q] = "set"
  BY DEF CloseClear, ProcInv, Placed, PlacedAt
<1>a. PICK f \in Futures : f = ExitOf(q) /\ on[p] = f /\ parent[q] = p /\ on[p][2] = q
  BY <1>0, FutureFacts, ProcessFacts DEF Child
<1>1. /\ UNCHANGED <<pidC, live, count, waiting, taken, value, parent, status>>
      /\ pc[p] = "c_clear" /\ pc'[p] = "run"
      /\ \A c \in Pids : pidMap'[c] = IF c = q THEN "null" ELSE pidMap[c]
      /\ on'[p] = on[p] /\ after'[p] = after[p] /\ woken'[p] = woken[p] /\ code'[p] = code[p]
      /\ \A r \in Procs : r # p => Same(r)
  BY <1>a DEF CloseClear, ProcInv, ProcTypeOK, Goto, futVars, procVars, Same
<1>2. PlacedAt(p) /\ Placed
  BY DEF ProcInv, Placed
<1>4. ASSUME NEW g PROVE SameView(p, g) /\ (Holds(p, g)' <=> Holds(p, g))
  BY <1>1 DEF SameView, Gets, Sets, Signalled, Holds, GetLocs, SetLocs
<1>5. \A r \in Procs : \A g : SameView(r, g) /\ (Holds(r, g)' <=> Holds(r, g))
  BY <1>1, <1>4, SameViews
<1>6. Placed'
  <2>1. PlacedAt(p)'
    BY <1>1, <1>2 DEF PlacedAt, GetLocs, SetLocs
  <2>2. ASSUME NEW r \in Procs, r # p PROVE PlacedAt(r)'
    BY <1>a, <1>1, <2>2, PlacedKept
  <2> QED BY <2>1, <2>2 DEF Placed
<1>7. LiveExact'
  <2>1. ASSUME NEW r \in Procs PROVE SyncOf(r) \in live' <=> Gets(r, SyncOf(r))'
    BY <1>1, <1>5 DEF SameView, ProcInv, LiveExact
  <2>2. ASSUME NEW c \in Pids
        PROVE  ExitOf(c) \in live' <=>
                 pidMap'[c] = "set" /\ ~(pc'[parent'[c]] = "c_clear" /\ on'[parent'[c]] = ExitOf(c))
    <3>1. pidMap[c] = "set" => parent[c] \in Procs
      BY ProcessFacts DEF ProcInv, Known, ProcTypeOK
    <3>2. CASE c = q
      <4>1. ExitOf(q) \notin live
        BY <1>a, <1>1 DEF ProcInv, LiveExact
      <4> QED BY <1>1, <3>2, <4>1
    <3>3. CASE c # q
      <4>1. on[p] # ExitOf(c)
        BY <1>a, <3>3, FutureFacts
      <4> QED BY <1>1, <3>1, <3>3, <4>1 DEF ProcInv, LiveExact, Same
    <3> QED BY <3>2, <3>3
  <2> QED BY <2>1, <2>2 DEF LiveExact, SyncOf, ExitOf
<1>8. LockOne'
  BY <1>1, <1>5, LockKept
<1>9. OneSetter'
  BY <1>5, SettersKept DEF SameView
<1>10. FuturesExact'
  BY <1>1, <1>5, FutureKept DEF ProcInv, FuturesExact
<1>11. ExitKept'
  <2>1. ASSUME NEW c \in Pids, Ends(c)' PROVE value[ExitOf(c)] = code'[c]
    BY <1>1, <2>1, ProcessFacts DEF ProcInv, ExitKept, Ends, Same, SetLocs
  <2>2. ASSUME NEW c \in Pids, NEW r \in Procs, status[r][c] # NoCode
        PROVE  parent[c] = r /\ pc'[c] = "dead" /\ status[r][c] = code'[c]
    BY <1>1, <2>2, ProcessFacts DEF ProcInv, ExitKept, Same
  <2>3. ASSUME NEW c \in Pids, pidMap'[c] = "null" PROVE status[parent[c]][c] # NoCode
    <3>1. CASE c = q
      BY <1>0, <1>a, <3>1
    <3>2. CASE c # q
      BY <1>1, <2>3, <3>2 DEF ProcInv, ExitKept
    <3> QED BY <3>1, <3>2
  <2> QED BY <1>1, <2>1, <2>2, <2>3 DEF ExitKept, ExitOf
<1> QED BY <1>6, <1>7, <1>8, <1>9, <1>10, <1>11

-----------------------------------------------------------------------------
(* The beginnings of fork *)

\* Nobody does anything with a Future that does not exist.
LEMMA DeadFutures ==
  ASSUME ProcInv, NEW f \in Futures, f \notin live
  PROVE  \A r \in Procs : ~Gets(r, f) /\ ~Sets(r, f) /\ ~Holds(r, f)
<1>1. \A r \in Procs : ~Gets(r, f)
  BY GetterFacts DEF ProcInv
<1>2. \A r \in Procs : ~Sets(r, f)
  BY SetterFacts DEF ProcInv
<1>3. ASSUME NEW r \in Procs, Holds(r, f) PROVE FALSE
  BY <1>3, TouchedFacts DEF Holds, Touching
<1> QED BY <1>1, <1>2, <1>3

\* thread() makes the child, and the parent goes to wait for it.
LEMMA ForkThreadKeeps ==
  ASSUME ProcInv, NEW p \in Procs, ForkThread(p)
  PROVE  (Placed /\ LiveExact /\ LockOne /\ FuturesExact /\ OneSetter /\ ExitKept)'
<1>0. PICK c \in Pids : /\ pc[p] = "f_thread" /\ pc[c] = "none" /\ parent[c] = p /\ c # p
                        /\ pc' = [pc EXCEPT ![p] = "down", ![c] = "copy"]
  BY DEF ForkThread, Unborn
<1>a. PICK f \in Futures : f = SyncOf(p)
  BY FutureFacts
<1>1. /\ UNCHANGED <<pidC, pidMap, parent, status, code, woken>>
      /\ live' = live \cup {f} /\ count'[f] = 0 /\ waiting'[f] = << >>
      /\ taken' = [taken EXCEPT ![f] = FALSE] /\ value' = [value EXCEPT ![f] = NoCode]
      /\ \A g \in Futures : g # f => count'[g] = count[g] /\ waiting'[g] = waiting[g]
      /\ pc'[p] = "down" /\ on'[p] = f /\ after'[p] = "g_value"
      /\ pc'[c] = "copy" /\ on'[c] = on[c] /\ after'[c] = after[c]
      /\ \A r \in Procs : r # p /\ r # c => Same(r)
  <2>1. /\ UNCHANGED <<pidC, pidMap, parent, status, code, woken>>
        /\ live' = live \cup {f} /\ count' = [count EXCEPT ![f] = 0]
        /\ waiting' = [waiting EXCEPT ![f] = << >>]
        /\ taken' = [taken EXCEPT ![f] = FALSE] /\ value' = [value EXCEPT ![f] = NoCode]
        /\ on' = [on EXCEPT ![p] = f] /\ after' = [after EXCEPT ![p] = "g_value"]
    BY <1>a DEF ForkThread, Construct, procVars
  <2>2. /\ count'[f] = 0 /\ waiting'[f] = << >>
        /\ \A g \in Futures : g # f => count'[g] = count[g] /\ waiting'[g] = waiting[g]
    BY <2>1 DEF ProcInv, ProcTypeOK
  <2>3. /\ c \in Procs /\ pc'[p] = "down" /\ pc'[c] = "copy"
        /\ \A r \in Procs : r # p /\ r # c => pc'[r] = pc[r]
    BY <1>0, ProcessFacts DEF ProcInv, ProcTypeOK
  <2>4. /\ on'[p] = f /\ after'[p] = "g_value"
        /\ \A r \in Procs : r # p => on'[r] = on[r] /\ after'[r] = after[r]
    BY <2>1 DEF ProcInv, ProcTypeOK
  <2> QED BY <1>0, <2>1, <2>2, <2>3, <2>4 DEF Same
<1>2. /\ PlacedAt(p) /\ PlacedAt(c) /\ Placed /\ c \in Procs /\ c # First
      /\ woken[p] = Nobody /\ code[p] = NoCode /\ woken[c] = Nobody /\ code[c] = NoCode
  BY <1>0, ProcessFacts DEF ProcInv, Placed, PlacedAt, SetLocs
<1>3. f \notin live
  BY <1>a, <1>0 DEF ProcInv, LiveExact, Gets, GetLocs
<1>4. \A r \in Procs : ~Gets(r, f) /\ ~Sets(r, f) /\ ~Holds(r, f)
  BY <1>3, DeadFutures
<1>5. ASSUME NEW g
      PROVE  /\ \A r \in Procs : r # p /\ r # c => SameView(r, g)
             /\ \A r \in Procs : Holds(r, g)' => Holds(r, g)
             /\ g # f => SameView(p, g) /\ SameView(c, g)
             /\ Gets(p, g)' <=> g = f
             /\ ~Gets(c, g)' /\ ~Signalled(c, g)' /\ ~Signalled(p, g)'
             /\ Sets(p, g)' <=> Sets(p, g)
             /\ Sets(c, g)' <=> (Sets(c, g) \/ g = f)
  <2>1. \A r \in Procs : r # p /\ r # c => SameView(r, g) /\ (Holds(r, g)' <=> Holds(r, g))
    BY <1>1, SameViews
  <2>2. /\ ~Holds(p, g)' /\ ~Holds(c, g)' /\ ~Signalled(c, g)' /\ ~Signalled(p, g)'
        /\ ~Signalled(p, g) /\ ~Signalled(c, g)
    BY <1>0, <1>1 DEF Holds, Signalled
  <2>3. /\ Gets(p, g)' <=> g = f
        /\ ~Gets(p, g) /\ ~Gets(c, g) /\ ~Gets(c, g)'
    BY <1>0, <1>1 DEF Gets, GetLocs
  <2>4. Sets(p, g)' <=> Sets(p, g)
    BY <1>0, <1>1 DEF Sets, SetLocs
  <2>5. Sets(c, g)' <=> (Sets(c, g) \/ g = f)
    BY <1>0, <1>1, <1>a, <1>2, ProcessFacts DEF Sets, SetLocs
  <2> QED BY <2>1, <2>2, <2>3, <2>4, <2>5 DEF SameView
<1>6. Placed'
  <2>1. PlacedAt(p)'
    BY <1>a, <1>1, <1>2 DEF PlacedAt, GetLocs, SetLocs
  <2>2. PlacedAt(c)'
    BY <1>1, <1>2 DEF PlacedAt, GetLocs, SetLocs
  <2>3. ASSUME NEW r \in Procs, r # p, r # c PROVE PlacedAt(r)'
    BY <1>1, <2>3, PlacedKept
  <2> QED BY <2>1, <2>2, <2>3 DEF Placed
<1>7. LiveExact'
  <2>1. ASSUME NEW r \in Procs PROVE SyncOf(r) \in live' <=> Gets(r, SyncOf(r))'
    <3>1. CASE r = p
      BY <1>a, <1>1, <1>5, <3>1
    <3>2. CASE r # p
      <4>1. SyncOf(r) # f
        BY <1>a, <3>2, FutureFacts
      <4>2. Gets(r, SyncOf(r))' <=> Gets(r, SyncOf(r))
        BY <1>5, <3>2, <4>1 DEF SameView
      <4> QED BY <1>1, <4>1, <4>2 DEF ProcInv, LiveExact
    <3> QED BY <3>1, <3>2
  <2>2. ASSUME NEW q \in Pids
        PROVE  ExitOf(q) \in live' <=>
                 pidMap'[q] = "set" /\ ~(pc'[parent'[q]] = "c_clear" /\ on'[parent'[q]] = ExitOf(q))
    <3>1. pidMap[q] = "set" => parent[q] \in Procs
      BY ProcessFacts DEF ProcInv, Known, ProcTypeOK
    <3>2. ExitOf(q) \in live' <=> ExitOf(q) \in live
      BY <1>a, <1>1, FutureFacts
    <3>3. \A r \in Procs : /\ pc'[r] = "c_clear" <=> pc[r] = "c_clear"
                           /\ pc[r] = "c_clear" => on'[r] = on[r]
      BY <1>0, <1>1 DEF Same
    <3> QED BY <1>1, <3>1, <3>2, <3>3 DEF ProcInv, LiveExact
  <2> QED BY <2>1, <2>2 DEF LiveExact, SyncOf, ExitOf
<1>8. LockOne'
  <2>1. \A r \in Procs, g \in Futures : Holds(r, g)' => Holds(r, g) /\ taken'[g] = taken[g]
    BY <1>1, <1>4, <1>5 DEF ProcInv, ProcTypeOK
  <2> QED BY <2>1 DEF ProcInv, LockOne
<1>9. OneSetter'
  <2> SUFFICES ASSUME NEW q \in Procs, NEW r \in Procs, NEW g \in Futures, Sets(q, g)', Sets(r, g)'
               PROVE  q = r
    BY DEF OneSetter
  <2>1. CASE g = f
    <3>1. \A s \in Procs : Sets(s, f)' => s = c
      BY <1>2, <1>4, <1>5 DEF SameView
    <3> QED BY <2>1, <3>1
  <2>2. CASE g # f
    <3>1. Sets(q, g) /\ Sets(r, g)
      BY <1>2, <1>5, <2>2 DEF SameView
    <3> QED BY <3>1 DEF ProcInv, OneSetter
  <2> QED BY <2>1, <2>2
<1>10. FutureAt(f)'
  <2>1. Sets(c, f)' /\ ~Signalled(c, f)' /\ \A s \in Procs : Sets(s, f)' => s = c
    BY <1>2, <1>4, <1>5 DEF SameView
  <2>2. \A r \in Procs : Gets(r, f)' <=> r = p
    BY <1>2, <1>4, <1>5 DEF SameView
  <2>3. Unset(f)'
    BY <1>1, <2>1, <2>2, QueueFacts DEF Unset
  <2> QED BY <1>2, <2>1, <2>3 DEF FutureAt, Setting, IsSet
<1>11. FuturesExact'
  <2>1. ASSUME NEW g \in Futures, g # f PROVE FutureAt(g)'
    <3>1. \A r \in Procs : SameView(r, g)
      BY <1>5, <2>1
    <3>2. FutureAt(g) /\ (g \in live' <=> g \in live)
      BY <1>1, <2>1 DEF ProcInv, FuturesExact
    <3> QED BY <1>1, <2>1, <3>1, <3>2, FutureKept
  <2> QED BY <1>10, <2>1 DEF FuturesExact
<1>12. ExitKept'
  <2>1. \A q \in Pids : value'[ExitOf(q)] = value[ExitOf(q)]
    BY <1>a, <1>1, FutureFacts, ProcessFacts DEF ProcInv, ProcTypeOK
  <2>2. \A q \in Pids : (Ends(q)' => Ends(q)) /\ (pc[q] = "dead" => pc'[q] = "dead")
    BY <1>0, <1>1, ProcessFacts DEF Ends, Same, SetLocs
  <2> QED BY <1>1, <2>1, <2>2 DEF ProcInv, ExitKept, ExitOf
<1> QED BY <1>6, <1>7, <1>8, <1>9, <1>11, <1>12

\* nextPID makes the Future of the child that fork is about to make.
LEMMA ForkKeeps ==
  ASSUME ProcInv, NEW p \in Procs, Fork(p)
  PROVE  (Placed /\ LiveExact /\ LockOne /\ FuturesExact /\ OneSetter /\ ExitKept)'
<1>0. PICK q \in Pids : /\ q = pidC + 1 /\ pidMap[q] = "none" /\ parent[q] = Nobody /\ pc[q] = "none"
                        /\ pc[p] = "run" /\ q # p
  BY ChildFacts DEF Fork, ProcInv
<1>a. PICK f \in Futures : f = ExitOf(q)
  BY FutureFacts, ProcessFacts
<1>1. /\ UNCHANGED <<on, after, woken, code, status>>
      /\ pidMap' = [pidMap EXCEPT ![q] = "set"] /\ parent' = [parent EXCEPT ![q] = p]
      /\ live' = live \cup {f} /\ count'[f] = 0 /\ waiting'[f] = << >>
      /\ taken' = [taken EXCEPT ![f] = FALSE] /\ value' = [value EXCEPT ![f] = NoCode]
      /\ \A g \in Futures : g # f => count'[g] = count[g] /\ waiting'[g] = waiting[g]
      /\ pc'[p] = "f_thread" /\ \A r \in Procs : r # p => Same(r)
  <2>1. /\ UNCHANGED <<on, after, woken, code, status>>
        /\ pidMap' = [pidMap EXCEPT ![q] = "set"] /\ parent' = [parent EXCEPT ![q] = p]
        /\ live' = live \cup {f} /\ count' = [count EXCEPT ![f] = 0]
        /\ waiting' = [waiting EXCEPT ![f] = << >>]
        /\ taken' = [taken EXCEPT ![f] = FALSE] /\ value' = [value EXCEPT ![f] = NoCode]
        /\ pc' = [pc EXCEPT ![p] = "f_thread"]
    BY <1>0, <1>a DEF Fork, Construct, Goto
  <2>2. /\ count'[f] = 0 /\ waiting'[f] = << >>
        /\ \A g \in Futures : g # f => count'[g] = count[g] /\ waiting'[g] = waiting[g]
    BY <2>1 DEF ProcInv, ProcTypeOK
  <2>3. pc'[p] = "f_thread" /\ \A r \in Procs : r # p => Same(r)
    BY <2>1 DEF ProcInv, ProcTypeOK, Same
  <2> QED BY <2>1, <2>2, <2>3
<1>2. /\ PlacedAt(p) /\ Placed /\ q \in Procs
      /\ woken[p] = Nobody /\ code[p] = NoCode
      /\ \A r \in Pids : parent'[r] = IF r = q THEN p ELSE parent[r]
      /\ \A r \in Procs : r # q => parent'[r] = parent[r]
      /\ \A r \in Pids : pidMap'[r] = IF r = q THEN "set" ELSE pidMap[r]
  <2>1. PlacedAt(p) /\ Placed /\ q \in Procs
    BY ProcessFacts DEF ProcInv, Placed
  <2>2. woken[p] = Nobody /\ code[p] = NoCode
    BY <1>0, <2>1 DEF PlacedAt, SetLocs
  <2>3. /\ \A r \in Pids : parent'[r] = IF r = q THEN p ELSE parent[r]
        /\ \A r \in Procs : r # q => parent'[r] = parent[r]
        /\ \A r \in Pids : pidMap'[r] = IF r = q THEN "set" ELSE pidMap[r]
    BY <1>1, ProcessFacts DEF ProcInv, ProcTypeOK
  <2> QED BY <2>1, <2>2, <2>3
<1>3. f \notin live
  BY <1>a, <1>0 DEF ProcInv, LiveExact
<1>4. \A r \in Procs : ~Gets(r, f) /\ ~Sets(r, f) /\ ~Holds(r, f)
  BY <1>3, DeadFutures
<1>5. ASSUME NEW g
      PROVE  /\ \A r \in Procs : r # q => SameView(r, g)
             /\ \A r \in Procs : Holds(r, g)' => Holds(r, g)
             /\ g # f => SameView(q, g)
             /\ Gets(q, g)' <=> Gets(q, g)
             /\ ~Signalled(q, g)'
             /\ Sets(q, g)' <=> g = f
  <2>1. \A r \in Procs : r # p /\ r # q => SameView(r, g) /\ (Holds(r, g)' <=> Holds(r, g))
    BY <1>1, <1>2, SameViews
  <2>2. /\ ~Holds(p, g)' /\ ~Holds(q, g)' /\ ~Signalled(q, g)' /\ ~Signalled(q, g)
    BY <1>0, <1>1, <1>2 DEF Holds, Signalled, Same
  <2>3. SameView(p, g)
    BY <1>0, <1>1, <1>2 DEF SameView, Gets, GetLocs, Sets, SetLocs, Signalled
  <2>4. ~Gets(q, g)' /\ ~Gets(q, g)
    BY <1>0, <1>1, <1>2 DEF Gets, GetLocs, Same
  <2>5. /\ ~Sets(q, g)
        /\ Sets(q, g)' <=> g = f
    BY <1>0, <1>1, <1>a, <1>2, ProcessFacts DEF Sets, SetLocs, Same
  <2> QED BY <2>1, <2>2, <2>3, <2>4, <2>5 DEF SameView
<1>6. Placed'
  <2>1. PlacedAt(p)'
    BY <1>1, <1>2 DEF PlacedAt, GetLocs, SetLocs
  <2>2. ASSUME NEW r \in Procs, r # p PROVE PlacedAt(r)'
    <3>1. pc[r] # "none" => parent'[r] = parent[r]
      BY <1>0, <1>2
    <3>2. \A c \in Pids : parent[c] = r =>
            parent'[c] = r /\ pidMap'[c] = pidMap[c] /\ status'[r][c] = status[r][c]
      BY <1>0, <1>1, <1>2, ProcessFacts
    <3> QED BY <1>1, <2>2, <3>1, <3>2, PlacedKept
  <2> QED BY <2>1, <2>2 DEF Placed
<1>7. LiveExact'
  <2>1. ASSUME NEW r \in Procs PROVE SyncOf(r) \in live' <=> Gets(r, SyncOf(r))'
    <3>1. Gets(r, SyncOf(r))' <=> Gets(r, SyncOf(r))
      BY <1>5 DEF SameView
    <3> QED BY <1>a, <1>1, <3>1, FutureFacts DEF ProcInv, LiveExact
  <2>2. ASSUME NEW c \in Pids
        PROVE  ExitOf(c) \in live' <=>
                 pidMap'[c] = "set" /\ ~(pc'[parent'[c]] = "c_clear" /\ on'[parent'[c]] = ExitOf(c))
    <3>1. CASE c = q
      BY <1>a, <1>1, <1>2, <3>1
    <3>2. CASE c # q
      <4>1. pidMap[c] = "set" => parent[c] \in Procs
        BY ProcessFacts DEF ProcInv, Known, ProcTypeOK
      <4>2. ExitOf(c) \in live' <=> ExitOf(c) \in live
        BY <1>a, <1>1, <3>2, FutureFacts
      <4>3. \A r \in Procs : pc'[r] = "c_clear" <=> pc[r] = "c_clear"
        BY <1>0, <1>1 DEF Same
      <4> QED BY <1>1, <1>2, <3>2, <4>1, <4>2, <4>3 DEF ProcInv, LiveExact
    <3> QED BY <3>1, <3>2
  <2> QED BY <2>1, <2>2 DEF LiveExact, SyncOf, ExitOf
<1>8. LockOne'
  <2>1. \A r \in Procs, g \in Futures : Holds(r, g)' => Holds(r, g) /\ taken'[g] = taken[g]
    BY <1>1, <1>4, <1>5 DEF ProcInv, ProcTypeOK
  <2> QED BY <2>1 DEF ProcInv, LockOne
<1>9. OneSetter'
  <2> SUFFICES ASSUME NEW s \in Procs, NEW r \in Procs, NEW g \in Futures, Sets(s, g)', Sets(r, g)'
               PROVE  s = r
    BY DEF OneSetter
  <2>1. CASE g = f
    <3>1. \A t \in Procs : Sets(t, f)' => t = q
      BY <1>2, <1>4, <1>5 DEF SameView
    <3> QED BY <2>1, <3>1
  <2>2. CASE g # f
    <3>1. Sets(s, g) /\ Sets(r, g)
      BY <1>2, <1>5, <2>2 DEF SameView
    <3> QED BY <3>1 DEF ProcInv, OneSetter
  <2> QED BY <2>1, <2>2
<1>10. FutureAt(f)'
  <2>1. Sets(q, f)' /\ ~Signalled(q, f)' /\ \A s \in Procs : Sets(s, f)' => s = q
    BY <1>2, <1>4, <1>5 DEF SameView
  <2>2. \A r \in Procs : ~Gets(r, f)'
    BY <1>2, <1>4, <1>5 DEF SameView
  <2>3. Unset(f)'
    BY <1>1, <2>1, <2>2, QueueFacts DEF Unset
  <2> QED BY <1>2, <2>1, <2>3 DEF FutureAt, Setting, IsSet
<1>11. FuturesExact'
  <2>1. ASSUME NEW g \in Futures, g # f PROVE FutureAt(g)'
    <3>1. \A r \in Procs : SameView(r, g)
      BY <1>5, <2>1
    <3>2. FutureAt(g) /\ (g \in live' <=> g \in live)
      BY <1>1, <2>1 DEF ProcInv, FuturesExact
    <3> QED BY <1>1, <2>1, <3>1, <3>2, FutureKept
  <2> QED BY <1>10, <2>1 DEF FuturesExact
<1>12. ExitKept'
  <2>1. \A c \in Pids : c # q => value'[ExitOf(c)] = value[ExitOf(c)]
    BY <1>a, <1>1, FutureFacts, ProcessFacts DEF ProcInv, ProcTypeOK
  <2>2. ASSUME NEW c \in Pids, Ends(c)' PROVE value'[ExitOf(c)] = code'[c]
    <3>1. Ends(c) /\ c # q
      BY <1>0, <1>1, <2>2, ProcessFacts DEF Ends, Same, SetLocs
    <3> QED BY <1>1, <2>1, <3>1 DEF ProcInv, ExitKept
  <2>3. ASSUME NEW c \in Pids, NEW r \in Procs, status[r][c] # NoCode
        PROVE  parent'[c] = r /\ pc'[c] = "dead" /\ status[r][c] = code[c]
    <3>1. parent[c] = r /\ pc[c] = "dead" /\ status[r][c] = code[c]
      BY <2>3 DEF ProcInv, ExitKept
    <3>2. c # q /\ c # p
      BY <1>0, <3>1
    <3> QED BY <1>1, <1>2, <3>1, <3>2, ProcessFacts DEF Same
  <2>4. ASSUME NEW c \in Pids, pidMap'[c] = "null" PROVE status[parent'[c]][c] # NoCode
    BY <1>2, <2>4 DEF ProcInv, ExitKept
  <2> QED BY <1>1, <2>2, <2>3, <2>4 DEF ExitKept, ExitOf
<1> QED BY <1>6, <1>7, <1>8, <1>9, <1>11, <1>12

-----------------------------------------------------------------------------
(* The invariant and the properties *)

\* The invariant holds at the start.
LEMMA ProcInit ==
  ASSUME Init
  PROVE  ProcInv
<1> USE ProcessesAssumption, ProcessFacts DEF Init
<1>1. ProcTypeOK
  <2>1. << >> \in Seq(Procs)
    OBVIOUS
  <2> QED BY <2>1 DEF ProcTypeOK, Locations
<1>2. Known
  BY DEF Known, Pids
<1>3. Placed
  BY DEF Placed, PlacedAt, SetLocs, GetLocs
<1>4. \A r \in Procs : \A f : ~Gets(r, f) /\ ~Sets(r, f) /\ ~Holds(r, f)
  BY DEF Gets, Sets, Holds, GetLocs
<1>5. LiveExact
  BY <1>4 DEF LiveExact
<1>6. LockOne /\ FuturesExact /\ OneSetter
  BY <1>4 DEF LockOne, FuturesExact, FutureAt, Unset, Setting, IsSet, OneSetter
<1>7. ExitKept
  BY DEF ExitKept, Ends, SetLocs
<1> QED BY <1>1, <1>2, <1>3, <1>5, <1>6, <1>7 DEF ProcInv

\* Every step of a process keeps it.
LEMMA ProcStep ==
  ASSUME ProcInv, NEW p \in Procs, Step(p)
  PROVE  ProcInv'
<1>1. ProcTypeOK' /\ Known'
  BY TypeStep, KnownStep DEF ProcInv
<1>2. (Placed /\ LiveExact /\ LockOne /\ FuturesExact /\ OneSetter /\ ExitKept)'
  <2>1. CASE Call(p)
    BY <2>1, ForkKeeps, ExitKeeps, WaitKeeps DEF Call
  <2>2. CASE Kernel(p)
    <3>1. CASE SetValue(p) \/ UpWake(p) \/ UpCount(p) \/ UpUnlock(p) \/ UpSchedule(p)
      BY <3>1, SetValueKeeps, UpWakeKeeps, UpCountKeeps, UpUnlockKeeps, UpScheduleKeeps
    <3>2. CASE DownTake(p) \/ DownWait(p) \/ DownUnlock(p)
      BY <3>2, DownTakeKeeps, DownWaitKeeps, DownUnlockKeeps
    <3>3. CASE ForkThread(p) \/ CopyDone(p) \/ ForkReturn(p) \/ ExitPointer(p)
      BY <3>3, ForkThreadKeeps, CopyDoneKeeps, ForkReturnKeeps, ExitPointerKeeps
    <3>4. CASE WaitNull(p) \/ WaitPointer(p) \/ WaitReturn(p)
      BY <3>4, WaitNullKeeps, WaitPointerKeeps, WaitReturnKeeps
    <3>5. CASE CloseNull(p) \/ CloseReset(p) \/ CloseClear(p)
      BY <3>5, CloseNullKeeps, CloseResetKeeps, CloseClearKeeps
    <3> QED BY <2>2, <3>1, <3>2, <3>3, <3>4, <3>5 DEF Kernel
  <2>3. CASE \E q \in Pids : CloseWaited(p, q)
    BY <2>3, CloseWaitedKeeps
  <2> QED BY <2>1, <2>2, <2>3 DEF Step
<1> QED BY <1>1, <1>2 DEF ProcInv

\* The invariant of the life of processes: who exists, where each thread is and what
\* it knows of the Future it uses, which Futures exist, who has their locks, how their
\* counts and queues follow from where the one that sets and the one that gets are, and
\* what exits leave behind.
THEOREM ProcInvariant == Spec => []ProcInv
<1>1. ASSUME ProcInv, [Next]_vars PROVE ProcInv'
  <2>1. CASE Next
    BY <1>1, <2>1, ProcStep DEF Next, Step
  <2>2. CASE UNCHANGED vars
    BY <1>1, <2>2
    DEF vars, futVars, procVars, ProcInv, ProcTypeOK, Known, Placed, PlacedAt, Child, LiveExact, LockOne,
        Holds, FuturesExact, FutureAt, Unset, Setting, IsSet, Gets, Sets, Signalled, OneSetter,
        ExitKept, Ends
  <2> QED BY <1>1, <2>1, <2>2
<1> QED BY <1>1, ProcInit, PTL DEF Spec

\* No thread touches a Future that is gone: the one on the frame of a fork that has
\* returned, or the one that close has deleted.
THEOREM FuturesOutlive == Spec => []TouchesLive
<1>1. ProcInv => TouchesLive
  <2> SUFFICES ASSUME ProcInv, NEW p \in Procs, pc[p] \in Touching \cup {"asleep"}
               PROVE  on[p] \in live
    BY DEF TouchesLive
  <2> QED BY TouchedFacts
<1> QED BY <1>1, ProcInvariant, PTL

\* What wait returns is what the child gave to exit, in every interleaving.
THEOREM WaitReturnsExitCode == Spec => []WaitGetsExitCode
<1>1. ProcInv => WaitGetsExitCode
  BY DEF ProcInv, ExitKept, WaitGetsExitCode
<1> QED BY <1>1, ProcInvariant, PTL

\* While a child copies from its parent the parent is held in fork, and it has no
\* other child that copies.
THEOREM ForkStalls == Spec => []ParentStalls
<1>1. ProcInv => ParentStalls
  <2> SUFFICES ASSUME ProcInv, NEW q \in Pids, pc[q] = "copy"
               PROVE  /\ pc[parent[q]] \in {"down", "down_queued", "asleep"}
                      /\ on[parent[q]] = SyncOf(parent[q])
                      /\ \A r \in Pids : pc[r] = "copy" /\ parent[r] = parent[q] => r = q
    BY DEF ParentStalls
  <2>1. q \in Procs /\ parent[q] \in Procs
    BY ChildFacts, ProcessFacts DEF ProcInv
  <2>2. PICK f \in Futures : f = SyncOf(parent[q])
    BY <2>1, FutureFacts
  <2>3. Sets(q, f) /\ ~Signalled(q, f) /\ f \in live
    BY <2>1, <2>2, SetterFacts DEF ProcInv, Signalled
  <2>4. Gets(parent[q], f)
    BY <2>1, <2>2, <2>3 DEF ProcInv, LiveExact
  <2>5. pc[parent[q]] \in {"down", "down_queued", "asleep"}
    BY <2>1, <2>3, <2>4 DEF ProcInv, FuturesExact, FutureAt, Unset
  <2>6. ASSUME NEW r \in Pids, pc[r] = "copy", parent[r] = parent[q] PROVE r = q
    <3>1. Sets(r, f) /\ r \in Procs
      BY <2>2, <2>6, SetterFacts, ProcessFacts DEF ProcInv
    <3> QED BY <2>1, <2>3, <3>1 DEF ProcInv, OneSetter
  <2> QED BY <2>2, <2>4, <2>5, <2>6 DEF Gets
<1> QED BY <1>1, ProcInvariant, PTL

\* No wakeup is lost between a process that waits and the one it waits for.
THEOREM WaitersKept == Spec => []SleepersKept
<1>1. ProcInv => SleepersKept
  <2> SUFFICES ASSUME ProcInv, NEW p \in Procs, pc[p] = "asleep"
               PROVE  p \in ToSet(waiting[on[p]]) \/ \E q \in Procs : woken[q] = p
    BY DEF SleepersKept, ProcInv
  <2>1. PICK f \in Futures : f = on[p] /\ f \in live /\ Gets(p, f)
    BY TouchedFacts
  <2>2. FutureAt(f) /\ \A r \in Procs : Gets(r, f) => r = p
    BY <2>1, GetterFacts DEF ProcInv, FuturesExact
  <2>3. PICK q \in Procs : Sets(q, f)
    BY <2>1, <2>2 DEF FutureAt, IsSet
  <2>4. CASE Signalled(q, f)
    <3>1. woken[q] \in Procs /\ Gets(woken[q], f)
      BY <2>1, <2>2, <2>3, <2>4 DEF FutureAt, Setting
    <3> QED BY <2>2, <3>1
  <2>5. CASE ~Signalled(q, f)
    <3>1. waiting[f] = <<p>>
      BY <2>1, <2>2, <2>3, <2>5 DEF FutureAt, Unset
    <3> QED BY <2>1, <3>1, QueueFacts
  <2> QED BY <2>4, <2>5
<1> QED BY <1>1, ProcInvariant, PTL

-----------------------------------------------------------------------------
(* Boot: the inductive invariant *)

\* Where the first processor is until it starts the others, in the loop that does, and
\* where every processor goes afterwards.
Alone    == {"entry", "pick", "init", "config", "heap", "vmm", "sys", "threads", "smp",
             "smp_done", "calibrate"}
Starting == {"ipi_init", "ipi_start", "ipi_wait"}
Late     == {"pit", "tss", "arrive", "make_main", "stop", "stopped"}

\* Where another processor is until it counts itself.
Uncounted == {"off", "reset", "entry", "pick", "init"}

BootTypeOK ==
  /\ totalProcs \in Nat /\ started \in Nat /\ here \in Nat /\ target \in Nat /\ mains \in Nat
  /\ smpInitDone \in BOOLEAN
  /\ bootPc \in [Cpus -> Alone \cup Starting \cup Late \cup Uncounted \cup {"ap_smp"}]
  /\ bootStack \in [Cpus -> {NoStack, Temp} \cup {Own(c) : c \in Cpus}]
  /\ bootPc[0] \in Alone \cup Starting \cup Late
  /\ \A c \in Cpus \ {0} : bootPc[c] \in Uncounted \cup {"ap_smp"} \cup Late

\* What the first processor has initialized when it is at a location.
MadeAt(loc) ==
  CASE loc \in {"entry", "pick", "init", "config"} -> {}
    [] loc = "heap"    -> {"config"}
    [] loc = "vmm"     -> {"config", "heap"}
    [] loc = "sys"     -> {"config", "heap", "vmm"}
    [] loc = "threads" -> {"config", "heap", "vmm", "sys"}
    [] loc = "smp"     -> {"config", "heap", "vmm", "sys", "threads"}
    [] loc \in {"smp_done", "calibrate"}
                       -> {"config", "heap", "vmm", "sys", "threads", "lapic"}
    [] OTHER           -> {"config", "heap", "vmm", "sys", "threads", "lapic", "timer"}

MadeInOrder ==
  /\ made = MadeAt(bootPc[0])
  /\ "config" \in made => totalProcs = Cardinality(Cpus)
  /\ smpInitDone <=> bootPc[0] \notin Alone \ {"calibrate"}

\* Until the first processor starts them the others are off; in the loop the ones
\* before target have been counted, the ones after it are off, and target is where the
\* interrupts have taken it; after the loop all have been counted.
OneByOne ==
  /\ bootPc[0] \in Alone =>
       /\ \A c \in Cpus \ {0} : At(c, "off")
       /\ started = IF bootPc[0] \in {"entry", "pick", "init"} THEN 0 ELSE 1
  /\ bootPc[0] \in Starting =>
       /\ target \in Cpus \ {0}
       /\ \A c \in Cpus \ {0} : c < target => bootPc[c] \notin Uncounted
       /\ \A c \in Cpus : c > target => At(c, "off")
       /\ At(0, "ipi_init") => At(target, "off")
       /\ At(0, "ipi_start") => At(target, "reset")
       /\ At(0, "ipi_wait") => bootPc[target] \notin {"off", "reset"}
       /\ started = IF bootPc[target] \in Uncounted THEN target ELSE target + 1
  /\ bootPc[0] \in Late => \A c \in Cpus \ {0} : bootPc[c] \notin Uncounted

\* The stack that goes with a location.
StackAt(c) ==
  bootStack[c] = IF bootPc[c] \in {"off", "reset", "entry", "stopped"} THEN NoStack
                 ELSE IF At(c, "pick") THEN Temp
                 ELSE Own(c)

Arrived == {c \in Cpus : bootPc[c] \in {"make_main", "stop", "stopped"}}

\* Who is the last to arrive, and that there is one such.
LastArrives ==
  /\ here = Cardinality(Arrived)
  /\ \A c \in Cpus : At(c, "make_main") => here = Cardinality(Cpus) /\ mains = 0
  /\ \A c, d \in Cpus : At(c, "make_main") /\ At(d, "make_main") => c = d
  /\ mains <= 1 /\ (mains = 1 => here = Cardinality(Cpus))

BootInv ==
  /\ BootTypeOK
  /\ MadeInOrder
  /\ OneByOne
  /\ \A c \in Cpus : StackAt(c)
  /\ LastArrives

-----------------------------------------------------------------------------
\* The processors are finitely many, 0 among them, and numbered without a gap.
LEMMA CpusAre ==
  /\ IsFiniteSet(Cpus) /\ Cardinality(Cpus) \in Nat /\ Cardinality(Cpus) >= 1
  /\ 0 \in Cpus
  /\ \A c \in Cpus : c \in Nat /\ c < Cardinality(Cpus)
  /\ \A c \in Nat : c < Cardinality(Cpus) => c \in Cpus
<1> DEFINE D == {n \in DOMAIN Madt : IsProcessor(Madt[n])}
           T == {Madt[k].id : k \in D}
           f == [k \in D |-> Madt[k].id]
<1>1. IsFiniteSet(D)
  <2>1. DOMAIN Madt = 1 .. Len(Madt) /\ Len(Madt) \in Nat
    BY BootAssumption
  <2>2. IsFiniteSet(1 .. Len(Madt))
    BY <2>1, FS_Interval
  <2> QED BY <2>1, <2>2, FS_Subset
<1>2. f \in Surjection(D, T)
  BY DEF Surjection
<1>3. IsFiniteSet(T)
  <2> HIDE DEF D, T, f
  <2> QED BY <1>1, <1>2, FS_Surjection
<1>4. IsFiniteSet(Cpus) /\ Cpus = T \cup {0}
  <2>1. Cpus = T \cup {0}
    BY DEF Cpus
  <2> HIDE DEF T
  <2> QED BY <1>3, <2>1, FS_AddElement
<1>5. Cardinality(Cpus) \in Nat
  BY <1>4, FS_CardinalityType
<1>6. Cpus = 0 .. Cardinality(Cpus) - 1
  BY BootAssumption
<1>7. 0 \in Cpus
  BY <1>4
<1> HIDE DEF D, T, f
<1>8. ASSUME NEW n \in Nat, Cpus = 0 .. n - 1
      PROVE  n >= 1 /\ (\A c \in Cpus : c \in Nat /\ c < n) /\ (\A c \in Nat : c < n => c \in Cpus)
  BY <1>7, <1>8
<1> QED BY <1>4, <1>5, <1>6, <1>7, <1>8

\* configInit counts the processors: what it passes over is processor 0, and what it
\* looks at beyond the table is no other.
LEMMA SeesAll == ProcessorsSeen = Cardinality(Cpus)
<1> DEFINE Others == {e \in Seen : IsProcessor(e) /\ e.id # 0}
           Rest == Cpus \ {0}
           g == [c \in Rest |-> [type |-> 0, id |-> c]]
<1>1. \A k \in DOMAIN Madt : Madt[k] \in [type : Nat, id : Nat] /\ k \in 1 .. Len(Madt)
  <2> DEFINE Entries == [type : Nat, id : Nat]
  <2>1. Madt \in Seq(Entries)
    BY BootAssumption
  <2> HIDE DEF Entries
  <2>2. \A k \in DOMAIN Madt : Madt[k] \in Entries /\ k \in 1 .. Len(Madt)
    BY <2>1
  <2> QED BY <2>2 DEF Entries
<1>2. g \in [Rest -> Others]
  <2> SUFFICES ASSUME NEW c \in Rest PROVE [type |-> 0, id |-> c] \in Others
    OBVIOUS
  <2>1. PICK k \in DOMAIN Madt : IsProcessor(Madt[k]) /\ Madt[k].id = c
    BY DEF Cpus
  <2>2. Madt[k] = [type |-> 0, id |-> c]
    BY <1>1, <2>1 DEF IsProcessor
  <2>3. k # 1
    BY <2>1, BootAssumption
  <2>4. k \in 2 .. Len(Madt)
    BY <1>1, <2>3, BootAssumption
  <2> QED BY <2>2, <2>4 DEF Seen, IsProcessor
<1>3. \A c, d \in Rest : g[c] = g[d] => c = d
  OBVIOUS
<1>4. \A e \in Others : \E c \in Rest : g[c] = e
  <2> SUFFICES ASSUME NEW e \in Others PROVE e.id \in Rest /\ [type |-> 0, id |-> e.id] = e
    OBVIOUS
  <2>1. e # Beyond
    BY BootAssumption
  <2>2. PICK k \in 2 .. Len(Madt) : e = Madt[k]
    BY <2>1 DEF Seen
  <2>3. k \in DOMAIN Madt /\ Len(Madt) \in Nat
    BY <2>2, BootAssumption
  <2>4. e \in [type : Nat, id : Nat]
    BY <1>1, <2>2, <2>3
  <2> QED BY <2>2, <2>3, <2>4 DEF Cpus, IsProcessor
<1>5. IsFiniteSet(Rest) /\ Cardinality(Rest) = Cardinality(Cpus) - 1
  BY CpusAre, FS_RemoveElement
<1>6. g \in Bijection(Rest, Others)
  <2> HIDE DEF g, Rest, Others
  <2> QED BY <1>2, <1>3, <1>4, Fun_IsBij
<1>7. Cardinality(Others) = Cardinality(Cpus) - 1
  <2> HIDE DEF g, Rest, Others
  <2> QED BY <1>5, <1>6, FS_Bijection DEF ExistsBijection
<1> QED BY <1>7, CpusAre DEF ProcessorsSeen

-----------------------------------------------------------------------------
(* Boot: the actions *)

\* The entry code: the temporary stack is free, since who was there before has counted itself.
LEMMA EnterKernelKeeps ==
  ASSUME BootInv, NEW c \in Cpus, EnterKernel(c)
  PROVE  BootInv'
<1>1. BootTypeOK'
  BY CpusAre, SeesAll DEF BootInv, BootTypeOK, MadeInOrder, OneByOne, EnterKernel, At, Move,
      Alone, Starting, Late, Uncounted, Own, Temp, NoStack
<1>2. MadeInOrder'
  BY CpusAre, SeesAll DEF BootInv, BootTypeOK, MadeInOrder, MadeAt, EnterKernel, At, Move, Alone,
      Starting, Late, Uncounted
<1>3. OneByOne'
  BY CpusAre DEF BootInv, BootTypeOK, MadeInOrder, MadeAt, OneByOne, EnterKernel, At, Move, Alone,
      Starting, Late, Uncounted
<1>4. \A d \in Cpus : StackAt(d)'
  BY CpusAre DEF BootInv, BootTypeOK, MadeInOrder, OneByOne, StackAt, EnterKernel, At, Move,
      Alone, Starting, Late, Uncounted
<1>5. LastArrives'
  BY CpusAre DEF BootInv, BootTypeOK, OneByOne, LastArrives, Arrived, EnterKernel, At, Move,
      Alone, Starting, Late, Uncounted
<1> QED BY <1>1, <1>2, <1>3, <1>4, <1>5 DEF BootInv

\* Its own stack: the first before SMP::init, the others after it.
LEMMA PickKernelStackKeeps ==
  ASSUME BootInv, NEW c \in Cpus, PickKernelStack(c)
  PROVE  BootInv'
<1>1. BootTypeOK'
  BY CpusAre, SeesAll DEF BootInv, BootTypeOK, MadeInOrder, OneByOne, PickKernelStack,
      KernelStack, At, Move, Alone, Starting, Late, Uncounted, Own, Temp, NoStack
<1>2. MadeInOrder'
  BY CpusAre, SeesAll DEF BootInv, BootTypeOK, MadeInOrder, MadeAt, PickKernelStack, KernelStack,
      At, Move, Alone, Starting, Late, Uncounted
<1>3. OneByOne'
  BY CpusAre DEF BootInv, BootTypeOK, MadeInOrder, MadeAt, OneByOne, PickKernelStack, KernelStack,
      At, Move, Alone, Starting, Late, Uncounted
<1>4. \A d \in Cpus : StackAt(d)'
  BY CpusAre DEF BootInv, BootTypeOK, MadeInOrder, OneByOne, StackAt, PickKernelStack,
      KernelStack, At, Move, Alone, Starting, Late, Uncounted
<1>5. LastArrives'
  BY CpusAre DEF BootInv, BootTypeOK, OneByOne, LastArrives, Arrived, PickKernelStack,
      KernelStack, At, Move, Alone, Starting, Late, Uncounted
<1> QED BY <1>1, <1>2, <1>3, <1>4, <1>5 DEF BootInv

\* The first finds 0; the others are counted one by one.
LEMMA CountStartedKeeps ==
  ASSUME BootInv, NEW c \in Cpus, CountStarted(c)
  PROVE  BootInv'
<1>1. BootTypeOK'
  BY CpusAre, SeesAll DEF BootInv, BootTypeOK, MadeInOrder, OneByOne, CountStarted, At, Move,
      Alone, Starting, Late, Uncounted, Own, Temp, NoStack
<1>2. MadeInOrder'
  BY CpusAre, SeesAll DEF BootInv, BootTypeOK, MadeInOrder, MadeAt, OneByOne, CountStarted, At,
      Move, Alone, Starting, Late, Uncounted
<1>3. OneByOne'
  BY CpusAre DEF BootInv, BootTypeOK, MadeInOrder, MadeAt, OneByOne, CountStarted, At, Move,
      Alone, Starting, Late, Uncounted
<1>4. \A d \in Cpus : StackAt(d)'
  BY CpusAre DEF BootInv, BootTypeOK, MadeInOrder, OneByOne, StackAt, CountStarted, At, Move,
      Alone, Starting, Late, Uncounted
<1>5. LastArrives'
  BY CpusAre DEF BootInv, BootTypeOK, OneByOne, LastArrives, Arrived, CountStarted, At, Move,
      Alone, Starting, Late, Uncounted
<1> QED BY <1>1, <1>2, <1>3, <1>4, <1>5 DEF BootInv

\* The processors are counted.
LEMMA ConfigInitKeeps ==
  ASSUME BootInv, NEW c \in Cpus, ConfigInit(c)
  PROVE  BootInv'
<1>1. BootTypeOK'
  BY CpusAre, SeesAll DEF BootInv, BootTypeOK, MadeInOrder, OneByOne, ConfigInit, At, Move, Alone,
      Starting, Late, Uncounted, Own, Temp, NoStack
<1>2. MadeInOrder'
  BY CpusAre, SeesAll DEF BootInv, BootTypeOK, MadeInOrder, MadeAt, ConfigInit, At, Move, Alone,
      Starting, Late, Uncounted
<1>3. OneByOne'
  BY CpusAre DEF BootInv, BootTypeOK, MadeInOrder, MadeAt, OneByOne, ConfigInit, At, Move, Alone,
      Starting, Late, Uncounted
<1>4. \A d \in Cpus : StackAt(d)'
  BY CpusAre DEF BootInv, BootTypeOK, MadeInOrder, OneByOne, StackAt, ConfigInit, At, Move, Alone,
      Starting, Late, Uncounted
<1>5. LastArrives'
  BY CpusAre DEF BootInv, BootTypeOK, OneByOne, LastArrives, Arrived, ConfigInit, At, Move, Alone,
      Starting, Late, Uncounted
<1> QED BY <1>1, <1>2, <1>3, <1>4, <1>5 DEF BootInv

\* The heap.
LEMMA InitHeapKeeps ==
  ASSUME BootInv, NEW c \in Cpus, InitHeap(c)
  PROVE  BootInv'
<1>1. BootTypeOK'
  BY CpusAre, SeesAll DEF BootInv, BootTypeOK, MadeInOrder, OneByOne, InitHeap, Make, At, Move,
      Alone, Starting, Late, Uncounted, Own, Temp, NoStack
<1>2. MadeInOrder'
  BY CpusAre, SeesAll DEF BootInv, BootTypeOK, MadeInOrder, MadeAt, InitHeap, Make, At, Move,
      Alone, Starting, Late, Uncounted
<1>3. OneByOne'
  BY CpusAre DEF BootInv, BootTypeOK, MadeInOrder, MadeAt, OneByOne, InitHeap, Make, At, Move,
      Alone, Starting, Late, Uncounted
<1>4. \A d \in Cpus : StackAt(d)'
  BY CpusAre DEF BootInv, BootTypeOK, MadeInOrder, OneByOne, StackAt, InitHeap, Make, At, Move,
      Alone, Starting, Late, Uncounted
<1>5. LastArrives'
  BY CpusAre DEF BootInv, BootTypeOK, OneByOne, LastArrives, Arrived, InitHeap, Make, At, Move,
      Alone, Starting, Late, Uncounted
<1> QED BY <1>1, <1>2, <1>3, <1>4, <1>5 DEF BootInv

\* The frames.
LEMMA InitVmmKeeps ==
  ASSUME BootInv, NEW c \in Cpus, InitVmm(c)
  PROVE  BootInv'
<1>1. BootTypeOK'
  BY CpusAre, SeesAll DEF BootInv, BootTypeOK, MadeInOrder, OneByOne, InitVmm, Make, At, Move,
      Alone, Starting, Late, Uncounted, Own, Temp, NoStack
<1>2. MadeInOrder'
  BY CpusAre, SeesAll DEF BootInv, BootTypeOK, MadeInOrder, MadeAt, InitVmm, Make, At, Move,
      Alone, Starting, Late, Uncounted
<1>3. OneByOne'
  BY CpusAre DEF BootInv, BootTypeOK, MadeInOrder, MadeAt, OneByOne, InitVmm, Make, At, Move,
      Alone, Starting, Late, Uncounted
<1>4. \A d \in Cpus : StackAt(d)'
  BY CpusAre DEF BootInv, BootTypeOK, MadeInOrder, OneByOne, StackAt, InitVmm, Make, At, Move,
      Alone, Starting, Late, Uncounted
<1>5. LastArrives'
  BY CpusAre DEF BootInv, BootTypeOK, OneByOne, LastArrives, Arrived, InitVmm, Make, At, Move,
      Alone, Starting, Late, Uncounted
<1> QED BY <1>1, <1>2, <1>3, <1>4, <1>5 DEF BootInv

\* The gate.
LEMMA InitSysKeeps ==
  ASSUME BootInv, NEW c \in Cpus, InitSys(c)
  PROVE  BootInv'
<1>1. BootTypeOK'
  BY CpusAre, SeesAll DEF BootInv, BootTypeOK, MadeInOrder, OneByOne, InitSys, Make, At, Move,
      Alone, Starting, Late, Uncounted, Own, Temp, NoStack
<1>2. MadeInOrder'
  BY CpusAre, SeesAll DEF BootInv, BootTypeOK, MadeInOrder, MadeAt, InitSys, Make, At, Move,
      Alone, Starting, Late, Uncounted
<1>3. OneByOne'
  BY CpusAre DEF BootInv, BootTypeOK, MadeInOrder, MadeAt, OneByOne, InitSys, Make, At, Move,
      Alone, Starting, Late, Uncounted
<1>4. \A d \in Cpus : StackAt(d)'
  BY CpusAre DEF BootInv, BootTypeOK, MadeInOrder, OneByOne, StackAt, InitSys, Make, At, Move,
      Alone, Starting, Late, Uncounted
<1>5. LastArrives'
  BY CpusAre DEF BootInv, BootTypeOK, OneByOne, LastArrives, Arrived, InitSys, Make, At, Move,
      Alone, Starting, Late, Uncounted
<1> QED BY <1>1, <1>2, <1>3, <1>4, <1>5 DEF BootInv

\* The threads.
LEMMA ThreadsInitKeeps ==
  ASSUME BootInv, NEW c \in Cpus, ThreadsInit(c)
  PROVE  BootInv'
<1>1. BootTypeOK'
  BY CpusAre, SeesAll DEF BootInv, BootTypeOK, MadeInOrder, OneByOne, ThreadsInit, Make, At, Move,
      Alone, Starting, Late, Uncounted, Own, Temp, NoStack
<1>2. MadeInOrder'
  BY CpusAre, SeesAll DEF BootInv, BootTypeOK, MadeInOrder, MadeAt, ThreadsInit, Make, At, Move,
      Alone, Starting, Late, Uncounted
<1>3. OneByOne'
  BY CpusAre DEF BootInv, BootTypeOK, MadeInOrder, MadeAt, OneByOne, ThreadsInit, Make, At, Move,
      Alone, Starting, Late, Uncounted
<1>4. \A d \in Cpus : StackAt(d)'
  BY CpusAre DEF BootInv, BootTypeOK, MadeInOrder, OneByOne, StackAt, ThreadsInit, Make, At, Move,
      Alone, Starting, Late, Uncounted
<1>5. LastArrives'
  BY CpusAre DEF BootInv, BootTypeOK, OneByOne, LastArrives, Arrived, ThreadsInit, Make, At, Move,
      Alone, Starting, Late, Uncounted
<1> QED BY <1>1, <1>2, <1>3, <1>4, <1>5 DEF BootInv

\* The local APIC.
LEMMA InitSmpKeeps ==
  ASSUME BootInv, NEW c \in Cpus, InitSmp(c)
  PROVE  BootInv'
<1>1. BootTypeOK'
  BY CpusAre, SeesAll DEF BootInv, BootTypeOK, MadeInOrder, OneByOne, InitSmp, Make, At, Move,
      Alone, Starting, Late, Uncounted, Own, Temp, NoStack
<1>2. MadeInOrder'
  BY CpusAre, SeesAll DEF BootInv, BootTypeOK, MadeInOrder, MadeAt, InitSmp, Make, At, Move,
      Alone, Starting, Late, Uncounted
<1>3. OneByOne'
  BY CpusAre DEF BootInv, BootTypeOK, MadeInOrder, MadeAt, OneByOne, InitSmp, Make, At, Move,
      Alone, Starting, Late, Uncounted
<1>4. \A d \in Cpus : StackAt(d)'
  BY CpusAre DEF BootInv, BootTypeOK, MadeInOrder, OneByOne, StackAt, InitSmp, Make, At, Move,
      Alone, Starting, Late, Uncounted
<1>5. LastArrives'
  BY CpusAre DEF BootInv, BootTypeOK, OneByOne, LastArrives, Arrived, InitSmp, Make, At, Move,
      Alone, Starting, Late, Uncounted
<1> QED BY <1>1, <1>2, <1>3, <1>4, <1>5 DEF BootInv

\* From here on a processor can be asked who it is.
LEMMA SetSmpInitDoneKeeps ==
  ASSUME BootInv, NEW c \in Cpus, SetSmpInitDone(c)
  PROVE  BootInv'
<1>1. BootTypeOK'
  BY CpusAre, SeesAll DEF BootInv, BootTypeOK, MadeInOrder, OneByOne, SetSmpInitDone, At, Move,
      Alone, Starting, Late, Uncounted, Own, Temp, NoStack
<1>2. MadeInOrder'
  BY CpusAre, SeesAll DEF BootInv, BootTypeOK, MadeInOrder, MadeAt, SetSmpInitDone, At, Move,
      Alone, Starting, Late, Uncounted
<1>3. OneByOne'
  BY CpusAre DEF BootInv, BootTypeOK, MadeInOrder, MadeAt, OneByOne, SetSmpInitDone, At, Move,
      Alone, Starting, Late, Uncounted
<1>4. \A d \in Cpus : StackAt(d)'
  BY CpusAre DEF BootInv, BootTypeOK, MadeInOrder, OneByOne, StackAt, SetSmpInitDone, At, Move,
      Alone, Starting, Late, Uncounted
<1>5. LastArrives'
  BY CpusAre DEF BootInv, BootTypeOK, OneByOne, LastArrives, Arrived, SetSmpInitDone, At, Move,
      Alone, Starting, Late, Uncounted
<1> QED BY <1>1, <1>2, <1>3, <1>4, <1>5 DEF BootInv

\* The timer, and the first of the others if there is one.
LEMMA CalibrateKeeps ==
  ASSUME BootInv, NEW c \in Cpus, Calibrate(c)
  PROVE  BootInv'
<1>1. BootTypeOK'
  BY CpusAre, SeesAll DEF BootInv, BootTypeOK, MadeInOrder, OneByOne, Calibrate, StartFrom, At,
      Move, Alone, Starting, Late, Uncounted, Own, Temp, NoStack
<1>2. MadeInOrder'
  BY CpusAre, SeesAll DEF BootInv, BootTypeOK, MadeInOrder, MadeAt, Calibrate, StartFrom, At,
      Move, Alone, Starting, Late, Uncounted
<1>3. OneByOne'
  BY CpusAre DEF BootInv, BootTypeOK, MadeInOrder, MadeAt, OneByOne, Calibrate, StartFrom, At,
      Move, Alone, Starting, Late, Uncounted
<1>4. \A d \in Cpus : StackAt(d)'
  BY CpusAre DEF BootInv, BootTypeOK, MadeInOrder, OneByOne, StackAt, Calibrate, StartFrom, At,
      Move, Alone, Starting, Late, Uncounted
<1>5. LastArrives'
  BY CpusAre DEF BootInv, BootTypeOK, OneByOne, LastArrives, Arrived, Calibrate, StartFrom, At,
      Move, Alone, Starting, Late, Uncounted
<1> QED BY <1>1, <1>2, <1>3, <1>4, <1>5 DEF BootInv

\* A reset takes target from off.
LEMMA IpiInitKeeps ==
  ASSUME BootInv, NEW c \in Cpus, IpiInit(c)
  PROVE  BootInv'
<1>1. BootTypeOK'
  BY CpusAre, SeesAll DEF BootInv, BootTypeOK, MadeInOrder, OneByOne, IpiInit, Ipi, At, Move,
      Alone, Starting, Late, Uncounted, Own, Temp, NoStack
<1>2. MadeInOrder'
  BY CpusAre, SeesAll DEF BootInv, BootTypeOK, MadeInOrder, MadeAt, IpiInit, Ipi, At, Move, Alone,
      Starting, Late, Uncounted
<1>3. OneByOne'
  BY CpusAre DEF BootInv, BootTypeOK, MadeInOrder, MadeAt, OneByOne, IpiInit, Ipi, At, Move,
      Alone, Starting, Late, Uncounted
<1>4. \A d \in Cpus : StackAt(d)'
  BY CpusAre DEF BootInv, BootTypeOK, MadeInOrder, OneByOne, StackAt, IpiInit, Ipi, At, Move,
      Alone, Starting, Late, Uncounted
<1>5. LastArrives'
  BY CpusAre DEF BootInv, BootTypeOK, OneByOne, LastArrives, Arrived, IpiInit, Ipi, At, Move,
      Alone, Starting, Late, Uncounted
<1> QED BY <1>1, <1>2, <1>3, <1>4, <1>5 DEF BootInv

\* The start takes target to the entry code.
LEMMA IpiStartKeeps ==
  ASSUME BootInv, NEW c \in Cpus, IpiStart(c)
  PROVE  BootInv'
<1>1. BootTypeOK'
  BY CpusAre, SeesAll DEF BootInv, BootTypeOK, MadeInOrder, OneByOne, IpiStart, Ipi, At, Move,
      Alone, Starting, Late, Uncounted, Own, Temp, NoStack
<1>2. MadeInOrder'
  BY CpusAre, SeesAll DEF BootInv, BootTypeOK, MadeInOrder, MadeAt, IpiStart, Ipi, At, Move,
      Alone, Starting, Late, Uncounted
<1>3. OneByOne'
  BY CpusAre DEF BootInv, BootTypeOK, MadeInOrder, MadeAt, OneByOne, IpiStart, Ipi, At, Move,
      Alone, Starting, Late, Uncounted
<1>4. \A d \in Cpus : StackAt(d)'
  BY CpusAre DEF BootInv, BootTypeOK, MadeInOrder, OneByOne, StackAt, IpiStart, Ipi, At, Move,
      Alone, Starting, Late, Uncounted
<1>5. LastArrives'
  BY CpusAre DEF BootInv, BootTypeOK, OneByOne, LastArrives, Arrived, IpiStart, Ipi, At, Move,
      Alone, Starting, Late, Uncounted
<1> QED BY <1>1, <1>2, <1>3, <1>4, <1>5 DEF BootInv

\* target has counted itself: on to the next, which is off, or past the loop.
LEMMA AwaitStartKeeps ==
  ASSUME BootInv, NEW c \in Cpus, AwaitStart(c)
  PROVE  BootInv'
<1>1. BootTypeOK'
  BY CpusAre, SeesAll DEF BootInv, BootTypeOK, MadeInOrder, OneByOne, AwaitStart, StartFrom, At,
      Move, Alone, Starting, Late, Uncounted, Own, Temp, NoStack
<1>2. MadeInOrder'
  BY CpusAre, SeesAll DEF BootInv, BootTypeOK, MadeInOrder, MadeAt, AwaitStart, StartFrom, At,
      Move, Alone, Starting, Late, Uncounted
<1>3. OneByOne'
  BY CpusAre DEF BootInv, BootTypeOK, MadeInOrder, MadeAt, OneByOne, AwaitStart, StartFrom, At,
      Move, Alone, Starting, Late, Uncounted
<1>4. \A d \in Cpus : StackAt(d)'
  BY CpusAre DEF BootInv, BootTypeOK, MadeInOrder, OneByOne, StackAt, AwaitStart, StartFrom, At,
      Move, Alone, Starting, Late, Uncounted
<1>5. LastArrives'
  BY CpusAre DEF BootInv, BootTypeOK, OneByOne, LastArrives, Arrived, AwaitStart, StartFrom, At,
      Move, Alone, Starting, Late, Uncounted
<1> QED BY <1>1, <1>2, <1>3, <1>4, <1>5 DEF BootInv

\* One of the others goes on.
LEMMA ApInitSmpKeeps ==
  ASSUME BootInv, NEW c \in Cpus, ApInitSmp(c)
  PROVE  BootInv'
<1>1. BootTypeOK'
  BY CpusAre, SeesAll DEF BootInv, BootTypeOK, MadeInOrder, OneByOne, ApInitSmp, Pass, At, Move,
      Alone, Starting, Late, Uncounted, Own, Temp, NoStack
<1>2. MadeInOrder'
  BY CpusAre, SeesAll DEF BootInv, BootTypeOK, MadeInOrder, MadeAt, ApInitSmp, Pass, At, Move,
      Alone, Starting, Late, Uncounted
<1>3. OneByOne'
  BY CpusAre DEF BootInv, BootTypeOK, MadeInOrder, MadeAt, OneByOne, ApInitSmp, Pass, At, Move,
      Alone, Starting, Late, Uncounted
<1>4. \A d \in Cpus : StackAt(d)'
  BY CpusAre DEF BootInv, BootTypeOK, MadeInOrder, OneByOne, StackAt, ApInitSmp, Pass, At, Move,
      Alone, Starting, Late, Uncounted
<1>5. LastArrives'
  BY CpusAre DEF BootInv, BootTypeOK, OneByOne, LastArrives, Arrived, ApInitSmp, Pass, At, Move,
      Alone, Starting, Late, Uncounted
<1> QED BY <1>1, <1>2, <1>3, <1>4, <1>5 DEF BootInv

\* The timer of a processor.
LEMMA PitInitKeeps ==
  ASSUME BootInv, NEW c \in Cpus, PitInit(c)
  PROVE  BootInv'
<1>1. BootTypeOK'
  BY CpusAre, SeesAll DEF BootInv, BootTypeOK, MadeInOrder, OneByOne, PitInit, Pass, At, Move,
      Alone, Starting, Late, Uncounted, Own, Temp, NoStack
<1>2. MadeInOrder'
  BY CpusAre, SeesAll DEF BootInv, BootTypeOK, MadeInOrder, MadeAt, PitInit, Pass, At, Move,
      Alone, Starting, Late, Uncounted
<1>3. OneByOne'
  BY CpusAre DEF BootInv, BootTypeOK, MadeInOrder, MadeAt, OneByOne, PitInit, Pass, At, Move,
      Alone, Starting, Late, Uncounted
<1>4. \A d \in Cpus : StackAt(d)'
  BY CpusAre DEF BootInv, BootTypeOK, MadeInOrder, OneByOne, StackAt, PitInit, Pass, At, Move,
      Alone, Starting, Late, Uncounted
<1>5. LastArrives'
  BY CpusAre DEF BootInv, BootTypeOK, OneByOne, LastArrives, Arrived, PitInit, Pass, At, Move,
      Alone, Starting, Late, Uncounted
<1> QED BY <1>1, <1>2, <1>3, <1>4, <1>5 DEF BootInv

\* Interrupts on.
LEMMA EnableInterruptsKeeps ==
  ASSUME BootInv, NEW c \in Cpus, EnableInterrupts(c)
  PROVE  BootInv'
<1>1. BootTypeOK'
  BY CpusAre, SeesAll DEF BootInv, BootTypeOK, MadeInOrder, OneByOne, EnableInterrupts, Pass, At,
      Move, Alone, Starting, Late, Uncounted, Own, Temp, NoStack
<1>2. MadeInOrder'
  BY CpusAre, SeesAll DEF BootInv, BootTypeOK, MadeInOrder, MadeAt, EnableInterrupts, Pass, At,
      Move, Alone, Starting, Late, Uncounted
<1>3. OneByOne'
  BY CpusAre DEF BootInv, BootTypeOK, MadeInOrder, MadeAt, OneByOne, EnableInterrupts, Pass, At,
      Move, Alone, Starting, Late, Uncounted
<1>4. \A d \in Cpus : StackAt(d)'
  BY CpusAre DEF BootInv, BootTypeOK, MadeInOrder, OneByOne, StackAt, EnableInterrupts, Pass, At,
      Move, Alone, Starting, Late, Uncounted
<1>5. LastArrives'
  BY CpusAre DEF BootInv, BootTypeOK, OneByOne, LastArrives, Arrived, EnableInterrupts, Pass, At,
      Move, Alone, Starting, Late, Uncounted
<1> QED BY <1>1, <1>2, <1>3, <1>4, <1>5 DEF BootInv

\* Who arrives was not among the arrived, so before it they were not all: it alone can
\* be the last.
LEMMA ArriveKeeps ==
  ASSUME BootInv, NEW c \in Cpus, Arrive(c)
  PROVE  BootInv'
<1>1. BootTypeOK'
  BY CpusAre, SeesAll DEF BootInv, BootTypeOK, MadeInOrder, OneByOne, Arrive, At, Move, Alone,
      Starting, Late, Uncounted, Own, Temp, NoStack
<1>2. MadeInOrder'
  BY CpusAre, SeesAll DEF BootInv, BootTypeOK, MadeInOrder, MadeAt, Arrive, At, Move, Alone,
      Starting, Late, Uncounted
<1>3. OneByOne'
  BY CpusAre DEF BootInv, BootTypeOK, MadeInOrder, MadeAt, OneByOne, Arrive, At, Move, Alone,
      Starting, Late, Uncounted
<1>4. \A d \in Cpus : StackAt(d)'
  BY CpusAre DEF BootInv, BootTypeOK, MadeInOrder, OneByOne, StackAt, Arrive, At, Move, Alone,
      Starting, Late, Uncounted
<1>5. LastArrives'
  <2>1. IsFiniteSet(Arrived) /\ Cardinality(Arrived) \in Nat
    BY CpusAre, FS_Subset, FS_CardinalityType DEF Arrived
  <2>2. c \notin Arrived /\ Arrived' = Arrived \cup {c}
    BY DEF BootInv, BootTypeOK, Arrived, Arrive, At, Move
  <2>3. Cardinality(Arrived') = Cardinality(Arrived) + 1
    BY <2>1, <2>2, FS_AddElement
  <2>4. Cardinality(Arrived) < Cardinality(Cpus)
    <3>1. Arrived \in SUBSET Cpus /\ Arrived # Cpus
      BY <2>2 DEF Arrived
    <3> QED BY <2>1, <3>1, CpusAre, FS_Subset
  <2>5. totalProcs = Cardinality(Cpus)
    BY CpusAre DEF BootInv, BootTypeOK, MadeInOrder, MadeAt, OneByOne, Arrive, At, Alone,
        Starting, Late,
       Uncounted
  <2>6. \A d \in Cpus : ~At(d, "make_main") /\ mains = 0 /\ here \in Nat
    BY <2>1, <2>4, CpusAre DEF BootInv, BootTypeOK, LastArrives
  <2> QED BY <2>3, <2>5, <2>6, CpusAre DEF BootInv, BootTypeOK, LastArrives, Arrive, At, Move
<1> QED BY <1>1, <1>2, <1>3, <1>4, <1>5 DEF BootInv

\* The thread of kernelMain: nobody else is about to make one.
LEMMA MakeMainKeeps ==
  ASSUME BootInv, NEW c \in Cpus, MakeMain(c)
  PROVE  BootInv'
<1>1. BootTypeOK'
  BY CpusAre, SeesAll DEF BootInv, BootTypeOK, MadeInOrder, OneByOne, MakeMain, At, Move, Alone,
      Starting, Late, Uncounted, Own, Temp, NoStack
<1>2. MadeInOrder'
  BY CpusAre, SeesAll DEF BootInv, BootTypeOK, MadeInOrder, MadeAt, MakeMain, At, Move, Alone,
      Starting, Late, Uncounted
<1>3. OneByOne'
  BY CpusAre DEF BootInv, BootTypeOK, MadeInOrder, MadeAt, OneByOne, MakeMain, At, Move, Alone,
      Starting, Late, Uncounted
<1>4. \A d \in Cpus : StackAt(d)'
  BY CpusAre DEF BootInv, BootTypeOK, MadeInOrder, OneByOne, StackAt, MakeMain, At, Move, Alone,
      Starting, Late, Uncounted
<1>5. LastArrives'
  BY CpusAre DEF BootInv, BootTypeOK, OneByOne, LastArrives, Arrived, MakeMain, At, Move, Alone,
      Starting, Late, Uncounted
<1> QED BY <1>1, <1>2, <1>3, <1>4, <1>5 DEF BootInv

\* A processor leaves its stack for the threads.
LEMMA StopBootKeeps ==
  ASSUME BootInv, NEW c \in Cpus, StopBoot(c)
  PROVE  BootInv'
<1>1. BootTypeOK'
  BY CpusAre, SeesAll DEF BootInv, BootTypeOK, MadeInOrder, OneByOne, StopBoot, At, Move, Alone,
      Starting, Late, Uncounted, Own, Temp, NoStack
<1>2. MadeInOrder'
  BY CpusAre, SeesAll DEF BootInv, BootTypeOK, MadeInOrder, MadeAt, StopBoot, At, Move, Alone,
      Starting, Late, Uncounted
<1>3. OneByOne'
  BY CpusAre DEF BootInv, BootTypeOK, MadeInOrder, MadeAt, OneByOne, StopBoot, At, Move, Alone,
      Starting, Late, Uncounted
<1>4. \A d \in Cpus : StackAt(d)'
  BY CpusAre DEF BootInv, BootTypeOK, MadeInOrder, OneByOne, StackAt, StopBoot, At, Move, Alone,
      Starting, Late, Uncounted
<1>5. LastArrives'
  BY CpusAre DEF BootInv, BootTypeOK, OneByOne, LastArrives, Arrived, StopBoot, At, Move, Alone,
      Starting, Late, Uncounted
<1> QED BY <1>1, <1>2, <1>3, <1>4, <1>5 DEF BootInv

-----------------------------------------------------------------------------
(* Boot: the theorems *)

\* The machine at its reset.
LEMMA InitBoots == BootInit => BootInv
<1> SUFFICES ASSUME BootInit PROVE BootInv
  OBVIOUS
<1>1. BootTypeOK
  BY CpusAre DEF BootInit, BootTypeOK, Alone, Uncounted
<1>2. MadeInOrder /\ OneByOne /\ \A c \in Cpus : StackAt(c)
  BY CpusAre DEF BootInit, MadeInOrder, MadeAt, OneByOne, StackAt, At, Alone, Starting, Late
<1>3. LastArrives
  <2>1. Arrived = {}
    BY DEF BootInit, Arrived
  <2> QED BY <2>1, FS_EmptySet DEF BootInit, LastArrives, At
<1> QED BY <1>1, <1>2, <1>3 DEF BootInv

\* Every step of a processor and of kernelMain keeps BootInv.
LEMMA BootSteps == BootInv /\ [BootNext]_bootVars => BootInv'
<1> SUFFICES ASSUME BootInv, [BootNext]_bootVars PROVE BootInv'
  OBVIOUS
<1>1. CASE KernelMain \/ UNCHANGED bootVars
  BY <1>1 DEF KernelMain, bootVars, BootInv, BootTypeOK, MadeInOrder, OneByOne, StackAt,
      LastArrives,
     Arrived, At
<1>2. ASSUME NEW c \in Cpus, KernelInit(c) PROVE BootInv'
  BY <1>2, EnterKernelKeeps, PickKernelStackKeeps, CountStartedKeeps, ConfigInitKeeps,
      InitHeapKeeps,
     InitVmmKeeps, InitSysKeeps, ThreadsInitKeeps, InitSmpKeeps, SetSmpInitDoneKeeps,
     CalibrateKeeps,
     IpiInitKeeps, IpiStartKeeps, AwaitStartKeeps, ApInitSmpKeeps, PitInitKeeps,
     EnableInterruptsKeeps,
     ArriveKeeps, MakeMainKeeps, StopBootKeeps
     DEF KernelInit
<1> QED BY <1>1, <1>2 DEF BootNext

\* For any table of processors the boot keeps BootInv: the first processor alone, then
\* the others one by one, each on its own way from then on.
THEOREM BootInvariant == BootSpec => []BootInv
<1> QED BY InitBoots, BootSteps, PTL DEF BootSpec

\* Stacks are told apart.
LEMMA StackNames ==
  /\ Temp # NoStack
  /\ \A c : Own(c) # Temp /\ Own(c) # NoStack
  /\ \A c, d : Own(c) = Own(d) => c = d
BY DEF Temp, NoStack, Own

\* Two processors never share a stack, however many there are: pickKernelStack
\* tells them apart by smpInitDone, and the temporary stack has one user at a time since
\* the first waits for each of the others.
THEOREM StacksStayApart == BootSpec => []StacksApart
<1>1. BootInv => StacksApart
  <2> SUFFICES ASSUME BootInv, NEW c \in Cpus, NEW d \in Cpus,
                      bootStack[c] # NoStack, bootStack[c] = bootStack[d]
               PROVE  c = d
    BY DEF StacksApart
  <2>1. CASE bootStack[c] = Temp
    <3>1. At(c, "pick") /\ At(d, "pick")
      BY <2>1, StackNames DEF BootInv, StackAt
    <3> QED BY <3>1, CpusAre DEF BootInv, BootTypeOK, OneByOne, At, Alone, Starting, Late, Uncounted
  <2>2. CASE bootStack[c] # Temp
    <3>1. bootStack[c] = Own(c) /\ bootStack[d] = Own(d)
      BY <2>2 DEF BootInv, StackAt
    <3> QED BY <3>1, StackNames
  <2> QED BY <2>1, <2>2
<1> QED BY <1>1, BootInvariant, PTL

\* No processor uses what has not been initialized, and there is at most one thread of
\* kernelMain, made by the last processor to arrive.
THEOREM MadeBeforeUse == BootSpec => []UsedAfterInit
<1>1. BootInv => UsedAfterInit
  <2> SUFFICES ASSUME BootInv PROVE UsedAfterInit
    OBVIOUS
  <2>1. \A c \in Cpus : Needs(bootPc[c]) \subseteq made
    BY CpusAre DEF BootInv, BootTypeOK, MadeInOrder, MadeAt, OneByOne, Needs, At, Alone, Starting,
        Late,
       Uncounted
  <2>2. ASSUME mains = 1 PROVE \A c \in Cpus : bootPc[c] \in {"stop", "stopped"}
    <3>1. Arrived \in SUBSET Cpus /\ Cardinality(Arrived) = Cardinality(Cpus)
      BY <2>2 DEF BootInv, LastArrives, Arrived
    <3>2. Arrived = Cpus
      BY <3>1, CpusAre, FS_Subset
    <3> QED BY <2>2, <3>2 DEF BootInv, LastArrives, Arrived, At
  <2> QED BY <2>1, <2>2 DEF UsedAfterInit, BootInv, LastArrives
<1> QED BY <1>1, BootInvariant, PTL
=============================================================================
