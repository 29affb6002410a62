------------------------------ MODULE Processes ------------------------------
(***************************************************************************)
(* The life of processes: fork, exit, wait, and close on a child, with the *)
(* PIDManager and the Future objects behind them (kernel/threads.h,        *)
(* kernel/future.h, kernel/sys.cc).                                        *)
(*                                                                         *)
(* A Future is in memory that goes away: the one that exit fulfils lives   *)
(* until close, the one on which fork stalls the parent is a local of the  *)
(* parent.  The model says which Futures exist, and every step that reads  *)
(* or writes a Future is a step of its own.  What a thread does that       *)
(* touches one that does not exist is not modelled: the thread is stuck,   *)
(* and TouchesLive is false.                                               *)
(*                                                                         *)
(* Semaphore::down and up are taken at the granularity of their spin lock; *)
(* that block and schedule lose nobody is shown in KernelSemaphore.        *)
(***************************************************************************)
EXTENDS Naturals, FiniteSets, SequencesExt

CONSTANTS
  MaxPid,  \* bound: how many processes are forked
  Codes,   \* exit codes
  NoCode   \* not an exit code

ASSUME ProcessesAssumption == MaxPid \in Nat /\ NoCode \notin Codes

First == 0                \* the process the kernel starts: its pid is never set
Pids  == 1 .. MaxPid
Procs == {First} \cup Pids

ExitOf(q) == <<"exit", q>>   \* the Future in pid_map[q]
SyncOf(p) == <<"sync", p>>   \* the local Future of a fork of p
Futures   == {"exit", "sync"} \X Procs
Null      == <<"null", First>>

VARIABLES
  pidC,     \* PIDManager::pid_c, counted from 0
  pidMap,   \* PIDManager::pid_map: per pid "none", "set" or "null"
  live,     \* the Futures that exist
  count,    \* per Future: the count of isReady
  waiting,  \* per Future: the waiting queue of isReady
  taken,    \* per Future: the lock of isReady
  value,    \* per Future
  pc,       \* per process: where its thread is
  on,       \* per process: the Future it uses
  after,    \* per process: where it goes when it is done with the Future
  woken,    \* per process: the local t of up
  parent,   \* per process
  code,     \* per process: the argument of its exit
  status    \* per process: for each child the last status wait has returned

futVars  == <<count, waiting, taken, value>>
procVars == <<parent, code, status>>
vars     == <<pidC, pidMap, live, futVars, pc, on, after, woken, procVars>>

Nobody == MaxPid + 1

(***************************************************************************)
(* "up", "down", "s_value" and "g_value" touch on[p], and so do the        *)
(* locations at which the spin lock is given back; "asleep" is block.      *)
(***************************************************************************)
Locations == {"none", "run", "dead", "f_thread", "copy", "e_ptr", "w_null", "w_ptr",
              "c_null", "c_reset", "c_clear", "s_value", "up", "up_unlock", "up_sched",
              "down", "down_took", "down_queued", "asleep", "g_value"}
Touching  == {"s_value", "up", "up_unlock", "down", "down_took", "down_queued", "g_value"}

Goto(p, loc) == pc' = [pc EXCEPT ![p] = loc]

Init ==
  /\ pidC = 0
  /\ pidMap = [q \in Pids |-> "none"]
  /\ live = {}
  /\ count = [f \in Futures |-> 0]
  /\ waiting = [f \in Futures |-> <<>>]
  /\ taken = [f \in Futures |-> FALSE]
  /\ value = [f \in Futures |-> NoCode]
  /\ pc = [p \in Procs |-> IF p = First THEN "run" ELSE "none"]
  /\ on = [p \in Procs |-> Null]
  /\ after = [p \in Procs |-> "run"]
  /\ woken = [p \in Procs |-> Nobody]
  /\ parent = [p \in Procs |-> Nobody]
  /\ code = [p \in Procs |-> NoCode]
  /\ status = [p \in Procs |-> [q \in Pids |-> NoCode]]

-----------------------------------------------------------------------------
(* Future and its semaphore *)

\* The thread goes on to use f, and then to loc.
Use(p, f, from, loc) ==
  /\ Goto(p, from)
  /\ on' = [on EXCEPT ![p] = f]
  /\ after' = [after EXCEPT ![p] = loc]

\* A new Future: isReady has no permit.
Construct(f) ==
  /\ live' = live \cup {f}
  /\ count' = [count EXCEPT ![f] = 0]
  /\ waiting' = [waiting EXCEPT ![f] = <<>>]
  /\ taken' = [taken EXCEPT ![f] = FALSE]
  /\ value' = [value EXCEPT ![f] = NoCode]

\* The value is in place before anybody is woken.  What fork's child sets, nobody
\* reads; its code[p] is NoCode.
SetValue(p) == LET f == on[p] IN
  /\ pc[p] = "s_value"
  /\ f \in live
  /\ value' = [value EXCEPT ![f] = code[p]]
  /\ Goto(p, "up")
  /\ UNCHANGED <<pidC, pidMap, live, count, waiting, taken, on, after, woken, procVars>>

\* Mutant of UpWake: up does not keep the thread it takes off the queue.
UpWakeForgets(p) == LET f == on[p] IN
  /\ pc[p] = "up"
  /\ f \in live /\ ~taken[f]
  /\ waiting[f] # <<>>
  /\ waiting' = [waiting EXCEPT ![f] = Tail(@)]
  /\ taken' = [taken EXCEPT ![f] = TRUE]
  /\ Goto(p, "up_unlock")
  /\ UNCHANGED <<pidC, pidMap, live, count, value, on, after, woken, procVars>>

UpWake(p) == LET f == on[p] IN
  /\ pc[p] = "up"
  /\ f \in live /\ ~taken[f]
  /\ waiting[f] # <<>>
  /\ woken' = [woken EXCEPT ![p] = Head(waiting[f])]
  /\ waiting' = [waiting EXCEPT ![f] = Tail(@)]
  /\ taken' = [taken EXCEPT ![f] = TRUE]
  /\ Goto(p, "up_unlock")
  /\ UNCHANGED <<pidC, pidMap, live, count, value, on, after, procVars>>

\* Mutant of UpCount: the count changes without the lock.
UpCountNoLock(p) == LET f == on[p] IN
  /\ pc[p] = "up"
  /\ f \in live /\ ~taken[f]
  /\ waiting[f] = <<>>
  /\ count' = [count EXCEPT ![f] = @ + 1]
  /\ Goto(p, "up_unlock")
  /\ UNCHANGED <<pidC, pidMap, live, waiting, taken, value, on, after, woken, procVars>>

UpCount(p) == LET f == on[p] IN
  /\ pc[p] = "up"
  /\ f \in live /\ ~taken[f]
  /\ waiting[f] = <<>>
  /\ count' = [count EXCEPT ![f] = @ + 1]
  /\ taken' = [taken EXCEPT ![f] = TRUE]
  /\ Goto(p, "up_unlock")
  /\ UNCHANGED <<pidC, pidMap, live, waiting, value, on, after, woken, procVars>>

UpUnlock(p) == LET f == on[p] IN
  /\ pc[p] = "up_unlock"
  /\ f \in live
  /\ taken' = [taken EXCEPT ![f] = FALSE]
  /\ Goto(p, IF woken[p] = Nobody THEN after[p] ELSE "up_sched")
  /\ UNCHANGED <<pidC, pidMap, live, count, waiting, value, on, after, woken, procVars>>

\* schedule(t): t comes back from block, and so from down; get calls up next.
UpSchedule(p) ==
  /\ pc[p] = "up_sched"
  /\ pc' = [pc EXCEPT ![woken[p]] = "up", ![p] = after[p]]
  /\ woken' = [woken EXCEPT ![p] = Nobody]
  /\ UNCHANGED <<pidC, pidMap, live, futVars, on, after, procVars>>

DownTake(p) == LET f == on[p] IN
  /\ pc[p] = "down"
  /\ f \in live /\ ~taken[f]
  /\ count[f] > 0
  /\ count' = [count EXCEPT ![f] = @ - 1]
  /\ taken' = [taken EXCEPT ![f] = TRUE]
  /\ Goto(p, "down_took")
  /\ UNCHANGED <<pidC, pidMap, live, waiting, value, on, after, woken, procVars>>

DownWait(p) == LET f == on[p] IN
  /\ pc[p] = "down"
  /\ f \in live /\ ~taken[f]
  /\ count[f] = 0
  /\ waiting' = [waiting EXCEPT ![f] = Append(@, p)]
  /\ taken' = [taken EXCEPT ![f] = TRUE]
  /\ Goto(p, "down_queued")
  /\ UNCHANGED <<pidC, pidMap, live, count, value, on, after, woken, procVars>>

DownUnlock(p) == LET f == on[p] IN
  /\ pc[p] \in {"down_took", "down_queued"}
  /\ f \in live
  /\ taken' = [taken EXCEPT ![f] = FALSE]
  /\ Goto(p, IF pc[p] = "down_took" THEN "up" ELSE "asleep")
  /\ UNCHANGED <<pidC, pidMap, live, count, waiting, value, on, after, woken, procVars>>

-----------------------------------------------------------------------------
(* fork *)

\* nextPID: the counter and a new Future in the map.
Fork(p) == LET q == pidC + 1 IN
  /\ pc[p] = "run"
  /\ pidC < MaxPid
  /\ pidC' = q
  /\ pidMap' = [pidMap EXCEPT ![q] = "set"]
  /\ Construct(ExitOf(q))
  /\ parent' = [parent EXCEPT ![q] = p]
  /\ Goto(p, "f_thread")
  /\ UNCHANGED <<on, after, woken, code, status>>

\* The child p is forking: its thread does not exist yet.
Unborn(p) == {q \in Pids : parent[q] = p /\ pc[q] = "none"}

\* Mutant of ForkThread: the parent does not wait for its child.
ForkThreadNoStall(p) ==
  /\ pc[p] = "f_thread"
  /\ Construct(SyncOf(p))
  /\ \E q \in Unborn(p) : pc' = [pc EXCEPT ![p] = "g_value", ![q] = "copy"]
  /\ on' = [on EXCEPT ![p] = SyncOf(p)]
  /\ UNCHANGED <<pidC, pidMap, after, woken, procVars>>

\* thread() makes the child; the parent stalls in sync.get().
ForkThread(p) ==
  /\ pc[p] = "f_thread"
  /\ Construct(SyncOf(p))
  /\ \E q \in Unborn(p) : pc' = [pc EXCEPT ![p] = "down", ![q] = "copy"]
  /\ on' = [on EXCEPT ![p] = SyncOf(p)]
  /\ after' = [after EXCEPT ![p] = "g_value"]
  /\ UNCHANGED <<pidC, pidMap, woken, procVars>>

\* Mutant of CopyDone: the child does not let its parent go.
CopyDoneNoSet(q) ==
  /\ pc[q] = "copy"
  /\ Goto(q, "run")
  /\ UNCHANGED <<pidC, pidMap, live, futVars, on, after, woken, procVars>>

\* The child has copied the parent's mappings and descriptors: sync.set(1).
CopyDone(q) ==
  /\ pc[q] = "copy"
  /\ Use(q, SyncOf(parent[q]), "s_value", "run")
  /\ UNCHANGED <<pidC, pidMap, live, futVars, woken, procVars>>

\* sync.get() returns, and with fork's frame its Future goes.
ForkReturn(p) ==
  /\ pc[p] = "g_value"
  /\ on[p] = SyncOf(p)
  /\ on[p] \in live
  /\ live' = live \ {on[p]}
  /\ Goto(p, "run")
  /\ UNCHANGED <<pidC, pidMap, futVars, on, after, woken, procVars>>

-----------------------------------------------------------------------------
(* exit, wait and close *)

\* Mutant of Exit: the thread stops without exitPID.
ExitUnannounced(p, rc) ==
  /\ pc[p] = "run"
  /\ code' = [code EXCEPT ![p] = rc]
  /\ Goto(p, "dead")
  /\ UNCHANGED <<pidC, pidMap, live, futVars, on, after, woken, parent, status>>

\* The first process has no pid that find would find: it stops at once.
Exit(p, rc) ==
  /\ pc[p] = "run"
  /\ code' = [code EXCEPT ![p] = rc]
  /\ Goto(p, IF p = First THEN "dead" ELSE "e_ptr")
  /\ UNCHANGED <<pidC, pidMap, live, futVars, on, after, woken, parent, status>>

\* The pointer in the map: null after a close.
Pointer(q) == IF pidMap[q] = "set" THEN ExitOf(q) ELSE Null

\* Mutant of ExitPointer: a grandchild's exit goes to its parent's entry.
ExitPointerParent(p) ==
  /\ pc[p] = "e_ptr"
  /\ Use(p, Pointer(IF parent[p] = First THEN p ELSE parent[p]), "s_value", "dead")
  /\ UNCHANGED <<pidC, pidMap, live, futVars, woken, procVars>>

ExitPointer(p) ==
  /\ pc[p] = "e_ptr"
  /\ Use(p, Pointer(p), "s_value", "dead")
  /\ UNCHANGED <<pidC, pidMap, live, futVars, woken, procVars>>

\* wait and close are called with a child's pid, which find finds; on[p] says whose.
Wait(p, q) ==
  /\ pc[p] = "run"
  /\ parent[q] = p
  /\ Use(p, ExitOf(q), "w_null", "g_value")
  /\ UNCHANGED <<pidC, pidMap, live, futVars, woken, procVars>>

WaitNull(p) == LET q == on[p][2] IN
  /\ pc[p] = "w_null"
  /\ Goto(p, IF pidMap[q] = "null" THEN "run" ELSE "w_ptr")
  /\ UNCHANGED <<pidC, pidMap, live, futVars, on, after, woken, procVars>>

WaitPointer(p) == LET q == on[p][2] IN
  /\ pc[p] = "w_ptr"
  /\ on' = [on EXCEPT ![p] = Pointer(q)]
  /\ Goto(p, "down")
  /\ UNCHANGED <<pidC, pidMap, live, futVars, after, woken, procVars>>

WaitReturn(p) == LET f == on[p] IN
  /\ pc[p] = "g_value"
  /\ f[1] = "exit"
  /\ f \in live
  /\ status' = [status EXCEPT ![p][f[2]] = value[f]]
  /\ Goto(p, "run")
  /\ UNCHANGED <<pidC, pidMap, live, futVars, on, after, woken, parent, code>>

Close(p, q) ==
  /\ pc[p] = "run"
  /\ parent[q] = p
  /\ Use(p, ExitOf(q), "c_null", "run")
  /\ UNCHANGED <<pidC, pidMap, live, futVars, woken, procVars>>

\* A parent that closes a child only when it has its status.
CloseWaited(p, q) == status[p][q] # NoCode /\ Close(p, q)

CloseNull(p) == LET q == on[p][2] IN
  /\ pc[p] = "c_null"
  /\ Goto(p, IF pidMap[q] = "null" THEN "run" ELSE "c_reset")
  /\ UNCHANGED <<pidC, pidMap, live, futVars, on, after, woken, procVars>>

\* reset: the map holds the only reference, so the Future is deleted ...
CloseReset(p) ==
  /\ pc[p] = "c_reset"
  /\ live' = live \ {on[p]}
  /\ Goto(p, "c_clear")
  /\ UNCHANGED <<pidC, pidMap, futVars, on, after, woken, procVars>>

\* ... and then the pointer cleared.
CloseClear(p) ==
  /\ pc[p] = "c_clear"
  /\ pidMap' = [pidMap EXCEPT ![on[p][2]] = "null"]
  /\ Goto(p, "run")
  /\ UNCHANGED <<pidC, live, futVars, on, after, woken, procVars>>

-----------------------------------------------------------------------------
Call(p) ==
  \/ Fork(p)
  \/ \E rc \in Codes : Exit(p, rc)
  \/ \E q \in Pids : Wait(p, q)

Kernel(p) ==
  \/ SetValue(p)
  \/ UpWake(p) \/ UpCount(p) \/ UpUnlock(p) \/ UpSchedule(p)
  \/ DownTake(p) \/ DownWait(p) \/ DownUnlock(p)
  \/ ForkThread(p) \/ CopyDone(p) \/ ForkReturn(p)
  \/ ExitPointer(p) \/ WaitNull(p) \/ WaitPointer(p) \/ WaitReturn(p)
  \/ CloseNull(p) \/ CloseReset(p) \/ CloseClear(p)

Next == \E p \in Procs : Call(p) \/ Kernel(p) \/ \E q \in Pids : CloseWaited(p, q)

Spec == Init /\ [][Next]_vars

\* The scheduler runs every thread that can run; the spin lock is fair enough.
FairSpec == Spec /\ \A p \in Procs : WF_vars(Kernel(p))

\* close "disowns a child process": it may come before the child's exit.
SpecWithDisown == Init /\ [][\E p \in Procs : Call(p) \/ Kernel(p) \/ \E q \in Pids : Close(p, q)]_vars

-----------------------------------------------------------------------------
(* Properties *)

ProcTypeOK ==
  /\ pidC \in 0 .. MaxPid
  /\ pidMap \in [Pids -> {"none", "set", "null"}]
  /\ live \subseteq Futures
  /\ count \in [Futures -> Nat]
  /\ waiting \in [Futures -> Seq(Procs)]
  /\ taken \in [Futures -> BOOLEAN]
  /\ value \in [Futures -> Codes \cup {NoCode}]
  /\ pc \in [Procs -> Locations]
  /\ on \in [Procs -> Futures \cup {Null}]
  /\ after \in [Procs -> {"run", "dead", "g_value"}]
  /\ woken \in [Procs -> Procs \cup {Nobody}]
  /\ parent \in [Procs -> Procs \cup {Nobody}]
  /\ code \in [Procs -> Codes \cup {NoCode}]
  /\ status \in [Procs -> [Pids -> Codes \cup {NoCode}]]

\* No thread reads or writes a Future that has been deleted, that was on a stack
\* frame that is gone, or that the map no longer points to.
TouchesLive ==
  \A p \in Procs :
    /\ pc[p] \in Touching => on[p] \in live
    /\ pc[p] = "asleep" => on[p] \in live

\* What wait returns is the argument of the child's exit.
WaitGetsExitCode ==
  \A p \in Procs, q \in Pids : status[p][q] # NoCode => status[p][q] = code[q]

\* A child copies its parent's mappings and descriptors while the parent is in
\* fork, and nobody else copies them at the same time.
ParentStalls ==
  \A q \in Pids : pc[q] = "copy" =>
    /\ pc[parent[q]] \in {"down", "down_queued", "asleep"}
    /\ on[parent[q]] = SyncOf(parent[q])
    /\ \A r \in Pids : pc[r] = "copy" /\ parent[r] = parent[q] => r = q

\* A process that sleeps can be woken: it is in the queue of its Future, or in the
\* hands of an up.  (With the types of the variables.)
SleepersKept ==
  /\ ProcTypeOK
  /\ \A p \in Procs : pc[p] = "asleep" =>
       \/ p \in ToSet(waiting[on[p]])
       \/ \E q \in Procs : woken[q] = p

\* The parent waits for q and has not found it finished.
Awaited(q) == \E p \in Procs : parent[q] = p /\ on[p] = ExitOf(q) /\ pc[p] \in {"down", "asleep"}

\* fork returns, and a wait returns when the child has exited, however the two
\* interleave.
CallsReturn ==
  /\ \A p \in Procs : pc[p] = "f_thread" ~> pc[p] = "run"
  /\ \A q \in Pids : (Awaited(q) /\ code[q] # NoCode)
                    ~> (\E p \in Procs : parent[q] = p /\ pc[p] = "run")
=============================================================================
