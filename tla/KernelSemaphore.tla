--------------------------- MODULE KernelSemaphore ---------------------------
(***************************************************************************)
(* Semaphore::down and up of kernel/semaphore.cc on top of the scheduler,  *)
(* used as Mutex uses it: a thread goes down, works at "critical" and goes *)
(* up again.  The semaphore's InterruptSafeLock is semTaken; its holder    *)
(* has interrupts off.  A try of the lock that fails leaves no trace and   *)
(* is not a step.                                                          *)
(***************************************************************************)
EXTENDS Scheduler

CONSTANT Permits  \* the count the semaphore is made with

ASSUME PermitsAssumption == Permits \in Nat

VARIABLES
  semCount,  \* Semaphore::count
  semTaken,  \* the thread that holds Semaphore::lock, or NoThread
  waiting,   \* Semaphore::waiting
  woken      \* per thread: the local t of up

semVars == <<semCount, semTaken, waiting, woken>>
allVars == <<schedVars, semVars>>

SemInit ==
  /\ SchedInit
  /\ semCount = Permits
  /\ semTaken = NoThread
  /\ waiting = <<>>
  /\ woken = [t \in Threads |-> NoThread]

-----------------------------------------------------------------------------
\* InterruptSafeLock::lock and unlock, as a thread gets from one location to
\* another.
Lock(t, from, to) ==
  /\ At(t) = from
  /\ semTaken = NoThread
  /\ semTaken' = t
  /\ Goto(t, to)

Unlock(t, from, to) ==
  /\ At(t) = from
  /\ semTaken' = NoThread
  /\ Goto(t, to)

\* What neither down nor up writes.
Untouched == UNCHANGED <<zombieQ, cpuVars, next, reapVars>>

DownLock(c) == LET t == running[c] IN
  /\ t # Reaper
  /\ Lock(t, "run", "d_held")
  /\ Untouched
  /\ UNCHANGED <<readyQ, leaveMeAlone, retAddr, semCount, waiting, woken>>

\* Mutant of DownTake: the count is not looked at.
DownTakeNoCheck(c) == LET t == running[c] IN
  /\ At(t) = "d_held"
  /\ semCount' = semCount - 1
  /\ Goto(t, "d_took")
  /\ Untouched
  /\ UNCHANGED <<readyQ, leaveMeAlone, retAddr, semTaken, waiting, woken>>

DownTake(c) == LET t == running[c] IN
  /\ At(t) = "d_held"
  /\ semCount > 0
  /\ semCount' = semCount - 1
  /\ Goto(t, "d_took")
  /\ Untouched
  /\ UNCHANGED <<readyQ, leaveMeAlone, retAddr, semTaken, waiting, woken>>

DownTakeUnlock(c) ==
  /\ Unlock(running[c], "d_took", "critical")
  /\ Untouched
  /\ UNCHANGED <<readyQ, leaveMeAlone, retAddr, semCount, waiting, woken>>

DownMark(c) == LET t == running[c] IN
  /\ At(t) = "d_held"
  /\ semCount = 0
  /\ leaveMeAlone' = [leaveMeAlone EXCEPT ![activeThreads[c]] = TRUE]
  /\ Goto(t, "d_wait")
  /\ Untouched
  /\ UNCHANGED <<readyQ, retAddr, semCount, semTaken, waiting, woken>>

DownEnqueue(c) == LET t == running[c] IN
  /\ At(t) = "d_wait"
  /\ waiting' = Append(waiting, t)
  /\ Goto(t, "d_queued")
  /\ Untouched
  /\ UNCHANGED <<readyQ, leaveMeAlone, retAddr, semCount, semTaken, woken>>

\* Mutant of DownBlock: the lock is kept.
DownBlockLocked(c) == LET t == running[c] IN
  /\ At(t) = "d_queued"
  /\ Goto(t, "b_remove")
  /\ retAddr' = [retAddr EXCEPT ![t] = "critical"]
  /\ Untouched
  /\ UNCHANGED <<readyQ, leaveMeAlone, semCount, semTaken, waiting, woken>>

\* The lock is given back before block: the waiter may be woken while it is
\* still on its processor.  block returns to what follows down.
DownBlock(c) == LET t == running[c] IN
  /\ Unlock(t, "d_queued", "b_remove")
  /\ retAddr' = [retAddr EXCEPT ![t] = "critical"]
  /\ Untouched
  /\ UNCHANGED <<readyQ, leaveMeAlone, semCount, waiting, woken>>

UpLock(c) ==
  /\ Lock(running[c], "critical", "u_held")
  /\ Untouched
  /\ UNCHANGED <<readyQ, leaveMeAlone, retAddr, semCount, waiting, woken>>

\* Mutant of UpWake: the thread that is woken stays in the queue.
UpWakePeeks(c) == LET t == running[c] IN
  /\ At(t) = "u_held"
  /\ waiting # <<>>
  /\ woken' = [woken EXCEPT ![t] = Head(waiting)]
  /\ Goto(t, "u_wake")
  /\ Untouched
  /\ UNCHANGED <<readyQ, leaveMeAlone, retAddr, semCount, semTaken, waiting>>

\* Mutant of UpWake: the permit that is handed on is counted as well.
UpWakeCounts(c) == LET t == running[c] IN
  /\ At(t) = "u_held"
  /\ waiting # <<>>
  /\ woken' = [woken EXCEPT ![t] = Head(waiting)]
  /\ waiting' = Tail(waiting)
  /\ semCount' = semCount + 1
  /\ Goto(t, "u_wake")
  /\ Untouched
  /\ UNCHANGED <<readyQ, leaveMeAlone, retAddr, semTaken>>

UpWake(c) == LET t == running[c] IN
  /\ At(t) = "u_held"
  /\ waiting # <<>>
  /\ woken' = [woken EXCEPT ![t] = Head(waiting)]
  /\ waiting' = Tail(waiting)
  /\ Goto(t, "u_wake")
  /\ Untouched
  /\ UNCHANGED <<readyQ, leaveMeAlone, retAddr, semCount, semTaken>>

UpWakeUnlock(c) ==
  /\ Unlock(running[c], "u_wake", "u_sched")
  /\ Untouched
  /\ UNCHANGED <<readyQ, leaveMeAlone, retAddr, semCount, waiting, woken>>

\* Mutant of UpSchedule: the thread that was taken off the queue is not made ready.
UpScheduleForgets(c) == LET t == running[c] IN
  /\ At(t) = "u_sched"
  /\ woken' = [woken EXCEPT ![t] = NoThread]
  /\ Goto(t, "run")
  /\ Untouched
  /\ UNCHANGED <<readyQ, leaveMeAlone, retAddr, semCount, semTaken, waiting>>

\* schedule(t), with no lock held any more.
UpSchedule(c) == LET t == running[c] IN
  /\ At(t) = "u_sched"
  /\ readyQ' = Append(readyQ, woken[t])
  /\ woken' = [woken EXCEPT ![t] = NoThread]
  /\ Goto(t, "run")
  /\ Untouched
  /\ UNCHANGED <<leaveMeAlone, retAddr, semCount, semTaken, waiting>>

\* Mutant of UpCount: the permit may be counted although somebody waits.
UpCountNoCheck(c) == LET t == running[c] IN
  /\ At(t) = "u_held"
  /\ semCount' = semCount + 1
  /\ Goto(t, "u_count")
  /\ Untouched
  /\ UNCHANGED <<readyQ, leaveMeAlone, retAddr, semTaken, waiting, woken>>

UpCount(c) == LET t == running[c] IN
  /\ At(t) = "u_held"
  /\ waiting = <<>>
  /\ semCount' = semCount + 1
  /\ Goto(t, "u_count")
  /\ Untouched
  /\ UNCHANGED <<readyQ, leaveMeAlone, retAddr, semTaken, waiting, woken>>

UpCountUnlock(c) ==
  /\ Unlock(running[c], "u_count", "run")
  /\ Untouched
  /\ UNCHANGED <<readyQ, leaveMeAlone, retAddr, semCount, waiting, woken>>

-----------------------------------------------------------------------------
Semaphore(c) ==
  \/ DownTake(c) \/ DownTakeUnlock(c)
  \/ DownMark(c) \/ DownEnqueue(c) \/ DownBlock(c)
  \/ UpLock(c) \/ UpWake(c) \/ UpWakeUnlock(c) \/ UpSchedule(c)
  \/ UpCount(c) \/ UpCountUnlock(c)

SemNext ==
  \/ SchedNext /\ UNCHANGED semVars
  \/ \E c \in Cpus : DownLock(c) \/ Semaphore(c)

SemSpec == SemInit /\ [][SemNext]_allVars

\* As SchedFairness; a thread that holds a permit gives it back after a while.
KernelStep(c) == (Kernel(c) /\ UNCHANGED semVars) \/ Semaphore(c)

SemFairness ==
  /\ \A c \in Cpus : /\ WF_allVars(KernelStep(c))
                     /\ SF_allVars(Timer(c) /\ UNCHANGED semVars)
  /\ \A t \in Threads :
       /\ SF_allVars(\E c \in Cpus : running[c] = t /\ irq[t] = "none" /\ KernelStep(c))
       /\ SF_allVars(\E c \in Cpus : running[c] = t /\ UpLock(c))

FairSemSpec == SemSpec /\ SemFairness

-----------------------------------------------------------------------------
(* Properties *)

SemTypeOK ==
  /\ TypeOK
  /\ semCount \in Nat
  /\ semTaken \in Threads \cup {NoThread}
  /\ waiting \in Seq(Threads)
  /\ woken \in [Threads -> Threads \cup {NoThread}]

\* A thread between its down and its up: it found a permit, or was handed one
\* and comes back from block.
Holders ==
  {t \in Threads :
    /\ t \notin ToSet(waiting)
    /\ \/ pc[t] \in {"d_took", "critical", "u_held"}
       \/ pc[t] \in BlockLocs \cup YieldLocs /\ retAddr[t] = "critical"}

\* down and up implement first-come first-served permits: no more holders than
\* permits, no permit taken past a waiter, a permit given back handed on at once.
Abstract == INSTANCE PermitQueue WITH Clients <- Threads, holders <- Holders,
                                      queue <- waiting
ImplementsPermitQueue == Abstract!Spec

\* No wake-up is lost: a thread that is off the processors and has not stopped
\* waits for the semaphore, is ready, or is in the hands of an up or a block.
ThreadsKept ==
  \A t \in Threads :
    Saved(t) /\ retAddr[t] # "s_end" /\ pc[t] # "new"
      => \/ t \in ToSet(readyQ) \cup ToSet(waiting)
         \/ \E u \in Threads : t \in {next[u], woken[u]}

\* A thread is linked into one queue at a time, by whichever of the spin locks.
LinkedOnce ==
  /\ QueuedOnce
  /\ ToSet(waiting) \cap (ToSet(readyQ) \cup ToSet(zombieQ)) = {}
  /\ IsInjective(waiting)
  /\ \A t \in Threads : woken[t] \notin ToSet(readyQ) \cup ToSet(waiting)

\* The holder of the spin lock is a thread that is on a processor with interrupts
\* off: nobody spins for a thread that waits for a processor.  (With the types of
\* the semaphore's variables.)
LockHolderRuns ==
  /\ SemTypeOK
  /\ semTaken # NoThread => OnCpu(semTaken) /\ irq[semTaken] = "none"

\* Every thread that waits for a permit gets one and goes on.
WaitersServed == \A t \in Threads : t \in ToSet(waiting) ~> At(t) = "critical"
=============================================================================
