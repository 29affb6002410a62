------------------------------ MODULE Scheduler ------------------------------
(***************************************************************************)
(* The thread scheduler: Thread, readyQ, zombieQ, block, yield, stop,      *)
(* thread(), reaper and schedule of kernel/threads.{h,cc}, contextSwitch   *)
(* of kernel/context.s and the timer handler of kernel/pit.cc.             *)
(*                                                                         *)
(* Several CPUs execute threads.  A CPU executes one stack at a time,      *)
(* running[c]; activeThreads[c] is what the kernel believes it runs, and   *)
(* is written some instructions before the stacks are exchanged.           *)
(*                                                                         *)
(* A thread's control state has two frames: pc[t] is where the thread      *)
(* itself is, irq[t] where the timer handler that interrupted it is        *)
(* ("none": not interrupted).  A queue operation is one step: Queue::add   *)
(* and Queue::remove run under a spin lock with interrupts off and touch   *)
(* nothing but the queue.                                                  *)
(***************************************************************************)
EXTENDS Naturals, FiniteSets, SequencesExt

CONSTANTS
  Cpus,      \* the processors
  Threads,   \* the addresses at which Thread objects may live
  Boot,      \* Boot[c]: the InitialThread of processor c
  Reaper,    \* the thread threadsInit starts
  NoThread,  \* the null Thread*
  MaxIrqs    \* bound: how many threads may be in the timer handler at once

ASSUME ThreadsAssumption ==
  /\ Reaper \in Threads
  /\ NoThread \notin Threads
  /\ Boot \in [Cpus -> Threads \ {Reaper}]
  /\ \A c, d \in Cpus : Boot[c] = Boot[d] => c = d
  /\ MaxIrqs \in Nat

VARIABLES
  readyQ,         \* threads that wait for a processor
  zombieQ,        \* stopped threads that wait to be deleted
  activeThreads,  \* per processor: the thread active() returns
  running,        \* per processor: the thread whose stack is in use
  previous,       \* per processor: contextSwitch's first argument (%eax)
  leaveMeAlone,   \* Thread::leaveMeAlone
  pc,             \* per thread: the location in its own code
  irq,            \* per thread: the location in the timer handler, or "none"
  retAddr,        \* per thread: where yield or down returns to
  next,           \* per thread: block's local next
  th,             \* per thread: reaper's local th
  firstAlone      \* per thread: reaper's local firstAlone

cpuVars    == <<activeThreads, running, previous>>
queueVars  == <<readyQ, zombieQ>>
reapVars   == <<th, firstAlone>>
schedVars  == <<readyQ, zombieQ, activeThreads, running, previous, leaveMeAlone,
                pc, irq, retAddr, next, th, firstAlone>>

(***************************************************************************)
(* Locations.  Work: the thread's own code, "critical" while it holds a    *)
(* semaphore permit.  SpinLocked: the body of Semaphore::down and up, with *)
(* interrupts off.  "s_end" is what follows block in stop: nothing.  "new" *)
(* is memory that holds no thread.  A thread that   *)
(* is off the processors waits at "sw_prev", where contextSwitch resumes   *)
(* it; the stack thread() builds makes a new thread start there too.       *)
(***************************************************************************)
Work       == {"run", "critical"}
BlockLocs  == {"b_remove", "b_look", "b_requeue", "b_active", "b_switch",
               "sw_prev", "sw_curr"}
YieldLocs  == {"y_set", "y_add"}
ReapLocs   == {"r_remove", "r_look", "r_add", "t_sched"}
SpinLocked == {"d_held", "d_took", "d_wait", "d_queued", "u_held", "u_wake", "u_count"}
Locations  == Work \cup BlockLocs \cup YieldLocs \cup ReapLocs \cup SpinLocked
              \cup {"new", "s_add", "s_end", "u_sched"}

At(t)    == IF irq[t] = "none" THEN pc[t] ELSE irq[t]
OnCpu(t) == \E c \in Cpus : running[c] = t
Saved(t) == At(t) = "sw_prev" /\ ~OnCpu(t)

\* The thread moves on in the frame it executes.
Goto(t, loc) ==
  IF irq[t] = "none"
  THEN pc' = [pc EXCEPT ![t] = loc] /\ UNCHANGED irq
  ELSE irq' = [irq EXCEPT ![t] = loc] /\ UNCHANGED pc

\* block returns: to the caller of yield or down, or, out of the timer
\* handler, by iret to whatever was interrupted.
ReturnFromBlock(t) ==
  IF irq[t] = "none"
  THEN pc' = [pc EXCEPT ![t] = retAddr[t]] /\ UNCHANGED irq
  ELSE irq' = [irq EXCEPT ![t] = "none"] /\ UNCHANGED pc

\* The interrupt flag.  The handler's gate clears it, and so do the spin locks;
\* contextSwitch saves it with pushf and restores it with popf.
InterruptsOn(c) ==
  /\ irq[running[c]] = "none"
  /\ pc[running[c]] \notin SpinLocked

SchedInit ==
  /\ readyQ = <<Reaper>>
  /\ zombieQ = <<>>
  /\ activeThreads = Boot
  /\ running = Boot
  /\ previous = [c \in Cpus |-> NoThread]
  /\ leaveMeAlone = [t \in Threads |-> FALSE]
  /\ pc = [t \in Threads |-> IF t = Reaper THEN "sw_prev"
                             ELSE IF \E c \in Cpus : Boot[c] = t THEN "run"
                             ELSE "new"]
  /\ irq = [t \in Threads |-> "none"]
  /\ retAddr = [t \in Threads |-> "run"]
  /\ next = [t \in Threads |-> NoThread]
  /\ th = [t \in Threads |-> NoThread]
  /\ firstAlone = [t \in Threads |-> NoThread]

-----------------------------------------------------------------------------
(* The timer and yield *)

\* Mutant of Timer: yield does not look at leaveMeAlone.
TimerNoCheck(c) ==
  /\ InterruptsOn(c)
  /\ Cardinality({t \in Threads : irq[t] # "none"}) < MaxIrqs
  /\ irq' = [irq EXCEPT ![running[c]] = "y_set"]
  /\ UNCHANGED <<queueVars, cpuVars, leaveMeAlone, pc, retAddr, next, reapVars>>

\* apitHandler calls yield, whose "me" is activeThreads[c].  When leaveMeAlone
\* is set yield returns at once, which changes nothing here.
Timer(c) ==
  /\ InterruptsOn(c)
  /\ ~leaveMeAlone[activeThreads[c]]
  /\ Cardinality({t \in Threads : irq[t] # "none"}) < MaxIrqs
  /\ irq' = [irq EXCEPT ![running[c]] = "y_set"]
  /\ UNCHANGED <<queueVars, cpuVars, leaveMeAlone, pc, retAddr, next, reapVars>>

\* A thread calls yield itself, as the disk driver does while it polls.
YieldCall(c) == LET t == running[c] IN
  /\ t # Reaper
  /\ At(t) \in Work
  /\ ~leaveMeAlone[t]
  /\ pc' = [pc EXCEPT ![t] = "y_set"]
  /\ retAddr' = [retAddr EXCEPT ![t] = pc[t]]
  /\ UNCHANGED <<queueVars, cpuVars, leaveMeAlone, irq, next, reapVars>>

\* Mutant of YieldSet: the flag is not set.
YieldSetNoStore(c) == LET t == running[c] IN
  /\ At(t) = "y_set"
  /\ Goto(t, "y_add")
  /\ UNCHANGED <<queueVars, cpuVars, leaveMeAlone, retAddr, next, reapVars>>

YieldSet(c) == LET t == running[c] IN
  /\ At(t) = "y_set"
  /\ leaveMeAlone' = [leaveMeAlone EXCEPT ![t] = TRUE]
  /\ Goto(t, "y_add")
  /\ UNCHANGED <<queueVars, cpuVars, retAddr, next, reapVars>>

YieldAdd(c) == LET t == running[c] IN
  /\ At(t) = "y_add"
  /\ readyQ' = Append(readyQ, t)
  /\ Goto(t, "b_remove")
  /\ UNCHANGED <<zombieQ, cpuVars, leaveMeAlone, retAddr, next, reapVars>>

-----------------------------------------------------------------------------
(* block and contextSwitch *)

\* An empty readyQ makes block try again, which changes nothing.
BlockRemove(c) == LET t == running[c] IN
  /\ At(t) = "b_remove"
  /\ readyQ # <<>>
  /\ next' = [next EXCEPT ![t] = Head(readyQ)]
  /\ readyQ' = Tail(readyQ)
  /\ Goto(t, "b_look")
  /\ UNCHANGED <<zombieQ, cpuVars, leaveMeAlone, retAddr, reapVars>>

\* The thread met itself: it was made ready before it gave the processor away.
BlockMeetsItself(c) == LET t == running[c] IN
  /\ At(t) = "b_look"
  /\ next[t] = t
  /\ leaveMeAlone' = [leaveMeAlone EXCEPT ![t] = FALSE]
  /\ next' = [next EXCEPT ![t] = NoThread]
  /\ ReturnFromBlock(t)
  /\ UNCHANGED <<queueVars, cpuVars, retAddr, reapVars>>

\* next is still on another processor's stack: back to the queue with it.
BlockLeaveAlone(c) == LET t == running[c] IN
  /\ At(t) = "b_look"
  /\ next[t] # t
  /\ leaveMeAlone[next[t]]
  /\ Goto(t, "b_requeue")
  /\ UNCHANGED <<queueVars, cpuVars, leaveMeAlone, retAddr, next, reapVars>>

\* Mutant of BlockRequeue: next is cleared before it is queued.
BlockRequeueCleared(c) == LET t == running[c] IN
  /\ At(t) = "b_requeue"
  /\ next' = [next EXCEPT ![t] = NoThread]
  /\ readyQ' = Append(readyQ, NoThread)
  /\ Goto(t, "b_remove")
  /\ UNCHANGED <<zombieQ, cpuVars, leaveMeAlone, retAddr, reapVars>>

BlockRequeue(c) == LET t == running[c] IN
  /\ At(t) = "b_requeue"
  /\ readyQ' = Append(readyQ, next[t])
  /\ next' = [next EXCEPT ![t] = NoThread]
  /\ Goto(t, "b_remove")
  /\ UNCHANGED <<zombieQ, cpuVars, leaveMeAlone, retAddr, reapVars>>

\* Mutant of BlockTake: a flagged thread is taken too.
BlockTakeNoCheck(c) == LET t == running[c] IN
  /\ At(t) = "b_look"
  /\ next[t] # t
  /\ leaveMeAlone' = [leaveMeAlone EXCEPT ![next[t]] = TRUE]
  /\ Goto(t, "b_active")
  /\ UNCHANGED <<queueVars, cpuVars, retAddr, next, reapVars>>

\* Mutant of BlockTake: the thread that is taken is not flagged.
BlockTakeNoStore(c) == LET t == running[c] IN
  /\ At(t) = "b_look"
  /\ next[t] # t
  /\ ~leaveMeAlone[next[t]]
  /\ Goto(t, "b_active")
  /\ UNCHANGED <<queueVars, cpuVars, leaveMeAlone, retAddr, next, reapVars>>

\* The test of next->leaveMeAlone and the store that follows it: next is in no
\* queue, so nothing happens to it in between.
BlockTake(c) == LET t == running[c] IN
  /\ At(t) = "b_look"
  /\ next[t] # t
  /\ ~leaveMeAlone[next[t]]
  /\ leaveMeAlone' = [leaveMeAlone EXCEPT ![next[t]] = TRUE]
  /\ Goto(t, "b_active")
  /\ UNCHANGED <<queueVars, cpuVars, retAddr, next, reapVars>>

\* Mutant of BlockActivate: block unflags the thread that is left, not contextSwitch.
BlockActivateUnflags(c) == LET t == running[c] IN
  /\ At(t) = "b_active"
  /\ activeThreads' = [activeThreads EXCEPT ![c] = next[t]]
  /\ leaveMeAlone' = [leaveMeAlone EXCEPT ![t] = FALSE]
  /\ Goto(t, "b_switch")
  /\ UNCHANGED <<queueVars, running, previous, retAddr, next, reapVars>>

BlockActivate(c) == LET t == running[c] IN
  /\ At(t) = "b_active"
  /\ activeThreads' = [activeThreads EXCEPT ![c] = next[t]]
  /\ Goto(t, "b_switch")
  /\ UNCHANGED <<queueVars, running, previous, leaveMeAlone, retAddr, next, reapVars>>

\* contextSwitch up to popf: t's registers are in t, the CPU is on next's stack.
ContextSwitch(c) == LET t == running[c] IN
  /\ At(t) = "b_switch"
  /\ Goto(t, "sw_prev")
  /\ running' = [running EXCEPT ![c] = next[t]]
  /\ previous' = [previous EXCEPT ![c] = t]
  /\ next' = [next EXCEPT ![t] = NoThread]
  /\ UNCHANGED <<queueVars, activeThreads, leaveMeAlone, retAddr, reapVars>>

\* Mutant of ClearPrevious: the flag of the thread that was left stays set.
ClearPreviousNoStore(c) == LET t == running[c] IN
  /\ At(t) = "sw_prev"
  /\ previous' = [previous EXCEPT ![c] = NoThread]
  /\ Goto(t, "sw_curr")
  /\ UNCHANGED <<queueVars, activeThreads, running, leaveMeAlone, retAddr, next, reapVars>>

\* prev->leaveMeAlone = 0: from here on another CPU may take the thread.
ClearPrevious(c) == LET t == running[c] IN
  /\ At(t) = "sw_prev"
  /\ leaveMeAlone' = [leaveMeAlone EXCEPT ![previous[c]] = FALSE]
  /\ previous' = [previous EXCEPT ![c] = NoThread]
  /\ Goto(t, "sw_curr")
  /\ UNCHANGED <<queueVars, activeThreads, running, retAddr, next, reapVars>>

\* Mutant of ClearCurrent: the flag of the resumed thread stays set.
ClearCurrentNoStore(c) == LET t == running[c] IN
  /\ At(t) = "sw_curr"
  /\ ReturnFromBlock(t)
  /\ UNCHANGED <<queueVars, cpuVars, leaveMeAlone, retAddr, next, reapVars>>

\* curr->leaveMeAlone = 0 and the return into the thread that was resumed.
ClearCurrent(c) == LET t == running[c] IN
  /\ At(t) = "sw_curr"
  /\ leaveMeAlone' = [leaveMeAlone EXCEPT ![t] = FALSE]
  /\ ReturnFromBlock(t)
  /\ UNCHANGED <<queueVars, cpuVars, retAddr, next, reapVars>>

-----------------------------------------------------------------------------
(* stop, the reaper and thread() *)

\* The work of a thread is done: entry calls stop, as kernelInit does at the
\* end of the boot.
StopCall(c) == LET t == running[c] IN
  /\ t # Reaper
  /\ At(t) = "run"
  /\ leaveMeAlone' = [leaveMeAlone EXCEPT ![t] = TRUE]
  /\ retAddr' = [retAddr EXCEPT ![t] = "s_end"]
  /\ Goto(t, "s_add")
  /\ UNCHANGED <<queueVars, cpuVars, next, reapVars>>

\* Mutant of StopAdd: the thread goes to the readyQ, as in yield.
StopAddReady(c) == LET t == running[c] IN
  /\ At(t) = "s_add"
  /\ readyQ' = Append(readyQ, t)
  /\ Goto(t, "b_remove")
  /\ UNCHANGED <<zombieQ, cpuVars, leaveMeAlone, retAddr, next, reapVars>>

\* Mutant of StopAdd: the thread goes to no queue.
StopAddForgets(c) == LET t == running[c] IN
  /\ At(t) = "s_add"
  /\ Goto(t, "b_remove")
  /\ UNCHANGED <<queueVars, cpuVars, leaveMeAlone, retAddr, next, reapVars>>

StopAdd(c) == LET t == running[c] IN
  /\ At(t) = "s_add"
  /\ zombieQ' = Append(zombieQ, t)
  /\ Goto(t, "b_remove")
  /\ UNCHANGED <<readyQ, cpuVars, leaveMeAlone, retAddr, next, reapVars>>

\* reaper is called by the loop of the Reaper, and by every thread() first.
ReaperCall(c) == LET t == running[c] IN
  /\ At(t) = "run"
  /\ Goto(t, "r_remove")
  /\ UNCHANGED <<queueVars, cpuVars, leaveMeAlone, retAddr, next, reapVars>>

\* reaper returns: into yield for the Reaper, into thread() for the others.
ReaperReturn(t) ==
  /\ Goto(t, IF t = Reaper THEN "y_set" ELSE "t_sched")
  /\ th' = [th EXCEPT ![t] = NoThread]
  /\ firstAlone' = [firstAlone EXCEPT ![t] = NoThread]

ReaperEmpty(c) == LET t == running[c] IN
  /\ At(t) = "r_remove"
  /\ zombieQ = <<>>
  /\ ReaperReturn(t)
  /\ UNCHANGED <<queueVars, cpuVars, leaveMeAlone, retAddr, next>>

ReaperRemove(c) == LET t == running[c] IN
  /\ At(t) = "r_remove"
  /\ zombieQ # <<>>
  /\ th' = [th EXCEPT ![t] = Head(zombieQ)]
  /\ zombieQ' = Tail(zombieQ)
  /\ Goto(t, "r_look")
  /\ UNCHANGED <<readyQ, cpuVars, leaveMeAlone, retAddr, next, firstAlone>>

\* The first zombie met twice ends the round, and is not put back.
ReaperMeetsFirst(c) == LET t == running[c] IN
  /\ At(t) = "r_look"
  /\ leaveMeAlone[th[t]]
  /\ th[t] = firstAlone[t]
  /\ ReaperReturn(t)
  /\ UNCHANGED <<queueVars, cpuVars, leaveMeAlone, retAddr, next>>

ReaperLeaveAlone(c) == LET t == running[c] IN
  /\ At(t) = "r_look"
  /\ leaveMeAlone[th[t]]
  /\ th[t] # firstAlone[t]
  /\ firstAlone' = [firstAlone EXCEPT ![t] = IF @ = NoThread THEN th[t] ELSE @]
  /\ Goto(t, "r_add")
  /\ UNCHANGED <<queueVars, cpuVars, leaveMeAlone, retAddr, next, th>>

ReaperAdd(c) == LET t == running[c] IN
  /\ At(t) = "r_add"
  /\ zombieQ' = Append(zombieQ, th[t])
  /\ th' = [th EXCEPT ![t] = NoThread]
  /\ Goto(t, "r_remove")
  /\ UNCHANGED <<readyQ, cpuVars, leaveMeAlone, retAddr, next, firstAlone>>

\* Mutant of ReaperDelete: a flagged zombie is deleted too.
ReaperDeleteNoCheck(c) == LET t == running[c]
                              d == th[t] IN
  /\ At(t) = "r_look"
  /\ pc' = [pc EXCEPT ![d] = "new", ![t] = "r_remove"]
  /\ th' = [th EXCEPT ![t] = NoThread]
  /\ UNCHANGED <<queueVars, cpuVars, leaveMeAlone, irq, retAddr, next, firstAlone>>

\* delete th: the memory may hold another thread from now on.
ReaperDelete(c) == LET t == running[c]
                       d == th[t] IN
  /\ At(t) = "r_look"
  /\ ~leaveMeAlone[d]
  /\ pc' = [pc EXCEPT ![d] = "new", ![t] = "r_remove"]
  /\ th' = [th EXCEPT ![t] = NoThread]
  /\ UNCHANGED <<queueVars, cpuVars, leaveMeAlone, irq, retAddr, next, firstAlone>>

\* The rest of thread(): a new Thread object, in the readyQ.
Spawn(c) == LET t == running[c] IN
  /\ At(t) = "t_sched"
  /\ \E u \in Threads :
       /\ pc[u] = "new"
       /\ pc' = [pc EXCEPT ![u] = "sw_prev", ![t] = "run"]
       /\ leaveMeAlone' = [leaveMeAlone EXCEPT ![u] = FALSE]
       /\ retAddr' = [retAddr EXCEPT ![u] = "run"]
       /\ readyQ' = Append(readyQ, u)
  /\ UNCHANGED <<zombieQ, cpuVars, irq, next, reapVars>>

\* The size of Threads is the bound: with no address free nothing is created.
SpawnBound(c) == LET t == running[c] IN
  /\ At(t) = "t_sched"
  /\ \A u \in Threads : pc[u] # "new"
  /\ Goto(t, "run")
  /\ UNCHANGED <<queueVars, cpuVars, leaveMeAlone, retAddr, next, reapVars>>

-----------------------------------------------------------------------------
\* The calls a thread makes of its own accord, and the code that runs on.
Call(c) == YieldCall(c) \/ StopCall(c) \/ (running[c] # Reaper /\ ReaperCall(c))

Kernel(c) ==
  \/ YieldSet(c) \/ YieldAdd(c)
  \/ BlockRemove(c) \/ BlockMeetsItself(c) \/ BlockLeaveAlone(c)
  \/ BlockRequeue(c) \/ BlockTake(c) \/ BlockActivate(c)
  \/ ContextSwitch(c) \/ ClearPrevious(c) \/ ClearCurrent(c)
  \/ StopAdd(c) \/ (running[c] = Reaper /\ ReaperCall(c))
  \/ ReaperEmpty(c) \/ ReaperRemove(c) \/ ReaperMeetsFirst(c)
  \/ ReaperLeaveAlone(c) \/ ReaperAdd(c) \/ ReaperDelete(c)
  \/ Spawn(c) \/ SpawnBound(c)

SchedNext == \E c \in Cpus : Timer(c) \/ Call(c) \/ Kernel(c)

SchedSpec == SchedInit /\ [][SchedNext]_schedVars

\* A step of a thread's own code, not of the timer handler.
OwnStep(t) == \E c \in Cpus : running[c] = t /\ irq[t] = "none" /\ Kernel(c)

\* The code runs on wherever it is, except that a thread need not make a call.
\* A tick is long: a thread that gets a processor again and again executes some of
\* its own code between the interrupts.  The timer is periodic and knows nothing
\* of the code, so it does not miss forever the moments when yield has an effect.
SchedFairness ==
  /\ \A c \in Cpus : WF_schedVars(Kernel(c)) /\ SF_schedVars(Timer(c))
  /\ \A t \in Threads : SF_schedVars(OwnStep(t))

FairSchedSpec == SchedSpec /\ SchedFairness

-----------------------------------------------------------------------------
(* Properties *)

TypeOK ==
  /\ readyQ \in Seq(Threads)
  /\ zombieQ \in Seq(Threads)
  /\ activeThreads \in [Cpus -> Threads]
  /\ running \in [Cpus -> Threads]
  /\ previous \in [Cpus -> Threads \cup {NoThread}]
  /\ leaveMeAlone \in [Threads -> BOOLEAN]
  /\ pc \in [Threads -> Locations]
  /\ irq \in [Threads -> {"none"} \cup YieldLocs \cup BlockLocs]
  /\ retAddr \in [Threads -> Work \cup {"s_end"}]
  /\ next \in [Threads -> Threads \cup {NoThread}]
  /\ th \in [Threads -> Threads \cup {NoThread}]
  /\ firstAlone \in [Threads -> Threads \cup {NoThread}]

\* No stack is in use on two processors: what leaveMeAlone is for.
OneCpuPerThread == \A c, d \in Cpus : running[c] = running[d] => c = d

\* A thread that block or reaper may take off a queue has its leaveMeAlone set
\* or has left its processor with all its registers saved; yield checks the flag
\* and sets it with interrupts on and no lock ("is this a race condition?").
FlagProtects ==
  \A t \in ToSet(readyQ) \cup ToSet(zombieQ) : leaveMeAlone[t] \/ Saved(t)

\* A thread is in the queues at most once: Thread::next is the only link, and a
\* second Queue::add of a queued thread would cut the queue or close it to a ring.
QueuedOnce ==
  /\ IsInjective(readyQ) /\ IsInjective(zombieQ)
  /\ ToSet(readyQ) \cap ToSet(zombieQ) = {}

\* While block has written activeThreads and contextSwitch has not yet changed
\* stacks, a timer interrupt must not yield in the name of the wrong thread.
TimerOnRunner ==
  \A c \in Cpus : InterruptsOn(c) /\ ~leaveMeAlone[activeThreads[c]]
                    => activeThreads[c] = running[c]

\* The reaper deletes no thread that a processor, a queue or a contextSwitch
\* that is still to clear its leaveMeAlone refers to.
NoFreedThread ==
  \A t \in Threads : pc[t] = "new" =>
    /\ t \notin ToSet(readyQ) \cup ToSet(zombieQ)
    /\ \A c \in Cpus : t \notin {running[c], activeThreads[c], previous[c]}
    /\ \A u \in Threads : t \notin {next[u], th[u]}

\* block, called by stop, does not return: there is no code after it.
StopNeverReturns == \A t \in Threads : pc[t] # "s_end"

\* A processor changes only to a stack that is completely saved.
ResumesSaved ==
  [][\A c \in Cpus : running'[c] # running[c] => Saved(running'[c])]_schedVars

\* A stopped thread can be found again by a reaper, until it is deleted.
ZombiesKept ==
  \A t \in Threads :
    Saved(t) /\ retAddr[t] = "s_end" /\ pc[t] # "new"
      => t \in ToSet(zombieQ) \/ \E u \in Threads : th[u] = t

\* Every ready thread gets a processor again.
ReadyRuns == \A t \in Threads : t \in ToSet(readyQ) ~> OnCpu(t)

\* Every stopped thread is deleted.
ZombiesReaped == \A t \in Threads : t \in ToSet(zombieQ) ~> pc[t] = "new"
=============================================================================
