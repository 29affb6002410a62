--------------------------- MODULE SemaphoreProofs ---------------------------
(***************************************************************************)
(* Safety of the semaphore and of the scheduler under it, for any number   *)
(* of processors, threads and permits: the steps of down and up keep the   *)
(* invariants of the scheduler, the steps of the scheduler keep those of   *)
(* the semaphore, and together they implement the queue of permits.        *)
(***************************************************************************)
EXTENDS KernelSemaphore, SchedulerProofs, FiniteSetTheorems

(***************************************************************************)
(* The inductive invariant of the semaphore, beside IInv and StopInv of    *)
(* the scheduler.  A thread that waits, or that an up has taken off the    *)
(* queue and not yet made ready, is "parked".                              *)
(***************************************************************************)
Woken(t)  == \E u \in Threads : woken[u] = t
Parked(t) == t \in ToSet(waiting) \/ Woken(t)

\* A parked thread is parked once and in none of the scheduler's places.
ParkedOnce ==
  /\ IsInjective(waiting)
  /\ \A t \in Threads : Parked(t) => ~Placed(t)
  /\ \A t \in ToSet(waiting) : ~Woken(t)
  /\ \A u, v \in Threads : woken[u] = woken[v] /\ woken[u] # NoThread => u = v

\* Who is between lock and unlock holds the lock, and has interrupts off.  It is
\* never the Reaper.
LockExact ==
  /\ \A t \in Threads : pc[t] \in SpinLocked => semTaken = t /\ irq[t] = "none"
  /\ semTaken # NoThread => pc[semTaken] \in SpinLocked
  /\ pc[Reaper] \notin SpinLocked \cup {"critical", "u_sched"}

\* A parked thread is on its way out through block, and comes back with a permit.
ParkedAway ==
  \A t \in Threads :
    /\ Parked(t) => /\ irq[t] = "none"
                    /\ pc[t] = "d_queued" \/ (retAddr[t] = "critical" /\ Away(t))
    /\ Woken(t) => pc[t] # "d_queued"
    /\ pc[t] = "d_queued" => t \in ToSet(waiting)
    /\ pc[t] \in {"d_wait", "d_queued"} => leaveMeAlone[t]
    /\ woken[t] # NoThread <=> pc[t] \in {"u_wake", "u_sched"}

\* Every permit is counted or held, and none is counted while somebody waits.
PermitsCounted ==
  /\ IsFiniteSet(Holders)
  /\ semCount + Cardinality(Holders) = Permits
  /\ waiting # <<>> \/ (\E t \in Threads : pc[t] = "d_wait") => semCount = 0

\* Who is in block or saved, and has not stopped, can be found again.
NobodyLost ==
  \A t \in Threads : Away(t) => Ended(t) \/ Runnable(t) \/ Parked(t)

SemInv ==
  /\ SemTypeOK /\ IInv /\ StopInv
  /\ ParkedOnce /\ LockExact /\ ParkedAway /\ PermitsCounted /\ NobodyLost

-----------------------------------------------------------------------------
\* A step of down or up: the thread on c gets from one location to another.
Steps(c, from, to) == LET t == running[c] IN
  /\ At(t) = from /\ Goto(t, to) /\ Untouched

\* Where down and up are.
SemLocs == SpinLocked \cup {"run", "critical", "u_sched"}

\* What such a step changes: one thread, outside the interrupt handler.
LEMMA StepsFacts ==
  ASSUME TypeOK, NEW c \in Cpus, NEW from \in SemLocs, NEW to \in SemLocs \cup {"b_remove"},
         Steps(c, from, to)
  PROVE  /\ irq[running[c]] = "none" /\ pc[running[c]] = from /\ OnCpu(running[c]) 
         /\ running[c] \in Threads
         /\ irq' = irq /\ pc' = [pc EXCEPT ![running[c]] = to]
         /\ pc' \in [Threads -> Locations]
         /\ \A u \in Threads : /\ At(u)' = IF u = running[c] THEN to ELSE At(u)
                               /\ pc'[u] = IF u = running[c] THEN to ELSE pc[u]
                               /\ OnCpu(u)' <=> OnCpu(u)
                               /\ Zombie(u)' <=> Zombie(u)
         /\ UNCHANGED <<zombieQ, cpuVars, next, th, firstAlone>>
<1> DEFINE t == running[c]
<1> USE DEF Untouched, cpuVars, reapVars
<1>1. t \in Threads /\ OnCpu(t)
  BY DEF TypeOK, OnCpu
<1>2. irq[t] = "none" /\ pc[t] = from
  BY <1>1, PlainFrame DEF Steps, SemLocs, SpinLocked, YieldLocs, BlockLocs
<1>3. irq' = irq /\ pc' = [pc EXCEPT ![t] = to]
  BY <1>2 DEF Steps, Goto
<1>4. to \in Locations
  BY DEF SemLocs, Locations, Work, BlockLocs
<1>5. UNCHANGED <<zombieQ, cpuVars, next, th, firstAlone>>
  BY DEF Steps
<1>6. ASSUME NEW u \in Threads
      PROVE  /\ At(u)' = IF u = t THEN to ELSE At(u)
             /\ pc'[u] = IF u = t THEN to ELSE pc[u]
  BY <1>1, <1>2, <1>3 DEF TypeOK, At
<1>7. ASSUME NEW u \in Threads
      PROVE  (OnCpu(u)' <=> OnCpu(u)) /\ (Zombie(u)' <=> Zombie(u))
  BY <1>5 DEF OnCpu, Zombie
<1>8. pc' \in [Threads -> Locations]
  BY <1>3, <1>4 DEF TypeOK
<1> QED BY <1>1, <1>2, <1>3, <1>5, <1>6, <1>7, <1>8

\* Such a step keeps the scheduler's invariant, if the thread that goes on to
\* block is flagged, and one that is made ready is in no queue and in block.
LEMMA QuietStep ==
  ASSUME IInv, NEW c \in Cpus, NEW from \in SemLocs, NEW to \in SemLocs \cup {"b_remove"},
         Steps(c, from, to),
         readyQ' \in Seq(Threads), IsInjective(readyQ'),
         \A u \in Threads : u \in ToSet(readyQ') => u \in ToSet(readyQ) \/ (~Placed(u) /\ Away(u)),
         leaveMeAlone' = leaveMeAlone \/ leaveMeAlone' = [leaveMeAlone EXCEPT ![running[c]] = TRUE],
         to = "b_remove" => leaveMeAlone[running[c]],
         retAddr' \in [Threads -> Work \cup {"s_end"}]
  PROVE  IInv'
<1> DEFINE t == running[c]
<1> USE DEF cpuVars
<1>1. TypeOK /\ from \notin Blocking \cup Flagged
         \cup {"sw_prev", "new", "r_look", "r_add"}
  BY DEF IInv, SemLocs, SpinLocked, Blocking, Flagged
<1>2. to \notin (Flagged \ {"b_remove"}) \cup (Blocking \ {"b_remove"})
         \cup {"sw_prev", "new", "r_look", "r_add"}
  BY DEF SemLocs, SpinLocked, Blocking, Flagged
<1>3. /\ irq[t] = "none" /\ pc[t] = from /\ At(t) = from /\ OnCpu(t) /\ t \in Threads
      /\ irq' = irq /\ pc' \in [Threads -> Locations]
      /\ \A u \in Threads : At(u)' = IF u = t THEN to ELSE At(u)
      /\ \A u \in Threads : pc'[u] = IF u = t THEN to ELSE pc[u]
      /\ \A u \in Threads : OnCpu(u)' <=> OnCpu(u)
      /\ UNCHANGED <<zombieQ, activeThreads, running, previous, next, th, firstAlone>>
  BY <1>1, StepsFacts DEF Steps
<1>4. /\ leaveMeAlone' \in [Threads -> BOOLEAN]
      /\ \A u \in Threads : leaveMeAlone'[u] = leaveMeAlone[u] \/ (u = t /\ leaveMeAlone'[u])
  BY <1>1, <1>3 DEF TypeOK
<1>5. \A u \in Threads : Placed(u)' => Placed(u) \/ Away(u)
  BY <1>3 DEF Placed, InQueue
<1>6. ToSet(readyQ') \cup ToSet(zombieQ) \subseteq Threads
  BY <1>1, ElementsFacts DEF TypeOK
<1>10. TypeOK'
  BY <1>1, <1>3, <1>4 DEF TypeOK
<1>11. OneCpuPerThread'
  BY <1>3 DEF IInv, OneCpuPerThread
<1>12. PlacedOnce'
  <2>1. ToSet(readyQ') \cap ToSet(zombieQ) = {}
    BY <1>6 DEF IInv, PlacedOnce, QueuedOnce, Placed, InQueue
  <2>2. \A u \in Threads : ~InQueue(next[u])' /\ ~InQueue(th[u])'
    BY <1>3, <1>6 DEF IInv, PlacedOnce, Placed, InQueue
  <2> QED BY <1>3, <2>1, <2>2 DEF IInv, PlacedOnce, QueuedOnce
<1>13. FlagSet'
  BY <1>2, <1>3, <1>4, SMTT(40) DEF IInv, FlagSet, Flagged
<1>14. PlacedAway'
  BY <1>1, <1>3, <1>5, SMTT(40) DEF IInv, PlacedAway, Away, Blocking, Saved
<1>15. PreviousSaved'
  <2>1. \A u \in Threads : leaveMeAlone[u] => leaveMeAlone'[u]
    BY <1>1, <1>4 DEF TypeOK
  <2>2. \A u \in Threads : At(u)' \in Taking => At(u) \in Taking
    BY <1>2, <1>3 DEF Taking, Blocking
  <2>3. \A u \in Threads : Saved(u) => Saved(u)'
    BY <1>1, <1>3 DEF Saved
  <2>4. \A b \in Cpus : previous[b] \in Threads \cup {NoThread} /\ previous'[b] = previous[b]
    BY <1>1, <1>3 DEF TypeOK
  <2> QED BY <1>3, <2>1, <2>2, <2>3, <2>4 DEF IInv, PreviousSaved, Taking
<1>16. LocalsSet'
  BY <1>1, <1>2, <1>3, <1>4, SMTT(40) DEF IInv, LocalsSet, Taking, Blocking, Saved
<1>17. ActiveIsRunning'
  BY <1>1, <1>2, <1>3, SMTT(40) DEF IInv, ActiveIsRunning, OneCpuPerThread, Blocking, TypeOK
<1>18. HandlerOnPlain'
  BY <1>2, <1>3, SMTT(40) DEF IInv, HandlerOnPlain
<1> QED
  BY <1>10, <1>11, <1>12, <1>13, <1>14, <1>15, <1>16, <1>17, <1>18 DEF IInv

\* It keeps what is known of stopped threads, too.
LEMMA QuietStopStep ==
  ASSUME IInv, StopInv, NEW c \in Cpus, NEW from \in SemLocs, NEW to \in SemLocs \cup {"b_remove"},
         Steps(c, from, to), 
         \A u \in Threads : ~Ended(u) \/ ~Runnable(u)',
         \A u \in Threads \ {running[c]} : retAddr'[u] = retAddr[u],
         \A u \in Threads : u = running[c] => retAddr'[u] = retAddr[u] \/ (retAddr'[u] \in Work /\ u # Reaper)
  PROVE  StopInv'
<1> DEFINE t == running[c]
<1>1. TypeOK /\ from \notin Blocking \cup Flagged
         \cup {"sw_prev", "new", "r_look", "r_add"}
  BY DEF IInv, SemLocs, SpinLocked, Blocking, Flagged
<1>2. to \notin (Flagged \ {"b_remove"}) \cup (Blocking \ {"b_remove"})
         \cup {"sw_prev", "new", "r_look", "r_add", "s_end"}
  BY DEF SemLocs, SpinLocked, Blocking, Flagged
<1>3. /\ irq[t] = "none" /\ pc[t] = from /\ At(t) = from /\ OnCpu(t) /\ t \in Threads
      /\ irq' = irq /\ next' = next /\ th' = th
      /\ \A u \in Threads : At(u)' = IF u = t THEN to ELSE At(u)
      /\ \A u \in Threads : pc'[u] = IF u = t THEN to ELSE pc[u]
      /\ \A u \in Threads : OnCpu(u)' <=> OnCpu(u)
      /\ \A u \in Threads : Zombie(u)' <=> Zombie(u)
  BY <1>1, StepsFacts DEF Steps
<1>4. ~Ended(t) /\ \A u \in Threads : u = t => ~Ended(u)'
  BY <1>1, <1>2, <1>3 DEF StopInv, StoppedStays, Away, Saved, Ended, Flagged, Work
<1>5. \A u \in Threads \ {t} : (Ended(u)' <=> Ended(u)) /\ (Away(u)' <=> Away(u))
  BY <1>3 DEF Ended, Away, Saved, Blocking
<1>6. StopNeverReturns'
  BY <1>2, <1>3 DEF StopInv, StopNeverReturns
<1>7. OffIsSaved'
  BY <1>3 DEF StopInv, OffIsSaved
<1>8. LocalsClear'
  BY <1>1, <1>3 DEF StopInv, LocalsClear, Blocking
<1>9. StoppedStays'
  <2>1. \A u \in Threads : Ended(u)' => (irq[u] = "none")' /\ (pc[u] = "s_add" \/ Away(u))' /\ ~Runnable(u)'
    BY <1>3, <1>4, <1>5 DEF StopInv, StoppedStays
  <2>2. \A u \in Threads : Zombie(u)' \/ pc'[u] = "s_add" => Ended(u)'
    BY <1>2, <1>3, <1>4, <1>5 DEF StopInv, StoppedStays, Flagged
  <2>3. retAddr'[Reaper] = "run"
    BY <1>3, ThreadsAssumption DEF StopInv, StoppedStays
  <2> QED BY <2>1, <2>2, <2>3 DEF StoppedStays
<1> QED BY <1>6, <1>7, <1>8, <1>9 DEF StopInv

\* No step of down and up disturbs the scheduler.
LEMMA SemSchedStep ==
  ASSUME SemInv, NEW c \in Cpus, DownLock(c) \/ Semaphore(c)
  PROVE  IInv' /\ StopInv'
<1> DEFINE t == running[c]
<1>0. TypeOK /\ t \in Threads /\ IInv /\ StopInv /\ IsInjective(readyQ)
  BY DEF SemInv, IInv, TypeOK, PlacedOnce, QueuedOnce
<1>1. CASE UpSchedule(c)
  <2> DEFINE w == woken[t]
  <2>1. Steps(c, "u_sched", "run") /\ readyQ' = Append(readyQ, w) /\ retAddr' = retAddr /\ leaveMeAlone' = leaveMeAlone
    BY <1>1 DEF UpSchedule, Steps
  <2>2. pc[t] = "u_sched"
    BY <1>0, <2>1, StepsFacts DEF SemLocs
  <2>3. w \in Threads /\ Woken(w)
    BY <1>0, <2>2 DEF SemInv, ParkedAway, SemTypeOK, Woken
  <2>4. ~Placed(w) /\ Away(w) /\ retAddr[w] = "critical"
    BY <2>3 DEF SemInv, ParkedAway, ParkedOnce, Parked
  <2>5. readyQ' \in Seq(Threads) /\ IsInjective(readyQ') /\ ToSet(readyQ') = ToSet(readyQ) \cup {w}
    BY <1>0, <2>1, <2>3, <2>4, AddFacts DEF TypeOK, Placed, InQueue
  <2>6. IInv'
    BY <1>0, <2>1, <2>4, <2>5, QuietStep DEF SemLocs, TypeOK
  <2>7. \A u \in Threads : Runnable(u)' => Runnable(u) \/ u = w
    BY <2>1, <2>5 DEF Runnable, Steps, Untouched
  <2>8. \A u \in Threads : ~Ended(u) \/ ~Runnable(u)'
    BY <1>0, <2>4, <2>7 DEF StopInv, StoppedStays, Ended
  <2> QED BY <1>0, <2>1, <2>6, <2>8, QuietStopStep DEF SemLocs
<1>2. ASSUME readyQ' = readyQ, UNCHANGED <<zombieQ, next>>
      PROVE  /\ readyQ' \in Seq(Threads) /\ IsInjective(readyQ')
             /\ \A u \in Threads : u \in ToSet(readyQ') => u \in ToSet(readyQ)
             /\ \A u \in Threads : ~Ended(u) \/ ~Runnable(u)'
  BY <1>0, <1>2 DEF TypeOK, Runnable, StopInv, StoppedStays
<1>3. CASE DownBlock(c)
  <2>1. /\ Steps(c, "d_queued", "b_remove") /\ readyQ' = readyQ /\ leaveMeAlone' = leaveMeAlone
        /\ retAddr' = [retAddr EXCEPT ![t] = "critical"] /\ UNCHANGED <<zombieQ, next>>
    BY <1>3 DEF DownBlock, Unlock, Steps, Untouched
  <2>2. pc[t] = "d_queued"
    BY <1>0, <2>1, StepsFacts DEF SemLocs, SpinLocked
  <2>3. leaveMeAlone[t] /\ t # Reaper
    BY <1>0, <2>2 DEF SemInv, ParkedAway, LockExact, SpinLocked
  <2>4. retAddr' \in [Threads -> Work \cup {"s_end"}]
    BY <1>0, <2>1 DEF TypeOK, Work
  <2>5. IInv'
    BY <1>0, <1>2, <2>1, <2>3, <2>4, QuietStep DEF SemLocs, SpinLocked
  <2>6. /\ \A u \in Threads \ {t} : retAddr'[u] = retAddr[u]
        /\ \A u \in Threads : u = t => retAddr'[u] \in Work /\ u # Reaper
    BY <1>0, <2>1, <2>3 DEF TypeOK, Work
  <2> QED BY <1>0, <1>2, <2>1, <2>5, <2>6, QuietStopStep DEF SemLocs, SpinLocked
<1>4. CASE DownMark(c)
  <2>1. /\ Steps(c, "d_held", "d_wait") /\ readyQ' = readyQ /\ retAddr' = retAddr
        /\ leaveMeAlone' = [leaveMeAlone EXCEPT ![activeThreads[c]] = TRUE] /\ UNCHANGED <<zombieQ, next>>
    BY <1>4 DEF DownMark, Steps, Untouched
  <2>2. activeThreads[c] = t
    BY <1>0, <2>1 DEF IInv, ActiveIsRunning, Steps
  <2>3. IInv'
    BY <1>0, <1>2, <2>1, <2>2, QuietStep DEF SemLocs, SpinLocked, TypeOK
  <2> QED BY <1>0, <1>2, <2>1, <2>3, QuietStopStep DEF SemLocs, SpinLocked
<1>5. ASSUME NEW from \in SemLocs, NEW to \in SemLocs, Steps(c, from, to), UNCHANGED <<readyQ, leaveMeAlone, retAddr>>
      PROVE  IInv' /\ StopInv'
  <2>1. UNCHANGED <<zombieQ, next>> /\ to # "b_remove"
    BY <1>5 DEF Steps, Untouched, SemLocs, SpinLocked
  <2>2. IInv'
    BY <1>0, <1>2, <1>5, <2>1, QuietStep DEF TypeOK
  <2> QED BY <1>0, <1>2, <1>5, <2>1, <2>2, QuietStopStep
<1>6. CASE DownLock(c) \/ DownTake(c) \/ DownTakeUnlock(c) \/ DownEnqueue(c)
  <2>1. \/ Steps(c, "run", "d_held") \/ Steps(c, "d_held", "d_took")
        \/ Steps(c, "d_took", "critical") \/ Steps(c, "d_wait", "d_queued")
    BY <1>6 DEF DownLock, DownTake, DownTakeUnlock, DownEnqueue, Lock, Unlock, Steps
  <2>2. UNCHANGED <<readyQ, leaveMeAlone, retAddr>>
    BY <1>6 DEF DownLock, DownTake, DownTakeUnlock, DownEnqueue
  <2> QED BY <1>5, <2>1, <2>2 DEF SemLocs, SpinLocked
<1>7. CASE UpLock(c) \/ UpWake(c) \/ UpWakeUnlock(c) \/ UpCount(c) \/ UpCountUnlock(c)
  <2>1. \/ Steps(c, "critical", "u_held") \/ Steps(c, "u_held", "u_wake") \/ Steps(c, "u_wake", "u_sched")
        \/ Steps(c, "u_held", "u_count") \/ Steps(c, "u_count", "run")
    BY <1>7 DEF UpLock, UpWake, UpWakeUnlock, UpCount, UpCountUnlock, Lock, Unlock, Steps
  <2>2. UNCHANGED <<readyQ, leaveMeAlone, retAddr>>
    BY <1>7 DEF UpLock, UpWake, UpWakeUnlock, UpCount, UpCountUnlock
  <2> QED BY <1>5, <2>1, <2>2 DEF SemLocs, SpinLocked
<1> QED BY <1>1, <1>3, <1>4, <1>6, <1>7 DEF Semaphore

-----------------------------------------------------------------------------
\* Whose flag a step of the scheduler may clear.
LEMMA FlagFacts ==
  ASSUME IInv, NEW c \in Cpus, Timer(c) \/ Call(c) \/ Kernel(c)
  PROVE  \A u \in Threads : leaveMeAlone[u] =>
           leaveMeAlone'[u] \/ u = running[c] \/ Saved(u) \/ pc[u] = "new"
<1> DEFINE t == running[c]
<1>0. t \in Threads /\ TypeOK
  BY DEF IInv, TypeOK
<1>1. \/ leaveMeAlone' = leaveMeAlone
      \/ \E v \in Threads : leaveMeAlone' = [leaveMeAlone EXCEPT ![v] = TRUE]
      \/ \E v \in Threads : /\ leaveMeAlone' = [leaveMeAlone EXCEPT ![v] = FALSE]
                            /\ v = t \/ Saved(v) \/ pc[v] = "new"
      \/ ClearPrevious(c)
  <2>1. CASE BlockTake(c)
    <3>1. next[t] \in Threads
      BY <1>0, <2>1 DEF BlockTake, IInv, LocalsSet, Blocking
    <3> QED BY <2>1, <3>1 DEF BlockTake
  <2>2. CASE Spawn(c)
    BY <2>2 DEF Spawn
  <2>3. CASE YieldSet(c) \/ StopCall(c) \/ BlockMeetsItself(c) \/ ClearCurrent(c)
    BY <1>0, <2>3 DEF YieldSet, StopCall, BlockMeetsItself, ClearCurrent
  <2> QED BY <2>1, <2>2, <2>3 DEF Timer, Call, Kernel, YieldCall, YieldAdd, BlockRemove,
      BlockLeaveAlone,
     BlockRequeue, BlockActivate, ContextSwitch, StopAdd, ReaperCall, ReaperEmpty, ReaperRemove,
     ReaperMeetsFirst, ReaperLeaveAlone, ReaperAdd, ReaperDelete, SpawnBound
<1>2. CASE ClearPrevious(c)
  <2>1. leaveMeAlone' = [leaveMeAlone EXCEPT ![previous[c]] = FALSE]
    BY <1>2 DEF ClearPrevious
  <2>2. previous[c] \in Threads => Saved(previous[c])
    BY ThreadsAssumption DEF IInv, PreviousSaved
  <2> QED BY <1>0, <2>1, <2>2 DEF TypeOK
<1>3. CASE ~ClearPrevious(c)
  BY <1>0, <1>1, <1>3 DEF TypeOK
<1> QED BY <1>2, <1>3

\* No step of the scheduler enters or leaves the code of down and up.
LEMMA OutsideFacts ==
  ASSUME SemInv, NEW c \in Cpus, Timer(c) \/ Call(c) \/ Kernel(c)
  PROVE  \A u \in Threads :
           \/ Same(u) /\ u # running[c]
           \/ pc'[u] = pc[u] /\ pc[u] \notin SpinLocked
           \/ pc[u] \notin SpinLocked \cup {"u_sched"} /\ pc'[u] \notin SpinLocked \cup {"u_sched"}
<1> DEFINE t == running[c]
<1>0. IInv /\ StopInv /\ LockExact /\ TypeOK /\ t \in Threads
  BY DEF SemInv, IInv, TypeOK
<1>1. Control(t)
  BY <1>0, ControlFacts
<1>2. ASSUME NEW u \in Threads, u # t
      PROVE  Same(u) \/ (pc[u] \notin SpinLocked \cup {"u_sched"} /\ pc'[u] \notin SpinLocked \cup {"u_sched"})
  <2>1. Gone(t, u) => pc[u] = "sw_prev"
    BY <1>0 DEF Gone, Saved, At, StopInv, StoppedStays, Zombie
  <2> QED BY <1>1, <1>2, <2>1 DEF Control, Gone, Born, SpinLocked
<1>3. pc[t] \notin SpinLocked
  BY <1>0, <1>1 DEF Control, Interrupted, Works, Moves, Returns, LockExact, SpinLocked, Work,
      ReapLocs, Blocking, At
<1>4. \/ pc'[t] = pc[t]
      \/ pc[t] # "u_sched" /\ pc'[t] \notin SpinLocked \cup {"u_sched"}
  <2>1. CASE Interrupted(t)
    BY <2>1 DEF Interrupted
  <2>2. CASE Works(t)
    BY <2>2 DEF Works, Work, ReapLocs, SpinLocked
  <2>3. CASE Moves(t)
    BY <2>3 DEF Moves, GotTo, Blocking, At, SpinLocked
  <2>4. CASE Returns(t)
    BY <1>0, <2>4 DEF Returns, At, TypeOK, Work, SpinLocked
  <2> QED BY <1>1, <2>1, <2>2, <2>3, <2>4 DEF Control
<1> QED BY <1>2, <1>3, <1>4

\* A step of the scheduler does not touch a parked thread that is off the
\* processors, and takes one that is not on to leave them.
LEMMA ParkedFacts ==
  ASSUME SemInv, NEW c \in Cpus, Timer(c) \/ Call(c) \/ Kernel(c), NEW u \in Threads, Parked(u)
  PROVE  /\ irq'[u] = "none" /\ ~Placed(u)'
         /\ Same(u) \/ (retAddr'[u] = "critical" /\ pc[u] # "d_queued")
         /\ pc[u] # "d_queued" => Away(u)'
<1> DEFINE t == running[c]
<1>0. IInv /\ StopInv /\ TypeOK /\ t \in Threads /\ OnCpu(t) /\ Control(t) /\ Readies(c) /\ Reaps(c)
  BY ControlFacts, ReadyFacts, ReapFacts DEF SemInv, IInv, TypeOK, StopInv, OnCpu
<1>1. /\ irq[u] = "none" /\ ~Placed(u) /\ ~Runnable(u) /\ ~Zombie(u)
      /\ pc[u] = "d_queued" \/ (retAddr[u] = "critical" /\ Away(u))
  BY DEF SemInv, ParkedOnce, ParkedAway, Placed, InQueue, Runnable, Zombie
<1>2. pc[u] # "new"
  BY <1>1 DEF Away, Saved, At, Blocking
<1>3. At(u) \notin {"y_add", "s_add"} /\ ~Born(u) /\ ~Gone(t, u)
  BY <1>0, <1>1, <1>2 DEF Away, Saved, At, Blocking, Born, Gone, Zombie
<1>4. ~Runnable(u)' /\ ~Zombie(u)'
  BY <1>0, <1>1, <1>3 DEF Readies, Reaps
<1>5. ~Placed(u)'
  BY <1>4 DEF Placed, InQueue, Runnable, Zombie
<1>6. OnCpu(u)' => OnCpu(u)
  BY <1>0, <1>1, RunningFacts DEF OnCpu, TypeOK, Runnable
<1>7. CASE u # t
  <2>1. Same(u)
    BY <1>0, <1>3, <1>7 DEF Control
  <2> QED BY <1>1, <1>5, <1>6, <2>1 DEF Same, Away, Saved, At
<1>8. CASE u = t
  <2>1. At(u) = pc[u] /\ (pc[u] = "d_queued" \/ pc[u] \in Blocking)
    BY <1>0, <1>1, <1>8 DEF Away, Saved, At
  <2>2. ~Returns(u)
    BY <1>1, <2>1 DEF Returns, Runnable, Blocking
  <2>3. Moves(u)
    BY <1>0, <1>8, <2>1, <2>2 DEF Control, Interrupted, Works, Work, ReapLocs, Blocking, Flagged,
        SpinLocked
  <2>4. /\ irq'[u] = "none" /\ retAddr'[u] = retAddr[u]
        /\ pc[u] # "d_queued"
        /\ pc'[u] \in Blocking \/ (pc[u] = "b_switch" /\ pc'[u] = "sw_prev")
    BY <1>1, <2>1, <2>3 DEF Moves, GotTo, Blocking
  <2>5. pc[u] = "b_switch" => ~OnCpu(u)'
    <3>1. pc[u] = "b_switch" => next[t] # t
      BY <1>0, <1>8, <2>1 DEF IInv, LocalsSet, Taking, Blocking, Saved
    <3> QED BY <1>0, <1>8, <2>1, <3>1, RunningFacts DEF OnCpu, TypeOK, IInv, OneCpuPerThread
  <2> QED BY <1>1, <1>5, <2>4, <2>5 DEF Away, Saved, At, Blocking
<1> QED BY <1>7, <1>8

\* Nor does one make or unmake a holder of a permit.
LEMMA HoldersStay ==
  ASSUME SemInv, NEW c \in Cpus, Timer(c) \/ Call(c) \/ Kernel(c), UNCHANGED semVars
  PROVE  Holders' = Holders
<1> DEFINE t == running[c]
           Holds(u) == \/ pc[u] \in {"d_took", "critical", "u_held"}
                       \/ pc[u] \in BlockLocs \cup YieldLocs /\ retAddr[u] = "critical"
<1>0. IInv /\ StopInv /\ TypeOK /\ t \in Threads /\ Control(t)
  BY ControlFacts DEF SemInv, IInv, TypeOK, StopInv
<1>1. ASSUME NEW u \in Threads, u # t
      PROVE  Holds(u)' <=> Holds(u)
  <2>1. Gone(t, u) => pc[u] = "sw_prev" /\ retAddr[u] = "s_end"
    BY <1>0 DEF Gone, Saved, At, StopInv, StoppedStays, Zombie, Ended
  <2> QED BY <1>0, <1>1, <2>1 DEF Control, Same, Gone, Born, BlockLocs, YieldLocs
<1>2. ASSUME NEW u \in Threads, u = t
      PROVE  Holds(u)' <=> Holds(u)
  <2>1. CASE Interrupted(u)
    BY <2>1 DEF Interrupted, BlockLocs, YieldLocs
  <2>2. CASE Works(u)
    <3>1. pc[u] = "s_add" => retAddr[u] = "s_end"
      BY <1>0 DEF StopInv, StoppedStays, Ended
    <3>2. u = Reaper => retAddr[u] = "run"
      BY <1>0 DEF StopInv, StoppedStays
    <3> QED BY <2>2, <3>1, <3>2 DEF Works, BlockLocs, YieldLocs, Work, ReapLocs
  <2>3. CASE Moves(u)
    BY <2>3 DEF Moves, GotTo, Blocking, At, BlockLocs, YieldLocs
  <2>4. CASE Returns(u)
    BY <1>0, <2>4 DEF Returns, At, TypeOK, Work, BlockLocs, YieldLocs
  <2> QED BY <1>0, <1>2, <2>1, <2>2, <2>3, <2>4 DEF Control
<1>3. \A u \in Threads : Holds(u)' <=> Holds(u)
  BY <1>1, <1>2
<1>4. waiting' = waiting
  BY DEF semVars
<1> QED BY <1>3, <1>4 DEF Holders

\* Who gets into block or off the processors there can still be found.
LEMMA SchedLosesNobody ==
  ASSUME SemInv, NEW c \in Cpus, Timer(c) \/ Call(c) \/ Kernel(c), UNCHANGED semVars
  PROVE  NobodyLost'
<1> DEFINE t == running[c]
<1>0. IInv /\ StopInv /\ TypeOK /\ t \in Threads /\ OnCpu(t) /\ Control(t) /\ Readies(c) /\ NobodyLost
  BY ControlFacts, ReadyFacts DEF SemInv, IInv, TypeOK, StopInv, OnCpu
<1> SUFFICES ASSUME NEW u \in Threads, Away(u)'
             PROVE  Ended(u)' \/ Runnable(u)' \/ Parked(u)'
  BY DEF NobodyLost
<1>1. Parked(u)' <=> Parked(u)
  BY DEF semVars, Parked, Woken
<1>2. At(t) = "b_switch" => next[t] \in Threads /\ next[t] # t /\ Saved(next[t])
  BY <1>0 DEF IInv, LocalsSet, Taking, Blocking, Saved
<1>3. CASE u # t
  <2>1. CASE Born(u)
    BY <1>0, <1>3, <2>1 DEF Readies
  <2>2. CASE Gone(t, u)
    <3>1. irq[u] = "none"
      BY <1>0, <2>2 DEF Gone, StopInv, StoppedStays, Zombie
    <3> QED BY <2>2, <3>1 DEF Gone, Away, Saved, At, Blocking
  <2>3. CASE Same(u)
    <3>1. At(u)' = At(u)
      BY <2>3 DEF Same, At
    <3>2. OnCpu(u) => OnCpu(u)'
      BY <1>0, <1>3, RunningFacts DEF OnCpu, TypeOK
    <3>3. Away(u)
      BY <3>1, <3>2 DEF Away, Saved, Blocking
    <3>4. Ended(u) \/ Runnable(u) \/ Parked(u)
      BY <1>0, <3>3 DEF NobodyLost
    <3>5. At(t) = "b_switch" /\ u = next[t] => ~Away(u)'
      <4>1. ASSUME At(t) = "b_switch", u = next[t] PROVE ~Away(u)'
        <5>1. OnCpu(u)'
          BY <1>0, <4>1, RunningFacts DEF OnCpu, TypeOK
        <5> QED BY <1>2, <3>1, <4>1, <5>1 DEF Away, Saved, Blocking
      <4> QED BY <4>1
    <3>6. Runnable(u) => Runnable(u)'
      BY <1>0, <1>3, <3>5 DEF Readies
    <3> QED BY <1>1, <2>3, <3>4, <3>6 DEF Same, Ended
  <2> QED BY <1>0, <1>3, <2>1, <2>2, <2>3 DEF Control
<1>4. CASE u = t
  <2>1. Works(u) \/ Moves(u)
    <3>1. ~Interrupted(u)
      BY DEF Interrupted, Away, Saved, At, Blocking
    <3>2. ~Returns(u)
      BY <1>0 DEF Returns, Away, Saved, At, Blocking, IInv, HandlerOnPlain, Flagged, TypeOK, Work
    <3> QED BY <1>0, <1>4, <3>1, <3>2 DEF Control
  <2>2. CASE Works(u)
    <3>1. pc[u] = "s_add" /\ retAddr'[u] = retAddr[u] /\ pc'[u] = "b_remove"
      BY <2>2 DEF Works, Away, Saved, At, Blocking, ReapLocs
    <3> QED BY <1>0, <3>1 DEF StopInv, StoppedStays, Ended
  <2>3. CASE Moves(u)
    <3>1. CASE At(u) = "y_add"
      BY <1>0, <1>4, <3>1 DEF Readies
    <3>2. CASE At(u) \in Blocking
      <4>1. Ended(u) \/ Runnable(u) \/ Parked(u)
        BY <1>0, <3>2 DEF NobodyLost, Away
      <4>2. ~Returns(u)
        BY <1>0, <2>3, <3>2 DEF Returns, Moves, GotTo, Blocking, At, IInv, HandlerOnPlain,
            Flagged, TypeOK, Work
      <4>3. Runnable(u) => Runnable(u)'
        BY <1>0, <1>2, <1>4, <4>2 DEF Readies
      <4>4. Ended(u) => Ended(u)'
        BY <2>3, <3>2 DEF Moves, GotTo, Ended, Blocking
      <4> QED BY <1>1, <4>1, <4>3, <4>4
    <3>3. CASE At(u) \in {"y_set", "sw_prev"}
      BY <2>3, <3>3 DEF Moves, GotTo, Away, Saved, At, Blocking
    <3> QED BY <2>3, <3>1, <3>2, <3>3 DEF Moves, Blocking
  <2> QED BY <2>1, <2>2, <2>3
<1> QED BY <1>3, <1>4

\* The steps of the scheduler keep the semaphore's invariant.
LEMMA SchedSemStep ==
  ASSUME SemInv, NEW c \in Cpus, Timer(c) \/ Call(c) \/ Kernel(c), UNCHANGED semVars
  PROVE  SemInv'
<1> DEFINE t == running[c]
<1>0. IInv /\ StopInv /\ TypeOK /\ t \in Threads /\ Control(t)
  BY ControlFacts DEF SemInv, IInv, TypeOK
<1>1. IInv' /\ StopInv'
  BY <1>0, StepInv, StopStep DEF SchedNext
<1>2. UNCHANGED <<semCount, semTaken, waiting, woken>> /\ \A u \in Threads : (Parked(u)' <=> Parked(u)) /\ (Woken(u)' <=> Woken(u))
  BY DEF semVars, Parked, Woken
<1>3. SemTypeOK'
  BY <1>1, <1>2 DEF SemInv, SemTypeOK, IInv
<1>4. ParkedOnce'
  <2>1. \A u \in Threads : Parked(u)' => ~Placed(u)'
    BY <1>2, ParkedFacts
  <2>2. ToSet(waiting) \subseteq Threads
    BY ElementsFacts DEF SemInv, SemTypeOK
  <2>3. \A u \in ToSet(waiting)' : ~Woken(u)'
    BY <1>2, <2>2 DEF SemInv, ParkedOnce
  <2> QED BY <1>2, <2>1, <2>3 DEF SemInv, ParkedOnce
<1>5. LockExact'
  <2>1. ASSUME NEW u \in Threads, pc'[u] \in SpinLocked
        PROVE  Same(u)
    BY <2>1, OutsideFacts
  <2>2. ASSUME NEW u \in Threads, pc[u] \in SpinLocked
        PROVE  Same(u)
    BY <2>2, OutsideFacts
  <2>3. pc'[Reaper] \notin SpinLocked \cup {"critical", "u_sched"}
    <3>1. pc[Reaper] \notin SpinLocked \cup {"critical", "u_sched"} /\ retAddr[Reaper] = "run"
      BY <1>0 DEF SemInv, LockExact, StopInv, StoppedStays
    <3> QED BY <1>0, <3>1, ThreadsAssumption DEF Control, Interrupted, Works, Moves, GotTo, Returns,
               Same, Gone, Born, Blocking, ReapLocs, SpinLocked
  <2>4. semTaken \in Threads \cup {NoThread}
    BY DEF SemInv, SemTypeOK
  <2> QED BY <1>2, <2>1, <2>2, <2>3, <2>4 DEF SemInv, LockExact, Same
<1>6. ParkedAway'
  <2>1. ASSUME NEW u \in Threads
        PROVE  /\ pc'[u] = "d_queued" => pc[u] = "d_queued"
               /\ pc'[u] \in {"d_wait", "d_queued"} => leaveMeAlone'[u]
               /\ pc'[u] \in {"u_wake", "u_sched"} <=> pc[u] \in {"u_wake", "u_sched"}
    <3>1. pc[u] \in {"d_wait", "d_queued"} /\ u # t => leaveMeAlone'[u]
      <4>1. pc[u] \in {"d_wait", "d_queued"} => leaveMeAlone[u] /\ irq[u] = "none"
        BY DEF SemInv, ParkedAway, LockExact, SpinLocked
      <4> QED BY <1>0, <4>1, FlagFacts DEF Saved, At
    <3> QED BY <3>1, OutsideFacts DEF Same, SpinLocked
  <2>2. ASSUME NEW u \in Threads, Parked(u)
        PROVE  irq'[u] = "none" /\ (pc'[u] = "d_queued" \/ (retAddr'[u] = "critical" /\ Away(u)'))
    <3>1. pc[u] = "d_queued" => pc'[u] = "d_queued"
      BY <2>2, ParkedFacts DEF Same
    <3>2. pc[u] # "d_queued" => retAddr'[u] = "critical" /\ Away(u)'
      BY <2>2, ParkedFacts DEF SemInv, ParkedAway, Same
    <3> QED BY <2>2, <3>1, <3>2, ParkedFacts
  <2>3. ASSUME NEW u \in Threads
        PROVE  /\ Woken(u) => pc'[u] # "d_queued"
               /\ pc'[u] = "d_queued" => u \in ToSet(waiting)
               /\ woken[u] # NoThread <=> pc'[u] \in {"u_wake", "u_sched"}
    BY <2>1 DEF SemInv, ParkedAway
  <2> QED BY <1>2, <2>1, <2>2, <2>3 DEF ParkedAway
<1>7. PermitsCounted'
  <2>1. Holders' = Holders
    BY HoldersStay
  <2>2. \A u \in Threads : pc'[u] = "d_wait" => pc[u] = "d_wait"
    BY OutsideFacts DEF Same, SpinLocked
  <2> QED BY <1>2, <2>1, <2>2 DEF SemInv, PermitsCounted
<1>8. NobodyLost'
  BY SchedLosesNobody
<1> QED BY <1>1, <1>3, <1>4, <1>5, <1>6, <1>7, <1>8 DEF SemInv

-----------------------------------------------------------------------------
\* The lock changes hands at the ends of down and up only.
LEMMA LockStep ==
  ASSUME SemInv, NEW c \in Cpus, DownLock(c) \/ Semaphore(c)
  PROVE  LockExact'
<1> DEFINE t == running[c]
<1>0. TypeOK /\ t \in Threads /\ LockExact /\ semTaken \in Threads \cup {NoThread}
  BY DEF SemInv, IInv, TypeOK, SemTypeOK
<1>1. ASSUME NEW from \in SemLocs, NEW to \in SemLocs \cup {"b_remove"}, Steps(c, from, to), t # Reaper,
             \/ from \notin SpinLocked /\ to \in SpinLocked /\ semTaken = NoThread /\ semTaken' = t
             \/ from \in SpinLocked /\ to \notin SpinLocked /\ semTaken' = NoThread
             \/ (from \in SpinLocked <=> to \in SpinLocked) /\ semTaken' = semTaken
      PROVE  LockExact'
  <2>1. /\ irq[t] = "none" /\ irq' = irq /\ pc[t] = from
        /\ \A u \in Threads : pc'[u] = IF u = t THEN to ELSE pc[u]
    BY <1>0, <1>1, StepsFacts
  <2>2. \A u \in Threads : pc'[u] \in SpinLocked => semTaken' = u /\ irq'[u] = "none"
    BY <1>0, <1>1, <2>1, ThreadsAssumption DEF LockExact
  <2>3. semTaken' # NoThread => pc'[semTaken'] \in SpinLocked
    BY <1>0, <1>1, <2>1 DEF LockExact
  <2>4. pc'[Reaper] = pc[Reaper]
    BY <1>1, <2>1, ThreadsAssumption
  <2> QED BY <1>0, <2>2, <2>3, <2>4 DEF LockExact, SpinLocked
<1>2. CASE DownLock(c)
  <2>1. Steps(c, "run", "d_held") /\ t # Reaper /\ semTaken = NoThread /\ semTaken' = t
    BY <1>2 DEF DownLock, Lock, Steps
  <2> QED BY <1>1, <2>1 DEF SemLocs, SpinLocked
<1>3. CASE Semaphore(c)
  <2>1. t # Reaper
    <3>1. At(t) \in SpinLocked \cup {"critical", "u_sched"}
      BY <1>3 DEF Semaphore, DownTake, DownTakeUnlock, DownMark, DownEnqueue, DownBlock, UpLock,
          UpWake,
         UpWakeUnlock, UpSchedule, UpCount, UpCountUnlock, Lock, Unlock, SpinLocked
    <3> QED BY <1>0, <3>1, PlainFrame DEF LockExact, SpinLocked, YieldLocs, BlockLocs
  <2>2. CASE UpLock(c)
    <3>1. Steps(c, "critical", "u_held") /\ semTaken = NoThread /\ semTaken' = t
      BY <2>2 DEF UpLock, Lock, Steps
    <3> QED BY <1>1, <2>1, <3>1 DEF SemLocs, SpinLocked
  <2>3. CASE DownTakeUnlock(c) \/ DownBlock(c) \/ UpWakeUnlock(c) \/ UpCountUnlock(c)
    <3>1. /\ \/ Steps(c, "d_took", "critical") \/ Steps(c, "d_queued", "b_remove")
             \/ Steps(c, "u_wake", "u_sched") \/ Steps(c, "u_count", "run")
          /\ semTaken' = NoThread
      BY <2>3 DEF DownTakeUnlock, DownBlock, UpWakeUnlock, UpCountUnlock, Unlock, Steps
    <3> QED BY <1>1, <2>1, <3>1 DEF SemLocs, SpinLocked
  <2>4. CASE DownTake(c) \/ DownMark(c) \/ DownEnqueue(c) \/ UpWake(c) \/ UpCount(c)
    <3>1. /\ \/ Steps(c, "d_held", "d_took") \/ Steps(c, "d_held", "d_wait") \/ Steps(c, "d_wait", "d_queued")
             \/ Steps(c, "u_held", "u_wake") \/ Steps(c, "u_held", "u_count")
          /\ semTaken' = semTaken
      BY <2>4 DEF DownTake, DownMark, DownEnqueue, UpWake, UpCount, Steps
    <3> QED BY <1>1, <2>1, <3>1 DEF SemLocs, SpinLocked
  <2>5. CASE UpSchedule(c)
    <3>1. Steps(c, "u_sched", "run") /\ semTaken' = semTaken
      BY <2>5 DEF UpSchedule, Steps
    <3> QED BY <1>1, <2>1, <3>1 DEF SemLocs, SpinLocked
  <2> QED BY <1>3, <2>2, <2>3, <2>4, <2>5 DEF Semaphore
<1> QED BY <1>2, <1>3

\* What the queues of the semaphore and of the scheduler have to agree on.
ParkInv == ParkedOnce /\ ParkedAway /\ NobodyLost

\* What a step of down or up leaves as it is, and where its thread is not.
LEMMA TurnFacts ==
  ASSUME SemInv, NEW c \in Cpus, NEW from \in SemLocs, NEW to \in SemLocs \cup {"b_remove"},
         Steps(c, from, to)
  PROVE  /\ TypeOK /\ running[c] \in Threads /\ irq[running[c]] = "none" /\ pc[running[c]] = from
         /\ from # "d_queued" => ~Parked(running[c])
         /\ ~Placed(running[c]) /\ ~Away(running[c]) /\ irq' = irq
         /\ \A u \in Threads : pc'[u] = IF u = running[c] THEN to ELSE pc[u]
         /\ \A u \in Threads : Away(u)' <=> (Away(u) \/ (u = running[c] /\ to = "b_remove"))
         /\ ToSet(readyQ) \cup ToSet(waiting) \subseteq Threads
<1> DEFINE t == running[c]
<1>1. TypeOK /\ from \notin Blocking \cup {"sw_prev"}
  BY DEF SemInv, IInv, SemLocs, SpinLocked, Blocking
<1>2. /\ t \in Threads /\ irq[t] = "none" /\ pc[t] = from /\ At(t) = from /\ OnCpu(t) /\ irq' = irq
      /\ \A u \in Threads : /\ At(u)' = IF u = t THEN to ELSE At(u)
                            /\ pc'[u] = IF u = t THEN to ELSE pc[u]
                            /\ OnCpu(u)' <=> OnCpu(u)
  BY <1>1, StepsFacts DEF Steps
<1>3. ~Away(t)
  BY <1>1, <1>2 DEF Away, Saved
<1>4. ~Placed(t)
  BY <1>1, <1>2 DEF SemInv, IInv, PlacedAway, Saved
<1>5. from # "d_queued" => ~Parked(t)
  BY <1>2, <1>3 DEF SemInv, ParkedAway
<1>6. ASSUME NEW u \in Threads
      PROVE  Away(u)' <=> (Away(u) \/ (u = t /\ to = "b_remove"))
  <2>1. to \notin Blocking \ {"b_remove"} /\ to # "sw_prev"
    BY DEF SemLocs, SpinLocked, Blocking
  <2> QED BY <1>2, <1>3, <2>1 DEF Away, Saved, Blocking
<1>7. ToSet(readyQ) \cup ToSet(waiting) \subseteq Threads
  BY <1>1, ElementsFacts DEF SemInv, SemTypeOK, TypeOK
<1> QED BY <1>1, <1>2, <1>3, <1>4, <1>5, <1>6, <1>7

\* The steps that leave the queues alone.
LEMMA QuietParkStep ==
  ASSUME SemInv, NEW c \in Cpus, NEW from \in SemLocs, NEW to \in SemLocs,
         Steps(c, from, to), UNCHANGED <<readyQ, retAddr, waiting, woken>>,
         from # "d_queued", to # "d_queued",
         from \in {"u_wake", "u_sched"} <=> to \in {"u_wake", "u_sched"},
         leaveMeAlone' = leaveMeAlone \/ leaveMeAlone' = [leaveMeAlone EXCEPT ![running[c]] = TRUE],
         to = "d_wait" => leaveMeAlone' = [leaveMeAlone EXCEPT ![running[c]] = TRUE]
  PROVE  ParkInv'
<1> DEFINE t == running[c]
<1>1. /\ TypeOK /\ t \in Threads /\ irq[t] = "none" /\ pc[t] = from /\ ~Parked(t) /\ ~Placed(t) /\ irq' = irq
      /\ \A u \in Threads : pc'[u] = IF u = t THEN to ELSE pc[u]
      /\ \A u \in Threads : Away(u)' <=> Away(u)
  <2>1. to # "b_remove"
    BY DEF SemLocs, SpinLocked
  <2> QED BY <2>1, TurnFacts
<1>2. \A u \in Threads : /\ Parked(u)' <=> Parked(u)
                         /\ Woken(u)' <=> Woken(u)
                         /\ Runnable(u)' <=> Runnable(u)
                         /\ Placed(u)' <=> Placed(u)
  BY DEF Parked, Woken, Runnable, Placed, InQueue, Steps, Untouched, reapVars
<1>3. ToSet(waiting) \subseteq Threads
  BY TurnFacts
<1>4. \A u \in Threads : Ended(u) => Ended(u)'
  BY <1>1 DEF Ended, SemLocs, SpinLocked
<1>5. ParkedOnce'
  BY <1>2, <1>3 DEF SemInv, ParkedOnce
<1>6. ParkedAway'
  <2>1. \A u \in Threads : leaveMeAlone[u] => leaveMeAlone'[u]
    BY <1>1 DEF TypeOK
  <2>2. to = "d_wait" => leaveMeAlone'[t]
    BY <1>1 DEF TypeOK
  <2>3. \A u \in Threads : pc'[u] \in {"d_wait", "d_queued"} => leaveMeAlone'[u]
    BY <1>1, <2>1, <2>2 DEF SemInv, ParkedAway
  <2>4. \A u \in Threads : woken[u] # NoThread <=> pc'[u] \in {"u_wake", "u_sched"}
    BY <1>1 DEF SemInv, ParkedAway
  <2>5. \A u \in Threads : (pc'[u] = "d_queued" <=> pc[u] = "d_queued")
    BY <1>1
  <2> QED BY <1>1, <1>2, <2>3, <2>4, <2>5 DEF SemInv, ParkedAway
<1>7. NobodyLost'
  BY <1>1, <1>2, <1>4 DEF SemInv, NobodyLost
<1> QED BY <1>5, <1>6, <1>7 DEF ParkInv

\* A waiter that has found no permit queues up.
LEMMA DownEnqueueStep ==
  ASSUME SemInv, NEW c \in Cpus, DownEnqueue(c)
  PROVE  ParkInv' /\ SemTypeOK'
<1> DEFINE t == running[c]
<1>0. Steps(c, "d_wait", "d_queued") /\ "d_wait" \in SemLocs /\ "d_queued" \in SemLocs
  BY DEF DownEnqueue, Steps, SemLocs, SpinLocked
<1>1. /\ TypeOK /\ t \in Threads /\ irq[t] = "none" /\ pc[t] = "d_wait" /\ ~Parked(t) /\ ~Placed(t) /\ irq' = irq
      /\ \A u \in Threads : pc'[u] = IF u = t THEN "d_queued" ELSE pc[u]
      /\ \A u \in Threads : Away(u)' <=> Away(u)
  BY <1>0, TurnFacts
<1>2. /\ waiting' = Append(waiting, t)
      /\ UNCHANGED <<readyQ, leaveMeAlone, retAddr, semCount, semTaken, woken, zombieQ, next, th>>
  BY DEF DownEnqueue, Untouched, reapVars
<1>3. /\ waiting' \in Seq(Threads) /\ IsInjective(waiting')
      /\ ToSet(waiting') = ToSet(waiting) \cup {t} /\ ToSet(waiting) \subseteq Threads
  BY <1>1, <1>2, AddFacts DEF SemInv, SemTypeOK, ParkedOnce, Parked
<1>4. \A u \in Threads : /\ Parked(u)' <=> Parked(u) \/ u = t
                         /\ Woken(u)' <=> Woken(u)
                         /\ Runnable(u)' <=> Runnable(u)
                         /\ Placed(u)' <=> Placed(u)
  BY <1>2, <1>3 DEF Parked, Woken, Runnable, Placed, InQueue
<1>5. ~Woken(t)
  BY <1>1 DEF Parked
<1>6. ParkedOnce'
  BY <1>1, <1>2, <1>3, <1>4, <1>5 DEF SemInv, ParkedOnce
<1>7. ParkedAway'
  BY <1>1, <1>2, <1>3, <1>4, <1>5 DEF SemInv, ParkedAway
<1>8. NobodyLost'
  BY <1>1, <1>2, <1>4 DEF SemInv, NobodyLost, Ended
<1>9. SemTypeOK'
  BY <1>2, <1>3, SemSchedStep DEF SemInv, SemTypeOK, IInv, Semaphore
<1> QED BY <1>6, <1>7, <1>8, <1>9 DEF ParkInv

\* A waiter that goes on to block has its place in the queue.
LEMMA DownBlockStep ==
  ASSUME SemInv, NEW c \in Cpus, DownBlock(c)
  PROVE  ParkInv'
<1> DEFINE t == running[c]
<1>0. Steps(c, "d_queued", "b_remove") /\ "d_queued" \in SemLocs
  BY DEF DownBlock, Unlock, Steps, SemLocs, SpinLocked
<1>1. /\ TypeOK /\ t \in Threads /\ irq[t] = "none" /\ pc[t] = "d_queued" /\ ~Placed(t) /\ irq' = irq
      /\ \A u \in Threads : pc'[u] = IF u = t THEN "b_remove" ELSE pc[u]
      /\ \A u \in Threads : Away(u)' <=> Away(u) \/ u = t
      /\ ToSet(waiting) \subseteq Threads
  BY <1>0, TurnFacts
<1>2. /\ retAddr' = [retAddr EXCEPT ![t] = "critical"]
      /\ UNCHANGED <<readyQ, leaveMeAlone, semCount, waiting, woken, zombieQ, next, th>>
  BY DEF DownBlock, Untouched, reapVars
<1>3. \A u \in Threads : /\ Parked(u)' <=> Parked(u)
                         /\ Woken(u)' <=> Woken(u)
                         /\ Runnable(u)' <=> Runnable(u)
                         /\ Placed(u)' <=> Placed(u)
                         /\ retAddr'[u] = IF u = t THEN "critical" ELSE retAddr[u]
  BY <1>1, <1>2 DEF Parked, Woken, Runnable, Placed, InQueue, TypeOK
<1>4. Parked(t)
  BY <1>1 DEF SemInv, ParkedAway, Parked
<1>5. ParkedOnce'
  BY <1>1, <1>2, <1>3 DEF SemInv, ParkedOnce
<1>6. ParkedAway'
  BY <1>1, <1>2, <1>3 DEF SemInv, ParkedAway
<1>7. NobodyLost'
  BY <1>1, <1>3, <1>4 DEF SemInv, NobodyLost, Ended
<1> QED BY <1>5, <1>6, <1>7 DEF ParkInv

\* The thread that an up takes off the queue is in its hands.
LEMMA UpWakeStep ==
  ASSUME SemInv, NEW c \in Cpus, UpWake(c)
  PROVE  ParkInv' /\ SemTypeOK'
<1> DEFINE t == running[c]
           w == Head(waiting)
<1>0. Steps(c, "u_held", "u_wake") /\ "u_held" \in SemLocs /\ "u_wake" \in SemLocs
  BY DEF UpWake, Steps, SemLocs, SpinLocked
<1>1. /\ TypeOK /\ t \in Threads /\ irq[t] = "none" /\ pc[t] = "u_held" /\ ~Parked(t) /\ ~Placed(t) /\ irq' = irq
      /\ \A u \in Threads : pc'[u] = IF u = t THEN "u_wake" ELSE pc[u]
      /\ \A u \in Threads : Away(u)' <=> Away(u)
  BY <1>0, TurnFacts
<1>2. /\ waiting # << >> /\ waiting' = Tail(waiting) /\ woken' = [woken EXCEPT ![t] = w]
      /\ UNCHANGED <<readyQ, leaveMeAlone, retAddr, semCount, semTaken, zombieQ, next, th>>
  BY DEF UpWake, Untouched, reapVars
<1>3. /\ waiting' \in Seq(Threads) /\ IsInjective(waiting') /\ w \in Threads
      /\ ToSet(waiting) = ToSet(waiting') \cup {w} /\ w \notin ToSet(waiting')
      /\ ToSet(waiting) \subseteq Threads
  BY <1>2, RemoveFacts DEF SemInv, SemTypeOK, ParkedOnce
<1>4. woken[t] = NoThread /\ \A u \in Threads : woken'[u] = IF u = t THEN w ELSE woken[u]
  BY <1>1, <1>2 DEF SemInv, ParkedAway, SemTypeOK
<1>5. \A u \in Threads : Woken(u)' <=> Woken(u) \/ u = w
  BY <1>1, <1>4, ThreadsAssumption DEF Woken
<1>6. Parked(w) /\ ~Woken(w) /\ pc[w] # "d_queued"
  BY <1>1, <1>3 DEF SemInv, Parked, ParkedOnce, LockExact, SpinLocked
<1>7. \A u \in Threads : /\ Parked(u)' <=> Parked(u)
                         /\ Runnable(u)' <=> Runnable(u)
                         /\ Placed(u)' <=> Placed(u)
  BY <1>2, <1>3, <1>5 DEF Parked, Runnable, Placed, InQueue
<1>8. ParkedOnce'
  <2>1. \A u \in ToSet(waiting') : ~Woken(u)'
    BY <1>3, <1>5 DEF SemInv, ParkedOnce
  <2>2. \A u, v \in Threads : woken'[u] = woken'[v] /\ woken'[u] # NoThread => u = v
    BY <1>1, <1>4, <1>6 DEF SemInv, ParkedOnce, Woken
  <2> QED BY <1>3, <1>7, <2>1, <2>2 DEF SemInv, ParkedOnce
<1>9. ParkedAway'
  <2>1. \A u \in Threads : Parked(u)' => /\ irq'[u] = "none"
                                         /\ pc'[u] = "d_queued" \/ (retAddr'[u] = "critical" /\ Away(u)')
    BY <1>1, <1>2, <1>7 DEF SemInv, ParkedAway
  <2>2. \A u \in Threads : Woken(u)' => pc'[u] # "d_queued"
    BY <1>1, <1>5, <1>6 DEF SemInv, ParkedAway
  <2>3. \A u \in Threads : pc'[u] = "d_queued" => u \in ToSet(waiting')
    BY <1>1, <1>3, <1>6 DEF SemInv, ParkedAway
  <2>4. \A u \in Threads : /\ pc'[u] \in {"d_wait", "d_queued"} => leaveMeAlone'[u]
                           /\ woken'[u] # NoThread <=> pc'[u] \in {"u_wake", "u_sched"}
    BY <1>1, <1>2, <1>3, <1>4, ThreadsAssumption DEF SemInv, ParkedAway
  <2> QED BY <2>1, <2>2, <2>3, <2>4 DEF ParkedAway
<1>10. NobodyLost'
  BY <1>1, <1>2, <1>7 DEF SemInv, NobodyLost, Ended
<1>11. SemTypeOK'
  BY <1>2, <1>3, SemSchedStep DEF SemInv, SemTypeOK, IInv, Semaphore
<1> QED BY <1>8, <1>9, <1>10, <1>11 DEF ParkInv

\* The thread that is made ready is in no other place any more.
LEMMA UpScheduleStep ==
  ASSUME SemInv, NEW c \in Cpus, UpSchedule(c)
  PROVE  ParkInv' /\ SemTypeOK'
<1> DEFINE t == running[c]
           w == woken[t]
<1>0. Steps(c, "u_sched", "run") /\ "u_sched" \in SemLocs /\ "run" \in SemLocs
  BY DEF UpSchedule, Steps, SemLocs
<1>1. /\ TypeOK /\ t \in Threads /\ irq[t] = "none" /\ pc[t] = "u_sched" /\ ~Parked(t) /\ ~Placed(t) /\ irq' = irq
      /\ \A u \in Threads : pc'[u] = IF u = t THEN "run" ELSE pc[u]
      /\ \A u \in Threads : Away(u)' <=> Away(u)
      /\ ToSet(waiting) \subseteq Threads
  BY <1>0, TurnFacts
<1>2. /\ readyQ' = Append(readyQ, w) /\ woken' = [woken EXCEPT ![t] = NoThread]
      /\ UNCHANGED <<waiting, leaveMeAlone, retAddr, semCount, semTaken, zombieQ, next, th>>
  BY DEF UpSchedule, Untouched, reapVars
<1>3. w \in Threads /\ Woken(w) /\ pc[w] # "d_queued" /\ w \notin ToSet(waiting)
  BY <1>1 DEF SemInv, ParkedAway, ParkedOnce, SemTypeOK, Woken
<1>4. \A u \in Threads : woken'[u] = IF u = t THEN NoThread ELSE woken[u]
  BY <1>2 DEF SemInv, SemTypeOK
<1>5. \A u \in Threads : Woken(u)' <=> Woken(u) /\ u # w
  BY <1>1, <1>3, <1>4, ThreadsAssumption DEF Woken, SemInv, ParkedOnce
<1>6. ToSet(readyQ') = ToSet(readyQ) \cup {w}
  BY <1>1, <1>2, <1>3, AddFacts DEF TypeOK
<1>7. \A u \in Threads : /\ Parked(u)' <=> Parked(u) /\ u # w
                         /\ Runnable(u)' <=> Runnable(u) \/ u = w
                         /\ Placed(u)' <=> Placed(u) \/ u = w
  BY <1>2, <1>3, <1>5, <1>6 DEF Parked, Runnable, Placed, InQueue
<1>8. ParkedOnce'
  BY <1>1, <1>2, <1>4, <1>5, <1>7 DEF SemInv, ParkedOnce
<1>9. ParkedAway'
  <2>1. \A u \in Threads : woken'[u] # NoThread <=> pc'[u] \in {"u_wake", "u_sched"}
    BY <1>1, <1>4 DEF SemInv, ParkedAway
  <2> QED BY <1>1, <1>2, <1>5, <1>7, <2>1 DEF SemInv, ParkedAway
<1>10. NobodyLost'
  BY <1>1, <1>2, <1>7 DEF SemInv, NobodyLost, Ended
<1>11. SemTypeOK'
  BY <1>2, SemSchedStep DEF SemInv, SemTypeOK, IInv, Semaphore
<1> QED BY <1>8, <1>9, <1>10, <1>11 DEF ParkInv

\* What the holders are after a step of down or up.
HoldsIf(u) == \/ pc[u] \in {"d_took", "critical", "u_held"}
              \/ pc[u] \in BlockLocs \cup YieldLocs /\ retAddr[u] = "critical"

\* Who has and who waits for a permit after a step of down or up.
HolderChange(c) == LET t == running[c] IN
  /\ \/ /\ t \notin Holders /\ waiting = << >> /\ semCount > 0
        /\ Holders' = Holders \cup {t} /\ waiting' = waiting /\ semCount' = semCount - 1
     \/ /\ t \in Holders /\ waiting = << >>
        /\ Holders' = Holders \ {t} /\ waiting' = waiting /\ semCount' = semCount + 1
     \/ /\ t \in Holders /\ waiting # << >> /\ Head(waiting) \notin Holders
        /\ Holders' = (Holders \ {t}) \cup {Head(waiting)} /\ waiting' = Tail(waiting)
        /\ semCount' = semCount
     \/ /\ t \notin Holders /\ t \notin ToSet(waiting) /\ semCount = 0
        /\ Holders' = Holders /\ waiting' = Append(waiting, t) /\ semCount' = semCount
     \/ Holders' = Holders /\ waiting' = waiting /\ semCount' = semCount
  /\ (\E u \in Threads : pc'[u] = "d_wait") => semCount' = 0

\* Every step of down and up changes the holders in one of these ways.
LEMMA HoldersStep ==
  ASSUME SemInv, NEW c \in Cpus, DownLock(c) \/ Semaphore(c)
  PROVE  HolderChange(c)
<1> DEFINE t == running[c]
<1>0. /\ TypeOK /\ t \in Threads /\ semCount \in Nat
      /\ waiting # << >> \/ (\E u \in Threads : pc[u] = "d_wait") => semCount = 0
      /\ Holders = {u \in Threads : u \notin ToSet(waiting) /\ HoldsIf(u)}
  BY DEF SemInv, IInv, TypeOK, SemTypeOK, PermitsCounted, Holders, HoldsIf
<1>1. ASSUME NEW from \in SemLocs, NEW to \in SemLocs \cup {"b_remove"}, Steps(c, from, to)
      PROVE  /\ pc[t] = from /\ \A u \in Threads : pc'[u] = IF u = t THEN to ELSE pc[u]
             /\ from # "d_queued" => t \notin ToSet(waiting)
             /\ from \in SpinLocked => \A u \in Threads : u # t => pc[u] \notin SpinLocked
  BY <1>1, <1>0, TurnFacts DEF Parked, SemInv, LockExact
<1>2. CASE DownTake(c)
  <2>1. /\ Steps(c, "d_held", "d_took") /\ UNCHANGED <<retAddr, waiting>>
        /\ semCount > 0 /\ semCount' = semCount - 1
    BY <1>2 DEF DownTake, Steps
  <2>2. /\ pc[t] = "d_held" /\ \A u \in Threads : pc'[u] = IF u = t THEN "d_took" ELSE pc[u]
        /\ t \notin ToSet(waiting)
    BY <1>1, <2>1 DEF SemLocs, SpinLocked
  <2>3. Holders' = Holders \cup {t} /\ t \notin Holders
    BY <1>0, <2>1, <2>2 DEF Holders, BlockLocs, YieldLocs
  <2>4. waiting = << >> /\ \A u \in Threads : pc[u] # "d_wait"
    BY <1>0, <2>1
  <2> QED BY <2>1, <2>2, <2>3, <2>4 DEF HolderChange
<1>3. CASE UpCount(c)
  <2>1. /\ Steps(c, "u_held", "u_count") /\ UNCHANGED <<retAddr, waiting>>
        /\ waiting = << >> /\ semCount' = semCount + 1
    BY <1>3 DEF UpCount, Steps
  <2>2. /\ pc[t] = "u_held" /\ \A u \in Threads : pc'[u] = IF u = t THEN "u_count" ELSE pc[u]
        /\ t \notin ToSet(waiting) /\ \A u \in Threads : u # t => pc[u] \notin SpinLocked
    BY <1>1, <2>1 DEF SemLocs, SpinLocked
  <2>3. Holders' = Holders \ {t} /\ t \in Holders
    BY <1>0, <2>1, <2>2 DEF Holders, BlockLocs, YieldLocs
  <2>4. \A u \in Threads : pc'[u] # "d_wait"
    BY <2>2 DEF SpinLocked
  <2> QED BY <2>1, <2>3, <2>4 DEF HolderChange
<1>4. CASE UpWake(c)
  <2> DEFINE w == Head(waiting)
  <2>1. /\ Steps(c, "u_held", "u_wake") /\ UNCHANGED <<retAddr, semCount>>
        /\ waiting # << >> /\ waiting' = Tail(waiting)
    BY <1>4 DEF UpWake, Steps
  <2>2. /\ pc[t] = "u_held" /\ \A u \in Threads : pc'[u] = IF u = t THEN "u_wake" ELSE pc[u]
        /\ t \notin ToSet(waiting) /\ \A u \in Threads : u # t => pc[u] \notin SpinLocked
    BY <1>1, <2>1 DEF SemLocs, SpinLocked
  <2>3. /\ w \in Threads /\ ToSet(waiting) = ToSet(waiting') \cup {w} /\ w \notin ToSet(waiting')
    BY <2>1, RemoveFacts DEF SemInv, SemTypeOK, ParkedOnce
  <2>4. pc[w] \in BlockLocs /\ retAddr[w] = "critical" /\ w # t
    BY <2>2, <2>3 DEF SemInv, ParkedAway, Parked, SpinLocked, Away, Saved, At, Blocking, BlockLocs
  <2>5. t \in Holders /\ w \notin Holders
    BY <1>0, <2>2, <2>3 DEF HoldsIf
  <2>6. \A u \in Threads \ {t} : HoldsIf(u)' <=> HoldsIf(u)
    BY <2>1, <2>2 DEF HoldsIf, BlockLocs, YieldLocs
  <2>7. \A u \in Threads : u = t => ~HoldsIf(u)'
    BY <2>2 DEF HoldsIf, BlockLocs, YieldLocs
  <2>8. Holders' = {u \in Threads : u \notin ToSet(waiting') /\ HoldsIf(u)'}
    BY DEF Holders, HoldsIf
  <2>9. Holders' = (Holders \ {t}) \cup {w}
    BY <1>0, <2>3, <2>4, <2>6, <2>7, <2>8 DEF HoldsIf
  <2> QED BY <1>0, <2>1, <2>5, <2>9 DEF HolderChange
<1>5. CASE DownMark(c)
  <2>1. /\ Steps(c, "d_held", "d_wait") /\ UNCHANGED <<retAddr, waiting, semCount>> /\ semCount = 0
    BY <1>5 DEF DownMark, Steps
  <2>2. pc[t] = "d_held" /\ \A u \in Threads : pc'[u] = IF u = t THEN "d_wait" ELSE pc[u]
    BY <1>1, <2>1 DEF SemLocs, SpinLocked
  <2>3. Holders' = Holders
    BY <2>1, <2>2 DEF Holders, BlockLocs, YieldLocs
  <2> QED BY <2>1, <2>3 DEF HolderChange
<1>6. CASE DownEnqueue(c)
  <2>1. /\ Steps(c, "d_wait", "d_queued") /\ UNCHANGED <<retAddr, semCount>>
        /\ waiting' = Append(waiting, t)
    BY <1>6 DEF DownEnqueue, Steps
  <2>2. /\ pc[t] = "d_wait" /\ \A u \in Threads : pc'[u] = IF u = t THEN "d_queued" ELSE pc[u]
        /\ t \notin ToSet(waiting)
    BY <1>1, <2>1 DEF SemLocs, SpinLocked
  <2>3. ToSet(waiting') = ToSet(waiting) \cup {t}
    BY <1>0, <2>1, AddFacts DEF SemInv, SemTypeOK
  <2>4. Holders' = Holders /\ t \notin Holders
    BY <2>1, <2>2, <2>3 DEF Holders, BlockLocs, YieldLocs
  <2>5. semCount = 0
    BY <1>0, <2>2
  <2> QED BY <2>1, <2>2, <2>4, <2>5 DEF HolderChange
<1>7. CASE DownBlock(c)
  <2>1. /\ Steps(c, "d_queued", "b_remove") /\ UNCHANGED <<semCount, waiting>>
        /\ retAddr' = [retAddr EXCEPT ![t] = "critical"]
    BY <1>7 DEF DownBlock, Unlock, Steps
  <2>2. pc[t] = "d_queued" /\ \A u \in Threads : pc'[u] = IF u = t THEN "b_remove" ELSE pc[u]
    BY <1>1, <2>1 DEF SemLocs, SpinLocked
  <2>3. t \in ToSet(waiting) /\ \A u \in Threads \ {t} : retAddr'[u] = retAddr[u]
    BY <1>0, <2>1, <2>2 DEF SemInv, ParkedAway, TypeOK
  <2>4. Holders' = Holders
    BY <2>1, <2>2, <2>3 DEF Holders
  <2> QED BY <1>0, <2>1, <2>2, <2>4 DEF HolderChange
<1>8. CASE \/ DownLock(c) \/ DownTakeUnlock(c) \/ UpLock(c) \/ UpWakeUnlock(c) \/ UpSchedule(c) \/ UpCountUnlock(c)
  <2>1. /\ \/ Steps(c, "run", "d_held") \/ Steps(c, "d_took", "critical") \/ Steps(c, "critical", "u_held")
           \/ Steps(c, "u_wake", "u_sched") \/ Steps(c, "u_sched", "run") \/ Steps(c, "u_count", "run")
        /\ UNCHANGED <<retAddr, waiting, semCount>>
    BY <1>8 DEF DownLock, DownTakeUnlock, UpLock, UpWakeUnlock, UpSchedule, UpCountUnlock, Lock,
        Unlock, Steps
  <2>2. PICK from, to \in SemLocs :
          /\ Steps(c, from, to) /\ to # "d_wait"
          /\ \/ from \in {"d_took", "critical"} /\ to \in {"critical", "u_held"}
             \/ from \in {"run", "u_wake", "u_sched", "u_count"} /\ to \in {"d_held", "u_sched", "run"}
    BY <2>1 DEF SemLocs, SpinLocked
  <2>3. pc[t] = from /\ \A u \in Threads : pc'[u] = IF u = t THEN to ELSE pc[u]
    BY <1>1, <2>2
  <2>4. Holders' = Holders
    BY <2>1, <2>2, <2>3 DEF Holders, BlockLocs, YieldLocs
  <2> QED BY <1>0, <2>1, <2>2, <2>3, <2>4 DEF HolderChange
<1> QED BY <1>2, <1>3, <1>4, <1>5, <1>6, <1>7, <1>8 DEF Semaphore

\* Every permit is still counted once.
LEMMA PermitsStep ==
  ASSUME SemInv, NEW c \in Cpus, HolderChange(c)
  PROVE  PermitsCounted'
<1> DEFINE t == running[c]
           w == Head(waiting)
<1>1. /\ IsFiniteSet(Holders) /\ Cardinality(Holders) \in Nat /\ semCount \in Nat
      /\ semCount + Cardinality(Holders) = Permits
      /\ waiting # << >> => semCount = 0
  BY FS_CardinalityType DEF SemInv, PermitsCounted, SemTypeOK
<1>2. /\ IsFiniteSet(Holders \cup {t}) /\ IsFiniteSet(Holders \ {t}) /\ IsFiniteSet((Holders \ {t}) \cup {w})
      /\ t \notin Holders => Cardinality(Holders \cup {t}) = Cardinality(Holders) + 1
      /\ t \in Holders => Cardinality(Holders \ {t}) = Cardinality(Holders) - 1
      /\ t \in Holders /\ w \notin Holders => Cardinality((Holders \ {t}) \cup {w}) = Cardinality(Holders)
  <2>1. /\ IsFiniteSet(Holders \cup {t}) /\ IsFiniteSet(Holders \ {t})
        /\ t \notin Holders => Cardinality(Holders \cup {t}) = Cardinality(Holders) + 1
        /\ t \in Holders => Cardinality(Holders \ {t}) = Cardinality(Holders) - 1
    BY <1>1, FS_AddElement, FS_RemoveElement
  <2>2. /\ IsFiniteSet((Holders \ {t}) \cup {w})
        /\ w \notin Holders => Cardinality((Holders \ {t}) \cup {w}) = Cardinality(Holders \ {t}) + 1
    BY <2>1, FS_AddElement
  <2> QED BY <1>1, <2>1, <2>2
<1>3. /\ IsFiniteSet(Holders') /\ semCount' + Cardinality(Holders') = Permits
      /\ waiting' # << >> => semCount' = 0
  <2> USE <1>1, <1>2
  <2>1. CASE /\ t \notin Holders /\ waiting = << >> /\ semCount > 0
             /\ Holders' = Holders \cup {t} /\ waiting' = waiting /\ semCount' = semCount - 1
    <3>1. Cardinality(Holders') = Cardinality(Holders) + 1
      BY <2>1
    <3> QED BY <2>1, <3>1
  <2>2. CASE /\ t \in Holders /\ waiting = << >>
             /\ Holders' = Holders \ {t} /\ waiting' = waiting /\ semCount' = semCount + 1
    <3>1. Cardinality(Holders') = Cardinality(Holders) - 1
      BY <2>2
    <3> QED BY <2>2, <3>1
  <2>3. CASE /\ t \in Holders /\ waiting # << >> /\ Head(waiting) \notin Holders
             /\ Holders' = (Holders \ {t}) \cup {Head(waiting)} /\ waiting' = Tail(waiting)
             /\ semCount' = semCount
    <3>1. Cardinality(Holders') = Cardinality(Holders)
      BY <2>3
    <3> QED BY <2>3, <3>1
  <2>4. CASE semCount = 0 /\ Holders' = Holders /\ semCount' = semCount
    BY <2>4
  <2>5. CASE Holders' = Holders /\ waiting' = waiting /\ semCount' = semCount
    BY <2>5
  <2> QED BY <2>1, <2>2, <2>3, <2>4, <2>5 DEF HolderChange
<1> QED BY <1>3 DEF PermitsCounted, HolderChange

\* Every step of the threads and the scheduler keeps the invariant.
LEMMA SemStep ==
  ASSUME SemInv, [SemNext]_allVars
  PROVE  SemInv'
<1>1. CASE UNCHANGED allVars
  <2>1. UNCHANGED schedVars /\ UNCHANGED <<semCount, semTaken, waiting, woken>>
    BY <1>1 DEF allVars, semVars
  <2>2. IInv' /\ StopInv'
    BY <2>1, StepInv, StopStep DEF SemInv
  <2>3. SemTypeOK' /\ ParkedOnce' /\ LockExact'
    BY <2>1, <2>2 DEF schedVars, SemInv, SemTypeOK, IInv, ParkedOnce, Parked, Woken, Placed,
        InQueue, LockExact
  <2>4. ParkedAway' /\ NobodyLost'
    BY <2>1 DEF schedVars, SemInv, ParkedAway, NobodyLost, Parked, Woken, Away, Saved, OnCpu, At,
        Ended, Runnable
  <2>5. PermitsCounted'
    <3>1. Holders' = Holders
      BY <2>1 DEF schedVars, Holders
    <3> QED BY <2>1, <3>1 DEF schedVars, SemInv, PermitsCounted
  <2> QED BY <2>2, <2>3, <2>4, <2>5 DEF SemInv
<1>2. CASE SchedNext /\ UNCHANGED semVars
  BY <1>2, SchedSemStep DEF SchedNext
<1>3. ASSUME NEW c \in Cpus, DownLock(c) \/ Semaphore(c)
      PROVE  SemInv'
  <2>1. IInv' /\ StopInv' /\ LockExact' /\ PermitsCounted'
    BY <1>3, SemSchedStep, LockStep, HoldersStep, PermitsStep
  <2>2. CASE DownEnqueue(c)
    BY <2>1, <2>2, DownEnqueueStep DEF SemInv, ParkInv
  <2>3. CASE UpWake(c) \/ UpSchedule(c)
    BY <2>1, <2>3, UpWakeStep, UpScheduleStep DEF SemInv, ParkInv
  <2>4. CASE ~DownEnqueue(c) /\ ~UpWake(c) /\ ~UpSchedule(c)
    <3>1. SemTypeOK'
      <4>1. semCount' \in Nat
        BY <1>3, <2>4 DEF SemInv, SemTypeOK, Semaphore, DownLock, DownTake, DownTakeUnlock,
            DownMark, DownBlock,
           UpLock, UpWakeUnlock, UpCount, UpCountUnlock
      <4>2. semTaken' \in Threads \cup {NoThread}
        BY <1>3, <2>4 DEF SemInv, SemTypeOK, IInv, TypeOK, Semaphore, DownLock, DownTake,
            DownTakeUnlock, DownMark,
           DownBlock, UpLock, UpWakeUnlock, UpCount, UpCountUnlock, Lock, Unlock
      <4>3. UNCHANGED <<waiting, woken>>
        BY <1>3, <2>4 DEF Semaphore, DownLock, DownTake, DownTakeUnlock, DownMark, DownBlock,
           UpLock, UpWakeUnlock, UpCount, UpCountUnlock
      <4> QED BY <2>1, <4>1, <4>2, <4>3 DEF SemInv, SemTypeOK, IInv
    <3>2. CASE DownBlock(c)
      BY <2>1, <3>1, <3>2, DownBlockStep DEF SemInv, ParkInv
    <3>3. CASE DownMark(c)
      <4>1. /\ Steps(c, "d_held", "d_wait") /\ UNCHANGED <<readyQ, retAddr, waiting, woken>>
            /\ leaveMeAlone' = [leaveMeAlone EXCEPT ![activeThreads[c]] = TRUE]
        BY <3>3 DEF DownMark, Steps
      <4>2. activeThreads[c] = running[c]
        BY <4>1 DEF SemInv, IInv, ActiveIsRunning, Steps
      <4>3. ParkInv'
        BY <4>1, <4>2, QuietParkStep DEF SemLocs, SpinLocked
      <4> QED BY <2>1, <3>1, <4>3 DEF SemInv, ParkInv
    <3>4. CASE ~DownBlock(c) /\ ~DownMark(c)
      <4>1. /\ \/ Steps(c, "run", "d_held") \/ Steps(c, "d_held", "d_took") \/ Steps(c, "d_took", "critical")
               \/ Steps(c, "critical", "u_held") \/ Steps(c, "u_wake", "u_sched")
               \/ Steps(c, "u_held", "u_count") \/ Steps(c, "u_count", "run")
            /\ UNCHANGED <<readyQ, retAddr, leaveMeAlone, waiting, woken>>
        BY <1>3, <2>4, <3>4 DEF Semaphore, DownLock, DownTake, DownTakeUnlock, UpLock, UpWakeUnlock,
           UpCount, UpCountUnlock, Lock, Unlock, Steps
      <4>2. ParkInv'
        BY <4>1, QuietParkStep DEF SemLocs, SpinLocked
      <4> QED BY <2>1, <3>1, <4>2 DEF SemInv, ParkInv
    <3> QED BY <3>2, <3>3, <3>4
  <2> QED BY <2>2, <2>3, <2>4
<1> QED BY <1>1, <1>2, <1>3 DEF SemNext

\* The start: nobody waits, nobody holds a permit, and the lock is free.
LEMMA SemInitInv ==
  ASSUME SemInit
  PROVE  SemInv
<1> USE DEF SemInit
<1>1. IInv /\ StopInv
  BY InitInv, StopInit
<1>2. /\ waiting \in Seq(Threads) /\ ToSet(waiting) = {} /\ IsInjective(waiting)
      /\ \A t \in Threads : ~Woken(t) /\ pc[t] \in {"sw_prev", "run", "new"} /\ irq[t] = "none" /\ retAddr[t] = "run"
  BY EmptyFacts, ThreadsAssumption DEF SchedInit, Woken
<1>3. SemTypeOK
  BY <1>1, <1>2, PermitsAssumption DEF SemTypeOK, IInv
<1>4. ParkedOnce
  BY <1>2 DEF ParkedOnce, Parked
<1>5. LockExact
  BY <1>2, ThreadsAssumption DEF LockExact, SpinLocked
<1>6. ParkedAway
  BY <1>2 DEF ParkedAway, Parked
<1>7. Holders = {}
  BY <1>2 DEF Holders
<1>8. PermitsCounted
  BY <1>2, <1>7, FS_EmptySet, PermitsAssumption DEF PermitsCounted
<1>9. NobodyLost
  <2>1. ToSet(readyQ) = {Reaper}
    BY SingletonFacts, ThreadsAssumption DEF SchedInit
  <2>2. \A t \in Threads : Away(t) => t = Reaper
    BY ThreadsAssumption DEF SchedInit, Away, Saved, OnCpu, At, Blocking
  <2> QED BY <2>1, <2>2 DEF NobodyLost, Runnable
<1> QED BY <1>1, <1>3, <1>4, <1>5, <1>6, <1>8, <1>9 DEF SemInv

\* The inductive invariant holds in every reachable state of threads that use a
\* semaphore on any number of processors.
THEOREM SemaphoreInvariant == SemSpec => []SemInv
<1>1. SemInit => SemInv
  BY SemInitInv
<1>2. SemInv /\ [SemNext]_allVars => SemInv'
  BY SemStep
<1> QED BY <1>1, <1>2, PTL DEF SemSpec

-----------------------------------------------------------------------------
\* With threads that go down and up, the scheduler's promises hold as well: no
\* stack on two processors, no race in yield, one queue per thread, the timer
\* yields for whom it interrupts, nothing refers to a deleted thread, stop is final.
THEOREM SchedulerSafeBelow ==
  SemSpec => [](/\ TypeOK /\ OneCpuPerThread /\ FlagProtects /\ QueuedOnce
                /\ TimerOnRunner /\ NoFreedThread /\ StopNeverReturns)
<1>1. SemInv => /\ TypeOK /\ OneCpuPerThread /\ FlagProtects /\ QueuedOnce
                /\ TimerOnRunner /\ NoFreedThread /\ StopNeverReturns
  BY InvProtects, InvTimer, InvFreed DEF SemInv, IInv, PlacedOnce, StopInv
<1> QED BY <1>1, SemaphoreInvariant, PTL

\* The semaphore's lock is held by a thread that runs: whoever spins for it spins
\* for code that another processor executes now.
THEOREM SpinsForRunner == SemSpec => []LockHolderRuns
<1>1. ASSUME SemInv PROVE LockHolderRuns
  <2>1. SemTypeOK
    BY <1>1 DEF SemInv
  <2>2. ASSUME semTaken # NoThread
        PROVE  OnCpu(semTaken) /\ irq[semTaken] = "none"
    <3>1. semTaken \in Threads /\ pc[semTaken] \in SpinLocked /\ irq[semTaken] = "none"
      BY <1>1, <2>1, <2>2 DEF SemInv, LockExact, SemTypeOK
    <3> QED BY <1>1, <3>1 DEF SemInv, StopInv, OffIsSaved, At, SpinLocked
  <2> QED BY <2>1, <2>2 DEF LockHolderRuns
<1> QED BY <1>1, SemaphoreInvariant, PTL

\* Whichever of the two spin locks guards it, a queue shares a thread's link with
\* no other.
THEOREM LinksExclusiveBelow == SemSpec => []LinkedOnce
<1>1. ASSUME SemInv PROVE LinkedOnce
  <2>1. QueuedOnce
    BY <1>1 DEF SemInv, IInv, PlacedOnce
  <2>2. ToSet(waiting) \subseteq Threads /\ ToSet(readyQ) \subseteq Threads
    BY <1>1, ElementsFacts DEF SemInv, SemTypeOK, TypeOK
  <2>3. ToSet(waiting) \cap (ToSet(readyQ) \cup ToSet(zombieQ)) = {}
    BY <1>1, <2>2 DEF SemInv, ParkedOnce, Parked, Placed, InQueue
  <2>4. \A t \in Threads : woken[t] \notin ToSet(readyQ) \cup ToSet(waiting)
    <3> SUFFICES ASSUME NEW t \in Threads, woken[t] \in Threads
                 PROVE  woken[t] \notin ToSet(readyQ) \cup ToSet(waiting)
      BY <2>2
    <3>1. Woken(woken[t])
      BY DEF Woken
    <3> QED BY <1>1, <3>1 DEF SemInv, ParkedOnce, Parked, Placed, InQueue
  <2> QED BY <1>1, <2>1, <2>3, <2>4 DEF SemInv, ParkedOnce, LinkedOnce
<1> QED BY <1>1, SemaphoreInvariant, PTL

\* No interleaving of down, up, block and the timer loses a wake-up.
THEOREM NoWakeupLost == SemSpec => []ThreadsKept
<1>1. SemInv => ThreadsKept
  BY DEF SemInv, NobodyLost, ThreadsKept, Away, Ended, Runnable, Parked, Woken
<1> QED BY <1>1, SemaphoreInvariant, PTL

-----------------------------------------------------------------------------
\* The steps of down and up leave zombies and switches alone, and flag nobody but the
\* thread that takes them.
LEMMA SemReapStep ==
  ASSUME SemInv, ReapInv, NEW c \in Cpus, DownLock(c) \/ Semaphore(c)
  PROVE  ReapInv'
<1> DEFINE t == running[c]
<1>0. TypeOK /\ IInv /\ StopInv /\ t \in Threads
  BY DEF SemInv, IInv, TypeOK
<1>1. \E from \in SemLocs, to \in SemLocs \cup {"b_remove"} : Steps(c, from, to)
  BY DEF SemLocs, SpinLocked, Semaphore, DownLock, DownTake, DownTakeUnlock, DownMark, DownEnqueue,
     DownBlock, UpLock, UpWake, UpWakeUnlock, UpSchedule, UpCount, UpCountUnlock, Lock, Unlock,
     Steps
<1>2. \A u \in Threads \ {t} : leaveMeAlone'[u] = leaveMeAlone[u] /\ retAddr'[u] = retAddr[u]
  <2>1. DownMark(c) => activeThreads[c] = t
    BY <1>0 DEF DownMark, IInv, ActiveIsRunning
  <2> QED BY <1>0, <2>1 DEF TypeOK, Semaphore, DownLock, DownTake, DownTakeUnlock, DownMark,
      DownEnqueue,
     DownBlock, UpLock, UpWake, UpWakeUnlock, UpSchedule, UpCount, UpCountUnlock
<1>3. PICK from \in SemLocs, to \in SemLocs \cup {"b_remove"} : Steps(c, from, to)
  BY <1>1
<1>4. from \notin Blocking \cup Flagged \cup {"sw_prev", "new"}
  BY DEF SemLocs, SpinLocked, Blocking, Flagged
<1>5. /\ irq[t] = "none" /\ pc[t] = from /\ At(t) = from /\ OnCpu(t)
      /\ \A u \in Threads : At(u)' = IF u = t THEN to ELSE At(u)
      /\ \A u \in Threads : pc'[u] = IF u = t THEN to ELSE pc[u]
      /\ \A u \in Threads : OnCpu(u)' <=> OnCpu(u)
      /\ \A u \in Threads : Zombie(u)' <=> Zombie(u)
      /\ UNCHANGED <<running, previous, next>>
  BY <1>0, <1>3, StepsFacts DEF Steps, cpuVars
<1>6. FlagClear'
  <2>1. ASSUME NEW u \in Threads, Saved(u)', leaveMeAlone'[u]
        PROVE  \/ \E d \in Cpus : previous'[d] = u
               \/ \E v \in Threads : next'[v] = u /\ At(v)' \in Taking
    <3>1. u # t /\ Saved(u) /\ leaveMeAlone[u]
      BY <1>2, <1>5, <2>1 DEF Saved
    <3>2. \A v \in Threads : At(v) \in Taking => At(v)' \in Taking
      BY <1>4, <1>5 DEF Taking, Blocking
    <3> QED BY <1>5, <3>1, <3>2 DEF ReapInv, FlagClear
  <2>2. ASSUME NEW d \in Cpus, previous'[d] # NoThread
        PROVE  At(running[d])' = "sw_prev"
    <3>1. At(running[d]) = "sw_prev" /\ running[d] \in Threads /\ running'[d] = running[d]
      BY <1>0, <1>5, <2>2 DEF ReapInv, FlagClear, TypeOK
    <3>2. \A u \in Threads : u = running[d] => At(u)' = "sw_prev"
      BY <1>4, <1>5, <3>1
    <3> QED BY <3>1, <3>2
  <2> QED BY <2>1, <2>2 DEF FlagClear
<1>7. ASSUME EndedKept PROVE EndedKept'
  <2>1. \A u \in Threads : u = t => ~Ended(u)'
    <3>1. ~Ended(t) /\ pc[t] # "new"
      BY <1>0, <1>4, <1>5 DEF StopInv, StoppedStays, Away, Saved, Flagged
    <3>2. retAddr'[t] = retAddr[t] \/ retAddr'[t] = "critical"
      BY <1>0 DEF TypeOK, Semaphore, DownLock, DownTake, DownTakeUnlock, DownMark, DownEnqueue,
         DownBlock, UpLock, UpWake, UpWakeUnlock, UpSchedule, UpCount, UpCountUnlock
    <3> QED BY <3>1, <3>2 DEF Ended
  <2> QED BY <1>2, <1>5, <1>7, <2>1 DEF EndedKept, Ended
<1> QED BY <1>6, <1>7 DEF ReapInv, OneCpu

\* On one processor, also with threads that wait for a semaphore, the reapers lose no
\* stopped thread.
THEOREM OneCpuKeepsZombiesBelow == OneCpu => (SemSpec => []ZombiesKept)
<1>1. SemInit => SemInv /\ ReapInv
  BY SemInitInv, ReapInit DEF SemInit
<1>2. ASSUME SemInv, ReapInv, [SemNext]_allVars
      PROVE  ReapInv'
  <2>1. CASE SchedNext \/ UNCHANGED allVars
    BY <1>2, <2>1, ReapStep DEF SemInv, allVars
  <2> QED BY <1>2, <2>1, SemReapStep DEF SemNext
<1>3. SemInv /\ [SemNext]_allVars => SemInv'
  BY SemStep
<1>4. SemSpec => [](SemInv /\ ReapInv)
  BY <1>1, <1>2, <1>3, PTL DEF SemSpec
<1> SUFFICES ASSUME OneCpu PROVE SemSpec => []ZombiesKept
  OBVIOUS
<1>5. SemInv /\ ReapInv => ZombiesKept
  BY ReapKeeps DEF SemInv
<1> QED BY <1>4, <1>5, PTL

-----------------------------------------------------------------------------
\* A processor changes to saved stacks only, also when up has made them ready.
THEOREM OnlySavedStacksResumeBelow == SemSpec => ResumesSaved
<1>1. ASSUME SemInv, [SemNext]_allVars, NEW c \in Cpus, running'[c] # running[c]
      PROVE  Saved(running'[c])
  <2>1. CASE SchedNext
    BY <1>1, <2>1, ResumeStep DEF SemInv
  <2>2. CASE ~SchedNext
    <3>1. ASSUME NEW d \in Cpus, DownLock(d) \/ Semaphore(d)
          PROVE  running' = running
      BY <3>1 DEF Semaphore, DownLock, DownTake, DownTakeUnlock, DownMark, DownEnqueue, DownBlock,
         UpLock, UpWake, UpWakeUnlock, UpSchedule, UpCount, UpCountUnlock, Untouched, cpuVars
    <3> QED BY <1>1, <2>2, <3>1 DEF SemNext, allVars, schedVars
  <2> QED BY <2>1, <2>2
<1>2. SemInv /\ [SemNext]_allVars
        => [\A c \in Cpus : running'[c] # running[c] => Saved(running'[c])]_schedVars
  BY <1>1
<1> QED BY <1>2, SemaphoreInvariant, PTL DEF SemSpec, ResumesSaved

-----------------------------------------------------------------------------
\* Each step of the code is a step of the abstract queue of permits, or none.
LEMMA PermitStep ==
  ASSUME SemInv, [SemNext]_allVars
  PROVE  [Abstract!Next]_<<Holders, waiting>>
<1>1. ASSUME Holders' = Holders, waiting' = waiting
      PROVE  [Abstract!Next]_<<Holders, waiting>>
  BY <1>1
<1>2. CASE SchedNext /\ UNCHANGED semVars
  BY <1>1, <1>2, HoldersStay DEF SchedNext, semVars
<1>3. ASSUME NEW c \in Cpus, DownLock(c) \/ Semaphore(c)
      PROVE  [Abstract!Next]_<<Holders, waiting>>
  <2> DEFINE t == running[c]
  <2>1. HolderChange(c) /\ t \in Threads
    BY <1>3, HoldersStep DEF SemInv, IInv, TypeOK
  <2>2. /\ Cardinality(Holders) \in Nat /\ semCount \in Nat
        /\ semCount + Cardinality(Holders) = Permits
    BY FS_CardinalityType DEF SemInv, PermitsCounted, SemTypeOK
  <2>3. Abstract!Cardinality(Holders) = Cardinality(Holders)
    BY DEF Cardinality, Abstract!Cardinality
  <2>4. \/ Abstract!Acquire(t) \/ Abstract!Wait(t) \/ Abstract!Release(t)
        \/ Holders' = Holders /\ waiting' = waiting
    <3>1. t \notin ToSet(waiting) => \A i \in DOMAIN waiting : waiting[i] # t
      BY DEF ToSet
    <3>2. CASE /\ t \notin Holders /\ waiting = << >> /\ semCount > 0
               /\ Holders' = Holders \cup {t} /\ waiting' = waiting
      <4>1. Cardinality(Holders) < Permits
        BY <2>2, <3>2
      <4> QED BY <2>3, <3>2, <4>1 DEF Abstract!Acquire
    <3>3. CASE /\ t \in Holders /\ waiting = << >>
               /\ Holders' = Holders \ {t} /\ waiting' = waiting
      BY <3>3 DEF Abstract!Release
    <3>4. CASE /\ t \in Holders /\ waiting # << >>
               /\ Holders' = (Holders \ {t}) \cup {Head(waiting)} /\ waiting' = Tail(waiting)
      BY <3>4 DEF Abstract!Release
    <3>5. CASE /\ t \notin Holders /\ t \notin ToSet(waiting) /\ semCount = 0
               /\ Holders' = Holders /\ waiting' = Append(waiting, t)
      <4>1. Cardinality(Holders) = Permits
        BY <2>2, <3>5
      <4> QED BY <2>3, <3>1, <3>5, <4>1 DEF Abstract!Wait
    <3> QED BY <2>1, <3>2, <3>3, <3>4, <3>5 DEF HolderChange
  <2> QED BY <1>1, <2>1, <2>4 DEF Abstract!Next
<1>4. CASE UNCHANGED allVars
  <2>1. UNCHANGED <<pc, retAddr, waiting>>
    BY <1>4 DEF allVars, schedVars, semVars
  <2>2. Holders' = Holders
    BY <2>1 DEF Holders
  <2> QED BY <1>1, <2>1, <2>2
<1> QED BY <1>2, <1>3, <1>4 DEF SemNext

\* down and up give out the permits first come, first served: the code implements
\* the abstract queue.
THEOREM FirstComeFirstServed == SemSpec => ImplementsPermitQueue
<1>1. SemInit => Abstract!Init
  <2>1. SemInit => Holders = {} /\ waiting = << >>
    BY ThreadsAssumption, EmptyFacts DEF SemInit, SchedInit, Holders, BlockLocs, YieldLocs
  <2> QED BY <2>1 DEF Abstract!Init
<1>2. SemInv /\ [SemNext]_allVars => [Abstract!Next]_<<Holders, waiting>>
  BY PermitStep
<1> QED BY <1>1, <1>2, SemaphoreInvariant, PTL DEF SemSpec, ImplementsPermitQueue, Abstract!Spec

\* What a Mutex is for: it is a semaphore made with one permit, and no two threads are
\* between its lock and its unlock, wherever the timer takes them.
THEOREM MutexExcludes ==
  Permits = 1 =>
    (SemSpec => [](\A t, u \in Threads : pc[t] = "critical" /\ pc[u] = "critical" => t = u))
<1> DEFINE Alone == \A t, u \in Threads : pc[t] = "critical" /\ pc[u] = "critical" => t = u
<1> SUFFICES ASSUME Permits = 1 PROVE SemSpec => []Alone
  OBVIOUS
<1>1. ASSUME SemInv, NEW t \in Threads, NEW u \in Threads, pc[t] = "critical", pc[u] = "critical"
      PROVE  t = u
  <2>1. t \in Holders /\ u \in Holders
    BY <1>1 DEF SemInv, ParkedAway, Parked, Away, Blocking, Saved, At, Holders
  <2>2. IsFiniteSet(Holders) /\ Cardinality(Holders) \in Nat /\ Cardinality(Holders) <= 1
    BY <1>1, FS_CardinalityType DEF SemInv, PermitsCounted, SemTypeOK
  <2>3. Cardinality(Holders) # 0
    BY <2>1, <2>2, FS_EmptySet
  <2>4. Cardinality(Holders) = 1
    BY <2>2, <2>3
  <2>5. \E x : Holders = {x}
    BY <2>2, <2>4, FS_Singleton
  <2> QED BY <2>1, <2>5
<1>2. SemInv => Alone
  BY <1>1
<1> QED BY <1>2, SemaphoreInvariant, PTL
=============================================================================
