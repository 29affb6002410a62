--------------------------- MODULE SchedulerProofs ---------------------------
\* Safety of the scheduler for any number of processors and threads.
EXTENDS Scheduler, QueueLemmas, TLAPS

(***************************************************************************)
(* The inductive invariant behind OneCpuPerThread and FlagProtects.  A     *)
(* thread that somebody may take, because it is in a queue or in a local   *)
(* of block or reaper, is "placed".                                        *)
(***************************************************************************)
Flagged == {"y_add", "s_add", "b_remove", "b_look", "b_requeue", "b_active",
            "b_switch", "sw_curr"}
Blocking == {"b_remove", "b_look", "b_requeue", "b_active", "b_switch"}
Taking == {"b_active", "b_switch"}

InQueue(t) == t \in ToSet(readyQ) \cup ToSet(zombieQ)
Placed(t)  == InQueue(t) \/ \E u \in Threads : t \in {next[u], th[u]}

\* A thread is placed once.
PlacedOnce ==
  /\ QueuedOnce
  /\ \A u \in Threads : ~InQueue(next[u]) /\ ~InQueue(th[u])
  /\ \A u, v \in Threads :
       /\ next[u] = next[v] /\ next[u] # NoThread => u = v
       /\ th[u] = th[v] /\ th[u] # NoThread => u = v
       /\ next[u] = th[v] => next[u] = NoThread

\* leaveMeAlone is set from the store in yield, stop or block to the end of
\* the contextSwitch back.
FlagSet ==
  \A t \in Threads :
    At(t) \in Flagged \/ (At(t) = "sw_prev" /\ OnCpu(t)) => leaveMeAlone[t]

\* A placed thread is on its way through block or completely saved.
PlacedAway == \A t \in Threads : Placed(t) => At(t) \in Blocking \/ Saved(t)

\* The thread whose flag contextSwitch is about to clear is saved, and no block
\* has taken it.
PreviousSaved ==
  /\ \A c \in Cpus : previous[c] # NoThread =>
       /\ Saved(previous[c]) /\ leaveMeAlone[previous[c]]
       /\ \A u \in Threads : next[u] = previous[c] => At(u) \notin Taking
  /\ \A c, d \in Cpus : previous[c] = previous[d] /\ previous[c] # NoThread => c = d

\* What block holds in next, and reaper in th.
LocalsSet ==
  \A t \in Threads :
    /\ At(t) \in Blocking \ {"b_remove"} => next[t] \in Threads
    /\ At(t) \in Taking => Saved(next[t]) /\ leaveMeAlone[next[t]]
    /\ pc[t] \in {"r_look", "r_add"} => th[t] \in Threads

\* activeThreads runs ahead of the stacks by the one step to contextSwitch.
ActiveIsRunning ==
  \A c \in Cpus : activeThreads[c] = IF At(running[c]) = "b_switch"
                                     THEN next[running[c]] ELSE running[c]

\* The timer handler interrupts only code whose thread has no flag set, and no
\* thread that is stopped or deleted.
HandlerOnPlain ==
  \A t \in Threads :
    /\ irq[t] # "none" => pc[t] \notin Flagged \cup {"sw_prev", "new"}
    /\ t \in ToSet(zombieQ) \/ (\E u \in Threads : th[u] = t) => irq[t] = "none"
    /\ OnCpu(t) => pc[t] # "new"

IInv ==
  /\ TypeOK
  /\ OneCpuPerThread
  /\ PlacedOnce
  /\ FlagSet
  /\ PlacedAway
  /\ PreviousSaved
  /\ LocalsSet
  /\ ActiveIsRunning
  /\ HandlerOnPlain

-----------------------------------------------------------------------------
\* Where threads are after a step in one thread's current frame.
LEMMA GotoFacts ==
  ASSUME TypeOK, NEW t \in Threads, NEW loc, Goto(t, loc), loc # "none"
  PROVE  /\ \A u \in Threads : At(u)' = IF u = t THEN loc ELSE At(u)
         /\ \A u \in Threads : (irq[u] = "none")' <=> irq[u] = "none"
         /\ \A u \in Threads : pc'[u] = IF u = t /\ irq[t] = "none" THEN loc ELSE pc[u]
BY DEF TypeOK, Goto, At

\* Only yield and block run inside the timer handler.
LEMMA PlainFrame ==
  ASSUME TypeOK, NEW t \in Threads, At(t) \notin YieldLocs \cup BlockLocs
  PROVE  irq[t] = "none" /\ pc[t] = At(t)
BY DEF TypeOK, At

\* Goto keeps the types of the two frames.
LEMMA GotoType ==
  ASSUME TypeOK, NEW t \in Threads, NEW loc \in Locations, Goto(t, loc),
         irq[t] = "none" \/ loc \in YieldLocs \cup BlockLocs
  PROVE  /\ pc' \in [Threads -> Locations]
         /\ irq' \in [Threads -> {"none"} \cup YieldLocs \cup BlockLocs]
BY DEF TypeOK, Goto

\* block returns to code whose thread has no flag set.
LEMMA ReturnFacts ==
  ASSUME TypeOK, HandlerOnPlain, NEW t \in Threads, ReturnFromBlock(t)
  PROVE  /\ \A u \in Threads \ {t} : At(u)' = At(u) /\ pc'[u] = pc[u] /\ irq'[u] = irq[u]
         /\ At(t)' \notin Flagged \cup {"sw_prev", "new"}
         /\ irq'[t] = "none" /\ pc'[t] # "new"
         /\ pc'[t] \in {"r_look", "r_add"} => pc[t] = pc'[t]
         /\ pc' \in [Threads -> Locations]
         /\ irq' \in [Threads -> {"none"} \cup YieldLocs \cup BlockLocs]
BY DEF TypeOK, HandlerOnPlain, ReturnFromBlock, At, Flagged, Work, Locations

\* The timer handler starts on a thread with no flag set: not a placed one.
LEMMA TimerStep ==
  ASSUME IInv, NEW c \in Cpus, Timer(c)
  PROVE  IInv'
<1> DEFINE t == running[c]
<1> USE DEF Timer, IInv, TypeOK, cpuVars, queueVars, reapVars, OnCpu, Saved
<1> t \in Threads
  OBVIOUS
<1>3. /\ activeThreads[c] = t /\ ~leaveMeAlone[t] /\ irq[t] = "none"
      /\ pc[t] \notin Flagged \cup {"sw_prev"} /\ ~Placed(t)
  BY DEF InterruptsOn, ActiveIsRunning, LocalsSet, Taking, FlagSet, At, PlacedAway, Blocking,
      Flagged
<1>1. \A u \in Threads : At(u)' = IF u = t THEN "y_set" ELSE At(u)
  BY <1>3 DEF At
<1>2. irq' \in [Threads -> {"none"} \cup YieldLocs \cup BlockLocs]
  BY DEF YieldLocs
<1>10. TypeOK'
  BY <1>2
<1>11. OneCpuPerThread'
  BY DEF OneCpuPerThread
<1>12. PlacedOnce'
  BY DEF PlacedOnce, QueuedOnce, Placed, InQueue
<1>13. FlagSet'
  BY <1>1, SMTT(40) DEF FlagSet, Flagged
<1>14. PlacedAway'
  BY <1>1, <1>3, SMTT(40) DEF PlacedAway, Placed, InQueue, Blocking, Flagged
<1>15. PreviousSaved'
  BY <1>1, SMTT(40) DEF PreviousSaved, Taking
<1>16. LocalsSet'
  BY <1>1, <1>3, SMTT(40) DEF LocalsSet, Taking, Blocking, Flagged
<1>17. ActiveIsRunning'
  BY <1>1, <1>3, SMTT(40) DEF ActiveIsRunning, OneCpuPerThread, Flagged
<1>18. HandlerOnPlain'
  BY <1>1, <1>3, SMTT(40) DEF HandlerOnPlain, Flagged, Placed, InQueue
<1> QED
  BY <1>10, <1>11, <1>12, <1>13, <1>14, <1>15, <1>16, <1>17, <1>18

\* A call of yield moves a working thread.
LEMMA YieldCallStep ==
  ASSUME IInv, NEW c \in Cpus, YieldCall(c)
  PROVE  IInv'
<1> DEFINE t == running[c]
<1> USE DEF YieldCall, IInv, TypeOK, cpuVars, queueVars, reapVars, OnCpu, Saved
<1> t \in Threads
  OBVIOUS
<1>3. irq[t] = "none" /\ pc[t] \in Work
  BY PlainFrame DEF Work, YieldLocs, BlockLocs
<1>1. /\ \A u \in Threads : At(u)' = IF u = t THEN "y_set" ELSE At(u)
      /\ \A u \in Threads : pc'[u] = IF u = t THEN "y_set" ELSE pc[u]
  BY <1>3 DEF At
<1>2. pc' \in [Threads -> Locations] /\ retAddr' \in [Threads -> Work \cup {"s_end"}]
  BY <1>3 DEF Locations, YieldLocs
<1>10. TypeOK'
  BY <1>2
<1>11. OneCpuPerThread'
  BY DEF OneCpuPerThread
<1>12. PlacedOnce'
  BY DEF PlacedOnce, QueuedOnce, Placed, InQueue
<1>13. FlagSet'
  BY <1>1, <1>3, SMTT(40) DEF FlagSet, Flagged
<1>14. PlacedAway'
  BY <1>1, <1>3, SMTT(40) DEF PlacedAway, Placed, InQueue, Blocking, Flagged, Work
<1>15. PreviousSaved'
  BY <1>1, SMTT(40) DEF PreviousSaved, Taking
<1>16. LocalsSet'
  BY <1>1, <1>3, SMTT(40) DEF LocalsSet, Taking, Blocking, Flagged
<1>17. ActiveIsRunning'
  BY <1>1, <1>3, SMTT(40) DEF ActiveIsRunning, OneCpuPerThread, Flagged, Work
<1>18. HandlerOnPlain'
  BY <1>1, <1>3, SMTT(40) DEF HandlerOnPlain, Flagged, Work
<1> QED
  BY <1>10, <1>11, <1>12, <1>13, <1>14, <1>15, <1>16, <1>17, <1>18

\* yield sets the flag of the thread that runs.
LEMMA YieldSetStep ==
  ASSUME IInv, NEW c \in Cpus, YieldSet(c)
  PROVE  IInv'
<1> DEFINE t == running[c]
<1> USE DEF YieldSet, IInv, TypeOK, cpuVars, queueVars, reapVars, OnCpu, Saved
<1> t \in Threads
  OBVIOUS
<1>1. /\ \A u \in Threads : At(u)' = IF u = t THEN "y_add" ELSE At(u)
      /\ \A u \in Threads : (irq[u] = "none")' <=> irq[u] = "none"
      /\ \A u \in Threads : pc'[u] = IF u = t /\ irq[t] = "none" THEN "y_add" ELSE pc[u]
  BY GotoFacts
<1>2. /\ pc' \in [Threads -> Locations]
      /\ irq' \in [Threads -> {"none"} \cup YieldLocs \cup BlockLocs]
  BY GotoType DEF YieldLocs, BlockLocs, ReapLocs, Locations
<1>10. TypeOK'
  BY <1>2
<1>11. OneCpuPerThread'
  BY DEF OneCpuPerThread
<1>12. PlacedOnce'
  BY DEF PlacedOnce, QueuedOnce, Placed, InQueue
<1>13. FlagSet'
  BY <1>1, SMTT(40) DEF FlagSet, Flagged
<1>14. PlacedAway'
  BY <1>1, SMTT(40) DEF PlacedAway, Placed, InQueue, Blocking, Flagged
<1>15. PreviousSaved'
  BY <1>1, SMTT(40) DEF PreviousSaved, Taking
<1>16. LocalsSet'
  BY <1>1, SMTT(40) DEF LocalsSet, Taking, Blocking, Flagged
<1>17. ActiveIsRunning'
  BY <1>1, SMTT(40) DEF ActiveIsRunning, OneCpuPerThread, Flagged
<1>18. HandlerOnPlain'
  BY <1>1, SMTT(40) DEF HandlerOnPlain, Flagged
<1> QED
  BY <1>10, <1>11, <1>12, <1>13, <1>14, <1>15, <1>16, <1>17, <1>18

\* yield queues a thread that is nowhere else.
LEMMA YieldAddStep ==
  ASSUME IInv, NEW c \in Cpus, YieldAdd(c)
  PROVE  IInv'
<1> DEFINE t == running[c]
<1> USE DEF YieldAdd, IInv, TypeOK, cpuVars, queueVars, reapVars, OnCpu, Saved
<1> t \in Threads
  OBVIOUS
<1>1. /\ \A u \in Threads : At(u)' = IF u = t THEN "b_remove" ELSE At(u)
      /\ \A u \in Threads : (irq[u] = "none")' <=> irq[u] = "none"
      /\ \A u \in Threads : pc'[u] = IF u = t /\ irq[t] = "none" THEN "b_remove" ELSE pc[u]
  BY GotoFacts
<1>2. /\ pc' \in [Threads -> Locations]
      /\ irq' \in [Threads -> {"none"} \cup YieldLocs \cup BlockLocs]
  BY GotoType DEF YieldLocs, BlockLocs, ReapLocs, Locations
<1>3. ~Placed(t)
  BY DEF PlacedAway, Blocking
<1>4. /\ readyQ' \in Seq(Threads) /\ IsInjective(readyQ')
      /\ ToSet(readyQ') = ToSet(readyQ) \cup {t}
  BY <1>3, AddFacts DEF PlacedOnce, QueuedOnce, Placed, InQueue
<1>10. TypeOK'
  BY <1>2, <1>4
<1>11. OneCpuPerThread'
  BY DEF OneCpuPerThread
<1>12. PlacedOnce'
  BY <1>3, <1>4 DEF PlacedOnce, QueuedOnce, Placed, InQueue
<1>13. FlagSet'
  BY <1>1, SMTT(40) DEF FlagSet, Flagged
<1>14. PlacedAway'
  BY <1>1, <1>4, SMTT(40) DEF PlacedAway, Placed, InQueue, Blocking, Flagged
<1>15. PreviousSaved'
  BY <1>1, SMTT(40) DEF PreviousSaved, Taking
<1>16. LocalsSet'
  BY <1>1, SMTT(40) DEF LocalsSet, Taking, Blocking, Flagged
<1>17. ActiveIsRunning'
  BY <1>1, SMTT(40) DEF ActiveIsRunning, OneCpuPerThread, Flagged
<1>18. HandlerOnPlain'
  BY <1>1, SMTT(40) DEF HandlerOnPlain, Flagged
<1> QED
  BY <1>10, <1>11, <1>12, <1>13, <1>14, <1>15, <1>16, <1>17, <1>18

\* block takes the head of the readyQ.
LEMMA BlockRemoveStep ==
  ASSUME IInv, NEW c \in Cpus, BlockRemove(c)
  PROVE  IInv'
<1> DEFINE t == running[c]
<1> USE DEF BlockRemove, IInv, TypeOK, cpuVars, queueVars, reapVars, OnCpu, Saved
<1> t \in Threads
  OBVIOUS
<1>1. /\ \A u \in Threads : At(u)' = IF u = t THEN "b_look" ELSE At(u)
      /\ \A u \in Threads : (irq[u] = "none")' <=> irq[u] = "none"
      /\ \A u \in Threads : pc'[u] = IF u = t /\ irq[t] = "none" THEN "b_look" ELSE pc[u]
  BY GotoFacts
<1>2. /\ pc' \in [Threads -> Locations]
      /\ irq' \in [Threads -> {"none"} \cup YieldLocs \cup BlockLocs]
  BY GotoType DEF YieldLocs, BlockLocs, ReapLocs, Locations
<1>3. /\ readyQ' \in Seq(Threads) /\ IsInjective(readyQ')
      /\ ToSet(readyQ) = ToSet(readyQ') \cup {Head(readyQ)}
      /\ Head(readyQ) \in Threads /\ Head(readyQ) \notin ToSet(readyQ')
  BY RemoveFacts DEF PlacedOnce, QueuedOnce
<1>10. TypeOK'
  BY <1>2, <1>3
<1>11. OneCpuPerThread'
  BY DEF OneCpuPerThread
<1>12. PlacedOnce'
  BY <1>3, ThreadsAssumption DEF PlacedOnce, QueuedOnce, Placed, InQueue
<1>13. FlagSet'
  BY <1>1, SMTT(40) DEF FlagSet, Flagged
<1>14. PlacedAway'
  BY <1>1, <1>3, SMTT(40) DEF PlacedAway, Placed, InQueue, Blocking, Flagged
<1>15. PreviousSaved'
  BY <1>1, <1>3, SMTT(40) DEF PreviousSaved, Taking
<1>16. LocalsSet'
  BY <1>1, <1>3, SMTT(40) DEF LocalsSet, Taking, Blocking, Flagged
<1>17. ActiveIsRunning'
  BY <1>1, SMTT(40) DEF ActiveIsRunning, OneCpuPerThread, Flagged
<1>18. HandlerOnPlain'
  BY <1>1, SMTT(40) DEF HandlerOnPlain, Flagged
<1> QED
  BY <1>10, <1>11, <1>12, <1>13, <1>14, <1>15, <1>16, <1>17, <1>18

\* A thread that met itself returns from block.
LEMMA BlockMeetsItselfStep ==
  ASSUME IInv, NEW c \in Cpus, BlockMeetsItself(c)
  PROVE  IInv'
<1> DEFINE t == running[c]
<1> USE DEF BlockMeetsItself, IInv, TypeOK, cpuVars, queueVars, reapVars, OnCpu, Saved
<1> t \in Threads
  OBVIOUS
<1>1. /\ \A u \in Threads \ {t} : At(u)' = At(u) /\ pc'[u] = pc[u] /\ irq'[u] = irq[u]
      /\ At(t)' \notin Flagged \cup {"sw_prev", "new"}
      /\ irq'[t] = "none" /\ pc'[t] # "new"
      /\ pc'[t] \in {"r_look", "r_add"} => pc[t] = pc'[t]
  BY ReturnFacts
<1>2. /\ pc' \in [Threads -> Locations]
      /\ irq' \in [Threads -> {"none"} \cup YieldLocs \cup BlockLocs]
  BY ReturnFacts
<1>3. /\ leaveMeAlone[t] /\ next[t] = t /\ At(t) = "b_look" /\ irq'[t] = "none"
      /\ ~InQueue(t) /\ \A u \in Threads : th[u] # t /\ (u # t => next[u] # t)
  BY <1>1, ThreadsAssumption DEF FlagSet, Flagged, PlacedOnce
<1>4. NoThread \notin ToSet(readyQ) \cup ToSet(zombieQ)
  BY ThreadsAssumption, ElementsFacts
<1>5. \A u \in Threads : Placed(u)' => Placed(u) /\ u # t
  BY <1>3, ThreadsAssumption DEF Placed, InQueue
<1>10. TypeOK'
  BY <1>2
<1>11. OneCpuPerThread'
  BY DEF OneCpuPerThread
<1>12. PlacedOnce'
  BY <1>3, <1>4 DEF PlacedOnce, QueuedOnce, Placed, InQueue
<1>13. FlagSet'
  BY <1>1, <1>3, SMTT(40) DEF FlagSet, Flagged
<1>14. PlacedAway'
  BY <1>1, <1>5, SMTT(40) DEF PlacedAway, Blocking, Flagged
<1>15. PreviousSaved'
  BY <1>1, <1>3, SMTT(40) DEF PreviousSaved, Taking
<1>16. LocalsSet'
  BY <1>1, <1>3, SMTT(40) DEF LocalsSet, Taking, Blocking, Flagged
<1>17. ActiveIsRunning'
  BY <1>1, <1>3, SMTT(40) DEF ActiveIsRunning, OneCpuPerThread, Flagged
<1>18. HandlerOnPlain'
  BY <1>1, <1>3, SMTT(40) DEF HandlerOnPlain, Flagged
<1> QED
  BY <1>10, <1>11, <1>12, <1>13, <1>14, <1>15, <1>16, <1>17, <1>18

\* block leaves a flagged thread alone.
LEMMA BlockLeaveAloneStep ==
  ASSUME IInv, NEW c \in Cpus, BlockLeaveAlone(c)
  PROVE  IInv'
<1> DEFINE t == running[c]
<1> USE DEF BlockLeaveAlone, IInv, TypeOK, cpuVars, queueVars, reapVars, OnCpu, Saved
<1> t \in Threads
  OBVIOUS
<1>1. /\ \A u \in Threads : At(u)' = IF u = t THEN "b_requeue" ELSE At(u)
      /\ \A u \in Threads : (irq[u] = "none")' <=> irq[u] = "none"
      /\ \A u \in Threads : pc'[u] = IF u = t /\ irq[t] = "none" THEN "b_requeue" ELSE pc[u]
  BY GotoFacts
<1>2. /\ pc' \in [Threads -> Locations]
      /\ irq' \in [Threads -> {"none"} \cup YieldLocs \cup BlockLocs]
  BY GotoType DEF YieldLocs, BlockLocs, ReapLocs, Locations
<1>10. TypeOK'
  BY <1>2
<1>11. OneCpuPerThread'
  BY DEF OneCpuPerThread
<1>12. PlacedOnce'
  BY DEF PlacedOnce, QueuedOnce, Placed, InQueue
<1>13. FlagSet'
  BY <1>1, SMTT(40) DEF FlagSet, Flagged
<1>14. PlacedAway'
  BY <1>1, SMTT(40) DEF PlacedAway, Placed, InQueue, Blocking, Flagged
<1>15. PreviousSaved'
  BY <1>1, SMTT(40) DEF PreviousSaved, Taking
<1>16. LocalsSet'
  BY <1>1, SMTT(40) DEF LocalsSet, Taking, Blocking, Flagged
<1>17. ActiveIsRunning'
  BY <1>1, SMTT(40) DEF ActiveIsRunning, OneCpuPerThread, Flagged
<1>18. HandlerOnPlain'
  BY <1>1, SMTT(40) DEF HandlerOnPlain, Flagged
<1> QED
  BY <1>10, <1>11, <1>12, <1>13, <1>14, <1>15, <1>16, <1>17, <1>18

\* block puts a thread back.
LEMMA BlockRequeueStep ==
  ASSUME IInv, NEW c \in Cpus, BlockRequeue(c)
  PROVE  IInv'
<1> DEFINE t == running[c]
<1> USE DEF BlockRequeue, IInv, TypeOK, cpuVars, queueVars, reapVars, OnCpu, Saved
<1> t \in Threads
  OBVIOUS
<1>1. /\ \A u \in Threads : At(u)' = IF u = t THEN "b_remove" ELSE At(u)
      /\ \A u \in Threads : (irq[u] = "none")' <=> irq[u] = "none"
      /\ \A u \in Threads : pc'[u] = IF u = t /\ irq[t] = "none" THEN "b_remove" ELSE pc[u]
  BY GotoFacts
<1>2. /\ pc' \in [Threads -> Locations]
      /\ irq' \in [Threads -> {"none"} \cup YieldLocs \cup BlockLocs]
  BY GotoType DEF YieldLocs, BlockLocs, ReapLocs, Locations
<1>3. /\ readyQ' \in Seq(Threads)
      /\ ToSet(readyQ') = ToSet(readyQ) \cup {next[t]} /\ IsInjective(readyQ')
      /\ next[t] \in Threads /\ next[t] \notin ToSet(zombieQ)
      /\ NoThread \notin ToSet(readyQ) \cup ToSet(zombieQ)
  <2>1. next[t] \in Threads /\ ~InQueue(next[t])
    BY DEF LocalsSet, Blocking, PlacedOnce
  <2> QED
    BY <2>1, AddFacts, ElementsFacts, ThreadsAssumption DEF PlacedOnce, QueuedOnce, InQueue
<1>4. \A u \in Threads : Placed(u)' => Placed(u)
  BY <1>3, ThreadsAssumption DEF Placed, InQueue
<1>10. TypeOK'
  BY <1>2, <1>3
<1>11. OneCpuPerThread'
  BY DEF OneCpuPerThread
<1>12. PlacedOnce'
  BY <1>3, ThreadsAssumption DEF PlacedOnce, QueuedOnce, Placed, InQueue
<1>13. FlagSet'
  BY <1>1, SMTT(40) DEF FlagSet, Flagged
<1>14. PlacedAway'
  BY <1>1, <1>4, SMTT(40) DEF PlacedAway, Blocking, Flagged
<1>15. PreviousSaved'
  BY <1>1, SMTT(40) DEF PreviousSaved, Taking
<1>16. LocalsSet'
  BY <1>1, SMTT(40) DEF LocalsSet, Taking, Blocking, Flagged
<1>17. ActiveIsRunning'
  BY <1>1, SMTT(40) DEF ActiveIsRunning, OneCpuPerThread, Flagged
<1>18. HandlerOnPlain'
  BY <1>1, SMTT(40) DEF HandlerOnPlain, Flagged
<1> QED
  BY <1>10, <1>11, <1>12, <1>13, <1>14, <1>15, <1>16, <1>17, <1>18

\* block takes a thread that is completely saved.
LEMMA BlockTakeStep ==
  ASSUME IInv, NEW c \in Cpus, BlockTake(c)
  PROVE  IInv'
<1> DEFINE t == running[c]
<1> USE DEF BlockTake, IInv, TypeOK, cpuVars, queueVars, reapVars, OnCpu, Saved
<1> t \in Threads
  OBVIOUS
<1>1. /\ \A u \in Threads : At(u)' = IF u = t THEN "b_active" ELSE At(u)
      /\ \A u \in Threads : (irq[u] = "none")' <=> irq[u] = "none"
      /\ \A u \in Threads : pc'[u] = IF u = t /\ irq[t] = "none" THEN "b_active" ELSE pc[u]
  BY GotoFacts
<1>2. /\ pc' \in [Threads -> Locations]
      /\ irq' \in [Threads -> {"none"} \cup YieldLocs \cup BlockLocs]
  BY GotoType DEF YieldLocs, BlockLocs, ReapLocs, Locations
<1>3. next[t] \in Threads /\ Saved(next[t])
  BY DEF LocalsSet, Blocking, PlacedAway, Placed, FlagSet, Flagged
<1>4. \A u \in Threads : next[u] = next[t] => u = t
  BY <1>3, ThreadsAssumption DEF PlacedOnce
<1>10. TypeOK'
  BY <1>2
<1>11. OneCpuPerThread'
  BY DEF OneCpuPerThread
<1>12. PlacedOnce'
  BY DEF PlacedOnce, QueuedOnce, Placed, InQueue
<1>13. FlagSet'
  BY <1>1, <1>3, SMTT(40) DEF FlagSet, Flagged
<1>14. PlacedAway'
  BY <1>1, SMTT(40) DEF PlacedAway, Placed, InQueue, Blocking, Flagged
<1>15. PreviousSaved'
  BY <1>1, <1>3, <1>4, ThreadsAssumption, SMTT(40) DEF PreviousSaved, Taking, PlacedOnce, Placed
<1>16. LocalsSet'
  BY <1>1, <1>3, SMTT(40) DEF LocalsSet, Taking, Blocking, Flagged
<1>17. ActiveIsRunning'
  BY <1>1, SMTT(40) DEF ActiveIsRunning, OneCpuPerThread, Flagged
<1>18. HandlerOnPlain'
  BY <1>1, SMTT(40) DEF HandlerOnPlain, Flagged
<1> QED
  BY <1>10, <1>11, <1>12, <1>13, <1>14, <1>15, <1>16, <1>17, <1>18

\* block names the next thread active.
LEMMA BlockActivateStep ==
  ASSUME IInv, NEW c \in Cpus, BlockActivate(c)
  PROVE  IInv'
<1> DEFINE t == running[c]
<1> USE DEF BlockActivate, IInv, TypeOK, cpuVars, queueVars, reapVars, OnCpu, Saved
<1> t \in Threads
  OBVIOUS
<1>1. /\ \A u \in Threads : At(u)' = IF u = t THEN "b_switch" ELSE At(u)
      /\ \A u \in Threads : (irq[u] = "none")' <=> irq[u] = "none"
      /\ \A u \in Threads : pc'[u] = IF u = t /\ irq[t] = "none" THEN "b_switch" ELSE pc[u]
  BY GotoFacts
<1>2. /\ pc' \in [Threads -> Locations]
      /\ irq' \in [Threads -> {"none"} \cup YieldLocs \cup BlockLocs]
  BY GotoType DEF YieldLocs, BlockLocs, ReapLocs, Locations
<1>10. TypeOK'
  BY <1>2 DEF LocalsSet, Blocking
<1>11. OneCpuPerThread'
  BY DEF OneCpuPerThread
<1>12. PlacedOnce'
  BY DEF PlacedOnce, QueuedOnce, Placed, InQueue
<1>13. FlagSet'
  BY <1>1, SMTT(40) DEF FlagSet, Flagged
<1>14. PlacedAway'
  BY <1>1, SMTT(40) DEF PlacedAway, Placed, InQueue, Blocking, Flagged
<1>15. PreviousSaved'
  BY <1>1, SMTT(40) DEF PreviousSaved, Taking
<1>16. LocalsSet'
  BY <1>1, SMTT(40) DEF LocalsSet, Taking, Blocking, Flagged
<1>17. ActiveIsRunning'
  BY <1>1, SMTT(40) DEF ActiveIsRunning, OneCpuPerThread, Flagged
<1>18. HandlerOnPlain'
  BY <1>1, SMTT(40) DEF HandlerOnPlain, Flagged
<1> QED
  BY <1>10, <1>11, <1>12, <1>13, <1>14, <1>15, <1>16, <1>17, <1>18

\* The processor changes to a saved stack.
LEMMA ContextSwitchStep ==
  ASSUME IInv, NEW c \in Cpus, ContextSwitch(c)
  PROVE  IInv'
<1> DEFINE t == running[c]
<1> USE DEF ContextSwitch, IInv, TypeOK, cpuVars, queueVars, reapVars
<1> t \in Threads
  OBVIOUS
<1>1. /\ \A u \in Threads : At(u)' = IF u = t THEN "sw_prev" ELSE At(u)
      /\ \A u \in Threads : (irq[u] = "none")' <=> irq[u] = "none"
      /\ \A u \in Threads : pc'[u] = IF u = t /\ irq[t] = "none" THEN "sw_prev" ELSE pc[u]
  BY GotoFacts
<1>2. /\ pc' \in [Threads -> Locations]
      /\ irq' \in [Threads -> {"none"} \cup YieldLocs \cup BlockLocs]
  BY GotoType DEF YieldLocs, BlockLocs, ReapLocs, Locations
<1>3. /\ next[t] \in Threads /\ next[t] # t /\ leaveMeAlone[t] /\ leaveMeAlone[next[t]]
      /\ At(next[t]) = "sw_prev" /\ ~OnCpu(next[t])
  BY DEF LocalsSet, Blocking, Taking, Saved, OnCpu, FlagSet, Flagged
<1>4. /\ \A u \in Threads : OnCpu(u)' <=> u = next[t] \/ (OnCpu(u) /\ u # t)
      /\ \A d \in Cpus \ {c} : running'[d] = running[d] /\ running[d] # t
      /\ running'[c] = next[t]
  BY DEF OnCpu, OneCpuPerThread
<1>5. /\ \A u \in Threads : u # t => next[u] # next[t]
      /\ ~InQueue(next[t]) /\ \A u \in Threads : th[u] # next[t]
      /\ NoThread \notin ToSet(readyQ) \cup ToSet(zombieQ)
  BY <1>3, ThreadsAssumption, ElementsFacts DEF PlacedOnce
<1>6. \A u \in Threads : Saved(u)' <=> u = t \/ (Saved(u) /\ u # next[t])
  BY <1>1, <1>3, <1>4 DEF Saved
<1>7. /\ \A d \in Cpus : previous[d] # t /\ (previous[d] # NoThread => previous[d] # next[t])
      /\ \A u \in Threads : At(u) \in Taking => next[u] # t
  BY <1>3, ThreadsAssumption DEF PreviousSaved, LocalsSet, Saved, Taking
<1>8. pc[next[t]] # "new"
  BY <1>3 DEF HandlerOnPlain, At
<1>10. TypeOK'
  BY <1>2, <1>3
<1>11. OneCpuPerThread'
  BY <1>3, <1>4 DEF OneCpuPerThread, OnCpu
<1>12. PlacedOnce'
  BY <1>5, ThreadsAssumption DEF PlacedOnce, QueuedOnce, Placed, InQueue
<1>13. FlagSet'
  BY <1>1, <1>3, <1>4, SMTT(40) DEF FlagSet, Flagged
<1>14. PlacedAway'
  BY <1>1, <1>3, <1>5, <1>6, ThreadsAssumption, SMTT(40) DEF PlacedAway, Placed, InQueue,
      Blocking, Flagged
<1>15. PreviousSaved'
  BY <1>1, <1>3, <1>5, <1>6, <1>7, ThreadsAssumption, SMTT(40) DEF PreviousSaved, Taking, PlacedOnce
<1>16. LocalsSet'
  BY <1>1, <1>3, <1>5, <1>6, ThreadsAssumption, SMTT(40) DEF LocalsSet, Taking, Blocking, Flagged
<1>17. ActiveIsRunning'
  BY <1>1, <1>3, <1>4, SMTT(40) DEF ActiveIsRunning, OneCpuPerThread, Flagged
<1>18. HandlerOnPlain'
  BY <1>1, <1>3, <1>4, <1>8, SMTT(40) DEF HandlerOnPlain, Flagged
<1> QED
  BY <1>10, <1>11, <1>12, <1>13, <1>14, <1>15, <1>16, <1>17, <1>18

\* The thread that was left may be taken from now on.
LEMMA ClearPreviousStep ==
  ASSUME IInv, NEW c \in Cpus, ClearPrevious(c)
  PROVE  IInv'
<1> DEFINE t == running[c]
<1> USE DEF ClearPrevious, IInv, TypeOK, cpuVars, queueVars, reapVars, OnCpu, Saved
<1> t \in Threads
  OBVIOUS
<1>1. /\ \A u \in Threads : At(u)' = IF u = t THEN "sw_curr" ELSE At(u)
      /\ \A u \in Threads : (irq[u] = "none")' <=> irq[u] = "none"
      /\ \A u \in Threads : pc'[u] = IF u = t /\ irq[t] = "none" THEN "sw_curr" ELSE pc[u]
  BY GotoFacts
<1>2. /\ pc' \in [Threads -> Locations]
      /\ irq' \in [Threads -> {"none"} \cup YieldLocs \cup BlockLocs]
  BY GotoType DEF YieldLocs, BlockLocs, ReapLocs, Locations
<1>3. /\ leaveMeAlone[t] /\ t # previous[c]
      /\ \A u \in Threads : u # previous[c] => leaveMeAlone'[u] = leaveMeAlone[u]
      /\ \A d \in Cpus \ {c} : previous[d] # NoThread => previous[d] # previous[c]
  BY ThreadsAssumption DEF FlagSet, PreviousSaved
<1>4. previous[c] # NoThread =>
        /\ At(previous[c]) = "sw_prev" /\ ~OnCpu(previous[c])
        /\ \A u \in Threads : next[u] = previous[c] => At(u) \notin Taking
  BY DEF PreviousSaved
<1>10. TypeOK'
  BY <1>2
<1>11. OneCpuPerThread'
  BY DEF OneCpuPerThread
<1>12. PlacedOnce'
  BY DEF PlacedOnce, QueuedOnce, Placed, InQueue
<1>13. FlagSet'
  BY <1>1, <1>3, <1>4, ThreadsAssumption, SMTT(40) DEF FlagSet, Flagged
<1>14. PlacedAway'
  BY <1>1, SMTT(40) DEF PlacedAway, Placed, InQueue, Blocking, Flagged
<1>15. PreviousSaved'
  BY <1>1, <1>3, SMTT(40) DEF PreviousSaved, Taking
<1>16. LocalsSet'
  BY <1>1, <1>3, <1>4, ThreadsAssumption, SMTT(40) DEF LocalsSet, Taking, Blocking, Flagged
<1>17. ActiveIsRunning'
  BY <1>1, SMTT(40) DEF ActiveIsRunning, OneCpuPerThread, Flagged
<1>18. HandlerOnPlain'
  BY <1>1, SMTT(40) DEF HandlerOnPlain, Flagged
<1> QED
  BY <1>10, <1>11, <1>12, <1>13, <1>14, <1>15, <1>16, <1>17, <1>18

\* The thread that was resumed returns from block.
LEMMA ClearCurrentStep ==
  ASSUME IInv, NEW c \in Cpus, ClearCurrent(c)
  PROVE  IInv'
<1> DEFINE t == running[c]
<1> USE DEF ClearCurrent, IInv, TypeOK, cpuVars, queueVars, reapVars, OnCpu, Saved
<1> t \in Threads
  OBVIOUS
<1>1. /\ \A u \in Threads \ {t} : At(u)' = At(u) /\ pc'[u] = pc[u] /\ irq'[u] = irq[u]
      /\ At(t)' \notin Flagged \cup {"sw_prev", "new"}
      /\ irq'[t] = "none" /\ pc'[t] # "new"
      /\ pc'[t] \in {"r_look", "r_add"} => pc[t] = pc'[t]
  BY ReturnFacts
<1>2. /\ pc' \in [Threads -> Locations]
      /\ irq' \in [Threads -> {"none"} \cup YieldLocs \cup BlockLocs]
  BY ReturnFacts
<1>3. /\ leaveMeAlone[t] /\ At(t) = "sw_curr" /\ irq'[t] = "none" /\ ~Placed(t)
      /\ \A d \in Cpus : previous[d] # t
  <2>1. At(t) = "sw_curr" /\ irq'[t] = "none"
    BY <1>1
  <2>2. leaveMeAlone[t]
    BY <2>1 DEF FlagSet, Flagged
  <2>3. ~Placed(t)
    BY <2>1 DEF PlacedAway, Blocking
  <2>4. \A d \in Cpus : previous[d] # t
    BY <2>1, ThreadsAssumption DEF PreviousSaved
  <2> QED
    BY <2>1, <2>2, <2>3, <2>4
<1>4. \A u \in Threads : At(u) \in Taking => next[u] # t
  BY <1>3 DEF LocalsSet
<1>5. \A u \in Threads : Placed(u)' <=> Placed(u)
  BY DEF Placed, InQueue
<1>10. TypeOK'
  BY <1>2
<1>11. OneCpuPerThread'
  BY DEF OneCpuPerThread
<1>12. PlacedOnce'
  BY DEF PlacedOnce, QueuedOnce, Placed, InQueue
<1>13. FlagSet'
  BY <1>1, <1>3, SMTT(40) DEF FlagSet, Flagged
<1>14. PlacedAway'
  BY <1>1, <1>3, <1>5, SMTT(40) DEF PlacedAway, Blocking, Flagged
<1>15. PreviousSaved'
  BY <1>1, <1>3, <1>4, SMTT(40) DEF PreviousSaved, Taking, Flagged
<1>16. LocalsSet'
  BY <1>1, <1>3, <1>4, SMTT(40) DEF LocalsSet, Taking, Blocking, Flagged
<1>17. ActiveIsRunning'
  BY <1>1, <1>3, SMTT(40) DEF ActiveIsRunning, OneCpuPerThread, Flagged
<1>18. HandlerOnPlain'
  BY <1>1, <1>3, SMTT(40) DEF HandlerOnPlain, Flagged
<1> QED
  BY <1>10, <1>11, <1>12, <1>13, <1>14, <1>15, <1>16, <1>17, <1>18

\* stop sets the flag of the thread that runs.
LEMMA StopCallStep ==
  ASSUME IInv, NEW c \in Cpus, StopCall(c)
  PROVE  IInv'
<1> DEFINE t == running[c]
<1> USE DEF StopCall, IInv, TypeOK, cpuVars, queueVars, reapVars, OnCpu, Saved
<1> t \in Threads
  OBVIOUS
<1>1. /\ \A u \in Threads : At(u)' = IF u = t THEN "s_add" ELSE At(u)
      /\ \A u \in Threads : (irq[u] = "none")' <=> irq[u] = "none"
      /\ \A u \in Threads : pc'[u] = IF u = t /\ irq[t] = "none" THEN "s_add" ELSE pc[u]
  BY GotoFacts
<1>2. /\ pc' \in [Threads -> Locations]
      /\ irq' \in [Threads -> {"none"} \cup YieldLocs \cup BlockLocs]
  BY PlainFrame, GotoType DEF YieldLocs, BlockLocs, ReapLocs, Locations
<1>10. TypeOK'
  BY <1>2 DEF Work
<1>11. OneCpuPerThread'
  BY DEF OneCpuPerThread
<1>12. PlacedOnce'
  BY DEF PlacedOnce, QueuedOnce, Placed, InQueue
<1>13. FlagSet'
  BY <1>1, SMTT(40) DEF FlagSet, Flagged
<1>14. PlacedAway'
  BY <1>1, SMTT(40) DEF PlacedAway, Placed, InQueue, Blocking, Flagged
<1>15. PreviousSaved'
  BY <1>1, SMTT(40) DEF PreviousSaved, Taking
<1>16. LocalsSet'
  BY <1>1, SMTT(40) DEF LocalsSet, Taking, Blocking, Flagged
<1>17. ActiveIsRunning'
  BY <1>1, SMTT(40) DEF ActiveIsRunning, OneCpuPerThread, Flagged
<1>18. HandlerOnPlain'
  BY <1>1, SMTT(40) DEF HandlerOnPlain, Flagged
<1> QED
  BY <1>10, <1>11, <1>12, <1>13, <1>14, <1>15, <1>16, <1>17, <1>18

\* stop queues a thread that is nowhere else.
LEMMA StopAddStep ==
  ASSUME IInv, NEW c \in Cpus, StopAdd(c)
  PROVE  IInv'
<1> DEFINE t == running[c]
<1> USE DEF StopAdd, IInv, TypeOK, cpuVars, queueVars, reapVars, OnCpu, Saved
<1> t \in Threads
  OBVIOUS
<1>1. /\ \A u \in Threads : At(u)' = IF u = t THEN "b_remove" ELSE At(u)
      /\ \A u \in Threads : (irq[u] = "none")' <=> irq[u] = "none"
      /\ \A u \in Threads : pc'[u] = IF u = t /\ irq[t] = "none" THEN "b_remove" ELSE pc[u]
  BY GotoFacts
<1>2. /\ pc' \in [Threads -> Locations]
      /\ irq' \in [Threads -> {"none"} \cup YieldLocs \cup BlockLocs]
  BY GotoType DEF YieldLocs, BlockLocs, ReapLocs, Locations
<1>3. ~Placed(t)
  BY DEF PlacedAway, Blocking
<1>4. /\ zombieQ' \in Seq(Threads) /\ IsInjective(zombieQ')
      /\ ToSet(zombieQ') = ToSet(zombieQ) \cup {t}
  BY <1>3, AddFacts DEF PlacedOnce, QueuedOnce, Placed, InQueue
<1>5. irq[t] = "none"
  BY PlainFrame DEF YieldLocs, BlockLocs
<1>10. TypeOK'
  BY <1>2, <1>4
<1>11. OneCpuPerThread'
  BY DEF OneCpuPerThread
<1>12. PlacedOnce'
  BY <1>3, <1>4 DEF PlacedOnce, QueuedOnce, Placed, InQueue
<1>13. FlagSet'
  BY <1>1, SMTT(40) DEF FlagSet, Flagged
<1>14. PlacedAway'
  BY <1>1, <1>4, SMTT(40) DEF PlacedAway, Placed, InQueue, Blocking, Flagged
<1>15. PreviousSaved'
  BY <1>1, SMTT(40) DEF PreviousSaved, Taking
<1>16. LocalsSet'
  BY <1>1, SMTT(40) DEF LocalsSet, Taking, Blocking, Flagged
<1>17. ActiveIsRunning'
  BY <1>1, SMTT(40) DEF ActiveIsRunning, OneCpuPerThread, Flagged
<1>18. HandlerOnPlain'
  BY <1>1, <1>4, <1>5, SMTT(40) DEF HandlerOnPlain, Flagged
<1> QED
  BY <1>10, <1>11, <1>12, <1>13, <1>14, <1>15, <1>16, <1>17, <1>18

\* A call of reaper moves a working thread.
LEMMA ReaperCallStep ==
  ASSUME IInv, NEW c \in Cpus, ReaperCall(c)
  PROVE  IInv'
<1> DEFINE t == running[c]
<1> USE DEF ReaperCall, IInv, TypeOK, cpuVars, queueVars, reapVars, OnCpu, Saved
<1> t \in Threads
  OBVIOUS
<1>1. /\ \A u \in Threads : At(u)' = IF u = t THEN "r_remove" ELSE At(u)
      /\ \A u \in Threads : (irq[u] = "none")' <=> irq[u] = "none"
      /\ \A u \in Threads : pc'[u] = IF u = t /\ irq[t] = "none" THEN "r_remove" ELSE pc[u]
  BY GotoFacts
<1>2. /\ pc' \in [Threads -> Locations]
      /\ irq' \in [Threads -> {"none"} \cup YieldLocs \cup BlockLocs]
  BY PlainFrame, GotoType DEF YieldLocs, BlockLocs, ReapLocs, Locations
<1>10. TypeOK'
  BY <1>2
<1>11. OneCpuPerThread'
  BY DEF OneCpuPerThread
<1>12. PlacedOnce'
  BY DEF PlacedOnce, QueuedOnce, Placed, InQueue
<1>13. FlagSet'
  BY <1>1, SMTT(40) DEF FlagSet, Flagged
<1>14. PlacedAway'
  BY <1>1, SMTT(40) DEF PlacedAway, Placed, InQueue, Blocking, Flagged
<1>15. PreviousSaved'
  BY <1>1, SMTT(40) DEF PreviousSaved, Taking
<1>16. LocalsSet'
  BY <1>1, SMTT(40) DEF LocalsSet, Taking, Blocking, Flagged
<1>17. ActiveIsRunning'
  BY <1>1, SMTT(40) DEF ActiveIsRunning, OneCpuPerThread, Flagged
<1>18. HandlerOnPlain'
  BY <1>1, SMTT(40) DEF HandlerOnPlain, Flagged
<1> QED
  BY <1>10, <1>11, <1>12, <1>13, <1>14, <1>15, <1>16, <1>17, <1>18

\* reaper returns when there is no zombie.
LEMMA ReaperEmptyStep ==
  ASSUME IInv, NEW c \in Cpus, ReaperEmpty(c)
  PROVE  IInv'
<1> DEFINE t == running[c]
<1> USE DEF ReaperEmpty, IInv, TypeOK, cpuVars, queueVars, reapVars, OnCpu, Saved
<1> t \in Threads
  OBVIOUS
<1>1. /\ \A u \in Threads : At(u)' = IF u = t THEN pc'[t] ELSE At(u)
      /\ pc'[t] \in {"y_set", "t_sched"} /\ irq[t] = "none" /\ irq' = irq
      /\ \A u \in Threads : u # t => pc'[u] = pc[u]
  BY PlainFrame DEF ReaperReturn, Goto, At, YieldLocs, BlockLocs
<1>2. pc' \in [Threads -> Locations]
  BY <1>1 DEF ReaperReturn, Goto, Locations, YieldLocs, ReapLocs
<1>3. /\ \A u \in Threads : th'[u] = IF u = t THEN NoThread ELSE th[u]
      /\ th' \in [Threads -> Threads \cup {NoThread}]
      /\ firstAlone' \in [Threads -> Threads \cup {NoThread}]
      /\ NoThread \notin ToSet(readyQ) \cup ToSet(zombieQ)
  BY ElementsFacts, ThreadsAssumption DEF ReaperReturn
<1>4. \A u \in Threads : Placed(u)' => Placed(u)
  BY <1>3, ThreadsAssumption DEF Placed, InQueue
<1>10. TypeOK'
  BY <1>2, <1>1, <1>3
<1>11. OneCpuPerThread'
  BY DEF OneCpuPerThread
<1>12. PlacedOnce'
  <2>1. QueuedOnce'
    BY DEF PlacedOnce, QueuedOnce
  <2>2. \A u \in Threads : ~InQueue(next[u])' /\ ~InQueue(th[u])'
    BY <1>3 DEF PlacedOnce, InQueue
  <2>3. \A u, v \in Threads :
          /\ next'[u] = next'[v] /\ next'[u] # NoThread => u = v
          /\ th'[u] = th'[v] /\ th'[u] # NoThread => u = v
          /\ next'[u] = th'[v] => next'[u] = NoThread
    BY <1>3 DEF PlacedOnce
  <2> QED BY <2>1, <2>2, <2>3 DEF PlacedOnce
<1>13. FlagSet'
  BY <1>1, SMTT(40) DEF FlagSet, Flagged
<1>14. PlacedAway'
  BY <1>1, <1>4, SMTT(40) DEF PlacedAway, Blocking, Flagged
<1>15. PreviousSaved'
  BY <1>1, SMTT(40) DEF PreviousSaved, Taking
<1>16. LocalsSet'
  BY <1>1, <1>3, SMTT(40) DEF LocalsSet, Taking, Blocking, Flagged
<1>17. ActiveIsRunning'
  BY <1>1, SMTT(40) DEF ActiveIsRunning, OneCpuPerThread, Flagged
<1>18. HandlerOnPlain'
  BY <1>1, <1>3, ThreadsAssumption, SMTT(40) DEF HandlerOnPlain, Flagged
<1> QED
  BY <1>10, <1>11, <1>12, <1>13, <1>14, <1>15, <1>16, <1>17, <1>18

\* reaper returns when it meets its first zombie again.
LEMMA ReaperMeetsFirstStep ==
  ASSUME IInv, NEW c \in Cpus, ReaperMeetsFirst(c)
  PROVE  IInv'
<1> DEFINE t == running[c]
<1> USE DEF ReaperMeetsFirst, IInv, TypeOK, cpuVars, queueVars, reapVars, OnCpu, Saved
<1> t \in Threads
  OBVIOUS
<1>1. /\ \A u \in Threads : At(u)' = IF u = t THEN pc'[t] ELSE At(u)
      /\ pc'[t] \in {"y_set", "t_sched"} /\ irq[t] = "none" /\ irq' = irq
      /\ \A u \in Threads : u # t => pc'[u] = pc[u]
  BY PlainFrame DEF ReaperReturn, Goto, At, YieldLocs, BlockLocs
<1>2. pc' \in [Threads -> Locations]
  BY <1>1 DEF ReaperReturn, Goto, Locations, YieldLocs, ReapLocs
<1>3. /\ \A u \in Threads : th'[u] = IF u = t THEN NoThread ELSE th[u]
      /\ th' \in [Threads -> Threads \cup {NoThread}]
      /\ firstAlone' \in [Threads -> Threads \cup {NoThread}]
      /\ NoThread \notin ToSet(readyQ) \cup ToSet(zombieQ)
  BY ElementsFacts, ThreadsAssumption DEF ReaperReturn
<1>4. \A u \in Threads : Placed(u)' => Placed(u)
  BY <1>3, ThreadsAssumption DEF Placed, InQueue
<1>10. TypeOK'
  BY <1>2, <1>1, <1>3
<1>11. OneCpuPerThread'
  BY DEF OneCpuPerThread
<1>12. PlacedOnce'
  <2>1. QueuedOnce'
    BY DEF PlacedOnce, QueuedOnce
  <2>2. \A u \in Threads : ~InQueue(next[u])' /\ ~InQueue(th[u])'
    BY <1>3 DEF PlacedOnce, InQueue
  <2>3. \A u, v \in Threads :
          /\ next'[u] = next'[v] /\ next'[u] # NoThread => u = v
          /\ th'[u] = th'[v] /\ th'[u] # NoThread => u = v
          /\ next'[u] = th'[v] => next'[u] = NoThread
    BY <1>3 DEF PlacedOnce
  <2> QED BY <2>1, <2>2, <2>3 DEF PlacedOnce
<1>13. FlagSet'
  BY <1>1, SMTT(40) DEF FlagSet, Flagged
<1>14. PlacedAway'
  BY <1>1, <1>4, SMTT(40) DEF PlacedAway, Blocking, Flagged
<1>15. PreviousSaved'
  BY <1>1, SMTT(40) DEF PreviousSaved, Taking
<1>16. LocalsSet'
  BY <1>1, <1>3, SMTT(40) DEF LocalsSet, Taking, Blocking, Flagged
<1>17. ActiveIsRunning'
  BY <1>1, SMTT(40) DEF ActiveIsRunning, OneCpuPerThread, Flagged
<1>18. HandlerOnPlain'
  BY <1>1, <1>3, ThreadsAssumption, SMTT(40) DEF HandlerOnPlain, Flagged
<1> QED
  BY <1>10, <1>11, <1>12, <1>13, <1>14, <1>15, <1>16, <1>17, <1>18

\* reaper takes the head of the zombieQ.
LEMMA ReaperRemoveStep ==
  ASSUME IInv, NEW c \in Cpus, ReaperRemove(c)
  PROVE  IInv'
<1> DEFINE t == running[c]
<1> USE DEF ReaperRemove, IInv, TypeOK, cpuVars, queueVars, reapVars, OnCpu, Saved
<1> t \in Threads
  OBVIOUS
<1>1. /\ \A u \in Threads : At(u)' = IF u = t THEN "r_look" ELSE At(u)
      /\ \A u \in Threads : (irq[u] = "none")' <=> irq[u] = "none"
      /\ \A u \in Threads : pc'[u] = IF u = t /\ irq[t] = "none" THEN "r_look" ELSE pc[u]
  BY GotoFacts
<1>2. /\ pc' \in [Threads -> Locations]
      /\ irq' \in [Threads -> {"none"} \cup YieldLocs \cup BlockLocs]
  BY PlainFrame, GotoType DEF YieldLocs, BlockLocs, ReapLocs, Locations
<1>3. /\ zombieQ' \in Seq(Threads) /\ IsInjective(zombieQ')
      /\ ToSet(zombieQ) = ToSet(zombieQ') \cup {Head(zombieQ)}
      /\ Head(zombieQ) \in Threads /\ Head(zombieQ) \notin ToSet(zombieQ')
  BY RemoveFacts DEF PlacedOnce, QueuedOnce
<1>10. TypeOK'
  BY <1>2, <1>3
<1>11. OneCpuPerThread'
  BY DEF OneCpuPerThread
<1>12. PlacedOnce'
  BY <1>3, ThreadsAssumption DEF PlacedOnce, QueuedOnce, Placed, InQueue
<1>13. FlagSet'
  BY <1>1, SMTT(40) DEF FlagSet, Flagged
<1>14. PlacedAway'
  BY <1>1, <1>3, SMTT(40) DEF PlacedAway, Placed, InQueue, Blocking, Flagged
<1>15. PreviousSaved'
  BY <1>1, SMTT(40) DEF PreviousSaved, Taking
<1>16. LocalsSet'
  BY <1>1, <1>3, SMTT(40) DEF LocalsSet, Taking, Blocking, Flagged
<1>17. ActiveIsRunning'
  BY <1>1, SMTT(40) DEF ActiveIsRunning, OneCpuPerThread, Flagged
<1>18. HandlerOnPlain'
  BY <1>1, <1>3, SMTT(40) DEF HandlerOnPlain, Flagged
<1> QED
  BY <1>10, <1>11, <1>12, <1>13, <1>14, <1>15, <1>16, <1>17, <1>18

\* reaper leaves a flagged zombie alone.
LEMMA ReaperLeaveAloneStep ==
  ASSUME IInv, NEW c \in Cpus, ReaperLeaveAlone(c)
  PROVE  IInv'
<1> DEFINE t == running[c]
<1> USE DEF ReaperLeaveAlone, IInv, TypeOK, cpuVars, queueVars, reapVars, OnCpu, Saved
<1> t \in Threads
  OBVIOUS
<1>1. /\ \A u \in Threads : At(u)' = IF u = t THEN "r_add" ELSE At(u)
      /\ \A u \in Threads : (irq[u] = "none")' <=> irq[u] = "none"
      /\ \A u \in Threads : pc'[u] = IF u = t /\ irq[t] = "none" THEN "r_add" ELSE pc[u]
  BY GotoFacts
<1>2. /\ pc' \in [Threads -> Locations]
      /\ irq' \in [Threads -> {"none"} \cup YieldLocs \cup BlockLocs]
  BY PlainFrame, GotoType DEF YieldLocs, BlockLocs, ReapLocs, Locations
<1>3. irq[t] = "none" /\ pc[t] = "r_look"
  BY PlainFrame DEF YieldLocs, BlockLocs
<1>10. TypeOK'
  BY <1>2
<1>11. OneCpuPerThread'
  BY DEF OneCpuPerThread
<1>12. PlacedOnce'
  BY DEF PlacedOnce, QueuedOnce, Placed, InQueue
<1>13. FlagSet'
  BY <1>1, SMTT(40) DEF FlagSet, Flagged
<1>14. PlacedAway'
  BY <1>1, SMTT(40) DEF PlacedAway, Placed, InQueue, Blocking, Flagged
<1>15. PreviousSaved'
  BY <1>1, SMTT(40) DEF PreviousSaved, Taking
<1>16. LocalsSet'
  BY <1>1, <1>3, SMTT(40) DEF LocalsSet, Taking, Blocking, Flagged
<1>17. ActiveIsRunning'
  BY <1>1, SMTT(40) DEF ActiveIsRunning, OneCpuPerThread, Flagged
<1>18. HandlerOnPlain'
  BY <1>1, SMTT(40) DEF HandlerOnPlain, Flagged
<1> QED
  BY <1>10, <1>11, <1>12, <1>13, <1>14, <1>15, <1>16, <1>17, <1>18

\* reaper puts a zombie back.
LEMMA ReaperAddStep ==
  ASSUME IInv, NEW c \in Cpus, ReaperAdd(c)
  PROVE  IInv'
<1> DEFINE t == running[c]
<1> USE DEF ReaperAdd, IInv, TypeOK, cpuVars, queueVars, reapVars, OnCpu, Saved
<1> t \in Threads
  OBVIOUS
<1>1. /\ \A u \in Threads : At(u)' = IF u = t THEN "r_remove" ELSE At(u)
      /\ \A u \in Threads : (irq[u] = "none")' <=> irq[u] = "none"
      /\ \A u \in Threads : pc'[u] = IF u = t /\ irq[t] = "none" THEN "r_remove" ELSE pc[u]
  BY GotoFacts
<1>2. /\ pc' \in [Threads -> Locations]
      /\ irq' \in [Threads -> {"none"} \cup YieldLocs \cup BlockLocs]
  BY PlainFrame, GotoType DEF YieldLocs, BlockLocs, ReapLocs, Locations
<1>3. /\ zombieQ' \in Seq(Threads)
      /\ ToSet(zombieQ') = ToSet(zombieQ) \cup {th[t]} /\ IsInjective(zombieQ')
      /\ th[t] \in Threads /\ th[t] \notin ToSet(readyQ)
      /\ NoThread \notin ToSet(zombieQ) \cup ToSet(readyQ)
  <2>1. th[t] \in Threads /\ ~InQueue(th[t])
    BY PlainFrame DEF LocalsSet, Blocking, PlacedOnce, YieldLocs, BlockLocs
  <2> QED
    BY <2>1, AddFacts, ElementsFacts, ThreadsAssumption DEF PlacedOnce, QueuedOnce, InQueue
<1>4. \A u \in Threads : Placed(u)' => Placed(u)
  BY <1>3, ThreadsAssumption DEF Placed, InQueue
<1>5. irq[t] = "none" /\ pc[t] = "r_add"
  BY PlainFrame DEF YieldLocs, BlockLocs
<1>10. TypeOK'
  BY <1>2, <1>3
<1>11. OneCpuPerThread'
  BY DEF OneCpuPerThread
<1>12. PlacedOnce'
  BY <1>3, ThreadsAssumption DEF PlacedOnce, QueuedOnce, Placed, InQueue
<1>13. FlagSet'
  BY <1>1, SMTT(40) DEF FlagSet, Flagged
<1>14. PlacedAway'
  BY <1>1, <1>4 DEF PlacedAway, Blocking, Flagged
<1>15. PreviousSaved'
  BY <1>1, SMTT(40) DEF PreviousSaved, Taking
<1>16. LocalsSet'
  BY <1>1, <1>3, <1>5, ThreadsAssumption, SMTT(40) DEF LocalsSet, Taking, Blocking, Flagged
<1>17. ActiveIsRunning'
  BY <1>1, SMTT(40) DEF ActiveIsRunning, OneCpuPerThread, Flagged
<1>18. HandlerOnPlain'
  BY <1>1, <1>3, ThreadsAssumption, SMTT(40) DEF HandlerOnPlain, Flagged
<1> QED
  BY <1>10, <1>11, <1>12, <1>13, <1>14, <1>15, <1>16, <1>17, <1>18

\* reaper deletes a zombie that is completely saved.
LEMMA ReaperDeleteStep ==
  ASSUME IInv, NEW c \in Cpus, ReaperDelete(c)
  PROVE  IInv'
<1> DEFINE t == running[c]
<1> USE DEF ReaperDelete, IInv, TypeOK, cpuVars, queueVars, reapVars, OnCpu, Saved
<1> t \in Threads
  OBVIOUS
<1> DEFINE d == th[t]
<1>3. irq[t] = "none" /\ pc[t] = "r_look"
  BY PlainFrame DEF YieldLocs, BlockLocs
<1>4. /\ d \in Threads /\ irq[d] = "none" /\ ~leaveMeAlone[d] /\ d # t
      /\ At(d) = "sw_prev" /\ ~OnCpu(d) /\ \A b \in Cpus : previous[b] # d
  BY <1>3, ThreadsAssumption DEF LocalsSet, HandlerOnPlain, PlacedAway, Placed, FlagSet, Flagged,
      Blocking, PreviousSaved
<1>5. /\ ~InQueue(d) /\ \A u \in Threads : next[u] # d /\ (u # t => th[u] # d)
      /\ NoThread \notin ToSet(readyQ) \cup ToSet(zombieQ)
  BY <1>4, ElementsFacts, ThreadsAssumption DEF PlacedOnce
<1>1. /\ \A u \in Threads : At(u)' = IF u = t THEN "r_remove" ELSE IF u = d THEN "new" ELSE At(u)
      /\ \A u \in Threads : pc'[u] = IF u = t THEN "r_remove" ELSE IF u = d THEN "new" ELSE pc[u]
  BY <1>3, <1>4 DEF At
<1>2. pc' \in [Threads -> Locations]
  BY DEF Locations, ReapLocs
<1>6. \A u \in Threads : Placed(u)' => Placed(u) /\ u # d
  BY <1>5, ThreadsAssumption DEF Placed, InQueue
<1>10. TypeOK'
  BY <1>2, <1>4
<1>11. OneCpuPerThread'
  BY DEF OneCpuPerThread
<1>12. PlacedOnce'
  BY <1>5, ThreadsAssumption DEF PlacedOnce, QueuedOnce, Placed, InQueue
<1>13. FlagSet'
  BY <1>1, <1>4, SMTT(40) DEF FlagSet, Flagged
<1>14. PlacedAway'
  BY <1>1, <1>4, <1>6, SMTT(40) DEF PlacedAway, Blocking, Flagged
<1>15. PreviousSaved'
  BY <1>1, <1>4, <1>5, ThreadsAssumption, SMTT(40) DEF PreviousSaved, Taking
<1>16. LocalsSet'
  BY <1>1, <1>4, <1>5, ThreadsAssumption, SMTT(40) DEF LocalsSet, Taking, Blocking, Flagged
<1>17. ActiveIsRunning'
  BY <1>1, <1>4, SMTT(40) DEF ActiveIsRunning, OneCpuPerThread, Flagged
<1>18. HandlerOnPlain'
  BY <1>1, <1>3, <1>4, ThreadsAssumption, SMTT(40) DEF HandlerOnPlain, Flagged
<1> QED
  BY <1>10, <1>11, <1>12, <1>13, <1>14, <1>15, <1>16, <1>17, <1>18

\* thread() makes a new thread ready.
LEMMA SpawnStep ==
  ASSUME IInv, NEW c \in Cpus, Spawn(c)
  PROVE  IInv'
<1> DEFINE t == running[c]
<1> USE DEF IInv, TypeOK, cpuVars, queueVars, reapVars, OnCpu, Saved
<1>3. PICK u \in Threads :
        /\ pc[u] = "new"
        /\ pc' = [pc EXCEPT ![u] = "sw_prev", ![t] = "run"]
        /\ leaveMeAlone' = [leaveMeAlone EXCEPT ![u] = FALSE]
        /\ retAddr' = [retAddr EXCEPT ![u] = "run"]
        /\ readyQ' = Append(readyQ, u)
  BY DEF Spawn
<1>4. /\ t \in Threads /\ irq[t] = "none" /\ At(t) = "t_sched" /\ u # t
      /\ UNCHANGED <<zombieQ, cpuVars, irq, next, reapVars>>
  BY <1>3, PlainFrame DEF Spawn, At, YieldLocs, BlockLocs
<1>5. irq[u] = "none" /\ At(u) = "new" /\ ~OnCpu(u) /\ ~Placed(u)
  BY <1>3 DEF HandlerOnPlain, At, PlacedAway, Blocking
<1>1. /\ \A s \in Threads : At(s)' = IF s = t THEN "run" ELSE IF s = u THEN "sw_prev" ELSE At(s)
      /\ \A s \in Threads : pc'[s] = IF s = t THEN "run" ELSE IF s = u THEN "sw_prev" ELSE pc[s]
  BY <1>3, <1>4, <1>5 DEF At
<1>2. /\ readyQ' \in Seq(Threads) /\ IsInjective(readyQ')
      /\ ToSet(readyQ') = ToSet(readyQ) \cup {u}
  BY <1>3, <1>5, AddFacts DEF PlacedOnce, QueuedOnce, Placed, InQueue
<1>6. \A s \in Threads : Placed(s)' => Placed(s) \/ s = u
  BY <1>2, <1>4 DEF Placed, InQueue
<1>7. \A b \in Cpus : running[b] \in Threads /\ running[b] # u
  BY <1>5
<1>10. TypeOK'
  BY <1>2, <1>3, <1>4 DEF Locations, BlockLocs, Work
<1>11. OneCpuPerThread'
  BY <1>4 DEF OneCpuPerThread
<1>12. PlacedOnce'
  BY <1>2, <1>4, <1>5 DEF PlacedOnce, QueuedOnce, Placed, InQueue
<1>13. FlagSet'
  BY <1>1, <1>3, <1>4, <1>5, SMTT(40) DEF FlagSet, Flagged
<1>14. PlacedAway'
  BY <1>1, <1>4, <1>5, <1>6, SMTT(40) DEF PlacedAway, Blocking
<1>15. PreviousSaved'
  BY <1>1, <1>3, <1>4, <1>5, SMTT(40) DEF PreviousSaved, Taking
<1>16. LocalsSet'
  BY <1>1, <1>3, <1>4, <1>5, SMTT(40) DEF LocalsSet, Taking, Blocking
<1>17. ActiveIsRunning'
  BY <1>1, <1>4, <1>7, SMTT(40) DEF ActiveIsRunning
<1>18. HandlerOnPlain'
  BY <1>1, <1>4, <1>5 DEF HandlerOnPlain, Flagged
<1> QED
  BY <1>10, <1>11, <1>12, <1>13, <1>14, <1>15, <1>16, <1>17, <1>18

\* Without a free address thread() only returns.
LEMMA SpawnBoundStep ==
  ASSUME IInv, NEW c \in Cpus, SpawnBound(c)
  PROVE  IInv'
<1> DEFINE t == running[c]
<1> USE DEF SpawnBound, IInv, TypeOK, cpuVars, queueVars, reapVars, OnCpu, Saved
<1> t \in Threads
  OBVIOUS
<1>1. /\ \A u \in Threads : At(u)' = IF u = t THEN "run" ELSE At(u)
      /\ \A u \in Threads : (irq[u] = "none")' <=> irq[u] = "none"
      /\ \A u \in Threads : pc'[u] = IF u = t /\ irq[t] = "none" THEN "run" ELSE pc[u]
  BY GotoFacts
<1>2. /\ pc' \in [Threads -> Locations]
      /\ irq' \in [Threads -> {"none"} \cup YieldLocs \cup BlockLocs]
  BY PlainFrame, GotoType DEF YieldLocs, BlockLocs, ReapLocs, Locations, Work
<1>10. TypeOK'
  BY <1>2
<1>11. OneCpuPerThread'
  BY DEF OneCpuPerThread
<1>12. PlacedOnce'
  BY DEF PlacedOnce, QueuedOnce, Placed, InQueue
<1>13. FlagSet'
  BY <1>1, SMTT(40) DEF FlagSet, Flagged
<1>14. PlacedAway'
  BY <1>1, SMTT(40) DEF PlacedAway, Placed, InQueue, Blocking, Flagged
<1>15. PreviousSaved'
  BY <1>1, SMTT(40) DEF PreviousSaved, Taking
<1>16. LocalsSet'
  BY <1>1, SMTT(40) DEF LocalsSet, Taking, Blocking, Flagged
<1>17. ActiveIsRunning'
  BY <1>1, SMTT(40) DEF ActiveIsRunning, OneCpuPerThread, Flagged
<1>18. HandlerOnPlain'
  BY <1>1, SMTT(40) DEF HandlerOnPlain, Flagged
<1> QED
  BY <1>10, <1>11, <1>12, <1>13, <1>14, <1>15, <1>16, <1>17, <1>18

-----------------------------------------------------------------------------
\* The start satisfies the invariant: the readyQ holds the Reaper, the
\* processors run their boot threads.
LEMMA InitInv ==
  ASSUME SchedInit
  PROVE  IInv
<1> USE ThreadsAssumption DEF SchedInit
<1>1. /\ readyQ \in Seq(Threads) /\ ToSet(readyQ) = {Reaper} /\ IsInjective(readyQ)
      /\ zombieQ \in Seq(Threads) /\ ToSet(zombieQ) = {} /\ IsInjective(zombieQ)
  BY SingletonFacts, EmptyFacts
<1>2. /\ At(Reaper) = "sw_prev" /\ ~OnCpu(Reaper)
      /\ \A t \in Threads \ {Reaper} : At(t) \in {"run", "new"} /\ (OnCpu(t) => At(t) = "run")
      /\ \A t \in Threads : ~(\E u \in Threads : t \in {next[u], th[u]})
  BY DEF At, OnCpu
<1>3. TypeOK
  BY <1>1 DEF TypeOK, Locations, Work, BlockLocs
<1>4. OneCpuPerThread
  BY DEF OneCpuPerThread
<1>5. PlacedOnce
  BY <1>1 DEF PlacedOnce, QueuedOnce, InQueue
<1>6. FlagSet
  BY <1>2 DEF FlagSet, Flagged
<1>7. PlacedAway
  BY <1>1, <1>2 DEF PlacedAway, Placed, InQueue, Saved
<1>8. PreviousSaved
  BY DEF PreviousSaved
<1>9. LocalsSet
  BY <1>2 DEF LocalsSet, Blocking, Taking
<1>10. ActiveIsRunning
  BY <1>2 DEF ActiveIsRunning
<1>11. HandlerOnPlain
  BY DEF HandlerOnPlain, OnCpu
<1> QED
  BY <1>3, <1>4, <1>5, <1>6, <1>7, <1>8, <1>9, <1>10, <1>11 DEF IInv

\* Every step of every processor keeps it.
LEMMA StepInv ==
  ASSUME IInv, [SchedNext]_schedVars
  PROVE  IInv'
<1>1. CASE UNCHANGED schedVars
  BY <1>1 DEF schedVars, IInv, TypeOK, OneCpuPerThread, PlacedOnce, QueuedOnce, InQueue,
     FlagSet, PlacedAway, Placed, PreviousSaved, LocalsSet, ActiveIsRunning, HandlerOnPlain,
     Saved, OnCpu, At
<1>2. ASSUME NEW c \in Cpus, Timer(c) PROVE IInv'
  BY <1>2, TimerStep
<1>3. ASSUME NEW c \in Cpus, Call(c) PROVE IInv'
  BY <1>3, YieldCallStep, StopCallStep, ReaperCallStep DEF Call
<1>4. ASSUME NEW c \in Cpus, Kernel(c) PROVE IInv'
  <2>1. CASE YieldSet(c) \/ YieldAdd(c)
    BY <2>1, YieldSetStep, YieldAddStep
  <2>2. CASE \/ BlockRemove(c) \/ BlockMeetsItself(c) \/ BlockLeaveAlone(c)
             \/ BlockRequeue(c) \/ BlockTake(c) \/ BlockActivate(c)
    BY <2>2, BlockRemoveStep, BlockMeetsItselfStep, BlockLeaveAloneStep, BlockRequeueStep,
       BlockTakeStep, BlockActivateStep
  <2>3. CASE ContextSwitch(c) \/ ClearPrevious(c) \/ ClearCurrent(c)
    BY <2>3, ContextSwitchStep, ClearPreviousStep, ClearCurrentStep
  <2>4. CASE StopAdd(c) \/ ReaperCall(c) \/ Spawn(c) \/ SpawnBound(c)
    BY <2>4, StopAddStep, ReaperCallStep, SpawnStep, SpawnBoundStep
  <2>5. CASE \/ ReaperEmpty(c) \/ ReaperRemove(c) \/ ReaperMeetsFirst(c)
             \/ ReaperLeaveAlone(c) \/ ReaperAdd(c) \/ ReaperDelete(c)
    BY <2>5, ReaperEmptyStep, ReaperRemoveStep, ReaperMeetsFirstStep, ReaperLeaveAloneStep,
       ReaperAddStep, ReaperDeleteStep
  <2> QED BY <1>4, <2>1, <2>2, <2>3, <2>4, <2>5 DEF Kernel
<1> QED BY <1>1, <1>2, <1>3, <1>4 DEF SchedNext

\* The inductive invariant holds in every reachable state of the scheduler.
THEOREM SchedulerInvariant == SchedSpec => []IInv
<1>1. SchedInit => IInv
  BY InitInv
<1>2. IInv /\ [SchedNext]_schedVars => IInv'
  BY StepInv
<1> QED BY <1>1, <1>2, PTL DEF SchedSpec

-----------------------------------------------------------------------------
\* A queued thread is flagged or saved.
LEMMA InvProtects ==
  ASSUME IInv
  PROVE  FlagProtects
<1> SUFFICES ASSUME NEW t \in ToSet(readyQ) \cup ToSet(zombieQ)
             PROVE  leaveMeAlone[t] \/ Saved(t)
  BY DEF FlagProtects
<1>1. t \in Threads
  BY ElementsFacts DEF IInv, TypeOK
<1> QED BY <1>1 DEF IInv, PlacedAway, Placed, InQueue, FlagSet, Flagged, Blocking

\* activeThreads is wrong only while the timer cannot yield.
LEMMA InvTimer ==
  ASSUME IInv
  PROVE  TimerOnRunner
BY DEF IInv, TypeOK, TimerOnRunner, InterruptsOn, ActiveIsRunning, LocalsSet, Taking

\* A deleted thread is neither placed nor on a processor.
LEMMA InvFreed ==
  ASSUME IInv
  PROVE  NoFreedThread
<1> SUFFICES ASSUME NEW t \in Threads, pc[t] = "new"
             PROVE  /\ t \notin ToSet(readyQ) \cup ToSet(zombieQ)
                    /\ \A c \in Cpus : t \notin {running[c], activeThreads[c], previous[c]}
                    /\ \A u \in Threads : t \notin {next[u], th[u]}
  BY DEF NoFreedThread
<1>1. At(t) = "new"
  BY DEF IInv, HandlerOnPlain, At
<1>2. ~Placed(t)
  BY <1>1 DEF IInv, PlacedAway, Blocking, Saved
<1>3. \A c \in Cpus : t # running[c] /\ t # previous[c]
  BY <1>1, ThreadsAssumption DEF IInv, HandlerOnPlain, OnCpu, PreviousSaved, Saved
<1>4. \A c \in Cpus : t # activeThreads[c]
  BY <1>2, <1>3 DEF IInv, TypeOK, ActiveIsRunning, Placed
<1> QED BY <1>2, <1>3, <1>4 DEF Placed, InQueue

\* contextSwitch resumes the thread that block has taken, which is saved.
LEMMA ResumeStep ==
  ASSUME IInv, SchedNext, NEW c \in Cpus, running'[c] # running[c]
  PROVE  Saved(running'[c])
<1>1. PICK d \in Cpus : ContextSwitch(d)
  BY DEF SchedNext, cpuVars, Timer, Call, Kernel, YieldCall, YieldSet, YieldAdd,
     BlockRemove, BlockMeetsItself, BlockLeaveAlone, BlockRequeue, BlockTake, BlockActivate,
     ClearPrevious, ClearCurrent, StopCall, StopAdd, ReaperCall, ReaperEmpty, ReaperRemove,
     ReaperMeetsFirst, ReaperLeaveAlone, ReaperAdd, ReaperDelete, Spawn, SpawnBound
<1>2. c = d /\ running'[c] = next[running[d]]
  BY <1>1 DEF ContextSwitch, IInv, TypeOK
<1> QED BY <1>1, <1>2 DEF ContextSwitch, IInv, TypeOK, LocalsSet, Taking

-----------------------------------------------------------------------------
\* The scheduler's variables keep their types.
THEOREM TypeCorrect == SchedSpec => []TypeOK
<1>1. IInv => TypeOK
  BY DEF IInv
<1> QED BY <1>1, SchedulerInvariant, PTL

\* Whatever the number of processors, threads and interrupts, two processors
\* never execute on the stack of the same thread.
THEOREM StacksExclusive == SchedSpec => []OneCpuPerThread
<1>1. IInv => OneCpuPerThread
  BY DEF IInv
<1> QED BY <1>1, SchedulerInvariant, PTL

\* The check and the store of leaveMeAlone in yield are no race: a queued thread
\* is flagged or saved.
THEOREM YieldIsNoRace == SchedSpec => []FlagProtects
BY InvProtects, SchedulerInvariant, PTL

\* The intrusive link of a thread is used by one queue at a time.
THEOREM LinksExclusive == SchedSpec => []QueuedOnce
<1>1. IInv => QueuedOnce
  BY DEF IInv, PlacedOnce
<1> QED BY <1>1, SchedulerInvariant, PTL

\* A timer interrupt that yields does so for the thread it interrupted.
THEOREM TimerYieldsForRunner == SchedSpec => []TimerOnRunner
BY InvTimer, SchedulerInvariant, PTL

\* No queue, processor or local variable refers to a deleted thread.
THEOREM NoUseAfterDelete == SchedSpec => []NoFreedThread
BY InvFreed, SchedulerInvariant, PTL

\* A processor never changes to a stack that is in use or not yet saved.
THEOREM OnlySavedStacksResume == SchedSpec => ResumesSaved
<1>1. ASSUME IInv, SchedNext, NEW c \in Cpus, running'[c] # running[c]
      PROVE  Saved(running'[c])
  BY <1>1, ResumeStep
<1>2. IInv /\ [SchedNext]_schedVars
        => [\A c \in Cpus : running'[c] # running[c] => Saved(running'[c])]_schedVars
  BY <1>1
<1> QED BY <1>2, SchedulerInvariant, PTL DEF SchedSpec, ResumesSaved

-----------------------------------------------------------------------------
(***************************************************************************)
(* Why a thread that has stopped never runs again: the control of every    *)
(* thread (which steps move a thread, and where to), which threads a step   *)
(* makes ready or takes out of the queues, and the invariant StopInv; and, *)
(* with one processor, why the reapers find every one of them.             *)
(***************************************************************************)

(***************************************************************************)
(* Beside IInv: where a stopped thread is, until it is deleted.            *)
(***************************************************************************)
Away(t)     == At(t) \in Blocking \/ Saved(t)
Ended(t)    == retAddr[t] = "s_end" /\ pc[t] # "new"
Runnable(t) == t \in ToSet(readyQ) \/ \E u \in Threads : next[u] = t
Zombie(t)   == t \in ToSet(zombieQ) \/ \E u \in Threads : th[u] = t

\* Nothing but the reapers can get at a stopped thread, and they at no other.
StoppedStays ==
  /\ \A t \in Threads :
       Ended(t) => irq[t] = "none" /\ (pc[t] = "s_add" \/ Away(t)) /\ ~Runnable(t)
  /\ \A t \in Threads : Zombie(t) \/ pc[t] = "s_add" => Ended(t)
  /\ retAddr[Reaper] = "run"

\* A thread that is on no processor is saved, or deleted.
OffIsSaved == \A t \in Threads : ~OnCpu(t) => At(t) \in {"sw_prev", "new"}

\* block's next and reaper's th are null where they hold no thread.
LocalsClear ==
  \A t \in Threads :
    /\ next[t] # NoThread => At(t) \in Blocking \ {"b_remove"}
    /\ th[t] # NoThread => pc[t] \in {"r_look", "r_add"}

StopInv == StopNeverReturns /\ StoppedStays /\ OffIsSaved /\ LocalsClear

(***************************************************************************)
(* Beside StopInv: whose flag is set, and so which zombie a reaper leaves  *)
(* alone.                                                                  *)
(***************************************************************************)

\* A saved thread has its flag set only from the taking in block to the switch to it,
\* and from the switch away from it to the store that follows on the new stack.
FlagClear ==
  /\ \A t \in Threads : Saved(t) /\ leaveMeAlone[t] =>
       \/ \E c \in Cpus : previous[c] = t
       \/ \E u \in Threads : next[u] = t /\ At(u) \in Taking
  /\ \A c \in Cpus : previous[c] # NoThread => At(running[c]) = "sw_prev"

\* No stopped thread is out of the reach of the reapers.
EndedKept == \A t \in Threads : Ended(t) => pc[t] = "s_add" \/ Zombie(t)

\* With one processor no zombie is flagged while a reaper looks at it.
OneCpu  == \A c, d \in Cpus : c = d
ReapInv == FlagClear /\ (OneCpu => EndedKept)

-----------------------------------------------------------------------------
\* The thread stays where it is.
Same(u) == pc'[u] = pc[u] /\ irq'[u] = irq[u] /\ retAddr'[u] = retAddr[u]

\* The thread has got to a location in the frame it executes.
GotTo(t, loc) ==
  /\ retAddr'[t] = retAddr[t]
  /\ \/ irq[t] = "none" /\ irq'[t] = "none" /\ pc'[t] = loc
     \/ irq[t] # "none" /\ irq'[t] = loc /\ pc'[t] = pc[t]

\* block gives up or a switch ends: back to the caller, or out of the handler.
Returns(t) ==
  /\ At(t) = "sw_curr" \/ (At(t) = "b_look" /\ next[t] = t)
  /\ irq'[t] = "none" /\ retAddr'[t] = retAddr[t]
  /\ pc'[t] = IF irq[t] = "none" THEN retAddr[t] ELSE pc[t]

\* The timer interrupts the thread.
Interrupted(t) ==
  /\ irq[t] = "none" /\ irq'[t] = "y_set"
  /\ pc[t] \notin SpinLocked \cup Flagged \cup {"sw_prev", "new"}
  /\ pc'[t] = pc[t] /\ retAddr'[t] = retAddr[t]

\* A step outside yield and block.
Works(t) ==
  /\ irq[t] = "none" /\ irq'[t] = "none"
  /\ \/ pc[t] \in Work /\ t # Reaper /\ pc'[t] = "y_set" /\ retAddr'[t] = pc[t]
     \/ pc[t] = "run" /\ t # Reaper /\ pc'[t] = "s_add" /\ retAddr'[t] = "s_end"
     \/ pc[t] = "run" /\ pc'[t] = "r_remove" /\ retAddr'[t] = retAddr[t]
     \/ /\ pc[t] \in ReapLocs /\ retAddr'[t] = retAddr[t]
        /\ pc'[t] \in ReapLocs \cup {"run"} \/ (pc'[t] = "y_set" /\ t = Reaper)
     \/ pc[t] = "s_add" /\ pc'[t] = "b_remove" /\ retAddr'[t] = retAddr[t]

\* A step of yield, of block or of the two halves of a switch.
Moves(t) ==
  \/ At(t) = "y_set" /\ GotTo(t, "y_add")
  \/ At(t) = "y_add" /\ GotTo(t, "b_remove")
  \/ At(t) \in Blocking \ {"b_switch"} /\ \E loc \in Blocking : GotTo(t, loc)
  \/ At(t) = "b_switch" /\ GotTo(t, "sw_prev")
  \/ At(t) = "sw_prev" /\ GotTo(t, "sw_curr")

\* The reaper on t deletes u; a new thread u is made.
Gone(t, u) ==
  /\ At(t) = "r_look" /\ th[t] = u /\ Saved(u)
  /\ pc'[u] = "new" /\ irq'[u] = irq[u] /\ retAddr'[u] = retAddr[u]
Born(u) ==
  /\ pc[u] = "new" /\ pc'[u] = "sw_prev" /\ irq[u] = "none" /\ irq'[u] = "none"
  /\ retAddr'[u] = "run"

\* All that a step of t does to the control of the threads.
Control(t) ==
  /\ Interrupted(t) \/ Works(t) \/ Moves(t) \/ Returns(t)
  /\ \A u \in Threads \ {t} : Same(u) \/ Gone(t, u) \/ Born(u)

\* Goto moves one thread, in the frame it executes.
LEMMA GotToFacts ==
  ASSUME TypeOK, NEW t \in Threads, NEW loc, Goto(t, loc), loc # "none", UNCHANGED retAddr
  PROVE  GotTo(t, loc) /\ \A u \in Threads \ {t} : Same(u)
BY DEF TypeOK, Goto, GotTo, Same

\* Every step of the scheduler moves the threads in one of the ways above.
LEMMA ControlFacts ==
  ASSUME IInv, NEW c \in Cpus, Timer(c) \/ Call(c) \/ Kernel(c)
  PROVE  Control(running[c])
<1> DEFINE t == running[c]
<1>0. t \in Threads /\ TypeOK
  BY DEF IInv, TypeOK
<1>1. CASE Timer(c)
  <2>1. irq[t] = "none" /\ pc[t] \notin SpinLocked \cup Flagged \cup {"sw_prev", "new"}
    BY <1>1, <1>0 DEF Timer, IInv, InterruptsOn, ActiveIsRunning, LocalsSet, Taking, FlagSet, At, 
       Flagged, HandlerOnPlain, OnCpu, PreviousSaved
  <2> QED BY <1>0, <1>1, <2>1 DEF Timer, Control, Interrupted, Same, TypeOK
<1>2. CASE YieldCall(c)
  <2>1. irq[t] = "none"
    BY <1>0, <1>2, PlainFrame DEF YieldCall, Work, YieldLocs, BlockLocs
  <2> QED BY <1>0, <1>2, <2>1 DEF YieldCall, Control, Works, Same, TypeOK, At
<1>3. CASE StopCall(c)
  <2>1. irq[t] = "none"
    BY <1>0, <1>3, PlainFrame DEF StopCall, YieldLocs, BlockLocs
  <2> QED BY <1>0, <1>3, <2>1 DEF StopCall, Control, Works, Same, TypeOK, At, Goto
<1>4. CASE ReaperCall(c)
  <2>1. irq[t] = "none"
    BY <1>0, <1>4, PlainFrame DEF ReaperCall, YieldLocs, BlockLocs
  <2> QED BY <1>0, <1>4, <2>1 DEF ReaperCall, Control, Works, Same, TypeOK, At, Goto
<1>5. CASE StopAdd(c)
  <2>1. irq[t] = "none"
    BY <1>0, <1>5, PlainFrame DEF StopAdd, YieldLocs, BlockLocs
  <2> QED BY <1>0, <1>5, <2>1 DEF StopAdd, Control, Works, Same, TypeOK, At, Goto
<1>6. CASE \/ ReaperEmpty(c) \/ ReaperRemove(c) \/ ReaperMeetsFirst(c)
           \/ ReaperLeaveAlone(c) \/ ReaperAdd(c) \/ SpawnBound(c)
  <2>0. At(t) \in ReapLocs
    BY <1>6 DEF ReaperEmpty, ReaperRemove, ReaperMeetsFirst, ReaperLeaveAlone, ReaperAdd,
        SpawnBound, ReapLocs
  <2>1. irq[t] = "none" /\ pc[t] = At(t)
    BY <1>0, <2>0, PlainFrame DEF YieldLocs, BlockLocs, ReapLocs
  <2>2. UNCHANGED retAddr /\ \/ \E loc \in ReapLocs \cup {"run"} : Goto(t, loc)
                             \/ t = Reaper /\ Goto(t, "y_set")
    BY <1>6 DEF ReaperEmpty, ReaperRemove, ReaperMeetsFirst, ReaperLeaveAlone, ReaperAdd,
        SpawnBound, ReapLocs, ReaperReturn
  <2> QED BY <1>0, <2>0, <2>1, <2>2 DEF Control, Works, Same, TypeOK, Goto
<1>7. CASE \/ YieldSet(c) \/ YieldAdd(c) \/ ContextSwitch(c) \/ ClearPrevious(c)
  BY <1>0, <1>7, GotToFacts DEF YieldSet, YieldAdd, ContextSwitch, ClearPrevious, Control, Moves
<1>8. CASE \/ BlockRemove(c) \/ BlockLeaveAlone(c) \/ BlockRequeue(c) \/ BlockTake(c) \/ BlockActivate(c)
  <2>1. At(t) \in Blocking \ {"b_switch"} /\ UNCHANGED retAddr /\ \E loc \in Blocking : Goto(t, loc)
    BY <1>8 DEF BlockRemove, BlockLeaveAlone, BlockRequeue, BlockTake, BlockActivate, Blocking
  <2> QED BY <1>0, <2>1, GotToFacts DEF Control, Moves, Blocking
<1>9. CASE BlockMeetsItself(c) \/ ClearCurrent(c)
  BY <1>0, <1>9 DEF BlockMeetsItself, ClearCurrent, ReturnFromBlock, Control, Returns, Same,
      TypeOK, cpuVars
<1>10. CASE ReaperDelete(c)
  <2>1. irq[t] = "none" /\ pc[t] = "r_look"
    BY <1>0, <1>10, PlainFrame DEF ReaperDelete, YieldLocs, BlockLocs
  <2>2. th[t] \in Threads /\ th[t] # t
    BY <2>1, <1>0 DEF IInv, LocalsSet, PlacedAway, Placed, At, Blocking, Saved
  <2>5. Saved(th[t])
    BY <1>0, <1>10, <2>2 DEF ReaperDelete, IInv, PlacedAway, Placed, FlagSet, Flagged, Blocking
  <2>3. Works(t)
    BY <1>0, <1>10, <2>1 DEF ReaperDelete, Works, TypeOK, ReapLocs
  <2>4. \A u \in Threads \ {t} : Same(u) \/ Gone(t, u)
    BY <1>0, <1>10, <2>1, <2>2, <2>5 DEF ReaperDelete, Same, Gone, TypeOK, At
  <2> QED BY <2>3, <2>4 DEF Control
<1>11. CASE Spawn(c)
  <2>1. irq[t] = "none" /\ pc[t] = "t_sched"
    BY <1>0, <1>11, PlainFrame DEF Spawn, YieldLocs, BlockLocs
  <2>2. PICK u \in Threads : /\ pc[u] = "new"
                             /\ pc' = [pc EXCEPT ![u] = "sw_prev", ![t] = "run"]
                             /\ retAddr' = [retAddr EXCEPT ![u] = "run"]
                             /\ irq' = irq
    BY <1>11 DEF Spawn
  <2>3. u # t /\ irq[u] = "none"
    BY <2>1, <2>2 DEF IInv, HandlerOnPlain
  <2>4. Works(t)
    BY <1>0, <2>1, <2>2, <2>3 DEF Works, TypeOK, ReapLocs
  <2>5. \A s \in Threads \ {t} : Same(s) \/ Born(s)
    BY <1>0, <2>2, <2>3 DEF Same, Born, TypeOK
  <2> QED BY <2>4, <2>5 DEF Control
<1> QED BY <1>1, <1>2, <1>3, <1>4, <1>5, <1>6, <1>7, <1>8, <1>9, <1>10, <1>11 DEF Call, Kernel

\* Which processor runs what.
LEMMA RunningFacts ==
  ASSUME IInv, NEW c \in Cpus, Timer(c) \/ Call(c) \/ Kernel(c)
  PROVE  running' = IF At(running[c]) = "b_switch"
                    THEN [running EXCEPT ![c] = next[running[c]]] ELSE running
<1> USE DEF cpuVars, queueVars, reapVars
<1>1. CASE Timer(c)
  BY <1>1 DEF Timer, InterruptsOn, At, IInv, TypeOK, ActiveIsRunning, FlagSet, LocalsSet, Taking,
      Flagged
<1>2. CASE Call(c)
  BY <1>2 DEF Call, YieldCall, StopCall, ReaperCall, Work
<1>3. CASE Kernel(c)
  BY <1>3 DEF Kernel, YieldSet, YieldAdd, BlockRemove, BlockMeetsItself, BlockLeaveAlone,
     BlockRequeue, BlockTake, BlockActivate, ContextSwitch, ClearPrevious, ClearCurrent,
     StopAdd, ReaperCall, ReaperEmpty, ReaperRemove, ReaperMeetsFirst, ReaperLeaveAlone,
     ReaperAdd, ReaperDelete, Spawn, SpawnBound
<1> QED BY <1>1, <1>2, <1>3

\* Only thread() and delete touch a thread that does not run.
LEMMA OthersStay ==
  ASSUME TypeOK, NEW c \in Cpus, Timer(c) \/ Call(c) \/ Kernel(c), ~Spawn(c), ~ReaperDelete(c)
  PROVE  \A u \in Threads \ {running[c]} : pc'[u] = pc[u]
<1> DEFINE t == running[c]
<1>1. CASE \/ \E loc \in Locations : Goto(t, loc)
           \/ ReturnFromBlock(t) \/ pc' = pc \/ pc' = [pc EXCEPT ![t] = "y_set"]
  BY <1>1 DEF Goto, ReturnFromBlock, TypeOK
<1>2. CASE Timer(c) \/ Call(c)
  <2>1. pc' = pc \/ pc' = [pc EXCEPT ![t] = "y_set"] \/ Goto(t, "s_add") \/ Goto(t, "r_remove")
    BY <1>2 DEF Timer, Call, YieldCall, StopCall, ReaperCall
  <2> QED BY <1>1, <2>1 DEF Locations, ReapLocs
<1>3. CASE Kernel(c)
  <2>1. \/ Goto(t, "y_add") \/ Goto(t, "b_remove") \/ Goto(t, "b_look") \/ Goto(t, "b_requeue")
        \/ Goto(t, "b_active") \/ Goto(t, "b_switch") \/ Goto(t, "sw_prev") \/ Goto(t, "sw_curr")
        \/ Goto(t, "r_remove") \/ Goto(t, "r_look") \/ Goto(t, "r_add") \/ Goto(t, "t_sched")
        \/ Goto(t, "y_set") \/ Goto(t, "run") \/ ReturnFromBlock(t)
    BY <1>3 DEF Kernel, YieldSet, YieldAdd, BlockRemove, BlockMeetsItself, BlockLeaveAlone,
     BlockRequeue, BlockTake, BlockActivate, ContextSwitch, ClearPrevious, ClearCurrent,
     StopAdd, ReaperCall, ReaperEmpty, ReaperRemove, ReaperMeetsFirst, ReaperLeaveAlone,
     ReaperAdd, SpawnBound, ReaperReturn
  <2> QED BY <1>1, <2>1 DEF Locations, ReapLocs, YieldLocs, BlockLocs, Work
<1> QED BY <1>2, <1>3

\* Who comes to the readyQ and to the locals of block, and who leaves them.
Readies(c) == LET t == running[c] IN
  /\ \A u \in Threads : Runnable(u)' => Runnable(u) \/ (u = t /\ At(t) = "y_add") \/ Born(u)
  /\ \A u \in Threads : Runnable(u) =>
       Runnable(u)' \/ (At(t) = "b_switch" /\ u = next[t]) \/ (u = t /\ Returns(t))
  /\ \A u \in Threads : u = t /\ At(t) = "y_add" => Runnable(u)'
  /\ \A u \in Threads \ {t} : Born(u) => Runnable(u)'

\* A thread becomes runnable in yield or when it is made, and stops being so when
\* a processor changes to it or block returns.
LEMMA ReadyFacts ==
  ASSUME IInv, LocalsClear, NEW c \in Cpus, Timer(c) \/ Call(c) \/ Kernel(c)
  PROVE  Readies(c)
<1> DEFINE t == running[c]
<1>0. t \in Threads /\ TypeOK
  BY DEF IInv, TypeOK
<1>1. ASSUME ~Spawn(c), ~ReaperDelete(c), UNCHANGED <<readyQ, next>>, At(t) # "y_add"
      PROVE  Readies(c)
  <2>1. \A u \in Threads : Runnable(u)' <=> Runnable(u)
    BY <1>1 DEF Runnable
  <2>2. \A u \in Threads \ {t} : ~Born(u)
    BY <1>0, <1>1, OthersStay DEF Born
  <2> QED BY <1>1, <2>1, <2>2 DEF Readies
<1>2. ASSUME ReaperDelete(c)
      PROVE  Readies(c)
  <2>1. \A u \in Threads : Runnable(u)' <=> Runnable(u)
    BY <1>2 DEF Runnable, ReaperDelete, queueVars
  <2>2. \A u \in Threads \ {t} : ~Born(u)
    BY <1>0, <1>2 DEF Born, ReaperDelete, TypeOK
  <2> QED BY <1>2, <2>1, <2>2 DEF Readies, ReaperDelete
<1>3. ASSUME Spawn(c)
      PROVE  Readies(c)
  <2>1. PICK u \in Threads : /\ pc[u] = "new" /\ readyQ' = Append(readyQ, u)
                             /\ pc' = [pc EXCEPT ![u] = "sw_prev", ![t] = "run"]
                             /\ retAddr' = [retAddr EXCEPT ![u] = "run"]
                             /\ irq' = irq /\ next' = next /\ At(t) = "t_sched"
    BY <1>3 DEF Spawn
  <2>2. u # t /\ irq[u] = "none"
    BY <2>1 DEF IInv, HandlerOnPlain, At
  <2>3. ToSet(readyQ') = ToSet(readyQ) \cup {u}
    BY <1>0, <2>1, AddFacts DEF TypeOK
  <2>4. \A v \in Threads : Runnable(v)' <=> Runnable(v) \/ v = u
    BY <2>1, <2>3 DEF Runnable
  <2>5. Born(u) /\ \A v \in Threads \ {t} : Born(v) => v = u
    BY <1>0, <2>1, <2>2 DEF Born, TypeOK
  <2> QED BY <2>1, <2>4, <2>5 DEF Readies
<1>4. ASSUME YieldAdd(c)
      PROVE  Readies(c)
  <2>1. At(t) = "y_add" /\ readyQ' = Append(readyQ, t) /\ next' = next /\ ~Spawn(c) /\ ~ReaperDelete(c)
    BY <1>4 DEF YieldAdd, Spawn, ReaperDelete
  <2>2. ToSet(readyQ') = ToSet(readyQ) \cup {t}
    BY <1>0, <2>1, AddFacts DEF TypeOK
  <2>3. \A v \in Threads : Runnable(v)' <=> Runnable(v) \/ v = t
    BY <2>1, <2>2 DEF Runnable
  <2>4. \A u \in Threads \ {t} : ~Born(u)
    BY <1>0, <1>4, <2>1, OthersStay DEF Born
  <2> QED BY <2>1, <2>3, <2>4 DEF Readies
<1>5. ASSUME BlockRemove(c)
      PROVE  Readies(c)
  <2>1. /\ At(t) = "b_remove" /\ readyQ # << >> /\ readyQ' = Tail(readyQ)
        /\ next' = [next EXCEPT ![t] = Head(readyQ)] /\ ~Spawn(c) /\ ~ReaperDelete(c)
    BY <1>5 DEF BlockRemove, Spawn, ReaperDelete
  <2>2. ToSet(readyQ) = ToSet(readyQ') \cup {Head(readyQ)}
    BY <1>0, <2>1, RemoveFacts DEF TypeOK
  <2>3. next'[t] = Head(readyQ) /\ \A v \in Threads \ {t} : next'[v] = next[v]
    BY <1>0, <2>1 DEF TypeOK
  <2>4. \A u \in Threads : Runnable(u)' => Runnable(u)
    BY <2>2, <2>3 DEF Runnable
  <2>5. \A u \in Threads : Runnable(u) => Runnable(u)' \/ next[t] = u
    BY <1>0, <2>2, <2>3 DEF Runnable
  <2>6. next[t] \notin Threads
    BY <1>0, <2>1, ThreadsAssumption DEF LocalsClear
  <2>7. \A u \in Threads \ {t} : ~Born(u)
    BY <1>0, <1>5, <2>1, OthersStay DEF Born
  <2> QED BY <2>1, <2>4, <2>5, <2>6, <2>7 DEF Readies
<1>6. ASSUME BlockMeetsItself(c)
      PROVE  Readies(c)
  <2>1. /\ At(t) = "b_look" /\ next[t] = t /\ readyQ' = readyQ
        /\ next' = [next EXCEPT ![t] = NoThread] /\ ~Spawn(c) /\ ~ReaperDelete(c)
    BY <1>6 DEF BlockMeetsItself, Spawn, ReaperDelete, queueVars
  <2>2. Returns(t)
    BY <1>0, <1>6 DEF BlockMeetsItself, ReturnFromBlock, Returns, TypeOK
  <2>3. \A u \in Threads : Runnable(u) => Runnable(u)' \/ u = t
    BY <1>0, <2>1 DEF Runnable, TypeOK
  <2>4. \A u \in Threads : Runnable(u)' => Runnable(u)
    BY <1>0, <2>1, ThreadsAssumption DEF Runnable, TypeOK
  <2>5. \A u \in Threads \ {t} : ~Born(u)
    BY <1>0, <1>6, <2>1, OthersStay DEF Born
  <2> QED BY <2>1, <2>2, <2>3, <2>4, <2>5 DEF Readies
<1>7. ASSUME BlockRequeue(c)
      PROVE  Readies(c)
  <2>1. /\ At(t) = "b_requeue" /\ readyQ' = Append(readyQ, next[t])
        /\ next' = [next EXCEPT ![t] = NoThread] /\ ~Spawn(c) /\ ~ReaperDelete(c)
    BY <1>7 DEF BlockRequeue, Spawn, ReaperDelete
  <2>2. next[t] \in Threads
    BY <1>0, <2>1 DEF IInv, LocalsSet, Blocking
  <2>3. ToSet(readyQ') = ToSet(readyQ) \cup {next[t]}
    BY <1>0, <2>1, <2>2, AddFacts DEF TypeOK
  <2>4. \A u \in Threads : Runnable(u)' <=> Runnable(u)
    BY <1>0, <2>1, <2>2, <2>3, ThreadsAssumption DEF Runnable, TypeOK
  <2>5. \A u \in Threads \ {t} : ~Born(u)
    BY <1>0, <1>7, <2>1, OthersStay DEF Born
  <2> QED BY <2>1, <2>4, <2>5 DEF Readies
<1>8. ASSUME ContextSwitch(c)
      PROVE  Readies(c)
  <2>1. /\ At(t) = "b_switch" /\ readyQ' = readyQ
        /\ next' = [next EXCEPT ![t] = NoThread] /\ ~Spawn(c) /\ ~ReaperDelete(c)
    BY <1>8 DEF ContextSwitch, Spawn, ReaperDelete, queueVars
  <2>2. \A u \in Threads : Runnable(u) => Runnable(u)' \/ u = next[t]
    BY <1>0, <2>1 DEF Runnable, TypeOK
  <2>3. \A u \in Threads : Runnable(u)' => Runnable(u)
    BY <1>0, <2>1, ThreadsAssumption DEF Runnable, TypeOK
  <2>4. \A u \in Threads \ {t} : ~Born(u)
    BY <1>0, <1>8, <2>1, OthersStay DEF Born
  <2> QED BY <2>1, <2>2, <2>3, <2>4 DEF Readies
<1>9. CASE Timer(c) \/ Call(c)
  <2>1. /\ UNCHANGED <<readyQ, next>> /\ ~Spawn(c) /\ ~ReaperDelete(c) /\ At(t) # "y_add"
    BY <1>9, ControlFacts DEF Timer, Call, YieldCall, StopCall, ReaperCall, Spawn, ReaperDelete,
        queueVars, Work,
       InterruptsOn, At, IInv, TypeOK, ActiveIsRunning, FlagSet, LocalsSet, Taking, Flagged
  <2> QED BY <1>1, <2>1
<1>10. CASE Kernel(c)
  <2>1. CASE UNCHANGED <<readyQ, next>> /\ At(t) # "y_add"
    BY <1>1, <1>2, <1>3, <2>1
  <2> QED BY <1>1, <1>2, <1>3, <1>4, <1>5, <1>6, <1>7, <1>8, <1>10, <2>1
    DEF Kernel, YieldSet, BlockLeaveAlone, BlockTake, BlockActivate, ClearPrevious, ClearCurrent,
     StopAdd, ReaperCall, ReaperEmpty, ReaperRemove, ReaperMeetsFirst, ReaperLeaveAlone,
     ReaperAdd, SpawnBound, queueVars
<1> QED BY <1>9, <1>10

\* What the reapers do to the stopped threads.
Reaps(c) == LET t == running[c] IN
  /\ \A u \in Threads : Zombie(u)' => Zombie(u) \/ (u = t /\ At(t) = "s_add")
  /\ \A u \in Threads : Gone(t, u) => ~Zombie(u)'
  /\ \A u \in Threads : u = t /\ At(t) = "s_add" => Zombie(u)'

\* A thread becomes a zombie in stop only, and a deleted one is none.
LEMMA ReapFacts ==
  ASSUME IInv, LocalsClear, NEW c \in Cpus, Timer(c) \/ Call(c) \/ Kernel(c)
  PROVE  Reaps(c)
<1> DEFINE t == running[c]
<1>0. t \in Threads /\ TypeOK
  BY DEF IInv, TypeOK
<1>1. \A u \in Threads : Zombie(u) => pc[u] # "new"
  BY <1>0, ElementsFacts DEF IInv, Zombie, HandlerOnPlain, PlacedAway, Placed, InQueue, Blocking,
      Saved, At, TypeOK
<1>2. ASSUME ~ReaperDelete(c), NEW u \in Threads, Gone(t, u)
      PROVE  At(t) = "r_look" /\ th[t] = u /\ pc'[u] = "new" /\ pc[u] # "new"
             /\ (u # t => Spawn(c))
  BY <1>0, <1>1, <1>2, OthersStay DEF Gone, Zombie
<1>3. ASSUME ~Spawn(c), ~ReaperDelete(c), UNCHANGED <<zombieQ, th>>, At(t) # "s_add",
             \A u \in Threads : ~Gone(t, u)
      PROVE  Reaps(c)
  <2>1. \A u \in Threads : Zombie(u)' <=> Zombie(u)
    BY <1>3 DEF Zombie
  <2> QED BY <1>3, <2>1 DEF Reaps
<1>4. ASSUME Spawn(c)
      PROVE  Reaps(c)
  <2>1. UNCHANGED <<zombieQ, th>> /\ At(t) = "t_sched"
    BY <1>4 DEF Spawn, reapVars
  <2>2. \A u \in Threads : Zombie(u)' <=> Zombie(u)
    BY <2>1 DEF Zombie
  <2> QED BY <2>1, <2>2 DEF Reaps, Gone
<1>5. ASSUME StopAdd(c)
      PROVE  Reaps(c)
  <2>1. At(t) = "s_add" /\ zombieQ' = Append(zombieQ, t) /\ th' = th
    BY <1>5 DEF StopAdd, reapVars
  <2>2. ToSet(zombieQ') = ToSet(zombieQ) \cup {t}
    BY <1>0, <2>1, AddFacts DEF TypeOK
  <2>3. \A v \in Threads : Zombie(v)' <=> Zombie(v) \/ v = t
    BY <2>1, <2>2 DEF Zombie
  <2> QED BY <2>1, <2>3 DEF Reaps, Gone
<1>6. ASSUME ReaperRemove(c)
      PROVE  Reaps(c)
  <2>1. /\ At(t) = "r_remove" /\ zombieQ # << >> /\ zombieQ' = Tail(zombieQ)
        /\ th' = [th EXCEPT ![t] = Head(zombieQ)]
    BY <1>6 DEF ReaperRemove
  <2>2. ToSet(zombieQ) = ToSet(zombieQ') \cup {Head(zombieQ)}
    BY <1>0, <2>1, RemoveFacts DEF TypeOK
  <2>3. th'[t] = Head(zombieQ) /\ \A v \in Threads \ {t} : th'[v] = th[v]
    BY <1>0, <2>1 DEF TypeOK
  <2>4. \A u \in Threads : Zombie(u)' => Zombie(u)
    BY <2>2, <2>3 DEF Zombie
  <2> QED BY <2>1, <2>4 DEF Reaps, Gone
<1>7. ASSUME ReaperAdd(c)
      PROVE  Reaps(c)
  <2>1. /\ At(t) = "r_add" /\ zombieQ' = Append(zombieQ, th[t])
        /\ th' = [th EXCEPT ![t] = NoThread]
    BY <1>7 DEF ReaperAdd
  <2>2. th[t] \in Threads
    BY <1>0, <2>1, PlainFrame DEF IInv, LocalsSet, YieldLocs, BlockLocs
  <2>3. ToSet(zombieQ') = ToSet(zombieQ) \cup {th[t]}
    BY <1>0, <2>1, <2>2, AddFacts DEF TypeOK
  <2>4. \A u \in Threads : Zombie(u)' <=> Zombie(u)
    BY <1>0, <2>1, <2>2, <2>3, ThreadsAssumption DEF Zombie, TypeOK
  <2> QED BY <2>1, <2>4 DEF Reaps, Gone
<1>8. ASSUME ReaperEmpty(c)
      PROVE  Reaps(c)
  <2>1. /\ At(t) = "r_remove" /\ zombieQ' = zombieQ
        /\ th' = [th EXCEPT ![t] = NoThread]
    BY <1>8 DEF ReaperEmpty, ReaperReturn, queueVars
  <2>2. \A u \in Threads : Zombie(u)' => Zombie(u)
    BY <1>0, <2>1, ThreadsAssumption DEF Zombie, TypeOK
  <2> QED BY <2>1, <2>2 DEF Reaps, Gone
<1>9. ASSUME ReaperMeetsFirst(c) \/ ReaperDelete(c)
      PROVE  Reaps(c)
  <2>1. At(t) = "r_look" /\ zombieQ' = zombieQ /\ th' = [th EXCEPT ![t] = NoThread]
    BY <1>9 DEF ReaperMeetsFirst, ReaperReturn, ReaperDelete, queueVars
  <2>2. th[t] \in Threads
    BY <1>0, <2>1, PlainFrame DEF IInv, LocalsSet, YieldLocs, BlockLocs
  <2>3. ~InQueue(th[t]) /\ \A u \in Threads \ {t} : th[u] # th[t]
    BY <1>0, <2>2, ThreadsAssumption DEF IInv, PlacedOnce
  <2>4. \A u \in Threads : Zombie(u)' <=> Zombie(u) /\ u # th[t]
    BY <1>0, <2>1, <2>2, <2>3, ThreadsAssumption DEF Zombie, InQueue, TypeOK
  <2> QED BY <2>1, <2>4 DEF Reaps, Gone
<1>10. CASE Timer(c) \/ Call(c)
  <2>1. UNCHANGED <<zombieQ, th>> /\ ~Spawn(c) /\ At(t) # "s_add" /\ (At(t) = "r_look" => ~ReaperDelete(c) /\ pc' = pc)
    BY <1>10 DEF Timer, Call, YieldCall, StopCall, ReaperCall, Spawn, ReaperDelete, queueVars,
        reapVars, Work,
       InterruptsOn, At, IInv, TypeOK, ActiveIsRunning, FlagSet, LocalsSet, Taking, Flagged
  <2>2. ~ReaperDelete(c) /\ \A u \in Threads : ~Gone(t, u)
    BY <1>2, <2>1 DEF Gone, ReaperDelete
  <2> QED BY <1>3, <2>1, <2>2
<1>11. CASE ReaperLeaveAlone(c)
  <2>1. UNCHANGED <<zombieQ, th>> /\ At(t) = "r_look" /\ ~ReaperDelete(c) /\ ~Spawn(c) /\ Goto(t, "r_add")
    BY <1>11 DEF ReaperLeaveAlone, ReaperDelete, Spawn, queueVars
  <2>2. pc'[t] # "new" /\ \A u \in Threads : ~Gone(t, u)
    BY <1>0, <1>2, <2>1, PlainFrame DEF YieldLocs, BlockLocs, Goto, TypeOK
  <2> QED BY <1>3, <2>1, <2>2
<1>12. CASE Kernel(c)
  <2>1. CASE UNCHANGED <<zombieQ, th>> /\ At(t) \notin {"s_add", "r_look"} /\ ~ReaperDelete(c)
    BY <1>3, <1>4, <2>1 DEF Gone
  <2> QED BY <1>4, <1>5, <1>6, <1>7, <1>8, <1>9, <1>11, <1>12, <2>1
    DEF Kernel, YieldSet, YieldAdd, BlockRemove, BlockMeetsItself, BlockRequeue, ContextSwitch,
     BlockLeaveAlone, BlockTake, BlockActivate, ClearPrevious, ClearCurrent,
     ReaperCall, SpawnBound, queueVars, reapVars, ReaperDelete
<1> QED BY <1>10, <1>12

\* The locals of block and reaper are cleared with the last use of them.
LEMMA LocalsStep ==
  ASSUME IInv, StoppedStays, LocalsClear, NEW c \in Cpus, Timer(c) \/ Call(c) \/ Kernel(c)
  PROVE  LocalsClear'
<1> DEFINE t == running[c]
<1>0. t \in Threads /\ TypeOK
  BY DEF IInv, TypeOK
<1>1. \A u \in Threads : Gone(t, u) => next[u] = NoThread /\ th[u] = NoThread
  BY <1>0 DEF LocalsClear, Gone, Saved, Blocking, StoppedStays, Zombie, At
<1>2. \A u \in Threads : Born(u) => next[u] = NoThread /\ th[u] = NoThread
  BY <1>0 DEF LocalsClear, Born, Blocking, At
<1>3. ASSUME \A v \in Threads \ {t} : next'[v] = next[v] /\ th'[v] = th[v],
             \A v \in Threads : v = t /\ next'[v] # NoThread => At(v)' \in Blocking \ {"b_remove"},
             \A v \in Threads : v = t /\ th'[v] # NoThread => pc'[v] \in {"r_look", "r_add"}
      PROVE  LocalsClear'
  <2>1. \A v \in Threads \ {t} : Same(v) \/ (next[v] = NoThread /\ th[v] = NoThread)
    BY <1>1, <1>2, ControlFacts DEF Control
  <2>2. \A v \in Threads \ {t} : Same(v) => At(v)' = At(v) /\ pc'[v] = pc[v]
    BY DEF Same, At
  <2>3. ASSUME NEW v \in Threads, v # t
        PROVE  /\ next'[v] # NoThread => At(v)' \in Blocking \ {"b_remove"}
               /\ th'[v] # NoThread => pc'[v] \in {"r_look", "r_add"}
    BY <1>3, <2>1, <2>2, <2>3 DEF LocalsClear
  <2>4. \A v \in Threads : next'[v] # NoThread => At(v)' \in Blocking \ {"b_remove"}
    BY <1>3, <2>3
  <2>5. \A v \in Threads : th'[v] # NoThread => pc'[v] \in {"r_look", "r_add"}
    BY <1>3, <2>3
  <2> QED BY <2>4, <2>5 DEF LocalsClear, Blocking
<1>4. \A v \in Threads : v = t => pc'[v] = pc[v] \/ irq[v] = "none"
  BY <1>0, ControlFacts DEF Control, Interrupted, Works, Moves, GotTo, Returns
<1>5. CASE /\ UNCHANGED <<next, th>>
           /\ At(t) \notin Blocking /\ (pc[t] \in {"r_look", "r_add"} => pc'[t] = pc[t])
  BY <1>0, <1>3, <1>5 DEF LocalsClear
<1>6. CASE \/ Timer(c) \/ Call(c) \/ YieldSet(c) \/ YieldAdd(c) \/ ClearPrevious(c) \/ ClearCurrent(c)
           \/ StopAdd(c) \/ ReaperCall(c) \/ Spawn(c) \/ SpawnBound(c)
  <2>1. UNCHANGED <<next, th>>
    BY <1>6 DEF Timer, Call, YieldCall, YieldSet, YieldAdd, ClearPrevious, ClearCurrent, StopCall,
       StopAdd, ReaperCall, Spawn, SpawnBound, reapVars
  <2>2. CASE Timer(c)
    <3>1. pc' = pc /\ At(t) \notin Blocking
      BY <1>0, <2>2 DEF Timer, InterruptsOn, At, IInv, ActiveIsRunning, FlagSet, LocalsSet,
          Taking, Flagged, Blocking
    <3> QED BY <1>5, <2>1, <3>1
  <2>3. CASE ~Timer(c)
    <3>1. At(t) \notin Blocking \cup {"r_look", "r_add"}
      BY <1>6, <2>3 DEF Call, YieldCall, YieldSet, YieldAdd, ClearPrevious, ClearCurrent, StopCall,
       StopAdd, ReaperCall, Spawn, SpawnBound, Blocking, Work
    <3> QED BY <1>0, <1>4, <1>5, <2>1, <3>1 DEF At
  <2> QED BY <2>2, <2>3
<1>7. CASE BlockLeaveAlone(c) \/ BlockTake(c) \/ BlockActivate(c) \/ BlockRemove(c)
  <2>1. /\ \A v \in Threads \ {t} : next'[v] = next[v]
        /\ th' = th
        /\ At(t) \in Blocking /\ \E loc \in Blocking \ {"b_remove"} : Goto(t, loc)
    BY <1>0, <1>7 DEF BlockLeaveAlone, BlockTake, BlockActivate, BlockRemove, reapVars, Blocking,
        TypeOK
  <2>2. \A v \in Threads : v = t => At(v)' \in Blocking \ {"b_remove"}
    BY <1>0, <2>1, GotoFacts DEF Blocking
  <2>3. \A v \in Threads : v = t => (pc[v] \in {"r_look", "r_add"} => pc'[v] = pc[v])
    BY <1>0, <1>4, <2>1 DEF At, Blocking
  <2>4. \A v \in Threads : v = t => (th'[v] # NoThread => pc'[v] \in {"r_look", "r_add"})
    <3>1. th'[t] # NoThread => pc[t] \in {"r_look", "r_add"}
      BY <1>0, <2>1 DEF LocalsClear
    <3> QED BY <1>0, <2>3, <3>1
  <2> QED BY <1>3, <2>1, <2>2, <2>4
<1>8. CASE BlockMeetsItself(c) \/ BlockRequeue(c) \/ ContextSwitch(c)
  <2>1. /\ next' = [next EXCEPT ![t] = NoThread] /\ th' = th /\ At(t) \in Blocking
    BY <1>8 DEF BlockMeetsItself, BlockRequeue, ContextSwitch, reapVars, Blocking
  <2>2. pc[t] \in {"r_look", "r_add"} => pc'[t] = pc[t]
    BY <1>0, <1>4, <2>1 DEF At, Blocking
  <2> QED BY <1>0, <1>3, <2>1, <2>2 DEF LocalsClear, TypeOK
<1>9. CASE \/ ReaperEmpty(c) \/ ReaperRemove(c) \/ ReaperMeetsFirst(c)
           \/ ReaperLeaveAlone(c) \/ ReaperAdd(c) \/ ReaperDelete(c)
  <2>1. next' = next /\ At(t) \in ReapLocs
    BY <1>9 DEF ReaperEmpty, ReaperRemove, ReaperMeetsFirst, ReaperLeaveAlone, ReaperAdd,
        ReaperDelete, ReapLocs
  <2>2. irq[t] = "none" /\ pc[t] = At(t) /\ next[t] = NoThread
    BY <1>0, <2>1, PlainFrame DEF YieldLocs, BlockLocs, ReapLocs, LocalsClear, Blocking
  <2>3. /\ \A v \in Threads \ {t} : th'[v] = th[v]
        /\ th'[t] = NoThread \/ (ReaperRemove(c) /\ pc'[t] = "r_look")
                             \/ (ReaperLeaveAlone(c) /\ pc'[t] = "r_add")
    BY <1>0, <1>9, <2>2 DEF ReaperEmpty, ReaperRemove, ReaperMeetsFirst, ReaperLeaveAlone,
        ReaperAdd, ReaperDelete,
       ReaperReturn, Goto, TypeOK
  <2> QED BY <1>3, <2>1, <2>2, <2>3
<1> QED BY <1>6, <1>7, <1>8, <1>9 DEF Kernel

\* A stopped thread leaves its processor by itself, and for good.
LEMMA StoppedStep ==
  ASSUME IInv, StopInv, NEW c \in Cpus, Timer(c) \/ Call(c) \/ Kernel(c)
  PROVE  StoppedStays'
<1> DEFINE t == running[c]
<1>0. t \in Threads /\ TypeOK /\ Control(t) /\ Readies(c) /\ Reaps(c) /\ OnCpu(t)
  BY ControlFacts, ReadyFacts, ReapFacts DEF IInv, TypeOK, StopInv, OnCpu
<1>1. ~Runnable(t) \/ At(t) \in Blocking
  BY <1>0 DEF IInv, PlacedAway, Placed, InQueue, Runnable, Saved
<1>2. \A u \in Threads : OnCpu(u)' => OnCpu(u) \/ (At(t) = "b_switch" /\ u = next[t])
  BY <1>0, RunningFacts DEF OnCpu, TypeOK
<1>3. \A u \in Threads : u = t /\ At(u) = "b_switch" => ~OnCpu(u)'
  <2>1. At(t) = "b_switch" => next[t] # t
    BY <1>0 DEF IInv, LocalsSet, Taking, Blocking, Saved
  <2> QED BY <1>0, <2>1, RunningFacts DEF OnCpu, TypeOK, IInv, OneCpuPerThread
<1>4. Ended(t) => irq[t] = "none" /\ (pc[t] = "s_add" \/ At(t) \in Blocking) /\ \A u \in Threads : next[u] # t
  BY <1>0 DEF StopInv, StoppedStays, Away, Saved, Runnable
<1>5. ASSUME NEW u \in Threads, u # t, Ended(u)'
      PROVE  (irq[u] = "none")' /\ (pc[u] = "s_add" \/ Away(u))' /\ ~Runnable(u)'
  <2>1. Same(u) /\ Ended(u)
    BY <1>0, <1>5 DEF Control, Gone, Born, Ended, Same
  <2>2. irq[u] = "none" /\ (pc[u] = "s_add" \/ Away(u)) /\ ~Runnable(u)
    BY <2>1 DEF StopInv, StoppedStays
  <2>3. OnCpu(u)' => OnCpu(u)
    BY <1>0, <1>2, <2>2 DEF Runnable
  <2>4. ~Runnable(u)'
    BY <1>0, <1>5, <2>1, <2>2 DEF Readies, Born, Same, Ended
  <2> QED BY <2>1, <2>2, <2>3, <2>4 DEF Same, Away, Saved, At
<1>6. ASSUME NEW u \in Threads, u = t, Ended(u)'
      PROVE  (irq[u] = "none")' /\ (pc[u] = "s_add" \/ Away(u))' /\ ~Runnable(u)'
  <2>0. ~Born(u) /\ ~Returns(u) /\ ~Interrupted(u)
    <3>1. ~Born(u)
      BY <1>6 DEF Born, Ended
    <3>2. ~Returns(u)
      BY <1>4, <1>6 DEF Returns, Ended, At, Blocking, StopInv, LocalsClear
    <3>3. ~Interrupted(u)
      BY <1>4, <1>6 DEF Interrupted, Ended, At, Blocking, Flagged
    <3> QED BY <3>1, <3>2, <3>3
  <2>1. CASE Works(u)
    <3>1. \/ pc'[u] = "s_add" /\ pc[u] = "run"
          \/ pc[u] = "s_add" /\ pc'[u] = "b_remove" /\ Ended(u)
      BY <1>4, <1>6, <2>1 DEF Works, Ended, At, Blocking, ReapLocs, Work
    <3>2. At(u) = pc[u] /\ At(u)' = pc'[u] /\ irq'[u] = "none"
      BY <2>1 DEF Works, At
    <3>3. ~Runnable(u)'
      BY <1>0, <1>1, <1>6, <2>0, <3>1, <3>2 DEF Readies, Blocking
    <3> QED BY <3>1, <3>2, <3>3 DEF Away, Blocking
  <2>2. CASE Moves(u)
    <3>1. Ended(u) /\ irq[u] = "none" /\ irq'[u] = "none"
      BY <1>4, <1>6, <2>2 DEF Moves, GotTo, Ended, At, Blocking
    <3>2. (At(u) = "b_switch" /\ pc'[u] = "sw_prev") \/ pc'[u] \in Blocking
      BY <1>4, <1>6, <2>2, <3>1 DEF Moves, GotTo, At, Blocking
    <3>3. ~Runnable(u)'
      BY <1>0, <1>4, <1>6, <2>0, <3>1 DEF Readies, StopInv, StoppedStays, At, Blocking
    <3> QED BY <1>3, <1>6, <3>1, <3>2, <3>3 DEF Away, Saved, At
  <2> QED BY <1>0, <1>6, <2>0, <2>1, <2>2 DEF Control
<1>7. ASSUME NEW u \in Threads, Zombie(u)' \/ pc'[u] = "s_add"
      PROVE  Ended(u)'
  <2>1. CASE u # t
    <3>1. ~Gone(t, u) /\ ~Born(u)
      BY <1>0, <1>7, <2>1 DEF Reaps, Gone, Born, StopInv, StoppedStays, Ended
    <3>2. Same(u)
      BY <1>0, <2>1, <3>1 DEF Control
    <3>3. Ended(u)
      BY <1>0, <1>7, <2>1, <3>2 DEF Reaps, Same, StopInv, StoppedStays
    <3> QED BY <3>2, <3>3 DEF Same, Ended
  <2>2. CASE u = t /\ pc'[u] = "s_add"
    <3>1. \/ Works(u) /\ pc[u] = "run"
          \/ pc[u] = "s_add" /\ irq[u] # "none"
      BY <1>0, <2>2 DEF Control, Interrupted, Works, Moves, GotTo, Returns, Flagged, Blocking,
          ReapLocs, Work, TypeOK
    <3>2. ~(pc[u] = "s_add" /\ irq[u] # "none")
      BY DEF IInv, HandlerOnPlain, Flagged
    <3>3. retAddr'[u] = "s_end"
      BY <2>2, <3>1, <3>2 DEF Works, ReapLocs
    <3> QED BY <2>2, <3>3 DEF Ended
  <2>3. CASE u = t /\ Zombie(u)'
    <3>1. Ended(u)
      BY <1>0, <2>3, PlainFrame DEF Reaps, StopInv, StoppedStays, YieldLocs, BlockLocs
    <3>2. pc'[u] # "new" /\ retAddr'[u] = retAddr[u]
      BY <1>0, <1>4, <2>3, <3>1 DEF Control, Interrupted, Works, Moves, GotTo, Returns, Ended,
          Blocking, ReapLocs, Work, At, Flagged
    <3> QED BY <3>1, <3>2 DEF Ended
  <2> QED BY <1>7, <2>1, <2>2, <2>3
<1>8. retAddr'[Reaper] = "run"
  BY <1>0, ThreadsAssumption DEF Control, Interrupted, Works, Moves, GotTo, Returns, Same, Gone,
      Born, StopInv, StoppedStays
<1> QED BY <1>5, <1>6, <1>7, <1>8 DEF StoppedStays

\* block does not return into stop.
LEMMA NeverReturnsStep ==
  ASSUME IInv, StopInv, NEW c \in Cpus, Timer(c) \/ Call(c) \/ Kernel(c)
  PROVE  StopNeverReturns'
<1> DEFINE t == running[c]
<1>0. t \in Threads /\ TypeOK /\ Control(t) /\ OnCpu(t)
  BY ControlFacts DEF IInv, TypeOK, OnCpu
<1> SUFFICES ASSUME NEW u \in Threads, pc'[u] = "s_end" PROVE FALSE
  BY DEF StopNeverReturns
<1>1. pc[u] # "s_end" /\ pc[t] # "new"
  BY <1>0 DEF StopInv, StopNeverReturns, IInv, HandlerOnPlain
<1>2. u = t
  BY <1>0, <1>1 DEF Control, Same, Gone, Born
<1>3. Returns(t) /\ irq[t] = "none" /\ retAddr[t] = "s_end"
  BY <1>0, <1>1, <1>2 DEF Control, Interrupted, Works, Moves, GotTo, Returns, Blocking, ReapLocs
<1>4. At(t) \in Blocking /\ next[t] # t
  BY <1>0, <1>1, <1>3 DEF StopInv, StoppedStays, Ended, Away, Saved, Runnable, Returns, At
<1> QED BY <1>3, <1>4 DEF Returns, Blocking

\* A thread leaves its processor in contextSwitch only.
LEMMA OffIsSavedStep ==
  ASSUME IInv, StopInv, NEW c \in Cpus, Timer(c) \/ Call(c) \/ Kernel(c)
  PROVE  OffIsSaved'
<1> DEFINE t == running[c]
<1>0. t \in Threads /\ TypeOK /\ Control(t) /\ OnCpu(t)
  BY ControlFacts DEF IInv, TypeOK, OnCpu
<1> SUFFICES ASSUME NEW u \in Threads, ~OnCpu(u)'
             PROVE  At(u)' \in {"sw_prev", "new"}
  BY DEF OffIsSaved
<1>1. \/ u = t /\ At(t) = "b_switch"
      \/ u # t /\ ~OnCpu(u)
  BY <1>0, RunningFacts DEF OnCpu, TypeOK
<1>2. CASE u = t /\ At(t) = "b_switch"
  BY <1>0, <1>2 DEF Control, Interrupted, Works, Moves, GotTo, Returns, Flagged, ReapLocs, Work, At
<1>3. CASE u # t /\ ~OnCpu(u)
  <2>1. At(u) \in {"sw_prev", "new"}
    BY <1>3 DEF StopInv, OffIsSaved
  <2>2. Gone(t, u) => irq[u] = "none"
    BY <1>0 DEF Gone, StopInv, StoppedStays, Zombie
  <2> QED BY <1>0, <1>3, <2>1, <2>2 DEF Control, Same, Gone, Born, At
<1> QED BY <1>1, <1>2, <1>3

\* Every step keeps the four parts together.
LEMMA StopStep ==
  ASSUME IInv, StopInv, [SchedNext]_schedVars
  PROVE  StopInv'
<1>1. CASE UNCHANGED schedVars
  BY <1>1 DEF schedVars, StopInv, StopNeverReturns, StoppedStays, OffIsSaved, LocalsClear,
     Ended, Away, Runnable, Zombie, Saved, OnCpu, At
<1>2. ASSUME NEW c \in Cpus, Timer(c) \/ Call(c) \/ Kernel(c)
      PROVE  StopInv'
  BY <1>2, NeverReturnsStep, StoppedStep, OffIsSavedStep, LocalsStep DEF StopInv
<1> QED BY <1>1, <1>2 DEF SchedNext

\* They hold when the machine starts.
LEMMA StopInit ==
  ASSUME SchedInit
  PROVE  StopInv
<1> USE ThreadsAssumption DEF SchedInit
<1>1. ToSet(readyQ) = {Reaper} /\ ToSet(zombieQ) = {}
  BY SingletonFacts, EmptyFacts
<1>2. StopNeverReturns
  BY DEF StopNeverReturns
<1>3. StoppedStays
  BY <1>1 DEF StoppedStays, Ended, Zombie
<1>4. OffIsSaved
  BY DEF OffIsSaved, OnCpu, At
<1>5. LocalsClear
  BY DEF LocalsClear
<1> QED BY <1>2, <1>3, <1>4, <1>5 DEF StopInv

\* Where stopped threads are, in every reachable state of the scheduler.
THEOREM StopInvariant == SchedSpec => [](IInv /\ StopInv)
<1>1. SchedInit => IInv /\ StopInv
  BY InitInv, StopInit
<1>2. IInv /\ StopInv /\ [SchedNext]_schedVars => (IInv /\ StopInv)'
  BY StepInv, StopStep
<1> QED BY <1>1, <1>2, PTL DEF SchedSpec

\* The call of block at the end of stop never returns, on any processor.
THEOREM StopIsFinal == SchedSpec => []StopNeverReturns
<1>1. StopInv => StopNeverReturns
  BY DEF StopInv
<1> QED BY <1>1, StopInvariant, PTL

-----------------------------------------------------------------------------
\* What a step does to the switch that is under way, and to the flags of the threads that
\* do not take it.
Switches(c) == LET t == running[c] IN
  \/ /\ ContextSwitch(c) /\ At(t) = "b_switch"
     /\ previous' = [previous EXCEPT ![c] = t]
     /\ leaveMeAlone' = leaveMeAlone
     /\ \A v \in Threads \ {t} : next'[v] = next[v]
  \/ /\ At(t) = "sw_prev" /\ At(t)' # "sw_prev" /\ next' = next
     /\ previous' = [previous EXCEPT ![c] = NoThread]
     /\ leaveMeAlone' = [leaveMeAlone EXCEPT ![previous[c]] = FALSE]
  \/ /\ At(t) = "b_look" /\ next' = next /\ previous' = previous
     /\ next[t] \in Threads /\ At(t)' = "b_active"
     /\ leaveMeAlone' = [leaveMeAlone EXCEPT ![next[t]] = TRUE]
  \/ /\ At(t) = "b_active" /\ next' = next /\ previous' = previous
     /\ leaveMeAlone' = leaveMeAlone /\ At(t)' = "b_switch"
  \/ /\ At(t) \notin Taking \cup {"sw_prev"} /\ previous' = previous
     /\ \A v \in Threads \ {t} : next'[v] = next[v]
     /\ \A u \in Threads \ {t} : leaveMeAlone'[u] => leaveMeAlone[u]

\* There are no other ways.
LEMMA SwitchesFacts ==
  ASSUME IInv, NEW c \in Cpus, Timer(c) \/ Call(c) \/ Kernel(c)
  PROVE  /\ Switches(c)
         /\ \A u \in Threads \ {running[c]} : Born(u) => ~leaveMeAlone'[u]
<1> DEFINE t == running[c]
<1>0. t \in Threads /\ TypeOK
  BY DEF IInv, TypeOK
<1> USE DEF cpuVars, queueVars, reapVars
<1>1. ASSUME ContextSwitch(c) PROVE Switches(c)
  BY <1>0, <1>1 DEF ContextSwitch, Switches, TypeOK
<1>2. ASSUME ClearPrevious(c) PROVE Switches(c)
  <2>1. At(t)' = "sw_curr"
    BY <1>0, <1>2, GotoFacts DEF ClearPrevious
  <2> QED BY <1>2, <2>1 DEF ClearPrevious, Switches
<1>3. ASSUME BlockTake(c) PROVE Switches(c)
  <2>1. next[t] \in Threads
    BY <1>0, <1>3 DEF BlockTake, IInv, LocalsSet, Blocking
  <2>2. At(t)' = "b_active"
    BY <1>0, <1>3, GotoFacts DEF BlockTake
  <2> QED BY <1>3, <2>1, <2>2 DEF BlockTake, Switches
<1>4. ASSUME BlockActivate(c) PROVE Switches(c)
  <2>1. At(t)' = "b_switch"
    BY <1>0, <1>4, GotoFacts DEF BlockActivate
  <2> QED BY <1>4, <2>1 DEF BlockActivate, Switches
<1>5. ASSUME Spawn(c) \/ ReaperDelete(c) PROVE Switches(c)
  BY <1>0, <1>5 DEF Spawn, ReaperDelete, Switches, Taking, TypeOK
<1>6. ASSUME Timer(c) \/ Call(c) PROVE Switches(c)
  <2>1. At(t) \notin Taking \cup {"sw_prev"}
    <3>1. CASE Timer(c)
      BY <1>0, <3>1 DEF Timer, InterruptsOn, At, IInv, ActiveIsRunning, FlagSet, LocalsSet,
          Taking, Flagged, OnCpu
    <3>2. CASE Call(c)
      BY <3>2 DEF Call, YieldCall, StopCall, ReaperCall, Work, Taking
    <3> QED BY <1>6, <3>1, <3>2
  <2>2. previous' = previous /\ next' = next
    BY <1>6 DEF Timer, Call, YieldCall, StopCall, ReaperCall
  <2>3. \A u \in Threads \ {t} : leaveMeAlone'[u] = leaveMeAlone[u]
    BY <1>0, <1>6 DEF Timer, Call, YieldCall, StopCall, ReaperCall, TypeOK
  <2> QED BY <2>1, <2>2, <2>3 DEF Switches
<1>7. ASSUME Kernel(c), ~ContextSwitch(c), ~ClearPrevious(c), ~BlockTake(c), ~BlockActivate(c),
             ~Spawn(c), ~ReaperDelete(c)
      PROVE  Switches(c)
  <2> USE DEF Kernel, YieldSet, YieldAdd, BlockRemove, BlockMeetsItself, BlockLeaveAlone,
              BlockRequeue, ClearCurrent, StopAdd, ReaperCall, ReaperEmpty, ReaperRemove,
              ReaperMeetsFirst, ReaperLeaveAlone, ReaperAdd, SpawnBound
  <2>1. At(t) \notin Taking \cup {"sw_prev"} /\ previous' = previous
    BY <1>7 DEF Taking
  <2>2. \A v \in Threads \ {t} : next'[v] = next[v]
    BY <1>0, <1>7 DEF TypeOK
  <2>3. \A u \in Threads \ {t} : leaveMeAlone'[u] = leaveMeAlone[u]
    BY <1>0, <1>7 DEF TypeOK
  <2> QED BY <2>1, <2>2, <2>3 DEF Switches
<1>8. Switches(c)
  BY <1>1, <1>2, <1>3, <1>4, <1>5, <1>6, <1>7
<1>9. \A u \in Threads \ {t} : Born(u) => ~leaveMeAlone'[u]
  <2>1. CASE Spawn(c)
    BY <1>0, <2>1 DEF Spawn, Born, TypeOK
  <2>2. CASE ReaperDelete(c)
    BY <1>0, <2>2 DEF ReaperDelete, Born, TypeOK
  <2> QED BY <1>0, <2>1, <2>2, OthersStay DEF Born
<1> QED BY <1>8, <1>9

\* A flag stays clear while its thread is saved and nobody switches to or from it.
LEMMA FlagClearStep ==
  ASSUME IInv, StopInv, FlagClear, NEW c \in Cpus, Timer(c) \/ Call(c) \/ Kernel(c)
  PROVE  FlagClear'
<1> DEFINE t == running[c]
<1>0. t \in Threads /\ TypeOK /\ Control(t) /\ Switches(c)
  BY ControlFacts, SwitchesFacts DEF IInv, TypeOK
<1>1. ASSUME NEW u \in Threads, u # t, Gone(t, u)
      PROVE  ~Saved(u)' /\ ~OnCpu(u)
  BY <1>0, <1>1 DEF Gone, StopInv, StoppedStays, Zombie, Saved, At
<1>2. \A u \in Threads : u = t /\ Saved(u)' => At(t) = "b_switch"
  BY <1>0, RunningFacts DEF Saved, OnCpu, TypeOK
<1>3. \A u \in Threads \ {t} : OnCpu(u) => OnCpu(u)'
  BY <1>0, RunningFacts DEF OnCpu, TypeOK
<1>4. \A u \in Threads \ {t} : At(u) \in Taking \/ OnCpu(u) => At(u)' = At(u)
  <2> SUFFICES ASSUME NEW u \in Threads \ {t}, At(u) \in Taking \/ OnCpu(u)
               PROVE  Same(u)
    BY DEF Same, At
  <2>1. ~Gone(t, u)
    BY <1>1 DEF Gone, Saved, Taking
  <2>2. ~Born(u)
    BY DEF Born, At, Taking, IInv, HandlerOnPlain
  <2> QED BY <1>0, <2>1, <2>2 DEF Control
<1>5. ASSUME NEW u \in Threads, Saved(u)', leaveMeAlone'[u]
      PROVE  \/ \E d \in Cpus : previous'[d] = u
             \/ \E v \in Threads : next'[v] = u /\ At(v)' \in Taking
  <2>1. CASE u = t
    <3>1. previous'[c] = t
      BY <1>0, <1>2, <1>5, <2>1 DEF Switches, Taking, TypeOK
    <3> QED BY <2>1, <3>1
  <2>2. CASE u # t
    <3>1. Same(u) /\ Saved(u)
      BY <1>0, <1>1, <1>3, <1>5, <2>2, SwitchesFacts DEF Control, Saved, Same, At
    <3>2. CASE leaveMeAlone[u] /\ \E d \in Cpus : previous[d] = u
      <4>1. PICK d \in Cpus : previous[d] = u
        BY <3>2
      <4>2. d = c => At(t) = "sw_prev"
        BY <4>1, ThreadsAssumption DEF FlagClear
      <4>3. previous'[d] = u
        BY <1>0, <1>5, <4>1, <4>2 DEF Switches, TypeOK, Taking
      <4> QED BY <4>3
    <3>3. CASE leaveMeAlone[u] /\ \E v \in Threads : next[v] = u /\ At(v) \in Taking
      <4>1. PICK v \in Threads : next[v] = u /\ At(v) \in Taking
        BY <3>3
      <4>2. CASE v # t
        BY <1>0, <1>4, <4>1, <4>2 DEF Switches
      <4>3. CASE v = t
        <5>1. At(t) # "b_switch"
          BY <1>0, <1>5, <4>1, <4>3, RunningFacts DEF Saved, OnCpu, TypeOK
        <5>2. next' = next /\ At(t)' = "b_switch"
          BY <1>0, <4>1, <4>3, <5>1 DEF Switches, Taking
        <5>3. running' = running
          BY <5>1, <4>3, RunningFacts
        <5> QED BY <1>0, <4>1, <4>3, <5>2, <5>3 DEF Taking
      <4> QED BY <4>2, <4>3
    <3>4. CASE ~leaveMeAlone[u]
      <4>1. At(t) = "b_look" /\ next'[t] = u /\ At(t)' = "b_active"
        BY <1>0, <1>5, <2>2, <3>4 DEF Switches, TypeOK
      <4>2. running' = running
        BY <4>1, RunningFacts
      <4>3. \A v \in Threads : v = t => next'[v] = u /\ At(v)' \in Taking
        BY <4>1, <4>2 DEF Taking
      <4> QED BY <1>0, <4>3
    <3> QED BY <3>1, <3>2, <3>3, <3>4 DEF FlagClear
  <2> QED BY <2>1, <2>2
<1>6. ASSUME NEW d \in Cpus, previous'[d] # NoThread
      PROVE  At(running[d])' = "sw_prev"
  <2>1. CASE d # c
    <3>1. previous[d] # NoThread /\ running'[d] = running[d]
      BY <1>0, <1>6, <2>1, RunningFacts DEF Switches, TypeOK
    <3>2. running[d] \in Threads \ {t} /\ OnCpu(running[d]) /\ At(running[d]) = "sw_prev"
      BY <1>0, <2>1, <3>1 DEF FlagClear, IInv, OneCpuPerThread, TypeOK, OnCpu
    <3>3. \A u \in Threads : u = running[d] => At(u)' = "sw_prev"
      BY <1>4, <3>2
    <3> QED BY <3>1, <3>2, <3>3
  <2>2. CASE d = c
    <3>1. At(t) = "b_switch"
      BY <1>0, <1>6, <2>2, ThreadsAssumption DEF FlagClear, Switches, TypeOK
    <3>2. next[t] \in Threads /\ next[t] # t /\ Saved(next[t]) /\ running'[c] = next[t]
      BY <1>0, <3>1, RunningFacts DEF IInv, LocalsSet, Taking, Blocking, Saved, TypeOK
    <3>3. \A u \in Threads : u = next[t] => At(u)' = "sw_prev"
      <4>1. \A u \in Threads : u = next[t] => ~Gone(t, u) /\ ~Born(u)
        BY <3>1, <3>2 DEF Gone, Born, Saved, At
      <4> QED BY <1>0, <3>2, <4>1 DEF Control, Same, Saved, At
    <3> QED BY <2>2, <3>2, <3>3
  <2> QED BY <2>1, <2>2
<1> QED BY <1>5, <1>6 DEF FlagClear

\* A zombie stays one until it is deleted, or met twice in one round of a reaper.
LEMMA ZombieStays ==
  ASSUME IInv, StopInv, NEW c \in Cpus, Timer(c) \/ Call(c) \/ Kernel(c), ~ReaperMeetsFirst(c)
  PROVE  \A u \in Threads : Zombie(u) => Zombie(u)' \/ Gone(running[c], u)
<1> DEFINE t == running[c]
<1>0. t \in Threads /\ TypeOK
  BY DEF IInv, TypeOK
<1> USE DEF queueVars, reapVars
<1>1. CASE UNCHANGED <<zombieQ, th>>
  BY <1>1 DEF Zombie
<1>2. CASE StopAdd(c)
  <2>1. zombieQ' = Append(zombieQ, t) /\ th' = th
    BY <1>2 DEF StopAdd
  <2>2. ToSet(zombieQ') = ToSet(zombieQ) \cup {t}
    BY <1>0, <2>1, AddFacts DEF TypeOK
  <2> QED BY <2>1, <2>2 DEF Zombie
<1>3. CASE ReaperRemove(c)
  <2>1. /\ At(t) = "r_remove" /\ zombieQ # << >> /\ zombieQ' = Tail(zombieQ)
        /\ th' = [th EXCEPT ![t] = Head(zombieQ)]
    BY <1>3 DEF ReaperRemove
  <2>2. ToSet(zombieQ) = ToSet(zombieQ') \cup {Head(zombieQ)}
    BY <1>0, <2>1, RemoveFacts DEF TypeOK
  <2>3. th[t] = NoThread
    BY <1>0, <2>1, PlainFrame DEF StopInv, LocalsClear, YieldLocs, BlockLocs
  <2> QED BY <1>0, <2>1, <2>2, <2>3, ThreadsAssumption DEF Zombie, TypeOK
<1>4. CASE ReaperAdd(c)
  <2>1. /\ At(t) = "r_add" /\ zombieQ' = Append(zombieQ, th[t])
        /\ th' = [th EXCEPT ![t] = NoThread]
    BY <1>4 DEF ReaperAdd
  <2>2. th[t] \in Threads
    BY <1>0, <2>1, PlainFrame DEF IInv, LocalsSet, YieldLocs, BlockLocs
  <2>3. ToSet(zombieQ') = ToSet(zombieQ) \cup {th[t]}
    BY <1>0, <2>1, <2>2, AddFacts DEF TypeOK
  <2> QED BY <1>0, <2>1, <2>3 DEF Zombie, TypeOK
<1>5. CASE ReaperEmpty(c)
  <2>1. At(t) = "r_remove" /\ zombieQ' = zombieQ /\ th' = [th EXCEPT ![t] = NoThread]
    BY <1>5 DEF ReaperEmpty, ReaperReturn
  <2>2. th[t] = NoThread
    BY <1>0, <2>1, PlainFrame DEF StopInv, LocalsClear, YieldLocs, BlockLocs
  <2> QED BY <1>0, <2>1, <2>2, ThreadsAssumption DEF Zombie, TypeOK
<1>6. CASE ReaperDelete(c)
  <2>1. At(t) = "r_look" /\ zombieQ' = zombieQ /\ th' = [th EXCEPT ![t] = NoThread]
    BY <1>6 DEF ReaperDelete
  <2>2. th[t] \in Threads
    BY <1>0, <2>1, PlainFrame DEF IInv, LocalsSet, YieldLocs, BlockLocs
  <2>3. Saved(th[t]) /\ pc[t] = "r_look"
    BY <1>0, <1>6, <2>1, <2>2, PlainFrame
       DEF ReaperDelete, IInv, PlacedAway, Placed, FlagSet, Flagged, Blocking, YieldLocs, BlockLocs
  <2>4. Gone(t, th[t])
    <3>1. th[t] # t
      BY <2>1, <2>3 DEF Saved
    <3> QED BY <1>0, <1>6, <2>1, <2>2, <2>3, <3>1 DEF ReaperDelete, Gone, TypeOK
  <2> QED BY <1>0, <2>1, <2>4 DEF Zombie, TypeOK
<1> QED BY <1>1, <1>2, <1>3, <1>4, <1>5, <1>6
    DEF Timer, Call, Kernel, YieldCall, StopCall, YieldSet, YieldAdd, BlockRemove, BlockMeetsItself,
     BlockRequeue, ContextSwitch, BlockLeaveAlone, BlockTake, BlockActivate, ClearPrevious,
     ClearCurrent, ReaperCall, ReaperLeaveAlone, Spawn, SpawnBound

\* With one processor the reaper meets no flagged zombie: who runs the reaper is not in
\* the middle of a switch.
LEMMA NoneMetTwice ==
  ASSUME IInv, StopInv, FlagClear, OneCpu, NEW c \in Cpus
  PROVE  ~ReaperMeetsFirst(c)
<1> DEFINE t == running[c]
           d == th[t]
<1> SUFFICES ASSUME At(t) = "r_look", leaveMeAlone[d] PROVE FALSE
  BY DEF ReaperMeetsFirst
<1>1. t \in Threads /\ d \in Threads /\ irq[t] = "none" /\ Zombie(d)
  BY PlainFrame DEF IInv, LocalsSet, YieldLocs, BlockLocs, TypeOK, Zombie
<1>2. Ended(d) /\ Away(d) /\ ~Runnable(d)
  BY <1>1 DEF StopInv, StoppedStays, IInv, PlacedAway, Placed, InQueue, Zombie, Away
<1>3. \A u \in Threads : OnCpu(u) => u = t
  BY DEF OnCpu, OneCpu
<1>4. Saved(d)
  <2>1. d # t
    BY <1>1, <1>2 DEF Away, Blocking, Saved
  <2> QED BY <1>1, <1>2, <1>3, <2>1 DEF StopInv, OffIsSaved, Away, Blocking, Saved
<1>5. CASE \E e \in Cpus : previous[e] = d
  BY <1>1, <1>5, ThreadsAssumption DEF FlagClear, OneCpu
<1> QED BY <1>1, <1>2, <1>4, <1>5 DEF FlagClear, Runnable

\* With one processor a stopped thread stays in the reach of the reapers.
LEMMA EndedStep ==
  ASSUME IInv, StopInv, FlagClear, OneCpu, EndedKept,
         NEW c \in Cpus, Timer(c) \/ Call(c) \/ Kernel(c)
  PROVE  EndedKept'
<1> DEFINE t == running[c]
<1>0. t \in Threads /\ TypeOK /\ Control(t) /\ Reaps(c) /\ OnCpu(t)
  BY ControlFacts, ReapFacts DEF IInv, TypeOK, StopInv, OnCpu
<1>1. \A u \in Threads : Zombie(u) => Zombie(u)' \/ Gone(t, u)
  BY NoneMetTwice, ZombieStays
<1>2. ASSUME NEW u \in Threads, u # t, Ended(u)'
      PROVE  pc'[u] = "s_add" \/ Zombie(u)'
  <2>1. Same(u) /\ Ended(u) /\ ~Gone(t, u)
    BY <1>0, <1>2 DEF Control, Gone, Born, Ended, Same
  <2> QED BY <1>1, <2>1 DEF EndedKept, Same
<1>3. ASSUME NEW u \in Threads, u = t, Ended(u)'
      PROVE  pc'[u] = "s_add" \/ Zombie(u)'
  <2>1. pc[u] # "new" /\ ~Gone(t, u)
    BY <1>0, <1>3 DEF IInv, HandlerOnPlain, Gone, Saved
  <2>2. CASE Works(u)
    <3>1. \/ pc'[u] = "s_add"
          \/ At(u) = "s_add"
          \/ retAddr'[u] = retAddr[u] /\ pc[u] # "s_add"
      BY <1>3, <2>2 DEF Works, Ended, At, Work, ReapLocs
    <3> QED BY <1>0, <1>1, <1>3, <2>1, <3>1 DEF Reaps, EndedKept, Ended
  <2>3. CASE ~Works(u)
    <3>1. retAddr'[u] = retAddr[u] /\ pc[u] # "s_add"
      <4>1. irq[u] # "none" => pc[u] # "s_add"
        BY DEF IInv, HandlerOnPlain, Flagged
      <4> QED BY <1>0, <1>3, <2>3, <4>1 DEF Control, Interrupted, Moves, GotTo, Returns, At,
             Blocking, Flagged
    <3> QED BY <1>1, <1>3, <2>1, <3>1 DEF EndedKept, Ended
  <2> QED BY <2>2, <2>3
<1> QED BY <1>2, <1>3 DEF EndedKept

\* Every step keeps ReapInv.
LEMMA ReapStep ==
  ASSUME IInv, StopInv, ReapInv, [SchedNext]_schedVars
  PROVE  ReapInv'
<1>1. CASE UNCHANGED schedVars
  BY <1>1 DEF schedVars, ReapInv, FlagClear, EndedKept, Ended, Zombie, Saved, OnCpu, At, OneCpu
<1>2. ASSUME NEW c \in Cpus, Timer(c) \/ Call(c) \/ Kernel(c)
      PROVE  ReapInv'
  BY <1>2, FlagClearStep, EndedStep DEF ReapInv, OneCpu
<1> QED BY <1>1, <1>2 DEF SchedNext

\* It holds when the machine starts.
LEMMA ReapInit ==
  ASSUME SchedInit
  PROVE  ReapInv
BY ThreadsAssumption DEF SchedInit, ReapInv, FlagClear, EndedKept, Ended

\* What it is for.
LEMMA ReapKeeps ==
  ASSUME IInv, StopInv, ReapInv, OneCpu
  PROVE  ZombiesKept
<1> SUFFICES ASSUME NEW t \in Threads, Saved(t), retAddr[t] = "s_end", pc[t] # "new"
             PROVE  Zombie(t)
  BY DEF ZombiesKept, Zombie
<1>1. pc[t] # "s_add"
  BY DEF StopInv, StoppedStays, Ended, Saved, At
<1> QED BY <1>1 DEF ReapInv, EndedKept, Ended

\* On one processor the reapers lose no stopped thread.
THEOREM OneCpuKeepsZombies == OneCpu => (SchedSpec => []ZombiesKept)
<1>1. SchedInit => IInv /\ StopInv /\ ReapInv
  BY InitInv, StopInit, ReapInit
<1>2. IInv /\ StopInv /\ ReapInv /\ [SchedNext]_schedVars => (IInv /\ StopInv /\ ReapInv)'
  BY StepInv, StopStep, ReapStep
<1>3. SchedSpec => [](IInv /\ StopInv /\ ReapInv)
  BY <1>1, <1>2, PTL DEF SchedSpec
<1> SUFFICES ASSUME OneCpu PROVE SchedSpec => []ZombiesKept
  OBVIOUS
<1>4. IInv /\ StopInv /\ ReapInv => ZombiesKept
  BY ReapKeeps
<1> QED BY <1>3, <1>4, PTL
=============================================================================
