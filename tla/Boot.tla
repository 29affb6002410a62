-------------------------------- MODULE Boot --------------------------------
(***************************************************************************)
(* From the reset of the processors to the first process: the entry code   *)
(* of kernel/mbr.S, kernelInit and pickKernelStack of kernel/init.cc, the  *)
(* inter-processor interrupts of kernel/smp.h, and the initializations     *)
(* they rest on.                                                           *)
(*                                                                         *)
(* Processor 0 starts alone, initializes the kernel and starts the others  *)
(* one by one; each goes its own way from then on, and the last to arrive  *)
(* makes the thread of kernelMain.  A step reads or writes shared state    *)
(* once.  What is initialized is in made; what a location needs of it is   *)
(* in Needs.                                                               *)
(***************************************************************************)
EXTENDS Naturals, FiniteSets, Sequences

CONSTANTS
  Madt,   \* the entries of the ACPI table of processors: [type, id]
  Beyond  \* what the memory after the table looks like as an entry

IsProcessor(entry) == entry.type = 0

Cpus == {0} \cup {Madt[k].id : k \in {n \in DOMAIN Madt : IsProcessor(Madt[n])}}

\* The table describes processors 0, 1, ... in order of nothing but that 0 is first.
ASSUME BootAssumption ==
  /\ Madt \in Seq([type : Nat, id : Nat]) /\ Beyond \in [type : Nat, id : Nat]
  /\ Len(Madt) > 0 /\ Madt[1] = [type |-> 0, id |-> 0]
  /\ \A j, k \in DOMAIN Madt : IsProcessor(Madt[j]) /\ Madt[j] = Madt[k] => j = k
  /\ Cpus = 0 .. Cardinality(Cpus) - 1
  /\ IsProcessor(Beyond) => Beyond.id = 0

VARIABLES
  totalProcs,   \* kConfig.totalProcs; 0 before configInit
  made,         \* what has been initialized
  smpInitDone,
  started,      \* SMP::started
  here,         \* howManyAreHere
  bootPc,       \* per processor: where kernelInit is
  bootStack,    \* per processor: the stack it is on
  target,       \* id of the loop that starts the others
  mains,        \* how many threads of kernelMain have been made
  initRuns      \* kernelMain has gone to user mode in /sbin/init

bootVars == <<totalProcs, made, smpInitDone, started, here, bootPc, bootStack,
              target, mains, initRuns>>

\* What a processor at a location is about to use.
Needs(loc) ==
  CASE loc \in {"vmm", "threads"}        -> {"config", "heap"}
    [] loc = "smp"                       -> {"config"}
    [] loc \in {"calibrate", "ap_smp"}   -> {"heap", "lapic"}
    [] loc \in {"ipi_init", "ipi_start"} -> {"config", "lapic"}
    [] loc = "pit"                       -> {"lapic", "timer"}
    [] loc = "tss"                       -> {"lapic"}
    [] loc \in {"arrive", "stop"}        -> {"lapic", "timer", "threads", "vmm"}
    [] loc = "make_main"                 -> {"config", "heap", "vmm", "sys", "threads",
                                             "lapic", "timer"}
    [] OTHER                             -> {}

Own(c)   == <<"own", c>>    \* stacks.forCPU(c)
Temp     == <<"temp", 0>>   \* tempStack
NoStack  == <<"none", 0>>   \* not running kernelInit

BootInit ==
  /\ totalProcs = 0
  /\ made = {}
  /\ smpInitDone = FALSE
  /\ started = 0
  /\ here = 0
  /\ bootPc = [c \in Cpus |-> IF c = 0 THEN "entry" ELSE "off"]
  /\ bootStack = [c \in Cpus |-> NoStack]
  /\ target = 0
  /\ mains = 0
  /\ initRuns = FALSE

At(c, loc)   == bootPc[c] = loc
Move(c, loc) == bootPc' = [bootPc EXCEPT ![c] = loc]

-----------------------------------------------------------------------------
(* Every processor: the entry code *)

\* Interrupts off, protected mode, and the one temporary stack.
EnterKernel(c) ==
  /\ At(c, "entry")
  /\ bootStack' = [bootStack EXCEPT ![c] = Temp]
  /\ Move(c, "pick")
  /\ UNCHANGED <<totalProcs, made, smpInitDone, started, here, target, mains, initRuns>>

\* Which stack is its own: SMP::me() cannot be asked before SMP::init.
KernelStack(c) == IF smpInitDone THEN Own(c) ELSE Own(0)

PickKernelStack(c) ==
  /\ At(c, "pick")
  /\ bootStack' = [bootStack EXCEPT ![c] = KernelStack(c)]
  /\ Move(c, "init")
  /\ UNCHANGED <<totalProcs, made, smpInitDone, started, here, target, mains, initRuns>>

\* kernelInit: the first to come initializes the kernel.
CountStarted(c) ==
  /\ At(c, "init")
  /\ started' = started + 1
  /\ Move(c, IF started = 0 THEN "config" ELSE "ap_smp")
  /\ UNCHANGED <<totalProcs, made, smpInitDone, here, bootStack, target, mains, initRuns>>

-----------------------------------------------------------------------------
(* The first processor *)

\* The loop of configInit moves on to the next entry before it looks at one: it
\* passes over the first, and looks at what comes after the last.
Seen == {Madt[k] : k \in 2 .. Len(Madt)} \cup {Beyond}

ProcessorsSeen == Cardinality({e \in Seen : IsProcessor(e) /\ e.id # 0}) + 1

ConfigInit(c) ==
  /\ At(c, "config")
  /\ totalProcs' = ProcessorsSeen
  /\ made' = made \cup {"config"}
  /\ Move(c, "heap")
  /\ UNCHANGED <<smpInitDone, started, here, bootStack, target, mains, initRuns>>

\* One of the initializations that touch nothing else modelled here.
Make(c, loc, what, to) ==
  /\ At(c, loc)
  /\ made' = made \cup {what}
  /\ Move(c, to)
  /\ UNCHANGED <<totalProcs, smpInitDone, started, here, bootStack, target, mains, initRuns>>

InitHeap(c) == Make(c, "heap", "heap", "vmm")

\* The frames, the shared address space, and the handler of page faults.
InitVmm(c) == Make(c, "vmm", "vmm", "sys")

\* The system call gate.
InitSys(c) == Make(c, "sys", "sys", "threads")

\* A thread per processor for what it already does, and the reaper.
ThreadsInit(c) == Make(c, "threads", "threads", "smp")

\* SMP::init(true): where the registers of the local APIC are.
InitSmp(c) == Make(c, "smp", "lapic", "smp_done")

SetSmpInitDone(c) ==
  /\ At(c, "smp_done")
  /\ smpInitDone' = TRUE
  /\ Move(c, "calibrate")
  /\ UNCHANGED <<totalProcs, made, started, here, bootStack, target, mains, initRuns>>

\* The loop that starts the others, from id on.
StartFrom(c, id) ==
  /\ target' = id
  /\ Move(c, IF id < totalProcs THEN "ipi_init" ELSE "pit")

\* apitCounter and the handler of the timer; on to the loop.
Calibrate(c) ==
  /\ At(c, "calibrate")
  /\ made' = made \cup {"timer"}
  /\ StartFrom(c, 1)
  /\ UNCHANGED <<totalProcs, smpInitDone, started, here, bootStack, mains, initRuns>>

\* An inter-processor interrupt takes processor target from one location to another,
\* if there is such a processor and it is there.
Ipi(c, loc, to, from, there) ==
  /\ At(c, loc)
  /\ bootPc' = [d \in Cpus |-> IF d = c THEN to
                               ELSE IF d = target /\ At(d, from) THEN there
                               ELSE bootPc[d]]
  /\ UNCHANGED <<totalProcs, made, smpInitDone, started, here, bootStack, target,
                 mains, initRuns>>

\* 0x4500: a reset, after which the processor waits for its start.
IpiInit(c) == Ipi(c, "ipi_init", "ipi_start", "off", "reset")

\* 0x4600: start at resetEIP.
IpiStart(c) == Ipi(c, "ipi_start", "ipi_wait", "reset", "entry")

\* Mutant of AwaitStart: the next processor is started at once.
AwaitStartNot(c) ==
  /\ At(c, "ipi_wait")
  /\ StartFrom(c, target + 1)
  /\ UNCHANGED <<totalProcs, made, smpInitDone, started, here, bootStack, mains, initRuns>>

\* while (SMP::started <= id);
AwaitStart(c) ==
  /\ At(c, "ipi_wait")
  /\ started > target
  /\ StartFrom(c, target + 1)
  /\ UNCHANGED <<totalProcs, made, smpInitDone, started, here, bootStack, mains, initRuns>>

-----------------------------------------------------------------------------
(* Every processor again *)

\* A step that moves on and does nothing that another processor sees.
Pass(c, loc, to) ==
  /\ At(c, loc)
  /\ Move(c, to)
  /\ UNCHANGED <<totalProcs, made, smpInitDone, started, here, bootStack, target,
                 mains, initRuns>>

\* SMP::init(false): its own local APIC.
ApInitSmp(c) == Pass(c, "ap_smp", "pit")

\* Without calibrate before it, Pit::init panics.
PitInit(c) == "timer" \in made /\ Pass(c, "pit", "tss")

\* The task segment, then interrupts: the timer may take it to the scheduler now.
EnableInterrupts(c) == Pass(c, "tss", "arrive")

\* Mutant of Arrive: whoever sees that all have started takes itself for the last.
ArriveStarted(c) ==
  /\ At(c, "arrive")
  /\ here' = here + 1
  /\ Move(c, IF started = totalProcs THEN "make_main" ELSE "stop")
  /\ UNCHANGED <<totalProcs, made, smpInitDone, started, bootStack, target, mains, initRuns>>

\* Mutant of Arrive: the order is the count before it.
ArriveFetchAdd(c) ==
  /\ At(c, "arrive")
  /\ here' = here + 1
  /\ Move(c, IF here = totalProcs THEN "make_main" ELSE "stop")
  /\ UNCHANGED <<totalProcs, made, smpInitDone, started, bootStack, target, mains, initRuns>>

\* add_fetch: the last to arrive knows that it is.
Arrive(c) ==
  /\ At(c, "arrive")
  /\ here' = here + 1
  /\ Move(c, IF here + 1 = totalProcs THEN "make_main" ELSE "stop")
  /\ UNCHANGED <<totalProcs, made, smpInitDone, started, bootStack, target, mains, initRuns>>

MakeMain(c) ==
  /\ At(c, "make_main")
  /\ mains' = mains + 1
  /\ Move(c, "stop")
  /\ UNCHANGED <<totalProcs, made, smpInitDone, started, here, bootStack, target, initRuns>>

\* stop(): the processor goes on with other threads, on their stacks.
StopBoot(c) ==
  /\ At(c, "stop")
  /\ bootStack' = [bootStack EXCEPT ![c] = NoStack]
  /\ Move(c, "stopped")
  /\ UNCHANGED <<totalProcs, made, smpInitDone, started, here, target, mains, initRuns>>

\* The thread of kernelMain: mount the disk, make the PIDManager, load /sbin/init and
\* go to user mode.
KernelMain ==
  /\ mains > 0 /\ ~initRuns
  /\ initRuns' = TRUE
  /\ UNCHANGED <<totalProcs, made, smpInitDone, started, here, bootPc, bootStack,
                 target, mains>>

KernelInit(c) ==
  \/ EnterKernel(c) \/ PickKernelStack(c) \/ CountStarted(c)
  \/ ConfigInit(c) \/ InitHeap(c) \/ InitVmm(c) \/ InitSys(c) \/ ThreadsInit(c)
  \/ InitSmp(c) \/ SetSmpInitDone(c) \/ Calibrate(c)
  \/ IpiInit(c) \/ IpiStart(c) \/ AwaitStart(c)
  \/ ApInitSmp(c) \/ PitInit(c) \/ EnableInterrupts(c)
  \/ Arrive(c) \/ MakeMain(c) \/ StopBoot(c)

BootNext == KernelMain \/ \E c \in Cpus : KernelInit(c)

BootSpec == BootInit /\ [][BootNext]_bootVars

\* Processors execute, and the scheduler runs the threads that can run.
BootFairness == WF_bootVars(KernelMain) /\ \A c \in Cpus : WF_bootVars(KernelInit(c))

-----------------------------------------------------------------------------
(* Properties *)

\* No two processors are on one stack: there is a single temporary one, and before
\* SMP::init every processor would pick the stack of the first.
StacksApart ==
  \A c, d \in Cpus : bootStack[c] # NoStack /\ bootStack[c] = bootStack[d] => c = d

\* Nothing is used before it is initialized, by whichever processor; and there is one
\* thread of kernelMain, made when every processor has arrived.
UsedAfterInit ==
  /\ \A c \in Cpus : Needs(bootPc[c]) \subseteq made
  /\ mains = 1 => \A c \in Cpus : bootPc[c] \in {"stop", "stopped"}
  /\ mains <= 1

\* The machine comes up: /sbin/init runs, whatever the order in which the processors
\* start and arrive.
BootFinishes == <>initRuns
=============================================================================
