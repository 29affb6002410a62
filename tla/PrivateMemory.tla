---------------------------- MODULE PrivateMemory ----------------------------
(***************************************************************************)
(* What fork and exec promise to user programs: every process has a memory *)
(* of its own.  A write changes one page of one process, a fork gives the  *)
(* child what the parent has at that moment, an exec starts from zeros.    *)
(***************************************************************************)
CONSTANTS
  Procs,   \* process identities
  First,   \* the process the kernel starts
  Pages,   \* user pages
  Values,  \* what a page may contain
  Zero     \* the contents of a page nobody has written

VARIABLES
  alive,   \* the processes that run programs
  memory   \* per process and page: the contents

Blank == [va \in Pages |-> Zero]

Init ==
  /\ alive = {First}
  /\ memory = [p \in Procs |-> Blank]

Write(p, va, v) ==
  /\ p \in alive
  /\ memory' = [memory EXCEPT ![p][va] = v]
  /\ UNCHANGED alive

Fork(p, q) ==
  /\ p \in alive /\ q \notin alive
  /\ alive' = alive \cup {q}
  /\ memory' = [memory EXCEPT ![q] = memory[p]]

Exec(p) ==
  /\ p \in alive
  /\ memory' = [memory EXCEPT ![p] = Blank]
  /\ UNCHANGED alive

Exit(p) ==
  /\ p \in alive
  /\ alive' = alive \ {p}
  /\ memory' = [memory EXCEPT ![p] = Blank]

Next ==
  \E p \in Procs :
    \/ \E va \in Pages, v \in Values : Write(p, va, v)
    \/ \E q \in Procs : Fork(p, q)
    \/ Exec(p)
    \/ Exit(p)

Spec == Init /\ [][Next]_<<alive, memory>>
=============================================================================
