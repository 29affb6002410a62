------------------------------- MODULE MCBoot -------------------------------
\* Three processors that boot, and the processes once /sbin/init runs.
EXTENDS Processes, Boot

MCMadt == << [type |-> 0, id |-> 0], [type |-> 0, id |-> 2], [type |-> 0, id |-> 1],
             [type |-> 1, id |-> 0], [type |-> 2, id |-> 9] >>

MCBeyond == [type |-> 72, id |-> 69]

MCInit == BootInit /\ Init

MCNext ==
  \/ BootNext /\ UNCHANGED vars
  \/ initRuns /\ Next /\ UNCHANGED bootVars

MCSpec ==
  /\ MCInit /\ [][MCNext]_<<bootVars, vars>>
  /\ BootFairness
  /\ \A p \in Procs : WF_vars(initRuns /\ Kernel(p))
=============================================================================
