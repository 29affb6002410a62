------------------------------- MODULE MCHeap -------------------------------
\* A heap with room for a few blocks, the kernel's or a program's.  What clients
\* store looks like the tag of a free block of four words.
EXTENDS UserHeap

VARIABLE whose  \* whose heap it is

MCInit == HeapInit /\ whose \in {"kernel", "user"}

MCNext ==
  \/ whose = "kernel" /\ HeapNext /\ UNCHANGED whose
  \/ whose = "user" /\ UserNext /\ UNCHANGED whose

MCSpec == MCInit /\ [][MCNext]_<<vars, whose>>
=============================================================================
