---------------------------- MODULE MCDescriptors ----------------------------
\* Descriptors of a process and the child it forks.
EXTENDS Descriptors
=============================================================================
