----------------------------- MODULE MCProcesses -----------------------------
\* Processes with a few forks.
EXTENDS Processes
=============================================================================
