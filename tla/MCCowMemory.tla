----------------------------- MODULE MCCowMemory -----------------------------
\* CowMemory with few processes, pages and frames.
EXTENDS CowMemory

CONSTANTS p1

MCSymmetry == Permutations(Procs \ {p1}) \cup Permutations(Pages)
=============================================================================
