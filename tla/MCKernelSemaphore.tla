-------------------------- MODULE MCKernelSemaphore --------------------------
\* KernelSemaphore on one and on two processors.
EXTENDS KernelSemaphore

CONSTANTS c1, c2, b1, b2

MCBoot == [c \in Cpus |-> IF c = c1 THEN b1 ELSE b2]

Swap == (c1 :> c2) @@ (c2 :> c1) @@ (b1 :> b2) @@ (b2 :> b1)

MCSymmetry == {Swap, [x \in DOMAIN Swap |-> x]}
=============================================================================
