----------------------------- MODULE PermitQueue -----------------------------
(***************************************************************************)
(* What a kernel semaphore that guards a section promises: at most Permits *)
(* threads hold a permit, the others wait in the order in which they asked, *)
(* and a permit that is given back goes to the first of them at once.      *)
(***************************************************************************)
EXTENDS Naturals, FiniteSets, Sequences

CONSTANTS
  Clients,  \* those who ask
  Permits   \* the initial count

VARIABLES
  holders,  \* the clients that have a permit
  queue     \* the clients that wait, in order

Init == holders = {} /\ queue = <<>>

Acquire(t) ==
  /\ t \notin holders
  /\ queue = <<>>
  /\ Cardinality(holders) < Permits
  /\ holders' = holders \cup {t}
  /\ UNCHANGED queue

Wait(t) ==
  /\ t \notin holders
  /\ \A i \in DOMAIN queue : queue[i] # t
  /\ Cardinality(holders) = Permits
  /\ queue' = Append(queue, t)
  /\ UNCHANGED holders

Release(t) ==
  /\ t \in holders
  /\ IF queue = <<>>
     THEN holders' = holders \ {t} /\ UNCHANGED queue
     ELSE holders' = (holders \ {t}) \cup {Head(queue)} /\ queue' = Tail(queue)

Next == \E t \in Clients : Acquire(t) \/ Wait(t) \/ Release(t)

Spec == Init /\ [][Next]_<<holders, queue>>
=============================================================================
