----------------------------- MODULE PermitPool -----------------------------
(***************************************************************************)
(* What the concurrency manager promises its callers: at most Limit calls    *)
(* hold a permit, a call that gives its permit back gives back one, and    *)
(* nobody's permit goes away but by its own doing.                         *)
(***************************************************************************)
EXTENDS Naturals, FiniteSets

CONSTANTS Call, Limit

VARIABLE holders

Init == holders = {}

\* A holder may leave in the same step as the next one comes in.
Give == \E c \in holders : \E next \in SUBSET (Call \ holders) :
          /\ Cardinality(next) <= 1
          /\ holders' = (holders \ {c}) \cup next

Take == \E c \in Call \ holders :
          /\ Cardinality(holders) < Limit
          /\ holders' = holders \cup {c}

Spec == Init /\ [][Give \/ Take]_holders
=============================================================================
