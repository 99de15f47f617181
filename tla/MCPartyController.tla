-------------------------- MODULE MCPartyController --------------------------
(* Instances of PartyController for TLC. *)
EXTENDS PartyController, TLC

\* A worker's lease and two of prepared roles; the worker's fits beside either.
Needs == [l \in Lease |-> IF l \in Worker THEN 1 ELSE 2]

Symmetric == Permutations(Call) \cup Permutations(Lease \ Worker)
=============================================================================
