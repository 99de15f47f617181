-------------------------- MODULE MCClientActivity --------------------------
(* Instances of ClientActivity for TLC. *)
EXTENDS ClientActivity, TLC

Symmetric == Permutations(Response) \cup Permutations(Caller) \cup Permutations(Inventory)
=============================================================================
