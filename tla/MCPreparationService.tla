------------------------ MODULE MCPreparationService ------------------------
(* Instances of PreparationService for TLC. *)
EXTENDS PreparationService, TLC

Symmetric ==
  Permutations(Authorization) \cup Permutations(Request) \cup Permutations(Stage)
    \cup Permutations(Attempt) \cup Permutations(Owner) \cup Permutations(Session)
=============================================================================
