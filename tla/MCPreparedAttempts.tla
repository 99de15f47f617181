------------------------- MODULE MCPreparedAttempts -------------------------
(* Instances of PreparedAttempts for TLC. *)
EXTENDS PreparedAttempts, TLC

OnePrompt == {<<1>>}

Symmetric == Permutations(Request)
=============================================================================
