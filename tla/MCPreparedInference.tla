------------------------ MODULE MCPreparedInference ------------------------
(* Instances of PreparedInference for TLC. *)
EXTENDS PreparedInference, TLC

CONSTANTS m1, x1

OnlyMeta == [model |-> m1, shape |-> x1]

Symmetric == Permutations(Sid) \cup Permutations(Ses) \cup Permutations(Holder)

\* Sessions only: fairness and RequestsSettle tell requests apart, never
\* sessions, so exchanging sessions along a behaviour changes neither.
SymmetricSessions == Permutations(Ses)
=============================================================================
