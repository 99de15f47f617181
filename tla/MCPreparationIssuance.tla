------------------------ MODULE MCPreparationIssuance ------------------------
(* Instances of PreparationIssuance for TLC. *)
EXTENDS PreparationIssuance

\* The last stage fills the window alone.
LastIsLarge == [s \in Stages |-> IF s = N THEN 4 ELSE 1]
=============================================================================
