------------------------- MODULE MCCorrectionChannel -------------------------
(* Instances of CorrectionChannel for TLC. *)
EXTENDS CorrectionChannel, TLC

Symmetric == Permutations(Push \ Quiet) \cup Permutations(Conn)
==============================================================================
