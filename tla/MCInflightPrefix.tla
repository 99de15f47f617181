-------------------------- MODULE MCInflightPrefix --------------------------
(* Instances of InflightPrefix for TLC. *)
EXTENDS InflightPrefix

\* A prompt and one that extends it.
TwoPrompts == {<<1>>, <<1, 2>>}
=============================================================================
