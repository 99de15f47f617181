----------------------- MODULE MCCorrectionRendezvous -----------------------
(* Instances of CorrectionRendezvous for TLC. *)
EXTENDS CorrectionRendezvous, TLC
=============================================================================
