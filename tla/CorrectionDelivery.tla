------------------------- MODULE CorrectionDelivery -------------------------
(***************************************************************************)
(* What the preparation service may rely on when it pushes a correction:   *)
(* the inference service accepts it at most once; an acknowledgement means *)
(* that it did; a failure leaves open whether it did or still will.        *)
(***************************************************************************)
CONSTANTS
  Push,   \* pushes, one for each correction
  Quiet   \* of them, those with wait_for_ack=False

VARIABLES
  outcome,  \* what push() told its caller
  accepted  \* the corrections the inference service has accepted

vars == <<outcome, accepted>>

Outcome == {"uncalled", "open", "sent", "acknowledged", "failed"}

TypeOK == outcome \in [Push -> Outcome] /\ accepted \subseteq Push

Init == outcome = [p \in Push |-> "uncalled"] /\ accepted = {}

Call(p) ==
  /\ outcome[p] = "uncalled"
  /\ outcome' = [outcome EXCEPT ![p] = "open"]
  /\ UNCHANGED accepted

Accept(p) ==
  /\ outcome[p] # "uncalled" /\ p \notin accepted
  /\ accepted' = accepted \cup {p}
  /\ UNCHANGED outcome

Return(p, result) ==
  /\ outcome[p] = "open"
  /\ result = "acknowledged" => p \in accepted
  /\ result = "sent" => p \in Quiet
  /\ outcome' = [outcome EXCEPT ![p] = result]
  /\ UNCHANGED accepted

Next ==
  \E p \in Push :
    Call(p) \/ Accept(p) \/ \E result \in {"sent", "acknowledged", "failed"} : Return(p, result)

Spec == Init /\ [][Next]_vars
=============================================================================
