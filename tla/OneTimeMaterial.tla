--------------------------- MODULE OneTimeMaterial ---------------------------
(***************************************************************************)
(* What a store of one-time material promises its users: a piece is spent  *)
(* at most once, a piece that was voided is never spent, and all that one  *)
(* step spends belongs to one owner.  A correction masks one activation;   *)
(* handing it out twice would reveal the difference of two activations.    *)
(***************************************************************************)
CONSTANTS Material,     \* the pieces
          Owner,        \* who they are for
          OwnerOf(_)    \* the owner of a piece

VARIABLE status         \* what became of each piece

Status == {"unused", "spent", "void"}

Init == status = [k \in Material |-> "unused"]

\* One atomic step may spend pieces of one owner and void any others.
Next ==
  /\ status' \in [Material -> Status]
  /\ \A k \in Material : status'[k] # status[k] => status[k] = "unused"
  /\ \E o \in Owner :
       \A k \in Material : status'[k] = "spent" /\ status[k] # "spent" => OwnerOf(k) = o

Spec == Init /\ [][Next]_status
=============================================================================
