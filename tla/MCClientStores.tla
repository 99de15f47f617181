--------------------------- MODULE MCClientStores ---------------------------
(* What a client keeps, for TLC: the mask rows of an inventory (PreparedRows) *)
(* and the decode states on its disk (DecodeStore).                          *)
EXTENDS PreparedRows, DecodeStore, TLC

\* All stages have all rows.
Uniform == [s \in Stage |-> RowCapacity]

\* A root and two branches that share its row.
MCPath == {<<1>>, <<1, 1>>, <<1, 2>>}

Symmetric == Permutations(Lease)

\* The two share no variable and no operation, so what one reaches while the
\* other waits at its start is all that it reaches.
EitherNext ==
  \/ RowsNext /\ StoreInit /\ UNCHANGED storeVars
  \/ StoreNext /\ RowsInit /\ UNCHANGED rowsVars

EitherInit == RowsInit /\ StoreInit

EitherSpec == EitherInit /\ [][EitherNext]_<<rowsVars, storeVars>>
=============================================================================
