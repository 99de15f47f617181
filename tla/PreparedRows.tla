---------------------------- MODULE PreparedRows ----------------------------
(***************************************************************************)
(* The client's rows of one prepared inventory: PreparedInventory and      *)
(* PreparedInventoryLease (runtime/transformer_client.py) over the one-use *)
(* mask streams of its stages (MaskRows, crates/pllm-core), and the row    *)
(* counters that material_accounting reads (prepared_accounting.py).       *)
(*                                                                         *)
(* The inventory's lock and the lease's lock are taken one inside the      *)
(* other or one after the other; between them other leases and cancel()    *)
(* come in.  A lease that claims holds its own lock until it has its masks,*)
(* or until verification or the native stage has refused them.  A take     *)
(* that raises ends in close(), but threads that share the lease may claim *)
(* before that: a lease that failed is a lease that is still held.         *)
(* Masks are expanded lazily, row by row, as with the native extension.    *)
(***************************************************************************)
EXTENDS Naturals, FiniteSets, FiniteSetsExt

CONSTANTS
  Stage, Lease,
  RowCapacity,    \* rows of the inventory
  StageRows,      \* request.rows of each stage; RowCapacity unless Demand
  Demand,         \* issued for one response, with rows for each stage
  Idle            \* no claim

ASSUME RowsAssumption ==
  /\ RowCapacity \in Nat \ {0} /\ Demand \in BOOLEAN
  /\ IsFiniteSet(Stage) /\ IsFiniteSet(Lease)
  /\ StageRows \in [Stage -> 1 .. RowCapacity]
  /\ Demand \/ \A s \in Stage : StageRows[s] = RowCapacity
  /\ Idle \notin [stage : Stage, from : Nat, rows : Nat]

VARIABLES
  reserved,   \* _reserved
  cancel,     \* _cancelled: "no", then "counted" while and after the streams close
  lease,      \* the leases
  mask,       \* the rows of each stage's MaskRows
  streams,    \* the stages whose streams are open
  lost,       \* history: rows that were claimed and whose take then raised
  count       \* prepared_stage_rows_*

rowsVars == <<reserved, cancel, lease, mask, streams, lost, count>>

Row == 0 .. RowCapacity - 1

RowsOf(s) == 0 .. StageRows[s] - 1

MaskRow == {k \in Stage \X Row : k[2] \in RowsOf(k[1])}

Total == MapThenSumSet(LAMBDA s : StageRows[s], Stage)

NewLease(st, start, n) ==
  [st |-> st, start |-> start, rows |-> n, offset |-> [s \in Stage |-> 0], claim |-> Idle]

NoLease == NewLease("none", 0, 0)

\* Issued when the inventory is made (__post_init__).
RowsInit ==
  /\ reserved = 0 /\ cancel = "no"
  /\ lease = [l \in Lease |-> NoLease]
  /\ mask = [s \in Stage |-> [i \in RowsOf(s) |-> "unused"]]
  /\ streams = Stage /\ lost = {}
  /\ count = [issued |-> Total, reserved |-> 0, claimed |-> 0, burned |-> 0, discarded |-> 0]

-----------------------------------------------------------------------------
(* Leases.                                                                 *)

\* Stage rows a reservation of n rows covers.
Covered(n) == IF Demand THEN Total ELSE n * Cardinality(Stage)

Reserve(l, n) ==
  /\ lease[l].st = "none" /\ cancel = "no" /\ reserved + n <= RowCapacity
  /\ lease' = [lease EXCEPT ![l] = NewLease("held", reserved, n)]
  /\ reserved' = IF Demand THEN RowCapacity ELSE reserved + n
  /\ count' = [count EXCEPT !.reserved = @ + Covered(n)]
  /\ UNCHANGED <<cancel, mask, streams, lost>>

Limit(l, s) == IF Demand THEN StageRows[s] ELSE lease[l].rows

\* _claim_locked: counted under the inventory's lock, then the offset moves on.
\* A claim beyond the reservation, or of a cancelled inventory, changes nothing.
Claim(l, s, n) ==
  /\ lease[l].st = "held" /\ lease[l].claim = Idle
  /\ lease[l].offset[s] + n <= Limit(l, s) /\ cancel = "no"
  /\ lease' = [lease EXCEPT ![l].offset[s] = @ + n,
       ![l].claim = [stage |-> s, from |-> lease[l].start + lease[l].offset[s], rows |-> n]]
  /\ count' = [count EXCEPT !.claimed = @ + n]
  /\ UNCHANGED <<reserved, cancel, mask, streams, lost>>

Filled(m, rows, what) == [i \in DOMAIN m |-> IF i \in rows /\ m[i] = "unused" THEN what ELSE m[i]]

ClaimedRows(l) == lease[l].claim.from .. lease[l].claim.from + lease[l].claim.rows - 1

\* MaskRows.range and its used flags.
Fits(l) ==
  LET s == lease[l].claim.stage IN
  s \in streams /\ ClaimedRows(l) \subseteq RowsOf(s) /\ \A i \in ClaimedRows(l) : mask[s][i] = "unused"

\* Mutant of Take: the stream does not look what was used.
TakeRowsUnchecked(l) ==
  /\ lease[l].claim # Idle
  /\ mask' = [mask EXCEPT ![lease[l].claim.stage] =
       [i \in DOMAIN @ |-> IF i \in ClaimedRows(l) THEN "spent" ELSE @[i]]]
  /\ lease' = [lease EXCEPT ![l].claim = Idle]
  /\ UNCHANGED <<reserved, cancel, streams, lost, count>>

\* take_masks, or MaskRows.take within layout.prepare
Take(l) ==
  /\ lease[l].claim # Idle /\ Fits(l)
  /\ mask' = [mask EXCEPT ![lease[l].claim.stage] = Filled(@, ClaimedRows(l), "spent")]
  /\ lease' = [lease EXCEPT ![l].claim = Idle]
  /\ UNCHANGED <<reserved, cancel, streams, lost, count>>

\* The claim is counted, and what follows raises.
ClaimIsLost(l) ==
  /\ lease[l].claim # Idle
  /\ lease' = [lease EXCEPT ![l].claim = Idle]
  /\ lost' = lost \cup {<<lease[l].claim.stage, i>> : i \in ClaimedRows(l)}
  /\ UNCHANGED <<reserved, cancel, count>>

\* verification.claim raised, or _prepare_native refused the stage: the stream
\* was not asked, and keeps the rows.
ClaimFails(l) == ClaimIsLost(l) /\ UNCHANGED <<mask, streams>>

\* A take of rows that do not fit, and whatever fails in layout.prepare, cancels
\* the stream of the stage, for every lease.
StreamFails(l) ==
  /\ ClaimIsLost(l)
  /\ mask' = [mask EXCEPT ![lease[l].claim.stage] = Filled(@, Row, "void")]
  /\ streams' = streams \ {lease[l].claim.stage}

\* What close() burns: in every stage, the rows it has not claimed.
Burned(l) ==
  [s \in Stage |->
     IF s \in streams
     THEN Filled(mask[s],
            lease[l].start + lease[l].offset[s] .. lease[l].start + Limit(l, s) - 1, "void")
     ELSE mask[s]]

\* close(): by its owner, or because a take raised.
CloseLease(l) ==
  /\ lease[l].st = "held" /\ lease[l].claim = Idle
  /\ mask' = Burned(l)
  /\ lease' = [lease EXCEPT ![l].st = "closing"]
  /\ UNCHANGED <<reserved, cancel, streams, lost, count>>

Claims(l) == MapThenSumSet(LAMBDA s : lease[l].offset[s], Stage)

\* Mutant of Finish: the whole reservation counts as burned.
FinishBurned(l) ==
  /\ lease[l].st = "closing"
  /\ count' = [count EXCEPT !.burned = @ + Covered(lease[l].rows)]
  /\ lease' = [lease EXCEPT ![l].st = "closed"]
  /\ UNCHANGED <<reserved, cancel, mask, streams, lost>>

\* _finish
Finish(l) ==
  /\ lease[l].st = "closing"
  /\ count' = [count EXCEPT !.burned = @ + (Covered(lease[l].rows) - Claims(l))]
  /\ lease' = [lease EXCEPT ![l].st = "closed"]
  /\ UNCHANGED <<reserved, cancel, mask, streams, lost>>

-----------------------------------------------------------------------------
(* cancel() of the inventory.                                              *)

Cancel ==
  /\ cancel = "no" /\ cancel' = "counted"
  /\ count' = [count EXCEPT !.discarded =
       IF Demand THEN (IF reserved < RowCapacity THEN Total ELSE 0)
       ELSE (RowCapacity - reserved) * Cardinality(Stage)]
  /\ UNCHANGED <<reserved, lease, mask, streams, lost>>

\* stage.cancel(), one stage after the other; a stream already closed stays so.
CancelStage(s) ==
  /\ cancel = "counted" /\ s \in streams
  /\ mask' = [mask EXCEPT ![s] = Filled(@, Row, "void")]
  /\ streams' = streams \ {s}
  /\ UNCHANGED <<reserved, cancel, lease, lost, count>>

-----------------------------------------------------------------------------
RowsNext ==
  \/ \E l \in Lease :
       \/ \E n \in 1 .. RowCapacity : Reserve(l, n) \/ \E s \in Stage : Claim(l, s, n)
       \/ Take(l) \/ ClaimFails(l) \/ StreamFails(l) \/ CloseLease(l) \/ Finish(l)
  \/ Cancel
  \/ \E s \in Stage : CancelStage(s)

RowsSpec == RowsInit /\ [][RowsNext]_rowsVars
-----------------------------------------------------------------------------
(* Properties.                                                             *)

RowsTypeOK ==
  /\ reserved \in 0 .. RowCapacity
  /\ cancel \in {"no", "counted"}
  /\ streams \subseteq Stage /\ lost \subseteq MaskRow
  /\ \A s \in Stage : mask[s] \in [RowsOf(s) -> {"unused", "spent", "void"}]
  /\ \A l \in Lease :
       /\ lease[l].st \in {"none", "held", "closing", "closed"}
       /\ lease[l].start + lease[l].rows <= RowCapacity
       /\ \A s \in Stage : lease[l].offset[s] <= Limit(l, s)
  /\ \A k \in DOMAIN count : count[k] \in Nat

Masks == INSTANCE OneTimeMaterial WITH
  Material <- MaskRow, Owner <- Stage, OwnerOf <- LAMBDA k : k[1],
  status <- [k \in MaskRow |-> mask[k[1]][k[2]]]

\* A mask row is given out once, whatever leases overlap in time, fail, are
\* closed or lose the stream, and a burned or cancelled row never: MaskRows
\* under the leases implements OneTimeMaterial.
MasksAreOneTime == Masks!Spec

\* Leases never run into each other's rows, nor into those a failed take left
\* behind, which would close the stream for all of them: while the stream of a
\* stage is open every claim finds its rows unused (MaskRows.take).
TakesDoNotCollide ==
  \A l \in Lease : lease[l].claim # Idle /\ lease[l].claim.stage \in streams => Fits(l)

Owing == [l \in Lease |-> IF lease[l].st \in {"held", "closing"}
                         THEN Covered(lease[l].rows) - Claims(l) ELSE 0]

\* The counters are conserved at every step, and so after the client closed
\* (material_accounting): what was reserved is claimed, burned, or owed by a lease
\* that is not finished; what was issued is reserved, discarded, or available.
Conserved ==
  /\ count.reserved = count.claimed + count.burned + MapThenSumSet(LAMBDA l : Owing[l], Lease)
  /\ cancel # "no" => count.issued = count.reserved + count.discarded

Spent == {k \in MaskRow : mask[k[1]][k[2]] = "spent"}

\* Rows that were claimed and not yet taken.
Pending == [l \in Lease |-> IF lease[l].claim = Idle THEN 0 ELSE lease[l].claim.rows]

\* The audit against the streams: every row that counts as claimed was given out,
\* is about to be, or was lost in a take that raised, and none is two of these.
SpentIsClaimed ==
  /\ Cardinality(Spent) + MapThenSumSet(LAMBDA l : Pending[l], Lease) + Cardinality(lost) = count.claimed
  /\ lost \cap Spent = {}

Unused == {k \in MaskRow : mask[k[1]][k[2]] = "unused"}

\* Nothing is left over: a closed stream has no row that could be used; and when
\* every lease is closed and all is reserved, the rows that close() did not burn
\* are those of takes that raised, which lie below the offsets for ever.
NothingUsable ==
  /\ \A k \in Unused : k[1] \in streams
  /\ (\A l \in Lease : lease[l].st \in {"none", "closed"}) /\ reserved = RowCapacity => Unused \subseteq lost

\* The audit is true: the counters add up, agree row for row with what the streams
\* gave out, and leave nothing that could still be used (material_accounting).
Accounted == RowsTypeOK /\ Conserved /\ SpentIsClaimed /\ NothingUsable

\* Rows are given out once, and leases never stand in each other's way.
OneTimeRows == MasksAreOneTime /\ []TakesDoNotCollide
=============================================================================
