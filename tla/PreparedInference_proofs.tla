---------------------- MODULE PreparedInference_proofs ----------------------
(***************************************************************************)
(* The safety of the inference service, for every number of inventories,   *)
(* sessions, requests, stages and rows, and for all limits.                *)
(*                                                                         *)
(* Each handler moves the rendezvous by operators that evolve it (see      *)
(* Rendezvous_proofs).  Three invariants build on each other.              *)
(*                                                                         *)
(*  PInv  A consumed key is void for good as long as its correction        *)
(*        session is not registered anew.  It is not, because an inventory *)
(*        is created once and the server keeps it, at least as ended.      *)
(*                                                                         *)
(*  SInv  A session may only reserve rows that were loaded, and from then  *)
(*        on each of them has its entry or is void.  Burning the entries   *)
(*        that are left, which is all that burn_reserved does, therefore   *)
(*        voids the reservation: nothing of it is ever loaded again.       *)
(*                                                                         *)
(*  AInv  What the known inventories were admitted with fits in the limits *)
(*        of the rendezvous, and a correction session never takes more     *)
(*        than its inventory was admitted with: it has entries for stages  *)
(*        that were accepted, of no more bytes than their frames, and      *)
(*        those of rows that no session reserved are as they were loaded.  *)
(***************************************************************************)
EXTENDS PreparedInference, Rendezvous_proofs

\* The authorizations create_prepared_inventory registers.
Grants == {[model |-> OneMeta.model, max_attempts |-> Entries(x)] : x \in InventoryRecord}

\* The correction sessions belong to inventories that were created.
SessionsAreCreated == DOMAIN rdv.sessions \subseteq {i \in Sid : inv[i].st # "none"}

\* A key that was consumed was consumed once, of an inventory that was created,
\* and can have no entry any more.
ConsumedIsVoid ==
  \A k \in Key : uses[k] # 0 =>
    uses[k] = 1 /\ inv[k[1]].st # "none" /\ IsVoid(rdv, k)

PInv ==
  /\ IsStoreOf(Grants, rdv) /\ IsSound(rdv)
  /\ inv \in [Sid -> InventoryRecord]
  /\ uses \in [Key -> Nat]
  /\ SessionsAreCreated /\ ConsumedIsVoid

\* What a handler does to the inventories: those created stay so.
Stays(I) ==
  /\ I \in [Sid -> InventoryRecord]
  /\ \A i \in Sid : inv[i].st # "none" => I[i].st # "none"

InventoriesStay == Stays(inv')

\* What it consumes: keys that could have an entry and no longer can.
Consumes(K) ==
  /\ uses' = [k \in Key |-> IF k \in K THEN uses[k] + 1 ELSE uses[k]]
  /\ \A k \in K \cap Key : ~IsVoid(rdv, k) /\ IsVoid(rdv', k)

\* A correction session opens only with the creation of its inventory.
Registers(i) ==
  /\ inv[i].st = "none" /\ inv'[i].st # "none"
  /\ IsStoreOf(Grants, rdv') /\ IsSound(rdv')
  /\ DOMAIN rdv'.sessions \subseteq DOMAIN rdv.sessions \cup {i}
  /\ \A k \in Key : k[1] # i /\ IsVoid(rdv, k) => IsVoid(rdv', k)
  /\ \A k \in Key : k[1] # i /\ HadEntry(rdv, k) => HadEntry(rdv', k)
  /\ uses' = uses

StepShape ==
  /\ InventoriesStay
  /\ \/ Evolves(Grants, rdv, rdv') /\ uses' = uses
     \/ Evolves(Grants, rdv, rdv') /\ \E K : Consumes(K)
     \/ \E i \in Sid : Registers(i)

-----------------------------------------------------------------------------
\* An inventory that was not created.
LEMMA NoInventoryType == NoInventory \in InventoryRecord
BY GridAssumption, LimitsArePositive DEF NoInventory, InventoryRecord

\* Nothing is stored and nothing was consumed.
LEMMA InitInv == Init => PInv
<1> SUFFICES ASSUME Init PROVE PInv
  OBVIOUS
<1>1. IsStoreOf(Grants, rdv) /\ IsSound(rdv) /\ DOMAIN rdv.sessions = {}
  BY DEF Init, Empty, Store, IsStoreOf, IsSound
<1>2. inv \in [Sid -> InventoryRecord] /\ uses \in [Key -> Nat]
  BY NoInventoryType DEF Init
<1> QED BY <1>1, <1>2 DEF Init, PInv, SessionsAreCreated, ConsumedIsVoid

\* Steps of that shape keep the invariant.
LEMMA ShapeKeeps ==
  ASSUME PInv, StepShape
  PROVE  PInv'
<1> USE DEF PInv
<1>1. \A k \in Key : k[1] \in Sid
  BY DEF Key
<1>2. CASE Evolves(Grants, rdv, rdv') /\ uses' = uses
  BY <1>1, <1>2 DEF StepShape, InventoriesStay, Stays, Evolves, SessionsAreCreated, ConsumedIsVoid
<1>3. ASSUME Evolves(Grants, rdv, rdv'), NEW K, Consumes(K)  PROVE PInv'
  <2>1. uses' \in [Key -> Nat]
    BY <1>3 DEF Consumes
  <2>2. SessionsAreCreated'
    BY <1>3 DEF StepShape, InventoriesStay, Stays, Evolves, SessionsAreCreated
  <2>3. ASSUME NEW k \in Key, uses'[k] # 0
        PROVE  uses'[k] = 1 /\ inv'[k[1]].st # "none" /\ IsVoid(rdv', k)
    <3>1. CASE k \in K
      <4>1. ~IsVoid(rdv, k) /\ IsVoid(rdv', k) /\ k[1] \in DOMAIN rdv.sessions
        BY <1>3, <3>1 DEF Consumes, IsVoid
      <4>2. uses[k] = 0
        BY <4>1 DEF ConsumedIsVoid
      <4>3. inv'[k[1]].st # "none"
        BY <1>1, <4>1 DEF SessionsAreCreated, StepShape, InventoriesStay, Stays
      <4> QED BY <1>3, <3>1, <4>1, <4>2, <4>3 DEF Consumes
    <3>2. CASE k \notin K
      BY <1>1, <1>3, <2>3, <3>2 DEF Consumes, ConsumedIsVoid, StepShape, InventoriesStay, Stays, Evolves
    <3> QED BY <3>1, <3>2
  <2> QED BY <1>3, <2>1, <2>2, <2>3 DEF StepShape, InventoriesStay, Stays, Evolves, ConsumedIsVoid
<1>4. ASSUME NEW i \in Sid, Registers(i)  PROVE PInv'
  <2>1. SessionsAreCreated'
    BY <1>4 DEF Registers, StepShape, InventoriesStay, Stays, SessionsAreCreated
  <2>2. ConsumedIsVoid'
    BY <1>1, <1>4 DEF Registers, StepShape, InventoriesStay, Stays, ConsumedIsVoid
  <2> QED BY <1>4, <2>1, <2>2 DEF Registers, StepShape, InventoriesStay, Stays
<1> QED BY <1>2, <1>3, <1>4 DEF StepShape

-----------------------------------------------------------------------------
(* What the handlers have in common.                                       *)

\* The attempt of a stage and a row is one of the grid.
LEMMA GridAttempt ==
  ASSUME NEW g \in Stage, NEW row \in Row
  PROVE  AttemptOf(g, row) \in Attempt
<1>1. /\ g \in Int /\ 1 <= g /\ g <= NStages
      /\ row \in Int /\ 0 <= row /\ row <= MaxRows - 1
      /\ NStages \in Int /\ MaxRows \in Int /\ MaxRows > 0
      /\ NAttempts = NStages * MaxRows
  BY GridAssumption DEF Stage, Row
<1>2. 0 <= (g - 1) * MaxRows
  BY <1>1
<1>3. 0 <= (NStages - g) * MaxRows
  BY <1>1
<1>4. (g - 1) * MaxRows + MaxRows + (NStages - g) * MaxRows = NStages * MaxRows
  BY <1>1
<1> DEFINE below == (g - 1) * MaxRows
           above == (NStages - g) * MaxRows
<1>5. below \in Int /\ above \in Int
  BY <1>1
<1>6. AttemptOf(g, row) = below + row + 1 /\ NAttempts = below + MaxRows + above
  BY <1>1, <1>4 DEF AttemptOf
<1> HIDE DEF below, above
<1> QED BY <1>1, <1>2, <1>3, <1>5, <1>6 DEF Attempt, below, above

\* The rows of a stage of an inventory are attempts.
LEMMA GridAttempts ==
  ASSUME NEW x \in InventoryRecord, NEW g \in Stage
  PROVE  Attempts(x, g) \in SUBSET Attempt
<1>1. x.stage_rows[g] \in 0..MaxRows
  BY DEF InventoryRecord
<1>2. 0..(x.stage_rows[g] - 1) \subseteq Row
  BY <1>1, GridAssumption DEF Row
<1> QED BY <1>2, GridAttempt DEF Attempts

\* Updates of an inventory.
LEMMA InventoryUpdates ==
  ASSUME NEW x \in InventoryRecord
  PROVE  /\ [x EXCEPT !.st = "ended"] \in InventoryRecord
         /\ [x EXCEPT !.st = "ended"].st = "ended"
         /\ [x EXCEPT !.idle = 0, !.st = "ended"] \in InventoryRecord
         /\ [x EXCEPT !.idle = 0, !.st = "ended"].st = "ended"
         /\ [x EXCEPT !.st = "ended", !.idle = 0] \in InventoryRecord
         /\ [x EXCEPT !.st = "ended", !.idle = 0].st = "ended"
         /\ \A n \in 0..IdleTimeout :
              [x EXCEPT !.idle = n] \in InventoryRecord /\ [x EXCEPT !.idle = n].st = x.st
         /\ \A S \in SUBSET Stage : /\ [x EXCEPT !.idle = 0, !.prepared = S] \in InventoryRecord
                                    /\ [x EXCEPT !.idle = 0, !.prepared = S].st = x.st
         /\ \A b \in BOOLEAN : /\ [x EXCEPT !.idle = 0, !.ready = b] \in InventoryRecord
                               /\ [x EXCEPT !.idle = 0, !.ready = b].st = x.st
         /\ \A n \in 0..MaxRows : /\ [x EXCEPT !.next = n, !.idle = 0] \in InventoryRecord
                                  /\ [x EXCEPT !.next = n, !.idle = 0].st = x.st
<1>1. 0 \in 0..IdleTimeout
  BY LimitsArePositive
<1>2. /\ [x EXCEPT !.st = "ended"] \in InventoryRecord
      /\ [x EXCEPT !.st = "ended"].st = "ended"
  BY DEF InventoryRecord
<1>3. /\ [x EXCEPT !.idle = 0, !.st = "ended"] \in InventoryRecord
      /\ [x EXCEPT !.idle = 0, !.st = "ended"].st = "ended"
  BY <1>1 DEF InventoryRecord
<1>4. /\ [x EXCEPT !.st = "ended", !.idle = 0] \in InventoryRecord
      /\ [x EXCEPT !.st = "ended", !.idle = 0].st = "ended"
  BY <1>1 DEF InventoryRecord
<1>5. ASSUME NEW n \in 0..IdleTimeout
      PROVE  [x EXCEPT !.idle = n] \in InventoryRecord /\ [x EXCEPT !.idle = n].st = x.st
  BY <1>5 DEF InventoryRecord
<1>6. ASSUME NEW S \in SUBSET Stage
      PROVE  /\ [x EXCEPT !.idle = 0, !.prepared = S] \in InventoryRecord
             /\ [x EXCEPT !.idle = 0, !.prepared = S].st = x.st
  BY <1>1, <1>6 DEF InventoryRecord
<1>7. ASSUME NEW b \in BOOLEAN
      PROVE  /\ [x EXCEPT !.idle = 0, !.ready = b] \in InventoryRecord
             /\ [x EXCEPT !.idle = 0, !.ready = b].st = x.st
  BY <1>1, <1>7 DEF InventoryRecord
<1>8. ASSUME NEW n \in 0..MaxRows
      PROVE  /\ [x EXCEPT !.next = n, !.idle = 0] \in InventoryRecord
             /\ [x EXCEPT !.next = n, !.idle = 0].st = x.st
  BY <1>1, <1>8 DEF InventoryRecord
<1> QED BY <1>2, <1>3, <1>4, <1>5, <1>6, <1>7, <1>8

\* An inventory replaced by one that is created as well.
LEMMA StaysExcept ==
  ASSUME NEW I, Stays(I), NEW i \in Sid, NEW x \in InventoryRecord,
         I[i].st # "none" => x.st # "none"
  PROVE  Stays([I EXCEPT ![i] = x])
BY DEF Stays

\* cleanup_prepared_sessions forgets inventories, which stay created.
LEMMA CleanStays ==
  ASSUME PInv, NEW b \in BOOLEAN
  PROVE  Stays(CleanInv(b))
<1>1. /\ [NoInventory EXCEPT !.st = "ended"] \in InventoryRecord
      /\ [NoInventory EXCEPT !.st = "ended"].st = "ended"
  BY NoInventoryType, InventoryUpdates
<1> QED BY <1>1 DEF PInv, Stays, CleanInv

\* The same on the rendezvous: it burns reservations and ends correction sessions.
LEMMA CleanEvolves ==
  ASSUME PInv, NEW b \in BOOLEAN
  PROVE  /\ Evolves(Grants, rdv, CleanRdv(b))
         /\ IsStoreOf(Grants, CleanRdv(b)) /\ IsSound(CleanRdv(b))
<1> DEFINE K == ReservedKeys(DueSessions(b)) \cap DOMAIN rdv.entries
           q == Burn(rdv, K)
<1> HIDE DEF K
<1>1. Evolves(Grants, rdv, q)
  BY BurnEvolves DEF PInv
<1>2. Evolves(Grants, q, Terminal(q, DueInventories(b)))
  BY <1>1, TerminalEvolves DEF Evolves
<1>3. CleanRdv(b) = Terminal(q, DueInventories(b))
  BY DEF CleanRdv, K
<1> QED BY <1>1, <1>2, <1>3, EvolvesTransitive DEF Evolves

\* The store of a handler after both cleanups.
LEMMA CleanTwiceEvolves ==
  ASSUME PInv, NEW b \in BOOLEAN
  PROVE  /\ Evolves(Grants, rdv, Cleanup(CleanRdv(b)))
         /\ IsStoreOf(Grants, Cleanup(CleanRdv(b))) /\ IsSound(Cleanup(CleanRdv(b)))
<1>1. Evolves(Grants, CleanRdv(b), Cleanup(CleanRdv(b)))
  BY CleanEvolves, CleanupEvolves
<1> QED BY <1>1, CleanEvolves, EvolvesTransitive DEF Evolves

\* _cleanup_locked alone.
LEMMA CleanupKeeps ==
  ASSUME PInv
  PROVE  /\ Evolves(Grants, rdv, Cleanup(rdv))
         /\ IsStoreOf(Grants, Cleanup(rdv)) /\ IsSound(Cleanup(rdv))
BY CleanupEvolves DEF PInv, Evolves

\* Nothing at all.
LEMMA Stutters ==
  ASSUME PInv
  PROVE  Stays(inv) /\ Evolves(Grants, rdv, rdv)
BY DEF PInv, Stays, Evolves

\* The usual step.
LEMMA QuietStep ==
  ASSUME Stays(inv'), Evolves(Grants, rdv, rdv'), uses' = uses
  PROVE  StepShape
BY DEF StepShape, InventoriesStay

\* Activity of an inventory, or of an id that names none.
LEMMA TouchStays ==
  ASSUME NEW I, Stays(I), NEW i
  PROVE  Stays([I EXCEPT ![i].idle = 0])
<1>1. CASE i \in Sid
  <2>1. I[i] \in InventoryRecord /\ 0 \in 0..IdleTimeout
    BY <1>1, LimitsArePositive DEF Stays
  <2>2. [I[i] EXCEPT !.idle = 0] \in InventoryRecord /\ [I[i] EXCEPT !.idle = 0].st = I[i].st
    BY <2>1, InventoryUpdates
  <2> QED BY <1>1, <2>2, StaysExcept
<1>2. CASE i \notin Sid
  <2>1. [I EXCEPT ![i].idle = 0] = I
    BY <1>2 DEF Stays
  <2> QED BY <2>1
<1> QED BY <1>1, <1>2

\* The end of one.
LEMMA EndStays ==
  ASSUME NEW I, Stays(I), NEW i
  PROVE  Stays([I EXCEPT ![i].st = "ended", ![i].idle = 0])
<1>1. CASE i \in Sid
  <2> DEFINE x == [I[i] EXCEPT !.st = "ended", !.idle = 0]
  <2>1. x \in InventoryRecord /\ x.st = "ended"
    BY <1>1, InventoryUpdates DEF Stays
  <2>2. [I EXCEPT ![i].st = "ended", ![i].idle = 0] = [I EXCEPT ![i] = x]
    BY <1>1 DEF Stays
  <2> HIDE DEF x
  <2> QED BY <1>1, <2>1, <2>2, StaysExcept
<1>2. CASE i \notin Sid
  <2>1. [I EXCEPT ![i].st = "ended", ![i].idle = 0] = I
    BY <1>2 DEF Stays
  <2> QED BY <2>1
<1> QED BY <1>1, <1>2

-----------------------------------------------------------------------------
(* The handlers of inventories.                                            *)

\* The inventory it creates.
LEMMA CreatedInventory ==
  ASSUME NEW rows \in 1..MaxRows, NEW stage_rows \in [Stage -> 1..MaxRows],
         NEW demand \in BOOLEAN
  PROVE  LET x == [NoInventory EXCEPT !.st = "live", !.known = TRUE, !.rows = rows,
                                      !.stage_rows = stage_rows, !.demand = demand]
         IN  x \in InventoryRecord /\ x.st = "live"
<1>1. rows \in 0..MaxRows
  BY GridAssumption
<1>2. stage_rows \in [Stage -> 0..MaxRows]
  <2>1. \A n \in 1..MaxRows : n \in 0..MaxRows
    BY GridAssumption
  <2> QED BY <2>1
<1> QED BY <1>1, <1>2, NoInventoryType DEF InventoryRecord

\* create_prepared_inventory registers the correction session of an inventory
\* that was not created before.
LEMMA CreateInventoryShape ==
  ASSUME PInv, NEW i \in Sid, NEW rows \in 1..MaxRows,
         NEW stage_rows \in [Stage -> 1..MaxRows], NEW demand \in BOOLEAN,
         CreateInventory(i, rows, stage_rows, demand)
  PROVE  StepShape
<1> DEFINE I == CleanInv(TRUE)
           x == [NoInventory EXCEPT !.st = "live", !.known = TRUE, !.rows = rows,
                                    !.stage_rows = stage_rows, !.demand = demand]
           r == Cleanup(CleanRdv(TRUE))
           auth == [model |-> OneMeta.model, max_attempts |-> Entries(x)]
<1>1. Stays(I) /\ Evolves(Grants, rdv, r)
  BY CleanStays, CleanTwiceEvolves
<1>2. Evolves(Grants, rdv, CleanRdv(TRUE))
  BY CleanEvolves
<1>3. x \in InventoryRecord /\ x.st = "live"
  BY CreatedInventory
<1>4. auth \in Grants
  <2> HIDE DEF x
  <2> QED BY <1>3 DEF Grants
<1>5. /\ inv[i].st = "none" /\ uses' = uses
      /\ \/ rdv' = Register(r, i, auth) /\ inv' = [I EXCEPT ![i] = x] /\ CanRegister(r, i)
         \/ rdv' = r /\ inv' = I
         \/ rdv' = CleanRdv(TRUE) /\ inv' = I
  BY DEF CreateInventory
<1> HIDE DEF I, x, r, auth
<1>6. CASE rdv' = Register(r, i, auth) /\ inv' = [I EXCEPT ![i] = x] /\ CanRegister(r, i)
  <2>1. Stays(inv')
    BY <1>1, <1>3, <1>6, StaysExcept
  <2>2. /\ IsStoreOf(Grants, rdv') /\ IsSound(rdv')
        /\ DOMAIN rdv'.sessions = DOMAIN r.sessions \cup {i}
        /\ \A k \in Key : k[1] # i => (IsVoid(r, k) <=> IsVoid(rdv', k))
        /\ rdv'.entries = r.entries
    BY <1>1, <1>4, <1>6, RegisterEvolves DEF Evolves, CanRegister
  <2>3. inv'[i].st = "live"
    BY <1>1, <1>3, <1>6 DEF Stays
  <2>4. Registers(i)
    BY <1>1, <1>5, <2>2, <2>3 DEF Registers, Evolves, HadEntry
  <2> QED BY <2>1, <2>4 DEF StepShape, InventoriesStay
<1>7. CASE inv' = I /\ (rdv' = r \/ rdv' = CleanRdv(TRUE))
  BY <1>1, <1>2, <1>5, <1>7, QuietStep
<1> QED BY <1>5, <1>6, <1>7

\* authorize_prepared_session, before its await ...
LEMMA BeginAuthorizeShape ==
  ASSUME PInv, NEW i \in Sid, BeginAuthorize(i)
  PROVE  StepShape
<1>1. Stays(CleanInv(FALSE)) /\ Evolves(Grants, rdv, CleanRdv(FALSE))
  BY CleanStays, CleanEvolves
<1>2. Stays([CleanInv(FALSE) EXCEPT ![i].idle = 0])
  BY <1>1, TouchStays
<1>3. rdv' = CleanRdv(FALSE) /\ uses' = uses
  BY DEF BeginAuthorize
<1>4. inv' = [CleanInv(FALSE) EXCEPT ![i].idle = 0] \/ inv' = CleanInv(FALSE)
  BY DEF BeginAuthorize
<1> QED BY <1>1, <1>2, <1>3, <1>4, QuietStep

\* ... and after it.
LEMMA EndAuthorizeShape ==
  ASSUME PInv, NEW i \in Sid, EndAuthorize(i)
  PROVE  StepShape
<1> DEFINE r == Cleanup(rdv)
<1>1. /\ Evolves(Grants, rdv, r) /\ IsStoreOf(Grants, r) /\ IsSound(r)
      /\ Stays(inv)
  BY CleanupKeeps, Stutters
<1>2. /\ rdv' = r \/ (rdv' = Authorize(r, i) /\ i \in DOMAIN r.sessions)
      /\ inv' = inv /\ uses' = uses
  BY DEF EndAuthorize
<1> HIDE DEF r
<1>3. i \in DOMAIN r.sessions => Evolves(Grants, rdv, Authorize(r, i))
  BY <1>1, AuthorizeEvolves, EvolvesTransitive
<1> QED BY <1>1, <1>2, <1>3, QuietStep

\* accept_prepared_correction preloads one stage or changes nothing.
LEMMA AcceptCorrectionShape ==
  ASSUME PInv, NEW i \in Sid, NEW stage \in Stage, AcceptCorrection(i, stage)
  PROVE  StepShape
<1> DEFINE I == CleanInv(FALSE)
           R == CleanRdv(FALSE)
           r == Cleanup(R)
           A == Attempts(I[i], stage)
           payload == Frame(I[i], stage)
<1>1. /\ Stays(I) /\ Evolves(Grants, rdv, R)
      /\ Evolves(Grants, rdv, r) /\ IsStoreOf(Grants, r) /\ IsSound(r)
  BY CleanStays, CleanEvolves, CleanTwiceEvolves
<1>2. /\ uses' = uses
      /\ \/ rdv' = R \/ rdv' = r
         \/ rdv' = Preload(r, i, A, OneMeta, payload) /\ CanPreload(r, i, A, OneMeta, payload)
  BY DEF AcceptCorrection
<1>3. I[i] \in InventoryRecord
  BY <1>1 DEF Stays
<1>4. A \in SUBSET Attempt
  <2> HIDE DEF I
  <2> QED BY <1>3, GridAttempts
<1>5. payload \in Nat
  <2> HIDE DEF I
  <2>1. I[i].stage_rows[stage] \in Nat
    BY <1>3, GridAssumption DEF InventoryRecord
  <2>2. BytesPerRow * I[i].stage_rows[stage] \in Nat /\ Header \in Nat
    BY <2>1, GridAssumption
  <2> QED BY <2>2 DEF Frame
<1>6. Stays(inv')
  <2> DEFINE new == stage \notin I[i].prepared /\ CanPreload(r, i, A, OneMeta, payload)
             S == I[i].prepared \cup (IF new THEN {stage} ELSE {})
             x == [I[i] EXCEPT !.idle = 0, !.prepared = S]
  <2>1. inv' = [I EXCEPT ![i] = IF IsLive(I[i]) THEN x ELSE I[i]]
    BY DEF AcceptCorrection
  <2> HIDE DEF I, A, payload, r
  <2>2. S \in SUBSET Stage
    BY <1>3 DEF InventoryRecord
  <2> HIDE DEF S
  <2>3. x \in InventoryRecord /\ x.st = I[i].st
    BY <1>3, <2>2, InventoryUpdates
  <2> HIDE DEF x
  <2> QED BY <1>1, <1>3, <2>1, <2>3, StaysExcept
<1> HIDE DEF I, R, r, A, payload
<1>7. CanPreload(r, i, A, OneMeta, payload) =>
        Evolves(Grants, rdv, Preload(r, i, A, OneMeta, payload))
  BY <1>1, <1>4, <1>5, GridAssumption, PreloadEvolves, EvolvesTransitive
<1> QED BY <1>1, <1>2, <1>6, <1>7, QuietStep

\* seal_prepared_inventory
LEMMA SealInventoryShape ==
  ASSUME PInv, NEW i \in Sid, SealInventory(i)
  PROVE  StepShape
<1> DEFINE I == CleanInv(FALSE)
           b == I[i].ready \/ (IsLive(I[i]) /\ I[i].prepared = Stage)
           x == [I[i] EXCEPT !.idle = 0, !.ready = b]
<1>1. Stays(I) /\ Evolves(Grants, rdv, CleanRdv(FALSE))
  BY CleanStays, CleanEvolves
<1>2. /\ rdv' = CleanRdv(FALSE) /\ uses' = uses
      /\ inv' = [I EXCEPT ![i] = IF I[i].known THEN x ELSE I[i]]
  BY DEF SealInventory
<1> HIDE DEF I
<1>3. I[i] \in InventoryRecord
  BY <1>1 DEF Stays
<1>4. b \in BOOLEAN
  BY <1>3 DEF InventoryRecord
<1> HIDE DEF b
<1>5. x \in InventoryRecord /\ x.st = I[i].st
  BY <1>3, <1>4, InventoryUpdates
<1> HIDE DEF x
<1>6. Stays(inv')
  BY <1>1, <1>2, <1>3, <1>5, StaysExcept
<1> QED BY <1>1, <1>2, <1>6, QuietStep

\* get_prepared_inventory
LEMMA GetInventoryShape ==
  ASSUME PInv, NEW i \in Sid, GetInventory(i)
  PROVE  StepShape
<1> DEFINE I == CleanInv(TRUE)
<1>1. Stays(I) /\ Evolves(Grants, rdv, CleanRdv(TRUE))
  BY CleanStays, CleanEvolves
<1>2. /\ rdv' = CleanRdv(TRUE) /\ uses' = uses
      /\ inv' = [I EXCEPT ![i] = IF IsLive(I[i]) THEN [I[i] EXCEPT !.idle = 0] ELSE I[i]]
  BY DEF GetInventory
<1> HIDE DEF I
<1>3. I[i] \in InventoryRecord /\ 0 \in 0..IdleTimeout
  BY <1>1, LimitsArePositive DEF Stays
<1>4. [I[i] EXCEPT !.idle = 0] \in InventoryRecord /\ [I[i] EXCEPT !.idle = 0].st = I[i].st
  BY <1>3, InventoryUpdates
<1>5. Stays(inv')
  BY <1>1, <1>2, <1>3, <1>4, StaysExcept
<1> QED BY <1>1, <1>2, <1>5, QuietStep

\* cancel_prepared_inventory and cancel_runtime_session of an inventory set the
\* same flags; the first also ends the correction session.
LEMMA CancelInventoryShape ==
  ASSUME PInv, NEW i \in Sid, CancelInventory(i) \/ CancelInventoryAsSession(i)
  PROVE  StepShape
<1> DEFINE I == CleanInv(FALSE)
           R == CleanRdv(FALSE)
           x == [I[i] EXCEPT !.idle = 0, !.st = "ended"]
<1>1. /\ Stays(I)
      /\ Evolves(Grants, rdv, R) /\ IsStoreOf(Grants, R) /\ IsSound(R)
  BY CleanStays, CleanEvolves
<1>2. /\ rdv' = Terminal(R, {i}) \/ rdv' = R
      /\ uses' = uses
      /\ inv' = [I EXCEPT ![i] = IF I[i].known THEN x ELSE I[i]]
  BY DEF CancelInventory, CancelInventoryAsSession
<1> HIDE DEF I, R
<1>3. I[i] \in InventoryRecord
  BY <1>1 DEF Stays
<1>4. x \in InventoryRecord /\ x.st = "ended"
  BY <1>3, InventoryUpdates
<1> HIDE DEF x
<1>5. Stays(inv')
  BY <1>1, <1>2, <1>3, <1>4, StaysExcept
<1>6. Evolves(Grants, rdv, Terminal(R, {i}))
  BY <1>1, TerminalEvolves, EvolvesTransitive
<1> QED BY <1>1, <1>2, <1>5, <1>6, QuietStep

\* complete_session of an inventory
LEMMA CompleteInventoryShape ==
  ASSUME PInv, NEW i \in Sid, CompleteInventoryAsSession(i)
  PROVE  StepShape
<1> DEFINE x == [inv[i] EXCEPT !.st = "ended"]
<1>1. Stays(inv) /\ Evolves(Grants, rdv, rdv)
  BY Stutters
<1>2. x \in InventoryRecord /\ x.st = "ended"
  BY InventoryUpdates DEF PInv
<1>3. rdv' = rdv /\ uses' = uses /\ inv' = [inv EXCEPT ![i] = x]
  BY DEF CompleteInventoryAsSession
<1> HIDE DEF x
<1>4. Stays(inv')
  BY <1>1, <1>2, <1>3, StaysExcept
<1> QED BY <1>1, <1>3, <1>4, QuietStep

-----------------------------------------------------------------------------
(* The handlers of sessions.                                               *)

\* create_session moves the cursor of an inventory, at most to its end.
LEMMA CreateSessionShape ==
  ASSUME PInv, NEW e \in Ses, NEW i \in Sid, NEW start \in Row, NEW rows \in 1..MaxRows,
         CreateSession(e, i, start, rows)
  PROVE  StepShape
<1> DEFINE I == CleanInv(TRUE)
           n == NextRow(I[i], rows)
           x == [I[i] EXCEPT !.next = n, !.idle = 0]
<1>1. Stays(I) /\ Evolves(Grants, rdv, CleanRdv(TRUE))
  BY CleanStays, CleanEvolves
<1>2. rdv' = CleanRdv(TRUE) /\ uses' = uses
  BY DEF CreateSession
<1>3. \/ inv' = I
      \/ inv' = [I EXCEPT ![i].next = n, ![i].idle = 0] /\ Available(I[i], start, rows)
  BY DEF CreateSession
<1> HIDE DEF I
<1>4. I[i] \in InventoryRecord
  BY <1>1 DEF Stays
<1>5. Available(I[i], start, rows) => n \in 0..MaxRows
  <2>1. I[i].rows \in 0..MaxRows /\ I[i].next \in 0..MaxRows
    BY <1>4 DEF InventoryRecord
  <2> QED BY <2>1, GridAssumption DEF Available, NextRow
<1> HIDE DEF n
<1>6. Available(I[i], start, rows) => x \in InventoryRecord /\ x.st = I[i].st
  BY <1>4, <1>5, InventoryUpdates
<1>7. [I EXCEPT ![i].next = n, ![i].idle = 0] = [I EXCEPT ![i] = x]
  BY <1>1 DEF Stays
<1> HIDE DEF x
<1>8. Stays(inv')
  BY <1>1, <1>3, <1>6, <1>7, StaysExcept
<1> QED BY <1>1, <1>2, <1>8, QuietStep

\* The end of a session e, its flag set in S: cancel_response retires no inventory.
Ends(e, I, S, r) ==
  \/ EndSession(e, I, S, r)
  \/ ses' = S /\ inv' = I /\ rdv' = BurnReserved(r, S[e].inv, S[e].reserved)

\* The common end of a session burns its reservation and may retire an inventory.
LEMMA EndSessionEvolves ==
  ASSUME NEW I, Stays(I), NEW S, NEW e, NEW r, IsStoreOf(Grants, r), IsSound(r),
         Ends(e, I, S, r)
  PROVE  Stays(inv') /\ Evolves(Grants, r, rdv')
<1> DEFINE i == S[e].inv
           K == ({i} \X S[e].reserved) \cap DOMAIN r.entries
           q == Burn(r, K)
<1>1. /\ inv' = I \/ inv' = [I EXCEPT ![i].st = "ended", ![i].idle = 0]
      /\ rdv' = q \/ rdv' = Terminal(q, {i})
  BY DEF Ends, EndSession, BurnReserved
<1> HIDE DEF i, K
<1>2. Stays(inv')
  BY <1>1, EndStays
<1>3. Evolves(Grants, r, q)
  BY BurnEvolves
<1> HIDE DEF q
<1>4. Evolves(Grants, q, Terminal(q, {i}))
  BY <1>3, TerminalEvolves DEF Evolves
<1> QED BY <1>1, <1>2, <1>3, <1>4, EvolvesTransitive

\* cancel_runtime_session
LEMMA CancelSessionShape ==
  ASSUME PInv, NEW e \in Ses, CancelSession(e)
  PROVE  StepShape
<1> DEFINE I == CleanInv(FALSE)
           R == CleanRdv(FALSE)
           S == [CleanSes(FALSE) EXCEPT ![e].st = "ended", ![e].idle = 0]
<1>1. /\ Stays(I)
      /\ Evolves(Grants, rdv, R) /\ IsStoreOf(Grants, R) /\ IsSound(R)
  BY CleanStays, CleanEvolves
<1>2. /\ EndSession(e, I, S, R) \/ (inv' = I /\ rdv' = R)
      /\ uses' = uses
  BY DEF CancelSession
<1> HIDE DEF I, R, S
<1>3. Stays(inv') /\ Evolves(Grants, rdv, rdv')
  <2>1. CASE EndSession(e, I, S, R)
    BY <1>1, <2>1, EndSessionEvolves, EvolvesTransitive DEF Ends
  <2> QED BY <1>1, <1>2, <2>1
<1> QED BY <1>2, <1>3, QuietStep

\* get_session, on every route that starts with it
LEMMA GetSessionShape ==
  ASSUME PInv, NEW e, GetSession(e), uses' = uses
  PROVE  StepShape
<1>1. Stays(CleanInv(FALSE)) /\ Evolves(Grants, rdv, CleanRdv(FALSE))
  BY CleanStays, CleanEvolves
<1> QED BY <1>1, QuietStep DEF GetSession

\* complete_session after its await, and cancel_response
LEMMA EndCompleteShape ==
  ASSUME PInv, NEW e \in Ses, EndComplete(e) \/ CancelResponse(e)
  PROVE  StepShape
<1> DEFINE S == [ses EXCEPT ![e].st = "ended"]
<1>1. Ends(e, inv, S, rdv) /\ uses' = uses
  BY DEF EndComplete, CancelResponse, Ends
<1> HIDE DEF S
<1>2. Stays(inv) /\ IsStoreOf(Grants, rdv) /\ IsSound(rdv)
  BY Stutters DEF PInv
<1> QED BY <1>1, <1>2, EndSessionEvolves, QuietStep

-----------------------------------------------------------------------------
(* Requests.                                                               *)

\* validate_prepared_request touches an inventory or nothing.
LEMMA RequestTouches ==
  ASSUME PInv, NEW e, TouchInventory(e)
  PROVE  Stays(inv')
<1>1. inv' = [inv EXCEPT ![InventoryOf(e)].idle = 0] \/ inv' = inv
  BY DEF TouchInventory
<1> QED BY <1>1, Stutters, TouchStays

\* consume_preloaded_batch consumes every row it is asked for, each from an
\* entry, and burns them all.
LEMMA BatchConsumes ==
  ASSUME PInv, NEW i, NEW A \in SUBSET Attempt,
         BatchIsOpen(Cleanup(rdv), i, OneMeta), BatchIsReady(Cleanup(rdv), i, A, OneMeta),
         rdv' = ConsumeBatch(Cleanup(rdv), i, A)
  PROVE  /\ Evolves(Grants, rdv, rdv')
         /\ \A k \in ({i} \X A) \cap Key : ~IsVoid(rdv, k) /\ IsVoid(rdv', k)
<1> DEFINE r == Cleanup(rdv)
           K == {i} \X A
           q == Burn(r, K)
<1>1. Evolves(Grants, rdv, r) /\ IsStoreOf(Grants, r) /\ IsSound(r)
  BY CleanupKeeps
<1>2. \A k \in K : k \in DOMAIN r.entries
  BY DEF BatchIsReady
<1>3. i \in DOMAIN r.sessions /\ rdv' = Touch(q, i)
  BY DEF BatchIsOpen, IsOpen, ConsumeBatch
<1> HIDE DEF r, K
<1>4. /\ Evolves(Grants, r, q) /\ i \in DOMAIN q.sessions
      /\ \A k \in K \cap Key : IsVoid(q, k)
  BY <1>1, <1>3, BurnEvolves
<1> HIDE DEF q
<1>5. Evolves(Grants, q, Touch(q, i))
  BY <1>4, TouchEvolves DEF Evolves
<1>6. Evolves(Grants, rdv, rdv')
  BY <1>1, <1>3, <1>4, <1>5, EvolvesTransitive
<1>7. ASSUME NEW k \in K \cap Key  PROVE ~IsVoid(rdv, k) /\ IsVoid(rdv', k)
  <2>1. ~IsVoid(r, k)
    BY <1>1, <1>2, EntryIsOpen
  <2> QED BY <1>1, <1>3, <1>4, <1>5, <2>1 DEF Evolves
<1> QED BY <1>6, <1>7 DEF K

\* execute_prepared_payloads
LEMMA SubmitBatchShape ==
  ASSUME PInv, NEW p, NEW kind, NEW A \in SUBSET Attempt, SubmitBatch(p, kind, A)
  PROVE  StepShape
<1> DEFINE i == InventoryOf(req[p].ses)
           r == Cleanup(rdv)
           K == {i} \X A
<1>1. Stays(inv')
  BY RequestTouches DEF SubmitBatch
<1>2. /\ Evolves(Grants, rdv, r) /\ IsStoreOf(Grants, r) /\ IsSound(r)
      /\ Evolves(Grants, rdv, rdv)
  BY CleanupKeeps, Stutters
<1>3. \/ uses' = uses /\ (rdv' = rdv \/ rdv' = r \/ rdv' = Burn(r, K))
      \/ /\ BatchIsOpen(r, i, OneMeta) /\ BatchIsReady(r, i, A, OneMeta)
         /\ rdv' = ConsumeBatch(r, i, A)
         /\ uses' = [k \in Key |-> IF k \in K THEN uses[k] + 1 ELSE uses[k]]
  BY DEF SubmitBatch
<1>4. CASE uses' = uses /\ (rdv' = rdv \/ rdv' = r \/ rdv' = Burn(r, K))
  <2> HIDE DEF r, K
  <2>1. Evolves(Grants, rdv, Burn(r, K))
    BY <1>2, BurnEvolves, EvolvesTransitive
  <2> QED BY <1>1, <1>2, <1>4, <2>1, QuietStep
<1>5. CASE /\ BatchIsOpen(r, i, OneMeta) /\ BatchIsReady(r, i, A, OneMeta)
           /\ rdv' = ConsumeBatch(r, i, A)
           /\ uses' = [k \in Key |-> IF k \in K THEN uses[k] + 1 ELSE uses[k]]
  <2>1. Evolves(Grants, rdv, rdv') /\ \A k \in K \cap Key : ~IsVoid(rdv, k) /\ IsVoid(rdv', k)
    <3> HIDE DEF i
    <3> QED BY <1>5, BatchConsumes
  <2> HIDE DEF K
  <2>2. Consumes(K)
    BY <1>5, <2>1 DEF Consumes
  <2> QED BY <1>1, <2>1, <2>2 DEF StepShape, InventoriesStay
<1> QED BY <1>3, <1>4, <1>5

\* Activating every row of an open session adds or changes their entries.
LEMMA ActivateAllEvolves ==
  ASSUME NEW r, IsStoreOf(Grants, r), IsSound(r), NEW i, IsOpen(r, i),
         NEW A \in SUBSET Attempt, NEW p \in Holder,
         \A a \in A : CanHaveEntry(r, <<i, a>>)
  PROVE  Evolves(Grants, r, ActivateAll(r, i, A, p))
<1> DEFINE at(a) == Activated(WithEntry(r, <<i, a>>), <<i, a>>, OneMeta, p).entries[<<i, a>>]
           f == [a \in A |-> at(a)]
           K == {i} \X A
           q == Store(r.sessions,
                      [k \in DOMAIN r.entries \cup K |-> IF k \in K THEN f[k[2]] ELSE r.entries[k]],
                      r.bytes + 0)
<1>1. ActivateAll(r, i, A, p) = Touch(q, i)
  BY DEF ActivateAll, AddEntries
<1>2. i \in DOMAIN r.sessions /\ i \in Sid /\ OneMeta \in Meta
  BY GridAssumption DEF IsOpen, IsStoreOf
<1>3. ASSUME NEW a \in A  PROVE at(a) \in Entry
  <2> DEFINE k == <<i, a>>
             w == WithEntry(r, k)
             v == Activated(w, k, OneMeta, p)
  <2>1. k \in Key /\ k[1] = i /\ CanHaveEntry(r, k)
    BY <1>2 DEF Key
  <2> HIDE DEF k
  <2>2. IsStoreOf(Grants, w) /\ IsSound(w) /\ k \in DOMAIN w.entries
    BY <2>1, WithEntryEvolves DEF Evolves
  <2> HIDE DEF w
  <2>3. IsStoreOf(Grants, v)
    BY <1>2, <2>2, ActivatedEvolves DEF Evolves
  <2>4. k \in DOMAIN v.entries
    BY <2>2 DEF Activated, UpdateEntry, Store
  <2> HIDE DEF v
  <2>5. v.entries[k] \in Entry
    BY <2>3, <2>4 DEF IsStoreOf
  <2> QED BY <2>5 DEF v, w, k
<1> HIDE DEF at
<1>4. \A a \in A : f[a] \in Entry
  BY <1>3
<1> HIDE DEF f
<1>5. K \in SUBSET Key /\ \A k \in K : k[2] \in A
  BY <1>2 DEF Key
<1>6. \A k \in K : IsOpen(r, k[1]) /\ k[2] \notin r.sessions[k[1]].burned
  BY DEF CanHaveEntry
<1>7. q = Store(q.sessions, q.entries, q.bytes) /\ q.sessions = r.sessions
  BY DEF Store
<1>8. q.entries \in [DOMAIN r.entries \cup K -> Entry]
  <2> HIDE DEF K
  <2> QED BY <1>4, <1>5 DEF Store, IsStoreOf
<1> HIDE DEF q, K
<1>9. Evolves(Grants, r, q) /\ i \in DOMAIN q.sessions
  BY <1>2, <1>5, <1>6, <1>7, <1>8, EntriesEvolve
<1>10. Evolves(Grants, q, Touch(q, i))
  BY <1>9, TouchEvolves DEF Evolves
<1> QED BY <1>1, <1>9, <1>10, EvolvesTransitive

\* run_prepared_requests, up to its first await, consumes nothing.
LEMMA SubmitMultiShape ==
  ASSUME PInv, NEW p \in Holder, NEW A \in SUBSET Attempt, SubmitMulti(p, A)
  PROVE  StepShape
<1> DEFINE i == InventoryOf(req[p].ses)
           r == Cleanup(rdv)
           Lost(B, b) == {i} \X (B \cup {a \in {b} : CanHaveEntry(r, <<i, a>>)})
<1>1. Stays(inv') /\ uses' = uses
  BY RequestTouches DEF SubmitMulti
<1>2. /\ Evolves(Grants, rdv, r) /\ IsStoreOf(Grants, r) /\ IsSound(r)
      /\ Evolves(Grants, rdv, rdv)
  BY CleanupKeeps, Stutters
<1>3. \/ rdv' = rdv \/ rdv' = r
      \/ IsOpen(r, i) /\ \E B, b : rdv' = Touch(Burn(r, Lost(B, b)), i)
      \/ /\ IsOpen(r, i) /\ \A a \in A : CanHaveEntry(r, <<i, a>>)
         /\ rdv' = ActivateAll(r, i, A, p)
  BY DEF SubmitMulti, Activates
<1> HIDE DEF i, r, Lost
<1>4. ASSUME IsOpen(r, i), NEW K  PROVE Evolves(Grants, rdv, Touch(Burn(r, K), i))
  <2> DEFINE q == Burn(r, K)
  <2>1. Evolves(Grants, r, q) /\ i \in DOMAIN q.sessions
    BY <1>2, <1>4, BurnEvolves DEF IsOpen
  <2> HIDE DEF q
  <2>2. Evolves(Grants, q, Touch(q, i))
    BY <2>1, TouchEvolves DEF Evolves
  <2>3. Evolves(Grants, rdv, Touch(q, i))
    BY <1>2, <2>1, <2>2, EvolvesTransitive
  <2> QED BY <2>3 DEF q
<1>5. CASE IsOpen(r, i) /\ (\A a \in A : CanHaveEntry(r, <<i, a>>))
           /\ rdv' = ActivateAll(r, i, A, p)
  <2>1. Evolves(Grants, r, rdv')
    BY <1>2, <1>5, ActivateAllEvolves
  <2>2. Evolves(Grants, rdv, rdv')
    BY <1>2, <2>1, EvolvesTransitive
  <2> QED BY <1>1, <2>2, QuietStep
<1> QED BY <1>1, <1>2, <1>3, <1>4, <1>5, QuietStep

\* A task of the gather consumes the row it holds.
LEMMA TakeRowShape ==
  ASSUME PInv, NEW p \in Holder, NEW a \in Attempt, TakeRow(p, a)
  PROVE  StepShape
<1> DEFINE k == <<InventoryOf(req[p].ses), a>>
<1>1. Stays(inv') /\ Evolves(Grants, rdv, rdv)
  BY Stutters DEF TakeRow
<1>2. \/ rdv' = rdv /\ uses' = uses
      \/ /\ k \in DOMAIN rdv.entries /\ rdv' = Burn(rdv, {k})
         /\ uses' = [uses EXCEPT ![k] = uses[k] + 1]
  BY DEF TakeRow, Holds
<1> HIDE DEF k
<1>3. CASE rdv' = rdv /\ uses' = uses
  BY <1>1, <1>3, QuietStep
<1>4. CASE k \in DOMAIN rdv.entries /\ rdv' = Burn(rdv, {k})
           /\ uses' = [uses EXCEPT ![k] = uses[k] + 1]
  <2>1. k \in Key /\ ~IsVoid(rdv, k)
    BY <1>4, EntryIsOpen DEF PInv, IsStoreOf
  <2>2. Evolves(Grants, rdv, rdv') /\ IsVoid(rdv', k)
    BY <1>4, <2>1, BurnEvolves DEF PInv
  <2>3. uses' = [j \in Key |-> IF j \in {k} THEN uses[j] + 1 ELSE uses[j]]
    BY <1>4, <2>1 DEF PInv
  <2>4. Consumes({k})
    BY <2>1, <2>2, <2>3 DEF Consumes
  <2> QED BY <1>1, <2>2, <2>4 DEF StepShape, InventoriesStay
<1> QED BY <1>2, <1>3, <1>4

\* The rest of a request burns what it holds or leaves the rendezvous alone.
LEMMA RequestEndShape ==
  ASSUME PInv, NEW p \in Holder,
         \/ \E a \in Attempt : TimeOutRow(p, a)
         \/ EngineAnswersMulti(p) \/ EngineAnswers(p) \/ GiveUp(p) \/ GatherEnds(p)
         \/ Disconnect(p)
  PROVE  StepShape
<1>1. Stays(inv) /\ Evolves(Grants, rdv, rdv) /\ IsStoreOf(Grants, rdv) /\ IsSound(rdv)
  BY Stutters DEF PInv
<1>2. /\ inv' = inv /\ uses' = uses
      /\ rdv' = rdv \/ (\E K : rdv' = Burn(rdv, K)) \/ (\E k : rdv' = Abort(rdv, k, p))
  BY DEF TimeOutRow, EngineAnswersMulti, EngineAnswers, GiveUp, GatherEnds, Disconnect
<1>3. Evolves(Grants, rdv, rdv')
  BY <1>1, <1>2, BurnEvolves, AbortEvolves
<1> QED BY <1>1, <1>2, <1>3, QuietStep

-----------------------------------------------------------------------------
\* Time changes ages only.
LEMMA TickShape ==
  ASSUME PInv, Tick
  PROVE  StepShape
<1> DEFINE older(x) == IF x.known /\ x.idle < IdleTimeout THEN [x EXCEPT !.idle = x.idle + 1] ELSE x
<1>1. /\ inv' = [i \in Sid |-> older(inv[i])]
      /\ rdv' = Aged(rdv) /\ uses' = uses
  BY DEF Tick
<1>2. ASSUME NEW i \in Sid  PROVE older(inv[i]) \in InventoryRecord /\ older(inv[i]).st = inv[i].st
  <2> DEFINE x == inv[i]
  <2>1. x \in InventoryRecord
    BY DEF PInv
  <2> HIDE DEF x
  <2>2. x.idle < IdleTimeout => x.idle + 1 \in 0..IdleTimeout
    BY <2>1, LimitsArePositive DEF InventoryRecord
  <2>3. older(x) \in InventoryRecord /\ older(x).st = x.st
    BY <2>1, <2>2, InventoryUpdates
  <2> QED BY <2>3 DEF x
<1> HIDE DEF older
<1>3. Stays(inv')
  BY <1>1, <1>2 DEF Stays
<1>4. Evolves(Grants, rdv, rdv')
  BY <1>1, AgedEvolves DEF PInv
<1> QED BY <1>1, <1>3, <1>4, QuietStep

\* The rows a request may name are attempts.
LEMMA StageRowsAreAttempts ==
  ASSUME NEW g \in Stage, NEW A \in SUBSET StageAttempts(g)
  PROVE  A \in SUBSET Attempt
BY GridAttempt DEF StageAttempts

\* Every step has the shape.
LEMMA StepsHaveShape ==
  ASSUME PInv, [Next]_vars
  PROVE  StepShape
<1>1. ASSUME NEW i \in Sid, InventoryStep(i)  PROVE StepShape
  BY <1>1, CreateInventoryShape, BeginAuthorizeShape, EndAuthorizeShape, AcceptCorrectionShape,
     SealInventoryShape, GetInventoryShape, CancelInventoryShape, CompleteInventoryShape
     DEF InventoryStep
<1>2. ASSUME NEW e \in Ses, SessionStep(e)  PROVE StepShape
  <2>1. ASSUME BeginComplete(e)  PROVE StepShape
    BY <2>1, GetSessionShape DEF BeginComplete
  <2> QED BY <1>2, <2>1, CreateSessionShape, CancelSessionShape, EndCompleteShape DEF SessionStep
<1>3. ASSUME NEW p \in Holder, RequestStep(p)  PROVE StepShape
  <2>1. ASSUME NEW e \in Ses, BeginRequest(p, e)  PROVE StepShape
    BY <2>1, GetSessionShape DEF BeginRequest
  <2>2. ASSUME NEW g \in Stage, NEW A \in SUBSET StageAttempts(g),
               (\E kind \in {"compact", "raw"} : SubmitBatch(p, kind, A)) \/ SubmitMulti(p, A)
        PROVE  StepShape
    BY <2>2, StageRowsAreAttempts, SubmitBatchShape, SubmitMultiShape
  <2>3. ASSUME RequestRuns(p) \/ Disconnect(p)  PROVE StepShape
    BY <2>3, TakeRowShape, RequestEndShape DEF RequestRuns
  <2> QED BY <1>3, <2>1, <2>2, <2>3 DEF RequestStep
<1>4. CASE UNCHANGED vars
  BY <1>4, Stutters, QuietStep DEF vars
<1> QED BY <1>1, <1>2, <1>3, <1>4, TickShape DEF Next

\* A correction row is consumed at most once, whatever requests of whatever
\* sessions ask for it on whatever route (execute_prepared_payloads,
\* run_prepared_requests).
THEOREM RowsConsumedOnce == Spec => []OneUse
<1>1. PInv /\ [Next]_vars => PInv'
  BY StepsHaveShape, ShapeKeeps
<1>2. PInv => OneUse
  <2> SUFFICES ASSUME PInv, NEW k \in Key  PROVE uses[k] <= 1
    BY DEF OneUse
  <2>1. uses[k] \in Nat /\ (uses[k] # 0 => uses[k] = 1)
    BY DEF PInv, ConsumedIsVoid
  <2> QED BY <2>1
<1> QED BY InitInv, <1>1, <1>2, PTL DEF Spec

-----------------------------------------------------------------------------
(* Reservations.                                                           *)

\* The rows an inventory has given away are those below its cursor.
Below(n) == {a \in Attempt : \E g \in Stage : \E row \in Row : row < n /\ a = AttemptOf(g, row)}

\* The stages of an inventory fit in its rows, and fill them unless on demand.
GridFits(x) ==
  \A g \in Stage : x.stage_rows[g] <= x.rows /\ (~x.demand => x.stage_rows[g] = x.rows)

\* A stage that was accepted had entries for all its rows.
StagesLoaded(i, x, q) ==
  \A g \in x.prepared : \A a \in Attempts(x, g) : HadEntry(q, <<i, a>>)

InventoriesKept == \A i \in Sid : IsLive(inv[i]) => GridFits(inv[i]) /\ StagesLoaded(i, inv[i], rdv)

\* The reservation s of the inventory it names, in a rendezvous q.
Backed(s, I, q) ==
  /\ s.inv \in Sid /\ I[s.inv].st # "none"
  /\ \A a \in s.reserved : HadEntry(q, <<s.inv, a>>)
  /\ s.st # "live" => \A a \in s.reserved : IsVoid(q, <<s.inv, a>>)
  /\ IsLive(I[s.inv]) => s.reserved \subseteq Below(I[s.inv].next)

SessionsBacked ==
  \A e \in Ses : IF ses[e].st = "none" THEN ses[e] = NoSession ELSE Backed(ses[e], inv, rdv)

\* A request belongs to a session, and gathers rows reserved for it.
Belongs(r) ==
  r.st # "idle" =>
    /\ r.ses \in Ses /\ ses[r.ses].st # "none"
    /\ r.st = "gathering" => r.todo \subseteq ses[r.ses].reserved

RequestsBelong == req \in [Holder -> RequestRecord] /\ \A p \in Holder : Belongs(req[p])

\* complete_session awaits the body of a session that exists.
CompletingExist == completing \subseteq {e \in Ses : ses[e].st # "none"}

SInv ==
  /\ PInv /\ CompletingExist
  /\ ses \in [Ses -> SessionRecord]
  /\ InventoriesKept /\ SessionsBacked /\ RequestsBelong /\ DisjointReservations

-----------------------------------------------------------------------------
\* What a step makes of an inventory x: it goes on as y, ends, or is created.
Continues(x, y, i, q) ==
  IsLive(y) =>
    \/ /\ IsLive(x)
       /\ y.rows = x.rows /\ y.stage_rows = x.stage_rows /\ y.demand = x.demand
       /\ x.next <= y.next
       /\ \A g \in y.prepared \ x.prepared : \A a \in Attempts(y, g) : HadEntry(q, <<i, a>>)
    \/ x.st = "none" /\ GridFits(y) /\ y.prepared = {}

InvAfter(I, q) == Stays(I) /\ \A i \in Sid : Continues(inv[i], I[i], i, q)

\* What it makes of a session s: the reservation stays, and is void at its end.
Remains(s, t, q) ==
  IF s.st = "none" THEN t = s
  ELSE /\ t.st # "none" /\ t.inv = s.inv /\ t.reserved = s.reserved
       /\ t.st # "live" => \A a \in s.reserved : IsVoid(q, <<s.inv, a>>)

SesAfter(S, q) == S \in [Ses -> SessionRecord] /\ \A e \in Ses : Remains(ses[e], S[e], q)

\* From q to t, keys of inventories that were created stay void, and stay known.
Preserves(q, t) ==
  \A k \in Key : inv[k[1]].st # "none" =>
    (IsVoid(q, k) => IsVoid(t, k)) /\ (HadEntry(q, k) => HadEntry(t, k))

\* Steps of every shape do that.
LEMMA ShapePreserves ==
  ASSUME StepShape
  PROVE  Preserves(rdv, rdv')
BY DEF StepShape, Preserves, Evolves, Registers

\* The loaded stages of an inventory stay loaded.
LEMMA InventoriesStayKept ==
  ASSUME SInv, Preserves(rdv, rdv'), InvAfter(inv', rdv')
  PROVE  InventoriesKept'
<1> SUFFICES ASSUME NEW i \in Sid, IsLive(inv'[i])
             PROVE  GridFits(inv'[i]) /\ StagesLoaded(i, inv'[i], rdv')
  BY DEF InventoriesKept
<1> DEFINE x == inv[i]
           y == inv'[i]
<1>1. x \in InventoryRecord /\ y \in InventoryRecord
  BY DEF SInv, PInv, InvAfter, Stays
<1>2. IsLive(x) => GridFits(x) /\ StagesLoaded(i, x, rdv) /\ x.st # "none"
  BY DEF SInv, InventoriesKept, IsLive
<1>3. CASE x.st = "none" /\ GridFits(y) /\ y.prepared = {}
  BY <1>3 DEF StagesLoaded
<1>4. CASE /\ IsLive(x)
           /\ y.rows = x.rows /\ y.stage_rows = x.stage_rows /\ y.demand = x.demand
           /\ \A g \in y.prepared \ x.prepared : \A a \in Attempts(y, g) : HadEntry(rdv', <<i, a>>)
  <2>1. GridFits(y)
    BY <1>2, <1>4 DEF GridFits
  <2>2. ASSUME NEW g \in y.prepared, NEW a \in Attempts(y, g)  PROVE HadEntry(rdv', <<i, a>>)
    <3>1. CASE g \in x.prepared
      <4>1. a \in Attempts(x, g) /\ g \in Stage
        BY <1>1, <1>4, <2>2, <3>1 DEF Attempts, InventoryRecord
      <4>2. HadEntry(rdv, <<i, a>>)
        BY <1>2, <1>4, <3>1, <4>1 DEF StagesLoaded
      <4>3. <<i, a>> \in Key
        BY <1>1, <4>1, GridAttempts DEF Key
      <4> QED BY <1>2, <1>4, <4>2, <4>3 DEF Preserves
    <3> QED BY <1>4, <2>2, <3>1
  <2> QED BY <2>1, <2>2 DEF StagesLoaded
<1> QED BY <1>3, <1>4 DEF InvAfter, Continues

\* The reservation of a session stays backed.
LEMMA StaysBacked ==
  ASSUME SInv, Preserves(rdv, rdv'), InvAfter(inv', rdv'),
         NEW e \in Ses, ses[e].st # "none", NEW t, Remains(ses[e], t, rdv')
  PROVE  Backed(t, inv', rdv')
<1> DEFINE s == ses[e]
           i == s.inv
<1>1. s \in SessionRecord /\ Backed(s, inv, rdv)
  BY DEF SInv, SessionsBacked
<1>2. t.inv = i /\ t.reserved = s.reserved
      /\ (t.st # "live" => \A a \in s.reserved : IsVoid(rdv', <<i, a>>))
  BY DEF Remains
<1>3. i \in Sid /\ inv[i].st # "none" /\ inv'[i].st # "none"
  BY <1>1 DEF Backed, InvAfter, Stays
<1>4. \A a \in s.reserved : <<i, a>> \in Key
  BY <1>1, <1>3 DEF SessionRecord, Key
<1> HIDE DEF s, i
<1>5. \A a \in s.reserved : HadEntry(rdv', <<i, a>>)
  BY <1>1, <1>3, <1>4 DEF Backed, Preserves, i
<1>6. ASSUME IsLive(inv'[i])  PROVE s.reserved \subseteq Below(inv'[i].next)
  <2>1. IsLive(inv[i]) /\ inv[i].next <= inv'[i].next
    BY <1>3, <1>6 DEF InvAfter, Continues
  <2>2. s.reserved \subseteq Below(inv[i].next)
    BY <1>1, <2>1 DEF Backed, i
  <2>3. inv[i].next \in Int /\ inv'[i].next \in Int
    BY <1>3, GridAssumption DEF SInv, PInv, InvAfter, Stays, InventoryRecord
  <2>4. Below(inv[i].next) \subseteq Below(inv'[i].next)
    BY <2>1, <2>3, GridAssumption DEF Below, Row
  <2> QED BY <2>2, <2>4
<1> QED BY <1>2, <1>3, <1>5, <1>6 DEF Backed

\* The invariant is kept by steps that create no session.
LEMMA UsualStep ==
  ASSUME SInv, StepShape, InvAfter(inv', rdv'), SesAfter(ses', rdv'),
         req' \in [Holder -> RequestRecord], \A p \in Holder : Belongs(req'[p]),
         completing' \subseteq {e \in Ses : ses[e].st # "none"}
  PROVE  SInv'
<1>1. Preserves(rdv, rdv') /\ PInv'
  BY ShapePreserves, ShapeKeeps DEF SInv
<1>2. InventoriesKept'
  BY <1>1, InventoriesStayKept
<1>3. SessionsBacked'
  <2> SUFFICES ASSUME NEW e \in Ses
               PROVE  IF ses'[e].st = "none" THEN ses'[e] = NoSession
                                             ELSE Backed(ses'[e], inv', rdv')
    BY DEF SessionsBacked
  <2>1. CASE ses[e].st = "none"
    BY <2>1 DEF SInv, SessionsBacked, SesAfter, Remains
  <2>2. CASE ses[e].st # "none"
    <3>1. Remains(ses[e], ses'[e], rdv')
      BY DEF SesAfter
    <3> QED BY <1>1, <2>2, <3>1, StaysBacked DEF Remains
  <2> QED BY <2>1, <2>2
<1>4. \A e \in Ses : ses'[e].inv = ses[e].inv /\ ses'[e].reserved = ses[e].reserved
  BY DEF SesAfter, Remains
<1>5. DisjointReservations'
  BY <1>4 DEF SInv, DisjointReservations
<1>6. \A e \in Ses : ses[e].st # "none" => ses'[e].st # "none"
  BY DEF SesAfter, Remains
<1>7. RequestsBelong'
  BY <1>4, <1>6 DEF RequestsBelong, Belongs
<1>8. CompletingExist'
  BY <1>6 DEF CompletingExist
<1> QED BY <1>1, <1>2, <1>3, <1>5, <1>7, <1>8 DEF SInv, SesAfter

-----------------------------------------------------------------------------
(* What the handlers have in common.                                       *)

\* A function of inventories that changes nothing keeps their course.
LEMMA NothingHappens ==
  ASSUME SInv, NEW q, Evolves(Grants, rdv, q)
  PROVE  InvAfter(inv, q) /\ SesAfter(ses, q)
<1>1. \A i \in Sid : Continues(inv[i], inv[i], i, q)
  <2> TAKE i \in Sid
  <2>1. inv[i] \in InventoryRecord
    BY DEF SInv, PInv
  <2>2. inv[i].next <= inv[i].next
    BY <2>1, GridAssumption DEF InventoryRecord
  <2> QED BY <2>2 DEF Continues
<1>2. \A e \in Ses : Remains(ses[e], ses[e], q)
  <2> TAKE e \in Ses
  <2>1. CASE ses[e].st # "none"
    <3>1. Backed(ses[e], inv, rdv) /\ ses[e] \in SessionRecord
      BY <2>1 DEF SInv, SessionsBacked
    <3>2. \A a \in ses[e].reserved : <<ses[e].inv, a>> \in Key
      BY <3>1 DEF Backed, SessionRecord, Key
    <3> QED BY <2>1, <3>1, <3>2 DEF Backed, Remains, Evolves
  <2> QED BY <2>1 DEF Remains
<1> QED BY <1>1, <1>2, Stutters DEF SInv, InvAfter, SesAfter

\* Every evolution preserves.
LEMMA EvolvesPreserves ==
  ASSUME NEW q, NEW t, Evolves(Grants, q, t)
  PROVE  Preserves(q, t)
BY DEF Evolves, Preserves

\* What was said of the inventories of a rendezvous holds as it evolves ...
LEMMA LaterInventories ==
  ASSUME NEW I, NEW q, NEW t, InvAfter(I, q), Preserves(q, t)
  PROVE  InvAfter(I, t)
<1> SUFFICES ASSUME NEW i \in Sid, inv[i].st # "none",
                    NEW g \in I[i].prepared, NEW a \in Attempts(I[i], g),
                    HadEntry(q, <<i, a>>)
             PROVE  HadEntry(t, <<i, a>>)
  BY DEF InvAfter, Continues, IsLive
<1>1. I[i] \in InventoryRecord
  BY DEF InvAfter, Stays
<1>2. g \in Stage
  BY <1>1 DEF InventoryRecord
<1>3. <<i, a>> \in Key
  BY <1>1, <1>2, GridAttempts DEF Key
<1> QED BY <1>3 DEF Preserves

\* ... and what was said of the sessions.
LEMMA LaterSessions ==
  ASSUME SInv, NEW S, NEW q, NEW t, SesAfter(S, q), Preserves(q, t)
  PROVE  SesAfter(S, t)
<1> SUFFICES ASSUME NEW e \in Ses, ses[e].st # "none", S[e].st # "live", NEW a \in ses[e].reserved
             PROVE  IsVoid(t, <<ses[e].inv, a>>)
  BY DEF SesAfter, Remains
<1>1. Backed(ses[e], inv, rdv) /\ ses[e] \in SessionRecord
  BY DEF SInv, SessionsBacked
<1>2. <<ses[e].inv, a>> \in Key /\ inv[ses[e].inv].st # "none"
  BY <1>1 DEF Backed, SessionRecord, Key
<1> QED BY <1>2 DEF SesAfter, Remains, Preserves

\* cleanup_prepared_sessions only ends inventories ...
LEMMA CleanInvAfter ==
  ASSUME SInv, NEW b \in BOOLEAN
  PROVE  InvAfter(CleanInv(b), CleanRdv(b))
<1>1. Stays(CleanInv(b)) /\ Evolves(Grants, rdv, CleanRdv(b))
  BY CleanStays, CleanEvolves DEF SInv
<1>2. InvAfter(inv, CleanRdv(b))
  BY <1>1, NothingHappens
<1>3. ASSUME NEW i \in Sid  PROVE Continues(inv[i], CleanInv(b)[i], i, CleanRdv(b))
  <2>1. CASE i \in DueInventories(b)
    <3>1. CleanInv(b)[i].known = FALSE
      BY <2>1 DEF CleanInv, NoInventory
    <3> QED BY <3>1 DEF Continues, IsLive
  <2>2. CASE i \notin DueInventories(b)
    BY <1>2, <2>2 DEF CleanInv, InvAfter
  <2> QED BY <2>1, <2>2
<1> QED BY <1>1, <1>3 DEF InvAfter

\* Burning the entries a reservation has left voids all of it.
LEMMA BurnVoids ==
  ASSUME SInv, NEW e \in Ses, ses[e].st # "none", NEW K,
         \A a \in ses[e].reserved :
           <<ses[e].inv, a>> \in DOMAIN rdv.entries => <<ses[e].inv, a>> \in K
  PROVE  \A a \in ses[e].reserved : IsVoid(Burn(rdv, K), <<ses[e].inv, a>>)
<1> TAKE a \in ses[e].reserved
<1> DEFINE k == <<ses[e].inv, a>>
<1>1. Backed(ses[e], inv, rdv) /\ ses[e] \in SessionRecord
  BY DEF SInv, SessionsBacked
<1>2. k \in Key /\ HadEntry(rdv, k) /\ (k \in DOMAIN rdv.entries => k \in K)
  BY <1>1 DEF Backed, SessionRecord, Key
<1> HIDE DEF k
<1>3. IsStoreOf(Grants, rdv) /\ IsSound(rdv)
  BY DEF SInv, PInv
<1>4. IsVoid(Burn(rdv, K), k)
  BY <1>2, <1>3, BurnEvolves DEF HadEntry, Evolves
<1> QED BY <1>4 DEF k

\* ... and sessions, whose reservations it burns.
LEMMA CleanSesAfter ==
  ASSUME SInv, NEW b \in BOOLEAN
  PROVE  SesAfter(CleanSes(b), CleanRdv(b))
<1> DEFINE K == ReservedKeys(DueSessions(b)) \cap DOMAIN rdv.entries
           q == Burn(rdv, K)
<1>1. Evolves(Grants, rdv, q)
  BY BurnEvolves DEF SInv, PInv
<1>2. Evolves(Grants, q, CleanRdv(b))
  BY <1>1, TerminalEvolves DEF CleanRdv, Evolves
<1>3. SesAfter(ses, q)
  BY <1>1, NothingHappens
<1>4. ASSUME NEW e \in Ses
      PROVE  CleanSes(b)[e] \in SessionRecord /\ Remains(ses[e], CleanSes(b)[e], q)
  <2>1. ses[e] \in SessionRecord
    BY DEF SInv
  <2>2. CASE e \in DueSessions(b)
    <3> DEFINE s == ses[e]
               t == [s EXCEPT !.st = Expired(s.st), !.known = FALSE]
    <3>1. s.known /\ CleanSes(b)[e] = t
      BY <2>2 DEF DueSessions, IsDue, CleanSes
    <3>2. s.st # "none"
      BY <3>1 DEF SInv, SessionsBacked, NoSession
    <3>3. t \in SessionRecord /\ t.inv = s.inv /\ t.reserved = s.reserved /\ t.st # "none"
      BY <2>1, <3>2 DEF SessionRecord, Expired
    <3>4. \A a \in s.reserved : <<s.inv, a>> \in DOMAIN rdv.entries => <<s.inv, a>> \in K
      BY <2>2 DEF ReservedKeys
    <3>5. \A a \in s.reserved : IsVoid(q, <<s.inv, a>>)
      <4> HIDE DEF K
      <4> QED BY <3>2, <3>4, BurnVoids
    <3> QED BY <3>1, <3>2, <3>3, <3>5 DEF Remains
  <2>3. CASE e \notin DueSessions(b)
    BY <1>3, <2>1, <2>3 DEF CleanSes, SesAfter
  <2> QED BY <2>2, <2>3
<1>5. SesAfter(CleanSes(b), q)
  BY <1>4 DEF SesAfter, CleanSes
<1> QED BY <1>2, <1>5, EvolvesPreserves, LaterSessions

\* An inventory replaced by one that goes on from it, or that is not live.
LEMMA InventoryReplaced ==
  ASSUME SInv, NEW I, NEW q, InvAfter(I, q), NEW i \in Sid, NEW x \in InventoryRecord,
         I[i].st # "none" => x.st # "none",
         IsLive(x) => /\ IsLive(I[i]) /\ x.rows = I[i].rows /\ x.stage_rows = I[i].stage_rows
                      /\ x.demand = I[i].demand /\ I[i].next <= x.next
                      /\ \A g \in x.prepared \ I[i].prepared :
                           \A a \in Attempts(x, g) : HadEntry(q, <<i, a>>),
         inv[i].st # "none" \/ ~IsLive(x)
  PROVE  InvAfter([I EXCEPT ![i] = x], q)
<1>1. Stays([I EXCEPT ![i] = x])
  BY StaysExcept DEF InvAfter
<1>2. Continues(inv[i], x, i, q)
  <2> SUFFICES ASSUME IsLive(x)  PROVE Continues(inv[i], x, i, q)
    BY DEF Continues
  <2> DEFINE y == I[i]
             w == inv[i]
  <2>1. Continues(w, y, i, q) /\ IsLive(y)
    BY DEF InvAfter
  <2>2. IsLive(w) /\ y.rows = w.rows /\ y.stage_rows = w.stage_rows /\ y.demand = w.demand
        /\ w.next <= y.next
        /\ \A g \in y.prepared \ w.prepared : \A a \in Attempts(y, g) : HadEntry(q, <<i, a>>)
    BY <2>1 DEF Continues
  <2>3. x.next \in Int /\ y.next \in Int
    BY GridAssumption DEF InvAfter, Stays, InventoryRecord
  <2>4. w.next <= x.next
    <3>1. w.next \in Int
      BY GridAssumption DEF SInv, PInv, InventoryRecord
    <3> QED BY <2>2, <2>3, <3>1
  <2>5. \A g : Attempts(x, g) = Attempts(y, g)
    BY DEF Attempts
  <2>6. \A g \in x.prepared \ w.prepared : \A a \in Attempts(x, g) : HadEntry(q, <<i, a>>)
    BY <2>2, <2>5
  <2> QED BY <2>2, <2>4, <2>6 DEF Continues
<1> QED BY <1>1, <1>2 DEF InvAfter, Stays

\* In particular, by one with the same rows.
LEMMA InventoryUpdated ==
  ASSUME SInv, NEW I, NEW q, InvAfter(I, q), NEW i \in Sid, inv[i].st # "none",
         NEW x \in InventoryRecord, x.st = I[i].st, x.known = I[i].known, x.rows = I[i].rows,
         x.stage_rows = I[i].stage_rows, x.demand = I[i].demand, x.prepared = I[i].prepared,
         x.next = I[i].next
  PROVE  InvAfter([I EXCEPT ![i] = x], q)
<1>1. I[i].next <= x.next
  BY GridAssumption DEF InventoryRecord
<1>2. IsLive(x) => IsLive(I[i])
  BY DEF IsLive
<1> QED BY <1>1, <1>2, InventoryReplaced

\* Activity of an inventory.
LEMMA TouchAfter ==
  ASSUME SInv, NEW I, NEW q, InvAfter(I, q), NEW i \in Sid, inv[i].st # "none"
  PROVE  InvAfter([I EXCEPT ![i].idle = 0], q)
<1> DEFINE x == [I[i] EXCEPT !.idle = 0]
<1>1. I[i] \in InventoryRecord /\ 0 \in 0..IdleTimeout
  BY LimitsArePositive DEF InvAfter, Stays
<1>2. x \in InventoryRecord
  BY <1>1, InventoryUpdates
<1>3. x.st = I[i].st /\ x.known = I[i].known /\ x.rows = I[i].rows
      /\ x.stage_rows = I[i].stage_rows /\ x.demand = I[i].demand
      /\ x.prepared = I[i].prepared /\ x.next = I[i].next
  BY <1>1 DEF InventoryRecord
<1>4. InvAfter([I EXCEPT ![i] = x], q)
  <2> HIDE DEF x
  <2> QED BY <1>2, <1>3, InventoryUpdated
<1> QED BY <1>4

\* The end of an inventory, or of an id that names none.
LEMMA EndAfter ==
  ASSUME SInv, NEW I, NEW q, InvAfter(I, q), NEW i
  PROVE  InvAfter([I EXCEPT ![i].st = "ended", ![i].idle = 0], q)
<1> DEFINE J == [I EXCEPT ![i].st = "ended", ![i].idle = 0]
<1>1. Stays(I) /\ Stays(J)
  BY EndStays DEF InvAfter
<1>2. \A j \in Sid : j # i => J[j] = I[j]
  BY <1>1 DEF Stays
<1>3. i \in Sid => J[i].st = "ended"
  <2> SUFFICES ASSUME i \in Sid  PROVE J[i].st = "ended"
    OBVIOUS
  <2>1. J[i] = [I[i] EXCEPT !.st = "ended", !.idle = 0] /\ I[i] \in InventoryRecord
    BY <1>1 DEF Stays
  <2> HIDE DEF J
  <2> QED BY <2>1 DEF InventoryRecord
<1> HIDE DEF J
<1>4. \A j \in Sid : Continues(inv[j], J[j], j, q)
  BY <1>2, <1>3 DEF InvAfter, Continues, IsLive
<1>5. InvAfter(J, q)
  BY <1>1, <1>4 DEF InvAfter
<1> QED BY <1>5 DEF J

\* Activity of a session.
LEMMA TouchSession ==
  ASSUME SInv, NEW S, NEW q, SesAfter(S, q), NEW e
  PROVE  SesAfter([S EXCEPT ![e].idle = 0], q)
<1> DEFINE T == [S EXCEPT ![e].idle = 0]
<1>1. \A d \in Ses : d # e => T[d] = S[d]
  BY DEF SesAfter
<1>2. ASSUME e \in Ses
      PROVE  T[e] \in SessionRecord /\ Remains(ses[e], T[e], q)
  <2>1. ses[e].st = "none" => S[e] = ses[e] /\ ses[e] = NoSession
    BY <1>2 DEF SesAfter, Remains, SInv, SessionsBacked
  <2>2. S[e] \in SessionRecord /\ T[e] = [S[e] EXCEPT !.idle = 0] /\ 0 \in 0..IdleTimeout
    BY <1>2, LimitsArePositive DEF SesAfter
  <2>3. T[e] \in SessionRecord /\ T[e].st = S[e].st /\ T[e].inv = S[e].inv
        /\ T[e].reserved = S[e].reserved
    <3> HIDE DEF T
    <3> QED BY <2>2 DEF SessionRecord
  <2>4. CASE ses[e].st = "none"
    <3>1. T[e] = NoSession
      BY <2>1, <2>2, <2>4 DEF NoSession
    <3> QED BY <2>1, <2>3, <2>4, <3>1 DEF Remains
  <2>5. CASE ses[e].st # "none"
    <3> HIDE DEF T
    <3> QED BY <1>2, <2>3, <2>5 DEF SesAfter, Remains
  <2> QED BY <2>4, <2>5
<1>3. T \in [Ses -> SessionRecord]
  BY <1>1, <1>2 DEF SesAfter
<1> HIDE DEF T
<1>4. SesAfter(T, q)
  BY <1>1, <1>2, <1>3 DEF SesAfter
<1> QED BY <1>4 DEF T

-----------------------------------------------------------------------------
\* A usual step: sessions and inventories go on or end, requests belong.
Usual ==
  /\ InvAfter(inv', rdv') /\ SesAfter(ses', rdv')
  /\ req' \in [Holder -> RequestRecord] /\ \A p \in Holder : Belongs(req'[p])

\* Steps that leave the requests alone.
LEMMA RequestsAlone ==
  ASSUME SInv, req' = req
  PROVE  req' \in [Holder -> RequestRecord] /\ \A p \in Holder : Belongs(req'[p])
BY DEF SInv, RequestsBelong

\* authorize_prepared_session, before its await ...
LEMMA BeginAuthorizeUsual ==
  ASSUME SInv, NEW i \in Sid, BeginAuthorize(i)
  PROVE  Usual
<1>1. InvAfter(CleanInv(FALSE), CleanRdv(FALSE)) /\ SesAfter(CleanSes(FALSE), CleanRdv(FALSE))
  BY CleanInvAfter, CleanSesAfter
<1>2. /\ rdv' = CleanRdv(FALSE) /\ ses' = CleanSes(FALSE) /\ req' = req /\ inv[i].st # "none"
      /\ inv' = [CleanInv(FALSE) EXCEPT ![i].idle = 0] \/ inv' = CleanInv(FALSE)
  BY DEF BeginAuthorize
<1>3. InvAfter([CleanInv(FALSE) EXCEPT ![i].idle = 0], CleanRdv(FALSE))
  BY <1>1, <1>2, TouchAfter
<1> QED BY <1>1, <1>2, <1>3, RequestsAlone DEF Usual

\* ... and after it.
LEMMA EndAuthorizeUsual ==
  ASSUME SInv, NEW i \in Sid, EndAuthorize(i)
  PROVE  Usual
<1>1. inv' = inv /\ ses' = ses /\ req' = req
  BY DEF EndAuthorize
<1> DEFINE r == Cleanup(rdv)
<1>2. /\ Evolves(Grants, rdv, r) /\ IsStoreOf(Grants, r) /\ IsSound(r)
      /\ rdv' = r \/ (rdv' = Authorize(r, i) /\ i \in DOMAIN r.sessions)
  BY CleanupKeeps DEF SInv, EndAuthorize
<1> HIDE DEF r
<1>3. Evolves(Grants, rdv, rdv')
  BY <1>2, AuthorizeEvolves, EvolvesTransitive
<1> QED BY <1>1, <1>3, NothingHappens, RequestsAlone DEF Usual

\* create_prepared_inventory
LEMMA CreateInventoryUsual ==
  ASSUME SInv, NEW i \in Sid, NEW rows \in 1..MaxRows,
         NEW stage_rows \in [Stage -> 1..MaxRows], NEW demand \in BOOLEAN,
         \A g \in Stage : stage_rows[g] <= rows,
         CreateInventory(i, rows, stage_rows, demand)
  PROVE  Usual
<1> DEFINE I == CleanInv(TRUE)
           S == CleanSes(TRUE)
           R == CleanRdv(TRUE)
           r == Cleanup(R)
           x == [NoInventory EXCEPT !.st = "live", !.known = TRUE, !.rows = rows,
                                    !.stage_rows = stage_rows, !.demand = demand]
           auth == [model |-> OneMeta.model, max_attempts |-> Entries(x)]
<1>1. /\ InvAfter(I, R) /\ SesAfter(S, R)
      /\ Evolves(Grants, R, r) /\ IsStoreOf(Grants, r) /\ IsSound(r)
  BY CleanInvAfter, CleanSesAfter, CleanEvolves, CleanupEvolves, CleanTwiceEvolves DEF SInv
<1>2. InvAfter(I, r) /\ SesAfter(S, r)
  BY <1>1, EvolvesPreserves, LaterInventories, LaterSessions
<1>3. /\ ses' = S /\ req' = req /\ inv[i].st = "none"
      /\ \A g \in Stage : stage_rows[g] <= rows /\ (~demand => stage_rows[g] = rows)
      /\ \/ rdv' = Register(r, i, auth) /\ inv' = [I EXCEPT ![i] = x] /\ CanRegister(r, i)
         \/ rdv' = r /\ inv' = I
         \/ rdv' = R /\ inv' = I
  BY DEF CreateInventory
<1>4. Stays(inv')
  BY CreateInventoryShape DEF SInv, StepShape, InventoriesStay
<1>5. x.prepared = {} /\ x.rows = rows /\ x.stage_rows = stage_rows /\ x.demand = demand
  BY DEF NoInventory
<1>6. auth \in Grants
  <2>1. x \in InventoryRecord
    BY CreatedInventory
  <2> HIDE DEF x
  <2> QED BY <2>1 DEF Grants
<1> HIDE DEF I, S, R, r, x, auth
<1>7. CASE rdv' = Register(r, i, auth) /\ inv' = [I EXCEPT ![i] = x] /\ CanRegister(r, i)
  <2>1. Preserves(r, rdv')
    BY <1>1, <1>3, <1>6, <1>7, RegisterEvolves DEF CanRegister, Preserves, HadEntry
  <2>2. SesAfter(ses', rdv') /\ InvAfter(I, rdv')
    BY <1>2, <1>3, <2>1, LaterInventories, LaterSessions
  <2>3. Continues(inv[i], x, i, rdv')
    BY <1>3, <1>5 DEF Continues, GridFits
  <2>4. InvAfter(inv', rdv')
    BY <1>4, <1>7, <2>2, <2>3 DEF InvAfter, Stays
  <2> QED BY <1>3, <2>2, <2>4, RequestsAlone DEF Usual
<1>8. CASE inv' = I /\ (rdv' = r \/ rdv' = R)
  BY <1>1, <1>2, <1>3, <1>8, RequestsAlone DEF Usual
<1> QED BY <1>3, <1>7, <1>8

\* The rows that were preloaded have an entry.
LEMMA PreloadLoads ==
  ASSUME NEW r, NEW i, NEW A, NEW meta, NEW payload, NEW a \in A
  PROVE  HadEntry(Preload(r, i, A, meta, payload), <<i, a>>)
BY DEF Preload, AddEntries, Touch, UpdateSession, Store, HadEntry

\* accept_prepared_correction marks the stage it loads.
LEMMA AcceptCorrectionUsual ==
  ASSUME SInv, NEW i \in Sid, NEW stage \in Stage, AcceptCorrection(i, stage)
  PROVE  Usual
<1> DEFINE I == CleanInv(FALSE)
           S == CleanSes(FALSE)
           R == CleanRdv(FALSE)
           r == Cleanup(R)
           A == Attempts(I[i], stage)
           payload == Frame(I[i], stage)
           accepted == CanPreload(r, i, A, OneMeta, payload)
           new == stage \notin I[i].prepared
           P == I[i].prepared \cup (IF new /\ accepted THEN {stage} ELSE {})
           x == [I[i] EXCEPT !.idle = 0, !.prepared = P]
<1>1. /\ InvAfter(I, R) /\ SesAfter(S, R)
      /\ Evolves(Grants, R, r) /\ IsStoreOf(Grants, r) /\ IsSound(r)
  BY CleanInvAfter, CleanSesAfter, CleanEvolves, CleanupEvolves, CleanTwiceEvolves DEF SInv
<1>2. /\ ses' = S /\ req' = req /\ inv[i].st # "none"
      /\ inv' = [I EXCEPT ![i] = IF IsLive(I[i]) THEN x ELSE I[i]]
      /\ rdv' = IF ~IsLive(I[i]) \/ ~new THEN R
                ELSE IF accepted THEN Preload(r, i, A, OneMeta, payload) ELSE r
  BY DEF AcceptCorrection
<1> HIDE DEF I, S, R
<1>3. I[i] \in InventoryRecord
  BY <1>1 DEF InvAfter, Stays
<1>4. A \in SUBSET Attempt
  BY <1>3, GridAttempts
<1>5. payload \in Nat
  <2>1. I[i].stage_rows[stage] \in Nat
    BY <1>3, GridAssumption DEF InventoryRecord
  <2>2. BytesPerRow * I[i].stage_rows[stage] \in Nat /\ Header \in Nat
    BY <2>1, GridAssumption
  <2> QED BY <2>2 DEF Frame
<1> HIDE DEF r, A, payload
<1>6. accepted => Evolves(Grants, r, Preload(r, i, A, OneMeta, payload))
  BY <1>1, <1>4, <1>5, GridAssumption, PreloadEvolves
<1>7. Evolves(Grants, R, R)
  BY CleanEvolves DEF SInv, Evolves, R
<1>8. Evolves(Grants, R, rdv')
  <2> HIDE DEF new, accepted
  <2> QED BY <1>1, <1>2, <1>6, <1>7, EvolvesTransitive
<1>9. InvAfter(I, rdv') /\ SesAfter(S, rdv')
  BY <1>1, <1>8, EvolvesPreserves, LaterInventories, LaterSessions
<1>10. InvAfter(inv', rdv')
  <2>1. P \in SUBSET Stage
    BY <1>3 DEF InventoryRecord
  <2>2. x \in InventoryRecord /\ x.st = I[i].st
    <3> HIDE DEF P
    <3> QED BY <1>3, <2>1, InventoryUpdates
  <2>3. /\ x.known = I[i].known /\ x.rows = I[i].rows /\ x.stage_rows = I[i].stage_rows
        /\ x.demand = I[i].demand /\ x.next = I[i].next /\ x.prepared = P
    <3> HIDE DEF P
    <3> QED BY <1>3 DEF InventoryRecord
  <2>4. I[i].next <= x.next
    BY <1>3, <2>3, GridAssumption DEF InventoryRecord
  <2>5. CASE ~IsLive(I[i])
    <3>1. inv' = I
      BY <1>1, <1>2, <2>5 DEF InvAfter, Stays
    <3> QED BY <1>9, <3>1
  <2>6. CASE IsLive(I[i])
    <3>1. ASSUME NEW g \in x.prepared \ I[i].prepared, NEW a \in Attempts(x, g)
          PROVE  HadEntry(rdv', <<i, a>>)
      <4>1. new /\ accepted /\ g = stage
        BY <2>3, <3>1
      <4>2. a \in A
        BY <2>3, <3>1, <4>1 DEF Attempts, A
      <4>3. rdv' = Preload(r, i, A, OneMeta, payload)
        <5> HIDE DEF new, accepted
        <5> QED BY <1>2, <2>6, <4>1
      <4> QED BY <4>2, <4>3, PreloadLoads
    <3> HIDE DEF x
    <3>2. inv' = [I EXCEPT ![i] = x]
      BY <1>2, <2>6
    <3>3. InvAfter([I EXCEPT ![i] = x], rdv')
      BY <1>2, <1>9, <2>2, <2>3, <2>4, <2>6, <3>1, InventoryReplaced
    <3> QED BY <3>2, <3>3
  <2> QED BY <2>5, <2>6
<1> QED BY <1>2, <1>9, <1>10, RequestsAlone DEF Usual

\* seal_prepared_inventory
LEMMA SealInventoryUsual ==
  ASSUME SInv, NEW i \in Sid, SealInventory(i)
  PROVE  Usual
<1> DEFINE I == CleanInv(FALSE)
           b == I[i].ready \/ (IsLive(I[i]) /\ I[i].prepared = Stage)
           x == [I[i] EXCEPT !.idle = 0, !.ready = b]
<1>1. InvAfter(I, CleanRdv(FALSE)) /\ SesAfter(CleanSes(FALSE), CleanRdv(FALSE))
  BY CleanInvAfter, CleanSesAfter
<1>2. /\ rdv' = CleanRdv(FALSE) /\ ses' = CleanSes(FALSE) /\ req' = req /\ inv[i].st # "none"
      /\ inv' = [I EXCEPT ![i] = IF I[i].known THEN x ELSE I[i]]
  BY DEF SealInventory
<1> HIDE DEF I
<1>3. I[i] \in InventoryRecord
  BY <1>1 DEF InvAfter, Stays
<1>4. b \in BOOLEAN
  BY <1>3 DEF InventoryRecord
<1> HIDE DEF b
<1>5. x \in InventoryRecord
  BY <1>3, <1>4, InventoryUpdates
<1>6. x.st = I[i].st /\ x.known = I[i].known /\ x.rows = I[i].rows
      /\ x.stage_rows = I[i].stage_rows /\ x.demand = I[i].demand
      /\ x.prepared = I[i].prepared /\ x.next = I[i].next
  BY <1>3 DEF InventoryRecord
<1> HIDE DEF x
<1>7. InvAfter([I EXCEPT ![i] = x], CleanRdv(FALSE))
  BY <1>1, <1>2, <1>5, <1>6, InventoryUpdated
<1>8. inv' = [I EXCEPT ![i] = x] \/ inv' = I
  BY <1>1, <1>2 DEF InvAfter, Stays
<1> QED BY <1>1, <1>2, <1>7, <1>8, RequestsAlone DEF Usual

\* get_prepared_inventory
LEMMA GetInventoryUsual ==
  ASSUME SInv, NEW i \in Sid, GetInventory(i)
  PROVE  Usual
<1> DEFINE I == CleanInv(TRUE)
<1>1. InvAfter(I, CleanRdv(TRUE)) /\ SesAfter(CleanSes(TRUE), CleanRdv(TRUE))
  BY CleanInvAfter, CleanSesAfter
<1>2. /\ rdv' = CleanRdv(TRUE) /\ ses' = CleanSes(TRUE) /\ req' = req /\ inv[i].st # "none"
      /\ inv' = [I EXCEPT ![i] = IF IsLive(I[i]) THEN [I[i] EXCEPT !.idle = 0] ELSE I[i]]
  BY DEF GetInventory
<1> HIDE DEF I
<1>3. InvAfter([I EXCEPT ![i].idle = 0], CleanRdv(TRUE))
  BY <1>1, <1>2, TouchAfter
<1>4. inv' = [I EXCEPT ![i].idle = 0] \/ inv' = I
  BY <1>1, <1>2 DEF InvAfter, Stays
<1> QED BY <1>1, <1>2, <1>3, <1>4, RequestsAlone DEF Usual

\* An inventory that is not live any more.
LEMMA NotLiveAfter ==
  ASSUME NEW I, NEW q, InvAfter(I, q), NEW i \in Sid, NEW x \in InventoryRecord, x.st = "ended"
  PROVE  InvAfter([I EXCEPT ![i] = x], q)
<1> DEFINE J == [I EXCEPT ![i] = x]
<1>1. Stays(J)
  BY StaysExcept DEF InvAfter
<1>2. \A j \in Sid : J[j] = IF j = i THEN x ELSE I[j]
  BY DEF InvAfter, Stays
<1> HIDE DEF J
<1>3. \A j \in Sid : Continues(inv[j], J[j], j, q)
  BY <1>2 DEF InvAfter, Continues, IsLive
<1>4. InvAfter(J, q)
  BY <1>1, <1>3 DEF InvAfter
<1> QED BY <1>4 DEF J

\* cancel_prepared_inventory, and cancel_runtime_session of an inventory
LEMMA CancelInventoryUsual ==
  ASSUME SInv, NEW i \in Sid, CancelInventory(i) \/ CancelInventoryAsSession(i)
  PROVE  Usual
<1> DEFINE I == CleanInv(FALSE)
           R == CleanRdv(FALSE)
           x == [I[i] EXCEPT !.idle = 0, !.st = "ended"]
<1>1. /\ InvAfter(I, R) /\ SesAfter(CleanSes(FALSE), R)
      /\ IsStoreOf(Grants, R) /\ IsSound(R)
  BY CleanInvAfter, CleanSesAfter, CleanEvolves DEF SInv
<1>2. /\ rdv' = Terminal(R, {i}) \/ rdv' = R
      /\ ses' = CleanSes(FALSE) /\ req' = req
      /\ inv' = [I EXCEPT ![i] = IF I[i].known THEN x ELSE I[i]]
  BY DEF CancelInventory, CancelInventoryAsSession
<1> HIDE DEF I, R
<1>3. I[i] \in InventoryRecord
  BY <1>1 DEF InvAfter, Stays
<1>4. x \in InventoryRecord /\ x.st = "ended"
  BY <1>3, InventoryUpdates
<1> HIDE DEF x
<1>5. Preserves(R, Terminal(R, {i}))
  BY <1>1, TerminalEvolves, EvolvesPreserves
<1>6. InvAfter(I, rdv') /\ SesAfter(ses', rdv')
  BY <1>1, <1>2, <1>5, LaterInventories, LaterSessions
<1>7. InvAfter([I EXCEPT ![i] = x], rdv')
  BY <1>4, <1>6, NotLiveAfter
<1>8. inv' = [I EXCEPT ![i] = x] \/ inv' = I
  BY <1>1, <1>2 DEF InvAfter, Stays
<1> QED BY <1>2, <1>6, <1>7, <1>8, RequestsAlone DEF Usual

\* complete_session of an inventory
LEMMA CompleteInventoryUsual ==
  ASSUME SInv, NEW i \in Sid, CompleteInventoryAsSession(i)
  PROVE  Usual
<1> DEFINE x == [inv[i] EXCEPT !.st = "ended"]
<1>1. InvAfter(inv, rdv) /\ SesAfter(ses, rdv)
  BY NothingHappens, Stutters DEF SInv
<1>2. x \in InventoryRecord /\ x.st = "ended"
  BY InventoryUpdates DEF SInv, PInv
<1>3. rdv' = rdv /\ ses' = ses /\ req' = req /\ inv' = [inv EXCEPT ![i] = x]
  BY DEF CompleteInventoryAsSession
<1> HIDE DEF x
<1>4. InvAfter([inv EXCEPT ![i] = x], rdv)
  BY <1>1, <1>2, NotLiveAfter
<1> QED BY <1>1, <1>3, <1>4, RequestsAlone DEF Usual

-----------------------------------------------------------------------------
(* The handlers of sessions, but the one that creates them.                *)

\* get_session refreshes the session it finds.
LEMMA GetSessionAfter ==
  ASSUME SInv, NEW e, GetSession(e)
  PROVE  InvAfter(inv', rdv') /\ SesAfter(ses', rdv')
<1>1. InvAfter(CleanInv(FALSE), CleanRdv(FALSE)) /\ SesAfter(CleanSes(FALSE), CleanRdv(FALSE))
  BY CleanInvAfter, CleanSesAfter
<1>2. SesAfter([CleanSes(FALSE) EXCEPT ![e].idle = 0], CleanRdv(FALSE))
  BY <1>1, TouchSession
<1>3. /\ inv' = CleanInv(FALSE) /\ rdv' = CleanRdv(FALSE)
      /\ \/ ses' = [CleanSes(FALSE) EXCEPT ![e].idle = 0]
         \/ ses' = CleanSes(FALSE)
  BY DEF GetSession
<1> QED BY <1>1, <1>2, <1>3

\* The common end of a session voids its reservation in the rendezvous r: all
\* of it had entries before.
LEMMA EndSessionAfter ==
  ASSUME SInv, NEW I, NEW S, NEW r, NEW e \in Ses, ses[e].st # "none",
         Evolves(Grants, rdv, r), InvAfter(I, r), SesAfter(S, r),
         NEW T, T \in [Ses -> SessionRecord], \A d \in Ses : d # e => T[d] = S[d],
         T[e].st = "ended", T[e].inv = S[e].inv, T[e].reserved = S[e].reserved,
         Ends(e, I, T, r)
  PROVE  InvAfter(inv', rdv') /\ SesAfter(ses', rdv')
<1> DEFINE i == T[e].inv
           A == T[e].reserved
           K == ({i} \X A) \cap DOMAIN r.entries
           q == Burn(r, K)
<1>1. /\ ses' = T
      /\ inv' = I \/ inv' = [I EXCEPT ![i].st = "ended", ![i].idle = 0]
      /\ rdv' = q \/ rdv' = Terminal(q, {i})
  BY DEF Ends, EndSession, BurnReserved
<1>2. i = ses[e].inv /\ A = ses[e].reserved
  BY DEF SesAfter, Remains
<1>3. Backed(ses[e], inv, rdv) /\ ses[e] \in SessionRecord
  BY DEF SInv, SessionsBacked
<1>4. \A a \in A : <<i, a>> \in Key /\ HadEntry(r, <<i, a>>)
  <2> HIDE DEF i, A
  <2>1. \A a \in A : <<i, a>> \in Key
    BY <1>2, <1>3 DEF Backed, SessionRecord, Key
  <2>2. \A a \in A : HadEntry(rdv, <<i, a>>)
    BY <1>2, <1>3 DEF Backed
  <2> QED BY <2>1, <2>2 DEF Evolves
<1> HIDE DEF i, A
<1>5. \A a \in A : <<i, a>> \in DOMAIN r.entries => <<i, a>> \in K
  OBVIOUS
<1> HIDE DEF K
<1>6. /\ Evolves(Grants, r, q)
      /\ \A k \in K \cap Key : IsVoid(q, k)
  BY BurnEvolves DEF Evolves
<1>7. \A a \in A : IsVoid(q, <<i, a>>)
  <2> HIDE DEF q
  <2> QED BY <1>4, <1>5, <1>6 DEF HadEntry, Evolves
<1> HIDE DEF q
<1>8. Evolves(Grants, q, rdv')
  BY <1>1, <1>6, TerminalEvolves DEF Evolves
<1>9. Evolves(Grants, r, rdv')
  BY <1>6, <1>8, EvolvesTransitive
<1>10. InvAfter(I, rdv') /\ SesAfter(S, rdv')
  BY <1>9, EvolvesPreserves, LaterInventories, LaterSessions
<1>11. InvAfter(inv', rdv')
  BY <1>1, <1>10, EndAfter
<1>12. \A a \in A : IsVoid(rdv', <<i, a>>)
  BY <1>4, <1>7, <1>8 DEF Evolves
<1>13. Remains(ses[e], T[e], rdv')
  BY <1>2, <1>12 DEF Remains, i, A
<1>14. SesAfter(T, rdv')
  BY <1>10, <1>13 DEF SesAfter
<1> QED BY <1>1, <1>11, <1>14

\* cancel_runtime_session
LEMMA CancelSessionUsual ==
  ASSUME SInv, NEW e \in Ses, CancelSession(e)
  PROVE  Usual
<1> DEFINE I == CleanInv(FALSE)
           S == CleanSes(FALSE)
           R == CleanRdv(FALSE)
           T == [S EXCEPT ![e].st = "ended", ![e].idle = 0]
<1>1. InvAfter(I, R) /\ SesAfter(S, R) /\ Evolves(Grants, rdv, R)
  BY CleanInvAfter, CleanSesAfter, CleanEvolves DEF SInv
<1>2. /\ ses[e].st # "none" /\ req' = req
      /\ EndSession(e, I, T, R) \/ (ses' = S /\ inv' = I /\ rdv' = R)
  BY DEF CancelSession
<1> HIDE DEF I, S, R
<1>3. /\ T \in [Ses -> SessionRecord] /\ \A d \in Ses : d # e => T[d] = S[d]
      /\ T[e].st = "ended" /\ T[e].inv = S[e].inv /\ T[e].reserved = S[e].reserved
  <2> DEFINE t == [S[e] EXCEPT !.st = "ended", !.idle = 0]
  <2>1. S \in [Ses -> SessionRecord] /\ S[e] \in SessionRecord /\ 0 \in 0..IdleTimeout
    BY <1>1, LimitsArePositive DEF SesAfter
  <2>2. t \in SessionRecord /\ t.st = "ended" /\ t.inv = S[e].inv /\ t.reserved = S[e].reserved
    BY <2>1 DEF SessionRecord
  <2>3. T = [S EXCEPT ![e] = t]
    BY <2>1
  <2> HIDE DEF t, T
  <2> QED BY <2>1, <2>2, <2>3
<1> HIDE DEF T
<1>4. InvAfter(inv', rdv') /\ SesAfter(ses', rdv')
  <2>1. CASE EndSession(e, I, T, R)
    BY <1>1, <1>2, <1>3, <2>1, EndSessionAfter DEF Ends
  <2> QED BY <1>1, <1>2, <2>1
<1> QED BY <1>2, <1>4, RequestsAlone DEF Usual

\* complete_session, up to its await ...
LEMMA BeginCompleteUsual ==
  ASSUME SInv, NEW e \in Ses, BeginComplete(e)
  PROVE  Usual
BY GetSessionAfter, RequestsAlone DEF BeginComplete, Usual

\* ... and after it; cancel_response likewise.
LEMMA EndCompleteUsual ==
  ASSUME SInv, NEW e \in Ses, EndComplete(e) \/ CancelResponse(e)
  PROVE  Usual
<1> DEFINE T == [ses EXCEPT ![e].st = "ended"]
<1>1. InvAfter(inv, rdv) /\ SesAfter(ses, rdv) /\ Evolves(Grants, rdv, rdv)
  BY NothingHappens, Stutters DEF SInv
<1>2. Ends(e, inv, T, rdv) /\ req' = req /\ ses[e].st # "none"
  <2>1. CASE EndComplete(e)
    BY <2>1 DEF EndComplete, Ends, SInv, CompletingExist
  <2>2. CASE CancelResponse(e)
    <3>1. ses[e].st # "none"
      BY <2>2 DEF CancelResponse, SInv, SessionsBacked, NoSession
    <3> QED BY <2>2, <3>1 DEF CancelResponse, Ends
  <2> QED BY <2>1, <2>2
<1>3. /\ T \in [Ses -> SessionRecord] /\ \A d \in Ses : d # e => T[d] = ses[d]
      /\ T[e].st = "ended" /\ T[e].inv = ses[e].inv /\ T[e].reserved = ses[e].reserved
  <2> DEFINE t == [ses[e] EXCEPT !.st = "ended"]
  <2>1. ses \in [Ses -> SessionRecord] /\ ses[e] \in SessionRecord
    BY DEF SInv
  <2>2. t \in SessionRecord /\ t.st = "ended" /\ t.inv = ses[e].inv /\ t.reserved = ses[e].reserved
    BY <2>1 DEF SessionRecord
  <2>3. T = [ses EXCEPT ![e] = t]
    BY <2>1
  <2> HIDE DEF t, T
  <2> QED BY <2>1, <2>2, <2>3
<1> HIDE DEF T
<1>4. InvAfter(inv', rdv') /\ SesAfter(ses', rdv')
  BY <1>1, <1>2, <1>3, EndSessionAfter
<1> QED BY <1>2, <1>4, RequestsAlone DEF Usual

-----------------------------------------------------------------------------
(* Requests.                                                               *)

\* A request that moves on, in a session that exists.
LEMMA RequestMoves ==
  ASSUME SInv, NEW p \in Holder, NEW x \in RequestRecord, Belongs(x),
         req' = [req EXCEPT ![p] = x]
  PROVE  req' \in [Holder -> RequestRecord] /\ \A q \in Holder : Belongs(req'[q])
BY DEF SInv, RequestsBelong

\* A request that ends.
LEMMA RequestEnds ==
  ASSUME SInv, NEW p \in Holder, End(p)
  PROVE  req' \in [Holder -> RequestRecord] /\ \A q \in Holder : Belongs(req'[q])
<1>1. NoRequest \in RequestRecord /\ Belongs(NoRequest)
  BY DEF NoRequest, RequestRecord, Belongs
<1> QED BY <1>1, RequestMoves DEF End

\* A request that waits for a body.
LEMMA RequestWaits ==
  ASSUME NEW e \in Ses, ses[e].st # "none"
  PROVE  LET x == [NoRequest EXCEPT !.st = "body", !.ses = e]
         IN  x \in RequestRecord /\ Belongs(x)
BY DEF NoRequest, RequestRecord, Belongs

\* The routes find a session.
LEMMA BeginRequestUsual ==
  ASSUME SInv, NEW p \in Holder, NEW e \in Ses, BeginRequest(p, e)
  PROVE  Usual
<1> DEFINE x == [NoRequest EXCEPT !.st = "body", !.ses = e]
<1>1. InvAfter(inv', rdv') /\ SesAfter(ses', rdv')
  BY GetSessionAfter DEF BeginRequest
<1>2. x \in RequestRecord /\ Belongs(x)
  BY RequestWaits DEF BeginRequest, GetSession
<1>3. req' = [req EXCEPT ![p] = x] \/ req' = req
  BY DEF BeginRequest
<1> HIDE DEF x
<1>4. req' \in [Holder -> RequestRecord] /\ \A q \in Holder : Belongs(req'[q])
  BY <1>2, <1>3, RequestsAlone, RequestMoves
<1> QED BY <1>1, <1>4 DEF Usual

\* validate_prepared_request touches the inventory of the session.
LEMMA RequestTouchesAfter ==
  ASSUME SInv, NEW e \in Ses, TouchInventory(e), ses' = ses, Evolves(Grants, rdv, rdv')
  PROVE  InvAfter(inv', rdv') /\ SesAfter(ses', rdv')
<1>1. InvAfter(inv, rdv') /\ SesAfter(ses, rdv')
  BY NothingHappens
<1>2. CASE IsActive(e)
  <2> DEFINE i == InventoryOf(e)
  <2>1. ses[e].st # "none" /\ inv[i].st # "none" /\ inv' = [inv EXCEPT ![i].idle = 0]
    BY <1>2 DEF IsActive, IsLive, TouchInventory
  <2>2. i \in Sid
    BY <2>1 DEF SInv, SessionsBacked, Backed, InventoryOf
  <2> HIDE DEF i
  <2>3. InvAfter([inv EXCEPT ![i].idle = 0], rdv')
    BY <1>1, <2>1, <2>2, TouchAfter
  <2> QED BY <1>1, <2>1, <2>3
<1>3. CASE ~IsActive(e)
  BY <1>1, <1>3 DEF TouchInventory
<1> QED BY <1>2, <1>3

\* execute_prepared_payloads, up to its await
LEMMA SubmitBatchUsual ==
  ASSUME SInv, NEW p \in Holder, NEW kind \in {"compact", "raw"}, NEW A \in SUBSET Attempt,
         SubmitBatch(p, kind, A), Evolves(Grants, rdv, rdv')
  PROVE  Usual
<1> DEFINE x == [req[p] EXCEPT !.st = "running", !.kind = kind]
<1>1. req[p].st = "body" /\ TouchInventory(req[p].ses) /\ ses' = ses
  BY DEF SubmitBatch
<1>2. req[p] \in RequestRecord /\ req[p].ses \in Ses /\ ses[req[p].ses].st # "none"
  BY <1>1 DEF SInv, RequestsBelong, Belongs
<1>3. InvAfter(inv', rdv') /\ SesAfter(ses', rdv')
  BY <1>1, <1>2, RequestTouchesAfter
<1>4. x \in RequestRecord /\ x.st = "running" /\ x.ses = req[p].ses
  BY <1>2 DEF RequestRecord
<1>5. End(p) \/ req' = [req EXCEPT ![p] = x]
  BY DEF SubmitBatch
<1> HIDE DEF x
<1>6. Belongs(x)
  BY <1>2, <1>4 DEF Belongs
<1>7. req' \in [Holder -> RequestRecord] /\ \A q \in Holder : Belongs(req'[q])
  BY <1>4, <1>5, <1>6, RequestEnds, RequestMoves
<1> QED BY <1>3, <1>7 DEF Usual

\* run_prepared_requests, up to its first await: it gathers reserved rows.
LEMMA SubmitMultiUsual ==
  ASSUME SInv, NEW p \in Holder, NEW A \in SUBSET Attempt,
         SubmitMulti(p, A), Evolves(Grants, rdv, rdv')
  PROVE  Usual
<1> DEFINE x == [req[p] EXCEPT !.st = "gathering", !.kind = "multi", !.todo = A]
<1>1. req[p].st = "body" /\ TouchInventory(req[p].ses) /\ ses' = ses
  BY DEF SubmitMulti
<1>2. req[p] \in RequestRecord /\ req[p].ses \in Ses /\ ses[req[p].ses].st # "none"
  BY <1>1 DEF SInv, RequestsBelong, Belongs
<1>3. InvAfter(inv', rdv') /\ SesAfter(ses', rdv')
  BY <1>1, <1>2, RequestTouchesAfter
<1>4. x \in RequestRecord /\ x.st = "gathering" /\ x.ses = req[p].ses /\ x.todo = A
  BY <1>2 DEF RequestRecord
<1>5. End(p) \/ (req' = [req EXCEPT ![p] = x] /\ A \subseteq ses[req[p].ses].reserved)
  BY DEF SubmitMulti, IsValid
<1> HIDE DEF x
<1>6. A \subseteq ses[req[p].ses].reserved => Belongs(x)
  BY <1>2, <1>4 DEF Belongs
<1>7. req' \in [Holder -> RequestRecord] /\ \A q \in Holder : Belongs(req'[q])
  BY <1>4, <1>5, <1>6, RequestEnds, RequestMoves
<1> QED BY <1>3, <1>7 DEF Usual

\* What a request does after that leaves sessions and inventories alone.
LEMMA RequestRunsUsual ==
  ASSUME SInv, NEW p \in Holder, RequestRuns(p) \/ Disconnect(p), Evolves(Grants, rdv, rdv')
  PROVE  Usual
<1>1. inv' = inv /\ ses' = ses
  BY DEF RequestRuns, TakeRow, TimeOutRow, EngineAnswersMulti, EngineAnswers, GiveUp,
         GatherEnds, Disconnect
<1>2. InvAfter(inv', rdv') /\ SesAfter(ses', rdv')
  BY <1>1, NothingHappens
<1>3. req[p] \in RequestRecord /\ Belongs(req[p])
  BY DEF SInv, RequestsBelong
<1>4. SUFFICES req' \in [Holder -> RequestRecord] /\ \A q \in Holder : Belongs(req'[q])
  BY <1>2 DEF Usual
<1>5. ASSUME End(p)  PROVE req' \in [Holder -> RequestRecord] /\ \A q \in Holder : Belongs(req'[q])
  BY <1>5, RequestEnds
<1>6. ASSUME NEW a, req[p].st = "gathering",
             \/ req' = [req EXCEPT ![p].todo = @ \ {a}]
             \/ req' = [req EXCEPT ![p].todo = @ \ {a}, ![p].bad = TRUE]
      PROVE  req' \in [Holder -> RequestRecord] /\ \A q \in Holder : Belongs(req'[q])
  <2> DEFINE x == [req[p] EXCEPT !.todo = req[p].todo \ {a}]
             y == [req[p] EXCEPT !.todo = req[p].todo \ {a}, !.bad = TRUE]
  <2>1. /\ x \in RequestRecord /\ x.st = req[p].st /\ x.ses = req[p].ses
        /\ x.todo = req[p].todo \ {a}
    BY <1>3 DEF RequestRecord
  <2>2. /\ y \in RequestRecord /\ y.st = req[p].st /\ y.ses = req[p].ses
        /\ y.todo = req[p].todo \ {a}
    BY <1>3 DEF RequestRecord
  <2>3. req' = [req EXCEPT ![p] = x] \/ req' = [req EXCEPT ![p] = y]
    BY <1>6 DEF SInv, RequestsBelong
  <2> HIDE DEF x, y
  <2>4. Belongs(x) /\ Belongs(y)
    BY <1>3, <2>1, <2>2 DEF Belongs
  <2> QED BY <2>1, <2>2, <2>3, <2>4, RequestMoves
<1>7. ASSUME EngineAnswersMulti(p)
      PROVE  req' \in [Holder -> RequestRecord] /\ \A q \in Holder : Belongs(req'[q])
  <2>1. PICK ok \in BOOLEAN : req' = [req EXCEPT ![p].ran = TRUE, ![p].bad = @ \/ ~ok]
    BY <1>7 DEF EngineAnswersMulti
  <2> DEFINE b == req[p].bad \/ ~ok
             x == [req[p] EXCEPT !.ran = TRUE, !.bad = b]
  <2>2. b \in BOOLEAN
    BY <1>3 DEF RequestRecord
  <2>3. req' = [req EXCEPT ![p] = x]
    BY <2>1 DEF SInv, RequestsBelong
  <2> HIDE DEF b
  <2>4. /\ x \in RequestRecord /\ x.st = req[p].st /\ x.ses = req[p].ses
        /\ x.todo = req[p].todo
    BY <1>3, <2>2 DEF RequestRecord
  <2> HIDE DEF x
  <2>5. Belongs(x)
    BY <1>3, <2>4 DEF Belongs
  <2> QED BY <2>3, <2>4, <2>5, RequestMoves
<1>8. ASSUME EngineAnswers(p)
      PROVE  req' \in [Holder -> RequestRecord] /\ \A q \in Holder : Belongs(req'[q])
  <2> DEFINE x == [NoRequest EXCEPT !.st = "body", !.ses = req[p].ses]
  <2>1. req[p].ses \in Ses /\ ses[req[p].ses].st # "none"
    BY <1>3, <1>8 DEF EngineAnswers, Belongs
  <2>2. x \in RequestRecord /\ Belongs(x)
    BY <2>1, RequestWaits
  <2>3. End(p) \/ req' = [req EXCEPT ![p] = x]
    BY <1>8 DEF EngineAnswers
  <2> HIDE DEF x
  <2> QED BY <2>2, <2>3, RequestEnds, RequestMoves
<1> QED BY <1>5, <1>6, <1>7, <1>8
        DEF RequestRuns, TakeRow, TimeOutRow, GiveUp, GatherEnds, Disconnect

-----------------------------------------------------------------------------
\* Time only ages what it finds.
LEMMA TickUsual ==
  ASSUME SInv, Tick, Stays(inv'), Evolves(Grants, rdv, rdv')
  PROVE  Usual
<1> DEFINE older(x) == IF x.known /\ x.idle < IdleTimeout THEN [x EXCEPT !.idle = x.idle + 1] ELSE x
<1>1. /\ inv' = [i \in Sid |-> older(inv[i])]
      /\ ses' = [e \in Ses |-> older(ses[e])]
      /\ req' = req
  BY DEF Tick
<1>2. InvAfter(inv, rdv') /\ SesAfter(ses, rdv')
  BY NothingHappens
<1>3. ASSUME NEW i \in Sid  PROVE Continues(inv[i], older(inv[i]), i, rdv')
  <2>1. inv[i] \in InventoryRecord
    BY DEF SInv, PInv
  <2>2. /\ older(inv[i]).st = inv[i].st /\ older(inv[i]).known = inv[i].known
        /\ older(inv[i]).rows = inv[i].rows /\ older(inv[i]).stage_rows = inv[i].stage_rows
        /\ older(inv[i]).demand = inv[i].demand /\ older(inv[i]).prepared = inv[i].prepared
        /\ older(inv[i]).next = inv[i].next
    BY <2>1 DEF InventoryRecord
  <2>3. inv[i].next <= inv[i].next
    BY <2>1, GridAssumption DEF InventoryRecord
  <2> HIDE DEF older
  <2> QED BY <2>2, <2>3 DEF Continues, IsLive
<1>4. ASSUME NEW e \in Ses  PROVE older(ses[e]) \in SessionRecord /\ Remains(ses[e], older(ses[e]), rdv')
  <2>1. ses[e] \in SessionRecord
    BY DEF SInv
  <2>2. ses[e].idle < IdleTimeout => ses[e].idle + 1 \in 0..IdleTimeout
    BY <2>1, LimitsArePositive DEF SessionRecord
  <2>3. /\ older(ses[e]) \in SessionRecord /\ older(ses[e]).st = ses[e].st
        /\ older(ses[e]).inv = ses[e].inv /\ older(ses[e]).reserved = ses[e].reserved
    BY <2>1, <2>2 DEF SessionRecord
  <2>4. ses[e].st = "none" => older(ses[e]) = ses[e]
    BY DEF SInv, SessionsBacked, NoSession
  <2> HIDE DEF older
  <2> QED BY <1>2, <2>3, <2>4 DEF SesAfter, Remains
<1> HIDE DEF older
<1>5. InvAfter(inv', rdv') /\ SesAfter(ses', rdv')
  BY <1>1, <1>3, <1>4 DEF InvAfter, SesAfter
<1> QED BY <1>1, <1>5, RequestsAlone DEF Usual

-----------------------------------------------------------------------------
(* create_session with an inventory.                                       *)

\* No two rows of the grid are one attempt.
LEMMA AttemptsDiffer ==
  ASSUME NEW g \in Stage, NEW h \in Stage, NEW m \in Row, NEW n \in Row,
         AttemptOf(g, m) = AttemptOf(h, n)
  PROVE  m = n
<1>1. /\ g \in Int /\ h \in Int /\ m \in Int /\ n \in Int /\ MaxRows \in Int
      /\ 0 <= m /\ m < MaxRows /\ 0 <= n /\ n < MaxRows
  BY GridAssumption DEF Stage, Row
<1>2. (g - h) * MaxRows = n - m
  BY <1>1 DEF AttemptOf
<1>3. CASE g - h >= 1
  <2>1. (g - h) * MaxRows >= MaxRows
    BY <1>1, <1>3
  <2> QED BY <1>1, <1>2, <2>1
<1>4. CASE h - g >= 1
  <2>1. (h - g) * MaxRows >= MaxRows
    BY <1>1, <1>4
  <2>2. (g - h) * MaxRows = 0 - (h - g) * MaxRows
    BY <1>1
  <2>3. (h - g) * MaxRows \in Int /\ (g - h) * MaxRows \in Int
    BY <1>1
  <2> QED BY <1>1, <1>2, <2>1, <2>2, <2>3
<1>5. CASE g = h
  <2>1. (g - h) * MaxRows = 0
    BY <1>1, <1>5
  <2> QED BY <1>1, <1>2, <2>1
<1> QED BY <1>1, <1>3, <1>4, <1>5

\* A reservation is made of rows from the cursor on, below where it moves, that
\* the stages have.
LEMMA ReservedRows ==
  ASSUME NEW x \in InventoryRecord, GridFits(x), NEW start \in Row, NEW rows \in 1..MaxRows,
         Available(x, start, rows), NEW a \in Reserved(x, rows)
  PROVE  \E g \in Stage : \E row \in Row :
           /\ a = AttemptOf(g, row) /\ row < x.stage_rows[g]
           /\ x.next <= row /\ row < NextRow(x, rows)
<1> DEFINE last(g) == IF x.demand THEN x.stage_rows[g] ELSE x.next + rows
<1>0. PICK g \in Stage : \E row \in x.next .. (last(g) - 1) : a = AttemptOf(g, row)
  BY DEF Reserved
<1>1. PICK row \in x.next .. (last(g) - 1) : a = AttemptOf(g, row)
  BY <1>0
<1>2. /\ x.next \in 0..MaxRows /\ x.rows \in 0..MaxRows /\ x.stage_rows[g] \in 0..MaxRows
      /\ x.stage_rows[g] <= x.rows /\ (~x.demand => x.stage_rows[g] = x.rows)
      /\ x.next + rows <= x.rows
  BY DEF InventoryRecord, GridFits, Available
<1>3. last(g) \in Int /\ last(g) <= x.stage_rows[g] /\ last(g) <= NextRow(x, rows)
      /\ NextRow(x, rows) \in Int
  BY <1>2, GridAssumption DEF NextRow
<1> HIDE DEF last
<1>4. row \in Row /\ row < x.stage_rows[g] /\ x.next <= row /\ row < NextRow(x, rows)
  BY <1>1, <1>2, <1>3, GridAssumption DEF Row
<1> QED BY <1>1, <1>4

\* A session that gets its reservation keeps the invariant.
LEMMA ReservationKeeps ==
  ASSUME SInv, StepShape, NEW e \in Ses, ses[e].st = "none", NEW i \in Sid,
         NEW start \in Row, NEW rows \in 1..MaxRows,
         Available(CleanInv(TRUE)[i], start, rows),
         inv' = [CleanInv(TRUE) EXCEPT ![i].next = NextRow(CleanInv(TRUE)[i], rows), ![i].idle = 0],
         ses' = [CleanSes(TRUE) EXCEPT ![e] =
                   [st |-> "live", known |-> TRUE, inv |-> i,
                    reserved |-> Reserved(CleanInv(TRUE)[i], rows), idle |-> 0]],
         rdv' = CleanRdv(TRUE), req' = req, completing' = completing
  PROVE  SInv'
<1> DEFINE I == CleanInv(TRUE)
           S == CleanSes(TRUE)
           A == Reserved(I[i], rows)
           n == NextRow(I[i], rows)
           new == [st |-> "live", known |-> TRUE, inv |-> i, reserved |-> A, idle |-> 0]
           x == [I[i] EXCEPT !.next = n, !.idle = 0]
<1>1. InvAfter(I, rdv') /\ SesAfter(S, rdv') /\ Preserves(rdv, rdv') /\ PInv'
  BY CleanInvAfter, CleanSesAfter, ShapePreserves, ShapeKeeps DEF SInv
<1>2. I[i] \in InventoryRecord /\ IsLive(I[i]) /\ I[i].prepared = Stage
  BY <1>1 DEF InvAfter, Stays, Available
<1>3. I[i] = inv[i]
  BY <1>2 DEF CleanInv, NoInventory, IsLive
<1>4. GridFits(inv[i]) /\ StagesLoaded(i, inv[i], rdv) /\ inv[i].st = "live"
  BY <1>2, <1>3 DEF SInv, InventoriesKept, IsLive
<1>5. ASSUME NEW a \in A
      PROVE  \E g \in Stage : \E row \in Row :
               /\ a = AttemptOf(g, row) /\ row < I[i].stage_rows[g]
               /\ I[i].next <= row /\ row < n
  BY <1>2, <1>3, <1>4, <1>5, ReservedRows
<1>6. n \in 0..MaxRows /\ I[i].next <= n
  <2>1. I[i].rows \in 0..MaxRows /\ I[i].next \in 0..MaxRows
    BY <1>2 DEF InventoryRecord
  <2>2. I[i].next + rows <= I[i].rows
    BY DEF Available
  <2> HIDE DEF I
  <2> QED BY <2>1, <2>2, GridAssumption DEF NextRow
<1>7. /\ inv' = [I EXCEPT ![i] = x]
      /\ ses' = [S EXCEPT ![e] = new]
  BY <1>1 DEF InvAfter, Stays
<1> HIDE DEF I, S, A, n
<1>8. x \in InventoryRecord /\ x.next = n /\ x.st = I[i].st /\ x.known = I[i].known
      /\ x.rows = I[i].rows /\ x.stage_rows = I[i].stage_rows /\ x.demand = I[i].demand
      /\ x.prepared = I[i].prepared
  <2>1. x \in InventoryRecord
    BY <1>2, <1>6, InventoryUpdates
  <2> QED BY <1>2, <2>1 DEF InventoryRecord
<1> HIDE DEF x
<1>9. InvAfter(inv', rdv')
  <2>1. /\ I[i].st # "none" => x.st # "none"
        /\ IsLive(I[i]) /\ I[i].next <= x.next
        /\ \A g \in x.prepared \ I[i].prepared :
             \A a \in Attempts(x, g) : HadEntry(rdv', <<i, a>>)
        /\ inv[i].st # "none"
    BY <1>2, <1>4, <1>6, <1>8
  <2>2. InvAfter([I EXCEPT ![i] = x], rdv')
    BY <1>1, <1>8, <2>1, InventoryReplaced
  <2> QED BY <1>7, <2>2
<1>10. InventoriesKept'
  BY <1>1, <1>9, InventoriesStayKept
<1>11. A \in SUBSET Attempt
  BY <1>5, GridAttempt
<1>12. ses' \in [Ses -> SessionRecord] /\ ses'[e] = new /\ \A d \in Ses : d # e => ses'[d] = S[d]
  <2>1. new \in SessionRecord
    BY <1>11, LimitsArePositive DEF SessionRecord
  <2> HIDE DEF new
  <2> QED BY <1>1, <1>7, <2>1 DEF SesAfter
<1>13. Backed(new, inv', rdv')
  <2>1. inv'[i] = x
    BY <1>1, <1>7 DEF InvAfter, Stays
  <2>2. ASSUME NEW a \in A  PROVE HadEntry(rdv', <<i, a>>)
    <3>1. PICK g \in Stage, row \in Row : a = AttemptOf(g, row) /\ row < I[i].stage_rows[g]
      BY <1>5, <2>2
    <3>2. I[i].stage_rows[g] \in 0..MaxRows
      BY <1>2 DEF InventoryRecord
    <3>3. row \in 0..(I[i].stage_rows[g] - 1)
      BY <3>1, <3>2, GridAssumption DEF Row
    <3>4. a \in Attempts(inv[i], g)
      BY <1>3, <3>1, <3>3 DEF Attempts
    <3>5. HadEntry(rdv, <<i, a>>) /\ <<i, a>> \in Key
      BY <1>2, <1>3, <1>4, <1>11, <3>4 DEF StagesLoaded, Key
    <3> QED BY <1>1, <1>4, <3>5 DEF Preserves
  <2>3. A \subseteq Below(n)
    BY <1>5, <1>11 DEF Below
  <2> QED BY <1>4, <1>3, <1>8, <2>1, <2>2, <2>3 DEF Backed
<1>14. SessionsBacked'
  <2> SUFFICES ASSUME NEW d \in Ses
               PROVE  IF ses'[d].st = "none" THEN ses'[d] = NoSession
                                             ELSE Backed(ses'[d], inv', rdv')
    BY DEF SessionsBacked
  <2>1. CASE d = e
    BY <1>12, <1>13, <2>1
  <2>2. CASE d # e /\ ses[d].st = "none"
    BY <1>1, <1>12, <2>2 DEF SInv, SessionsBacked, SesAfter, Remains
  <2>3. CASE d # e /\ ses[d].st # "none"
    <3>1. Remains(ses[d], ses'[d], rdv')
      BY <1>1, <1>12, <2>3 DEF SesAfter
    <3> QED BY <1>1, <1>9, <2>3, <3>1, StaysBacked DEF Remains
  <2> QED BY <2>1, <2>2, <2>3
<1>15. \A d \in Ses : d # e => /\ ses'[d].inv = ses[d].inv /\ ses'[d].reserved = ses[d].reserved
                              /\ (ses[d].st # "none" => ses'[d].st # "none")
  BY <1>1, <1>12 DEF SesAfter, Remains
<1>16. ASSUME NEW d \in Ses, d # e, ses[d].inv = i  PROVE ses[d].reserved \cap A = {}
  <2>1. CASE ses[d].st = "none"
    BY <2>1 DEF SInv, SessionsBacked, NoSession
  <2>2. CASE ses[d].st # "none"
    <3>1. ses[d].reserved \subseteq Below(I[i].next)
      BY <1>2, <1>3, <1>16, <2>2 DEF SInv, SessionsBacked, Backed
    <3>2. ASSUME NEW a \in A, a \in Below(I[i].next)  PROVE FALSE
      <4>1. PICK g \in Stage, m \in Row : a = AttemptOf(g, m) /\ m < I[i].next
        BY <3>2 DEF Below
      <4>2. PICK h \in Stage, k \in Row : a = AttemptOf(h, k) /\ I[i].next <= k
        BY <1>5, <3>2
      <4>3. m = k
        BY <4>1, <4>2, AttemptsDiffer
      <4>4. m \in Int /\ I[i].next \in Int
        BY <1>2, GridAssumption DEF Row, InventoryRecord
      <4> QED BY <4>1, <4>2, <4>3, <4>4
    <3> QED BY <3>1, <3>2
  <2> QED BY <2>1, <2>2
<1>17. DisjointReservations'
  <2> SUFFICES ASSUME NEW c \in Ses, NEW d \in Ses, c # d, ses'[c].inv = ses'[d].inv
               PROVE  ses'[c].reserved \cap ses'[d].reserved = {}
    BY DEF DisjointReservations
  <2>1. ses'[e].inv = i /\ ses'[e].reserved = A
    BY <1>12
  <2>2. CASE c = e
    BY <1>15, <1>16, <2>1, <2>2
  <2>3. CASE d = e
    BY <1>15, <1>16, <2>1, <2>3
  <2>4. CASE c # e /\ d # e
    BY <1>15, <2>4 DEF SInv, DisjointReservations
  <2> QED BY <2>2, <2>3, <2>4
<1>18. RequestsBelong' /\ CompletingExist'
  BY <1>15 DEF SInv, RequestsBelong, Belongs, CompletingExist
<1> QED BY <1>1, <1>10, <1>12, <1>14, <1>17, <1>18 DEF SInv

\* create_session reserves, or leaves what cleanup left.
LEMMA CreateSessionKeeps ==
  ASSUME SInv, StepShape, NEW e \in Ses, NEW i \in Sid, NEW start \in Row, NEW rows \in 1..MaxRows,
         CreateSession(e, i, start, rows)
  PROVE  SInv'
<1>1. ses[e].st = "none" /\ rdv' = CleanRdv(TRUE) /\ req' = req /\ completing' = completing
  BY DEF CreateSession
<1>2. \/ inv' = CleanInv(TRUE) /\ ses' = CleanSes(TRUE)
      \/ /\ Available(CleanInv(TRUE)[i], start, rows)
         /\ inv' = [CleanInv(TRUE) EXCEPT ![i].next = NextRow(CleanInv(TRUE)[i], rows), ![i].idle = 0]
         /\ ses' = [CleanSes(TRUE) EXCEPT ![e] =
                      [st |-> "live", known |-> TRUE, inv |-> i,
                       reserved |-> Reserved(CleanInv(TRUE)[i], rows), idle |-> 0]]
  BY DEF CreateSession
<1>3. CASE inv' = CleanInv(TRUE) /\ ses' = CleanSes(TRUE)
  <2>1. InvAfter(inv', rdv') /\ SesAfter(ses', rdv')
    BY <1>1, <1>3, CleanInvAfter, CleanSesAfter
  <2>2. completing' \subseteq {d \in Ses : ses[d].st # "none"}
    BY <1>1 DEF SInv, CompletingExist
  <2> QED BY <1>1, <2>1, <2>2, RequestsAlone, UsualStep
<1> QED BY <1>1, <1>2, <1>3, ReservationKeeps

-----------------------------------------------------------------------------
\* A session is known before its completion is awaited.
LEMMA CompletingKnown ==
  ASSUME SInv, [Next]_vars
  PROVE  completing' \subseteq {e \in Ses : ses[e].st # "none"}
<1>1. ASSUME NEW i \in Sid, InventoryStep(i)  PROVE completing' = completing
  BY <1>1 DEF InventoryStep, CreateInventory, BeginAuthorize, EndAuthorize, AcceptCorrection,
     SealInventory, GetInventory, CancelInventory, CancelInventoryAsSession,
     CompleteInventoryAsSession
<1>2. ASSUME NEW e \in Ses, SessionStep(e)
      PROVE  completing' \subseteq completing \cup {d \in {e} : ses[d].st # "none"}
  BY <1>2 DEF SessionStep, CreateSession, CancelSession, CancelResponse, BeginComplete, GetSession,
     EndComplete
<1>3. ASSUME NEW p \in Holder, RequestStep(p)  PROVE completing' = completing
  BY <1>3 DEF RequestStep, BeginRequest, SubmitBatch, SubmitMulti, RequestRuns, TakeRow,
     TimeOutRow, EngineAnswersMulti, EngineAnswers, GiveUp, GatherEnds, Disconnect
<1>4. CASE Tick \/ UNCHANGED vars
  BY <1>4 DEF Tick, vars, SInv, CompletingExist
<1> QED BY <1>1, <1>2, <1>3, <1>4 DEF Next, SInv, CompletingExist

\* Steps that consume or that leave the keys alone evolve the rendezvous.
LEMMA RequestsEvolve ==
  ASSUME StepShape, inv' = inv \/ \A i \in Sid : inv'[i].st # "none" => inv[i].st # "none"
  PROVE  Evolves(Grants, rdv, rdv') /\ Stays(inv')
BY DEF StepShape, Registers, InventoriesStay

\* validate_prepared_request creates no inventory.
LEMMA TouchCreatesNone ==
  ASSUME PInv, NEW e, TouchInventory(e)
  PROVE  \A i \in Sid : inv'[i].st # "none" => inv[i].st # "none"
<1> TAKE i \in Sid
<1>1. inv[i] \in InventoryRecord
  BY DEF PInv
<1>2. inv'[i] = inv[i] \/ inv'[i] = [inv[i] EXCEPT !.idle = 0]
  BY DEF TouchInventory, PInv
<1> QED BY <1>1, <1>2 DEF InventoryRecord

\* The invariant is inductive.
LEMMA StepsKeep ==
  ASSUME SInv, [Next]_vars
  PROVE  SInv'
<1>1. StepShape /\ PInv
  BY StepsHaveShape DEF SInv
<1>2. completing' \subseteq {e \in Ses : ses[e].st # "none"}
  BY CompletingKnown
<1>3. ASSUME Usual  PROVE SInv'
  BY <1>1, <1>2, <1>3, UsualStep DEF Usual
<1>4. ASSUME NEW i \in Sid, InventoryStep(i)  PROVE SInv'
  BY <1>3, <1>4, CreateInventoryUsual, BeginAuthorizeUsual, EndAuthorizeUsual,
     AcceptCorrectionUsual, SealInventoryUsual, GetInventoryUsual, CancelInventoryUsual,
     CompleteInventoryUsual DEF InventoryStep
<1>5. ASSUME NEW e \in Ses, SessionStep(e)  PROVE SInv'
  BY <1>1, <1>3, <1>5, CreateSessionKeeps, CancelSessionUsual, BeginCompleteUsual,
     EndCompleteUsual DEF SessionStep
<1>6. ASSUME NEW p \in Holder, RequestStep(p)  PROVE Usual
  <2>1. ASSUME NEW g \in Stage, NEW A \in SUBSET StageAttempts(g),
               NEW kind \in {"compact", "raw"}, SubmitBatch(p, kind, A)
        PROVE  Usual
    <3>1. A \in SUBSET Attempt
      BY StageRowsAreAttempts
    <3>2. Evolves(Grants, rdv, rdv')
      BY <1>1, <2>1, TouchCreatesNone, RequestsEvolve DEF SubmitBatch
    <3> QED BY <2>1, <3>1, <3>2, SubmitBatchUsual
  <2>2. ASSUME NEW g \in Stage, NEW A \in SUBSET StageAttempts(g), SubmitMulti(p, A)
        PROVE  Usual
    <3>1. A \in SUBSET Attempt
      BY StageRowsAreAttempts
    <3>2. Evolves(Grants, rdv, rdv')
      BY <1>1, <2>2, TouchCreatesNone, RequestsEvolve DEF SubmitMulti
    <3> QED BY <2>2, <3>1, <3>2, SubmitMultiUsual
  <2>3. ASSUME RequestRuns(p) \/ Disconnect(p)  PROVE Usual
    <3>1. inv' = inv
      BY <2>3 DEF RequestRuns, TakeRow, TimeOutRow, EngineAnswersMulti, EngineAnswers, GiveUp,
                  GatherEnds, Disconnect
    <3>2. Evolves(Grants, rdv, rdv')
      BY <1>1, <3>1, RequestsEvolve
    <3> QED BY <2>3, <3>2, RequestRunsUsual
  <2> QED BY <1>6, <2>1, <2>2, <2>3, BeginRequestUsual DEF RequestStep
<1>7. ASSUME Tick  PROVE Usual
  <2>1. Stays(inv') /\ Evolves(Grants, rdv, rdv')
    <3>1. Stays(inv')
      BY <1>1 DEF StepShape, InventoriesStay
    <3>2. Evolves(Grants, rdv, rdv')
      BY <1>7, AgedEvolves DEF Tick, SInv, PInv
    <3> QED BY <3>1, <3>2
  <2> QED BY <1>7, <2>1, TickUsual
<1>8. ASSUME UNCHANGED vars  PROVE Usual
  <2>1. Evolves(Grants, rdv, rdv)
    BY <1>1, Stutters
  <2>2. InvAfter(inv, rdv) /\ SesAfter(ses, rdv)
    BY <2>1, NothingHappens
  <2> QED BY <1>8, <2>2, RequestsAlone DEF Usual, vars
<1> QED BY <1>3, <1>4, <1>5, <1>6, <1>7, <1>8 DEF Next

\* The invariant holds at first.
LEMMA InitKeeps == Init => SInv
<1> SUFFICES ASSUME Init  PROVE SInv
  OBVIOUS
<1>1. PInv
  BY InitInv
<1>2. NoSession \in SessionRecord
  BY LimitsArePositive DEF NoSession, SessionRecord
<1>3. NoSession.st = "none" /\ NoSession.reserved = {}
  BY DEF NoSession
<1>4. NoRequest \in RequestRecord /\ NoRequest.st = "idle"
  BY DEF NoRequest, RequestRecord
<1>5. InventoriesKept
  BY DEF Init, InventoriesKept, NoInventory, IsLive
<1>6. ses \in [Ses -> SessionRecord] /\ SessionsBacked /\ DisjointReservations
  BY <1>2, <1>3 DEF Init, SessionsBacked, DisjointReservations
<1>7. RequestsBelong
  BY <1>4 DEF Init, RequestsBelong, Belongs
<1>8. CompletingExist
  BY DEF Init, CompletingExist
<1> QED BY <1>1, <1>5, <1>6, <1>7, <1>8 DEF SInv

\* The invariant of the proofs is one of the specification.
LEMMA AlwaysSInv == Spec => []SInv
<1>1. SInv /\ [Next]_vars => SInv'
  BY StepsKeep
<1> QED BY InitKeeps, <1>1, PTL DEF Spec

\* No row is reserved for two sessions: inventory_next_row moves past a
\* reservation and never back, on-demand inventories included (create_session).
THEOREM RowsReservedOnce == Spec => []DisjointReservations
<1>1. SInv => DisjointReservations
  BY DEF SInv
<1> QED BY AlwaysSInv, <1>1, PTL

\* Unused reserved rows burn on termination: once a session is cancelled,
\* completed or expired, the rendezvous holds nothing of its reservation, and
\* never does again (burn_reserved, cleanup_prepared_sessions).
THEOREM TerminatedHoldNothing == Spec => []TerminalSessionHoldsNothing
<1>1. SInv => TerminalSessionHoldsNothing
  <2> SUFFICES ASSUME SInv, NEW e \in Ses, ses[e].st \in {"ended", "expired"},
                      NEW k \in ({InventoryOf(e)} \X ses[e].reserved) \cap DOMAIN rdv.entries
               PROVE  FALSE
    BY DEF TerminalSessionHoldsNothing
  <2>1. IsVoid(rdv, k)
    BY DEF SInv, SessionsBacked, Backed, InventoryOf
  <2>2. ~IsVoid(rdv, k)
    BY EntryIsOpen DEF SInv, PInv
  <2> QED BY <2>1, <2>2
<1> QED BY AlwaysSInv, <1>1, PTL

\* A row is consumed only by the session it is reserved for and only while that
\* session is live: a cancel, complete or expiry between activation and the end
\* of the gather wins (validate_prepared_request, burn_prepared_reservation).
THEOREM RowsUsedAsReserved == Spec => UseIsReserved
<1> DEFINE Use(k) == \E e \in Ses : /\ ses[e].st = "live" /\ ses[e].inv = k[1]
                                    /\ k[2] \in ses[e].reserved
           Step == \A k \in Key : uses'[k] # uses[k] => Use(k)
<1>1. ASSUME SInv, [Next]_vars  PROVE Step
  <2>1. ASSUME NEW i \in Sid, InventoryStep(i)  PROVE uses' = uses
    BY <2>1 DEF InventoryStep, CreateInventory, BeginAuthorize, EndAuthorize, AcceptCorrection,
       SealInventory, GetInventory, CancelInventory, CancelInventoryAsSession,
       CompleteInventoryAsSession
  <2>2. ASSUME NEW e \in Ses, SessionStep(e)  PROVE uses' = uses
    BY <2>2 DEF SessionStep, CreateSession, CancelSession, CancelResponse, BeginComplete, EndComplete
  <2>3. ASSUME NEW p \in Holder, NEW A, NEW kind, SubmitBatch(p, kind, A)  PROVE Step
    <3> SUFFICES ASSUME NEW k \in Key, uses'[k] # uses[k]  PROVE Use(k)
      OBVIOUS
    <3> DEFINE e == req[p].ses
    <3>1. e \in Ses
      BY <1>1, <2>3 DEF SubmitBatch, SInv, RequestsBelong, Belongs
    <3>2. IsValid(e, A) /\ k \in {InventoryOf(e)} \X A
      BY <2>3 DEF SubmitBatch
    <3> HIDE DEF e
    <3>3. ses[e].st = "live" /\ ses[e].inv = k[1] /\ k[2] \in ses[e].reserved
      BY <3>2 DEF IsValid, IsActive, InventoryOf
    <3> QED BY <3>1, <3>3
  <2>4. ASSUME NEW p \in Holder, NEW a \in Attempt, TakeRow(p, a)  PROVE Step
    <3> SUFFICES ASSUME NEW k \in Key, uses'[k] # uses[k]  PROVE Use(k)
      OBVIOUS
    <3> DEFINE e == req[p].ses
    <3>1. e \in Ses /\ ses[e].st # "none" /\ a \in ses[e].reserved
      BY <1>1, <2>4 DEF TakeRow, SInv, RequestsBelong, Belongs
    <3>2. k = <<ses[e].inv, a>> /\ k \in DOMAIN rdv.entries
      BY <1>1, <2>4 DEF TakeRow, Holds, InventoryOf, SInv, PInv
    <3>3. ~IsVoid(rdv, k)
      BY <1>1, <3>2, EntryIsOpen DEF SInv, PInv
    <3> HIDE DEF e
    <3>4. ses[e].st = "live"
      BY <1>1, <3>1, <3>2, <3>3 DEF SInv, SessionsBacked, Backed
    <3> QED BY <3>1, <3>2, <3>4
  <2>5. ASSUME NEW p \in Holder, RequestStep(p)  PROVE Step
    BY <2>3, <2>4, <2>5 DEF RequestStep, BeginRequest, SubmitMulti, RequestRuns, TimeOutRow,
       EngineAnswersMulti, EngineAnswers, GiveUp, GatherEnds, Disconnect
  <2>6. CASE Tick \/ UNCHANGED vars
    BY <2>6 DEF Tick, vars
  <2> QED BY <1>1, <2>1, <2>2, <2>5, <2>6 DEF Next
<1>2. UseIsReserved <=> [][Step]_vars
  BY DEF UseIsReserved
<1> QED BY AlwaysSInv, <1>1, <1>2, PTL DEF Spec

-----------------------------------------------------------------------------
(* Admission.                                                              *)

\* A row that a session may still reserve: loaded, and not activated.
Fresh(r, k) ==
  /\ k \in DOMAIN r.entries
  /\ r.entries[k].correction = OneMeta /\ r.entries[k].holder = NoHolder
  /\ r.entries[k].preloaded

WellKept(r) == IsStoreOf(Grants, r) /\ IsSound(r) /\ Exact(r)

\* What every handler but create_prepared_inventory and accept_prepared_correction
\* does to the rendezvous: it gives back entries and bytes, takes none, and
\* leaves the fresh keys of N alone for as long as their session is there.
Recedes(N, r, q) ==
  /\ Evolves(Grants, r, q) /\ Frees(r, q)
  /\ DOMAIN q.entries \subseteq DOMAIN r.entries
  /\ \A s \in DOMAIN q.sessions : q.sessions[s].expected = r.sessions[s].expected
  /\ \A k \in DOMAIN q.entries : q.entries[k].bytes = r.entries[k].bytes
  /\ \A k \in Key : k[1] \in DOMAIN q.sessions =>
       /\ HadEntry(q, k) => HadEntry(r, k)
       /\ k \in N /\ Fresh(r, k) => Fresh(q, k)

\* The store it leaves is well kept.
LEMMA RecedesKeeps ==
  ASSUME NEW N, NEW r, NEW q, Recedes(N, r, q)
  PROVE  WellKept(q)
BY DEF Recedes, Evolves, Frees, WellKept

\* Nothing at all is a way to recede.
LEMMA RecedesNot ==
  ASSUME NEW N, NEW r, WellKept(r)
  PROVE  Recedes(N, r, r)
<1>1. r.bytes \in Nat
  BY ExactIsNat DEF WellKept
<1> QED BY <1>1 DEF WellKept, Recedes, Evolves, Frees

\* Receding twice is receding.
LEMMA RecedesTwice ==
  ASSUME NEW N, NEW r, NEW q, NEW t, WellKept(r), Recedes(N, r, q), Recedes(N, q, t)
  PROVE  Recedes(N, r, t)
<1>1. WellKept(q) /\ WellKept(t)
  BY RecedesKeeps
<1>2. Evolves(Grants, r, t)
  BY EvolvesTransitive DEF Recedes
<1>3. Frees(r, t)
  BY <1>1, FreesTransitive DEF WellKept, Recedes
<1>4. DOMAIN t.sessions \subseteq DOMAIN q.sessions
  BY DEF Recedes, Evolves
<1> QED BY <1>2, <1>3, <1>4 DEF Recedes

\* _burn_locked recedes where the keys had an entry, and none of N is fresh.
LEMMA BurnRecedes ==
  ASSUME NEW N, NEW r, WellKept(r), NEW K,
         \A k \in K \cap Key : HadEntry(r, k) /\ ~(k \in N /\ Fresh(r, k))
  PROVE  Recedes(N, r, Burn(r, K))
<1> DEFINE q == Burn(r, K)
           B(s) == r.sessions[s].burned \cup {a \in Attempt : <<s, a>> \in K}
<1>1. Evolves(Grants, r, q) /\ Frees(r, q) /\ DOMAIN q.sessions = DOMAIN r.sessions
  BY BurnEvolves, BurnFrees DEF WellKept
<1>2. /\ q.sessions = [s \in DOMAIN r.sessions |-> [r.sessions[s] EXCEPT !.burned = B(s)]]
      /\ q.entries = [k \in DOMAIN r.entries \ K |-> r.entries[k]]
  BY DEF Burn, Drop, Store, Restrict
<1>3. ASSUME NEW s \in DOMAIN q.sessions
      PROVE  q.sessions[s].expected = r.sessions[s].expected /\ q.sessions[s].burned = B(s)
  <2> DEFINE x == r.sessions[s]
  <2>1. x \in SessionIn(Grants) /\ q.sessions[s] = [x EXCEPT !.burned = B(s)]
    BY <1>1, <1>2 DEF WellKept, IsStoreOf
  <2> HIDE DEF B, q
  <2> QED BY <2>1 DEF SessionIn
<1>4. ASSUME NEW k \in Key, k[1] \in DOMAIN q.sessions
      PROVE  /\ HadEntry(q, k) => HadEntry(r, k)
             /\ k \in N /\ Fresh(r, k) => Fresh(q, k)
  <2>1. k = <<k[1], k[2]>>
    BY DEF Key
  <2>2. q.sessions[k[1]].burned = B(k[1])
    BY <1>3, <1>4
  <2> HIDE DEF q
  <2>3. HadEntry(q, k) => HadEntry(r, k)
    BY <1>1, <1>2, <1>4, <2>1, <2>2 DEF HadEntry, IsVoid
  <2> QED BY <1>2, <2>3 DEF Fresh
<1> HIDE DEF q
<1> QED BY <1>1, <1>2, <1>3, <1>4 DEF Recedes, q

\* _terminal_locked recedes.
LEMMA TerminalRecedes ==
  ASSUME NEW N, NEW r, WellKept(r), NEW S
  PROVE  /\ Recedes(N, r, Terminal(r, S))
         /\ DOMAIN Terminal(r, S).sessions = DOMAIN r.sessions \ S
<1> DEFINE q == Terminal(r, S)
<1>1. Evolves(Grants, r, q) /\ Frees(r, q)
  BY TerminalEvolves, TerminalFrees DEF WellKept
<1>2. /\ q.sessions = [s \in DOMAIN r.sessions \ S |-> r.sessions[s]]
      /\ q.entries = [k \in DOMAIN r.entries \ {k \in DOMAIN r.entries : k[1] \in S}
                        |-> r.entries[k]]
  BY DEF Terminal, Drop, Store, Restrict
<1> HIDE DEF q
<1>3. ASSUME NEW k \in Key, k[1] \in DOMAIN q.sessions
      PROVE  /\ HadEntry(q, k) => HadEntry(r, k)
             /\ k \in N /\ Fresh(r, k) => Fresh(q, k)
  BY <1>2, <1>3 DEF HadEntry, IsVoid, Fresh
<1>4. DOMAIN q.sessions = DOMAIN r.sessions \ S
  BY <1>2
<1> QED BY <1>1, <1>2, <1>3, <1>4 DEF Recedes, q

\* _cleanup_locked recedes: what is fresh is preloaded, and does not time out.
LEMMA CleanupRecedes ==
  ASSUME NEW N, NEW r, WellKept(r)
  PROVE  Recedes(N, r, Cleanup(r))
<1> DEFINE K == {k \in DOMAIN r.entries :
                   ~r.entries[k].preloaded /\ r.entries[k].age = Timeout}
           S == {s \in DOMAIN r.sessions : r.sessions[s].idle = IdleTimeout}
           b == Burn(r, K)
<1>1. \A k \in K \cap Key : HadEntry(r, k) /\ ~(k \in N /\ Fresh(r, k))
  BY DEF HadEntry, Fresh
<1>2. Cleanup(r) = Terminal(b, S)
  BY DEF Cleanup
<1> HIDE DEF K, S
<1>3. Recedes(N, r, b)
  BY <1>1, BurnRecedes
<1> HIDE DEF b
<1>4. Recedes(N, b, Terminal(b, S))
  BY <1>3, RecedesKeeps, TerminalRecedes
<1> QED BY <1>2, <1>3, <1>4, RecedesTwice

\* Refreshing a session, or opening it, recedes.
LEMMA TouchRecedes ==
  ASSUME NEW N, NEW r, WellKept(r), NEW s \in DOMAIN r.sessions
  PROVE  Recedes(N, r, Touch(r, s)) /\ Recedes(N, r, Authorize(r, s))
<1> SUFFICES ASSUME NEW q, q = Touch(r, s) \/ q = Authorize(r, s)
             PROVE  Recedes(N, r, q)
  OBVIOUS
<1>1. Evolves(Grants, r, q) /\ Frees(r, q)
  BY TouchEvolves, AuthorizeEvolves, TouchFrees DEF WellKept
<1>2. q.entries = r.entries /\ DOMAIN q.sessions = DOMAIN r.sessions
  BY DEF Touch, Authorize, UpdateSession, Store
<1>3. ASSUME NEW t \in DOMAIN r.sessions
      PROVE  q.sessions[t].expected = r.sessions[t].expected /\ q.sessions[t].burned = r.sessions[t].burned
  <2>1. r.sessions[t] \in SessionIn(Grants)
    BY DEF WellKept, IsStoreOf
  <2>2. \/ q.sessions = [r.sessions EXCEPT ![s] = [r.sessions[s] EXCEPT !.idle = 0]]
        \/ q.sessions = [r.sessions EXCEPT ![s] = [r.sessions[s] EXCEPT !.authorized = TRUE, !.idle = 0]]
    BY DEF Touch, Authorize, UpdateSession, Store
  <2>3. \/ q.sessions[t] = r.sessions[t]
        \/ q.sessions[t] = [r.sessions[t] EXCEPT !.idle = 0]
        \/ q.sessions[t] = [r.sessions[t] EXCEPT !.authorized = TRUE, !.idle = 0]
    BY <2>2
  <2> QED BY <2>1, <2>3 DEF SessionIn
<1> QED BY <1>1, <1>2, <1>3 DEF Recedes, HadEntry, IsVoid, Fresh

\* The passing of time recedes.
LEMMA AgedRecedes ==
  ASSUME NEW N, NEW r, WellKept(r)
  PROVE  Recedes(N, r, Aged(r))
<1> DEFINE q == Aged(r)
<1>1. Evolves(Grants, r, q) /\ Frees(r, q)
  BY AgedEvolves, AgedFrees DEF WellKept
<1>2. DOMAIN q.entries = DOMAIN r.entries /\ DOMAIN q.sessions = DOMAIN r.sessions
  BY DEF Aged, Store
<1>3. ASSUME NEW s \in DOMAIN r.sessions
      PROVE  q.sessions[s].expected = r.sessions[s].expected /\ q.sessions[s].burned = r.sessions[s].burned
  <2> DEFINE x == r.sessions[s]
             n == IF x.idle < IdleTimeout THEN x.idle + 1 ELSE x.idle
  <2>1. x \in SessionIn(Grants)
    BY DEF WellKept, IsStoreOf
  <2>2. q.sessions[s] = [x EXCEPT !.idle = n]
    BY DEF Aged, Store
  <2> HIDE DEF n, q
  <2> QED BY <2>1, <2>2 DEF SessionIn
<1>4. ASSUME NEW k \in DOMAIN r.entries
      PROVE  /\ q.entries[k].bytes = r.entries[k].bytes
             /\ q.entries[k].correction = r.entries[k].correction
             /\ q.entries[k].holder = r.entries[k].holder
             /\ q.entries[k].preloaded = r.entries[k].preloaded
  <2> DEFINE e == r.entries[k]
             n == IF e.preloaded THEN e.age ELSE IF e.age < Timeout THEN e.age + 1 ELSE e.age
  <2>1. e \in Entry
    BY DEF WellKept, IsStoreOf
  <2>2. q.entries[k] = [e EXCEPT !.age = n]
    BY DEF Aged, Store
  <2> HIDE DEF n, q
  <2> QED BY <2>1, <2>2 DEF Entry
<1> HIDE DEF q
<1> QED BY <1>1, <1>2, <1>3, <1>4 DEF Recedes, HadEntry, IsVoid, Fresh, q

\* abort recedes: what it burns is held by a request.
LEMMA AbortRecedes ==
  ASSUME NEW N, NEW r, WellKept(r), NEW k, NEW p \in Holder
  PROVE  Recedes(N, r, Abort(r, k, p))
<1>1. CASE Holds(r, k, p)
  <2>1. \A j \in {k} \cap Key : HadEntry(r, j) /\ ~(j \in N /\ Fresh(r, j))
    BY <1>1, NullsAreDistinct DEF Holds, HadEntry, Fresh
  <2> QED BY <1>1, <2>1, BurnRecedes DEF Abort
<1>2. CASE ~Holds(r, k, p)
  BY <1>2, RecedesNot DEF Abort
<1> QED BY <1>1, <1>2

\* Activating rows that have their entry recedes, where none of N is fresh.
LEMMA ActivateAllRecedes ==
  ASSUME NEW N, NEW r, WellKept(r), NEW i, IsOpen(r, i), NEW A \in SUBSET Attempt,
         NEW p \in Holder, \A a \in A : CanHaveEntry(r, <<i, a>>),
         \A a \in A : <<i, a>> \in DOMAIN r.entries /\ ~(<<i, a>> \in N /\ Fresh(r, <<i, a>>))
  PROVE  Recedes(N, r, ActivateAll(r, i, A, p))
<1> DEFINE at(a) == Activated(WithEntry(r, <<i, a>>), <<i, a>>, OneMeta, p).entries[<<i, a>>]
           K == {i} \X A
           q == ActivateAll(r, i, A, p)
<1>1. Evolves(Grants, r, q)
  BY ActivateAllEvolves DEF WellKept
<1>2. /\ q.entries = [k \in DOMAIN r.entries \cup K |-> IF k \in K THEN [a \in A |-> at(a)][k[2]]
                                                               ELSE r.entries[k]]
      /\ q.bytes = r.bytes + 0
      /\ q.sessions = [r.sessions EXCEPT ![i] = [r.sessions[i] EXCEPT !.idle = 0]]
  BY DEF ActivateAll, AddEntries, Touch, UpdateSession, Store
<1>3. ASSUME NEW a \in A
      PROVE  /\ at(a).bytes = r.entries[<<i, a>>].bytes
             /\ at(a).correction = r.entries[<<i, a>>].correction
  <2> DEFINE k == <<i, a>>
             w == WithEntry(r, k)
             e == w.entries[k]
  <2>1. k \in DOMAIN r.entries
    OBVIOUS
  <2> HIDE DEF k
  <2>2. k \in DOMAIN w.entries /\ w.entries[k] = r.entries[k]
    BY <2>1 DEF WithEntry, AddEntries, Touch, UpdateSession, Store
  <2> HIDE DEF w
  <2>3. Activated(w, k, OneMeta, p).entries[k] =
          [age |-> IF e.preloaded THEN 0 ELSE e.age, holder |-> p, correction |-> e.correction,
           bytes |-> e.bytes, preloaded |-> FALSE, activation |-> OneMeta]
    BY <2>2 DEF Activated, UpdateEntry, Store
  <2>4. /\ Activated(w, k, OneMeta, p).entries[k].bytes = r.entries[k].bytes
        /\ Activated(w, k, OneMeta, p).entries[k].correction = r.entries[k].correction
    BY <2>2, <2>3
  <2> QED BY <2>4 DEF w, k
<1> HIDE DEF at, q
<1>4. K \subseteq DOMAIN r.entries /\ \A k \in K : k = <<i, k[2]>> /\ k[2] \in A
  OBVIOUS
<1>5. DOMAIN q.entries = DOMAIN r.entries
  <2> HIDE DEF K
  <2> QED BY <1>2, <1>4
<1>6. ASSUME NEW k \in DOMAIN r.entries
      PROVE  /\ q.entries[k].bytes = r.entries[k].bytes
             /\ q.entries[k].correction = r.entries[k].correction
             /\ k \notin K => q.entries[k] = r.entries[k]
  <2> HIDE DEF K
  <2>1. CASE k \in K
    <3>1. q.entries[k] = at(k[2])
      BY <1>2, <1>4, <2>1
    <3> QED BY <1>3, <1>4, <2>1, <3>1
  <2> QED BY <1>2, <2>1
<1>7. r.bytes \in Nat
  BY ExactIsNat DEF WellKept
<1>8. Frees(r, q)
  <2>1. q.bytes = r.bytes
    BY <1>2, <1>7
  <2> QED BY <1>5, <1>6, <2>1, SameSizesFree DEF WellKept
<1>9. i \in DOMAIN r.sessions
  BY DEF IsOpen
<1>10. ASSUME NEW t \in DOMAIN r.sessions
       PROVE  q.sessions[t].expected = r.sessions[t].expected /\ q.sessions[t].burned = r.sessions[t].burned
  <2>1. r.sessions[t] \in SessionIn(Grants)
    BY DEF WellKept, IsStoreOf
  <2>2. \/ q.sessions[t] = r.sessions[t]
        \/ q.sessions[t] = [r.sessions[t] EXCEPT !.idle = 0]
    BY <1>2
  <2> QED BY <2>1, <2>2 DEF SessionIn
<1>11. DOMAIN q.sessions = DOMAIN r.sessions
  BY <1>2
<1>12. ASSUME NEW k \in N, Fresh(r, k) PROVE Fresh(q, k)
  <2>1. k \in DOMAIN r.entries /\ k \notin K
    BY <1>4, <1>12 DEF Fresh
  <2> QED BY <1>5, <1>6, <1>12, <2>1 DEF Fresh
<1> QED BY <1>1, <1>5, <1>6, <1>8, <1>10, <1>11, <1>12 DEF Recedes, HadEntry, IsVoid, q

-----------------------------------------------------------------------------
(* What an inventory may take, and what it takes stage by stage.            *)

Known(I) == {i \in Sid : I[i].known}

\* The authorization create_prepared_inventory registers.
Grant(x) == [model |-> OneMeta.model, max_attempts |-> Entries(x)]

Frames(x) == [g \in Stage |-> Frame(x, g)]

\* The rows and the frames of the stages accepted so far.
Rows(x) == SumBy(x.stage_rows, x.prepared)
Paid(x) == SumBy(Frames(x), x.prepared)

\* Cursor, seal and stages of an inventory.
Proper(x) ==
  /\ x.next <= x.rows
  /\ x.known => /\ x.st # "none" /\ x.stage_rows \in [Stage -> 1..MaxRows]
                /\ x.ready => x.prepared = Stage

\* The stages are finitely many.
LEMMA StagesFinite == IsFiniteSet(Stage) /\ Cardinality(Stage) = NStages /\ NStages \in Nat /\ 1 \in Stage
<1>1. NStages \in Nat /\ NStages > 0 /\ 1 \in Int /\ NStages \in Int
  BY GridAssumption
<1>2. IsFiniteSet(1..NStages)
  BY <1>1, FS_Interval
<1>3. Cardinality(1..NStages) = NStages
  BY <1>1, FS_Interval
<1> QED BY <1>1, <1>2, <1>3 DEF Stage

\* Everything that is counted is a natural number.
LEMMA StageCounts ==
  ASSUME NEW x \in InventoryRecord
  PROVE  /\ \A g \in Stage : x.stage_rows[g] \in Nat /\ Frames(x)[g] = Frame(x, g) /\ Frame(x, g) \in Nat
         /\ \A g \in Stage : x.stage_rows[g] \in Int /\ Frames(x)[g] \in Int
         /\ x.prepared \in SUBSET Stage /\ IsFiniteSet(x.prepared)
         /\ Entries(x) = SumBy(x.stage_rows, Stage)
         /\ Entries(x) \in Nat /\ Bytes(x) \in Nat /\ Rows(x) \in Nat /\ Paid(x) \in Nat
<1>1. \A g \in Stage : x.stage_rows[g] \in Nat
  BY GridAssumption DEF InventoryRecord
<1>2. BytesPerRow \in Nat /\ Header \in Nat /\ Overhead \in Nat /\ NStages \in Nat
  BY GridAssumption
<1>3. ASSUME NEW g \in Stage PROVE Frame(x, g) \in Nat /\ Frames(x)[g] = Frame(x, g)
  <2>1. BytesPerRow * x.stage_rows[g] \in Nat
    BY <1>1, <1>2
  <2> QED BY <1>2, <2>1 DEF Frame, Frames
<1>4. x.prepared \in SUBSET Stage /\ IsFiniteSet(x.prepared)
  BY StagesFinite, FS_Subset DEF InventoryRecord
<1>5. Entries(x) = SumBy(x.stage_rows, Stage)
  BY DEF Entries, SumBy
<1>6. Entries(x) \in Nat
  BY <1>1, <1>5, StagesFinite, SumIsNat
<1>7. Rows(x) \in Nat /\ Paid(x) \in Nat
  BY <1>1, <1>3, <1>4, SumIsNat DEF Rows, Paid
<1>8. BytesPerRow * Entries(x) \in Nat /\ Overhead * NStages \in Nat
  BY <1>2, <1>6
<1> QED BY <1>1, <1>3, <1>4, <1>5, <1>6, <1>7, <1>8 DEF Bytes

\* An inventory has at least one attempt, and at most the grid.
LEMMA EntriesBounded ==
  ASSUME NEW x \in InventoryRecord, x.stage_rows \in [Stage -> 1..MaxRows]
  PROVE  Entries(x) \in 1..NAttempts
<1> DEFINE f == x.stage_rows
           ones == [g \in Stage |-> 1]
           most == [g \in Stage |-> MaxRows]
<1>1. \A g \in Stage : f[g] \in Int /\ 1 <= f[g] /\ f[g] <= MaxRows
  BY GridAssumption
<1>2. MaxRows \in Int /\ Entries(x) = SumBy(f, Stage)
  BY StageCounts, GridAssumption
<1> HIDE DEF f
<1>3. SumBy(f, Stage) <= SumBy(most, Stage)
  <2>1. \A g \in Stage : f[g] \in Int /\ most[g] \in Int /\ f[g] <= most[g]
    BY <1>1, <1>2
  <2> HIDE DEF most
  <2> QED BY <2>1, StagesFinite, SumBounds
<1>4. SumBy(ones, Stage) <= SumBy(f, Stage)
  <2>1. \A g \in Stage : f[g] \in Int /\ ones[g] \in Int /\ ones[g] <= f[g]
    BY <1>1
  <2> HIDE DEF ones
  <2> QED BY <2>1, StagesFinite, SumBounds
<1>5. SumBy(ones, Stage) = NStages
  BY StagesFinite, SumOfOnes
<1>6. SumBy(most, Stage) = NStages * MaxRows
  <2>1. SumBy(most, Stage) = MaxRows * Cardinality(Stage)
    BY <1>2, StagesFinite, SumOfConstant
  <2>2. MaxRows * NStages = NStages * MaxRows
    BY <1>2, StagesFinite
  <2> HIDE DEF most
  <2> QED BY <2>1, <2>2, StagesFinite
<1>7. NAttempts = NStages * MaxRows /\ NStages >= 1 /\ NAttempts \in Int /\ NStages \in Int
  BY GridAssumption, LimitsArePositive
<1>8. SumBy(f, Stage) \in Int
  BY <1>1, StagesFinite, SumIsInt
<1> HIDE DEF ones, most
<1> QED BY <1>2, <1>3, <1>4, <1>5, <1>6, <1>7, <1>8

\* Attempts of the stages of P are at most as many as their rows.
LEMMA AttemptsCounted ==
  ASSUME NEW x \in InventoryRecord, NEW P \in SUBSET Stage, NEW U \in SUBSET Attempt,
         \A a \in U : \E g \in P : a \in Attempts(x, g)
  PROVE  IsFiniteSet(U) /\ Cardinality(U) <= SumBy(x.stage_rows, P)
<1> DEFINE p == [a \in U |-> CHOOSE g \in P : a \in Attempts(x, g)]
           ones == [a \in U |-> 1]
           At(g) == {a \in U : p[a] = g}
           n == [g \in P |-> SumBy(ones, At(g))]
<1>1. IsFiniteSet(P) /\ IsFiniteSet(U)
  <2>1. 1 \in Int /\ NAttempts \in Int
    BY LimitsArePositive
  <2>2. IsFiniteSet(Attempt)
    BY <2>1, FS_Interval DEF Attempt
  <2> QED BY <2>2, StagesFinite, FS_Subset
<1>2. \A a \in U : p[a] \in P /\ a \in Attempts(x, p[a])
  OBVIOUS
<1>3. p \in [U -> P]
  BY <1>2
<1>4. \A a \in U : ones[a] \in Int
  OBVIOUS
<1>5. SumBy(ones, U) = Cardinality(U)
  BY <1>1, SumOfOnes
<1> HIDE DEF p
<1>6. SumBy(ones, U) = SumBy(n, P)
  <2> HIDE DEF ones
  <2> QED BY <1>1, <1>3, <1>4, SumByParts
<1>7. ASSUME NEW g \in P
      PROVE  /\ n[g] \in Int /\ x.stage_rows[g] \in Int /\ n[g] <= x.stage_rows[g]
  <2> DEFINE r == x.stage_rows[g]
             S == 0..(r - 1)
             A == Attempts(x, g)
  <2>1. r \in Nat
    BY StageCounts
  <2> HIDE DEF r
  <2>2. IsFiniteSet(S) /\ Cardinality(S) = r
    <3>1. 0 \in Int /\ r - 1 \in Int
      BY <2>1
    <3>2. IsFiniteSet(S) /\ Cardinality(S) = IF 0 > r - 1 THEN 0 ELSE (r - 1) - 0 + 1
      BY <3>1, FS_Interval
    <3> HIDE DEF S
    <3> QED BY <2>1, <3>2
  <2>3. A = {AttemptOf(g, row) : row \in S}
    BY DEF Attempts, r
  <2>4. IsFiniteSet(A) /\ Cardinality(A) <= r
    <3> DEFINE T == {AttemptOf(g, row) : row \in S}
    <3>1. IsFiniteSet(T) /\ Cardinality(T) <= Cardinality(S)
      <4> DEFINE image == [row \in S |-> AttemptOf(g, row)]
      <4>1. image \in Surjection(S, T)
        BY DEF Surjection
      <4> HIDE DEF S, T, image
      <4> QED BY <2>2, <4>1, FS_Surjection
    <3> QED BY <2>2, <2>3, <3>1
  <2>5. At(g) \subseteq A
    BY <1>2
  <2> HIDE DEF A
  <2>6. IsFiniteSet(At(g)) /\ Cardinality(At(g)) <= Cardinality(A)
    BY <2>4, <2>5, FS_Subset
  <2>7. SumBy(ones, At(g)) = SumBy([a \in At(g) |-> 1], At(g))
    <3>1. \A a \in At(g) : ones[a] \in Int /\ [b \in At(g) |-> 1][a] = ones[a]
      OBVIOUS
    <3> HIDE DEF ones, At
    <3> QED BY <2>6, <3>1, SumEqual
  <2>8. SumBy([a \in At(g) |-> 1], At(g)) = Cardinality(At(g))
    <3> HIDE DEF At
    <3> QED BY <2>6, SumOfOnes
  <2>9. n[g] = Cardinality(At(g))
    BY <2>7, <2>8
  <2>10. Cardinality(At(g)) \in Nat /\ Cardinality(A) \in Nat
    BY <2>4, <2>6, FS_CardinalityType
  <2> HIDE DEF n, At
  <2> QED BY <2>1, <2>4, <2>6, <2>9, <2>10 DEF r
<1> HIDE DEF n
<1>8. SumBy(n, P) <= SumBy(x.stage_rows, P)
  BY <1>1, <1>7, SumBounds
<1> QED BY <1>1, <1>5, <1>6, <1>8

\* Stages that were not accepted yet are paid for: their rows and frames fit in
\* what the inventory was admitted with.
LEMMA StageIsPaid ==
  ASSUME NEW x \in InventoryRecord
  PROVE  /\ Rows(x) <= Entries(x) /\ Paid(x) <= Bytes(x)
         /\ \A g \in Stage \ x.prepared :
              /\ Rows(x) + x.stage_rows[g] <= Entries(x)
              /\ Paid(x) + Frame(x, g) <= Bytes(x)
              /\ Paid(x) + Frame(x, g) = SumBy(Frames(x), x.prepared \cup {g})
<1> DEFINE P == x.prepared
           f == x.stage_rows
           h == Frames(x)
           all == SumBy(h, Stage)
<1>1. /\ \A g \in Stage : f[g] \in Int /\ h[g] \in Int /\ 0 <= f[g] /\ 0 <= h[g] /\ h[g] = Frame(x, g)
      /\ P \in SUBSET Stage /\ IsFiniteSet(P) /\ IsFiniteSet(Stage)
      /\ Entries(x) = SumBy(f, Stage)
      /\ Entries(x) \in Nat /\ Bytes(x) \in Nat /\ Rows(x) \in Nat /\ Paid(x) \in Nat
  BY StageCounts, StagesFinite
<1>2. Rows(x) = SumBy(f, P) /\ Paid(x) = SumBy(h, P)
  BY DEF Rows, Paid
<1>3. \A g \in Stage : h[g] = BytesPerRow * f[g] + Header
  BY DEF Frames, Frame
<1>4. all <= Bytes(x) /\ all \in Int
  <2>1. BytesPerRow \in Int /\ Header \in Int /\ Overhead \in Int /\ Header <= Overhead
    BY GridAssumption
  <2> HIDE DEF f, h
  <2>a. IsFiniteSet(Stage) /\ \A g \in Stage : f[g] \in Int /\ h[g] = Line(BytesPerRow, Header, f[g])
    BY <1>1, <1>3 DEF Line
  <2>b. SumBy(h, Stage) = BytesPerRow * SumBy(f, Stage) + Header * Cardinality(Stage)
    BY ONLY <2>1, <2>a, SumLinear
  <2>2. all = BytesPerRow * SumBy(f, Stage) + Header * Cardinality(Stage)
    BY <2>b DEF all
  <2>3. Header * NStages <= Overhead * NStages
    <3>1. (Overhead - Header) * NStages >= 0
      BY <2>1, StagesFinite
    <3>2. (Overhead - Header) * NStages = Overhead * NStages - Header * NStages
      BY <2>1, StagesFinite
    <3>3. Overhead * NStages \in Int /\ Header * NStages \in Int
      BY <2>1, StagesFinite
    <3> QED BY <3>1, <3>2, <3>3
  <2> DEFINE a == BytesPerRow * Entries(x)
             b == Header * NStages
             c == Overhead * NStages
  <2>4. all = a + b /\ Bytes(x) = a + c
    BY <1>1, <2>2, StagesFinite DEF Bytes
  <2>5. a \in Int /\ b \in Int /\ c \in Int /\ b <= c
    BY <1>1, <2>1, <2>3, StagesFinite
  <2> HIDE DEF a, b, c, all
  <2> QED BY <2>4, <2>5
<1> HIDE DEF f, h, all
<1>5. SumBy(f, P) <= SumBy(f, Stage) /\ SumBy(h, P) <= SumBy(h, Stage)
  BY <1>1, SumBounds
<1>6. ASSUME NEW g \in Stage \ P
      PROVE  /\ SumBy(f, P) + f[g] <= SumBy(f, Stage)
             /\ SumBy(h, P) + h[g] <= SumBy(h, Stage)
             /\ SumBy(h, P) + h[g] = SumBy(h, P \cup {g})
  <2>1. P \cup {g} \in SUBSET Stage
    BY <1>1
  <2>2. SumBy(f, P \cup {g}) = SumBy(f, P) + f[g] /\ SumBy(h, P \cup {g}) = SumBy(h, P) + h[g]
    BY <1>1, SumAdd
  <2>3. SumBy(f, P \cup {g}) <= SumBy(f, Stage) /\ SumBy(h, P \cup {g}) <= SumBy(h, Stage)
    BY <1>1, <2>1, SumBounds
  <2> QED BY <2>2, <2>3
<1>7. ASSUME NEW g \in Stage \ P
      PROVE  /\ Rows(x) + x.stage_rows[g] <= Entries(x)
             /\ Paid(x) + Frame(x, g) <= Bytes(x)
             /\ Paid(x) + Frame(x, g) = SumBy(Frames(x), x.prepared \cup {g})
  <2>1. h[g] = Frame(x, g) /\ h[g] \in Int
    BY <1>1
  <2>2. SumBy(h, P) + h[g] <= Bytes(x)
    <3>1. SumBy(h, Stage) \in Int /\ SumBy(h, Stage) <= Bytes(x) /\ Bytes(x) \in Int /\ SumBy(h, P) \in Int
      BY <1>1, <1>2, <1>4 DEF all
    <3>2. SumBy(h, P) + h[g] <= SumBy(h, Stage)
      BY <1>6
    <3> HIDE DEF P
    <3> QED BY <2>1, <3>1, <3>2
  <2> QED BY <1>1, <1>2, <1>6, <2>1, <2>2 DEF f, h
<1>8. SumBy(h, P) <= Bytes(x)
  BY <1>1, <1>2, <1>4, <1>5 DEF all
<1> QED BY <1>1, <1>2, <1>5, <1>7, <1>8

-----------------------------------------------------------------------------
(* The invariant of admission, of inventories I and a rendezvous q.         *)

\* What the known inventories were admitted with fits in the limits.
Fits(I) ==
  /\ IsFiniteSet(Known(I))
  /\ SumBy([i \in Sid |-> Entries(I[i])], Known(I)) <= Capacity
  /\ SumBy([i \in Sid |-> Bytes(I[i])], Known(I)) <= MaxBytes

\* A correction session belongs to its inventory x: it has entries for accepted
\* stages only, of no more bytes than these paid for, and those of rows that no
\* session reserved are fresh.
SessionFits(i, x, q) ==
  /\ q.sessions[i].expected = Grant(x)
  /\ \A a \in Attempt : HadEntry(q, <<i, a>>) => \E g \in x.prepared : a \in Attempts(x, g)
  /\ SumBy(Sizes(q), ActiveOf(q, i)) <= Paid(x)
  /\ IsLive(x) => \A g \in x.prepared : \A row \in Row :
       x.next <= row /\ row < x.stage_rows[g] => Fresh(q, <<i, AttemptOf(g, row)>>)

Admitted(I, q) ==
  /\ I \in [Sid -> InventoryRecord] /\ \A i \in Sid : Proper(I[i])
  /\ WellKept(q) /\ Fits(I)
  /\ DOMAIN q.sessions \subseteq Known(I)
  /\ \A i \in DOMAIN q.sessions : SessionFits(i, I[i], q)

\* The keys that no session reserved.
Unreserved == {k \in Key : IsLive(inv[k[1]]) /\ k[2] \notin Below(inv[k[1]].next)}

\* How an inventory goes on, or ends, without taking anything.
Follows(x, y) ==
  /\ y \in InventoryRecord /\ y.next <= y.rows
  /\ y.known => /\ x.known /\ y.st # "none"
                /\ y.stage_rows = x.stage_rows /\ y.prepared = x.prepared
                /\ y.ready => x.ready \/ x.prepared = Stage
                /\ x.next <= y.next
  /\ IsLive(y) => IsLive(x)

Settled(I, q) ==
  /\ I \in [Sid -> InventoryRecord] /\ \A i \in Sid : Follows(inv[i], I[i])
  /\ Recedes(Unreserved, rdv, q)
  /\ DOMAIN q.sessions \subseteq Known(I)

\* Inventories with the same stages ask for the same.
LEMMA SameGrant ==
  ASSUME NEW x \in InventoryRecord, NEW y \in InventoryRecord, y.stage_rows = x.stage_rows
  PROVE  /\ Entries(y) = Entries(x) /\ Bytes(y) = Bytes(x) /\ Grant(y) = Grant(x)
         /\ \A g : Attempts(y, g) = Attempts(x, g) /\ Frame(y, g) = Frame(x, g)
         /\ Frames(y) = Frames(x)
         /\ y.prepared = x.prepared => Paid(y) = Paid(x)
<1>1. Entries(y) = SumBy(y.stage_rows, Stage) /\ Entries(x) = SumBy(x.stage_rows, Stage)
  BY StageCounts
<1>2. Entries(y) = Entries(x)
  BY <1>1
<1>3. Bytes(y) = Bytes(x) /\ Grant(y) = Grant(x)
  BY <1>2 DEF Bytes, Grant
<1>4. \A g : Attempts(y, g) = Attempts(x, g) /\ Frame(y, g) = Frame(x, g)
  BY DEF Attempts, Frame
<1>5. Frames(y) = Frames(x)
  BY <1>4 DEF Frames
<1> QED BY <1>2, <1>3, <1>4, <1>5 DEF Paid

\* Fewer inventories fit as well.
LEMMA FewerFit ==
  ASSUME NEW I \in [Sid -> InventoryRecord], NEW J \in [Sid -> InventoryRecord], Fits(I),
         \A i \in Sid : J[i].known => I[i].known /\ J[i].stage_rows = I[i].stage_rows
  PROVE  Fits(J)
<1> DEFINE K == Known(I)
           L == Known(J)
           e == [i \in Sid |-> Entries(I[i])]
           f == [i \in Sid |-> Entries(J[i])]
           b == [i \in Sid |-> Bytes(I[i])]
           c == [i \in Sid |-> Bytes(J[i])]
<1>1. L \in SUBSET K /\ IsFiniteSet(K) /\ IsFiniteSet(L) /\ K \in SUBSET Sid
  <2>1. L \in SUBSET K /\ IsFiniteSet(K) /\ K \in SUBSET Sid
    BY DEF Known, Fits
  <2> QED BY <2>1, FS_Subset
<1>2. ASSUME NEW i \in Sid
      PROVE  e[i] \in Int /\ b[i] \in Int /\ f[i] \in Int /\ c[i] \in Int /\ 0 <= e[i] /\ 0 <= b[i]
  <2>1. I[i] \in InventoryRecord /\ J[i] \in InventoryRecord
    OBVIOUS
  <2>2. /\ Entries(I[i]) \in Nat /\ Bytes(I[i]) \in Nat
        /\ Entries(J[i]) \in Nat /\ Bytes(J[i]) \in Nat
    BY <2>1, StageCounts
  <2> QED BY <2>2
<1>3. ASSUME NEW i \in L  PROVE f[i] = e[i] /\ c[i] = b[i]
  <2>1. J[i].stage_rows = I[i].stage_rows /\ I[i] \in InventoryRecord /\ J[i] \in InventoryRecord /\ i \in Sid
    BY DEF Known
  <2>2. Entries(J[i]) = Entries(I[i]) /\ Bytes(J[i]) = Bytes(I[i])
    BY <2>1, SameGrant
  <2> QED BY <2>1, <2>2
<1>4. SumBy(e, K) <= Capacity /\ SumBy(b, K) <= MaxBytes
  BY DEF Fits
<1> HIDE DEF K, L, e, f, b, c
<1>5. \A i \in K : e[i] \in Int /\ b[i] \in Int /\ f[i] \in Int /\ c[i] \in Int /\ 0 <= e[i] /\ 0 <= b[i]
  BY <1>1, <1>2
<1>6. \A i \in L : f[i] <= e[i] /\ c[i] <= b[i]
  BY <1>1, <1>3, <1>5
<1>7. SumBy(f, L) <= SumBy(e, K) /\ SumBy(c, L) <= SumBy(b, K)
  <2>1. \A i \in K : e[i] \in Int /\ f[i] \in Int /\ b[i] \in Int /\ c[i] \in Int
    BY <1>5
  <2>2. \A i \in K \ L : 0 <= e[i] /\ 0 <= b[i]
    BY <1>5
  <2> QED BY ONLY <1>1, <1>6, <2>1, <2>2, SumBounds
<1>8. SumBy(f, L) \in Int /\ SumBy(e, K) \in Int /\ SumBy(c, L) \in Int /\ SumBy(b, K) \in Int
  <2>1. \A i \in L : f[i] \in Int /\ c[i] \in Int
    BY <1>1, <1>5
  <2>2. \A i \in K : e[i] \in Int /\ b[i] \in Int
    BY <1>5
  <2> QED BY ONLY <1>1, <2>1, <2>2, SumIsInt
<1>9. SumBy(f, L) <= Capacity /\ SumBy(c, L) <= MaxBytes
  BY <1>4, <1>7, <1>8, LimitsArePositive
<1> QED BY <1>1, <1>9 DEF Fits, L, f, c

\* The bytes of a session do not grow when the rendezvous recedes.
LEMMA SessionBytesRecede ==
  ASSUME NEW N, NEW r, NEW q, WellKept(r), Recedes(N, r, q), NEW i
  PROVE  /\ SumBy(Sizes(q), ActiveOf(q, i)) <= SumBy(Sizes(r), ActiveOf(r, i))
         /\ SumBy(Sizes(q), ActiveOf(q, i)) \in Int /\ SumBy(Sizes(r), ActiveOf(r, i)) \in Int
<1> DEFINE f == Sizes(q)
           g == Sizes(r)
           S == ActiveOf(q, i)
           T == ActiveOf(r, i)
<1>1. /\ S \in SUBSET T /\ IsFiniteSet(T) /\ IsFiniteSet(S)
      /\ T \in SUBSET DOMAIN r.entries /\ S \in SUBSET DOMAIN q.entries
  <2>1. S \in SUBSET T /\ T \in SUBSET DOMAIN r.entries /\ S \in SUBSET DOMAIN q.entries
    BY DEF Recedes, ActiveOf
  <2>2. IsFiniteSet(DOMAIN r.entries)
    BY DEF WellKept, Exact
  <2> QED BY <2>1, <2>2, FS_Subset
<1>2. \A k \in T : g[k] \in Nat
  BY <1>1 DEF WellKept, IsStoreOf, Entry, Sizes
<1>3. \A k \in S : f[k] = g[k]
  BY <1>1 DEF Recedes, Sizes
<1> HIDE DEF f, g, S, T
<1>4. /\ \A k \in S : f[k] \in Int /\ f[k] <= g[k]
      /\ \A k \in T : g[k] \in Int /\ 0 <= g[k]
  BY <1>1, <1>2, <1>3
<1>5. SumBy(f, S) \in Int /\ SumBy(g, T) \in Int
  BY ONLY <1>1, <1>4, SumIsInt
<1>6. SumBy(g, S) <= SumBy(g, T)
  <2>1. \A k \in T : g[k] \in Int /\ g[k] <= g[k]
    BY <1>4
  <2>2. \A k \in T \ S : 0 <= g[k]
    BY <1>4
  <2> QED BY <1>1, <2>1, <2>2, SumBounds
<1>7. SumBy(f, S) = SumBy(g, S)
  BY <1>1, <1>3, <1>4, SumEqual
<1> QED BY <1>5, <1>6, <1>7 DEF f, g, S, T

\* What settles keeps the invariant.
LEMMA SettledKeeps ==
  ASSUME NEW I, NEW q, Admitted(inv, rdv), Settled(I, q)
  PROVE  Admitted(I, q)
<1>1. I \in [Sid -> InventoryRecord] /\ inv \in [Sid -> InventoryRecord]
  BY DEF Settled, Admitted
<1>2. ASSUME NEW i \in Sid  PROVE Proper(I[i])
  BY DEF Admitted, Settled, Follows, Proper
<1>3. WellKept(q)
  BY RecedesKeeps DEF Settled
<1>4. Fits(I)
  <2>1. \A i \in Sid : I[i].known => inv[i].known /\ I[i].stage_rows = inv[i].stage_rows
    BY DEF Settled, Follows
  <2> QED BY <1>1, <2>1, FewerFit DEF Admitted
<1>5. ASSUME NEW i \in DOMAIN q.sessions  PROVE SessionFits(i, I[i], q)
  <2> DEFINE x == inv[i]
             y == I[i]
  <2>1. i \in Sid /\ y.known /\ y \in InventoryRecord /\ x \in InventoryRecord
    BY <1>1 DEF Settled, Known
  <2>2. /\ x.known /\ y.stage_rows = x.stage_rows /\ y.prepared = x.prepared /\ x.next <= y.next
        /\ IsLive(y) => IsLive(x)
    BY <2>1 DEF Settled, Follows
  <2>3. i \in DOMAIN rdv.sessions /\ q.sessions[i].expected = rdv.sessions[i].expected
    BY DEF Settled, Recedes, Evolves
  <2>4. SessionFits(i, x, rdv)
    BY <2>3 DEF Admitted
  <2>5. q.sessions[i].expected = Grant(y)
    BY <2>1, <2>2, <2>3, <2>4, SameGrant DEF SessionFits
  <2>6. ASSUME NEW a \in Attempt, HadEntry(q, <<i, a>>)
        PROVE  \E g \in y.prepared : a \in Attempts(y, g)
    <3>1. <<i, a>> \in Key
      BY <2>1 DEF Key
    <3>2. HadEntry(rdv, <<i, a>>)
      BY <2>6, <3>1 DEF Settled, Recedes
    <3> QED BY <2>1, <2>2, <2>4, <3>2, SameGrant DEF SessionFits
  <2>7. SumBy(Sizes(q), ActiveOf(q, i)) <= Paid(y)
    <3>1. /\ SumBy(Sizes(q), ActiveOf(q, i)) <= SumBy(Sizes(rdv), ActiveOf(rdv, i))
          /\ SumBy(Sizes(q), ActiveOf(q, i)) \in Int /\ SumBy(Sizes(rdv), ActiveOf(rdv, i)) \in Int
      BY SessionBytesRecede DEF Settled, Admitted
    <3>2. SumBy(Sizes(rdv), ActiveOf(rdv, i)) <= Paid(x) /\ Paid(y) = Paid(x) /\ Paid(x) \in Int
      BY <2>1, <2>2, <2>4, SameGrant, StageCounts DEF SessionFits
    <3> QED BY <3>1, <3>2
  <2>8. ASSUME IsLive(y), NEW g \in y.prepared, NEW row \in Row, y.next <= row, row < y.stage_rows[g]
        PROVE  Fresh(q, <<i, AttemptOf(g, row)>>)
    <3> DEFINE a == AttemptOf(g, row)
    <3>1. g \in Stage /\ a \in Attempt
      BY <2>1, GridAttempt DEF InventoryRecord
    <3>2. x.next <= row
      <4>1. x.next \in Int /\ y.next \in Int /\ row \in Int
        BY <2>1, GridAssumption DEF InventoryRecord, Row
      <4> QED BY <2>2, <2>8, <4>1
    <3>3. Fresh(rdv, <<i, a>>)
      BY <2>2, <2>4, <2>8, <3>2 DEF SessionFits
    <3>4. a \notin Below(x.next)
      <4> SUFFICES ASSUME NEW h \in Stage, NEW m \in Row, m < x.next, a = AttemptOf(h, m)
                   PROVE  FALSE
        BY DEF Below
      <4>1. row = m
        BY <3>1, AttemptsDiffer
      <4>2. x.next \in Int /\ row \in Int
        BY <2>1, GridAssumption DEF InventoryRecord, Row
      <4> QED BY <3>2, <4>1, <4>2
    <3> HIDE DEF a
    <3>5. <<i, a>> \in Unreserved /\ <<i, a>> \in Key
      BY <2>1, <2>2, <2>8, <3>1, <3>4 DEF Unreserved, Key
    <3>6. Fresh(q, <<i, a>>)
      BY <3>3, <3>5 DEF Settled, Recedes
    <3> QED BY <3>6 DEF a
  <2> QED BY <2>5, <2>6, <2>7, <2>8 DEF SessionFits
<1> QED BY <1>1, <1>2, <1>3, <1>4, <1>5 DEF Admitted, Settled

-----------------------------------------------------------------------------
(* How the handlers settle.                                                 *)

\* The invariant of the proofs.
AInv == SInv /\ Admitted(inv, rdv) /\ authorizing \subseteq Sid

\* Rows reserved for a session had an entry, and are not among the unreserved.
LEMMA ReservedKeysBelow ==
  ASSUME SInv, NEW e \in Ses, NEW a \in ses[e].reserved
  PROVE  /\ HadEntry(rdv, <<ses[e].inv, a>>) /\ <<ses[e].inv, a>> \notin Unreserved
         /\ <<ses[e].inv, a>> \in Key
<1>1. ses[e].st # "none"
  BY DEF SInv, SessionsBacked, NoSession
<1>2. Backed(ses[e], inv, rdv) /\ ses[e] \in SessionRecord
  BY <1>1 DEF SInv, SessionsBacked
<1> QED BY <1>2 DEF Backed, SessionRecord, Unreserved, Key

\* An inventory follows itself.
LEMMA FollowsItself ==
  ASSUME NEW x \in InventoryRecord, Proper(x)
  PROVE  Follows(x, x)
<1>1. x.next <= x.next
  BY GridAssumption DEF InventoryRecord
<1> QED BY <1>1 DEF Follows, Proper

\* Doing nothing settles.
LEMMA NothingSettles ==
  ASSUME AInv
  PROVE  Settled(inv, rdv)
<1>1. WellKept(rdv) /\ \A i \in Sid : inv[i] \in InventoryRecord /\ Proper(inv[i])
  BY DEF AInv, Admitted
<1> QED BY <1>1, RecedesNot, FollowsItself DEF AInv, Admitted, Settled

\* A further recession settles too, if it leaves the sessions of known inventories.
LEMMA SettledStore ==
  ASSUME AInv, NEW I, NEW q, Settled(I, q), NEW t, Recedes(Unreserved, q, t)
  PROVE  Settled(I, t)
<1>1. Recedes(Unreserved, rdv, t)
  BY RecedesTwice DEF AInv, Admitted, Settled
<1>2. DOMAIN t.sessions \subseteq DOMAIN q.sessions
  BY DEF Recedes, Evolves
<1> QED BY <1>1, <1>2 DEF Settled

\* So does an inventory that follows, and stays known where its session is.
LEMMA SettledInventory ==
  ASSUME NEW I, NEW q, Settled(I, q), NEW i \in Sid, NEW x, Follows(inv[i], x),
         i \in DOMAIN q.sessions => x.known
  PROVE  Settled([I EXCEPT ![i] = x], q)
<1> DEFINE J == [I EXCEPT ![i] = x]
<1>1. x \in InventoryRecord /\ \A j \in Sid : J[j] = IF j = i THEN x ELSE I[j]
  BY DEF Settled, Follows
<1>2. J \in [Sid -> InventoryRecord]
  BY <1>1 DEF Settled
<1> HIDE DEF J
<1>3. \A j \in Sid : Follows(inv[j], J[j])
  BY <1>1 DEF Settled
<1>4. DOMAIN q.sessions \subseteq Known(J)
  BY <1>1 DEF Settled, Known
<1> QED BY <1>2, <1>3, <1>4 DEF Settled, J

\* The state every handler starts from is settled.
LEMMA CleanSettles ==
  ASSUME AInv, NEW b \in BOOLEAN
  PROVE  Settled(CleanInv(b), CleanRdv(b))
<1> DEFINE D == DueInventories(b)
           K == ReservedKeys(DueSessions(b)) \cap DOMAIN rdv.entries
           q == Burn(rdv, K)
           ended == [NoInventory EXCEPT !.st = "ended"]
           I == CleanInv(b)
<1>1. WellKept(rdv) /\ inv \in [Sid -> InventoryRecord]
  BY DEF AInv, Admitted
<1>2. Recedes(Unreserved, rdv, q)
  <2>1. ASSUME NEW k \in K  PROVE HadEntry(rdv, k) /\ k \notin Unreserved
    <3>1. PICK e \in Ses : \E a \in ses[e].reserved : k = <<ses[e].inv, a>>
      BY DEF ReservedKeys, DueSessions
    <3> QED BY <3>1, ReservedKeysBelow DEF AInv
  <2> HIDE DEF K
  <2> QED BY <1>1, <2>1, BurnRecedes
<1> HIDE DEF K
<1>3. CleanRdv(b) = Terminal(q, D)
  BY DEF CleanRdv, K
<1>4. /\ Recedes(Unreserved, q, Terminal(q, D))
      /\ DOMAIN Terminal(q, D).sessions = DOMAIN q.sessions \ D
  BY <1>2, RecedesKeeps, TerminalRecedes
<1>5. Recedes(Unreserved, rdv, CleanRdv(b))
  BY <1>1, <1>2, <1>3, <1>4, RecedesTwice
<1>6. ended \in InventoryRecord /\ ended.known = FALSE /\ ended.next = 0 /\ ended.rows = 0
  BY NoInventoryType, InventoryUpdates DEF NoInventory
<1>7. \A i \in Sid : I[i] = IF i \in D THEN ended ELSE inv[i]
  BY DEF CleanInv
<1>8. DOMAIN q.sessions \subseteq DOMAIN rdv.sessions
  BY <1>2 DEF Recedes, Evolves
<1>9. I \in [Sid -> InventoryRecord]
  BY <1>1, <1>6, <1>7 DEF CleanInv
<1> HIDE DEF I, D, q, ended
<1>10. \A i \in Sid : Follows(inv[i], I[i])
  <2> TAKE i \in Sid
  <2>1. CASE i \in D
    BY <1>6, <1>7, <2>1 DEF Follows, IsLive
  <2>2. CASE i \notin D
    BY <1>1, <1>7, <2>2, FollowsItself DEF AInv, Admitted
  <2> QED BY <2>1, <2>2
<1>11. DOMAIN CleanRdv(b).sessions \subseteq Known(I)
  BY <1>3, <1>4, <1>7, <1>8 DEF AInv, Admitted, Known
<1> QED BY <1>5, <1>9, <1>10, <1>11 DEF Settled, I

\* ... and after the cleanup of the rendezvous.
LEMMA CleanTwiceSettles ==
  ASSUME AInv, NEW I, NEW q, Settled(I, q)
  PROVE  Settled(I, Cleanup(q))
<1>1. WellKept(q)
  BY RecedesKeeps DEF Settled
<1> QED BY <1>1, CleanupRecedes, SettledStore

\* An inventory that goes on follows still.
LEMMA FollowsOn ==
  ASSUME NEW x \in InventoryRecord, NEW y, Follows(x, y), NEW z \in InventoryRecord,
         z.st = y.st \/ z.st = "ended", z.known = y.known, z.stage_rows = y.stage_rows,
         z.prepared = y.prepared, y.next <= z.next, z.next <= z.rows,
         z.ready => y.ready \/ y.prepared = Stage
  PROVE  Follows(x, z)
<1>1. y \in InventoryRecord
  BY DEF Follows
<1>2. x.next \in Int /\ y.next \in Int /\ z.next \in Int
  BY <1>1, GridAssumption DEF InventoryRecord
<1>3. y.known => x.next <= z.next
  BY <1>2 DEF Follows
<1> QED BY <1>3 DEF Follows, IsLive

\* What handlers update of an inventory: its age, its flags, its seal, its cursor.
LEMMA UpdatesFollow ==
  ASSUME NEW x \in InventoryRecord, NEW y, Follows(x, y)
  PROVE  /\ Follows(x, [y EXCEPT !.st = "ended"])
         /\ Follows(x, [y EXCEPT !.idle = 0, !.st = "ended"])
         /\ Follows(x, [y EXCEPT !.st = "ended", !.idle = 0])
         /\ \A n \in 0..IdleTimeout : Follows(x, [y EXCEPT !.idle = n])
         /\ \A b \in BOOLEAN : (b => y.ready \/ y.prepared = Stage) =>
              Follows(x, [y EXCEPT !.idle = 0, !.ready = b])
         /\ \A n \in 0..MaxRows : y.next <= n /\ n <= y.rows =>
              Follows(x, [y EXCEPT !.next = n, !.idle = 0])
<1>1. y \in InventoryRecord /\ y.next <= y.next /\ y.next <= y.rows
  BY GridAssumption DEF Follows, InventoryRecord
<1>2. Follows(x, [y EXCEPT !.st = "ended"])
  <2> DEFINE z == [y EXCEPT !.st = "ended"]
  <2>1. z \in InventoryRecord
    BY <1>1, InventoryUpdates
  <2>2. /\ z.st = "ended" /\ z.known = y.known /\ z.stage_rows = y.stage_rows /\ z.rows = y.rows
        /\ z.prepared = y.prepared /\ z.next = y.next /\ z.ready = y.ready
    BY <1>1 DEF InventoryRecord
  <2> HIDE DEF z
  <2>3. Follows(x, z)
    BY <1>1, <2>1, <2>2, FollowsOn
  <2> QED BY <2>3 DEF z
<1>3. Follows(x, [y EXCEPT !.idle = 0, !.st = "ended"])
  <2> DEFINE z == [y EXCEPT !.idle = 0, !.st = "ended"]
  <2>1. z \in InventoryRecord
    BY <1>1, InventoryUpdates
  <2>2. /\ z.st = "ended" /\ z.known = y.known /\ z.stage_rows = y.stage_rows /\ z.rows = y.rows
        /\ z.prepared = y.prepared /\ z.next = y.next /\ z.ready = y.ready
    BY <1>1 DEF InventoryRecord
  <2> HIDE DEF z
  <2>3. Follows(x, z)
    BY <1>1, <2>1, <2>2, FollowsOn
  <2> QED BY <2>3 DEF z
<1>4. Follows(x, [y EXCEPT !.st = "ended", !.idle = 0])
  <2>1. [y EXCEPT !.st = "ended", !.idle = 0] = [y EXCEPT !.idle = 0, !.st = "ended"]
    BY <1>1 DEF InventoryRecord
  <2> QED BY <1>3, <2>1
<1>5. ASSUME NEW n \in 0..IdleTimeout  PROVE Follows(x, [y EXCEPT !.idle = n])
  <2> DEFINE z == [y EXCEPT !.idle = n]
  <2>1. z \in InventoryRecord
    BY <1>1, InventoryUpdates
  <2>2. /\ z.st = y.st /\ z.known = y.known /\ z.stage_rows = y.stage_rows /\ z.rows = y.rows
        /\ z.prepared = y.prepared /\ z.next = y.next /\ z.ready = y.ready
    BY <1>1 DEF InventoryRecord
  <2> HIDE DEF z
  <2>3. Follows(x, z)
    BY <1>1, <2>1, <2>2, FollowsOn
  <2> QED BY <2>3 DEF z
<1>6. ASSUME NEW b \in BOOLEAN, b => y.ready \/ y.prepared = Stage
      PROVE  Follows(x, [y EXCEPT !.idle = 0, !.ready = b])
  <2> DEFINE z == [y EXCEPT !.idle = 0, !.ready = b]
  <2>1. z \in InventoryRecord
    BY <1>1, InventoryUpdates
  <2>2. /\ z.st = y.st /\ z.known = y.known /\ z.stage_rows = y.stage_rows /\ z.rows = y.rows
        /\ z.prepared = y.prepared /\ z.next = y.next /\ z.ready = b
    BY <1>1 DEF InventoryRecord
  <2> HIDE DEF z
  <2>3. Follows(x, z)
    BY <1>1, <1>6, <2>1, <2>2, FollowsOn
  <2> QED BY <2>3 DEF z
<1>7. ASSUME NEW n \in 0..MaxRows, y.next <= n /\ n <= y.rows
      PROVE  Follows(x, [y EXCEPT !.next = n, !.idle = 0])
  <2> DEFINE z == [y EXCEPT !.next = n, !.idle = 0]
  <2>1. z \in InventoryRecord
    BY <1>1, InventoryUpdates
  <2>2. /\ z.st = y.st /\ z.known = y.known /\ z.stage_rows = y.stage_rows /\ z.rows = y.rows
        /\ z.prepared = y.prepared /\ z.next = n /\ z.ready = y.ready
    BY <1>1 DEF InventoryRecord
  <2> HIDE DEF z
  <2>3. Follows(x, z)
    BY <1>1, <1>7, <2>1, <2>2, FollowsOn
  <2> QED BY <2>3 DEF z
<1> QED BY <1>2, <1>3, <1>4, <1>5, <1>6, <1>7

\* Activity of an inventory, or its end, with the store settled.
LEMMA TouchSettles ==
  ASSUME AInv, NEW I, NEW q, Settled(I, q), NEW i
  PROVE  /\ Settled([I EXCEPT ![i].idle = 0], q)
         /\ Settled([I EXCEPT ![i].st = "ended", ![i].idle = 0], q)
         /\ i \in Sid => /\ Settled([I EXCEPT ![i] = [I[i] EXCEPT !.idle = 0, !.st = "ended"]], q)
                         /\ Settled([I EXCEPT ![i] = [I[i] EXCEPT !.st = "ended"]], q)
<1>1. CASE i \in Sid
  <2> DEFINE y == [I[i] EXCEPT !.idle = 0]
             z == [I[i] EXCEPT !.st = "ended", !.idle = 0]
             u == [I[i] EXCEPT !.idle = 0, !.st = "ended"]
             w == [I[i] EXCEPT !.st = "ended"]
  <2>1. Follows(inv[i], I[i]) /\ inv[i] \in InventoryRecord /\ 0 \in 0..IdleTimeout
    BY <1>1, LimitsArePositive DEF Settled, AInv, Admitted
  <2>2. Follows(inv[i], y) /\ Follows(inv[i], z) /\ Follows(inv[i], u) /\ Follows(inv[i], w)
    BY <2>1, UpdatesFollow
  <2>3. I[i] \in InventoryRecord /\ I \in [Sid -> InventoryRecord]
    BY <1>1 DEF Settled
  <2>4. y.known = I[i].known /\ z.known = I[i].known /\ u.known = I[i].known /\ w.known = I[i].known
    BY <2>3 DEF InventoryRecord
  <2>5. i \in DOMAIN q.sessions => I[i].known
    BY DEF Settled, Known
  <2>6. /\ [I EXCEPT ![i].idle = 0] = [I EXCEPT ![i] = y]
        /\ [I EXCEPT ![i].st = "ended", ![i].idle = 0] = [I EXCEPT ![i] = z]
    BY <1>1, <2>3
  <2> HIDE DEF y, z, u, w
  <2>7. Settled([I EXCEPT ![i] = y], q) /\ Settled([I EXCEPT ![i] = z], q)
        /\ Settled([I EXCEPT ![i] = u], q) /\ Settled([I EXCEPT ![i] = w], q)
    BY <1>1, <2>2, <2>4, <2>5, SettledInventory
  <2> QED BY <2>6, <2>7 DEF u, w
<1>2. CASE i \notin Sid
  <2>1. [I EXCEPT ![i].idle = 0] = I /\ [I EXCEPT ![i].st = "ended", ![i].idle = 0] = I
    BY <1>2 DEF Settled
  <2> QED BY <1>2, <2>1
<1> QED BY <1>1, <1>2

-----------------------------------------------------------------------------
(* The handlers that settle.                                                *)

\* authorize_prepared_session, before its await and after it.
LEMMA AuthorizeSettles ==
  ASSUME AInv, NEW i \in Sid, BeginAuthorize(i) \/ EndAuthorize(i)
  PROVE  Settled(inv', rdv')
<1>1. CASE BeginAuthorize(i)
  <2>1. Settled(CleanInv(FALSE), CleanRdv(FALSE))
    BY CleanSettles
  <2>2. /\ rdv' = CleanRdv(FALSE)
        /\ inv' = [CleanInv(FALSE) EXCEPT ![i].idle = 0] \/ inv' = CleanInv(FALSE)
    BY <1>1 DEF BeginAuthorize
  <2> QED BY <2>1, <2>2, TouchSettles
<1>2. CASE EndAuthorize(i)
  <2> DEFINE r == Cleanup(rdv)
  <2>1. Settled(inv, r)
    BY NothingSettles, CleanTwiceSettles
  <2>2. inv' = inv /\ (rdv' = r \/ (rdv' = Authorize(r, i) /\ i \in DOMAIN r.sessions))
    BY <1>2 DEF EndAuthorize
  <2> HIDE DEF r
  <2>3. i \in DOMAIN r.sessions => Recedes(Unreserved, r, Authorize(r, i))
    BY <2>1, RecedesKeeps, TouchRecedes DEF Settled
  <2> QED BY <2>1, <2>2, <2>3, SettledStore
<1> QED BY <1>1, <1>2

\* seal_prepared_inventory seals what has every stage, get_prepared_inventory
\* refreshes.
LEMMA SealSettles ==
  ASSUME AInv, NEW i \in Sid, SealInventory(i) \/ GetInventory(i)
  PROVE  Settled(inv', rdv')
<1>1. CASE SealInventory(i)
  <2> DEFINE I == CleanInv(FALSE)
             b == I[i].ready \/ (IsLive(I[i]) /\ I[i].prepared = Stage)
             x == [I[i] EXCEPT !.idle = 0, !.ready = b]
  <2>1. Settled(I, CleanRdv(FALSE))
    BY CleanSettles
  <2>2. /\ rdv' = CleanRdv(FALSE)
        /\ inv' = [I EXCEPT ![i] = IF I[i].known THEN x ELSE I[i]]
    BY <1>1 DEF SealInventory
  <2> HIDE DEF I
  <2>3. Follows(inv[i], I[i]) /\ inv[i] \in InventoryRecord /\ I[i] \in InventoryRecord
        /\ I \in [Sid -> InventoryRecord]
    BY <2>1 DEF Settled, AInv, Admitted
  <2>4. b \in BOOLEAN /\ (b => I[i].ready \/ I[i].prepared = Stage)
    BY <2>3 DEF InventoryRecord
  <2> HIDE DEF b
  <2>5. Follows(inv[i], x) /\ x.known = I[i].known
    BY <2>3, <2>4, UpdatesFollow DEF InventoryRecord
  <2> HIDE DEF x
  <2>6. i \in DOMAIN CleanRdv(FALSE).sessions => x.known
    BY <2>1, <2>5 DEF Settled, Known
  <2>7. Settled([I EXCEPT ![i] = x], CleanRdv(FALSE))
    BY <2>1, <2>5, <2>6, SettledInventory
  <2>8. inv' = [I EXCEPT ![i] = x] \/ inv' = I
    BY <2>2, <2>3
  <2> QED BY <2>1, <2>2, <2>7, <2>8
<1>2. CASE GetInventory(i)
  <2> DEFINE I == CleanInv(TRUE)
  <2>1. Settled(I, CleanRdv(TRUE))
    BY CleanSettles
  <2>2. /\ rdv' = CleanRdv(TRUE)
        /\ inv' = [I EXCEPT ![i] = IF IsLive(I[i]) THEN [I[i] EXCEPT !.idle = 0] ELSE I[i]]
    BY <1>2 DEF GetInventory
  <2> HIDE DEF I
  <2>3. inv' = [I EXCEPT ![i].idle = 0] \/ inv' = I
    BY <2>1, <2>2 DEF Settled
  <2> QED BY <2>1, <2>2, <2>3, TouchSettles
<1> QED BY <1>1, <1>2

\* An inventory is cancelled, by any of the three routes that do it.
LEMMA CancelSettles ==
  ASSUME AInv, NEW i \in Sid,
         CancelInventory(i) \/ CancelInventoryAsSession(i) \/ CompleteInventoryAsSession(i)
  PROVE  Settled(inv', rdv')
<1>1. CASE CancelInventory(i) \/ CancelInventoryAsSession(i)
  <2> DEFINE I == CleanInv(FALSE)
             R == CleanRdv(FALSE)
             x == [I[i] EXCEPT !.idle = 0, !.st = "ended"]
  <2>1. Settled(I, R)
    BY CleanSettles
  <2>2. /\ rdv' = Terminal(R, {i}) \/ rdv' = R
        /\ inv' = [I EXCEPT ![i] = IF I[i].known THEN x ELSE I[i]]
    BY <1>1 DEF CancelInventory, CancelInventoryAsSession
  <2> HIDE DEF I, R
  <2>3. inv' = [I EXCEPT ![i] = x] \/ inv' = I
    BY <2>1, <2>2 DEF Settled
  <2>4. Settled(inv', R)
    BY <2>1, <2>3, TouchSettles
  <2>5. Recedes(Unreserved, R, Terminal(R, {i}))
    BY <2>1, RecedesKeeps, TerminalRecedes DEF Settled
  <2> QED BY <2>2, <2>4, <2>5, SettledStore
<1>2. CASE CompleteInventoryAsSession(i)
  <2> DEFINE x == [inv[i] EXCEPT !.st = "ended"]
  <2>1. rdv' = rdv /\ inv' = [inv EXCEPT ![i] = x]
    BY <1>2 DEF CompleteInventoryAsSession
  <2> QED BY <2>1, NothingSettles, TouchSettles
<1> QED BY <1>1, <1>2

\* create_session moves the cursor and takes nothing from the rendezvous.
LEMMA CreateSessionSettles ==
  ASSUME AInv, NEW e \in Ses, NEW i \in Sid, NEW start \in Row, NEW rows \in 1..MaxRows,
         CreateSession(e, i, start, rows)
  PROVE  Settled(inv', rdv')
<1> DEFINE I == CleanInv(TRUE)
           n == NextRow(I[i], rows)
           x == [I[i] EXCEPT !.next = n, !.idle = 0]
<1>1. Settled(I, CleanRdv(TRUE)) /\ rdv' = CleanRdv(TRUE)
  BY CleanSettles DEF CreateSession
<1>2. \/ inv' = I
      \/ inv' = [I EXCEPT ![i].next = n, ![i].idle = 0] /\ Available(I[i], start, rows)
  BY DEF CreateSession
<1> HIDE DEF I
<1>3. Follows(inv[i], I[i]) /\ inv[i] \in InventoryRecord /\ I[i] \in InventoryRecord
      /\ I \in [Sid -> InventoryRecord]
  BY <1>1 DEF Settled, AInv, Admitted
<1>4. Available(I[i], start, rows) => n \in 0..MaxRows /\ I[i].next <= n /\ n <= I[i].rows
  <2>1. I[i].rows \in 0..MaxRows /\ I[i].next \in 0..MaxRows
    BY <1>3 DEF InventoryRecord
  <2> QED BY <2>1, GridAssumption DEF Available, NextRow
<1> HIDE DEF n
<1>5. Available(I[i], start, rows) => Follows(inv[i], x)
  BY <1>3, <1>4, UpdatesFollow
<1>6. x.known = I[i].known /\ [I EXCEPT ![i].next = n, ![i].idle = 0] = [I EXCEPT ![i] = x]
  BY <1>3 DEF InventoryRecord
<1> HIDE DEF x
<1>7. i \in DOMAIN CleanRdv(TRUE).sessions => x.known
  BY <1>1, <1>6 DEF Settled, Known
<1>8. Available(I[i], start, rows) => Settled([I EXCEPT ![i] = x], CleanRdv(TRUE))
  BY <1>1, <1>5, <1>7, SettledInventory
<1> QED BY <1>1, <1>2, <1>6, <1>8

\* The common end of a session burns rows reserved for it.
LEMMA EndSessionSettles ==
  ASSUME AInv, NEW I, NEW r, Settled(I, r), NEW e \in Ses,
         NEW T, T[e].inv = ses[e].inv, T[e].reserved = ses[e].reserved,
         Ends(e, I, T, r)
  PROVE  Settled(inv', rdv')
<1> DEFINE i == T[e].inv
           K == ({i} \X T[e].reserved) \cap DOMAIN r.entries
           q == Burn(r, K)
<1>1. /\ inv' = I \/ inv' = [I EXCEPT ![i].st = "ended", ![i].idle = 0]
      /\ rdv' = q \/ rdv' = Terminal(q, {i})
  BY DEF Ends, EndSession, BurnReserved
<1>2. ASSUME NEW k \in K  PROVE HadEntry(r, k) /\ k \notin Unreserved
  BY ReservedKeysBelow DEF AInv, HadEntry
<1> HIDE DEF i, K
<1>3. Recedes(Unreserved, r, q)
  BY <1>2, RecedesKeeps, BurnRecedes DEF Settled
<1> HIDE DEF q
<1>4. Recedes(Unreserved, q, Terminal(q, {i}))
  BY <1>3, RecedesKeeps, TerminalRecedes
<1>5. Settled(I, rdv')
  BY <1>1, <1>3, <1>4, SettledStore
<1>6. Settled([I EXCEPT ![i].st = "ended", ![i].idle = 0], rdv')
  BY <1>5, TouchSettles
<1> QED BY <1>1, <1>5, <1>6

\* get_session, and the ends of sessions.
LEMMA SessionsSettle ==
  ASSUME AInv, NEW e \in Ses,
         GetSession(e) \/ CancelSession(e) \/ EndComplete(e) \/ CancelResponse(e)
  PROVE  Settled(inv', rdv')
<1>1. CASE GetSession(e)
  BY <1>1, CleanSettles DEF GetSession
<1>2. CASE CancelSession(e)
  <2> DEFINE S == CleanSes(FALSE)
             T == [S EXCEPT ![e].st = "ended", ![e].idle = 0]
  <2>1. Settled(CleanInv(FALSE), CleanRdv(FALSE))
    BY CleanSettles
  <2>2. \/ EndSession(e, CleanInv(FALSE), T, CleanRdv(FALSE))
        \/ inv' = CleanInv(FALSE) /\ rdv' = CleanRdv(FALSE)
    BY <1>2 DEF CancelSession
  <2>3. S \in [Ses -> SessionRecord] /\ Remains(ses[e], S[e], CleanRdv(FALSE)) /\ ses[e].st # "none"
    BY <1>2, CleanSesAfter DEF AInv, SesAfter, CancelSession
  <2> HIDE DEF S
  <2>4. T[e].inv = ses[e].inv /\ T[e].reserved = ses[e].reserved
    <3>1. T[e] = [S[e] EXCEPT !.st = "ended", !.idle = 0]
      BY <2>3
    <3> QED BY <2>3, <3>1 DEF SessionRecord, Remains
  <2> HIDE DEF T
  <2> QED BY <2>1, <2>2, <2>4, EndSessionSettles DEF Ends
<1>3. CASE EndComplete(e) \/ CancelResponse(e)
  <2> DEFINE T == [ses EXCEPT ![e].st = "ended"]
  <2>1. Ends(e, inv, T, rdv)
    BY <1>3 DEF EndComplete, CancelResponse, Ends
  <2>2. T[e].inv = ses[e].inv /\ T[e].reserved = ses[e].reserved
    <3>1. ses[e] \in SessionRecord /\ T[e] = [ses[e] EXCEPT !.st = "ended"]
      BY DEF AInv, SInv
    <3> QED BY <3>1 DEF SessionRecord
  <2> HIDE DEF T
  <2> QED BY <2>1, <2>2, NothingSettles, EndSessionSettles
<1> QED BY <1>1, <1>2, <1>3

\* validate_prepared_request touches the inventory, whatever the store does.
LEMMA RequestTouchSettles ==
  ASSUME AInv, NEW e, TouchInventory(e), Recedes(Unreserved, rdv, rdv')
  PROVE  Settled(inv', rdv')
<1>1. Settled(inv, rdv')
  BY NothingSettles, SettledStore
<1>2. inv' = [inv EXCEPT ![InventoryOf(e)].idle = 0] \/ inv' = inv
  BY DEF TouchInventory
<1>3. Settled([inv EXCEPT ![InventoryOf(e)].idle = 0], rdv')
  BY <1>1, TouchSettles
<1> QED BY <1>1, <1>2, <1>3

\* The rows a valid request names are reserved, so they may burn.
LEMMA RequestedRowsBurn ==
  ASSUME AInv, NEW e \in Ses, NEW A \in SUBSET ses[e].reserved,
         NEW r, Recedes(Unreserved, rdv, r)
  PROVE  /\ Recedes(Unreserved, r, Burn(r, {InventoryOf(e)} \X A))
         /\ \A a \in A : HadEntry(r, <<InventoryOf(e), a>>) /\ <<InventoryOf(e), a>> \notin Unreserved
<1> DEFINE i == InventoryOf(e)
           K == {i} \X A
<1>1. ASSUME NEW a \in A
      PROVE  HadEntry(r, <<i, a>>) /\ <<i, a>> \notin Unreserved
  <2>1. /\ HadEntry(rdv, <<i, a>>) /\ <<i, a>> \notin Unreserved
        /\ <<i, a>> \in Key
    BY ReservedKeysBelow DEF AInv, InventoryOf
  <2> HIDE DEF i
  <2> QED BY <2>1 DEF Recedes, Evolves
<1>2. \A k \in K : HadEntry(r, k) /\ k \notin Unreserved
  BY <1>1
<1>3. WellKept(r)
  BY RecedesKeeps
<1> HIDE DEF K
<1>4. Recedes(Unreserved, r, Burn(r, K))
  BY <1>2, <1>3, BurnRecedes
<1> QED BY <1>1, <1>4 DEF K

\* execute_prepared_payloads burns rows reserved for the session only.
LEMMA SubmitBatchSettles ==
  ASSUME AInv, NEW p \in Holder, NEW kind, NEW A \in SUBSET Attempt, SubmitBatch(p, kind, A)
  PROVE  Settled(inv', rdv')
<1> DEFINE e == req[p].ses
           i == InventoryOf(e)
           r == Cleanup(rdv)
           K == {i} \X A
<1>1. req[p].st = "body" /\ TouchInventory(e)
  BY DEF SubmitBatch
<1>2. e \in Ses
  BY <1>1 DEF AInv, SInv, RequestsBelong, Belongs
<1>3. WellKept(rdv) /\ Recedes(Unreserved, rdv, rdv) /\ Recedes(Unreserved, rdv, r)
  BY RecedesNot, CleanupRecedes DEF AInv, Admitted
<1>4. \/ rdv' = rdv \/ rdv' = r
      \/ IsValid(e, A) /\ (rdv' = Burn(r, K) \/ (IsOpen(r, i) /\ rdv' = Touch(Burn(r, K), i)))
  BY DEF SubmitBatch, BatchIsOpen, ConsumeBatch
<1> HIDE DEF e, r
<1>5. ASSUME IsValid(e, A)  PROVE Recedes(Unreserved, rdv, Burn(r, K))
  <2>1. A \in SUBSET ses[e].reserved
    BY <1>5 DEF IsValid
  <2>2. Recedes(Unreserved, r, Burn(r, K))
    BY <1>2, <1>3, <2>1, RequestedRowsBurn
  <2> QED BY <1>3, <2>2, RecedesTwice
<1> DEFINE q == Burn(r, K)
<1>6. ASSUME IsValid(e, A), IsOpen(r, i)  PROVE Recedes(Unreserved, rdv, Touch(q, i))
  <2>1. i \in DOMAIN q.sessions
    BY <1>6 DEF IsOpen, Burn, Store
  <2>2. Recedes(Unreserved, rdv, q) /\ WellKept(q)
    BY <1>5, <1>6, RecedesKeeps
  <2> HIDE DEF q, i
  <2> QED BY <1>3, <2>1, <2>2, TouchRecedes, RecedesTwice
<1> HIDE DEF q, i, K
<1>7. Recedes(Unreserved, rdv, rdv')
  BY <1>3, <1>4, <1>5, <1>6 DEF q
<1> QED BY <1>1, <1>7, RequestTouchSettles

\* run_prepared_requests, up to its first await.
LEMMA SubmitMultiSettles ==
  ASSUME AInv, NEW p \in Holder, NEW A \in SUBSET Attempt, SubmitMulti(p, A)
  PROVE  Settled(inv', rdv')
<1> DEFINE e == req[p].ses
           i == InventoryOf(e)
           r == Cleanup(rdv)
           Lost(B, b) == B \cup {a \in {b} : CanHaveEntry(r, <<i, a>>)}
<1>1. req[p].st = "body" /\ TouchInventory(e)
  BY DEF SubmitMulti
<1>2. e \in Ses
  BY <1>1 DEF AInv, SInv, RequestsBelong, Belongs
<1>3. WellKept(rdv) /\ Recedes(Unreserved, rdv, rdv) /\ Recedes(Unreserved, rdv, r) /\ WellKept(r)
  BY RecedesNot, CleanupRecedes, RecedesKeeps DEF AInv, Admitted
<1>4. \/ rdv' = rdv \/ rdv' = r
      \/ /\ IsValid(e, A) /\ IsOpen(r, i)
         /\ \E C \in SUBSET A : rdv' = Touch(Burn(r, {i} \X C), i)
      \/ /\ IsValid(e, A) /\ IsOpen(r, i) /\ \A a \in A : CanHaveEntry(r, <<i, a>>)
         /\ rdv' = ActivateAll(r, i, A, p)
  <2>1. \A B \in SUBSET A : \A b \in A : Lost(B, b) \in SUBSET A
    OBVIOUS
  <2>2. ASSUME NEW B, NEW b \in A \cup B,  B \in SUBSET A,
               rdv' = Touch(Burn(r, {i} \X Lost(B, b)), i)
        PROVE  \E C \in SUBSET A : rdv' = Touch(Burn(r, {i} \X C), i)
    <3>1. Lost(B, b) \in SUBSET A
      BY <2>1, <2>2
    <3> HIDE DEF Lost, r, i
    <3> QED BY <2>2, <3>1
  <2>3. CASE /\ IsValid(e, A) /\ IsOpen(r, i)
             /\ \E B \in SUBSET {a \in A : Activates(r, <<i, a>>)} :
                  \E b \in (A \ {a \in A : Activates(r, <<i, a>>)}) \cup B :
                    rdv' = Touch(Burn(r, {i} \X Lost(B, b)), i)
    BY <2>2, <2>3
  <2> QED BY <2>3 DEF SubmitMulti, Activates
<1> HIDE DEF e, i, r
<1>5. ASSUME IsValid(e, A), IsOpen(r, i), NEW C \in SUBSET A
      PROVE  Recedes(Unreserved, rdv, Touch(Burn(r, {i} \X C), i))
  <2> DEFINE q == Burn(r, {i} \X C)
  <2>1. C \in SUBSET ses[e].reserved
    BY <1>5 DEF IsValid
  <2>2. Recedes(Unreserved, r, q)
    BY <1>2, <1>3, <2>1, RequestedRowsBurn DEF i
  <2>3. i \in DOMAIN q.sessions
    BY <1>5 DEF IsOpen, Burn, Store
  <2> HIDE DEF q
  <2>4. Recedes(Unreserved, q, Touch(q, i))
    BY <2>2, <2>3, RecedesKeeps, TouchRecedes
  <2>5. Recedes(Unreserved, rdv, Touch(q, i))
    BY <1>3, <2>2, <2>4, RecedesKeeps, RecedesTwice
  <2> QED BY <2>5 DEF q
<1>6. ASSUME IsValid(e, A), IsOpen(r, i), \A a \in A : CanHaveEntry(r, <<i, a>>)
      PROVE  Recedes(Unreserved, rdv, ActivateAll(r, i, A, p))
  <2>1. A \in SUBSET ses[e].reserved
    BY <1>6 DEF IsValid
  <2>2. \A a \in A : HadEntry(r, <<i, a>>) /\ <<i, a>> \notin Unreserved
    BY <1>2, <1>3, <2>1, RequestedRowsBurn DEF i
  <2>3. \A a \in A : <<i, a>> \in DOMAIN r.entries /\ ~(<<i, a>> \in Unreserved /\ Fresh(r, <<i, a>>))
    BY <1>6, <2>2 DEF HadEntry, IsVoid, CanHaveEntry, IsOpen
  <2>4. Recedes(Unreserved, r, ActivateAll(r, i, A, p))
    BY <1>3, <1>6, <2>3, ActivateAllRecedes
  <2> QED BY <1>3, <2>4, RecedesTwice
<1>7. Recedes(Unreserved, rdv, rdv')
  BY <1>3, <1>4, <1>5, <1>6
<1> QED BY <1>1, <1>7, RequestTouchSettles

\* What a request does after that burns rows that it holds.
LEMMA RequestRunsSettles ==
  ASSUME AInv, NEW p \in Holder, RequestRuns(p) \/ Disconnect(p)
  PROVE  Settled(inv', rdv')
<1>1. WellKept(rdv) /\ Recedes(Unreserved, rdv, rdv)
  BY RecedesNot DEF AInv, Admitted
<1>2. \A k : Holds(rdv, k, p) => HadEntry(rdv, k) /\ ~Fresh(rdv, k)
  BY NullsAreDistinct DEF Holds, HadEntry, Fresh
<1>3. /\ inv' = inv
      /\ \/ rdv' = rdv \/ (\E k : rdv' = Abort(rdv, k, p))
         \/ \E K : rdv' = Burn(rdv, K) /\ \A k \in K : Holds(rdv, k, p)
  <2>1. ASSUME NEW a \in Attempt, TakeRow(p, a)
        PROVE  \/ rdv' = rdv
               \/ \E K : rdv' = Burn(rdv, K) /\ \A k \in K : Holds(rdv, k, p)
    <3> DEFINE k == <<InventoryOf(req[p].ses), a>>
    <3>1. rdv' = rdv \/ (Holds(rdv, k, p) /\ rdv' = Burn(rdv, {k}))
      BY <2>1 DEF TakeRow
    <3> HIDE DEF k
    <3> QED BY <3>1
  <2>2. ASSUME GiveUp(p)
        PROVE  \E K : rdv' = Burn(rdv, K) /\ \A k \in K : Holds(rdv, k, p)
    <3> DEFINE K == {k \in DOMAIN rdv.entries : Holds(rdv, k, p)}
    <3>1. rdv' = Burn(rdv, K) /\ \A k \in K : Holds(rdv, k, p)
      BY <2>2 DEF GiveUp
    <3> HIDE DEF K
    <3> QED BY <3>1
  <2>3. inv' = inv
    BY DEF RequestRuns, TakeRow, TimeOutRow, EngineAnswersMulti, EngineAnswers, GiveUp,
           GatherEnds, Disconnect
  <2>4. ASSUME ~GiveUp(p), ~\E a \in Attempt : TakeRow(p, a)
        PROVE  rdv' = rdv \/ \E k : rdv' = Abort(rdv, k, p)
    BY <2>4 DEF RequestRuns, TimeOutRow, EngineAnswersMulti, EngineAnswers, GatherEnds, Disconnect
  <2> QED BY <2>1, <2>2, <2>3, <2>4
<1>4. ASSUME NEW K, \A k \in K : Holds(rdv, k, p)
      PROVE  Recedes(Unreserved, rdv, Burn(rdv, K))
  BY <1>1, <1>2, <1>4, BurnRecedes
<1>5. Recedes(Unreserved, rdv, rdv')
  BY <1>1, <1>3, <1>4, AbortRecedes
<1> QED BY <1>3, <1>5, NothingSettles, SettledStore

\* Time only ages.
LEMMA TickSettles ==
  ASSUME AInv, Tick
  PROVE  Settled(inv', rdv')
<1> DEFINE older(x) == IF x.known /\ x.idle < IdleTimeout THEN [x EXCEPT !.idle = x.idle + 1] ELSE x
<1>1. inv' = [i \in Sid |-> older(inv[i])] /\ rdv' = Aged(rdv)
  BY DEF Tick
<1>2. ASSUME NEW i \in Sid  PROVE Follows(inv[i], older(inv[i])) /\ older(inv[i]).known = inv[i].known
  <2> DEFINE x == inv[i]
  <2>1. x \in InventoryRecord /\ Follows(x, x)
    BY FollowsItself DEF AInv, Admitted
  <2> HIDE DEF x
  <2>2. x.idle < IdleTimeout => x.idle + 1 \in 0..IdleTimeout
    BY <2>1, LimitsArePositive DEF InventoryRecord
  <2>3. Follows(x, older(x))
    BY <2>1, <2>2, UpdatesFollow
  <2>4. older(x).known = x.known
    BY <2>1 DEF InventoryRecord
  <2> QED BY <2>3, <2>4 DEF x
<1> HIDE DEF older
<1>3. inv' \in [Sid -> InventoryRecord] /\ \A i \in Sid : Follows(inv[i], inv'[i])
  BY <1>1, <1>2 DEF Follows
<1>4. Recedes(Unreserved, rdv, rdv')
  BY <1>1, AgedRecedes DEF AInv, Admitted
<1>5. DOMAIN rdv'.sessions \subseteq Known(inv')
  <2>1. DOMAIN rdv'.sessions \subseteq Known(inv)
    BY <1>4 DEF Recedes, Evolves, AInv, Admitted
  <2> QED BY <1>1, <1>2, <2>1 DEF Known
<1> QED BY <1>3, <1>4, <1>5 DEF Settled

-----------------------------------------------------------------------------
(* The handlers that take: create_prepared_inventory.                       *)

\* What create_prepared_inventory adds up are sums over inventories.
LEMMA EntriesAddUp ==
  ASSUME NEW I, NEW S \in SUBSET Sid, IsFiniteSet(S)
  PROVE  MapThenSumSet(LAMBDA i : Entries(I[i]), S) = SumBy([i \in Sid |-> Entries(I[i])], S)
<1> DEFINE f == [i \in Sid |-> Entries(I[i])]
           P(g) == g = [s \in SUBSET S |->
                          IF s = {} THEN 0 ELSE LET x == CHOOSE x \in s : TRUE
                                                IN  Entries(I[x]) + g[s \ {x}]]
           g == CHOOSE u : P(u)
<1>1. MapThenSumSet(LAMBDA i : Entries(I[i]), S) = g[S]
  BY DEF MapThenSumSet, MapThenFoldSet
<1>2. ASSUME NEW u  PROVE P(u) <=> SumsUp(u, f, S)
  <2>1. \A s \in SUBSET S : s # {} => f[CHOOSE x \in s : TRUE] = Entries(I[CHOOSE x \in s : TRUE])
    OBVIOUS
  <2> HIDE DEF f
  <2> QED BY <2>1 DEF SumsUp
<1> HIDE DEF f
<1>3. \E u : P(u)
  <2> HIDE DEF P
  <2> QED BY <1>2, SumExists
<1>4. SumsUp(g, f, S)
  <2>1. P(g)
    BY <1>3
  <2> HIDE DEF P, g
  <2> QED BY <1>2, <2>1
<1> HIDE DEF g, P
<1>5. g[S] = SumBy(f, S)
  BY <1>4, SumOf
<1> QED BY <1>1, <1>5 DEF f

\* The same for their bytes.
LEMMA BytesAddUp ==
  ASSUME NEW I, NEW S \in SUBSET Sid, IsFiniteSet(S)
  PROVE  MapThenSumSet(LAMBDA i : Bytes(I[i]), S) = SumBy([i \in Sid |-> Bytes(I[i])], S)
<1> DEFINE f == [i \in Sid |-> Bytes(I[i])]
           P(g) == g = [s \in SUBSET S |->
                          IF s = {} THEN 0 ELSE LET x == CHOOSE x \in s : TRUE
                                                IN  Bytes(I[x]) + g[s \ {x}]]
           g == CHOOSE u : P(u)
<1>1. MapThenSumSet(LAMBDA i : Bytes(I[i]), S) = g[S]
  BY DEF MapThenSumSet, MapThenFoldSet
<1>2. ASSUME NEW u  PROVE P(u) <=> SumsUp(u, f, S)
  <2>1. \A s \in SUBSET S : s # {} => f[CHOOSE x \in s : TRUE] = Bytes(I[CHOOSE x \in s : TRUE])
    OBVIOUS
  <2> HIDE DEF f
  <2> QED BY <2>1 DEF SumsUp
<1> HIDE DEF f
<1>3. \E u : P(u)
  <2> HIDE DEF P
  <2> QED BY <1>2, SumExists
<1>4. SumsUp(g, f, S)
  <2>1. P(g)
    BY <1>3
  <2> HIDE DEF P, g
  <2> QED BY <1>2, <2>1
<1> HIDE DEF g, P
<1>5. g[S] = SumBy(f, S)
  BY <1>4, SumOf
<1> QED BY <1>1, <1>5 DEF f

\* An inventory that is admitted fits with the others.
LEMMA AdmittedFits ==
  ASSUME NEW I \in [Sid -> InventoryRecord], Fits(I), NEW i \in Sid, NEW x \in InventoryRecord,
         ~I[i].known, x.known, \A j \in Sid : IsLive(I[j]) <=> I[j].known, Admits(I, x)
  PROVE  Fits([I EXCEPT ![i] = x])
<1> DEFINE J == [I EXCEPT ![i] = x]
           K == Known(I)
           e == [j \in Sid |-> Entries(I[j])]
           f == [j \in Sid |-> Entries(J[j])]
           b == [j \in Sid |-> Bytes(I[j])]
           c == [j \in Sid |-> Bytes(J[j])]
<1>1. /\ K = {j \in Sid : IsLive(I[j])} /\ K \in SUBSET Sid /\ IsFiniteSet(K)
      /\ i \notin K /\ IsFiniteSet(K \cup {i})
  <2>1. K = {j \in Sid : IsLive(I[j])} /\ K \in SUBSET Sid /\ i \notin K
    BY DEF Known
  <2>2. IsFiniteSet(K)
    BY DEF Fits
  <2> QED BY <2>1, <2>2, FS_AddElement
<1>2. /\ MapThenSumSet(LAMBDA j : Entries(I[j]), K) + Entries(x) <= Capacity
      /\ MapThenSumSet(LAMBDA j : Bytes(I[j]), K) + Bytes(x) <= MaxBytes
  <2> HIDE DEF K
  <2> QED BY <1>1 DEF Admits
<1>3. \A j \in Sid : J[j] = IF j = i THEN x ELSE I[j]
  OBVIOUS
<1> HIDE DEF K, J
<1>4. SumBy(e, K) + Entries(x) <= Capacity /\ SumBy(b, K) + Bytes(x) <= MaxBytes
  <2>1. /\ MapThenSumSet(LAMBDA j : Entries(I[j]), K) = SumBy(e, K)
        /\ MapThenSumSet(LAMBDA j : Bytes(I[j]), K) = SumBy(b, K)
    BY <1>1, EntriesAddUp, BytesAddUp
  <2> QED BY <1>2, <2>1
<1>5. Known(J) = K \cup {i}
  BY <1>3 DEF Known, K
<1>6. ASSUME NEW j \in Sid
      PROVE  /\ e[j] \in Int /\ b[j] \in Int /\ f[j] \in Int /\ c[j] \in Int
             /\ j # i => f[j] = e[j] /\ c[j] = b[j]
             /\ j = i => f[j] = Entries(x) /\ c[j] = Bytes(x)
  <2>1. I[j] \in InventoryRecord /\ J[j] \in InventoryRecord
    BY <1>3
  <2>2. /\ Entries(I[j]) \in Nat /\ Bytes(I[j]) \in Nat
        /\ Entries(J[j]) \in Nat /\ Bytes(J[j]) \in Nat
    BY <2>1, StageCounts
  <2> QED BY <1>3, <2>2
<1> HIDE DEF e, f, b, c
<1>7. SumBy(f, K \cup {i}) = SumBy(f, K) + f[i] /\ SumBy(c, K \cup {i}) = SumBy(c, K) + c[i]
  <2>1. (\A j \in K \cup {i} : f[j] \in Int) /\ (\A j \in K \cup {i} : c[j] \in Int)
    BY <1>1, <1>6
  <2> QED BY ONLY <1>1, <2>1, SumAdd
<1>8. SumBy(e, K) = SumBy(f, K) /\ SumBy(b, K) = SumBy(c, K)
  <2>1. (\A j \in K : e[j] \in Int /\ f[j] = e[j]) /\ (\A j \in K : b[j] \in Int /\ c[j] = b[j])
    BY <1>1, <1>6
  <2> QED BY ONLY <1>1, <2>1, SumEqual
<1>9. SumBy(f, K \cup {i}) <= Capacity /\ SumBy(c, K \cup {i}) <= MaxBytes
  BY <1>4, <1>6, <1>7, <1>8
<1> QED BY <1>1, <1>5, <1>9 DEF Fits, f, c, J

\* Its correction session starts empty, with the attempts it was admitted with.
LEMMA RegisterAdmits ==
  ASSUME NEW I, NEW r, Admitted(I, r), NEW i \in Sid, NEW x \in InventoryRecord,
         Proper(x), x.known, x.prepared = {}, ~I[i].known, i \notin DOMAIN r.sessions,
         \A j \in Sid : IsLive(I[j]) <=> I[j].known, Admits(I, x)
  PROVE  Admitted([I EXCEPT ![i] = x], Register(r, i, Grant(x)))
<1> DEFINE J == [I EXCEPT ![i] = x]
           q == Register(r, i, Grant(x))
           new == [expected |-> Grant(x), burned |-> {}, idle |-> 0, authorized |-> FALSE]
<1>1. I \in [Sid -> InventoryRecord] /\ WellKept(r) /\ Fits(I)
  BY DEF Admitted
<1>2. /\ J \in [Sid -> InventoryRecord]
      /\ \A j \in Sid : J[j] = IF j = i THEN x ELSE I[j]
  BY <1>1
<1>3. /\ q.sessions = [t \in DOMAIN r.sessions \cup {i} |-> IF t = i THEN new ELSE r.sessions[t]]
      /\ q.entries = r.entries
  BY DEF Register, Store
<1>4. Fits(J)
  BY <1>1, AdmittedFits
<1>5. WellKept(q)
  <2>1. Grant(x) \in Grants
    BY DEF Grant, Grants
  <2>2. IsStoreOf(Grants, q) /\ IsSound(q)
    BY <1>1, <2>1, RegisterEvolves DEF WellKept
  <2>3. Exact(q)
    BY <1>1, RegisterFrees DEF WellKept, Frees
  <2> QED BY <2>2, <2>3 DEF WellKept
<1>6. \A j \in Sid : Proper(J[j])
  BY <1>2 DEF Admitted
<1>7. DOMAIN q.sessions \subseteq Known(J)
  BY <1>2, <1>3 DEF Admitted, Known
<1>8. new.expected = Grant(x) /\ new.burned = {}
  OBVIOUS
<1> HIDE DEF J, q, new
<1>9. SessionFits(i, x, q)
  <2>1. q.sessions[i].expected = Grant(x)
    BY <1>3, <1>8
  <2>2. \A k \in DOMAIN q.entries : k[1] # i
    BY <1>1, <1>3 DEF WellKept, IsSound, IsOpen
  <2>3. \A a \in Attempt : ~HadEntry(q, <<i, a>>)
    BY <1>3, <1>8, <2>2 DEF HadEntry, IsVoid
  <2>4. ActiveOf(q, i) = {}
    BY <2>2 DEF ActiveOf
  <2>5. SumBy(Sizes(q), ActiveOf(q, i)) = 0
    BY <2>4, FS_EmptySet, SumStep
  <2>6. Paid(x) \in Nat
    BY StageCounts
  <2> QED BY <2>1, <2>3, <2>5, <2>6 DEF SessionFits
<1>10. ASSUME NEW j \in DOMAIN r.sessions  PROVE SessionFits(j, I[j], q)
  <2>1. SessionFits(j, I[j], r) /\ j # i
    BY DEF Admitted
  <2>2. q.sessions[j] = r.sessions[j]
    BY <1>3, <2>1
  <2>3. \A a : HadEntry(q, <<j, a>>) <=> HadEntry(r, <<j, a>>)
    BY <1>3, <2>2 DEF HadEntry, IsVoid
  <2>4. ActiveOf(q, j) = ActiveOf(r, j) /\ Sizes(q) = Sizes(r) /\ \A k : Fresh(q, k) <=> Fresh(r, k)
    BY <1>3 DEF ActiveOf, Sizes, Fresh
  <2> QED BY <2>1, <2>2, <2>3, <2>4 DEF SessionFits
<1>11. \A j \in DOMAIN q.sessions : SessionFits(j, J[j], q)
  <2> TAKE j \in DOMAIN q.sessions
  <2>1. j \in Sid /\ (j = i \/ j \in DOMAIN r.sessions)
    BY <1>3, <1>7 DEF Known
  <2>2. CASE j = i
    BY <1>2, <1>9, <2>2
  <2>3. CASE j # i
    BY <1>2, <1>10, <2>1, <2>3
  <2> QED BY <2>2, <2>3
<1> QED BY <1>2, <1>4, <1>5, <1>6, <1>7, <1>11 DEF Admitted, J, q

\* create_prepared_inventory admits against the inventories that are live, which
\* after its cleanup are all that are known.
LEMMA CreateInventoryAdmits ==
  ASSUME AInv, NEW i \in Sid, NEW rows \in 1..MaxRows,
         NEW stage_rows \in [Stage -> 1..MaxRows], NEW demand \in BOOLEAN,
         CreateInventory(i, rows, stage_rows, demand)
  PROVE  Admitted(inv', rdv')
<1> DEFINE I == CleanInv(TRUE)
           x == [NoInventory EXCEPT !.st = "live", !.known = TRUE, !.rows = rows,
                                    !.stage_rows = stage_rows, !.demand = demand]
           R == CleanRdv(TRUE)
           r == Cleanup(R)
<1>1. Settled(I, R) /\ Settled(I, r)
  BY CleanSettles, CleanTwiceSettles
<1>2. Admitted(I, R) /\ Admitted(I, r)
  BY <1>1, SettledKeeps DEF AInv
<1>3. x \in InventoryRecord /\ x.known /\ x.prepared = {} /\ Proper(x)
  <2>1. x \in InventoryRecord
    BY CreatedInventory
  <2>2. /\ x.known /\ x.prepared = {} /\ x.st = "live" /\ x.stage_rows = stage_rows
        /\ x.next = 0 /\ x.rows = rows /\ ~x.ready
    BY DEF NoInventory
  <2> HIDE DEF x
  <2>3. x.next <= x.rows
    BY <2>2, GridAssumption
  <2> QED BY <2>1, <2>2, <2>3 DEF Proper
<1>4. /\ inv[i].st = "none"
      /\ \/ rdv' = Register(r, i, Grant(x)) /\ inv' = [I EXCEPT ![i] = x]
            /\ i \notin DOMAIN r.sessions /\ Admits(I, x)
         \/ rdv' = r /\ inv' = I
         \/ rdv' = R /\ inv' = I
  BY DEF CreateInventory, CanRegister, Grant
<1>5. \A j \in Sid : IsLive(I[j]) <=> I[j].known
  <2>1. ASSUME NEW j \in Sid, I[j].known  PROVE I[j].st = "live"
    <3>1. j \notin DueInventories(TRUE) /\ I[j] = inv[j]
      BY <2>1 DEF CleanInv, NoInventory
    <3> QED BY <2>1, <3>1 DEF DueInventories, IsDue
  <2> QED BY <2>1 DEF IsLive
<1>6. ~I[i].known
  <2>1. ~inv[i].known
    BY <1>4 DEF AInv, Admitted, Proper
  <2>2. I[i].known => inv[i].known
    BY <1>1 DEF Settled, Follows
  <2> QED BY <2>1, <2>2
<1> HIDE DEF I, x, R, r
<1>7. CASE /\ rdv' = Register(r, i, Grant(x)) /\ inv' = [I EXCEPT ![i] = x]
           /\ i \notin DOMAIN r.sessions /\ Admits(I, x)
  BY <1>2, <1>3, <1>5, <1>6, <1>7, RegisterAdmits
<1> QED BY <1>2, <1>4, <1>7

-----------------------------------------------------------------------------
(* accept_prepared_correction.                                              *)

\* What preload_bulk leaves of a store.
LEMMA PreloadLeaves ==
  ASSUME NEW r, NEW i \in DOMAIN r.sessions, IsStoreOf(Grants, r), NEW A, NEW payload
  PROVE  LET q == Preload(r, i, A, OneMeta, payload) IN
         /\ DOMAIN q.sessions = DOMAIN r.sessions
         /\ \A s \in DOMAIN r.sessions : /\ q.sessions[s].expected = r.sessions[s].expected
                                         /\ q.sessions[s].burned = r.sessions[s].burned
         /\ DOMAIN q.entries = DOMAIN r.entries \cup ({i} \X A)
         /\ \A k \in DOMAIN r.entries \ ({i} \X A) : q.entries[k] = r.entries[k]
         /\ \A a \in A : Fresh(q, <<i, a>>)
<1> DEFINE K == {i} \X A
           e(k) == NewEntry(OneMeta, RowBytes(A, k[2], payload), TRUE)
           q == Preload(r, i, A, OneMeta, payload)
           new == [r.sessions[i] EXCEPT !.idle = 0]
<1>1. /\ q.entries = [k \in DOMAIN r.entries \cup K |-> IF k \in K THEN e(k) ELSE r.entries[k]]
      /\ q.sessions = [r.sessions EXCEPT ![i] = new]
  BY DEF Preload, AddEntries, Touch, UpdateSession, Store
<1>2. \A k : e(k).correction = OneMeta /\ e(k).holder = NoHolder /\ e(k).preloaded
  BY DEF NewEntry
<1>3. new.expected = r.sessions[i].expected /\ new.burned = r.sessions[i].burned
  BY DEF IsStoreOf, SessionIn
<1> HIDE DEF e, new, q
<1>4. /\ DOMAIN q.sessions = DOMAIN r.sessions
      /\ \A s \in DOMAIN r.sessions : /\ q.sessions[s].expected = r.sessions[s].expected
                                      /\ q.sessions[s].burned = r.sessions[s].burned
  BY <1>1, <1>3 DEF IsStoreOf
<1>5. \A a \in A : Fresh(q, <<i, a>>)
  BY <1>1, <1>2 DEF Fresh
<1> HIDE DEF K
<1> QED BY <1>1, <1>4, <1>5 DEF q, K

\* A correction session whose entries are left alone fits as before.
LEMMA OthersFit ==
  ASSUME NEW r, NEW q, NEW x, WellKept(r), WellKept(q),
         NEW j \in DOMAIN r.sessions, j \in DOMAIN q.sessions,
         q.sessions[j].expected = r.sessions[j].expected,
         q.sessions[j].burned = r.sessions[j].burned,
         ActiveOf(q, j) = ActiveOf(r, j),
         \A k \in ActiveOf(r, j) : q.entries[k] = r.entries[k],
         SessionFits(j, x, r)
  PROVE  SessionFits(j, x, q)
<1>1. ASSUME NEW a
      PROVE  /\ <<j, a>> \in DOMAIN q.entries <=> <<j, a>> \in DOMAIN r.entries
             /\ <<j, a>> \in DOMAIN r.entries => q.entries[<<j, a>>] = r.entries[<<j, a>>]
  <2>1. \A s : <<j, a>> \in DOMAIN s.entries <=> <<j, a>> \in ActiveOf(s, j)
    BY DEF ActiveOf
  <2> QED BY <2>1
<1>2. \A a : HadEntry(q, <<j, a>>) <=> HadEntry(r, <<j, a>>)
  BY <1>1 DEF HadEntry, IsVoid
<1>3. \A a : Fresh(r, <<j, a>>) => Fresh(q, <<j, a>>)
  BY <1>1 DEF Fresh
<1>4. SumBy(Sizes(q), ActiveOf(q, j)) = SumBy(Sizes(r), ActiveOf(r, j))
  <2>1. IsFiniteSet(ActiveOf(r, j)) /\ ActiveOf(r, j) \in SUBSET DOMAIN r.entries
        /\ ActiveOf(q, j) \in SUBSET DOMAIN q.entries
    <3>1. ActiveOf(r, j) \in SUBSET DOMAIN r.entries /\ ActiveOf(q, j) \in SUBSET DOMAIN q.entries
      BY DEF ActiveOf
    <3>2. IsFiniteSet(DOMAIN r.entries)
      BY DEF WellKept, Exact
    <3> QED BY <3>1, <3>2, FS_Subset
  <2>2. \A k \in ActiveOf(r, j) : Sizes(r)[k] \in Int /\ Sizes(q)[k] = Sizes(r)[k]
    <3>1. \A k \in DOMAIN r.entries : Sizes(r)[k] \in Int
      BY ExactIsNat DEF WellKept
    <3> QED BY <2>1, <3>1 DEF Sizes
  <2> QED BY <2>1, <2>2, SumEqual
<1> QED BY <1>2, <1>3, <1>4 DEF SessionFits

\* An accepted stage takes what the inventory was admitted with.
LEMMA PreloadAdmits ==
  ASSUME NEW I, NEW r, Admitted(I, r), NEW i \in Sid, NEW g \in Stage, g \notin I[i].prepared,
         IsLive(I[i]), CanPreload(r, i, Attempts(I[i], g), OneMeta, Frame(I[i], g)),
         NEW y, y = [I[i] EXCEPT !.idle = 0, !.prepared = I[i].prepared \cup {g}]
  PROVE  Admitted([I EXCEPT ![i] = y],
                  Preload(r, i, Attempts(I[i], g), OneMeta, Frame(I[i], g)))
<1> DEFINE x == I[i]
           J == [I EXCEPT ![i] = y]
           A == Attempts(x, g)
           K == {i} \X A
           payload == Frame(x, g)
           q == Preload(r, i, A, OneMeta, payload)
<1>1. I \in [Sid -> InventoryRecord] /\ WellKept(r) /\ Fits(I) /\ x \in InventoryRecord
  BY DEF Admitted
<1>2. /\ y \in InventoryRecord /\ y.st = x.st /\ y.known = x.known /\ y.rows = x.rows
      /\ y.stage_rows = x.stage_rows /\ y.prepared = x.prepared \cup {g}
      /\ y.next = x.next /\ y.ready = x.ready
  <2>1. x.prepared \cup {g} \in SUBSET Stage
    BY <1>1 DEF InventoryRecord
  <2>2. y \in InventoryRecord
    BY <1>1, <2>1, InventoryUpdates
  <2> QED BY <1>1, <2>2 DEF InventoryRecord
<1>3. Proper(x) /\ x.known /\ x.st = "live" /\ x.stage_rows \in [Stage -> 1..MaxRows]
  BY DEF Admitted, Proper, IsLive
<1>4. Proper(y)
  BY <1>2, <1>3 DEF Proper
<1>5. /\ J \in [Sid -> InventoryRecord]
      /\ \A j \in Sid : J[j] = IF j = i THEN y ELSE I[j]
  BY <1>1, <1>2
<1>6. A \in SUBSET Attempt /\ A # {} /\ payload \in Nat
  <2>1. x.stage_rows[g] \in 1..MaxRows
    BY <1>3
  <2>2. 0 \in 0..(x.stage_rows[g] - 1)
    BY <2>1, GridAssumption
  <2>3. AttemptOf(g, 0) \in Attempts(x, g)
    BY <2>2 DEF Attempts
  <2> HIDE DEF x
  <2> QED BY <1>1, <2>3, GridAttempts, StageCounts
<1>7. i \in DOMAIN r.sessions /\ K \cap DOMAIN r.entries = {}
  BY DEF CanPreload, IsOpen
<1>8. Fits(J)
  <2>1. \A j \in Sid : J[j].known => I[j].known /\ J[j].stage_rows = I[j].stage_rows
    BY <1>2, <1>5
  <2> HIDE DEF J, x
  <2> QED BY <1>1, <1>5, <2>1, FewerFit
<1>9. /\ WellKept(q) /\ SumBy(Sizes(q), K) = payload
  <2> HIDE DEF A, payload
  <2>1. CanPreload(r, i, A, OneMeta, payload) /\ OneMeta \in Meta
    BY GridAssumption DEF A, payload
  <2>2. Evolves(Grants, r, q)
    BY <1>1, <1>6, <2>1, PreloadEvolves DEF WellKept
  <2>3. Exact(q) /\ SumBy(Sizes(q), K) = payload
    BY <1>1, <1>6, <2>1, PreloadExact DEF WellKept
  <2> QED BY <2>2, <2>3 DEF WellKept, Evolves
<1>10. /\ DOMAIN q.sessions = DOMAIN r.sessions
       /\ \A s \in DOMAIN r.sessions : /\ q.sessions[s].expected = r.sessions[s].expected
                                       /\ q.sessions[s].burned = r.sessions[s].burned
       /\ DOMAIN q.entries = DOMAIN r.entries \cup K
       /\ \A k \in DOMAIN r.entries \ K : q.entries[k] = r.entries[k]
       /\ \A a \in A : Fresh(q, <<i, a>>)
  <2> HIDE DEF A, payload
  <2> QED BY <1>1, <1>7, PreloadLeaves DEF WellKept
<1>11. DOMAIN q.sessions \subseteq Known(J)
  <2> HIDE DEF q, J
  <2> QED BY <1>2, <1>3, <1>5, <1>10 DEF Admitted, Known
<1> HIDE DEF q, J
<1>12. ASSUME NEW j \in DOMAIN r.sessions, j # i  PROVE SessionFits(j, I[j], q)
  <2>1. SessionFits(j, I[j], r)
    BY DEF Admitted
  <2>2. \A k \in K : k[1] # j
    BY <1>12
  <2> HIDE DEF K
  <2>3. ActiveOf(q, j) = ActiveOf(r, j) /\ \A k \in ActiveOf(r, j) : q.entries[k] = r.entries[k]
    BY <1>7, <1>10, <2>2 DEF ActiveOf
  <2> QED BY <1>1, <1>9, <1>10, <2>1, <2>3, OthersFit
<1>13. SessionFits(i, y, q)
  <2>1. SessionFits(i, x, r)
    BY <1>7 DEF Admitted
  <2>2. q.sessions[i].expected = Grant(y)
    <3> HIDE DEF x
    <3> QED BY <1>1, <1>2, <1>7, <1>10, <2>1, SameGrant DEF SessionFits
  <2>3. ASSUME NEW a \in Attempt, HadEntry(q, <<i, a>>)
        PROVE  \E h \in y.prepared : a \in Attempts(y, h)
    <3>1. \A h : Attempts(y, h) = Attempts(x, h)
      BY <1>2 DEF Attempts
    <3>2. CASE a \in A
      BY <1>2, <3>1, <3>2
    <3>3. CASE a \notin A
      <4>1. <<i, a>> \notin K
        BY <3>3
      <4> HIDE DEF K
      <4>2. HadEntry(r, <<i, a>>)
        BY <1>7, <1>10, <2>3, <4>1 DEF HadEntry, IsVoid
      <4>3. \E h \in x.prepared : a \in Attempts(x, h)
        BY <2>1, <4>2 DEF SessionFits
      <4> QED BY <1>2, <3>1, <4>3
    <3> QED BY <3>2, <3>3
  <2>4. SumBy(Sizes(q), ActiveOf(q, i)) <= Paid(y)
    <3> DEFINE S == ActiveOf(r, i)
               T == ActiveOf(q, i)
               f == Sizes(q)
    <3>1. T = S \cup K /\ S \cap K = {} /\ T \in SUBSET DOMAIN q.entries /\ S \in SUBSET DOMAIN r.entries
      BY <1>7, <1>10 DEF ActiveOf
    <3> HIDE DEF K
    <3>2. IsFiniteSet(T) /\ IsFiniteSet(S) /\ K \in SUBSET T /\ T \ K = S
      <4>1. IsFiniteSet(DOMAIN q.entries) /\ IsFiniteSet(DOMAIN r.entries)
        BY <1>1, <1>9 DEF WellKept, Exact
      <4>2. IsFiniteSet(T) /\ IsFiniteSet(S)
        BY <3>1, <4>1, FS_Subset
      <4> HIDE DEF S, T
      <4> QED BY <3>1, <4>2
    <3>3. /\ \A k \in DOMAIN q.entries : f[k] \in Int
          /\ \A k \in DOMAIN r.entries : Sizes(r)[k] \in Int
      BY <1>1, <1>9, ExactIsNat DEF WellKept
    <3>4. \A k \in S : f[k] = Sizes(r)[k]
      BY <1>7, <1>10, <3>1 DEF Sizes
    <3> HIDE DEF S, T, f
    <3>5. (\A k \in T : f[k] \in Int) /\ \A k \in S : Sizes(r)[k] \in Int /\ f[k] = Sizes(r)[k]
      BY <3>1, <3>3, <3>4
    <3>6. SumBy(f, T) = SumBy(f, K) + SumBy(f, S)
      BY <3>2, <3>5, SumSplit
    <3>7. SumBy(Sizes(r), S) = SumBy(f, S) /\ SumBy(f, S) \in Int
      BY <3>2, <3>5, SumEqual, SumIsInt
    <3>8. SumBy(Sizes(r), S) <= Paid(x) /\ SumBy(f, K) = payload
      BY <1>9, <2>1 DEF SessionFits, S, f
    <3>9. Paid(y) = Paid(x) + payload /\ Paid(x) \in Int /\ payload \in Int
      <4>1. Frames(y) = Frames(x)
        BY <1>1, <1>2, SameGrant
      <4>2. Paid(x) + Frame(x, g) = SumBy(Frames(x), x.prepared \cup {g})
        BY <1>1, StageIsPaid
      <4>3. Paid(x) \in Nat
        BY <1>1, StageCounts
      <4> QED BY <1>2, <1>6, <4>1, <4>2, <4>3 DEF Paid
    <3> HIDE DEF payload
    <3>10. SumBy(f, T) <= Paid(y)
      BY <3>6, <3>7, <3>8, <3>9
    <3> QED BY <3>10 DEF f, T
  <2>5. ASSUME NEW h \in y.prepared, NEW row \in Row, y.next <= row, row < y.stage_rows[h]
        PROVE  Fresh(q, <<i, AttemptOf(h, row)>>)
    <3> DEFINE k == <<i, AttemptOf(h, row)>>
    <3>1. CASE h = g
      <4>1. row \in 0..(x.stage_rows[g] - 1)
        <5>1. x.stage_rows[g] \in Int /\ row \in Int /\ 0 <= row /\ row < x.stage_rows[g]
          BY <1>2, <1>3, <2>5, <3>1, GridAssumption DEF Row
        <5> QED BY <5>1
      <4>2. AttemptOf(h, row) \in A
        BY <3>1, <4>1 DEF Attempts
      <4> QED BY <1>10, <4>2
    <3>2. CASE h # g
      <4>1. Fresh(r, k)
        BY <1>2, <1>3, <2>1, <2>5, <3>2 DEF SessionFits, IsLive
      <4> HIDE DEF k, K
      <4>2. k \in DOMAIN r.entries \ K
        BY <1>7, <4>1 DEF Fresh
      <4>3. Fresh(q, k)
        BY <1>10, <4>1, <4>2 DEF Fresh
      <4> QED BY <4>3 DEF k
    <3> QED BY <3>1, <3>2
  <2> QED BY <2>2, <2>3, <2>4, <2>5 DEF SessionFits
<1>14. \A j \in DOMAIN q.sessions : SessionFits(j, J[j], q)
  <2> TAKE j \in DOMAIN q.sessions
  <2>1. j \in Sid /\ j \in DOMAIN r.sessions
    BY <1>10, <1>11 DEF Known
  <2>2. CASE j = i
    BY <1>5, <1>13, <2>2
  <2>3. CASE j # i
    BY <1>5, <1>12, <2>1, <2>3
  <2> QED BY <2>2, <2>3
<1>15. \A j \in Sid : Proper(J[j])
  BY <1>4, <1>5 DEF Admitted
<1>16. Admitted(J, q)
  BY <1>5, <1>8, <1>9, <1>11, <1>14, <1>15 DEF Admitted
<1> QED BY <1>16 DEF J, q

\* accept_prepared_correction loads one stage, or settles.
LEMMA AcceptCorrectionAdmits ==
  ASSUME AInv, NEW i \in Sid, NEW g \in Stage, AcceptCorrection(i, g)
  PROVE  Admitted(inv', rdv')
<1> DEFINE I == CleanInv(FALSE)
           R == CleanRdv(FALSE)
           r == Cleanup(R)
           A == Attempts(I[i], g)
           payload == Frame(I[i], g)
           accepted == CanPreload(r, i, A, OneMeta, payload)
           new == g \notin I[i].prepared
           P == I[i].prepared \cup (IF new /\ accepted THEN {g} ELSE {})
           x == [I[i] EXCEPT !.idle = 0, !.prepared = P]
           y == [I[i] EXCEPT !.idle = 0, !.prepared = I[i].prepared \cup {g}]
<1>1. Settled(I, R) /\ Settled(I, r)
  BY CleanSettles, CleanTwiceSettles
<1>2. /\ inv' = [I EXCEPT ![i] = IF IsLive(I[i]) THEN x ELSE I[i]]
      /\ rdv' = IF ~IsLive(I[i]) \/ ~new THEN R
                ELSE IF accepted THEN Preload(r, i, A, OneMeta, payload) ELSE r
  BY DEF AcceptCorrection
<1> HIDE DEF I, R, r
<1>3. I \in [Sid -> InventoryRecord] /\ I[i] \in InventoryRecord
  BY <1>1 DEF Settled
<1>4. /\ Settled([I EXCEPT ![i].idle = 0], R) /\ Settled([I EXCEPT ![i].idle = 0], r)
      /\ Admitted(I, r)
  BY <1>1, TouchSettles, SettledKeeps DEF AInv
<1>5. CASE IsLive(I[i]) /\ new /\ accepted
  <2>1. P = I[i].prepared \cup {g}
    BY <1>5
  <2>2. inv' = [I EXCEPT ![i] = y] /\ rdv' = Preload(r, i, A, OneMeta, payload)
    <3> HIDE DEF P, new, accepted, A, payload
    <3> QED BY <1>2, <1>5, <2>1
  <2> QED BY <1>4, <1>5, <2>2, PreloadAdmits
<1>6. CASE IsLive(I[i]) /\ ~(new /\ accepted)
  <2>1. P = I[i].prepared
    BY <1>6
  <2> HIDE DEF P, new, accepted
  <2>2. x = [I[i] EXCEPT !.idle = 0]
    BY <1>3, <2>1 DEF InventoryRecord
  <2>3. inv' = [I EXCEPT ![i].idle = 0] /\ rdv' \in {r, R}
    BY <1>2, <1>3, <1>6, <2>2
  <2> QED BY <1>4, <2>3, SettledKeeps DEF AInv
<1>7. CASE ~IsLive(I[i])
  <2>1. inv' = I /\ rdv' = R
    BY <1>2, <1>3, <1>7
  <2> QED BY <1>1, <2>1, SettledKeeps DEF AInv
<1> QED BY <1>5, <1>6, <1>7

-----------------------------------------------------------------------------
(* The invariant is inductive.                                              *)

\* Every step but the two that take settles.
LEMMA StepsAdmit ==
  ASSUME AInv, [Next]_vars
  PROVE  Admitted(inv', rdv')
<1>1. ASSUME Settled(inv', rdv')  PROVE Admitted(inv', rdv')
  BY <1>1, SettledKeeps DEF AInv
<1>2. ASSUME NEW i \in Sid, InventoryStep(i)  PROVE Admitted(inv', rdv')
  BY <1>1, <1>2, CreateInventoryAdmits, AcceptCorrectionAdmits, AuthorizeSettles, SealSettles,
     CancelSettles DEF InventoryStep
<1>3. ASSUME NEW e \in Ses, SessionStep(e)  PROVE Admitted(inv', rdv')
  BY <1>1, <1>3, CreateSessionSettles, SessionsSettle DEF SessionStep, BeginComplete
<1>4. ASSUME NEW p \in Holder, RequestStep(p)  PROVE Admitted(inv', rdv')
  <2>1. ASSUME NEW e \in Ses, BeginRequest(p, e)  PROVE Settled(inv', rdv')
    BY <2>1, SessionsSettle DEF BeginRequest
  <2>2. ASSUME NEW g \in Stage, NEW A \in SUBSET StageAttempts(g),
               NEW kind \in {"compact", "raw"}, SubmitBatch(p, kind, A) \/ SubmitMulti(p, A)
        PROVE  Settled(inv', rdv')
    <3>1. A \in SUBSET Attempt
      BY StageRowsAreAttempts
    <3> QED BY <2>2, <3>1, SubmitBatchSettles, SubmitMultiSettles
  <2>3. ASSUME RequestRuns(p) \/ Disconnect(p)  PROVE Settled(inv', rdv')
    BY <2>3, RequestRunsSettles
  <2> QED BY <1>1, <1>4, <2>1, <2>2, <2>3 DEF RequestStep
<1>5. CASE Tick
  BY <1>1, <1>5, TickSettles
<1>6. CASE UNCHANGED vars
  BY <1>6 DEF vars, AInv
<1> QED BY <1>2, <1>3, <1>4, <1>5, <1>6 DEF Next

\* authorize handlers are those of inventories.
LEMMA AuthorizingTyped ==
  ASSUME AInv, [Next]_vars
  PROVE  authorizing' \subseteq Sid
<1>1. ASSUME NEW i \in Sid, InventoryStep(i)  PROVE authorizing' \subseteq authorizing \cup {i}
  BY <1>1 DEF InventoryStep, CreateInventory, BeginAuthorize, EndAuthorize, AcceptCorrection,
     SealInventory, GetInventory, CancelInventory, CancelInventoryAsSession,
     CompleteInventoryAsSession
<1>2. ASSUME NEW e \in Ses, SessionStep(e)  PROVE authorizing' = authorizing
  BY <1>2 DEF SessionStep, CreateSession, CancelSession, CancelResponse, BeginComplete, EndComplete
<1>3. ASSUME NEW p \in Holder, RequestStep(p)  PROVE authorizing' = authorizing
  BY <1>3 DEF RequestStep, BeginRequest, SubmitBatch, SubmitMulti, RequestRuns, TakeRow,
     TimeOutRow, EngineAnswersMulti, EngineAnswers, GiveUp, GatherEnds, Disconnect
<1>4. CASE Tick \/ UNCHANGED vars
  BY <1>4 DEF Tick, vars, AInv
<1> QED BY <1>1, <1>2, <1>3, <1>4 DEF Next, AInv

\* The invariant holds at first, when nothing is known and nothing is taken.
LEMMA InitAdmits == Init => AInv
<1> SUFFICES ASSUME Init  PROVE AInv
  OBVIOUS
<1>1. inv = [i \in Sid |-> NoInventory] /\ rdv = Empty /\ authorizing = {}
  BY DEF Init
<1>2. NoInventory \in InventoryRecord /\ Proper(NoInventory)
  <2>1. ~NoInventory.known /\ NoInventory.next = 0 /\ NoInventory.rows = 0
    BY DEF NoInventory
  <2> QED BY <2>1, NoInventoryType DEF Proper
<1>3. SInv
  BY InitKeeps
<1>4. WellKept(rdv)
  <2>1. rdv.bytes = 0 /\ DOMAIN rdv.entries = {}
    BY <1>1 DEF Empty, Store
  <2>2. SumBy(Sizes(rdv), {}) = 0
    BY FS_EmptySet, SumStep
  <2> QED BY <1>3, <2>1, <2>2, FS_EmptySet DEF WellKept, Exact, SInv, PInv
<1>5. Fits(inv)
  <2>1. Known(inv) = {}
    BY <1>1 DEF Known, NoInventory
  <2>2. /\ SumBy([i \in Sid |-> Entries(inv[i])], {}) = 0
        /\ SumBy([i \in Sid |-> Bytes(inv[i])], {}) = 0
    BY FS_EmptySet, SumStep
  <2> QED BY <2>1, <2>2, FS_EmptySet, LimitsArePositive DEF Fits
<1>6. DOMAIN rdv.sessions = {}
  BY <1>1 DEF Empty, Store
<1> QED BY <1>1, <1>2, <1>3, <1>4, <1>5, <1>6 DEF AInv, Admitted

\* The invariant of the proofs is one of the specification.
LEMMA AlwaysAInv == Spec => []AInv
<1>1. AInv /\ [Next]_vars => AInv'
  <2> SUFFICES ASSUME AInv, [Next]_vars  PROVE AInv'
    OBVIOUS
  <2>1. SInv'
    BY StepsKeep DEF AInv
  <2> QED BY <2>1, StepsAdmit, AuthorizingTyped DEF AInv
<1> QED BY InitAdmits, <1>1, PTL DEF Spec

-----------------------------------------------------------------------------
(* What the invariant means for the rendezvous as a whole.                  *)

\* A correction session counts no more attempts than the rows of the accepted
\* stages, burned ones included.
LEMMA SessionCounts ==
  ASSUME Admitted(inv, rdv), NEW i \in DOMAIN rdv.sessions
  PROVE  /\ Cardinality(rdv.sessions[i].burned) + Cardinality(ActiveOf(rdv, i)) <= Rows(inv[i])
         /\ Cardinality(rdv.sessions[i].burned) \in Nat /\ Cardinality(ActiveOf(rdv, i)) \in Nat
<1> DEFINE x == inv[i]
           X == rdv.sessions[i].burned
           B == {a \in Attempt : <<i, a>> \in DOMAIN rdv.entries}
<1>1. i \in Sid /\ x \in InventoryRecord /\ SessionFits(i, x, rdv) /\ WellKept(rdv)
  BY DEF Admitted, Known
<1>2. X \in SUBSET Attempt /\ B \in SUBSET Attempt /\ DOMAIN rdv.entries \subseteq Key
  BY <1>1 DEF WellKept, IsStoreOf, SessionIn
<1>3. \A a \in X \cup B : HadEntry(rdv, <<i, a>>)
  BY DEF HadEntry, IsVoid
<1>4. X \cap B = {}
  BY <1>1 DEF WellKept, IsSound
<1>5. ActiveOf(rdv, i) = {i} \X B
  BY <1>2 DEF ActiveOf, Key
<1> HIDE DEF X, B
<1>6. \A a \in X \cup B : \E g \in x.prepared : a \in Attempts(x, g)
  BY <1>1, <1>2, <1>3 DEF SessionFits
<1>7. x.prepared \in SUBSET Stage /\ X \cup B \in SUBSET Attempt
  BY <1>1, <1>2 DEF InventoryRecord
<1> HIDE DEF x
<1>8. IsFiniteSet(X \cup B) /\ Cardinality(X \cup B) <= SumBy(x.stage_rows, x.prepared)
  BY <1>1, <1>6, <1>7, AttemptsCounted
<1>9. IsFiniteSet(X) /\ IsFiniteSet(B)
  <2>1. X \in SUBSET (X \cup B) /\ B \in SUBSET (X \cup B)
    OBVIOUS
  <2> QED BY <1>8, <2>1, FS_Subset
<1>10. Cardinality(X \cup B) = Cardinality(X) + Cardinality(B)
  <2>1. Cardinality(X \cup B) = Cardinality(X) + Cardinality(B) - Cardinality(X \cap B)
    BY <1>9, FS_Union
  <2>2. Cardinality(X \cap B) = 0 /\ Cardinality(X) \in Nat /\ Cardinality(B) \in Nat
    BY <1>4, <1>9, FS_EmptySet, FS_CardinalityType
  <2> QED BY <2>1, <2>2
<1>11. Cardinality(ActiveOf(rdv, i)) = Cardinality(B) /\ Cardinality(B) \in Nat /\ Cardinality(X) \in Nat
  <2>1. Cardinality({i} \X B) = Cardinality({i}) * Cardinality(B)
    BY <1>9, FS_Singleton, FS_Product
  <2>2. Cardinality({i}) = 1 /\ Cardinality(B) \in Nat /\ Cardinality(X) \in Nat
    BY <1>9, FS_Singleton, FS_CardinalityType
  <2> QED BY <1>5, <2>1, <2>2
<1> QED BY <1>8, <1>10, <1>11 DEF Rows, X, x

\* The entries of the rendezvous are those of its sessions, so their number and
\* their bytes are sums over the known inventories.
LEMMA StoreIsShared ==
  ASSUME Admitted(inv, rdv)
  PROVE  /\ IsFiniteSet(Known(inv)) /\ IsFiniteSet(DOMAIN rdv.entries)
         /\ Cardinality(DOMAIN rdv.entries)
              = SumBy([i \in Known(inv) |-> Cardinality(ActiveOf(rdv, i))], Known(inv))
         /\ rdv.bytes
              = SumBy([i \in Known(inv) |-> SumBy(Sizes(rdv), ActiveOf(rdv, i))], Known(inv))
<1> DEFINE D == DOMAIN rdv.entries
           K == Known(inv)
           p == [k \in D |-> k[1]]
           ones == [k \in D |-> 1]
<1>1. WellKept(rdv) /\ IsFiniteSet(D) /\ IsFiniteSet(K)
  BY DEF Admitted, Fits, WellKept, Exact
<1>2. p \in [D -> K]
  BY <1>1 DEF WellKept, IsSound, IsOpen, Admitted
<1>3. \A i : {k \in D : p[k] = i} = ActiveOf(rdv, i)
  BY DEF ActiveOf
<1>4. \A i : ActiveOf(rdv, i) \in SUBSET D /\ IsFiniteSet(ActiveOf(rdv, i))
  BY <1>1, FS_Subset DEF ActiveOf
<1>5. \A k \in D : Sizes(rdv)[k] \in Int
  BY <1>1, ExactIsNat DEF WellKept
<1>6. \A k \in D : ones[k] \in Int
  OBVIOUS
<1>7. ASSUME NEW i \in K
      PROVE  SumBy(ones, ActiveOf(rdv, i)) = Cardinality(ActiveOf(rdv, i))
  <2> DEFINE S == ActiveOf(rdv, i)
             h == [k \in S |-> 1]
  <2>1. \A k \in S : ones[k] \in Int /\ h[k] = ones[k]
    BY <1>4
  <2>2. SumBy(h, S) = Cardinality(S) /\ IsFiniteSet(S)
    BY <1>4, SumOfOnes
  <2> HIDE DEF S, h, ones
  <2>3. SumBy(ones, S) = SumBy(h, S)
    BY <2>1, <2>2, SumEqual
  <2> QED BY <2>2, <2>3 DEF S
<1>8. SumBy(ones, D) = Cardinality(D) /\ rdv.bytes = SumBy(Sizes(rdv), D)
  BY <1>1, SumOfOnes DEF WellKept, Exact
<1> HIDE DEF D, K, p, ones
<1>9. SumBy(ones, D) = SumBy([i \in K |-> SumBy(ones, ActiveOf(rdv, i))], K)
  <2>1. SumBy(ones, D) = SumBy([i \in K |-> SumBy(ones, {k \in D : p[k] = i})], K)
    BY <1>1, <1>2, <1>6, SumByParts
  <2> QED BY <1>3, <2>1
<1>10. SumBy(Sizes(rdv), D) = SumBy([i \in K |-> SumBy(Sizes(rdv), ActiveOf(rdv, i))], K)
  <2>1. SumBy(Sizes(rdv), D) = SumBy([i \in K |-> SumBy(Sizes(rdv), {k \in D : p[k] = i})], K)
    BY <1>1, <1>2, <1>5, SumByParts
  <2> QED BY <1>3, <2>1
<1>11. [i \in K |-> SumBy(ones, ActiveOf(rdv, i))] = [i \in K |-> Cardinality(ActiveOf(rdv, i))]
  BY <1>7
<1> QED BY <1>1, <1>8, <1>9, <1>10, <1>11 DEF D, K

\* A known inventory takes no more than it was admitted with, and has room for
\* each of its missing stages.
LEMMA KnownTakes ==
  ASSUME Admitted(inv, rdv), NEW i \in Known(inv)
  PROVE  LET n == Cardinality(ActiveOf(rdv, i))
             m == SumBy(Sizes(rdv), ActiveOf(rdv, i))
         IN  /\ n \in Int /\ m \in Int /\ Entries(inv[i]) \in Int /\ Bytes(inv[i]) \in Int
             /\ n <= Entries(inv[i]) /\ m <= Bytes(inv[i])
             /\ i \in DOMAIN rdv.sessions => \A g \in Stage \ inv[i].prepared :
                  /\ n + inv[i].stage_rows[g] <= Entries(inv[i])
                  /\ m + Frame(inv[i], g) <= Bytes(inv[i])
<1> DEFINE x == inv[i]
           S == ActiveOf(rdv, i)
           n == Cardinality(S)
           m == SumBy(Sizes(rdv), S)
<1>1. x \in InventoryRecord /\ WellKept(rdv)
  BY DEF Admitted, Known
<1>2. /\ Entries(x) \in Nat /\ Bytes(x) \in Nat /\ Rows(x) \in Nat /\ Paid(x) \in Nat
      /\ \A g \in Stage : x.stage_rows[g] \in Nat /\ Frame(x, g) \in Nat
      /\ Rows(x) <= Entries(x) /\ Paid(x) <= Bytes(x)
      /\ \A g \in Stage \ x.prepared : /\ Rows(x) + x.stage_rows[g] <= Entries(x)
                                       /\ Paid(x) + Frame(x, g) <= Bytes(x)
  BY <1>1, StageCounts, StageIsPaid
<1>3. IsFiniteSet(S) /\ S \in SUBSET DOMAIN rdv.entries /\ n \in Nat
  <2>1. S \in SUBSET DOMAIN rdv.entries /\ IsFiniteSet(DOMAIN rdv.entries)
    BY <1>1 DEF ActiveOf, WellKept, Exact
  <2> HIDE DEF S
  <2> QED BY <2>1, FS_Subset, FS_CardinalityType
<1>4. m \in Nat
  <2>1. \A k \in S : Sizes(rdv)[k] \in Nat
    BY <1>1, <1>3, ExactIsNat DEF WellKept
  <2> HIDE DEF S
  <2> QED BY <1>3, <2>1, SumIsNat
<1>5. CASE i \in DOMAIN rdv.sessions
  <2>1. /\ Cardinality(rdv.sessions[i].burned) \in Nat
        /\ Cardinality(rdv.sessions[i].burned) + n <= Rows(x)
    BY <1>5, SessionCounts
  <2>2. m <= Paid(x)
    BY <1>5 DEF Admitted, SessionFits
  <2> HIDE DEF x, n, m
  <2>3. n <= Rows(x)
    BY <1>2, <1>3, <2>1
  <2>4. n <= Entries(x) /\ m <= Bytes(x)
    BY <1>2, <1>3, <1>4, <2>2, <2>3
  <2>5. \A g \in Stage \ x.prepared : n + x.stage_rows[g] <= Entries(x) /\ m + Frame(x, g) <= Bytes(x)
    BY <1>2, <1>3, <1>4, <2>2, <2>3
  <2> QED BY <1>2, <1>3, <1>4, <2>4, <2>5 DEF x, n, m
<1>6. CASE i \notin DOMAIN rdv.sessions
  <2>1. S = {}
    BY <1>1, <1>6 DEF ActiveOf, WellKept, IsSound, IsOpen
  <2>2. n = 0 /\ m = 0
    BY <2>1, FS_EmptySet, SumStep
  <2> HIDE DEF x, n, m
  <2>3. n <= Entries(x) /\ m <= Bytes(x)
    BY <1>2, <2>2
  <2> QED BY <1>2, <1>3, <1>4, <1>6, <2>3 DEF x, n, m
<1> QED BY <1>5, <1>6

\* Admission is enough for every missing stage.
LEMMA AdmittedSuffices ==
  ASSUME AInv
  PROVE  AdmissionSuffices
<1> SUFFICES ASSUME NEW i \in Sid, IsLive(inv[i]), IsOpen(rdv, i), NEW g \in Stage \ inv[i].prepared
             PROVE  /\ HasRoom(rdv, i, inv[i].stage_rows[g])
                    /\ rdv.bytes + Frame(inv[i], g) <= MaxBytes
  BY DEF AdmissionSuffices
<1> DEFINE K == Known(inv)
           n == inv[i].stage_rows[g]
           m == Frame(inv[i], g)
           f == [j \in K |-> Cardinality(ActiveOf(rdv, j))]
           e == [j \in Sid |-> Entries(inv[j])]
           d == [j \in K |-> SumBy(Sizes(rdv), ActiveOf(rdv, j))]
           b == [j \in Sid |-> Bytes(inv[j])]
<1>1. /\ Admitted(inv, rdv) /\ K \in SUBSET Sid /\ i \in K /\ i \in DOMAIN rdv.sessions
      /\ inv[i] \in InventoryRecord
  BY DEF AInv, Admitted, Known, IsLive, IsOpen
<1>2. n \in Int /\ m \in Int
  BY <1>1, StageCounts
<1>3. /\ IsFiniteSet(K) /\ Cardinality(DOMAIN rdv.entries) = SumBy(f, K)
      /\ rdv.bytes = SumBy(d, K)
  BY <1>1, StoreIsShared
<1>4. SumBy(e, K) <= Capacity /\ SumBy(b, K) <= MaxBytes
  BY <1>1 DEF Admitted, Fits
<1>5. ASSUME NEW j \in K
      PROVE  /\ f[j] \in Int /\ e[j] \in Int /\ d[j] \in Int /\ b[j] \in Int
             /\ f[j] <= e[j] /\ d[j] <= b[j]
  BY <1>1, KnownTakes
<1>6. Line(1, n, f[i]) <= e[i] /\ Line(1, m, d[i]) <= b[i]
  <2>1. f[i] + n <= e[i] /\ d[i] + m <= b[i]
    BY <1>1, KnownTakes
  <2> HIDE DEF n, m, f, e, d, b
  <2> QED BY <1>1, <1>2, <1>5, <2>1 DEF Line
<1> HIDE DEF K, f, e, d, b, n, m
<1>7. SumBy(f, K) + n <= SumBy(e, K)
  <2>1. /\ \A j \in K : f[j] \in Int /\ e[j] \in Int
        /\ \A j \in K : f[j] <= e[j]
    BY <1>5
  <2> QED BY ONLY <1>1, <1>2, <1>3, <1>6, <2>1, SumHasRoom
<1>8. SumBy(d, K) + m <= SumBy(b, K)
  <2>1. /\ \A j \in K : d[j] \in Int /\ b[j] \in Int
        /\ \A j \in K : d[j] <= b[j]
    BY <1>5
  <2> QED BY ONLY <1>1, <1>2, <1>3, <1>6, <2>1, SumHasRoom
<1>9. /\ SumBy(f, K) \in Int /\ SumBy(e, K) \in Int /\ SumBy(d, K) \in Int /\ SumBy(b, K) \in Int
  <2>1. /\ \A j \in K : f[j] \in Int
        /\ \A j \in K : e[j] \in Int
        /\ \A j \in K : d[j] \in Int
        /\ \A j \in K : b[j] \in Int
    BY <1>5
  <2> QED BY ONLY <1>3, <2>1, SumIsInt
<1>10. /\ Cardinality(DOMAIN rdv.entries) + n <= Capacity
       /\ rdv.bytes + m <= MaxBytes
  BY <1>2, <1>3, <1>4, <1>7, <1>8, <1>9, LimitsArePositive
<1>11. Cardinality(rdv.sessions[i].burned) + Cardinality(ActiveOf(rdv, i)) + n
         <= rdv.sessions[i].expected.max_attempts
  <2> DEFINE u == Cardinality(rdv.sessions[i].burned)
             v == Cardinality(ActiveOf(rdv, i))
  <2>1. u + v <= Rows(inv[i]) /\ u \in Nat /\ v \in Nat
    BY <1>1, SessionCounts
  <2>2. Rows(inv[i]) + n <= Entries(inv[i]) /\ Rows(inv[i]) \in Nat /\ Entries(inv[i]) \in Nat
    BY <1>1, StageIsPaid, StageCounts DEF n
  <2>3. rdv.sessions[i].expected.max_attempts = Entries(inv[i])
    <3>1. SessionFits(i, inv[i], rdv)
      BY <1>1 DEF Admitted
    <3>2. rdv.sessions[i].expected = Grant(inv[i])
      BY <3>1 DEF SessionFits
    <3> QED BY <3>2 DEF Grant
  <2> HIDE DEF u, v
  <2>4. u + v + n <= Entries(inv[i])
    BY <1>2, <2>1, <2>2
  <2> QED BY <2>3, <2>4 DEF u, v
<1> QED BY <1>10, <1>11 DEF HasRoom, n, m

\* The row of an attempt of the grid is found again.
LEMMA RowOfAttempt ==
  ASSUME NEW g \in Stage, NEW row \in Row
  PROVE  RowOf(AttemptOf(g, row)) = row
<1> DEFINE z == (g - 1) * MaxRows + row
           q == z \div MaxRows
           m == z % MaxRows
<1>1. /\ g \in Int /\ row \in Int /\ MaxRows \in Int /\ MaxRows > 0
      /\ 0 <= row /\ row < MaxRows
  BY GridAssumption DEF Stage, Row
<1>2. z \in Int /\ (g - 1) * MaxRows \in Int
  BY <1>1
<1>3. RowOf(AttemptOf(g, row)) = m
  <2>1. AttemptOf(g, row) - 1 = z
    BY <1>1, <1>2 DEF AttemptOf
  <2> QED BY <2>1 DEF RowOf
<1> HIDE DEF z
<1>4. q \in Int /\ m \in Int /\ 0 <= m /\ m < MaxRows /\ z = MaxRows * q + m
  BY <1>1, <1>2
<1> HIDE DEF q, m
<1> DEFINE c == g - 1 - q
<1>5. c * MaxRows = m - row /\ c \in Int
  <2> DEFINE u == g - 1
  <2>0. u \in Int
    BY <1>1
  <2>1. c * MaxRows = (g - 1) * MaxRows - q * MaxRows
    <3> HIDE DEF u
    <3>1. (u - q) * MaxRows = u * MaxRows - q * MaxRows
      BY <1>1, <1>4, <2>0
    <3> QED BY <3>1 DEF u
  <2>2. q * MaxRows = MaxRows * q
    BY <1>1, <1>4
  <2>3. MaxRows * q \in Int /\ z = (g - 1) * MaxRows + row
    BY <1>1, <1>4 DEF z
  <2> QED BY <1>1, <1>2, <1>4, <2>1, <2>2, <2>3
<1> HIDE DEF c
<1>6. CASE c >= 1
  <2>1. c * MaxRows >= MaxRows
    BY <1>1, <1>5, <1>6
  <2> QED BY <1>1, <1>4, <1>5, <2>1
<1>7. CASE c <= -1
  <2>1. (-c) * MaxRows >= MaxRows /\ c * MaxRows = -((-c) * MaxRows) /\ (-c) * MaxRows \in Int
    BY <1>1, <1>5, <1>7
  <2> QED BY <1>1, <1>4, <1>5, <2>1
<1>8. CASE c = 0
  <2>1. c * MaxRows = 0
    BY <1>1, <1>8
  <2> QED BY <1>1, <1>3, <1>4, <1>5, <2>1
<1> QED BY <1>5, <1>6, <1>7, <1>8

\* A live inventory that is ready has every row it did not reserve yet loaded,
\* unburned and not activated.
LEMMA ReadyRows ==
  ASSUME AInv
  PROVE  ReadyIsBacked
<1> SUFFICES ASSUME NEW i \in Sid, IsLive(inv[i]), inv[i].ready, IsOpen(rdv, i),
                    NEW g \in Stage, NEW a \in Attempts(inv[i], g), RowOf(a) >= inv[i].next
             PROVE  BatchIsReady(rdv, i, {a}, OneMeta)
  BY DEF ReadyIsBacked
<1> DEFINE x == inv[i]
<1>1. /\ Proper(x) /\ x \in InventoryRecord /\ SessionFits(i, x, rdv) /\ IsSound(rdv)
      /\ x.prepared = Stage
  BY DEF AInv, Admitted, IsOpen, Proper, IsLive, WellKept
<1>2. PICK row \in 0..(x.stage_rows[g] - 1) : a = AttemptOf(g, row)
  BY DEF Attempts
<1>3. row \in Row /\ row < x.stage_rows[g] /\ row \in Int /\ x.next \in Int
  <2>1. x.stage_rows[g] \in 0..MaxRows /\ x.next \in 0..MaxRows
    BY <1>1 DEF InventoryRecord
  <2> QED BY <2>1, GridAssumption DEF Row
<1>4. x.next <= row
  BY <1>2, <1>3, RowOfAttempt
<1>5. Fresh(rdv, <<i, a>>)
  BY <1>1, <1>2, <1>3, <1>4 DEF SessionFits
<1>6. a \notin rdv.sessions[i].burned
  BY <1>1, <1>5 DEF IsSound, Fresh
<1> QED BY <1>5, <1>6 DEF BatchIsReady, Fresh

\* The state is well typed, the authorizations of the rendezvous included.
LEMMA WellTyped ==
  ASSUME AInv
  PROVE  TypeOK
<1>1. /\ Admitted(inv, rdv) /\ SInv /\ PInv /\ authorizing \subseteq Sid
      /\ inv \in [Sid -> InventoryRecord]
  BY DEF AInv, SInv, Admitted
<1>2. IsStore(rdv)
  <2>1. IsStoreOf(Grants, rdv)
    BY <1>1 DEF PInv
  <2>2. ASSUME NEW s \in DOMAIN rdv.sessions  PROVE rdv.sessions[s].expected \in Authorization
    <3> DEFINE x == inv[s]
    <3>1. x \in InventoryRecord /\ x.known /\ Proper(x) /\ rdv.sessions[s].expected = Grant(x)
      BY <1>1 DEF Admitted, Known, SessionFits
    <3> HIDE DEF x
    <3>2. Entries(x) \in 1..NAttempts
      BY <3>1, EntriesBounded DEF Proper
    <3>3. OneMeta.model \in Model
      BY GridAssumption DEF Meta
    <3> QED BY <3>1, <3>2, <3>3 DEF Grant, Authorization
  <2>3. \A s \in DOMAIN rdv.sessions : rdv.sessions[s] \in SessionIn(Authorization)
    BY <2>1, <2>2 DEF IsStoreOf, SessionIn
  <2>4. IsStoreOf(Authorization, rdv)
    BY <2>1, <2>3 DEF IsStoreOf
  <2> QED BY <2>4, StoresAgree
<1>3. \A i \in Sid : inv[i].next <= inv[i].rows
  BY <1>1 DEF Admitted, Proper
<1>4. completing \subseteq Ses
  BY <1>1 DEF SInv, CompletingExist
<1> QED BY <1>1, <1>2, <1>3, <1>4 DEF TypeOK, SInv, PInv, RequestsBelong

\* Sessions, inventories and requests are well formed, and inventory_next_row
\* never passes the rows of the inventory (create_session).
THEOREM ServiceTyped == Spec => []TypeOK
BY AlwaysAInv, WellTyped, PTL

\* The correction sessions of the rendezvous all belong to inventories the
\* server still knows: none is left behind, so an admitted inventory never
\* fails to register (cleanup_prepared_sessions, register_session).
THEOREM NoSessionIsLeaked == Spec => []NoLeakedSessions
<1>1. AInv => NoLeakedSessions
  BY DEF AInv, Admitted, Known, NoLeakedSessions
<1> QED BY AlwaysAInv, <1>1, PTL

\* Admission is enough: while an inventory and its correction session live, the
\* rendezvous never refuses one of its missing stages for want of entries,
\* attempts or bytes, however many others were admitted, ended or reclaimed
\* since (create_prepared_inventory against preload_bulk).
THEOREM AdmissionIsEnough == Spec => []AdmissionSuffices
BY AlwaysAInv, AdmittedSuffices, PTL

\* A ready inventory is backed: as long as its correction session lives, every
\* row not yet reserved is loaded, unburned and not activated, so the next
\* session finds what it reserves (seal_prepared_inventory, create_session).
THEOREM ReadyInventoriesAreBacked == Spec => []ReadyIsBacked
BY AlwaysAInv, ReadyRows, PTL
=============================================================================
