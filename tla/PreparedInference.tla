-------------------------- MODULE PreparedInference --------------------------
(***************************************************************************)
(* The prepared runtime of the inference service (runtime/server.py): the  *)
(* inventories and execution sessions of create_app, composed with the     *)
(* correction rendezvous.                                                  *)
(*                                                                         *)
(* All handlers run on one event loop, so what a handler does between two  *)
(* awaits is one step.  An inventory has a stage x row grid of corrections *)
(* that the preparation service pushes stage by stage; sealing it makes it *)
(* ready; a session reserves the next rows of every stage; requests of the *)
(* session consume them, one-use.  Sessions and inventories end by cancel, *)
(* complete, exhaustion or idleness, each of which burns what is left.     *)
(*                                                                         *)
(* Requests carry the right metadata here: what the rendezvous does with   *)
(* wrong metadata is the subject of CorrectionRendezvous.                  *)
(***************************************************************************)
EXTENDS Rendezvous

CONSTANTS
  Ses,          \* execution session ids
  NStages,      \* prepared stages of the model
  MaxRows,      \* context_length: the most rows an inventory may have
  BytesPerRow,  \* size of one correction row on the wire
  Header,       \* the rest of a correction frame: identifiers, shapes, digests
  Overhead,     \* what admission sets aside for it per stage
  MaxAttemptsPerSession, \* rendezvous_max_attempts_per_session
  OneMeta       \* the metadata of every correction and request

ASSUME GridAssumption ==
  /\ NStages \in Nat \ {0} /\ MaxRows \in Nat \ {0} /\ BytesPerRow \in Nat \ {0}
  /\ Overhead \in Nat /\ Header \in 0..Overhead
  /\ NAttempts = NStages * MaxRows
  /\ MaxAttemptsPerSession \in Nat
  /\ OneMeta \in Meta

VARIABLES
  rdv,         \* app.state.correction_rendezvous
  inv,         \* the RuntimeSession of each inventory
  ses,         \* the RuntimeSession of each execution session
  req,         \* requests being executed
  authorizing, \* inventories whose authorize handler awaits its body
  completing,  \* sessions whose complete handler awaits its body
  uses         \* ghost: how often each correction was consumed

vars == <<rdv, inv, ses, req, authorizing, completing, uses>>

Stage == 1..NStages
Row == 0..(MaxRows - 1)

\* derive_online_attempt_id(root of the stage, row)
AttemptOf(stage, row) == (stage - 1) * MaxRows + row + 1
RowOf(a) == (a - 1) % MaxRows

\* RuntimeSession: `known' is membership in the sessions dict, `st' its
\* canceled and completed flags ("expired" is canceled by cleanup), `idle' the
\* age of last_active.
NoInventory ==
  [st |-> "none", known |-> FALSE, rows |-> 0, stage_rows |-> [g \in Stage |-> 0],
   demand |-> FALSE, prepared |-> {}, ready |-> FALSE, next |-> 0, idle |-> 0]

NoSession == [st |-> "none", known |-> FALSE, inv |-> {}, reserved |-> {}, idle |-> 0]

NoRequest == [st |-> "idle", ses |-> {}, kind |-> "", todo |-> {}, ran |-> FALSE, bad |-> FALSE]

Init ==
  /\ rdv = Empty
  /\ inv = [i \in Sid |-> NoInventory]
  /\ ses = [e \in Ses |-> NoSession]
  /\ req = [p \in Holder |-> NoRequest]
  /\ authorizing = {}
  /\ completing = {}
  /\ uses = [k \in Key |-> 0]

-----------------------------------------------------------------------------
(* cleanup_prepared_sessions: the state every handler starts from.         *)

IsDue(x, reclaim) ==
  x.known /\ (x.idle = IdleTimeout \/ (reclaim /\ x.st # "live"))

DueInventories(reclaim) == {i \in Sid : IsDue(inv[i], reclaim)}
DueSessions(reclaim) == {e \in Ses : IsDue(ses[e], reclaim)}

\* The RuntimeSession of a handler that runs on outlives its removal.
Expired(st) == IF st = "live" THEN "expired" ELSE st

\* The inventories, sessions and rendezvous after it.
CleanInv(reclaim) ==
  [i \in Sid |-> IF i \in DueInventories(reclaim)
                 THEN [NoInventory EXCEPT !.st = "ended"] ELSE inv[i]]

CleanSes(reclaim) ==
  [e \in Ses |-> IF e \in DueSessions(reclaim)
                 THEN [ses[e] EXCEPT !.st = Expired(@), !.known = FALSE] ELSE ses[e]]

ReservedKeys(E) == UNION {{<<ses[e].inv, a>> : a \in ses[e].reserved} : e \in E}

\* Mutant of CleanRdv: an expired session keeps its reservation.
CleanRdvUnburned(reclaim) == Terminal(rdv, DueInventories(reclaim))

\* Mutant of CleanRdv: an expired inventory keeps its correction session.
CleanRdvOpen(reclaim) ==
  Burn(rdv, ReservedKeys(DueSessions(reclaim)) \cap DOMAIN rdv.entries)

CleanRdv(reclaim) ==
  Terminal(Burn(rdv, ReservedKeys(DueSessions(reclaim)) \cap DOMAIN rdv.entries),
           DueInventories(reclaim))

IsLive(x) == x.known /\ x.st = "live"

-----------------------------------------------------------------------------
(* Inventories.                                                            *)

Attempts(x, stage) == {AttemptOf(stage, row) : row \in 0..(x.stage_rows[stage] - 1)}

\* inventory_reserved_entries and inventory_reserved_bytes
Entries(x) == MapThenSumSet(LAMBDA g : x.stage_rows[g], Stage)
Bytes(x) == BytesPerRow * Entries(x) + Overhead * NStages

\* len(raw) of the correction of one stage
Frame(x, stage) == BytesPerRow * x.stage_rows[stage] + Header

\* Mutant of Admits: inventories that still fill up are not counted.
AdmitsBesidesReady(I, x) ==
  LET active == {i \in Sid : IsLive(I[i]) /\ I[i].ready} IN
  /\ Entries(x) <= MaxAttemptsPerSession
  /\ MapThenSumSet(LAMBDA i : Entries(I[i]), active) + Entries(x) <= Capacity
  /\ MapThenSumSet(LAMBDA i : Bytes(I[i]), active) + Bytes(x) <= MaxBytes
  /\ Cardinality(active) < SessionCapacity

Admits(I, x) ==
  LET active == {i \in Sid : IsLive(I[i])} IN
  /\ Entries(x) <= MaxAttemptsPerSession
  /\ MapThenSumSet(LAMBDA i : Entries(I[i]), active) + Entries(x) <= Capacity
  /\ MapThenSumSet(LAMBDA i : Bytes(I[i]), active) + Bytes(x) <= MaxBytes
  /\ Cardinality(active) < SessionCapacity

\* create_prepared_inventory.  With stage_rows the inventory is made on demand,
\* for one response.
CreateInventory(i, rows, stage_rows, demand) ==
  LET I == CleanInv(TRUE)
      x == [NoInventory EXCEPT !.st = "live", !.known = TRUE, !.rows = rows,
                               !.stage_rows = stage_rows, !.demand = demand]
      r == Cleanup(CleanRdv(TRUE))
      auth == [model |-> OneMeta.model, max_attempts |-> Entries(x)]
  IN
  /\ inv[i].st = "none"
  /\ demand \/ stage_rows = [g \in Stage |-> rows]
  /\ IF Admits(I, x)
     THEN IF CanRegister(r, i)
          THEN rdv' = Register(r, i, auth) /\ inv' = [I EXCEPT ![i] = x]
          ELSE rdv' = r /\ inv' = I
     ELSE rdv' = CleanRdv(TRUE) /\ inv' = I
  /\ ses' = CleanSes(TRUE)
  /\ UNCHANGED <<req, authorizing, completing, uses>>

\* authorize_prepared_session, up to the await of the body ...
BeginAuthorize(i) ==
  LET I == CleanInv(FALSE) IN
  /\ inv[i].st # "none" /\ i \notin authorizing
  /\ inv' = IF IsLive(I[i]) THEN [I EXCEPT ![i].idle = 0] ELSE I
  /\ authorizing' = IF IsLive(I[i]) THEN authorizing \cup {i} ELSE authorizing
  /\ ses' = CleanSes(FALSE)
  /\ rdv' = CleanRdv(FALSE)
  /\ UNCHANGED <<req, completing, uses>>

\* ... and after it, when the inventory may have ended.
EndAuthorize(i) ==
  LET r == Cleanup(rdv) IN
  /\ i \in authorizing
  /\ authorizing' = authorizing \ {i}
  /\ rdv' = IF i \in DOMAIN r.sessions /\ CanAuthorize(r, i, r.sessions[i].expected)
            THEN Authorize(r, i) ELSE r
  /\ UNCHANGED <<inv, ses, req, completing, uses>>

\* accept_prepared_correction: one stage, all its rows.  The context counts as
\* activity of the inventory even if the correction is then rejected.
AcceptCorrection(i, stage) ==
  LET I == CleanInv(FALSE)
      R == CleanRdv(FALSE)
      r == Cleanup(R)
      A == Attempts(I[i], stage)
      payload == Frame(I[i], stage)
      accepted == CanPreload(r, i, A, OneMeta, payload)
      new == stage \notin I[i].prepared
      prepared == I[i].prepared \cup (IF new /\ accepted THEN {stage} ELSE {})
  IN
  /\ inv[i].st # "none"
  /\ inv' = [I EXCEPT ![i] =
       IF IsLive(@) THEN [@ EXCEPT !.idle = 0, !.prepared = prepared] ELSE @]
  /\ rdv' = IF ~IsLive(I[i]) \/ ~new THEN R
            ELSE IF accepted THEN Preload(r, i, A, OneMeta, payload) ELSE r
  /\ ses' = CleanSes(FALSE)
  /\ UNCHANGED <<req, authorizing, completing, uses>>

\* Mutant of SealInventory: the first stage is taken for all of them.
SealEarly(i) ==
  LET I == CleanInv(FALSE) IN
  /\ inv[i].st # "none"
  /\ inv' = [I EXCEPT ![i] =
       IF @.known THEN [@ EXCEPT !.idle = 0, !.ready = I[i].ready \/ I[i].prepared # {}] ELSE @]
  /\ ses' = CleanSes(FALSE)
  /\ rdv' = CleanRdv(FALSE)
  /\ UNCHANGED <<req, authorizing, completing, uses>>

\* seal_prepared_inventory
SealInventory(i) ==
  LET I == CleanInv(FALSE)
      complete == IsLive(I[i]) /\ I[i].prepared = Stage
  IN
  /\ inv[i].st # "none"
  /\ inv' = [I EXCEPT ![i] =
       IF @.known THEN [@ EXCEPT !.idle = 0, !.ready = I[i].ready \/ complete] ELSE @]
  /\ ses' = CleanSes(FALSE)
  /\ rdv' = CleanRdv(FALSE)
  /\ UNCHANGED <<req, authorizing, completing, uses>>

\* get_prepared_inventory: reclaims what is terminal and counts as activity.
GetInventory(i) ==
  LET I == CleanInv(TRUE) IN
  /\ inv[i].st # "none"
  /\ inv' = [I EXCEPT ![i] = IF IsLive(@) THEN [@ EXCEPT !.idle = 0] ELSE @]
  /\ ses' = CleanSes(TRUE)
  /\ rdv' = CleanRdv(TRUE)
  /\ UNCHANGED <<req, authorizing, completing, uses>>

\* cancel_prepared_inventory
CancelInventory(i) ==
  LET I == CleanInv(FALSE) IN
  /\ inv[i].st # "none"
  /\ inv' = [I EXCEPT ![i] =
       IF @.known THEN [@ EXCEPT !.idle = 0, !.st = "ended"] ELSE @]
  /\ ses' = CleanSes(FALSE)
  /\ rdv' = IF I[i].known THEN Terminal(CleanRdv(FALSE), {i}) ELSE CleanRdv(FALSE)
  /\ UNCHANGED <<req, authorizing, completing, uses>>

\* cancel_runtime_session and complete_session do not ask what kind of session
\* an id names: an inventory ended that way keeps its corrections until
\* cleanup reclaims it.  complete awaits its body after get_session: at its end
\* nothing but the flag changes.
CancelInventoryAsSession(i) ==
  LET I == CleanInv(FALSE) IN
  /\ inv[i].st # "none"
  /\ inv' = [I EXCEPT ![i] =
       IF @.known THEN [@ EXCEPT !.idle = 0, !.st = "ended"] ELSE @]
  /\ ses' = CleanSes(FALSE)
  /\ rdv' = CleanRdv(FALSE)
  /\ UNCHANGED <<req, authorizing, completing, uses>>

CompleteInventoryAsSession(i) ==
  /\ inv[i].known
  /\ inv' = [inv EXCEPT ![i].st = "ended"]
  /\ UNCHANGED <<rdv, ses, req, authorizing, completing, uses>>

-----------------------------------------------------------------------------
(* Execution sessions.                                                     *)

\* Rows start .. start+rows-1 of every stage, or all rows made on demand.
Reserved(x, rows) ==
  UNION {{AttemptOf(g, row) : row \in
            x.next .. (IF x.demand THEN x.stage_rows[g] ELSE x.next + rows) - 1} : g \in Stage}

\* Mutant of Available: the end of the reservation is not checked.
AvailableBeyondEnd(x, start, rows) ==
  IsLive(x) /\ x.ready /\ start = x.next /\ rows > 0 /\ x.prepared = Stage

\* The inventory is ready and start .. start+rows-1 are its next rows.
Available(x, start, rows) ==
  /\ IsLive(x) /\ x.ready
  /\ start = x.next /\ rows > 0 /\ start + rows <= x.rows
  /\ x.prepared = Stage
  /\ x.demand => start = 0

\* Mutant of NextRow: the cursor is not moved.
NextRowStays(x, rows) == x.next

\* inventory_next_row after a reservation
NextRow(x, rows) == IF x.demand THEN x.rows ELSE x.next + rows

\* create_session with inventory_id, inventory_start and inventory_rows.
CreateSession(e, i, start, rows) ==
  LET I == CleanInv(TRUE)
      S == CleanSes(TRUE)
      new == [st |-> "live", known |-> TRUE, inv |-> i,
              reserved |-> Reserved(I[i], rows), idle |-> 0]
      accepted == /\ Cardinality({d \in Ses : S[d].known}) < SessionCapacity
                  /\ Available(I[i], start, rows)
  IN
  /\ ses[e].st = "none" /\ inv[i].st # "none"
  /\ inv' = IF accepted THEN [I EXCEPT ![i].next = NextRow(I[i], rows), ![i].idle = 0] ELSE I
  /\ ses' = IF accepted THEN [S EXCEPT ![e] = new] ELSE S
  /\ rdv' = CleanRdv(TRUE)
  /\ UNCHANGED <<req, authorizing, completing, uses>>

\* retire_exhausted_inventory
IsExhausted(I, S, i) ==
  /\ IsLive(I[i]) /\ I[i].next >= I[i].rows
  /\ ~\E d \in Ses : IsLive(S[d]) /\ S[d].inv = i

\* The common end of cancel_runtime_session and complete_session: the flag is
\* set in S, then the reservation is burned and the inventory retired.
EndSession(e, I, S, r) ==
  LET i == S[e].inv
      q == BurnReserved(r, i, S[e].reserved)
  IN
  /\ ses' = S
  /\ inv' = IF IsExhausted(I, S, i) THEN [I EXCEPT ![i].st = "ended", ![i].idle = 0] ELSE I
  /\ rdv' = IF IsExhausted(I, S, i) THEN Terminal(q, {i}) ELSE q

\* cancel_runtime_session
CancelSession(e) ==
  LET S == CleanSes(FALSE) IN
  /\ ses[e].st # "none"
  /\ IF S[e].known
     THEN EndSession(e, CleanInv(FALSE), [S EXCEPT ![e].st = "ended", ![e].idle = 0],
                     CleanRdv(FALSE))
     ELSE ses' = S /\ inv' = CleanInv(FALSE) /\ rdv' = CleanRdv(FALSE)
  /\ UNCHANGED <<req, authorizing, completing, uses>>

\* cancel_response, for the response of a session: no cleanup before it, nothing
\* counts as activity and an exhausted inventory is not retired.
CancelResponse(e) ==
  LET S == [ses EXCEPT ![e].st = "ended"] IN
  /\ ses[e].known
  /\ ses' = S /\ rdv' = BurnReserved(rdv, S[e].inv, S[e].reserved)
  /\ UNCHANGED <<inv, req, authorizing, completing, uses>>

\* get_session, as the start of complete_session and of every execute route:
\* the session it returns stays in use however long the body takes.
GetSession(e) ==
  LET S == CleanSes(FALSE) IN
  /\ ses[e].st # "none"
  /\ ses' = IF S[e].known THEN [S EXCEPT ![e].idle = 0] ELSE S
  /\ inv' = CleanInv(FALSE)
  /\ rdv' = CleanRdv(FALSE)

IsFound(e) == CleanSes(FALSE)[e].known

\* complete_session, up to the await of its body, and after it.
BeginComplete(e) ==
  /\ e \notin completing
  /\ GetSession(e)
  /\ completing' = IF IsFound(e) THEN completing \cup {e} ELSE completing
  /\ UNCHANGED <<req, authorizing, uses>>

EndComplete(e) ==
  /\ e \in completing
  /\ completing' = completing \ {e}
  /\ EndSession(e, inv, [ses EXCEPT ![e].st = "ended"], rdv)
  /\ UNCHANGED <<req, authorizing, uses>>
-----------------------------------------------------------------------------
(* Requests.  A stage request of session e is a compact batch, a single raw  *)
(* row ("raw") or several raw rows ("multi"), as its encoding admits.        *)

BeginRequest(p, e) ==
  /\ req[p].st = "idle"
  /\ GetSession(e)
  /\ req' = IF IsFound(e) THEN [req EXCEPT ![p] = [NoRequest EXCEPT !.st = "body", !.ses = e]]
                          ELSE req
  /\ UNCHANGED <<authorizing, completing, uses>>

End(p) == req' = [req EXCEPT ![p] = NoRequest]

InventoryOf(e) == ses[e].inv

\* validate_prepared_request, which counts as activity of the inventory once
\* session and inventory are found active ...
IsActive(e) ==
  /\ ses[e].st = "live"
  /\ IsLive(inv[InventoryOf(e)]) /\ inv[InventoryOf(e)].ready

TouchInventory(e) ==
  inv' = IF IsActive(e) THEN [inv EXCEPT ![InventoryOf(e)].idle = 0] ELSE inv

\* Mutant of IsValid: one reserved row admits the whole batch.
IsValidForSome(e, A) == IsActive(e) /\ A \cap ses[e].reserved # {}

\* ... and accepts only rows reserved for the session.
IsValid(e, A) == IsActive(e) /\ A \subseteq ses[e].reserved

\* execute_prepared_payloads, a batch or a single row: consume_preloaded_batch
\* before the engine is awaited.
SubmitBatch(p, kind, A) ==
  LET e == req[p].ses
      i == InventoryOf(e)
      r == Cleanup(rdv)
      ready == BatchIsReady(r, i, A, OneMeta)
  IN
  /\ req[p].st = "body"
  /\ kind = "raw" => Cardinality(A) = 1
  /\ TouchInventory(e)
  /\ \/ /\ ~IsValid(e, A)
        /\ End(p)
        /\ UNCHANGED <<rdv, uses>>
     \/ /\ IsValid(e, A)
        /\ ~BatchIsOpen(r, i, OneMeta)
        /\ End(p)
        /\ rdv' = r
        /\ UNCHANGED uses
     \/ /\ IsValid(e, A)
        /\ BatchIsOpen(r, i, OneMeta) /\ ~ready
        /\ End(p)
        /\ rdv' = Burn(r, {i} \X A)
        /\ UNCHANGED uses
     \/ /\ IsValid(e, A)
        /\ BatchIsOpen(r, i, OneMeta) /\ ready
        /\ req' = [req EXCEPT ![p].st = "running", ![p].kind = kind]
        /\ rdv' = ConsumeBatch(r, i, A)
        /\ uses' = [k \in Key |-> IF k \in {i} \X A THEN uses[k] + 1 ELSE uses[k]]
  /\ UNCHANGED <<ses, authorizing, completing>>

\* activate of one row of a set, on the store r after cleanup.
Activates(r, k) == CanHaveEntry(r, k) /\ CanActivate(WithEntry(r, k), k, OneMeta)

ActivateAll(r, i, A, p) ==
  LET q == [a \in A |-> Activated(WithEntry(r, <<i, a>>), <<i, a>>, OneMeta, p).entries[<<i, a>>]]
      entry(k) == q[k[2]]
  IN  Touch(AddEntries(r, {i} \X A, entry, 0), i)

\* run_prepared_requests: activate all rows, or abort those activated before
\* the first that fails (`failing', which may also be a repeated row).
SubmitMulti(p, A) ==
  LET e == req[p].ses
      i == InventoryOf(e)
      r == Cleanup(rdv)
      good == {a \in A : Activates(r, <<i, a>>)}
  IN
  /\ req[p].st = "body"
  /\ TouchInventory(e)
  /\ \/ /\ ~IsValid(e, A)
        /\ End(p)
        /\ UNCHANGED rdv
     \/ /\ IsValid(e, A) /\ ~IsOpen(r, i)
        /\ End(p)
        /\ rdv' = r
     \/ /\ IsValid(e, A) /\ IsOpen(r, i)
        /\ \E B \in SUBSET good : \E failing \in (A \ good) \cup B :
             rdv' = Touch(Burn(r, {i} \X (B \cup {a \in {failing} : CanHaveEntry(r, <<i, a>>)})), i)
        /\ End(p)
     \/ /\ IsValid(e, A) /\ IsOpen(r, i) /\ good = A /\ Cardinality(A) > 1
        /\ rdv' = ActivateAll(r, i, A, p)
        /\ req' = [req EXCEPT ![p] = [@ EXCEPT !.st = "gathering", !.kind = "multi", !.todo = A]]
  /\ UNCHANGED <<ses, authorizing, completing, uses>>

\* Mutant of TakeRow: a row burned by somebody else is waited for.
TakeRowHangs(p, a) ==
  LET k == <<InventoryOf(req[p].ses), a>> IN
  /\ req[p].st = "gathering" /\ a \in req[p].todo
  /\ Holds(rdv, k, p)
  /\ rdv.entries[k].correction # NoMeta
  /\ rdv' = Burn(rdv, {k})
  /\ uses' = [uses EXCEPT ![k] = @ + 1]
  /\ req' = [req EXCEPT ![p].todo = @ \ {a}]
  /\ UNCHANGED <<inv, ses, authorizing, completing>>

\* A task of the gather, rendezvous.correction of one row: it takes the
\* correction, or finds its entry gone ...
TakeRow(p, a) ==
  LET k == <<InventoryOf(req[p].ses), a>> IN
  /\ req[p].st = "gathering" /\ a \in req[p].todo
  /\ \/ /\ Holds(rdv, k, p)
        /\ rdv.entries[k].correction # NoMeta
        /\ rdv' = Burn(rdv, {k})
        /\ uses' = [uses EXCEPT ![k] = @ + 1]
        /\ req' = [req EXCEPT ![p].todo = @ \ {a}]
     \/ /\ ~Holds(rdv, k, p)
        /\ req' = [req EXCEPT ![p].todo = @ \ {a}, ![p].bad = TRUE]
        /\ UNCHANGED <<rdv, uses>>
  /\ UNCHANGED <<inv, ses, authorizing, completing>>

\* ... or its wait_for runs out.
TimeOutRow(p, a) ==
  LET k == <<InventoryOf(req[p].ses), a>> IN
  /\ req[p].st = "gathering" /\ a \in req[p].todo
  /\ Holds(rdv, k, p) /\ rdv.entries[k].age = Timeout
  /\ rdv' = Abort(rdv, k, p)
  /\ req' = [req EXCEPT ![p].todo = @ \ {a}, ![p].bad = TRUE]
  /\ UNCHANGED <<inv, ses, authorizing, completing, uses>>

\* The engine answers the gather, or fails.
EngineAnswersMulti(p) ==
  /\ req[p].st = "gathering" /\ ~req[p].ran
  /\ \E ok \in BOOLEAN :
       req' = [req EXCEPT ![p].ran = TRUE, ![p].bad = @ \/ ~ok]
  /\ UNCHANGED <<rdv, inv, ses, authorizing, completing, uses>>

\* The first exception ends the gather: every row still held is aborted.
GiveUp(p) ==
  /\ req[p].st = "gathering" /\ req[p].bad
  /\ rdv' = Burn(rdv, {k \in DOMAIN rdv.entries : Holds(rdv, k, p)})
  /\ End(p)
  /\ UNCHANGED <<inv, ses, authorizing, completing, uses>>

GatherEnds(p) ==
  /\ req[p].st = "gathering" /\ req[p].ran /\ ~req[p].bad /\ req[p].todo = {}
  /\ End(p)
  /\ UNCHANGED <<rdv, inv, ses, authorizing, completing, uses>>

\* The engine answers a batch or a single row, or fails; a WebSocket then waits
\* for its next frame without another get_session.
EngineAnswers(p) ==
  /\ req[p].st = "running"
  /\ \/ End(p)
     \/ /\ req[p].kind = "raw" => ses[req[p].ses].st = "live"
        /\ req' = [req EXCEPT ![p] = [NoRequest EXCEPT !.st = "body", !.ses = req[p].ses]]
  /\ UNCHANGED <<rdv, inv, ses, authorizing, completing, uses>>

\* The client goes away before it sends a body or the next frame.
Disconnect(p) ==
  /\ req[p].st = "body"
  /\ End(p)
  /\ UNCHANGED <<rdv, inv, ses, authorizing, completing, uses>>

-----------------------------------------------------------------------------
\* time.monotonic(): what is in the sessions dict ages.
Tick ==
  LET older(x) == IF x.known /\ x.idle < IdleTimeout THEN [x EXCEPT !.idle = @ + 1] ELSE x IN
  /\ inv' = [i \in Sid |-> older(inv[i])]
  /\ ses' = [e \in Ses |-> older(ses[e])]
  /\ rdv' = Aged(rdv)
  /\ UNCHANGED <<req, authorizing, completing, uses>>

InventoryStep(i) ==
  \/ \E rows \in 1..MaxRows, stage_rows \in [Stage -> 1..MaxRows], demand \in BOOLEAN :
       /\ \A g \in Stage : stage_rows[g] <= rows
       /\ CreateInventory(i, rows, stage_rows, demand)
  \/ BeginAuthorize(i) \/ EndAuthorize(i)
  \/ \E g \in Stage : AcceptCorrection(i, g)
  \/ SealInventory(i) \/ GetInventory(i) \/ CancelInventory(i)
  \/ CancelInventoryAsSession(i) \/ CompleteInventoryAsSession(i)

SessionStep(e) ==
  \/ \E i \in Sid, start \in Row, rows \in 1..MaxRows : CreateSession(e, i, start, rows)
  \/ CancelSession(e) \/ CancelResponse(e) \/ BeginComplete(e) \/ EndComplete(e)

\* What a request does without its client.
RequestRuns(p) ==
  \/ \E a \in Attempt : TakeRow(p, a) \/ TimeOutRow(p, a)
  \/ EngineAnswersMulti(p) \/ EngineAnswers(p) \/ GiveUp(p) \/ GatherEnds(p)

StageAttempts(g) == {AttemptOf(g, row) : row \in Row}

RequestStep(p) ==
  \/ \E e \in Ses : BeginRequest(p, e)
  \/ \E g \in Stage : \E A \in (SUBSET StageAttempts(g)) \ {{}} :
       \/ \E kind \in {"compact", "raw"} : SubmitBatch(p, kind, A)
       \/ SubmitMulti(p, A)
  \/ RequestRuns(p) \/ Disconnect(p)

Next ==
  \/ \E i \in Sid : InventoryStep(i)
  \/ \E e \in Ses : SessionStep(e)
  \/ \E p \in Holder : RequestStep(p)
  \/ Tick

\* The event loop runs tasks that are due, engines answer, time passes.
Fairness == WF_vars(Tick) /\ \A p \in Holder : WF_vars(RequestRuns(p))

Spec == Init /\ [][Next]_vars /\ Fairness
-----------------------------------------------------------------------------
(* Properties.                                                             *)

InventoryRecord ==
  [st : {"none", "live", "ended"}, known : BOOLEAN, rows : 0..MaxRows,
   stage_rows : [Stage -> 0..MaxRows], demand : BOOLEAN, prepared : SUBSET Stage,
   ready : BOOLEAN, next : 0..MaxRows, idle : 0..IdleTimeout]

SessionRecord ==
  [st : {"none", "live", "ended", "expired"}, known : BOOLEAN, inv : Sid \cup {{}},
   reserved : SUBSET Attempt, idle : 0..IdleTimeout]

RequestRecord ==
  [st : {"idle", "body", "running", "gathering"}, ses : Ses \cup {{}},
   kind : {"", "compact", "raw", "multi"}, todo : SUBSET Attempt,
   ran : BOOLEAN, bad : BOOLEAN]

\* Sessions, inventories and requests are well formed, and inventory_next_row
\* never passes the rows of the inventory (create_session).
TypeOK ==
  /\ IsStore(rdv)
  /\ inv \in [Sid -> InventoryRecord]
  /\ ses \in [Ses -> SessionRecord]
  /\ req \in [Holder -> RequestRecord]
  /\ authorizing \subseteq Sid /\ completing \subseteq Ses
  /\ uses \in [Key -> Nat]
  /\ \A i \in Sid : inv[i].next <= inv[i].rows

\* A correction row is consumed at most once, whatever requests of whatever
\* sessions ask for it on whatever route (execute_prepared_payloads,
\* run_prepared_requests).
OneUse == \A k \in Key : uses[k] <= 1

\* No row is reserved for two sessions: inventory_next_row moves past a
\* reservation and never back, on-demand inventories included (create_session).
DisjointReservations ==
  \A d, e \in Ses :
    d # e /\ ses[d].inv = ses[e].inv => ses[d].reserved \cap ses[e].reserved = {}

\* A row is consumed only by the session it is reserved for and only while that
\* session is live: a cancel, complete or expiry between activation and the end
\* of the gather wins (validate_prepared_request, burn_prepared_reservation).
UseIsReserved ==
  [][\A k \in Key : uses'[k] # uses[k] =>
       \E e \in Ses : /\ ses[e].st = "live" /\ ses[e].inv = k[1]
                      /\ k[2] \in ses[e].reserved]_vars

\* Unused reserved rows burn on termination: once a session is cancelled,
\* completed or expired, the rendezvous holds nothing of its reservation.
TerminalSessionHoldsNothing ==
  \A e \in Ses : ses[e].st \in {"ended", "expired"} =>
    ({InventoryOf(e)} \X ses[e].reserved) \cap DOMAIN rdv.entries = {}

\* Admission is enough: while an inventory and its correction session live, the
\* rendezvous never refuses one of its missing stages for want of entries,
\* attempts or bytes, however many others were admitted, ended or reclaimed
\* since (create_prepared_inventory against preload_bulk).
AdmissionSuffices ==
  \A i \in Sid : IsLive(inv[i]) /\ IsOpen(rdv, i) =>
    \A g \in Stage \ inv[i].prepared :
      /\ HasRoom(rdv, i, inv[i].stage_rows[g])
      /\ rdv.bytes + Frame(inv[i], g) <= MaxBytes

\* A ready inventory is backed: as long as its correction session lives, every
\* row not yet reserved is loaded, unburned and not activated, so the next
\* session finds what it reserves (seal_prepared_inventory, create_session).
ReadyIsBacked ==
  \A i \in Sid : IsLive(inv[i]) /\ inv[i].ready /\ IsOpen(rdv, i) =>
    \A g \in Stage : \A a \in Attempts(inv[i], g) : RowOf(a) >= inv[i].next =>
      BatchIsReady(rdv, i, {a}, OneMeta)

\* The correction sessions of the rendezvous all belong to inventories the
\* server still knows: none is left behind, so an admitted inventory never
\* fails to register (cleanup_prepared_sessions, register_session).
NoLeakedSessions == DOMAIN rdv.sessions \subseteq {i \in Sid : inv[i].known}

\* A request that runs ends: its rows are taken, time out, or are found burned,
\* and the gather that lost one gives up (run_prepared_requests).
RequestsSettle ==
  \A p \in Holder : req[p].st \in {"running", "gathering"} ~> req[p].st \in {"idle", "body"}
=============================================================================
