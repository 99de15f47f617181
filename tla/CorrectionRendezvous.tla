------------------------ MODULE CorrectionRendezvous ------------------------
(***************************************************************************)
(* CorrectionRendezvous (runtime/correction_rendezvous.py): the bounded    *)
(* store in which an inference service keeps one-use corrections until a   *)
(* masked request picks them up.  Threads and tasks call it in any order;  *)
(* each `with self._lock' block is one step.  A request runs activate and  *)
(* then the coroutine correction(), which releases the lock while it       *)
(* awaits the correction and takes it again to consume.                    *)
(***************************************************************************)
EXTENDS Rendezvous

CONSTANT Payload   \* payload sizes, in bytes

ASSUME PayloadsArePositive == Payload \subseteq Nat \ {0}

VARIABLES
  rdv,         \* the store: see Rendezvous
  req,         \* per request: where its coroutine is, its key and metadata
  uses,        \* ghost: how often each key's correction was handed out
  registered   \* ghost: session ids ever registered

vars == <<rdv, req, uses, registered>>

Bulk == (SUBSET Attempt) \ {{}}

\* A request outside activate and correction() holds neither key nor entry.
Settled(st) == [st |-> st, key |-> <<>>, meta |-> NoMeta]

Init ==
  /\ rdv = Empty
  /\ req = [p \in Holder |-> Settled("idle")]
  /\ uses = [k \in Key |-> 0]
  /\ registered = {}

-----------------------------------------------------------------------------
\* The caller draws session ids with new_id(), so it registers none twice.
RegisterSession(s, auth) ==
  LET r == Cleanup(rdv) IN
  /\ s \notin registered
  /\ rdv' = IF CanRegister(r, s) THEN Register(r, s, auth) ELSE r
  /\ registered' = IF CanRegister(r, s) THEN registered \cup {s} ELSE registered
  /\ UNCHANGED <<req, uses>>

\* Mutant of AuthorizeSession: an authorization that comes first registers.
AuthorizeUnknown(s, auth) ==
  LET r == Cleanup(rdv) IN
  /\ rdv' = IF s \in DOMAIN r.sessions THEN Authorize(r, s)
            ELSE Authorize(Register(r, s, auth), s)
  /\ UNCHANGED <<req, uses, registered>>

AuthorizeSession(s, auth) ==
  LET r == Cleanup(rdv) IN
  /\ rdv' = IF CanAuthorize(r, s, auth) THEN Authorize(r, s) ELSE r
  /\ UNCHANGED <<req, uses, registered>>

PreloadBulk(s, A, meta, payload) ==
  LET r == Cleanup(rdv) IN
  /\ rdv' = IF CanPreload(r, s, A, meta, payload)
            THEN Preload(r, s, A, meta, payload) ELSE r
  /\ UNCHANGED <<req, uses, registered>>

\* push: a refusal by _entry_locked burns nothing but counts as activity of an
\* open session; a refusal after it burns the key.
Push(k, meta, payload) ==
  LET r == Cleanup(rdv)
      e == WithEntry(r, k)
  IN
  /\ \/ /\ ~IsOpen(r, k[1])
        /\ rdv' = r
     \/ /\ IsOpen(r, k[1])
        /\ ~CanHaveEntry(r, k)
        /\ rdv' = Touch(r, k[1])
     \/ /\ IsOpen(r, k[1])
        /\ CanHaveEntry(r, k)
        /\ rdv' = IF CanPush(e, k, meta, payload) THEN Pushed(e, k, meta, payload)
                                                  ELSE Burn(e, {k})
  /\ UNCHANGED <<req, uses, registered>>

Settle(p, st) == req' = [req EXCEPT ![p] = Settled(st)]

\* activate, with the same two kinds of refusal.
Activate(p, k, meta) ==
  LET r == Cleanup(rdv)
      e == WithEntry(r, k)
  IN
  /\ req[p].st = "idle"
  /\ \/ /\ ~IsOpen(r, k[1])
        /\ rdv' = r
        /\ Settle(p, "failed")
     \/ /\ IsOpen(r, k[1])
        /\ ~CanHaveEntry(r, k)
        /\ rdv' = Touch(r, k[1])
        /\ Settle(p, "failed")
     \/ /\ IsOpen(r, k[1])
        /\ CanHaveEntry(r, k)
        /\ ~CanActivate(e, k, meta)
        /\ rdv' = Burn(e, {k})
        /\ Settle(p, "failed")
     \/ /\ IsOpen(r, k[1])
        /\ CanHaveEntry(r, k)
        /\ CanActivate(e, k, meta)
        /\ rdv' = Activated(e, k, meta, p)
        /\ req' = [req EXCEPT ![p] = [st |-> "active", key |-> k, meta |-> meta]]
  /\ UNCHANGED <<uses, registered>>

Holding(p) == Holds(rdv, req[p].key, p)

\* correction(), first critical section: the entry must still be this one.
AwaitCorrection(p) ==
  /\ req[p].st = "active"
  /\ req' = [req EXCEPT ![p] =
       IF Holding(p) THEN [@ EXCEPT !.st = "waiting"] ELSE Settled("failed")]
  /\ UNCHANGED <<rdv, uses, registered>>

\* Mutant of TakeCorrection: no second look at the entry after the await.
TakeUnchecked(p) ==
  LET k == req[p].key IN
  /\ req[p].st = "waiting"
  /\ Holding(p) => rdv.entries[k].correction # NoMeta
  /\ rdv' = Burn(rdv, {k})
  /\ uses' = [uses EXCEPT ![k] = @ + 1]
  /\ Settle(p, "done")
  /\ UNCHANGED registered

\* correction(), second critical section, once the future has a result.  An
\* entry popped meanwhile leaves a cancelled or a stale future: both fail.
TakeCorrection(p) ==
  LET k == req[p].key
      matches == rdv.entries[k].correction = req[p].meta
  IN
  /\ req[p].st = "waiting"
  /\ \/ /\ Holding(p)
        /\ rdv.entries[k].correction # NoMeta
        /\ rdv' = Burn(rdv, {k})
        /\ uses' = IF matches THEN [uses EXCEPT ![k] = @ + 1] ELSE uses
        /\ Settle(p, IF matches THEN "done" ELSE "failed")
     \/ /\ ~Holding(p)
        /\ Settle(p, "failed")
        /\ UNCHANGED <<rdv, uses>>
  /\ UNCHANGED registered

\* Mutant of TimeOut: the coroutine waits without a deadline.
TimeOutNever(p) == FALSE /\ Settle(p, "failed") /\ UNCHANGED <<rdv, uses, registered>>

\* wait_for runs out: its deadline is the entry's age, and a result that is
\* just there may still lose against it.
TimeOut(p) ==
  /\ req[p].st = "waiting"
  /\ Holding(p)
  /\ rdv.entries[req[p].key].age = Timeout
  /\ rdv' = Abort(rdv, req[p].key, p)
  /\ Settle(p, "failed")
  /\ UNCHANGED <<uses, registered>>

\* The request is dropped before or while it waits: the task is cancelled, or
\* the caller gives up on a batch of which another request failed.
AbortRequest(p) ==
  /\ req[p].st \in {"active", "waiting"}
  /\ rdv' = Abort(rdv, req[p].key, p)
  /\ Settle(p, "failed")
  /\ UNCHANGED <<uses, registered>>

ConsumePreloadedBatch(s, A, meta) ==
  LET r == Cleanup(rdv) IN
  /\ \/ /\ ~BatchIsOpen(r, s, meta)
        /\ rdv' = r
        /\ UNCHANGED uses
     \/ /\ BatchIsOpen(r, s, meta)
        /\ ~BatchIsReady(r, s, A, meta)
        /\ rdv' = Burn(r, {s} \X A)
        /\ UNCHANGED uses
     \/ /\ BatchIsOpen(r, s, meta)
        /\ BatchIsReady(r, s, A, meta)
        /\ rdv' = ConsumeBatch(r, s, A)
        /\ uses' = [k \in Key |-> IF k \in {s} \X A THEN uses[k] + 1 ELSE uses[k]]
  /\ UNCHANGED <<req, registered>>

BurnReservedRows(s, A) ==
  /\ rdv' = BurnReserved(rdv, s, A)
  /\ UNCHANGED <<req, uses, registered>>

TerminalSession(s) ==
  /\ rdv' = Terminal(rdv, {s})
  /\ UNCHANGED <<req, uses, registered>>

Close ==
  /\ rdv' = Empty
  /\ UNCHANGED <<req, uses, registered>>

Stats ==
  /\ rdv' = Cleanup(rdv)
  /\ UNCHANGED <<req, uses, registered>>

Tick ==
  /\ rdv' = Aged(rdv)
  /\ UNCHANGED <<req, uses, registered>>

-----------------------------------------------------------------------------
RequestStep(p) == AwaitCorrection(p) \/ TakeCorrection(p) \/ TimeOut(p)

SessionStep(s) ==
  \/ \E auth \in Authorization : RegisterSession(s, auth) \/ AuthorizeSession(s, auth)
  \/ \E A \in Bulk, meta \in Meta, payload \in Payload : PreloadBulk(s, A, meta, payload)
  \/ \E A \in Bulk, meta \in Meta : ConsumePreloadedBatch(s, A, meta)
  \/ \E A \in Bulk : BurnReservedRows(s, A)
  \/ TerminalSession(s)

KeyStep(k) ==
  \E meta \in Meta :
    \/ \E payload \in Payload : Push(k, meta, payload)
    \/ \E p \in Holder : Activate(p, k, meta)

Next ==
  \/ \E p \in Holder : RequestStep(p) \/ AbortRequest(p)
  \/ \E s \in Sid : SessionStep(s)
  \/ \E k \in Key : KeyStep(k)
  \/ Close
  \/ Stats
  \/ Tick

\* The event loop resumes a coroutine whose future or timer is due, and time
\* passes; nobody else has to do anything.
Fairness == WF_vars(Tick) /\ \A p \in Holder : WF_vars(RequestStep(p))

Spec == Init /\ [][Next]_vars /\ Fairness

-----------------------------------------------------------------------------
(* Properties.                                                             *)

RequestState == {"idle", "active", "waiting", "done", "failed"}

\* Dictionaries hold well-formed records.  (The byte counter is left to
\* ByteAccounting, which says more than its type.)
TypeOK ==
  /\ IsStore(rdv)
  /\ DOMAIN rdv.sessions \subseteq registered
  /\ req \in [Holder -> [st : RequestState, key : Key \cup {<<>>},
                         meta : Meta \cup {NoMeta}]]
  /\ uses \in [Key -> Nat]
  /\ registered \subseteq Sid

\* A correction is handed out at most once, whatever mix of activations,
\* batches, replays, timeouts and aborts reaches its key (_burn_locked,
\* correction, consume_preloaded_batch).
OneUse == \A k \in Key : uses[k] <= 1

\* _bytes is always the sum over the stored entries and never passes
\* max_bytes: no path of push, preload_bulk, _burn_locked, _terminal_locked
\* leaks or double-frees a byte, the uneven divmod shares included.
ByteAccounting ==
  /\ rdv.bytes = EntryBytes(rdv, DOMAIN rdv.entries)
  /\ rdv.bytes \in 0..MaxBytes

\* No entry outlives its session or precedes its authorization, and a burned
\* attempt has no entry: terminal, close and idle expiry take everything along.
EntriesAreAuthorized == IsSound(rdv)

\* A correction leaves the store only towards an authorized live session, and
\* never for an attempt that was burned, timed out or ended with its session.
UseIsAuthorized ==
  [][\A k \in Key : uses'[k] # uses[k] =>
       IsOpen(rdv, k[1]) /\ ~IsVoid(rdv, k)]_vars

\* Every request that awaits a correction gets it or an error: by the push, by
\* the timeout, or because its entry was burned under it (correction).
WaitersSettle ==
  \A p \in Holder : req[p].st \in {"active", "waiting"} ~> req[p].st \in {"done", "failed"}

\* A key is void once it is burned or its session is gone.
KeyStatus(k) ==
  IF uses[k] = 1 THEN "spent"
  ELSE IF uses[k] > 1 THEN "spent twice"
  ELSE IF k[1] \in registered /\ IsVoid(rdv, k) THEN "void" ELSE "unused"

SessionOf(k) == k[1]

Material == INSTANCE OneTimeMaterial WITH
  Material <- Key, Owner <- Sid, OwnerOf <- SessionOf,
  status <- [k \in Key |-> KeyStatus(k)]

\* The rendezvous implements a store of one-time material whose owners are the
\* sessions: every step spends unused attempts of one session, voids, or both.
ImplementsOneTimeMaterial == Material!Spec
=============================================================================
