-------------------- MODULE CorrectionRendezvous_proofs ---------------------
(***************************************************************************)
(* For every number of sessions, attempts and requests and for all limits: *)
(* the rendezvous hands out a correction at most once, only to an          *)
(* authorized live session, and implements OneTimeMaterial.                *)
(*                                                                         *)
(* The second part is about the same material at the client, the rows of   *)
(* an inventory (PreparedRows), for any leases, stages and numbers of rows.*)
(***************************************************************************)
EXTENDS CorrectionRendezvous, PreparedRows, Rendezvous_proofs

-----------------------------------------------------------------------------
(* The specification.  SpentIsVoid is what makes OneUse inductive: a key    *)
(* that was handed out can have no entry, now or ever.                     *)

SpentIsVoid ==
  \A k \in Key : uses[k] # 0 => uses[k] = 1 /\ k[1] \in registered /\ IsVoid(rdv, k)

IInv == TypeOK /\ EntriesAreAuthorized /\ SpentIsVoid

RequestType == [st : RequestState, key : Key \cup {<<>>}, meta : Meta \cup {NoMeta}]

\* What a step does to the store: it evolves, or a new session is registered.
StoreShape ==
  \/ Evolves(Authorization, rdv, rdv') /\ registered' = registered
  \/ \E s \in Sid \ registered :
       /\ registered' = registered \cup {s}
       /\ IsStoreOf(Authorization, rdv') /\ IsSound(rdv')
       /\ DOMAIN rdv'.sessions \subseteq DOMAIN rdv.sessions \cup {s}
       /\ \A k \in Key : k[1] # s /\ IsVoid(rdv, k) => IsVoid(rdv', k)

\* What a step spends: keys of one session that were open and become void.
Spends(S, s) ==
  /\ S \subseteq {k \in Key : k[1] = s}
  /\ uses' = [k \in Key |-> IF k \in S THEN uses[k] + 1 ELSE uses[k]]
  /\ \A k \in S : IsOpen(rdv, s) /\ ~IsVoid(rdv, k) /\ IsVoid(rdv', k)

StepShape ==
  /\ StoreShape
  /\ req' \in [Holder -> RequestType]
  /\ uses' = uses \/ \E s \in Sid, S \in SUBSET Key : Spends(S, s)

\* The usual case: the store evolves, nothing is spent.
LEMMA QuietStep ==
  ASSUME Evolves(Authorization, rdv, rdv'), registered' = registered, uses' = uses,
         req' \in [Holder -> RequestType]
  PROVE  StepShape
BY DEF StepShape, StoreShape

\* A request that settles keeps its type.
LEMMA SettleType ==
  ASSUME TypeOK, NEW p \in Holder, NEW st \in RequestState, Settle(p, st)
  PROVE  req' \in [Holder -> RequestType]
BY DEF TypeOK, Settle, Settled, RequestType

\* The store after _cleanup_locked, with which most operations begin.
LEMMA CleanStore ==
  ASSUME IInv
  PROVE  /\ IsStoreOf(Authorization, rdv) /\ IsSound(rdv)
         /\ Evolves(Authorization, rdv, Cleanup(rdv))
         /\ IsStoreOf(Authorization, Cleanup(rdv)) /\ IsSound(Cleanup(rdv))
         /\ \A s : IsOpen(Cleanup(rdv), s) => IsOpen(rdv, s)
BY CleanupEvolves, StoresAgree DEF IInv, TypeOK, EntriesAreAuthorized, Evolves

\* A step that leaves the requests alone leaves them well typed.
LEMMA RequestTyped ==
  ASSUME IInv, req' = req
  PROVE  req' \in [Holder -> RequestType]
BY DEF IInv, TypeOK, RequestType

-----------------------------------------------------------------------------
(* One lemma per operation: its steps have the shape above.                *)

\* register_session registers a session whose id was never used.
LEMMA RegisterShape ==
  ASSUME IInv, NEW s \in Sid, NEW auth \in Authorization, RegisterSession(s, auth)
  PROVE  StepShape
<1> DEFINE r == Cleanup(rdv)
<1>1. IsStoreOf(Authorization, r) /\ IsSound(r) /\ Evolves(Authorization, rdv, r)
  BY CleanStore
<1>2. req' \in [Holder -> RequestType] /\ uses' = uses
  BY RequestTyped DEF RegisterSession
<1>3. CASE ~CanRegister(r, s)
  BY <1>1, <1>2, <1>3, QuietStep DEF RegisterSession
<1>4. CASE CanRegister(r, s)
  <2> HIDE DEF r
  <2>1. /\ rdv' = Register(r, s, auth)
        /\ registered' = registered \cup {s}
        /\ s \notin registered
    BY <1>4 DEF RegisterSession, r
  <2>2. /\ IsStoreOf(Authorization, rdv') /\ IsSound(rdv')
        /\ DOMAIN rdv'.sessions = DOMAIN r.sessions \cup {s}
        /\ \A k \in Key : k[1] # s => (IsVoid(r, k) <=> IsVoid(rdv', k))
    BY <1>1, <1>4, <2>1, RegisterEvolves DEF CanRegister
  <2>3. DOMAIN rdv'.sessions \subseteq DOMAIN rdv.sessions \cup {s}
    BY <1>1, <2>2 DEF Evolves
  <2>4. \A k \in Key : k[1] # s /\ IsVoid(rdv, k) => IsVoid(rdv', k)
    BY <1>1, <2>2 DEF Evolves
  <2> QED
    BY <1>2, <2>1, <2>2, <2>3, <2>4 DEF StepShape, StoreShape
<1> QED
  BY <1>3, <1>4

\* authorize_session opens a registered session.
LEMMA AuthorizeShape ==
  ASSUME IInv, NEW s \in Sid, NEW auth \in Authorization, AuthorizeSession(s, auth)
  PROVE  StepShape
<1> DEFINE r == Cleanup(rdv)
<1>1. IsStoreOf(Authorization, r) /\ IsSound(r) /\ Evolves(Authorization, rdv, r)
  BY CleanStore
<1>2. CanAuthorize(r, s, auth) => Evolves(Authorization, r, Authorize(r, s))
  BY <1>1, AuthorizeEvolves DEF CanAuthorize
<1>3. Evolves(Authorization, rdv, rdv')
  BY <1>1, <1>2, EvolvesTransitive DEF AuthorizeSession
<1> QED
  BY <1>3, RequestTyped, QuietStep DEF AuthorizeSession

\* preload_bulk adds all rows or none.
LEMMA PreloadShape ==
  ASSUME IInv, NEW s \in Sid, NEW A \in Bulk, NEW meta \in Meta, NEW payload \in Payload,
         PreloadBulk(s, A, meta, payload)
  PROVE  StepShape
<1> DEFINE r == Cleanup(rdv)
<1>1. IsStoreOf(Authorization, r) /\ IsSound(r) /\ Evolves(Authorization, rdv, r)
  BY CleanStore
<1>2. CanPreload(r, s, A, meta, payload) => Evolves(Authorization, r, Preload(r, s, A, meta, payload))
  <2> HIDE DEF r
  <2> QED
    BY <1>1, PreloadEvolves, PayloadsArePositive DEF Bulk
<1>3. Evolves(Authorization, rdv, rdv')
  BY <1>1, <1>2, EvolvesTransitive DEF PreloadBulk
<1> QED
  BY <1>3, RequestTyped, QuietStep DEF PreloadBulk

\* push stores a correction or burns its key.
LEMMA PushShape ==
  ASSUME IInv, NEW k \in Key, NEW meta \in Meta, NEW payload \in Payload,
         Push(k, meta, payload)
  PROVE  StepShape
<1> SUFFICES Evolves(Authorization, rdv, rdv')
  BY RequestTyped, QuietStep DEF Push
<1> DEFINE r == Cleanup(rdv)
           e == WithEntry(r, k)
<1>1. IsStoreOf(Authorization, r) /\ IsSound(r) /\ Evolves(Authorization, rdv, r)
  BY CleanStore
<1> HIDE DEF r
<1>2. CASE ~IsOpen(r, k[1]) /\ rdv' = r
  BY <1>1, <1>2
<1>3. CASE IsOpen(r, k[1]) /\ rdv' = Touch(r, k[1])
  BY <1>1, <1>3, TouchEvolves, EvolvesTransitive DEF IsOpen
<1>4. CASE IsOpen(r, k[1]) /\ CanHaveEntry(r, k)
           /\ rdv' = IF CanPush(e, k, meta, payload) THEN Pushed(e, k, meta, payload)
                                                     ELSE Burn(e, {k})
  <2>1. Evolves(Authorization, r, e) /\ k \in DOMAIN e.entries
    BY <1>1, <1>4, WithEntryEvolves
  <2> HIDE DEF e
  <2>2. IsStoreOf(Authorization, e) /\ IsSound(e)
    BY <2>1 DEF Evolves
  <2>3. Evolves(Authorization, e, Pushed(e, k, meta, payload)) /\ Evolves(Authorization, e, Burn(e, {k}))
    BY <2>1, <2>2, PushedEvolves, BurnEvolves, PayloadsArePositive
  <2>4. Evolves(Authorization, e, rdv')
    BY <1>4, <2>3
  <2> QED
    BY <1>1, <2>1, <2>4, EvolvesTransitive
<1> QED
  BY <1>2, <1>3, <1>4 DEF Push, r, e

\* activate marks an entry, burns its key, or is refused.
LEMMA ActivateShape ==
  ASSUME IInv, NEW p \in Holder, NEW k \in Key, NEW meta \in Meta, Activate(p, k, meta)
  PROVE  StepShape
<1>0. req' \in [Holder -> RequestType]
  <2>1. CASE Settle(p, "failed")
    BY <2>1, SettleType DEF IInv, RequestState
  <2>2. CASE req' = [req EXCEPT ![p] = [st |-> "active", key |-> k, meta |-> meta]]
    BY <2>2 DEF IInv, TypeOK, RequestType, RequestState
  <2> QED
    BY <2>1, <2>2 DEF Activate
<1> SUFFICES Evolves(Authorization, rdv, rdv')
  BY <1>0, QuietStep DEF Activate
<1> DEFINE r == Cleanup(rdv)
           e == WithEntry(r, k)
<1>1. IsStoreOf(Authorization, r) /\ IsSound(r) /\ Evolves(Authorization, rdv, r)
  BY CleanStore
<1> HIDE DEF r
<1>2. CASE ~IsOpen(r, k[1]) /\ rdv' = r
  BY <1>1, <1>2
<1>3. CASE IsOpen(r, k[1]) /\ rdv' = Touch(r, k[1])
  BY <1>1, <1>3, TouchEvolves, EvolvesTransitive DEF IsOpen
<1>4. CASE IsOpen(r, k[1]) /\ CanHaveEntry(r, k)
           /\ (rdv' = Burn(e, {k}) \/ rdv' = Activated(e, k, meta, p))
  <2>1. Evolves(Authorization, r, e) /\ k \in DOMAIN e.entries
    BY <1>1, <1>4, WithEntryEvolves
  <2> HIDE DEF e
  <2>2. IsStoreOf(Authorization, e) /\ IsSound(e)
    BY <2>1 DEF Evolves
  <2>3. Evolves(Authorization, e, Activated(e, k, meta, p)) /\ Evolves(Authorization, e, Burn(e, {k}))
    BY <2>1, <2>2, ActivatedEvolves, BurnEvolves
  <2>4. Evolves(Authorization, e, rdv')
    BY <1>4, <2>3
  <2> QED
    BY <1>1, <2>1, <2>4, EvolvesTransitive
<1> QED
  BY <1>2, <1>3, <1>4 DEF Activate, r, e

\* correction(), first half: only the request moves.
LEMMA AwaitShape ==
  ASSUME IInv, NEW p \in Holder, AwaitCorrection(p)
  PROVE  StepShape
<1>1. req' \in [Holder -> RequestType]
  BY DEF IInv, TypeOK, AwaitCorrection, Settled, RequestType, RequestState
<1>2. Evolves(Authorization, rdv, rdv')
  BY StoresAgree DEF IInv, TypeOK, EntriesAreAuthorized, AwaitCorrection, Evolves
<1> QED
  BY <1>1, <1>2, QuietStep DEF AwaitCorrection

\* A deadline that passes, or a request that is cancelled, only drops entries
\* of its own waiter: the step has the shape the invariant needs.
LEMMA TimeOutShape ==
  ASSUME IInv, NEW p \in Holder, TimeOut(p) \/ AbortRequest(p)
  PROVE  StepShape
<1>1. req' \in [Holder -> RequestType]
  BY SettleType DEF IInv, TimeOut, AbortRequest, RequestState
<1>2. Evolves(Authorization, rdv, rdv')
  BY CleanStore, AbortEvolves DEF TimeOut, AbortRequest
<1> QED
  BY <1>1, <1>2, QuietStep DEF TimeOut, AbortRequest

\* correction(), second half: spends the key of the entry it holds.
LEMMA TakeShape ==
  ASSUME IInv, NEW p \in Holder, TakeCorrection(p)
  PROVE  StepShape
<1> DEFINE k == req[p].key
<1>1. req' \in [Holder -> RequestType]
  BY SettleType DEF IInv, TakeCorrection, RequestState
<1>2. registered' = registered
  BY DEF TakeCorrection
<1>3. IsStoreOf(Authorization, rdv) /\ IsSound(rdv)
  BY CleanStore
<1>4. CASE ~Holding(p)
  <2>1. Evolves(Authorization, rdv, rdv')
    BY <1>3, <1>4 DEF TakeCorrection, Evolves
  <2> QED
    BY <1>1, <1>2, <1>4, <2>1, QuietStep DEF TakeCorrection
<1>5. CASE Holding(p)
  <2>1. k \in DOMAIN rdv.entries /\ rdv' = Burn(rdv, {k})
    BY <1>5 DEF TakeCorrection, Holding, Holds
  <2>2. k \in Key
    BY <1>3, <2>1 DEF IsStoreOf
  <2>3. Evolves(Authorization, rdv, rdv') /\ IsVoid(rdv', k)
    BY <1>3, <2>1, <2>2, BurnEvolves
  <2>4. IsOpen(rdv, k[1]) /\ ~IsVoid(rdv, k)
    BY <1>3, <2>1, EntryIsOpen
  <2>5. uses' = uses \/ uses' = [uses EXCEPT ![k] = @ + 1]
    BY <1>5 DEF TakeCorrection
  <2>6. uses' = uses \/ Spends({k}, k[1])
    <3>1. uses \in [Key -> Nat]
      BY DEF IInv, TypeOK
    <3> HIDE DEF k
    <3> QED
      BY <2>2, <2>3, <2>4, <2>5, <3>1 DEF Spends
  <2>7. k[1] \in Sid
    BY <2>2 DEF Key
  <2> HIDE DEF k
  <2> QED
    BY <1>1, <1>2, <2>2, <2>3, <2>6, <2>7 DEF StepShape, StoreShape
<1> QED
  BY <1>4, <1>5

\* consume_preloaded_batch: spends all rows, burns all rows, or is refused.
LEMMA BatchShape ==
  ASSUME IInv, NEW s \in Sid, NEW A \in Bulk, NEW meta \in Meta,
         ConsumePreloadedBatch(s, A, meta)
  PROVE  StepShape
<1> DEFINE r == Cleanup(rdv)
           K == {s} \X A
<1>1. /\ IsStoreOf(Authorization, r) /\ IsSound(r) /\ Evolves(Authorization, rdv, r)
      /\ \A t : IsOpen(r, t) => IsOpen(rdv, t)
  BY CleanStore
<1>2. req' \in [Holder -> RequestType] /\ registered' = registered
  BY RequestTyped DEF ConsumePreloadedBatch
<1>3. K \in SUBSET Key /\ \A k \in K : k[1] = s /\ k = <<s, k[2]>> /\ k[2] \in A
  BY DEF Key, Bulk
<1>4. Evolves(Authorization, r, Burn(r, K)) /\ \A k \in K : IsVoid(Burn(r, K), k)
  <2> HIDE DEF r, K
  <2> QED
    BY <1>1, <1>3, BurnEvolves
<1>5. CASE uses' = uses /\ (rdv' = r \/ rdv' = Burn(r, K))
  <2>1. Evolves(Authorization, rdv, rdv')
    BY <1>1, <1>4, <1>5, EvolvesTransitive
  <2> QED
    BY <1>2, <1>5, <2>1, QuietStep
<1>6. CASE /\ BatchIsOpen(r, s, meta) /\ BatchIsReady(r, s, A, meta)
           /\ rdv' = ConsumeBatch(r, s, A)
           /\ uses' = [k \in Key |-> IF k \in K THEN uses[k] + 1 ELSE uses[k]]
  <2> DEFINE b == Burn(r, K)
  <2>1. s \in DOMAIN r.sessions /\ IsOpen(rdv, s)
    BY <1>1, <1>6 DEF BatchIsOpen, IsOpen
  <2>2. DOMAIN b.sessions = DOMAIN r.sessions
    <3> HIDE DEF r, K
    <3> QED
      BY <1>1, BurnEvolves
  <2>3. rdv' = Touch(b, s)
    BY <1>6 DEF ConsumeBatch
  <2> HIDE DEF r, K, b
  <2>4. Evolves(Authorization, r, b) /\ IsStoreOf(Authorization, b) /\ IsSound(b) /\ \A k \in K : IsVoid(b, k)
    BY <1>4 DEF Evolves, b
  <2>5. Evolves(Authorization, b, rdv')
    BY <2>1, <2>2, <2>3, <2>4, TouchEvolves
  <2>6. Evolves(Authorization, rdv, rdv')
    BY <1>1, <2>4, <2>5, EvolvesTransitive
  <2>7. \A k \in K : IsVoid(rdv', k)
    BY <1>3, <2>4, <2>5 DEF Evolves
  <2>8. \A k \in K : ~IsVoid(rdv, k)
    <3> TAKE k \in K
    <3>1. k \in DOMAIN r.entries
      BY <1>3, <1>6 DEF BatchIsReady
    <3>2. ~IsVoid(r, k)
      BY <1>1, <3>1, EntryIsOpen
    <3> QED
      BY <1>1, <1>3, <3>2 DEF Evolves
  <2>9. Spends(K, s)
    BY <1>3, <1>6, <2>1, <2>7, <2>8 DEF Spends
  <2> QED
    BY <1>2, <1>3, <2>6, <2>9 DEF StepShape, StoreShape
<1> QED
  BY <1>5, <1>6 DEF ConsumePreloadedBatch

\* burn_reserved, terminal, close, stats and the clock spend nothing.
LEMMA HousekeepingShape ==
  ASSUME IInv,
         \/ \E s \in Sid : TerminalSession(s) \/ \E A \in Bulk : BurnReservedRows(s, A)
         \/ Close \/ Stats \/ Tick
  PROVE  StepShape
<1>1. req' = req /\ uses' = uses /\ registered' = registered
  BY DEF TerminalSession, BurnReservedRows, Close, Stats, Tick
<1>2. IsStoreOf(Authorization, rdv) /\ IsSound(rdv)
  BY CleanStore
<1> SUFFICES Evolves(Authorization, rdv, rdv')
  BY <1>1, RequestTyped, QuietStep
<1>3. ASSUME NEW s \in Sid, TerminalSession(s) PROVE Evolves(Authorization, rdv, rdv')
  BY <1>2, <1>3, TerminalEvolves DEF TerminalSession
<1>4. ASSUME NEW s \in Sid, NEW A \in Bulk, BurnReservedRows(s, A) PROVE Evolves(Authorization, rdv, rdv')
  BY <1>2, <1>4, BurnEvolves DEF BurnReservedRows, BurnReserved
<1>5. ASSUME Close PROVE Evolves(Authorization, rdv, rdv')
  <2>1. /\ rdv' = Store(rdv'.sessions, rdv'.entries, rdv'.bytes)
        /\ rdv'.sessions = [s \in {} |-> {}]
        /\ rdv'.entries = [k \in {} |-> {}]
    BY <1>5 DEF Close, Empty, Store
  <2>2. IsStoreOf(Authorization, rdv')
    BY <2>1 DEF IsStoreOf
  <2>3. IsSound(rdv')
    BY <2>1 DEF IsSound
  <2> QED
    BY <2>1, <2>2, <2>3 DEF Evolves, IsVoid, HadEntry
<1>6. ASSUME Stats PROVE Evolves(Authorization, rdv, rdv')
  BY <1>6, CleanStore DEF Stats
<1>7. ASSUME Tick PROVE Evolves(Authorization, rdv, rdv')
  BY <1>2, <1>7, AgedEvolves DEF Tick
<1> QED
  BY <1>3, <1>4, <1>5, <1>6, <1>7

\* Every step of the specification has the shape.
LEMMA NextShape ==
  ASSUME IInv, Next
  PROVE  StepShape
<1>1. ASSUME NEW p \in Holder, RequestStep(p) \/ AbortRequest(p) PROVE StepShape
  BY <1>1, AwaitShape, TakeShape, TimeOutShape DEF RequestStep
<1>2. ASSUME NEW s \in Sid, SessionStep(s) PROVE StepShape
  BY <1>2, RegisterShape, AuthorizeShape, PreloadShape, BatchShape, HousekeepingShape
     DEF SessionStep
<1>3. ASSUME NEW k \in Key, KeyStep(k) PROVE StepShape
  BY <1>3, PushShape, ActivateShape DEF KeyStep
<1> QED
  BY <1>1, <1>2, <1>3, HousekeepingShape DEF Next

-----------------------------------------------------------------------------
(* The theorems.                                                           *)

\* The empty rendezvous, with no request in flight, satisfies the invariant.
LEMMA InitInv ==
  ASSUME Init
  PROVE  IInv
<1>1. /\ rdv = Store(rdv.sessions, rdv.entries, rdv.bytes)
      /\ rdv.sessions = [s \in {} |-> {}]
      /\ rdv.entries = [k \in {} |-> {}]
  BY DEF Init, Empty, Store
<1>2. IsStoreOf(Authorization, rdv)
  BY <1>1 DEF IsStoreOf
<1>3. IsSound(rdv)
  BY <1>1 DEF IsSound
<1>4. req \in [Holder -> RequestType] /\ uses = [k \in Key |-> 0] /\ registered = {}
  BY DEF Init, Settled, RequestType, RequestState
<1> QED
  BY <1>1, <1>2, <1>3, <1>4, StoresAgree
     DEF IInv, TypeOK, EntriesAreAuthorized, SpentIsVoid, RequestType

\* A step of the shape every operation has keeps the invariant.
LEMMA StepInv ==
  ASSUME IInv, StepShape
  PROVE  IInv'
<1>1. /\ IsStoreOf(Authorization, rdv') /\ IsSound(rdv')
      /\ DOMAIN rdv'.sessions \subseteq registered'
      /\ registered \subseteq registered' /\ registered' \subseteq Sid
  BY DEF StepShape, StoreShape, Evolves, IInv, TypeOK
<1>2. \A k \in Key : k[1] \in registered /\ IsVoid(rdv, k) => IsVoid(rdv', k)
  BY DEF StepShape, StoreShape, Evolves
<1>3. uses \in [Key -> Nat] /\ \A k \in Key : uses[k] # 0 =>
        uses[k] = 1 /\ k[1] \in registered /\ IsVoid(rdv, k)
  BY DEF IInv, TypeOK, SpentIsVoid
<1>4. CASE uses' = uses
  BY <1>1, <1>2, <1>3, <1>4, StoresAgree
     DEF StepShape, IInv, TypeOK, EntriesAreAuthorized, SpentIsVoid, RequestType
<1>5. CASE \E s \in Sid, S \in SUBSET Key : Spends(S, s)
  <2> PICK s \in Sid, S \in SUBSET Key : Spends(S, s)
    BY <1>5
  <2>1. uses' \in [Key -> Nat]
    BY <1>3 DEF Spends
  <2>2. \A k \in S : uses'[k] = 1 /\ k[1] \in registered' /\ IsVoid(rdv', k)
    <3> TAKE k \in S
    <3>1. uses[k] = 0 /\ uses'[k] = uses[k] + 1 /\ k[1] = s
      BY <1>3 DEF Spends
    <3>2. s \in registered
      BY DEF Spends, IsOpen, IInv, TypeOK
    <3> QED
      BY <1>1, <3>1, <3>2 DEF Spends
  <2>3. \A k \in Key \ S : uses'[k] = uses[k]
    BY DEF Spends
  <2>4. \A k \in Key : uses'[k] # 0 =>
          uses'[k] = 1 /\ k[1] \in registered' /\ IsVoid(rdv', k)
    BY <1>1, <1>2, <1>3, <2>2, <2>3
  <2> QED
    BY <1>1, <2>1, <2>4, StoresAgree
       DEF StepShape, IInv, TypeOK, EntriesAreAuthorized, SpentIsVoid, RequestType
<1> QED
  BY <1>4, <1>5 DEF StepShape

\* The invariant holds in every reachable state, for all values of the
\* constants.
THEOREM Invariance == Spec => []IInv
<1>1. Init => IInv
  BY InitInv
<1>2. IInv /\ [Next]_vars => IInv'
  <2> SUFFICES ASSUME IInv, [Next]_vars PROVE IInv'
    OBVIOUS
  <2>1. CASE Next
    BY <2>1, NextShape, StepInv
  <2>2. CASE UNCHANGED vars
    BY <2>2 DEF vars, IInv, TypeOK, EntriesAreAuthorized, SpentIsVoid
  <2> QED
    BY <2>1, <2>2
<1> QED
  BY <1>1, <1>2, PTL DEF Spec

\* The store stays a dictionary of well-formed sessions and entries.
THEOREM TypeCorrect == Spec => []TypeOK
<1>1. IInv => TypeOK
  BY DEF IInv
<1> QED
  BY <1>1, Invariance, PTL

\* No correction is handed out twice by correction() or consume_preloaded_batch.
THEOREM HandedOutOnce == Spec => []OneUse
<1>1. IInv => OneUse
  BY DEF IInv, TypeOK, SpentIsVoid, OneUse
<1> QED
  BY <1>1, Invariance, PTL

\* No entry outlives its session, and no burned attempt has one.
THEOREM NoOrphanEntries == Spec => []EntriesAreAuthorized
<1>1. IInv => EntriesAreAuthorized
  BY DEF IInv
<1> QED
  BY <1>1, Invariance, PTL

\* A correction leaves the store only for an open session and a live attempt.
THEOREM OnlyAuthorizedUse == Spec => UseIsAuthorized
<1> DEFINE A == \A k \in Key : uses'[k] # uses[k] => IsOpen(rdv, k[1]) /\ ~IsVoid(rdv, k)
<1>1. IInv /\ [Next]_vars => [A]_vars
  <2> SUFFICES ASSUME IInv, Next PROVE A
    BY DEF vars
  <2>1. StepShape
    BY NextShape
  <2> QED
    BY <2>1 DEF StepShape, Spends
<1> QED
  BY <1>1, Invariance, PTL DEF Spec, UseIsAuthorized

\* Every step spends unused keys of one session, voids keys, or does nothing
\* to them: the step of OneTimeMaterial it implements.
LEMMA StepSimulates ==
  ASSUME IInv, IInv', StepShape
  PROVE  Material!Next \/ [k \in Key |-> KeyStatus(k)]' = [k \in Key |-> KeyStatus(k)]
<1> DEFINE st == [k \in Key |-> KeyStatus(k)]
<1>1. \A k \in Key : uses[k] \in {0, 1} /\ uses'[k] \in {0, 1}
  BY DEF IInv, TypeOK, SpentIsVoid
<1>2. /\ \A k \in Key : st[k] = KeyStatus(k) /\ st'[k] = KeyStatus(k)'
      /\ st' = [k \in Key |-> KeyStatus(k)']
  OBVIOUS
<1>3. \A k \in Key : KeyStatus(k)' \in Material!Status
  BY <1>1 DEF KeyStatus, Material!Status
<1>4. \A k \in Key : uses'[k] # uses[k] => uses[k] = 0 /\ ~IsVoid(rdv, k)
  BY DEF StepShape, Spends, IInv, TypeOK, SpentIsVoid
<1>5. registered \subseteq registered' /\
      \A k \in Key : k[1] \in registered /\ IsVoid(rdv, k) => IsVoid(rdv', k)
  BY DEF StepShape, StoreShape, Evolves
<1>6. \A k \in Key : KeyStatus(k)' # KeyStatus(k) => KeyStatus(k) = "unused"
  <2> TAKE k \in Key
  <2>1. CASE uses[k] = 1
    BY <1>1, <1>4, <2>1 DEF KeyStatus
  <2>2. CASE uses[k] = 0 /\ k[1] \in registered /\ IsVoid(rdv, k)
    <3>1. uses'[k] = 0 /\ k[1] \in registered' /\ IsVoid(rdv', k)
      BY <1>1, <1>4, <1>5, <2>2
    <3>2. KeyStatus(k) = "void" /\ KeyStatus(k)' = "void"
      BY <2>2, <3>1 DEF KeyStatus, IsVoid
    <3> QED
      BY <3>2
  <2>3. CASE uses[k] = 0 /\ ~(k[1] \in registered /\ IsVoid(rdv, k))
    <3>1. KeyStatus(k) = "unused"
      BY <2>3 DEF KeyStatus
    <3> QED
      BY <3>1
  <2> QED
    BY <1>1, <2>1, <2>2, <2>3
<1>7. \A k \in Key : KeyStatus(k)' = "spent" /\ KeyStatus(k) # "spent" => uses'[k] # uses[k]
  BY <1>1 DEF KeyStatus
<1>8. CASE Sid = {}
  BY <1>8 DEF Key
<1>9. CASE Sid # {}
  <2>1. \E o \in Sid : \A k \in Key : uses'[k] # uses[k] => SessionOf(k) = o
    BY <1>9 DEF StepShape, Spends, SessionOf
  <2> HIDE DEF st
  <2>2. \E o \in Sid : \A k \in Key : st'[k] = "spent" /\ st[k] # "spent" => SessionOf(k) = o
    BY <1>2, <1>7, <2>1
  <2>3. st' \in [Key -> Material!Status]
    BY <1>2, <1>3
  <2>4. \A k \in Key : st'[k] # st[k] => st[k] = "unused"
    BY <1>2, <1>6
  <2> QED
    BY <2>2, <2>3, <2>4 DEF Material!Next, st
<1> QED
  BY <1>8, <1>9

\* The rendezvous implements a store of one-time material.
THEOREM Refinement == Spec => ImplementsOneTimeMaterial
<1>1. Init => Material!Init
  BY DEF Init, Material!Init, KeyStatus
<1>2. IInv /\ IInv' /\ [Next]_vars => [Material!Next]_([k \in Key |-> KeyStatus(k)])
  <2> SUFFICES ASSUME IInv, IInv', [Next]_vars
               PROVE  [Material!Next]_([k \in Key |-> KeyStatus(k)])
    OBVIOUS
  <2>1. CASE Next
    BY <2>1, NextShape, StepSimulates
  <2>2. CASE UNCHANGED vars
    BY <2>2 DEF vars, KeyStatus, IsVoid
  <2> QED
    BY <2>1, <2>2
<1> QED
  BY <1>1, <1>2, Invariance, PTL DEF Spec, ImplementsOneTimeMaterial, Material!Spec

-----------------------------------------------------------------------------
(* The byte counter: exact, and within the limit, after every critical      *)
(* section.  That entries without a correction count for nothing is what    *)
(* makes the sum inductive: push writes the size of such an entry.          *)

Counted == Exact(rdv) /\ rdv.bytes <= MaxBytes

\* Whatever only frees bytes keeps the counter exact and within its limit.
LEMMA FreesCounts ==
  ASSUME NEW G, NEW r, NEW q, IsStoreOf(G, r), Exact(r), IsStoreOf(G, q),
         Frees(r, q), r.bytes <= MaxBytes
  PROVE  Exact(q) /\ q.bytes <= MaxBytes
<1>1. r.bytes \in Nat /\ q.bytes \in Nat /\ MaxBytes \in Nat
  BY ExactIsNat, LimitsArePositive DEF Frees
<1> QED
  BY <1>1 DEF Frees

\* Most operations begin with _cleanup_locked; it frees.
LEMMA CleanCounts ==
  ASSUME IInv, Counted
  PROVE  Exact(Cleanup(rdv)) /\ Cleanup(rdv).bytes <= MaxBytes
<1>1. /\ IsStoreOf(Authorization, rdv) /\ IsSound(rdv)
      /\ IsStoreOf(Authorization, Cleanup(rdv))
  BY CleanStore
<1>2. Frees(rdv, Cleanup(rdv))
  BY <1>1, CleanupFrees DEF Counted
<1> QED
  BY <1>1, <1>2, FreesCounts DEF Counted

\* The operations on sessions keep the counter; preload_bulk adds its payload
\* only below max_bytes.
LEMMA SessionCounts ==
  ASSUME IInv, Counted, NEW s \in Sid, SessionStep(s)
  PROVE  Counted'
<1> DEFINE r == Cleanup(rdv)
<1>1. /\ IsStoreOf(Authorization, rdv) /\ IsSound(rdv)
      /\ IsStoreOf(Authorization, r) /\ IsSound(r)
      /\ Exact(r) /\ r.bytes <= MaxBytes
  BY CleanStore, CleanCounts
<1> HIDE DEF r
<1>2. ASSUME NEW auth \in Authorization, RegisterSession(s, auth) PROVE Counted'
  <2>1. CanRegister(r, s) =>
          IsStoreOf(Authorization, Register(r, s, auth)) /\ Frees(r, Register(r, s, auth))
    BY <1>1, RegisterEvolves, RegisterFrees DEF CanRegister
  <2> QED
    BY <1>1, <1>2, <2>1, FreesCounts DEF RegisterSession, Counted, r
<1>3. ASSUME NEW auth \in Authorization, AuthorizeSession(s, auth) PROVE Counted'
  <2>1. CanAuthorize(r, s, auth) =>
          IsStoreOf(Authorization, Authorize(r, s)) /\ Frees(r, Authorize(r, s))
    BY <1>1, AuthorizeEvolves, TouchFrees DEF CanAuthorize, Evolves
  <2> QED
    BY <1>1, <1>3, <2>1, FreesCounts DEF AuthorizeSession, Counted, r
<1>4. ASSUME NEW A \in Bulk, NEW meta \in Meta, NEW payload \in Payload,
             PreloadBulk(s, A, meta, payload)
      PROVE  Counted'
  <2>1. CASE ~CanPreload(r, s, A, meta, payload)
    BY <1>1, <1>4, <2>1 DEF PreloadBulk, Counted, r
  <2>2. CASE CanPreload(r, s, A, meta, payload)
    <3>1. rdv' = Preload(r, s, A, meta, payload)
      BY <1>4, <2>2 DEF PreloadBulk, r
    <3>2. Exact(rdv') /\ rdv'.bytes = r.bytes + payload
      <4>1. A \in SUBSET Attempt /\ A # {} /\ payload \in Nat
        BY PayloadsArePositive DEF Bulk
      <4> QED
        BY <1>1, <2>2, <3>1, <4>1, PreloadExact
    <3> QED
      BY <2>2, <3>2 DEF CanPreload, Counted
  <2> QED
    BY <2>1, <2>2
<1>5. ASSUME NEW A \in Bulk, NEW meta \in Meta, ConsumePreloadedBatch(s, A, meta) PROVE Counted'
  <2> DEFINE b == Burn(r, {s} \X A)
  <2>1. IsStoreOf(Authorization, b) /\ IsSound(b) /\ Frees(r, b) /\ DOMAIN b.sessions = DOMAIN r.sessions
    BY <1>1, BurnEvolves, BurnFrees DEF Evolves
  <2>2. Exact(b) /\ b.bytes <= MaxBytes
    BY <1>1, <2>1, FreesCounts
  <2>3. CASE rdv' = r \/ rdv' = b
    BY <1>1, <2>2, <2>3 DEF Counted
  <2>4. CASE BatchIsOpen(r, s, meta) /\ rdv' = Touch(b, s)
    <3>1. s \in DOMAIN b.sessions
      BY <2>1, <2>4 DEF BatchIsOpen, IsOpen
    <3> HIDE DEF b
    <3>2. IsStoreOf(Authorization, rdv') /\ Frees(b, rdv')
      BY <2>1, <2>2, <2>4, <3>1, TouchEvolves, TouchFrees DEF Evolves
    <3> QED
      BY <2>1, <2>2, <3>2, FreesCounts DEF Counted
  <2> QED
    BY <1>5, <2>3, <2>4 DEF ConsumePreloadedBatch, ConsumeBatch, r
<1>6. ASSUME NEW A \in Bulk, BurnReservedRows(s, A) PROVE Counted'
  <2>1. Frees(rdv, rdv') /\ IsStoreOf(Authorization, rdv')
    BY <1>1, <1>6, BurnEvolves, BurnFrees DEF BurnReservedRows, BurnReserved, Evolves, Counted
  <2> QED
    BY <1>1, <2>1, FreesCounts DEF Counted
<1>7. ASSUME TerminalSession(s) PROVE Counted'
  <2>1. Frees(rdv, rdv') /\ IsStoreOf(Authorization, rdv')
    BY <1>1, <1>7, TerminalEvolves, TerminalFrees DEF TerminalSession, Evolves, Counted
  <2> QED
    BY <1>1, <2>1, FreesCounts DEF Counted
<1> QED
  BY <1>2, <1>3, <1>4, <1>5, <1>6, <1>7 DEF SessionStep

\* push counts a correction only below max_bytes, activate counts nothing.
LEMMA KeyCounts ==
  ASSUME IInv, Counted, NEW k \in Key, KeyStep(k)
  PROVE  Counted'
<1> DEFINE r == Cleanup(rdv)
           e == WithEntry(r, k)
<1>1. IsStoreOf(Authorization, r) /\ IsSound(r) /\ Exact(r) /\ r.bytes <= MaxBytes
  BY CleanStore, CleanCounts
<1> HIDE DEF r
<1>2. ASSUME IsOpen(r, k[1])
      PROVE  IsStoreOf(Authorization, Touch(r, k[1])) /\ Frees(r, Touch(r, k[1]))
  BY <1>1, <1>2, TouchEvolves, TouchFrees DEF IsOpen, Evolves
<1>3. ASSUME IsOpen(r, k[1]), CanHaveEntry(r, k)
      PROVE  /\ IsStoreOf(Authorization, e) /\ IsSound(e) /\ k \in DOMAIN e.entries
             /\ Exact(e) /\ e.bytes <= MaxBytes
             /\ IsStoreOf(Authorization, Burn(e, {k})) /\ Frees(e, Burn(e, {k}))
  <2>1. IsStoreOf(Authorization, e) /\ IsSound(e) /\ k \in DOMAIN e.entries
    BY <1>1, <1>3, WithEntryEvolves DEF Evolves
  <2>2. Exact(e) /\ e.bytes <= MaxBytes
    BY <1>1, <2>1, WithEntryFrees, FreesCounts DEF Frees
  <2> HIDE DEF e
  <2> QED
    BY <2>1, <2>2, BurnEvolves, BurnFrees DEF Evolves
<1> HIDE DEF e
<1>4. ASSUME NEW meta \in Meta, NEW payload \in Payload, Push(k, meta, payload) PROVE Counted'
  <2>1. CASE ~IsOpen(r, k[1]) /\ rdv' = r
    BY <1>1, <2>1 DEF Counted
  <2>2. CASE IsOpen(r, k[1]) /\ rdv' = Touch(r, k[1])
    BY <1>1, <1>2, <2>2, FreesCounts DEF Counted
  <2>3. CASE IsOpen(r, k[1]) /\ CanHaveEntry(r, k) /\ rdv' = Burn(e, {k})
    BY <1>3, <2>3, FreesCounts DEF Counted
  <2>4. CASE IsOpen(r, k[1]) /\ CanHaveEntry(r, k) /\ CanPush(e, k, meta, payload)
             /\ rdv' = Pushed(e, k, meta, payload)
    <3>1. Exact(rdv') /\ rdv'.bytes = e.bytes + payload
      BY <1>3, <2>4, PushedExact, PayloadsArePositive DEF CanPush
    <3> QED
      BY <2>4, <3>1 DEF CanPush, Counted
  <2> QED
    BY <1>4, <2>1, <2>2, <2>3, <2>4 DEF Push, r, e
<1>5. ASSUME NEW meta \in Meta, NEW p \in Holder, Activate(p, k, meta) PROVE Counted'
  <2>1. CASE ~IsOpen(r, k[1]) /\ rdv' = r
    BY <1>1, <2>1 DEF Counted
  <2>2. CASE IsOpen(r, k[1]) /\ rdv' = Touch(r, k[1])
    BY <1>1, <1>2, <2>2, FreesCounts DEF Counted
  <2>3. CASE IsOpen(r, k[1]) /\ CanHaveEntry(r, k) /\ rdv' = Burn(e, {k})
    BY <1>3, <2>3, FreesCounts DEF Counted
  <2>4. CASE IsOpen(r, k[1]) /\ CanHaveEntry(r, k) /\ rdv' = Activated(e, k, meta, p)
    <3>1. IsStoreOf(Authorization, rdv') /\ Frees(e, rdv')
      BY <1>3, <2>4, ActivatedEvolves, ActivatedFrees DEF Evolves
    <3> QED
      BY <1>3, <2>4, <3>1, FreesCounts DEF Counted
  <2> QED
    BY <1>5, <2>1, <2>2, <2>3, <2>4 DEF Activate, r, e
<1> QED
  BY <1>4, <1>5 DEF KeyStep

\* Requests, close, stats and the clock only free bytes.
LEMMA OtherStepsCount ==
  ASSUME IInv, Counted,
         (\E p \in Holder : RequestStep(p) \/ AbortRequest(p)) \/ Close \/ Stats \/ Tick
  PROVE  Counted'
<1>1. IsStoreOf(Authorization, rdv) /\ IsSound(rdv) /\ Exact(rdv)
  BY CleanStore DEF Counted
<1>2. ASSUME IsStoreOf(Authorization, rdv'), Frees(rdv, rdv') PROVE Counted'
  BY <1>1, <1>2, FreesCounts DEF Counted
<1>3. ASSUME NEW p \in Holder, RequestStep(p) \/ AbortRequest(p) PROVE Counted'
  <2>1. CASE rdv' = rdv
    BY <2>1 DEF Counted
  <2>2. CASE rdv' = Burn(rdv, {req[p].key})
    BY <1>1, <1>2, <2>2, BurnEvolves, BurnFrees DEF Evolves
  <2>3. CASE rdv' = Abort(rdv, req[p].key, p)
    BY <1>1, <1>2, <2>3, AbortEvolves, AbortFrees DEF Evolves
  <2> QED
    BY <1>3, <2>1, <2>2, <2>3 DEF RequestStep, AwaitCorrection, TakeCorrection, TimeOut, AbortRequest
<1>4. ASSUME Close PROVE Counted'
  <2>1. rdv'.entries = [k \in {} |-> {}] /\ rdv'.bytes = 0
    BY <1>4 DEF Close, Empty, Store
  <2>2. SumBy(Sizes(rdv'), {}) = 0
    BY FS_EmptySet, SumStep
  <2> QED
    BY <2>1, <2>2, FS_EmptySet, LimitsArePositive DEF Counted, Exact
<1>5. ASSUME Stats PROVE Counted'
  BY <1>5, CleanCounts DEF Stats, Counted
<1>6. ASSUME Tick PROVE Counted'
  BY <1>1, <1>2, <1>6, AgedEvolves, AgedFrees DEF Tick, Evolves
<1> QED
  BY <1>3, <1>4, <1>5, <1>6 DEF Close, Stats, Tick

\* _bytes is exact and bounded in every reachable state, however the payload
\* of a bulk is split, and whatever burns, ends or expires in between.
THEOREM BytesAreExact == Spec => []ByteAccounting
<1>1. Init => Counted
  <2> SUFFICES ASSUME Init PROVE Counted
    OBVIOUS
  <2>1. rdv.entries = [k \in {} |-> {}] /\ rdv.bytes = 0
    BY DEF Init, Empty, Store
  <2>2. SumBy(Sizes(rdv), {}) = 0
    BY FS_EmptySet, SumStep
  <2> QED
    BY <2>1, <2>2, FS_EmptySet, LimitsArePositive DEF Counted, Exact
<1>2. IInv /\ Counted /\ [Next]_vars => Counted'
  <2> SUFFICES ASSUME IInv, Counted, [Next]_vars PROVE Counted'
    OBVIOUS
  <2>1. CASE Next
    BY <2>1, SessionCounts, KeyCounts, OtherStepsCount DEF Next
  <2>2. CASE UNCHANGED vars
    BY <2>2 DEF vars, Counted
  <2> QED
    BY <2>1, <2>2
<1>3. IInv /\ Counted => ByteAccounting
  <2> SUFFICES ASSUME IInv, Counted PROVE ByteAccounting
    OBVIOUS
  <2>1. IsStoreOf(Authorization, rdv) /\ Exact(rdv) /\ rdv.bytes <= MaxBytes
    BY CleanStore DEF Counted
  <2>2. rdv.bytes \in Nat /\ MaxBytes \in Nat
    BY <2>1, ExactIsNat, LimitsArePositive
  <2>3. DOMAIN rdv.entries \cap DOMAIN rdv.entries = DOMAIN rdv.entries
    OBVIOUS
  <2>4. EntryBytes(rdv, DOMAIN rdv.entries) = SumBy(Sizes(rdv), DOMAIN rdv.entries)
    BY <2>1, <2>3, EntryBytesIsSum DEF Exact
  <2> QED
    BY <2>1, <2>2, <2>4 DEF ByteAccounting, Exact
<1> QED
  BY <1>1, <1>2, <1>3, Invariance, PTL DEF Spec

-----------------------------------------------------------------------------
(* PreparedRows: the mask rows of an inventory that is held by lease.  The  *)
(* two systems share no state and no operation.                             *)
(* RowsIInv says where every unused row is: not reserved, in the region of   *)
(* one lease, in its claim, or lost by a take that raised.  Regions are      *)
(* disjoint, so a row has one owner; the counters add up because each row is *)
(* in one of these places.                                                   *)

RowClaim == [stage : Stage, from : 0 .. RowCapacity, rows : 1 .. RowCapacity]

LeaseRecord ==
  [st : {"none", "held", "closing", "closed"}, start : 0 .. RowCapacity,
   rows : 0 .. RowCapacity, offset : [Stage -> 0 .. RowCapacity],
   claim : RowClaim \cup {Idle}]

Counter == {"issued", "reserved", "claimed", "burned", "discarded"}

RowsTyped ==
  /\ reserved \in 0 .. RowCapacity /\ cancel \in {"no", "counted"} /\ streams \subseteq Stage
  /\ lost \subseteq MaskRow /\ lease \in [Lease -> LeaseRecord]
  /\ mask = [s \in Stage |-> mask[s]]
  /\ \A s \in Stage : mask[s] \in [0 .. StageRows[s] - 1 -> {"unused", "spent", "void"}]
  /\ count \in [Counter -> Nat]

\* Leases have regions of their own below `reserved', and a claim is the end of
\* what its lease has claimed.
LeasesApart ==
  /\ Demand => reserved \in {0, RowCapacity}
  /\ \A l \in Lease : lease[l].st = "none" => lease[l] = NoLease
  /\ \A l \in Lease : \A s \in Stage : lease[l].offset[s] <= Limit(l, s)
  /\ \A l \in Lease : lease[l].st # "none" =>
       /\ lease[l].start + lease[l].rows <= reserved
       /\ Demand => lease[l].start = 0 /\ reserved = RowCapacity
  /\ \A l, k \in Lease : l # k /\ lease[l].st # "none" /\ lease[k].st # "none" =>
       /\ ~Demand
       /\ \/ lease[l].start + lease[l].rows <= lease[k].start
          \/ lease[k].start + lease[k].rows <= lease[l].start
  /\ \A l \in Lease : lease[l].claim # Idle =>
       /\ lease[l].st = "held" /\ lease[l].start <= lease[l].claim.from
       /\ lease[l].claim.from + lease[l].claim.rows
            = lease[l].start + lease[l].offset[lease[l].claim.stage]

\* The rows a lease may still claim, and those it has claimed and not taken.
MayClaim(l, s, i) ==
  /\ lease[l].st = "held"
  /\ lease[l].start + lease[l].offset[s] <= i /\ i < lease[l].start + Limit(l, s)

HasClaimed(l, s, i) ==
  /\ lease[l].claim # Idle /\ lease[l].claim.stage = s
  /\ lease[l].claim.from <= i /\ i < lease[l].claim.from + lease[l].claim.rows

\* The rows of a lease that it has claimed or may claim.
Held(l, s, i) == MayClaim(l, s, i) \/ HasClaimed(l, s, i)

\* The rows that were neither given out nor burned by their lease.
Free(s, i) == i >= reserved \/ (\E l \in Lease : Held(l, s, i)) \/ <<s, i>> \in lost

\* In an open stream the unused rows are the free ones, and in a closed one there are
\* none; a free row was not spent; no lease holds a row that was lost.
RowsFree ==
  /\ \A s \in Stage : \A i \in RowsOf(s) :
       /\ mask[s][i] = "unused" <=> s \in streams /\ Free(s, i)
       /\ mask[s][i] = "spent" => ~Free(s, i)
  /\ \A k \in lost : k[2] < reserved /\ \A l \in Lease : ~Held(l, k[1], k[2])

RowsInv == RowsTyped /\ LeasesApart /\ RowsFree

-----------------------------------------------------------------------------
\* What the constants of an inventory are.
LEMMA RowsAssumed ==
  /\ RowCapacity \in Nat \ {0} /\ Demand \in BOOLEAN
  /\ IsFiniteSet(Stage) /\ IsFiniteSet(Lease)
  /\ StageRows \in [Stage -> 1 .. RowCapacity]
  /\ Demand \/ \A s \in Stage : StageRows[s] = RowCapacity
  /\ Idle \notin [stage : Stage, from : Nat, rows : Nat]
  /\ Idle \notin RowClaim
<1>1. Idle \notin RowClaim
  BY RowsAssumption DEF RowClaim
<1> QED
  BY <1>1, RowsAssumption

\* A counter that moves.
LEMMA CountTyped ==
  ASSUME NEW c \in [Counter -> Nat], NEW k \in Counter, NEW v \in Nat
  PROVE  [c EXCEPT ![k] = v] \in [Counter -> Nat]
OBVIOUS

\* The inventory as prepare makes it: no lease, every row unused.
LEMMA RowsBegin ==
  ASSUME RowsInit, Total \in Nat
  PROVE  RowsInv
<1> USE RowsAssumed DEF RowsInit, NoLease, NewLease
<1>1. RowsTyped
  BY DEF RowsTyped, LeaseRecord, Counter, RowsOf
<1>2. LeasesApart
  BY DEF LeasesApart, Limit
<1>3. RowsFree
  BY DEF RowsFree, Free, RowsOf
<1> QED BY <1>1, <1>2, <1>3 DEF RowsInv

\* reserve_lease gives a lease a region of its own, or all of an on-demand inventory.
LEMMA ReserveTyped ==
  ASSUME RowsInv, NEW l \in Lease, NEW n \in 1 .. RowCapacity,
         Reserve(l, n), Covered(n) \in Nat
  PROVE  RowsTyped' /\ LeasesApart'
<1> USE RowsAssumed DEF Reserve, NewLease
<1> DEFINE new == [st |-> "held", start |-> reserved, rows |-> n,
                   offset |-> [s \in Stage |-> 0], claim |-> Idle]
<1>1. /\ lease' = [lease EXCEPT ![l] = new]
      /\ lease \in [Lease -> LeaseRecord] /\ new \in LeaseRecord
      /\ reserved \in Nat /\ reserved + n <= RowCapacity
      /\ reserved' = IF Demand THEN RowCapacity ELSE reserved + n
      /\ Demand => reserved = 0
  <2>1. reserved \in 0 .. RowCapacity /\ lease \in [Lease -> LeaseRecord]
    BY DEF RowsInv, RowsTyped
  <2>2. Demand => reserved = 0
    BY <2>1 DEF RowsInv, LeasesApart
  <2>3. new \in LeaseRecord
    BY <2>1 DEF LeaseRecord
  <2>4. lease' = [lease EXCEPT ![l] = new]
    OBVIOUS
  <2> QED BY <2>1, <2>2, <2>3, <2>4
<1>2. RowsTyped'
  <2>1. lease' \in [Lease -> LeaseRecord] /\ reserved' \in 0 .. RowCapacity
    BY <1>1
  <2>2. count' \in [Counter -> Nat]
    <3>1. count \in [Counter -> Nat] /\ "reserved" \in Counter /\ count.reserved \in Nat
      BY DEF RowsInv, RowsTyped, Counter
    <3>2. count.reserved + Covered(n) \in Nat
      BY <3>1
    <3>3. count' = [count EXCEPT !["reserved"] = count.reserved + Covered(n)]
      OBVIOUS
    <3> QED BY ONLY <3>1, <3>2, <3>3, CountTyped
  <2>3. UNCHANGED <<cancel, mask, streams, lost>> /\ RowsTyped
    BY DEF RowsInv
  <2> QED BY ONLY <2>1, <2>2, <2>3 DEF RowsTyped
<1>3. LeasesApart'
  <2> USE <1>1
  <2>1. (Demand => reserved \in {0, RowCapacity})'
    OBVIOUS
  <2>2. \A k \in Lease : lease'[k].st = "none" => lease'[k] = NoLease
    BY DEF RowsInv, LeasesApart
  <2>3. \A k \in Lease : \A s \in Stage : lease'[k].offset[s] <= Limit(k, s)'
    BY DEF RowsInv, LeasesApart, Limit
  <2>4. \A k \in Lease : lease'[k].st # "none" =>
          /\ lease'[k].start + lease'[k].rows <= reserved'
          /\ Demand => lease'[k].start = 0 /\ reserved' = RowCapacity
    BY DEF RowsInv, LeasesApart, LeaseRecord
  <2>5. \A j, k \in Lease : j # k /\ lease'[j].st # "none" /\ lease'[k].st # "none" =>
          /\ ~Demand
          /\ \/ lease'[j].start + lease'[j].rows <= lease'[k].start
             \/ lease'[k].start + lease'[k].rows <= lease'[j].start
    BY DEF RowsInv, LeasesApart, LeaseRecord
  <2>6. \A k \in Lease : lease'[k].claim # Idle =>
          /\ lease'[k].st = "held" /\ lease'[k].start <= lease'[k].claim.from
          /\ lease'[k].claim.from + lease'[k].claim.rows
               = lease'[k].start + lease'[k].offset[lease'[k].claim.stage]
    BY DEF RowsInv, LeasesApart
  <2> QED BY <2>1, <2>2, <2>3, <2>4, <2>5, <2>6 DEF LeasesApart
<1> QED BY <1>2, <1>3

\* What a lease claims is a claim.
LEMMA TookIsClaim ==
  ASSUME RowsTyped, NEW l \in Lease, NEW s \in Stage, NEW n \in Nat
  PROVE  [stage |-> s, from |-> lease[l].start + lease[l].offset[s], rows |-> n] # Idle
<1>1. RowCapacity \in Nat /\ lease[l] \in LeaseRecord
  BY RowsAssumed DEF RowsTyped
<1>2. lease[l].start + lease[l].offset[s] \in Nat
  BY <1>1 DEF LeaseRecord
<1>3. [stage |-> s, from |-> lease[l].start + lease[l].offset[s], rows |-> n]
        \in [stage : Stage, from : Nat, rows : Nat]
  BY <1>2
<1> QED BY <1>3, RowsAssumed

\* A lease that claims: the rows it claims follow those it had claimed.
LEMMA ClaimShape ==
  ASSUME RowsInv, NEW l \in Lease, NEW s \in Stage,
         NEW n \in 1 .. RowCapacity, Claim(l, s, n)
  PROVE  LET took == [stage |-> s, from |-> lease[l].start + lease[l].offset[s], rows |-> n] IN
         /\ lease[l].st = "held" /\ lease[l].claim = Idle
         /\ UNCHANGED <<reserved, cancel, mask, streams, lost>>
         /\ lease' \in [Lease -> LeaseRecord]
         /\ \A k \in Lease \ {l} : lease'[k] = lease[k]
         /\ lease'[l].start = lease[l].start /\ lease'[l].rows = lease[l].rows
         /\ lease[l].start \in Nat /\ lease[l].offset \in [Stage -> 0 .. RowCapacity]
         /\ Limit(l, s) \in Nat /\ lease[l].offset[s] + n <= Limit(l, s)
         /\ lease'[l].st = "held" /\ lease'[l].claim = took
         /\ lease'[l].offset = [lease[l].offset EXCEPT ![s] = lease[l].offset[s] + n]
         /\ count' = [count EXCEPT !["claimed"] = count.claimed + n]
<1> DEFINE took == [stage |-> s, from |-> lease[l].start + lease[l].offset[s], rows |-> n]
<1>1. /\ lease[l].st = "held" /\ lease[l].claim = Idle
      /\ UNCHANGED <<reserved, cancel, mask, streams, lost>>
      /\ lease[l].offset[s] + n <= Limit(l, s)
      /\ lease' = [lease EXCEPT ![l].offset[s] = lease[l].offset[s] + n, ![l].claim = took]
      /\ count' = [count EXCEPT !["claimed"] = count.claimed + n]
  BY DEF Claim
<1>2. RowsTyped /\ LeasesApart
  BY DEF RowsInv
<1>3. /\ lease[l].start \in Nat /\ lease[l].rows \in Nat
      /\ lease[l].offset \in [Stage -> 0 .. RowCapacity] /\ lease[l] \in LeaseRecord
      /\ lease \in [Lease -> LeaseRecord]
      /\ lease[l].start + lease[l].rows <= reserved /\ reserved \in 0 .. RowCapacity
      /\ Demand => lease[l].start = 0 /\ reserved = RowCapacity
  BY <1>1, <1>2 DEF RowsTyped, LeasesApart, LeaseRecord
<1>4. Limit(l, s) \in Nat /\ lease[l].start + Limit(l, s) <= RowCapacity
  BY <1>3, RowsAssumed DEF Limit
<1>5. took \in RowClaim /\ lease[l].offset[s] + n \in 0 .. RowCapacity
  BY <1>1, <1>3, <1>4, RowsAssumed DEF RowClaim
<1>6. /\ lease' \in [Lease -> LeaseRecord]
      /\ \A k \in Lease \ {l} : lease'[k] = lease[k]
      /\ lease'[l].st = "held" /\ lease'[l].start = lease[l].start
      /\ lease'[l].rows = lease[l].rows /\ lease'[l].claim = took
      /\ lease'[l].offset = [lease[l].offset EXCEPT ![s] = lease[l].offset[s] + n]
  BY <1>1, <1>3, <1>5 DEF LeaseRecord
<1> QED BY <1>1, <1>3, <1>4, <1>6

\* What a lease claims stays within the rows it reserved.
LEMMA ClaimTyped ==
  ASSUME RowsInv, NEW l \in Lease, NEW s \in Stage,
         NEW n \in 1 .. RowCapacity, Claim(l, s, n)
  PROVE  RowsTyped' /\ LeasesApart'
<1> DEFINE took == [stage |-> s, from |-> lease[l].start + lease[l].offset[s], rows |-> n]
<1>1. RowsTyped /\ LeasesApart
  BY DEF RowsInv
<1>2. /\ lease[l].st = "held" /\ lease[l].claim = Idle
      /\ UNCHANGED <<reserved, cancel, mask, streams, lost>>
      /\ lease' \in [Lease -> LeaseRecord]
      /\ \A k \in Lease \ {l} : lease'[k] = lease[k]
      /\ lease'[l].start = lease[l].start /\ lease'[l].rows = lease[l].rows
      /\ lease[l].start \in Nat /\ lease[l].offset \in [Stage -> 0 .. RowCapacity]
      /\ lease[l].offset[s] + n <= Limit(l, s)
      /\ lease'[l].st = "held" /\ lease'[l].claim = took
      /\ lease'[l].offset = [lease[l].offset EXCEPT ![s] = lease[l].offset[s] + n]
      /\ count' = [count EXCEPT !["claimed"] = count.claimed + n]
  BY ClaimShape
<1>3. count' \in [Counter -> Nat]
  <2>1. count \in [Counter -> Nat] /\ "claimed" \in Counter /\ count.claimed + n \in Nat
    BY <1>1 DEF RowsTyped, Counter
  <2> QED BY <2>1, <1>2, CountTyped
<1>4. RowsTyped'
  BY <1>1, <1>2, <1>3 DEF RowsTyped
<1>5. LeasesApart'
  <2>1. \A k \in Lease : \A t \in Stage : lease'[k].offset[t] <= Limit(k, t)'
    BY <1>1, <1>2 DEF LeasesApart, Limit
  <2>2. \A k \in Lease : lease'[k].st = "none" => lease'[k] = NoLease
    BY <1>1, <1>2 DEF LeasesApart
  <2>3. \A k \in Lease : lease'[k].start = lease[k].start /\ lease'[k].rows = lease[k].rows
                         /\ (lease'[k].st = "none" <=> lease[k].st = "none")
    BY <1>2
  <2>4. /\ lease'[l].start <= took.from
        /\ took.from + took.rows = lease'[l].start + lease'[l].offset[took.stage]
    BY <1>2
  <2>5. \A k \in Lease : lease'[k].claim # Idle =>
          /\ lease'[k].st = "held" /\ lease'[k].start <= lease'[k].claim.from
          /\ lease'[k].claim.from + lease'[k].claim.rows
               = lease'[k].start + lease'[k].offset[lease'[k].claim.stage]
    BY <1>1, <1>2, <2>4 DEF LeasesApart
  <2> QED BY <1>1, <1>2, <2>1, <2>2, <2>3, <2>5 DEF LeasesApart
<1> QED BY <1>4, <1>5

\* A lease that only drops its claim or changes its status.
LEMMA LeaseMoves ==
  ASSUME RowsTyped, LeasesApart, NEW l \in Lease, lease[l].st # "none",
         NEW st \in {"held", "closing", "closed"},
         lease' = [lease EXCEPT ![l] = [lease[l] EXCEPT !.st = st, !.claim = Idle]],
         reserved' = reserved, count' \in [Counter -> Nat],
         cancel' = cancel, streams' \subseteq streams, lost' \subseteq MaskRow,
         mask' = [s \in Stage |-> mask'[s]],
         \A s \in Stage : mask'[s] \in [0 .. StageRows[s] - 1 -> {"unused", "spent", "void"}]
  PROVE  RowsTyped' /\ LeasesApart'
<1> DEFINE r == [lease[l] EXCEPT !.st = st, !.claim = Idle]
<1>4. lease \in [Lease -> LeaseRecord] /\ lease[l] \in LeaseRecord
  BY DEF RowsTyped
<1>5. /\ r \in LeaseRecord /\ r.st = st /\ r.start = lease[l].start /\ r.rows = lease[l].rows
      /\ r.claim = Idle /\ r.offset = lease[l].offset
  BY <1>4 DEF LeaseRecord
<1>6. lease' = [lease EXCEPT ![l] = r]
  OBVIOUS
<1> HIDE DEF r
<1>1. /\ lease \in [Lease -> LeaseRecord] /\ lease' \in [Lease -> LeaseRecord]
      /\ \A k \in Lease \ {l} : lease'[k] = lease[k]
      /\ lease'[l].st = st /\ lease'[l].start = lease[l].start
      /\ lease'[l].rows = lease[l].rows /\ lease'[l].claim = Idle
      /\ lease'[l].offset = lease[l].offset
  BY <1>4, <1>5, <1>6
<1>2. RowsTyped'
  BY <1>1 DEF RowsTyped
<1>3. LeasesApart'
  BY <1>1 DEF LeasesApart, Limit
<1> QED BY <1>2, <1>3

\* Filled changes unused rows only.
LEMMA FilledTyped ==
  ASSUME NEW R, NEW m \in [R -> {"unused", "spent", "void"}], NEW rows, NEW what \in {"spent", "void"}
  PROVE  /\ Filled(m, rows, what) \in [R -> {"unused", "spent", "void"}]
         /\ \A i \in R : Filled(m, rows, what)[i]
                           = IF i \in rows /\ m[i] = "unused" THEN what ELSE m[i]
BY DEF Filled

\* A lease that closes has no claim and keeps its region.
LEMMA CloseTyped ==
  ASSUME RowsInv, NEW l \in Lease, CloseLease(l)
  PROVE  RowsTyped' /\ LeasesApart'
<1>1. RowsTyped /\ LeasesApart /\ lease[l].claim = Idle /\ lease[l].st = "held"
      /\ lease[l] \in LeaseRecord
  BY DEF RowsInv, RowsTyped, CloseLease
<1>2. /\ mask' = [k \in Stage |-> mask'[k]]
      /\ \A k \in Stage : mask'[k] \in [0 .. StageRows[k] - 1 -> {"unused", "spent", "void"}]
  BY <1>1, FilledTyped DEF RowsTyped, CloseLease, Burned
<1>3. lease' = [lease EXCEPT ![l] = [lease[l] EXCEPT !.st = "closing", !.claim = Idle]]
  <2>1. [lease[l] EXCEPT !.st = "closing", !.claim = Idle] = [lease[l] EXCEPT !.st = "closing"]
    BY <1>1 DEF LeaseRecord
  <2> QED BY <2>1 DEF CloseLease
<1> QED BY <1>1, <1>2, <1>3, LeaseMoves DEF RowsTyped, CloseLease

\* A lease that has burned the rest of its rows is closed, and counts them.
LEMMA FinishTyped ==
  ASSUME RowsInv, NEW l \in Lease, Finish(l),
         Covered(lease[l].rows) - Claims(l) \in Nat
  PROVE  RowsTyped' /\ LeasesApart'
<1>1. RowsTyped /\ LeasesApart /\ lease[l].st = "closing" /\ lease[l] \in LeaseRecord
  BY DEF RowsInv, RowsTyped, Finish
<1>2. lease[l].claim = Idle
  BY <1>1 DEF LeasesApart
<1>3. lease' = [lease EXCEPT ![l] = [lease[l] EXCEPT !.st = "closed", !.claim = Idle]]
  <2>1. [lease[l] EXCEPT !.st = "closed", !.claim = Idle] = [lease[l] EXCEPT !.st = "closed"]
    BY <1>1, <1>2 DEF LeaseRecord
  <2> QED BY <2>1 DEF Finish
<1>4. count' \in [Counter -> Nat]
  <2> DEFINE v == count.burned + (Covered(lease[l].rows) - Claims(l))
  <2>1. count \in [Counter -> Nat] /\ "burned" \in Counter /\ count.burned \in Nat
    BY <1>1 DEF RowsTyped, Counter
  <2>2. v \in Nat
    BY <2>1
  <2>3. count' = [count EXCEPT !["burned"] = v]
    BY DEF Finish
  <2> QED BY ONLY <2>1, <2>2, <2>3, CountTyped
<1> QED BY <1>1, <1>3, <1>4, LeaseMoves DEF RowsTyped, Finish

\* cancel() touches no lease.
LEMMA CancelTyped ==
  ASSUME RowsInv, Total \in Nat,
         Cardinality(Stage) \in Nat,
         \/ Cancel
         \/ \E s \in Stage : CancelStage(s)
         \/ UNCHANGED <<reserved, cancel, lease, mask, streams, lost, count>>
  PROVE  RowsTyped' /\ LeasesApart'
<1>1. RowsTyped /\ LeasesApart
  BY DEF RowsInv
<1>2. CASE Cancel
  <2>1. UNCHANGED <<reserved, lease, mask, streams, lost>> /\ cancel' = "counted"
    BY <1>2 DEF Cancel
  <2>2. PICK v : v \in Nat /\ count' = [count EXCEPT !["discarded"] = v]
    <3>1. RowCapacity - reserved \in Nat
      BY <1>1, RowsAssumed DEF RowsTyped
    <3>2. (RowCapacity - reserved) * Cardinality(Stage) \in Nat
      BY <3>1
    <3> QED BY <1>2, <3>2 DEF Cancel
  <2>3. count' \in [Counter -> Nat]
    <3>1. "discarded" \in Counter /\ count \in [Counter -> Nat]
      BY <1>1 DEF Counter, RowsTyped
    <3> QED BY ONLY <2>2, <3>1, CountTyped
  <2> QED BY <1>1, <2>1, <2>3 DEF RowsTyped, LeasesApart, Limit
<1>3. ASSUME NEW s \in Stage, CancelStage(s)
      PROVE  RowsTyped' /\ LeasesApart'
  <2>1. /\ UNCHANGED <<reserved, cancel, lease, lost, count>> /\ streams' = streams \ {s}
        /\ mask' = [mask EXCEPT ![s] = Filled(mask[s], Row, "void")]
    BY <1>3 DEF CancelStage
  <2>2. /\ mask' = [k \in Stage |-> mask'[k]]
        /\ \A k \in Stage : mask'[k] \in [0 .. StageRows[k] - 1 -> {"unused", "spent", "void"}]
    BY <1>1, <2>1, FilledTyped DEF RowsTyped
  <2> QED BY <1>1, <2>1, <2>2 DEF RowsTyped, LeasesApart, Limit
<1>4. CASE UNCHANGED <<reserved, cancel, lease, mask, streams, lost, count>>
  BY <1>1, <1>4 DEF RowsTyped, LeasesApart, Limit
<1> QED BY <1>2, <1>3, <1>4

\* The rows a lease holds are rows of its region, in every stage.
LEMMA HeldInRegion ==
  ASSUME RowsInv, NEW l \in Lease, NEW s \in Stage, NEW i \in Nat,
         Held(l, s, i)
  PROVE  /\ lease[l].st # "none" /\ lease[l].start <= i /\ i < reserved /\ i < StageRows[s]
         /\ ~Demand => i < lease[l].start + lease[l].rows
<1>1. RowsTyped /\ LeasesApart /\ lease[l] \in LeaseRecord /\ reserved \in 0 .. RowCapacity
  BY DEF RowsInv, RowsTyped
<1>2. lease[l].st # "none"
  <2>1. CASE lease[l].st = "none"
    BY <1>1, <2>1 DEF LeasesApart, Held, MayClaim, HasClaimed
  <2> QED BY <2>1
<1>3. /\ lease[l].start \in Nat /\ lease[l].rows \in Nat /\ lease[l].offset[s] \in Nat
      /\ lease[l].offset[s] <= Limit(l, s)
      /\ lease[l].start + lease[l].rows <= reserved
      /\ Demand => lease[l].start = 0 /\ reserved = RowCapacity
  BY <1>1, <1>2 DEF LeasesApart, LeaseRecord
<1>4. /\ reserved \in Nat /\ StageRows[s] \in Nat
      /\ Limit(l, s) \in Nat /\ lease[l].start + Limit(l, s) <= reserved
      /\ lease[l].start + Limit(l, s) <= StageRows[s]
      /\ ~Demand => Limit(l, s) = lease[l].rows
  <2>1. /\ StageRows[s] \in 1 .. RowCapacity /\ RowCapacity \in Nat /\ Demand \in BOOLEAN
        /\ Demand \/ StageRows[s] = RowCapacity
    BY RowsAssumed
  <2>2. Limit(l, s) = IF Demand THEN StageRows[s] ELSE lease[l].rows
    BY DEF Limit
  <2>3. CASE Demand
    BY <1>1, <1>3, <2>1, <2>2, <2>3
  <2>4. CASE ~Demand
    BY <1>1, <1>3, <2>1, <2>2, <2>4
  <2> QED BY <2>3, <2>4
<1>5. CASE MayClaim(l, s, i)
  BY <1>2, <1>3, <1>4, <1>5 DEF MayClaim
<1>6. CASE HasClaimed(l, s, i)
  <2>1. /\ lease[l].claim # Idle /\ lease[l].claim.stage = s
        /\ lease[l].claim.from <= i /\ i < lease[l].claim.from + lease[l].claim.rows
    BY <1>6 DEF HasClaimed
  <2>2. /\ lease[l].start <= lease[l].claim.from
        /\ lease[l].claim.from + lease[l].claim.rows = lease[l].start + lease[l].offset[s]
        /\ lease[l].claim.from \in Nat /\ lease[l].claim.rows \in Nat
    <3>1. lease[l].claim \in RowClaim /\ RowCapacity \in Nat
      BY <1>1, <2>1, RowsAssumed DEF LeaseRecord
    <3>2. lease[l].claim.from \in Nat /\ lease[l].claim.rows \in Nat
      BY <3>1 DEF RowClaim
    <3> QED BY <1>1, <2>1, <3>2 DEF LeasesApart
  <2> QED BY <1>2, <1>3, <1>4, <2>1, <2>2
<1> QED BY <1>5, <1>6 DEF Held

\* Leases hold different rows.
LEMMA HeldApart ==
  ASSUME RowsInv, NEW l \in Lease, NEW k \in Lease,
         NEW s \in Stage, NEW i \in Nat,
         Held(l, s, i), Held(k, s, i)
  PROVE  l = k
<1>1. /\ LeasesApart /\ lease[l] \in LeaseRecord /\ lease[k] \in LeaseRecord
  BY DEF RowsInv, RowsTyped
<1>2. /\ lease[l].st # "none" /\ lease[l].start <= i
      /\ ~Demand => i < lease[l].start + lease[l].rows
      /\ lease[k].st # "none" /\ lease[k].start <= i
      /\ ~Demand => i < lease[k].start + lease[k].rows
  BY HeldInRegion
<1>3. l # k => /\ ~Demand
               /\ \/ lease[l].start + lease[l].rows <= lease[k].start
                  \/ lease[k].start + lease[k].rows <= lease[l].start
  BY <1>1, <1>2 DEF LeasesApart
<1>4. lease[l].start \in Nat /\ lease[l].rows \in Nat /\ lease[k].start \in Nat /\ lease[k].rows \in Nat
  BY <1>1 DEF LeaseRecord
<1> QED BY <1>2, <1>3, <1>4

\* The rows a lease has claimed: rows of its stage that are free, that no lease may
\* claim, that no other has claimed, and that are not lost.
LEMMA ClaimedAre ==
  ASSUME RowsInv, NEW l \in Lease, lease[l].claim # Idle
  PROVE  LET s == lease[l].claim.stage IN
         /\ s \in Stage /\ lease[l].claim.from \in Nat /\ lease[l].claim.rows \in Nat
         /\ ClaimedRows(l) \subseteq RowsOf(s)
         /\ \A t \in Stage : \A i \in Nat : HasClaimed(l, t, i) <=> t = s /\ i \in ClaimedRows(l)
         /\ \A i \in ClaimedRows(l) :
              /\ i \in Nat /\ i < reserved /\ ~MayClaim(l, s, i) /\ Free(s, i) /\ <<s, i>> \notin lost
              /\ \A k \in Lease \ {l} : ~Held(k, s, i)
<1> DEFINE s == lease[l].claim.stage
<1>1. /\ lease[l].claim \in RowClaim /\ lease[l] \in LeaseRecord /\ RowsTyped /\ LeasesApart
  BY DEF RowsInv, RowsTyped, LeaseRecord
<1>2. s \in Stage /\ lease[l].claim.from \in Nat /\ lease[l].claim.rows \in Nat
  BY <1>1 DEF RowClaim
<1>3. \A t \in Stage : \A i \in Nat : HasClaimed(l, t, i) <=> t = s /\ i \in ClaimedRows(l)
  BY <1>2 DEF HasClaimed, ClaimedRows
<1>4. ASSUME NEW i \in ClaimedRows(l)
      PROVE  /\ i \in Nat /\ i < reserved /\ ~MayClaim(l, s, i) /\ Free(s, i) /\ <<s, i>> \notin lost
             /\ \A k \in Lease \ {l} : ~Held(k, s, i)
             /\ i \in RowsOf(s)
  <2>1. i \in Nat
    BY <1>2 DEF ClaimedRows
  <2>2. Held(l, s, i) /\ Free(s, i)
    BY <1>2, <1>3, <2>1 DEF Held, Free
  <2>3. i < reserved /\ i < StageRows[s]
    BY <1>2, <2>1, <2>2, HeldInRegion
  <2>4. \A k \in Lease \ {l} : ~Held(k, s, i)
    BY <1>2, <2>1, <2>2, HeldApart
  <2>5. ~MayClaim(l, s, i)
    <3>1. /\ lease[l].start \in Nat /\ lease[l].offset[s] \in Nat
          /\ lease[l].claim.from + lease[l].claim.rows = lease[l].start + lease[l].offset[s]
      <4>1. RowCapacity \in Nat
        BY RowsAssumed
      <4> QED BY <1>1, <1>2, <4>1 DEF LeaseRecord, LeasesApart
    <3>2. i < lease[l].claim.from + lease[l].claim.rows
      BY <1>2 DEF ClaimedRows
    <3> QED BY <2>1, <3>1, <3>2 DEF MayClaim
  <2>6. <<s, i>> \notin lost
    BY <2>2 DEF RowsInv, RowsFree
  <2>7. StageRows[s] \in Nat
    BY <1>2, RowsAssumed
  <2> QED BY <2>1, <2>2, <2>3, <2>4, <2>5, <2>6, <2>7 DEF RowsOf
<1> QED BY <1>2, <1>3, <1>4

\* A lease never finds its claimed rows used while their stream is open.
LEMMA ClaimsFit ==
  ASSUME RowsInv, NEW l \in Lease, lease[l].claim # Idle, lease[l].claim.stage \in streams
  PROVE  Fits(l)
<1> DEFINE s == lease[l].claim.stage
<1>1. s \in Stage /\ ClaimedRows(l) \subseteq RowsOf(s) /\ \A i \in ClaimedRows(l) : Free(s, i)
  BY ClaimedAre
<1>2. \A i \in ClaimedRows(l) : mask[s][i] = "unused"
  BY <1>1 DEF RowsInv, RowsFree
<1> QED BY <1>1, <1>2 DEF Fits

\* A claim that ends, with its rows or without: the lease keeps what it had.
LEMMA ClaimEnds ==
  ASSUME RowsInv, NEW l \in Lease, lease[l].claim # Idle, lease' = [lease EXCEPT ![l].claim = Idle]
  PROVE  /\ lease[l].st = "held" /\ lease'[l].st = "held" /\ lease'[l].claim = Idle
         /\ lease'[l].start = lease[l].start
         /\ lease'[l].rows = lease[l].rows /\ lease'[l].offset = lease[l].offset
         /\ lease' = [lease EXCEPT ![l] = [lease[l] EXCEPT !.st = "held", !.claim = Idle]]
         /\ \A k \in Lease \ {l} : lease'[k] = lease[k]
<1>1. /\ lease \in [Lease -> LeaseRecord] /\ lease[l] \in LeaseRecord /\ lease[l].st = "held"
  BY DEF RowsInv, RowsTyped, LeasesApart
<1>2. [lease[l] EXCEPT !.st = "held", !.claim = Idle] = [lease[l] EXCEPT !.claim = Idle]
  BY <1>1 DEF LeaseRecord
<1>3. /\ \A k \in Lease \ {l} : lease'[k] = lease[k]
      /\ lease'[l] = [lease[l] EXCEPT !.claim = Idle]
  BY <1>1
<1>4. /\ lease'[l].st = "held" /\ lease'[l].start = lease[l].start /\ lease'[l].claim = Idle
      /\ lease'[l].rows = lease[l].rows /\ lease'[l].offset = lease[l].offset
  BY <1>1, <1>3 DEF LeaseRecord
<1>5. lease' = [lease EXCEPT ![l] = [lease[l] EXCEPT !.st = "held", !.claim = Idle]]
  BY <1>2
<1> QED BY <1>1, <1>3, <1>4, <1>5

\* It no longer holds the rows of the claim.
LEMMA HoldsLess ==
  ASSUME RowsInv, NEW l \in Lease, lease[l].claim # Idle, lease' = [lease EXCEPT ![l].claim = Idle],
         NEW k \in Lease, NEW t \in Stage, NEW i \in Nat
  PROVE  Held(k, t, i)'
           <=> Held(k, t, i) /\ ~(k = l /\ t = lease[l].claim.stage /\ i \in ClaimedRows(l))
<1>1. /\ lease[l].st = "held" /\ lease'[l].st = "held" /\ lease'[l].claim = Idle
      /\ lease'[l].start = lease[l].start
      /\ lease'[l].rows = lease[l].rows /\ lease'[l].offset = lease[l].offset
      /\ k # l => lease'[k] = lease[k]
  BY ClaimEnds
<1>2. CASE k # l
  BY <1>1, <1>2 DEF Held, MayClaim, HasClaimed, Limit
<1>3. CASE k = l
  <2>1. Held(l, t, i)' <=> MayClaim(l, t, i)
    BY <1>1 DEF Held, MayClaim, HasClaimed, Limit
  <2>2. HasClaimed(l, t, i) <=> t = lease[l].claim.stage /\ i \in ClaimedRows(l)
    BY ClaimedAre
  <2>3. t = lease[l].claim.stage /\ i \in ClaimedRows(l) => ~MayClaim(l, t, i)
    BY ClaimedAre
  <2> QED BY <1>3, <2>1, <2>2, <2>3 DEF Held
<1> QED BY <1>2, <1>3

\* A stream that is closed: what was unused in it is void.
LEMMA StreamCloses ==
  ASSUME RowsTyped, NEW s \in Stage,
         mask' = [mask EXCEPT ![s] = Filled(mask[s], Row, "void")]
  PROVE  /\ mask' = [t \in Stage |-> mask'[t]]
         /\ \A t \in Stage : /\ mask'[t] \in [RowsOf(t) -> {"unused", "spent", "void"}]
                            /\ \A i \in RowsOf(t) :
                 mask'[t][i] = IF t = s /\ mask[t][i] = "unused" THEN "void" ELSE mask[t][i]
<1>1. /\ mask = [t \in Stage |-> mask[t]]
      /\ \A t \in Stage : mask[t] \in [RowsOf(t) -> {"unused", "spent", "void"}]
  BY DEF RowsTyped, RowsOf
<1>2. RowsOf(s) \subseteq Row
  BY RowsAssumed DEF RowsOf, Row
<1>3. mask' = [t \in Stage |-> mask'[t]] /\ \A t \in Stage \ {s} : mask'[t] = mask[t]
  BY <1>1
<1>4. mask'[s] = Filled(mask[s], Row, "void")
  BY <1>1
<1>5. /\ mask'[s] \in [RowsOf(s) -> {"unused", "spent", "void"}]
      /\ \A i \in RowsOf(s) : mask'[s][i] = IF mask[s][i] = "unused" THEN "void" ELSE mask[s][i]
  BY <1>1, <1>2, <1>4, FilledTyped
<1> QED BY <1>1, <1>3, <1>5

\* What a take that succeeds does.
LEMMA RowTakeShape ==
  ASSUME RowsInv, NEW l \in Lease, Take(l)
  PROVE  LET s == lease[l].claim.stage IN
         /\ lease[l].claim # Idle /\ s \in streams /\ s \in Stage
         /\ lease' = [lease EXCEPT ![l].claim = Idle]
         /\ UNCHANGED <<reserved, cancel, streams, lost, count>>
         /\ mask' = [t \in Stage |-> mask'[t]]
         /\ \A t \in Stage : /\ mask'[t] \in [RowsOf(t) -> {"unused", "spent", "void"}]
                            /\ \A i \in RowsOf(t) :
                 mask'[t][i] = IF t = s /\ i \in ClaimedRows(l) THEN "spent" ELSE mask[t][i]
<1> DEFINE s == lease[l].claim.stage
<1>1. /\ lease[l].claim # Idle /\ Fits(l)
      /\ lease' = [lease EXCEPT ![l].claim = Idle]
      /\ UNCHANGED <<reserved, cancel, streams, lost, count>>
      /\ mask' = [mask EXCEPT ![s] = Filled(mask[s], ClaimedRows(l), "spent")]
  BY DEF Take
<1>2. s \in Stage
  BY <1>1, ClaimedAre
<1>3. s \in streams /\ \A i \in ClaimedRows(l) : mask[s][i] = "unused"
  BY <1>1 DEF Fits
<1>4. /\ mask = [t \in Stage |-> mask[t]]
      /\ \A t \in Stage : mask[t] \in [RowsOf(t) -> {"unused", "spent", "void"}]
  BY DEF RowsInv, RowsTyped, RowsOf
<1> HIDE DEF s
<1>5. /\ mask' = [t \in Stage |-> mask'[t]] /\ \A t \in Stage \ {s} : mask'[t] = mask[t]
      /\ mask'[s] = Filled(mask[s], ClaimedRows(l), "spent")
  BY <1>1, <1>2, <1>4
<1>6. /\ mask'[s] \in [RowsOf(s) -> {"unused", "spent", "void"}]
      /\ \A i \in RowsOf(s) : mask'[s][i] = IF i \in ClaimedRows(l) THEN "spent" ELSE mask[s][i]
  BY <1>2, <1>3, <1>4, <1>5, FilledTyped
<1> QED BY <1>1, <1>2, <1>3, <1>4, <1>5, <1>6 DEF s

\* What a claim that raises does: its rows are lost, and the stream of its stage is
\* closed or left as it is.
LEMMA LossShape ==
  ASSUME RowsInv, NEW l \in Lease, ClaimFails(l) \/ StreamFails(l)
  PROVE  LET s == lease[l].claim.stage IN
         /\ lease[l].claim # Idle /\ s \in Stage
         /\ lease' = [lease EXCEPT ![l].claim = Idle]
         /\ UNCHANGED <<reserved, cancel, count>>
         /\ lost' = lost \cup {<<s, i>> : i \in ClaimedRows(l)} /\ lost' \subseteq MaskRow
         /\ mask' = [t \in Stage |-> mask'[t]]
         /\ \A t \in Stage : mask'[t] \in [RowsOf(t) -> {"unused", "spent", "void"}]
         /\ \/ streams' = streams /\ mask' = mask
            \/ /\ streams' = streams \ {s}
               /\ \A t \in Stage : \A i \in RowsOf(t) :
                    mask'[t][i] = IF t = s /\ mask[t][i] = "unused" THEN "void" ELSE mask[t][i]
<1> DEFINE s == lease[l].claim.stage
<1>1. /\ lease[l].claim # Idle /\ lease' = [lease EXCEPT ![l].claim = Idle]
      /\ UNCHANGED <<reserved, cancel, count>>
      /\ lost' = lost \cup {<<s, i>> : i \in ClaimedRows(l)}
  BY DEF ClaimFails, StreamFails, ClaimIsLost
<1>2. s \in Stage /\ ClaimedRows(l) \subseteq RowsOf(s) /\ RowsTyped
  BY <1>1, ClaimedAre DEF RowsInv
<1>3. lost' \subseteq MaskRow
  <2>1. RowsOf(s) \subseteq Row
    BY <1>2, RowsAssumed DEF RowsOf, Row
  <2> QED BY <1>1, <1>2, <2>1 DEF RowsTyped, MaskRow
<1>4. CASE ClaimFails(l)
  <2>1. streams' = streams /\ mask' = mask
    BY <1>4 DEF ClaimFails
  <2> QED BY <1>1, <1>2, <1>3, <2>1 DEF RowsTyped, RowsOf
<1>5. CASE StreamFails(l)
  <2>1. streams' = streams \ {s} /\ mask' = [mask EXCEPT ![s] = Filled(mask[s], Row, "void")]
    BY <1>5 DEF StreamFails
  <2> QED BY <1>1, <1>2, <1>3, <2>1, StreamCloses
<1> QED BY <1>4, <1>5

\* A claim that ends leaves the leases their regions.
LEMMA ClaimEndsTyped ==
  ASSUME RowsInv, NEW l \in Lease, Take(l) \/ ClaimFails(l) \/ StreamFails(l)
  PROVE  RowsTyped' /\ LeasesApart'
<1>1. /\ lease[l].claim # Idle /\ lease' = [lease EXCEPT ![l].claim = Idle]
      /\ UNCHANGED <<reserved, cancel, count>> /\ streams' \subseteq streams /\ lost' \subseteq MaskRow
      /\ mask' = [t \in Stage |-> mask'[t]]
      /\ \A t \in Stage : mask'[t] \in [RowsOf(t) -> {"unused", "spent", "void"}]
  <2>1. lost \subseteq MaskRow
    BY DEF RowsInv, RowsTyped
  <2> QED BY <2>1, RowTakeShape, LossShape
<1>2. /\ lease[l].st = "held"
      /\ lease' = [lease EXCEPT ![l] = [lease[l] EXCEPT !.st = "held", !.claim = Idle]]
  BY <1>1, ClaimEnds
<1>3. RowsTyped /\ LeasesApart /\ count \in [Counter -> Nat]
  BY DEF RowsInv, RowsTyped
<1> QED BY <1>1, <1>2, <1>3, LeaseMoves DEF RowsOf

\* When the streams stay as they are, the free rows must stay so too.
LEMMA FreeKept ==
  ASSUME RowsInv, UNCHANGED <<mask, streams, lost, reserved>>,
         \A s \in Stage : \A i \in Nat : \A l \in Lease : Held(l, s, i)' <=> Held(l, s, i)
  PROVE  RowsFree'
<1>1. \A k \in lost : k[1] \in Stage /\ k[2] \in Nat
  BY DEF RowsInv, RowsTyped, MaskRow, Row
<1>2. \A s \in Stage : \A i \in RowsOf(s) : i \in Nat /\ (Free(s, i)' <=> Free(s, i))
  BY DEF Free, RowsOf
<1>3. \A k \in lost' : k[2] < reserved' /\ \A l \in Lease : ~Held(l, k[1], k[2])'
  BY <1>1 DEF RowsInv, RowsFree
<1>4. RowsFree
  BY DEF RowsInv
<1>5. \A s \in Stage : \A i \in RowsOf(s) :
        /\ mask'[s][i] = "unused" <=> s \in streams' /\ Free(s, i)'
        /\ mask'[s][i] = "spent" => ~Free(s, i)'
  BY <1>2, <1>4 DEF RowsFree
<1> QED BY <1>3, <1>5 DEF RowsFree

\* The rows a new lease may claim were not reserved before.
LEMMA ReserveFree ==
  ASSUME RowsInv, NEW l \in Lease, NEW n \in 1 .. RowCapacity,
         Reserve(l, n)
  PROVE  RowsFree'
<1>1. /\ RowsTyped /\ LeasesApart /\ RowsFree /\ reserved \in 0 .. RowCapacity /\ RowCapacity \in Nat
  BY RowsAssumed DEF RowsInv, RowsTyped
<1>2. /\ UNCHANGED <<cancel, mask, streams, lost>> /\ lease[l].st = "none" /\ reserved + n <= RowCapacity
      /\ reserved' = IF Demand THEN RowCapacity ELSE reserved + n
      /\ lease' = [lease EXCEPT ![l] = NewLease("held", reserved, n)]
  BY DEF Reserve
<1>3. /\ \A k \in Lease \ {l} : lease'[k] = lease[k]
      /\ lease'[l].st = "held" /\ lease'[l].start = reserved /\ lease'[l].rows = n
      /\ lease'[l].claim = Idle /\ \A s \in Stage : lease'[l].offset[s] = 0
  BY <1>1, <1>2 DEF RowsTyped, NewLease
<1>4. lease[l].claim = Idle /\ (Demand => reserved = 0)
  BY <1>1, <1>2 DEF LeasesApart
<1>5. ASSUME NEW s \in Stage, NEW i \in RowsOf(s)
      PROVE  /\ \A k \in Lease \ {l} : Held(k, s, i)' <=> Held(k, s, i)
             /\ ~Held(l, s, i)
             /\ Held(l, s, i)' <=> reserved <= i /\ i < reserved + (IF Demand THEN StageRows[s] ELSE n)
             /\ Free(s, i)' <=> Free(s, i)
  <2>1. \A k \in Lease \ {l} : Held(k, s, i)' <=> Held(k, s, i)
    BY <1>3 DEF Held, MayClaim, HasClaimed, Limit
  <2>2. ~Held(l, s, i)
    BY <1>2, <1>4 DEF Held, MayClaim, HasClaimed
  <2>3. i \in Nat /\ i < StageRows[s] /\ StageRows[s] \in 1 .. RowCapacity
    BY RowsAssumed DEF RowsOf
  <2>4. Held(l, s, i)' <=> reserved <= i /\ i < reserved + (IF Demand THEN StageRows[s] ELSE n)
    BY <1>1, <1>3, <2>3 DEF Held, MayClaim, HasClaimed, Limit
  <2>5. i >= reserved <=> i >= reserved' \/ Held(l, s, i)'
    BY <1>1, <1>2, <1>4, <2>3, <2>4
  <2> QED BY <1>2, <2>1, <2>2, <2>4, <2>5 DEF Free
<1>6. ASSUME NEW k \in lost
      PROVE  k[2] < reserved' /\ \A j \in Lease : ~Held(j, k[1], k[2])'
  <2>1. k[1] \in Stage /\ k[2] \in RowsOf(k[1]) /\ k[2] \in Nat
    BY <1>1 DEF RowsTyped, MaskRow, Row, RowsOf
  <2>2. k[2] < reserved /\ \A j \in Lease : ~Held(j, k[1], k[2])
    BY <1>1 DEF RowsFree
  <2>3. reserved <= reserved' /\ reserved' \in Nat
    BY <1>1, <1>2
  <2> QED BY <1>1, <1>5, <2>1, <2>2, <2>3
<1>7. \A s \in Stage : \A i \in RowsOf(s) :
        /\ mask'[s][i] = "unused" <=> s \in streams' /\ Free(s, i)'
        /\ mask'[s][i] = "spent" => ~Free(s, i)'
  BY <1>1, <1>2, <1>5 DEF RowsFree
<1> QED BY <1>2, <1>6, <1>7 DEF RowsFree

\* A row that is claimed can no longer be claimed again, and is still unused.
LEMMA ClaimFree ==
  ASSUME RowsInv, NEW l \in Lease, NEW t \in Stage,
         NEW n \in 1 .. RowCapacity, Claim(l, t, n)
  PROVE  RowsFree'
<1> DEFINE took == [stage |-> t, from |-> lease[l].start + lease[l].offset[t], rows |-> n]
<1>1. /\ lease[l].st = "held" /\ lease[l].claim = Idle
      /\ UNCHANGED <<reserved, cancel, mask, streams, lost>>
      /\ \A k \in Lease \ {l} : lease'[k] = lease[k]
      /\ lease'[l].start = lease[l].start /\ lease'[l].rows = lease[l].rows
      /\ lease[l].start \in Nat /\ lease[l].offset \in [Stage -> 0 .. RowCapacity]
      /\ lease[l].offset[t] + n <= Limit(l, t)
      /\ lease'[l].st = "held" /\ lease'[l].claim = took
      /\ lease'[l].offset = [lease[l].offset EXCEPT ![t] = lease[l].offset[t] + n]
  BY ClaimShape
<1>2. took # Idle /\ Limit(l, t) \in Nat
  <2>1. RowsTyped
    BY DEF RowsInv
  <2>2. took # Idle
    BY <2>1, TookIsClaim
  <2>3. Limit(l, t) \in Nat
    BY ClaimShape
  <2> QED BY <2>2, <2>3
<1>3. ASSUME NEW s \in Stage, NEW i \in Nat
      PROVE  \A k \in Lease : Held(k, s, i)' <=> Held(k, s, i)
  <2>1. \A k \in Lease \ {l} : Held(k, s, i)' <=> Held(k, s, i)
    BY <1>1 DEF Held, MayClaim, HasClaimed, Limit
  <2>2. /\ Limit(l, s)' = Limit(l, s)
        /\ Held(l, s, i) <=> /\ lease[l].start + lease[l].offset[s] <= i
                             /\ i < lease[l].start + Limit(l, s)
    BY <1>1 DEF Held, MayClaim, HasClaimed, Limit
  <2>3. HasClaimed(l, s, i)' <=> t = s /\ lease[l].start + lease[l].offset[t] <= i
                                 /\ i < lease[l].start + lease[l].offset[t] + n
    BY <1>1, <1>2 DEF HasClaimed
  <2>4. MayClaim(l, s, i)' <=> /\ lease[l].start + lease'[l].offset[s] <= i
                               /\ i < lease[l].start + Limit(l, s)
    BY <1>1, <1>2, <2>2 DEF MayClaim
  <2>5. Held(l, s, i)' <=> Held(l, s, i)
    <3>1. CASE s = t
      <4>1. lease'[l].offset[s] = lease[l].offset[s] + n /\ lease[l].offset[s] \in Nat
        BY <1>1, <3>1
      <4> QED BY <1>1, <1>2, <2>2, <2>3, <2>4, <3>1, <4>1 DEF Held
    <3>2. CASE s # t
      BY <1>1, <1>2, <2>2, <2>3, <2>4, <3>2 DEF Held
    <3> QED BY <3>1, <3>2
  <2> QED BY <2>1, <2>5
<1> QED BY <1>1, <1>3, FreeKept

\* A lease that closes frees nothing: its rows were burned when it began to.
LEMMA FinishFree ==
  ASSUME RowsInv, NEW l \in Lease, Finish(l)
  PROVE  RowsFree'
<1>1. /\ UNCHANGED <<reserved, cancel, mask, streams, lost>> /\ lease[l].st = "closing"
      /\ lease' = [lease EXCEPT ![l].st = "closed"]
  BY DEF Finish
<1>2. /\ \A k \in Lease \ {l} : lease'[k] = lease[k]
      /\ lease'[l].st = "closed" /\ lease'[l].claim = lease[l].claim /\ lease[l].claim = Idle
  BY <1>1 DEF RowsInv, RowsTyped, LeaseRecord, LeasesApart
<1>3. \A k \in Lease, s \in Stage, i \in Nat : Held(k, s, i)' <=> Held(k, s, i)
  BY <1>1, <1>2 DEF Held, MayClaim, HasClaimed, Limit
<1> QED BY <1>1, <1>3, FreeKept

\* The rows taken are spent; only this lease could have used them.
LEMMA TakeFree ==
  ASSUME RowsInv, NEW l \in Lease, Take(l)
  PROVE  RowsFree'
<1> DEFINE s == lease[l].claim.stage
<1>1. /\ lease[l].claim # Idle /\ s \in streams /\ UNCHANGED <<reserved, streams, lost>>
      /\ lease' = [lease EXCEPT ![l].claim = Idle]
      /\ \A t \in Stage : \A i \in RowsOf(t) :
           mask'[t][i] = IF t = s /\ i \in ClaimedRows(l) THEN "spent" ELSE mask[t][i]
  BY RowTakeShape
<1>2. \A k \in Lease, t \in Stage, i \in Nat :
        Held(k, t, i)' <=> Held(k, t, i) /\ ~(k = l /\ t = s /\ i \in ClaimedRows(l))
  BY <1>1, HoldsLess, Zenon
<1>3. \A i \in ClaimedRows(l) : /\ i \in Nat /\ i < reserved /\ <<s, i>> \notin lost
                                /\ \A k \in Lease \ {l} : ~Held(k, s, i)
  BY <1>1, ClaimedAre
<1>4. RowsTyped /\ RowsFree /\ reserved \in Nat
  BY RowsAssumed DEF RowsInv, RowsTyped
<1> HIDE DEF s
<1>5. ASSUME NEW t \in Stage, NEW i \in RowsOf(t)
      PROVE  Free(t, i)' <=> Free(t, i) /\ ~(t = s /\ i \in ClaimedRows(l))
  <2>1. i \in Nat
    BY DEF RowsOf
  <2>2. CASE t = s /\ i \in ClaimedRows(l)
    <3>1. ~(i >= reserved) /\ <<t, i>> \notin lost
      BY <1>3, <1>4, <2>2
    <3>2. \A k \in Lease : ~Held(k, t, i)'
      BY <1>2, <1>3, <2>1, <2>2
    <3> QED BY <1>1, <2>2, <3>1, <3>2 DEF Free
  <2>3. CASE ~(t = s /\ i \in ClaimedRows(l))
    <3>1. \A k \in Lease : Held(k, t, i)' <=> Held(k, t, i)
      BY <1>2, <2>1, <2>3
    <3> QED BY <1>1, <2>3, <3>1 DEF Free
  <2> QED BY <2>2, <2>3
<1>6. \A k \in lost : k[2] < reserved /\ \A j \in Lease : ~Held(j, k[1], k[2])'
  <2>1. \A k \in lost : k[1] \in Stage /\ k[2] \in Nat
    BY <1>4 DEF RowsTyped, MaskRow, Row
  <2> QED BY <1>2, <1>4, <2>1 DEF RowsFree
<1>7. \A t \in Stage : \A i \in RowsOf(t) :
        /\ mask'[t][i] = "unused" <=> t \in streams /\ Free(t, i)'
        /\ mask'[t][i] = "spent" => ~Free(t, i)'
  BY <1>1, <1>4, <1>5 DEF RowsFree
<1> QED BY <1>1, <1>6, <1>7 DEF RowsFree

\* The rows of a claim that raised stay free, and no lease holds them any more.
LEMMA LossFree ==
  ASSUME RowsInv, NEW l \in Lease, ClaimFails(l) \/ StreamFails(l)
  PROVE  RowsFree'
<1> DEFINE s == lease[l].claim.stage
<1>1. /\ lease[l].claim # Idle /\ reserved' = reserved
      /\ lease' = [lease EXCEPT ![l].claim = Idle]
      /\ lost' = lost \cup {<<s, i>> : i \in ClaimedRows(l)} /\ lost' \subseteq MaskRow
  BY LossShape
<1>2. \/ streams' = streams /\ mask' = mask
      \/ /\ streams' = streams \ {s}
         /\ \A t \in Stage : \A i \in RowsOf(t) :
              mask'[t][i] = IF t = s /\ mask[t][i] = "unused" THEN "void" ELSE mask[t][i]
  BY LossShape
<1>3. \A k \in Lease, t \in Stage, i \in Nat :
        Held(k, t, i)' <=> Held(k, t, i) /\ ~(k = l /\ t = s /\ i \in ClaimedRows(l))
  BY <1>1, HoldsLess, Zenon
<1>4. \A i \in ClaimedRows(l) : /\ i \in Nat /\ i < reserved /\ s \in Stage /\ Free(s, i)
                                /\ \A k \in Lease \ {l} : ~Held(k, s, i)
  BY <1>1, ClaimedAre
<1>5. RowsTyped /\ RowsFree /\ reserved \in Nat
  BY RowsAssumed DEF RowsInv, RowsTyped
<1> HIDE DEF s
<1>6. ASSUME NEW t \in Stage, NEW i \in RowsOf(t)
      PROVE  Free(t, i)' <=> Free(t, i)
  <2>1. i \in Nat
    BY DEF RowsOf
  <2>2. <<t, i>> \in lost' <=> <<t, i>> \in lost \/ (t = s /\ i \in ClaimedRows(l))
    BY <1>1
  <2>3. CASE t = s /\ i \in ClaimedRows(l)
    BY <1>4, <2>2, <2>3 DEF Free
  <2>4. CASE ~(t = s /\ i \in ClaimedRows(l))
    <3>1. \A k \in Lease : Held(k, t, i)' <=> Held(k, t, i)
      BY <1>3, <2>1, <2>4
    <3> QED BY <1>1, <2>2, <2>4, <3>1 DEF Free
  <2> QED BY <2>3, <2>4
<1>7. ASSUME NEW k \in lost'
      PROVE  k[2] < reserved /\ \A j \in Lease : ~Held(j, k[1], k[2])'
  <2>1. k[1] \in Stage /\ k[2] \in Nat
    BY <1>1 DEF MaskRow, Row
  <2>2. CASE k \in lost
    BY <1>3, <1>5, <2>1, <2>2 DEF RowsFree
  <2>3. CASE k \notin lost
    <3>1. PICK i \in ClaimedRows(l) : k = <<s, i>>
      BY <1>1, <2>3
    <3> QED BY <1>3, <1>4, <3>1
  <2> QED BY <2>2, <2>3
<1>8. ASSUME NEW t \in Stage, NEW i \in RowsOf(t)
      PROVE  /\ mask'[t][i] = "unused" <=> t \in streams' /\ Free(t, i)'
             /\ mask'[t][i] = "spent" => ~Free(t, i)'
  <2>1. /\ mask[t][i] = "unused" <=> t \in streams /\ Free(t, i)
        /\ mask[t][i] = "spent" => ~Free(t, i)
    BY <1>5 DEF RowsFree
  <2> QED BY <1>2, <1>6, <2>1
<1> QED BY <1>1, <1>7, <1>8 DEF RowsFree

\* The rows burned are those only this lease could still claim.
LEMMA CloseFree ==
  ASSUME RowsInv, NEW l \in Lease, CloseLease(l)
  PROVE  RowsFree'
<1>1. /\ lease[l].claim = Idle /\ lease[l].st = "held"
      /\ UNCHANGED <<reserved, streams, lost>>
      /\ mask' = Burned(l) /\ lease' = [lease EXCEPT ![l].st = "closing"]
  BY DEF CloseLease
<1>2. RowsTyped /\ RowsFree /\ lease[l] \in LeaseRecord /\ reserved \in Nat
  BY RowsAssumed DEF RowsInv, RowsTyped
<1>3. /\ \A k \in Lease \ {l} : lease'[k] = lease[k]
      /\ lease'[l].st = "closing" /\ lease'[l].claim = Idle
  BY <1>1, <1>2 DEF RowsTyped, LeaseRecord
<1>4. ASSUME NEW t \in Stage, NEW i \in Nat
      PROVE  /\ \A k \in Lease \ {l} : Held(k, t, i)' <=> Held(k, t, i)
             /\ ~Held(l, t, i)'
  BY <1>3 DEF Held, MayClaim, HasClaimed, Limit
<1>5. ASSUME NEW t \in Stage, NEW i \in RowsOf(t)
      PROVE  /\ mask'[t][i] = "unused" <=> t \in streams /\ Free(t, i)'
             /\ mask'[t][i] = "spent" => ~Free(t, i)'
  <2> DEFINE burn == lease[l].start + lease[l].offset[t] .. lease[l].start + Limit(l, t) - 1
  <2>1. i \in Nat
    BY DEF RowsOf
  <2>2. /\ mask[t][i] = "unused" <=> t \in streams /\ Free(t, i)
        /\ mask[t][i] = "spent" => ~Free(t, i)
    BY <1>2 DEF RowsFree
  <2>3. Held(l, t, i) <=> i \in burn
    <3>1. /\ lease[l].start \in Nat /\ lease[l].offset[t] \in Nat /\ Limit(l, t) \in Nat
      <4>1. /\ StageRows[t] \in Nat /\ RowCapacity \in Nat
        BY RowsAssumed
      <4> QED BY <1>2, <4>1 DEF LeaseRecord, Limit
    <3> QED BY <1>1, <2>1, <3>1 DEF Held, MayClaim, HasClaimed
  <2>4. i \in burn => /\ i < reserved /\ <<t, i>> \notin lost
                      /\ \A k \in Lease \ {l} : ~Held(k, t, i)
    BY <1>2, <2>1, <2>3, HeldInRegion, HeldApart DEF RowsFree
  <2>5. mask[t] \in [RowsOf(t) -> {"unused", "spent", "void"}]
    BY <1>2 DEF RowsTyped, RowsOf
  <2> HIDE DEF burn
  <2>6. Free(t, i)' <=> Free(t, i) /\ i \notin burn
    BY <1>1, <1>2, <1>4, <2>1, <2>3, <2>4 DEF Free
  <2>7. CASE t \in streams
    <3>1. mask'[t] = Filled(mask[t], burn, "void")
      BY <1>1, <2>7 DEF Burned, burn
    <3>2. mask'[t][i] = IF i \in burn /\ mask[t][i] = "unused" THEN "void" ELSE mask[t][i]
      BY <2>5, <3>1 DEF Filled
    <3> QED BY <2>2, <2>6, <2>7, <3>2
  <2>8. CASE t \notin streams
    <3>1. mask'[t] = mask[t]
      BY <1>1, <2>8 DEF Burned
    <3> QED BY <2>2, <2>6, <2>8, <3>1
  <2> QED BY <2>7, <2>8
<1>6. \A k \in lost : k[2] < reserved /\ \A j \in Lease : ~Held(j, k[1], k[2])'
  <2>1. \A k \in lost : k[1] \in Stage /\ k[2] \in Nat
    BY <1>2 DEF RowsTyped, MaskRow, Row
  <2> QED BY <1>2, <1>4, <2>1 DEF RowsFree
<1> QED BY <1>1, <1>5, <1>6 DEF RowsFree

\* A stream that cancel() closes has no unused row left.
LEMMA CancelFree ==
  ASSUME RowsInv,
         \/ Cancel
         \/ \E s \in Stage : CancelStage(s)
         \/ UNCHANGED <<reserved, cancel, lease, mask, streams, lost, count>>
  PROVE  RowsFree'
<1>1. CASE Cancel \/ UNCHANGED <<reserved, cancel, lease, mask, streams, lost, count>>
  <2>1. UNCHANGED <<reserved, lease, mask, streams, lost>>
    BY <1>1 DEF Cancel
  <2>2. \A s \in Stage : \A i \in Nat : \A l \in Lease : Held(l, s, i)' <=> Held(l, s, i)
    BY <2>1 DEF Held, MayClaim, HasClaimed, Limit
  <2> QED BY <2>1, <2>2, FreeKept
<1>2. ASSUME NEW s \in Stage, CancelStage(s)
      PROVE  RowsFree'
  <2>1. /\ UNCHANGED <<reserved, lease, lost>> /\ streams' = streams \ {s}
        /\ mask' = [mask EXCEPT ![s] = Filled(mask[s], Row, "void")]
    BY <1>2 DEF CancelStage
  <2>2. RowsTyped /\ RowsFree
    BY DEF RowsInv
  <2>3. \A t \in Stage : \A i \in RowsOf(t) :
          mask'[t][i] = IF t = s /\ mask[t][i] = "unused" THEN "void" ELSE mask[t][i]
    BY <2>1, <2>2, StreamCloses
  <2>4. \A t, i : Free(t, i)' <=> Free(t, i)
    BY <2>1 DEF Free, Held, MayClaim, HasClaimed, Limit
  <2>5. \A k \in lost : k[2] < reserved /\ \A j \in Lease : ~Held(j, k[1], k[2])'
    BY <2>1, <2>2 DEF RowsFree, Held, MayClaim, HasClaimed, Limit
  <2>6. \A t \in Stage : \A i \in RowsOf(t) :
          /\ mask'[t][i] = "unused" <=> t \in streams' /\ Free(t, i)'
          /\ mask'[t][i] = "spent" => ~Free(t, i)'
    BY <2>1, <2>2, <2>3, <2>4 DEF RowsFree
  <2> QED BY <2>1, <2>5, <2>6 DEF RowsFree
<1> QED BY <1>1, <1>2

\* What a lease still owes to the counters, and what it claimed and has not taken.
OwingOf(r) == IF r.st \in {"held", "closing"}
              THEN Covered(r.rows) - SumBy(r.offset, Stage) ELSE 0

PendingOf(r) == IF r.claim = Idle THEN 0 ELSE r.claim.rows

OwingOfAll == [l \in Lease |-> OwingOf(lease[l])]
PendingOfAll == [l \in Lease |-> PendingOf(lease[l])]

\* The sums of the model, as sums over functions.
LEMMA RowSums ==
  /\ Total = SumBy(StageRows, Stage) /\ Total \in Nat
  /\ Cardinality(Stage) \in Nat
  /\ ~Demand => Total = RowCapacity * Cardinality(Stage)
  /\ \A n : Covered(n) = IF Demand THEN Total ELSE n * Cardinality(Stage)
  /\ \A n \in Nat : Covered(n) \in Nat
<1>1. Total = SumBy(StageRows, Stage)
  BY DEF Total, SumBy, MapThenSumSet, MapThenFoldSet
<1>2. /\ IsFiniteSet(Stage) /\ StageRows \in [Stage -> 1 .. RowCapacity] /\ RowCapacity \in Nat
      /\ ~Demand => \A s \in Stage : StageRows[s] = RowCapacity
  BY RowsAssumed
<1>3. \A s \in Stage : StageRows[s] \in Nat
  BY <1>2
<1>4. SumBy(StageRows, Stage) \in Nat
  BY <1>2, <1>3, SumIsNat
<1>5. Cardinality(Stage) \in Nat
  BY <1>2, FS_CardinalityType
<1>6. ~Demand => SumBy(StageRows, Stage) = RowCapacity * Cardinality(Stage)
  <2>1. SUFFICES ASSUME ~Demand PROVE SumBy(StageRows, Stage) = RowCapacity * Cardinality(Stage)
    OBVIOUS
  <2> QED BY <1>2, <2>1, SumOfEquals
<1>7. \A n : Covered(n) = IF Demand THEN Total ELSE n * Cardinality(Stage)
  BY DEF Covered
<1>8. \A n \in Nat : Covered(n) \in Nat
  <2>1. \A n \in Nat : n * Cardinality(Stage) \in Nat
    BY <1>5
  <2> QED BY <1>1, <1>4, <1>7, <2>1
<1> QED BY <1>1, <1>4, <1>5, <1>6, <1>7, <1>8

\* A lease claims no more than its reservation covers.
LEMMA OwingIsNat ==
  ASSUME NEW r \in LeaseRecord,
         \A s \in Stage : r.offset[s] <= IF Demand THEN StageRows[s] ELSE r.rows
  PROVE  /\ SumBy(r.offset, Stage) \in Nat /\ Covered(r.rows) \in Nat
         /\ SumBy(r.offset, Stage) <= Covered(r.rows)
         /\ OwingOf(r) \in Nat
<1>1. /\ IsFiniteSet(Stage) /\ StageRows \in [Stage -> 1 .. RowCapacity] /\ RowCapacity \in Nat
  BY RowsAssumed
<1>2. /\ r.rows \in Nat /\ \A s \in Stage : r.offset[s] \in Nat /\ StageRows[s] \in Nat
  BY <1>1 DEF LeaseRecord
<1>3. SumBy(r.offset, Stage) \in Nat /\ Covered(r.rows) \in Nat
  BY <1>1, <1>2, SumIsNat, RowSums
<1>4. SumBy(r.offset, Stage) <= Covered(r.rows)
  <2>1. CASE Demand
    <3>1. \A s \in Stage : r.offset[s] <= StageRows[s]
      BY <2>1
    <3>2. SumBy(r.offset, Stage) <= SumBy(StageRows, Stage)
      BY <1>1, <1>2, <3>1, SumBounds
    <3> QED BY <2>1, <3>2, RowSums
  <2>2. CASE ~Demand
    <3> DEFINE g == [s \in Stage |-> r.rows]
    <3>1. \A s \in Stage : r.offset[s] <= g[s] /\ g[s] \in Nat
      BY <1>2, <2>2
    <3>2. SumBy(r.offset, Stage) <= SumBy(g, Stage)
      <4> HIDE DEF g
      <4> QED BY <1>1, <1>2, <3>1, SumBounds
    <3>3. SumBy(g, Stage) = r.rows * Cardinality(Stage)
      <4>1. \A s \in Stage : g[s] = r.rows
        OBVIOUS
      <4> HIDE DEF g
      <4> QED BY <1>1, <1>2, <4>1, SumOfEquals
    <3>4. Covered(r.rows) = r.rows * Cardinality(Stage)
      BY <2>2, RowSums
    <3> HIDE DEF g
    <3> QED BY <3>2, <3>3, <3>4
  <2> QED BY <2>1, <2>2
<1>5. OwingOf(r) \in Nat
  BY <1>3, <1>4 DEF OwingOf
<1> QED BY <1>3, <1>4, <1>5

\* The same for the lease of a state.
LEMMA LeasesOwe ==
  ASSUME RowsTyped, LeasesApart, NEW l \in Lease
  PROVE  /\ lease[l] \in LeaseRecord /\ OwingOf(lease[l]) \in Nat /\ PendingOf(lease[l]) \in Nat
         /\ Claims(l) = SumBy(lease[l].offset, Stage)
         /\ Claims(l) \in Nat /\ Claims(l) <= Covered(lease[l].rows)
         /\ Covered(lease[l].rows) \in Nat
<1>1. /\ lease[l] \in LeaseRecord
      /\ \A s \in Stage : lease[l].offset[s] <= IF Demand THEN StageRows[s] ELSE lease[l].rows
  BY DEF RowsTyped, LeasesApart, Limit
<1>2. PendingOf(lease[l]) \in Nat
  BY <1>1, RowsAssumed DEF LeaseRecord, RowClaim, PendingOf
<1>3. Claims(l) = SumBy(lease[l].offset, Stage)
  BY DEF Claims, SumBy, MapThenSumSet, MapThenFoldSet
<1> QED BY <1>1, <1>2, <1>3, OwingIsNat

\* One lease that changes changes the sums by its own term.
LEMMA LeaseSums ==
  ASSUME RowsTyped, LeasesApart, RowsTyped', LeasesApart',
         NEW l \in Lease, \A k \in Lease \ {l} : lease'[k] = lease[k]
  PROVE  /\ SumBy(OwingOfAll, Lease)' = SumBy(OwingOfAll, Lease)
                                             + (OwingOf(lease'[l]) - OwingOf(lease[l]))
         /\ SumBy(PendingOfAll, Lease)' = SumBy(PendingOfAll, Lease)
                                             + (PendingOf(lease'[l]) - PendingOf(lease[l]))
         /\ SumBy(OwingOfAll, Lease) \in Nat /\ SumBy(PendingOfAll, Lease) \in Nat
         /\ OwingOf(lease'[l]) \in Nat /\ PendingOf(lease'[l]) \in Nat
<1>1. IsFiniteSet(Lease) /\ RowCapacity \in Nat
  BY RowsAssumed
<1>2. \A k \in Lease : OwingOf(lease[k]) \in Nat /\ PendingOf(lease[k]) \in Nat
  BY LeasesOwe
<1>3. \A k \in Lease : OwingOf(lease'[k]) \in Nat /\ PendingOf(lease'[k]) \in Nat
  <2> SUFFICES ASSUME NEW k \in Lease
               PROVE  OwingOf(lease'[k]) \in Nat /\ PendingOf(lease'[k]) \in Nat
    OBVIOUS
  <2>1. /\ lease'[k] \in LeaseRecord
        /\ \A s \in Stage : lease'[k].offset[s] <= IF Demand THEN StageRows[s] ELSE lease'[k].rows
    BY DEF RowsTyped, LeasesApart, Limit
  <2>2. PendingOf(lease'[k]) \in Nat
    BY <1>1, <2>1 DEF LeaseRecord, RowClaim, PendingOf
  <2> QED BY <2>1, <2>2, OwingIsNat
<1> DEFINE f == [k \in Lease |-> OwingOf(lease[k])]
           g == [k \in Lease |-> OwingOf(lease'[k])]
           p == [k \in Lease |-> PendingOf(lease[k])]
           q == [k \in Lease |-> PendingOf(lease'[k])]
<1>4. /\ f = OwingOfAll /\ g = OwingOfAll' /\ p = PendingOfAll /\ q = PendingOfAll'
  BY DEF OwingOfAll, PendingOfAll
<1>5. /\ \A k \in Lease : f[k] \in Nat /\ g[k] \in Nat /\ p[k] \in Nat /\ q[k] \in Nat
      /\ \A k \in Lease \ {l} : g[k] = f[k] /\ q[k] = p[k]
      /\ f[l] = OwingOf(lease[l]) /\ g[l] = OwingOf(lease'[l])
      /\ p[l] = PendingOf(lease[l]) /\ q[l] = PendingOf(lease'[l])
  <2>1. \A k \in Lease : f[k] \in Nat /\ p[k] \in Nat
    BY <1>2
  <2>2. \A k \in Lease : g[k] \in Nat /\ q[k] \in Nat
    BY <1>3
  <2>3. ASSUME NEW k \in Lease \ {l} PROVE g[k] = f[k] /\ q[k] = p[k]
    <3>1. k \in Lease /\ lease'[k] = lease[k]
      OBVIOUS
    <3>2. /\ f[k] = OwingOf(lease[k]) /\ g[k] = OwingOf(lease'[k])
          /\ p[k] = PendingOf(lease[k]) /\ q[k] = PendingOf(lease'[k])
      BY <3>1
    <3> QED BY <3>1, <3>2
  <2>4. f[l] = OwingOf(lease[l]) /\ g[l] = OwingOf(lease'[l])
    OBVIOUS
  <2>5. p[l] = PendingOf(lease[l]) /\ q[l] = PendingOf(lease'[l])
    OBVIOUS
  <2> QED BY <2>1, <2>2, <2>3, <2>4, <2>5
<1> HIDE DEF f, g, p, q
<1>6. /\ SumBy(g, Lease) = SumBy(f, Lease) + (g[l] - f[l])
      /\ SumBy(q, Lease) = SumBy(p, Lease) + (q[l] - p[l])
      /\ SumBy(f, Lease) \in Nat /\ SumBy(p, Lease) \in Nat
  <2>1. \A k \in Lease : f[k] \in Int /\ g[k] \in Int /\ p[k] \in Int /\ q[k] \in Int
    BY <1>5
  <2>2. SumBy(g, Lease) = SumBy(f, Lease) + (g[l] - f[l])
    <3>1. /\ \A k \in Lease : f[k] \in Int /\ g[k] \in Int
          /\ \A k \in Lease \ {l} : g[k] = f[k]
      BY <1>5, <2>1
    <3> QED BY ONLY l \in Lease, <1>1, <3>1, SumChange
  <2>3. SumBy(q, Lease) = SumBy(p, Lease) + (q[l] - p[l])
    <3>1. /\ \A k \in Lease : p[k] \in Int /\ q[k] \in Int
          /\ \A k \in Lease \ {l} : q[k] = p[k]
      BY <1>5, <2>1
    <3> QED BY ONLY l \in Lease, <1>1, <3>1, SumChange
  <2>4. SumBy(f, Lease) \in Nat /\ SumBy(p, Lease) \in Nat
    BY ONLY <1>1, <1>5, SumIsNat
  <2> QED BY <2>2, <2>3, <2>4
<1>7. SumBy(OwingOfAll, Lease)' = SumBy(g, Lease) /\ SumBy(PendingOfAll, Lease)' = SumBy(q, Lease)
  BY <1>4
<1> QED BY <1>3, <1>4, <1>5, <1>6, <1>7

\* The counters, with the sums they are compared with.
RowsCounted ==
  /\ count.issued = Total
  /\ count.reserved = IF Demand THEN (IF reserved = 0 THEN 0 ELSE Total)
                      ELSE reserved * Cardinality(Stage)
  /\ count.reserved = count.claimed + count.burned + SumBy(OwingOfAll, Lease)
  /\ cancel # "no" => count.issued = count.reserved + count.discarded
  /\ Cardinality(Spent) + SumBy(PendingOfAll, Lease) + Cardinality(lost) = count.claimed

\* An inventory has finitely many rows.
LEMMA FiniteRows == IsFiniteSet(Stage \X Row)
<1>1. IsFiniteSet(Stage) /\ IsFiniteSet(Row)
  BY RowsAssumed, FS_Interval DEF Row
<1> QED BY <1>1, FS_Product

\* The numbers RowsCounted adds up are numbers.
LEMMA CountsAreNat ==
  ASSUME RowsTyped, LeasesApart
  PROVE  /\ IsFiniteSet(Spent) /\ Cardinality(Spent) \in Nat
         /\ IsFiniteSet(lost) /\ Cardinality(lost) \in Nat
         /\ SumBy(OwingOfAll, Lease) \in Nat /\ SumBy(PendingOfAll, Lease) \in Nat
         /\ \A k \in Counter : count[k] \in Nat
         /\ count \in [Counter -> Nat]
         /\ Total \in Nat /\ Cardinality(Stage) \in Nat
         /\ RowCapacity \in Nat \ {0} /\ reserved \in 0 .. RowCapacity
<1>1. IsFiniteSet(Spent) /\ IsFiniteSet(lost)
  <2>1. Spent \subseteq Stage \X Row /\ lost \subseteq Stage \X Row
    BY DEF Spent, MaskRow, RowsTyped
  <2> QED BY <2>1, FiniteRows, FS_Subset
<1>2. SumBy(OwingOfAll, Lease) \in Nat /\ SumBy(PendingOfAll, Lease) \in Nat
  <2>1. /\ IsFiniteSet(Lease)
        /\ \A l \in Lease : OwingOfAll[l] \in Nat /\ PendingOfAll[l] \in Nat
    BY RowsAssumed, LeasesOwe DEF OwingOfAll, PendingOfAll
  <2> QED BY <2>1, SumIsNat
<1> QED BY <1>1, <1>2, FS_CardinalityType, RowSums, RowsAssumed DEF RowsTyped

\* Unless a row becomes spent, the spent rows stay what they are.
LEMMA SpentKept ==
  ASSUME \A s \in Stage : \A i \in RowsOf(s) :
           mask'[s][i] = "spent" <=> mask[s][i] = "spent"
  PROVE  Spent' = Spent
BY DEF Spent, MaskRow

\* A step that leaves the terms of the sums alone.
LEMMA CountKept ==
  ASSUME RowsCounted, UNCHANGED <<reserved, cancel, lost, count>>, Spent' = Spent,
         SumBy(OwingOfAll, Lease)' = SumBy(OwingOfAll, Lease),
         SumBy(PendingOfAll, Lease)' = SumBy(PendingOfAll, Lease)
  PROVE  RowsCounted'
BY DEF RowsCounted

\* prepared_stage_rows_reserved grows by what the new lease covers.
LEMMA ReserveCounted ==
  ASSUME RowsInv, RowsCounted, NEW l \in Lease, NEW n \in 1 .. RowCapacity,
         Reserve(l, n), RowsTyped', LeasesApart'
  PROVE  RowsCounted'
<1>1. /\ UNCHANGED <<cancel, mask, streams, lost>> /\ lease[l].st = "none" /\ cancel = "no"
      /\ reserved' = IF Demand THEN RowCapacity ELSE reserved + n
      /\ lease' = [lease EXCEPT ![l] = NewLease("held", reserved, n)]
      /\ count' = [count EXCEPT !["reserved"] = count.reserved + Covered(n)]
  BY DEF Reserve
<1>2. /\ RowsTyped /\ LeasesApart
      /\ lease[l].claim = Idle
      /\ \A k \in Lease \ {l} : lease'[k] = lease[k]
      /\ lease'[l] = NewLease("held", reserved, n)
      /\ Demand => reserved = 0
  BY <1>1 DEF RowsInv, RowsTyped, LeasesApart, NoLease, NewLease
<1>3. /\ SumBy(OwingOfAll, Lease)' = SumBy(OwingOfAll, Lease)
                                             + (OwingOf(lease'[l]) - OwingOf(lease[l]))
      /\ SumBy(PendingOfAll, Lease)' = SumBy(PendingOfAll, Lease)
                                             + (PendingOf(lease'[l]) - PendingOf(lease[l]))
      /\ OwingOf(lease'[l]) \in Nat /\ PendingOf(lease'[l]) \in Nat
  BY <1>2, LeaseSums
<1>4. OwingOf(lease[l]) = 0 /\ PendingOf(lease[l]) = 0 /\ PendingOf(lease'[l]) = 0
  BY <1>1, <1>2 DEF OwingOf, PendingOf, NewLease
<1>5. OwingOf(lease'[l]) = Covered(n) /\ Covered(n) \in Nat
  <2> DEFINE zero == [s \in Stage |-> 0]
  <2>1. SumBy(zero, Stage) = 0
    <3>1. \A s \in Stage : zero[s] = 0
      OBVIOUS
    <3>2. IsFiniteSet(Stage) /\ Cardinality(Stage) \in Nat
      BY RowsAssumed, FS_CardinalityType
    <3> HIDE DEF zero
    <3>3. SumBy(zero, Stage) = 0 * Cardinality(Stage)
      BY <3>1, <3>2, SumOfEquals
    <3> QED BY <3>2, <3>3
  <2>2. lease'[l].st = "held" /\ lease'[l].rows = n /\ lease'[l].offset = zero
    BY <1>2 DEF NewLease
  <2>3. Covered(n) \in Nat
    BY RowSums
  <2> HIDE DEF zero
  <2> QED BY <2>1, <2>2, <2>3 DEF OwingOf
<1>6. Spent' = Spent
  BY <1>1, SpentKept
<1>7. /\ count'.reserved = count.reserved + Covered(n)
      /\ \A k \in Counter \ {"reserved"} : count'[k] = count[k]
  BY <1>1, <1>2, CountsAreNat DEF Counter
<1>8. count'.reserved = IF Demand THEN (IF reserved' = 0 THEN 0 ELSE Total)
                        ELSE reserved' * Cardinality(Stage)
  <2>1. /\ RowCapacity \in Nat \ {0} /\ reserved \in Nat /\ Cardinality(Stage) \in Nat
        /\ Total \in Nat /\ count.reserved \in Nat
    BY <1>2, CountsAreNat DEF Counter
  <2>2. CASE Demand
    <3>1. count.reserved = 0
      BY <1>2, <2>2 DEF RowsCounted
    <3>2. Covered(n) = Total
      BY <2>2, RowSums
    <3> QED BY <1>1, <1>7, <2>1, <2>2, <3>1, <3>2
  <2>3. CASE ~Demand
    <3>1. count.reserved = reserved * Cardinality(Stage)
      BY <2>3 DEF RowsCounted
    <3>2. Covered(n) = n * Cardinality(Stage)
      BY <2>3, RowSums
    <3>3. (reserved + n) * Cardinality(Stage) = reserved * Cardinality(Stage) + n * Cardinality(Stage)
      BY <2>1
    <3> QED BY <1>1, <1>7, <2>3, <3>1, <3>2, <3>3
  <2> QED BY <2>2, <2>3
<1> DEFINE owing == SumBy(OwingOfAll, Lease)
           pending == SumBy(PendingOfAll, Lease)
<1>9. /\ owing \in Nat /\ pending \in Nat /\ owing' = owing + Covered(n) /\ pending' = pending
  BY <1>2, <1>3, <1>4, <1>5, CountsAreNat
<1>10. /\ count.reserved \in Nat /\ count.claimed \in Nat /\ count.burned \in Nat
       /\ count'.claimed = count.claimed /\ count'.burned = count.burned /\ count'.issued = count.issued
       /\ count.issued = Total /\ count.reserved = count.claimed + count.burned + owing
       /\ Cardinality(Spent) + pending + Cardinality(lost) = count.claimed
       /\ lost' = lost
  BY <1>1, <1>2, <1>7, CountsAreNat DEF RowsCounted, Counter
<1> HIDE DEF owing, pending
<1>11. count'.reserved = count'.claimed + count'.burned + owing'
  BY <1>5, <1>7, <1>9, <1>10
<1>12. Cardinality(Spent)' + pending' + Cardinality(lost)' = count'.claimed
  BY <1>6, <1>9, <1>10
<1> QED BY <1>1, <1>8, <1>10, <1>11, <1>12 DEF RowsCounted, owing, pending

\* MaskRow claimed are no longer owed and not yet spent.
LEMMA ClaimCounted ==
  ASSUME RowsInv, RowsCounted, NEW l \in Lease, NEW s \in Stage,
         NEW n \in 1 .. RowCapacity, Claim(l, s, n), RowsTyped', LeasesApart'
  PROVE  RowsCounted'
<1> DEFINE took == [stage |-> s, from |-> lease[l].start + lease[l].offset[s], rows |-> n]
           owing == SumBy(OwingOfAll, Lease)
           pending == SumBy(PendingOfAll, Lease)
<1>1. /\ lease[l].st = "held" /\ lease[l].claim = Idle
      /\ UNCHANGED <<reserved, cancel, mask, streams, lost>>
      /\ \A k \in Lease \ {l} : lease'[k] = lease[k]
      /\ lease'[l].rows = lease[l].rows
      /\ lease[l].offset \in [Stage -> 0 .. RowCapacity]
      /\ lease'[l].st = "held" /\ lease'[l].claim = took
      /\ lease'[l].offset = [lease[l].offset EXCEPT ![s] = lease[l].offset[s] + n]
      /\ count' = [count EXCEPT !["claimed"] = count.claimed + n]
  BY ClaimShape
<1>2. RowsTyped /\ LeasesApart /\ took # Idle
  <2>1. RowsTyped /\ LeasesApart
    BY DEF RowsInv
  <2> QED BY <2>1, TookIsClaim
<1>3. /\ owing' = owing + (OwingOf(lease'[l]) - OwingOf(lease[l]))
      /\ pending' = pending + (PendingOf(lease'[l]) - PendingOf(lease[l]))
      /\ OwingOf(lease'[l]) \in Nat /\ PendingOf(lease'[l]) \in Nat
      /\ owing \in Nat /\ pending \in Nat
  BY <1>1, <1>2, LeaseSums
<1>4. Spent' = Spent
  BY <1>1, SpentKept
<1>5. PendingOf(lease[l]) = 0 /\ PendingOf(lease'[l]) = n
  BY <1>1, <1>2 DEF PendingOf
<1>6. OwingOf(lease[l]) = Covered(lease[l].rows) - SumBy(lease[l].offset, Stage)
      /\ OwingOf(lease'[l]) = Covered(lease[l].rows) - SumBy(lease'[l].offset, Stage)
  BY <1>1 DEF OwingOf
<1>7. SumBy(lease'[l].offset, Stage) = SumBy(lease[l].offset, Stage) + n
      /\ SumBy(lease[l].offset, Stage) \in Nat /\ Covered(lease[l].rows) \in Nat
  <2> DEFINE f == lease[l].offset
             g == lease'[l].offset
  <2>1. /\ IsFiniteSet(Stage) /\ RowCapacity \in Nat
    BY RowsAssumed
  <2>2. /\ \A t \in Stage : f[t] \in Nat /\ g[t] \in Nat
        /\ \A t \in Stage \ {s} : g[t] = f[t]
        /\ g[s] = f[s] + n
    <3>1. \A t \in Stage : f[t] \in Nat
      BY <1>1, <2>1
    <3>2. g = [f EXCEPT ![s] = f[s] + n]
      BY <1>1
    <3>3. f \in [Stage -> Nat]
      BY <1>1, <3>1
    <3> HIDE DEF f, g
    <3> QED BY <3>1, <3>2, <3>3
  <2>3. SumBy(f, Stage) \in Nat /\ Covered(lease[l].rows) \in Nat
    BY <1>2, LeasesOwe
  <2> HIDE DEF f, g
  <2>4. SumBy(g, Stage) = SumBy(f, Stage) + (g[s] - f[s])
    <3>1. \A t \in Stage : f[t] \in Int /\ g[t] \in Int
      BY <2>2
    <3>2. \A t \in Stage \ {s} : g[t] = f[t]
      BY <2>2
    <3> QED BY ONLY <2>1, <3>1, <3>2, SumChange, s \in Stage
  <2>5. SumBy(g, Stage) = SumBy(f, Stage) + n
    BY <2>2, <2>3, <2>4
  <2> QED BY <2>3, <2>5 DEF f, g
<1>8. OwingOf(lease'[l]) = OwingOf(lease[l]) - n /\ OwingOf(lease[l]) \in Nat
  BY <1>2, <1>6, <1>7, LeasesOwe
<1>9. /\ count'.claimed = count.claimed + n
      /\ \A k \in Counter \ {"claimed"} : count'[k] = count[k]
  BY <1>1, <1>2, CountsAreNat DEF Counter
<1>10. /\ count.reserved \in Nat /\ count.claimed \in Nat /\ count.burned \in Nat
       /\ count'.reserved = count.reserved /\ count'.burned = count.burned /\ count'.issued = count.issued
       /\ count'.discarded = count.discarded
       /\ count.reserved = count.claimed + count.burned + owing
       /\ Cardinality(Spent) + pending + Cardinality(lost) = count.claimed
       /\ Cardinality(Spent) \in Nat /\ Cardinality(lost) \in Nat
  BY <1>2, <1>9, CountsAreNat DEF RowsCounted, Counter
<1>11. /\ count'.issued = Total
       /\ count'.reserved = IF Demand THEN (IF reserved' = 0 THEN 0 ELSE Total)
                            ELSE reserved' * Cardinality(Stage)
       /\ cancel' # "no" => count'.issued = count'.reserved + count'.discarded
  BY <1>1, <1>10 DEF RowsCounted
<1>12. /\ count'.reserved = count'.claimed + count'.burned + owing'
       /\ Cardinality(Spent') + pending' + Cardinality(lost') = count'.claimed
  <2>1. lost' = lost
    BY <1>1
  <2> HIDE DEF owing, pending
  <2>2. owing' = owing - n /\ pending' = pending + n
    BY <1>3, <1>5, <1>8
  <2> QED BY <1>3, <1>4, <1>9, <1>10, <2>1, <2>2
<1> QED BY <1>11, <1>12 DEF RowsCounted

\* The rows of a claim, in their stage.
LEMMA ClaimedCount ==
  ASSUME RowsInv, NEW l \in Lease, lease[l].claim # Idle
  PROVE  LET rows == {<<lease[l].claim.stage, i>> : i \in ClaimedRows(l)} IN
         /\ IsFiniteSet(rows) /\ Cardinality(rows) = lease[l].claim.rows
         /\ rows \subseteq MaskRow /\ rows \cap lost = {} /\ rows \cap Spent = {}
<1> DEFINE s == lease[l].claim.stage
           a == lease[l].claim.from
           n == lease[l].claim.rows
           rows == {<<s, i>> : i \in ClaimedRows(l)}
<1>1. /\ s \in Stage /\ a \in Nat /\ n \in Nat /\ ClaimedRows(l) \subseteq RowsOf(s)
      /\ \A i \in ClaimedRows(l) : Free(s, i) /\ <<s, i>> \notin lost
  BY ClaimedAre
<1>2. ClaimedRows(l) = a .. a + n - 1
  BY DEF ClaimedRows
<1> HIDE DEF s, a, n
<1>3. IsFiniteSet(rows) /\ Cardinality(rows) = n
  <2>1. IsFiniteSet(a .. a + n - 1) /\ Cardinality(a .. a + n - 1) = n
    <3>1. a \in Int /\ a + n - 1 \in Int /\ (a > a + n - 1 <=> n = 0)
      BY <1>1
    <3> QED BY <1>1, <3>1, FS_Interval
  <2>2. IsFiniteSet({s}) /\ Cardinality({s}) = 1
    BY FS_Singleton
  <2> DEFINE c == a .. a + n - 1
  <2>3. rows = {s} \X c
    BY <1>2
  <2> HIDE DEF rows, c
  <2>4. IsFiniteSet({s} \X c) /\ Cardinality({s} \X c) = Cardinality({s}) * Cardinality(c)
    BY <2>1, <2>2, FS_Product DEF c
  <2>5. Cardinality(c) = n
    BY <2>1 DEF c
  <2> QED BY <1>1, <2>2, <2>3, <2>4, <2>5
<1>4. rows \subseteq MaskRow
  <2>1. RowsOf(s) \subseteq Row
    BY <1>1, RowsAssumed DEF RowsOf, Row
  <2> QED BY <1>1, <2>1 DEF MaskRow
<1>5. rows \cap lost = {}
  BY <1>1
<1>6. rows \cap Spent = {}
  <2>1. \A i \in ClaimedRows(l) : mask[s][i] # "spent"
    BY <1>1 DEF RowsInv, RowsFree
  <2> QED BY <2>1 DEF Spent
<1> QED BY <1>3, <1>4, <1>5, <1>6 DEF s, n

\* A claim that ends is no longer pending: the counters are as before.
LEMMA ClaimEndsCounted ==
  ASSUME RowsInv, RowsCounted, NEW l \in Lease, lease[l].claim # Idle,
         lease' = [lease EXCEPT ![l].claim = Idle], UNCHANGED <<reserved, cancel, count>>,
         RowsTyped', LeasesApart',
         Cardinality(Spent') + Cardinality(lost')
           = Cardinality(Spent) + Cardinality(lost) + lease[l].claim.rows
  PROVE  RowsCounted'
<1> DEFINE owing == SumBy(OwingOfAll, Lease)
           pending == SumBy(PendingOfAll, Lease)
           n == lease[l].claim.rows
<1>1. /\ lease[l].st = "held" /\ lease'[l].st = "held" /\ lease'[l].claim = Idle
      /\ lease'[l].rows = lease[l].rows /\ lease'[l].offset = lease[l].offset
      /\ \A k \in Lease \ {l} : lease'[k] = lease[k]
  BY ClaimEnds
<1>2. RowsTyped /\ LeasesApart
  BY DEF RowsInv
<1>3. /\ owing' = owing + (OwingOf(lease'[l]) - OwingOf(lease[l]))
      /\ pending' = pending + (PendingOf(lease'[l]) - PendingOf(lease[l]))
      /\ owing \in Nat /\ pending \in Nat
  BY <1>1, <1>2, LeaseSums
<1>4. OwingOf(lease'[l]) = OwingOf(lease[l]) /\ OwingOf(lease[l]) \in Nat
  BY <1>1, <1>2, LeasesOwe DEF OwingOf
<1>5. PendingOf(lease'[l]) = 0 /\ PendingOf(lease[l]) = n /\ n \in Nat
  BY <1>1, ClaimedAre DEF PendingOf
<1>6. owing' = owing /\ pending' = pending - n
  <2> HIDE DEF owing, pending, n
  <2> QED BY <1>3, <1>4, <1>5
<1>7. /\ Cardinality(Spent) \in Nat /\ Cardinality(lost) \in Nat /\ count.claimed \in Nat
      /\ Cardinality(Spent') \in Nat /\ Cardinality(lost') \in Nat
      /\ Cardinality(Spent) + pending + Cardinality(lost) = count.claimed
  <2>1. Cardinality(Spent') \in Nat /\ Cardinality(lost') \in Nat
    <3>1. IsFiniteSet(Spent') /\ IsFiniteSet(lost')
      <4>1. Spent' \subseteq Stage \X Row /\ lost' \subseteq Stage \X Row
        BY DEF Spent, MaskRow, RowsTyped
      <4> QED BY <4>1, FiniteRows, FS_Subset
    <3> QED BY <3>1, FS_CardinalityType
  <2> QED BY <1>2, <2>1, CountsAreNat DEF RowsCounted, Counter
<1>8. Cardinality(Spent') + pending' + Cardinality(lost') = count.claimed
  <2> HIDE DEF pending, n
  <2>1. Cardinality(Spent') + Cardinality(lost') = Cardinality(Spent) + Cardinality(lost) + n
    BY DEF n
  <2> QED BY <1>3, <1>5, <1>6, <1>7, <2>1
<1> QED BY <1>6, <1>8 DEF RowsCounted

\* Rows taken are spent, as many as were claimed.
LEMMA TakeCounted ==
  ASSUME RowsInv, RowsCounted, NEW l \in Lease, Take(l),
         RowsTyped', LeasesApart'
  PROVE  RowsCounted'
<1> DEFINE s == lease[l].claim.stage
           new == {<<s, i>> : i \in ClaimedRows(l)}
<1>1. /\ lease[l].claim # Idle /\ s \in Stage
      /\ lease' = [lease EXCEPT ![l].claim = Idle]
      /\ UNCHANGED <<reserved, cancel, streams, lost, count>>
      /\ \A t \in Stage : \A i \in RowsOf(t) :
           mask'[t][i] = IF t = s /\ i \in ClaimedRows(l) THEN "spent" ELSE mask[t][i]
  BY RowTakeShape
<1>2. /\ IsFiniteSet(new) /\ Cardinality(new) = lease[l].claim.rows
      /\ new \subseteq MaskRow /\ new \cap Spent = {} /\ lease[l].claim.rows \in Nat
  BY <1>1, ClaimedCount, ClaimedAre
<1>3. Spent' = Spent \cup new
  <2>1. \A k \in MaskRow : mask'[k[1]][k[2]] = IF k \in new THEN "spent" ELSE mask[k[1]][k[2]]
    <3> SUFFICES ASSUME NEW k \in MaskRow
                 PROVE  mask'[k[1]][k[2]] = IF k \in new THEN "spent" ELSE mask[k[1]][k[2]]
      OBVIOUS
    <3>1. k[1] \in Stage /\ k[2] \in RowsOf(k[1]) /\ k = <<k[1], k[2]>>
      BY DEF MaskRow
    <3>2. k \in new <=> k[1] = s /\ k[2] \in ClaimedRows(l)
      BY <3>1
    <3> HIDE DEF s, new
    <3> QED BY <1>1, <3>1, <3>2
  <2> HIDE DEF new
  <2> QED BY <1>2, <2>1 DEF Spent
<1>4. IsFiniteSet(Spent) /\ Cardinality(Spent) \in Nat /\ Cardinality(lost) \in Nat
  BY CountsAreNat DEF RowsInv
<1> HIDE DEF new
<1>5. Cardinality(Spent') = Cardinality(Spent) + lease[l].claim.rows
  <2>1. Cardinality(Spent \cup new) = Cardinality(Spent) + Cardinality(new) - Cardinality(Spent \cap new)
    BY <1>2, <1>4, FS_Union
  <2>2. Cardinality(Spent \cap new) = 0
    <3>1. Spent \cap new = {}
      BY <1>2
    <3> QED BY <3>1, FS_EmptySet
  <2> QED BY <1>2, <1>3, <1>4, <2>1, <2>2
<1>6. Cardinality(lost') = Cardinality(lost)
  BY <1>1
<1>7. Cardinality(Spent') + Cardinality(lost')
        = Cardinality(Spent) + Cardinality(lost) + lease[l].claim.rows
  BY <1>2, <1>4, <1>5, <1>6
<1> QED BY <1>1, <1>7, ClaimEndsCounted

\* Rows that a take has lost are lost, as many as were claimed.
LEMMA LossCounted ==
  ASSUME RowsInv, RowsCounted, NEW l \in Lease, ClaimFails(l) \/ StreamFails(l),
         RowsTyped', LeasesApart'
  PROVE  RowsCounted'
<1> DEFINE s == lease[l].claim.stage
           new == {<<s, i>> : i \in ClaimedRows(l)}
<1>1. /\ lease[l].claim # Idle /\ s \in Stage
      /\ lease' = [lease EXCEPT ![l].claim = Idle]
      /\ UNCHANGED <<reserved, cancel, count>> /\ lost' = lost \cup new
  BY LossShape
<1>2. \/ mask' = mask
      \/ \A t \in Stage : \A i \in RowsOf(t) :
           mask'[t][i] = IF t = s /\ mask[t][i] = "unused" THEN "void" ELSE mask[t][i]
  BY LossShape
<1>3. /\ IsFiniteSet(new) /\ Cardinality(new) = lease[l].claim.rows
      /\ new \cap lost = {} /\ lease[l].claim.rows \in Nat
  BY <1>1, ClaimedCount, ClaimedAre
<1>4. Spent' = Spent
  BY <1>2, SpentKept
<1>5. IsFiniteSet(lost) /\ Cardinality(Spent) \in Nat /\ Cardinality(lost) \in Nat
  BY CountsAreNat DEF RowsInv
<1> HIDE DEF new
<1>6. Cardinality(lost') = Cardinality(lost) + lease[l].claim.rows
  <2>1. Cardinality(lost \cup new) = Cardinality(lost) + Cardinality(new) - Cardinality(lost \cap new)
    BY <1>3, <1>5, FS_Union
  <2>2. Cardinality(lost \cap new) = 0
    <3>1. lost \cap new = {}
      BY <1>3
    <3> QED BY <3>1, FS_EmptySet
  <2> QED BY <1>1, <1>3, <1>5, <2>1, <2>2
<1>7. Cardinality(Spent') + Cardinality(lost')
        = Cardinality(Spent) + Cardinality(lost) + lease[l].claim.rows
  BY <1>3, <1>4, <1>5, <1>6
<1> QED BY <1>1, <1>7, ClaimEndsCounted

\* Burning rows changes no counter: they are counted when the lease is closed.
LEMMA CloseCounted ==
  ASSUME RowsInv, RowsCounted, NEW l \in Lease, CloseLease(l),
         RowsTyped', LeasesApart'
  PROVE  RowsCounted'
<1> DEFINE owing == SumBy(OwingOfAll, Lease)
           pending == SumBy(PendingOfAll, Lease)
<1>1. /\ lease[l].claim = Idle /\ lease[l].st = "held"
      /\ UNCHANGED <<reserved, cancel, streams, lost, count>>
      /\ mask' = Burned(l) /\ lease' = [lease EXCEPT ![l].st = "closing"]
  BY DEF CloseLease
<1>2. RowsTyped /\ LeasesApart /\ lease[l] \in LeaseRecord /\ lease \in [Lease -> LeaseRecord]
  BY DEF RowsInv, RowsTyped
<1>3. /\ \A k \in Lease \ {l} : lease'[k] = lease[k]
      /\ lease'[l].st = "closing" /\ lease'[l].claim = Idle
      /\ lease'[l].rows = lease[l].rows /\ lease'[l].offset = lease[l].offset
  BY <1>1, <1>2 DEF LeaseRecord
<1>4. /\ owing' = owing + (OwingOf(lease'[l]) - OwingOf(lease[l]))
      /\ pending' = pending + (PendingOf(lease'[l]) - PendingOf(lease[l]))
      /\ owing \in Nat /\ pending \in Nat
      /\ OwingOf(lease[l]) \in Nat
  BY <1>2, <1>3, LeaseSums, LeasesOwe
<1>5. OwingOf(lease'[l]) = OwingOf(lease[l]) /\ PendingOf(lease[l]) = 0 /\ PendingOf(lease'[l]) = 0
  BY <1>1, <1>3 DEF OwingOf, PendingOf
<1>6. owing' = owing /\ pending' = pending
  <2> HIDE DEF owing, pending
  <2> QED BY <1>4, <1>5
<1>7. Spent' = Spent
  <2>1. ASSUME NEW t \in Stage, NEW i \in RowsOf(t)
        PROVE  mask'[t][i] = "spent" <=> mask[t][i] = "spent"
    <3>1. mask[t] \in [RowsOf(t) -> {"unused", "spent", "void"}]
      BY <1>2 DEF RowsTyped, RowsOf
    <3>2. \/ mask'[t] = mask[t]
          \/ mask'[t] = Filled(mask[t], lease[l].start + lease[l].offset[t]
                                                  .. lease[l].start + Limit(l, t) - 1, "void")
      BY <1>1 DEF Burned
    <3> QED BY <3>1, <3>2 DEF Filled
  <2> QED BY <2>1, SpentKept
<1> QED BY <1>1, <1>6, <1>7, CountKept

\* The rows a lease leaves behind are counted as burned, once.
LEMMA FinishCounted ==
  ASSUME RowsInv, RowsCounted, NEW l \in Lease, Finish(l),
         RowsTyped', LeasesApart'
  PROVE  RowsCounted'
<1> DEFINE owing == SumBy(OwingOfAll, Lease)
           pending == SumBy(PendingOfAll, Lease)
           v == Covered(lease[l].rows) - Claims(l)
<1>1. /\ UNCHANGED <<reserved, cancel, mask, streams, lost>> /\ lease[l].st = "closing"
      /\ lease' = [lease EXCEPT ![l].st = "closed"]
      /\ count' = [count EXCEPT !["burned"] = count.burned + v]
  BY DEF Finish
<1>2. RowsTyped /\ LeasesApart /\ lease[l] \in LeaseRecord /\ lease \in [Lease -> LeaseRecord]
  BY DEF RowsInv, RowsTyped
<1>3. /\ \A k \in Lease \ {l} : lease'[k] = lease[k]
      /\ lease'[l].st = "closed" /\ lease'[l].claim = lease[l].claim
  BY <1>1, <1>2 DEF LeaseRecord
<1>4. /\ owing' = owing + (OwingOf(lease'[l]) - OwingOf(lease[l]))
      /\ pending' = pending + (PendingOf(lease'[l]) - PendingOf(lease[l]))
      /\ owing \in Nat /\ pending \in Nat
      /\ PendingOf(lease[l]) \in Nat
  BY <1>2, <1>3, LeaseSums, LeasesOwe
<1>5. OwingOf(lease'[l]) = 0 /\ OwingOf(lease[l]) = v /\ v \in Nat
      /\ PendingOf(lease'[l]) = PendingOf(lease[l])
  BY <1>1, <1>2, <1>3, LeasesOwe DEF OwingOf, PendingOf
<1>6. owing' = owing - v /\ pending' = pending
  <2> HIDE DEF owing, pending, v
  <2> QED BY <1>4, <1>5
<1>7. Spent' = Spent
  BY <1>1, SpentKept
<1>8. /\ count'.burned = count.burned + v
      /\ \A k \in Counter \ {"burned"} : count'[k] = count[k]
  <2> HIDE DEF v
  <2> QED BY <1>1, <1>2, CountsAreNat DEF Counter
<1>9. /\ count.reserved \in Nat /\ count.claimed \in Nat /\ count.burned \in Nat
      /\ count'.reserved = count.reserved /\ count'.claimed = count.claimed /\ count'.issued = count.issued
      /\ count'.discarded = count.discarded
      /\ count.reserved = count.claimed + count.burned + owing
  BY <1>2, <1>8, CountsAreNat DEF RowsCounted, Counter
<1>10. count'.reserved = count'.claimed + count'.burned + owing'
  <2> HIDE DEF owing, v
  <2> QED BY <1>4, <1>5, <1>6, <1>8, <1>9
<1> HIDE DEF v
<1> QED BY <1>1, <1>6, <1>7, <1>9, <1>10 DEF RowsCounted

\* cancel() counts the rows no lease reserved as discarded, once.
LEMMA CancelCounted ==
  ASSUME RowsInv, RowsCounted, RowsTyped', LeasesApart',
         \/ Cancel
         \/ \E s \in Stage : CancelStage(s)
         \/ UNCHANGED <<reserved, cancel, lease, mask, streams, lost, count>>
  PROVE  RowsCounted'
<1>1. RowsTyped /\ LeasesApart
  BY DEF RowsInv
<1>2. lease' = lease => OwingOfAll' = OwingOfAll /\ PendingOfAll' = PendingOfAll
  BY DEF OwingOfAll, PendingOfAll
<1>3. CASE Cancel
  <2> DEFINE d == IF Demand THEN (IF reserved < RowCapacity THEN Total ELSE 0)
                  ELSE (RowCapacity - reserved) * Cardinality(Stage)
  <2>1. /\ UNCHANGED <<reserved, lease, mask, streams, lost>> /\ cancel = "no" /\ cancel' = "counted"
        /\ count' = [count EXCEPT !["discarded"] = d]
    BY <1>3 DEF Cancel
  <2>2. Spent' = Spent
    BY <2>1, SpentKept
  <2>3. count'.discarded = d /\ \A k \in Counter \ {"discarded"} : count'[k] = count[k]
    <3> HIDE DEF d
    <3> QED BY <1>1, <2>1, CountsAreNat DEF Counter
  <2>4. count.issued = count.reserved + d
    <3>1. /\ RowCapacity \in Nat \ {0} /\ reserved \in 0 .. RowCapacity /\ Cardinality(Stage) \in Nat
          /\ Total \in Nat
      BY <1>1, CountsAreNat
    <3>2. CASE Demand
      <4>1. reserved \in {0, RowCapacity}
        BY <1>1, <3>2 DEF LeasesApart
      <4>2. d = IF reserved < RowCapacity THEN Total ELSE 0
        BY <3>2
      <4>3. count.issued = Total /\ count.reserved = IF reserved = 0 THEN 0 ELSE Total
        BY <3>2 DEF RowsCounted
      <4> HIDE DEF d
      <4> QED BY <3>1, <4>1, <4>2, <4>3
    <3>3. CASE ~Demand
      <4>1. Total = RowCapacity * Cardinality(Stage)
        BY <3>3, RowSums
      <4>2. RowCapacity * Cardinality(Stage)
              = reserved * Cardinality(Stage) + (RowCapacity - reserved) * Cardinality(Stage)
        BY <3>1
      <4>3. count.issued = Total /\ count.reserved = reserved * Cardinality(Stage)
        BY <3>3 DEF RowsCounted
      <4>4. d = (RowCapacity - reserved) * Cardinality(Stage)
        BY <3>3
      <4> QED BY <4>1, <4>2, <4>3, <4>4
    <3> QED BY <3>2, <3>3
  <2>5. /\ count'.issued = count.issued /\ count'.reserved = count.reserved /\ count'.claimed = count.claimed
        /\ count'.burned = count.burned
    BY <2>3 DEF Counter
  <2>6. SumBy(OwingOfAll, Lease)' = SumBy(OwingOfAll, Lease)
        /\ SumBy(PendingOfAll, Lease)' = SumBy(PendingOfAll, Lease)
    BY <1>2, <2>1
  <2>7. Cardinality(Spent)' = Cardinality(Spent) /\ Cardinality(lost)' = Cardinality(lost)
    BY <2>1, <2>2
  <2> HIDE DEF d
  <2> QED BY <2>1, <2>3, <2>4, <2>5, <2>6, <2>7 DEF RowsCounted
<1>4. ASSUME NEW s \in Stage, CancelStage(s)
      PROVE  RowsCounted'
  <2>1. /\ UNCHANGED <<reserved, cancel, lease, lost, count>>
        /\ mask' = [mask EXCEPT ![s] = Filled(mask[s], Row, "void")]
    BY <1>4 DEF CancelStage
  <2>2. Spent' = Spent
    BY <1>1, <2>1, StreamCloses, SpentKept
  <2> QED BY <1>2, <2>1, <2>2, CountKept
<1>5. CASE UNCHANGED <<reserved, cancel, lease, mask, streams, lost, count>>
  <2>1. Spent' = Spent
    BY <1>5, SpentKept
  <2> QED BY <1>2, <1>5, <2>1, CountKept
<1> QED BY <1>3, <1>4, <1>5

RowsIInv == RowsInv /\ RowsCounted

\* The invariant holds of a fresh inventory.
LEMMA RowsStart ==
  ASSUME RowsInit
  PROVE  RowsIInv
<1>1. RowsInv
  BY RowsBegin, RowSums
<1>2. /\ reserved = 0 /\ cancel = "no" /\ RowsTyped /\ LeasesApart
      /\ lease = [l \in Lease |-> NewLease("none", 0, 0)]
      /\ mask = [s \in Stage |-> [i \in RowsOf(s) |-> "unused"]]
      /\ count = [issued |-> Total, reserved |-> 0, claimed |-> 0, burned |-> 0, discarded |-> 0]
  BY <1>1 DEF RowsInit, NoLease, RowsInv
<1>3. Spent = {} /\ lost = {}
  <2>1. \A s \in Stage : \A i \in RowsOf(s) : mask[s][i] = "unused"
    BY <1>2
  <2> QED BY <2>1 DEF Spent, MaskRow, RowsInit
<1>4. SumBy(OwingOfAll, Lease) = 0 /\ SumBy(PendingOfAll, Lease) = 0
  <2>1. \A l \in Lease : OwingOfAll[l] = 0 /\ PendingOfAll[l] = 0
    BY <1>2 DEF OwingOfAll, PendingOfAll, OwingOf, PendingOf, NewLease
  <2>2. IsFiniteSet(Lease) /\ Cardinality(Lease) \in Nat
    BY RowsAssumed, FS_CardinalityType
  <2>3. /\ SumBy(OwingOfAll, Lease) = 0 * Cardinality(Lease)
        /\ SumBy(PendingOfAll, Lease) = 0 * Cardinality(Lease)
    BY <2>1, <2>2, SumOfEquals
  <2> QED BY <2>2, <2>3
<1>5. Cardinality(Spent) = 0 /\ Cardinality(lost) = 0
  BY <1>3, FS_EmptySet
<1>6. Total \in Nat /\ Cardinality(Stage) \in Nat
  BY RowSums
<1>7. RowsCounted
  <2>1. 0 = 0 * Cardinality(Stage)
    BY <1>6
  <2> QED BY <1>2, <1>4, <1>5, <1>6, <2>1 DEF RowsCounted
<1> QED BY <1>1, <1>7 DEF RowsIInv

\* Every step of the client keeps the invariant.
LEMMA RowsStep ==
  ASSUME RowsIInv, [RowsNext]_(rowsVars)
  PROVE  RowsIInv'
<1>1. RowsInv /\ RowsCounted /\ Total \in Nat /\ Cardinality(Stage) \in Nat
      /\ RowsTyped /\ LeasesApart
  BY RowSums DEF RowsIInv, RowsInv
<1>2. ASSUME NEW l \in Lease, NEW n \in 1 .. RowCapacity, Reserve(l, n)
      PROVE  RowsIInv'
  <2>1. Covered(n) \in Nat
    BY RowSums
  <2>2. RowsTyped' /\ LeasesApart'
    BY <1>1, <1>2, <2>1, ReserveTyped
  <2>3. RowsFree'
    BY <1>1, <1>2, ReserveFree
  <2>4. RowsCounted'
    BY <1>1, <1>2, <2>2, ReserveCounted
  <2> QED BY <2>2, <2>3, <2>4 DEF RowsIInv, RowsInv
<1>3. ASSUME NEW l \in Lease, NEW n \in 1 .. RowCapacity, NEW s \in Stage, Claim(l, s, n)
      PROVE  RowsIInv'
  <2>1. RowsTyped' /\ LeasesApart'
    BY <1>1, <1>3, ClaimTyped
  <2>2. RowsFree'
    BY <1>1, <1>3, ClaimFree
  <2>3. RowsCounted'
    BY <1>1, <1>3, <2>1, ClaimCounted
  <2> QED BY <2>1, <2>2, <2>3 DEF RowsIInv, RowsInv
<1>4. ASSUME NEW l \in Lease, Take(l)
      PROVE  RowsIInv'
  <2>1. RowsTyped' /\ LeasesApart'
    BY <1>1, <1>4, ClaimEndsTyped
  <2>2. RowsFree'
    BY <1>1, <1>4, TakeFree
  <2>3. RowsCounted'
    BY <1>1, <1>4, <2>1, TakeCounted
  <2> QED BY <2>1, <2>2, <2>3 DEF RowsIInv, RowsInv
<1>8. ASSUME NEW l \in Lease, ClaimFails(l) \/ StreamFails(l)
      PROVE  RowsIInv'
  <2>1. RowsTyped' /\ LeasesApart'
    BY <1>1, <1>8, ClaimEndsTyped
  <2>2. RowsFree'
    BY <1>1, <1>8, LossFree
  <2>3. RowsCounted'
    BY <1>1, <1>8, <2>1, LossCounted
  <2> QED BY <2>1, <2>2, <2>3 DEF RowsIInv, RowsInv
<1>5. ASSUME NEW l \in Lease, CloseLease(l)
      PROVE  RowsIInv'
  <2>1. RowsTyped' /\ LeasesApart'
    BY <1>1, <1>5, CloseTyped
  <2>2. RowsFree'
    BY <1>1, <1>5, CloseFree
  <2>3. RowsCounted'
    BY <1>1, <1>5, <2>1, CloseCounted
  <2> QED BY <2>1, <2>2, <2>3 DEF RowsIInv, RowsInv
<1>6. ASSUME NEW l \in Lease, Finish(l)
      PROVE  RowsIInv'
  <2>1. Covered(lease[l].rows) - Claims(l) \in Nat
    BY <1>1, LeasesOwe
  <2>2. RowsTyped' /\ LeasesApart'
    BY <1>1, <1>6, <2>1, FinishTyped
  <2>3. RowsFree'
    BY <1>1, <1>6, FinishFree
  <2>4. RowsCounted'
    BY <1>1, <1>6, <2>2, FinishCounted
  <2> QED BY <2>2, <2>3, <2>4 DEF RowsIInv, RowsInv
<1>7. CASE \/ Cancel
           \/ \E s \in Stage : CancelStage(s)
           \/ UNCHANGED <<reserved, cancel, lease, mask, streams, lost, count>>
  <2>1. RowsTyped' /\ LeasesApart'
    BY <1>1, <1>7, CancelTyped
  <2>2. RowsFree'
    BY <1>1, <1>7, CancelFree
  <2>3. RowsCounted'
    BY <1>1, <1>7, <2>1, CancelCounted
  <2> QED BY <2>1, <2>2, <2>3 DEF RowsIInv, RowsInv
<1> QED BY <1>2, <1>3, <1>4, <1>5, <1>6, <1>7, <1>8 DEF RowsNext, rowsVars

\* What the run checks follows.
LEMMA RowsImplyAccounted ==
  ASSUME RowsIInv
  PROVE  Accounted
<1>1. RowsTyped /\ LeasesApart /\ RowsFree /\ RowsCounted
  BY DEF RowsIInv, RowsInv
<1>2. /\ RowCapacity \in Nat \ {0} /\ reserved \in 0 .. RowCapacity
      /\ StageRows \in [Stage -> 1 .. RowCapacity]
  BY <1>1, RowsAssumed DEF RowsTyped
<1>3. RowsTypeOK
  <2>1. ASSUME NEW l \in Lease
        PROVE  /\ lease[l].st \in {"none", "held", "closing", "closed"}
               /\ lease[l].start + lease[l].rows <= RowCapacity
               /\ \A s \in Stage : lease[l].offset[s] <= Limit(l, s)
    <3>1. /\ lease[l] \in LeaseRecord
          /\ lease[l].st = "none" => lease[l] = NewLease("none", 0, 0)
          /\ lease[l].st # "none" => lease[l].start + lease[l].rows <= reserved
      BY <1>1 DEF RowsTyped, LeasesApart, NoLease
    <3>2. lease[l].st = "none" => lease[l].start = 0 /\ lease[l].rows = 0
      BY <3>1 DEF NewLease
    <3>3. lease[l].start + lease[l].rows <= RowCapacity
      BY <1>2, <3>1, <3>2 DEF LeaseRecord
    <3> QED BY <1>1, <3>1, <3>3 DEF LeaseRecord, LeasesApart
  <2>2. \A k \in DOMAIN count : count[k] \in Nat
    BY <1>1 DEF RowsTyped
  <2> QED BY <1>1, <2>1, <2>2 DEF RowsTypeOK, RowsTyped, RowsOf
<1>4. Owing = OwingOfAll /\ Pending = PendingOfAll
  <2>1. \A l \in Lease : Claims(l) = SumBy(lease[l].offset, Stage)
    BY <1>1, LeasesOwe
  <2> QED BY <2>1 DEF Owing, Pending, OwingOfAll, PendingOfAll, OwingOf, PendingOf
<1>5. /\ MapThenSumSet(LAMBDA l : Owing[l], Lease) = SumBy(Owing, Lease)
      /\ MapThenSumSet(LAMBDA l : Pending[l], Lease) = SumBy(Pending, Lease)
  BY DEF SumBy, MapThenSumSet, MapThenFoldSet
<1>6. Conserved
  BY <1>1, <1>4, <1>5 DEF Conserved, RowsCounted
<1>7. SpentIsClaimed
  <2>1. lost \cap Spent = {}
    <3> SUFFICES ASSUME NEW k \in lost, k \in Spent PROVE FALSE
      OBVIOUS
    <3>1. /\ k[1] \in Stage /\ k[2] \in RowsOf(k[1]) /\ k = <<k[1], k[2]>>
          /\ mask[k[1]][k[2]] = "spent"
      BY DEF Spent, MaskRow
    <3>2. Free(k[1], k[2])
      BY <3>1 DEF Free
    <3> QED BY <1>1, <3>1, <3>2 DEF RowsFree
  <2> QED BY <1>1, <1>4, <1>5, <2>1 DEF SpentIsClaimed, RowsCounted
<1>8. NothingUsable
  <2>1. ASSUME NEW k \in Unused
        PROVE  /\ k[1] \in streams /\ k[2] \in Nat /\ k = <<k[1], k[2]>> /\ k[1] \in Stage
               /\ Free(k[1], k[2]) /\ k[2] < RowCapacity
    <3>1. k[1] \in Stage /\ k[2] \in RowsOf(k[1]) /\ k[2] \in Row /\ k = <<k[1], k[2]>>
          /\ mask[k[1]][k[2]] = "unused"
      BY DEF Unused, MaskRow
    <3> QED BY <1>1, <1>2, <3>1 DEF RowsFree, Row
  <2>2. ASSUME \A l \in Lease : lease[l].st \in {"none", "closed"}, reserved = RowCapacity
        PROVE  Unused \subseteq lost
    <3>1. \A s, i : \A l \in Lease : ~Held(l, s, i)
      BY <1>1, <2>2 DEF LeasesApart, Held, MayClaim, HasClaimed
    <3>2. ASSUME NEW k \in Unused
          PROVE  k \in lost
      <4>1. ~(k[2] >= reserved)
        BY <1>2, <2>1, <2>2
      <4>2. <<k[1], k[2]>> \in lost
        BY <2>1, <3>1, <4>1 DEF Free
      <4> QED BY <2>1, <4>2
    <3> QED BY <3>2
  <2> QED BY <2>1, <2>2 DEF NothingUsable
<1> QED BY <1>3, <1>6, <1>7, <1>8 DEF Accounted

\* RowsIInv is an invariant, for all stages, leases and sizes.
LEMMA RowsInvariant == RowsSpec => []RowsIInv
<1>1. RowsInit => RowsIInv
  BY RowsStart
<1>2. RowsIInv /\ [RowsNext]_(rowsVars) => RowsIInv'
  BY RowsStep
<1> QED BY <1>1, <1>2, PTL DEF RowsSpec

\* For every inventory: the row counters of material_accounting add up at every
\* step (issued = reserved + discarded once cancelled, reserved = claimed + burned
\* + owed); the rows counted as claimed are those given out, those about to be, and
\* those of takes that raised; a closed stream has no unused row, and when all is
\* reserved and closed only rows of such takes are left (_claim_locked, close, cancel).
THEOREM RowsAccounted == RowsSpec => []Accounted
<1>1. RowsIInv => Accounted
  BY RowsImplyAccounted
<1> QED BY <1>1, RowsInvariant, PTL

RowStatus == [k \in MaskRow |-> mask[k[1]][k[2]]]

\* Rows are used only once, and those that one step spends are of one stage.
LEMMA RowsUsedOnce ==
  ASSUME RowsIInv, RowsIInv', [RowsNext]_(rowsVars)
  PROVE  /\ \A s \in Stage : \A i \in RowsOf(s) :
              mask'[s][i] # mask[s][i] => mask[s][i] = "unused"
         /\ \/ \E o \in Stage : \A s \in Stage \ {o} : \A i \in RowsOf(s) : mask'[s][i] = mask[s][i]
            \/ \A s \in Stage : \A i \in RowsOf(s) : mask'[s][i] = "spent" => mask[s][i] = "spent"
<1>1. RowsInv /\ RowsTyped /\ \A t \in Stage : mask[t] \in [RowsOf(t) -> {"unused", "spent", "void"}]
  BY DEF RowsIInv, RowsInv, RowsTyped, RowsOf
<1>2. CASE mask' = mask
  BY <1>2
<1>3. ASSUME NEW l \in Lease, Take(l)
      PROVE  /\ \A s \in Stage : \A i \in RowsOf(s) :
                  mask'[s][i] # mask[s][i] => mask[s][i] = "unused"
             /\ \E o \in Stage : \A s \in Stage \ {o} : \A i \in RowsOf(s) : mask'[s][i] = mask[s][i]
  <2> DEFINE o == lease[l].claim.stage
  <2>1. /\ lease[l].claim # Idle /\ o \in Stage /\ o \in streams
        /\ \A t \in Stage : \A i \in RowsOf(t) :
             mask'[t][i] = IF t = o /\ i \in ClaimedRows(l) THEN "spent" ELSE mask[t][i]
    BY <1>1, <1>3, RowTakeShape
  <2>2. \A i \in ClaimedRows(l) : mask[o][i] = "unused"
    BY <1>1, <2>1, ClaimsFit DEF Fits
  <2> HIDE DEF o
  <2> QED BY <2>1, <2>2
<1>4. ASSUME \/ \E l \in Lease : StreamFails(l) \/ CloseLease(l)
             \/ \E s \in Stage : CancelStage(s),
             NEW t \in Stage, NEW i \in RowsOf(t)
      PROVE  mask'[t][i] = mask[t][i] \/ (mask[t][i] = "unused" /\ mask'[t][i] = "void")
  <2>1. ASSUME NEW l \in Lease, StreamFails(l)
        PROVE  mask'[t][i] = mask[t][i] \/ (mask[t][i] = "unused" /\ mask'[t][i] = "void")
    BY <1>1, <2>1, LossShape
  <2>2. ASSUME NEW l \in Lease, CloseLease(l)
        PROVE  mask'[t][i] = mask[t][i] \/ (mask[t][i] = "unused" /\ mask'[t][i] = "void")
    <3>1. \/ mask'[t] = mask[t]
          \/ mask'[t] = Filled(mask[t], lease[l].start + lease[l].offset[t]
                                                  .. lease[l].start + Limit(l, t) - 1, "void")
      BY <2>2 DEF CloseLease, Burned
    <3> QED BY <1>1, <3>1 DEF Filled
  <2>3. ASSUME NEW s \in Stage, CancelStage(s)
        PROVE  mask'[t][i] = mask[t][i] \/ (mask[t][i] = "unused" /\ mask'[t][i] = "void")
    <3>1. mask' = [mask EXCEPT ![s] = Filled(mask[s], Row, "void")]
      BY <2>3 DEF CancelStage
    <3> QED BY <1>1, <3>1, StreamCloses
  <2> QED BY <1>4, <2>1, <2>2, <2>3
<1>5. CASE \/ \E l \in Lease : StreamFails(l) \/ CloseLease(l)
           \/ \E s \in Stage : CancelStage(s)
  <2>1. \A t \in Stage : \A i \in RowsOf(t) :
          mask'[t][i] = mask[t][i] \/ (mask[t][i] = "unused" /\ mask'[t][i] = "void")
    BY <1>4, <1>5
  <2> QED BY <2>1
<1>6. \/ mask' = mask
      \/ \E l \in Lease : Take(l)
      \/ \E l \in Lease : StreamFails(l) \/ CloseLease(l)
      \/ \E s \in Stage : CancelStage(s)
  BY DEF RowsNext, rowsVars, Reserve, Claim, ClaimFails, Finish, Cancel
<1> QED BY <1>2, <1>3, <1>5, <1>6

\* A step of the streams is a step of one-time material, rows for uses.
LEMMA RowsRefineStep ==
  ASSUME RowsIInv, RowsIInv', [RowsNext]_(rowsVars)
  PROVE  [Masks!Next]_RowStatus
<1>1. /\ \A s \in Stage : \A i \in RowsOf(s) :
             mask'[s][i] # mask[s][i] => mask[s][i] = "unused"
      /\ \/ \E o \in Stage : \A s \in Stage \ {o} : \A i \in RowsOf(s) : mask'[s][i] = mask[s][i]
         \/ \A s \in Stage : \A i \in RowsOf(s) : mask'[s][i] = "spent" => mask[s][i] = "spent"
  BY RowsUsedOnce
<1>2. \A s \in Stage : mask'[s] \in [RowsOf(s) -> {"unused", "spent", "void"}]
  BY DEF RowsIInv, RowsInv, RowsTyped, RowsOf
<1>3. \A k \in MaskRow : k[1] \in Stage /\ k[2] \in RowsOf(k[1])
  BY DEF MaskRow
<1>4. /\ RowStatus' = [k \in MaskRow |-> mask'[k[1]][k[2]]]
      /\ RowStatus = [k \in MaskRow |-> mask[k[1]][k[2]]]
  BY DEF RowStatus
<1>5. CASE Stage = {}
  <2>1. MaskRow = {}
    BY <1>3, <1>5
  <2> QED BY <1>4, <2>1
<1>6. CASE Stage # {}
  <2>1. RowStatus' \in [MaskRow -> {"unused", "spent", "void"}]
    BY <1>2, <1>3, <1>4
  <2>2. \A k \in MaskRow : RowStatus'[k] # RowStatus[k] => RowStatus[k] = "unused"
    BY <1>1, <1>3, <1>4
  <2>3. \E o \in Stage : \A k \in MaskRow : RowStatus'[k] = "spent" /\ RowStatus[k] # "spent" => k[1] = o
    <3>1. CASE \E o \in Stage : \A s \in Stage \ {o} : \A i \in RowsOf(s) : mask'[s][i] = mask[s][i]
      <4>1. PICK o \in Stage : \A s \in Stage \ {o} : \A i \in RowsOf(s) : mask'[s][i] = mask[s][i]
        BY <3>1
      <4>2. \A k \in MaskRow : RowStatus'[k] = "spent" /\ RowStatus[k] # "spent" => k[1] = o
        BY <1>3, <1>4, <4>1
      <4> QED BY <4>2
    <3>2. CASE \A s \in Stage : \A i \in RowsOf(s) : mask'[s][i] = "spent" => mask[s][i] = "spent"
      <4>1. \A k \in MaskRow : ~(RowStatus'[k] = "spent" /\ RowStatus[k] # "spent")
        BY <1>3, <1>4, <3>2
      <4> QED BY <1>6, <4>1
    <3> QED BY <1>1, <3>1, <3>2
  <2>4. Masks!Next
    BY <2>1, <2>2, <2>3 DEF Masks!Next, Masks!Status, RowStatus
  <2> QED BY <2>4
<1> QED BY <1>5, <1>6

\* For every inventory: the mask rows of all its stages are one-time material, used
\* at most once and each step's for one stage; and while the stream of its stage is
\* open a lease finds every row it has claimed unused (PreparedInventory, MaskRows.take).
THEOREM RowsAreOneTime == RowsSpec => OneTimeRows
<1>1. RowsInit => Masks!Init
  BY DEF RowsInit, Masks!Init, MaskRow
<1>2. RowsIInv /\ RowsIInv' /\ [RowsNext]_(rowsVars) => [Masks!Next]_RowStatus
  BY RowsRefineStep
<1>3. RowsIInv => TakesDoNotCollide
  BY ClaimsFit DEF RowsIInv, TakesDoNotCollide
<1> QED BY <1>1, <1>2, <1>3, RowsInvariant, PTL
        DEF RowsSpec, OneTimeRows, MasksAreOneTime, Masks!Spec, RowStatus
=============================================================================
