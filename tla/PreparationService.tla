------------------------- MODULE PreparationService -------------------------
(***************************************************************************)
(* The preparation service (runtime/preparation_server.py): the registry   *)
(* of authorized sessions (PreparationSessionRegistry) and the handlers    *)
(* that authorize a session, prepare one stage of it and cancel it, with   *)
(* the end of the inference service they talk to (authorize, push, cancel  *)
(* in runtime/server.py).                                                  *)
(*                                                                         *)
(* A handler runs between two awaits without interruption; at an await the *)
(* others run.  A call to the inference service may be answered, refused,  *)
(* or time out, and one that timed out may still arrive there.  Requests   *)
(* are any requests: the routes promise nothing about their callers.       *)
(***************************************************************************)
EXTENDS Naturals, FiniteSets

CONSTANTS
  Session, Owner, Stage,
  Attempt,        \* attempt ids
  Authorization,  \* calls of the authorize route
  Request,        \* calls of the stage route
  Capacity,       \* sessions the registry holds
  NoSession       \* no registration

VARIABLES
  registry,   \* session_registry._sessions
  policy,     \* the keys of freivalds_policies
  auth,       \* the authorize calls
  work,       \* the stage calls
  expected,   \* inference: "open", "authorized" or "over" for each session
  held        \* inference: the stage calls whose corrections it holds

serviceVars == <<registry, policy, auth, work>>
inferenceVars == <<expected, held>>
vars == <<registry, policy, auth, work, expected, held>>

\* `mail' is the call to the inference service, which may arrive at any time, and
\* its answer: "none", "flying", and then "granted" or "refused".
NewAuthorization == [pc |-> "new", session |-> NoSession, owner |-> NoSession, mail |-> "none"]

NewRequest ==
  [pc |-> "new", session |-> NoSession, owner |-> NoSession, stage |-> NoSession,
   attempt |-> NoSession, mail |-> "none"]

Init ==
  /\ registry = [s \in Session |-> NoSession]
  /\ policy = {}
  /\ auth = [a \in Authorization |-> NewAuthorization]
  /\ work = [r \in Request |-> NewRequest]
  /\ expected = [s \in Session |-> "open"]
  /\ held = {}

-----------------------------------------------------------------------------
(* The registry.                                                           *)

Registered(s, o) == registry[s] # NoSession /\ registry[s].owner = o

Authorized(s, o) == Registered(s, o) /\ registry[s].active

\* release(): without force, only of what is not active.
Released(s, o, force) ==
  IF Registered(s, o) /\ (force \/ ~registry[s].active)
  THEN [registry EXCEPT ![s] = NoSession]
  ELSE registry

\* The idle timeout, applied by the next call of anybody.
Cleanup(s) ==
  /\ registry[s] # NoSession
  /\ registry' = [registry EXCEPT ![s] = NoSession]
  /\ UNCHANGED <<policy, auth, work, inferenceVars>>

-----------------------------------------------------------------------------
(* POST .../authorize                                                      *)

\* reserve(), the policy, and the call to the inference service.
Reserve(a, s, o) ==
  /\ auth[a].pc = "new"
  /\ registry[s] = NoSession
  /\ Cardinality({t \in Session : registry[t] # NoSession}) < Capacity
  /\ registry' = [registry EXCEPT
       ![s] = [owner |-> o, active |-> FALSE, attempts |-> {}, stages |-> {}]]
  /\ policy' = policy \cup {s}
  /\ auth' = [auth EXCEPT ![a] = [pc |-> "posted", session |-> s, owner |-> o, mail |-> "flying"]]
  /\ UNCHANGED <<work, inferenceVars>>

ReserveRefused(a, s) ==
  /\ auth[a].pc = "new"
  /\ \/ registry[s] # NoSession
     \/ Cardinality({t \in Session : registry[t] # NoSession}) >= Capacity
  /\ auth' = [auth EXCEPT ![a].pc = "failed"]
  /\ UNCHANGED <<registry, policy, work, inferenceVars>>

\* Mutant of Authorize: the inference service authorizes a session again.
AuthorizeAgain(a) ==
  LET s == auth[a].session IN
  /\ auth[a].mail = "flying"
  /\ expected' = [expected EXCEPT ![s] = IF @ = "over" THEN @ ELSE "authorized"]
  /\ auth' = [auth EXCEPT ![a].mail = IF expected[s] = "over" THEN "refused" ELSE "granted"]
  /\ UNCHANGED <<registry, policy, work, held>>

\* inference: authorize_prepared_session, once for each session.
Authorize(a) ==
  LET s == auth[a].session IN
  /\ auth[a].mail = "flying"
  /\ expected' = [expected EXCEPT ![s] = IF @ = "open" THEN "authorized" ELSE @]
  /\ auth' = [auth EXCEPT ![a].mail = IF expected[s] = "open" THEN "granted" ELSE "refused"]
  /\ UNCHANGED <<registry, policy, work, held>>

\* The failed authorization drops its policy, and its reservation unless active.
AuthorizationFails(a) ==
  /\ auth' = [auth EXCEPT ![a].pc = "failed"]
  /\ policy' = policy \ {auth[a].session}
  /\ registry' = Released(auth[a].session, auth[a].owner, FALSE)
  /\ UNCHANGED <<work, inferenceVars>>

\* activate() finds the registration by session and owner: it may be another one.
Activate(a) ==
  LET s == auth[a].session IN
  /\ auth[a].pc = "posted" /\ auth[a].mail = "granted"
  /\ IF Registered(s, auth[a].owner)
     THEN /\ registry' = [registry EXCEPT ![s].active = TRUE]
          /\ auth' = [auth EXCEPT ![a].pc = "done"]
          /\ UNCHANGED <<policy, work, inferenceVars>>
     ELSE AuthorizationFails(a)

\* The inference service refused, or the call timed out before its answer came.
AuthorizeRaises(a) ==
  /\ auth[a].pc = "posted"
  /\ AuthorizationFails(a)

\* An exception the handler does not expect leaves the reservation behind.
AuthorizeBreaks(a) ==
  /\ auth[a].pc = "posted"
  /\ auth' = [auth EXCEPT ![a].pc = "failed"]
  /\ UNCHANGED <<registry, policy, work, inferenceVars>>

-----------------------------------------------------------------------------
(* POST .../cancel, of either service.                                     *)

CancelPreparation(s, o) ==
  /\ registry' = Released(s, o, TRUE)
  /\ policy' = policy \ {s}
  /\ UNCHANGED <<auth, work, inferenceVars>>

\* The session is cancelled or expires; rendezvous.terminal drops what it holds.
CancelInference(s) ==
  /\ expected[s] # "over"
  /\ expected' = [expected EXCEPT ![s] = "over"]
  /\ held' = {r \in held : work[r].session # s}
  /\ UNCHANGED serviceVars

-----------------------------------------------------------------------------
(* POST .../stages/{stage_id}                                              *)

\* authorization(), before the stage metadata is awaited.
Hydrate(r, s, o, t, i) ==
  /\ work[r].pc = "new"
  /\ Authorized(s, o)
  /\ work' = [work EXCEPT ![r] = [pc |-> "hydrated", session |-> s, owner |-> o,
                                  stage |-> t, attempt |-> i, mail |-> "none"]]
  /\ UNCHANGED <<registry, policy, auth, inferenceVars>>

\* Any failure, before or after consume(); release() spares an active session.
RequestEnds(r, s, o, pc) ==
  /\ work' = [work EXCEPT ![r].pc = pc]
  /\ registry' = Released(s, o, FALSE)
  /\ UNCHANGED <<policy, auth, inferenceVars>>

HydrateRefused(r, s, o) ==
  /\ work[r].pc = "new"
  /\ ~Authorized(s, o)
  /\ RequestEnds(r, s, o, "refused")

Unconsumed(r) ==
  LET s == work[r].session IN
  /\ Authorized(s, work[r].owner)
  /\ work[r].attempt \notin registry[s].attempts
  /\ work[r].stage \notin registry[s].stages

\* consume(): attempt and stage are marked before anything is computed.
Consume(r) ==
  LET s == work[r].session IN
  /\ work[r].pc = "hydrated"
  /\ IF Unconsumed(r)
     THEN /\ registry' = [registry EXCEPT ![s].attempts = @ \cup {work[r].attempt},
                                          ![s].stages = @ \cup {work[r].stage}]
          /\ work' = [work EXCEPT ![r].pc = "computing"]
          /\ UNCHANGED <<policy, auth, inferenceVars>>
     ELSE RequestEnds(r, s, work[r].owner, "refused")

\* prepare_seeded_stage, then the push.
Push(r) ==
  /\ work[r].pc = "computing"
  /\ work' = [work EXCEPT ![r].pc = "pushing", ![r].mail = "flying"]
  /\ UNCHANGED <<registry, policy, auth, inferenceVars>>

\* The computation or the push raises; the push may still arrive.
RequestRaises(r) ==
  /\ work[r].pc \in {"computing", "pushing"}
  /\ RequestEnds(r, work[r].session, work[r].owner, "failed")

\* inference: accept_prepared_correction and preload_bulk.
Acceptable(r) ==
  /\ expected[work[r].session] = "authorized"
  /\ \A q \in held : work[q].session = work[r].session =>
       work[q].stage # work[r].stage /\ work[q].attempt # work[r].attempt

Accept(r) ==
  /\ work[r].mail = "flying"
  /\ held' = IF Acceptable(r) THEN held \cup {r} ELSE held
  /\ work' = [work EXCEPT ![r].mail = IF Acceptable(r) THEN "granted" ELSE "refused"]
  /\ UNCHANGED <<registry, policy, auth, expected>>

\* Mutant of Acknowledge: the answer of the inference service is not awaited.
AcknowledgeAtOnce(r) ==
  /\ work[r].pc = "pushing"
  /\ work' = [work EXCEPT ![r].pc = "done"]
  /\ UNCHANGED <<registry, policy, auth, inferenceVars>>

\* With verification, the policy must still be there.
Acknowledge(r) ==
  /\ work[r].pc = "pushing" /\ work[r].mail = "granted"
  /\ IF work[r].session \in policy
     THEN /\ work' = [work EXCEPT ![r].pc = "done"]
          /\ UNCHANGED <<registry, policy, auth, inferenceVars>>
     ELSE RequestEnds(r, work[r].session, work[r].owner, "failed")

-----------------------------------------------------------------------------
Next ==
  \/ \E s \in Session :
       \/ Cleanup(s) \/ CancelInference(s)
       \/ \E o \in Owner : CancelPreparation(s, o)
  \/ \E a \in Authorization :
       \/ \E s \in Session : ReserveRefused(a, s) \/ \E o \in Owner : Reserve(a, s, o)
       \/ Authorize(a) \/ Activate(a) \/ AuthorizeRaises(a) \/ AuthorizeBreaks(a)
  \/ \E r \in Request :
       \/ \E s \in Session, o \in Owner :
            HydrateRefused(r, s, o) \/ \E t \in Stage, i \in Attempt : Hydrate(r, s, o, t, i)
       \/ Consume(r) \/ Push(r) \/ RequestRaises(r) \/ Accept(r) \/ Acknowledge(r)

Spec == Init /\ [][Next]_vars
-----------------------------------------------------------------------------
(* Properties.                                                             *)

Mail == {"none", "flying", "granted", "refused"}

TypeOK ==
  /\ registry \in [Session -> {NoSession} \cup
       [owner : Owner, active : BOOLEAN, attempts : SUBSET Attempt, stages : SUBSET Stage]]
  /\ policy \subseteq Session
  /\ auth \in [Authorization ->
       [pc : {"new", "posted", "done", "failed"}, session : Session \cup {NoSession},
        owner : Owner \cup {NoSession}, mail : Mail]]
  /\ work \in [Request ->
       [pc : {"new", "hydrated", "computing", "pushing", "done", "failed", "refused"},
        session : Session \cup {NoSession}, owner : Owner \cup {NoSession},
        stage : Stage \cup {NoSession}, attempt : Attempt \cup {NoSession}, mail : Mail]]
  /\ expected \in [Session -> {"open", "authorized", "over"}]
  /\ held \subseteq Request

\* consume() let the request through.
Consumed(r) == work[r].pc \in {"computing", "pushing", "done", "failed"}

\* A stage of a session is computed for one request and an attempt id used for
\* one, in the whole life of the session: not only while it is registered, but
\* however it is cancelled, expires, is authorized again or is activated by an
\* acknowledgement that another registration waited for.  A second correction
\* would mask two activations with one seed (consume, activate, authorize_session).
ConsumedOnce ==
  \A q, r \in Request :
    q # r /\ Consumed(q) /\ Consumed(r) /\ work[q].session = work[r].session =>
      work[q].stage # work[r].stage /\ work[q].attempt # work[r].attempt

\* A stage the caller was told is prepared is at the inference service, unless
\* the session is over there (prepare_inventory_stage).
DoneIsHeld ==
  \A r \in Request : work[r].pc = "done" => r \in held \/ expected[work[r].session] = "over"

\* Corrections are held only for sessions the inference service authorized and
\* has not ended, though a push may arrive long after its request failed
\* (accept_prepared_correction).
HeldIsAuthorized == \A r \in held : expected[work[r].session] = "authorized"

\* The two services agree on a correction: what the one reports as prepared the
\* other has, and what it has it was authorized to take, though answers are lost
\* and pushes are late.
ServicesAgree == TypeOK /\ DoneIsHeld /\ HeldIsAuthorized
=============================================================================
