---------------------- MODULE PreparationService_proofs ----------------------
(***************************************************************************)
(* A stage of a session is computed once and an attempt id is used once,   *)
(* and what is reported as prepared is at the inference service, for any   *)
(* number of sessions, owners, stages and calls.                           *)
(*                                                                         *)
(* The registry forgets what was consumed when a registration is released, *)
(* so ConsumedOnce rests on the inference service: it authorizes a session *)
(* once, so only one registration of a session is ever activated, and only *)
(* an active one lets stage calls through.                                 *)
(***************************************************************************)
EXTENDS PreparationService, TLAPS

Registration ==
  [owner : Owner, active : BOOLEAN, attempts : SUBSET Attempt, stages : SUBSET Stage]

StageCall ==
  [pc : {"new", "hydrated", "computing", "pushing", "done", "failed", "refused"},
   session : Session \cup {NoSession}, owner : Owner \cup {NoSession},
   stage : Stage \cup {NoSession}, attempt : Attempt \cup {NoSession}, mail : Mail]

Posted(a, s) == auth[a].pc = "posted" /\ auth[a].session = s

Active(s) == registry[s] # NoSession /\ registry[s].active

\* A stage call of s was let through authorization().
Entered(r, s) == work[r].pc \notin {"new", "refused"} /\ work[r].session = s

\* Registration and calls are what they are said to be.
ShapeInv ==
  /\ registry \in [Session -> {NoSession} \cup Registration]
  /\ auth \in [Authorization ->
       [pc : {"new", "posted", "done", "failed"}, session : Session \cup {NoSession},
        owner : Owner \cup {NoSession}, mail : Mail]]
  /\ work \in [Request ->
       StageCall]
  /\ expected \in [Session -> {"open", "authorized", "over"}]
  /\ \A a \in Authorization : auth[a].pc = "posted" \/ auth[a].mail # "none" => auth[a].session \in Session
  /\ \A r \in Request : work[r].pc \notin {"new", "refused"} =>
       work[r].session \in Session /\ work[r].stage \in Stage /\ work[r].attempt \in Attempt

\* One authorize call of a session is granted, of a session no longer open.
GrantInv ==
  /\ \A a \in Authorization : auth[a].mail = "granted" => expected[auth[a].session] # "open"
  /\ \A a, b \in Authorization :
       auth[a].mail = "granted" /\ auth[b].mail = "granted" /\ auth[a].session = auth[b].session
         => a = b

\* Once a registration of the session was active, no grant is left to activate another.
ActiveInv ==
  \A s \in Session :
    Active(s) \/ (\E r \in Request : Entered(r, s)) =>
      /\ expected[s] # "open"
      /\ \A a \in Authorization : Posted(a, s) => auth[a].mail # "granted"

\* While it is active, the registration remembers all that was consumed.
MarkInv ==
  \A r \in Request : Consumed(r) /\ Active(work[r].session) =>
    /\ work[r].attempt \in registry[work[r].session].attempts
    /\ work[r].stage \in registry[work[r].session].stages

ServiceInv == ShapeInv /\ GrantInv /\ ActiveInv /\ MarkInv /\ ConsumedOnce

-----------------------------------------------------------------------------
\* Nothing has happened yet.
LEMMA ServiceInit == Init => ServiceInv
  BY DEF Init, ServiceInv, ShapeInv, StageCall, GrantInv, ActiveInv, MarkInv, ConsumedOnce,
         Consumed, Active, Entered, Posted, NewAuthorization, NewRequest, Registration, Mail

\* What release() leaves.
LEMMA ReleasedOnly ==
  ASSUME ShapeInv, NEW s \in Session, NEW o, NEW force \in BOOLEAN
  PROVE  /\ Released(s, o, force) \in [Session -> {NoSession} \cup Registration]
         /\ \A t \in Session : Released(s, o, force)[t] \in {registry[t], NoSession}
  BY DEF ShapeInv, Released

\* Most steps activate, grant and consume nothing.
LEMMA Settles ==
  ASSUME ServiceInv, ShapeInv',
         \A s \in Session : Active(s)' => Active(s) /\ registry'[s] = registry[s],
         \A s \in Session : expected[s] # "open" => expected'[s] # "open",
         \A a \in Authorization : auth'[a].mail = "granted" =>
           /\ auth[a].mail = "granted" /\ auth'[a].session = auth[a].session
           /\ auth'[a].pc = "posted" => auth[a].pc = "posted",
         \A r \in Request : work'[r].pc \notin {"new", "refused"} =>
           /\ work[r].pc \notin {"new", "refused"}
           /\ work'[r].session = work[r].session
           /\ work'[r].stage = work[r].stage
           /\ work'[r].attempt = work[r].attempt,
         \A r \in Request : Consumed(r)' => Consumed(r)
  PROVE  ServiceInv'
<1>1. GrantInv'
  BY DEF ServiceInv, ShapeInv, GrantInv, Mail
<1>2. ActiveInv'
  <2> SUFFICES ASSUME NEW s \in Session, (Active(s) \/ \E r \in Request : Entered(r, s))'
               PROVE  /\ expected'[s] # "open"
                      /\ \A a \in Authorization : Posted(a, s)' => auth'[a].mail # "granted"
    BY DEF ActiveInv
  <2>1. Active(s) \/ \E r \in Request : Entered(r, s)
    BY DEF Entered
  <2> QED BY <2>1 DEF ServiceInv, ActiveInv, Posted
<1>3. MarkInv'
  <2> SUFFICES ASSUME NEW r \in Request, Consumed(r)', Active(work[r].session)'
               PROVE  /\ work'[r].attempt \in registry'[work'[r].session].attempts
                      /\ work'[r].stage \in registry'[work'[r].session].stages
    BY DEF MarkInv
  <2>1. /\ Consumed(r) /\ work'[r].pc \notin {"new", "refused"}
        /\ work[r].session \in Session /\ work'[r].session = work[r].session
        /\ work'[r].stage = work[r].stage /\ work'[r].attempt = work[r].attempt
    BY DEF ServiceInv, ShapeInv, Consumed
  <2>2. Active(work[r].session) /\ registry'[work[r].session] = registry[work[r].session]
    BY <2>1 DEF Active
  <2> QED BY <2>1, <2>2 DEF ServiceInv, MarkInv
<1>4. ConsumedOnce'
  <2>1. \A r \in Request : Consumed(r)' =>
          /\ Consumed(r) /\ work'[r].session = work[r].session
          /\ work'[r].stage = work[r].stage /\ work'[r].attempt = work[r].attempt
    BY DEF Consumed
  <2> QED BY <2>1 DEF ServiceInv, ConsumedOnce
<1> QED BY <1>1, <1>2, <1>3, <1>4 DEF ServiceInv

-----------------------------------------------------------------------------
(* The authorize route.                                                    *)

\* A new registration is not active and has consumed nothing.
LEMMA ReserveKeeps ==
  ASSUME ServiceInv, NEW a \in Authorization, NEW s \in Session, NEW o \in Owner, Reserve(a, s, o)
  PROVE  ServiceInv'
<1>1. ShapeInv'
  BY DEF ServiceInv, ShapeInv, Reserve, inferenceVars, Registration, Mail
<1> QED BY <1>1, Settles DEF ServiceInv, ShapeInv, Reserve, inferenceVars, Active, Consumed

\* The inference service grants the first call of a session that arrives.
LEMMA AuthorizeKeeps ==
  ASSUME ServiceInv, NEW a \in Authorization, Authorize(a)
  PROVE  ServiceInv'
<1> DEFINE s == auth[a].session
<1> USE DEF Authorize
<1>1. ShapeInv' /\ s \in Session
  BY DEF ServiceInv, ShapeInv, Mail
<1>2. CASE expected[s] # "open"
  BY <1>1, <1>2, Settles DEF ServiceInv, ShapeInv, Active, Consumed, Mail
<1>3. CASE expected[s] = "open"
  <2>1. /\ expected' = [expected EXCEPT ![s] = "authorized"]
        /\ auth' = [auth EXCEPT ![a].mail = "granted"]
    BY <1>3
  <2>2. GrantInv'
    BY <1>1, <1>3, <2>1 DEF ServiceInv, ShapeInv, GrantInv, Mail
  <2>3. ActiveInv'
    BY <1>1, <1>3, <2>1 DEF ServiceInv, ShapeInv, ActiveInv, Active, Entered, Posted, Mail
  <2>4. MarkInv' /\ ConsumedOnce'
    BY DEF ServiceInv, MarkInv, ConsumedOnce, Consumed, Active
  <2> QED BY <1>1, <2>2, <2>3, <2>4 DEF ServiceInv
<1> QED BY <1>2, <1>3

\* A failed authorization.
LEMMA FailureKeeps ==
  ASSUME ServiceInv, NEW a \in Authorization, auth[a].pc = "posted", AuthorizationFails(a)
  PROVE  ServiceInv'
<1>1. auth[a].session \in Session
  BY DEF ServiceInv, ShapeInv
<1>2. /\ registry' \in [Session -> {NoSession} \cup Registration]
      /\ \A t \in Session : registry'[t] \in {registry[t], NoSession}
  BY <1>1, ReleasedOnly DEF ServiceInv, AuthorizationFails
<1>3. ShapeInv'
  <2>1. auth' = [auth EXCEPT ![a].pc = "failed"] /\ UNCHANGED <<work, expected>>
    BY DEF AuthorizationFails, inferenceVars
  <2> QED BY <1>2, <2>1 DEF ServiceInv, ShapeInv
<1> QED BY <1>2, <1>3, Settles
        DEF ServiceInv, ShapeInv, AuthorizationFails, inferenceVars, Active, Consumed

\* The granted call activates the registration it finds: no other was active before.
LEMMA ActivateKeeps ==
  ASSUME ServiceInv, NEW a \in Authorization, Activate(a)
  PROVE  ServiceInv'
<1> DEFINE s == auth[a].session
<1>1. s \in Session /\ Posted(a, s) /\ auth[a].mail = "granted"
  BY DEF ServiceInv, ShapeInv, Activate, Posted
<1>2. CASE AuthorizationFails(a)
  BY <1>1, <1>2, FailureKeeps DEF Posted
<1>3. CASE Registered(s, auth[a].owner) /\ ~AuthorizationFails(a)
  <2>1. /\ registry' = [registry EXCEPT ![s].active = TRUE]
        /\ auth' = [auth EXCEPT ![a].pc = "done"]
        /\ UNCHANGED <<policy, work, expected, held>>
    BY <1>3 DEF Activate, inferenceVars
  <2>2. ~\E r \in Request : Entered(r, s)
    BY <1>1 DEF ServiceInv, ActiveInv
  <2>3. ShapeInv'
    <3>1. registry[s] \in Registration
      BY <1>1, <1>3 DEF ServiceInv, ShapeInv, Registered
    <3>2. [registry[s] EXCEPT !.active = TRUE] \in Registration
      BY <3>1 DEF Registration
    <3>3. registry' \in [Session -> {NoSession} \cup Registration]
      BY <1>1, <2>1, <3>2 DEF ServiceInv, ShapeInv
    <3> QED BY <2>1, <3>3 DEF ServiceInv, ShapeInv
  <2>4. GrantInv'
    BY <2>1 DEF ServiceInv, ShapeInv, GrantInv
  <2>5. ActiveInv'
    <3> SUFFICES ASSUME NEW t \in Session, (Active(t) \/ \E r \in Request : Entered(r, t))'
                 PROVE  /\ expected'[t] # "open"
                        /\ \A b \in Authorization : Posted(b, t)' => auth'[b].mail # "granted"
      BY DEF ActiveInv
    <3>1. CASE t = s
      BY <1>1, <2>1, <3>1 DEF ServiceInv, ShapeInv, GrantInv, Posted
    <3>2. CASE t # s
      <4>1. Active(t) \/ \E r \in Request : Entered(r, t)
        BY <2>1, <3>2 DEF ServiceInv, ShapeInv, Active, Entered
      <4> QED BY <2>1, <4>1 DEF ServiceInv, ShapeInv, ActiveInv, Posted
    <3> QED BY <3>1, <3>2
  <2>6. MarkInv'
    <3> SUFFICES ASSUME NEW r \in Request, Consumed(r)', Active(work[r].session)'
                 PROVE  /\ work[r].attempt \in registry'[work[r].session].attempts
                        /\ work[r].stage \in registry'[work[r].session].stages
      BY <2>1 DEF MarkInv
    <3>1. Consumed(r) /\ work[r].session \in Session /\ work[r].session # s
      BY <2>1, <2>2 DEF ServiceInv, ShapeInv, Consumed, Entered
    <3> QED BY <2>1, <3>1 DEF ServiceInv, ShapeInv, MarkInv, Active
  <2>7. ConsumedOnce'
    BY <2>1 DEF ServiceInv, ConsumedOnce, Consumed
  <2> QED BY <2>3, <2>4, <2>5, <2>6, <2>7 DEF ServiceInv
<1> QED BY <1>2, <1>3 DEF Activate

\* The other steps of the authorize route, and what is not part of a route.
LEMMA OthersKeep ==
  ASSUME ServiceInv,
         \/ \E a \in Authorization :
              \/ \E s \in Session : ReserveRefused(a, s)
              \/ AuthorizeRaises(a) \/ AuthorizeBreaks(a)
         \/ \E s \in Session :
              \/ Cleanup(s) \/ CancelInference(s)
              \/ \E o \in Owner : CancelPreparation(s, o)
  PROVE  ServiceInv'
<1>1. ASSUME NEW a \in Authorization, NEW s \in Session, ReserveRefused(a, s)  PROVE ServiceInv'
  <2>1. ShapeInv'
    BY <1>1 DEF ServiceInv, ShapeInv, ReserveRefused, inferenceVars
  <2> QED BY <1>1, <2>1, Settles
          DEF ServiceInv, ShapeInv, ReserveRefused, inferenceVars, Active, Consumed
<1>2. ASSUME NEW a \in Authorization, AuthorizeRaises(a)  PROVE ServiceInv'
  BY <1>2, FailureKeeps DEF AuthorizeRaises
<1>3. ASSUME NEW a \in Authorization, AuthorizeBreaks(a)  PROVE ServiceInv'
  <2>1. ShapeInv'
    BY <1>3 DEF ServiceInv, ShapeInv, AuthorizeBreaks, inferenceVars
  <2> QED BY <1>3, <2>1, Settles
          DEF ServiceInv, ShapeInv, AuthorizeBreaks, inferenceVars, Active, Consumed
<1>4. ASSUME NEW s \in Session, Cleanup(s)  PROVE ServiceInv'
  <2>1. ShapeInv'
    BY <1>4 DEF ServiceInv, ShapeInv, Cleanup, inferenceVars
  <2> QED BY <1>4, <2>1, Settles
          DEF ServiceInv, ShapeInv, Cleanup, inferenceVars, Active, Consumed
<1>5. ASSUME NEW s \in Session, CancelInference(s)  PROVE ServiceInv'
  <2>1. ShapeInv'
    BY <1>5 DEF ServiceInv, ShapeInv, CancelInference, serviceVars
  <2> QED BY <1>5, <2>1, Settles
          DEF ServiceInv, ShapeInv, CancelInference, serviceVars, Active, Consumed
<1>6. ASSUME NEW s \in Session, NEW o \in Owner, CancelPreparation(s, o)  PROVE ServiceInv'
  <2>1. /\ registry' \in [Session -> {NoSession} \cup Registration]
        /\ \A t \in Session : registry'[t] \in {registry[t], NoSession}
    BY <1>6, ReleasedOnly DEF ServiceInv, CancelPreparation
  <2>2. UNCHANGED <<auth, work, expected>>
    BY <1>6 DEF CancelPreparation, inferenceVars
  <2>3. ShapeInv'
    BY <2>1, <2>2 DEF ServiceInv, ShapeInv
  <2> QED BY <2>1, <2>2, <2>3, Settles DEF ServiceInv, ShapeInv, Active, Consumed
<1> QED BY <1>1, <1>2, <1>3, <1>4, <1>5, <1>6

-----------------------------------------------------------------------------
(* The stage route.                                                        *)

\* A call that ends keeps what it consumed marked, or had consumed nothing.
LEMMA EndKeeps ==
  ASSUME ServiceInv, NEW r \in Request, NEW s \in Session, NEW o,
         NEW pc \in {"refused", "failed"}, RequestEnds(r, s, o, pc),
         pc = "failed" => work[r].pc \in {"computing", "pushing"}
  PROVE  ServiceInv'
<1>1. /\ registry' \in [Session -> {NoSession} \cup Registration]
      /\ \A t \in Session : registry'[t] \in {registry[t], NoSession}
  BY ReleasedOnly DEF ServiceInv, RequestEnds
<1>2. work' = [work EXCEPT ![r].pc = pc] /\ UNCHANGED <<auth, expected>>
  BY DEF RequestEnds, inferenceVars
<1>3. ShapeInv'
  BY <1>1, <1>2 DEF ServiceInv, ShapeInv, StageCall
<1> QED BY <1>1, <1>2, <1>3, Settles DEF ServiceInv, ShapeInv, Active, Consumed

\* A call enters a session that is active.
LEMMA HydrateKeeps ==
  ASSUME ServiceInv, NEW r \in Request, NEW s \in Session, NEW o \in Owner,
         NEW t \in Stage, NEW i \in Attempt, Hydrate(r, s, o, t, i)
  PROVE  ServiceInv'
<1> DEFINE entered == [pc |-> "hydrated", session |-> s, owner |-> o,
                       stage |-> t, attempt |-> i, mail |-> "none"]
<1>1. /\ work' = [work EXCEPT ![r] = entered] /\ work[r].pc = "new"
      /\ Active(s) /\ UNCHANGED <<registry, auth, expected>>
  BY DEF Hydrate, inferenceVars, Authorized, Registered, Active
<1>2. ShapeInv'
  BY <1>1 DEF ServiceInv, ShapeInv, StageCall, Mail
<1>3. GrantInv'
  BY <1>1 DEF ServiceInv, GrantInv
<1>4. ActiveInv'
  BY <1>1 DEF ServiceInv, ShapeInv, ActiveInv, Active, Entered, Posted
<1>5. \A q \in Request : Consumed(q)' => Consumed(q) /\ work'[q] = work[q]
  BY <1>1 DEF ServiceInv, ShapeInv, Consumed
<1>6. MarkInv'
  BY <1>1, <1>5 DEF ServiceInv, MarkInv, Active
<1>7. ConsumedOnce'
  BY <1>5 DEF ServiceInv, ConsumedOnce
<1> QED BY <1>2, <1>3, <1>4, <1>6, <1>7 DEF ServiceInv

\* consume() finds in the active registration whatever was consumed before.
LEMMA ConsumeKeeps ==
  ASSUME ServiceInv, NEW r \in Request, Consume(r)
  PROVE  ServiceInv'
<1> DEFINE s == work[r].session
<1>1. /\ s \in Session /\ work[r].stage \in Stage /\ work[r].attempt \in Attempt
      /\ work[r].pc = "hydrated"
  BY DEF ServiceInv, ShapeInv, Consume
<1>2. CASE ~Unconsumed(r)
  BY <1>1, <1>2, EndKeeps DEF Consume
<1>3. CASE Unconsumed(r)
  <2>1. /\ registry' = [registry EXCEPT ![s].attempts = @ \cup {work[r].attempt},
                                        ![s].stages = @ \cup {work[r].stage}]
        /\ work' = [work EXCEPT ![r].pc = "computing"]
        /\ UNCHANGED <<auth, expected>>
    BY <1>3 DEF Consume, inferenceVars
  <2>2. /\ Active(s) /\ registry[s] \in Registration
        /\ work[r].attempt \notin registry[s].attempts
        /\ work[r].stage \notin registry[s].stages
    BY <1>1, <1>3 DEF ServiceInv, ShapeInv, Unconsumed, Authorized, Registered, Active
  <2>3. registry' = [registry EXCEPT ![s] =
          [registry[s] EXCEPT !.attempts = @ \cup {work[r].attempt},
                              !.stages = @ \cup {work[r].stage}]]
    BY <1>1, <2>1 DEF ServiceInv, ShapeInv
  <2>4. ShapeInv'
    <3>1. [registry[s] EXCEPT !.attempts = @ \cup {work[r].attempt},
                              !.stages = @ \cup {work[r].stage}] \in Registration
      BY <1>1, <2>2 DEF Registration
    <3> QED BY <1>1, <2>1, <2>3, <3>1 DEF ServiceInv, ShapeInv, StageCall
  <2>5. GrantInv'
    BY <2>1 DEF ServiceInv, GrantInv
  <2>6. \A t \in Session : t # s => registry'[t] = registry[t]
    BY <2>3 DEF ServiceInv, ShapeInv
  <2>7. ActiveInv'
    <3>1. \A t \in Session : (Active(t) \/ \E q \in Request : Entered(q, t))' =>
            Active(t) \/ \E q \in Request : Entered(q, t)
      BY <1>1, <2>1, <2>2, <2>6 DEF ServiceInv, ShapeInv, Active, Entered
    <3> QED BY <2>1, <3>1 DEF ServiceInv, ActiveInv, Posted
  <2>8. MarkInv'
    <3>1. /\ registry'[s].attempts = registry[s].attempts \cup {work[r].attempt}
          /\ registry'[s].stages = registry[s].stages \cup {work[r].stage}
      BY <1>1, <2>2, <2>3 DEF ServiceInv, ShapeInv, Registration
    <3> SUFFICES ASSUME NEW q \in Request, Consumed(q)', Active(work[q].session)'
                 PROVE  /\ work'[q].attempt \in registry'[work'[q].session].attempts
                        /\ work'[q].stage \in registry'[work'[q].session].stages
      BY DEF MarkInv
    <3>2. CASE q = r
      BY <1>1, <2>1, <3>1, <3>2 DEF ServiceInv, ShapeInv
    <3>3. CASE q # r
      <4>1. Consumed(q) /\ work'[q] = work[q] /\ work[q].session \in Session
        BY <2>1, <3>3 DEF ServiceInv, ShapeInv, Consumed
      <4>2. CASE work[q].session = s
        BY <2>2, <3>1, <4>1, <4>2 DEF ServiceInv, MarkInv
      <4>3. CASE work[q].session # s
        BY <2>6, <4>1, <4>3 DEF ServiceInv, MarkInv, Active
      <4> QED BY <4>2, <4>3
    <3> QED BY <3>2, <3>3
  <2>9. ConsumedOnce'
    <3>1. \A q \in Request : q # r /\ Consumed(q)' => Consumed(q) /\ work'[q] = work[q]
      BY <2>1 DEF ServiceInv, ShapeInv, Consumed
    <3>2. /\ work'[r].session = s /\ work'[r].stage = work[r].stage
          /\ work'[r].attempt = work[r].attempt
      BY <2>1 DEF ServiceInv, ShapeInv
    <3>3. \A q \in Request : q # r /\ Consumed(q)' /\ work'[q].session = s =>
            work'[q].stage # work[r].stage /\ work'[q].attempt # work[r].attempt
      BY <2>2, <3>1 DEF ServiceInv, MarkInv
    <3> QED BY <3>1, <3>2, <3>3 DEF ServiceInv, ConsumedOnce
  <2> QED BY <2>4, <2>5, <2>7, <2>8, <2>9 DEF ServiceInv
<1> QED BY <1>2, <1>3

\* The rest of a call neither enters nor consumes.
LEMMA RequestKeeps ==
  ASSUME ServiceInv, NEW r \in Request,
         \/ \E s \in Session, o \in Owner : HydrateRefused(r, s, o)
         \/ Push(r) \/ RequestRaises(r) \/ Accept(r) \/ Acknowledge(r)
  PROVE  ServiceInv'
<1>0. work[r].pc \in {"computing", "pushing"} => work[r].session \in Session
  BY DEF ServiceInv, ShapeInv
<1>1. ASSUME NEW s \in Session, NEW o \in Owner, HydrateRefused(r, s, o)  PROVE ServiceInv'
  BY <1>1, EndKeeps DEF HydrateRefused
<1>2. CASE Push(r)
  <2>1. /\ work[r].pc = "computing"
        /\ work' = [work EXCEPT ![r] = [work[r] EXCEPT !.pc = "pushing", !.mail = "flying"]]
        /\ UNCHANGED <<registry, auth, expected>>
    BY <1>2 DEF Push, inferenceVars, ServiceInv, ShapeInv
  <2>2. ShapeInv'
    <3>1. work[r] \in StageCall
      BY DEF ServiceInv, ShapeInv
    <3>2. [work[r] EXCEPT !.pc = "pushing", !.mail = "flying"] \in StageCall
      BY <3>1 DEF StageCall, Mail
    <3> QED BY <2>1, <3>2 DEF ServiceInv, ShapeInv
  <2> QED BY <2>1, <2>2, Settles DEF ServiceInv, ShapeInv, Active, Consumed
<1>3. CASE RequestRaises(r)
  BY <1>0, <1>3, EndKeeps DEF RequestRaises
<1>4. CASE Accept(r)
  <2>1. \E mail \in {"granted", "refused"} : work' = [work EXCEPT ![r].mail = mail]
    BY <1>4 DEF Accept
  <2>2. UNCHANGED <<registry, auth, expected>>
    BY <1>4 DEF Accept
  <2>3. ShapeInv'
    BY <2>1, <2>2 DEF ServiceInv, ShapeInv, StageCall, Mail
  <2> QED BY <2>1, <2>2, <2>3, Settles DEF ServiceInv, ShapeInv, Active, Consumed
<1>5. CASE Acknowledge(r) /\ work[r].session \in policy
  <2>1. /\ work[r].pc = "pushing" /\ work' = [work EXCEPT ![r].pc = "done"]
        /\ UNCHANGED <<registry, auth, expected>>
    BY <1>5 DEF Acknowledge, inferenceVars
  <2>2. ShapeInv'
    BY <2>1 DEF ServiceInv, ShapeInv, StageCall
  <2> QED BY <2>1, <2>2, Settles DEF ServiceInv, ShapeInv, Active, Consumed
<1>6. CASE Acknowledge(r) /\ work[r].session \notin policy
  BY <1>0, <1>6, EndKeeps DEF Acknowledge
<1> QED BY <1>1, <1>2, <1>3, <1>4, <1>5, <1>6

-----------------------------------------------------------------------------
\* No step lets a second call through.
LEMMA ServiceStep ==
  ASSUME ServiceInv, [Next]_vars
  PROVE  ServiceInv'
<1>1. CASE UNCHANGED vars
  BY <1>1 DEF vars, ServiceInv, ShapeInv, GrantInv, ActiveInv, MarkInv, ConsumedOnce,
              Consumed, Active, Entered, Posted
<1>2. CASE Next
  BY <1>2, ReserveKeeps, AuthorizeKeeps, ActivateKeeps, OthersKeep, HydrateKeeps,
     ConsumeKeeps, RequestKeeps
  DEF Next
<1> QED BY <1>1, <1>2

\* consume() lets one call through for a stage and for an attempt id in the whole
\* life of a session, however authorize, activate, cancel and the idle timeout
\* interleave and whichever answers come late.
THEOREM StagesComputedOnce == Spec => []ConsumedOnce
<1>1. ServiceInv /\ [Next]_vars => ServiceInv'
  BY ServiceStep
<1>2. ServiceInv => ConsumedOnce
  BY DEF ServiceInv
<1> QED BY <1>1, <1>2, ServiceInit, PTL DEF Spec

-----------------------------------------------------------------------------
(* The two services agree.  What the inference service granted is at its     *)
(* end of the call, whatever became of the call at this one.                 *)

Unpushed == {"new", "hydrated", "computing"}

DeskInv ==
  /\ policy \subseteq Session /\ held \subseteq Request
  /\ \A r \in Request :
       /\ work[r].mail # "none" => work[r].pc \notin Unpushed
       /\ work[r].pc = "done" => work[r].mail = "granted"
       /\ work[r].mail = "granted" => r \in held \/ expected[work[r].session] = "over"
       /\ r \in held => work[r].mail = "granted" /\ expected[work[r].session] = "authorized"

\* Nothing was pushed.
LEMMA DeskInit == Init => DeskInv
  BY DEF Init, DeskInv, NewRequest, Unpushed

\* Most steps reach neither end of a call.
LEMMA DeskStays ==
  ASSUME DeskInv, policy' \subseteq Session, held' = held,
         \A r \in Request :
           /\ work'[r].mail = work[r].mail
           /\ work'[r].session = work[r].session
           /\ work'[r].pc \in Unpushed => work[r].pc \in Unpushed
           /\ work'[r].pc = "done" => work[r].pc = "done"
           /\ expected'[work[r].session] = expected[work[r].session]
  PROVE  DeskInv'
BY DEF DeskInv

\* A call that ends at this service changes nothing at the other.
LEMMA DeskEnds ==
  ASSUME ServiceInv, DeskInv, NEW r \in Request, NEW s, NEW o,
         NEW pc \in {"refused", "failed"}, RequestEnds(r, s, o, pc)
  PROVE  DeskInv'
<1>1. /\ work' = [work EXCEPT ![r].pc = pc]
      /\ policy' = policy /\ expected' = expected /\ held' = held
  BY DEF RequestEnds, inferenceVars
<1>2. \A q \in Request :
        /\ work'[q].mail = work[q].mail /\ work'[q].session = work[q].session
        /\ work'[q].pc \in Unpushed => work[q].pc \in Unpushed
        /\ work'[q].pc = "done" => work[q].pc = "done"
  BY <1>1 DEF ServiceInv, ShapeInv, StageCall, Unpushed
<1> QED BY <1>1, <1>2, DeskStays DEF DeskInv

\* The authorize route and the end of a session.
LEMMA DeskAuthorizations ==
  ASSUME ServiceInv, DeskInv,
         \/ \E a \in Authorization :
              \/ \E s \in Session : ReserveRefused(a, s) \/ \E o \in Owner : Reserve(a, s, o)
              \/ Authorize(a) \/ Activate(a) \/ AuthorizeRaises(a) \/ AuthorizeBreaks(a)
         \/ \E s \in Session :
              \/ Cleanup(s) \/ CancelInference(s)
              \/ \E o \in Owner : CancelPreparation(s, o)
  PROVE  DeskInv'
<1>1. ASSUME policy' \subseteq Session, work' = work, expected' = expected, held' = held
      PROVE  DeskInv'
  BY <1>1, DeskStays
<1>2. policy \subseteq Session
  BY DEF DeskInv
<1>3. ASSUME NEW a \in Authorization, NEW s \in Session, ReserveRefused(a, s)  PROVE DeskInv'
  BY <1>1, <1>2, <1>3 DEF ReserveRefused, inferenceVars
<1>4. ASSUME NEW a \in Authorization, NEW s \in Session, NEW o \in Owner, Reserve(a, s, o)
      PROVE  DeskInv'
  BY <1>1, <1>2, <1>4 DEF Reserve, inferenceVars
<1>5. ASSUME NEW a \in Authorization, Authorize(a)  PROVE DeskInv'
  <2> DEFINE s == auth[a].session
  <2>1. s \in Session
    BY <1>5 DEF Authorize, ServiceInv, ShapeInv
  <2>2. CASE expected[s] # "open"
    <3>1. expected' = expected /\ policy' = policy /\ work' = work /\ held' = held
      BY <1>5, <2>1, <2>2 DEF Authorize, ServiceInv, ShapeInv
    <3> QED BY <1>1, <1>2, <3>1
  <2>3. CASE expected[s] = "open"
    <3>1. /\ expected' = [expected EXCEPT ![s] = "authorized"]
          /\ policy' = policy /\ work' = work /\ held' = held
      BY <1>5, <2>1, <2>3 DEF Authorize
    <3>2. \A t : expected[t] \in {"authorized", "over"} => expected'[t] = expected[t]
      BY <2>3, <3>1 DEF ServiceInv, ShapeInv
    <3> QED BY <3>1, <3>2 DEF DeskInv
  <2> QED BY <2>2, <2>3
<1>6. ASSUME NEW a \in Authorization, AuthorizationFails(a)  PROVE DeskInv'
  BY <1>1, <1>2, <1>6 DEF AuthorizationFails, inferenceVars
<1>7. ASSUME NEW a \in Authorization, Activate(a)  PROVE DeskInv'
  BY <1>1, <1>2, <1>6, <1>7 DEF Activate, inferenceVars
<1>8. ASSUME NEW a \in Authorization, AuthorizeRaises(a)  PROVE DeskInv'
  BY <1>6, <1>8 DEF AuthorizeRaises
<1>9. ASSUME NEW a \in Authorization, AuthorizeBreaks(a)  PROVE DeskInv'
  BY <1>1, <1>2, <1>9 DEF AuthorizeBreaks, inferenceVars
<1>10. ASSUME NEW s \in Session, Cleanup(s)  PROVE DeskInv'
  BY <1>1, <1>2, <1>10 DEF Cleanup, inferenceVars
<1>11. ASSUME NEW s \in Session, NEW o \in Owner, CancelPreparation(s, o)  PROVE DeskInv'
  BY <1>1, <1>2, <1>11 DEF CancelPreparation, inferenceVars
<1>12. ASSUME NEW s \in Session, CancelInference(s)  PROVE DeskInv'
  <2>1. /\ expected' = [expected EXCEPT ![s] = "over"]
        /\ held' = {r \in held : work[r].session # s}
        /\ policy' = policy /\ work' = work
    BY <1>12 DEF CancelInference, serviceVars
  <2>2. /\ expected'[s] = "over"
        /\ \A t : t # s => expected'[t] = expected[t]
    BY <2>1 DEF ServiceInv, ShapeInv
  <2> QED BY <2>1, <2>2 DEF DeskInv
<1> QED BY <1>3, <1>4, <1>5, <1>7, <1>8, <1>9, <1>10, <1>11, <1>12

\* The stage route: a push that arrives is held or refused, late or not.
LEMMA DeskRequests ==
  ASSUME ServiceInv, DeskInv, NEW r \in Request,
         \/ \E s \in Session, o \in Owner :
              HydrateRefused(r, s, o) \/ \E t \in Stage, i \in Attempt : Hydrate(r, s, o, t, i)
         \/ Consume(r) \/ Push(r) \/ RequestRaises(r) \/ Accept(r) \/ Acknowledge(r)
  PROVE  DeskInv'
<1>1. work \in [Request -> StageCall]
  BY DEF ServiceInv, ShapeInv
<1>2. ASSUME NEW s, NEW o, NEW pc \in {"refused", "failed"}, RequestEnds(r, s, o, pc)
      PROVE  DeskInv'
  BY <1>2, DeskEnds
<1>3. ASSUME NEW s \in Session, NEW o \in Owner, HydrateRefused(r, s, o)  PROVE DeskInv'
  BY <1>2, <1>3 DEF HydrateRefused
<1>4. ASSUME NEW s \in Session, NEW o \in Owner, NEW t \in Stage, NEW i \in Attempt,
             Hydrate(r, s, o, t, i)
      PROVE  DeskInv'
  <2>1. /\ work[r].pc = "new" /\ work[r].mail = "none" /\ r \notin held
        /\ work'[r].pc = "hydrated" /\ work'[r].mail = "none"
        /\ \A q \in Request : q # r => work'[q] = work[q]
        /\ UNCHANGED <<policy, expected, held>>
    BY <1>1, <1>4 DEF Hydrate, inferenceVars, DeskInv, Unpushed
  <2> QED BY <2>1 DEF DeskInv
<1>5. CASE Consume(r)
  <2>1. CASE Unconsumed(r)
    <3>1. /\ work'[r].pc = "computing" /\ work'[r].mail = work[r].mail
          /\ work'[r].session = work[r].session /\ work[r].pc = "hydrated"
          /\ \A q \in Request : q # r => work'[q] = work[q]
          /\ UNCHANGED <<policy, expected, held>>
      BY <1>1, <1>5, <2>1 DEF Consume, inferenceVars, StageCall
    <3> QED BY <3>1, DeskStays DEF DeskInv, Unpushed
  <2>2. CASE ~Unconsumed(r)
    BY <1>2, <1>5, <2>2 DEF Consume
  <2> QED BY <2>1, <2>2
<1>6. CASE Push(r)
  <2>1. /\ work[r].mail = "none" /\ r \notin held
        /\ work'[r].pc = "pushing" /\ work'[r].mail = "flying"
        /\ work'[r].session = work[r].session
        /\ \A q \in Request : q # r => work'[q] = work[q]
        /\ UNCHANGED <<policy, expected, held>>
    BY <1>1, <1>6 DEF Push, inferenceVars, StageCall, DeskInv, Unpushed
  <2> QED BY <2>1 DEF DeskInv, Unpushed
<1>7. CASE RequestRaises(r)
  BY <1>2, <1>7 DEF RequestRaises
<1>8. CASE Accept(r)
  <2>1. /\ work[r].mail = "flying" /\ work[r].pc \notin Unpushed \cup {"done"} /\ r \notin held
        /\ work'[r].pc = work[r].pc /\ work'[r].session = work[r].session
        /\ \A q \in Request : q # r => work'[q] = work[q]
        /\ UNCHANGED <<policy, expected>>
    BY <1>1, <1>8 DEF Accept, StageCall, DeskInv
  <2>2. CASE Acceptable(r)
    <3>1. /\ expected[work[r].session] = "authorized"
          /\ held' = held \cup {r} /\ work'[r].mail = "granted"
      BY <1>1, <1>8, <2>2 DEF Accept, Acceptable, StageCall
    <3> QED BY <2>1, <3>1 DEF DeskInv
  <2>3. CASE ~Acceptable(r)
    <3>1. held' = held /\ work'[r].mail = "refused"
      BY <1>1, <1>8, <2>3 DEF Accept, StageCall
    <3> QED BY <2>1, <3>1 DEF DeskInv
  <2> QED BY <2>2, <2>3
<1>9. CASE Acknowledge(r)
  <2>1. CASE work[r].session \in policy
    <3>1. /\ work[r].mail = "granted" /\ work'[r].mail = "granted"
          /\ work'[r].pc = "done" /\ work'[r].session = work[r].session
          /\ \A q \in Request : q # r => work'[q] = work[q]
          /\ UNCHANGED <<policy, expected, held>>
      BY <1>1, <1>9, <2>1 DEF Acknowledge, inferenceVars, StageCall
    <3> QED BY <3>1 DEF DeskInv, Unpushed
  <2>2. CASE work[r].session \notin policy
    BY <1>2, <1>9, <2>2 DEF Acknowledge
  <2> QED BY <2>1, <2>2
<1> QED BY <1>3, <1>4, <1>5, <1>6, <1>7, <1>8, <1>9

\* A stage reported as prepared is at the inference service, and what is held there
\* was authorized, though answers are lost, pushes are late, and a session is
\* cancelled on either side.
THEOREM PreparedIsDelivered == Spec => []ServicesAgree
<1>1. ServiceInv /\ DeskInv /\ [Next]_vars => (ServiceInv /\ DeskInv)'
  <2> SUFFICES ASSUME ServiceInv, DeskInv, [Next]_vars PROVE ServiceInv' /\ DeskInv'
    OBVIOUS
  <2>1. ServiceInv'
    BY ServiceStep
  <2>2. CASE UNCHANGED vars
    <3>1. policy' = policy /\ work' = work /\ expected' = expected /\ held' = held
      BY <2>2 DEF vars
    <3> QED BY <2>1, <3>1, DeskStays DEF DeskInv
  <2>3. CASE Next
    <3>1. CASE \/ \E a \in Authorization :
                    \/ \E s \in Session : ReserveRefused(a, s) \/ \E o \in Owner : Reserve(a, s, o)
                    \/ Authorize(a) \/ Activate(a) \/ AuthorizeRaises(a) \/ AuthorizeBreaks(a)
               \/ \E s \in Session :
                    \/ Cleanup(s) \/ CancelInference(s)
                    \/ \E o \in Owner : CancelPreparation(s, o)
      BY <2>1, <3>1, DeskAuthorizations
    <3>2. CASE \E r \in Request :
                 \/ \E s \in Session, o \in Owner :
                      HydrateRefused(r, s, o) \/ \E t \in Stage, i \in Attempt : Hydrate(r, s, o, t, i)
                 \/ Consume(r) \/ Push(r) \/ RequestRaises(r) \/ Accept(r) \/ Acknowledge(r)
      BY <2>1, <3>2, DeskRequests
    <3> QED BY <2>3, <3>1, <3>2 DEF Next
  <2> QED BY <2>2, <2>3
<1>2. ServiceInv /\ DeskInv => ServicesAgree
  <2> SUFFICES ASSUME ServiceInv, DeskInv PROVE ServicesAgree
    OBVIOUS
  <2>1. TypeOK
    BY DEF ServiceInv, ShapeInv, DeskInv, Registration, StageCall, TypeOK
  <2>2. DoneIsHeld /\ HeldIsAuthorized
    BY DEF DeskInv, DoneIsHeld, HeldIsAuthorized
  <2> QED BY <2>1, <2>2 DEF ServicesAgree
<1> QED BY <1>1, <1>2, ServiceInit, DeskInit, PTL DEF Spec
==============================================================================
