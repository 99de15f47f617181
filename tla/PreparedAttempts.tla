-------------------------- MODULE PreparedAttempts --------------------------
(***************************************************************************)
(* OwnedPreparedAttempt and PreparedCancellation (runtime/                 *)
(* prepared_queue.py) around the response generator of the client          *)
(* (RuntimeClient._owned_transformer_events), with the two structures they *)
(* share: the execution queue (PreparedQueue) and the in-flight prefix     *)
(* owner (InflightPrefix).  An attempt takes a seat, registers for         *)
(* cancellation, looks its prompt up, waits for a shared prefill if it     *)
(* joined one, takes its turn, prefills, decodes, and unwinds.             *)
(*                                                                         *)
(* An attempt is its own scope of the queue and its own request of the     *)
(* prefix owner, so attempts are called Request; the variables and actions *)
(* of the prefix owner are those of InflightPrefix.  One thread at a time  *)
(* runs the generator (attempt.lock); cancel() may come from any thread    *)
(* between two of its steps, and close() when the generator is suspended   *)
(* at a yield, where `opened' is the one before the prefill and `decoding' *)
(* the ones after.                                                         *)
(***************************************************************************)
EXTENDS InflightPrefix

CONSTANTS
  NoScope,
  Maximum,                 \* queue seats
  MaxCancelled, MaxBroken  \* bounds on the attempts cancelled and broken

ASSUME AttemptBounds == NoScope \notin Request /\ Maximum \in Nat \ {0}

VARIABLES
  created, scopes, entered, waiting, ready, active, queueClosed,  \* see PreparedQueue
  att,      \* OwnedPreparedAttempt
  closing   \* client._closing

queueVars == <<created, scopes, entered, waiting, ready, active, queueClosed>>
prefixVars == <<req, node, pending, closed, secret, count, reserved>>
attemptVars == <<created, scopes, entered, waiting, ready, active, queueClosed,
                 req, node, pending, closed, secret, count, reserved, att, closing>>

Queue == INSTANCE PreparedQueue WITH Scope <- Request, Owned <- Request, closed <- queueClosed

\* `event' and `registered' are the attempt's PreparedCancellation, `swept' tells
\* that its cancel() went through the registered attempts; `role' is the answer of
\* lookup_or_register, `bound' that bind_prefix kept it, `stop' a close() that
\* runs, and `broke' that the generator raised of itself.
NewAttempt ==
  [pc |-> "new", event |-> FALSE, swept |-> FALSE, registered |-> FALSE,
   cancelled |-> FALSE, role |-> "none", bound |-> FALSE, published |-> FALSE,
   finished |-> FALSE, stop |-> FALSE, broke |-> FALSE]

AttemptsInit ==
  /\ Queue!Init
  /\ Init
  /\ att = [a \in Request |-> NewAttempt]
  /\ closing = FALSE

-----------------------------------------------------------------------------
(* Cancellation.                                                           *)

Produces(a) == att[a].bound /\ att[a].role = "producer"

\* Mutant of Defers: a cancelled producer never goes on for the others.
DefersNever(a) == FALSE

\* _defer_cancel: a producer that has neither published nor finished goes on
\* until it is told that nobody wants its prefill.
Defers(a) == Produces(a) /\ ~att[a].published /\ ~att[a].finished /\ ~node[a].cancel

\* is_set; check_cancelled raises on the same condition.
IsSet(a) == closing \/ (att[a].cancelled /\ ~Defers(a))

\* attempt.cancel() on the attempts A a method has, which also cancels the claim.
CancelClaim(a, A) ==
  /\ att' = [A EXCEPT ![a].cancelled = TRUE]
  /\ IF A[a].bound /\ ~A[a].cancelled /\ req[a].st = "held" /\ ~req[a].cancelled
     THEN Cancel(a)
     ELSE UNCHANGED prefixVars

\* The bound on cancellations.
MayCancel(a) ==
  Cardinality({b \in Request \ {a} : att[b].event \/ att[b].cancelled}) < MaxCancelled

\* PreparedCancellation.cancel: the event first ...
Signal(a) ==
  /\ ~att[a].event /\ att[a].pc # "over" /\ MayCancel(a)
  /\ att' = [att EXCEPT ![a].event = TRUE]
  /\ UNCHANGED <<queueVars, prefixVars, closing>>

\* ... then the attempts that are registered by then.
Sweep(a) ==
  LET A == [att EXCEPT ![a].swept = TRUE] IN
  /\ att[a].event /\ ~att[a].swept /\ att[a].pc \notin {"failing", "over"}
  /\ IF att[a].registered THEN CancelClaim(a, A) ELSE att' = A /\ UNCHANGED prefixVars
  /\ UNCHANGED <<queueVars, closing>>

\* RuntimeClient.cancel of a response that has its id.
CancelResponse(a) ==
  /\ att[a].pc \in {"opened", "prefilling", "prefilled", "decoding", "feeding"}
  /\ ~att[a].cancelled /\ MayCancel(a)
  /\ CancelClaim(a, att)
  /\ UNCHANGED <<queueVars, closing>>

\* close() of the stream: at a yield, by the thread that reads it.
CloseStream(a) ==
  /\ att[a].pc \in {"opened", "decoding"} /\ ~att[a].stop /\ MayCancel(a)
  /\ CancelClaim(a, [att EXCEPT ![a].stop = TRUE])
  /\ UNCHANGED <<queueVars, closing>>

-----------------------------------------------------------------------------
(* The generator.                                                          *)

Moves(a, pc) == att' = [att EXCEPT ![a].pc = pc]

\* A step that first checks for cancellation.
CheckedStep(a, pc, next) ==
  /\ att[a].pc = pc
  /\ Moves(a, IF IsSet(a) THEN "unwind" ELSE next)
  /\ UNCHANGED <<queueVars, prefixVars, closing>>

\* _events takes the seat; refused, it never gets into its try block.
Start(a) ==
  /\ att[a].pc = "new"
  /\ \/ ~closing /\ Queue!Admit(a) /\ Moves(a, "admitted")
     \/ /\ closing \/ queueClosed \/ Cardinality(scopes) >= Maximum
        /\ Moves(a, "over") /\ UNCHANGED queueVars
  /\ UNCHANGED <<prefixVars, closing>>

\* PreparedCancellation.register cancels a latecomer.
Register(a) ==
  /\ att[a].pc = "admitted"
  /\ att' = [att EXCEPT ![a].pc = "registered", ![a].registered = TRUE,
                        ![a].cancelled = @ \/ att[a].event]
  /\ UNCHANGED <<queueVars, prefixVars, closing>>

\* A prompt joins, produces, or has no part in it (a completed prefill is
\* cached, or there is no room).
LookupPrefix(a) ==
  /\ att[a].pc = "setup"
  /\ \/ /\ Lookup(a)
        /\ att' = [att EXCEPT ![a].pc = "looked",
                              ![a].role = IF req'[a].node = a THEN "producer" ELSE "joiner"]
     \/ Moves(a, "ready") /\ UNCHANGED prefixVars
  /\ UNCHANGED <<queueVars, closing>>

\* bind_prefix
Bind(a) ==
  /\ att[a].pc = "looked"
  /\ att' = [att EXCEPT ![a].bound = TRUE,
                        ![a].pc = IF att[a].role = "joiner" THEN "joined" ELSE "ready"]
  /\ IF att[a].cancelled THEN Cancel(a) ELSE UNCHANGED prefixVars
  /\ UNCHANGED <<queueVars, closing>>

\* request.wait() of a joiner, before the queue.
JoinPrefill(a) ==
  /\ att[a].pc = "joined"
  /\ IF IsOver(a)
     THEN Moves(a, "unwind") /\ UNCHANGED prefixVars
     ELSE Moves(a, "waiting") /\ Wait(a)
  /\ UNCHANGED <<queueVars, closing>>

WakeJoiner(a) ==
  /\ att[a].pc = "waiting"
  /\ Wake(a)
  /\ Moves(a, IF req'[a].lease THEN "ready" ELSE "unwind")
  /\ UNCHANGED <<queueVars, closing>>

\* enter(): check, then the queue's _enter ...
Enter(a) ==
  /\ att[a].pc = "ready"
  /\ IF IsSet(a)
     THEN Moves(a, "unwind") /\ UNCHANGED queueVars
     ELSE Moves(a, "queued") /\ Queue!Enter(a)
  /\ UNCHANGED <<prefixVars, closing>>

\* ... whose loop looks at is_set() every time.
TakeTurn(a) ==
  /\ att[a].pc = "queued" /\ ~IsSet(a)
  /\ Queue!TakeTurn(a)
  /\ Moves(a, "active")
  /\ UNCHANGED <<prefixVars, closing>>

Leave(a) ==
  /\ att[a].pc = "queued" /\ (queueClosed \/ IsSet(a))
  /\ Queue!Leave(a)
  /\ Moves(a, "unwind")
  /\ UNCHANGED <<prefixVars, closing>>

\* The session is opened and the first events are yielded.
Open(a) == CheckedStep(a, "active", "opened")

\* What a yield resumes for: the reader, or a close() that drains the prefix.
Resumed(a) == ~att[a].stop \/ Defers(a)

Resume(a) == Resumed(a) /\ CheckedStep(a, "opened", "prefilling")

\* Of a producer, the prefill is published or fails; told to stop, publish raises.
Prefill(a) ==
  /\ att[a].pc = "prefilling"
  /\ \/ /\ ~Produces(a)
        /\ Moves(a, "prefilled") /\ UNCHANGED prefixVars
     \/ /\ Produces(a) /\ node[a].cancel
        /\ Moves(a, "unwind") /\ UNCHANGED prefixVars
     \/ /\ Produces(a)
        /\ Publish(a)
        /\ LET done == node'[a].status = "published" IN
           att' = [att EXCEPT ![a].published = done, ![a].broke = ~done,
                              ![a].pc = IF done THEN "prefilled" ELSE "unwind"]
  /\ UNCHANGED <<queueVars, closing>>

\* The first token is sampled; after each token it may be fed back, or be the last.
Sample(a) == CheckedStep(a, "prefilled", "decoding")

Feed(a) == Resumed(a) /\ CheckedStep(a, "decoding", "feeding")

Decode(a) == CheckedStep(a, "feeding", "decoding")

Complete(a) ==
  /\ att[a].pc = "decoding" /\ Resumed(a)
  /\ Moves(a, "unwind")
  /\ UNCHANGED <<queueVars, prefixVars, closing>>

\* source.close() at the end of close(): GeneratorExit at the yield.
Exit(a) ==
  /\ att[a].pc \in {"opened", "decoding"} /\ ~Resumed(a)
  /\ Moves(a, "unwind")
  /\ UNCHANGED <<queueVars, prefixVars, closing>>

\* Set-up, opening, prefill and decoding may raise.
Break(a) ==
  /\ att[a].pc \in {"setup", "ready", "active", "prefilling", "feeding"}
  /\ Cardinality({b \in Request : att[b].broke}) < MaxBroken
  /\ att' = [att EXCEPT ![a].pc = "unwind", ![a].broke = TRUE]
  /\ UNCHANGED <<queueVars, prefixVars, closing>>

-----------------------------------------------------------------------------
(* Unwinding: the finally clauses, from the inside out.                    *)

\* A session that cannot be cancelled stops the client: _stop_prepared_admission.
StopAdmission(a) ==
  /\ att[a].pc = "unwind" /\ active = a /\ ~closing
  /\ closing' = TRUE
  /\ Moves(a, "stopping")
  /\ UNCHANGED <<queueVars, prefixVars>>

CloseQueue(a) ==
  /\ att[a].pc = "stopping"
  /\ Queue!Close
  /\ Moves(a, "unwind")
  /\ UNCHANGED <<prefixVars, closing>>

\* Mutant of FailPrefix: a producer that did not publish says nothing and goes.
ForgetPrefix(a) ==
  /\ att[a].pc = "unwind"
  /\ Moves(a, IF Produces(a) /\ att[a].published THEN "failing" ELSE "finished")
  /\ UNCHANGED <<queueVars, prefixVars, closing>>

\* finish_prefix: fail() what was not published ...
FailPrefix(a) ==
  /\ att[a].pc = "unwind"
  /\ IF Produces(a)
     THEN /\ att' = [att EXCEPT ![a].pc = "failing", ![a].finished = TRUE]
          /\ IF att[a].published THEN UNCHANGED prefixVars ELSE Fail(a)
     ELSE Moves(a, "finished") /\ UNCHANGED prefixVars
  /\ UNCHANGED <<queueVars, closing>>

\* ... and finish_producer().
FinishPrefix(a) ==
  /\ att[a].pc = "failing"
  /\ Finish(a)
  /\ Moves(a, "finished")
  /\ UNCHANGED <<queueVars, closing>>

\* prefix.release(), of what cancel() has not released.
ReleasePrefix(a) ==
  /\ att[a].pc = "finished"
  /\ IF att[a].bound /\ req[a].st = "held" THEN Release(a) ELSE UNCHANGED prefixVars
  /\ Moves(a, "released")
  /\ UNCHANGED <<queueVars, closing>>

\* Mutant of CloseScope: a scope that never had its turn is not closed.
CloseActiveScope(a) ==
  /\ att[a].pc = "released"
  /\ IF active = a THEN Queue!Release(a) ELSE UNCHANGED queueVars
  /\ Moves(a, "closed")
  /\ UNCHANGED <<prefixVars, closing>>

CloseScope(a) ==
  /\ att[a].pc = "released"
  /\ Queue!Release(a)
  /\ Moves(a, "closed")
  /\ UNCHANGED <<prefixVars, closing>>

\* The attempt leaves the registries; only what the bounds count is remembered.
Retire(a) ==
  /\ att[a].pc = "closed"
  /\ att' = [att EXCEPT ![a] = [NewAttempt EXCEPT !.pc = "over", !.broke = att[a].broke,
                                                !.cancelled = att[a].cancelled]]
  /\ UNCHANGED <<queueVars, prefixVars, closing>>

\* RuntimeClient.close is refused while a response runs.
CloseClient ==
  /\ \A a \in Request : att[a].pc \in {"new", "over"}
  /\ closing' = TRUE
  /\ Queue!Close
  /\ Close
  /\ UNCHANGED att

-----------------------------------------------------------------------------
\* What the attempt's own thread does without waiting for a reader.
Running(a) ==
  \/ Register(a) \/ CheckedStep(a, "registered", "setup") \/ LookupPrefix(a) \/ Bind(a)
  \/ JoinPrefill(a) \/ WakeJoiner(a) \/ Enter(a) \/ TakeTurn(a) \/ Leave(a) \/ Open(a)
  \/ Prefill(a) \/ Sample(a) \/ Decode(a) \/ Exit(a) \/ Break(a)
  \/ StopAdmission(a) \/ CloseQueue(a)
  \/ FailPrefix(a) \/ FinishPrefix(a) \/ ReleasePrefix(a) \/ CloseScope(a) \/ Retire(a)

AttemptsNext ==
  \/ \E a \in Request :
       \/ Start(a) \/ Running(a) \/ Resume(a) \/ Feed(a) \/ Complete(a)
       \/ Signal(a) \/ Sweep(a) \/ CancelResponse(a) \/ CloseStream(a)
  \/ CloseClient

\* Threads run; a reader reads its stream to the end or closes it, and a response
\* has finitely many tokens.
AttemptsFairness ==
  \A a \in Request :
    /\ WF_attemptVars(Running(a))
    /\ WF_attemptVars(Resume(a)) /\ SF_attemptVars(Complete(a))

AttemptsSpec == AttemptsInit /\ [][AttemptsNext]_attemptVars /\ AttemptsFairness
-----------------------------------------------------------------------------
(* Properties.                                                             *)

Place ==
  {"new", "admitted", "registered", "setup", "looked", "joined", "waiting", "ready",
   "queued", "active", "opened", "prefilling", "prefilled", "decoding", "feeding",
   "unwind", "stopping", "failing", "finished", "released", "closed", "over"}

AttemptsTypeOK ==
  /\ Queue!TypeOK
  /\ TypeOK
  /\ closing \in BOOLEAN
  /\ att \in [Request ->
       [pc : Place, event : BOOLEAN, swept : BOOLEAN, registered : BOOLEAN,
        cancelled : BOOLEAN, role : {"none", "producer", "joiner"}, bound : BOOLEAN,
        published : BOOLEAN, finished : BOOLEAN, stop : BOOLEAN, broke : BOOLEAN]]

Online(a) == att[a].pc \in {"active", "opened", "prefilling", "prefilled", "decoding", "feeding"}

\* Whoever opens a session, prefills or decodes has the one turn, and whoever has
\* the turn, a seat, a claim on a prefix or a prefill of its own is an attempt
\* whose finally clauses will give it back (_events, enter).
OwnersUnwind ==
  \A a \in Request :
    /\ Online(a) => active = a
    /\ att[a].pc \in {"new", "over"} =>
         a \notin scopes /\ active # a /\ req[a].st # "held" /\ ~node[a].active

\* Claims and prefills on the shared memory are never held without a seat, so
\* the queue's bound is a bound on them too; a seat given up with the place in
\* the line would break it (retain_until_close).
SeatOutlivesClaim ==
  \A a \in Request : req[a].st = "held" \/ node[a].active => a \in scopes

\* No cancellation is lost between the event and the registration, and none
\* between the lookup and the binding: once PreparedCancellation.cancel has gone
\* through its attempts, a registered one is cancelled, and a cancelled one that
\* has no branch yet holds no claim (register, bind_prefix).
CancellationReaches ==
  \A a \in Request :
    /\ att[a].registered /\ att[a].swept => att[a].cancelled
    /\ att[a].cancelled /\ att[a].bound /\ req[a].st = "held" => req[a].lease

\* Whatever is owned has an owner that is still there to give it back, wherever
\* it is cancelled: turns, seats, claims and prefills as above, and the line of
\* the queue is exactly the attempts that wait in it (_events, enter, _release).
Ownership ==
  /\ AttemptsTypeOK /\ OwnersUnwind /\ SeatOutlivesClaim /\ CancellationReaches
  /\ Queue!LineIsTheWaiting /\ Queue!TurnHasSeat

\* The turn goes to the attempts in the order in which they became ready, and is
\* never taken from one, whoever leaves the line or closes the queue (_enter).
TurnsInOrder == Queue!FirstReadyFirstServed /\ Queue!TurnIsNotTaken

\* The others' prefill survives its caller: a prefill that somebody else still
\* waits for fails only if the producer itself breaks or the client stops, never
\* because its caller cancelled or closed its stream (_defer_cancel).
SharedPrefillSurvives ==
  [][ \A a, b \in Request :
        /\ a # b /\ req[b].st = "held" /\ req[b].node = a
        /\ node[a].status = "pending" /\ node'[a].status = "failed"
        => att[a].broke \/ att'[a].broke \/ closing ]_attemptVars

\* Nothing private is computed for a caller that left: once cancelled, or
\* draining its prefill for others, no token is fed back (close, check_cancelled).
NoPrivateDecode ==
  [][ \A a \in Request :
        att[a].pc # "feeding" /\ att'[a].pc = "feeding" => ~att[a].cancelled ]_attemptVars

\* A caller that left finishes the prefill others wait for, and nothing after it.
DepartedFinishes == SharedPrefillSurvives /\ NoPrivateDecode

\* Every response ends, whatever is cancelled, closed or broken meanwhile.
AttemptsEnd == \A a \in Request : att[a].pc # "new" ~> att[a].pc = "over"
=============================================================================
