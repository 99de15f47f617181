------------------------ MODULE PreparationIssuance ------------------------
(***************************************************************************)
(* The client prepares one inventory (RuntimeClient._prepare_inventory,    *)
(* with run_preparation_window of runtime/preparation_window.py) against   *)
(* the preparation service and the inference service (PreparationService). *)
(* Stage jobs run in threads, at most Width at a time and within MaxBytes  *)
(* of declared work; the first failure cancels the inventory at both       *)
(* services, joins the threads and discards what they return.              *)
(*                                                                         *)
(* The client makes one authorize call and one call for each stage, with a *)
(* fresh attempt id: a stage stands for its call and its attempt.  A call  *)
(* that was posted may be handled at any time; the client may give up on   *)
(* any call, so what it does after a cancel may precede its arrival.       *)
(***************************************************************************)
EXTENDS Naturals, FiniteSets, FiniteSetsExt

CONSTANTS
  N,          \* stages, prepared in the order 1 .. N
  Cost,       \* preparation_job_work_bytes of each
  Width,      \* preparation_stage_window
  MaxBytes,   \* preparation_stage_window_bytes
  Prepared,   \* the inventory, its owner and its authorize call
  NoSession

Stages == 1 .. N

ASSUME WindowAssumption ==
  /\ N \in Nat \ {0} /\ Width \in 1 .. 4 /\ MaxBytes \in Nat
  /\ Cost \in [Stages -> Nat \ {0}]

VARIABLES
  registry, policy, auth, work, expected, held,
  pc,       \* where _prepare_inventory is
  next,     \* next_index
  job,      \* the future of each stage, and its PreparedStageRows
  posted,   \* calls on their way to or at the preparation service
  sent,     \* cancel and ready calls on their way
  handled,  \* those that arrived
  ready,    \* inference: session.inventory_ready
  stopping   \* client._closing

serviceVars == <<registry, policy, auth, work, expected, held>>
issueVars == <<registry, policy, auth, work, expected, held,
          pc, next, job, posted, sent, handled, ready, stopping>>

Service == INSTANCE PreparationService WITH
  Session <- {Prepared}, Owner <- {Prepared}, Authorization <- {Prepared},
  Stage <- Stages, Attempt <- Stages, Request <- Stages, Capacity <- 1

IssueInit ==
  /\ Service!Init
  /\ pc = "created" /\ next = 1 /\ job = [s \in Stages |-> "new"]
  /\ posted = {} /\ sent = {} /\ handled = {}
  /\ ready = FALSE /\ stopping = FALSE

-----------------------------------------------------------------------------
(* The jobs: prepare_stage in the threads of the pool.                     *)

Becomes(s, state) == job' = [job EXCEPT ![s] = state]

Pending == {s \in Stages : job[s] \in {"submitted", "running", "returned", "raised"}}

\* A fresh seed and attempt id, and the call.
Run(s) ==
  /\ job[s] = "submitted"
  /\ IF stopping
     THEN Becomes(s, "raised") /\ UNCHANGED posted
     ELSE Becomes(s, "running") /\ posted' = posted \cup {s}
  /\ UNCHANGED <<serviceVars, pc, next, sent, handled, ready, stopping>>

\* The acknowledgement is for this attempt and stage.
Return(s) ==
  /\ job[s] = "running" /\ work[s].pc = "done"
  /\ Becomes(s, "returned")
  /\ UNCHANGED <<serviceVars, pc, next, posted, sent, handled, ready, stopping>>

\* The call fails or times out, or its verification material does not fit.
Raise(s) ==
  /\ job[s] = "running"
  /\ Becomes(s, "raised")
  /\ UNCHANGED <<serviceVars, pc, next, posted, sent, handled, ready, stopping>>

-----------------------------------------------------------------------------
(* _prepare_inventory and run_preparation_window.                          *)

Proceeds(from, to) ==
  /\ pc = from /\ pc' = to
  /\ UNCHANGED <<serviceVars, next, ready, handled, stopping>>

Post ==
  /\ Proceeds("created", "authorizing")
  /\ posted' = posted \cup {Prepared}
  /\ UNCHANGED <<job, sent>>

\* validate_preparation_window: stages that are prepared one by one need no window.
Admitted == Width = 1 \/ \A s \in Stages : Cost[s] <= MaxBytes

Authorized ==
  /\ auth[Prepared].pc = "done" /\ Admitted
  /\ Proceeds("authorizing", "check")
  /\ UNCHANGED <<job, posted, sent>>

\* The descriptor does not match, the call fails, or a job is refused by the window.
AuthorizationRaises ==
  /\ \E from \in {"created", "authorizing"} : Proceeds(from, "unwind")
  /\ UNCHANGED <<job, posted, sent>>

\* The head of the loop.
Check ==
  /\ Pending # {} \/ next <= N
  /\ Proceeds("check", IF stopping THEN "abort" ELSE "fill")
  /\ UNCHANGED <<job, posted, sent>>

\* The declared work of the pending jobs.
Retained == MapThenSumSet(LAMBDA s : Cost[s], Pending)

\* Mutant of Fits: an item that fills the window never fits.
FitsBelow ==
  /\ Cardinality(Pending) < Width /\ next <= N
  /\ Retained + Cost[next] < MaxBytes

Fits ==
  /\ Cardinality(Pending) < Width /\ next <= N
  /\ Width = 1 \/ Retained + Cost[next] <= MaxBytes

SubmitStage ==
  /\ pc = "fill" /\ Fits
  /\ Becomes(next, "submitted")
  /\ next' = next + 1
  /\ UNCHANGED <<serviceVars, pc, posted, sent, handled, ready, stopping>>

Filled ==
  /\ ~Fits
  /\ Proceeds("fill", "collect")
  /\ UNCHANGED <<job, posted, sent>>

\* wait() returned; a future is looked at.
AcceptRows(s) ==
  /\ job[s] = "returned" /\ ~stopping
  /\ Proceeds("collect", "collect")
  /\ Becomes(s, "accepted")
  /\ UNCHANGED <<posted, sent>>

Failed(s) ==
  /\ job[s] = "raised" \/ (job[s] = "returned" /\ stopping)
  /\ Proceeds("collect", "abort")
  /\ UNCHANGED <<job, posted, sent>>

\* wait() timed out, or its futures are done with.  With a width of 1 there is no
\* wait(): the thread runs its job itself, and looks up only between two jobs.
Collected ==
  /\ Width = 1 => Pending = {}
  /\ Proceeds("collect", "check")
  /\ UNCHANGED <<job, posted, sent>>

\* Mutant of Finished: the window is done once everything was submitted.
FinishedSubmitting ==
  /\ next > N
  /\ Proceeds("check", "sealing")
  /\ sent' = sent \cup {"ready"}
  /\ UNCHANGED <<job, posted>>

\* The window is done and the inventory is to be sealed.
Finished ==
  /\ Pending = {} /\ next > N
  /\ Proceeds("check", "sealing")
  /\ sent' = sent \cup {"ready"}
  /\ UNCHANGED <<job, posted>>

\* Futures that did not start are cancelled; then abort() is cancel_remote.
Abort ==
  /\ Proceeds("abort", "join")
  /\ job' = [s \in Stages |-> IF job[s] = "submitted" THEN "dropped" ELSE job[s]]
  /\ sent' = sent \cup {"inference", "preparation"}
  /\ UNCHANGED posted

\* pool.shutdown(wait=True), then discard of what they returned.
Join ==
  /\ \A s \in Stages : job[s] \notin {"submitted", "running"}
  /\ Proceeds("join", "unwind")
  /\ job' = [s \in Stages |-> IF job[s] = "returned" THEN "discarded" ELSE job[s]]
  /\ UNCHANGED <<posted, sent>>

Sealed ==
  /\ ready /\ "ready" \in handled
  /\ Proceeds("sealing", "ready")
  /\ UNCHANGED <<job, posted, sent>>

SealRaises ==
  /\ Proceeds("sealing", "unwind")
  /\ UNCHANGED <<job, posted, sent>>

\* The outer handler: cancel_remote (again), and cancel() of what was accepted.
Unwind ==
  /\ Proceeds("unwind", "failed")
  /\ job' = [s \in Stages |-> IF job[s] = "accepted" THEN "discarded" ELSE job[s]]
  /\ sent' = sent \cup {"inference", "preparation"}
  /\ UNCHANGED posted

\* _stop_prepared_admission, for a session that could not be cancelled.
StopClient ==
  /\ ~stopping /\ pc \notin {"ready", "failed"}
  /\ stopping' = TRUE
  /\ UNCHANGED <<serviceVars, pc, next, job, posted, sent, handled, ready>>

-----------------------------------------------------------------------------
(* The services.                                                           *)

\* A cancel may be repeated; the second does nothing the first did not.
ArriveCancel ==
  /\ \/ /\ "inference" \in sent
        /\ expected[Prepared] # "over" /\ Service!CancelInference(Prepared)
        /\ handled' = handled \cup {"inference"}
     \/ /\ "preparation" \in sent
        /\ registry[Prepared] # NoSession /\ Service!CancelPreparation(Prepared, Prepared)
        /\ handled' = handled \cup {"preparation"}
  /\ UNCHANGED <<pc, next, job, posted, sent, ready, stopping>>

\* seal_prepared_inventory
ArriveReady ==
  /\ "ready" \in sent \ handled
  /\ handled' = handled \cup {"ready"}
  /\ ready' = (expected[Prepared] # "over" /\ held = Stages)
  /\ UNCHANGED <<serviceVars, pc, next, job, posted, sent, stopping>>

\* The handlers of the preparation service, for calls the client made.
Handlers ==
  \/ /\ Prepared \in posted
     /\ \/ Service!Reserve(Prepared, Prepared, Prepared)
        \/ Service!ReserveRefused(Prepared, Prepared)
        \/ Service!Authorize(Prepared) \/ Service!Activate(Prepared)
        \/ Service!AuthorizeRaises(Prepared)
  \/ \E s \in posted \ {Prepared} :
        \/ Service!Hydrate(s, Prepared, Prepared, s, s)
        \/ Service!HydrateRefused(s, Prepared, Prepared)
        \/ Service!Consume(s) \/ Service!Push(s) \/ Service!RequestRaises(s)
        \/ Service!Accept(s) \/ Service!Acknowledge(s)

Serve ==
  /\ Handlers
  /\ UNCHANGED <<pc, next, job, posted, sent, handled, ready, stopping>>

\* Either service forgets an idle session.
ForgetIdle ==
  /\ Service!Cleanup(Prepared) \/ Service!CancelInference(Prepared)
  /\ UNCHANGED <<pc, next, job, posted, sent, handled, ready, stopping>>

-----------------------------------------------------------------------------
Main ==
  \/ Post \/ Authorized \/ AuthorizationRaises \/ Check \/ SubmitStage \/ Filled \/ Collected
  \/ (\E s \in Stages : AcceptRows(s) \/ Failed(s))
  \/ Finished \/ Abort \/ Join \/ Sealed \/ SealRaises \/ Unwind

IssueNext ==
  \/ Main
  \/ \E s \in Stages : Run(s) \/ Return(s) \/ Raise(s)
  \/ StopClient \/ ArriveCancel \/ ArriveReady \/ Serve \/ ForgetIdle

\* Threads run, and wait() returns the futures that are done.
IssueFairness ==
  /\ WF_issueVars(Main)
  /\ \A s \in Stages :
       /\ WF_issueVars(Run(s)) /\ WF_issueVars(Return(s) \/ Raise(s))
       /\ SF_issueVars(AcceptRows(s) \/ Failed(s))

IssueSpec == IssueInit /\ [][IssueNext]_issueVars /\ IssueFairness
-----------------------------------------------------------------------------
(* Properties.                                                             *)

IssueTypeOK ==
  /\ Service!TypeOK
  /\ pc \in {"created", "authorizing", "check", "fill", "collect", "abort", "join",
             "sealing", "unwind", "ready", "failed"}
  /\ next \in 1 .. N + 1
  /\ job \in [Stages -> {"new", "submitted", "running", "returned", "raised", "accepted",
                         "dropped", "discarded"}]
  /\ posted \subseteq Stages \cup {Prepared}
  /\ sent \subseteq {"inference", "preparation", "ready"} /\ handled \subseteq sent
  /\ ready \in BOOLEAN /\ stopping \in BOOLEAN

\* An inventory the client hands out is whole on both sides: it has the rows of
\* every stage, the inference service has every correction and committed to them,
\* or has ended the session; and no cancel of it is on its way.
HandedOutWhole ==
  pc = "ready" =>
    /\ \A s \in Stages : job[s] = "accepted"
    /\ expected[Prepared] = "authorized" => held = Stages /\ ready
    /\ sent = {"ready"}

\* A failed preparation leaves no thread and no live seed behind, also of a job
\* that returned while the inventory was being cancelled (abort, discard).
NothingLive ==
  pc = "failed" => \A s \in Stages : job[s] \in {"new", "dropped", "raised", "discarded"}

\* However preparation ends, it ends clean on both sides: handed out whole, or
\* with nothing live; and the services agree on what is held (_prepare_inventory).
EndsClean == IssueTypeOK /\ HandedOutWhole /\ NothingLive /\ Service!HeldIsAuthorized

\* Preparation ends, whatever fails, is lost or is closed, and however the work
\* bound holds stages back.
IssuanceEnds == pc = "created" ~> pc \in {"ready", "failed"}
=============================================================================
