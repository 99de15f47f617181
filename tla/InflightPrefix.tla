--------------------------- MODULE InflightPrefix ---------------------------
(***************************************************************************)
(* InflightPrefixOwner (runtime/inflight_prefix.py): requests of one       *)
(* client whose prompt starts with the whole prompt of a prefill that is   *)
(* still running join it instead of running their own.  The first request  *)
(* of a prompt is elected producer of a node; it publishes a snapshot (or  *)
(* fails) and must finish; every request of the node then copies its own   *)
(* branch and releases it.  Every method takes the owner's condition lock, *)
(* so a method is one step; only wait() gives the lock up.                 *)
(*                                                                         *)
(* A node is named by the request that produces it.  A prompt stands for   *)
(* binding, resources and tokens: one client derives the resources from    *)
(* the binding, so the key of the pending index tells as much as all of    *)
(* them.  Snapshots are what they are worth to others: present or erased.  *)
(***************************************************************************)
EXTENDS Integers, FiniteSets, FiniteSetsExt, SequencesExt

CONSTANTS
  Request,      \* request scopes, each used once
  Prompt,       \* token sequences
  NoNode,       \* the node of a request that was not admitted
  MaxRequests,  \* max_requests
  MaxNodes,     \* max_nodes
  MaxBytes,     \* max_bytes
  RowBytes,     \* kv_row_bytes
  LogitsBytes,  \* logits_bytes
  OverlapBytes  \* runtime_overlap_bytes

ASSUME OwnerBounds ==
  /\ MaxRequests \in Nat \ {0} /\ MaxNodes \in Nat \ {0} /\ MaxBytes \in Nat \ {0}
  /\ RowBytes \in Nat /\ LogitsBytes \in Nat /\ OverlapBytes \in Nat

ASSUME RequestsAndPrompts ==
  /\ NoNode \notin Request
  /\ Prompt \subseteq Seq(Nat) \ {<<>>}

VARIABLES
  req,      \* InflightRequest
  node,     \* _Node; `known' is membership in _nodes
  pending,  \* _pending: the nodes that can be joined
  closed,   \* _closed
  secret,   \* _secret has not been zeroized
  count,    \* _stats["requests"]
  reserved  \* _stats["reserved_bytes"]

vars == <<req, node, pending, closed, secret, count, reserved>>

\* `held' until released; `lease' is an own branch, `waiting' a thread in wait.
NoRequest ==
  [st |-> "new", node |-> NoNode, cancelled |-> FALSE, lease |-> FALSE, waiting |-> FALSE]

Unused ==
  [known |-> FALSE, prompt |-> <<>>, active |-> FALSE, status |-> "pending",
   cancel |-> FALSE, result |-> FALSE]

\* The producer of a new node, and a request that joined n.
NewNode(prompt) ==
  [known |-> TRUE, prompt |-> prompt, active |-> TRUE, status |-> "pending",
   cancel |-> FALSE, result |-> FALSE]

HeldFor(n) ==
  [st |-> "held", node |-> n, cancelled |-> FALSE, lease |-> FALSE, waiting |-> FALSE]

Init ==
  /\ req = [r \in Request |-> NoRequest]
  /\ node = [n \in Request |-> Unused]
  /\ pending = {}
  /\ closed = FALSE
  /\ secret = TRUE
  /\ count = 0
  /\ reserved = 0

-----------------------------------------------------------------------------
PayloadBytes(length) == length * RowBytes + LogitsBytes
ProducerBytes(length) == 2 * PayloadBytes(length) + OverlapBytes
BranchBytes(length) == PayloadBytes(length) + OverlapBytes

\* What a node reserves until it retires, and a request until its release.
NodeReservation(N, n) == ProducerBytes(Len(N[n].prompt))
RequestReservation(N, R, r) == BranchBytes(Len(N[R[r].node].prompt))

\* node.requests
Held(R, n) == {r \in Request : R[r].st = "held" /\ R[r].node = n}

\* The pending nodes whose whole prompt starts this one, and the longest.
Candidates(prompt) == {n \in pending : IsPrefix(node[n].prompt, prompt)}

Longest(n, prompt) ==
  /\ n \in Candidates(prompt)
  /\ \A m \in Candidates(prompt) : Len(node[m].prompt) <= Len(node[n].prompt)

\* Mutant of HasRoom: one request too many.
HasRoomForOneMore(bytes) == count <= MaxRequests /\ reserved + bytes <= MaxBytes

HasRoom(bytes) == count < MaxRequests /\ reserved + bytes <= MaxBytes

Admit(r, n, bytes) ==
  /\ req' = [req EXCEPT ![r] = HeldFor(n)]
  /\ count' = count + 1
  /\ reserved' = reserved + bytes

\* lookup_or_register joins the longest candidate if there is one ...
Join(r, n, prompt) ==
  /\ req[r].st = "new" /\ ~closed
  /\ Longest(n, prompt)
  /\ HasRoom(BranchBytes(Len(node[n].prompt)))
  /\ Admit(r, n, BranchBytes(Len(node[n].prompt)))
  /\ UNCHANGED <<node, pending, closed, secret>>

\* Mutant of Elect: the pending index is not consulted.
ElectAnyway(r, prompt) ==
  /\ req[r].st = "new" /\ ~closed
  /\ Cardinality({n \in Request : node[n].known}) < MaxNodes
  /\ HasRoom(BranchBytes(Len(prompt)) + ProducerBytes(Len(prompt)))
  /\ Admit(r, r, BranchBytes(Len(prompt)) + ProducerBytes(Len(prompt)))
  /\ node' = [node EXCEPT ![r] = NewNode(prompt)]
  /\ pending' = {n \in pending : node[n].prompt # prompt} \cup {r}
  /\ UNCHANGED <<closed, secret>>

\* ... and elects a producer otherwise.  (When there is no room it returns None,
\* and admit() may raise: neither changes anything.)
Elect(r, prompt) ==
  /\ req[r].st = "new" /\ ~closed
  /\ Candidates(prompt) = {}
  /\ Cardinality({n \in Request : node[n].known}) < MaxNodes
  /\ HasRoom(BranchBytes(Len(prompt)) + ProducerBytes(Len(prompt)))
  /\ Admit(r, r, BranchBytes(Len(prompt)) + ProducerBytes(Len(prompt)))
  /\ node' = [node EXCEPT ![r] = NewNode(prompt)]
  /\ pending' = {n \in pending : node[n].prompt # prompt} \cup {r}
  /\ UNCHANGED <<closed, secret>>

-----------------------------------------------------------------------------
(* _release and _retire, on the requests R and nodes N a method leaves.     *)

\* Mutant of Abandoned: a node counts as abandoned when its producer leaves.
AbandonedByProducer(R, N, M) == {n \in M : n \notin Held(R, n)}

\* Of the nodes M: those no request is interested in any more.
Abandoned(R, N, M) == {n \in M : Held(R, n) = {}}

\* ... and of those the ones whose producer has finished.
Retired(R, N, M) == {n \in Abandoned(R, N, M) : N[n].known /\ ~N[n].active}

\* The producer of an abandoned node is told to stop; a node without producer
\* and requests is erased.
Settled(R, N, M) ==
  [n \in Request |->
     IF n \in Retired(R, N, M) THEN Unused
     ELSE IF n \in Abandoned(R, N, M) /\ N[n].active THEN [N[n] EXCEPT !.cancel = TRUE]
     ELSE N[n]]

\* The last node is gone after close: the key is zeroized.
IsDrained(isClosed, N) == isClosed /\ \A n \in Request : ~N[n].known

SumOver(S, f(_)) == MapThenSumSet(f, S)

\* Requests Q are released in R; nodes M are looked at.
Settle(R, N, P, Q, M) ==
  LET release(r) == RequestReservation(N, req, r)
      retire(n) == NodeReservation(N, n)
  IN
  /\ req' = R
  /\ node' = Settled(R, N, M)
  /\ pending' = P \ Abandoned(R, N, M)
  /\ count' = count - Cardinality(Q)
  /\ reserved' = reserved - SumOver(Q, release) - SumOver(Retired(R, N, M), retire)
  /\ secret' = (secret /\ ~IsDrained(closed', Settled(R, N, M)))

\* Of a released request only a thread in wait is left.
ReleasedRequest(waiting) ==
  [st |-> "released", node |-> NoNode, cancelled |-> FALSE, lease |-> FALSE, waiting |-> waiting]

ReleaseAll(R, Q) ==
  [r \in Request |-> IF r \in Q THEN ReleasedRequest(R[r].waiting) ELSE R[r]]

\* _release
ReleaseOne(R, N, P, r) ==
  /\ UNCHANGED closed
  /\ Settle(ReleaseAll(R, {r}), N, P, {r}, {R[r].node})

Release(r) == req[r].st = "held" /\ ReleaseOne(req, node, pending, r)

\* _cancel: a request that has its branch keeps it.
CancelOne(R, r) ==
  LET C == [R EXCEPT ![r].cancelled = TRUE] IN
  /\ R[r].st = "held" /\ ~R[r].cancelled
  /\ IF R[r].lease
     THEN req' = C /\ UNCHANGED <<node, pending, closed, secret, count, reserved>>
     ELSE ReleaseOne(C, node, pending, r)

Cancel(r) == CancelOne(req, r)

-----------------------------------------------------------------------------
(* The producer.                                                           *)

Failed(N, n) == [N EXCEPT ![n].status = "failed"]

\* Mutant of Publish: the node stays in the index.
PublishIndexed(r) ==
  /\ node[r].known /\ node[r].active
  /\ node[r].status = "pending" /\ ~node[r].cancel
  /\ node' = [node EXCEPT ![r].status = "published", ![r].result = TRUE]
  /\ UNCHANGED <<req, pending, closed, secret, count, reserved>>

\* publish: the copy is kept if it validates.
Publish(r) ==
  /\ node[r].known /\ node[r].active
  /\ node[r].status = "pending" /\ ~node[r].cancel
  /\ \/ node' = [node EXCEPT ![r].status = "published", ![r].result = TRUE]
     \/ node' = Failed(node, r)
  /\ pending' = pending \ {r}
  /\ UNCHANGED <<req, closed, secret, count, reserved>>

Fail(r) ==
  /\ node[r].known /\ node[r].active
  /\ node' = Failed(node, r)
  /\ pending' = pending \ {r}
  /\ UNCHANGED <<req, closed, secret, count, reserved>>

\* Mutant of Finish: a producer that ends without a result says nothing.
FinishSilently(r) ==
  /\ node[r].active
  /\ UNCHANGED closed
  /\ Settle(req, [node EXCEPT ![r].active = FALSE], pending, {}, {r})

\* Mutant of Finish: the publication is erased with the producer's own copy.
FinishErases(r) ==
  /\ node[r].active
  /\ UNCHANGED closed
  /\ Settle(req, [node EXCEPT ![r].active = FALSE, ![r].result = FALSE,
                             ![r].status = IF @ = "pending" THEN "failed" ELSE @],
            pending \ {r}, {}, {r})

\* finish_producer: a producer that ends without a result has failed.
Finish(r) ==
  /\ node[r].active
  /\ UNCHANGED closed
  /\ Settle(req, [node EXCEPT ![r].active = FALSE,
                             ![r].status = IF @ = "pending" THEN "failed" ELSE @],
            pending \ {r}, {}, {r})

-----------------------------------------------------------------------------
(* wait().                                                                 *)

\* It returns or raises at once, or blocks; what happens at once and what
\* happens after the wait_for is the same, so Wake does it.
Wait(r) ==
  /\ req[r].st = "held" /\ ~req[r].cancelled /\ ~closed
  /\ ~req[r].lease /\ ~req[r].waiting
  /\ req' = [req EXCEPT ![r].waiting = TRUE]
  /\ UNCHANGED <<node, pending, closed, secret, count, reserved>>

IsOver(r) == req[r].st = "released" \/ req[r].cancelled \/ closed

Wake(r) ==
  LET n == req[r].node
      R == [req EXCEPT ![r].waiting = FALSE]
  IN
  /\ req[r].waiting
  /\ \/ /\ IsOver(r)
        /\ req' = R
        /\ UNCHANGED <<node, pending, closed, secret, count, reserved>>
     \/ /\ ~IsOver(r) /\ node[n].status = "failed"
        /\ ReleaseOne(R, node, pending, r)
     \/ /\ ~IsOver(r) /\ node[n].status = "published"
        /\ \/ /\ req' = [R EXCEPT ![r].lease = TRUE]
              /\ UNCHANGED <<node, pending, closed, secret, count, reserved>>
           \/ ReleaseOne(R, node, pending, r)                       \* copy failed
           \/ ReleaseOne(R, Failed(node, n), pending \ {n}, r)      \* result mutated

\* The deadline of a wait passes while the node is pending.
TimeOut(r) ==
  /\ req[r].waiting /\ ~IsOver(r)
  /\ node[req[r].node].status = "pending"
  /\ CancelOne([req EXCEPT ![r].waiting = FALSE], r)

\* close: every request is cancelled, every producer told to stop.
Close ==
  LET held == {r \in Request : req[r].st = "held"}
      Q == {r \in held : ~req[r].cancelled /\ ~req[r].lease}
      C == [r \in Request |-> IF r \in held THEN [req[r] EXCEPT !.cancelled = TRUE] ELSE req[r]]
      N == [n \in Request |-> [node[n] EXCEPT !.cancel = @ \/ (node[n].known /\ node[n].active)]]
      M == {n \in Request : node[n].known}
  IN
  /\ closed' = TRUE
  /\ Settle(ReleaseAll(C, Q), N, {}, Q, M)

-----------------------------------------------------------------------------
ProducerStep(r) == Publish(r) \/ Fail(r) \/ Finish(r)

Lookup(r) ==
  \E prompt \in Prompt : Elect(r, prompt) \/ \E n \in Request : Join(r, n, prompt)

Next ==
  \/ \E r \in Request :
       Lookup(r) \/ ProducerStep(r) \/ Wait(r) \/ Wake(r) \/ TimeOut(r) \/ Cancel(r) \/ Release(r)
  \/ Close

\* Producers finish and callers release what was cancelled, as the module's
\* contract demands of them; the condition wakes its waiters.
Fairness ==
  \A r \in Request :
    /\ WF_vars(Finish(r)) /\ WF_vars(Wake(r))
    /\ WF_vars(req[r].cancelled /\ Release(r))

Spec == Init /\ [][Next]_vars /\ Fairness
-----------------------------------------------------------------------------
(* Properties.                                                             *)

RequestRecord ==
  [st : {"new", "held", "released"}, node : Request \cup {NoNode},
   cancelled : BOOLEAN, lease : BOOLEAN, waiting : BOOLEAN]

NodeRecord ==
  [known : BOOLEAN, prompt : Prompt \cup {<<>>}, active : BOOLEAN,
   status : {"pending", "published", "failed"}, cancel : BOOLEAN, result : BOOLEAN]

\* Requests and nodes are well formed, and a held request has a known node.
TypeOK ==
  /\ req \in [Request -> RequestRecord]
  /\ node \in [Request -> NodeRecord]
  /\ pending \subseteq Request
  /\ closed \in BOOLEAN /\ secret \in BOOLEAN
  /\ \A r \in Request : req[r].st = "held" =>
       req[r].node \in Request /\ node[req[r].node].known

\* What can be joined is worth joining: a node in the pending index has an
\* unfinished producer that was not told to stop, no outcome yet, and some
\* request besides the one that joins (_unindex, _mark_failed, _release).
JoinableIsAlive ==
  \A n \in pending :
    /\ node[n].known /\ node[n].active /\ ~node[n].cancel
    /\ node[n].status = "pending"
    /\ Held(req, n) # {}

\* A prefill that still runs for somebody is never lost from the index, and two
\* joinable nodes never have the same prompt, so no prefill runs twice at once
\* (lookup_or_register).
RunningIsIndexed ==
  /\ \A n \in Request :
       /\ node[n].known /\ node[n].active /\ node[n].status = "pending"
       /\ ~node[n].cancel
       => n \in pending
  /\ \A m, n \in pending : node[m].prompt = node[n].prompt => m = n

\* A producer is told to stop only when nobody wants its prefill any more or
\* the client closes: cancelling one request never stops the others' work.
CancelOnlyAbandoned ==
  \A n \in Request : node[n].cancel => closed \/ Held(req, n) = {}

\* A published snapshot outlives every request that may still copy it or hold
\* a copy, and nothing of a retired node is left (_retire).
SnapshotOutlivesRequests ==
  \A n \in Request :
    /\ node[n].status = "published" /\ Held(req, n) # {} => node[n].result
    /\ ~node[n].known => ~node[n].result /\ Held(req, n) = {}

\* The counters are exact at every step and never pass their bounds: what
\* nodes and requests reserved is given back once, whichever of cancel,
\* time-out, failure, release, finish and close gives it back.
ReservationsAreExact ==
  LET known == {n \in Request : node[n].known}
      held == {r \in Request : req[r].st = "held"}
      nodeBytes(n) == NodeReservation(node, n)
      requestBytes(r) == RequestReservation(node, req, r)
  IN
  /\ count = Cardinality(held) /\ count <= MaxRequests
  /\ reserved = SumOver(known, nodeBytes) + SumOver(held, requestBytes)
  /\ reserved <= MaxBytes
  /\ Cardinality(known) <= MaxNodes

\* The commitment key is zeroized only after the last node is gone, and then
\* it is: nothing is committed under a zeroized key (_retire, close).
SecretOutlivesNodes == secret <=> ~(closed /\ \A n \in Request : ~node[n].known)

\* A request that waits returns or raises, once producers finish.
WaitersReturn == \A r \in Request : req[r].waiting ~> ~req[r].waiting

\* close() drains: once producers finish and cancelled branches are released,
\* nothing is left.
CloseDrains == closed ~> \A n \in Request : ~node[n].known

\* Nobody is left waiting: neither for a prefill nor in close().
NobodyIsStuck == WaitersReturn /\ CloseDrains
=============================================================================
