------------------------ MODULE InflightPrefix_proofs ------------------------
(***************************************************************************)
(* Proofs about InflightPrefix, for any number of requests, any prompts    *)
(* and any bounds: the pending index holds exactly the prefills that are   *)
(* worth joining, one per prompt; a producer is stopped only when nobody   *)
(* is left; a published snapshot outlives its readers; and the key its     *)
(* commitments are made with outlives the nodes; the counters of requests  *)
(* and bytes are exact and within their bounds; and, about                 *)
(* PreparedAttempts, whatever an attempt owns has an owner that gives it   *)
(* back, the turns go round in order, and a caller that left finishes the  *)
(* prefill the others wait for, and nothing after it.                      *)
(*                                                                         *)
(* The invariant is stated for requests R, nodes N, index P and flag c,    *)
(* because release, cancel, finish and close all end in Settle, applied to *)
(* tables that do not satisfy all of it yet: one lemma says what Settle    *)
(* needs and what it restores.                                             *)
(***************************************************************************)
EXTENDS PreparedAttempts, SumTheorems, TLAPS

WellFormed(R, N, P) ==
  /\ R \in [Request -> RequestRecord]
  /\ N \in [Request -> NodeRecord]
  /\ P \subseteq Request
  /\ \A r \in Request : R[r].st = "held" => R[r].node \in Request /\ N[R[r].node].known
  /\ \A r \in Request : R[r].waiting => R[r].st # "new"

IsRunning(x) == x.known /\ x.active /\ x.status = "pending" /\ ~x.cancel

Consistent(R, N, P) ==
  /\ \A n \in Request : ~N[n].known => N[n] = Unused
  /\ \A n \in Request : N[n].status = "published" => N[n].result
  /\ \A n \in Request : n \in P <=> IsRunning(N[n])
  /\ \A m, n \in P : N[m].prompt = N[n].prompt => m = n
  /\ \A r \in Request : R[r].st = "new" => ~N[r].known

\* Outside M, what can be joined has a request; what has one is not stopped.
Wanted(R, N, P, c, M) ==
  /\ \A n \in P \ M : Held(R, n) # {}
  /\ \A n \in Request : N[n].cancel => c \/ Held(R, n) = {}

IInv ==
  /\ WellFormed(req, node, pending)
  /\ Consistent(req, node, pending)
  /\ Wanted(req, node, pending, closed, {})
  /\ closed \in BOOLEAN /\ secret \in BOOLEAN
  /\ secret <=> ~IsDrained(closed, node)

\* A stopped node differs from the node in its cancel flag only.
LEMMA StoppedNode ==
  ASSUME NEW x \in NodeRecord
  PROVE  LET y == [x EXCEPT !.cancel = TRUE]
         IN  /\ y \in NodeRecord /\ y.cancel /\ y.known = x.known /\ y.active = x.active
             /\ y.status = x.status /\ y.result = x.result /\ y.prompt = x.prompt
BY DEF NodeRecord

\* Settle restores the invariant: nodes of M that nobody holds leave the index,
\* are told to stop, or retire (_release, _retire).
LEMMA SettleRestores ==
  ASSUME NEW R, NEW N, NEW P, NEW c, NEW M \in SUBSET Request,
         WellFormed(R, N, P), Consistent(R, N, P), Wanted(R, N, P, c, M)
  PROVE  LET S == Settled(R, N, M)
             Q == P \ Abandoned(R, N, M)
         IN  /\ WellFormed(R, S, Q)
             /\ Consistent(R, S, Q)
             /\ Wanted(R, S, Q, c, {})
             /\ \A n \in Request : S[n].known => N[n].known
<1> DEFINE S == Settled(R, N, M)
           Q == P \ Abandoned(R, N, M)
<1> DEFINE T(n) == [N[n] EXCEPT !.cancel = TRUE]
<1>1. \A n \in Request :
        \/ n \in Abandoned(R, N, M) /\ N[n].known /\ ~N[n].active /\ S[n] = Unused
        \/ n \in Abandoned(R, N, M) /\ N[n].active /\ S[n] = T(n)
        \/ n \in Abandoned(R, N, M) /\ ~N[n].known /\ ~N[n].active /\ S[n] = N[n]
        \/ n \notin Abandoned(R, N, M) /\ S[n] = N[n]
  BY DEF Settled, Retired, WellFormed, NodeRecord
<1>2. \A n \in Abandoned(R, N, M) : n \in Request /\ Held(R, n) = {}
  BY DEF Abandoned
<1>3. \A n \in M : n \notin Abandoned(R, N, M) => Held(R, n) # {}
  BY DEF Abandoned
<1>4. /\ Unused \in NodeRecord /\ ~Unused.known /\ ~Unused.active /\ ~Unused.cancel
      /\ Unused.status = "pending"
  BY DEF Unused, NodeRecord
<1>5. \A n \in Request :
        /\ N[n] \in NodeRecord /\ T(n) \in NodeRecord
        /\ T(n).cancel /\ T(n).known = N[n].known /\ T(n).active = N[n].active
        /\ T(n).status = N[n].status /\ T(n).result = N[n].result /\ T(n).prompt = N[n].prompt
  BY StoppedNode DEF WellFormed
<1> HIDE DEF S, T
<1>6. \A n \in Request : S[n] \in NodeRecord /\ (S[n].known => N[n].known)
  BY <1>1, <1>4, <1>5
<1>7. \A n \in Request : S[n].known =>
        /\ S[n].status = N[n].status /\ S[n].result = N[n].result
        /\ S[n].active = N[n].active /\ S[n].prompt = N[n].prompt
  BY <1>1, <1>4, <1>5
<1>8. WellFormed(R, S, Q)
  <2>1. S = [n \in Request |-> S[n]]
    BY DEF Settled, S
  <2>2. \A r \in Request : R[r].st = "held" => R[r].node \in Request /\ S[R[r].node].known
    <3> SUFFICES ASSUME NEW r \in Request, R[r].st = "held"
                 PROVE  R[r].node \in Request /\ S[R[r].node].known
      OBVIOUS
    <3>1. R[r].node \in Request /\ N[R[r].node].known /\ r \in Held(R, R[r].node)
      BY DEF WellFormed, Held
    <3>2. R[r].node \notin Abandoned(R, N, M)
      BY <3>1, <1>2
    <3>3. S[R[r].node] = N[R[r].node]
      BY <3>1, <3>2, <1>1
    <3> QED BY <3>1, <3>3
  <2> QED BY <1>6, <2>1, <2>2 DEF WellFormed
<1>9. Consistent(R, S, Q)
  <2>1. \A n \in Request : ~S[n].known => S[n] = Unused
    BY <1>1, <1>4, <1>5 DEF Consistent
  <2>2. \A n \in Request : S[n].status = "published" => S[n].result
    BY <1>7, <2>1, <1>4 DEF Consistent
  <2>3. \A n \in Request : n \in Q <=> IsRunning(S[n])
    BY <1>1, <1>4, <1>5 DEF Consistent, IsRunning
  <2>4. \A m, n \in Q : S[m].prompt = S[n].prompt => m = n
    BY <2>3, <1>7 DEF Consistent, WellFormed, IsRunning
  <2>5. \A r \in Request : R[r].st = "new" => ~S[r].known
    BY <1>6 DEF Consistent
  <2> QED BY <2>1, <2>2, <2>3, <2>4, <2>5 DEF Consistent
<1>10. Wanted(R, S, Q, c, {})
  <2>1. \A n \in Q : Held(R, n) # {}
    BY <1>3 DEF Wanted
  <2>2. \A n \in Request : S[n].cancel => c \/ Held(R, n) = {}
    BY <1>1, <1>2, <1>4, <1>5 DEF Wanted
  <2> QED BY <2>1, <2>2 DEF Wanted
<1> QED BY <1>6, <1>8, <1>9, <1>10 DEF S

\* The invariant of the next state, from its parts.
LEMMA InvariantNext ==
  ASSUME WellFormed(req', node', pending'), Consistent(req', node', pending'),
         Wanted(req', node', pending', closed', {}),
         closed' \in BOOLEAN, secret' \in BOOLEAN,
         secret' <=> ~IsDrained(closed', node')
  PROVE  IInv'
BY DEF IInv, WellFormed, Consistent, Wanted, IsDrained, IsRunning, Held, Unused

\* A step that ends in Settle keeps the invariant, if it adds no node and does
\* not reopen the owner.
LEMMA SettleStep ==
  ASSUME NEW R, NEW N, NEW P, NEW Q, NEW M \in SUBSET Request,
         IInv, Settle(R, N, P, Q, M),
         WellFormed(R, N, P), Consistent(R, N, P), Wanted(R, N, P, closed', M),
         closed' \in BOOLEAN, closed => closed',
         \A n \in Request : N[n].known => node[n].known
  PROVE  IInv'
<1>1. /\ req' = R /\ node' = Settled(R, N, M) /\ pending' = P \ Abandoned(R, N, M)
      /\ secret' = (secret /\ ~IsDrained(closed', node'))
  BY DEF Settle
<1>2. /\ WellFormed(req', node', pending') /\ Consistent(req', node', pending')
      /\ Wanted(req', node', pending', closed', {})
      /\ \A n \in Request : node'[n].known => N[n].known
  BY <1>1, SettleRestores
<1>3. IsDrained(closed, node) => IsDrained(closed', node')
  BY <1>2 DEF IsDrained
<1>4. secret' \in BOOLEAN /\ (secret' <=> ~IsDrained(closed', node'))
  BY <1>1, <1>3 DEF IInv
<1> QED BY <1>2, <1>4, InvariantNext

\* Releasing a request leaves the invariant to be restored at its node only.
LEMMA ReleaseKeeps ==
  ASSUME NEW R, NEW N, NEW P, NEW c, NEW r \in Request,
         WellFormed(R, N, P), Consistent(R, N, P), Wanted(R, N, P, c, {}),
         R[r].st = "held"
  PROVE  LET S == ReleaseAll(R, {r})
         IN  /\ WellFormed(S, N, P) /\ Consistent(S, N, P)
             /\ Wanted(S, N, P, c, {R[r].node})
<1> DEFINE S == ReleaseAll(R, {r})
<1>1. /\ S = [q \in Request |-> S[q]]
      /\ S[r] = ReleasedRequest(R[r].waiting)
      /\ \A q \in Request \ {r} : S[q] = R[q]
  BY DEF ReleaseAll
<1> HIDE DEF S
<1>2. S[r] \in RequestRecord /\ S[r].st = "released"
  <2>1. R[r].waiting \in BOOLEAN
    BY DEF WellFormed, RequestRecord
  <2>2. \A w \in BOOLEAN : ReleasedRequest(w) \in RequestRecord /\ ReleasedRequest(w).st = "released"
    BY DEF ReleasedRequest, RequestRecord
  <2> QED BY <1>1, <2>1, <2>2
<1>3. WellFormed(S, N, P)
  BY <1>1, <1>2 DEF WellFormed
<1>4. Consistent(S, N, P)
  BY <1>1, <1>2 DEF Consistent
<1>5. \A n : Held(S, n) = Held(R, n) \ {r}
  BY <1>1, <1>2 DEF Held
<1>6. \A n : n # R[r].node => Held(S, n) = Held(R, n)
  BY <1>5 DEF Held
<1>7. Wanted(S, N, P, c, {R[r].node})
  <2>1. \A n \in P \ {R[r].node} : Held(S, n) # {}
    BY <1>6 DEF Wanted
  <2>2. \A n \in Request : N[n].cancel => c \/ Held(S, n) = {}
    BY <1>5 DEF Wanted
  <2> QED BY <2>1, <2>2 DEF Wanted
<1> QED BY <1>3, <1>4, <1>7 DEF S

\* A release keeps the invariant, from any tables that satisfy it (_release).
LEMMA ReleaseStep ==
  ASSUME NEW R, NEW N, NEW P, NEW r \in Request,
         IInv, ReleaseOne(R, N, P, r), R[r].st = "held",
         WellFormed(R, N, P), Consistent(R, N, P), Wanted(R, N, P, closed, {}),
         \A n \in Request : N[n].known => node[n].known
  PROVE  IInv'
<1> DEFINE S == ReleaseAll(R, {r})
<1>1. closed' = closed /\ Settle(S, N, P, {r}, {R[r].node})
  BY DEF ReleaseOne
<1>2. {R[r].node} \in SUBSET Request
  BY DEF WellFormed
<1>3. /\ WellFormed(S, N, P) /\ Consistent(S, N, P)
      /\ Wanted(S, N, P, closed', {R[r].node})
  BY <1>1, ReleaseKeeps
<1> HIDE DEF S
<1>4. closed' \in BOOLEAN
  BY <1>1 DEF IInv
<1> QED BY <1>1, <1>2, <1>3, <1>4, SettleStep
-----------------------------------------------------------------------------
(* One lemma per kind of step.                                             *)

\* Requests change in what Held does not look at: wait, its wake-up, cancel.
LEMMA RequestOnlyStep ==
  ASSUME IInv, NEW r \in Request, NEW x \in RequestRecord,
         req' = [req EXCEPT ![r] = x],
         x.st = req[r].st, x.node = req[r].node, x.waiting => x.st # "new",
         UNCHANGED <<node, pending, closed, secret>>
  PROVE  IInv'
<1>1. /\ req' \in [Request -> RequestRecord]
      /\ \A q \in Request : req'[q].st = req[q].st /\ req'[q].node = req[q].node
      /\ \A q \in Request : req'[q].waiting => req'[q].st # "new"
  BY DEF IInv, WellFormed
<1>2. \A n : Held(req', n) = Held(req, n)
  BY <1>1 DEF Held
<1>3. WellFormed(req', node', pending')
  BY <1>1 DEF IInv, WellFormed
<1>4. Consistent(req', node', pending')
  BY <1>1 DEF IInv, Consistent
<1>5. Wanted(req', node', pending', closed', {})
  BY <1>2 DEF IInv, Wanted
<1>6. closed' \in BOOLEAN /\ secret' \in BOOLEAN /\ (secret' <=> ~IsDrained(closed', node'))
  BY DEF IInv
<1> QED BY <1>3, <1>4, <1>5, <1>6, InvariantNext

\* lookup_or_register admits the request, to n.
LEMMA JoinStep ==
  ASSUME IInv, NEW r \in Request, NEW n \in Request, NEW prompt, Join(r, n, prompt)
  PROVE  IInv'
<1>1. /\ req' = [req EXCEPT ![r] = HeldFor(n)] /\ req[r].st = "new" /\ n \in pending
      /\ UNCHANGED <<node, pending, closed, secret>>
  BY DEF Join, Admit, Longest, Candidates
<1>2. HeldFor(n) \in RequestRecord /\ HeldFor(n).st = "held" /\ HeldFor(n).node = n
  BY DEF HeldFor, RequestRecord
<1>3. node[n].known /\ ~node[n].cancel
  BY <1>1 DEF IInv, Consistent, IsRunning
<1>4. \A m : Held(req, m) \subseteq Held(req', m) /\ (m # n => Held(req', m) = Held(req, m))
  BY <1>1, <1>2 DEF Held, IInv, WellFormed
<1>5. WellFormed(req', node', pending')
  BY <1>1, <1>2, <1>3 DEF IInv, WellFormed
<1>6. Consistent(req', node', pending')
  BY <1>1, <1>2 DEF IInv, Consistent, WellFormed
<1>7. Wanted(req', node', pending', closed', {})
  BY <1>1, <1>3, <1>4 DEF IInv, Wanted
<1>8. closed' \in BOOLEAN /\ secret' \in BOOLEAN /\ (secret' <=> ~IsDrained(closed', node'))
  BY <1>1 DEF IInv
<1> QED BY <1>5, <1>6, <1>7, <1>8, InvariantNext

\* lookup_or_register elects r to produce a prompt nobody produces.
LEMMA ElectStep ==
  ASSUME IInv, NEW r \in Request, NEW prompt \in Prompt, Elect(r, prompt)
  PROVE  IInv'
<1>1. /\ req' = [req EXCEPT ![r] = HeldFor(r)] /\ req[r].st = "new" /\ ~closed
      /\ node' = [node EXCEPT ![r] = NewNode(prompt)]
      /\ pending' = {n \in pending : node[n].prompt # prompt} \cup {r}
      /\ Candidates(prompt) = {}
      /\ UNCHANGED <<closed, secret>>
  BY DEF Elect, Admit
<1>2. HeldFor(r) \in RequestRecord /\ HeldFor(r).st = "held" /\ HeldFor(r).node = r
  BY DEF HeldFor, RequestRecord
<1>3. /\ NewNode(prompt) \in NodeRecord /\ IsRunning(NewNode(prompt))
      /\ NewNode(prompt).known /\ NewNode(prompt).status # "published"
      /\ NewNode(prompt).prompt = prompt
      /\ ~NewNode(prompt).cancel
  BY DEF NewNode, NodeRecord, IsRunning
<1>4. r \notin pending
  BY <1>1 DEF IInv, Consistent, IsRunning
<1>5. IsPrefix(prompt, prompt)
  <2>1. prompt \in Seq(Nat)
    BY RequestsAndPrompts
  <2> QED BY <2>1 DEF IsPrefix
<1>6. \A n \in pending : node[n].prompt # prompt
  BY <1>1, <1>5 DEF Candidates
<1>7. pending' = pending \cup {r}
  BY <1>1, <1>6
<1>8. \A m : Held(req, m) \subseteq Held(req', m) /\ (m # r => Held(req', m) = Held(req, m))
  BY <1>1, <1>2 DEF Held, IInv, WellFormed
<1>9. r \in Held(req', r)
  BY <1>1, <1>2 DEF Held, IInv, WellFormed
<1>10. /\ node' \in [Request -> NodeRecord] /\ node'[r] = NewNode(prompt)
       /\ \A n \in Request \ {r} : node'[n] = node[n]
  BY <1>1, <1>3 DEF IInv, WellFormed
<1>11. /\ req' \in [Request -> RequestRecord] /\ req'[r] = HeldFor(r)
       /\ \A q \in Request \ {r} : req'[q] = req[q]
  BY <1>1, <1>2 DEF IInv, WellFormed
<1>12. WellFormed(req', node', pending')
  <2>1. pending' \subseteq Request
    BY <1>7 DEF IInv, WellFormed
  <2>2. \A q \in Request : req'[q].st = "held" =>
          req'[q].node \in Request /\ node'[req'[q].node].known
    BY <1>2, <1>3, <1>10, <1>11 DEF IInv, WellFormed
  <2>3. \A q \in Request : req'[q].waiting => req'[q].st # "new"
    BY <1>2, <1>11 DEF IInv, WellFormed
  <2> QED BY <1>10, <1>11, <2>1, <2>2, <2>3 DEF WellFormed
<1>13. Consistent(req', node', pending')
  <2>1. \A n \in Request : ~node'[n].known => node'[n] = Unused
    BY <1>3, <1>10 DEF IInv, Consistent
  <2>2. \A n \in Request : node'[n].status = "published" => node'[n].result
    BY <1>3, <1>10 DEF IInv, Consistent
  <2>3. \A n \in Request : n \in pending' <=> IsRunning(node'[n])
    BY <1>3, <1>7, <1>10 DEF IInv, Consistent
  <2>4. \A m, n \in pending' : node'[m].prompt = node'[n].prompt => m = n
    BY <1>3, <1>6, <1>7, <1>10 DEF IInv, Consistent, WellFormed
  <2>5. \A q \in Request : req'[q].st = "new" => ~node'[q].known
    BY <1>2, <1>10, <1>11 DEF IInv, Consistent
  <2> QED BY <2>1, <2>2, <2>3, <2>4, <2>5 DEF Consistent
<1>14. Wanted(req', node', pending', closed', {})
  <2>1. \A n \in pending' : Held(req', n) # {}
    BY <1>7, <1>8, <1>9 DEF IInv, Wanted
  <2>2. \A n \in Request : node'[n].cancel => closed' \/ Held(req', n) = {}
    BY <1>1, <1>3, <1>8, <1>10 DEF IInv, Wanted
  <2> QED BY <2>1, <2>2 DEF Wanted
<1>15. closed' \in BOOLEAN /\ secret' \in BOOLEAN /\ (secret' <=> ~IsDrained(closed', node'))
  BY <1>1 DEF IInv, IsDrained
<1> QED BY <1>12, <1>13, <1>14, <1>15, InvariantNext

\* publish and fail: the node of r has an outcome and leaves the index.
LEMMA OutcomeStep ==
  ASSUME IInv, NEW r \in Request, NEW x \in NodeRecord,
         node[r].known, x.known, x.status # "pending",
         x.status = "published" => x.result,
         x.cancel = node[r].cancel,
         node' = [node EXCEPT ![r] = x], pending' = pending \ {r},
         UNCHANGED <<req, closed, secret>>
  PROVE  IInv'
<1>1. /\ node' \in [Request -> NodeRecord] /\ node'[r] = x
      /\ \A n \in Request \ {r} : node'[n] = node[n]
  BY DEF IInv, WellFormed
<1>2. WellFormed(req', node', pending')
  BY <1>1 DEF IInv, WellFormed
<1>3. Consistent(req', node', pending')
  <2>1. \A n \in Request : n \in pending' <=> IsRunning(node'[n])
    BY <1>1 DEF IInv, Consistent, IsRunning
  <2>2. \A m, n \in pending' : node'[m].prompt = node'[n].prompt => m = n
    BY <1>1 DEF IInv, Consistent, WellFormed
  <2> QED BY <1>1, <2>1, <2>2 DEF IInv, Consistent
<1>4. Wanted(req', node', pending', closed', {})
  BY <1>1 DEF IInv, Wanted
<1>5. closed' \in BOOLEAN /\ secret' \in BOOLEAN /\ (secret' <=> ~IsDrained(closed', node'))
  BY <1>1 DEF IInv, IsDrained
<1> QED BY <1>2, <1>3, <1>4, <1>5, InvariantNext

\* A node that failed, as Publish, Fail and Wake leave it.
LEMMA FailedNode ==
  ASSUME NEW x \in NodeRecord
  PROVE  LET y == [x EXCEPT !.status = "failed"]
         IN  /\ y \in NodeRecord /\ y.status = "failed" /\ y.known = x.known
             /\ y.active = x.active /\ y.cancel = x.cancel /\ y.result = x.result
             /\ y.prompt = x.prompt
BY DEF NodeRecord

\* publish keeps the invariant, whether the copy validates or not.
LEMMA PublishStep ==
  ASSUME IInv, NEW r \in Request, Publish(r)
  PROVE  IInv'
<1>1. node[r] \in NodeRecord /\ node[r].known /\ pending' = pending \ {r}
        /\ UNCHANGED <<req, closed, secret>>
  BY DEF Publish, IInv, WellFormed
<1>2. CASE node' = Failed(node, r)
  <2> DEFINE x == [node[r] EXCEPT !.status = "failed"]
  <2>1. node' = [node EXCEPT ![r] = x]
    BY <1>2 DEF Failed, IInv, WellFormed
  <2>2. x \in NodeRecord /\ x.known /\ x.status = "failed" /\ x.cancel = node[r].cancel
    BY <1>1, FailedNode
  <2> HIDE DEF x
  <2> QED BY <1>1, <2>1, <2>2, OutcomeStep
<1>3. CASE node' = [node EXCEPT ![r].status = "published", ![r].result = TRUE]
  <2> DEFINE y == [node[r] EXCEPT !.status = "published"]
             x == [y EXCEPT !.result = TRUE]
  <2>1. node' = [node EXCEPT ![r] = x]
    BY <1>3 DEF IInv, WellFormed
  <2>2. y \in NodeRecord /\ y.known /\ y.status = "published" /\ y.cancel = node[r].cancel
    BY <1>1 DEF NodeRecord
  <2> HIDE DEF y
  <2>3. /\ x \in NodeRecord /\ x.known /\ x.status = "published" /\ x.result
        /\ x.cancel = node[r].cancel
    BY <2>2 DEF NodeRecord
  <2> HIDE DEF x
  <2> QED BY <1>1, <2>1, <2>3, OutcomeStep
<1> QED BY <1>2, <1>3 DEF Publish

\* fail keeps the invariant.
LEMMA FailStep ==
  ASSUME IInv, NEW r \in Request, Fail(r)
  PROVE  IInv'
<1> DEFINE x == [node[r] EXCEPT !.status = "failed"]
<1>1. /\ node[r] \in NodeRecord /\ node[r].known /\ pending' = pending \ {r}
      /\ node' = [node EXCEPT ![r] = x]
      /\ UNCHANGED <<req, closed, secret>>
  BY DEF Fail, Failed, IInv, WellFormed
<1>2. x \in NodeRecord /\ x.known /\ x.status = "failed" /\ x.cancel = node[r].cancel
  BY <1>1, FailedNode
<1> HIDE DEF x
<1> QED BY <1>1, <1>2, OutcomeStep

\* finish_producer
LEMMA FinishStep ==
  ASSUME IInv, NEW r \in Request, Finish(r)
  PROVE  IInv'
<1> DEFINE y == [node[r] EXCEPT !.active = FALSE]
           x == [y EXCEPT !.status = IF @ = "pending" THEN "failed" ELSE @]
           N == [node EXCEPT ![r] = x]
           P == pending \ {r}
<1>1. node[r] \in NodeRecord /\ node[r].active /\ closed' = closed
  BY DEF Finish, IInv, WellFormed
<1>2. Settle(req, N, P, {}, {r})
  BY DEF Finish, IInv, WellFormed
<1>3. /\ y \in NodeRecord /\ ~y.active /\ y.known = node[r].known /\ y.cancel = node[r].cancel
      /\ y.status = node[r].status /\ y.result = node[r].result /\ y.prompt = node[r].prompt
  BY <1>1 DEF NodeRecord
<1> HIDE DEF y
<1>4. /\ x \in NodeRecord /\ ~x.active /\ x.known = node[r].known /\ x.cancel = node[r].cancel
      /\ x.status = "published" => node[r].status = "published"
      /\ x.status # "pending" /\ x.result = node[r].result /\ x.prompt = node[r].prompt
  BY <1>3 DEF NodeRecord
<1> HIDE DEF x
<1>5. node[r].known
  BY <1>1 DEF IInv, Consistent, Unused
<1>6. /\ N \in [Request -> NodeRecord] /\ N[r] = x
      /\ \A n \in Request \ {r} : N[n] = node[n]
  BY <1>4 DEF IInv, WellFormed
<1> HIDE DEF N
<1>7. WellFormed(req, N, P)
  BY <1>4, <1>6 DEF IInv, WellFormed
<1>8. Consistent(req, N, P)
  <2>1. \A n \in Request : n \in P <=> IsRunning(N[n])
    BY <1>4, <1>6 DEF IInv, Consistent, IsRunning
  <2>2. \A m, n \in P : N[m].prompt = N[n].prompt => m = n
    BY <1>4, <1>6 DEF IInv, Consistent, WellFormed
  <2>3. \A n \in Request : N[n].status = "published" => N[n].result
    BY <1>4, <1>6 DEF IInv, Consistent
  <2> QED BY <1>4, <1>5, <1>6, <2>1, <2>2, <2>3 DEF IInv, Consistent
<1>9. Wanted(req, N, P, closed', {r})
  BY <1>1, <1>4, <1>6 DEF IInv, Wanted
<1>10. \A n \in Request : N[n].known => node[n].known
  BY <1>5, <1>6
<1>11. closed' \in BOOLEAN
  BY <1>1 DEF IInv
<1> HIDE DEF P
<1> QED BY <1>1, <1>2, <1>7, <1>8, <1>9, <1>10, <1>11, SettleStep

\* A request that changes in nothing but its flags leaves the invariant true.
LEMMA FlagsChange ==
  ASSUME IInv, NEW r \in Request, NEW x \in RequestRecord,
         x.st = req[r].st, x.node = req[r].node, x.waiting => x.st # "new"
  PROVE  LET R == [req EXCEPT ![r] = x]
         IN  /\ WellFormed(R, node, pending) /\ Consistent(R, node, pending)
             /\ Wanted(R, node, pending, closed, {})
             /\ R[r] = x
             /\ \A n : Held(R, n) = Held(req, n)
<1> DEFINE R == [req EXCEPT ![r] = x]
<1>1. /\ R \in [Request -> RequestRecord] /\ R[r] = x
      /\ \A q \in Request : R[q].st = req[q].st /\ R[q].node = req[q].node
      /\ \A q \in Request : R[q].waiting => R[q].st # "new"
  BY DEF IInv, WellFormed
<1> HIDE DEF R
<1>2. \A n : Held(R, n) = Held(req, n)
  BY <1>1 DEF Held
<1>3. WellFormed(R, node, pending)
  BY <1>1 DEF IInv, WellFormed
<1>4. Consistent(R, node, pending)
  BY <1>1 DEF IInv, Consistent
<1>5. Wanted(R, node, pending, closed, {})
  BY <1>2 DEF IInv, Wanted
<1> QED BY <1>1, <1>2, <1>3, <1>4, <1>5 DEF R

\* The flags of a request do not touch its state and its node.
LEMMA Flags ==
  ASSUME NEW x \in RequestRecord, NEW b \in BOOLEAN
  PROVE  LET c == [x EXCEPT !.cancelled = b]
             l == [x EXCEPT !.lease = b]
             w == [x EXCEPT !.waiting = b]
         IN  /\ c \in RequestRecord /\ c.st = x.st /\ c.node = x.node /\ c.lease = x.lease
             /\ l \in RequestRecord /\ l.st = x.st /\ l.node = x.node
             /\ c.waiting = x.waiting /\ l.waiting = x.waiting /\ w.waiting = b
             /\ w \in RequestRecord /\ w.st = x.st /\ w.node = x.node /\ w.lease = x.lease
BY DEF RequestRecord

\* cancel keeps the invariant, from a request x that differs in its flags (the
\* request itself, or the one whose wait has timed out).
LEMMA CancelStep ==
  ASSUME IInv, NEW r \in Request, NEW x \in RequestRecord,
         x.st = req[r].st, x.node = req[r].node, x.waiting => x.st # "new",
         CancelOne([req EXCEPT ![r] = x], r)
  PROVE  IInv'
<1> DEFINE R == [req EXCEPT ![r] = x]
           y == [x EXCEPT !.cancelled = TRUE]
           C == [req EXCEPT ![r] = y]
<1>1. /\ y \in RequestRecord /\ y.st = req[r].st /\ y.node = req[r].node
      /\ y.waiting => y.st # "new"
  BY Flags
<1>2. R[r] = x /\ [R EXCEPT ![r].cancelled = TRUE] = C
  BY DEF IInv, WellFormed
<1>3. /\ R[r].st = "held"
      /\ \/ req' = C /\ UNCHANGED <<node, pending, closed, secret>>
         \/ ReleaseOne(C, node, pending, r)
  BY <1>2 DEF CancelOne
<1>4. CASE req' = C /\ UNCHANGED <<node, pending, closed, secret>>
  <2> HIDE DEF y
  <2> QED BY <1>1, <1>4, RequestOnlyStep
<1>5. CASE ReleaseOne(C, node, pending, r)
  <2> HIDE DEF y
  <2>1. /\ WellFormed(C, node, pending) /\ Consistent(C, node, pending)
        /\ Wanted(C, node, pending, closed, {}) /\ C[r] = y
    BY <1>1, FlagsChange
  <2>2. C[r].st = "held"
    BY <1>1, <1>2, <1>3, <2>1
  <2> HIDE DEF C
  <2> QED BY <1>5, <2>1, <2>2, ReleaseStep
<1> QED BY <1>3, <1>4, <1>5

\* The deadline of wait cancels the request.
LEMMA TimeOutStep ==
  ASSUME IInv, NEW r \in Request, TimeOut(r)
  PROVE  IInv'
<1> DEFINE x == [req[r] EXCEPT !.waiting = FALSE]
<1>1. req[r] \in RequestRecord /\ [req EXCEPT ![r].waiting = FALSE] = [req EXCEPT ![r] = x]
  BY DEF IInv, WellFormed
<1>2. x \in RequestRecord /\ x.st = req[r].st /\ x.node = req[r].node /\ ~x.waiting
  BY <1>1, Flags
<1>3. CancelOne([req EXCEPT ![r] = x], r)
  BY <1>1 DEF TimeOut
<1> HIDE DEF x
<1> QED BY <1>2, <1>3, CancelStep

\* cancel keeps the invariant.
LEMMA CancelAction ==
  ASSUME IInv, NEW r \in Request, Cancel(r)
  PROVE  IInv'
<1>1. /\ req[r] \in RequestRecord /\ req = [req EXCEPT ![r] = req[r]]
      /\ req[r].waiting => req[r].st # "new"
  BY DEF IInv, WellFormed
<1>2. CancelOne([req EXCEPT ![r] = req[r]], r)
  BY <1>1 DEF Cancel
<1> QED BY <1>1, <1>2, CancelStep

\* release keeps the invariant.
LEMMA ReleaseAction ==
  ASSUME IInv, NEW r \in Request, Release(r)
  PROVE  IInv'
<1>1. /\ WellFormed(req, node, pending) /\ Consistent(req, node, pending)
      /\ Wanted(req, node, pending, closed, {})
  BY DEF IInv
<1> QED BY <1>1, ReleaseStep DEF Release

\* A thread enters wait.
LEMMA WaitStep ==
  ASSUME IInv, NEW r \in Request, Wait(r)
  PROVE  IInv'
<1> DEFINE x == [req[r] EXCEPT !.waiting = TRUE]
<1>1. /\ req[r] \in RequestRecord /\ req' = [req EXCEPT ![r] = x]
      /\ UNCHANGED <<node, pending, closed, secret>> /\ req[r].st = "held"
  BY DEF IInv, WellFormed, Wait
<1>2. x \in RequestRecord /\ x.st = req[r].st /\ x.node = req[r].node /\ x.st = "held"
  BY <1>1, Flags
<1> HIDE DEF x
<1> QED BY <1>1, <1>2, RequestOnlyStep

\* A wait that ends: it was cancelled, the node failed, or there is a snapshot
\* to copy, which may turn out to be mutated.
LEMMA WakeStep ==
  ASSUME IInv, NEW r \in Request, Wake(r)
  PROVE  IInv'
<1> DEFINE n == req[r].node
           x == [req[r] EXCEPT !.waiting = FALSE]
           y == [x EXCEPT !.lease = TRUE]
           R == [req EXCEPT ![r] = x]
           N == Failed(node, n)
           P == pending \ {n}
<1>0. req[r].waiting
  BY DEF Wake
<1>1. /\ req[r] \in RequestRecord /\ [req EXCEPT ![r].waiting = FALSE] = R
      /\ [R EXCEPT ![r].lease = TRUE] = [req EXCEPT ![r] = y]
  BY DEF IInv, WellFormed
<1>2. x \in RequestRecord /\ x.st = req[r].st /\ x.node = req[r].node /\ ~x.waiting
  BY <1>1, Flags
<1>3. y \in RequestRecord /\ y.st = req[r].st /\ y.node = req[r].node /\ ~y.waiting
  <2> HIDE DEF x
  <2> QED BY <1>2, Flags
<1>4. \/ req' = R /\ UNCHANGED <<node, pending, closed, secret>>
      \/ req' = [req EXCEPT ![r] = y] /\ UNCHANGED <<node, pending, closed, secret>>
      \/ ~IsOver(r) /\ ReleaseOne(R, node, pending, r)
      \/ ~IsOver(r) /\ node[n].status = "published" /\ ReleaseOne(R, N, P, r)
  <2> HIDE DEF R, y, N
  <2> QED BY <1>1 DEF Wake, N
<1> HIDE DEF x, y, N
<1>5. CASE req' = R /\ UNCHANGED <<node, pending, closed, secret>>
  BY <1>2, <1>5, RequestOnlyStep
<1>6. CASE req' = [req EXCEPT ![r] = y] /\ UNCHANGED <<node, pending, closed, secret>>
  BY <1>3, <1>6, RequestOnlyStep
<1>7. /\ WellFormed(R, node, pending) /\ Consistent(R, node, pending)
      /\ Wanted(R, node, pending, closed, {}) /\ R[r] = x
  BY <1>2, FlagsChange
<1>8. CASE ~IsOver(r) /\ ReleaseOne(R, node, pending, r)
  <2>1. req[r].st = "held"
    BY <1>0, <1>8 DEF IsOver, IInv, WellFormed, RequestRecord
  <2>2. R[r].st = "held"
    BY <2>1, <1>2, <1>7
  <2> HIDE DEF R
  <2> QED BY <1>7, <1>8, <2>2, ReleaseStep
<1>9. CASE ~IsOver(r) /\ node[n].status = "published" /\ ReleaseOne(R, N, P, r)
  <2>1. req[r].st = "held"
    BY <1>0, <1>9 DEF IsOver, IInv, WellFormed, RequestRecord
  <2>2. R[r].st = "held" /\ n \in Request /\ node[n].known
    BY <2>1, <1>2, <1>7 DEF IInv, WellFormed
  <2>3. node[n] \in NodeRecord
    BY <2>2 DEF IInv, WellFormed
  <2> DEFINE z == [node[n] EXCEPT !.status = "failed"]
  <2>4. /\ z \in NodeRecord /\ z.status = "failed" /\ z.known = node[n].known
        /\ z.cancel = node[n].cancel /\ z.prompt = node[n].prompt
    BY <2>3, FailedNode
  <2>5. /\ N \in [Request -> NodeRecord] /\ N[n] = z
        /\ \A m \in Request \ {n} : N[m] = node[m]
    BY <2>2, <2>4 DEF N, Failed, IInv, WellFormed
  <2> HIDE DEF z, R, n
  <2>6. WellFormed(R, N, P)
    BY <1>7, <2>2, <2>4, <2>5 DEF WellFormed
  <2>7. Consistent(R, N, P)
    <3>1. \A m \in Request : m \in P <=> IsRunning(N[m])
      BY <1>7, <2>4, <2>5 DEF Consistent, IsRunning
    <3>2. \A l, m \in P : N[l].prompt = N[m].prompt => l = m
      BY <1>7, <2>4, <2>5 DEF Consistent, WellFormed
    <3>3. \A m \in Request : N[m].status = "published" => N[m].result
      BY <1>7, <2>4, <2>5 DEF Consistent
    <3>4. \A q \in Request : R[q].st = "new" => ~N[q].known
      BY <1>7, <2>4, <2>5 DEF Consistent
    <3>5. \A m \in Request : ~N[m].known => N[m] = Unused
      BY <1>7, <2>2, <2>4, <2>5 DEF Consistent
    <3> QED BY <3>1, <3>2, <3>3, <3>4, <3>5 DEF Consistent
  <2>8. Wanted(R, N, P, closed, {})
    BY <1>7, <2>4, <2>5 DEF Wanted
  <2>9. \A m \in Request : N[m].known => node[m].known
    BY <2>4, <2>5
  <2> HIDE DEF P
  <2> QED BY <1>9, <2>2, <2>6, <2>7, <2>8, <2>9, ReleaseStep
<1> QED BY <1>4, <1>5, <1>6, <1>8, <1>9

\* close empties the index, stops every producer and releases every request
\* that has no branch of its own.
LEMMA CloseStep ==
  ASSUME IInv, Close
  PROVE  IInv'
<1> DEFINE held == {r \in Request : req[r].st = "held"}
           Q == {r \in held : ~req[r].cancelled /\ ~req[r].lease}
           C == [r \in Request |-> IF r \in held THEN [req[r] EXCEPT !.cancelled = TRUE] ELSE req[r]]
           N == [n \in Request |-> [node[n] EXCEPT !.cancel = @ \/ (node[n].known /\ node[n].active)]]
           M == {n \in Request : node[n].known}
           R == ReleaseAll(C, Q)
<1>1. closed' = TRUE /\ Settle(R, N, {}, Q, M)
  BY DEF Close
<1>2. \A r \in Request :
        /\ C[r] \in RequestRecord /\ C[r].st = req[r].st /\ C[r].node = req[r].node
        /\ C[r].waiting => C[r].st # "new"
  <2> TAKE r \in Request
  <2>1. req[r] \in RequestRecord
    BY DEF IInv, WellFormed
  <2>2. LET c == [req[r] EXCEPT !.cancelled = TRUE]
        IN  c \in RequestRecord /\ c.st = req[r].st /\ c.node = req[r].node /\ c.waiting = req[r].waiting
    BY <2>1, Flags
  <2>3. req[r].waiting => req[r].st # "new"
    BY DEF IInv, WellFormed
  <2> QED BY <2>1, <2>2, <2>3
<1> HIDE DEF C
<1>3. /\ R \in [Request -> RequestRecord]
      /\ \A r \in Request : R[r].st \in {"released", req[r].st}
      /\ \A r \in Request : R[r].st = "held" => req[r].st = "held" /\ R[r].node = req[r].node
      /\ \A r \in Request : R[r].waiting => R[r].st # "new"
  <2>1. \A w \in BOOLEAN : ReleasedRequest(w) \in RequestRecord /\ ReleasedRequest(w).st = "released"
    BY DEF ReleasedRequest, RequestRecord
  <2>2. \A r \in Request : C[r].waiting \in BOOLEAN
    BY <1>2 DEF RequestRecord
  <2>3. \A r \in Request :
          R[r] = C[r] \/ (R[r] = ReleasedRequest(C[r].waiting) /\ r \in Q)
    BY DEF ReleaseAll
  <2>4. R = [r \in Request |-> R[r]]
    BY DEF ReleaseAll
  <2> HIDE DEF R, Q
  <2>5. \A r \in Request : ReleasedRequest(C[r].waiting) \in RequestRecord
                           /\ ReleasedRequest(C[r].waiting).st = "released"
    BY <2>1, <2>2
  <2>6. \A r \in Request : R[r] \in RequestRecord
    BY <1>2, <2>3, <2>5
  <2> QED BY <1>2, <2>3, <2>4, <2>5, <2>6
<1> HIDE DEF R, Q
<1>4. \A n \in Request :
        /\ N[n] \in NodeRecord /\ N[n].known = node[n].known /\ N[n].active = node[n].active
        /\ N[n].status = node[n].status /\ N[n].result = node[n].result
        /\ (node[n].known /\ node[n].active => N[n].cancel)
        /\ (~node[n].known => N[n] = Unused)
  <2> TAKE n \in Request
  <2> DEFINE b == node[n].cancel \/ (node[n].known /\ node[n].active)
             x == node[n]
             y == [x EXCEPT !.cancel = b]
  <2>1. x \in NodeRecord /\ b \in BOOLEAN /\ N[n] = y
    BY DEF IInv, WellFormed, NodeRecord
  <2>2. x.known /\ x.active => b
    OBVIOUS
  <2>3. ~x.known => x = Unused /\ b = FALSE
    BY DEF IInv, Consistent, Unused
  <2> HIDE DEF b, x, N
  <2>4. /\ y \in NodeRecord /\ y.known = x.known /\ y.active = x.active /\ y.cancel = b
        /\ y.status = x.status /\ y.result = x.result
    BY <2>1 DEF NodeRecord
  <2>5. x = Unused /\ b = FALSE => y = Unused
    <3> SUFFICES ASSUME x = Unused, b = FALSE PROVE y = Unused
      OBVIOUS
    <3>1. y = [Unused EXCEPT !.cancel = FALSE]
      OBVIOUS
    <3> HIDE DEF y
    <3> QED BY <3>1 DEF Unused
  <2> HIDE DEF y
  <2> QED BY <2>1, <2>2, <2>3, <2>4, <2>5 DEF x
<1>5. N = [n \in Request |-> N[n]]
  OBVIOUS
<1> HIDE DEF N
<1>6. WellFormed(R, N, {})
  BY <1>3, <1>4, <1>5 DEF IInv, WellFormed
<1>7. Consistent(R, N, {})
  <2>1. \A n \in Request : ~IsRunning(N[n])
    BY <1>4 DEF IsRunning
  <2>2. \A n \in Request : N[n].status = "published" => N[n].result
    BY <1>4 DEF IInv, Consistent
  <2>3. \A r \in Request : R[r].st = "new" => ~N[r].known
    BY <1>3, <1>4 DEF IInv, Consistent
  <2> QED BY <1>4, <2>1, <2>2, <2>3 DEF Consistent
<1>8. Wanted(R, N, {}, closed', M)
  BY <1>1 DEF Wanted
<1>9. \A n \in Request : N[n].known => node[n].known
  BY <1>4
<1>10. M \in SUBSET Request
  OBVIOUS
<1> HIDE DEF M
<1> QED BY <1>1, <1>6, <1>7, <1>8, <1>9, <1>10, SettleStep

-----------------------------------------------------------------------------
\* The initial state satisfies the invariant.
LEMMA InitInvariant ==
  ASSUME Init
  PROVE  IInv
<1>1. NoRequest \in RequestRecord /\ NoRequest.st = "new" /\ ~NoRequest.waiting
  BY DEF NoRequest, RequestRecord
<1>2. /\ Unused \in NodeRecord /\ ~Unused.known /\ ~Unused.active /\ ~Unused.cancel
      /\ Unused.status = "pending"
  BY DEF Unused, NodeRecord
<1>3. /\ req = [r \in Request |-> NoRequest] /\ node = [n \in Request |-> Unused]
      /\ pending = {} /\ closed = FALSE /\ secret = TRUE
  BY DEF Init
<1>4. WellFormed(req, node, pending)
  BY <1>1, <1>2, <1>3 DEF WellFormed
<1>5. Consistent(req, node, pending)
  BY <1>1, <1>2, <1>3 DEF Consistent, IsRunning
<1>6. Wanted(req, node, pending, closed, {})
  BY <1>2, <1>3 DEF Wanted
<1> QED BY <1>3, <1>4, <1>5, <1>6 DEF IInv, IsDrained

\* A step of the owner keeps the invariant, one action at a time.
LEMMA NextInvariant ==
  ASSUME IInv, [Next]_vars
  PROVE  IInv'
<1>1. CASE UNCHANGED vars
  <2>1. UNCHANGED <<req, node, pending, closed, secret>>
    BY <1>1 DEF vars
  <2> QED BY <2>1, InvariantNext DEF IInv
<1>2. CASE Close
  BY <1>2, CloseStep
<1>3. ASSUME NEW r \in Request, Lookup(r)
      PROVE  IInv'
  BY <1>3, ElectStep, JoinStep DEF Lookup
<1>4. ASSUME NEW r \in Request, ProducerStep(r)
      PROVE  IInv'
  BY <1>4, PublishStep, FailStep, FinishStep DEF ProducerStep
<1>5. ASSUME NEW r \in Request, Wait(r) \/ Wake(r) \/ TimeOut(r) \/ Cancel(r) \/ Release(r)
      PROVE  IInv'
  BY <1>5, WaitStep, WakeStep, TimeOutStep, CancelAction, ReleaseAction
<1> QED BY <1>1, <1>2, <1>3, <1>4, <1>5 DEF Next

\* The invariant holds in every state of the owner.
THEOREM Invariance == Spec => []IInv
<1>1. Init => IInv
  BY InitInvariant
<1>2. IInv /\ [Next]_vars => IInv'
  BY NextInvariant
<1> QED BY <1>1, <1>2, PTL DEF Spec

\* Requests and nodes stay well formed, and a held request has a known node.
THEOREM TypeCorrect == Spec => []TypeOK
<1>1. IInv => TypeOK
  BY DEF IInv, WellFormed, TypeOK
<1> QED BY <1>1, Invariance, PTL

\* What lookup_or_register can join is a running prefill somebody wants.
THEOREM OnlyLivePrefillsJoined == Spec => []JoinableIsAlive
<1>1. IInv => JoinableIsAlive
  BY DEF IInv, WellFormed, Consistent, Wanted, IsRunning, JoinableIsAlive
<1> QED BY <1>1, Invariance, PTL

\* No running prefill is lost from the index, and none runs twice.
THEOREM OnePrefillPerPrompt == Spec => []RunningIsIndexed
<1>1. IInv => RunningIsIndexed
  BY DEF IInv, WellFormed, Consistent, IsRunning, RunningIsIndexed
<1> QED BY <1>1, Invariance, PTL

\* Cancelling a request never stops the prefill the others wait for.
THEOREM OthersKeepTheirPrefill == Spec => []CancelOnlyAbandoned
<1>1. IInv => CancelOnlyAbandoned
  BY DEF IInv, Wanted, CancelOnlyAbandoned
<1> QED BY <1>1, Invariance, PTL

\* A snapshot is there for as long as a request may copy it.
THEOREM SnapshotsAreSafe == Spec => []SnapshotOutlivesRequests
<1>1. ASSUME IInv PROVE SnapshotOutlivesRequests
  <2>1. \A n \in Request : node[n].status = "published" => node[n].result
    BY <1>1 DEF IInv, Consistent
  <2>2. \A n \in Request : ~node[n].known => ~node[n].result
    BY <1>1 DEF IInv, Consistent, Unused
  <2>3. \A n \in Request : ~node[n].known => Held(req, n) = {}
    BY <1>1 DEF IInv, WellFormed, Held
  <2> QED BY <2>1, <2>2, <2>3 DEF SnapshotOutlivesRequests
<1> QED BY <1>1, Invariance, PTL

\* The commitment key is zeroized exactly when the closed owner is empty.
THEOREM KeyOutlivesNodes == Spec => []SecretOutlivesNodes
<1>1. IInv => SecretOutlivesNodes
  BY DEF IInv, IsDrained, SecretOutlivesNodes
<1> QED BY <1>1, Invariance, PTL

-----------------------------------------------------------------------------
(* The counters: what requests and nodes reserved is what is counted.       *)

HeldRequests(R) == {r \in Request : R[r].st = "held"}
KnownNodes(N) == {n \in Request : N[n].known}

RequestBytes(N, R) == [r \in Request |-> RequestReservation(N, R, r)]
NodeBytes(N) == [n \in Request |-> NodeReservation(N, n)]

\* The sums as the owner's methods form them.
ReservedFor(N, R, X) == SumOver(X, LAMBDA r : RequestReservation(N, R, r))
ReservedBy(N, X) == SumOver(X, LAMBDA n : NodeReservation(N, n))

Counted ==
  /\ IsFiniteSet(HeldRequests(req)) /\ IsFiniteSet(KnownNodes(node))
  /\ count = Cardinality(HeldRequests(req))
  /\ reserved = SumBy(NodeBytes(node), KnownNodes(node))
                + SumBy(RequestBytes(node, req), HeldRequests(req))

Bounded ==
  /\ count <= MaxRequests /\ reserved <= MaxBytes
  /\ Cardinality(KnownNodes(node)) <= MaxNodes

CInv == IInv /\ Counted /\ Bounded

\* What requests reserve, as a sum of a function.
LEMMA ReservedForIsSum ==
  ASSUME NEW N, NEW R, NEW X \in SUBSET Request, IsFiniteSet(X)
  PROVE  ReservedFor(N, R, X) = SumBy(RequestBytes(N, R), X)
<1> DEFINE P(g) == g = [s \in SUBSET X |->
                          IF s = {} THEN 0 ELSE LET x == CHOOSE x \in s : TRUE
                                                IN  RequestReservation(N, R, x) + g[s \ {x}]]
           g == CHOOSE u : P(u)
<1>1. ReservedFor(N, R, X) = g[X]
  BY DEF ReservedFor, SumOver, MapThenSumSet, MapThenFoldSet
<1>2. ASSUME NEW u  PROVE P(u) <=> SumsUp(u, RequestBytes(N, R), X)
  <2>1. \A s \in SUBSET X : s # {} =>
          RequestBytes(N, R)[CHOOSE x \in s : TRUE] = RequestReservation(N, R, CHOOSE x \in s : TRUE)
    BY DEF RequestBytes
  <2> QED
    BY <2>1 DEF SumsUp
<1>3. \E u : P(u)
  <2> HIDE DEF P
  <2> QED BY <1>2, SumExists
<1>4. P(g)
  BY <1>3
<1>5. SumsUp(g, RequestBytes(N, R), X)
  <2> HIDE DEF P, g
  <2> QED BY <1>2, <1>4
<1> HIDE DEF g, P
<1>6. g[X] = SumBy(RequestBytes(N, R), X)
  BY <1>5, SumOf
<1> QED
  BY <1>1, <1>6

\* What nodes reserve, as a sum of a function.
LEMMA ReservedByIsSum ==
  ASSUME NEW N, NEW X \in SUBSET Request, IsFiniteSet(X)
  PROVE  ReservedBy(N, X) = SumBy(NodeBytes(N), X)
<1> DEFINE P(g) == g = [s \in SUBSET X |->
                          IF s = {} THEN 0 ELSE LET x == CHOOSE x \in s : TRUE
                                                IN  NodeReservation(N, x) + g[s \ {x}]]
           g == CHOOSE u : P(u)
<1>1. ReservedBy(N, X) = g[X]
  BY DEF ReservedBy, SumOver, MapThenSumSet, MapThenFoldSet
<1>2. ASSUME NEW u  PROVE P(u) <=> SumsUp(u, NodeBytes(N), X)
  <2>1. \A s \in SUBSET X : s # {} =>
          NodeBytes(N)[CHOOSE x \in s : TRUE] = NodeReservation(N, CHOOSE x \in s : TRUE)
    BY DEF NodeBytes
  <2> QED
    BY <2>1 DEF SumsUp
<1>3. \E u : P(u)
  <2> HIDE DEF P
  <2> QED BY <1>2, SumExists
<1>4. P(g)
  BY <1>3
<1>5. SumsUp(g, NodeBytes(N), X)
  <2> HIDE DEF P, g
  <2> QED BY <1>2, <1>4
<1> HIDE DEF g, P
<1>6. g[X] = SumBy(NodeBytes(N), X)
  BY <1>5, SumOf
<1> QED
  BY <1>1, <1>6

\* What a method that ends in Settle gives back.
LEMMA SettleGivesBack ==
  ASSUME NEW R, NEW N, NEW P, NEW Q, NEW M, Settle(R, N, P, Q, M)
  PROVE  /\ req' = R /\ node' = Settled(R, N, M) /\ count' = count - Cardinality(Q)
         /\ reserved' = reserved - ReservedFor(N, req, Q) - ReservedBy(N, Retired(R, N, M))
<1>1. req' = R /\ node' = Settled(R, N, M) /\ count' = count - Cardinality(Q)
  BY DEF Settle
<1>2. reserved' = reserved - ReservedFor(N, req, Q) - ReservedBy(N, Retired(R, N, M))
  BY DEF Settle, ReservedFor, ReservedBy
<1> QED
  BY <1>1, <1>2

\* Reservations are natural numbers.
LEMMA BytesAreNat ==
  ASSUME NEW N \in [Request -> NodeRecord], NEW n \in Request
  PROVE  /\ BranchBytes(Len(N[n].prompt)) \in Nat
         /\ ProducerBytes(Len(N[n].prompt)) \in Nat
<1>1. N[n].prompt \in Seq(Nat)
  <2>1. N[n].prompt \in Prompt \cup {<<>>}
    BY DEF NodeRecord
  <2>2. <<>> \in Seq(Nat) /\ Prompt \subseteq Seq(Nat)
    BY RequestsAndPrompts
  <2> HIDE DEF NodeRecord
  <2> QED BY ONLY <2>1, <2>2
<1>2. Len(N[n].prompt) \in Nat
  BY <1>1
<1> DEFINE l == Len(N[n].prompt)
<1> HIDE DEF l
<1>3. l * RowBytes \in Nat /\ LogitsBytes \in Nat /\ OverlapBytes \in Nat
  BY <1>2, OwnerBounds DEF l
<1> DEFINE p == l * RowBytes
<1> HIDE DEF p
<1>4. p + LogitsBytes \in Nat /\ 2 * (p + LogitsBytes) + OverlapBytes \in Nat
      /\ p + LogitsBytes + OverlapBytes \in Nat
  BY <1>3 DEF p
<1> QED
  BY <1>4 DEF l, p, BranchBytes, ProducerBytes, PayloadBytes

\* Every term of the counter is a natural number, also where only the shape of
\* the tables is known.
LEMMA TermsAreNat ==
  ASSUME NEW R, NEW N, NEW P, WellFormed(R, N, P)
  PROVE  /\ \A n \in Request : NodeBytes(N)[n] \in Nat
         /\ \A r \in HeldRequests(R) : RequestBytes(N, R)[r] \in Nat
<1>1. ASSUME NEW n \in Request  PROVE NodeBytes(N)[n] \in Nat
  <2>1. NodeBytes(N)[n] = ProducerBytes(Len(N[n].prompt))
    BY DEF NodeBytes, NodeReservation
  <2>2. N \in [Request -> NodeRecord]
    BY DEF WellFormed
  <2> QED BY <2>1, <2>2, BytesAreNat
<1>2. ASSUME NEW r \in HeldRequests(R)  PROVE RequestBytes(N, R)[r] \in Nat
  <2>1. RequestBytes(N, R)[r] = BranchBytes(Len(N[R[r].node].prompt))
    BY DEF RequestBytes, RequestReservation, HeldRequests
  <2>2. N \in [Request -> NodeRecord] /\ R[r].node \in Request
    BY DEF WellFormed, HeldRequests
  <2> QED BY <2>1, <2>2, BytesAreNat
<1> QED
  BY <1>1, <1>2

\* Requests Q and nodes D are gone and what they reserved was given back.
LEMMA GivenBack ==
  ASSUME CInv, IInv', NEW Q \in SUBSET HeldRequests(req), NEW D \in SUBSET KnownNodes(node),
         HeldRequests(req') = HeldRequests(req) \ Q, KnownNodes(node') = KnownNodes(node) \ D,
         \A r \in HeldRequests(req') : req'[r].node = req[r].node,
         \A n \in KnownNodes(node') : node'[n].prompt = node[n].prompt,
         count' = count - Cardinality(Q),
         reserved' = reserved - SumBy(RequestBytes(node, req), Q) - SumBy(NodeBytes(node), D)
  PROVE  CInv'
<1> DEFINE H == HeldRequests(req)
           K == KnownNodes(node)
           h == RequestBytes(node, req)
           k == NodeBytes(node)
<1>1. /\ IsFiniteSet(H) /\ IsFiniteSet(K) /\ count = Cardinality(H)
      /\ reserved = SumBy(k, K) + SumBy(h, H)
      /\ count <= MaxRequests /\ reserved <= MaxBytes /\ Cardinality(K) <= MaxNodes
  BY DEF CInv, Counted, Bounded
<1>2. /\ IsFiniteSet(Q) /\ IsFiniteSet(D) /\ IsFiniteSet(H \ Q) /\ IsFiniteSet(K \ D)
      /\ Q \in SUBSET H /\ D \in SUBSET K
  BY <1>1, FS_Subset
<1>3. /\ \A r \in H : h[r] \in Nat /\ h[r] \in Int
      /\ \A n \in K : k[n] \in Nat /\ k[n] \in Int
  BY TermsAreNat DEF CInv, IInv, KnownNodes
<1>4. \A r \in H \ Q : RequestBytes(node', req')[r] = h[r]
  <2> TAKE r \in H \ Q
  <2>1. r \in Request /\ r \in HeldRequests(req') /\ req'[r].node = req[r].node
    BY DEF HeldRequests
  <2>2. req'[r].node \in KnownNodes(node')
    BY <2>1 DEF IInv, WellFormed, HeldRequests, KnownNodes
  <2>3. node'[req'[r].node].prompt = node[req[r].node].prompt
    BY <2>1, <2>2
  <2> QED BY <2>1, <2>3 DEF RequestBytes, RequestReservation
<1>5. \A n \in K \ D : NodeBytes(node')[n] = k[n]
  BY DEF NodeBytes, NodeReservation, KnownNodes
<1> DEFINE hh == RequestBytes(node', req')
           kk == NodeBytes(node')
<1> HIDE DEF H, K, h, k, hh, kk
<1>6. /\ SumBy(h, H) = SumBy(h, Q) + SumBy(h, H \ Q)
      /\ SumBy(k, K) = SumBy(k, D) + SumBy(k, K \ D)
  BY <1>1, <1>2, <1>3, SumSplit
<1>7. SumBy(hh, H \ Q) = SumBy(h, H \ Q)
  <2>1. \A r \in H \ Q : h[r] \in Int /\ hh[r] = h[r]
    BY <1>3, <1>4 DEF hh
  <2> QED BY <1>2, <2>1, SumEqual
<1>8. SumBy(kk, K \ D) = SumBy(k, K \ D)
  <2>1. \A n \in K \ D : k[n] \in Int /\ kk[n] = k[n]
    BY <1>3, <1>5 DEF kk
  <2> QED BY <1>2, <2>1, SumEqual
<1>9. /\ SumBy(h, Q) \in Nat /\ SumBy(h, H \ Q) \in Nat
      /\ SumBy(k, D) \in Nat /\ SumBy(k, K \ D) \in Nat
  BY <1>2, <1>3, SumIsNat
<1>10. reserved' = SumBy(kk, K \ D) + SumBy(hh, H \ Q) /\ reserved' <= reserved
  <2>1. reserved' = reserved - SumBy(h, Q) - SumBy(k, D)
    BY DEF h, k
  <2> QED BY <1>1, <1>6, <1>7, <1>8, <1>9, <2>1
<1>11. Cardinality(H \ Q) = Cardinality(H) - Cardinality(Q) /\ Cardinality(Q) \in Nat
       /\ Cardinality(H) \in Nat
  BY <1>1, <1>2, FS_Difference, FS_CardinalityType, FS_Intersection, H \cap Q = Q
<1>12. Cardinality(K \ D) <= Cardinality(K) /\ Cardinality(K) \in Nat /\ Cardinality(K \ D) \in Nat
  BY <1>1, <1>2, FS_Subset, FS_CardinalityType
<1>13. count' = Cardinality(H \ Q) /\ count' <= count
  BY <1>1, <1>11
<1>14. Counted'
  <2>1. HeldRequests(req') = H \ Q /\ KnownNodes(node') = K \ D
    BY DEF H, K
  <2> QED BY <1>2, <1>10, <1>13, <2>1 DEF Counted, hh, kk
<1>15. Bounded'
  <2>1. KnownNodes(node') = K \ D
    BY DEF K
  <2>2. MaxNodes \in Nat /\ MaxRequests \in Nat /\ MaxBytes \in Nat
    BY OwnerBounds
  <2>3. count' <= MaxRequests
    BY <1>1, <1>11, <1>13, <2>2
  <2>4. reserved' <= MaxBytes
    BY <1>1, <1>6, <1>7, <1>8, <1>9, <1>10, <2>2
  <2>5. Cardinality(K \ D) <= MaxNodes
    BY <1>1, <1>12, <2>2
  <2> QED BY <2>1, <2>3, <2>4, <2>5 DEF Bounded
<1> QED
  BY <1>14, <1>15 DEF CInv

\* Nothing is admitted and nothing given back.
LEMMA CountersKept ==
  ASSUME CInv, IInv', count' = count, reserved' = reserved,
         \A r \in Request : req'[r].st = req[r].st /\ req'[r].node = req[r].node,
         \A n \in Request : node'[n].known = node[n].known /\ node'[n].prompt = node[n].prompt
  PROVE  CInv'
<1>1. HeldRequests(req') = HeldRequests(req) \ {} /\ KnownNodes(node') = KnownNodes(node) \ {}
  BY DEF HeldRequests, KnownNodes
<1>2. Cardinality({}) = 0 /\ \A f : SumBy(f, {}) = 0
  BY FS_EmptySet, SumStep
<1>3. Cardinality(HeldRequests(req)) \in Nat
  BY FS_CardinalityType DEF CInv, Counted
<1>4. reserved \in Int
  <2>1. /\ \A n \in KnownNodes(node) : NodeBytes(node)[n] \in Int
        /\ \A r \in HeldRequests(req) : RequestBytes(node, req)[r] \in Int
    BY TermsAreNat DEF CInv, IInv, KnownNodes
  <2>2. SumBy(NodeBytes(node), KnownNodes(node)) \in Int
        /\ SumBy(RequestBytes(node, req), HeldRequests(req)) \in Int
    BY <2>1, SumIsInt DEF CInv, Counted
  <2> QED BY <2>2 DEF CInv, Counted
<1>5. count' = count - Cardinality({})
  BY <1>2, <1>3 DEF CInv, Counted
<1>6. reserved' = reserved - SumBy(RequestBytes(node, req), {}) - SumBy(NodeBytes(node), {})
  BY <1>2, <1>4
<1>7. /\ \A r \in HeldRequests(req') : req'[r].node = req[r].node
      /\ \A n \in KnownNodes(node') : node'[n].prompt = node[n].prompt
  BY DEF HeldRequests, KnownNodes
<1> QED
  BY <1>1, <1>5, <1>6, <1>7, GivenBack

\* What Settle gives back is what the released requests and retired nodes had.
LEMMA SettleCounts ==
  ASSUME CInv, IInv', NEW R, NEW N \in [Request -> NodeRecord], NEW P,
         NEW Q \in SUBSET HeldRequests(req), NEW M \in SUBSET Request,
         Settle(R, N, P, Q, M),
         HeldRequests(R) = HeldRequests(req) \ Q,
         \A r \in HeldRequests(R) : R[r].node = req[r].node,
         \A n \in Request : N[n].known = node[n].known /\ N[n].prompt = node[n].prompt
  PROVE  CInv'
<1> DEFINE D == Retired(R, N, M)
<1>1. /\ req' = R /\ node' = Settled(R, N, M) /\ count' = count - Cardinality(Q)
      /\ reserved' = reserved - ReservedFor(N, req, Q) - ReservedBy(N, D)
  BY SettleGivesBack
<1>2. D \in SUBSET KnownNodes(node) /\ D \in SUBSET Request
  BY DEF Retired, Abandoned, KnownNodes
<1>3. \A n \in Request :
        \/ n \in D /\ node'[n] = Unused
        \/ n \notin D /\ node'[n] = N[n]
        \/ n \notin D /\ node'[n] = [N[n] EXCEPT !.cancel = TRUE]
  BY <1>1 DEF Settled
<1>4. \A n \in Request : N[n] \in NodeRecord /\ ~Unused.known
  BY DEF Unused
<1>5. \A n \in Request : LET y == [N[n] EXCEPT !.cancel = TRUE]
                         IN  y.known = N[n].known /\ y.prompt = N[n].prompt
  BY <1>4, StoppedNode
<1> HIDE DEF D
<1>6. \A n \in Request : /\ node'[n].known <=> N[n].known /\ n \notin D
                         /\ n \notin D => node'[n].prompt = N[n].prompt
  <2> TAKE n \in Request
  <2>1. CASE n \in D
    BY <1>3, <1>4, <2>1
  <2>2. CASE n \notin D
    BY <1>3, <1>5, <2>2
  <2> QED BY <2>1, <2>2
<1>7. KnownNodes(node') = KnownNodes(node) \ D
  BY <1>6 DEF KnownNodes
<1>8. \A n \in KnownNodes(node') : node'[n].prompt = node[n].prompt
  BY <1>6 DEF KnownNodes
<1>9. IsFiniteSet(HeldRequests(req)) /\ IsFiniteSet(KnownNodes(node)) /\ IsFiniteSet(Q) /\ IsFiniteSet(D)
  BY <1>2, FS_Subset DEF CInv, Counted
<1>10. /\ \A r \in HeldRequests(req) : RequestBytes(node, req)[r] \in Int
       /\ \A n \in Request : NodeBytes(node)[n] \in Int
  BY TermsAreNat DEF CInv, IInv
<1>11. \A r \in Q : RequestBytes(N, req)[r] = RequestBytes(node, req)[r]
  <2> TAKE r \in Q
  <2>1. r \in Request /\ req[r].node \in Request
    BY DEF HeldRequests, CInv, IInv, WellFormed
  <2> QED BY <2>1 DEF RequestBytes, RequestReservation
<1>12. \A n \in D : NodeBytes(N)[n] = NodeBytes(node)[n]
  BY <1>2 DEF NodeBytes, NodeReservation
<1>13. ReservedFor(N, req, Q) = SumBy(RequestBytes(node, req), Q)
  <2>1. Q \in SUBSET Request
    BY DEF HeldRequests
  <2>2. ReservedFor(N, req, Q) = SumBy(RequestBytes(N, req), Q)
    BY <1>9, <2>1, ReservedForIsSum
  <2>3. \A r \in Q : RequestBytes(node, req)[r] \in Int
                     /\ RequestBytes(N, req)[r] = RequestBytes(node, req)[r]
    BY <1>10, <1>11
  <2>4. SumBy(RequestBytes(node, req), Q) = SumBy(RequestBytes(N, req), Q)
    BY <1>9, <2>3, SumEqual
  <2> QED BY <2>2, <2>4
<1>14. ReservedBy(N, D) = SumBy(NodeBytes(node), D)
  <2>1. ReservedBy(N, D) = SumBy(NodeBytes(N), D)
    BY <1>2, <1>9, ReservedByIsSum
  <2>2. \A n \in D : NodeBytes(node)[n] \in Int /\ NodeBytes(N)[n] = NodeBytes(node)[n]
    BY <1>2, <1>10, <1>12
  <2>3. SumBy(NodeBytes(node), D) = SumBy(NodeBytes(N), D)
    BY <1>9, <2>2, SumEqual
  <2> QED BY <2>1, <2>3
<1>15. reserved' = reserved - SumBy(RequestBytes(node, req), Q) - SumBy(NodeBytes(node), D)
  BY <1>1, <1>13, <1>14
<1>16. /\ HeldRequests(req') = HeldRequests(req) \ Q
       /\ \A r \in HeldRequests(req') : req'[r].node = req[r].node
  BY <1>1
<1> QED
  BY <1>1, <1>2, <1>7, <1>8, <1>15, <1>16, GivenBack

\* _release gives back one request, and the node if it was its last.
LEMMA ReleaseCounts ==
  ASSUME CInv, IInv', NEW R, NEW N \in [Request -> NodeRecord], NEW P, NEW r \in Request,
         ReleaseOne(R, N, P, r), R[r].st = "held",
         \A q \in Request : R[q].st = req[q].st /\ R[q].node = req[q].node,
         \A n \in Request : N[n].known = node[n].known /\ N[n].prompt = node[n].prompt
  PROVE  CInv'
<1> DEFINE S == ReleaseAll(R, {r})
<1>1. Settle(S, N, P, {r}, {R[r].node})
  BY DEF ReleaseOne
<1>2. \A q \in Request : \/ q = r /\ S[q] = ReleasedRequest(R[q].waiting)
                         \/ q # r /\ S[q] = R[q]
  BY DEF ReleaseAll
<1> HIDE DEF S
<1>3. \A w : ReleasedRequest(w).st = "released"
  BY DEF ReleasedRequest
<1>4. /\ HeldRequests(S) = HeldRequests(req) \ {r}
      /\ {r} \in SUBSET HeldRequests(req)
      /\ \A q \in HeldRequests(S) : S[q].node = req[q].node
  BY <1>2, <1>3 DEF HeldRequests
<1>5. {R[r].node} \in SUBSET Request
  BY DEF CInv, IInv, WellFormed
<1> QED BY <1>1, <1>4, <1>5, SettleCounts

\* A request whose flags alone change has the same state and node.
LEMMA SameHolders ==
  ASSUME req \in [Request -> RequestRecord], NEW r \in Request, NEW x,
         x.st = req[r].st, x.node = req[r].node
  PROVE  LET R == [req EXCEPT ![r] = x]
         IN  /\ R[r] = x
             /\ \A q \in Request : R[q].st = req[q].st /\ R[q].node = req[q].node
OBVIOUS

\* cancel, as CancelStep states it.
LEMMA CancelCounts ==
  ASSUME CInv, IInv', NEW r \in Request, NEW x \in RequestRecord,
         x.st = req[r].st, x.node = req[r].node,
         CancelOne([req EXCEPT ![r] = x], r)
  PROVE  CInv'
<1> DEFINE R == [req EXCEPT ![r] = x]
           y == [x EXCEPT !.cancelled = TRUE]
           C == [req EXCEPT ![r] = y]
<1>1. y.st = req[r].st /\ y.node = req[r].node
  BY Flags
<1>2. req \in [Request -> RequestRecord] /\ node \in [Request -> NodeRecord]
  BY DEF CInv, IInv, WellFormed
<1>3. R[r] = x /\ [R EXCEPT ![r].cancelled = TRUE] = C
  BY <1>2
<1>4. /\ R[r].st = "held"
      /\ \/ req' = C /\ UNCHANGED <<node, count, reserved>>
         \/ ReleaseOne(C, node, pending, r)
  BY <1>3 DEF CancelOne
<1> HIDE DEF y
<1>5. C[r] = y /\ \A q \in Request : C[q].st = req[q].st /\ C[q].node = req[q].node
  BY <1>1, <1>2, SameHolders
<1>6. CASE req' = C /\ UNCHANGED <<node, count, reserved>>
  BY <1>5, <1>6, CountersKept
<1>7. CASE ReleaseOne(C, node, pending, r)
  <2>1. C[r].st = "held"
    BY <1>1, <1>3, <1>4, <1>5
  <2> HIDE DEF C
  <2> QED BY <1>2, <1>5, <1>7, <2>1, ReleaseCounts
<1> QED BY <1>4, <1>6, <1>7

\* The deadline of a wait releases the request.
LEMMA TimeOutCounts ==
  ASSUME CInv, IInv', NEW r \in Request, TimeOut(r)
  PROVE  CInv'
<1> DEFINE x == [req[r] EXCEPT !.waiting = FALSE]
<1>1. req[r] \in RequestRecord /\ [req EXCEPT ![r].waiting = FALSE] = [req EXCEPT ![r] = x]
  BY DEF CInv, IInv, WellFormed
<1>2. x \in RequestRecord /\ x.st = req[r].st /\ x.node = req[r].node
  BY <1>1, Flags
<1>3. CancelOne([req EXCEPT ![r] = x], r)
  BY <1>1 DEF TimeOut
<1> HIDE DEF x
<1> QED BY <1>2, <1>3, CancelCounts

\* cancel and release.
LEMMA CancelReleaseCounts ==
  ASSUME CInv, IInv', NEW r \in Request, Cancel(r) \/ Release(r)
  PROVE  CInv'
<1>1. /\ req[r] \in RequestRecord /\ req = [req EXCEPT ![r] = req[r]]
      /\ node \in [Request -> NodeRecord]
  BY DEF CInv, IInv, WellFormed
<1>2. CASE Cancel(r)
  <2>1. CancelOne([req EXCEPT ![r] = req[r]], r)
    BY <1>1, <1>2 DEF Cancel
  <2> QED BY <1>1, <2>1, CancelCounts
<1>3. CASE Release(r)
  BY <1>1, <1>3, ReleaseCounts DEF Release
<1> QED BY <1>2, <1>3

\* wait, and what it finds when it wakes.
LEMMA WaitWakeCounts ==
  ASSUME CInv, IInv', NEW r \in Request, Wait(r) \/ Wake(r)
  PROVE  CInv'
<1> DEFINE n == req[r].node
           w == [req[r] EXCEPT !.waiting = TRUE]
           x == [req[r] EXCEPT !.waiting = FALSE]
           y == [x EXCEPT !.lease = TRUE]
           R == [req EXCEPT ![r] = x]
           N == Failed(node, n)
           P == pending \ {n}
<1>1. /\ req \in [Request -> RequestRecord] /\ node \in [Request -> NodeRecord]
      /\ req[r] \in RequestRecord
      /\ [req EXCEPT ![r].waiting = TRUE] = [req EXCEPT ![r] = w]
      /\ [req EXCEPT ![r].waiting = FALSE] = R
      /\ [R EXCEPT ![r].lease = TRUE] = [req EXCEPT ![r] = y]
      /\ req[r].waiting => req[r].st # "new"
  BY DEF CInv, IInv, WellFormed
<1>2. /\ x \in RequestRecord /\ x.st = req[r].st /\ x.node = n
      /\ w.st = req[r].st /\ w.node = n
  BY <1>1, Flags
<1>3. y.st = req[r].st /\ y.node = n
  <2> HIDE DEF x, n
  <2> QED BY <1>2, Flags
<1>4. \/ req' = [req EXCEPT ![r] = w] /\ UNCHANGED <<node, count, reserved>>
      \/ req' = R /\ UNCHANGED <<node, count, reserved>>
      \/ req' = [req EXCEPT ![r] = y] /\ UNCHANGED <<node, count, reserved>>
      \/ req[r].waiting /\ ~IsOver(r) /\ ReleaseOne(R, node, pending, r)
      \/ req[r].waiting /\ ~IsOver(r) /\ ReleaseOne(R, N, P, r)
  <2> HIDE DEF R, y, w, N
  <2> QED BY <1>1 DEF Wait, Wake, N
<1> HIDE DEF w, x, y, N
<1>5. CASE req' = [req EXCEPT ![r] = w] /\ UNCHANGED <<node, count, reserved>>
  <2>1. \A q \in Request : req'[q].st = req[q].st /\ req'[q].node = req[q].node
    BY <1>1, <1>2, <1>5
  <2> QED BY <1>5, <2>1, CountersKept
<1>6. CASE req' = R /\ UNCHANGED <<node, count, reserved>>
  <2>1. \A q \in Request : req'[q].st = req[q].st /\ req'[q].node = req[q].node
    BY <1>1, <1>2, <1>6
  <2> QED BY <1>6, <2>1, CountersKept
<1>7. CASE req' = [req EXCEPT ![r] = y] /\ UNCHANGED <<node, count, reserved>>
  <2>1. \A q \in Request : req'[q].st = req[q].st /\ req'[q].node = req[q].node
    BY <1>1, <1>3, <1>7
  <2> QED BY <1>7, <2>1, CountersKept
<1>8. R[r] = x /\ \A q \in Request : R[q].st = req[q].st /\ R[q].node = req[q].node
  BY <1>1, <1>2
<1>9. ASSUME req[r].waiting, ~IsOver(r)  PROVE R[r].st = "held" /\ n \in Request
  BY <1>1, <1>2, <1>8, <1>9 DEF IsOver, RequestRecord, CInv, IInv, WellFormed
<1> HIDE DEF R
<1>10. CASE req[r].waiting /\ ~IsOver(r) /\ ReleaseOne(R, node, pending, r)
  BY <1>1, <1>8, <1>9, <1>10, ReleaseCounts
<1>11. CASE req[r].waiting /\ ~IsOver(r) /\ ReleaseOne(R, N, P, r)
  <2> DEFINE z == [node[n] EXCEPT !.status = "failed"]
  <2>1. n \in Request /\ node[n] \in NodeRecord
    BY <1>1, <1>9, <1>11
  <2>2. z \in NodeRecord /\ z.known = node[n].known /\ z.prompt = node[n].prompt
    <3> HIDE DEF n
    <3> QED BY <2>1, FailedNode
  <2>3. /\ N \in [Request -> NodeRecord] /\ N[n] = z
        /\ \A m \in Request \ {n} : N[m] = node[m]
    BY <1>1, <2>1, <2>2 DEF N, Failed
  <2> HIDE DEF z, P, n
  <2>4. \A m \in Request : N[m].known = node[m].known /\ N[m].prompt = node[m].prompt
    BY <2>2, <2>3
  <2> QED BY <1>8, <1>9, <1>11, <2>3, <2>4, ReleaseCounts
<1> QED BY <1>4, <1>5, <1>6, <1>7, <1>10, <1>11

\* publish and fail reserve nothing; finish_producer gives an abandoned node back.
LEMMA ProducerCounts ==
  ASSUME CInv, IInv', NEW r \in Request, ProducerStep(r)
  PROVE  CInv'
<1>1. /\ node \in [Request -> NodeRecord] /\ node[r] \in NodeRecord
      /\ HeldRequests(req) \in SUBSET Request
  BY DEF CInv, IInv, WellFormed, HeldRequests
<1>2. CASE Publish(r) \/ Fail(r)
  <2> DEFINE p == [node EXCEPT ![r].status = "published", ![r].result = TRUE]
             f == [node EXCEPT ![r].status = "failed"]
  <2>1. /\ node' = p \/ node' = f
        /\ UNCHANGED <<req, count, reserved>>
    BY <1>2 DEF Publish, Fail, Failed
  <2>2. \A n \in Request : p[n].known = node[n].known /\ p[n].prompt = node[n].prompt
    BY <1>1 DEF NodeRecord
  <2>3. \A n \in Request : f[n].known = node[n].known /\ f[n].prompt = node[n].prompt
    BY <1>1 DEF NodeRecord
  <2> HIDE DEF p, f
  <2>4. \A n \in Request : node'[n].known = node[n].known /\ node'[n].prompt = node[n].prompt
    BY <2>1, <2>2, <2>3
  <2> QED BY <2>1, <2>4, CountersKept
<1>3. CASE Finish(r)
  <2> DEFINE y == [node[r] EXCEPT !.active = FALSE]
             x == [y EXCEPT !.status = IF @ = "pending" THEN "failed" ELSE @]
             N == [node EXCEPT ![r] = x]
             P == pending \ {r}
  <2>1. Settle(req, N, P, {}, {r})
    BY <1>1, <1>3 DEF Finish
  <2>2. y \in NodeRecord /\ y.known = node[r].known /\ y.prompt = node[r].prompt
    BY <1>1 DEF NodeRecord
  <2> HIDE DEF y
  <2>3. x \in NodeRecord /\ x.known = node[r].known /\ x.prompt = node[r].prompt
    BY <2>2 DEF NodeRecord
  <2> HIDE DEF x
  <2>4. /\ N \in [Request -> NodeRecord]
        /\ \A n \in Request : N[n].known = node[n].known /\ N[n].prompt = node[n].prompt
    BY <1>1, <2>3
  <2>5. /\ {} \in SUBSET HeldRequests(req) /\ {r} \in SUBSET Request
        /\ HeldRequests(req) = HeldRequests(req) \ {}
        /\ \A q \in HeldRequests(req) : req[q].node = req[q].node
    OBVIOUS
  <2> HIDE DEF N, P
  <2> QED BY <2>1, <2>4, <2>5, SettleCounts
<1> QED BY <1>2, <1>3 DEF ProducerStep

\* close gives back every request without a branch and every node that is left
\* without requests and producer.
LEMMA CloseCounts ==
  ASSUME CInv, IInv', Close
  PROVE  CInv'
<1> DEFINE held == {r \in Request : req[r].st = "held"}
           Q == {r \in held : ~req[r].cancelled /\ ~req[r].lease}
           C == [r \in Request |-> IF r \in held THEN [req[r] EXCEPT !.cancelled = TRUE] ELSE req[r]]
           N == [n \in Request |-> [node[n] EXCEPT !.cancel = @ \/ (node[n].known /\ node[n].active)]]
           M == {n \in Request : node[n].known}
           R == ReleaseAll(C, Q)
<1>1. Settle(R, N, {}, Q, M)
  BY DEF Close
<1>2. req \in [Request -> RequestRecord] /\ node \in [Request -> NodeRecord]
  BY DEF CInv, IInv, WellFormed
<1>3. \A r \in Request : C[r].st = req[r].st /\ C[r].node = req[r].node
  BY <1>2, Flags
<1>4. Q \in SUBSET HeldRequests(req) /\ M \in SUBSET Request
  BY DEF HeldRequests
<1> HIDE DEF C
<1>5. \A r \in Request : \/ r \in Q /\ R[r] = ReleasedRequest(C[r].waiting)
                         \/ r \notin Q /\ R[r] = C[r]
  BY DEF ReleaseAll
<1>6. \A v : ReleasedRequest(v).st = "released"
  BY DEF ReleasedRequest
<1> HIDE DEF R, Q, M
<1>7. /\ HeldRequests(R) = HeldRequests(req) \ Q
      /\ \A r \in HeldRequests(R) : R[r].node = req[r].node
  BY <1>3, <1>5, <1>6 DEF HeldRequests
<1>8. \A n \in Request :
        N[n] \in NodeRecord /\ N[n].known = node[n].known /\ N[n].prompt = node[n].prompt
  <2> TAKE n \in Request
  <2> DEFINE b == node[n].cancel \/ (node[n].known /\ node[n].active)
             x == node[n]
             y == [x EXCEPT !.cancel = b]
  <2>1. x \in NodeRecord /\ b \in BOOLEAN /\ N[n] = y
    BY <1>2 DEF NodeRecord
  <2> HIDE DEF b, x, N
  <2>2. y \in NodeRecord /\ y.known = x.known /\ y.prompt = x.prompt
    BY <2>1 DEF NodeRecord
  <2> QED BY <2>1, <2>2 DEF x
<1>9. N \in [Request -> NodeRecord]
  BY <1>8
<1> HIDE DEF N
<1> QED BY <1>1, <1>4, <1>7, <1>8, <1>9, SettleCounts

\* lookup_or_register counts what it admits, and there was room for it.
LEMMA JoinCounts ==
  ASSUME CInv, IInv', NEW r \in Request, NEW n \in Request, NEW prompt, Join(r, n, prompt)
  PROVE  CInv'
<1> DEFINE b == BranchBytes(Len(node[n].prompt))
           H == HeldRequests(req)
           h == RequestBytes(node, req)
           hh == RequestBytes(node', req')
           total == SumBy(NodeBytes(node), KnownNodes(node))
<1>1. /\ req' = [req EXCEPT ![r] = HeldFor(n)] /\ req[r].st = "new"
      /\ count' = count + 1 /\ reserved' = reserved + b
      /\ count < MaxRequests /\ reserved + b <= MaxBytes /\ node' = node
  BY DEF Join, Admit, HasRoom
<1>2. HeldFor(n).st = "held" /\ HeldFor(n).node = n
  BY DEF HeldFor
<1>3. /\ IsFiniteSet(H) /\ IsFiniteSet(KnownNodes(node)) /\ count = Cardinality(H)
      /\ reserved = total + SumBy(h, H)
      /\ count <= MaxRequests /\ reserved <= MaxBytes /\ Cardinality(KnownNodes(node)) <= MaxNodes
  BY DEF CInv, Counted, Bounded
<1>4. req'[r] = HeldFor(n) /\ \A q \in Request \ {r} : req'[q] = req[q]
  BY <1>1 DEF CInv, IInv, WellFormed
<1>5. HeldRequests(req') = H \cup {r} /\ r \notin H
  BY <1>1, <1>2, <1>4 DEF HeldRequests
<1>6. hh[r] = b /\ \A q \in H : hh[q] = h[q]
  BY <1>1, <1>2, <1>4, <1>5 DEF RequestBytes, RequestReservation, HeldRequests
<1>7. \A q \in H : h[q] \in Nat /\ h[q] \in Int
  BY TermsAreNat DEF CInv, IInv
<1>8. b \in Int
  BY BytesAreNat DEF CInv, IInv, WellFormed
<1>9. total \in Int
  <2>1. \A m \in KnownNodes(node) : NodeBytes(node)[m] \in Int
    BY TermsAreNat DEF CInv, IInv, KnownNodes
  <2> QED BY <1>3, <2>1, SumIsInt
<1> HIDE DEF b, H, h, hh, total
<1>10. SumBy(hh, H \cup {r}) = SumBy(hh, H) + b
  <2>1. \A q \in H \cup {r} : hh[q] \in Int
    BY <1>6, <1>7, <1>8
  <2> QED BY <1>3, <1>5, <1>6, <2>1, SumAdd
<1>11. SumBy(hh, H) = SumBy(h, H) /\ SumBy(h, H) \in Int
  <2>1. \A q \in H : h[q] \in Int /\ hh[q] = h[q]
    BY <1>6, <1>7
  <2> QED BY <1>3, <2>1, SumEqual, SumIsInt
<1>12. reserved' = total + SumBy(hh, H \cup {r})
  BY <1>1, <1>3, <1>8, <1>9, <1>10, <1>11
<1>13. IsFiniteSet(H \cup {r}) /\ count' = Cardinality(H \cup {r}) /\ count \in Nat
  BY <1>1, <1>3, <1>5, FS_AddElement, FS_CardinalityType
<1>14. Counted'
  BY <1>1, <1>3, <1>5, <1>12, <1>13 DEF Counted, H, hh, total
<1>15. Bounded'
  <2>1. MaxRequests \in Nat
    BY OwnerBounds
  <2> QED BY <1>1, <1>3, <1>13, <2>1 DEF Bounded
<1> QED BY <1>14, <1>15 DEF CInv

\* A producer reserves for its node and for its own branch.
LEMMA ElectCounts ==
  ASSUME CInv, IInv', NEW r \in Request, NEW prompt \in Prompt, Elect(r, prompt)
  PROVE  CInv'
<1> DEFINE b == BranchBytes(Len(prompt))
           p == ProducerBytes(Len(prompt))
           H == HeldRequests(req)
           K == KnownNodes(node)
           h == RequestBytes(node, req)
           k == NodeBytes(node)
           hh == RequestBytes(node', req')
           kk == NodeBytes(node')
<1>1. /\ req' = [req EXCEPT ![r] = HeldFor(r)] /\ req[r].st = "new"
      /\ node' = [node EXCEPT ![r] = NewNode(prompt)]
      /\ count' = count + 1 /\ reserved' = reserved + (b + p)
      /\ count < MaxRequests /\ reserved + (b + p) <= MaxBytes
      /\ Cardinality(K) < MaxNodes
  BY DEF Elect, Admit, HasRoom, KnownNodes
<1>2. /\ HeldFor(r).st = "held" /\ HeldFor(r).node = r
      /\ NewNode(prompt).known /\ NewNode(prompt).prompt = prompt
  BY DEF HeldFor, NewNode
<1>3. /\ IsFiniteSet(H) /\ IsFiniteSet(K) /\ count = Cardinality(H)
      /\ reserved = SumBy(k, K) + SumBy(h, H)
      /\ count <= MaxRequests /\ reserved <= MaxBytes /\ Cardinality(K) <= MaxNodes
  BY DEF CInv, Counted, Bounded
<1>4. /\ req'[r] = HeldFor(r) /\ \A q \in Request \ {r} : req'[q] = req[q]
      /\ node'[r] = NewNode(prompt) /\ \A n \in Request \ {r} : node'[n] = node[n]
  BY <1>1 DEF CInv, IInv, WellFormed
<1>5. ~node[r].known
  BY <1>1 DEF CInv, IInv, Consistent
<1>6. /\ HeldRequests(req') = H \cup {r} /\ r \notin H
      /\ KnownNodes(node') = K \cup {r} /\ r \notin K
  BY <1>1, <1>2, <1>4, <1>5 DEF HeldRequests, KnownNodes
<1>7. hh[r] = b /\ kk[r] = p /\ \A n \in K : kk[n] = k[n]
  BY <1>2, <1>4, <1>6 DEF RequestBytes, RequestReservation, NodeBytes, NodeReservation, KnownNodes
<1>8. \A q \in H : hh[q] = h[q]
  <2> TAKE q \in H
  <2>1. q \in Request /\ q # r /\ req[q].node \in Request /\ req[q].node # r
    BY <1>5, <1>6 DEF HeldRequests, CInv, IInv, WellFormed
  <2> QED BY <1>4, <2>1 DEF RequestBytes, RequestReservation
<1>9. /\ \A q \in H : h[q] \in Int
      /\ \A n \in K : k[n] \in Int
  BY TermsAreNat DEF CInv, IInv, KnownNodes
<1>10. b \in Int /\ p \in Int
  <2>1. node' \in [Request -> NodeRecord]
    BY DEF IInv, WellFormed
  <2> QED BY <1>2, <1>4, <2>1, BytesAreNat
<1> HIDE DEF b, p, H, K, h, k, hh, kk
<1>11. SumBy(hh, H \cup {r}) = SumBy(hh, H) + b
  <2>1. \A q \in H \cup {r} : hh[q] \in Int
    BY <1>7, <1>8, <1>9, <1>10
  <2> QED BY <1>3, <1>6, <1>7, <2>1, SumAdd
<1>12. SumBy(kk, K \cup {r}) = SumBy(kk, K) + p
  <2>1. \A n \in K \cup {r} : kk[n] \in Int
    BY <1>7, <1>9, <1>10
  <2> QED BY <1>3, <1>6, <1>7, <2>1, SumAdd
<1>13. SumBy(hh, H) = SumBy(h, H) /\ SumBy(h, H) \in Int
  <2>1. \A q \in H : h[q] \in Int /\ hh[q] = h[q]
    BY <1>8, <1>9
  <2> QED BY <1>3, <2>1, SumEqual, SumIsInt
<1>14. SumBy(kk, K) = SumBy(k, K) /\ SumBy(k, K) \in Int
  <2>1. \A n \in K : k[n] \in Int /\ kk[n] = k[n]
    BY <1>7, <1>9
  <2> QED BY <1>3, <2>1, SumEqual, SumIsInt
<1>15. reserved' = SumBy(kk, K \cup {r}) + SumBy(hh, H \cup {r})
  BY <1>1, <1>3, <1>10, <1>11, <1>12, <1>13, <1>14
<1>16. /\ IsFiniteSet(H \cup {r}) /\ count' = Cardinality(H \cup {r}) /\ count \in Nat
       /\ IsFiniteSet(K \cup {r}) /\ Cardinality(K \cup {r}) = Cardinality(K) + 1
       /\ Cardinality(K) \in Nat
  BY <1>1, <1>3, <1>6, FS_AddElement, FS_CardinalityType
<1>17. Counted'
  BY <1>6, <1>15, <1>16 DEF Counted, H, hh, K, kk
<1>18. Bounded'
  <2>1. MaxRequests \in Nat /\ MaxNodes \in Nat
    BY OwnerBounds
  <2>2. count' <= MaxRequests
    BY <1>1, <1>16, <2>1
  <2>3. reserved' <= MaxBytes
    BY <1>1
  <2>4. Cardinality(K \cup {r}) <= MaxNodes
    BY <1>1, <1>16, <2>1
  <2>5. KnownNodes(node') = K \cup {r}
    BY <1>6
  <2> QED BY <2>2, <2>3, <2>4, <2>5 DEF Bounded
<1> QED BY <1>17, <1>18 DEF CInv

\* Nothing is counted at first.
LEMMA InitCounts ==
  ASSUME Init
  PROVE  CInv
<1>1. IInv
  BY InitInvariant
<1>2. HeldRequests(req) = {} /\ KnownNodes(node) = {}
  BY DEF Init, NoRequest, Unused, HeldRequests, KnownNodes
<1>3. IsFiniteSet({}) /\ Cardinality({}) = 0 /\ \A f : SumBy(f, {}) = 0
  BY FS_EmptySet, SumStep
<1>4. count = 0 /\ reserved = 0
  BY DEF Init
<1>5. Counted
  BY <1>2, <1>3, <1>4 DEF Counted
<1>6. Bounded
  BY <1>2, <1>3, <1>4, OwnerBounds DEF Bounded
<1> QED BY <1>1, <1>5, <1>6 DEF CInv

\* Every step keeps the counters exact.
LEMMA NextCounts ==
  ASSUME CInv, [Next]_vars
  PROVE  CInv'
<1>1. IInv'
  BY NextInvariant DEF CInv
<1>2. CASE UNCHANGED vars
  <2>1. UNCHANGED <<req, node, count, reserved>>
    BY <1>2 DEF vars
  <2> QED BY <1>1, <2>1, CountersKept
<1>3. CASE Close
  BY <1>1, <1>3, CloseCounts
<1>4. ASSUME NEW r \in Request, Lookup(r)
      PROVE  CInv'
  BY <1>1, <1>4, ElectCounts, JoinCounts DEF Lookup
<1>5. ASSUME NEW r \in Request, ProducerStep(r)
      PROVE  CInv'
  BY <1>1, <1>5, ProducerCounts
<1>6. ASSUME NEW r \in Request, Wait(r) \/ Wake(r) \/ TimeOut(r) \/ Cancel(r) \/ Release(r)
      PROVE  CInv'
  BY <1>1, <1>6, WaitWakeCounts, TimeOutCounts, CancelReleaseCounts
<1> QED BY <1>2, <1>3, <1>4, <1>5, <1>6 DEF Next

\* The counters are the sum of what known nodes and held requests reserved, and
\* within their bounds, at every step: a reservation is given back exactly once,
\* by whichever of release, cancel, time-out, finish and close gets to it.
THEOREM CountersAreExact == Spec => []ReservationsAreExact
<1>1. ASSUME CInv PROVE ReservationsAreExact
  <2>1. /\ reserved = ReservedBy(node, KnownNodes(node)) + ReservedFor(node, req, HeldRequests(req))
    <3>1. KnownNodes(node) \in SUBSET Request /\ HeldRequests(req) \in SUBSET Request
      BY DEF KnownNodes, HeldRequests
    <3> QED BY <1>1, <3>1, ReservedForIsSum, ReservedByIsSum DEF CInv, Counted
  <2>2. count = Cardinality(HeldRequests(req)) /\ Bounded
    BY <1>1 DEF CInv, Counted
  <2> QED
    BY <2>1, <2>2
    DEF ReservationsAreExact, Bounded, ReservedBy, ReservedFor, KnownNodes, HeldRequests
<1>2. Init => CInv
  BY InitCounts
<1>3. CInv /\ [Next]_vars => CInv'
  BY NextCounts
<1> QED BY <1>1, <1>2, <1>3, PTL DEF Spec
-----------------------------------------------------------------------------
(* The attempts around the owner (PreparedAttempts), and their queue.       *)

\* What PreparedQueue knows of its line.
Lined ==
  /\ Queue!TypeOK /\ IsFiniteSet(scopes)
  /\ Queue!LineIsTheWaiting

OnlinePlace == {"active", "opened", "prefilling", "prefilled", "decoding", "feeding"}

\* Where an attempt may own the turn, its node, and its claim.
TurnPlace == OnlinePlace \cup {"unwind", "stopping", "failing", "finished", "released"}

NodePlace ==
  OnlinePlace \cup {"joined", "waiting", "ready", "queued", "unwind", "stopping", "failing"}

ClaimPlace == NodePlace \cup {"finished"}

\* Where an attempt has no branch yet.
EarlyPlace == {"new", "admitted", "registered", "setup", "looked"}

AttemptRecord ==
  [pc : Place, event : BOOLEAN, swept : BOOLEAN, registered : BOOLEAN,
   cancelled : BOOLEAN, role : {"none", "producer", "joiner"}, bound : BOOLEAN,
   published : BOOLEAN, finished : BOOLEAN, stop : BOOLEAN, broke : BOOLEAN]

\* Attempt a, whose record is x, and the queue.
Seated(a, x) ==
  /\ a \in scopes <=> x.pc \notin {"new", "closed", "over"}
  /\ a \in waiting <=> x.pc = "queued"
  /\ active = a => x.pc \in TurnPlace
  /\ x.pc \in OnlinePlace => active = a
  /\ x.pc = "stopping" => closing

\* Its cancellation.
Told(x) ==
  /\ x.swept => x.event
  /\ x.registered /\ x.swept => x.cancelled
  /\ x.bound => x.pc \notin EarlyPlace
  /\ x.published => x.bound

\* Its claim q.
Claims(x, q) ==
  q.st = "held" =>
    /\ x.pc = "looked" \/ (x.bound /\ x.pc \in ClaimPlace)
    /\ q.cancelled => x.cancelled
    /\ x.cancelled /\ x.bound => q.lease

\* Its node n.
Runs(x, n) ==
  n.active =>
    /\ x.role = "producer"
    /\ x.pc = "looked" \/ (x.bound /\ x.pc \in NodePlace)
    /\ x.published \/ x.pc = "failing" => n.status # "pending"
    /\ x.pc \in {"unwind", "stopping"} /\ ~x.published => x.broke \/ closing \/ n.cancel

\* Its prefill.
Prefills(x) ==
  /\ x.pc \in {"prefilled", "decoding", "feeding"} /\ x.bound /\ x.role = "producer" => x.published
  /\ x.finished => x.pc \in {"failing", "finished", "released", "closed"}
  /\ x.pc \in {"joined", "waiting"} => x.role = "joiner"

Fits(a) ==
  /\ Seated(a, att[a]) /\ Told(att[a]) /\ Claims(att[a], req[a]) /\ Runs(att[a], node[a])
  /\ Prefills(att[a])

OInv ==
  /\ IInv /\ Lined
  /\ closing \in BOOLEAN /\ (closed \/ queueClosed => closing)
  /\ att \in [Request -> AttemptRecord]
  /\ \A a \in Request : Fits(a)

-----------------------------------------------------------------------------
\* deque.remove of an element that is there once.
LEMMA RemoveOne ==
  ASSUME NEW s \in Seq(Request), Queue!IsInjective(s), NEW k \in 1 .. Len(s)
  PROVE  LET t == Queue!RemoveFirst(s, s[k])
         IN  /\ t \in Seq(Request) /\ Len(t) = Len(s) - 1
             /\ \A i \in 1 .. Len(t) : t[i] = IF i < k THEN s[i] ELSE s[i + 1]
<1> DEFINE I == {i \in 1 .. Len(s) : s[i] = s[k]}
<1>1. I = {k}
  BY DEF Queue!IsInjective
<1>2. Queue!Min({k}) = k
  BY DEF Queue!Min
<1>3. \E i \in 1 .. Len(s) : s[i] = s[k]
  OBVIOUS
<1>4. Queue!RemoveFirst(s, s[k]) = Queue!RemoveAt(s, IF I # {} THEN Queue!Min(I) ELSE 0)
  <2> HIDE DEF I
  <2>1. Queue!RemoveFirst(s, s[k]) = Queue!RemoveAt(s, Queue!SelectInSeq(s, LAMBDA v : v = s[k]))
    BY <1>3 DEF Queue!RemoveFirst
  <2> QED BY <2>1 DEF Queue!SelectInSeq, I
<1>5. Queue!RemoveFirst(s, s[k]) = SubSeq(s, 1, k - 1) \o SubSeq(s, k + 1, Len(s))
  BY <1>1, <1>2, <1>4 DEF Queue!RemoveAt
<1> DEFINE p == SubSeq(s, 1, k - 1)
           q == SubSeq(s, k + 1, Len(s))
<1>6. p \in Seq(Request) /\ Len(p) = k - 1 /\ \A i \in 1 .. k - 1 : p[i] = s[i]
  OBVIOUS
<1>7. q \in Seq(Request) /\ Len(q) = Len(s) - k /\ \A i \in 1 .. Len(s) - k : q[i] = s[i + k]
  OBVIOUS
<1> HIDE DEF p, q
<1>8. /\ p \o q \in Seq(Request) /\ Len(p \o q) = Len(s) - 1
      /\ \A i \in 1 .. Len(s) - 1 : (p \o q)[i] = IF i < k THEN p[i] ELSE q[i - (k - 1)]
  <2>1. p \in Seq(Request) /\ q \in Seq(Request)
    BY <1>6, <1>7
  <2>2. /\ p \o q \in Seq(Request) /\ Len(p \o q) = Len(p) + Len(q)
        /\ \A i \in 1 .. Len(p) + Len(q) :
             (p \o q)[i] = IF i <= Len(p) THEN p[i] ELSE q[i - Len(p)]
    BY ONLY <2>1
  <2> QED BY <1>6, <1>7, <2>2
<1>9. ASSUME NEW i \in 1 .. Len(s) - 1
      PROVE  (p \o q)[i] = IF i < k THEN s[i] ELSE s[i + 1]
  <2>1. CASE i < k
    BY <1>6, <1>8, <2>1
  <2>2. CASE ~(i < k)
    <3>1. i - (k - 1) \in 1 .. Len(s) - k /\ (i - (k - 1)) + k = i + 1
      BY <2>2
    <3> QED BY <1>7, <1>8, <2>2, <3>1
  <2> QED BY <2>1, <2>2
<1> QED BY <1>5, <1>8, <1>9 DEF p, q

\* ... keeps the order of the others,
LEMMA RemoveKeeps ==
  ASSUME NEW s \in Seq(Request), Queue!IsInjective(s), NEW k \in 1 .. Len(s)
  PROVE  LET t == Queue!RemoveFirst(s, s[k])
         IN  /\ t \in Seq(Request) /\ Queue!IsInjective(t)
             /\ Queue!Range(t) = Queue!Range(s) \ {s[k]}
             /\ \A i, j \in 1 .. Len(s) : i < j /\ i # k /\ j # k =>
                  \E x, y \in 1 .. Len(t) : x < y /\ t[x] = s[i] /\ t[y] = s[j]
<1> DEFINE t == Queue!RemoveFirst(s, s[k])
<1>1. /\ t \in Seq(Request) /\ Len(t) = Len(s) - 1
      /\ \A i \in 1 .. Len(t) : t[i] = IF i < k THEN s[i] ELSE s[i + 1]
  BY RemoveOne
<1>2. DOMAIN t = 1 .. Len(t) /\ DOMAIN s = 1 .. Len(s) /\ Len(s) \in Nat
  BY <1>1
<1> HIDE DEF t
<1> DEFINE at(i) == IF i < k THEN i ELSE i + 1
           to(i) == IF i < k THEN i ELSE i - 1
<1>3. \A i \in 1 .. Len(t) : at(i) \in 1 .. Len(s) /\ at(i) # k /\ t[i] = s[at(i)]
  BY <1>1, <1>2
<1>4. \A i \in 1 .. Len(s) : i # k => to(i) \in 1 .. Len(t) /\ at(to(i)) = i
  BY <1>1, <1>2
<1>5. Queue!IsInjective(t)
  <2>1. \A i, j \in 1 .. Len(t) : at(i) = at(j) => i = j
    OBVIOUS
  <2> HIDE DEF at
  <2> QED BY <1>2, <1>3, <2>1 DEF Queue!IsInjective
<1>6. Queue!Range(t) = Queue!Range(s) \ {s[k]}
  <2>1. \A i \in 1 .. Len(s) : s[i] = s[k] => i = k
    BY <1>2 DEF Queue!IsInjective
  <2>2. \A i \in 1 .. Len(s) : i # k => to(i) \in 1 .. Len(t) /\ t[to(i)] = s[i]
    BY <1>3, <1>4
  <2> HIDE DEF at, to
  <2> QED BY <1>2, <1>3, <2>1, <2>2 DEF Queue!Range
<1>7. ASSUME NEW i \in 1 .. Len(s), NEW j \in 1 .. Len(s), i < j, i # k, j # k
      PROVE  \E x, y \in 1 .. Len(t) : x < y /\ t[x] = s[i] /\ t[y] = s[j]
  <2>1. to(i) < to(j)
    BY <1>7
  <2>2. /\ to(i) \in 1 .. Len(t) /\ t[to(i)] = s[i]
        /\ to(j) \in 1 .. Len(t) /\ t[to(j)] = s[j]
    BY <1>3, <1>4, <1>7
  <2> HIDE DEF to
  <2> QED BY <2>1, <2>2
<1> QED BY <1>1, <1>5, <1>6, <1>7 DEF t

\* The line, from one step of the queue to the next (FirstReadyFirstServed).
InTurn ==
  \A s, t \in Request : Queue!Before(s, t) /\ s \in waiting' /\ s \in scopes' =>
    /\ active' # t
    /\ t \in Queue!Range(ready') => Queue!Before(s, t)'

\* Leaving the line keeps the order of the others.
LEMMA LineWithout ==
  ASSUME NEW a \in Request, ready \in Seq(Request), Queue!IsInjective(ready),
         ready' = Queue!RemoveFirst(ready, a)
  PROVE  /\ ready' \in Seq(Request) /\ Queue!IsInjective(ready')
         /\ Queue!Range(ready') = Queue!Range(ready) \ {a}
         /\ \A s, t \in Request \ {a} : Queue!Before(s, t) => Queue!Before(s, t)'
<1>1. CASE \E k \in 1 .. Len(ready) : ready[k] = a
  <2>1. PICK k \in 1 .. Len(ready) : ready[k] = a
    BY <1>1
  <2> DEFINE t == Queue!RemoveFirst(ready, ready[k])
  <2>2. /\ t \in Seq(Request) /\ Queue!IsInjective(t)
        /\ Queue!Range(t) = Queue!Range(ready) \ {ready[k]}
        /\ \A i, j \in 1 .. Len(ready) : i < j /\ i # k /\ j # k =>
             \E x, y \in 1 .. Len(t) : x < y /\ t[x] = ready[i] /\ t[y] = ready[j]
    BY RemoveKeeps
  <2>3. ready' = t
    BY <2>1
  <2> HIDE DEF t
  <2>4. DOMAIN ready = 1 .. Len(ready) /\ DOMAIN ready' = 1 .. Len(ready')
    BY <2>2, <2>3
  <2>5. ASSUME NEW x \in Request \ {a}, NEW y \in Request \ {a}, Queue!Before(x, y)
        PROVE  Queue!Before(x, y)'
    <3>1. PICK i, j \in DOMAIN ready : i < j /\ ready[i] = x /\ ready[j] = y
      BY <2>5 DEF Queue!Before
    <3>2. i # k /\ j # k
      BY <2>1, <3>1
    <3>3. PICK m, n \in 1 .. Len(t) : m < n /\ t[m] = ready[i] /\ t[n] = ready[j]
      BY <2>2, <2>4, <3>1, <3>2
    <3> QED BY <2>3, <2>4, <3>1, <3>3 DEF Queue!Before
  <2> QED BY <2>1, <2>2, <2>3, <2>5
<1>2. CASE ~\E k \in 1 .. Len(ready) : ready[k] = a
  <2>1. ready' = ready
    BY <1>2 DEF Queue!RemoveFirst
  <2>2. a \notin Queue!Range(ready)
    BY <1>2 DEF Queue!Range
  <2> QED BY <2>1, <2>2 DEF Queue!Before
<1> QED BY <1>1, <1>2

-----------------------------------------------------------------------------
LEMMA Counts == ASSUME NEW S PROVE Queue!Cardinality(S) = Cardinality(S)
BY DEF Queue!Cardinality, Cardinality

\* Who is before somebody in the line waits, and so does the other.
LEMMA LineWaits ==
  ASSUME Lined, NEW s, NEW t, Queue!Before(s, t)
  PROVE  s # t /\ s \in waiting /\ t \in waiting /\ s \in scopes /\ t \in scopes
<1>1. PICK i, j \in DOMAIN ready : i < j /\ ready[i] = s /\ ready[j] = t
  BY DEF Queue!Before
<1>2. s \in Queue!Range(ready) /\ t \in Queue!Range(ready)
  BY <1>1 DEF Queue!Range
<1>3. DOMAIN ready = 1 .. Len(ready) /\ Len(ready) \in Nat
  BY DEF Lined, Queue!TypeOK
<1>4. i # j
  BY <1>1, <1>3
<1>5. s # t
  BY <1>1, <1>4 DEF Lined, Queue!LineIsTheWaiting, Queue!IsInjective
<1> QED BY <1>2, <1>5 DEF Lined, Queue!LineIsTheWaiting

\* A step that leaves the line as it is, whose owners of the turn do not wait.
LEMMA SameLine ==
  ASSUME Lined, active \notin waiting, ready' = ready, active' \in {active, NoScope}
  PROVE  InTurn
<1>1. NoScope \notin waiting
  BY AttemptBounds DEF Lined, Queue!TypeOK
<1>2. ASSUME NEW s \in Request, NEW t \in Request, Queue!Before(s, t)
      PROVE  active' # t /\ Queue!Before(s, t)'
  <2>1. t \in waiting
    BY <1>2, LineWaits
  <2>2. active' # t
    BY <1>1, <2>1
  <2> QED BY <1>2, <2>2 DEF Queue!Before
<1> QED BY <1>2 DEF InTurn

LEMMA AdmitLine ==
  ASSUME Lined, active \notin waiting, NEW a \in Request, Queue!Admit(a)
  PROVE  Lined' /\ InTurn
<1>1. /\ a \notin created /\ Cardinality(scopes) < Maximum
      /\ created' = created \cup {a} /\ scopes' = scopes \cup {a}
      /\ UNCHANGED <<entered, waiting, ready, active, queueClosed>>
  BY Counts DEF Queue!Admit
<1>2. IsFiniteSet(scopes') /\ Cardinality(scopes') <= Maximum
  <2>1. IsFiniteSet(scopes) /\ Cardinality(scopes) \in Nat
    BY FS_CardinalityType DEF Lined
  <2>2. /\ IsFiniteSet(scopes \cup {a})
        /\ Cardinality(scopes \cup {a}) \in {Cardinality(scopes), Cardinality(scopes) + 1}
    BY <2>1, FS_AddElement
  <2> QED BY <1>1, <2>1, <2>2, AttemptBounds
<1>3. Queue!TypeOK'
  BY <1>1, <1>2, Counts DEF Lined, Queue!TypeOK
<1>4. waiting \cap scopes' = waiting \cap scopes
  BY <1>1 DEF Lined, Queue!TypeOK
<1>5. Queue!LineIsTheWaiting'
  BY <1>1, <1>4 DEF Lined, Queue!LineIsTheWaiting
<1>6. InTurn
  BY <1>1, SameLine
<1> QED BY <1>2, <1>3, <1>5, <1>6 DEF Lined

LEMMA CloseLine ==
  ASSUME Lined, active \notin waiting, Queue!Close
  PROVE  Lined' /\ InTurn
<1>1. queueClosed' = TRUE /\ UNCHANGED <<created, scopes, entered, waiting, ready, active>>
  BY DEF Queue!Close
<1>2. Lined'
  BY <1>1 DEF Lined, Queue!TypeOK, Queue!LineIsTheWaiting
<1> QED BY <1>1, <1>2, SameLine

LEMMA EnterLine ==
  ASSUME Lined, active \notin waiting, NEW a \in Request, Queue!Enter(a)
  PROVE  Lined' /\ InTurn
<1>1. /\ a \in scopes /\ a \notin entered
      /\ entered' = entered \cup {a} /\ waiting' = waiting \cup {a}
      /\ ready' = Append(ready, a)
      /\ UNCHANGED <<created, scopes, active, queueClosed>>
  BY DEF Queue!Enter
<1>2. ready \in Seq(Request) /\ Len(ready) \in Nat /\ a \notin Queue!Range(ready)
  BY <1>1 DEF Lined, Queue!TypeOK, Queue!LineIsTheWaiting
<1>3. /\ ready' \in Seq(Request) /\ DOMAIN ready = 1 .. Len(ready)
      /\ DOMAIN ready' = 1 .. Len(ready) + 1
      /\ ready'[Len(ready) + 1] = a
      /\ \A i \in 1 .. Len(ready) : ready'[i] = ready[i]
  BY <1>1, <1>2
<1>4. \A i \in 1 .. Len(ready) : ready[i] # a
  BY <1>2, <1>3 DEF Queue!Range
<1>5. Queue!TypeOK'
  BY <1>1, <1>3 DEF Lined, Queue!TypeOK
<1>6. Queue!Range(ready') = Queue!Range(ready) \cup {a}
  BY <1>2, <1>3 DEF Queue!Range
<1>7. Queue!IsInjective(ready')
  BY <1>2, <1>3, <1>4 DEF Lined, Queue!LineIsTheWaiting, Queue!IsInjective
<1>8. Lined'
  BY <1>1, <1>5, <1>6, <1>7 DEF Lined, Queue!LineIsTheWaiting
<1>9. ASSUME NEW s \in Request, NEW t \in Request, Queue!Before(s, t)
      PROVE  active' # t /\ Queue!Before(s, t)'
  <2>1. active' # t
    BY <1>1, <1>9, LineWaits
  <2>2. PICK i, j \in DOMAIN ready : i < j /\ ready[i] = s /\ ready[j] = t
    BY <1>9 DEF Queue!Before
  <2>3. i \in DOMAIN ready' /\ j \in DOMAIN ready' /\ ready'[i] = s /\ ready'[j] = t
    BY <1>2, <1>3, <2>2
  <2> QED BY <2>1, <2>2, <2>3 DEF Queue!Before
<1> QED BY <1>8, <1>9 DEF InTurn

\* A step after which a is no longer in the line.
LEMMA LeaveLine ==
  ASSUME Lined, active \notin waiting, NEW a \in Request,
         ready' = Queue!RemoveFirst(ready, a), active' \in {active, NoScope},
         a \notin waiting' \/ a \notin scopes'
  PROVE  /\ ready' \in Seq(Request) /\ Queue!IsInjective(ready')
         /\ Queue!Range(ready') = (waiting \cap scopes) \ {a}
         /\ InTurn
<1>1. /\ ready \in Seq(Request) /\ Queue!IsInjective(ready)
      /\ Queue!Range(ready) = waiting \cap scopes
  BY DEF Lined, Queue!TypeOK, Queue!LineIsTheWaiting
<1>2. /\ ready' \in Seq(Request) /\ Queue!IsInjective(ready')
      /\ Queue!Range(ready') = Queue!Range(ready) \ {a}
      /\ \A s, t \in Request \ {a} : Queue!Before(s, t) => Queue!Before(s, t)'
  BY <1>1, LineWithout
<1>3. NoScope \notin waiting
  BY AttemptBounds DEF Lined, Queue!TypeOK
<1>4. ASSUME NEW s \in Request, NEW t \in Request, Queue!Before(s, t),
             s \in waiting', s \in scopes'
      PROVE  active' # t /\ (t \in Queue!Range(ready') => Queue!Before(s, t)')
  <2>1. active' # t
    BY <1>3, <1>4, LineWaits
  <2>2. s # a
    BY <1>4
  <2> QED BY <1>2, <1>4, <2>1, <2>2
<1>5. InTurn
  BY <1>4 DEF InTurn
<1> QED BY <1>1, <1>2, <1>5

LEMMA LeaveQueue ==
  ASSUME Lined, active \notin waiting, NEW a \in Request, Queue!Leave(a)
  PROVE  Lined' /\ InTurn /\ UNCHANGED <<scopes, active>>
<1>1. /\ waiting' = waiting \ {a} /\ ready' = Queue!RemoveFirst(ready, a)
      /\ UNCHANGED <<created, scopes, entered, active, queueClosed>>
  BY DEF Queue!Leave
<1>2. /\ ready' \in Seq(Request) /\ Queue!IsInjective(ready')
      /\ Queue!Range(ready') = (waiting \cap scopes) \ {a}
      /\ InTurn
  BY <1>1, LeaveLine
<1>3. Queue!TypeOK'
  BY <1>1, <1>2 DEF Lined, Queue!TypeOK
<1>4. Queue!LineIsTheWaiting'
  BY <1>1, <1>2 DEF Queue!LineIsTheWaiting
<1> QED BY <1>1, <1>2, <1>3, <1>4 DEF Lined

LEMMA ReleaseQueue ==
  ASSUME Lined, active \notin waiting, NEW a \in Request, Queue!Release(a)
  PROVE  Lined' /\ InTurn
<1>1. /\ scopes' = scopes \ {a} /\ ready' = Queue!RemoveFirst(ready, a)
      /\ active' = (IF a = active THEN NoScope ELSE active)
      /\ UNCHANGED <<created, entered, waiting, queueClosed>>
  BY DEF Queue!Release, Queue!GiveUpSeat
<1>2. /\ ready' \in Seq(Request) /\ Queue!IsInjective(ready')
      /\ Queue!Range(ready') = (waiting \cap scopes) \ {a}
      /\ InTurn
  BY <1>1, LeaveLine
<1>3. IsFiniteSet(scopes') /\ Cardinality(scopes') <= Maximum
  <2>1. IsFiniteSet(scopes) /\ Cardinality(scopes) \in Nat /\ Cardinality(scopes) <= Maximum
    BY FS_CardinalityType, Counts DEF Lined, Queue!TypeOK
  <2>2. /\ IsFiniteSet(scopes')
        /\ Cardinality(scopes') \in {Cardinality(scopes), Cardinality(scopes) - 1}
    BY <1>1, <2>1, FS_RemoveElement
  <2> QED BY <2>1, <2>2, AttemptBounds
<1>4. Queue!TypeOK'
  BY <1>1, <1>2, <1>3, Counts DEF Lined, Queue!TypeOK
<1>5. Queue!LineIsTheWaiting'
  BY <1>1, <1>2 DEF Queue!LineIsTheWaiting
<1> QED BY <1>2, <1>3, <1>4, <1>5 DEF Lined

LEMMA TakeTurnLine ==
  ASSUME Lined, active \notin waiting, NEW a \in Request, Queue!TakeTurn(a)
  PROVE  Lined' /\ InTurn
<1>1. /\ a \in waiting /\ a \in scopes /\ Head(ready) = a
      /\ active' = a /\ ready' = Tail(ready) /\ waiting' = waiting \ {a}
      /\ UNCHANGED <<created, scopes, entered, queueClosed>>
  BY DEF Queue!TakeTurn, Queue!IsNext
<1>2. /\ ready \in Seq(Request) /\ Queue!IsInjective(ready)
      /\ Queue!Range(ready) = waiting \cap scopes
  BY DEF Lined, Queue!TypeOK, Queue!LineIsTheWaiting
<1>3. ready # <<>>
  <2>1. a \in Queue!Range(ready)
    BY <1>1, <1>2
  <2> QED BY <2>1 DEF Queue!Range
<1>4. /\ Len(ready) \in Nat \ {0} /\ ready[1] = a /\ DOMAIN ready = 1 .. Len(ready)
      /\ ready' \in Seq(Request) /\ DOMAIN ready' = 1 .. Len(ready) - 1
      /\ \A i \in 1 .. Len(ready) - 1 : ready'[i] = ready[i + 1]
  BY <1>1, <1>2, <1>3
<1>5. \A i \in 1 .. Len(ready) : ready[i] = a => i = 1
  BY <1>2, <1>4 DEF Queue!IsInjective
<1>6. Queue!IsInjective(ready')
  <2>1. ASSUME NEW i \in 1 .. Len(ready) - 1, NEW j \in 1 .. Len(ready) - 1,
               ready'[i] = ready'[j]
        PROVE  i = j
    <3>1. i + 1 \in DOMAIN ready /\ j + 1 \in DOMAIN ready /\ ready[i + 1] = ready[j + 1]
      BY <1>4, <2>1
    <3>2. i + 1 = j + 1
      BY <1>2, <3>1 DEF Queue!IsInjective
    <3> QED BY <3>2
  <2> QED BY <1>4, <2>1 DEF Queue!IsInjective
<1>7. Queue!Range(ready') = Queue!Range(ready) \ {a}
  <2>1. \A i \in 1 .. Len(ready) - 1 : i + 1 \in 1 .. Len(ready) /\ ready[i + 1] # a
    BY <1>4, <1>5
  <2>2. \A i \in 1 .. Len(ready) : ready[i] # a =>
          i - 1 \in 1 .. Len(ready) - 1 /\ ready'[i - 1] = ready[i]
    BY <1>4
  <2>3. ASSUME NEW x \in Queue!Range(ready')
        PROVE  x \in Queue!Range(ready) \ {a}
    <3>1. PICK i \in 1 .. Len(ready) - 1 : x = ready'[i]
      BY <1>4, <2>3 DEF Queue!Range
    <3> QED BY <1>4, <2>1, <3>1 DEF Queue!Range
  <2>4. ASSUME NEW x \in Queue!Range(ready) \ {a}
        PROVE  x \in Queue!Range(ready')
    <3>1. PICK i \in 1 .. Len(ready) : x = ready[i]
      BY <1>4, <2>4 DEF Queue!Range
    <3>2. i - 1 \in DOMAIN ready' /\ ready'[i - 1] = x
      BY <1>4, <2>2, <2>4, <3>1
    <3> QED BY <3>2 DEF Queue!Range
  <2> QED BY <2>3, <2>4
<1>8. Queue!TypeOK'
  BY <1>1, <1>4 DEF Lined, Queue!TypeOK
<1>9. Lined'
  BY <1>1, <1>2, <1>6, <1>7, <1>8 DEF Lined, Queue!LineIsTheWaiting
<1>10. ASSUME NEW s \in Request, NEW t \in Request, Queue!Before(s, t), s \in waiting'
       PROVE  active' # t /\ Queue!Before(s, t)'
  <2>1. PICK i, j \in DOMAIN ready : i < j /\ ready[i] = s /\ ready[j] = t
    BY <1>10 DEF Queue!Before
  <2>2. i # 1 /\ j # 1
    BY <1>1, <1>4, <1>10, <2>1
  <2>3. active' # t
    BY <1>1, <1>4, <1>5, <2>1, <2>2
  <2>4. /\ i - 1 \in DOMAIN ready' /\ j - 1 \in DOMAIN ready' /\ i - 1 < j - 1
        /\ ready'[i - 1] = s /\ ready'[j - 1] = t
    BY <1>4, <2>1, <2>2
  <2> QED BY <2>3, <2>4 DEF Queue!Before
<1> QED BY <1>9, <1>10 DEF InTurn

-----------------------------------------------------------------------------
(* What a step of the prefix owner for one attempt does to the others.      *)

\* From a node n to what a step of somebody else makes of it, m: it does not
\* start again, its producer stays told to stop, and it gets no outcome.
Steady(n, m) ==
  /\ m.active => n.active /\ (n.cancel => m.cancel) /\ (m.status = "pending" => n.status = "pending")
  /\ n.status = "pending" => m.status = "pending"

Others(a) == \A b \in Request \ {a} : req'[b] = req[b] /\ Steady(node[b], node'[b])

LEMMA SettledIsSteady ==
  ASSUME NEW R, NEW N \in [Request -> NodeRecord], NEW M, NEW n \in Request
  PROVE  Steady(N[n], Settled(R, N, M)[n])
<1> DEFINE x == N[n]
           y == [x EXCEPT !.cancel = TRUE]
<1>1. x \in NodeRecord
  OBVIOUS
<1>2. y.cancel /\ y.active = x.active /\ y.status = x.status
  BY <1>1, StoppedNode
<1>3. Steady(x, Unused) /\ Steady(x, y) /\ Steady(x, x)
  BY <1>2 DEF Steady, Unused
<1>4. Settled(R, N, M)[n] \in {Unused, y, x}
  BY DEF Settled
<1> QED BY <1>3, <1>4

\* _release, from requests R and nodes N.
LEMMA ReleaseOneEffect ==
  ASSUME NEW R \in [Request -> RequestRecord], NEW N \in [Request -> NodeRecord], NEW P,
         NEW r \in Request, ReleaseOne(R, N, P, r)
  PROVE  /\ req'[r].st = "released"
         /\ \A q \in Request \ {r} : req'[q] = R[q]
         /\ \A n \in Request : Steady(N[n], node'[n])
<1>1. req' = ReleaseAll(R, {r}) /\ node' = Settled(ReleaseAll(R, {r}), N, {R[r].node})
  BY DEF ReleaseOne, Settle
<1>2. req'[r].st = "released" /\ \A q \in Request \ {r} : req'[q] = R[q]
  BY <1>1 DEF ReleaseAll, ReleasedRequest
<1>3. \A n \in Request : Steady(N[n], node'[n])
  BY <1>1, SettledIsSteady
<1> QED BY <1>2, <1>3

LEMMA Still ==
  ASSUME NEW a \in Request, UNCHANGED <<req, node>>
  PROVE  Others(a) /\ Steady(node[a], node'[a])
BY DEF Others, Steady

LEMMA Tables ==
  ASSUME IInv
  PROVE  req \in [Request -> RequestRecord] /\ node \in [Request -> NodeRecord]
BY DEF IInv, WellFormed

LEMMA ReleaseEffect ==
  ASSUME IInv, NEW a \in Request, Release(a)
  PROVE  Others(a) /\ Steady(node[a], node'[a]) /\ req'[a].st = "released"
BY Tables, ReleaseOneEffect DEF Release, Others

\* A cancelled request is released, unless it has its branch.
LEMMA CancelEffect ==
  ASSUME IInv, NEW a \in Request, Cancel(a)
  PROVE  /\ Others(a) /\ Steady(node[a], node'[a])
         /\ req'[a].st = "held" => req'[a].lease
<1> DEFINE C == [req EXCEPT ![a].cancelled = TRUE]
<1>1. /\ C \in [Request -> RequestRecord] /\ C[a].lease = req[a].lease
      /\ \A q \in Request \ {a} : C[q] = req[q]
  BY Tables DEF RequestRecord
<1>2. \/ req[a].lease /\ req' = C /\ node' = node
      \/ ReleaseOne(C, node, pending, a)
  BY DEF Cancel, CancelOne
<1> HIDE DEF C
<1>3. CASE req[a].lease /\ req' = C /\ node' = node
  BY <1>1, <1>3 DEF Others, Steady
<1>4. CASE ReleaseOne(C, node, pending, a)
  <2>1. /\ req'[a].st = "released" /\ \A q \in Request \ {a} : req'[q] = C[q]
        /\ \A n \in Request : Steady(node[n], node'[n])
    BY <1>1, <1>4, Tables, ReleaseOneEffect
  <2> QED BY <1>1, <2>1 DEF Others
<1> QED BY <1>2, <1>3, <1>4

\* What wait() leaves of a claim q is y.
SameClaim(q, y) ==
  y.st = "held" => q.st = "held" /\ y.cancelled = q.cancelled /\ (q.lease => y.lease)

LEMMA WaitEffect ==
  ASSUME IInv, NEW a \in Request, Wait(a)
  PROVE  Others(a) /\ Steady(node[a], node'[a]) /\ SameClaim(req[a], req'[a])
<1>1. req' = [req EXCEPT ![a].waiting = TRUE] /\ node' = node
  BY DEF Wait
<1>2. SameClaim(req[a], req'[a]) /\ \A q \in Request \ {a} : req'[q] = req[q]
  BY <1>1, Tables DEF RequestRecord, SameClaim
<1> QED BY <1>1, <1>2 DEF Others, Steady

LEMMA WakeEffect ==
  ASSUME IInv, NEW a \in Request, Wake(a)
  PROVE  Others(a) /\ Steady(node[a], node'[a]) /\ SameClaim(req[a], req'[a])
<1> DEFINE n == req[a].node
           R == [req EXCEPT ![a].waiting = FALSE]
           L == [R EXCEPT ![a].lease = TRUE]
           F == Failed(node, n)
<1>1. /\ R \in [Request -> RequestRecord] /\ L \in [Request -> RequestRecord]
      /\ \A q \in Request \ {a} : R[q] = req[q] /\ L[q] = req[q]
      /\ R[a].st = req[a].st /\ R[a].cancelled = req[a].cancelled /\ R[a].lease = req[a].lease
      /\ L[a].st = req[a].st /\ L[a].cancelled = req[a].cancelled /\ L[a].lease
  BY Tables DEF RequestRecord
<1>2. \/ req' = R /\ node' = node
      \/ ReleaseOne(R, node, pending, a)
      \/ req' = L /\ node' = node
      \/ node[n].status = "published" /\ ReleaseOne(R, F, pending \ {n}, a)
  BY DEF Wake
<1>3. F \in [Request -> NodeRecord] /\ \A m \in Request : m # n => F[m] = node[m]
  BY Tables DEF NodeRecord, Failed
<1>4. n \in Request => F[n].status = "failed" /\ F[n].active = node[n].active /\ F[n].cancel = node[n].cancel
  BY Tables DEF NodeRecord, Failed
<1> HIDE DEF R, L, F, n
<1>5. CASE req' = R /\ node' = node
  BY <1>1, <1>5 DEF Others, Steady, SameClaim
<1>6. CASE req' = L /\ node' = node
  BY <1>1, <1>6 DEF Others, Steady, SameClaim
<1>7. CASE ReleaseOne(R, node, pending, a)
  <2>1. /\ req'[a].st = "released" /\ \A q \in Request \ {a} : req'[q] = R[q]
        /\ \A m \in Request : Steady(node[m], node'[m])
    BY <1>1, <1>7, Tables, ReleaseOneEffect
  <2> QED BY <1>1, <2>1 DEF Others, SameClaim
<1>8. CASE node[n].status = "published" /\ ReleaseOne(R, F, pending \ {n}, a)
  <2>1. /\ req'[a].st = "released" /\ \A q \in Request \ {a} : req'[q] = R[q]
        /\ \A m \in Request : Steady(F[m], node'[m])
    BY <1>1, <1>3, <1>8, ReleaseOneEffect
  <2>2. \A m \in Request : Steady(node[m], node'[m])
    BY <1>3, <1>4, <1>8, <2>1 DEF Steady
  <2> QED BY <1>1, <2>1, <2>2 DEF Others, SameClaim
<1> QED BY <1>2, <1>5, <1>6, <1>7, <1>8

\* An outcome is the producer's own business,
LEMMA OutcomeEffect ==
  ASSUME IInv, NEW a \in Request, Publish(a) \/ Fail(a)
  PROVE  /\ Others(a) /\ req' = req /\ node[a].active
         /\ node'[a].active /\ node'[a].status # "pending" /\ node'[a].cancel = node[a].cancel
         /\ Fail(a) => node'[a].status = "failed"
<1>1. /\ req' = req /\ node[a].active
      /\ \/ node' = [node EXCEPT ![a].status = "published", ![a].result = TRUE]
         \/ node' = [node EXCEPT ![a].status = "failed"]
      /\ Fail(a) => node' = [node EXCEPT ![a].status = "failed"]
  BY DEF Publish, Fail, Failed
<1>2. \A b \in Request \ {a} : node'[b] = node[b]
  BY <1>1, Tables
<1>3. /\ node'[a].active /\ node'[a].status # "pending" /\ node'[a].cancel = node[a].cancel
      /\ Fail(a) => node'[a].status = "failed"
  BY <1>1, Tables DEF NodeRecord
<1> QED BY <1>1, <1>2, <1>3 DEF Others, Steady

\* ... and so is its end.
LEMMA FinishEffect ==
  ASSUME IInv, NEW a \in Request, Finish(a)
  PROVE  /\ Others(a) /\ req' = req /\ node[a].active /\ ~node'[a].active
<1> DEFINE N == [node EXCEPT ![a].active = FALSE,
                             ![a].status = IF @ = "pending" THEN "failed" ELSE @]
<1>1. /\ N \in [Request -> NodeRecord] /\ ~N[a].active
      /\ \A b \in Request \ {a} : N[b] = node[b]
  BY Tables DEF NodeRecord
<1>2. req' = req /\ node[a].active /\ node' = Settled(req, N, {a})
  BY DEF Finish, Settle
<1> HIDE DEF N
<1>3. \A b \in Request : Steady(N[b], node'[b])
  BY <1>1, <1>2, SettledIsSteady
<1> QED BY <1>1, <1>2, <1>3 DEF Others, Steady

\* lookup_or_register starts a node for its producer only.
LEMMA LookupEffect ==
  ASSUME IInv, NEW a \in Request, Lookup(a)
  PROVE  /\ Others(a)
         /\ req'[a].st = "held" /\ ~req'[a].cancelled
         /\ node'[a].active => req'[a].node = a /\ node'[a].status = "pending"
         /\ node[a].status = "pending" /\ node'[a].status = "pending"
<1>1. req[a].st = "new" /\ node[a] = Unused
  BY DEF Lookup, Elect, Join, IInv, Consistent
<1>2. PICK n \in Request :
        /\ req' = [req EXCEPT ![a] = HeldFor(n)]
        /\ \/ node' = node
           \/ n = a /\ \E prompt \in Prompt : node' = [node EXCEPT ![a] = NewNode(prompt)]
  BY DEF Lookup, Elect, Join, Admit
<1>3. /\ req'[a] = HeldFor(n) /\ \A b \in Request \ {a} : req'[b] = req[b] /\ node'[b] = node[b]
      /\ node'[a] = node[a] \/ (n = a /\ \E prompt \in Prompt : node'[a] = NewNode(prompt))
  BY <1>2, Tables
<1>4. Others(a)
  BY <1>3 DEF Others, Steady
<1>5. req'[a].st = "held" /\ ~req'[a].cancelled /\ req'[a].node = n
  BY <1>3 DEF HeldFor
<1>6. ~node[a].active /\ node[a].status = "pending"
  BY <1>1 DEF Unused
<1>7. node'[a].status = "pending" /\ (node'[a].active => n = a)
  <2>1. \A prompt : NewNode(prompt).status = "pending"
    BY DEF NewNode
  <2> QED BY <1>3, <1>6, <2>1
<1> QED BY <1>4, <1>5, <1>6, <1>7

-----------------------------------------------------------------------------
(* A step of one attempt.                                                   *)

\* What the queue does for a leaves the others where they are.
SeatsKept(a) ==
  \A b \in Request \ {a} :
    /\ (b \in scopes' <=> b \in scopes)
    /\ (b \in waiting' <=> b \in waiting)
    /\ (active' = b <=> active = b)

RecordsKept(a) ==
  /\ att' \in [Request -> AttemptRecord]
  /\ \A b \in Request \ {a} : att'[b] = att[b]

LEMMA OtherFits ==
  ASSUME NEW a \in Request, NEW b \in Request \ {a}, Fits(b),
         Others(a), SeatsKept(a), RecordsKept(a), closing => closing'
  PROVE  Fits(b)'
<1>1. att'[b] = att[b] /\ req'[b] = req[b] /\ Steady(node[b], node'[b])
  BY DEF Others, RecordsKept
<1>2. Seated(b, att[b])'
  BY <1>1 DEF Fits, Seated, SeatsKept
<1>3. Told(att[b])' /\ Claims(att[b], req[b])' /\ Prefills(att[b])'
  BY <1>1 DEF Fits, Told, Claims, Prefills
<1>4. Runs(att[b], node[b])'
  BY <1>1 DEF Fits, Runs, Steady
<1> QED BY <1>2, <1>3, <1>4 DEF Fits

\* What a step for a has to show.
LEMMA Step ==
  ASSUME OInv, NEW a \in Request,
         IInv', Lined', Others(a), SeatsKept(a), RecordsKept(a),
         closing' \in BOOLEAN, closing => closing', closed' \/ queueClosed' => closing',
         Fits(a)'
  PROVE  OInv'
<1>1. ASSUME NEW b \in Request
      PROVE  Fits(b)'
  <2>1. Fits(b)
    BY DEF OInv
  <2>2. CASE b = a
    BY <2>2
  <2>3. CASE b # a
    BY <2>1, <2>3, OtherFits
  <2> QED BY <2>2, <2>3
<1>2. att' \in [Request -> AttemptRecord]
  BY DEF RecordsKept
<1> QED BY <1>1, <1>2 DEF OInv

\* A record from one place to another.
SameButPlace(x, y) ==
  /\ y.event = x.event /\ y.swept = x.swept /\ y.registered = x.registered
  /\ y.cancelled = x.cancelled /\ y.role = x.role /\ y.bound = x.bound
  /\ y.published = x.published /\ y.finished = x.finished /\ y.broke = x.broke

LEMMA Moved ==
  ASSUME OInv, NEW a \in Request, NEW p \in Place, Moves(a, p)
  PROVE  RecordsKept(a) /\ att'[a].pc = p /\ SameButPlace(att[a], att'[a])
BY DEF OInv, Moves, RecordsKept, AttemptRecord, SameButPlace

\* No step of the queue, or of the prefix owner.
LEMMA QueueStays ==
  ASSUME OInv, NEW a \in Request, UNCHANGED queueVars
  PROVE  /\ Lined' /\ SeatsKept(a) /\ InTurn /\ queueClosed' = queueClosed
         /\ scopes' = scopes /\ waiting' = waiting /\ active' = active
<1>1. UNCHANGED <<created, scopes, entered, waiting, ready, active, queueClosed>>
  BY DEF queueVars
<1>2. Lined'
  BY <1>1 DEF OInv, Lined, Queue!TypeOK, Queue!LineIsTheWaiting
<1>3. InTurn
  <2>1. active \notin waiting
    BY DEF OInv, Fits, Seated, TurnPlace, OnlinePlace, Lined, Queue!TypeOK
  <2> QED BY <1>1, <2>1, SameLine DEF OInv
<1> QED BY <1>1, <1>2, <1>3 DEF SeatsKept

LEMMA PrefixStays ==
  ASSUME OInv, NEW a \in Request, UNCHANGED prefixVars
  PROVE  IInv' /\ Others(a) /\ req' = req /\ node' = node /\ closed' = closed
<1>1. UNCHANGED <<req, node, pending, closed, secret, count, reserved>>
  BY DEF prefixVars
<1>2. UNCHANGED vars
  BY <1>1 DEF vars
<1> QED BY <1>1, <1>2, NextInvariant, Still DEF OInv

LEMMA PrefixMoves ==
  ASSUME OInv, NEW a \in Request,
         \/ Lookup(a) \/ Publish(a) \/ Fail(a) \/ Finish(a)
         \/ Wait(a) \/ Wake(a) \/ Cancel(a) \/ Release(a)
  PROVE  IInv' /\ Others(a) /\ closed' = closed
<1>1. Next
  BY DEF Next, ProducerStep
<1>2. IInv'
  BY <1>1, NextInvariant DEF OInv
<1>3. Others(a)
  BY LookupEffect, OutcomeEffect, FinishEffect, WaitEffect, WakeEffect, CancelEffect,
     ReleaseEffect DEF OInv
<1>4. closed' = closed
  BY DEF Lookup, Elect, Join, Publish, Fail, Finish, Wait, Wake, Cancel, CancelOne,
     Release, ReleaseOne
<1> QED BY <1>2, <1>3, <1>4

\* A step that moves a only, from a place to p.
LEMMA MoveOnly ==
  ASSUME OInv, NEW a \in Request, NEW p \in Place, Moves(a, p),
         UNCHANGED queueVars, UNCHANGED prefixVars, UNCHANGED closing,
         att[a].pc \notin {"new", "queued", "looked", "closed", "over", "stopping", "failing",
                           "finished", "released"},
         p \notin {"new", "admitted", "registered", "looked", "joined", "waiting", "queued",
                   "failing", "released", "closed", "over", "stopping"},
         p = "setup" => att[a].pc \in EarlyPlace,
         p \in OnlinePlace => att[a].pc \in OnlinePlace,
         p = "ready" => att[a].pc = "setup",
         p = "finished" => ~node[a].active /\ (req[a].st = "held" => att[a].bound),
         p \in {"prefilled", "decoding", "feeding"} =>
           ~Produces(a) \/ att[a].pc \in {"prefilled", "decoding", "feeding"},
         p = "unwind" /\ node[a].active /\ ~att[a].published =>
           att[a].broke \/ closing \/ node[a].cancel
  PROVE  OInv'
<1>1. RecordsKept(a) /\ att'[a].pc = p /\ SameButPlace(att[a], att'[a])
  BY Moved
<1>2. /\ Lined' /\ SeatsKept(a) /\ queueClosed' = queueClosed
      /\ scopes' = scopes /\ waiting' = waiting /\ active' = active
  BY QueueStays
<1>3. IInv' /\ Others(a) /\ req' = req /\ node' = node /\ closed' = closed
  BY PrefixStays
<1>4. att[a] \in AttemptRecord /\ att'[a] \in AttemptRecord /\ Fits(a)
  BY <1>1 DEF OInv, RecordsKept
<1>5. Seated(a, att[a])'
  BY <1>1, <1>2, <1>4 DEF Seated, Fits, TurnPlace, OnlinePlace, EarlyPlace, Place
<1>6. Told(att[a])'
  BY <1>1, <1>4 DEF Told, Fits, SameButPlace, EarlyPlace
<1>7. Claims(att[a], req[a])'
  BY <1>1, <1>3, <1>4 DEF Claims, Told, EarlyPlace, Fits, SameButPlace, ClaimPlace, NodePlace, OnlinePlace, Place
<1>8. Runs(att[a], node[a])'
  BY <1>1, <1>3, <1>4 DEF Runs, Told, EarlyPlace, Fits, SameButPlace, NodePlace, OnlinePlace, Place
<1>9. Prefills(att[a])'
  BY <1>1, <1>4 DEF Prefills, Fits, SameButPlace, Produces
<1>10. Fits(a)'
  BY <1>5, <1>6, <1>7, <1>8, <1>9 DEF Fits
<1> QED BY <1>1, <1>2, <1>3, <1>10, Step DEF OInv

-----------------------------------------------------------------------------
(* The generator, one lemma per step.                                       *)

\* What the invariant says of an attempt.
LEMMA Now ==
  ASSUME OInv, NEW a \in Request
  PROVE  /\ Fits(a) /\ att[a] \in AttemptRecord /\ IInv /\ Lined
         /\ closing \in BOOLEAN /\ (closed \/ queueClosed => closing)
         /\ active \notin waiting /\ (active # NoScope => active \in scopes)
<1>1. active \notin waiting
  BY DEF OInv, Fits, Seated, TurnPlace, OnlinePlace, Lined, Queue!TypeOK
<1>2. active # NoScope => active \in scopes
  BY DEF OInv, Fits, Seated, TurnPlace, OnlinePlace, Lined, Queue!TypeOK
<1> QED BY <1>1, <1>2 DEF OInv

\* Whoever is stopped at a check either has no prefill of its own that others
\* could wait for, or was told that nobody does, or the client stops.
LEMMA StoppedAtCheck ==
  ASSUME OInv, NEW a \in Request, ~Defers(a),
         att[a].pc \notin {"looked", "failing", "finished", "released", "closed"}
  PROVE  node[a].active /\ ~att[a].published => node[a].cancel
BY Now DEF Defers, Produces, Fits, Runs, Prefills

LEMMA CheckedKeeps ==
  ASSUME OInv, NEW a \in Request,
         \/ CheckedStep(a, "registered", "setup") \/ Open(a) \/ Resume(a) \/ Sample(a)
         \/ Feed(a) \/ Decode(a)
  PROVE  OInv'
<1>1. PICK pc \in Place, next \in Place :
        /\ CheckedStep(a, pc, next)
        /\ <<pc, next>> \in {<<"registered", "setup">>, <<"active", "opened">>,
                             <<"opened", "prefilling">>, <<"prefilled", "decoding">>,
                             <<"decoding", "feeding">>, <<"feeding", "decoding">>}
  BY DEF Open, Resume, Sample, Feed, Decode, Place
<1>2. /\ pc \in {"registered"} \cup OnlinePlace /\ att[a].pc = pc
      /\ next \in OnlinePlace => pc \in OnlinePlace
      /\ next \in {"setup", "opened", "prefilling", "decoding", "feeding"}
      /\ next = "setup" => pc = "registered"
      /\ next \in {"decoding", "feeding"} => pc \in {"prefilled", "decoding", "feeding"}
  BY <1>1 DEF CheckedStep, OnlinePlace
<1>3. CASE ~IsSet(a)
  <2>1. Moves(a, next) /\ UNCHANGED queueVars /\ UNCHANGED prefixVars /\ UNCHANGED closing
    BY <1>1, <1>3 DEF CheckedStep
  <2> QED BY <1>2, <2>1, MoveOnly DEF EarlyPlace, OnlinePlace
<1>4. CASE IsSet(a)
  <2>1. /\ Moves(a, "unwind") /\ UNCHANGED queueVars /\ UNCHANGED prefixVars
        /\ UNCHANGED closing
    BY <1>1, <1>4 DEF CheckedStep
  <2>2. closing \/ ~Defers(a)
    BY <1>4 DEF IsSet
  <2>3. node[a].active /\ ~att[a].published => closing \/ node[a].cancel
    BY <1>2, <2>2, StoppedAtCheck DEF OnlinePlace
  <2>4. "unwind" \in Place /\ "unwind" \notin OnlinePlace
    BY DEF Place, OnlinePlace
  <2> QED BY <1>2, <2>1, <2>3, <2>4, MoveOnly DEF OnlinePlace
<1> QED BY <1>3, <1>4

LEMMA EndKeeps ==
  ASSUME OInv, NEW a \in Request, Complete(a) \/ Exit(a)
  PROVE  OInv'
<1>1. /\ Moves(a, "unwind") /\ UNCHANGED queueVars /\ UNCHANGED prefixVars
      /\ UNCHANGED closing /\ att[a].pc \in {"opened", "decoding"}
      /\ att[a].pc = "decoding" \/ ~Defers(a)
  BY DEF Complete, Exit, Resumed
<1>2. node[a].active /\ ~att[a].published => node[a].cancel
  <2>1. CASE ~Defers(a)
    BY <1>1, <2>1, StoppedAtCheck
  <2>2. CASE att[a].pc = "decoding"
    BY <2>2, Now DEF Fits, Runs, Prefills
  <2> QED BY <1>1, <2>1, <2>2
<1>3. "unwind" \in Place /\ "unwind" \notin OnlinePlace
  BY DEF Place, OnlinePlace
<1> QED BY <1>1, <1>2, <1>3, MoveOnly

\* The record of an attempt after its step.
LEMMA Recorded ==
  ASSUME OInv, NEW a \in Request, NEW x \in AttemptRecord, att' = [att EXCEPT ![a] = x]
  PROVE  RecordsKept(a) /\ att'[a] = x
BY DEF OInv, RecordsKept

LEMMA StartKeeps ==
  ASSUME OInv, NEW a \in Request, Start(a)
  PROVE  OInv'
<1>1. att[a].pc = "new" /\ UNCHANGED prefixVars /\ closing' = closing
  BY DEF Start
<1>2. IInv' /\ Others(a) /\ req' = req /\ node' = node /\ closed' = closed
  BY <1>1, PrefixStays
<1>3. Fits(a) /\ closing \in BOOLEAN /\ (closed \/ queueClosed => closing)
  BY Now
<1>4. CASE Queue!Admit(a) /\ Moves(a, "admitted")
  <2>1. RecordsKept(a) /\ att'[a].pc = "admitted" /\ SameButPlace(att[a], att'[a])
    <3>1. "admitted" \in Place
      BY DEF Place
    <3> QED BY <1>4, <3>1, Moved
  <2>2. Lined'
    BY <1>4, AdmitLine, Now
  <2>3. /\ SeatsKept(a) /\ queueClosed' = queueClosed
        /\ a \in scopes' /\ waiting' = waiting /\ active' = active
    BY <1>4 DEF Queue!Admit, SeatsKept
  <2>4. Fits(a)'
    BY <1>1, <1>2, <1>3, <2>1, <2>3
       DEF Fits, Seated, Told, Claims, Runs, Prefills, SameButPlace, OnlinePlace,
           TurnPlace, NodePlace, ClaimPlace, EarlyPlace
  <2> QED BY <1>1, <1>2, <1>3, <2>1, <2>2, <2>3, <2>4, Step
<1>5. CASE Moves(a, "over") /\ UNCHANGED queueVars
  <2>1. RecordsKept(a) /\ att'[a].pc = "over" /\ SameButPlace(att[a], att'[a])
    BY <1>5, Moved DEF Place
  <2>2. /\ Lined' /\ SeatsKept(a) /\ queueClosed' = queueClosed
        /\ scopes' = scopes /\ waiting' = waiting /\ active' = active
    BY <1>5, QueueStays
  <2>3. Fits(a)'
    BY <1>1, <1>2, <1>3, <2>1, <2>2
       DEF Fits, Seated, Told, Claims, Runs, Prefills, SameButPlace, OnlinePlace,
           TurnPlace, NodePlace, ClaimPlace, EarlyPlace
  <2> QED BY <1>1, <1>2, <1>3, <2>1, <2>2, <2>3, Step
<1> QED BY <1>4, <1>5 DEF Start

LEMMA RegisterKeeps ==
  ASSUME OInv, NEW a \in Request, Register(a)
  PROVE  OInv'
<1>1. /\ att[a].pc = "admitted" /\ UNCHANGED prefixVars /\ UNCHANGED queueVars
      /\ closing' = closing
      /\ att' = [att EXCEPT ![a].pc = "registered", ![a].registered = TRUE,
                            ![a].cancelled = @ \/ att[a].event]
  BY DEF Register
<1>2. IInv' /\ Others(a) /\ req' = req /\ node' = node /\ closed' = closed
  BY <1>1, PrefixStays
<1>3. Fits(a) /\ closing \in BOOLEAN /\ (closed \/ queueClosed => closing)
  BY Now
<1>4. /\ Lined' /\ SeatsKept(a) /\ queueClosed' = queueClosed
      /\ scopes' = scopes /\ waiting' = waiting /\ active' = active
  BY <1>1, QueueStays
<1> DEFINE x == [att[a] EXCEPT !.pc = "registered", !.registered = TRUE,
                               !.cancelled = @ \/ att[a].event]
<1>5. RecordsKept(a) /\ att'[a] = x
  <2>1. x \in AttemptRecord
    BY Now DEF AttemptRecord, Place
  <2>2. att' = [att EXCEPT ![a] = x]
    BY <1>1 DEF OInv
  <2> HIDE DEF x
  <2> QED BY <2>1, <2>2, Recorded
<1>6. /\ att'[a].pc = "registered" /\ att'[a].event = att[a].event
      /\ att'[a].swept = att[a].swept /\ (att'[a].cancelled <=> att[a].cancelled \/ att[a].event)
      /\ att'[a].bound = att[a].bound /\ att'[a].published = att[a].published
      /\ att'[a].finished = att[a].finished
  BY <1>5, Now DEF AttemptRecord
<1>7. Fits(a)'
  BY <1>1, <1>2, <1>3, <1>4, <1>6
     DEF Fits, Seated, Told, Claims, Runs, Prefills, OnlinePlace,
         TurnPlace, NodePlace, ClaimPlace, EarlyPlace
<1> QED BY <1>1, <1>2, <1>3, <1>4, <1>5, <1>7, Step

LEMMA LookupKeeps ==
  ASSUME OInv, NEW a \in Request, LookupPrefix(a)
  PROVE  OInv'
<1>1. att[a].pc = "setup" /\ UNCHANGED queueVars /\ closing' = closing
  BY DEF LookupPrefix
<1>2. Fits(a) /\ closing \in BOOLEAN /\ (closed \/ queueClosed => closing)
  BY Now
<1>3. /\ Lined' /\ SeatsKept(a) /\ queueClosed' = queueClosed
      /\ scopes' = scopes /\ waiting' = waiting /\ active' = active
  BY <1>1, QueueStays
<1>4. CASE Lookup(a) /\ att' = [att EXCEPT ![a].pc = "looked",
                  ![a].role = IF req'[a].node = a THEN "producer" ELSE "joiner"]
  <2>1. IInv' /\ Others(a) /\ closed' = closed
    BY <1>4, PrefixMoves
  <2>2. /\ req'[a].st = "held" /\ ~req'[a].cancelled
        /\ node'[a].active => req'[a].node = a /\ node'[a].status = "pending"
    BY <1>4, LookupEffect, Now
  <2> DEFINE x == [att[a] EXCEPT !.pc = "looked",
                     !.role = IF req'[a].node = a THEN "producer" ELSE "joiner"]
  <2>3. RecordsKept(a) /\ att'[a] = x
    <3>1. x \in AttemptRecord
      BY Now DEF AttemptRecord, Place
    <3>2. att' = [att EXCEPT ![a] = x]
      BY <1>4 DEF OInv
    <3> HIDE DEF x
    <3> QED BY <3>1, <3>2, Recorded
  <2>4. /\ att'[a].pc = "looked" /\ att'[a].event = att[a].event
        /\ att'[a].swept = att[a].swept /\ att'[a].cancelled = att[a].cancelled
        /\ att'[a].registered = att[a].registered
        /\ att'[a].bound = att[a].bound /\ att'[a].published = att[a].published
        /\ att'[a].finished = att[a].finished
        /\ req'[a].node = a => att'[a].role = "producer"
    BY <2>3, Now DEF AttemptRecord
  <2>5. Fits(a)'
    BY <1>1, <1>2, <1>3, <2>2, <2>4
       DEF Fits, Seated, Told, Claims, Runs, Prefills, OnlinePlace,
           TurnPlace, NodePlace, ClaimPlace, EarlyPlace
  <2> QED BY <1>1, <1>2, <1>3, <2>1, <2>3, <2>5, Step
<1>5. CASE Moves(a, "ready") /\ UNCHANGED prefixVars
  BY <1>1, <1>5, MoveOnly DEF Place, OnlinePlace
<1> QED BY <1>4, <1>5 DEF LookupPrefix

LEMMA BindKeeps ==
  ASSUME OInv, NEW a \in Request, Bind(a)
  PROVE  OInv'
<1>1. /\ att[a].pc = "looked" /\ UNCHANGED queueVars /\ closing' = closing
      /\ att' = [att EXCEPT ![a].bound = TRUE,
                            ![a].pc = IF att[a].role = "joiner" THEN "joined" ELSE "ready"]
  BY DEF Bind
<1>2. Fits(a) /\ closing \in BOOLEAN /\ (closed \/ queueClosed => closing)
  BY Now
<1>3. /\ Lined' /\ SeatsKept(a) /\ queueClosed' = queueClosed
      /\ scopes' = scopes /\ waiting' = waiting /\ active' = active
  BY <1>1, QueueStays
<1> DEFINE x == [att[a] EXCEPT !.bound = TRUE,
                               !.pc = IF att[a].role = "joiner" THEN "joined" ELSE "ready"]
<1>4. RecordsKept(a) /\ att'[a] = x
  <2>1. x \in AttemptRecord
    BY Now DEF AttemptRecord, Place
  <2>2. att' = [att EXCEPT ![a] = x]
    BY <1>1 DEF OInv
  <2> HIDE DEF x
  <2> QED BY <2>1, <2>2, Recorded
<1>5. /\ att'[a].pc \in {"joined", "ready"} /\ (att'[a].pc = "joined" => att'[a].role = "joiner")
      /\ att'[a].event = att[a].event /\ att'[a].role = att[a].role
      /\ att'[a].swept = att[a].swept /\ att'[a].cancelled = att[a].cancelled
      /\ att'[a].registered = att[a].registered
      /\ att'[a].bound /\ att'[a].published = att[a].published
      /\ att'[a].finished = att[a].finished
  BY <1>4, Now DEF AttemptRecord
<1>6. /\ IInv' /\ Others(a) /\ closed' = closed /\ Steady(node[a], node'[a])
      /\ \/ req' = req /\ ~att[a].cancelled
         \/ att[a].cancelled /\ (req'[a].st = "held" => req'[a].lease)
  <2>1. CASE att[a].cancelled
    BY <2>1, PrefixMoves, CancelEffect, Now DEF Bind
  <2>2. CASE ~att[a].cancelled
    BY <2>2, PrefixStays DEF Bind, Steady
  <2> QED BY <2>1, <2>2
<1>7. Seated(a, att[a])' /\ Told(att[a])' /\ Prefills(att[a])'
  BY <1>1, <1>2, <1>3, <1>5
     DEF Fits, Seated, Told, Prefills, OnlinePlace, TurnPlace, EarlyPlace
<1>8. Claims(att[a], req[a])'
  BY <1>1, <1>2, <1>5, <1>6 DEF Fits, Claims, OnlinePlace, NodePlace, ClaimPlace
<1>9. Runs(att[a], node[a])'
  BY <1>1, <1>2, <1>5, <1>6 DEF Fits, Runs, Steady, OnlinePlace, NodePlace, Told, EarlyPlace
<1>10. Fits(a)'
  BY <1>7, <1>8, <1>9 DEF Fits
<1> QED BY <1>1, <1>2, <1>3, <1>4, <1>6, <1>10, Step

LEMMA JoinPrefillKeeps ==
  ASSUME OInv, NEW a \in Request, JoinPrefill(a)
  PROVE  OInv'
<1>1. att[a].pc = "joined" /\ UNCHANGED queueVars /\ closing' = closing
  BY DEF JoinPrefill
<1>2. Fits(a) /\ closing \in BOOLEAN /\ (closed \/ queueClosed => closing)
  BY Now
<1>3. /\ Lined' /\ SeatsKept(a) /\ queueClosed' = queueClosed
      /\ scopes' = scopes /\ waiting' = waiting /\ active' = active
  BY <1>1, QueueStays
<1>4. ~node[a].active
  BY <1>1, <1>2 DEF Fits, Runs, Prefills
<1>5. CASE Moves(a, "unwind") /\ UNCHANGED prefixVars
  <2>1. "unwind" \in Place /\ "unwind" \notin OnlinePlace
    BY DEF Place, OnlinePlace
  <2> QED BY <1>1, <1>4, <1>5, <2>1, MoveOnly
<1>6. CASE Moves(a, "waiting") /\ Wait(a)
  <2>1. "waiting" \in Place
    BY DEF Place
  <2>2. RecordsKept(a) /\ att'[a].pc = "waiting" /\ SameButPlace(att[a], att'[a])
    BY <1>6, <2>1, Moved
  <2>3. IInv' /\ Others(a) /\ closed' = closed
    BY <1>6, PrefixMoves
  <2>4. Steady(node[a], node'[a]) /\ SameClaim(req[a], req'[a])
    BY <1>6, WaitEffect, Now
  <2>5. Fits(a)'
    BY <1>1, <1>2, <1>3, <1>4, <2>2, <2>4
       DEF Fits, Seated, Told, Claims, Runs, Prefills, SameButPlace, SameClaim, Steady,
           OnlinePlace, TurnPlace, NodePlace, ClaimPlace, EarlyPlace
  <2> QED BY <1>1, <1>2, <1>3, <2>2, <2>3, <2>5, Step
<1> QED BY <1>5, <1>6 DEF JoinPrefill

LEMMA WakeJoinerKeeps ==
  ASSUME OInv, NEW a \in Request, WakeJoiner(a)
  PROVE  OInv'
<1>1. att[a].pc = "waiting" /\ UNCHANGED queueVars /\ closing' = closing /\ Wake(a)
  BY DEF WakeJoiner
<1>2. Fits(a) /\ closing \in BOOLEAN /\ (closed \/ queueClosed => closing)
  BY Now
<1>3. /\ Lined' /\ SeatsKept(a) /\ queueClosed' = queueClosed
      /\ scopes' = scopes /\ waiting' = waiting /\ active' = active
  BY <1>1, QueueStays
<1>4. ~node[a].active
  BY <1>1, <1>2 DEF Fits, Runs, Prefills
<1>5. /\ RecordsKept(a) /\ att'[a].pc \in {"ready", "unwind"}
      /\ SameButPlace(att[a], att'[a])
  <2>1. "ready" \in Place /\ "unwind" \in Place
    BY DEF Place
  <2>2. Moves(a, "ready") \/ Moves(a, "unwind")
    BY DEF WakeJoiner
  <2> QED BY <2>1, <2>2, Moved
<1>6. IInv' /\ Others(a) /\ closed' = closed
  BY <1>1, PrefixMoves
<1>7. Steady(node[a], node'[a]) /\ SameClaim(req[a], req'[a])
  BY <1>1, WakeEffect, Now
<1>8. Fits(a)'
  BY <1>1, <1>2, <1>3, <1>4, <1>5, <1>7
     DEF Fits, Seated, Told, Claims, Runs, Prefills, SameButPlace, SameClaim, Steady,
         OnlinePlace, TurnPlace, NodePlace, ClaimPlace, EarlyPlace
<1> QED BY <1>1, <1>2, <1>3, <1>5, <1>6, <1>8, Step

LEMMA EnterKeeps ==
  ASSUME OInv, NEW a \in Request, Enter(a)
  PROVE  OInv'
<1>1. att[a].pc = "ready" /\ UNCHANGED prefixVars /\ closing' = closing
  BY DEF Enter
<1>2. Fits(a) /\ closing \in BOOLEAN /\ (closed \/ queueClosed => closing)
  BY Now
<1>3. IInv' /\ Others(a) /\ req' = req /\ node' = node /\ closed' = closed
  BY <1>1, PrefixStays
<1>4. CASE IsSet(a) /\ Moves(a, "unwind") /\ UNCHANGED queueVars
  <2>1. "unwind" \in Place /\ "unwind" \notin OnlinePlace
    BY DEF Place, OnlinePlace
  <2>2. node[a].active /\ ~att[a].published => closing \/ node[a].cancel
    BY <1>1, <1>4, StoppedAtCheck DEF IsSet
  <2> QED BY <1>1, <1>4, <2>1, <2>2, MoveOnly
<1>5. CASE Moves(a, "queued") /\ Queue!Enter(a)
  <2>1. "queued" \in Place
    BY DEF Place
  <2>2. RecordsKept(a) /\ att'[a].pc = "queued" /\ SameButPlace(att[a], att'[a])
    BY <1>5, <2>1, Moved
  <2>3. Lined'
    BY <1>5, EnterLine, Now
  <2>4. /\ SeatsKept(a) /\ queueClosed' = queueClosed
        /\ scopes' = scopes /\ a \in waiting' /\ active' = active
    BY <1>5 DEF Queue!Enter, SeatsKept
  <2>5. Fits(a)'
    BY <1>1, <1>2, <1>3, <2>2, <2>4
       DEF Fits, Seated, Told, Claims, Runs, Prefills, SameButPlace,
           OnlinePlace, TurnPlace, NodePlace, ClaimPlace, EarlyPlace
  <2> QED BY <1>1, <1>2, <1>3, <2>2, <2>3, <2>4, <2>5, Step
<1> QED BY <1>4, <1>5 DEF Enter

LEMMA TakeTurnKeeps ==
  ASSUME OInv, NEW a \in Request, TakeTurn(a)
  PROVE  OInv'
<1>1. /\ att[a].pc = "queued" /\ UNCHANGED prefixVars /\ closing' = closing
      /\ Queue!TakeTurn(a) /\ Moves(a, "active")
  BY DEF TakeTurn
<1>2. Fits(a) /\ closing \in BOOLEAN /\ (closed \/ queueClosed => closing)
  BY Now
<1>3. IInv' /\ Others(a) /\ req' = req /\ node' = node /\ closed' = closed
  BY <1>1, PrefixStays
<1>4. RecordsKept(a) /\ att'[a].pc = "active" /\ SameButPlace(att[a], att'[a])
  <2>1. "active" \in Place
    BY DEF Place
  <2> QED BY <1>1, <2>1, Moved
<1>5. Lined'
  BY <1>1, TakeTurnLine, Now
<1>6. /\ SeatsKept(a) /\ queueClosed' = queueClosed
      /\ scopes' = scopes /\ a \notin waiting' /\ active' = a
  BY <1>1, AttemptBounds DEF Queue!TakeTurn, Queue!IsNext, SeatsKept
<1>7. Fits(a)'
  BY <1>1, <1>2, <1>3, <1>4, <1>6
     DEF Fits, Seated, Told, Claims, Runs, Prefills, SameButPlace,
         OnlinePlace, TurnPlace, NodePlace, ClaimPlace, EarlyPlace
<1> QED BY <1>1, <1>2, <1>3, <1>4, <1>5, <1>6, <1>7, Step

LEMMA LeaveKeeps ==
  ASSUME OInv, NEW a \in Request, Leave(a)
  PROVE  OInv'
<1>1. /\ att[a].pc = "queued" /\ UNCHANGED prefixVars /\ closing' = closing
      /\ Queue!Leave(a) /\ Moves(a, "unwind") /\ (queueClosed \/ IsSet(a))
  BY DEF Leave
<1>2. Fits(a) /\ closing \in BOOLEAN /\ (closed \/ queueClosed => closing)
  BY Now
<1>3. IInv' /\ Others(a) /\ req' = req /\ node' = node /\ closed' = closed
  BY <1>1, PrefixStays
<1>4. RecordsKept(a) /\ att'[a].pc = "unwind" /\ SameButPlace(att[a], att'[a])
  <2>1. "unwind" \in Place
    BY DEF Place
  <2> QED BY <1>1, <2>1, Moved
<1>5. Lined' /\ scopes' = scopes /\ active' = active
  BY <1>1, LeaveQueue, Now
<1>6. SeatsKept(a) /\ queueClosed' = queueClosed /\ a \notin waiting'
  BY <1>1, <1>5 DEF Queue!Leave, SeatsKept
<1>7. node[a].active /\ ~att[a].published => closing \/ node[a].cancel
  BY <1>1, <1>2, StoppedAtCheck DEF IsSet
<1>8. Fits(a)'
  BY <1>1, <1>2, <1>3, <1>4, <1>5, <1>6, <1>7
     DEF Fits, Seated, Told, Claims, Runs, Prefills, SameButPlace,
         OnlinePlace, TurnPlace, NodePlace, ClaimPlace, EarlyPlace
<1> QED BY <1>1, <1>2, <1>3, <1>4, <1>5, <1>6, <1>8, Step

LEMMA PrefillKeeps ==
  ASSUME OInv, NEW a \in Request, Prefill(a)
  PROVE  OInv'
<1>1. att[a].pc = "prefilling" /\ UNCHANGED queueVars /\ closing' = closing
  BY DEF Prefill
<1>2. Fits(a) /\ closing \in BOOLEAN /\ (closed \/ queueClosed => closing)
  BY Now
<1>3. /\ Lined' /\ SeatsKept(a) /\ queueClosed' = queueClosed
      /\ scopes' = scopes /\ waiting' = waiting /\ active' = active
  BY <1>1, QueueStays
<1>4. CASE /\ UNCHANGED prefixVars
           /\ (~Produces(a) /\ Moves(a, "prefilled")) \/ (node[a].cancel /\ Moves(a, "unwind"))
  <2>1. "unwind" \in Place /\ "prefilled" \in Place /\ "unwind" \notin OnlinePlace
    BY DEF Place, OnlinePlace
  <2>2. att[a].pc \in OnlinePlace
    BY <1>1 DEF OnlinePlace
  <2>3. CASE ~Produces(a) /\ Moves(a, "prefilled")
    BY <1>1, <1>4, <2>1, <2>2, <2>3, MoveOnly
  <2>4. CASE node[a].cancel /\ Moves(a, "unwind")
    BY <1>1, <1>4, <2>1, <2>2, <2>4, MoveOnly
  <2> QED BY <1>4, <2>3, <2>4
<1> DEFINE done == node'[a].status = "published"
           x == [att[a] EXCEPT !.published = done, !.broke = ~done,
                               !.pc = IF done THEN "prefilled" ELSE "unwind"]
<1>5. CASE /\ Produces(a) /\ Publish(a)
           /\ att' = [att EXCEPT ![a].published = done, ![a].broke = ~done,
                                 ![a].pc = IF done THEN "prefilled" ELSE "unwind"]
  <2>1. RecordsKept(a) /\ att'[a] = x
    <3>1. x \in AttemptRecord
      <4>1. att[a] \in AttemptRecord /\ done \in BOOLEAN
        BY Now
      <4> HIDE DEF done
      <4> QED BY <4>1 DEF AttemptRecord, Place
    <3>2. att' = [att EXCEPT ![a] = x]
      BY <1>5 DEF OInv
    <3> HIDE DEF x
    <3> QED BY <3>1, <3>2, Recorded
  <2>2. /\ att'[a].pc = (IF done THEN "prefilled" ELSE "unwind")
        /\ att'[a].event = att[a].event
        /\ att'[a].role = att[a].role /\ (att'[a].published <=> done) /\ (att'[a].broke <=> ~done)
        /\ att'[a].swept = att[a].swept /\ att'[a].cancelled = att[a].cancelled
        /\ att'[a].registered = att[a].registered
        /\ att'[a].bound = att[a].bound /\ att'[a].finished = att[a].finished
    <3>1. att[a] \in AttemptRecord /\ done \in BOOLEAN
      BY Now
    <3> HIDE DEF done
    <3> QED BY <2>1, <3>1 DEF AttemptRecord
  <2> HIDE DEF x
  <2>3. IInv' /\ Others(a) /\ closed' = closed
    BY <1>5, PrefixMoves
  <2>4. req' = req /\ node'[a].status # "pending" /\ att[a].bound /\ node[a].active
    BY <1>5, OutcomeEffect, Now DEF Produces
  <2>5. Fits(a)'
    BY <1>1, <1>2, <1>3, <2>2, <2>4
       DEF Fits, Seated, Told, Claims, Runs, Prefills, Produces,
           OnlinePlace, TurnPlace, NodePlace, ClaimPlace, EarlyPlace
  <2> QED BY <1>1, <1>2, <1>3, <2>1, <2>3, <2>5, Step
<1> QED BY <1>4, <1>5 DEF Prefill

LEMMA BreakKeeps ==
  ASSUME OInv, NEW a \in Request, Break(a)
  PROVE  OInv'
<1>1. /\ att[a].pc \in {"setup", "ready", "active", "prefilling", "feeding"}
      /\ UNCHANGED prefixVars /\ UNCHANGED queueVars /\ closing' = closing
      /\ att' = [att EXCEPT ![a].pc = "unwind", ![a].broke = TRUE]
  BY DEF Break
<1>2. Fits(a) /\ closing \in BOOLEAN /\ (closed \/ queueClosed => closing)
  BY Now
<1>3. /\ Lined' /\ SeatsKept(a) /\ queueClosed' = queueClosed
      /\ scopes' = scopes /\ waiting' = waiting /\ active' = active
  BY <1>1, QueueStays
<1>4. IInv' /\ Others(a) /\ req' = req /\ node' = node /\ closed' = closed
  BY <1>1, PrefixStays
<1> DEFINE x == [att[a] EXCEPT !.pc = "unwind", !.broke = TRUE]
<1>5. RecordsKept(a) /\ att'[a] = x
  <2>1. x \in AttemptRecord
    BY Now DEF AttemptRecord, Place
  <2>2. att' = [att EXCEPT ![a] = x]
    BY <1>1 DEF OInv
  <2> HIDE DEF x
  <2> QED BY <2>1, <2>2, Recorded
<1>6. /\ att'[a].pc = "unwind" /\ att'[a].broke /\ att'[a].event = att[a].event
      /\ att'[a].role = att[a].role /\ att'[a].published = att[a].published
      /\ att'[a].swept = att[a].swept /\ att'[a].cancelled = att[a].cancelled
      /\ att'[a].registered = att[a].registered
      /\ att'[a].bound = att[a].bound /\ att'[a].finished = att[a].finished
  BY <1>5, Now DEF AttemptRecord
<1>7. Fits(a)'
  BY <1>1, <1>2, <1>3, <1>4, <1>6
     DEF Fits, Seated, Told, Claims, Runs, Prefills,
         OnlinePlace, TurnPlace, NodePlace, ClaimPlace, EarlyPlace
<1> QED BY <1>1, <1>2, <1>3, <1>4, <1>5, <1>7, Step

-----------------------------------------------------------------------------
(* The finally clauses.                                                     *)

LEMMA StopAdmissionKeeps ==
  ASSUME OInv, NEW a \in Request, StopAdmission(a)
  PROVE  OInv'
<1>1. /\ att[a].pc = "unwind" /\ UNCHANGED prefixVars /\ UNCHANGED queueVars
      /\ closing' = TRUE /\ Moves(a, "stopping")
  BY DEF StopAdmission
<1>2. Fits(a)
  BY Now
<1>3. /\ Lined' /\ SeatsKept(a) /\ queueClosed' = queueClosed
      /\ scopes' = scopes /\ waiting' = waiting /\ active' = active
  BY <1>1, QueueStays
<1>4. IInv' /\ Others(a) /\ req' = req /\ node' = node /\ closed' = closed
  BY <1>1, PrefixStays
<1>5. RecordsKept(a) /\ att'[a].pc = "stopping" /\ SameButPlace(att[a], att'[a])
  <2>1. "stopping" \in Place
    BY DEF Place
  <2> QED BY <1>1, <2>1, Moved
<1>6. Fits(a)'
  BY <1>1, <1>2, <1>3, <1>4, <1>5
     DEF Fits, Seated, Told, Claims, Runs, Prefills, SameButPlace,
         OnlinePlace, TurnPlace, NodePlace, ClaimPlace, EarlyPlace
<1> QED BY <1>1, <1>3, <1>4, <1>5, <1>6, Step

LEMMA CloseQueueKeeps ==
  ASSUME OInv, NEW a \in Request, CloseQueue(a)
  PROVE  OInv'
<1>1. /\ att[a].pc = "stopping" /\ UNCHANGED prefixVars /\ Queue!Close
      /\ closing' = closing /\ Moves(a, "unwind")
  BY DEF CloseQueue
<1>2. Fits(a) /\ closing \in BOOLEAN /\ (closed \/ queueClosed => closing)
  BY Now
<1>3. closing
  BY <1>1, <1>2 DEF Fits, Seated
<1>4. /\ Lined' /\ SeatsKept(a)
      /\ scopes' = scopes /\ waiting' = waiting /\ active' = active
  BY <1>1, CloseLine, Now DEF Queue!Close, SeatsKept
<1>5. IInv' /\ Others(a) /\ req' = req /\ node' = node /\ closed' = closed
  BY <1>1, PrefixStays
<1>6. RecordsKept(a) /\ att'[a].pc = "unwind" /\ SameButPlace(att[a], att'[a])
  <2>1. "unwind" \in Place
    BY DEF Place
  <2> QED BY <1>1, <2>1, Moved
<1>7. Fits(a)'
  BY <1>1, <1>2, <1>3, <1>4, <1>5, <1>6
     DEF Fits, Seated, Told, Claims, Runs, Prefills, SameButPlace,
         OnlinePlace, TurnPlace, NodePlace, ClaimPlace, EarlyPlace
<1> QED BY <1>1, <1>2, <1>3, <1>4, <1>5, <1>6, <1>7, Step

LEMMA FailPrefixKeeps ==
  ASSUME OInv, NEW a \in Request, FailPrefix(a)
  PROVE  OInv'
<1>1. att[a].pc = "unwind" /\ UNCHANGED queueVars /\ closing' = closing
  BY DEF FailPrefix
<1>2. Fits(a) /\ closing \in BOOLEAN /\ (closed \/ queueClosed => closing)
  BY Now
<1>3. /\ Lined' /\ SeatsKept(a) /\ queueClosed' = queueClosed
      /\ scopes' = scopes /\ waiting' = waiting /\ active' = active
  BY <1>1, QueueStays
<1>4. CASE ~Produces(a)
  <2>1. Moves(a, "finished") /\ UNCHANGED prefixVars
    BY <1>4 DEF FailPrefix
  <2>2. ~node[a].active /\ (req[a].st = "held" => att[a].bound)
    BY <1>1, <1>2, <1>4 DEF Fits, Runs, Claims, Produces
  <2>3. "finished" \in Place /\ "finished" \notin OnlinePlace
    BY DEF Place, OnlinePlace
  <2> QED BY <1>1, <2>1, <2>2, <2>3, MoveOnly
<1> DEFINE x == [att[a] EXCEPT !.pc = "failing", !.finished = TRUE]
<1>5. CASE Produces(a)
  <2>1. RecordsKept(a) /\ att'[a] = x
    <3>1. x \in AttemptRecord
      BY Now DEF AttemptRecord, Place
    <3>2. att' = [att EXCEPT ![a] = x]
      BY <1>5 DEF FailPrefix, OInv
    <3> HIDE DEF x
    <3> QED BY <3>1, <3>2, Recorded
  <2>2. /\ att'[a].pc = "failing" /\ att'[a].finished /\ att'[a].event = att[a].event
        /\ att'[a].role = att[a].role /\ att'[a].published = att[a].published
        /\ att'[a].swept = att[a].swept /\ att'[a].cancelled = att[a].cancelled
        /\ att'[a].registered = att[a].registered /\ att'[a].broke = att[a].broke
        /\ att'[a].bound = att[a].bound
    BY <2>1, Now DEF AttemptRecord
  <2> HIDE DEF x
  <2>3. \/ att[a].published /\ UNCHANGED prefixVars
        \/ Fail(a)
    BY <1>5 DEF FailPrefix
  <2>4. /\ IInv' /\ Others(a) /\ closed' = closed /\ req' = req
        /\ node'[a].active => node[a].active /\ node'[a].status # "pending"
    <3>1. CASE att[a].published /\ UNCHANGED prefixVars
      BY <1>2, <3>1, PrefixStays DEF Fits, Runs
    <3>2. CASE Fail(a)
      BY <3>2, PrefixMoves, OutcomeEffect, Now
    <3> QED BY <2>3, <3>1, <3>2
  <2>5. Fits(a)'
    BY <1>1, <1>2, <1>3, <2>2, <2>4
       DEF Fits, Seated, Told, Claims, Runs, Prefills,
           OnlinePlace, TurnPlace, NodePlace, ClaimPlace, EarlyPlace
  <2> QED BY <1>1, <1>2, <1>3, <2>1, <2>4, <2>5, Step
<1> QED BY <1>4, <1>5

LEMMA FinishPrefixKeeps ==
  ASSUME OInv, NEW a \in Request, FinishPrefix(a)
  PROVE  OInv'
<1>1. /\ att[a].pc = "failing" /\ UNCHANGED queueVars /\ closing' = closing
      /\ Finish(a) /\ Moves(a, "finished")
  BY DEF FinishPrefix
<1>2. Fits(a) /\ closing \in BOOLEAN /\ (closed \/ queueClosed => closing)
  BY Now
<1>3. /\ Lined' /\ SeatsKept(a) /\ queueClosed' = queueClosed
      /\ scopes' = scopes /\ waiting' = waiting /\ active' = active
  BY <1>1, QueueStays
<1>4. IInv' /\ Others(a) /\ closed' = closed
  BY <1>1, PrefixMoves
<1>5. req' = req /\ ~node'[a].active
  BY <1>1, FinishEffect, Now
<1>6. RecordsKept(a) /\ att'[a].pc = "finished" /\ SameButPlace(att[a], att'[a])
  <2>1. "finished" \in Place
    BY DEF Place
  <2> QED BY <1>1, <2>1, Moved
<1>7. Fits(a)'
  BY <1>1, <1>2, <1>3, <1>5, <1>6
     DEF Fits, Seated, Told, Claims, Runs, Prefills, SameButPlace,
         OnlinePlace, TurnPlace, NodePlace, ClaimPlace, EarlyPlace
<1> QED BY <1>1, <1>2, <1>3, <1>4, <1>6, <1>7, Step

LEMMA ReleasePrefixKeeps ==
  ASSUME OInv, NEW a \in Request, ReleasePrefix(a)
  PROVE  OInv'
<1>1. /\ att[a].pc = "finished" /\ UNCHANGED queueVars /\ closing' = closing
      /\ Moves(a, "released")
  BY DEF ReleasePrefix
<1>2. Fits(a) /\ closing \in BOOLEAN /\ (closed \/ queueClosed => closing)
  BY Now
<1>3. /\ Lined' /\ SeatsKept(a) /\ queueClosed' = queueClosed
      /\ scopes' = scopes /\ waiting' = waiting /\ active' = active
  BY <1>1, QueueStays
<1>4. ~node[a].active
  BY <1>1, <1>2 DEF Fits, Runs, NodePlace, OnlinePlace
<1>5. IInv' /\ Others(a) /\ closed' = closed /\ req'[a].st # "held" /\ ~node'[a].active
  <2>1. CASE att[a].bound /\ req[a].st = "held"
    <3>1. Release(a)
      BY <2>1 DEF ReleasePrefix
    <3>2. IInv' /\ Others(a) /\ closed' = closed
      BY <3>1, PrefixMoves
    <3>3. Steady(node[a], node'[a]) /\ req'[a].st = "released"
      BY <3>1, ReleaseEffect, Now
    <3> QED BY <1>4, <3>2, <3>3 DEF Steady
  <2>2. CASE ~(att[a].bound /\ req[a].st = "held")
    <3>1. UNCHANGED prefixVars
      BY <2>2 DEF ReleasePrefix
    <3>2. req[a].st # "held"
      BY <1>1, <1>2, <2>2 DEF Fits, Claims
    <3> QED BY <1>4, <3>1, <3>2, PrefixStays
  <2> QED BY <2>1, <2>2
<1>6. RecordsKept(a) /\ att'[a].pc = "released" /\ SameButPlace(att[a], att'[a])
  <2>1. "released" \in Place
    BY DEF Place
  <2> QED BY <1>1, <2>1, Moved
<1>7. Fits(a)'
  BY <1>1, <1>2, <1>3, <1>5, <1>6
     DEF Fits, Seated, Told, Claims, Runs, Prefills, SameButPlace,
         OnlinePlace, TurnPlace, EarlyPlace
<1> QED BY <1>1, <1>2, <1>3, <1>5, <1>6, <1>7, Step

LEMMA CloseScopeKeeps ==
  ASSUME OInv, NEW a \in Request, CloseScope(a)
  PROVE  OInv'
<1>1. /\ att[a].pc = "released" /\ UNCHANGED prefixVars /\ closing' = closing
      /\ Queue!Release(a) /\ Moves(a, "closed")
  BY DEF CloseScope
<1>2. Fits(a) /\ closing \in BOOLEAN /\ (closed \/ queueClosed => closing)
  BY Now
<1>3. IInv' /\ Others(a) /\ req' = req /\ node' = node /\ closed' = closed
  BY <1>1, PrefixStays
<1>4. RecordsKept(a) /\ att'[a].pc = "closed" /\ SameButPlace(att[a], att'[a])
  <2>1. "closed" \in Place
    BY DEF Place
  <2> QED BY <1>1, <2>1, Moved
<1>5. Lined'
  BY <1>1, ReleaseQueue, Now
<1>6. /\ SeatsKept(a) /\ queueClosed' = queueClosed
      /\ a \notin scopes' /\ waiting' = waiting /\ active' # a
  BY <1>1, AttemptBounds DEF Queue!Release, Queue!GiveUpSeat, SeatsKept
<1>7. Fits(a)'
  BY <1>1, <1>2, <1>3, <1>4, <1>6
     DEF Fits, Seated, Told, Claims, Runs, Prefills, SameButPlace,
         OnlinePlace, TurnPlace, NodePlace, ClaimPlace, EarlyPlace
<1> QED BY <1>1, <1>2, <1>3, <1>4, <1>5, <1>6, <1>7, Step

LEMMA RetireKeeps ==
  ASSUME OInv, NEW a \in Request, Retire(a)
  PROVE  OInv'
<1> DEFINE x == [NewAttempt EXCEPT !.pc = "over", !.broke = att[a].broke,
                                   !.cancelled = att[a].cancelled]
<1>1. /\ att[a].pc = "closed" /\ UNCHANGED prefixVars /\ UNCHANGED queueVars
      /\ closing' = closing /\ att' = [att EXCEPT ![a] = x]
  BY DEF Retire
<1>2. Fits(a) /\ closing \in BOOLEAN /\ (closed \/ queueClosed => closing)
  BY Now
<1>3. /\ Lined' /\ SeatsKept(a) /\ queueClosed' = queueClosed
      /\ scopes' = scopes /\ waiting' = waiting /\ active' = active
  BY <1>1, QueueStays
<1>4. IInv' /\ Others(a) /\ req' = req /\ node' = node /\ closed' = closed
  BY <1>1, PrefixStays
<1>5. /\ x \in AttemptRecord /\ x.pc = "over" /\ ~x.swept /\ ~x.bound /\ ~x.published
      /\ ~x.finished
  BY Now DEF AttemptRecord, NewAttempt, Place
<1> HIDE DEF x
<1>6. RecordsKept(a) /\ att'[a] = x
  BY <1>1, <1>5, Recorded
<1>7. Fits(a)'
  BY <1>1, <1>2, <1>3, <1>4, <1>5, <1>6
     DEF Fits, Seated, Told, Claims, Runs, Prefills,
         OnlinePlace, TurnPlace, NodePlace, ClaimPlace, EarlyPlace
<1> QED BY <1>1, <1>2, <1>3, <1>4, <1>6, <1>7, Step
-----------------------------------------------------------------------------
(* Cancellation, and the end of the client.                                 *)

LEMMA SignalKeeps ==
  ASSUME OInv, NEW a \in Request, Signal(a)
  PROVE  OInv'
<1> DEFINE x == [att[a] EXCEPT !.event = TRUE]
<1>1. /\ UNCHANGED prefixVars /\ UNCHANGED queueVars
      /\ closing' = closing /\ att' = [att EXCEPT ![a].event = TRUE]
  BY DEF Signal
<1>2. Fits(a) /\ closing \in BOOLEAN /\ (closed \/ queueClosed => closing)
  BY Now
<1>3. /\ Lined' /\ SeatsKept(a) /\ queueClosed' = queueClosed
      /\ scopes' = scopes /\ waiting' = waiting /\ active' = active
  BY <1>1, QueueStays
<1>4. IInv' /\ Others(a) /\ req' = req /\ node' = node /\ closed' = closed
  BY <1>1, PrefixStays
<1>5. RecordsKept(a) /\ att'[a] = x
  <2>1. x \in AttemptRecord
    BY Now DEF AttemptRecord
  <2>2. att' = [att EXCEPT ![a] = x]
    BY <1>1 DEF OInv
  <2> HIDE DEF x
  <2> QED BY <2>1, <2>2, Recorded
<1>6. /\ att'[a].pc = att[a].pc /\ att'[a].event
      /\ att'[a].role = att[a].role /\ att'[a].published = att[a].published
      /\ att'[a].swept = att[a].swept /\ att'[a].cancelled = att[a].cancelled
      /\ att'[a].registered = att[a].registered /\ att'[a].broke = att[a].broke
      /\ att'[a].bound = att[a].bound /\ att'[a].finished = att[a].finished
  BY <1>5, Now DEF AttemptRecord
<1>7. Fits(a)'
  BY <1>1, <1>2, <1>3, <1>4, <1>6
     DEF Fits, Seated, Told, Claims, Runs, Prefills
<1> QED BY <1>1, <1>2, <1>3, <1>4, <1>5, <1>7, Step

\* attempt.cancel() keeps the invariant, on attempts A that differ from att in
\* whether a's cancellation was swept or its stream closed.
LEMMA CancelClaimKeeps ==
  ASSUME OInv, NEW a \in Request, NEW A \in [Request -> AttemptRecord],
         \A b \in Request \ {a} : A[b] = att[b],
         A[a].pc = att[a].pc, A[a].event = att[a].event, A[a].registered = att[a].registered,
         A[a].cancelled = att[a].cancelled, A[a].role = att[a].role, A[a].bound = att[a].bound,
         A[a].published = att[a].published, A[a].finished = att[a].finished,
         A[a].broke = att[a].broke, A[a].swept => att[a].event,
         CancelClaim(a, A), UNCHANGED queueVars, UNCHANGED closing
  PROVE  OInv'
<1>1. Fits(a) /\ closing \in BOOLEAN /\ (closed \/ queueClosed => closing)
  BY Now
<1>2. /\ Lined' /\ SeatsKept(a) /\ queueClosed' = queueClosed
      /\ scopes' = scopes /\ waiting' = waiting /\ active' = active
  BY QueueStays
<1>3. att' = [A EXCEPT ![a].cancelled = TRUE]
  BY DEF CancelClaim
<1> DEFINE x == [A[a] EXCEPT !.cancelled = TRUE]
<1>4. /\ RecordsKept(a) /\ att'[a].cancelled
      /\ att'[a].pc = att[a].pc /\ att'[a].event = att[a].event
      /\ att'[a].role = att[a].role /\ att'[a].published = att[a].published
      /\ att'[a].swept = A[a].swept /\ att'[a].broke = att[a].broke
      /\ att'[a].bound = att[a].bound /\ att'[a].finished = att[a].finished
  <2>1. /\ x \in AttemptRecord /\ x.cancelled /\ x.pc = A[a].pc /\ x.event = A[a].event
        /\ x.role = A[a].role /\ x.published = A[a].published /\ x.swept = A[a].swept
        /\ x.broke = A[a].broke /\ x.bound = A[a].bound /\ x.finished = A[a].finished
    BY DEF AttemptRecord
  <2>2. att' = [A EXCEPT ![a] = x]
    BY <1>3
  <2> HIDE DEF x
  <2>3. RecordsKept(a) /\ att'[a] = x
    BY <2>1, <2>2 DEF RecordsKept
  <2> QED BY <2>1, <2>3
<1> HIDE DEF x
<1>5. /\ IInv' /\ Others(a) /\ closed' = closed /\ Steady(node[a], node'[a])
      /\ \/ req' = req /\ (req[a].st = "held" /\ att[a].bound => req[a].lease)
         \/ req[a].st = "held" /\ (req'[a].st = "held" => req'[a].lease)
  <2>1. CASE Cancel(a) /\ req[a].st = "held"
    BY <2>1, PrefixMoves, CancelEffect, Now
  <2>2. CASE /\ UNCHANGED prefixVars
             /\ ~(att[a].bound /\ ~att[a].cancelled /\ req[a].st = "held" /\ ~req[a].cancelled)
    <3>1. req[a].st = "held" /\ att[a].bound => req[a].lease
      BY <1>1, <2>2 DEF Fits, Claims
    <3> QED BY <2>2, <3>1, PrefixStays DEF Steady
  <2> QED BY <2>1, <2>2 DEF CancelClaim
<1>6. Seated(a, att[a])' /\ Told(att[a])' /\ Prefills(att[a])'
  BY <1>1, <1>2, <1>4 DEF Fits, Seated, Told, Prefills
<1>7. Claims(att[a], req[a])'
  BY <1>1, <1>4, <1>5 DEF Fits, Claims
<1>8. Runs(att[a], node[a])'
  BY <1>1, <1>4, <1>5 DEF Fits, Runs, Steady
<1>9. Fits(a)'
  BY <1>6, <1>7, <1>8 DEF Fits
<1> QED BY <1>1, <1>2, <1>4, <1>5, <1>9, Step

LEMMA CancelKeeps ==
  ASSUME OInv, NEW a \in Request, Sweep(a) \/ CancelResponse(a) \/ CloseStream(a)
  PROVE  OInv'
<1>0. att \in [Request -> AttemptRecord]
  BY DEF OInv
<1>1. CASE Sweep(a)
  <2> DEFINE A == [att EXCEPT ![a].swept = TRUE]
  <2>1. /\ A \in [Request -> AttemptRecord] /\ \A b \in Request \ {a} : A[b] = att[b]
        /\ A[a].pc = att[a].pc /\ A[a].event = att[a].event /\ A[a].registered = att[a].registered
        /\ A[a].cancelled = att[a].cancelled /\ A[a].role = att[a].role
        /\ A[a].bound = att[a].bound /\ A[a].published = att[a].published
        /\ A[a].finished = att[a].finished /\ A[a].broke = att[a].broke
    BY <1>0 DEF AttemptRecord
  <2>2. /\ att[a].event /\ UNCHANGED queueVars /\ UNCHANGED closing
        /\ IF att[a].registered THEN CancelClaim(a, A) ELSE att' = A /\ UNCHANGED prefixVars
    BY <1>1 DEF Sweep
  <2> HIDE DEF A
  <2>3. CASE att[a].registered
    BY <2>1, <2>2, <2>3, CancelClaimKeeps
  <2>4. CASE ~att[a].registered
    <3>1. RecordsKept(a) /\ att'[a] = A[a] /\ UNCHANGED prefixVars
      BY <2>1, <2>2, <2>4 DEF RecordsKept
    <3>2. Fits(a) /\ closing \in BOOLEAN /\ (closed \/ queueClosed => closing)
      BY Now
    <3>3. /\ Lined' /\ SeatsKept(a) /\ queueClosed' = queueClosed
          /\ scopes' = scopes /\ waiting' = waiting /\ active' = active
      BY <2>2, QueueStays
    <3>4. IInv' /\ Others(a) /\ req' = req /\ node' = node /\ closed' = closed
      BY <3>1, PrefixStays
    <3>5. Fits(a)'
      <4>1. Seated(a, att[a])' /\ Told(att[a])' /\ Prefills(att[a])'
        BY <2>1, <2>2, <2>4, <3>1, <3>2, <3>3 DEF Fits, Seated, Told, Prefills
      <4>2. Claims(att[a], req[a])'
        BY <2>1, <3>1, <3>2, <3>4 DEF Fits, Claims
      <4>3. Runs(att[a], node[a])'
        BY <2>1, <2>2, <3>1, <3>2, <3>4 DEF Fits, Runs
      <4> QED BY <4>1, <4>2, <4>3 DEF Fits
    <3> QED BY <2>2, <3>1, <3>2, <3>3, <3>4, <3>5, Step
  <2> QED BY <2>3, <2>4
<1>2. CASE CancelResponse(a)
  <2>1. att[a].swept => att[a].event
    BY Now DEF Fits, Told
  <2>2. CancelClaim(a, att) /\ UNCHANGED queueVars /\ UNCHANGED closing
    BY <1>2 DEF CancelResponse
  <2> QED BY <1>0, <2>1, <2>2, CancelClaimKeeps
<1>3. CASE CloseStream(a)
  <2> DEFINE A == [att EXCEPT ![a].stop = TRUE]
  <2>1. /\ A \in [Request -> AttemptRecord] /\ \A b \in Request \ {a} : A[b] = att[b]
        /\ A[a].pc = att[a].pc /\ A[a].event = att[a].event /\ A[a].registered = att[a].registered
        /\ A[a].cancelled = att[a].cancelled /\ A[a].role = att[a].role
        /\ A[a].bound = att[a].bound /\ A[a].published = att[a].published
        /\ A[a].finished = att[a].finished /\ A[a].broke = att[a].broke
        /\ A[a].swept = att[a].swept
    BY <1>0 DEF AttemptRecord
  <2>2. CancelClaim(a, A) /\ UNCHANGED queueVars /\ UNCHANGED closing
    BY <1>3 DEF CloseStream
  <2> HIDE DEF A
  <2>3. att[a].swept => att[a].event
    BY Now DEF Fits, Told
  <2> QED BY <2>1, <2>2, <2>3, CancelClaimKeeps
<1> QED BY <1>1, <1>2, <1>3

\* close() of the client finds nobody who holds or runs anything.
LEMMA CloseClientKeeps ==
  ASSUME OInv, CloseClient
  PROVE  OInv'
<1>1. /\ \A a \in Request : att[a].pc \in {"new", "over"}
      /\ closing' = TRUE /\ Queue!Close /\ Close /\ att' = att
  BY DEF CloseClient
<1>2. \A a \in Request : req[a].st # "held" /\ ~node[a].active
  BY <1>1, Now DEF Fits, Claims, Runs, NodePlace, ClaimPlace, OnlinePlace
<1>3. IInv'
  BY <1>1, NextInvariant DEF Next, OInv
<1>4. Lined' /\ scopes' = scopes /\ waiting' = waiting /\ active' = active
  <2>1. active \notin waiting
    BY DEF OInv, Fits, Seated, TurnPlace, OnlinePlace, Lined, Queue!TypeOK
  <2> QED BY <1>1, <2>1, CloseLine DEF OInv, Queue!Close
<1> DEFINE held == {r \in Request : req[r].st = "held"}
           C == [r \in Request |-> IF r \in held THEN [req[r] EXCEPT !.cancelled = TRUE] ELSE req[r]]
           Q == {r \in held : ~req[r].cancelled /\ ~req[r].lease}
           N == [n \in Request |->
                  [node[n] EXCEPT !.cancel = @ \/ (node[n].known /\ node[n].active)]]
           M == {n \in Request : node[n].known}
<1>5. req' = ReleaseAll(C, Q) /\ node' = Settled(ReleaseAll(C, Q), N, M)
  BY <1>1 DEF Close, Settle
<1>6. held = {} /\ Q = {}
  BY <1>2
<1>7. ASSUME NEW a \in Request
      PROVE  req'[a].st # "held" /\ ~node'[a].active
  <2>1. C[a] = req[a]
    BY <1>6
  <2> HIDE DEF C, held, Q, M
  <2>2. req'[a] = C[a]
    BY <1>5, <1>6 DEF ReleaseAll
  <2>3. ~N[a].active
    BY <1>2, Tables DEF OInv, NodeRecord
  <2> HIDE DEF N
  <2>4. node'[a] \in {Unused, N[a]}
    BY <1>5, <2>3 DEF Settled
  <2> QED BY <1>2, <2>1, <2>2, <2>3, <2>4 DEF Unused
<1> HIDE DEF C, held, Q, M, N
<1>8. ASSUME NEW a \in Request
      PROVE  Fits(a)'
  <2>1. Fits(a) /\ att'[a] = att[a] /\ att[a].pc \in {"new", "over"}
    BY <1>1, Now
  <2>2. Seated(a, att[a])' /\ Told(att[a])' /\ Prefills(att[a])'
    BY <1>1, <1>4, <2>1 DEF Fits, Seated, Told, Prefills
  <2>3. Claims(att[a], req[a])' /\ Runs(att[a], node[a])'
    BY <1>7 DEF Claims, Runs
  <2> QED BY <2>2, <2>3 DEF Fits
<1>9. att' \in [Request -> AttemptRecord]
  BY <1>1 DEF OInv
<1> QED BY <1>1, <1>3, <1>4, <1>8, <1>9 DEF OInv

LEMMA AttemptsInitInvariant ==
  ASSUME AttemptsInit
  PROVE  OInv
<1>1. Init /\ Queue!Init /\ closing = FALSE /\ att = [a \in Request |-> NewAttempt]
  BY DEF AttemptsInit
<1>2. IInv
  BY <1>1, InitInvariant
<1>3. IsFiniteSet(scopes) /\ Cardinality(scopes) = 0
  BY <1>1, FS_EmptySet DEF Queue!Init
<1>4. Lined
  <2>1. ready = <<>> /\ scopes = {} /\ waiting = {}
    BY <1>1 DEF Queue!Init
  <2>2. Queue!LineIsTheWaiting
    BY <2>1 DEF Queue!LineIsTheWaiting, Queue!Range, Queue!IsInjective
  <2>3. Queue!TypeOK
    <3>1. Queue!Cardinality(scopes) <= Maximum
      BY <1>3, Counts, AttemptBounds
    <3>2. ready \in Seq(Request)
      BY <2>1
    <3>3. created = {} /\ entered = {} /\ active = NoScope /\ queueClosed = FALSE
      BY <1>1 DEF Queue!Init
    <3> QED BY <2>1, <3>1, <3>2, <3>3 DEF Queue!TypeOK
  <2> QED BY <1>3, <2>2, <2>3 DEF Lined
<1>5. /\ NewAttempt \in AttemptRecord /\ NewAttempt.pc = "new" /\ ~NewAttempt.swept
      /\ ~NewAttempt.bound /\ ~NewAttempt.published /\ ~NewAttempt.finished
  BY DEF NewAttempt, AttemptRecord, Place
<1>6. ASSUME NEW a \in Request
      PROVE  Fits(a)
  <2>1. att[a] = NewAttempt /\ req[a].st = "new" /\ ~node[a].active
    BY <1>1 DEF Init, NoRequest, Unused
  <2>2. a \notin scopes /\ a \notin waiting /\ active # a
    BY <1>1, AttemptBounds DEF Queue!Init
  <2> QED BY <1>5, <2>1, <2>2
          DEF Fits, Seated, Told, Claims, Runs, Prefills, OnlinePlace
<1>7. closed = FALSE /\ queueClosed = FALSE
  BY <1>1 DEF Init, Queue!Init
<1> QED BY <1>1, <1>2, <1>4, <1>5, <1>6, <1>7 DEF OInv

LEMMA AttemptsNextInvariant ==
  ASSUME OInv, [AttemptsNext]_attemptVars
  PROVE  OInv'
<1>1. CASE UNCHANGED attemptVars
  <2>1. /\ UNCHANGED <<created, scopes, entered, waiting, ready, active, queueClosed>>
        /\ UNCHANGED <<req, node, pending, closed, secret, count, reserved>>
        /\ UNCHANGED <<att, closing>>
    BY <1>1 DEF attemptVars
  <2>2. IInv'
    BY <2>1, NextInvariant DEF OInv, vars
  <2>3. Lined'
    BY <2>1 DEF OInv, Lined, Queue!TypeOK, Queue!LineIsTheWaiting
  <2>4. \A a \in Request : Fits(a)'
    BY <2>1 DEF OInv, Fits, Seated, Told, Claims, Runs, Prefills
  <2> QED BY <2>1, <2>2, <2>3, <2>4 DEF OInv
<1>2. CASE CloseClient
  BY <1>2, CloseClientKeeps
<1>3. ASSUME NEW a \in Request,
             \/ Start(a) \/ Resume(a) \/ Feed(a) \/ Complete(a)
             \/ Signal(a) \/ Sweep(a) \/ CancelResponse(a) \/ CloseStream(a)
      PROVE  OInv'
  BY <1>3, StartKeeps, CheckedKeeps, EndKeeps, SignalKeeps, CancelKeeps
<1>4. ASSUME NEW a \in Request,
             \/ Register(a) \/ CheckedStep(a, "registered", "setup") \/ LookupPrefix(a)
             \/ Bind(a) \/ JoinPrefill(a) \/ WakeJoiner(a) \/ Enter(a) \/ TakeTurn(a)
             \/ Leave(a) \/ Open(a)
      PROVE  OInv'
  BY <1>4, RegisterKeeps, CheckedKeeps, LookupKeeps, BindKeeps, JoinPrefillKeeps,
     WakeJoinerKeeps, EnterKeeps, TakeTurnKeeps, LeaveKeeps
<1>5. ASSUME NEW a \in Request,
             \/ Prefill(a) \/ Sample(a) \/ Decode(a) \/ Exit(a) \/ Break(a)
             \/ StopAdmission(a) \/ CloseQueue(a) \/ FailPrefix(a) \/ FinishPrefix(a)
             \/ ReleasePrefix(a) \/ CloseScope(a) \/ Retire(a)
      PROVE  OInv'
  BY <1>5, PrefillKeeps, CheckedKeeps, EndKeeps, BreakKeeps, StopAdmissionKeeps,
     CloseQueueKeeps, FailPrefixKeeps, FinishPrefixKeeps, ReleasePrefixKeeps,
     CloseScopeKeeps, RetireKeeps
<1> QED BY <1>1, <1>2, <1>3, <1>4, <1>5 DEF AttemptsNext, Running

\* The invariant of the attempts holds in every state.
THEOREM AttemptsInvariance == AttemptsSpec => []OInv
<1>1. AttemptsInit => OInv
  BY AttemptsInitInvariant
<1>2. OInv /\ [AttemptsNext]_attemptVars => OInv'
  BY AttemptsNextInvariant
<1> QED BY <1>1, <1>2, PTL DEF AttemptsSpec

\* Whoever is cancelled, breaks or closes, turns, seats, claims and prefills have
\* an owner who will give them back, and nobody is left in the line.
THEOREM OwnersGiveBack == AttemptsSpec => []Ownership
<1>1. ASSUME OInv PROVE Ownership
  <2>1. AttemptsTypeOK
    BY <1>1 DEF OInv, IInv, WellFormed, TypeOK, Lined, AttemptsTypeOK, AttemptRecord
  <2>2. OwnersUnwind
    BY <1>1, Now DEF OwnersUnwind, Online, Fits, Seated, Claims, Runs, OnlinePlace,
       TurnPlace, NodePlace, ClaimPlace
  <2>3. SeatOutlivesClaim
    BY <1>1, Now DEF SeatOutlivesClaim, Fits, Seated, Claims, Runs, OnlinePlace,
       NodePlace, ClaimPlace
  <2>4. CancellationReaches
    BY <1>1, Now DEF CancellationReaches, Fits, Told, Claims
  <2>5. Queue!LineIsTheWaiting /\ Queue!TurnHasSeat
    <3>1. active \notin waiting /\ (active # NoScope => active \in scopes)
      BY <1>1 DEF OInv, Fits, Seated, TurnPlace, OnlinePlace, Lined, Queue!TypeOK
    <3> QED BY <1>1, <3>1 DEF OInv, Lined, Queue!TurnHasSeat
  <2> QED BY <2>1, <2>2, <2>3, <2>4, <2>5 DEF Ownership
<1> QED BY <1>1, AttemptsInvariance, PTL
-----------------------------------------------------------------------------
\* What a step does to the queue.
LEMMA QueueSteps ==
  ASSUME [AttemptsNext]_attemptVars
  PROVE  \/ UNCHANGED queueVars \/ Queue!Close
         \/ \E a \in Request : \/ Queue!Admit(a) \/ Queue!Enter(a) \/ Queue!TakeTurn(a)
                               \/ Queue!Leave(a) \/ Queue!Release(a)
<1>1. CASE UNCHANGED attemptVars
  BY <1>1 DEF attemptVars, queueVars
<1>2. CASE CloseClient
  BY <1>2 DEF CloseClient
<1>3. ASSUME NEW a \in Request, Resume(a) \/ Feed(a) \/ Complete(a) \/ Signal(a) \/ Sweep(a)
                                \/ CancelResponse(a) \/ CloseStream(a)
      PROVE  UNCHANGED queueVars
  BY <1>3 DEF Resume, Feed, CheckedStep, Complete, Signal, Sweep, CancelResponse, CloseStream
<1>4. ASSUME NEW a \in Request,
             \/ Register(a) \/ CheckedStep(a, "registered", "setup") \/ LookupPrefix(a)
             \/ Bind(a) \/ JoinPrefill(a) \/ WakeJoiner(a) \/ Open(a)
             \/ Prefill(a) \/ Sample(a) \/ Decode(a) \/ Exit(a) \/ Break(a)
      PROVE  UNCHANGED queueVars
  BY <1>4 DEF Register, CheckedStep, LookupPrefix, Bind, JoinPrefill, WakeJoiner, Open,
     Prefill, Sample, Decode, Exit, Break
<1>5. ASSUME NEW a \in Request,
             \/ StopAdmission(a) \/ FailPrefix(a) \/ FinishPrefix(a)
             \/ ReleasePrefix(a) \/ Retire(a)
      PROVE  UNCHANGED queueVars
  BY <1>5 DEF StopAdmission, FailPrefix, FinishPrefix, ReleasePrefix, Retire
<1>6. ASSUME NEW a \in Request,
             \/ Start(a) \/ Enter(a) \/ TakeTurn(a) \/ Leave(a) \/ CloseQueue(a)
             \/ CloseScope(a)
      PROVE  \/ UNCHANGED queueVars \/ Queue!Close
             \/ Queue!Admit(a) \/ Queue!Enter(a) \/ Queue!TakeTurn(a)
             \/ Queue!Leave(a) \/ Queue!Release(a)
  BY <1>6 DEF Start, Enter, TakeTurn, Leave, CloseQueue, CloseScope
<1> QED BY <1>1, <1>2, <1>3, <1>4, <1>5, <1>6 DEF AttemptsNext, Running

LEMMA TurnOrder ==
  ASSUME OInv, [AttemptsNext]_attemptVars
  PROVE  InTurn /\ (active # NoScope => active' \in {active, NoScope})
<1>1. Lined /\ active \notin waiting
  BY DEF OInv, Fits, Seated, TurnPlace, OnlinePlace, Lined, Queue!TypeOK
<1>2. CASE UNCHANGED queueVars
  <2>1. UNCHANGED <<ready, active>>
    BY <1>2 DEF queueVars
  <2> QED BY <1>1, <2>1, SameLine
<1>3. CASE Queue!Close
  BY <1>1, <1>3, CloseLine DEF Queue!Close
<1>4. ASSUME NEW a \in Request, \/ Queue!Admit(a) \/ Queue!Enter(a) \/ Queue!TakeTurn(a)
                                \/ Queue!Leave(a) \/ Queue!Release(a)
      PROVE  InTurn /\ (active # NoScope => active' \in {active, NoScope})
  <2>1. InTurn
    BY <1>1, <1>4, AdmitLine, EnterLine, TakeTurnLine, LeaveQueue, ReleaseQueue
  <2>2. CASE Queue!Leave(a)
    BY <1>1, <2>1, <2>2, LeaveQueue
  <2>3. CASE Queue!Admit(a) \/ Queue!Enter(a) \/ Queue!TakeTurn(a) \/ Queue!Release(a)
    BY <2>1, <2>3
       DEF Queue!Admit, Queue!Enter, Queue!TakeTurn, Queue!IsNext, Queue!Release, Queue!GiveUpSeat
  <2> QED BY <1>4, <2>2, <2>3
<1> QED BY <1>2, <1>3, <1>4, QueueSteps

\* The turn goes round in the order of readiness, and is never taken from
\* anybody: for any number of attempts and seats.
THEOREM TurnsGoInOrder == AttemptsSpec => TurnsInOrder
<1>1. OInv /\ [AttemptsNext]_attemptVars =>
        [ \A s, t \in Request : Queue!Before(s, t) /\ s \in waiting' /\ s \in scopes' =>
            /\ active' # t
            /\ t \in Queue!Range(ready') => Queue!Before(s, t)' ]_(Queue!vars)
  BY TurnOrder DEF InTurn
<1>2. OInv /\ [AttemptsNext]_attemptVars =>
        [active # NoScope => active' \in {active, NoScope}]_(Queue!vars)
  BY TurnOrder
<1> QED BY <1>1, <1>2, AttemptsInvariance, PTL
        DEF AttemptsSpec, TurnsInOrder, Queue!FirstReadyFirstServed, Queue!TurnIsNotTaken

-----------------------------------------------------------------------------
\* What a step does to the prefix owner, and which step of an attempt does it.
LEMMA PrefixSteps ==
  ASSUME [AttemptsNext]_attemptVars
  PROVE  \/ UNCHANGED prefixVars \/ CloseClient
         \/ \E c \in Request :
              \/ Lookup(c) \/ Wait(c) \/ Wake(c) \/ Cancel(c) \/ Release(c)
              \/ /\ Publish(c)
                 /\ LET done == node'[c].status = "published" IN
                    att' = [att EXCEPT ![c].published = done, ![c].broke = ~done,
                                       ![c].pc = IF done THEN "prefilled" ELSE "unwind"]
              \/ Fail(c) /\ att[c].pc = "unwind" /\ ~att[c].published
              \/ Finish(c) /\ att[c].pc = "failing"
<1>1. CASE UNCHANGED attemptVars
  BY <1>1 DEF attemptVars, prefixVars
<1>2. ASSUME NEW a \in Request, Start(a) \/ Resume(a) \/ Feed(a) \/ Complete(a) \/ Signal(a)
      PROVE  UNCHANGED prefixVars
  BY <1>2 DEF Start, Resume, Feed, CheckedStep, Complete, Signal
<1>3. ASSUME NEW a \in Request, Sweep(a) \/ CancelResponse(a) \/ CloseStream(a)
      PROVE  UNCHANGED prefixVars \/ Cancel(a)
  BY <1>3 DEF Sweep, CancelResponse, CloseStream, CancelClaim
<1>4. ASSUME NEW a \in Request,
             \/ Register(a) \/ CheckedStep(a, "registered", "setup") \/ Enter(a)
             \/ TakeTurn(a) \/ Leave(a) \/ Open(a) \/ Sample(a) \/ Decode(a)
             \/ Exit(a) \/ Break(a) \/ StopAdmission(a) \/ CloseQueue(a)
             \/ CloseScope(a) \/ Retire(a)
      PROVE  UNCHANGED prefixVars
  BY <1>4 DEF Register, CheckedStep, Enter, TakeTurn, Leave, Open, Sample, Decode, Exit,
     Break, StopAdmission, CloseQueue, CloseScope, Retire
<1>5. ASSUME NEW a \in Request, \/ LookupPrefix(a) \/ Bind(a) \/ JoinPrefill(a)
                                \/ WakeJoiner(a) \/ ReleasePrefix(a)
      PROVE  \/ UNCHANGED prefixVars
             \/ Lookup(a) \/ Wait(a) \/ Wake(a) \/ Cancel(a) \/ Release(a)
  BY <1>5 DEF LookupPrefix, Bind, JoinPrefill, WakeJoiner, ReleasePrefix
<1>6. ASSUME NEW a \in Request, Prefill(a)
      PROVE  \/ UNCHANGED prefixVars
             \/ /\ Publish(a)
                /\ LET done == node'[a].status = "published" IN
                   att' = [att EXCEPT ![a].published = done, ![a].broke = ~done,
                                      ![a].pc = IF done THEN "prefilled" ELSE "unwind"]
  BY <1>6 DEF Prefill
<1>7. ASSUME NEW a \in Request, FailPrefix(a)
      PROVE  UNCHANGED prefixVars \/ (Fail(a) /\ att[a].pc = "unwind" /\ ~att[a].published)
  BY <1>7 DEF FailPrefix
<1>8. ASSUME NEW a \in Request, FinishPrefix(a)
      PROVE  Finish(a) /\ att[a].pc = "failing"
  BY <1>8 DEF FinishPrefix
<1> QED BY <1>1, <1>2, <1>3, <1>4, <1>5, <1>6, <1>7, <1>8 DEF AttemptsNext, Running

\* A prefill that fails while it is pending, and what its producer did.
LEMMA WhoFails ==
  ASSUME OInv, [AttemptsNext]_attemptVars, NEW a \in Request, NEW b \in Request \ {a},
         req[b].st = "held", req[b].node = a,
         node[a].status = "pending", node'[a].status = "failed"
  PROVE  att[a].broke \/ att'[a].broke \/ closing
<1>1. IInv /\ Fits(a) /\ Fits(b) /\ (closed => closing)
  BY Now
<1>2. node[a].cancel => closing
  BY <1>1 DEF IInv, Wanted, Held
<1>3. ~CloseClient
  BY <1>1 DEF CloseClient, Fits, Claims, ClaimPlace, NodePlace, OnlinePlace
<1>4. ~UNCHANGED prefixVars
  BY PrefixStays
<1>5. ASSUME NEW c \in Request, Lookup(c) \/ Wait(c) \/ Wake(c) \/ Cancel(c) \/ Release(c)
      PROVE  FALSE
  <2>1. Others(c)
    BY <1>5, PrefixMoves
  <2>2. Steady(node[c], node'[c]) \/ node'[c].status = "pending"
    BY <1>1, <1>5, LookupEffect, WaitEffect, WakeEffect, CancelEffect, ReleaseEffect
  <2> QED BY <2>1, <2>2 DEF Others, Steady
<1>6. ASSUME NEW c \in Request, c # a, Publish(c) \/ Fail(c) \/ Finish(c)
      PROVE  FALSE
  <2>1. Others(c)
    BY <1>6, PrefixMoves
  <2> QED BY <1>6, <2>1 DEF Others, Steady
<1> DEFINE done == node'[a].status = "published"
<1>7. CASE att' = [att EXCEPT ![a].published = done, ![a].broke = ~done,
                              ![a].pc = IF done THEN "prefilled" ELSE "unwind"]
  <2>1. att[a] \in AttemptRecord /\ att \in [Request -> AttemptRecord] /\ ~done
    BY DEF OInv
  <2> HIDE DEF done
  <2>2. att'[a].broke = ~done
    BY <1>7, <2>1 DEF AttemptRecord
  <2> QED BY <2>1, <2>2
<1>8. CASE Fail(a) /\ att[a].pc = "unwind" /\ ~att[a].published
  <2>1. node[a].active
    BY <1>8 DEF Fail
  <2> QED BY <1>1, <1>2, <1>8, <2>1 DEF Fits, Runs
<1>9. CASE Finish(a) /\ att[a].pc = "failing"
  <2>1. node[a].active
    BY <1>9 DEF Finish
  <2> QED BY <1>1, <1>9, <2>1 DEF Fits, Runs
<1> HIDE DEF done
<1>10. \/ UNCHANGED prefixVars \/ CloseClient
       \/ \E c \in Request : Lookup(c) \/ Wait(c) \/ Wake(c) \/ Cancel(c) \/ Release(c)
       \/ \E c \in Request \ {a} : Publish(c) \/ Fail(c) \/ Finish(c)
       \/ att' = [att EXCEPT ![a].published = done, ![a].broke = ~done,
                             ![a].pc = IF done THEN "prefilled" ELSE "unwind"]
       \/ Fail(a) /\ att[a].pc = "unwind" /\ ~att[a].published
       \/ Finish(a) /\ att[a].pc = "failing"
  BY PrefixSteps DEF done
<1> QED BY <1>3, <1>4, <1>5, <1>6, <1>7, <1>8, <1>9, <1>10

\* Only a check that was passed feeds a token back.
LEMMA WhoFeeds ==
  ASSUME OInv, [AttemptsNext]_attemptVars, NEW a \in Request,
         att[a].pc # "feeding", att'[a].pc = "feeding"
  PROVE  ~att[a].cancelled
<1>1. att \in [Request -> AttemptRecord]
  BY DEF OInv
<1>2. ASSUME NEW c \in Request, NEW p, Moves(c, p), p # "feeding"
      PROVE  att'[a].pc # "feeding" \/ att[a].pc = "feeding"
  BY <1>1, <1>2 DEF Moves, AttemptRecord
<1>3. ASSUME NEW c \in Request, Feed(c)
      PROVE  ~att[a].cancelled
  <2>1. CASE IsSet(c)
    BY <1>2, <1>3, <2>1 DEF Feed, CheckedStep
  <2>2. CASE ~IsSet(c) /\ c # a
    BY <1>1, <1>3, <2>2 DEF Feed, CheckedStep, Moves
  <2>3. CASE ~IsSet(c) /\ c = a
    <3>1. att[a].pc = "decoding" /\ (att[a].cancelled => Defers(a))
      BY <1>3, <2>3 DEF Feed, CheckedStep, IsSet
    <3> QED BY <3>1, Now DEF Fits, Prefills, Defers, Produces
  <2> QED BY <2>1, <2>2, <2>3
<1>4. ASSUME NEW c \in Request,
             \/ CheckedStep(c, "registered", "setup") \/ Open(c) \/ Resume(c) \/ Sample(c)
             \/ Decode(c)
      PROVE  att'[a].pc # "feeding" \/ att[a].pc = "feeding"
  <2>1. CASE IsSet(c)
    <3>1. Moves(c, "unwind")
      BY <1>4, <2>1 DEF Open, Resume, Sample, Decode, CheckedStep
    <3> QED BY <1>2, <3>1
  <2>2. CASE ~IsSet(c)
    <3>1. \/ Moves(c, "setup") \/ Moves(c, "opened") \/ Moves(c, "prefilling")
          \/ Moves(c, "decoding")
      BY <1>4, <2>2 DEF Open, Resume, Sample, Decode, CheckedStep
    <3> QED BY <1>2, <3>1
  <2> QED BY <2>1, <2>2
<1>5. ASSUME NEW c \in Request, Start(c) \/ Complete(c) \/ Exit(c) \/ JoinPrefill(c)
                                \/ WakeJoiner(c) \/ Enter(c) \/ TakeTurn(c) \/ Leave(c)
      PROVE  att'[a].pc # "feeding" \/ att[a].pc = "feeding"
  <2>1. \/ Moves(c, "admitted") \/ Moves(c, "over") \/ Moves(c, "unwind")
        \/ Moves(c, "waiting") \/ Moves(c, "ready") \/ Moves(c, "queued") \/ Moves(c, "active")
    BY <1>5 DEF Start, Complete, Exit, JoinPrefill, WakeJoiner, Enter, TakeTurn, Leave
  <2> QED BY <1>2, <2>1
<1>6. ASSUME NEW c \in Request, StopAdmission(c) \/ CloseQueue(c) \/ FinishPrefix(c)
                                \/ ReleasePrefix(c) \/ CloseScope(c)
      PROVE  att'[a].pc # "feeding" \/ att[a].pc = "feeding"
  <2>1. \/ Moves(c, "stopping") \/ Moves(c, "unwind") \/ Moves(c, "finished")
        \/ Moves(c, "released") \/ Moves(c, "closed")
    BY <1>6 DEF StopAdmission, CloseQueue, FinishPrefix, ReleasePrefix, CloseScope
  <2> QED BY <1>2, <2>1
<1>7. ASSUME NEW c \in Request,
             \/ Register(c) \/ Break(c) \/ Retire(c) \/ Signal(c) \/ Bind(c) \/ Sweep(c)
             \/ CancelResponse(c) \/ CloseStream(c)
      PROVE  att'[a].pc # "feeding" \/ att[a].pc = "feeding"
  <2>1. CASE Register(c)
    BY <1>1, <2>1 DEF Register, AttemptRecord
  <2>2. CASE Break(c)
    BY <1>1, <2>2 DEF Break, AttemptRecord
  <2>3. CASE Retire(c)
    BY <1>1, <2>3 DEF Retire, AttemptRecord, NewAttempt
  <2>4. CASE Signal(c)
    BY <1>1, <2>4 DEF Signal, AttemptRecord
  <2>5. CASE Bind(c)
    BY <1>1, <2>5 DEF Bind, AttemptRecord
  <2>6. CASE Sweep(c) \/ CancelResponse(c) \/ CloseStream(c)
    BY <1>1, <2>6 DEF Sweep, CancelResponse, CloseStream, CancelClaim, AttemptRecord
  <2> QED BY <1>7, <2>1, <2>2, <2>3, <2>4, <2>5, <2>6
<1>8. ASSUME NEW c \in Request, LookupPrefix(c) \/ Prefill(c) \/ FailPrefix(c)
      PROVE  att'[a].pc # "feeding" \/ att[a].pc = "feeding"
  <2>1. CASE \/ Moves(c, "ready") \/ Moves(c, "prefilled") \/ Moves(c, "unwind")
             \/ Moves(c, "finished")
    BY <1>2, <2>1
  <2>2. CASE att' = [att EXCEPT ![c].pc = "looked",
                       ![c].role = IF req'[c].node = c THEN "producer" ELSE "joiner"]
    BY <1>1, <2>2 DEF AttemptRecord
  <2>3. CASE LET done == node'[c].status = "published" IN
             att' = [att EXCEPT ![c].published = done, ![c].broke = ~done,
                                ![c].pc = IF done THEN "prefilled" ELSE "unwind"]
    BY <1>1, <2>3 DEF AttemptRecord
  <2>4. CASE att' = [att EXCEPT ![c].pc = "failing", ![c].finished = TRUE]
    BY <1>1, <2>4 DEF AttemptRecord
  <2> QED BY <1>8, <2>1, <2>2, <2>3, <2>4 DEF LookupPrefix, Prefill, FailPrefix
<1>9. CASE UNCHANGED attemptVars \/ CloseClient
  BY <1>9 DEF attemptVars, CloseClient
<1> QED BY <1>3, <1>4, <1>5, <1>6, <1>7, <1>8, <1>9 DEF AttemptsNext, Running

\* A caller that left finishes the prefill others wait for, and computes nothing
\* private after it: for any number of attempts and seats.
THEOREM DepartedFinishOnly == AttemptsSpec => DepartedFinishes
<1>1. OInv /\ [AttemptsNext]_attemptVars =>
        [ \A a, b \in Request :
            /\ a # b /\ req[b].st = "held" /\ req[b].node = a
            /\ node[a].status = "pending" /\ node'[a].status = "failed"
            => att[a].broke \/ att'[a].broke \/ closing ]_attemptVars
  BY WhoFails
<1>2. OInv /\ [AttemptsNext]_attemptVars =>
        [ \A a \in Request :
            att[a].pc # "feeding" /\ att'[a].pc = "feeding" => ~att[a].cancelled ]_attemptVars
  BY WhoFeeds
<1> QED BY <1>1, <1>2, AttemptsInvariance, PTL
        DEF AttemptsSpec, DepartedFinishes, SharedPrefillSurvives, NoPrivateDecode
=============================================================================
