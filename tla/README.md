# Verification of the PLLM prepared-inference runtime

PLLM runs a language model so that the provider of the weights never sees the
prompt. The client masks each activation; a *Preparation* service has computed,
ahead of time, the *correction* that removes the mask's image from the product; an
*Inference* service multiplies masked activations with the public weights and adds
the correction. A correction is one-time material: used for two activations it
would give away their difference. The part of the repository that carries this
burden is small, concurrent, and full of timeouts, cancellation and lazy cleanup.
That part is modelled here in TLA+, checked with TLC and, where it matters most,
proved with TLAPS.

Paths below are relative to `src/python/pllm/runtime/` unless they say otherwise.

## 1. Inventory of the system

| Component | State | Operations | Interacts with |
|---|---|---|---|
| Correction rendezvous, `correction_rendezvous.py` | `_sessions` (expected authorization, burned attempts, last activity), `_entries` by (session, attempt), `_bytes` | register, authorize, push, preload, activate, await the correction, consume a batch, abort, burn reserved, terminal, close, lazy expiry | called by every prepared handler of the inference service, from its event loop and from threads |
| Prepared inventories and sessions, `server.py` | the `sessions` dict: inventories (stage grid, prepared stages, ready flag, next row) and execution sessions (reserved attempts); both with canceled, completed, last activity | create, authorize, push, seal, read and cancel an inventory; create, cancel, complete a session; execute on three routes (batch, single row, several rows) and over a WebSocket; cleanup and retirement | calls the rendezvous several times per handler; called by Preparation (push) and Client (everything else) |
| In-flight prefix sharing, `inflight_prefix.py` | `_nodes`, `_pending`, requests, leases, commitment key, counters | look up or register, publish, fail, finish, wait, cancel, release, close | threads of one client; used by the owned attempts of `prepared_queue.py` |
| Prepared execution queue and attempts, `prepared_queue.py` | seats, FIFO of ready scopes, active scope; of an attempt: cancellation event, prefix claim, progress | admit, enter, release, close; register, cancel with deferral, close of a stream | threads of one client; in-flight prefixes and the response generator of `client.py` |
| Correction channel, `correction_channel.py` | socket, receiver task, pending acknowledgements, two locks | connect, push with or without acknowledgement, receive, discard, close | Preparation to Inference |
| Preparation service, `preparation_server.py` | authorized sessions with consumed attempts and stages | authorize (reserve, post, activate), prepare a stage (consume, compute, push), cancel, expiry | Client, then Inference over the channel |
| Client preparation, `client.py`, `preparation_window.py` | jobs of a bounded window, index, cancels sent | authorize, fill, collect, abort, join, seal | both services |
| Client activity and inventories, `client.py` | foreground, online and preparation gates, state lock, current and spare inventory, refill future | begin and end of a response, reserve, open, finish, refill, preprocess, close | both services |
| Rows of an inventory, `transformer_client.py`, `mask_stream.rs` | reserved rows, leases, one-use mask rows, row counters | reserve, claim, take, close, finish, cancel | responses that share the inventory |
| Party controller, `party.py` | leases (armed, opened, revoked), lock, accepting, calls in adapters | reserve, arm, release, purge, drain, leave, close, calls | clients of several parties |
| Decode store, `decode_store.py` | published nodes and pages, staged states, files with synced names, heads | stage, commit, discard, rollback, crash, open | responses that keep decode state |
| Other stateful parts: batching, correlation ledger, replay window, conversation turns, peer sessions, prefill cache, execution leases, planned client, workers of the research protocols | queues, tables, windows | see section 5 | |
| Engines, Rust crates, packages for planning and search | numbers, documents | arithmetic, codecs, compilation | everything |

What is hard about it:

* **Crashes and losses.** Calls between the two services are lost or arrive after their
  caller gave up; a crash loses the names of files whose directory was not synced.
* **Interleaving.** A handler gives up the event loop at every `await`; the
  rendezvous gives up its lock while a request awaits its correction; a prefix
  waiter gives up the owner's condition. What was checked before may be untrue after.
* **Several clocks.** An inventory, its correction session in the rendezvous, and
  an entry of it each have an age, refreshed by different calls; all of them expire
  lazily, when somebody else calls.
* **Many ends.** A session or inventory ends by cancel, complete, exhaustion,
  idleness or the failure of one row; each end must burn what is left and free what
  was counted, once.
* **Limits.** Attempts, entries, bytes, sessions, nodes and requests are bounded
  by counters that several paths decrement, and by sums made in two places.

What makes each component correct:

* rendezvous: a correction is handed out at most once, only to an authorized live
  session, bytes are counted exactly, a waiting request always ends;
* inventories and sessions: rows reserved for one session only, consumed by that
  session only and while it lives, burned at its end; ready means loaded; admission
  promises nothing the rendezvous refuses; nothing is left behind;
* prefix sharing: what can be joined is alive and wanted, one prefill per prompt, a
  producer is stopped only when nobody is left, snapshots and the key outlive their
  users, counters are exact, close drains;
* queue and attempts: first ready first served, a turn is never taken away, what an
  attempt owns is given back wherever it is cancelled, a prefill others wait for outlives
  its caller, every response ends;
* channel: an acknowledgement reaches the push it is for and only after the correction
  was accepted; every push ends;
* preparation: a stage is computed once in the life of a session, both services agree on
  what is held, the client hands out whole inventories or leaves nothing live, and ends;
* client: preparation and online execution never overlap, no inventory is forgotten or
  cancelled in use, a mask row is given out once, the audit of rows adds up;
* party: capacity is never promised twice and is free only when its calls have unwound;
* decode store: a head that was returned stays readable over crashes, and what can be
  looked up is what was published.

`PROJECT.json` lists the hazards at their lines with the properties that would
catch them, and those that no property covers with the reason.

## 2. Modules

| Module | What it is |
|---|---|
| `Rendezvous` | the rendezvous' state as one record, and each critical section as an operator on it; no variables, so that two specifications share it |
| `CorrectionRendezvous` | the rendezvous as a system of its own, used in any order by anybody, with wrong metadata, replays and cancelled tasks |
| `OneTimeMaterial` | the abstract promise: material is unused, then spent or void, for ever; one step spends for one owner |
| `Rendezvous_proofs` | what each operator of `Rendezvous` does to a store, for the two proofs that use them |
| `CorrectionRendezvous_proofs` | proofs, including that the rendezvous implements `OneTimeMaterial`; a second part about `PreparedRows`, the client's end of the same material |
| `PreparedInference` | inventories, sessions and requests of `server.py`, composed with the rendezvous by calling the operators of `Rendezvous` in the order the handlers do |
| `PreparedInference_proofs` | proofs: a row is consumed once; reservations are disjoint, void at the end of a session, used only as reserved; no session is left behind; admission is enough |
| `InflightPrefix` | the owner of running prefills |
| `InflightPrefix_proofs` | proofs about it, its counters included; a second part about `PreparedAttempts` |
| `PreparedQueue` | seats, line and turn of the prepared executions |
| `PreparedAttempts` | `OwnedPreparedAttempt` and the response generator: composes `InflightPrefix`, which it extends, and `PreparedQueue`, by INSTANCE, with the actions of each joined to the step of the attempt that calls them |
| `CorrectionDelivery` | the abstract promise of a push: accepted at most once, acknowledged only if accepted |
| `CorrectionChannel` | the channel over connections that break; implements `CorrectionDelivery` |
| `PreparationService` | the authorization registry and its handlers, with the policy and the store of the inference service |
| `PreparationService_proofs` | proofs that a stage of a session is computed once, and that the services agree |
| `PreparationIssuance` | the client that prepares an inventory: composes `PreparationService` with the window of jobs and the cancels |
| `ClientActivity` | gates, lock, current and spare inventory, refill and close of the client |
| `ClientActivity_proofs` | proofs that preparation and online execution exclude each other, and that inventories are kept; a second and a third part about how an inventory comes to be, `PreparationIssuance` and `CorrectionChannel` |
| `PreparedRows` | leases and mask rows of one inventory; implements `OneTimeMaterial` |
| `PartyController` | leases, calls and shutdown of a party |
| `PartyController_proofs` | proofs that its capacity is not oversold and that it drains; a second part about `DecodeStore` |
| `DecodeStore` | the crash-safe store of decode states |
| `SumTheorems` | sums over finite sets: what changes of a function and of its domain do to them |
| `MC*` | instances for TLC: model values, symmetry |

### Rendezvous and CorrectionRendezvous

`r.sessions` and `r.entries` are functions whose domain is the dict's keys;
`r.bytes` is `_bytes`. `Cleanup` starts every operation that calls
`_cleanup_locked`. An entry object that a request got from `activate` is
identified by its `holder`: `self._entries.get(key) is entry` is
`entries[key].holder = p`. Times are ages that saturate at the timeout they are
compared with. The shape, stage, weight digest and widths that must agree between
correction and request are one value, `Meta`. `correction()` is two critical
sections with an `await` between them: `AwaitCorrection`, then one of
`TakeCorrection`, `TimeOut`, `AbortRequest`. The bytes of a bulk correction are
split over its rows by quotient and remainder as in the code. Session ids are fresh
(the server draws them with `new_id`), so each is registered at most once; the ghost
variable `registered` says which were, and `uses` counts hand-outs.

### PreparedInference

`inv[i]` and `ses[e]` are the `RuntimeSession`s of inventories and execution
sessions; `known` is membership of the dict, `st` the two flags, since a handler that
already holds the object goes on using it after cleanup removed it. Every action
starts from `CleanInv`, `CleanSes` and `CleanRdv`, which are
`cleanup_prepared_sessions`, with or without the reclaiming of terminal sessions, as
that handler calls it. Everything between two awaits is one step: authorize, complete
and execute each await a body (`BeginAuthorize`/`EndAuthorize`,
`BeginComplete`/`EndComplete`, `BeginRequest`/`Submit...`), a request awaits the engine
(`EngineAnswers`), and a multi-row request is a gather whose tasks end one by one
(`TakeRow`, `TimeOutRow`, `EngineAnswersMulti`, `GiveUp`, `GatherEnds`). A WebSocket
returns to the body state without another `get_session`. `CancelResponse` is the route that
cancels a response (2364): it cancels and burns a session as the route of the session does, but
without cleanup, without counting as activity, and without retiring an exhausted inventory.
Attempt ids are derived from
stage and row, as `derive_online_attempt_id` does, so that they differ. Sizes keep what
admission and preloading disagree about: admission sets `Overhead` aside per stage, the
frame has a `Header` of at most that.

Left out: credentials, model routing, envelope signatures, wire decoding, execution
sessions of the other kinds. Requests carry right metadata; `CorrectionRendezvous`
covers wrong metadata.

### InflightPrefix

A node is named by the request that was elected to produce it. Every method holds the
owner's condition, so it is one action; `wait` is `Wait` (enter), then `Wake` or
`TimeOut`. `Settle` is the common tail of release, cancel, finish and close: `_release`,
`_unindex` and `_retire`. A prompt stands for binding, resources and tokens; a snapshot is
present or erased. The published copy may fail validation (`Publish`), may be found
mutated (third case of `Wake`) and a branch copy may fail (second case).

### PreparedQueue and PreparedAttempts

`scopes` are the seats, `ready` the line, `active` the turn; a loop of `_enter` under the
condition is `TakeTurn` or `Leave` of a thread in `waiting`. An attempt's `pc` is
the place of its generator where it checks for cancellation, yields, or touches queue or
prefix; between two such places nothing shared is read. `event`, `swept` and `registered`
are its `PreparedCancellation`, `stop` is a close of its stream.
`Defers` is `_defer_cancel`, recomputed at every check. All scopes of the composition are
admitted with `retain_until_close`, as attempts do. The peak counter is left out.

### CorrectionChannel

`wire[c]` is a connection with what travels on it each way; `task[c]` its receive loop. The
locks `connecting` and `sending` are held over awaits, so each is a variable. `Discard` is
the whole of `_discard`: it takes whatever receiver is current, also one of a newer
connection. The end of the inference service (`Accept`, `Hangup`) is environment, and so is
the network. A connection that `close()` during connect does not see, or that a stale
`_discard` leaves without its loop, stays open; nothing waits for it.

### PreparationService and PreparationIssuance

`registry` is the service's table and `policy` what the inference service allows; a call is
`flying` until it is handled, and its answer may be lost (`granted` and never read) or late.
`Consume` marks attempt and stage before anything is computed, and a failure does not undo
it. `PreparationIssuance` drives it with one session: `pc` is the thread of
`_prepare_inventory`, `job` the futures of `run_preparation_window`, `posted` the stage
requests that left, `sent` and `handled` the cancels and the seal. A job may finish at any
time between abort and join. A window of width 1 prepares a stage when it is submitted, so there
a job is collected at once; a stage that does not fit a window of more fails before it is
submitted, and that failure, like any other between creating and authorizing, is an
`AuthorizationRaises`.

### ClientActivity and PreparedRows

`resp[r]` is where a response is between the gates; the state lock is a variable because a
response holds it while it posts to the provider. `Schedule` and `Submit` are two steps as in
`_schedule_idle_refill_locked`, which looks at `_closing` before it submits outside the
lock: a `close()` in between makes `submit` raise, modelled as no submission. Background
refill is assumed on. `Choose` is the choice of an inventory by a response and by
`preprocess()`; the latter gives the current one up also when a stage of it has fewer rows than
the call demands (`short`; which stages do is data). `EpochEnds` is the end of a response that
reserves by epochs, or whose epoch did not open: it cancels the current inventory
(`client.py` 2858, 5405). The second of these places does not look at leases; that nobody has
any is due to the turn of the prepared queue, which such a response holds until then, and is a
guard of the action. Preparing again in the foreground of a decode epoch is always refused and
left out.

`PreparedRows` takes one inventory: a claim is counted under one lock and its masks taken under
another, so `cancel()` may come between, and between the two the code does what may raise. If
verification refuses the claim, or the native stage refuses to prepare it, the rows are counted
and never asked for (`ClaimFails`): the stream keeps them, `close()` burns only what lies above
the offset, and nobody can claim below it again. If they do not fit, or anything
fails while the native stage prepares, the stream of the stage is cancelled for every lease
(`StreamFails`), while the inventory is not. The history variable `lost` says which rows went
either way; the audit is stated with them. Masks are expanded lazily, as
with the native extension. `Demand` makes it an inventory issued for one response, with
stages of different lengths; the run has the ordinary kind, the other was checked once.

### PartyController

The lock is a variable that says who has it, since reservations load adapters and purges
burn leases under it over awaits; `todo` are the leases a purge still has to look at.
`Leaves` takes no lock: it relies on the purge before it. Credentials, offers and plans are
data. A lease has a flag for each kind of opening, `"session"` and, of prepared roles,
`"inventory"`. A burn may fail after the calls have ended (`BurnFails`): the row stays held and
revoked, and its capacity with it. `WorkerOpensOnce` is part of `CapacityIsReal`; that a prepared
lease opens each kind once is what the code says of itself, and is not so: see the findings in
section 3.

### DecodeStore

`disk` maps file ids to content, `synced` are those whose names survive a crash: files are
synced when written, names by the sync of the directory in `commit`. `Discard` also stands
for a commit that a limit refuses. The directory itself is assumed to survive. Nothing is
ever deleted; failed attempts count against the limits, which the bounds let happen. A write that
fails leaves the pages before it and what was written of its own file (`"torn"`). The check of a
known path against other rows, which may leave pages behind in the same way, is left out: paths
stand for their rows.

## 3. Runs

| Run | Instance | Distinct states | What it shows |
|---|---|---|---|
| `rendezvous` | 2 sessions x 2 attempts, 1 request besides batches, 2 entries, 4 bytes, payload 3 | 24,745 | one use, byte accounting with an uneven split, authorized use; waiting requests end; implements `OneTimeMaterial` |
| `prepared_sessions` | 1 inventory of up to 2 rows, 2 sessions, 2 requests | 157,414 | one use, disjoint reservations, use by the reserving live session, burning at the end; running requests end |
| `prepared_admission` | 2 inventories of 2 stages, 1 session, 1 request, 3 entries, 6 bytes, idle timeout 2 | 254,950 | admission suffices, ready is backed, no correction session left behind |
| `inflight_prefix` | 3 requests, 2 nested prompts, at most 2 requests, 2 nodes, 16 bytes | 40,914 | sharing, erasure, exact counters; waits return, close drains |
| `prepared_attempts` | 2 attempts on one prompt, both may be cancelled and break | 171,546 | ownership, order of turns, a departed producer, every response ends |
| `correction_channel` | 2 pushes, one of which does not wait, 3 connections | 17,013 | implements `CorrectionDelivery`; pushes end |
| `preparation_service` | 2 authorize calls and 2 stage calls over 2 sessions, owners, stages and attempt ids, capacity 1 | 127,269 | a stage is computed once; the services agree |
| `preparation_issuance` | 3 stages, 2 at a time, the last fills the window | 41,226 | ends whole or with nothing live; ends |
| `client_activity` | 2 responses, 2 preparations, 3 inventories of 2 rows | 252,456 | no overlap, inventories kept, everybody ends |
| `party` | 3 leases that do not all fit, 2 calls | 3,687,213 | capacity is real, leave drains |
| `party_openings` | 2 leases, 2 calls | violation | `OneOpeningPerLease` is refuted |
| `client_stores` | rows: 2 leases, 3 rows, 2 stages; store: a root and 2 branches, 2 staged, 3 pages, 7 files, 8 writes | 254,960 | the audit adds up, rows implement `OneTimeMaterial`, leases do not collide; no name dangles over crashes, only what is published is seen |

`client_stores` runs `PreparedRows` and `DecodeStore`, which share no variable and no operation:
while one moves the other waits at its start.

**Finding.** `party_openings` checks what `party.py` says of itself: "one inventory and response
session per lease" is the refusal at line 503, and "One attempt owns its adapter, rendezvous,
credentials and inventory" the docstring at 483. `_prepared_call` looks at `opened` and
`inventory_opened` (502) before it awaits the body and sets them after it (522, 532), so two
openings of a prepared lease that are let in before either body has arrived both reach the
adapter. The counterexample is two such calls. The worker path sets its flag before the await
(435), and `WorkerOpensOnce` holds and is proved.

**Bounds and why they are enough.** Two of each thing that competes: two attempts so that
a batch can be half good, two sessions so that material could move between them, two
requests so that a row can be burned under one of them, two stages so that an inventory can
be half prepared, a waiting push beside one on an older connection, two responses and a
refill for the gates, two leases that fit beside each other and one that does not. Limits
are chosen so that they are hit: payload 3 over 2 rows leaves a remainder; 3 entries refuse
the second inventory in some orders and admit it in others; 16 bytes hold two short prefills
but not a short one and a long one; the last stage costs the whole
window; the files of the store run out. Timeouts of one tick can already expire in either
order; the two-tick idle timeout of `prepared_admission` lets the clocks of server and rendezvous diverge. Prompts
`<<1>>` and `<<1, 2>>` give exact and proper prefix joins. Nothing grows without bound: ages
saturate, ids are used once, `uses` is bounded by the property it serves; `MaxCancelled` and
`MaxBroken` (all attempts), `MaxRevision` and `MaxCreated` bound what would. Larger instances
were checked once with the same result: the rendezvous with an idle timeout of two ticks (64
thousand states), the prepared sessions without symmetry (315 thousand), two inventories of two
stages by two rows with a session (safety only, the first 22 steps, 2.5 million), three responses
with two preparations and four inventories (safety only, 164 thousand up to symmetry), an inventory
issued for one response with stages of 3 rows and 1 row, three pushes over two connections (226
thousand), three attempts (safety only), four prefix requests (safety only). Runs with liveness use no symmetry, with one
exception: `prepared_sessions` exchanges execution sessions, which neither its fairness nor
`RequestsSettle` tells apart (both are stated for each request).

**Fairness.** `CorrectionRendezvous` and `PreparedInference`: time passes (`WF(Tick)`) and
the event loop resumes a task whose future or timer is due (`WF` of what a request does
without its client); nobody is assumed to push, retry, cancel or clean up. The engine is
assumed to answer or to fail. `InflightPrefix`: producers call `finish_producer` and
callers release a cancelled branch, which the docstrings demand of them and
`OwnedPreparedAttempt` does in its `finally`; the condition wakes its waiters. Time-outs are
not assumed: a wait may have none. `PreparedAttempts`: threads run, and readers read on or
close their stream; `SF` of completing a response, which each token yielded interrupts.
`CorrectionChannel`: tasks run and timeouts fire; `SF` for the two locks, which asyncio hands
out in order. `PreparationIssuance`: threads run, calls are answered or time out, and `SF`
for `wait()` returning done futures. `ClientActivity`: threads run and the holder of the
lock gives it back when the provider answered; nobody is assumed to start a response or to
close.

**Deadlock** is checked in `rendezvous`, both `prepared_` runs of `PreparedInference` and
`inflight_prefix`, where time or new calls always go on. In the other runs ids are used up
or `close()` ends everything, so the system may stop; there the liveness properties say
that nobody is left in the middle.

**Mutants.** Each property has a mutated definition, next to the original in the module,
that a plausible slip in the code would give (a dropped burn, a cursor that stays, one
request too many, a silent producer); TLC finds the property violated with it. Where a
property is a conjunction of named parts (`Ownership`, `InventoriesKept`, `Accounted`, ...)
each part has its own comment; `TypeOK` is one of them in most.

Things the model made visible that no document contradicts, so they are hazards or remarks and
not findings: reading an inventory refreshes the server's clock but not the rendezvous', so an
inventory may report ready after its corrections expired (`ReadyIsBacked` assumes the
correction session open); a session that expires, or is cancelled through its response (`CancelResponse`), does
not retire its exhausted inventory, unlike one that is cancelled or completed by its own route, so
the inventory stays live until it expires itself or is cancelled; and a row whose claim was lost
counts as claimed although its mask was never given out.

## 4. Proofs

The theorems hold for every number of sessions, attempts, requests, stages, threads and
prompts and for all limits and sizes, from the named assumptions of the modules: limits are
positive (`LimitsArePositive`, `OwnerBounds`; the constructors reject others), the threads
and calls of a run are finitely many, null values are not members of the sets they complete,
prompts are non-empty sequences. Each invariant below was checked with TLC before it was
proved.

**SumTheorems.** Counters of bytes, rows and requests are sums over what is held. The
induction theorems of the library take an operator as a parameter, which the provers cannot
instantiate, so the induction is done on a set: the subsets for which the claim holds are a
set `Q`, and the smallest subset outside of `Q` is contradicted (`SubsetInduction`). The
lemmas say what adding, removing and changing elements does to a sum, that a sum can be
compared term by term, and that it can be taken part by part.

**Rendezvous_proofs.** One lemma per operator: it *evolves* the store, that is,
well-formedness and soundness are kept, no void key is revived, and an entry goes only by
becoming void. The lemmas are about `IsStoreOf(G, r)`, where `G` is any set of
authorizations, so that both specifications can use them. A second set of lemmas is about the
byte counter: it is `Exact` if it is the sum of the payloads that are stored, an operation
that only burns, expires or touches *frees* (an exact counter stays exact and does not
grow), and a bulk preload adds its payload, whose split over the rows by quotient and
remainder adds up to it.

**CorrectionRendezvous_proofs.** `TypeCorrect`, `HandedOutOnce` (`OneUse`),
`NoOrphanEntries` (`EntriesAreAuthorized`, not part of a run), `OnlyAuthorizedUse`
(`UseIsAuthorized`), `BytesAreExact` (`ByteAccounting`) and `Refinement`
(`ImplementsOneTimeMaterial`). `OneUse` is not inductive: nothing in it says
why a key that was used cannot be used again. The strengthening is
`TypeOK /\ EntriesAreAuthorized /\ SpentIsVoid`: a used key is *void*, burned or of a
session that is gone, and no entry of a void key exists. The argument is that each operator
of `Rendezvous` evolves the store, that each action is a composition of such operators, or
registers a fresh session, and that what it uses was an entry before and is void after. The
refinement maps a key to spent, void or unused by the same three notions. The byte counter
needs, beside its own sum, that an operation adds only below `MaxBytes`.

Its second part is about `PreparedRows`, whose state is apart from that of the rendezvous:
`RowsAccounted` (`Accounted`) and `RowsAreOneTime` (`OneTimeRows`) for every inventory that
satisfies `RowsAssumption`. The strengthening `RowsInv` says that the regions of the leases lie
apart below `reserved` (`LeasesApart`), and that in an open stream the unused rows are those
above `reserved`, those a lease may still claim, those of its running claim and those that were
lost, and no others, and that no lease can claim a lost one (`RowsFree`). Hence a claim finds its
rows unused as long as the stream of its stage is open, whatever other leases lost, and the
counters are sums over leases of what each still owes.

**PreparedInference_proofs.** `RowsConsumedOnce` (`OneUse`): each handler is shown to be of
one of three shapes: it evolves the rendezvous and consumes nothing, it evolves it and
consumes keys that were not void and are void now, or it registers the correction session
of an inventory that did not exist. The strengthening says that a consumed key is void and
that correction sessions belong to inventories that were created; since the server draws an
id once and keeps an inventory at least as ended, no correction session opens twice.

`RowsReservedOnce` (`DisjointReservations`), `TerminatedHoldNothing`
(`TerminalSessionHoldsNothing`) and `RowsUsedAsReserved` (`UseIsReserved`). The second is the
subtle one: `burn_reserved` burns only the rows that still have an entry, so a row that was
never loaded would be left out and could be loaded after the session ended. The strengthening
`SInv` excludes it: a session reserves only in a ready inventory, a stage marked prepared had
an entry for each of its rows, and an entry goes only by becoming void; so each reserved row
has its entry or is void, and all are void once the session is not live. Disjointness needs
that the reservations of a live inventory lie below its cursor and that no two rows of the
grid are one attempt. `UseIsReserved` follows: a gather only waits for rows reserved for its
session, and what it takes has an entry, so the session is live.

`ServiceTyped` (`TypeOK`), `NoSessionIsLeaked` (`NoLeakedSessions`), `AdmissionIsEnough`
(`AdmissionSuffices`) and `ReadyInventoriesAreBacked` (`ReadyIsBacked`). `AdmissionSuffices`
says that the rendezvous never refuses a stage of an admitted inventory for want of entries,
attempts or bytes. Admission is asked once and the stages are loaded later, between those of
other inventories, so the strengthening `AInv` is about all of them together: what is stored
and what is still owed to the live inventories fits in each of the three limits
(`Fits`, `SessionFits`), and the work of an admitted inventory that has no entry yet is still
owed (`Admitted`). Each
handler other than the admission and the preload makes what is stored and owed *recede*; a
preload moves a stage from owed to stored; an admission was checked against the sum. A ready
inventory is backed because all its stages are prepared, and a row above the cursor is of no
session, so nobody has burned or activated it.

**ClientActivity_proofs.** `PreparationExcludesOnline` (`NeverOverlap`): the strengthening
`GatesInv` says that each gate holds exactly the responses inside the section it guards, and
that rows are leased only in between. `InventoriesAreKept` (`InventoriesKept`) needs where
everything is: each live inventory is the current one, the spare, retired, or in the hands of
the refill, and in one of these places only (`Stocked`); responses and inventories with rows
in use name each other, and nobody has rows of what the refill holds (`Leased`); the gates say
what the refill, `preprocess()` and `close()` are doing (`Phases`); and
`active_prepared_responses` is a count of responses. The one lemma that carries the proof is
`ChooseKeeps`: whatever the choice of an inventory drops or promotes, it cancels only what the
provider has dropped or nobody has rows of.

The second part is about `PreparationIssuance`: `PreparationEndsClean` (`EndsClean`). A job
that has left the window was collected, discarded or never submitted, and which of them `pc`
allows is the strengthening; what the two services hold comes from the invariant of
`PreparationService_proofs`, of which the client's session is an instance. The third part is
`ChannelDelivers` (`DeliveryImplemented`): each step of `CorrectionChannel` is a step of
`CorrectionDelivery` or a stutter. Its invariant says that a correction is on at most one
wire, once, of the connection its push enrolled on, and is not accepted yet (`OnWires`), that
an acknowledgement on a wire is of an accepted correction, and that a future has a result only
then (`Pushes`); neither depends on which receive loop a `_discard` cancels.

**PreparationService_proofs.** `StagesComputedOnce` (`ConsumedOnce`). The registry forgets
what was consumed when it releases a registration, so the argument goes through the other
service: inference grants one authorization per session, so one registration of it is ever
activated, only an active one lets stage calls through, and while it is active it remembers
every attempt and stage consumed. `PreparedIsDelivered` (`ServicesAgree`): a call whose push
was granted is held at the inference service or its session is over there, whatever became of
the call at this service; a call is granted at most once, because it is pushed once.

**InflightPrefix_proofs.** `TypeCorrect`, `OnlyLivePrefillsJoined` (`JoinableIsAlive`),
`OnePrefillPerPrompt` (`RunningIsIndexed`), `OthersKeepTheirPrefill`
(`CancelOnlyAbandoned`), `SnapshotsAreSafe` (`SnapshotOutlivesRequests`),
`KeyOutlivesNodes` (`SecretOutlivesNodes`) and `CountersAreExact` (`ReservationsAreExact`).
The first and the sixth are proved only, not part of the run. The invariant joins them: the
index is exactly
the set of running nodes, prompts in it are distinct, an unknown node is blank, a published
node has its result, a request that was never admitted has no node and does not wait. It is
stated for arbitrary tables, because release, cancel, finish, time-out and close all end in
`Settle` applied to tables that break it at one node; `SettleRestores` says what `Settle`
needs and what it restores, and each action has a lemma that provides the former. For the
counters each of these actions is shown to give back what a set of requests and a set of
nodes had reserved, both disjoint from what stays (`GivenBack`): the prompt of a known node
never changes, so what is given back is what was taken.

The second part is about `PreparedAttempts`: `OwnersGiveBack` (`Ownership`), `TurnsGoInOrder`
(`TurnsInOrder`) and `DepartedFinishOnly` (`DepartedFinishes`). None of the three is inductive;
the invariant `OInv` they share adds to that of the owner (`IInv`) and to the line of the queue
(`Lined`) what each place of an attempt's generator says about what it owns:

* a seat, a place in the line and the turn are held in exactly the places between taking and
  giving them back (`Seated`), so nobody is at the turn whose unwinding would not release it;
* a cancel that swept an attempt was signalled, and one registered then is cancelled (`Told`);
* a claim is held from the lookup until the attempt released it, and once its caller is
  cancelled it was handed a lease, so the release still finds it (`Claims`);
* a prefill runs only while its producer is between lookup and publication or failure, and a
  producer that unwinds without having published broke, is stopped by the client, or was told
  to stop because nobody else waits (`Runs`): this is what `DepartedFinishes` needs;
* what was published, and by whom, at each place (`Prefills`).

An action changes one attempt, but a step of the owner for it may settle the nodes of all.
`Steady` says what that may do to a node of somebody else: it is not started again, stays told
to stop, and gets no outcome. So each action needs its own attempt (`Fits`) and one lemma
about the others. The lemmas about the line (`RemoveOne`, `RemoveKeeps`, `LineWithout`) say
that removing an element that is there once keeps the rest in order. The queue and the owner
are the modules that the composition uses, not copies of them.

**PartyController_proofs.** `CapacityIsNeverOversold` (`CapacityIsReal`) and
`LeavingIsComplete` (`LeaveDrains`). A load takes several steps, between which its lease is
not yet in the table; the invariant says that loads happen one at a time, under the lock
(`Serial`), so that the room that was looked at is still there (`Capacity`), that a call that
reads or runs was admitted to an armed lease that is still held, and cancelled if the lease
was revoked, so a lease that goes has no call left (`Calls`), that the one opening of a
worker's lease is reading its document or was made (`Openings`), and that a party that left
holds and loads nothing (`Gone`).

The second part is about `DecodeStore`: `StoreNeverDangles` (`NothingDangles`) and
`StoreShowsOnlyPublished` (`OnlyPublished`). Files are never overwritten and names never
reused, so what a synced index names stays as it was (`HeadsSound`); what is staged fits beside
what is published and its files are on disk (`StagedSound`); and a commit between its index and
its publication holds exactly what it will publish (`Committing`).

**Only model-checked.** Liveness (`WaitersSettle`, `RequestsSettle`, `NobodyIsStuck`,
`AttemptsEnd`, `PushesEnd`, `IssuanceEnds`, `EverybodyEnds`) needs
fairness and ENABLED, out of the prover's reach. Every other property of the passing runs is
stated by a theorem; `OneOpeningPerLease` is refuted by its run.

## 5. Not modelled

* *Numeric and sequential.* The engines, kernels, codecs, compilers and the cryptography of
  the research protocols: TLC cannot enumerate them and they have no state of the kind above.
  They are most of the implementation by lines, with the benchmarks and the snapshots of
  sources kept as evidence under `docs/`.
* *Presentation and supervision.* Gateway, sidecar, topology, dashboard, CLI and benchmarks.
  Wire formats, credentials and logging are data.
* *Stateful, and not part of this project.* Stage batching, the correlation ledger, the
  replay window, conversation turns, delivery of a response against the cancellation of its
  caller, the shared peer session, the prefill cache, execution leases over parties, the
  planned client, and the admission of replicated and delegated workers. The project
  follows the prepared path, from the mask rows of the client to the corrections of the
  inference service, with the party and the decode store beside it; these parts are above
  it or beside it. `PROJECT.json` lists each with its reason.
* *In modelled components.* Hazards that no property covers have a note in `PROJECT.json`.

## 6. Plan

The safety properties of the runs are proved. Next is a module of execution leases, the client
side of the leases of a party, composed with `PartyController`.
