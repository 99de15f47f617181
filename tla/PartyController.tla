--------------------------- MODULE PartyController ---------------------------
(***************************************************************************)
(* PartyController and its application (runtime/party.py): leases of role  *)
(* capacity that are reserved, armed, used by calls and burned, a janitor  *)
(* that purges what expired, and the drain, leave and close of the party.  *)
(* One event loop: an action is what happens between two awaits.  The      *)
(* controller's lock is held over awaits; role calls do not take it.       *)
(*                                                                         *)
(* A lease stands for one (attempt, role); validation of the documents and *)
(* credentials is the guard that a request reaches the controller at all.  *)
(***************************************************************************)
EXTENDS Naturals, FiniteSets, FiniteSetsExt

CONSTANTS
  Lease,
  Worker,        \* the leases of worker roles; the others are prepared roles
  Memory,        \* what each lease needs
  MaxMemory,     \* max_memory_bytes; weights are bounded in the same way
  MaxSessions,   \* max_sessions
  MaxAttempts,   \* 8192 attempts of an epoch
  Call,          \* calls of the roles
  None

ASSUME PartyAssumption ==
  /\ Worker \subseteq Lease /\ Memory \in [Lease -> Nat]
  /\ MaxMemory \in Nat /\ MaxSessions \in Nat /\ MaxAttempts \in Nat
  /\ None \notin Lease

VARIABLES
  lock,        \* _lock: Free, or what its holder does
  accepting, left, closed,
  used,        \* _used_attempts
  loading,     \* the lease whose adapter is being loaded
  held,        \* _reservations
  armed, revoked,           \* the leases with that flag
  opened,      \* the pairs of a lease and what its flag says was opened: row.opened, row.inventory_opened
  expired,     \* the leases whose time has come
  openings,    \* what was opened at the adapter of each lease
  call         \* the calls: where they are, of which lease, and what they open

vars == <<lock, accepting, left, closed, used, loading, held, armed, revoked, opened, expired,
          openings, call>>

\* What an opening call opens; only a prepared lease has an inventory.
Kind == {"session", "inventory"}

Free == [op |-> "free", verb |-> "none", todo |-> {}, burning |-> None]

Init ==
  /\ lock = Free /\ accepting = TRUE /\ left = FALSE /\ closed = FALSE
  /\ used = {} /\ loading = {} /\ held = {}
  /\ armed = {} /\ revoked = {} /\ opened = {} /\ expired = {}
  /\ openings = [o \in Lease \X Kind |-> 0]
  /\ call = [c \in Call |-> [st |-> "none", lease |-> None, kind |-> "none"]]

CallsOf(l) == {c \in Call : call[c].lease = l}
Live(c) == call[c].st \in {"reading", "running", "cancelled"}

-----------------------------------------------------------------------------
(* reserve and arm.                                                        *)

MemoryOf(leases) == MapThenSumSet(LAMBDA l : Memory[l], leases)

Fits(l) == Cardinality(held) < MaxSessions /\ MemoryOf(held) + Memory[l] <= MaxMemory

Reserve(l) ==
  /\ lock = Free /\ ~closed /\ accepting /\ ~left
  /\ l \notin used /\ Cardinality(used) < MaxAttempts /\ Fits(l)
  /\ used' = used \cup {l} /\ loading' = loading \cup {l}
  /\ lock' = [Free EXCEPT !.op = "reserve"]
  /\ UNCHANGED <<accepting, left, closed, held, armed, revoked, opened, expired, openings, call>>

\* load_role_adapter and the adapter's lifespan succeeded, or raised.
Loaded(l) ==
  /\ l \in loading /\ loading' = loading \ {l}
  /\ held' \in {held, held \cup {l}}
  /\ lock' = IF lock.op = "reserve" THEN Free ELSE lock
  /\ UNCHANGED <<accepting, left, closed, used, armed, revoked, opened, expired, openings, call>>

Arm(l) ==
  /\ lock = Free /\ l \in held \ (revoked \cup expired) /\ ~left
  /\ armed' = armed \cup {l}
  /\ UNCHANGED <<lock, accepting, left, closed, used, loading, held, revoked, opened, expired, openings, call>>

-----------------------------------------------------------------------------
(* Burning: release, purge and close.                                      *)

\* _burn up to its first await: calls are cancelled after the lease is revoked.
Burn(l, holder) ==
  /\ revoked' = revoked \cup {l}
  /\ call' = [c \in Call |->
       IF c \in CallsOf(l) /\ Live(c) THEN [call[c] EXCEPT !.st = "cancelled"] ELSE call[c]]
  /\ lock' = [holder EXCEPT !.burning = l]
  /\ UNCHANGED <<used, loading, held, armed, opened, expired, openings>>

Release(l) ==
  /\ lock = Free /\ l \in held
  /\ Burn(l, [Free EXCEPT !.op = "release"])
  /\ UNCHANGED <<accepting, left, closed>>

\* Mutant of Drained: the adapter is closed without waiting for the calls.
DrainedAtOnce(l) == TRUE

\* gather: the cancelled calls have ended
Drained(l) == \A c \in CallsOf(l) : ~Live(c)

\* The adapter's sessions are cancelled, its lifespan ends and the row goes.
Burned(l) ==
  /\ lock.burning = l /\ Drained(l)
  /\ held' = held \ {l}
  /\ lock' = IF lock.op = "release" THEN Free ELSE [lock EXCEPT !.burning = None]
  /\ UNCHANGED <<accepting, left, closed, used, loading, armed, revoked, opened, expired, openings, call>>

\* A post to the adapter or the end of its lifespan raises: whoever burned gives
\* up, and the row stays in the table, revoked.
BurnFails(l) ==
  /\ lock.burning = l /\ Drained(l)
  /\ lock' = Free
  /\ UNCHANGED <<accepting, left, closed, used, loading, held, armed, revoked, opened, expired, openings, call>>

\* purge, by the janitor or before a command: drain and leave go on in the step
\* in which it ends, the other commands have to take the lock again.
Purge(verb) ==
  /\ lock = Free /\ ~closed
  /\ lock' = [op |-> "purge", verb |-> verb, todo |-> held, burning |-> None]
  /\ UNCHANGED <<accepting, left, closed, used, loading, held, armed, revoked, opened, expired, openings, call>>

Visit(l) ==
  LET done == [lock EXCEPT !.todo = @ \ {l}] IN
  /\ l \in lock.todo /\ lock.burning = None
  /\ IF lock.op = "close" \/ l \in expired
     THEN Burn(l, done)
     ELSE lock' = done /\ UNCHANGED <<used, loading, held, armed, revoked, opened, expired, openings, call>>
  /\ UNCHANGED <<accepting, left, closed>>

\* Mutant of Leaves: leave looks at the armed leases only.
LeavesArmed == lock.verb = "leave" /\ held \cap armed = {}

\* "Leave completes only after admitted work drains"
Leaves == lock.verb = "leave" /\ held = {}

Purged ==
  /\ lock.op = "purge" /\ lock.todo = {} /\ lock.burning = None
  /\ lock' = Free
  /\ accepting' = (accepting /\ lock.verb \notin {"drain", "leave"})
  /\ left' = (left \/ Leaves)
  /\ UNCHANGED <<closed, used, loading, held, armed, revoked, opened, expired, openings, call>>

Close ==
  /\ lock = Free /\ ~closed
  /\ accepting' = FALSE
  /\ lock' = [op |-> "close", verb |-> "none", todo |-> held, burning |-> None]
  /\ UNCHANGED <<left, closed, used, loading, held, armed, revoked, opened, expired, openings, call>>

Closed ==
  /\ lock.op = "close" /\ lock.todo = {} /\ lock.burning = None
  /\ lock' = Free /\ closed' = TRUE
  /\ UNCHANGED <<accepting, left, used, loading, held, armed, revoked, opened, expired, openings, call>>

-----------------------------------------------------------------------------
(* Calls of a role, with the lease's credential.                           *)

Admitted(l) == l \in (held \cap armed) \ (revoked \cup expired)

Opens(c) == <<call[c].lease, call[c].kind>>

\* A call comes in.  An opening is refused when its flag is set, and reads its
\* document otherwise; a worker's sets its flag now.  What the role does not
\* admit (403) never gets in.
Enter(c, l, kind) ==
  LET opening == kind \in Kind IN
  /\ call[c].st = "none" /\ Admitted(l) /\ (l \in Worker => kind # "inventory")
  /\ call' = [call EXCEPT ![c] =
       [st |-> IF ~opening THEN "running" ELSE IF <<l, kind>> \in opened THEN "refused" ELSE "reading",
        lease |-> l, kind |-> kind]]
  /\ opened' = IF opening /\ l \in Worker THEN opened \cup {<<l, kind>>} ELSE opened
  /\ UNCHANGED <<lock, accepting, left, closed, used, loading, held, armed, revoked, expired, openings>>

\* The document is complete, and within the lease: a prepared lease's flag is
\* set, and the adapter is called.
Open(c) ==
  /\ call[c].st = "reading"
  /\ call' = [call EXCEPT ![c].st = "running"]
  /\ opened' = opened \cup {Opens(c)}
  /\ openings' = [openings EXCEPT ![Opens(c)] = @ + 1]
  /\ UNCHANGED <<lock, accepting, left, closed, used, loading, held, armed, revoked, expired>>

OpenRefused(c) ==
  /\ call[c].st = "reading"
  /\ call' = [call EXCEPT ![c].st = "refused"]
  /\ UNCHANGED <<lock, accepting, left, closed, used, loading, held, armed, revoked, opened, expired, openings>>

\* forward: nothing is answered for a lease that expired meanwhile
Forward(c) ==
  /\ call[c].st = "running"
  /\ call' = [call EXCEPT ![c].st =
       IF call[c].lease \in revoked \cup expired THEN "refused" ELSE "answered"]
  /\ UNCHANGED <<lock, accepting, left, closed, used, loading, held, armed, revoked, opened, expired, openings>>

\* a cancelled call unwinds and leaves row.calls
Unwind(c) ==
  /\ call[c].st = "cancelled"
  /\ call' = [call EXCEPT ![c].st = "ended"]
  /\ UNCHANGED <<lock, accepting, left, closed, used, loading, held, armed, revoked, opened, expired, openings>>

Expire(l) ==
  /\ l \in held \cup loading /\ expired' = expired \cup {l}
  /\ UNCHANGED <<lock, accepting, left, closed, used, loading, held, armed, revoked, opened, openings, call>>

-----------------------------------------------------------------------------
Controller ==
  \/ \E l \in Lease : Loaded(l) \/ Burned(l) \/ BurnFails(l) \/ Visit(l)
  \/ Purged \/ Closed
  \/ \E c \in Call : Unwind(c)

Next ==
  \/ Controller
  \/ \E l \in Lease : Reserve(l) \/ Arm(l) \/ Release(l) \/ Expire(l)
  \/ \E verb \in {"none", "drain", "leave"} : Purge(verb)
  \/ Close
  \/ \E c \in Call : Open(c) \/ OpenRefused(c) \/ Forward(c)
  \/ \E c \in Call, l \in Lease, kind \in Kind \cup {"none"} : Enter(c, l, kind)

Spec == Init /\ [][Next]_vars
-----------------------------------------------------------------------------
(* Properties.                                                             *)

TypeOK ==
  /\ lock \in [op : {"free", "reserve", "release", "purge", "close"}, verb : {"none", "drain", "leave"},
               todo : SUBSET Lease, burning : Lease \cup {None}]
  /\ accepting \in BOOLEAN /\ left \in BOOLEAN /\ closed \in BOOLEAN
  /\ loading \cup held \subseteq used /\ used \subseteq Lease
  /\ armed \subseteq used /\ revoked \subseteq used /\ expired \subseteq used
  /\ opened \subseteq armed \X Kind
  /\ openings \in [Lease \X Kind -> Nat]
  /\ call \in [Call -> [st : {"none", "reading", "running", "cancelled", "refused", "answered", "ended"},
                        lease : Lease \cup {None}, kind : Kind \cup {"none"}]]

\* The party never promises more than it has, counting the lease whose adapter
\* is still being loaded.
WithinCapacity ==
  /\ Cardinality(held \cup loading) <= MaxSessions
  /\ MemoryOf(held \cup loading) <= MaxMemory

\* A lease is gone only when none of its calls is in its adapter any more, and
\* no call gets in once burning began.
NoCallOutlivesLease ==
  \A c \in Call : Live(c) =>
    /\ call[c].lease \in held
    /\ call[c].lease \in revoked => call[c].st = "cancelled"

\* A worker's lease opens one session: its flag is set before the document is read.
WorkerOpensOnce == \A l \in Worker : openings[<<l, "session">>] <= 1

\* "One inventory and response session per lease", whoever asks for them and
\* however their documents arrive (_prepared_call, role_call).
OneOpeningPerLease == \A o \in Lease \X Kind : openings[o] <= 1

\* Capacity is real: never promised twice, free again only when the calls that
\* used it have unwound, and not used by two sessions of a worker (_burn, reserve).
CapacityIsReal == TypeOK /\ WithinCapacity /\ NoCallOutlivesLease /\ WorkerOpensOnce

\* A party that has left holds no lease, loads none and serves none, whatever
\* was on its way to the lock when it left.
LeaveDrains == left => held = {} /\ loading = {} /\ \A c \in Call : ~Live(c)
=============================================================================
