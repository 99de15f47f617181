----------------------------- MODULE Rendezvous -----------------------------
(***************************************************************************)
(* The state of runtime/correction_rendezvous.py and the effect of each of *)
(* its lock-protected critical sections, as operators on one record r:     *)
(*                                                                         *)
(*   r.sessions   _sessions: a dict, so a function on the live session ids *)
(*   r.entries    _entries:  a dict keyed by <<session, attempt>>          *)
(*   r.bytes      _bytes:    the running byte counter                      *)
(*                                                                         *)
(* Timestamps are kept as ages that saturate at the timeout they are       *)
(* compared with: `created <= now - timeout` is age = Timeout.  The        *)
(* counters that only feed stats() (attempts, failures, ...) are left out. *)
(*                                                                         *)
(* The operators have no variables, so the rendezvous on its own           *)
(* (CorrectionRendezvous) and the inference server, whose handlers make    *)
(* several of these calls in one step (PreparedInference), share them.     *)
(***************************************************************************)
EXTENDS Integers, FiniteSets, FiniteSetsExt, Functions

CONSTANTS
  Sid,             \* correction session ids (inventory ids of the server)
  NAttempts,       \* attempt ids of a session are 1..NAttempts
  Model,           \* model, body fingerprint and bit widths of a session
  Shape,           \* stage, weight digest, dimensions: the rest of a tuple
  Holder,          \* who may hold an entry object returned by activate
  NoHolder,        \* an entry that was not activated
  NoMeta,          \* an entry without correction
  Capacity,        \* capacity
  MaxBytes,        \* max_bytes
  SessionCapacity, \* session_capacity
  Timeout,         \* timeout, in ticks
  IdleTimeout      \* session_idle_timeout, in ticks

\* CorrectionRendezvous.__init__ rejects limits that are not positive.
ASSUME LimitsArePositive ==
  /\ NAttempts \in Nat \ {0}
  /\ Capacity \in Nat \ {0}
  /\ MaxBytes \in Nat \ {0}
  /\ SessionCapacity \in Nat \ {0}
  /\ Timeout \in Nat \ {0}
  /\ IdleTimeout \in Nat \ {0}

Attempt == 1..NAttempts
Key == Sid \X Attempt

\* CorrectionPush.metadata() and _request_metadata(): what has to agree before
\* a correction is handed to a request, without the ids that form the key.
Meta == [model : Model, shape : Shape]

ASSUME NullsAreDistinct == NoMeta \notin Meta /\ NoHolder \notin Holder

\* SessionAuthorization, as far as the rendezvous looks at it.
Authorization == [model : Model, max_attempts : 1..NAttempts]

Session == [expected : Authorization, burned : SUBSET Attempt,
            idle : 0..IdleTimeout, authorized : BOOLEAN]

\* `holder' is the request that owns the entry object: `entries.get(key) is
\* entry' is entries[key].holder = request, and activated is holder # NoHolder.
Entry == [age : 0..Timeout, holder : Holder \cup {NoHolder},
          correction : Meta \cup {NoMeta}, bytes : Nat, preloaded : BOOLEAN,
          activation : Meta \cup {NoMeta}]

Store(sessions, entries, bytes) ==
  [sessions |-> sessions, entries |-> entries, bytes |-> bytes]

Empty == Store([s \in {} |-> {}], [k \in {} |-> {}], 0)

-----------------------------------------------------------------------------
EntryBytes(r, K) == MapThenSumSet(LAMBDA k : r.entries[k].bytes, K \cap DOMAIN r.entries)

\* Dropping entries: every pop goes with _cancel_entry_locked.
Drop(r, K) ==
  Store(r.sessions, Restrict(r.entries, DOMAIN r.entries \ K), r.bytes - EntryBytes(r, K))

\* Mutant of Burn: the attempt is dropped but not remembered as burned.
BurnForgets(r, K) == Drop(r, K)

\* _burn_locked, for a set of keys.
Burn(r, K) ==
  LET burn(s) == [r.sessions[s] EXCEPT !.burned = @ \cup {a \in Attempt : <<s, a>> \in K}]
      q == Drop(r, K)
  IN  Store([s \in DOMAIN r.sessions |-> burn(s)], q.entries, q.bytes)

\* _terminal_locked, for a set of sessions.
Terminal(r, S) ==
  LET q == Drop(r, {k \in DOMAIN r.entries : k[1] \in S})
  IN  Store(Restrict(r.sessions, DOMAIN r.sessions \ S), q.entries, q.bytes)

\* _cleanup_locked: activated attempts time out, preloaded ones only with
\* their session.
Cleanup(r) ==
  Terminal(Burn(r, {k \in DOMAIN r.entries :
                      ~r.entries[k].preloaded /\ r.entries[k].age = Timeout}),
           {s \in DOMAIN r.sessions : r.sessions[s].idle = IdleTimeout})

UpdateSession(r, s, session) == Store([r.sessions EXCEPT ![s] = session], r.entries, r.bytes)

UpdateEntry(r, k, entry) == Store(r.sessions, [r.entries EXCEPT ![k] = entry], r.bytes)

Touch(r, s) == UpdateSession(r, s, [r.sessions[s] EXCEPT !.idle = 0])

\* The clock moves on: ages that nobody reads any more stay where they are.
Aged(r) ==
  LET idle(s) == r.sessions[s].idle
      age(k) == r.entries[k].age
      later(n, limit) == IF n < limit THEN n + 1 ELSE n
  IN  Store([s \in DOMAIN r.sessions |->
               [r.sessions[s] EXCEPT !.idle = later(idle(s), IdleTimeout)]],
            [k \in DOMAIN r.entries |->
               [r.entries[k] EXCEPT !.age =
                  IF r.entries[k].preloaded THEN @ ELSE later(age(k), Timeout)]],
            r.bytes)

-----------------------------------------------------------------------------
IsOpen(r, s) == s \in DOMAIN r.sessions /\ r.sessions[s].authorized

ActiveOf(r, s) == {k \in DOMAIN r.entries : k[1] = s}

\* The budget shared by _entry_locked and preload_bulk: room for n new entries.
HasRoom(r, s, n) ==
  /\ Cardinality(DOMAIN r.entries) + n <= Capacity
  /\ Cardinality(r.sessions[s].burned) + Cardinality(ActiveOf(r, s)) + n
       <= r.sessions[s].expected.max_attempts

CanRegister(r, s) ==
  s \notin DOMAIN r.sessions /\ Cardinality(DOMAIN r.sessions) < SessionCapacity

Register(r, s, auth) ==
  LET new == [expected |-> auth, burned |-> {}, idle |-> 0, authorized |-> FALSE]
  IN  Store([t \in DOMAIN r.sessions \cup {s} |-> IF t = s THEN new ELSE r.sessions[t]],
            r.entries, r.bytes)

CanAuthorize(r, s, auth) ==
  s \in DOMAIN r.sessions /\ r.sessions[s].expected = auth /\ ~r.sessions[s].authorized

Authorize(r, s) ==
  UpdateSession(r, s, [r.sessions[s] EXCEPT !.authorized = TRUE, !.idle = 0])

AddEntries(r, K, entry(_), bytes) ==
  Store(r.sessions,
        [k \in DOMAIN r.entries \cup K |-> IF k \in K THEN entry(k) ELSE r.entries[k]],
        r.bytes + bytes)

NewEntry(meta, bytes, preloaded) ==
  [age |-> 0, holder |-> NoHolder, correction |-> meta, bytes |-> bytes,
   preloaded |-> preloaded, activation |-> NoMeta]

\* Mutant of RowBytes: the remainder of the division is lost.
RowBytesEven(A, a, payload) == payload \div Cardinality(A)

\* divmod(payload_bytes, rows): the first `remainder' rows take one byte more.
RowBytes(A, a, payload) ==
  LET n == Cardinality(A)
      index == Cardinality({b \in A : b < a})
  IN  payload \div n + (IF index < payload % n THEN 1 ELSE 0)

\* preload_bulk: every check comes before the first mutation.
CanPreload(r, s, A, meta, payload) ==
  /\ IsOpen(r, s)
  /\ meta.model = r.sessions[s].expected.model
  /\ A \cap r.sessions[s].burned = {}
  /\ ({s} \X A) \cap DOMAIN r.entries = {}
  /\ HasRoom(r, s, Cardinality(A))
  /\ r.bytes + payload <= MaxBytes

Preload(r, s, A, meta, payload) ==
  LET loaded(k) == NewEntry(meta, RowBytes(A, k[2], payload), TRUE)
  IN  Touch(AddEntries(r, {s} \X A, loaded, payload), s)

\* Mutant of CanHaveEntry: the burned set is not consulted.
CanHaveEntryAgain(r, k) == k \in DOMAIN r.entries \/ HasRoom(r, k[1], 1)

\* _entry_locked, after its cleanup: the key has an entry or may get one.
CanHaveEntry(r, k) ==
  /\ k[2] \notin r.sessions[k[1]].burned
  /\ k \in DOMAIN r.entries \/ HasRoom(r, k[1], 1)

WithEntry(r, k) ==
  LET fresh(j) == NewEntry(NoMeta, 0, FALSE)
  IN  Touch(AddEntries(r, {k} \ DOMAIN r.entries, fresh, 0), k[1])

\* activate, on an existing entry: what does not burn it.
CanActivate(r, k, meta) ==
  /\ meta.model = r.sessions[k[1]].expected.model
  /\ r.entries[k].holder = NoHolder
  /\ r.entries[k].correction \in {NoMeta, meta}

Activated(r, k, meta, holder) ==
  LET e == r.entries[k]
  IN  UpdateEntry(r, k, [age |-> IF e.preloaded THEN 0 ELSE e.age, holder |-> holder,
                         correction |-> e.correction, bytes |-> e.bytes,
                         preloaded |-> FALSE, activation |-> meta])

\* push, on an existing entry: what does not burn it.
CanPush(r, k, meta, payload) ==
  /\ r.entries[k].holder # NoHolder => r.entries[k].activation = meta
  /\ r.entries[k].correction = NoMeta
  /\ r.bytes + payload <= MaxBytes

Pushed(r, k, meta, payload) ==
  LET q == UpdateEntry(r, k, [r.entries[k] EXCEPT !.correction = meta, !.bytes = payload])
  IN  Store(q.sessions, q.entries, q.bytes + payload)

\* `self._entries.get(key) is entry' for the entry object `holder' was given.
Holds(r, k, holder) == k \in DOMAIN r.entries /\ r.entries[k].holder = holder

\* abort: burn, unless the key was burned or replaced meanwhile.
Abort(r, k, holder) == IF Holds(r, k, holder) THEN Burn(r, {k}) ELSE r

\* consume_preloaded_batch: the per-session checks, which burn nothing ...
BatchIsOpen(r, s, meta) == IsOpen(r, s) /\ meta.model = r.sessions[s].expected.model

\* ... and the per-row checks, of which one failure burns every row.
BatchIsReady(r, s, A, meta) ==
  \A a \in A :
    /\ a \notin r.sessions[s].burned
    /\ <<s, a>> \in DOMAIN r.entries
    /\ r.entries[<<s, a>>].correction = meta
    /\ r.entries[<<s, a>>].holder = NoHolder

\* Mutant of ConsumeBatch: the rows stay.
ConsumeBatchKeeps(r, s, A) == Touch(r, s)

ConsumeBatch(r, s, A) == Touch(Burn(r, {s} \X A), s)

\* burn_reserved: only rows that still have an entry are burned.
BurnReserved(r, s, A) == Burn(r, ({s} \X A) \cap DOMAIN r.entries)

-----------------------------------------------------------------------------
(* Predicates on stores that the specifications using them build on.       *)

\* r is a store: dictionaries of sessions and of entries, and a counter.
IsStore(r) ==
  /\ r = Store(r.sessions, r.entries, r.bytes)
  /\ DOMAIN r.sessions \subseteq Sid
  /\ r.sessions \in [DOMAIN r.sessions -> Session]
  /\ DOMAIN r.entries \subseteq Key
  /\ r.entries \in [DOMAIN r.entries -> Entry]

\* Every entry belongs to an open session, in which its attempt is not burned.
IsSound(r) ==
  \A k \in DOMAIN r.entries :
    IsOpen(r, k[1]) /\ k[2] \notin r.sessions[k[1]].burned

\* The key can have no entry any more: it is burned, or its session is gone.
IsVoid(r, k) == k[1] \in DOMAIN r.sessions => k[2] \in r.sessions[k[1]].burned
=============================================================================
