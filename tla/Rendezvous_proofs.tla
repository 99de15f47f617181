-------------------------- MODULE Rendezvous_proofs --------------------------
(***************************************************************************)
(* What the operators of Rendezvous do to a store, for every number of     *)
(* sessions and attempts and for all limits: each critical section evolves *)
(* the store, so a key that is burned or whose session ended never gets an *)
(* entry again.  The proofs about the rendezvous alone and about the       *)
(* inference service rest on these lemmas.                                 *)
(***************************************************************************)
EXTENDS Rendezvous, SumTheorems

\* IsStore, with any set G of authorizations in place of Authorization: that the
\* authorization of an inventory is in it takes a sum over its stages.
SessionIn(G) == [expected : G, burned : SUBSET Attempt,
                 idle : 0..IdleTimeout, authorized : BOOLEAN]

IsStoreOf(G, r) ==
  /\ r = Store(r.sessions, r.entries, r.bytes)
  /\ DOMAIN r.sessions \subseteq Sid
  /\ r.sessions \in [DOMAIN r.sessions -> SessionIn(G)]
  /\ DOMAIN r.entries \subseteq Key
  /\ r.entries \in [DOMAIN r.entries -> Entry]

\* The two agree.
LEMMA StoresAgree == \A r : IsStore(r) <=> IsStoreOf(Authorization, r)
BY DEF IsStore, IsStoreOf, Session, SessionIn

\* The key has an entry, or can have none any more.
HadEntry(r, k) == k \in DOMAIN r.entries \/ IsVoid(r, k)

\* What every critical section does to a store: it stays well formed, no key
\* that was void comes back, and entries go only by becoming void.
Evolves(G, r, q) ==
  /\ IsStoreOf(G, q) /\ IsSound(q)
  /\ DOMAIN q.sessions \subseteq DOMAIN r.sessions
  /\ \A k \in Key : IsVoid(r, k) => IsVoid(q, k)
  /\ \A k \in Key : HadEntry(r, k) => HadEntry(q, k)

-----------------------------------------------------------------------------
(* The operators of Rendezvous, one lemma each.                            *)

\* A composition of evolutions is one.
LEMMA EvolvesTransitive ==
  ASSUME NEW G, NEW r, NEW q, NEW t, Evolves(G, r, q), Evolves(G, q, t)
  PROVE  Evolves(G, r, t)
BY DEF Evolves

\* _burn_locked evolves the store: it adds to the burned sets and drops entries.
LEMMA BurnEvolves ==
  ASSUME NEW G, NEW r, IsStoreOf(G, r), IsSound(r), NEW K
  PROVE  /\ Evolves(G, r, Burn(r, K))
         /\ DOMAIN Burn(r, K).sessions = DOMAIN r.sessions
         /\ \A s : IsOpen(r, s) <=> IsOpen(Burn(r, K), s)
         /\ \A k \in K \cap Key : IsVoid(Burn(r, K), k)
<1> DEFINE q == Burn(r, K)
           B(s) == r.sessions[s].burned \cup {a \in Attempt : <<s, a>> \in K}
<1>1. /\ q.sessions = [s \in DOMAIN r.sessions |-> [r.sessions[s] EXCEPT !.burned = B(s)]]
      /\ q.entries = [k \in DOMAIN r.entries \ K |-> r.entries[k]]
      /\ q = Store(q.sessions, q.entries, q.bytes)
  BY DEF Burn, Drop, Store, Restrict
<1>2. \A s \in DOMAIN r.sessions : r.sessions[s] \in SessionIn(G) /\ B(s) \in SUBSET Attempt
  BY DEF IsStoreOf, SessionIn
<1>3. \A s \in DOMAIN r.sessions :
        /\ q.sessions[s] \in SessionIn(G)
        /\ q.sessions[s].burned = B(s)
        /\ q.sessions[s].authorized = r.sessions[s].authorized
  <2> HIDE DEF B, q
  <2> TAKE s \in DOMAIN r.sessions
  <2>1. q.sessions[s] = [r.sessions[s] EXCEPT !.burned = B(s)]
    BY <1>1
  <2>2. r.sessions[s] \in SessionIn(G) /\ B(s) \in SUBSET Attempt
    BY <1>2
  <2> QED
    BY <2>1, <2>2 DEF SessionIn
<1>4. IsStoreOf(G, q)
  BY <1>1, <1>3 DEF IsStoreOf
<1>5. IsSound(q)
  BY <1>1, <1>3 DEF IsStoreOf, IsSound, IsOpen, Key
<1>6. \A k \in Key : IsVoid(r, k) => IsVoid(q, k)
  BY <1>1, <1>3 DEF IsVoid
<1>7. \A k \in K \cap Key : IsVoid(q, k)
  <2> TAKE k \in K \cap Key
  <2>1. k = <<k[1], k[2]>> /\ k[2] \in Attempt
    BY DEF Key
  <2>2. k[1] \in DOMAIN q.sessions => k[2] \in B(k[1])
    BY <2>1
  <2> HIDE DEF B, q
  <2> QED
    BY <1>1, <1>3, <2>2 DEF IsVoid
<1>8. \A k \in Key : HadEntry(r, k) => HadEntry(q, k)
  <2> HIDE DEF q
  <2> QED
    BY <1>1, <1>6, <1>7 DEF HadEntry
<1> QED
  BY <1>1, <1>3, <1>4, <1>5, <1>6, <1>7, <1>8 DEF Evolves, IsOpen

\* _terminal_locked evolves the store: sessions go with all their entries.
LEMMA TerminalEvolves ==
  ASSUME NEW G, NEW r, IsStoreOf(G, r), IsSound(r), NEW S
  PROVE  /\ Evolves(G, r, Terminal(r, S))
         /\ \A s : IsOpen(Terminal(r, S), s) => IsOpen(r, s)
<1> DEFINE q == Terminal(r, S)
<1>1. /\ q.sessions = [s \in DOMAIN r.sessions \ S |-> r.sessions[s]]
      /\ q.entries = [k \in DOMAIN r.entries \ {k \in DOMAIN r.entries : k[1] \in S}
                        |-> r.entries[k]]
      /\ q = Store(q.sessions, q.entries, q.bytes)
  BY DEF Terminal, Drop, Store, Restrict
<1>2. IsStoreOf(G, q)
  BY <1>1 DEF IsStoreOf
<1>3. IsSound(q)
  BY <1>1 DEF IsSound, IsOpen
<1>4. \A k \in Key : IsVoid(r, k) => IsVoid(q, k)
  BY <1>1 DEF IsVoid
<1>5. \A k \in Key : HadEntry(r, k) => HadEntry(q, k)
  <2> HIDE DEF q
  <2> QED
    BY <1>1, <1>4 DEF HadEntry, IsVoid
<1> QED
  BY <1>1, <1>2, <1>3, <1>4, <1>5 DEF Evolves, IsOpen

\* _cleanup_locked evolves the store: it burns and ends sessions.
LEMMA CleanupEvolves ==
  ASSUME NEW G, NEW r, IsStoreOf(G, r), IsSound(r)
  PROVE  /\ Evolves(G, r, Cleanup(r))
         /\ \A s : IsOpen(Cleanup(r), s) => IsOpen(r, s)
<1> DEFINE K == {k \in DOMAIN r.entries :
                   ~r.entries[k].preloaded /\ r.entries[k].age = Timeout}
           S == {s \in DOMAIN r.sessions : r.sessions[s].idle = IdleTimeout}
<1> HIDE DEF K, S
<1>1. Evolves(G, r, Burn(r, K)) /\ \A s : IsOpen(Burn(r, K), s) => IsOpen(r, s)
  BY BurnEvolves
<1>2. /\ Evolves(G, Burn(r, K), Terminal(Burn(r, K), S))
      /\ \A s : IsOpen(Terminal(Burn(r, K), S), s) => IsOpen(Burn(r, K), s)
  BY <1>1, TerminalEvolves DEF Evolves
<1>3. Cleanup(r) = Terminal(Burn(r, K), S)
  BY DEF Cleanup, K, S
<1> QED
  BY <1>1, <1>2, <1>3, EvolvesTransitive

\* Refreshing last_active evolves the store and changes no entry.
LEMMA TouchEvolves ==
  ASSUME NEW G, NEW r, IsStoreOf(G, r), IsSound(r), NEW s \in DOMAIN r.sessions
  PROVE  /\ Evolves(G, r, Touch(r, s))
         /\ Touch(r, s).entries = r.entries
         /\ DOMAIN Touch(r, s).sessions = DOMAIN r.sessions
         /\ \A t \in DOMAIN r.sessions :
              /\ Touch(r, s).sessions[t].burned = r.sessions[t].burned
              /\ Touch(r, s).sessions[t].authorized = r.sessions[t].authorized
<1> DEFINE q == Touch(r, s)
           x == [r.sessions[s] EXCEPT !.idle = 0]
<1>1. /\ q.sessions = [r.sessions EXCEPT ![s] = x]
      /\ q.entries = r.entries
      /\ q = Store(q.sessions, q.entries, q.bytes)
  BY DEF Touch, UpdateSession, Store
<1>2. r.sessions[s] \in SessionIn(G) /\ 0 \in 0..IdleTimeout
  BY LimitsArePositive DEF IsStoreOf
<1>3. /\ x \in SessionIn(G)
      /\ x.burned = r.sessions[s].burned
      /\ x.authorized = r.sessions[s].authorized
  BY <1>2 DEF SessionIn
<1>4. IsStoreOf(G, q)
  BY <1>1, <1>3 DEF IsStoreOf
<1>5. IsSound(q)
  BY <1>1, <1>3 DEF IsSound, IsOpen, IsStoreOf
<1>6. \A k \in Key : IsVoid(r, k) => IsVoid(q, k)
  BY <1>1, <1>3 DEF IsVoid, IsStoreOf
<1> QED
  BY <1>1, <1>3, <1>4, <1>5, <1>6 DEF Evolves, IsStoreOf, HadEntry

\* authorize_session opens a session and changes no entry.
LEMMA AuthorizeEvolves ==
  ASSUME NEW G, NEW r, IsStoreOf(G, r), IsSound(r), NEW s \in DOMAIN r.sessions
  PROVE  Evolves(G, r, Authorize(r, s))
<1> DEFINE q == Authorize(r, s)
           x == [r.sessions[s] EXCEPT !.authorized = TRUE, !.idle = 0]
<1>1. /\ q.sessions = [r.sessions EXCEPT ![s] = x]
      /\ q.entries = r.entries
      /\ q = Store(q.sessions, q.entries, q.bytes)
  BY DEF Authorize, UpdateSession, Store
<1>2. r.sessions[s] \in SessionIn(G) /\ 0 \in 0..IdleTimeout
  BY LimitsArePositive DEF IsStoreOf
<1>3. x \in SessionIn(G) /\ x.burned = r.sessions[s].burned /\ x.authorized = TRUE
  BY <1>2 DEF SessionIn
<1>4. IsStoreOf(G, q)
  BY <1>1, <1>3 DEF IsStoreOf
<1>5. IsSound(q)
  BY <1>1, <1>3 DEF IsSound, IsOpen, IsStoreOf
<1>6. \A k \in Key : IsVoid(r, k) => IsVoid(q, k)
  BY <1>1, <1>3 DEF IsVoid, IsStoreOf
<1> QED
  BY <1>1, <1>4, <1>5, <1>6 DEF Evolves, IsStoreOf, HadEntry

\* register_session adds a closed session; the others are untouched.
LEMMA RegisterEvolves ==
  ASSUME NEW G, NEW r, IsStoreOf(G, r), IsSound(r), NEW s \in Sid, s \notin DOMAIN r.sessions,
         NEW auth \in G
  PROVE  /\ IsStoreOf(G, Register(r, s, auth)) /\ IsSound(Register(r, s, auth))
         /\ DOMAIN Register(r, s, auth).sessions = DOMAIN r.sessions \cup {s}
         /\ \A k \in Key : k[1] # s => (IsVoid(r, k) <=> IsVoid(Register(r, s, auth), k))
         /\ Register(r, s, auth).entries = r.entries
         /\ \A k \in Key : k[1] = s => ~IsVoid(Register(r, s, auth), k)
<1> DEFINE q == Register(r, s, auth)
           x == [expected |-> auth, burned |-> {}, idle |-> 0, authorized |-> FALSE]
<1>1. /\ q.sessions = [t \in DOMAIN r.sessions \cup {s} |-> IF t = s THEN x ELSE r.sessions[t]]
      /\ q.entries = r.entries
      /\ q = Store(q.sessions, q.entries, q.bytes)
  BY DEF Register, Store
<1>2. x \in SessionIn(G) /\ x.burned = {}
  BY LimitsArePositive DEF SessionIn
<1>3. IsStoreOf(G, q)
  BY <1>1, <1>2 DEF IsStoreOf
<1>4. IsSound(q)
  BY <1>1 DEF IsSound, IsOpen
<1>5. \A k \in Key : k[1] # s => (IsVoid(r, k) <=> IsVoid(q, k))
  BY <1>1 DEF IsVoid
<1>6. \A k \in Key : k[1] = s => ~IsVoid(q, k)
  BY <1>1, <1>2 DEF IsVoid
<1> QED
  BY <1>1, <1>3, <1>4, <1>5, <1>6

\* A step that only changes entries, and adds some to open sessions for
\* attempts that are not burned, is an evolution.
LEMMA EntriesEvolve ==
  ASSUME NEW G, NEW r, IsStoreOf(G, r), IsSound(r), NEW q, NEW K \in SUBSET Key,
         q = Store(q.sessions, q.entries, q.bytes),
         q.sessions = r.sessions,
         q.entries \in [DOMAIN r.entries \cup K -> Entry],
         \A k \in K : IsOpen(r, k[1]) /\ k[2] \notin r.sessions[k[1]].burned
  PROVE  Evolves(G, r, q)
<1>1. IsStoreOf(G, q)
  BY DEF IsStoreOf
<1>2. IsSound(q)
  BY DEF IsSound, IsOpen
<1> QED
  BY <1>1, <1>2 DEF Evolves, IsVoid, HadEntry

\* In particular, one that changes entries and adds none.
LEMMA UpdatesEvolve ==
  ASSUME NEW G, NEW r, IsStoreOf(G, r), IsSound(r), NEW q,
         q = Store(q.sessions, q.entries, q.bytes),
         q.sessions = r.sessions,
         q.entries \in [DOMAIN r.entries -> Entry]
  PROVE  Evolves(G, r, q)
<1>1. IsStoreOf(G, q)
  BY DEF IsStoreOf
<1>2. IsSound(q)
  BY DEF IsSound, IsOpen
<1> QED
  BY <1>1, <1>2 DEF Evolves, IsVoid, HadEntry

\* The bytes of a row are a natural number.
LEMMA RowBytesType ==
  ASSUME NEW A \in SUBSET Attempt, A # {}, NEW a, NEW payload \in Nat
  PROVE  RowBytes(A, a, payload) \in Nat
<1>a. IsFiniteSet(Attempt)
  <2>1. 1 \in Int /\ NAttempts \in Int
    BY LimitsArePositive
  <2> QED
    BY <2>1, FS_Interval DEF Attempt
<1>1. IsFiniteSet(A) /\ A # {}
  BY <1>a, FS_Subset
<1>2. Cardinality(A) \in Nat \ {0}
  BY <1>1, FS_CardinalityType, FS_EmptySet
<1>4. payload \div Cardinality(A) \in Nat
  BY <1>2
<1> QED
  BY <1>4 DEF RowBytes

\* preload_bulk adds entries of one open session that are not burned.
LEMMA PreloadEvolves ==
  ASSUME NEW G, NEW r, IsStoreOf(G, r), IsSound(r), NEW s \in Sid, NEW A \in SUBSET Attempt,
         NEW meta \in Meta, NEW payload \in Nat, CanPreload(r, s, A, meta, payload)
  PROVE  Evolves(G, r, Preload(r, s, A, meta, payload))
<1> DEFINE e(k) == NewEntry(meta, RowBytes(A, k[2], payload), TRUE)
           K == {s} \X A
           q == Store(r.sessions,
                      [k \in DOMAIN r.entries \cup K |->
                         IF k \in K THEN e(k) ELSE r.entries[k]],
                      r.bytes + payload)
<1>1. Preload(r, s, A, meta, payload) = Touch(q, s)
  BY DEF Preload, AddEntries
<1>2. K \in SUBSET Key
  BY DEF Key
<1>3. \A k \in K : e(k) \in Entry
  BY RowBytesType, LimitsArePositive DEF NewEntry, Entry
<1>4. \A k \in K : IsOpen(r, k[1]) /\ k[2] \notin r.sessions[k[1]].burned
  BY DEF CanPreload
<1>5. q = Store(q.sessions, q.entries, q.bytes) /\ q.sessions = r.sessions
  BY DEF Store
<1>6. q.entries \in [DOMAIN r.entries \cup K -> Entry]
  <2> HIDE DEF e, K
  <2> QED
    BY <1>3 DEF Store, IsStoreOf
<1>7. Evolves(G, r, q)
  <2> HIDE DEF q, K
  <2> QED
    BY <1>2, <1>4, <1>5, <1>6, EntriesEvolve
<1>8. s \in DOMAIN q.sessions
  BY <1>5 DEF CanPreload, IsOpen
<1> HIDE DEF q
<1>9. Evolves(G, q, Touch(q, s))
  BY <1>7, <1>8, TouchEvolves DEF Evolves
<1> QED
  BY <1>1, <1>7, <1>9, EvolvesTransitive

\* _entry_locked finds or adds the entry of an attempt that is not burned.
LEMMA WithEntryEvolves ==
  ASSUME NEW G, NEW r, IsStoreOf(G, r), IsSound(r), NEW k \in Key, IsOpen(r, k[1]), CanHaveEntry(r, k)
  PROVE  /\ Evolves(G, r, WithEntry(r, k))
         /\ k \in DOMAIN WithEntry(r, k).entries
<1> DEFINE e == NewEntry(NoMeta, 0, FALSE)
           K == {k} \ DOMAIN r.entries
           q == Store(r.sessions,
                      [j \in DOMAIN r.entries \cup K |-> IF j \in K THEN e ELSE r.entries[j]],
                      r.bytes + 0)
<1>1. WithEntry(r, k) = Touch(q, k[1])
  BY DEF WithEntry, AddEntries
<1>2. e \in Entry
  BY LimitsArePositive DEF NewEntry, Entry
<1>3. q = Store(q.sessions, q.entries, q.bytes) /\ q.sessions = r.sessions
  BY DEF Store
<1>4. q.entries \in [DOMAIN r.entries \cup K -> Entry] /\ k \in DOMAIN q.entries
  <2> HIDE DEF e
  <2> QED
    BY <1>2 DEF Store, IsStoreOf
<1>5. Evolves(G, r, q)
  <2>1. K \in SUBSET Key
    OBVIOUS
  <2>2. \A j \in K : IsOpen(r, j[1]) /\ j[2] \notin r.sessions[j[1]].burned
    BY DEF CanHaveEntry
  <2> HIDE DEF q, K
  <2> QED
    BY <1>3, <1>4, <2>1, <2>2, EntriesEvolve
<1>6. k[1] \in DOMAIN q.sessions
  BY <1>3 DEF IsOpen
<1> HIDE DEF q
<1>7. Evolves(G, q, Touch(q, k[1])) /\ Touch(q, k[1]).entries = q.entries
  BY <1>5, <1>6, TouchEvolves DEF Evolves
<1> QED
  BY <1>1, <1>4, <1>5, <1>7, EvolvesTransitive

\* Marking an existing entry as activated changes only that entry.
LEMMA ActivatedEvolves ==
  ASSUME NEW G, NEW r, IsStoreOf(G, r), IsSound(r), NEW k \in DOMAIN r.entries,
         NEW meta \in Meta, NEW p \in Holder
  PROVE  Evolves(G, r, Activated(r, k, meta, p))
<1> DEFINE e == r.entries[k]
           x == [age |-> IF e.preloaded THEN 0 ELSE e.age, holder |-> p,
                 correction |-> e.correction, bytes |-> e.bytes,
                 preloaded |-> FALSE, activation |-> meta]
           q == Store(r.sessions, [r.entries EXCEPT ![k] = x], r.bytes)
<1>1. Activated(r, k, meta, p) = q
  BY DEF Activated, UpdateEntry
<1>2. e \in Entry
  BY DEF IsStoreOf
<1>3. x \in Entry
  <2> DEFINE n == IF e.preloaded THEN 0 ELSE e.age
  <2> HIDE DEF e
  <2>1. n \in 0..Timeout
    BY <1>2, LimitsArePositive DEF Entry
  <2> HIDE DEF n
  <2>2. x = [age |-> n, holder |-> p, correction |-> e.correction, bytes |-> e.bytes,
             preloaded |-> FALSE, activation |-> meta]
    BY DEF n
  <2> HIDE DEF x
  <2> QED
    BY <1>2, <2>1, <2>2 DEF Entry
<1>4. q = Store(q.sessions, q.entries, q.bytes) /\ q.sessions = r.sessions
  BY DEF Store
<1>5. q.entries \in [DOMAIN r.entries -> Entry]
  <2> HIDE DEF x
  <2> QED
    BY <1>3 DEF Store, IsStoreOf
<1> HIDE DEF q
<1> QED
  BY <1>1, <1>4, <1>5, UpdatesEvolve

\* Storing the correction of an existing entry changes only that entry.
LEMMA PushedEvolves ==
  ASSUME NEW G, NEW r, IsStoreOf(G, r), IsSound(r), NEW k \in DOMAIN r.entries,
         NEW meta \in Meta, NEW payload \in Nat
  PROVE  Evolves(G, r, Pushed(r, k, meta, payload))
<1> DEFINE e == r.entries[k]
           x == [e EXCEPT !.correction = meta, !.bytes = payload]
           q == Store(r.sessions, [r.entries EXCEPT ![k] = x], r.bytes + payload)
<1>1. Pushed(r, k, meta, payload) = q
  BY DEF Pushed, UpdateEntry, Store
<1>2. e \in Entry /\ payload \in Nat
  BY DEF IsStoreOf
<1>3. x \in Entry
  <2> HIDE DEF e
  <2> QED
    BY <1>2 DEF Entry
<1>4. q = Store(q.sessions, q.entries, q.bytes) /\ q.sessions = r.sessions
  BY DEF Store
<1>5. q.entries \in [DOMAIN r.entries -> Entry]
  <2> HIDE DEF x
  <2> QED
    BY <1>3 DEF Store, IsStoreOf
<1> HIDE DEF q
<1> QED
  BY <1>1, <1>4, <1>5, UpdatesEvolve

\* The passing of time changes ages only.
LEMMA AgedEvolves ==
  ASSUME NEW G, NEW r, IsStoreOf(G, r), IsSound(r)
  PROVE  /\ Evolves(G, r, Aged(r))
<1> DEFINE q == Aged(r)
<1>1. /\ q = Store(q.sessions, q.entries, q.bytes)
      /\ DOMAIN q.sessions = DOMAIN r.sessions
      /\ DOMAIN q.entries = DOMAIN r.entries
  BY DEF Aged, Store
<1>2. \A s \in DOMAIN r.sessions :
        /\ q.sessions[s] \in SessionIn(G)
        /\ q.sessions[s].burned = r.sessions[s].burned
        /\ q.sessions[s].authorized = r.sessions[s].authorized
  <2> TAKE s \in DOMAIN r.sessions
  <2> DEFINE n == IF r.sessions[s].idle < IdleTimeout THEN r.sessions[s].idle + 1
                                                       ELSE r.sessions[s].idle
  <2>1. r.sessions[s] \in SessionIn(G)
    BY DEF IsStoreOf
  <2>2. q.sessions[s] = [r.sessions[s] EXCEPT !.idle = n]
    BY DEF Aged, Store
  <2>3. n \in 0..IdleTimeout
    BY <2>1, LimitsArePositive DEF SessionIn
  <2> HIDE DEF n, q
  <2> QED
    BY <2>1, <2>2, <2>3 DEF SessionIn
<1>3. \A k \in DOMAIN r.entries : q.entries[k] \in Entry
  <2> TAKE k \in DOMAIN r.entries
  <2> DEFINE e == r.entries[k]
             n == IF e.preloaded THEN e.age ELSE IF e.age < Timeout THEN e.age + 1 ELSE e.age
  <2>1. e \in Entry
    BY DEF IsStoreOf
  <2>2. q.entries[k] = [e EXCEPT !.age = n]
    BY DEF Aged, Store
  <2>3. n \in 0..Timeout
    <3> HIDE DEF e
    <3> QED
      BY <2>1, LimitsArePositive DEF Entry
  <2> HIDE DEF n, q, e
  <2> QED
    BY <2>1, <2>2, <2>3 DEF Entry
<1>4. IsStoreOf(G, q)
  <2>1. q.sessions \in [DOMAIN q.sessions -> SessionIn(G)] /\ q.entries \in [DOMAIN q.entries -> Entry]
    <3>1. /\ q.sessions = [s \in DOMAIN r.sessions |-> q.sessions[s]]
          /\ q.entries = [k \in DOMAIN r.entries |-> q.entries[k]]
      BY DEF Aged, Store
    <3> HIDE DEF q
    <3> QED
      BY <1>1, <1>2, <1>3, <3>1
  <2> HIDE DEF q
  <2> QED
    BY <1>1, <2>1 DEF IsStoreOf
<1> HIDE DEF q
<1>5. IsSound(q)
  BY <1>1, <1>2 DEF IsSound, IsOpen
<1>6. \A k \in Key : IsVoid(r, k) => IsVoid(q, k)
  BY <1>1, <1>2 DEF IsVoid
<1> QED
  BY <1>1, <1>4, <1>5, <1>6 DEF Evolves, HadEntry, q

\* abort burns the key or does nothing.
LEMMA AbortEvolves ==
  ASSUME NEW G, NEW r, IsStoreOf(G, r), IsSound(r), NEW k, NEW p
  PROVE  Evolves(G, r, Abort(r, k, p))
<1>1. Evolves(G, r, r)
  BY DEF Evolves
<1> QED
  BY <1>1, BurnEvolves DEF Abort

\* Every key with an entry is open and not void.
LEMMA EntryIsOpen ==
  ASSUME NEW r, IsSound(r), NEW k \in DOMAIN r.entries
  PROVE  IsOpen(r, k[1]) /\ ~IsVoid(r, k)
BY DEF IsSound, IsVoid, IsOpen

-----------------------------------------------------------------------------
(* The byte counter.                                                       *)

Sizes(r) == [k \in DOMAIN r.entries |-> r.entries[k].bytes]

\* The counter is the sum over the entries, and an entry that waits for its
\* correction counts for nothing.
Exact(r) ==
  /\ IsFiniteSet(DOMAIN r.entries)
  /\ r.bytes = SumBy(Sizes(r), DOMAIN r.entries)
  /\ \A k \in DOMAIN r.entries : r.entries[k].correction = NoMeta => r.entries[k].bytes = 0

\* A critical section that frees bytes or leaves them alone.
Frees(r, q) == Exact(q) /\ q.bytes <= r.bytes

\* EntryBytes is the sum over the entries of the keys.
LEMMA EntryBytesIsSum ==
  ASSUME NEW r, IsFiniteSet(DOMAIN r.entries), NEW K
  PROVE  EntryBytes(r, K) = SumBy(Sizes(r), K \cap DOMAIN r.entries)
<1> DEFINE X == K \cap DOMAIN r.entries
           P(g) == g = [s \in SUBSET X |->
                          IF s = {} THEN 0 ELSE LET x == CHOOSE x \in s : TRUE
                                                IN  r.entries[x].bytes + g[s \ {x}]]
           g == CHOOSE u : P(u)
<1>1. EntryBytes(r, K) = g[X]
  BY DEF EntryBytes, MapThenSumSet, MapThenFoldSet
<1>2. ASSUME NEW u  PROVE P(u) <=> SumsUp(u, Sizes(r), X)
  <2>1. \A s \in SUBSET X : s # {} => Sizes(r)[CHOOSE x \in s : TRUE] = r.entries[CHOOSE x \in s : TRUE].bytes
    BY DEF Sizes
  <2> QED
    BY <2>1 DEF SumsUp
<1>3. IsFiniteSet(X)
  BY FS_Subset
<1>4. \E u : P(u)
  <2> HIDE DEF P, X
  <2> QED BY <1>2, <1>3, SumExists
<1>5. P(g)
  BY <1>4
<1>6. SumsUp(g, Sizes(r), X)
  <2> HIDE DEF P, g, X
  <2> QED BY <1>2, <1>5
<1> HIDE DEF g, P, X
<1>7. g[X] = SumBy(Sizes(r), X)
  BY <1>3, <1>6, SumOf
<1> QED
  BY <1>1, <1>7 DEF X

\* The counter of a well-formed store is a natural number.
LEMMA ExactIsNat ==
  ASSUME NEW G, NEW r, IsStoreOf(G, r), Exact(r)
  PROVE  /\ r.bytes \in Nat
         /\ \A k \in DOMAIN r.entries : Sizes(r)[k] \in Nat /\ Sizes(r)[k] \in Int
<1>1. \A k \in DOMAIN r.entries : Sizes(r)[k] \in Nat
  BY DEF IsStoreOf, Entry, Sizes
<1> QED
  BY <1>1, SumIsNat DEF Exact

\* _cancel_entry_locked: dropping entries frees what they count for.
LEMMA DropFrees ==
  ASSUME NEW G, NEW r, IsStoreOf(G, r), Exact(r), NEW K, NEW q,
         q.entries = [k \in DOMAIN r.entries \ K |-> r.entries[k]],
         q.bytes = r.bytes - EntryBytes(r, K)
  PROVE  Frees(r, q)
<1> DEFINE D == DOMAIN r.entries
           f == Sizes(r)
<1>1. IsFiniteSet(D) /\ r.bytes = SumBy(f, D)
  BY DEF Exact
<1>2. \A k \in D : f[k] \in Int /\ f[k] \in Nat
  BY ExactIsNat
<1>3. EntryBytes(r, K) = SumBy(f, K \cap D)
  BY <1>1, EntryBytesIsSum
<1>4. DOMAIN q.entries = D \ K
  OBVIOUS
<1>5. IsFiniteSet(D \ K) /\ K \cap D \in SUBSET D /\ D \ (K \cap D) = D \ K
  BY <1>1, FS_Subset
<1>6. SumBy(f, D) = SumBy(f, K \cap D) + SumBy(f, D \ K)
  <2> HIDE DEF D, f
  <2>1. SumBy(f, D) = SumBy(f, K \cap D) + SumBy(f, D \ (K \cap D))
    BY <1>1, <1>2, <1>5, SumSplit
  <2> QED BY <1>5, <2>1
<1>7. SumBy(f, D \ K) = SumBy(Sizes(q), D \ K)
  <2>1. \A k \in D \ K : f[k] \in Int /\ Sizes(q)[k] = f[k]
    BY <1>2 DEF Sizes
  <2> HIDE DEF D, f
  <2> QED BY <1>5, <2>1, SumEqual
<1>8. SumBy(f, K \cap D) \in Nat /\ SumBy(f, D \ K) \in Nat
  <2>1. IsFiniteSet(K \cap D)
    BY <1>1, FS_Subset
  <2> HIDE DEF D, f
  <2> QED BY <1>2, <1>5, <2>1, SumIsNat
<1>9. \A k \in DOMAIN q.entries : q.entries[k].correction = NoMeta => q.entries[k].bytes = 0
  BY DEF Exact
<1>10. q.bytes = SumBy(f, D \ K) /\ q.bytes <= r.bytes
  <2> HIDE DEF D, f
  <2> QED BY <1>1, <1>3, <1>6, <1>8
<1> QED
  BY <1>4, <1>5, <1>7, <1>9, <1>10 DEF Frees, Exact

\* A critical section that changes no size frees nothing.
LEMMA SameSizesFree ==
  ASSUME NEW G, NEW r, IsStoreOf(G, r), Exact(r), NEW q, q.bytes = r.bytes,
         DOMAIN q.entries = DOMAIN r.entries,
         \A k \in DOMAIN r.entries :
           /\ q.entries[k].bytes = r.entries[k].bytes
           /\ q.entries[k].correction = r.entries[k].correction
  PROVE  Frees(r, q)
<1>1. SumBy(Sizes(r), DOMAIN r.entries) = SumBy(Sizes(q), DOMAIN r.entries)
  <2>1. \A k \in DOMAIN r.entries : Sizes(r)[k] \in Int /\ Sizes(q)[k] = Sizes(r)[k]
    BY ExactIsNat DEF Sizes
  <2> QED BY <2>1, SumEqual DEF Exact
<1>2. r.bytes \in Nat
  BY ExactIsNat
<1> QED
  BY <1>1, <1>2 DEF Frees, Exact

\* A critical section that adds entries counts them.
LEMMA AddsExactly ==
  ASSUME NEW G, NEW r, IsStoreOf(G, r), Exact(r), NEW q, NEW K, IsFiniteSet(K),
         K \cap DOMAIN r.entries = {}, NEW n \in Nat, q.bytes = r.bytes + n,
         DOMAIN q.entries = DOMAIN r.entries \cup K,
         \A k \in DOMAIN r.entries : q.entries[k] = r.entries[k],
         \A k \in K : /\ q.entries[k].bytes \in Nat
                      /\ q.entries[k].correction = NoMeta => q.entries[k].bytes = 0,
         SumBy(Sizes(q), K) = n
  PROVE  Exact(q)
<1> DEFINE D == DOMAIN r.entries
<1>1. IsFiniteSet(D) /\ r.bytes = SumBy(Sizes(r), D)
  BY DEF Exact
<1>2. IsFiniteSet(D \cup K)
  BY <1>1, FS_Union
<1>3. \A k \in D : Sizes(q)[k] = Sizes(r)[k] /\ Sizes(r)[k] \in Int
  BY ExactIsNat DEF Sizes
<1>4. \A k \in D \cup K : Sizes(q)[k] \in Int
  <2>1. \A k \in K : Sizes(q)[k] = q.entries[k].bytes
    BY DEF Sizes
  <2> QED BY <1>3, <2>1
<1>5. SumBy(Sizes(r), D) = SumBy(Sizes(q), D)
  BY <1>1, <1>3, SumEqual
<1>6. (D \cup K) \ K = D /\ K \in SUBSET (D \cup K)
  OBVIOUS
<1>7. SumBy(Sizes(q), D \cup K) = SumBy(Sizes(q), K) + SumBy(Sizes(q), D)
  <2> HIDE DEF D
  <2>1. SumBy(Sizes(q), D \cup K) = SumBy(Sizes(q), K) + SumBy(Sizes(q), (D \cup K) \ K)
    BY <1>2, <1>4, <1>6, SumSplit
  <2> QED BY <1>6, <2>1
<1>8. SumBy(Sizes(q), D) \in Int
  BY <1>1, <1>3, <1>5, SumIsInt
<1>9. q.bytes = SumBy(Sizes(q), DOMAIN q.entries)
  BY <1>1, <1>5, <1>7, <1>8
<1>10. \A k \in DOMAIN q.entries : q.entries[k].correction = NoMeta => q.entries[k].bytes = 0
  BY DEF Exact
<1> QED
  BY <1>2, <1>9, <1>10 DEF Exact

\* divmod hands out the whole payload, the first rows one byte more.
LEMMA SharesAddUp ==
  ASSUME NEW A, IsFiniteSet(A), A \in SUBSET Int, NEW q \in Nat, NEW m \in Nat
  PROVE  SumBy([a \in A |-> q + (IF Cardinality({b \in A : b < a}) < m THEN 1 ELSE 0)], A)
           = q * Cardinality(A) + (IF Cardinality(A) < m THEN Cardinality(A) ELSE m)
<1> DEFINE Rank(T, a) == Cardinality({b \in T : b < a})
           f(T) == [a \in T |-> q + (IF Rank(T, a) < m THEN 1 ELSE 0)]
           Goal(T) == q * Cardinality(T) + (IF Cardinality(T) < m THEN Cardinality(T) ELSE m)
           Q == {T \in SUBSET A : SumBy(f(T), T) = Goal(T)}
<1>1. ASSUME NEW T \in SUBSET A, \A u \in SUBSET T : u # T => u \in Q
      PROVE  T \in Q
  <2>1. IsFiniteSet(T) /\ Cardinality(T) \in Nat
    BY FS_Subset, FS_CardinalityType
  <2>2. \A a \in T : f(T)[a] = q + (IF Rank(T, a) < m THEN 1 ELSE 0) /\ f(T)[a] \in Int
    OBVIOUS
  <2>3. CASE T = {}
    <3>1. SumBy(f(T), T) = 0 /\ Cardinality(T) = 0
      BY <2>1, <2>3, SumStep, FS_EmptySet
    <3>2. Goal(T) = 0
      BY <3>1
    <3> QED
      BY <3>1, <3>2
  <2>4. CASE T # {}
    <3>1. PICK c \in T : \A x \in T : x <= c
      BY <2>1, <2>4, LargestExists
    <3> DEFINE V == T \ {c}
               n == Cardinality(V)
    <3>2. IsFiniteSet(V) /\ n \in Nat /\ Cardinality(T) = n + 1
      <4>1. IsFiniteSet(V) /\ n = Cardinality(T) - 1
        BY <2>1, FS_RemoveElement
      <4>2. n \in Nat
        BY <4>1, FS_CardinalityType
      <4> HIDE DEF n
      <4> QED BY <2>1, <4>1, <4>2
    <3>3. Rank(T, c) = n
      <4>1. \A b \in T : b < c <=> b # c
        <5>1. \A b \in T : b \in Int /\ c \in Int
          OBVIOUS
        <5> QED BY <3>1, <5>1
      <4>2. {b \in T : b < c} = V
        BY <4>1
      <4> QED BY <4>2
    <3>4. \A a \in V : f(V)[a] \in Int /\ f(T)[a] = f(V)[a]
      <4> TAKE a \in V
      <4>1. a \in Int /\ c \in Int /\ a <= c
        BY <3>1
      <4>2. ~(c < a)
        BY <4>1
      <4>3. {b \in T : b < a} = {b \in V : b < a}
        BY <4>2
      <4> QED BY <4>3
    <3>5. SumBy(f(T), T) = SumBy(f(T), V) + f(T)[c]
      <4> HIDE DEF f, Rank
      <4> QED BY <2>1, <2>2, <3>1, SumRemove
    <3>6. SumBy(f(V), V) = SumBy(f(T), V)
      <4> HIDE DEF f, Rank, V
      <4> QED BY <3>2, <3>4, SumEqual
    <3>7. SumBy(f(V), V) = Goal(V)
      BY <1>1, <3>1
    <3>8. q * (n + 1) = q * n + q /\ q * n \in Nat
      BY <3>2
    <3>9. Goal(T) = q * n + q + (IF n + 1 < m THEN n + 1 ELSE m)
      BY <3>2, <3>8
    <3>10. Goal(V) = q * n + (IF n < m THEN n ELSE m)
      OBVIOUS
    <3>11. f(T)[c] = q + (IF n < m THEN 1 ELSE 0)
      BY <2>2, <3>3
    <3>12. SumBy(f(T), T) = Goal(T)
      <4> DEFINE p == q * n
      <4>1. p \in Nat /\ n \in Nat
        BY <3>2, <3>8
      <4>2. SumBy(f(T), T) = p + (IF n < m THEN n ELSE m) + (q + (IF n < m THEN 1 ELSE 0))
        BY <3>5, <3>6, <3>7, <3>10, <3>11
      <4>3. Goal(T) = p + q + (IF n + 1 < m THEN n + 1 ELSE m)
        BY <3>9
      <4> HIDE DEF p, n, Goal, f
      <4> QED BY <4>1, <4>2, <4>3
    <3> QED
      BY <3>12
  <2> QED
    BY <2>3, <2>4
<1>2. \A T \in SUBSET A : T \in Q
  <2> HIDE DEF Q
  <2> QED BY <1>1, SubsetInduction
<1>3. A \in Q
  BY <1>2
<1> QED
  BY <1>3

\* The rows of a bulk share its payload.
LEMMA RowsShareThePayload ==
  ASSUME NEW A \in SUBSET Attempt, A # {}, NEW payload \in Nat
  PROVE  IsFiniteSet(A) /\ SumBy([a \in A |-> RowBytes(A, a, payload)], A) = payload
<1> DEFINE n == Cardinality(A)
           q == payload \div n
           m == payload % n
<1>1. IsFiniteSet(Attempt) /\ Attempt \in SUBSET Int
  BY LimitsArePositive, FS_Interval DEF Attempt
<1>2. IsFiniteSet(A) /\ A \in SUBSET Int /\ n \in Nat \ {0}
  BY <1>1, FS_Subset, FS_CardinalityType, FS_EmptySet
<1>3. q \in Nat /\ m \in Nat /\ m < n /\ payload = q * n + m
  <2> HIDE DEF n
  <2> QED BY <1>2
<1>4. [a \in A |-> RowBytes(A, a, payload)]
        = [a \in A |-> q + (IF Cardinality({b \in A : b < a}) < m THEN 1 ELSE 0)]
  BY DEF RowBytes
<1> HIDE DEF q, m
<1>5. SumBy([a \in A |-> RowBytes(A, a, payload)], A) = q * n + (IF n < m THEN n ELSE m)
  BY <1>2, <1>3, <1>4, SharesAddUp
<1> HIDE DEF n
<1> QED
  BY <1>2, <1>3, <1>5

\* _burn_locked frees what it burns.
LEMMA BurnFrees ==
  ASSUME NEW G, NEW r, IsStoreOf(G, r), Exact(r), NEW K
  PROVE  Frees(r, Burn(r, K))
<1>1. /\ Burn(r, K).entries = [k \in DOMAIN r.entries \ K |-> r.entries[k]]
      /\ Burn(r, K).bytes = r.bytes - EntryBytes(r, K)
  BY DEF Burn, Drop, Store, Restrict
<1> QED
  BY <1>1, DropFrees

\* _terminal_locked frees what it drops.
LEMMA TerminalFrees ==
  ASSUME NEW G, NEW r, IsStoreOf(G, r), Exact(r), NEW S
  PROVE  Frees(r, Terminal(r, S))
<1> DEFINE K == {k \in DOMAIN r.entries : k[1] \in S}
<1>1. /\ Terminal(r, S).entries = [k \in DOMAIN r.entries \ K |-> r.entries[k]]
      /\ Terminal(r, S).bytes = r.bytes - EntryBytes(r, K)
  BY DEF Terminal, Drop, Store, Restrict
<1> HIDE DEF K
<1> QED
  BY <1>1, DropFrees

\* Freeing twice is freeing.
LEMMA FreesTransitive ==
  ASSUME NEW G, NEW r, NEW q, NEW t, IsStoreOf(G, r), Exact(r), IsStoreOf(G, q), IsStoreOf(G, t),
         Frees(r, q), Frees(q, t)
  PROVE  Frees(r, t)
<1>1. r.bytes \in Nat /\ q.bytes \in Nat /\ t.bytes \in Nat
  BY ExactIsNat DEF Frees
<1> QED
  BY <1>1 DEF Frees

\* _cleanup_locked frees what timed out.
LEMMA CleanupFrees ==
  ASSUME NEW G, NEW r, IsStoreOf(G, r), IsSound(r), Exact(r)
  PROVE  Frees(r, Cleanup(r))
<1> DEFINE K == {k \in DOMAIN r.entries :
                   ~r.entries[k].preloaded /\ r.entries[k].age = Timeout}
           S == {s \in DOMAIN r.sessions : r.sessions[s].idle = IdleTimeout}
           b == Burn(r, K)
<1>1. Cleanup(r) = Terminal(b, S)
  BY DEF Cleanup
<1> HIDE DEF K, S
<1>2. IsStoreOf(G, b) /\ IsSound(b) /\ Frees(r, b)
  BY BurnEvolves, BurnFrees DEF Evolves
<1> HIDE DEF b
<1>3. IsStoreOf(G, Terminal(b, S)) /\ Frees(b, Terminal(b, S))
  BY <1>2, TerminalEvolves, TerminalFrees DEF Evolves, Frees
<1> QED
  BY <1>1, <1>2, <1>3, FreesTransitive

\* Refreshing or opening a session changes no entry.
LEMMA TouchFrees ==
  ASSUME NEW G, NEW r, IsStoreOf(G, r), Exact(r), NEW s
  PROVE  Frees(r, Touch(r, s)) /\ Frees(r, Authorize(r, s))
<1>1. /\ Touch(r, s).entries = r.entries /\ Touch(r, s).bytes = r.bytes
      /\ Authorize(r, s).entries = r.entries /\ Authorize(r, s).bytes = r.bytes
  BY DEF Touch, Authorize, UpdateSession, Store
<1> QED
  BY <1>1, SameSizesFree

\* A new session has no entry yet.
LEMMA RegisterFrees ==
  ASSUME NEW G, NEW r, IsStoreOf(G, r), Exact(r), NEW s, NEW auth
  PROVE  Frees(r, Register(r, s, auth))
<1>1. Register(r, s, auth).entries = r.entries /\ Register(r, s, auth).bytes = r.bytes
  BY DEF Register, Store
<1> QED
  BY <1>1, SameSizesFree

\* Marking an entry as activated changes no size.
LEMMA ActivatedFrees ==
  ASSUME NEW G, NEW r, IsStoreOf(G, r), Exact(r), NEW k \in DOMAIN r.entries, NEW meta, NEW p
  PROVE  Frees(r, Activated(r, k, meta, p))
<1> DEFINE e == r.entries[k]
           x == [age |-> IF e.preloaded THEN 0 ELSE e.age, holder |-> p,
                 correction |-> e.correction, bytes |-> e.bytes,
                 preloaded |-> FALSE, activation |-> meta]
           q == Activated(r, k, meta, p)
<1>1. q.entries = [r.entries EXCEPT ![k] = x] /\ q.bytes = r.bytes
  BY DEF Activated, UpdateEntry, Store
<1>2. x.bytes = r.entries[k].bytes /\ x.correction = r.entries[k].correction
  OBVIOUS
<1> HIDE DEF x, q
<1>3. \A j \in DOMAIN r.entries :
        /\ q.entries[j].bytes = r.entries[j].bytes
        /\ q.entries[j].correction = r.entries[j].correction
  BY <1>1, <1>2
<1> QED
  BY <1>1, <1>3, SameSizesFree DEF q

\* The passing of time changes no size.
LEMMA AgedFrees ==
  ASSUME NEW G, NEW r, IsStoreOf(G, r), Exact(r)
  PROVE  Frees(r, Aged(r))
<1> DEFINE q == Aged(r)
<1>1. q.bytes = r.bytes /\ DOMAIN q.entries = DOMAIN r.entries
  BY DEF Aged, Store
<1>2. \A k \in DOMAIN r.entries :
        /\ q.entries[k].bytes = r.entries[k].bytes
        /\ q.entries[k].correction = r.entries[k].correction
  <2> TAKE k \in DOMAIN r.entries
  <2> DEFINE e == r.entries[k]
             n == IF e.preloaded THEN e.age ELSE IF e.age < Timeout THEN e.age + 1 ELSE e.age
  <2>1. e \in Entry
    BY DEF IsStoreOf
  <2>2. q.entries[k] = [e EXCEPT !.age = n]
    BY DEF Aged, Store
  <2> HIDE DEF n, q, e
  <2>3. q.entries[k].bytes = e.bytes /\ q.entries[k].correction = e.correction
    BY <2>1, <2>2 DEF Entry
  <2> QED
    BY <2>3 DEF e
<1> HIDE DEF q
<1> QED
  BY <1>1, <1>2, SameSizesFree DEF q

\* abort frees what it burns.
LEMMA AbortFrees ==
  ASSUME NEW G, NEW r, IsStoreOf(G, r), Exact(r), NEW k, NEW p
  PROVE  Frees(r, Abort(r, k, p))
<1>1. Frees(r, r)
  BY ExactIsNat DEF Frees
<1> QED
  BY <1>1, BurnFrees DEF Abort

\* An entry that waits for its correction adds nothing to the counter.
LEMMA WithEntryFrees ==
  ASSUME NEW G, NEW r, IsStoreOf(G, r), Exact(r), NEW k \in Key
  PROVE  Frees(r, WithEntry(r, k))
<1> DEFINE K == {k} \ DOMAIN r.entries
           e == NewEntry(NoMeta, 0, FALSE)
           q == WithEntry(r, k)
<1>1. /\ q.entries = [j \in DOMAIN r.entries \cup K |-> IF j \in K THEN e ELSE r.entries[j]]
      /\ q.bytes = r.bytes + 0
  BY DEF WithEntry, AddEntries, Touch, UpdateSession, Store
<1>2. e.bytes = 0
  BY DEF NewEntry
<1>3. IsFiniteSet(K)
  BY FS_Singleton, FS_Subset
<1>4. K \cap DOMAIN r.entries = {}
  OBVIOUS
<1> HIDE DEF K, e, q
<1>5. \A j \in K : q.entries[j].bytes = 0 /\ Sizes(q)[j] = 0
  BY <1>1, <1>2 DEF Sizes
<1>6. SumBy(Sizes(q), K) = 0
  <2>1. \A j \in K : Sizes(q)[j] \in Int /\ [i \in K |-> 0][j] = Sizes(q)[j]
    BY <1>5
  <2>2. SumBy(Sizes(q), K) = SumBy([i \in K |-> 0], K)
    BY <1>3, <2>1, SumEqual
  <2>3. SumBy([i \in K |-> 0], K) = 0 * Cardinality(K)
    <3>1. 0 \in Int
      OBVIOUS
    <3> QED
      BY ONLY <1>3, <3>1, SumOfConstant
  <2>4. Cardinality(K) \in Nat
    BY <1>3, FS_CardinalityType
  <2> QED
    BY <2>2, <2>3, <2>4
<1>7. r.bytes \in Nat
  BY ExactIsNat
<1>8. /\ DOMAIN q.entries = DOMAIN r.entries \cup K
      /\ \A j \in DOMAIN r.entries : q.entries[j] = r.entries[j]
  BY <1>1, <1>4
<1>9. Exact(q)
  <2>1. \A j \in K : q.entries[j].bytes \in Nat /\ (q.entries[j].correction = NoMeta => q.entries[j].bytes = 0)
    BY <1>5
  <2> QED
    BY <1>1, <1>3, <1>4, <1>6, <1>8, <2>1, AddsExactly
<1> QED
  BY <1>1, <1>7, <1>9 DEF Frees, q

\* preload_bulk counts the payload once, however it is split.
LEMMA PreloadExact ==
  ASSUME NEW G, NEW r, IsStoreOf(G, r), Exact(r), NEW s \in Sid, NEW A \in SUBSET Attempt, A # {},
         NEW meta \in Meta, NEW payload \in Nat, CanPreload(r, s, A, meta, payload)
  PROVE  /\ Exact(Preload(r, s, A, meta, payload))
         /\ Preload(r, s, A, meta, payload).bytes = r.bytes + payload
         /\ SumBy(Sizes(Preload(r, s, A, meta, payload)), {s} \X A) = payload
<1> DEFINE K == {s} \X A
           e(k) == NewEntry(meta, RowBytes(A, k[2], payload), TRUE)
           q == Preload(r, s, A, meta, payload)
           f == [a \in A |-> RowBytes(A, a, payload)]
<1>1. /\ q.entries = [k \in DOMAIN r.entries \cup K |-> IF k \in K THEN e(k) ELSE r.entries[k]]
      /\ q.bytes = r.bytes + payload
  BY DEF Preload, AddEntries, Touch, UpdateSession, Store
<1>2. \A k \in K : e(k).bytes = RowBytes(A, k[2], payload) /\ e(k).correction # NoMeta
  BY NullsAreDistinct DEF NewEntry
<1>3. IsFiniteSet(A) /\ SumBy(f, A) = payload /\ \A a \in A : f[a] \in Nat
  BY RowsShareThePayload, RowBytesType
<1>4. IsFiniteSet(K)
  BY <1>3, FS_Singleton, FS_Product
<1>5. K \cap DOMAIN r.entries = {}
  BY DEF CanPreload
<1> HIDE DEF e, q
<1>6. \A k \in K : q.entries[k].bytes = f[k[2]] /\ q.entries[k].correction # NoMeta
  BY <1>1, <1>2
<1> HIDE DEF f
<1>7. /\ DOMAIN q.entries = DOMAIN r.entries \cup K
      /\ \A k \in DOMAIN r.entries : q.entries[k] = r.entries[k]
  <2> HIDE DEF K
  <2> QED BY <1>1, <1>5
<1>8. SumBy(Sizes(q), K) = payload
  <2> DEFINE p == [k \in K |-> k[2]]
             g == [a \in A |-> SumBy(Sizes(q), {k \in K : p[k] = a})]
  <2>1. \A k \in K : Sizes(q)[k] = f[k[2]] /\ Sizes(q)[k] \in Int /\ k[2] \in A
    BY <1>3, <1>6, <1>7 DEF Sizes
  <2>2. p \in [K -> A]
    OBVIOUS
  <2>3. SumBy(Sizes(q), K) = SumBy(g, A)
    <3> HIDE DEF K, p
    <3> QED BY <1>3, <1>4, <2>1, <2>2, SumByParts
  <2>4. \A a \in A : f[a] \in Int /\ g[a] = f[a]
    <3> TAKE a \in A
    <3>1. {k \in K : p[k] = a} = {<<s, a>>}
      OBVIOUS
    <3>2. Sizes(q)[<<s, a>>] = f[a] /\ f[a] \in Int
      BY <1>3, <2>1
    <3>3. SumBy(Sizes(q), {<<s, a>>}) = SumBy(Sizes(q), {}) + Sizes(q)[<<s, a>>]
      <4>1. {<<s, a>>} = {} \cup {<<s, a>>} /\ <<s, a>> \notin {} /\ IsFiniteSet({})
        BY FS_EmptySet
      <4>2. \A y \in {} \cup {<<s, a>>} : Sizes(q)[y] \in Int
        BY <3>2
      <4> DEFINE z == <<s, a>>
      <4> HIDE DEF z
      <4>3. SumBy(Sizes(q), {} \cup {z}) = SumBy(Sizes(q), {}) + Sizes(q)[z]
        BY <4>1, <4>2, SumAdd DEF z
      <4> QED BY <4>1, <4>3 DEF z
    <3>4. SumBy(Sizes(q), {}) = 0
      BY FS_EmptySet, SumStep
    <3>5. g[a] = SumBy(Sizes(q), {<<s, a>>})
      BY <3>1
    <3> HIDE DEF g, K, p
    <3> QED BY <3>2, <3>3, <3>4, <3>5
  <2>5. SumBy(f, A) = SumBy(g, A)
    <3> HIDE DEF g
    <3> QED BY <1>3, <2>4, SumEqual
  <2> QED
    BY <1>3, <2>3, <2>5
<1>9. \A k \in K : /\ q.entries[k].bytes \in Nat
                   /\ q.entries[k].correction = NoMeta => q.entries[k].bytes = 0
  BY <1>3, <1>6
<1> HIDE DEF K
<1>10. Exact(q)
  BY <1>1, <1>4, <1>5, <1>7, <1>8, <1>9, AddsExactly
<1> QED
  BY <1>1, <1>8, <1>10 DEF q, K

\* push counts the correction of an entry that had none.
LEMMA PushedExact ==
  ASSUME NEW G, NEW r, IsStoreOf(G, r), Exact(r), NEW k \in DOMAIN r.entries,
         r.entries[k].correction = NoMeta, NEW meta \in Meta, NEW payload \in Nat
  PROVE  /\ Exact(Pushed(r, k, meta, payload))
         /\ Pushed(r, k, meta, payload).bytes = r.bytes + payload
<1> DEFINE D == DOMAIN r.entries
           x == [r.entries[k] EXCEPT !.correction = meta, !.bytes = payload]
           q == Pushed(r, k, meta, payload)
<1>1. q.entries = [r.entries EXCEPT ![k] = x] /\ q.bytes = r.bytes + payload
  BY DEF Pushed, UpdateEntry, Store
<1>2. r.entries[k] \in Entry
  BY DEF IsStoreOf
<1>3. x.bytes = payload /\ x.correction # NoMeta
  BY <1>2, NullsAreDistinct DEF Entry
<1> HIDE DEF x, q
<1>4. DOMAIN q.entries = D /\ Sizes(q)[k] = payload /\ Sizes(r)[k] = 0
  BY <1>1, <1>3 DEF Sizes, Exact
<1>5. \A j \in D \ {k} : q.entries[j] = r.entries[j] /\ Sizes(q)[j] = Sizes(r)[j]
  BY <1>1 DEF Sizes
<1>6. IsFiniteSet(D) /\ IsFiniteSet(D \ {k}) /\ r.bytes = SumBy(Sizes(r), D)
  BY FS_Subset DEF Exact
<1>7. \A j \in D : Sizes(r)[j] \in Int
  BY ExactIsNat
<1>8. \A j \in D : Sizes(q)[j] \in Int
  BY <1>4, <1>5, <1>7
<1> HIDE DEF D
<1>9. SumBy(Sizes(r), D) = SumBy(Sizes(r), D \ {k}) + Sizes(r)[k]
  BY <1>6, <1>7, SumRemove DEF D
<1>10. SumBy(Sizes(q), D) = SumBy(Sizes(q), D \ {k}) + Sizes(q)[k]
  BY <1>6, <1>8, SumRemove DEF D
<1>11. SumBy(Sizes(r), D \ {k}) = SumBy(Sizes(q), D \ {k})
  BY <1>5, <1>6, <1>7, SumEqual
<1>12. SumBy(Sizes(r), D \ {k}) \in Int
  BY <1>6, <1>7, SumIsInt
<1>13. q.bytes = SumBy(Sizes(q), D)
  BY <1>1, <1>4, <1>6, <1>9, <1>10, <1>11, <1>12
<1>14. \A j \in D : q.entries[j].correction = NoMeta => q.entries[j].bytes = 0
  BY <1>1, <1>3, <1>5 DEF Exact, D
<1> QED
  BY <1>1, <1>4, <1>6, <1>13, <1>14 DEF Exact, q
=============================================================================
