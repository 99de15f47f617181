------------------------ MODULE PartyController_proofs ------------------------
(***************************************************************************)
(* Proofs about PartyController, for any leases, any capacity and any      *)
(* number of calls: what the party promises is never more than it has, a   *)
(* lease goes only when its calls have unwound, a worker opens one session *)
(* per lease, and a party that left has nothing more to serve.             *)
(*                                                                         *)
(* What makes the properties inductive is who may load: an adapter is      *)
(* loaded under the lock only, one at a time, so a command that has the    *)
(* lock knows that nothing is on its way into the table.  A list of leases *)
(* to visit, taken when the lock was taken, stays part of the table.       *)
(*                                                                         *)
(* The second part is about the store of decode states (DecodeStore), for  *)
(* any token paths and limits: no published name dangles, and what can be  *)
(* looked up is what was published.                                        *)
(***************************************************************************)
EXTENDS PartyController, DecodeStore, SumTheorems, TLAPS

LockRecord ==
  [op : {"free", "reserve", "release", "purge", "close"}, verb : {"none", "drain", "leave"},
   todo : SUBSET Lease, burning : Lease \cup {None}]

CallRecord ==
  [st : {"none", "reading", "running", "cancelled", "refused", "answered", "ended"},
   lease : Lease \cup {None}, kind : Kind \cup {"none"}]

\* One load at a time, by the holder of the lock; the leases still to be visited
\* are in the table.
Serial ==
  /\ loading # {} => lock.op = "reserve" /\ lock.todo = {} /\ lock.burning = None
  /\ \A k, l \in loading : k = l
  /\ lock.todo \subseteq held /\ lock.burning \notin lock.todo

Capacity == IsFiniteSet(held \cup loading) /\ WithinCapacity

\* A call that reads or runs was admitted to an armed lease that is still held.
Calls ==
  \A c \in Call : Live(c) =>
    /\ call[c].lease \in held /\ call[c].lease \in armed
    /\ call[c].lease \in revoked => call[c].st = "cancelled"

Reads(c, o) == call[c].st = "reading" /\ Opens(c) = o

\* The one opening of a worker's lease is reading its document or was made.
Openings ==
  /\ \A c \in Call : call[c].st = "reading" => call[c].kind \in Kind
  /\ \A l \in Worker, kind \in Kind : LET o == <<l, kind>> IN
       /\ openings[o] <= 1
       /\ o \notin opened => openings[o] = 0
       /\ \A c \in Call : Reads(c, o) => o \in opened /\ openings[o] = 0
       /\ \A c, d \in Call : Reads(c, o) /\ Reads(d, o) => c = d

Gone == left => held = {} /\ loading = {}

IInv == TypeOK /\ Serial /\ Capacity /\ Calls /\ Openings /\ Gone

-----------------------------------------------------------------------------
\* A call whose state changes is the same call of the same lease.
LEMMA CallMoves ==
  ASSUME call \in [Call -> CallRecord], NEW c \in Call,
         NEW s \in {"running", "refused", "answered", "ended"},
         call' = [call EXCEPT ![c].st = s]
  PROVE  /\ call' \in [Call -> CallRecord]
         /\ call'[c].st = s /\ call'[c].lease = call[c].lease /\ call'[c].kind = call[c].kind
         /\ \A d \in Call : d # c => call'[d] = call[d]
<1> DEFINE x == [call[c] EXCEPT !.st = s]
<1>1. call' = [call EXCEPT ![c] = x] /\ call[c] \in CallRecord
  OBVIOUS
<1>2. x \in CallRecord /\ x.st = s /\ x.lease = call[c].lease /\ x.kind = call[c].kind
  BY <1>1 DEF CallRecord
<1> HIDE DEF x
<1> QED BY <1>1, <1>2

\* _burn: the calls of the lease are cancelled, nothing else happens to calls.
LEMMA BurnCancels ==
  ASSUME call \in [Call -> CallRecord], NEW l, NEW h, Burn(l, h)
  PROVE  /\ call' \in [Call -> CallRecord]
         /\ \A c \in Call : /\ call'[c].lease = call[c].lease /\ call'[c].kind = call[c].kind
                            /\ \/ call'[c] = call[c] /\ (call[c].lease # l \/ ~Live(c))
                               \/ call[c].lease = l /\ Live(c) /\ call'[c].st = "cancelled"
<1>1. \A c \in Call :
        \/ call'[c] = call[c] /\ (call[c].lease # l \/ ~Live(c))
        \/ call[c].lease = l /\ Live(c) /\ call'[c] = [call[c] EXCEPT !.st = "cancelled"]
  BY DEF Burn, CallsOf
<1>2. \A c \in Call : LET x == [call[c] EXCEPT !.st = "cancelled"]
                      IN  x \in CallRecord /\ x.st = "cancelled" /\ x.lease = call[c].lease /\ x.kind = call[c].kind
  BY DEF CallRecord
<1>3. call' = [c \in Call |-> call'[c]]
  BY DEF Burn
<1>4. \A c \in Call : call[c] \in CallRecord
  OBVIOUS
<1>5. \A c \in Call : call'[c] \in CallRecord
  BY <1>1, <1>2, <1>4
<1>6. call' \in [Call -> CallRecord]
  BY <1>3, <1>5
<1>7. \A c \in Call : /\ call'[c].lease = call[c].lease /\ call'[c].kind = call[c].kind
                      /\ \/ call'[c] = call[c] /\ (call[c].lease # l \/ ~Live(c))
                         \/ call[c].lease = l /\ Live(c) /\ call'[c].st = "cancelled"
  BY <1>1, <1>2
<1> QED BY <1>6, <1>7

\* The parts of the type that are about calls and the lock, by name.
LEMMA Types ==
  ASSUME TypeOK
  PROVE  lock \in LockRecord /\ call \in [Call -> CallRecord] /\ Free \in LockRecord
BY DEF TypeOK, LockRecord, CallRecord, Free

-----------------------------------------------------------------------------
(* Capacity.                                                               *)

\* Part of what fits, fits.
LEMMA PartFits ==
  ASSUME NEW S, IsFiniteSet(S), S \subseteq Lease, NEW T \in SUBSET S
  PROVE  /\ IsFiniteSet(T) /\ Cardinality(T) <= Cardinality(S)
         /\ MemoryOf(T) <= MemoryOf(S)
         /\ Cardinality(T) \in Nat /\ Cardinality(S) \in Nat
         /\ MemoryOf(T) \in Nat /\ MemoryOf(S) \in Nat
<1>1. IsFiniteSet(T) /\ Cardinality(T) <= Cardinality(S)
      /\ Cardinality(T) \in Nat /\ Cardinality(S) \in Nat
  BY FS_Subset, FS_CardinalityType
<1>2. \A l \in S : Memory[l] \in Nat /\ Memory[l] \in Int
  BY PartyAssumption
<1>3. SumBy(Memory, T) <= SumBy(Memory, S)
  <2>1. /\ \A l \in S : Memory[l] \in Int /\ Memory[l] \in Int
        /\ \A l \in T : Memory[l] <= Memory[l]
        /\ \A l \in S \ T : 0 <= Memory[l]
    BY <1>2
  <2> QED BY ONLY <2>1, IsFiniteSet(S), T \in SUBSET S, SumBounds
<1>4. SumBy(Memory, T) \in Nat /\ SumBy(Memory, S) \in Nat
  BY <1>1, <1>2, SumIsNat
<1>5. MemoryOf(T) = SumBy(Memory, T) /\ MemoryOf(S) = SumBy(Memory, S)
  BY DEF MemoryOf, SumBy
<1> QED BY <1>1, <1>3, <1>4, <1>5

\* A table that shrinks stays within the capacity.
LEMMA CapacityShrinks ==
  ASSUME TypeOK, Capacity, (held \cup loading)' \subseteq held \cup loading
  PROVE  Capacity'
<1> DEFINE S == held \cup loading
           T == held' \cup loading'
<1>1. S \subseteq Lease /\ T \in SUBSET S
  BY DEF TypeOK
<1>2. /\ IsFiniteSet(S) /\ Cardinality(S) <= MaxSessions /\ MemoryOf(S) <= MaxMemory
  BY DEF Capacity, WithinCapacity
<1> HIDE DEF S, T
<1>3. /\ IsFiniteSet(T) /\ Cardinality(T) <= Cardinality(S) /\ MemoryOf(T) <= MemoryOf(S)
      /\ Cardinality(T) \in Nat /\ Cardinality(S) \in Nat
      /\ MemoryOf(T) \in Nat /\ MemoryOf(S) \in Nat
  BY <1>1, <1>2, PartFits
<1>4. MaxSessions \in Nat /\ MaxMemory \in Nat
  BY PartyAssumption
<1>5. IsFiniteSet(T) /\ Cardinality(T) <= MaxSessions /\ MemoryOf(T) <= MaxMemory
  BY <1>2, <1>3, <1>4
<1>6. MemoryOf(held \cup loading)' = MemoryOf(T) /\ (held \cup loading)' = T
  BY DEF T
<1> QED BY <1>5, <1>6 DEF Capacity, WithinCapacity

\* reserve: the lease it is about to load fits beside the table, and nothing
\* else is being loaded.
LEMMA ReserveFits ==
  ASSUME TypeOK, Serial, Capacity, NEW l \in Lease, Reserve(l)
  PROVE  Capacity'
<1> DEFINE S == held \cup {l}
<1>1. /\ held' \cup loading' = S /\ l \notin held /\ held \subseteq Lease
      /\ Cardinality(held) < MaxSessions /\ MemoryOf(held) + Memory[l] <= MaxMemory
  BY DEF Reserve, Fits, Serial, TypeOK, Free
<1>2. IsFiniteSet(held)
  BY FS_Subset DEF Capacity
<1>3. \A k \in S : Memory[k] \in Int
  BY <1>1, PartyAssumption
<1>4. SumBy(Memory, S) = SumBy(Memory, held) + Memory[l]
  BY <1>1, <1>2, <1>3, SumAdd
<1>5. IsFiniteSet(S) /\ Cardinality(S) = Cardinality(held) + 1 /\ Cardinality(held) \in Nat
  BY <1>1, <1>2, FS_AddElement, FS_CardinalityType
<1>6. MemoryOf(S) = MemoryOf(held) + Memory[l]
  BY <1>4 DEF MemoryOf, SumBy
<1> HIDE DEF S
<1>7. Cardinality(S) <= MaxSessions /\ MemoryOf(S) <= MaxMemory
  BY <1>1, <1>5, <1>6, PartyAssumption
<1>8. MemoryOf(held \cup loading)' = MemoryOf(S) /\ (held \cup loading)' = S
  BY <1>1
<1> QED BY <1>5, <1>7, <1>8 DEF Capacity, WithinCapacity

-----------------------------------------------------------------------------
(* One lemma per kind of step.                                             *)

\* Calls and openings are as they were, and their leases keep what they had.
LEMMA CallsKept ==
  ASSUME Calls, UNCHANGED <<call, revoked>>, held \subseteq held', armed \subseteq armed'
  PROVE  Calls'
BY DEF Calls, Live

LEMMA OpeningsKept ==
  ASSUME Openings, UNCHANGED <<call, opened, openings>>
  PROVE  Openings'
BY DEF Openings, Reads, Opens

\* Openings that end unmade take nothing from the others.
LEMMA OpeningsDropped ==
  ASSUME Openings, UNCHANGED <<opened, openings>>,
         \A c \in Call : call'[c].st = "reading" =>
           call[c].st = "reading" /\ call'[c].kind = call[c].kind /\ call'[c].lease = call[c].lease
  PROVE  Openings'
<1>1. \A o : \A c \in Call : Reads(c, o)' => Reads(c, o)
  BY DEF Reads, Opens
<1> QED BY <1>1 DEF Openings

\* reserve and the load it waits for.
LEMMA LoadStep ==
  ASSUME IInv, NEW l \in Lease, Reserve(l) \/ Loaded(l)
  PROVE  IInv'
<1>1. CASE Reserve(l)
  <2>1. TypeOK'
    BY <1>1 DEF IInv, TypeOK, Reserve, Free
  <2>2. Serial'
    BY <1>1 DEF IInv, Serial, Reserve, Free
  <2>3. Capacity'
    BY <1>1, ReserveFits DEF IInv
  <2>4. Calls'
    BY <1>1, CallsKept DEF IInv, Reserve
  <2>5. Openings'
    BY <1>1, OpeningsKept DEF IInv, Reserve
  <2>6. Gone'
    BY <1>1 DEF IInv, Gone, Reserve
  <2> QED BY <2>1, <2>2, <2>3, <2>4, <2>5, <2>6 DEF IInv
<1>2. CASE Loaded(l)
  <2>1. TypeOK'
    BY <1>2, Types DEF IInv, TypeOK, Loaded, LockRecord
  <2>2. Serial'
    BY <1>2 DEF IInv, Serial, Loaded, Free, TypeOK
  <2>3. Capacity'
    BY <1>2, CapacityShrinks DEF IInv, Loaded
  <2>4. Calls'
    BY <1>2, CallsKept DEF IInv, Loaded
  <2>5. Openings'
    BY <1>2, OpeningsKept DEF IInv, Loaded
  <2>6. Gone'
    BY <1>2 DEF IInv, Gone, Loaded
  <2> QED BY <2>1, <2>2, <2>3, <2>4, <2>5, <2>6 DEF IInv
<1> QED BY <1>1, <1>2

\* arm, and the time of a lease passing.
LEMMA FlagStep ==
  ASSUME IInv, NEW l \in Lease, Arm(l) \/ Expire(l)
  PROVE  IInv'
<1>1. TypeOK'
  BY DEF IInv, TypeOK, Arm, Expire
<1>2. Serial'
  BY DEF IInv, Serial, Arm, Expire
<1>3. Capacity'
  BY CapacityShrinks DEF IInv, Arm, Expire
<1>4. Calls'
  BY CallsKept DEF IInv, Arm, Expire
<1>5. Openings'
  BY OpeningsKept DEF IInv, Arm, Expire
<1>6. Gone'
  BY DEF IInv, Gone, Arm, Expire
<1> QED BY <1>1, <1>2, <1>3, <1>4, <1>5, <1>6 DEF IInv

\* A lease of the table starts to burn, for a holder that will not visit it again.
LEMMA BurnStep ==
  ASSUME IInv, NEW l \in held, NEW h \in LockRecord, Burn(l, h),
         loading = {}, h.todo \subseteq held, l \notin h.todo,
         UNCHANGED <<accepting, left, closed>>
  PROVE  IInv'
<1> DEFINE x == [h EXCEPT !.burning = l]
<1>1. /\ lock' = x /\ revoked' = revoked \cup {l}
      /\ UNCHANGED <<used, loading, held, armed, opened, expired, openings>>
  BY DEF Burn
<1>2. l \in Lease
  BY DEF IInv, TypeOK
<1>3. x \in LockRecord /\ x.todo = h.todo /\ x.burning = l
  BY <1>2 DEF LockRecord
<1> HIDE DEF x
<1>4. /\ call' \in [Call -> CallRecord]
      /\ \A c \in Call : /\ call'[c].lease = call[c].lease /\ call'[c].kind = call[c].kind
                         /\ \/ call'[c] = call[c] /\ (call[c].lease # l \/ ~Live(c))
                            \/ call[c].lease = l /\ Live(c) /\ call'[c].st = "cancelled"
  BY Types, BurnCancels DEF IInv
<1>5. TypeOK'
  BY <1>1, <1>2, <1>3, <1>4 DEF IInv, TypeOK, LockRecord, CallRecord
<1>6. Serial'
  BY <1>1, <1>3 DEF Serial
<1>7. Capacity'
  BY <1>1, CapacityShrinks DEF IInv
<1>8. Calls'
  <2> SUFFICES ASSUME NEW c \in Call, Live(c)'
               PROVE  /\ call'[c].lease \in held' /\ call'[c].lease \in armed'
                      /\ call'[c].lease \in revoked' => call'[c].st = "cancelled"
    BY DEF Calls
  <2>1. Live(c)
    BY <1>4 DEF Live
  <2>2. CASE call'[c] = call[c] /\ call[c].lease # l
    BY <1>1, <2>1, <2>2 DEF IInv, Calls
  <2>3. CASE call[c].lease = l /\ call'[c].st = "cancelled"
    BY <1>1, <1>4, <2>1, <2>3 DEF IInv, Calls
  <2> QED BY <1>4, <2>1, <2>2, <2>3
<1>9. Openings'
  <2>1. \A c \in Call : call'[c].st = "reading" =>
          call[c].st = "reading" /\ call'[c].kind = call[c].kind /\ call'[c].lease = call[c].lease
    BY <1>4
  <2> QED BY <1>1, <2>1, OpeningsDropped DEF IInv
<1>10. Gone'
  BY <1>1 DEF IInv, Gone
<1> QED BY <1>5, <1>6, <1>7, <1>8, <1>9, <1>10 DEF IInv

\* release, and the visit of a lease by purge or close.
LEMMA ReleaseVisitStep ==
  ASSUME IInv, NEW l \in Lease, Release(l) \/ Visit(l)
  PROVE  IInv'
<1>1. CASE Release(l)
  <2> DEFINE h == [Free EXCEPT !.op = "release"]
  <2>1. h \in LockRecord /\ h.todo = {}
    BY DEF Free, LockRecord
  <2>2. l \in held /\ Burn(l, h) /\ loading = {} /\ UNCHANGED <<accepting, left, closed>>
    BY <1>1 DEF Release, IInv, Serial, Free
  <2> HIDE DEF h
  <2> QED BY <2>1, <2>2, BurnStep
<1>2. CASE Visit(l)
  <2> DEFINE h == [lock EXCEPT !.todo = lock.todo \ {l}]
  <2>1. lock \in LockRecord /\ l \in lock.todo /\ lock.burning = None /\ l \in held
    BY <1>2, Types DEF Visit, IInv, Serial
  <2>2. h \in LockRecord /\ h.todo = lock.todo \ {l} /\ h.burning = lock.burning /\ h.op = lock.op
    BY <2>1 DEF LockRecord
  <2>3. \/ Burn(l, h) /\ (lock.op = "close" \/ l \in expired)
        \/ lock' = h /\ UNCHANGED <<used, loading, held, armed, revoked, opened, expired, openings, call>>
    BY <1>2 DEF Visit
  <2>4. UNCHANGED <<accepting, left, closed>>
    BY <1>2 DEF Visit
  <2> HIDE DEF h
  <2>5. CASE Burn(l, h)
    <3>1. h.todo \subseteq held /\ l \notin h.todo
      BY <2>2 DEF IInv, Serial
    <3>2. loading = {}
      BY <2>1 DEF IInv, Serial
    <3> QED BY <2>1, <2>2, <2>4, <2>5, <3>1, <3>2, BurnStep
  <2>6. CASE lock' = h /\ UNCHANGED <<used, loading, held, armed, revoked, opened, expired, openings, call>>
    <3>1. TypeOK'
      BY <2>2, <2>4, <2>6 DEF IInv, TypeOK, LockRecord
    <3>2. Serial'
      BY <2>1, <2>2, <2>6 DEF IInv, Serial
    <3>3. Capacity'
      BY <2>6, CapacityShrinks DEF IInv
    <3>4. Calls' /\ Openings'
      BY <2>6, CallsKept, OpeningsKept DEF IInv
    <3>5. Gone'
      BY <2>4, <2>6 DEF IInv, Gone
    <3> QED BY <3>1, <3>2, <3>3, <3>4, <3>5 DEF IInv
  <2> QED BY <2>3, <2>5, <2>6
<1> QED BY <1>1, <1>2

\* The adapter is not closed: nothing changes but the lock.
LEMMA BurnFailsStep ==
  ASSUME IInv, NEW l \in Lease, BurnFails(l)
  PROVE  IInv'
<1>1. /\ lock' = Free /\ lock.burning = l
      /\ UNCHANGED <<accepting, left, closed, used, loading, held, armed, revoked, opened, expired, openings, call>>
  BY DEF BurnFails
<1>2. TypeOK'
  BY <1>1 DEF IInv, TypeOK, Free
<1>3. None \notin Lease
  BY PartyAssumption
<1>4. loading = {}
  BY <1>1, <1>3 DEF IInv, Serial
<1>5. Serial'
  BY <1>1, <1>4 DEF IInv, Serial, Free
<1>6. Capacity'
  BY <1>1, CapacityShrinks DEF IInv
<1>7. Calls' /\ Openings'
  BY <1>1, CallsKept, OpeningsKept DEF IInv
<1>8. Gone'
  BY <1>1 DEF IInv, Gone
<1> QED BY <1>2, <1>5, <1>6, <1>7, <1>8 DEF IInv

\* The adapter is closed and the row goes, once the calls of the lease ended.
LEMMA BurnedStep ==
  ASSUME IInv, NEW l \in Lease, Burned(l)
  PROVE  IInv'
<1>1. /\ held' = held \ {l} /\ lock.burning = l
      /\ lock' = IF lock.op = "release" THEN Free ELSE [lock EXCEPT !.burning = None]
      /\ UNCHANGED <<accepting, left, closed, used, loading, armed, revoked, opened, expired, openings, call>>
      /\ \A c \in Call : call[c].lease = l => ~Live(c)
  BY DEF Burned, Drained, CallsOf
<1>2. lock \in LockRecord /\ Free \in LockRecord /\ Free.todo = {} /\ Free.burning = None
  BY Types DEF IInv, Free
<1>3. LET x == [lock EXCEPT !.burning = None]
      IN  x \in LockRecord /\ x.op = lock.op /\ x.todo = lock.todo /\ x.burning = None
  BY <1>2 DEF LockRecord
<1>4. None \notin Lease
  BY PartyAssumption
<1>5. /\ lock' \in LockRecord /\ lock'.burning = None
      /\ \/ lock.op = "release" /\ lock'.todo = {}
         \/ lock'.op = lock.op /\ lock'.todo = lock.todo
  BY <1>1, <1>2, <1>3
<1>6. TypeOK'
  BY <1>1, <1>5 DEF IInv, TypeOK, LockRecord
<1>7. Serial'
  <2>1. lock'.todo \subseteq Lease /\ l \notin lock.todo
    BY <1>1, <1>5 DEF IInv, Serial, LockRecord
  <2> QED BY <1>1, <1>4, <1>5, <2>1 DEF IInv, Serial
<1>8. Capacity'
  BY <1>1, CapacityShrinks DEF IInv
<1>9. Calls'
  BY <1>1 DEF IInv, Calls, Live
<1>10. Openings'
  BY <1>1, OpeningsKept DEF IInv
<1>11. Gone'
  BY <1>1 DEF IInv, Gone
<1> QED BY <1>6, <1>7, <1>8, <1>9, <1>10, <1>11 DEF IInv

\* purge and close take the lock with the leases of the table to visit; drain,
\* leave and close end when all were visited.
LEMMA LockStep ==
  ASSUME IInv, (\E verb \in {"none", "drain", "leave"} : Purge(verb)) \/ Purged \/ Close \/ Closed
  PROVE  IInv'
<1>1. UNCHANGED <<used, loading, held, armed, revoked, opened, expired, openings, call>>
  BY DEF Purge, Purged, Close, Closed
<1>2. /\ lock' \in LockRecord /\ lock'.burning = None /\ lock'.todo \subseteq held
      /\ loading = {}
  <2>1. CASE \E verb \in {"none", "drain", "leave"} : Purge(verb)
    BY <2>1 DEF Purge, LockRecord, IInv, Serial, TypeOK, Free
  <2>2. CASE Close
    BY <2>2 DEF Close, LockRecord, IInv, Serial, TypeOK, Free
  <2>3. CASE Purged \/ Closed
    BY <2>3, Types DEF Purged, Closed, IInv, Serial, Free
  <2> QED BY <2>1, <2>2, <2>3
<1>3. /\ accepting' \in BOOLEAN /\ left' \in BOOLEAN /\ closed' \in BOOLEAN
      /\ left' => left \/ held = {}
  <2>1. CASE \E verb \in {"none", "drain", "leave"} : Purge(verb)
    BY <2>1 DEF IInv, TypeOK, Purge
  <2>2. CASE Purged
    <3>1. /\ accepting' = (accepting /\ lock.verb \notin {"drain", "leave"})
          /\ left' = (left \/ Leaves) /\ closed' = closed
      BY <2>2 DEF Purged
    <3>2. closed \in BOOLEAN /\ (Leaves => held = {})
      BY DEF IInv, TypeOK, Leaves
    <3>3. accepting' \in BOOLEAN /\ left' \in BOOLEAN
      BY <3>1
    <3> QED BY <3>1, <3>2, <3>3
  <2>3. CASE Close \/ Closed
    <3>1. /\ accepting' = FALSE \/ accepting' = accepting
          /\ closed' = TRUE \/ closed' = closed
          /\ left' = left
      BY <2>3 DEF Close, Closed
    <3>2. accepting \in BOOLEAN /\ left \in BOOLEAN /\ closed \in BOOLEAN
      BY DEF IInv, TypeOK
    <3> QED BY <3>1, <3>2
  <2> QED BY <2>1, <2>2, <2>3
<1>4. TypeOK'
  BY <1>1, <1>2, <1>3 DEF IInv, TypeOK, LockRecord
<1>5. Serial'
  <2>1. None \notin held
    BY PartyAssumption DEF IInv, TypeOK
  <2> QED BY <1>1, <1>2, <2>1 DEF Serial
<1>6. Capacity'
  BY <1>1, CapacityShrinks DEF IInv
<1>7. Calls' /\ Openings'
  BY <1>1, CallsKept, OpeningsKept DEF IInv
<1>8. Gone'
  BY <1>1, <1>2, <1>3 DEF IInv, Gone
<1> QED BY <1>4, <1>5, <1>6, <1>7, <1>8 DEF IInv

\* A call is admitted: the flag of a worker's lease is set before its document
\* is read.
LEMMA EnterStep ==
  ASSUME IInv, NEW c \in Call, NEW l \in Lease, NEW kind \in Kind \cup {"none"}, Enter(c, l, kind)
  PROVE  IInv'
<1> DEFINE o == <<l, kind>>
           x == [st |-> IF ~(kind \in Kind) THEN "running" ELSE IF o \in opened THEN "refused" ELSE "reading",
                 lease |-> l, kind |-> kind]
<1>1. /\ call[c].st = "none" /\ l \in held /\ l \in armed /\ l \notin revoked
      /\ call' = [call EXCEPT ![c] = x]
      /\ opened' = IF kind \in Kind /\ l \in Worker THEN opened \cup {o} ELSE opened
      /\ UNCHANGED <<lock, accepting, left, closed, used, loading, held, armed, revoked, expired, openings>>
  BY DEF Enter, Admitted
<1>2. /\ x \in CallRecord /\ x.lease = l /\ x.kind = kind /\ x.st \in {"running", "refused", "reading"}
      /\ x.st = "reading" => kind \in Kind /\ o \notin opened
  BY DEF CallRecord
<1> HIDE DEF x
<1>3. /\ call' \in [Call -> CallRecord] /\ call'[c] = x
      /\ \A d \in Call : d # c => call'[d] = call[d]
  BY <1>1, <1>2, Types DEF IInv
<1>4. TypeOK'
  <2>1. opened' \subseteq armed' \X Kind
    BY <1>1 DEF IInv, TypeOK
  <2> QED BY <1>1, <1>3, <2>1 DEF IInv, TypeOK, CallRecord
<1>5. Serial'
  BY <1>1 DEF IInv, Serial
<1>6. Capacity'
  BY <1>1, CapacityShrinks DEF IInv
<1>7. Calls'
  BY <1>1, <1>2, <1>3 DEF IInv, Calls, Live
<1>8. Openings'
  <2>0. \A d \in Call : call'[d].st = "reading" => call'[d].kind \in Kind
    BY <1>2, <1>3 DEF IInv, Openings
  <2>1. ASSUME NEW k \in Worker, NEW g \in Kind, NEW q, q = <<k, g>>
        PROVE  /\ openings'[q] <= 1
               /\ q \notin opened' => openings'[q] = 0
               /\ \A d \in Call : Reads(d, q)' => q \in opened' /\ openings'[q] = 0
               /\ \A d, e \in Call : Reads(d, q)' /\ Reads(e, q)' => d = e
    <3>1. \A d \in Call : Reads(d, q)' =>
            \/ Reads(d, q) /\ d # c
            \/ d = c /\ q = o /\ k = l /\ kind \in Kind /\ o \notin opened
      BY <1>2, <1>3, <2>1 DEF Reads, Opens
    <3>2. /\ openings[q] <= 1
          /\ q \notin opened => openings[q] = 0
          /\ \A d \in Call : Reads(d, q) => q \in opened /\ openings[q] = 0
          /\ \A d, e \in Call : Reads(d, q) /\ Reads(e, q) => d = e
      BY <2>1 DEF IInv, Openings
    <3>3. opened \subseteq opened' /\ (k = l /\ kind \in Kind => o \in opened')
      BY <1>1
    <3>4. openings' = openings
      BY <1>1
    <3> QED BY <3>1, <3>2, <3>3, <3>4
  <2> QED BY <2>0, <2>1 DEF Openings
<1>9. Gone'
  BY <1>1 DEF IInv, Gone
<1> QED BY <1>4, <1>5, <1>6, <1>7, <1>8, <1>9 DEF IInv

\* The document was read: what the call opens is opened, at most once for a worker.
LEMMA OpenStep ==
  ASSUME IInv, NEW c \in Call, Open(c)
  PROVE  IInv'
<1> DEFINE l == call[c].lease
           o == <<l, call[c].kind>>
<1>1. /\ call[c].st = "reading" /\ call' = [call EXCEPT ![c].st = "running"]
      /\ opened' = opened \cup {o} /\ openings' = [openings EXCEPT ![o] = openings[o] + 1]
      /\ UNCHANGED <<lock, accepting, left, closed, used, loading, held, armed, revoked, expired>>
  BY DEF Open, Opens
<1>2. /\ call' \in [Call -> CallRecord] /\ call'[c].st = "running" /\ call'[c].lease = l
      /\ \A d \in Call : d # c => call'[d] = call[d]
  BY <1>1, CallMoves, Types DEF IInv
<1>3. /\ Live(c) /\ Reads(c, o) /\ l \in held /\ l \in armed /\ l \notin revoked /\ l \in Lease
      /\ call[c].kind \in Kind
  BY <1>1 DEF IInv, Calls, Live, Reads, Opens, TypeOK, Openings
<1>4. o \in Lease \X Kind /\ o \in armed \X Kind
  BY <1>3
<1> HIDE DEF o, l
<1>5. openings \in [Lease \X Kind -> Nat] /\ openings[o] \in Nat
  BY <1>4 DEF IInv, TypeOK
<1>6. /\ openings' \in [Lease \X Kind -> Nat] /\ openings'[o] = openings[o] + 1
      /\ \A q \in Lease \X Kind : q # o => openings'[q] = openings[q]
  BY <1>1, <1>4, <1>5
<1>7. TypeOK'
  <2>1. opened' \subseteq armed' \X Kind
    BY <1>1, <1>4 DEF IInv, TypeOK
  <2> QED BY <1>1, <1>2, <1>6, <2>1 DEF IInv, TypeOK, CallRecord
<1>8. Serial'
  BY <1>1 DEF IInv, Serial
<1>9. Capacity'
  BY <1>1, CapacityShrinks DEF IInv
<1>10. Calls'
  BY <1>1, <1>2, <1>3 DEF IInv, Calls, Live
<1>11. Openings'
  <2>0. \A d \in Call : call'[d].st = "reading" => call'[d].kind \in Kind
    BY <1>2 DEF IInv, Openings
  <2>1. ASSUME NEW k \in Worker, NEW g \in Kind, NEW q, q = <<k, g>>
        PROVE  /\ openings'[q] <= 1
               /\ q \notin opened' => openings'[q] = 0
               /\ \A d \in Call : Reads(d, q)' => q \in opened' /\ openings'[q] = 0
               /\ \A d, e \in Call : Reads(d, q)' /\ Reads(e, q)' => d = e
    <3>1. \A d \in Call : Reads(d, q)' => Reads(d, q) /\ d # c
      BY <1>2 DEF Reads, Opens
    <3>2. /\ openings[q] <= 1
          /\ q \notin opened => openings[q] = 0
          /\ \A d \in Call : Reads(d, q) => q \in opened /\ openings[q] = 0
          /\ \A d, e \in Call : Reads(d, q) /\ Reads(e, q) => d = e
      BY <2>1 DEF IInv, Openings
    <3>3. q \in Lease \X Kind
      BY <2>1, PartyAssumption
    <3>4. CASE q = o
      <4>1. openings'[q] = 1 /\ q \in opened'
        BY <1>1, <1>3, <1>6, <3>2, <3>4
      <4>2. \A d \in Call : ~Reads(d, q)'
        BY <1>3, <3>1, <3>2, <3>4
      <4> QED BY <4>1, <4>2
    <3>5. CASE q # o
      <4>1. openings'[q] = openings[q] /\ (q \in opened' <=> q \in opened)
        BY <1>1, <1>6, <3>3, <3>5
      <4> QED BY <3>1, <3>2, <4>1
    <3> QED BY <3>4, <3>5
  <2> QED BY <2>0, <2>1 DEF Openings
<1>12. Gone'
  BY <1>1 DEF IInv, Gone
<1> QED BY <1>7, <1>8, <1>9, <1>10, <1>11, <1>12 DEF IInv

\* A call that ends, whichever way.
LEMMA EndStep ==
  ASSUME IInv, NEW c \in Call, OpenRefused(c) \/ Forward(c) \/ Unwind(c)
  PROVE  IInv'
<1>1. /\ \E s \in {"refused", "answered", "ended"} : call' = [call EXCEPT ![c].st = s]
      /\ UNCHANGED <<lock, accepting, left, closed, used, loading, held, armed, revoked, opened,
                     expired, openings>>
  <2>1. CASE OpenRefused(c)
    BY <2>1 DEF OpenRefused
  <2>2. CASE Forward(c)
    BY <2>2 DEF Forward
  <2>3. CASE Unwind(c)
    BY <2>3 DEF Unwind
  <2> QED BY <2>1, <2>2, <2>3
<1>2. PICK s \in {"refused", "answered", "ended"} : call' = [call EXCEPT ![c].st = s]
  BY <1>1
<1>3. /\ call' \in [Call -> CallRecord] /\ call'[c].st = s /\ call'[c].lease = call[c].lease
      /\ \A d \in Call : d # c => call'[d] = call[d]
  BY <1>2, CallMoves, Types DEF IInv
<1>4. TypeOK'
  BY <1>1, <1>3 DEF IInv, TypeOK, CallRecord
<1>5. Serial'
  BY <1>1 DEF IInv, Serial
<1>6. Capacity'
  BY <1>1, CapacityShrinks DEF IInv
<1>7. Calls'
  BY <1>1, <1>3 DEF IInv, Calls, Live
<1>8. Openings'
  <2>1. \A d \in Call : call'[d].st = "reading" =>
          call[d].st = "reading" /\ call'[d].kind = call[d].kind /\ call'[d].lease = call[d].lease
    BY <1>3
  <2> QED BY <1>1, <2>1, OpeningsDropped DEF IInv
<1>9. Gone'
  BY <1>1 DEF IInv, Gone
<1> QED BY <1>4, <1>5, <1>6, <1>7, <1>8, <1>9 DEF IInv

-----------------------------------------------------------------------------
\* An empty party satisfies the invariant.
LEMMA InitInvariant ==
  ASSUME Init
  PROVE  IInv
<1>1. TypeOK
  BY DEF Init, TypeOK, Free
<1>2. Serial
  BY DEF Init, Serial, Free
<1>3. Capacity
  <2>1. held \cup loading = {}
    BY DEF Init
  <2>2. MemoryOf({}) = SumBy(Memory, {})
    BY DEF MemoryOf, SumBy
  <2>3. IsFiniteSet({}) /\ Cardinality({}) = 0 /\ MemoryOf({}) = 0
    BY <2>2, FS_EmptySet, SumStep
  <2> QED BY <2>1, <2>3, PartyAssumption DEF Capacity, WithinCapacity
<1>4. Calls
  BY DEF Init, Calls, Live
<1>5. Openings
  BY PartyAssumption DEF Init, Openings, Reads
<1>6. Gone
  BY DEF Init, Gone
<1> QED BY <1>1, <1>2, <1>3, <1>4, <1>5, <1>6 DEF IInv

\* Every step of the party keeps the invariant.
LEMMA NextInvariant ==
  ASSUME IInv, [Next]_vars
  PROVE  IInv'
<1>1. CASE UNCHANGED vars
  <2>1. /\ UNCHANGED <<lock, accepting, left, closed, used, loading, held, armed>>
        /\ UNCHANGED <<revoked, opened, expired, openings, call>>
    BY <1>1 DEF vars
  <2>2. TypeOK' /\ Serial' /\ Gone'
    BY <2>1 DEF IInv, TypeOK, Serial, Gone
  <2>3. Capacity'
    BY <2>1, CapacityShrinks DEF IInv
  <2>4. Calls' /\ Openings'
    BY <2>1, CallsKept, OpeningsKept DEF IInv
  <2> QED BY <2>2, <2>3, <2>4 DEF IInv
<1>2. CASE Controller
  BY <1>2, LoadStep, BurnedStep, BurnFailsStep, ReleaseVisitStep, LockStep, EndStep DEF Controller
<1>3. ASSUME NEW l \in Lease, Reserve(l) \/ Arm(l) \/ Release(l) \/ Expire(l)
      PROVE  IInv'
  BY <1>3, LoadStep, FlagStep, ReleaseVisitStep
<1>4. CASE (\E verb \in {"none", "drain", "leave"} : Purge(verb)) \/ Close
  BY <1>4, LockStep
<1>5. ASSUME NEW c \in Call, Open(c) \/ OpenRefused(c) \/ Forward(c)
      PROVE  IInv'
  BY <1>5, OpenStep, EndStep
<1>6. ASSUME NEW c \in Call, NEW l \in Lease, NEW kind \in Kind \cup {"none"}, Enter(c, l, kind)
      PROVE  IInv'
  BY <1>6, EnterStep
<1> QED BY <1>1, <1>2, <1>3, <1>4, <1>5, <1>6 DEF Next

\* The invariant holds in every state of the party.
THEOREM Invariance == Spec => []IInv
<1>1. Init => IInv
  BY InitInvariant
<1>2. IInv /\ [Next]_vars => IInv'
  BY NextInvariant
<1> QED BY <1>1, <1>2, PTL DEF Spec

\* Capacity is never promised twice, not even while an adapter is being loaded;
\* it is free again only when the calls of the lease have unwound; and a worker's
\* lease opens at most one session (reserve, _burn).
THEOREM CapacityIsNeverOversold == Spec => []CapacityIsReal
<1>1. IInv => CapacityIsReal
  <2> SUFFICES ASSUME IInv PROVE CapacityIsReal
    OBVIOUS
  <2>1. NoCallOutlivesLease
    BY DEF IInv, Calls, NoCallOutlivesLease
  <2>2. WorkerOpensOnce
    BY DEF IInv, Openings, WorkerOpensOnce, Kind
  <2> QED BY <2>1, <2>2 DEF IInv, Capacity, CapacityIsReal
<1> QED BY <1>1, Invariance, PTL

\* A party that left holds and serves nothing, whatever waited for the lock.
THEOREM LeavingIsComplete == Spec => []LeaveDrains
<1>1. IInv => LeaveDrains
  BY DEF IInv, Calls, Gone, LeaveDrains
<1> QED BY <1>1, Invariance, PTL

-----------------------------------------------------------------------------
(* DecodeStore.  The two systems share no state and no operation.            *)
(* Files are never changed or removed while their names survive, so an index *)
(* stays readable; StoreInv adds what a commit needs between its index and   *)
(* its publication: the index it wrote is the one memory and tickets still   *)
(* describe, and all its files are on disk.                                  *)

StoreRows == UNION {Rows(p) : p \in Path}

Small(X, n) == IsFiniteSet(X) /\ Cardinality(X) <= n

\* File f of disk d holds the manifest of p, the rows r; S are the files looked at.
IsNode(d, f, p, S) == f \in S /\ d[f] = [kind |-> "node", path |-> p]
IsPage(d, f, r, S) == f \in S /\ d[f] = [kind |-> "page", row |-> r]

PagesSound(d, ps, S) == DOMAIN ps \subseteq StoreRows /\ \A r \in DOMAIN ps : IsPage(d, ps[r], r, S)

\* An index that can be read from the files S.
IndexSound(d, ns, ps, S) ==
  /\ DOMAIN ns \subseteq Path /\ Small(DOMAIN ns, MaxNodes) /\ Small(DOMAIN ps, MaxPages)
  /\ \A p \in DOMAIN ns : IsNode(d, ns[p], p, S) /\ Rows(p) \subseteq DOMAIN ps
  /\ PagesSound(d, ps, S)

HeadRecord(S) == [revision : 0 .. MaxRevision - 1, file : S]

HeadsSound(d, S) ==
  \A h \in heads : /\ h \in HeadRecord(S) /\ d[h.file].kind = "index"
                   /\ IndexSound(d, d[h.file].nodes, d[h.file].pages, S)

StoreFiles ==
  /\ created \in 0 .. MaxCreated /\ DOMAIN disk \subseteq 1 .. created /\ synced \subseteq DOMAIN disk
  /\ Cardinality(DOMAIN disk) <= MaxFiles

PathsOf(st) == {st[t].path : t \in DOMAIN st}

\* What is staged fits beside what is published, and its files are on disk.
StagedSound(d, st, ns, ps, pd) ==
  /\ \A t \in DOMAIN st : /\ st[t].path \in Path /\ IsNode(d, t, st[t].path, DOMAIN d)
                          /\ Rows(st[t].path) \subseteq DOMAIN ps \cup DOMAIN pd
  /\ PagesSound(d, pd, DOMAIN d)
  /\ Small(DOMAIN st, MaxStaged)
  /\ Small(DOMAIN ns \cup PathsOf(st), MaxNodes)
  /\ Small(DOMAIN ps \cup DOMAIN pd, MaxPages)

StoreMemory ==
  /\ open \in BOOLEAN
  /\ ~open => /\ nodes = Nothing /\ pages = Nothing /\ staged = Nothing
              /\ pending = Nothing /\ head = NoHead /\ commit = NoHead
  /\ head \in heads \cup {NoHead}
  /\ OnlyPublished

\* Between its index and its publication a commit has exactly what it will publish.
Committing ==
  commit # NoHead =>
    /\ open /\ commit.tickets \subseteq DOMAIN staged
    /\ commit.head \in HeadRecord(DOMAIN disk)
    /\ disk[commit.head.file] = [kind |-> "index", nodes |-> IndexNodes(commit.tickets),
                                 pages |-> IndexPages(commit.tickets)]

StoreInv ==
  /\ StoreFiles /\ HeadsSound(disk, synced) /\ StoreMemory /\ Committing
  /\ StagedSound(disk, staged, nodes, pages, pending)

-----------------------------------------------------------------------------
\* What the constants of a store are.
LEMMA StoreAssumed ==
  /\ MaxNodes \in Nat /\ MaxStaged \in Nat /\ MaxPages \in Nat /\ MaxFiles \in Nat
  /\ MaxRevision \in Nat /\ MaxCreated \in Nat /\ Path \subseteq Seq(Nat)
  /\ NoHead \notin [revision : Nat, file : Nat]
  /\ NoHead \notin [tickets : SUBSET Nat, head : [revision : Nat, file : Nat]]
BY StoreAssumption

\* A part of a small set is small.
LEMMA SmallPart ==
  ASSUME NEW n \in Nat, NEW X, NEW Y, Small(X, n), Y \subseteq X
  PROVE  Small(Y, n)
<1>1. IsFiniteSet(Y) /\ Cardinality(Y) <= Cardinality(X) /\ Cardinality(X) \in Nat /\ Cardinality(Y) \in Nat
  BY FS_Subset, FS_CardinalityType DEF Small
<1> QED BY <1>1 DEF Small

\* The values of a finite function are no more than its arguments.
LEMMA ValuesFew ==
  ASSUME NEW S, IsFiniteSet(S), NEW f, NEW X, X = {f[s] : s \in S}
  PROVE  IsFiniteSet(X) /\ Cardinality(X) <= Cardinality(S)
<1> DEFINE g == [s \in S |-> f[s]]
<1>1. g \in Surjection(S, X)
  BY DEF Surjection
<1> QED BY <1>1, FS_Surjection

\* A path has finitely many prefixes.
LEMMA RowsFinite ==
  ASSUME NEW p \in Path
  PROVE  IsFiniteSet(Rows(p))
<1>1. Len(p) \in Nat
  BY StoreAssumed
<1>2. IsFiniteSet(1 .. Len(p))
  BY <1>1, FS_Interval
<1> DEFINE f == [n \in 1 .. Len(p) |-> SubSeq(p, 1, n)]
<1>3. Rows(p) = {f[n] : n \in 1 .. Len(p)}
  BY DEF Rows
<1> HIDE DEF f
<1> QED BY <1>2, <1>3, ValuesFew

\* The pages of a set of rows can be named, each with a name of its own.
LEMMA NamesExist ==
  ASSUME NEW rows, IsFiniteSet(rows), created \in Nat
  PROVE  /\ (CHOOSE g \in Named(rows) : TRUE) \in Named(rows)
         /\ Cardinality(rows) \in Nat
<1>1. Cardinality(rows) \in Nat /\ ExistsBijection(1 .. Cardinality(rows), rows)
  BY FS_CardinalityType
<1>3. PICK b : b \in Bijection(1 .. Cardinality(rows), rows)
  BY <1>1 DEF ExistsBijection
<1> DEFINE at == [r \in rows |-> CHOOSE i \in 1 .. Cardinality(rows) : b[i] = r]
           f == [r \in rows |-> created + at[r]]
<1>4. \A r \in rows : at[r] \in 1 .. Cardinality(rows) /\ b[at[r]] = r
  <2>1. \A r \in rows : \E i \in 1 .. Cardinality(rows) : b[i] = r
    BY <1>3 DEF Bijection, Surjection
  <2> QED BY <2>1
<1> HIDE DEF at
<1>5. f \in [rows -> created + 1 .. created + Cardinality(rows)]
  BY <1>1, <1>4
<1>6. IsInjective(f)
  BY <1>1, <1>4 DEF IsInjective
<1>7. f \in Named(rows)
  BY <1>5, <1>6 DEF Named
<1> HIDE DEF f
<1> QED BY <1>1, <1>7

\* Disk e has what d has.
Grown(d, e) == DOMAIN d \subseteq DOMAIN e /\ \A f \in DOMAIN d : e[f] = d[f]

\* An index stays readable when its files do.
LEMMA IndexKept ==
  ASSUME NEW d, NEW e, NEW ns, NEW ps, NEW S, NEW T, IndexSound(d, ns, ps, S),
         S \subseteq T, \A f \in S : e[f] = d[f]
  PROVE  IndexSound(e, ns, ps, T)
<1>1. \A p \in DOMAIN ns : IsNode(e, ns[p], p, T)
  BY DEF IndexSound, IsNode
<1>2. \A r \in DOMAIN ps : IsPage(e, ps[r], r, T)
  BY DEF IndexSound, PagesSound, IsPage
<1> QED BY <1>1, <1>2 DEF IndexSound, PagesSound

\* So do the heads that commit has returned.
LEMMA HeadsKept ==
  ASSUME NEW d, NEW e, NEW S, NEW T, HeadsSound(d, S), S \subseteq T, \A f \in S : e[f] = d[f]
  PROVE  HeadsSound(e, T)
<1> SUFFICES ASSUME NEW h \in heads
             PROVE  /\ h \in HeadRecord(T) /\ e[h.file].kind = "index"
                    /\ IndexSound(e, e[h.file].nodes, e[h.file].pages, T)
  BY DEF HeadsSound
<1>1. /\ h \in HeadRecord(S) /\ d[h.file].kind = "index"
      /\ IndexSound(d, d[h.file].nodes, d[h.file].pages, S)
  BY DEF HeadsSound
<1>2. h \in HeadRecord(T) /\ h.file \in S /\ e[h.file] = d[h.file]
  BY <1>1 DEF HeadRecord
<1>3. IndexSound(e, d[h.file].nodes, d[h.file].pages, T)
  BY <1>1, IndexKept
<1> QED BY <1>1, <1>2, <1>3

\* And what is staged.
LEMMA StagedKept ==
  ASSUME NEW d, NEW e, NEW st, NEW ns, NEW ps, NEW pd, StagedSound(d, st, ns, ps, pd), Grown(d, e)
  PROVE  StagedSound(e, st, ns, ps, pd)
<1>1. \A t \in DOMAIN st : IsNode(e, t, st[t].path, DOMAIN e)
  BY DEF StagedSound, IsNode, Grown
<1>2. PagesSound(e, pd, DOMAIN e)
  BY DEF StagedSound, PagesSound, IsPage, Grown
<1> QED BY <1>1, <1>2 DEF StagedSound

\* The files on disk are finitely many, so that they can be counted.
LEMMA FilesFinite ==
  ASSUME NEW d, NEW m \in Nat, DOMAIN d \subseteq 1 .. m
  PROVE  IsFiniteSet(DOMAIN d) /\ Cardinality(DOMAIN d) \in Nat
<1>1. IsFiniteSet(1 .. m)
  BY FS_Interval
<1>2. IsFiniteSet(DOMAIN d)
  BY <1>1, FS_Subset
<1> QED BY <1>2, FS_CardinalityType

\* Nothing is small.
LEMMA NothingSmall ==
  /\ DOMAIN Nothing = {}
  /\ \A n \in Nat : Small({}, n)
<1>1. DOMAIN Nothing = {}
  BY DEF Nothing
<1>2. \A n \in Nat : Small({}, n)
  BY FS_EmptySet DEF Small
<1> QED BY <1>1, <1>2

\* The store's memory is what its head says, or nothing.
LEMMA CurrentSound ==
  ASSUME StoreInv
  PROVE  IndexSound(disk, nodes, pages, synced) /\ IndexSound(disk, nodes, pages, DOMAIN disk)
<1>1. IndexSound(disk, nodes, pages, synced)
  <2>1. CASE ~open \/ head = NoHead
    <3>1. nodes = Nothing /\ pages = Nothing
      BY <2>1 DEF StoreInv, StoreMemory, OnlyPublished
    <3> QED BY <3>1, NothingSmall, StoreAssumed DEF IndexSound, PagesSound
  <2>2. CASE open /\ head # NoHead
    <3>1. head \in heads /\ nodes = disk[head.file].nodes /\ pages = disk[head.file].pages
      BY <2>2 DEF StoreInv, StoreMemory, OnlyPublished
    <3> QED BY <3>1 DEF StoreInv, HeadsSound
  <2> QED BY <2>1, <2>2
<1>2. synced \subseteq DOMAIN disk
  BY DEF StoreInv, StoreFiles
<1> QED BY <1>1, <1>2, IndexKept

\* The pages of a state that is staged are written under new names.
LEMMA PagesWritten ==
  ASSUME NEW rows, IsFiniteSet(rows), created \in Nat, DOMAIN disk \subseteq 1 .. created,
         NEW f \in Named(rows), NEW e, e = Merge(disk, PageFiles(f))
  PROVE  /\ Grown(disk, e) /\ DOMAIN e \subseteq 1 .. created + Cardinality(rows)
         /\ Cardinality(DOMAIN e) <= Cardinality(DOMAIN disk) + Cardinality(rows)
         /\ DOMAIN f = rows /\ \A r \in rows : IsPage(e, f[r], r, DOMAIN e)
<1> DEFINE n == Cardinality(rows)
           X == {f[r] : r \in rows}
<1>1. n \in Nat
  BY FS_CardinalityType
<1>2. f \in [rows -> created + 1 .. created + n] /\ IsInjective(f)
  BY DEF Named
<1>3. DOMAIN f = rows /\ Range(f) = X
  BY <1>2 DEF Range
<1>4. IsFiniteSet(X) /\ Cardinality(X) <= n /\ Cardinality(X) \in Nat
  BY ValuesFew, FS_CardinalityType
<1>5. /\ PageFiles(f) = [x \in X |-> [kind |-> "page", row |-> CHOOSE r \in rows : f[r] = x]]
  BY <1>3 DEF PageFiles
<1>6. /\ DOMAIN e = DOMAIN disk \cup X
      /\ \A x \in X : e[x] = [kind |-> "page", row |-> CHOOSE r \in rows : f[r] = x]
      /\ \A x \in DOMAIN disk \ X : e[x] = disk[x]
  BY <1>5 DEF Merge
<1>7. \A x \in X : x \in created + 1 .. created + n
  BY <1>2
<1>8. \A x \in X : x \notin DOMAIN disk
  BY <1>7
<1>9. Grown(disk, e)
  BY <1>6, <1>8 DEF Grown
<1>10. DOMAIN e \subseteq 1 .. created + n
  BY <1>1, <1>6, <1>7
<1>11. Cardinality(DOMAIN e) <= Cardinality(DOMAIN disk) + n
  <2>1. IsFiniteSet(DOMAIN disk) /\ Cardinality(DOMAIN disk) \in Nat
    BY FilesFinite
  <2>2. Cardinality(DOMAIN disk \cup X) = Cardinality(DOMAIN disk) + Cardinality(X) - Cardinality(DOMAIN disk \cap X)
    BY <1>4, <2>1, FS_Union
  <2>3. Cardinality(DOMAIN disk \cap X) \in Nat
    BY <2>1, FS_Intersection, FS_CardinalityType
  <2> HIDE DEF X, n
  <2> QED BY <1>1, <1>4, <1>6, <2>1, <2>2, <2>3
<1>12. ASSUME NEW r \in rows
       PROVE  IsPage(e, f[r], r, DOMAIN e)
  <2>1. f[r] \in X
    OBVIOUS
  <2>2. (CHOOSE q \in rows : f[q] = f[r]) = r
    BY <1>2, <1>3 DEF IsInjective
  <2> QED BY <1>6, <2>1, <2>2 DEF IsPage
<1> HIDE DEF X
<1> QED BY <1>3, <1>9, <1>10, <1>11, <1>12

\* One more file, under the next name.
LEMMA FileWritten ==
  ASSUME NEW d, NEW m \in Nat, DOMAIN d \subseteq 1 .. m, NEW k, k = m + 1, NEW e, NEW g,
         e = Merge(d, g), DOMAIN g = {k}
  PROVE  /\ Grown(d, e) /\ DOMAIN e \subseteq 1 .. k /\ k \in DOMAIN e /\ e[k] = g[k]
         /\ Cardinality(DOMAIN e) <= Cardinality(DOMAIN d) + 1
<1>1. /\ DOMAIN e = DOMAIN d \cup {k} /\ e[k] = g[k]
      /\ \A x \in DOMAIN d \ {k} : e[x] = d[x]
  BY DEF Merge
<1>2. k \notin DOMAIN d /\ DOMAIN d \cup {k} \subseteq 1 .. k
  OBVIOUS
<1>3. IsFiniteSet(DOMAIN d) /\ Cardinality(DOMAIN d) \in Nat
  BY FilesFinite
<1>4. Cardinality(DOMAIN d \cup {k}) = Cardinality(DOMAIN d) + 1
  BY ONLY <1>2, <1>3, FS_AddElement
<1> QED BY <1>1, <1>2, <1>3, <1>4 DEF Grown

\* All bounds are asked before a state is staged.
LEMMA StageBounds ==
  ASSUME StoreInv, NEW path \in Path, Stageable(path)
  PROVE  LET n == Cardinality(NewRows(path)) IN
         /\ open /\ commit = NoHead /\ created \in Nat
         /\ IsFiniteSet(NewRows(path)) /\ n \in Nat
         /\ NewRows(path) = Rows(path) \ (DOMAIN pages \cup DOMAIN pending)
         /\ Cardinality(DOMAIN disk) + (n + 1) <= MaxFiles /\ created + (n + 1) <= MaxCreated
         /\ Cardinality(DOMAIN staged) < MaxStaged
         /\ Small((DOMAIN nodes \cup PathsOf(staged)) \cup {path}, MaxNodes)
         /\ Small((DOMAIN pages \cup DOMAIN pending) \cup Rows(path), MaxPages)
<1> DEFINE N == DOMAIN nodes \cup PathsOf(staged)
           P == DOMAIN pages \cup DOMAIN pending
<1>1. DOMAIN AllPages = P
  BY DEF AllPages
<1>2. /\ open /\ commit = NoHead /\ created \in Nat
      /\ NewRows(path) = Rows(path) \ P
  BY <1>1, StoreAssumed DEF Stageable, Ready, NewRows, StoreInv, StoreFiles
<1>3. IsFiniteSet(NewRows(path)) /\ IsFiniteSet(Rows(path))
  BY <1>2, RowsFinite, FS_Subset
<1>4. Cardinality(NewRows(path)) \in Nat
  BY <1>3, FS_CardinalityType
<1>5. /\ Cardinality(DOMAIN staged) < MaxStaged
      /\ Cardinality(DOMAIN disk) + (Cardinality(NewRows(path)) + 1) <= MaxFiles
      /\ created + (Cardinality(NewRows(path)) + 1) <= MaxCreated
  BY DEF Stageable, Room
<1>6. Small(N, MaxNodes) /\ Small(P, MaxPages)
  BY DEF StoreInv, StagedSound
<1>7. Small(N \cup {path}, MaxNodes)
  <2>1. N \cup {path} = DOMAIN nodes \cup {staged[t].path : t \in DOMAIN staged} \cup {path}
    BY DEF PathsOf
  <2>2. Cardinality(N \cup {path}) <= MaxNodes
    BY <2>1 DEF Stageable, NodeCount
  <2>3. IsFiniteSet(N \cup {path})
    BY <1>6, FS_AddElement DEF Small
  <2> QED BY <2>2, <2>3 DEF Small
<1>8. Small(P \cup Rows(path), MaxPages)
  <2>1. Cardinality(P \cup Rows(path)) <= MaxPages
    BY <1>1 DEF Stageable
  <2>2. IsFiniteSet(P \cup Rows(path))
    BY <1>3, <1>6, FS_Union DEF Small
  <2> QED BY <2>1, <2>2 DEF Small
<1> QED BY <1>2, <1>3, <1>4, <1>5, <1>7, <1>8

\* What is looked up does not change when files are added.
LEMMA MemoryKept ==
  ASSUME StoreInv, Grown(disk, disk'), open, UNCHANGED <<open, nodes, pages, head, heads>>
  PROVE  StoreMemory'
<1>1. head # NoHead => head.file \in DOMAIN disk
  BY DEF StoreInv, StoreMemory, HeadsSound, HeadRecord, StoreFiles
<1> QED BY <1>1 DEF StoreInv, StoreMemory, OnlyPublished, Grown

\* stage adds a ticket, its manifest, and the pages that were missing.
LEMMA StageStaged ==
  ASSUME NEW d, NEW e, NEW path \in Path, NEW rows, NEW f, NEW ticket,
         StagedSound(d, staged, nodes, pages, pending), Grown(d, e),
         NEW st, NEW g, st = Merge(staged, g), DOMAIN g = {ticket}, g[ticket].path = path,
         NEW pd, pd = Merge(pending, f),
         IsNode(e, ticket, path, DOMAIN e), DOMAIN f = rows,
         \A r \in rows : IsPage(e, f[r], r, DOMAIN e),
         rows = Rows(path) \ (DOMAIN pages \cup DOMAIN pending),
         Cardinality(DOMAIN staged) < MaxStaged,
         Small((DOMAIN nodes \cup PathsOf(staged)) \cup {path}, MaxNodes),
         Small((DOMAIN pages \cup DOMAIN pending) \cup Rows(path), MaxPages)
  PROVE  StagedSound(e, st, nodes, pages, pd)
<1>1. StagedSound(e, staged, nodes, pages, pending)
  BY StagedKept
<1>2. /\ DOMAIN st = DOMAIN staged \cup {ticket} /\ st[ticket].path = path
      /\ \A t \in DOMAIN staged \ {ticket} : st[t] = staged[t]
  BY DEF Merge
<1>3. /\ DOMAIN pd = DOMAIN pending \cup rows
      /\ \A r \in rows : pd[r] = f[r]
      /\ \A r \in DOMAIN pending \ rows : pd[r] = pending[r]
  BY DEF Merge
<1>4. \A t \in DOMAIN st : /\ st[t].path \in Path /\ IsNode(e, t, st[t].path, DOMAIN e)
                           /\ Rows(st[t].path) \subseteq DOMAIN pages \cup DOMAIN pd
  <2> SUFFICES ASSUME NEW t \in DOMAIN st
               PROVE  /\ st[t].path \in Path /\ IsNode(e, t, st[t].path, DOMAIN e)
                      /\ Rows(st[t].path) \subseteq DOMAIN pages \cup DOMAIN pd
    OBVIOUS
  <2>1. CASE t = ticket
    BY <1>2, <1>3, <2>1
  <2>2. CASE t # ticket
    BY <1>1, <1>2, <1>3, <2>2 DEF StagedSound
  <2> QED BY <2>1, <2>2
<1>5. PagesSound(e, pd, DOMAIN e)
  <2>1. DOMAIN pending \subseteq StoreRows /\ \A r \in DOMAIN pending : IsPage(e, pending[r], r, DOMAIN e)
    BY <1>1 DEF StagedSound, PagesSound
  <2>2. rows \subseteq StoreRows
    BY DEF StoreRows
  <2>3. \A r \in DOMAIN pd : IsPage(e, pd[r], r, DOMAIN e)
    BY <1>3, <2>1
  <2> QED BY <1>3, <2>1, <2>2, <2>3 DEF PagesSound
<1>6. Small(DOMAIN st, MaxStaged)
  <2>1. IsFiniteSet(DOMAIN staged) /\ Cardinality(DOMAIN staged) \in Nat
    BY <1>1, FS_CardinalityType DEF StagedSound, Small
  <2>2. /\ IsFiniteSet(DOMAIN staged \cup {ticket})
        /\ Cardinality(DOMAIN staged \cup {ticket}) \in {Cardinality(DOMAIN staged), Cardinality(DOMAIN staged) + 1}
    BY <2>1, FS_AddElement
  <2> QED BY <1>2, <2>1, <2>2, StoreAssumed DEF Small
<1>7. Small(DOMAIN nodes \cup PathsOf(st), MaxNodes)
  <2>1. PathsOf(st) \subseteq PathsOf(staged) \cup {path}
    BY <1>2 DEF PathsOf
  <2>2. DOMAIN nodes \cup PathsOf(st) \subseteq (DOMAIN nodes \cup PathsOf(staged)) \cup {path}
    BY <2>1
  <2> QED BY <2>2, SmallPart, StoreAssumed
<1>8. Small(DOMAIN pages \cup DOMAIN pd, MaxPages)
  <2>1. DOMAIN pages \cup DOMAIN pd \subseteq (DOMAIN pages \cup DOMAIN pending) \cup Rows(path)
    BY <1>3
  <2> QED BY <2>1, SmallPart, StoreAssumed
<1> QED BY <1>4, <1>5, <1>6, <1>7, <1>8 DEF StagedSound

\* stage writes the missing pages and the manifest, and then has its ticket.
LEMMA StageStep ==
  ASSUME StoreInv, NEW path \in Path, StageState(path)
  PROVE  StoreInv'
<1> DEFINE rows == NewRows(path)
           n == Cardinality(rows)
           f == CHOOSE g \in Named(rows) : TRUE
           e == Merge(disk, PageFiles(f))
           ticket == created + n + 1
<1>1. /\ open /\ commit = NoHead /\ created \in Nat /\ IsFiniteSet(rows) /\ n \in Nat
      /\ rows = Rows(path) \ (DOMAIN pages \cup DOMAIN pending)
      /\ Cardinality(DOMAIN disk) + (n + 1) <= MaxFiles /\ created + (n + 1) <= MaxCreated
      /\ Cardinality(DOMAIN staged) < MaxStaged
      /\ Small((DOMAIN nodes \cup PathsOf(staged)) \cup {path}, MaxNodes)
      /\ Small((DOMAIN pages \cup DOMAIN pending) \cup Rows(path), MaxPages)
  BY StageBounds DEF StageState
<1>2. /\ disk' = Merge(e, [t \in {ticket} |-> [kind |-> "node", path |-> path]])
      /\ created' = ticket
      /\ staged' = Merge(staged, [t \in {ticket} |-> [path |-> path]])
      /\ pending' = Merge(pending, f)
      /\ UNCHANGED <<synced, open, nodes, pages, head, commit, heads>>
  BY DEF StageState
<1>3. f \in Named(rows)
  BY <1>1, NamesExist
<1>4. /\ StoreFiles /\ HeadsSound(disk, synced) /\ StagedSound(disk, staged, nodes, pages, pending)
      /\ DOMAIN disk \subseteq 1 .. created /\ synced \subseteq DOMAIN disk
  BY DEF StoreInv, StoreFiles
<1> HIDE DEF rows, f, n
<1>5. /\ Grown(disk, e) /\ DOMAIN e \subseteq 1 .. created + n
      /\ Cardinality(DOMAIN e) <= Cardinality(DOMAIN disk) + n
      /\ DOMAIN f = rows /\ \A r \in rows : IsPage(e, f[r], r, DOMAIN e)
  BY <1>1, <1>3, <1>4, PagesWritten DEF n
<1> HIDE DEF e
<1>6. /\ Grown(e, disk') /\ DOMAIN disk' \subseteq 1 .. ticket /\ ticket \in DOMAIN disk'
      /\ disk'[ticket] = [kind |-> "node", path |-> path]
      /\ Cardinality(DOMAIN disk') <= Cardinality(DOMAIN e) + 1
  <2> DEFINE g == [t \in {ticket} |-> [kind |-> "node", path |-> path]]
           m == created + n
  <2>1. m \in Nat /\ ticket = m + 1 /\ DOMAIN e \subseteq 1 .. m
    BY <1>1, <1>5
  <2>2. DOMAIN g = {ticket} /\ g[ticket] = [kind |-> "node", path |-> path] /\ disk' = Merge(e, g)
    BY <1>2
  <2> HIDE DEF g, m, ticket
  <2> QED BY <1>5, <2>1, <2>2, FileWritten
<1>7. Grown(disk, disk')
  BY <1>5, <1>6 DEF Grown
<1>8. StoreFiles'
  <2>1. Cardinality(DOMAIN disk) \in Nat /\ Cardinality(DOMAIN e) \in Nat /\ Cardinality(DOMAIN disk') \in Nat
    <3>1. created + n \in Nat /\ ticket \in Nat
      BY <1>1
    <3> HIDE DEF ticket
    <3> QED BY <3>1, <1>1, <1>4, <1>5, <1>6, FilesFinite
  <2>2. Cardinality(DOMAIN disk') <= MaxFiles
    BY <1>1, <1>5, <1>6, <2>1, StoreAssumed
  <2>3. created' \in 0 .. MaxCreated
    BY <1>1, <1>2, StoreAssumed
  <2>4. synced' \subseteq DOMAIN disk'
    BY <1>2, <1>4, <1>7 DEF Grown
  <2> QED BY <1>2, <1>6, <2>2, <2>3, <2>4 DEF StoreFiles
<1>9. HeadsSound(disk, synced)'
  <2>1. \A x \in synced : disk'[x] = disk[x]
    BY <1>4, <1>7 DEF Grown
  <2>2. HeadsSound(disk', synced)
    BY <1>4, <2>1, HeadsKept
  <2> QED BY <1>2, <2>2 DEF HeadsSound
<1>10. StoreMemory'
  BY <1>1, <1>2, <1>7, MemoryKept
<1>11. StagedSound(disk', staged', nodes, pages, pending')
  <2>1. \A r \in rows : IsPage(disk', f[r], r, DOMAIN disk')
    BY <1>5, <1>6 DEF IsPage, Grown
  <2>2. IsNode(disk', ticket, path, DOMAIN disk')
    BY <1>6 DEF IsNode
  <2> DEFINE g == [t \in {ticket} |-> [path |-> path]]
  <2>3. DOMAIN g = {ticket} /\ g[ticket].path = path /\ staged' = Merge(staged, g)
    BY <1>2
  <2> HIDE DEF ticket, g
  <2> QED BY <1>1, <1>2, <1>4, <1>5, <1>7, <2>1, <2>2, <2>3, StageStaged
<1> QED BY <1>1, <1>2, <1>8, <1>9, <1>10, <1>11 DEF StoreInv, Committing

\* A step that only writes files.
LEMMA WrittenStep ==
  ASSUME StoreInv, open, Grown(disk, disk'), StoreFiles', Committing',
         UNCHANGED <<nodes, pages, staged, pending, head, synced, open, heads>>
  PROVE  StoreInv'
<1>1. HeadsSound(disk', synced)
  <2>1. HeadsSound(disk, synced) /\ \A x \in synced : disk'[x] = disk[x]
    BY DEF StoreInv, StoreFiles, Grown
  <2> QED BY <2>1, HeadsKept
<1>2. StoreMemory'
  BY MemoryKept
<1>3. StagedSound(disk', staged, nodes, pages, pending)
  BY StagedKept DEF StoreInv
<1> QED BY <1>1, <1>2, <1>3 DEF StoreInv, HeadsSound

\* A write that fails leaves orphans.
LEMMA StageFailsStep ==
  ASSUME StoreInv, NEW path \in Path, StageFails(path)
  PROVE  StoreInv'
<1>1. PICK m \in 0 .. Len(path), torn \in {0, 1} :
        LET rows == {r \in NewRows(path) : Len(r) <= m}
            f == CHOOSE g \in Named(rows) : TRUE
            last == created + Cardinality(rows)
        IN /\ disk' = Merge(Merge(disk, PageFiles(f)),
                            [file \in last + 1 .. last + torn |-> [kind |-> "torn"]])
           /\ created' = last + torn
  BY DEF StageFails
<1> DEFINE all == NewRows(path)
           rows == {r \in all : Len(r) <= m}
           n == Cardinality(rows)
           f == CHOOSE g \in Named(rows) : TRUE
           e == Merge(disk, PageFiles(f))
           last == created + n
           t == [file \in last + 1 .. last + torn |-> [kind |-> "torn"]]
<1>2. /\ disk' = Merge(e, t) /\ created' = last + torn
      /\ UNCHANGED <<nodes, pages, staged, pending, head, synced, open, commit, heads>>
  BY <1>1 DEF StageFails, memory
<1>3. /\ open /\ commit = NoHead /\ created \in Nat /\ IsFiniteSet(all) /\ Cardinality(all) \in Nat
      /\ Cardinality(DOMAIN disk) + (Cardinality(all) + 1) <= MaxFiles
      /\ created + (Cardinality(all) + 1) <= MaxCreated
  BY StageBounds DEF StageFails
<1>4. IsFiniteSet(rows) /\ n \in Nat /\ n <= Cardinality(all)
  <2>1. rows \subseteq all
    OBVIOUS
  <2> HIDE DEF rows, all
  <2> QED BY <1>3, <2>1, FS_Subset, FS_CardinalityType
<1>5. f \in Named(rows)
  BY <1>3, <1>4, NamesExist
<1>6. StoreFiles /\ DOMAIN disk \subseteq 1 .. created
  BY DEF StoreInv, StoreFiles
<1> HIDE DEF rows, f, all
<1>7. /\ Grown(disk, e) /\ DOMAIN e \subseteq 1 .. last
      /\ Cardinality(DOMAIN e) <= Cardinality(DOMAIN disk) + n
  BY <1>2, <1>3, <1>4, <1>5, <1>6, PagesWritten
<1> HIDE DEF e, n
<1>8. /\ Grown(e, disk') /\ DOMAIN disk' \subseteq 1 .. last + torn
      /\ Cardinality(DOMAIN disk') <= Cardinality(DOMAIN e) + torn
  <2>1. last \in Nat
    BY <1>3, <1>4
  <2>2. IsFiniteSet(DOMAIN e) /\ Cardinality(DOMAIN e) \in Nat
    <3> HIDE DEF last
    <3> QED BY <1>7, <2>1, FilesFinite
  <2>3. CASE torn = 0
    <3>1. DOMAIN t = {}
      BY <2>1, <2>3
    <3>2. DOMAIN disk' = DOMAIN e /\ \A x \in DOMAIN e : disk'[x] = e[x]
      BY <1>2, <3>1 DEF Merge
    <3> QED BY <1>7, <2>1, <2>2, <2>3, <3>2 DEF Grown
  <2>4. CASE torn = 1
    <3>1. DOMAIN t = {last + 1}
      BY <2>1, <2>4
    <3> HIDE DEF t, last
    <3>2. /\ Grown(e, disk') /\ DOMAIN disk' \subseteq 1 .. (last + 1)
          /\ Cardinality(DOMAIN disk') <= Cardinality(DOMAIN e) + 1
      <4> DEFINE k == last + 1
      <4>1. k = last + 1 /\ disk' = Merge(e, t) /\ DOMAIN t = {k} /\ DOMAIN e \subseteq 1 .. last
        BY <1>2, <1>7, <3>1
      <4> HIDE DEF k
      <4>2. /\ Grown(e, disk') /\ DOMAIN disk' \subseteq 1 .. k
            /\ Cardinality(DOMAIN disk') <= Cardinality(DOMAIN e) + 1
        BY <2>1, <4>1, FileWritten, Zenon
      <4> QED BY <4>1, <4>2
    <3> QED BY <2>4, <3>2
  <2> QED BY <2>3, <2>4
<1>9. Grown(disk, disk')
  BY <1>7, <1>8 DEF Grown
<1>10. StoreFiles'
  <2>1. /\ Cardinality(DOMAIN disk) \in Nat /\ Cardinality(DOMAIN e) \in Nat
        /\ Cardinality(DOMAIN disk') \in Nat
    <3>1. last \in Nat /\ last + torn \in Nat
      BY <1>3, <1>4
    <3> HIDE DEF last
    <3> QED BY <1>3, <1>6, <1>7, <1>8, <3>1, FilesFinite
  <2>2. Cardinality(DOMAIN disk') <= MaxFiles
    <3> DEFINE a == Cardinality(DOMAIN disk)
               b == Cardinality(DOMAIN e)
               c == Cardinality(DOMAIN disk')
               k == Cardinality(all)
    <3>1. /\ a \in Nat /\ b \in Nat /\ c \in Nat /\ k \in Nat /\ n \in Nat /\ MaxFiles \in Nat
          /\ a + (k + 1) <= MaxFiles /\ n <= k /\ b <= a + n /\ c <= b + torn
      BY <1>3, <1>4, <1>7, <1>8, <2>1, StoreAssumed
    <3> HIDE DEF a, b, c, k
    <3>2. c <= MaxFiles
      BY <3>1
    <3> QED BY <3>2 DEF c
  <2>3. created' \in 0 .. MaxCreated
    BY <1>2, <1>3, <1>4, StoreAssumed
  <2>4. synced' \subseteq DOMAIN disk'
    BY <1>2, <1>6, <1>9 DEF Grown, StoreFiles
  <2> QED BY <1>2, <1>8, <2>2, <2>3, <2>4 DEF StoreFiles
<1> QED BY <1>2, <1>3, <1>9, <1>10, WrittenStep DEF Committing

\* A revision follows those that were published.
LEMMA RevisionNext ==
  ASSUME StoreInv, NextRevision < MaxRevision
  PROVE  NextRevision \in 0 .. MaxRevision - 1
<1>1. head # NoHead => head.revision \in Nat
  BY StoreAssumed DEF StoreInv, StoreMemory, HeadsSound, HeadRecord
<1>2. NextRevision \in Nat
  BY <1>1 DEF NextRevision
<1> QED BY <1>2, StoreAssumed

\* commit writes the index of what it will publish.
LEMMA CommitWritesStep ==
  ASSUME StoreInv, NEW tickets \in SUBSET DOMAIN staged, CommitWrites(tickets)
  PROVE  StoreInv'
<1> DEFINE index == [kind |-> "index", nodes |-> IndexNodes(tickets), pages |-> IndexPages(tickets)]
           g == [f \in {created + 1} |-> index]
           new == [revision |-> NextRevision, file |-> created + 1]
<1>1. /\ open /\ created' = created + 1 /\ disk' = Merge(disk, g)
      /\ commit' = [tickets |-> tickets, head |-> new]
      /\ UNCHANGED <<nodes, pages, staged, pending, head, synced, open, heads>>
      /\ Cardinality(DOMAIN disk) + 1 <= MaxFiles /\ created + 1 <= MaxCreated
  <2>1. disk' = Merge(disk, g)
    BY DEF CommitWrites
  <2>2. /\ open /\ created' = created + 1 /\ commit' = [tickets |-> tickets, head |-> new]
        /\ UNCHANGED <<nodes, pages, staged, pending, head, synced, open, heads>>
    BY DEF CommitWrites, Ready, memory
  <2>3. Cardinality(DOMAIN disk) + 1 <= MaxFiles /\ created + 1 <= MaxCreated
    BY DEF CommitWrites, Room
  <2> QED BY <2>1, <2>2, <2>3
<1>2. DOMAIN g = {created + 1} /\ g[created + 1] = index
  OBVIOUS
<1>3. created \in Nat /\ DOMAIN disk \subseteq 1 .. created /\ synced \subseteq DOMAIN disk
  BY StoreAssumed DEF StoreInv, StoreFiles
<1> HIDE DEF g
<1>4. /\ Grown(disk, disk') /\ DOMAIN disk' \subseteq 1 .. created + 1 /\ created + 1 \in DOMAIN disk'
      /\ disk'[created + 1] = g[created + 1]
      /\ Cardinality(DOMAIN disk') <= Cardinality(DOMAIN disk) + 1
  <2> DEFINE k == created + 1
  <2>1. disk' = Merge(disk, g) /\ DOMAIN g = {k} /\ k = created + 1
    BY <1>1, <1>2
  <2> HIDE DEF index, new, k
  <2>2. /\ Grown(disk, disk') /\ DOMAIN disk' \subseteq 1 .. k /\ k \in DOMAIN disk' /\ disk'[k] = g[k]
        /\ Cardinality(DOMAIN disk') <= Cardinality(DOMAIN disk) + 1
    BY ONLY <1>3, <2>1, FileWritten
  <2> QED BY <2>1, <2>2
<1>5. StoreFiles'
  <2>1. Cardinality(DOMAIN disk) \in Nat /\ Cardinality(DOMAIN disk') \in Nat
    <3>1. created + 1 \in Nat
      BY <1>3
    <3> QED BY <1>3, <1>4, <3>1, FilesFinite
  <2>2. Cardinality(DOMAIN disk') <= MaxFiles
    BY <1>1, <1>4, <2>1, StoreAssumed
  <2>3. created' \in 0 .. MaxCreated /\ synced' \subseteq DOMAIN disk'
    BY <1>1, <1>3, <1>4, StoreAssumed DEF Grown
  <2> QED BY <1>1, <1>4, <2>2, <2>3 DEF StoreFiles
<1>6. Committing'
  <2>1. NextRevision \in 0 .. MaxRevision - 1
    BY RevisionNext DEF CommitWrites
  <2>2. new \in HeadRecord(DOMAIN disk')
    BY <1>4, <2>1 DEF HeadRecord
  <2>3. disk'[created + 1] = index
    BY <1>2, <1>4
  <2>4. /\ IndexNodes(tickets)' = IndexNodes(tickets)
        /\ IndexPages(tickets)' = IndexPages(tickets)
    BY <1>1 DEF IndexNodes, IndexPages, AllPages, Merge
  <2>5. commit'.tickets = tickets /\ commit'.head = new /\ new.file = created + 1
    BY <1>1
  <2>6. /\ IndexNodes(commit.tickets)' = IndexNodes(tickets)'
        /\ IndexPages(commit.tickets)' = IndexPages(tickets)'
    BY <2>5 DEF IndexNodes, IndexPages, AllPages, Merge
  <2> QED BY <1>1, <2>2, <2>3, <2>4, <2>5, <2>6 DEF Committing
<1> QED BY <1>1, <1>4, <1>5, <1>6, WrittenStep

\* What a discard leaves can still be committed: pages are kept while anything
\* is staged, unless they are published.
LEMMA DiscardSound ==
  ASSUME NEW d, NEW ns, NEW ps, StagedSound(d, staged, ns, ps, pending),
         NEW tickets, Discarded(tickets, DOMAIN ps)
  PROVE  StagedSound(d, staged', ns, ps, pending')
<1> DEFINE kept == DOMAIN staged \ tickets
<1>1. /\ DOMAIN staged' = kept /\ \A t \in kept : staged'[t] = staged[t]
  BY DEF Discarded, Restrict
<1>2. /\ kept = {} => pending' = Nothing
      /\ kept # {} => /\ DOMAIN pending' = DOMAIN pending \ DOMAIN ps
                      /\ \A r \in DOMAIN pending' : pending'[r] = pending[r]
  BY DEF Discarded, Kept, Restrict
<1>3. /\ DOMAIN pending' \subseteq DOMAIN pending /\ \A r \in DOMAIN pending' : pending'[r] = pending[r]
      /\ kept # {} => DOMAIN ps \cup DOMAIN pending' = DOMAIN ps \cup DOMAIN pending
  BY <1>2, NothingSmall
<1> HIDE DEF kept
<1>4. \A t \in DOMAIN staged' : /\ staged'[t].path \in Path /\ IsNode(d, t, staged'[t].path, DOMAIN d)
                                /\ Rows(staged'[t].path) \subseteq DOMAIN ps \cup DOMAIN pending'
  BY <1>1, <1>3 DEF StagedSound, kept
<1>5. PagesSound(d, pending', DOMAIN d)
  BY <1>3 DEF StagedSound, PagesSound
<1>6. Small(DOMAIN staged', MaxStaged)
  <2>1. DOMAIN staged' \subseteq DOMAIN staged /\ Small(DOMAIN staged, MaxStaged)
    BY <1>1 DEF StagedSound, kept
  <2> QED BY <2>1, SmallPart, StoreAssumed
<1>7. Small(DOMAIN ns \cup PathsOf(staged'), MaxNodes)
  <2>1. PathsOf(staged') \subseteq PathsOf(staged) /\ Small(DOMAIN ns \cup PathsOf(staged), MaxNodes)
    BY <1>1 DEF StagedSound, PathsOf, kept
  <2>2. DOMAIN ns \cup PathsOf(staged') \subseteq DOMAIN ns \cup PathsOf(staged)
    BY <2>1
  <2> QED BY <2>1, <2>2, SmallPart, StoreAssumed
<1>8. Small(DOMAIN ps \cup DOMAIN pending', MaxPages)
  <2>1. Small(DOMAIN ps \cup DOMAIN pending, MaxPages)
    BY DEF StagedSound
  <2>2. DOMAIN ps \cup DOMAIN pending' \subseteq DOMAIN ps \cup DOMAIN pending
    BY <1>3
  <2> QED BY <2>1, <2>2, SmallPart, StoreAssumed
<1> QED BY <1>4, <1>5, <1>6, <1>7, <1>8 DEF StagedSound

\* The index a commit writes can be read, from the files that are on disk then.
LEMMA IndexPublished ==
  ASSUME StoreInv, NEW tickets \in SUBSET DOMAIN staged
  PROVE  LET ns == IndexNodes(tickets)
             ps == IndexPages(tickets)
         IN  IndexSound(disk, ns, ps, DOMAIN disk) /\ StagedSound(disk, staged, ns, ps, pending)
<1> DEFINE ns == IndexNodes(tickets)
           ps == IndexPages(tickets)
           new == {staged[t].path : t \in tickets}
           U == UNION {Rows(staged[t].path) : t \in tickets}
<1>1. /\ IndexSound(disk, nodes, pages, DOMAIN disk)
      /\ StagedSound(disk, staged, nodes, pages, pending)
  BY CurrentSound DEF StoreInv
<1>2. /\ DOMAIN ns = DOMAIN nodes \cup new
      /\ \A p \in new : ns[p] = CHOOSE t \in tickets : staged[t].path = p
      /\ \A p \in DOMAIN nodes \ new : ns[p] = nodes[p]
  BY DEF IndexNodes, Merge
<1>3. /\ DOMAIN ps = DOMAIN pages \cup U
      /\ \A r \in U : ps[r] = AllPages[r]
      /\ \A r \in DOMAIN pages \ U : ps[r] = pages[r]
  BY DEF IndexPages, Merge, Restrict
<1>4. U \subseteq DOMAIN pages \cup DOMAIN pending
  BY <1>1 DEF StagedSound
<1>5. \A r \in DOMAIN pages \cup DOMAIN pending :
        AllPages[r] = IF r \in DOMAIN pending THEN pending[r] ELSE pages[r]
  BY DEF AllPages
<1>6. \A p \in new : ns[p] \in tickets /\ staged[ns[p]].path = p /\ Rows(p) \subseteq U
  BY <1>2
<1> HIDE DEF ns, ps, new, U
<1>7. new \subseteq PathsOf(staged) /\ new \subseteq Path
  BY <1>1 DEF new, PathsOf, StagedSound
<1>8. Small(DOMAIN ns, MaxNodes) /\ Small(DOMAIN ns \cup PathsOf(staged), MaxNodes)
  <2>1. /\ DOMAIN ns \subseteq DOMAIN nodes \cup PathsOf(staged)
        /\ DOMAIN ns \cup PathsOf(staged) \subseteq DOMAIN nodes \cup PathsOf(staged)
    BY <1>2, <1>7
  <2>2. Small(DOMAIN nodes \cup PathsOf(staged), MaxNodes)
    BY <1>1 DEF StagedSound
  <2> QED BY <2>1, <2>2, SmallPart, StoreAssumed
<1>9. Small(DOMAIN ps, MaxPages) /\ Small(DOMAIN ps \cup DOMAIN pending, MaxPages)
  <2>1. /\ DOMAIN ps \subseteq DOMAIN pages \cup DOMAIN pending
        /\ DOMAIN ps \cup DOMAIN pending \subseteq DOMAIN pages \cup DOMAIN pending
    BY <1>3, <1>4
  <2>2. Small(DOMAIN pages \cup DOMAIN pending, MaxPages)
    BY <1>1 DEF StagedSound
  <2> QED BY <2>1, <2>2, SmallPart, StoreAssumed
<1>10. \A p \in DOMAIN ns : IsNode(disk, ns[p], p, DOMAIN disk) /\ Rows(p) \subseteq DOMAIN ps
  <2> SUFFICES ASSUME NEW p \in DOMAIN ns
               PROVE  IsNode(disk, ns[p], p, DOMAIN disk) /\ Rows(p) \subseteq DOMAIN ps
    OBVIOUS
  <2>1. CASE p \in new
    BY <1>1, <1>3, <1>6, <2>1 DEF StagedSound
  <2>2. CASE p \notin new
    BY <1>1, <1>2, <1>3, <2>2 DEF IndexSound
  <2> QED BY <2>1, <2>2
<1>11. PagesSound(disk, ps, DOMAIN disk)
  <2>1. DOMAIN ps \subseteq StoreRows
    BY <1>1, <1>3, <1>4 DEF IndexSound, StagedSound, PagesSound
  <2>2. ASSUME NEW r \in DOMAIN ps
        PROVE  IsPage(disk, ps[r], r, DOMAIN disk)
    <3>1. (ps[r] = pages[r] /\ r \in DOMAIN pages) \/ (ps[r] = pending[r] /\ r \in DOMAIN pending)
      <4>1. CASE r \in U
        <5>1. ps[r] = AllPages[r] /\ r \in DOMAIN pages \cup DOMAIN pending
          BY <1>3, <1>4, <4>1
        <5> QED BY <1>5, <5>1
      <4>2. CASE r \notin U
        BY <1>3, <4>2
      <4> QED BY <4>1, <4>2
    <3> QED BY <1>1, <3>1 DEF IndexSound, StagedSound, PagesSound
  <2> QED BY <2>1, <2>2 DEF PagesSound
<1>12. IndexSound(disk, ns, ps, DOMAIN disk)
  BY <1>1, <1>2, <1>7, <1>8, <1>9, <1>10, <1>11 DEF IndexSound
<1>13. StagedSound(disk, staged, ns, ps, pending)
  BY <1>1, <1>3, <1>4, <1>8, <1>9 DEF StagedSound
<1> QED BY <1>12, <1>13 DEF ns, ps

\* discard, and a commit that a limit refuses, touch no file.
LEMMA DiscardStep ==
  ASSUME StoreInv, NEW tickets, Discard(tickets)
  PROVE  StoreInv'
<1>1. /\ open /\ commit = NoHead /\ Discarded(tickets, DOMAIN pages)
      /\ UNCHANGED <<disk, synced, created, open, nodes, pages, head, commit, heads>>
  BY DEF Discard, Ready
<1>2. StagedSound(disk, staged', nodes, pages, pending')
  BY <1>1, DiscardSound DEF StoreInv
<1>3. StoreFiles' /\ HeadsSound(disk, synced)' /\ StoreMemory' /\ Committing'
  BY <1>1 DEF StoreInv, StoreFiles, HeadsSound, StoreMemory, Committing, OnlyPublished
<1> QED BY <1>1, <1>2, <1>3 DEF StoreInv

\* The sync publishes the index: all its files are durable when its head is returned.
LEMMA CommitPublishesStep ==
  ASSUME StoreInv, CommitPublishes
  PROVE  StoreInv'
<1> DEFINE ns == IndexNodes(commit.tickets)
           ps == IndexPages(commit.tickets)
<1>1. /\ open /\ commit # NoHead /\ synced' = DOMAIN disk
      /\ nodes' = disk[commit.head.file].nodes /\ pages' = disk[commit.head.file].pages
      /\ head' = commit.head /\ heads' = heads \cup {commit.head} /\ commit' = NoHead
      /\ Discarded(commit.tickets, DOMAIN pages') /\ UNCHANGED <<disk, created, open>>
  BY DEF CommitPublishes
<1>2. /\ commit.tickets \in SUBSET DOMAIN staged /\ commit.head \in HeadRecord(DOMAIN disk)
      /\ disk[commit.head.file] = [kind |-> "index", nodes |-> ns, pages |-> ps]
  BY <1>1 DEF StoreInv, Committing
<1> HIDE DEF ns, ps
<1>3. nodes' = ns /\ pages' = ps /\ disk[commit.head.file].kind = "index"
  BY <1>1, <1>2
<1>4. IndexSound(disk, ns, ps, DOMAIN disk) /\ StagedSound(disk, staged, ns, ps, pending)
  BY <1>2, IndexPublished DEF ns, ps
<1>5. StagedSound(disk, staged', ns, ps, pending')
  BY <1>1, <1>3, <1>4, DiscardSound
<1>6. StoreFiles'
  BY <1>1 DEF StoreInv, StoreFiles
<1>7. HeadsSound(disk, synced)'
  <2>1. HeadsSound(disk, DOMAIN disk)
    BY HeadsKept DEF StoreInv, StoreFiles
  <2>2. \A h \in heads' : /\ h \in HeadRecord(DOMAIN disk) /\ disk[h.file].kind = "index"
                          /\ IndexSound(disk, disk[h.file].nodes, disk[h.file].pages, DOMAIN disk)
    BY <1>1, <1>2, <1>3, <1>4, <2>1 DEF HeadsSound
  <2> QED BY <1>1, <2>2 DEF HeadsSound
<1>8. StoreMemory'
  <2>1. commit.head \in [revision : Nat, file : Nat]
    <3>1. commit.head \in [revision : 0 .. MaxRevision - 1, file : DOMAIN disk]
      BY <1>2 DEF HeadRecord
    <3>2. DOMAIN disk \subseteq Nat /\ 0 .. MaxRevision - 1 \subseteq Nat
      BY StoreAssumed DEF StoreInv, StoreFiles
    <3> QED BY <3>1, <3>2
  <2>2. head' # NoHead /\ head' \in heads'
    BY <1>1, <2>1, StoreAssumed
  <2>3. OnlyPublished'
    BY <1>1, <2>2 DEF OnlyPublished
  <2> QED BY <1>1, <2>2, <2>3 DEF StoreMemory, StoreInv
<1> QED BY <1>1, <1>3, <1>5, <1>6, <1>7, <1>8 DEF StoreInv, Committing

\* A commit that fails publishes nothing and keeps what was published.
LEMMA CommitFailsStep ==
  ASSUME StoreInv, CommitFails
  PROVE  StoreInv'
<1>1. /\ open /\ commit' = NoHead /\ Discarded(commit.tickets, DOMAIN pages)
      /\ UNCHANGED <<disk, synced, created, open, nodes, pages, head, heads>>
  BY DEF CommitFails
<1>2. StagedSound(disk, staged', nodes, pages, pending')
  BY <1>1, DiscardSound DEF StoreInv
<1>3. StoreFiles' /\ HeadsSound(disk, synced)' /\ StoreMemory' /\ Committing'
  BY <1>1 DEF StoreInv, StoreFiles, HeadsSound, StoreMemory, Committing, OnlyPublished
<1> QED BY <1>1, <1>2, <1>3 DEF StoreInv

\* With nothing staged, what can be read is all there is.
LEMMA NothingStaged ==
  ASSUME NEW d, NEW ns, NEW ps, IndexSound(d, ns, ps, DOMAIN d)
  PROVE  StagedSound(d, Nothing, ns, ps, Nothing)
<1>1. DOMAIN Nothing = {} /\ PathsOf(Nothing) = {} /\ Small({}, MaxStaged)
  BY NothingSmall, StoreAssumed DEF PathsOf
<1>2. DOMAIN ns \cup {} = DOMAIN ns /\ DOMAIN ps \cup {} = DOMAIN ps
  OBVIOUS
<1> QED BY <1>1, <1>2 DEF StagedSound, PagesSound, IndexSound

\* _restore_head shows nothing, or a head that was returned, or what it showed.
LEMMA RestoreHeadStep ==
  ASSUME StoreInv, NEW previous \in heads \cup {NoHead}, RestoreHead(previous)
  PROVE  StoreInv'
<1>1. /\ open /\ commit = NoHead /\ staged' = Nothing /\ pending' = Nothing
      /\ UNCHANGED <<disk, synced, created, open, commit, heads>>
  BY DEF RestoreHead, Ready
<1>2. \/ previous = NoHead /\ nodes' = Nothing /\ pages' = Nothing /\ head' = NoHead
      \/ /\ previous # NoHead /\ previous \in heads /\ head' = previous
         /\ nodes' = disk[previous.file].nodes /\ pages' = disk[previous.file].pages
      \/ UNCHANGED <<nodes, pages, head>>
  BY DEF RestoreHead
<1>3. StoreFiles' /\ HeadsSound(disk, synced)' /\ Committing'
  BY <1>1 DEF StoreInv, StoreFiles, HeadsSound, Committing
<1>4. StoreMemory'
  BY <1>1, <1>2 DEF StoreInv, StoreMemory, OnlyPublished
<1>5. IndexSound(disk, nodes', pages', DOMAIN disk)
  <2>1. CASE UNCHANGED <<nodes, pages>>
    BY <2>1, CurrentSound
  <2>2. CASE previous \in heads /\ nodes' = disk[previous.file].nodes /\ pages' = disk[previous.file].pages
    <3>1. IndexSound(disk, nodes', pages', synced) /\ synced \subseteq DOMAIN disk
      BY <2>2 DEF StoreInv, HeadsSound, StoreFiles
    <3> QED BY <3>1, IndexKept
  <2>3. CASE nodes' = Nothing /\ pages' = Nothing
    BY <2>3, NothingSmall, StoreAssumed DEF IndexSound, PagesSound
  <2> QED BY <1>2, <2>1, <2>2, <2>3
<1>6. StagedSound(disk, staged', nodes', pages', pending')
  BY <1>1, <1>5, NothingStaged
<1> QED BY <1>1, <1>3, <1>4, <1>6 DEF StoreInv

\* What a process forgets, and what a crash takes with it.
LEMMA ForgetsStep ==
  ASSUME StoreInv, CloseStore \/ Crash
  PROVE  StoreInv'
<1>1. /\ Forgets /\ UNCHANGED <<synced, created, heads>>
      /\ DOMAIN disk' \subseteq DOMAIN disk /\ synced \subseteq DOMAIN disk'
      /\ \A x \in synced : disk'[x] = disk[x]
  <2>1. CASE CloseStore
    BY <2>1 DEF CloseStore, StoreInv, StoreFiles
  <2>2. CASE Crash
    <3>1. PICK lost \in SUBSET (DOMAIN disk \ synced) : disk' = Restrict(disk, DOMAIN disk \ lost)
      BY <2>2 DEF Crash
    <3>2. synced \subseteq DOMAIN disk
      BY DEF StoreInv, StoreFiles
    <3> QED BY <2>2, <3>1, <3>2 DEF Crash, Restrict
  <2> QED BY <2>1, <2>2
<1>2. StoreFiles'
  <2>1. created \in Nat /\ DOMAIN disk \subseteq 1 .. created /\ Cardinality(DOMAIN disk) <= MaxFiles
    BY StoreAssumed DEF StoreInv, StoreFiles
  <2>2. Small(DOMAIN disk, MaxFiles)
    BY <2>1, FilesFinite DEF Small
  <2>3. Cardinality(DOMAIN disk') <= MaxFiles
    BY <1>1, <2>2, SmallPart, StoreAssumed DEF Small
  <2> QED BY <1>1, <2>1, <2>3 DEF StoreInv, StoreFiles
<1>3. HeadsSound(disk, synced)'
  <2>1. HeadsSound(disk', synced)
    BY <1>1, HeadsKept DEF StoreInv
  <2> QED BY <1>1, <2>1 DEF HeadsSound
<1>4. StoreMemory' /\ Committing'
  BY <1>1 DEF Forgets, StoreMemory, Committing, OnlyPublished
<1>5. StagedSound(disk', staged', nodes', pages', pending')
  <2>1. /\ nodes' = Nothing /\ pages' = Nothing /\ staged' = Nothing
        /\ pending' = Nothing
    BY <1>1 DEF Forgets
  <2>2. IndexSound(disk', Nothing, Nothing, DOMAIN disk')
    BY NothingSmall, StoreAssumed DEF IndexSound, PagesSound
  <2> QED BY <2>1, <2>2, NothingStaged
<1> QED BY <1>2, <1>3, <1>4, <1>5 DEF StoreInv

\* A process that opens the store shows the head it was given.
LEMMA StoreOpenStep ==
  ASSUME StoreInv, NEW h \in heads, OpenStore(h)
  PROVE  StoreInv'
<1>1. /\ ~open /\ open' = TRUE /\ head' = h
      /\ nodes' = disk[h.file].nodes /\ pages' = disk[h.file].pages
      /\ UNCHANGED <<disk, synced, created, staged, pending, commit, heads>>
  BY DEF OpenStore
<1>2. staged = Nothing /\ pending = Nothing /\ commit = NoHead
  BY <1>1 DEF StoreInv, StoreMemory
<1>3. StoreFiles' /\ HeadsSound(disk, synced)' /\ Committing'
  BY <1>1, <1>2 DEF StoreInv, StoreFiles, HeadsSound, Committing
<1>4. h # NoHead
  <2>1. h \in [revision : 0 .. MaxRevision - 1, file : synced] /\ synced \subseteq Nat
    <3>1. h \in [revision : 0 .. MaxRevision - 1, file : synced]
      BY DEF StoreInv, HeadsSound, HeadRecord
    <3>2. synced \subseteq Nat
      BY StoreAssumed DEF StoreInv, StoreFiles
    <3> QED BY <3>1, <3>2
  <2>2. 0 .. MaxRevision - 1 \subseteq Nat
    BY StoreAssumed
  <2>3. h \in [revision : Nat, file : Nat]
    BY ONLY <2>1, <2>2
  <2> QED BY <2>3, StoreAssumed
<1>5. StoreMemory'
  BY <1>1, <1>4 DEF StoreMemory, OnlyPublished
<1>6. StagedSound(disk, staged, nodes', pages', pending)
  <2>1. IndexSound(disk, nodes', pages', synced) /\ synced \subseteq DOMAIN disk
    BY <1>1 DEF StoreInv, HeadsSound, StoreFiles
  <2>2. IndexSound(disk, nodes', pages', DOMAIN disk)
    BY <2>1, IndexKept
  <2> QED BY <1>2, <2>2, NothingStaged
<1> QED BY <1>1, <1>3, <1>5, <1>6 DEF StoreInv

\* The invariant holds of a store in a new directory.
LEMMA StoreStart ==
  ASSUME StoreInit
  PROVE  StoreInv
<1> USE NothingSmall, StoreAssumed DEF StoreInit
<1>1. StoreFiles
  BY FS_EmptySet DEF StoreFiles
<1>2. HeadsSound(disk, synced) /\ StoreMemory /\ Committing
  BY DEF HeadsSound, StoreMemory, Committing, OnlyPublished
<1>3. StagedSound(disk, staged, nodes, pages, pending)
  <2>1. IndexSound(disk, Nothing, Nothing, DOMAIN disk)
    BY DEF IndexSound, PagesSound
  <2> QED BY <2>1, NothingStaged
<1> QED BY <1>1, <1>2, <1>3 DEF StoreInv

\* Every step of the store keeps the invariant.
LEMMA StoreStep ==
  ASSUME StoreInv, [StoreNext]_(storeVars)
  PROVE  StoreInv'
<1>1. CASE UNCHANGED storeVars
  BY <1>1 DEF storeVars, memory, StoreInv, StoreFiles, HeadsSound, StoreMemory, Committing,
              OnlyPublished, IndexNodes, IndexPages, AllPages
<1>2. CASE StoreNext
  BY <1>2, StageStep, StageFailsStep, DiscardStep, CommitWritesStep, CommitPublishesStep,
     CommitFailsStep, RestoreHeadStep, ForgetsStep, StoreOpenStep DEF StoreNext
<1> QED BY <1>1, <1>2

\* StoreInv is an invariant, for all paths and limits.
LEMMA StoreInvariant == StoreSpec => []StoreInv
<1>1. StoreInit => StoreInv
  BY StoreStart
<1>2. StoreInv /\ [StoreNext]_(storeVars) => StoreInv'
  BY StoreStep
<1> QED BY <1>1, <1>2, PTL DEF StoreSpec

\* For all token paths and limits of a store: every head that commit returned can
\* be opened and read after any crash, failed commit or rollback, every staged state
\* finds the rows it shares, and no limit is exceeded (stage, commit, discard).
THEOREM StoreNeverDangles == StoreSpec => []NothingDangles
<1>1. ASSUME StoreInv PROVE NothingDangles
  <2>1. /\ StoreFiles /\ HeadsSound(disk, synced) /\ StoreMemory
        /\ StagedSound(disk, staged, nodes, pages, pending)
        /\ IndexSound(disk, nodes, pages, DOMAIN disk) /\ DOMAIN AllPages = DOMAIN pages \cup DOMAIN pending
    BY <1>1, CurrentSound DEF StoreInv, AllPages
  <2>2. StoreTypeOK
    BY <2>1
       DEF StoreTypeOK, StoreFiles, HeadsSound, HeadRecord, StoreMemory, StagedSound, IndexSound,
           PagesSound, Small, StoreRows
  <2>3. HeadsReadable
    <3> SUFFICES ASSUME NEW h \in heads
                 PROVE  h.file \in DOMAIN disk /\ disk[h.file].kind = "index" /\ Readable(disk[h.file])
      BY DEF HeadsReadable
    <3>1. /\ h.file \in DOMAIN disk /\ disk[h.file].kind = "index" /\ synced \subseteq DOMAIN disk
          /\ IndexSound(disk, disk[h.file].nodes, disk[h.file].pages, synced)
      BY <2>1 DEF HeadsSound, HeadRecord, StoreFiles
    <3>2. Readable(disk[h.file])
      BY <3>1 DEF Readable, IndexSound, PagesSound, IsNode, IsPage
    <3> QED BY <3>1, <3>2
  <2>4. StagedIsBacked
    <3>1. \A t \in DOMAIN staged : Rows(staged[t].path) \subseteq DOMAIN AllPages
      BY <2>1 DEF StagedSound
    <3>2. \A r \in DOMAIN AllPages : AllPages[r] \in DOMAIN disk
      BY <2>1 DEF AllPages, StagedSound, IndexSound, PagesSound, IsPage
    <3> QED BY <3>1, <3>2 DEF StagedIsBacked
  <2> QED BY <2>2, <2>3, <2>4 DEF NothingDangles
<1>2. StoreInv => NothingDangles
  BY <1>1
<1> QED BY <1>2, StoreInvariant, PTL

\* For all token paths and limits of a store: what can be looked up is exactly
\* what the index of its head says, whatever is staged, discarded or failed (commit).
THEOREM StoreShowsOnlyPublished == StoreSpec => []OnlyPublished
<1>1. StoreInv => OnlyPublished
  BY DEF StoreInv, StoreMemory
<1> QED BY <1>1, StoreInvariant, PTL
=============================================================================
