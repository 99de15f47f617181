------------------------ MODULE ClientActivity_proofs ------------------------
(***************************************************************************)
(* Online execution and preparation never overlap, and inventories are     *)
(* kept from their issue to their end, for any number of responses, callers*)
(* and inventories.  NeverOverlap is not inductive: it must be known that  *)
(* the gates count exactly the responses that are in the section they      *)
(* guard, and that rows are held only in between (GatesInv).               *)
(*                                                                         *)
(* The second part is about how the client prepares one such inventory     *)
(* (PreparationIssuance), for any number of stages and any window; the     *)
(* third about the channel on which its corrections travel, which          *)
(* implements CorrectionDelivery over any connections.                     *)
(***************************************************************************)
EXTENDS ClientActivity, PreparationIssuance, CorrectionChannel, FiniteSetTheorems, Sequences, TLAPS

InForeground ==
  {"foreground", "reserved", "posting", "online", "drained", "offline", "uncounted", "ending"}

InOnline == {"posting", "online", "drained"}

WithRows == {"reserved", "posting", "online"}

\* Each gate counts the responses inside, and only one of the two kinds is inside.
GatesInv ==
  /\ resp \in [Response -> InForeground \cup {"new", "scheduling", "submitting", "over"}]
  /\ lease = [r \in Response |-> lease[r]]
  /\ foreground = {r \in Response : resp[r] \in InForeground}
  /\ online = {r \in Response : resp[r] \in InOnline}
  /\ \A r \in Response : lease[r] # None => resp[r] \in WithRows
  /\ preparing # {} => foreground = {} /\ online = {}

\* The client starts with nobody inside.
LEMMA GatesInit == Init => GatesInv
  BY DEF Init, GatesInv, InForeground, InOnline, WithRows

\* A response passes its gates in order.
LEMMA GatesRespond ==
  ASSUME GatesInv, NEW r \in Response, RespondStep(r)
  PROVE  GatesInv'
<1> USE DEF GatesInv, InForeground, InOnline, WithRows, Goes, gates, stock
<1>1. CASE BeginForeground(r)  BY <1>1 DEF BeginForeground, MayBegin
<1>2. CASE Reserve(r)
  <2>1. CASE resp' = [resp EXCEPT ![r] = "ending"] /\ UNCHANGED lease
    BY <1>2, <2>1 DEF Reserve
  <2>2. CASE /\ resp' = [resp EXCEPT ![r] = "reserved"]
             /\ lease' = [lease EXCEPT ![r] = Choose(FALSE).current]
    BY <1>2, <2>2 DEF Reserve
  <2> QED BY <1>2, <2>1, <2>2 DEF Reserve
<1>3. CASE GoOnline(r)         BY <1>3 DEF GoOnline, MayBegin
<1>4. CASE Opened(r)           BY <1>4 DEF Opened
<1>5. CASE OpenFails(r)        BY <1>5 DEF OpenFails
<1>6. CASE FinishLease(r)      BY <1>6 DEF FinishLease
<1>7. CASE GoOffline(r)        BY <1>7 DEF GoOffline
<1>8. CASE Uncount(r)          BY <1>8 DEF Uncount
<1>9. CASE FinishRetired(r)    BY <1>9 DEF FinishRetired
<1>10. CASE EndForeground(r)   BY <1>10 DEF EndForeground
<1>11. CASE Schedule(r)        BY <1>11 DEF Schedule
<1>12. CASE Submit(r)          BY <1>12 DEF Submit
<1>13. CASE EpochEnds(r)       BY <1>13 DEF EpochEnds
<1> QED BY <1>1, <1>2, <1>3, <1>4, <1>5, <1>6, <1>7, <1>8, <1>9, <1>10, <1>11, <1>12, <1>13
        DEF RespondStep

\* Preparation is admitted only while both gates are empty.
LEMMA GatesOthers ==
  ASSUME GatesInv,
         \/ RefillStep
         \/ \E c \in Caller : PreprocessBegin(c) \/ Preprocess(c) \/ PreprocessEnd(c)
         \/ Close \/ Drain \/ Collect
         \/ \E i \in Inventory : Expire(i)
  PROVE  GatesInv'
<1> USE DEF GatesInv, gates, stock, Calls
<1>1. CASE RefillStart    BY <1>1 DEF RefillStart
<1>2. CASE RefillBegin    BY <1>2 DEF RefillBegin, MayPrepare
<1>3. CASE RefillIssue    BY <1>3 DEF RefillIssue
<1>4. CASE RefillInstall  BY <1>4 DEF RefillInstall
<1>5. ASSUME NEW c \in Caller, PreprocessBegin(c)  PROVE GatesInv'
  BY <1>5 DEF PreprocessBegin, MayPrepare
<1>6. ASSUME NEW c \in Caller, Preprocess(c)       PROVE GatesInv'
  BY <1>6 DEF Preprocess, PreprocessWith
<1>7. ASSUME NEW c \in Caller, PreprocessEnd(c)    PROVE GatesInv'
  BY <1>7 DEF PreprocessEnd
<1>8. CASE Close          BY <1>8 DEF Close
<1>9. CASE Drain          BY <1>9 DEF Drain
<1>10. CASE Collect       BY <1>10 DEF Collect
<1>11. ASSUME NEW i \in Inventory, Expire(i)       PROVE GatesInv'
  BY <1>11 DEF Expire
<1> QED BY <1>1, <1>2, <1>3, <1>4, <1>5, <1>6, <1>7, <1>8, <1>9, <1>10, <1>11 DEF RefillStep

\* No inventory is issued while a response is in the foreground, is online or has
\* rows, whichever threads pass _begin_foreground, _begin_online and
\* _begin_preparation in whichever order.
THEOREM PreparationExcludesOnline == Spec => []NeverOverlap
<1>1. GatesInv /\ [Next]_vars => GatesInv'
  <2> SUFFICES ASSUME GatesInv, [Next]_vars PROVE GatesInv'
    OBVIOUS
  <2>1. CASE UNCHANGED vars  BY <2>1 DEF GatesInv, vars
  <2>2. CASE Next            BY <2>2, GatesRespond, GatesOthers DEF Next
  <2> QED BY <2>1, <2>2
<1>2. GatesInv => NeverOverlap
  BY DEF GatesInv, NeverOverlap, InForeground, InOnline, WithRows
<1> QED BY <1>1, <1>2, GatesInit, PTL DEF Spec

-----------------------------------------------------------------------------
(* Inventories are kept.  The invariant says where each inventory is, and   *)
(* that an inventory and the responses that have rows of it name each other.*)

InventoryRecord ==
  [st : {"unused", "live", "cancelled"}, reserved : 0 .. Rows, leases : SUBSET Response]

\* The inventories v, of which c is current, s spare, R retired and g in the hands
\* of the refill: each live one is in one of these places, and in one only.
Stocked(v, c, s, R, g) ==
  /\ v \in [Inventory -> InventoryRecord]
  /\ c \in Inventory \cup {None} /\ s \in Inventory \cup {None} /\ g \in Inventory \cup {None}
  /\ R \subseteq Inventory
  /\ \A i \in Inventory : v[i].st = "live" => i \in {c, s, g} \cup R
  /\ \A i \in Inventory : i \in {c, s, g} \cup R => v[i].st # "unused"
  /\ c # None => c # s /\ c # g /\ c \notin R
  /\ s # None => s # g /\ s \notin R
  /\ g \notin R

\* Responses and the inventories they have rows of name each other; and what the
\* refill has in its hands is nobody's yet.
Leased(v, l, g) ==
  /\ \A r \in Response, i \in Inventory : r \in v[i].leases <=> l[r] = i
  /\ \A r \in Response : l[r] # None =>
       /\ v[l[r]].st = "live" \/ l[r] \in gone
       /\ l[r] # g

\* What may happen to the inventories while their leases stay: v becomes w.
Harmless(v, w) ==
  \A i \in Inventory :
    /\ w[i].leases = v[i].leases
    /\ \/ w[i].st = v[i].st
       \/ w[i].st = "live"
       \/ w[i].st = "cancelled" /\ (i \in gone \/ v[i].leases = {})

\* What is cancelled keeps its rows and its leases.
LEMMA CancelledIs ==
  ASSUME NEW v \in [Inventory -> InventoryRecord], NEW S
  PROVE  /\ Cancelled(v, S) \in [Inventory -> InventoryRecord]
         /\ \A i \in Inventory :
              /\ Cancelled(v, S)[i].leases = v[i].leases
              /\ Cancelled(v, S)[i].reserved = v[i].reserved
              /\ Cancelled(v, S)[i].st = (IF i \in S THEN "cancelled" ELSE v[i].st)
BY DEF Cancelled, InventoryRecord

\* So does what is issued.
LEMMA IssuedIs ==
  ASSUME NEW v \in [Inventory -> InventoryRecord], NEW S
  PROVE  /\ Issued(v, S) \in [Inventory -> InventoryRecord]
         /\ \A i \in Inventory :
              /\ Issued(v, S)[i].leases = v[i].leases
              /\ Issued(v, S)[i].reserved = v[i].reserved
              /\ Issued(v, S)[i].st = (IF i \in S THEN "live" ELSE v[i].st)
BY DEF Issued, InventoryRecord

\* Leases survive a harmless change.
LEMMA LeasedAfter ==
  ASSUME NEW v, NEW w, NEW l \in [Response -> Inventory \cup {None}], NEW g,
         Leased(v, l, g), Harmless(v, w)
  PROVE  Leased(w, l, g)
BY ThreadsAssumption DEF Leased, Harmless

\* Whatever the choice of an inventory finds, it keeps what is in use: it cancels
\* only what the provider dropped and what nobody has rows of.
LEMMA ChooseKeeps ==
  ASSUME NEW short \in BOOLEAN,
         Stocked(inv, current, spare, retired, refill.got),
         short /\ current # None => inv[current].leases = {}
  PROVE  /\ Stocked(Choose(short).inv, Choose(short).current, Choose(short).spare, Choose(short).retired, refill.got)
         /\ Harmless(inv, Choose(short).inv)
         /\ Choose(short).current \in {current, spare, None} /\ Choose(short).spare \in {spare, None}
         /\ Choose(short).retired \subseteq retired \cup ({current} \ {None})
         /\ Choose(short).spare # None => Choose(short).spare = spare /\ Choose(short).current \in {current, None}
<1> DEFINE promoted == Promotes(short) /\ Live(spare)
           dead == (IF Promotes(short) /\ ~Live(spare) THEN {spare} ELSE {}) \cup Dropped(short)
           S == dead \cup (IF promoted THEN Superseded(short) ELSE {})
           v == Cancelled(inv, S)
           c == IF promoted THEN spare ELSE IF Dropped(short) = {} THEN current ELSE None
           s == IF Promotes(short) THEN None ELSE spare
           R == IF promoted /\ current # None THEN retired \cup ({current} \ Superseded(short)) ELSE retired
<1>1. Choose(short).inv = v /\ Choose(short).current = c /\ Choose(short).spare = s /\ Choose(short).retired = R
  BY DEF Choose
<1>2. Promotes(short) => spare # None
  BY DEF Promotes, Available
<1>3. /\ v \in [Inventory -> InventoryRecord]
      /\ \A i \in Inventory :
           /\ v[i].leases = inv[i].leases
           /\ v[i].st = (IF i \in S THEN "cancelled" ELSE inv[i].st)
  BY CancelledIs DEF Stocked
<1>4. /\ dead \subseteq {current, spare}
      /\ \A i \in dead : i # None /\ (i \in gone \/ inv[i].leases = {})
      /\ Superseded(short) \subseteq {current} \ {None}
      /\ \A i \in Superseded(short) : i \in gone \/ inv[i].leases = {}
  BY <1>2 DEF Superseded, Dropped, Live
<1>5. current # None /\ current \notin Superseded(short) => Dropped(short) = {}
  BY DEF Superseded, Dropped
<1> HIDE DEF v
<1>6. Harmless(inv, v)
  BY <1>3, <1>4 DEF Harmless
<1>7. /\ c \in {current, spare, None} /\ s \in {spare, None}
      /\ R \subseteq retired \cup ({current} \ {None})
      /\ s # None => s = spare /\ c \in {current, None}
  BY DEF Superseded
<1>8. Stocked(v, c, s, R, refill.got)
  <2> USE DEF Stocked
  <2>1. CASE promoted
    <3>1. c = spare /\ s = None /\ spare # None
      BY <2>1, <1>2
    <3>2. R = retired \cup ({current} \ (Superseded(short) \cup {None}))
      BY <2>1
    <3>3. \A i \in Inventory : v[i].st = "live" => i \in {c, s, refill.got} \cup R
      <4> SUFFICES ASSUME NEW i \in Inventory, v[i].st = "live", i \notin {spare, refill.got}
                   PROVE  i \in R
        BY <3>1
      <4>1. i \notin S /\ inv[i].st = "live"
        BY <1>3
      <4>2. CASE i = current
        <5>1. current \notin Superseded(short)
          BY <4>1, <4>2, <2>1
        <5> QED BY <5>1, <4>2, <3>2, ThreadsAssumption
      <4> QED BY <4>1, <4>2, <3>2
    <3>4. \A i \in Inventory : i \in {c, s, refill.got} \cup R => v[i].st # "unused"
      BY <1>3, <3>1, <3>2, ThreadsAssumption
    <3> QED BY <1>3, <3>1, <3>2, <3>3, <3>4
  <2>2. CASE ~promoted
    <3>1. R = retired /\ S = dead /\ c = (IF Dropped(short) = {} THEN current ELSE None)
      BY <2>2
    <3>2. s = spare \/ (s = None /\ spare \in dead)
      BY <2>2
    <3>3. c = current \/ (c = None /\ current \in dead)
      BY <3>1 DEF Dropped
    <3>4. \A i \in Inventory : v[i].st = "live" => i \in {c, s, refill.got} \cup R
      BY <1>3, <3>1, <3>2, <3>3
    <3>5. \A i \in Inventory : i \in {c, s, refill.got} \cup R => v[i].st # "unused"
      BY <1>3, <3>1, <3>2, <3>3, ThreadsAssumption
    <3> HIDE DEF c, s, R
    <3> QED BY <1>3, <3>1, <3>2, <3>3, <3>4, <3>5
  <2> QED BY <2>1, <2>2
<1> HIDE DEF c, s, R
<1> QED BY <1>1, <1>6, <1>7, <1>8

\* Where the refill, the calls of preprocess() and close() are.
Phases ==
  /\ \A c \in Caller : c \in preparing <=> call[c] \in {"begun", "prepared"}
  /\ "refill" \in preparing <=> refill.pc = "issuing"
  /\ refill.got # None => refill.pc = "installing"
  /\ shut # "open" => closing /\ foreground = {} /\ preparing = {}
  /\ shut \in {"drained", "closed"} => refill.pc = "none"
  /\ shut = "closed" => \A i \in Inventory : inv[i].st # "live"

Typed ==
  /\ preparing \subseteq Caller \cup {"refill"}
  /\ closing \in BOOLEAN /\ wanted \in BOOLEAN /\ lock \in Response \cup {None}
  /\ gone \subseteq Inventory
  /\ active \in Nat
  /\ lease \in [Response -> Inventory \cup {None}]
  /\ refill \in [pc : {"none", "submitted", "admission", "issuing", "installing"},
                 busy : BOOLEAN, base : Inventory \cup {None}, got : Inventory \cup {None}]
  /\ call \in [Caller -> {"new", "begun", "prepared", "over"}]
  /\ shut \in {"open", "draining", "drained", "closed"}

Placed == Stocked(inv, current, spare, retired, refill.got)

Backed == Leased(inv, lease, refill.got)

IInv == Typed /\ GatesInv /\ Placed /\ Backed /\ Phases /\ ActiveIsCounted

\* The client starts without inventories.
LEMMA IInvInit == Init => IInv
<1> SUFFICES ASSUME Init PROVE IInv
  OBVIOUS
<1>1. GatesInv
  BY GatesInit
<1>2. Typed
  BY DEF Init, Typed
<1>3. Placed /\ Backed
  BY ThreadsAssumption, RowsAssumption DEF Init, Placed, Backed, Stocked, Leased, InventoryRecord
<1>4. Phases
  BY ThreadsAssumption DEF Init, Phases
<1>5. ActiveIsCounted
  <2>1. {r \in Response : resp[r] \in {"online", "drained", "offline"}} = {}
    BY DEF Init
  <2> QED BY <2>1, FS_EmptySet DEF Init, ActiveIsCounted
<1> QED BY <1>1, <1>2, <1>3, <1>4, <1>5 DEF IInv

\* While an inventory is prepared nobody has rows, nor once nobody is in the
\* foreground.
LEMMA NobodyHasRows ==
  ASSUME GatesInv, preparing # {} \/ foreground = {}
  PROVE  \A r \in Response : lease[r] = None
BY DEF GatesInv, InForeground, WithRows

\* A lease is closed: the response and its inventory forget each other.
LEMMA LeaseCloses ==
  ASSUME IInv, NEW r \in Response,
         inv' = LeaseClosed(r), lease' = [lease EXCEPT ![r] = None],
         UNCHANGED <<gone, current, spare, retired, refill>>
  PROVE  /\ Placed' /\ Backed'
         /\ \A i \in Inventory : inv'[i].st = inv[i].st
<1>1. /\ inv' \in [Inventory -> InventoryRecord]
      /\ \A i \in Inventory :
           /\ inv'[i].st = inv[i].st
           /\ inv'[i].leases = (IF i = lease[r] THEN inv[i].leases \ {r} ELSE inv[i].leases)
  <2>1. inv \in [Inventory -> InventoryRecord]
    BY DEF IInv, Placed, Stocked
  <2>2. \A i \in Inventory :
          inv'[i] = (IF i = lease[r] THEN [inv[i] EXCEPT !.leases = @ \ {r}] ELSE inv[i])
    BY <2>1 DEF LeaseClosed
  <2>3. \A i \in Inventory :
          /\ inv'[i] \in InventoryRecord
          /\ inv'[i].st = inv[i].st
          /\ inv'[i].leases = (IF i = lease[r] THEN inv[i].leases \ {r} ELSE inv[i].leases)
    <3> SUFFICES ASSUME NEW i \in Inventory
                 PROVE  /\ inv'[i] \in InventoryRecord
                        /\ inv'[i].st = inv[i].st
                        /\ inv'[i].leases = (IF i = lease[r] THEN inv[i].leases \ {r} ELSE inv[i].leases)
      OBVIOUS
    <3>1. inv[i] \in InventoryRecord
      BY <2>1
    <3>2. CASE i = lease[r]
      <4>1. inv'[i] = [inv[i] EXCEPT !.leases = inv[i].leases \ {r}]
        BY <2>2, <3>2
      <4>2. inv[i].leases \ {r} \in SUBSET Response
        BY <3>1 DEF InventoryRecord
      <4> QED BY <3>1, <3>2, <4>1, <4>2 DEF InventoryRecord
    <3>3. CASE i # lease[r]
      BY <2>2, <3>1, <3>3
    <3> QED BY <3>2, <3>3
  <2>4. inv' = [i \in Inventory |-> inv'[i]]
    BY <2>1 DEF LeaseClosed
  <2> QED BY <2>3, <2>4
<1>2. Placed'
  BY <1>1 DEF IInv, Placed, Stocked
<1>3. Backed'
  <2>1. lease \in [Response -> Inventory \cup {None}]
    BY DEF IInv, Typed
  <2>2. \A x \in Response : lease'[x] = (IF x = r THEN None ELSE lease[x])
    BY <2>1
  <2>3. \A x \in Response, i \in Inventory : x \in inv[i].leases <=> lease[x] = i
    BY DEF IInv, Backed, Leased
  <2>4. ASSUME NEW x \in Response, NEW i \in Inventory
        PROVE  x \in inv'[i].leases <=> lease'[x] = i
    <3>1. CASE x = r
      <4>1. lease'[x] # i
        BY <2>2, <3>1, ThreadsAssumption
      <4>2. x \notin inv'[i].leases
        BY <1>1, <2>3, <3>1
      <4> QED BY <4>1, <4>2
    <3>2. CASE x # r
      <4>1. lease'[x] = lease[x]
        BY <2>2, <3>2
      <4>2. x \in inv'[i].leases <=> x \in inv[i].leases
        BY <1>1, <3>2
      <4> QED BY <2>3, <4>1, <4>2
    <3> QED BY <3>1, <3>2
  <2>5. ASSUME NEW x \in Response, lease'[x] # None
        PROVE  /\ inv'[lease'[x]].st = "live" \/ lease'[x] \in gone'
               /\ lease'[x] # refill'.got
    <3>1. lease'[x] = lease[x] /\ lease[x] \in Inventory
      BY <2>1, <2>2, <2>5
    <3>2. inv[lease[x]].st = "live" \/ lease[x] \in gone
      BY <2>5, <3>1 DEF IInv, Backed, Leased
    <3>3. lease[x] # refill.got
      BY <2>5, <3>1 DEF IInv, Backed, Leased
    <3>4. inv'[lease[x]].st = inv[lease[x]].st /\ gone' = gone /\ refill'.got = refill.got
      BY <1>1, <3>1
    <3> QED BY <3>1, <3>2, <3>3, <3>4
  <2> QED BY <2>4, <2>5 DEF Backed, Leased
<1> QED BY <1>1, <1>2, <1>3

\* The actions that touch no inventory and no lease.
Aside ==
  \/ \E r \in Response :
       \/ BeginForeground(r) \/ Opened(r) \/ GoOffline(r) \/ Uncount(r) \/ EndForeground(r)
       \/ Schedule(r) \/ Submit(r)
  \/ RefillStart \/ RefillBegin
  \/ \E c \in Caller : PreprocessBegin(c) \/ PreprocessEnd(c)
  \/ Close \/ Drain

LEMMA AsideKeeps ==
  ASSUME IInv, Aside
  PROVE  Placed' /\ Backed' /\ inv' = inv
<1>1. UNCHANGED <<inv, gone, current, spare, retired, lease>>
  BY DEF Aside, BeginForeground, Opened, GoOffline, Uncount, EndForeground, Schedule, Submit,
         RefillStart, RefillBegin, PreprocessBegin, PreprocessEnd, Close, Drain, stock
<1>2. refill'.got = refill.got
  <2>1. CASE RefillBegin
    <3>1. refill.pc = "admission" /\ refill.got = None
      BY <2>1 DEF RefillBegin, IInv, Phases
    <3> QED BY <2>1, <3>1 DEF RefillBegin, IInv, Typed
  <2>2. CASE ~RefillBegin
    BY <2>2 DEF Aside, BeginForeground, Opened, GoOffline, Uncount, EndForeground, Schedule, Submit,
         RefillStart, PreprocessBegin, PreprocessEnd, Close, Drain, IInv, Typed
  <2> QED BY <2>1, <2>2
<1> QED BY <1>1, <1>2 DEF IInv, Placed, Backed, Stocked, Leased

\* A response reserves rows of the inventory it found.
LEMMA ReserveKeeps ==
  ASSUME IInv, NEW r \in Response, Reserve(r)
  PROVE  Placed' /\ Backed'
<1> DEFINE v == Choose(FALSE).inv
           c == Choose(FALSE).current
<1>1. /\ Stocked(v, c, Choose(FALSE).spare, Choose(FALSE).retired, refill.got)
      /\ Harmless(inv, v)
  BY ChooseKeeps DEF IInv, Placed
<1>2. Leased(v, lease, refill.got)
  BY <1>1, LeasedAfter DEF IInv, Typed, Backed
<1> HIDE DEF v, c
<1>3. refill' = refill /\ gone' = gone
  BY DEF Reserve, stock
<1>4. CASE refill.busy
  BY <1>4 DEF Reserve, IInv, Placed, Backed, Stocked, Leased, stock
<1>5. CASE ~refill.busy /\ inv' = v /\ lease' = lease
  <2>1. current' = c /\ spare' = Choose(FALSE).spare /\ retired' = Choose(FALSE).retired
    BY <1>5 DEF Reserve, c
  <2> QED BY <1>1, <1>2, <1>3, <1>5, <2>1 DEF Placed, Backed, Leased
<1>6. CASE /\ ~refill.busy /\ c # None /\ v[c].st = "live" /\ v[c].reserved < Rows
           /\ inv' = [v EXCEPT ![c].reserved = @ + 1, ![c].leases = @ \cup {r}]
           /\ lease' = [lease EXCEPT ![r] = c]
  <2>1. current' = c /\ spare' = Choose(FALSE).spare /\ retired' = Choose(FALSE).retired
    BY <1>6 DEF Reserve, c
  <2>2. c \in Inventory /\ v \in [Inventory -> InventoryRecord]
    BY <1>1, <1>6 DEF Stocked
  <2>3. v[c].reserved + 1 \in 0 .. Rows
    BY <1>6, <2>2, RowsAssumption DEF InventoryRecord
  <2>4. /\ inv' \in [Inventory -> InventoryRecord]
        /\ \A i \in Inventory :
             /\ inv'[i].st = v[i].st
             /\ inv'[i].leases = (IF i = c THEN v[i].leases \cup {r} ELSE v[i].leases)
    BY <1>6, <2>2, <2>3 DEF InventoryRecord
  <2>5. Placed'
    BY <1>1, <1>3, <2>1, <2>4 DEF Placed, Stocked
  <2>6. lease[r] = None
    BY DEF Reserve, IInv, GatesInv, WithRows
  <2>7. \A x \in Response : lease'[x] = (IF x = r THEN c ELSE lease[x])
    BY <1>6 DEF IInv, Typed
  <2>8. c # refill.got
    BY <1>1, <1>6 DEF Stocked
  <2>9. \A x \in Response, i \in Inventory : x \in inv'[i].leases <=> lease'[x] = i
    <3> SUFFICES ASSUME NEW x \in Response, NEW i \in Inventory
                 PROVE  x \in inv'[i].leases <=> lease'[x] = i
      OBVIOUS
    <3>1. x \in v[i].leases <=> lease[x] = i
      BY <1>2 DEF Leased
    <3>2. CASE x = r
      <4>1. x \notin v[i].leases
        BY <2>6, <3>1, <3>2, ThreadsAssumption
      <4>2. lease'[x] = c
        BY <2>7, <3>2
      <4> QED BY <2>4, <3>2, <4>1, <4>2
    <3>3. CASE x # r
      <4>1. x \in inv'[i].leases <=> x \in v[i].leases
        BY <2>4, <3>3
      <4> QED BY <2>7, <3>1, <3>3, <4>1
    <3> QED BY <3>2, <3>3
  <2>10. \A x \in Response : lease'[x] # None =>
           /\ inv'[lease'[x]].st = "live" \/ lease'[x] \in gone'
           /\ lease'[x] # refill'.got
    <3>1. lease \in [Response -> Inventory \cup {None}]
      BY DEF IInv, Typed
    <3> QED BY <1>2, <1>3, <1>6, <2>2, <2>4, <2>7, <2>8, <3>1 DEF Leased
  <2> QED BY <2>5, <2>9, <2>10 DEF Backed, Leased
<1> QED BY <1>4, <1>5, <1>6 DEF Reserve, v, c

\* What the retired inventories leave is nobody's.
LEMMA FinishRetiredKeeps ==
  ASSUME IInv, NEW r \in Response, FinishRetired(r)
  PROVE  Placed' /\ Backed'
<1> DEFINE idle == {i \in retired : inv[i].leases = {}}
<1>1. /\ inv' = Cancelled(inv, idle) /\ retired' = retired \ idle
      /\ UNCHANGED <<gone, current, spare, lease, refill>>
  BY DEF FinishRetired
<1>2. /\ inv' \in [Inventory -> InventoryRecord]
      /\ \A i \in Inventory :
           /\ inv'[i].leases = inv[i].leases
           /\ inv'[i].st = (IF i \in idle THEN "cancelled" ELSE inv[i].st)
  BY <1>1, CancelledIs DEF IInv, Placed, Stocked
<1>3. Harmless(inv, inv')
  BY <1>2 DEF Harmless
<1>4. Placed'
  BY <1>1, <1>2 DEF IInv, Placed, Stocked
<1>5. Leased(inv', lease, refill.got)
  BY <1>3, LeasedAfter DEF IInv, Typed, Backed
<1> QED BY <1>1, <1>4, <1>5 DEF Backed, Leased

\* What an epoch leaves is nobody's.
LEMMA EpochEndsKeeps ==
  ASSUME IInv, NEW r \in Response, EpochEnds(r)
  PROVE  Placed' /\ Backed'
<1>1. /\ inv' = Cancelled(inv, {current}) /\ current' = None /\ inv[current].leases = {}
      /\ UNCHANGED <<gone, spare, retired, lease, refill>>
  BY DEF EpochEnds
<1>2. /\ inv' \in [Inventory -> InventoryRecord]
      /\ \A i \in Inventory :
           /\ inv'[i].leases = inv[i].leases
           /\ inv'[i].st = (IF i \in {current} THEN "cancelled" ELSE inv[i].st)
  BY <1>1, CancelledIs DEF IInv, Placed, Stocked
<1>3. Harmless(inv, inv')
  BY <1>1, <1>2 DEF Harmless
<1>4. Placed'
  BY <1>1, <1>2, ThreadsAssumption DEF IInv, Placed, Stocked
<1>5. Leased(inv', lease, refill.got)
  BY <1>3, LeasedAfter DEF IInv, Typed, Backed
<1> QED BY <1>1, <1>4, <1>5 DEF Backed, Leased

\* What the refill was issued is in its hands, and new to everybody.
LEMMA RefillIssueKeeps ==
  ASSUME IInv, RefillIssue
  PROVE  Placed' /\ Backed'
<1>1. PICK i \in Unused \cup {None} :
        /\ inv' = Issued(inv, {i})
        /\ refill' = [refill EXCEPT !.pc = "installing", !.got = i]
  BY DEF RefillIssue
<1>2. UNCHANGED <<gone, current, spare, retired, lease>> /\ refill'.got = i
  BY <1>1 DEF RefillIssue, IInv, Typed
<1>3. refill.got = None /\ preparing # {}
  BY DEF RefillIssue, IInv, Phases
<1>4. /\ inv' \in [Inventory -> InventoryRecord]
      /\ \A j \in Inventory :
           /\ inv'[j].leases = inv[j].leases
           /\ inv'[j].st = (IF j = i THEN "live" ELSE inv[j].st)
  BY <1>1, IssuedIs DEF IInv, Placed, Stocked
<1>5. i # None => i \in Inventory /\ i \notin {current, spare} \cup retired
  BY DEF Unused, IInv, Placed, Stocked
<1>6. Placed'
  BY <1>2, <1>3, <1>4, <1>5, ThreadsAssumption DEF Unused, IInv, Placed, Stocked
<1>7. Backed'
  BY <1>2, <1>3, <1>4, NobodyHasRows DEF IInv, Backed, Leased
<1> QED BY <1>6, <1>7

\* It becomes the spare, or is cancelled before anybody reserved of it.
LEMMA RefillInstallKeeps ==
  ASSUME IInv, RefillInstall
  PROVE  Placed' /\ Backed'
<1>1. refill'.got = None /\ UNCHANGED <<gone, current, retired, lease>>
  BY DEF RefillInstall
<1>2. CASE Installs
  <2>1. spare' = refill.got /\ inv' = inv /\ spare = None
    BY <1>2 DEF RefillInstall, Installs
  <2>2. Placed'
    BY <1>1, <2>1, ThreadsAssumption DEF IInv, Placed, Stocked
  <2>3. Backed'
    BY <1>1, <2>1 DEF IInv, Backed, Leased
  <2> QED BY <2>2, <2>3
<1>3. CASE ~Installs
  <2>1. spare' = spare /\ inv' = Cancelled(inv, {refill.got})
    BY <1>3 DEF RefillInstall
  <2>2. /\ inv' \in [Inventory -> InventoryRecord]
        /\ \A j \in Inventory :
             /\ inv'[j].leases = inv[j].leases
             /\ inv'[j].st = (IF j = refill.got THEN "cancelled" ELSE inv[j].st)
    BY <2>1, CancelledIs DEF IInv, Placed, Stocked
  <2>3. Placed'
    BY <1>1, <2>1, <2>2, ThreadsAssumption DEF IInv, Placed, Stocked
  <2>4. Backed'
    <3>1. lease \in [Response -> Inventory \cup {None}]
      BY DEF IInv, Typed
    <3>2. \A x \in Response : lease[x] # None =>
            /\ inv'[lease[x]].st = "live" \/ lease[x] \in gone
            /\ lease[x] # None
      BY <2>2, <3>1 DEF IInv, Backed, Leased
    <3>3. \A x \in Response, i \in Inventory : x \in inv'[i].leases <=> lease[x] = i
      BY <2>2 DEF IInv, Backed, Leased
    <3> QED BY <1>1, <3>2, <3>3 DEF Backed, Leased
  <2> QED BY <2>3, <2>4
<1> QED BY <1>2, <1>3

\* preprocess() forgets nothing of what it finds and what it is issued.
LEMMA PreprocessKeeps ==
  ASSUME IInv, NEW k \in Caller, NEW short \in BOOLEAN, PreprocessWith(k, short)
  PROVE  Placed' /\ Backed'
<1> DEFINE v == Choose(short).inv
           c == Choose(short).current
           s == Choose(short).spare
           R == Choose(short).retired
           enough == c # None /\ v[c].reserved < Rows
           useless == IF ~enough /\ s # None THEN {s} ELSE {}
           left == IF useless = {} THEN s ELSE None
           old == {c} \ {None}
           idle == {i \in old : v[i].leases = {}}
<1>1. /\ Stocked(v, c, s, R, refill.got)
      /\ Harmless(inv, v)
      /\ c \in {current, spare, None} /\ s \in {spare, None}
      /\ R \subseteq retired \cup ({current} \ {None})
  <2>1. \A r \in Response : lease[r] = None
    BY NobodyHasRows DEF PreprocessWith, IInv, Phases
  <2>2. short /\ current # None => inv[current].leases = {}
    BY <2>1, ThreadsAssumption DEF IInv, Placed, Backed, Stocked, Leased, InventoryRecord
  <2> QED BY <2>2, ChooseKeeps DEF IInv, Placed
<1>2. gone' = gone /\ lease' = lease /\ refill' = refill
  BY DEF PreprocessWith, stock
<1>3. \A r \in Response : lease[r] = None
  <2>1. preparing # {}
    BY DEF PreprocessWith, IInv, Phases
  <2> QED BY <2>1, NobodyHasRows DEF IInv
<1>4. CASE active # 0
  BY <1>2, <1>4 DEF PreprocessWith, IInv, Placed, Backed, Stocked, Leased, stock
<1>5. CASE active = 0
  <2>1. PICK new \in Unused \cup {None}, extra \in Unused \cup {None} :
          /\ extra # None => left = None /\ extra # new
          /\ current' = IF new # None THEN new ELSE c
          /\ spare' = IF left # None THEN left ELSE extra
          /\ retired' = R \cup (IF new # None THEN old \ idle ELSE {})
          /\ inv' = Issued(Cancelled(v, useless \cup (IF new # None THEN idle ELSE {})),
                           {new, extra})
    BY <1>5 DEF PreprocessWith
  <2> DEFINE cut == useless \cup (IF new # None THEN idle ELSE {})
             w == Cancelled(v, cut)
  <2> HIDE DEF v
  <2>2. /\ w \in [Inventory -> InventoryRecord]
        /\ \A i \in Inventory :
             /\ w[i].leases = v[i].leases
             /\ w[i].st = (IF i \in cut THEN "cancelled" ELSE v[i].st)
    BY <1>1, CancelledIs DEF Stocked
  <2> HIDE DEF w
  <2>3. /\ inv' \in [Inventory -> InventoryRecord]
        /\ \A i \in Inventory :
             /\ inv'[i].leases = v[i].leases
             /\ inv'[i].st = (IF i \in {new, extra} THEN "live" ELSE w[i].st)
    <3>1. inv' = Issued(w, {new, extra})
      BY <2>1 DEF w
    <3>2. /\ Issued(w, {new, extra}) \in [Inventory -> InventoryRecord]
          /\ \A i \in Inventory :
               /\ Issued(w, {new, extra})[i].leases = w[i].leases
               /\ Issued(w, {new, extra})[i].st = (IF i \in {new, extra} THEN "live" ELSE w[i].st)
      BY <2>2, IssuedIs
    <3> QED BY <2>2, <3>1, <3>2
  <2>4. ASSUME NEW n \in {new, extra}, n # None
        PROVE  n \in Inventory /\ n \notin {c, s, refill.got} \cup R
    <3>1. n \in Inventory /\ inv[n].st = "unused"
      BY <2>4 DEF Unused
    <3>2. n \notin {current, spare, refill.got} \cup retired
      BY <3>1 DEF IInv, Placed, Stocked
    <3> QED BY <1>1, <2>4, <3>1, <3>2
  <2>5. idle \subseteq {c} /\ None \notin idle /\ old \subseteq {c} /\ None \notin old
    OBVIOUS
  <2>6. (useless = {} /\ left = s) \/ (useless = {s} /\ s # None /\ left = None)
    OBVIOUS
  <2> HIDE DEF v, c, s, R, enough, useless, left, idle
  <2>7. Placed'
    <3>1. \A i \in Inventory : inv'[i].st = "live" =>
            i \in {current', spare', refill.got} \cup retired'
      <4> SUFFICES ASSUME NEW i \in Inventory, inv'[i].st = "live"
                   PROVE  i \in {current', spare', refill.got} \cup retired'
        OBVIOUS
      <4>1. CASE i = new
        BY <2>1, <4>1, ThreadsAssumption
      <4>2. CASE i = extra
        BY <2>1, <4>2, ThreadsAssumption
      <4>3. CASE i \notin {new, extra}
        <5>1. i \notin cut /\ v[i].st = "live"
          BY <2>2, <2>3, <4>3
        <5>2. i \in {c, s, refill.got} \cup R
          BY <1>1, <5>1 DEF Stocked
        <5>3. i # None
          BY ThreadsAssumption
        <5>4. CASE i = c
          <6>1. CASE new = None
            BY <2>1, <5>4, <6>1
          <6>2. CASE new # None
            <7>1. i \in old \ idle
              BY <5>1, <5>3, <5>4, <6>2
            <7> QED BY <2>1, <6>2, <7>1
          <6> QED BY <6>1, <6>2
        <5>5. CASE i = s
          BY <2>1, <2>6, <5>1, <5>3, <5>5
        <5> QED BY <2>1, <5>2, <5>4, <5>5
      <4> QED BY <4>1, <4>2, <4>3
    <3>2. \A i \in Inventory : i \in {current', spare', refill.got} \cup retired' =>
            inv'[i].st # "unused"
      <4> SUFFICES ASSUME NEW i \in Inventory, i \in {current', spare', refill.got} \cup retired'
                   PROVE  inv'[i].st # "unused"
        OBVIOUS
      <4>1. CASE i \in {new, extra}
        BY <2>3, <4>1
      <4>2. CASE i \notin {new, extra}
        <5>1. i \in {c, s, refill.got} \cup R
          BY <2>1, <2>5, <2>6, <4>2, ThreadsAssumption
        <5>2. v[i].st # "unused"
          BY <1>1, <5>1 DEF Stocked
        <5> QED BY <2>2, <2>3, <4>2, <5>2
      <4> QED BY <4>1, <4>2
    <3>3. /\ current' \in Inventory \cup {None} /\ spare' \in Inventory \cup {None}
          /\ retired' \subseteq Inventory
      BY <1>1, <2>1, <2>5, <2>6 DEF Stocked, Unused
    <3>4. current' # None =>
            current' # spare' /\ current' # refill.got /\ current' \notin retired'
      <4>1. CASE new # None
        <5>1. current' = new /\ new \notin {c, s, refill.got} \cup R
          BY <2>1, <2>4, <4>1
        <5>2. new # spare'
          BY <2>1, <2>6, <4>1, <5>1
        <5> QED BY <2>1, <2>5, <5>1, <5>2
      <4>2. CASE new = None
        <5>1. current' = c /\ retired' = R
          BY <2>1, <4>2
        <5>2. c # None => c # s /\ c # refill.got /\ c \notin R
          BY <1>1 DEF Stocked
        <5>3. c # None => c # spare'
          BY <2>1, <2>4, <2>6, <5>2
        <5> QED BY <5>1, <5>2, <5>3
      <4> QED BY <4>1, <4>2
    <3>5. spare' # None => spare' # refill.got /\ spare' \notin retired'
      <4>1. CASE left # None
        <5>1. spare' = s /\ s # None
          BY <2>1, <2>6, <4>1
        <5>2. s # c /\ s # refill.got /\ s \notin R
          BY <1>1, <5>1 DEF Stocked
        <5> QED BY <2>1, <2>5, <5>1, <5>2
      <4>2. CASE left = None
        <5>1. spare' = extra
          BY <2>1, <4>2
        <5> QED BY <2>1, <2>4, <2>5, <5>1
      <4> QED BY <4>1, <4>2
    <3>6. refill.got \notin retired'
      BY <1>1, <2>1, <2>5, ThreadsAssumption DEF Stocked
    <3>7. refill'.got = refill.got /\ refill.got \in Inventory \cup {None}
      BY <1>1, <1>2 DEF Stocked
    <3> QED BY <2>3, <3>1, <3>2, <3>3, <3>4, <3>5, <3>6, <3>7 DEF Placed, Stocked
  <2>8. Backed'
    <3>1. \A i \in Inventory : inv'[i].leases = inv[i].leases
      BY <1>1, <2>3 DEF Harmless
    <3>2. \A r \in Response, i \in Inventory : r \in inv[i].leases <=> lease[r] = i
      BY DEF IInv, Backed, Leased
    <3> QED BY <1>2, <1>3, <3>1, <3>2 DEF Backed, Leased
  <2> QED BY <2>7, <2>8
<1> QED BY <1>4, <1>5

\* close() cancels what the client has, which is all there is, and nobody's.
LEMMA CollectKeeps ==
  ASSUME IInv, Collect
  PROVE  /\ Placed' /\ Backed'
         /\ \A i \in Inventory : inv'[i].st # "live"
<1> DEFINE all == ({current, spare} \cup retired) \ {None}
<1>1. /\ inv' = Cancelled(inv, all) /\ current' = None /\ spare' = None /\ retired' = {}
      /\ gone' = gone /\ lease' = lease /\ refill' = refill
  BY DEF Collect
<1>2. refill.got = None /\ foreground = {}
  BY DEF Collect, IInv, Phases
<1>3. \A r \in Response : lease[r] = None
  BY <1>2, NobodyHasRows DEF IInv
<1>4. /\ inv' \in [Inventory -> InventoryRecord]
      /\ \A i \in Inventory :
           /\ inv'[i].leases = inv[i].leases
           /\ inv'[i].st = (IF i \in all THEN "cancelled" ELSE inv[i].st)
  BY <1>1, CancelledIs DEF IInv, Placed, Stocked
<1>5. \A i \in Inventory : inv'[i].st # "live"
  <2>1. \A i \in Inventory : inv[i].st = "live" => i \in all
    BY <1>2, ThreadsAssumption DEF IInv, Placed, Stocked
  <2> QED BY <1>4, <2>1
<1>6. Placed'
  BY <1>1, <1>2, <1>4, <1>5, ThreadsAssumption DEF Placed, Stocked
<1>7. Backed'
  <2>1. \A r \in Response, i \in Inventory : r \in inv[i].leases <=> lease[r] = i
    BY DEF IInv, Backed, Leased
  <2> QED BY <1>1, <1>3, <1>4, <2>1 DEF Backed, Leased
<1> QED BY <1>5, <1>6, <1>7

\* What the provider drops stays where it is.
LEMMA ExpireKeeps ==
  ASSUME IInv, NEW i \in Inventory, Expire(i)
  PROVE  Placed' /\ Backed' /\ inv' = inv
<1>1. UNCHANGED <<inv, current, spare, retired, lease, refill>> /\ gone' = gone \cup {i}
  BY DEF Expire
<1>2. Placed'
  BY <1>1 DEF IInv, Placed, Stocked
<1>3. Backed'
  BY <1>1 DEF IInv, Backed, Leased
<1> QED BY <1>1, <1>2, <1>3

\* Every step keeps each live inventory in its place and behind its leases.
LEMMA StockStep ==
  ASSUME IInv, Next
  PROVE  Placed' /\ Backed'
<1>1. ASSUME NEW r \in Response, RespondStep(r)
      PROVE  Placed' /\ Backed'
  <2>1. CASE Reserve(r)
    BY <2>1, ReserveKeeps
  <2>2. CASE GoOnline(r)
    <3>1. CASE MayBegin
      BY <2>2, <3>1 DEF GoOnline, IInv, Placed, Backed, Stocked, Leased
    <3>2. CASE ~MayBegin
      BY <2>2, <3>2, LeaseCloses DEF GoOnline
    <3> QED BY <3>1, <3>2
  <2>3. CASE OpenFails(r)
    BY <2>3, LeaseCloses DEF OpenFails
  <2>4. CASE FinishLease(r)
    BY <2>4, LeaseCloses DEF FinishLease
  <2>5. CASE FinishRetired(r)
    BY <2>5, FinishRetiredKeeps
  <2>6. CASE EpochEnds(r)
    BY <2>6, EpochEndsKeeps
  <2>7. CASE Aside
    BY <2>7, AsideKeeps
  <2> QED BY <1>1, <2>1, <2>2, <2>3, <2>4, <2>5, <2>6, <2>7 DEF RespondStep, Aside
<1>2. CASE RefillStep
  <2>1. CASE RefillIssue
    BY <2>1, RefillIssueKeeps
  <2>2. CASE RefillInstall
    BY <2>2, RefillInstallKeeps
  <2>3. CASE Aside
    BY <2>3, AsideKeeps
  <2> QED BY <1>2, <2>1, <2>2, <2>3 DEF RefillStep, Aside
<1>3. ASSUME NEW c \in Caller, PreprocessBegin(c) \/ Preprocess(c) \/ PreprocessEnd(c)
      PROVE  Placed' /\ Backed'
  <2>1. CASE Preprocess(c)
    BY <2>1, PreprocessKeeps DEF Preprocess
  <2>2. CASE Aside
    BY <2>2, AsideKeeps
  <2> QED BY <1>3, <2>1, <2>2 DEF Aside
<1>4. CASE Close \/ Drain
  BY <1>4, AsideKeeps DEF Aside
<1>5. CASE Collect
  BY <1>5, CollectKeeps
<1>6. ASSUME NEW i \in Inventory, Expire(i)
      PROVE  Placed' /\ Backed'
  BY <1>6, ExpireKeeps
<1> QED BY <1>1, <1>2, <1>3, <1>4, <1>5, <1>6 DEF Next

\* Variables keep their types; active_prepared_responses is decremented by a response
\* it counts, so never below zero.
LEMMA TypedStep ==
  ASSUME IInv, Next
  PROVE  Typed'
<1>1. /\ Typed
      /\ current \in Inventory \cup {None} /\ spare \in Inventory \cup {None}
      /\ foreground \subseteq Response
  BY DEF IInv, Placed, Stocked, GatesInv
<1> USE <1>1 DEF Typed, gates, stock
<1>2. ASSUME NEW r \in Response, RespondStep(r)
      PROVE  Typed'
  <2>1. CASE BeginForeground(r) BY <2>1 DEF BeginForeground
  <2>2. CASE Reserve(r)
    <3>1. Choose(FALSE).current \in Inventory \cup {None}
      BY ChooseKeeps DEF IInv, Placed, Stocked
    <3>2. lease' \in [Response -> Inventory \cup {None}] /\ lock' \in Response \cup {None}
      <4> DEFINE c == Choose(FALSE).current
      <4>1. \/ lease' = lease /\ lock' = lock
            \/ lease' = [lease EXCEPT ![r] = c] /\ lock' = r
        BY <2>2 DEF Reserve
      <4> HIDE DEF c
      <4> QED BY <3>1, <4>1 DEF c
    <3>3. UNCHANGED <<preparing, closing, wanted, gone, active, refill, call, shut>>
      BY <2>2 DEF Reserve
    <3> QED BY <3>2, <3>3
  <2>3. CASE GoOnline(r) BY <2>3 DEF GoOnline
  <2>4. CASE Opened(r) BY <2>4 DEF Opened
  <2>5. CASE OpenFails(r) BY <2>5 DEF OpenFails
  <2>6. CASE FinishLease(r) BY <2>6 DEF FinishLease
  <2>7. CASE GoOffline(r) BY <2>7 DEF GoOffline
  <2>8. CASE Uncount(r)
    <3> DEFINE Counted == {x \in Response : resp[x] \in {"online", "drained", "offline"}}
    <3>1. IsFiniteSet(Counted) /\ r \in Counted
      BY <2>8, ThreadsAssumption, FS_Subset DEF Uncount
    <3>2. Cardinality(Counted) \in Nat /\ Cardinality(Counted) # 0
      BY <3>1, FS_CardinalityType, FS_EmptySet
    <3>3. active = Cardinality(Counted)
      BY DEF IInv, ActiveIsCounted
    <3> HIDE DEF Counted
    <3>4. active' \in Nat
      BY <2>8, <3>2, <3>3 DEF Uncount
    <3> QED BY <2>8, <3>4 DEF Uncount
  <2>9. CASE FinishRetired(r) BY <2>9 DEF FinishRetired
  <2>10. CASE EndForeground(r) BY <2>10 DEF EndForeground
  <2>11. CASE Schedule(r) BY <2>11 DEF Schedule
  <2>12. CASE Submit(r) BY <2>12 DEF Submit
  <2>13. CASE EpochEnds(r) BY <2>13 DEF EpochEnds
  <2> QED BY <1>2, <2>1, <2>2, <2>3, <2>4, <2>5, <2>6, <2>7, <2>8, <2>9, <2>10, <2>11, <2>12, <2>13
          DEF RespondStep
<1>3. CASE RefillStart BY <1>3 DEF RefillStart
<1>4. CASE RefillBegin
  <2>1. refill' \in [pc : {"none", "submitted", "admission", "issuing", "installing"},
                     busy : BOOLEAN, base : Inventory \cup {None}, got : Inventory \cup {None}]
    BY <1>4 DEF RefillBegin
  <2>2. preparing' \subseteq Caller \cup {"refill"}
    BY <1>4 DEF RefillBegin
  <2>3. UNCHANGED <<closing, wanted, lock, gone, active, lease, call, shut>>
    BY <1>4 DEF RefillBegin
  <2> QED BY <2>1, <2>2, <2>3
<1>5. CASE RefillIssue BY <1>5 DEF RefillIssue, Unused
<1>6. CASE RefillInstall BY <1>6 DEF RefillInstall
<1>7. ASSUME NEW c \in Caller, PreprocessBegin(c) PROVE Typed'
  BY <1>7 DEF PreprocessBegin, Calls
<1>8. ASSUME NEW c \in Caller, Preprocess(c) PROVE Typed'
  <2>1. PICK short \in BOOLEAN : PreprocessWith(c, short)
    BY <1>8 DEF Preprocess
  <2>2. /\ call' = [call EXCEPT ![c] = "prepared"] /\ gone' = gone
        /\ UNCHANGED <<preparing, closing, wanted, lock, active, lease, refill, shut>>
    BY <2>1 DEF PreprocessWith, Calls
  <2> QED BY <2>2
<1>9. ASSUME NEW c \in Caller, PreprocessEnd(c) PROVE Typed'
  BY <1>9 DEF PreprocessEnd, Calls
<1>10. CASE Close BY <1>10 DEF Close
<1>11. CASE Drain BY <1>11 DEF Drain
<1>12. CASE Collect BY <1>12 DEF Collect
<1>13. ASSUME NEW i \in Inventory, Expire(i) PROVE Typed'
  BY <1>13 DEF Expire
<1> QED BY <1>2, <1>3, <1>4, <1>5, <1>6, <1>7, <1>8, <1>9, <1>10, <1>11, <1>12, <1>13
        DEF Next, RefillStep

\* Nothing is issued after close() got through, whose executor waits for the refill;
\* admission, once stopped, is not resumed.
LEMMA PhasesStep ==
  ASSUME IInv, Next
  PROVE  Phases'
<1>1. Typed /\ Phases /\ foreground = {r \in Response : resp[r] \in InForeground}
  BY DEF IInv, GatesInv
<1> USE <1>1 DEF Typed, Phases, gates, stock
<1>2. ASSUME NEW r \in Response, RespondStep(r)
      PROVE  Phases'
  <2>1. CASE BeginForeground(r) BY <2>1 DEF BeginForeground, MayBegin
  <2>2. CASE Reserve(r)
    <3>1. shut = "open"
      BY <2>2 DEF Reserve, InForeground
    <3> QED BY <2>2, <3>1 DEF Reserve
  <2>3. CASE GoOnline(r)
    <3>1. shut = "open"
      BY <2>3 DEF GoOnline, InForeground
    <3> QED BY <2>3, <3>1 DEF GoOnline
  <2>4. CASE Opened(r) BY <2>4 DEF Opened
  <2>5. CASE OpenFails(r)
    <3>1. shut = "open"
      BY <2>5 DEF OpenFails, InForeground
    <3> QED BY <2>5, <3>1 DEF OpenFails
  <2>6. CASE FinishLease(r)
    <3>1. shut = "open"
      BY <2>6 DEF FinishLease, InForeground
    <3> QED BY <2>6, <3>1 DEF FinishLease
  <2>7. CASE GoOffline(r) BY <2>7 DEF GoOffline
  <2>8. CASE Uncount(r) BY <2>8 DEF Uncount
  <2>9. CASE FinishRetired(r)
    <3>1. shut = "open"
      BY <2>9 DEF FinishRetired, InForeground
    <3> QED BY <2>9, <3>1 DEF FinishRetired
  <2>10. CASE EndForeground(r) BY <2>10 DEF EndForeground
  <2>11. CASE Schedule(r) BY <2>11 DEF Schedule
  <2>12. CASE Submit(r) BY <2>12 DEF Submit
  <2>13. CASE EpochEnds(r)
    <3>1. shut = "open"
      BY <2>13 DEF EpochEnds, InForeground
    <3> QED BY <2>13, <3>1 DEF EpochEnds
  <2> QED BY <1>2, <2>1, <2>2, <2>3, <2>4, <2>5, <2>6, <2>7, <2>8, <2>9, <2>10, <2>11, <2>12, <2>13
          DEF RespondStep
<1>3. CASE RefillStart BY <1>3 DEF RefillStart
<1>4. CASE RefillBegin
  <2>1. CASE MayPrepare
    <3>1. shut = "open" /\ refill.got = None
      BY <1>4, <2>1 DEF RefillBegin, MayPrepare
    <3>2. preparing' = preparing \cup {"refill"} /\ refill'.pc = "issuing" /\ refill'.got = None
      BY <1>4, <2>1, <3>1 DEF RefillBegin
    <3>3. UNCHANGED <<shut, call, inv, foreground, closing>>
      BY <1>4 DEF RefillBegin
    <3> QED BY <3>1, <3>2, <3>3, ThreadsAssumption
  <2>2. CASE ~MayPrepare
    <3>1. preparing' = preparing /\ refill'.pc = "installing" /\ refill'.got = None
      BY <1>4, <2>2 DEF RefillBegin
    <3>2. UNCHANGED <<shut, call, inv, foreground, closing>> /\ refill.pc = "admission"
      BY <1>4 DEF RefillBegin
    <3> QED BY <3>1, <3>2
  <2> QED BY <2>1, <2>2
<1>5. CASE RefillIssue BY <1>5, ThreadsAssumption DEF RefillIssue
<1>6. CASE RefillInstall BY <1>6 DEF RefillInstall
<1>7. ASSUME NEW c \in Caller, PreprocessBegin(c) PROVE Phases'
  BY <1>7, ThreadsAssumption DEF PreprocessBegin, Calls, MayPrepare
<1>8. ASSUME NEW c \in Caller, Preprocess(c) PROVE Phases'
  <2>1. shut = "open"
    BY <1>8 DEF Preprocess, PreprocessWith
  <2> QED BY <1>8, <2>1 DEF Preprocess, PreprocessWith, Calls
<1>9. ASSUME NEW c \in Caller, PreprocessEnd(c) PROVE Phases'
  BY <1>9, ThreadsAssumption DEF PreprocessEnd, Calls
<1>10. CASE Close BY <1>10 DEF Close
<1>11. CASE Drain BY <1>11 DEF Drain
<1>12. CASE Collect
  <2>1. \A i \in Inventory : inv'[i].st # "live"
    BY <1>12, CollectKeeps
  <2> QED BY <1>12, <2>1 DEF Collect
<1>13. ASSUME NEW i \in Inventory, Expire(i) PROVE Phases'
  BY <1>13 DEF Expire
<1> QED BY <1>2, <1>3, <1>4, <1>5, <1>6, <1>7, <1>8, <1>9, <1>10, <1>11, <1>12, <1>13
        DEF Next, RefillStep

\* A response is counted when its session is open, and uncounted once.
LEMMA CountStep ==
  ASSUME IInv, Next
  PROVE  ActiveIsCounted'
<1> DEFINE Counts == {"online", "drained", "offline"}
           Counted == {x \in Response : resp[x] \in Counts}
<1>1. IsFiniteSet(Counted) /\ active = Cardinality(Counted)
  BY ThreadsAssumption, FS_Subset DEF IInv, ActiveIsCounted
<1>2. resp = [x \in Response |-> resp[x]]
  BY DEF IInv, GatesInv
<1>3. ASSUME NEW r \in Response, NEW place, resp' = [resp EXCEPT ![r] = place],
             resp[r] \in Counts <=> place \in Counts, active' = active
      PROVE  ActiveIsCounted'
  <2>1. Counted' = Counted
    BY <1>2, <1>3
  <2> QED BY <1>1, <1>3, <2>1 DEF ActiveIsCounted
<1>4. ASSUME resp' = resp, active' = active
      PROVE  ActiveIsCounted'
  BY <1>1, <1>4 DEF ActiveIsCounted
<1>5. ASSUME NEW r \in Response, RespondStep(r)
      PROVE  ActiveIsCounted'
  <2>1. CASE Opened(r)
    <3>1. Counted' = Counted \cup {r} /\ r \notin Counted
      BY <1>2, <2>1 DEF Opened, Goes
    <3>2. Cardinality(Counted') = Cardinality(Counted) + 1
      BY <1>1, <3>1, FS_AddElement
    <3> QED BY <1>1, <2>1, <3>2 DEF Opened, ActiveIsCounted
  <2>2. CASE Uncount(r)
    <3>1. Counted' = Counted \ {r} /\ r \in Counted
      BY <1>2, <2>2 DEF Uncount, Goes
    <3>2. Cardinality(Counted') = Cardinality(Counted) - 1
      BY <1>1, <3>1, FS_RemoveElement
    <3> QED BY <1>1, <2>2, <3>2 DEF Uncount, ActiveIsCounted
  <2>3. CASE ~Opened(r) /\ ~Uncount(r)
    <3>1. active' = active
      BY <1>5, <2>3 DEF RespondStep, BeginForeground, Reserve, GoOnline, OpenFails, FinishLease,
         GoOffline, FinishRetired, EpochEnds, EndForeground, Schedule, Submit
    <3>2. \E place : /\ resp' = [resp EXCEPT ![r] = place]
                     /\ resp[r] \in Counts <=> place \in Counts
      <4> USE DEF Goes
      <4>1. CASE BeginForeground(r)
        <5>1. \/ resp' = [resp EXCEPT ![r] = "foreground"]
              \/ resp' = [resp EXCEPT ![r] = "over"]
          BY <4>1 DEF BeginForeground
        <5>2. resp[r] \notin Counts
          BY <4>1 DEF BeginForeground
        <5> QED BY <5>1, <5>2
      <4>2. CASE Reserve(r)
        <5>1. \/ resp' = [resp EXCEPT ![r] = "ending"]
              \/ resp' = [resp EXCEPT ![r] = "reserved"]
          BY <4>2 DEF Reserve
        <5>2. resp[r] \notin Counts
          BY <4>2 DEF Reserve
        <5> QED BY <5>1, <5>2
      <4>3. CASE GoOnline(r)
        <5>1. \/ resp' = [resp EXCEPT ![r] = "posting"]
              \/ resp' = [resp EXCEPT ![r] = "ending"]
          BY <4>3 DEF GoOnline
        <5>2. resp[r] \notin Counts
          BY <4>3 DEF GoOnline
        <5> QED BY <5>1, <5>2
      <4>4. CASE OpenFails(r)
        <5>1. resp' = [resp EXCEPT ![r] = "ending"] /\ resp[r] \notin Counts
          BY <4>4 DEF OpenFails
        <5> WITNESS "ending"
        <5> QED BY <5>1
      <4>5. CASE FinishLease(r)
        <5>1. resp' = [resp EXCEPT ![r] = "drained"] /\ resp[r] \in Counts
          BY <4>5 DEF FinishLease
        <5> WITNESS "drained"
        <5> QED BY <5>1
      <4>6. CASE GoOffline(r)
        <5>1. resp' = [resp EXCEPT ![r] = "offline"] /\ resp[r] \in Counts
          BY <4>6 DEF GoOffline
        <5> WITNESS "offline"
        <5> QED BY <5>1
      <4>7. CASE FinishRetired(r)
        <5>1. resp' = [resp EXCEPT ![r] = "ending"] /\ resp[r] \notin Counts
          BY <4>7 DEF FinishRetired
        <5> WITNESS "ending"
        <5> QED BY <5>1
      <4>8. CASE EndForeground(r)
        <5>1. \/ resp' = [resp EXCEPT ![r] = "scheduling"]
              \/ resp' = [resp EXCEPT ![r] = "over"]
          BY <4>8 DEF EndForeground
        <5>2. resp[r] \notin Counts
          BY <4>8 DEF EndForeground
        <5> QED BY <5>1, <5>2
      <4>9. CASE Schedule(r)
        <5>1. \/ resp' = [resp EXCEPT ![r] = "over"]
              \/ resp' = [resp EXCEPT ![r] = "submitting"]
          BY <4>9 DEF Schedule
        <5>2. resp[r] \notin Counts
          BY <4>9 DEF Schedule
        <5> QED BY <5>1, <5>2
      <4>10. CASE Submit(r)
        <5>1. resp' = [resp EXCEPT ![r] = "over"] /\ resp[r] \notin Counts
          BY <4>10 DEF Submit
        <5> WITNESS "over"
        <5> QED BY <5>1
      <4>11. CASE EpochEnds(r)
        <5>1. resp' = [resp EXCEPT ![r] = "ending"] /\ resp[r] \notin Counts
          BY <1>2, <4>11 DEF EpochEnds
        <5> WITNESS "ending"
        <5> QED BY <5>1
      <4> QED BY <1>5, <2>3, <4>1, <4>2, <4>3, <4>4, <4>5, <4>6, <4>7, <4>8, <4>9, <4>10, <4>11
              DEF RespondStep
    <3> QED BY <1>3, <3>1, <3>2
  <2> QED BY <2>1, <2>2, <2>3
<1>6. ASSUME \/ RefillStep
             \/ \E c \in Caller : PreprocessBegin(c) \/ Preprocess(c) \/ PreprocessEnd(c)
             \/ Close \/ Drain \/ Collect
             \/ \E i \in Inventory : Expire(i)
      PROVE  resp' = resp /\ active' = active
  BY <1>6 DEF RefillStep, RefillStart, RefillBegin, RefillIssue, RefillInstall, PreprocessBegin,
     Preprocess, PreprocessWith, PreprocessEnd, Close, Drain, Collect, Expire
<1> QED BY <1>4, <1>5, <1>6 DEF Next

\* An inventory is kept from its issue to its end, whichever threads reserve, refill,
\* preprocess and close in whichever order, and whatever the provider drops: it is never
\* forgotten with live rows, never cancelled under a lease, none is left by close(), and
\* the counter that says whether any is in use is exact.
THEOREM InventoriesAreKept == Spec => []InventoriesKept
<1>1. IInv /\ [Next]_vars => IInv'
  <2> SUFFICES ASSUME IInv, [Next]_vars PROVE IInv'
    OBVIOUS
  <2>1. CASE UNCHANGED vars
    BY <2>1 DEF vars, IInv, Typed, GatesInv, Placed, Backed, Stocked, Leased, Phases, ActiveIsCounted
  <2>2. CASE Next
    <3>1. GatesInv'
      BY <2>2, GatesRespond, GatesOthers DEF Next, IInv
    <3> QED BY <2>2, <3>1, TypedStep, StockStep, PhasesStep, CountStep DEF IInv
  <2> QED BY <2>1, <2>2
<1>2. IInv => InventoriesKept
  <2> SUFFICES ASSUME IInv PROVE InventoriesKept
    OBVIOUS
  <2> USE DEF IInv
  <2>1. TypeOK
    <3>1. foreground \subseteq Response /\ online \subseteq Response
      BY DEF GatesInv
    <3>2. /\ inv \in [Inventory -> [st : {"unused", "live", "cancelled"}, reserved : 0 .. Rows,
                                    leases : SUBSET Response]]
          /\ retired \subseteq Inventory
          /\ current \in Inventory \cup {None} /\ spare \in Inventory \cup {None}
      BY DEF Placed, Stocked, InventoryRecord
    <3>3. resp \in [Response -> {"new", "foreground", "reserved", "posting", "online", "drained",
             "offline", "uncounted", "ending", "scheduling", "submitting", "over"}]
      BY DEF GatesInv, InForeground
    <3> QED BY <3>1, <3>2, <3>3 DEF Typed, TypeOK
  <2>2. LeasesAreLive
    BY DEF Typed, Backed, Leased, LeasesAreLive
  <2>3. NoneForgotten
    BY DEF Placed, Stocked, NoneForgotten
  <2>4. ClosedHoldsNothing
    BY DEF Typed, GatesInv, Phases, ClosedHoldsNothing, InForeground, InOnline
  <2> QED BY <2>1, <2>2, <2>3, <2>4 DEF InventoriesKept
<1> QED BY <1>1, <1>2, IInvInit, PTL DEF Spec

-----------------------------------------------------------------------------
(* PreparationIssuance.  What the client prepares is an inventory of the     *)
(* stock above; the two systems share no state and no operation.             *)
(* A client is one user of the services: every step  *)
(* of it is a step of theirs (IssueServed), so PreparedIsDelivered holds of  *)
(* it.  IssueInv adds where every job and every call is at each step of the  *)
(* client, and that an inventory the inference service committed to stays    *)
(* whole there until it is over.                                             *)

Desk == INSTANCE PreparationService_proofs WITH
  Session <- {Prepared}, Owner <- {Prepared}, Authorization <- {Prepared},
  Stage <- 1 .. N, Attempt <- 1 .. N, Request <- 1 .. N, Capacity <- 1

\* The services the client talks to are those PreparedIsDelivered is about.
LEMMA SameDesk ==
  /\ Service!Init <=> Desk!Init
  /\ Service!vars = Desk!vars
  /\ Service!TypeOK <=> Desk!TypeOK
  /\ Service!HeldIsAuthorized <=> Desk!HeldIsAuthorized
<1>1. Service!Init <=> Desk!Init
  BY DEF Service!Init, Desk!Init, Stages, Service!NewAuthorization, Desk!NewAuthorization,
         Service!NewRequest, Desk!NewRequest
<1>2. Service!vars = Desk!vars
  BY DEF Service!vars, Desk!vars
<1>3. Service!TypeOK <=> Desk!TypeOK
  BY DEF Service!TypeOK, Desk!TypeOK, Service!Mail, Desk!Mail, Stages
<1>4. Service!HeldIsAuthorized <=> Desk!HeldIsAuthorized
  BY DEF Service!HeldIsAuthorized, Desk!HeldIsAuthorized
<1> QED BY <1>1, <1>2, <1>3, <1>4

\* The authorize call and the cancels.
LEMMA DeskAdmits ==
  /\ Service!Reserve(Prepared, Prepared, Prepared) => Desk!Next
  /\ Service!ReserveRefused(Prepared, Prepared) => Desk!Next
  /\ Service!Authorize(Prepared) => Desk!Next
  /\ Service!Activate(Prepared) => Desk!Next
  /\ Service!AuthorizeRaises(Prepared) => Desk!Next
  /\ Service!Cleanup(Prepared) => Desk!Next
  /\ Service!CancelInference(Prepared) => Desk!Next
  /\ Service!CancelPreparation(Prepared, Prepared) => Desk!Next
<1> DEFINE p == Prepared
<1>0. \A X : Service!Cardinality(X) = Desk!Cardinality(X)
  BY DEF Service!Cardinality, Desk!Cardinality
<1>1. Service!Reserve(p, p, p) => Desk!Reserve(p, p, p)
  BY <1>0 DEF Service!Reserve, Desk!Reserve, Service!inferenceVars, Desk!inferenceVars
<1>2. Service!ReserveRefused(p, p) => Desk!ReserveRefused(p, p)
  BY <1>0 DEF Service!ReserveRefused, Desk!ReserveRefused, Service!inferenceVars, Desk!inferenceVars
<1>3. Service!Authorize(p) => Desk!Authorize(p)
  BY DEF Service!Authorize, Desk!Authorize
<1>4. Service!AuthorizationFails(p) => Desk!AuthorizationFails(p)
  BY DEF Service!AuthorizationFails, Desk!AuthorizationFails, Service!Released, Desk!Released,
         Service!Registered, Desk!Registered, Service!inferenceVars, Desk!inferenceVars
<1>5. Service!Activate(p) => Desk!Activate(p)
  BY <1>4 DEF Service!Activate, Desk!Activate, Service!Registered, Desk!Registered,
         Service!inferenceVars, Desk!inferenceVars
<1>6. Service!AuthorizeRaises(p) => Desk!AuthorizeRaises(p)
  BY <1>4 DEF Service!AuthorizeRaises, Desk!AuthorizeRaises
<1>7. Service!Cleanup(p) => Desk!Cleanup(p)
  BY DEF Service!Cleanup, Desk!Cleanup, Service!inferenceVars, Desk!inferenceVars
<1>8. Service!CancelInference(p) => Desk!CancelInference(p)
  BY DEF Service!CancelInference, Desk!CancelInference, Service!serviceVars, Desk!serviceVars
<1>9. Service!CancelPreparation(p, p) => Desk!CancelPreparation(p, p)
  BY DEF Service!CancelPreparation, Desk!CancelPreparation, Service!Released, Desk!Released,
         Service!Registered, Desk!Registered, Service!inferenceVars, Desk!inferenceVars
<1>10. p \in {Prepared}
  OBVIOUS
<1> HIDE DEF p
<1> QED BY <1>1, <1>2, <1>3, <1>5, <1>6, <1>7, <1>8, <1>9, <1>10 DEF Desk!Next, p

\* The stage calls.
LEMMA DeskServes ==
  ASSUME NEW s \in 1 .. N
  PROVE  /\ Service!Hydrate(s, Prepared, Prepared, s, s) => Desk!Next
         /\ Service!HydrateRefused(s, Prepared, Prepared) => Desk!Next
         /\ Service!Consume(s) => Desk!Next
         /\ Service!Push(s) => Desk!Next
         /\ Service!RequestRaises(s) => Desk!Next
         /\ Service!Accept(s) => Desk!Next
         /\ Service!Acknowledge(s) => Desk!Next
<1> DEFINE p == Prepared
<1>1. \A o, t, e : Service!RequestEnds(s, o, t, e) => Desk!RequestEnds(s, o, t, e)
  BY DEF Service!RequestEnds, Desk!RequestEnds, Service!Released, Desk!Released,
         Service!Registered, Desk!Registered, Service!inferenceVars, Desk!inferenceVars
<1>2. Service!Authorized(p, p) <=> Desk!Authorized(p, p)
  BY DEF Service!Authorized, Desk!Authorized, Service!Registered, Desk!Registered
<1>3. Service!Hydrate(s, p, p, s, s) => Desk!Hydrate(s, p, p, s, s)
  BY <1>2 DEF Service!Hydrate, Desk!Hydrate, Service!inferenceVars, Desk!inferenceVars
<1>4. Service!HydrateRefused(s, p, p) => Desk!HydrateRefused(s, p, p)
  BY <1>1, <1>2 DEF Service!HydrateRefused, Desk!HydrateRefused
<1>5. Service!Unconsumed(s) <=> Desk!Unconsumed(s)
  BY DEF Service!Unconsumed, Desk!Unconsumed, Service!Authorized, Desk!Authorized,
         Service!Registered, Desk!Registered
<1>6. Service!Consume(s) => Desk!Consume(s)
  BY <1>1, <1>5 DEF Service!Consume, Desk!Consume, Service!inferenceVars, Desk!inferenceVars
<1>7. Service!Push(s) => Desk!Push(s)
  BY DEF Service!Push, Desk!Push, Service!inferenceVars, Desk!inferenceVars
<1>8. Service!RequestRaises(s) => Desk!RequestRaises(s)
  BY <1>1 DEF Service!RequestRaises, Desk!RequestRaises
<1>9. Service!Accept(s) => Desk!Accept(s)
  BY DEF Service!Accept, Desk!Accept, Service!Acceptable, Desk!Acceptable
<1>10. Service!Acknowledge(s) => Desk!Acknowledge(s)
  BY <1>1 DEF Service!Acknowledge, Desk!Acknowledge, Service!inferenceVars, Desk!inferenceVars
<1>11. p \in {Prepared}
  OBVIOUS
<1> HIDE DEF p
<1> QED BY <1>3, <1>4, <1>6, <1>7, <1>8, <1>9, <1>10, <1>11 DEF Desk!Next, p

JobState ==
  {"new", "submitted", "running", "returned", "raised", "accepted", "dropped", "discarded"}

Underway == {"created", "authorizing", "check", "fill", "collect", "abort"}

\* The shape of the client's part.
IssueTyped ==
  /\ pc \in {"created", "authorizing", "check", "fill", "collect", "abort", "join",
               "sealing", "unwind", "ready", "failed"}
  /\ next \in 1 .. N + 1 /\ job \in [1 .. N -> JobState]
  /\ posted \subseteq (1 .. N) \cup {Prepared}
  /\ sent \subseteq {"inference", "preparation", "ready"} /\ handled \subseteq sent
  /\ ready \in BOOLEAN /\ stopping \in BOOLEAN

\* Where each job is when the client is at a step: stages are begun in order, and
\* threads are joined before anything is thrown away.
IssueJobs ==
  /\ \A s \in 1 .. N : job[s] = "new" <=> s >= next
  /\ pc \in {"created", "authorizing"} => next = 1
  /\ pc \in Underway => \A s \in 1 .. N : job[s] \notin {"dropped", "discarded"}
  /\ pc \in {"sealing", "ready"} => \A s \in 1 .. N : job[s] = "accepted"
  /\ pc \in {"join", "unwind", "failed"} => \A s \in 1 .. N : job[s] # "submitted"
  /\ pc \in {"unwind", "failed"} => \A s \in 1 .. N : job[s] \notin {"running", "returned"}
  /\ pc = "failed" => \A s \in 1 .. N : job[s] # "accepted"

\* Nothing is cancelled before it is aborted; the one seal is of all corrections.
IssueSealed ==
  /\ pc \in Underway => sent = {}
  /\ pc \in {"sealing", "ready"} => sent = {"ready"}
  /\ pc = "ready" => ready /\ "ready" \in handled
  /\ ready /\ expected[Prepared] # "over" => held = 1 .. N

IssueInv == IssueTyped /\ IssueJobs /\ IssueSealed

-----------------------------------------------------------------------------
\* What the services do to a session: corrections are added until it is over.
LEMMA DeskHolds ==
  ASSUME Desk!TypeOK, Desk!TypeOK', [Desk!Next]_(Desk!vars)
  PROVE  /\ expected[Prepared] = "over" => expected'[Prepared] = "over"
         /\ expected'[Prepared] = "over" \/ held \subseteq held'
         /\ held' \subseteq 1 .. N
<1>1. /\ expected \in [{Prepared} -> {"open", "authorized", "over"}]
      /\ held' \subseteq 1 .. N
  BY DEF Desk!TypeOK
<1>2. CASE UNCHANGED Desk!vars
  BY <1>1, <1>2 DEF Desk!vars
<1>3. CASE Desk!CancelInference(Prepared)
  BY <1>1, <1>3 DEF Desk!CancelInference
<1>4. ASSUME NEW a \in {Prepared}, Desk!Authorize(a)
      PROVE  /\ expected[Prepared] = "over" => expected'[Prepared] = "over"
             /\ held' = held
  BY <1>1, <1>4 DEF Desk!Authorize
<1>5. ASSUME NEW r \in 1 .. N, Desk!Accept(r)
      PROVE  expected' = expected /\ held \subseteq held'
  BY <1>5 DEF Desk!Accept
<1>6. CASE UNCHANGED <<expected, held>>
  BY <1>1, <1>6
<1>7. \/ UNCHANGED Desk!vars \/ Desk!CancelInference(Prepared) \/ UNCHANGED <<expected, held>>
      \/ \E a \in {Prepared} : Desk!Authorize(a)
      \/ \E r \in 1 .. N : Desk!Accept(r)
  <2>1. CASE \E s \in {Prepared} :
               \/ Desk!Cleanup(s) \/ Desk!CancelInference(s)
               \/ \E o \in {Prepared} : Desk!CancelPreparation(s, o)
    BY <2>1 DEF Desk!Cleanup, Desk!CancelPreparation, Desk!inferenceVars
  <2>2. CASE \E a \in {Prepared} :
               \/ \E s \in {Prepared} : Desk!ReserveRefused(a, s) \/ \E o \in {Prepared} : Desk!Reserve(a, s, o)
               \/ Desk!Authorize(a) \/ Desk!Activate(a) \/ Desk!AuthorizeRaises(a) \/ Desk!AuthorizeBreaks(a)
    BY <2>2 DEF Desk!ReserveRefused, Desk!Reserve, Desk!Activate, Desk!AuthorizeRaises, Desk!AuthorizeBreaks,
                Desk!AuthorizationFails, Desk!inferenceVars
  <2>3. CASE \E r \in 1 .. N :
               \/ \E s \in {Prepared}, o \in {Prepared} :
                    Desk!HydrateRefused(r, s, o)
                    \/ \E t \in 1 .. N, i \in 1 .. N : Desk!Hydrate(r, s, o, t, i)
               \/ Desk!Consume(r) \/ Desk!Push(r) \/ Desk!RequestRaises(r) \/ Desk!Accept(r) \/ Desk!Acknowledge(r)
    BY <2>3 DEF Desk!HydrateRefused, Desk!Hydrate, Desk!Consume, Desk!Push, Desk!RequestRaises,
                Desk!Acknowledge, Desk!RequestEnds, Desk!inferenceVars
  <2> QED BY <2>1, <2>2, <2>3 DEF Desk!Next
<1> QED BY <1>1, <1>2, <1>3, <1>4, <1>5, <1>6, <1>7

\* The calls the client posts are the authorize call and those of its stages.
CallsPosted == posted \subseteq (1 .. N) \cup {Prepared}

\* Nothing else is posted: a thread posts the call of its own stage.
LEMMA IssuePosts ==
  ASSUME CallsPosted, [IssueNext]_(issueVars)
  PROVE  CallsPosted'
<1>1. CASE Main
  <2>1. posted' \in {posted, posted \cup {Prepared}}
    BY <1>1 DEF Main, Post, Authorized, AuthorizationRaises, Check, SubmitStage,
                Filled, Collected, AcceptRows, Failed, Finished, Abort,
                Join, Sealed, SealRaises, Unwind
  <2> QED BY <2>1 DEF CallsPosted
<1>2. CASE \E s \in Stages : Run(s) \/ Return(s) \/ Raise(s)
  BY <1>2 DEF Run, Return, Raise, Stages, CallsPosted
<1>3. CASE UNCHANGED posted
  BY <1>3 DEF CallsPosted
<1> QED
  BY <1>1, <1>2, <1>3 DEF IssueNext, StopClient, ArriveCancel, ArriveReady, Serve,
                          ForgetIdle, issueVars

\* The client is a user of the services: every step of it is a step of theirs.
LEMMA IssueServed ==
  ASSUME CallsPosted, [IssueNext]_(issueVars)
  PROVE  [Desk!Next]_(Desk!vars)
<1>1. posted \ {Prepared} \subseteq 1 .. N
  BY DEF CallsPosted
<1>2. ASSUME UNCHANGED serviceVars
      PROVE  UNCHANGED Desk!vars
  BY <1>2 DEF serviceVars, Desk!vars
<1>3. CASE ArriveCancel \/ Serve \/ ForgetIdle
  <2>1. CASE ArriveCancel
    BY <2>1, DeskAdmits DEF ArriveCancel
  <2>2. CASE ForgetIdle
    BY <2>2, DeskAdmits DEF ForgetIdle
  <2>3. CASE Serve
    BY <1>1, <2>3, DeskAdmits, DeskServes DEF Serve, Handlers
  <2> QED BY <1>3, <2>1, <2>2, <2>3
<1>4. CASE Main
  <2> DEFINE same == UNCHANGED serviceVars
  <2>1. same => UNCHANGED Desk!vars
    BY <1>2
  <2>2. CASE Post \/ Authorized \/ AuthorizationRaises \/ Check
    BY <2>1, <2>2 DEF Post, Authorized, AuthorizationRaises, Check, Proceeds
  <2>3. CASE Filled \/ Collected \/ \E s \in Stages : AcceptRows(s) \/ Failed(s)
    BY <2>1, <2>3 DEF Filled, Collected, AcceptRows, Failed, Proceeds
  <2>4. CASE Finished \/ Abort \/ Join \/ Sealed \/ SealRaises \/ Unwind
    BY <2>1, <2>4 DEF Finished, Abort, Join, Sealed, SealRaises, Unwind, Proceeds
  <2>5. SubmitStage => same
    BY DEF SubmitStage
  <2> QED BY <1>4, <2>1, <2>2, <2>3, <2>4, <2>5 DEF Main
<1>5. CASE \/ \E s \in Stages : Run(s) \/ Return(s) \/ Raise(s)
           \/ StopClient \/ ArriveReady
  BY <1>2, <1>5 DEF Run, Return, Raise, StopClient, ArriveReady
<1>6. CASE UNCHANGED issueVars
  BY <1>6 DEF issueVars, Desk!vars
<1> QED BY <1>3, <1>4, <1>5, <1>6 DEF IssueNext

\* The client before it posts anything.
LEMMA IssueStart ==
  ASSUME IssueInit
  PROVE  IssueInv /\ Desk!Init
<1>1. N \in Nat \ {0}
  BY WindowAssumption
<1>2. /\ pc = "created" /\ next = 1 /\ job = [s \in 1 .. N |-> "new"]
      /\ posted = {} /\ sent = {} /\ handled = {} /\ ready = FALSE /\ stopping = FALSE
  BY DEF IssueInit, Stages
<1>3. IssueTyped
  <2>1. next \in 1 .. N + 1
    BY <1>1, <1>2
  <2>2. job \in [1 .. N -> JobState]
    BY <1>2 DEF JobState
  <2> QED BY <1>2, <2>1, <2>2 DEF IssueTyped
<1>4. IssueJobs
  <2>1. \A s \in 1 .. N : job[s] = "new" /\ s >= next
    BY <1>1, <1>2
  <2> QED BY <1>2, <2>1 DEF IssueJobs
<1>5. IssueSealed
  BY <1>2 DEF IssueSealed
<1>6. Desk!Init
  BY SameDesk DEF IssueInit
<1> QED BY <1>3, <1>4, <1>5, <1>6 DEF IssueInv

\* A committed inventory stays whole at the inference service until it is over.
LEMMA StaysWhole ==
  ASSUME IssueInv, Desk!TypeOK, Desk!TypeOK', [Desk!Next]_(Desk!vars), ready' = ready
  PROVE  ready' /\ expected'[Prepared] # "over" => held' = 1 .. N
BY DeskHolds DEF IssueInv, IssueSealed

\* The client's variables but the jobs, the calls and the commit.
Stands == UNCHANGED <<pc, next, sent, handled, ready, stopping>>

\* A thread runs a job, returns from it or raises.
LEMMA IssueThread ==
  ASSUME IssueInv, NEW s \in 1 .. N,
         Run(s) \/ Return(s) \/ Raise(s)
  PROVE  IssueTyped' /\ IssueJobs' /\ UNCHANGED <<pc, sent, handled, ready, expected, held>>
<1>1. Stands /\ UNCHANGED <<expected, held>>
  BY DEF Run, Return, Raise, serviceVars, Stands
<1>2. PICK c \in {"running", "returned", "raised"} :
        /\ job' = [job EXCEPT ![s] = c]
        /\ job[s] \in {"submitted", "running"} /\ (c = "running" => job[s] = "submitted" /\ pc # "join")
        /\ (c = "returned" => job[s] = "running")
  <2>1. pc # "join" \/ job[s] # "submitted"
    BY DEF IssueInv, IssueJobs
  <2> QED BY <2>1 DEF Run, Return, Raise, Becomes
<1>3. job \in [1 .. N -> JobState]
  BY DEF IssueInv, IssueTyped
<1>4. job' \in [1 .. N -> JobState] /\ job'[s] = c
      /\ \A t \in 1 .. N : t # s => job'[t] = job[t]
  BY <1>2, <1>3 DEF JobState
<1>5. posted' \subseteq (1 .. N) \cup {Prepared}
  BY DEF Run, Return, Raise, IssueInv, IssueTyped
<1>6. IssueTyped'
  BY <1>1, <1>4, <1>5 DEF IssueInv, IssueTyped, Stands
<1>7. \A t \in 1 .. N : job'[t] = "new" <=> t >= next
  BY <1>2, <1>4 DEF IssueInv, IssueJobs
<1>8. pc \notin {"sealing", "ready", "unwind", "failed"}
  BY <1>2 DEF IssueInv, IssueJobs
<1>9. IssueJobs'
  BY <1>1, <1>2, <1>4, <1>7, <1>8 DEF IssueInv, IssueJobs, Stands, Underway
<1> QED BY <1>1, <1>6, <1>9 DEF Stands

\* The client goes on and leaves the jobs as they are.
LEMMA IssueGoes ==
  ASSUME IssueInv,
         \/ Post \/ Authorized \/ AuthorizationRaises \/ Check
         \/ Filled \/ Collected \/ \E s \in 1 .. N : Failed(s)
  PROVE  IssueInv'
<1> DEFINE Leg(from, to) == pc = from /\ pc' = to
<1>1. UNCHANGED <<next, job, sent, handled, ready, stopping, expected, held>>
  BY DEF Post, Authorized, AuthorizationRaises, Check, Filled,
         Collected, Failed, Proceeds, serviceVars
<1>2. \/ Leg("created", "authorizing") \/ Leg("created", "unwind")
      \/ Leg("authorizing", "check") \/ Leg("authorizing", "unwind")
      \/ Leg("check", "abort") \/ Leg("check", "fill") \/ Leg("fill", "collect")
      \/ Leg("collect", "check") \/ Leg("collect", "abort")
  BY DEF Post, Authorized, AuthorizationRaises, Check, Filled,
         Collected, Failed, Proceeds
<1>3. posted' \subseteq (1 .. N) \cup {Prepared}
  BY DEF Post, Authorized, AuthorizationRaises, Check, Filled,
         Collected, Failed, IssueInv, IssueTyped
<1>4. IssueTyped'
  BY <1>1, <1>2, <1>3 DEF IssueInv, IssueTyped
<1>5. pc \in {"created", "authorizing"} => \A s \in 1 .. N : job[s] = "new"
  <2> SUFFICES ASSUME pc \in {"created", "authorizing"}, NEW s \in 1 .. N PROVE job[s] = "new"
    OBVIOUS
  <2>1. next = 1 /\ (job[s] = "new" <=> s >= next)
    BY DEF IssueInv, IssueJobs
  <2> QED BY <2>1
<1>6. IssueJobs'
  BY <1>1, <1>2, <1>5 DEF IssueInv, IssueJobs, Underway
<1>7. IssueSealed'
  BY <1>1, <1>2 DEF IssueInv, IssueSealed, Underway
<1> QED BY <1>4, <1>6, <1>7 DEF IssueInv

\* A job is submitted, and one is accepted.
LEMMA IssueCollects ==
  ASSUME IssueInv,
         SubmitStage \/ \E s \in 1 .. N : AcceptRows(s)
  PROVE  IssueInv'
<1>1. UNCHANGED <<pc, sent, handled, ready, stopping, expected, held>>
      /\ UNCHANGED posted /\ pc \in Underway
      /\ pc \notin {"created", "authorizing", "sealing", "ready", "join", "unwind", "failed"}
  BY DEF SubmitStage, AcceptRows, Proceeds, serviceVars, Underway
<1>2. job \in [1 .. N -> JobState] /\ next \in 1 .. N + 1 /\ N \in Nat
  BY WindowAssumption DEF IssueInv, IssueTyped
<1>3. CASE SubmitStage
  <2>1. next <= N /\ next' = next + 1
        /\ job' = [job EXCEPT ![next] = "submitted"]
    BY <1>3 DEF SubmitStage, Fits, Becomes
  <2>2. next \in 1 .. N
    BY <1>2, <2>1
  <2>3. job' \in [1 .. N -> JobState] /\ job'[next] = "submitted"
        /\ \A t \in 1 .. N : t # next => job'[t] = job[t]
    BY <1>2, <2>1, <2>2 DEF JobState
  <2>4. next' \in 1 .. N + 1
    BY <1>2, <2>1
  <2>5. IssueTyped'
    BY <1>1, <2>3, <2>4 DEF IssueInv, IssueTyped
  <2>6. \A t \in 1 .. N : job'[t] = "new" <=> t >= next + 1
    BY <1>2, <2>3 DEF IssueInv, IssueJobs
  <2>7. IssueJobs'
    BY <1>1, <2>1, <2>3, <2>6 DEF IssueInv, IssueJobs
  <2>8. IssueSealed'
    BY <1>1 DEF IssueInv, IssueSealed
  <2> QED BY <2>5, <2>7, <2>8 DEF IssueInv
<1>4. ASSUME NEW s \in 1 .. N, AcceptRows(s)
      PROVE  IssueInv'
  <2>1. job[s] = "returned" /\ next' = next /\ job' = [job EXCEPT ![s] = "accepted"]
    BY <1>4 DEF AcceptRows, Becomes, Proceeds
  <2>2. job' \in [1 .. N -> JobState] /\ job'[s] = "accepted"
        /\ \A t \in 1 .. N : t # s => job'[t] = job[t]
    BY <1>2, <2>1 DEF JobState
  <2>3. IssueTyped'
    BY <1>1, <2>1, <2>2 DEF IssueInv, IssueTyped
  <2>4. IssueJobs'
    BY <1>1, <2>1, <2>2 DEF IssueInv, IssueJobs
  <2>5. IssueSealed'
    BY <1>1 DEF IssueInv, IssueSealed
  <2> QED BY <2>3, <2>4, <2>5 DEF IssueInv
<1> QED BY <1>3, <1>4

\* The client seals the inventory and hands it out.
LEMMA IssueSeals ==
  ASSUME IssueInv, Finished \/ Sealed
  PROVE  IssueInv'
<1>1. UNCHANGED <<next, job, handled, ready, stopping, expected, held, posted>>
  BY DEF Finished, Sealed, Proceeds, serviceVars
<1>2. N \in Nat
  BY WindowAssumption
<1>3. CASE Finished
  <2>1. pc = "check" /\ pc' = "sealing" /\ sent' = sent \cup {"ready"} /\ sent = {}
    BY <1>3 DEF Finished, Proceeds, IssueInv, IssueSealed, Underway
  <2>2. \A s \in 1 .. N : job[s] = "accepted"
    <3> SUFFICES ASSUME NEW s \in 1 .. N PROVE job[s] = "accepted"
      OBVIOUS
    <3>1. job[s] \in JobState /\ job[s] \notin {"dropped", "discarded"}
      BY <2>1 DEF IssueInv, IssueTyped, IssueJobs, Underway
    <3>2. job[s] # "new"
      BY <1>2, <1>3 DEF Finished, IssueInv, IssueTyped, IssueJobs
    <3>3. job[s] \notin {"submitted", "running", "returned", "raised"}
      BY <1>3 DEF Finished, Pending, Stages
    <3> QED BY <3>1, <3>2, <3>3 DEF JobState
  <2>3. IssueTyped'
    BY <1>1, <2>1 DEF IssueInv, IssueTyped
  <2>4. IssueJobs'
    BY <1>1, <2>1, <2>2 DEF IssueInv, IssueJobs, Underway
  <2>5. IssueSealed'
    BY <1>1, <2>1 DEF IssueInv, IssueSealed, Underway
  <2> QED BY <2>3, <2>4, <2>5 DEF IssueInv
<1>4. CASE Sealed
  <2>1. pc = "sealing" /\ pc' = "ready" /\ sent' = sent /\ ready /\ "ready" \in handled
    BY <1>4 DEF Sealed, Proceeds
  <2>2. IssueTyped'
    BY <1>1, <2>1 DEF IssueInv, IssueTyped
  <2>3. IssueJobs'
    BY <1>1, <2>1 DEF IssueInv, IssueJobs, Underway
  <2>4. IssueSealed'
    BY <1>1, <2>1 DEF IssueInv, IssueSealed, Underway
  <2> QED BY <2>2, <2>3, <2>4 DEF IssueInv
<1> QED BY <1>3, <1>4

\* The client gives the inventory up.
LEMMA IssueGivesUp ==
  ASSUME IssueInv,
         Abort \/ Join \/ SealRaises \/ Unwind
  PROVE  IssueInv'
<1>1. UNCHANGED <<next, handled, ready, stopping, expected, held, posted>>
      /\ sent' \in {sent, sent \cup {"inference", "preparation"}}
  BY DEF Abort, Join, SealRaises, Unwind, Proceeds, serviceVars
<1>2. job \in [1 .. N -> JobState]
  BY DEF IssueInv, IssueTyped
<1>3. /\ job' \in [1 .. N -> JobState] /\ pc' \in {"join", "unwind", "failed"}
      /\ \A s \in 1 .. N : job'[s] = "new" <=> job[s] = "new"
      /\ \A s \in 1 .. N : job'[s] # "submitted"
      /\ pc' \in {"unwind", "failed"} => \A s \in 1 .. N : job'[s] \notin {"running", "returned"}
      /\ pc' = "failed" => \A s \in 1 .. N : job'[s] # "accepted"
  <2>1. CASE Abort
    BY <1>2, <2>1 DEF Abort, Proceeds, Stages, JobState
  <2>2. CASE Join
    BY <1>2, <2>2 DEF Join, Proceeds, Stages, JobState
  <2>3. CASE SealRaises
    BY <1>2, <2>3 DEF SealRaises, Proceeds, Stages, JobState, IssueInv, IssueJobs
  <2>4. CASE Unwind
    BY <1>2, <2>4 DEF Unwind, Proceeds, Stages, JobState, IssueInv, IssueJobs
  <2> QED BY <2>1, <2>2, <2>3, <2>4
<1>4. IssueTyped'
  BY <1>1, <1>3 DEF IssueInv, IssueTyped
<1>5. IssueJobs'
  BY <1>1, <1>3 DEF IssueInv, IssueJobs, Underway
<1>6. IssueSealed'
  BY <1>1, <1>3 DEF IssueInv, IssueSealed, Underway
<1> QED BY <1>4, <1>5, <1>6 DEF IssueInv

\* The calls arrive, the services serve, and the client is closed.
LEMMA IssueArrives ==
  ASSUME IssueInv, Desk!TypeOK, Desk!TypeOK', [Desk!Next]_(Desk!vars),
         StopClient \/ ArriveCancel \/ ArriveReady \/ Serve \/ ForgetIdle
  PROVE  IssueInv'
<1>1. UNCHANGED <<pc, next, job, posted, sent>>
  BY DEF StopClient, ArriveCancel, ArriveReady, Serve, ForgetIdle
<1>2. IssueTyped' /\ handled \subseteq handled'
  BY <1>1 DEF StopClient, ArriveCancel, ArriveReady, Serve, ForgetIdle, IssueInv, IssueTyped
<1>3. IssueJobs'
  BY <1>1 DEF IssueInv, IssueJobs
<1>4. pc = "ready" => ready' /\ "ready" \in handled'
  <2>1. CASE ArriveReady
    BY <2>1 DEF ArriveReady, IssueInv, IssueSealed
  <2>2. CASE ready' = ready
    BY <1>2, <2>2 DEF IssueInv, IssueSealed
  <2> QED BY <2>1, <2>2 DEF StopClient, ArriveCancel, Serve, ForgetIdle
<1>5. ready' /\ expected'[Prepared] # "over" => held' = 1 .. N
  <2>1. CASE ArriveReady
    BY <2>1 DEF ArriveReady, serviceVars, Stages
  <2>2. CASE ready' = ready
    BY <2>2, StaysWhole
  <2> QED BY <2>1, <2>2 DEF StopClient, ArriveCancel, Serve, ForgetIdle
<1>6. IssueSealed'
  BY <1>1, <1>4, <1>5 DEF IssueInv, IssueSealed
<1> QED BY <1>2, <1>3, <1>6 DEF IssueInv

\* Every step of the client and of the services keeps the invariant.
LEMMA IssueStep ==
  ASSUME IssueInv, Desk!TypeOK, Desk!TypeOK', [IssueNext]_(issueVars)
  PROVE  IssueInv'
<1>1. [Desk!Next]_(Desk!vars)
  BY IssueServed DEF IssueInv, IssueTyped, CallsPosted
<1>2. CASE Main
  BY <1>2, IssueGoes, IssueCollects, IssueSeals, IssueGivesUp DEF Main, Stages
<1>3. ASSUME NEW s \in 1 .. N, Run(s) \/ Return(s) \/ Raise(s)
      PROVE  IssueInv'
  <2>1. IssueTyped' /\ IssueJobs' /\ UNCHANGED <<pc, sent, handled, ready, expected, held>>
    BY <1>3, IssueThread
  <2>2. IssueSealed'
    BY <2>1 DEF IssueInv, IssueSealed
  <2> QED BY <2>1, <2>2 DEF IssueInv
<1>4. CASE StopClient \/ ArriveCancel \/ ArriveReady \/ Serve \/ ForgetIdle
  BY <1>1, <1>4, IssueArrives
<1>5. CASE UNCHANGED issueVars
  BY <1>5 DEF issueVars, IssueInv, IssueTyped, IssueJobs, IssueSealed
<1> QED BY <1>2, <1>3, <1>4, <1>5 DEF IssueNext, Stages

\* How preparation ends follows from where the jobs and the calls are.
LEMMA IssueConcludes ==
  ASSUME IssueInv, Desk!ServicesAgree
  PROVE  EndsClean
<1>1. IssueTypeOK
  BY SameDesk DEF IssueTypeOK, Desk!ServicesAgree, IssueInv, IssueTyped, JobState, Stages
<1>2. HandedOutWhole
  BY DEF HandedOutWhole, Stages, IssueInv, IssueJobs, IssueSealed
<1>3. NothingLive
  <2> SUFFICES ASSUME pc = "failed", NEW s \in 1 .. N
               PROVE  job[s] \in {"new", "dropped", "raised", "discarded"}
    BY DEF NothingLive, Stages
  <2>1. job[s] \in JobState
    BY DEF IssueInv, IssueTyped
  <2>2. job[s] \notin {"submitted", "running", "returned", "accepted"}
    BY DEF IssueInv, IssueJobs
  <2> QED BY <2>1, <2>2 DEF JobState
<1>4. Service!HeldIsAuthorized
  BY SameDesk DEF Desk!ServicesAgree
<1> QED BY <1>1, <1>2, <1>3, <1>4 DEF EndsClean

\* For any number of stages, any declared work and any window: however preparation
\* ends, it ends clean on both sides.  An inventory that is handed out is whole at
\* the inference service, a failed one leaves no thread and no live seed, and
\* corrections are held only for a session that is authorized, whatever is lost,
\* late or cancelled (_prepare_inventory, run_preparation_window).
THEOREM PreparationEndsClean == IssueSpec => []EndsClean
<1>1. IssueInit => CallsPosted /\ IssueInv /\ Desk!Init
  BY IssueStart DEF IssueInv, IssueTyped, CallsPosted
<1>2. CallsPosted /\ [IssueNext]_(issueVars) => CallsPosted' /\ [Desk!Next]_(Desk!vars)
  BY IssuePosts, IssueServed
<1>3. IssueSpec => Desk!Spec
  BY <1>1, <1>2, PTL DEF IssueSpec, Desk!Spec
<1>4. IssueSpec => []Desk!ServicesAgree
  BY <1>3, Desk!PreparedIsDelivered, PTL
<1>5. IssueInv /\ Desk!ServicesAgree /\ Desk!ServicesAgree' /\ [IssueNext]_(issueVars) => IssueInv'
  BY IssueStep DEF Desk!ServicesAgree
<1>6. IssueInv /\ Desk!ServicesAgree => EndsClean
  BY IssueConcludes
<1> QED BY <1>1, <1>4, <1>5, <1>6, PTL DEF IssueSpec

-----------------------------------------------------------------------------
(* CorrectionChannel implements CorrectionDelivery.  This is how the         *)
(* corrections of an inventory come to the inference service; no state is    *)
(* shared with the systems above.  That a correction is accepted once        *)
(* needs that it is on one wire, once (OnWires), which holds because a push  *)
(* is sent only before it is told anything (Pushes).                         *)

PushRecord ==
  [pc : {"uncalled", "called", "connecting", "enrolled", "sending", "waiting",
         "sent", "acknowledged", "failed"},
   conn : Conn \cup {NoConn}, future : {"open", "result", "error"}]

WireRecord == [ours : BOOLEAN, theirs : BOOLEAN, out : Seq(Push), in : Seq(Push)]

\* Where a push is once its correction may be on the wire.
Gone == {"sent", "waiting", "acknowledged", "failed"}

\* Corrections on the wires W are there once, of pushes P that were sent on them
\* and not accepted yet; acknowledgements are of corrections A that were.
OnWires(W, P, A) ==
  /\ \A c \in Conn : \A i \in 1 .. Len(W[c].out) :
       P[W[c].out[i]].pc \in Gone /\ P[W[c].out[i]].conn = c /\ W[c].out[i] \notin A
  /\ \A c \in Conn : \A i, j \in 1 .. Len(W[c].out) : W[c].out[i] = W[c].out[j] => i = j
  /\ \A c \in Conn : \A i \in 1 .. Len(W[c].in) : W[c].in[i] \in A

\* What push() and its lock holders rely on.
Pushes(P, A) ==
  /\ P \in [Push -> PushRecord]
  /\ \A p \in Push : P[p].pc \in {"enrolled", "sending", "waiting"} => P[p].conn \in Conn
  /\ \A p \in Push : P[p].future = "result" => p \in A
  /\ \A p \in A : P[p].pc \in Gone

Locks ==
  \A p \in Push :
    (connecting = p <=> push[p].pc = "connecting") /\ (sending = p <=> push[p].pc = "sending")

ChannelTyped ==
  /\ socket \in Conn \cup {NoConn} /\ receiver \in Conn \cup {NoConn} /\ closed \in BOOLEAN
  /\ connecting \in Push \cup {NoConn} /\ sending \in Push \cup {NoConn}
  /\ pending \subseteq Push /\ accepted \subseteq Push
  /\ task \in [Conn -> {"none", "reading", "cancelled", "done"}]

ChannelInv ==
  /\ ChannelTyped /\ Locks /\ Pushes(push, accepted)
  /\ wire \in [Conn -> WireRecord] /\ OnWires(wire, push, accepted)

-----------------------------------------------------------------------------
\* Corrections stay on their wires or are lost with them.
LEMMA WiresKept ==
  ASSUME NEW W, NEW V, NEW P, NEW Q, NEW A,
         W \in [Conn -> WireRecord], OnWires(W, P, A),
         \A c \in Conn : V[c].out \in {W[c].out, <<>>} /\ V[c].in \in {W[c].in, <<>>},
         \A p \in Push : P[p].pc \in Gone => Q[p].pc \in Gone /\ Q[p].conn = P[p].conn
  PROVE  OnWires(V, Q, A)
<1>1. \A c \in Conn : W[c].out \in Seq(Push) /\ W[c].in \in Seq(Push)
  BY DEF WireRecord
<1>2. ASSUME NEW c \in Conn, NEW i \in 1 .. Len(V[c].out)
      PROVE  Q[V[c].out[i]].pc \in Gone /\ Q[V[c].out[i]].conn = c /\ V[c].out[i] \notin A
  <2>1. V[c].out = W[c].out
    BY <1>2
  <2>2. W[c].out[i] \in Push
    BY <1>1, <1>2, <2>1
  <2> QED BY <1>2, <2>1, <2>2 DEF OnWires
<1>3. ASSUME NEW c \in Conn, NEW i \in 1 .. Len(V[c].out), NEW j \in 1 .. Len(V[c].out), V[c].out[i] = V[c].out[j]
      PROVE  i = j
  <2>1. V[c].out = W[c].out
    BY <1>3
  <2> QED BY <1>3, <2>1 DEF OnWires
<1>4. ASSUME NEW c \in Conn, NEW i \in 1 .. Len(V[c].in)
      PROVE  V[c].in[i] \in A
  <2>1. V[c].in = W[c].in
    BY <1>4
  <2> QED BY <1>4, <2>1 DEF OnWires
<1> QED BY <1>2, <1>3, <1>4 DEF OnWires

\* A correction is put on its wire for the first time.
LEMMA WirePut ==
  ASSUME NEW W, NEW V, NEW P, NEW Q, NEW A, NEW p \in Push, NEW c \in Conn,
         W \in [Conn -> WireRecord], OnWires(W, P, A), P[p].pc \notin Gone, p \notin A,
         V[c].out = Append(W[c].out, p),
         \A d \in Conn : V[d].in = W[d].in /\ (d # c => V[d].out = W[d].out),
         Q[p].pc \in Gone, Q[p].conn = c,
         \A q \in Push : q # p => Q[q].pc = P[q].pc /\ Q[q].conn = P[q].conn
  PROVE  OnWires(V, Q, A)
<1>1. \A d \in Conn : W[d].out \in Seq(Push) /\ W[d].in \in Seq(Push)
  BY DEF WireRecord
<1>2. /\ V[c].out = Append(W[c].out, p)
      /\ \A d \in Conn : V[d].in = W[d].in /\ (d # c => V[d].out = W[d].out)
  OBVIOUS
<1>3. ASSUME NEW d \in Conn, NEW i \in 1 .. Len(W[d].out)
      PROVE  /\ W[d].out[i] \in Push /\ W[d].out[i] # p
             /\ Q[W[d].out[i]].pc \in Gone /\ Q[W[d].out[i]].conn = d /\ W[d].out[i] \notin A
  <2>1. W[d].out[i] \in Push
    BY <1>1, <1>3
  <2>2. P[W[d].out[i]].pc \in Gone /\ P[W[d].out[i]].conn = d /\ W[d].out[i] \notin A
    BY <1>3 DEF OnWires
  <2> QED BY <2>1, <2>2
<1>4. ASSUME NEW d \in Conn, NEW i \in 1 .. Len(V[d].out)
      PROVE  Q[V[d].out[i]].pc \in Gone /\ Q[V[d].out[i]].conn = d /\ V[d].out[i] \notin A
  <2>1. CASE d # c
    BY <1>2, <1>3, <1>4, <2>1
  <2>2. CASE d = c
    <3>1. Len(V[c].out) = Len(W[c].out) + 1 /\ i \in 1 .. Len(W[c].out) + 1
      BY <1>1, <1>2, <1>4, <2>2
    <3>2. CASE i = Len(W[c].out) + 1
      <4>1. V[c].out[i] = p
        BY <1>1, <1>2, <3>2
      <4> QED BY <2>2, <4>1
    <3>3. CASE i \in 1 .. Len(W[c].out)
      <4>1. V[c].out[i] = W[c].out[i]
        BY <1>1, <1>2, <3>3
      <4> QED BY <1>3, <2>2, <3>3, <4>1
    <3>4. Len(W[c].out) \in Nat
      BY <1>1
    <3> QED BY <3>1, <3>2, <3>3, <3>4
  <2> QED BY <2>1, <2>2
<1>5. ASSUME NEW d \in Conn, NEW i \in 1 .. Len(V[d].out), NEW j \in 1 .. Len(V[d].out),
             V[d].out[i] = V[d].out[j]
      PROVE  i = j
  <2>1. CASE d # c
    BY <1>2, <1>5, <2>1 DEF OnWires
  <2>2. CASE d = c
    <3>1. /\ Len(W[c].out) \in Nat
          /\ i \in 1 .. Len(W[c].out) + 1 /\ j \in 1 .. Len(W[c].out) + 1
          /\ \A k \in 1 .. Len(W[c].out) : V[c].out[k] = W[c].out[k] /\ V[c].out[k] # p
          /\ V[c].out[Len(W[c].out) + 1] = p
      <4>1. Len(V[c].out) = Len(W[c].out) + 1 /\ Len(W[c].out) \in Nat
        BY <1>1, <1>2
      <4>2. V[c].out[Len(W[c].out) + 1] = p
        BY <1>1, <1>2
      <4>3. ASSUME NEW k \in 1 .. Len(W[c].out) PROVE V[c].out[k] = W[c].out[k] /\ V[c].out[k] # p
        BY <1>1, <1>2, <1>3, <4>3
      <4> QED BY <1>5, <2>2, <4>1, <4>2, <4>3
    <3>2. \A k, l \in 1 .. Len(W[c].out) : W[c].out[k] = W[c].out[l] => k = l
      BY DEF OnWires
    <3>3. V[c].out[i] = V[c].out[j]
      BY <1>5, <2>2
    <3>4. CASE i \in 1 .. Len(W[c].out) /\ j \in 1 .. Len(W[c].out)
      <4>1. V[c].out[i] = W[c].out[i] /\ V[c].out[j] = W[c].out[j]
        BY <3>1, <3>4
      <4> QED BY <3>2, <3>3, <3>4, <4>1
    <3>5. CASE i = Len(W[c].out) + 1
      <4>1. V[c].out[j] = p
        BY <3>1, <3>3, <3>5
      <4>2. j \notin 1 .. Len(W[c].out)
        BY <3>1, <4>1
      <4> QED BY <3>1, <3>5, <4>2
    <3>6. CASE j = Len(W[c].out) + 1
      <4>1. V[c].out[i] = p
        BY <3>1, <3>3, <3>6
      <4>2. i \notin 1 .. Len(W[c].out)
        BY <3>1, <4>1
      <4> QED BY <3>1, <3>6, <4>2
    <3> QED BY <3>1, <3>4, <3>5, <3>6
  <2> QED BY <2>1, <2>2
<1>6. \A d \in Conn : \A i \in 1 .. Len(V[d].in) : V[d].in[i] \in A
  BY <1>2 DEF OnWires
<1> QED BY <1>4, <1>5, <1>6 DEF OnWires

\* The first correction p of wire c goes, and its acknowledgement comes.
Taken(W, V, c, p) ==
  /\ Len(W[c].out) > 0 /\ p = W[c].out[1]
  /\ V[c].out = Tail(W[c].out) /\ V[c].in = Append(W[c].in, p)
  /\ \A d \in Conn : d # c => V[d] = W[d]

\* The first correction of a wire is accepted and acknowledged.
LEMMA WireTake ==
  ASSUME NEW W, NEW V, NEW P, NEW A, NEW c \in Conn, NEW p \in Push,
         W \in [Conn -> WireRecord], OnWires(W, P, A), Taken(W, V, c, p)
  PROVE  OnWires(V, P, A \cup {p}) /\ P[p].pc \in Gone /\ p \notin A
<1> USE DEF Taken
<1> DEFINE B == A \cup {p}
<1>1. \A d \in Conn : W[d].out \in Seq(Push) /\ W[d].in \in Seq(Push)
  BY DEF WireRecord
<1>2. 1 \in 1 .. Len(W[c].out) /\ p = W[c].out[1] /\ p \in Push
  BY <1>1
<1>3. P[p].pc \in Gone /\ P[p].conn = c /\ p \notin A
  BY <1>2 DEF OnWires
<1>4. /\ V[c].out = Tail(W[c].out) /\ V[c].in = Append(W[c].in, p)
      /\ \A d \in Conn : d # c => V[d] = W[d]
  OBVIOUS
<1>5. ASSUME NEW i \in 1 .. Len(V[c].out)
      PROVE  i + 1 \in 1 .. Len(W[c].out) /\ V[c].out[i] = W[c].out[i + 1]
  BY <1>1, <1>2, <1>4, <1>5
<1>6. ASSUME NEW d \in Conn, NEW i \in 1 .. Len(V[d].out)
      PROVE  P[V[d].out[i]].pc \in Gone /\ P[V[d].out[i]].conn = d /\ V[d].out[i] \notin B
  <2>1. CASE d # c
    <3>1. V[d] = W[d]
      BY <1>4, <2>1
    <3> QED BY <1>3, <1>6, <2>1, <3>1 DEF OnWires
  <2>2. CASE d = c
    <3>1. i + 1 \in 1 .. Len(W[c].out) /\ V[c].out[i] = W[c].out[i + 1] /\ i + 1 # 1
      <4>1. i \in 1 .. Len(V[c].out)
        BY <2>2
      <4>2. i + 1 \in 1 .. Len(W[c].out) /\ V[c].out[i] = W[c].out[i + 1]
        BY ONLY <1>5, <4>1
      <4>3. i \in Nat \ {0}
        BY ONLY <4>1
      <4> QED BY ONLY <4>2, <4>3
    <3>2. W[c].out[i + 1] # W[c].out[1]
      BY <1>2, <3>1 DEF OnWires
    <3>3. P[W[c].out[i + 1]].pc \in Gone /\ P[W[c].out[i + 1]].conn = c /\ W[c].out[i + 1] \notin A
      BY <3>1 DEF OnWires
    <3>4. W[c].out[i + 1] \notin B
      BY <1>2, <3>2, <3>3
    <3> QED BY <2>2, <3>1, <3>3, <3>4
  <2> QED BY <2>1, <2>2
<1>7. ASSUME NEW d \in Conn, NEW i \in 1 .. Len(V[d].out), NEW j \in 1 .. Len(V[d].out),
             V[d].out[i] = V[d].out[j]
      PROVE  i = j
  <2>1. CASE d # c
    BY <1>4, <1>7, <2>1 DEF OnWires
  <2>2. CASE d = c
    <3>1. /\ i + 1 \in 1 .. Len(W[c].out) /\ j + 1 \in 1 .. Len(W[c].out)
          /\ W[c].out[i + 1] = W[c].out[j + 1]
      BY <1>5, <1>7, <2>2
    <3>2. i + 1 = j + 1
      BY <3>1 DEF OnWires
    <3> QED BY <3>2
  <2> QED BY <2>1, <2>2
<1>8. ASSUME NEW d \in Conn, NEW i \in 1 .. Len(V[d].in)
      PROVE  V[d].in[i] \in B
  <2>1. CASE d # c
    BY <1>4, <1>8, <2>1 DEF OnWires
  <2>2. CASE d = c
    <3>1. /\ Len(W[c].in) \in Nat /\ i \in 1 .. Len(W[c].in) + 1
          /\ V[c].in[i] = (IF i = Len(W[c].in) + 1 THEN p ELSE W[c].in[i])
      <4>1. W[c].in \in Seq(Push) /\ Append(W[c].in, p)[i] = V[c].in[i]
        BY <1>1, <1>4
      <4>2. i \in 1 .. Len(Append(W[c].in, p))
        BY <1>4, <1>8, <2>2
      <4> QED BY ONLY <1>2, <4>1, <4>2
    <3>2. \A k \in 1 .. Len(W[c].in) : W[c].in[k] \in A
      BY DEF OnWires
    <3> QED BY <2>2, <3>1, <3>2
  <2> QED BY <2>1, <2>2
<1> QED BY <1>3, <1>6, <1>7, <1>8 DEF OnWires

\* What the caller of a push was told that is at `place'.
ToldAt(place) ==
  IF place \in {"called", "connecting", "enrolled", "sending", "waiting"} THEN "open" ELSE place

Promised == [Delivery!Next]_(Delivery!vars)

\* What one push tells its caller is a step of the promise.
LEMMA TellsOne ==
  ASSUME push \in [Push -> PushRecord], push' \in [Push -> PushRecord], NEW p \in Push,
         \A q \in Push : q # p => push'[q] = push[q], accepted' = accepted,
         \/ ToldAt(push'[p].pc) = ToldAt(push[p].pc)
         \/ push[p].pc = "uncalled" /\ push'[p].pc = "called"
         \/ /\ ToldAt(push[p].pc) = "open" /\ push'[p].pc \in {"sent", "acknowledged", "failed"}
            /\ push'[p].pc = "acknowledged" => p \in accepted
            /\ push'[p].pc = "sent" => p \in Quiet
  PROVE  Promised
<1>1. /\ Told = [q \in Push |-> ToldAt(push[q].pc)]
      /\ Told' = [q \in Push |-> ToldAt(push'[q].pc)]
  BY DEF Told, ToldAt
<1>2. Told[p] = ToldAt(push[p].pc)
  BY <1>1
<1>3. Told' = [Told EXCEPT ![p] = ToldAt(push'[p].pc)]
  BY <1>1
<1>4. CASE ToldAt(push'[p].pc) = ToldAt(push[p].pc)
  <2>1. Told' = Told
    BY <1>1, <1>4
  <2> QED BY <2>1 DEF Promised, Delivery!vars
<1>5. CASE push[p].pc = "uncalled" /\ push'[p].pc = "called"
  <2>1. Delivery!Call(p)
    BY <1>2, <1>3, <1>5 DEF Delivery!Call, ToldAt
  <2> QED BY <2>1 DEF Promised, Delivery!Next
<1>6. CASE /\ ToldAt(push[p].pc) = "open" /\ push'[p].pc \in {"sent", "acknowledged", "failed"}
           /\ push'[p].pc = "acknowledged" => p \in accepted
           /\ push'[p].pc = "sent" => p \in Quiet
  <2>1. ToldAt(push'[p].pc) = push'[p].pc
    BY <1>6 DEF ToldAt
  <2>2. Delivery!Return(p, push'[p].pc)
    BY <1>2, <1>3, <1>6, <2>1 DEF Delivery!Return
  <2> QED BY <1>6, <2>2 DEF Promised, Delivery!Next
<1> QED BY <1>4, <1>5, <1>6

\* One push moves, on wires that are as they must be for it.
LEMMA MovesOne ==
  ASSUME ChannelInv, NEW p \in Push, push' \in [Push -> PushRecord],
         \A q \in Push : q # p => push'[q] = push[q],
         ChannelTyped', accepted' = accepted,
         wire' \in [Conn -> WireRecord], OnWires(wire', push', accepted),
         push'[p].pc \in {"enrolled", "sending", "waiting"} => push'[p].conn \in Conn,
         push'[p].future = push[p].future, push[p].pc \in Gone => push'[p].pc \in Gone,
         connecting' = p <=> push'[p].pc = "connecting", sending' = p <=> push'[p].pc = "sending",
         \A q \in Push : q # p => (connecting' = q <=> connecting = q) /\ (sending' = q <=> sending = q)
  PROVE  ChannelInv'
<1>1. Locks'
  BY DEF ChannelInv, Locks
<1>2. Pushes(push', accepted')
  <2>1. ASSUME NEW q \in Push
        PROVE  /\ push'[q].pc \in {"enrolled", "sending", "waiting"} => push'[q].conn \in Conn
               /\ push'[q].future = "result" => q \in accepted
               /\ q \in accepted => push'[q].pc \in Gone
    BY DEF ChannelInv, Pushes
  <2>2. accepted \subseteq Push
    BY DEF ChannelInv, ChannelTyped
  <2> QED BY <2>1, <2>2 DEF Pushes
<1> QED BY <1>1, <1>2 DEF ChannelInv

\* The record of one push with another place.
LEMMA PlaceMoves ==
  ASSUME push \in [Push -> PushRecord], NEW p \in Push,
         NEW place \in {"uncalled", "called", "connecting", "enrolled", "sending", "waiting",
                        "sent", "acknowledged", "failed"},
         push' = [push EXCEPT ![p].pc = place]
  PROVE  /\ push' \in [Push -> PushRecord] /\ push'[p].pc = place
         /\ push'[p].conn = push[p].conn /\ push'[p].future = push[p].future
         /\ \A q \in Push : q # p => push'[q] = push[q]
BY DEF PushRecord

\* Steps of a push that leave the wires and the table alone.
LEMMA PushGoes ==
  ASSUME ChannelInv, NEW p \in Push,
         \/ Call(p) \/ ConnectFails(p) \/ Send(p) \/ Acknowledged(p)
         \/ Connect(p) /\ (closed \/ socket = NoConn)
  PROVE  ChannelInv' /\ Promised
<1> DEFINE Leg(from, end, to, c, s) == push[p].pc = from /\ to = end /\ connecting' = c /\ sending' = s
<1> DEFINE Legs(to) ==
      \/ Leg("uncalled", "called", to, connecting, sending)
      \/ Leg("connecting", "failed", to, NoConn, sending)
      \/ Leg("enrolled", "sending", to, connecting, p) /\ sending = NoConn
      \/ Leg("waiting", "acknowledged", to, connecting, sending) /\ push[p].future = "result"
      \/ Leg("called", "failed", to, connecting, sending)
      \/ Leg("called", "connecting", to, p, sending) /\ connecting = NoConn
<1>1. UNCHANGED <<socket, receiver, closed, pending, task, wire, accepted>>
  BY DEF Call, ConnectFails, Send, Acknowledged, Connect
<1>2. PICK to \in {"called", "failed", "sending", "acknowledged", "connecting"} :
        push' = [push EXCEPT ![p].pc = to] /\ Legs(to)
  BY DEF Call, ConnectFails, Send, Acknowledged, Connect, Moves
<1>3. push \in [Push -> PushRecord] /\ NoConn \notin Push
      /\ (push[p].future = "result" => p \in accepted)
      /\ (push[p].pc = "enrolled" => push[p].conn \in Conn)
      /\ (connecting = p <=> push[p].pc = "connecting") /\ (sending = p <=> push[p].pc = "sending")
  BY ChannelConstants DEF ChannelInv, Pushes, Locks
<1>4. /\ push' \in [Push -> PushRecord] /\ push'[p].pc = to
      /\ push'[p].conn = push[p].conn /\ push'[p].future = push[p].future
      /\ \A q \in Push : q # p => push'[q] = push[q]
  BY <1>2, <1>3, PlaceMoves
<1>5. /\ push[p].pc \in Gone => push'[p].pc \in Gone
      /\ (connecting' = p <=> push'[p].pc = "connecting")
      /\ (sending' = p <=> push'[p].pc = "sending")
      /\ push'[p].pc \in {"enrolled", "sending", "waiting"} => push'[p].conn \in Conn
  BY <1>2, <1>3, <1>4 DEF Gone
<1>6. \A q \in Push : q # p => (connecting' = q <=> connecting = q) /\ (sending' = q <=> sending = q)
  BY <1>2, <1>3, <1>4
<1>7. ChannelTyped'
  BY <1>1, <1>2 DEF ChannelInv, ChannelTyped
<1>8. wire' \in [Conn -> WireRecord] /\ OnWires(wire', push', accepted)
  <2>1. wire' = wire /\ wire \in [Conn -> WireRecord] /\ OnWires(wire, push, accepted)
    BY <1>1 DEF ChannelInv
  <2>2. \A q \in Push : push[q].pc \in Gone => push'[q].pc \in Gone /\ push'[q].conn = push[q].conn
    BY <1>4, <1>5
  <2>3. OnWires(wire, push', accepted)
    BY <2>1, <2>2, WiresKept
  <2> QED BY <2>1, <2>3
<1>9. ChannelInv'
  <2>1. accepted' = accepted
    BY <1>1
  <2> HIDE DEF Legs
  <2> QED BY <1>4, <1>5, <1>6, <1>7, <1>8, <2>1, MovesOne
<1>10. Promised
  <2>1. \/ ToldAt(push'[p].pc) = ToldAt(push[p].pc)
        \/ push[p].pc = "uncalled" /\ push'[p].pc = "called"
        \/ /\ ToldAt(push[p].pc) = "open" /\ push'[p].pc \in {"acknowledged", "failed"}
           /\ push'[p].pc = "acknowledged" => p \in accepted
    <3>1. push'[p].pc = to
      BY <1>4
    <3>2. \/ push[p].pc = "uncalled" /\ push'[p].pc = "called"
          \/ push[p].pc \in {"connecting", "called"} /\ push'[p].pc = "failed"
          \/ push[p].pc = "enrolled" /\ push'[p].pc = "sending"
          \/ push[p].pc = "waiting" /\ push'[p].pc = "acknowledged" /\ push[p].future = "result"
          \/ push[p].pc = "called" /\ push'[p].pc = "connecting"
      BY <1>2, <3>1
    <3> QED BY <1>3, <3>2 DEF ToldAt
  <2>2. accepted' = accepted
    BY <1>1
  <2> HIDE DEF Legs
  <2> QED BY <1>3, <1>4, <2>1, <2>2, TellsOne
<1> QED BY <1>9, <1>10

\* A push takes its place in the table, on a connection that is there or is opened.
LEMMA PushEnrolls ==
  ASSUME ChannelInv, NEW p \in Push,
         \/ Connect(p) /\ ~closed /\ socket # NoConn
         \/ \E c \in Conn : Connected(p, c)
  PROVE  ChannelInv' /\ Promised
<1>1. push \in [Push -> PushRecord] /\ NoConn \notin Push /\ NoConn \notin Conn
      /\ (connecting = p <=> push[p].pc = "connecting") /\ (sending = p <=> push[p].pc = "sending")
  BY ChannelConstants DEF ChannelInv, Pushes, Locks
<1>2. PICK c \in Conn :
        /\ push[p].pc \in {"called", "connecting"}
        /\ push' = [push EXCEPT ![p].pc = "enrolled", ![p].conn = c]
        /\ pending' = pending \cup {p} /\ socket' = c /\ UNCHANGED <<closed, sending, accepted>>
        /\ \/ UNCHANGED <<receiver, task, wire, connecting>> /\ push[p].pc = "called"
           \/ /\ receiver' = c /\ task' = [task EXCEPT ![c] = "reading"] /\ connecting' = NoConn
              /\ wire' = [wire EXCEPT ![c].ours = TRUE, ![c].theirs = TRUE] /\ push[p].pc = "connecting"
  <2>1. CASE Connect(p) /\ ~closed /\ socket # NoConn
    <3>1. socket \in Conn
      BY <2>1 DEF ChannelInv, ChannelTyped
    <3>2. /\ push[p].pc = "called" /\ push' = [push EXCEPT ![p].pc = "enrolled", ![p].conn = socket]
          /\ pending' = pending \cup {p} /\ UNCHANGED <<socket, receiver, closed, sending, task, wire, accepted, connecting>>
      BY <2>1 DEF Connect, Enroll
    <3> QED BY <3>1, <3>2
  <2>2. ASSUME NEW c \in Conn, Connected(p, c)
        PROVE  /\ push[p].pc = "connecting"
               /\ push' = [push EXCEPT ![p].pc = "enrolled", ![p].conn = c]
               /\ pending' = pending \cup {p} /\ socket' = c /\ UNCHANGED <<closed, sending, accepted>>
               /\ receiver' = c /\ task' = [task EXCEPT ![c] = "reading"] /\ connecting' = NoConn
               /\ wire' = [wire EXCEPT ![c].ours = TRUE, ![c].theirs = TRUE]
    BY <2>2 DEF Connected, Enroll
  <2> QED BY <2>1, <2>2
<1>3. /\ push' \in [Push -> PushRecord] /\ push'[p].pc = "enrolled"
      /\ push'[p].conn = c /\ push'[p].future = push[p].future
      /\ \A q \in Push : q # p => push'[q] = push[q]
  BY <1>1, <1>2 DEF PushRecord
<1>4. ChannelTyped'
  BY <1>2 DEF ChannelInv, ChannelTyped
<1>5. /\ wire' \in [Conn -> WireRecord]
      /\ \A d \in Conn : wire'[d].out = wire[d].out /\ wire'[d].in = wire[d].in
  <2>1. wire \in [Conn -> WireRecord]
    BY DEF ChannelInv
  <2>2. CASE wire' = wire
    BY <2>1, <2>2
  <2>3. CASE wire' = [wire EXCEPT ![c].ours = TRUE, ![c].theirs = TRUE]
    BY <2>1, <2>3 DEF WireRecord
  <2> QED BY <1>2, <2>2, <2>3
<1>6. OnWires(wire', push', accepted)
  <2>1. wire \in [Conn -> WireRecord] /\ OnWires(wire, push, accepted)
    BY DEF ChannelInv
  <2>2. \A q \in Push : push[q].pc \in Gone => push'[q].pc \in Gone /\ push'[q].conn = push[q].conn
    BY <1>2, <1>3 DEF Gone
  <2>3. \A d \in Conn : wire'[d].out \in {wire[d].out, <<>>} /\ wire'[d].in \in {wire[d].in, <<>>}
    BY <1>5
  <2> QED BY <2>1, <2>2, <2>3, WiresKept
<1>7. /\ push[p].pc \notin Gone /\ accepted' = accepted
      /\ connecting' = p <=> push'[p].pc = "connecting"
      /\ sending' = p <=> push'[p].pc = "sending"
      /\ \A q \in Push : q # p => (connecting' = q <=> connecting = q) /\ (sending' = q <=> sending = q)
  BY <1>1, <1>2, <1>3 DEF Gone
<1>8. ChannelInv'
  BY <1>3, <1>4, <1>5, <1>6, <1>7, MovesOne
<1>9. ToldAt(push'[p].pc) = ToldAt(push[p].pc)
  BY <1>2, <1>3 DEF ToldAt
<1>10. Promised
  BY <1>1, <1>3, <1>7, <1>9, TellsOne
<1> QED BY <1>8, <1>10

\* A send puts its correction on the wire, or finds nobody there.
LEMMA SendPuts ==
  ASSUME ChannelInv, NEW p \in Push, push[p].pc = "sending",
         NEW Q, Q[p].pc \in Gone, Q[p].conn = push[p].conn,
         \A q \in Push : q # p => Q[q].pc = push[q].pc /\ Q[q].conn = push[q].conn,
         NEW w \in {wire, OnItsWay(p)}
  PROVE  w \in [Conn -> WireRecord] /\ OnWires(w, Q, accepted)
<1>1. wire \in [Conn -> WireRecord] /\ OnWires(wire, push, accepted) /\ push[p].conn \in Conn
      /\ push[p].pc \notin Gone /\ p \notin accepted
  BY DEF ChannelInv, Pushes, Gone
<1>2. CASE w = wire
  <2>1. \A q \in Push : push[q].pc \in Gone => Q[q].pc \in Gone /\ Q[q].conn = push[q].conn
    OBVIOUS
  <2> QED BY <1>1, <1>2, <2>1, WiresKept
<1>3. CASE w = [wire EXCEPT ![push[p].conn].out = Append(wire[push[p].conn].out, p)]
  <2> DEFINE c == push[p].conn
  <2>1. c \in Conn /\ Q[p].conn = c /\ wire[c] \in WireRecord
    BY <1>1
  <2>2. Append(wire[c].out, p) \in Seq(Push)
    BY <2>1 DEF WireRecord
  <2>3. w = [wire EXCEPT ![c] = w[c]] /\ w[c] = [wire[c] EXCEPT !.out = Append(wire[c].out, p)]
    BY <1>1, <1>3
  <2>4. w[c] \in WireRecord /\ w[c].out = Append(wire[c].out, p) /\ w[c].in = wire[c].in
    BY <2>1, <2>2, <2>3 DEF WireRecord
  <2>5. w \in [Conn -> WireRecord] /\ \A d \in Conn : d # c => w[d] = wire[d]
    BY <1>1, <2>1, <2>3, <2>4
  <2>6. \A d \in Conn : w[d].in = wire[d].in /\ (d # c => w[d].out = wire[d].out)
    BY <2>4, <2>5
  <2> HIDE DEF c
  <2>7. OnWires(w, Q, accepted)
    BY <1>1, <2>1, <2>4, <2>6, WirePut
  <2> QED BY <2>5, <2>7
<1> QED BY <1>2, <1>3 DEF OnItsWay

\* send() returns.
LEMMA SentKeeps ==
  ASSUME ChannelInv, NEW p \in Push, Sent(p)
  PROVE  ChannelInv' /\ Promised
<1>1. push \in [Push -> PushRecord] /\ NoConn \notin Push
      /\ push[p].pc = "sending" /\ push[p].conn \in Conn /\ connecting # p /\ sending = p
  BY ChannelConstants DEF Sent, ChannelInv, Pushes, Locks
<1>2. /\ sending' = NoConn /\ wire' = OnItsWay(p)
      /\ UNCHANGED <<socket, receiver, closed, connecting, pending, task, accepted>>
  BY DEF Sent
<1>3. PICK to \in {"sent", "waiting"} :
        push' = [push EXCEPT ![p].pc = to] /\ (to = "sent" => p \in Quiet)
  BY DEF Sent, Moves
<1>4. /\ push' \in [Push -> PushRecord] /\ push'[p].pc = to
      /\ push'[p].conn = push[p].conn /\ push'[p].future = push[p].future
      /\ \A q \in Push : q # p => push'[q] = push[q]
  BY <1>1, <1>3, PlaceMoves
<1>5. push'[p].pc \in Gone
  BY <1>4 DEF Gone
<1>6. wire' \in [Conn -> WireRecord] /\ OnWires(wire', push', accepted)
  <2>1. wire' \in {wire, OnItsWay(p)}
    BY <1>2
  <2>2. \A q \in Push : q # p => push'[q].pc = push[q].pc /\ push'[q].conn = push[q].conn
    BY <1>4
  <2> QED BY <1>1, <1>4, <1>5, <2>1, <2>2, SendPuts
<1>7. ChannelTyped' /\ accepted' = accepted
  BY <1>2 DEF ChannelInv, ChannelTyped
<1>8. /\ (connecting' = p <=> push'[p].pc = "connecting")
      /\ (sending' = p <=> push'[p].pc = "sending")
      /\ push'[p].conn \in Conn
      /\ \A q \in Push : q # p => (connecting' = q <=> connecting = q) /\ (sending' = q <=> sending = q)
  BY <1>1, <1>2, <1>4
<1>9. ChannelInv'
  BY <1>4, <1>5, <1>6, <1>7, <1>8, MovesOne
<1>10. ToldAt(push[p].pc) = "open" /\ (ToldAt(push'[p].pc) = "open" \/ (push'[p].pc = "sent" /\ p \in Quiet))
  <2>1. CASE to = "sent"
    BY <1>1, <1>3, <1>4, <2>1 DEF ToldAt
  <2>2. CASE to = "waiting"
    BY <1>1, <1>4, <2>2 DEF ToldAt
  <2> QED BY <2>1, <2>2
<1>11. Promised
  BY <1>1, <1>4, <1>7, <1>10, TellsOne
<1> QED BY <1>9, <1>11

\* A push fails: at its turn, in its send, by its future, its timeout or its caller.
LEMMA PushEnds ==
  ASSUME ChannelInv, NEW p \in Push, Ending(p)
  PROVE  ChannelInv' /\ Promised
<1> DEFINE c == push[p].conn
<1>1. PICK w : /\ Discard(p, w)
               /\ \/ push[p].pc \in {"enrolled", "waiting"} /\ w = wire
                  \/ push[p].pc = "sending" /\ w \in {wire, OnItsWay(p)}
  BY DEF Ending, Disconnected, SendFails, FutureFails, TimesOut,
         CallerCancelled
<1>2. push \in [Push -> PushRecord] /\ NoConn \notin Push
      /\ push[p].pc \in {"enrolled", "sending", "waiting"} /\ c \in Conn
      /\ (connecting = p <=> push[p].pc = "connecting") /\ (sending = p <=> push[p].pc = "sending")
  BY <1>1, ChannelConstants DEF ChannelInv, Pushes, Locks
<1>3. /\ pending' = pending \ {p} /\ socket' \in {socket, NoConn} /\ receiver' = NoConn
      /\ task' = Stopped(receiver) /\ wire' = [w EXCEPT ![c].ours = FALSE]
      /\ sending' = (IF sending = p THEN NoConn ELSE sending)
      /\ push' = [push EXCEPT ![p].pc = "failed"] /\ UNCHANGED <<closed, connecting, accepted>>
  BY <1>1 DEF Discard, Moves
<1>4. /\ push' \in [Push -> PushRecord] /\ push'[p].pc = "failed"
      /\ push'[p].conn = push[p].conn /\ push'[p].future = push[p].future
      /\ \A q \in Push : q # p => push'[q] = push[q]
  BY <1>2, <1>3, PlaceMoves
<1>5. w \in [Conn -> WireRecord] /\ OnWires(w, push', accepted)
  <2>1. \A q \in Push : q # p => push'[q].pc = push[q].pc /\ push'[q].conn = push[q].conn
    BY <1>4
  <2>2. CASE push[p].pc = "sending" /\ w \in {wire, OnItsWay(p)}
    <3>1. push'[p].pc \in Gone /\ push'[p].conn = push[p].conn
      BY <1>4 DEF Gone
    <3> HIDE DEF c
    <3> QED BY <2>1, <2>2, <3>1, SendPuts
  <2>3. CASE w = wire
    <3>1. wire \in [Conn -> WireRecord] /\ OnWires(wire, push, accepted)
      BY DEF ChannelInv
    <3>2. \A q \in Push : push[q].pc \in Gone => push'[q].pc \in Gone /\ push'[q].conn = push[q].conn
      BY <1>4 DEF Gone
    <3>3. OnWires(wire, push', accepted)
      BY <3>1, <3>2, WiresKept
    <3> QED BY <2>3, <3>1, <3>3
  <2> QED BY <1>1, <2>2, <2>3
<1> HIDE DEF c
<1>6. /\ wire' \in [Conn -> WireRecord]
      /\ \A d \in Conn : wire'[d].out = w[d].out /\ wire'[d].in = w[d].in
  BY <1>2, <1>3, <1>5 DEF WireRecord
<1>7. OnWires(wire', push', accepted)
  <2>1. \A d \in Conn : wire'[d].out \in {w[d].out, <<>>} /\ wire'[d].in \in {w[d].in, <<>>}
    BY <1>6
  <2>2. \A q \in Push : push'[q].pc \in Gone => push'[q].pc \in Gone /\ push'[q].conn = push'[q].conn
    OBVIOUS
  <2> QED BY <1>5, <2>1, <2>2, WiresKept
<1>8. ChannelTyped' /\ accepted' = accepted
  <2>1. task' \in [Conn -> {"none", "reading", "cancelled", "done"}]
    BY <1>3 DEF Stopped, ChannelInv, ChannelTyped
  <2> QED BY <1>3, <2>1 DEF ChannelInv, ChannelTyped
<1>9. /\ (connecting' = p <=> push'[p].pc = "connecting")
      /\ (sending' = p <=> push'[p].pc = "sending")
      /\ \A q \in Push : q # p => (connecting' = q <=> connecting = q) /\ (sending' = q <=> sending = q)
      /\ push'[p].pc \in Gone /\ push'[p].pc \notin {"enrolled", "sending", "waiting"}
  BY <1>2, <1>3, <1>4 DEF Gone
<1>10. ChannelInv'
  BY <1>4, <1>6, <1>7, <1>8, <1>9, MovesOne
<1>11. ToldAt(push[p].pc) = "open" /\ push'[p].pc = "failed"
  BY <1>2, <1>4 DEF ToldAt
<1>12. Promised
  BY <1>2, <1>4, <1>8, <1>11, TellsOne
<1> QED BY <1>10, <1>12

\* Futures are resolved, and the connections read, broken and closed: no push
\* moves, and nothing is accepted.
LEMMA FuturesOnly ==
  ASSUME ChannelInv, ChannelTyped', push' \in [Push -> PushRecord],
         \A q \in Push : /\ push'[q].pc = push[q].pc /\ push'[q].conn = push[q].conn
                         /\ push'[q].future = "result" => push[q].future = "result" \/ q \in accepted,
         UNCHANGED <<accepted, connecting, sending>>,
         wire' \in [Conn -> WireRecord], OnWires(wire', push, accepted)
  PROVE  ChannelInv' /\ Promised
<1>1. Locks'
  BY DEF ChannelInv, Locks
<1>2. Pushes(push', accepted')
  <2>1. accepted \subseteq Push
    BY DEF ChannelInv, ChannelTyped
  <2> QED BY <2>1 DEF ChannelInv, Pushes
<1>3. OnWires(wire', push', accepted')
  <2>1. \A q \in Push : push[q].pc \in Gone => push'[q].pc \in Gone /\ push'[q].conn = push[q].conn
    OBVIOUS
  <2>2. \A d \in Conn : wire'[d].out \in {wire'[d].out, <<>>} /\ wire'[d].in \in {wire'[d].in, <<>>}
    OBVIOUS
  <2>3. OnWires(wire', push', accepted)
    BY <2>1, <2>2, WiresKept
  <2> QED BY <2>3
<1>4. Told' = Told
  BY DEF Told
<1> QED BY <1>1, <1>2, <1>3, <1>4 DEF ChannelInv, Promised, Delivery!vars

\* The receive loop ends, and the channel is closed.
LEMMA LoopEnds ==
  ASSUME ChannelInv,
         \/ \E c \in Conn : ReadFails(c) \/ ReadCancelled(c)
         \/ CloseChannel
  PROVE  ChannelInv' /\ Promised
<1>1. wire \in [Conn -> WireRecord] /\ OnWires(wire, push, accepted) /\ push \in [Push -> PushRecord]
      /\ NoConn \notin Conn
  BY ChannelConstants DEF ChannelInv, Pushes
<1>2. CASE CloseChannel
  <2>1. ChannelTyped'
    <3>1. task' \in [Conn -> {"none", "reading", "cancelled", "done"}]
      BY <1>2 DEF CloseChannel, Stopped, ChannelInv, ChannelTyped
    <3> QED BY <1>2, <3>1 DEF CloseChannel, ChannelInv, ChannelTyped
  <2>2. /\ wire' \in [Conn -> WireRecord]
        /\ \A d \in Conn : wire'[d].out \in {wire[d].out, <<>>} /\ wire'[d].in \in {wire[d].in, <<>>}
    <3>1. CASE socket # NoConn
      <4>1. socket \in Conn
        BY <3>1 DEF ChannelInv, ChannelTyped
      <4>2. wire' = [wire EXCEPT ![socket].ours = FALSE]
        BY <1>2, <3>1 DEF CloseChannel
      <4> QED BY <1>1, <4>1, <4>2 DEF WireRecord
    <3>2. CASE socket = NoConn
      BY <1>1, <1>2, <3>2 DEF CloseChannel
    <3> QED BY <3>1, <3>2
  <2>3. \A q \in Push : push[q].pc \in Gone => push[q].pc \in Gone /\ push[q].conn = push[q].conn
    OBVIOUS
  <2>4. OnWires(wire', push, accepted)
    BY <1>1, <2>2, <2>3, WiresKept
  <2>5. UNCHANGED <<push, accepted, connecting, sending>>
    BY <1>2 DEF CloseChannel
  <2> QED BY <1>1, <2>1, <2>2, <2>4, <2>5, FuturesOnly
<1>3. ASSUME NEW c \in Conn, ReadFails(c) \/ ReadCancelled(c)
      PROVE  ChannelInv' /\ Promised
  <2>1. PICK verdict \in {"open", "error"} : Ends(c, verdict)
    BY <1>3 DEF ReadFails, ReadCancelled
  <2>2. UNCHANGED <<closed, connecting, sending, wire, accepted>>
    BY <1>3 DEF ReadFails, ReadCancelled
  <2>3. ChannelTyped'
    BY <2>1, <2>2 DEF Ends, ChannelInv, ChannelTyped
  <2>4. ASSUME NEW q \in Push
        PROVE  /\ push'[q] \in PushRecord /\ push'[q].pc = push[q].pc /\ push'[q].conn = push[q].conn
               /\ push'[q].future = "result" => push[q].future = "result"
    <3>1. push[q] \in PushRecord
      BY <1>1
    <3>2. push'[q] = IF q \in pending /\ push[q].future = "open" THEN [push[q] EXCEPT !.future = verdict] ELSE push[q]
      BY <2>1 DEF Ends
    <3> QED BY <3>1, <3>2 DEF PushRecord
  <2>5. push' \in [Push -> PushRecord]
    <3>1. push' = [q \in Push |-> push'[q]]
      BY <2>1 DEF Ends
    <3> QED BY <2>4, <3>1
  <2> QED BY <1>1, <2>2, <2>3, <2>4, <2>5, FuturesOnly
<1> QED BY <1>2, <1>3

\* The loop reads an acknowledgement: of a correction that was accepted.
LEMMA AckRead ==
  ASSUME ChannelInv, NEW c \in Conn, ReadAck(c)
  PROVE  ChannelInv' /\ Promised
<1> DEFINE p == Head(wire[c].in)
<1>1. wire \in [Conn -> WireRecord] /\ OnWires(wire, push, accepted) /\ push \in [Push -> PushRecord]
      /\ wire[c].in \in Seq(Push) /\ wire[c].in # <<>> /\ accepted \subseteq Push
  BY DEF ReadAck, ChannelInv, ChannelTyped, Pushes, WireRecord
<1>2. 1 \in 1 .. Len(wire[c].in) /\ p = wire[c].in[1] /\ p \in Push
  BY <1>1
<1>3. p \in accepted
  BY <1>1, <1>2 DEF OnWires
<1>4. /\ wire' = [wire EXCEPT ![c].in = Tail(wire[c].in)] /\ pending' = pending \ {p}
      /\ push' = [push EXCEPT ![p].future = IF push[p].future = "open" THEN "result" ELSE push[p].future]
      /\ UNCHANGED <<socket, receiver, closed, connecting, sending, task, accepted>>
  BY DEF ReadAck, Resolved
<1> HIDE DEF p
<1>5. /\ push' \in [Push -> PushRecord]
      /\ \A q \in Push : push'[q].pc = push[q].pc /\ push'[q].conn = push[q].conn
      /\ \A q \in Push : q # p => push'[q] = push[q]
  BY <1>1, <1>2, <1>4 DEF PushRecord
<1>6. \A q \in Push : push'[q].future = "result" => push[q].future = "result" \/ q \in accepted
  BY <1>3, <1>5
<1>7. /\ wire' \in [Conn -> WireRecord] /\ wire'[c].in = Tail(wire[c].in)
      /\ \A d \in Conn : wire'[d].out = wire[d].out /\ (d # c => wire'[d].in = wire[d].in)
  <2>1. Tail(wire[c].in) \in Seq(Push) /\ wire[c] \in WireRecord
    BY <1>1
  <2>2. wire' = [wire EXCEPT ![c] = wire'[c]] /\ wire'[c] = [wire[c] EXCEPT !.in = Tail(wire[c].in)]
    BY <1>1, <1>4
  <2>3. wire'[c] \in WireRecord /\ wire'[c].in = Tail(wire[c].in) /\ wire'[c].out = wire[c].out
    BY <2>1, <2>2 DEF WireRecord
  <2>4. wire' \in [Conn -> WireRecord] /\ \A d \in Conn : d # c => wire'[d] = wire[d]
    BY <1>1, <2>2, <2>3
  <2> QED BY <2>3, <2>4
<1>8. OnWires(wire', push, accepted)
  <2>1. ASSUME NEW d \in Conn, NEW i \in 1 .. Len(wire'[d].in) PROVE wire'[d].in[i] \in accepted
    <3>1. CASE d # c
      BY <1>1, <1>7, <2>1, <3>1 DEF OnWires
    <3>2. CASE d = c
      <4>1. i \in 1 .. Len(Tail(wire[c].in))
        BY <1>7, <2>1, <3>2
      <4>2. i + 1 \in 1 .. Len(wire[c].in) /\ Tail(wire[c].in)[i] = wire[c].in[i + 1]
        BY ONLY <1>1, <4>1
      <4>3. wire[c].in[i + 1] \in accepted
        BY <1>1, <4>2 DEF OnWires
      <4> QED BY <1>7, <3>2, <4>2, <4>3
    <3> QED BY <3>1, <3>2
  <2> QED BY <1>1, <1>7, <2>1 DEF OnWires
<1>9. ChannelTyped' /\ UNCHANGED <<accepted, connecting, sending>>
  BY <1>4 DEF ChannelInv, ChannelTyped
<1> QED BY <1>5, <1>6, <1>7, <1>8, <1>9, FuturesOnly

\* The inference service hangs up, or the connection breaks.
LEMMA HungUp ==
  ASSUME ChannelInv, NEW c \in Conn, Hangup(c)
  PROVE  ChannelInv' /\ Promised
<1>1. wire \in [Conn -> WireRecord] /\ OnWires(wire, push, accepted) /\ push \in [Push -> PushRecord]
  BY DEF ChannelInv, Pushes
<1>2. PICK kept \in {wire[c].in, <<>>} :
        wire' = [wire EXCEPT ![c].theirs = FALSE, ![c].out = <<>>, ![c].in = kept]
  BY DEF Hangup
<1>3. UNCHANGED <<socket, receiver, closed, connecting, sending, pending, push, task, accepted>>
  BY DEF Hangup
<1>4. wire' \in [Conn -> WireRecord] /\ wire'[c].out = <<>> /\ wire'[c].in = kept
      /\ \A d \in Conn : d # c => wire'[d] = wire[d]
  <2>1. kept \in Seq(Push) /\ wire[c] \in WireRecord
    <3>1. wire[c] \in WireRecord
      BY <1>1
    <3>2. wire[c].in \in Seq(Push)
      BY <3>1 DEF WireRecord
    <3>3. <<>> \in Seq(Push)
      OBVIOUS
    <3> QED BY <3>1, <3>2, <3>3
  <2>2. <<>> \in Seq(Push)
    OBVIOUS
  <2>3. PICK v, w : /\ v = [wire EXCEPT ![c].theirs = FALSE] /\ w = [v EXCEPT ![c].out = <<>>]
                    /\ wire' = [w EXCEPT ![c].in = kept]
    BY <1>2
  <2>4. /\ v \in [Conn -> WireRecord] /\ \A d \in Conn : d # c => v[d] = wire[d]
    BY <1>1, <2>3 DEF WireRecord
  <2>5. v[c] \in WireRecord /\ w[c] = [v[c] EXCEPT !.out = <<>>]
    BY <2>3, <2>4
  <2>6. w[c] \in WireRecord /\ w[c].out = <<>>
    BY <2>2, <2>5 DEF WireRecord
  <2>7. w \in [Conn -> WireRecord] /\ \A d \in Conn : d # c => w[d] = v[d]
    BY <2>3, <2>4, <2>6
  <2>8. wire'[c] = [w[c] EXCEPT !.in = kept]
    BY <2>3, <2>7
  <2>9. wire'[c] \in WireRecord /\ wire'[c].out = <<>> /\ wire'[c].in = kept
    BY <2>1, <2>6, <2>8 DEF WireRecord
  <2>10. wire' \in [Conn -> WireRecord] /\ \A d \in Conn : d # c => wire'[d] = w[d]
    BY <2>3, <2>7, <2>9
  <2> QED BY <2>4, <2>7, <2>9, <2>10
<1>5. \A d \in Conn : wire'[d].out \in {wire[d].out, <<>>} /\ wire'[d].in \in {wire[d].in, <<>>}
  BY <1>4
<1>6. OnWires(wire', push, accepted)
  <2>1. \A q \in Push : push[q].pc \in Gone => push[q].pc \in Gone /\ push[q].conn = push[q].conn
    OBVIOUS
  <2> QED BY <1>1, <1>5, <2>1, WiresKept
<1>7. ChannelTyped'
  BY <1>3 DEF ChannelInv, ChannelTyped
<1> QED BY <1>1, <1>3, <1>4, <1>6, <1>7, FuturesOnly

\* The inference service accepts a correction: one that was sent, and once.
LEMMA Accepts ==
  ASSUME ChannelInv, NEW c \in Conn, AcceptCorrection(c)
  PROVE  ChannelInv' /\ Promised
<1> DEFINE p == Head(wire[c].out)
<1>1. wire \in [Conn -> WireRecord] /\ OnWires(wire, push, accepted) /\ push \in [Push -> PushRecord]
      /\ wire[c].out # <<>> /\ wire[c].out \in Seq(Push) /\ wire[c].in \in Seq(Push)
      /\ accepted \subseteq Push
  BY DEF AcceptCorrection, ChannelInv, ChannelTyped, Pushes, WireRecord
<1>2. /\ wire' = [wire EXCEPT ![c].out = Tail(wire[c].out), ![c].in = Append(wire[c].in, p)]
      /\ accepted' = accepted \cup {p}
      /\ UNCHANGED <<socket, receiver, closed, connecting, sending, pending, push, task>>
  BY DEF AcceptCorrection
<1>3. p \in Push
  BY <1>1
<1>4. /\ wire' \in [Conn -> WireRecord] /\ wire'[c].out = Tail(wire[c].out)
      /\ wire'[c].in = Append(wire[c].in, p) /\ \A d \in Conn : d # c => wire'[d] = wire[d]
  <2> HIDE DEF p
  <2>1. /\ Tail(wire[c].out) \in Seq(Push) /\ Append(wire[c].in, p) \in Seq(Push)
        /\ wire[c] \in WireRecord
    BY <1>1, <1>3
  <2>2. wire' = [wire EXCEPT ![c] = wire'[c]]
        /\ wire'[c] = [wire[c] EXCEPT !.out = Tail(wire[c].out), !.in = Append(wire[c].in, p)]
    BY <1>1, <1>2
  <2>3. wire'[c] \in WireRecord /\ wire'[c].out = Tail(wire[c].out) /\ wire'[c].in = Append(wire[c].in, p)
    BY <2>1, <2>2 DEF WireRecord
  <2> QED BY <1>1, <2>2, <2>3
<1>5. p = Head(wire[c].out)
  OBVIOUS
<1> HIDE DEF p
<1>6. /\ OnWires(wire', push, accepted')
      /\ p \in Push /\ push[p].pc \in Gone /\ p \notin accepted
  <2>1. Len(wire[c].out) > 0 /\ p = wire[c].out[1]
    BY ONLY <1>1, <1>5
  <2>2. wire \in [Conn -> WireRecord] /\ OnWires(wire, push, accepted)
    BY <1>1
  <2>3. /\ wire'[c].out = Tail(wire[c].out) /\ wire'[c].in = Append(wire[c].in, p)
        /\ \A d \in Conn : d # c => wire'[d] = wire[d]
    BY <1>4
  <2>4. OnWires(wire', push, accepted \cup {p}) /\ push[p].pc \in Gone /\ p \notin accepted
    <3>1. Taken(wire, wire', c, p)
      BY <2>1, <2>3 DEF Taken
    <3> QED BY <1>3, <2>2, <3>1, WireTake
  <2> QED BY <1>2, <1>3, <2>4
<1>7. ChannelTyped'
  BY <1>2, <1>3 DEF ChannelInv, ChannelTyped
<1>8. Locks' /\ Pushes(push', accepted') /\ OnWires(wire', push', accepted')
  BY <1>2, <1>6 DEF ChannelInv, Locks, Pushes
<1>9. ChannelInv'
  BY <1>4, <1>7, <1>8 DEF ChannelInv
<1>10. Told' = Told
  BY <1>2 DEF Told
<1>11. Told[p] # "uncalled"
  BY <1>6 DEF Told, Gone
<1>12. Delivery!Accept(p)
  BY <1>2, <1>6, <1>10, <1>11 DEF Delivery!Accept
<1>13. Promised
  BY <1>6, <1>12 DEF Promised, Delivery!Next
<1> QED BY <1>9, <1>13

\* The channel before its first push.
LEMMA ChannelStarts ==
  ASSUME ChannelInit
  PROVE  ChannelInv /\ Delivery!Init
<1>1. NoConn \notin Push /\ NoConn \notin Conn
  BY ChannelConstants
<1>2. /\ socket = NoConn /\ receiver = NoConn /\ closed = FALSE
      /\ connecting = NoConn /\ sending = NoConn /\ pending = {} /\ accepted = {}
      /\ push = [p \in Push |-> [pc |-> "uncalled", conn |-> NoConn, future |-> "open"]]
      /\ task = [c \in Conn |-> "none"]
      /\ wire = [c \in Conn |-> [ours |-> FALSE, theirs |-> FALSE, out |-> <<>>, in |-> <<>>]]
  BY DEF ChannelInit
<1>3. ChannelTyped
  BY <1>2 DEF ChannelTyped
<1>4. Locks
  BY <1>1, <1>2 DEF Locks
<1>5. Pushes(push, accepted)
  BY <1>2 DEF Pushes, PushRecord
<1>6. wire \in [Conn -> WireRecord]
  BY <1>2 DEF WireRecord
<1>7. \A c \in Conn : wire[c].out = <<>> /\ wire[c].in = <<>>
  BY <1>2
<1>8. OnWires(wire, push, accepted)
  BY <1>7 DEF OnWires
<1>9. Told = [p \in Push |-> "uncalled"]
  BY <1>2 DEF Told
<1>10. Delivery!Init
  BY <1>2, <1>9 DEF Delivery!Init
<1> QED BY <1>3, <1>4, <1>5, <1>6, <1>8, <1>10 DEF ChannelInv

\* Every step of the channel is a step of the promise or nothing its users see.
LEMMA ChannelStep ==
  ASSUME ChannelInv, [ChannelNext]_(channelVars)
  PROVE  ChannelInv' /\ Promised
<1>1. ASSUME NEW p \in Push, Call(p) \/ Own(p) \/ Ending(p)
      PROVE  ChannelInv' /\ Promised
  BY <1>1, PushGoes, PushEnrolls, SentKeeps, PushEnds DEF Own
<1>2. ASSUME NEW c \in Conn, Reading(c) \/ AcceptCorrection(c) \/ Hangup(c)
      PROVE  ChannelInv' /\ Promised
  BY <1>2, AckRead, LoopEnds, Accepts, HungUp DEF Reading
<1>3. CASE CloseChannel
  BY <1>3, LoopEnds
<1>4. CASE UNCHANGED channelVars
  <2>1. UNCHANGED <<socket, receiver, closed, connecting, sending, pending, push, task, wire, accepted>>
    BY <1>4 DEF channelVars
  <2>2. ChannelInv'
    BY <2>1 DEF ChannelInv, ChannelTyped, Locks, Pushes, OnWires
  <2>3. Told' = Told
    BY <2>1 DEF Told
  <2> QED BY <2>1, <2>2, <2>3 DEF Promised, Delivery!vars
<1> QED BY <1>1, <1>2, <1>3, <1>4 DEF ChannelNext

\* For any number of pushes and connections: the channel delivers as
\* CorrectionDelivery promises, however connections break, futures time out and
\* callers are cancelled.  A correction is accepted at most once, and a push is
\* acknowledged only after its own correction was (push, _receive_loop, _discard).
THEOREM ChannelDelivers == ChannelSpec => DeliveryImplemented
<1>1. ChannelInit => ChannelInv /\ Delivery!Init
  BY ChannelStarts
<1>2. ChannelInv /\ [ChannelNext]_(channelVars) => ChannelInv' /\ [Delivery!Next]_(Delivery!vars)
  BY ChannelStep DEF Promised
<1> QED
  BY <1>1, <1>2, PTL DEF ChannelSpec, DeliveryImplemented, Delivery!Spec
==============================================================================
