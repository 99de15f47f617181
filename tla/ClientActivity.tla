--------------------------- MODULE ClientActivity ---------------------------
(***************************************************************************)
(* The activity gates of RuntimeClient (runtime/client.py) and the         *)
(* prepared inventories of one public model: responses (foreground) reserve*)
(* rows of the current inventory and run online; a background refill and   *)
(* the explicit preprocess() issue new inventories while the client is     *)
(* idle; close() retires everything.                                       *)
(*                                                                         *)
(* `_activity_lock' guards the counters and the closing flag, and is held  *)
(* for single tests and updates: those are one step.  The state lock       *)
(* guards the inventories and is held across calls to the provider: `lock' *)
(* is the response that holds it between two of its steps; what else needs *)
(* it waits, and does under it in one step what no other thread can see    *)
(* half done.                                                              *)
(***************************************************************************)
EXTENDS Naturals, FiniteSets

CONSTANTS
  Response,   \* responses, each with one online session
  Caller,     \* calls of preprocess()
  Inventory,  \* inventories that may be issued: the bound on issuance
  Rows,       \* rows of an inventory
  None        \* no inventory, no lock holder

ASSUME RowsAssumption == Rows \in Nat \ {0}

ASSUME ThreadsAssumption ==
  /\ IsFiniteSet(Response)
  /\ None \notin Response \cup Inventory
  /\ "refill" \notin Caller

VARIABLES
  foreground,  \* _foreground_active, as the responses it counts
  online,      \* _online_active, likewise
  preparing,   \* _preparation_active, likewise
  closing,     \* _closing
  wanted,      \* _pending_prepared_refills holds the model
  lock,        \* _transformer_state_lock
  inv,         \* the PreparedInventory objects
  gone,        \* inventories the provider has dropped
  current, spare, retired,
  active,      \* state.active_prepared_responses
  resp,        \* where each response is
  lease,       \* the inventory it has rows of
  refill,      \* the background refill
  call,        \* where each preprocess() is
  shut         \* where close() is

gates == <<foreground, online, preparing, closing, wanted>>
stock == <<inv, gone, current, spare, retired>>
vars == <<foreground, online, preparing, closing, wanted, lock, inv, gone, current, spare,
          retired, active, resp, lease, refill, call, shut>>

Init ==
  /\ foreground = {} /\ online = {} /\ preparing = {} /\ closing = FALSE /\ wanted = FALSE
  /\ lock = None
  /\ inv = [i \in Inventory |-> [st |-> "unused", reserved |-> 0, leases |-> {}]]
  /\ gone = {} /\ current = None /\ spare = None /\ retired = {}
  /\ active = 0
  /\ resp = [r \in Response |-> "new"] /\ lease = [r \in Response |-> None]
  /\ refill = [pc |-> "none", busy |-> FALSE, base |-> None, got |-> None]
  /\ call = [c \in Caller |-> "new"]
  /\ shut = "open"

-----------------------------------------------------------------------------
(* Inventories.                                                            *)

Unused == {i \in Inventory : inv[i].st = "unused"}

\* _cancel_prepared_inventory of all of S, on the inventories v.
Cancelled(v, S) == [i \in Inventory |-> IF i \in S THEN [v[i] EXCEPT !.st = "cancelled"] ELSE v[i]]

Issued(v, S) == [i \in Inventory |-> IF i \in S THEN [v[i] EXCEPT !.st = "live"] ELSE v[i]]

Live(i) == i # None /\ i \notin gone

Available(i) == IF i = None \/ inv[i].st = "cancelled" THEN 0 ELSE Rows - inv[i].reserved

\* What the code finds to use under the state lock: the current inventory if it
\* is live and has rows, or else the spare if it has rows and is live.
Usable(i) == Live(i) /\ Available(i) > 0

\* preprocess() gives the current inventory up, too, when a stage has fewer rows in
\* it than the call demands (`short').
Dropped(short) == {i \in {current} \ {None} : short \/ ~Live(i)}

Promotes(short) == (short \/ ~Usable(current)) /\ Available(spare) > 0

\* _install_prepared_inventory_locked cancels what it replaces, if nobody has
\* rows of it; what was dropped is cancelled in any case.
Superseded(short) ==
  Dropped(short) \cup {i \in {current} \ {None} : inv[i].leases = {}}

\* The choice of an inventory (open, preprocess): `current', `spare', `retired'
\* and the inventories after it.
Choose(short) ==
  LET promoted == Promotes(short) /\ Live(spare)
      dead == (IF Promotes(short) /\ ~Live(spare) THEN {spare} ELSE {}) \cup Dropped(short)
      kept == IF Dropped(short) = {} THEN current ELSE None
  IN [current |-> IF promoted THEN spare ELSE kept,
      spare |-> IF Promotes(short) THEN None ELSE spare,
      retired |-> IF promoted /\ current # None
                  THEN retired \cup ({current} \ Superseded(short)) ELSE retired,
      inv |-> Cancelled(inv, dead \cup (IF promoted THEN Superseded(short) ELSE {}))]

-----------------------------------------------------------------------------
(* Responses.                                                              *)

Goes(r, pc) == resp' = [resp EXCEPT ![r] = pc]

\* _begin_foreground and _begin_online admit on the same conditions.
MayBegin == ~closing /\ preparing = {}

BeginForeground(r) ==
  /\ resp[r] = "new"
  /\ IF MayBegin
     THEN foreground' = foreground \cup {r} /\ Goes(r, "foreground")
     ELSE UNCHANGED foreground /\ Goes(r, "over")
  /\ UNCHANGED <<online, preparing, closing, wanted, lock, stock, active, lease, refill, call, shut>>

\* _open_transformer_session takes the state lock, finds an inventory and reserves.
Reserve(r) ==
  LET found == Choose(FALSE) IN
  /\ resp[r] = "foreground" /\ lock = None
  /\ IF refill.busy
     THEN Goes(r, "ending") /\ UNCHANGED <<lock, lease, stock>>
     ELSE /\ current' = found.current /\ spare' = found.spare /\ retired' = found.retired
          /\ UNCHANGED gone
          /\ IF found.current # None /\ found.inv[found.current].st = "live"
                /\ found.inv[found.current].reserved < Rows
             THEN /\ inv' = [found.inv EXCEPT ![found.current].reserved = @ + 1,
                                              ![found.current].leases = @ \cup {r}]
                  /\ lease' = [lease EXCEPT ![r] = found.current]
                  /\ lock' = r
                  /\ Goes(r, "reserved")
             ELSE inv' = found.inv /\ Goes(r, "ending") /\ UNCHANGED <<lock, lease>>
  /\ UNCHANGED <<gates, active, refill, call, shut>>

\* The lease of r is closed: its rows are spent or burned.
LeaseClosed(r) == [inv EXCEPT ![lease[r]].leases = @ \ {r}]

\* Mutant of GoOnline: refused, it keeps the state lock.
GoOnlineLocked(r) ==
  /\ resp[r] = "reserved"
  /\ IF MayBegin
     THEN /\ online' = online \cup {r} /\ Goes(r, "posting")
          /\ UNCHANGED <<inv, lock, lease>>
     ELSE /\ inv' = LeaseClosed(r) /\ lease' = [lease EXCEPT ![r] = None]
          /\ Goes(r, "ending") /\ UNCHANGED <<online, lock>>
  /\ UNCHANGED <<foreground, preparing, closing, wanted, gone, current, spare, retired,
                 active, refill, call, shut>>

\* _begin_online, still under the state lock.
GoOnline(r) ==
  /\ resp[r] = "reserved"
  /\ IF MayBegin
     THEN /\ online' = online \cup {r} /\ Goes(r, "posting")
          /\ UNCHANGED <<inv, lock, lease>>
     ELSE /\ inv' = LeaseClosed(r) /\ lease' = [lease EXCEPT ![r] = None] /\ lock' = None
          /\ Goes(r, "ending") /\ UNCHANGED online
  /\ UNCHANGED <<foreground, preparing, closing, wanted, gone, current, spare, retired,
                 active, refill, call, shut>>

Opened(r) ==
  /\ resp[r] = "posting"
  /\ active' = active + 1 /\ lock' = None /\ Goes(r, "online")
  /\ UNCHANGED <<gates, stock, lease, refill, call, shut>>

\* The session is refused: it is cancelled, or, when nobody knows whether it
\* exists, admission stops.
OpenFails(r) ==
  /\ resp[r] = "posting"
  /\ closing' \in {closing, TRUE}
  /\ inv' = LeaseClosed(r) /\ lease' = [lease EXCEPT ![r] = None]
  /\ online' = online \ {r} /\ lock' = None /\ Goes(r, "ending")
  /\ UNCHANGED <<foreground, preparing, wanted, gone, current, spare, retired, active,
                 refill, call, shut>>

\* _finish_prepared_response closes the lease (stopping admission if the session
\* could not be cancelled before) ...
FinishLease(r) ==
  /\ resp[r] = "online"
  /\ closing' \in {closing, TRUE}
  /\ inv' = LeaseClosed(r) /\ lease' = [lease EXCEPT ![r] = None]
  /\ Goes(r, "drained")
  /\ UNCHANGED <<foreground, online, preparing, wanted, lock, gone, current, spare, retired,
                 active, refill, call, shut>>

\* ... goes offline ...
GoOffline(r) ==
  /\ resp[r] = "drained"
  /\ online' = online \ {r} /\ Goes(r, "offline")
  /\ UNCHANGED <<foreground, preparing, closing, wanted, lock, stock, active, lease, refill, call, shut>>

\* ... is no longer counted ...
Uncount(r) ==
  /\ resp[r] = "offline" /\ lock = None
  /\ active' = active - 1 /\ Goes(r, "uncounted")
  /\ UNCHANGED <<gates, lock, stock, lease, refill, call, shut>>

\* ... and drops retired inventories; its own foreground defers the refill.
FinishRetired(r) ==
  LET idle == {i \in retired : inv[i].leases = {}} IN
  /\ resp[r] = "uncounted" /\ lock = None
  /\ inv' = Cancelled(inv, idle) /\ retired' = retired \ idle
  /\ wanted' = (wanted \/ ~closing)
  /\ Goes(r, "ending")
  /\ UNCHANGED <<foreground, online, preparing, closing, lock, gone, current, spare, active,
                 lease, refill, call, shut>>

\* A response that reserves by epochs ends the current inventory with its epoch, or
\* when it could not open one.  Its turn of the queue, held until then, keeps the
\* other responses from having rows: the code looks at leases in the second case only.
EpochEnds(r) ==
  /\ resp[r] = "ending" /\ lock = None
  /\ current # None /\ inv[current].leases = {}
  /\ inv' = Cancelled(inv, {current}) /\ current' = None
  /\ UNCHANGED <<gates, lock, gone, spare, retired, active, resp, lease, refill, call, shut>>

\* The last response takes the pending refills with it.
EndForeground(r) ==
  LET takes == foreground = {r} /\ wanted IN
  /\ resp[r] = "ending"
  /\ foreground' = foreground \ {r}
  /\ wanted' = (wanted /\ ~takes)
  /\ Goes(r, IF takes THEN "scheduling" ELSE "over")
  /\ UNCHANGED <<online, preparing, closing, lock, stock, active, lease, refill, call, shut>>

\* _schedule_idle_refill_locked looks at the gates ...
Schedule(r) ==
  /\ resp[r] = "scheduling" /\ lock = None
  /\ \/ closing /\ Goes(r, "over") /\ UNCHANGED <<wanted, lock>>
     \/ ~closing /\ foreground # {} /\ wanted' = TRUE /\ Goes(r, "over") /\ UNCHANGED lock
     \/ ~closing /\ foreground = {} /\ lock' = r /\ Goes(r, "submitting") /\ UNCHANGED wanted
  /\ UNCHANGED <<foreground, online, preparing, closing, stock, active, lease, refill, call, shut>>

\* ... and submits, unless the executor is shut by now, when submit() raises.
Submit(r) ==
  /\ resp[r] = "submitting"
  /\ refill' = IF /\ current # None /\ active = 0 /\ spare = None /\ ~refill.busy
                  /\ refill.pc = "none" /\ shut = "open"
               THEN [refill EXCEPT !.pc = "submitted"]
               ELSE refill
  /\ lock' = None /\ Goes(r, "over")
  /\ UNCHANGED <<gates, stock, active, lease, call, shut>>

-----------------------------------------------------------------------------
(* _background_refill, in the executor's thread.                           *)

RefillStart ==
  /\ refill.pc = "submitted" /\ lock = None
  /\ refill' = IF closing \/ active # 0 \/ current = None \/ spare # None \/ refill.busy
               THEN [refill EXCEPT !.pc = "none"]
               ELSE [refill EXCEPT !.pc = "admission", !.busy = TRUE, !.base = current]
  /\ UNCHANGED <<gates, lock, stock, active, resp, lease, call, shut>>

\* Mutant of MayPrepare: only sessions keep preparation out.
MayPrepareOffline == ~closing /\ online = {}

\* _require_preparation_idle_locked
MayPrepare == ~closing /\ online = {} /\ foreground = {}

\* _begin_preparation; refused, the refill is given up.
RefillBegin ==
  /\ refill.pc = "admission"
  /\ IF MayPrepare
     THEN /\ preparing' = preparing \cup {"refill"}
          /\ refill' = [refill EXCEPT !.pc = "issuing"]
     ELSE /\ UNCHANGED preparing
          /\ refill' = [refill EXCEPT !.pc = "installing", !.got = None]
  /\ UNCHANGED <<foreground, online, closing, wanted, lock, stock, active, resp, lease, call, shut>>

\* _prepare_inventory, or its failure, and _end_preparation.
RefillIssue ==
  /\ refill.pc = "issuing"
  /\ \E i \in Unused \cup {None} :
       /\ inv' = Issued(inv, {i})
       /\ refill' = [refill EXCEPT !.pc = "installing", !.got = i]
  /\ preparing' = preparing \ {"refill"}
  /\ UNCHANGED <<foreground, online, closing, wanted, lock, gone, current, spare, retired,
                 active, resp, lease, call, shut>>

\* Mutant of Installs: the world is taken to be as it was before the issuance.
InstallsAlways == refill.got # None

\* Whether the spare still fits what it was issued for.
Installs ==
  /\ refill.got # None /\ ~closing /\ active = 0
  /\ current = refill.base /\ spare = None

RefillInstall ==
  /\ refill.pc = "installing" /\ lock = None
  /\ refill' = [pc |-> "none", busy |-> FALSE, base |-> None, got |-> None]
  /\ IF Installs
     THEN spare' = refill.got /\ UNCHANGED inv
     ELSE inv' = Cancelled(inv, {refill.got}) /\ UNCHANGED spare
  /\ UNCHANGED <<gates, lock, gone, current, retired, active, resp, lease, call, shut>>

-----------------------------------------------------------------------------
(* preprocess().                                                           *)

Calls(c, pc) == call' = [call EXCEPT ![c] = pc]

PreprocessBegin(c) ==
  /\ call[c] = "new"
  /\ IF MayPrepare
     THEN preparing' = preparing \cup {c} /\ Calls(c, "begun")
     ELSE UNCHANGED preparing /\ Calls(c, "over")
  /\ UNCHANGED <<foreground, online, closing, wanted, lock, stock, active, resp, lease, refill, shut>>

\* An inventory with rows is kept; or one is issued, after the useless spare was
\* dropped, and then a spare; either issuance may fail.
PreprocessWith(c, short) ==
  LET found == Choose(short)
      enough == found.current # None /\ found.inv[found.current].reserved < Rows
      useless == IF ~enough /\ found.spare # None THEN {found.spare} ELSE {}
      left == IF useless = {} THEN found.spare ELSE None
      old == {found.current} \ {None}
      idle == {i \in old : found.inv[i].leases = {}}
  IN
  /\ call[c] = "begun" /\ lock = None
  /\ IF active # 0
     THEN UNCHANGED stock
     ELSE \E new \in Unused \cup {None}, extra \in Unused \cup {None} :
       /\ enough => new = None
       /\ new = None /\ ~enough => extra = None
       /\ extra # None => left = None /\ extra # new
       /\ current' = IF new # None THEN new ELSE found.current
       /\ spare' = IF left # None THEN left ELSE extra
       /\ retired' = found.retired \cup (IF new # None THEN old \ idle ELSE {})
       /\ inv' = Issued(Cancelled(found.inv, useless \cup (IF new # None THEN idle ELSE {})),
                        {new, extra})
       /\ UNCHANGED gone
  /\ Calls(c, "prepared")
  /\ UNCHANGED <<gates, lock, active, resp, lease, refill, shut>>

Preprocess(c) == \E short \in BOOLEAN : PreprocessWith(c, short)

PreprocessEnd(c) ==
  /\ call[c] = "prepared"
  /\ preparing' = preparing \ {c} /\ Calls(c, "over")
  /\ UNCHANGED <<foreground, online, closing, wanted, lock, stock, active, resp, lease, refill, shut>>

-----------------------------------------------------------------------------
(* close(), and the provider.                                              *)

Close ==
  /\ shut = "open" /\ foreground = {} /\ online = {} /\ preparing = {}
  /\ closing' = TRUE /\ shut' = "draining"
  /\ UNCHANGED <<foreground, online, preparing, wanted, lock, stock, active, resp, lease, refill, call>>

\* executor.shutdown(wait=True, cancel_futures=True)
Drain ==
  /\ shut = "draining" /\ refill.pc \in {"none", "submitted"}
  /\ shut' = "drained" /\ refill' = [refill EXCEPT !.pc = "none"]
  /\ UNCHANGED <<gates, lock, stock, active, resp, lease, call>>

\* Everything the model has is cancelled.
Collect ==
  /\ shut = "drained" /\ lock = None
  /\ inv' = Cancelled(inv, ({current, spare} \cup retired) \ {None})
  /\ current' = None /\ spare' = None /\ retired' = {}
  /\ shut' = "closed"
  /\ UNCHANGED <<gates, gone, lock, active, resp, lease, refill, call>>

\* The provider drops an inventory (it expired, or its service restarted).
Expire(i) ==
  /\ inv[i].st = "live" /\ i \notin gone
  /\ gone' = gone \cup {i}
  /\ UNCHANGED <<gates, lock, inv, current, spare, retired, active, resp, lease, refill, call, shut>>

-----------------------------------------------------------------------------
RespondStep(r) ==
  \/ BeginForeground(r) \/ Reserve(r) \/ GoOnline(r) \/ Opened(r) \/ OpenFails(r)
  \/ FinishLease(r) \/ GoOffline(r) \/ Uncount(r) \/ FinishRetired(r)
  \/ EpochEnds(r) \/ EndForeground(r) \/ Schedule(r) \/ Submit(r)

RefillStep == RefillStart \/ RefillBegin \/ RefillIssue \/ RefillInstall

Next ==
  \/ \E r \in Response : RespondStep(r)
  \/ RefillStep
  \/ \E c \in Caller : PreprocessBegin(c) \/ Preprocess(c) \/ PreprocessEnd(c)
  \/ Close \/ Drain \/ Collect
  \/ \E i \in Inventory : Expire(i)

\* Threads run; a response that is online ends some time.
Fairness ==
  /\ \A r \in Response : WF_vars(RespondStep(r))
  /\ \A c \in Caller : WF_vars(Preprocess(c) \/ PreprocessEnd(c))
  /\ WF_vars(RefillStep)
  /\ WF_vars(Drain \/ Collect)

Spec == Init /\ [][Next]_vars /\ Fairness
-----------------------------------------------------------------------------
(* Properties.                                                             *)

TypeOK ==
  /\ foreground \subseteq Response /\ online \subseteq Response
  /\ preparing \subseteq Caller \cup {"refill"}
  /\ closing \in BOOLEAN /\ wanted \in BOOLEAN /\ lock \in Response \cup {None}
  /\ inv \in [Inventory -> [st : {"unused", "live", "cancelled"}, reserved : 0 .. Rows,
                            leases : SUBSET Response]]
  /\ gone \subseteq Inventory /\ retired \subseteq Inventory
  /\ current \in Inventory \cup {None} /\ spare \in Inventory \cup {None}
  /\ active \in Nat
  /\ resp \in [Response -> {"new", "foreground", "reserved", "posting", "online", "drained",
       "offline", "uncounted", "ending", "scheduling", "submitting", "over"}]
  /\ lease \in [Response -> Inventory \cup {None}]
  /\ refill \in [pc : {"none", "submitted", "admission", "issuing", "installing"},
                 busy : BOOLEAN, base : Inventory \cup {None}, got : Inventory \cup {None}]
  /\ call \in [Caller -> {"new", "begun", "prepared", "over"}]
  /\ shut \in {"open", "draining", "drained", "closed"}

\* "Online execution and Preparation never overlap": no inventory is issued
\* while a response is in the foreground or has a session, from its reservation
\* to the close of its lease, though both are admitted by flags that other
\* threads change (_begin_foreground, _begin_online, _begin_preparation).
NeverOverlap ==
  preparing # {} =>
    /\ foreground = {} /\ online = {}
    /\ \A r \in Response : lease[r] = None

\* Rows in use belong to an inventory that is not cancelled, unless the provider
\* had dropped it (_install_prepared_inventory_locked, retired_inventories).
LeasesAreLive ==
  \A r \in Response : lease[r] # None =>
    /\ r \in inv[lease[r]].leases
    /\ inv[lease[r]].st = "live" \/ lease[r] \in gone

\* No inventory is forgotten with live rows: each one issued and not cancelled is
\* current, spare, retired, or in the hands of the refill; and each in one place
\* only (the installation of what was issued meanwhile).
NoneForgotten ==
  /\ \A i \in Inventory : inv[i].st = "live" =>
       i \in {current, spare, refill.got} \cup retired
  /\ current # None => current # spare /\ current \notin retired
  /\ spare # None => spare \notin retired

\* After close() nothing is live, and nothing is issued any more.
ClosedHoldsNothing ==
  shut = "closed" =>
    /\ \A i \in Inventory : inv[i].st # "live"
    /\ preparing = {} /\ online = {} /\ refill.pc = "none"

\* active_prepared_responses, which the refill and preprocess() test to see whether
\* the inventories are in use, counts the responses between the opening of their
\* session and _finish_prepared_response, and is never decremented twice.
ActiveIsCounted ==
  active = Cardinality({r \in Response : resp[r] \in {"online", "drained", "offline"}})

\* An inventory is kept from its issue to its end: never forgotten with live rows,
\* never cancelled under a lease, none left by close().
InventoriesKept ==
  TypeOK /\ LeasesAreLive /\ NoneForgotten /\ ClosedHoldsNothing /\ ActiveIsCounted

\* Nobody waits for the state lock or the gates for ever: responses end, and so
\* does a close() that was let in, whose executor waits for the refill, which
\* needs the lock.
EverybodyEnds ==
  /\ \A r \in Response : resp[r] = "foreground" ~> resp[r] = "over"
  /\ shut = "draining" ~> shut = "closed"
=============================================================================
