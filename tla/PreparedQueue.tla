---------------------------- MODULE PreparedQueue ----------------------------
(***************************************************************************)
(* PreparedExecutionQueue (runtime/prepared_queue.py): the responses of    *)
(* one client hold a seat from the moment they start, and take the single  *)
(* online turn in the order in which they got ready for it.  Every method  *)
(* holds the queue's condition; only the loop of _enter gives it up, so a  *)
(* turn of that loop is a step.  The loop also wakes every 50 ms, so no    *)
(* step depends on a notification.                                         *)
(*                                                                         *)
(* Whether the caller of _enter was cancelled is the caller's business and *)
(* may change between two turns of the loop: here it is a free choice, the *)
(* attempts of PreparedAttempts decide it.                                 *)
(***************************************************************************)
EXTENDS Integers, FiniteSets, SequencesExt

CONSTANTS
  Scope,     \* PreparedScope objects, each used once
  Owned,     \* those admitted with retain_until_close=True
  NoScope,   \* None
  Maximum    \* _maximum, positive

VARIABLES
  created,  \* the scopes that exist
  scopes,   \* _scopes: the seats
  entered,  \* the scopes with _entered set
  waiting,  \* the scopes with a thread in the loop of _enter
  ready,    \* _ready
  active,   \* _active
  closed    \* _closed

vars == <<created, scopes, entered, waiting, ready, active, closed>>

Init ==
  /\ created = {} /\ scopes = {} /\ entered = {} /\ waiting = {}
  /\ ready = <<>>
  /\ active = NoScope
  /\ closed = FALSE

-----------------------------------------------------------------------------

\* admit: a closed or full queue raises.
Admit(s) ==
  /\ s \notin created
  /\ ~closed
  /\ Cardinality(scopes) < Maximum
  /\ created' = created \cup {s}
  /\ scopes' = scopes \cup {s}
  /\ UNCHANGED <<entered, waiting, ready, active, closed>>

\* _enter, up to its loop.
Enter(s) ==
  /\ s \in scopes /\ s \notin entered
  /\ entered' = entered \cup {s}
  /\ waiting' = waiting \cup {s}
  /\ ready' = Append(ready, s)
  /\ UNCHANGED <<created, scopes, active, closed>>

\* Mutant of IsNext: whoever looks first takes the turn.
IsAnyones(s) == active = NoScope

IsNext(s) == active = NoScope /\ Head(ready) = s

\* A turn of the loop that takes the turn.
TakeTurn(s) ==
  /\ s \in waiting /\ ~closed /\ s \in scopes
  /\ IsNext(s)
  /\ active' = s
  /\ ready' = Tail(ready)
  /\ waiting' = waiting \ {s}
  /\ UNCHANGED <<created, scopes, entered, closed>>

\* _release, of a scope that has a seat.
GiveUpSeat(s) ==
  /\ scopes' = scopes \ {s}
  /\ active' = IF s = active THEN NoScope ELSE active
  /\ ready' = RemoveFirst(ready, s)

\* A turn of the loop that raises: the queue closed, the caller was cancelled or
\* its seat is gone.  An owned scope keeps its seat.
Leave(s) ==
  /\ s \in waiting
  /\ waiting' = waiting \ {s}
  /\ IF s \in Owned \/ s \notin scopes
     THEN ready' = RemoveFirst(ready, s) /\ UNCHANGED <<scopes, active>>
     ELSE GiveUpSeat(s)
  /\ UNCHANGED <<created, entered, closed>>

\* close of a scope; again, it does nothing.
Release(s) ==
  /\ s \in scopes
  /\ GiveUpSeat(s)
  /\ UNCHANGED <<created, entered, waiting, closed>>

\* close of the queue: nobody loses a seat, nor the active one its turn.
Close == closed' = TRUE /\ UNCHANGED <<created, scopes, entered, waiting, ready, active>>

Next ==
  \/ \E s \in Scope : Admit(s) \/ Enter(s) \/ TakeTurn(s) \/ Leave(s) \/ Release(s)
  \/ Close

\* The loops turn, and who has the turn gives it back.
Fairness ==
  \A s \in Scope :
    /\ WF_vars(TakeTurn(s))
    /\ WF_vars((closed \/ s \notin scopes) /\ Leave(s))
    /\ WF_vars(s = active /\ Release(s))

Spec == Init /\ [][Next]_vars /\ Fairness
-----------------------------------------------------------------------------
(* Properties.                                                             *)

TypeOK ==
  /\ entered \subseteq created /\ created \subseteq Scope
  /\ scopes \subseteq created /\ waiting \subseteq entered
  /\ ready \in Seq(Scope)
  /\ active \in Scope \cup {NoScope}
  /\ closed \in BOOLEAN
  /\ Cardinality(scopes) <= Maximum

\* The line is exactly the waiting threads that have a seat, each once: a thread
\* in the loop always finds a head (_ready[0] never raises), and no scope that
\* left blocks those behind it (_enter, _release).
LineIsTheWaiting ==
  /\ Range(ready) = waiting \cap scopes
  /\ IsInjective(ready)

\* The turn belongs to a scope that still has its seat and no longer waits;
\* otherwise no later _release would ever give the turn back (_release).
TurnHasSeat == active # NoScope => active \in scopes /\ active \notin waiting

Before(s, t) ==
  \E i, j \in DOMAIN ready : i < j /\ ready[i] = s /\ ready[j] = t

\* First ready, first served: nobody takes the turn past a scope that was ready
\* before it and goes on waiting, and the order of those who stay never changes.
FirstReadyFirstServed ==
  [][ \A s, t \in Scope : Before(s, t) /\ s \in waiting' /\ s \in scopes' =>
        /\ active' # t
        /\ t \in Range(ready') => Before(s, t)' ]_vars

\* The turn is never taken from a scope: it goes to another one only after its
\* owner gave up its seat, a closed queue included (_release, close).
TurnIsNotTaken == [][active # NoScope => active' \in {active, NoScope}]_vars

=============================================================================
