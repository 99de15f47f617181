-------------------------- MODULE CorrectionChannel --------------------------
(***************************************************************************)
(* CorrectionWebSocketClient (runtime/correction_channel.py): all pushes   *)
(* of the preparation service share one connection to the inference        *)
(* service.  A task reads the acknowledgements and resolves the futures of *)
(* the pending table; a push that fails discards the connection, and the   *)
(* next push opens another.                                                *)
(*                                                                         *)
(* The code runs on one event loop: a step is what happens between two     *)
(* awaits.  A cancelled task runs its finally clause at its next turn of   *)
(* the loop; that is later than the cancel but before a connection that is *)
(* being opened can be there.  Each push has its own attempt id (consume   *)
(* of PreparationSessionRegistry), so the id stands for the push.          *)
(***************************************************************************)
EXTENDS Integers, FiniteSets, Sequences

CONSTANTS
  Push, Quiet,   \* see CorrectionDelivery
  Conn,          \* connections, each opened once: the bound on reconnects
  NoConn         \* no connection, no holder of a lock

ASSUME ChannelConstants == Quiet \subseteq Push /\ NoConn \notin Push \cup Conn

VARIABLES
  socket,      \* _socket
  receiver,    \* _receiver, named by the connection its loop reads
  closed,      \* _closed
  connecting,  \* the push that holds _connect_lock
  sending,     \* the push that holds _send_lock
  pending,     \* _pending
  push,        \* the calls of push(): place, connection and future
  task,        \* the receive loops
  wire,        \* the connections: our end, corrections and acknowledgements
  accepted     \* the corrections the inference service has accepted

channelVars == <<socket, receiver, closed, connecting, sending, pending, push, task, wire, accepted>>

ChannelInit ==
  /\ socket = NoConn /\ receiver = NoConn /\ closed = FALSE
  /\ connecting = NoConn /\ sending = NoConn /\ pending = {}
  /\ push = [p \in Push |-> [pc |-> "uncalled", conn |-> NoConn, future |-> "open"]]
  /\ task = [c \in Conn |-> "none"]
  /\ wire = [c \in Conn |-> [ours |-> FALSE, theirs |-> FALSE, out |-> <<>>, in |-> <<>>]]
  /\ accepted = {}

-----------------------------------------------------------------------------
(* push().                                                                 *)

Moves(p, pc) == push' = [push EXCEPT ![p].pc = pc]

Call(p) ==
  /\ push[p].pc = "uncalled"
  /\ Moves(p, "called")
  /\ UNCHANGED <<socket, receiver, closed, connecting, sending, pending, task, wire, accepted>>

\* The future is in the table before the send lock is asked for.
Enroll(p, c) ==
  /\ push' = [push EXCEPT ![p].pc = "enrolled", ![p].conn = c]
  /\ pending' = pending \cup {p}

\* _connect, once its lock is free.
Connect(p) ==
  /\ push[p].pc = "called" /\ connecting = NoConn
  /\ \/ closed /\ Moves(p, "failed") /\ UNCHANGED <<connecting, pending>>
     \/ ~closed /\ socket # NoConn /\ Enroll(p, socket) /\ UNCHANGED connecting
     \/ ~closed /\ socket = NoConn /\ Moves(p, "connecting")
        /\ connecting' = p /\ UNCHANGED pending
  /\ UNCHANGED <<socket, receiver, closed, sending, task, wire, accepted>>

Connected(p, c) ==
  /\ push[p].pc = "connecting" /\ task[c] = "none"
  /\ \A d \in Conn : task[d] # "cancelled"
  /\ socket' = c /\ receiver' = c
  /\ task' = [task EXCEPT ![c] = "reading"]
  /\ wire' = [wire EXCEPT ![c].ours = TRUE, ![c].theirs = TRUE]
  /\ connecting' = NoConn
  /\ Enroll(p, c)
  /\ UNCHANGED <<closed, sending, accepted>>

ConnectFails(p) ==
  /\ push[p].pc = "connecting"
  /\ connecting' = NoConn
  /\ Moves(p, "failed")
  /\ UNCHANGED <<socket, receiver, closed, sending, pending, task, wire, accepted>>

\* The send lock is free, and the connection still the one the push enrolled on.
Send(p) ==
  /\ push[p].pc = "enrolled" /\ sending = NoConn
  /\ socket = push[p].conn
  /\ sending' = p
  /\ Moves(p, "sending")
  /\ UNCHANGED <<socket, receiver, closed, connecting, pending, task, wire, accepted>>

\* What a send puts on the wire.
OnItsWay(p) ==
  IF wire[push[p].conn].theirs
  THEN [wire EXCEPT ![push[p].conn].out = Append(@, p)]
  ELSE wire

\* send() returns; the correction is on its way if the connection still is there.
Sent(p) ==
  /\ push[p].pc = "sending" /\ wire[push[p].conn].ours
  /\ sending' = NoConn
  /\ wire' = OnItsWay(p)
  /\ Moves(p, IF p \in Quiet THEN "sent" ELSE "waiting")
  /\ UNCHANGED <<socket, receiver, closed, connecting, pending, task, accepted>>

Acknowledged(p) ==
  /\ push[p].pc = "waiting" /\ push[p].future = "result"
  /\ Moves(p, "acknowledged")
  /\ UNCHANGED <<socket, receiver, closed, connecting, sending, pending, task, wire, accepted>>

\* The loop that is current is cancelled, whichever connection it reads.
Stopped(r) ==
  [c \in Conn |-> IF c = r /\ task[c] = "reading" THEN "cancelled" ELSE task[c]]

\* _discard, in the except clauses; the push leaves the table.  `w' is the wire
\* that the failure leaves.
Discard(p, w) ==
  LET c == push[p].conn IN
  /\ pending' = pending \ {p}
  /\ socket' = IF socket = c THEN NoConn ELSE socket
  /\ receiver' = NoConn
  /\ task' = Stopped(receiver)
  /\ wire' = [w EXCEPT ![c].ours = FALSE]
  /\ sending' = IF sending = p THEN NoConn ELSE sending
  /\ Moves(p, "failed")
  /\ UNCHANGED <<closed, connecting, accepted>>

\* The connection was replaced before the send.
Disconnected(p) ==
  push[p].pc = "enrolled" /\ sending = NoConn /\ socket # push[p].conn /\ Discard(p, wire)

\* The send raises or is cancelled, and nobody knows whether it arrived.
SendFails(p) == push[p].pc = "sending" /\ \E w \in {wire, OnItsWay(p)} : Discard(p, w)

FutureFails(p) == push[p].pc = "waiting" /\ push[p].future = "error" /\ Discard(p, wire)

\* Mutant of TimesOut: a push that left the table is forgotten.
TimesOutPending(p) ==
  push[p].pc = "waiting" /\ push[p].future = "open" /\ p \in pending /\ Discard(p, wire)

TimesOut(p) == push[p].pc = "waiting" /\ push[p].future = "open" /\ Discard(p, wire)

\* The caller is cancelled while it waits for the lock or for its future.
CallerCancelled(p) == push[p].pc \in {"enrolled", "waiting"} /\ Discard(p, wire)

-----------------------------------------------------------------------------
(* _receive_loop.                                                          *)

\* The finally clause of the loop of c; `verdict' is what becomes of the futures.
Ends(c, verdict) ==
  /\ task' = [task EXCEPT ![c] = "done"]
  /\ IF socket = c THEN socket' = NoConn /\ receiver' = NoConn ELSE UNCHANGED <<socket, receiver>>
  /\ pending' = {}
  /\ push' = [p \in Push |->
       IF p \in pending /\ push[p].future = "open" THEN [push[p] EXCEPT !.future = verdict]
       ELSE push[p]]

\* Mutant of Resolved: acknowledgements are taken in the order of the table.
ResolvedInOrder(c) == CHOOSE p \in pending : TRUE

\* Whose acknowledgement it is.
Resolved(c) == Head(wire[c].in)

ReadAck(c) ==
  /\ task[c] = "reading" /\ wire[c].ours /\ wire[c].in # <<>> /\ Head(wire[c].in) \in pending
  /\ wire' = [wire EXCEPT ![c].in = Tail(@)]
  /\ pending' = pending \ {Resolved(c)}
  /\ push' = [push EXCEPT ![Resolved(c)].future = IF @ = "open" THEN "result" ELSE @]
  /\ UNCHANGED <<socket, receiver, closed, connecting, sending, task, accepted>>

\* Unsolicited, or the connection is gone and all that it brought was read.
ReadFails(c) ==
  /\ task[c] = "reading"
  /\ IF wire[c].in # <<>> THEN Head(wire[c].in) \notin pending
     ELSE ~wire[c].theirs \/ ~wire[c].ours
  /\ Ends(c, "error")
  /\ UNCHANGED <<closed, connecting, sending, wire, accepted>>

\* Cancelled, the loop empties the table and resolves nothing.
ReadCancelled(c) ==
  /\ task[c] = "cancelled"
  /\ Ends(c, "open")
  /\ UNCHANGED <<closed, connecting, sending, wire, accepted>>

CloseChannel ==
  /\ ~closed
  /\ closed' = TRUE
  /\ socket' = NoConn /\ receiver' = NoConn
  /\ task' = Stopped(receiver)
  /\ wire' = IF socket # NoConn THEN [wire EXCEPT ![socket].ours = FALSE] ELSE wire
  /\ UNCHANGED <<connecting, sending, pending, push, accepted>>

-----------------------------------------------------------------------------
(* The inference service, in the order of the frames; and the network.     *)

\* accept_prepared_correction succeeds and the acknowledgement is sent ...
AcceptCorrection(c) ==
  LET p == Head(wire[c].out) IN
  /\ wire[c].theirs /\ wire[c].out # <<>>
  /\ accepted' = accepted \cup {p}
  /\ wire' = [wire EXCEPT ![c].out = Tail(@), ![c].in = Append(@, p)]
  /\ UNCHANGED <<socket, receiver, closed, connecting, sending, pending, push, task>>

\* ... or it refuses, and closes; or the connection breaks, with what is on it.
Hangup(c) ==
  /\ wire[c].theirs
  /\ \E kept \in {wire[c].in, <<>>} :
       wire' = [wire EXCEPT ![c].theirs = FALSE, ![c].out = <<>>, ![c].in = kept]
  /\ UNCHANGED <<socket, receiver, closed, connecting, sending, pending, push, task, accepted>>

-----------------------------------------------------------------------------
Ending(p) == Disconnected(p) \/ SendFails(p) \/ FutureFails(p) \/ TimesOut(p) \/ CallerCancelled(p)

Own(p) ==
  \/ Connect(p) \/ (\E c \in Conn : Connected(p, c)) \/ ConnectFails(p)
  \/ Send(p) \/ Sent(p) \/ Acknowledged(p)

Reading(c) == ReadAck(c) \/ ReadFails(c) \/ ReadCancelled(c)

ChannelNext ==
  \/ \E p \in Push : Call(p) \/ Own(p) \/ Ending(p)
  \/ \E c \in Conn : Reading(c) \/ AcceptCorrection(c) \/ Hangup(c)
  \/ CloseChannel

\* The event loop serves everyone; connects, sends and waits have timeouts.
ChannelFairness ==
  /\ \A p \in Push :
       /\ WF_channelVars(Own(p)) /\ SF_channelVars(Connect(p)) /\ SF_channelVars(Send(p))
       /\ WF_channelVars(Disconnected(p)) /\ WF_channelVars(SendFails(p))
       /\ WF_channelVars(FutureFails(p)) /\ WF_channelVars(TimesOut(p))
  /\ \A c \in Conn : WF_channelVars(Reading(c))

ChannelSpec == ChannelInit /\ [][ChannelNext]_channelVars /\ ChannelFairness
-----------------------------------------------------------------------------
(* Properties.                                                             *)

\* Types; and each lock is held by the push that is behind it, or free.
ChannelTypeOK ==
  /\ \A p \in Push :
       (connecting = p <=> push[p].pc = "connecting") /\ (sending = p <=> push[p].pc = "sending")
  /\ socket \in Conn \cup {NoConn} /\ receiver \in Conn \cup {NoConn} /\ closed \in BOOLEAN
  /\ connecting \in Push \cup {NoConn} /\ sending \in Push \cup {NoConn}
  /\ pending \subseteq Push /\ accepted \subseteq Push
  /\ push \in [Push ->
       [pc : {"uncalled", "called", "connecting", "enrolled", "sending", "waiting",
              "sent", "acknowledged", "failed"},
        conn : Conn \cup {NoConn}, future : {"open", "result", "error"}]]
  /\ task \in [Conn -> {"none", "reading", "cancelled", "done"}]
  /\ \A c \in Conn :
       /\ wire[c].ours \in BOOLEAN /\ wire[c].theirs \in BOOLEAN
       /\ wire[c].out \in Seq(Push) /\ wire[c].in \in Seq(Push)

\* The channel delivers as CorrectionDelivery promises: acknowledgements reach
\* the push they are for, and only after the correction was accepted.
Told ==
  [p \in Push |->
     CASE push[p].pc \in {"called", "connecting", "enrolled", "sending", "waiting"} -> "open"
       [] OTHER -> push[p].pc]

Delivery == INSTANCE CorrectionDelivery WITH outcome <- Told

DeliveryImplemented == Delivery!Spec

\* A push ends: by its acknowledgement, by an error or by its timeout, even if
\* its future was dropped from the table unresolved (_receive_loop, push).
PushesEnd ==
  \A p \in Push : push[p].pc = "called" ~> push[p].pc \in {"sent", "acknowledged", "failed"}
=============================================================================
