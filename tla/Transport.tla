------------------------------- MODULE Transport -------------------------------
(***************************************************************************)
(* The WebSocket transport between one application (WsRpcClient) and the   *)
(* server (WsRpcServer): connecting, the handshake and its authentication, *)
(* numbered events with a replay buffer, reconnecting and its fallbacks.   *)
(*                                                                         *)
(* A handler runs to its next await, and a socket delivers in order what   *)
(* it delivers.  A link that breaks delivers no more; each end notices in  *)
(* its own time.  A link too slow for a timeout counts as broken.          *)
(*                                                                         *)
(* Requests and responses, and which client an event is for, are left out. *)
(***************************************************************************)
EXTENDS Naturals, Sequences, FiniteSets

CONSTANTS
  MaxSockets,     \* bound: sockets the application ever opens
  MaxEvents,      \* bound: events pushed
  BufferMax,      \* EVENT_BUFFER_MAX_SIZE: events retained for a replay
  MaxClients,     \* maxClients: connections the server accepts
  AuthTakesTurns, \* the credential check waits for something: TRUE for a session cookie
  Mishaps,        \* what may happen to them: a subset of MishapKinds
  MaxMishaps      \* bound: how often

MishapKinds == {"drop", "stop", "reconnect", "leave", "refusal"}

ASSUME TransportAssumption ==
  /\ MaxSockets \in Nat \ {0} /\ MaxEvents \in Nat /\ BufferMax \in Nat \ {0}
  /\ MaxClients \in Nat \ {0} /\ AuthTakesTurns \in BOOLEAN
  /\ Mishaps \subseteq MishapKinds /\ MaxMishaps \in Nat

VARIABLES
  client,     \* the fields of WsRpcClient
  sockets,    \* both ends of each socket and what is in flight
  conns,      \* clients and disconnectedClients of the server
  server,     \* "up", "stopping" (announced) or "down"
  published,  \* events pushed so far
  view,       \* the last event the application's state reflects
  refreshes,  \* how often the application loaded its state anew
  mishaps     \* how many mishaps there were

wire == <<client, sockets, conns, server>>
vars == <<client, sockets, conns, server, published, view, refreshes, mishaps>>

Sockets == 1 .. MaxSockets

(* A connection's id stands for its UUID: the socket it was first made on. *)
Ids == Sockets

NoReconnect == [id |-> 0, lastSeq |-> 0]

FreshClient ==
  [ ws        |-> 0,            \* the current socket, 0 for none
    id        |-> 0,            \* clientId, 0 for null
    connected |-> FALSE,
    lastSeen  |-> 0,            \* lastSeenSeq
    pending   |-> NoReconnect,  \* pendingReconnect
    asking    |-> FALSE,        \* currentHandshakeWasReconnect
    manual    |-> FALSE,        \* manualReconnectRequested
    retry     |-> FALSE,        \* reconnectTimer is running
    ready     |-> FALSE,        \* readyPromise is pending
    closed    |-> FALSE,        \* permanentlyClosed
    destroyed |-> FALSE ]

(* The client's end: unused, connecting, open, closing, closed.  The server's *)
(* end: none; waiting for the handshake; checking its credentials, attended   *)
(* or, when the socket closes meanwhile, unattended; attached to a            *)
(* connection; closed.  hello is the handshake in flight, seqAck a sequence   *)
(* acknowledgement in flight (0 for none), down what is under way to the      *)
(* application.                                                               *)
FreshSocket ==
  [client |-> "unused", server |-> "none", link |-> TRUE, conn |-> 0,
   hello |-> NoReconnect, seqAck |-> 0, down |-> <<>>]

(* closing is the number of the event that announced the server's end. *)
NoConn == [status |-> "absent", sock |-> 0, first |-> 1, sent |-> 0, acked |-> 0, closing |-> 0]

(* ev numbers the pushed event a message carries; on an acknowledgement it is *)
(* the last one pushed, which is what a load of the state would show.         *)
Message(kind, ev) ==
  [kind |-> kind, ev |-> ev, id |-> 0, reconnected |-> FALSE, stale |-> FALSE,
   seq |-> 0, last |-> FALSE]
Ack(c, reconnected, stale) ==
  [Message("handshake_ack", published) EXCEPT !.id = c, !.reconnected = reconnected, !.stale = stale]
Event(seq, ev, last) == [Message("event", ev) EXCEPT !.seq = seq, !.last = last]
Refusal == Message("error", 0)

Mishap(k) == k \in Mishaps /\ mishaps < MaxMishaps /\ mishaps' = mishaps + 1

-----------------------------------------------------------------------------
(* The application's side: WsRpcClient. *)

Unused == {s \in Sockets : sockets[s].client = "unused"}
NextSocket(s) == s \in Unused /\ \A t \in Unused : s <= t

(* connect, its socket still to be opened; the one before is detached. *)
Closed(s) == [s EXCEPT !.client = "closed", !.down = <<>>]
ConnectAs(c) ==
  \E s \in Sockets :
    /\ NextSocket(s)
    /\ client' = [c EXCEPT !.ws = s, !.ready = TRUE, !.retry = FALSE]
    /\ sockets' = [t \in Sockets |-> IF t = s THEN [sockets[t] EXCEPT !.client = "connecting"]
                                     ELSE IF t = c.ws THEN Closed(sockets[t])
                                     ELSE sockets[t]]

Position(c) == IF c.id # 0 THEN [id |-> c.id, lastSeq |-> c.lastSeen] ELSE c.pending

(* Mutant of Disconnected: a position in the stream outlives only a connection. *)
DisconnectedForgetful(c) ==
  [c EXCEPT !.pending = IF c.id # 0 THEN [id |-> c.id, lastSeq |-> c.lastSeen] ELSE NoReconnect,
            !.ws = 0, !.id = 0, !.connected = FALSE, !.ready = FALSE, !.manual = FALSE,
            !.retry = ~c.destroyed /\ ~c.closed]

(* Mutant of Disconnected: only a connection that stood is made again. *)
DisconnectedOnce(c) ==
  [c EXCEPT !.pending = Position(c),
            !.ws = 0, !.id = 0, !.connected = FALSE, !.ready = FALSE, !.manual = FALSE,
            !.retry = c.connected /\ ~c.destroyed /\ ~c.closed]

(* onDisconnect, when no reconnection was asked for. *)
Disconnected(c) ==
  [c EXCEPT !.pending = Position(c),
            !.ws = 0, !.id = 0, !.connected = FALSE, !.ready = FALSE, !.manual = FALSE,
            !.retry = ~c.destroyed /\ ~c.closed]

(* onDisconnect after reconnectNow connects at once, here on socket t. *)
Reconnecting(c, t) == [Disconnected(c) EXCEPT !.retry = FALSE, !.ws = t, !.ready = TRUE]

(* invoke, through ensureConnected, when nothing is on its way already. *)
Invoke ==
  /\ ~client.destroyed /\ ~client.connected /\ ~client.ready /\ ~client.retry
  /\ ConnectAs(client)
  /\ UNCHANGED <<conns, server, published, view, refreshes, mishaps>>

RetryFires ==
  /\ client.retry
  /\ ConnectAs(client)
  /\ UNCHANGED <<conns, server, published, view, refreshes, mishaps>>

Connections == {c \in Ids : conns[c].status = "connected"}
AtCapacity  == Cardinality(Connections) >= MaxClients

(* The server accepts the socket, and onopen sends the handshake. *)
Opens(s) ==
  /\ client.ws = s /\ sockets[s].client = "connecting" /\ sockets[s].link
  /\ server # "down" /\ ~AtCapacity
  /\ client' = [client EXCEPT !.asking = client.pending # NoReconnect]
  /\ sockets' = [sockets EXCEPT ![s].client = "open", ![s].server = "waiting",
                                ![s].hello = client.pending]
  /\ UNCHANGED <<conns, server, published, view, refreshes, mishaps>>

(* Nobody listens, the server has no room (4008), or the client gave up.  A  *)
(* socket that was never accepted can stand for the next one.                *)
OpenFails(s) ==
  /\ client.ws = s /\ sockets[s].client \in {"connecting", "closing"}
  /\ sockets[s].server = "none"
  /\ server = "down" \/ AtCapacity \/ ~sockets[s].link \/ sockets[s].client = "closing"
  /\ \/ /\ client.manual
        /\ client' = Reconnecting(client, s)
        /\ sockets' = [sockets EXCEPT ![s] = [FreshSocket EXCEPT !.client = "connecting"]]
     \/ /\ ~client.manual
        /\ client' = Disconnected(client)
        /\ sockets' = [sockets EXCEPT ![s] = FreshSocket]
  /\ UNCHANGED <<conns, server, published, view, refreshes, mishaps>>

(* connectTimer: the attempt has failed, and its socket is told to close. *)
ConnectTimesOut(s) ==
  /\ client.ws = s /\ ~client.connected /\ ~sockets[s].link
  /\ sockets[s].client \in {"connecting", "open"}
  /\ client' = [client EXCEPT !.ready = FALSE]
  /\ sockets' = [sockets EXCEPT ![s].client = "closing"]
  /\ UNCHANGED <<conns, server, published, view, refreshes, mishaps>>

Stale(m) == ~m.reconnected \/ m.stale

(* The application is told to load its state when it asked to be reconnected *)
(* and missed events; it loads it anyway when it first connects.             *)
Told(m) == (Stale(m) /\ client.asking) \/ refreshes = 0

(* Mutant of OnAck: numbering goes on, though a new connection starts at 0. *)
OnAckCounting(m) ==
  /\ client' = [client EXCEPT !.asking = FALSE, !.pending = NoReconnect, !.id = m.id,
                              !.connected = TRUE, !.ready = FALSE]
  /\ view' = IF Stale(m) THEN m.ev ELSE view
  /\ refreshes' = IF Told(m) THEN refreshes + 1 ELSE refreshes

(* handshake_ack.  A stale one leaves lastSeenSeq as it was. *)
OnAck(m) ==
  /\ client' = [client EXCEPT !.asking = FALSE, !.pending = NoReconnect, !.id = m.id,
                              !.connected = TRUE, !.ready = FALSE,
                              !.lastSeen = IF m.reconnected THEN @ ELSE 0]
  /\ view' = IF Stale(m) THEN m.ev ELSE view
  /\ refreshes' = IF Told(m) THEN refreshes + 1 ELSE refreshes

OnEvent(m) ==
  /\ client' = [client EXCEPT !.lastSeen = m.seq, !.closed = @ \/ m.last]
  /\ view' = m.ev
  /\ UNCHANGED refreshes

OnRefusal ==
  /\ client' = [client EXCEPT !.ready = FALSE]
  /\ UNCHANGED <<view, refreshes>>

(* onmessage; what arrives on any but the current socket is ignored. *)
ClientReceives(s) ==
  /\ client.ws = s /\ sockets[s].client \in {"open", "closing"} /\ sockets[s].down # <<>>
  /\ LET m == Head(sockets[s].down)
     IN  \/ m.kind = "handshake_ack" /\ OnAck(m)
         \/ m.kind = "event" /\ OnEvent(m)
         \/ m.kind = "error" /\ OnRefusal
  /\ sockets' = [sockets EXCEPT ![s].down = Tail(@)]
  /\ UNCHANGED <<conns, server, published, mishaps>>

(* onclose; what was still in flight is lost. *)
ClientSeesClose(s) ==
  /\ client.ws = s /\ sockets[s].client \in {"open", "closing"} /\ sockets[s].server # "none"
  /\ ~sockets[s].link \/ sockets[s].server = "closed" \/ sockets[s].client = "closing"
  /\ \/ /\ client.manual
        /\ \E t \in Sockets :
             /\ NextSocket(t)
             /\ client' = Reconnecting(client, t)
             /\ sockets' = [sockets EXCEPT ![s] = Closed(@), ![t].client = "connecting"]
     \/ /\ ~client.manual
        /\ client' = Disconnected(client)
        /\ sockets' = [sockets EXCEPT ![s] = Closed(@)]
  /\ UNCHANGED <<conns, server, published, view, refreshes, mishaps>>

(* startAckTimer's interval; one that says nothing new is left out. *)
SendAck(s) ==
  /\ client.ws = s /\ client.connected /\ client.lastSeen > conns[client.id].acked
  /\ sockets[s].client = "open" /\ sockets[s].link /\ sockets[s].seqAck = 0
  /\ sockets' = [sockets EXCEPT ![s].seqAck = client.lastSeen]
  /\ UNCHANGED <<client, conns, server, published, view, refreshes, mishaps>>

(* reconnectNow. *)
ReconnectNow ==
  /\ ~client.destroyed /\ Mishap("reconnect")
  /\ \/ /\ client.ws = 0
        /\ ConnectAs([client EXCEPT !.pending = Position(client)])
     \/ /\ client.ws # 0
        /\ client' = [client EXCEPT !.pending = Position(client), !.manual = TRUE, !.retry = FALSE]
        /\ sockets' = [sockets EXCEPT ![client.ws].client = "closing"]
  /\ UNCHANGED <<conns, server, published, view, refreshes>>

(* destroy: the application has gone. *)
Destroy ==
  /\ ~client.destroyed /\ Mishap("leave")
  /\ client' = [client EXCEPT !.destroyed = TRUE, !.retry = FALSE, !.manual = FALSE,
                              !.asking = FALSE, !.pending = NoReconnect, !.ready = FALSE,
                              !.ws = 0, !.connected = FALSE]
  /\ sockets' = [s \in Sockets |-> IF s = client.ws THEN Closed(sockets[s]) ELSE sockets[s]]
  /\ UNCHANGED <<conns, server, published, view, refreshes>>

-----------------------------------------------------------------------------
(* The server's side: WsRpcServer. *)

Larger(a, b) == IF a >= b THEN a ELSE b

(* bufferAndMaybeSendEvent numbers and retains the event, and keeps at most  *)
(* BufferMax.  What outlives its time is taken out when the buffer is read.  *)
Buffered(c, last) ==
  [c EXCEPT !.sent = c.sent + 1, !.closing = IF last THEN c.sent + 1 ELSE @,
            !.first = IF c.sent + 1 > BufferMax THEN Larger(c.first, c.sent + 2 - BufferMax)
                      ELSE c.first]

(* safeSend skips a socket that is not open; a broken link, and an end that  *)
(* is not listening any more, lose what is sent.                             *)
Arrives(s) == sockets[s].link /\ sockets[s].client # "closed"
Reaches(s) == sockets[s].server = "attached" /\ Arrives(s)

(* push: every connection of the application, connected or retained, keeps   *)
(* the event, and one that is connected is sent it.                          *)
PushEvent(last) ==
  /\ server # "down" /\ published < MaxEvents
  /\ published' = published + 1
  /\ conns' = [c \in Ids |-> IF conns[c].status = "absent" THEN conns[c] ELSE Buffered(conns[c], last)]
  /\ sockets' = [s \in Sockets |->
       IF Reaches(s)
       THEN [sockets[s] EXCEPT !.down =
               Append(@, Event(conns[sockets[s].conn].sent + 1, published + 1, last))]
       ELSE sockets[s]]
  /\ UNCHANGED <<client, view, refreshes, mishaps>>

Push == PushEvent(FALSE) /\ UNCHANGED server

(* stop announces itself first, and drains for a while. *)
Announce ==
  /\ server = "up" /\ "stop" \in Mishaps /\ mishaps < MaxMishaps
  /\ PushEvent(TRUE)
  /\ server' = "stopping"

(* close, or a crash: every connection and every retained buffer is gone. *)
Stop ==
  /\ server # "down" /\ Mishap("stop")
  /\ server' = "down"
  /\ conns' = [c \in Ids |-> NoConn]
  /\ sockets' = [s \in Sockets |->
       IF sockets[s].server = "none" THEN sockets[s]
       ELSE [sockets[s] EXCEPT !.server = "closed", !.link = FALSE, !.seqAck = 0]]
  /\ UNCHANGED <<client, published, view, refreshes>>

Restart ==
  /\ server = "down"
  /\ server' = "up"
  /\ UNCHANGED <<client, sockets, conns, published, view, refreshes, mishaps>>

(* canReplay: nothing was missed, or the buffer reaches back far enough. *)
CanReplay(c, first, lastSeq) ==
  lastSeq >= c.sent \/ (first <= c.sent /\ lastSeq >= first - 1)

(* The events after lastSeq.  Of one connection's events the numbers differ  *)
(* from the sequence numbers by a constant.                                  *)
Replayed(c, lastSeq) ==
  [i \in 1 .. c.sent - lastSeq |->
     Event(lastSeq + i, published - c.sent + lastSeq + i, lastSeq + i = c.closing)]

Answer(c, id, first, lastSeq) ==
  IF CanReplay(c, first, lastSeq)
  THEN <<Ack(id, TRUE, FALSE)>> \o Replayed(c, lastSeq)
  ELSE <<Ack(id, TRUE, TRUE)>>

(* Registers connection id on socket s.  A socket that closed while its      *)
(* credentials were checked gets no answer and no close handler, but its     *)
(* connection is registered all the same.                                    *)
Registered(s, id, answer) ==
  LET attended == sockets[s].server # "unattended"
  IN  [sockets EXCEPT ![s].server = IF attended THEN "attached" ELSE "closed",
                      ![s].conn = id, ![s].hello = NoReconnect,
                      ![s].down = IF attended /\ Arrives(s) THEN @ \o answer ELSE @]

(* Only a retained connection is taken up again. *)
Recognised(h) == h.id # 0 /\ conns[h.id].status = "retained"

(* Mutant of Reconnect: the buffer is not rid of what has outlived its time. *)
ReconnectUnevicted(s, h) ==
  \E first \in conns[h.id].first .. conns[h.id].sent + 1 :
    /\ sockets' = Registered(s, h.id, Answer(conns[h.id], h.id, first, h.lastSeq))
    /\ conns' = [conns EXCEPT ![h.id].status = "connected", ![h.id].sock = s]

Reconnect(s, h) ==
  \E first \in conns[h.id].first .. conns[h.id].sent + 1 :
    /\ sockets' = Registered(s, h.id, Answer(conns[h.id], h.id, first, h.lastSeq))
    /\ conns' = [conns EXCEPT ![h.id].status = "connected", ![h.id].sock = s, ![h.id].first = first]

FreshConnect(s) ==
  /\ sockets' = Registered(s, s, <<Ack(s, FALSE, FALSE)>>)
  /\ conns' = [conns EXCEPT ![s] = [NoConn EXCEPT !.status = "connected", !.sock = s]]

(* The handshake, from the moment its credentials are accepted. *)
Handshake(s) ==
  \/ Recognised(sockets[s].hello) /\ Reconnect(s, sockets[s].hello)
  \/ ~Recognised(sockets[s].hello) /\ FreshConnect(s)

(* Credentials that can be compared at once leave no room for another step. *)
HandshakeArrives(s) ==
  /\ ~AuthTakesTurns /\ sockets[s].server = "waiting"
  /\ Handshake(s)
  /\ UNCHANGED <<client, server, published, view, refreshes, mishaps>>

(* A session cookie is verified asynchronously. *)
CheckBegins(s) ==
  /\ AuthTakesTurns /\ sockets[s].server = "waiting"
  /\ sockets' = [sockets EXCEPT ![s].server = "checking"]
  /\ UNCHANGED <<client, conns, server, published, view, refreshes, mishaps>>

CheckEnds(s) ==
  /\ sockets[s].server \in {"checking", "unattended"}
  /\ Handshake(s)
  /\ UNCHANGED <<client, server, published, view, refreshes, mishaps>>

(* The credentials are refused: an error, and the socket is closed. *)
CheckFails(s) ==
  /\ sockets[s].server \in {IF AuthTakesTurns THEN "checking" ELSE "waiting", "unattended"}
  /\ Mishap("refusal")
  /\ sockets' = [sockets EXCEPT
       ![s].server = "closed",
       ![s].down = IF sockets[s].server # "unattended" /\ Arrives(s)
                   THEN Append(@, Refusal) ELSE @]
  /\ UNCHANGED <<client, conns, server, published, view, refreshes>>

(* Mutant of Acknowledged: one event too many leaves the buffer. *)
AcknowledgedBeyond(c, n) ==
  IF n > c.acked THEN [c EXCEPT !.acked = n, !.first = Larger(c.first, n + 2)] ELSE c

(* What an acknowledgement covers leaves the buffer. *)
Acknowledged(c, n) ==
  IF n > c.acked THEN [c EXCEPT !.acked = n, !.first = Larger(c.first, n + 1)] ELSE c

(* sequence_ack. *)
AckArrives(s) ==
  /\ sockets[s].server = "attached" /\ sockets[s].seqAck # 0
  /\ conns' = [conns EXCEPT ![sockets[s].conn] = Acknowledged(@, sockets[s].seqAck)]
  /\ sockets' = [sockets EXCEPT ![s].seqAck = 0]
  /\ UNCHANGED <<client, server, published, view, refreshes, mishaps>>

(* The socket's end closes: the client closed it, its handshake did not come *)
(* in time, or two pings went unanswered.  Only an attached one has a        *)
(* handler: its connection is retained for a while.                          *)
ServerSeesClose(s) ==
  /\ sockets[s].server \in {"waiting", "checking", "attached"}
  /\ ~sockets[s].link \/ sockets[s].client \in {"closing", "closed"}
  /\ sockets' = [sockets EXCEPT
       ![s].server = IF @ = "checking" THEN "unattended" ELSE "closed", ![s].seqAck = 0]
  /\ conns' = IF sockets[s].server = "attached"
              THEN [conns EXCEPT ![sockets[s].conn].status = "retained"] ELSE conns
  /\ UNCHANGED <<client, server, published, view, refreshes, mishaps>>

(* Its time is over, or fifty others disconnected after it. *)
RetentionEnds(c) ==
  /\ conns[c].status = "retained"
  /\ conns' = [conns EXCEPT ![c] = NoConn]
  /\ UNCHANGED <<client, sockets, server, published, view, refreshes, mishaps>>

(* The network. *)
Breaks(s) ==
  /\ sockets[s].client \notin {"unused", "closed"} /\ sockets[s].link
  /\ Mishap("drop")
  /\ sockets' = [sockets EXCEPT ![s].link = FALSE]
  /\ UNCHANGED <<client, conns, server, published, view, refreshes>>
-----------------------------------------------------------------------------

(* The application connects as it starts. *)
Init ==
  /\ client = [FreshClient EXCEPT !.ws = 1, !.ready = TRUE]
  /\ sockets = [s \in Sockets |-> IF s = 1 THEN [FreshSocket EXCEPT !.client = "connecting"]
                                  ELSE FreshSocket]
  /\ conns = [c \in Ids |-> NoConn]
  /\ server = "up"
  /\ published = 0 /\ view = 0 /\ refreshes = 0
  /\ mishaps = 0

ClientStep(s) ==
  \/ Opens(s) \/ OpenFails(s) \/ ConnectTimesOut(s)
  \/ ClientReceives(s) \/ ClientSeesClose(s) \/ SendAck(s)

ServerStep(s) ==
  \/ HandshakeArrives(s) \/ CheckBegins(s) \/ CheckEnds(s) \/ CheckFails(s)
  \/ AckArrives(s) \/ ServerSeesClose(s)

Next ==
  \/ Invoke \/ RetryFires \/ ReconnectNow \/ Destroy
  \/ \E s \in Sockets : ClientStep(s) \/ ServerStep(s) \/ Breaks(s)
  \/ \E c \in Ids : RetentionEnds(c)
  \/ Push \/ Announce \/ Stop \/ Restart

Spec == Init /\ [][Next]_vars

(* Timers fire, messages that arrive are handled, either end notices a socket *)
(* that is gone, and a server that stopped is started again.  Nobody has to   *)
(* push, to call, to break anything or to refuse anyone.                      *)
Fairness ==
  /\ WF_vars(RetryFires) /\ WF_vars(Restart)
  /\ \A s \in Sockets :
       /\ WF_vars(Opens(s)) /\ WF_vars(OpenFails(s)) /\ WF_vars(ConnectTimesOut(s))
       /\ WF_vars(ClientReceives(s)) /\ WF_vars(ClientSeesClose(s))
       /\ WF_vars(HandshakeArrives(s)) /\ WF_vars(CheckBegins(s)) /\ WF_vars(CheckEnds(s))
       /\ WF_vars(AckArrives(s)) /\ WF_vars(ServerSeesClose(s))

FairSpec == Spec /\ Fairness
-----------------------------------------------------------------------------
(* What the client keeps is of the range the server can make sense of. *)
TypeOK ==
  /\ client \in [ws : 0 .. MaxSockets, id : 0 .. MaxSockets, connected : BOOLEAN,
                 lastSeen : Nat, pending : [id : 0 .. MaxSockets, lastSeq : Nat],
                 asking : BOOLEAN, manual : BOOLEAN, retry : BOOLEAN, ready : BOOLEAN,
                 closed : BOOLEAN, destroyed : BOOLEAN]
  /\ sockets \in [Sockets ->
       [client : {"unused", "connecting", "open", "closing", "closed"},
        server : {"none", "waiting", "checking", "unattended", "attached", "closed"},
        link : BOOLEAN, conn : 0 .. MaxSockets,
        hello : [id : 0 .. MaxSockets, lastSeq : Nat], seqAck : Nat,
        down : Seq([kind : {"handshake_ack", "event", "error"}, ev : Nat, id : 0 .. MaxSockets,
                    reconnected : BOOLEAN, stale : BOOLEAN, seq : Nat, last : BOOLEAN])]]
  /\ conns \in [Ids -> [status : {"absent", "connected", "retained"}, sock : 0 .. MaxSockets,
                        first : Nat, sent : Nat, acked : Nat, closing : Nat]]
  /\ \A c \in Ids : conns[c].first \in 1 .. conns[c].sent + 1
  /\ server \in {"up", "stopping", "down"}
  /\ published \in Nat /\ view \in Nat /\ refreshes \in Nat /\ mishaps \in Nat

(* The close handler takes its connection out by id, whatever socket it is   *)
(* on by then, and a message is attributed by its socket.  So an attached    *)
(* socket must be the one its connection is on.                              *)
AttachedOnce ==
  \A s \in Sockets : sockets[s].server = "attached" =>
    conns[sockets[s].conn].status = "connected" /\ conns[sockets[s].conn].sock = s

(* The connection the client would resume, as far as the server still has it. *)
Resumes(c) == Position(client).id = c /\ conns[c].status # "absent"
Resumed == Position(client).lastSeq

(* An acknowledgement never takes out of the buffer what the application     *)
(* that may ask for it again has not handled.                                *)
AckedWasSeen == \A c \in Ids : Resumes(c) => conns[c].acked <= Resumed

(* A stale answer leaves the client's number behind what its state reflects. *)
(* Once it is behind, the buffer must never reach back to it again: a replay *)
(* from there would hand the application events it has long loaded.          *)
BehindNeverReplays ==
  \A c \in Ids : Resumes(c) =>
    \/ Resumed + (published - conns[c].sent) = view
    \/ ~CanReplay(conns[c], conns[c].first, Resumed)

(* The application learns of every event once and in order, or is told to    *)
(* load its state anew: the transport implements EventStream.                *)
Stream == INSTANCE EventStream
            WITH published <- published, view <- view, refreshes <- refreshes
InOrder == Stream!Spec

(* Its state comes to reflect every event, unless the window is closed or    *)
(* the server announced that it stops.                                       *)
CaughtUp ==
  \A n \in 1 .. MaxEvents :
    published >= n ~> view >= n \/ client.destroyed \/ client.closed
================================================================================
