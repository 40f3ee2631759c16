---------------------------- MODULE TransportProofs ----------------------------
(***************************************************************************)
(* Proofs about the transport: that it implements EventStream, for every   *)
(* number of sockets, events and mishaps and every size of the buffer.     *)
(***************************************************************************)
EXTENDS Transport, TLAPS

Present(c) == conns[c].status # "absent"

(* A socket whose handshake is over has given out its id, if ever. *)
Issued(c) == sockets[c].server \in {"attached", "closed"}

(* Only the current socket is in use; one that was not accepted is as new. *)
SocketsInv ==
  /\ \A s \in Sockets :
       /\ s # client.ws => sockets[s].client \in {"unused", "closed"} /\ sockets[s].down = <<>>
       /\ s = client.ws => sockets[s].client \in {"connecting", "open", "closing"}
       /\ sockets[s].client \in {"unused", "connecting"} => sockets[s].server = "none"
       /\ sockets[s].server \notin {"attached", "closed"} =>
            sockets[s].down = <<>> /\ sockets[s].seqAck = 0
       /\ sockets[s].server = "attached" => sockets[s].conn # 0
  /\ \A c \in Ids : Present(c) => Issued(c)

(* What the client keeps. *)
ClientInv ==
  /\ client.destroyed => client.ws = 0 /\ ~client.retry /\ ~client.connected
  /\ ~client.destroyed => (client.connected <=> client.id # 0)
  /\ client.connected => /\ client.ws # 0 /\ Issued(client.ws)
                         /\ sockets[client.ws].conn = client.id
                         /\ sockets[client.ws].client # "connecting"
  /\ client.retry => client.ws = 0
  /\ client.pending.id = 0 => client.pending = NoReconnect
  /\ client.id = 0 /\ client.pending.id # 0 => client.lastSeen = client.pending.lastSeq
  /\ refreshes # 0 /\ ~client.destroyed => Position(client).id # 0
  /\ Position(client).id # 0 => Issued(Position(client).id)

(* The handshake the current socket sent. *)
HelloInv ==
  client.ws # 0 /\ ~client.connected /\ sockets[client.ws].server # "none" =>
    /\ client.asking <=> client.pending # NoReconnect
    /\ sockets[client.ws].server \in {"waiting", "checking"} =>
         sockets[client.ws].hello = client.pending
    /\ sockets[client.ws].seqAck = 0

(* Beyond the first k messages, events follow one another from n, and reach *)
(* the last one pushed if the socket still does.                            *)
Follows(s, q, k, n) ==
  /\ \A i \in k + 1 .. Len(q) : q[i].kind = "event" /\ q[i].ev + k = n + i
  /\ n + Len(q) <= published + k
  /\ Reaches(s) => n + Len(q) = published + k

(* Nothing was acknowledged on connection c. *)
Unacked(c) ==
  /\ conns[c].acked = 0
  /\ \A t \in Sockets : sockets[t].server = "attached" /\ sockets[t].conn = c => sockets[t].seqAck = 0

(* What an answer on its way leaves the client with. *)
AckInv(s, m) ==
  /\ m.id = sockets[s].conn /\ m.id # 0 /\ Issued(m.id)
  /\ m.ev >= view
  /\ m.reconnected => m.id = client.pending.id
  /\ Present(m.id) =>
       /\ ~m.reconnected => m.ev + conns[m.id].sent = published /\ Unacked(m.id)
       /\ m.reconnected /\ m.stale => client.lastSeen + 1 < conns[m.id].first

(* What is on its way before the answer was received. *)
Before(s, q) ==
  \/ q = <<>> /\ ~Reaches(s)
  \/ Len(q) = 1 /\ q[1].kind = "error" /\ sockets[s].server = "closed"
  \/ /\ q # <<>> /\ q[1].kind = "handshake_ack" /\ AckInv(s, q[1])
     /\ Follows(s, q, 1, IF Stale(q[1]) THEN q[1].ev ELSE view)

(* The number of an event tells which one it is. *)
Numbered(s, q) ==
  \A i \in 1 .. Len(q) : q[i].kind = "event" =>
    /\ sockets[s].conn # 0 /\ Issued(sockets[s].conn)
    /\ Present(sockets[s].conn) =>
         q[i].ev + conns[sockets[s].conn].sent = q[i].seq + published

(* What is on its way on the current socket. *)
FlowInv ==
  \A s \in Sockets : s = client.ws =>
    /\ client.connected => Follows(s, sockets[s].down, 0, view)
    /\ ~client.connected => Before(s, sockets[s].down)
    /\ Numbered(s, sockets[s].down)

(* Of the connection the client would resume: its number tells what its      *)
(* state reflects, or is too old for the buffer.                             *)
PositionInv ==
  LET p == Position(client)
  IN  p.id # 0 /\ Present(p.id) =>
        /\ p.lastSeq + published <= view + conns[p.id].sent
        /\ \/ p.lastSeq + published = view + conns[p.id].sent
           \/ p.lastSeq + 1 < conns[p.id].first
        /\ conns[p.id].acked <= p.lastSeq

(* Acknowledgements on their way. *)
SeqAckInv ==
  \A s \in Sockets : sockets[s].server = "attached" =>
    /\ sockets[s].seqAck <= conns[sockets[s].conn].sent
    /\ sockets[s].conn = Position(client).id => sockets[s].seqAck <= Position(client).lastSeq

IInv ==
  /\ TypeOK /\ AttachedOnce /\ SocketsInv /\ ClientInv /\ HelloInv /\ FlowInv /\ PositionInv /\ SeqAckInv
  /\ view <= published

ClientType ==
  [ws : 0 .. MaxSockets, id : 0 .. MaxSockets, connected : BOOLEAN,
   lastSeen : Nat, pending : [id : 0 .. MaxSockets, lastSeq : Nat],
   asking : BOOLEAN, manual : BOOLEAN, retry : BOOLEAN, ready : BOOLEAN,
   closed : BOOLEAN, destroyed : BOOLEAN]
Messages ==
  [kind : {"handshake_ack", "event", "error"}, ev : Nat, id : 0 .. MaxSockets,
   reconnected : BOOLEAN, stale : BOOLEAN, seq : Nat, last : BOOLEAN]
SocketType ==
  [client : {"unused", "connecting", "open", "closing", "closed"},
   server : {"none", "waiting", "checking", "unattended", "attached", "closed"},
   link : BOOLEAN, conn : 0 .. MaxSockets,
   hello : [id : 0 .. MaxSockets, lastSeq : Nat], seqAck : Nat, down : Seq(Messages)]
ConnType ==
  [status : {"absent", "connected", "retained"}, sock : 0 .. MaxSockets,
   first : Nat, sent : Nat, acked : Nat, closing : Nat]

Shape ==
  /\ client \in ClientType /\ sockets \in [Sockets -> SocketType]
  /\ conns \in [Ids -> ConnType] /\ \A c \in Ids : conns[c].first \in 1 .. conns[c].sent + 1
  /\ server \in {"up", "stopping", "down"}
  /\ published \in Nat /\ view \in Nat /\ refreshes \in Nat /\ mishaps \in Nat

LEMMA Types == TypeOK <=> Shape
  BY DEF TypeOK, Shape, ClientType, Messages, SocketType, ConnType

LEMMA NextShape == Shape' => TypeOK'
  BY Types, PTL

(* What the types are used for. *)
Typed ==
  /\ client \in ClientType /\ sockets \in [Sockets -> SocketType] /\ conns \in [Ids -> ConnType]
  /\ client.ws \in 0 .. MaxSockets /\ client.id \in 0 .. MaxSockets /\ client.lastSeen \in Nat
  /\ client.pending.id \in 0 .. MaxSockets /\ client.pending.lastSeq \in Nat
  /\ published \in Nat /\ view \in Nat /\ refreshes \in Nat
  /\ \A s \in Sockets : /\ sockets[s] \in SocketType /\ sockets[s].down \in Seq(Messages)
                        /\ sockets[s].conn \in 0 .. MaxSockets /\ sockets[s].seqAck \in Nat
  /\ \A c \in Ids : /\ conns[c] \in ConnType /\ conns[c].first \in Nat /\ conns[c].sent \in Nat
                    /\ conns[c].acked \in Nat /\ conns[c].first \in 1 .. conns[c].sent + 1

LEMMA Bounds == MaxSockets \in Nat /\ Sockets = 1 .. MaxSockets /\ Ids = 1 .. MaxSockets
  BY TransportAssumption DEF Sockets, Ids

LEMMA StateTypes == TypeOK => Typed
<1> SUFFICES ASSUME TypeOK PROVE Typed
  OBVIOUS
<1>1. /\ client \in ClientType /\ sockets \in [Sockets -> SocketType] /\ conns \in [Ids -> ConnType]
      /\ published \in Nat /\ view \in Nat /\ refreshes \in Nat
      /\ \A c \in Ids : conns[c].first \in 1 .. conns[c].sent + 1
  BY Types DEF Shape
<1>2. /\ client.ws \in 0 .. MaxSockets /\ client.id \in 0 .. MaxSockets /\ client.lastSeen \in Nat
      /\ client.pending.id \in 0 .. MaxSockets /\ client.pending.lastSeq \in Nat
  BY <1>1 DEF ClientType
<1>3. ASSUME NEW s \in Sockets
      PROVE  /\ sockets[s] \in SocketType /\ sockets[s].down \in Seq(Messages)
             /\ sockets[s].conn \in 0 .. MaxSockets /\ sockets[s].seqAck \in Nat
  BY <1>1 DEF SocketType
<1>4. ASSUME NEW c \in Ids
      PROVE  /\ conns[c] \in ConnType /\ conns[c].first \in Nat /\ conns[c].sent \in Nat
             /\ conns[c].acked \in Nat
  BY <1>1 DEF ConnType
<1> QED BY <1>1, <1>2, <1>3, <1>4 DEF Typed

LEMMA NextTypes == TypeOK' => Typed'
  BY StateTypes, PTL

LEMMA AttachedConn ==
  ASSUME Typed, SocketsInv, AttachedOnce, NEW t \in Sockets, sockets[t].server = "attached"
  PROVE  /\ sockets[t].conn \in Ids /\ Present(sockets[t].conn) /\ Issued(sockets[t].conn)
         /\ conns[sockets[t].conn].status = "connected" /\ conns[sockets[t].conn].sock = t
<1>1. sockets[t].conn \in 0 .. MaxSockets
  BY DEF Typed
<1>2. sockets[t].conn # 0
  BY DEF SocketsInv
<1>3. sockets[t].conn \in Ids
  BY <1>1, <1>2, Bounds
<1>4. conns[sockets[t].conn].status = "connected" /\ conns[sockets[t].conn].sock = t
  BY DEF AttachedOnce
<1> QED BY <1>3, <1>4 DEF Present, SocketsInv

(* What keeps what is on its way as it is: the client and the messages are   *)
(* left alone, no socket reaches it that did not, and of connections whose   *)
(* id was given out only old events are dropped.                             *)
Undisturbed ==
  /\ client'.ws = client.ws /\ client'.connected = client.connected
  /\ client'.lastSeen = client.lastSeen
  /\ ~client.connected => client'.pending = client.pending
  /\ view' = view /\ published' = published
  /\ \A s \in Sockets : s = client.ws =>
       /\ sockets'[s].down = sockets[s].down
       /\ Issued(s) => sockets'[s].conn = sockets[s].conn
       /\ Reaches(s)' => Reaches(s)
       /\ sockets[s].server = "closed" => sockets'[s].server = "closed"
  /\ \A c \in Ids : Issued(c) =>
       /\ Issued(c)'
       /\ Present(c)' => Present(c) /\ conns'[c].sent = conns[c].sent /\ conns'[c].first >= conns[c].first
       /\ Present(c)' /\ Unacked(c) /\ ~client.connected => Unacked(c)'

LEMMA FlowKept ==
  ASSUME TypeOK, TypeOK', SocketsInv, ClientInv, FlowInv, Undisturbed
  PROVE  FlowInv'
<1>1. SUFFICES ASSUME NEW s \in Sockets, s = client.ws
               PROVE /\ client.connected => Follows(s, sockets[s].down, 0, view)'
                     /\ ~client.connected => Before(s, sockets[s].down)'
                     /\ Numbered(s, sockets[s].down)'
  BY DEF FlowInv, Undisturbed
<1>2. /\ sockets'[s].down = sockets[s].down
      /\ Issued(s) => sockets'[s].conn = sockets[s].conn
      /\ Reaches(s)' => Reaches(s)
      /\ sockets[s].server = "closed" => sockets'[s].server = "closed"
      /\ view' = view /\ published' = published
      /\ client'.lastSeen = client.lastSeen
      /\ ~client.connected => client'.pending = client.pending
  BY <1>1 DEF Undisturbed
<1>3. \A c \in Ids : Issued(c) =>
        /\ Issued(c)'
        /\ Present(c)' => Present(c) /\ conns'[c].sent = conns[c].sent /\ conns'[c].first >= conns[c].first
        /\ Present(c)' /\ Unacked(c) /\ ~client.connected => Unacked(c)'
  BY DEF Undisturbed
<1>4. ~Issued(s) => sockets[s].down = <<>>
  BY <1>1 DEF SocketsInv, Issued
<1>5. client.connected => Follows(s, sockets[s].down, 0, view)'
  BY <1>1, <1>2 DEF FlowInv, Follows
<1>6. ASSUME ~client.connected PROVE Before(s, sockets[s].down)'
  <2>1. Before(s, sockets[s].down)
    BY <1>1, <1>6 DEF FlowInv
  <2>2. ASSUME sockets[s].down # <<>>, sockets[s].down[1].kind = "handshake_ack",
               AckInv(s, sockets[s].down[1]),
               NEW n, Follows(s, sockets[s].down, 1, n)
        PROVE  AckInv(s, sockets[s].down[1])' /\ Follows(s, sockets[s].down, 1, n)'
    <3>1. Follows(s, sockets[s].down, 1, n)'
      BY <2>2, <1>2 DEF Follows
    <3>2. sockets[s].down[1].id \in Ids /\ Issued(sockets[s].down[1].id)
      BY <2>2, StateTypes, Bounds DEF AckInv, Typed
    <3>3. PICK m : m = sockets[s].down[1]
      OBVIOUS
    <3>4. /\ conns[m.id].first \in Nat /\ conns'[m.id].first \in Nat /\ client.lastSeen \in Nat
          /\ m.id \in Ids /\ Issued(m.id) /\ Issued(s) /\ client'.pending = client.pending
      BY <3>2, <3>3, <2>2, <1>2, <1>4, <1>6, StateTypes, NextTypes DEF Typed
    <3>5. AckInv(s, m)'
      BY <2>2, <3>3, <3>4, <1>2, <1>3, <1>6 DEF AckInv, Issued, Present, Unacked
    <3> QED BY <3>1, <3>3, <3>5, <1>2
  <2> QED BY <2>1, <2>2, <1>2 DEF Before, Stale
<1>7. Numbered(s, sockets[s].down)'
  <2>1. CASE ~Issued(s)
    BY <2>1, <1>2, <1>4 DEF Numbered
  <2>2. ASSUME Issued(s), NEW i \in 1 .. Len(sockets[s].down), sockets[s].down[i].kind = "event"
        PROVE  /\ sockets[s].conn # 0 /\ Issued(sockets[s].conn)'
               /\ Present(sockets[s].conn)' =>
                    sockets[s].down[i].ev + conns'[sockets[s].conn].sent
                      = sockets[s].down[i].seq + published
    <3>1. /\ sockets[s].conn # 0 /\ Issued(sockets[s].conn)
          /\ Present(sockets[s].conn) =>
               sockets[s].down[i].ev + conns[sockets[s].conn].sent = sockets[s].down[i].seq + published
          /\ sockets'[s].conn = sockets[s].conn
      BY <1>1, <1>2, <2>2 DEF FlowInv, Numbered
    <3>2. sockets[s].conn \in Ids
      BY <3>1, StateTypes, Bounds DEF Typed
    <3> QED BY <3>1, <3>2, <1>3 DEF Present, Issued
  <2> QED BY <2>1, <2>2, <1>2 DEF Numbered, Present, Issued
<1> QED BY <1>5, <1>6, <1>7

(* A step beside the client: what it does to the current socket, and to the  *)
(* connections whose id was given out.                                       *)
Beside ==
  /\ UNCHANGED <<client, published, view, refreshes>>
  /\ \A s \in Sockets : s = client.ws =>
       /\ sockets'[s].client = sockets[s].client
       /\ Issued(s) => sockets'[s].conn = sockets[s].conn
       /\ sockets'[s].server # "none" => sockets[s].server # "none"
       /\ sockets'[s].server \in {"waiting", "checking"} =>
            sockets[s].server \in {"waiting", "checking"} /\ sockets'[s].hello = sockets[s].hello
       /\ ~client.connected => sockets'[s].seqAck \in {0, sockets[s].seqAck}
  /\ \A c \in Ids : Issued(c) =>
       /\ Issued(c)'
       /\ Present(c)' => Present(c) /\ conns'[c].sent = conns[c].sent /\ conns'[c].first >= conns[c].first
       /\ Present(c)' => \/ conns'[c].acked = conns[c].acked
                         \/ \E t \in Sockets : /\ sockets[t].server = "attached" /\ sockets[t].conn = c
                                              /\ sockets[t].seqAck = conns'[c].acked
       /\ Present(c)' /\ Unacked(c) /\ ~client.connected => Unacked(c)'

(* It leaves what is on its way to the client alone, too. *)
Aside ==
  /\ Beside
  /\ \A s \in Sockets : s = client.ws =>
       /\ sockets'[s].down = sockets[s].down
       /\ Reaches(s)' => Reaches(s)
       /\ sockets[s].server = "closed" => sockets'[s].server = "closed"

LEMMA BesideKeeps ==
  ASSUME TypeOK, TypeOK', SocketsInv, ClientInv, HelloInv, PositionInv, SeqAckInv,
         view <= published, Beside
  PROVE  ClientInv' /\ HelloInv' /\ PositionInv' /\ (view <= published)'
<1>1. /\ client.ws # 0 => client.ws \in Sockets
      /\ Position(client).id \in 0 .. MaxSockets /\ Position(client).lastSeq \in Nat
  BY StateTypes, Bounds DEF Typed, Position
<1>2. client' = client /\ published' = published /\ view' = view /\ refreshes' = refreshes
  BY DEF Beside
<1>3. \A c \in Ids : Issued(c) => Issued(c)'
  BY DEF Beside
<1>4. ClientInv'
  <2>1. PICK p : p = Position(client).id
    OBVIOUS
  <2>2. p # 0 => Issued(p)'
    BY <2>1, <1>1, <1>3, Bounds DEF ClientInv
  <2>3. ASSUME client.connected, NEW w \in Sockets, w = client.ws
        PROVE  Issued(w)' /\ sockets'[w].conn = client.id /\ sockets'[w].client # "connecting"
    BY <2>3, <1>3, Bounds DEF ClientInv, Beside
  <2>4. client.connected => /\ client.ws # 0 /\ sockets'[client.ws].server \in {"attached", "closed"}
                            /\ sockets'[client.ws].conn = client.id
                            /\ sockets'[client.ws].client # "connecting"
    BY <1>1, <2>3 DEF ClientInv, Issued
  <2>5. Position(client)' = Position(client)
    BY <1>2 DEF Position
  <2>6. Position(client).id # 0 => sockets'[Position(client).id].server \in {"attached", "closed"}
    BY <2>1, <2>2 DEF Issued
  <2>7. /\ client.destroyed => client.ws = 0 /\ ~client.retry /\ ~client.connected
        /\ ~client.destroyed => (client.connected <=> client.id # 0)
        /\ client.retry => client.ws = 0
        /\ client.pending.id = 0 => client.pending = NoReconnect
        /\ client.id = 0 /\ client.pending.id # 0 => client.lastSeen = client.pending.lastSeq
        /\ refreshes # 0 /\ ~client.destroyed => Position(client).id # 0
    BY DEF ClientInv
  <2> QED BY <1>2, <2>4, <2>5, <2>6, <2>7, Zenon DEF ClientInv, Issued
<1>5. HelloInv'
  <2>1. SUFFICES ASSUME NEW w \in Sockets, w = client.ws, ~client.connected, sockets'[w].server # "none"
                 PROVE  /\ client.asking <=> client.pending # NoReconnect
                        /\ sockets'[w].server \in {"waiting", "checking"} =>
                             sockets'[w].hello = client.pending
                        /\ sockets'[w].seqAck = 0
    <3>1. client.ws # 0 => client.ws \in Sockets
      BY <1>1
    <3> QED BY <3>1, <1>2, Zenon DEF HelloInv
  <2>2. /\ client.asking <=> client.pending # NoReconnect
        /\ sockets[w].server \in {"waiting", "checking"} => sockets[w].hello = client.pending
        /\ sockets[w].seqAck = 0 /\ sockets[w].server # "none"
    BY <2>1, Bounds DEF HelloInv, Beside
  <2> QED BY <2>1, <2>2 DEF Beside
<1>6. PositionInv'
  <2>1. SUFFICES ASSUME Position(client).id # 0, Present(Position(client).id)'
                 PROVE  /\ Position(client).lastSeq + published <= view + conns'[Position(client).id].sent
                        /\ \/ Position(client).lastSeq + published = view + conns'[Position(client).id].sent
                           \/ Position(client).lastSeq + 1 < conns'[Position(client).id].first
                        /\ conns'[Position(client).id].acked <= Position(client).lastSeq
    BY <1>2 DEF PositionInv, Position, Present
  <2>2. PICK c \in Ids : c = Position(client).id
    BY <2>1, <1>1, Bounds
  <2>3. Issued(c)
    BY <2>1, <2>2 DEF ClientInv
  <2>4. /\ Present(c) /\ conns'[c].sent = conns[c].sent /\ conns'[c].first >= conns[c].first
        /\ \/ conns'[c].acked = conns[c].acked
           \/ \E t \in Sockets : /\ sockets[t].server = "attached" /\ sockets[t].conn = c
                                /\ sockets[t].seqAck = conns'[c].acked
    BY <2>1, <2>2, <2>3 DEF Beside
  <2>5. conns[c].first \in Nat /\ conns'[c].first \in Nat
    BY StateTypes, NextTypes DEF Typed
  <2> QED BY <2>1, <2>2, <2>4, <2>5, <1>1 DEF PositionInv, SeqAckInv
<1> QED BY <1>2, <1>4, <1>5, <1>6

LEMMA AsideKeeps ==
  ASSUME TypeOK, TypeOK', SocketsInv, ClientInv, HelloInv, FlowInv, PositionInv, SeqAckInv,
         view <= published, Aside
  PROVE  ClientInv' /\ HelloInv' /\ FlowInv' /\ PositionInv' /\ (view <= published)'
<1>1. Beside
  BY DEF Aside
<1>2. client' = client /\ published' = published /\ view' = view /\ refreshes' = refreshes
  BY <1>1 DEF Beside
<1>3. FlowInv'
  BY <1>2, FlowKept DEF Aside, Beside, Undisturbed
<1> QED BY <1>1, <1>3, BesideKeeps

LEMMA CheckBeginsKeeps ==
  ASSUME IInv, NEW s \in Sockets, CheckBegins(s) PROVE IInv'
<1>1. /\ TypeOK /\ AttachedOnce /\ SocketsInv /\ ClientInv /\ HelloInv /\ FlowInv /\ PositionInv /\ SeqAckInv
      /\ view <= published /\ Typed
  BY StateTypes DEF IInv
<1>2. /\ sockets[s].server = "waiting"
      /\ UNCHANGED <<client, conns, server, published, view, refreshes, mishaps>>
  BY DEF CheckBegins
<1>3. /\ sockets' \in [Sockets -> SocketType]
      /\ \A t \in Sockets : t # s => sockets'[t] = sockets[t]
      /\ sockets'[s].client = sockets[s].client /\ sockets'[s].server = "checking"
      /\ sockets'[s].link = sockets[s].link /\ sockets'[s].conn = sockets[s].conn
      /\ sockets'[s].hello = sockets[s].hello /\ sockets'[s].seqAck = sockets[s].seqAck
      /\ sockets'[s].down = sockets[s].down
  BY <1>1 DEF CheckBegins, Typed, SocketType
<1>4. TypeOK'
  BY <1>1, <1>2, <1>3, Types, NextShape DEF Shape
<1>5. AttachedOnce'
  BY <1>1, <1>2, <1>3 DEF AttachedOnce
<1>6. SocketsInv'
  BY <1>1, <1>2, <1>3 DEF SocketsInv, Present, Issued, Ids
<1>7. \A c \in Ids : (Issued(c) <=> Issued(c)') /\ (Present(c) <=> Present(c)')
  BY <1>2, <1>3 DEF Issued, Present, Ids
<1>8. Aside
  <2>1. \A c \in Ids : Unacked(c) => Unacked(c)'
    BY <1>2, <1>3 DEF Unacked
  <2>2. \A t \in Sockets : Reaches(t)' => Reaches(t)
    BY <1>2, <1>3 DEF Reaches, Arrives
  <2>3. \A t \in Sockets : t = client.ws =>
         /\ sockets'[t].down = sockets[t].down /\ sockets'[t].client = sockets[t].client
         /\ Issued(t) => sockets'[t].conn = sockets[t].conn
         /\ sockets[t].server = "closed" => sockets'[t].server = "closed"
         /\ sockets'[t].server # "none" => sockets[t].server # "none"
         /\ sockets'[t].server \in {"waiting", "checking"} =>
              sockets[t].server \in {"waiting", "checking"} /\ sockets'[t].hello = sockets[t].hello
         /\ ~client.connected => sockets'[t].seqAck \in {0, sockets[t].seqAck}
    BY <1>2, <1>3
  <2>4. \A c \in Ids : conns'[c].first >= conns[c].first
    BY <1>1, <1>2 DEF Typed
  <2> QED BY <1>2, <1>7, <2>1, <2>2, <2>3, <2>4 DEF Aside, Beside
<1>9. SeqAckInv'
  BY <1>1, <1>2, <1>3 DEF SeqAckInv, Position
<1> QED BY <1>1, <1>2, <1>4, <1>5, <1>6, <1>8, <1>9, AsideKeeps DEF IInv

LEMMA SendAckKeeps ==
  ASSUME IInv, NEW s \in Sockets, SendAck(s) PROVE IInv'
<1>1. /\ TypeOK /\ AttachedOnce /\ SocketsInv /\ ClientInv /\ HelloInv /\ FlowInv /\ PositionInv /\ SeqAckInv
      /\ view <= published /\ Typed
  BY StateTypes DEF IInv
<1>2. /\ s = client.ws /\ client.connected
      /\ client' = client /\ conns' = conns /\ server' = server /\ published' = published
      /\ view' = view /\ refreshes' = refreshes /\ mishaps' = mishaps
  BY DEF SendAck
<1>3. /\ sockets' \in [Sockets -> SocketType]
      /\ \A t \in Sockets : t # s => sockets'[t] = sockets[t]
      /\ sockets'[s].client = sockets[s].client /\ sockets'[s].server = sockets[s].server
      /\ sockets'[s].link = sockets[s].link /\ sockets'[s].conn = sockets[s].conn
      /\ sockets'[s].hello = sockets[s].hello /\ sockets'[s].seqAck = client.lastSeen
      /\ sockets'[s].down = sockets[s].down
  <2>1. sockets \in [Sockets -> SocketType] /\ client.lastSeen \in Nat
    BY <1>1 DEF Typed
  <2>2. PICK r : r = [sockets[s] EXCEPT !.seqAck = client.lastSeen]
    OBVIOUS
  <2>3. /\ r.client = sockets[s].client /\ r.server = sockets[s].server /\ r.link = sockets[s].link
        /\ r.conn = sockets[s].conn /\ r.hello = sockets[s].hello /\ r.seqAck = client.lastSeen
        /\ r.down = sockets[s].down /\ r \in SocketType
    BY <2>1, <2>2 DEF SocketType
  <2>4. sockets' = [sockets EXCEPT ![s] = r]
    BY <2>2 DEF SendAck
  <2> QED BY <2>1, <2>3, <2>4
<1>4. Issued(s) /\ sockets[s].conn = client.id /\ client.id # 0
  BY <1>1, <1>2 DEF ClientInv
<1>5. TypeOK'
  BY <1>1, <1>2, <1>3, Types, NextShape DEF Shape
<1>6. AttachedOnce'
  BY <1>1, <1>2, <1>3 DEF AttachedOnce
<1>7. SocketsInv'
  BY <1>1, <1>2, <1>3, <1>4 DEF SocketsInv, Present, Issued, Ids
<1>8. \A c \in Ids : (Issued(c) <=> Issued(c)') /\ (Present(c) <=> Present(c)')
  BY <1>2, <1>3 DEF Issued, Present, Ids
<1>9. Aside
  <2>1. \A t \in Sockets : Reaches(t)' => Reaches(t)
    BY <1>2, <1>3 DEF Reaches, Arrives
  <2>2. \A t \in Sockets : t = client.ws =>
         /\ sockets'[t].down = sockets[t].down /\ sockets'[t].client = sockets[t].client
         /\ Issued(t) => sockets'[t].conn = sockets[t].conn
         /\ sockets[t].server = "closed" => sockets'[t].server = "closed"
         /\ sockets'[t].server # "none" => sockets[t].server # "none"
         /\ sockets'[t].server \in {"waiting", "checking"} =>
              sockets[t].server \in {"waiting", "checking"} /\ sockets'[t].hello = sockets[t].hello
    BY <1>2, <1>3
  <2>3. \A c \in Ids : conns'[c].first >= conns[c].first
    BY <1>1, <1>2 DEF Typed
  <2> QED BY <1>2, <1>8, <2>1, <2>2, <2>3 DEF Aside, Beside
<1>10. SeqAckInv'
  <2>1. ASSUME sockets[s].server = "attached" PROVE client.lastSeen <= conns[client.id].sent
    <3>1. client.id \in Ids /\ Present(client.id)
      BY <1>1, <1>4, <2>1, Bounds DEF AttachedOnce, Present, Typed
    <3>2. Position(client).id = client.id /\ Position(client).lastSeq = client.lastSeen
      BY <1>4 DEF Position
    <3>3. client.lastSeen + published <= view + conns[client.id].sent
      BY <1>1, <1>4, <3>1, <3>2 DEF PositionInv
    <3> QED BY <1>1, <3>1, <3>3 DEF Typed
  <2>2. Position(client).id = client.id /\ Position(client).lastSeq = client.lastSeen
    BY <1>4 DEF Position
  <2>3. client.lastSeen \in Nat
    BY <1>1 DEF Typed
  <2> QED BY <1>1, <1>2, <1>3, <1>4, <2>1, <2>2, <2>3 DEF SeqAckInv, Position
<1> QED BY <1>1, <1>2, <1>5, <1>6, <1>7, <1>9, <1>10, AsideKeeps DEF IInv

LEMMA BreaksKeeps ==
  ASSUME IInv, NEW s \in Sockets, Breaks(s) PROVE IInv'
<1>1. /\ TypeOK /\ AttachedOnce /\ SocketsInv /\ ClientInv /\ HelloInv /\ FlowInv /\ PositionInv /\ SeqAckInv
      /\ view <= published /\ Typed
  BY StateTypes DEF IInv
<1>2. /\ client' = client /\ conns' = conns /\ server' = server /\ published' = published
      /\ view' = view /\ refreshes' = refreshes /\ mishaps' = mishaps + 1
  BY DEF Breaks, Mishap
<1>3. /\ sockets' \in [Sockets -> SocketType]
      /\ \A t \in Sockets : t # s => sockets'[t] = sockets[t]
      /\ sockets'[s].client = sockets[s].client /\ sockets'[s].server = sockets[s].server
      /\ sockets'[s].link = FALSE /\ sockets'[s].conn = sockets[s].conn
      /\ sockets'[s].hello = sockets[s].hello /\ sockets'[s].seqAck = sockets[s].seqAck
      /\ sockets'[s].down = sockets[s].down
  BY <1>1 DEF Breaks, Typed, SocketType
<1>4. TypeOK'
  BY <1>1, <1>2, <1>3, Types, NextShape DEF Shape
<1>5. AttachedOnce'
  BY <1>1, <1>2, <1>3 DEF AttachedOnce
<1>6. SocketsInv'
  BY <1>1, <1>2, <1>3 DEF SocketsInv, Present, Issued, Ids
<1>7. \A c \in Ids : (Issued(c) <=> Issued(c)') /\ (Present(c) <=> Present(c)')
  BY <1>2, <1>3 DEF Issued, Present, Ids
<1>8. Aside
  <2>1. \A c \in Ids : Unacked(c) => Unacked(c)'
    BY <1>2, <1>3 DEF Unacked
  <2>2. \A t \in Sockets : Reaches(t)' => Reaches(t)
    BY <1>2, <1>3 DEF Reaches, Arrives
  <2>3. \A t \in Sockets : t = client.ws =>
         /\ sockets'[t].down = sockets[t].down /\ sockets'[t].client = sockets[t].client
         /\ Issued(t) => sockets'[t].conn = sockets[t].conn
         /\ sockets[t].server = "closed" => sockets'[t].server = "closed"
         /\ sockets'[t].server # "none" => sockets[t].server # "none"
         /\ sockets'[t].server \in {"waiting", "checking"} =>
              sockets[t].server \in {"waiting", "checking"} /\ sockets'[t].hello = sockets[t].hello
         /\ ~client.connected => sockets'[t].seqAck \in {0, sockets[t].seqAck}
    BY <1>2, <1>3
  <2>4. \A c \in Ids : conns'[c].first >= conns[c].first
    BY <1>1, <1>2 DEF Typed
  <2> QED BY <1>2, <1>7, <2>1, <2>2, <2>3, <2>4 DEF Aside, Beside
<1>9. SeqAckInv'
  BY <1>1, <1>2, <1>3 DEF SeqAckInv, Position
<1> QED BY <1>1, <1>2, <1>4, <1>5, <1>6, <1>8, <1>9, AsideKeeps DEF IInv

LEMMA AckArrivesKeeps ==
  ASSUME IInv, NEW s \in Sockets, AckArrives(s) PROVE IInv'
<1>1. /\ TypeOK /\ AttachedOnce /\ SocketsInv /\ ClientInv /\ HelloInv /\ FlowInv /\ PositionInv /\ SeqAckInv
      /\ view <= published /\ Typed
  BY StateTypes DEF IInv
<1>2. /\ sockets[s].server = "attached" /\ sockets[s].seqAck # 0
      /\ client' = client /\ server' = server /\ published' = published
      /\ view' = view /\ refreshes' = refreshes /\ mishaps' = mishaps
  BY DEF AckArrives
<1>3. /\ sockets' \in [Sockets -> SocketType]
      /\ \A t \in Sockets : t # s => sockets'[t] = sockets[t]
      /\ sockets'[s].client = sockets[s].client /\ sockets'[s].server = sockets[s].server
      /\ sockets'[s].link = sockets[s].link /\ sockets'[s].conn = sockets[s].conn
      /\ sockets'[s].hello = sockets[s].hello /\ sockets'[s].seqAck = 0
      /\ sockets'[s].down = sockets[s].down
  <2>1. sockets \in [Sockets -> SocketType]
    BY <1>1 DEF Typed
  <2>2. PICK r : r = [sockets[s] EXCEPT !.seqAck = 0]
    OBVIOUS
  <2>3. /\ r.client = sockets[s].client /\ r.server = sockets[s].server /\ r.link = sockets[s].link
        /\ r.conn = sockets[s].conn /\ r.hello = sockets[s].hello /\ r.seqAck = 0
        /\ r.down = sockets[s].down /\ r \in SocketType
    BY <2>1, <2>2 DEF SocketType
  <2>4. sockets' = [sockets EXCEPT ![s] = r]
    BY <2>2 DEF AckArrives
  <2> QED BY <2>1, <2>3, <2>4
<1>4. PICK k \in Ids : k = sockets[s].conn
  BY <1>1, <1>2, Bounds DEF SocketsInv, Typed
<1>5. PICK n \in Nat : n = sockets[s].seqAck
  BY <1>1 DEF Typed
<1>6. n <= conns[k].sent /\ n # 0
  BY <1>1, <1>2, <1>4, <1>5 DEF SeqAckInv
<1>7. /\ conns' \in [Ids -> ConnType]
      /\ \A c \in Ids : c # k => conns'[c] = conns[c]
      /\ conns'[k].status = conns[k].status /\ conns'[k].sock = conns[k].sock
      /\ conns'[k].sent = conns[k].sent /\ conns'[k].acked \in {conns[k].acked, n}
      /\ conns'[k].first \in {conns[k].first, Larger(conns[k].first, n + 1)}
  <2>1. conns \in [Ids -> ConnType]
    BY <1>1 DEF Typed
  <2>2. conns' = [conns EXCEPT ![k] = Acknowledged(conns[k], n)]
    BY <1>4, <1>5 DEF AckArrives
  <2>3. PICK r : r = [conns[k] EXCEPT !.acked = n, !.first = Larger(conns[k].first, n + 1)]
    OBVIOUS
  <2>4. Larger(conns[k].first, n + 1) \in Nat
    BY <1>1 DEF Larger, Typed
  <2>5. /\ r.status = conns[k].status /\ r.sock = conns[k].sock /\ r.sent = conns[k].sent
        /\ r.acked = n /\ r.first = Larger(conns[k].first, n + 1) /\ r \in ConnType
    BY <2>1, <2>3, <2>4 DEF ConnType
  <2>6. conns' = [conns EXCEPT ![k] = IF n > conns[k].acked THEN r ELSE conns[k]]
    BY <2>2, <2>3 DEF Acknowledged
  <2> QED BY <2>1, <2>5, <2>6
<1>8. /\ conns'[k].first >= conns[k].first
      /\ conns'[k].first \in 1 .. conns'[k].sent + 1
  BY <1>1, <1>6, <1>7 DEF Larger, Typed
<1>9. TypeOK'
  BY <1>1, <1>2, <1>3, <1>7, <1>8, Types, NextShape DEF Shape
<1>10. AttachedOnce'
  <2>1. ASSUME NEW t \in Sockets, sockets'[t].server = "attached"
        PROVE  /\ sockets'[t].conn = sockets[t].conn /\ sockets[t].conn \in Ids
               /\ conns[sockets[t].conn].status = "connected" /\ conns[sockets[t].conn].sock = t
    <3>1. sockets[t].server = "attached"
      BY <1>2, <1>3, <2>1
    <3> QED BY <1>1, <1>3, <3>1, AttachedConn
  <2> QED BY <1>7, <2>1 DEF AttachedOnce
<1>11. \A c \in Ids : (Issued(c) <=> Issued(c)') /\ (Present(c) <=> Present(c)')
  BY <1>2, <1>3, <1>7 DEF Issued, Present, Ids
<1>12. SocketsInv'
  BY <1>1, <1>2, <1>3, <1>11 DEF SocketsInv
<1>13. Aside
  <2>1. ASSUME NEW c \in Ids, Unacked(c) PROVE Unacked(c)'
    <3>1. c # k
      BY <1>2, <1>4, <2>1 DEF Unacked
    <3> QED BY <1>3, <1>7, <2>1, <3>1 DEF Unacked
  <2>2. \A t \in Sockets : Reaches(t)' => Reaches(t)
    BY <1>2, <1>3 DEF Reaches, Arrives
  <2>3. \A t \in Sockets : t = client.ws =>
         /\ sockets'[t].down = sockets[t].down /\ sockets'[t].client = sockets[t].client
         /\ Issued(t) => sockets'[t].conn = sockets[t].conn
         /\ sockets[t].server = "closed" => sockets'[t].server = "closed"
         /\ sockets'[t].server # "none" => sockets[t].server # "none"
         /\ sockets'[t].server \in {"waiting", "checking"} =>
              sockets[t].server \in {"waiting", "checking"} /\ sockets'[t].hello = sockets[t].hello
         /\ ~client.connected => sockets'[t].seqAck \in {0, sockets[t].seqAck}
    BY <1>2, <1>3
  <2>4. \A c \in Ids : conns'[c].sent = conns[c].sent /\ conns'[c].first >= conns[c].first
    BY <1>1, <1>7, <1>8 DEF Typed
  <2>5. \A c \in Ids :
          \/ conns'[c].acked = conns[c].acked
          \/ \E t \in Sockets : /\ sockets[t].server = "attached" /\ sockets[t].conn = c
                               /\ sockets[t].seqAck = conns'[c].acked
    BY <1>2, <1>4, <1>5, <1>7
  <2> QED BY <1>2, <1>11, <2>1, <2>2, <2>3, <2>4, <2>5 DEF Aside, Beside
<1>14. SeqAckInv'
  <2>1. \A t \in Sockets : sockets'[t].server = "attached" =>
          /\ sockets[t].server = "attached" /\ sockets'[t].conn = sockets[t].conn
          /\ sockets'[t].seqAck \in {0, sockets[t].seqAck} /\ sockets[t].conn \in Ids
          /\ conns'[sockets[t].conn].sent = conns[sockets[t].conn].sent
    BY <1>1, <1>2, <1>3, <1>7, AttachedConn
  <2>2. \A t \in Sockets : sockets[t].conn \in Ids => conns[sockets[t].conn].sent \in Nat
    BY <1>1 DEF Typed
  <2>3. Position(client).lastSeq \in Nat
    BY <1>1 DEF Position, Typed
  <2> QED BY <1>1, <1>2, <2>1, <2>2, <2>3 DEF SeqAckInv, Position
<1> QED BY <1>1, <1>2, <1>9, <1>10, <1>12, <1>13, <1>14, AsideKeeps DEF IInv

LEMMA ServerSeesCloseKeeps ==
  ASSUME IInv, NEW s \in Sockets, ServerSeesClose(s) PROVE IInv'
<1>1. /\ TypeOK /\ AttachedOnce /\ SocketsInv /\ ClientInv /\ HelloInv /\ FlowInv /\ PositionInv /\ SeqAckInv
      /\ view <= published /\ Typed
  BY StateTypes DEF IInv
<1>2. /\ sockets[s].server \in {"waiting", "checking", "attached"}
      /\ client' = client /\ server' = server /\ published' = published
      /\ view' = view /\ refreshes' = refreshes /\ mishaps' = mishaps
  BY DEF ServerSeesClose
<1>3. /\ sockets' \in [Sockets -> SocketType]
      /\ \A t \in Sockets : t # s => sockets'[t] = sockets[t]
      /\ sockets'[s].client = sockets[s].client
      /\ sockets[s].server = "checking" => sockets'[s].server = "unattended"
      /\ sockets[s].server # "checking" => sockets'[s].server = "closed"
      /\ sockets'[s].link = sockets[s].link /\ sockets'[s].conn = sockets[s].conn
      /\ sockets'[s].hello = sockets[s].hello /\ sockets'[s].seqAck = 0
      /\ sockets'[s].down = sockets[s].down
  <2>1. sockets \in [Sockets -> SocketType]
    BY <1>1 DEF Typed
  <2>2. PICK v : v = IF sockets[s].server = "checking" THEN "unattended" ELSE "closed"
    OBVIOUS
  <2>3. PICK r : r = [sockets[s] EXCEPT !.server = v, !.seqAck = 0]
    OBVIOUS
  <2>4. /\ r.client = sockets[s].client /\ r.server = v /\ r.link = sockets[s].link
        /\ r.conn = sockets[s].conn /\ r.hello = sockets[s].hello /\ r.seqAck = 0
        /\ r.down = sockets[s].down /\ r \in SocketType
    BY <2>1, <2>2, <2>3 DEF SocketType
  <2>5. sockets' = [sockets EXCEPT ![s] = r]
    BY <2>2, <2>3 DEF ServerSeesClose
  <2> QED BY <2>1, <2>2, <2>4, <2>5
<1>4. /\ conns' \in [Ids -> ConnType]
      /\ \A c \in Ids : /\ conns'[c].sock = conns[c].sock /\ conns'[c].sent = conns[c].sent
                        /\ conns'[c].first = conns[c].first /\ conns'[c].acked = conns[c].acked
                        /\ conns'[c].status \in {conns[c].status, "retained"}
      /\ \A c \in Ids : sockets[s].server # "attached" \/ c # sockets[s].conn =>
                          conns'[c].status = conns[c].status
  <2>1. conns \in [Ids -> ConnType]
    BY <1>1 DEF Typed
  <2>2. CASE sockets[s].server # "attached"
    <3>1. conns' = conns
      BY <2>2 DEF ServerSeesClose
    <3> QED BY <2>1, <3>1
  <2>3. CASE sockets[s].server = "attached"
    <3>1. PICK k \in Ids : k = sockets[s].conn
      BY <1>1, <2>3, AttachedConn
    <3>2. PICK r : r = [conns[k] EXCEPT !.status = "retained"]
      OBVIOUS
    <3>3. /\ r.status = "retained" /\ r.sock = conns[k].sock /\ r.sent = conns[k].sent
          /\ r.acked = conns[k].acked /\ r.first = conns[k].first /\ r \in ConnType
      BY <2>1, <3>2 DEF ConnType
    <3>4. conns' = [conns EXCEPT ![k] = r]
      BY <2>3, <3>1, <3>2 DEF ServerSeesClose
    <3>5. \A c \in Ids : c # k => conns'[c] = conns[c]
      BY <2>1, <3>4
    <3>6. conns'[k] = r /\ conns' \in [Ids -> ConnType]
      BY <2>1, <3>3, <3>4
    <3>7. ASSUME NEW c \in Ids
          PROVE  /\ conns'[c].sock = conns[c].sock /\ conns'[c].sent = conns[c].sent
                 /\ conns'[c].first = conns[c].first /\ conns'[c].acked = conns[c].acked
                 /\ conns'[c].status \in {conns[c].status, "retained"}
                 /\ c # k => conns'[c].status = conns[c].status
      BY <3>3, <3>5, <3>6
    <3> QED BY <2>3, <3>1, <3>6, <3>7
  <2> QED BY <2>2, <2>3
<1>5. sockets[s].server = "attached" => Present(sockets[s].conn) /\ sockets[s].conn \in Ids
  BY <1>1, Bounds DEF AttachedOnce, Present, SocketsInv, Typed
<1>6. TypeOK'
  BY <1>1, <1>2, <1>3, <1>4, Types, NextShape DEF Shape
<1>7. AttachedOnce'
  <2>1. ASSUME NEW t \in Sockets, sockets'[t].server = "attached"
        PROVE  /\ sockets'[t] = sockets[t] /\ t # s /\ sockets[t].conn \in Ids
               /\ conns[sockets[t].conn].status = "connected" /\ conns[sockets[t].conn].sock = t
               /\ sockets[s].server = "attached" => sockets[s].conn # sockets[t].conn
    <3>1. sockets'[t] = sockets[t] /\ t # s
      BY <1>3, <2>1
    <3> QED BY <1>1, <2>1, <3>1, AttachedConn
  <2> QED BY <1>4, <2>1 DEF AttachedOnce
<1>8. \A c \in Ids : (Issued(c) => Issued(c)') /\ (Present(c)' => Present(c))
  BY <1>2, <1>3, <1>4, <1>5 DEF Issued, Present, Ids
<1>9. SocketsInv'
  BY <1>1, <1>2, <1>3, <1>8 DEF SocketsInv
<1>10. Aside
  <2>1. \A c \in Ids : Unacked(c) => Unacked(c)'
    BY <1>2, <1>3, <1>4 DEF Unacked
  <2>2. \A t \in Sockets : Reaches(t)' => Reaches(t)
    BY <1>2, <1>3 DEF Reaches, Arrives
  <2>3. \A t \in Sockets : t = client.ws =>
         /\ sockets'[t].down = sockets[t].down /\ sockets'[t].client = sockets[t].client
         /\ Issued(t) => sockets'[t].conn = sockets[t].conn
         /\ sockets[t].server = "closed" => sockets'[t].server = "closed"
         /\ sockets'[t].server # "none" => sockets[t].server # "none"
         /\ sockets'[t].server \in {"waiting", "checking"} =>
              sockets[t].server \in {"waiting", "checking"} /\ sockets'[t].hello = sockets[t].hello
         /\ ~client.connected => sockets'[t].seqAck \in {0, sockets[t].seqAck}
    BY <1>2, <1>3
  <2>4. \A c \in Ids : conns'[c].first >= conns[c].first
    BY <1>1, <1>4 DEF Typed
  <2> QED BY <1>2, <1>4, <1>8, <2>1, <2>2, <2>3, <2>4 DEF Aside, Beside
<1>11. SeqAckInv'
  <2>1. \A t \in Sockets : sockets'[t].server = "attached" =>
          /\ sockets'[t] = sockets[t] /\ sockets[t].conn \in Ids
          /\ conns'[sockets[t].conn].sent = conns[sockets[t].conn].sent
    BY <1>1, <1>3, <1>4, AttachedConn
  <2> QED BY <1>1, <1>2, <2>1 DEF SeqAckInv, Position
<1> QED BY <1>1, <1>2, <1>6, <1>7, <1>9, <1>10, <1>11, AsideKeeps DEF IInv

LEMMA RetentionEndsKeeps ==
  ASSUME IInv, NEW k \in Ids, RetentionEnds(k) PROVE IInv'
<1>1. /\ TypeOK /\ AttachedOnce /\ SocketsInv /\ ClientInv /\ HelloInv /\ FlowInv /\ PositionInv /\ SeqAckInv
      /\ view <= published /\ Typed
  BY StateTypes DEF IInv
<1>2. /\ conns[k].status = "retained" /\ sockets' = sockets
      /\ client' = client /\ server' = server /\ published' = published
      /\ view' = view /\ refreshes' = refreshes /\ mishaps' = mishaps
  BY DEF RetentionEnds
<1>3. /\ conns' \in [Ids -> ConnType]
      /\ \A c \in Ids : c # k => conns'[c] = conns[c]
      /\ conns'[k].status = "absent" /\ conns'[k].first = 1 /\ conns'[k].sent = 0
  <2>1. conns \in [Ids -> ConnType]
    BY <1>1 DEF Typed
  <2>2. PICK r : r = NoConn
    OBVIOUS
  <2>3. r.status = "absent" /\ r.first = 1 /\ r.sent = 0 /\ r \in ConnType
    BY <2>2, Bounds DEF NoConn, ConnType
  <2>4. conns' = [conns EXCEPT ![k] = r]
    BY <2>2 DEF RetentionEnds
  <2> QED BY <2>1, <2>3, <2>4
<1>4. \A t \in Sockets : sockets[t].server = "attached" => sockets[t].conn \in Ids /\ sockets[t].conn # k
  BY <1>1, <1>2, AttachedConn
<1>5. TypeOK'
  BY <1>1, <1>2, <1>3, Types, NextShape DEF Shape
<1>6. AttachedOnce'
  BY <1>1, <1>2, <1>3, <1>4 DEF AttachedOnce
<1>7. \A c \in Ids : (Issued(c) => Issued(c)') /\ (Present(c)' => Present(c) /\ c # k)
  BY <1>2, <1>3 DEF Issued, Present
<1>8. SocketsInv'
  BY <1>1, <1>2, <1>7 DEF SocketsInv, Issued
<1>9. Aside
  <2>1. ASSUME NEW c \in Ids, Present(c)'
        PROVE  /\ conns'[c] = conns[c] /\ Present(c) /\ (Unacked(c) => Unacked(c)')
               /\ conns'[c].first >= conns[c].first
    <3>1. conns'[c] = conns[c] /\ Present(c)
      BY <1>3, <1>7, <2>1
    <3>2. conns[c].first \in Nat
      BY <1>1 DEF Typed
    <3> QED BY <1>2, <3>1, <3>2 DEF Unacked
  <2>2. \A t \in Sockets : Reaches(t)' => Reaches(t)
    BY <1>2 DEF Reaches, Arrives
  <2> QED BY <1>2, <1>7, <2>1, <2>2 DEF Aside, Beside
<1>10. SeqAckInv'
  BY <1>1, <1>2, <1>3, <1>4 DEF SeqAckInv, Position
<1> QED BY <1>1, <1>2, <1>5, <1>6, <1>8, <1>9, <1>10, AsideKeeps DEF IInv

LEMMA StopKeeps ==
  ASSUME IInv, Stop PROVE IInv'
<1>1. /\ TypeOK /\ AttachedOnce /\ SocketsInv /\ ClientInv /\ HelloInv /\ FlowInv /\ PositionInv /\ SeqAckInv
      /\ view <= published /\ Typed
  BY StateTypes DEF IInv
<1>2. /\ client' = client /\ server' = "down" /\ published' = published
      /\ view' = view /\ refreshes' = refreshes /\ mishaps' = mishaps + 1
  BY DEF Stop, Mishap
<1>3. /\ sockets' \in [Sockets -> SocketType]
      /\ \A t \in Sockets : sockets[t].server = "none" => sockets'[t] = sockets[t]
      /\ \A t \in Sockets : sockets[t].server # "none" =>
           /\ sockets'[t].client = sockets[t].client /\ sockets'[t].server = "closed"
           /\ sockets'[t].conn = sockets[t].conn /\ sockets'[t].seqAck = 0
           /\ sockets'[t].down = sockets[t].down
  <2>1. sockets \in [Sockets -> SocketType]
    BY <1>1 DEF Typed
  <2>2. ASSUME NEW t \in Sockets, NEW r, r = [sockets[t] EXCEPT !.server = "closed", !.link = FALSE, !.seqAck = 0]
        PROVE  /\ r.client = sockets[t].client /\ r.server = "closed" /\ r.conn = sockets[t].conn
               /\ r.seqAck = 0 /\ r.down = sockets[t].down /\ r \in SocketType
    BY <2>1, <2>2 DEF SocketType
  <2>3. sockets' = [t \in Sockets |->
          IF sockets[t].server = "none" THEN sockets[t]
          ELSE [sockets[t] EXCEPT !.server = "closed", !.link = FALSE, !.seqAck = 0]]
    BY DEF Stop
  <2>4. ASSUME NEW t \in Sockets
        PROVE  /\ sockets'[t] \in SocketType
               /\ sockets[t].server = "none" => sockets'[t] = sockets[t]
               /\ sockets[t].server # "none" =>
                    /\ sockets'[t].client = sockets[t].client /\ sockets'[t].server = "closed"
                    /\ sockets'[t].conn = sockets[t].conn /\ sockets'[t].seqAck = 0
                    /\ sockets'[t].down = sockets[t].down
    BY <2>1, <2>2, <2>3
  <2> QED BY <2>3, <2>4
<1>4. /\ conns' \in [Ids -> ConnType]
      /\ \A c \in Ids : conns'[c].status = "absent" /\ conns'[c].first = 1 /\ conns'[c].sent = 0
  <2>1. PICK r : r = NoConn
    OBVIOUS
  <2>2. r.status = "absent" /\ r.first = 1 /\ r.sent = 0 /\ r \in ConnType
    BY <2>1, Bounds DEF NoConn, ConnType
  <2>3. conns' = [c \in Ids |-> r]
    BY <2>1 DEF Stop
  <2> QED BY <2>2, <2>3
<1>5. \A t \in Sockets : sockets'[t].server # "attached"
  BY <1>3
<1>6. TypeOK'
  BY <1>1, <1>2, <1>3, <1>4, Types, NextShape DEF Shape
<1>7. AttachedOnce'
  BY <1>5 DEF AttachedOnce
<1>8. \A c \in Ids : (Issued(c) => Issued(c)') /\ ~Present(c)'
  BY <1>3, <1>4 DEF Issued, Present, Ids
<1>9. SocketsInv'
  BY <1>1, <1>2, <1>3, <1>5, <1>8 DEF SocketsInv
<1>10. Aside
  <2>1. \A t \in Sockets : ~Reaches(t)'
    BY <1>5 DEF Reaches
  <2>2. \A t \in Sockets : t = client.ws =>
         /\ sockets'[t].down = sockets[t].down /\ sockets'[t].client = sockets[t].client
         /\ Issued(t) => sockets'[t].conn = sockets[t].conn
         /\ sockets[t].server = "closed" => sockets'[t].server = "closed"
         /\ sockets'[t].server # "none" => sockets[t].server # "none"
         /\ sockets'[t].server \notin {"waiting", "checking"}
         /\ sockets'[t].seqAck \in {0, sockets[t].seqAck}
    BY <1>3
  <2> QED BY <1>2, <1>8, <2>1, <2>2 DEF Aside, Beside
<1>11. SeqAckInv'
  BY <1>5 DEF SeqAckInv
<1> QED BY <1>1, <1>2, <1>6, <1>7, <1>9, <1>10, <1>11, AsideKeeps DEF IInv

LEMMA RestartKeeps ==
  ASSUME IInv, Restart PROVE IInv'
<1>1. /\ TypeOK /\ AttachedOnce /\ SocketsInv /\ ClientInv /\ HelloInv /\ FlowInv /\ PositionInv /\ SeqAckInv
      /\ view <= published /\ Typed
  BY StateTypes DEF IInv
<1>2. /\ client' = client /\ sockets' = sockets /\ conns' = conns /\ server' = "up"
      /\ published' = published /\ view' = view /\ refreshes' = refreshes /\ mishaps' = mishaps
  BY DEF Restart
<1>3. TypeOK'
  BY <1>1, <1>2, Types, NextShape DEF Shape
<1>4. AttachedOnce' /\ SeqAckInv'
  BY <1>1, <1>2 DEF AttachedOnce, SeqAckInv, Position
<1>5. \A c \in Ids : (Issued(c) <=> Issued(c)') /\ (Present(c) <=> Present(c)') /\ (Unacked(c) <=> Unacked(c)')
  BY <1>2 DEF Issued, Present, Unacked
<1>6. SocketsInv'
  BY <1>1, <1>2, <1>5 DEF SocketsInv
<1>7. \A t \in Sockets : Reaches(t)' => Reaches(t)
  BY <1>2 DEF Reaches, Arrives
<1>8. \A c \in Ids : conns'[c].first >= conns[c].first
  BY <1>1, <1>2 DEF Typed
<1>9. Aside
  BY <1>2, <1>5, <1>7, <1>8 DEF Aside, Beside
<1> QED BY <1>1, <1>2, <1>3, <1>4, <1>6, <1>9, AsideKeeps DEF IInv

(* Registered, field by field. *)
Joined(s, k, answer) ==
  /\ sockets' \in [Sockets -> SocketType]
  /\ \A t \in Sockets : t # s => sockets'[t] = sockets[t]
  /\ sockets'[s].client = sockets[s].client /\ sockets'[s].link = sockets[s].link
  /\ sockets'[s].conn = k /\ sockets'[s].seqAck = sockets[s].seqAck
  /\ sockets[s].server # "unattended" => sockets'[s].server = "attached"
  /\ sockets[s].server = "unattended" => sockets'[s].server = "closed"
  /\ sockets[s].server # "unattended" /\ Arrives(s) => sockets'[s].down = sockets[s].down \o answer
  /\ ~(sockets[s].server # "unattended" /\ Arrives(s)) => sockets'[s].down = sockets[s].down

LEMMA RegisteredJoins ==
  ASSUME sockets \in [Sockets -> SocketType], NEW s \in Sockets, NEW k \in 0 .. MaxSockets,
         NEW answer, sockets' = Registered(s, k, answer),
         sockets[s].server # "unattended" /\ Arrives(s) => answer \in Seq(Messages)
  PROVE  Joined(s, k, answer)
<1>1. PICK v : v = IF sockets[s].server # "unattended" THEN "attached" ELSE "closed"
  OBVIOUS
<1>2. PICK d : d = IF sockets[s].server # "unattended" /\ Arrives(s)
                   THEN sockets[s].down \o answer ELSE sockets[s].down
  OBVIOUS
<1>3. d \in Seq(Messages)
  <2>1. sockets[s].down \in Seq(Messages)
    BY DEF SocketType
  <2>2. sockets[s].server # "unattended" /\ Arrives(s) => sockets[s].down \o answer \in Seq(Messages)
    BY <2>1
  <2> QED BY <1>2, <2>1, <2>2
<1>4. PICK r : r = [sockets[s] EXCEPT !.server = v, !.conn = k, !.hello = NoReconnect, !.down = d]
  OBVIOUS
<1>5. NoReconnect \in [id : 0 .. MaxSockets, lastSeq : Nat]
  BY Bounds DEF NoReconnect
<1>6. /\ r.client = sockets[s].client /\ r.server = v /\ r.link = sockets[s].link
      /\ r.conn = k /\ r.seqAck = sockets[s].seqAck /\ r.down = d /\ r \in SocketType
  BY <1>1, <1>3, <1>4, <1>5 DEF SocketType
<1>7. sockets' = [sockets EXCEPT ![s] = r]
  BY <1>1, <1>2, <1>4 DEF Registered
<1> QED BY <1>1, <1>2, <1>6, <1>7 DEF Joined

(* Connection k is made, or taken up again, on socket s. *)
Taken(s, k) ==
  /\ conns' \in [Ids -> ConnType] /\ conns[k].status # "connected"
  /\ \A c \in Ids : c # k => conns'[c] = conns[c]
  /\ conns'[k].status = "connected" /\ conns'[k].sock = s
  /\ \/ k = s /\ conns'[k].first = 1 /\ conns'[k].sent = 0 /\ conns'[k].acked = 0
     \/ /\ Present(k) /\ conns'[k].sent = conns[k].sent /\ conns'[k].acked = conns[k].acked
        /\ conns'[k].first \in conns[k].first .. conns[k].sent + 1

LEMMA JoiningBeside ==
  ASSUME IInv, NEW s \in Sockets, sockets[s].server \in {"waiting", "checking", "unattended"},
         UNCHANGED <<client, server, published, view, refreshes, mishaps>>,
         NEW k \in Ids, Taken(s, k), NEW answer, Joined(s, k, answer),
         s # client.ws => ~(sockets[s].server # "unattended" /\ Arrives(s))
  PROVE  TypeOK' /\ AttachedOnce' /\ SocketsInv' /\ SeqAckInv' /\ Beside
<1>1. /\ TypeOK /\ AttachedOnce /\ SocketsInv /\ ClientInv /\ HelloInv /\ FlowInv /\ PositionInv /\ SeqAckInv
      /\ view <= published /\ Typed
  BY StateTypes DEF IInv
<1>2. /\ client' = client /\ server' = server /\ published' = published
      /\ view' = view /\ refreshes' = refreshes /\ mishaps' = mishaps
  OBVIOUS
<1>3. ~Issued(s) /\ sockets[s].seqAck = 0 /\ sockets[s].down = <<>>
  BY <1>1 DEF Issued, SocketsInv
<1>4. ASSUME NEW t \in Sockets, t # s, sockets[t].server = "attached"
      PROVE  /\ sockets[t].conn \in Ids /\ sockets[t].conn # k /\ sockets'[t] = sockets[t]
             /\ conns'[sockets[t].conn] = conns[sockets[t].conn]
  BY <1>1, <1>4, AttachedConn DEF Taken, Joined
<1>5. TypeOK'
  <2>1. conns'[k].first \in 1 .. conns'[k].sent + 1
    BY <1>1 DEF Taken, Typed
  <2> QED BY <1>1, <1>2, <2>1, Types, NextShape DEF Shape, Taken, Joined
<1>6. ASSUME NEW t \in Sockets, sockets'[t].server = "attached"
      PROVE  \/ t = s
             \/ t # s /\ sockets'[t] = sockets[t] /\ sockets[t].server = "attached"
  BY <1>6 DEF Joined
<1>7. AttachedOnce'
  <2>1. ASSUME NEW t \in Sockets, sockets'[t].server = "attached"
        PROVE  conns'[sockets'[t].conn].status = "connected" /\ conns'[sockets'[t].conn].sock = t
    <3>1. CASE t = s
      BY <3>1 DEF Taken, Joined
    <3>2. CASE t # s /\ sockets'[t] = sockets[t] /\ sockets[t].server = "attached"
      BY <1>1, <1>4, <3>2, AttachedConn
    <3> QED BY <2>1, <1>6, <3>1, <3>2
  <2> QED BY <2>1 DEF AttachedOnce
<1>8. \A c \in Ids : Issued(c) => Issued(c)'
  BY <1>3 DEF Issued, Joined, Ids
<1>9. Issued(s)'
  BY DEF Issued, Joined
<1>10. SocketsInv'
  <2>1. ASSUME NEW t \in Sockets
        PROVE  /\ t # client.ws => sockets'[t].client \in {"unused", "closed"} /\ sockets'[t].down = <<>>
               /\ t = client.ws => sockets'[t].client \in {"connecting", "open", "closing"}
               /\ sockets'[t].client \in {"unused", "connecting"} => sockets'[t].server = "none"
               /\ sockets'[t].server \notin {"attached", "closed"} =>
                    sockets'[t].down = <<>> /\ sockets'[t].seqAck = 0
               /\ sockets'[t].server = "attached" => sockets'[t].conn # 0
    <3>1. CASE t # s
      BY <1>1, <3>1 DEF SocketsInv, Joined
    <3>2. CASE t = s
      BY <1>1, <1>3, <3>2, Bounds DEF SocketsInv, Joined
    <3> QED BY <3>1, <3>2
  <2>2. ASSUME NEW c \in Ids, Present(c)' PROVE Issued(c)'
    <3>1. CASE c # k
      BY <1>1, <1>8, <2>2, <3>1 DEF SocketsInv, Present, Taken
    <3>2. CASE c = k
      BY <1>1, <1>8, <1>9, <3>2 DEF SocketsInv, Taken
    <3> QED BY <3>1, <3>2
  <2> QED BY <1>2, <2>1, <2>2 DEF SocketsInv
<1>11. SeqAckInv'
  <2>1. ASSUME NEW t \in Sockets, sockets'[t].server = "attached"
        PROVE  /\ sockets'[t].seqAck <= conns'[sockets'[t].conn].sent
               /\ sockets'[t].conn = Position(client).id => sockets'[t].seqAck <= Position(client).lastSeq
    <3>1. CASE t = s
      <4>1. sockets'[s].conn = k /\ sockets'[s].seqAck = 0
        BY <1>3 DEF Joined
      <4>2. conns'[k].sent \in Nat /\ Position(client).lastSeq \in Nat
        BY <1>1, <1>5, NextTypes DEF Typed, Position
      <4> QED BY <3>1, <4>1, <4>2
    <3>2. CASE t # s /\ sockets'[t] = sockets[t] /\ sockets[t].server = "attached"
      BY <1>1, <1>4, <3>2 DEF SeqAckInv
    <3> QED BY <2>1, <1>6, <3>1, <3>2
  <2> QED BY <1>2, <2>1 DEF SeqAckInv, Position
<1>12. Beside
  <2>1. \A t \in Sockets : t = client.ws =>
         /\ sockets'[t].client = sockets[t].client
         /\ Issued(t) => sockets'[t].conn = sockets[t].conn
         /\ sockets'[t].server # "none" => sockets[t].server # "none"
         /\ sockets'[t].server \in {"waiting", "checking"} =>
              sockets[t].server \in {"waiting", "checking"} /\ sockets'[t].hello = sockets[t].hello
         /\ sockets'[t].seqAck \in {0, sockets[t].seqAck}
    BY <1>3 DEF Joined
  <2>2. ASSUME NEW c \in Ids, Issued(c)
        PROVE  /\ Present(c)' => /\ Present(c) /\ conns'[c].sent = conns[c].sent
                                 /\ conns'[c].first >= conns[c].first /\ conns'[c].acked = conns[c].acked
               /\ Present(c)' /\ Unacked(c) => Unacked(c)'
    <3>1. c # s
      BY <1>3, <2>2
    <3>2. /\ Present(c)' => Present(c)
          /\ conns'[c].sent = conns[c].sent /\ conns'[c].acked = conns[c].acked
          /\ conns'[c].first >= conns[c].first
      <4>1. conns[c].first \in Nat /\ conns[c].sent \in Nat
        BY <1>1 DEF Typed
      <4>2. CASE c # k
        BY <4>1, <4>2 DEF Taken, Present
      <4>3. CASE c = k
        BY <3>1, <4>1, <4>3 DEF Taken
      <4> QED BY <4>2, <4>3
    <3>3. ASSUME Unacked(c), NEW t \in Sockets, sockets'[t].server = "attached", sockets'[t].conn = c
          PROVE  sockets'[t].seqAck = 0
      <4>1. CASE t = s
        BY <1>3, <4>1 DEF Joined
      <4>2. CASE t # s /\ sockets'[t] = sockets[t] /\ sockets[t].server = "attached"
        BY <3>3, <4>2 DEF Unacked
      <4> QED BY <3>3, <1>6, <4>1, <4>2
    <3> QED BY <3>2, <3>3 DEF Unacked
  <2> QED BY <1>2, <1>8, <2>1, <2>2 DEF Beside
<1> QED BY <1>5, <1>7, <1>10, <1>11, <1>12

LEMMA Prefixed ==
  ASSUME NEW S, NEW a \in S, NEW w \in Seq(S), NEW q, q = <<a>> \o w
  PROVE  q \in Seq(S) /\ Len(q) = Len(w) + 1 /\ q[1] = a /\ \A i \in 2 .. Len(q) : q[i] = w[i - 1]
  OBVIOUS

(* The messages, field by field. *)
LEMMA AckFields ==
  ASSUME published \in Nat, NEW c \in 0 .. MaxSockets, NEW m
  PROVE  /\ m = Ack(c, FALSE, FALSE) =>
              /\ m \in Messages /\ m.kind = "handshake_ack" /\ m.ev = published /\ m.id = c
              /\ m.reconnected = FALSE /\ m.stale = FALSE
         /\ m = Ack(c, TRUE, FALSE) =>
              /\ m \in Messages /\ m.kind = "handshake_ack" /\ m.ev = published /\ m.id = c
              /\ m.reconnected = TRUE /\ m.stale = FALSE
         /\ m = Ack(c, TRUE, TRUE) =>
              /\ m \in Messages /\ m.kind = "handshake_ack" /\ m.ev = published /\ m.id = c
              /\ m.reconnected = TRUE /\ m.stale = TRUE
<1>1. ASSUME m = Ack(c, FALSE, FALSE)
      PROVE  /\ m \in Messages /\ m.kind = "handshake_ack" /\ m.ev = published /\ m.id = c
             /\ m.reconnected = FALSE /\ m.stale = FALSE
  <2>1. m = [kind |-> "handshake_ack", ev |-> published, id |-> c, reconnected |-> FALSE,
             stale |-> FALSE, seq |-> 0, last |-> FALSE]
    BY <1>1 DEF Ack, Message
  <2> QED BY <2>1 DEF Messages
<1>2. ASSUME m = Ack(c, TRUE, FALSE)
      PROVE  /\ m \in Messages /\ m.kind = "handshake_ack" /\ m.ev = published /\ m.id = c
             /\ m.reconnected = TRUE /\ m.stale = FALSE
  <2>1. m = [kind |-> "handshake_ack", ev |-> published, id |-> c, reconnected |-> TRUE,
             stale |-> FALSE, seq |-> 0, last |-> FALSE]
    BY <1>2 DEF Ack, Message
  <2> QED BY <2>1 DEF Messages
<1>3. ASSUME m = Ack(c, TRUE, TRUE)
      PROVE  /\ m \in Messages /\ m.kind = "handshake_ack" /\ m.ev = published /\ m.id = c
             /\ m.reconnected = TRUE /\ m.stale = TRUE
  <2>1. m = [kind |-> "handshake_ack", ev |-> published, id |-> c, reconnected |-> TRUE,
             stale |-> TRUE, seq |-> 0, last |-> FALSE]
    BY <1>3 DEF Ack, Message
  <2> QED BY <2>1 DEF Messages
<1> QED BY <1>1, <1>2, <1>3

LEMMA EventFields ==
  ASSUME NEW n \in Nat, NEW e \in Nat, NEW l \in BOOLEAN, NEW m, m = Event(n, e, l)
  PROVE  m \in Messages /\ m.kind = "event" /\ m.ev = e /\ m.seq = n
<1>1. m = [kind |-> "event", ev |-> e, id |-> 0, reconnected |-> FALSE, stale |-> FALSE,
           seq |-> n, last |-> l]
  BY DEF Event, Message
<1> QED BY <1>1, Bounds DEF Messages

(* A replay goes on from where the state of the application is. *)
LEMMA ReplayFollows ==
  ASSUME published \in Nat, view \in Nat, NEW n \in Nat, NEW c, c.sent \in Nat,
         n + published = view + c.sent, view <= published
  PROVE  /\ Replayed(c, n) \in Seq(Messages) /\ view + Len(Replayed(c, n)) = published
         /\ \A i \in 1 .. Len(Replayed(c, n)) :
              /\ Replayed(c, n)[i].kind = "event"
              /\ Replayed(c, n)[i].ev = view + i /\ Replayed(c, n)[i].seq = n + i
<1>1. c.sent - n \in Nat /\ c.sent - n = published - view /\ published - c.sent + n = view
  OBVIOUS
<1>2. PICK z \in Nat : z = c.sent - n /\ z = published - view
  BY <1>1
<1>3. PICK f : f = [i \in 1 .. z |-> Event(n + i, published - c.sent + n + i, n + i = c.closing)]
  OBVIOUS
<1>4. ASSUME NEW i \in 1 .. z
      PROVE  f[i] \in Messages /\ f[i].kind = "event" /\ f[i].ev = view + i /\ f[i].seq = n + i
  <2>1. i \in Nat
    BY <1>2
  <2>2. published - c.sent + n + i = view + i /\ view + i \in Nat /\ n + i \in Nat
    BY <1>1, <2>1
  <2>3. f[i] = Event(n + i, view + i, n + i = c.closing)
    BY <1>3, <2>2
  <2>4. PICK x \in Nat, y \in Nat, l \in BOOLEAN : x = n + i /\ y = view + i /\ l = (n + i = c.closing)
    BY <2>2
  <2>5. PICK m : m = Event(x, y, l)
    OBVIOUS
  <2>6. m \in Messages /\ m.kind = "event" /\ m.ev = y /\ m.seq = x
    <3>1. m = [kind |-> "event", ev |-> y, id |-> 0, reconnected |-> FALSE, stale |-> FALSE,
               seq |-> x, last |-> l]
      BY <2>5 DEF Event, Message
    <3> QED BY <3>1, Bounds DEF Messages
  <2> QED BY <2>3, <2>4, <2>5, <2>6
<1>5. f \in [1 .. z -> Messages]
  BY <1>3, <1>4
<1>6. f \in Seq(Messages) /\ Len(f) = z
  BY <1>2, <1>5
<1>7. Replayed(c, n) = f
  BY <1>2, <1>3 DEF Replayed
<1>8. view + z = published
  BY <1>2
<1> QED BY <1>4, <1>6, <1>7, <1>8

LEMMA AnswerFollows ==
  ASSUME published \in Nat, view \in Nat, NEW n \in Nat, NEW a \in Messages, NEW w \in Seq(Messages),
         view + Len(w) = published,
         \A i \in 1 .. Len(w) : w[i].kind = "event" /\ w[i].ev = view + i /\ w[i].seq = n + i,
         NEW q, q = <<a>> \o w
  PROVE  /\ q \in Seq(Messages) /\ q # <<>> /\ q[1] = a
         /\ view + Len(q) = published + 1
         /\ \A i \in 2 .. Len(q) : q[i].kind = "event" /\ q[i].ev + 1 = view + i /\ q[i].seq + 1 = n + i
<1>1. /\ q \in Seq(Messages) /\ Len(q) = Len(w) + 1 /\ q[1] = a
      /\ \A i \in 2 .. Len(q) : q[i] = w[i - 1]
  BY Prefixed
<1>2. Len(w) \in Nat
  OBVIOUS
<1>3. ASSUME NEW i \in 2 .. Len(q)
      PROVE  q[i].kind = "event" /\ q[i].ev + 1 = view + i /\ q[i].seq + 1 = n + i
  <2>1. i - 1 \in 1 .. Len(w) /\ q[i] = w[i - 1] /\ i \in Nat
    BY <1>1, <1>2
  <2>2. PICK j \in 1 .. Len(w) : j = i - 1
    BY <2>1
  <2>3. w[j].kind = "event" /\ w[j].ev = view + j /\ w[j].seq = n + j /\ q[i] = w[j] /\ j + 1 = i
    BY <2>1, <2>2
  <2>4. view + j + 1 = view + i /\ n + j + 1 = n + i
    BY <1>2, <2>2, <2>1
  <2> QED BY <2>3, <2>4
<1>4. q # <<>> /\ view + Len(q) = published + 1
  BY <1>1, <1>2
<1> QED BY <1>1, <1>3, <1>4

LEMMA Unheard ==
  ASSUME IInv, NEW s \in Sockets, sockets[s].server \in {"waiting", "checking", "unattended"},
         UNCHANGED <<client, server, published, view, refreshes, mishaps>>,
         NEW k \in Ids, Taken(s, k), NEW answer, Joined(s, k, answer),
         ~(sockets[s].server # "unattended" /\ Arrives(s))
  PROVE  IInv'
<1>1. /\ TypeOK /\ AttachedOnce /\ SocketsInv /\ ClientInv /\ HelloInv /\ FlowInv /\ PositionInv /\ SeqAckInv
      /\ view <= published /\ Typed
  BY StateTypes DEF IInv
<1>2. TypeOK' /\ AttachedOnce' /\ SocketsInv' /\ SeqAckInv' /\ Beside
  BY JoiningBeside
<1>3. \A t \in Sockets : t = client.ws =>
        /\ sockets'[t].down = sockets[t].down
        /\ sockets[t].server = "closed" => sockets'[t].server = "closed"
  BY DEF Joined
<1>4. ASSUME NEW t \in Sockets, Reaches(t)' PROVE Reaches(t)
  <2>1. CASE t # s
    BY <1>4, <2>1 DEF Joined, Reaches, Arrives
  <2>2. CASE t = s
    BY <1>4, <2>2 DEF Joined, Reaches, Arrives
  <2> QED BY <2>1, <2>2
<1>5. Aside
  BY <1>2, <1>3, <1>4 DEF Aside
<1>6. ClientInv' /\ HelloInv' /\ FlowInv' /\ PositionInv' /\ (view <= published)'
  BY <1>1, <1>2, <1>5, AsideKeeps
<1> QED BY <1>2, <1>6 DEF IInv

LEMMA Heard ==
  ASSUME IInv, NEW s \in Sockets, s = client.ws, sockets[s].server \in {"waiting", "checking"},
         UNCHANGED <<client, server, published, view, refreshes, mishaps>>,
         NEW k \in Ids, Taken(s, k), NEW answer, Joined(s, k, answer), Arrives(s),
         answer \in Seq(Messages), Before(s, answer)', Numbered(s, answer)'
  PROVE  IInv'
<1>1. /\ TypeOK /\ AttachedOnce /\ SocketsInv /\ ClientInv /\ HelloInv /\ FlowInv /\ PositionInv /\ SeqAckInv
      /\ view <= published /\ Typed
  BY StateTypes DEF IInv
<1>2. TypeOK' /\ AttachedOnce' /\ SocketsInv' /\ SeqAckInv' /\ Beside
  BY JoiningBeside
<1>3. ClientInv' /\ HelloInv' /\ PositionInv' /\ (view <= published)'
  BY <1>1, <1>2, BesideKeeps
<1>4. ~client.connected
  BY <1>1 DEF ClientInv, Issued
<1>5. sockets'[s].down = answer
  <2>1. sockets[s].down = <<>> /\ sockets'[s].down = sockets[s].down \o answer
    BY <1>1 DEF SocketsInv, Joined
  <2> QED BY <2>1
<1>6. FlowInv'
  <2>1. client' = client
    OBVIOUS
  <2>2. Before(s, sockets[s].down)' /\ Numbered(s, sockets[s].down)'
    BY <1>5
  <2> QED BY <1>4, <2>1, <2>2 DEF FlowInv
<1> QED BY <1>2, <1>3, <1>6 DEF IInv

LEMMA FreshConnectKeeps ==
  ASSUME IInv, NEW s \in Sockets, sockets[s].server \in {"waiting", "checking", "unattended"},
         UNCHANGED <<client, server, published, view, refreshes, mishaps>>, FreshConnect(s)
  PROVE  IInv'
<1>1. /\ TypeOK /\ AttachedOnce /\ SocketsInv /\ ClientInv /\ HelloInv /\ FlowInv /\ PositionInv /\ SeqAckInv
      /\ view <= published /\ Typed
  BY StateTypes DEF IInv
<1>2. s \in Ids /\ s \in 0 .. MaxSockets /\ s # 0
  BY Bounds
<1>3. published \in Nat /\ view \in Nat /\ sockets \in [Sockets -> SocketType] /\ conns \in [Ids -> ConnType]
  BY <1>1 DEF Typed
<1>4. PICK m : m = Ack(s, FALSE, FALSE)
  OBVIOUS
<1>5. /\ m \in Messages /\ m.kind = "handshake_ack" /\ m.ev = published /\ m.id = s
      /\ m.reconnected = FALSE /\ m.stale = FALSE
  BY <1>2, <1>3, <1>4, AckFields
<1>6. PICK q : q = <<m>>
  OBVIOUS
<1>7. q \in Seq(Messages) /\ Len(q) = 1 /\ q[1] = m /\ q # <<>>
  BY <1>5, <1>6
<1>8. sockets' = Registered(s, s, q)
  BY <1>4, <1>6 DEF FreshConnect
<1>9. Joined(s, s, q)
  BY <1>2, <1>3, <1>7, <1>8, RegisteredJoins
<1>10. ~Present(s) /\ sockets[s].seqAck = 0
  BY <1>1, <1>2 DEF SocketsInv, Issued
<1>11. conns'[s].acked = 0 /\ conns'[s].sent = 0 /\ Taken(s, s)
  <2>1. PICK r : r = [NoConn EXCEPT !.status = "connected", !.sock = s]
    OBVIOUS
  <2>2. /\ r.status = "connected" /\ r.sock = s /\ r.first = 1 /\ r.sent = 0 /\ r.acked = 0
        /\ r \in ConnType
    BY <1>2, <2>1 DEF NoConn, ConnType
  <2>3. conns' = [conns EXCEPT ![s] = r]
    BY <2>1 DEF FreshConnect
  <2> QED BY <1>2, <1>3, <1>10, <2>2, <2>3 DEF Taken, Present
<1>12. CASE ~(sockets[s].server # "unattended" /\ Arrives(s))
  BY <1>2, <1>9, <1>11, <1>12, Unheard
<1>13. CASE sockets[s].server # "unattended" /\ Arrives(s)
  <2>1. s = client.ws
    BY <1>1, <1>13 DEF SocketsInv, Arrives
  <2>2. /\ client' = client /\ published' = published /\ view' = view
    OBVIOUS
  <2>3. ASSUME NEW t \in Sockets, sockets'[t].server = "attached", sockets'[t].conn = s
        PROVE  sockets'[t].seqAck = 0
    <3>1. CASE t = s
      BY <1>9, <1>10, <3>1 DEF Joined
    <3>2. CASE t # s
      <4>1. sockets'[t] = sockets[t]
        BY <1>9, <3>2 DEF Joined
      <4> QED BY <1>1, <1>10, <2>3, <4>1, AttachedConn
    <3> QED BY <3>1, <3>2
  <2>4. Unacked(s)'
    BY <1>11, <2>3 DEF Unacked
  <2>5. AckInv(s, m)'
    <3>1. Issued(s)' /\ sockets'[s].conn = s
      BY <1>9 DEF Issued, Joined
    <3>2. m.ev >= view /\ m.ev + 0 = published
      BY <1>1, <1>3, <1>5
    <3> QED BY <1>2, <1>5, <1>11, <2>2, <2>4, <3>1, <3>2 DEF AckInv, Issued, Present
  <2>6. Follows(s, q, 1, published)'
    BY <1>3, <1>7, <2>2 DEF Follows
  <2>7. Before(s, q)'
    BY <1>5, <1>7, <2>2, <2>5, <2>6 DEF Before, Stale
  <2>8. Numbered(s, q)'
    BY <1>5, <1>7 DEF Numbered
  <2> QED BY <1>2, <1>7, <1>9, <1>11, <1>13, <2>1, <2>7, <2>8, Heard
<1> QED BY <1>12, <1>13

LEMMA SameDistance ==
  ASSUME NEW e \in Nat, NEW f \in Nat, NEW i \in Nat, NEW n \in Nat, NEW v \in Nat, NEW p \in Nat,
         NEW z \in Nat, e + 1 = v + i, f + 1 = n + i, n + p = v + z
  PROVE  e + z = f + p
  OBVIOUS

LEMMA ReconnectKeeps ==
  ASSUME IInv, NEW s \in Sockets, sockets[s].server \in {"waiting", "checking", "unattended"},
         UNCHANGED <<client, server, published, view, refreshes, mishaps>>,
         Recognised(sockets[s].hello), Reconnect(s, sockets[s].hello)
  PROVE  IInv'
<1>1. /\ TypeOK /\ AttachedOnce /\ SocketsInv /\ ClientInv /\ HelloInv /\ FlowInv /\ PositionInv /\ SeqAckInv
      /\ view <= published /\ Typed
  BY StateTypes DEF IInv
<1>2. published \in Nat /\ view \in Nat /\ sockets \in [Sockets -> SocketType] /\ conns \in [Ids -> ConnType]
  BY <1>1 DEF Typed
<1>3. PICK h : h = sockets[s].hello
  OBVIOUS
<1>4. h.id \in 0 .. MaxSockets /\ h.lastSeq \in Nat
  BY <1>2, <1>3 DEF SocketType
<1>5. PICK k \in Ids, n \in Nat : k = h.id /\ n = h.lastSeq
  BY <1>3, <1>4, Bounds DEF Recognised
<1>6. conns[k].status = "retained"
  BY <1>3, <1>5 DEF Recognised
<1>7. conns[k].first \in Nat /\ conns[k].sent \in Nat /\ conns[k].first \in 1 .. conns[k].sent + 1
  BY <1>1 DEF Typed
<1>8. PICK first \in conns[k].first .. conns[k].sent + 1 :
        /\ sockets' = Registered(s, k, Answer(conns[k], k, first, n))
        /\ conns' = [conns EXCEPT ![k].status = "connected", ![k].sock = s, ![k].first = first]
  BY <1>3, <1>5 DEF Reconnect
<1>9. PICK q : q = Answer(conns[k], k, first, n)
  OBVIOUS
<1>10. first \in Nat /\ first >= conns[k].first /\ first <= conns[k].sent + 1
  BY <1>7
<1>11. /\ conns'[k].first = first /\ conns'[k].sent = conns[k].sent /\ Taken(s, k)
  <2>1. PICK r : r = [conns[k] EXCEPT !.status = "connected", !.sock = s, !.first = first]
    OBVIOUS
  <2>2. /\ r.status = "connected" /\ r.sock = s /\ r.first = first /\ r.sent = conns[k].sent
        /\ r.acked = conns[k].acked /\ r \in ConnType
    <3>1. s \in 0 .. MaxSockets /\ conns[k] \in ConnType
      BY <1>2, Bounds
    <3> QED BY <1>10, <2>1, <3>1 DEF ConnType
  <2>3. conns' = [conns EXCEPT ![k] = r]
    BY <1>8, <2>1
  <2>4. Present(k)
    BY <1>6 DEF Present
  <2> QED BY <1>2, <1>6, <2>2, <2>3, <2>4 DEF Taken
<1>12. CASE ~(sockets[s].server # "unattended" /\ Arrives(s))
  <2>1. Joined(s, k, q)
    BY <1>2, <1>4, <1>5, <1>8, <1>9, <1>12, RegisteredJoins
  <2> QED BY <1>11, <1>12, <2>1, Unheard
<1>13. CASE sockets[s].server # "unattended" /\ Arrives(s)
  <2>1. s = client.ws /\ client.ws # 0
    BY <1>1, <1>13, Bounds DEF SocketsInv, Arrives
  <2>2. ~client.connected /\ ~client.destroyed /\ client.id = 0
    BY <1>1, <2>1 DEF ClientInv, Issued
  <2>3. h = client.pending
    BY <1>1, <1>3, <1>13, <2>1, <2>2 DEF HelloInv
  <2>4. /\ Position(client) = client.pending /\ Present(k) /\ k # 0 /\ n = client.lastSeen
    BY <1>1, <1>5, <1>6, <2>2, <2>3, Bounds DEF Position, Present, ClientInv
  <2>5. /\ n + published <= view + conns[k].sent
        /\ n + published = view + conns[k].sent \/ n + 1 < conns[k].first
        /\ Issued(k)
    BY <1>1, <1>5, <2>3, <2>4 DEF PositionInv, ClientInv
  <2>6. /\ client' = client /\ published' = published /\ view' = view
    OBVIOUS
  <2>7. Issued(s)' /\ sockets[s].server # "attached" /\ (Issued(k))'
    BY <1>8, <2>5, <1>13, <1>2, <1>4, <1>5 DEF Registered, Issued, Ids
  <2>8. ASSUME q \in Seq(Messages), q # <<>>, q[1].kind = "handshake_ack", q[1].id = k,
               q[1].reconnected = TRUE, q[1].ev = published,
               q[1].stale => client.lastSeen + 1 < first,
               Follows(s, q, 1, IF q[1].stale THEN published ELSE view)', Numbered(s, q)'
        PROVE  IInv'
    <3>1. Joined(s, k, q)
      BY <1>2, <1>4, <1>5, <1>8, <1>9, <2>8, RegisteredJoins
    <3>2. PICK m : m = q[1]
      OBVIOUS
    <3>3. AckInv(s, m)'
      <4>1. sockets'[s].conn = k
        BY <3>1 DEF Joined
      <4>2. m.ev >= view
        BY <1>1, <1>2, <2>8, <3>2
      <4> QED BY <1>5, <1>11, <2>3, <2>4, <2>6, <2>7, <2>8, <3>2, <4>1, <4>2 DEF AckInv, Issued, Present
    <3>4. Before(s, q)'
      BY <2>6, <2>8, <3>2, <3>3 DEF Before, Stale
    <3> QED BY <1>11, <1>13, <2>1, <2>8, <3>1, <3>4, Heard
  <2>9. CASE ~CanReplay(conns[k], first, n)
    <3>1. PICK m : m = Ack(k, TRUE, TRUE)
      OBVIOUS
    <3>2. /\ m \in Messages /\ m.kind = "handshake_ack" /\ m.ev = published /\ m.id = k
          /\ m.reconnected = TRUE /\ m.stale = TRUE
      BY <1>2, <1>4, <1>5, <3>1, AckFields
    <3>3. q = <<m>>
      BY <1>9, <2>9, <3>1 DEF Answer
    <3>4. q \in Seq(Messages) /\ Len(q) = 1 /\ q[1] = m /\ q # <<>>
      BY <3>2, <3>3
    <3>5. n + 1 < first
      BY <1>7, <1>10, <2>9 DEF CanReplay
    <3>6. Follows(s, q, 1, published)'
      BY <1>2, <2>6, <3>4 DEF Follows
    <3>7. Numbered(s, q)'
      BY <3>2, <3>4 DEF Numbered
    <3> QED BY <2>4, <2>8, <3>2, <3>4, <3>5, <3>6, <3>7
  <2>10. CASE CanReplay(conns[k], first, n)
    <3>1. n + published = view + conns[k].sent
      <4>1. ~(n + 1 < conns[k].first)
        BY <1>7, <1>10, <2>10 DEF CanReplay
      <4> QED BY <2>5, <4>1
    <3>2. PICK m : m = Ack(k, TRUE, FALSE)
      OBVIOUS
    <3>3. /\ m \in Messages /\ m.kind = "handshake_ack" /\ m.ev = published /\ m.id = k
          /\ m.reconnected = TRUE /\ m.stale = FALSE
      BY <1>2, <1>4, <1>5, <3>2, AckFields
    <3>4. PICK w : w = Replayed(conns[k], n)
      OBVIOUS
    <3>5. /\ w \in Seq(Messages) /\ view + Len(w) = published
          /\ \A i \in 1 .. Len(w) : w[i].kind = "event" /\ w[i].ev = view + i /\ w[i].seq = n + i
      <4>1. PICK c : c = conns[k]
        OBVIOUS
      <4>2. c.sent \in Nat /\ n + published = view + c.sent /\ view <= published
        BY <1>1, <1>7, <3>1, <4>1
      <4>3. /\ Replayed(c, n) \in Seq(Messages) /\ view + Len(Replayed(c, n)) = published
            /\ \A i \in 1 .. Len(Replayed(c, n)) :
                 /\ Replayed(c, n)[i].kind = "event"
                 /\ Replayed(c, n)[i].ev = view + i /\ Replayed(c, n)[i].seq = n + i
        BY <1>2, <4>2, ReplayFollows
      <4>4. w = Replayed(c, n)
        BY <3>4, <4>1
      <4> QED BY <4>3, <4>4
    <3>6. q = <<m>> \o w
      BY <1>9, <2>10, <3>2, <3>4 DEF Answer
    <3>7. /\ q \in Seq(Messages) /\ q # <<>> /\ q[1] = m
          /\ view + Len(q) = published + 1
          /\ \A i \in 2 .. Len(q) : q[i].kind = "event" /\ q[i].ev + 1 = view + i /\ q[i].seq + 1 = n + i
      BY <1>2, <3>3, <3>5, <3>6, AnswerFollows
    <3>8. Follows(s, q, 1, view)'
      BY <1>2, <2>6, <3>7 DEF Follows
    <3>9. Numbered(s, q)'
      <4>1. sockets'[s].conn = k
        BY <1>2, <1>8 DEF Registered
      <4>2. ASSUME NEW i \in 1 .. Len(q), q[i].kind = "event"
            PROVE  q[i].ev + conns[k].sent = q[i].seq + published
        <5>1. i \in 2 .. Len(q)
          BY <3>3, <3>7, <4>2
        <5>2. q[i].ev + 1 = view + i /\ q[i].seq + 1 = n + i /\ q[i].ev \in Nat /\ q[i].seq \in Nat /\ i \in Nat
          <6>1. q[i] \in Messages /\ i \in Nat
            BY <3>7, <4>2
          <6>2. q[i].ev \in Nat /\ q[i].seq \in Nat
            BY <6>1 DEF Messages
          <6> QED BY <3>7, <5>1, <6>1, <6>2
        <5>3. PICK e \in Nat, f \in Nat : e = q[i].ev /\ f = q[i].seq
          BY <5>2
        <5>4. e + 1 = view + i /\ f + 1 = n + i /\ i \in Nat
          BY <5>2, <5>3
        <5>5. e + conns[k].sent = f + published
          <6>1. PICK v \in Nat, p \in Nat, z \in Nat : v = view /\ p = published /\ z = conns[k].sent
            BY <1>2, <1>7
          <6>2. PICK j \in Nat : j = i
            BY <5>4
          <6>3. n + p = v + z /\ e + 1 = v + j /\ f + 1 = n + j
            BY <3>1, <5>4, <6>1, <6>2
          <6>4. e + z = f + p
            BY <6>3, SameDistance
          <6> QED BY <6>1, <6>4
        <5> QED BY <5>3, <5>5
      <4> QED BY <1>11, <2>4, <2>6, <2>7, <4>1, <4>2 DEF Numbered
    <3> QED BY <2>4, <2>8, <3>3, <3>7, <3>8, <3>9
  <2> QED BY <2>9, <2>10
<1> QED BY <1>12, <1>13

LEMMA CheckFailsKeeps ==
  ASSUME IInv, NEW s \in Sockets, CheckFails(s) PROVE IInv'
<1>1. /\ TypeOK /\ AttachedOnce /\ SocketsInv /\ ClientInv /\ HelloInv /\ FlowInv /\ PositionInv /\ SeqAckInv
      /\ view <= published /\ Typed
  BY StateTypes DEF IInv
<1>2. /\ sockets[s].server \in {"waiting", "checking", "unattended"}
      /\ client' = client /\ conns' = conns /\ server' = server /\ published' = published
      /\ view' = view /\ refreshes' = refreshes /\ mishaps' = mishaps + 1
  BY DEF CheckFails, Mishap
<1>3. ~Issued(s) /\ sockets[s].seqAck = 0 /\ sockets[s].down = <<>>
  BY <1>1, <1>2 DEF Issued, SocketsInv
<1>4. PICK m : m = Refusal
  OBVIOUS
<1>5. m \in Messages /\ m.kind = "error"
  <2>1. m = [kind |-> "error", ev |-> 0, id |-> 0, reconnected |-> FALSE, stale |-> FALSE,
             seq |-> 0, last |-> FALSE]
    BY <1>4 DEF Refusal, Message
  <2> QED BY <2>1, Bounds DEF Messages
<1>6. PICK d : d = IF sockets[s].server # "unattended" /\ Arrives(s)
                   THEN Append(sockets[s].down, m) ELSE sockets[s].down
  OBVIOUS
<1>7. /\ d \in Seq(Messages)
      /\ sockets[s].server # "unattended" /\ Arrives(s) => Len(d) = 1 /\ d[1] = m
      /\ ~(sockets[s].server # "unattended" /\ Arrives(s)) => d = sockets[s].down
  BY <1>1, <1>3, <1>5, <1>6 DEF Typed
<1>8. /\ sockets' \in [Sockets -> SocketType]
      /\ \A t \in Sockets : t # s => sockets'[t] = sockets[t]
      /\ sockets'[s].client = sockets[s].client /\ sockets'[s].server = "closed"
      /\ sockets'[s].link = sockets[s].link /\ sockets'[s].conn = sockets[s].conn
      /\ sockets'[s].seqAck = 0 /\ sockets'[s].down = d
  <2>1. sockets \in [Sockets -> SocketType]
    BY <1>1 DEF Typed
  <2>2. PICK r : r = [sockets[s] EXCEPT !.server = "closed", !.down = d]
    OBVIOUS
  <2>3. /\ r.client = sockets[s].client /\ r.server = "closed" /\ r.link = sockets[s].link
        /\ r.conn = sockets[s].conn /\ r.seqAck = sockets[s].seqAck /\ r.down = d
        /\ r \in SocketType
    BY <2>1, <2>2, <1>7 DEF SocketType
  <2>4. sockets' = [sockets EXCEPT ![s] = r]
    BY <2>2, <1>4, <1>6 DEF CheckFails
  <2> QED BY <1>3, <2>1, <2>3, <2>4
<1>9. TypeOK'
  BY <1>1, <1>2, <1>8, Types, NextShape DEF Shape
<1>10. AttachedOnce'
  BY <1>1, <1>2, <1>8 DEF AttachedOnce
<1>11. \A c \in Ids : (Issued(c) => Issued(c)') /\ (Present(c) <=> Present(c)')
  BY <1>2, <1>8 DEF Issued, Present, Ids
<1>12. s # client.ws => ~Arrives(s)
  BY <1>1, <1>2 DEF SocketsInv, Arrives
<1>13. SocketsInv'
  <2>1. \A t \in Sockets :
          /\ t # client.ws => sockets'[t].client \in {"unused", "closed"} /\ sockets'[t].down = <<>>
          /\ t = client.ws => sockets'[t].client \in {"connecting", "open", "closing"}
          /\ sockets'[t].client \in {"unused", "connecting"} => sockets'[t].server = "none"
          /\ sockets'[t].server \notin {"attached", "closed"} =>
               sockets'[t].down = <<>> /\ sockets'[t].seqAck = 0
          /\ sockets'[t].server = "attached" => sockets'[t].conn # 0
    BY <1>1, <1>2, <1>3, <1>7, <1>8, <1>12 DEF SocketsInv
  <2> QED BY <1>1, <1>2, <1>11, <2>1 DEF SocketsInv
<1>14. SeqAckInv'
  BY <1>1, <1>2, <1>8 DEF SeqAckInv, Position
<1>15. Beside
  <2>1. \A c \in Ids : Unacked(c) => Unacked(c)'
    BY <1>2, <1>8 DEF Unacked
  <2>2. \A t \in Sockets : t = client.ws =>
         /\ sockets'[t].client = sockets[t].client
         /\ Issued(t) => sockets'[t].conn = sockets[t].conn
         /\ sockets'[t].server # "none" => sockets[t].server # "none"
         /\ sockets'[t].server \in {"waiting", "checking"} =>
              sockets[t].server \in {"waiting", "checking"} /\ sockets'[t].hello = sockets[t].hello
         /\ sockets'[t].seqAck \in {0, sockets[t].seqAck}
    BY <1>2, <1>8
  <2>3. \A c \in Ids : conns'[c].first >= conns[c].first
    BY <1>1, <1>2 DEF Typed
  <2> QED BY <1>2, <1>11, <2>1, <2>2, <2>3 DEF Beside
<1>16. ClientInv' /\ HelloInv' /\ PositionInv' /\ (view <= published)'
  BY <1>1, <1>9, <1>15, BesideKeeps
<1>17. FlowInv'
  <2>1. CASE ~(sockets[s].server # "unattended" /\ Arrives(s))
    <3>1. \A t \in Sockets : t = client.ws =>
            /\ sockets'[t].down = sockets[t].down
            /\ sockets[t].server = "closed" => sockets'[t].server = "closed"
      BY <1>7, <1>8, <2>1
    <3>2. \A t \in Sockets : Reaches(t)' => Reaches(t)
      BY <1>8 DEF Reaches, Arrives
    <3>3. Aside
      BY <1>15, <3>1, <3>2 DEF Aside
    <3> QED BY <1>1, <1>9, <3>3, AsideKeeps
  <2>2. CASE sockets[s].server # "unattended" /\ Arrives(s)
    <3>1. s = client.ws /\ ~client.connected
      BY <1>1, <1>3, <1>12, <2>2 DEF ClientInv
    <3>2. Before(s, d)'
      BY <1>5, <1>7, <1>8, <2>2 DEF Before
    <3>3. Numbered(s, d)'
      BY <1>5, <1>7, <2>2 DEF Numbered
    <3>4. Before(s, sockets[s].down)' /\ Numbered(s, sockets[s].down)'
      BY <1>8, <3>2, <3>3
    <3> QED BY <1>2, <3>1, <3>4 DEF FlowInv
  <2> QED BY <2>1, <2>2
<1> QED BY <1>9, <1>10, <1>13, <1>14, <1>16, <1>17 DEF IInv

LEMMA Appended ==
  ASSUME NEW S, NEW q \in Seq(S), NEW m \in S, NEW d, d = Append(q, m)
  PROVE  /\ d \in Seq(S) /\ d # <<>> /\ Len(d) = Len(q) + 1 /\ d[Len(q) + 1] = m
         /\ \A i \in 1 .. Len(q) : d[i] = q[i]
  OBVIOUS

LEMMA BufferedFields ==
  ASSUME NEW c \in ConnType, c.first \in 1 .. c.sent + 1, NEW l, NEW b, b = Buffered(c, l)
  PROVE  /\ b \in ConnType /\ b.status = c.status /\ b.sock = c.sock /\ b.sent = c.sent + 1
         /\ b.acked = c.acked /\ b.first >= c.first /\ b.first \in 1 .. b.sent + 1
<1>1. PICK f : f = IF c.sent + 1 > BufferMax THEN Larger(c.first, c.sent + 2 - BufferMax) ELSE c.first
  OBVIOUS
<1>2. c.sent \in Nat /\ c.first \in Nat /\ BufferMax \in Nat /\ BufferMax # 0
  BY TransportAssumption DEF ConnType
<1>3. f \in Nat /\ f >= c.first /\ f <= c.sent + 2
  BY <1>1, <1>2 DEF Larger
<1>4. PICK k : /\ k = IF l THEN c.sent + 1 ELSE c.closing
               /\ b = [c EXCEPT !.sent = c.sent + 1, !.closing = k, !.first = f]
  BY <1>1 DEF Buffered
<1>5. /\ b \in ConnType /\ b.status = c.status /\ b.sock = c.sock /\ b.sent = c.sent + 1
      /\ b.acked = c.acked /\ b.first = f
  <2>1. PICK z \in Nat : z = c.sent + 1
    BY <1>2
  <2>2. k \in Nat /\ b = [c EXCEPT !.sent = z, !.closing = k, !.first = f]
    BY <1>2, <1>4, <2>1 DEF ConnType
  <2>3. b \in ConnType
    BY <1>3, <2>1, <2>2 DEF ConnType
  <2>4. /\ b.status = c.status /\ b.sock = c.sock /\ b.sent = z /\ b.acked = c.acked /\ b.first = f
    BY <1>3, <2>1, <2>2 DEF ConnType
  <2> QED BY <2>1, <2>3, <2>4
<1>6. f \in 1 .. c.sent + 1 + 1
  BY <1>2, <1>3
<1> QED BY <1>3, <1>5, <1>6

LEMMA PushKeeps ==
  ASSUME IInv, NEW l \in BOOLEAN, PushEvent(l), server' \in {"up", "stopping", "down"} PROVE IInv'
<1>1. /\ TypeOK /\ AttachedOnce /\ SocketsInv /\ ClientInv /\ HelloInv /\ FlowInv /\ PositionInv /\ SeqAckInv
      /\ view <= published /\ Typed
  BY StateTypes DEF IInv
<1>2. /\ client' = client /\ published' = published + 1
      /\ view' = view /\ refreshes' = refreshes
  BY DEF PushEvent
<1>3. /\ published \in Nat /\ view \in Nat /\ mishaps' \in Nat
      /\ sockets \in [Sockets -> SocketType] /\ conns \in [Ids -> ConnType]
  BY <1>1 DEF Typed, TypeOK, PushEvent
<1>4. ASSUME NEW t \in Sockets, Reaches(t)
      PROVE  /\ t = client.ws /\ sockets[t].server = "attached"
             /\ sockets[t].conn \in Ids /\ Present(sockets[t].conn)
  BY <1>1, <1>4, AttachedConn DEF Reaches, Arrives, SocketsInv
<1>5. sockets' \in [Sockets -> SocketType]
  <2>1. ASSUME NEW t \in Sockets, Reaches(t)
        PROVE  [sockets[t] EXCEPT !.down = Append(sockets[t].down,
                  Event(conns[sockets[t].conn].sent + 1, published + 1, l))] \in SocketType
    <3>1. conns[sockets[t].conn].sent + 1 \in Nat /\ published + 1 \in Nat
      BY <1>1, <1>3, <1>4, <2>1 DEF Typed
    <3>2. PICK m : m = Event(conns[sockets[t].conn].sent + 1, published + 1, l)
      OBVIOUS
    <3>3. m \in Messages
      BY <3>1, <3>2, EventFields
    <3>4. PICK d : d = Append(sockets[t].down, m)
      OBVIOUS
    <3>5. d \in Seq(Messages)
      BY <1>1, <3>3, <3>4 DEF Typed
    <3>6. [sockets[t] EXCEPT !.down = d] \in SocketType
      BY <1>3, <3>5 DEF SocketType
    <3> QED BY <3>2, <3>4, <3>6
  <2> QED BY <1>3, <2>1 DEF PushEvent
<1>6. ASSUME NEW t \in Sockets
      PROVE  /\ sockets'[t].client = sockets[t].client /\ sockets'[t].server = sockets[t].server
             /\ sockets'[t].link = sockets[t].link /\ sockets'[t].conn = sockets[t].conn
             /\ sockets'[t].hello = sockets[t].hello /\ sockets'[t].seqAck = sockets[t].seqAck
             /\ ~Reaches(t) => sockets'[t].down = sockets[t].down
             /\ Reaches(t) => sockets'[t].down = Append(sockets[t].down,
                                Event(conns[sockets[t].conn].sent + 1, published + 1, l))
  <2>1. CASE ~Reaches(t)
    BY <2>1 DEF PushEvent
  <2>2. CASE Reaches(t)
    <3>1. PICK d : d = Append(sockets[t].down, Event(conns[sockets[t].conn].sent + 1, published + 1, l))
      OBVIOUS
    <3>2. sockets'[t] = [sockets[t] EXCEPT !.down = d]
      BY <2>2, <3>1 DEF PushEvent
    <3> QED BY <1>3, <2>2, <3>1, <3>2 DEF SocketType
  <2> QED BY <2>1, <2>2
<1>7. ASSUME NEW c \in Ids
      PROVE  /\ conns'[c] \in ConnType /\ conns'[c].status = conns[c].status
             /\ conns'[c].sock = conns[c].sock /\ conns'[c].acked = conns[c].acked
             /\ conns'[c].first >= conns[c].first /\ conns'[c].first \in 1 .. conns'[c].sent + 1
             /\ Present(c) => conns'[c].sent = conns[c].sent + 1
             /\ conns'[c].sent >= conns[c].sent
  <2>1. conns[c] \in ConnType /\ conns[c].first \in 1 .. conns[c].sent + 1 /\ conns[c].sent \in Nat
        /\ conns[c].first \in Nat
    BY <1>1 DEF Typed
  <2>2. CASE ~Present(c)
    <3>1. conns'[c] = conns[c]
      BY <2>2 DEF PushEvent, Present
    <3> QED BY <2>1, <2>2, <3>1
  <2>3. CASE Present(c)
    <3>1. conns'[c] = Buffered(conns[c], l)
      BY <2>3 DEF PushEvent, Present
    <3>2. PICK b, k : b = Buffered(conns[c], l) /\ k = conns[c]
      OBVIOUS
    <3>3. /\ b \in ConnType /\ b.status = k.status /\ b.sock = k.sock /\ b.sent = k.sent + 1
          /\ b.acked = k.acked /\ b.first >= k.first /\ b.first \in 1 .. b.sent + 1
      BY <2>1, <3>2, BufferedFields
    <3> QED BY <2>1, <2>3, <3>1, <3>2, <3>3
  <2> QED BY <2>2, <2>3
<1>8. TypeOK'
  <2>1. conns' \in [Ids -> ConnType]
    <3>1. conns' = [c \in Ids |-> conns'[c]]
      BY DEF PushEvent
    <3> QED BY <1>7, <3>1
  <2> QED BY <1>1, <1>2, <1>3, <1>5, <1>7, <2>1, Types, NextShape DEF Shape
<1>9. AttachedOnce'
  <2>1. ASSUME NEW t \in Sockets, sockets'[t].server = "attached"
        PROVE  conns'[sockets'[t].conn].status = "connected" /\ conns'[sockets'[t].conn].sock = t
    BY <1>1, <1>6, <1>7, <2>1, AttachedConn
  <2> QED BY <2>1 DEF AttachedOnce
<1>10. \A c \in Ids : (Issued(c) <=> Issued(c)') /\ (Present(c) <=> Present(c)')
  BY <1>6, <1>7 DEF Issued, Present, Ids, Sockets
<1>11. SocketsInv'
  <2>1. ASSUME NEW t \in Sockets
        PROVE  /\ t # client.ws => sockets'[t].client \in {"unused", "closed"} /\ sockets'[t].down = <<>>
               /\ t = client.ws => sockets'[t].client \in {"connecting", "open", "closing"}
               /\ sockets'[t].client \in {"unused", "connecting"} => sockets'[t].server = "none"
               /\ sockets'[t].server \notin {"attached", "closed"} =>
                    sockets'[t].down = <<>> /\ sockets'[t].seqAck = 0
               /\ sockets'[t].server = "attached" => sockets'[t].conn # 0
    BY <1>1, <1>4, <1>6 DEF SocketsInv
  <2> QED BY <1>1, <1>2, <1>10, <2>1 DEF SocketsInv
<1>12. ClientInv'
  <2>1. client.ws # 0 => client.ws \in Sockets
    BY <1>1, Bounds DEF Typed
  <2>2. client.connected => /\ client.ws # 0 /\ Issued(client.ws) /\ sockets[client.ws].conn = client.id
                            /\ sockets[client.ws].client # "connecting"
    BY <1>1 DEF ClientInv
  <2>3. client.connected => /\ client.ws # 0 /\ sockets'[client.ws].server \in {"attached", "closed"}
                            /\ sockets'[client.ws].conn = client.id
                            /\ sockets'[client.ws].client # "connecting"
    BY <1>6, <2>1, <2>2 DEF Issued
  <2>4. Position(client).id # 0 => sockets'[Position(client).id].server \in {"attached", "closed"}
    <3>1. Position(client).id # 0 => Position(client).id \in Sockets
      BY <1>1, Bounds DEF Typed, Position
    <3>2. Position(client).id # 0 => Issued(Position(client).id)
      BY <1>1 DEF ClientInv
    <3> QED BY <1>6, <3>1, <3>2 DEF Issued
  <2>5. Position(client)' = Position(client)
    BY <1>2 DEF Position
  <2>6. /\ client.destroyed => client.ws = 0 /\ ~client.retry /\ ~client.connected
        /\ ~client.destroyed => (client.connected <=> client.id # 0)
        /\ client.retry => client.ws = 0
        /\ client.pending.id = 0 => client.pending = NoReconnect
        /\ client.id = 0 /\ client.pending.id # 0 => client.lastSeen = client.pending.lastSeq
        /\ refreshes # 0 /\ ~client.destroyed => Position(client).id # 0
    BY <1>1 DEF ClientInv
  <2> QED BY <1>2, <2>3, <2>4, <2>5, <2>6, Zenon DEF ClientInv, Issued
<1>13. HelloInv'
  <2>1. SUFFICES ASSUME NEW w \in Sockets, w = client.ws, ~client.connected, sockets'[w].server # "none"
                 PROVE  /\ client.asking <=> client.pending # NoReconnect
                        /\ sockets'[w].server \in {"waiting", "checking"} =>
                             sockets'[w].hello = client.pending
                        /\ sockets'[w].seqAck = 0
    <3>1. client.ws # 0 => client.ws \in Sockets
      BY <1>1, Bounds DEF Typed
    <3> QED BY <3>1, <1>2, Zenon DEF HelloInv
  <2> QED BY <1>1, <1>6, <2>1, Bounds DEF HelloInv
<1>14. PositionInv'
  <2>1. SUFFICES ASSUME NEW c \in Ids, c = Position(client).id, Present(c)'
                 PROVE  /\ Position(client).lastSeq + published' <= view + conns'[c].sent
                        /\ \/ Position(client).lastSeq + published' = view + conns'[c].sent
                           \/ Position(client).lastSeq + 1 < conns'[c].first
                        /\ conns'[c].acked <= Position(client).lastSeq
    <3>1. Position(client).id # 0 => Position(client).id \in Ids
      BY <1>1, Bounds DEF Typed, Position
    <3>2. Position(client)' = Position(client)
      BY <1>2 DEF Position
    <3> QED BY <1>2, <3>1, <3>2, Zenon DEF PositionInv, Present
  <2>2. PICK n \in Nat : n = Position(client).lastSeq
    BY <1>1 DEF Typed, Position
  <2>3. /\ n + published <= view + conns[c].sent
        /\ n + published = view + conns[c].sent \/ n + 1 < conns[c].first
        /\ conns[c].acked <= n
    BY <1>1, <1>10, <2>1, <2>2, Bounds DEF PositionInv
  <2>4. /\ conns[c].sent \in Nat /\ conns[c].first \in Nat /\ conns'[c].sent = conns[c].sent + 1
        /\ conns'[c].first \in Nat /\ conns'[c].first >= conns[c].first /\ conns'[c].acked = conns[c].acked
    BY <1>1, <1>7, <1>8, <1>10, <2>1, NextTypes DEF Typed
  <2> QED BY <1>2, <1>3, <2>2, <2>3, <2>4
<1>15. SeqAckInv'
  <2>1. ASSUME NEW t \in Sockets, sockets'[t].server = "attached"
        PROVE  /\ sockets'[t].seqAck <= conns'[sockets'[t].conn].sent
               /\ sockets'[t].conn = Position(client).id => sockets'[t].seqAck <= Position(client).lastSeq
    <3>1. PICK c \in Ids : c = sockets[t].conn
      BY <1>1, <1>6, <2>1, AttachedConn
    <3>2. /\ sockets[t].seqAck <= conns[c].sent
          /\ c = Position(client).id => sockets[t].seqAck <= Position(client).lastSeq
      BY <1>1, <1>6, <2>1, <3>1 DEF SeqAckInv
    <3>3. /\ conns[c].sent \in Nat /\ conns'[c].sent \in Nat /\ conns'[c].sent >= conns[c].sent
          /\ sockets[t].seqAck \in Nat
      BY <1>1, <1>7, <1>8, NextTypes DEF Typed
    <3> QED BY <1>6, <3>1, <3>2, <3>3
  <2> QED BY <1>2, <2>1 DEF SeqAckInv, Position
<1> DEFINE Goal(s) == /\ client.connected => Follows(s, sockets[s].down, 0, view)'
                      /\ ~client.connected => Before(s, sockets[s].down)'
                      /\ Numbered(s, sockets[s].down)'
<1>16. ASSUME NEW s \in Sockets, s = client.ws PROVE Goal(s)
  <2>1. PICK q : q = sockets[s].down
    OBVIOUS
  <2>2. PICK d : d = sockets'[s].down
    OBVIOUS
  <2>3. q \in Seq(Messages) /\ Len(q) \in Nat /\ \A i \in 1 .. Len(q) : q[i] \in Messages
    BY <1>1, <2>1 DEF Typed
  <2>4. Reaches(s)' <=> Reaches(s)
    BY <1>6 DEF Reaches, Arrives
  <2>5. ASSUME Reaches(s)
        PROVE  /\ d # <<>> /\ Len(d) = Len(q) + 1 /\ \A i \in 1 .. Len(q) : d[i] = q[i]
               /\ d[Len(q) + 1].kind = "event" /\ d[Len(q) + 1].ev = published + 1
               /\ d[Len(q) + 1].seq = conns[sockets[s].conn].sent + 1
    <3>1. PICK x \in Nat, y \in Nat : x = conns[sockets[s].conn].sent + 1 /\ y = published + 1
      BY <1>1, <1>3, <1>4, <2>5 DEF Typed
    <3>2. PICK m : m = Event(x, y, l)
      OBVIOUS
    <3>3. m \in Messages /\ m.kind = "event" /\ m.ev = y /\ m.seq = x
      BY <3>2, EventFields
    <3>4. d = Append(q, m)
      BY <1>6, <2>1, <2>2, <2>5, <3>1, <3>2
    <3>5. d # <<>> /\ Len(d) = Len(q) + 1 /\ d[Len(q) + 1] = m /\ \A i \in 1 .. Len(q) : d[i] = q[i]
      BY <2>3, <3>3, <3>4, Appended
    <3> QED BY <3>1, <3>3, <3>5
  <2>6. ~Reaches(s) => d = q
    BY <1>6, <2>1, <2>2
  <2>7. ASSUME NEW k \in Nat, NEW n \in Nat, Follows(s, q, k, n) PROVE Follows(s, d, k, n)'
    <3>1. CASE ~Reaches(s)
      BY <1>2, <1>3, <2>3, <2>4, <2>6, <2>7, <3>1 DEF Follows
    <3>2. CASE Reaches(s)
      <4>1. n + Len(q) = published + k
        BY <2>7, <3>2 DEF Follows
      <4>2. n + Len(d) = published + 1 + k
        BY <1>3, <2>3, <2>5, <3>2, <4>1
      <4>3. ASSUME NEW i \in k + 1 .. Len(d) PROVE d[i].kind = "event" /\ d[i].ev + k = n + i
        <5>1. CASE i = Len(q) + 1
          <6>1. d[i].kind = "event" /\ d[i].ev = published + 1
            BY <2>5, <3>2, <5>1
          <6>2. published + 1 + k = n + i
            BY <1>3, <2>3, <4>1, <5>1
          <6> QED BY <6>1, <6>2
        <5>2. CASE i # Len(q) + 1
          <6>1. i \in k + 1 .. Len(q) /\ i \in 1 .. Len(q)
            BY <2>3, <2>5, <3>2, <5>2
          <6> QED BY <2>5, <2>7, <3>2, <6>1 DEF Follows
        <5> QED BY <5>1, <5>2
      <4>4. n + Len(d) <= published + 1 + k
        BY <1>3, <4>2
      <4> QED BY <1>2, <4>2, <4>3, <4>4 DEF Follows
    <3> QED BY <3>1, <3>2
  <2>8. ASSUME NEW m \in Messages, AckInv(s, m) PROVE AckInv(s, m)'
    <3>1. m.id \in Ids /\ m.ev \in Nat
      BY <2>8, Bounds DEF AckInv, Messages
    <3>2. /\ Issued(m.id)' /\ (Present(m.id)' => Present(m.id)) /\ sockets'[s].conn = sockets[s].conn
          /\ Issued(m.id) /\ m.ev >= view /\ m.id = sockets[s].conn /\ m.id # 0
          /\ m.reconnected => m.id = client.pending.id
      BY <1>6, <1>10, <2>8, <3>1 DEF AckInv
    <3>3. ASSUME Present(m.id), ~m.reconnected PROVE m.ev + conns'[m.id].sent = published' /\ Unacked(m.id)'
      <4>1. m.ev + conns[m.id].sent = published /\ Unacked(m.id)
        BY <2>8, <3>3 DEF AckInv
      <4>2. conns[m.id].sent \in Nat /\ conns'[m.id].sent = conns[m.id].sent + 1
        BY <1>1, <1>7, <3>1, <3>3 DEF Typed
      <4>3. Unacked(m.id)'
        BY <1>6, <1>7, <3>1, <4>1 DEF Unacked
      <4> QED BY <1>2, <1>3, <3>1, <4>1, <4>2, <4>3
    <3>4. ASSUME Present(m.id), m.reconnected, m.stale PROVE client.lastSeen + 1 < conns'[m.id].first
      <4>1. client.lastSeen + 1 < conns[m.id].first
        BY <2>8, <3>4 DEF AckInv
      <4>2. conns[m.id].first \in Nat /\ conns'[m.id].first \in Nat /\ conns'[m.id].first >= conns[m.id].first
            /\ client.lastSeen \in Nat
        BY <1>1, <1>7, <1>8, <3>1, NextTypes DEF Typed
      <4> QED BY <4>1, <4>2
    <3> QED BY <1>2, <3>2, <3>3, <3>4 DEF AckInv, Issued, Present
  <2>9. client.connected => Follows(s, q, 0, view)
    BY <1>1, <1>16, <2>1 DEF FlowInv
  <2>10. ~client.connected => Before(s, q)
    BY <1>1, <1>16, <2>1 DEF FlowInv
  <2>11. ASSUME ~client.connected PROVE Before(s, d)'
    <3>1. CASE q = <<>> /\ ~Reaches(s)
      BY <2>4, <2>6, <3>1 DEF Before
    <3>2. CASE Len(q) = 1 /\ q[1].kind = "error" /\ sockets[s].server = "closed"
      <4>1. ~Reaches(s)
        BY <3>2 DEF Reaches
      <4> QED BY <1>6, <2>6, <3>2, <4>1 DEF Before
    <3>3. CASE /\ q # <<>> /\ q[1].kind = "handshake_ack" /\ AckInv(s, q[1])
               /\ Follows(s, q, 1, IF Stale(q[1]) THEN q[1].ev ELSE view)
      <4>1. q[1] \in Messages /\ 1 \in 1 .. Len(q)
        BY <2>3, <3>3
      <4>2. d # <<>> /\ d[1] = q[1]
        BY <2>5, <2>6, <3>3, <4>1
      <4>3. AckInv(s, q[1])'
        <5>1. PICK m \in Messages : m = q[1]
          BY <4>1
        <5> QED BY <2>8, <3>3, <5>1
      <4>4. PICK n \in Nat : n = IF Stale(q[1]) THEN q[1].ev ELSE view
        BY <1>3, <4>1 DEF Messages
      <4>5. Follows(s, d, 1, n)'
        BY <2>7, <3>3, <4>4
      <4> QED BY <1>2, <3>3, <4>2, <4>3, <4>4, <4>5 DEF Before, Stale
    <3> QED BY <2>10, <2>11, <3>1, <3>2, <3>3 DEF Before
  <2>12. Numbered(s, d)'
    <3>1. Numbered(s, q)
      BY <1>1, <1>16, <2>1 DEF FlowInv
    <3>2. ASSUME NEW i \in 1 .. Len(d), d[i].kind = "event"
          PROVE  /\ sockets'[s].conn # 0 /\ Issued(sockets[s].conn)'
                 /\ Present(sockets[s].conn)' => d[i].ev + conns'[sockets[s].conn].sent = d[i].seq + published'
      <4>1. CASE i \in 1 .. Len(q) /\ d[i] = q[i]
        <5>1. /\ sockets[s].conn # 0 /\ Issued(sockets[s].conn)
              /\ Present(sockets[s].conn) =>
                   q[i].ev + conns[sockets[s].conn].sent = q[i].seq + published
          BY <3>1, <3>2, <4>1 DEF Numbered
        <5>2. PICK c \in Ids : c = sockets[s].conn
          BY <1>1, <5>1, Bounds DEF Typed
        <5>3. q[i].ev \in Nat /\ q[i].seq \in Nat
          BY <2>3, <4>1 DEF Messages
        <5>4. conns[c].sent \in Nat /\ (Present(c) => conns'[c].sent = conns[c].sent + 1)
          BY <1>1, <1>7 DEF Typed
        <5>5. Issued(c)' /\ (Present(c)' <=> Present(c)) /\ sockets'[s].conn = c /\ c # 0
          BY <1>6, <1>10, <5>1, <5>2
        <5>6. Present(c) => q[i].ev + conns[c].sent = q[i].seq + published
          BY <5>1, <5>2
        <5>7. Present(c) => q[i].ev + conns'[c].sent = q[i].seq + published'
          <6>1. PICK e \in Nat, f \in Nat, z \in Nat : e = q[i].ev /\ f = q[i].seq /\ z = conns[c].sent
            BY <5>3, <5>4
          <6>2. Present(c) => e + z = f + published /\ conns'[c].sent = z + 1
            BY <5>4, <5>6, <6>1
          <6>3. e + z = f + published => e + (z + 1) = f + (published + 1)
            BY <1>3
          <6> QED BY <1>2, <6>1, <6>2, <6>3
        <5> QED BY <4>1, <5>2, <5>5, <5>7
      <4>2. CASE Reaches(s) /\ i = Len(q) + 1
        <5>1. PICK c \in Ids : c = sockets[s].conn
          BY <1>4, <4>2
        <5>2. /\ d[i].ev = published + 1 /\ d[i].seq = conns[c].sent + 1
              /\ Present(c) /\ conns[c].sent \in Nat /\ conns'[c].sent = conns[c].sent + 1
          BY <1>1, <1>4, <1>7, <2>5, <4>2, <5>1 DEF Typed
        <5>3. d[i].ev + conns'[c].sent = d[i].seq + published'
          BY <1>2, <1>3, <5>2
        <5>4. sockets'[s].conn = c /\ Issued(c)' /\ c # 0
          BY <1>1, <1>6, <1>10, <5>1, <5>2, Bounds DEF SocketsInv
        <5> QED BY <5>1, <5>3, <5>4
      <4> QED BY <2>3, <2>5, <2>6, <3>2, <4>1, <4>2
    <3>3. sockets'[s].conn = sockets[s].conn
      BY <1>6
    <3> QED BY <3>2, <3>3 DEF Numbered, Issued, Present
  <2> QED BY <1>2, <2>2, <2>7, <2>9, <2>11, <2>12, <1>3
<1>17. FlowInv'
  BY <1>2, <1>16 DEF FlowInv
<1>18. (view <= published)'
  BY <1>1, <1>2, <1>3
<1> QED BY <1>8, <1>9, <1>11, <1>12, <1>13, <1>14, <1>15, <1>17, <1>18 DEF IInv

(* A step of the client that leaves alone what is attached, and the position *)
(* it would resume, or forgets it.                                           *)
Apart ==
  /\ conns' = conns /\ published' = published /\ view' = view /\ refreshes' = refreshes
  /\ \A t \in Sockets : Issued(t) \/ Issued(t)' =>
       /\ sockets'[t].server = sockets[t].server /\ sockets'[t].conn = sockets[t].conn
       /\ sockets'[t].seqAck = sockets[t].seqAck
  /\ Position(client)' = Position(client) \/ Position(client)'.id = 0

LEMMA ApartKeeps ==
  ASSUME TypeOK, AttachedOnce, SocketsInv, PositionInv, SeqAckInv, view <= published, Apart
  PROVE  /\ AttachedOnce' /\ PositionInv' /\ SeqAckInv' /\ (view <= published)'
         /\ \A c \in Ids : (Issued(c)' <=> Issued(c)) /\ (Present(c)' <=> Present(c))
<1>1. conns' = conns /\ published' = published /\ view' = view
  BY DEF Apart
<1>2. ASSUME NEW t \in Sockets, sockets'[t].server = "attached"
      PROVE  /\ sockets[t].server = "attached" /\ sockets'[t].conn = sockets[t].conn
             /\ sockets'[t].seqAck = sockets[t].seqAck /\ sockets[t].conn \in Ids /\ sockets[t].conn # 0
  <2>1. Issued(t)'
    BY <1>2 DEF Issued
  <2>2. /\ sockets'[t].server = sockets[t].server /\ sockets'[t].conn = sockets[t].conn
        /\ sockets'[t].seqAck = sockets[t].seqAck
    BY <2>1 DEF Apart
  <2> QED BY <1>2, <2>2, StateTypes, AttachedConn, Bounds
<1>3. AttachedOnce'
  BY <1>1, <1>2 DEF AttachedOnce
<1>4. \A c \in Ids : (Issued(c)' <=> Issued(c)) /\ (Present(c)' <=> Present(c))
  BY <1>1 DEF Apart, Issued, Present, Ids
<1>5. PositionInv'
  <2>1. CASE Position(client)' = Position(client)
    BY <1>1, <2>1, Zenon DEF PositionInv, Present
  <2>2. CASE Position(client)'.id = 0
    BY <2>2, Zenon DEF PositionInv
  <2> QED BY <2>1, <2>2 DEF Apart
<1>6. SeqAckInv'
  <2>1. ASSUME NEW t \in Sockets, sockets'[t].server = "attached"
        PROVE  /\ sockets'[t].seqAck <= conns[sockets'[t].conn].sent
               /\ sockets'[t].conn = Position(client)'.id => sockets'[t].seqAck <= Position(client)'.lastSeq
    BY <1>2, <2>1 DEF SeqAckInv, Apart
  <2> QED BY <1>1, <2>1 DEF SeqAckInv
<1> QED BY <1>1, <1>3, <1>4, <1>5, <1>6

(* A new socket is silent, and none is current when there is none. *)
LEMMA SilentKeeps ==
  ASSUME NEW w \in 0 .. MaxSockets, client'.ws = w,
         w # 0 => ~client'.connected /\ sockets'[w].down = <<>> /\ sockets'[w].server = "none"
  PROVE  FlowInv' /\ HelloInv'
<1>1. ASSUME NEW s \in Sockets, s = w
      PROVE  Before(s, sockets[s].down)' /\ Numbered(s, sockets[s].down)' /\ ~client'.connected
  BY <1>1, Bounds DEF Before, Numbered, Reaches
<1>2. FlowInv'
  BY <1>1 DEF FlowInv
<1>3. HelloInv'
  BY DEF HelloInv
<1> QED BY <1>2, <1>3

LEMMA OpensKeeps ==
  ASSUME IInv, NEW s \in Sockets, Opens(s) PROVE IInv'
<1>1. /\ TypeOK /\ AttachedOnce /\ SocketsInv /\ ClientInv /\ HelloInv /\ FlowInv /\ PositionInv /\ SeqAckInv
      /\ view <= published /\ Typed
  BY StateTypes DEF IInv
<1>2. /\ s = client.ws /\ sockets[s].client = "connecting" /\ conns' = conns /\ server' = server
      /\ published' = published /\ view' = view /\ refreshes' = refreshes /\ mishaps' = mishaps
  BY DEF Opens
<1>3. sockets[s].server = "none" /\ sockets[s].down = <<>> /\ sockets[s].seqAck = 0 /\ s # 0
  BY <1>1, <1>2, Bounds DEF SocketsInv
<1>4. ~client.connected
  BY <1>1, <1>2, <1>3 DEF ClientInv
<1>5. PICK a \in BOOLEAN : a = (client.pending # NoReconnect)
  OBVIOUS
<1>6. /\ client' \in ClientType /\ client'.ws = client.ws /\ client'.id = client.id
      /\ client'.connected = client.connected /\ client'.lastSeen = client.lastSeen
      /\ client'.pending = client.pending /\ client'.asking = a /\ client'.retry = client.retry
      /\ client'.destroyed = client.destroyed
  <2>1. client \in ClientType
    BY <1>1 DEF Typed
  <2>2. client' = [client EXCEPT !.asking = a]
    BY <1>5 DEF Opens
  <2> QED BY <2>1, <2>2 DEF ClientType
<1>7. /\ sockets' \in [Sockets -> SocketType]
      /\ \A t \in Sockets : t # s => sockets'[t] = sockets[t]
      /\ sockets'[s].client = "open" /\ sockets'[s].server = "waiting"
      /\ sockets'[s].link = sockets[s].link /\ sockets'[s].conn = sockets[s].conn
      /\ sockets'[s].hello = client.pending /\ sockets'[s].seqAck = 0
      /\ sockets'[s].down = <<>>
  <2>1. sockets \in [Sockets -> SocketType] /\ client.pending \in [id : 0 .. MaxSockets, lastSeq : Nat]
    BY <1>1 DEF Typed, ClientType
  <2>2. PICK r : r = [sockets[s] EXCEPT !.client = "open", !.server = "waiting", !.hello = client.pending]
    OBVIOUS
  <2>3. /\ r.client = "open" /\ r.server = "waiting" /\ r.link = sockets[s].link
        /\ r.conn = sockets[s].conn /\ r.hello = client.pending /\ r.seqAck = sockets[s].seqAck
        /\ r.down = sockets[s].down /\ r \in SocketType
    BY <2>1, <2>2 DEF SocketType
  <2>4. sockets' = [sockets EXCEPT ![s] = r]
    BY <2>2 DEF Opens
  <2> QED BY <1>3, <2>1, <2>3, <2>4
<1>8. TypeOK'
  BY <1>1, <1>2, <1>6, <1>7, Types, NextShape DEF Shape
<1>9. Position(client)' = Position(client)
  BY <1>6 DEF Position
<1>10. Apart
  BY <1>2, <1>3, <1>7, <1>9 DEF Apart, Issued
<1>11. /\ AttachedOnce' /\ PositionInv' /\ SeqAckInv' /\ (view <= published)'
       /\ \A c \in Ids : (Issued(c)' <=> Issued(c)) /\ (Present(c)' <=> Present(c))
  BY <1>1, <1>10, ApartKeeps
<1>12. SocketsInv'
  BY <1>1, <1>2, <1>6, <1>7, <1>11 DEF SocketsInv
<1>13. ClientInv'
  <2>1. Position(client).id # 0 => Position(client).id \in Ids
    BY <1>1, Bounds DEF Typed, Position
  <2>2. Position(client).id # 0 => sockets'[Position(client).id].server \in {"attached", "closed"}
    BY <1>1, <1>11, <2>1 DEF ClientInv, Issued
  <2> QED BY <1>1, <1>2, <1>4, <1>6, <1>9, <2>2 DEF ClientInv, Issued
<1>14. HelloInv'
  BY <1>2, <1>5, <1>6, <1>7 DEF HelloInv
<1>15. FlowInv'
  <2>1. ~Reaches(s)' /\ client'.connected = FALSE
    BY <1>4, <1>6, <1>7, <1>1 DEF Reaches, Typed, ClientType
  <2>2. Before(s, sockets[s].down)' /\ Numbered(s, sockets[s].down)'
    BY <1>7, <2>1 DEF Before, Numbered
  <2> QED BY <1>2, <1>6, <2>1, <2>2 DEF FlowInv
<1> QED BY <1>8, <1>11, <1>12, <1>13, <1>14, <1>15 DEF IInv

LEMMA PositionType ==
  ASSUME client \in ClientType
  PROVE  Position(client) \in [id : 0 .. MaxSockets, lastSeq : Nat]
  BY DEF ClientType, Position

LEMMA DisconnectedFields ==
  ASSUME client \in ClientType, NEW c, c = Disconnected(client)
  PROVE  /\ c \in ClientType /\ c.ws = 0 /\ c.id = 0 /\ c.connected = FALSE
         /\ c.lastSeen = client.lastSeen /\ c.pending = Position(client) /\ c.destroyed = client.destroyed
<1>1. PICK p : p = Position(client)
  OBVIOUS
<1>2. p \in [id : 0 .. MaxSockets, lastSeq : Nat]
  BY <1>1, PositionType
<1>3. PICK b \in BOOLEAN : b = (~client.destroyed /\ ~client.closed)
  OBVIOUS
<1>4. c = [client EXCEPT !.pending = p, !.ws = 0, !.id = 0, !.connected = FALSE, !.ready = FALSE,
                         !.manual = FALSE, !.retry = b]
  BY <1>1, <1>3 DEF Disconnected
<1>5. PICK f \in BOOLEAN : f = FALSE
  OBVIOUS
<1>6. PICK z \in 0 .. MaxSockets : z = 0
  BY Bounds
<1>7. PICK x : x = [client EXCEPT !.pending = p, !.ws = z, !.id = z]
  OBVIOUS
<1>8. /\ x \in ClientType /\ x.ws = z /\ x.id = z /\ x.lastSeen = client.lastSeen
      /\ x.pending = p /\ x.destroyed = client.destroyed
  BY <1>2, <1>7 DEF ClientType
<1>9. PICK y : y = [x EXCEPT !.connected = f, !.ready = f]
  OBVIOUS
<1>10. /\ y \in ClientType /\ y.ws = z /\ y.id = z /\ y.lastSeen = client.lastSeen
      /\ y.pending = p /\ y.destroyed = client.destroyed /\ y.connected = f
  BY <1>8, <1>9 DEF ClientType
<1>11. c = [y EXCEPT !.manual = f, !.retry = b]
  BY <1>4, <1>5, <1>6, <1>7, <1>9
<1>12. /\ c \in ClientType /\ c.ws = z /\ c.id = z /\ c.lastSeen = client.lastSeen
       /\ c.pending = p /\ c.destroyed = client.destroyed /\ c.connected = f
  BY <1>10, <1>11 DEF ClientType
<1> QED BY <1>1, <1>5, <1>6, <1>12

LEMMA ReconnectingFields ==
  ASSUME client \in ClientType, NEW t \in Sockets, NEW c, c = Reconnecting(client, t)
  PROVE  /\ c \in ClientType /\ c.ws = t /\ c.id = 0 /\ c.connected = FALSE /\ c.retry = FALSE
         /\ c.lastSeen = client.lastSeen /\ c.pending = Position(client) /\ c.destroyed = client.destroyed
<1>1. PICK d : d = Disconnected(client)
  OBVIOUS
<1>2. /\ d \in ClientType /\ d.id = 0 /\ d.connected = FALSE /\ d.lastSeen = client.lastSeen
      /\ d.pending = Position(client) /\ d.destroyed = client.destroyed
  BY <1>1, DisconnectedFields
<1>3. c = [d EXCEPT !.retry = FALSE, !.ws = t, !.ready = TRUE]
  BY <1>1 DEF Reconnecting
<1>4. PICK f \in BOOLEAN : f = FALSE
  OBVIOUS
<1>5. PICK g \in BOOLEAN : g = TRUE
  OBVIOUS
<1>6. t \in 0 .. MaxSockets
  BY Bounds
<1>7. c = [d EXCEPT !.retry = f, !.ws = t, !.ready = g]
  BY <1>3, <1>4, <1>5
<1>8. /\ c \in ClientType /\ c.ws = t /\ c.id = d.id /\ c.connected = d.connected /\ c.retry = f
      /\ c.lastSeen = d.lastSeen /\ c.pending = d.pending /\ c.destroyed = d.destroyed
  BY <1>2, <1>7, <1>6 DEF ClientType
<1> QED BY <1>2, <1>4, <1>8

(* The client is between two connections, and keeps its position. *)
Between ==
  /\ client'.id = 0 /\ client'.connected = FALSE /\ client'.lastSeen = client.lastSeen
  /\ client'.pending = Position(client) /\ ~client'.destroyed
  /\ client'.retry => client'.ws = 0
  /\ refreshes' = refreshes

LEMMA BetweenKeeps ==
  ASSUME TypeOK, ClientInv, Between, ~client.destroyed,
         \A c \in Ids : (Issued(c)' <=> Issued(c))
  PROVE  ClientInv' /\ Position(client)' = Position(client)
<1>1. Position(client)' = Position(client)
  BY DEF Between, Position
<1>2. Position(client).id \in 0 .. MaxSockets
  BY StateTypes, PositionType DEF Typed
<1>3. Position(client).id # 0 => sockets'[Position(client).id].server \in {"attached", "closed"}
  BY <1>2, Bounds DEF ClientInv, Issued
<1>4. /\ Position(client).id = 0 => Position(client) = NoReconnect
      /\ Position(client).id # 0 => client.lastSeen = Position(client).lastSeq
      /\ refreshes # 0 => Position(client).id # 0
  BY DEF ClientInv, Position
<1> QED BY <1>1, <1>3, <1>4, Zenon DEF ClientInv, Between, Issued

LEMMA OpenFailsKeeps ==
  ASSUME IInv, NEW s \in Sockets, OpenFails(s) PROVE IInv'
<1>1. /\ TypeOK /\ AttachedOnce /\ SocketsInv /\ ClientInv /\ HelloInv /\ FlowInv /\ PositionInv /\ SeqAckInv
      /\ view <= published /\ Typed
  BY StateTypes DEF IInv
<1>2. /\ s = client.ws /\ conns' = conns /\ server' = server /\ sockets[s].server = "none"
      /\ published' = published /\ view' = view /\ refreshes' = refreshes /\ mishaps' = mishaps
  BY DEF OpenFails
<1>3. ~client.destroyed
  BY <1>1, <1>2, Bounds DEF ClientInv
<1>4. PICK v \in {"unused", "connecting"}, r \in SocketType :
        /\ r.client = v /\ r.server = "none" /\ r.seqAck = 0 /\ r.down = <<>>
        /\ sockets' = [sockets EXCEPT ![s] = r]
        /\ client' \in ClientType /\ Between
        /\ \/ v = "connecting" /\ client'.ws = s
           \/ v = "unused" /\ client'.ws = 0
  <2>1. NoReconnect \in [id : 0 .. MaxSockets, lastSeq : Nat] /\ <<>> \in Seq(Messages)
    BY Bounds DEF NoReconnect
  <2>2. CASE /\ client' = Reconnecting(client, s)
             /\ sockets' = [sockets EXCEPT ![s] = [FreshSocket EXCEPT !.client = "connecting"]]
    <3>1. PICK c : c = client'
      OBVIOUS
    <3>2. /\ c \in ClientType /\ c.ws = s /\ c.id = 0 /\ c.connected = FALSE /\ c.retry = FALSE
          /\ c.lastSeen = client.lastSeen /\ c.pending = Position(client) /\ c.destroyed = client.destroyed
      BY <1>1, <2>2, <3>1, ReconnectingFields DEF Typed
    <3>3. Between
      BY <1>2, <1>3, <3>1, <3>2 DEF Between
    <3>4. PICK r : r = [FreshSocket EXCEPT !.client = "connecting"]
      OBVIOUS
    <3>5. r = [client |-> "connecting", server |-> "none", link |-> TRUE, conn |-> 0,
               hello |-> NoReconnect, seqAck |-> 0, down |-> <<>>]
      BY <3>4 DEF FreshSocket
    <3>6. r \in SocketType /\ r.client = "connecting" /\ r.server = "none" /\ r.seqAck = 0 /\ r.down = <<>>
      BY <2>1, <3>5, Bounds DEF SocketType
    <3> QED BY <2>2, <3>1, <3>2, <3>3, <3>4, <3>6
  <2>3. CASE client' = Disconnected(client) /\ sockets' = [sockets EXCEPT ![s] = FreshSocket]
    <3>1. PICK c : c = client'
      OBVIOUS
    <3>2. /\ c \in ClientType /\ c.ws = 0 /\ c.id = 0 /\ c.connected = FALSE
          /\ c.lastSeen = client.lastSeen /\ c.pending = Position(client) /\ c.destroyed = client.destroyed
      BY <1>1, <2>3, <3>1, DisconnectedFields DEF Typed
    <3>3. Between
      BY <1>2, <1>3, <3>1, <3>2 DEF Between
    <3>4. PICK r : r = FreshSocket
      OBVIOUS
    <3>5. r \in SocketType /\ r.client = "unused" /\ r.server = "none" /\ r.seqAck = 0 /\ r.down = <<>>
      BY <2>1, <3>4, Bounds DEF SocketType, FreshSocket
    <3> QED BY <2>3, <3>1, <3>2, <3>3, <3>4, <3>5
  <2> QED BY <2>2, <2>3 DEF OpenFails
<1>5. /\ sockets' \in [Sockets -> SocketType]
      /\ \A t \in Sockets : t # s => sockets'[t] = sockets[t]
      /\ sockets'[s].client = v /\ sockets'[s].server = "none" /\ sockets'[s].seqAck = 0
      /\ sockets'[s].down = <<>>
  <2>1. sockets \in [Sockets -> SocketType]
    BY <1>1 DEF Typed
  <2> QED BY <1>4, <2>1
<1>6. TypeOK'
  BY <1>1, <1>2, <1>4, <1>5, Types, NextShape DEF Shape
<1>7. Position(client)' = Position(client)
  BY <1>4 DEF Between, Position
<1>8. Apart
  BY <1>2, <1>5, <1>7 DEF Apart, Issued
<1>9. /\ AttachedOnce' /\ PositionInv' /\ SeqAckInv' /\ (view <= published)'
      /\ \A c \in Ids : (Issued(c)' <=> Issued(c)) /\ (Present(c)' <=> Present(c))
  BY <1>1, <1>8, ApartKeeps
<1>10. ClientInv'
  BY <1>1, <1>3, <1>4, <1>9, BetweenKeeps
<1>11. SocketsInv'
  BY <1>1, <1>2, <1>4, <1>5, <1>9, Bounds DEF SocketsInv
<1>12. FlowInv' /\ HelloInv'
  BY <1>4, <1>5, Bounds, SilentKeeps DEF Between
<1> QED BY <1>6, <1>9, <1>10, <1>11, <1>12 DEF IInv

LEMMA ClosingSocket ==
  ASSUME NEW x \in SocketType, NEW r, r = [x EXCEPT !.client = "closing"]
  PROVE  /\ r.client = "closing" /\ r.server = x.server /\ r.link = x.link /\ r.conn = x.conn
         /\ r.hello = x.hello /\ r.seqAck = x.seqAck /\ r.down = x.down /\ r \in SocketType
  BY DEF SocketType

(* The client starts to close its current socket. *)
LEMMA ClosingKeeps ==
  ASSUME IInv, NEW s \in Sockets, s = client.ws, sockets' = [sockets EXCEPT ![s].client = "closing"],
         conns' = conns, server' = server, published' = published, view' = view,
         refreshes' = refreshes, mishaps' \in Nat,
         client' \in ClientType, client'.ws = client.ws, client'.id = client.id,
         client'.connected = client.connected, client'.lastSeen = client.lastSeen,
         client'.asking = client.asking, client'.destroyed = client.destroyed,
         client'.retry => client.retry, client'.pending \in {client.pending, Position(client)}
  PROVE  IInv'
<1>1. /\ TypeOK /\ AttachedOnce /\ SocketsInv /\ ClientInv /\ HelloInv /\ FlowInv /\ PositionInv /\ SeqAckInv
      /\ view <= published /\ Typed
  BY StateTypes DEF IInv
<1>2. /\ sockets' \in [Sockets -> SocketType]
      /\ \A t \in Sockets : t # s => sockets'[t] = sockets[t]
      /\ sockets'[s].client = "closing" /\ sockets'[s].server = sockets[s].server
      /\ sockets'[s].link = sockets[s].link /\ sockets'[s].conn = sockets[s].conn
      /\ sockets'[s].hello = sockets[s].hello /\ sockets'[s].seqAck = sockets[s].seqAck
      /\ sockets'[s].down = sockets[s].down
  <2>1. sockets \in [Sockets -> SocketType]
    BY <1>1 DEF Typed
  <2>2. PICK r : r = [sockets[s] EXCEPT !.client = "closing"]
    OBVIOUS
  <2>3. /\ r.client = "closing" /\ r.server = sockets[s].server /\ r.link = sockets[s].link
        /\ r.conn = sockets[s].conn /\ r.hello = sockets[s].hello /\ r.seqAck = sockets[s].seqAck
        /\ r.down = sockets[s].down /\ r \in SocketType
    <3>1. sockets[s] \in SocketType
      BY <2>1
    <3> QED BY <2>2, <3>1, ClosingSocket
  <2>4. sockets' = [sockets EXCEPT ![s] = r]
    BY <2>2
  <2> QED BY <2>1, <2>3, <2>4
<1>3. ~client.destroyed /\ s # 0
  BY <1>1, Bounds DEF ClientInv
<1>4. ~client.connected => client.id = 0 /\ client'.pending = client.pending
  BY <1>1, <1>3 DEF ClientInv, Position
<1>5. Position(client)' = Position(client)
  BY <1>1, <1>3, <1>4 DEF Position, ClientInv
<1>6. TypeOK'
  BY <1>1, <1>2, Types, NextShape DEF Shape
<1>7. Apart
  BY <1>2, <1>5 DEF Apart
<1>8. /\ AttachedOnce' /\ PositionInv' /\ SeqAckInv' /\ (view <= published)'
      /\ \A c \in Ids : (Issued(c)' <=> Issued(c)) /\ (Present(c)' <=> Present(c))
  BY <1>1, <1>7, ApartKeeps
<1>9. SocketsInv'
  BY <1>1, <1>2, <1>8 DEF SocketsInv
<1>10. ClientInv'
  <2>1. Position(client).id # 0 => Position(client).id \in Ids
    BY <1>1, Bounds DEF Typed, Position
  <2>2. Position(client).id # 0 => sockets'[Position(client).id].server \in {"attached", "closed"}
    BY <1>1, <1>8, <2>1 DEF ClientInv, Issued
  <2>3. client.connected => /\ sockets'[s].server \in {"attached", "closed"}
                            /\ sockets'[s].conn = client.id /\ sockets'[s].client # "connecting"
    BY <1>1, <1>2 DEF ClientInv, Issued
  <2>4. /\ client'.pending.id = 0 => client'.pending = NoReconnect
        /\ client.id = 0 /\ client'.pending.id # 0 => client.lastSeen = client'.pending.lastSeq
        /\ ~client'.retry
        /\ refreshes # 0 => Position(client).id # 0
        /\ client.connected <=> client.id # 0
    BY <1>1, <1>3 DEF ClientInv, Position
  <2> QED BY <1>3, <1>5, <2>2, <2>3, <2>4, Zenon DEF ClientInv, Issued
<1>11. HelloInv'
  BY <1>1, <1>2, <1>3, <1>4 DEF HelloInv
<1>12. FlowInv'
  <2>1. Reaches(s)' => Reaches(s)
    BY <1>1, <1>2 DEF Reaches, Arrives, SocketsInv
  <2>2. \A c \in Ids : Unacked(c)' <=> Unacked(c)
    <3>1. \A t \in Sockets : sockets'[t].server = sockets[t].server /\ sockets'[t].conn = sockets[t].conn
                             /\ sockets'[t].seqAck = sockets[t].seqAck
      BY <1>2
    <3> QED BY <3>1 DEF Unacked
  <2>3. \A c \in Ids : conns'[c].first >= conns[c].first
    BY <1>1 DEF Typed
  <2>4. Undisturbed
    BY <1>2, <1>4, <1>8, <2>1, <2>2, <2>3 DEF Undisturbed
  <2> QED BY <1>1, <1>6, <2>4, FlowKept
<1> QED BY <1>6, <1>8, <1>9, <1>10, <1>11, <1>12 DEF IInv

LEMMA ConnectTimesOutKeeps ==
  ASSUME IInv, NEW s \in Sockets, ConnectTimesOut(s) PROVE IInv'
<1>1. client \in ClientType /\ mishaps \in Nat
  BY Types DEF IInv, Shape
<1>2. PICK f \in BOOLEAN : f = FALSE
  OBVIOUS
<1>3. client' = [client EXCEPT !.ready = f]
  BY <1>2 DEF ConnectTimesOut
<1>4. /\ client' \in ClientType /\ client'.ws = client.ws /\ client'.id = client.id
      /\ client'.connected = client.connected /\ client'.lastSeen = client.lastSeen
      /\ client'.asking = client.asking /\ client'.destroyed = client.destroyed
      /\ client'.retry = client.retry /\ client'.pending = client.pending
  BY <1>1, <1>3 DEF ClientType
<1> QED BY <1>1, <1>4, ClosingKeeps DEF ConnectTimesOut

LEMMA ClientSeesCloseKeeps ==
  ASSUME IInv, NEW s \in Sockets, ClientSeesClose(s) PROVE IInv'
<1>1. /\ TypeOK /\ AttachedOnce /\ SocketsInv /\ ClientInv /\ HelloInv /\ FlowInv /\ PositionInv /\ SeqAckInv
      /\ view <= published /\ Typed
  BY StateTypes DEF IInv
<1>2. /\ s = client.ws /\ conns' = conns /\ server' = server
      /\ published' = published /\ view' = view /\ refreshes' = refreshes /\ mishaps' = mishaps
  BY DEF ClientSeesClose
<1>3. ~client.destroyed
  BY <1>1, <1>2, Bounds DEF ClientInv
<1>4. PICK w \in 0 .. MaxSockets :
        /\ w # 0 => w # s /\ sockets[w].client = "unused"
        /\ w = 0 => sockets' = [sockets EXCEPT ![s] = Closed(sockets[s])]
        /\ w # 0 => sockets' = [sockets EXCEPT ![s] = Closed(sockets[s]), ![w].client = "connecting"]
        /\ client' \in ClientType /\ Between /\ client'.ws = w
  <2>1. ASSUME NEW t \in Sockets, NextSocket(t), client' = Reconnecting(client, t),
               sockets' = [sockets EXCEPT ![s] = Closed(sockets[s]), ![t].client = "connecting"]
        PROVE  /\ t # 0 /\ t # s /\ sockets[t].client = "unused" /\ t \in 0 .. MaxSockets
               /\ client' \in ClientType /\ Between /\ client'.ws = t
    <3>1. PICK c : c = client'
      OBVIOUS
    <3>2. /\ c \in ClientType /\ c.ws = t /\ c.id = 0 /\ c.connected = FALSE /\ c.retry = FALSE
          /\ c.lastSeen = client.lastSeen /\ c.pending = Position(client) /\ c.destroyed = client.destroyed
      BY <1>1, <2>1, <3>1, ReconnectingFields DEF Typed
    <3>3. Between
      BY <1>2, <1>3, <3>1, <3>2 DEF Between
    <3>4. sockets[t].client = "unused"
      BY <2>1 DEF NextSocket, Unused
    <3>5. sockets[s].client # "unused"
      BY DEF ClientSeesClose
    <3> QED BY <3>1, <3>2, <3>3, <3>4, <3>5, Bounds
  <2>2. ASSUME client' = Disconnected(client), sockets' = [sockets EXCEPT ![s] = Closed(sockets[s])]
        PROVE  client' \in ClientType /\ Between /\ client'.ws = 0
    <3>1. PICK c : c = client'
      OBVIOUS
    <3>2. /\ c \in ClientType /\ c.ws = 0 /\ c.id = 0 /\ c.connected = FALSE
          /\ c.lastSeen = client.lastSeen /\ c.pending = Position(client) /\ c.destroyed = client.destroyed
      BY <1>1, <2>2, <3>1, DisconnectedFields DEF Typed
    <3> QED BY <1>2, <1>3, <3>1, <3>2 DEF Between
  <2>3. \/ \E t \in Sockets :
             /\ NextSocket(t) /\ client' = Reconnecting(client, t)
             /\ sockets' = [sockets EXCEPT ![s] = Closed(sockets[s]), ![t].client = "connecting"]
        \/ client' = Disconnected(client) /\ sockets' = [sockets EXCEPT ![s] = Closed(sockets[s])]
    BY DEF ClientSeesClose
  <2>4. CASE \E t \in Sockets :
               /\ NextSocket(t) /\ client' = Reconnecting(client, t)
               /\ sockets' = [sockets EXCEPT ![s] = Closed(sockets[s]), ![t].client = "connecting"]
    BY <2>1, <2>4
  <2>5. CASE client' = Disconnected(client) /\ sockets' = [sockets EXCEPT ![s] = Closed(sockets[s])]
    <3>1. 0 \in 0 .. MaxSockets
      BY Bounds
    <3> QED BY <2>2, <2>5, <3>1
  <2> QED BY <2>3, <2>4, <2>5
<1>5. /\ sockets' \in [Sockets -> SocketType]
      /\ \A t \in Sockets : t # s /\ t # w => sockets'[t] = sockets[t]
      /\ sockets'[s].client = "closed" /\ sockets'[s].down = <<>>
      /\ w # 0 => sockets'[w].client = "connecting" /\ sockets'[w].down = sockets[w].down
      /\ \A t \in Sockets : /\ sockets'[t].server = sockets[t].server /\ sockets'[t].conn = sockets[t].conn
                            /\ sockets'[t].seqAck = sockets[t].seqAck
  <2>1. sockets \in [Sockets -> SocketType] /\ <<>> \in Seq(Messages)
    BY <1>1 DEF Typed
  <2>2. PICK r : r = [sockets[s] EXCEPT !.client = "closed", !.down = <<>>]
    OBVIOUS
  <2>3. /\ r.client = "closed" /\ r.server = sockets[s].server /\ r.conn = sockets[s].conn
        /\ r.seqAck = sockets[s].seqAck /\ r.down = <<>> /\ r \in SocketType
    BY <2>1, <2>2 DEF SocketType
  <2>4. CASE w = 0
    <3>1. sockets' = [sockets EXCEPT ![s] = r]
      BY <1>4, <2>2, <2>4 DEF Closed
    <3> QED BY <2>1, <2>3, <2>4, <3>1
  <2>5. CASE w # 0
    <3>1. w \in Sockets /\ w # s
      BY <1>4, <2>5, Bounds
    <3>2. PICK x : x = [sockets[w] EXCEPT !.client = "connecting"]
      OBVIOUS
    <3>3. /\ x.client = "connecting" /\ x.server = sockets[w].server /\ x.conn = sockets[w].conn
          /\ x.seqAck = sockets[w].seqAck /\ x.down = sockets[w].down /\ x \in SocketType
      BY <2>1, <3>1, <3>2 DEF SocketType
    <3>4. sockets' = [sockets EXCEPT ![s] = r, ![w] = x]
      BY <1>4, <2>2, <2>5, <3>1, <3>2 DEF Closed
    <3> QED BY <2>1, <2>3, <3>1, <3>3, <3>4
  <2> QED BY <2>4, <2>5
<1>6. TypeOK'
  BY <1>1, <1>2, <1>4, <1>5, Types, NextShape DEF Shape
<1>7. Position(client)' = Position(client)
  BY <1>4 DEF Between, Position
<1>8. Apart
  BY <1>2, <1>5, <1>7 DEF Apart
<1>9. /\ AttachedOnce' /\ PositionInv' /\ SeqAckInv' /\ (view <= published)'
      /\ \A c \in Ids : (Issued(c)' <=> Issued(c)) /\ (Present(c)' <=> Present(c))
  BY <1>1, <1>8, ApartKeeps
<1>10. ClientInv'
  BY <1>1, <1>3, <1>4, <1>9, BetweenKeeps
<1>11. w # 0 => w \in Sockets /\ sockets[w].server = "none" /\ sockets[w].down = <<>>
  BY <1>1, <1>4, Bounds DEF SocketsInv
<1>12. SocketsInv'
  <2>1. ASSUME NEW t \in Sockets
        PROVE  /\ t # w => sockets'[t].client \in {"unused", "closed"} /\ sockets'[t].down = <<>>
               /\ t = w => sockets'[t].client \in {"connecting", "open", "closing"}
               /\ sockets'[t].client \in {"unused", "connecting"} => sockets'[t].server = "none"
               /\ sockets'[t].server \notin {"attached", "closed"} =>
                    sockets'[t].down = <<>> /\ sockets'[t].seqAck = 0
               /\ sockets'[t].server = "attached" => sockets'[t].conn # 0
    <3>1. CASE t # s /\ t # w
      BY <1>1, <1>2, <1>5, <3>1 DEF SocketsInv
    <3>2. CASE t = s
      BY <1>1, <1>2, <1>4, <1>5, <3>2, Bounds DEF SocketsInv
    <3>3. CASE t = w
      BY <1>1, <1>4, <1>5, <1>11, <3>3, Bounds DEF SocketsInv
    <3> QED BY <3>1, <3>2, <3>3
  <2> QED BY <1>1, <1>4, <1>9, <2>1 DEF SocketsInv
<1>13. FlowInv' /\ HelloInv'
  BY <1>4, <1>5, <1>11, SilentKeeps DEF Between
<1> QED BY <1>6, <1>9, <1>10, <1>12, <1>13 DEF IInv

LEMMA ClosedSocket ==
  ASSUME NEW x \in SocketType, NEW r, r = [x EXCEPT !.client = "closed", !.down = <<>>]
  PROVE  /\ r.client = "closed" /\ r.server = x.server /\ r.conn = x.conn /\ r.seqAck = x.seqAck
         /\ r.down = <<>> /\ r \in SocketType
<1>1. <<>> \in Seq(Messages)
  OBVIOUS
<1> QED BY <1>1 DEF SocketType

LEMMA ConnectAsKeeps ==
  ASSUME IInv, ~client.connected, ~client.destroyed,
         NEW c \in ClientType, c.ws = client.ws, c.id = client.id, c.connected = client.connected,
         c.lastSeen = client.lastSeen, c.destroyed = client.destroyed, c.pending = Position(client),
         ConnectAs(c), conns' = conns, server' = server, published' = published, view' = view,
         refreshes' = refreshes, mishaps' \in Nat
  PROVE  IInv'
<1>1. /\ TypeOK /\ AttachedOnce /\ SocketsInv /\ ClientInv /\ HelloInv /\ FlowInv /\ PositionInv /\ SeqAckInv
      /\ view <= published /\ Typed
  BY StateTypes DEF IInv
<1>2. PICK w \in Sockets :
        /\ NextSocket(w)
        /\ client' = [c EXCEPT !.ws = w, !.ready = TRUE, !.retry = FALSE]
        /\ sockets' = [t \in Sockets |-> IF t = w THEN [sockets[t] EXCEPT !.client = "connecting"]
                                         ELSE IF t = c.ws THEN Closed(sockets[t])
                                         ELSE sockets[t]]
  BY DEF ConnectAs
<1>3. /\ client' \in ClientType /\ client'.ws = w /\ client'.id = client.id
      /\ client'.connected = client.connected /\ client'.lastSeen = client.lastSeen
      /\ client'.destroyed = client.destroyed /\ client'.pending = Position(client)
      /\ client'.retry = FALSE
  <2>1. PICK f \in BOOLEAN : f = FALSE
    OBVIOUS
  <2>2. PICK g \in BOOLEAN : g = TRUE
    OBVIOUS
  <2>3. w \in 0 .. MaxSockets
    BY Bounds
  <2>4. PICK d : d = client'
    OBVIOUS
  <2>5. d = [c EXCEPT !.ws = w, !.ready = g, !.retry = f]
    BY <1>2, <2>1, <2>2, <2>4
  <2>6. /\ d \in ClientType /\ d.ws = w /\ d.id = c.id /\ d.connected = c.connected
        /\ d.lastSeen = c.lastSeen /\ d.destroyed = c.destroyed /\ d.pending = c.pending /\ d.retry = f
    BY <2>3, <2>5 DEF ClientType
  <2> QED BY <2>1, <2>4, <2>6
<1>4. client.id = 0 /\ client.connected = FALSE
  BY <1>1 DEF ClientInv, Typed, ClientType
<1>5. Between
  BY <1>3, <1>4 DEF Between
<1>6. /\ sockets[w].client = "unused" /\ w # client.ws /\ w # 0
      /\ sockets[w].server = "none" /\ sockets[w].down = <<>>
  <2>1. sockets[w].client = "unused"
    BY <1>2 DEF NextSocket, Unused
  <2> QED BY <1>1, <2>1, Bounds DEF SocketsInv
<1>7. ASSUME NEW t \in Sockets
      PROVE  /\ sockets'[t] \in SocketType
             /\ sockets'[t].server = sockets[t].server /\ sockets'[t].conn = sockets[t].conn
             /\ sockets'[t].seqAck = sockets[t].seqAck
             /\ t = w => sockets'[t].client = "connecting" /\ sockets'[t].down = <<>>
             /\ t = client.ws => sockets'[t].client = "closed" /\ sockets'[t].down = <<>>
             /\ t # w /\ t # client.ws => sockets'[t] = sockets[t]
  <2>1. sockets[t] \in SocketType
    BY <1>1 DEF Typed
  <2>2. CASE t = w
    <3>1. PICK r : r = [sockets[t] EXCEPT !.client = "connecting"]
      OBVIOUS
    <3>2. /\ r \in SocketType /\ r.server = sockets[t].server /\ r.conn = sockets[t].conn
          /\ r.seqAck = sockets[t].seqAck /\ r.client = "connecting" /\ r.down = sockets[t].down
      BY <2>1, <3>1 DEF SocketType
    <3>3. sockets'[t] = r
      BY <1>2, <2>2, <3>1
    <3> QED BY <1>6, <2>2, <3>2, <3>3
  <2>3. CASE t = client.ws
    <3>1. PICK r : r = [sockets[t] EXCEPT !.client = "closed", !.down = <<>>]
      OBVIOUS
    <3>2. /\ r \in SocketType /\ r.server = sockets[t].server /\ r.conn = sockets[t].conn
          /\ r.seqAck = sockets[t].seqAck /\ r.client = "closed" /\ r.down = <<>>
      BY <2>1, <3>1, ClosedSocket
    <3>3. sockets'[t] = r
      BY <1>2, <1>6, <2>3, <3>1 DEF Closed
    <3> QED BY <1>6, <2>3, <3>2, <3>3
  <2>4. CASE t # w /\ t # client.ws
    <3>1. sockets'[t] = sockets[t]
      BY <1>2, <2>4
    <3> QED BY <2>1, <2>4, <3>1
  <2> QED BY <2>2, <2>3, <2>4
<1>8. sockets' \in [Sockets -> SocketType]
  <2>1. sockets' = [t \in Sockets |-> sockets'[t]]
    BY <1>2
  <2> QED BY <1>7, <2>1
<1>9. TypeOK'
  BY <1>1, <1>3, <1>8, Types, NextShape DEF Shape
<1>10. Position(client)' = Position(client)
  BY <1>5 DEF Between, Position
<1>11. Apart
  BY <1>7, <1>10 DEF Apart
<1>12. /\ AttachedOnce' /\ PositionInv' /\ SeqAckInv' /\ (view <= published)'
       /\ \A k \in Ids : (Issued(k)' <=> Issued(k)) /\ (Present(k)' <=> Present(k))
  BY <1>1, <1>11, ApartKeeps
<1>13. ClientInv'
  BY <1>1, <1>5, <1>12, BetweenKeeps
<1>14. SocketsInv'
  <2>1. ASSUME NEW t \in Sockets
        PROVE  /\ t # w => sockets'[t].client \in {"unused", "closed"} /\ sockets'[t].down = <<>>
               /\ t = w => sockets'[t].client \in {"connecting", "open", "closing"}
               /\ sockets'[t].client \in {"unused", "connecting"} => sockets'[t].server = "none"
               /\ sockets'[t].server \notin {"attached", "closed"} =>
                    sockets'[t].down = <<>> /\ sockets'[t].seqAck = 0
               /\ sockets'[t].server = "attached" => sockets'[t].conn # 0
    BY <1>1, <1>6, <1>7 DEF SocketsInv
  <2> QED BY <1>1, <1>3, <1>12, <2>1 DEF SocketsInv
<1>15. FlowInv' /\ HelloInv'
  <2>1. w \in 0 .. MaxSockets /\ sockets'[w].down = <<>> /\ sockets'[w].server = "none"
    BY <1>6, <1>7, Bounds
  <2> QED BY <1>3, <1>4, <2>1, SilentKeeps
<1> QED BY <1>9, <1>12, <1>13, <1>14, <1>15 DEF IInv

LEMMA InvokeKeeps == ASSUME IInv, Invoke PROVE IInv'
<1>1. ClientInv /\ client \in ClientType /\ mishaps \in Nat
  BY Types DEF IInv, Shape
<1>2. ~client.connected /\ ~client.destroyed /\ ConnectAs(client)
  BY DEF Invoke
<1>3. Position(client) = client.pending
  BY <1>1, <1>2 DEF ClientInv, Position
<1> QED BY <1>1, <1>2, <1>3, ConnectAsKeeps DEF Invoke

LEMMA RetryFiresKeeps == ASSUME IInv, RetryFires PROVE IInv'
<1>1. ClientInv /\ client \in ClientType /\ mishaps \in Nat
  BY Types DEF IInv, Shape
<1>2. ~client.connected /\ ~client.destroyed /\ ConnectAs(client)
  BY <1>1 DEF RetryFires, ClientInv
<1>3. Position(client) = client.pending
  BY <1>1, <1>2 DEF ClientInv, Position
<1> QED BY <1>1, <1>2, <1>3, ConnectAsKeeps DEF RetryFires

LEMMA ReconnectNowKeeps == ASSUME IInv, ReconnectNow PROVE IInv'
<1>1. ClientInv /\ client \in ClientType /\ mishaps \in Nat
  BY Types DEF IInv, Shape
<1>2. /\ ~client.destroyed /\ conns' = conns /\ server' = server /\ published' = published
      /\ view' = view /\ refreshes' = refreshes /\ mishaps' = mishaps + 1
  BY DEF ReconnectNow, Mishap
<1>3. PICK p : p = Position(client)
  OBVIOUS
<1>4. p \in [id : 0 .. MaxSockets, lastSeq : Nat]
  BY <1>1, <1>3, PositionType
<1>5. CASE client.ws = 0 /\ ConnectAs([client EXCEPT !.pending = Position(client)])
  <2>1. PICK c : c = [client EXCEPT !.pending = p]
    OBVIOUS
  <2>2. /\ c \in ClientType /\ c.ws = client.ws /\ c.id = client.id /\ c.connected = client.connected
        /\ c.lastSeen = client.lastSeen /\ c.destroyed = client.destroyed /\ c.pending = p
    BY <1>1, <1>4, <2>1 DEF ClientType
  <2>3. ConnectAs(c)
    BY <1>3, <1>5, <2>1
  <2>4. ~client.connected /\ mishaps' \in Nat
    BY <1>1, <1>2, <1>5 DEF ClientInv
  <2> QED BY <1>2, <1>3, <2>2, <2>3, <2>4, ConnectAsKeeps
<1>6. CASE /\ client.ws # 0
           /\ client' = [client EXCEPT !.pending = Position(client), !.manual = TRUE, !.retry = FALSE]
           /\ sockets' = [sockets EXCEPT ![client.ws].client = "closing"]
  <2>1. client.ws \in 0 .. MaxSockets
    BY <1>1 DEF ClientType
  <2>2. PICK s \in Sockets : s = client.ws
    BY <1>6, <2>1, Bounds
  <2>3. PICK f \in BOOLEAN : f = FALSE
    OBVIOUS
  <2>4. PICK g \in BOOLEAN : g = TRUE
    OBVIOUS
  <2>5. client' = [client EXCEPT !.pending = p, !.manual = g, !.retry = f]
    BY <1>3, <1>6, <2>3, <2>4
  <2>6. /\ client' \in ClientType /\ client'.ws = client.ws /\ client'.id = client.id
        /\ client'.connected = client.connected /\ client'.lastSeen = client.lastSeen
        /\ client'.asking = client.asking /\ client'.destroyed = client.destroyed
        /\ client'.retry = f /\ client'.pending = p
    BY <1>1, <1>4, <2>5 DEF ClientType
  <2>7. sockets' = [sockets EXCEPT ![s].client = "closing"] /\ mishaps' \in Nat
    BY <1>1, <1>2, <1>6, <2>2
  <2> QED BY <1>2, <1>3, <2>2, <2>3, <2>6, <2>7, ClosingKeeps
<1> QED BY <1>5, <1>6 DEF ReconnectNow

LEMMA DestroyKeeps == ASSUME IInv, Destroy PROVE IInv'
<1>1. /\ TypeOK /\ AttachedOnce /\ SocketsInv /\ ClientInv /\ HelloInv /\ FlowInv /\ PositionInv /\ SeqAckInv
      /\ view <= published /\ Typed
  BY StateTypes DEF IInv
<1>2. /\ ~client.destroyed /\ conns' = conns /\ server' = server /\ published' = published
      /\ view' = view /\ refreshes' = refreshes /\ mishaps' = mishaps + 1
  BY DEF Destroy, Mishap
<1>3. /\ client' \in ClientType /\ client'.ws = 0 /\ client'.id = client.id
      /\ client'.connected = FALSE /\ client'.lastSeen = client.lastSeen
      /\ client'.destroyed = TRUE /\ client'.pending = NoReconnect /\ client'.retry = FALSE
  <2>1. PICK f \in BOOLEAN : f = FALSE
    OBVIOUS
  <2>2. PICK g \in BOOLEAN : g = TRUE
    OBVIOUS
  <2>3. PICK z \in 0 .. MaxSockets : z = 0
    BY Bounds
  <2>4. PICK p \in [id : 0 .. MaxSockets, lastSeq : Nat] : p = NoReconnect
    <3>1. NoReconnect \in [id : 0 .. MaxSockets, lastSeq : Nat]
      BY Bounds DEF NoReconnect
    <3> QED BY <3>1
  <2>5. client \in ClientType
    BY <1>1 DEF Typed
  <2>6. PICK x : x = [client EXCEPT !.destroyed = g, !.retry = f, !.manual = f, !.asking = f]
    OBVIOUS
  <2>7. /\ x \in ClientType /\ x.id = client.id /\ x.lastSeen = client.lastSeen
        /\ x.destroyed = g /\ x.retry = f
    BY <2>5, <2>6 DEF ClientType
  <2>8. client' = [x EXCEPT !.pending = p, !.ready = f, !.ws = z, !.connected = f]
    BY <2>1, <2>2, <2>3, <2>4, <2>6 DEF Destroy
  <2>9. /\ client' \in ClientType /\ client'.id = x.id /\ client'.lastSeen = x.lastSeen
        /\ client'.destroyed = x.destroyed /\ client'.retry = x.retry
        /\ client'.pending = p /\ client'.ws = z /\ client'.connected = f
    BY <2>7, <2>8 DEF ClientType
  <2> QED BY <2>1, <2>2, <2>3, <2>4, <2>7, <2>9
<1>4. ASSUME NEW t \in Sockets
      PROVE  /\ sockets'[t] \in SocketType
             /\ sockets'[t].server = sockets[t].server /\ sockets'[t].conn = sockets[t].conn
             /\ sockets'[t].seqAck = sockets[t].seqAck
             /\ t = client.ws => sockets'[t].client = "closed" /\ sockets'[t].down = <<>>
             /\ t # client.ws => sockets'[t] = sockets[t]
  <2>1. sockets[t] \in SocketType
    BY <1>1 DEF Typed
  <2>2. CASE t = client.ws
    <3>1. PICK r : r = [sockets[t] EXCEPT !.client = "closed", !.down = <<>>]
      OBVIOUS
    <3>2. /\ r \in SocketType /\ r.server = sockets[t].server /\ r.conn = sockets[t].conn
          /\ r.seqAck = sockets[t].seqAck /\ r.client = "closed" /\ r.down = <<>>
      BY <2>1, <3>1, ClosedSocket
    <3>3. sockets'[t] = r
      BY <2>2, <3>1 DEF Destroy, Closed
    <3> QED BY <2>2, <3>2, <3>3
  <2>3. CASE t # client.ws
    <3>1. sockets'[t] = sockets[t]
      BY <2>3 DEF Destroy
    <3> QED BY <2>1, <2>3, <3>1
  <2> QED BY <2>2, <2>3
<1>5. sockets' \in [Sockets -> SocketType]
  <2>1. sockets' = [t \in Sockets |-> sockets'[t]]
    BY DEF Destroy
  <2> QED BY <1>4, <2>1
<1>6. TypeOK'
  BY <1>1, <1>2, <1>3, <1>5, Types, NextShape DEF Shape
<1>7. client.id # 0 => Position(client)' = Position(client)
  BY <1>3 DEF Position
<1>8. client.id = 0 => Position(client)'.id = 0 /\ Position(client)' = NoReconnect
  BY <1>3 DEF Position, NoReconnect
<1>9. Apart
  BY <1>2, <1>4, <1>7, <1>8 DEF Apart
<1>10. /\ AttachedOnce' /\ PositionInv' /\ SeqAckInv' /\ (view <= published)'
       /\ \A c \in Ids : (Issued(c)' <=> Issued(c)) /\ (Present(c)' <=> Present(c))
  BY <1>1, <1>9, ApartKeeps
<1>11. ClientInv'
  <2>1. Position(client).id # 0 => Position(client).id \in Ids
    BY <1>1, Bounds DEF Typed, Position
  <2>2. Position(client).id # 0 => sockets'[Position(client).id].server \in {"attached", "closed"}
    BY <1>1, <1>10, <2>1 DEF ClientInv, Issued
  <2>3. Position(client)'.id # 0 => sockets'[Position(client)'.id].server \in {"attached", "closed"}
    BY <1>7, <1>8, <2>2
  <2>4. NoReconnect.id = 0
    BY DEF NoReconnect
  <2> QED BY <1>3, <2>3, <2>4, Zenon DEF ClientInv, Issued
<1>12. SocketsInv'
  <2>1. ASSUME NEW t \in Sockets
        PROVE  /\ sockets'[t].client \in {"unused", "closed"} /\ sockets'[t].down = <<>>
               /\ sockets'[t].client \in {"unused", "connecting"} => sockets'[t].server = "none"
               /\ sockets'[t].server \notin {"attached", "closed"} =>
                    sockets'[t].down = <<>> /\ sockets'[t].seqAck = 0
               /\ sockets'[t].server = "attached" => sockets'[t].conn # 0
    BY <1>1, <1>4 DEF SocketsInv
  <2>2. \A t \in Sockets : t # 0
    BY Bounds
  <2> QED BY <1>1, <1>3, <1>10, <2>1, <2>2 DEF SocketsInv
<1>13. FlowInv' /\ HelloInv'
  <2>1. 0 \in 0 .. MaxSockets
    BY Bounds
  <2> QED BY <1>3, <2>1, SilentKeeps
<1> QED BY <1>6, <1>10, <1>11, <1>12, <1>13 DEF IInv

LEMMA Tails ==
  ASSUME NEW S, NEW q \in Seq(S), q # <<>>, NEW d, d = Tail(q)
  PROVE  /\ d \in Seq(S) /\ Len(d) + 1 = Len(q) /\ Len(d) \in Nat /\ q[1] \in S /\ Head(q) = q[1]
         /\ \A i \in 1 .. Len(d) : i + 1 \in 1 .. Len(q) /\ d[i] = q[i + 1]
  OBVIOUS

(* The first message on its way is taken off. *)
Takes(s) ==
  /\ sockets' \in [Sockets -> SocketType]
  /\ \A t \in Sockets : t # s => sockets'[t] = sockets[t]
  /\ \A t \in Sockets : /\ sockets'[t].client = sockets[t].client /\ sockets'[t].server = sockets[t].server
                        /\ sockets'[t].link = sockets[t].link /\ sockets'[t].conn = sockets[t].conn
                        /\ sockets'[t].hello = sockets[t].hello /\ sockets'[t].seqAck = sockets[t].seqAck
  /\ sockets'[s].down = Tail(sockets[s].down)
  /\ conns' = conns /\ server' = server /\ published' = published /\ mishaps' = mishaps
  /\ client'.ws = client.ws /\ client' \in ClientType

LEMMA ReceivesTakes ==
  ASSUME IInv, NEW s \in Sockets, ClientReceives(s), client'.ws = client.ws, client' \in ClientType
  PROVE  Takes(s)
<1>1. sockets \in [Sockets -> SocketType] /\ sockets[s].down # <<>>
  BY Types DEF IInv, Shape, ClientReceives
<1>2. PICK d : d = Tail(sockets[s].down)
  OBVIOUS
<1>3. sockets[s].down \in Seq(Messages)
  BY <1>1 DEF SocketType
<1>4. d \in Seq(Messages)
  BY <1>1, <1>2, <1>3, Tails
<1>5. PICK r : r = [sockets[s] EXCEPT !.down = d]
  OBVIOUS
<1>6. /\ r.client = sockets[s].client /\ r.server = sockets[s].server /\ r.link = sockets[s].link
      /\ r.conn = sockets[s].conn /\ r.hello = sockets[s].hello /\ r.seqAck = sockets[s].seqAck
      /\ r.down = d /\ r \in SocketType
  BY <1>1, <1>4, <1>5 DEF SocketType
<1>7. sockets' = [sockets EXCEPT ![s] = r]
  BY <1>2, <1>5 DEF ClientReceives
<1>8. conns' = conns /\ server' = server /\ published' = published /\ mishaps' = mishaps
  BY DEF ClientReceives
<1> QED BY <1>1, <1>2, <1>6, <1>7, <1>8 DEF Takes

LEMMA TakesKeeps ==
  ASSUME IInv, NEW s \in Sockets, s = client.ws, sockets[s].down # <<>>, Takes(s),
         view' \in Nat, refreshes' \in Nat
  PROVE  /\ TypeOK' /\ AttachedOnce' /\ SocketsInv' /\ Issued(s) /\ s # 0
         /\ \A c \in Ids : /\ (Issued(c)' <=> Issued(c)) /\ (Present(c)' <=> Present(c))
                           /\ (Unacked(c)' <=> Unacked(c))
         /\ Reaches(s)' <=> Reaches(s)
         /\ Numbered(s, sockets[s].down)'
<1>1. /\ TypeOK /\ AttachedOnce /\ SocketsInv /\ ClientInv /\ HelloInv /\ FlowInv /\ PositionInv /\ SeqAckInv
      /\ view <= published /\ Typed
  BY StateTypes DEF IInv
<1>2. s # 0 /\ Issued(s)
  BY <1>1, Bounds DEF SocketsInv, Issued
<1>3. TypeOK'
  BY <1>1, Types, NextShape DEF Shape, Takes
<1>4. AttachedOnce'
  BY <1>1 DEF AttachedOnce, Takes
<1>5. \A c \in Ids : (Issued(c)' <=> Issued(c)) /\ (Present(c)' <=> Present(c))
  BY DEF Issued, Present, Ids, Takes
<1>6. SocketsInv'
  <2>1. \A t \in Sockets :
          /\ t # client.ws => sockets'[t].client \in {"unused", "closed"} /\ sockets'[t].down = <<>>
          /\ t = client.ws => sockets'[t].client \in {"connecting", "open", "closing"}
          /\ sockets'[t].client \in {"unused", "connecting"} => sockets'[t].server = "none"
          /\ sockets'[t].server \notin {"attached", "closed"} =>
               sockets'[t].down = <<>> /\ sockets'[t].seqAck = 0
          /\ sockets'[t].server = "attached" => sockets'[t].conn # 0
    BY <1>1, <1>2 DEF SocketsInv, Issued, Takes
  <2> QED BY <1>1, <1>5, <2>1 DEF SocketsInv, Takes
<1>7. \A c \in Ids : Unacked(c)' <=> Unacked(c)
  BY DEF Unacked, Takes
<1>8. Reaches(s)' <=> Reaches(s)
  BY DEF Reaches, Arrives, Takes
<1>9. Numbered(s, sockets[s].down)'
  <2>1. PICK q : q = sockets[s].down
    OBVIOUS
  <2>2. PICK d : d = sockets'[s].down
    OBVIOUS
  <2>3. q \in Seq(Messages) /\ q # <<>> /\ d = Tail(q)
    BY <1>1, <2>1, <2>2 DEF Typed, Takes
  <2>4. \A i \in 1 .. Len(d) : i + 1 \in 1 .. Len(q) /\ d[i] = q[i + 1]
    BY <2>3, Tails
  <2>5. Numbered(s, q)
    BY <1>1, <2>1 DEF FlowInv
  <2>6. ASSUME NEW i \in 1 .. Len(d), d[i].kind = "event"
        PROVE  /\ sockets'[s].conn # 0 /\ Issued(sockets[s].conn)'
               /\ Present(sockets[s].conn)' => d[i].ev + conns'[sockets'[s].conn].sent = d[i].seq + published'
    <3>1. PICK j \in 1 .. Len(q) : j = i + 1 /\ d[i] = q[j]
      BY <2>4
    <3>2. /\ sockets[s].conn # 0 /\ Issued(sockets[s].conn)
          /\ Present(sockets[s].conn) => q[j].ev + conns[sockets[s].conn].sent = q[j].seq + published
      BY <2>5, <2>6, <3>1 DEF Numbered
    <3>3. sockets[s].conn \in Ids
      BY <1>1, <3>2, Bounds DEF Typed
    <3>4. sockets'[s].conn = sockets[s].conn /\ conns' = conns /\ published' = published
      BY DEF Takes
    <3> QED BY <1>5, <3>1, <3>2, <3>3, <3>4
  <2>7. Numbered(s, d)'
    BY <2>6 DEF Numbered, Present, Issued
  <2> QED BY <2>2, <2>7
<1> QED BY <1>2, <1>3, <1>4, <1>5, <1>6, <1>7, <1>8, <1>9

(* What follows the first message still follows when it is taken off. *)
LEMMA TailFollows ==
  ASSUME NEW s \in Sockets, NEW q \in Seq(Messages), q # <<>>, NEW d, d = Tail(q),
         NEW k \in {0, 1}, NEW n \in Nat, NEW n2 \in Nat, n2 + k = n + 1,
         published \in Nat, published' = published,
         Follows(s, q, k, n), Reaches(s)' => Reaches(s)
  PROVE  Follows(s, d, 0, n2)'
<1>1. /\ Len(d) + 1 = Len(q) /\ Len(d) \in Nat
      /\ \A i \in 1 .. Len(d) : i + 1 \in 1 .. Len(q) /\ d[i] = q[i + 1]
  BY Tails
<1>2. ASSUME NEW i \in 1 .. Len(d) PROVE d[i].kind = "event" /\ d[i].ev + 0 = n2 + i
  <2>1. i \in Nat
    BY <1>1
  <2>2. PICK j \in k + 1 .. Len(q) : j = i + 1
    BY <1>1, <2>1
  <2>3. q[j].kind = "event" /\ q[j].ev + k = n + j /\ d[i] = q[j]
    BY <1>1, <2>2 DEF Follows
  <2>4. q[j] \in Messages
    BY <1>1, <2>2
  <2>5. PICK e \in Nat : e = q[j].ev
    BY <2>4 DEF Messages
  <2>6. e + k = n + j
    BY <2>3, <2>5
  <2>7. e + 0 = n2 + i
    BY <2>1, <2>2, <2>6
  <2> QED BY <2>3, <2>5, <2>7
<1>3. PICK e \in Nat : e = Len(d)
  BY <1>1
<1>4. PICK f \in Nat : f = e + 1
  BY <1>3
<1>5. f = Len(q)
  BY <1>1, <1>3, <1>4
<1>6. n + f <= published + k /\ (Reaches(s) => n + f = published + k)
  BY <1>5 DEF Follows
<1>7. k \in Nat /\ n2 + e <= published /\ (Reaches(s) => n2 + e = published)
  BY <1>4, <1>6
<1>8. n2 + Len(d) <= published + 0 /\ (Reaches(s) => n2 + Len(d) = published + 0)
  BY <1>3, <1>7
<1>9. ASSUME NEW i \in 0 + 1 .. Len(d) PROVE d[i].kind = "event" /\ d[i].ev + 0 = n2 + i
  BY <1>2
<1>10. (n2 + Len(d) <= published' + 0) /\ (Reaches(s)' => n2 + Len(d) = published' + 0)
  BY <1>8
<1> QED BY <1>9, <1>10 DEF Follows


LEMMA OnEventKeeps ==
  ASSUME IInv, NEW s \in Sockets, ClientReceives(s), NEW m, m = Head(sockets[s].down),
         m.kind = "event", OnEvent(m)
  PROVE  IInv'
<1>1. /\ TypeOK /\ AttachedOnce /\ SocketsInv /\ ClientInv /\ HelloInv /\ FlowInv /\ PositionInv /\ SeqAckInv
      /\ view <= published /\ Typed
  BY StateTypes DEF IInv
<1>2. PICK q : q = sockets[s].down
  OBVIOUS
<1>3. q \in Seq(Messages) /\ q # <<>> /\ s = client.ws
  BY <1>1, <1>2 DEF Typed, ClientReceives
<1>4. m = q[1] /\ m \in Messages /\ 1 \in 1 .. Len(q)
  BY <1>2, <1>3
<1>5. PICK e \in Nat, n \in Nat, l \in BOOLEAN : e = m.ev /\ n = m.seq /\ l = m.last
  BY <1>4 DEF Messages
<1>6. client.connected
  <2>1. ~client.connected => Before(s, q)
    BY <1>1, <1>2, <1>3 DEF FlowInv
  <2> QED BY <2>1, <1>3, <1>4 DEF Before
<1>7. Follows(s, q, 0, view) /\ Numbered(s, q)
  BY <1>1, <1>2, <1>3, <1>6 DEF FlowInv
<1>8. e = view + 1 /\ e <= published
  <2>1. PICK k \in Nat : k = Len(q) /\ k >= 1
    BY <1>3
  <2>2. view + k <= published
    BY <2>1, <1>1, <1>7 DEF Follows, Typed
  <2>3. m.ev + 0 = view + 1
    BY <1>4, <1>7 DEF Follows
  <2> QED BY <1>1, <1>5, <2>1, <2>2, <2>3 DEF Typed
<1>9. /\ client.id # 0 /\ client.id \in Ids /\ ~client.destroyed /\ Issued(client.id)
      /\ sockets[s].conn = client.id /\ Issued(s) /\ sockets[s].client # "connecting"
      /\ Position(client).id = client.id /\ Position(client).lastSeq = client.lastSeen
  <2>1. client.id # 0 /\ ~client.destroyed
    BY <1>1, <1>6 DEF ClientInv
  <2>2. Position(client).id = client.id /\ Position(client).lastSeq = client.lastSeen
    BY <2>1 DEF Position
  <2> QED BY <1>1, <1>3, <1>6, <2>1, <2>2, Bounds DEF ClientInv, Typed
<1>10. Present(client.id) => e + conns[client.id].sent = n + published
  BY <1>4, <1>5, <1>7, <1>9 DEF Numbered
<1>11. Present(client.id) =>
         /\ n + published = e + conns[client.id].sent
         /\ client.lastSeen <= n /\ conns[client.id].acked <= n
  <2>1. PICK t \in Nat, a \in Nat : t = conns[client.id].sent /\ a = conns[client.id].acked
    BY <1>1, <1>9 DEF Typed
  <2>2. Present(client.id) => client.lastSeen + published <= view + t /\ a <= client.lastSeen
    BY <1>1, <1>9, <2>1 DEF PositionInv
  <2>3. client.lastSeen \in Nat /\ published \in Nat /\ view \in Nat
    BY <1>1 DEF Typed
  <2> QED BY <1>5, <1>8, <1>10, <2>1, <2>2, <2>3
<1>12. /\ client' \in ClientType /\ client'.ws = client.ws /\ client'.id = client.id
       /\ client'.connected = client.connected /\ client'.lastSeen = n
       /\ client'.pending = client.pending /\ client'.asking = client.asking
       /\ client'.retry = client.retry /\ client'.destroyed = client.destroyed
  <2>1. PICK b \in BOOLEAN : b = (client.closed \/ l)
    OBVIOUS
  <2>2. client' = [client EXCEPT !.lastSeen = n, !.closed = b]
    BY <1>5, <2>1 DEF OnEvent
  <2>3. client \in ClientType
    BY <1>1 DEF Typed
  <2> QED BY <1>5, <2>2, <2>3 DEF ClientType
<1>13. view' = e /\ refreshes' = refreshes /\ published' = published /\ conns' = conns
  BY <1>5 DEF OnEvent, ClientReceives
<1>14. Takes(s)
  BY <1>12, ReceivesTakes
<1>15. /\ TypeOK' /\ AttachedOnce' /\ SocketsInv' /\ (Reaches(s)' <=> Reaches(s))
       /\ Numbered(s, sockets[s].down)'
       /\ \A c \in Ids : (Issued(c)' <=> Issued(c)) /\ (Present(c)' <=> Present(c))
  <2>1. view' \in Nat /\ refreshes' \in Nat
    BY <1>1, <1>5, <1>13 DEF Typed
  <2> QED BY <1>2, <1>3, <1>14, <2>1, TakesKeeps
<1>16. Position(client)'.id = client.id /\ Position(client)'.lastSeq = n
  BY <1>9, <1>12 DEF Position
<1>17. ClientInv'
  <2>1. client'.connected /\ ~client'.destroyed /\ client'.ws = s /\ s # 0 /\ client'.id = client.id
        /\ client'.id # 0
    BY <1>3, <1>6, <1>9, <1>12, Bounds
  <2>2. /\ sockets'[s].server \in {"attached", "closed"} /\ sockets'[s].conn = client.id
        /\ sockets'[s].client # "connecting" /\ sockets'[client.id].server \in {"attached", "closed"}
    BY <1>9, <1>14 DEF Takes, Issued, Ids
  <2>3. ~client'.retry /\ (client'.pending.id = 0 => client'.pending = NoReconnect)
    BY <1>1, <1>3, <1>12, Bounds DEF ClientInv
  <2> QED BY <1>16, <2>1, <2>2, <2>3, Zenon DEF ClientInv, Issued
<1>18. HelloInv'
  BY <1>6, <1>12 DEF HelloInv
<1>19. FlowInv'
  <2>1. PICK d : d = sockets'[s].down
    OBVIOUS
  <2>2. d = Tail(q)
    BY <1>2, <1>14, <2>1 DEF Takes
  <2>3. PICK k \in {0, 1} : k = 0
    OBVIOUS
  <2>4. e + k = view + 1 /\ Follows(s, q, k, view)
    BY <1>5, <1>7, <1>8, <2>3
  <2>5. view \in Nat /\ published \in Nat
    BY <1>1 DEF Typed
  <2>6. Follows(s, d, 0, e)'
    BY <1>3, <1>5, <1>13, <1>15, <2>2, <2>4, <2>5, TailFollows
  <2>7. Follows(s, sockets[s].down, 0, view)'
    BY <1>13, <2>1, <2>6
  <2> QED BY <1>3, <1>6, <1>12, <1>15, <2>7 DEF FlowInv
<1>20. PositionInv'
  <2>1. PICK c \in Ids : c = client.id
    BY <1>9
  <2>2. conns'[c].status # "absent" => Present(c)
    BY <1>13 DEF Present
  <2>3. PICK t \in Nat, a \in Nat : t = conns[client.id].sent /\ a = conns[client.id].acked
    BY <1>1, <1>9 DEF Typed
  <2>4. Present(c) => n + published = e + t /\ a <= n
    BY <1>11, <2>1, <2>3
  <2>5. PICK p : p = Position(client)'
    OBVIOUS
  <2>6. /\ p.id = c /\ p.lastSeq = n /\ conns'[c].sent = t /\ conns'[c].acked = a
        /\ published' = published /\ view' = e /\ published \in Nat
    BY <1>1, <1>13, <1>16, <2>1, <2>3, <2>5 DEF Typed
  <2>7. p.id # 0 /\ conns'[p.id].status # "absent" =>
          /\ p.lastSeq + published' <= view' + conns'[p.id].sent
          /\ p.lastSeq + published' = view' + conns'[p.id].sent
          /\ conns'[p.id].acked <= p.lastSeq
    <3>1. Present(c) => n + published <= e + t
      BY <2>4, <2>6
    <3> QED BY <2>2, <2>4, <2>6, <3>1
  <2> QED BY <2>5, <2>7 DEF PositionInv, Present
<1>21. SeqAckInv'
  <2>1. ASSUME NEW t \in Sockets, sockets'[t].server = "attached"
        PROVE  /\ sockets'[t].seqAck <= conns'[sockets'[t].conn].sent
               /\ sockets'[t].conn = Position(client)'.id =>
                    sockets'[t].seqAck <= Position(client)'.lastSeq
    <3>1. /\ sockets'[t].conn = sockets[t].conn /\ sockets'[t].seqAck = sockets[t].seqAck
          /\ sockets[t].server = "attached"
      BY <1>14, <2>1 DEF Takes
    <3>2. Present(sockets[t].conn)
      BY <1>1, <3>1, AttachedConn
    <3>3. PICK x \in Nat : x = sockets[t].seqAck
      BY <1>1 DEF Typed
    <3>4. sockets[t].conn = client.id => x <= client.lastSeen /\ client.lastSeen <= n
      BY <1>1, <1>9, <1>11, <3>1, <3>2, <3>3 DEF SeqAckInv
    <3>5. sockets[t].conn = client.id => x <= n
      BY <1>1, <1>5, <3>4 DEF Typed
    <3>6. x <= conns[sockets[t].conn].sent
      BY <1>1, <3>1, <3>3 DEF SeqAckInv
    <3> QED BY <1>13, <1>16, <3>1, <3>3, <3>5, <3>6
  <2> QED BY <2>1 DEF SeqAckInv
<1>22. (view <= published)'
  BY <1>8, <1>13
<1> QED BY <1>15, <1>17, <1>18, <1>19, <1>20, <1>21, <1>22 DEF IInv


LEMMA OnRefusalKeeps ==
  ASSUME IInv, NEW s \in Sockets, ClientReceives(s), NEW m, m = Head(sockets[s].down),
         m.kind = "error", OnRefusal
  PROVE  IInv'
<1>1. /\ TypeOK /\ AttachedOnce /\ SocketsInv /\ ClientInv /\ HelloInv /\ FlowInv /\ PositionInv /\ SeqAckInv
      /\ view <= published /\ Typed
  BY StateTypes DEF IInv
<1>2. PICK q : q = sockets[s].down
  OBVIOUS
<1>3. q \in Seq(Messages) /\ q # <<>> /\ s = client.ws /\ s # 0
  BY <1>1, <1>2, Bounds DEF Typed, ClientReceives
<1>4. m = q[1] /\ m \in Messages /\ 1 \in 1 .. Len(q)
  BY <1>2, <1>3
<1>5. ~client.connected
  <2>1. client.connected => Follows(s, q, 0, view)
    BY <1>1, <1>2, <1>3 DEF FlowInv
  <2> QED BY <2>1, <1>4 DEF Follows
<1>6. Len(q) = 1 /\ sockets[s].server = "closed"
  BY <1>1, <1>2, <1>3, <1>4, <1>5 DEF FlowInv, Before
<1>7. /\ client' \in ClientType /\ client'.ws = client.ws /\ client'.id = client.id
      /\ client'.connected = client.connected /\ client'.lastSeen = client.lastSeen
      /\ client'.pending = client.pending /\ client'.asking = client.asking
      /\ client'.retry = client.retry /\ client'.destroyed = client.destroyed
  <2>1. PICK b \in BOOLEAN : b = FALSE
    OBVIOUS
  <2>2. client' = [client EXCEPT !.ready = b]
    BY <2>1 DEF OnRefusal
  <2>3. client \in ClientType
    BY <1>1 DEF Typed
  <2> QED BY <2>2, <2>3 DEF ClientType
<1>8. view' = view /\ refreshes' = refreshes /\ published' = published /\ conns' = conns
  BY DEF OnRefusal, ClientReceives
<1>9. Takes(s)
  BY <1>7, ReceivesTakes
<1>10. /\ TypeOK' /\ AttachedOnce' /\ SocketsInv' /\ (Reaches(s)' <=> Reaches(s))
       /\ Numbered(s, sockets[s].down)'
       /\ \A c \in Ids : (Issued(c)' <=> Issued(c)) /\ (Present(c)' <=> Present(c))
  <2>1. view' \in Nat /\ refreshes' \in Nat
    BY <1>1, <1>8 DEF Typed
  <2> QED BY <1>2, <1>3, <1>9, <2>1, TakesKeeps
<1>11. Position(client)' = Position(client)
  BY <1>7 DEF Position
<1>12. PositionInv' /\ SeqAckInv' /\ (view <= published)'
  <2>1. Apart
    BY <1>8, <1>9, <1>11 DEF Apart, Takes
  <2> QED BY <1>1, <2>1, ApartKeeps
<1>13. ClientInv'
  <2>1. PICK p \in 0 .. MaxSockets : p = Position(client).id
    BY <1>1 DEF Typed, Position
  <2>2. p # 0 => Issued(p) /\ p \in Ids
    BY <1>1, <2>1, Bounds DEF ClientInv
  <2>3. p # 0 => sockets'[p].server \in {"attached", "closed"}
    BY <2>2, <1>9 DEF Issued, Takes, Ids
  <2>4. Position(client)'.id # 0 => sockets'[Position(client)'.id].server \in {"attached", "closed"}
    BY <1>11, <2>1, <2>3
  <2>5. /\ client.destroyed => client.ws = 0 /\ ~client.retry /\ ~client.connected
        /\ ~client.destroyed => (client.connected <=> client.id # 0)
        /\ client.retry => client.ws = 0
        /\ client.pending.id = 0 => client.pending = NoReconnect
        /\ client.id = 0 /\ client.pending.id # 0 => client.lastSeen = client.pending.lastSeq
        /\ refreshes # 0 /\ ~client.destroyed => Position(client).id # 0
    BY <1>1 DEF ClientInv
  <2> QED BY <1>5, <1>7, <1>8, <1>11, <2>4, <2>5, Zenon DEF ClientInv, Issued
<1>14. HelloInv'
  <2>1. /\ sockets'[s].server = sockets[s].server /\ sockets'[s].hello = sockets[s].hello
        /\ sockets'[s].seqAck = sockets[s].seqAck
    BY <1>9 DEF Takes
  <2>2. /\ client.asking <=> client.pending # NoReconnect
        /\ sockets[s].seqAck = 0
    BY <1>1, <1>3, <1>5, <1>6 DEF HelloInv
  <2> QED BY <1>3, <1>6, <1>7, <2>1, <2>2 DEF HelloInv
<1>15. FlowInv'
  <2>1. sockets'[s].down = <<>>
    <3>1. PICK d : d = Tail(q)
      OBVIOUS
    <3>2. d \in Seq(Messages) /\ Len(d) + 1 = Len(q) /\ Len(d) \in Nat
      BY <1>3, <3>1, Tails
    <3>3. Len(d) = 0
      BY <1>6, <3>2
    <3>4. sockets'[s].down = d
      BY <1>2, <1>9, <3>1 DEF Takes
    <3> QED BY <3>2, <3>3, <3>4
  <2>2. ~Reaches(s)'
    BY <1>6, <1>10 DEF Reaches
  <2> QED BY <1>3, <1>5, <1>7, <1>10, <2>1, <2>2 DEF FlowInv, Before
<1> QED BY <1>10, <1>12, <1>13, <1>14, <1>15 DEF IInv


LEMMA OnAckKeeps ==
  ASSUME IInv, NEW s \in Sockets, ClientReceives(s), NEW m, m = Head(sockets[s].down),
         m.kind = "handshake_ack", OnAck(m)
  PROVE  IInv'
<1>1. /\ TypeOK /\ AttachedOnce /\ SocketsInv /\ ClientInv /\ HelloInv /\ FlowInv /\ PositionInv /\ SeqAckInv
      /\ view <= published /\ Typed
  BY StateTypes DEF IInv
<1>2. PICK q : q = sockets[s].down
  OBVIOUS
<1>3. /\ q \in Seq(Messages) /\ q # <<>> /\ s = client.ws /\ s # 0
      /\ sockets[s].client \in {"open", "closing"}
  BY <1>1, <1>2, Bounds DEF Typed, ClientReceives
<1>4. m = q[1] /\ m \in Messages /\ 1 \in 1 .. Len(q)
  BY <1>2, <1>3
<1>5. PICK e \in Nat, c \in 0 .. MaxSockets : e = m.ev /\ c = m.id
  BY <1>4 DEF Messages
<1>6. ~client.connected
  <2>1. client.connected => Follows(s, q, 0, view)
    BY <1>1, <1>2, <1>3 DEF FlowInv
  <2> QED BY <2>1, <1>4 DEF Follows
<1>7. PICK n \in Nat : n = IF Stale(m) THEN e ELSE view
  BY <1>1, <1>5 DEF Typed
<1>8. AckInv(s, m) /\ Follows(s, q, 1, n)
  BY <1>1, <1>2, <1>3, <1>4, <1>5, <1>6, <1>7 DEF FlowInv, Before
<1>9. /\ c = sockets[s].conn /\ c # 0 /\ c \in Ids /\ Issued(c) /\ Issued(s) /\ e >= view
      /\ m.reconnected => c = client.pending.id
      /\ Present(c) /\ ~m.reconnected => e + conns[c].sent = published /\ Unacked(c)
      /\ Present(c) /\ m.reconnected /\ m.stale => client.lastSeen + 1 < conns[c].first
  <2>1. c # 0 /\ c \in Ids
    BY <1>5, <1>8, Bounds DEF AckInv
  <2>2. Issued(s)
    BY <1>1, <1>2, <1>3 DEF SocketsInv, Issued
  <2>3. /\ c = sockets[s].conn /\ Issued(c) /\ e >= view
        /\ m.reconnected => c = client.pending.id
    BY <1>5, <1>8 DEF AckInv
  <2>4. /\ Present(c) /\ ~m.reconnected => e + conns[c].sent = published /\ Unacked(c)
        /\ Present(c) /\ m.reconnected /\ m.stale => client.lastSeen + 1 < conns[c].first
    BY <1>5, <1>8 DEF AckInv
  <2> QED BY <2>1, <2>2, <2>3, <2>4
<1>10. n <= published
  <2>1. PICK k \in Nat : k = Len(q) /\ k >= 1
    BY <1>3
  <2>2. n + k <= published + 1
    BY <2>1, <1>8 DEF Follows
  <2> QED BY <1>1, <2>1, <2>2 DEF Typed
<1>11. /\ ~client.destroyed /\ client.id = 0 /\ ~client.retry /\ Position(client) = client.pending
       /\ m.reconnected => /\ client.lastSeen = client.pending.lastSeq
                           /\ Position(client).id = c /\ Position(client).lastSeq = client.lastSeen
  <2>1. ~client.destroyed /\ client.id = 0 /\ ~client.retry
    BY <1>1, <1>3, <1>6 DEF ClientInv
  <2>2. Position(client) = client.pending
    BY <2>1 DEF Position
  <2> QED BY <1>1, <1>9, <2>1, <2>2 DEF ClientInv
<1>12. PICK l \in Nat : l = IF m.reconnected THEN client.lastSeen ELSE 0
  BY <1>1 DEF Typed
<1>13. /\ client' \in ClientType /\ client'.ws = client.ws /\ client'.id = c
       /\ client'.connected = TRUE /\ client'.lastSeen = l
       /\ client'.pending = NoReconnect
       /\ client'.retry = client.retry /\ client'.destroyed = client.destroyed
  <2>1. PICK f \in BOOLEAN : f = FALSE
    OBVIOUS
  <2>2. PICK g \in BOOLEAN : g = TRUE
    OBVIOUS
  <2>3. PICK p \in [id : 0 .. MaxSockets, lastSeq : Nat] : p = NoReconnect
    <3>1. NoReconnect \in [id : 0 .. MaxSockets, lastSeq : Nat]
      BY Bounds DEF NoReconnect
    <3> QED BY <3>1
  <2>4. client \in ClientType
    BY <1>1 DEF Typed
  <2>5. PICK x : x = [client EXCEPT !.asking = f, !.pending = p, !.id = c]
    OBVIOUS
  <2>6. /\ x \in ClientType /\ x.ws = client.ws /\ x.id = c /\ x.pending = p
        /\ x.retry = client.retry /\ x.destroyed = client.destroyed /\ x.lastSeen = client.lastSeen
    BY <2>4, <2>5 DEF ClientType
  <2>7. client' = [x EXCEPT !.connected = g, !.ready = f, !.lastSeen = l]
    BY <1>5, <1>12, <2>1, <2>2, <2>3, <2>5 DEF OnAck
  <2>8. /\ client' \in ClientType /\ client'.ws = x.ws /\ client'.id = x.id
        /\ client'.connected = g /\ client'.lastSeen = l /\ client'.pending = x.pending
        /\ client'.retry = x.retry /\ client'.destroyed = x.destroyed
    BY <2>6, <2>7 DEF ClientType
  <2> QED BY <2>2, <2>3, <2>6, <2>8
<1>14. view' = n /\ refreshes' \in Nat /\ published' = published /\ conns' = conns
  BY <1>1, <1>5, <1>7 DEF OnAck, ClientReceives, Typed
<1>15. Takes(s)
  BY <1>13, ReceivesTakes
<1>16. /\ TypeOK' /\ AttachedOnce' /\ SocketsInv' /\ (Reaches(s)' <=> Reaches(s))
       /\ Numbered(s, sockets[s].down)'
       /\ \A i \in Ids : (Issued(i)' <=> Issued(i)) /\ (Present(i)' <=> Present(i))
  BY <1>2, <1>3, <1>14, <1>15, TakesKeeps
<1>17. Position(client)'.id = c /\ Position(client)'.lastSeq = l
  BY <1>9, <1>13 DEF Position
<1>18. ClientInv'
  <2>1. client'.connected /\ ~client'.destroyed /\ client'.ws = s /\ client'.id = c /\ ~client'.retry
    BY <1>3, <1>11, <1>13
  <2>2. /\ sockets'[s].server \in {"attached", "closed"} /\ sockets'[s].conn = c
        /\ sockets'[s].client # "connecting" /\ sockets'[c].server \in {"attached", "closed"}
    BY <1>3, <1>9, <1>15 DEF Takes, Issued, Ids
  <2> QED BY <1>3, <1>9, <1>13, <1>17, <2>1, <2>2, Zenon DEF ClientInv, Issued
<1>19. HelloInv'
  BY <1>13 DEF HelloInv
<1>20. FlowInv'
  <2>1. PICK d : d = sockets'[s].down
    OBVIOUS
  <2>2. d = Tail(q)
    BY <1>2, <1>15, <2>1 DEF Takes
  <2>3. PICK k \in {0, 1} : k = 1
    OBVIOUS
  <2>4. n + k = n + 1 /\ Follows(s, q, k, n)
    BY <1>8, <2>3
  <2>5. published \in Nat
    BY <1>1 DEF Typed
  <2>6. Follows(s, d, 0, n)'
    BY <1>3, <1>14, <1>16, <2>2, <2>4, <2>5, TailFollows
  <2>7. Follows(s, sockets[s].down, 0, view)'
    BY <1>14, <2>1, <2>6
  <2> QED BY <1>3, <1>13, <1>16, <2>7 DEF FlowInv
<1>21. Present(c) =>
         /\ l + published <= n + conns[c].sent
         /\ l + published = n + conns[c].sent \/ l + 1 < conns[c].first
         /\ conns[c].acked <= l
  <2>1. PICK t \in Nat, a \in Nat, f \in Nat :
          t = conns[c].sent /\ a = conns[c].acked /\ f = conns[c].first
    BY <1>1, <1>9 DEF Typed
  <2>2. published \in Nat /\ view \in Nat
    BY <1>1 DEF Typed
  <2>3. ASSUME Present(c), ~m.reconnected
        PROVE  l + published = n + t /\ a = 0 /\ l = 0
    <3>1. n = e /\ e + t = published
      BY <1>7, <1>9, <2>1, <2>3 DEF Stale
    <3>2. l = 0
      BY <1>12, <2>3
    <3>3. a = 0
      BY <1>9, <2>1, <2>3 DEF Unacked
    <3> QED BY <2>2, <3>1, <3>2, <3>3
  <2>4. ASSUME Present(c), m.reconnected
        PROVE  /\ l + published <= n + t
               /\ l + published = n + t \/ l + 1 < f
               /\ a <= l
    <3>1. l = client.lastSeen
      BY <1>12, <2>4
    <3>2. /\ l + published <= view + t
          /\ l + published = view + t \/ l + 1 < f
          /\ a <= l
      BY <1>1, <1>9, <1>11, <2>1, <2>4, <3>1 DEF PositionInv
    <3>3. CASE m.stale
      <4>1. n = e /\ l + 1 < f
        BY <1>7, <1>9, <2>1, <2>4, <3>1, <3>3 DEF Stale
      <4>2. l + published <= n + t
        BY <1>9, <2>2, <3>2, <4>1
      <4> QED BY <3>2, <4>1, <4>2
    <3>4. CASE ~m.stale
      BY <1>7, <2>4, <3>2, <3>4 DEF Stale
    <3> QED BY <3>3, <3>4
  <2> QED BY <2>1, <2>2, <2>3, <2>4
<1>22. PositionInv'
  <2>1. conns'[c].status # "absent" => Present(c)
    BY <1>14 DEF Present
  <2>2. PICK p : p = Position(client)'
    OBVIOUS
  <2>3. p.id = c /\ p.lastSeq = l /\ conns' = conns /\ published' = published /\ view' = n
    BY <1>14, <1>17, <2>2
  <2>4. p.id # 0 /\ conns'[p.id].status # "absent" =>
          /\ p.lastSeq + published' <= view' + conns'[p.id].sent
          /\ \/ p.lastSeq + published' = view' + conns'[p.id].sent
             \/ p.lastSeq + 1 < conns'[p.id].first
          /\ conns'[p.id].acked <= p.lastSeq
    BY <1>21, <2>1, <2>3
  <2> QED BY <2>2, <2>4 DEF PositionInv, Present
<1>23. SeqAckInv'
  <2>1. ASSUME NEW t \in Sockets, sockets'[t].server = "attached"
        PROVE  /\ sockets'[t].seqAck <= conns'[sockets'[t].conn].sent
               /\ sockets'[t].conn = Position(client)'.id =>
                    sockets'[t].seqAck <= Position(client)'.lastSeq
    <3>1. /\ sockets'[t].conn = sockets[t].conn /\ sockets'[t].seqAck = sockets[t].seqAck
          /\ sockets[t].server = "attached"
      BY <1>15, <2>1 DEF Takes
    <3>2. Present(sockets[t].conn)
      BY <1>1, <3>1, AttachedConn
    <3>3. PICK x \in Nat : x = sockets[t].seqAck
      BY <1>1 DEF Typed
    <3>4. ASSUME sockets[t].conn = c PROVE x <= l
      <4>1. CASE m.reconnected
        BY <1>1, <1>11, <1>12, <3>1, <3>3, <3>4, <4>1 DEF SeqAckInv
      <4>2. CASE ~m.reconnected
        BY <1>9, <1>12, <3>1, <3>2, <3>3, <3>4, <4>2 DEF Unacked
      <4> QED BY <4>1, <4>2
    <3>5. x <= conns[sockets[t].conn].sent
      BY <1>1, <3>1, <3>3 DEF SeqAckInv
    <3> QED BY <1>14, <1>17, <3>1, <3>3, <3>4, <3>5
  <2> QED BY <2>1 DEF SeqAckInv
<1>24. (view <= published)'
  BY <1>10, <1>14
<1> QED BY <1>16, <1>18, <1>19, <1>20, <1>22, <1>23, <1>24 DEF IInv

LEMMA ClientReceivesKeeps ==
  ASSUME IInv, NEW s \in Sockets, ClientReceives(s) PROVE IInv'
<1>1. PICK m : m = Head(sockets[s].down)
  OBVIOUS
<1>2. \/ m.kind = "handshake_ack" /\ OnAck(m)
      \/ m.kind = "event" /\ OnEvent(m)
      \/ m.kind = "error" /\ OnRefusal
  BY <1>1 DEF ClientReceives
<1> QED BY <1>1, <1>2, OnAckKeeps, OnEventKeeps, OnRefusalKeeps


LEMMA InitHolds == Init => IInv
<1> SUFFICES ASSUME Init PROVE IInv
  OBVIOUS
<1>1. 1 \in Sockets /\ 1 \in 0 .. MaxSockets /\ 0 \in 0 .. MaxSockets
  BY TransportAssumption DEF Sockets
<1>2. PICK w \in 0 .. MaxSockets : w = 1
  BY <1>1
<1>3. PICK z \in 0 .. MaxSockets : z = 0
  BY <1>1
<1>4. PICK f \in BOOLEAN : f = FALSE
  OBVIOUS
<1>5. PICK p \in [id : 0 .. MaxSockets, lastSeq : Nat] : p = NoReconnect
  <2>1. NoReconnect \in [id : 0 .. MaxSockets, lastSeq : Nat]
    BY <1>1 DEF NoReconnect
  <2> QED BY <2>1
<1>6. /\ client \in ClientType /\ client.ws = 1 /\ client.id = 0 /\ client.connected = FALSE
      /\ client.lastSeen = 0 /\ client.pending = NoReconnect /\ client.destroyed = FALSE
      /\ client.retry = FALSE
  <2>1. PICK x : x = FreshClient
    OBVIOUS
  <2>2. x = [ws |-> z, id |-> z, connected |-> f, lastSeen |-> 0, pending |-> p, asking |-> f,
             manual |-> f, retry |-> f, ready |-> f, closed |-> f, destroyed |-> f]
    BY <1>3, <1>4, <1>5, <2>1 DEF FreshClient
  <2>3. /\ x \in ClientType /\ x.id = z /\ x.connected = f /\ x.lastSeen = 0 /\ x.pending = p
        /\ x.destroyed = f /\ x.retry = f
    BY <2>2 DEF ClientType
  <2>4. PICK g \in BOOLEAN : g = TRUE
    OBVIOUS
  <2>5. client = [x EXCEPT !.ws = w, !.ready = g]
    BY <1>2, <2>1, <2>4 DEF Init
  <2>6. /\ client \in ClientType /\ client.ws = w /\ client.id = x.id /\ client.connected = x.connected
        /\ client.lastSeen = x.lastSeen /\ client.pending = x.pending
        /\ client.destroyed = x.destroyed /\ client.retry = x.retry
    BY <2>3, <2>5 DEF ClientType
  <2> QED BY <1>2, <1>3, <1>4, <1>5, <2>3, <2>6
<1>7. PICK n : n = FreshSocket
  OBVIOUS
<1>8. /\ n \in SocketType /\ n.client = "unused" /\ n.server = "none" /\ n.down = <<>>
      /\ n.seqAck = 0
  <2>1. PICK g \in BOOLEAN : g = TRUE
    OBVIOUS
  <2>2. PICK d \in Seq(Messages) : d = <<>>
    <3>1. <<>> \in Seq(Messages)
      OBVIOUS
    <3> QED BY <3>1
  <2>3. n = [client |-> "unused", server |-> "none", link |-> g, conn |-> z,
             hello |-> p, seqAck |-> 0, down |-> d]
    BY <1>3, <1>5, <1>7, <2>1, <2>2 DEF FreshSocket
  <2>4. n \in SocketType /\ n.client = "unused" /\ n.server = "none" /\ n.down = d /\ n.seqAck = 0
    BY <2>3 DEF SocketType
  <2> QED BY <2>2, <2>4
<1>9. PICK r : r = [n EXCEPT !.client = "connecting"]
  OBVIOUS
<1>10. /\ r \in SocketType /\ r.client = "connecting" /\ r.server = "none" /\ r.down = <<>>
       /\ r.seqAck = 0
  BY <1>8, <1>9 DEF SocketType
<1>11. sockets = [s \in Sockets |-> IF s = 1 THEN r ELSE n]
  BY <1>7, <1>9 DEF Init
<1>12. sockets \in [Sockets -> SocketType]
  BY <1>8, <1>10, <1>11
<1>13. \A s \in Sockets :
         /\ sockets[s].server = "none" /\ sockets[s].down = <<>> /\ sockets[s].seqAck = 0
         /\ s # 1 => sockets[s].client = "unused"
         /\ s = 1 => sockets[s].client = "connecting"
  BY <1>8, <1>10, <1>11
<1>14. /\ \A c \in Ids : /\ conns[c] \in ConnType /\ conns[c].status = "absent"
                         /\ conns[c].first = 1 /\ conns[c].sent = 0
       /\ conns \in [Ids -> ConnType]
  <2>1. PICK k : k = NoConn
    OBVIOUS
  <2>2. k = [status |-> "absent", sock |-> z, first |-> 1, sent |-> 0, acked |-> 0, closing |-> 0]
    BY <1>3, <2>1 DEF NoConn
  <2>3. k \in ConnType /\ k.status = "absent" /\ k.first = 1 /\ k.sent = 0
    BY <2>2 DEF ConnType
  <2>4. conns = [c \in Ids |-> k]
    BY <2>1 DEF Init
  <2> QED BY <2>3, <2>4
<1>15. server = "up" /\ published = 0 /\ view = 0 /\ refreshes = 0 /\ mishaps = 0
  BY DEF Init
<1>16. TypeOK
  BY <1>6, <1>12, <1>14, <1>15, Types DEF Shape
<1>17. AttachedOnce /\ SeqAckInv
  BY <1>13 DEF AttachedOnce, SeqAckInv
<1>18. SocketsInv
  BY <1>6, <1>13, <1>14 DEF SocketsInv, Present
<1>19. Position(client) = NoReconnect /\ NoReconnect.id = 0
  BY <1>6 DEF Position, NoReconnect
<1>20. ClientInv
  BY <1>6, <1>15, <1>19 DEF ClientInv
<1>21. HelloInv
  BY <1>1, <1>6, <1>13 DEF HelloInv
<1>22. FlowInv
  <2>1. ASSUME NEW s \in Sockets PROVE Before(s, sockets[s].down) /\ Numbered(s, sockets[s].down)
    BY <1>13 DEF Before, Numbered, Reaches
  <2> QED BY <1>6, <2>1 DEF FlowInv
<1>23. PositionInv
  BY <1>19 DEF PositionInv
<1> QED BY <1>15, <1>16, <1>17, <1>18, <1>20, <1>21, <1>22, <1>23 DEF IInv

LEMMA HandshakeKeeps ==
  ASSUME IInv, NEW s \in Sockets, sockets[s].server \in {"waiting", "checking", "unattended"},
         UNCHANGED <<client, server, published, view, refreshes, mishaps>>, Handshake(s)
  PROVE  IInv'
<1>1. CASE Recognised(sockets[s].hello) /\ Reconnect(s, sockets[s].hello)
  BY <1>1, ReconnectKeeps
<1>2. CASE FreshConnect(s)
  BY <1>2, FreshConnectKeeps
<1> QED BY <1>1, <1>2 DEF Handshake

LEMMA NextKeeps == IInv /\ [Next]_vars => IInv'
<1> SUFFICES ASSUME IInv, [Next]_vars PROVE IInv'
  OBVIOUS
<1>1. CASE Invoke \/ RetryFires \/ ReconnectNow \/ Destroy
  BY <1>1, InvokeKeeps, RetryFiresKeeps, ReconnectNowKeeps, DestroyKeeps
<1>2. ASSUME NEW s \in Sockets, ClientStep(s) PROVE IInv'
  BY <1>2, OpensKeeps, OpenFailsKeeps, ConnectTimesOutKeeps, ClientReceivesKeeps,
     ClientSeesCloseKeeps, SendAckKeeps DEF ClientStep
<1>3. ASSUME NEW s \in Sockets, ServerStep(s) PROVE IInv'
  <2>1. CASE HandshakeArrives(s)
    BY <2>1, HandshakeKeeps DEF HandshakeArrives
  <2>2. CASE CheckEnds(s)
    BY <2>2, HandshakeKeeps DEF CheckEnds
  <2>3. CASE CheckBegins(s) \/ CheckFails(s) \/ AckArrives(s) \/ ServerSeesClose(s)
    BY <2>3, CheckBeginsKeeps, CheckFailsKeeps, AckArrivesKeeps, ServerSeesCloseKeeps
  <2> QED BY <1>3, <2>1, <2>2, <2>3 DEF ServerStep
<1>4. ASSUME NEW s \in Sockets, Breaks(s) PROVE IInv'
  BY <1>4, BreaksKeeps
<1>5. ASSUME NEW c \in Ids, RetentionEnds(c) PROVE IInv'
  BY <1>5, RetentionEndsKeeps
<1>6. CASE Push
  <2>1. server' \in {"up", "stopping", "down"} /\ PushEvent(FALSE)
    BY <1>6 DEF Push, IInv, TypeOK
  <2> QED BY <2>1, PushKeeps
<1>7. CASE Announce
  BY <1>7, PushKeeps DEF Announce
<1>8. CASE Stop \/ Restart
  BY <1>8, StopKeeps, RestartKeeps
<1>9. CASE UNCHANGED vars
  <2>1. /\ client' = client /\ sockets' = sockets /\ conns' = conns /\ server' = server
        /\ published' = published /\ view' = view /\ refreshes' = refreshes /\ mishaps' = mishaps
    BY <1>9 DEF vars
  <2>2. TypeOK' /\ AttachedOnce' /\ (view <= published)'
    BY <2>1 DEF IInv, TypeOK, AttachedOnce
  <2>3. SocketsInv' /\ HelloInv' /\ SeqAckInv'
    BY <2>1 DEF IInv, SocketsInv, HelloInv, SeqAckInv, Issued, Present, Position
  <2>4. ClientInv' /\ PositionInv'
    BY <2>1 DEF IInv, ClientInv, PositionInv, Issued, Present, Position
  <2>5. Undisturbed
    <3>1. \A s \in Sockets : Reaches(s)' => Reaches(s)
      BY <2>1 DEF Reaches, Arrives
    <3>2. \A c \in Ids : Issued(c) => Issued(c)'
      BY <2>1 DEF Issued
    <3>3. \A c \in Ids : (Present(c)' => Present(c)) /\ (Unacked(c) => Unacked(c)')
      BY <2>1 DEF Present, Unacked
    <3>4. \A c \in Ids : conns[c].first \in Nat
      BY StateTypes DEF IInv, Typed
    <3> QED BY <2>1, <3>1, <3>2, <3>3, <3>4 DEF Undisturbed
  <2>6. FlowInv'
    BY <2>2, <2>5, FlowKept DEF IInv
  <2> QED BY <2>2, <2>3, <2>4, <2>6 DEF IInv
<1> QED BY <1>1, <1>2, <1>3, <1>4, <1>5, <1>6, <1>7, <1>8, <1>9 DEF Next

LEMMA Invariant == Spec => []IInv
  BY InitHolds, NextKeeps, PTL DEF Spec


(* The client and the server keep fields of the ranges the code gives them;  *)
(* the buffer of a connection never starts beyond the event it sends next.   *)
THEOREM TypeCorrect == Spec => []TypeOK
<1>1. IInv => TypeOK
  BY DEF IInv
<1> QED BY <1>1, Invariant, PTL

(* An open socket the server answers on is the one its connection is on, so  *)
(* the close handler of a socket never takes out a connection that has moved *)
(* to another one.                                                           *)
THEOREM AttachedToOne == Spec => []AttachedOnce
<1>1. IInv => AttachedOnce
  BY DEF IInv
<1> QED BY <1>1, Invariant, PTL

(* However acknowledgements, answers and broken links interleave, no event   *)
(* leaves the buffer of the connection the application would resume before   *)
(* the application has handled it.                                           *)
THEOREM AckedSeen == Spec => []AckedWasSeen
<1>1. IInv => AckedWasSeen
  <2>1. ASSUME IInv, NEW c \in Ids, Resumes(c) PROVE conns[c].acked <= Resumed
    <3>1. PICK p : p = Position(client)
      OBVIOUS
    <3>2. c # 0
      BY Bounds
    <3>3. p.id = c /\ conns[c].status # "absent"
      BY <2>1, <3>1 DEF Resumes
    <3>4. conns[c].acked <= p.lastSeq
      BY <2>1, <3>1, <3>2, <3>3 DEF IInv, PositionInv, Present
    <3> QED BY <3>1, <3>4 DEF Resumed
  <2> QED BY <2>1 DEF AckedWasSeen
<1> QED BY <1>1, Invariant, PTL

(* The number the client keeps tells which event its state reflects, or is   *)
(* too old for the server to replay from it.                                 *)
THEOREM NeverReplaysBehind == Spec => []BehindNeverReplays
<1>1. IInv => BehindNeverReplays
  <2>1. ASSUME IInv, NEW c \in Ids, Resumes(c)
        PROVE  \/ Resumed + (published - conns[c].sent) = view
               \/ ~CanReplay(conns[c], conns[c].first, Resumed)
    <3>1. PICK p : p = Position(client)
      OBVIOUS
    <3>2. c # 0 /\ p.id = c /\ conns[c].status # "absent"
      BY <2>1, <3>1, Bounds DEF Resumes
    <3>3. Typed
      BY <2>1, StateTypes DEF IInv
    <3>4. PICK l \in Nat : l = p.lastSeq
      BY <3>1, <3>3 DEF Typed, Position
    <3>5. PICK k : k = conns[c]
      OBVIOUS
    <3>6. PICK n \in Nat, f \in Nat : n = k.sent /\ f = k.first /\ f <= n + 1
      BY <3>3, <3>5 DEF Typed
    <3>7. l + published = view + n \/ l + 1 < f
      BY <2>1, <3>1, <3>2, <3>4, <3>5, <3>6 DEF IInv, PositionInv, Present
    <3>8. published \in Nat /\ view \in Nat
      BY <3>3 DEF Typed
    <3>9. l + (published - n) = view \/ (l < n /\ l < f - 1)
      BY <3>4, <3>6, <3>7, <3>8
    <3>10. l < n /\ l < f - 1 => ~CanReplay(k, f, l)
      BY <3>4, <3>6 DEF CanReplay
    <3>11. Resumed = l /\ conns[c].sent = n /\ conns[c].first = f
      BY <3>1, <3>4, <3>5, <3>6 DEF Resumed
    <3> QED BY <3>5, <3>9, <3>10, <3>11
  <2> QED BY <2>1 DEF BehindNeverReplays
<1> QED BY <1>1, Invariant, PTL

LEMMA EventDelivers ==
  ASSUME IInv, NEW s \in Sockets, ClientReceives(s), NEW m, m = Head(sockets[s].down),
         m.kind = "event", OnEvent(m)
  PROVE  Stream!Deliver
<1>1. /\ TypeOK /\ AttachedOnce /\ SocketsInv /\ ClientInv /\ HelloInv /\ FlowInv /\ PositionInv /\ SeqAckInv
      /\ view <= published /\ Typed
  BY StateTypes DEF IInv
<1>2. PICK q : q = sockets[s].down
  OBVIOUS
<1>3. q \in Seq(Messages) /\ q # <<>> /\ s = client.ws
  BY <1>1, <1>2 DEF Typed, ClientReceives
<1>4. m = q[1] /\ m \in Messages /\ 1 \in 1 .. Len(q)
  BY <1>2, <1>3
<1>5. PICK e \in Nat : e = m.ev
  BY <1>4 DEF Messages
<1>6. client.connected
  <2>1. ~client.connected => Before(s, q)
    BY <1>1, <1>2, <1>3 DEF FlowInv
  <2> QED BY <2>1, <1>3, <1>4 DEF Before
<1>7. Follows(s, q, 0, view)
  BY <1>1, <1>2, <1>3, <1>6 DEF FlowInv
<1>8. e = view + 1 /\ view < published
  <2>1. PICK k \in Nat : k = Len(q) /\ k >= 1
    BY <1>3
  <2>2. view + k <= published
    BY <2>1, <1>1, <1>7 DEF Follows, Typed
  <2>3. m.ev + 0 = view + 1
    BY <1>4, <1>7 DEF Follows
  <2> QED BY <1>1, <1>5, <2>1, <2>2, <2>3 DEF Typed
<1>9. view' = e /\ published' = published /\ refreshes' = refreshes
  BY <1>5 DEF OnEvent, ClientReceives
<1> QED BY <1>8, <1>9 DEF Stream!Deliver

LEMMA AckRefreshes ==
  ASSUME IInv, IInv', NEW s \in Sockets, ClientReceives(s), NEW m, m = Head(sockets[s].down),
         m.kind = "handshake_ack", OnAck(m)
  PROVE  Stream!Refresh \/ UNCHANGED <<published, view, refreshes>>
<1>1. /\ TypeOK /\ AttachedOnce /\ SocketsInv /\ ClientInv /\ HelloInv /\ FlowInv /\ PositionInv /\ SeqAckInv
      /\ view <= published /\ Typed
  BY StateTypes DEF IInv
<1>2. PICK q : q = sockets[s].down
  OBVIOUS
<1>3. q \in Seq(Messages) /\ q # <<>> /\ s = client.ws /\ s # 0
  BY <1>1, <1>2, Bounds DEF Typed, ClientReceives
<1>4. m = q[1] /\ m \in Messages /\ 1 \in 1 .. Len(q)
  BY <1>2, <1>3
<1>5. PICK e \in Nat : e = m.ev
  BY <1>4 DEF Messages
<1>6. ~client.connected
  <2>1. client.connected => Follows(s, q, 0, view)
    BY <1>1, <1>2, <1>3 DEF FlowInv
  <2> QED BY <2>1, <1>4 DEF Follows
<1>7. AckInv(s, m) /\ Issued(s)
  BY <1>1, <1>2, <1>3, <1>4, <1>6 DEF FlowInv, Before, SocketsInv, Issued
<1>8. /\ view' = (IF Stale(m) THEN e ELSE view)
      /\ refreshes' = (IF Told(m) THEN refreshes + 1 ELSE refreshes)
      /\ published' = published
  BY <1>5 DEF OnAck, ClientReceives
<1>9. view' \in view .. published
  <2>1. e >= view /\ view' <= published
    BY <1>5, <1>7, <1>8 DEF AckInv, IInv
  <2> QED BY <1>1, <1>5, <1>8, <2>1 DEF Typed
<1>10. CASE Told(m)
  BY <1>8, <1>9, <1>10 DEF Stream!Refresh
<1>11. ASSUME ~Told(m) PROVE ~Stale(m)
  <2>1. refreshes # 0 /\ (Stale(m) => ~client.asking)
    BY <1>11 DEF Told
  <2>2. ~client.destroyed /\ client.id = 0
    BY <1>1, <1>3, <1>6 DEF ClientInv
  <2>3. client.pending.id # 0
    BY <1>1, <2>1, <2>2 DEF ClientInv, Position
  <2>4. client.asking <=> client.pending # NoReconnect
    BY <1>1, <1>3, <1>6, <1>7 DEF HelloInv, Issued
  <2> QED BY <2>1, <2>3, <2>4 DEF NoReconnect
<1> QED BY <1>8, <1>10, <1>11

LEMMA StepMaps ==
  ASSUME IInv, IInv', [Next]_vars
  PROVE  Stream!Next \/ UNCHANGED <<published, view, refreshes>>
<1>1. CASE Invoke \/ RetryFires \/ ReconnectNow \/ Destroy
  BY <1>1 DEF Invoke, RetryFires, ReconnectNow, Destroy
<1>2. ASSUME NEW s \in Sockets, ClientReceives(s)
      PROVE  Stream!Next \/ UNCHANGED <<published, view, refreshes>>
  <2>1. PICK m : m = Head(sockets[s].down)
    OBVIOUS
  <2>2. CASE m.kind = "handshake_ack" /\ OnAck(m)
    BY <1>2, <2>1, <2>2, AckRefreshes DEF Stream!Next
  <2>3. CASE m.kind = "event" /\ OnEvent(m)
    BY <1>2, <2>1, <2>3, EventDelivers DEF Stream!Next
  <2>4. CASE OnRefusal
    BY <1>2, <2>4 DEF OnRefusal, ClientReceives
  <2> QED BY <1>2, <2>1, <2>2, <2>3, <2>4 DEF ClientReceives
<1>3. ASSUME NEW s \in Sockets, ClientStep(s), ~ClientReceives(s)
      PROVE  UNCHANGED <<published, view, refreshes>>
  BY <1>3 DEF ClientStep, Opens, OpenFails, ConnectTimesOut, ClientSeesClose, SendAck
<1>4. ASSUME NEW s \in Sockets, ServerStep(s) \/ Breaks(s)
      PROVE  UNCHANGED <<published, view, refreshes>>
  BY <1>4 DEF ServerStep, HandshakeArrives, CheckBegins, CheckEnds, CheckFails, AckArrives,
     ServerSeesClose, Breaks
<1>5. ASSUME NEW c \in Ids, RetentionEnds(c) PROVE UNCHANGED <<published, view, refreshes>>
  BY <1>5 DEF RetentionEnds
<1>6. CASE Push \/ Announce
  BY <1>6 DEF Push, Announce, PushEvent, Stream!Next, Stream!Publish
<1>7. CASE Stop \/ Restart
  BY <1>7 DEF Stop, Restart
<1>8. CASE UNCHANGED vars
  BY <1>8 DEF vars
<1> QED BY <1>1, <1>2, <1>3, <1>4, <1>5, <1>6, <1>7, <1>8 DEF Next

(* Through reconnections, fresh connections, replays, stale answers, crashes *)
(* of the server and links that break at any moment, the application handles *)
(* every pushed event once and in order, or loads its state anew: the        *)
(* transport implements EventStream.                                         *)
THEOREM Implements == Spec => InOrder
<1>1. Init => Stream!Init
  BY DEF Init, Stream!Init
<1>2. IInv /\ IInv' /\ [Next]_vars => [Stream!Next]_(Stream!vars)
  BY StepMaps DEF Stream!vars
<1> QED BY <1>1, <1>2, Invariant, PTL DEF Spec, InOrder, Stream!Spec
================================================================================
