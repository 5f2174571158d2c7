---------------------------- MODULE ProxySession ----------------------------
(* TCP sessions through one node's tunnel (ippop/api/ws/tunnel.go and      *)
(* tcpproxy.go, client/tunnel/tunnel.go and tcpproxy.go).                  *)
(*                                                                         *)
(* A session is two goroutines, one at the server reading the user's       *)
(* connection and one at the client reading the destination's; each end    *)
(* also has one reader of the websocket, which looks sessions up in a map. *)
(* The websocket is two FIFO queues.  It may break: each reader still gets *)
(* what had arrived, and the two ends notice at different moments.  After  *)
(* a reconnect the server has a new Tunnel with an empty map, while the    *)
(* client keeps its Tunnel and its sessions.                               *)
(*                                                                         *)
(* The readers of the websocket write to the connections of users and of   *)
(* destinations themselves, without a deadline: a peer that stops reading  *)
(* stops the reader, and with it every session of the node, until it       *)
(* leaves or its connection is closed.                                     *)
(*                                                                         *)
(* Data is a numbered item per read of a connection.  Rate limits, traffic *)
(* counts and malformed messages are left out, and a websocket is never    *)
(* full: one that no reader empties makes writes to it wait in the code.   *)
EXTENDS Integers, Sequences

CONSTANTS Session,     \* sessions, each with a fresh uuid
          MaxUp,       \* bound: items a user sends in a session
          MaxDown,     \* bound: items a destination sends in a session
          MaxBreaks    \* bound: times the websocket breaks

ASSUME BoundsAssumption == MaxUp \in Nat /\ MaxDown \in Nat /\ MaxBreaks \in Nat

VARIABLES
  link,      \* the client's t.conn: "up", "broken" (not noticed), "nil"
  serving,   \* the server's Tunnel is still in serve, and registered
  epoch,     \* number of the server's current Tunnel
  up,        \* messages from server to client
  down,      \* messages from client to server
  server,    \* per session: program counter of acceptSocks5TCPConn, and of
             \* which Tunnel; whether an item came with the socks5 request
  client,    \* per session: program counter of createProxySession, and
             \* isCloseByServer
  user,      \* per session: the user's connection
  dest       \* per session: the connection to the destination

vars == <<link, serving, epoch, up, down, server, client, user, dest>>

ServerPC == {"idle", "wrote", "select", "created", "extra", "relay", "eof", "done"}
ClientPC == {"none", "dialing", "stored", "relay", "eof", "done"}
ServerState == [pc : ServerPC, tun : 0..MaxBreaks, extra : BOOLEAN]
ClientState == [pc : ClientPC, byServer : BOOLEAN]

Msg(type, s, data) == [type |-> type, session |-> s, data |-> data]
Message == [type : {"create", "reply", "data", "close"}, session : Session, data : Nat]

\* A connection: "fin" once the peer has closed it, "closed" once this
\* program has.  Its peer has sent `sent` items, of which `read` were read
\* here, has been given the items `got`, and when `deaf` reads no more.
Connection == [state : {"none", "open", "fin", "closed"}, sent : Nat, read : Nat, got : Seq(Nat),
               deaf : BOOLEAN]
Conn(state) == [state |-> state, sent |-> 0, read |-> 0, got |-> <<>>, deaf |-> FALSE]

\* Read returns the next item, or an error; Write gives an item to the peer,
\* or waits until the connection is closed.
Readable(c) == c.state \in {"open", "fin"} /\ c.read < c.sent
ReadFails(c) == c.state = "closed" \/ (c.state = "fin" /\ c.read = c.sent)
Written(c, item) == IF c.state = "closed" THEN c ELSE [c EXCEPT !.got = Append(@, item)]
WriteWaits(c) == c.deaf /\ c.state \in {"open", "fin"}
Closed(c) == [c EXCEPT !.state = "closed", !.deaf = FALSE]

Init ==
  /\ link = "up" /\ serving = TRUE /\ epoch = 0
  /\ up = <<>> /\ down = <<>>
  /\ server = [s \in Session |-> [pc |-> "idle", tun |-> 0, extra |-> FALSE]]
  /\ client = [s \in Session |-> [pc |-> "none", byServer |-> FALSE]]
  /\ user = [s \in Session |-> Conn("open")]
  /\ dest = [s \in Session |-> Conn("none")]

GoServer(s, pc) == server' = [server EXCEPT ![s].pc = pc]
GoClient(s, pc) == client' = [client EXCEPT ![s].pc = pc]
SetUser(s, c) == user' = [user EXCEPT ![s] = c]
SetDest(s, c) == dest' = [dest EXCEPT ![s] = c]

-----------------------------------------------------------------------------
(* Sessions at the server.  Tunnel.write on a tunnel whose websocket is    *)
(* gone fails, which is logged, or leaves the message in a dead socket.    *)

Current(s) == link = "up" /\ server[s].tun = epoch
\* Mutant: every write looks the node's tunnel up again.
Write_CurrentTunnel(s, m) == up' = IF link = "up" THEN Append(up, m) ELSE up

Write(s, m) == up' = IF Current(s) THEN Append(up, m) ELSE up

\* The session is in waitList, or in proxys, of the current Tunnel.
Waiting(s) == server[s].pc \in {"wrote", "select"} /\ server[s].tun = epoch
Known(s) == server[s].pc \in {"relay", "eof"} /\ server[s].tun = epoch

\* requestCreateProxySession has stored the channel and written the message.
RequestSession(s) ==
  /\ server[s].pc = "idle" /\ serving
  /\ \E x \in {b \in BOOLEAN : b => user[s].sent > 0} :
       server' = [server EXCEPT ![s] = [pc |-> "wrote", tun |-> epoch, extra |-> x]]
  /\ up' = IF link = "up" THEN Append(up, Msg("create", s, 0)) ELSE up
  /\ UNCHANGED <<link, serving, epoch, down, client, user, dest>>

\* serveSocks5Conn closes the connection of a request that failed.
Fail(s) == GoServer(s, "done") /\ SetUser(s, Closed(user[s]))

\* There is no tunnel, or write returned an error.
RequestFails(s) ==
  /\ server[s].pc = "idle" /\ (~serving \/ link # "up")
  /\ Fail(s)
  /\ UNCHANGED <<link, serving, epoch, up, down, client, dest>>

\* Mutant: it goes on without the answer.
Listen_DoesNotWait(s) ==
  /\ server[s].pc = "wrote"
  /\ GoServer(s, "created")
  /\ UNCHANGED <<link, serving, epoch, up, down, client, user, dest>>

\* It reaches the select; only from now on can a reply be handed over.
Listen(s) ==
  /\ server[s].pc = "wrote"
  /\ GoServer(s, "select")
  /\ UNCHANGED <<link, serving, epoch, up, down, client, user, dest>>

\* ctx.Done(): no reply within TCPTimeout.
CreateTimesOut(s) ==
  /\ server[s].pc = "select"
  /\ Fail(s)
  /\ UNCHANGED <<link, serving, epoch, up, down, client, dest>>

\* Mutant: the length of ExtraBytes is not looked at.
SendExtra_Unguarded(s) ==
  /\ server[s].pc = "created"
  /\ Write(s, Msg("data", s, 1))
  /\ SetUser(s, [user[s] EXCEPT !.read = 1])
  /\ GoServer(s, "extra")
  /\ UNCHANGED <<link, serving, epoch, down, client, dest>>

\* What the user sent along with its request goes first.
SendExtra(s) ==
  /\ server[s].pc = "created"
  /\ IF server[s].extra
       THEN /\ Write(s, Msg("data", s, 1))
            /\ SetUser(s, [user[s] EXCEPT !.read = 1])
       ELSE UNCHANGED <<up, user>>
  /\ GoServer(s, "extra")
  /\ UNCHANGED <<link, serving, epoch, down, client, dest>>

\* t.proxys.Store
StoreProxy(s) ==
  /\ server[s].pc = "extra"
  /\ GoServer(s, "relay")
  /\ UNCHANGED <<link, serving, epoch, up, down, client, user, dest>>

\* proxyConn reads an item and sends it.
ReadUser(s) ==
  /\ server[s].pc = "relay" /\ Readable(user[s])
  /\ Write(s, Msg("data", s, user[s].read + 1))
  /\ SetUser(s, [user[s] EXCEPT !.read = @ + 1])
  /\ UNCHANGED <<link, serving, epoch, down, server, client, dest>>

\* Its Read fails.  It calls the server's own onProxySessionClose, which
\* closes the user's connection: the client is not told.
UserEOF(s) ==
  /\ server[s].pc = "relay" /\ ReadFails(user[s])
  /\ GoServer(s, "eof") /\ SetUser(s, Closed(user[s]))
  /\ UNCHANGED <<link, serving, epoch, up, down, client, dest>>

\* t.proxys.Delete
DeleteProxy(s) ==
  /\ server[s].pc = "eof"
  /\ GoServer(s, "done")
  /\ UNCHANGED <<link, serving, epoch, up, down, client, user, dest>>

-----------------------------------------------------------------------------
(* The server's reader of the websocket: Tunnel.onMessage.                 *)

\* The reply is sent on an unbuffered channel without waiting: it is lost
\* unless the request is in its select.
OnReply(s, success) ==
  /\ IF Waiting(s) /\ server[s].pc = "select"
       THEN IF success THEN GoServer(s, "created") /\ UNCHANGED user ELSE Fail(s)
       ELSE UNCHANGED <<server, user>>
  /\ UNCHANGED up

\* Mutant: the client is not told.
OnDataFromTunnel_Silent(s, item) ==
  /\ IF Known(s) THEN SetUser(s, Written(user[s], item)) ELSE UNCHANGED user
  /\ UNCHANGED <<up, server>>

\* Data of a session that is not in proxys is dropped and the client told.
OnDataFromTunnel(s, item) ==
  /\ IF Known(s)
       THEN SetUser(s, Written(user[s], item)) /\ UNCHANGED up
       ELSE /\ up' = IF link = "up" THEN Append(up, Msg("close", s, 0)) ELSE up
            /\ UNCHANGED user
  /\ UNCHANGED server

\* Mutant: only the flag is set, the connection is left open.
OnSessionClose_FlagOnly(s) == UNCHANGED <<up, server, user>>

OnSessionClose(s) ==
  /\ IF Known(s) THEN SetUser(s, Closed(user[s])) ELSE UNCHANGED user
  /\ UNCHANGED <<up, server>>

\* It is in TCPProxy.write, to a user that does not read.
ServerBlocked ==
  /\ serving /\ down # <<>>
  /\ LET m == Head(down) IN m.type = "data" /\ Known(m.session) /\ WriteWaits(user[m.session])

ServerReads ==
  /\ serving /\ down # <<>> /\ ~ServerBlocked
  /\ LET m == Head(down) IN
       \/ m.type = "reply" /\ OnReply(m.session, m.data = 1)
       \/ m.type = "data" /\ OnDataFromTunnel(m.session, m.data)
       \/ m.type = "close" /\ OnSessionClose(m.session)
  /\ down' = Tail(down)
  /\ UNCHANGED <<link, serving, epoch, client, dest>>

-----------------------------------------------------------------------------
(* Sessions at the client.  Tunnel.write fails while the websocket is      *)
(* broken, which is logged, and while t.conn is nil it panics.             *)

Reply(s, m) == down' = IF link = "up" THEN Append(down, m) ELSE down

\* createProxySession dials the destination and stores the session ...
DialSucceeds(s) ==
  /\ client[s].pc = "dialing"
  /\ GoClient(s, "stored") /\ SetDest(s, Conn("open"))
  /\ UNCHANGED <<link, serving, epoch, up, down, server, user>>

\* ... and only then answers.
ReplySuccess(s) ==
  /\ client[s].pc = "stored" /\ link # "nil"
  /\ Reply(s, Msg("reply", s, 1))
  /\ GoClient(s, "relay")
  /\ UNCHANGED <<link, serving, epoch, up, server, user, dest>>

\* The dial fails or takes more than TCPTimeout.
DialFails(s) ==
  /\ client[s].pc = "dialing" /\ link # "nil"
  /\ Reply(s, Msg("reply", s, 0))
  /\ GoClient(s, "done")
  /\ UNCHANGED <<link, serving, epoch, up, server, user, dest>>

\* proxyConn reads an item and sends it.
ReadDest(s) ==
  /\ client[s].pc = "relay" /\ Readable(dest[s]) /\ link # "nil"
  /\ Reply(s, Msg("data", s, dest[s].read + 1))
  /\ SetDest(s, [dest[s] EXCEPT !.read = @ + 1])
  /\ UNCHANGED <<link, serving, epoch, up, server, client, user>>

\* Its Read fails; the server is told unless it asked for this.
DestEOF(s) ==
  /\ client[s].pc = "relay" /\ ReadFails(dest[s])
  /\ client[s].byServer \/ link # "nil"
  /\ IF client[s].byServer THEN UNCHANGED down ELSE Reply(s, Msg("close", s, 0))
  /\ GoClient(s, "eof") /\ SetDest(s, Closed(dest[s]))
  /\ UNCHANGED <<link, serving, epoch, up, server, user>>

\* t.proxySessions.Delete
DeleteSession(s) ==
  /\ client[s].pc = "eof"
  /\ GoClient(s, "done")
  /\ UNCHANGED <<link, serving, epoch, up, down, server, user, dest>>

\* The session is in proxySessions.
Dialled(s) == client[s].pc \notin {"none", "dialing"}
Relayed(s) == client[s].pc \in {"stored", "relay", "eof"}

\* Session ids are fresh, so createProxySession never finds one it has.
OnSessionCreate(s) ==
  /\ client' = [client EXCEPT ![s].pc = IF @ = "none" THEN "dialing" ELSE @]
  /\ UNCHANGED dest

OnData(s, item) ==
  /\ IF Relayed(s) THEN SetDest(s, Written(dest[s], item)) ELSE UNCHANGED dest
  /\ UNCHANGED client

\* Mutant: the destination's connection is left open.
OnClose_FlagOnly(s) ==
  /\ client' = [client EXCEPT ![s].byServer = Relayed(s) \/ @]
  /\ UNCHANGED dest

OnClose(s) ==
  IF Relayed(s)
    THEN /\ client' = [client EXCEPT ![s].byServer = TRUE]
         /\ SetDest(s, Closed(dest[s]))
    ELSE UNCHANGED <<client, dest>>

\* The reader is in TCPProxy.write, to a destination that does not read.
ClientBlocked ==
  /\ link # "nil" /\ up # <<>>
  /\ LET m == Head(up) IN m.type = "data" /\ Relayed(m.session) /\ WriteWaits(dest[m.session])

\* The client's reader of the websocket: Serve and onTunnelMsg.
ClientReads ==
  /\ link # "nil" /\ up # <<>> /\ ~ClientBlocked
  /\ LET m == Head(up) IN
       \/ m.type = "create" /\ OnSessionCreate(m.session)
       \/ m.type = "data" /\ OnData(m.session, m.data)
       \/ m.type = "close" /\ OnClose(m.session)
  /\ up' = Tail(up)
  /\ UNCHANGED <<link, serving, epoch, down, server, user>>

-----------------------------------------------------------------------------
(* The websocket breaks and is replaced.                                   *)

\* Each end still gets what had reached it.
Break ==
  /\ link = "up" /\ epoch < MaxBreaks
  /\ link' = "broken"
  /\ \E k \in 0..Len(up) : up' = SubSeq(up, 1, k)
  /\ \E k \in 0..Len(down) : down' = SubSeq(down, 1, k)
  /\ UNCHANGED <<serving, epoch, server, client, user, dest>>

\* Serve returns: t.conn = nil.
ClientNotices ==
  /\ link = "broken" /\ up = <<>>
  /\ link' = "nil"
  /\ UNCHANGED <<serving, epoch, up, down, server, client, user, dest>>

\* serve returns and the Tunnel leaves the map; its users' connections stay.
ServerNotices ==
  /\ link # "up" /\ serving /\ down = <<>>
  /\ serving' = FALSE
  /\ UNCHANGED <<link, epoch, up, down, server, client, user, dest>>

\* A goroutine of the client writes to a nil websocket: the process dies, and
\* its supervisor starts it anew.
ClientPanics ==
  /\ link = "nil"
  /\ \E s \in Session :
       \/ client[s].pc \in {"dialing", "stored"}
       \/ /\ client[s].pc = "relay"
          /\ \/ Readable(dest[s])
             \/ ReadFails(dest[s]) /\ ~client[s].byServer
  /\ client' = [s \in Session |-> [pc |-> IF client[s].pc = "none" THEN "none" ELSE "done",
                                   byServer |-> FALSE]]
  /\ dest' = [s \in Session |-> IF dest[s].state = "none" THEN dest[s] ELSE Closed(dest[s])]
  /\ UNCHANGED <<link, serving, epoch, up, down, server, user>>

\* The client connects again.  If the old Tunnel is still registered, its
\* close waits for serve to return, and then closes the users' connections
\* that are in its proxys.
Reconnect ==
  /\ link = "nil" /\ ~ServerBlocked
  /\ link' = "up" /\ serving' = TRUE /\ epoch' = epoch + 1
  /\ up' = <<>> /\ down' = <<>>
  /\ user' = [s \in Session |-> IF serving /\ Known(s) THEN Closed(user[s]) ELSE user[s]]
  /\ UNCHANGED <<server, client, dest>>

-----------------------------------------------------------------------------
(* Users, whose requests start the sessions, and destinations.             *)

UserSends(s) ==
  /\ user[s].state = "open" /\ user[s].sent < MaxUp
  /\ SetUser(s, [user[s] EXCEPT !.sent = @ + 1])
  /\ UNCHANGED <<link, serving, epoch, up, down, server, client, dest>>

UserCloses(s) ==
  /\ user[s].state = "open"
  /\ SetUser(s, [user[s] EXCEPT !.state = "fin"])
  /\ UNCHANGED <<link, serving, epoch, up, down, server, client, dest>>

DestSends(s) ==
  /\ dest[s].state = "open" /\ dest[s].sent < MaxDown
  /\ SetDest(s, [dest[s] EXCEPT !.sent = @ + 1])
  /\ UNCHANGED <<link, serving, epoch, up, down, server, client, user>>

DestCloses(s) ==
  /\ dest[s].state = "open"
  /\ SetDest(s, [dest[s] EXCEPT !.state = "fin"])
  /\ UNCHANGED <<link, serving, epoch, up, down, server, client, user>>

\* A peer reads no more, for good, and the buffers on the way to it are full;
\* it makes a difference while there is a session that writes to it.
UserStopsReading(s) ==
  /\ Known(s) /\ user[s].state \in {"open", "fin"}
  /\ SetUser(s, [user[s] EXCEPT !.deaf = TRUE])
  /\ UNCHANGED <<link, serving, epoch, up, down, server, client, dest>>

DestStopsReading(s) ==
  /\ Relayed(s) /\ dest[s].state \in {"open", "fin"}
  /\ SetDest(s, [dest[s] EXCEPT !.deaf = TRUE])
  /\ UNCHANGED <<link, serving, epoch, up, down, server, client, user>>

Environment(s) == \/ RequestSession(s) \/ RequestFails(s)
                  \/ UserSends(s) \/ UserCloses(s) \/ UserStopsReading(s)
                  \/ DestSends(s) \/ DestCloses(s) \/ DestStopsReading(s)

\* The steps of the goroutine of a session at the server, and at the client.
AtServer(s) == \/ Listen(s) \/ CreateTimesOut(s) \/ SendExtra(s)
               \/ StoreProxy(s) \/ ReadUser(s) \/ UserEOF(s) \/ DeleteProxy(s)

AtClient(s) == \/ DialSucceeds(s) \/ ReplySuccess(s) \/ DialFails(s)
               \/ ReadDest(s) \/ DestEOF(s) \/ DeleteSession(s)

Websocket == Break \/ ClientNotices \/ ServerNotices \/ ClientPanics \/ Reconnect

Next == \/ ServerReads \/ ClientReads \/ Websocket
        \/ \E s \in Session : AtServer(s) \/ AtClient(s) \/ Environment(s)

Spec == Init /\ [][Next]_vars

\* Goroutines that can run do, and timers fire; a reader that waits in a write
\* cannot.  Nothing is assumed of users, destinations and the network.
FairSpec == /\ Spec
            /\ WF_vars(ServerReads) /\ WF_vars(ClientReads)
            /\ \A s \in Session : WF_vars(AtServer(s)) /\ WF_vars(AtClient(s))

-----------------------------------------------------------------------------
(* Properties                                                              *)

TypeOK ==
  /\ link \in {"up", "broken", "nil"} /\ serving \in BOOLEAN /\ epoch \in 0..MaxBreaks
  /\ up \in Seq(Message) /\ down \in Seq(Message)
  /\ server \in [Session -> ServerState] /\ client \in [Session -> ClientState]
  /\ user \in [Session -> Connection] /\ dest \in [Session -> Connection]
  /\ \A s \in Session : user[s].read <= user[s].sent /\ dest[s].read <= dest[s].sent

InFlight(queue, type, s) == \E i \in DOMAIN queue : queue[i].type = type /\ queue[i].session = s

\* What a user sends never reaches the client before the session is in the
\* client's map, so onProxySessionDataFromTunnel drops data only of a session
\* that has ended: the client stores the session before it answers, and the
\* server sends nothing before the answer.
DataFindsSession == \A s \in Session : InFlight(up, "data", s) => Dialled(s)

\* The same with the types of the variables.
SessionInv == TypeOK /\ DataFindsSession

\* The destination gets the user's items in order and without a gap, whatever
\* breaks: requests sent along with the socks5 request, a reconnect and a
\* panic of the client included.
Upstream == INSTANCE StreamSpec WITH sent <- [s \in Session |-> user[s].sent],
                                    got <- [s \in Session |-> dest[s].got]
UpstreamIsStream == Upstream!Spec

\* The other direction has no such guarantee: items that arrive between the
\* answer and proxys.Store are dropped (onProxySessionDataFromTunnel), and the
\* client is told to close.  So a user's download may lack its beginning, never
\* a part between two items it got; and if it does, the client is closing the
\* destination's connection, and what is lost is not followed by more for long.
\* Nobody closes the user's connection: a client that was told to close does
\* not answer, and the connection stays open, silent, until the user leaves.
Run(got) == \A i \in DOMAIN got : got[i] = got[1] + i - 1
Gap(got) == got # <<>> /\ got[1] # 1
Closing(s) == InFlight(up, "close", s) \/ client[s].byServer \/ client[s].pc \in {"eof", "done"}
GapEndsDownload ==
  \A s \in Session :
    /\ Run(user[s].got)
    /\ Current(s) /\ Gap(user[s].got) => Closing(s)

\* When the destination closes while the server relays, the user's connection
\* is closed, unless the websocket breaks or the server's reader waits for
\* ever on a user that neither reads nor leaves.
CloseReachesUser ==
  \A s \in Session :
    server[s].pc = "relay" /\ Current(s) /\ InFlight(down, "close", s)
      ~> server[s].pc = "done" \/ ~Current(s) \/ []ServerBlocked

\* The client is not told of a user's leaving, nor of a request that timed
\* out; what ends the session there is the next data it sends: it is unknown
\* to the server, which answers with a close.  Again, a reader that waits for
\* ever keeps the data or the close from being read.
OrphanEnds ==
  \A s \in Session :
    server[s].pc = "done" /\ link = "up" /\ InFlight(down, "data", s)
      ~> client[s].pc = "done" \/ link # "up" \/ []ServerBlocked \/ []ClientBlocked
=============================================================================
