------------------------------ MODULE UdpRelay ------------------------------
(* The datagrams of a UDP association: from the user's address through the *)
(* UDP server, the node's tunnel and a socket of the client to their       *)
(* destination, and the answers back (ippop/api/socks5/udp.go,             *)
(* ippop/api/ws/udpproxy.go and tunnel.go, client/tunnel/udpproxy.go and   *)
(* tunnel.go).  Socks5 negotiates the association.                         *)
(*                                                                         *)
(* A pair of source and destination has an id, made by hashing, under      *)
(* which the server keeps a UDPProxy and the client a socket, each with a  *)
(* timeout of its own.  Both maps are filled by the first datagram, and    *)
(* nobody tells the other end when an entry goes.  As in ProxySession, a   *)
(* new websocket means a new Tunnel at the server, while the client keeps  *)
(* its maps.                                                               *)
(*                                                                         *)
(* Time is left out: a timeout may come at any moment.  The websockets of  *)
(* two Tunnels never overlap (TunnelLease is about that), and the user has *)
(* this one association (UdpAssociate is about several).                   *)
EXTENDS Socks5, Datagram

CONSTANTS Src,         \* addresses the user sends datagrams from
          Datagrams,   \* what it sends: sequences of bytes
          PublicDest,  \* destinations that resolve to a public address
          Id,          \* session ids
          BufLen,      \* what a read of a UDP socket returns at most: 4096 bytes
          AnswerTo,    \* what the destination answers to the n-th datagram
          SessionId,   \* uuid.NewSHA1, of the texts of source and destination
                       \* written one after the other
          MaxSend,     \* bound: datagrams
          MaxBreaks    \* bound: times the websocket breaks

\* ReadFromUDP, at the server and at the client: what does not fit in the
\* buffer is dropped, without an error.
Received(bb) == SubSeq(bb, 1, IF Len(bb) < BufLen THEN Len(bb) ELSE BufLen)

Readable == {bb \in {Received(b) : b \in Datagrams} : WellFormed(bb)}
Dest == {toAddress(newDatagramFromBytes(bb)) : bb \in Readable}

\* SessionId need not be injective: "1.2.3.4:5" before "31.1.1.1:80" reads
\* like "1.2.3.4:53" before "1.1.1.1:80".
ASSUME RelayAssumption ==
  /\ Datagrams \subseteq Seq(Byte)
  /\ BufLen \in Nat /\ AnswerTo \in [1..MaxSend -> Seq(Byte)]
  /\ SessionId \in [Src \X Dest -> Id]
  /\ MaxSend \in Nat /\ MaxBreaks \in Nat
  /\ \A s \in Src, d \in Dest : [src |-> s, dest |-> d] # None

VARIABLES
  link,     \* the client's t.conn: "up", "broken" (not noticed), "nil"
  serving,  \* the server's Tunnel is still in serve, and registered
  epoch,    \* number of the server's current Tunnel
  up,       \* messages from server to client
  down,     \* messages from client to server
  rx,       \* the goroutine of the UDP server: handleUDPConn, for a datagram
  proxys,   \* the current Tunnel's UDPProxys, by id
  socks,    \* the client's proxyUDPs and the goroutine that serves each
  atDest,   \* datagrams that left each socket and may still be answered
  asked,    \* history: the datagrams accepted, with their source
  got,      \* history: the answers given to users
  forgot    \* history: ids whose UDPProxy is gone since it was last stored

relay == <<link, serving, epoch, up, down, rx, proxys, socks, atDest, asked, got, forgot>>

vars == <<negotiation, relay>>

Entry == [src : Src, dest : Dest]
IdOf(entry) == SessionId[entry.src, entry.dest]

Idle == [pc |-> "read"]

Init ==
  /\ NegotiationInit
  /\ link = "up" /\ serving = TRUE /\ epoch = 0
  /\ up = <<>> /\ down = <<>>
  /\ rx = Idle
  /\ proxys = [i \in Id |-> None]
  /\ socks = [i \in Id |-> None]
  /\ atDest = [i \in Id |-> {}]
  /\ asked = <<>> /\ got = {} /\ forgot = {}

-----------------------------------------------------------------------------
(* The server, towards the node.                                           *)

\* What handleUDPConn does not drop: a datagram that can be read, from an
\* address with an association, to a public address.
Accepted(bb) ==
  /\ pc = "associated"
  /\ WellFormed(bb)
  /\ toAddress(newDatagramFromBytes(bb)) \in PublicDest

\* The tunnel of the user's node, if it is there; the rate limiters it is given
\* are left out.
getTunnelByUser == serving

\* Mutant: a new UDPProxy is not stored.
HandleUDPConn_NotStored(src, bb) ==
  LET d     == newDatagramFromBytes(Received(bb))
      entry == [src |-> src, dest |-> toAddress(d)]
      id    == IdOf(entry)
  IN  /\ rx = Idle /\ Accepted(Received(bb)) /\ getTunnelByUser
      /\ Len(asked) < MaxSend
      /\ asked' = Append(asked, [src |-> src, bytes |-> bb])
      /\ rx' = [pc |-> "write", id |-> id, entry |-> entry, n |-> Len(asked) + 1,
                data |-> d.data, epoch |-> epoch]
      /\ UNCHANGED <<link, serving, epoch, up, down, proxys, socks, atDest, got, forgot>>

\* serve, handleUDPConn and HandleSocks5UDP, to the Load in acceptSocks5UDPData.  The
\* UDPProxy found writes to the destination it was made for.
HandleUDPConn(src, bb) ==
  LET d     == newDatagramFromBytes(Received(bb))
      entry == [src |-> src, dest |-> toAddress(d)]
      id    == IdOf(entry)
      found == proxys[id] # None
  IN  /\ rx = Idle /\ Accepted(Received(bb)) /\ getTunnelByUser
      /\ Len(asked) < MaxSend
      /\ asked' = Append(asked, [src |-> src, bytes |-> bb])
      /\ rx' = [pc    |-> IF found THEN "write" ELSE "store",
                id    |-> id,
                entry |-> IF found THEN proxys[id] ELSE entry,
                n     |-> Len(asked) + 1,
                data  |-> d.data,
                epoch |-> epoch]
      /\ UNCHANGED <<link, serving, epoch, up, down, proxys, socks, atDest, got, forgot>>

\* The Tunnel may have gone since, and its map with it.
StoreProxy ==
  /\ rx.pc = "store"
  /\ rx' = [rx EXCEPT !.pc = "write"]
  /\ IF serving /\ rx.epoch = epoch
       THEN /\ proxys' = [proxys EXCEPT ![rx.id] = rx.entry]
            /\ forgot' = forgot \ {rx.id}
       ELSE UNCHANGED <<proxys, forgot>>
  /\ UNCHANGED <<link, serving, epoch, up, down, socks, atDest, asked, got>>

\* A write to a websocket that has broken is lost, noticed or not.
WriteToDest ==
  /\ rx.pc = "write"
  /\ rx' = Idle
  /\ up' = IF link = "up" /\ rx.epoch = epoch
           THEN Append(up, [id |-> rx.id, addr |-> rx.entry.dest, n |-> rx.n, data |-> rx.data])
           ELSE up
  /\ UNCHANGED <<link, serving, epoch, down, proxys, socks, atDest, asked, got, forgot>>

\* waitTimeout, whose check of activeTime does not keep a datagram from coming
\* in before the Delete.
WaitTimeout(id) ==
  /\ proxys[id] # None
  /\ proxys' = [proxys EXCEPT ![id] = None]
  /\ forgot' = forgot \cup {id}
  /\ UNCHANGED <<link, serving, epoch, up, down, rx, socks, atDest, asked, got>>

-----------------------------------------------------------------------------
(* The client.                                                             *)

\* A connected socket, until serve closes it.
Socket(dest, open) == [dest |-> dest, open |-> open]

\* UDPProxy.write.
Write(id, m) == atDest' = [atDest EXCEPT ![id] = @ \cup {[n |-> m.n, data |-> m.data]}]

\* onProxyUDPDataFromTunnel: to the socket of the id, or to a new one.  The
\* address cannot be resolved or dialled, or the write fails: the datagram is
\* lost, and a new socket that could not be written to is never closed.
ClientReads ==
  /\ link \in {"up", "broken"} /\ up # <<>>
  /\ up' = Tail(up)
  /\ LET m == Head(up)
     IN  \/ /\ socks[m.id] = None
            /\ socks' = [socks EXCEPT ![m.id] = Socket(m.addr, TRUE)]
            /\ Write(m.id, m)
         \/ /\ socks[m.id] # None /\ socks[m.id].open
            /\ Write(m.id, m)
            /\ UNCHANGED socks
         \/ UNCHANGED <<socks, atDest>>
  /\ UNCHANGED <<link, serving, epoch, down, rx, proxys, asked, got, forgot>>

\* The destination answers and serve passes on what it reads of that, which is
\* left out of the message: see ToSrc.  On a websocket that has
\* broken it is lost; when Serve has cleared t.conn the process panics, and is
\* started anew.
Answer(id, d) ==
  /\ d \in atDest[id] /\ socks[id].open
  /\ IF link = "nil"
       THEN /\ socks' = [i \in Id |-> None] /\ atDest' = [i \in Id |-> {}]
            /\ UNCHANGED down
       ELSE /\ atDest' = [atDest EXCEPT ![id] = @ \ {d}]
            /\ down' = IF link = "up" THEN Append(down, [id |-> id, n |-> d.n]) ELSE down
            /\ UNCHANGED socks
  /\ UNCHANGED <<link, serving, epoch, up, rx, proxys, asked, got, forgot>>

\* The deferred calls of serve: the socket is closed before its entry goes.
ReadTimesOut(id) ==
  /\ socks[id] # None /\ socks[id].open
  /\ socks' = [socks EXCEPT ![id].open = FALSE]
  /\ atDest' = [atDest EXCEPT ![id] = {}]
  /\ UNCHANGED <<link, serving, epoch, up, down, rx, proxys, asked, got, forgot>>

\* Between the two a datagram finds the closed socket.
ServeReturns(id) ==
  /\ socks[id] # None /\ ~socks[id].open
  /\ socks' = [socks EXCEPT ![id] = None]
  /\ UNCHANGED <<link, serving, epoch, up, down, rx, proxys, atDest, asked, got, forgot>>

-----------------------------------------------------------------------------
(* The server, towards the user.                                           *)

\* What writeToSrc gives to whom.
ToSrc(entry, n) ==
  [n |-> n, to |-> entry.src, bytes |-> Bytes(NewDatagram(entry.dest, Received(AnswerTo[n])))]

\* onProxyUDPDataFromTunnel.  The UDP server is closed when the association is
\* over.
ServerReads ==
  /\ serving /\ down # <<>>
  /\ down' = Tail(down)
  /\ LET m == Head(down)
     IN  got' = IF proxys[m.id] # None /\ pc = "associated"
                THEN got \cup {ToSrc(proxys[m.id], m.n)}
                ELSE got
  /\ UNCHANGED <<link, serving, epoch, up, rx, proxys, socks, atDest, asked, forgot>>

-----------------------------------------------------------------------------
(* The websocket: see ProxySession.                                        *)

Break ==
  /\ link = "up" /\ epoch < MaxBreaks
  /\ link' = "broken"
  /\ \E k \in 0..Len(up) : up' = SubSeq(up, 1, k)
  /\ \E k \in 0..Len(down) : down' = SubSeq(down, 1, k)
  /\ UNCHANGED <<serving, epoch, rx, proxys, socks, atDest, asked, got, forgot>>

ClientNotices ==
  /\ link = "broken" /\ up = <<>>
  /\ link' = "nil"
  /\ UNCHANGED <<serving, epoch, up, down, rx, proxys, socks, atDest, asked, got, forgot>>

\* The Tunnel leaves the manager's map, and its UDPProxys go with it.
ServerNotices ==
  /\ link # "up" /\ serving /\ down = <<>>
  /\ serving' = FALSE
  /\ proxys' = [i \in Id |-> None]
  /\ forgot' = Id
  /\ UNCHANGED <<link, epoch, up, down, rx, socks, atDest, asked, got>>

Reconnect ==
  /\ link = "nil" /\ ~serving
  /\ link' = "up" /\ serving' = TRUE /\ epoch' = epoch + 1
  /\ UNCHANGED <<up, down, rx, proxys, socks, atDest, asked, got, forgot>>

-----------------------------------------------------------------------------

RelayStep ==
  \/ \E src \in Src, bb \in Datagrams : HandleUDPConn(src, bb)
  \/ StoreProxy \/ WriteToDest \/ ClientReads \/ ServerReads
  \/ \E id \in Id : \/ WaitTimeout(id) \/ ReadTimesOut(id) \/ ServeReturns(id)
                    \/ \E d \in atDest[id] : Answer(id, d)
  \/ Break \/ ClientNotices \/ ServerNotices \/ Reconnect

Next == \/ (ClientStep \/ ServerStep) /\ UNCHANGED relay
        \/ RelayStep /\ UNCHANGED negotiation

Spec == Init /\ [][Next]_vars

\* The goroutine of the connection runs when it can.  Nothing is assumed of
\* the client, the destinations and the network.
FairSpec == Spec /\ WF_vars(ServerStep /\ UNCHANGED relay)

-----------------------------------------------------------------------------
(* Properties.                                                             *)

Delivery == [n : 1..MaxSend, data : Seq(Byte)]

RelayTypeOK ==
  /\ link \in {"up", "broken", "nil"} /\ serving \in BOOLEAN /\ epoch \in 0..MaxBreaks
  /\ up \in Seq([id : Id, addr : Dest, n : 1..MaxSend, data : Seq(Byte)])
  /\ down \in Seq([id : Id, n : 1..MaxSend])
  /\ rx = Idle \/ rx \in [pc : {"store", "write"}, id : Id, entry : Entry, n : 1..MaxSend,
                          data : Seq(Byte), epoch : 0..MaxBreaks]
  /\ proxys \in [Id -> Entry \cup {None}]
  /\ socks \in [Id -> [dest : Dest, open : BOOLEAN] \cup {None}]
  /\ atDest \in [Id -> SUBSET Delivery]
  /\ asked \in Seq([src : Src, bytes : Datagrams]) /\ Len(asked) <= MaxSend
  /\ \A g \in got : g.n \in 1..MaxSend /\ g.to \in Src
  /\ forgot \subseteq Id

TypeOK == NegotiationTypeOK /\ RelayTypeOK

AskedDest(n) == toAddress(newDatagramFromBytes(Received(asked[n].bytes)))

\* Another source and destination hash to the id of this datagram.
Collides(n) ==
  \E e \in Entry : /\ e # [src |-> asked[n].src, dest |-> AskedDest(n)]
                   /\ IdOf(e) = SessionId[asked[n].src, AskedDest(n)]

\* A datagram leaves the client for the destination its user wrote in its
\* header, with the data after the header and nothing else, whatever sockets
\* and UDPProxys of earlier datagrams, earlier Tunnels and other users are
\* still about - unless another pair has the same id.  A datagram longer than
\* the read buffer leaves without its end, and nobody is told; fragments leave
\* as datagrams of their own.
DatagramsReachDest ==
  \A i \in Id : \A d \in atDest[i] :
    Collides(d.n) \/ Says(Received(asked[d.n].bytes), socks[i].dest, d.data)

\* An answer is given to the source that asked, and to nobody else; if the
\* destination was an address, with a header that says where it comes from and
\* what of it fitted in the client's buffer.  (To the name of a destination
\* NewDatagram gives two lengths.)
AnswersComeHome ==
  \A g \in got :
    \/ Collides(g.n)
    \/ /\ g.to = asked[g.n].src
       /\ IsIP(AskedDest(g.n)) =>
            g.bytes = Encode(AskedDest(g.n), Received(AnswerTo[g.n]))

\* An answer is dropped at the server only because the UDPProxy timed out or
\* its Tunnel is gone, never because it comes before the UDPProxy is stored.
AnswersFindProxy ==
  \A k \in DOMAIN down : proxys[down[k].id] # None \/ down[k].id \in forgot

\* The same with the types of the variables.
RelayInv == TypeOK /\ AnswersFindProxy
=============================================================================
