------------------------------- MODULE Socks5 -------------------------------
(* The negotiation of one socks5 connection (ippop/api/socks5/socks5.go    *)
(* and the first half of protocol.go), up to the point where it becomes a  *)
(* TCP session (ProxySession) or a UDP association (UdpAssociate).         *)
(*                                                                         *)
(* A message of the client is a unit of the stream, and so is an item of   *)
(* data; the server fills its bufio.Reader with whatever has arrived and   *)
(* reads on from there.  The client need not wait for replies: it may send *)
(* ahead, and it may leave.  Text and wording are left out.                *)
EXTENDS Users, Naturals, Sequences, SequencesExt

CONSTANT MaxData    \* bound: items of data a client sends

anonymousUserName == "anonymous"

VARIABLES
  enableAuth,  \* opts.EnableAuth
  client,      \* what the client does next, and the items it has sent
  wire,        \* sent by the client and not read from the connection yet
  buf,         \* the bufio.Reader's buffer
  pc,          \* where serveSocks5Conn is
  replies,     \* what the client has been told
  user,        \* r1.user, once there is a request
  request,     \* the request
  extra,       \* targetInfo.ExtraBytes
  vouched      \* history: the user HandleUserAuth let pass

negotiation == <<enableAuth, client, wire, buf, pc, replies, user, request, extra, vouched>>

Commands == {"connect", "bind", "associate", "other"}

\* A request's destination: an address type the server does not know, a name
\* or IPv4 address that is public, private, or resolves to nothing, and an IPv6
\* address, whose text is joined to the port without brackets and resolves to
\* nothing either.
Destinations == {"badType", "public", "private", "unresolved"}

\* A message is known by its version byte: a request is no greeting, garbage is
\* neither.
Greetings == [kind : {"greeting"}, methods : SUBSET {"none", "password"}]
Auths     == [kind : {"auth"}, user : User, pass : BOOLEAN]
Requests  == [kind : {"request"}, command : Commands, dest : Destinations]
DataItems == [kind : {"data"}, item : 1..MaxData]
Garbage   == [kind : {"garbage"}]
Message   == Greetings \cup Auths \cup Requests \cup DataItems \cup Garbage

ASSUME NegotiationAssumption ==
  MaxData \in Nat /\ None \notin User \cup {anonymousUserName} \cup Requests

PCs == {"version", "auth", "request", "handle", "connect", "associate",
        "session", "associated", "released", "closed"}
Replies == {"noAcceptable", "noAuth", "userPass", "authFailure", "authSuccess",
            "commandNotSupported", "success"}

NegotiationInit ==
  /\ enableAuth \in BOOLEAN
  /\ client = [next |-> "greeting", sent |-> 0]
  /\ wire = <<>> /\ buf = <<>>
  /\ pc = "version"
  /\ replies = <<>>
  /\ user = None /\ request = None
  /\ extra = <<>>
  /\ vouched = None

-----------------------------------------------------------------------------
(* The client.                                                             *)

Sends(message, from, next) ==
  /\ client.next \in from
  /\ client' = [client EXCEPT !.next = next]
  /\ wire' = Append(wire, message)
  /\ UNCHANGED <<enableAuth, buf, pc, replies, user, request, extra, vouched>>

SendGreeting == \E m \in Greetings \cup Garbage : Sends(m, {"greeting"}, "auth")
SendAuth     == \E m \in Auths \cup Garbage : Sends(m, {"auth"}, "request")
SendRequest  == \E m \in Requests \cup Garbage :
                  Sends(m, {"auth", "request"}, IF m \in Requests /\ m.command = "connect"
                                                THEN "data" ELSE "nothing")

\* Data after any other request is not used: it is left out.
SendData ==
  /\ client.next = "data" /\ client.sent < MaxData
  /\ client' = [client EXCEPT !.sent = @ + 1]
  /\ wire' = Append(wire, [kind |-> "data", item |-> client.sent + 1])
  /\ UNCHANGED <<enableAuth, buf, pc, replies, user, request, extra, vouched>>

LeaveClient ==
  /\ client.next # "left"
  /\ client' = [client EXCEPT !.next = "left"]
  /\ UNCHANGED <<enableAuth, wire, buf, pc, replies, user, request, extra, vouched>>

ClientStep == SendGreeting \/ SendAuth \/ SendRequest \/ SendData \/ LeaveClient

-----------------------------------------------------------------------------
(* The server.                                                             *)

Reading == pc \in {"version", "auth", "request"}

\* The reader's buffer is empty: it takes what has arrived, up to its size.
Fill ==
  /\ Reading /\ buf = <<>>
  /\ \E n \in 1..Len(wire) : /\ buf' = SubSeq(wire, 1, n)
                             /\ wire' = SubSeq(wire, n + 1, Len(wire))
  /\ UNCHANGED <<enableAuth, client, pc, replies, user, request, extra, vouched>>

\* Mutant: a read of the request that fails is tried again.
ReadFails_Retried ==
  /\ pc \in {"version", "auth"} /\ buf = <<>> /\ client.next = "left"
  /\ pc' = "closed"
  /\ UNCHANGED <<enableAuth, client, wire, buf, replies, user, request, extra, vouched>>

\* The connection ends or fails before the message is there: the deferred
\* call closes it.
ReadFails ==
  /\ Reading /\ buf = <<>> /\ client.next = "left"
  /\ pc' = "closed"
  /\ UNCHANGED <<enableAuth, client, wire, buf, replies, user, request, extra, vouched>>

\* A reply is given and the server goes on, or, to a client that has left,
\* cannot be written, which closes the connection.
Reply(reply, next) ==
  \/ replies' = Append(replies, reply) /\ pc' = next
  \/ client.next = "left" /\ pc' = "closed" /\ UNCHANGED replies

Quietly(next) == pc' = next /\ UNCHANGED replies

AuthMethod == IF enableAuth THEN "password" ELSE "none"

\* serveSocks5Conn and authenticate, to the reply to the methods offered.
ReadGreeting ==
  /\ pc = "version" /\ buf # <<>>
  /\ LET m == Head(buf)
     IN  CASE m.kind # "greeting"          -> Quietly("closed")
           [] AuthMethod \notin m.methods -> Reply("noAcceptable", "closed")
           [] AuthMethod = "password"     -> Reply("userPass", "auth")
           [] OTHER                       -> Reply("noAuth", "request")
  /\ buf' = Tail(buf)
  /\ UNCHANGED <<enableAuth, client, wire, user, request, extra, vouched>>

\* HandleUserAuth reads the user's record, which other services change at any
\* time, and refuses a user that it cannot read, that is not there, off, before
\* or after its time, or out of traffic, and a wrong password.
Accounts == {"good", "unread", "absent", "off", "outOfDate", "outOfTraffic"}
HandleUserAuth(m, account) == account = "good" /\ m.pass

\* Mutant: a wrong password is refused, but the handler goes on.
ReadAuth_GoesOn ==
  /\ pc = "auth" /\ buf # <<>>
  /\ LET m == Head(buf)
     IN  IF m.kind # "auth"
           THEN Quietly("closed") /\ UNCHANGED <<user, vouched>>
           ELSE \E account \in Accounts :
                  IF HandleUserAuth(m, account)
                    THEN /\ Reply("authSuccess", "request")
                         /\ user' = m.user /\ vouched' = m.user
                    ELSE Reply("authFailure", "request") /\ UNCHANGED <<user, vouched>>
  /\ buf' = Tail(buf)
  /\ UNCHANGED <<enableAuth, client, wire, request, extra>>

\* userPassAuth.
ReadAuth ==
  /\ pc = "auth" /\ buf # <<>>
  /\ LET m == Head(buf)
     IN  IF m.kind # "auth"
           THEN Quietly("closed") /\ UNCHANGED <<user, vouched>>
           ELSE \E account \in Accounts :
                  IF HandleUserAuth(m, account)
                    THEN /\ Reply("authSuccess", "request")
                         /\ user' = m.user /\ vouched' = m.user
                    ELSE Reply("authFailure", "closed") /\ UNCHANGED <<user, vouched>>
  /\ buf' = Tail(buf)
  /\ UNCHANGED <<enableAuth, client, wire, request, extra>>

\* newRequest and readAddrSpec; the request's user is the one authenticated,
\* or nobody.
ReadRequest ==
  /\ pc = "request" /\ buf # <<>>
  /\ LET m == Head(buf)
     IN  IF m.kind # "request" \/ m.dest = "badType"
           THEN Quietly("closed") /\ UNCHANGED <<user, request>>
           ELSE /\ Quietly("handle") /\ request' = m
                /\ user' = IF user = None THEN anonymousUserName ELSE user
  /\ buf' = Tail(buf)
  /\ UNCHANGED <<enableAuth, client, wire, extra, vouched>>

\* handleSocks5Request, for the commands without a handler; bind has one that
\* does the same.
HandleUnsupported ==
  /\ pc = "handle" /\ request.command \in {"bind", "other"}
  /\ Reply("commandNotSupported", "closed")
  /\ UNCHANGED <<enableAuth, client, wire, buf, user, request, extra, vouched>>

\* Mutant: what the reader has read ahead stays there.
HandleConnect_NotDrained ==
  /\ pc = "handle" /\ request.command = "connect"
  /\ IF request.dest # "public"
       THEN Quietly("closed") /\ UNCHANGED <<buf, extra>>
       ELSE /\ Reply("success", "connect")
            /\ UNCHANGED <<buf, extra>>
  /\ UNCHANGED <<enableAuth, client, wire, user, request, vouched>>

\* handleSocks5Connect: what the reader has read ahead goes with the request,
\* and the client is told of success before there is a session.
HandleConnect ==
  /\ pc = "handle" /\ request.command = "connect"
  /\ IF request.dest # "public"
       THEN Quietly("closed") /\ UNCHANGED <<buf, extra>>
       ELSE /\ Reply("success", "connect")
            /\ extra' = buf /\ buf' = <<>>
  /\ UNCHANGED <<enableAuth, client, wire, user, request, vouched>>

\* HandleSocks5TCP: the user has a tunnel, or the connection is closed.
HandleSocks5TCP ==
  /\ pc = "connect"
  /\ Quietly("session") \/ Quietly("closed")
  /\ UNCHANGED <<enableAuth, client, wire, buf, user, request, extra, vouched>>

\* handleSocks5Associate, whose counts and server are UdpAssociate's: there is
\* a server and its address is sent, or the request fails.
HandleAssociate ==
  /\ pc = "handle" /\ request.command = "associate"
  /\ Reply("success", "associated") \/ Quietly("closed")
  /\ UNCHANGED <<enableAuth, client, wire, buf, user, request, extra, vouched>>

\* io.Copy discards what the client sends and returns when it has left.  The
\* handler has then handled the request, and nothing closes the connection.
AssociateEnds ==
  /\ pc = "associated" /\ client.next = "left"
  /\ Quietly("released")
  /\ UNCHANGED <<enableAuth, client, wire, buf, user, request, extra, vouched>>

ServerStep ==
  \/ Fill \/ ReadFails \/ ReadGreeting \/ ReadAuth \/ ReadRequest
  \/ HandleUnsupported \/ HandleConnect \/ HandleSocks5TCP
  \/ HandleAssociate \/ AssociateEnds

-----------------------------------------------------------------------------
(* Properties.                                                             *)

Served == {"connect", "session", "associated", "released"}

NegotiationTypeOK ==
  /\ enableAuth \in BOOLEAN
  /\ client \in [next : {"greeting", "auth", "request", "data", "nothing", "left"}, sent : 0..MaxData]
  /\ wire \in Seq(Message) /\ buf \in Seq(Message) /\ extra \in Seq(Message)
  /\ pc \in PCs /\ replies \in Seq(Replies)
  /\ user \in User \cup {anonymousUserName, None} /\ vouched \in User \cup {None}
  /\ request \in Requests \cup {None}

\* A service that asks for passwords serves nobody, and tells nobody of
\* success, but the user whose password it has checked; one that does not
\* serves everybody as the anonymous user.  What a client sends ahead of the
\* replies, and in which order, makes no difference.
ServedAsAuthenticated ==
  pc \in Served \/ "success" \in ToSet(replies) =>
    /\ request # None
    /\ user = IF enableAuth THEN vouched ELSE anonymousUserName
    /\ user # None

\* What the client has sent after its request is complete and in order when
\* the connection is handed to a session: first what the reader had read
\* ahead, then what is still to be read from the connection.
NothingLostAtHandover ==
  pc \in {"connect", "session"} =>
    extra \o wire = [i \in 1..client.sent |-> [kind |-> "data", item |-> i]]

\* Wherever in the negotiation a client leaves, and whatever it has sent, the
\* goroutine of its connection does not stay behind: it closes the connection,
\* hands it to a session, or returns from an association.
LeftIsReleased == client.next = "left" ~> pc \in {"session", "released", "closed"}
=============================================================================
