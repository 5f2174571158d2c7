----------------------------- MODULE HttpProxy -----------------------------
(* Requests of http proxy users through the websockets of browsers         *)
(* (ippop/httpproxy: httpproxy.go, tunnel.go, req.go).                     *)
(*                                                                         *)
(* Each request is a goroutine that picks a tunnel, stores the request in  *)
(* the tunnel's map, sends it and then waits in a read of the user's       *)
(* connection.  The tunnel's one reader finds the request of each answer   *)
(* in the map, writes to the user, and closes the user's connection, which *)
(* ends the wait, when as much was written as the headers had promised.    *)
(*                                                                         *)
(* The reader writes to users' connections without a deadline: a user that *)
(* stops reading stops the reader, and with it all requests of the tunnel, *)
(* until it leaves.                                                        *)
(*                                                                         *)
(* The browser is not part of the repository.  It answers a request with   *)
(* the headers and then the body, or with an error at some point.  A body  *)
(* is a number of items of one unit of length; item 0 is the headers.      *)
(* Headers whose Content-Length is not a natural number are left out.      *)
EXTENDS Integers, Sequences

CONSTANTS Request,     \* requests, each with a fresh uuid
          Tunnel,      \* browsers' websockets
          MaxBody,     \* bound: items of a request's response body
          NoTun        \* of a request that has picked no tunnel

ASSUME BodyAssumption == MaxBody \in [Request -> Nat]
ASSUME NoTunAssumption == NoTun \notin Tunnel

VARIABLES
  sock,     \* each tunnel's websocket: "open", "dead", "gone" once serve returned
  down,     \* messages from each browser
  reqs,     \* the map of each tunnel
  handler,  \* where each request's goroutine is, and the tunnel it picked
  length,   \* Req.rspContentLength
  received, \* Req.rspDataLength
  conn,     \* the user's connection: "open", or "closed" by the proxy
  left,     \* the user has closed its side
  deaf,     \* the requests whose users stay and no longer read
  got,      \* the items the user was given
  browser   \* what the browser has made of each request

vars == <<sock, down, reqs, handler, length, received, conn, left, deaf, got, browser>>
reqVars == <<length, received>>

HandlerPC == {"pick", "store", "write", "proxy", "delete", "close", "done"}
BrowserState == {"none", "asked", "body", "end", "failed"}
Message == [type : {"headers", "data", "error"}, req : Request, n : Nat]
Msg(type, r, n) == [type |-> type, req |-> r, n |-> n]

Init ==
  /\ sock = [t \in Tunnel |-> "open"]
  /\ down = [t \in Tunnel |-> <<>>]
  /\ reqs = [t \in Tunnel |-> {}]
  /\ handler = [r \in Request |-> [pc |-> "pick", tun |-> NoTun]]
  /\ length = [r \in Request |-> 0]
  /\ received = [r \in Request |-> 0]
  /\ conn = [r \in Request |-> "open"]
  /\ left = [r \in Request |-> FALSE]
  /\ deaf = {}
  /\ got = [r \in Request |-> <<>>]
  /\ browser = [r \in Request |-> [state |-> "none", len |-> 0, declared |-> 0, sent |-> 0]]

Goto(r, from, to) == handler[r].pc = from /\ handler' = [handler EXCEPT ![r].pc = to]
Close(r) == conn' = [conn EXCEPT ![r] = "closed"]
Tun(r) == handler[r].tun

\* A write to the user does not return, unless its connection is closed.
Blocked(r) == r \in deaf /\ conn[r] = "open"

\* Req.write: nothing reaches the user of a closed connection.
Write(r, item) ==
  got' = IF conn[r] = "open" THEN [got EXCEPT ![r] = Append(@, item)] ELSE got

-----------------------------------------------------------------------------
(* The goroutine of a request.                                             *)

\* HandleProxy answers a CONNECT, and handleHTTP a request whose body is too
\* long, with an error and leaves the connection to the http server.
Refuse(r) ==
  /\ Goto(r, "pick", "done")
  /\ UNCHANGED <<sock, down, reqs, reqVars, conn, left, got, browser>>

\* randomTrunnelForUser: whichever tunnel is first in the manager's map.
Pick(r, t) ==
  /\ handler[r].pc = "pick" /\ sock[t] # "gone"
  /\ handler' = [handler EXCEPT ![r] = [pc |-> "store", tun |-> t]]
  /\ UNCHANGED <<sock, down, reqs, reqVars, conn, left, got, browser>>

NoTunnel(r) ==
  /\ Goto(r, "pick", "close")
  /\ UNCHANGED <<sock, down, reqs, reqVars, conn, left, got, browser>>

StoreReq(r) ==
  /\ Goto(r, "store", "write")
  /\ reqs' = [reqs EXCEPT ![Tun(r)] = @ \cup {r}]
  /\ UNCHANGED <<sock, down, reqVars, conn, left, got, browser>>

\* The browser gets the request.
WriteRequest(r) ==
  /\ Goto(r, "write", "proxy")
  /\ sock[Tun(r)] = "open"
  /\ browser' = [browser EXCEPT ![r].state = "asked"]
  /\ UNCHANGED <<sock, down, reqs, reqVars, conn, left, got>>

\* Mutant: a failed write returns before the deferred Delete is set up.
WriteLost_KeepsReq(r) ==
  /\ Goto(r, "write", "proxy") \/ Goto(r, "write", "close")
  /\ sock[Tun(r)] # "open"
  /\ UNCHANGED <<sock, down, reqs, reqVars, conn, left, got, browser>>

\* A write on a dead websocket fails, or goes into its buffer and is lost.
WriteLost(r) ==
  /\ Goto(r, "write", "proxy") \/ Goto(r, "write", "delete")
  /\ sock[Tun(r)] # "open"
  /\ UNCHANGED <<sock, down, reqs, reqVars, conn, left, got, browser>>

\* Req.proxy: the read of the user's connection fails, or more of the user's
\* data could not be sent.
ProxyReturns(r) ==
  /\ Goto(r, "proxy", "delete")
  /\ conn[r] = "closed" \/ left[r] \/ sock[Tun(r)] # "open"
  /\ UNCHANGED <<sock, down, reqs, reqVars, conn, left, got, browser>>

\* The deferred calls of onHTTPRequest and of handleHTTP.
DeleteReq(r) ==
  /\ Goto(r, "delete", "close")
  /\ reqs' = [reqs EXCEPT ![Tun(r)] = @ \ {r}]
  /\ UNCHANGED <<sock, down, reqVars, conn, left, got, browser>>

CloseConn(r) ==
  /\ Goto(r, "close", "done") /\ Close(r)
  /\ UNCHANGED <<sock, down, reqs, reqVars, left, got, browser>>

-----------------------------------------------------------------------------
(* The reader of a tunnel.                                                 *)

Receive(t, type) ==
  /\ sock[t] # "gone" /\ down[t] # <<>> /\ Head(down[t]).type = type
  /\ down' = [down EXCEPT ![t] = Tail(@)]

\* A request that is not in the map: the message is dropped.
DropMessage(t) ==
  /\ \E type \in {"headers", "data", "error"} : Receive(t, type)
  /\ Head(down[t]).req \notin reqs[t]
  /\ UNCHANGED <<sock, reqs, handler, reqVars, conn, left, got, browser>>

\* A response without a body, or without a Content-Length, ends here; the
\* request stays in the map until its goroutine leaves.
OnHeaders(t) ==
  LET r == Head(down[t]).req
      n == Head(down[t]).n
  IN  /\ Receive(t, "headers") /\ r \in reqs[t] /\ ~Blocked(r)
      /\ length' = [length EXCEPT ![r] = n]
      /\ Write(r, 0)
      /\ conn' = IF n = 0 THEN [conn EXCEPT ![r] = "closed"] ELSE conn
      /\ UNCHANGED <<sock, reqs, handler, received, left, browser>>

\* An item of the body is written and counted; the last one, when it is
\* complete, closes the user's connection and takes the request out of the map.
OnDataUntil(t, complete) ==
  LET r == Head(down[t]).req
  IN  /\ Receive(t, "data") /\ r \in reqs[t] /\ ~Blocked(r)
      /\ received' = [received EXCEPT ![r] = @ + 1]
      /\ Write(r, Head(down[t]).n)
      /\ conn' = IF complete THEN [conn EXCEPT ![r] = "closed"] ELSE conn
      /\ reqs' = IF complete THEN [reqs EXCEPT ![t] = @ \ {r}] ELSE reqs
      /\ UNCHANGED <<sock, handler, length, left, browser>>

\* Mutant: one item too early.
OnData_OffByOne(t) ==
  LET r == Head(down[t]).req IN OnDataUntil(t, received[r] + 2 >= length[r])
\* Mutant: only once more than the length has come.
OnData_StrictlyMore(t) ==
  LET r == Head(down[t]).req IN OnDataUntil(t, received[r] + 1 > length[r])

\* The response ends when as many items have come as the headers promised.
OnData(t) ==
  LET r == Head(down[t]).req IN OnDataUntil(t, received[r] + 1 >= length[r])

OnError(t) ==
  LET r == Head(down[t]).req
  IN  /\ Receive(t, "error") /\ r \in reqs[t]
      /\ Close(r)
      /\ UNCHANGED <<sock, reqs, handler, reqVars, left, got, browser>>

\* The read fails once what had arrived was read.
ServeReturns(t) ==
  /\ sock[t] = "dead" /\ down[t] = <<>>
  /\ sock' = [sock EXCEPT ![t] = "gone"]
  /\ UNCHANGED <<down, reqs, handler, reqVars, conn, left, deaf, got, browser>>

-----------------------------------------------------------------------------
(* Users, browsers and the network.                                        *)

UserLeaves(r) ==
  /\ ~left[r] /\ conn[r] = "open"
  /\ left' = [left EXCEPT ![r] = TRUE] /\ deaf' = deaf \ {r}
  /\ UNCHANGED <<sock, down, reqs, handler, reqVars, conn, got, browser>>

\* The user stops reading for good, and the buffers on the way to it are full.
UserStopsReading(r) ==
  /\ r \notin deaf /\ conn[r] = "open" /\ ~left[r]
  /\ deaf' = deaf \cup {r}
  /\ UNCHANGED <<sock, down, reqs, handler, reqVars, conn, left, got, browser>>

Answers(r, from, msg, to) ==
  /\ browser[r].state = from /\ sock[Tun(r)] = "open"
  /\ down' = [down EXCEPT ![Tun(r)] = Append(@, msg)]
  /\ browser' = [browser EXCEPT ![r] = to]
  /\ UNCHANGED <<sock, reqs, handler, reqVars, conn, left, got>>

\* The answer has a body of len items, and a Content-Length that need not agree
\* with it: it is absent or 0, the request was a HEAD, the body was decoded.
BrowserHeaders(r) ==
  \E len \in 0..MaxBody[r], declared \in 0..MaxBody[r] + 1 :
    Answers(r, "asked", Msg("headers", r, declared),
            [state |-> IF len = 0 THEN "end" ELSE "body", len |-> len, declared |-> declared, sent |-> 0])

BrowserData(r) ==
  LET b == browser[r]
      k == b.sent + 1
  IN  Answers(r, "body", Msg("data", r, k),
              [b EXCEPT !.sent = k, !.state = IF k = b.len THEN "end" ELSE "body"])

BrowserFails(r) ==
  \E from \in {"asked", "body"} :
    Answers(r, from, Msg("error", r, 0), [browser[r] EXCEPT !.state = "failed"])

\* The websocket breaks, is replaced by the browser's next one, or is closed
\* by the keepalive: of what was under way, some has arrived.
SocketDies(t) ==
  /\ sock[t] = "open"
  /\ sock' = [sock EXCEPT ![t] = "dead"]
  /\ \E k \in 0..Len(down[t]) : down' = [down EXCEPT ![t] = SubSeq(@, 1, k)]
  /\ UNCHANGED <<reqs, handler, reqVars, conn, left, got, browser>>

HandlerSteps(r) ==
  /\ UNCHANGED deaf
  /\ \/ \E t \in Tunnel : Pick(r, t)
     \/ Refuse(r) \/ NoTunnel(r) \/ StoreReq(r) \/ WriteRequest(r) \/ WriteLost(r)

HandlerReturns(r) == UNCHANGED deaf /\ (ProxyReturns(r) \/ DeleteReq(r) \/ CloseConn(r))

ReaderSteps(t) == UNCHANGED deaf /\ (DropMessage(t) \/ OnHeaders(t) \/ OnData(t) \/ OnError(t))

Environment ==
  \/ \E r \in Request : UserLeaves(r) \/ UserStopsReading(r)
  \/ /\ UNCHANGED deaf
     /\ \/ \E r \in Request : BrowserHeaders(r) \/ BrowserData(r) \/ BrowserFails(r)
        \/ \E t \in Tunnel : SocketDies(t)

Next ==
  \/ \E r \in Request : HandlerSteps(r) \/ HandlerReturns(r)
  \/ \E t \in Tunnel : ReaderSteps(t) \/ ServeReturns(t)
  \/ Environment

Spec == Init /\ [][Next]_vars

\* The goroutines of a request that is over and of the tunnels' readers run,
\* and are stopped only in a write to a user.  Nothing is assumed of users,
\* browsers or the network.
FairSpec ==
  /\ Spec
  /\ \A r \in Request : WF_vars(HandlerReturns(r))
  /\ \A t \in Tunnel : WF_vars(ReaderSteps(t))

-----------------------------------------------------------------------------
(* Properties                                                              *)

RequestsTypeOK ==
  /\ sock \in [Tunnel -> {"open", "dead", "gone"}]
  /\ down \in [Tunnel -> Seq(Message)]
  /\ reqs \in [Tunnel -> SUBSET Request]
  /\ handler \in [Request -> [pc : HandlerPC, tun : Tunnel \cup {NoTun}]]
  /\ length \in [Request -> Nat]
  /\ received \in [Request -> Nat]
  /\ conn \in [Request -> {"open", "closed"}]
  /\ left \in [Request -> BOOLEAN]
  /\ got \in [Request -> Seq(Nat)]
  /\ browser \in [Request -> [state : BrowserState, len : Nat, declared : Nat, sent : Nat]]
  /\ \A r \in Request : length[r] <= MaxBody[r] + 1 /\ received[r] <= MaxBody[r]

TypeOK == RequestsTypeOK /\ deaf \subseteq Request

\* A user whose connection the proxy closes has been given the whole response,
\* unless the user left, the websocket broke, the browser failed, no tunnel
\* was found, or the response did not say how long its body is.
ClosedIsWhole ==
  \A r \in Request :
    /\ conn[r] = "closed" /\ ~left[r]
    /\ Tun(r) # NoTun /\ sock[Tun(r)] = "open"
    /\ browser[r].state # "failed" /\ browser[r].declared = browser[r].len
    => got[r] = [i \in 1..(browser[r].len + 1) |-> i - 1]

\* The map of a tunnel holds requests whose goroutine will delete them: none
\* is left behind on any path.
ReqsAreLive ==
  \A t \in Tunnel : \A r \in reqs[t] : Tun(r) = t /\ handler[r].pc \in {"write", "proxy", "delete"}

\* The same with the types of the variables.
ReqsInv == TypeOK /\ ReqsAreLive

\* The browser has sent at least as much as the headers promised, or an error.
Answered(r) ==
  LET b == browser[r] IN b.state = "failed" \/ (b.state = "end" /\ b.declared <= b.len)

\* A request that the browser has answered ends, if the websocket stays up;
\* unless some user of the tunnel, for good, neither reads nor leaves.
AnsweredEnds ==
  \A r \in Request, t \in Tunnel :
    Tun(r) = t /\ Answered(r)
      ~> \/ handler[r].pc = "done" \/ sock[t] # "open"
         \/ [](\E q \in Request : Tun(q) = t /\ Blocked(q))
=============================================================================
