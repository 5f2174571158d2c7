# A verification of titan-tunnel

titan-tunnel lends the IP addresses of many small machines ("nodes") to proxy users.  A node keeps one
websocket to a point of presence; a user connects to the point of presence with socks5; the connection
is carried through the websocket and comes out of the node.  This directory holds TLA+ models of the
parts of the program whose correctness depends on interleaving, on failure and on order, the TLC
instances that check them, and proofs of what matters most.

All paths are those of the repository, below `src/`.

## 1. Inventory

| part | state it keeps | operations | talks to |
|---|---|---|---|
| redis binding tables, `ippop/api/model` | per node a hash (with `bind_user`); zsets `node:zset`, `node:bind`, `node:free`; set `node:online`; per user a hash (with `route_node_id`, `off`) and a zset | bind, unbind, switch, allocate, register, online, offline, save, delete | written by the rpc and the api service and by the http proxy, which share nothing but redis (they run as processes of their own, or in one) |
| rpc handlers, `ippop/rpc/internal/logic` | none of their own, one goroutine per request | create, delete, modify, switch, start or stop a user, change a password, drop the user cache; list and get queries | redis; the api service by http for the cache |
| tunnel manager, `ippop/api/ws/tunmgr.go`, `nodews.go` | map of node id to tunnel; cache of users; traffic counters | accept a node's websocket, handle its going offline, find the tunnel of a user, save traffic, keep alive | redis; tunnels; the socks5 server |
| tunnel (server end), `ippop/api/ws/tunnel.go`, `tcpproxy.go`, `udpproxy.go` | the websocket; map of session id to proxy; list of sessions waiting for a create reply; lease channel | serve, create a session, relay, close, ping, handover | the node's client over the websocket; user connections |
| traffic counters, `ippop/api/ws/usertraffic.go` | bytes per user since the last save | add, snapshot and clear | the manager's timer |
| socks5 server, `ippop/api/socks5` | per user a UDP server and a count of associations; per user and address a count | authenticate, connect, associate, decode and encode datagrams | users; the tunnel manager |
| http proxy, `ippop/httpproxy` | map of node id to tunnel; requests waiting for a response | accept a node or browser websocket, pick a tunnel, forward a request, match response headers and body | http users; nodes; redis |
| client tunnel, `client/tunnel` | the websocket; map of session id to connection; map of UDP sessions | connect, serve, dial, relay, close, keep alive | the server end; destinations |
| client life cycle, `client/main.go`, `client/golib`, `client/bootstrap` | the current tunnel; the bootstrap list | start, stop, reconnect loop, refresh the list | client tunnel; manager |
| manager, `manager` | redis: node to point of presence, user to point of presence | pick a point of presence for a node, create and delete users, forward every other user operation | the rpc service of each point of presence |
| access tokens, configuration, logging, generated code | | | |

What is hard in this code:

* **Three services write the same redis tables** without a lock.  Every operation is several round trips:
  it reads, decides, and writes back the *whole* record it read.  Any other operation may have run in between.
* **A node that reconnects** is served by a new goroutine while the old one may still be cleaning up;
  the handover waits on a channel that the old goroutine signals only if it sees it in time.
* **A session is four goroutines at two machines** that meet through two message queues, with maps that
  are filled and emptied at different moments and a reply that may be given before anyone listens.
* **A websocket has one reader at each end**, which writes to users' and destinations' connections itself and
  without a deadline: a peer that takes no data keeps it from everything behind.
* **Counting**: UDP servers live as long as an association of the user; points of presence have limits.
* **Life cycle**: stop and start race with the reconnect loop.

### What makes each part correct

* Binding tables: a node serves at most one user; the node a user is routed to knows it; what can be
  allocated is registered, unbound and online (or was a browser); the two records of a binding agree; an operation
  on one field undoes another operation's write of another field only with a copy it read before.
* Tunnel manager: the registered tunnel of a node has a live goroutine; whoever serves is registered and
  online; a handover ends.
* Session: what the destination receives is a prefix of what the user sent; a download has no gap but
  perhaps at its beginning, and then the client closes its end; a session that ended at one end ends at the other;
  nothing is delivered to a session that was not dialled.
* socks5 negotiation: nobody is served, or told of success, before the password has been checked; what a
  client sends ahead of the replies is not lost; the goroutine of a client that left ends.
* socks5 associate: the server of a live association is open; a server without association is closed.
* UDP relay: a datagram leaves for the destination in its header with the data after it, as much as the server
  has read of it; an answer comes
  back to the address that asked, with a header that says where it comes from.
* http proxy: a response goes to the request that asked, and the connection is closed when all of it was
  written, not before.
* Client life cycle: at most one reconnect loop runs per start; after stop none runs; a client that is
  started again finds the list of servers it used.
* Manager: a user is on the point of presence the manager remembers; limits hold.

## 2. How the models are written

One module per component.  Its VARIABLES are the state the component keeps, an action is what one
goroutine does between two points at which another may run, and the action has the name of the function
(or of the part of it that it stands for).  A goroutine is a record with a program counter `pc` and the
local copies it carries.  The points of interleaving are those of the code: a redis round trip, a message
read from or written to a websocket, a send or receive on a channel, an operation of a `sync.Map`, a lock.

Environment (users, destinations, browsers, redis errors, crashes, the network) is nondeterministic.
What is abstracted everywhere: wording and logging, all fields no decision depends on, the content of data
(an item is its position in the stream).

Many promises of this code hold *unless* two particular steps overlap, and the code does not prevent the
overlap.  Such a promise is stated with a history variable (`raced`, `stale`, `missed`, ...) that records whether
the overlap happened; the comment above the property names it.  A property is silent about what it excludes:
section 7 lists these places, where the code relies on its callers, and the hazards of `PROJECT.json` say
which part of each a property covers and which none does.

| module | models | mapped to |
|---|---|---|
| `NodeBinding` | the redis tables of nodes and users and all that writes them | `ippop/api/model`, `ippop/rpc/internal/logic`, `ippop/api/ws/tunmgr.go`, `nodews.go`, `ippop/httpproxy/tunmgr.go` |
| `BindingConflicts` | extends it with a history of conflicts, old copies and browsers; the properties | same |
| `TunnelLease` | accepting, replacing and losing the websocket of one node | `ippop/api/ws/tunmgr.go`, `tunnel.go`, `nodews.go` |
| `NodeLease` | abstract: one goroutine at a time holds the node; the next starts when it has let go | refined by `TunnelLease` |
| `ProxySession` | TCP sessions at both ends of a tunnel | `ippop/api/ws/tunnel.go`, `tcpproxy.go`, `client/tunnel` |
| `StreamSpec` | abstract: what is received is a prefix of what was sent, item by item | refined by `ProxySession` |
| `Socks5` | the negotiation of one connection, up to a session or an association | `ippop/api/socks5/socks5.go`, `protocol.go`; `ippop/api/ws/tunmgr.go` for the check of a password |
| `Datagram` | the header of a UDP datagram, read and written | `ippop/api/socks5/protocol.go` |
| `UdpRelay` | composes the two with the datagrams' way to the destination and back | `ippop/api/socks5/udp.go`, `ippop/api/ws/udpproxy.go`, `tunnel.go`, `client/tunnel` |
| `UdpAssociate`, `UdpLeak` | shared UDP servers and counts of the socks5 server; history of races | `ippop/api/socks5` |
| `Users` | the sets of users that `Socks5` and `UdpAssociate` share | |
| `ClientLifecycle` | start, stop and the reconnect loop | `client/golib`, `client/tunnel` |
| `ClientBootstrap` | composes it with the list of servers in memory and in its file, and with kills of the process | `client/bootstrap` |
| `HttpProxy` | requests and responses on a browser's websocket | `ippop/httpproxy` |
| `BrowserTunnels` | accepting and losing browsers' websockets | `ippop/httpproxy` |
| `PopAllocation` | the manager's choice of a point of presence for a node | `manager` |
| `ManagerUsers` | the manager's record of where a user is | `manager` |
| `...Proofs` | the theorems; `Socks5Proofs` is about everything in `ippop/api/socks5`, `HttpProxyProofs` about both modules of `ippop/httpproxy`, `NodeBindingProofs` also about `BindingConflicts`, `ClientBootstrapProofs` also about `ClientLifecycle` | |
| `MC...` | the constants and symmetry of the instances TLC checks | |

Definitions with an underscore in their name (`Start_Unchecked`) are the mutants: an operation with a
plausible bug.  Nothing uses them; put in place of the operation they must make a property fail.

Two modules that are proved about together have names of their own for what both have: `AssocSpec`, `AssocTypeOK`,
`TunnelsSpec` and so on.

## 3. The modules

### NodeBinding, BindingConflicts

State: `bindUser` (field of a node's hash), `nodeZset`, `online`, `nodeBind`, `nodeFree`, `user`,
`userZset` are the redis tables; `userCache` and `fill` the api service's cache and a fill in progress;
`task` what each goroutine is doing, with its copies.  A `Handler` is one rpc request at a time, a `Conn`
the goroutine of a node's or a browser's websocket or the traffic timer.

An action is one redis command or one MULTI/EXEC pipeline.  `CreateUser` is therefore `GetUser`,
then `AllocateFreeNode` or `CheckRoute`, `BindRead`, `BindOnline`, `BindNodeWithNewUser` (the
transaction), and `AddFreeNode` on the error paths; deletion, modification, switching, saving and the
traffic timer are cut in the same way.  The websocket's path is `ServeWS` (reads the record),
`SetNodeAndZadd` (writes the whole record back), `SetNodeOnline`, `AddFreeOnAccept`, `ServeReturns`,
`SetNodeOffline`, `OfflineGetNode`, `SwithNodeForUser` or `RemoveFreeNode`.  A browser's, in the http proxy, is the
same up to `SetNodeOffline`, where it ends (`ServeBrowser`): it takes nothing out of `node:free`.  `CheckRoute` has the
check of the route's mode, with the answers `isInvalidRouteMode` gives.

Faults, chosen by the constant: a command fails (`error`), a command is executed and its reply lost
(`reply`), the rpc or the api service is killed and restarted (`rpcCrash`, `apiCrash`).  While the api service is down
the two keys it renews may expire, one after the other (`OnlineExpires`, `FreeExpires`); its start runs
`NewTunnelManager`, which deletes them, again one after the other.

`BindingConflicts` adds `raced`, the kinds of conflict that have occurred; `stale`, the goroutines that hold a copy
of a user from before it was created, deleted, started or stopped; and `browsed`, the nodes that came as browsers
since the api service started.

### TunnelLease, NodeLease

One node and the goroutines of its websockets.  State: the manager's entry of the node (`registry`), the node's
membership of `node:online`, each goroutine's place, its websocket, and its lease channel, which is not
made, made and waited on, signalled, or lost.  `ServeWS`, `LoadOld`, `Close`, `CloseSock`, `WaitLease`,
`ClearProxys`, `StoreTunnel`, `Register`, `SetNodeOnline` are the way in; `ServeReturns`,
`HandleNodeOffline`, `DeleteTunnel`, `LeaseComplete`, `Signal` the way out; the keepalive goroutine
closes (`KeepaliveCloses`), removes (`KeepaliveForgets`) or panics on a websocket.  Between its messages the goroutine that
serves may be in a write to a user's connection (`pc = "write"`), which ends when the user takes the data or leaves,
and not when the websocket is closed.

### ProxySession, StreamSpec

For every session: the user's goroutine at the server (request, wait for the reply, store, relay,
delete), the goroutine of the destination's connection at the client (dial, store, reply, relay, close,
delete), and the two readers of the websocket, with a FIFO queue each way.  `Reconnect` is a new
websocket: what was in the queues is gone, the old server tunnel closes what it holds, the client's maps stay.
The client's process may also panic (a write while `t.conn` is nil).  A user or a destination may stop reading
for good (`deaf`): a reader of the websocket that has something for it waits there (`ServerBlocked`, `ClientBlocked`)
until the connection is closed, and everything behind waits with it.

### UdpAssociate, UdpLeak

Per user a count of associations (`userudpcount.go`) and one UDP server (`userUDPServers`), per user
and address another count (`useripcount.go`).  `handleSocks5Associate` is `IncrIP`, `IncrUDP`,
`LoadServer`/`LoadNothing`, `Listen`/`ListenFails`, `StoreServer`, `ReplyPort`, `Leave`, `DecrUDP`, `DecrIP`.
`UdpLeak` adds the history of first associations that overlapped.

### Socks5

One connection from the greeting to a session, an association or its end.  A message of the client is a
unit; the `bufio.Reader` is filled with whatever has arrived (`Fill`) and read from.  `ReadGreeting` is
`serveSocks5Conn` and `authenticate`, `ReadAuth` `userPassAuth` with the manager's `HandleUserAuth`,
`ReadRequest` `newRequest`; `HandleUnsupported`, `HandleConnect` (which takes what the reader has read ahead),
`HandleSocks5TCP`, `HandleAssociate` and `AssociateEnds` are the commands.  The client is free: it
may send anything that parses or does not, ahead of any reply, and may leave.  The account a password is checked
against is nondeterministic, since other services change it at any time.

### Datagram, UdpRelay

`Datagram` has no state: `newDatagramFromBytes`, `toAddress`, `parseAddress`, `NewDatagram` and `Bytes` byte by
byte, and as reference `Encode`, what RFC 1928 has a program write, and `Says`, that bytes are a header with a
destination and data after it, whatever the fragment number and whichever of its `Spellings` (an IPv4 address as four bytes or
as sixteen) the address is in.  In `UdpRelay` the UDP server's
goroutine takes a datagram (`HandleUDPConn`, to the Load of the session's UDPProxy), stores a new one (`StoreProxy`) and
writes (`WriteToDest`); `ClientReads` is `onProxyUDPDataFromTunnel` of the client, `Answer` its socket's `serve`,
`ServerReads` `onProxyUDPDataFromTunnel` of the server.  `WaitTimeout` and `ReadTimesOut`, `ServeReturns` are the
two timeouts, neither of which the other end hears of.  Websockets break as in `ProxySession`.  Abstracted: the
association is the one of `Socks5`, its only one; times are left out.  Both ends read datagrams into a buffer of
`BufLen` bytes (4096 in the code) and get no more than that of a longer one (`Received`, `Readable`, `AnswerTo`); a
fragment number is read and ignored.

### ClientLifecycle

The app's calls (one at a time: `golib.go` has no lock, and the wrappers call from one thread - an
assumption), the package variable `mytunnel`, and per Tunnel `t.conn`, `isDestroy` and the goroutine
of `tunServe`.  `Destroy` reads `t.conn` twice and is two steps.  A websocket may die at any moment.  The goroutine may be
in a write to a destination (`"write"`), which the end of the websocket does not end.

### ClientBootstrap

`NewBootstrapMgr` reads the file (`ReadFile`) or writes the compiled-in list (`CreateFile`, `WriteEmbedded`), then
asks the servers of the list one after the other (`AskFails`, `Answered`, `WriteBody`, `WriteFails`, `AskedAll`),
as `TimedUpdate` does again twice a day.  `os.WriteFile` is two steps, truncating and filling.  A `Start` needs the list, and so does
`Connect`.  `Kill` stops the process anywhere, `Restart` begins with nothing but the file; a panic of
`ClientLifecycle` ends a life too.

### HttpProxy, BrowserTunnels

`HttpProxy` is one or more requests on the websocket of a browser: `Refuse` (of a CONNECT or a body that is too
long), `Pick`, `StoreReq`, `WriteRequest`,
`ProxyReturns`, `DeleteReq`, `CloseConn` are the handler, `OnHeaders`, `OnData`, `OnError`, `DropMessage` the
reader.  The browser answers in order, with headers first; the length they give is any (`getContentLength`: a HEAD, a 304
or a decoded body have one that is not the body's), none counts as 0.  A user may stop reading (`UserStopsReading`):
the reader then waits in `req.write` for it to read or to leave (`Blocked`).  `BrowserTunnels` is the
accept path, where `ServeEnds` is the end of `Tunnel.serve`: the count per address, the map by node and `node:online`; unlike the socks5
service there is no lease.  A redis command may fail, or be executed and its reply lost: `SetOfflineFails` and
`OnlineReplyLost` leave a node in `node:online` that nobody will take out, which `ghosts` remembers.

### PopAllocation, ManagerUsers

Every redis command is a step and may fail; the manager may be restarted between any two.  In
`ManagerUsers` the service of a point of presence is abstracted to one step (create or delete the user if it
is not, or is, there), whose answer may be lost, and which may run after the manager's timeout.

## 4. What the runs check

| run | instance | shows |
|---|---|---|
| `binding_exclusive` | 2 nodes, 2 users, 2 rpc requests, 1 websocket or timer, every fault, symmetric | `RoutesInv`: routes and free nodes are registered; and until requests get in each other's way, `Exclusive` (a node has one user), `RouteIsBound` (it knows which), `BindMirrorsHash` (every step keeps hash and `node:bind` in agreement), `StoredIsListed`; `StopIsKept`: when operations on a user overlap, a stop is undone only by one that had read the user before it |
| `binding_quiet` | 2 requests, 2 websockets of nodes or browsers, cache lookups, api restarts | when nothing is in flight, `FreeIsUnboundOnline` (an online, unbound node is free; a free node is unbound, and online or was a browser) and `CacheIsFresh` |
| `lease_overlap` | 3 websockets in any overlap, time-outs | `RegistryInv`: a registered tunnel has a live goroutine; `NoGhostOnline`: an online node has a goroutine that will set it offline |
| `lease_serial` | 3 websockets one after the other, redis errors | `ServedIsReachable`, `ImplementsLease` (refinement of `NodeLease`), `HandoverEnds` |
| `session` | 1 session, 2 items each way, 2 breaks, peers that stop reading | `UpstreamIsStream` (refinement of `StreamSpec`), `GapEndsDownload` (what a user gets has no gap inside; where its beginning is missing, the client closes its end), `SessionInv` (data finds its session), `CloseReachesUser`, `OrphanEnds` |
| `udp_associate` | 3 requests of one user from 2 addresses, 1 of another, 3 ports | `AssociationInv` (a live association is served by its own user's server; datagrams are taken from associated addresses), `ServersAreStopped` |
| `udp_relay` | 1 connection with 2 items of data; 2 sources, 2 destinations, an address and a name, a private one and a datagram without data; two of the four pairs have one id; buffers of 24 bytes, a datagram and an answer longer than that, a fragment whose address is an IPv4 one in sixteen bytes; 2 datagrams, 1 break | `ServedAsAuthenticated`, `NothingLostAtHandover`, `LeftIsReleased`; `RelayInv` (an answer is not dropped because it came too early), `DatagramsReachDest`, `AnswersComeHome` |
| `client_stop` | 2 Tunnels in each life of the process, 2 kills, 2 servers | `DestroyedInv` (a destroyed Tunnel has no live websocket and gets none), `OneServiceRuns`, `StopEnds`; `StartsAgain` (the file holds a list to start with, the one in use) |
| `http_proxy` | 2 requests, bodies of up to 1 and 2 items with any length in their headers, 1 websocket, users that stop reading | `ReqsInv`: the map holds only requests in progress; `ClosedIsWhole`, `AnsweredEnds` |
| `browser_tunnels` | 3 websockets, 2 browsers, 2 addresses, limit 2, redis errors and lost replies | `RegistryInv` (with the limit per address), `NoGhostOnline` |
| `pop_allocation` | 2 requests, 3 nodes, 2 areas, 3 points of presence | `CountsInv` (limits are exceeded by concurrency less one at most), `AnswerAgrees`, `PopIsKept` |
| `manager_users` | 2 requests, 1 user, 3 points of presence | `UsersInv`, `StoredIsRemembered` |

A property whose name ends in `Inv`, and `StartsAgain`, is the type invariant of its module together with the
invariant that relates the state; the parts are definitions of their own.

**Bounds.**  Goroutines repeat (a handler serves one request after the other), so behaviours are
unbounded in length wherever slots are not used up.  Two requests and one websocket are enough for
every pairwise overlap of which the conflicts consist, two nodes and two users for a switch and for an
exchange of nodes.  Three websockets are what a handover during a handover takes.  Sessions share only
the websocket and its order, so one session with breaks covers the hard cases; two items distinguish
loss from reordering and a first item from a last; two breaks let an old Tunnel's leftovers meet a third
websocket.  Three requests of one user let one join while another leaves and a third opens.  Two datagrams are what it
takes for one to meet the UDPProxy or the socket of another, of the same or of a colliding pair; one break lets
the sockets of one Tunnel's datagrams answer to the next; a buffer of 24 bytes holds every header, and some data is
longer; two items of data distinguish what the reader has read
ahead from what it has not.  Two Tunnels are one that is forgotten and its successor; a second kill can hit the life
that begins with what the first has left in the file.
The two runs of bindings do not follow behaviours past the first conflict of the kinds named in their
configurations (`CONSTRAINT NotExcused`), since what comes after is excused by the invariants; `RoutesInv`,
`BindMirrorsHash` and `StopIsKept`, which are not, are proved for everything.  Of overlaps on one user,
`binding_exclusive` follows those among saves, switches and the timer, until they end, for `StopIsKept`.

**Deadlock** is checked where goroutines go on for ever.  It is not in `lease_*` (a lost handover really
blocks its goroutine, and in the end all of the instance may be blocked), nor in `session`, `udp_relay`, `http_proxy`, `client_stop` (finitely
many sessions, datagrams, requests and Tunnels come to their end).

**Fairness** is that of goroutines that can run and timers that fire: handlers, readers,
in `ProxySession` the time-out of a request; in `UdpRelay` only the goroutine of the
socks5 connection.  None on users, destinations, browsers, the app, redis errors or the network: a
destination may never answer, a websocket may stay up for ever, and the properties do not depend on either.
A user or a destination may also stop reading.  The reader of the websocket, at either end and in the http proxy, is
then in `conn.Write`, which has no deadline and which closing the websocket does not end; the models
disable it (`ServerBlocked`, `ClientBlocked`, `Blocked`) or have it in a place of its own (`"write"`), and every property
that waits for a reader ends with a disjunct that says so (`[]ServerBlocked`, `[](loop[t] = "write")`): nothing *but* such
a peer keeps what was promised from happening.  Weak fairness is enough where no step of a goroutine is disabled again and
again by another.  The end of a reader whose websocket is dead is strongly fair (`TunnelLease`, `ClientLifecycle`), as the
messages that had already arrived may each put it into a write, and there are finitely many.  The channel of a handover
may be lost, which `HandoverEnds` excludes (`Stuck`).

Writes to a websocket are taken to return.  At the server a ping or a pong sets a deadline of 30 s
(`api/ws/tunnel.go:85`, `97`) that later writes inherit, so that a full websocket is one that breaks; at the client there is
none (`client/tunnel/tunnel.go:440`), and there a peer that takes no data is a keepalive that gets no answer.  That a queue
is full is not modelled.

## 5. What is proved

For every value of the constants (checked by TLAPS in the `...Proofs` modules):

| theorem | states |
|---|---|
| `NodeBindingProofs!TypeCorrect`, `Inductive` | `[]TypeOK`, and with it the inductive invariant `IInv` |
| `NodeBindingProofs!RoutesInvariant` | `[]RoutesInv`, with all interleavings, faults and crashes |
| `NodeBindingProofs!HInductive` | the inductive invariant `HInv` of the tables and of what each goroutine carries, as long as the conflicts a part depends on have not occurred |
| `NodeBindingProofs!RoutesAreBound`, `NodesAreExclusive` | `[]RouteIsBound`, and from it `[]Exclusive` |
| `NodeBindingProofs!StoredAreListed`, `FreeAreUnboundOnline`, `CachedAreFresh` | `[]StoredIsListed`, `[]FreeIsUnboundOnline` (browsers included), `[]CacheIsFresh` |
| `NodeBindingProofs!StopsAreKept`, `BindsAreMirrored` | the action properties `StopIsKept` and `BindMirrorsHash`, whatever overlaps |
| `TunnelLeaseProofs!RegisteredTunnelsAreAlive`, `LeaseTypeCorrect` | `[]RegistryInv`, `[]TypeOK` |
| `TunnelLeaseProofs!OnlineHasAGoroutine` | `[]NoGhostOnline` |
| `TunnelLeaseProofs!ServersAreReachable` | `[]ServedIsReachable`, if websockets arrive one after the other and no ping times out |
| `TunnelLeaseProofs!HandoverIsALease` | `ImplementsLease`, under the same assumptions |
| `ProxySessionProofs!SessionTypeCorrect`, `SessionInvariant` | `[]TypeOK`, `[]SessionInv` |
| `ProxySessionProofs!OrderInductive` | the inductive invariant `OrderInv` of what is on its way in each direction |
| `ProxySessionProofs!GapsEndDownloads` | `[]GapEndsDownload` |
| `ProxySessionProofs!UpstreamImplemented` | `UpstreamIsStream`: the sessions implement `StreamSpec`, step by step |
| `Socks5Proofs!ServedIsAuthenticated`, `HandoverIsWhole` | `[]ServedAsAuthenticated`, `[]NothingLostAtHandover` |
| `Socks5Proofs!HeaderIsRead` | of any bytes that are not refused, whatever the fragment number and the spelling of the address, the code reads the destination and the data they say |
| `Socks5Proofs!AddressIsRead`, `NameIsRead` | of every header that names an IPv4 or IPv6 address, or a domain, the code reads that address, port and data |
| `Socks5Proofs!AnswerIsRead`, `NameIsLengthenedTwice` | of every address the code writes the header a program expects; of every domain name one byte too many |
| `Socks5Proofs!AnswersAlwaysFindProxy` | `[]RelayInv` |
| `Socks5Proofs!DatagramsAlwaysReachDest`, `AnswersAlwaysComeHome` | `[]DatagramsReachDest`, `[]AnswersComeHome`, of datagrams of any bytes and any length |
| `Socks5Proofs!AssociationsAreServed` | `[]AssociationInv`, of which `UdpTypeCorrect`, `LiveAssociationsAreServed` and `AddressesAreKnown` are the parts |
| `Socks5Proofs!StoppedServersAreForgotten`, `ServersGetStopped` | `[]StoppedIsForgotten`, `[]ServersAreStopped` |
| `ClientBootstrapProofs!LifecycleTypeCorrect`, `DestroyedInvariant`, `OneService` | `[]TypeOK`, `[]DestroyedInv`, `[]OneServiceRuns` of one life of the process |
| `ClientBootstrapProofs!DestroyedInAllLives`, `OneServiceInAllLives` | the last two when the process is killed and started anew any number of times |
| `ClientBootstrapProofs!ClientStartsAgain` | `[]StartsAgain` |
| `HttpProxyProofs!ResponsesInductive` | the inductive invariant `ResponsesInv` of requests and what is on its way to them |
| `HttpProxyProofs!ReqsInvariant`, `ResponsesAreWhole` | `[]ReqsInv`, `[]ClosedIsWhole` |
| `HttpProxyProofs!TunnelsInductive`, `RegistryIsRight`, `OnlineNodesAreServed` | of browsers' tunnels `[]TunnelsInv`, `[]RegistryInv`, `[]NoGhostOnline`, which excepts the nodes an error of redis left online (`ghosts`) |
| `PopAllocationProofs!AllocationInductive`, `CountsAreKept`, `AnswersAgree`, `PopsAreKept` | the inductive invariant `IInv`; `[]CountsInv`, `[]AnswerAgrees`, and the action property `PopIsKept` |
| `ManagerUsersProofs!UsersInductive`, `RememberedAreStored`, `StoredAreRemembered` | the inductive invariant `IInv`; `[]UsersInv`, `[]StoredIsRemembered` |

Assumptions are those of the modules: `None` is not among the nodes, users, goroutines and so on, what is counted is
finite, and bounds are numbers.  The lemmas between the theorems say, action by action, what a step keeps.

**Arguments.**

* *NodeBinding.*  `RoutesInv` is not inductive: a transaction writes a node that was read several
  round trips earlier.  The inductive invariant adds `TasksOK`: at every program point past the check,
  the node a goroutine carries (the one to bind, the route of the copied record, the websocket's own
  once registered) is registered.  Nothing ever deregisters a node, so the copy stays good.
* *BindingConflicts.*  None of the promises about bindings survives an overlap of two operations on one user or of two
  that aim at one node, so each part of `HInv` is about the states before the conflicts in its `Calm`.  The
  heart of it is `NodesHeld`: every goroutine makes a claim on the user and the node it carries (`UserClaim`, `BindClaim`: this
  node was popped by me and is unbound; this user's route is still the one I read), and no two goroutines claim the
  same (`Distinct`).  An action either keeps all claims or is one of the conflicts, which the history
  records in the same step.  `FreeOnItsWay` says what is still to come where `node:free` does
  not agree with the tables, `CacheOnItsWay` the same of cached routes; with nothing in flight what
  remains are `FreeIsUnboundOnline` and `CacheIsFresh`; a free node that nobody is about to take out must have been
  a browser (`BrowsersKnown`).  `FlagHeld` is the part of the claim on a user that survives every overlap: the off flag
  in the copy of a goroutine is the one stored, unless a step that changed it in between made the goroutine `stale`.  So when the
  flag changes, whoever wrote was asked to change it or was stale.
* *TunnelLease.*  Without assumptions, the tunnel in the map is that of a goroutine between `StoreTunnel`
  and `DeleteTunnel` (it removes whatever entry there is), and an online node has a goroutine that has yet to set
  it offline.  For the lease, `SerialInv` says that a
  goroutine is answered by exactly the one it waits for (`Answered`, `ChannelsMatch`), that the holder is
  registered and online once it serves (`HolderIsRegistered`), that one is arriving at a time (`OneArrives`), and that the place is
  free when it stores (`FreeToStore`).  The refinement maps the abstract holder to the goroutine in the
  serving part of the code.
* *ProxySession.*  `DataIsDialled`: the server forwards items of a session only after the reply, and the
  client sends the reply only after it stored the session, so every item in the queue finds it.
  `OrderInv` is what order needs: as long as an end can be given more, the items in the queue continue, one
  by one, what it has got (`Continues`), and on the websocket the session was created on they are all that has been read
  (`Complete`).  Downstream that holds unless the client's end is closing (`Closing`): an item that is dropped because the
  proxy is not stored yet makes the server answer with a close in the same step.  `RunInv` is the rest of `GapEndsDownload`, that
  nothing is missing between two items a user got: what is on its way continues from the last item it got, or, while it has
  got none, from some item that was dropped; once the proxy is stored nothing is dropped any more.  `NothingYet` says that a session that is not dialled has no data anywhere.  In the refinement what the user sends
  is `StreamSpec`'s `Send`, a message the client writes to the destination's connection its `Deliver`, and all else a stutter.
* *UdpAssociate.*  The counts are exactly the number of goroutines between increment and decrement.  With
  that, a stored server is listening (`StoredListens`), and the server of an association told a port
  is the stored one (`ServerListens`).  For the leak, a server that is not stored is being set up by
  the one goroutine that opened it, as long as two first ones never overlapped.
* *ClientLifecycle.*  `RunningIsNamed`: a Tunnel that is not destroyed, not missed and running is the one `mytunnel`
  names; `CallsAreAbout` ties a call in progress to that Tunnel.
* *ClientBootstrap.*  A step of the list is a stutter of the life cycle or a failing start, and a restart satisfies
  its invariant anew.  For the file, `FileInv` says what is in it at each point of an update: what is
  being written is a list unless `poisoned`, and between updates it is the one in memory.
* *Socks5.*  `AuthInv` says of each point of the negotiation what is known of the user: nothing before the
  password, the one vouched for after it; and success has been told only at points where that user is served.
  `HandoverInv`: in what the reader has buffered and what is still in the connection, taken together, nothing but all
  the data sent so far follows a connecting request; a `Fill` moves messages from one to the other and changes nothing of it.
* *Datagram.*  Both directions are sequences concatenated and cut; the lemmas compute length and index of a
  concatenation, so that each field is read from where it was written.  `HeaderIsRead` goes the other way, from the
  checks of the code to the header the bytes must have, for bytes that nobody has encoded.  `To4` of an address written as four
  bytes or as sixteen is what the header's type says.
* *UdpRelay.*  `RelayIInv`: whatever is on its way, in a goroutine, in a queue, at a socket, belongs to a datagram
  that was accepted, has its data, and carries the id of its source and destination (`Known`); UDPProxys and sockets
  are those of some pair with their id.  Without a collision that pair is the datagram's own, which is where
  the two theorems come from, with those about `Datagram` for the bytes.  The bytes are those in the buffer (`Received`), of
  which a cut datagram has lost the end: `HeaderIsRead` is about them.  That an answer finds its UDPProxy needs in
  addition that an id once stored is in the map or was forgotten (`Found`), also across a new Tunnel.
* *HttpProxy.*  `Placed` says what may have happened to a request at each place of its goroutine, in particular that it
  is in the map from before it is written until it is deleted, whoever closed it.  Items of a response
  are in the queue in order (`Ordered`); and as long as nothing has gone wrong (`Going`) they continue without a gap what
  the user was given, which is as long as the count the proxy keeps (`Flows`).  So when the count reaches the length,
  everything was given.
* *BrowserTunnels.*  The count of an address is the number of its websockets that are being handled
  (`Counted`), which takes the cardinality of a set that grows or shrinks by one.  The map and `node:online` are as in `TunnelLease`:
  whoever is in them has a goroutine that has yet to take him out, or is a ghost since an error of redis.
* *PopAllocation.*  A request that is past the check of the limit counts as if it were counted already
  (`LimitWithRequests`); each may have checked before any of the others was counted, hence the concurrency less one.  What is
  remembered of a node is changed by one request at a time unless two overlapped (`OneAtATime`), so the answer is `Truthful`.
* *ManagerUsers.*  A user that a point of presence has is remembered, or the request that made it is about to
  (`StoredOrOnItsWay`); one request at a time changes a user that is not `raced` (`OneChangeAtATime`), so what a
  request has seen is still so (`Truthful`).

## 6. What is only model-checked, and what is not modelled

Liveness (`HandoverEnds`, `CloseReachesUser`, `OrphanEnds`, `LeftIsReleased`, `StopEnds`, `AnsweredEnds`) needs
fairness and ENABLED, which the prover does not handle; it is checked on the instances only.  Every
invariant and every action property that a run checks is also proved.

Not modelled, and why:

* the traffic counters (`usertraffic.go`): addition under a lock; what depends on them is the traffic limit, and
  whether a user is over it is a choice of the environment; their save is a writer of `NodeBinding`;
* rate limits and net delay: they delay, and time is not modelled; full websockets (section 4);
* of the http proxy, the TLS side of CONNECT and the check of a password, which the code has commented out (every
  request is the anonymous user's, and a CONNECT is refused), the user cache, and its traffic timer, which
  has nothing to save;
* the expiry of the online tables while the service that renews them is up; the timed route change, which is a switch at a time;
* get and list queries, which only read;
* records of browsers (`model/browser.go`), which nothing calls;
* tokens, configuration, logging, start-up and field mapping: stateless or type-directed; generated code.

Within the models: data a client sends on the connection of an association is discarded by the code and left
out; a socket of the client whose first write fails is not closed, which holds a descriptor and nothing the models
have; `UdpRelay` has one association and `UdpAssociate` no datagrams, the two meet in the check of the source's
address, which is `pc = "associated"` in the one and the count in the other.

## 7. What the models show about the code

Each of these is a behaviour of the model that was traced back to the code.  The first three differ from a
comment of the repository; the others bound what the properties above can promise, and a property is silent, or says
what it can, where one of them has occurred.

* A browser's node stays in `node:free` after it went offline (`httpproxy/tunmgr.go:66`; the socks5 service
  removes its nodes, `api/ws/tunmgr.go:123`), although `model/reidskey.go:13` says free = unbound + online.
* `isInvalidRouteMode` says TRUE of the three modes that exist (`rpc/internal/logic/check.go:46`;
  `api/model/user.go:32`: manual, auto, timed), so that `checkRoute` refuses every request with one of them.
* `NewDatagram` gives a domain name a second length (`socks5/protocol.go:360`), although the comment at line 339
  says the address has none; the header of an answer from a named destination is one byte too long
  (`NameIsLengthenedTwice`).
* Two requests that create one user, or that name one node, may both succeed: two users on a node, or a node bound
  to a user that is routed elsewhere (`createuserlogic.go:38`, `check.go:29`).
* A websocket registers its node with the record read before the handover (`api/ws/tunmgr.go:83`): a binding
  made in between is undone, or a bound node is put into `node:free`.
* The traffic timer saves the whole user it read (`api/ws/tunmgr.go:327-339`): a stop in between is undone, and so is a
  switch or a deletion; a switch that overlaps a stop undoes it likewise.  `StopIsKept` says that there is no other way.
* A lost reply to the bind transaction puts a bound node into `node:free` (`bind.go:71`).
* Two websockets of one node that arrive together, or a ping that times out during a handover, break the
  lease; a goroutine may then wait for ever (`api/ws/tunnel.go:426`), or a late one take its successor offline.
* What a destination sends between the reply and the storing of the proxy is dropped (`api/ws/tunnel.go:272`): the
  user's download lacks its beginning.  The server tells the client to close, which closes the destination's
  connection and tells nobody (`client/tunnel/tcpproxy.go:50`): the user's connection stays open with the gap.  A CLOSE in
  the same window is lost, with the same result.
* One user, or one destination, that stops reading stops the only reader of the websocket
  (`api/ws/tcpproxy.go:42`, `client/tunnel/tcpproxy.go:35`, `httpproxy/req.go:24`) and with it all sessions of the node; the
  next websocket of the node waits at its handover (`api/ws/tunnel.go:426`), and the client's stop does not end its loop.
* Datagrams longer than 4096 bytes are cut without an error (`socks5/udp.go:49`), answers too
  (`client/tunnel/udpproxy.go:37`); fragments are relayed as if they were whole.
* The id of a UDP session is a hash of two addresses written one after the other (`api/ws/tunnel.go:350`): different
  pairs can have one id, and then share a destination.
* A socks5 connection whose association ends is not closed by the server (`socks5.go:131`), which relies on the
  client having closed it.
* The client's list of servers is overwritten with whatever a server answered before it is parsed
  (`client/bootstrap/mgr.go:92`): a body that is no list keeps the client from starting ever again.
* Two first associations of a user that overlap leak a UDP server (`socks5.go:368`).
* A stop during a reconnect forgets a Tunnel without destroying it; the next start runs a second one
  (`golib.go:116`).  The client's process ends when a session writes while `t.conn` is nil
  (`client/tunnel/tunnel.go:458`), and `Destroy` may do the same.
* Requests on a browser's websocket that died hang until their users leave (`req.go:35`), and a response without a
  Content-Length ends after its headers.  One whose Content-Length is more than the body (of a HEAD, a 304, or decoded by the
  browser) is never ended.
* An error of redis in the deferred `SetNodeOffline` (`httpproxy/tunmgr.go:66`), or a `SetNodeOnline` that was executed
  and whose reply was lost (line 57), leaves a browser's node in `node:online` with nobody to take it out.
* The manager forgets a user although the point of presence refused to delete it (`deleteuserlogic.go:49`);
  concurrent requests pass the limit of a point of presence (`getnodepoplogic.go:108`).

## 8. Plan

Order so far: binding tables, lease, session, UDP associations, client life cycle, http proxy, manager; then socks5
negotiation, datagrams and UDP relay, the bootstrap list.  What is left, in the order of its worth:

1. `UserTraffic`: counters, snapshot, save, with a crash in between.
2. `UdpRelay` with several associations, on `UdpAssociate`: the theorems about datagrams then for sources of several users.
3. What holds after the conflicts that `Exclusive`, `RouteIsBound` and `CacheIsFresh` exclude, as `StopIsKept` says of the
   off flag: which goroutine, with which old copy, did the damage.
4. The liveness properties as safety: for each, an invariant that says who will take the next step
   (as `NoGhostOnline` does of an online node), which can be proved.
