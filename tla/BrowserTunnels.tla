--------------------------- MODULE BrowserTunnels ---------------------------
(* The websockets of browsers at the http proxy (ippop/httpproxy:          *)
(* server.go, browserws.go, tunmgr.go): how one is accepted, registered in *)
(* the manager's map and in redis, and cleaned up.                         *)
(*                                                                         *)
(* The socks5 service's acceptWebsocket waits for the goroutine that the   *)
(* new one replaces (TunnelLease); this one closes its websocket and goes  *)
(* on.  What browsers leave in node:free is in NodeBinding.                *)
EXTENDS Integers, FiniteSets

CONSTANTS Conn,       \* websocket goroutines, reused when they have left
          Node, IP,
          MaxPerIP,   \* maxConnectionsPerIP
          None

ASSUME SetsAssumption == IsFiniteSet(Conn) /\ MaxPerIP \in Nat \ {0} /\ None \notin Conn

VARIABLES
  pc,        \* where each goroutine is in handleWS
  node, ip,  \* whose websocket it is, and where from
  ws,        \* its websocket: "open", "silent" (the peer has vanished), "closed"
  ipCount,   \* Handle.ipConnCount
  tunnels,   \* TunnelManager.tunnels
  online,    \* node:online
  ghosts       \* history: the nodes an error of redis has left online

tunnelVars == <<pc, node, ip, ws, ipCount, tunnels, online, ghosts>>
peer == <<node, ip>>

PCs == {"out", "enter", "replace", "store", "register", "online", "free", "serve", "offline", "delete", "leave"}

TunnelsInit ==
  /\ pc = [c \in Conn |-> "out"]
  /\ node = [c \in Conn |-> None] /\ ip = [c \in Conn |-> None]
  /\ ws = [c \in Conn |-> "closed"]
  /\ ipCount = [i \in IP |-> 0]
  /\ tunnels = [n \in Node |-> None]
  /\ online = {} /\ ghosts = {}

MoveTo(c, from, to) == pc[c] = from /\ pc' = [pc EXCEPT ![c] = to]
SetSock(c, s) == ws' = [ws EXCEPT ![c] = s]

-----------------------------------------------------------------------------
(* handleWS and ServeWS.                                                   *)

\* Mutant: one connection more than the limit.
Arrive_OneMore(c, n, i) ==
  /\ ipCount[i] <= MaxPerIP
  /\ MoveTo(c, "out", "enter")
  /\ node' = [node EXCEPT ![c] = n] /\ ip' = [ip EXCEPT ![c] = i]
  /\ ipCount' = [ipCount EXCEPT ![i] = @ + 1]
  /\ UNCHANGED <<ws, tunnels, online, ghosts>>

\* The count is checked and raised under one lock.
Arrive(c, n, i) ==
  /\ ipCount[i] < MaxPerIP
  /\ MoveTo(c, "out", "enter")
  /\ node' = [node EXCEPT ![c] = n] /\ ip' = [ip EXCEPT ![c] = i]
  /\ ipCount' = [ipCount EXCEPT ![i] = @ + 1]
  /\ UNCHANGED <<ws, tunnels, online, ghosts>>

Upgrade(c) ==
  /\ MoveTo(c, "enter", "replace") /\ SetSock(c, "open")
  /\ UNCHANGED <<peer, ipCount, tunnels, online, ghosts>>

\* Parsing the request, reading the node or upgrading fails.
UpgradeFails(c) ==
  /\ MoveTo(c, "enter", "leave")
  /\ UNCHANGED <<peer, ws, ipCount, tunnels, online, ghosts>>

Leave(c) ==
  /\ MoveTo(c, "leave", "out") /\ SetSock(c, "closed")
  /\ ipCount' = [ipCount EXCEPT ![ip[c]] = @ - 1]
  /\ node' = [node EXCEPT ![c] = None] /\ ip' = [ip EXCEPT ![c] = None]
  /\ UNCHANGED <<tunnels, online, ghosts>>

-----------------------------------------------------------------------------
(* acceptWebsocket.                                                        *)

\* The registered tunnel of the node, if any, is closed; nobody waits for it.
ReplaceOld(c) ==
  LET old == tunnels[node[c]]
  IN  /\ MoveTo(c, "replace", "store")
      /\ IF old = None THEN UNCHANGED ws ELSE SetSock(old, "closed")
      /\ UNCHANGED <<peer, ipCount, tunnels, online, ghosts>>

Store(c) ==
  /\ MoveTo(c, "store", "register")
  /\ tunnels' = [tunnels EXCEPT ![node[c]] = c]
  /\ UNCHANGED <<peer, ws, ipCount, online, ghosts>>

SetNode(c) ==
  /\ MoveTo(c, "register", "online")
  /\ UNCHANGED <<peer, ws, ipCount, tunnels, online, ghosts>>

\* Mutant: an error returns before the deferred Delete.
CallFails_KeepsTunnel(c) ==
  /\ MoveTo(c, "register", "leave") \/ MoveTo(c, "online", "leave")
  /\ UNCHANGED <<peer, ws, ipCount, tunnels, online, ghosts>>

\* SetNodeAndZadd or SetNodeOnline fails, without effect on node:online.
CallFails(c) ==
  /\ MoveTo(c, "register", "delete") \/ MoveTo(c, "online", "delete")
  /\ UNCHANGED <<peer, ws, ipCount, tunnels, online, ghosts>>

SetOnline(c) ==
  /\ MoveTo(c, "online", "free")
  /\ online' = online \cup {node[c]} /\ ghosts' = ghosts \ {node[c]}
  /\ UNCHANGED <<peer, ws, ipCount, tunnels>>

\* SetNodeOnline is executed and its reply is lost: the error returns before
\* the deferred SetNodeOffline is there.
OnlineReplyLost(c) ==
  /\ MoveTo(c, "online", "delete")
  /\ online' = online \cup {node[c]} /\ ghosts' = ghosts \cup {node[c]}
  /\ UNCHANGED <<peer, ws, ipCount, tunnels>>

\* AddFreeNode, if the node is not bound; its error is ignored.
AddFree(c) ==
  /\ MoveTo(c, "free", "serve")
  /\ UNCHANGED <<peer, ws, ipCount, tunnels, online, ghosts>>

ServeEnds(c) ==
  /\ MoveTo(c, "serve", "offline")
  /\ ws[c] = "closed"
  /\ UNCHANGED <<peer, ws, ipCount, tunnels, online, ghosts>>

\* Mutant: only the registered tunnel takes the node offline.
SetOffline_Registered(c) ==
  /\ MoveTo(c, "offline", "delete")
  /\ online' = IF tunnels[node[c]] = c THEN online \ {node[c]} ELSE online
  /\ UNCHANGED <<peer, ws, ipCount, tunnels, ghosts>>

\* The deferred SetNodeOffline, whoever else serves the node; its reply may
\* be lost.
SetOffline(c) ==
  /\ MoveTo(c, "offline", "delete")
  /\ online' = online \ {node[c]} /\ ghosts' = ghosts \ {node[c]}
  /\ UNCHANGED <<peer, ws, ipCount, tunnels>>

\* The deferred SetNodeOffline fails without effect; its error is ignored.
SetOfflineFails(c) ==
  /\ MoveTo(c, "offline", "delete")
  /\ ghosts' = ghosts \cup {node[c]}
  /\ UNCHANGED <<peer, ws, ipCount, tunnels, online>>

\* The entry of the node, whoever's it is.
DeleteTunnel(c) ==
  /\ MoveTo(c, "delete", "leave")
  /\ tunnels' = [tunnels EXCEPT ![node[c]] = None]
  /\ UNCHANGED <<peer, ws, ipCount, online, ghosts>>

-----------------------------------------------------------------------------
(* The network, and the keepalive of the manager, which pings registered   *)
(* tunnels only.                                                           *)

PeerCloses(c) ==
  /\ ws[c] = "open" /\ SetSock(c, "closed")
  /\ UNCHANGED <<pc, peer, ipCount, tunnels, online, ghosts>>

PeerVanishes(c) ==
  /\ ws[c] = "open" /\ SetSock(c, "silent")
  /\ UNCHANGED <<pc, peer, ipCount, tunnels, online, ghosts>>

Keepalive(n) ==
  /\ tunnels[n] # None /\ ws[tunnels[n]] = "silent"
  /\ SetSock(tunnels[n], "closed")
  /\ UNCHANGED <<pc, peer, ipCount, tunnels, online, ghosts>>

TunnelsNext ==
  \/ \E c \in Conn :
       \/ \E n \in Node, i \in IP : Arrive(c, n, i)
       \/ Upgrade(c) \/ UpgradeFails(c) \/ Leave(c)
       \/ ReplaceOld(c) \/ Store(c) \/ SetNode(c) \/ CallFails(c) \/ SetOnline(c)
       \/ OnlineReplyLost(c) \/ AddFree(c)
       \/ ServeEnds(c) \/ SetOffline(c) \/ SetOfflineFails(c) \/ DeleteTunnel(c)
       \/ PeerCloses(c) \/ PeerVanishes(c)
  \/ \E n \in Node : Keepalive(n)

TunnelsSpec == TunnelsInit /\ [][TunnelsNext]_tunnelVars

-----------------------------------------------------------------------------
(* Properties                                                              *)

TunnelsTypeOK ==
  /\ pc \in [Conn -> PCs]
  /\ \A c \in Conn : IF pc[c] = "out" THEN node[c] = None /\ ip[c] = None
                                      ELSE node[c] \in Node /\ ip[c] \in IP
  /\ ws \in [Conn -> {"open", "silent", "closed"}]
  /\ ipCount \in [IP -> Nat]
  /\ tunnels \in [Node -> Conn \cup {None}]
  /\ online \subseteq Node /\ ghosts \subseteq Node

\* No more than maxConnectionsPerIP websockets of one address are handled at a
\* time, whatever the ways they end.
PerIPLimit ==
  \A i \in IP : Cardinality({c \in Conn : pc[c] # "out" /\ ip[c] = i}) <= MaxPerIP

\* The manager's map holds a tunnel of the node whose goroutine has yet to
\* delete the node's entry: it is never a tunnel that has ended, though
\* goroutines of one node overlap and delete each other's entries.
RegisteredIsAlive ==
  \A n \in Node :
    tunnels[n] # None =>
      /\ node[tunnels[n]] = n
      /\ pc[tunnels[n]] \in {"register", "online", "free", "serve", "offline", "delete"}

\* Both, with the types of the variables.
RegistryInv == TunnelsTypeOK /\ PerIPLimit /\ RegisteredIsAlive

\* A node in node:online has a goroutine that will take it out, whatever
\* goroutines of one node overlap; or an error of redis has left it there: of
\* the SetNodeOffline of such a goroutine, which is ignored, or of a
\* SetNodeOnline that was executed all the same.
NoGhostOnline ==
  \A n \in online \ ghosts :
    \E c \in Conn : node[c] = n /\ pc[c] \in {"free", "serve", "offline"}
=============================================================================
