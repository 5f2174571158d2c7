------------------------------ MODULE TunnelLease ------------------------------
(***************************************************************************)
(* The goroutines of one node's websockets in the api service: accepting   *)
(* a websocket (src/ippop/api/ws/tunmgr.go), the handover from the tunnel  *)
(* that is still registered for the node (Tunnel.close, leaseComplete),    *)
(* serving, and cleaning up.  TunnelManager.tunnels has one entry per      *)
(* node, so one node is enough; the keepalive goroutine of the manager     *)
(* closes the registered tunnel when its peer stops answering.             *)
(*                                                                         *)
(* A step is what no other goroutine can observe half-way.  A goroutine    *)
(* and the Tunnel it creates have the same name; the channel a goroutine   *)
(* makes to wait on has the name of its maker.  Abstracted: the tables     *)
(* behind SetNodeAndZadd and handleNodeOffline (NodeBinding has them) but  *)
(* for node:online, and the ping counter (a timeout may come at any time). *)
(*                                                                         *)
(* serve writes the data of a message to the user's connection before it   *)
(* reads the next message, and without a deadline: while that user does    *)
(* not read, closing the websocket does not end serve.                     *)
(***************************************************************************)
EXTENDS FiniteSets

CONSTANTS
    Conn,           \* websocket goroutines of the node, reused when forgotten
    None,           \* no goroutine, no channel
    Overlapping,    \* may a websocket arrive while another is still arriving?
    Faults          \* "redis": calls fail, "timeout": pings are not answered

ASSUME NoneAssumption == None \notin Conn
ASSUME EnvAssumption == Overlapping \in BOOLEAN /\ Faults \subseteq {"redis", "timeout"}

VARIABLES
    registry,   \* TunnelManager.tunnels[node]
    pc,         \* where each goroutine is
    old,        \* the registered tunnel a goroutine loaded on arrival
    sock,       \* the websocket of each tunnel: "open" or "closed"
    isNil,      \* Tunnel.conn = nil
    leaseCh,    \* Tunnel.waitLeaseCh
    chan,       \* the channel a goroutine is blocked on
    kept,       \* the tunnel the keepalive goroutine is closing
    online,     \* the node is in node:online
    up          \* the api service is running

tunnelVars == <<sock, isNil, leaseCh>>
vars == <<registry, pc, old, tunnelVars, chan, kept, online, up>>

ConnOrNone == Conn \cup {None}
ArrivalPCs == {"load", "close", "closeSock", "wait", "recv", "clear", "store"}
ServingPCs == {"serve", "write"}
HolderPCs == {"register", "setOnline", "serve", "write", "setOffline", "delete"}
PCs == {"gone", "lease", "send"} \cup ArrivalPCs \cup HolderPCs

Goto(c, label) == pc' = [pc EXCEPT ![c] = label]

\* A goroutine that will never be signalled: who could has finished.
Stuck(c) == pc[c] = "recv" /\ pc[old[c]] = "gone"

\* Nothing refers to the tunnel or the channel of c any more.
Forgotten(c) ==
    /\ registry # c /\ kept # c
    /\ \A d \in Conn \ {c} : pc[d] # "gone" => c \notin {old[d], leaseCh[d], chan[d]}

-----------------------------------------------------------------------------
Init ==
    /\ registry = None
    /\ pc = [c \in Conn |-> "gone"]
    /\ old = [c \in Conn |-> None]
    /\ sock = [c \in Conn |-> "closed"]
    /\ isNil = [c \in Conn |-> FALSE]
    /\ leaseCh = [c \in Conn |-> None]
    /\ chan = [c \in Conn |-> None]
    /\ kept = None
    /\ online = FALSE
    /\ up = TRUE

\* ServeWS has upgraded the connection.
ServeWS(c) ==
    /\ up /\ pc[c] = "gone" /\ Forgotten(c)
    /\ Overlapping \/ \A d \in Conn : pc[d] \notin ArrivalPCs \/ Stuck(d)
    /\ Goto(c, "load")
    /\ old' = [old EXCEPT ![c] = None]
    /\ sock' = [sock EXCEPT ![c] = "open"]
    /\ isNil' = [isNil EXCEPT ![c] = FALSE]
    /\ leaseCh' = [leaseCh EXCEPT ![c] = None]
    /\ chan' = [chan EXCEPT ![c] = None]
    /\ UNCHANGED <<registry, kept, online, up>>

\* acceptWebsocket: tunnels.Load
LoadOld(c) ==
    /\ pc[c] = "load"
    /\ old' = [old EXCEPT ![c] = registry]
    /\ Goto(c, IF registry = None THEN "store" ELSE "close")
    /\ UNCHANGED <<registry, tunnelVars, chan, kept, online, up>>

\* Faulty variant: a tunnel whose websocket is dead already is not waited for.
Close_SkipsDead(c) ==
    /\ pc[c] = "close"
    /\ IF isNil[old[c]] \/ sock[old[c]] = "closed"
       THEN Goto(c, "clear") /\ UNCHANGED leaseCh
       ELSE Goto(c, "closeSock") /\ leaseCh' = [leaseCh EXCEPT ![old[c]] = c]
    /\ UNCHANGED <<registry, old, sock, isNil, chan, kept, online, up>>

\* close: no wait for a tunnel whose conn was set to nil.
Close(c) ==
    /\ pc[c] = "close"
    /\ IF isNil[old[c]]
       THEN Goto(c, "clear") /\ UNCHANGED leaseCh
       ELSE Goto(c, "closeSock") /\ leaseCh' = [leaseCh EXCEPT ![old[c]] = c]
    /\ UNCHANGED <<registry, old, sock, isNil, chan, kept, online, up>>

\* Faulty variant: the channel is made but the old websocket is left open.
CloseSock_LeftOpen(c) ==
    /\ pc[c] = "closeSock"
    /\ Goto(c, IF isNil[old[c]] THEN "gone" ELSE "wait")
    /\ UNCHANGED <<registry, old, tunnelVars, chan, kept, online, up>>

\* t.conn.Close() on a conn that is nil by now panics, which ends the handler.
CloseSock(c) ==
    /\ pc[c] = "closeSock"
    /\ IF isNil[old[c]]
       THEN Goto(c, "gone") /\ sock' = [sock EXCEPT ![c] = "closed"]
       ELSE Goto(c, "wait") /\ sock' = [sock EXCEPT ![old[c]] = "closed"]
    /\ UNCHANGED <<registry, old, isNil, leaseCh, chan, kept, online, up>>

\* <-t.waitLeaseCh: the field is read again, it may be another's channel.
WaitLease(c) ==
    /\ pc[c] = "wait"
    /\ chan' = [chan EXCEPT ![c] = leaseCh[old[c]]]
    /\ Goto(c, "recv")
    /\ UNCHANGED <<registry, old, tunnelVars, kept, online, up>>

ClearProxys(c) ==
    /\ pc[c] = "clear"
    /\ Goto(c, "store")
    /\ UNCHANGED <<registry, old, tunnelVars, chan, kept, online, up>>

StoreTunnel(c) ==
    /\ pc[c] = "store"
    /\ registry' = c
    /\ Goto(c, "register")
    /\ UNCHANGED <<old, tunnelVars, chan, kept, online, up>>

\* SetNodeAndZadd; an error returns through the deferred Delete.
Register(c) ==
    /\ pc[c] = "register"
    /\ \/ Goto(c, "setOnline")
       \/ "redis" \in Faults /\ Goto(c, "delete")
    /\ UNCHANGED <<registry, old, tunnelVars, chan, kept, online, up>>

\* Faulty variant: its error is not looked at.
SetNodeOnline_ErrorIgnored(c) ==
    /\ pc[c] = "setOnline"
    /\ \/ online' = TRUE
       \/ "redis" \in Faults /\ UNCHANGED online
    /\ Goto(c, "serve")
    /\ UNCHANGED <<registry, old, tunnelVars, chan, kept, up>>

SetNodeOnline(c) ==
    /\ pc[c] = "setOnline"
    /\ \/ online' = TRUE /\ Goto(c, "serve")
       \/ "redis" \in Faults /\ Goto(c, "delete") /\ UNCHANGED online
    /\ UNCHANGED <<registry, old, tunnelVars, chan, kept, up>>

\* serve has read a message and writes its data to a user ...
OnMessage(c) ==
    /\ pc[c] = "serve" /\ Goto(c, "write")
    /\ UNCHANGED <<registry, old, tunnelVars, chan, kept, online, up>>

\* ... who takes it, or leaves.
WriteReturns(c) ==
    /\ pc[c] = "write" /\ Goto(c, "serve")
    /\ UNCHANGED <<registry, old, tunnelVars, chan, kept, online, up>>

\* Faulty variant: no deferred handleNodeOffline.
ServeReturns_StaysOnline(c) ==
    /\ pc[c] = "serve" /\ sock[c] = "closed"
    /\ Goto(c, "delete")
    /\ UNCHANGED <<registry, old, tunnelVars, chan, kept, online, up>>

\* serve returns when the read fails.
ServeReturns(c) ==
    /\ pc[c] = "serve" /\ sock[c] = "closed"
    /\ Goto(c, "setOffline")
    /\ UNCHANGED <<registry, old, tunnelVars, chan, kept, online, up>>

\* Faulty variant: no deferred tunnels.Delete.
HandleNodeOffline_NotDeleted(c) ==
    /\ pc[c] = "setOffline"
    /\ online' = FALSE
    /\ Goto(c, "lease")
    /\ UNCHANGED <<registry, old, tunnelVars, chan, kept, up>>

\* handleNodeOffline goes on when SetNodeOffline fails.
HandleNodeOffline(c) ==
    /\ pc[c] = "setOffline"
    /\ \/ online' = FALSE
       \/ "redis" \in Faults /\ UNCHANGED online
    /\ Goto(c, "delete")
    /\ UNCHANGED <<registry, old, tunnelVars, chan, kept, up>>

\* The deferred tunnels.Delete is by node id, whoever is registered.
DeleteTunnel(c) ==
    /\ pc[c] = "delete"
    /\ registry' = None
    /\ Goto(c, "lease")
    /\ UNCHANGED <<old, tunnelVars, chan, kept, online, up>>

\* leaseComplete: nobody is waiting, or send on the channel of who is.
LeaseComplete(c) ==
    /\ pc[c] = "lease"
    /\ chan' = [chan EXCEPT ![c] = leaseCh[c]]
    /\ IF leaseCh[c] = None
       THEN Goto(c, "gone") /\ sock' = [sock EXCEPT ![c] = "closed"]
       ELSE Goto(c, "send") /\ UNCHANGED sock
    /\ UNCHANGED <<registry, old, isNil, leaseCh, kept, online, up>>

\* The channel is not buffered: sender and receiver go on together.
Signal(c, d) ==
    /\ pc[c] = "send" /\ pc[d] = "recv" /\ chan[c] = chan[d]
    /\ pc' = [pc EXCEPT ![c] = "gone", ![d] = "clear"]
    /\ sock' = [sock EXCEPT ![c] = "closed"]
    /\ UNCHANGED <<registry, old, isNil, leaseCh, chan, kept, online, up>>

-----------------------------------------------------------------------------
\* The peer closes, or the network does.
SocketDies(c) ==
    /\ sock[c] = "open"
    /\ sock' = [sock EXCEPT ![c] = "closed"]
    /\ UNCHANGED <<registry, pc, old, isNil, leaseCh, chan, kept, online, up>>

\* keepalive, after more than 3 pings without an answer: Close, then nil.  The
\* conn of a tunnel it closed before is nil: the panic ends the process.
KeepaliveCloses ==
    /\ "timeout" \in Faults /\ registry # None /\ kept = None /\ ~isNil[registry]
    /\ kept' = registry
    /\ sock' = [sock EXCEPT ![registry] = "closed"]
    /\ UNCHANGED <<registry, pc, old, isNil, leaseCh, chan, online, up>>

KeepaliveForgets ==
    /\ kept # None
    /\ isNil' = [isNil EXCEPT ![kept] = TRUE]
    /\ kept' = None
    /\ UNCHANGED <<registry, pc, old, sock, leaseCh, chan, online, up>>

KeepalivePanics ==
    /\ registry # None /\ kept = None /\ isNil[registry]
    /\ up' = FALSE
    /\ registry' = None
    /\ pc' = [c \in Conn |-> "gone"]
    /\ sock' = [c \in Conn |-> "closed"]
    /\ UNCHANGED <<old, isNil, leaseCh, chan, kept, online>>

\* NewTunnelManager clears node:online (or its expiry did).
NewTunnelManager ==
    /\ ~up
    /\ up' = TRUE
    /\ online' = FALSE
    /\ UNCHANGED <<registry, pc, old, tunnelVars, chan, kept>>

Step(c) ==
    \/ LoadOld(c) \/ Close(c) \/ CloseSock(c) \/ WaitLease(c) \/ ClearProxys(c)
    \/ StoreTunnel(c) \/ Register(c) \/ SetNodeOnline(c) \/ ServeReturns(c)
    \/ HandleNodeOffline(c) \/ DeleteTunnel(c) \/ LeaseComplete(c)
    \/ \E d \in Conn : Signal(c, d)

Messages(c) == OnMessage(c) \/ WriteReturns(c)

Next ==
    \/ \E c \in Conn : ServeWS(c) \/ Step(c) \/ Messages(c) \/ SocketDies(c)
    \/ KeepaliveCloses \/ KeepaliveForgets \/ KeepalivePanics \/ NewTunnelManager

Spec == Init /\ [][Next]_vars

\* Goroutines run, redis calls return.  Strong fairness: of a closed websocket
\* only the messages that had arrived are handled, and then its read fails.
\* Sockets need not die, pings need not fail, and users need not read.
FairSpec == Spec /\ \A c \in Conn : WF_vars(Step(c)) /\ SF_vars(ServeReturns(c))

-----------------------------------------------------------------------------
(* Properties.                                                              *)

TypeOK ==
    /\ registry \in ConnOrNone
    /\ pc \in [Conn -> PCs]
    /\ old \in [Conn -> ConnOrNone]
    /\ sock \in [Conn -> {"open", "closed"}]
    /\ isNil \in [Conn -> BOOLEAN]
    /\ leaseCh \in [Conn -> ConnOrNone]
    /\ chan \in [Conn -> ConnOrNone]
    /\ kept \in ConnOrNone
    /\ online \in BOOLEAN /\ up \in BOOLEAN

\* Connections of users are never sent to a tunnel whose goroutine has left:
\* what the registry holds will still be deleted, whatever overlaps or fails.
RegisteredIsAlive == registry # None => pc[registry] \in HolderPCs

\* The same with the types of the variables.
RegistryInv == TypeOK /\ RegisteredIsAlive

\* A node is online only while a goroutine runs that will set it offline.
NoGhostOnline ==
    "redis" \notin Faults /\ up /\ online =>
        \E c \in Conn : pc[c] \in ServingPCs \cup {"setOffline"}

\* If websockets arrive one after the other and pings are answered, whoever
\* serves the node is registered and online.
ServedIsReachable ==
    ~Overlapping /\ "timeout" \notin Faults =>
        \A c \in Conn : pc[c] \in ServingPCs => registry = c /\ online

\* Under the same conditions the handover is a lease: the next goroutine
\* stores its tunnel only after the one before it has deleted its own.
Lease == INSTANCE NodeLease WITH holders <- {c \in Conn : pc[c] \in HolderPCs}
ImplementsLease == Lease!Spec

(* The inductive invariant behind the lease.                                *)

WaitPCs == {"close", "closeSock", "wait", "recv"}

\* The keepalive loop has closed nothing.
Answered == up /\ kept = None /\ \A c \in Conn : ~isNil[c]

\* Who holds the node is registered, and sets it online before it serves.
HolderIsRegistered ==
    /\ \A c \in Conn : pc[c] \in HolderPCs => registry = c
    /\ \A c \in Conn : pc[c] \in ServingPCs => online

\* Only one goroutine is arriving, but for those that will never go on; and no
\* two take over the same tunnel.
OneArrives ==
    \A c, d \in Conn : c # d =>
        /\ pc[c] \in ArrivalPCs /\ pc[d] \in ArrivalPCs => Stuck(c) \/ Stuck(d)
        /\ pc[c] \in WaitPCs /\ pc[d] \in WaitPCs => old[c] # old[d]

\* Who has waited, or has nobody to wait for, finds the node free.
FreeToStore ==
    /\ \A c \in Conn : pc[c] \in {"clear", "store"} => registry = None
    /\ \A c \in Conn : pc[c] \in WaitPCs =>
          /\ old[c] \in Conn \ {c}
          /\ pc[old[c]] \in HolderPCs \cup {"lease", "send", "gone"}
          /\ registry \in {None, old[c]} \/ Stuck(c)

\* A channel leads from the tunnel that is taken over to who takes it over.
ChannelsMatch ==
    /\ \A c \in Conn : pc[c] \in {"closeSock", "wait", "recv"} => leaseCh[old[c]] = c
    /\ \A c \in Conn : pc[c] = "recv" => chan[c] = c
    /\ \A c \in Conn : pc[c] # "gone" /\ leaseCh[c] # None =>
          pc[leaseCh[c]] \in {"closeSock", "wait", "recv"} /\ old[leaseCh[c]] = c
    /\ \A c \in Conn : pc[c] = "send" => leaseCh[c] # None /\ chan[c] = leaseCh[c]

SerialInv ==
    /\ TypeOK /\ RegisteredIsAlive
    /\ Answered /\ HolderIsRegistered /\ OneArrives /\ FreeToStore /\ ChannelsMatch

\* Where websockets arrive one after the other, a handover ends if the tunnel
\* that is taken over had not finished when the waiting began; unless that one
\* is for ever writing to a user who neither reads nor leaves.
HandoverEnds ==
    \A c \in Conn :
        pc[c] = "recv" /\ ~Stuck(c) ~> pc[c] # "recv" \/ [](pc[old[c]] = "write")
=============================================================================
