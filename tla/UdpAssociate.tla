---------------------------- MODULE UdpAssociate ----------------------------
(* socks5 UDP associations (ippop/api/socks5: handleSocks5Associate,       *)
(* udp.go, userudpcount.go, useripcount.go).                               *)
(*                                                                         *)
(* All associations of a user share one UDP server.  The first one opens   *)
(* it and the last one, by a count, stops it.  Each association is a       *)
(* goroutine; the two counts are behind locks, the map of servers is a     *)
(* sync.Map, and between the steps below any other goroutine may run.      *)
EXTENDS Users, Integers, FiniteSets

CONSTANTS Assoc,     \* associate requests
          Port,      \* the range UDPPortStart..UDPPortEnd
          UserOf,    \* whose request it is
          AddrOf     \* the user and address it comes from

Address == {AddrOf[a] : a \in Assoc}

ASSUME RequestsAssumption ==
  /\ IsFiniteSet(Assoc) /\ UserOf \in [Assoc -> User]
  /\ DOMAIN AddrOf = Assoc /\ None \notin User \cup Port

VARIABLES
  stage,       \* where each request is in handleSocks5Associate
  server,      \* the port of the UDP server each request has got
  ipCount,     \* userIPCount.userIP
  udpCount,    \* userUDPCount.users
  udpServers,  \* userUDPServers: the port of the user's server
  open         \* for every port, the user whose UDP server listens there

assocVars == <<stage, server, ipCount, udpCount, udpServers, open>>

Stages == {"idle", "ip", "load", "listen", "store", "reply", "live", "decrUDP", "decrIP", "done"}

AssocInit ==
  /\ stage = [a \in Assoc |-> "idle"]
  /\ server = [a \in Assoc |-> None]
  /\ ipCount = [k \in Address |-> 0]
  /\ udpCount = [u \in User |-> 0]
  /\ udpServers = [u \in User |-> None]
  /\ open = [p \in Port |-> None]

Goto(a, from, to) == stage[a] = from /\ stage' = [stage EXCEPT ![a] = to]

IncrIP(a) ==
  /\ Goto(a, "idle", "ip")
  /\ ipCount' = [ipCount EXCEPT ![AddrOf[a]] = @ + 1]
  /\ UNCHANGED <<server, udpCount, udpServers, open>>

IncrUDP(a) ==
  /\ Goto(a, "ip", "load")
  /\ udpCount' = [udpCount EXCEPT ![UserOf[a]] = @ + 1]
  /\ UNCHANGED <<server, ipCount, udpServers, open>>

\* The user has a server already: share it.
LoadServer(a) ==
  /\ Goto(a, "load", "reply")
  /\ udpServers[UserOf[a]] # None
  /\ server' = [server EXCEPT ![a] = udpServers[UserOf[a]]]
  /\ UNCHANGED <<ipCount, udpCount, udpServers, open>>

\* It has none: open one ...
LoadNothing(a) ==
  /\ Goto(a, "load", "listen")
  /\ udpServers[UserOf[a]] = None
  /\ UNCHANGED <<server, ipCount, udpCount, udpServers, open>>

\* ... on a free port of the range (the code takes the lowest one that no
\* process of the machine has) ...
Listen(a) ==
  /\ Goto(a, "listen", "store")
  /\ \E p \in Port : /\ open[p] = None
                     /\ open' = [open EXCEPT ![p] = UserOf[a]]
                     /\ server' = [server EXCEPT ![a] = p]
  /\ UNCHANGED <<ipCount, udpCount, udpServers>>

\* Mutant: the error path takes the request out of the count, and so does the
\* deferred call.
ListenFails_DecrTwice(a) ==
  /\ Goto(a, "listen", "decrUDP")
  /\ udpCount' = [udpCount EXCEPT ![UserOf[a]] = @ - 1]
  /\ UNCHANGED <<server, ipCount, udpServers, open>>

\* ... if there is one; other processes may have taken the rest.
ListenFails(a) ==
  /\ Goto(a, "listen", "decrUDP")
  /\ UNCHANGED <<server, ipCount, udpCount, udpServers, open>>

StoreServer(a) ==
  /\ Goto(a, "store", "reply")
  /\ udpServers' = [udpServers EXCEPT ![UserOf[a]] = server[a]]
  /\ UNCHANGED <<server, ipCount, udpCount, open>>

\* The address of the server is sent; io.Copy then waits for the user's
\* connection to end.
ReplyPort(a) ==
  /\ Goto(a, "reply", "live")
  /\ UNCHANGED <<server, ipCount, udpCount, udpServers, open>>

\* The reply fails, or the connection ends: the deferred calls run, the last
\* one registered first.
Leave(a) ==
  /\ Goto(a, "reply", "decrUDP") \/ Goto(a, "live", "decrUDP")
  /\ UNCHANGED <<server, ipCount, udpCount, udpServers, open>>

\* Mutants: the server is stopped while one association is left; the server is
\* forgotten but not stopped.
DecrUDP_OneLeft(a) ==
  LET u == UserOf[a] IN
  /\ Goto(a, "decrUDP", "decrIP")
  /\ udpCount' = [udpCount EXCEPT ![u] = @ - 1]
  /\ IF udpCount[u] <= 2 /\ udpServers[u] # None
       THEN /\ open' = [open EXCEPT ![udpServers[u]] = None]
            /\ udpServers' = [udpServers EXCEPT ![u] = None]
       ELSE UNCHANGED <<udpServers, open>>
  /\ UNCHANGED <<server, ipCount>>

DecrUDP_NotStopped(a) ==
  LET u == UserOf[a] IN
  /\ Goto(a, "decrUDP", "decrIP")
  /\ udpCount' = [udpCount EXCEPT ![u] = @ - 1]
  /\ udpServers' = IF udpCount[u] = 1 THEN [udpServers EXCEPT ![u] = None] ELSE udpServers
  /\ UNCHANGED <<server, ipCount, open>>

\* Under the lock of the count: the last association stops the server.
DecrUDP(a) ==
  LET u == UserOf[a] IN
  /\ Goto(a, "decrUDP", "decrIP")
  /\ udpCount' = [udpCount EXCEPT ![u] = @ - 1]
  /\ IF udpCount[u] = 1 /\ udpServers[u] # None
       THEN /\ open' = [open EXCEPT ![udpServers[u]] = None]
            /\ udpServers' = [udpServers EXCEPT ![u] = None]
       ELSE UNCHANGED <<udpServers, open>>
  /\ UNCHANGED <<server, ipCount>>

\* Mutant: the entry of the address is deleted whatever its count.
DecrIP_Deletes(a) ==
  /\ Goto(a, "decrIP", "done")
  /\ ipCount' = [ipCount EXCEPT ![AddrOf[a]] = 0]
  /\ UNCHANGED <<server, udpCount, udpServers, open>>

DecrIP(a) ==
  /\ Goto(a, "decrIP", "done")
  /\ ipCount' = [ipCount EXCEPT ![AddrOf[a]] = @ - 1]
  /\ UNCHANGED <<server, udpCount, udpServers, open>>

Step(a) == \/ IncrIP(a) \/ IncrUDP(a) \/ LoadServer(a) \/ LoadNothing(a)
           \/ Listen(a) \/ ListenFails(a) \/ StoreServer(a) \/ ReplyPort(a)
           \/ Leave(a) \/ DecrUDP(a) \/ DecrIP(a)

\* The goroutine of a finished request is gone and the next request of that
\* connection slot starts anew.
Again(a) ==
  /\ Goto(a, "done", "idle")
  /\ server' = [server EXCEPT ![a] = None]
  /\ UNCHANGED <<ipCount, udpCount, udpServers, open>>

AssocNext == \E a \in Assoc : Step(a) \/ Again(a)

AssocSpec == AssocInit /\ [][AssocNext]_assocVars

-----------------------------------------------------------------------------
(* Properties                                                              *)

AssocTypeOK ==
  /\ stage \in [Assoc -> Stages] /\ server \in [Assoc -> Port \cup {None}]
  /\ ipCount \in [Address -> Nat] /\ udpCount \in [User -> Nat]
  /\ udpServers \in [User -> Port \cup {None}] /\ open \in [Port -> User \cup {None}]

\* An association that has been told a port is served there, by its own
\* user's server, until it leaves: however requests start and end around it,
\* nobody stops the server early and no other user gets its port.
LiveIsServed == \A a \in Assoc : stage[a] \in {"reply", "live"} => open[server[a]] = UserOf[a]

\* handleUDPConn takes datagrams from an address exactly while a request from
\* there is being handled: the count neither drifts nor is left behind.
AddressIsKnown ==
  \A k \in Address :
    ipCount[k] > 0 <=> \E a \in Assoc : AddrOf[a] = k /\ stage[a] \notin {"idle", "done"}

\* What an association relies on, with the types of the variables.
AssociationInv == AssocTypeOK /\ LiveIsServed /\ AddressIsKnown

\* A user without associations has no server in userUDPServers, so the next
\* request never shares one that was stopped.
StoppedIsForgotten == \A u \in User : udpCount[u] = 0 => udpServers[u] = None
=============================================================================
