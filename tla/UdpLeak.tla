------------------------------ MODULE UdpLeak ------------------------------
(* UdpAssociate with the memory of a race: of two requests of one user     *)
(* that both find no server, both open one, and the server stored first    *)
(* is in no map any more: nobody stops it.                                 *)
EXTENDS UdpAssociate

VARIABLE raced    \* users two of whose requests were opening a server

Opening(u) == {a \in Assoc : UserOf[a] = u /\ stage[a] \in {"listen", "store"}}

LInit == AssocInit /\ raced = {}
LNext == AssocNext /\ raced' = raced \cup {u \in User : Cardinality(Opening(u)') > 1}
LSpec == LInit /\ [][LNext]_<<assocVars, raced>>

\* When the last association of a user has left, no UDP server of that user
\* listens: every server newUDPServer opened was stopped.  The code promises
\* it only to users whose requests never opened a server at the same time.
ServersAreStopped ==
  \A u \in User \ raced : udpCount[u] = 0 => \A p \in Port : open[p] # u
=============================================================================
