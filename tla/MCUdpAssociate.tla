--------------------------- MODULE MCUdpAssociate ---------------------------
(* A small instance of UdpAssociate for TLC: three requests of one user,   *)
(* two of them from one address, and one of another user.                  *)
EXTENDS UdpAssociate, TLC

CONSTANTS a1, a2, a3, b1, ua, ub

MCUserOf == (a1 :> ua) @@ (a2 :> ua) @@ (a3 :> ua) @@ (b1 :> ub)
MCAddrOf == (a1 :> "ua:1") @@ (a2 :> "ua:1") @@ (a3 :> "ua:2") @@ (b1 :> "ub:1")

Symmetry == Permutations({a1, a2})
=============================================================================
