-------------------------- MODULE MCPopAllocation --------------------------
(* A small instance of PopAllocation for TLC: two points of presence of    *)
(* one area and one of the default area.                                   *)
EXTENDS PopAllocation, TLC

CONSTANTS p1, p2, d1

MCPops == <<p1, d1, p2>>
MCAreaOf == (p1 :> "here") @@ (p2 :> "here") @@ (d1 :> "default")
MCMaxCount == (p1 :> 1) @@ (p2 :> 1) @@ (d1 :> 0)

Symmetry == Permutations(Request) \cup Permutations(Node)
=============================================================================
