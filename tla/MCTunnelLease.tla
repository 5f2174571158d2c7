---------------------------- MODULE MCTunnelLease ----------------------------
(* Small instances of TunnelLease for TLC. *)
EXTENDS TunnelLease, TLC

Symmetry == Permutations(Conn)
=============================================================================
