-------------------------- MODULE MCBrowserTunnels --------------------------
(* A small instance of BrowserTunnels for TLC. *)
EXTENDS BrowserTunnels, TLC

Symmetry == Permutations(Conn) \cup Permutations(Node) \cup Permutations(IP)
=============================================================================
