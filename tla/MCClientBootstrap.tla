------------------------- MODULE MCClientBootstrap -------------------------
(* A small instance of ClientBootstrap, with the client's life cycle, for  *)
(* TLC: two Tunnels in each life of the process, and two servers, one of   *)
(* them in the list that is compiled in.                                   *)
EXTENDS ClientBootstrap, TLC

CONSTANTS t1, t2, x, y
=============================================================================
