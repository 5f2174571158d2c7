---------------------------- MODULE MCHttpProxy ----------------------------
(* A small instance of HttpProxy for TLC: one request may get a body of up  *)
(* to two items, the other none, but with a Content-Length all the same.    *)
EXTENDS HttpProxy, TLC

CONSTANTS r1, r2

MCMaxBody == (r1 :> 2) @@ (r2 :> 0)
=============================================================================
