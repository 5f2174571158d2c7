------------------------------- MODULE Users -------------------------------
(* What the models of the socks5 server share: the names of users, and None *)
(* where there is no user, request or server.                               *)

CONSTANTS User, None
=============================================================================
