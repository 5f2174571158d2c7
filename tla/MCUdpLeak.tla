----------------------------- MODULE MCUdpLeak -----------------------------
(* The small instance of UdpAssociate, with the memory of the race. *)
EXTENDS UdpLeak, MCUdpAssociate
=============================================================================
