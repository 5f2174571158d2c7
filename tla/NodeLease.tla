------------------------------- MODULE NodeLease -------------------------------
(***************************************************************************)
(* What the handover of acceptWebsocket (src/ippop/api/ws/tunmgr.go) is    *)
(* for: the tunnel of a node is held by one websocket goroutine at a time. *)
(* The next one starts only when the one before has cleaned up.            *)
(***************************************************************************)
CONSTANT Conn

VARIABLE holders    \* the goroutines that hold the node

Init == holders = {}

Acquire(c) == holders = {} /\ holders' = {c}

Release(c) == holders = {c} /\ holders' = {}

Next == \E c \in Conn : Acquire(c) \/ Release(c)

Spec == Init /\ [][Next]_holders
=============================================================================
