----------------------------- MODULE StreamSpec -----------------------------
(* What a proxied connection promises about one direction of its sessions: *)
(* the receiver gets the sender's items in order and without a gap, up to  *)
(* some point after which it gets nothing more.                            *)
EXTENDS Naturals, Sequences

CONSTANT Session

VARIABLES sent,   \* per session, how many items the sender has produced
          got     \* per session, the items the receiver has been given

Init == sent = [s \in Session |-> 0] /\ got = [s \in Session |-> <<>>]

\* The sender produces its next item.
Send(s) == sent' = [sent EXCEPT ![s] = @ + 1] /\ UNCHANGED got

\* The receiver is given the first item it has not had.
Deliver(s) == /\ Len(got[s]) < sent[s]
              /\ got' = [got EXCEPT ![s] = Append(@, Len(@) + 1)]
              /\ UNCHANGED sent

Next == \E s \in Session : Send(s) \/ Deliver(s)

Spec == Init /\ [][Next]_<<sent, got>>
=============================================================================
