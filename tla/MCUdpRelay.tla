----------------------------- MODULE MCUdpRelay -----------------------------
(* A small instance of UdpRelay for TLC: two sources and two public        *)
(* destinations, an address and a name; two of the four pairs have the     *)
(* same id.  The user sends a fragment to the address, spelt as an IPv6    *)
(* address, more data to the name than fits in the buffer, something to a  *)
(* private address and a datagram without data.                            *)
EXTENDS UdpRelay, TLC

CONSTANTS u, s1, s2, i1, i2, i3, i4

Address == TextOf("ip", <<9, 9, 9, 9>>, 258)
Name    == TextOf("name", <<51, 97>>, 80)
Private == TextOf("ip", <<10, 0, 0, 1>>, 80)

Long(byte) == [i \in 1..20 |-> byte]

\* Fragment 1, for the address as an IPv6 address.
Fragment == <<0, 0, 1, 4, 0, 0, 0, 0, 0, 0, 0, 0, 0, 0, 255, 255, 9, 9, 9, 9, 1, 2, 7>>

MCDatagrams == {Fragment, Encode(Name, Long(8)), Encode(Private, <<7>>), Encode(Address, <<>>)}

MCAnswerTo == << <<1>>, Long(2) \o Long(2) >>

MCSessionId == [p \in Src \X Dest |-> CASE p = <<s1, Address>> -> i1
                                        [] p = <<s2, Name>>    -> i1
                                        [] p = <<s1, Name>>    -> i2
                                        [] p = <<s2, Address>> -> i3
                                        [] OTHER               -> i4]

MCPublicDest == {Address, Name}
=============================================================================
