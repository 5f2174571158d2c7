------------------------------ MODULE Datagram ------------------------------
(* The header of a socks5 UDP datagram (ippop/api/socks5/protocol.go): how  *)
(* the server reads the one a user sends and builds the one of an answer.   *)
(*                                                                         *)
(* A datagram is a sequence of bytes.  The text of an address, "host:port",*)
(* is a record: net.JoinHostPort and net.SplitHostPort are inverse to each *)
(* other, and so are IP.String and net.ParseIP up to To4.  A name is one    *)
(* that net.ParseIP does not read as an address.                           *)
EXTENDS Naturals, Sequences

Byte == 0..255

ipv4Address == 1
fqdnAddress == 3
ipv6Address == 4

\* net.IP.To4: an IPv4 address may be written as an IPv6 address.
Mapped(b) ==
  Len(b) = 16 /\ (\A i \in 1..10 : b[i] = 0) /\ b[11] = 255 /\ b[12] = 255
To4(b) == IF Mapped(b) THEN SubSeq(b, 13, 16) ELSE b

TextOf(type, host, port) == [type |-> type, host |-> host, port |-> port]

IsIP(text) == text.type = "ip"

-----------------------------------------------------------------------------
(* Datagrams of users.                                                     *)

\* The length of the address in bb, with the length byte of a name.
AddrLen(bb) ==
  CASE bb[4] = ipv4Address -> 4
    [] bb[4] = ipv6Address -> 16
    [] bb[4] = fqdnAddress -> 1 + bb[5]

\* What newDatagramFromBytes does not answer with ErrBadRequest; there must
\* be data.
WellFormed(bb) ==
  /\ Len(bb) >= 4
  /\ bb[4] \in {ipv4Address, ipv6Address, fqdnAddress}
  /\ bb[4] = fqdnAddress => Len(bb) >= 5 /\ bb[5] # 0
  /\ Len(bb) > 4 + AddrLen(bb) + 2

\* Mutant: the data starts at the second byte of the port.
newDatagramFromBytes_Early(bb) ==
  LET minl == 4 + AddrLen(bb)
  IN  [rsv |-> SubSeq(bb, 1, 2), frag |-> bb[3], atyp |-> bb[4],
       dstAddr |-> SubSeq(bb, 5, minl),
       dstPort |-> SubSeq(bb, minl + 1, minl + 2),
       data |-> SubSeq(bb, minl + 2, Len(bb))]

newDatagramFromBytes(bb) ==
  LET minl == 4 + AddrLen(bb)
  IN  [rsv |-> SubSeq(bb, 1, 2), frag |-> bb[3], atyp |-> bb[4],
       dstAddr |-> SubSeq(bb, 5, minl),
       dstPort |-> SubSeq(bb, minl + 1, minl + 2),
       data |-> SubSeq(bb, minl + 3, Len(bb))]

Uint16(port) == 256 * port[1] + port[2]

\* toAddress, of what newDatagramFromBytes returned.
toAddress(d) ==
  IF d.atyp = fqdnAddress
  THEN TextOf("name", SubSeq(d.dstAddr, 2, Len(d.dstAddr)), Uint16(d.dstPort))
  ELSE TextOf("ip", To4(d.dstAddr), Uint16(d.dstPort))

-----------------------------------------------------------------------------
(* Datagrams of answers.                                                   *)

PutUint16(n) == <<(n \div 256) % 256, n % 256>>

\* parseAddress gives the bytes of a name a length.
parseAddress(text) ==
  LET port == PutUint16(text.port)
  IN  IF text.type = "name"
      THEN [atyp |-> fqdnAddress, addr |-> <<Len(text.host) % 256>> \o text.host, port |-> port]
      ELSE [atyp |-> IF Len(text.host) = 4 THEN ipv4Address ELSE ipv6Address,
            addr |-> text.host, port |-> port]

\* NewDatagram gives them another one.
NewDatagram(text, data) ==
  LET a == parseAddress(text)
  IN  [rsv |-> <<0, 0>>, frag |-> 0, atyp |-> a.atyp,
       dstAddr |-> IF a.atyp = fqdnAddress THEN <<Len(a.addr) % 256>> \o a.addr ELSE a.addr,
       dstPort |-> a.port, data |-> data]

\* Mutant: the port is left out.
Bytes_NoPort(d) == d.rsv \o <<d.frag, d.atyp>> \o d.dstAddr \o d.data

Bytes(d) == d.rsv \o <<d.frag, d.atyp>> \o d.dstAddr \o d.dstPort \o d.data

-----------------------------------------------------------------------------
(* What a user's program writes, and expects to read, for a destination and*)
(* data: the reference the definitions above are compared with.            *)

Prefix(text) ==
  IF text.type = "name" THEN <<0, 0, 0, fqdnAddress, Len(text.host)>>
  ELSE IF Len(text.host) = 4 THEN <<0, 0, 0, ipv4Address>> ELSE <<0, 0, 0, ipv6Address>>

Encode(text, data) == ((Prefix(text) \o text.host) \o PutUint16(text.port)) \o data

\* What may name a destination in a header; an IPv4 address also does when it
\* is written as an IPv6 address.
Spellings(text) ==
  IF text.type = "name" THEN {<<fqdnAddress, Len(text.host)>> \o text.host}
  ELSE IF Len(text.host) = 4
       THEN {<<ipv4Address>> \o text.host,
             <<ipv6Address, 0, 0, 0, 0, 0, 0, 0, 0, 0, 0, 255, 255>> \o text.host}
       ELSE {<<ipv6Address>> \o text.host}

\* bb is a datagram for a destination, with the data.  Its first three bytes,
\* two reserved ones and the fragment number, may be any.
Says(bb, text, data) ==
  \E name \in Spellings(text) :
    SubSeq(bb, 4, Len(bb)) = (name \o PutUint16(text.port)) \o data
=============================================================================
