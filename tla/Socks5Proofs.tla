---------------------------- MODULE Socks5Proofs ----------------------------
(* Proofs about Datagram, Socks5, UdpRelay and UdpAssociate, for any users, *)
(* addresses, names, ports, datagrams, ids and requests: what the header of *)
(* a datagram says, who is served, what a session is handed over with,      *)
(* where datagrams and answers go, and who has a UDP server.                *)
EXTENDS UdpRelay, UdpLeak, SequenceTheorems, FiniteSetTheorems, TLAPS

-----------------------------------------------------------------------------
(* The header of socks5 datagrams.                                          *)

\* The destinations a header can name: IPv4 and IPv6 addresses, and names of
\* up to 255 bytes.
IPHosts   == {h \in Seq(Byte) : Len(h) = 4 \/ (Len(h) = 16 /\ ~Mapped(h))}
NameHosts == {h \in Seq(Byte) : Len(h) \in 1..255}
Ports     == 0..256 * 256 - 1
IPTexts   == [type : {"ip"}, host : IPHosts, port : Ports]
NameTexts == [type : {"name"}, host : NameHosts, port : Ports]

\* A part of a sequence is what has its items.
LEMMA Slice ==
  ASSUME NEW b \in Seq(Nat), NEW s \in Seq(Nat), NEW k \in Nat, k + Len(s) <= Len(b),
         \A i \in 1..Len(s) : b[k + i] = s[i]
  PROVE  SubSeq(b, k + 1, k + Len(s)) = s
<1> DEFINE m == k + 1
           n == k + Len(s)
<1>1. Len(s) \in Nat /\ Len(b) \in Nat /\ \A i \in 1..Len(b) : b[i] \in Nat
  BY LenProperties
<1>2. /\ m \in Int /\ n \in Int /\ n - m + 1 = Len(s)
      /\ \A i \in 1..Len(s) : m + i - 1 = k + i
  BY <1>1
<1>3. \A i \in m..n : b[i] \in Nat
  BY <1>1
<1>4. m <= n \/ Len(s) = 0
  BY <1>1
<1> HIDE DEF m, n
<1>5. SubSeq(b, m, n) \in Seq(Nat)
  BY <1>2, <1>3, SubSeqProperties
<1>6. Len(SubSeq(b, m, n)) = IF m <= n THEN n - m + 1 ELSE 0
  BY <1>2, <1>3, SubSeqProperties
<1>7. \A i \in 1..n - m + 1 : SubSeq(b, m, n)[i] = b[m + i - 1]
  BY <1>2, <1>3, SubSeqProperties
<1>8. Len(SubSeq(b, m, n)) = Len(s)
  BY <1>1, <1>2, <1>4, <1>6
<1>9. \A i \in 1..Len(s) : SubSeq(b, m, n)[i] = s[i]
  BY <1>1, <1>2, <1>7
<1>10. SubSeq(b, m, n) = s
  BY <1>5, <1>8, <1>9, SeqEqual
<1> QED
  BY <1>10 DEF m, n

\* What b says of the four sequences it is made of.
Parts(b, p, h, q, d) ==
  /\ b \in Seq(Nat)
  /\ Len(b) = Len(p) + Len(h) + Len(q) + Len(d)
  /\ \A i \in 1..Len(p) : b[i] = p[i]
  /\ SubSeq(b, Len(p) + 1, Len(p) + Len(h)) = h
  /\ SubSeq(b, Len(p) + Len(h) + 1, Len(p) + Len(h) + Len(q)) = q
  /\ SubSeq(b, Len(p) + Len(h) + Len(q) + 1, Len(b)) = d

\* Four sequences put together can be taken apart again.
LEMMA Slices ==
  ASSUME NEW p \in Seq(Nat), NEW h \in Seq(Nat), NEW q \in Seq(Nat), NEW d \in Seq(Nat),
         NEW b, b = ((p \o h) \o q) \o d
  PROVE  Parts(b, p, h, q, d)
<1>1. Len(p) \in Nat /\ Len(h) \in Nat /\ Len(q) \in Nat /\ Len(d) \in Nat
  BY LenProperties
<1>2. /\ p \o h \in Seq(Nat) /\ Len(p \o h) = Len(p) + Len(h)
      /\ \A i \in 1..Len(p) + Len(h) :
           (p \o h)[i] = IF i <= Len(p) THEN p[i] ELSE h[i - Len(p)]
  BY ConcatProperties
<1>3. /\ (p \o h) \o q \in Seq(Nat)
      /\ Len((p \o h) \o q) = Len(p) + Len(h) + Len(q)
      /\ \A i \in 1..Len(p) + Len(h) + Len(q) :
           ((p \o h) \o q)[i] = IF i <= Len(p) + Len(h) THEN (p \o h)[i]
                                                      ELSE q[i - (Len(p) + Len(h))]
  BY <1>1, <1>2, ConcatProperties
<1>4. /\ b \in Seq(Nat)
      /\ Len(b) = Len(p) + Len(h) + Len(q) + Len(d)
      /\ \A i \in 1..Len(p) + Len(h) + Len(q) + Len(d) :
           b[i] = IF i <= Len(p) + Len(h) + Len(q) THEN ((p \o h) \o q)[i]
                                                   ELSE d[i - (Len(p) + Len(h) + Len(q))]
  BY <1>1, <1>3, ConcatProperties
<1>5. \A i \in 1..Len(p) : b[i] = p[i]
  BY <1>1, <1>2, <1>3, <1>4
<1>6. \A i \in 1..Len(h) : b[Len(p) + i] = h[i]
  <2> SUFFICES ASSUME NEW i \in 1..Len(h) PROVE b[Len(p) + i] = h[i]
    OBVIOUS
  <2>1. /\ Len(p) + i \in 1..Len(p) + Len(h) /\ ~(Len(p) + i <= Len(p))
        /\ Len(p) + i - Len(p) = i
    BY <1>1
  <2> QED
    BY <2>1, <1>1, <1>2, <1>3, <1>4
<1>7. \A i \in 1..Len(q) : b[Len(p) + Len(h) + i] = q[i]
  <2> SUFFICES ASSUME NEW i \in 1..Len(q) PROVE b[Len(p) + Len(h) + i] = q[i]
    OBVIOUS
  <2>1. /\ Len(p) + Len(h) + i \in 1..Len(p) + Len(h) + Len(q)
        /\ ~(Len(p) + Len(h) + i <= Len(p) + Len(h))
        /\ Len(p) + Len(h) + i - (Len(p) + Len(h)) = i
    BY <1>1
  <2> QED
    BY <2>1, <1>1, <1>3, <1>4
<1>8. \A i \in 1..Len(d) : b[Len(p) + Len(h) + Len(q) + i] = d[i]
  <2> SUFFICES ASSUME NEW i \in 1..Len(d) PROVE b[Len(p) + Len(h) + Len(q) + i] = d[i]
    OBVIOUS
  <2>1. /\ Len(p) + Len(h) + Len(q) + i \in 1..Len(p) + Len(h) + Len(q) + Len(d)
        /\ ~(Len(p) + Len(h) + Len(q) + i <= Len(p) + Len(h) + Len(q))
        /\ Len(p) + Len(h) + Len(q) + i - (Len(p) + Len(h) + Len(q)) = i
    BY <1>1
  <2> QED
    BY <2>1, <1>1, <1>4
<1>9. SubSeq(b, Len(p) + 1, Len(p) + Len(h)) = h
  BY <1>1, <1>4, <1>6, Slice
<1>10. SubSeq(b, Len(p) + Len(h) + 1, Len(p) + Len(h) + Len(q)) = q
  BY <1>1, <1>4, <1>7, Slice
<1>11. SubSeq(b, Len(p) + Len(h) + Len(q) + 1, Len(b)) = d
  BY <1>1, <1>4, <1>8, Slice
<1> QED
  BY <1>4, <1>5, <1>9, <1>10, <1>11 DEF Parts

LEMMA BytesAreNumbers == Seq(Byte) \subseteq Seq(Nat)
<1>1. Byte \subseteq Nat
  BY DEF Byte
<1> QED
  BY <1>1, SeqMonotonic

\* A number below 65536 is two bytes.
LEMMA TwoBytes ==
  ASSUME NEW n \in Int, 0 <= n, n < 256 * 256, NEW h \in Int, NEW l \in Int,
         0 <= l, l <= 255, l = n - 256 * h
  PROVE  0 <= h /\ h <= 255 /\ n = 256 * h + l
<1>1. n = 256 * h + l
  BY SMTT(30)
<1>2. 256 * h > -256 /\ 256 * h < 256 * 256
  BY <1>1, SMTT(30)
<1>3. h > -1 /\ h < 256
  BY <1>2, SMTT(30)
<1> QED
  BY <1>1, <1>3

\* Two bytes hold a port.
LEMMA PortBytes ==
  ASSUME NEW n \in Ports
  PROVE  /\ PutUint16(n) \in Seq(Nat) /\ Len(PutUint16(n)) = 2
         /\ Uint16(PutUint16(n)) = n
<1> DEFINE m == 256 * 256 - 1
<1>a. m \in Int /\ n \in 0..m
  <2>1. m \in Int
    BY SMTT(30)
  <2>2. n \in 0..m
    BY Zenon DEF Ports
  <2> QED
    BY ONLY <2>1, <2>2, Zenon
<1>b. n \in Int /\ 0 <= n /\ n <= m
  <2> HIDE DEF m
  <2> QED
    BY <1>a
<1>0. n \in Int /\ 0 <= n /\ n < 256 * 256
  <2>1. n \in Int /\ 0 <= n
    BY ONLY <1>b, Zenon
  <2>2. n < 256 * 256
    <3> DEFINE c == 256 * 256
    <3>1. c \in Int /\ m = c - 1
      BY SMTT(30)
    <3> HIDE DEF c, m
    <3>2. n < c
      BY <1>b, <3>1
    <3> QED
      BY <3>2, Zenon DEF c
  <2> QED
    BY ONLY <2>1, <2>2, Zenon
<1> HIDE DEF m
<1>6. n \div 256 \in Int /\ n % 256 \in 0..255 /\ n % 256 = n - 256 * (n \div 256)
  <2>1. n \in Int
    BY <1>0
  <2>2. n \div 256 \in Int
    BY ONLY <2>1, SMT
  <2>3. n % 256 \in 0..255
    BY ONLY <2>1, SMT
  <2>4. n % 256 = n - 256 * (n \div 256)
    BY ONLY <2>1, SMT
  <2> QED
    BY <2>2, <2>3, <2>4
<1> DEFINE hi == n \div 256
           lo == n % 256
<1>1. hi \in 0..255 /\ lo \in 0..255 /\ n = 256 * hi + lo
  <2>2. hi \in Int /\ lo \in 0..255 /\ lo = n - 256 * hi
    BY <1>6
  <2> HIDE DEF hi, lo
  <2>3. lo \in Int /\ 0 <= lo /\ lo <= 255
    BY <2>2
  <2>4. 0 <= hi /\ hi <= 255 /\ n = 256 * hi + lo
    BY <1>0, <2>2, <2>3, TwoBytes
  <2> QED
    BY <2>2, <2>4
<1>2. hi % 256 = hi
  BY <1>1
<1>3. PutUint16(n) = <<hi, lo>>
  BY <1>2 DEF PutUint16
<1> HIDE DEF hi, lo
<1>4. <<hi, lo>> \in Seq(Nat) /\ Len(<<hi, lo>>) = 2
  BY <1>1
<1>5. Uint16(<<hi, lo>>) = n
  BY <1>1 DEF Uint16
<1> QED
  BY <1>3, <1>4, <1>5

\* What is in the text of an address.
LEMMA IPTextParts ==
  ASSUME NEW text \in IPTexts
  PROVE  /\ text.type = "ip" /\ text.port \in Ports
         /\ text = TextOf("ip", text.host, text.port)
         /\ text.host \in Seq(Nat)
         /\ Len(text.host) \in {4, 16} /\ To4(text.host) = text.host
<1>1. /\ text.type = "ip" /\ text.port \in Ports /\ text.host \in Seq(Byte)
      /\ Len(text.host) = 4 \/ (Len(text.host) = 16 /\ ~Mapped(text.host))
      /\ text = [type |-> "ip", host |-> text.host, port |-> text.port]
  BY DEF IPTexts, IPHosts
<1>2. ~Mapped(text.host)
  <2>1. Len(text.host) = 4 => ~Mapped(text.host)
    BY DEF Mapped
  <2> QED
    BY <1>1, <2>1
<1>4. text.host \in Seq(Nat)
  BY <1>1, BytesAreNumbers
<1> QED
  BY <1>1, <1>2, <1>4 DEF To4, TextOf

\* newDatagramFromBytes and toAddress read from the bytes of a user's program
\* the address it meant, and the data, if there is any.
THEOREM AddressIsRead ==
  ASSUME NEW text \in IPTexts, NEW data \in Seq(Byte), data # <<>>
  PROVE  /\ WellFormed(Encode(text, data))
         /\ toAddress(newDatagramFromBytes(Encode(text, data))) = text
         /\ newDatagramFromBytes(Encode(text, data)).data = data
<1> DEFINE b == Encode(text, data)
           p == Prefix(text)
           q == PutUint16(text.port)
           h == text.host
           d == newDatagramFromBytes(b)
<1>1. /\ text.type = "ip" /\ text.port \in Ports /\ text = TextOf("ip", h, text.port)
      /\ h \in Seq(Nat) /\ data \in Seq(Nat) /\ Len(h) \in {4, 16} /\ To4(h) = h
  BY IPTextParts, BytesAreNumbers
<1>2. b = ((p \o h) \o q) \o data
  BY DEF Encode
<1>3. /\ p \in Seq(Nat) /\ Len(p) = 4
      /\ \/ p[4] = ipv4Address /\ Len(h) = 4
         \/ p[4] = ipv6Address /\ Len(h) = 16
  <2>1. CASE Len(h) = 4
    <3>1. p = <<0, 0, 0, 1>>
      BY <1>1, <2>1 DEF Prefix, ipv4Address
    <3>2. <<0, 0, 0, 1>> \in Seq(Nat) /\ Len(<<0, 0, 0, 1>>) = 4 /\ <<0, 0, 0, 1>>[4] = 1
      OBVIOUS
    <3> QED
      BY <2>1, <3>1, <3>2 DEF ipv4Address
  <2>2. CASE Len(h) = 16
    <3>1. p = <<0, 0, 0, 4>>
      BY <1>1, <2>2 DEF Prefix, ipv6Address
    <3> QED
      BY <2>2, <3>1 DEF ipv6Address
  <2> QED
    BY <1>1, <2>1, <2>2
<1>4. q \in Seq(Nat) /\ Len(q) = 2 /\ Uint16(q) = text.port
  BY <1>1, PortBytes
<1>5. Len(data) \in Nat \ {0}
  BY <1>1, EmptySeq
<1> HIDE DEF b, p, q, h
<1>6. /\ b \in Seq(Nat) /\ Len(b) = 4 + Len(h) + 2 + Len(data) /\ b[4] = p[4]
      /\ SubSeq(b, 4 + 1, 4 + Len(h)) = h
      /\ SubSeq(b, 4 + Len(h) + 1, 4 + Len(h) + 2) = q
      /\ SubSeq(b, 4 + Len(h) + 2 + 1, Len(b)) = data
  <2>1. 4 \in 1..Len(p)
    BY <1>3
  <2>2. Parts(b, p, h, q, data)
    <3>1. p \in Seq(Nat) /\ h \in Seq(Nat) /\ q \in Seq(Nat) /\ data \in Seq(Nat)
      BY <1>1, <1>3, <1>4
    <3> QED
      BY ONLY <3>1, <1>2, Slices, Zenon
  <2> QED
    BY <1>3, <1>4, <2>1, <2>2 DEF Parts
<1>a. \/ b[4] = ipv4Address /\ Len(h) = 4
      \/ b[4] = ipv6Address /\ Len(h) = 16
  <2>1. b[4] = p[4]
    BY ONLY <1>6, Zenon
  <2> QED
    BY ONLY <2>1, <1>3, Zenon
<1>7. AddrLen(b) = Len(h)
  BY ONLY <1>a, SMTT(30) DEF AddrLen, ipv4Address, ipv6Address, fqdnAddress
<1>8. b[4] \in {ipv4Address, ipv6Address} /\ b[4] # fqdnAddress
  BY ONLY <1>a, SMTT(30) DEF ipv4Address, ipv6Address, fqdnAddress
<1>9. WellFormed(b)
  <2>1. Len(b) >= 4 /\ Len(b) > 4 + AddrLen(b) + 2
    BY <1>1, <1>5, <1>6, <1>7
  <2> QED
    BY <1>8, <2>1 DEF WellFormed
<1>10. d.dstAddr = h /\ d.dstPort = q /\ d.data = data /\ d.atyp = b[4]
  <2>1. 4 + Len(h) + 3 = 4 + Len(h) + 2 + 1 /\ 5 = 4 + 1
    BY <1>1
  <2> QED
    BY <1>6, <1>7, <2>1 DEF newDatagramFromBytes
<1>11. toAddress(d) = text
  BY <1>1, <1>4, <1>8, <1>10 DEF toAddress
<1> QED
  BY <1>9, <1>10, <1>11 DEF b

\* The same of a name, which the header gives a length.
THEOREM NameIsRead ==
  ASSUME NEW text \in NameTexts, NEW data \in Seq(Byte), data # <<>>
  PROVE  /\ WellFormed(Encode(text, data))
         /\ toAddress(newDatagramFromBytes(Encode(text, data))) = text
         /\ newDatagramFromBytes(Encode(text, data)).data = data
<1> DEFINE n == Len(text.host)
           b == Encode(text, data)
           p == <<0, 0, 0, 3, n>>
           q == PutUint16(text.port)
           h == text.host
           c == SubSeq(b, 5, 5 + n)
           d == newDatagramFromBytes(b)
<1>1. /\ text.type = "name" /\ h \in Seq(Byte) /\ n \in 1..255 /\ text.port \in Ports
      /\ text = TextOf("name", h, text.port)
  BY DEF NameTexts, NameHosts, TextOf
<1>2. h \in Seq(Nat) /\ data \in Seq(Nat)
  BY <1>1, BytesAreNumbers
<1>3. Len(data) \in Nat \ {0}
  BY <1>2, EmptySeq
<1>4. q \in Seq(Nat) /\ Len(q) = 2 /\ Uint16(q) = text.port
  BY <1>1, PortBytes
<1>5. b = ((p \o h) \o q) \o data
  BY <1>1, SMTT(30) DEF Encode, Prefix, fqdnAddress
<1>6. Len(h) = n
  OBVIOUS
<1> HIDE DEF n
<1>7. p \in Seq(Nat) /\ Len(p) = 5 /\ p[4] = 3 /\ p[5] = n
  BY <1>1
<1> HIDE DEF b, p, q, h
<1>8. /\ b \in Seq(Nat) /\ Len(b) = 5 + n + 2 + Len(data) /\ b[4] = 3 /\ b[5] = n
      /\ SubSeq(b, 5 + 1, 5 + n) = h
      /\ SubSeq(b, 5 + n + 1, 5 + n + 2) = q
      /\ SubSeq(b, 5 + n + 2 + 1, Len(b)) = data
  <2>1. 4 \in 1..Len(p) /\ 5 \in 1..Len(p)
    BY <1>7
  <2>2. Parts(b, p, h, q, data)
    <3>1. p \in Seq(Nat) /\ h \in Seq(Nat) /\ q \in Seq(Nat) /\ data \in Seq(Nat)
      BY <1>2, <1>7, <1>4
    <3> QED
      BY ONLY <3>1, <1>5, Slices, Zenon
  <2> QED
    BY <1>4, <1>6, <1>7, <2>1, <2>2 DEF Parts
<1>9. AddrLen(b) = 1 + n
  BY <1>8 DEF AddrLen, ipv4Address, ipv6Address, fqdnAddress
<1>10. WellFormed(b)
  <2>1. Len(b) >= 4 /\ Len(b) >= 5 /\ Len(b) > 4 + AddrLen(b) + 2
    <3>1. Len(b) = 5 + n + 2 + Len(data) /\ AddrLen(b) = 1 + n
      BY <1>8, <1>9
    <3> QED
      BY <3>1, <1>1, <1>3
  <2>2. b[5] # 0
    BY <1>1, <1>8
  <2> QED
    BY <1>8, <2>1, <2>2 DEF WellFormed, fqdnAddress
<1>11. d.dstAddr = c /\ d.dstPort = q /\ d.data = data /\ d.atyp = fqdnAddress
  <2>1. /\ 4 + (1 + n) = 5 + n /\ 4 + (1 + n) + 1 = 5 + n + 1
        /\ 4 + (1 + n) + 2 = 5 + n + 2 /\ 4 + (1 + n) + 3 = 5 + n + 2 + 1
    BY <1>1
  <2>2. d = [rsv |-> SubSeq(b, 1, 2), frag |-> b[3], atyp |-> b[4],
             dstAddr |-> SubSeq(b, 5, 4 + AddrLen(b)),
             dstPort |-> SubSeq(b, 4 + AddrLen(b) + 1, 4 + AddrLen(b) + 2),
             data |-> SubSeq(b, 4 + AddrLen(b) + 3, Len(b))]
    BY DEF newDatagramFromBytes
  <2>3. d = [rsv |-> SubSeq(b, 1, 2), frag |-> b[3], atyp |-> b[4],
             dstAddr |-> SubSeq(b, 5, 5 + n), dstPort |-> SubSeq(b, 5 + n + 1, 5 + n + 2),
             data |-> SubSeq(b, 5 + n + 2 + 1, Len(b))]
    BY <1>9, <2>1, <2>2
  <2> HIDE DEF d
  <2> QED
    BY <1>8, <2>3 DEF fqdnAddress
<1>12. SubSeq(c, 2, Len(c)) = h
  <2>1. /\ Len(b) \in Nat /\ 5 + n <= Len(b) /\ n \in Nat
        /\ \A i \in 1..Len(b) : b[i] \in Nat
    <3>1. n \in 1..255
      BY ONLY <1>1, Zenon
    <3>2. b \in Seq(Nat) /\ Len(b) = 5 + n + 2 + Len(data)
      BY ONLY <1>8, Zenon
    <3> QED
      BY ONLY <3>1, <3>2, <1>3, LenProperties, SMTT(30)
  <2>2. \A i \in 5..5 + n : b[i] \in Nat
    BY <2>1
  <2>3. c \in Seq(Nat)
    BY <2>1, <2>2, SubSeqProperties
  <2>4. Len(c) = IF 5 <= 5 + n THEN 5 + n - 5 + 1 ELSE 0
    BY <2>1, <2>2, SubSeqProperties
  <2>5. \A i \in 1..5 + n - 5 + 1 : c[i] = b[5 + i - 1]
    BY <2>1, <2>2, SubSeqProperties
  <2>6. \A i \in 6..5 + n : b[i] \in Nat
    BY <2>1
  <2>7. \A i \in 1..5 + n - 6 + 1 : SubSeq(b, 6, 5 + n)[i] = b[6 + i - 1]
    BY <2>1, <2>6, SubSeqProperties
  <2> HIDE DEF c
  <2>8. Len(c) = 1 + n
    BY <2>1, <2>4
  <2>9. \A i \in 1..Len(h) : c[1 + i] = h[i]
    <3> SUFFICES ASSUME NEW i \in 1..n PROVE c[1 + i] = h[i]
      BY <1>6
    <3>1. 1 + i \in 1..5 + n - 5 + 1 /\ 5 + (1 + i) - 1 = 5 + i
      BY <2>1
    <3>2. i \in 1..5 + n - 6 + 1 /\ 6 + i - 1 = 5 + i
      BY <2>1
    <3>3. c[1 + i] = b[5 + i]
      BY <3>1, <2>5
    <3>4. SubSeq(b, 6, 5 + n)[i] = b[5 + i]
      BY <3>2, <2>7
    <3>5. SubSeq(b, 6, 5 + n) = h
      BY <1>8
    <3> QED
      BY <3>3, <3>4, <3>5
  <2>10. SubSeq(c, 1 + 1, 1 + Len(h)) = h
    <3>1. 1 \in Nat /\ 1 + Len(h) <= Len(c)
      BY <2>1, <2>8, <1>6
    <3> QED
      BY <3>1, <2>3, <2>9, <1>2, Slice
  <2> QED
    BY <2>8, <2>10, <1>6
<1>13. toAddress(d) = text
  BY <1>1, <1>4, <1>11, <1>12 DEF toAddress
<1> QED
  BY <1>10, <1>11, <1>13 DEF b

\* The four bytes before an address.
LEMMA Header ==
  ASSUME NEW a \in Nat
  PROVE  <<0, 0>> \o <<0, a>> = <<0, 0, 0, a>>
<1> DEFINE x == <<0, 0>>
           y == <<0, a>>
           z == <<0, 0, 0, a>>
<1>1. x \in Seq(Nat) /\ y \in Seq(Nat) /\ z \in Seq(Nat)
  OBVIOUS
<1>2. Len(x) = 2 /\ Len(y) = 2 /\ Len(z) = 4
  OBVIOUS
<1>3. z[1] = x[1] /\ z[2] = x[2] /\ z[3] = y[1] /\ z[4] = y[2]
  OBVIOUS
<1> HIDE DEF x, y, z
<1>4. /\ x \o y \in Seq(Nat) /\ Len(x \o y) = Len(x) + Len(y)
      /\ \A i \in 1..Len(x) + Len(y) :
           (x \o y)[i] = IF i <= Len(x) THEN x[i] ELSE y[i - Len(x)]
  BY <1>1, ConcatProperties
<1>5. \A i \in 1..4 : (x \o y)[i] = IF i <= 2 THEN x[i] ELSE y[i - 2]
  BY <1>2, <1>4
<1> DEFINE w == x \o y
<1> HIDE DEF w
<1>6. w[1] = x[1] /\ w[2] = x[2] /\ w[3] = y[3 - 2] /\ w[4] = y[4 - 2]
  <2>1. \A i \in 1..4 : w[i] = IF i <= 2 THEN x[i] ELSE y[i - 2]
    BY <1>5 DEF w
  <2>2. 1 \in 1..4 /\ 2 \in 1..4 /\ 3 \in 1..4 /\ 4 \in 1..4
    OBVIOUS
  <2> QED
    BY <2>1, <2>2
<1>7. \A i \in 1..4 : (x \o y)[i] = z[i]
  <2>1. \A i \in 1..4 : i = 1 \/ i = 2 \/ i = 3 \/ i = 4
    OBVIOUS
  <2>2. y[3 - 2] = y[1] /\ y[4 - 2] = y[2]
    OBVIOUS
  <2> QED
    BY <1>3, <1>6, <2>1, <2>2 DEF w
<1>8. Len(x \o y) = 4
  BY <1>2, <1>4
<1>9. x \o y = z
  BY <1>1, <1>2, <1>4, <1>7, <1>8, SeqEqual
<1> QED
  BY <1>9 DEF x, y, z

\* NewDatagram and Bytes write to the user's program what it expects to read,
\* when the answer comes from an address.
THEOREM AnswerIsRead ==
  ASSUME NEW text \in IPTexts, NEW data
  PROVE  Bytes(NewDatagram(text, data)) = Encode(text, data)
<1> DEFINE a == parseAddress(text)
           d == NewDatagram(text, data)
<1>1. /\ text.type = "ip" /\ Len(text.host) \in {4, 16}
  BY IPTextParts
<1>2. /\ a.atyp \in {1, 4} /\ a.addr = text.host /\ a.port = PutUint16(text.port)
      /\ Prefix(text) = <<0, 0, 0, a.atyp>>
  BY <1>1 DEF parseAddress, Prefix, ipv4Address, ipv6Address
<1> HIDE DEF a
<1>3. /\ d.rsv = <<0, 0>> /\ d.frag = 0 /\ d.atyp = a.atyp /\ d.dstAddr = text.host
      /\ d.dstPort = PutUint16(text.port) /\ d.data = data
  BY <1>2 DEF NewDatagram, fqdnAddress, a
<1>4. <<0, 0>> \o <<0, a.atyp>> = Prefix(text)
  BY <1>2, Header
<1> QED
  BY <1>3, <1>4 DEF Bytes, Encode

\* When it comes from a name it does not: there are two lengths of the name.
THEOREM NameIsLengthenedTwice ==
  ASSUME NEW text \in NameTexts, NEW data \in Seq(Byte)
  PROVE  Len(Bytes(NewDatagram(text, data))) = Len(Encode(text, data)) + 1
<1> DEFINE n == Len(text.host)
           d == NewDatagram(text, data)
           q == PutUint16(text.port)
<1>1. /\ text.type = "name" /\ text.host \in Seq(Byte) /\ n \in 1..255 /\ text.port \in Ports
  BY DEF NameTexts, NameHosts
<1>2. text.host \in Seq(Nat) /\ data \in Seq(Nat)
  BY <1>1, BytesAreNumbers
<1>3. q \in Seq(Nat) /\ Len(q) = 2
  BY <1>1, PortBytes
<1> HIDE DEF n, q
<1>a. n \in 1..255
  BY ONLY <1>1, Zenon
<1>4. n % 256 = n
  BY ONLY <1>a, SMT
<1> DEFINE a == <<n>> \o text.host
<1>5. a \in Seq(Nat) /\ Len(a) = n + 1
  <2>1. <<n>> \in Seq(Nat) /\ Len(<<n>>) = 1
    BY ONLY <1>a, SMTT(30)
  <2>2. text.host \in Seq(Nat) /\ Len(text.host) = n
    BY ONLY <1>2, Zenon DEF n
  <2> DEFINE h == text.host
             l == <<n>>
  <2> HIDE DEF h, l
  <2>3. l \o h \in Seq(Nat) /\ Len(l \o h) = Len(l) + Len(h)
    <3>1. l \in Seq(Nat) /\ h \in Seq(Nat)
      BY ONLY <2>1, <2>2, Zenon DEF l, h
    <3> QED
      BY ONLY <3>1, ConcatProperties, Zenon
  <2>4. Len(l) = 1 /\ Len(h) = n
    BY ONLY <2>1, <2>2, Zenon DEF l, h
  <2>5. Len(l) + Len(h) = n + 1
    BY ONLY <1>a, <2>4, SMTT(30)
  <2> QED
    BY ONLY <2>3, <2>5, Zenon DEF l, h
<1> DEFINE e == <<(n + 1) % 256>> \o a
<1> HIDE DEF a
<1>6. e \in Seq(Nat) /\ Len(e) = n + 2
  <2> DEFINE l == <<(n + 1) % 256>>
  <2>1. l \in Seq(Nat) /\ Len(l) = 1
    BY ONLY <1>a, SMTT(30)
  <2> HIDE DEF l
  <2>2. l \o a \in Seq(Nat) /\ Len(l \o a) = Len(l) + Len(a)
    BY ONLY <1>5, <2>1, ConcatProperties, Zenon
  <2>3. Len(l) + Len(a) = n + 2
    BY ONLY <1>a, <1>5, <2>1, SMTT(30)
  <2> QED
    BY ONLY <2>2, <2>3, Zenon DEF l
<1>7. d = [rsv |-> <<0, 0>>, frag |-> 0, atyp |-> 3, dstAddr |-> e, dstPort |-> q,
           data |-> data]
  <2>1. PICK p : p = parseAddress(text)
    OBVIOUS
  <2>2. p = [atyp |-> 3, addr |-> a, port |-> q]
    <3>1. text.type = "name" /\ Len(text.host) % 256 = n /\ PutUint16(text.port) = q
      BY <1>1, <1>4 DEF n, q
    <3>2. a = <<n>> \o text.host
      BY DEF a
    <3> QED
      BY <2>1, <3>1, <3>2 DEF parseAddress, fqdnAddress
  <2>3. p.atyp = 3 /\ p.addr = a /\ p.port = q /\ Len(p.addr) = n + 1
    BY <1>5, <2>2
  <2> QED
    BY <2>1, <2>3 DEF NewDatagram, fqdnAddress
<1> HIDE DEF e
<1>8. Bytes(d) = (((<<0, 0>> \o <<0, 3>>) \o e) \o q) \o data
  BY <1>7 DEF Bytes
<1>9. Encode(text, data) = ((<<0, 0, 0, 3, n>> \o text.host) \o q) \o data
  BY <1>1 DEF Encode, Prefix, fqdnAddress, n, q
<1>10. Len(((<<0, 0, 0, 3>> \o e) \o q) \o data) = 4 + (n + 2) + 2 + Len(data)
  <2> DEFINE p == <<0, 0, 0, 3>>
             b == ((p \o e) \o q) \o data
  <2>1. p \in Seq(Nat) /\ Len(p) = 4
    OBVIOUS
  <2> HIDE DEF p
  <2>2. e \in Seq(Nat) /\ q \in Seq(Nat) /\ data \in Seq(Nat) /\ b = ((p \o e) \o q) \o data
    BY <1>2, <1>3, <1>6
  <2> HIDE DEF b
  <2>3. Len(b) = Len(p) + Len(e) + Len(q) + Len(data)
    <3>1. p \in Seq(Nat) /\ e \in Seq(Nat) /\ q \in Seq(Nat) /\ data \in Seq(Nat)
      BY <2>1, <2>2
    <3>2. b = ((p \o e) \o q) \o data
      BY <2>2
    <3> QED
      BY ONLY <3>1, <3>2, Slices
  <2> QED
    BY <2>1, <2>3, <1>3, <1>6 DEF b, p
<1>11. Len(((<<0, 0, 0, 3, n>> \o text.host) \o q) \o data) = 5 + n + 2 + Len(data)
  <2> DEFINE p == <<0, 0, 0, 3, n>>
             h == text.host
             b == ((p \o h) \o q) \o data
  <2>1. p \in Seq(Nat) /\ Len(p) = 5
    BY <1>1
  <2> HIDE DEF p
  <2>2. h \in Seq(Nat) /\ q \in Seq(Nat) /\ data \in Seq(Nat) /\ b = ((p \o h) \o q) \o data
    BY <1>2, <1>3
  <2>4. Len(h) = n
    BY DEF n
  <2> HIDE DEF b, h
  <2>3. Len(b) = Len(p) + Len(h) + Len(q) + Len(data)
    <3>1. p \in Seq(Nat) /\ h \in Seq(Nat) /\ q \in Seq(Nat) /\ data \in Seq(Nat)
      BY <2>1, <2>2
    <3>2. b = ((p \o h) \o q) \o data
      BY <2>2
    <3> QED
      BY ONLY <3>1, <3>2, Slices
  <2> QED
    BY <2>1, <2>3, <2>4, <1>3 DEF b, p, h
<1>12. <<0, 0>> \o <<0, 3>> = <<0, 0, 0, 3>>
  BY Header
<1>13. Len(data) \in Nat
  BY <1>2, LenProperties
<1>14. Len(Bytes(d)) = 4 + (n + 2) + 2 + Len(data)
  BY ONLY <1>8, <1>10, <1>12, Zenon
<1>15. Len(Encode(text, data)) = 5 + n + 2 + Len(data)
  BY ONLY <1>9, <1>11, Zenon
<1> QED
  BY ONLY <1>a, <1>13, <1>14, <1>15, SMTT(30) DEF d

\* A part of a sequence of bytes.
LEMMA PartOfBytes ==
  ASSUME NEW b \in Seq(Byte), NEW i \in 1..Len(b) + 1, NEW j \in i - 1..Len(b)
  PROVE  /\ SubSeq(b, i, j) \in Seq(Byte) /\ Len(SubSeq(b, i, j)) = j - i + 1
         /\ \A k \in 1..j - i + 1 : SubSeq(b, i, j)[k] = b[i + k - 1]
<1>1. Len(b) \in Nat /\ \A k \in 1..Len(b) : b[k] \in Byte
  BY LenProperties
<1>2. i \in Int /\ j \in Int /\ \A k \in i..j : b[k] \in Byte
  BY <1>1
<1>3. /\ SubSeq(b, i, j) \in Seq(Byte)
      /\ Len(SubSeq(b, i, j)) = IF i <= j THEN j - i + 1 ELSE 0
      /\ \A k \in 1..j - i + 1 : SubSeq(b, i, j)[k] = b[i + k - 1]
  BY <1>2, SubSeqProperties
<1>4. Len(SubSeq(b, i, j)) = j - i + 1
  BY <1>1, <1>3
<1> QED
  BY <1>3, <1>4

\* Two bytes are those of the port they say.
LEMMA PortIsRead ==
  ASSUME NEW q \in Seq(Byte), Len(q) = 2
  PROVE  Uint16(q) \in Ports /\ PutUint16(Uint16(q)) = q
<1> DEFINE h == q[1]
           l == q[2]
           n == 256 * h + l
<1>1. h \in 0..255 /\ l \in 0..255 /\ q = <<h, l>>
  <2>1. \A i \in 1..2 : q[i] \in Byte
    BY LenProperties
  <2>2. h \in Byte /\ l \in Byte
    BY <2>1
  <2>3. <<h, l>> \in Seq(Byte) /\ Len(<<h, l>>) = 2 /\ <<h, l>>[1] = h /\ <<h, l>>[2] = l
    BY <2>2
  <2>4. \A i \in 1..2 : q[i] = <<h, l>>[i]
    BY <2>3
  <2>5. q = <<h, l>>
    BY <2>3, <2>4, SeqEqual
  <2> QED
    BY <2>2, <2>5 DEF Byte
<1> HIDE DEF h, l
<1>2. n \in Int /\ n \div 256 = h /\ n % 256 = l
  BY <1>1, SMTT(30)
<1>3. h % 256 = h
  BY <1>1, SMTT(30)
<1>4. Uint16(q) = n
  BY DEF Uint16, h, l
<1>5. n \in Ports
  <2> DEFINE m == 256 * 256 - 1
  <2>1. m \in Int /\ 0 <= n /\ n <= m
    BY <1>1, SMTT(30)
  <2>2. n \in Int
    BY <1>2
  <2> HIDE DEF n, m
  <2>3. n \in 0..m
    BY <2>1, <2>2
  <2> QED
    BY ONLY <2>3, Zenon DEF Ports, m
<1> HIDE DEF n
<1>6. PutUint16(n) = <<h, l>>
  BY <1>2, <1>3 DEF PutUint16
<1> QED
  BY <1>1, <1>4, <1>5, <1>6

\* The parts of a datagram that can be read.
LEMMA PartsOfDatagram ==
  ASSUME NEW b \in Seq(Byte), WellFormed(b)
  PROVE  LET m == 4 + AddrLen(b)
         IN  /\ Len(b) \in Nat /\ m \in Nat /\ Len(b) > m + 2
             /\ \/ b[4] = ipv4Address /\ m = 8
                \/ b[4] = ipv6Address /\ m = 20
                \/ b[4] = fqdnAddress /\ b[5] \in 1..255 /\ m = 5 + b[5]
<1>1. Len(b) \in Nat /\ \A i \in 1..Len(b) : b[i] \in Byte
  BY LenProperties
<1>2. CASE b[4] = ipv4Address
  <2>1. AddrLen(b) = 4
    BY <1>2 DEF AddrLen, ipv4Address, ipv6Address, fqdnAddress
  <2> QED
    BY <1>1, <1>2, <2>1 DEF WellFormed
<1>3. CASE b[4] = ipv6Address
  <2>1. AddrLen(b) = 16
    BY <1>3 DEF AddrLen, ipv4Address, ipv6Address, fqdnAddress
  <2> QED
    BY <1>1, <1>3, <2>1 DEF WellFormed
<1>4. CASE b[4] = fqdnAddress
  <2>1. Len(b) >= 5 /\ b[5] # 0
    BY <1>4 DEF WellFormed
  <2>2. b[5] \in Byte
    BY <1>1, <2>1
  <2>3. b[5] \in 1..255
    BY <2>1, <2>2 DEF Byte
  <2>4. AddrLen(b) = 1 + b[5]
    BY <1>4 DEF AddrLen, ipv4Address, ipv6Address, fqdnAddress
  <2>5. Len(b) > 4 + AddrLen(b) + 2
    BY DEF WellFormed
  <2> PICK n : n = b[5]
    OBVIOUS
  <2> PICK l : l = AddrLen(b)
    OBVIOUS
  <2>a. n \in 1..255
    BY <2>3
  <2>b. l = 1 + n
    BY <2>4
  <2>c. Len(b) > 4 + l + 2
    BY <2>5
  <2>6. 4 + l \in Nat /\ Len(b) > 4 + l + 2 /\ 4 + l = 5 + n
    BY ONLY <2>a, <2>b, <2>c
  <2> QED
    BY <1>1, <1>4, <2>3, <2>6
<1> QED
  BY <1>2, <1>3, <1>4 DEF WellFormed

\* A mapped IPv6 address in a datagram, after its type.
LEMMA MappedIsRead ==
  ASSUME NEW b \in Seq(Byte), Len(b) >= 20, b[4] = ipv6Address, Mapped(SubSeq(b, 5, 20))
  PROVE  /\ To4(SubSeq(b, 5, 20)) = SubSeq(b, 17, 20)
         /\ SubSeq(b, 4, 20) = <<ipv6Address, 0, 0, 0, 0, 0, 0, 0, 0, 0, 0, 255, 255>>
                                 \o SubSeq(b, 17, 20)
<1> DEFINE h == SubSeq(b, 5, 20)
           s == SubSeq(b, 4, 16)
           z == <<4, 0, 0, 0, 0, 0, 0, 0, 0, 0, 0, 255, 255>>
<1>0. Len(b) \in Nat
  BY LenProperties
<1>1. h \in Seq(Byte) /\ Len(h) = 16 /\ \A k \in 1..16 : h[k] = b[4 + k]
  <2>1. 5 \in 1..Len(b) + 1 /\ 20 \in 5 - 1..Len(b) /\ 20 - 5 + 1 = 16
    BY <1>0
  <2>2. \A k \in 1..16 : 5 + k - 1 = 4 + k
    OBVIOUS
  <2> QED
    BY <2>1, <2>2, PartOfBytes
<1>2. s \in Seq(Byte) /\ Len(s) = 13 /\ \A k \in 1..13 : s[k] = b[3 + k]
  <2>1. 4 \in 1..Len(b) + 1 /\ 16 \in 4 - 1..Len(b) /\ 16 - 4 + 1 = 13
    BY <1>0
  <2>2. \A k \in 1..13 : 4 + k - 1 = 3 + k
    OBVIOUS
  <2> QED
    BY <2>1, <2>2, PartOfBytes
<1>3. (\A i \in 1..10 : h[i] = 0) /\ h[11] = 255 /\ h[12] = 255
  BY DEF Mapped
<1>4. SubSeq(h, 13, 16) = SubSeq(b, 17, 20)
  <2>1. 5 \in 1..Len(b) /\ 20 \in 1..Len(b) /\ 13 \in 1..20 - 5 + 1 /\ 16 \in 1..20 - 5 + 1
    BY <1>0
  <2>2. SubSeq(h, 13, 16) = SubSeq(b, 5 + 13 - 1, 5 + 16 - 1)
    BY <2>1, SubSeqOfSubSeq
  <2> QED
    BY <2>2
<1>5. SubSeq(b, 4, 20) = s \o SubSeq(b, 17, 20)
  <2>1. 4 \in 1..Len(b) + 1 /\ 16 \in 4 - 1..Len(b) /\ 20 \in 16..Len(b)
    BY <1>0
  <2>2. SubSeq(b, 4, 16) \o SubSeq(b, 16 + 1, 20) = SubSeq(b, 4, 20)
    BY <2>1, ConcatAdjacentSubSeq
  <2> QED
    BY <2>2
<1>6. s = z
  <2> HIDE DEF h, s
  <2>1. z \in Seq(Nat) /\ Len(z) = 13
    OBVIOUS
  <2>2. s \in Seq(Nat)
    BY <1>2, BytesAreNumbers
  <2>3. s[1] = 4 /\ s[12] = 255 /\ s[13] = 255
    <3>1. s[1] = b[4] /\ s[12] = b[15] /\ s[13] = b[16]
      BY <1>2
    <3>2. h[11] = b[15] /\ h[12] = b[16]
      BY <1>1
    <3> QED
      BY <3>1, <3>2, <1>3 DEF ipv6Address
  <2>4. \A k \in 2..11 : s[k] = 0
    <3> SUFFICES ASSUME NEW k \in 2..11 PROVE s[k] = 0
      OBVIOUS
    <3>1. k - 1 \in 1..10 /\ k - 1 \in 1..16 /\ k \in 1..13 /\ 4 + (k - 1) = 3 + k
      OBVIOUS
    <3>2. s[k] = b[3 + k]
      BY <3>1, <1>2
    <3>3. h[k - 1] = b[3 + k]
      BY <3>1, <1>1
    <3>4. h[k - 1] = 0
      BY <3>1, <1>3
    <3> QED
      BY <3>2, <3>3, <3>4
  <2>5. z[1] = 4 /\ z[12] = 255 /\ z[13] = 255 /\ \A k \in 2..11 : z[k] = 0
    OBVIOUS
  <2>6. \A k \in 1..13 : k = 1 \/ k \in 2..11 \/ k = 12 \/ k = 13
    OBVIOUS
  <2> HIDE DEF z
  <2>7. \A k \in 1..13 : s[k] = z[k]
    BY <2>3, <2>4, <2>5, <2>6
  <2> QED
    BY <1>2, <2>1, <2>2, <2>7, SeqEqual
<1>7. To4(h) = SubSeq(b, 17, 20)
  BY <1>4 DEF To4
<1> QED
  BY <1>5, <1>6, <1>7 DEF ipv6Address

\* A name in a datagram, after its type and its length.
LEMMA NameOfDatagram ==
  ASSUME NEW b \in Seq(Byte), NEW n \in 1..255, b[4] = fqdnAddress, b[5] = n, Len(b) >= 5 + n
  PROVE  LET c == SubSeq(b, 5, 5 + n)
             h == SubSeq(c, 2, Len(c))
         IN  /\ h \in NameHosts /\ Len(h) = n
             /\ SubSeq(b, 4, 5 + n) = <<fqdnAddress, n>> \o h
<1> DEFINE c == SubSeq(b, 5, 5 + n)
           h == SubSeq(b, 6, 5 + n)
           s == SubSeq(b, 4, 5)
<1>0. Len(b) \in Nat /\ n \in Nat
  BY LenProperties
<1>1. Len(c) = 1 + n
  <2>1. 5 \in 1..Len(b) + 1 /\ 5 + n \in 5 - 1..Len(b) /\ 5 + n - 5 + 1 = 1 + n
    BY <1>0
  <2> QED
    BY <2>1, PartOfBytes
<1>2. SubSeq(c, 2, 1 + n) = h
  <2>1. /\ 5 \in 1..Len(b) /\ 5 + n \in 1..Len(b)
        /\ 2 \in 1..5 + n - 5 + 1 /\ 1 + n \in 1..5 + n - 5 + 1
        /\ 5 + 2 - 1 = 6 /\ 5 + (1 + n) - 1 = 5 + n
    BY <1>0
  <2>2. SubSeq(c, 2, 1 + n) = SubSeq(b, 5 + 2 - 1, 5 + (1 + n) - 1)
    BY <2>1, SubSeqOfSubSeq
  <2> QED
    BY <2>1, <2>2
<1>3. h \in Seq(Byte) /\ Len(h) = n
  <2>1. 6 \in 1..Len(b) + 1 /\ 5 + n \in 6 - 1..Len(b) /\ 5 + n - 6 + 1 = n
    BY <1>0
  <2> QED
    BY <2>1, PartOfBytes
<1>4. s \in Seq(Byte) /\ Len(s) = 2 /\ s[1] = fqdnAddress /\ s[2] = n
  <2>1. 4 \in 1..Len(b) + 1 /\ 5 \in 4 - 1..Len(b) /\ 5 - 4 + 1 = 2
    BY <1>0
  <2>2. s \in Seq(Byte) /\ Len(s) = 2 /\ \A k \in 1..2 : s[k] = b[4 + k - 1]
    BY <2>1, PartOfBytes
  <2> QED
    BY <2>2
<1>5. SubSeq(b, 4, 5 + n) = s \o h
  <2>1. /\ 4 \in 1..Len(b) + 1 /\ 5 \in 4 - 1..Len(b) /\ 5 + n \in 5..Len(b)
        /\ 5 + 1 = 6
    BY <1>0
  <2>2. SubSeq(b, 4, 5) \o SubSeq(b, 5 + 1, 5 + n) = SubSeq(b, 4, 5 + n)
    BY <2>1, ConcatAdjacentSubSeq
  <2> QED
    BY <2>1, <2>2
<1>6. s = <<fqdnAddress, n>>
  <2> HIDE DEF s
  <2>1. /\ <<fqdnAddress, n>> \in Seq(Nat) /\ Len(<<fqdnAddress, n>>) = 2
        /\ <<fqdnAddress, n>>[1] = fqdnAddress /\ <<fqdnAddress, n>>[2] = n
    BY <1>0 DEF fqdnAddress
  <2>2. \A k \in 1..2 : s[k] = <<fqdnAddress, n>>[k]
    BY <1>4, <2>1
  <2>3. s \in Seq(Nat)
    BY <1>4, BytesAreNumbers
  <2> QED
    BY <1>4, <2>1, <2>2, <2>3, SeqEqual
<1> HIDE DEF c, h, s
<1>7. SubSeq(c, 2, Len(c)) = h
  BY <1>1, <1>2
<1>8. h \in NameHosts
  BY <1>3 DEF NameHosts
<1> QED
  BY <1>3, <1>5, <1>6, <1>7, <1>8 DEF c

\* What newDatagramFromBytes and toAddress read in bytes that they do not
\* refuse is what the bytes say, in whichever way they spell the address.
THEOREM HeaderIsRead ==
  ASSUME NEW b \in Seq(Byte), WellFormed(b)
  PROVE  LET d == newDatagramFromBytes(b)
         IN  /\ Says(b, toAddress(d), d.data)
             /\ toAddress(d) \in IPTexts \cup NameTexts
             /\ d.data \in Seq(Byte)
<1> DEFINE m == 4 + AddrLen(b)
           h == SubSeq(b, 5, m)
           q == SubSeq(b, m + 1, m + 2)
           data == SubSeq(b, m + 3, Len(b))
           d == newDatagramFromBytes(b)
           text == toAddress(d)
           name == SubSeq(b, 4, m)
<1>1. /\ Len(b) \in Nat /\ m \in Nat /\ Len(b) > m + 2
      /\ \/ b[4] = ipv4Address /\ m = 8
         \/ b[4] = ipv6Address /\ m = 20
         \/ b[4] = fqdnAddress /\ b[5] \in 1..255 /\ m = 5 + b[5]
  BY PartsOfDatagram
<1>2. /\ d.atyp = b[4] /\ d.dstAddr = h /\ d.dstPort = q /\ d.data = data
  BY DEF newDatagramFromBytes
<1>3. text = IF b[4] = fqdnAddress THEN TextOf("name", SubSeq(h, 2, Len(h)), Uint16(q))
                                   ELSE TextOf("ip", To4(h), Uint16(q))
  BY <1>2 DEF toAddress
<1> HIDE DEF m, d, text
<1>4. m >= 6
  <2>1. CASE b[5] \in 1..255 /\ m = 5 + b[5]
    <3> PICK n : n = b[5]
      OBVIOUS
    <3>1. n \in 1..255
      BY <2>1
    <3>2. m = 5 + n
      BY <2>1
    <3> QED
      BY ONLY <3>1, <3>2
  <2> QED
    BY <1>1, <2>1
<1>5. q \in Seq(Byte) /\ Len(q) = 2
  <2> DEFINE i == m + 1
             j == m + 2
  <2> HIDE DEF i, j
  <2>2. i \in 1..Len(b) + 1 /\ j \in i - 1..Len(b) /\ j - i + 1 = 2
    <3>1. m \in Nat /\ Len(b) \in Nat /\ Len(b) > m + 2
      BY <1>1
    <3>2. i = m + 1 /\ j = m + 2
      BY DEF i, j
    <3> QED
      BY ONLY <3>1, <3>2
  <2>3. SubSeq(b, i, j) \in Seq(Byte) /\ Len(SubSeq(b, i, j)) = 2
    BY <2>2, PartOfBytes
  <2> QED
    BY <2>3 DEF i, j
<1>6. data \in Seq(Byte)
  <2>1. m + 3 \in 1..Len(b) + 1 /\ Len(b) \in m + 3 - 1..Len(b)
    BY <1>1
  <2> QED
    BY <2>1, PartOfBytes
<1>7. SubSeq(b, 4, Len(b)) = (name \o q) \o data
  <2>1. /\ 4 \in 1..Len(b) + 1 /\ m \in 4 - 1..Len(b) /\ m + 2 \in m..Len(b)
        /\ m + 2 \in 4 - 1..Len(b) /\ Len(b) \in m + 2..Len(b) /\ m + 2 + 1 = m + 3
    BY <1>1, <1>4
  <2>2. SubSeq(b, 4, m) \o SubSeq(b, m + 1, m + 2) = SubSeq(b, 4, m + 2)
    BY <2>1, ConcatAdjacentSubSeq
  <2>3. SubSeq(b, 4, m + 2) \o SubSeq(b, m + 2 + 1, Len(b)) = SubSeq(b, 4, Len(b))
    BY <2>1, ConcatAdjacentSubSeq
  <2> QED
    BY <2>1, <2>2, <2>3
<1>8. Uint16(q) \in Ports /\ PutUint16(Uint16(q)) = q
  BY <1>5, PortIsRead
<1> HIDE DEF q, data
<1>9. h \in Seq(Byte) /\ Len(h) = m - 4
  <2>1. 5 \in 1..Len(b) + 1 /\ m \in 5 - 1..Len(b) /\ m - 5 + 1 = m - 4
    BY <1>1, <1>4
  <2> QED
    BY <2>1, PartOfBytes
<1>10. name = <<b[4]>> \o h
  <2>1. 4 \in 1..Len(b) /\ m \in 4..Len(b) /\ 4 + 1 = 5
    BY <1>1, <1>4
  <2>2. SubSeq(b, 4, m) = <<b[4]>> \o SubSeq(b, 4 + 1, m)
    BY <2>1, SubSeqRecursiveFirst
  <2> QED
    BY <2>1, <2>2
<1>11. name \in Spellings(text) /\ text \in IPTexts \cup NameTexts /\ text.port = Uint16(q)
  <2>1. CASE b[4] \in {ipv4Address, ipv6Address} /\ ~Mapped(h)
    <3>1. b[4] # fqdnAddress /\ To4(h) = h
      <4>1. To4(h) = h
        BY ONLY <2>1, Zenon DEF To4
      <4>2. b[4] # fqdnAddress
        BY ONLY <2>1, SMT DEF ipv4Address, ipv6Address, fqdnAddress
      <4> QED
        BY <4>1, <4>2
    <3>2. text = [type |-> "ip", host |-> h, port |-> Uint16(q)]
      BY <1>3, <3>1 DEF TextOf
    <3>3. \/ b[4] = ipv4Address /\ Len(h) = 4
          \/ b[4] = ipv6Address /\ Len(h) = 16
      BY <1>1, <1>9, <3>1, <2>1 DEF ipv4Address, ipv6Address
    <3>4. h \in IPHosts
      BY <1>9, <2>1, <3>3 DEF IPHosts
    <3> HIDE DEF h, name
    <3>5. text.type = "ip" /\ text.host = h /\ text.port = Uint16(q)
      BY <3>2
    <3>6. name \in Spellings(text)
      <4>1. CASE b[4] = ipv4Address /\ Len(h) = 4
        <5>1. name = <<ipv4Address>> \o text.host /\ Len(text.host) = 4 /\ text.type # "name"
          BY <1>10, <3>5, <4>1
        <5> QED
          BY ONLY <5>1, Zenon DEF Spellings
      <4>2. CASE b[4] = ipv6Address /\ Len(h) = 16
        <5>1. name = <<ipv6Address>> \o text.host /\ Len(text.host) # 4 /\ text.type # "name"
          BY <1>10, <3>5, <4>2
        <5> QED
          BY ONLY <5>1, Zenon DEF Spellings
      <4> QED
        BY <3>3, <4>1, <4>2
    <3>7. text \in IPTexts
      BY <1>8, <3>2, <3>4 DEF IPTexts
    <3> QED
      BY <3>5, <3>6, <3>7
  <2>2. CASE b[4] = ipv4Address /\ Mapped(h)
    BY <1>1, <1>9, <2>2 DEF Mapped, ipv4Address, ipv6Address, fqdnAddress
  <2>3. CASE b[4] = ipv6Address /\ Mapped(h)
    <3>1. m = 20 /\ b[4] # fqdnAddress /\ Len(b) >= 20
      BY <1>1, <2>3 DEF ipv4Address, ipv6Address, fqdnAddress
    <3> DEFINE g == SubSeq(b, 17, 20)
    <3>2. To4(h) = g /\ name = <<ipv6Address, 0, 0, 0, 0, 0, 0, 0, 0, 0, 0, 255, 255>> \o g
      BY <2>3, <3>1, MappedIsRead
    <3>3. g \in Seq(Byte) /\ Len(g) = 4
      <4>1. 17 \in 1..Len(b) + 1 /\ 20 \in 17 - 1..Len(b) /\ 20 - 17 + 1 = 4
        BY <1>1, <3>1
      <4> QED
        BY <4>1, PartOfBytes
    <3> HIDE DEF g, h, name
    <3>4. text = [type |-> "ip", host |-> g, port |-> Uint16(q)]
      BY <1>3, <3>1, <3>2 DEF TextOf
    <3>5. text.type = "ip" /\ text.host = g /\ text.port = Uint16(q)
      BY <3>4
    <3>6. name \in Spellings(text)
      BY <3>2, <3>3, <3>5 DEF Spellings
    <3>7. g \in IPHosts
      BY <3>3 DEF IPHosts
    <3>8. text \in IPTexts
      BY <1>8, <3>4, <3>7 DEF IPTexts
    <3> QED
      BY <3>5, <3>6, <3>8
  <2>4. CASE b[4] = fqdnAddress
    <3> PICK n : n = b[5]
      OBVIOUS
    <3>1. n \in 1..255 /\ m = 5 + n /\ Len(b) >= 5 + n
      BY <1>1, <2>4 DEF ipv4Address, ipv6Address, fqdnAddress
    <3> DEFINE g == SubSeq(h, 2, Len(h))
    <3>2. g \in NameHosts /\ Len(g) = n /\ name = <<fqdnAddress, n>> \o g
      BY <2>4, <3>1, NameOfDatagram
    <3> HIDE DEF g, h, name
    <3>3. text = [type |-> "name", host |-> g, port |-> Uint16(q)]
      BY <1>3, <2>4 DEF TextOf, g
    <3>4. text.type = "name" /\ text.host = g /\ text.port = Uint16(q)
      BY <3>3
    <3>5. name \in Spellings(text)
      BY <3>2, <3>4 DEF Spellings
    <3>6. text \in NameTexts
      BY <1>8, <3>2, <3>3 DEF NameTexts
    <3> QED
      BY <3>4, <3>5, <3>6
  <2> QED
    BY <1>1, <2>1, <2>2, <2>3, <2>4
<1> HIDE DEF h, name
<1>12. Says(b, text, data)
  BY <1>7, <1>8, <1>11 DEF Says
<1> QED
  BY <1>2, <1>6, <1>11, <1>12 DEF d, text

-----------------------------------------------------------------------------
(* The inductive invariant of the negotiation: what is known of the user   *)
(* at each point of it.                                                    *)

\* The user of a request that is handled.
Authenticated ==
  /\ request # None /\ user # None
  /\ user = IF enableAuth THEN vouched ELSE anonymousUserName

ToldOfSuccess == \E k \in DOMAIN replies : replies[k] = "success"

AuthInv ==
  /\ pc \in {"version", "auth"} => user = None
  /\ pc = "auth" => enableAuth
  /\ pc = "request" => IF enableAuth THEN user = vouched /\ user # None ELSE user = None
  /\ pc \in {"handle"} \cup Served => Authenticated
  /\ ToldOfSuccess => Authenticated /\ pc \in {"closed"} \cup Served

NInv == NegotiationTypeOK /\ AuthInv

-----------------------------------------------------------------------------
(* The inductive invariant of the relay.  What is on its way belongs to a  *)
(* datagram that was accepted, and carries the id of its source and        *)
(* destination; UDPProxys and sockets are those of a pair with their id.   *)

\* The messages in a queue.
Carried(q) == {q[i] : i \in DOMAIN q}

AskedPair(n) == [src |-> asked[n].src, dest |-> AskedDest(n)]
AskedData(n) == newDatagramFromBytes(Received(asked[n].bytes)).data

Known(i, n) == n \in DOMAIN asked /\ IdOf(AskedPair(n)) = i

OfPair(i, dest) == \E e \in Entry : IdOf(e) = i /\ e.dest = dest

Found(i) == proxys[i] # None \/ i \in forgot

AskedInv  == \A n \in DOMAIN asked : WellFormed(Received(asked[n].bytes))
ProxysInv == \A i \in Id : proxys[i] # None => IdOf(proxys[i]) = i
RxInv     == rx # Idle => /\ Known(rx.id, rx.n) /\ rx.data = AskedData(rx.n)
                          /\ IdOf(rx.entry) = rx.id /\ rx.epoch <= epoch
                          /\ rx.pc = "write" => Found(rx.id)
UpInv     == \A m \in Carried(up) : /\ Known(m.id, m.n) /\ m.data = AskedData(m.n)
                                    /\ OfPair(m.id, m.addr) /\ Found(m.id)
SocksInv  == \A i \in Id : socks[i] # None => OfPair(i, socks[i].dest)
DestInv   == \A i \in Id : \A d \in atDest[i] :
               /\ Known(i, d.n) /\ d.data = AskedData(d.n) /\ Found(i)
               /\ socks[i].open /\ OfPair(i, socks[i].dest)
DownInv   == \A m \in Carried(down) : Known(m.id, m.n) /\ Found(m.id)
GotInv    == \A g \in got : \E e \in Entry : Known(IdOf(e), g.n) /\ g = ToSrc(e, g.n)
GoneInv   == ~serving \/ epoch > 0 => \A i \in Id : Found(i)
EpochInv  == link # "up" => epoch < MaxBreaks

RelayIInv == /\ AskedInv /\ ProxysInv /\ RxInv /\ UpInv /\ SocksInv
             /\ DestInv /\ DownInv /\ GotInv /\ GoneInv /\ EpochInv

RInv == RelayTypeOK /\ RelayIInv

-----------------------------------------------------------------------------
(* Queues.                                                                 *)

LEMMA Appended ==
  ASSUME NEW S, NEW q \in Seq(S), NEW m \in S
  PROVE  /\ Append(q, m) \in Seq(S)
         /\ Len(Append(q, m)) = Len(q) + 1
         /\ DOMAIN Append(q, m) = DOMAIN q \cup {Len(q) + 1}
         /\ \A i \in DOMAIN q : Append(q, m)[i] = q[i]
         /\ Append(q, m)[Len(q) + 1] = m
         /\ Carried(Append(q, m)) = Carried(q) \cup {m}
<1>1. /\ Append(q, m) \in Seq(S)
      /\ Len(Append(q, m)) = Len(q) + 1
      /\ \A i \in 1..Len(q) : Append(q, m)[i] = q[i]
      /\ Append(q, m)[Len(q) + 1] = m
  BY AppendProperties
<1>2. DOMAIN q = 1..Len(q) /\ DOMAIN Append(q, m) = 1..(Len(q) + 1) /\ Len(q) \in Nat
  BY <1>1, LenProperties
<1>3. 1..(Len(q) + 1) = 1..Len(q) \cup {Len(q) + 1}
  BY <1>2
<1> QED
  BY <1>1, <1>2, <1>3 DEF Carried

LEMMA TakenOff ==
  ASSUME NEW S, NEW q \in Seq(S), q # <<>>
  PROVE  /\ Head(q) \in S /\ Head(q) \in Carried(q)
         /\ Tail(q) \in Seq(S) /\ Carried(Tail(q)) \subseteq Carried(q)
<1>1. /\ Head(q) = q[1] /\ Head(q) \in S
      /\ Tail(q) \in Seq(S) /\ Len(Tail(q)) = Len(q) - 1
      /\ \A i \in 1..Len(Tail(q)) : Tail(q)[i] = q[i + 1]
  BY HeadTailProperties
<1>2. DOMAIN q = 1..Len(q) /\ DOMAIN Tail(q) = 1..Len(Tail(q)) /\ Len(q) \in Nat \ {0}
  BY <1>1, LenProperties, EmptySeq
<1> QED
  BY <1>1, <1>2 DEF Carried

LEMMA CutOff ==
  ASSUME NEW S, NEW q \in Seq(S), NEW k \in 0..Len(q)
  PROVE  /\ SubSeq(q, 1, k) \in Seq(S) /\ Carried(SubSeq(q, 1, k)) \subseteq Carried(q)
         /\ SubSeq(q, k + 1, Len(q)) \in Seq(S)
<1>1. Len(q) \in Nat /\ DOMAIN q = 1..Len(q) /\ \A i \in 1..Len(q) : q[i] \in S
  BY LenProperties
<1>2. \A i \in 1..k : q[i] \in S
  BY <1>1
<1>3. \A i \in k + 1..Len(q) : q[i] \in S
  BY <1>1
<1>4. SubSeq(q, 1, k) \in Seq(S)
  BY <1>1, <1>2, SubSeqProperties
<1>5. Len(SubSeq(q, 1, k)) = IF 1 <= k THEN k - 1 + 1 ELSE 0
  BY <1>1, <1>2, SubSeqProperties
<1>6. \A i \in 1..k - 1 + 1 : SubSeq(q, 1, k)[i] = q[1 + i - 1]
  BY <1>1, <1>2, SubSeqProperties
<1>7. Len(SubSeq(q, 1, k)) = k /\ DOMAIN SubSeq(q, 1, k) = 1..k
  BY <1>1, <1>4, <1>5, LenProperties
<1>8. \A i \in 1..k : SubSeq(q, 1, k)[i] = q[i]
  BY <1>1, <1>6
<1>9. SubSeq(q, k + 1, Len(q)) \in Seq(S)
  BY <1>1, <1>3, SubSeqProperties
<1> QED
  BY <1>1, <1>4, <1>7, <1>8, <1>9 DEF Carried

LEMMA CarriedType == ASSUME NEW S, NEW q \in Seq(S) PROVE Carried(q) \subseteq S
<1>1. DOMAIN q = 1..Len(q) /\ \A i \in 1..Len(q) : q[i] \in S
  BY LenProperties
<1> QED
  BY <1>1 DEF Carried

-----------------------------------------------------------------------------
(* The negotiation.                                                        *)

\* Only a greeting, a password or a request is read as one.
LEMMA KindOfMessage ==
  ASSUME NEW m \in Message
  PROVE  /\ m.kind = "auth" => m.user \in User
         /\ m.kind = "request" => m \in Requests
BY DEF Message, Greetings, Auths, Requests, DataItems, Garbage

LEMMA NegotiationStart == NegotiationInit => NInv
<1> SUFFICES ASSUME NegotiationInit PROVE NInv
  OBVIOUS
<1>1. NegotiationTypeOK
  BY NegotiationAssumption, EmptySeq DEF NegotiationInit, NegotiationTypeOK, PCs
<1>2. AuthInv
  BY EmptySeq DEF NegotiationInit, AuthInv, ToldOfSuccess, Served
<1> QED
  BY <1>1, <1>2 DEF NInv

LEMMA ClientKeeps ==
  ASSUME NInv, ClientStep
  PROVE  NInv'
<1> USE DEF NInv
<1>1. ASSUME NEW m \in Message, NEW from, NEW next, Sends(m, from, next),
             next \in {"greeting", "auth", "request", "data", "nothing", "left"}
      PROVE  NInv'
  <2>1. wire' \in Seq(Message)
    BY <1>1, Appended DEF NegotiationTypeOK, Sends
  <2>3. NegotiationTypeOK'
    BY <1>1, <2>1 DEF NegotiationTypeOK, Sends
  <2>4. AuthInv'
    BY <1>1 DEF AuthInv, Authenticated, ToldOfSuccess, Sends
  <2> QED
    BY <2>3, <2>4
<1>2. CASE SendGreeting
  BY <1>1, <1>2 DEF SendGreeting, Message
<1>3. CASE SendAuth
  BY <1>1, <1>3 DEF SendAuth, Message
<1>4. CASE SendRequest
  BY <1>1, <1>4 DEF SendRequest, Message
<1>5. CASE SendData
  <2> DEFINE m == [kind |-> "data", item |-> client.sent + 1]
  <2>1. client.sent \in 0..MaxData /\ client.sent < MaxData
    BY <1>5 DEF NegotiationTypeOK, SendData
  <2>2. m \in Message
    BY <2>1, NegotiationAssumption DEF Message, DataItems
  <2>3. wire' \in Seq(Message)
    BY <1>5, <2>2, Appended DEF NegotiationTypeOK, SendData
  <2>4. client' \in [next : {"greeting", "auth", "request", "data", "nothing", "left"},
                     sent : 0..MaxData]
    BY <1>5, <2>1, NegotiationAssumption DEF NegotiationTypeOK, SendData
  <2>5. NegotiationTypeOK'
    BY <1>5, <2>3, <2>4 DEF NegotiationTypeOK, SendData
  <2>6. AuthInv'
    BY <1>5 DEF AuthInv, Authenticated, ToldOfSuccess, SendData
  <2> QED
    BY <2>5, <2>6
<1>6. CASE LeaveClient
  <2>1. NegotiationTypeOK'
    BY <1>6 DEF NegotiationTypeOK, LeaveClient
  <2>2. AuthInv'
    BY <1>6 DEF AuthInv, Authenticated, ToldOfSuccess, LeaveClient
  <2> QED
    BY <2>1, <2>2
<1> QED
  BY <1>2, <1>3, <1>4, <1>5, <1>6 DEF ClientStep

\* What a reply does to the replies and the place of the server.
LEMMA Replied ==
  ASSUME NInv, NEW reply \in Replies, NEW next \in PCs,
         Reply(reply, next) \/ Quietly(next)
  PROVE  /\ replies' \in Seq(Replies)
         /\ pc' \in {next, "closed"}
         /\ ToldOfSuccess' => ToldOfSuccess \/ (reply = "success" /\ pc' = next)
<1>1. replies \in Seq(Replies)
  BY DEF NInv, NegotiationTypeOK
<1>2. CASE replies' = Append(replies, reply) /\ pc' = next /\ Reply(reply, next)
  <2>1. /\ replies' \in Seq(Replies)
        /\ DOMAIN replies' = DOMAIN replies \cup {Len(replies) + 1}
        /\ \A i \in DOMAIN replies : replies'[i] = replies[i]
        /\ replies'[Len(replies) + 1] = reply
    BY <1>1, <1>2, Appended
  <2> QED
    BY <1>2, <2>1 DEF ToldOfSuccess
<1>3. CASE replies' = replies /\ pc' \in {next, "closed"}
  BY <1>1, <1>3 DEF ToldOfSuccess
<1> QED
  BY <1>2, <1>3 DEF Reply, Quietly

LEMMA ServerKeeps ==
  ASSUME NInv, ServerStep
  PROVE  NInv'
<1> USE DEF NInv
<1>1. CASE Fill
  <2>1. PICK n \in 1..Len(wire) : /\ buf' = SubSeq(wire, 1, n)
                                  /\ wire' = SubSeq(wire, n + 1, Len(wire))
    BY <1>1 DEF Fill
  <2>2. wire \in Seq(Message) /\ n \in 0..Len(wire)
    BY LenProperties DEF NegotiationTypeOK
  <2>3. buf' \in Seq(Message) /\ wire' \in Seq(Message)
    BY <2>1, <2>2, CutOff
  <2>4. NegotiationTypeOK'
    BY <1>1, <2>3 DEF NegotiationTypeOK, Fill
  <2>5. AuthInv'
    BY <1>1 DEF AuthInv, Authenticated, ToldOfSuccess, Fill
  <2> QED
    BY <2>4, <2>5
<1>2. CASE ReadFails
  <2>1. NegotiationTypeOK'
    BY <1>2 DEF NegotiationTypeOK, ReadFails, PCs
  <2>2. AuthInv'
    BY <1>2 DEF AuthInv, Authenticated, ToldOfSuccess, ReadFails, Served
  <2> QED
    BY <2>1, <2>2
<1>3. ASSUME buf # <<>>
      PROVE  Head(buf) \in Message /\ Tail(buf) \in Seq(Message)
  BY <1>3, TakenOff DEF NegotiationTypeOK
<1>4. CASE ReadGreeting
  <2> DEFINE m == Head(buf)
  <2>1. /\ Tail(buf) \in Seq(Message) /\ pc = "version"
    BY <1>3, <1>4 DEF ReadGreeting
  <2>2. \/ Quietly("closed") \/ Reply("noAcceptable", "closed")
        \/ Reply("userPass", "auth") /\ enableAuth
        \/ Reply("noAuth", "request") /\ ~enableAuth
    BY <1>4 DEF ReadGreeting, AuthMethod
  <2>3. replies' \in Seq(Replies) /\ pc' \in PCs
    BY <2>2, Replied DEF Replies, PCs
  <2>4. NegotiationTypeOK'
    BY <1>4, <2>1, <2>3 DEF NegotiationTypeOK, ReadGreeting
  <2>5. /\ \/ pc' = "closed"
           \/ pc' = "auth" /\ enableAuth
           \/ pc' = "request" /\ ~enableAuth
        /\ ToldOfSuccess' => ToldOfSuccess
    <3>3. CASE Quietly("closed")
      BY <3>3, Replied DEF Replies, PCs
    <3>4. CASE Reply("noAcceptable", "closed")
      BY <3>4, Replied DEF Replies, PCs
    <3>5. CASE Reply("userPass", "auth") /\ enableAuth
      BY <3>5, Replied DEF Replies, PCs
    <3>6. CASE Reply("noAuth", "request") /\ ~enableAuth
      BY <3>6, Replied DEF Replies, PCs
    <3> QED
      BY <2>2, <3>3, <3>4, <3>5, <3>6
  <2>6. AuthInv'
    BY <1>4, <2>1, <2>5 DEF AuthInv, Authenticated, ReadGreeting, Served
  <2> QED
    BY <2>4, <2>6
<1>5. CASE ReadAuth
  <2> DEFINE m == Head(buf)
  <2>1. /\ Tail(buf) \in Seq(Message) /\ pc = "auth" /\ m \in Message
    BY <1>3, <1>5 DEF ReadAuth
  <2>2. \/ Quietly("closed") /\ UNCHANGED <<user, vouched>>
        \/ Reply("authFailure", "closed") /\ UNCHANGED <<user, vouched>>
        \/ /\ Reply("authSuccess", "request") /\ user' = m.user /\ vouched' = m.user
           /\ m.kind = "auth"
    BY <1>5 DEF ReadAuth
  <2>3. replies' \in Seq(Replies) /\ pc' \in PCs
    BY <2>2, Replied DEF Replies, PCs
  <2>4. user' \in User \cup {anonymousUserName, None} /\ vouched' \in User \cup {None}
    BY <2>1, <2>2, KindOfMessage DEF NegotiationTypeOK
  <2>5. NegotiationTypeOK'
    BY <1>5, <2>1, <2>3, <2>4 DEF NegotiationTypeOK, ReadAuth
  <2>6. /\ \/ pc' = "closed"
           \/ pc' = "request" /\ user' = m.user /\ vouched' = m.user /\ m.user # None
        /\ ToldOfSuccess' => ToldOfSuccess
    <3>3. m.kind = "auth" => m.user # None
      BY <2>1, KindOfMessage, NegotiationAssumption
    <3>4. CASE Quietly("closed")
      BY <3>4, Replied DEF Replies, PCs
    <3>5. CASE Reply("authFailure", "closed")
      BY <3>5, Replied DEF Replies, PCs
    <3>6. CASE Reply("authSuccess", "request") /\ user' = m.user /\ vouched' = m.user /\ m.kind = "auth"
      BY <3>3, <3>6, Replied DEF Replies, PCs
    <3> QED
      BY <2>2, <3>4, <3>5, <3>6
  <2>7. ~ToldOfSuccess /\ enableAuth
    BY <2>1 DEF AuthInv, Served
  <2>8. AuthInv'
    BY <1>5, <2>6, <2>7 DEF AuthInv, Authenticated, ReadAuth, Served
  <2> QED
    BY <2>5, <2>8
<1>6. CASE ReadRequest
  <2> DEFINE m == Head(buf)
  <2>1. /\ Tail(buf) \in Seq(Message) /\ pc = "request" /\ m \in Message
        /\ replies' = replies /\ enableAuth' = enableAuth /\ vouched' = vouched
    BY <1>3, <1>6 DEF ReadRequest, Quietly
  <2>2. \/ pc' = "closed" /\ UNCHANGED <<user, request>>
        \/ /\ pc' = "handle" /\ request' = m /\ m.kind = "request"
           /\ user' = IF user = None THEN anonymousUserName ELSE user
    BY <1>6 DEF ReadRequest, Quietly
  <2>3. NegotiationTypeOK'
    BY <1>6, <2>1, <2>2, KindOfMessage DEF NegotiationTypeOK, ReadRequest, PCs
  <2>4. ~ToldOfSuccess /\ ~ToldOfSuccess'
    BY <2>1 DEF AuthInv, ToldOfSuccess, Served
  <2>5. pc' = "handle" => Authenticated'
    <3> SUFFICES ASSUME pc' = "handle" PROVE Authenticated'
      OBVIOUS
    <3>1. request' = m /\ m.kind = "request" /\ user' = IF user = None THEN anonymousUserName ELSE user
      BY <2>2
    <3>2. request' # None
      BY <3>1, <2>1, KindOfMessage, NegotiationAssumption
    <3>3. IF enableAuth THEN user = vouched /\ user # None ELSE user = None
      BY <2>1 DEF AuthInv
    <3>4. anonymousUserName # None
      BY NegotiationAssumption
    <3> QED
      BY <2>1, <3>1, <3>2, <3>3, <3>4 DEF Authenticated
  <2>6. AuthInv'
    BY <2>2, <2>4, <2>5 DEF AuthInv, Served
  <2> QED
    BY <2>3, <2>6
<1>7. CASE HandleUnsupported
  <2>1. Reply("commandNotSupported", "closed")
    BY <1>7 DEF HandleUnsupported
  <2>2. replies' \in Seq(Replies) /\ pc' = "closed" /\ (ToldOfSuccess' => ToldOfSuccess)
    BY <2>1, Replied DEF Replies, PCs
  <2>3. NegotiationTypeOK'
    BY <1>7, <2>2 DEF NegotiationTypeOK, HandleUnsupported, PCs
  <2>4. AuthInv'
    BY <1>7, <2>2 DEF AuthInv, Authenticated, HandleUnsupported, Served
  <2> QED
    BY <2>3, <2>4
<1>8. CASE HandleConnect
  <2>1. Quietly("closed") \/ Reply("success", "connect")
    BY <1>8 DEF HandleConnect
  <2>2. replies' \in Seq(Replies) /\ pc' \in {"closed", "connect"}
    BY <2>1, Replied DEF Replies, PCs
  <2>3. buf' \in Seq(Message) /\ extra' \in Seq(Message)
    BY <1>8, EmptySeq DEF NegotiationTypeOK, HandleConnect
  <2>4. NegotiationTypeOK'
    BY <1>8, <2>2, <2>3 DEF NegotiationTypeOK, HandleConnect, PCs
  <2>5. Authenticated /\ Authenticated'
    BY <1>8 DEF AuthInv, Authenticated, HandleConnect
  <2>6. AuthInv'
    BY <2>2, <2>5 DEF AuthInv, Served
  <2> QED
    BY <2>4, <2>6
<1>9. CASE HandleSocks5TCP
  <2>1. pc' \in {"session", "closed"} /\ replies' = replies /\ pc = "connect"
    BY <1>9 DEF HandleSocks5TCP, Quietly
  <2>2. NegotiationTypeOK'
    BY <1>9, <2>1 DEF NegotiationTypeOK, HandleSocks5TCP, PCs
  <2>3. Authenticated /\ Authenticated'
    BY <1>9 DEF AuthInv, Authenticated, HandleSocks5TCP, Served
  <2>4. AuthInv'
    BY <2>1, <2>3 DEF AuthInv, Served
  <2> QED
    BY <2>2, <2>4
<1>10. CASE HandleAssociate
  <2>1. Quietly("closed") \/ Reply("success", "associated")
    BY <1>10 DEF HandleAssociate
  <2>2. replies' \in Seq(Replies) /\ pc' \in {"closed", "associated"}
    BY <2>1, Replied DEF Replies, PCs
  <2>3. NegotiationTypeOK'
    BY <1>10, <2>2 DEF NegotiationTypeOK, HandleAssociate, PCs
  <2>4. Authenticated /\ Authenticated'
    BY <1>10 DEF AuthInv, Authenticated, HandleAssociate
  <2>5. AuthInv'
    BY <2>2, <2>4 DEF AuthInv, Served
  <2> QED
    BY <2>3, <2>5
<1>11. CASE AssociateEnds
  <2>1. pc' = "released" /\ replies' = replies /\ pc = "associated"
    BY <1>11 DEF AssociateEnds, Quietly
  <2>2. NegotiationTypeOK'
    BY <1>11, <2>1 DEF NegotiationTypeOK, AssociateEnds, PCs
  <2>3. Authenticated /\ Authenticated'
    BY <1>11 DEF AuthInv, Authenticated, AssociateEnds, Served
  <2>4. AuthInv'
    BY <2>1, <2>3 DEF AuthInv, Served
  <2> QED
    BY <2>2, <2>4
<1> QED
  BY <1>1, <1>2, <1>4, <1>5, <1>6, <1>7, <1>8, <1>9, <1>10, <1>11 DEF ServerStep

LEMMA NegotiationAlways == Spec => []NInv
<1>1. Init => NInv
  BY NegotiationStart DEF Init
<1>2. NInv /\ [Next]_vars => NInv'
  <2> SUFFICES ASSUME NInv, [Next]_vars PROVE NInv'
    OBVIOUS
  <2>1. CASE UNCHANGED negotiation
    <3>1. NegotiationTypeOK'
      BY <2>1 DEF NInv, negotiation, NegotiationTypeOK
    <3>2. AuthInv'
      BY <2>1 DEF NInv, negotiation, AuthInv, Authenticated, ToldOfSuccess
    <3> QED
      BY <3>1, <3>2 DEF NInv
  <2>2. CASE ClientStep
    BY <2>2, ClientKeeps
  <2>3. CASE ServerStep
    BY <2>3, ServerKeeps
  <2> QED
    BY <2>1, <2>2, <2>3 DEF Next, vars
<1> QED
  BY <1>1, <1>2, PTL DEF Spec

\* Only the user the server has vouched for is served (userPassAuth,
\* handleSocks5Request).
THEOREM ServedIsAuthenticated == Spec => []ServedAsAuthenticated
<1>1. NInv => ServedAsAuthenticated
  <2> SUFFICES ASSUME NInv, pc \in Served \/ "success" \in ToSet(replies)
               PROVE  Authenticated
    BY DEF ServedAsAuthenticated, Authenticated
  <2>1. "success" \in ToSet(replies) => ToldOfSuccess
    BY DEF ToSet, ToldOfSuccess
  <2> QED
    BY <2>1 DEF NInv, AuthInv
<1> QED
  BY <1>1, NegotiationAlways, PTL

-----------------------------------------------------------------------------
(* The inductive invariant of the handover: what the client has sent after *)
(* a request that opens a connection is all that follows it, and it goes   *)
(* on with data or leaves.                                                 *)

Item(i)     == [kind |-> "data", item |-> i]
Items(n)    == [i \in 1..n |-> Item(i)]
Connects(m) == m.kind = "request" /\ m.command = "connect"
Connecting(q) == \E i \in DOMAIN q : Connects(q[i])
SendsOn     == client.next \in {"data", "left"}

Followed(q, n) ==
  \A i \in DOMAIN q : Connects(q[i]) =>
    Len(q) = i + n /\ \A j \in 1..n : q[i + j] = Item(j)

HandoverInv ==
  /\ client.next \in {"greeting", "auth", "request"} => client.sent = 0
  /\ Reading => /\ Followed(buf \o wire, client.sent)
                /\ Connecting(buf \o wire) => SendsOn
  /\ pc = "handle" /\ request.command = "connect" => SendsOn /\ buf \o wire = Items(client.sent)
  /\ pc \in {"connect", "session"} => SendsOn /\ extra \o wire = Items(client.sent)

\* Putting a message after the second of two queues puts it after both.
LEMMA AppendedToBoth ==
  ASSUME NEW b \in Seq(Message), NEW w \in Seq(Message), NEW m \in Message
  PROVE  b \o Append(w, m) = Append(b \o w, m)
<1> DEFINE s == b \o Append(w, m)
           t == Append(b \o w, m)
<1>1. /\ Len(b) \in Nat /\ Len(w) \in Nat /\ b \o w \in Seq(Message)
      /\ Append(w, m) \in Seq(Message) /\ Len(Append(w, m)) = Len(w) + 1
      /\ \A i \in 1..Len(w) : Append(w, m)[i] = w[i]
      /\ Append(w, m)[Len(w) + 1] = m
  BY AppendProperties, LenProperties, ConcatProperties
<1>2. /\ Len(b \o w) = Len(b) + Len(w)
      /\ \A i \in 1..Len(b) + Len(w) : (b \o w)[i] = IF i <= Len(b) THEN b[i] ELSE w[i - Len(b)]
  BY ConcatProperties
<1>3. /\ s \in Seq(Message) /\ Len(s) = Len(b) + (Len(w) + 1)
      /\ \A i \in 1..Len(b) + (Len(w) + 1) :
           s[i] = IF i <= Len(b) THEN b[i] ELSE Append(w, m)[i - Len(b)]
  BY <1>1, ConcatProperties
<1>4. /\ t \in Seq(Message) /\ Len(t) = Len(b) + Len(w) + 1
      /\ \A i \in 1..Len(b) + Len(w) : t[i] = (b \o w)[i]
      /\ t[Len(b) + Len(w) + 1] = m
  BY <1>1, <1>2, AppendProperties
<1>5. Len(s) = Len(t)
  BY <1>1, <1>3, <1>4
<1> HIDE DEF s, t
<1>6. ASSUME NEW i \in 1..Len(s) PROVE s[i] = t[i]
  <2>0. i \in Nat /\ i >= 1 /\ i <= Len(b) + Len(w) + 1 /\ i \in 1..Len(b) + (Len(w) + 1)
    BY <1>1, <1>3
  <2>1. CASE i <= Len(b)
    <3>1. i \in 1..Len(b) + Len(w)
      BY <1>1, <2>0, <2>1
    <3>2. s[i] = b[i]
      BY <1>3, <2>0, <2>1
    <3>3. t[i] = b[i]
      BY <1>2, <1>4, <2>1, <3>1
    <3> QED
      BY <3>2, <3>3
  <2>2. CASE i > Len(b) /\ i <= Len(b) + Len(w)
    <3>1. i - Len(b) \in 1..Len(w) /\ i \in 1..Len(b) + Len(w)
      BY <1>1, <2>0, <2>2
    <3>2. s[i] = Append(w, m)[i - Len(b)]
      BY <1>1, <1>3, <2>0, <2>2
    <3>3. t[i] = w[i - Len(b)]
      BY <1>1, <1>2, <1>4, <2>0, <2>2, <3>1
    <3> QED
      BY <1>1, <3>1, <3>2, <3>3
  <2>3. CASE i = Len(b) + Len(w) + 1
    <3>1. i - Len(b) = Len(w) + 1 /\ ~(i <= Len(b))
      BY <1>1, <2>3
    <3> QED
      BY <1>1, <1>3, <1>4, <2>0, <2>3, <3>1
  <2> QED
    BY <1>1, <2>0, <2>1, <2>2, <2>3
<1>7. s = t
  BY <1>3, <1>4, <1>5, <1>6, SeqEqual
<1> QED
  BY <1>7 DEF s, t

\* Taking the first of them takes the first of both.
LEMMA TakenOfBoth ==
  ASSUME NEW b \in Seq(Message), NEW w \in Seq(Message), b # <<>>
  PROVE  /\ b \o w # <<>> /\ Head(b \o w) = Head(b)
         /\ Tail(b) \o w = Tail(b \o w)
<1> DEFINE q == b \o w
           s == Tail(b) \o w
           t == Tail(q)
<1>1. /\ Len(b) \in Nat \ {0} /\ Len(w) \in Nat
      /\ Tail(b) \in Seq(Message) /\ Len(Tail(b)) = Len(b) - 1
      /\ \A i \in 1..Len(b) - 1 : Tail(b)[i] = b[i + 1]
      /\ Head(b) = b[1]
  BY HeadTailProperties, LenProperties, EmptySeq
<1>2. /\ q \in Seq(Message) /\ Len(q) = Len(b) + Len(w)
      /\ \A i \in 1..Len(b) + Len(w) : q[i] = IF i <= Len(b) THEN b[i] ELSE w[i - Len(b)]
  BY ConcatProperties
<1>3. q # <<>> /\ Head(q) = q[1] /\ q[1] = b[1]
  BY <1>1, <1>2, EmptySeq
<1>4. /\ t \in Seq(Message) /\ Len(t) = Len(b) + Len(w) - 1
      /\ \A i \in 1..Len(b) + Len(w) - 1 : t[i] = q[i + 1]
  BY <1>2, <1>3, HeadTailProperties
<1>5. /\ s \in Seq(Message) /\ Len(s) = Len(b) - 1 + Len(w)
      /\ \A i \in 1..Len(b) - 1 + Len(w) :
           s[i] = IF i <= Len(b) - 1 THEN Tail(b)[i] ELSE w[i - (Len(b) - 1)]
  BY <1>1, ConcatProperties
<1> HIDE DEF q, s, t
<1>6. Len(s) = Len(t)
  BY <1>1, <1>4, <1>5
<1>7. ASSUME NEW i \in 1..Len(s) PROVE s[i] = t[i]
  <2>0. /\ i \in Nat /\ i >= 1 /\ i \in 1..Len(b) - 1 + Len(w) /\ i \in 1..Len(b) + Len(w) - 1
        /\ i + 1 \in 1..Len(b) + Len(w)
    BY <1>1, <1>5
  <2>1. CASE i <= Len(b) - 1
    <3>1. i \in 1..Len(b) - 1 /\ i + 1 <= Len(b)
      BY <1>1, <2>0, <2>1
    <3> QED
      BY <1>1, <1>2, <1>4, <1>5, <2>0, <2>1, <3>1
  <2>2. CASE ~(i <= Len(b) - 1)
    <3>1. ~(i + 1 <= Len(b)) /\ i - (Len(b) - 1) = i + 1 - Len(b)
      BY <1>1, <2>0, <2>2
    <3>2. s[i] = w[i - (Len(b) - 1)]
      BY <1>5, <2>0, <2>2
    <3>3. t[i] = q[i + 1]
      BY <1>4, <2>0
    <3>4. q[i + 1] = w[i + 1 - Len(b)]
      BY <1>2, <2>0, <3>1
    <3> QED
      BY <3>1, <3>2, <3>3, <3>4
  <2> QED
    BY <2>1, <2>2
<1>8. s = t
  BY <1>4, <1>5, <1>6, <1>7, SeqEqual
<1> QED
  BY <1>1, <1>3, <1>8 DEF q, s, t

\* What follows a request that opens a connection, when a message comes in.
LEMMA FollowedByMore ==
  ASSUME NEW q \in Seq(Message), NEW n \in Nat, NEW m \in Message
  PROVE  /\ ~Connecting(q) => Followed(Append(q, m), 0)
         /\ Connecting(Append(q, m)) => Connecting(q) \/ Connects(m)
         /\ m = Item(n + 1) /\ Followed(q, n) => Followed(Append(q, m), n + 1)
         /\ m = Item(n + 1) => ~Connects(m)
<1> DEFINE p == Append(q, m)
           l == Len(q)
<1>1. /\ DOMAIN q = 1..l /\ l \in Nat /\ Len(p) = l + 1 /\ DOMAIN p = DOMAIN q \cup {l + 1}
      /\ \A i \in DOMAIN q : p[i] = q[i]
      /\ p[l + 1] = m
  BY Appended, LenProperties
<1> HIDE DEF p, l
<1>2. ASSUME ~Connecting(q) PROVE Followed(p, 0)
  BY <1>1, <1>2 DEF Followed, Connecting
<1>3. Connecting(p) => Connecting(q) \/ Connects(m)
  BY <1>1 DEF Connecting
<1>4. m = Item(n + 1) => ~Connects(m)
  BY DEF Item, Connects
<1>5. ASSUME m = Item(n + 1), Followed(q, n) PROVE Followed(p, n + 1)
  <2>1. ASSUME NEW i \in DOMAIN p, Connects(p[i])
        PROVE  Len(p) = i + (n + 1) /\ \A j \in 1..n + 1 : p[i + j] = Item(j)
    <3>1. i \in DOMAIN q /\ Connects(q[i])
      BY <1>1, <1>4, <1>5, <2>1
    <3>2. l = i + n /\ \A j \in 1..n : q[i + j] = Item(j)
      BY <1>5, <3>1 DEF Followed, l
    <3>3. i \in Nat
      BY <1>1, <3>1
    <3>4. ASSUME NEW j \in 1..n PROVE p[i + j] = Item(j)
      <4>1. i + j \in DOMAIN q
        BY <1>1, <3>1, <3>2, <3>3
      <4> QED
        BY <1>1, <3>2, <4>1
    <3>5. p[i + (n + 1)] = Item(n + 1)
      <4>1. i + (n + 1) = l + 1
        BY <3>2, <3>3
      <4> QED
        BY <1>1, <1>5, <4>1
    <3>6. Len(p) = i + (n + 1)
      BY <1>1, <3>2, <3>3
    <3> QED
      BY <3>4, <3>5, <3>6
  <2> QED
    BY <2>1 DEF Followed
<1> QED
  BY <1>2, <1>3, <1>4, <1>5 DEF p

\* And when one is read: data is left, and only data, after the request.
LEMMA FollowedFrom ==
  ASSUME NEW q \in Seq(Message), q # <<>>, NEW n \in 0..MaxData, Followed(q, n)
  PROVE  /\ Followed(Tail(q), n)
         /\ Connecting(Tail(q)) => Connecting(q)
         /\ Connects(Head(q)) => Connecting(q) /\ Tail(q) = Items(n)
<1> DEFINE p == Tail(q)
           l == Len(q)
<1>0. n \in Nat
  BY NegotiationAssumption
<1>1. /\ DOMAIN q = 1..l /\ l \in Nat \ {0} /\ p \in Seq(Message) /\ Len(p) = l - 1
      /\ \A i \in 1..l - 1 : p[i] = q[i + 1]
      /\ Head(q) = q[1]
  BY HeadTailProperties, LenProperties, EmptySeq
<1>2. DOMAIN p = 1..l - 1
  BY <1>1, LenProperties
<1> HIDE DEF p
<1>3. ASSUME NEW i \in DOMAIN p, Connects(p[i])
      PROVE  Len(p) = i + n /\ \A j \in 1..n : p[i + j] = Item(j)
  <2>1. i + 1 \in DOMAIN q /\ Connects(q[i + 1]) /\ i \in Nat
    BY <1>1, <1>2, <1>3
  <2>2. l = i + 1 + n /\ \A j \in 1..n : q[i + 1 + j] = Item(j)
    BY <2>1 DEF Followed
  <2> HIDE DEF l
  <2>3. Len(p) = i + n
    BY <1>0, <1>1, <2>1, <2>2
  <2>4. ASSUME NEW j \in 1..n PROVE p[i + j] = Item(j)
    <3>1. j \in Nat /\ i >= 1 /\ j >= 1 /\ j <= n
      BY <1>0, <1>2, <1>3
    <3>0. l - 1 = i + n /\ i \in Nat
      BY <1>0, <2>1, <2>2
    <3>2. i + j \in 1..l - 1 /\ i + j + 1 = i + 1 + j
      BY <1>0, <3>0, <3>1
    <3> QED
      BY <1>1, <2>2, <3>2
  <2> QED
    BY <2>3, <2>4
<1>4. Followed(p, n)
  BY <1>3 DEF Followed
<1>5. Connecting(p) => Connecting(q)
  <2>1. \A i \in DOMAIN p : i + 1 \in DOMAIN q /\ p[i] = q[i + 1]
    BY <1>1, <1>2
  <2> QED
    BY <2>1 DEF Connecting
<1>6. ASSUME Connects(Head(q)) PROVE Connecting(q) /\ p = Items(n)
  <2>1. 1 \in DOMAIN q /\ Connects(q[1])
    BY <1>1, <1>6
  <2>2. l = 1 + n /\ \A j \in 1..n : q[1 + j] = Item(j)
    BY <2>1 DEF Followed
  <2>3. \A j \in 1..n : Item(j) \in Message
    BY <1>0, NegotiationAssumption DEF Item, Message, DataItems
  <2>4. Items(n) \in Seq(Message) /\ Len(Items(n)) = n /\ \A j \in 1..n : Items(n)[j] = Item(j)
    BY <1>0, <2>3 DEF Items
  <2>5. Len(p) = n /\ \A j \in 1..n : p[j] = q[1 + j]
    BY <1>0, <1>1, <2>2
  <2>6. \A j \in 1..Len(p) : p[j] = Items(n)[j]
    BY <2>2, <2>4, <2>5
  <2>7. p = Items(n)
    BY <1>1, <2>4, <2>5, <2>6, SeqEqual
  <2> QED
    BY <2>1, <2>7 DEF Connecting
<1> QED
  BY <1>4, <1>5, <1>6 DEF p

\* One item more.
LEMMA ItemsGrow ==
  ASSUME NEW n \in 0..MaxData, n < MaxData
  PROVE  /\ Item(n + 1) \in Message /\ n \in Nat
         /\ Append(Items(n), Item(n + 1)) = Items(n + 1)
<1>0. n \in Nat /\ MaxData \in Nat
  BY NegotiationAssumption
<1>1. \A j \in 1..n + 1 : Item(j) \in Message
  BY <1>0 DEF Item, Message, DataItems
<1>2. /\ Items(n) \in Seq(Message) /\ Len(Items(n)) = n
      /\ \A j \in 1..n : Items(n)[j] = Item(j)
  BY <1>0, <1>1 DEF Items
<1>3. /\ Items(n + 1) \in Seq(Message) /\ Len(Items(n + 1)) = n + 1
      /\ \A j \in 1..n + 1 : Items(n + 1)[j] = Item(j)
  BY <1>0, <1>1 DEF Items
<1>4. /\ Append(Items(n), Item(n + 1)) \in Seq(Message)
      /\ Len(Append(Items(n), Item(n + 1))) = n + 1
      /\ \A j \in 1..n : Append(Items(n), Item(n + 1))[j] = Items(n)[j]
      /\ Append(Items(n), Item(n + 1))[n + 1] = Item(n + 1)
  BY <1>0, <1>1, <1>2, AppendProperties
<1>5. \A j \in 1..n + 1 : Append(Items(n), Item(n + 1))[j] = Items(n + 1)[j]
  BY <1>0, <1>2, <1>3, <1>4
<1>6. Append(Items(n), Item(n + 1)) = Items(n + 1)
  BY <1>3, <1>4, <1>5, SeqEqual
<1> QED
  BY <1>0, <1>1, <1>6

\* The client sends a message and does what comes next.
LEMMA ClientHandsOver ==
  ASSUME NInv, HandoverInv, ClientStep
  PROVE  HandoverInv'
<1>t. /\ wire \in Seq(Message) /\ buf \in Seq(Message) /\ extra \in Seq(Message)
      /\ client \in [next : {"greeting", "auth", "request", "data", "nothing", "left"},
                     sent : 0..MaxData]
      /\ client.sent \in Nat
  BY NegotiationAssumption DEF NInv, NegotiationTypeOK
<1>u. buf \o wire \in Seq(Message)
  BY <1>t, ConcatProperties
\* What is no data comes before the request that opens a connection, or is it.
<1>1. ASSUME NEW m \in Message, NEW next, Sends(m, {"greeting", "auth", "request"}, next),
             Connects(m) => next = "data",
             next \in {"greeting", "auth", "request", "data", "nothing"}
      PROVE  HandoverInv'
  <2>1. /\ client.sent = 0 /\ ~SendsOn
        /\ client'.next = next /\ client'.sent = 0
        /\ wire' = Append(wire, m) /\ buf' = buf /\ pc' = pc /\ request' = request
    BY <1>1, <1>t DEF HandoverInv, Sends, SendsOn
  <2>2. ~(pc = "handle" /\ request.command = "connect") /\ pc \notin {"connect", "session"}
    BY <2>1 DEF HandoverInv
  <2>3. CASE Reading
    <3>1. ~Connecting(buf \o wire)
      BY <2>1, <2>3 DEF HandoverInv
    <3>2. (buf \o wire)' = Append(buf \o wire, m)
      BY <1>t, <2>1, AppendedToBoth
    <3>f. Followed(Append(buf \o wire, m), 0)
      BY <1>1, <1>u, <3>1, FollowedByMore
    <3>3. Followed((buf \o wire)', client'.sent)
      BY <2>1, <3>2, <3>f
    <3>4. Connecting((buf \o wire)') => SendsOn'
      BY <1>1, <1>u, <2>1, <3>1, <3>2, FollowedByMore DEF SendsOn
    <3> QED
      BY <2>1, <2>2, <3>3, <3>4 DEF HandoverInv
  <2>4. CASE ~Reading
    BY <2>1, <2>2, <2>4 DEF HandoverInv, Reading
  <2> QED
    BY <2>3, <2>4
<1>2. CASE SendGreeting
  <2>1. \A m \in Greetings \cup Garbage : m \in Message /\ ~Connects(m)
    BY DEF Greetings, Garbage, Message, Connects
  <2>2. PICK m \in Greetings \cup Garbage : Sends(m, {"greeting"}, "auth")
    BY <1>2 DEF SendGreeting
  <2> QED
    BY <1>1, <2>1, <2>2 DEF Sends
<1>3. CASE SendAuth
  <2>1. \A m \in Auths \cup Garbage : m \in Message /\ ~Connects(m)
    BY DEF Auths, Garbage, Message, Connects
  <2>2. PICK m \in Auths \cup Garbage : Sends(m, {"auth"}, "request")
    BY <1>3 DEF SendAuth
  <2> QED
    BY <1>1, <2>1, <2>2 DEF Sends
<1>4. CASE SendRequest
  <2>1. PICK m \in Requests \cup Garbage :
          Sends(m, {"auth", "request"}, IF m \in Requests /\ m.command = "connect"
                                        THEN "data" ELSE "nothing")
    BY <1>4 DEF SendRequest
  <2>2. m \in Message /\ (Connects(m) => m \in Requests /\ m.command = "connect")
    BY DEF Requests, Garbage, Message, Connects
  <2>3. PICK next : next = IF m \in Requests /\ m.command = "connect" THEN "data" ELSE "nothing"
    OBVIOUS
  <2>4. next \in {"data", "nothing"} /\ (Connects(m) => next = "data")
    BY <2>2, <2>3
  <2>5. Sends(m, {"greeting", "auth", "request"}, next)
    BY <2>1, <2>3 DEF Sends
  <2> QED
    BY <1>1, <2>2, <2>4, <2>5
<1>5. CASE SendData
  <2> DEFINE n == client.sent
  <2>1. /\ client.next = "data" /\ n \in 0..MaxData /\ n < MaxData
        /\ client' = [client EXCEPT !.sent = n + 1]
        /\ wire' = Append(wire, Item(n + 1))
        /\ buf' = buf /\ pc' = pc /\ request' = request /\ extra' = extra
    BY <1>5, <1>t DEF SendData, Item
  <2>2. client'.next = "data" /\ client'.sent = n + 1 /\ SendsOn'
    BY <1>t, <2>1 DEF SendsOn
  <2>3. Item(n + 1) \in Message /\ Append(Items(n), Item(n + 1)) = Items(n + 1)
    BY <2>1, ItemsGrow
  <2>4. /\ (buf \o wire)' = Append(buf \o wire, Item(n + 1))
        /\ (extra \o wire)' = Append(extra \o wire, Item(n + 1))
    BY <1>t, <2>1, <2>3, AppendedToBoth
  <2>5. Reading' => Followed((buf \o wire)', n + 1)
    BY <1>t, <1>u, <2>1, <2>3, <2>4, FollowedByMore DEF HandoverInv, Reading
  <2>6. (pc = "handle" /\ request.command = "connect")' => (buf \o wire)' = Items(n + 1)
    BY <2>1, <2>3, <2>4 DEF HandoverInv
  <2>7. (pc \in {"connect", "session"})' => (extra \o wire)' = Items(n + 1)
    BY <2>1, <2>3, <2>4 DEF HandoverInv
  <2> QED
    BY <2>2, <2>5, <2>6, <2>7 DEF HandoverInv
<1>6. CASE LeaveClient
  <2>1. /\ client'.next = "left" /\ client'.sent = client.sent
        /\ UNCHANGED <<wire, buf, pc, request, extra>>
    BY <1>6, <1>t DEF LeaveClient
  <2> QED
    BY <2>1 DEF HandoverInv, SendsOn, Reading
<1> QED
  BY <1>2, <1>3, <1>4, <1>5, <1>6 DEF ClientStep

\* The server fills its buffer, reads a message or goes on.
LEMMA ServerHandsOver ==
  ASSUME NInv, HandoverInv, ServerStep
  PROVE  HandoverInv'
<1>t. /\ wire \in Seq(Message) /\ buf \in Seq(Message) /\ extra \in Seq(Message)
      /\ client.sent \in 0..MaxData
  BY DEF NInv, NegotiationTypeOK
<1>u. buf \o wire \in Seq(Message)
  BY <1>t, ConcatProperties
<1>c. UNCHANGED client
  BY DEF ServerStep, Fill, ReadFails, ReadGreeting, ReadAuth, ReadRequest, HandleUnsupported,
         HandleConnect, HandleSocks5TCP, HandleAssociate, AssociateEnds
<1>s. SendsOn' = SendsOn
  BY <1>c DEF SendsOn
\* Where nothing is read or handed over any more, there is nothing to show.
<1>0. ASSUME pc' \in {"associated", "released", "closed"} PROVE HandoverInv'
  BY <1>0, <1>c DEF HandoverInv, Reading
<1>1. CASE Fill
  <2>1. PICK n \in 1..Len(wire) : /\ buf' = SubSeq(wire, 1, n)
                                  /\ wire' = SubSeq(wire, n + 1, Len(wire))
    BY <1>1 DEF Fill
  <2>2. buf = <<>> /\ Reading /\ pc' = pc
    BY <1>1 DEF Fill
  <2>3. SubSeq(wire, 1, n) \o SubSeq(wire, n + 1, Len(wire)) = SubSeq(wire, 1, Len(wire))
    <3>1. Len(wire) \in Nat
      BY <1>t, LenProperties
    <3>2. 1 \in 1..Len(wire) + 1 /\ n \in 1 - 1..Len(wire) /\ Len(wire) \in n..Len(wire)
      BY <3>1
    <3> QED
      BY <1>t, <3>2, ConcatAdjacentSubSeq
  <2>4. (buf \o wire)' = buf \o wire
    BY <1>t, <2>1, <2>2, <2>3, SubSeqFull, ConcatEmptySeq
  <2> QED
    BY <1>c, <1>s, <2>2, <2>4 DEF HandoverInv, Reading
<1>2. CASE ReadFails
  BY <1>0, <1>2 DEF ReadFails
\* A message is read.
<1>r. ASSUME Reading, buf # <<>>, buf' = Tail(buf), wire' = wire
      PROVE  /\ Followed((buf \o wire)', client'.sent)
             /\ Connecting((buf \o wire)') => SendsOn'
             /\ Connects(Head(buf)) => SendsOn' /\ (buf \o wire)' = Items(client'.sent)
  <2>1. /\ buf \o wire # <<>> /\ Head(buf \o wire) = Head(buf)
        /\ (buf \o wire)' = Tail(buf \o wire)
    BY <1>r, <1>t, TakenOfBoth
  <2>2. Followed(buf \o wire, client.sent) /\ (Connecting(buf \o wire) => SendsOn)
    BY <1>r DEF HandoverInv
  <2> QED
    BY <1>c, <1>s, <1>t, <1>u, <2>1, <2>2, FollowedFrom
<1>3. CASE ReadGreeting \/ ReadAuth
  <2>1. Reading /\ buf # <<>> /\ buf' = Tail(buf) /\ wire' = wire
    BY <1>3 DEF ReadGreeting, ReadAuth, Reading
  <2>2. pc' \in {"auth", "request", "closed"}
    BY <1>3 DEF ReadGreeting, ReadAuth, Reply, Quietly
  <2> QED
    BY <1>0, <1>c, <1>r, <2>1, <2>2 DEF HandoverInv
<1>4. CASE ReadRequest
  <2>1. Reading /\ buf # <<>> /\ buf' = Tail(buf) /\ wire' = wire
    BY <1>4 DEF ReadRequest, Reading
  <2>2. pc' = "closed" \/ (pc' = "handle" /\ request' = Head(buf) /\ Head(buf).kind = "request")
    BY <1>4 DEF ReadRequest, Quietly
  <2>3. CASE pc' = "handle" /\ request' = Head(buf) /\ Head(buf).kind = "request"
    BY <1>c, <1>r, <2>1, <2>3 DEF HandoverInv, Connects, Reading
  <2> QED
    BY <1>0, <2>2, <2>3
<1>5. CASE HandleUnsupported
  BY <1>0, <1>5 DEF HandleUnsupported, Reply
<1>6. CASE HandleConnect
  <2>1. pc = "handle" /\ request.command = "connect" /\ wire' = wire
    BY <1>6 DEF HandleConnect
  <2>2. pc' = "closed" \/ (pc' = "connect" /\ extra' = buf)
    BY <1>6 DEF HandleConnect, Reply, Quietly
  <2>3. CASE pc' = "connect" /\ extra' = buf
    BY <1>c, <1>s, <2>1, <2>3 DEF HandoverInv, Reading
  <2> QED
    BY <1>0, <2>2, <2>3
<1>7. CASE HandleSocks5TCP
  <2>1. /\ pc = "connect" /\ pc' \in {"session", "closed"}
        /\ wire' = wire /\ extra' = extra
    BY <1>7 DEF HandleSocks5TCP, Quietly
  <2> QED
    BY <1>0, <1>c, <1>s, <2>1 DEF HandoverInv, Reading
<1>8. CASE HandleAssociate \/ AssociateEnds
  BY <1>0, <1>8 DEF HandleAssociate, AssociateEnds, Reply, Quietly
<1> QED
  BY <1>1, <1>2, <1>3, <1>4, <1>5, <1>6, <1>7, <1>8 DEF ServerStep

\* The relay of datagrams changes nothing of this.
LEMMA HandoverAlways == Spec => []HandoverInv
<1>1. Init => HandoverInv
  <2> SUFFICES ASSUME Init PROVE HandoverInv
    OBVIOUS
  <2>1. pc = "version" /\ client.next = "greeting" /\ client.sent = 0 /\ buf = <<>> /\ wire = <<>>
    BY DEF Init, NegotiationInit
  <2>2. buf \o wire = <<>>
    BY <2>1, EmptySeq, ConcatEmptySeq
  <2> QED
    BY <2>1, <2>2 DEF HandoverInv, Reading, Followed, Connecting
<1>2. NInv /\ HandoverInv /\ [Next]_vars => HandoverInv'
  <2> SUFFICES ASSUME NInv, HandoverInv, [Next]_vars PROVE HandoverInv'
    OBVIOUS
  <2>1. CASE UNCHANGED negotiation
    BY <2>1 DEF negotiation, HandoverInv, Reading, SendsOn
  <2> QED
    BY <2>1, ClientHandsOver, ServerHandsOver DEF Next, vars
<1> QED
  BY <1>1, <1>2, NegotiationAlways, PTL DEF Spec

\* Whatever a client has sent ahead of the replies to its request, and however
\* much of it the server had in its buffer, reaches the session, in order.
THEOREM HandoverIsWhole == Spec => []NothingLostAtHandover
<1>1. HandoverInv => NothingLostAtHandover
  BY DEF HandoverInv, NothingLostAtHandover, Items, Item
<1> QED
  BY <1>1, HandoverAlways, PTL

-----------------------------------------------------------------------------
(* The relay: what is read from a datagram, and what does not change.      *)

\* What fits in the buffer is a sequence of bytes.
LEMMA ReceivedIsBytes ==
  ASSUME NEW bb \in Seq(Byte)
  PROVE  Received(bb) \in Seq(Byte)
<1> DEFINE n == IF Len(bb) < BufLen THEN Len(bb) ELSE BufLen
<1>1. Len(bb) \in Nat /\ BufLen \in Nat
  BY LenProperties, RelayAssumption
<1>2. 1 \in 1..Len(bb) + 1 /\ n \in 1 - 1..Len(bb)
  BY <1>1
<1> HIDE DEF n
<1>3. SubSeq(bb, 1, n) \in Seq(Byte)
  BY <1>2, PartOfBytes
<1> QED
  BY <1>3 DEF Received, n

LEMMA DatagramTypes ==
  ASSUME NEW bb \in Datagrams, WellFormed(Received(bb))
  PROVE  LET d == newDatagramFromBytes(Received(bb))
         IN  /\ toAddress(d) \in Dest /\ d.data \in Seq(Byte)
             /\ Says(Received(bb), toAddress(d), d.data)
             /\ toAddress(d) \in IPTexts \cup NameTexts
<1> DEFINE b == Received(bb)
<1>1. b \in Seq(Byte)
  BY ReceivedIsBytes, RelayAssumption
<1>2. b \in Readable
  BY DEF Readable
<1> HIDE DEF b
<1>3. toAddress(newDatagramFromBytes(b)) \in Dest
  BY <1>2 DEF Dest
<1>4. WellFormed(b)
  BY DEF b
<1> QED
  BY <1>1, <1>3, <1>4, HeaderIsRead DEF b

LEMMA PairTypes ==
  ASSUME NEW e \in Entry
  PROVE  /\ e.src \in Src /\ e.dest \in Dest /\ e # None /\ IdOf(e) \in Id
         /\ e = [src |-> e.src, dest |-> e.dest]
<1>1. e.src \in Src /\ e.dest \in Dest /\ e = [src |-> e.src, dest |-> e.dest]
  BY DEF Entry
<1>2. \A s \in Src, d \in Dest : [src |-> s, dest |-> d] # None
  BY RelayAssumption
<1>3. e # None
  BY <1>1, <1>2
<1>4. <<e.src, e.dest>> \in Src \X Dest
  BY <1>1
<1>5. SessionId \in [Src \X Dest -> Id]
  BY RelayAssumption
<1>6. SessionId[<<e.src, e.dest>>] \in Id
  BY <1>4, <1>5
<1> QED
  BY <1>1, <1>3, <1>6 DEF IdOf

UpMessage   == [id : Id, addr : Dest, n : 1..MaxSend, data : Seq(Byte)]
DownMessage == [id : Id, n : 1..MaxSend]

LEMMA QueueTypes ==
  ASSUME RelayTypeOK
  PROVE  /\ up \in Seq(UpMessage) /\ Carried(up) \subseteq UpMessage
         /\ down \in Seq(DownMessage) /\ Carried(down) \subseteq DownMessage
<1>1. up \in Seq(UpMessage) /\ down \in Seq(DownMessage)
  BY DEF RelayTypeOK, UpMessage, DownMessage
<1> QED
  BY <1>1, CarriedType

LEMMA AskedTypes ==
  ASSUME RelayTypeOK, NEW n \in DOMAIN asked
  PROVE  asked[n] \in [src : Src, bytes : Datagrams] /\ asked[n].bytes \in Datagrams
<1>1. asked \in Seq([src : Src, bytes : Datagrams])
  BY DEF RelayTypeOK
<1>2. asked[n] \in [src : Src, bytes : Datagrams]
  BY <1>1, LenProperties
<1> QED
  BY <1>2

\* What a step keeps that adds to what was accepted and forgets nothing.
Keeps == /\ \A n \in DOMAIN asked : n \in DOMAIN asked' /\ asked'[n] = asked[n]
         /\ \A i \in Id : Found(i) => Found(i)'

LEMMA Lasting ==
  ASSUME Keeps
  PROVE  \A i, n : Known(i, n) => Known(i, n)' /\ AskedData(n)' = AskedData(n)
BY DEF Keeps, Known, AskedData, AskedPair, AskedDest

LEMMA Kept ==
  ASSUME RInv, Keeps
  PROVE  /\ (rx' = rx /\ epoch' = epoch) => RxInv'
         /\ Carried(up') \subseteq Carried(up) => UpInv'
         /\ socks' = socks => SocksInv'
         /\ (socks' = socks /\ atDest' = atDest) => DestInv'
         /\ Carried(down') \subseteq Carried(down) => DownInv'
         /\ got' = got => GotInv'
         /\ asked' = asked => AskedInv'
         /\ proxys' = proxys => ProxysInv'
         /\ (serving' = serving /\ epoch' = epoch) => GoneInv'
         /\ (link' = link /\ epoch' = epoch) => EpochInv'
<1> USE DEF RInv
<1>1. \A i, n : Known(i, n) => Known(i, n)' /\ AskedData(n)' = AskedData(n)
  BY Lasting
<1>2. \A i \in Id : Found(i) => Found(i)'
  BY DEF Keeps
<1>3. (rx' = rx /\ epoch' = epoch) => RxInv'
  <2>1. rx # Idle => rx.id \in Id
    BY DEF RelayTypeOK
  <2> QED
    BY <1>1, <1>2, <2>1 DEF RelayIInv, RxInv
<1>4. Carried(up') \subseteq Carried(up) => UpInv'
  <2>1. \A m \in Carried(up) : m.id \in Id
    BY QueueTypes DEF UpMessage
  <2> QED
    BY <1>1, <1>2, <2>1 DEF RelayIInv, UpInv, OfPair
<1>5. socks' = socks => SocksInv'
  BY DEF RelayIInv, SocksInv, OfPair
<1>6. (socks' = socks /\ atDest' = atDest) => DestInv'
  BY <1>1, <1>2 DEF RelayIInv, DestInv, OfPair
<1>7. Carried(down') \subseteq Carried(down) => DownInv'
  <2>1. \A m \in Carried(down) : m.id \in Id
    BY QueueTypes DEF DownMessage
  <2> QED
    BY <1>1, <1>2, <2>1 DEF RelayIInv, DownInv
<1>8. got' = got => GotInv'
  BY <1>1 DEF RelayIInv, GotInv
<1>9. asked' = asked => AskedInv'
  BY DEF RelayIInv, AskedInv
<1>10. proxys' = proxys => ProxysInv'
  BY DEF RelayIInv, ProxysInv
<1>11. (serving' = serving /\ epoch' = epoch) => GoneInv'
  BY <1>2 DEF RelayIInv, GoneInv
<1>12. (link' = link /\ epoch' = epoch) => EpochInv'
  BY DEF RelayIInv, EpochInv
<1> QED
  BY <1>3, <1>4, <1>5, <1>6, <1>7, <1>8, <1>9, <1>10, <1>11, <1>12

-----------------------------------------------------------------------------
(* The relay: its steps.                                                   *)

RxType == [pc : {"store", "write"}, id : Id, entry : Entry, n : 1..MaxSend,
           data : Seq(Byte), epoch : 0..MaxBreaks]

LEMMA HandleKeeps ==
  ASSUME RInv, NEW src \in Src, NEW bb \in Datagrams, HandleUDPConn(src, bb)
  PROVE  RInv'
<1> USE DEF RInv
<1> DEFINE d  == newDatagramFromBytes(Received(bb))
           e  == [src |-> src, dest |-> toAddress(d)]
           id == IdOf(e)
           found == proxys[id] # None
           a  == [src |-> src, bytes |-> bb]
<1> PICK n \in Nat : n = Len(asked) + 1
  BY LenProperties DEF RelayTypeOK
<1>1. /\ WellFormed(Received(bb)) /\ Len(asked) < MaxSend /\ asked' = Append(asked, a)
      /\ rx' = [pc    |-> IF found THEN "write" ELSE "store", id |-> id,
                entry |-> IF found THEN proxys[id] ELSE e,
                n |-> n, data |-> d.data, epoch |-> epoch]
      /\ UNCHANGED <<link, serving, epoch, up, down, proxys, socks, atDest, got, forgot>>
  BY DEF HandleUDPConn, Accepted
<1>2. e \in Entry /\ d.data \in Seq(Byte)
  BY <1>1, DatagramTypes DEF Entry
<1>3. id \in Id
  BY <1>2, PairTypes
<1>4. /\ asked \in Seq([src : Src, bytes : Datagrams]) /\ a \in [src : Src, bytes : Datagrams]
  BY DEF RelayTypeOK
<1>5. /\ asked' \in Seq([src : Src, bytes : Datagrams]) /\ Len(asked') = n
      /\ DOMAIN asked' = DOMAIN asked \cup {n}
      /\ \A i \in DOMAIN asked : asked'[i] = asked[i]
      /\ asked'[n] = a
  BY <1>1, <1>4, Appended
<1>6. Len(asked) \in Nat /\ MaxSend \in Nat
  BY <1>4, LenProperties, RelayAssumption
<1>7. n \in 1..MaxSend /\ Len(asked') <= MaxSend
  BY <1>1, <1>5, <1>6
<1> DEFINE entry == IF found THEN proxys[id] ELSE e
<1>8. entry \in Entry /\ IdOf(entry) = id
  BY <1>2, <1>3 DEF RelayTypeOK, RelayIInv, ProxysInv
<1>9. epoch \in 0..MaxBreaks /\ epoch <= epoch
  BY RelayAssumption DEF RelayTypeOK
<1>10. AskedPair(n)' = e /\ AskedData(n)' = d.data
  BY <1>5 DEF AskedPair, AskedData, AskedDest
<1> HIDE DEF d, e, id, a, found, entry
<1>11. rx' = [pc |-> IF found THEN "write" ELSE "store", id |-> id, entry |-> entry,
              n |-> n, data |-> d.data, epoch |-> epoch]
  BY <1>1 DEF entry
<1>12. rx' \in RxType
  BY <1>2, <1>3, <1>7, <1>8, <1>9, <1>11 DEF RxType
<1>13. RelayTypeOK'
  BY <1>1, <1>5, <1>7, <1>12 DEF RelayTypeOK, RxType
<1>14. Keeps
  BY <1>1, <1>5 DEF Keeps, Found
<1>15. Known(id, n)'
  BY <1>5, <1>10 DEF Known, id
<1>16. rx'.pc = "write" => Found(id)'
  BY <1>1, <1>11 DEF Found, found
<1>17. RxInv'
  BY <1>1, <1>8, <1>9, <1>10, <1>11, <1>15, <1>16 DEF RxInv
<1>18. AskedInv'
  BY <1>1, <1>5 DEF RelayIInv, AskedInv, a
<1> QED
  BY <1>1, <1>13, <1>14, <1>17, <1>18, Kept DEF RelayIInv

LEMMA StoreKeeps ==
  ASSUME RInv, StoreProxy
  PROVE  RInv'
<1> USE DEF RInv
<1>1. /\ rx # Idle /\ rx.pc = "store" /\ rx' = [rx EXCEPT !.pc = "write"]
      /\ UNCHANGED <<link, serving, epoch, up, down, socks, atDest, asked, got>>
  BY DEF StoreProxy, Idle
<1>2. rx \in RxType
  BY <1>1 DEF RelayTypeOK, RxType
<1>3. /\ rx' \in RxType /\ rx'.pc = "write" /\ rx'.id = rx.id /\ rx'.n = rx.n
      /\ rx'.entry = rx.entry /\ rx'.data = rx.data /\ rx'.epoch = rx.epoch
  BY <1>1, <1>2 DEF RxType
<1>4. rx.id \in Id /\ rx.entry \in Entry /\ rx.entry # None
  BY <1>2, PairTypes DEF RxType
<1>5. /\ Known(rx.id, rx.n) /\ rx.data = AskedData(rx.n) /\ IdOf(rx.entry) = rx.id
      /\ rx.epoch <= epoch
  BY <1>1 DEF RelayIInv, RxInv
<1>6. CASE serving /\ rx.epoch = epoch
  <2>1. proxys' = [proxys EXCEPT ![rx.id] = rx.entry] /\ forgot' = forgot \ {rx.id}
    BY <1>6 DEF StoreProxy
  <2>2. proxys' \in [Id -> Entry \cup {None}] /\ forgot' \subseteq Id
    BY <2>1, <1>4 DEF RelayTypeOK
  <2>3. \A i \in Id : proxys'[i] = IF i = rx.id THEN rx.entry ELSE proxys[i]
    BY <2>1, <1>4 DEF RelayTypeOK
  <2>4. RelayTypeOK'
    BY <1>1, <1>3, <2>2 DEF RelayTypeOK, RxType
  <2>5. \A i \in Id : Found(i) => Found(i)'
    BY <2>1, <2>3, <1>4 DEF Found
  <2>6. Keeps
    BY <1>1, <2>5 DEF Keeps
  <2>7. proxys'[rx.id] # None
    BY <2>3, <1>4
  <2>8. RxInv'
    BY <1>1, <1>3, <1>5, <2>6, <2>7, Lasting DEF RxInv, Found
  <2>9. ProxysInv'
    BY <2>3, <1>5 DEF RelayIInv, ProxysInv
  <2> QED
    BY <1>1, <2>4, <2>6, <2>8, <2>9, Kept DEF RelayIInv
<1>7. CASE ~(serving /\ rx.epoch = epoch)
  <2>1. proxys' = proxys /\ forgot' = forgot
    BY <1>7 DEF StoreProxy
  <2>2. RelayTypeOK'
    BY <1>1, <1>3, <2>1 DEF RelayTypeOK, RxType
  <2>3. Keeps
    BY <1>1, <2>1 DEF Keeps, Found
  <2>4. ~serving \/ epoch > 0
    BY <1>2, <1>5, <1>7, RelayAssumption DEF RelayTypeOK, RxType
  <2>5. Found(rx.id)
    BY <2>4, <1>4 DEF RelayIInv, GoneInv
  <2>6. RxInv'
    BY <1>1, <1>3, <1>4, <1>5, <2>3, <2>5, Lasting DEF RxInv, Keeps
  <2> QED
    BY <1>1, <2>1, <2>2, <2>3, <2>6, Kept DEF RelayIInv
<1> QED
  BY <1>6, <1>7

LEMMA WriteKeeps ==
  ASSUME RInv, WriteToDest
  PROVE  RInv'
<1> USE DEF RInv
<1> DEFINE m == [id |-> rx.id, addr |-> rx.entry.dest, n |-> rx.n, data |-> rx.data]
<1>1. /\ rx # Idle /\ rx.pc = "write" /\ rx' = Idle
      /\ up' = Append(up, m) \/ up' = up
      /\ UNCHANGED <<link, serving, epoch, down, proxys, socks, atDest, asked, got, forgot>>
  BY DEF WriteToDest, Idle
<1>2. rx \in RxType
  BY <1>1 DEF RelayTypeOK, RxType
<1>3. rx.entry \in Entry /\ rx.entry.dest \in Dest
  BY <1>2, PairTypes DEF RxType
<1>4. m \in UpMessage
  BY <1>2, <1>3 DEF RxType, UpMessage
<1> HIDE DEF m
<1>5. up' \in Seq(UpMessage) /\ Carried(up') \subseteq Carried(up) \cup {m}
  <2>1. up \in Seq(UpMessage)
    BY QueueTypes
  <2>2. CASE up' = Append(up, m)
    BY <2>1, <2>2, <1>4, Appended
  <2>3. CASE up' = up
    BY <2>1, <2>3
  <2> QED
    BY <1>1, <2>2, <2>3
<1>6. RelayTypeOK'
  BY <1>1, <1>5 DEF RelayTypeOK, UpMessage
<1>7. Keeps
  BY <1>1 DEF Keeps, Found
<1>8. /\ Known(rx.id, rx.n) /\ rx.data = AskedData(rx.n) /\ IdOf(rx.entry) = rx.id
      /\ Found(rx.id)
  BY <1>1 DEF RelayIInv, RxInv
<1>9. /\ Known(m.id, m.n) /\ m.data = AskedData(m.n) /\ OfPair(m.id, m.addr)
      /\ Found(m.id) /\ m.id \in Id
  BY <1>3, <1>4, <1>8 DEF OfPair, UpMessage, m
<1>10. \A x \in Carried(up') : /\ Known(x.id, x.n) /\ x.data = AskedData(x.n)
                               /\ OfPair(x.id, x.addr) /\ Found(x.id)
  BY <1>5, <1>9 DEF RelayIInv, UpInv
<1>11. UpInv'
  BY <1>1, <1>10 DEF UpInv, Known, AskedData, AskedPair, AskedDest, OfPair, Found
<1>12. RxInv'
  BY <1>1 DEF RxInv
<1> QED
  BY <1>1, <1>6, <1>7, <1>11, <1>12, Kept DEF RelayIInv

LEMMA WaitKeeps ==
  ASSUME RInv, NEW id \in Id, WaitTimeout(id)
  PROVE  RInv'
<1> USE DEF RInv
<1>1. /\ proxys' = [proxys EXCEPT ![id] = None] /\ forgot' = forgot \cup {id}
      /\ UNCHANGED <<link, serving, epoch, up, down, rx, socks, atDest, asked, got>>
  BY DEF WaitTimeout
<1>2. \A i \in Id : proxys'[i] = IF i = id THEN None ELSE proxys[i]
  BY <1>1 DEF RelayTypeOK
<1>3. RelayTypeOK'
  BY <1>1 DEF RelayTypeOK
<1>4. Keeps
  BY <1>1, <1>2 DEF Keeps, Found
<1>5. ProxysInv'
  BY <1>2 DEF RelayIInv, ProxysInv
<1> QED
  BY <1>1, <1>3, <1>4, <1>5, Kept DEF RelayIInv

LEMMA ClientReadsKeeps ==
  ASSUME RInv, ClientReads
  PROVE  RInv'
<1> USE DEF RInv
<1> DEFINE m == Head(up)
           id == m.id
           x == [n |-> m.n, data |-> m.data]
<1>1. /\ up # <<>> /\ up' = Tail(up)
      /\ UNCHANGED <<link, serving, epoch, down, rx, proxys, asked, got, forgot>>
  BY DEF ClientReads
<1>2. \/ /\ socks[id] = None
         /\ socks' = [socks EXCEPT ![id] = Socket(m.addr, TRUE)]
         /\ atDest' = [atDest EXCEPT ![id] = @ \cup {x}]
      \/ /\ socks[id] # None /\ socks[id].open
         /\ atDest' = [atDest EXCEPT ![id] = @ \cup {x}]
         /\ UNCHANGED socks
      \/ UNCHANGED <<socks, atDest>>
  BY DEF ClientReads, Write
<1>3. /\ up \in Seq(UpMessage) /\ m \in UpMessage /\ m \in Carried(up)
      /\ Tail(up) \in Seq(UpMessage) /\ Carried(Tail(up)) \subseteq Carried(up)
  BY <1>1, QueueTypes, TakenOff
<1>4. /\ Known(id, m.n) /\ m.data = AskedData(m.n) /\ OfPair(id, m.addr) /\ Found(id)
  BY <1>3 DEF RelayIInv, UpInv
<1>5. id \in Id /\ x \in Delivery /\ Socket(m.addr, TRUE) \in [dest : Dest, open : BOOLEAN]
  BY <1>3 DEF UpMessage, Delivery, Socket
<1>6. Socket(m.addr, TRUE).open /\ Socket(m.addr, TRUE).dest = m.addr
  BY DEF Socket
<1>7. Keeps
  BY <1>1 DEF Keeps, Found
<1>8. \A i, k : (Known(i, k) <=> Known(i, k)') /\ AskedData(k)' = AskedData(k)
  BY <1>1 DEF Known, AskedData, AskedPair, AskedDest
<1>9. \A i : (Found(i) <=> Found(i)')
  BY <1>1 DEF Found
<1>10. atDest \in [Id -> SUBSET Delivery] /\ socks \in [Id -> [dest : Dest, open : BOOLEAN] \cup {None}]
  BY DEF RelayTypeOK
<1> DEFINE sock == Socket(m.addr, TRUE)
<1> HIDE DEF m, id, x, sock
<1>11. CASE UNCHANGED <<socks, atDest>>
  <2>1. RelayTypeOK'
    BY <1>1, <1>3, <1>11 DEF RelayTypeOK, UpMessage
  <2> QED
    BY <1>1, <1>3, <1>7, <1>11, <2>1, Kept DEF RelayIInv
<1>12. CASE /\ atDest' = [atDest EXCEPT ![id] = @ \cup {x}]
            /\ \/ socks' = [socks EXCEPT ![id] = sock]
               \/ socks' = socks /\ socks[id] # None /\ socks[id].open
  <2>1. /\ socks' \in [Id -> [dest : Dest, open : BOOLEAN] \cup {None}]
        /\ \A i \in Id \ {id} : socks'[i] = socks[i]
        /\ socks'[id].open /\ OfPair(id, socks'[id].dest)
    <3>1. CASE socks' = [socks EXCEPT ![id] = sock]
      <4>1. socks'[id] = sock /\ \A i \in Id \ {id} : socks'[i] = socks[i]
        BY <3>1, <1>5, <1>10
      <4>2. sock \in [dest : Dest, open : BOOLEAN] /\ sock.open /\ OfPair(id, sock.dest)
        BY <1>4, <1>5, <1>6 DEF sock
      <4> QED
        BY <3>1, <4>1, <4>2, <1>5, <1>10
    <3>2. CASE socks' = socks /\ socks[id] # None /\ socks[id].open
      BY <3>2, <1>5, <1>10 DEF RelayIInv, SocksInv
    <3> QED
      BY <1>12, <3>1, <3>2
  <2>2. \A i \in Id : atDest'[i] = IF i = id THEN atDest[i] \cup {x} ELSE atDest[i]
    BY <1>12, <1>10
  <2>3. atDest' \in [Id -> SUBSET Delivery]
    BY <1>12, <1>5, <1>10
  <2>4. RelayTypeOK'
    BY <1>1, <1>3, <2>1, <2>3 DEF RelayTypeOK, UpMessage
  <2>5. SocksInv'
    <3>1. \A i \in Id : socks'[i] # None => OfPair(i, socks'[i].dest)
      BY <2>1 DEF RelayIInv, SocksInv
    <3> QED
      BY <3>1 DEF SocksInv, OfPair
  <2>6. \A i \in Id : \A d \in atDest'[i] :
          /\ Known(i, d.n) /\ d.data = AskedData(d.n) /\ Found(i)
          /\ socks'[i].open /\ OfPair(i, socks'[i].dest)
    <3> SUFFICES ASSUME NEW i \in Id, NEW d \in atDest'[i]
                 PROVE  /\ Known(i, d.n) /\ d.data = AskedData(d.n) /\ Found(i)
                        /\ socks'[i].open /\ OfPair(i, socks'[i].dest)
      OBVIOUS
    <3>1. CASE d \in atDest[i]
      BY <3>1, <2>1 DEF RelayIInv, DestInv
    <3>2. CASE i = id /\ d = x
      <4>1. x.n = m.n /\ x.data = m.data
        BY DEF x
      <4> QED
        BY <3>2, <4>1, <1>4, <2>1
    <3> QED
      BY <2>2, <3>1, <3>2
  <2>7. DestInv'
    BY <2>6, <1>8, <1>9 DEF DestInv, OfPair
  <2> QED
    BY <1>1, <1>3, <1>7, <2>4, <2>5, <2>7, Kept DEF RelayIInv
<1> QED
  BY <1>2, <1>11, <1>12 DEF sock

LEMMA AnswerKeeps ==
  ASSUME RInv, NEW id \in Id, NEW d \in atDest[id], Answer(id, d)
  PROVE  RInv'
<1> USE DEF RInv
<1> DEFINE m == [id |-> id, n |-> d.n]
<1>1. /\ UNCHANGED <<link, serving, epoch, up, rx, proxys, asked, got, forgot>>
      /\ \/ /\ socks' = [i \in Id |-> None] /\ atDest' = [i \in Id |-> {}]
            /\ down' = down
         \/ /\ atDest' = [atDest EXCEPT ![id] = @ \ {d}] /\ socks' = socks
            /\ down' = Append(down, m) \/ down' = down
  BY DEF Answer
<1>2. /\ Known(id, d.n) /\ Found(id)
  BY DEF RelayIInv, DestInv
<1>3. atDest \in [Id -> SUBSET Delivery] /\ d.n \in 1..MaxSend
  BY DEF RelayTypeOK, Delivery
<1>4. m \in DownMessage /\ m.id = id /\ m.n = d.n
  BY <1>3 DEF DownMessage
<1>5. Keeps
  BY <1>1 DEF Keeps, Found
<1> HIDE DEF m
<1>6. down' \in Seq(DownMessage) /\ Carried(down') \subseteq Carried(down) \cup {m}
  <2>1. down \in Seq(DownMessage)
    BY QueueTypes
  <2>2. CASE down' = Append(down, m)
    BY <2>1, <2>2, <1>4, Appended
  <2>3. CASE down' = down
    BY <2>1, <2>3
  <2> QED
    BY <1>1, <2>2, <2>3
<1>7. \A x \in Carried(down') : Known(x.id, x.n) /\ Found(x.id)
  BY <1>2, <1>4, <1>6 DEF RelayIInv, DownInv
<1>8. DownInv'
  BY <1>1, <1>7 DEF DownInv, Known, AskedPair, AskedDest, Found
<1>9. atDest' \in [Id -> SUBSET Delivery] /\ \A i \in Id : atDest'[i] \subseteq atDest[i]
  BY <1>1, <1>3
<1>10. RelayTypeOK'
  BY <1>1, <1>6, <1>9 DEF RelayTypeOK, DownMessage
<1>11. CASE socks' = socks
  <2>1. DestInv'
    BY <1>1, <1>9, <1>11 DEF RelayIInv, DestInv, Known, AskedData, AskedPair, AskedDest, Found, OfPair
  <2> QED
    BY <1>1, <1>5, <1>8, <1>10, <1>11, <2>1, Kept DEF RelayIInv
<1>12. CASE socks' = [i \in Id |-> None] /\ atDest' = [i \in Id |-> {}]
  <2>1. SocksInv' /\ DestInv'
    BY <1>12 DEF SocksInv, DestInv
  <2> QED
    BY <1>1, <1>5, <1>8, <1>10, <2>1, Kept DEF RelayIInv
<1> QED
  BY <1>1, <1>11, <1>12

LEMMA SocketsKeep ==
  ASSUME RInv, NEW id \in Id, ReadTimesOut(id) \/ ServeReturns(id)
  PROVE  RInv'
<1> USE DEF RInv
<1>1. /\ socks[id] # None
      /\ UNCHANGED <<link, serving, epoch, up, down, rx, proxys, asked, got, forgot>>
  BY DEF ReadTimesOut, ServeReturns
<1>2. Keeps
  BY <1>1 DEF Keeps, Found
<1>3. atDest \in [Id -> SUBSET Delivery] /\ socks \in [Id -> [dest : Dest, open : BOOLEAN] \cup {None}]
  BY DEF RelayTypeOK
<1>4. OfPair(id, socks[id].dest)
  BY <1>1 DEF RelayIInv, SocksInv
<1>5. CASE ReadTimesOut(id)
  <2>1. socks' = [socks EXCEPT ![id].open = FALSE] /\ atDest' = [atDest EXCEPT ![id] = {}]
    BY <1>5 DEF ReadTimesOut
  <2>2. socks[id] \in [dest : Dest, open : BOOLEAN]
    BY <1>1, <1>3
  <2>3. /\ socks'[id] = [socks[id] EXCEPT !.open = FALSE]
        /\ \A i \in Id \ {id} : socks'[i] = socks[i]
    BY <2>1, <1>3
  <2>4. socks'[id] \in [dest : Dest, open : BOOLEAN] /\ socks'[id].dest = socks[id].dest
    BY <2>2, <2>3
  <2>5. socks' \in [Id -> [dest : Dest, open : BOOLEAN] \cup {None}]
    BY <2>1, <2>4, <1>3
  <2>6. atDest' \in [Id -> SUBSET Delivery] /\ atDest'[id] = {}
        /\ \A i \in Id \ {id} : atDest'[i] = atDest[i]
    BY <2>1, <1>3
  <2>7. RelayTypeOK'
    BY <1>1, <2>5, <2>6 DEF RelayTypeOK
  <2>8. SocksInv'
    BY <1>4, <2>3, <2>4 DEF RelayIInv, SocksInv, OfPair
  <2>9. DestInv'
    BY <1>1, <2>3, <2>6 DEF RelayIInv, DestInv, Known, AskedData, AskedPair, AskedDest, Found, OfPair
  <2> QED
    BY <1>1, <1>2, <2>7, <2>8, <2>9, Kept DEF RelayIInv
<1>6. CASE ServeReturns(id)
  <2>1. socks' = [socks EXCEPT ![id] = None] /\ atDest' = atDest /\ ~socks[id].open
    BY <1>6 DEF ServeReturns
  <2>2. socks' \in [Id -> [dest : Dest, open : BOOLEAN] \cup {None}]
    BY <2>1, <1>3
  <2>3. socks'[id] = None /\ \A i \in Id \ {id} : socks'[i] = socks[i]
    BY <2>1, <1>3
  <2>4. RelayTypeOK'
    BY <1>1, <2>1, <2>2 DEF RelayTypeOK
  <2>5. SocksInv'
    BY <2>3 DEF RelayIInv, SocksInv, OfPair
  <2>6. atDest[id] = {}
    BY <2>1 DEF RelayIInv, DestInv
  <2>7. DestInv'
    BY <1>1, <2>1, <2>3, <2>6 DEF RelayIInv, DestInv, Known, AskedData, AskedPair, AskedDest, Found, OfPair
  <2> QED
    BY <1>1, <1>2, <2>4, <2>5, <2>7, Kept DEF RelayIInv
<1> QED
  BY <1>5, <1>6

LEMMA ServerReadsKeeps ==
  ASSUME RInv, ServerReads
  PROVE  RInv'
<1> USE DEF RInv
<1> DEFINE m == Head(down)
           e == proxys[m.id]
           g == ToSrc(e, m.n)
<1>1. /\ down # <<>> /\ down' = Tail(down)
      /\ got' = got \/ (e # None /\ got' = got \cup {g})
      /\ UNCHANGED <<link, serving, epoch, up, rx, proxys, socks, atDest, asked, forgot>>
  BY DEF ServerReads
<1>2. /\ down \in Seq(DownMessage) /\ m \in DownMessage /\ m \in Carried(down)
      /\ Tail(down) \in Seq(DownMessage) /\ Carried(Tail(down)) \subseteq Carried(down)
  BY <1>1, QueueTypes, TakenOff
<1>3. m.id \in Id /\ m.n \in 1..MaxSend /\ Known(m.id, m.n)
  BY <1>2 DEF DownMessage, RelayIInv, DownInv
<1>4. e # None => e \in Entry /\ IdOf(e) = m.id
  BY <1>3 DEF RelayTypeOK, RelayIInv, ProxysInv
<1>5. e # None => g.n \in 1..MaxSend /\ g.to \in Src
  BY <1>3, <1>4, PairTypes DEF ToSrc
<1>6. g.n = m.n
  BY DEF ToSrc
<1>7. Keeps
  BY <1>1 DEF Keeps, Found
<1> HIDE DEF m, e
<1>8. RelayTypeOK'
  <2>1. \A x \in got' : x.n \in 1..MaxSend /\ x.to \in Src
    BY <1>1, <1>5 DEF RelayTypeOK
  <2> QED
    BY <1>1, <1>2, <2>1 DEF RelayTypeOK, DownMessage
<1>9. \A x \in got' : \E y \in Entry : Known(IdOf(y), x.n) /\ x = ToSrc(y, x.n)
  BY <1>1, <1>3, <1>4, <1>6 DEF RelayIInv, GotInv
<1>10. GotInv'
  BY <1>1, <1>9 DEF GotInv, Known, AskedPair, AskedDest
<1> QED
  BY <1>1, <1>2, <1>7, <1>8, <1>10, Kept DEF RelayIInv

LEMMA WebsocketKeeps ==
  ASSUME RInv, Break \/ ClientNotices \/ ServerNotices \/ Reconnect
  PROVE  RInv'
<1> USE DEF RInv
<1>1. CASE Break
  <2>1. PICK k \in 0..Len(up) : up' = SubSeq(up, 1, k)
    BY <1>1 DEF Break
  <2>2. PICK j \in 0..Len(down) : down' = SubSeq(down, 1, j)
    BY <1>1 DEF Break
  <2>3. up' \in Seq(UpMessage) /\ Carried(up') \subseteq Carried(up)
    BY <2>1, QueueTypes, CutOff
  <2>4. down' \in Seq(DownMessage) /\ Carried(down') \subseteq Carried(down)
    BY <2>2, QueueTypes, CutOff
  <2>5. /\ link' = "broken"
        /\ UNCHANGED <<serving, epoch, rx, proxys, socks, atDest, asked, got, forgot>>
    BY <1>1 DEF Break
  <2>6. RelayTypeOK'
    BY <2>3, <2>4, <2>5 DEF RelayTypeOK, UpMessage, DownMessage
  <2>7. Keeps
    BY <2>5 DEF Keeps, Found
  <2>8. EpochInv'
    BY <1>1 DEF Break, EpochInv
  <2> QED
    BY <2>3, <2>4, <2>5, <2>6, <2>7, <2>8, Kept DEF RelayIInv
<1>2. CASE ClientNotices
  <2>1. RelayTypeOK'
    BY <1>2 DEF RelayTypeOK, ClientNotices
  <2>2. Keeps
    BY <1>2 DEF Keeps, Found, ClientNotices
  <2>3. EpochInv'
    BY <1>2 DEF RelayIInv, EpochInv, ClientNotices
  <2> QED
    BY <1>2, <2>1, <2>2, <2>3, Kept DEF RelayIInv, ClientNotices
<1>3. CASE ServerNotices
  <2>1. /\ serving' = FALSE /\ proxys' = [i \in Id |-> None] /\ forgot' = Id
        /\ UNCHANGED <<link, epoch, up, down, rx, socks, atDest, asked, got>>
    BY <1>3 DEF ServerNotices
  <2>2. RelayTypeOK'
    BY <2>1 DEF RelayTypeOK
  <2>3. Keeps
    BY <2>1 DEF Keeps, Found
  <2>4. ProxysInv' /\ GoneInv'
    BY <2>1 DEF ProxysInv, GoneInv, Found
  <2> QED
    BY <2>1, <2>2, <2>3, <2>4, Kept DEF RelayIInv
<1>4. CASE Reconnect
  <2>1. /\ link' = "up" /\ ~serving /\ serving' = TRUE /\ epoch' = epoch + 1
        /\ UNCHANGED <<up, down, rx, proxys, socks, atDest, asked, got, forgot>>
        /\ epoch \in Nat /\ epoch < MaxBreaks
    BY <1>4 DEF Reconnect, RelayTypeOK, RelayIInv, EpochInv
  <2>2. epoch' \in 0..MaxBreaks
    BY <2>1, RelayAssumption
  <2>3. RelayTypeOK'
    BY <2>1, <2>2 DEF RelayTypeOK
  <2>4. Keeps
    BY <2>1 DEF Keeps, Found
  <2>5. GoneInv' /\ EpochInv'
    BY <2>1 DEF RelayIInv, GoneInv, EpochInv, Found
  <2>6. rx # Idle => rx.epoch <= epoch'
    <3>1. rx # Idle => rx.epoch \in Nat /\ rx.epoch <= epoch
      BY RelayAssumption DEF RelayTypeOK, RelayIInv, RxInv
    <3> QED
      BY <2>1, <3>1
  <2>7. RxInv'
    BY <2>1, <2>6 DEF RelayIInv, RxInv, Known, AskedData, AskedPair, AskedDest, Found
  <2> QED
    BY <2>1, <2>3, <2>4, <2>5, <2>7, Kept DEF RelayIInv
<1> QED
  BY <1>1, <1>2, <1>3, <1>4

LEMMA RelayStart == Init => RInv
<1> SUFFICES ASSUME Init PROVE RInv
  OBVIOUS
<1>1. <<>> \in Seq(UpMessage) /\ <<>> \in Seq(DownMessage) /\ DOMAIN <<>> = {} /\ Len(<<>>) = 0
  BY EmptySeq
<1>2. Carried(<<>>) = {}
  BY <1>1 DEF Carried
<1>3. RelayTypeOK
  BY <1>1, RelayAssumption DEF Init, RelayTypeOK, UpMessage, DownMessage
<1>4. RelayIInv
  BY <1>1, <1>2, RelayAssumption
     DEF Init, RelayIInv, AskedInv, ProxysInv, RxInv, UpInv, SocksInv, DestInv, DownInv,
         GotInv, GoneInv, EpochInv
<1> QED
  BY <1>3, <1>4 DEF RInv

LEMMA RelayKeeps == RInv /\ [Next]_vars => RInv'
<1> SUFFICES ASSUME RInv, [Next]_vars PROVE RInv'
  OBVIOUS
<1>1. CASE UNCHANGED relay
  <2>1. RelayTypeOK'
    BY <1>1 DEF RInv, relay, RelayTypeOK
  <2>2. Keeps
    BY <1>1 DEF Keeps, Found, relay
  <2> QED
    BY <1>1, <2>1, <2>2, Kept DEF RInv, RelayIInv, relay
<1>2. CASE RelayStep
  BY <1>2, HandleKeeps, StoreKeeps, WriteKeeps, ClientReadsKeeps, ServerReadsKeeps,
     WaitKeeps, SocketsKeep, AnswerKeeps, WebsocketKeeps DEF RelayStep
<1> QED
  BY <1>1, <1>2 DEF Next, vars

LEMMA RelayAlways == Spec => []RInv
BY RelayStart, RelayKeeps, PTL DEF Spec

\* Every answer on its way finds its UDPProxy, unless that has timed out or its
\* Tunnel has gone (acceptSocks5UDPData, onProxyUDPDataFromTunnel).
THEOREM AnswersAlwaysFindProxy == Spec => []RelayInv
<1>1. RInv /\ NInv => RelayInv
  <2> SUFFICES ASSUME RInv, NInv PROVE AnswersFindProxy
    BY DEF RelayInv, TypeOK, RInv, NInv
  <2>1. \A k \in DOMAIN down : down[k] \in Carried(down)
    BY DEF Carried
  <2> QED
    BY <2>1 DEF RInv, RelayIInv, DownInv, Found, AnswersFindProxy
<1> QED
  BY <1>1, RelayAlways, NegotiationAlways, PTL

-----------------------------------------------------------------------------
(* Where datagrams and answers go.                                         *)

\* The pair of an id is the one that was asked for, unless ids collide.
LEMMA PairOfId ==
  ASSUME RInv, NEW n, ~Collides(n), NEW e \in Entry, Known(IdOf(e), n)
  PROVE  e = AskedPair(n)
BY DEF Collides, Known, AskedPair, IdOf

\* A datagram leaves for the destination in its header, however that is spelt,
\* with what fitted in the buffer of the data after it (handleUDPConn to the
\* client's UDPProxy.write).
THEOREM DatagramsAlwaysReachDest == Spec => []DatagramsReachDest
<1>1. RInv => DatagramsReachDest
  <2> SUFFICES ASSUME RInv, NEW i \in Id, NEW d \in atDest[i], ~Collides(d.n)
               PROVE  Says(Received(asked[d.n].bytes), socks[i].dest, d.data)
    BY DEF DatagramsReachDest
  <2>1. Known(i, d.n) /\ d.data = AskedData(d.n) /\ OfPair(i, socks[i].dest)
    BY DEF RInv, RelayIInv, DestInv
  <2>2. PICK e \in Entry : IdOf(e) = i /\ e.dest = socks[i].dest
    BY <2>1 DEF OfPair
  <2>3. e = AskedPair(d.n)
    BY <2>1, <2>2, PairOfId
  <2>4. socks[i].dest = AskedDest(d.n)
    BY <2>2, <2>3 DEF AskedPair
  <2>5. d.n \in DOMAIN asked /\ WellFormed(Received(asked[d.n].bytes))
    BY <2>1 DEF Known, RInv, RelayIInv, AskedInv
  <2>6. asked[d.n].bytes \in Datagrams
    BY <2>5, AskedTypes DEF RInv
  <2> QED
    BY <2>1, <2>4, <2>5, <2>6, DatagramTypes DEF AskedDest, AskedData
<1> QED
  BY <1>1, RelayAlways, PTL

\* An answer goes to the source that asked, with a header that names its
\* address (writeToSrc, NewDatagram).
THEOREM AnswersAlwaysComeHome == Spec => []AnswersComeHome
<1>1. RInv => AnswersComeHome
  <2> SUFFICES ASSUME RInv, NEW g \in got, ~Collides(g.n)
               PROVE  /\ g.to = asked[g.n].src
                      /\ IsIP(AskedDest(g.n)) =>
                           g.bytes = Encode(AskedDest(g.n), Received(AnswerTo[g.n]))
    BY DEF AnswersComeHome
  <2>1. PICK e \in Entry : Known(IdOf(e), g.n) /\ g = ToSrc(e, g.n)
    BY DEF RInv, RelayIInv, GotInv
  <2>2. e = AskedPair(g.n)
    BY <2>1, PairOfId
  <2>3. e.src = asked[g.n].src /\ e.dest = AskedDest(g.n)
    BY <2>2 DEF AskedPair
  <2>4. g.to = e.src /\ g.bytes = Bytes(NewDatagram(e.dest, Received(AnswerTo[g.n])))
    <3> DEFINE n == g.n
    <3> HIDE DEF n
    <3>1. /\ ToSrc(e, n).to = e.src
          /\ ToSrc(e, n).bytes = Bytes(NewDatagram(e.dest, Received(AnswerTo[n])))
      BY DEF ToSrc
    <3> QED
      BY <3>1, <2>1 DEF n
  <2>5. AskedDest(g.n) \in IPTexts \cup NameTexts
    <3>1. g.n \in DOMAIN asked /\ WellFormed(Received(asked[g.n].bytes))
      BY <2>1 DEF Known, RInv, RelayIInv, AskedInv
    <3>2. asked[g.n].bytes \in Datagrams
      BY <3>1, AskedTypes DEF RInv
    <3> QED
      BY <3>1, <3>2, DatagramTypes DEF AskedDest
  <2>6. IsIP(AskedDest(g.n)) => AskedDest(g.n) \in IPTexts
    BY <2>5 DEF IsIP, NameTexts
  <2> QED
    BY <2>3, <2>4, <2>6, AnswerIsRead
<1> QED
  BY <1>1, RelayAlways, PTL

-----------------------------------------------------------------------------
(* The shared UDP servers.  The counts equal the numbers of requests being *)
(* handled; so the server is stopped only when nobody is left that could   *)
(* use it.                                                                 *)

\* The requests that userUDPCount and userIPCount count.
UdpPCs == {"load", "listen", "store", "reply", "live", "decrUDP"}
IpPCs == Stages \ {"idle", "done"}
Counted(u) == {a \in Assoc : UserOf[a] = u /\ stage[a] \in UdpPCs}
Inside(k) == {a \in Assoc : AddrOf[a] = k /\ stage[a] \in IpPCs}

UdpCountIsExact == \A u \in User : udpCount[u] = Cardinality(Counted(u))
IpCountIsExact == \A k \in Address : ipCount[k] = Cardinality(Inside(k))

\* What userUDPServers holds listens for its user, who has associations.
StoredListens ==
  \A u \in User : udpServers[u] # None => open[udpServers[u]] = u /\ udpCount[u] > 0

\* A request that has a server has one that listens for its user.
ServerListens ==
  \A a \in Assoc : stage[a] \in {"store", "reply", "live"}
                     => server[a] \in Port /\ open[server[a]] = UserOf[a]

AssocIInv == AssocTypeOK /\ UdpCountIsExact /\ IpCountIsExact /\ StoredListens /\ ServerListens

\* The sets counted are finite.
LEMMA CountedFinite ==
  /\ \A u \in User : IsFiniteSet(Counted(u)) /\ Cardinality(Counted(u)) \in Nat
  /\ \A k \in Address : IsFiniteSet(Inside(k)) /\ Cardinality(Inside(k)) \in Nat
<1>1. \A S \in SUBSET Assoc : IsFiniteSet(S) /\ Cardinality(S) \in Nat
  BY FS_Subset, FS_CardinalityType, RequestsAssumption
<1> QED
  BY <1>1 DEF Counted, Inside

\* Adding an element to a finite set, and removing one, counts.
LEMMA OneMore ==
  ASSUME NEW S, IsFiniteSet(S), NEW x, x \notin S
  PROVE  Cardinality(S \cup {x}) = Cardinality(S) + 1
  BY FS_AddElement

LEMMA OneLess ==
  ASSUME NEW S, IsFiniteSet(S), NEW x \in S
  PROVE  /\ Cardinality(S \ {x}) = Cardinality(S) - 1
         /\ Cardinality(S) = 1 => S = {x}
<1>1. Cardinality(S \ {x}) = Cardinality(S) - 1 /\ IsFiniteSet(S \ {x})
  BY FS_RemoveElement
<1>2. Cardinality(S) = 1 => S \ {x} = {}
  BY <1>1, FS_EmptySet
<1> QED
  BY <1>1, <1>2

\* A step that moves one request between program counters that are counted
\* alike changes none of the sets.
LEMMA CountsStay ==
  ASSUME AssocTypeOK, NEW a \in Assoc, NEW from \in Stages, NEW to \in Stages, Goto(a, from, to)
  PROVE  /\ (from \in UdpPCs <=> to \in UdpPCs) => \A u \in User : Counted(u)' = Counted(u)
         /\ (from \in IpPCs <=> to \in IpPCs) => \A k \in Address : Inside(k)' = Inside(k)
         /\ stage' \in [Assoc -> Stages]
         /\ stage'[a] = to /\ \A b \in Assoc : b # a => stage'[b] = stage[b]
  BY DEF AssocTypeOK, Goto, Counted, Inside

\* Entering and leaving what userUDPCount counts, and the lock of the count.
LEMMA UdpCountStep ==
  ASSUME AssocTypeOK, UdpCountIsExact, NEW a \in Assoc, NEW from \in Stages, NEW to \in Stages,
         Goto(a, from, to)
  PROVE  /\ /\ from \notin UdpPCs /\ to \in UdpPCs
            /\ udpCount' = [udpCount EXCEPT ![UserOf[a]] = @ + 1]
            => UdpCountIsExact'
         /\ /\ from \in UdpPCs /\ to \notin UdpPCs
            /\ udpCount' = [udpCount EXCEPT ![UserOf[a]] = @ - 1]
            => /\ UdpCountIsExact'
               /\ udpCount[UserOf[a]] > 0
               /\ udpCount[UserOf[a]] = 1 => Counted(UserOf[a]) = {a}
<1> DEFINE u == UserOf[a]
<1>0. u \in User /\ udpCount \in [User -> Nat] /\ stage[a] = from
  BY RequestsAssumption DEF AssocTypeOK, Goto
<1>1. IsFiniteSet(Counted(u)) /\ Cardinality(Counted(u)) \in Nat
  BY <1>0, CountedFinite
<1>2. \A v \in User : v # u => Counted(v)' = Counted(v)
  BY CountsStay DEF Counted
<1>3. ASSUME from \notin UdpPCs, to \in UdpPCs,
             udpCount' = [udpCount EXCEPT ![u] = @ + 1]
      PROVE  UdpCountIsExact'
  <2>1. a \notin Counted(u) /\ Counted(u)' = Counted(u) \cup {a}
    BY <1>0, <1>3, CountsStay DEF Counted
  <2>2. Cardinality(Counted(u)') = Cardinality(Counted(u)) + 1
    BY <1>1, <2>1, OneMore
  <2>3. /\ udpCount'[u] = udpCount[u] + 1
        /\ \A v \in User : v # u => udpCount'[v] = udpCount[v]
    BY <1>0, <1>3
  <2> HIDE DEF u
  <2>4. \A v \in User : udpCount'[v] = Cardinality(Counted(v)')
    BY <1>0, <1>2, <2>2, <2>3 DEF UdpCountIsExact
  <2> QED
    BY <2>4 DEF UdpCountIsExact
<1>4. ASSUME from \in UdpPCs, to \notin UdpPCs,
             udpCount' = [udpCount EXCEPT ![u] = @ - 1]
      PROVE  UdpCountIsExact' /\ udpCount[u] > 0 /\ (udpCount[u] = 1 => Counted(u) = {a})
  <2>1. a \in Counted(u) /\ Counted(u)' = Counted(u) \ {a}
    BY <1>0, <1>4, CountsStay DEF Counted
  <2>2. /\ Cardinality(Counted(u)') = Cardinality(Counted(u)) - 1
        /\ Cardinality(Counted(u)) = 1 => Counted(u) = {a}
    BY <1>1, <2>1, OneLess
  <2>3. /\ udpCount'[u] = udpCount[u] - 1
        /\ \A v \in User : v # u => udpCount'[v] = udpCount[v]
    BY <1>0, <1>4
  <2> HIDE DEF u
  <2>4. \A v \in User : udpCount'[v] = Cardinality(Counted(v)')
    BY <1>0, <1>2, <2>2, <2>3 DEF UdpCountIsExact
  <2>5. Cardinality(Counted(u)) > 0
    BY <1>1, <2>1, FS_EmptySet
  <2> QED
    BY <1>0, <2>2, <2>4, <2>5 DEF UdpCountIsExact
<1> QED
  BY <1>3, <1>4

LEMMA IpCountStep ==
  ASSUME AssocTypeOK, IpCountIsExact, NEW a \in Assoc, NEW from \in Stages, NEW to \in Stages,
         Goto(a, from, to)
  PROVE  /\ /\ from \notin IpPCs /\ to \in IpPCs
            /\ ipCount' = [ipCount EXCEPT ![AddrOf[a]] = @ + 1]
            => IpCountIsExact'
         /\ /\ from \in IpPCs /\ to \notin IpPCs
            /\ ipCount' = [ipCount EXCEPT ![AddrOf[a]] = @ - 1]
            => IpCountIsExact' /\ ipCount[AddrOf[a]] > 0
<1> DEFINE k == AddrOf[a]
<1>0. k \in Address /\ ipCount \in [Address -> Nat] /\ stage[a] = from
  BY DEF AssocTypeOK, Goto, Address
<1>1. IsFiniteSet(Inside(k)) /\ Cardinality(Inside(k)) \in Nat
  BY <1>0, CountedFinite
<1>2. \A j \in Address : j # k => Inside(j)' = Inside(j)
  BY CountsStay DEF Inside
<1>3. ASSUME from \notin IpPCs, to \in IpPCs,
             ipCount' = [ipCount EXCEPT ![k] = @ + 1]
      PROVE  IpCountIsExact'
  <2>1. a \notin Inside(k) /\ Inside(k)' = Inside(k) \cup {a}
    BY <1>0, <1>3, CountsStay DEF Inside
  <2>2. Cardinality(Inside(k)') = Cardinality(Inside(k)) + 1
    BY <1>1, <2>1, OneMore
  <2>3. /\ ipCount'[k] = ipCount[k] + 1
        /\ \A j \in Address : j # k => ipCount'[j] = ipCount[j]
    BY <1>0, <1>3
  <2> HIDE DEF k
  <2>4. \A j \in Address : ipCount'[j] = Cardinality(Inside(j)')
    BY <1>0, <1>2, <2>2, <2>3 DEF IpCountIsExact
  <2> QED
    BY <2>4 DEF IpCountIsExact, Address
<1>4. ASSUME from \in IpPCs, to \notin IpPCs,
             ipCount' = [ipCount EXCEPT ![k] = @ - 1]
      PROVE  IpCountIsExact' /\ ipCount[k] > 0
  <2>1. a \in Inside(k) /\ Inside(k)' = Inside(k) \ {a}
    BY <1>0, <1>4, CountsStay DEF Inside
  <2>2. Cardinality(Inside(k)') = Cardinality(Inside(k)) - 1
    BY <1>1, <2>1, OneLess
  <2>3. /\ ipCount'[k] = ipCount[k] - 1
        /\ \A j \in Address : j # k => ipCount'[j] = ipCount[j]
    BY <1>0, <1>4
  <2> HIDE DEF k
  <2>4. \A j \in Address : ipCount'[j] = Cardinality(Inside(j)')
    BY <1>0, <1>2, <2>2, <2>3 DEF IpCountIsExact
  <2>5. Cardinality(Inside(k)) > 0
    BY <1>1, <2>1, FS_EmptySet
  <2>6. ipCount[k] > 0
    BY <1>0, <2>5 DEF IpCountIsExact
  <2> QED
    BY <2>4, <2>6 DEF IpCountIsExact, Address
<1> QED
  BY <1>3, <1>4

\* The counts of a step that does not touch them.
LEMMA CountsUntouched ==
  ASSUME AssocIInv, NEW a \in Assoc, NEW from \in Stages, NEW to \in Stages, Goto(a, from, to),
         UNCHANGED <<ipCount, udpCount>>,
         from \in UdpPCs <=> to \in UdpPCs, from \in IpPCs <=> to \in IpPCs
  PROVE  UdpCountIsExact' /\ IpCountIsExact'
<1>1. /\ \A u \in User : Counted(u)' = Counted(u)
      /\ \A k \in Address : Inside(k)' = Inside(k)
  BY CountsStay DEF AssocIInv
<1> QED
  BY <1>1 DEF AssocIInv, UdpCountIsExact, IpCountIsExact, Address

\* Every step of a request keeps the invariant.
LEMMA AssocStep ==
  ASSUME AssocIInv, NEW a \in Assoc, Step(a) \/ Again(a)
  PROVE  AssocIInv'
<1> DEFINE u == UserOf[a]
<1> USE DEF AssocIInv
<1>0. u \in User /\ u # None /\ None \notin Port
  BY RequestsAssumption
<1>1. CASE IncrIP(a)
  <2>1. Goto(a, "idle", "ip")
    BY <1>1 DEF IncrIP
  <2>2. IpCountIsExact'
    BY <1>1, <2>1, IpCountStep DEF IncrIP, IpPCs, Stages
  <2>3. UdpCountIsExact'
    BY <1>1, <2>1, CountsStay DEF IncrIP, UdpCountIsExact, UdpPCs, Stages
  <2>4. AssocTypeOK' /\ StoredListens' /\ ServerListens'
    BY <1>1 DEF IncrIP, Goto, AssocTypeOK, Stages, StoredListens, ServerListens, Address
  <2> QED
    BY <2>2, <2>3, <2>4
<1>2. CASE IncrUDP(a)
  <2>1. Goto(a, "ip", "load")
    BY <1>2 DEF IncrUDP
  <2>2. UdpCountIsExact'
    BY <1>2, <2>1, UdpCountStep DEF IncrUDP, UdpPCs, Stages
  <2>3. IpCountIsExact'
    BY <1>2, <2>1, CountsStay DEF IncrUDP, IpCountIsExact, IpPCs, Stages, Address
  <2>4. AssocTypeOK' /\ StoredListens' /\ ServerListens'
    BY <1>0, <1>2 DEF IncrUDP, Goto, AssocTypeOK, Stages, StoredListens, ServerListens
  <2> QED
    BY <2>2, <2>3, <2>4
<1>3. CASE LoadServer(a) \/ LoadNothing(a) \/ ReplyPort(a) \/ Leave(a) \/ ListenFails(a)
  <2>1. UdpCountIsExact' /\ IpCountIsExact'
    BY <1>3, CountsUntouched
    DEF LoadServer, LoadNothing, ReplyPort, Leave, ListenFails, Stages, UdpPCs, IpPCs
  <2>2. AssocTypeOK' /\ StoredListens'
    BY <1>0, <1>3 DEF LoadServer, LoadNothing, ReplyPort, Leave, ListenFails, Goto, AssocTypeOK, Stages,
                      StoredListens
  <2>3. ServerListens'
    BY <1>0, <1>3 DEF LoadServer, LoadNothing, ReplyPort, Leave, ListenFails, Goto, AssocTypeOK, Stages,
                      StoredListens, ServerListens
  <2> QED
    BY <2>1, <2>2, <2>3
<1>4. CASE Listen(a)
  <2>1. UdpCountIsExact' /\ IpCountIsExact'
    BY <1>4, CountsUntouched DEF Listen, Stages, UdpPCs, IpPCs
  <2>2. PICK p \in Port : /\ open[p] = None /\ open' = [open EXCEPT ![p] = u]
                          /\ server' = [server EXCEPT ![a] = p]
    BY <1>4 DEF Listen
  <2>3. AssocTypeOK'
    BY <1>0, <1>4, <2>2 DEF Listen, Goto, AssocTypeOK, Stages
  <2>4. StoredListens'
    BY <1>0, <1>4, <2>2, RequestsAssumption DEF Listen, AssocTypeOK, StoredListens
  <2>5. ServerListens'
    <3>1. \A b \in Assoc : stage[b] \in {"store", "reply", "live"}
                              => server[b] # p /\ server[b] \in Port
      BY <2>2, RequestsAssumption DEF ServerListens
    <3>2. stage'[a] = "store" /\ \A b \in Assoc : b # a => stage'[b] = stage[b]
      BY <1>4 DEF Listen, Goto, AssocTypeOK
    <3>3. /\ server'[a] = p /\ \A b \in Assoc : b # a => server'[b] = server[b]
          /\ open'[p] = u /\ \A q \in Port : q # p => open'[q] = open[q]
      BY <2>2 DEF AssocTypeOK
    <3> QED
      BY <3>1, <3>2, <3>3 DEF ServerListens
  <2> QED
    BY <2>1, <2>3, <2>4, <2>5
<1>5. CASE StoreServer(a)
  <2>1. UdpCountIsExact' /\ IpCountIsExact'
    BY <1>5, CountsUntouched DEF StoreServer, Stages, UdpPCs, IpPCs
  <2>2. AssocTypeOK' /\ ServerListens'
    BY <1>0, <1>5 DEF StoreServer, Goto, AssocTypeOK, Stages, ServerListens
  <2>3. udpCount[u] > 0
    <3>1. a \in Counted(u)
      BY <1>5 DEF StoreServer, Goto, Counted, UdpPCs
    <3> QED
      BY <1>0, <3>1, CountedFinite, FS_EmptySet DEF UdpCountIsExact
  <2>4. StoredListens'
    BY <1>0, <1>5, <2>3 DEF StoreServer, Goto, AssocTypeOK, StoredListens, ServerListens
  <2> QED
    BY <2>1, <2>2, <2>4
<1>6. CASE DecrUDP(a)
  <2>1. Goto(a, "decrUDP", "decrIP") /\ udpCount' = [udpCount EXCEPT ![u] = @ - 1]
    BY <1>6 DEF DecrUDP
  <2>2. UdpCountIsExact' /\ udpCount[u] > 0 /\ (udpCount[u] = 1 => Counted(u) = {a})
    BY <2>1, UdpCountStep DEF UdpPCs, Stages
  <2>3. IpCountIsExact'
    BY <1>6, <2>1, CountsStay DEF DecrUDP, IpCountIsExact, IpPCs, Stages, Address
  <2>4. udpCount' \in [User -> Nat]
    BY <1>0, <2>1, <2>2 DEF AssocTypeOK
  <2>5. CASE udpCount[u] = 1 /\ udpServers[u] # None
    <3>1. /\ open' = [open EXCEPT ![udpServers[u]] = None]
          /\ udpServers' = [udpServers EXCEPT ![u] = None]
          /\ UNCHANGED <<server, ipCount>>
      BY <1>6, <2>5 DEF DecrUDP
    <3>2. open[udpServers[u]] = u /\ udpServers[u] \in Port
      BY <1>0, <2>5 DEF StoredListens, AssocTypeOK
    <3>3. AssocTypeOK'
      <4>1. stage' \in [Assoc -> Stages]
        BY <2>1 DEF Goto, AssocTypeOK, Stages
      <4>2. open' \in [Port -> User \cup {None}] /\ udpServers' \in [User -> Port \cup {None}]
        BY <1>0, <3>1, <3>2 DEF AssocTypeOK
      <4> QED
        BY <2>4, <3>1, <4>1, <4>2 DEF AssocTypeOK
    <3>4. StoredListens'
      BY <1>0, <2>1, <3>1, <3>2 DEF AssocTypeOK, StoredListens
    <3>5. \A b \in Assoc : stage[b] \in {"store", "reply", "live"} => UserOf[b] # u
      BY <2>1, <2>2, <2>5 DEF Counted, UdpPCs, Goto
    <3>6. ServerListens'
      BY <2>1, <3>1, <3>2, <3>5 DEF Goto, AssocTypeOK, ServerListens
    <3> QED
      BY <2>2, <2>3, <3>3, <3>4, <3>6
  <2>6. CASE ~(udpCount[u] = 1 /\ udpServers[u] # None)
    <3>1. UNCHANGED <<server, ipCount, udpServers, open>>
      BY <1>6, <2>6 DEF DecrUDP
    <3>2. AssocTypeOK'
      BY <2>1, <2>4, <3>1 DEF Goto, AssocTypeOK, Stages
    <3>3. StoredListens' /\ ServerListens'
      BY <1>0, <2>1, <2>2, <2>6, <3>1 DEF Goto, AssocTypeOK, StoredListens, ServerListens
    <3> QED
      BY <2>2, <2>3, <3>2, <3>3
  <2> QED
    BY <2>5, <2>6
<1>7. CASE DecrIP(a)
  <2>1. Goto(a, "decrIP", "done")
    BY <1>7 DEF DecrIP
  <2>2. IpCountIsExact' /\ ipCount[AddrOf[a]] > 0
    BY <1>7, <2>1, IpCountStep DEF DecrIP, IpPCs, Stages
  <2>3. UdpCountIsExact'
    BY <1>7, <2>1, CountsStay DEF DecrIP, UdpCountIsExact, UdpPCs, Stages
  <2>4. AssocTypeOK' /\ StoredListens' /\ ServerListens'
    BY <1>7, <2>2 DEF DecrIP, Goto, AssocTypeOK, Stages, StoredListens, ServerListens, Address
  <2> QED
    BY <2>2, <2>3, <2>4
<1>8. CASE Again(a)
  <2>1. UdpCountIsExact' /\ IpCountIsExact'
    BY <1>8, CountsUntouched DEF Again, Stages, UdpPCs, IpPCs
  <2>2. AssocTypeOK' /\ StoredListens' /\ ServerListens'
    BY <1>8 DEF Again, Goto, AssocTypeOK, Stages, StoredListens, ServerListens
  <2> QED
    BY <2>1, <2>2
<1> QED
  BY <1>1, <1>2, <1>3, <1>4, <1>5, <1>6, <1>7, <1>8 DEF Step

LEMMA AssocStarts == AssocInit => AssocIInv
<1> SUFFICES ASSUME AssocInit PROVE AssocIInv
  OBVIOUS
<1>1. AssocTypeOK /\ StoredListens /\ ServerListens
  BY DEF AssocInit, AssocTypeOK, Stages, StoredListens, ServerListens
<1>2. /\ \A u \in User : Counted(u) = {}
      /\ \A k \in Address : Inside(k) = {}
  BY DEF AssocInit, Counted, Inside, UdpPCs, IpPCs
<1>3. UdpCountIsExact /\ IpCountIsExact
  BY <1>2, FS_EmptySet DEF AssocInit, UdpCountIsExact, IpCountIsExact
<1> QED
  BY <1>1, <1>3 DEF AssocIInv

LEMMA AssocIInvAlways == AssocSpec => []AssocIInv
<1>1. AssocInit => AssocIInv
  BY AssocStarts
<1>2. AssocIInv /\ [AssocNext]_assocVars => AssocIInv'
  <2> SUFFICES ASSUME AssocIInv, [AssocNext]_assocVars PROVE AssocIInv'
    OBVIOUS
  <2>1. CASE UNCHANGED assocVars
    BY <2>1 DEF assocVars, AssocIInv, AssocTypeOK, UdpCountIsExact, IpCountIsExact, StoredListens, ServerListens,
                Counted, Inside, Address
  <2> QED
    BY <2>1, AssocStep DEF AssocNext
<1> QED
  BY <1>1, <1>2, PTL DEF AssocSpec

\* The counts never go below zero and the maps hold what they should.
THEOREM UdpTypeCorrect == AssocSpec => []AssocTypeOK
  BY AssocIInvAlways, PTL DEF AssocIInv

\* An association that was told a port is served there by its own user's
\* server until it leaves.
THEOREM LiveAssociationsAreServed == AssocSpec => []LiveIsServed
<1>1. AssocIInv => LiveIsServed
  BY DEF AssocIInv, ServerListens, LiveIsServed
<1> QED
  BY <1>1, AssocIInvAlways, PTL

\* Datagrams are taken from an address exactly while a request from it is
\* being handled.
THEOREM AddressesAreKnown == AssocSpec => []AddressIsKnown
<1>1. AssocIInv => AddressIsKnown
  <2> SUFFICES ASSUME AssocIInv, NEW k \in Address
               PROVE  ipCount[k] > 0 <=> Inside(k) # {}
    BY DEF AssocIInv, AddressIsKnown, Inside, IpPCs, AssocTypeOK
  <2>1. ipCount[k] = Cardinality(Inside(k))
    BY DEF AssocIInv, IpCountIsExact
  <2> QED
    BY <2>1, CountedFinite, FS_EmptySet
<1> QED
  BY <1>1, AssocIInvAlways, PTL

\* The three, as the run checks them.
THEOREM AssociationsAreServed == AssocSpec => []AssociationInv
<1>1. AssocTypeOK /\ LiveIsServed /\ AddressIsKnown => AssociationInv
  BY DEF AssociationInv
<1> QED
  BY <1>1, UdpTypeCorrect, LiveAssociationsAreServed, AddressesAreKnown, PTL

\* A user without associations has no server to share.
THEOREM StoppedServersAreForgotten == AssocSpec => []StoppedIsForgotten
<1>1. AssocIInv => StoppedIsForgotten
  BY DEF AssocIInv, StoredListens, StoppedIsForgotten
<1> QED
  BY <1>1, AssocIInvAlways, PTL

(***************************************************************************)
(* Without the race every server is stopped: at most one request of the    *)
(* user opens a server at a time, none while there is one, and what        *)
(* listens is in userUDPServers or about to be put there.                  *)
(***************************************************************************)
OneOpens == \A u \in User \ raced : \A a, b \in Opening(u) : a = b
OpensOnlyFirst == \A u \in User \ raced : udpServers[u] # None => Opening(u) = {}
ListensIsKnown ==
  \A u \in User \ raced : \A p \in Port :
    open[p] = u => \/ udpServers[u] = p
                   \/ \E a \in Opening(u) : stage[a] = "store" /\ server[a] = p

LInv == OneOpens /\ OpensOnlyFirst /\ ListensIsKnown

\* The memory keeps up with the race.
LEMMA RaceIsSeen == LNext => OneOpens' /\ raced \subseteq raced'
<1> SUFFICES ASSUME LNext, NEW u \in User, u \notin raced', NEW a \in Opening(u)', NEW b \in Opening(u)'
             PROVE  a = b
  BY DEF OneOpens, LNext
<1>1. ~(Cardinality(Opening(u)') > 1)
  BY DEF LNext
<1>2. IsFiniteSet(Opening(u)') /\ {a, b} \in SUBSET (Opening(u)')
  BY RequestsAssumption, FS_Subset DEF Opening
<1>3. Cardinality({a, b}) <= Cardinality(Opening(u)') /\ Cardinality(Opening(u)') \in Nat
  BY <1>2, FS_Subset, FS_CardinalityType
<1>4. ASSUME a # b PROVE Cardinality({a, b}) = 2
  <2>1. IsFiniteSet({b}) /\ Cardinality({b}) = 1 /\ a \notin {b}
    BY <1>4, FS_Singleton, FS_EmptySet, FS_AddElement
  <2>2. {b} \cup {a} = {a, b}
    OBVIOUS
  <2> QED
    BY <2>1, <2>2, OneMore
<1> QED
  BY <1>1, <1>3, <1>4

\* A request that opens a server is counted.
LEMMA OpeningIsCounted ==
  ASSUME AssocIInv, NEW u \in User
  PROVE  /\ Opening(u) \subseteq Counted(u)
         /\ udpCount[u] = 0 => Opening(u) = {}
<1>1. Opening(u) \subseteq Counted(u)
  BY DEF Opening, Counted, UdpPCs
<1> QED
  BY <1>1, CountedFinite, FS_EmptySet DEF AssocIInv, UdpCountIsExact

\* Every step keeps this.
LEMMA LInvStep ==
  ASSUME AssocIInv, LInv, OneOpens', raced \subseteq raced', NEW a \in Assoc, Step(a) \/ Again(a)
  PROVE  LInv'
<1> DEFINE u == UserOf[a]
<1> USE DEF AssocIInv, LInv
<1>0. u \in User /\ u # None /\ None \notin Port /\ stage \in [Assoc -> Stages]
      /\ server \in [Assoc -> Port \cup {None}]
      /\ udpServers \in [User -> Port \cup {None}] /\ open \in [Port -> User \cup {None}]
  BY RequestsAssumption DEF AssocTypeOK
<1>1. CASE \/ IncrIP(a) \/ IncrUDP(a) \/ LoadServer(a) \/ ReplyPort(a) \/ Leave(a) \/ DecrIP(a)
           \/ Again(a)
  <2>1. \A v \in User : Opening(v)' = Opening(v)
    BY <1>0, <1>1 DEF IncrIP, IncrUDP, LoadServer, ReplyPort, Leave, DecrIP, Again, Goto, Opening
  <2>2. /\ UNCHANGED <<open, udpServers>>
        /\ \A b \in Assoc : stage[b] = "store" => stage'[b] = "store" /\ server'[b] = server[b]
    BY <1>0, <1>1 DEF IncrIP, IncrUDP, LoadServer, ReplyPort, Leave, DecrIP, Again, Goto
  <2>3. OpensOnlyFirst'
    BY <2>1, <2>2 DEF OpensOnlyFirst
  <2>4. ListensIsKnown'
    BY <2>1, <2>2 DEF ListensIsKnown, Opening
  <2> QED
    BY <2>3, <2>4
<1>2. CASE LoadNothing(a)
  <2>1. \A v \in User : v # u => Opening(v)' = Opening(v)
    BY <1>0, <1>2 DEF LoadNothing, Goto, Opening
  <2>2. Opening(u) \subseteq Opening(u)'
        /\ \A b \in Assoc : stage[b] = "store" => stage'[b] = "store" /\ server'[b] = server[b]
    BY <1>0, <1>2 DEF LoadNothing, Goto, Opening
  <2>3. udpServers[u] = None /\ UNCHANGED <<open, udpServers>>
    BY <1>2 DEF LoadNothing
  <2>4. OpensOnlyFirst'
    BY <2>1, <2>3 DEF OpensOnlyFirst
  <2>5. ListensIsKnown'
    BY <2>1, <2>2, <2>3 DEF ListensIsKnown, Opening
  <2> QED
    BY <2>4, <2>5
<1>3. CASE ListenFails(a)
  <2>1. \A v \in User : Opening(v)' \subseteq Opening(v)
    BY <1>0, <1>3 DEF ListenFails, Goto, Opening
  <2>2. /\ UNCHANGED <<open, udpServers, server>> /\ stage[a] = "listen"
        /\ \A b \in Assoc : stage[b] = "store" => stage'[b] = "store"
    BY <1>0, <1>3 DEF ListenFails, Goto
  <2>3. OpensOnlyFirst'
    BY <2>1, <2>2 DEF OpensOnlyFirst
  <2>4. ListensIsKnown'
    BY <2>2 DEF ListensIsKnown, Opening
  <2> QED
    BY <2>3, <2>4
<1>4. CASE Listen(a)
  <2>1. \A v \in User : Opening(v)' = Opening(v)
    BY <1>0, <1>4 DEF Listen, Goto, Opening
  <2>2. PICK p \in Port : /\ open[p] = None /\ open' = [open EXCEPT ![p] = u]
                          /\ server' = [server EXCEPT ![a] = p]
    BY <1>4 DEF Listen
  <2>3. OpensOnlyFirst'
    BY <1>4, <2>1 DEF Listen, OpensOnlyFirst
  <2>4. stage[a] = "listen" /\ stage'[a] = "store" /\ server'[a] = p /\ a \in Opening(u)' /\ udpServers' = udpServers
        /\ \A b \in Assoc : stage[b] = "store" => stage'[b] = "store" /\ server'[b] = server[b]
    BY <1>0, <1>4, <2>2 DEF Listen, Goto, Opening
  <2>5. ListensIsKnown'
    <3> SUFFICES ASSUME NEW v \in User, v \notin raced', NEW q \in Port, open'[q] = v
                 PROVE  \/ udpServers'[v] = q
                        \/ \E b \in Opening(v)' : stage'[b] = "store" /\ server'[b] = q
      BY DEF ListensIsKnown
    <3>1. CASE q = p
      BY <1>0, <2>2, <2>4, <3>1
    <3>2. CASE q # p
      BY <1>0, <2>1, <2>2, <2>4, <3>2 DEF ListensIsKnown, Opening
    <3> QED
      BY <3>1, <3>2
  <2> QED
    BY <2>3, <2>5
<1>5. CASE StoreServer(a)
  <2>1. /\ stage[a] = "store" /\ stage' = [stage EXCEPT ![a] = "reply"]
        /\ udpServers' = [udpServers EXCEPT ![u] = server[a]]
        /\ UNCHANGED <<server, open>>
    BY <1>5 DEF StoreServer, Goto
  <2>2. \A v \in User : v # u => Opening(v)' = Opening(v)
    BY <1>0, <2>1 DEF Opening
  <2>3. u \notin raced => Opening(u) = {a} /\ Opening(u)' = {} /\ udpServers[u] = None
    BY <1>0, <2>1 DEF OneOpens, OpensOnlyFirst, Opening
  <2>4. OpensOnlyFirst'
    BY <1>0, <2>1, <2>2, <2>3 DEF OpensOnlyFirst
  <2>5. ListensIsKnown'
    <3> SUFFICES ASSUME NEW v \in User, v \notin raced', NEW q \in Port, open[q] = v
                 PROVE  \/ udpServers'[v] = q
                        \/ \E b \in Opening(v)' : stage'[b] = "store" /\ server[b] = q
      BY <2>1 DEF ListensIsKnown
    <3>1. CASE v = u
      BY <1>0, <2>1, <2>3, <3>1 DEF ListensIsKnown
    <3>2. CASE v # u
      BY <1>0, <2>1, <2>2, <3>2 DEF ListensIsKnown, Opening
    <3> QED
      BY <3>1, <3>2
  <2> QED
    BY <2>4, <2>5
<1>6. CASE DecrUDP(a)
  <2>1. Goto(a, "decrUDP", "decrIP") /\ udpCount' = [udpCount EXCEPT ![u] = @ - 1]
        /\ UNCHANGED server
    BY <1>6 DEF DecrUDP
  <2>2. udpCount[u] = 1 => Opening(u) = {}
    <3>1. udpCount[u] = 1 => Counted(u) = {a}
      BY <2>1, UdpCountStep DEF UdpPCs, Stages
    <3> QED
      BY <1>0, <2>1, <3>1, OpeningIsCounted DEF Opening, Goto
  <2>3. /\ \A v \in User : Opening(v)' = Opening(v)
        /\ \A b \in Assoc : stage[b] = "store" <=> stage'[b] = "store"
    BY <1>0, <2>1 DEF Goto, Opening
  <2>4. CASE udpCount[u] = 1 /\ udpServers[u] # None
    <3>1. /\ open' = [open EXCEPT ![udpServers[u]] = None]
          /\ udpServers' = [udpServers EXCEPT ![u] = None]
      BY <1>6, <2>4 DEF DecrUDP
    <3>2. OpensOnlyFirst'
      BY <1>0, <2>3, <3>1 DEF OpensOnlyFirst
    <3>3. ListensIsKnown'
      <4> SUFFICES ASSUME NEW v \in User, v \notin raced', NEW q \in Port, open'[q] = v
                   PROVE  \/ udpServers'[v] = q
                          \/ \E b \in Opening(v)' : stage'[b] = "store" /\ server[b] = q
        BY <2>1 DEF ListensIsKnown
      <4>1. open[q] = v /\ q # udpServers[u]
        BY <1>0, <2>4, <3>1, RequestsAssumption
      <4> QED
        BY <1>0, <2>2, <2>3, <2>4, <3>1, <4>1 DEF ListensIsKnown, Opening
    <3> QED
      BY <3>2, <3>3
  <2>5. CASE ~(udpCount[u] = 1 /\ udpServers[u] # None)
    <3>1. UNCHANGED <<udpServers, open>>
      BY <1>6, <2>5 DEF DecrUDP
    <3> QED
      BY <2>1, <2>3, <3>1 DEF OpensOnlyFirst, ListensIsKnown, Opening
  <2> QED
    BY <2>4, <2>5
<1> QED
  BY <1>1, <1>2, <1>3, <1>4, <1>5, <1>6 DEF Step

\* When a user's last association has left, none of the user's UDP servers
\* listens, unless two of the user's requests once opened one together.
THEOREM ServersGetStopped == LSpec => []ServersAreStopped
<1>1. LInit => AssocIInv /\ LInv
  <2>1. AssocInit => AssocIInv
    BY AssocStarts
  <2> QED
    BY <2>1, RequestsAssumption DEF LInit, AssocInit, LInv, OneOpens, OpensOnlyFirst, ListensIsKnown, Opening
<1>2. AssocIInv /\ LInv /\ [LNext]_<<assocVars, raced>> => (AssocIInv /\ LInv)'
  <2> SUFFICES ASSUME AssocIInv, LInv, [LNext]_<<assocVars, raced>> PROVE (AssocIInv /\ LInv)'
    OBVIOUS
  <2>1. CASE LNext
    BY <2>1, AssocStep, RaceIsSeen, LInvStep DEF LNext, AssocNext
  <2>2. CASE UNCHANGED <<assocVars, raced>>
    BY <2>2 DEF assocVars, AssocIInv, AssocTypeOK, UdpCountIsExact, IpCountIsExact, StoredListens, ServerListens,
                Counted, Inside, Address, LInv, OneOpens, OpensOnlyFirst, ListensIsKnown, Opening
  <2> QED
    BY <2>1, <2>2
<1>3. AssocIInv /\ LInv => ServersAreStopped
  BY OpeningIsCounted, RequestsAssumption
  DEF LInv, ListensIsKnown, ServersAreStopped, AssocIInv, StoredListens
<1> QED
  BY <1>1, <1>2, <1>3, PTL DEF LSpec
=============================================================================
