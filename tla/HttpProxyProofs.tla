--------------------------- MODULE HttpProxyProofs ---------------------------
(* Proofs about HttpProxy and BrowserTunnels, for any numbers of requests,  *)
(* websockets, browsers and addresses and bodies of any length: what a user *)
(* is given, which requests wait for a response, and which browsers are     *)
(* registered and online.                                                   *)
EXTENDS HttpProxy, BrowserTunnels, SequenceTheorems, FiniteSetTheorems, TLAPS

-----------------------------------------------------------------------------
(* The inductive invariant.  What the browser has sent of a response and   *)
(* the proxy has not read is in order; and until something goes wrong, it  *)
(* continues what the user was given, without a gap.                       *)

\* The headers are item 0 of a response, the items of the body come after.
ItemOf(m, r) == m.req = r /\ m.type \in {"headers", "data"}
Num(m)       == IF m.type = "headers" THEN 0 ELSE m.n

\* How many items there are up to the last one sent.
Sent(b) == IF b.state \in {"none", "asked"} THEN 0 ELSE b.sent + 1

\* The items of r in a queue are in order; those of the body come after the
\* n-th, and all before the m-th.
Ordered(q, r, n, m) ==
  /\ \A i, j \in DOMAIN q : i < j /\ ItemOf(q[i], r) /\ ItemOf(q[j], r) => Num(q[i]) < Num(q[j])
  /\ \A i \in DOMAIN q : ItemOf(q[i], r) =>
       Num(q[i]) < m /\ (q[i].type = "data" => n < q[i].n)

\* They are those from the n-th to the one before the m-th.
Whole(q, r, n, m) ==
  /\ \A i \in DOMAIN q : ItemOf(q[i], r) => n <= Num(q[i])
  /\ \A k \in n..m - 1 : \E j \in DOMAIN q : ItemOf(q[j], r) /\ Num(q[j]) = k

\* A browser sends what it has announced.
Responding(r) ==
  LET b == browser[r] IN
  /\ received[r] <= b.sent
  /\ b.len <= MaxBody[r] /\ b.declared <= MaxBody[r] + 1 /\ b.sent <= b.len
  /\ b.state \in {"none", "asked"} => b.sent = 0
  /\ b.state = "body" => b.sent < b.len

\* Messages are those of requests that were sent on this websocket.
Addressed(t, m) ==
  /\ Tun(m.req) = t /\ browser[m.req].state # "none"
  /\ m.type = "headers" => m.n = browser[m.req].declared
  /\ m.type = "error" => browser[m.req].state = "failed"

\* Where the goroutine of a request is says what may have happened to it.
Placed(r) ==
  /\ handler[r].pc = "pick" => Tun(r) = NoTun
  /\ handler[r].pc \in {"store", "write", "proxy", "delete"} => Tun(r) \in Tunnel
  /\ handler[r].pc \in {"pick", "store", "write"} =>
       browser[r].state = "none" /\ conn[r] = "open" /\ got[r] = <<>> /\ received[r] = 0
  /\ browser[r].state # "none" => Tun(r) \in Tunnel
  /\ browser[r].state \in {"none", "asked"} /\ conn[r] = "closed" /\ Tun(r) # NoTun =>
       left[r] \/ sock[Tun(r)] # "open"
  /\ handler[r].pc \in {"write", "proxy"} /\ conn[r] = "open" => r \in reqs[Tun(r)]
  /\ handler[r].pc \in {"delete", "close", "done"} /\ Tun(r) # NoTun =>
       left[r] \/ conn[r] = "closed" \/ sock[Tun(r)] # "open"

\* Nothing has gone wrong yet, and the response goes on.
Going(r) ==
  /\ Tun(r) # NoTun /\ sock[Tun(r)] = "open" /\ conn[r] = "open" /\ ~left[r]
  /\ browser[r].state # "failed"

Flows(r) ==
  /\ \A i \in DOMAIN got[r] : got[r][i] = i - 1
  /\ received[r] = (IF got[r] = <<>> THEN 0 ELSE Len(got[r]) - 1)
  /\ got[r] # <<>> => length[r] = browser[r].declared
  /\ Len(got[r]) <= Sent(browser[r])
  /\ Whole(down[Tun(r)], r, Len(got[r]), Sent(browser[r]))

\* ReqsAreLive and ClosedIsWhole, of one request.
Live(r) ==
  \A t \in Tunnel : r \in reqs[t] => Tun(r) = t /\ handler[r].pc \in {"write", "proxy", "delete"}

Given(r) ==
  /\ conn[r] = "closed" /\ ~left[r]
  /\ Tun(r) # NoTun /\ sock[Tun(r)] = "open"
  /\ browser[r].state # "failed" /\ browser[r].declared = browser[r].len
  => got[r] = [i \in 1..(browser[r].len + 1) |-> i - 1]

RequestInv(r) ==
  /\ Placed(r) /\ Responding(r)
  /\ \A t \in Tunnel : Ordered(down[t], r, received[r], Sent(browser[r]))
  /\ Going(r) => Flows(r)
  /\ Live(r) /\ Given(r)

Arrived == \A t \in Tunnel : \A i \in DOMAIN down[t] : Addressed(t, down[t][i])

ResponsesInv == RequestsTypeOK /\ Arrived /\ \A r \in Request : RequestInv(r)

-----------------------------------------------------------------------------
(* Items in a queue.                                                       *)

\* Bounds follow one another.
LEMMA AtMost ==
  ASSUME NEW a \in Nat, NEW b \in Nat, NEW c \in Nat, a <= b, b <= c
  PROVE  a <= c
OBVIOUS

LEMMA ItemNumbers ==
  ASSUME NEW q \in Seq(Message), NEW i \in DOMAIN q
  PROVE  q[i] \in Message /\ q[i].n \in Nat /\ Num(q[i]) \in Nat
<1>1. q[i] \in Message
  OBVIOUS
<1> QED
  BY <1>1 DEF Message, Num

\* A message that is read leaves the rest in order; of other requests', whole.
LEMMA ReadKeepsOrder ==
  ASSUME NEW q \in Seq(Message), q # <<>>, NEW r \in Request, NEW n \in Nat, NEW m \in Nat,
         Ordered(q, r, n, m)
  PROVE  Ordered(Tail(q), r, n, m)
<1>1. DOMAIN Tail(q) = 1..Len(q) - 1 /\ \A i \in DOMAIN Tail(q) : Tail(q)[i] = q[i + 1] /\ i + 1 \in DOMAIN q
  OBVIOUS
<1>2. ASSUME NEW i \in DOMAIN Tail(q), NEW j \in DOMAIN Tail(q), i < j,
             ItemOf(Tail(q)[i], r), ItemOf(Tail(q)[j], r)
      PROVE  Num(Tail(q)[i]) < Num(Tail(q)[j])
  <2>1. i + 1 \in DOMAIN q /\ j + 1 \in DOMAIN q /\ i + 1 < j + 1
    BY <1>1, <1>2
  <2> QED
    BY <1>1, <1>2, <2>1 DEF Ordered
<1>3. ASSUME NEW i \in DOMAIN Tail(q), ItemOf(Tail(q)[i], r)
      PROVE  Num(Tail(q)[i]) < m /\ (Tail(q)[i].type = "data" => n < Tail(q)[i].n)
  BY <1>1, <1>3 DEF Ordered
<1> QED
  BY <1>2, <1>3 DEF Ordered

LEMMA ReadKeepsOthers ==
  ASSUME NEW q \in Seq(Message), q # <<>>, NEW r \in Request, NEW n \in Nat, NEW m \in Nat,
         Whole(q, r, n, m), ~ItemOf(Head(q), r)
  PROVE  Whole(Tail(q), r, n, m)
<1>1. DOMAIN Tail(q) = 1..Len(q) - 1 /\ \A i \in DOMAIN Tail(q) : Tail(q)[i] = q[i + 1] /\ i + 1 \in DOMAIN q
  OBVIOUS
<1>2. ASSUME NEW i \in DOMAIN Tail(q), ItemOf(Tail(q)[i], r) PROVE n <= Num(Tail(q)[i])
  BY <1>1, <1>2 DEF Whole
<1>3. ASSUME NEW k \in n..m - 1 PROVE \E j \in DOMAIN Tail(q) : ItemOf(Tail(q)[j], r) /\ Num(Tail(q)[j]) = k
  <2>1. PICK j \in DOMAIN q : ItemOf(q[j], r) /\ Num(q[j]) = k
    BY <1>3 DEF Whole
  <2>2. j # 1 /\ j \in 1..Len(q)
    BY <2>1
  <2>3. j - 1 \in DOMAIN Tail(q) /\ Tail(q)[j - 1] = q[j]
    BY <1>1, <2>2
  <2> QED
    BY <2>1, <2>3
<1> QED
  BY <1>2, <1>3 DEF Whole

\* The first item of a whole queue is the next one, and the rest continues it.
LEMMA ReadsNext ==
  ASSUME NEW q \in Seq(Message), q # <<>>, NEW r \in Request,
         NEW n \in Nat, NEW m \in Nat, NEW l \in Nat,
         Ordered(q, r, n, m), Whole(q, r, l, m), ItemOf(Head(q), r)
  PROVE  Num(Head(q)) = l /\ l < m /\ Whole(Tail(q), r, l + 1, m)
<1>1. DOMAIN Tail(q) = 1..Len(q) - 1 /\ \A i \in DOMAIN Tail(q) : Tail(q)[i] = q[i + 1] /\ i + 1 \in DOMAIN q
  OBVIOUS
<1>2. 1 \in DOMAIN q /\ Head(q) = q[1] /\ DOMAIN q = 1..Len(q) /\ Len(q) \in Nat
  OBVIOUS
<1>3. l <= Num(q[1]) /\ Num(q[1]) < m /\ Num(q[1]) \in Nat
  BY <1>2, ItemNumbers DEF Ordered, Whole
<1>4. Num(q[1]) = l
  <2>1. PICK j \in DOMAIN q : ItemOf(q[j], r) /\ Num(q[j]) = l
    BY <1>3 DEF Whole
  <2>2. j # 1 => Num(q[1]) < Num(q[j])
    BY <1>2, <2>1 DEF Ordered
  <2> QED
    BY <1>3, <2>1, <2>2
<1>5. ASSUME NEW i \in DOMAIN Tail(q), ItemOf(Tail(q)[i], r) PROVE l + 1 <= Num(Tail(q)[i])
  <2>1. i + 1 \in DOMAIN q /\ 1 < i + 1 /\ Tail(q)[i] = q[i + 1]
    BY <1>1
  <2>2. Num(q[1]) < Num(q[i + 1]) /\ Num(q[i + 1]) \in Nat
    BY <1>2, <1>5, <2>1, ItemNumbers DEF Ordered
  <2> QED
    BY <1>4, <2>1, <2>2
<1>6. ASSUME NEW k \in l + 1..m - 1 PROVE \E j \in DOMAIN Tail(q) : ItemOf(Tail(q)[j], r) /\ Num(Tail(q)[j]) = k
  <2>1. PICK j \in DOMAIN q : ItemOf(q[j], r) /\ Num(q[j]) = k
    <3>1. k \in l..m - 1
      OBVIOUS
    <3> QED
      BY <3>1 DEF Whole
  <2>2. j # 1 /\ j \in 1..Len(q)
    BY <1>2, <1>4, <2>1
  <2>3. j - 1 \in DOMAIN Tail(q) /\ Tail(q)[j - 1] = q[j]
    BY <1>1, <1>2, <2>2
  <2> QED
    BY <2>1, <2>3
<1> QED
  BY <1>2, <1>3, <1>4, <1>5, <1>6 DEF Whole

\* After an item of the body is read, those that follow come after it.
LEMMA ReadOrders ==
  ASSUME NEW q \in Seq(Message), q # <<>>, NEW r \in Request, NEW n \in Nat, NEW m \in Nat,
         Ordered(q, r, n, m), Head(q).req = r, Head(q).type = "data"
  PROVE  n < Head(q).n /\ Head(q).n < m /\ Ordered(Tail(q), r, n + 1, m)
<1>1. DOMAIN Tail(q) = 1..Len(q) - 1 /\ \A i \in DOMAIN Tail(q) : Tail(q)[i] = q[i + 1] /\ i + 1 \in DOMAIN q
  OBVIOUS
<1>2. 1 \in DOMAIN q /\ Head(q) = q[1] /\ ItemOf(q[1], r) /\ Num(q[1]) = q[1].n /\ q[1].n \in Nat
  BY ItemNumbers DEF ItemOf, Num
<1>3. n < q[1].n /\ q[1].n < m
  BY <1>2 DEF Ordered
<1>4. Ordered(Tail(q), r, n, m)
  BY ReadKeepsOrder
<1>5. ASSUME NEW i \in DOMAIN Tail(q), ItemOf(Tail(q)[i], r), Tail(q)[i].type = "data"
      PROVE  n + 1 < Tail(q)[i].n
  <2>1. i + 1 \in DOMAIN q /\ 1 < i + 1 /\ Tail(q)[i] = q[i + 1]
    BY <1>1
  <2>2. Num(q[1]) < Num(q[i + 1]) /\ q[i + 1].n \in Nat
    BY <1>2, <1>5, <2>1, ItemNumbers DEF Ordered
  <2>3. Num(q[i + 1]) = q[i + 1].n
    BY <1>5, <2>1 DEF Num
  <2> QED
    BY <1>2, <1>3, <2>1, <2>2, <2>3
<1> QED
  BY <1>2, <1>3, <1>4, <1>5 DEF Ordered

\* A message is sent: another request's, or one that is no item.
LEMMA SendKeeps ==
  ASSUME NEW q \in Seq(Message), NEW msg \in Message, NEW r \in Request, ~ItemOf(msg, r)
  PROVE  /\ \A n, m, k \in Nat : Ordered(q, r, n, m) /\ m <= k => Ordered(Append(q, msg), r, n, k)
         /\ \A n, m \in Nat : Whole(q, r, n, m) => Whole(Append(q, msg), r, n, m)
<1> DEFINE a == Append(q, msg)
<1>1. DOMAIN a = 1..Len(q) + 1 /\ DOMAIN q = 1..Len(q) /\ Len(q) \in Nat
  OBVIOUS
<1>2. \A i \in DOMAIN a : ItemOf(a[i], r) => i \in DOMAIN q
  BY <1>1
<1>3. \A i \in DOMAIN q : i \in DOMAIN a /\ a[i] = q[i]
  BY <1>1
<1>4. \A i \in DOMAIN q : Num(q[i]) \in Nat
  BY ItemNumbers
<1> HIDE DEF a
<1>5. ASSUME NEW n \in Nat, NEW m \in Nat, NEW k \in Nat, Ordered(q, r, n, m), m <= k
      PROVE  Ordered(a, r, n, k)
  <2>1. \A i, j \in DOMAIN a : i < j /\ ItemOf(a[i], r) /\ ItemOf(a[j], r) => Num(a[i]) < Num(a[j])
    BY <1>2, <1>3, <1>5 DEF Ordered
  <2>2. ASSUME NEW i \in DOMAIN a, ItemOf(a[i], r)
        PROVE  Num(a[i]) < k /\ (a[i].type = "data" => n < a[i].n)
    <3>1. i \in DOMAIN q /\ a[i] = q[i] /\ Num(q[i]) \in Nat
      BY <1>2, <1>3, <1>4, <2>2
    <3>2. Num(q[i]) < m /\ (q[i].type = "data" => n < q[i].n)
      BY <1>5, <2>2, <3>1 DEF Ordered
    <3> QED
      BY <1>5, <3>1, <3>2
  <2> QED
    BY <2>1, <2>2 DEF Ordered
<1>6. ASSUME NEW n \in Nat, NEW m \in Nat, Whole(q, r, n, m) PROVE Whole(a, r, n, m)
  <2>1. \A i \in DOMAIN a : ItemOf(a[i], r) => n <= Num(a[i])
    BY <1>2, <1>3, <1>6 DEF Whole
  <2>2. \A k \in n..m - 1 : \E j \in DOMAIN a : ItemOf(a[j], r) /\ Num(a[j]) = k
    BY <1>3, <1>6 DEF Whole
  <2> QED
    BY <2>1, <2>2 DEF Whole
<1> QED
  BY <1>5, <1>6 DEF a

LEMMA MoreToCome ==
  ASSUME NEW q \in Seq(Message), NEW r \in Request, NEW n \in Nat, NEW m \in Nat, NEW k \in Nat,
         Ordered(q, r, n, m), m <= k
  PROVE  Ordered(q, r, n, k)
<1>1. \A i \in DOMAIN q : Num(q[i]) \in Nat
  BY ItemNumbers
<1>2. ASSUME NEW i \in DOMAIN q, ItemOf(q[i], r)
      PROVE  Num(q[i]) < k /\ (q[i].type = "data" => n < q[i].n)
  <2>1. Num(q[i]) < m /\ Num(q[i]) \in Nat /\ (q[i].type = "data" => n < q[i].n)
    BY <1>1, <1>2 DEF Ordered
  <2> QED
    BY <2>1
<1> QED
  BY <1>2 DEF Ordered

\* The next item of a response is sent.
LEMMA SendsNext ==
  ASSUME NEW q \in Seq(Message), NEW msg \in Message, NEW r \in Request, NEW n \in Nat, NEW m \in Nat,
         ItemOf(msg, r), Num(msg) = m, msg.type = "data" => n < m, Ordered(q, r, n, m)
  PROVE  /\ Ordered(Append(q, msg), r, n, m + 1)
         /\ \A l \in Nat : Whole(q, r, l, m) /\ l <= m => Whole(Append(q, msg), r, l, m + 1)
<1> DEFINE a == Append(q, msg)
<1>1. DOMAIN a = 1..Len(q) + 1 /\ DOMAIN q = 1..Len(q) /\ Len(q) \in Nat
  OBVIOUS
<1>2. /\ \A i \in DOMAIN a : i \in DOMAIN q \/ i = Len(q) + 1
      /\ \A i \in DOMAIN q : i \in DOMAIN a /\ a[i] = q[i] /\ i < Len(q) + 1
      /\ Len(q) + 1 \in DOMAIN a /\ a[Len(q) + 1] = msg
  BY <1>1
<1>3. \A i \in DOMAIN q : Num(q[i]) \in Nat
  BY ItemNumbers
<1>4. msg.type = "data" => msg.n = m
  BY DEF Num
<1> HIDE DEF a
<1>5. ASSUME NEW i \in DOMAIN a, NEW j \in DOMAIN a, i < j, ItemOf(a[i], r), ItemOf(a[j], r)
      PROVE  Num(a[i]) < Num(a[j])
  <2>1. i \in DOMAIN q
    BY <1>1, <1>5
  <2>2. CASE j \in DOMAIN q
    BY <1>2, <1>5, <2>1, <2>2 DEF Ordered
  <2>3. CASE j = Len(q) + 1
    BY <1>2, <1>5, <2>1, <2>3 DEF Ordered
  <2> QED
    BY <1>2, <2>2, <2>3
<1>6. ASSUME NEW i \in DOMAIN a, ItemOf(a[i], r)
      PROVE  Num(a[i]) < m + 1 /\ (a[i].type = "data" => n < a[i].n)
  <2>1. CASE i \in DOMAIN q
    <3>1. Num(q[i]) < m /\ Num(q[i]) \in Nat /\ (q[i].type = "data" => n < q[i].n) /\ a[i] = q[i]
      BY <1>2, <1>3, <1>6, <2>1 DEF Ordered
    <3> QED
      BY <3>1
  <2>2. CASE i = Len(q) + 1
    BY <1>2, <1>4, <2>2
  <2> QED
    BY <1>2, <2>1, <2>2
<1>7. ASSUME NEW l \in Nat, Whole(q, r, l, m), l <= m PROVE Whole(a, r, l, m + 1)
  <2>1. \A i \in DOMAIN a : ItemOf(a[i], r) => l <= Num(a[i])
    BY <1>2, <1>7 DEF Whole
  <2>2. ASSUME NEW k \in l..m + 1 - 1 PROVE \E j \in DOMAIN a : ItemOf(a[j], r) /\ Num(a[j]) = k
    <3>1. CASE k = m
      BY <1>2, <3>1
    <3>2. CASE k # m
      <4>1. k \in l..m - 1
        BY <3>2
      <4> QED
        BY <1>2, <1>7, <4>1 DEF Whole
    <3> QED
      BY <3>1, <3>2
  <2> QED
    BY <2>1, <2>2 DEF Whole
<1> QED
  BY <1>5, <1>6, <1>7 DEF Ordered, a

\* Of a websocket that breaks, what has arrived is a first part.
LEMMA CutKeepsOrder ==
  ASSUME NEW q \in Seq(Message), NEW k \in 0..Len(q), NEW r \in Request, NEW n \in Nat, NEW m \in Nat,
         Ordered(q, r, n, m)
  PROVE  Ordered(SubSeq(q, 1, k), r, n, m)
<1> DEFINE c == SubSeq(q, 1, k)
<1>1. \A i \in DOMAIN c : i \in DOMAIN q /\ c[i] = q[i]
  OBVIOUS
<1> HIDE DEF c
<1>2. \A i, j \in DOMAIN c : i < j /\ ItemOf(c[i], r) /\ ItemOf(c[j], r) => Num(c[i]) < Num(c[j])
  BY <1>1 DEF Ordered
<1>3. \A i \in DOMAIN c : ItemOf(c[i], r) => Num(c[i]) < m /\ (c[i].type = "data" => n < c[i].n)
  BY <1>1 DEF Ordered
<1>4. Ordered(c, r, n, m)
  BY <1>2, <1>3 DEF Ordered
<1> QED
  BY <1>4 DEF c

-----------------------------------------------------------------------------
(* A step keeps the invariant of a request that it does not concern.       *)

\* Of r, a step leaves everything but the messages to others, and websockets
\* at most break.
Untouched(r) ==
  /\ handler'[r] = handler[r] /\ received'[r] = received[r] /\ length'[r] = length[r]
  /\ conn'[r] = conn[r] /\ left'[r] = left[r] /\ got'[r] = got[r] /\ browser'[r] = browser[r]
  /\ \A t \in Tunnel :
       /\ sock'[t] = "open" => sock[t] = "open"
       /\ r \in reqs'[t] <=> r \in reqs[t]
       /\ \A n, m \in Nat : Ordered(down[t], r, n, m) => Ordered(down'[t], r, n, m)
       /\ \A n, m \in Nat : sock'[t] = "open" /\ Whole(down[t], r, n, m) => Whole(down'[t], r, n, m)

LEMMA SentIsNat ==
  ASSUME NEW b \in [state : BrowserState, len : Nat, declared : Nat, sent : Nat]
  PROVE  Sent(b) \in Nat
BY DEF Sent

LEMMA Numbers ==
  ASSUME RequestsTypeOK, NEW r \in Request
  PROVE  /\ received[r] \in Nat /\ length[r] \in Nat /\ Sent(browser[r]) \in Nat
         /\ got[r] \in Seq(Nat) /\ Len(got[r]) \in Nat /\ MaxBody[r] \in Nat
         /\ browser[r].len \in Nat /\ browser[r].declared \in Nat /\ browser[r].sent \in Nat
         /\ \A t \in Tunnel : down[t] \in Seq(Message)
<1>1. browser[r] \in [state : BrowserState, len : Nat, declared : Nat, sent : Nat] /\ got[r] \in Seq(Nat)
  BY DEF RequestsTypeOK
<1> QED
  BY <1>1, SentIsNat, BodyAssumption DEF RequestsTypeOK

LEMMA UntouchedKeeps ==
  ASSUME RequestsTypeOK, NEW r \in Request, RequestInv(r), Untouched(r)
  PROVE  RequestInv(r)'
<1>1. /\ received[r] \in Nat /\ Sent(browser[r]) \in Nat /\ Len(got[r]) \in Nat
  BY Numbers
<1>2. /\ handler'[r] = handler[r] /\ received'[r] = received[r] /\ length'[r] = length[r]
      /\ conn'[r] = conn[r] /\ left'[r] = left[r] /\ got'[r] = got[r] /\ browser'[r] = browser[r]
      /\ Tun(r)' = Tun(r)
      /\ \A t \in Tunnel : sock'[t] = "open" => sock[t] = "open"
      /\ \A t \in Tunnel : r \in reqs'[t] <=> r \in reqs[t]
  BY DEF Untouched, Tun
<1>3. Tun(r) \in Tunnel \cup {NoTun}
  BY DEF RequestsTypeOK, Tun
<1>4. Placed(r)'
  BY <1>2, <1>3 DEF RequestInv, Placed
<1>5. Responding(r)'
  BY <1>2 DEF RequestInv, Responding
<1>6. \A t \in Tunnel : Ordered(down[t], r, received[r], Sent(browser[r]))'
  <2> SUFFICES ASSUME NEW t \in Tunnel PROVE Ordered(down'[t], r, received'[r], Sent(browser'[r]))
    OBVIOUS
  <2>1. Ordered(down'[t], r, received[r], Sent(browser[r]))
    BY <1>1 DEF RequestInv, Untouched
  <2> QED
    BY <1>2, <2>1
<1>7. ASSUME Going(r)' PROVE Flows(r)'
  <2>1. Going(r) /\ Tun(r) \in Tunnel /\ sock'[Tun(r)] = "open"
    BY <1>2, <1>3, <1>7 DEF Going
  <2>2. Flows(r)
    BY <2>1 DEF RequestInv
  <2>3. Whole(down'[Tun(r)], r, Len(got[r]), Sent(browser[r]))
    BY <1>1, <2>1, <2>2 DEF Flows, Untouched
  <2> QED
    BY <1>2, <2>2, <2>3 DEF Flows
<1>8. Live(r)'
  BY <1>2 DEF RequestInv, Live
<1>9. Given(r)'
  BY <1>2, <1>3 DEF RequestInv, Given
<1> QED
  BY <1>4, <1>5, <1>6, <1>7, <1>8, <1>9 DEF RequestInv

\* A step of a goroutine or a user of r, which sends and reads nothing.
LEMMA OthersUntouched ==
  ASSUME RequestsTypeOK, NEW r \in Request, NEW s \in Request \ {r},
         UNCHANGED <<sock, down, received, length, got>>,
         handler'[s] = handler[s], conn'[s] = conn[s], left'[s] = left[s], browser'[s] = browser[s],
         \A t \in Tunnel : s \in reqs'[t] <=> s \in reqs[t]
  PROVE  Untouched(s)
BY DEF Untouched

\* The messages are addressed still.
LEMMA ArrivedKept ==
  ASSUME RequestsTypeOK, Arrived,
         \A t \in Tunnel : \A i \in DOMAIN down'[t] : \E j \in DOMAIN down[t] : down'[t][i] = down[t][j],
         \A s \in Request : browser[s].state # "none" =>
            /\ Tun(s)' = Tun(s) /\ browser'[s].state # "none" /\ browser'[s].declared = browser[s].declared
            /\ browser[s].state = "failed" => browser'[s].state = "failed"
  PROVE  Arrived'
<1> SUFFICES ASSUME NEW t \in Tunnel, NEW i \in DOMAIN down'[t] PROVE Addressed(t, down[t][i])'
  BY DEF Arrived
<1>1. PICK j \in DOMAIN down[t] : down'[t][i] = down[t][j]
  OBVIOUS
<1>2. down[t][j] \in Message /\ down[t][j].req \in Request
  <2>1. down[t] \in Seq(Message)
    BY DEF RequestsTypeOK
  <2>2. down[t][j] \in Message
    BY <2>1
  <2> QED
    BY <2>2 DEF Message
<1>3. Addressed(t, down[t][j])
  BY DEF Arrived
<1>4. /\ Tun(down[t][j].req) = t /\ browser[down[t][j].req].state # "none"
      /\ down[t][j].type = "headers" => down[t][j].n = browser[down[t][j].req].declared
      /\ down[t][j].type = "error" => browser[down[t][j].req].state = "failed"
  BY <1>3 DEF Addressed
<1>5. \A s \in Request : s = down[t][j].req =>
        /\ Tun(s)' = t /\ browser'[s].state # "none"
        /\ down[t][j].type = "headers" => down[t][j].n = browser'[s].declared
        /\ down[t][j].type = "error" => browser'[s].state = "failed"
  BY <1>4
<1> QED
  BY <1>1, <1>2, <1>5 DEF Addressed, Tun

-----------------------------------------------------------------------------
(* The goroutine of a request.                                             *)

\* A step of the goroutine or of the user of r.
LEMMA OneRequest ==
  ASSUME ResponsesInv, NEW r \in Request, RequestsTypeOK', RequestInv(r)',
         UNCHANGED <<sock, down, received, length, got>>,
         \A s \in Request \ {r} :
           /\ handler'[s] = handler[s] /\ conn'[s] = conn[s] /\ left'[s] = left[s] /\ browser'[s] = browser[s]
           /\ \A t \in Tunnel : s \in reqs'[t] <=> s \in reqs[t],
         browser[r].state # "none" => Tun(r)' = Tun(r) /\ browser'[r] = browser[r]
  PROVE  ResponsesInv'
<1>1. ASSUME NEW s \in Request, s # r PROVE RequestInv(s)'
  <2>1. Untouched(s)
    BY <1>1, OthersUntouched DEF ResponsesInv
  <2> QED
    BY <2>1, UntouchedKeeps DEF ResponsesInv
<1>2. Arrived'
  <2>1. \A s \in Request : browser[s].state # "none" => Tun(s)' = Tun(s) /\ browser'[s] = browser[s]
    BY DEF Tun
  <2>2. \A t \in Tunnel : \A i \in DOMAIN down'[t] : \E j \in DOMAIN down[t] : down'[t][i] = down[t][j]
    OBVIOUS
  <2> QED
    BY <2>1, <2>2, ArrivedKept DEF ResponsesInv
<1> QED
  BY <1>1, <1>2 DEF ResponsesInv

\* Its goroutine goes on, or its connection is closed, and nothing else.
LEMMA MovesOn ==
  ASSUME ResponsesInv, NEW r \in Request, Placed(r)', Live(r)', Given(r)',
         UNCHANGED <<sock, down, received, length, got, browser, left>>,
         Tun(r)' = Tun(r), conn'[r] \in {conn[r], "closed"}
  PROVE  RequestInv(r)'
<1>1. Responding(r)' /\ \A t \in Tunnel : Ordered(down[t], r, received[r], Sent(browser[r]))'
  BY DEF ResponsesInv, RequestInv, Responding
<1>2. ASSUME Going(r)' PROVE Flows(r)'
  <2>1. Going(r)
    BY <1>2 DEF Going
  <2>2. Flows(r)
    BY <2>1 DEF ResponsesInv, RequestInv
  <2> QED
    BY <2>2 DEF Flows
<1> QED
  BY <1>1, <1>2 DEF RequestInv

\* What an arrow of the goroutine does to its record.
LEMMA GotoMoves ==
  ASSUME RequestsTypeOK, NEW r \in Request, NEW from \in HandlerPC, NEW to \in HandlerPC, Goto(r, from, to)
  PROVE  /\ handler' \in [Request -> [pc : HandlerPC, tun : Tunnel \cup {NoTun}]]
         /\ handler[r].pc = from /\ handler'[r].pc = to /\ Tun(r)' = Tun(r) /\ Tun(r) \in Tunnel \cup {NoTun}
         /\ \A s \in Request \ {r} : handler'[s] = handler[s]
BY DEF Goto, RequestsTypeOK, Tun

\* Steps that only go on: a refusal, no tunnel, a lost write, the end of proxy.
LEMMA GoesOnKeeps ==
  ASSUME ResponsesInv, NEW r \in Request, Refuse(r) \/ NoTunnel(r) \/ WriteLost(r) \/ ProxyReturns(r)
  PROVE  ResponsesInv'
<1> DEFINE from == handler[r].pc
           to   == handler'[r].pc
<1>1. UNCHANGED <<sock, down, reqs, received, length, conn, left, got, browser>>
  BY DEF Refuse, NoTunnel, WriteLost, ProxyReturns, reqVars
<1>2. /\ handler' \in [Request -> [pc : HandlerPC, tun : Tunnel \cup {NoTun}]]
      /\ Tun(r)' = Tun(r) /\ Tun(r) \in Tunnel \cup {NoTun}
      /\ \A s \in Request \ {r} : handler'[s] = handler[s]
      /\ \/ from = "pick" /\ to \in {"done", "close"}
         \/ from = "write" /\ to \in {"proxy", "delete"} /\ sock[Tun(r)] # "open"
         \/ from = "proxy" /\ to = "delete" /\ (conn[r] = "closed" \/ left[r] \/ sock[Tun(r)] # "open")
  BY GotoMoves DEF ResponsesInv, HandlerPC, Refuse, NoTunnel, WriteLost, ProxyReturns
<1>3. Placed(r) /\ Live(r) /\ Given(r)
  BY DEF ResponsesInv, RequestInv
<1>4. RequestsTypeOK'
  BY <1>1, <1>2 DEF ResponsesInv, RequestsTypeOK
<1> HIDE DEF from, to
<1>5. Placed(r)'
  BY <1>1, <1>2, <1>3 DEF Placed, from, to
<1>6. Live(r)'
  BY <1>1, <1>2, <1>3 DEF Live, from, to
<1>7. Given(r)'
  BY <1>1, <1>2, <1>3 DEF Given
<1>8. RequestInv(r)'
  BY <1>1, <1>2, <1>5, <1>6, <1>7, MovesOn
<1> QED
  BY <1>1, <1>2, <1>4, <1>8, OneRequest

LEMMA StoreKeeps ==
  ASSUME ResponsesInv, NEW r \in Request, StoreReq(r)
  PROVE  ResponsesInv'
<1>1. /\ UNCHANGED <<sock, down, received, length, conn, left, got, browser>>
      /\ reqs' = [reqs EXCEPT ![Tun(r)] = @ \cup {r}]
  BY DEF StoreReq, reqVars
<1>2. /\ handler' \in [Request -> [pc : HandlerPC, tun : Tunnel \cup {NoTun}]]
      /\ handler[r].pc = "store" /\ handler'[r].pc = "write" /\ Tun(r)' = Tun(r)
      /\ \A s \in Request \ {r} : handler'[s] = handler[s]
  BY GotoMoves DEF ResponsesInv, HandlerPC, StoreReq
<1>3. Placed(r) /\ Live(r) /\ Given(r)
  BY DEF ResponsesInv, RequestInv
<1>4. /\ Tun(r) \in Tunnel
      /\ \A t \in Tunnel : reqs'[t] = IF t = Tun(r) THEN reqs[t] \cup {r} ELSE reqs[t]
  BY <1>1, <1>2, <1>3 DEF Placed, ResponsesInv, RequestsTypeOK
<1>5. RequestsTypeOK'
  BY <1>1, <1>2, <1>4 DEF ResponsesInv, RequestsTypeOK
<1>6. Placed(r)'
  <2>1. browser[r].state = "none" /\ conn[r] = "open" /\ got[r] = <<>> /\ received[r] = 0
    BY <1>2, <1>3 DEF Placed
  <2>2. Tun(r) \in Tunnel /\ r \in reqs'[Tun(r)]
    BY <1>4
  <2> QED
    BY <1>1, <1>2, <2>1, <2>2 DEF Placed
<1>7. Live(r)'
  BY <1>1, <1>2, <1>3, <1>4 DEF Live
<1>8. Given(r)'
  BY <1>1, <1>2, <1>3 DEF Given
<1>9. RequestInv(r)'
  BY <1>1, <1>2, <1>6, <1>7, <1>8, MovesOn
<1> QED
  BY <1>1, <1>2, <1>4, <1>5, <1>9, OneRequest

LEMMA DeleteKeeps ==
  ASSUME ResponsesInv, NEW r \in Request, DeleteReq(r)
  PROVE  ResponsesInv'
<1>1. /\ UNCHANGED <<sock, down, received, length, conn, left, got, browser>>
      /\ reqs' = [reqs EXCEPT ![Tun(r)] = @ \ {r}]
  BY DEF DeleteReq, reqVars
<1>2. /\ handler' \in [Request -> [pc : HandlerPC, tun : Tunnel \cup {NoTun}]]
      /\ handler[r].pc = "delete" /\ handler'[r].pc = "close" /\ Tun(r)' = Tun(r)
      /\ \A s \in Request \ {r} : handler'[s] = handler[s]
  BY GotoMoves DEF ResponsesInv, HandlerPC, DeleteReq
<1>3. Placed(r) /\ Live(r) /\ Given(r)
  BY DEF ResponsesInv, RequestInv
<1>4. /\ Tun(r) \in Tunnel
      /\ \A t \in Tunnel : reqs'[t] = IF t = Tun(r) THEN reqs[t] \ {r} ELSE reqs[t]
  BY <1>1, <1>2, <1>3 DEF Placed, ResponsesInv, RequestsTypeOK
<1>5. RequestsTypeOK'
  BY <1>1, <1>2, <1>4 DEF ResponsesInv, RequestsTypeOK
<1>6. Placed(r)'
  <2>1. Tun(r) \in Tunnel
    BY <1>4
  <2>2. left[r] \/ conn[r] = "closed" \/ sock[Tun(r)] # "open"
    BY <1>2, <1>3, <2>1, NoTunAssumption DEF Placed
  <2>3. browser[r].state \in {"none", "asked"} /\ conn[r] = "closed" /\ Tun(r) # NoTun =>
          left[r] \/ sock[Tun(r)] # "open"
    BY <1>3 DEF Placed
  <2> QED
    BY <1>1, <1>2, <2>1, <2>2, <2>3 DEF Placed
<1>7. Live(r)'
  BY <1>1, <1>2, <1>3, <1>4 DEF Live
<1>8. Given(r)'
  BY <1>1, <1>2, <1>3 DEF Given
<1>9. RequestInv(r)'
  BY <1>1, <1>2, <1>6, <1>7, <1>8, MovesOn
<1> QED
  BY <1>1, <1>2, <1>4, <1>5, <1>9, OneRequest

LEMMA CloseKeeps ==
  ASSUME ResponsesInv, NEW r \in Request, CloseConn(r)
  PROVE  ResponsesInv'
<1>1. UNCHANGED <<sock, down, reqs, received, length, left, got, browser>> /\ conn' = [conn EXCEPT ![r] = "closed"]
  BY DEF CloseConn, Close, reqVars
<1>2. /\ handler' \in [Request -> [pc : HandlerPC, tun : Tunnel \cup {NoTun}]]
      /\ handler[r].pc = "close" /\ handler'[r].pc = "done" /\ Tun(r)' = Tun(r)
      /\ \A s \in Request \ {r} : handler'[s] = handler[s]
  BY GotoMoves DEF ResponsesInv, HandlerPC, CloseConn
<1>3. Placed(r) /\ Live(r) /\ Given(r)
  BY DEF ResponsesInv, RequestInv
<1>4. RequestsTypeOK' /\ conn'[r] = "closed" /\ \A s \in Request \ {r} : conn'[s] = conn[s]
  BY <1>1, <1>2 DEF ResponsesInv, RequestsTypeOK
<1>5. Placed(r)'
  BY <1>1, <1>2, <1>3, <1>4 DEF Placed
<1>6. Live(r)'
  BY <1>1, <1>2, <1>3 DEF Live
<1>7. Given(r)'
  BY <1>1, <1>2, <1>3, <1>4 DEF Given, Placed
<1>8. RequestInv(r)'
  BY <1>1, <1>2, <1>4, <1>5, <1>6, <1>7, MovesOn
<1> QED
  BY <1>1, <1>2, <1>4, <1>8, OneRequest

LEMMA PickKeeps ==
  ASSUME ResponsesInv, NEW r \in Request, NEW t \in Tunnel, Pick(r, t)
  PROVE  ResponsesInv'
<1>1. /\ UNCHANGED <<sock, down, reqs, received, length, conn, left, got, browser>>
      /\ handler' = [handler EXCEPT ![r] = [pc |-> "store", tun |-> t]] /\ handler[r].pc = "pick"
  BY DEF Pick, reqVars
<1>2. /\ handler' \in [Request -> [pc : HandlerPC, tun : Tunnel \cup {NoTun}]]
      /\ handler'[r].pc = "store" /\ handler'[r].tun = t
      /\ \A s \in Request \ {r} : handler'[s] = handler[s]
  BY <1>1 DEF ResponsesInv, RequestsTypeOK, HandlerPC
<1>3. Placed(r) /\ Live(r) /\ Responding(r) /\ \A u \in Tunnel : Ordered(down[u], r, received[r], Sent(browser[r]))
  BY DEF ResponsesInv, RequestInv
<1>4. browser[r].state = "none" /\ conn[r] = "open" /\ got[r] = <<>> /\ received[r] = 0
  BY <1>1, <1>3 DEF Placed
<1>5. RequestsTypeOK'
  BY <1>1, <1>2 DEF ResponsesInv, RequestsTypeOK
<1>6. Placed(r)'
  BY <1>1, <1>2, <1>4, NoTunAssumption DEF Placed, Tun
<1>7. Live(r)' /\ Given(r)'
  BY <1>1, <1>3, <1>4 DEF Live, Given
<1>8. Responding(r)' /\ \A u \in Tunnel : Ordered(down[u], r, received[r], Sent(browser[r]))'
  BY <1>1, <1>3 DEF Responding
<1>9. Flows(r)'
  <2>1. down[t] \in Seq(Message) /\ Sent(browser[r]) = 0 /\ Len(got[r]) = 0
    BY <1>4, Numbers DEF ResponsesInv, Sent
  <2>2. Whole(down[t], r, 0, 0)
    BY <2>1, ItemNumbers DEF Whole
  <2> QED
    BY <1>1, <1>2, <1>4, <2>1, <2>2 DEF Flows, Tun
<1>10. RequestInv(r)'
  BY <1>6, <1>7, <1>8, <1>9 DEF RequestInv
<1> QED
  BY <1>1, <1>2, <1>4, <1>5, <1>10, OneRequest

LEMMA WriteKeeps ==
  ASSUME ResponsesInv, NEW r \in Request, WriteRequest(r)
  PROVE  ResponsesInv'
<1>1. UNCHANGED <<sock, down, reqs, received, length, conn, left, got>>
  BY DEF WriteRequest, reqVars
<1>2. browser' = [browser EXCEPT ![r].state = "asked"]
  BY DEF WriteRequest
<1>3. browser \in [Request -> [state : BrowserState, len : Nat, declared : Nat, sent : Nat]]
  BY DEF ResponsesInv, RequestsTypeOK
<1>5. /\ browser' \in [Request -> [state : BrowserState, len : Nat, declared : Nat, sent : Nat]]
      /\ browser'[r] = [browser[r] EXCEPT !.state = "asked"]
      /\ \A s \in Request \ {r} : browser'[s] = browser[s]
  BY <1>2, <1>3 DEF BrowserState
<1>6. /\ handler' \in [Request -> [pc : HandlerPC, tun : Tunnel \cup {NoTun}]]
      /\ handler[r].pc = "write" /\ handler'[r].pc = "proxy" /\ Tun(r)' = Tun(r)
      /\ \A s \in Request \ {r} : handler'[s] = handler[s]
  BY GotoMoves DEF ResponsesInv, HandlerPC, WriteRequest
<1>7. Placed(r) /\ Live(r) /\ Responding(r) /\ \A u \in Tunnel : Ordered(down[u], r, received[r], Sent(browser[r]))
  BY DEF ResponsesInv, RequestInv
<1>8. /\ browser[r].state = "none" /\ conn[r] = "open" /\ got[r] = <<>> /\ received[r] = 0
      /\ Tun(r) \in Tunnel /\ r \in reqs[Tun(r)] /\ Sent(browser[r]) = 0 /\ Sent(browser'[r]) = 0
  BY <1>5, <1>6, <1>7 DEF Placed, Sent
<1>9. RequestsTypeOK'
  BY <1>1, <1>5, <1>6 DEF ResponsesInv, RequestsTypeOK
<1>10. Placed(r)'
  BY <1>1, <1>5, <1>6, <1>8 DEF Placed
<1>11. Live(r)' /\ Given(r)'
  BY <1>1, <1>6, <1>7, <1>8 DEF Live, Given
<1>12. Responding(r)'
  <2>1. /\ browser'[r].state = "asked" /\ browser'[r].len = browser[r].len
        /\ browser'[r].declared = browser[r].declared /\ browser'[r].sent = browser[r].sent
    BY <1>3, <1>5
  <2> QED
    BY <1>1, <1>7, <1>8, <2>1 DEF Responding
<1>13. \A u \in Tunnel : Ordered(down[u], r, received[r], Sent(browser[r]))'
  BY <1>1, <1>7, <1>8
<1>14. Flows(r)'
  <2>1. down[Tun(r)] \in Seq(Message) /\ Len(got[r]) = 0
    BY <1>8, Numbers DEF ResponsesInv
  <2>2. Whole(down[Tun(r)], r, 0, 0)
    BY <2>1, ItemNumbers DEF Whole
  <2> QED
    BY <1>1, <1>6, <1>8, <2>1, <2>2 DEF Flows
<1>15. RequestInv(r)'
  BY <1>10, <1>11, <1>12, <1>13, <1>14 DEF RequestInv
<1> QED
  BY <1>1, <1>5, <1>6, <1>8, <1>9, <1>15, OneRequest

LEMMA UserLeavesKeeps ==
  ASSUME ResponsesInv, NEW r \in Request, UserLeaves(r)
  PROVE  ResponsesInv'
<1>1. UNCHANGED <<sock, down, reqs, handler, received, length, conn, got, browser>> /\ left' = [left EXCEPT ![r] = TRUE]
  BY DEF UserLeaves, reqVars
<1>2. left' \in [Request -> BOOLEAN] /\ left'[r] = TRUE /\ \A s \in Request \ {r} : left'[s] = left[s]
  BY <1>1 DEF ResponsesInv, RequestsTypeOK
<1>3. RequestsTypeOK' /\ Tun(r)' = Tun(r)
  BY <1>1, <1>2 DEF ResponsesInv, RequestsTypeOK, Tun
<1>4. Placed(r) /\ Live(r) /\ Responding(r) /\ \A u \in Tunnel : Ordered(down[u], r, received[r], Sent(browser[r]))
  BY DEF ResponsesInv, RequestInv
<1>5. Placed(r)'
  BY <1>1, <1>2, <1>3, <1>4 DEF Placed
<1>6. Live(r)' /\ Given(r)' /\ ~Going(r)'
  BY <1>1, <1>2, <1>3, <1>4 DEF Live, Given, Going
<1>7. Responding(r)' /\ \A u \in Tunnel : Ordered(down[u], r, received[r], Sent(browser[r]))'
  BY <1>1, <1>4 DEF Responding
<1>8. RequestInv(r)'
  BY <1>5, <1>6, <1>7 DEF RequestInv
<1> QED
  BY <1>1, <1>2, <1>3, <1>8, OneRequest

-----------------------------------------------------------------------------
(* The reader of a tunnel.                                                 *)

\* What a read does to the queues.
LEMMA ReceiveReads ==
  ASSUME ResponsesInv, NEW t \in Tunnel, NEW type, Receive(t, type)
  PROVE  /\ sock[t] # "gone" /\ down[t] \in Seq(Message) /\ down[t] # <<>>
         /\ Head(down[t]) \in Message /\ Head(down[t]).req \in Request /\ Head(down[t]).n \in Nat
         /\ Head(down[t]).type = type /\ Addressed(t, Head(down[t]))
         /\ down' \in [Tunnel -> Seq(Message)]
         /\ \A u \in Tunnel : down'[u] = IF u = t THEN Tail(down[t]) ELSE down[u]
         /\ \A u \in Tunnel : \A i \in DOMAIN down'[u] : \E j \in DOMAIN down[u] : down'[u][i] = down[u][j]
         /\ \A s \in Request : \A u \in Tunnel : \A n, m \in Nat :
              Ordered(down[u], s, n, m) => Ordered(down'[u], s, n, m)
         /\ \A s \in Request \ {Head(down[t]).req} : \A u \in Tunnel : \A n, m \in Nat :
              Whole(down[u], s, n, m) => Whole(down'[u], s, n, m)
<1>1. /\ sock[t] # "gone" /\ down[t] # <<>> /\ Head(down[t]).type = type
      /\ down' = [down EXCEPT ![t] = Tail(down[t])]
  BY DEF Receive
<1>2. down \in [Tunnel -> Seq(Message)] /\ down[t] \in Seq(Message)
  BY DEF ResponsesInv, RequestsTypeOK
<1>3. /\ Head(down[t]) \in Message /\ Tail(down[t]) \in Seq(Message)
      /\ 1 \in DOMAIN down[t] /\ Head(down[t]) = down[t][1]
  BY <1>1, <1>2
<1>4. Head(down[t]).req \in Request /\ Head(down[t]).n \in Nat
  BY <1>3 DEF Message
<1>5. Addressed(t, Head(down[t]))
  BY <1>3 DEF ResponsesInv, Arrived
<1>6. \A u \in Tunnel : down'[u] = IF u = t THEN Tail(down[t]) ELSE down[u]
  BY <1>1, <1>2
<1>7. down' \in [Tunnel -> Seq(Message)]
  BY <1>1, <1>2, <1>3
<1>8. ASSUME NEW u \in Tunnel, NEW i \in DOMAIN down'[u]
      PROVE  \E j \in DOMAIN down[u] : down'[u][i] = down[u][j]
  <2>1. CASE u = t
    <3> DEFINE q == down[t]
    <3>1. i \in 1..Len(q) - 1 /\ Tail(q)[i] = q[i + 1] /\ i + 1 \in DOMAIN q
      <4>1. i \in DOMAIN Tail(q) /\ q \in Seq(Message) /\ q # <<>>
        BY <1>1, <1>2, <1>6, <1>8, <2>1
      <4> HIDE DEF q
      <4> QED
        BY <4>1
    <3> QED
      BY <1>6, <2>1, <3>1
  <2>2. CASE u # t
    BY <1>6, <2>2
  <2> QED
    BY <2>1, <2>2
<1>9. ASSUME NEW s \in Request, NEW u \in Tunnel, NEW n \in Nat, NEW m \in Nat, Ordered(down[u], s, n, m)
      PROVE  Ordered(down'[u], s, n, m)
  BY <1>1, <1>2, <1>6, <1>9, ReadKeepsOrder
<1>10. ASSUME NEW s \in Request, s # Head(down[t]).req, NEW u \in Tunnel, NEW n \in Nat, NEW m \in Nat,
              Whole(down[u], s, n, m)
       PROVE  Whole(down'[u], s, n, m)
  <2>1. ~ItemOf(Head(down[t]), s)
    BY <1>10 DEF ItemOf
  <2> QED
    BY <1>1, <1>2, <1>6, <1>10, <2>1, ReadKeepsOthers
<1> QED
  BY <1>1, <1>2, <1>3, <1>4, <1>5, <1>6, <1>7, <1>8, <1>9, <1>10

\* A message is read and concerns nobody but its request.
LEMMA OneAnswered ==
  ASSUME ResponsesInv, NEW t \in Tunnel, NEW type, Receive(t, type), NEW r \in Request, r = Head(down[t]).req,
         RequestsTypeOK', RequestInv(r)', UNCHANGED <<sock, handler, left, browser>>,
         \A s \in Request \ {r} :
           /\ received'[s] = received[s] /\ length'[s] = length[s] /\ conn'[s] = conn[s] /\ got'[s] = got[s]
           /\ \A u \in Tunnel : s \in reqs'[u] <=> s \in reqs[u]
  PROVE  ResponsesInv'
<1>1. ASSUME NEW s \in Request, s # r PROVE RequestInv(s)'
  <2>1. Untouched(s)
    BY <1>1, ReceiveReads DEF Untouched
  <2> QED
    BY <1>1, <2>1, UntouchedKeeps DEF ResponsesInv
<1>2. Arrived'
  BY ReceiveReads, ArrivedKept DEF ResponsesInv, Tun
<1> QED
  BY <1>1, <1>2 DEF ResponsesInv

\* The request of a message was sent, and its goroutine has come that far.
LEMMA AnsweredWasSent ==
  ASSUME ResponsesInv, NEW r \in Request, browser[r].state # "none"
  PROVE  handler[r].pc \in {"proxy", "delete", "close", "done"} /\ Tun(r) \in Tunnel
<1>1. Placed(r) /\ handler[r].pc \in HandlerPC
  BY DEF ResponsesInv, RequestInv, RequestsTypeOK
<1> QED
  BY <1>1 DEF Placed, HandlerPC

LEMMA DropKeeps ==
  ASSUME ResponsesInv, NEW t \in Tunnel, DropMessage(t)
  PROVE  ResponsesInv'
<1>1. PICK type \in {"headers", "data", "error"} : Receive(t, type)
  BY DEF DropMessage
<1>2. PICK r \in Request : r = Head(down[t]).req
  BY <1>1, ReceiveReads
<1>3. UNCHANGED <<sock, reqs, handler, received, length, conn, left, got, browser>> /\ r \notin reqs[t]
  BY <1>2 DEF DropMessage, reqVars
<1>4. Tun(r) = t /\ browser[r].state # "none"
  BY <1>1, <1>2, ReceiveReads DEF Addressed
<1>5. handler[r].pc \in {"proxy", "delete", "close", "done"}
  BY <1>4, AnsweredWasSent
<1>6. RequestsTypeOK'
  BY <1>1, <1>3, ReceiveReads DEF ResponsesInv, RequestsTypeOK
<1>7. /\ Placed(r) /\ Live(r) /\ Given(r) /\ Responding(r)
      /\ \A u \in Tunnel : Ordered(down[u], r, received[r], Sent(browser[r]))
  BY DEF ResponsesInv, RequestInv
<1>8. Placed(r)' /\ Live(r)' /\ Given(r)' /\ Responding(r)'
  BY <1>3, <1>7 DEF Placed, Live, Given, Responding, Tun
<1>9. \A u \in Tunnel : Ordered(down[u], r, received[r], Sent(browser[r]))'
  BY <1>1, <1>3, <1>7, ReceiveReads, Numbers DEF ResponsesInv
<1>10. ~Going(r)'
  BY <1>3, <1>4, <1>5, <1>7 DEF Going, Placed, Tun
<1>11. RequestInv(r)'
  BY <1>8, <1>9, <1>10 DEF RequestInv
<1> QED
  BY <1>1, <1>2, <1>3, <1>6, <1>11, OneAnswered

LEMMA ErrorKeeps ==
  ASSUME ResponsesInv, NEW t \in Tunnel, OnError(t)
  PROVE  ResponsesInv'
<1>1. Receive(t, "error")
  BY DEF OnError
<1>2. PICK r \in Request : r = Head(down[t]).req
  BY <1>1, ReceiveReads
<1>3. UNCHANGED <<sock, reqs, handler, received, length, left, got, browser>> /\ conn' = [conn EXCEPT ![r] = "closed"]
  BY <1>2 DEF OnError, Close, reqVars
<1>4. conn' \in [Request -> {"open", "closed"}] /\ conn'[r] = "closed" /\ \A s \in Request \ {r} : conn'[s] = conn[s]
  BY <1>3 DEF ResponsesInv, RequestsTypeOK
<1>5. Tun(r) = t /\ browser[r].state = "failed"
  BY <1>1, <1>2, ReceiveReads DEF Addressed
<1>6. handler[r].pc \in {"proxy", "delete", "close", "done"}
  BY <1>5, AnsweredWasSent
<1>7. RequestsTypeOK'
  BY <1>1, <1>3, <1>4, ReceiveReads DEF ResponsesInv, RequestsTypeOK
<1>8. /\ Placed(r) /\ Live(r) /\ Responding(r)
      /\ \A u \in Tunnel : Ordered(down[u], r, received[r], Sent(browser[r]))
  BY DEF ResponsesInv, RequestInv
<1>9. Placed(r)' /\ Live(r)' /\ Given(r)' /\ Responding(r)'
  BY <1>3, <1>4, <1>5, <1>6, <1>8 DEF Placed, Live, Given, Responding, Tun
<1>10. \A u \in Tunnel : Ordered(down[u], r, received[r], Sent(browser[r]))'
  BY <1>1, <1>3, <1>8, ReceiveReads, Numbers DEF ResponsesInv
<1>11. ~Going(r)'
  BY <1>4 DEF Going
<1>12. RequestInv(r)'
  BY <1>9, <1>10, <1>11 DEF RequestInv
<1> QED
  BY <1>1, <1>2, <1>3, <1>4, <1>7, <1>12, OneAnswered

\* On another websocket there is nothing of a request.
LEMMA OtherQueues ==
  ASSUME ResponsesInv, NEW r \in Request, NEW u \in Tunnel, u # Tun(r), NEW n, NEW m
  PROVE  Ordered(down[u], r, n, m)
<1>1. \A i \in DOMAIN down[u] : Addressed(u, down[u][i])
  BY DEF ResponsesInv, Arrived
<1>2. \A i \in DOMAIN down[u] : down[u][i].req # r
  <2> SUFFICES ASSUME NEW i \in DOMAIN down[u], down[u][i].req = r PROVE FALSE
    OBVIOUS
  <2>1. Tun(down[u][i].req) = u
    BY <1>1 DEF Addressed
  <2> QED
    BY <2>1
<1> QED
  BY <1>2 DEF Ordered, ItemOf

LEMMA HeadersKeep ==
  ASSUME ResponsesInv, NEW t \in Tunnel, OnHeaders(t)
  PROVE  ResponsesInv'
<1> DEFINE n == Head(down[t]).n
           q == down[t]
<1>1. Receive(t, "headers")
  BY DEF OnHeaders
<1>2. PICK r \in Request : r = Head(down[t]).req
  BY <1>1, ReceiveReads
<1>3. /\ UNCHANGED <<sock, reqs, handler, received, left, browser>> /\ r \in reqs[t]
      /\ length' = [length EXCEPT ![r] = n]
      /\ got' = IF conn[r] = "open" THEN [got EXCEPT ![r] = Append(got[r], 0)] ELSE got
      /\ conn' = IF n = 0 THEN [conn EXCEPT ![r] = "closed"] ELSE conn
  BY <1>2 DEF OnHeaders, Write
<1>4. /\ n \in Nat /\ q \in Seq(Message) /\ q # <<>> /\ n = browser[r].declared
      /\ Tun(r) = t /\ browser[r].state # "none" /\ down'[t] = Tail(q)
      /\ ItemOf(Head(q), r) /\ Num(Head(q)) = 0 /\ 1 \in DOMAIN q /\ Head(q) = q[1]
  BY <1>1, <1>2, ReceiveReads DEF Addressed, ItemOf, Num
<1> HIDE DEF n, q
<1>5. handler[r].pc \in {"proxy", "delete", "close", "done"}
  BY <1>4, AnsweredWasSent
<1>6. /\ Placed(r) /\ Live(r) /\ Given(r) /\ Responding(r)
      /\ \A u \in Tunnel : Ordered(down[u], r, received[r], Sent(browser[r]))
      /\ Going(r) => Flows(r)
  BY DEF ResponsesInv, RequestInv
<1>7. /\ got[r] \in Seq(Nat) /\ Len(got[r]) \in Nat /\ received[r] \in Nat /\ Sent(browser[r]) \in Nat
      /\ browser[r].len \in Nat /\ browser[r].declared \in Nat /\ MaxBody[r] \in Nat
  BY Numbers DEF ResponsesInv
<1>8. n <= MaxBody[r] + 1 /\ browser[r].state \notin {"none", "asked"}
  <2>1. Num(Head(q)) < Sent(browser[r])
    BY <1>4, <1>6 DEF Ordered, q
  <2> QED
    BY <1>4, <1>6, <1>7, <2>1 DEF Responding, Sent
<1>9. /\ length' \in [Request -> Nat] /\ length'[r] = n /\ \A s \in Request \ {r} : length'[s] = length[s]
      /\ conn' \in [Request -> {"open", "closed"}] /\ \A s \in Request \ {r} : conn'[s] = conn[s]
      /\ conn'[r] = IF n = 0 THEN "closed" ELSE conn[r]
      /\ got' \in [Request -> Seq(Nat)] /\ \A s \in Request \ {r} : got'[s] = got[s]
      /\ got'[r] = IF conn[r] = "open" THEN Append(got[r], 0) ELSE got[r]
  <2>1. /\ length \in [Request -> Nat] /\ conn \in [Request -> {"open", "closed"}]
        /\ got \in [Request -> Seq(Nat)]
    BY DEF ResponsesInv, RequestsTypeOK
  <2>2. n \in Nat /\ Append(got[r], 0) \in Seq(Nat)
    BY <1>4, <1>7, AppendProperties
  <2>3. length' \in [Request -> Nat] /\ length'[r] = n /\ \A s \in Request \ {r} : length'[s] = length[s]
    BY ONLY <1>3, <2>1, <2>2, r \in Request
  <2>4. /\ conn' \in [Request -> {"open", "closed"}] /\ \A s \in Request \ {r} : conn'[s] = conn[s]
        /\ conn'[r] = IF n = 0 THEN "closed" ELSE conn[r]
    BY ONLY <1>3, <2>1, r \in Request
  <2>5. /\ got' \in [Request -> Seq(Nat)] /\ \A s \in Request \ {r} : got'[s] = got[s]
        /\ got'[r] = IF conn[r] = "open" THEN Append(got[r], 0) ELSE got[r]
    BY ONLY <1>3, <2>1, <2>2, r \in Request
  <2> QED
    BY <2>3, <2>4, <2>5
<1>10. RequestsTypeOK'
  <2>1. down' \in [Tunnel -> Seq(Message)]
    BY <1>1, ReceiveReads
  <2>2. \A s \in Request : length'[s] <= MaxBody[s] + 1 /\ received'[s] <= MaxBody[s]
    <3>1. \A s \in Request : length[s] <= MaxBody[s] + 1 /\ received[s] <= MaxBody[s]
      BY DEF ResponsesInv, RequestsTypeOK
    <3> QED
      BY ONLY <1>3, <1>8, <1>9, <3>1, Zenon
  <2> QED
    BY <1>3, <1>9, <2>1, <2>2 DEF ResponsesInv, RequestsTypeOK
<1>11. Placed(r)' /\ Live(r)' /\ Responding(r)'
  <2>1. Placed(r)'
    BY <1>3, <1>4, <1>5, <1>6, <1>8, <1>9 DEF Placed, Tun
  <2>2. Live(r)' /\ Responding(r)'
    BY <1>3, <1>6 DEF Live, Responding, Tun
  <2> QED
    BY <2>1, <2>2
<1>12. \A u \in Tunnel : Ordered(down[u], r, received[r], Sent(browser[r]))'
  BY <1>1, <1>3, <1>6, <1>7, ReceiveReads DEF ResponsesInv
\* Until something goes wrong, the headers are the first that the user gets.
<1>13. ASSUME Going(r)
       PROVE  /\ got[r] = <<>> /\ got'[r] = <<0>> /\ received[r] = 0
              /\ 1 <= Sent(browser[r]) /\ Whole(Tail(q), r, 1, Sent(browser[r]))
  <2>1. Flows(r) /\ Whole(q, r, Len(got[r]), Sent(browser[r]))
    BY <1>4, <1>6, <1>13 DEF Flows, q
  <2>2. Ordered(q, r, received[r], Sent(browser[r]))
    BY <1>4, <1>6 DEF q
  <2>3. Len(got[r]) = 0 /\ 0 < Sent(browser[r]) /\ Whole(Tail(q), r, 0 + 1, Sent(browser[r]))
    BY <1>4, <1>7, <2>1, <2>2, ReadsNext
  <2>4. got[r] = <<>> /\ received[r] = 0
    BY <1>7, <2>1, <2>3 DEF Flows
  <2>5. conn[r] = "open"
    BY <1>13 DEF Going
  <2> QED
    BY <1>7, <1>9, <2>3, <2>4, <2>5
<1>14. ASSUME Going(r)' PROVE Flows(r)'
  <2>1. Going(r)
    BY <1>3, <1>9, <1>14 DEF Going, Tun
  <2>2. Len(<<0>>) = 1 /\ <<0>> # <<>> /\ \A i \in DOMAIN <<0>> : <<0>>[i] = i - 1
    OBVIOUS
  <2> QED
    BY <1>3, <1>4, <1>9, <1>13, <2>1, <2>2 DEF Flows, Tun
<1>15. Given(r)'
  <2> SUFFICES ASSUME conn'[r] = "closed", ~left[r], Tun(r) # NoTun, sock[Tun(r)] = "open",
                      browser[r].state # "failed", browser[r].declared = browser[r].len
               PROVE  got'[r] = [i \in 1..(browser[r].len + 1) |-> i - 1]
    BY <1>3 DEF Given, Tun
  <2>1. CASE conn[r] = "closed"
    BY <1>6, <1>9, <2>1 DEF Given
  <2>2. CASE conn[r] # "closed"
    <3>1. conn[r] = "open" /\ n = 0
      BY <1>9, <2>2 DEF ResponsesInv, RequestsTypeOK
    <3>2. Going(r)
      BY <3>1 DEF Going
    <3>3. got'[r] = <<0>> /\ browser[r].len = 0
      BY <1>4, <1>13, <3>1, <3>2
    <3> QED
      BY <3>3
  <2> QED
    BY <2>1, <2>2
<1>16. RequestInv(r)'
  BY <1>11, <1>12, <1>14, <1>15 DEF RequestInv
<1> QED
  BY <1>1, <1>2, <1>3, <1>9, <1>10, <1>16, OneAnswered

LEMMA DataKeeps ==
  ASSUME ResponsesInv, NEW t \in Tunnel, OnData(t)
  PROVE  ResponsesInv'
<1> DEFINE n == Head(down[t]).n
           q == down[t]
<1>1. PICK r \in Request : r = Head(down[t]).req /\ Receive(t, "data")
  BY ReceiveReads DEF OnData, OnDataUntil
<1> DEFINE complete == received[r] + 1 >= length[r]
<1>2. /\ UNCHANGED <<sock, handler, length, left, browser>> /\ r \in reqs[t]
      /\ received' = [received EXCEPT ![r] = received[r] + 1]
      /\ got' = IF conn[r] = "open" THEN [got EXCEPT ![r] = Append(got[r], n)] ELSE got
      /\ conn' = IF complete THEN [conn EXCEPT ![r] = "closed"] ELSE conn
      /\ reqs' = IF complete THEN [reqs EXCEPT ![t] = reqs[t] \ {r}] ELSE reqs
  BY <1>1 DEF OnData, OnDataUntil, Write
<1>3. /\ n \in Nat /\ q \in Seq(Message) /\ q # <<>> /\ Head(q).req = r /\ Head(q).type = "data"
      /\ Tun(r) = t /\ browser[r].state # "none" /\ down'[t] = Tail(q)
      /\ \A u \in Tunnel : u # t => down'[u] = down[u]
      /\ ItemOf(Head(q), r) /\ Num(Head(q)) = n
  BY <1>1, ReceiveReads DEF Addressed, ItemOf, Num
<1>4. q = down[t] /\ n = Head(q).n /\ complete \in BOOLEAN /\ (complete <=> received[r] + 1 >= length[r])
  OBVIOUS
<1> HIDE DEF n, q, complete
<1>5. handler[r].pc \in {"proxy", "delete", "close", "done"}
  BY <1>3, AnsweredWasSent
<1>6. /\ Placed(r) /\ Live(r) /\ Given(r) /\ Responding(r)
      /\ \A u \in Tunnel : Ordered(down[u], r, received[r], Sent(browser[r]))
      /\ Going(r) => Flows(r)
  BY DEF ResponsesInv, RequestInv
<1>7. /\ got[r] \in Seq(Nat) /\ Len(got[r]) \in Nat /\ received[r] \in Nat /\ Sent(browser[r]) \in Nat
      /\ browser[r].len \in Nat /\ browser[r].declared \in Nat /\ MaxBody[r] \in Nat /\ browser[r].sent \in Nat
      /\ length[r] \in Nat
  BY Numbers DEF ResponsesInv
\* The item was sent, and comes after those that were counted.
<1>8. received[r] < n /\ n < Sent(browser[r]) /\ Ordered(Tail(q), r, received[r] + 1, Sent(browser[r]))
  <2>1. Ordered(q, r, received[r], Sent(browser[r]))
    BY ONLY <1>3, <1>4, <1>6, t \in Tunnel, Zenon
  <2>2. received[r] \in Nat /\ Sent(browser[r]) \in Nat
    BY ONLY <1>7, Zenon
  <2>3. q \in Seq(Message) /\ q # <<>> /\ Head(q).req = r /\ Head(q).type = "data"
    BY ONLY <1>3, Zenon
  <2>4. received[r] < Head(q).n /\ Head(q).n < Sent(browser[r])
        /\ Ordered(Tail(q), r, received[r] + 1, Sent(browser[r]))
    BY ONLY <2>1, <2>2, <2>3, ReadOrders, r \in Request, Zenon
  <2> QED
    BY ONLY <1>4, <2>4, Zenon
<1>9. received[r] + 1 <= browser[r].sent /\ n <= browser[r].sent /\ browser[r].sent <= browser[r].len
      /\ received[r] + 1 <= MaxBody[r]
  <2>1. Sent(browser[r]) <= browser[r].sent + 1
    BY <1>7 DEF Sent
  <2>2. browser[r].sent <= browser[r].len /\ browser[r].len <= MaxBody[r]
    BY <1>6 DEF Responding
  <2>3. n \in Nat
    BY <1>3
  <2>4. n <= browser[r].sent
    <3>1. browser[r].sent \in Nat /\ Sent(browser[r]) \in Nat /\ n < Sent(browser[r])
      BY <1>7, <1>8
    <3> QED
      BY <2>1, <2>3, <3>1
  <2>5. received[r] + 1 <= n
    BY <1>7, <1>8, <2>3
  <2>6. received[r] + 1 \in Nat /\ browser[r].sent \in Nat /\ browser[r].len \in Nat /\ MaxBody[r] \in Nat
    <3>1. received[r] \in Nat /\ browser[r].sent \in Nat /\ browser[r].len \in Nat /\ MaxBody[r] \in Nat
      BY ONLY <1>7, Zenon
    <3>2. received[r] + 1 \in Nat
      BY ONLY <3>1, SMT
    <3> QED
      BY ONLY <3>1, <3>2, Zenon
  <2>7. received[r] + 1 <= browser[r].sent
    BY ONLY <2>3, <2>4, <2>5, <2>6, AtMost, Zenon
  <2>8. received[r] + 1 <= browser[r].len
    BY ONLY <2>2, <2>6, <2>7, AtMost, Zenon
  <2>9. received[r] + 1 <= MaxBody[r]
    BY ONLY <2>2, <2>6, <2>8, AtMost, Zenon
  <2> QED
    BY ONLY <2>2, <2>4, <2>7, <2>9, Zenon
<1>10. /\ received' \in [Request -> Nat] /\ received'[r] = received[r] + 1
       /\ \A s \in Request \ {r} : received'[s] = received[s]
       /\ conn' \in [Request -> {"open", "closed"}] /\ \A s \in Request \ {r} : conn'[s] = conn[s]
       /\ conn'[r] = IF complete THEN "closed" ELSE conn[r]
       /\ got' \in [Request -> Seq(Nat)] /\ \A s \in Request \ {r} : got'[s] = got[s]
       /\ got'[r] = IF conn[r] = "open" THEN Append(got[r], n) ELSE got[r]
  <2>1. /\ received \in [Request -> Nat] /\ conn \in [Request -> {"open", "closed"}]
        /\ got \in [Request -> Seq(Nat)]
    BY DEF ResponsesInv, RequestsTypeOK
  <2>6. received[r] + 1 \in Nat
    BY <1>7
  <2>5. Append(got[r], n) \in Seq(Nat)
    BY <1>3, <1>7, AppendProperties
  <2>2. /\ received' \in [Request -> Nat] /\ received'[r] = received[r] + 1
        /\ \A s \in Request \ {r} : received'[s] = received[s]
    BY <1>2, <2>1, <2>6
  <2>3. /\ conn' \in [Request -> {"open", "closed"}] /\ \A s \in Request \ {r} : conn'[s] = conn[s]
        /\ conn'[r] = IF complete THEN "closed" ELSE conn[r]
    BY <1>2, <2>1
  <2>4. /\ got' \in [Request -> Seq(Nat)] /\ \A s \in Request \ {r} : got'[s] = got[s]
        /\ got'[r] = IF conn[r] = "open" THEN Append(got[r], n) ELSE got[r]
    BY <1>2, <2>1, <2>5
  <2> QED
    BY <2>2, <2>3, <2>4
<1>11. /\ reqs' \in [Tunnel -> SUBSET Request]
       /\ \A u \in Tunnel : \A s \in Request \ {r} : s \in reqs'[u] <=> s \in reqs[u]
       /\ \A u \in Tunnel : r \in reqs'[u] <=> r \in reqs[u] /\ ~(u = t /\ complete)
  BY <1>2, <1>4 DEF ResponsesInv, RequestsTypeOK
<1>12. RequestsTypeOK'
  <2>1. down' \in [Tunnel -> Seq(Message)]
    BY <1>1, ReceiveReads
  <2>2. \A s \in Request : length'[s] <= MaxBody[s] + 1 /\ received'[s] <= MaxBody[s]
    BY <1>2, <1>9, <1>10 DEF ResponsesInv, RequestsTypeOK
  <2> QED
    BY <1>2, <1>10, <1>11, <2>1, <2>2 DEF ResponsesInv, RequestsTypeOK
<1>13. Placed(r)' /\ Live(r)'
  <2>1. browser[r].state \notin {"none", "asked"}
    <3>1. 0 < browser[r].sent
      BY <1>7, <1>9
    <3> QED
      BY <1>6, <3>1 DEF Responding
  <2>2. Placed(r)'
    BY <1>2, <1>3, <1>4, <1>5, <1>6, <1>10, <1>11, <2>1 DEF Placed, Tun
  <2>3. Live(r)'
    BY <1>2, <1>6, <1>11 DEF Live, Tun
  <2> QED
    BY <2>2, <2>3
<1>14. Responding(r)'
  BY <1>2, <1>6, <1>9, <1>10 DEF Responding
<1>15. \A u \in Tunnel : Ordered(down[u], r, received[r], Sent(browser[r]))'
  <2> SUFFICES ASSUME NEW u \in Tunnel PROVE Ordered(down'[u], r, received[r] + 1, Sent(browser[r]))
    BY <1>2, <1>10
  <2>1. CASE u = t
    BY <1>3, <1>8, <2>1
  <2>2. CASE u # t
    BY <1>3, <2>2, OtherQueues
  <2> QED
    BY <2>1, <2>2

\* Until something goes wrong, it is the item after those that the user has.
<1>16. ASSUME Going(r)
       PROVE  /\ got[r] # <<>> /\ Len(got[r]) = n /\ received[r] = n - 1 /\ length[r] = browser[r].declared
              /\ \A i \in DOMAIN got[r] : got[r][i] = i - 1
              /\ n < Sent(browser[r]) /\ Whole(Tail(q), r, n + 1, Sent(browser[r]))
              /\ got'[r] = Append(got[r], n)
  <2>1. Flows(r) /\ Whole(q, r, Len(got[r]), Sent(browser[r]))
    BY <1>3, <1>4, <1>6, <1>16 DEF Flows
  <2>2. Ordered(q, r, received[r], Sent(browser[r]))
    BY <1>4, <1>6
  <2>3. n = Len(got[r]) /\ Whole(Tail(q), r, Len(got[r]) + 1, Sent(browser[r]))
    BY <1>3, <1>7, <2>1, <2>2, ReadsNext
  <2>4. got[r] # <<>>
    BY <1>7, <1>8, <2>3
  <2>5. received[r] = Len(got[r]) - 1 /\ length[r] = browser[r].declared
        /\ \A i \in DOMAIN got[r] : got[r][i] = i - 1
    BY <2>1, <2>4 DEF Flows
  <2>6. got'[r] = Append(got[r], n)
    BY <1>10, <1>16 DEF Going
  <2> QED
    BY <1>7, <1>8, <2>3, <2>4, <2>5, <2>6
\* Then the user has the items up to this one.
<1>17. ASSUME Going(r)
       PROVE  /\ got'[r] = [i \in 1..n + 1 |-> i - 1] /\ got'[r] # <<>> /\ Len(got'[r]) = n + 1
              /\ \A i \in DOMAIN got'[r] : got'[r][i] = i - 1
  <2> DEFINE g == got[r]
  <2>1. g \in Seq(Nat) /\ Len(g) = n /\ \A i \in DOMAIN g : g[i] = i - 1
    BY <1>7, <1>16, <1>17
  <2>2. got'[r] = Append(g, n)
    BY <1>16, <1>17
  <2> HIDE DEF g
  <2>3. n \in Nat
    BY <1>3
  <2>4. /\ DOMAIN Append(g, n) = 1..n + 1 /\ Len(Append(g, n)) = n + 1 /\ Append(g, n) # <<>>
        /\ Append(g, n)[n + 1] = n /\ \A i \in 1..n : Append(g, n)[i] = g[i] /\ i \in DOMAIN g
    BY <2>1, <2>3
  <2>5. \A i \in 1..n + 1 : Append(g, n)[i] = i - 1
    BY <2>1, <2>3, <2>4
  <2>6. Append(g, n) = [i \in 1..n + 1 |-> i - 1]
    <3>1. Append(g, n) \in [1..n + 1 -> Nat]
      BY <2>1, <2>3, <2>4, AppendProperties, LenProperties
    <3> QED
      BY <2>3, <2>5, <3>1
  <2> QED
    BY <2>2, <2>4, <2>5, <2>6
<1>18. ASSUME Going(r)' PROVE Flows(r)'
  <2>1. Going(r)
    BY <1>2, <1>10, <1>18 DEF Going, Tun
  <2>2. received'[r] = Len(got'[r]) - 1 /\ Len(got'[r]) <= Sent(browser[r])
    <3>1. n \in Nat /\ received'[r] = received[r] + 1
      BY <1>3, <1>10
    <3>2. Len(got'[r]) = n + 1 /\ received[r] = n - 1 /\ n < Sent(browser[r])
      BY <1>16, <1>17, <2>1
    <3> QED
      BY <1>7, <3>1, <3>2
  <2>3. Whole(down'[Tun(r)], r, Len(got'[r]), Sent(browser[r]))
    BY <1>3, <1>16, <1>17, <2>1
  <2> QED
    BY <1>2, <1>16, <1>17, <2>1, <2>2, <2>3 DEF Flows, Tun
<1>19. Given(r)'
  <2> SUFFICES ASSUME conn'[r] = "closed", ~left[r], Tun(r) # NoTun, sock[Tun(r)] = "open",
                      browser[r].state # "failed", browser[r].declared = browser[r].len
               PROVE  got'[r] = [i \in 1..(browser[r].len + 1) |-> i - 1]
    BY <1>2 DEF Given, Tun
  <2>1. CASE conn[r] = "closed"
    BY <1>6, <1>10, <2>1 DEF Given
  <2>2. CASE conn[r] # "closed"
    <3>1. conn[r] = "open" /\ complete
      BY <1>10, <2>2 DEF ResponsesInv, RequestsTypeOK
    <3>2. Going(r)
      BY <3>1 DEF Going
    <3>3. n \in Nat /\ n <= browser[r].len
      <4>1. n \in Nat /\ n <= browser[r].sent /\ browser[r].sent <= browser[r].len
        BY <1>3, <1>9
      <4>2. browser[r].sent \in Nat /\ browser[r].len \in Nat
        BY <1>7
      <4> QED
        BY <4>1, <4>2
    <3>4. received[r] + 1 >= browser[r].len /\ received[r] = n - 1
      BY <1>4, <1>16, <3>1, <3>2
    <3>5. n = browser[r].len
      BY <1>7, <3>3, <3>4
    <3> QED
      BY <1>17, <3>2, <3>5
  <2> QED
    BY <2>1, <2>2
<1>20. RequestInv(r)'
  BY <1>13, <1>14, <1>15, <1>18, <1>19 DEF RequestInv
<1>21. \A s \in Request \ {r} :
         /\ received'[s] = received[s] /\ length'[s] = length[s] /\ conn'[s] = conn[s] /\ got'[s] = got[s]
         /\ \A u \in Tunnel : s \in reqs'[u] <=> s \in reqs[u]
  BY <1>2, <1>10, <1>11
<1> QED
  BY <1>1, <1>2, <1>12, <1>20, <1>21, OneAnswered

-----------------------------------------------------------------------------
(* Websockets and browsers.                                                *)

LEMMA ReturnsKeeps ==
  ASSUME ResponsesInv, NEW t \in Tunnel, ServeReturns(t)
  PROVE  ResponsesInv'
<1>1. /\ UNCHANGED <<down, reqs, handler, received, length, conn, left, got, browser>>
      /\ sock' = [sock EXCEPT ![t] = "gone"] /\ sock[t] = "dead"
  BY DEF ServeReturns, reqVars
<1>2. RequestsTypeOK' /\ \A u \in Tunnel : sock'[u] = "open" => sock[u] = "open"
  BY <1>1 DEF ResponsesInv, RequestsTypeOK
<1>3. ASSUME NEW s \in Request PROVE RequestInv(s)'
  <2>1. Untouched(s)
    BY <1>1, <1>2 DEF Untouched
  <2> QED
    BY <2>1, UntouchedKeeps DEF ResponsesInv
<1>4. Arrived'
  BY <1>1, ArrivedKept DEF ResponsesInv, Tun
<1> QED
  BY <1>2, <1>3, <1>4 DEF ResponsesInv

LEMMA DiesKeeps ==
  ASSUME ResponsesInv, NEW t \in Tunnel, SocketDies(t)
  PROVE  ResponsesInv'
<1>1. /\ UNCHANGED <<reqs, handler, received, length, conn, left, got, browser>>
      /\ sock' = [sock EXCEPT ![t] = "dead"]
  BY DEF SocketDies, reqVars
<1>2. PICK k \in 0..Len(down[t]) : down' = [down EXCEPT ![t] = SubSeq(down[t], 1, k)]
  BY DEF SocketDies
<1> DEFINE q == down[t]
           c == SubSeq(q, 1, k)
<1>3. down \in [Tunnel -> Seq(Message)] /\ q \in Seq(Message) /\ sock \in [Tunnel -> {"open", "dead", "gone"}]
  BY DEF ResponsesInv, RequestsTypeOK
<1>4. c \in Seq(Message) /\ \A i \in DOMAIN c : i \in DOMAIN q /\ c[i] = q[i]
  BY <1>3
<1>5. /\ down' \in [Tunnel -> Seq(Message)]
      /\ \A u \in Tunnel : down'[u] = IF u = t THEN c ELSE down[u]
  BY <1>2, <1>3, <1>4
<1>6. /\ sock' \in [Tunnel -> {"open", "dead", "gone"}]
      /\ \A u \in Tunnel : sock'[u] = IF u = t THEN "dead" ELSE sock[u]
  BY <1>1, <1>3
<1>7. \A s \in Request, n, m \in Nat : Ordered(q, s, n, m) => Ordered(c, s, n, m)
  BY <1>3, CutKeepsOrder
<1> HIDE DEF c
<1>8. RequestsTypeOK'
  BY <1>1, <1>5, <1>6 DEF ResponsesInv, RequestsTypeOK
<1>9. ASSUME NEW s \in Request PROVE RequestInv(s)'
  <2>1. Untouched(s)
    BY <1>1, <1>5, <1>6, <1>7 DEF Untouched
  <2> QED
    BY <2>1, UntouchedKeeps DEF ResponsesInv
<1>10. Arrived'
  <2>1. \A u \in Tunnel : \A i \in DOMAIN down'[u] : \E j \in DOMAIN down[u] : down'[u][i] = down[u][j]
    BY <1>4, <1>5
  <2> QED
    BY <1>1, <2>1, ArrivedKept DEF ResponsesInv, Tun
<1> QED
  BY <1>8, <1>9, <1>10 DEF ResponsesInv

\* What an answer of the browser to r is, and does to the queues.
LEMMA AnswerSends ==
  ASSUME ResponsesInv, NEW r \in Request, NEW from \in {"asked", "body"}, NEW msg \in Message, msg.req = r,
         NEW to \in [state : BrowserState, len : Nat, declared : Nat, sent : Nat],
         Answers(r, from, msg, to), to.declared = browser[r].declared \/ from = "asked", to.state # "none",
         msg.type = "headers" => msg.n = to.declared, msg.type = "error" => to.state = "failed",
         RequestInv(r)'
  PROVE  ResponsesInv'
<1>1. /\ browser[r].state = from /\ sock[Tun(r)] = "open"
      /\ down' = [down EXCEPT ![Tun(r)] = Append(down[Tun(r)], msg)]
      /\ browser' = [browser EXCEPT ![r] = to]
      /\ UNCHANGED <<sock, reqs, handler, received, length, conn, left, got>>
  BY DEF Answers, reqVars
<1>2. Tun(r) \in Tunnel
  BY <1>1, AnsweredWasSent
<1> DEFINE t == Tun(r)
           q == down[t]
           a == Append(q, msg)
<1>3. down \in [Tunnel -> Seq(Message)] /\ q \in Seq(Message)
  BY <1>2 DEF ResponsesInv, RequestsTypeOK
<1>4. a \in Seq(Message) /\ \A i \in DOMAIN a : a[i] = msg \/ (i \in DOMAIN q /\ a[i] = q[i])
  BY <1>3
<1>5. /\ down' \in [Tunnel -> Seq(Message)]
      /\ \A u \in Tunnel : down'[u] = IF u = t THEN a ELSE down[u]
  BY <1>1, <1>3, <1>4
<1>6. /\ browser' \in [Request -> [state : BrowserState, len : Nat, declared : Nat, sent : Nat]]
      /\ browser'[r] = to /\ \A s \in Request \ {r} : browser'[s] = browser[s]
  BY <1>1 DEF ResponsesInv, RequestsTypeOK
<1>7. RequestsTypeOK'
  BY <1>1, <1>5, <1>6 DEF ResponsesInv, RequestsTypeOK
<1>8. \A s \in Request \ {r} : \A n, m \in Nat :
        /\ Ordered(q, s, n, m) => Ordered(a, s, n, m)
        /\ Whole(q, s, n, m) => Whole(a, s, n, m)
  <2> SUFFICES ASSUME NEW s \in Request \ {r}, NEW n \in Nat, NEW m \in Nat
               PROVE  /\ Ordered(q, s, n, m) => Ordered(a, s, n, m)
                      /\ Whole(q, s, n, m) => Whole(a, s, n, m)
    OBVIOUS
  <2>1. ~ItemOf(msg, s)
    BY DEF ItemOf
  <2>2. m <= m
    OBVIOUS
  <2> QED
    BY <1>3, <2>1, <2>2, SendKeeps
<1> HIDE DEF a
<1>9. ASSUME NEW s \in Request, s # r PROVE RequestInv(s)'
  <2>1. /\ handler'[s] = handler[s] /\ received'[s] = received[s] /\ length'[s] = length[s]
        /\ conn'[s] = conn[s] /\ left'[s] = left[s] /\ got'[s] = got[s] /\ browser'[s] = browser[s]
        /\ UNCHANGED <<sock, reqs>>
    BY <1>1, <1>6, <1>9
  <2>2. \A u \in Tunnel : \A n, m \in Nat :
          /\ Ordered(down[u], s, n, m) => Ordered(down'[u], s, n, m)
          /\ Whole(down[u], s, n, m) => Whole(down'[u], s, n, m)
    BY <1>5, <1>8, <1>9
  <2>3. Untouched(s)
    BY <2>1, <2>2 DEF Untouched
  <2> QED
    BY <2>3, UntouchedKeeps DEF ResponsesInv
<1>10. Arrived'
  <2> SUFFICES ASSUME NEW u \in Tunnel, NEW i \in DOMAIN down'[u] PROVE Addressed(u, down[u][i])'
    BY DEF Arrived
  <2>0. from = "asked" => Sent(browser[r]) = 0 /\ Ordered(down[u], r, received[r], 0)
    BY <1>1 DEF Sent, ResponsesInv, RequestInv
  <2>1. \A m \in Message : Addressed(u, m) /\ (\E j \in DOMAIN down[u] : m = down[u][j]) => Addressed(u, m)'
    <3> SUFFICES ASSUME NEW m \in Message, Addressed(u, m), NEW j \in DOMAIN down[u], m = down[u][j]
                 PROVE  Addressed(u, m)'
      OBVIOUS
    <3>1. m.req \in Request
      BY DEF Message
    <3>2. Tun(m.req)' = Tun(m.req)
      BY <1>1 DEF Tun
    <3>5. from = "asked" /\ m.req = r => m.type # "headers"
      BY <2>0 DEF Ordered, ItemOf, Num
    <3>3. CASE m.req = r
      BY <1>1, <1>6, <3>2, <3>3, <3>5 DEF Addressed
    <3>4. CASE m.req # r
      BY <1>6, <3>1, <3>2, <3>4 DEF Addressed
    <3> QED
      BY <3>3, <3>4
  <2>2. CASE \E j \in DOMAIN down[u] : down'[u][i] = down[u][j]
    <3>1. PICK j \in DOMAIN down[u] : down'[u][i] = down[u][j]
      BY <2>2
    <3>2. down[u] \in Seq(Message) /\ Addressed(u, down[u][j])
      BY <1>3 DEF ResponsesInv, Arrived
    <3>3. down[u][j] \in Message
      BY <3>2
    <3> QED
      <4>1. \A m \in Message : m = down[u][j] => Addressed(u, m)'
        BY <2>1, <3>2
      <4> QED
        BY <3>1, <3>3, <4>1 DEF Addressed, Tun
  <2>3. CASE u = t /\ down'[u][i] = msg
    <3>1. Tun(r)' = t
      BY <1>1 DEF Tun
    <3> QED
      BY <1>6, <2>3, <3>1 DEF Addressed
  <2> QED
    BY <1>4, <1>5, <2>2, <2>3
<1> QED
  BY <1>7, <1>9, <1>10 DEF ResponsesInv

\* What an answer does to its request.
LEMMA AnswerKeeps ==
  ASSUME ResponsesInv, NEW r \in Request, NEW from \in {"asked", "body"}, NEW msg \in Message, msg.req = r,
         NEW to \in [state : {"body", "end", "failed"}, len : Nat, declared : Nat, sent : Nat],
         Answers(r, from, msg, to),
         from = "asked" \/ (to.declared = browser[r].declared /\ to.len = browser[r].len),
         to.declared <= MaxBody[r] + 1, to.len <= MaxBody[r],
         msg.type = "headers" => msg.n = to.declared, msg.type = "error" => to.state = "failed",
         browser[r].sent <= to.sent, to.sent <= to.len, to.state = "body" => to.sent < to.len,
         Sent(browser[r]) <= Sent(to),
         Ordered(Append(down[Tun(r)], msg), r, received[r], Sent(to)),
         to.state # "failed" => \A l \in Nat : l <= Sent(browser[r]) /\ Whole(down[Tun(r)], r, l, Sent(browser[r]))
                                   => Whole(Append(down[Tun(r)], msg), r, l, Sent(to))
  PROVE  ResponsesInv'
<1>1. /\ browser[r].state = from /\ sock[Tun(r)] = "open"
      /\ down' = [down EXCEPT ![Tun(r)] = Append(down[Tun(r)], msg)]
      /\ browser' = [browser EXCEPT ![r] = to]
      /\ UNCHANGED <<sock, reqs, handler, received, length, conn, left, got>> /\ Tun(r)' = Tun(r)
  BY DEF Answers, reqVars, Tun
<1>2. Tun(r) \in Tunnel /\ handler[r].pc \in {"proxy", "delete", "close", "done"}
  BY <1>1, AnsweredWasSent
<1>3. down \in [Tunnel -> Seq(Message)] /\ browser \in [Request -> [state : BrowserState, len : Nat, declared : Nat, sent : Nat]]
  BY DEF ResponsesInv, RequestsTypeOK
<1>4. browser'[r] = to /\ \A u \in Tunnel : down'[u] = IF u = Tun(r) THEN Append(down[u], msg) ELSE down[u]
  BY <1>1, <1>2, <1>3
<1>5. to \in [state : BrowserState, len : Nat, declared : Nat, sent : Nat]
  BY DEF BrowserState
<1>6. /\ Placed(r) /\ Live(r) /\ Given(r) /\ Responding(r)
      /\ Going(r) => Flows(r)
  BY DEF ResponsesInv, RequestInv
<1>7. /\ Len(got[r]) \in Nat /\ received[r] \in Nat /\ Sent(browser[r]) \in Nat /\ Sent(to) \in Nat
      /\ browser[r].len \in Nat /\ MaxBody[r] \in Nat /\ browser[r].sent \in Nat /\ to.sent \in Nat
  BY <1>5, Numbers, SentIsNat DEF ResponsesInv
<1>8. Placed(r)'
  BY <1>1, <1>2, <1>4, <1>6 DEF Placed
<1>9. Live(r)'
  BY <1>1, <1>6 DEF Live
<1>10. Given(r)'
  <2> SUFFICES ASSUME conn'[r] = "closed", ~left'[r], Tun(r)' # NoTun, sock'[Tun(r)'] = "open",
                      browser'[r].declared = browser'[r].len
               PROVE  got'[r] = [i \in 1..(browser'[r].len + 1) |-> i - 1]
    BY DEF Given
  <2>1. browser[r].state # "failed"
    BY <1>1
  <2>2. browser'[r].len = browser[r].len /\ browser'[r].declared = browser[r].declared
    BY <1>1, <1>4, <1>6 DEF Placed
  <2>3. conn[r] = "closed" /\ ~left[r] /\ Tun(r) # NoTun /\ got'[r] = got[r]
    BY <1>1
  <2>4. got[r] = [i \in 1..(browser[r].len + 1) |-> i - 1]
    BY <1>1, <1>6, <2>1, <2>2, <2>3 DEF Given
  <2> QED
    BY <2>2, <2>3, <2>4
<1>11. Responding(r)'
  <2>1. received[r] <= browser[r].sent /\ to.len <= MaxBody[r] /\ to.declared <= MaxBody[r] + 1
    BY <1>6 DEF Responding
  <2>2. received[r] <= to.sent
    BY <1>7, <2>1
  <2> QED
    BY <1>1, <1>4, <2>1, <2>2 DEF Responding
<1>12. \A u \in Tunnel : Ordered(down[u], r, received[r], Sent(browser[r]))'
  <2> SUFFICES ASSUME NEW u \in Tunnel PROVE Ordered(down'[u], r, received[r], Sent(to))
    BY <1>1, <1>4
  <2>1. CASE u = Tun(r)
    BY <1>4, <2>1
  <2>2. CASE u # Tun(r)
    BY <1>4, <2>2, OtherQueues
  <2> QED
    BY <2>1, <2>2
<1>13. ASSUME Going(r)' PROVE Flows(r)'
  <2>1. Going(r) /\ to.state # "failed"
    BY <1>1, <1>4, <1>13 DEF Going
  <2>2. Flows(r)
    BY <1>6, <2>1
  <2>3. Len(got[r]) <= Sent(browser[r]) /\ Len(got[r]) <= Sent(to)
    BY <1>7, <2>2 DEF Flows
  <2>4. Whole(Append(down[Tun(r)], msg), r, Len(got[r]), Sent(to))
    BY <1>7, <2>1, <2>2, <2>3 DEF Flows
  <2>5. got[r] # <<>> => length[r] = to.declared
    <3>1. CASE from = "asked"
      <4>1. Sent(browser[r]) = 0
        BY <1>1, <3>1 DEF Sent
      <4>2. Len(got[r]) = 0 /\ got[r] \in Seq(Nat)
        BY <1>7, <2>3, <4>1, Numbers DEF ResponsesInv
      <4> QED
        BY <4>2
    <3>2. CASE from # "asked"
      BY <2>2, <3>2 DEF Flows
    <3> QED
      BY <3>1, <3>2
  <2>6. /\ \A i \in DOMAIN got[r] : got[r][i] = i - 1
        /\ received[r] = (IF got[r] = <<>> THEN 0 ELSE Len(got[r]) - 1)
    BY <2>2 DEF Flows
  <2>7. down'[Tun(r)] = Append(down[Tun(r)], msg)
    BY <1>2, <1>4
  <2> QED
    BY <1>1, <1>4, <2>3, <2>4, <2>5, <2>6, <2>7 DEF Flows
<1>14. RequestInv(r)'
  BY <1>8, <1>9, <1>10, <1>11, <1>12, <1>13 DEF RequestInv
<1>15. to.state # "none"
  OBVIOUS
<1> QED
  BY <1>5, <1>14, <1>15, AnswerSends

LEMMA BrowserHeadersKeep ==
  ASSUME ResponsesInv, NEW r \in Request, BrowserHeaders(r)
  PROVE  ResponsesInv'
<1>0. PICK len \in 0..MaxBody[r], declared \in 0..MaxBody[r] + 1 :
        Answers(r, "asked", Msg("headers", r, declared),
                [state |-> IF len = 0 THEN "end" ELSE "body", len |-> len, declared |-> declared, sent |-> 0])
  BY DEF BrowserHeaders
<1> DEFINE b   == browser[r]
           msg == Msg("headers", r, declared)
           to  == [state |-> IF len = 0 THEN "end" ELSE "body", len |-> len, declared |-> declared, sent |-> 0]
           q   == down[Tun(r)]
<1>1. Answers(r, "asked", msg, to)
  BY <1>0
<1>2. /\ b \in [state : BrowserState, len : Nat, declared : Nat, sent : Nat] /\ b.state = "asked"
      /\ MaxBody[r] \in Nat /\ len \in Nat /\ declared \in Nat /\ len <= MaxBody[r] /\ declared <= MaxBody[r] + 1
  <2>1. b \in [state : BrowserState, len : Nat, declared : Nat, sent : Nat] /\ b.state = "asked"
    BY <1>1 DEF Answers, ResponsesInv, RequestsTypeOK
  <2>2. MaxBody[r] \in Nat
    BY BodyAssumption
  <2>3. len \in Nat /\ len <= MaxBody[r]
    BY <2>2
  <2>4. declared \in Nat /\ declared <= MaxBody[r] + 1
    BY <2>2
  <2> QED
    BY <2>1, <2>2, <2>3, <2>4
<1>3. Responding(r) /\ b.sent = 0 /\ Sent(b) = 0
  BY <1>2 DEF ResponsesInv, RequestInv, Responding, Sent
<1>4. Tun(r) \in Tunnel /\ received[r] \in Nat
  BY <1>2, AnsweredWasSent, Numbers DEF ResponsesInv
<1>5. q \in Seq(Message) /\ Ordered(q, r, received[r], 0)
  BY <1>3, <1>4, Numbers DEF ResponsesInv, RequestInv
<1>6. msg \in Message /\ msg.req = r /\ msg.type = "headers" /\ msg.n = declared
      /\ ItemOf(msg, r) /\ Num(msg) = 0
  BY <1>2 DEF Msg, Message, ItemOf, Num
<1>7. /\ to \in [state : {"body", "end", "failed"}, len : Nat, declared : Nat, sent : Nat]
      /\ to.declared = declared /\ to.len = len /\ to.sent = 0 /\ to.state # "failed"
      /\ to.state = "body" => 0 < to.len
      /\ 0 <= to.len /\ to.declared <= MaxBody[r] + 1 /\ to.len <= MaxBody[r]
  BY <1>2, <1>3
<1>8. Sent(to) = 0 + 1
  BY <1>7 DEF Sent
<1> HIDE DEF msg, to, q
<1>9. /\ Ordered(Append(q, msg), r, received[r], 0 + 1)
      /\ \A l \in Nat : Whole(q, r, l, 0) /\ l <= 0 => Whole(Append(q, msg), r, l, 0 + 1)
  BY <1>4, <1>5, <1>6, SendsNext
<1>10. b.sent <= to.sent /\ to.sent <= to.len /\ (to.state = "body" => to.sent < to.len) /\ Sent(b) <= Sent(to)
  BY <1>3, <1>7, <1>8
<1>11. Ordered(Append(down[Tun(r)], msg), r, received[r], Sent(to))
  BY <1>8, <1>9 DEF q
<1>12. \A l \in Nat : l <= Sent(b) /\ Whole(down[Tun(r)], r, l, Sent(b))
                        => Whole(Append(down[Tun(r)], msg), r, l, Sent(to))
  BY <1>3, <1>8, <1>9 DEF q
<1> QED
  BY <1>1, <1>6, <1>7, <1>10, <1>11, <1>12, AnswerKeeps

LEMMA BrowserDataKeep ==
  ASSUME ResponsesInv, NEW r \in Request, BrowserData(r)
  PROVE  ResponsesInv'
<1> DEFINE b   == browser[r]
           k   == b.sent + 1
           msg == Msg("data", r, k)
           to  == [b EXCEPT !.sent = k, !.state = IF k = b.len THEN "end" ELSE "body"]
           q   == down[Tun(r)]
<1>1. Answers(r, "body", msg, to)
  BY DEF BrowserData
<1>2. b \in [state : BrowserState, len : Nat, declared : Nat, sent : Nat] /\ b.state = "body"
  BY <1>1 DEF Answers, ResponsesInv, RequestsTypeOK
<1>3. Responding(r) /\ b.sent < b.len /\ Sent(b) = k /\ k \in Nat /\ b.sent \in Nat
  BY <1>2 DEF ResponsesInv, RequestInv, Responding, Sent
<1>4. Tun(r) \in Tunnel /\ received[r] \in Nat /\ received[r] < k
  <2>1. Tun(r) \in Tunnel /\ received[r] \in Nat
    BY <1>2, AnsweredWasSent, Numbers DEF ResponsesInv
  <2> QED
    BY <1>3, <2>1 DEF Responding
<1>5. q \in Seq(Message) /\ Ordered(q, r, received[r], k)
  BY <1>3, <1>4, Numbers DEF ResponsesInv, RequestInv
<1>6. msg \in Message /\ msg.req = r /\ msg.type = "data" /\ msg.n = k
      /\ ItemOf(msg, r) /\ Num(msg) = k
  BY <1>3 DEF Msg, Message, ItemOf, Num
<1>7. /\ to \in [state : {"body", "end", "failed"}, len : Nat, declared : Nat, sent : Nat]
      /\ to.declared = b.declared /\ to.len = b.len /\ to.sent = k /\ to.state \in {"body", "end"}
      /\ to.state = "body" => k # b.len
  BY <1>2, <1>3
<1>8. Sent(to) = k + 1 /\ k <= b.len /\ b.sent <= k /\ b.len \in Nat
  BY <1>2, <1>3, <1>7 DEF Sent
<1> HIDE DEF msg, to, q, k
<1>9. /\ Ordered(Append(q, msg), r, received[r], k + 1)
      /\ \A l \in Nat : Whole(q, r, l, k) /\ l <= k => Whole(Append(q, msg), r, l, k + 1)
  BY <1>3, <1>4, <1>5, <1>6, SendsNext
<1>10. b.sent <= to.sent /\ to.sent <= to.len /\ (to.state = "body" => to.sent < to.len) /\ Sent(b) <= Sent(to)
  BY <1>3, <1>7, <1>8
<1>11. Ordered(Append(down[Tun(r)], msg), r, received[r], Sent(to))
  BY <1>8, <1>9 DEF q
<1>12. \A l \in Nat : l <= Sent(b) /\ Whole(down[Tun(r)], r, l, Sent(b))
                        => Whole(Append(down[Tun(r)], msg), r, l, Sent(to))
  BY <1>3, <1>8, <1>9 DEF q
<1>13. to.declared <= MaxBody[r] + 1 /\ to.len <= MaxBody[r]
  BY <1>3, <1>7 DEF Responding
<1> HIDE DEF b
<1> QED
  BY <1>1, <1>6, <1>7, <1>10, <1>11, <1>12, <1>13, AnswerKeeps DEF b

LEMMA BrowserFailsKeep ==
  ASSUME ResponsesInv, NEW r \in Request, BrowserFails(r)
  PROVE  ResponsesInv'
<1> DEFINE b   == browser[r]
           msg == Msg("error", r, 0)
           to  == [b EXCEPT !.state = "failed"]
           q   == down[Tun(r)]
<1>1. PICK from \in {"asked", "body"} : Answers(r, from, msg, to)
  BY DEF BrowserFails
<1>2. b \in [state : BrowserState, len : Nat, declared : Nat, sent : Nat] /\ b.state \in {"asked", "body"}
  BY <1>1 DEF Answers, ResponsesInv, RequestsTypeOK
<1>3. Responding(r) /\ b.sent <= b.len /\ b.sent \in Nat
  BY <1>2 DEF ResponsesInv, RequestInv, Responding
<1>4. Tun(r) \in Tunnel /\ received[r] \in Nat /\ Sent(b) \in Nat
  BY <1>2, AnsweredWasSent, Numbers DEF ResponsesInv
<1>5. q \in Seq(Message) /\ Ordered(q, r, received[r], Sent(b))
  BY <1>4, Numbers DEF ResponsesInv, RequestInv
<1>6. msg \in Message /\ msg.req = r /\ msg.type = "error" /\ ~ItemOf(msg, r)
  BY DEF Msg, Message, ItemOf
<1>7. /\ to \in [state : {"body", "end", "failed"}, len : Nat, declared : Nat, sent : Nat]
      /\ to.declared = b.declared /\ to.len = b.len /\ to.sent = b.sent /\ to.state = "failed"
  BY <1>2
<1>8. Sent(to) = b.sent + 1 /\ Sent(b) <= Sent(to) /\ Sent(to) \in Nat
  BY <1>3, <1>7 DEF Sent
<1> HIDE DEF msg, to, q
<1>9. Ordered(Append(q, msg), r, received[r], Sent(to))
  BY <1>4, <1>5, <1>6, <1>8, SendKeeps
<1>10. b.sent <= to.sent /\ to.sent <= to.len
  BY <1>3, <1>7
<1>11. to.declared <= MaxBody[r] + 1 /\ to.len <= MaxBody[r]
  BY <1>3, <1>7 DEF Responding
<1> QED
  BY <1>1, <1>6, <1>7, <1>8, <1>9, <1>10, <1>11, AnswerKeeps DEF q

-----------------------------------------------------------------------------
(* The theorems of HttpProxy.                                              *)

\* Every reachable state satisfies the inductive invariant.
THEOREM ResponsesInductive == Spec => []ResponsesInv
<1>1. Init => ResponsesInv
  <2> SUFFICES ASSUME Init PROVE ResponsesInv
    OBVIOUS
  <2>1. RequestsTypeOK
    BY BodyAssumption DEF Init, RequestsTypeOK, HandlerPC, BrowserState
  <2>2. Arrived
    BY DEF Init, Arrived
  <2>3. ASSUME NEW r \in Request PROVE RequestInv(r)
    <3>1. /\ handler[r] = [pc |-> "pick", tun |-> NoTun] /\ Tun(r) = NoTun
          /\ browser[r] = [state |-> "none", len |-> 0, declared |-> 0, sent |-> 0]
          /\ conn[r] = "open" /\ got[r] = <<>> /\ received[r] = 0
          /\ \A t \in Tunnel : down[t] = <<>> /\ reqs[t] = {}
      BY DEF Init, Tun
    <3>2. MaxBody[r] \in Nat
      BY BodyAssumption
    <3>3. Placed(r) /\ Live(r) /\ Given(r) /\ ~Going(r)
      BY <3>1 DEF Placed, Live, Given, Going
    <3>4. Responding(r)
      BY <3>1, <3>2 DEF Responding
    <3>5. \A t \in Tunnel : Ordered(down[t], r, received[r], Sent(browser[r]))
      BY <3>1 DEF Ordered
    <3> QED
      BY <3>3, <3>4, <3>5 DEF RequestInv
  <2> QED
    BY <2>1, <2>2, <2>3 DEF ResponsesInv
<1>2. ResponsesInv /\ [Next]_vars => ResponsesInv'
  <2> SUFFICES ASSUME ResponsesInv, [Next]_vars PROVE ResponsesInv'
    OBVIOUS
  <2>1. ASSUME NEW r \in Request, HandlerSteps(r) \/ HandlerReturns(r) PROVE ResponsesInv'
    BY <2>1, PickKeeps, GoesOnKeeps, StoreKeeps, WriteKeeps, DeleteKeeps, CloseKeeps
       DEF HandlerSteps, HandlerReturns
  <2>2. ASSUME NEW t \in Tunnel, ReaderSteps(t) \/ ServeReturns(t) PROVE ResponsesInv'
    BY <2>2, DropKeeps, HeadersKeep, DataKeeps, ErrorKeeps, ReturnsKeeps DEF ReaderSteps
  <2>5. ASSUME NEW r \in Request, UserStopsReading(r) PROVE ResponsesInv'
    BY <2>5 DEF UserStopsReading, reqVars, ResponsesInv, RequestsTypeOK, Arrived, Addressed, RequestInv,
                Placed, Responding, Going, Flows, Live, Given, Tun
  <2>3. ASSUME Environment PROVE ResponsesInv'
    BY <2>3, <2>5, UserLeavesKeeps, BrowserHeadersKeep, BrowserDataKeep, BrowserFailsKeep, DiesKeeps
       DEF Environment
  <2>4. CASE UNCHANGED vars
    BY <2>4 DEF vars, reqVars, ResponsesInv, RequestsTypeOK, Arrived, Addressed, RequestInv, Placed, Responding,
                Going, Flows, Live, Given, Tun
  <2> QED
    BY <2>1, <2>2, <2>3, <2>4 DEF Next
<1> QED
  BY <1>1, <1>2, PTL DEF Spec

\* The map of a tunnel never holds a request that nobody will take out of it.
THEOREM ReqsInvariant == Spec => []ReqsInv
<1>1. ResponsesInv /\ deaf \subseteq Request => ReqsInv
  BY DEF ResponsesInv, RequestInv, Live, ReqsInv, ReqsAreLive, TypeOK, RequestsTypeOK
<1>2. Init => deaf \subseteq Request
  BY DEF Init
<1>3. deaf \subseteq Request /\ [Next]_vars => (deaf \subseteq Request)'
  BY DEF Next, HandlerSteps, HandlerReturns, ReaderSteps, ServeReturns, Environment, UserLeaves,
         UserStopsReading, vars
<1> QED
  BY <1>1, <1>2, <1>3, ResponsesInductive, PTL DEF Spec

\* Nobody's connection is closed by the proxy on a response that is not whole,
\* save in the cases that ClosedIsWhole names.
THEOREM ResponsesAreWhole == Spec => []ClosedIsWhole
<1>1. ResponsesInv => ClosedIsWhole
  BY DEF ResponsesInv, RequestInv, Given, ClosedIsWhole
<1> QED
  BY <1>1, ResponsesInductive, PTL

-----------------------------------------------------------------------------
(* Websockets of browsers.                                                 *)

\* The websockets of an address that are handled.
Handled(i) == {c \in Conn : pc[c] # "out" /\ ip[c] = i}

\* The count of an address is that of its websockets, and within the limit.
Counted == \A i \in IP : ipCount[i] = Cardinality(Handled(i)) /\ ipCount[i] <= MaxPerIP

TunnelsInv ==
  /\ TunnelsTypeOK
  /\ node \in [Conn -> Node \cup {None}] /\ ip \in [Conn -> IP \cup {None}]
  /\ Counted /\ RegisteredIsAlive /\ NoGhostOnline

\* What a step of a goroutine that is being handled, and goes on being, does
\* not change.
LEMMA GoesOnHandled ==
  ASSUME TunnelsInv, NEW c \in Conn, NEW to \in PCs \ {"out"}, pc[c] # "out",
         pc' = [pc EXCEPT ![c] = to], UNCHANGED <<peer, ipCount>>
  PROVE  /\ pc' \in [Conn -> PCs]
         /\ \A d \in Conn : IF pc'[d] = "out" THEN node'[d] = None /\ ip'[d] = None
                                              ELSE node'[d] \in Node /\ ip'[d] \in IP
         /\ node' \in [Conn -> Node \cup {None}] /\ ip' \in [Conn -> IP \cup {None}]
         /\ ipCount' \in [IP -> Nat] /\ Counted'
<1>1. \A d \in Conn : pc'[d] = IF d = c THEN to ELSE pc[d]
  BY DEF TunnelsInv, TunnelsTypeOK
<1>2. node' = node /\ ip' = ip
  BY DEF peer
<1>3. \A i \in IP : Handled(i)' = Handled(i)
  BY <1>1, <1>2 DEF Handled
<1> QED
  BY <1>1, <1>2, <1>3 DEF TunnelsInv, TunnelsTypeOK, Counted

\* Goroutines of other nodes are not concerned, nor is a registered tunnel
\* that goes on.
LEMMA StaysRegistered ==
  ASSUME TunnelsInv, NEW c \in Conn, NEW to \in PCs, pc' = [pc EXCEPT ![c] = to],
         node' = node, tunnels' = tunnels,
         pc[c] \in {"register", "online", "free", "serve", "offline", "delete"} =>
           to \in {"register", "online", "free", "serve", "offline", "delete"}
  PROVE  RegisteredIsAlive'
<1>1. \A d \in Conn : pc'[d] = IF d = c THEN to ELSE pc[d]
  BY DEF TunnelsInv, TunnelsTypeOK
<1>2. \A n \in Node : tunnels[n] # None => tunnels[n] \in Conn
  BY DEF TunnelsInv, TunnelsTypeOK
<1> QED
  BY <1>1, <1>2 DEF TunnelsInv, RegisteredIsAlive

LEMMA StaysOnline ==
  ASSUME TunnelsInv, NEW c \in Conn, NEW to \in PCs, pc' = [pc EXCEPT ![c] = to],
         node' = node, online' = online, ghosts' = ghosts,
         pc[c] \in {"free", "serve", "offline"} => to \in {"free", "serve", "offline"}
  PROVE  NoGhostOnline'
<1>1. \A d \in Conn : pc'[d] = IF d = c THEN to ELSE pc[d]
  BY DEF TunnelsInv, TunnelsTypeOK
<1>2. ASSUME NEW n \in online' \ ghosts'
      PROVE  \E d \in Conn : node'[d] = n /\ pc'[d] \in {"free", "serve", "offline"}
  <2>1. PICK d \in Conn : node[d] = n /\ pc[d] \in {"free", "serve", "offline"}
    BY <1>2 DEF TunnelsInv, NoGhostOnline
  <2>2. node'[d] = n /\ pc'[d] \in {"free", "serve", "offline"}
    BY <1>1, <2>1
  <2> QED
    BY <2>2
<1> QED
  BY <1>2 DEF NoGhostOnline

\* A goroutine arrives and leaves.
LEMMA ArriveKeeps ==
  ASSUME TunnelsInv, NEW c \in Conn, NEW n \in Node, NEW i \in IP, Arrive(c, n, i)
  PROVE  TunnelsInv'
<1>1. /\ pc[c] = "out" /\ pc' = [pc EXCEPT ![c] = "enter"]
      /\ node' = [node EXCEPT ![c] = n] /\ ip' = [ip EXCEPT ![c] = i]
      /\ ipCount' = [ipCount EXCEPT ![i] = ipCount[i] + 1] /\ ipCount[i] < MaxPerIP
      /\ UNCHANGED <<ws, tunnels, online, ghosts>>
  BY DEF Arrive, MoveTo
<1>2. /\ pc \in [Conn -> PCs] /\ ipCount \in [IP -> Nat] /\ "enter" \in PCs
      /\ node \in [Conn -> Node \cup {None}] /\ ip \in [Conn -> IP \cup {None}]
  BY DEF TunnelsInv, TunnelsTypeOK, PCs
<1>3. \A d \in Conn : /\ pc'[d] = IF d = c THEN "enter" ELSE pc[d]
                      /\ node'[d] = IF d = c THEN n ELSE node[d]
                      /\ ip'[d] = IF d = c THEN i ELSE ip[d]
  BY <1>1, <1>2
<1>4. TunnelsTypeOK' /\ node' \in [Conn -> Node \cup {None}] /\ ip' \in [Conn -> IP \cup {None}]
  BY <1>1, <1>2, <1>3 DEF TunnelsInv, TunnelsTypeOK
<1>5. Counted'
  <2>1. \A j \in IP : /\ IsFiniteSet(Handled(j)) /\ Cardinality(Handled(j)) \in Nat
                      /\ Handled(j)' = IF j = i THEN Handled(j) \cup {c} ELSE Handled(j)
                      /\ c \notin Handled(j)
    <3>1. ASSUME NEW j \in IP PROVE IsFiniteSet(Handled(j)) /\ Cardinality(Handled(j)) \in Nat
      <4>1. Handled(j) \subseteq Conn
        BY DEF Handled
      <4> QED
        BY <4>1, SetsAssumption, FS_Subset, FS_CardinalityType
    <3>2. ASSUME NEW j \in IP
          PROVE  Handled(j)' = (IF j = i THEN Handled(j) \cup {c} ELSE Handled(j)) /\ c \notin Handled(j)
      <4>1. \A d \in Conn : d \in Handled(j)' <=> pc'[d] # "out" /\ ip'[d] = j
        BY DEF Handled
      <4>2. \A d \in Conn : d \in Handled(j) <=> pc[d] # "out" /\ ip[d] = j
        BY DEF Handled
      <4>3. Handled(j)' \subseteq Conn /\ Handled(j) \subseteq Conn /\ c \notin Handled(j)
        BY <1>1 DEF Handled
      <4>4. CASE j = i
        BY <1>3, <4>1, <4>2, <4>3, <4>4
      <4>5. CASE j # i
        BY <1>1, <1>3, <4>1, <4>2, <4>3, <4>5
      <4> QED
        BY <4>3, <4>4, <4>5
    <3> QED
      BY <3>1, <3>2
  <2>2. \A j \in IP : Cardinality(Handled(j)') = IF j = i THEN Cardinality(Handled(j)) + 1
                                                          ELSE Cardinality(Handled(j))
    BY <2>1, FS_AddElement
  <2>3. \A j \in IP : ipCount'[j] = IF j = i THEN ipCount[j] + 1 ELSE ipCount[j]
    BY <1>1, <1>2
  <2>4. MaxPerIP \in Nat /\ \A j \in IP : ipCount[j] \in Nat
    BY <1>2, SetsAssumption
  <2> QED
    BY <1>1, <2>2, <2>3, <2>4 DEF TunnelsInv, Counted
<1>6. RegisteredIsAlive'
  <2>1. \A m \in Node : tunnels[m] # None => tunnels[m] \in Conn /\ tunnels[m] # c
    BY <1>1 DEF TunnelsInv, TunnelsTypeOK, RegisteredIsAlive
  <2> QED
    BY <1>1, <1>3, <2>1 DEF TunnelsInv, RegisteredIsAlive
<1>7. NoGhostOnline'
  <2>1. ASSUME NEW m \in online \ ghosts
        PROVE  \E d \in Conn : node'[d] = m /\ pc'[d] \in {"free", "serve", "offline"}
    <3>1. PICK d \in Conn : node[d] = m /\ pc[d] \in {"free", "serve", "offline"}
      BY DEF TunnelsInv, NoGhostOnline
    <3>2. node'[d] = m /\ pc'[d] \in {"free", "serve", "offline"}
      BY <1>1, <1>3, <3>1
    <3> QED
      BY <3>2
  <2> QED
    BY <1>1, <2>1 DEF NoGhostOnline
<1> QED
  BY <1>4, <1>5, <1>6, <1>7 DEF TunnelsInv

LEMMA LeaveKeeps ==
  ASSUME TunnelsInv, NEW c \in Conn, Leave(c)
  PROVE  TunnelsInv'
<1>p. PICK i : i = ip[c]
  OBVIOUS
<1>1. /\ pc[c] = "leave" /\ pc' = [pc EXCEPT ![c] = "out"]
      /\ node' = [node EXCEPT ![c] = None] /\ ip' = [ip EXCEPT ![c] = None]
      /\ ipCount' = [ipCount EXCEPT ![i] = ipCount[i] - 1]
      /\ ws' = [ws EXCEPT ![c] = "closed"]
      /\ UNCHANGED <<tunnels, online, ghosts>>
  BY <1>p DEF Leave, MoveTo, SetSock
<1>2. /\ pc \in [Conn -> PCs] /\ ipCount \in [IP -> Nat] /\ "out" \in PCs
      /\ node \in [Conn -> Node \cup {None}] /\ ip \in [Conn -> IP \cup {None}]
      /\ ws \in [Conn -> {"open", "silent", "closed"}] /\ i \in IP
  BY <1>1, <1>p DEF TunnelsInv, TunnelsTypeOK, PCs
<1>3. \A d \in Conn : /\ pc'[d] = IF d = c THEN "out" ELSE pc[d]
                      /\ node'[d] = IF d = c THEN None ELSE node[d]
                      /\ ip'[d] = IF d = c THEN None ELSE ip[d]
  BY <1>1, <1>2
<1>4. \A j \in IP : /\ IsFiniteSet(Handled(j)) /\ Cardinality(Handled(j)) \in Nat
                    /\ Handled(j)' = IF j = i THEN Handled(j) \ {c} ELSE Handled(j)
  <2>1. ASSUME NEW j \in IP PROVE IsFiniteSet(Handled(j)) /\ Cardinality(Handled(j)) \in Nat
    <3>1. Handled(j) \subseteq Conn
      BY DEF Handled
    <3> QED
      BY <3>1, SetsAssumption, FS_Subset, FS_CardinalityType
  <2> QED
    BY <1>1, <1>3, <1>p, <2>1 DEF Handled
<1>5. c \in Handled(i)
  BY <1>1, <1>p DEF Handled
<1>6. Cardinality(Handled(i) \ {c}) = Cardinality(Handled(i)) - 1
  BY <1>2, <1>4, <1>5, FS_RemoveElement
<1>7. ipCount[i] = Cardinality(Handled(i)) /\ ipCount[i] <= MaxPerIP
  BY <1>2 DEF TunnelsInv, Counted
<1>8. Cardinality(Handled(i)) > 0
  <2>1. Handled(i) # {}
    BY <1>5
  <2> QED
    BY <1>2, <1>4, <2>1, FS_EmptySet
<1>9. ipCount' \in [IP -> Nat] /\ \A j \in IP : ipCount'[j] = IF j = i THEN ipCount[j] - 1 ELSE ipCount[j]
  BY <1>1, <1>2, <1>7, <1>8
<1>10. TunnelsTypeOK' /\ node' \in [Conn -> Node \cup {None}] /\ ip' \in [Conn -> IP \cup {None}]
  <2>1. pc' \in [Conn -> PCs] /\ ws' \in [Conn -> {"open", "silent", "closed"}]
    BY <1>1, <1>2
  <2> QED
    BY <1>1, <1>2, <1>3, <1>9, <2>1 DEF TunnelsInv, TunnelsTypeOK
<1>11. Counted'
  <2>1. MaxPerIP \in Nat /\ \A j \in IP : ipCount[j] \in Nat
    BY <1>2, SetsAssumption
  <2> QED
    BY <1>4, <1>6, <1>7, <1>9, <2>1 DEF TunnelsInv, Counted
<1>12. RegisteredIsAlive'
  <2>1. \A m \in Node : tunnels[m] # None => tunnels[m] \in Conn /\ tunnels[m] # c
    BY <1>1 DEF TunnelsInv, TunnelsTypeOK, RegisteredIsAlive
  <2> QED
    BY <1>1, <1>3, <2>1 DEF TunnelsInv, RegisteredIsAlive
<1>13. NoGhostOnline'
  <2>1. ASSUME NEW m \in online \ ghosts
        PROVE  \E d \in Conn : node'[d] = m /\ pc'[d] \in {"free", "serve", "offline"}
    <3>1. PICK d \in Conn : node[d] = m /\ pc[d] \in {"free", "serve", "offline"}
      BY DEF TunnelsInv, NoGhostOnline
    <3>2. node'[d] = m /\ pc'[d] \in {"free", "serve", "offline"}
      BY <1>1, <1>3, <3>1
    <3> QED
      BY <3>2
  <2> QED
    BY <1>1, <2>1 DEF NoGhostOnline
<1> QED
  BY <1>10, <1>11, <1>12, <1>13 DEF TunnelsInv

\* The steps in between.
LEMMA HandlingKeeps ==
  ASSUME TunnelsInv, NEW c \in Conn,
         \/ Upgrade(c) \/ UpgradeFails(c) \/ ReplaceOld(c) \/ Store(c) \/ SetNode(c)
         \/ CallFails(c) \/ SetOnline(c) \/ OnlineReplyLost(c) \/ AddFree(c)
         \/ ServeEnds(c) \/ SetOffline(c) \/ SetOfflineFails(c) \/ DeleteTunnel(c)
  PROVE  TunnelsInv'
<1> DEFINE n == node[c]
<1>t. /\ ws \in [Conn -> {"open", "silent", "closed"}] /\ pc \in [Conn -> PCs]
      /\ tunnels \in [Node -> Conn \cup {None}] /\ online \subseteq Node /\ ghosts \subseteq Node
  BY DEF TunnelsInv, TunnelsTypeOK
\* Every one is a step of a goroutine that is handled.
<1>1. PICK to \in PCs \ {"out"} : pc' = [pc EXCEPT ![c] = to]
  BY DEF Upgrade, UpgradeFails, ReplaceOld, Store, SetNode, CallFails, SetOnline, OnlineReplyLost, AddFree,
         ServeEnds, SetOffline, SetOfflineFails, DeleteTunnel, MoveTo, PCs
<1>2. pc[c] # "out" /\ UNCHANGED <<peer, ipCount>>
  BY DEF Upgrade, UpgradeFails, ReplaceOld, Store, SetNode, CallFails, SetOnline, OnlineReplyLost, AddFree,
         ServeEnds, SetOffline, SetOfflineFails, DeleteTunnel, MoveTo
<1>3. n \in Node /\ node' = node /\ \A d \in Conn : pc'[d] = IF d = c THEN to ELSE pc[d]
  BY <1>1, <1>2, <1>t DEF TunnelsInv, TunnelsTypeOK, peer
<1> HIDE DEF n
<1>4. ws' \in [Conn -> {"open", "silent", "closed"}]
  <2>1. CASE ReplaceOld(c)
    BY <1>t, <2>1 DEF ReplaceOld, SetSock
  <2>2. CASE ~ReplaceOld(c)
    BY <1>t, <2>2 DEF Upgrade, UpgradeFails, Store, SetNode, CallFails, SetOnline, OnlineReplyLost, AddFree,
                      ServeEnds, SetOffline, SetOfflineFails, DeleteTunnel, SetSock
  <2> QED
    BY <2>1, <2>2
<1>5. ghosts' \subseteq Node /\ online' \subseteq Node
  BY <1>3, <1>t DEF Upgrade, UpgradeFails, ReplaceOld, Store, SetNode, CallFails, SetOnline, OnlineReplyLost, AddFree,
                    ServeEnds, SetOffline, SetOfflineFails, DeleteTunnel, n
<1>6. CASE Store(c)
  <2>1. /\ pc[c] = "store" /\ to = "register" /\ online' = online /\ ghosts' = ghosts
        /\ tunnels' = [tunnels EXCEPT ![n] = c]
    BY <1>1, <1>6, <1>t DEF Store, MoveTo, n
  <2>2. \A m \in Node : tunnels'[m] = IF m = n THEN c ELSE tunnels[m]
    BY <1>t, <2>1
  <2>3. tunnels' \in [Node -> Conn \cup {None}]
    BY <1>t, <2>1
  <2>4. RegisteredIsAlive'
    <3>1. ASSUME NEW m \in Node, tunnels'[m] # None
          PROVE  /\ node'[tunnels'[m]] = m
                 /\ pc'[tunnels'[m]] \in {"register", "online", "free", "serve", "offline", "delete"}
      <4>1. CASE m = n
        BY <1>3, <2>1, <2>2, <4>1 DEF n
      <4>2. CASE m # n
        BY <1>3, <1>t, <2>1, <2>2, <3>1, <4>2 DEF TunnelsInv, RegisteredIsAlive
      <4> QED
        BY <4>1, <4>2
    <3> QED
      BY <3>1 DEF RegisteredIsAlive
  <2>5. NoGhostOnline'
    BY <1>1, <1>3, <2>1, StaysOnline
  <2> QED
    BY <1>1, <1>2, <1>4, <1>5, <2>3, <2>4, <2>5, GoesOnHandled DEF TunnelsInv, TunnelsTypeOK
<1>7. CASE DeleteTunnel(c)
  <2>1. /\ pc[c] = "delete" /\ to = "leave" /\ online' = online /\ ghosts' = ghosts
        /\ tunnels' = [tunnels EXCEPT ![n] = None]
    BY <1>1, <1>7, <1>t DEF DeleteTunnel, MoveTo, n
  <2>2. \A m \in Node : tunnels'[m] = IF m = n THEN None ELSE tunnels[m]
    BY <1>t, <2>1
  <2>3. tunnels' \in [Node -> Conn \cup {None}]
    BY <1>t, <2>1
  <2>4. RegisteredIsAlive'
    <3>1. ASSUME NEW m \in Node, tunnels'[m] # None
          PROVE  /\ node'[tunnels'[m]] = m
                 /\ pc'[tunnels'[m]] \in {"register", "online", "free", "serve", "offline", "delete"}
      <4>1. m # n /\ tunnels'[m] = tunnels[m]
        BY <2>2, <3>1
      <4>2. tunnels[m] # c
        BY <3>1, <4>1 DEF TunnelsInv, RegisteredIsAlive, n
      <4> QED
        BY <1>3, <1>t, <3>1, <4>1, <4>2 DEF TunnelsInv, RegisteredIsAlive
    <3> QED
      BY <3>1 DEF RegisteredIsAlive
  <2>5. NoGhostOnline'
    BY <1>1, <1>3, <2>1, StaysOnline
  <2> QED
    BY <1>1, <1>2, <1>4, <1>5, <2>3, <2>4, <2>5, GoesOnHandled DEF TunnelsInv, TunnelsTypeOK
<1>8. CASE SetOnline(c)
  <2>1. /\ pc[c] = "online" /\ to = "free" /\ tunnels' = tunnels
        /\ online' = online \cup {n} /\ ghosts' = ghosts \ {n}
    BY <1>1, <1>8, <1>t DEF SetOnline, MoveTo, n
  <2>2. RegisteredIsAlive'
    BY <1>1, <1>3, <2>1, StaysRegistered
  <2>3. NoGhostOnline'
    <3>1. ASSUME NEW m \in online' \ ghosts'
          PROVE  \E d \in Conn : node'[d] = m /\ pc'[d] \in {"free", "serve", "offline"}
      <4>1. CASE m = n
        BY <1>3, <2>1, <4>1 DEF n
      <4>2. CASE m # n
        <5>1. PICK d \in Conn : node[d] = m /\ pc[d] \in {"free", "serve", "offline"}
          BY <2>1, <3>1, <4>2 DEF TunnelsInv, NoGhostOnline
        <5> QED
          BY <1>3, <2>1, <5>1
      <4> QED
        BY <4>1, <4>2
    <3> QED
      BY <3>1 DEF NoGhostOnline
  <2> QED
    BY <1>1, <1>2, <1>4, <1>5, <1>t, <2>1, <2>2, <2>3, GoesOnHandled DEF TunnelsInv, TunnelsTypeOK
<1>9. CASE SetOffline(c) \/ SetOfflineFails(c)
  <2>1. /\ pc[c] = "offline" /\ to = "delete" /\ tunnels' = tunnels
        /\ \/ online' = online \ {n} /\ ghosts' = ghosts \ {n}
           \/ online' = online /\ ghosts' = ghosts \cup {n}
    BY <1>1, <1>9, <1>t DEF SetOffline, SetOfflineFails, MoveTo, n
  <2>2. RegisteredIsAlive'
    BY <1>1, <1>3, <2>1, StaysRegistered
  <2>3. NoGhostOnline'
    <3>1. ASSUME NEW m \in online' \ ghosts'
          PROVE  \E d \in Conn : node'[d] = m /\ pc'[d] \in {"free", "serve", "offline"}
      <4>1. PICK d \in Conn : node[d] = m /\ pc[d] \in {"free", "serve", "offline"}
        BY <2>1, <3>1 DEF TunnelsInv, NoGhostOnline
      <4>2. d # c
        BY <2>1, <3>1, <4>1 DEF n
      <4> QED
        BY <1>3, <4>1, <4>2
    <3> QED
      BY <3>1 DEF NoGhostOnline
  <2> QED
    BY <1>1, <1>2, <1>4, <1>5, <1>t, <2>1, <2>2, <2>3, GoesOnHandled DEF TunnelsInv, TunnelsTypeOK
<1>10. CASE \/ Upgrade(c) \/ UpgradeFails(c) \/ ReplaceOld(c) \/ SetNode(c) \/ CallFails(c)
            \/ AddFree(c) \/ ServeEnds(c)
  <2>1. /\ online' = online /\ ghosts' = ghosts /\ tunnels' = tunnels
        /\ pc[c] \in {"register", "online", "free", "serve", "offline", "delete"} =>
             to \in {"register", "online", "free", "serve", "offline", "delete"}
        /\ pc[c] \in {"free", "serve", "offline"} => to \in {"free", "serve", "offline"}
    BY <1>1, <1>10, <1>t DEF Upgrade, UpgradeFails, ReplaceOld, SetNode, CallFails, AddFree,
                             ServeEnds, MoveTo
  <2>2. RegisteredIsAlive' /\ NoGhostOnline'
    BY <1>1, <1>3, <2>1, StaysRegistered, StaysOnline
  <2> QED
    BY <1>1, <1>2, <1>4, <1>5, <1>t, <2>1, <2>2, GoesOnHandled DEF TunnelsInv, TunnelsTypeOK
<1>11. CASE OnlineReplyLost(c)
  <2>1. /\ pc[c] = "online" /\ to = "delete" /\ tunnels' = tunnels
        /\ online' = online \cup {n} /\ ghosts' = ghosts \cup {n}
    BY <1>1, <1>11, <1>t DEF OnlineReplyLost, MoveTo, n
  <2>2. RegisteredIsAlive'
    BY <1>1, <1>3, <2>1, StaysRegistered
  <2>3. NoGhostOnline'
    <3>1. ASSUME NEW m \in online' \ ghosts'
          PROVE  \E d \in Conn : node'[d] = m /\ pc'[d] \in {"free", "serve", "offline"}
      <4>1. PICK d \in Conn : node[d] = m /\ pc[d] \in {"free", "serve", "offline"}
        BY <2>1, <3>1 DEF TunnelsInv, NoGhostOnline
      <4>2. d # c
        BY <2>1, <4>1
      <4> QED
        BY <1>3, <4>1, <4>2
    <3> QED
      BY <3>1 DEF NoGhostOnline
  <2> QED
    BY <1>1, <1>2, <1>4, <1>5, <1>t, <2>1, <2>2, <2>3, GoesOnHandled DEF TunnelsInv, TunnelsTypeOK
<1> QED
  BY <1>6, <1>7, <1>8, <1>9, <1>10, <1>11

\* Websockets end by themselves.
LEMMA NetworkKeeps ==
  ASSUME TunnelsInv, NEW c \in Conn, NEW s \in {"silent", "closed"}, SetSock(c, s),
         UNCHANGED <<pc, peer, ipCount, tunnels, online, ghosts>>
  PROVE  TunnelsInv'
<1>1. ws' \in [Conn -> {"open", "silent", "closed"}]
  BY DEF TunnelsInv, TunnelsTypeOK, SetSock
<1> QED
  BY <1>1 DEF TunnelsInv, TunnelsTypeOK, Counted, Handled, RegisteredIsAlive, NoGhostOnline, peer

\* Every goroutine, the network and the keepalive keep the map, the counts and
\* the set of online nodes right.
THEOREM TunnelsInductive == TunnelsSpec => []TunnelsInv
<1>1. TunnelsInit => TunnelsInv
  <2> SUFFICES ASSUME TunnelsInit PROVE TunnelsInv
    OBVIOUS
  <2>1. TunnelsTypeOK /\ node \in [Conn -> Node \cup {None}] /\ ip \in [Conn -> IP \cup {None}]
    BY DEF TunnelsInit, TunnelsTypeOK, PCs
  <2>2. Counted
    <3>1. \A i \in IP : Handled(i) = {}
      BY DEF TunnelsInit, Handled
    <3> QED
      BY <3>1, SetsAssumption, FS_EmptySet DEF TunnelsInit, Counted
  <2>3. RegisteredIsAlive /\ NoGhostOnline
    BY DEF TunnelsInit, RegisteredIsAlive, NoGhostOnline
  <2> QED
    BY <2>1, <2>2, <2>3 DEF TunnelsInv
<1>2. TunnelsInv /\ [TunnelsNext]_tunnelVars => TunnelsInv'
  <2> SUFFICES ASSUME TunnelsInv, [TunnelsNext]_tunnelVars PROVE TunnelsInv'
    OBVIOUS
  <2>1. CASE UNCHANGED tunnelVars
    BY <2>1 DEF tunnelVars, peer, TunnelsInv, TunnelsTypeOK, Counted, Handled, RegisteredIsAlive, NoGhostOnline
  <2>2. ASSUME NEW c \in Conn, PeerCloses(c) \/ PeerVanishes(c) PROVE TunnelsInv'
    BY <2>2, NetworkKeeps DEF PeerCloses, PeerVanishes
  <2>3. ASSUME NEW n \in Node, Keepalive(n) PROVE TunnelsInv'
    <3>1. tunnels[n] \in Conn
      BY <2>3 DEF Keepalive, TunnelsInv, TunnelsTypeOK
    <3> QED
      BY <2>3, <3>1, NetworkKeeps DEF Keepalive
  <2> QED
    BY <2>1, <2>2, <2>3, ArriveKeeps, LeaveKeeps, HandlingKeeps DEF TunnelsNext
<1> QED
  BY <1>1, <1>2, PTL DEF TunnelsSpec

\* The limit of websockets of one address holds, and the manager's map holds
\* only tunnels whose goroutines have yet to take the node out of it.
THEOREM RegistryIsRight == TunnelsSpec => []RegistryInv
<1>1. TunnelsInv => RegistryInv
  BY DEF TunnelsInv, RegistryInv, PerIPLimit, Counted, Handled
<1> QED
  BY <1>1, TunnelsInductive, PTL

\* Every node in node:online has a goroutine that will take it out, or was
\* left there by an error of redis.
THEOREM OnlineNodesAreServed == TunnelsSpec => []NoGhostOnline
<1>1. TunnelsInv => NoGhostOnline
  BY DEF TunnelsInv
<1> QED
  BY <1>1, TunnelsInductive, PTL
=============================================================================
