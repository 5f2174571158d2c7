------------------------- MODULE ProxySessionProofs -------------------------
(***************************************************************************)
(* Proofs about ProxySession, for any number of sessions, items and        *)
(* breaks of the websocket: the types, that data finds its session at the  *)
(* client, that what a user gets has no gap and, when its beginning is     *)
(* missing, the client closes its end, and that the destinations get       *)
(* streams of their users' items.                                          *)
(***************************************************************************)
EXTENDS ProxySession, SequenceTheorems, TLAPS

(***************************************************************************)
(* Queues of messages.                                                     *)
(***************************************************************************)
\* The messages in a queue.
Carried(q) == {q[i] : i \in DOMAIN q}

\* What a write, a read and a break do to what a queue carries.
LEMMA Appended ==
  ASSUME NEW q \in Seq(Message), NEW m \in Message
  PROVE  Append(q, m) \in Seq(Message) /\ Carried(Append(q, m)) = Carried(q) \cup {m}
<1>1. /\ Append(q, m) \in Seq(Message)
      /\ Len(Append(q, m)) = Len(q) + 1
      /\ \A i \in 1..Len(q) : Append(q, m)[i] = q[i]
      /\ Append(q, m)[Len(q) + 1] = m
  BY AppendProperties
<1>2. DOMAIN q = 1..Len(q) /\ DOMAIN Append(q, m) = 1..(Len(q) + 1) /\ Len(q) \in Nat
  BY <1>1, LenProperties
<1> QED
  BY <1>1, <1>2 DEF Carried

LEMMA TakenOff ==
  ASSUME NEW q \in Seq(Message), q # <<>>
  PROVE  /\ Head(q) \in Message /\ Head(q) \in Carried(q)
         /\ Tail(q) \in Seq(Message) /\ Carried(Tail(q)) \subseteq Carried(q)
<1>1. /\ Head(q) = q[1] /\ Head(q) \in Message
      /\ Tail(q) \in Seq(Message) /\ Len(Tail(q)) = Len(q) - 1
      /\ \A i \in 1..Len(Tail(q)) : Tail(q)[i] = q[i + 1]
  BY HeadTailProperties
<1>2. DOMAIN q = 1..Len(q) /\ DOMAIN Tail(q) = 1..Len(Tail(q)) /\ Len(q) \in Nat \ {0}
  BY <1>1, LenProperties, EmptySeq
<1> QED
  BY <1>1, <1>2 DEF Carried

LEMMA CutOff ==
  ASSUME NEW q \in Seq(Message), NEW k \in 0..Len(q)
  PROVE  SubSeq(q, 1, k) \in Seq(Message) /\ Carried(SubSeq(q, 1, k)) \subseteq Carried(q)
<1>1. Len(q) \in Nat /\ DOMAIN q = 1..Len(q)
  BY LenProperties
<1>2. /\ SubSeq(q, 1, k) \in Seq(Message)
      /\ Len(SubSeq(q, 1, k)) = k
      /\ \A i \in 1..k : SubSeq(q, 1, k)[i] = q[i]
  BY <1>1, SubSeqProperties
<1>3. DOMAIN SubSeq(q, 1, k) = 1..k
  BY <1>2, LenProperties
<1> QED
  BY <1>1, <1>2, <1>3 DEF Carried
(***************************************************************************)
(* The inductive invariant.  A session the server believes in has been     *)
(* dialled, because the client stores it before it answers; so has every   *)
(* session that data or a positive answer is on its way for.  That the     *)
(* item sent with a request exists is what makes the types inductive.      *)
(***************************************************************************)
AnsweredIsDialled ==
  \A s \in Session : server[s].pc \in {"created", "extra", "relay", "eof"} => Dialled(s)

AnswerIsDialled ==
  \A m \in Carried(down) : m.type = "reply" /\ m.data = 1 => Dialled(m.session)

DataIsDialled == \A m \in Carried(up) : m.type = "data" => Dialled(m.session)

ExtraWasSent == \A s \in Session : server[s].extra => user[s].sent > 0

IInv == TypeOK /\ ExtraWasSent /\ AnsweredIsDialled /\ AnswerIsDialled /\ DataIsDialled

\* The bound on breaks leaves room for the reconnect after each.
EpochBounded == link # "up" => epoch < MaxBreaks

\* A message this program builds is one.
LEMMA MsgType ==
  ASSUME NEW s \in Session, NEW d \in Nat
  PROVE  /\ Msg("create", s, d) \in Message /\ Msg("reply", s, d) \in Message
         /\ Msg("data", s, d) \in Message /\ Msg("close", s, d) \in Message
  BY DEF Msg, Message

\* Giving an item to a peer and closing keep a connection one.
LEMMA ConnectionType ==
  ASSUME NEW c \in Connection, NEW item \in Nat
  PROVE  /\ Written(c, item) \in Connection /\ Closed(c) \in Connection
         /\ Written(c, item).read = c.read /\ Written(c, item).sent = c.sent
         /\ Closed(c).read = c.read /\ Closed(c).sent = c.sent
<1>1. c.got \in Seq(Nat) /\ Append(c.got, item) \in Seq(Nat)
  BY AppendProperties DEF Connection
<1> QED
  BY <1>1 DEF Connection, Written, Closed

\* Changing the program counter of a session, and nothing else of it.
LEMMA GoServerType ==
  ASSUME TypeOK, NEW s \in Session, NEW pc \in ServerPC, GoServer(s, pc)
  PROVE  /\ server' \in [Session -> ServerState]
         /\ server'[s].pc = pc
         /\ \A r \in Session : server'[r].extra = server[r].extra
         /\ \A r \in Session : r # s => server'[r].pc = server[r].pc
<1>1. ASSUME NEW x \in ServerState
      PROVE  /\ [x EXCEPT !.pc = pc] \in ServerState
             /\ [x EXCEPT !.pc = pc].pc = pc /\ [x EXCEPT !.pc = pc].extra = x.extra
  BY DEF ServerState
<1> QED
  BY <1>1 DEF TypeOK, GoServer

LEMMA GoClientType ==
  ASSUME TypeOK, NEW s \in Session, NEW pc \in ClientPC, GoClient(s, pc)
  PROVE  /\ client' \in [Session -> ClientState]
         /\ client'[s].pc = pc
         /\ \A r \in Session : r # s => client'[r].pc = client[r].pc
<1>1. ASSUME NEW x \in ClientState
      PROVE  [x EXCEPT !.pc = pc] \in ClientState /\ [x EXCEPT !.pc = pc].pc = pc
  BY DEF ClientState
<1> QED
  BY <1>1 DEF TypeOK, GoClient

\* Replacing a session's connection.
LEMMA SetConnType ==
  ASSUME TypeOK, NEW s \in Session, NEW c \in Connection, c.read <= c.sent
  PROVE  /\ SetUser(s, c) => /\ user' \in [Session -> Connection]
                             /\ \A r \in Session : user'[r].read <= user'[r].sent
                             /\ user'[s] = c
                             /\ \A r \in Session : r # s => user'[r] = user[r]
         /\ SetDest(s, c) => /\ dest' \in [Session -> Connection]
                             /\ \A r \in Session : dest'[r].read <= dest'[r].sent
  BY DEF TypeOK, SetUser, SetDest

\* The initial states satisfy the invariant.
LEMMA IInvInit == Init => IInv
<1> SUFFICES ASSUME Init PROVE IInv
  OBVIOUS
<1>1. <<>> \in Seq(Message) /\ <<>> \in Seq(Nat) /\ Carried(<<>>) = {}
  BY EmptySeq DEF Carried
<1>2. Conn("open") \in Connection /\ Conn("none") \in Connection
  BY <1>1 DEF Conn, Connection
<1>3. TypeOK
  BY <1>1, <1>2, BoundsAssumption DEF Init, TypeOK, ServerPC, ClientPC, ServerState, ClientState, Conn
<1> QED
  BY <1>1, <1>3 DEF Init, IInv, ExtraWasSent, AnsweredIsDialled, AnswerIsDialled, DataIsDialled

\* One end of a queue: what Write, Reply and the readers do to what it carries.
LEMMA WriteCarries ==
  ASSUME TypeOK, NEW s \in Session, NEW m \in Message, Write(s, m)
  PROVE  up' \in Seq(Message) /\ Carried(up') \subseteq Carried(up) \cup {m}
  BY Appended DEF TypeOK, Write

LEMMA ReplyCarries ==
  ASSUME TypeOK, NEW s \in Session, NEW m \in Message, Reply(s, m)
  PROVE  down' \in Seq(Message) /\ Carried(down') \subseteq Carried(down) \cup {m}
  BY Appended DEF TypeOK, Reply

\* Connections of the sessions, and what Closed and Written make of them.
LEMMA ConnectionsOf ==
  ASSUME TypeOK, NEW s \in Session
  PROVE  /\ user[s] \in Connection /\ dest[s] \in Connection
         /\ Closed(user[s]) \in Connection /\ Closed(dest[s]) \in Connection
         /\ Closed(user[s]).read <= Closed(user[s]).sent /\ Closed(user[s]).sent = user[s].sent
         /\ Closed(dest[s]).read <= Closed(dest[s]).sent
         /\ user[s].read \in Nat /\ user[s].sent \in Nat
         /\ dest[s].read \in Nat /\ dest[s].sent \in Nat
  BY ConnectionType DEF TypeOK, Connection

\* The steps of a session's goroutine at the server.
LEMMA ServerStep ==
  ASSUME IInv, NEW s \in Session, RequestSession(s) \/ RequestFails(s) \/ AtServer(s)
  PROVE  IInv'
<1> USE DEF IInv
<1>1. CASE RequestSession(s)
  <2>1. up' \in Seq(Message) /\ Carried(up') \subseteq Carried(up) \cup {Msg("create", s, 0)}
    BY <1>1, Appended, MsgType DEF RequestSession, TypeOK
  <2>2. PICK x \in BOOLEAN :
          /\ x => user[s].sent > 0
          /\ server' = [server EXCEPT ![s] = [pc |-> "wrote", tun |-> epoch, extra |-> x]]
    BY <1>1 DEF RequestSession
  <2>3. [pc |-> "wrote", tun |-> epoch, extra |-> x] \in ServerState
    BY DEF ServerState, ServerPC, TypeOK
  <2>4. ExtraWasSent' /\ AnsweredIsDialled' /\ AnswerIsDialled'
    BY <1>1, <2>2 DEF RequestSession, TypeOK, ExtraWasSent, AnsweredIsDialled, AnswerIsDialled,
                      Dialled
  <2>5. DataIsDialled'
    BY <1>1, <2>1 DEF RequestSession, Msg, DataIsDialled, Dialled
  <2>6. TypeOK'
    BY <1>1, <2>1, <2>2, <2>3 DEF RequestSession, TypeOK
  <2> QED
    BY <2>4, <2>5, <2>6
<1>2. ASSUME NEW pc \in {"select", "relay", "eof", "done"}, GoServer(s, pc),
             pc \in {"relay", "eof"} => server[s].pc \in {"extra", "relay"},
             UNCHANGED user \/ SetUser(s, Closed(user[s])),
             UNCHANGED <<link, serving, epoch, up, down, client, dest>>
      PROVE  IInv'
  <2>1. pc \in ServerPC
    BY DEF ServerPC
  <2>2. /\ user' \in [Session -> Connection]
        /\ \A r \in Session : user'[r].read <= user'[r].sent /\ user'[r].sent = user[r].sent
    BY <1>2, ConnectionsOf, SetConnType DEF TypeOK
  <2>3. TypeOK'
    BY <1>2, <2>1, <2>2, GoServerType DEF TypeOK
  <2>4. ExtraWasSent'
    BY <1>2, <2>1, <2>2, GoServerType DEF ExtraWasSent
  <2>5. AnsweredIsDialled'
    BY <1>2, <2>1, GoServerType DEF AnsweredIsDialled, Dialled
  <2>6. AnswerIsDialled' /\ DataIsDialled'
    BY <1>2 DEF AnswerIsDialled, DataIsDialled, Dialled
  <2> QED
    BY <2>3, <2>4, <2>5, <2>6
<1>3. CASE \/ RequestFails(s) \/ CreateTimesOut(s) \/ Listen(s)
           \/ StoreProxy(s) \/ UserEOF(s) \/ DeleteProxy(s)
  BY <1>2, <1>3 DEF RequestFails, CreateTimesOut, Fail, Listen, StoreProxy, UserEOF, DeleteProxy
<1>4. ASSUME NEW n \in Nat, Write(s, Msg("data", s, n)), n <= user[s].sent,
             SetUser(s, [user[s] EXCEPT !.read = n]),
             server[s].pc \in {"created", "relay"},
             GoServer(s, "extra") \/ UNCHANGED server,
             UNCHANGED <<link, serving, epoch, down, client, dest>>
      PROVE  IInv'
  <2>1. up' \in Seq(Message) /\ Carried(up') \subseteq Carried(up) \cup {Msg("data", s, n)}
    BY <1>4, WriteCarries, MsgType
  <2>2. /\ server' \in [Session -> ServerState]
        /\ \A r \in Session : server'[r].extra = server[r].extra
        /\ \A r \in Session : r # s => server'[r].pc = server[r].pc
    BY <1>4, GoServerType DEF TypeOK, ServerPC
  <2>3. AnsweredIsDialled' /\ AnswerIsDialled' /\ Dialled(s)
    BY <1>4, <2>2 DEF AnsweredIsDialled, AnswerIsDialled, Dialled
  <2>4. DataIsDialled'
    BY <1>4, <2>1, <2>3 DEF Msg, DataIsDialled, Dialled
  <2>5. /\ [user[s] EXCEPT !.read = n] \in Connection
        /\ [user[s] EXCEPT !.read = n].read = n
        /\ [user[s] EXCEPT !.read = n].sent = user[s].sent
    BY <1>4, ConnectionsOf DEF Connection
  <2>6. TypeOK'
    BY <1>4, <2>1, <2>2, <2>5, SetConnType DEF TypeOK
  <2>7. ExtraWasSent'
    BY <1>4, <2>2, <2>5, SetConnType, ZenonT(60) DEF ExtraWasSent
  <2> QED
    BY <2>3, <2>4, <2>6, <2>7
<1>5. CASE SendExtra(s) /\ server[s].extra
  <2>1. 1 <= user[s].sent
    BY <1>5, ConnectionsOf DEF ExtraWasSent
  <2> QED
    BY <1>4, <1>5, <2>1 DEF SendExtra
<1>6. CASE SendExtra(s) /\ ~server[s].extra
  <2>1. GoServer(s, "extra") /\ server[s].pc = "created"
        /\ UNCHANGED <<link, serving, epoch, up, down, client, user, dest>>
    BY <1>6 DEF SendExtra
  <2>2. TypeOK' /\ ExtraWasSent'
    BY <2>1, GoServerType DEF TypeOK, ServerPC, ExtraWasSent
  <2>3. AnsweredIsDialled' /\ AnswerIsDialled' /\ DataIsDialled'
    BY <2>1, GoServerType
    DEF ServerPC, AnsweredIsDialled, AnswerIsDialled, DataIsDialled, Dialled
  <2> QED
    BY <2>2, <2>3
<1>7. CASE ReadUser(s)
  <2>1. user[s].read + 1 \in Nat /\ user[s].read + 1 <= user[s].sent
    BY <1>7, ConnectionsOf DEF ReadUser, Readable
  <2>2. [user[s] EXCEPT !.read = @ + 1] = [user[s] EXCEPT !.read = user[s].read + 1]
    OBVIOUS
  <2> QED
    BY <1>4, <1>7, <2>1, <2>2 DEF ReadUser
<1> QED
  BY <1>1, <1>3, <1>5, <1>6, <1>7 DEF AtServer

\* Nothing un-dials a session; then a step that adds to the queues only what
\* may be there keeps the invariant.
LEMMA QueuesKeep ==
  ASSUME IInv, TypeOK', UNCHANGED <<server, user>> \/ (ExtraWasSent' /\ AnsweredIsDialled'),
         \A r \in Session : Dialled(r) => Dialled(r)',
         \A m \in Carried(down)' : m.type = "reply" /\ m.data = 1
                                    => m \in Carried(down) \/ Dialled(m.session)',
         \A m \in Carried(up)' : m.type = "data" => m \in Carried(up),
         Carried(up) \subseteq Message, Carried(down) \subseteq Message
  PROVE  IInv'
<1>1. \A m \in Message : m.session \in Session
  BY DEF Message
<1> QED
  BY <1>1 DEF IInv, ExtraWasSent, AnsweredIsDialled, AnswerIsDialled, DataIsDialled

LEMMA CarriedAreMessages ==
  TypeOK => Carried(up) \subseteq Message /\ Carried(down) \subseteq Message
<1>1. \A q \in Seq(Message) : Carried(q) \subseteq Message
  BY ElementOfSeq, LenProperties DEF Carried
<1> QED
  BY <1>1 DEF TypeOK

\* The steps of a session's goroutine at the client.
LEMMA ClientStep ==
  ASSUME IInv, NEW s \in Session, AtClient(s)
  PROVE  IInv'
<1> USE DEF IInv
<1>0. Carried(up) \subseteq Message /\ Carried(down) \subseteq Message
  BY CarriedAreMessages
<1>1. CASE DialSucceeds(s)
  <2>1. Conn("open") \in Connection /\ Conn("open").read <= Conn("open").sent
    BY EmptySeq DEF Conn, Connection
  <2>2. TypeOK'
    BY <1>1, <2>1, GoClientType, SetConnType DEF DialSucceeds, TypeOK, ClientPC
  <2>3. \A r \in Session : Dialled(r) => Dialled(r)'
    BY <1>1, GoClientType DEF DialSucceeds, Dialled, ClientPC
  <2> QED
    BY <1>0, <1>1, <2>2, <2>3, QueuesKeep DEF DialSucceeds
<1>2. CASE ReplySuccess(s) \/ DialFails(s)
  <2>1. PICK n \in {0, 1}, pc \in {"relay", "done"} :
          Reply(s, Msg("reply", s, n)) /\ GoClient(s, pc)
    BY <1>2 DEF ReplySuccess, DialFails
  <2>2. down' \in Seq(Message) /\ Carried(down') \subseteq Carried(down) \cup {Msg("reply", s, n)}
    BY <2>1, ReplyCarries, MsgType
  <2>3. pc \in ClientPC /\ Dialled(s)'
    BY <2>1, GoClientType DEF ClientPC, Dialled
  <2>4. TypeOK'
    BY <1>2, <2>1, <2>2, <2>3, GoClientType DEF ReplySuccess, DialFails, TypeOK
  <2>5. \A r \in Session : Dialled(r) => Dialled(r)'
    BY <2>1, <2>3, GoClientType DEF Dialled
  <2> QED
    BY <1>0, <1>2, <2>2, <2>3, <2>4, <2>5, QueuesKeep DEF ReplySuccess, DialFails, Msg
<1>3. CASE ReadDest(s)
  <2>1. /\ dest[s].read + 1 \in Nat /\ dest[s].read + 1 <= dest[s].sent
        /\ dest[s] \in Connection
    BY <1>3, ConnectionsOf DEF ReadDest, Readable
  <2>2. down' \in Seq(Message)
        /\ Carried(down') \subseteq Carried(down) \cup {Msg("data", s, dest[s].read + 1)}
    BY <1>3, <2>1, ReplyCarries, MsgType DEF ReadDest
  <2>3. LET c == [dest[s] EXCEPT !.read = @ + 1] IN c \in Connection /\ c.read <= c.sent
    BY <2>1 DEF Connection
  <2>4. TypeOK'
    BY <1>3, <2>2, <2>3, SetConnType DEF ReadDest, TypeOK
  <2> QED
    BY <1>0, <1>3, <2>2, <2>4, QueuesKeep DEF ReadDest, Msg, Dialled
<1>4. CASE DestEOF(s)
  <2>1. down' \in Seq(Message) /\ Carried(down') \subseteq Carried(down) \cup {Msg("close", s, 0)}
    BY <1>4, ReplyCarries, MsgType DEF DestEOF, TypeOK
  <2>2. TypeOK'
    BY <1>4, <2>1, ConnectionsOf, GoClientType, SetConnType DEF DestEOF, TypeOK, ClientPC
  <2>3. \A r \in Session : Dialled(r) => Dialled(r)'
    BY <1>4, GoClientType DEF DestEOF, Dialled, ClientPC
  <2> QED
    BY <1>0, <1>4, <2>1, <2>2, <2>3, QueuesKeep DEF DestEOF, Msg
<1>5. CASE DeleteSession(s)
  <2>1. TypeOK'
    BY <1>5, GoClientType DEF DeleteSession, TypeOK, ClientPC
  <2>2. \A r \in Session : Dialled(r) => Dialled(r)'
    BY <1>5, GoClientType DEF DeleteSession, Dialled, ClientPC
  <2> QED
    BY <1>0, <1>5, <2>1, <2>2, QueuesKeep DEF DeleteSession
<1> QED
  BY <1>1, <1>2, <1>3, <1>4, <1>5 DEF AtClient

\* The server's reader of the websocket.
LEMMA ServerReadsStep ==
  ASSUME IInv, ServerReads
  PROVE  IInv'
<1> USE DEF IInv
<1>0. Carried(up) \subseteq Message /\ Carried(down) \subseteq Message
  BY CarriedAreMessages
<1> DEFINE m == Head(down)
<1>1. m \in Message /\ m \in Carried(down) /\ m.session \in Session /\ m.data \in Nat
      /\ down' \in Seq(Message) /\ Carried(down') \subseteq Carried(down)
  BY TakenOff DEF ServerReads, TypeOK, Message
<1>2. \A r \in Session : Dialled(r) <=> Dialled(r)'
  BY DEF ServerReads, Dialled
<1>3. CASE m.type = "reply" /\ OnReply(m.session, m.data = 1)
  <2>1. \/ UNCHANGED <<server, user>>
        \/ GoServer(m.session, "created") /\ UNCHANGED user /\ m.data = 1
        \/ GoServer(m.session, "done") /\ SetUser(m.session, Closed(user[m.session]))
    BY <1>3 DEF OnReply, Fail
  <2>2. /\ user' \in [Session -> Connection]
        /\ \A r \in Session : user'[r].read <= user'[r].sent /\ user'[r].sent = user[r].sent
    BY <1>1, <2>1, ConnectionsOf, SetConnType, ZenonT(60) DEF TypeOK
  <2>3. /\ server' \in [Session -> ServerState]
        /\ \A r \in Session : server'[r].extra = server[r].extra
    BY <1>1, <2>1, GoServerType DEF TypeOK, ServerPC
  <2>4. TypeOK' /\ ExtraWasSent'
    BY <1>1, <1>3, <2>2, <2>3 DEF ServerReads, OnReply, TypeOK, ExtraWasSent
  <2>5. m.data = 1 => Dialled(m.session)
    BY <1>1, <1>3 DEF AnswerIsDialled
  <2>6. AnsweredIsDialled'
    BY <1>1, <1>2, <2>1, <2>5, GoServerType DEF AnsweredIsDialled, ServerPC
  <2> QED
    BY <1>0, <1>1, <1>2, <1>3, <2>4, <2>6, QueuesKeep DEF OnReply
<1>4. CASE m.type = "data" /\ OnDataFromTunnel(m.session, m.data)
  <2>1. /\ Written(user[m.session], m.data) \in Connection
        /\ Written(user[m.session], m.data).read = user[m.session].read
        /\ Written(user[m.session], m.data).sent = user[m.session].sent
        /\ user[m.session].read <= user[m.session].sent
    BY <1>1, ConnectionType DEF TypeOK
  <2>2. /\ user' \in [Session -> Connection]
        /\ \A r \in Session : user'[r].read <= user'[r].sent /\ user'[r].sent = user[r].sent
    BY <1>1, <1>4, <2>1, SetConnType DEF OnDataFromTunnel, TypeOK
  <2>3. up' \in Seq(Message) /\ Carried(up') \subseteq Carried(up) \cup {Msg("close", m.session, 0)}
    <3>1. up' = up \/ up' = Append(up, Msg("close", m.session, 0))
      BY <1>4 DEF OnDataFromTunnel
    <3>2. up \in Seq(Message) /\ Msg("close", m.session, 0) \in Message
      BY <1>1, MsgType DEF TypeOK
    <3> HIDE DEF m
    <3> QED
      BY <3>1, <3>2, Appended
  <2>4. TypeOK' /\ ExtraWasSent' /\ AnsweredIsDialled'
    BY <1>1, <1>2, <1>4, <2>2, <2>3
    DEF ServerReads, OnDataFromTunnel, TypeOK, ExtraWasSent, AnsweredIsDialled
  <2> QED
    BY <1>0, <1>1, <1>2, <2>3, <2>4, QueuesKeep DEF Msg
<1>5. CASE m.type = "close" /\ OnSessionClose(m.session)
  <2>1. /\ user' \in [Session -> Connection]
        /\ \A r \in Session : user'[r].read <= user'[r].sent /\ user'[r].sent = user[r].sent
    BY <1>1, <1>5, ConnectionsOf, SetConnType DEF OnSessionClose, TypeOK
  <2>2. TypeOK' /\ ExtraWasSent' /\ AnsweredIsDialled'
    BY <1>1, <1>2, <1>5, <2>1
    DEF ServerReads, OnSessionClose, TypeOK, ExtraWasSent, AnsweredIsDialled
  <2> QED
    BY <1>0, <1>1, <1>2, <1>5, <2>2, QueuesKeep DEF OnSessionClose
<1> QED
  BY <1>3, <1>4, <1>5 DEF ServerReads

\* The client's reader of the websocket.
LEMMA ClientReadsStep ==
  ASSUME IInv, ClientReads
  PROVE  IInv'
<1> USE DEF IInv
<1>0. Carried(up) \subseteq Message /\ Carried(down) \subseteq Message
  BY CarriedAreMessages
<1> DEFINE m == Head(up)
           s == m.session
<1>1. s \in Session /\ m.data \in Nat
      /\ up' \in Seq(Message) /\ Carried(up') \subseteq Carried(up)
  BY TakenOff DEF ClientReads, TypeOK, Message
<1>2. /\ Written(dest[s], m.data) \in Connection
      /\ Written(dest[s], m.data).read <= Written(dest[s], m.data).sent
      /\ Closed(dest[s]) \in Connection /\ Closed(dest[s]).read <= Closed(dest[s]).sent
  BY <1>1, ConnectionType DEF TypeOK
<1>3. /\ dest' \in [Session -> Connection]
      /\ \A r \in Session : dest'[r].read <= dest'[r].sent
  BY <1>1, <1>2, SetConnType DEF ClientReads, OnSessionCreate, OnData, OnClose, TypeOK
<1>4. /\ client' \in [Session -> ClientState]
      /\ \A r \in Session : Dialled(r) => Dialled(r)'
  <2>1. CASE UNCHANGED client
    BY <2>1 DEF TypeOK, Dialled
  <2>2. CASE OnSessionCreate(s)
    <3>1. client' = [client EXCEPT ![s] =
                       [client[s] EXCEPT !.pc = IF client[s].pc = "none" THEN "dialing"
                                                ELSE client[s].pc]]
      BY <1>1, <2>2 DEF OnSessionCreate, TypeOK
    <3>2. ASSUME NEW x \in ClientState
          PROVE  LET y == [x EXCEPT !.pc = IF x.pc = "none" THEN "dialing" ELSE x.pc]
                 IN  /\ y \in ClientState
                     /\ x.pc \notin {"none", "dialing"} => y.pc \notin {"none", "dialing"}
      BY DEF ClientState, ClientPC
    <3> QED
      BY <1>1, <3>1, <3>2 DEF TypeOK, Dialled
  <2>3. CASE client' = [client EXCEPT ![s].byServer = TRUE]
    <3>1. ASSUME NEW x \in ClientState
          PROVE  [x EXCEPT !.byServer = TRUE] \in ClientState
                 /\ [x EXCEPT !.byServer = TRUE].pc = x.pc
      BY DEF ClientState
    <3> QED
      BY <1>1, <2>3, <3>1 DEF TypeOK, Dialled
  <2> QED
    BY <2>1, <2>2, <2>3 DEF ClientReads, OnData, OnClose
<1>5. TypeOK'
  BY <1>1, <1>3, <1>4 DEF ClientReads, TypeOK
<1> QED
  BY <1>0, <1>1, <1>4, <1>5, QueuesKeep DEF ClientReads

\* The websocket breaks, its ends notice, and it is replaced.
LEMMA WebsocketStep ==
  ASSUME IInv, EpochBounded, Websocket
  PROVE  IInv'
<1> USE DEF IInv
<1>0. Carried(up) \subseteq Message /\ Carried(down) \subseteq Message
  BY CarriedAreMessages
<1>1. CASE Break
  <2>1. /\ up' \in Seq(Message) /\ Carried(up') \subseteq Carried(up)
        /\ down' \in Seq(Message) /\ Carried(down') \subseteq Carried(down)
    BY <1>1, CutOff DEF Break, TypeOK
  <2>2. TypeOK'
    BY <1>1, <2>1 DEF Break, TypeOK
  <2> QED
    BY <1>0, <1>1, <2>1, <2>2, QueuesKeep DEF Break, Dialled
<1>2. CASE ClientNotices \/ ServerNotices
  <2>1. TypeOK'
    BY <1>2 DEF ClientNotices, ServerNotices, TypeOK
  <2> QED
    BY <1>0, <1>2, <2>1, QueuesKeep DEF ClientNotices, ServerNotices, Dialled
<1>3. CASE ClientPanics
  <2>1. client' \in [Session -> ClientState]
    BY <1>3 DEF ClientPanics, ClientState, ClientPC
  <2>2. /\ dest' \in [Session -> Connection]
        /\ \A r \in Session : dest'[r].read <= dest'[r].sent
    BY <1>3, ConnectionsOf DEF ClientPanics, TypeOK
  <2>3. TypeOK'
    BY <1>3, <2>1, <2>2 DEF ClientPanics, TypeOK
  <2>4. \A r \in Session : Dialled(r) => Dialled(r)'
    BY <1>3 DEF ClientPanics, Dialled
  <2> QED
    BY <1>0, <1>3, <2>3, <2>4, QueuesKeep DEF ClientPanics
<1>4. CASE Reconnect
  <2>1. <<>> \in Seq(Message) /\ Carried(<<>>) = {}
    BY EmptySeq DEF Carried
  <2>2. /\ user' \in [Session -> Connection]
        /\ \A r \in Session : user'[r].read <= user'[r].sent /\ user'[r].sent = user[r].sent
    BY <1>4, ConnectionsOf DEF Reconnect, TypeOK
  <2>3. epoch' \in 0..MaxBreaks
    BY <1>4, BoundsAssumption DEF Reconnect, EpochBounded, TypeOK
  <2>4. TypeOK'
    BY <1>4, <2>1, <2>2, <2>3 DEF Reconnect, TypeOK
  <2>5. ExtraWasSent' /\ AnsweredIsDialled'
    BY <1>4, <2>2 DEF Reconnect, ExtraWasSent, AnsweredIsDialled, Dialled
  <2> QED
    BY <1>0, <1>4, <2>1, <2>4, <2>5, QueuesKeep DEF Reconnect, Dialled
<1> QED
  BY <1>1, <1>2, <1>3, <1>4 DEF Websocket

\* Users and destinations send and close.
LEMMA EnvironmentStep ==
  ASSUME IInv, NEW s \in Session,
         \/ UserSends(s) \/ UserCloses(s) \/ UserStopsReading(s)
         \/ DestSends(s) \/ DestCloses(s) \/ DestStopsReading(s)
  PROVE  IInv'
<1> USE DEF IInv
<1>0. Carried(up) \subseteq Message /\ Carried(down) \subseteq Message
  BY CarriedAreMessages
<1>1. ASSUME NEW c \in Connection, c.read <= c.sent
      PROVE  LET x == [c EXCEPT !.sent = @ + 1]
                 y == [c EXCEPT !.state = "fin"]
                 z == [c EXCEPT !.deaf = TRUE]
             IN  /\ x \in Connection /\ x.read <= x.sent /\ x.sent >= c.sent
                 /\ y \in Connection /\ y.read <= y.sent /\ y.sent >= c.sent
                 /\ z \in Connection /\ z.read <= z.sent /\ z.sent >= c.sent
  <2>1. c.read \in Nat /\ c.sent \in Nat
    BY DEF Connection
  <2>2. LET x == [c EXCEPT !.sent = @ + 1]
        IN  x \in Connection /\ x.sent = c.sent + 1 /\ x.read = c.read
    BY <2>1 DEF Connection
  <2>3. LET y == [c EXCEPT !.state = "fin"]
        IN  y \in Connection /\ y.sent = c.sent /\ y.read = c.read
    BY DEF Connection
  <2>4. LET z == [c EXCEPT !.deaf = TRUE]
        IN  z \in Connection /\ z.sent = c.sent /\ z.read = c.read
    BY DEF Connection
  <2> QED
    BY <1>1, <2>1, <2>2, <2>3, <2>4
<1>2. /\ user[s] \in Connection /\ user[s].read <= user[s].sent /\ user[s].sent \in Nat
      /\ dest[s] \in Connection /\ dest[s].read <= dest[s].sent
  BY ConnectionsOf DEF TypeOK
<1>3. CASE UserSends(s) \/ UserCloses(s) \/ UserStopsReading(s)
  <2>1. PICK c \in Connection : c.read <= c.sent /\ c.sent >= user[s].sent /\ SetUser(s, c)
    <3>1. CASE UserSends(s)
      <4> DEFINE c == [user[s] EXCEPT !.sent = @ + 1]
      <4>1. c \in Connection /\ c.read <= c.sent /\ c.sent >= user[s].sent /\ SetUser(s, c)
        BY <1>1, <1>2, <3>1 DEF UserSends
      <4> QED
        BY <4>1
    <3>2. CASE UserCloses(s)
      <4> DEFINE c == [user[s] EXCEPT !.state = "fin"]
      <4>1. c \in Connection /\ c.read <= c.sent /\ c.sent >= user[s].sent /\ SetUser(s, c)
        BY <1>1, <1>2, <3>2 DEF UserCloses
      <4> QED
        BY <4>1
    <3>3. CASE UserStopsReading(s)
      <4> DEFINE c == [user[s] EXCEPT !.deaf = TRUE]
      <4>1. c \in Connection /\ c.read <= c.sent /\ c.sent >= user[s].sent /\ SetUser(s, c)
        BY <1>1, <1>2, <3>3 DEF UserStopsReading
      <4> QED
        BY <4>1
    <3> QED
      BY <1>3, <3>1, <3>2, <3>3
  <2>2. TypeOK'
    BY <1>3, <2>1, SetConnType DEF UserSends, UserCloses, UserStopsReading, TypeOK
  <2>3. ExtraWasSent'
    <3>1. c.sent \in Nat /\ (user[s].sent > 0 => c.sent > 0)
      BY <1>2, <2>1 DEF Connection
    <3>2. UNCHANGED server
      BY <1>3 DEF UserSends, UserCloses, UserStopsReading
    <3>3. user'[s] = c /\ \A r \in Session : r # s => user'[r] = user[r]
      BY <2>1, SetConnType
    <3> QED
      BY <3>1, <3>2, <3>3 DEF ExtraWasSent
  <2>4. AnsweredIsDialled' /\ \A r \in Session : Dialled(r) => Dialled(r)'
    BY <1>3 DEF UserSends, UserCloses, UserStopsReading, AnsweredIsDialled, Dialled
  <2> QED
    BY <1>0, <1>3, <2>2, <2>3, <2>4, QueuesKeep DEF UserSends, UserCloses, UserStopsReading
<1>4. CASE DestSends(s) \/ DestCloses(s) \/ DestStopsReading(s)
  <2>1. PICK c \in Connection : c.read <= c.sent /\ SetDest(s, c)
    BY <1>1, <1>2, <1>4 DEF DestSends, DestCloses, DestStopsReading
  <2>2. TypeOK'
    BY <1>4, <2>1, SetConnType DEF DestSends, DestCloses, DestStopsReading, TypeOK
  <2> QED
    BY <1>0, <1>4, <2>2, QueuesKeep DEF DestSends, DestCloses, DestStopsReading, Dialled
<1> QED
  BY <1>3, <1>4

(***************************************************************************)
(* The theorems.                                                           *)
(***************************************************************************)
\* Every step keeps the bound on reconnects.
LEMMA EpochStep == TypeOK /\ EpochBounded /\ [Next]_vars => EpochBounded'
<1> SUFFICES ASSUME TypeOK, EpochBounded, [Next]_vars PROVE EpochBounded'
  OBVIOUS
<1>1. CASE Websocket
  BY <1>1, BoundsAssumption
  DEF Websocket, Break, ClientNotices, ServerNotices, ClientPanics, Reconnect, EpochBounded, TypeOK
<1>2. CASE UNCHANGED <<link, epoch>>
  BY <1>2 DEF EpochBounded
<1>3. ServerReads \/ ClientReads => UNCHANGED <<link, epoch>>
  BY DEF ServerReads, ClientReads
<1>4. ASSUME NEW s \in Session, AtServer(s) \/ RequestSession(s) \/ RequestFails(s)
      PROVE  UNCHANGED <<link, epoch>>
  BY <1>4 DEF AtServer, RequestSession, RequestFails, Listen, CreateTimesOut, SendExtra,
              StoreProxy, ReadUser, UserEOF, DeleteProxy
<1>5. ASSUME NEW s \in Session, AtClient(s) PROVE UNCHANGED <<link, epoch>>
  BY <1>5 DEF AtClient, DialSucceeds, ReplySuccess, DialFails, ReadDest, DestEOF, DeleteSession
<1>6. ASSUME NEW s \in Session, \/ UserSends(s) \/ UserCloses(s) \/ UserStopsReading(s)
                                 \/ DestSends(s) \/ DestCloses(s) \/ DestStopsReading(s)
      PROVE  UNCHANGED <<link, epoch>>
  BY <1>6 DEF UserSends, UserCloses, UserStopsReading, DestSends, DestCloses, DestStopsReading
<1> QED
  BY <1>1, <1>2, <1>3, <1>4, <1>5, <1>6 DEF Next, Environment, vars

\* The invariant is inductive.
LEMMA IInvStep == IInv /\ EpochBounded /\ [Next]_vars => IInv'
<1> SUFFICES ASSUME IInv, EpochBounded, [Next]_vars PROVE IInv'
  OBVIOUS
<1>1. CASE UNCHANGED vars
  BY <1>1 DEF vars, IInv, TypeOK, ExtraWasSent, AnsweredIsDialled, AnswerIsDialled,
              DataIsDialled, Dialled
<1> QED
  BY <1>1, ServerStep, ClientStep, ServerReadsStep, ClientReadsStep, WebsocketStep,
     EnvironmentStep DEF Next, Environment

LEMMA IInvAlways == Spec => [](IInv /\ EpochBounded)
<1>1. Init => IInv /\ EpochBounded
  BY IInvInit DEF Init, EpochBounded
<1>2. IInv /\ EpochBounded /\ [Next]_vars => (IInv /\ EpochBounded)'
  BY IInvStep, EpochStep DEF IInv
<1> QED
  BY <1>1, <1>2, PTL DEF Spec

\* The state of ProxySession is well typed, and no more is read of a
\* connection than was sent on it.
THEOREM SessionTypeCorrect == Spec => []TypeOK
  BY IInvAlways, PTL DEF IInv

\* The client has a session in its map before any of its data arrives: with
\* any number of sessions on the websocket, and however often it breaks.
THEOREM DataIsNotEarly == Spec => []DataFindsSession
<1>1. IInv => DataFindsSession
  BY DEF IInv, DataIsDialled, DataFindsSession, InFlight, Carried
<1> QED
  BY <1>1, IInvAlways, PTL

\* The two, as the run checks them.
THEOREM SessionInvariant == Spec => []SessionInv
<1>1. TypeOK /\ DataFindsSession => SessionInv
  BY DEF SessionInv
<1> QED
  BY <1>1, SessionTypeCorrect, DataIsNotEarly, PTL

(***************************************************************************)
(* What is in order.  The data of a session in a queue: the items after    *)
(* the n-th, in order and without a gap, none after the m-th; and all of   *)
(* them up to the m-th.                                                    *)
(***************************************************************************)
DataOf(msg, s) == msg.type = "data" /\ msg.session = s

Continues(q, s, n, m) ==
  /\ \A i, j \in DOMAIN q : i < j /\ DataOf(q[i], s) /\ DataOf(q[j], s) => q[i].data < q[j].data
  /\ \A i \in DOMAIN q : DataOf(q[i], s) =>
       /\ n < q[i].data /\ q[i].data <= m
       /\ \A k \in n + 1..q[i].data - 1 :
            \E j \in DOMAIN q : j < i /\ DataOf(q[j], s) /\ q[j].data = k

Complete(q, s, n, m) ==
  \A k \in n + 1..m : \E j \in DOMAIN q : DataOf(q[j], s) /\ q[j].data = k

\* The first items, all of them.
Prefix(got) == \A i \in DOMAIN got : got[i] = i

\* The destination has the items up to one that was read of the user.  While
\* it can be given more, the next ones are on their way.
UpInOrder(s) ==
  /\ Prefix(dest[s].got) /\ Len(dest[s].got) <= user[s].read
  /\ Relayed(s) /\ dest[s].state # "closed" =>
       /\ Continues(up, s, Len(dest[s].got), user[s].read)
       /\ Current(s) => Complete(up, s, Len(dest[s].got), user[s].read)

\* So has the user, and so are the next ones on their way, unless the client
\* is closing the session.
DownInOrder(s) ==
  Current(s) /\ ~Closing(s) =>
    /\ Prefix(user[s].got)
    /\ user[s].state # "closed" =>
         /\ Len(user[s].got) <= dest[s].read
         /\ Continues(down, s, Len(user[s].got), dest[s].read)
         /\ Complete(down, s, Len(user[s].got), dest[s].read)

\* A session that has not got so far at an end has nothing there yet.
Early == {"idle", "wrote", "select", "created"}

NothingYet(s) ==
  /\ server[s].tun <= epoch
  /\ server[s].pc = "idle" => client[s].pc = "none" /\ user[s].got = <<>>
  /\ server[s].pc \in Early => user[s].read = 0
  /\ ~Dialled(s) => user[s].read = 0 /\ dest[s] = Conn("none")

InOrder(s) == NothingYet(s) /\ UpInOrder(s) /\ DownInOrder(s)

\* What messages say of their sessions.
MessagesFit ==
  /\ \A m \in Carried(up) : /\ m.type = "create" => server[m.session].pc # "idle"
                            /\ m.type = "close" => Dialled(m.session)
  /\ \A m \in Carried(down) : m.type = "data" => Dialled(m.session)

OrderInv == MessagesFit /\ \A s \in Session : InOrder(s)

(***************************************************************************)
(* What a write, a read and a break do to the order of a session's data.   *)
(***************************************************************************)
\* A queue and one message more, at each place.
LEMMA AppendedAt ==
  ASSUME NEW q \in Seq(Message), NEW x \in Message
  PROVE  /\ DOMAIN q = 1..Len(q) /\ Len(q) \in Nat
         /\ DOMAIN Append(q, x) = 1..Len(q) + 1
         /\ \A i \in 1..Len(q) : Append(q, x)[i] = q[i] /\ q[i] \in Message
         /\ Append(q, x)[Len(q) + 1] = x
  BY AppendProperties, LenProperties, ElementOfSeq

\* A message that is no data of the session.
LEMMA OtherAppended ==
  ASSUME NEW q \in Seq(Message), NEW x \in Message, NEW s, ~DataOf(x, s),
         NEW n \in Nat, NEW m \in Nat
  PROVE  /\ Continues(q, s, n, m) => Continues(Append(q, x), s, n, m)
         /\ Complete(q, s, n, m) => Complete(Append(q, x), s, n, m)
<1> DEFINE p == Append(q, x)
<1>1. /\ DOMAIN q = 1..Len(q) /\ Len(q) \in Nat /\ DOMAIN p = 1..Len(q) + 1
      /\ \A i \in DOMAIN q : i \in DOMAIN p /\ p[i] = q[i]
      /\ \A i \in DOMAIN p : DataOf(p[i], s) => i \in DOMAIN q
  BY AppendedAt
<1> HIDE DEF p
<1>2. Continues(q, s, n, m) => Continues(p, s, n, m)
  BY <1>1 DEF Continues
<1>3. ASSUME Complete(q, s, n, m) PROVE Complete(p, s, n, m)
  <2>1. ASSUME NEW k \in n + 1..m
        PROVE  \E j \in DOMAIN p : DataOf(p[j], s) /\ p[j].data = k
    <3>1. PICK j \in DOMAIN q : DataOf(q[j], s) /\ q[j].data = k
      BY <1>3 DEF Complete
    <3>2. j \in DOMAIN p /\ p[j] = q[j]
      BY <1>1, <3>1
    <3> QED
      BY <3>1, <3>2
  <2> QED
    BY <2>1 DEF Complete
<1> QED
  BY <1>2, <1>3 DEF p

\* The session's next item.
LEMMA NextAppended ==
  ASSUME NEW q \in Seq(Message), NEW s \in Session, NEW n \in Nat, NEW m \in Nat, n <= m,
         Continues(q, s, n, m), Complete(q, s, n, m)
  PROVE  LET p == Append(q, Msg("data", s, m + 1))
         IN  Continues(p, s, n, m + 1) /\ Complete(p, s, n, m + 1)
<1> DEFINE x == Msg("data", s, m + 1)
           p == Append(q, x)
           l == Len(q) + 1
<1>0. m + 1 \in Nat
  OBVIOUS
<1>1. x \in Message /\ DataOf(x, s) /\ x.data = m + 1
  BY <1>0, MsgType DEF Msg, DataOf
<1> HIDE DEF x
<1>2. /\ DOMAIN q = 1..Len(q) /\ Len(q) \in Nat /\ DOMAIN p = 1..l
      /\ \A i \in DOMAIN q : i \in DOMAIN p /\ p[i] = q[i] /\ q[i] \in Message
      /\ p[l] = x
  BY <1>1, AppendedAt
<1>3. \A i \in DOMAIN q : q[i].data \in Nat
  BY <1>2 DEF Message
<1> HIDE DEF p
<1>4. \A i, j \in DOMAIN p : i < j /\ DataOf(p[i], s) /\ DataOf(p[j], s) => p[i].data < p[j].data
  BY <1>1, <1>2, <1>3 DEF Continues
<1>5. ASSUME NEW i \in DOMAIN p, DataOf(p[i], s)
      PROVE  /\ n < p[i].data /\ p[i].data <= m + 1
             /\ \A k \in n + 1..p[i].data - 1 :
                  \E j \in DOMAIN p : j < i /\ DataOf(p[j], s) /\ p[j].data = k
  <2>1. CASE i \in DOMAIN q
    BY <1>2, <1>3, <1>5, <2>1 DEF Continues
  <2>2. CASE i = l
    <3>1. p[i].data = m + 1
      BY <1>1, <1>2, <2>2
    <3>2. ASSUME NEW k \in n + 1..m
          PROVE  \E j \in DOMAIN p : j < i /\ DataOf(p[j], s) /\ p[j].data = k
      <4>1. PICK j \in DOMAIN q : DataOf(q[j], s) /\ q[j].data = k
        BY DEF Complete
      <4>2. j < i /\ j \in DOMAIN p /\ p[j] = q[j]
        BY <1>2, <2>2
      <4> QED
        BY <4>1, <4>2
    <3> QED
      BY <3>1, <3>2
  <2> QED
    BY <1>2, <2>1, <2>2
<1>6. Complete(p, s, n, m + 1)
  <2> SUFFICES ASSUME NEW k \in n + 1..m + 1
               PROVE  \E j \in DOMAIN p : DataOf(p[j], s) /\ p[j].data = k
    BY DEF Complete
  <2>1. CASE k = m + 1
    BY <1>1, <1>2, <2>1
  <2>2. CASE k # m + 1
    BY <1>2, <2>2 DEF Complete
  <2> QED
    BY <2>1, <2>2
<1>7. Continues(p, s, n, m + 1)
  BY <1>4, <1>5 DEF Continues
<1> QED
  BY <1>6, <1>7 DEF p, x

\* A queue without its first message, at each place.
LEMMA TailAt ==
  ASSUME NEW q \in Seq(Message), q # <<>>
  PROVE  /\ DOMAIN q = 1..Len(q) /\ Len(q) \in Nat /\ 1 \in DOMAIN q /\ q[1] = Head(q)
         /\ DOMAIN Tail(q) = 1..Len(q) - 1
         /\ \A i \in DOMAIN Tail(q) : i + 1 \in DOMAIN q /\ Tail(q)[i] = q[i + 1]
         /\ \A i \in DOMAIN q : i = 1 \/ (i - 1 \in DOMAIN Tail(q) /\ q[i] = Tail(q)[i - 1])
         /\ \A i \in DOMAIN q : q[i] \in Message
<1>1. /\ Head(q) = q[1] /\ Tail(q) \in Seq(Message) /\ Len(Tail(q)) = Len(q) - 1
      /\ \A i \in 1..Len(Tail(q)) : Tail(q)[i] = q[i + 1]
  BY HeadTailProperties
<1>2. DOMAIN q = 1..Len(q) /\ DOMAIN Tail(q) = 1..Len(Tail(q)) /\ Len(q) \in Nat \ {0}
  BY <1>1, LenProperties, EmptySeq
<1>3. \A i \in DOMAIN q : q[i] \in Message
  BY <1>2, ElementOfSeq
<1> QED
  BY <1>1, <1>2, <1>3

\* A message that is no data of the session is taken off.
LEMMA OtherTaken ==
  ASSUME NEW q \in Seq(Message), q # <<>>, NEW s, ~DataOf(Head(q), s),
         NEW n \in Nat, NEW m \in Nat
  PROVE  /\ Continues(q, s, n, m) => Continues(Tail(q), s, n, m)
         /\ Complete(q, s, n, m) => Complete(Tail(q), s, n, m)
<1> DEFINE p == Tail(q)
<1>1. /\ \A i \in DOMAIN p : i \in Nat /\ i + 1 \in DOMAIN q /\ p[i] = q[i + 1]
      /\ \A i \in DOMAIN q : i \in Nat /\ (DataOf(q[i], s) => i - 1 \in DOMAIN p /\ q[i] = p[i - 1])
  BY TailAt
<1> HIDE DEF p
<1>2. ASSUME Continues(q, s, n, m) PROVE Continues(p, s, n, m)
  <2>1. ASSUME NEW i \in DOMAIN p, NEW j \in DOMAIN p, i < j, DataOf(p[i], s), DataOf(p[j], s)
        PROVE  p[i].data < p[j].data
    <3>1. i + 1 \in DOMAIN q /\ j + 1 \in DOMAIN q /\ i + 1 < j + 1
          /\ p[i] = q[i + 1] /\ p[j] = q[j + 1]
      BY <1>1, <2>1
    <3> QED
      BY <1>2, <2>1, <3>1 DEF Continues
  <2>2. ASSUME NEW i \in DOMAIN p, DataOf(p[i], s)
        PROVE  /\ n < p[i].data /\ p[i].data <= m
               /\ \A k \in n + 1..p[i].data - 1 :
                    \E j \in DOMAIN p : j < i /\ DataOf(p[j], s) /\ p[j].data = k
    <3>1. /\ n < q[i + 1].data /\ q[i + 1].data <= m
          /\ \A k \in n + 1..q[i + 1].data - 1 :
               \E j \in DOMAIN q : j < i + 1 /\ DataOf(q[j], s) /\ q[j].data = k
      BY <1>1, <1>2, <2>2 DEF Continues
    <3>2. ASSUME NEW k \in n + 1..p[i].data - 1
          PROVE  \E j \in DOMAIN p : j < i /\ DataOf(p[j], s) /\ p[j].data = k
      <4>1. PICK j \in DOMAIN q : j < i + 1 /\ DataOf(q[j], s) /\ q[j].data = k
        BY <1>1, <3>1
      <4>2. j - 1 \in DOMAIN p /\ q[j] = p[j - 1] /\ j - 1 < i
        BY <1>1, <4>1
      <4> QED
        BY <4>1, <4>2
    <3> QED
      BY <1>1, <3>1, <3>2
  <2> QED
    BY <2>1, <2>2 DEF Continues
<1>3. ASSUME Complete(q, s, n, m) PROVE Complete(p, s, n, m)
  <2>1. ASSUME NEW k \in n + 1..m
        PROVE  \E j \in DOMAIN p : DataOf(p[j], s) /\ p[j].data = k
    <3>1. PICK j \in DOMAIN q : DataOf(q[j], s) /\ q[j].data = k
      BY <1>3 DEF Complete
    <3>2. j - 1 \in DOMAIN p /\ q[j] = p[j - 1]
      BY <1>1, <3>1
    <3> QED
      BY <3>1, <3>2
  <2> QED
    BY <2>1 DEF Complete
<1> QED
  BY <1>2, <1>3 DEF p

\* The session's first message is its next item; the others go on from there.
LEMMA NextTaken ==
  ASSUME NEW q \in Seq(Message), q # <<>>, NEW s, DataOf(Head(q), s),
         NEW n \in Nat, NEW m \in Nat, Continues(q, s, n, m)
  PROVE  /\ Head(q).data = n + 1 /\ n + 1 <= m
         /\ Continues(Tail(q), s, n + 1, m)
         /\ Complete(q, s, n, m) => Complete(Tail(q), s, n + 1, m)
<1> DEFINE p == Tail(q)
<1>1. /\ \A i \in DOMAIN p : i \in Nat \ {0} /\ i + 1 \in DOMAIN q /\ p[i] = q[i + 1]
      /\ \A i \in DOMAIN q : i \in Nat \ {0} /\ (i # 1 => i - 1 \in DOMAIN p /\ q[i] = p[i - 1])
      /\ 1 \in DOMAIN q /\ q[1] = Head(q)
      /\ \A i \in DOMAIN q : q[i].data \in Nat
  <2>1. \A i \in DOMAIN q : q[i].data \in Nat
    BY TailAt DEF Message
  <2> QED
    BY <2>1, TailAt
<1> HIDE DEF p
<1>2. q[1].data = n + 1 /\ n + 1 <= m
  <2>1. n < q[1].data /\ q[1].data <= m
    BY <1>1 DEF Continues
  <2>2. ASSUME n + 1 < q[1].data PROVE FALSE
    <3>1. n + 1 \in n + 1..q[1].data - 1
      BY <1>1, <2>2
    <3>2. PICK j \in DOMAIN q : j < 1
      BY <1>1, <3>1 DEF Continues
    <3> QED
      BY <1>1, <3>2
  <2> QED
    BY <1>1, <2>1, <2>2
<1>3. ASSUME NEW i \in DOMAIN p, DataOf(p[i], s) PROVE n + 1 < p[i].data
  <2>1. i + 1 \in DOMAIN q /\ 1 < i + 1 /\ p[i] = q[i + 1]
    BY <1>1
  <2>2. q[1].data < q[i + 1].data
    BY <1>1, <1>3, <2>1 DEF Continues
  <2> QED
    BY <1>2, <2>1, <2>2
<1>4. ASSUME NEW i \in DOMAIN p, NEW j \in DOMAIN p, i < j, DataOf(p[i], s), DataOf(p[j], s)
      PROVE  p[i].data < p[j].data
  <2>1. i + 1 \in DOMAIN q /\ j + 1 \in DOMAIN q /\ i + 1 < j + 1
        /\ p[i] = q[i + 1] /\ p[j] = q[j + 1]
    BY <1>1, <1>4
  <2> QED
    BY <1>4, <2>1 DEF Continues
<1>5. ASSUME NEW i \in DOMAIN p, DataOf(p[i], s)
      PROVE  /\ p[i].data <= m
             /\ \A k \in n + 2..p[i].data - 1 :
                  \E j \in DOMAIN p : j < i /\ DataOf(p[j], s) /\ p[j].data = k
  <2>1. /\ q[i + 1].data <= m /\ q[i + 1].data = p[i].data /\ p[i].data \in Nat
        /\ \A k \in n + 1..q[i + 1].data - 1 :
             \E j \in DOMAIN q : j < i + 1 /\ DataOf(q[j], s) /\ q[j].data = k
    BY <1>1, <1>5 DEF Continues
  <2>2. ASSUME NEW k \in n + 2..p[i].data - 1
        PROVE  \E j \in DOMAIN p : j < i /\ DataOf(p[j], s) /\ p[j].data = k
    <3>1. PICK j \in DOMAIN q : j < i + 1 /\ DataOf(q[j], s) /\ q[j].data = k
      BY <2>1
    <3>2. j # 1
      BY <1>2, <3>1
    <3>3. j - 1 \in DOMAIN p /\ q[j] = p[j - 1]
      BY <1>1, <3>2
    <3>4. j \in Nat /\ i \in Nat
      BY <1>1
    <3>5. j - 1 < i
      BY <3>1, <3>4
    <3> QED
      BY <3>1, <3>3, <3>5
  <2> QED
    BY <2>1, <2>2
<1>6. Continues(p, s, n + 1, m)
  BY <1>3, <1>4, <1>5 DEF Continues
<1>7. ASSUME Complete(q, s, n, m) PROVE Complete(p, s, n + 1, m)
  <2> SUFFICES ASSUME NEW k \in n + 1 + 1..m
               PROVE  \E j \in DOMAIN p : DataOf(p[j], s) /\ p[j].data = k
    BY DEF Complete
  <2>1. PICK j \in DOMAIN q : DataOf(q[j], s) /\ q[j].data = k
    BY <1>7 DEF Complete
  <2>2. j # 1
    BY <1>2, <2>1
  <2> QED
    BY <1>1, <2>1, <2>2
<1> QED
  BY <1>1, <1>2, <1>6, <1>7 DEF p

\* What is left of a queue when the websocket breaks has no gap.
LEMMA OrderCut ==
  ASSUME NEW q \in Seq(Message), NEW e \in 0..Len(q), NEW s, NEW n \in Nat, NEW m \in Nat,
         Continues(q, s, n, m)
  PROVE  Continues(SubSeq(q, 1, e), s, n, m)
<1> DEFINE p == SubSeq(q, 1, e)
<1>1. Len(q) \in Nat /\ DOMAIN q = 1..Len(q)
  BY LenProperties
<1>2. DOMAIN p = 1..e /\ \A i \in 1..e : p[i] = q[i]
  BY <1>1, SubSeqProperties, LenProperties
<1> HIDE DEF p
<1>3. /\ \A i \in DOMAIN p : i \in DOMAIN q /\ p[i] = q[i]
      /\ \A i \in DOMAIN p : \A j \in DOMAIN q : j < i => j \in DOMAIN p /\ p[j] = q[j]
  BY <1>1, <1>2
<1>4. Continues(p, s, n, m)
  BY <1>3 DEF Continues
<1> QED
  BY <1>4 DEF p

\* A queue with none of the session's data.
LEMMA NoneInOrder ==
  ASSUME NEW q, NEW s, \A i \in DOMAIN q : ~DataOf(q[i], s), NEW n \in Nat, NEW m \in Nat
  PROVE  Continues(q, s, n, m) /\ (n = m => Complete(q, s, n, m))
  BY DEF Continues, Complete

\* What happens at each end of session r leaves the data of the others alone.
Moved(q, p, r) ==
  \/ p = q
  \/ \E x \in Message : x.session = r /\ p = Append(q, x)
  \/ q # <<>> /\ Head(q).session = r /\ p = Tail(q)

\* One queue's part of that, and of what keeps session s in order.
Keeps(q, p, s) ==
  /\ \A n, m \in Nat : /\ Continues(q, s, n, m) => Continues(p, s, n, m)
                       /\ Complete(q, s, n, m) => Complete(p, s, n, m)
  /\ InFlight(q, "close", s) => InFlight(p, "close", s)

LEMMA AppendKeeps ==
  ASSUME NEW q \in Seq(Message), NEW x \in Message, NEW s, ~DataOf(x, s)
  PROVE  Keeps(q, Append(q, x), s)
<1>1. InFlight(q, "close", s) => InFlight(Append(q, x), "close", s)
  BY AppendedAt DEF InFlight
<1> QED
  BY <1>1, OtherAppended DEF Keeps

\* So does the end of a message of another session.
LEMMA TailKeeps ==
  ASSUME NEW q \in Seq(Message), q # <<>>, NEW s, ~DataOf(Head(q), s),
         Head(q).type # "close" \/ Head(q).session # s
  PROVE  Keeps(q, Tail(q), s)
<1>1. ASSUME InFlight(q, "close", s) PROVE InFlight(Tail(q), "close", s)
  <2>1. PICK i \in DOMAIN q : q[i].type = "close" /\ q[i].session = s
    BY <1>1 DEF InFlight
  <2>2. i # 1
    BY <2>1, TailAt
  <2>3. i - 1 \in DOMAIN Tail(q) /\ Tail(q)[i - 1] = q[i]
    BY <2>2, TailAt
  <2> QED
    BY <2>1, <2>3 DEF InFlight
<1> QED
  BY <1>1, OtherTaken DEF Keeps

\* The two together.
LEMMA MovedKeeps ==
  ASSUME NEW q \in Seq(Message), NEW p, NEW r, Moved(q, p, r), NEW s, s # r
  PROVE  Keeps(q, p, s)
<1>1. CASE p = q
  BY <1>1 DEF Keeps
<1>2. CASE \E x \in Message : x.session = r /\ p = Append(q, x)
  BY <1>2, AppendKeeps DEF DataOf
<1>3. CASE q # <<>> /\ Head(q).session = r /\ p = Tail(q)
  BY <1>3, TailKeeps DEF DataOf
<1> QED
  BY <1>1, <1>2, <1>3 DEF Moved

\* A step at which session s sends, gets and begins nothing.
Quiet(s) ==
  /\ epoch' \in Nat /\ epoch <= epoch' /\ server'[s].tun = server[s].tun
  /\ server'[s].pc = "idle" => server[s].pc = "idle" /\ client'[s].pc = client[s].pc
  /\ server'[s].pc \in Early => server[s].pc \in Early
  /\ (Dialled(s) => Dialled(s)') /\ (Relayed(s)' => Relayed(s))
  /\ ~Dialled(s)' => dest'[s] = dest[s]
  /\ user'[s].got = user[s].got /\ user'[s].read = user[s].read
  /\ dest'[s].got = dest[s].got /\ dest'[s].read = dest[s].read
  /\ user[s].state = "closed" => user'[s].state = "closed"
  /\ dest[s].state = "closed" => dest'[s].state = "closed"
  /\ \A n, m \in Nat : /\ Continues(up, s, n, m) => Continues(up', s, n, m)
                       /\ Continues(down, s, n, m) => Continues(down', s, n, m)
  /\ Current(s)' =>
       /\ Current(s) /\ (Closing(s) => Closing(s)')
       /\ \A n, m \in Nat : /\ Complete(up, s, n, m) => Complete(up', s, n, m)
                            /\ Complete(down, s, n, m) => Complete(down', s, n, m)

\* What was read and given of a connection is counted.
LEMMA CountsOf ==
  ASSUME TypeOK, NEW s \in Session
  PROVE  /\ user[s].read \in Nat /\ dest[s].read \in Nat
         /\ Len(user[s].got) \in Nat /\ Len(dest[s].got) \in Nat
         /\ user[s].got \in Seq(Nat) /\ dest[s].got \in Seq(Nat)
         /\ epoch \in Nat /\ server[s].tun \in Nat
         /\ up \in Seq(Message) /\ down \in Seq(Message)
<1>1. user[s] \in Connection /\ dest[s] \in Connection /\ server[s] \in ServerState
  BY DEF TypeOK
<1>2. /\ user[s].got \in Seq(Nat) /\ dest[s].got \in Seq(Nat)
      /\ user[s].read \in Nat /\ dest[s].read \in Nat
      /\ epoch \in Nat /\ server[s].tun \in Nat
  BY <1>1, BoundsAssumption DEF Connection, ServerState, TypeOK
<1> QED
  BY <1>2, LenProperties DEF TypeOK

\* A session for which a step is quiet stays in order.
LEMMA QuietKeeps ==
  ASSUME TypeOK, NEW s \in Session, InOrder(s), Quiet(s)
  PROVE  InOrder(s)'
<1>c. /\ user[s].read \in Nat /\ dest[s].read \in Nat
      /\ Len(user[s].got) \in Nat /\ Len(dest[s].got) \in Nat
      /\ epoch \in Nat /\ server[s].tun \in Nat
  BY CountsOf
<1>1. NothingYet(s)'
  BY <1>c DEF Quiet, InOrder, NothingYet
<1>2. UpInOrder(s)'
  BY <1>c DEF Quiet, InOrder, UpInOrder
<1>3. DownInOrder(s)'
  BY <1>c DEF Quiet, InOrder, DownInOrder
<1> QED
  BY <1>1, <1>2, <1>3 DEF InOrder

\* A step of session r is quiet for the others.
OnlyOf(r) ==
  /\ UNCHANGED <<link, epoch>>
  /\ \A s \in Session \ {r} : /\ server'[s] = server[s] /\ client'[s] = client[s]
                              /\ user'[s] = user[s] /\ dest'[s] = dest[s]
  /\ Moved(up, up', r) /\ Moved(down, down', r)

LEMMA OthersAreQuiet ==
  ASSUME TypeOK, NEW r \in Session, OnlyOf(r), NEW s \in Session \ {r}
  PROVE  Quiet(s)
<1>1. Keeps(up, up', s) /\ Keeps(down, down', s)
  BY MovedKeeps, CountsOf DEF OnlyOf
<1>2. epoch \in Nat
  BY CountsOf
<1>3. (Current(s)' <=> Current(s)) /\ (Closing(s) => Closing(s)')
  BY <1>1 DEF OnlyOf, Current, Closing, Keeps
<1> QED
  BY <1>1, <1>2, <1>3 DEF OnlyOf, Quiet, Keeps, Dialled, Relayed

\* What messages say of their sessions stays true, for nothing is un-dialled.
LEMMA MessagesKeep ==
  ASSUME TypeOK, MessagesFit,
         \A s \in Session : /\ Dialled(s) => Dialled(s)'
                            /\ server'[s].pc = "idle" => server[s].pc = "idle",
         \A m \in Carried(up)' : \/ m \in Carried(up) \/ m.type = "data"
                                 \/ m.type = "create" /\ server'[m.session].pc # "idle"
                                 \/ m.type = "close" /\ Dialled(m.session)',
         \A m \in Carried(down)' : m \in Carried(down) \/ m.type # "data" \/ Dialled(m.session)'
  PROVE  MessagesFit'
<1>1. /\ \A m \in Carried(up) : m.session \in Session
      /\ \A m \in Carried(down) : m.session \in Session
  BY CarriedAreMessages DEF Message
<1> QED
  BY <1>1 DEF MessagesFit

\* So the step of a session is done with what it does to that session.
LEMMA OneSession ==
  ASSUME TypeOK, OrderInv, NEW r \in Session, OnlyOf(r), InOrder(r)', MessagesFit'
  PROVE  OrderInv'
<1>1. ASSUME NEW s \in Session \ {r} PROVE InOrder(s)'
  BY OthersAreQuiet, QuietKeeps DEF OrderInv
<1> QED
  BY <1>1 DEF OrderInv

\* What a step sets, and that it sets it for one session only.
LEMMA Goes ==
  ASSUME TypeOK, NEW r \in Session
  PROVE  /\ \A pc : GoServer(r, pc) => /\ server'[r].pc = pc /\ server'[r].tun = server[r].tun
                                       /\ \A s \in Session \ {r} : server'[s] = server[s]
         /\ \A pc : GoClient(r, pc) => /\ client'[r].pc = pc
                                       /\ client'[r].byServer = client[r].byServer
                                       /\ \A s \in Session \ {r} : client'[s] = client[s]
  BY DEF TypeOK, ServerState, ClientState, GoServer, GoClient

\* What a step that sets one connection leaves alone, and what it sets.
LEMMA Sets ==
  ASSUME TypeOK, NEW r \in Session, NEW c
  PROVE  /\ SetUser(r, c) => user'[r] = c /\ \A s \in Session \ {r} : user'[s] = user[s]
         /\ SetDest(r, c) => dest'[r] = c /\ \A s \in Session \ {r} : dest'[s] = dest[s]
  BY DEF TypeOK, SetUser, SetDest

\* Closing a connection changes its state only.
LEMMA ClosedIs ==
  ASSUME NEW c \in Connection
  PROVE  Closed(c).state = "closed" /\ Closed(c).got = c.got /\ Closed(c).read = c.read
  BY DEF Closed, Connection

\* A queue that stays has not moved.
LEMMA NoMove == Moved(up, up, 0) /\ \A q, r : Moved(q, q, r)
  BY DEF Moved

\* A step of the server's goroutine, or of the user, that sends nothing;
\* or a message other than data arrives.
LEMMA ServerQuiet ==
  ASSUME TypeOK, OrderInv, NEW r \in Session,
         UNCHANGED <<link, epoch, up, client, dest>>,
         \/ UNCHANGED down
         \/ /\ down # <<>> /\ Head(down).session = r /\ ~DataOf(Head(down), r)
            /\ down' = Tail(down),
         UNCHANGED server \/ \E pc \in ServerPC \ {"idle"} :
                               GoServer(r, pc) /\ (pc \in Early => server[r].pc \in Early),
         UNCHANGED user \/ \E c : /\ SetUser(r, c) /\ c.got = user[r].got /\ c.read = user[r].read
                                  /\ user[r].state = "closed" => c.state = "closed"
  PROVE  OrderInv'
<1>1. /\ server'[r].tun = server[r].tun /\ (server'[r].pc = "idle" => server[r].pc = "idle")
      /\ server'[r].pc \in Early => server[r].pc \in Early
      /\ \A s \in Session \ {r} : server'[s] = server[s]
  BY Goes
<1>2. /\ user'[r].got = user[r].got /\ user'[r].read = user[r].read
      /\ user[r].state = "closed" => user'[r].state = "closed"
      /\ \A s \in Session \ {r} : user'[s] = user[s]
  BY Sets
<1>3. OnlyOf(r)
  BY <1>1, <1>2, NoMove DEF OnlyOf, Moved
<1>3a. \A n, m \in Nat : /\ Continues(down, r, n, m) => Continues(down', r, n, m)
                         /\ Complete(down, r, n, m) => Complete(down', r, n, m)
  BY OtherTaken, CountsOf
<1>4. epoch \in Nat /\ Current(r)' = Current(r) /\ Closing(r)' = Closing(r)
      /\ Dialled(r)' = Dialled(r) /\ Relayed(r)' = Relayed(r)
  BY <1>1, CountsOf DEF Current, Closing, Dialled, Relayed
<1>5. Quiet(r)
  BY <1>1, <1>2, <1>3a, <1>4 DEF Quiet
<1>6. InOrder(r)'
  BY <1>5, QuietKeeps DEF OrderInv
<1>7. MessagesFit'
  <2>1. Carried(down') \subseteq Carried(down)
    BY TakenOff, CountsOf
  <2> QED
    BY <1>1, <2>1, MessagesKeep DEF OrderInv, Dialled
<1> QED
  BY <1>3, <1>6, <1>7, OneSession

\* A step of the client's goroutine, or of the destination, that brings no data.
LEMMA ClientQuiet ==
  ASSUME TypeOK, OrderInv, NEW r \in Session,
         UNCHANGED <<link, epoch, up, server, user>>,
         down' = down \/ \E x \in Message : x.session = r /\ x.type # "data" /\ down' = Append(down, x),
         UNCHANGED client \/ \E pc \in {"relay", "eof", "done"} :
           /\ GoClient(r, pc) /\ client[r].pc # "none" /\ (pc # "done" => Relayed(r))
           /\ client[r].pc \in {"eof", "done"} => pc = "done",
         UNCHANGED dest \/ \E c : /\ SetDest(r, c) /\ c.got = dest[r].got /\ c.read = dest[r].read
                                  /\ dest[r].state = "closed" => c.state = "closed"
                                  /\ Dialled(r)
  PROVE  OrderInv'
<1>1. /\ client'[r].byServer = client[r].byServer
      /\ client'[r].pc # client[r].pc => /\ client[r].pc # "none"
                                         /\ client'[r].pc \in {"relay", "eof", "done"}
      /\ Relayed(r)' => Relayed(r)
      /\ client[r].pc \in {"eof", "done"} => client'[r].pc \in {"eof", "done"}
      /\ \A s \in Session \ {r} : client'[s] = client[s]
  BY Goes DEF Relayed
<1>2. /\ dest'[r].got = dest[r].got /\ dest'[r].read = dest[r].read
      /\ dest[r].state = "closed" => dest'[r].state = "closed"
      /\ ~Dialled(r) => dest'[r] = dest[r]
      /\ \A s \in Session \ {r} : dest'[s] = dest[s]
  BY Sets
<1>3. OnlyOf(r)
  BY <1>1, <1>2, NoMove DEF OnlyOf, Moved
<1>4. Keeps(down, down', r)
  BY AppendKeeps, CountsOf DEF DataOf, Keeps
<1>5. epoch \in Nat /\ Current(r)' = Current(r)
  BY CountsOf DEF Current
<1>6. /\ server[r].pc = "idle" => client'[r].pc = client[r].pc
      /\ Dialled(r) => Dialled(r)'
      /\ Closing(r) => Closing(r)'
  BY <1>1 DEF OrderInv, InOrder, NothingYet, Dialled, Closing
<1>7. Quiet(r)
  BY <1>1, <1>2, <1>4, <1>5, <1>6 DEF Quiet, Keeps
<1>8. InOrder(r)'
  BY <1>7, QuietKeeps DEF OrderInv
<1>9. MessagesFit'
  <2>1. \A x \in Carried(down)' : x \in Carried(down) \/ x.type # "data"
    BY Appended, CountsOf
  <2>2. \A s \in Session : Dialled(s) => Dialled(s)'
    BY <1>1, <1>6 DEF Dialled
  <2> QED
    BY <2>1, <2>2, MessagesKeep DEF OrderInv
<1> QED
  BY <1>3, <1>8, <1>9, OneSession

\* The steps of the goroutines of a session that are quiet for it.
LEMMA QuietSteps ==
  ASSUME TypeOK, OrderInv, NEW r \in Session,
         \/ RequestFails(r) \/ Listen(r) \/ CreateTimesOut(r) \/ StoreProxy(r) \/ UserEOF(r)
         \/ DeleteProxy(r) \/ UserSends(r) \/ UserCloses(r) \/ (SendExtra(r) /\ ~server[r].extra)
         \/ ReplySuccess(r) \/ DialFails(r) \/ DestEOF(r) \/ DeleteSession(r)
         \/ DestSends(r) \/ DestCloses(r) \/ UserStopsReading(r) \/ DestStopsReading(r)
  PROVE  OrderInv'
<1>u. PICK u : u = user[r]
  OBVIOUS
<1>d. PICK d : d = dest[r]
  OBVIOUS
<1>c. /\ u \in Connection /\ d \in Connection
      /\ Closed(u).state = "closed" /\ Closed(u).got = u.got /\ Closed(u).read = u.read
      /\ Closed(d).state = "closed" /\ Closed(d).got = d.got /\ Closed(d).read = d.read
  BY <1>u, <1>d, ClosedIs DEF TypeOK
<1>p. {"done", "select", "relay", "eof", "extra"} \subseteq ServerPC \ {"idle"}
  BY DEF ServerPC
<1>1. CASE \/ RequestFails(r) \/ Listen(r) \/ CreateTimesOut(r) \/ StoreProxy(r) \/ UserEOF(r)
           \/ DeleteProxy(r) \/ (SendExtra(r) /\ ~server[r].extra)
  <2>1. UNCHANGED <<link, epoch, up, down, client, dest>>
    BY <1>1 DEF RequestFails, Listen, CreateTimesOut, StoreProxy, UserEOF, DeleteProxy, SendExtra
  <2>2. \E pc \in ServerPC \ {"idle"} : GoServer(r, pc) /\ (pc \in Early => server[r].pc \in Early)
    BY <1>1, <1>p DEF RequestFails, Listen, CreateTimesOut, StoreProxy, UserEOF, DeleteProxy,
                      SendExtra, Fail, Early
  <2>3. UNCHANGED user \/ SetUser(r, Closed(u))
    BY <1>1, <1>u DEF RequestFails, Listen, CreateTimesOut, StoreProxy, UserEOF, DeleteProxy,
                      SendExtra, Fail
  <2> QED
    BY <1>c, <1>u, <2>1, <2>2, <2>3, ServerQuiet
<1>2. CASE UserSends(r) \/ UserCloses(r) \/ UserStopsReading(r)
  <2>1. PICK c : /\ SetUser(r, c) /\ c.got = u.got /\ c.read = u.read /\ u.state # "closed"
                 /\ UNCHANGED <<link, epoch, up, down, client, dest, server>>
    <3>1. CASE UserSends(r)
      <4> DEFINE c == [u EXCEPT !.sent = @ + 1]
      <4>1. c.got = u.got /\ c.read = u.read
        BY <1>c DEF Connection
      <4> QED
        BY <1>u, <3>1, <4>1 DEF UserSends
    <3>2. CASE UserCloses(r)
      <4> DEFINE c == [u EXCEPT !.state = "fin"]
      <4>1. c.got = u.got /\ c.read = u.read
        BY <1>c DEF Connection
      <4> QED
        BY <1>u, <3>2, <4>1 DEF UserCloses
    <3>3. CASE UserStopsReading(r)
      <4> DEFINE c == [u EXCEPT !.deaf = TRUE]
      <4>1. c.got = u.got /\ c.read = u.read
        BY <1>c DEF Connection
      <4> QED
        BY <1>u, <3>3, <4>1 DEF UserStopsReading
    <3> QED
      BY <1>2, <3>1, <3>2, <3>3
  <2> QED
    BY <1>u, <2>1, ServerQuiet
<1>3. CASE ReplySuccess(r) \/ DialFails(r) \/ DestEOF(r) \/ DeleteSession(r)
  <2>1. UNCHANGED <<link, epoch, up, server, user>>
    BY <1>3 DEF ReplySuccess, DialFails, DestEOF, DeleteSession
  <2>2. down' = down \/ \E x \in Message : x.session = r /\ x.type # "data" /\ down' = Append(down, x)
    <3>1. \A n \in {0, 1} : /\ Msg("reply", r, n) \in Message /\ Msg("close", r, 0) \in Message
                            /\ Msg("reply", r, n).session = r /\ Msg("reply", r, n).type = "reply"
                            /\ Msg("close", r, 0).session = r /\ Msg("close", r, 0).type = "close"
      BY MsgType DEF Msg
    <3> QED
      BY <1>3, <3>1 DEF ReplySuccess, DialFails, DestEOF, DeleteSession, Reply
  <2>3. \E pc \in {"relay", "eof", "done"} :
           /\ GoClient(r, pc) /\ client[r].pc # "none" /\ (pc # "done" => Relayed(r))
           /\ client[r].pc \in {"eof", "done"} => pc = "done"
    BY <1>3 DEF ReplySuccess, DialFails, DestEOF, DeleteSession, Relayed
  <2>4. UNCHANGED dest \/ (SetDest(r, Closed(d)) /\ Dialled(r))
    <3>1. CASE DestEOF(r)
      BY <1>d, <3>1 DEF DestEOF, Dialled
    <3> QED
      BY <1>3, <3>1 DEF ReplySuccess, DialFails, DeleteSession
  <2> QED
    BY <1>c, <1>d, <2>1, <2>2, <2>3, <2>4, ClientQuiet
<1>4. CASE DestSends(r) \/ DestCloses(r) \/ DestStopsReading(r)
  <2>0. Dialled(r) /\ d.state # "closed"
    BY <1>4, <1>d DEF DestSends, DestCloses, DestStopsReading, OrderInv, InOrder, NothingYet, Conn
  <2>1. PICK c : /\ SetDest(r, c) /\ c.got = d.got /\ c.read = d.read
                 /\ UNCHANGED <<link, epoch, up, down, client, user, server>>
    <3>1. CASE DestSends(r)
      <4> DEFINE c == [d EXCEPT !.sent = @ + 1]
      <4>1. c.got = d.got /\ c.read = d.read
        BY <1>c DEF Connection
      <4> QED
        BY <1>d, <3>1, <4>1 DEF DestSends
    <3>2. CASE DestCloses(r)
      <4> DEFINE c == [d EXCEPT !.state = "fin"]
      <4>1. c.got = d.got /\ c.read = d.read
        BY <1>c DEF Connection
      <4> QED
        BY <1>d, <3>2, <4>1 DEF DestCloses
    <3>3. CASE DestStopsReading(r)
      <4> DEFINE c == [d EXCEPT !.deaf = TRUE]
      <4>1. c.got = d.got /\ c.read = d.read
        BY <1>c DEF Connection
      <4> QED
        BY <1>d, <3>3, <4>1 DEF DestStopsReading
    <3> QED
      BY <1>4, <3>1, <3>2, <3>3
  <2> QED
    BY <1>d, <2>0, <2>1, ClientQuiet
<1> QED
  BY <1>1, <1>2, <1>3, <1>4

\* A session begins: nothing of it is anywhere.
LEMMA RequestStep ==
  ASSUME IInv, OrderInv, NEW r \in Session, RequestSession(r)
  PROVE  OrderInv'
<1>t. TypeOK /\ epoch \in Nat /\ MessagesFit /\ NothingYet(r) /\ UpInOrder(r)
  BY CountsOf DEF IInv, OrderInv, InOrder
<1>1. /\ server[r].pc = "idle" /\ UNCHANGED <<link, serving, epoch, down, client, user, dest>>
      /\ server'[r].pc = "wrote" /\ server'[r].tun = epoch
      /\ \A s \in Session \ {r} : server'[s] = server[s]
  BY <1>t DEF RequestSession, TypeOK
<1>2. Msg("create", r, 0) \in Message /\ Msg("create", r, 0).session = r
      /\ Msg("create", r, 0).type = "create"
  BY MsgType DEF Msg
<1>3. Moved(up, up', r) /\ Carried(up') \subseteq Carried(up) \cup {Msg("create", r, 0)}
  BY <1>t, <1>2, Appended DEF RequestSession, Moved, TypeOK
<1>4. OnlyOf(r)
  BY <1>1, <1>3, NoMove DEF OnlyOf
<1>5. client[r].pc = "none" /\ ~Dialled(r) /\ ~Relayed(r) /\ user[r].got = <<>>
      /\ user[r].read = 0 /\ dest[r].read = 0
  BY <1>t, <1>1 DEF NothingYet, Dialled, Relayed, Conn
<1>6. \A i \in DOMAIN down : ~DataOf(down[i], r)
  BY <1>t, <1>5 DEF MessagesFit, Carried, DataOf
<1>7. NothingYet(r)' /\ UpInOrder(r)'
  BY <1>t, <1>1, <1>5 DEF NothingYet, UpInOrder, Dialled, Relayed
<1>8. DownInOrder(r)'
  <2>1. Continues(down, r, 0, 0) /\ Complete(down, r, 0, 0)
    BY <1>6, NoneInOrder
  <2>2. Prefix(<<>>) /\ Len(<<>>) = 0
    BY DEF Prefix
  <2> QED
    BY <1>1, <1>5, <2>1, <2>2 DEF DownInOrder
<1>9. MessagesFit'
  BY <1>t, <1>1, <1>2, <1>3, MessagesKeep DEF Dialled
<1> QED
  BY <1>t, <1>4, <1>7, <1>8, <1>9, OneSession DEF InOrder

\* The range of a stretch may grow at its end.
LEMMA ContinuesFurther ==
  ASSUME NEW q \in Seq(Message), NEW s, NEW n \in Nat, NEW m \in Nat, Continues(q, s, n, m)
  PROVE  Continues(q, s, n, m + 1)
<1>1. \A i \in DOMAIN q : q[i] \in Message
  BY ElementOfSeq, LenProperties
<1>2. \A i \in DOMAIN q : q[i].data \in Nat
  BY <1>1 DEF Message
<1> QED
  BY <1>2 DEF Continues

\* An item is read of the user and sent.
LEMMA SendUpStep ==
  ASSUME IInv, OrderInv, NEW r \in Session, server[r].pc \in {"created", "relay"},
         Write(r, Msg("data", r, user[r].read + 1)),
         SetUser(r, [user[r] EXCEPT !.read = user[r].read + 1]),
         IF server[r].pc = "created" THEN GoServer(r, "extra") ELSE UNCHANGED server,
         UNCHANGED <<link, serving, epoch, down, client, dest>>
  PROVE  OrderInv'
<1>t. TypeOK /\ MessagesFit /\ NothingYet(r) /\ UpInOrder(r) /\ DownInOrder(r) /\ Dialled(r)
  BY DEF IInv, OrderInv, InOrder, AnsweredIsDialled
<1>n. PICK n : n = user[r].read
  OBVIOUS
<1>k. /\ n \in Nat /\ n + 1 \in Nat /\ Len(dest[r].got) \in Nat /\ up \in Seq(Message)
      /\ user[r] \in Connection /\ epoch \in Nat
  BY <1>n, <1>t, CountsOf DEF TypeOK
<1>x. PICK x : x = Msg("data", r, n + 1)
  OBVIOUS
<1>m. x \in Message /\ x.session = r /\ x.type = "data"
  BY <1>k, <1>x, MsgType DEF Msg
<1>1. /\ server'[r].tun = server[r].tun /\ server'[r].pc # "idle"
      /\ server'[r].pc \notin Early
      /\ \A s \in Session : server'[s].pc = "idle" => server[s].pc = "idle"
      /\ \A s \in Session \ {r} : server'[s] = server[s]
  BY <1>t, Goes DEF Early
<1>2. /\ user'[r].got = user[r].got /\ user'[r].read = n + 1 /\ user'[r].state = user[r].state
      /\ \A s \in Session \ {r} : user'[s] = user[s]
  <2>1. SetUser(r, [user[r] EXCEPT !.read = n + 1])
    BY <1>n
  <2>2. /\ user'[r] = [user[r] EXCEPT !.read = n + 1]
        /\ \A s \in Session \ {r} : user'[s] = user[s]
    BY <1>t, <2>1, Sets
  <2> QED
    BY <1>k, <2>2 DEF Connection
<1>3. up' = IF Current(r) THEN Append(up, x) ELSE up
  BY <1>n, <1>x DEF Write
<1>4. Moved(up, up', r) /\ Carried(up') \subseteq Carried(up) \cup {x}
      /\ (InFlight(up, "close", r) => InFlight(up', "close", r))
  <2>1. Moved(up, up', r) /\ Carried(up') \subseteq Carried(up) \cup {x}
    BY <1>3, <1>k, <1>m, Appended DEF Moved
  <2>2. InFlight(up, "close", r) => InFlight(Append(up, x), "close", r)
    BY <1>k, <1>m, AppendedAt DEF InFlight
  <2> QED
    BY <1>3, <2>1, <2>2
<1>5. OnlyOf(r)
  BY <1>1, <1>2, <1>4, NoMove DEF OnlyOf
<1>6. (Current(r)' <=> Current(r)) /\ (Closing(r) => Closing(r)') /\ Dialled(r)' /\ Relayed(r)' = Relayed(r)
  BY <1>1, <1>4, <1>t DEF Current, Closing, Dialled, Relayed
<1>7. NothingYet(r)'
  BY <1>1, <1>6, <1>k, <1>t DEF NothingYet
<1>8. UpInOrder(r)'
  <2>1. CASE ~(Relayed(r) /\ dest[r].state # "closed")
    BY <1>2, <1>6, <1>k, <1>n, <1>t, <2>1 DEF UpInOrder
  <2>2. CASE Relayed(r) /\ dest[r].state # "closed"
    <3>1. Continues(up, r, Len(dest[r].got), n) /\ (Current(r) => Complete(up, r, Len(dest[r].got), n))
          /\ Len(dest[r].got) <= n /\ Prefix(dest[r].got)
      BY <1>n, <1>t, <2>2 DEF UpInOrder
    <3>2. /\ Continues(up', r, Len(dest[r].got), n + 1)
          /\ Current(r) => Complete(up', r, Len(dest[r].got), n + 1)
      BY <1>3, <1>k, <1>x, <3>1, NextAppended, ContinuesFurther
    <3> QED
      BY <1>2, <1>6, <1>k, <3>1, <3>2 DEF UpInOrder
  <2> QED
    BY <2>1, <2>2
<1>9. DownInOrder(r)'
  BY <1>2, <1>6, <1>t DEF DownInOrder
<1>10. MessagesFit'
  BY <1>1, <1>4, <1>m, <1>t, MessagesKeep DEF Dialled
<1> QED
  BY <1>5, <1>7, <1>8, <1>9, <1>10, <1>t, OneSession DEF InOrder

\* The session is stored: none of its data is on its way.
LEMMA DialStep ==
  ASSUME IInv, OrderInv, NEW r \in Session, DialSucceeds(r)
  PROVE  OrderInv'
<1>t. TypeOK /\ epoch \in Nat /\ MessagesFit /\ NothingYet(r) /\ UpInOrder(r) /\ DownInOrder(r)
  BY CountsOf DEF IInv, OrderInv, InOrder
<1>1. /\ client[r].pc = "dialing" /\ GoClient(r, "stored") /\ SetDest(r, Conn("open"))
      /\ UNCHANGED <<link, serving, epoch, up, down, server, user>>
  BY DEF DialSucceeds
<1>2. /\ client'[r].pc = "stored" /\ client'[r].byServer = client[r].byServer
      /\ \A s \in Session \ {r} : client'[s] = client[s]
      /\ dest'[r] = Conn("open")
      /\ \A s \in Session \ {r} : dest'[s] = dest[s]
  BY <1>1, <1>t, Goes, Sets
<1>3. OnlyOf(r)
  BY <1>1, <1>2, NoMove DEF OnlyOf
<1>4. user[r].read = 0 /\ dest[r].read = 0 /\ server[r].pc # "idle"
  BY <1>1, <1>t DEF NothingYet, Dialled, Conn
<1>5. \A i \in DOMAIN up : ~DataOf(up[i], r)
  BY <1>1 DEF IInv, DataIsDialled, Carried, DataOf, Dialled
<1>6. /\ dest'[r].got = <<>> /\ dest'[r].read = 0 /\ Len(<<>>) = 0 /\ Prefix(<<>>)
      /\ Continues(up, r, 0, 0) /\ Complete(up, r, 0, 0)
  BY <1>2, <1>5, NoneInOrder DEF Conn, Prefix
<1>7. Dialled(r)' /\ (Current(r)' <=> Current(r)) /\ (Closing(r) => Closing(r)')
  BY <1>1, <1>2 DEF Dialled, Current, Closing
<1>8. NothingYet(r)' /\ UpInOrder(r)' /\ DownInOrder(r)'
  BY <1>1, <1>4, <1>6, <1>7, <1>t DEF NothingYet, UpInOrder, DownInOrder
<1>9. MessagesFit'
  <2>1. \A s \in Session : Dialled(s) => Dialled(s)'
    BY <1>2 DEF Dialled
  <2> QED
    BY <1>1, <1>t, <2>1, MessagesKeep
<1> QED
  BY <1>3, <1>8, <1>9, <1>t, OneSession DEF InOrder

\* An item is read of the destination and sent.
LEMMA SendDownStep ==
  ASSUME IInv, OrderInv, NEW r \in Session, ReadDest(r)
  PROVE  OrderInv'
<1>t. TypeOK /\ MessagesFit /\ NothingYet(r) /\ UpInOrder(r) /\ DownInOrder(r)
  BY DEF IInv, OrderInv, InOrder
<1>n. PICK n : n = dest[r].read
  OBVIOUS
<1>k. /\ n \in Nat /\ n + 1 \in Nat /\ Len(user[r].got) \in Nat /\ down \in Seq(Message)
      /\ dest[r] \in Connection /\ epoch \in Nat
  BY <1>n, <1>t, CountsOf DEF TypeOK
<1>x. PICK x : x = Msg("data", r, n + 1)
  OBVIOUS
<1>m. x \in Message /\ x.session = r
  BY <1>k, <1>x, MsgType DEF Msg
<1>1. /\ Dialled(r) /\ UNCHANGED <<link, serving, epoch, up, server, client, user>>
      /\ down' = IF link = "up" THEN Append(down, x) ELSE down
      /\ SetDest(r, [dest[r] EXCEPT !.read = n + 1])
  BY <1>n, <1>x DEF ReadDest, Reply, Dialled
<1>2. /\ dest'[r].got = dest[r].got /\ dest'[r].read = n + 1 /\ dest'[r].state = dest[r].state
      /\ \A s \in Session \ {r} : dest'[s] = dest[s]
  <2>1. PICK c : c = [dest[r] EXCEPT !.read = n + 1]
    OBVIOUS
  <2>2. c.got = dest[r].got /\ c.read = n + 1 /\ c.state = dest[r].state
    BY <1>k, <2>1 DEF Connection
  <2>3. SetDest(r, c)
    BY <1>1, <2>1
  <2>4. dest'[r] = c /\ \A s \in Session \ {r} : dest'[s] = dest[s]
    BY <1>t, <2>3, Sets
  <2> QED
    BY <2>2, <2>4
<1>3. Moved(down, down', r) /\ Carried(down') \subseteq Carried(down) \cup {x}
  BY <1>1, <1>k, <1>m, Appended DEF Moved
<1>4. OnlyOf(r)
  BY <1>1, <1>2, <1>3, NoMove DEF OnlyOf
<1>5. /\ Dialled(r)' /\ Current(r)' = Current(r) /\ Closing(r)' = Closing(r) /\ Relayed(r)' = Relayed(r)
      /\ Current(r) => link = "up"
  BY <1>1 DEF Current, Closing, Dialled, Relayed
<1>6. NothingYet(r)' /\ UpInOrder(r)'
  BY <1>1, <1>2, <1>5, <1>k, <1>t DEF NothingYet, UpInOrder
<1>7. DownInOrder(r)'
  <2> SUFFICES ASSUME Current(r), ~Closing(r)
               PROVE  /\ Prefix(user[r].got)
                      /\ user[r].state # "closed" =>
                           /\ Len(user[r].got) <= n + 1
                           /\ Continues(down', r, Len(user[r].got), n + 1)
                           /\ Complete(down', r, Len(user[r].got), n + 1)
    BY <1>1, <1>2, <1>5 DEF DownInOrder
  <2>1. /\ Prefix(user[r].got)
        /\ user[r].state # "closed" => /\ Len(user[r].got) <= n
                                       /\ Continues(down, r, Len(user[r].got), n)
                                       /\ Complete(down, r, Len(user[r].got), n)
    BY <1>n, <1>t DEF DownInOrder
  <2>2. down' = Append(down, Msg("data", r, n + 1))
    BY <1>1, <1>5, <1>x
  <2> QED
    BY <1>k, <2>1, <2>2, NextAppended
<1>8. MessagesFit'
  BY <1>1, <1>3, <1>m, <1>t, MessagesKeep DEF Dialled
<1> QED
  BY <1>4, <1>6, <1>7, <1>8, <1>t, OneSession DEF InOrder

\* The next item keeps a stream one.
LEMMA PrefixGrows ==
  ASSUME NEW got \in Seq(Nat), Prefix(got)
  PROVE  Prefix(Append(got, Len(got) + 1)) /\ Len(Append(got, Len(got) + 1)) = Len(got) + 1
<1>1. Len(got) + 1 \in Nat /\ DOMAIN got = 1..Len(got)
  BY LenProperties
<1> DEFINE p == Append(got, Len(got) + 1)
<1>2. /\ Len(p) = Len(got) + 1 /\ DOMAIN p = 1..Len(got) + 1
      /\ \A i \in 1..Len(got) : p[i] = got[i]
      /\ p[Len(got) + 1] = Len(got) + 1
  BY <1>1, AppendProperties, LenProperties
<1> HIDE DEF p
<1>3. Prefix(p)
  BY <1>1, <1>2 DEF Prefix
<1> QED
  BY <1>2, <1>3 DEF p

\* What is written to a connection.
LEMMA WrittenIs ==
  ASSUME NEW c \in Connection, NEW item \in Nat
  PROVE  /\ c.state = "closed" => Written(c, item) = c
         /\ c.state # "closed" => Written(c, item).got = Append(c.got, item)
         /\ Written(c, item).read = c.read /\ Written(c, item).state = c.state
  BY DEF Written, Connection

\* The server gives its user an item, or tells the client to close.
LEMMA ServerDataStep ==
  ASSUME IInv, OrderInv, down # <<>>, down' = Tail(down), NEW r \in Session, DataOf(Head(down), r),
         OnDataFromTunnel(r, Head(down).data), UNCHANGED <<link, serving, epoch, client, dest>>
  PROVE  OrderInv'
<1>t. TypeOK /\ MessagesFit /\ NothingYet(r) /\ UpInOrder(r) /\ DownInOrder(r)
  BY DEF IInv, OrderInv, InOrder
<1>k. /\ user[r].got \in Seq(Nat) /\ Len(user[r].got) \in Nat /\ dest[r].read \in Nat
      /\ Len(dest[r].got) \in Nat /\ user[r].read \in Nat
      /\ down \in Seq(Message) /\ up \in Seq(Message) /\ user[r] \in Connection
  BY <1>t, CountsOf DEF TypeOK
<1>d. PICK d : d = Head(down).data
  OBVIOUS
<1>h. d \in Nat /\ Head(down) \in Carried(down) /\ Carried(Tail(down)) \subseteq Carried(down)
  BY <1>d, <1>k, TakenOff DEF Message
<1>1. Dialled(r) /\ Dialled(r)' /\ Moved(down, down', r) /\ server' = server
  BY <1>h, <1>t DEF MessagesFit, DataOf, Dialled, Moved, OnDataFromTunnel
<1>2. CASE Known(r)
  <2>1. SetUser(r, Written(user[r], d)) /\ up' = up
    BY <1>2, <1>d DEF OnDataFromTunnel
  <2>2. user'[r] = Written(user[r], d) /\ \A s \in Session \ {r} : user'[s] = user[s]
    BY <1>t, <2>1, Sets
  <2>3. /\ user'[r].read = user[r].read /\ user'[r].state = user[r].state
        /\ user[r].state = "closed" => user'[r] = user[r]
        /\ user[r].state # "closed" => user'[r].got = Append(user[r].got, d)
    <3> DEFINE w == Written(user[r], d)
    <3>1. /\ user[r].state = "closed" => w = user[r]
          /\ user[r].state # "closed" => w.got = Append(user[r].got, d)
          /\ w.read = user[r].read /\ w.state = user[r].state
      BY <1>h, <1>k, WrittenIs
    <3> HIDE DEF w
    <3>2. user'[r] = w
      BY <2>2 DEF w
    <3> QED
      BY <3>1, <3>2
  <2>4. OnlyOf(r)
    BY <1>1, <2>1, <2>2, NoMove DEF OnlyOf
  <2>5. /\ Current(r)' = Current(r) /\ Closing(r)' = Closing(r) /\ Relayed(r)' = Relayed(r)
        /\ server[r].pc # "idle"
    BY <1>1, <1>2, <2>1 DEF Current, Closing, Relayed, Known
  <2>6. NothingYet(r)' /\ UpInOrder(r)'
    BY <1>1, <1>t, <2>1, <2>3, <2>5 DEF NothingYet, UpInOrder
  <2>7. DownInOrder(r)'
    <3>1. CASE user[r].state = "closed"
      BY <1>t, <2>3, <2>5, <3>1 DEF DownInOrder
    <3>2. CASE user[r].state # "closed"
      <4> SUFFICES ASSUME Current(r), ~Closing(r)
                   PROVE  /\ Prefix(user'[r].got) /\ Len(user'[r].got) <= dest[r].read
                          /\ Continues(down', r, Len(user'[r].got), dest[r].read)
                          /\ Complete(down', r, Len(user'[r].got), dest[r].read)
        BY <2>5 DEF DownInOrder
      <4>1. /\ Prefix(user[r].got) /\ Len(user[r].got) <= dest[r].read
            /\ Continues(down, r, Len(user[r].got), dest[r].read)
            /\ Complete(down, r, Len(user[r].got), dest[r].read)
        BY <1>t, <3>2 DEF DownInOrder
      <4>2. /\ d = Len(user[r].got) + 1 /\ Len(user[r].got) + 1 <= dest[r].read
            /\ Continues(Tail(down), r, Len(user[r].got) + 1, dest[r].read)
            /\ Complete(Tail(down), r, Len(user[r].got) + 1, dest[r].read)
        BY <1>d, <1>k, <4>1, NextTaken
      <4>3. Prefix(user'[r].got) /\ Len(user'[r].got) = Len(user[r].got) + 1
        BY <1>k, <2>3, <3>2, <4>1, <4>2, PrefixGrows
      <4> QED
        BY <4>2, <4>3
    <3> QED
      BY <3>1, <3>2
  <2>8. MessagesFit'
    BY <1>1, <1>h, <1>t, <2>1, MessagesKeep DEF Dialled
  <2> QED
    BY <1>t, <2>4, <2>6, <2>7, <2>8, OneSession DEF InOrder
<1>3. CASE ~Known(r)
  <2>x. PICK x : x = Msg("close", r, 0)
    OBVIOUS
  <2>m. x \in Message /\ x.session = r /\ x.type = "close"
    BY <2>x, MsgType DEF Msg
  <2>1. up' = (IF link = "up" THEN Append(up, x) ELSE up) /\ UNCHANGED user
    BY <1>3, <2>x DEF OnDataFromTunnel
  <2>2. Moved(up, up', r) /\ Keeps(up, up', r) /\ Carried(up') \subseteq Carried(up) \cup {x}
    BY <1>k, <2>1, <2>m, AppendKeeps, Appended DEF Moved, Keeps, DataOf
  <2>3. OnlyOf(r)
    BY <1>1, <2>1, <2>2 DEF OnlyOf
  <2>4. Current(r)' = Current(r) /\ Relayed(r)' = Relayed(r)
    BY <1>1 DEF Current, Relayed
  <2>5. Current(r) => Closing(r)'
    <3>1. InFlight(Append(up, x), "close", r)
      <4>1. Len(up) + 1 \in DOMAIN Append(up, x) /\ Append(up, x)[Len(up) + 1] = x
        BY <1>k, <2>m, AppendedAt
      <4> QED
        BY <2>m, <4>1 DEF InFlight
    <3> QED
      BY <2>1, <3>1 DEF Current, Closing
  <2>6. NothingYet(r)' /\ UpInOrder(r)'
    BY <1>1, <1>k, <1>t, <2>1, <2>2, <2>4 DEF NothingYet, UpInOrder, Keeps
  <2>7. DownInOrder(r)'
    BY <2>4, <2>5 DEF DownInOrder
  <2>8. MessagesFit'
    BY <1>1, <1>h, <1>t, <2>2, <2>m, MessagesKeep DEF Dialled
  <2> QED
    BY <1>t, <2>3, <2>6, <2>7, <2>8, OneSession DEF InOrder
<1> QED
  BY <1>2, <1>3

\* The server's reader.
LEMMA ServerReadsOrder ==
  ASSUME IInv, OrderInv, ServerReads
  PROVE  OrderInv'
<1>t. TypeOK /\ down # <<>> /\ down' = Tail(down) /\ UNCHANGED <<link, serving, epoch, client, dest>>
  BY DEF IInv, ServerReads
<1>m. PICK m : m = Head(down)
  OBVIOUS
<1>r. m \in Message /\ m.session \in Session
  BY <1>m, <1>t, TakenOff DEF TypeOK, Message
<1>p. PICK r \in Session : r = m.session
  BY <1>r
<1>c. user[r] \in Connection /\ "done" \in ServerPC \ {"idle"} /\ "created" \in ServerPC \ {"idle"}
  BY <1>t DEF TypeOK, ServerPC
<1>1. CASE m.type = "reply" /\ OnReply(r, m.data = 1)
  <2>1. UNCHANGED server \/ \E pc \in ServerPC \ {"idle"} :
                               GoServer(r, pc) /\ (pc \in Early => server[r].pc \in Early)
    BY <1>1, <1>c DEF OnReply, Fail, Early
  <2>2. UNCHANGED user \/ SetUser(r, Closed(user[r]))
    BY <1>1 DEF OnReply, Fail
  <2>3. up' = up /\ ~DataOf(m, r)
    BY <1>1 DEF OnReply, DataOf
  <2> QED
    BY <1>c, <1>m, <1>p, <1>t, <2>1, <2>2, <2>3, ClosedIs, ServerQuiet
<1>2. CASE m.type = "close" /\ OnSessionClose(r)
  <2>1. UNCHANGED user \/ SetUser(r, Closed(user[r]))
    BY <1>2 DEF OnSessionClose
  <2>2. up' = up /\ UNCHANGED server /\ ~DataOf(m, r)
    BY <1>2 DEF OnSessionClose, DataOf
  <2> QED
    BY <1>c, <1>m, <1>p, <1>t, <2>1, <2>2, ClosedIs, ServerQuiet
<1>3. CASE m.type = "data" /\ OnDataFromTunnel(r, m.data)
  BY <1>3, <1>m, <1>p, <1>t, ServerDataStep DEF DataOf
<1> QED
  BY <1>1, <1>2, <1>3, <1>m, <1>p DEF ServerReads

\* The client gives the destination an item.
LEMMA ClientDataStep ==
  ASSUME IInv, OrderInv, up # <<>>, up' = Tail(up), NEW r \in Session, DataOf(Head(up), r),
         OnData(r, Head(up).data), UNCHANGED <<link, serving, epoch, down, server, user>>
  PROVE  /\ OrderInv'
         /\ \/ dest'[r].got = dest[r].got
            \/ /\ dest'[r].got = Append(dest[r].got, Len(dest[r].got) + 1)
               /\ Len(dest[r].got) < user[r].sent
         /\ \A s \in Session \ {r} : dest'[s] = dest[s]
<1>t. TypeOK /\ MessagesFit /\ NothingYet(r) /\ UpInOrder(r) /\ DownInOrder(r)
  BY DEF IInv, OrderInv, InOrder
<1>k. /\ dest[r].got \in Seq(Nat) /\ Len(dest[r].got) \in Nat /\ dest[r].read \in Nat
      /\ Len(user[r].got) \in Nat /\ user[r].read \in Nat /\ user[r].sent \in Nat
      /\ user[r].read <= user[r].sent /\ dest[r] \in Connection
      /\ down \in Seq(Message) /\ up \in Seq(Message)
  BY <1>t, ConnectionsOf, CountsOf DEF TypeOK
<1>d. PICK d : d = Head(up).data
  OBVIOUS
<1>h. /\ d \in Nat /\ Head(up) \in Carried(up) /\ Carried(Tail(up)) \subseteq Carried(up)
      /\ Dialled(r)
  BY <1>d, <1>k, TakenOff DEF Message, IInv, DataIsDialled, DataOf
<1>1. /\ Moved(up, up', r) /\ client' = client /\ Dialled(r)' /\ Current(r)' = Current(r)
      /\ Relayed(r)' = Relayed(r)
  BY <1>h DEF DataOf, Dialled, Moved, OnData, Current, Relayed
<1>2. Closing(r) => Closing(r)'
  <2>1. InFlight(up, "close", r) => InFlight(Tail(up), "close", r)
    <3>1. ASSUME NEW i \in DOMAIN up, up[i].type = "close", up[i].session = r
          PROVE  InFlight(Tail(up), "close", r)
      <4>1. i # 1
        BY <1>k, <3>1, TailAt DEF DataOf
      <4>2. i - 1 \in DOMAIN Tail(up) /\ Tail(up)[i - 1] = up[i]
        BY <1>k, <4>1, TailAt
      <4> QED
        BY <3>1, <4>2 DEF InFlight
    <3> QED
      BY <3>1 DEF InFlight
  <2> QED
    BY <1>1, <2>1 DEF Closing
<1>3. /\ dest'[r] = IF Relayed(r) THEN Written(dest[r], d) ELSE dest[r]
      /\ \A s \in Session \ {r} : dest'[s] = dest[s]
  BY <1>d, <1>t, Sets DEF OnData
<1>4. /\ dest'[r].read = dest[r].read /\ dest'[r].state = dest[r].state
      /\ dest[r].state = "closed" \/ ~Relayed(r) => dest'[r].got = dest[r].got
      /\ dest[r].state # "closed" /\ Relayed(r) => dest'[r].got = Append(dest[r].got, d)
  <2> DEFINE w == Written(dest[r], d)
  <2>1. /\ dest[r].state = "closed" => w = dest[r]
        /\ dest[r].state # "closed" => w.got = Append(dest[r].got, d)
        /\ w.read = dest[r].read /\ w.state = dest[r].state
    BY <1>h, <1>k, WrittenIs
  <2> HIDE DEF w
  <2>2. dest'[r] = IF Relayed(r) THEN w ELSE dest[r]
    BY <1>3 DEF w
  <2> QED
    BY <2>1, <2>2
<1>5. OnlyOf(r)
  BY <1>1, <1>3, NoMove DEF OnlyOf
<1>6. NothingYet(r)' /\ DownInOrder(r)'
  BY <1>1, <1>2, <1>4, <1>h, <1>t DEF NothingYet, DownInOrder
<1>7. /\ UpInOrder(r)'
      /\ \/ dest'[r].got = dest[r].got
         \/ /\ dest'[r].got = Append(dest[r].got, Len(dest[r].got) + 1)
            /\ Len(dest[r].got) < user[r].sent
  <2>1. CASE dest[r].state = "closed" \/ ~Relayed(r)
    BY <1>1, <1>4, <1>t, <2>1 DEF UpInOrder
  <2>2. CASE dest[r].state # "closed" /\ Relayed(r)
    <3>1. /\ Prefix(dest[r].got) /\ Len(dest[r].got) <= user[r].read
          /\ Continues(up, r, Len(dest[r].got), user[r].read)
          /\ Current(r) => Complete(up, r, Len(dest[r].got), user[r].read)
      BY <1>t, <2>2 DEF UpInOrder
    <3>2. /\ d = Len(dest[r].got) + 1 /\ Len(dest[r].got) + 1 <= user[r].read
          /\ Continues(Tail(up), r, Len(dest[r].got) + 1, user[r].read)
          /\ Current(r) => Complete(Tail(up), r, Len(dest[r].got) + 1, user[r].read)
      BY <1>d, <1>k, <3>1, NextTaken
    <3>3. Prefix(dest'[r].got) /\ Len(dest'[r].got) = Len(dest[r].got) + 1
      BY <1>4, <1>k, <2>2, <3>1, <3>2, PrefixGrows
    <3>4. UpInOrder(r)'
      BY <1>1, <3>2, <3>3 DEF UpInOrder
    <3>5. Len(dest[r].got) < user[r].sent
      BY <1>k, <3>2
    <3> QED
      BY <1>4, <2>2, <3>2, <3>4, <3>5
  <2> QED
    BY <2>1, <2>2
<1>8. MessagesFit'
  BY <1>1, <1>h, <1>t, MessagesKeep DEF Dialled
<1>9. OrderInv'
  BY <1>5, <1>6, <1>7, <1>8, <1>t, OneSession DEF InOrder
<1> QED
  BY <1>3, <1>7, <1>9

\* The client is asked for a session, or to close one.
LEMMA ClientTakesStep ==
  ASSUME IInv, OrderInv, up # <<>>, up' = Tail(up), NEW r \in Session, Head(up).session = r,
         \/ Head(up).type = "create" /\ OnSessionCreate(r)
         \/ Head(up).type = "close" /\ OnClose(r),
         UNCHANGED <<link, serving, epoch, down, server, user>>
  PROVE  OrderInv' /\ dest'[r].got = dest[r].got /\ \A s \in Session \ {r} : dest'[s] = dest[s]
<1>t. TypeOK /\ MessagesFit /\ NothingYet(r) /\ InOrder(r)
  BY DEF IInv, OrderInv, InOrder
<1>k. /\ epoch \in Nat /\ up \in Seq(Message) /\ dest[r] \in Connection
      /\ client[r] \in ClientState
      /\ Closed(dest[r]).state = "closed" /\ Closed(dest[r]).got = dest[r].got
      /\ Closed(dest[r]).read = dest[r].read
  BY <1>t, ClosedIs, CountsOf DEF TypeOK
<1>h. Head(up) \in Carried(up) /\ Carried(Tail(up)) \subseteq Carried(up)
  BY <1>k, TakenOff
<1>1. CASE Head(up).type = "create" /\ OnSessionCreate(r)
  <2>1. /\ server[r].pc # "idle"
        /\ Keeps(up, Tail(up), r)
    BY <1>1, <1>h, <1>k, <1>t, TailKeeps DEF MessagesFit, DataOf
  <2>2. /\ client'[r].pc = (IF client[r].pc = "none" THEN "dialing" ELSE client[r].pc)
        /\ client'[r].byServer = client[r].byServer /\ dest' = dest
        /\ \A s \in Session \ {r} : client'[s] = client[s]
    BY <1>1, <1>k, <1>t DEF OnSessionCreate, TypeOK, ClientState
  <2>3. OnlyOf(r)
    BY <2>2, NoMove DEF OnlyOf, Moved
  <2>4. /\ Dialled(r)' = Dialled(r) /\ Relayed(r)' = Relayed(r) /\ Current(r)' = Current(r)
        /\ Closing(r) => Closing(r)'
    BY <2>1, <2>2 DEF Dialled, Relayed, Current, Closing, Keeps
  <2>5. Quiet(r)
    <3>1. /\ epoch' = epoch /\ server' = server /\ user' = user /\ dest' = dest
          /\ up' = Tail(up) /\ down' = down
      BY <2>2
    <3>2. /\ \A n, m \in Nat : /\ Continues(up, r, n, m) => Continues(up', r, n, m)
                               /\ Continues(down, r, n, m) => Continues(down', r, n, m)
                               /\ Complete(up, r, n, m) => Complete(up', r, n, m)
                               /\ Complete(down, r, n, m) => Complete(down', r, n, m)
      BY <2>1, <3>1 DEF Keeps
    <3>3. server'[r].pc # "idle" /\ epoch' \in Nat /\ epoch <= epoch'
      BY <1>k, <2>1, <3>1
    <3> QED
      BY <2>4, <3>1, <3>2, <3>3 DEF Quiet
  <2>6. MessagesFit'
    <3>1. \A s \in Session : Dialled(s) => Dialled(s)'
      BY <2>2 DEF Dialled
    <3> QED
      BY <1>h, <1>t, <3>1, MessagesKeep
  <2> QED
    BY <1>t, <2>2, <2>3, <2>5, <2>6, OneSession, QuietKeeps
<1>2. CASE Head(up).type = "close" /\ OnClose(r)
  <2>1. Dialled(r)
    BY <1>2, <1>h, <1>t DEF MessagesFit
  <2>2. /\ client'[r].pc = client[r].pc
        /\ IF Relayed(r) THEN client'[r].byServer /\ dest'[r] = Closed(dest[r])
                         ELSE client'[r] = client[r] /\ dest'[r] = dest[r]
        /\ \A s \in Session \ {r} : client'[s] = client[s] /\ dest'[s] = dest[s]
    <3>1. CASE Relayed(r)
      BY <1>2, <1>k, <1>t, <3>1, Sets DEF OnClose, TypeOK, ClientState
    <3>2. CASE ~Relayed(r)
      BY <1>2, <3>2 DEF OnClose
    <3> QED
      BY <3>1, <3>2
  <2>3. /\ dest'[r].got = dest[r].got /\ dest'[r].read = dest[r].read
        /\ dest[r].state = "closed" => dest'[r].state = "closed"
    BY <1>k, <2>2
  <2>4. OnlyOf(r)
    BY <2>2, NoMove DEF OnlyOf, Moved
  <2>5. Closing(r)'
    <3>1. client[r].pc \in ClientPC
      BY <1>k DEF ClientState
    <3> QED
      BY <2>1, <2>2, <3>1 DEF Closing, Dialled, Relayed, ClientPC
  <2>6. Dialled(r)' /\ Relayed(r)' = Relayed(r) /\ Current(r)' = Current(r)
    BY <2>1, <2>2 DEF Dialled, Relayed, Current
  <2>7. \A n, m \in Nat : /\ Continues(up, r, n, m) => Continues(up', r, n, m)
                          /\ Complete(up, r, n, m) => Complete(up', r, n, m)
    BY <1>2, <1>k, OtherTaken DEF DataOf
  <2>8. Quiet(r)
    BY <1>k, <2>2, <2>3, <2>5, <2>6, <2>7 DEF Quiet
  <2>9. MessagesFit'
    <3>1. \A s \in Session : Dialled(s) => Dialled(s)'
      BY <2>2 DEF Dialled
    <3> QED
      BY <1>h, <1>t, <3>1, MessagesKeep
  <2> QED
    BY <1>t, <2>2, <2>3, <2>4, <2>8, <2>9, OneSession, QuietKeeps
<1> QED
  BY <1>1, <1>2

\* The websocket breaks, its ends notice, and it is replaced: no session of an
\* earlier Tunnel is ever on the current one.
LEMMA WebsocketOrder ==
  ASSUME IInv, OrderInv, Websocket
  PROVE  OrderInv' /\ \A s \in Session : user'[s].sent = user[s].sent /\ dest'[s].got = dest[s].got
<1>t. TypeOK /\ MessagesFit /\ epoch \in Nat /\ up \in Seq(Message) /\ down \in Seq(Message)
  BY BoundsAssumption DEF IInv, OrderInv, TypeOK
<1>0. ASSUME \A s \in Session : Quiet(s), MessagesFit'
      PROVE  OrderInv'
  BY <1>0, <1>t, QuietKeeps DEF OrderInv
<1>1. CASE Break
  <2>1. UNCHANGED <<epoch, server, client, user, dest>> /\ link' = "broken"
    BY <1>1 DEF Break
  <2>2. PICK k \in 0..Len(up) : up' = SubSeq(up, 1, k)
    BY <1>1 DEF Break
  <2>3. PICK l \in 0..Len(down) : down' = SubSeq(down, 1, l)
    BY <1>1 DEF Break
  <2>4. \A s \in Session : Quiet(s)
    <3> SUFFICES ASSUME NEW s \in Session PROVE Quiet(s)
      OBVIOUS
    <3>1. ~Current(s)' /\ Dialled(s)' = Dialled(s) /\ Relayed(s)' = Relayed(s)
      BY <2>1 DEF Current, Dialled, Relayed
    <3>2. \A n, m \in Nat : /\ Continues(up, s, n, m) => Continues(up', s, n, m)
                            /\ Continues(down, s, n, m) => Continues(down', s, n, m)
      BY <1>t, <2>2, <2>3, OrderCut
    <3> QED
      BY <1>t, <2>1, <3>1, <3>2 DEF Quiet
  <2>5. MessagesFit'
    <3>1. Carried(up') \subseteq Carried(up) /\ Carried(down') \subseteq Carried(down)
      BY <1>t, <2>2, <2>3, CutOff
    <3> QED
      BY <1>t, <2>1, <3>1, MessagesKeep DEF Dialled
  <2> QED
    BY <1>0, <2>1, <2>4, <2>5
<1>2. CASE ClientNotices \/ ServerNotices
  <2>1. UNCHANGED <<epoch, up, down, server, client, user, dest>> /\ (link' = "up" => link = "up")
    BY <1>2 DEF ClientNotices, ServerNotices
  <2>2. \A s \in Session : Quiet(s)
    BY <1>t, <2>1 DEF Quiet, Current, Dialled, Relayed, Closing
  <2>3. MessagesFit'
    BY <1>t, <2>1, MessagesKeep DEF Dialled
  <2> QED
    BY <1>0, <2>1, <2>2, <2>3
<1>3. CASE ClientPanics
  <2>1. UNCHANGED <<link, epoch, up, down, server, user>> /\ link = "nil"
    BY <1>3 DEF ClientPanics
  <2>2. \A s \in Session :
          /\ client'[s].pc = (IF client[s].pc = "none" THEN "none" ELSE "done")
          /\ dest'[s] = IF dest[s].state = "none" THEN dest[s] ELSE Closed(dest[s])
    BY <1>3 DEF ClientPanics
  <2>3. \A s \in Session :
          /\ dest'[s].got = dest[s].got /\ dest'[s].read = dest[s].read
          /\ dest[s].state = "closed" => dest'[s].state = "closed"
          /\ ~Dialled(s) => dest'[s] = dest[s]
    <3> SUFFICES ASSUME NEW s \in Session
                 PROVE  /\ dest'[s].got = dest[s].got /\ dest'[s].read = dest[s].read
                        /\ dest[s].state = "closed" => dest'[s].state = "closed"
                        /\ ~Dialled(s) => dest'[s] = dest[s]
      OBVIOUS
    <3>1. dest[s] \in Connection
      BY <1>t DEF TypeOK
    <3>2. ~Dialled(s) => dest[s].state = "none"
      BY DEF OrderInv, InOrder, NothingYet, Conn
    <3> QED
      BY <2>2, <3>1, <3>2, ClosedIs
  <2>4. \A s \in Session : Quiet(s)
    <3> SUFFICES ASSUME NEW s \in Session PROVE Quiet(s)
      OBVIOUS
    <3>1. ~Current(s)' /\ (Dialled(s) => Dialled(s)') /\ ~Relayed(s)'
      BY <2>1, <2>2 DEF Current, Dialled, Relayed
    <3>2. server[s].pc = "idle" => client'[s].pc = client[s].pc
      BY <2>2 DEF OrderInv, InOrder, NothingYet
    <3>3. ~Dialled(s)' => ~Dialled(s)
      BY <3>1
    <3> QED
      BY <1>t, <2>1, <2>3, <3>1, <3>2, <3>3 DEF Quiet
  <2>5. MessagesFit'
    <3>1. \A s \in Session : Dialled(s) => Dialled(s)'
      BY <2>2 DEF Dialled
    <3> QED
      BY <1>t, <2>1, <3>1, MessagesKeep
  <2> QED
    BY <1>0, <2>1, <2>3, <2>4, <2>5
<1>4. CASE Reconnect
  <2>1. /\ UNCHANGED <<server, client, dest>> /\ epoch' = epoch + 1 /\ up' = <<>> /\ down' = <<>>
        /\ \A s \in Session : user'[s] = user[s] \/ user'[s] = Closed(user[s])
    BY <1>4 DEF Reconnect
  <2>2. \A s \in Session :
          /\ user'[s].got = user[s].got /\ user'[s].read = user[s].read
          /\ user'[s].sent = user[s].sent
          /\ user[s].state = "closed" => user'[s].state = "closed"
    BY <1>t, <2>1, ClosedIs, ConnectionsOf DEF TypeOK
  <2>3. \A s \in Session : Quiet(s)
    <3> SUFFICES ASSUME NEW s \in Session PROVE Quiet(s)
      OBVIOUS
    <3>1. server[s].tun <= epoch /\ server[s].tun \in Nat
      BY <1>t, CountsOf DEF OrderInv, InOrder, NothingYet
    <3>2. ~Current(s)' /\ Dialled(s)' = Dialled(s) /\ Relayed(s)' = Relayed(s)
      BY <1>t, <2>1, <3>1 DEF Current, Dialled, Relayed
    <3>3. \A n, m \in Nat : Continues(<<>>, s, n, m)
      BY NoneInOrder
    <3> QED
      BY <1>t, <2>1, <2>2, <3>2, <3>3 DEF Quiet
  <2>4. MessagesFit'
    <3>1. Carried(<<>>) = {}
      BY EmptySeq DEF Carried
    <3> QED
      BY <1>t, <2>1, <3>1, MessagesKeep DEF Dialled
  <2> QED
    BY <1>0, <2>1, <2>2, <2>3, <2>4
<1> QED
  BY <1>1, <1>2, <1>3, <1>4 DEF Websocket

\* The client's reader gives each destination the next item it has not had, or
\* nothing.
LEMMA ClientReadsOrder ==
  ASSUME IInv, OrderInv, ClientReads
  PROVE  /\ OrderInv' /\ UNCHANGED user
         /\ \E r \in Session :
              /\ \A s \in Session \ {r} : dest'[s].got = dest[s].got
              /\ \/ dest'[r].got = dest[r].got
                 \/ /\ dest'[r].got = Append(dest[r].got, Len(dest[r].got) + 1)
                    /\ Len(dest[r].got) < user[r].sent
<1>t. TypeOK /\ up # <<>> /\ up' = Tail(up) /\ UNCHANGED <<link, serving, epoch, down, server, user>>
  BY DEF IInv, ClientReads
<1>m. PICK m : m = Head(up)
  OBVIOUS
<1>r. m \in Message /\ m.session \in Session
  BY <1>m, <1>t, TakenOff DEF TypeOK, Message
<1>p. PICK r \in Session : r = m.session
  BY <1>r
<1>1. CASE m.type = "data" /\ OnData(r, m.data)
  BY <1>1, <1>m, <1>p, <1>t, ClientDataStep DEF DataOf
<1>2. CASE (m.type = "create" /\ OnSessionCreate(r)) \/ (m.type = "close" /\ OnClose(r))
  BY <1>2, <1>m, <1>p, <1>t, ClientTakesStep
<1> QED
  BY <1>1, <1>2, <1>m, <1>p DEF ClientReads

\* Nothing but those two changes the streams.
LEMMA SameStreams ==
  ASSUME TypeOK, \A s \in Session : NothingYet(s), NEW r \in Session,
         \/ RequestSession(r) \/ RequestFails(r) \/ AtServer(r) \/ AtClient(r)
         \/ UserCloses(r) \/ UserStopsReading(r)
         \/ DestSends(r) \/ DestCloses(r) \/ DestStopsReading(r) \/ ServerReads
  PROVE  \A s \in Session : user'[s].sent = user[s].sent /\ dest'[s].got = dest[s].got
<1>c. \A s \in Session : user[s] \in Connection /\ dest[s] \in Connection
  BY DEF TypeOK
<1>0. ASSUME UNCHANGED <<user, dest>>
      PROVE  \A s \in Session : user'[s].sent = user[s].sent /\ dest'[s].got = dest[s].got
  BY <1>0
<1>u. ASSUME NEW q \in Session, NEW c, SetUser(q, c), c.sent = user[q].sent, UNCHANGED dest
      PROVE  \A s \in Session : user'[s].sent = user[s].sent /\ dest'[s].got = dest[s].got
  BY <1>u, Sets
<1>d. ASSUME NEW q \in Session, NEW c, SetDest(q, c), c.got = dest[q].got, UNCHANGED user
      PROVE  \A s \in Session : user'[s].sent = user[s].sent /\ dest'[s].got = dest[s].got
  BY <1>d, Sets
<1>f. \A q \in Session : Closed(user[q]).sent = user[q].sent /\ Closed(dest[q]).got = dest[q].got
  BY ConnectionType, ClosedIs DEF TypeOK
<1>1. CASE \/ RequestSession(r) \/ Listen(r) \/ StoreProxy(r) \/ DeleteProxy(r)
           \/ ReplySuccess(r) \/ DialFails(r) \/ DeleteSession(r)
  BY <1>0, <1>1 DEF RequestSession, Listen, StoreProxy, DeleteProxy, ReplySuccess, DialFails,
                    DeleteSession
<1>2. CASE RequestFails(r) \/ CreateTimesOut(r) \/ UserEOF(r)
  BY <1>2, <1>f, <1>u DEF RequestFails, CreateTimesOut, UserEOF, Fail
<1>3. CASE SendExtra(r) \/ ReadUser(r) \/ UserCloses(r) \/ UserStopsReading(r)
  <2>1. \A n : /\ [user[r] EXCEPT !.read = n].sent = user[r].sent
               /\ [user[r] EXCEPT !.state = "fin"].sent = user[r].sent
               /\ [user[r] EXCEPT !.deaf = TRUE].sent = user[r].sent
    BY <1>c DEF Connection
  <2>2. CASE SendExtra(r)
    BY <1>0, <1>u, <2>1, <2>2 DEF SendExtra
  <2>3. CASE ReadUser(r)
    BY <1>u, <2>1, <2>3 DEF ReadUser
  <2>4. CASE UserCloses(r)
    BY <1>u, <2>1, <2>4 DEF UserCloses
  <2>5. CASE UserStopsReading(r)
    BY <1>u, <2>1, <2>5 DEF UserStopsReading
  <2> QED
    BY <1>3, <2>2, <2>3, <2>4, <2>5
<1>4. CASE DialSucceeds(r)
  <2>1. dest[r] = Conn("none")
    BY <1>4 DEF DialSucceeds, NothingYet, Dialled
  <2>2. Conn("open").got = dest[r].got
    BY <2>1 DEF Conn
  <2> QED
    BY <1>4, <1>d, <2>2 DEF DialSucceeds
<1>5. CASE ReadDest(r) \/ DestEOF(r) \/ DestSends(r) \/ DestCloses(r) \/ DestStopsReading(r)
  <2>1. \A n : /\ [dest[r] EXCEPT !.read = n].got = dest[r].got
               /\ [dest[r] EXCEPT !.sent = n].got = dest[r].got
               /\ [dest[r] EXCEPT !.state = "fin"].got = dest[r].got
               /\ [dest[r] EXCEPT !.deaf = TRUE].got = dest[r].got
    BY <1>c DEF Connection
  <2>2. CASE ReadDest(r)
    BY <1>d, <2>1, <2>2 DEF ReadDest
  <2>3. CASE DestEOF(r)
    BY <1>d, <1>f, <2>3 DEF DestEOF
  <2>4. CASE DestSends(r)
    BY <1>d, <2>1, <2>4 DEF DestSends
  <2>5. CASE DestCloses(r)
    BY <1>d, <2>1, <2>5 DEF DestCloses
  <2>6. CASE DestStopsReading(r)
    BY <1>d, <2>1, <2>6 DEF DestStopsReading
  <2> QED
    BY <1>5, <2>2, <2>3, <2>4, <2>5, <2>6
<1>6. CASE ServerReads
  <2>1. PICK m : m = Head(down)
    OBVIOUS
  <2>2. m \in Message
    BY <1>6, <2>1, TakenOff DEF ServerReads, TypeOK
  <2>3. PICK q \in Session, n \in Nat : q = m.session /\ n = m.data
    BY <2>2 DEF Message
  <2>4. UNCHANGED dest
    BY <1>6 DEF ServerReads
  <2>5. UNCHANGED user \/ SetUser(q, Closed(user[q])) \/ SetUser(q, Written(user[q], n))
    BY <1>6, <2>1, <2>3 DEF ServerReads, OnReply, OnDataFromTunnel, OnSessionClose, Fail
  <2>6. Written(user[q], n).sent = user[q].sent
    BY <1>c, <2>3, ConnectionType
  <2> QED
    BY <1>0, <1>f, <1>u, <2>4, <2>5, <2>6
<1> QED
  BY <1>1, <1>2, <1>3, <1>4, <1>5, <1>6 DEF AtServer, AtClient

\* The initial state is in order, and every step keeps it so.
LEMMA OrderInit == Init => OrderInv
<1> SUFFICES ASSUME Init PROVE OrderInv
  OBVIOUS
<1>1. Carried(<<>>) = {} /\ DOMAIN <<>> = {} /\ Len(<<>>) = 0 /\ Prefix(<<>>)
  BY EmptySeq DEF Carried, Prefix
<1>2. MessagesFit
  BY <1>1 DEF Init, MessagesFit
<1>3. ASSUME NEW s \in Session PROVE InOrder(s)
  <2>1. /\ user[s].got = <<>> /\ user[s].read = 0 /\ dest[s].got = <<>> /\ dest[s].read = 0
        /\ dest[s] = Conn("none") /\ server[s].tun = 0 /\ epoch = 0
        /\ client[s].pc = "none" /\ up = <<>> /\ down = <<>>
    BY DEF Init, Conn
  <2>2. Continues(<<>>, s, 0, 0) /\ Complete(<<>>, s, 0, 0)
    BY <1>1, NoneInOrder
  <2> QED
    BY <1>1, <2>1, <2>2 DEF InOrder, NothingYet, UpInOrder, DownInOrder, Relayed
<1> QED
  BY <1>2, <1>3 DEF OrderInv

\* Every step, by the lemma of its kind.
LEMMA OrderStep == IInv /\ OrderInv /\ [Next]_vars => OrderInv'
<1> SUFFICES ASSUME IInv, OrderInv, [Next]_vars PROVE OrderInv'
  OBVIOUS
<1>t. TypeOK
  BY DEF IInv
<1>1. CASE UNCHANGED vars
  BY <1>1 DEF vars, OrderInv, MessagesFit, InOrder, NothingYet, UpInOrder, DownInOrder, Dialled,
              Relayed, Current, Closing
<1>2. CASE ServerReads \/ ClientReads \/ Websocket
  BY <1>2, ServerReadsOrder, ClientReadsOrder, WebsocketOrder
<1>3. ASSUME NEW r \in Session, AtServer(r) \/ AtClient(r) \/ Environment(r) PROVE OrderInv'
  <2>1. CASE SendExtra(r) /\ server[r].extra
    <3>1. server[r].pc \in {"created"} /\ user[r].read = 0
      <4>1. server[r].pc = "created"
        BY <2>1 DEF SendExtra
      <4> QED
        BY <4>1 DEF OrderInv, InOrder, NothingYet, Early
    <3> QED
      BY <1>t, <2>1, <3>1, SendUpStep DEF SendExtra
  <2>2. CASE ReadUser(r)
    BY <2>2, SendUpStep DEF ReadUser
  <2>3. CASE RequestSession(r)
    BY <2>3, RequestStep
  <2>4. CASE DialSucceeds(r)
    BY <2>4, DialStep
  <2>5. CASE ReadDest(r)
    BY <2>5, SendDownStep
  <2> QED
    BY <1>3, <1>t, <2>1, <2>2, <2>3, <2>4, <2>5, QuietSteps DEF AtServer, AtClient, Environment
<1> QED
  BY <1>1, <1>2, <1>3 DEF Next

\* What is on its way continues what each end has got, without a gap, unless
\* the client is closing the session.
THEOREM OrderInductive == Spec => [](IInv /\ OrderInv)
<1>1. Init => IInv /\ OrderInv
  BY IInvInit, OrderInit
<1>2. IInv /\ EpochBounded /\ OrderInv /\ [Next]_vars => OrderInv'
  BY OrderStep
<1> QED
  BY <1>1, <1>2, IInvAlways, PTL DEF Spec

(***************************************************************************)
(* What a user gets has no gap in it, though its beginning may be missing: *)
(* while the server's end of a session can still give it something, what   *)
(* is on its way continues from the last item it got, or, when it has got  *)
(* nothing, from some item that was dropped.                               *)
(***************************************************************************)
Downloads(s) == server[s].pc # "idle" /\ server[s].tun = epoch /\ user[s].state # "closed"

RunsOn(s, b) ==
  /\ b <= dest[s].read /\ Continues(down, s, b, dest[s].read)
  /\ link = "up" => Complete(down, s, b, dest[s].read)
  /\ user[s].got # <<>> => user[s].got[Len(user[s].got)] = b

RunOf(s) ==
  /\ Run(user[s].got)
  /\ server[s].pc = "eof" => user[s].state = "closed"
  /\ Downloads(s) => /\ user[s].got # <<>> => server[s].pc = "relay"
                     /\ \E b \in Nat : RunsOn(s, b)

RunInv == \A s \in Session : RunOf(s)

\* A step that neither gives the session's user an item nor reads one of its
\* destination, and after which no more is on its way to it than before.
Calm(s) ==
  /\ user'[s].got = user[s].got
  /\ server'[s].pc = "eof" => user'[s].state = "closed"
  /\ Downloads(s)' =>
       /\ Downloads(s) /\ (server[s].pc = "relay" => server'[s].pc = "relay")
       /\ dest'[s].read = dest[s].read /\ (link' = "up" => link = "up")
       /\ \A n, m \in Nat : /\ Continues(down, s, n, m) => Continues(down', s, n, m)
                            /\ link' = "up" /\ Complete(down, s, n, m) => Complete(down', s, n, m)

LEMMA CalmKeeps ==
  ASSUME TypeOK, NEW s \in Session, RunOf(s), Calm(s)
  PROVE  RunOf(s)'
<1>1. ASSUME Downloads(s)' PROVE \E b \in Nat : RunsOn(s, b)'
  <2>1. PICK b \in Nat : RunsOn(s, b)
    BY <1>1 DEF RunOf, Calm
  <2>2. dest[s].read \in Nat
    BY CountsOf
  <2>3. RunsOn(s, b)'
    BY <1>1, <2>1, <2>2 DEF RunsOn, Calm
  <2> QED
    BY <2>3
<1>2. Downloads(s)' => (user'[s].got # <<>> => server'[s].pc = "relay")
  BY DEF RunOf, Calm
<1> QED
  BY <1>1, <1>2 DEF RunOf, Calm

\* A step at the client that reads nothing of a destination.
LEMMA ClientIsCalm ==
  ASSUME TypeOK, RunInv, UNCHANGED <<link, epoch, server, user>>,
         \A s \in Session : dest'[s].read = dest[s].read,
         down' = down \/ \E x \in Message : x.type # "data" /\ down' = Append(down, x)
  PROVE  RunInv'
<1>1. ASSUME NEW s \in Session PROVE Calm(s)
  <2>1. \A n, m \in Nat : /\ Continues(down, s, n, m) => Continues(down', s, n, m)
                          /\ Complete(down, s, n, m) => Complete(down', s, n, m)
    BY OtherAppended, CountsOf DEF DataOf
  <2> QED
    BY <2>1 DEF Calm, RunInv, RunOf, Downloads
<1> QED
  BY <1>1, CalmKeeps DEF RunInv

\* A step at the server, or of a user, that gives the user nothing; perhaps on
\* a message other than data.
LEMMA ServerIsCalm ==
  ASSUME TypeOK, RunInv, NEW r \in Session, UNCHANGED <<link, epoch, dest>>,
         \/ UNCHANGED down
         \/ down # <<>> /\ Head(down).type # "data" /\ down' = Tail(down),
         \A s \in Session \ {r} : server'[s] = server[s] /\ user'[s] = user[s],
         server'[r].tun = server[r].tun, user'[r].got = user[r].got,
         user[r].state = "closed" => user'[r].state = "closed",
         \/ user'[r].state = "closed"
         \/ server'[r].pc = server[r].pc
         \/ /\ server[r].pc \notin {"idle", "relay"}
            /\ server'[r].pc \notin {"idle", "eof"}
  PROVE  RunInv'
<1>1. ASSUME NEW s \in Session PROVE Calm(s)
  <2>1. \A n, m \in Nat : /\ Continues(down, s, n, m) => Continues(down', s, n, m)
                          /\ Complete(down, s, n, m) => Complete(down', s, n, m)
    BY OtherTaken, CountsOf DEF DataOf
  <2>2. CASE s # r
    BY <2>1, <2>2 DEF Calm, RunInv, RunOf, Downloads
  <2>3. CASE s = r
    <3>1. server'[r].pc = "eof" => user'[r].state = "closed"
      BY DEF RunInv, RunOf
    <3>2. Downloads(r)' => Downloads(r) /\ (server[r].pc = "relay" => server'[r].pc = "relay")
      BY DEF Downloads
    <3> QED
      BY <2>1, <2>3, <3>1, <3>2 DEF Calm
  <2> QED
    BY <2>2, <2>3
<1> QED
  BY <1>1, CalmKeeps DEF RunInv

\* Nothing is on its way for a request.
LEMMA RequestRuns ==
  ASSUME TypeOK, OrderInv, RunInv, NEW r \in Session, RequestSession(r)
  PROVE  RunInv'
<1>t. UNCHANGED <<link, epoch, down, user, dest>> /\ server[r].pc = "idle"
      /\ server'[r].tun = epoch /\ server'[r].pc = "wrote"
      /\ \A s \in Session \ {r} : server'[s] = server[s]
  BY DEF RequestSession, TypeOK
<1>1. ASSUME NEW s \in Session \ {r} PROVE RunOf(s)'
  <2>1. Calm(s)
    BY <1>t DEF Calm, RunInv, RunOf, Downloads
  <2> QED
    BY <2>1, CalmKeeps DEF RunInv
<1>2. user[r].got = <<>> /\ dest[r].read = 0
  BY <1>t DEF OrderInv, InOrder, NothingYet, Dialled, Conn
<1>3. \A i \in DOMAIN down : ~DataOf(down[i], r)
  BY <1>t DEF OrderInv, InOrder, NothingYet, MessagesFit, Carried, DataOf, Dialled
<1>4. Continues(down, r, 0, 0) /\ Complete(down, r, 0, 0)
  BY <1>3, NoneInOrder
<1>5. RunsOn(r, 0)'
  BY <1>t, <1>2, <1>4 DEF RunsOn
<1>6. RunOf(r)'
  BY <1>t, <1>2, <1>5 DEF RunOf, RunInv
<1> QED
  BY <1>1, <1>6 DEF RunInv

\* The next item of a destination goes behind those on their way; when the
\* websocket is broken it is lost, and so will be all that follow.
LEMMA ReadRuns ==
  ASSUME TypeOK, RunInv, NEW r \in Session, ReadDest(r)
  PROVE  RunInv'
<1>t. /\ UNCHANGED <<link, epoch, server, user>>
      /\ down' = IF link = "up" THEN Append(down, Msg("data", r, dest[r].read + 1)) ELSE down
      /\ dest'[r].read = dest[r].read + 1
      /\ \A s \in Session \ {r} : dest'[s] = dest[s]
  BY DEF ReadDest, Reply, SetDest, TypeOK, Connection
<1>c. dest[r].read \in Nat /\ dest[r].read + 1 \in Nat /\ down \in Seq(Message)
  BY CountsOf
<1>m. Msg("data", r, dest[r].read + 1) \in Message
      /\ \A s \in Session \ {r} : ~DataOf(Msg("data", r, dest[r].read + 1), s)
  BY <1>c, MsgType DEF Msg, DataOf
<1>1. ASSUME NEW s \in Session \ {r} PROVE RunOf(s)'
  <2>1. \A n, m \in Nat : /\ Continues(down, s, n, m) => Continues(down', s, n, m)
                          /\ Complete(down, s, n, m) => Complete(down', s, n, m)
    BY <1>t, <1>c, <1>m, OtherAppended
  <2>2. Calm(s)
    BY <1>t, <2>1 DEF Calm, RunInv, RunOf, Downloads
  <2> QED
    BY <2>2, CalmKeeps DEF RunInv
<1>2. ASSUME NEW b \in Nat, RunsOn(r, b) PROVE RunsOn(r, b)'
  <2>1. CASE link = "up"
    BY <1>t, <1>c, <1>2, <2>1, NextAppended DEF RunsOn
  <2>2. CASE link # "up"
    <3>1. Continues(down, r, b, dest[r].read + 1)
      BY <1>c, <1>2, ContinuesFurther DEF RunsOn
    <3> QED
      BY <1>t, <1>c, <1>2, <2>2, <3>1 DEF RunsOn
  <2> QED
    BY <2>1, <2>2
<1>3. RunOf(r)'
  BY <1>t, <1>2 DEF RunOf, RunInv, Downloads
<1> QED
  BY <1>1, <1>3 DEF RunInv

\* A run stays one with the item after its last.
LEMMA RunGrows ==
  ASSUME NEW got \in Seq(Nat), Run(got), NEW d \in Nat,
         got # <<>> => got[Len(got)] + 1 = d
  PROVE  /\ Run(Append(got, d)) /\ Append(got, d) # <<>>
         /\ Append(got, d)[Len(Append(got, d))] = d
<1> DEFINE p == Append(got, d)
<1>1. Len(got) \in Nat /\ DOMAIN got = 1..Len(got) /\ (got # <<>> => Len(got) # 0)
      /\ \A i \in 1..Len(got) : got[i] \in Nat
  BY LenProperties, EmptySeq, ElementOfSeq
<1>2. /\ p \in Seq(Nat) /\ Len(p) = Len(got) + 1 /\ DOMAIN p = 1..Len(got) + 1
      /\ \A i \in 1..Len(got) : p[i] = got[i]
      /\ p[Len(got) + 1] = d
  BY <1>1, AppendProperties, LenProperties
<1>3. p # <<>>
  BY AppendProperties
<1> HIDE DEF p
<1>4. Run(p)
  <2>1. CASE got = <<>>
    <3>1. DOMAIN p = 1..1 /\ p[1] = d
      BY <1>2, <2>1
    <3> QED
      BY <3>1 DEF Run
  <2>2. CASE got # <<>>
    <3>1. Len(got) \in 1..Len(got) /\ 1 \in 1..Len(got)
      BY <1>1, <2>2
    <3>2. d = got[1] + Len(got) /\ p[1] = got[1]
      BY <1>1, <1>2, <2>2, <3>1 DEF Run
    <3>3. ASSUME NEW i \in DOMAIN p PROVE p[i] = p[1] + i - 1
      <4>1. CASE i \in 1..Len(got)
        BY <1>1, <1>2, <3>2, <4>1 DEF Run
      <4>2. CASE i = Len(got) + 1
        BY <1>1, <1>2, <3>1, <3>2, <4>2
      <4> QED
        BY <1>1, <1>2, <4>1, <4>2
    <3> QED
      BY <3>3 DEF Run
  <2> QED
    BY <2>1, <2>2
<1> QED
  BY <1>2, <1>3, <1>4 DEF p

\* The server gives its user the item, or drops it: then the user has had
\* nothing, and may still get the items after it.
LEMMA DataRuns ==
  ASSUME TypeOK, RunInv, down # <<>>, down' = Tail(down), NEW r \in Session,
         DataOf(Head(down), r), OnDataFromTunnel(r, Head(down).data),
         UNCHANGED <<link, serving, epoch, client, dest>>
  PROVE  RunInv'
<1>k. /\ user[r].got \in Seq(Nat) /\ dest[r].read \in Nat /\ down \in Seq(Message)
      /\ user[r] \in Connection /\ server' = server
  BY CountsOf DEF TypeOK, OnDataFromTunnel
<1>d. PICK d : d = Head(down).data
  OBVIOUS
<1>h. d \in Nat
  BY <1>d, <1>k, TakenOff DEF Message
<1>u. \A s \in Session \ {r} : user'[s] = user[s]
  BY Sets DEF OnDataFromTunnel
<1>1. ASSUME NEW s \in Session \ {r} PROVE RunOf(s)'
  <2>1. \A n, m \in Nat : /\ Continues(down, s, n, m) => Continues(down', s, n, m)
                          /\ Complete(down, s, n, m) => Complete(down', s, n, m)
    BY <1>k, OtherTaken DEF DataOf
  <2>2. Calm(s)
    BY <1>k, <1>u, <2>1 DEF Calm, RunInv, RunOf, Downloads
  <2> QED
    BY <2>2, CalmKeeps DEF RunInv
<1>2. ASSUME NEW b \in Nat, RunsOn(r, b)
      PROVE  /\ d = b + 1 /\ b + 1 <= dest[r].read
             /\ Continues(down', r, b + 1, dest[r].read)
             /\ link = "up" => Complete(down', r, b + 1, dest[r].read)
  BY <1>d, <1>k, <1>2, NextTaken DEF RunsOn
<1>3. CASE Known(r) /\ user[r].state # "closed"
  <2>1. user'[r].got = Append(user[r].got, d) /\ user'[r].state = user[r].state
    <3>1. user'[r] = Written(user[r], d)
      BY <1>3, <1>d, Sets DEF OnDataFromTunnel
    <3> HIDE DEF Written
    <3> QED
      BY <1>3, <1>h, <1>k, <3>1, WrittenIs
  <2>2. PICK b \in Nat : RunsOn(r, b)
    BY <1>3 DEF RunInv, RunOf, Downloads, Known
  <2>3. d = b + 1 /\ (user[r].got # <<>> => user[r].got[Len(user[r].got)] + 1 = d)
    BY <1>2, <2>2 DEF RunsOn
  <2>4. /\ Run(user'[r].got) /\ user'[r].got # <<>>
        /\ user'[r].got[Len(user'[r].got)] = d
    <3>1. Run(user[r].got)
      BY DEF RunInv, RunOf
    <3>2. /\ Run(Append(user[r].got, d)) /\ Append(user[r].got, d) # <<>>
          /\ Append(user[r].got, d)[Len(Append(user[r].got, d))] = d
      BY ONLY <1>h, <1>k, <2>3, <3>1, RunGrows
    <3> QED
      BY <2>1, <3>2
  <2>5. server[r].pc = "relay"
    BY <1>3 DEF RunInv, RunOf, Known
  <2>6. b + 1 \in Nat /\ RunsOn(r, b + 1)'
    BY <1>2, <2>2, <2>3, <2>4 DEF RunsOn
  <2>7. RunOf(r)'
    BY <1>k, <2>4, <2>5, <2>6 DEF RunOf
  <2> QED
    BY <1>1, <2>7 DEF RunInv
<1>4. CASE ~Known(r) \/ user[r].state = "closed"
  <2>1. user'[r] = user[r]
    <3>1. CASE Known(r)
      <4>1. user'[r] = Written(user[r], d)
        BY <1>d, <3>1, Sets DEF OnDataFromTunnel
      <4> QED
        BY <1>4, <3>1, <4>1 DEF Written
    <3>2. CASE ~Known(r)
      BY <3>2 DEF OnDataFromTunnel
    <3> QED
      BY <3>1, <3>2
  <2>2. ASSUME Downloads(r)' PROVE user[r].got = <<>> /\ \E b \in Nat : RunsOn(r, b)'
    <3>1. Downloads(r) /\ ~Known(r)
      BY <1>4, <1>k, <2>1, <2>2 DEF Downloads
    <3>2. user[r].got = <<>>
      BY <3>1 DEF RunInv, RunOf, Known, Downloads
    <3>3. PICK b \in Nat : RunsOn(r, b)
      BY <3>1 DEF RunInv, RunOf
    <3>4. b + 1 \in Nat /\ RunsOn(r, b + 1)'
      BY <1>2, <2>1, <3>2, <3>3 DEF RunsOn
    <3> QED
      BY <3>2, <3>4
  <2>3. RunOf(r)'
    BY <1>k, <2>1, <2>2 DEF RunInv, RunOf
  <2> QED
    BY <1>1, <2>3 DEF RunInv
<1> QED
  BY <1>3, <1>4

\* The server's reader.
LEMMA ServerReadsRuns ==
  ASSUME TypeOK, RunInv, ServerReads
  PROVE  RunInv'
<1>t. /\ down # <<>> /\ down' = Tail(down) /\ down \in Seq(Message)
      /\ UNCHANGED <<link, serving, epoch, client, dest>>
  BY DEF ServerReads, TypeOK
<1>m. PICK m : m = Head(down)
  OBVIOUS
<1>r. m \in Message
  BY <1>m, <1>t, TakenOff
<1>p. PICK r \in Session : r = m.session
  BY <1>r DEF Message
<1>1. CASE m.type = "data" /\ OnDataFromTunnel(r, m.data)
  BY <1>1, <1>m, <1>p, <1>t, DataRuns DEF DataOf
<1>2. CASE m.type # "data" /\ (OnReply(r, m.data = 1) \/ OnSessionClose(r))
  <2>c. /\ Closed(user[r]).got = user[r].got /\ Closed(user[r]).state = "closed"
    BY ClosedIs DEF TypeOK
  <2>1. \/ UNCHANGED <<server, user>>
        \/ server[r].pc = "select" /\ GoServer(r, "created") /\ UNCHANGED user
        \/ UNCHANGED server /\ SetUser(r, Closed(user[r]))
        \/ GoServer(r, "done") /\ SetUser(r, Closed(user[r]))
    BY <1>2 DEF OnReply, OnSessionClose, Fail
  <2>2. /\ \A s \in Session \ {r} : server'[s] = server[s] /\ user'[s] = user[s]
        /\ server'[r].tun = server[r].tun /\ user'[r].got = user[r].got
        /\ user[r].state = "closed" => user'[r].state = "closed"
        /\ \/ user'[r].state = "closed"
           \/ server'[r].pc = server[r].pc
           \/ server[r].pc = "select" /\ server'[r].pc = "created"
    <3> HIDE DEF Closed
    <3> QED
      BY <2>c, <2>1, Goes, Sets
  <2> QED
    BY <1>2, <1>m, <1>t, <2>2, ServerIsCalm
<1> QED
  BY <1>1, <1>2, <1>m, <1>p DEF ServerReads

\* Every step of a session's goroutine at the server and of its user.
LEMMA ServerStepRuns ==
  ASSUME TypeOK, RunInv, NEW r \in Session,
         AtServer(r) \/ RequestFails(r) \/ UserSends(r) \/ UserCloses(r) \/ UserStopsReading(r)
  PROVE  RunInv'
<1>u. PICK u : u = user[r]
  OBVIOUS
<1>c. /\ u \in Connection /\ Closed(u).state = "closed" /\ Closed(u).got = u.got
      /\ \A n : [u EXCEPT !.read = n].got = u.got /\ [u EXCEPT !.read = n].state = u.state
      /\ \A n : [u EXCEPT !.sent = n].got = u.got /\ [u EXCEPT !.sent = n].state = u.state
      /\ [u EXCEPT !.deaf = TRUE].got = u.got /\ [u EXCEPT !.deaf = TRUE].state = u.state
      /\ [u EXCEPT !.state = "fin"].got = u.got
  BY <1>u, ClosedIs DEF TypeOK, Connection
<1>0. UNCHANGED <<link, epoch, dest, down>>
  BY DEF AtServer, RequestFails, UserSends, UserCloses, UserStopsReading, Listen, CreateTimesOut,
         SendExtra, StoreProxy, ReadUser, UserEOF, DeleteProxy
<1>1. UNCHANGED server
      \/ \E pc : /\ GoServer(r, pc)
                 /\ \/ SetUser(r, Closed(u))
                    \/ server[r].pc \notin {"idle", "relay"} /\ pc \notin {"idle", "eof"}
  BY <1>u DEF AtServer, RequestFails, Fail, UserSends, UserCloses, UserStopsReading, Listen,
              CreateTimesOut, SendExtra, StoreProxy, ReadUser, UserEOF, DeleteProxy
<1>2. UNCHANGED user
      \/ \E c : /\ SetUser(r, c) /\ c.got = u.got
                /\ u.state = "closed" => c.state = "closed"
  <2>1. CASE SetUser(r, Closed(u))
    BY <1>c, <2>1
  <2>2. CASE \E n : SetUser(r, [u EXCEPT !.read = n]) \/ SetUser(r, [u EXCEPT !.sent = n])
    BY <1>c, <2>2
  <2>3. CASE SetUser(r, [u EXCEPT !.deaf = TRUE])
    BY <1>c, <2>3
  <2>4. CASE SetUser(r, [u EXCEPT !.state = "fin"]) /\ u.state = "open"
    BY <1>c, <2>4
  <2> QED
    BY <1>u, <2>1, <2>2, <2>3, <2>4
    DEF AtServer, RequestFails, Fail, UserSends, UserCloses, UserStopsReading, Listen,
        CreateTimesOut, SendExtra, StoreProxy, ReadUser, UserEOF, DeleteProxy
<1> HIDE DEF Closed, SetUser, GoServer
<1>3. SetUser(r, Closed(u)) => user'[r].state = "closed"
  BY <1>c, Sets
<1>4. /\ server'[r].tun = server[r].tun /\ \A s \in Session \ {r} : server'[s] = server[s]
      /\ \/ user'[r].state = "closed"
         \/ server'[r].pc = server[r].pc
         \/ server[r].pc \notin {"idle", "relay"} /\ server'[r].pc \notin {"idle", "eof"}
  BY <1>1, <1>3, Goes
<1>5. /\ user'[r].got = user[r].got /\ \A s \in Session \ {r} : user'[s] = user[s]
      /\ user[r].state = "closed" => user'[r].state = "closed"
  BY <1>2, <1>u, Sets
<1> QED
  BY <1>0, <1>4, <1>5, ServerIsCalm

\* The steps of the client's end, of destinations and of the websocket.
LEMMA ClientStepRuns ==
  ASSUME TypeOK, OrderInv, RunInv, NEW r \in Session,
         \/ DialSucceeds(r) \/ ReplySuccess(r) \/ DialFails(r) \/ DestEOF(r) \/ DeleteSession(r)
         \/ DestSends(r) \/ DestCloses(r) \/ DestStopsReading(r)
  PROVE  RunInv'
<1>d. PICK d : d = dest[r]
  OBVIOUS
<1>c. /\ d \in Connection /\ Closed(d).read = d.read
      /\ \A n : [d EXCEPT !.sent = n].read = d.read /\ [d EXCEPT !.state = n].read = d.read
                /\ [d EXCEPT !.deaf = n].read = d.read
  BY <1>d, ClosedIs DEF TypeOK, Connection
<1>1. UNCHANGED <<link, epoch, server, user>>
  BY DEF DialSucceeds, ReplySuccess, DialFails, DestEOF, DeleteSession, DestSends, DestCloses,
         DestStopsReading
<1>2. down' = down \/ \E x \in Message : x.type # "data" /\ down' = Append(down, x)
  <2>1. \A n \in {0, 1} : /\ Msg("reply", r, n) \in Message /\ Msg("close", r, n) \in Message
                          /\ Msg("reply", r, n).type # "data" /\ Msg("close", r, n).type # "data"
    BY MsgType DEF Msg
  <2> QED
    BY <2>1 DEF DialSucceeds, ReplySuccess, DialFails, DestEOF, DeleteSession, DestSends,
                DestCloses, DestStopsReading, Reply
<1>3. UNCHANGED dest \/ \E c : SetDest(r, c) /\ c.read = d.read
  <2>1. CASE DialSucceeds(r)
    <3>1. Conn("open").read = d.read
      BY <1>d, <2>1 DEF DialSucceeds, OrderInv, InOrder, NothingYet, Dialled, Conn
    <3> QED
      BY <2>1, <3>1 DEF DialSucceeds
  <2>2. CASE DestEOF(r)
    BY <1>c, <1>d, <2>2 DEF DestEOF
  <2>3. CASE DestSends(r)
    BY <1>c, <1>d, <2>3 DEF DestSends
  <2>4. CASE DestCloses(r)
    BY <1>c, <1>d, <2>4 DEF DestCloses
  <2>5. CASE DestStopsReading(r)
    BY <1>c, <1>d, <2>5 DEF DestStopsReading
  <2> QED
    BY <2>1, <2>2, <2>3, <2>4, <2>5 DEF ReplySuccess, DialFails, DeleteSession
<1>4. \A s \in Session : dest'[s].read = dest[s].read
  BY <1>3, <1>d, Sets
<1> QED
  BY <1>1, <1>2, <1>4, ClientIsCalm

LEMMA ClientReadsRuns ==
  ASSUME TypeOK, RunInv, ClientReads
  PROVE  RunInv'
<1>t. up # <<>> /\ up \in Seq(Message) /\ UNCHANGED <<link, epoch, down, server, user>>
  BY DEF ClientReads, TypeOK
<1>m. PICK m : m = Head(up)
  OBVIOUS
<1>r. m \in Message
  BY <1>m, <1>t, TakenOff
<1>p. PICK r \in Session, n \in Nat : r = m.session /\ n = m.data
  BY <1>r DEF Message
<1>1. \/ UNCHANGED dest \/ SetDest(r, Closed(dest[r])) \/ SetDest(r, Written(dest[r], n))
  BY <1>m, <1>p DEF ClientReads, OnSessionCreate, OnData, OnClose
<1>2. Closed(dest[r]).read = dest[r].read /\ Written(dest[r], n).read = dest[r].read
  BY ConnectionType DEF TypeOK
<1>3. \A s \in Session : dest'[s].read = dest[s].read
  BY <1>1, <1>2, Sets
<1> QED
  BY <1>t, <1>3, ClientIsCalm

LEMMA WebsocketRuns ==
  ASSUME TypeOK, OrderInv, RunInv, Websocket
  PROVE  RunInv'
<1>1. CASE Break
  <2>1. PICK k \in 0..Len(down) : down' = SubSeq(down, 1, k)
    BY <1>1 DEF Break
  <2>2. UNCHANGED <<epoch, server, user, dest>> /\ link' = "broken"
    BY <1>1 DEF Break
  <2>3. ASSUME NEW s \in Session PROVE Calm(s)
    <3>1. \A n, m \in Nat : Continues(down, s, n, m) => Continues(down', s, n, m)
      BY <2>1, OrderCut, CountsOf
    <3> QED
      BY <2>2, <3>1 DEF Calm, RunInv, RunOf, Downloads
  <2> QED
    BY <2>3, CalmKeeps DEF RunInv
<1>2. CASE ClientNotices \/ ServerNotices \/ ClientPanics
  <2>1. UNCHANGED <<epoch, down, server, user>> /\ (link' = "up" => link = "up")
    BY <1>2 DEF ClientNotices, ServerNotices, ClientPanics
  <2>2. \A s \in Session : dest'[s].read = dest[s].read
    BY <1>2, ConnectionType DEF ClientNotices, ServerNotices, ClientPanics, TypeOK
  <2>3. ASSUME NEW s \in Session PROVE Calm(s)
    BY <2>1, <2>2 DEF Calm, RunInv, RunOf, Downloads
  <2> QED
    BY <2>3, CalmKeeps DEF RunInv
<1>3. CASE Reconnect
  <2>1. ASSUME NEW s \in Session PROVE Calm(s)
    <3>1. server' = server /\ epoch' = epoch + 1
      BY <1>3 DEF Reconnect
    <3>2. server[s].tun <= epoch /\ server[s].tun \in Nat /\ epoch \in Nat
      BY CountsOf DEF OrderInv, InOrder, NothingYet
    <3>3. ~Downloads(s)'
      BY <3>1, <3>2 DEF Downloads
    <3>4. user'[s] = user[s] \/ user'[s] = Closed(user[s])
      BY <1>3 DEF Reconnect
    <3>5. Closed(user[s]).got = user[s].got /\ Closed(user[s]).state = "closed"
      BY ClosedIs DEF TypeOK
    <3> HIDE DEF Closed
    <3> QED
      BY <3>1, <3>3, <3>4, <3>5 DEF Calm, RunInv, RunOf
  <2> QED
    BY <2>1, CalmKeeps DEF RunInv
<1> QED
  BY <1>1, <1>2, <1>3 DEF Websocket

\* Nobody has got anything at first, and every step keeps the runs.
LEMMA RunInit == Init => RunInv
<1> SUFFICES ASSUME Init, NEW s \in Session PROVE RunOf(s)
  BY DEF RunInv
<1>1. user[s].got = <<>> /\ server[s].pc = "idle"
  BY DEF Init, Conn
<1> QED
  BY <1>1 DEF RunOf, Run, Downloads

LEMMA RunStep == IInv /\ OrderInv /\ RunInv /\ [Next]_vars => RunInv'
<1> SUFFICES ASSUME IInv, OrderInv, RunInv, [Next]_vars PROVE RunInv'
  OBVIOUS
<1>t. TypeOK
  BY DEF IInv
<1>1. CASE UNCHANGED vars
  BY <1>1 DEF vars, RunInv, RunOf, RunsOn, Downloads
<1>2. CASE ServerReads \/ ClientReads \/ Websocket
  BY <1>2, <1>t, ServerReadsRuns, ClientReadsRuns, WebsocketRuns
<1>3. ASSUME NEW r \in Session, AtServer(r) \/ AtClient(r) \/ Environment(r) PROVE RunInv'
  BY <1>3, <1>t, RequestRuns, ReadRuns, ServerStepRuns, ClientStepRuns
  DEF AtClient, Environment
<1> QED
  BY <1>1, <1>2, <1>3 DEF Next

\* On a working websocket, a user lacks the first items of its download only
\* on a session the client is closing.
LEMMA GapsEnd == IInv /\ OrderInv => \A s \in Session : Current(s) /\ Gap(user[s].got) => Closing(s)
<1> SUFFICES ASSUME IInv, OrderInv, NEW s \in Session, Current(s), ~Closing(s), user[s].got # <<>>
             PROVE  user[s].got[1] = 1
  BY DEF Gap
<1>1. Prefix(user[s].got)
  BY DEF OrderInv, InOrder, DownInOrder
<1>2. DOMAIN user[s].got = 1..Len(user[s].got) /\ Len(user[s].got) \in Nat \ {0}
  BY CountsOf, EmptySeq, LenProperties DEF IInv
<1> QED
  BY <1>1, <1>2 DEF Prefix

\* What a user gets of a destination has no gap, whatever breaks; and when its
\* beginning is missing, on a working websocket, the client closes its end.
THEOREM GapsEndDownloads == Spec => []GapEndsDownload
<1>1. Init => RunInv
  BY RunInit
<1>2. IInv /\ OrderInv /\ RunInv /\ [Next]_vars => RunInv'
  BY RunStep
<1>3. IInv /\ OrderInv /\ RunInv => GapEndsDownload
  BY GapsEnd DEF RunInv, RunOf, GapEndsDownload
<1> QED
  BY <1>1, <1>2, <1>3, OrderInductive, PTL DEF Spec

\* Every step of the sessions is one of the streams of users' items, or leaves
\* them as they are.
LEMMA UpstreamStep ==
  ASSUME IInv, OrderInv, [Next]_vars
  PROVE  [Upstream!Next]_<<[s \in Session |-> user[s].sent], [s \in Session |-> dest[s].got]>>
<1> DEFINE Sent == [s \in Session |-> user[s].sent]
           Got  == [s \in Session |-> dest[s].got]
<1>t. TypeOK /\ \A s \in Session : NothingYet(s)
  BY DEF IInv, OrderInv, InOrder
<1>0. ASSUME \A s \in Session : user'[s].sent = user[s].sent /\ dest'[s].got = dest[s].got
      PROVE  UNCHANGED <<Sent, Got>>
  BY <1>0
<1>1. CASE UNCHANGED vars
  BY <1>0, <1>1 DEF vars
<1>2. CASE Websocket
  BY <1>0, <1>2, WebsocketOrder
<1>3. CASE ClientReads
  <2>1. PICK r \in Session :
          /\ \A s \in Session \ {r} : dest'[s].got = dest[s].got
          /\ \/ dest'[r].got = dest[r].got
             \/ /\ dest'[r].got = Append(dest[r].got, Len(dest[r].got) + 1)
                /\ Len(dest[r].got) < user[r].sent
    BY <1>3, ClientReadsOrder
  <2>2. UNCHANGED user
    BY <1>3, ClientReadsOrder
  <2>3. CASE dest'[r].got = dest[r].got
    BY <1>0, <2>1, <2>2, <2>3
  <2>4. CASE /\ dest'[r].got = Append(dest[r].got, Len(dest[r].got) + 1)
             /\ Len(dest[r].got) < user[r].sent
    <3>1. UNCHANGED Sent
      BY <2>2
    <3>2. Got' = [Got EXCEPT ![r] = Append(Got[r], Len(Got[r]) + 1)]
      BY <2>1, <2>4
    <3>3. Len(Got[r]) < Sent[r]
      BY <2>4
    <3>4. Upstream!Deliver(r)
      BY <3>1, <3>2, <3>3 DEF Upstream!Deliver
    <3> QED
      BY <3>4 DEF Upstream!Next
  <2> QED
    BY <2>1, <2>3, <2>4
<1>4. ASSUME NEW r \in Session, UserSends(r)
      PROVE  Upstream!Next
  <2>1. user' = [user EXCEPT ![r] = [user[r] EXCEPT !.sent = user[r].sent + 1]] /\ UNCHANGED dest
    BY <1>4 DEF UserSends, SetUser
  <2>2. user \in [Session -> Connection]
    BY <1>t DEF TypeOK
  <2>3. [user[r] EXCEPT !.sent = user[r].sent + 1].sent = user[r].sent + 1
    BY <2>2 DEF Connection
  <2>4. Sent' = [Sent EXCEPT ![r] = Sent[r] + 1]
    BY <2>1, <2>2, <2>3
  <2>5. Upstream!Send(r)
    BY <2>1, <2>4 DEF Upstream!Send
  <2> QED
    BY <2>5 DEF Upstream!Next
<1>5. CASE ServerReads
  <2>1. down # <<>> /\ down \in Seq(Message)
    BY <1>5, <1>t DEF ServerReads, TypeOK
  <2>2. PICK m : m = Head(down)
    OBVIOUS
  <2>3. m.session \in Session
    BY <2>1, <2>2, TakenOff DEF Message
  <2> QED
    BY <1>0, <1>5, <1>t, <2>3, SameStreams
<1>6. ASSUME NEW r \in Session,
             \/ RequestSession(r) \/ RequestFails(r) \/ AtServer(r) \/ AtClient(r)
             \/ UserCloses(r) \/ UserStopsReading(r)
             \/ DestSends(r) \/ DestCloses(r) \/ DestStopsReading(r)
      PROVE  UNCHANGED <<Sent, Got>>
  BY <1>0, <1>6, <1>t, SameStreams
<1> QED
  BY <1>1, <1>2, <1>3, <1>4, <1>5, <1>6 DEF Next, Environment

\* What the destinations get of their users is a stream, whatever breaks: the
\* program implements StreamSpec upstream.
THEOREM UpstreamImplemented == Spec => UpstreamIsStream
<1>1. Init => Upstream!Init
  BY DEF Init, Conn, Upstream!Init
<1>2. IInv /\ OrderInv /\ [Next]_vars
        => [Upstream!Next]_<<[s \in Session |-> user[s].sent], [s \in Session |-> dest[s].got]>>
  BY UpstreamStep
<1> QED
  BY <1>1, <1>2, OrderInductive, PTL DEF Spec, UpstreamIsStream, Upstream!Spec
=============================================================================
