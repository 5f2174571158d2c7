--------------------------- MODULE TunnelLeaseProofs ---------------------------
(***************************************************************************)
(* Proofs about TunnelLease, for any number of websockets.  What holds     *)
(* however they overlap and fail comes first: TypeOK, RegisteredIsAlive,   *)
(* NoGhostOnline.  Then the handover: if websockets arrive one after the   *)
(* other and pings are answered, it is a lease.                            *)
(***************************************************************************)
EXTENDS TunnelLease, TLAPS

(***************************************************************************)
(* Any overlap.                                                            *)
(***************************************************************************)
\* A goroutine that takes over a tunnel knows which.
OldKnown == \A c \in Conn : pc[c] \in {"close", "closeSock", "wait", "recv"} => old[c] \in Conn

\* Every step of the goroutines and the keepalive loop keeps the types.
LEMMA TypeStep == TypeOK /\ OldKnown /\ [Next]_vars => TypeOK' /\ OldKnown'
<1> DEFINE Typed == TypeOK /\ OldKnown
<1> SUFFICES ASSUME Typed, [Next]_vars PROVE Typed'
  OBVIOUS
<1> USE NoneAssumption DEF TypeOK, OldKnown, ConnOrNone, PCs, ArrivalPCs, HolderPCs, Goto
<1>1. ASSUME NEW c \in Conn, ServeWS(c) PROVE Typed'
  BY <1>1 DEF ServeWS
<1>2. ASSUME NEW c \in Conn, LoadOld(c) \/ Close(c) \/ CloseSock(c) PROVE Typed'
  <2>1. CASE LoadOld(c)
    BY <2>1 DEF LoadOld, tunnelVars
  <2>2. CASE Close(c)
    BY <2>2 DEF Close, tunnelVars
  <2>3. CASE CloseSock(c)
    BY <2>3 DEF CloseSock, tunnelVars
  <2> QED
    BY ONLY <1>2, <2>1, <2>2, <2>3
<1>3. ASSUME NEW c \in Conn, WaitLease(c) \/ ClearProxys(c) \/ StoreTunnel(c) PROVE Typed'
  <2>1. CASE WaitLease(c)
    BY <2>1 DEF WaitLease, tunnelVars
  <2>2. CASE ClearProxys(c)
    BY <2>2 DEF ClearProxys, tunnelVars
  <2>3. CASE StoreTunnel(c)
    BY <2>3 DEF StoreTunnel, tunnelVars
  <2> QED
    BY ONLY <1>3, <2>1, <2>2, <2>3
<1>4. ASSUME NEW c \in Conn, Register(c) \/ SetNodeOnline(c) \/ ServeReturns(c) PROVE Typed'
  <2>1. CASE Register(c)
    BY <2>1 DEF Register, tunnelVars
  <2>2. CASE SetNodeOnline(c)
    BY <2>2 DEF SetNodeOnline, tunnelVars
  <2>3. CASE ServeReturns(c)
    BY <2>3 DEF ServeReturns, tunnelVars
  <2> QED
    BY ONLY <1>4, <2>1, <2>2, <2>3
<1>5. ASSUME NEW c \in Conn, HandleNodeOffline(c) \/ DeleteTunnel(c) \/ LeaseComplete(c)
      PROVE  Typed'
  <2>1. CASE HandleNodeOffline(c)
    BY <2>1 DEF HandleNodeOffline, tunnelVars
  <2>2. CASE DeleteTunnel(c)
    BY <2>2 DEF DeleteTunnel, tunnelVars
  <2>3. CASE LeaseComplete(c)
    BY <2>3 DEF LeaseComplete, tunnelVars
  <2> QED
    BY ONLY <1>5, <2>1, <2>2, <2>3
<1>6. ASSUME NEW c \in Conn, NEW d \in Conn, Signal(c, d) PROVE Typed'
  BY <1>6 DEF Signal
<1>7. ASSUME NEW c \in Conn, SocketDies(c) PROVE Typed'
  BY <1>7 DEF SocketDies
<1>8. CASE KeepaliveCloses \/ KeepaliveForgets
  BY <1>8 DEF KeepaliveCloses, KeepaliveForgets
<1>9. CASE KeepalivePanics \/ NewTunnelManager
  BY <1>9, ZenonT(60) DEF KeepalivePanics, NewTunnelManager, tunnelVars
<1>10. CASE UNCHANGED vars
  BY <1>10 DEF vars, tunnelVars
<1>11. ASSUME NEW c \in Conn, Messages(c) PROVE Typed'
  BY <1>11 DEF Messages, OnMessage, WriteReturns, tunnelVars
<1> HIDE DEF Typed
<1> QED
  BY <1>1, <1>2, <1>3, <1>4, <1>5, <1>6, <1>7, <1>8, <1>9, <1>10, <1>11 DEF Next, Step

\* The state of TunnelLease is well typed.
THEOREM LeaseTypeCorrect == Spec => []TypeOK
<1>1. Init => TypeOK /\ OldKnown
  BY DEF Init, TypeOK, OldKnown, ConnOrNone, PCs
<1> QED
  BY <1>1, TypeStep, PTL DEF Spec

\* A goroutine that does not hold the node is not registered, so only StoreTunnel
\* registers and only DeleteTunnel and a panic remove.
LEMMA AliveStep == TypeOK /\ RegisteredIsAlive /\ [Next]_vars => RegisteredIsAlive'
<1> SUFFICES ASSUME TypeOK, RegisteredIsAlive, [Next]_vars PROVE RegisteredIsAlive'
  OBVIOUS
<1> USE NoneAssumption DEF TypeOK, ConnOrNone, RegisteredIsAlive, HolderPCs, Goto
<1>1. ASSUME NEW c \in Conn, ServeWS(c) PROVE RegisteredIsAlive'
  BY <1>1 DEF ServeWS
<1>2. ASSUME NEW c \in Conn, LoadOld(c) \/ Close(c) \/ CloseSock(c) PROVE RegisteredIsAlive'
  BY <1>2 DEF LoadOld, Close, CloseSock
<1>3. ASSUME NEW c \in Conn, WaitLease(c) \/ ClearProxys(c) \/ StoreTunnel(c)
      PROVE  RegisteredIsAlive'
  BY <1>3 DEF WaitLease, ClearProxys, StoreTunnel
<1>4. ASSUME NEW c \in Conn, Register(c) \/ SetNodeOnline(c) \/ ServeReturns(c)
      PROVE  RegisteredIsAlive'
  BY <1>4 DEF Register, SetNodeOnline, ServeReturns
<1>5. ASSUME NEW c \in Conn, HandleNodeOffline(c) \/ DeleteTunnel(c) \/ LeaseComplete(c)
      PROVE  RegisteredIsAlive'
  BY <1>5 DEF HandleNodeOffline, DeleteTunnel, LeaseComplete
<1>6. ASSUME NEW c \in Conn, NEW d \in Conn, Signal(c, d) PROVE RegisteredIsAlive'
  BY <1>6 DEF Signal
<1>7. ASSUME NEW c \in Conn, SocketDies(c) PROVE RegisteredIsAlive'
  BY <1>7 DEF SocketDies
<1>8. CASE KeepaliveCloses \/ KeepaliveForgets \/ KeepalivePanics \/ NewTunnelManager
  BY <1>8 DEF KeepaliveCloses, KeepaliveForgets, KeepalivePanics, NewTunnelManager
<1>9. CASE UNCHANGED vars
  BY <1>9 DEF vars
<1>10. ASSUME NEW c \in Conn, Messages(c) PROVE RegisteredIsAlive'
  BY <1>10 DEF Messages, OnMessage, WriteReturns
<1> HIDE DEF TypeOK, RegisteredIsAlive
<1> QED
  BY <1>1, <1>2, <1>3, <1>4, <1>5, <1>6, <1>7, <1>8, <1>9, <1>10 DEF Next, Step

\* However websockets overlap, time out and fail, the tunnel that users are sent
\* to has a goroutine that will still delete it.
THEOREM RegisteredTunnelsAreAlive == Spec => []RegistryInv
<1>1. Init => RegisteredIsAlive
  BY DEF Init, RegisteredIsAlive
<1>2. TypeOK /\ RegisteredIsAlive => RegistryInv
  BY DEF RegistryInv
<1> QED
  BY <1>1, <1>2, AliveStep, LeaseTypeCorrect, PTL DEF Spec

\* Who set the node online is the witness until it has set it offline.
LEMMA GhostStep == TypeOK /\ NoGhostOnline /\ [Next]_vars => NoGhostOnline'
<1> SUFFICES ASSUME TypeOK, NoGhostOnline, [Next]_vars, "redis" \notin Faults, up', online'
             PROVE  \E c \in Conn : pc'[c] \in ServingPCs \cup {"setOffline"}
  BY DEF NoGhostOnline
<1> USE DEF TypeOK, NoGhostOnline, ServingPCs, Goto
<1>1. ASSUME NEW c \in Conn, SetNodeOnline(c) PROVE pc'[c] = "serve"
  BY <1>1 DEF SetNodeOnline
<1>2. CASE ~\E c \in Conn : SetNodeOnline(c)
  <2>1. /\ up /\ online
        /\ ~\E c \in Conn : HandleNodeOffline(c)
        /\ ~NewTunnelManager /\ ~KeepalivePanics
    BY <1>2, ZenonT(60) DEF Next, Step, ServeWS, LoadOld, Close, CloseSock, WaitLease, ClearProxys,
       StoreTunnel, Register, SetNodeOnline, ServeReturns, HandleNodeOffline, DeleteTunnel,
       LeaseComplete, Signal, SocketDies, KeepaliveCloses, KeepaliveForgets, KeepalivePanics,
       NewTunnelManager, Messages, OnMessage, WriteReturns, vars
  <2>2. PICK w \in Conn : pc[w] \in ServingPCs \cup {"setOffline"}
    BY <2>1
  <2>3. pc'[w] \in ServingPCs \cup {"setOffline"}
    BY <1>2, <2>1, <2>2 DEF Messages, OnMessage, WriteReturns, Next, Step, ServeWS, LoadOld, Close, CloseSock, WaitLease,
       ClearProxys, StoreTunnel, Register, ServeReturns, DeleteTunnel, LeaseComplete, Signal,
       SocketDies, KeepaliveCloses, KeepaliveForgets, vars
  <2> QED
    BY <2>3
<1> QED
  BY <1>1, <1>2

\* As long as redis answers, a node that is online has a goroutine that will set
\* it offline.
THEOREM OnlineHasAGoroutine == Spec => []NoGhostOnline
<1>1. Init => NoGhostOnline
  BY DEF Init, NoGhostOnline
<1> QED
  BY <1>1, GhostStep, LeaseTypeCorrect, PTL DEF Spec
(***************************************************************************)
(* One after the other: the inductive invariant SerialInv.                 *)
(***************************************************************************)
\* A websocket that arrives finds every other arrival stuck, and reuses no name that is still referred to.
LEMMA ServeWSSerial ==
    ASSUME ~Overlapping, SerialInv, NEW c \in Conn,
           ServeWS(c)
    PROVE  Answered' /\ HolderIsRegistered' /\ OneArrives' /\ FreeToStore' /\ ChannelsMatch'
<1> USE NoneAssumption DEF SerialInv, TypeOK, ConnOrNone, Goto, ServeWS
<1>1. Answered'
  BY DEF Answered, tunnelVars
<1>2. HolderIsRegistered'
  BY DEF HolderIsRegistered, FreeToStore, HolderPCs, ServingPCs
<1>3. OneArrives'
  BY DEF OneArrives, FreeToStore, Answered, RegisteredIsAlive, HolderPCs, ArrivalPCs, WaitPCs, Stuck, Forgotten, tunnelVars
<1>4. FreeToStore'
  BY DEF OneArrives, FreeToStore, HolderIsRegistered, RegisteredIsAlive, Answered, HolderPCs, ArrivalPCs, WaitPCs, Stuck, Forgotten, tunnelVars
<1>5. ChannelsMatch'
  BY DEF OneArrives, FreeToStore, ChannelsMatch, Answered, ArrivalPCs, HolderPCs, WaitPCs, Stuck, Forgotten, tunnelVars
<1> QED
  BY <1>1, <1>2, <1>3, <1>4, <1>5

\* Loading nothing means that nobody holds the node; loading a tunnel means that its goroutine does.
LEMMA LoadOldSerial ==
    ASSUME ~Overlapping, SerialInv, NEW c \in Conn,
           LoadOld(c)
    PROVE  Answered' /\ HolderIsRegistered' /\ OneArrives' /\ FreeToStore' /\ ChannelsMatch'
<1> USE NoneAssumption DEF SerialInv, TypeOK, ConnOrNone, Goto, LoadOld
<1>1. Answered'
  BY DEF Answered, tunnelVars
<1>2. HolderIsRegistered'
  BY DEF HolderIsRegistered, FreeToStore, HolderPCs, ServingPCs
<1>3. OneArrives'
  BY DEF OneArrives, FreeToStore, Answered, RegisteredIsAlive, HolderPCs, ArrivalPCs, WaitPCs, Stuck, Forgotten, tunnelVars
<1>4. FreeToStore'
  BY DEF OneArrives, FreeToStore, HolderIsRegistered, RegisteredIsAlive, Answered, HolderPCs, ArrivalPCs, WaitPCs, Stuck, Forgotten, tunnelVars
<1>5. ChannelsMatch'
  BY DEF OneArrives, FreeToStore, ChannelsMatch, Answered, ArrivalPCs, HolderPCs, WaitPCs, Stuck, Forgotten, tunnelVars
<1> QED
  BY <1>1, <1>2, <1>3, <1>4, <1>5

\* The channel goes to the one tunnel this goroutine takes over.
LEMMA CloseSerial ==
    ASSUME ~Overlapping, SerialInv, NEW c \in Conn,
           Close(c)
    PROVE  Answered' /\ HolderIsRegistered' /\ OneArrives' /\ FreeToStore' /\ ChannelsMatch'
<1> USE NoneAssumption DEF SerialInv, TypeOK, ConnOrNone, Goto, Close
<1>1. Answered'
  BY DEF Answered, tunnelVars
<1>2. HolderIsRegistered'
  BY DEF HolderIsRegistered, FreeToStore, HolderPCs, ServingPCs
<1>3. OneArrives'
  BY DEF OneArrives, FreeToStore, Answered, RegisteredIsAlive, HolderPCs, ArrivalPCs, WaitPCs, Stuck, Forgotten, tunnelVars
<1>4. FreeToStore'
  BY DEF OneArrives, FreeToStore, HolderIsRegistered, RegisteredIsAlive, Answered, HolderPCs, ArrivalPCs, WaitPCs, Stuck, Forgotten, tunnelVars
<1>5. ChannelsMatch'
  BY DEF OneArrives, FreeToStore, ChannelsMatch, Answered, ArrivalPCs, HolderPCs, WaitPCs, Stuck, Forgotten, tunnelVars
<1> QED
  BY <1>1, <1>2, <1>3, <1>4, <1>5

\* Closing the old websocket changes no goroutine but this one.
LEMMA CloseSockSerial ==
    ASSUME ~Overlapping, SerialInv, NEW c \in Conn,
           CloseSock(c)
    PROVE  Answered' /\ HolderIsRegistered' /\ OneArrives' /\ FreeToStore' /\ ChannelsMatch'
<1> USE NoneAssumption DEF SerialInv, TypeOK, ConnOrNone, Goto, CloseSock
<1>1. Answered'
  BY DEF Answered, tunnelVars
<1>2. HolderIsRegistered'
  BY DEF HolderIsRegistered, FreeToStore, HolderPCs, ServingPCs
<1>3. OneArrives'
  BY DEF OneArrives, FreeToStore, Answered, RegisteredIsAlive, HolderPCs, ArrivalPCs, WaitPCs, Stuck, Forgotten, tunnelVars
<1>4. FreeToStore'
  BY DEF OneArrives, FreeToStore, HolderIsRegistered, RegisteredIsAlive, Answered, HolderPCs, ArrivalPCs, WaitPCs, Stuck, Forgotten, tunnelVars
<1>5. ChannelsMatch'
  BY DEF OneArrives, FreeToStore, ChannelsMatch, Answered, ArrivalPCs, HolderPCs, WaitPCs, Stuck, Forgotten, tunnelVars
<1> QED
  BY <1>1, <1>2, <1>3, <1>4, <1>5

\* Nobody has replaced the channel, so the goroutine waits on its own.
LEMMA WaitLeaseSerial ==
    ASSUME ~Overlapping, SerialInv, NEW c \in Conn,
           WaitLease(c)
    PROVE  Answered' /\ HolderIsRegistered' /\ OneArrives' /\ FreeToStore' /\ ChannelsMatch'
<1> USE NoneAssumption DEF SerialInv, TypeOK, ConnOrNone, Goto, WaitLease
<1>1. Answered'
  BY DEF Answered, tunnelVars
<1>2. HolderIsRegistered'
  BY DEF HolderIsRegistered, FreeToStore, HolderPCs, ServingPCs
<1>3. OneArrives'
  BY DEF OneArrives, FreeToStore, Answered, RegisteredIsAlive, HolderPCs, ArrivalPCs, WaitPCs, Stuck, Forgotten, tunnelVars
<1>4. FreeToStore'
  BY DEF OneArrives, FreeToStore, HolderIsRegistered, RegisteredIsAlive, Answered, HolderPCs, ArrivalPCs, WaitPCs, Stuck, Forgotten, tunnelVars
<1>5. ChannelsMatch'
  BY DEF OneArrives, FreeToStore, ChannelsMatch, Answered, ArrivalPCs, HolderPCs, WaitPCs, Stuck, Forgotten, tunnelVars
<1> QED
  BY <1>1, <1>2, <1>3, <1>4, <1>5

\* Clearing the sessions leaves the node free.
LEMMA ClearProxysSerial ==
    ASSUME ~Overlapping, SerialInv, NEW c \in Conn,
           ClearProxys(c)
    PROVE  Answered' /\ HolderIsRegistered' /\ OneArrives' /\ FreeToStore' /\ ChannelsMatch'
<1> USE NoneAssumption DEF SerialInv, TypeOK, ConnOrNone, Goto, ClearProxys
<1>1. Answered'
  BY DEF Answered, tunnelVars
<1>2. HolderIsRegistered'
  BY DEF HolderIsRegistered, FreeToStore, HolderPCs, ServingPCs
<1>3. OneArrives'
  BY DEF OneArrives, FreeToStore, Answered, RegisteredIsAlive, HolderPCs, ArrivalPCs, WaitPCs, Stuck, Forgotten, tunnelVars
<1>4. FreeToStore'
  BY DEF OneArrives, FreeToStore, HolderIsRegistered, RegisteredIsAlive, Answered, HolderPCs, ArrivalPCs, WaitPCs, Stuck, Forgotten, tunnelVars
<1>5. ChannelsMatch'
  BY DEF OneArrives, FreeToStore, ChannelsMatch, Answered, ArrivalPCs, HolderPCs, WaitPCs, Stuck, Forgotten, tunnelVars
<1> QED
  BY <1>1, <1>2, <1>3, <1>4, <1>5

\* The tunnel is stored when nobody holds the node.
LEMMA StoreTunnelSerial ==
    ASSUME ~Overlapping, SerialInv, NEW c \in Conn,
           StoreTunnel(c)
    PROVE  Answered' /\ HolderIsRegistered' /\ OneArrives' /\ FreeToStore' /\ ChannelsMatch'
<1> USE NoneAssumption DEF SerialInv, TypeOK, ConnOrNone, Goto, StoreTunnel
<1>1. Answered'
  BY DEF Answered, tunnelVars
<1>2. HolderIsRegistered'
  BY DEF HolderIsRegistered, FreeToStore, HolderPCs, ServingPCs
<1>3. OneArrives'
  BY DEF OneArrives, FreeToStore, Answered, RegisteredIsAlive, HolderPCs, ArrivalPCs, WaitPCs, Stuck, Forgotten, tunnelVars
<1>4. FreeToStore'
  BY DEF OneArrives, FreeToStore, HolderIsRegistered, RegisteredIsAlive, Answered, HolderPCs, ArrivalPCs, WaitPCs, Stuck, Forgotten, tunnelVars
<1>5. ChannelsMatch'
  BY DEF OneArrives, FreeToStore, ChannelsMatch, Answered, ArrivalPCs, HolderPCs, WaitPCs, Stuck, Forgotten, tunnelVars
<1> QED
  BY <1>1, <1>2, <1>3, <1>4, <1>5

\* While it holds the node a goroutine stays registered.
LEMMA HolderMovesSerial ==
    ASSUME ~Overlapping, SerialInv, NEW c \in Conn,
           Register(c) \/ SetNodeOnline(c) \/ ServeReturns(c) \/ HandleNodeOffline(c) \/ Messages(c)
    PROVE  Answered' /\ HolderIsRegistered' /\ OneArrives' /\ FreeToStore' /\ ChannelsMatch'
<1> USE NoneAssumption DEF SerialInv, TypeOK, ConnOrNone
<1>1. PICK label \in HolderPCs : pc' = [pc EXCEPT ![c] = label]
  BY DEF Register, SetNodeOnline, ServeReturns, HandleNodeOffline, Messages, OnMessage, WriteReturns, Goto, HolderPCs
<1>2. pc[c] \in HolderPCs /\ registry = c
  BY DEF Register, SetNodeOnline, ServeReturns, HandleNodeOffline, Messages, OnMessage, WriteReturns, HolderPCs, HolderIsRegistered
<1>3. UNCHANGED <<registry, old, isNil, leaseCh, chan, kept, up>>
  BY DEF Register, SetNodeOnline, ServeReturns, HandleNodeOffline, Messages, OnMessage, WriteReturns, tunnelVars
<1>4. Answered'
  BY <1>3 DEF Answered
<1>5. HolderIsRegistered'
  BY DEF HolderIsRegistered, HolderPCs, ServingPCs, Messages, OnMessage, WriteReturns, Goto,
     Register, SetNodeOnline, ServeReturns, HandleNodeOffline
<1>6. OneArrives'
  BY <1>1, <1>2, <1>3 DEF OneArrives, FreeToStore, HolderPCs, ArrivalPCs, WaitPCs, Stuck
<1>7. FreeToStore'
  BY <1>1, <1>2, <1>3 DEF FreeToStore, HolderPCs, WaitPCs, Stuck
<1>8. ChannelsMatch'
  BY <1>1, <1>2, <1>3 DEF ChannelsMatch, FreeToStore, HolderPCs, WaitPCs
<1> QED
  BY <1>4, <1>5, <1>6, <1>7, <1>8

\* Only its own registration is deleted.
LEMMA DeleteTunnelSerial ==
    ASSUME ~Overlapping, SerialInv, NEW c \in Conn,
           DeleteTunnel(c)
    PROVE  Answered' /\ HolderIsRegistered' /\ OneArrives' /\ FreeToStore' /\ ChannelsMatch'
<1> USE NoneAssumption DEF SerialInv, TypeOK, ConnOrNone, Goto, DeleteTunnel
<1>1. Answered'
  BY DEF Answered, tunnelVars
<1>2. HolderIsRegistered'
  BY DEF HolderIsRegistered, FreeToStore, HolderPCs, ServingPCs
<1>3. OneArrives'
  BY DEF OneArrives, FreeToStore, Answered, RegisteredIsAlive, HolderPCs, ArrivalPCs, WaitPCs, Stuck, Forgotten, tunnelVars
<1>4. FreeToStore'
  BY DEF OneArrives, FreeToStore, HolderIsRegistered, RegisteredIsAlive, Answered, HolderPCs, ArrivalPCs, WaitPCs, Stuck, Forgotten, tunnelVars
<1>5. ChannelsMatch'
  BY DEF OneArrives, FreeToStore, ChannelsMatch, Answered, ArrivalPCs, HolderPCs, WaitPCs, Stuck, Forgotten, tunnelVars
<1> QED
  BY <1>1, <1>2, <1>3, <1>4, <1>5

\* Whoever made a channel in time is still there to receive.
LEMMA LeaseCompleteSerial ==
    ASSUME ~Overlapping, SerialInv, NEW c \in Conn,
           LeaseComplete(c)
    PROVE  Answered' /\ HolderIsRegistered' /\ OneArrives' /\ FreeToStore' /\ ChannelsMatch'
<1> USE NoneAssumption DEF SerialInv, TypeOK, ConnOrNone, Goto, LeaseComplete
<1>1. Answered'
  BY DEF Answered, tunnelVars
<1>2. HolderIsRegistered'
  BY DEF HolderIsRegistered, FreeToStore, HolderPCs, ServingPCs
<1>3. OneArrives'
  BY DEF OneArrives, FreeToStore, Answered, RegisteredIsAlive, HolderPCs, ArrivalPCs, WaitPCs, Stuck, Forgotten, tunnelVars
<1>4. FreeToStore'
  BY DEF OneArrives, FreeToStore, HolderIsRegistered, RegisteredIsAlive, Answered, HolderPCs, ArrivalPCs, WaitPCs, Stuck, Forgotten, tunnelVars
<1>5. ChannelsMatch'
  BY DEF OneArrives, FreeToStore, ChannelsMatch, Answered, ArrivalPCs, HolderPCs, WaitPCs, Stuck, Forgotten, tunnelVars
<1> QED
  BY <1>1, <1>2, <1>3, <1>4, <1>5

\* The signal reaches who takes over this tunnel, and the node is free by then.
LEMMA SignalSerial ==
    ASSUME ~Overlapping, SerialInv, NEW c \in Conn, NEW d \in Conn, Signal(c, d)
    PROVE  Answered' /\ HolderIsRegistered' /\ OneArrives' /\ FreeToStore' /\ ChannelsMatch'
<1> USE NoneAssumption DEF SerialInv, TypeOK, ConnOrNone, Signal
<1>1. leaseCh[c] = d /\ old[d] = c /\ c # d
  BY DEF ChannelsMatch, FreeToStore, WaitPCs
<1>2. registry = None
  BY <1>1 DEF FreeToStore, WaitPCs, Stuck, RegisteredIsAlive, HolderPCs
<1>3. \A e \in Conn \ {d} : pc[e] \in ArrivalPCs => Stuck(e)
  BY <1>1 DEF OneArrives, ArrivalPCs, Stuck
<1>4. Answered'
  BY DEF Answered
<1>5. HolderIsRegistered'
  BY DEF HolderIsRegistered, HolderPCs, ServingPCs
<1>6. OneArrives'
  BY <1>1, <1>3 DEF OneArrives, FreeToStore, ArrivalPCs, WaitPCs, Stuck
<1>7. FreeToStore'
  BY <1>1, <1>2, <1>3 DEF FreeToStore, HolderPCs, ArrivalPCs, WaitPCs, Stuck
<1>8. ChannelsMatch'
  BY <1>1, <1>3 DEF ChannelsMatch, FreeToStore, ArrivalPCs, WaitPCs, Stuck
<1> QED
  BY <1>4, <1>5, <1>6, <1>7, <1>8

\* A dying socket and stuttering change nothing the invariant speaks of; the
\* keepalive loop closes nothing, so it does not panic either.
LEMMA OtherSerial ==
    ASSUME "timeout" \notin Faults, SerialInv,
           \/ \E c \in Conn : SocketDies(c)
           \/ KeepaliveCloses \/ KeepaliveForgets \/ KeepalivePanics \/ NewTunnelManager
           \/ UNCHANGED vars
    PROVE  Answered' /\ HolderIsRegistered' /\ OneArrives' /\ FreeToStore' /\ ChannelsMatch'
<1>1. UNCHANGED <<registry, pc, old, isNil, leaseCh, chan, kept, online, up>>
  BY NoneAssumption DEF SerialInv, Answered, TypeOK, ConnOrNone, SocketDies, KeepaliveCloses,
     KeepaliveForgets, KeepalivePanics, NewTunnelManager, vars, tunnelVars
<1>2. Answered' /\ HolderIsRegistered'
  BY <1>1 DEF SerialInv, Answered, HolderIsRegistered
<1>3. OneArrives'
  BY <1>1 DEF SerialInv, OneArrives, Stuck
<1>4. FreeToStore'
  BY <1>1 DEF SerialInv, FreeToStore, Stuck
<1>5. ChannelsMatch'
  BY <1>1 DEF SerialInv, ChannelsMatch
<1> QED
  BY <1>2, <1>3, <1>4, <1>5

LEMMA SerialStep ==
    ASSUME ~Overlapping, "timeout" \notin Faults, SerialInv, [Next]_vars
    PROVE  SerialInv'
<1>1. TypeOK' /\ RegisteredIsAlive'
  BY TypeStep, AliveStep DEF SerialInv, FreeToStore, WaitPCs, OldKnown
<1>2. Answered' /\ HolderIsRegistered' /\ OneArrives' /\ FreeToStore' /\ ChannelsMatch'
  BY ServeWSSerial, LoadOldSerial, CloseSerial, CloseSockSerial, WaitLeaseSerial,
     ClearProxysSerial, StoreTunnelSerial, HolderMovesSerial, DeleteTunnelSerial,
     LeaseCompleteSerial, SignalSerial, OtherSerial DEF Next, Step
<1> QED
  BY <1>1, <1>2 DEF SerialInv

LEMMA SerialStart == Init => SerialInv
BY NoneAssumption DEF Init, SerialInv, TypeOK, ConnOrNone, PCs, RegisteredIsAlive, Answered,
   HolderIsRegistered, OneArrives, FreeToStore, ChannelsMatch, HolderPCs, ServingPCs, ArrivalPCs, WaitPCs

\* If websockets arrive one after the other and pings are answered, whoever serves
\* the node is the tunnel users are sent to, and the node is online.
THEOREM ServersAreReachable ==
    ASSUME ~Overlapping, "timeout" \notin Faults
    PROVE  Spec => []ServedIsReachable
<1>1. SerialInv => ServedIsReachable
  BY DEF SerialInv, HolderIsRegistered, ServedIsReachable, HolderPCs, ServingPCs
<1>2. SerialInv /\ [Next]_vars => SerialInv'
  BY SerialStep
<1> QED
  BY <1>1, <1>2, SerialStart, PTL DEF Spec

\* Under the same conditions the handover implements a lease: a tunnel is stored
\* only after the one before it has been deleted.
THEOREM HandoverIsALease ==
    ASSUME ~Overlapping, "timeout" \notin Faults
    PROVE  Spec => ImplementsLease
<1> DEFINE H == {c \in Conn : pc[c] \in HolderPCs}
<1>1. Init => Lease!Init
  BY DEF Init, Lease!Init, HolderPCs
<1>2. ASSUME SerialInv, SerialInv', [Next]_vars PROVE [Lease!Next]_H
  <2>1. ASSUME NEW c \in Conn, StoreTunnel(c) PROVE Lease!Acquire(c)
    BY <2>1, <1>2, NoneAssumption DEF StoreTunnel, Lease!Acquire, SerialInv, TypeOK, Goto,
       FreeToStore, HolderIsRegistered, HolderPCs
  <2>2. ASSUME NEW c \in Conn, DeleteTunnel(c) PROVE Lease!Release(c)
    BY <2>2, <1>2 DEF DeleteTunnel, Lease!Release, SerialInv, TypeOK, Goto,
       HolderIsRegistered, HolderPCs
  <2>3. CASE ~\E c \in Conn : StoreTunnel(c) \/ DeleteTunnel(c)
    <3>1. \A c \in Conn : pc'[c] \in HolderPCs <=> pc[c] \in HolderPCs
      BY <1>2, <2>3 DEF Next, Step, ServeWS, LoadOld, Close, CloseSock, WaitLease, ClearProxys,
         Register, SetNodeOnline, ServeReturns, HandleNodeOffline, LeaseComplete, Signal,
         SocketDies, KeepaliveCloses, KeepaliveForgets, KeepalivePanics, NewTunnelManager,
         Messages, OnMessage, WriteReturns, SerialInv, Answered, TypeOK, Goto, HolderPCs, vars
    <3> QED
      BY <3>1
  <2> QED
    BY <2>1, <2>2, <2>3 DEF Lease!Next
<1>3. SerialInv /\ [Next]_vars => SerialInv'
  BY SerialStep
<1> QED
  BY <1>1, <1>2, <1>3, SerialStart, PTL DEF Spec, ImplementsLease, Lease!Spec
=============================================================================
