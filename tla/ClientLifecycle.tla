-------------------------- MODULE ClientLifecycle --------------------------
(* Starting and stopping the node's client from an app: client/golib and   *)
(* the parts of client/tunnel that it uses.                                *)
(*                                                                         *)
(* startTunnel makes a Tunnel, connects it and leaves it to a goroutine,   *)
(* tunServe, that serves and reconnects for ever.  stopTunnel destroys the *)
(* Tunnel the package variable mytunnel names: it looks at t.conn, marks   *)
(* the Tunnel, and closes t.conn, all without a lock, while the goroutine  *)
(* sets t.conn to nil when it reconnects.  The app makes one call at a     *)
(* time.                                                                   *)
(*                                                                         *)
(* Serve handles one message at a time, and writes the data of a session   *)
(* to its destination without a deadline: while a destination does not     *)
(* read, closing the websocket does not end Serve.                         *)

CONSTANTS Tunnel, None

ASSUME NoneAssumption == None \notin Tunnel

VARIABLES
  mytunnel,   \* the package variable
  call,       \* what the app is calling, and for which Tunnel
  conn,       \* t.conn: nil, an open websocket, or one that was closed or died
  destroyed,  \* t.isDestroy
  loop,       \* where the goroutine of each Tunnel is in tunServe
  panicked,   \* the process is gone
  missed      \* history: Tunnels stopTunnel forgot without destroying them

vars == <<mytunnel, call, conn, destroyed, loop, panicked, missed>>

Idle == [pc |-> "idle", tun |-> None]

Init ==
  /\ mytunnel = None /\ call = Idle /\ panicked = FALSE /\ missed = {}
  /\ conn = [t \in Tunnel |-> "nil"]
  /\ destroyed = [t \in Tunnel |-> FALSE]
  /\ loop = [t \in Tunnel |-> "new"]

Goto(t, from, to) == ~panicked /\ loop[t] = from /\ loop' = [loop EXCEPT ![t] = to]
SetConn(t, c) == conn' = [conn EXCEPT ![t] = c]
Call(pc, t) == call' = [pc |-> pc, tun |-> t]

-----------------------------------------------------------------------------
(* Calls of the app.                                                       *)

\* Mutant: startTunnel does not look at mytunnel.
Start_Unchecked(t) ==
  /\ ~panicked /\ call = Idle
  /\ loop[t] = "new"
  /\ Call("start", t)
  /\ UNCHANGED <<mytunnel, conn, destroyed, loop, panicked, missed>>

\* startTunnel, unless mytunnel is set: it makes a Tunnel and calls Connect.
Start(t) ==
  /\ ~panicked /\ call = Idle /\ mytunnel = None
  /\ loop[t] = "new"
  /\ Call("start", t)
  /\ UNCHANGED <<mytunnel, conn, destroyed, loop, panicked, missed>>

StartSucceeds(t) ==
  /\ call = [pc |-> "start", tun |-> t]
  /\ Goto(t, "new", "serve")
  /\ SetConn(t, "open") /\ mytunnel' = t /\ call' = Idle
  /\ UNCHANGED <<destroyed, panicked, missed>>

StartFails ==
  /\ call.pc = "start" /\ call' = Idle
  /\ UNCHANGED <<mytunnel, conn, destroyed, loop, panicked, missed>>

\* Mutant: Destroy marks the Tunnel before it looks at t.conn.
Stop_AlwaysMarks(t) ==
  /\ ~panicked /\ call = Idle /\ mytunnel = t
  /\ destroyed' = [destroyed EXCEPT ![t] = TRUE]
  /\ IF conn[t] # "nil"
       THEN Call("close", t) /\ UNCHANGED mytunnel
       ELSE mytunnel' = None /\ UNCHANGED call
  /\ UNCHANGED <<conn, loop, panicked, missed>>

\* stopTunnel: Destroy does nothing to a Tunnel without a websocket, and
\* forgets it all the same.
Stop(t) ==
  /\ ~panicked /\ call = Idle /\ mytunnel = t
  /\ IF conn[t] # "nil"
       THEN Call("mark", t) /\ UNCHANGED <<mytunnel, missed>>
       ELSE mytunnel' = None /\ missed' = missed \cup {t} /\ UNCHANGED call
  /\ UNCHANGED <<conn, destroyed, loop, panicked>>

DestroyMarks(t) ==
  /\ ~panicked /\ call = [pc |-> "mark", tun |-> t]
  /\ destroyed' = [destroyed EXCEPT ![t] = TRUE]
  /\ Call("close", t)
  /\ UNCHANGED <<mytunnel, conn, loop, panicked, missed>>

\* Mutant: Destroy also sets t.conn to nil.
DestroyCloses_Clears(t) ==
  /\ ~panicked /\ call = [pc |-> "close", tun |-> t]
  /\ mytunnel' = None /\ call' = Idle
  /\ IF conn[t] = "nil" THEN panicked' = TRUE /\ UNCHANGED conn
                        ELSE SetConn(t, "nil") /\ UNCHANGED panicked
  /\ UNCHANGED <<destroyed, loop, missed>>

\* t.conn is read a second time: if the goroutine has set it to nil in
\* between, the call of Close panics.
DestroyCloses(t) ==
  /\ ~panicked /\ call = [pc |-> "close", tun |-> t]
  /\ mytunnel' = None /\ call' = Idle
  /\ IF conn[t] = "nil" THEN panicked' = TRUE /\ UNCHANGED conn
                        ELSE SetConn(t, "dead") /\ UNCHANGED panicked
  /\ UNCHANGED <<destroyed, loop, missed>>

-----------------------------------------------------------------------------
(* The goroutine.                                                          *)

\* Mutant: a break that leaves only a switch, so that Serve reads on.
ServeReturns_ReadsOn(t) ==
  /\ Goto(t, "serve", "serve")
  /\ conn[t] = "dead"
  /\ UNCHANGED <<mytunnel, call, conn, destroyed, panicked, missed>>

\* Serve has read a message and handles it ...
OnTunnelMsg(t) ==
  /\ Goto(t, "serve", "write")
  /\ UNCHANGED <<mytunnel, call, conn, destroyed, panicked, missed>>

\* ... until the write to the destination has returned.
OnTunnelMsgReturns(t) ==
  /\ Goto(t, "write", "serve")
  /\ UNCHANGED <<mytunnel, call, conn, destroyed, panicked, missed>>

\* Serve's read fails; it sets t.conn to nil and returns.
ServeReturns(t) ==
  /\ Goto(t, "serve", "check")
  /\ conn[t] = "dead" /\ SetConn(t, "nil")
  /\ UNCHANGED <<mytunnel, call, destroyed, panicked, missed>>

\* IsDestroy is looked at only here, not between attempts to connect.
CheckDestroy(t) ==
  /\ Goto(t, "check", IF destroyed[t] THEN "returned" ELSE "connect")
  /\ UNCHANGED <<mytunnel, call, conn, destroyed, panicked, missed>>

\* An attempt succeeds; one that fails is followed by the next.
Connect(t) ==
  /\ Goto(t, "connect", "serve")
  /\ SetConn(t, "open")
  /\ UNCHANGED <<mytunnel, call, destroyed, panicked, missed>>

\* The websocket fails, or the keepalive closes it.
SocketDies(t) ==
  /\ ~panicked /\ conn[t] = "open" /\ SetConn(t, "dead")
  /\ UNCHANGED <<mytunnel, call, destroyed, loop, panicked, missed>>

StopSteps(t) == DestroyMarks(t) \/ DestroyCloses(t)
LoopSteps(t) == ServeReturns(t) \/ CheckDestroy(t)
Messages(t) == OnTunnelMsg(t) \/ OnTunnelMsgReturns(t)

Next == \/ StartFails
        \/ \E t \in Tunnel : \/ Start(t) \/ StartSucceeds(t) \/ Stop(t) \/ StopSteps(t)
                             \/ LoopSteps(t) \/ Messages(t) \/ Connect(t) \/ SocketDies(t)

Spec == Init /\ [][Next]_vars

\* Goroutines run and calls return.  Strong fairness: of a dead websocket only
\* the messages that had arrived are handled, and then its read fails.  Nothing
\* is assumed of the network, nor of destinations: a write to one may not return.
FairSpec == Spec /\ \A t \in Tunnel : WF_vars(StopSteps(t)) /\ SF_vars(LoopSteps(t))

-----------------------------------------------------------------------------
(* Properties                                                              *)

\* The variables have their types, and a Tunnel has a websocket exactly while
\* it is in Serve, which would otherwise read from a nil connection.
TypeOK ==
  /\ mytunnel \in Tunnel \cup {None}
  /\ call \in [pc : {"idle", "start", "mark", "close"}, tun : Tunnel \cup {None}]
  /\ conn \in [Tunnel -> {"nil", "open", "dead"}]
  /\ destroyed \in [Tunnel -> BOOLEAN]
  /\ loop \in [Tunnel -> {"new", "serve", "write", "check", "connect", "returned"}]
  /\ panicked \in BOOLEAN
  /\ missed \subseteq Tunnel
  /\ \A t \in Tunnel : conn[t] = "nil" <=> loop[t] \notin {"serve", "write"}

\* A Tunnel that stopTunnel has destroyed neither serves a live websocket nor
\* tries to get one: though the goroutine may reconnect between Destroy's look
\* at t.conn and its mark, what Destroy then closes is the new websocket.
StopLasts ==
  \A t \in Tunnel :
    destroyed[t] /\ call # [pc |-> "close", tun |-> t] /\ ~panicked
      => conn[t] # "open" /\ loop[t] # "connect"

\* The same with the types of the variables.
DestroyedInv == TypeOK /\ StopLasts

\* And its goroutine ends, unless Destroy takes the process down, or a
\* destination never takes what Serve is writing to it.
StopEnds ==
  \A t \in Tunnel : destroyed[t] ~> (loop[t] = "returned" \/ panicked \/ [](loop[t] = "write"))

\* startTunnel answers "IP service already running, no need to start again":
\* at most one Tunnel runs, of those that were not destroyed and that no
\* stopTunnel missed.  A stop misses a Tunnel that is reconnecting, which then
\* runs on beside the one started next; nothing else runs two.
Runs(t) == loop[t] \in {"serve", "write", "check", "connect"} /\ ~destroyed[t] /\ t \notin missed

OneServiceRuns == ~panicked => \A t, u \in Tunnel : Runs(t) /\ Runs(u) => t = u
=============================================================================
