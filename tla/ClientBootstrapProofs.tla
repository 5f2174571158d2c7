----------------------- MODULE ClientBootstrapProofs -----------------------
(* Proofs about ClientLifecycle and ClientBootstrap, for any number of     *)
(* Tunnels, servers and kills: a stop lasts and one service runs, in every *)
(* life of the process, and the file stays usable across them.             *)
EXTENDS ClientBootstrap, TLAPS

(***************************************************************************)
(* One life of the process.                                                *)
(***************************************************************************)

\* What makes StopLasts inductive: the app's calls are about the Tunnel that
\* mytunnel names or a new one, and a destroyed Tunnel is neither once Destroy
\* has returned.
CallsAreAbout ==
  \A t \in Tunnel :
    /\ call.tun = t /\ call.pc = "start" => loop[t] = "new"
    /\ call.tun = t /\ call.pc \in {"mark", "close"} => mytunnel = t
    /\ mytunnel = t => loop[t] # "new"
    /\ destroyed[t] => loop[t] # "new"
    /\ destroyed[t] /\ mytunnel = t => call = [pc |-> "close", tun |-> t]

\* What makes OneServiceRuns inductive: a Tunnel that runs is the one mytunnel
\* names, which stays None while another is being started.
RunningIsNamed ==
  \A t \in Tunnel :
    /\ Runs(t) => mytunnel = t
    /\ call.tun = t /\ call.pc = "start" => mytunnel = None
    /\ call.tun = t /\ call.pc = "close" => destroyed[t]

StopInv == TypeOK /\ CallsAreAbout /\ StopLasts /\ RunningIsNamed

USE NoneAssumption

LEMMA InitStop == Init => StopInv
<1> SUFFICES ASSUME Init PROVE StopInv
  OBVIOUS
<1>1. TypeOK
  BY DEF Init, TypeOK, Idle
<1>2. CallsAreAbout
  BY DEF Init, CallsAreAbout, Idle
<1>3. StopLasts
  BY DEF Init, StopLasts
<1>4. RunningIsNamed
  BY DEF Init, RunningIsNamed, Runs, Idle
<1> QED
  BY <1>1, <1>2, <1>3, <1>4 DEF StopInv

\* Every step of the app, the goroutine and the network keeps the types.
LEMMA NextTypeOK == StopInv /\ [Next]_vars => TypeOK'
<1> SUFFICES ASSUME StopInv, [Next]_vars PROVE TypeOK'
  OBVIOUS
<1> USE DEF StopInv, TypeOK
<1>1. CASE StartFails
  BY <1>1 DEF StartFails, Idle
<1>2. ASSUME NEW t \in Tunnel, Start(t) PROVE TypeOK'
  BY <1>2 DEF Start, Call
<1>3. ASSUME NEW t \in Tunnel, StartSucceeds(t) PROVE TypeOK'
  BY <1>3 DEF StartSucceeds, Goto, SetConn, Idle
<1>4. ASSUME NEW t \in Tunnel, Stop(t) PROVE TypeOK'
  BY <1>4 DEF Stop, Call
<1>5. ASSUME NEW t \in Tunnel, DestroyMarks(t) PROVE TypeOK'
  BY <1>5 DEF DestroyMarks, Call
<1>6. ASSUME NEW t \in Tunnel, DestroyCloses(t) PROVE TypeOK'
  BY <1>6 DEF DestroyCloses, SetConn, Idle
<1>7. ASSUME NEW t \in Tunnel, ServeReturns(t) PROVE TypeOK'
  BY <1>7 DEF ServeReturns, Goto, SetConn
<1>8. ASSUME NEW t \in Tunnel, CheckDestroy(t) PROVE TypeOK'
  BY <1>8 DEF CheckDestroy, Goto
<1>9. ASSUME NEW t \in Tunnel, Connect(t) PROVE TypeOK'
  BY <1>9 DEF Connect, Goto, SetConn
<1>10. ASSUME NEW t \in Tunnel, SocketDies(t) PROVE TypeOK'
  BY <1>10 DEF SocketDies, SetConn
<1>11. ASSUME NEW t \in Tunnel, Messages(t) PROVE TypeOK'
  BY <1>11 DEF Messages, OnTunnelMsg, OnTunnelMsgReturns, Goto
<1>12. CASE UNCHANGED vars
  BY <1>12 DEF vars
<1> QED
  BY <1>1, <1>2, <1>3, <1>4, <1>5, <1>6, <1>7, <1>8, <1>9, <1>10, <1>11, <1>12
  DEF Next, StopSteps, LoopSteps

\* A destroyed Tunnel is left only by Destroy's close, which finds the
\* goroutine in Serve or takes the process down, and by the goroutine.
LEMMA NextStop == StopInv /\ [Next]_vars => (CallsAreAbout /\ StopLasts)'
<1> SUFFICES ASSUME StopInv, [Next]_vars PROVE (CallsAreAbout /\ StopLasts)'
  OBVIOUS
<1> USE DEF StopInv, TypeOK, CallsAreAbout, StopLasts
<1>1. CASE StartFails
  BY <1>1 DEF StartFails, Idle
<1>2. ASSUME NEW t \in Tunnel, Start(t) PROVE (CallsAreAbout /\ StopLasts)'
  BY <1>2 DEF Start, Call, Idle
<1>3. ASSUME NEW t \in Tunnel, StartSucceeds(t) PROVE (CallsAreAbout /\ StopLasts)'
  BY <1>3 DEF StartSucceeds, Goto, SetConn, Idle
<1>4. ASSUME NEW t \in Tunnel, Stop(t) PROVE (CallsAreAbout /\ StopLasts)'
  <2>1. ~destroyed[t]
    BY <1>4 DEF Stop, Idle
  <2>2. CASE conn[t] # "nil"
    <3>1. call' = [pc |-> "mark", tun |-> t]
      BY <1>4, <2>2 DEF Stop, Call
    <3> QED
      BY <1>4, <2>1, <2>2, <3>1 DEF Stop, Idle
  <2>3. CASE conn[t] = "nil"
    <3>1. /\ mytunnel' = None /\ call' = call /\ call = Idle
          /\ UNCHANGED <<conn, destroyed, loop, panicked>>
      BY <1>4, <2>3 DEF Stop
    <3>2. CallsAreAbout'
      BY <2>1, <3>1 DEF Idle
    <3>3. StopLasts'
      BY <3>1 DEF Idle
    <3> QED
      BY <3>2, <3>3
  <2> QED
    BY <2>2, <2>3
<1>5. ASSUME NEW t \in Tunnel, DestroyMarks(t) PROVE (CallsAreAbout /\ StopLasts)'
  BY <1>5 DEF DestroyMarks, Call
<1>6. ASSUME NEW t \in Tunnel, DestroyCloses(t) PROVE (CallsAreAbout /\ StopLasts)'
  BY <1>6 DEF DestroyCloses, SetConn, Idle
<1>7. ASSUME NEW t \in Tunnel, ServeReturns(t) PROVE (CallsAreAbout /\ StopLasts)'
  BY <1>7 DEF ServeReturns, Goto, SetConn
<1>8. ASSUME NEW t \in Tunnel, CheckDestroy(t) PROVE (CallsAreAbout /\ StopLasts)'
  BY <1>8 DEF CheckDestroy, Goto
<1>9. ASSUME NEW t \in Tunnel, Connect(t) PROVE (CallsAreAbout /\ StopLasts)'
  BY <1>9 DEF Connect, Goto, SetConn
<1>10. ASSUME NEW t \in Tunnel, SocketDies(t) PROVE (CallsAreAbout /\ StopLasts)'
  BY <1>10 DEF SocketDies, SetConn
<1>11. ASSUME NEW t \in Tunnel, Messages(t) PROVE (CallsAreAbout /\ StopLasts)'
  BY <1>11 DEF Messages, OnTunnelMsg, OnTunnelMsgReturns, Goto
<1>12. CASE UNCHANGED vars
  BY <1>12 DEF vars
<1> QED
  BY <1>1, <1>2, <1>3, <1>4, <1>5, <1>6, <1>7, <1>8, <1>9, <1>10, <1>11, <1>12
  DEF Next, StopSteps, LoopSteps

\* A Tunnel starts to run when mytunnel comes to name it, and stopTunnel lets
\* go of one only when it is destroyed or missed.
LEMMA NextRunning == StopInv /\ [Next]_vars => RunningIsNamed'
<1> SUFFICES ASSUME StopInv, [Next]_vars PROVE RunningIsNamed'
  OBVIOUS
<1> USE DEF StopInv, TypeOK, CallsAreAbout, RunningIsNamed, Runs
<1>1. CASE StartFails
  BY <1>1 DEF StartFails, Idle
<1>2. ASSUME NEW t \in Tunnel, Start(t) PROVE RunningIsNamed'
  BY <1>2 DEF Start, Call, Idle
<1>3. ASSUME NEW t \in Tunnel, StartSucceeds(t) PROVE RunningIsNamed'
  BY <1>3 DEF StartSucceeds, Goto, SetConn, Idle
<1>4. ASSUME NEW t \in Tunnel, Stop(t) PROVE RunningIsNamed'
  <2>1. CASE conn[t] # "nil"
    <3>1. call' = [pc |-> "mark", tun |-> t]
      BY <1>4, <2>1 DEF Stop, Call
    <3> QED
      BY <1>4, <2>1, <3>1 DEF Stop, Idle
  <2>2. CASE conn[t] = "nil"
    BY <1>4, <2>2 DEF Stop, Idle
  <2> QED
    BY <2>1, <2>2
<1>5. ASSUME NEW t \in Tunnel, DestroyMarks(t) PROVE RunningIsNamed'
  BY <1>5 DEF DestroyMarks, Call
<1>6. ASSUME NEW t \in Tunnel, DestroyCloses(t) PROVE RunningIsNamed'
  BY <1>6 DEF DestroyCloses, SetConn, Idle
<1>7. ASSUME NEW t \in Tunnel, ServeReturns(t) PROVE RunningIsNamed'
  BY <1>7 DEF ServeReturns, Goto, SetConn
<1>8. ASSUME NEW t \in Tunnel, CheckDestroy(t) PROVE RunningIsNamed'
  BY <1>8 DEF CheckDestroy, Goto
<1>9. ASSUME NEW t \in Tunnel, Connect(t) PROVE RunningIsNamed'
  BY <1>9 DEF Connect, Goto, SetConn
<1>10. ASSUME NEW t \in Tunnel, SocketDies(t) PROVE RunningIsNamed'
  BY <1>10 DEF SocketDies, SetConn
<1>11. ASSUME NEW t \in Tunnel, Messages(t) PROVE RunningIsNamed'
  BY <1>11 DEF Messages, OnTunnelMsg, OnTunnelMsgReturns, Goto
<1>12. CASE UNCHANGED vars
  BY <1>12 DEF vars
<1> QED
  BY <1>1, <1>2, <1>3, <1>4, <1>5, <1>6, <1>7, <1>8, <1>9, <1>10, <1>11, <1>12
  DEF Next, StopSteps, LoopSteps

LEMMA StopInvariant == Spec => []StopInv
<1>1. StopInv /\ [Next]_vars => StopInv'
  BY NextTypeOK, NextStop, NextRunning DEF StopInv
<1> QED
  BY InitStop, <1>1, PTL DEF Spec

\* The variables of golib and of the Tunnels keep their types, and a Tunnel
\* has a websocket exactly while its goroutine is in Serve.
THEOREM LifecycleTypeCorrect == Spec => []TypeOK
<1>1. StopInv => TypeOK
  BY DEF StopInv
<1> QED
  BY StopInvariant, <1>1, PTL

\* A Tunnel that stopTunnel has destroyed never again has a live websocket and
\* does not try to get one.
THEOREM StopsLast == Spec => []StopLasts
<1>1. StopInv => StopLasts
  BY DEF StopInv
<1> QED
  BY StopInvariant, <1>1, PTL

\* The two, as the run checks them.
THEOREM DestroyedInvariant == Spec => []DestroyedInv
<1>1. TypeOK /\ StopLasts => DestroyedInv
  BY DEF DestroyedInv
<1> QED
  BY <1>1, LifecycleTypeCorrect, StopsLast, PTL

\* At most one Tunnel runs that was neither destroyed nor missed by a stop.
THEOREM OneService == Spec => []OneServiceRuns
<1>1. StopInv => OneServiceRuns
  BY DEF StopInv, RunningIsNamed, OneServiceRuns
<1> QED
  BY StopInvariant, <1>1, PTL

(***************************************************************************)
(* All lives of the process.                                               *)
(***************************************************************************)

LEMMA KillStop == StopInv /\ Kill => StopInv'
<1> SUFFICES ASSUME StopInv, Kill PROVE StopInv'
  OBVIOUS
<1> USE DEF StopInv, Kill
<1>1. TypeOK'
  BY DEF TypeOK
<1>2. CallsAreAbout'
  BY DEF CallsAreAbout
<1>3. StopLasts'
  BY DEF StopLasts
<1>4. RunningIsNamed'
  BY DEF RunningIsNamed, Runs
<1> QED
  BY <1>1, <1>2, <1>3, <1>4

LEMMA RestartStop == Restart => StopInv'
<1> SUFFICES ASSUME Restart PROVE StopInv'
  OBVIOUS
<1> USE NoneAssumption DEF Restart, Idle
<1>1. TypeOK'
  BY DEF TypeOK
<1>2. CallsAreAbout'
  BY DEF CallsAreAbout
<1>3. StopLasts'
  BY DEF StopLasts
<1>4. RunningIsNamed'
  BY DEF RunningIsNamed, Runs
<1> QED
  BY <1>1, <1>2, <1>3, <1>4 DEF StopInv

\* Every other step is one of the life cycle, or leaves it alone.
LEMMA OtherSteps == CNext => [Next]_vars \/ Kill \/ Restart
<1>1. MgrStep => [Next]_vars
  BY DEF MgrStep, ReadFile, CreateFile, WriteEmbedded, NewBootstrapMgrFails, AskFails, Answered,
         WriteBody, WriteFails, AskedAll, Made, TimedUpdate, Next
<1>2. StartWithList => Next
  BY DEF StartWithList, Next
<1>3. ConnectWithList => Next
  BY DEF ConnectWithList, Next
<1>4. LifecycleStep => Next
  BY DEF LifecycleStep, Next
<1> QED
  BY <1>1, <1>2, <1>3, <1>4 DEF CNext

LEMMA StopInAllLives == CSpec => []StopInv
<1>1. CInit => StopInv
  BY InitStop DEF CInit
<1>2. StopInv /\ [CNext]_cvars => StopInv'
  <2>1. StopInv /\ [Next]_vars => StopInv'
    BY NextTypeOK, NextStop, NextRunning DEF StopInv
  <2>2. UNCHANGED cvars => UNCHANGED vars
    BY DEF cvars
  <2> QED
    BY <2>1, <2>2, KillStop, RestartStop, OtherSteps
<1> QED
  BY <1>1, <1>2, PTL DEF CSpec

\* In every life of the process a destroyed Tunnel neither serves a live
\* websocket nor tries to get one.
THEOREM DestroyedInAllLives == CSpec => []DestroyedInv
<1>1. StopInv => DestroyedInv
  BY DEF StopInv, DestroyedInv
<1> QED
  BY <1>1, StopInAllLives, PTL

\* And at most one Tunnel runs that was neither destroyed nor missed.
THEOREM OneServiceInAllLives == CSpec => []OneServiceRuns
<1>1. StopInv => OneServiceRuns
  BY DEF StopInv, RunningIsNamed, OneServiceRuns
<1> QED
  BY <1>1, StopInAllLives, PTL

(***************************************************************************)
(* The file.  While a write is under way it is torn, and what is being     *)
(* written is, if nothing has been poisoned, a list that is not empty; in  *)
(* memory there is such a list as soon as one was read or written.         *)
(***************************************************************************)

WritesAreLists ==
  /\ mgr.pc \in {"embed", "write"} => file = Torn
  /\ ~poisoned /\ mgr.pc = "write" => mgr.body \in Lists \ {ListOf({})}
  /\ ~poisoned /\ mgr.pc \in {"ask", "write", "idle"} => list # {}

FileInv == StartsAgain /\ WritesAreLists

LEMMA ListContents ==
  /\ \A b \in Lists : b.servers \subseteq Server /\ b = ListOf(b.servers)
  /\ \A s \in SUBSET Server : ListOf(s) \in Lists
  /\ \A s, r : ListOf(s) = ListOf(r) => s = r
  /\ Torn \notin Lists /\ NoFile \notin Lists /\ Garbage \notin Lists
  /\ Torn # NoFile /\ Garbage # NoFile /\ Torn # Garbage
<1>1. /\ \A b \in Lists : b.servers \subseteq Server /\ b = ListOf(b.servers)
      /\ \A s \in SUBSET Server : ListOf(s) \in Lists
  BY DEF Lists, ListOf, Content
<1>2. \A s, r : ListOf(s) = ListOf(r) => s = r
  <2>1. \A s : ListOf(s).servers = s
    BY DEF ListOf, Content
  <2> QED
    BY <2>1
<1>3. /\ \A b \in Lists : b.kind = "list"
      /\ Torn.kind = "torn" /\ NoFile.kind = "none" /\ Garbage.kind = "garbage"
  BY DEF Lists, ListOf, Content, Torn, NoFile, Garbage
<1> QED
  BY <1>1, <1>2, <1>3

LEMMA FileStart == CInit => FileInv
<1> SUFFICES ASSUME CInit PROVE FileInv
  OBVIOUS
<1>1. /\ file = NoFile /\ list = {} /\ made = FALSE /\ kills = 0 /\ poisoned = FALSE
      /\ mgr = [pc |-> "none", todo |-> {}, body |-> NoFile]
  BY DEF CInit, NoMgr, Asking
<1>2. BootstrapTypeOK
  <2>1. kills \in 0..MaxKills
    BY <1>1, BootstrapAssumption
  <2>2. mgr \in [pc : {"none", "embed", "ask", "write", "idle"}, todo : SUBSET Server,
                body : Lists \cup {Garbage, NoFile}]
    BY <1>1
  <2> QED
    BY <1>1, <2>1, <2>2 DEF BootstrapTypeOK
<1> QED
  BY <1>1, <1>2, ListContents
     DEF FileInv, StartsAgain, FileIsUsable, FileIsInUse, WritesAreLists

LEMMA FileStep == FileInv /\ [CNext]_cvars => FileInv'
<1> SUFFICES ASSUME FileInv, [CNext]_cvars PROVE FileInv'
  OBVIOUS
<1> USE ListContents, BootstrapAssumption
    DEF FileInv, StartsAgain, BootstrapTypeOK, FileIsUsable, FileIsInUse, WritesAreLists, Asking
<1>1. CASE ReadFile
  <2>1. file \in Lists /\ mgr.pc = "none" /\ list' = file.servers
        /\ mgr' = [pc |-> "ask", todo |-> file.servers, body |-> NoFile]
        /\ UNCHANGED <<file, made, kills, poisoned>>
    BY <1>1 DEF ReadFile, NoMgr
  <2>2. file = ListOf(list') /\ list' \subseteq Server
    BY <2>1
  <2>3. ~poisoned => list' # {}
    BY <2>1, <2>2
  <2> QED
    BY <2>1, <2>2, <2>3
<1>2. CASE CreateFile
  BY <1>2 DEF CreateFile
<1>3. CASE WriteEmbedded
  BY <1>3 DEF WriteEmbedded, At
<1>4. CASE NewBootstrapMgrFails
  BY <1>4 DEF NewBootstrapMgrFails, NoMgr
<1>5. ASSUME NEW s \in Server, AskFails(s) PROVE FileInv'
  BY <1>5 DEF AskFails, At
<1>6. ASSUME NEW s \in Server, NEW body \in Lists \cup {Garbage}, Answered(s, body) PROVE FileInv'
  BY <1>6 DEF Answered, At, Wrong
<1>7. CASE WriteBody
  <2>1. mgr.pc = "write" /\ file' = mgr.body
        /\ UNCHANGED <<made, kills, poisoned>>
    BY <1>7 DEF WriteBody, At
  <2>2. CASE mgr.body \in Lists
    <3>1. list' = mgr.body.servers /\ mgr' = [pc |-> "idle", todo |-> {}, body |-> NoFile]
      BY <1>7, <2>2 DEF WriteBody
    <3>2. mgr.body = ListOf(list') /\ list' \subseteq Server
      BY <2>2, <3>1
    <3> QED
      BY <2>1, <2>2, <3>1, <3>2
  <2>3. CASE mgr.body \notin Lists
    <3>1. list' = list /\ mgr' = [pc |-> "ask", todo |-> mgr.todo, body |-> NoFile]
      BY <1>7, <2>3 DEF WriteBody
    <3> QED
      BY <2>1, <2>3, <3>1
  <2> QED
    BY <2>2, <2>3
<1>8. CASE WriteFails
  BY <1>8 DEF WriteFails, At
<1>9. CASE AskedAll
  BY <1>9 DEF AskedAll, At
<1>10. CASE Made
  BY <1>10 DEF Made
<1>11. CASE TimedUpdate
  BY <1>11 DEF TimedUpdate, At
<1>12. CASE UNCHANGED bootstrap
  BY <1>12 DEF bootstrap
<1>13. CASE Kill
  BY <1>13 DEF Kill
<1>14. CASE Restart
  BY <1>14 DEF Restart, NoMgr
<1> QED
  BY <1>1, <1>2, <1>3, <1>4, <1>5, <1>6, <1>7, <1>8, <1>9, <1>10, <1>11, <1>12, <1>13, <1>14
  DEF CNext, cvars, MgrStep, StartWithList, ConnectWithList, LifecycleStep

\* A client finds the list of servers it last used whenever it is started,
\* unless something that is no list was once written to the file.
THEOREM ClientStartsAgain == CSpec => []StartsAgain
<1>1. FileInv => StartsAgain
  BY DEF FileInv
<1> QED
  BY <1>1, FileStart, FileStep, PTL DEF CSpec
=============================================================================
