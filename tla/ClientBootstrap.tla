-------------------------- MODULE ClientBootstrap --------------------------
(* The client with the list of servers it finds the system by              *)
(* (client/bootstrap/mgr.go), in memory and in the file bootstrap.json,    *)
(* which outlives the process.                                             *)
(*                                                                         *)
(* The first startTunnel of a process makes the BootstrapMgr: it reads the *)
(* file, or writes the list that is compiled in, and then asks the servers *)
(* of the list, one after the other, for a newer one, until one answers.   *)
(* TimedUpdate asks again twice a day.  An answer goes to the file before  *)
(* it is parsed.  The order of the list is left out.                       *)
EXTENDS ClientLifecycle, Naturals

CONSTANTS Server,      \* bootstrap servers
          Embedded,    \* bootstrapJSON, the list that is compiled in
          MaxKills     \* bound: times the process is killed

ASSUME BootstrapAssumption == Embedded \in (SUBSET Server) \ {{}} /\ MaxKills \in Nat

\* What the file holds, or a server sends: a list, or what json.Unmarshal
\* refuses.  A write truncates the file before it fills it.
Content(kind, servers) == [kind |-> kind, servers |-> servers]
ListOf(servers) == Content("list", servers)
Lists   == {ListOf(s) : s \in SUBSET Server}
Garbage == Content("garbage", {})
Torn    == Content("torn", {})
NoFile  == Content("none", {})

VARIABLES
  file,      \* bootstrap.json
  list,      \* bmgr.bootstraps
  mgr,       \* where the goroutine is that makes the BootstrapMgr or, once it
             \* is made, that of TimedUpdate; the servers it has still to ask
  made,      \* NewBootstrapMgr has returned
  kills,     \* times the process was killed
  poisoned   \* history: a server sent no list or an empty one, or a write of
             \* the file was cut short

bootstrap == <<file, list, mgr, made, kills, poisoned>>
cvars == <<vars, bootstrap>>

Asking(pc, todo, body) == [pc |-> pc, todo |-> todo, body |-> body]
NoMgr == Asking("none", {}, NoFile)

CInit ==
  /\ Init
  /\ file = NoFile /\ list = {} /\ mgr = NoMgr /\ made = FALSE
  /\ kills = 0 /\ poisoned = FALSE

Makes == call.pc = "start" /\ ~made /\ ~panicked
At(pc) == ~panicked /\ mgr.pc = pc

-----------------------------------------------------------------------------
(* NewBootstrapMgr.                                                        *)

ReadFile ==
  /\ Makes /\ mgr = NoMgr
  /\ file \in Lists
  /\ list' = file.servers /\ mgr' = Asking("ask", file.servers, NoFile)
  /\ UNCHANGED <<vars, file, made, kills, poisoned>>

\* There is no file: os.WriteFile makes an empty one ...
CreateFile ==
  /\ Makes /\ mgr = NoMgr
  /\ file = NoFile /\ file' = Torn
  /\ mgr' = Asking("embed", {}, NoFile)
  /\ UNCHANGED <<vars, list, made, kills, poisoned>>

\* ... and fills it.
WriteEmbedded ==
  /\ At("embed")
  /\ file' = ListOf(Embedded)
  /\ list' = Embedded /\ mgr' = Asking("ask", Embedded, NoFile)
  /\ UNCHANGED <<vars, made, kills, poisoned>>

\* The file cannot be read, parsed or written: startTunnel fails.
NewBootstrapMgrFails ==
  /\ Makes /\ mgr.pc \in {"none", "embed"}
  /\ mgr' = NoMgr
  /\ poisoned' = (poisoned \/ mgr.pc = "embed")
  /\ StartFails
  /\ UNCHANGED <<file, list, made, kills>>

-----------------------------------------------------------------------------
(* getBootstrapsFromServer.                                                *)

\* Mutant: the status is not looked at, and the text of an error is a body.
AskFails_Body(s) ==
  /\ At("ask") /\ s \in mgr.todo
  /\ mgr' = Asking("write", mgr.todo \ {s}, Garbage)
  /\ file' = Torn
  /\ UNCHANGED <<vars, list, made, kills, poisoned>>

\* No answer, or one with another status than 200, or the file cannot be
\* opened: the next server is asked.
AskFails(s) ==
  /\ At("ask") /\ s \in mgr.todo
  /\ mgr' = Asking("ask", mgr.todo \ {s}, NoFile)
  /\ UNCHANGED <<vars, file, list, made, kills, poisoned>>

Wrong(body) == body \in {Garbage, ListOf({})}

\* A server answers, and the file is truncated ...
Answered(s, body) ==
  /\ At("ask") /\ s \in mgr.todo
  /\ mgr' = Asking("write", mgr.todo \ {s}, body)
  /\ file' = Torn
  /\ poisoned' = (poisoned \/ Wrong(body))
  /\ UNCHANGED <<vars, list, made, kills>>

\* ... and filled; the list in memory is replaced if the body is one.
WriteBody ==
  /\ At("write")
  /\ file' = mgr.body
  /\ IF mgr.body \in Lists
       THEN list' = mgr.body.servers /\ mgr' = Asking("idle", {}, NoFile)
       ELSE mgr' = Asking("ask", mgr.todo, NoFile) /\ UNCHANGED list
  /\ UNCHANGED <<vars, made, kills, poisoned>>

\* ... or not: the disk is full.
WriteFails ==
  /\ At("write")
  /\ mgr' = Asking("ask", mgr.todo, NoFile)
  /\ poisoned' = TRUE
  /\ UNCHANGED <<vars, file, list, made, kills>>

AskedAll ==
  /\ At("ask") /\ mgr.todo = {}
  /\ mgr' = Asking("idle", {}, NoFile)
  /\ UNCHANGED <<vars, file, list, made, kills, poisoned>>

Made ==
  /\ Makes /\ mgr.pc = "idle"
  /\ made' = TRUE
  /\ UNCHANGED <<vars, file, list, mgr, kills, poisoned>>

TimedUpdate ==
  /\ At("idle") /\ made
  /\ mgr' = Asking("ask", list, NoFile)
  /\ UNCHANGED <<vars, file, list, made, kills, poisoned>>

MgrStep ==
  \/ ReadFile \/ CreateFile \/ WriteEmbedded \/ NewBootstrapMgrFails
  \/ \E s \in Server : AskFails(s) \/ \E body \in Lists \cup {Garbage} : Answered(s, body)
  \/ WriteBody \/ WriteFails \/ AskedAll \/ Made \/ TimedUpdate

-----------------------------------------------------------------------------
(* The rest of the client, which needs the list to connect.                *)

StartWithList ==
  /\ made /\ ~panicked
  /\ StartFails \/ (list # {} /\ \E t \in Tunnel : StartSucceeds(t))
  /\ UNCHANGED bootstrap

ConnectWithList == list # {} /\ (\E t \in Tunnel : Connect(t)) /\ UNCHANGED bootstrap

LifecycleStep ==
  /\ \E t \in Tunnel : \/ Start(t) \/ Stop(t) \/ StopSteps(t)
                        \/ LoopSteps(t) \/ Messages(t) \/ SocketDies(t)
  /\ UNCHANGED bootstrap

\* The process is killed, or the machine goes down, at any moment.
Kill ==
  /\ ~panicked /\ kills < MaxKills
  /\ panicked' = TRUE /\ kills' = kills + 1
  /\ UNCHANGED <<mytunnel, call, conn, destroyed, loop, missed, file, list, mgr, made, poisoned>>

\* The app is opened again, and only the file is left.
Restart ==
  /\ panicked
  /\ mytunnel' = None /\ call' = Idle /\ panicked' = FALSE /\ missed' = {}
  /\ conn' = [t \in Tunnel |-> "nil"]
  /\ destroyed' = [t \in Tunnel |-> FALSE]
  /\ loop' = [t \in Tunnel |-> "new"]
  /\ list' = {} /\ mgr' = NoMgr /\ made' = FALSE
  /\ poisoned' = (poisoned \/ mgr.pc \in {"embed", "write"})
  /\ UNCHANGED <<file, kills>>

CNext == MgrStep \/ StartWithList \/ ConnectWithList \/ LifecycleStep \/ Kill \/ Restart

CSpec ==
  /\ CInit /\ [][CNext]_cvars
  /\ \A t \in Tunnel : /\ WF_cvars(StopSteps(t) /\ UNCHANGED bootstrap)
                       /\ SF_cvars(LoopSteps(t) /\ UNCHANGED bootstrap)

-----------------------------------------------------------------------------
(* Properties.                                                             *)

BootstrapTypeOK ==
  /\ file \in Lists \cup {Garbage, Torn, NoFile} /\ list \subseteq Server
  /\ mgr \in [pc : {"none", "embed", "ask", "write", "idle"}, todo : SUBSET Server,
              body : Lists \cup {Garbage, NoFile}]
  /\ made \in BOOLEAN /\ kills \in 0..MaxKills /\ poisoned \in BOOLEAN

\* A client finds servers to connect by whenever it is started, after any
\* updates, failed requests, stops and kills, unless a server once sent
\* something that is no list, or an empty one, or a write of the file was cut
\* short: what is in the file is then the end of it.
FileIsUsable ==
  ~poisoned /\ mgr.pc \notin {"embed", "write"} =>
    /\ file = NoFile \/ file \in Lists \ {ListOf({})}
    /\ mgr.pc # "none" => list # {}

\* And it finds the same ones: a list in the file is the one that is in use.
FileIsInUse == mgr.pc \in {"ask", "idle"} /\ file \in Lists => file = ListOf(list)

StartsAgain == BootstrapTypeOK /\ FileIsUsable /\ FileIsInUse
=============================================================================
