---------------------------- MODULE PopAllocation ----------------------------
(* How the manager gives a node its point of presence (manager:            *)
(* getnodepoplogic.go, model/node.go).                                     *)
(*                                                                         *)
(* A request is a goroutine.  It reads the node's entry; a node without    *)
(* one is located and gets the first point of presence of its area that    *)
(* has room, or else one of the default area, full or not.  Every redis    *)
(* command is a step; between them other requests run, of the same node    *)
(* too.                                                                    *)
EXTENDS Integers, Sequences, FiniteSets

CONSTANTS Request,      \* goroutines, reused
          Node,
          Pop, Area,
          Pops,         \* Config.Pops: the points of presence in order
          AreaOf,       \* Pop.Area
          MaxCount,     \* Pop.MaxCount
          DefaultArea,  \* Config.DefaultArea
          None

ASSUME ConfigAssumption ==
  /\ Pops \in Seq(Pop) /\ AreaOf \in [Pop -> Area] /\ MaxCount \in [Pop -> Nat]
  /\ DefaultArea \in Area
ASSUME SetsAssumption == IsFiniteSet(Request) /\ IsFiniteSet(Node) /\ None \notin Pop \cup Node \cup Area

VARIABLES
  nodePop,   \* redis hash of each node's point of presence
  popNodes,  \* redis set of each point of presence's nodes
  task,      \* each request: where it is, its node, area, place in Pops, choice
  raced      \* history: nodes of which two requests were handled at a time

vars == <<nodePop, popNodes, task, raced>>
tables == <<nodePop, popNodes>>

PCs == {"idle", "get", "locate", "scan", "default", "hset", "sadd", "answer"}
Idle == [pc |-> "idle", node |-> None, area |-> None, at |-> 1, pop |-> None]
Task == [pc : PCs, node : Node \cup {None}, area : Area \cup {None},
         at : 1..Len(Pops) + 1, pop : Pop \cup {None}]

Init ==
  /\ nodePop = [n \in Node |-> None]
  /\ popNodes = [p \in Pop |-> {}]
  /\ task = [r \in Request |-> Idle]
  /\ raced = {}

At(r, pc) == task[r].pc = pc
Become(r, t) == task' = [task EXCEPT ![r] = t]
Goto(r, pc) == Become(r, [task[r] EXCEPT !.pc = pc])
Choose(r, p) == Become(r, [Idle EXCEPT !.pc = "hset", !.node = task[r].node, !.pop = p])
Scanned(r) == Pops[task[r].at]
ScanOn(r) == Become(r, [task[r] EXCEPT !.at = @ + 1])

-----------------------------------------------------------------------------
\* A request arrives.
Arrive(r, n) ==
  /\ At(r, "idle")
  /\ Become(r, [Idle EXCEPT !.pc = "get", !.node = n])
  /\ raced' = IF \E q \in Request : task[q].node = n THEN raced \cup {n} ELSE raced
  /\ UNCHANGED tables

\* Mutant: a node that is found is allocated again.
GetNodePop_Forgets(r) ==
  /\ At(r, "get")
  /\ Goto(r, "locate")
  /\ UNCHANGED <<tables, raced>>

\* Mutant: a node that is found is sent to the first point of presence.
GetNodePop_First(r) ==
  /\ At(r, "get")
  /\ IF nodePop[task[r].node] # None
     THEN Become(r, [task[r] EXCEPT !.pc = "answer", !.pop = Pops[1]])
     ELSE Goto(r, "locate")
  /\ UNCHANGED <<tables, raced>>

\* GetNodePop: a node that has an entry keeps it.
GetNodePop(r) ==
  LET p == nodePop[task[r].node]
  IN  /\ At(r, "get")
      /\ IF p # None THEN Become(r, [task[r] EXCEPT !.pc = "answer", !.pop = p])
                     ELSE Goto(r, "locate")
      /\ UNCHANGED <<tables, raced>>

\* getLocalInfo asks a geo service for the area of the remote address.
Locate(r, a) ==
  /\ At(r, "locate")
  /\ Become(r, [task[r] EXCEPT !.pc = "scan", !.area = a])
  /\ UNCHANGED <<tables, raced>>

\* NodeCountOfPop of the next point of presence, if it is of the area.
HasRoom(p) == Cardinality(popNodes[p]) < MaxCount[p]

\* Mutant: a point of presence that is full takes one more.
ScanTakes_OneMore(r) ==
  /\ At(r, "scan") /\ task[r].at <= Len(Pops)
  /\ AreaOf[Scanned(r)] = task[r].area /\ Cardinality(popNodes[Scanned(r)]) <= MaxCount[Scanned(r)]
  /\ Choose(r, Scanned(r))
  /\ UNCHANGED <<tables, raced>>

ScanTakes(r) ==
  /\ At(r, "scan") /\ task[r].at <= Len(Pops)
  /\ AreaOf[Scanned(r)] = task[r].area /\ HasRoom(Scanned(r))
  /\ Choose(r, Scanned(r))
  /\ UNCHANGED <<tables, raced>>

ScanSkips(r) ==
  /\ At(r, "scan") /\ task[r].at <= Len(Pops)
  /\ AreaOf[Scanned(r)] # task[r].area \/ ~HasRoom(Scanned(r))
  /\ ScanOn(r)
  /\ UNCHANGED <<tables, raced>>

\* A count that cannot be read is passed over like a full one.
CountFails(r) ==
  /\ At(r, "scan") /\ task[r].at <= Len(Pops) /\ AreaOf[Scanned(r)] = task[r].area
  /\ ScanOn(r)
  /\ UNCHANGED <<tables, raced>>

ScanEnds(r) ==
  /\ At(r, "scan") /\ task[r].at > Len(Pops)
  /\ Goto(r, "default")
  /\ UNCHANGED <<tables, raced>>

\* The first point of presence of the default area, whatever its count.
TakeDefault(r) ==
  /\ At(r, "default")
  /\ \E i \in DOMAIN Pops :
       /\ AreaOf[Pops[i]] = DefaultArea
       /\ \A j \in 1..i - 1 : AreaOf[Pops[j]] # DefaultArea
       /\ Choose(r, Pops[i])
  /\ UNCHANGED <<tables, raced>>

\* SetNodePop: the entry, and then the count.
SetEntry(r) ==
  /\ At(r, "hset")
  /\ nodePop' = [nodePop EXCEPT ![task[r].node] = task[r].pop]
  /\ Goto(r, "sadd")
  /\ UNCHANGED <<popNodes, raced>>

\* Mutant: the node is counted although its entry was not written.
SetEntryFails_Counts(r) ==
  /\ At(r, "hset")
  /\ Goto(r, "sadd")
  /\ UNCHANGED <<tables, raced>>

\* An error is logged, and the node is sent there all the same.
SetEntryFails(r) ==
  /\ At(r, "hset")
  /\ Goto(r, "answer")
  /\ UNCHANGED <<tables, raced>>

AddToPop(r) ==
  /\ At(r, "sadd")
  /\ popNodes' = [popNodes EXCEPT ![task[r].pop] = @ \cup {task[r].node}]
  /\ Goto(r, "answer")
  /\ UNCHANGED <<nodePop, raced>>

AddToPopFails(r) ==
  /\ At(r, "sadd")
  /\ Goto(r, "answer")
  /\ UNCHANGED <<tables, raced>>

\* The answer; or an error, which changes nothing, at any step that fails.
Return(r) ==
  /\ task[r].pc \in {"get", "locate", "default", "answer"}
  /\ Become(r, Idle)
  /\ UNCHANGED <<tables, raced>>

\* The manager stops and starts again.
Restart ==
  /\ task' = [r \in Request |-> Idle]
  /\ UNCHANGED <<tables, raced>>

Next ==
  \/ \E r \in Request :
       \/ \E n \in Node : Arrive(r, n)
       \/ \E a \in Area : Locate(r, a)
       \/ GetNodePop(r) \/ ScanTakes(r) \/ ScanSkips(r) \/ CountFails(r) \/ ScanEnds(r)
       \/ TakeDefault(r) \/ SetEntry(r) \/ SetEntryFails(r) \/ AddToPop(r) \/ AddToPopFails(r)
       \/ Return(r)
  \/ Restart

Spec == Init /\ [][Next]_vars

-----------------------------------------------------------------------------
(* Properties                                                              *)

TypeOK ==
  /\ nodePop \in [Node -> Pop \cup {None}]
  /\ popNodes \in [Pop -> SUBSET Node]
  /\ task \in [Request -> Task]
  /\ \A r \in Request : task[r].pc = "idle" <=> task[r].node = None
  /\ raced \subseteq Node

\* The limit of a point of presence is passed by no more than the requests
\* that can check it at the same time, less one.  The default area has none.
LimitNearlyHolds ==
  \A p \in Pop :
    AreaOf[p] # DefaultArea /\ MaxCount[p] > 0
      => Cardinality(popNodes[p]) <= MaxCount[p] - 1 + Cardinality(Request)

\* A node is counted at the point of presence its entry names, and nowhere
\* else, if its requests come one at a time.
CountedIsRemembered ==
  \A p \in Pop : \A n \in popNodes[p] \ raced : nodePop[n] = p

\* Both, with the types of the variables.
CountsInv == TypeOK /\ LimitNearlyHolds /\ CountedIsRemembered

\* A node whose requests come one at a time is never sent elsewhere than its
\* entry says; it has no entry if that could not be written.
AnswerAgrees ==
  \A r \in Request :
    task[r].pc = "answer" /\ task[r].node \notin raced
      => nodePop[task[r].node] \in {None, task[r].pop}

\* A node never changes its point of presence, if its requests come one at a
\* time.
PopIsKept ==
  [][\A n \in Node \ raced' : nodePop[n] # None => nodePop'[n] = nodePop[n]]_vars


(* The inductive invariants behind them.  A request that has its node to    *)
(* itself allocates one that has no entry, and answers what the entry says. *)
Chosen(t) == t.pc \in {"hset", "sadd", "answer"} => t.pop \in Pop

Truthful(t) ==
  /\ t.pc \in {"locate", "scan", "default", "hset"} => nodePop[t.node] = None
  /\ t.pc = "sadd" => nodePop[t.node] = t.pop
  /\ t.pc = "answer" => nodePop[t.node] \in {None, t.pop}

OneAtATime ==
  \A q, r \in Request :
    q # r /\ task[q].node = task[r].node /\ task[r].node # None => task[r].node \in raced

\* The requests that have yet to count their node at p.
Counting(p) == {r \in Request : task[r].pc \in {"hset", "sadd"} /\ task[r].pop = p}

LimitWithRequests ==
  \A p \in Pop :
    AreaOf[p] # DefaultArea /\ MaxCount[p] > 0
      => Cardinality(popNodes[p]) + Cardinality(Counting(p)) <= MaxCount[p] - 1 + Cardinality(Request)

IInv ==
  /\ TypeOK
  /\ \A r \in Request : Chosen(task[r]) /\ (task[r].node \notin raced => Truthful(task[r]))
  /\ OneAtATime /\ CountedIsRemembered
  /\ LimitWithRequests
=============================================================================
