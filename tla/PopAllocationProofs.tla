------------------------- MODULE PopAllocationProofs -------------------------
(***************************************************************************)
(* Proofs about PopAllocation: what the tables say of a node's point of    *)
(* presence and how far a limit is passed, for any number of requests,     *)
(* nodes and points of presence.                                           *)
(***************************************************************************)
EXTENDS PopAllocation, FiniteSetTheorems, TLAPS

\* The points of presence that have a limit.
Limited(p) == AreaOf[p] # DefaultArea /\ MaxCount[p] > 0

\* What the limits are.
LEMMA LimitMeans ==
  /\ LimitWithRequests <=>
       \A p \in Pop : Limited(p) =>
          Cardinality(popNodes[p]) + Cardinality(Counting(p))
            <= MaxCount[p] - 1 + Cardinality(Request)
  /\ LimitWithRequests' <=>
       \A p \in Pop : Limited(p) =>
          Cardinality(popNodes'[p]) + Cardinality(Counting(p)')
            <= MaxCount[p] - 1 + Cardinality(Request)
  /\ \A p : HasRoom(p) <=> Cardinality(popNodes[p]) < MaxCount[p]
  BY DEF LimitWithRequests, Limited, HasRoom

\* What is assumed of the constants, in the form the steps use.
LEMMA Givens ==
  /\ IsFiniteSet(Request) /\ IsFiniteSet(Node)
  /\ None \notin Pop /\ None \notin Node
  /\ Len(Pops) \in Nat /\ \A i \in 1..Len(Pops) : Pops[i] \in Pop
  /\ AreaOf \in [Pop -> Area] /\ MaxCount \in [Pop -> Nat]
  BY ConfigAssumption, SetsAssumption

\* Sets of requests and of nodes are finite.
LEMMA Counts ==
  ASSUME TypeOK, NEW p \in Pop
  PROVE  /\ IsFiniteSet(popNodes[p]) /\ Cardinality(popNodes[p]) \in Nat
         /\ IsFiniteSet(Counting(p)) /\ Cardinality(Counting(p)) \in Nat
         /\ Cardinality(Counting(p)) <= Cardinality(Request)
         /\ Cardinality(Request) \in Nat
  <1>1. popNodes[p] \subseteq Node /\ Counting(p) \subseteq Request
    BY DEF TypeOK, Counting
  <1>2. QED
    BY <1>1, Givens, FS_Subset, FS_CardinalityType

LEMMA InitInv == Init => IInv
  <1> SUFFICES ASSUME Init PROVE IInv
    OBVIOUS
  <1> USE Givens DEF Init, Idle
  <1>1. TypeOK
    BY DEF TypeOK, Task, PCs
  <1>2. \A p \in Pop : popNodes[p] = {} /\ Counting(p) = {}
    BY DEF Counting
  <1>3. LimitWithRequests
    <2> SUFFICES ASSUME NEW p \in Pop, Limited(p)
                 PROVE  Cardinality(popNodes[p]) + Cardinality(Counting(p))
                          <= MaxCount[p] - 1 + Cardinality(Request)
      BY LimitMeans
    <2>1. Cardinality(popNodes[p]) = 0 /\ Cardinality(Counting(p)) = 0
      BY <1>2, FS_EmptySet
    <2>2. Cardinality(Request) \in Nat /\ MaxCount[p] \in Nat /\ MaxCount[p] > 0
      BY FS_CardinalityType DEF Limited
    <2>3. QED
      BY <2>1, <2>2
  <1>4. QED
    BY <1>1, <1>3 DEF IInv, Chosen, Truthful, OneAtATime,
           CountedIsRemembered

\* A request that goes on, or ends, while the tables stay: it takes a node to a
\* point of presence only if that has room, or is of the default area.
LEMMA GoesOn ==
  ASSUME IInv, NEW r \in Request, NEW t \in Task, Become(r, t),
         UNCHANGED <<nodePop, popNodes, raced>>,
         t.pc = "idle" <=> t.node = None, t.node \in {None, task[r].node},
         Chosen(t), t.node \notin raced => Truthful(t),
         t.pc \in {"hset", "sadd"} =>
           \/ task[r].pc \in {"hset", "sadd"} /\ task[r].pop = t.pop
           \/ ~Limited(t.pop) \/ HasRoom(t.pop)
  PROVE  IInv'
  <1>t. /\ task \in [Request -> Task] /\ task' = [task EXCEPT ![r] = t]
        /\ TypeOK
    BY DEF IInv, TypeOK, Become
  <1>1. TypeOK'
    BY <1>t DEF TypeOK
  <1>2. \A q \in Request : Chosen(task[q])'
                           /\ (task'[q].node \notin raced' => Truthful(task[q])')
    BY <1>t DEF IInv, Chosen, Truthful
  <1>3. OneAtATime'
    BY <1>t DEF IInv, OneAtATime
  <1>4. CountedIsRemembered'
    BY DEF IInv, CountedIsRemembered
  <1>5. LimitWithRequests'
    <2> SUFFICES ASSUME NEW p \in Pop, Limited(p)
                 PROVE  Cardinality(popNodes[p]) + Cardinality(Counting(p)')
                          <= MaxCount[p] - 1 + Cardinality(Request)
      BY LimitMeans
    <2>0. MaxCount[p] \in Nat
      BY Givens
    <2>1. CASE HasRoom(p)
      <3>1. Cardinality(Counting(p)') \in Nat /\ Cardinality(Counting(p)') <= Cardinality(Request)
        <4>1. Counting(p)' \subseteq Request
          BY DEF Counting
        <4>2. QED
          BY <4>1, Givens, FS_Subset, FS_CardinalityType
      <3>2. QED
        BY <1>t, <2>0, <2>1, <3>1, Counts, LimitMeans
    <2>2. CASE ~HasRoom(p)
      <3>1. Counting(p)' \subseteq Counting(p)
        BY <1>t, <2>2 DEF Counting
      <3>2. /\ Cardinality(Counting(p)') \in Nat
            /\ Cardinality(Counting(p)') <= Cardinality(Counting(p))
        BY <1>t, <3>1, Counts, FS_Subset, FS_CardinalityType
      <3>3. QED
        BY <1>t, <2>0, <3>2, Counts, LimitMeans DEF IInv
    <2>3. QED
      BY <2>1, <2>2
  <1>6. QED
    BY <1>1, <1>2, <1>3, <1>4, <1>5 DEF IInv


\* What a request at each step is known to be.
LEMMA Known ==
  ASSUME IInv, NEW r \in Request
  PROVE  /\ task[r] \in Task /\ Chosen(task[r])
         /\ task[r].pc = "idle" <=> task[r].node = None
         /\ task[r].node \notin raced => Truthful(task[r])
         /\ task \in [Request -> Task] /\ nodePop \in [Node -> Pop \cup {None}]
         /\ popNodes \in [Pop -> SUBSET Node] /\ raced \subseteq Node
  BY DEF IInv, TypeOK

\* The steps of a request that leave the tables alone.
LEMMA QuietSteps ==
  ASSUME IInv, NEW r \in Request,
         \/ GetNodePop(r) \/ \E a \in Area : Locate(r, a)
         \/ ScanTakes(r) \/ ScanSkips(r) \/ CountFails(r) \/ ScanEnds(r)
         \/ TakeDefault(r) \/ SetEntryFails(r) \/ AddToPopFails(r)
         \/ Return(r)
  PROVE  IInv'
  <1>t. PICK t : t = task[r]
    OBVIOUS
  <1>k. /\ t \in Task /\ Chosen(t)
        /\ t.pc = "idle" <=> t.node = None
        /\ t.node \notin raced => Truthful(t)
        /\ nodePop \in [Node -> Pop \cup {None}]
    BY <1>t, Known
  <1>n. t.node \in Node \cup {None} /\ t.at \in 1..Len(Pops) + 1
    BY <1>k DEF Task
  <1>1. CASE GetNodePop(r)
    <2> DEFINE p == nodePop[t.node]
               s == [t EXCEPT !.pc = "answer", !.pop = p]
               l == [t EXCEPT !.pc = "locate"]
    <2>1. t.pc = "get" /\ t.node \in Node /\ UNCHANGED <<nodePop, popNodes, raced>>
      BY <1>1, <1>k, <1>n, <1>t DEF GetNodePop, At, tables
    <2>2. CASE p # None /\ Become(r, s)
      <3>1. s \in Task /\ s.pc = "answer" /\ s.node = t.node /\ s.pop = p /\ p \in Pop
        BY <1>k, <2>1, <2>2 DEF Task, PCs
      <3>2. Chosen(s) /\ Truthful(s)
        BY <3>1 DEF Chosen, Truthful
      <3> HIDE DEF s, p
      <3>3. QED
        BY <1>k, <1>n, <1>t, <2>1, <2>2, <3>1, <3>2, Givens, GoesOn
    <2>3. CASE p = None /\ Become(r, l)
      <3>1. l \in Task /\ l.pc = "locate" /\ l.node = t.node
        BY <1>k, <2>1 DEF Task, PCs
      <3>2. Chosen(l) /\ Truthful(l)
        BY <2>3, <3>1 DEF Chosen, Truthful
      <3> HIDE DEF l, p
      <3>3. QED
        BY <1>k, <1>n, <1>t, <2>1, <2>3, <3>1, <3>2, Givens, GoesOn
    <2>4. QED
      BY <1>1, <1>t, <2>2, <2>3 DEF GetNodePop, Goto
  \* The steps of the search, that keep the node and that it has no entry.
  <1>s. ASSUME NEW s \in Task, Become(r, s), UNCHANGED <<nodePop, popNodes, raced>>,
               s.node = t.node, t.pc \in {"locate", "scan"}, s.pc \in {"scan", "default"}
        PROVE  IInv'
    <2>1. Chosen(s) /\ (s.node \notin raced => Truthful(s))
      BY <1>k, <1>s DEF Chosen, Truthful
    <2>2. QED
      BY <1>k, <1>s, <1>t, <2>1, GoesOn
  <1>2. CASE \E a \in Area : Locate(r, a)
    <2>1. PICK a \in Area : Locate(r, a)
      BY <1>2
    <2> DEFINE s == [t EXCEPT !.pc = "scan", !.area = a]
    <2>2. s \in Task /\ s.node = t.node /\ s.pc = "scan"
      BY <1>k DEF Task, PCs
    <2>3. Become(r, s) /\ t.pc = "locate" /\ UNCHANGED <<nodePop, popNodes, raced>>
      BY <1>t, <2>1 DEF Locate, At, tables
    <2> HIDE DEF s
    <2>4. QED
      BY <1>s, <2>2, <2>3
  <1>3. CASE ScanSkips(r) \/ CountFails(r)
    <2> DEFINE s == [t EXCEPT !.at = t.at + 1]
    <2>1. t.pc = "scan" /\ t.at <= Len(Pops) /\ UNCHANGED <<nodePop, popNodes, raced>>
      BY <1>3, <1>t DEF ScanSkips, CountFails, At, tables
    <2>2. t.at + 1 \in 1..Len(Pops) + 1
      BY <1>n, <2>1, Givens
    <2>3. s \in Task /\ s.node = t.node /\ s.pc = "scan"
      BY <1>k, <2>1, <2>2 DEF Task, PCs
    <2>4. Become(r, s)
      BY <1>3, <1>k, <1>t DEF ScanSkips, CountFails, ScanOn, Task
    <2> HIDE DEF s
    <2>5. QED
      BY <1>s, <2>1, <2>3, <2>4
  <1>4. CASE ScanEnds(r)
    <2> DEFINE s == [t EXCEPT !.pc = "default"]
    <2>1. t.pc = "scan" /\ UNCHANGED <<nodePop, popNodes, raced>> /\ Become(r, s)
      BY <1>4, <1>t DEF ScanEnds, Goto, At, tables
    <2>2. s \in Task /\ s.node = t.node /\ s.pc = "default"
      BY <1>k DEF Task, PCs
    <2> HIDE DEF s
    <2>3. QED
      BY <1>s, <2>1, <2>2
  \* A point of presence is chosen.
  <1>c. ASSUME NEW p \in Pop, Choose(r, p), UNCHANGED <<nodePop, popNodes, raced>>,
               t.pc \in {"scan", "default"}, ~Limited(p) \/ HasRoom(p)
        PROVE  IInv'
    <2> DEFINE s == [Idle EXCEPT !.pc = "hset", !.node = t.node, !.pop = p]
    <2>a. 1 \in 1..Len(Pops) + 1
      BY Givens
    <2>b. s.node = t.node /\ s.pc = "hset" /\ s.pop = p
      BY DEF Idle
    <2>c. s \in Task
      BY <1>n, <2>a DEF Idle, Task, PCs
    <2>d. Become(r, s)
      BY <1>c, <1>t DEF Choose
    <2>1. s \in Task /\ s.node = t.node /\ s.pc = "hset" /\ s.pop = p /\ Become(r, s)
      BY <2>b, <2>c, <2>d
    <2>2. Chosen(s) /\ (s.node \notin raced => Truthful(s))
      BY <1>c, <1>k, <2>1 DEF Chosen, Truthful
    <2> HIDE DEF s
    <2>3. QED
      BY <1>c, <1>k, <1>t, <2>1, <2>2, GoesOn
  <1>5. CASE ScanTakes(r)
    <2>1. /\ t.pc = "scan" /\ Pops[t.at] \in Pop /\ UNCHANGED <<nodePop, popNodes, raced>>
          /\ Choose(r, Pops[t.at]) /\ HasRoom(Pops[t.at])
      BY <1>5, <1>n, <1>t, Givens DEF ScanTakes, At, Scanned, tables
    <2>2. QED
      BY <1>c, <2>1
  <1>6. CASE TakeDefault(r)
    <2>1. PICK i \in DOMAIN Pops : AreaOf[Pops[i]] = DefaultArea /\ Choose(r, Pops[i])
      BY <1>6 DEF TakeDefault
    <2>2. Pops[i] \in Pop /\ ~Limited(Pops[i])
      BY <2>1, ConfigAssumption DEF Limited
    <2>3. t.pc = "default" /\ UNCHANGED <<nodePop, popNodes, raced>>
      BY <1>6, <1>t DEF TakeDefault, At, tables
    <2>4. QED
      BY <1>c, <2>1, <2>2, <2>3
  <1>7. CASE SetEntryFails(r) \/ AddToPopFails(r)
    <2> DEFINE s == [t EXCEPT !.pc = "answer"]
    <2>1. /\ t.pc \in {"hset", "sadd"} /\ UNCHANGED <<nodePop, popNodes, raced>>
          /\ Become(r, s)
      BY <1>7, <1>t DEF SetEntryFails, AddToPopFails, Goto, At, tables
    <2>2. s \in Task /\ s.node = t.node /\ s.pc = "answer" /\ s.pop = t.pop
      BY <1>k DEF Task, PCs
    <2>3. Chosen(s) /\ (s.node \notin raced => Truthful(s))
      BY <1>k, <2>1, <2>2 DEF Chosen, Truthful
    <2> HIDE DEF s
    <2>4. QED
      BY <1>k, <1>t, <2>1, <2>2, <2>3, GoesOn
  <1>8. CASE Return(r)
    <2>1. UNCHANGED <<nodePop, popNodes, raced>> /\ Become(r, Idle)
      BY <1>8 DEF Return, tables
    <2>2. /\ Idle \in Task /\ Idle.pc = "idle" /\ Idle.node = None
          /\ Chosen(Idle) /\ Truthful(Idle)
      BY Givens DEF Idle, Task, PCs, Chosen, Truthful
    <2>3. QED
      BY <2>1, <2>2, GoesOn
  <1>9. QED
    BY <1>1, <1>2, <1>3, <1>4, <1>5, <1>6, <1>7, <1>8


\* A request that arrives has its node to itself, or the node is raced for.
LEMMA ArriveStep ==
  ASSUME IInv, NEW r \in Request, NEW n \in Node, Arrive(r, n)
  PROVE  IInv'
  <1> DEFINE s == [Idle EXCEPT !.pc = "get", !.node = n]
  <1>s. s \in Task /\ s.pc = "get" /\ s.node = n
    <2>1. 1 \in 1..Len(Pops) + 1
      BY Givens
    <2>2. QED
      BY <2>1 DEF Idle, Task, PCs
  <1>t. /\ task[r].pc = "idle" /\ task[r].node = None /\ UNCHANGED <<nodePop, popNodes>>
        /\ task' = [task EXCEPT ![r] = s]
        /\ raced \subseteq raced' /\ raced' \subseteq Node
        /\ (\E q \in Request : task[q].node = n) => n \in raced'
    BY Known DEF Arrive, At, Become, tables
  <1> HIDE DEF s
  <1>k. /\ task \in [Request -> Task] /\ TypeOK /\ None \notin Node
        /\ task' \in [Request -> Task] /\ task'[r] = s
        /\ \A q \in Request \ {r} : task'[q] = task[q]
    BY <1>s, <1>t, Known, Givens DEF IInv
  <1>1. TypeOK'
    BY <1>s, <1>t, <1>k DEF TypeOK
  <1>2. \A q \in Request : Chosen(task[q])'
                           /\ (task'[q].node \notin raced' => Truthful(task[q])')
    BY <1>s, <1>t, <1>k DEF IInv, Chosen, Truthful
  <1>3. OneAtATime'
    BY <1>s, <1>t, <1>k DEF IInv, OneAtATime
  <1>4. CountedIsRemembered'
    BY <1>t DEF IInv, CountedIsRemembered
  <1>5. LimitWithRequests'
    <2>1. \A p \in Pop : Counting(p)' = Counting(p)
      BY <1>s, <1>t, <1>k DEF Counting
    <2>2. QED
      BY <1>t, <2>1, LimitMeans DEF IInv
  <1>6. QED
    BY <1>1, <1>2, <1>3, <1>4, <1>5 DEF IInv

\* The entry is written: a node that had none was counted nowhere, and no
\* other request has read that it has none.
LEMMA EntryStep ==
  ASSUME IInv, NEW r \in Request, SetEntry(r)
  PROVE  IInv'
  <1>t. PICK t : t = task[r]
    OBVIOUS
  <1> DEFINE s == [t EXCEPT !.pc = "sadd"]
  <1>k. /\ t \in Task /\ t.pc = "hset" /\ t.pop \in Pop /\ t.node \in Node
        /\ t.node \notin raced => nodePop[t.node] = None
        /\ TypeOK
    <2>1. t.pc = "hset"
      BY <1>t DEF SetEntry, At
    <2>2. QED
      BY <1>t, <2>1, Known DEF Task, Chosen, Truthful, IInv
  <1>s. s \in Task /\ s.pc = "sadd" /\ s.node = t.node /\ s.pop = t.pop
    BY <1>k DEF Task, PCs
  <1>u. /\ nodePop' = [nodePop EXCEPT ![t.node] = t.pop] /\ UNCHANGED <<popNodes, raced>>
        /\ task' = [task EXCEPT ![r] = s]
    BY <1>t DEF SetEntry, Goto, Become
  <1> HIDE DEF s
  <1>v. /\ task \in [Request -> Task] /\ nodePop \in [Node -> Pop \cup {None}]
        /\ task' \in [Request -> Task] /\ task'[r] = s
        /\ \A q \in Request \ {r} : task'[q] = task[q]
        /\ nodePop' \in [Node -> Pop \cup {None}] /\ nodePop'[t.node] = t.pop
        /\ \A n \in Node \ {t.node} : nodePop'[n] = nodePop[n]
        /\ None \notin Node /\ None \notin Pop
    BY <1>k, <1>s, <1>u, Known, Givens
  <1>1. TypeOK'
    BY <1>k, <1>s, <1>u, <1>v DEF TypeOK
  <1>2. \A q \in Request : Chosen(task[q])'
                           /\ (task'[q].node \notin raced' => Truthful(task[q])')
    <2> SUFFICES ASSUME NEW q \in Request
                 PROVE  Chosen(task[q])'
                        /\ (task'[q].node \notin raced' => Truthful(task[q])')
      OBVIOUS
    <2>1. CASE q = r
      BY <1>k, <1>s, <1>v, <2>1 DEF Chosen, Truthful
    <2>2. CASE q # r
      <3>1. PICK o : o = task[q]
        OBVIOUS
      <3>2. /\ o \in Task /\ Chosen(o) /\ task'[q] = o
            /\ (o.pc = "idle" <=> o.node = None) /\ (o.node \notin raced => Truthful(o))
        BY <1>v, <2>2, <3>1, Known
      <3>3. o.node = t.node => o.node \in raced
        BY <1>k, <1>t, <1>v, <2>2, <3>1 DEF IInv, OneAtATime
      <3>4. o.node \in Node \cup {None}
        BY <3>2 DEF Task
      <3>5. Chosen(o)' /\ (o.node \notin raced => Truthful(o)')
        BY <1>v, <3>2, <3>3, <3>4 DEF Chosen, Truthful
      <3>6. QED
        BY <1>u, <3>2, <3>5 DEF Chosen, Truthful
    <2>3. QED
      BY <2>1, <2>2
  <1>3. OneAtATime'
    BY <1>s, <1>t, <1>u, <1>v DEF IInv, OneAtATime
  <1>4. CountedIsRemembered'
    BY <1>k, <1>u, <1>v DEF IInv, CountedIsRemembered, TypeOK
  <1>5. LimitWithRequests'
    <2>1. \A p \in Pop : Counting(p)' = Counting(p)
      BY <1>k, <1>s, <1>t, <1>v DEF Counting
    <2>2. QED
      BY <1>u, <2>1, LimitMeans DEF IInv
  <1>6. QED
    BY <1>1, <1>2, <1>3, <1>4, <1>5 DEF IInv

\* The node is counted where its entry says, and the request no longer is.
LEMMA CountStep ==
  ASSUME IInv, NEW r \in Request, AddToPop(r)
  PROVE  IInv'
  <1>t. PICK t : t = task[r]
    OBVIOUS
  <1> DEFINE s == [t EXCEPT !.pc = "answer"]
  <1>k. /\ t \in Task /\ t.pc = "sadd" /\ t.pop \in Pop /\ t.node \in Node
        /\ t.node \notin raced => nodePop[t.node] = t.pop
        /\ TypeOK
    <2>1. t.pc = "sadd"
      BY <1>t DEF AddToPop, At
    <2>2. QED
      BY <1>t, <2>1, Known DEF Task, Chosen, Truthful, IInv
  <1>s. s \in Task /\ s.pc = "answer" /\ s.node = t.node /\ s.pop = t.pop
    BY <1>k DEF Task, PCs
  <1>u. /\ popNodes' = [popNodes EXCEPT ![t.pop] = popNodes[t.pop] \cup {t.node}]
        /\ UNCHANGED <<nodePop, raced>> /\ task' = [task EXCEPT ![r] = s]
    BY <1>t DEF AddToPop, Goto, Become
  <1> HIDE DEF s
  <1>v. /\ task \in [Request -> Task] /\ popNodes \in [Pop -> SUBSET Node]
        /\ task' \in [Request -> Task] /\ task'[r] = s
        /\ \A q \in Request \ {r} : task'[q] = task[q]
        /\ popNodes' \in [Pop -> SUBSET Node] /\ popNodes'[t.pop] = popNodes[t.pop] \cup {t.node}
        /\ \A p \in Pop \ {t.pop} : popNodes'[p] = popNodes[p]
        /\ None \notin Node /\ None \notin Pop
    BY <1>k, <1>s, <1>u, Known, Givens
  <1>1. TypeOK'
    BY <1>k, <1>s, <1>u, <1>v DEF TypeOK
  <1>2. \A q \in Request : Chosen(task[q])'
                           /\ (task'[q].node \notin raced' => Truthful(task[q])')
    BY <1>k, <1>s, <1>u, <1>v DEF IInv, Chosen, Truthful
  <1>3. OneAtATime'
    BY <1>s, <1>t, <1>u, <1>v DEF IInv, OneAtATime
  <1>4. CountedIsRemembered'
    BY <1>k, <1>u, <1>v DEF IInv, CountedIsRemembered
  <1>5. LimitWithRequests'
    <2> SUFFICES ASSUME NEW p \in Pop, Limited(p)
                 PROVE  Cardinality(popNodes'[p]) + Cardinality(Counting(p)')
                          <= MaxCount[p] - 1 + Cardinality(Request)
      BY LimitMeans
    <2>0. /\ Cardinality(popNodes[p]) + Cardinality(Counting(p))
               <= MaxCount[p] - 1 + Cardinality(Request)
          /\ MaxCount[p] \in Nat
      BY LimitMeans, Givens DEF IInv
    <2>1. CASE p = t.pop
      <3>1. Counting(p)' = Counting(p) \ {r} /\ r \in Counting(p)
        BY <1>k, <1>s, <1>t, <1>v, <2>1 DEF Counting
      <3>2. Cardinality(Counting(p)') = Cardinality(Counting(p)) - 1
        BY <1>k, <3>1, Counts, FS_RemoveElement
      <3>3. Cardinality(popNodes'[p]) \in {Cardinality(popNodes[p]), Cardinality(popNodes[p]) + 1}
        <4>1. IsFiniteSet(popNodes[p]) /\ popNodes'[p] = popNodes[p] \cup {t.node}
          BY <1>k, <1>v, <2>1, Counts
        <4>2. CASE t.node \in popNodes[p]
          <5>1. popNodes'[p] = popNodes[p]
            BY <4>1, <4>2
          <5>2. QED
            BY <5>1
        <4>3. CASE t.node \notin popNodes[p]
          BY <4>1, <4>3, FS_AddElement
        <4>4. QED
          BY <4>2, <4>3
      <3>4. QED
        BY <1>k, <2>0, <3>2, <3>3, Counts
    <2>2. CASE p # t.pop
      <3>1. Counting(p)' = Counting(p) /\ popNodes'[p] = popNodes[p]
        BY <1>k, <1>s, <1>t, <1>v, <2>2 DEF Counting
      <3>2. QED
        BY <2>0, <3>1
    <2>3. QED
      BY <2>1, <2>2
  <1>6. QED
    BY <1>1, <1>2, <1>3, <1>4, <1>5 DEF IInv

\* The manager starts again: its requests are gone, what is in redis stays.
LEMMA RestartStep == ASSUME IInv, Restart PROVE IInv'
  <1>i. /\ Idle \in Task /\ Idle.pc = "idle" /\ Idle.node = None
        /\ 1 \in 1..Len(Pops) + 1
    <2>1. 1 \in 1..Len(Pops) + 1
      BY Givens
    <2>2. QED
      BY <2>1 DEF Idle, Task, PCs
  <1>t. /\ task' \in [Request -> Task] /\ \A q \in Request : task'[q] = Idle
        /\ UNCHANGED <<nodePop, popNodes, raced>> /\ TypeOK
    BY <1>i DEF Restart, tables, IInv
  <1>1. TypeOK'
    BY <1>i, <1>t DEF TypeOK
  <1>2. \A q \in Request : Chosen(task[q])' /\ Truthful(task[q])'
    BY <1>i, <1>t DEF Chosen, Truthful
  <1>3. OneAtATime'
    BY <1>i, <1>t DEF OneAtATime
  <1>4. CountedIsRemembered'
    BY <1>t DEF IInv, CountedIsRemembered
  <1>5. LimitWithRequests'
    <2> SUFFICES ASSUME NEW p \in Pop, Limited(p)
                 PROVE  Cardinality(popNodes'[p]) + Cardinality(Counting(p)')
                          <= MaxCount[p] - 1 + Cardinality(Request)
      BY LimitMeans
    <2>0. /\ Cardinality(popNodes[p]) + Cardinality(Counting(p))
               <= MaxCount[p] - 1 + Cardinality(Request)
          /\ MaxCount[p] \in Nat
      BY LimitMeans, Givens DEF IInv
    <2>1. Counting(p)' = {}
      BY <1>i, <1>t DEF Counting
    <2>2. QED
      BY <1>t, <2>0, <2>1, Counts, FS_EmptySet
  <1>6. QED
    BY <1>1, <1>2, <1>3, <1>4, <1>5 DEF IInv

LEMMA NextInv == ASSUME IInv, [Next]_vars PROVE IInv'
  <1>1. ASSUME UNCHANGED vars PROVE IInv'
    <2>1. UNCHANGED <<nodePop, popNodes, task, raced>>
      BY <1>1 DEF vars
    <2>2. LimitWithRequests'
      <3>1. \A p \in Pop : Counting(p)' = Counting(p)
        BY <2>1 DEF Counting
      <3>2. QED
        BY <2>1, <3>1, LimitMeans DEF IInv
    <2>3. QED
      BY <2>1, <2>2 DEF IInv, TypeOK, Chosen, Truthful, OneAtATime,
             CountedIsRemembered
  <1>2. ASSUME Next PROVE IInv'
    BY <1>2, QuietSteps, ArriveStep, EntryStep, CountStep, RestartStep
       DEF Next
  <1>3. QED
    BY <1>1, <1>2

\* What each request holds and what the tables say of its node, and how many
\* nodes a point of presence has or is about to have.
THEOREM AllocationInductive == Spec => []IInv
  <1>1. Init => IInv
    BY InitInv
  <1>2. IInv /\ [Next]_vars => IInv'
    BY NextInv
  <1>3. QED
    BY <1>1, <1>2, PTL DEF Spec

\* A point of presence has no more nodes over its limit than the requests that
\* read its count at a time, less one; and a node is counted at no other point
\* of presence than its entry names, if its requests come one at a time.
THEOREM CountsAreKept == Spec => []CountsInv
  <1>1. ASSUME IInv PROVE CountsInv
    <2>1. TypeOK /\ CountedIsRemembered /\ LimitWithRequests
      BY <1>1 DEF IInv
    <2>2. \A p \in Pop : Limited(p) => Cardinality(popNodes[p]) <= MaxCount[p] - 1 + Cardinality(Request)
      BY <2>1, LimitMeans, Counts, Givens
    <2>3. LimitNearlyHolds
      BY <2>2 DEF LimitNearlyHolds, Limited
    <2>4. QED
      BY <2>1, <2>3 DEF CountsInv
  <1>2. QED
    BY <1>1, AllocationInductive, PTL

\* A node whose requests come one at a time is sent where its entry says.
THEOREM AnswersAgree == Spec => []AnswerAgrees
  <1>1. IInv => AnswerAgrees
    BY DEF IInv, AnswerAgrees, Truthful
  <1>2. QED
    BY <1>1, AllocationInductive, PTL

\* A node whose requests come one at a time keeps its point of presence.
THEOREM PopsAreKept == Spec => PopIsKept
  <1>1. ASSUME IInv, [Next]_vars
        PROVE  [\A n \in Node \ raced' : nodePop[n] # None => nodePop'[n] = nodePop[n]]_vars
    <2>1. ASSUME NEW r \in Request, SetEntry(r), NEW n \in Node \ raced', nodePop[n] # None
          PROVE  nodePop'[n] = nodePop[n]
      <3>1. PICK t : t = task[r]
        OBVIOUS
      <3>2. t.pc = "hset" /\ nodePop' = [nodePop EXCEPT ![t.node] = t.pop] /\ raced' = raced
        BY <2>1, <3>1 DEF SetEntry, At
      <3>3. t.node \notin raced => nodePop[t.node] = None
        BY <1>1, <3>1, <3>2, Known DEF Truthful
      <3>4. QED
        BY <1>1, <2>1, <3>2, <3>3, Known
    <2>2. Next => nodePop' = nodePop \/ \E r \in Request : SetEntry(r)
      BY DEF Next, Arrive, Locate, GetNodePop, ScanTakes,
             ScanSkips, CountFails, ScanEnds, TakeDefault,
             SetEntryFails, AddToPop, AddToPopFails, Return,
             Restart, tables
    <2>3. QED
      BY <1>1, <2>1, <2>2
  <1>2. QED
    BY <1>1, AllocationInductive, PTL DEF Spec, PopIsKept
=============================================================================
