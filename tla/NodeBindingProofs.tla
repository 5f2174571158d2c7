-------------------------- MODULE NodeBindingProofs --------------------------
(***************************************************************************)
(* Proofs about NodeBinding and, below, BindingConflicts, for any nodes,   *)
(* users, goroutines and faults: first what holds whatever interleaves,    *)
(* and then what the tables promise as long as the conflicts each promise  *)
(* depends on have not occurred.                                           *)
(***************************************************************************)
EXTENDS BindingConflicts, TLAPS

USE NoneAssumption

-----------------------------------------------------------------------------
(* Facts about tasks, the local state of a goroutine.                       *)

\* A well-formed task that carries only registered nodes.
GoodTask(t, zset) == t \in Task /\ Holds(t) /\ Registered(t, zset)

\* A goroutine that has returned holds nothing.
LEMMA IdleGood == ASSUME NEW zset PROVE GoodTask(IdleTask, zset)
  BY DEF GoodTask, IdleTask, Task, Holds, Registered, Ops, PCs, RequestKinds, BindPCs,
         SwitchPCs, RegisterPCs, ToPCs, UserPCs, RecPCs, ConnPCs, NodeOrNone, UserOrNone

\* Nodes are never unregistered, so what a task carries stays registered.
LEMMA GoodGrows ==
  ASSUME NEW t, NEW zset, NEW more, zset \subseteq more, GoodTask(t, zset)
  PROVE  GoodTask(t, more)
  BY DEF GoodTask, Registered

\* The error paths lead from good tasks to good tasks.
LEMMA OnErrorGood ==
  ASSUME NEW zset, NEW t, GoodTask(t, zset)
  PROVE  GoodTask(OnError(t), zset)
  <1> DEFINE GiveBack == \/ t.pc \in SwitchPCs /\ t.op # "modify"
                         \/ t.pc = "bindTx" /\ t.on
  <1>1. CASE GiveBack
    <2>1. OnError(t) = [t EXCEPT !.pc = "addFree"]
      BY <1>1 DEF OnError
    <2>2. t.to \in Node
      BY <1>1 DEF GoodTask, Holds, ToPCs, BindPCs
    <2>3. QED
      BY <1>1, <2>1, <2>2 DEF GoodTask, Task, Holds, Registered, PCs, BindPCs, SwitchPCs,
             RegisterPCs, ToPCs, UserPCs, RecPCs, ConnPCs
  <1>2. CASE t.pc = "connFree"
    BY <1>2 DEF OnError, GoodTask, Task, Holds, Registered, PCs, BindPCs, SwitchPCs,
             RegisterPCs, ToPCs, UserPCs, RecPCs, ConnPCs
  <1>3. CASE t.pc = "offline" /\ t.op # "browser"
    BY <1>3 DEF OnError, GoodTask, Task, Holds, Registered, PCs, BindPCs, SwitchPCs,
             RegisterPCs, ToPCs, UserPCs, RecPCs, ConnPCs
  <1>4. CASE ~GiveBack /\ t.pc # "connFree" /\ ~(t.pc = "offline" /\ t.op # "browser")
    <2>1. OnError(t) = IdleTask
      BY <1>4 DEF OnError
    <2>2. QED
      BY <2>1, IdleGood
  <1>5. QED
    BY <1>1, <1>2, <1>3, <1>4

\* What was read of a node does not matter for a task to be good.
LEMMA SetOnGood ==
  ASSUME NEW zset, NEW t, GoodTask(t, zset), NEW b \in BOOLEAN
  PROVE  GoodTask([t EXCEPT !.on = b], zset)
  BY DEF GoodTask, Task, Holds, Registered

\* Nor does the user, at a step that does not use it.
LEMMA SetUserGood ==
  ASSUME NEW zset, NEW t, GoodTask(t, zset), NEW v \in UserOrNone, t.pc \notin UserPCs
  PROVE  GoodTask([t EXCEPT !.u = v], zset)
  BY DEF GoodTask, Task, Holds, Registered

\* One goroutine takes a step to a good task and no node is unregistered: the
\* tasks stay good.
LEMMA TaskStep ==
  ASSUME task \in [Proc -> Task], TasksOK, nodeZset \subseteq nodeZset',
         NEW p \in Proc, NEW t, GoodTask(t, nodeZset'), Become(p, t)
  PROVE  task' \in [Proc -> Task] /\ TasksOK'
  <1>1. task' \in [Proc -> Task]
    BY DEF Become, GoodTask
  <1>2. ASSUME NEW q \in Proc PROVE GoodTask(task'[q], nodeZset')
    <2>1. CASE q = p
      BY <2>1 DEF Become
    <2>2. CASE q # p
      <3>1. task'[q] = task[q]
        BY <2>2 DEF Become
      <3>2. GoodTask(task[q], nodeZset)
        BY DEF TasksOK, GoodTask
      <3>3. QED
        BY <3>1, <3>2, GoodGrows
    <2>3. QED
      BY <2>1, <2>2
  <1>3. QED
    BY <1>1, <1>2 DEF TasksOK, GoodTask

\* The same of a write whose reply may be lost.
LEMMA WrittenStep ==
  ASSUME task \in [Proc -> Task], TasksOK, nodeZset \subseteq nodeZset',
         NEW p \in Proc, NEW t, GoodTask(t, nodeZset'), Written(p, t)
  PROVE  task' \in [Proc -> Task] /\ TasksOK'
  <1>1. GoodTask(task[p], nodeZset')
    BY GoodGrows DEF TasksOK, GoodTask
  <1>2. CASE Become(p, t)
    BY <1>2, TaskStep
  <1>3. CASE Become(p, OnError(task[p]))
    BY <1>1, <1>3, OnErrorGood, TaskStep
  <1>4. QED
    BY <1>2, <1>3 DEF Written
-----------------------------------------------------------------------------
(* The invariant IInv is preserved, one lemma per group of steps.           *)

\* A step that changes nothing but one goroutine's task.
LEMMA LocalStep ==
  ASSUME IInv, UNCHANGED <<redis, cacheVars, apiUp>>,
         NEW p \in Proc, NEW t, GoodTask(t, nodeZset), Become(p, t)
  PROVE  IInv'
  <1>1. nodeZset' = nodeZset
    BY DEF redis
  <1>2. task' \in [Proc -> Task] /\ TasksOK'
    BY <1>1, TaskStep DEF IInv, TypeOK
  <1>3. QED
    BY <1>2 DEF IInv, TypeOK, RouteRegistered, redis, cacheVars

\* The requests, up to their first answer from redis.
LEMMA RequestInv ==
  ASSUME IInv, NEW p \in Handler, Request(p)
  PROVE  IInv'
  <1> USE DEF GoodTask, IdleTask, Task, Holds, Registered, Ops, RequestKinds, PCs, BindPCs,
              SwitchPCs, RegisterPCs, ToPCs, UserPCs, RecPCs, ConnPCs, NodeOrNone, UserOrNone
  <1>0. p \in Proc
    BY DEF Proc
  <1>t. \A u \in User : user[u] # None => user[u] \in UserRec /\ user[u].route \in nodeZset
    BY DEF IInv, TypeOK, RouteRegistered
  <1>1. ASSUME NEW u \in User, NEW n \in NodeOrNone, CreateUser(p, u, n)
        PROVE  IInv'
    <2> DEFINE t == [IdleTask EXCEPT !.u = u, !.to = n,
                        !.op = IF n = None THEN "create" ELSE "createOn",
                        !.pc = IF n = None THEN "allocate" ELSE "checkRoute"]
    <2>1. GoodTask(t, nodeZset)
      OBVIOUS
    <2> HIDE DEF GoodTask, IdleTask
    <2>2. QED
      BY <1>0, <1>1, <2>1, LocalStep DEF CreateUser
  <1>2. ASSUME NEW u \in User, DeleteUser(p, u)
        PROVE  IInv'
    <2> DEFINE t == [IdleTask EXCEPT !.pc = "delUser", !.op = "delete", !.u = u, !.rec = user[u]]
    <2>1. GoodTask(t, nodeZset)
      BY <1>2, <1>t DEF DeleteUser
    <2> HIDE DEF GoodTask, IdleTask
    <2>2. QED
      BY <1>0, <1>2, <2>1, LocalStep DEF DeleteUser
  <1>3. ASSUME NEW u \in User, NEW n \in Node, ModifyUser(p, u, n)
        PROVE  IInv'
    <2> DEFINE t == [IdleTask EXCEPT !.pc = "checkRoute", !.op = "modify", !.u = u, !.to = n]
    <2>1. GoodTask(t, nodeZset)
      OBVIOUS
    <2> HIDE DEF GoodTask, IdleTask
    <2>2. QED
      BY <1>0, <1>3, <2>1, LocalStep DEF ModifyUser
  <1>4. ASSUME NEW u \in User, NEW n \in NodeOrNone, SwitchUserRouteNode(p, u, n)
        PROVE  IInv'
    <2> DEFINE t == [IdleTask EXCEPT !.u = u, !.to = n, !.rec = user[u],
                        !.op = IF n = None THEN "switch" ELSE "switchOn",
                        !.pc = IF n = None THEN "allocate" ELSE "checkNode"]
    <2>1. GoodTask(t, nodeZset)
      BY <1>4, <1>t DEF SwitchUserRouteNode
    <2> HIDE DEF GoodTask, IdleTask
    <2>2. QED
      BY <1>0, <1>4, <2>1, LocalStep DEF SwitchUserRouteNode
  <1>5. ASSUME NEW u \in User, NEW off \in BOOLEAN, StartOrStopUser(p, u, off)
        PROVE  IInv'
    <2> DEFINE t == [IdleTask EXCEPT !.pc = "saveUser", !.op = "save", !.u = u,
                                     !.rec = [user[u] EXCEPT !.off = off]]
    <2>1. [user[u] EXCEPT !.off = off] \in UserRec
      BY <1>5, <1>t DEF StartOrStopUser, UserRec
    <2>2. [user[u] EXCEPT !.off = off].route = user[u].route
      BY <1>5, <1>t DEF StartOrStopUser, UserRec
    <2>3. GoodTask(t, nodeZset)
      BY <1>5, <1>t, <2>1, <2>2 DEF StartOrStopUser
    <2> HIDE DEF GoodTask, IdleTask
    <2>4. QED
      BY <1>0, <1>5, <2>3, LocalStep DEF StartOrStopUser
  <1>6. QED
    BY <1>1, <1>2, <1>3, <1>4, <1>5 DEF Request, NodeOrNone
\* The steps that only read redis: checks, and the reads before a transaction.
LEMMA ReadInv ==
  ASSUME IInv, NEW p \in Proc,
         \/ CheckRoute(p)
         \/ GetUserToModify(p)
         \/ CheckNode(p)
         \/ CheckOnline(p)
         \/ BindRead(p)
         \/ BindOnline(p)
         \/ UnbindRead(p)
         \/ SwitchFrom(p)
         \/ SwitchTo(p)
         \/ ServeReturns(p)
         \/ OfflineGetNode(p)
         \/ SwithNodeForUser(p)
  PROVE  IInv'
  <1> USE DEF GoodTask, IdleTask, Task, Holds, Registered, Ops, RequestKinds, PCs, BindPCs,
              SwitchPCs, RegisterPCs, ToPCs, UserPCs, RecPCs, ConnPCs, NodeOrNone, UserOrNone
  <1>g. GoodTask(task[p], nodeZset)
    BY DEF IInv, TypeOK, TasksOK
  <1>e. GoodTask(OnError(task[p]), nodeZset)
    <2> HIDE DEF GoodTask
    <2>1. QED
      BY <1>g, OnErrorGood
  <1>t. /\ \A u \in User : user[u] # None => user[u] \in UserRec /\ user[u].route \in nodeZset
        /\ bindUser \in [Node -> UserOrNone]
    BY DEF IInv, TypeOK, RouteRegistered
  <1>1. CASE CheckRoute(p)
    <2> DEFINE t == [task[p] EXCEPT !.pc = IF task[p].op = "modify" THEN "getUser" ELSE "bindRead"]
    <2>a. task[p].pc = "checkRoute"
      BY <1>1 DEF CheckRoute, At
    <2>1. task[p].to \in nodeZset => GoodTask(t, nodeZset)
      BY <1>g, <2>a
    <2>2. GoodTask(IdleTask, nodeZset)
      OBVIOUS
    <2> HIDE DEF GoodTask, IdleTask
    <2>3. \/ Become(p, IdleTask)
          \/ task[p].to \in nodeZset /\ Become(p, t)
      BY <1>1 DEF CheckRoute
    <2>4. UNCHANGED <<redis, cacheVars, apiUp>>
      BY <1>1 DEF CheckRoute
    <2> HIDE DEF t
    <2>5. QED
      BY <2>1, <2>2, <2>3, <2>4, LocalStep
  <1>2. CASE GetUserToModify(p)
    <2> DEFINE t ==
          IF user[task[p].u] = None \/ user[task[p].u].route = task[p].to
           THEN IdleTask
           ELSE [task[p] EXCEPT !.pc = "switchFrom", !.rec = user[task[p].u]]
    <2>1. GoodTask(t, nodeZset)
      BY <1>g, <1>e, <1>t, <1>2 DEF GetUserToModify, At
    <2> HIDE DEF GoodTask, IdleTask
    <2>2. QED
      BY <1>2, <2>1, LocalStep DEF GetUserToModify
  <1>3. CASE CheckNode(p)
    <2> DEFINE t ==
          IF task[p].to \notin nodeZset \/ bindUser[task[p].to] # None THEN IdleTask
           ELSE [task[p] EXCEPT !.pc = "checkOnline"]
    <2>1. GoodTask(t, nodeZset)
      BY <1>g, <1>e, <1>t, <1>3 DEF CheckNode, At
    <2> HIDE DEF GoodTask, IdleTask
    <2>2. QED
      BY <1>3, <2>1, LocalStep DEF CheckNode
  <1>4. CASE CheckOnline(p)
    <2> DEFINE t ==
          IF task[p].to \in online THEN [task[p] EXCEPT !.pc = "switchFrom"] ELSE IdleTask
    <2>1. GoodTask(t, nodeZset)
      BY <1>g, <1>e, <1>t, <1>4 DEF CheckOnline, At
    <2> HIDE DEF GoodTask, IdleTask
    <2>2. QED
      BY <1>4, <2>1, LocalStep DEF CheckOnline, Goto, Return, Become
  <1>5. CASE BindRead(p)
    <2> DEFINE b == bindUser[task[p].to] # None
           t ==
          IF task[p].to \notin nodeZset THEN IdleTask
           ELSE [task[p] EXCEPT !.pc = "bindOnline", !.bound = b]
    <2>0. b \in BOOLEAN
      OBVIOUS
    <2> HIDE DEF b
    <2>1. GoodTask(t, nodeZset)
      BY <2>0, <1>g, <1>e, <1>t, <1>5, ZenonT(60) DEF BindRead, At
    <2> USE DEF b
    <2> HIDE DEF GoodTask, IdleTask
    <2>2. QED
      BY <1>5, <2>1, LocalStep DEF BindRead
  <1>6. CASE BindOnline(p)
    <2> DEFINE b == task[p].to \in online
           t ==
          IF ~task[p].bound THEN [task[p] EXCEPT !.pc = "bindTx", !.on = b]
           ELSE IF b THEN [task[p] EXCEPT !.pc = "addFree"]
           ELSE IdleTask
    <2>a. task[p].pc = "bindOnline"
      BY <1>6 DEF BindOnline, At
    <2>0. b \in BOOLEAN
      OBVIOUS
    <2> HIDE DEF b
    <2>1. GoodTask(t, nodeZset)
      <3>0. GoodTask([task[p] EXCEPT !.pc = "bindTx"], nodeZset)
        BY <1>g, <2>a
      <3>1. GoodTask([task[p] EXCEPT !.pc = "bindTx", !.on = b], nodeZset)
        <4> HIDE DEF GoodTask
        <4>1. QED
          BY <2>0, <3>0, SetOnGood
      <3>2. GoodTask([task[p] EXCEPT !.pc = "addFree"], nodeZset)
        BY <1>g, <2>a
      <3>3. GoodTask(IdleTask, nodeZset)
        OBVIOUS
      <3> HIDE DEF GoodTask, IdleTask
      <3>4. QED
        BY <3>1, <3>2, <3>3
    <2> USE DEF b
    <2> HIDE DEF GoodTask, IdleTask
    <2>2. QED
      BY <1>6, <2>1, LocalStep DEF BindOnline
  <1>7. CASE UnbindRead(p)
    <2> DEFINE b == task[p].rec.route \in online
           t ==
          IF task[p].rec.route \notin nodeZset THEN IdleTask
           ELSE [task[p] EXCEPT !.pc = "unbindTx", !.on = b]
    <2>0. b \in BOOLEAN
      OBVIOUS
    <2> HIDE DEF b
    <2>1. GoodTask(t, nodeZset)
      BY <2>0, <1>g, <1>e, <1>t, <1>7 DEF UnbindRead, At
    <2> USE DEF b
    <2> HIDE DEF GoodTask, IdleTask
    <2>2. QED
      BY <1>7, <2>1, LocalStep DEF UnbindRead
  <1>8. CASE SwitchFrom(p)
    <2> DEFINE b == task[p].rec.route \in online
           t ==
          IF task[p].rec.route \notin nodeZset THEN OnError(task[p])
           ELSE [task[p] EXCEPT !.pc = "switchTo", !.on = b]
    <2>a. task[p].pc = "switchFrom"
      BY <1>8 DEF SwitchFrom, At
    <2>0. b \in BOOLEAN
      OBVIOUS
    <2> HIDE DEF b
    <2>1. GoodTask(t, nodeZset)
      <3>0. GoodTask([task[p] EXCEPT !.pc = "switchTo"], nodeZset)
        BY <1>g, <2>a
      <3> HIDE DEF GoodTask
      <3>1. GoodTask([task[p] EXCEPT !.pc = "switchTo", !.on = b], nodeZset)
        BY <2>0, <3>0, SetOnGood
      <3>2. QED
        BY <3>1, <1>e
    <2> USE DEF b
    <2> HIDE DEF GoodTask, IdleTask
    <2>2. QED
      BY <1>8, <2>1, LocalStep DEF SwitchFrom
  <1>9. CASE SwitchTo(p)
    <2> DEFINE t ==
          IF task[p].to \notin nodeZset \/ bindUser[task[p].to] # None THEN OnError(task[p])
           ELSE [task[p] EXCEPT !.pc = "switchTx"]
    <2>1. GoodTask(t, nodeZset)
      BY <1>g, <1>e, <1>t, <1>9 DEF SwitchTo, At
    <2> HIDE DEF GoodTask, IdleTask
    <2>2. QED
      BY <1>9, <2>1, LocalStep DEF SwitchTo
  <1>10. CASE ServeReturns(p)
    <2> DEFINE t ==
          [task[p] EXCEPT !.pc = "offline"]
    <2>1. GoodTask(t, nodeZset)
      BY <1>g, <1>e, <1>t, <1>10 DEF ServeReturns, At
    <2> HIDE DEF GoodTask, IdleTask
    <2>2. QED
      BY <1>10, <2>1, LocalStep DEF ServeReturns, Goto, Become
  <1>11. CASE OfflineGetNode(p)
    <2> DEFINE t ==
          IF bindUser[task[p].n] = None THEN [task[p] EXCEPT !.u = None, !.pc = "removeFree"]
           ELSE [task[p] EXCEPT !.u = bindUser[task[p].n], !.pc = "offUser"]
    <2>a. task[p].pc = "offGet"
      BY <1>11 DEF OfflineGetNode, At
    <2>b. task[p].n \in Node /\ bindUser[task[p].n] \in UserOrNone
      BY <1>g, <1>t, <2>a
    <2>1. GoodTask(t, nodeZset)
      <3> DEFINE v == bindUser[task[p].n]
                 s == [task[p] EXCEPT !.u = v]
      <3>1. task[p].pc \notin UserPCs
        BY <2>a
      <3>2. GoodTask(s, nodeZset)
        <4> HIDE DEF GoodTask
        <4>1. QED
          BY <1>g, <2>b, <3>1, SetUserGood
      <3>3. s.pc = "offGet" /\ s.u = v
        BY <1>g, <2>a
      <3> HIDE DEF s
      <3>4. GoodTask([s EXCEPT !.pc = "removeFree"], nodeZset)
        BY <3>2, <3>3
      <3>5. v # None => GoodTask([s EXCEPT !.pc = "offUser"], nodeZset)
        BY <3>2, <3>3, <2>b
      <3> HIDE DEF GoodTask
      <3>6. QED
        BY <3>4, <3>5 DEF s
    <2> HIDE DEF GoodTask, IdleTask
    <2>2. QED
      BY <1>11, <2>1, LocalStep DEF OfflineGetNode
  <1>12. CASE SwithNodeForUser(p)
    <2> DEFINE t ==
          IF user[task[p].u] = None THEN IdleTask
           ELSE [task[p] EXCEPT !.pc = "allocate", !.rec = user[task[p].u]]
    <2>1. GoodTask(t, nodeZset)
      BY <1>g, <1>e, <1>t, <1>12 DEF SwithNodeForUser, At
    <2> HIDE DEF GoodTask, IdleTask
    <2>2. QED
      BY <1>12, <2>1, LocalStep DEF SwithNodeForUser
  <1>13. QED
    BY <1>1, <1>2, <1>3, <1>4, <1>5, <1>6, <1>7, <1>8, <1>9, <1>10, <1>11, <1>12
\* The steps that write redis or the cache.
LEMMA WriteInv ==
  ASSUME IInv, NEW p \in Proc,
         \/ AllocateFreeNode(p)
         \/ AddFreeNode(p)
         \/ BindNodeWithNewUser(p)
         \/ DelUser(p)
         \/ ZremUser(p)
         \/ UnbindNode(p)
         \/ SwitchNodeByUser(p)
         \/ SaveUser(p)
         \/ DeleteUserCache(p)
         \/ SetNodeAndZadd(p)
         \/ SetNodeOnline(p)
         \/ AddFreeOnAccept(p)
         \/ SetNodeOffline(p)
         \/ RemoveFreeNode(p)
  PROVE  IInv'
  <1>g. GoodTask(task[p], nodeZset) /\ task \in [Proc -> Task] /\ TasksOK
    BY DEF IInv, TypeOK, TasksOK, GoodTask
  <1> USE DEF IInv, TypeOK, RouteRegistered, redis, nodeTables, cacheVars
  <1>1. CASE AllocateFreeNode(p)
    <2>1. CASE Return(p)
      BY <1>g, <1>1, <2>1, IdleGood, TaskStep DEF AllocateFreeNode, Return, Become
    <2>2. ASSUME NEW n \in nodeFree,
                 Written(p, [task[p] EXCEPT !.to = n,
                   !.pc = IF task[p].op = "create" THEN "bindRead" ELSE "switchFrom"])
          PROVE  IInv'
      <3> DEFINE t == [task[p] EXCEPT !.to = n,
                   !.pc = IF task[p].op = "create" THEN "bindRead" ELSE "switchFrom"]
      <3>1. task[p].pc = "allocate"
        BY <1>1 DEF AllocateFreeNode, At
      <3>2. GoodTask(t, nodeZset)
        BY <1>g, <3>1, ZenonT(60) DEF GoodTask, Task, Holds, Registered, PCs, BindPCs,
               SwitchPCs, RegisterPCs, ToPCs, UserPCs, RecPCs, ConnPCs, NodeOrNone, UserOrNone
      <3>3. nodeZset' = nodeZset
        BY <1>1 DEF AllocateFreeNode
      <3>4. task' \in [Proc -> Task] /\ TasksOK'
        BY <1>g, <2>2, <3>2, <3>3, WrittenStep
      <3>5. QED
        BY <1>1, <3>3, <3>4 DEF AllocateFreeNode
    <2>3. QED
      BY <1>1, <2>1, <2>2 DEF AllocateFreeNode
  <1>2. CASE AddFreeNode(p)
    <2>1. task[p].pc = "addFree"
      BY <1>2 DEF AddFreeNode, At
    <2>2. task[p].to \in nodeZset /\ task[p].to \in Node
      BY <1>g, <2>1 DEF GoodTask, Task, Holds, Registered, PCs, BindPCs,
             SwitchPCs, RegisterPCs, ToPCs, UserPCs, RecPCs, ConnPCs, NodeOrNone, UserOrNone
    <2>z. nodeZset' = nodeZset
      BY <1>2 DEF AddFreeNode
    <2>3. GoodTask(IdleTask, nodeZset')
      BY IdleGood
    <2>4. task' \in [Proc -> Task] /\ TasksOK'
      BY <1>g, <1>2, <2>z, <2>3, TaskStep DEF AddFreeNode, Return, Become
    <2>5. QED
      BY <1>2, <2>2, <2>4, <2>z DEF AddFreeNode, UserRec, NodeOrNone, UserOrNone
  <1>3. CASE BindNodeWithNewUser(p)
    <2>1. task[p].pc = "bindTx"
      BY <1>3 DEF BindNodeWithNewUser, At
    <2>2. task[p].to \in nodeZset /\ task[p].to \in Node /\ task[p].u \in User
      BY <1>g, <2>1 DEF GoodTask, Task, Holds, Registered, PCs, BindPCs,
             SwitchPCs, RegisterPCs, ToPCs, UserPCs, RecPCs, ConnPCs, NodeOrNone, UserOrNone
    <2>z. nodeZset' = nodeZset
      BY <1>3 DEF BindNodeWithNewUser
    <2>3. GoodTask(IdleTask, nodeZset')
      BY IdleGood
    <2>4. task' \in [Proc -> Task] /\ TasksOK'
      BY <1>g, <1>3, <2>z, <2>3, WrittenStep DEF BindNodeWithNewUser
    <2>5. QED
      BY <1>3, <2>2, <2>4, <2>z DEF BindNodeWithNewUser, UserRec, NodeOrNone, UserOrNone
  <1>4. CASE DelUser(p)
    <2>1. task[p].pc = "delUser"
      BY <1>4 DEF DelUser, At
    <2>2. task[p].u \in User
      BY <1>g, <2>1 DEF GoodTask, Task, Holds, Registered, PCs, BindPCs,
             SwitchPCs, RegisterPCs, ToPCs, UserPCs, RecPCs, ConnPCs, NodeOrNone, UserOrNone
    <2>z. nodeZset' = nodeZset
      BY <1>4 DEF DelUser
    <2> DEFINE t == [task[p] EXCEPT !.pc = "zremUser"]
    <2>3. GoodTask(t, nodeZset')
      BY <1>g, <1>4, <2>1, <2>2, <2>z DEF GoodTask, Task, Holds, Registered, PCs, BindPCs,
             SwitchPCs, RegisterPCs, ToPCs, UserPCs, RecPCs, ConnPCs, NodeOrNone, UserOrNone
    <2>4. task' \in [Proc -> Task] /\ TasksOK'
      BY <1>g, <1>4, <2>z, <2>3, WrittenStep DEF DelUser
    <2>5. QED
      BY <1>4, <2>2, <2>4, <2>z DEF DelUser, UserRec, NodeOrNone, UserOrNone
  <1>5. CASE ZremUser(p)
    <2>1. task[p].pc = "zremUser"
      BY <1>5 DEF ZremUser, At
    <2>2. task[p].u \in User
      BY <1>g, <2>1 DEF GoodTask, Task, Holds, Registered, PCs, BindPCs,
             SwitchPCs, RegisterPCs, ToPCs, UserPCs, RecPCs, ConnPCs, NodeOrNone, UserOrNone
    <2>z. nodeZset' = nodeZset
      BY <1>5 DEF ZremUser
    <2> DEFINE t == [task[p] EXCEPT !.pc = "unbindRead"]
    <2>3. GoodTask(t, nodeZset')
      BY <1>g, <1>5, <2>1, <2>2, <2>z DEF GoodTask, Task, Holds, Registered, PCs, BindPCs,
             SwitchPCs, RegisterPCs, ToPCs, UserPCs, RecPCs, ConnPCs, NodeOrNone, UserOrNone
    <2>4. task' \in [Proc -> Task] /\ TasksOK'
      BY <1>g, <1>5, <2>z, <2>3, WrittenStep DEF ZremUser
    <2>5. QED
      BY <1>5, <2>2, <2>4, <2>z DEF ZremUser, UserRec, NodeOrNone, UserOrNone
  <1>6. CASE UnbindNode(p)
    <2>1. task[p].pc = "unbindTx"
      BY <1>6 DEF UnbindNode, At
    <2>2. task[p].rec \in UserRec /\ task[p].rec.route \in nodeZset
      BY <1>g, <2>1 DEF GoodTask, Task, Holds, Registered, PCs, BindPCs,
             SwitchPCs, RegisterPCs, ToPCs, UserPCs, RecPCs, ConnPCs, NodeOrNone, UserOrNone
    <2>z. nodeZset' = nodeZset
      BY <1>6 DEF UnbindNode
    <2> DEFINE t == [task[p] EXCEPT !.pc = "dropCache"]
    <2>3. GoodTask(t, nodeZset')
      BY <1>g, <1>6, <2>1, <2>2, <2>z DEF GoodTask, Task, Holds, Registered, PCs, BindPCs,
             SwitchPCs, RegisterPCs, ToPCs, UserPCs, RecPCs, ConnPCs, NodeOrNone, UserOrNone
    <2>4. task' \in [Proc -> Task] /\ TasksOK'
      BY <1>g, <1>6, <2>z, <2>3, WrittenStep DEF UnbindNode
    <2>5. QED
      BY <1>6, <2>2, <2>4, <2>z DEF UnbindNode, UserRec, NodeOrNone, UserOrNone
  <1>7. CASE SwitchNodeByUser(p)
    <2>1. task[p].pc = "switchTx"
      BY <1>7 DEF SwitchNodeByUser, At
    <2>2. /\ task[p].rec \in UserRec /\ task[p].rec.route \in nodeZset
          /\ task[p].to \in nodeZset /\ task[p].to \in Node /\ task[p].u \in User
      BY <1>g, <2>1 DEF GoodTask, Task, Holds, Registered, PCs, BindPCs,
             SwitchPCs, RegisterPCs, ToPCs, UserPCs, RecPCs, ConnPCs, NodeOrNone, UserOrNone
    <2>z. nodeZset' = nodeZset
      BY <1>7 DEF SwitchNodeByUser
    <2> DEFINE t == [task[p] EXCEPT !.pc = "dropCache"]
    <2>3. GoodTask(t, nodeZset')
      BY <1>g, <1>7, <2>1, <2>2, <2>z DEF GoodTask, Task, Holds, Registered, PCs, BindPCs,
             SwitchPCs, RegisterPCs, ToPCs, UserPCs, RecPCs, ConnPCs, NodeOrNone, UserOrNone
    <2>4. task' \in [Proc -> Task] /\ TasksOK'
      BY <1>g, <1>7, <2>z, <2>3, WrittenStep DEF SwitchNodeByUser
    <2>5. QED
      BY <1>7, <2>2, <2>4, <2>z DEF SwitchNodeByUser, UserRec, NodeOrNone, UserOrNone
  <1>8. CASE SaveUser(p)
    <2>1. task[p].pc = "saveUser"
      BY <1>8 DEF SaveUser, At
    <2>2. task[p].rec \in UserRec /\ task[p].rec.route \in nodeZset /\ task[p].u \in User
      BY <1>g, <2>1 DEF GoodTask, Task, Holds, Registered, PCs, BindPCs,
             SwitchPCs, RegisterPCs, ToPCs, UserPCs, RecPCs, ConnPCs, NodeOrNone, UserOrNone
    <2>z. nodeZset' = nodeZset
      BY <1>8 DEF SaveUser
    <2> DEFINE t == IF task[p].op = "traffic" THEN IdleTask ELSE [task[p] EXCEPT !.pc = "dropCache"]
    <2>3. GoodTask(t, nodeZset')
      BY <1>g, <1>8, <2>1, <2>2, <2>z, IdleGood DEF GoodTask, Task, Holds, Registered, PCs, BindPCs,
             SwitchPCs, RegisterPCs, ToPCs, UserPCs, RecPCs, ConnPCs, NodeOrNone, UserOrNone
    <2>4. task' \in [Proc -> Task] /\ TasksOK'
      BY <1>g, <1>8, <2>z, <2>3, WrittenStep DEF SaveUser
    <2>5. QED
      BY <1>8, <2>2, <2>4, <2>z DEF SaveUser, UserRec, NodeOrNone, UserOrNone
  <1>9. CASE DeleteUserCache(p)
    <2>1. task[p].pc = "dropCache"
      BY <1>9 DEF DeleteUserCache, At
    <2>2. task[p].u \in User
      BY <1>g, <2>1 DEF GoodTask, Task, Holds, Registered, PCs, BindPCs,
             SwitchPCs, RegisterPCs, ToPCs, UserPCs, RecPCs, ConnPCs, NodeOrNone, UserOrNone
    <2>z. nodeZset' = nodeZset
      BY <1>9 DEF DeleteUserCache
    <2>3. GoodTask(IdleTask, nodeZset')
      BY IdleGood
    <2>4. task' \in [Proc -> Task] /\ TasksOK'
      BY <1>g, <1>9, <2>z, <2>3, TaskStep DEF DeleteUserCache, Return, Become
    <2>5. QED
      BY <1>9, <2>2, <2>4, <2>z DEF DeleteUserCache, UserRec, NodeOrNone, UserOrNone
  <1>10. CASE SetNodeAndZadd(p)
    <2>1. task[p].pc = "register"
      BY <1>10 DEF SetNodeAndZadd, At
    <2>2. task[p].n \in Node /\ task[p].u \in UserOrNone
      BY <1>g, <2>1 DEF GoodTask, Task, Holds, Registered, PCs, BindPCs,
             SwitchPCs, RegisterPCs, ToPCs, UserPCs, RecPCs, ConnPCs, NodeOrNone, UserOrNone
    <2>z. nodeZset \subseteq nodeZset'
      BY <1>10 DEF SetNodeAndZadd
    <2> DEFINE t == [task[p] EXCEPT !.pc = "setOnline"]
    <2>3. GoodTask(t, nodeZset')
      BY <1>g, <1>10, <2>1, <2>2, <2>z DEF SetNodeAndZadd, GoodTask, Task, Holds, Registered, PCs, BindPCs,
             SwitchPCs, RegisterPCs, ToPCs, UserPCs, RecPCs, ConnPCs, NodeOrNone, UserOrNone
    <2>4. task' \in [Proc -> Task] /\ TasksOK'
      BY <1>g, <1>10, <2>z, <2>3, WrittenStep DEF SetNodeAndZadd
    <2>5. QED
      BY <1>10, <2>2, <2>4, <2>z DEF SetNodeAndZadd, UserRec, NodeOrNone, UserOrNone
  <1>11. CASE SetNodeOnline(p)
    <2>1. task[p].pc = "setOnline"
      BY <1>11 DEF SetNodeOnline, At
    <2>2. task[p].n \in Node /\ task[p].n \in nodeZset
      BY <1>g, <2>1 DEF GoodTask, Task, Holds, Registered, PCs, BindPCs,
             SwitchPCs, RegisterPCs, ToPCs, UserPCs, RecPCs, ConnPCs, NodeOrNone, UserOrNone
    <2> DEFINE s == [task[p] EXCEPT !.u = None]
               t == [s EXCEPT !.pc = IF task[p].u = None THEN "connFree" ELSE "serve"]
    <2>3. GoodTask(t, nodeZset)
      <3>1. GoodTask(s, nodeZset) /\ s.pc = "setOnline"
        <4>1. task[p].pc \notin UserPCs
          BY <2>1 DEF UserPCs, BindPCs, SwitchPCs
        <4>2. QED
          BY <1>g, <2>1, <4>1, SetUserGood DEF UserOrNone, GoodTask, Task
      <3> HIDE DEF s
      <3>2. QED
        BY <3>1 DEF GoodTask, Task, Holds, Registered, PCs, BindPCs,
               SwitchPCs, RegisterPCs, ToPCs, UserPCs, RecPCs, ConnPCs, NodeOrNone, UserOrNone
    <2>4. task' \in [Proc -> Task] /\ TasksOK' /\ nodeZset' = nodeZset
      BY <1>g, <1>11, <2>3, WrittenStep DEF SetNodeOnline
    <2>5. QED
      BY <1>11, <2>2, <2>4 DEF SetNodeOnline, UserRec, NodeOrNone, UserOrNone
  <1>12. CASE AddFreeOnAccept(p)
    <2>1. task[p].pc = "connFree"
      BY <1>12 DEF AddFreeOnAccept, At
    <2>2. task[p].n \in Node /\ task[p].n \in nodeZset
      BY <1>g, <2>1 DEF GoodTask, Task, Holds, Registered, PCs, BindPCs,
             SwitchPCs, RegisterPCs, ToPCs, UserPCs, RecPCs, ConnPCs, NodeOrNone, UserOrNone
    <2>z. nodeZset' = nodeZset
      BY <1>12 DEF AddFreeOnAccept
    <2> DEFINE t == [task[p] EXCEPT !.pc = "serve"]
    <2>3. GoodTask(t, nodeZset')
      BY <1>g, <1>12, <2>1, <2>2, <2>z DEF GoodTask, Task, Holds, Registered, PCs, BindPCs,
             SwitchPCs, RegisterPCs, ToPCs, UserPCs, RecPCs, ConnPCs, NodeOrNone, UserOrNone
    <2>4. task' \in [Proc -> Task] /\ TasksOK'
      BY <1>g, <1>12, <2>z, <2>3, TaskStep DEF AddFreeOnAccept, Goto, Become
    <2>5. QED
      BY <1>12, <2>2, <2>4, <2>z DEF AddFreeOnAccept, UserRec, NodeOrNone, UserOrNone
  <1>13. CASE SetNodeOffline(p)
    <2>1. task[p].pc = "offline"
      BY <1>13 DEF SetNodeOffline, At
    <2>2. task[p].n \in Node
      BY <1>g, <2>1 DEF GoodTask, Task, Holds, Registered, PCs, BindPCs,
             SwitchPCs, RegisterPCs, ToPCs, UserPCs, RecPCs, ConnPCs, NodeOrNone, UserOrNone
    <2>z. nodeZset' = nodeZset
      BY <1>13 DEF SetNodeOffline
    <2> DEFINE t == IF task[p].op = "browser" THEN IdleTask ELSE [task[p] EXCEPT !.pc = "offGet"]
    <2>3. GoodTask(t, nodeZset')
      BY IdleGood, <1>g, <1>13, <2>1, <2>2, <2>z DEF GoodTask, Task, Holds, Registered, PCs, BindPCs,
             SwitchPCs, RegisterPCs, ToPCs, UserPCs, RecPCs, ConnPCs, NodeOrNone, UserOrNone
    <2>4. task' \in [Proc -> Task] /\ TasksOK'
      BY <1>g, <1>13, <2>z, <2>3, TaskStep DEF SetNodeOffline, Goto, Return, Become
    <2>5. QED
      BY <1>13, <2>2, <2>4, <2>z DEF SetNodeOffline, UserRec, NodeOrNone, UserOrNone
  <1>14. CASE RemoveFreeNode(p)
    <2>1. task[p].pc = "removeFree"
      BY <1>14 DEF RemoveFreeNode, At
    <2>2. task[p].n \in Node
      BY <1>g, <2>1 DEF GoodTask, Task, Holds, Registered, PCs, BindPCs,
             SwitchPCs, RegisterPCs, ToPCs, UserPCs, RecPCs, ConnPCs, NodeOrNone, UserOrNone
    <2>z. nodeZset' = nodeZset
      BY <1>14 DEF RemoveFreeNode
    <2>3. GoodTask(IdleTask, nodeZset')
      BY IdleGood
    <2>4. task' \in [Proc -> Task] /\ TasksOK'
      BY <1>g, <1>14, <2>z, <2>3, TaskStep DEF RemoveFreeNode, Return, Become
    <2>5. QED
      BY <1>14, <2>2, <2>4, <2>z DEF RemoveFreeNode, UserRec, NodeOrNone, UserOrNone
  <1>15. QED
    BY <1>1, <1>2, <1>3, <1>4, <1>5, <1>6, <1>7, <1>8, <1>9, <1>10, <1>11, <1>12, <1>13, <1>14
\* What an api goroutine starts with: a websocket is accepted, the timer fires.
LEMMA ConnStartInv ==
  ASSUME IInv, NEW c \in Conn
  PROVE  /\ \A n \in Node : ServeWS(c, n) \/ ServeBrowser(c, n) => IInv'
         /\ \A u \in User : TrafficTimer(c, u) => IInv'
  <1>0. c \in Proc
    BY DEF Proc
  <1>t. /\ \A u \in User : user[u] # None => user[u] \in UserRec /\ user[u].route \in nodeZset
        /\ bindUser \in [Node -> UserOrNone]
    BY DEF IInv, TypeOK, RouteRegistered
  <1>1. ASSUME NEW n \in Node, ServeWS(c, n) \/ ServeBrowser(c, n)
        PROVE  IInv'
    <2> DEFINE t(op) == [IdleTask EXCEPT !.pc = "register", !.op = op, !.n = n, !.u = bindUser[n]]
    <2>1. ASSUME NEW op \in {"conn", "browser"} PROVE GoodTask(t(op), nodeZset)
      BY <1>t DEF GoodTask, IdleTask, Task, Holds, Registered, Ops, RequestKinds, PCs, BindPCs,
             SwitchPCs, RegisterPCs, ToPCs, UserPCs, RecPCs, ConnPCs, NodeOrNone, UserOrNone
    <2>2. QED
      BY <1>0, <1>1, <2>1, LocalStep DEF ServeWS, ServeBrowser
  <1>2. ASSUME NEW u \in User, TrafficTimer(c, u)
        PROVE  IInv'
    <2> DEFINE t == [IdleTask EXCEPT !.pc = "saveUser", !.op = "traffic", !.u = u, !.rec = user[u]]
    <2>1. GoodTask(t, nodeZset)
      BY <1>t, <1>2 DEF TrafficTimer, GoodTask, IdleTask, Task, Holds, Registered, Ops, RequestKinds, PCs, BindPCs,
             SwitchPCs, RegisterPCs, ToPCs, UserPCs, RecPCs, ConnPCs, NodeOrNone, UserOrNone
    <2>2. QED
      BY <1>0, <1>2, <2>1, LocalStep DEF TrafficTimer
  <1>3. QED
    BY <1>1, <1>2

\* Failed calls, crashes and restarts, and the user cache.
LEMMA OtherInv ==
  ASSUME IInv,
         \/ \E p \in Proc : CallFails(p)
         \/ \E u \in User : CacheMiss(u)
         \/ CacheSet \/ RpcCrash \/ ApiCrash \/ OnlineExpires \/ FreeExpires \/ NewTunnelManager
  PROVE  IInv'
  <1>g. \A p \in Proc : GoodTask(task[p], nodeZset)
    BY DEF IInv, TypeOK, TasksOK, GoodTask
  <1> USE DEF IInv, TypeOK, RouteRegistered, redis, nodeTables, cacheVars
  <1>1. ASSUME NEW p \in Proc, CallFails(p)
        PROVE  IInv'
    <2>1. GoodTask(OnError(task[p]), nodeZset)
      BY <1>g, OnErrorGood
    <2> HIDE DEF IInv, redis, cacheVars
    <2>2. QED
      BY <1>1, <2>1, LocalStep DEF CallFails
  <1>2. ASSUME NEW u \in User, CacheMiss(u)
        PROVE  IInv'
    <2>1. user[u] \in UserRec
      BY <1>2 DEF CacheMiss
    <2>2. TasksOK'
      BY <1>2 DEF CacheMiss, TasksOK
    <2>3. QED
      BY <1>2, <2>1, <2>2 DEF CacheMiss, UserRec
  <1>3. CASE CacheSet
    <2>1. fill \in [u : User, route : Node] /\ TasksOK'
      BY <1>3 DEF CacheSet, TasksOK
    <2>2. QED
      BY <1>3, <2>1 DEF CacheSet, NodeOrNone
  <1>4. ASSUME NEW S, task' = [p \in Proc |-> IF p \in S THEN IdleTask ELSE task[p]],
               nodeZset' = nodeZset
        PROVE  task' \in [Proc -> Task] /\ TasksOK'
    <2>1. \A p \in Proc : GoodTask(task'[p], nodeZset')
      BY <1>g, <1>4, IdleGood
    <2>2. QED
      BY <1>4, <2>1, IdleGood DEF GoodTask, TasksOK
  <1>5. CASE RpcCrash
    <2>1. task' \in [Proc -> Task] /\ TasksOK'
      BY <1>4, <1>5 DEF RpcCrash
    <2>2. QED
      BY <1>5, <2>1 DEF RpcCrash
  <1>6. CASE ApiCrash
    <2>1. task' \in [Proc -> Task] /\ TasksOK'
      BY <1>4, <1>6 DEF ApiCrash
    <2>2. QED
      BY <1>6, <2>1 DEF ApiCrash, NodeOrNone
  <1>7. CASE OnlineExpires \/ FreeExpires
    BY <1>7 DEF OnlineExpires, FreeExpires, TasksOK
  <1>8. CASE NewTunnelManager
    BY <1>8 DEF NewTunnelManager, TasksOK
  <1>9. QED
    BY <1>1, <1>2, <1>3, <1>5, <1>6, <1>7, <1>8

-----------------------------------------------------------------------------
(* The theorems.                                                            *)

LEMMA InitInv == Init => IInv
  <1>1. GoodTask(IdleTask, {})
    BY IdleGood
  <1>2. QED
    BY <1>1 DEF Init, IInv, TypeOK, RouteRegistered, TasksOK, GoodTask, UserOrNone, NodeOrNone

LEMMA NextInv == IInv /\ [Next]_vars => IInv'
  <1> SUFFICES ASSUME IInv, [Next]_vars PROVE IInv'
    OBVIOUS
  <1>1. CASE UNCHANGED vars
    BY <1>1 DEF vars, redis, cacheVars, IInv, TypeOK, RouteRegistered, TasksOK
  <1>2. ASSUME NEW p \in Handler, HandlerStep(p)
        PROVE  IInv'
    <2>1. p \in Proc
      BY DEF Proc
    <2>2. QED
      BY <1>2, <2>1, RequestInv, ReadInv, WriteInv, OtherInv DEF HandlerStep, Shared
  <1>3. ASSUME NEW c \in Conn, ConnStep(c)
        PROVE  IInv'
    <2>1. c \in Proc
      BY DEF Proc
    <2>2. QED
      BY <1>3, <2>1, ConnStartInv, ReadInv, WriteInv, OtherInv DEF ConnStep, Shared
  <1>4. \A u \in Dialers : u \in User
    BY EnvAssumption
  <1>5. QED
    BY <1>1, <1>2, <1>3, <1>4, OtherInv DEF Next

\* Every variable keeps its type, a user's route and every allocatable node are
\* registered nodes, and so is every node a goroutine carries past its check:
\* for any number of goroutines, in any interleaving, with any faults.
THEOREM Inductive == Spec => []IInv
  <1>1. QED
    BY InitInv, NextInv, PTL DEF Spec

\* The type invariant.
THEOREM TypeCorrect == Spec => []TypeOK
  <1>1. IInv => TypeOK
    BY DEF IInv
  <1>2. QED
    BY <1>1, Inductive, PTL

\* Both, of which the next theorem says more.
THEOREM RoutesInvariant == Spec => []RoutesInv
  <1>1. IInv => RoutesInv
    BY DEF IInv, RoutesInv
  <1>2. QED
    BY <1>1, Inductive, PTL

\* A stored user is never routed to a node that does not exist (CreateUser,
\* SwitchNodeByUser and their error paths, SaveUser of a stale copy).
THEOREM RoutesAreRegistered == Spec => []RouteRegistered
  <1>1. IInv => RouteRegistered
    BY DEF IInv
  <1>2. QED
    BY <1>1, Inductive, PTL

-----------------------------------------------------------------------------
(* BindingConflicts.                                                        *)
(*                                                                          *)
(* The steps of a goroutine, in groups.                                     *)

\* Reads and checks: redis and the cache stay as they are.
Reads(p) ==
    \/ CheckRoute(p) \/ GetUserToModify(p) \/ CheckNode(p) \/ CheckOnline(p)
    \/ BindRead(p) \/ BindOnline(p) \/ UnbindRead(p)
    \/ SwitchFrom(p) \/ SwitchTo(p)

\* Writes of the tables of users.
UserWrites(p) ==
    \/ BindNodeWithNewUser(p) \/ DelUser(p) \/ ZremUser(p)
    \/ SwitchNodeByUser(p) \/ SaveUser(p)

\* Steps of a node's websocket.
ConnMoves(c) ==
    \/ SetNodeAndZadd(c) \/ SetNodeOnline(c) \/ AddFreeOnAccept(c) \/ ServeReturns(c)
    \/ SetNodeOffline(c) \/ OfflineGetNode(c) \/ RemoveFreeNode(c) \/ SwithNodeForUser(c)

\* What a goroutine begins with.
Starts(p) ==
    \/ p \in Handler /\ Request(p)
    \/ p \in Conn /\ \E u \in User : TrafficTimer(p, u)
    \/ p \in Conn /\ \E n \in Node : ServeWS(p, n) \/ ServeBrowser(p, n)

Step(p) ==
    \/ Starts(p) \/ Reads(p) \/ UserWrites(p) \/ UnbindNode(p)
    \/ AllocateFreeNode(p) \/ AddFreeNode(p) \/ DeleteUserCache(p)
    \/ p \in Conn /\ ConnMoves(p)
    \/ CallFails(p)

\* What is left of Next.
CacheOrCrash ==
    \/ \E u \in User : CacheMiss(u)
    \/ CacheSet \/ RpcCrash \/ ApiCrash \/ OnlineExpires \/ FreeExpires \/ NewTunnelManager

LEMMA NextIsStep == Next => (\E p \in Proc : Step(p)) \/ CacheOrCrash
  <1>1. ASSUME NEW p \in Handler, HandlerStep(p)
        PROVE  p \in Proc /\ Step(p)
    BY <1>1 DEF HandlerStep, Shared, Proc, Step, Starts, Reads, UserWrites
  <1>2. ASSUME NEW c \in Conn, ConnStep(c)
        PROVE  c \in Proc /\ Step(c)
    BY <1>2 DEF ConnStep, Shared, Proc, Step, Starts, Reads, UserWrites, ConnMoves
  <1>3. \A u \in Dialers : u \in User
    BY EnvAssumption
  <1>4. QED
    BY <1>1, <1>2, <1>3 DEF Next, CacheOrCrash

\* A goroutine's step leaves the tasks of the others alone.
LEMMA OthersStay ==
  ASSUME NEW p \in Proc, Step(p), task \in [Proc -> Task]
  PROVE  \A q \in Proc : q # p => task'[q] = task[q]
  <1>1. ASSUME NEW t, Become(p, t) PROVE \A q \in Proc : q # p => task'[q] = task[q]
    BY <1>1 DEF Become
  <1>2. ASSUME NEW t, Written(p, t) PROVE \A q \in Proc : q # p => task'[q] = task[q]
    BY <1>1, <1>2 DEF Written
  <1>3. \E t : Become(p, t) \/ Written(p, t)
    <2>1. CASE Starts(p)
      BY <2>1, ZenonT(60) DEF Starts, Request, CreateUser, SwitchUserRouteNode, DeleteUser, ModifyUser,
                  StartOrStopUser, TrafficTimer, ServeWS, ServeBrowser
    <2>2. CASE Reads(p)
      BY <2>2 DEF Reads, CheckRoute, GetUserToModify, CheckNode, CheckOnline, Goto, Return,
             Become, BindRead, BindOnline, UnbindRead, SwitchFrom, SwitchTo
    <2>3. CASE UserWrites(p) \/ UnbindNode(p) \/ CallFails(p)
      BY <2>3 DEF UserWrites, BindNodeWithNewUser, DelUser, ZremUser, SwitchNodeByUser,
             SaveUser, UnbindNode, CallFails
    <2>4. CASE AllocateFreeNode(p) \/ AddFreeNode(p) \/ DeleteUserCache(p)
      BY <2>4 DEF AllocateFreeNode, AddFreeNode, DeleteUserCache, Return, Become
    <2>5. CASE ConnMoves(p)
      BY <2>5 DEF ConnMoves, SetNodeAndZadd, SetNodeOnline, AddFreeOnAccept, ServeReturns,
             SetNodeOffline, OfflineGetNode, RemoveFreeNode, SwithNodeForUser, Goto, Return,
             Become
    <2>6. QED
      BY <2>1, <2>2, <2>3, <2>4, <2>5 DEF Step
  <1>4. QED
    BY <1>1, <1>2, <1>3

-----------------------------------------------------------------------------
(* Users: as long as no two operations on one user were in flight.          *)

\* A goroutine that gives up claims nothing of its user.
LEMMA ErrorClaimsNoUser ==
  ASSUME NEW t \in Task, NEW alone \in BOOLEAN
  PROVE  UserClaim(OnError(t), alone) /\ UserClaim(IdleTask, alone)
  BY DEF OnError, IdleTask, Task, UserClaim, Creates, HasCopy, DeletedPCs, BindPCs, SwitchPCs

\* What a goroutine claims is about its own user only.
LEMMA OtherUserClaims ==
  ASSUME UsersHeld, ~UserConflict, TasksOK, NEW p \in Proc,
         InFlight(p), task[p].pc \notin RegisterPCs, task[p].u \in User,
         \A q \in Proc : q # p => task'[q] = task[q],
         \A u \in User : u # task[p].u =>
             user'[u] = user[u] /\ (u \in userZset => u \in userZset')
  PROVE  \A q \in Proc : q # p => UserClaim(task[q], TRUE)'
  <1> SUFFICES ASSUME NEW q \in Proc, q # p PROVE UserClaim(task[q], TRUE)'
    OBVIOUS
  <1> DEFINE Claims == Creates(task[q]) \/ HasCopy(task[q]) \/ task[q].pc \in DeletedPCs
  <1>1. CASE Claims
    <2>1. task[q].pc \in UserPCs
      BY <1>1 DEF Creates, HasCopy, DeletedPCs, UserPCs, BindPCs, SwitchPCs
    <2>2. InFlight(q) /\ task[q].pc \notin RegisterPCs /\ task[q].u \in User
      BY <2>1 DEF TasksOK, Holds, InFlight, UserPCs, RegisterPCs, BindPCs, SwitchPCs
    <2>3. task[q].u # task[p].u
      BY <2>2 DEF UserConflict
    <2>4. QED
      BY <2>2, <2>3 DEF UsersHeld, UserClaim, Creates, HasCopy
  <1>2. CASE ~Claims
    BY <1>2 DEF UserClaim, Creates, HasCopy
  <1>3. QED
    BY <1>1, <1>2

\* A read claims of a user only what it has just read, or what was claimed.
LEMMA ReadUserClaim ==
  ASSUME IInv, NEW p \in Proc, Reads(p),
         NEW alone \in BOOLEAN, UserClaim(task[p], alone), alone => UsersHeld
  PROVE  UserClaim(task'[p], alone)
  <1> DEFINE t == task[p]
  <1>g. GoodTask(t, nodeZset) /\ UserClaim(t, alone) /\ task \in [Proc -> Task]
    BY DEF IInv, TypeOK, TasksOK, GoodTask, UsersHeld
  <1>e. UserClaim(OnError(t), alone) /\ UserClaim(IdleTask, alone)
    BY <1>g, ErrorClaimsNoUser DEF GoodTask
  <1>i. ASSUME NEW s, Become(p, s), UserClaim(s, alone) PROVE UserClaim(task'[p], alone)
    BY <1>g, <1>i DEF Become
  <1>u. \A u \in User : user[u] # None => (alone => u \in userZset) /\ user[u] \in UserRec
    BY DEF UsersHeld, IInv, TypeOK
  <1> USE DEF UserClaim, Creates, HasCopy, DeletedPCs, BindPCs, SwitchPCs, GoodTask, Task, At
  <1>1. CASE CheckRoute(p)
    <2> DEFINE s == [t EXCEPT !.pc = IF t.op = "modify" THEN "getUser" ELSE "bindRead"]
    <2>1. UserClaim(s, alone)
      BY <1>1, <1>g DEF CheckRoute
    <2> HIDE DEF UserClaim
    <2>2. QED
      BY <1>1, <1>e, <1>i, <2>1 DEF CheckRoute
  <1>2. CASE GetUserToModify(p)
    <2> DEFINE s == [t EXCEPT !.pc = "switchFrom", !.rec = user[t.u]]
    <2>1. t.u \in User
      BY <1>2, <1>g DEF GetUserToModify, Holds, UserPCs
    <2>2. user[t.u] # None => UserClaim(s, alone)
      BY <1>2, <1>g, <1>u, <2>1 DEF GetUserToModify
    <2> HIDE DEF UserClaim
    <2>3. QED
      BY <1>2, <1>e, <1>i, <2>2 DEF GetUserToModify
  <1>3. CASE CheckNode(p)
    <2>1. UserClaim([t EXCEPT !.pc = "checkOnline"], alone)
      BY <1>3, <1>g DEF CheckNode
    <2> HIDE DEF UserClaim
    <2>2. QED
      BY <1>3, <1>e, <1>i, <2>1 DEF CheckNode
  <1>4. CASE CheckOnline(p)
    <2>1. UserClaim([t EXCEPT !.pc = "switchFrom"], alone)
      BY <1>4, <1>g DEF CheckOnline
    <2> HIDE DEF UserClaim
    <2>2. QED
      BY <1>4, <1>e, <1>i, <2>1 DEF CheckOnline, Goto, Return, Become
  <1>5. CASE BindRead(p)
    <2>1. UserClaim([t EXCEPT !.pc = "bindOnline", !.bound = bindUser[t.to] # None], alone)
      BY <1>5, <1>g DEF BindRead
    <2> HIDE DEF UserClaim
    <2>2. QED
      BY <1>5, <1>e, <1>i, <2>1 DEF BindRead
  <1>6. CASE BindOnline(p)
    <2>1. /\ UserClaim([t EXCEPT !.pc = "bindTx", !.on = t.to \in online], alone)
          /\ UserClaim([t EXCEPT !.pc = "addFree"], alone)
      BY <1>6, <1>g DEF BindOnline
    <2> HIDE DEF UserClaim
    <2>2. QED
      BY <1>6, <1>e, <1>i, <2>1 DEF BindOnline
  <1>7. CASE UnbindRead(p)
    <2>1. UserClaim([t EXCEPT !.pc = "unbindTx", !.on = t.rec.route \in online], alone)
      BY <1>7, <1>g DEF UnbindRead
    <2> HIDE DEF UserClaim
    <2>2. QED
      BY <1>7, <1>e, <1>i, <2>1 DEF UnbindRead
  <1>8. CASE SwitchFrom(p)
    <2>1. UserClaim([t EXCEPT !.pc = "switchTo", !.on = t.rec.route \in online], alone)
      BY <1>8, <1>g DEF SwitchFrom
    <2> HIDE DEF UserClaim
    <2>2. QED
      BY <1>8, <1>e, <1>i, <2>1 DEF SwitchFrom
  <1>9. CASE SwitchTo(p)
    <2>1. UserClaim([t EXCEPT !.pc = "switchTx"], alone)
      BY <1>9, <1>g DEF SwitchTo
    <2> HIDE DEF UserClaim
    <2>2. QED
      BY <1>9, <1>e, <1>i, <2>1 DEF SwitchTo
  <1>10. QED
    BY <1>1, <1>2, <1>3, <1>4, <1>5, <1>6, <1>7, <1>8, <1>9 DEF Reads

\* Nor does a goroutine that begins claim more than it has just read.
LEMMA StartUserClaim ==
  ASSUME IInv, NEW p \in Proc, Starts(p), NEW alone \in BOOLEAN, alone => UsersHeld
  PROVE  UserClaim(task'[p], alone)
  <1>g. task \in [Proc -> Task]
    BY DEF IInv, TypeOK
  <1>i. ASSUME NEW s, Become(p, s), UserClaim(s, alone) PROVE UserClaim(task'[p], alone)
    BY <1>g, <1>i DEF Become
  <1>u. \A u \in User : user[u] # None => (alone => u \in userZset) /\ user[u] \in UserRec
    BY DEF UsersHeld, IInv, TypeOK
  <1> USE DEF UserClaim, Creates, HasCopy, DeletedPCs, BindPCs, SwitchPCs, IdleTask
  <1>1. ASSUME NEW u \in User, NEW n \in NodeOrNone, CreateUser(p, u, n)
        PROVE  UserClaim(task'[p], alone)
    <2>1. UserClaim([IdleTask EXCEPT !.u = u, !.to = n,
                        !.op = IF n = None THEN "create" ELSE "createOn",
                        !.pc = IF n = None THEN "allocate" ELSE "checkRoute"], alone)
      BY <1>1 DEF CreateUser
    <2> HIDE DEF UserClaim, IdleTask
    <2>2. QED
      BY <1>1, <1>i, <2>1 DEF CreateUser
  <1>2. ASSUME NEW u \in User, DeleteUser(p, u)
        PROVE  UserClaim(task'[p], alone)
    <2>1. UserClaim([IdleTask EXCEPT !.pc = "delUser", !.op = "delete", !.u = u, !.rec = user[u]], alone)
      BY <1>2, <1>u DEF DeleteUser
    <2> HIDE DEF UserClaim, IdleTask
    <2>2. QED
      BY <1>2, <1>i, <2>1 DEF DeleteUser
  <1>3. ASSUME NEW u \in User, NEW n \in Node, ModifyUser(p, u, n)
        PROVE  UserClaim(task'[p], alone)
    <2>1. UserClaim([IdleTask EXCEPT !.pc = "checkRoute", !.op = "modify", !.u = u, !.to = n], alone)
      OBVIOUS
    <2> HIDE DEF UserClaim, IdleTask
    <2>2. QED
      BY <1>3, <1>i, <2>1 DEF ModifyUser
  <1>4. ASSUME NEW u \in User, NEW n \in NodeOrNone, SwitchUserRouteNode(p, u, n)
        PROVE  UserClaim(task'[p], alone)
    <2>1. UserClaim([IdleTask EXCEPT !.u = u, !.to = n, !.rec = user[u],
                        !.op = IF n = None THEN "switch" ELSE "switchOn",
                        !.pc = IF n = None THEN "allocate" ELSE "checkNode"], alone)
      BY <1>4, <1>u DEF SwitchUserRouteNode
    <2> HIDE DEF UserClaim, IdleTask
    <2>2. QED
      BY <1>4, <1>i, <2>1 DEF SwitchUserRouteNode
  <1>5. ASSUME NEW u \in User, NEW off \in BOOLEAN, StartOrStopUser(p, u, off)
        PROVE  UserClaim(task'[p], alone)
    <2>1. [user[u] EXCEPT !.off = off].route = user[u].route
      BY <1>5, <1>u DEF StartOrStopUser, UserRec
    <2>2. UserClaim([IdleTask EXCEPT !.pc = "saveUser", !.op = "save", !.u = u,
                                     !.rec = [user[u] EXCEPT !.off = off]], alone)
      BY <1>5, <1>u, <2>1 DEF StartOrStopUser
    <2> HIDE DEF UserClaim, IdleTask
    <2>3. QED
      BY <1>5, <1>i, <2>2 DEF StartOrStopUser
  <1>6. ASSUME NEW u \in User, TrafficTimer(p, u)
        PROVE  UserClaim(task'[p], alone)
    <2>1. UserClaim([IdleTask EXCEPT !.pc = "saveUser", !.op = "traffic", !.u = u, !.rec = user[u]], alone)
      BY <1>6, <1>u DEF TrafficTimer
    <2> HIDE DEF UserClaim, IdleTask
    <2>2. QED
      BY <1>6, <1>i, <2>1 DEF TrafficTimer
  <1>7. ASSUME NEW n \in Node, ServeWS(p, n) \/ ServeBrowser(p, n)
        PROVE  UserClaim(task'[p], alone)
    <2>1. \A op \in {"conn", "browser"} :
             UserClaim([IdleTask EXCEPT !.pc = "register", !.op = op, !.n = n, !.u = bindUser[n]], alone)
      OBVIOUS
    <2> HIDE DEF UserClaim, IdleTask
    <2>2. QED
      BY <1>7, <1>i, <2>1 DEF ServeWS, ServeBrowser
  <1>8. QED
    BY <1>1, <1>2, <1>3, <1>4, <1>5, <1>6, <1>7 DEF Starts, Request, NodeOrNone

\* The steps that write redis, but not the users.
LEMMA WriteUserClaim ==
  ASSUME IInv, ConnsHeld, NEW p \in Proc,
         NEW alone \in BOOLEAN, UserClaim(task[p], alone), alone => UsersHeld,
         \/ UnbindNode(p) \/ AllocateFreeNode(p) \/ AddFreeNode(p) \/ DeleteUserCache(p)
         \/ p \in Conn /\ ConnMoves(p)
         \/ CallFails(p)
  PROVE  UserClaim(task'[p], alone)
  <1> DEFINE t == task[p]
  <1>g. GoodTask(t, nodeZset) /\ UserClaim(t, alone) /\ task \in [Proc -> Task]
    BY DEF IInv, TypeOK, TasksOK, GoodTask, UsersHeld
  <1>e. UserClaim(OnError(t), alone) /\ UserClaim(IdleTask, alone)
    BY <1>g, ErrorClaimsNoUser DEF GoodTask
  <1>i. ASSUME NEW s, Become(p, s) \/ Written(p, s), UserClaim(s, alone) PROVE UserClaim(task'[p], alone)
    BY <1>e, <1>g, <1>i DEF Become, Written
  <1>u. \A u \in User : user[u] # None => (alone => u \in userZset) /\ user[u] \in UserRec
    BY DEF UsersHeld, IInv, TypeOK
  \* Where most of these steps lead, nothing is claimed.
  <1> DEFINE Quiets == {"dropCache", "setOnline", "connFree", "serve", "offline", "offGet",
                        "removeFree", "offUser"}
  <1>l. ASSUME NEW l \in Quiets PROVE UserClaim([t EXCEPT !.pc = l], alone)
    BY <1>g DEF GoodTask, Task, UserClaim, Creates, HasCopy, DeletedPCs, BindPCs, SwitchPCs
  <1>1. CASE UnbindNode(p)
    BY <1>1, <1>i, <1>l DEF UnbindNode
  <1>2. CASE AllocateFreeNode(p)
    <2>1. ASSUME NEW n PROVE UserClaim([t EXCEPT !.to = n,
                   !.pc = IF t.op = "create" THEN "bindRead" ELSE "switchFrom"], alone)
      BY <1>2, <1>g DEF AllocateFreeNode, At, GoodTask, Task, UserClaim, Creates, HasCopy,
             DeletedPCs, BindPCs, SwitchPCs
    <2>2. QED
      BY <1>2, <1>e, <1>i, <2>1 DEF AllocateFreeNode, Return, Become
  <1>3. CASE AddFreeNode(p) \/ DeleteUserCache(p) \/ RemoveFreeNode(p) \/ CallFails(p)
    BY <1>3, <1>e, <1>i DEF AddFreeNode, DeleteUserCache, RemoveFreeNode, CallFails, Return, Become
  <1>4. CASE SetNodeAndZadd(p)
    BY <1>4, <1>i, <1>l DEF SetNodeAndZadd
  <1>5. CASE SetNodeOnline(p)
    <2>1. UserClaim([t EXCEPT !.u = None, !.pc = IF t.u = None THEN "connFree" ELSE "serve"], alone)
      BY <1>g DEF GoodTask, Task, UserClaim, Creates, HasCopy, DeletedPCs, BindPCs, SwitchPCs
    <2>2. QED
      BY <1>5, <1>i, <2>1 DEF SetNodeOnline
  <1>6. CASE AddFreeOnAccept(p) \/ ServeReturns(p) \/ SetNodeOffline(p)
    BY <1>6, <1>e, <1>i, <1>l DEF AddFreeOnAccept, ServeReturns, SetNodeOffline, Goto, Return,
           Become
  <1>7. CASE OfflineGetNode(p)
    <2>1. /\ UserClaim([t EXCEPT !.u = None, !.pc = "removeFree"], alone)
          /\ UserClaim([t EXCEPT !.u = bindUser[t.n], !.pc = "offUser"], alone)
      BY <1>g DEF GoodTask, Task, UserClaim, Creates, HasCopy, DeletedPCs, BindPCs, SwitchPCs
    <2>2. QED
      BY <1>7, <1>i, <2>1 DEF OfflineGetNode
  <1>8. CASE p \in Conn /\ SwithNodeForUser(p)
    <2> DEFINE s == [t EXCEPT !.pc = "allocate", !.rec = user[t.u]]
    <2>1. t.u \in User
      BY <1>8, <1>g DEF SwithNodeForUser, At, GoodTask, Holds, UserPCs
    <2>2. ASSUME user[t.u] # None PROVE UserClaim(s, alone)
      <3>1. t.op # "create" /\ t.op # "save"
        BY <1>8 DEF ConnsHeld
      <3>2. QED
        BY <1>8, <1>g, <1>u, <2>1, <2>2, <3>1 DEF SwithNodeForUser, At, GoodTask, Task, UserClaim,
               Creates, HasCopy, DeletedPCs, BindPCs, SwitchPCs
    <2>3. QED
      BY <1>8, <1>e, <1>i, <2>2 DEF SwithNodeForUser
  <1>9. QED
    BY <1>1, <1>2, <1>3, <1>4, <1>5, <1>6, <1>7, <1>8 DEF ConnMoves

\* A write of the tables of users is true to what the goroutine claims, and so
\* is what it claims afterwards.
LEMMA WritesKeepUsers ==
  ASSUME IInv, UsersHeld, ~UserConflict, NEW p \in Proc, UserWrites(p)
  PROVE  UsersHeld'
  <1>t. PICK t : t = task[p]
    OBVIOUS
  <1> DEFINE v == t.u
             Listed == \A u \in User : user[u] # None => u \in userZset
  <1>g. GoodTask(t, nodeZset) /\ UserClaim(t, TRUE) /\ task \in [Proc -> Task] /\ TasksOK
    BY <1>t DEF IInv, TypeOK, TasksOK, GoodTask, UsersHeld
  <1>u. Listed /\ user \in [User -> UserRec \cup {None}]
    BY DEF UsersHeld, IInv, TypeOK
  <1>o. \A q \in Proc : q # p => task'[q] = task[q]
    BY <1>g, OthersStay DEF Step
  <1>i. ASSUME NEW s, Become(p, s) \/ Written(p, s), UserClaim(s, TRUE)', UserClaim(OnError(t), TRUE)'
        PROVE  UserClaim(task[p], TRUE)'
    BY <1>g, <1>t, <1>i DEF Become, Written
  <1>e. UserClaim(OnError(t), TRUE)' /\ UserClaim(IdleTask, TRUE)'
    BY <1>g DEF GoodTask, OnError, IdleTask, Task, UserClaim, Creates, HasCopy, DeletedPCs,
           BindPCs, SwitchPCs
  <1>p. InFlight(p) /\ t.pc \in UserPCs /\ t.pc \notin RegisterPCs /\ v \in User
    <2>1. t.pc \in {"bindTx", "delUser", "zremUser", "switchTx", "saveUser"}
      BY <1>t DEF UserWrites, BindNodeWithNewUser, DelUser, ZremUser, SwitchNodeByUser, SaveUser, At
    <2>2. QED
      BY <1>g, <1>t, <2>1 DEF InFlight, UserPCs, RegisterPCs, BindPCs, SwitchPCs, GoodTask, Holds
  \* It is enough to look at the user written and at the goroutine itself.
  <1>q. ASSUME \A u \in User : u # v => user'[u] = user[u] /\ (u \in userZset => u \in userZset'),
               user'[v] # None => v \in userZset', UserClaim(task[p], TRUE)'
        PROVE  UsersHeld'
    <2>1. \A q \in Proc : q # p => UserClaim(task[q], TRUE)'
      BY <1>g, <1>o, <1>p, <1>q, <1>t, OtherUserClaims
    <2>2. QED
      BY <1>u, <1>q, <2>1 DEF UsersHeld
  <1>1. CASE BindNodeWithNewUser(p)
    <2>1. UserClaim(task[p], TRUE)'
      BY <1>1, <1>t, <1>e, <1>i DEF BindNodeWithNewUser
    <2>2. QED
      BY <1>1, <1>t, <1>p, <1>q, <1>u, <2>1 DEF BindNodeWithNewUser
  <1>2. CASE DelUser(p)
    <2>1. user'[v] = None /\ \A u \in User : u # v => user'[u] = user[u]
      BY <1>2, <1>t, <1>p, <1>u DEF DelUser
    <2>2. UserClaim([t EXCEPT !.pc = "zremUser"], TRUE)'
      BY <1>2, <1>t, <1>g, <2>1 DEF DelUser, At, GoodTask, Task, UserClaim, Creates, HasCopy,
             DeletedPCs, BindPCs, SwitchPCs
    <2>3. UserClaim(task[p], TRUE)'
      BY <1>2, <1>t, <1>e, <1>i, <2>2 DEF DelUser
    <2>4. QED
      BY <1>2, <1>t, <1>q, <2>1, <2>3 DEF DelUser
  <1>3. CASE ZremUser(p)
    <2>1. user' = user /\ user[v] = None
      BY <1>3, <1>t, <1>g DEF ZremUser, At, UserClaim, DeletedPCs
    <2>2. UserClaim([t EXCEPT !.pc = "unbindRead"], TRUE)'
      BY <1>3, <1>t, <1>g, <2>1 DEF ZremUser, At, GoodTask, Task, UserClaim, Creates, HasCopy,
             DeletedPCs, BindPCs, SwitchPCs
    <2>3. UserClaim(task[p], TRUE)'
      BY <1>3, <1>t, <1>e, <1>i, <2>2 DEF ZremUser
    <2>4. QED
      BY <1>3, <1>t, <1>q, <2>1, <2>3 DEF ZremUser
  <1>4. CASE SwitchNodeByUser(p)
    <2>1. UserClaim([t EXCEPT !.pc = "dropCache"], TRUE)'
      BY <1>g DEF GoodTask, Task, UserClaim, Creates, HasCopy, DeletedPCs, BindPCs, SwitchPCs
    <2>2. UserClaim(task[p], TRUE)'
      BY <1>4, <1>t, <1>e, <1>i, <2>1 DEF SwitchNodeByUser
    <2>3. v \in userZset
      BY <1>4, <1>t, <1>g DEF SwitchNodeByUser, At, UserClaim, HasCopy, SwitchPCs
    <2>4. QED
      BY <1>4, <1>t, <1>p, <1>q, <1>u, <2>2, <2>3 DEF SwitchNodeByUser
  <1>5. CASE SaveUser(p)
    <2>1. UserClaim([t EXCEPT !.pc = "dropCache"], TRUE)'
      BY <1>g DEF GoodTask, Task, UserClaim, Creates, HasCopy, DeletedPCs, BindPCs, SwitchPCs
    <2>2. UserClaim(task[p], TRUE)'
      BY <1>5, <1>t, <1>e, <1>i, <2>1 DEF SaveUser
    <2>3. v \in userZset
      BY <1>5, <1>t, <1>g DEF SaveUser, At, UserClaim, HasCopy
    <2>4. QED
      BY <1>5, <1>t, <1>p, <1>q, <1>u, <2>2, <2>3 DEF SaveUser
  <1>6. QED
    BY <1>1, <1>2, <1>3, <1>4, <1>5 DEF UserWrites

\* The rest of the steps leave the tables of users as they are.
LEMMA UsersUntouched ==
  ASSUME NEW p \in Proc, Step(p), ~UserWrites(p)
  PROVE  user' = user /\ userZset' = userZset
  <1>1. CASE Starts(p) \/ Reads(p) \/ CallFails(p)
    BY <1>1, ZenonT(60) DEF redis, Starts, Request, CreateUser, SwitchUserRouteNode, DeleteUser,
           ModifyUser, StartOrStopUser, TrafficTimer, ServeWS, ServeBrowser, Reads, CheckRoute,
           GetUserToModify, CheckNode, CheckOnline, BindRead, BindOnline, UnbindRead,
           SwitchFrom, SwitchTo, CallFails
  <1>2. CASE UnbindNode(p) \/ AllocateFreeNode(p) \/ AddFreeNode(p) \/ DeleteUserCache(p)
             \/ ConnMoves(p)
    BY <1>2 DEF redis, UnbindNode, AllocateFreeNode, AddFreeNode, DeleteUserCache, ConnMoves,
           SetNodeAndZadd, SetNodeOnline, AddFreeOnAccept, ServeReturns, SetNodeOffline,
           OfflineGetNode, RemoveFreeNode, SwithNodeForUser
  <1>3. QED
    BY <1>1, <1>2 DEF Step

LEMMA UsersStep ==
  ASSUME IInv, ConnsHeld, UsersHeld, ~UserConflict, [Next]_vars
  PROVE  UsersHeld'
  <1>g. task \in [Proc -> Task]
    BY DEF IInv, TypeOK
  <1>1. ASSUME NEW p \in Proc, Step(p), ~UserWrites(p)
        PROVE  UsersHeld'
    <2>1. user' = user /\ userZset' = userZset
      BY <1>1, UsersUntouched
    <2>2. \A q \in Proc : q # p => task'[q] = task[q]
      BY <1>1, <1>g, OthersStay
    <2>3. UserClaim(task'[p], TRUE)
      <3>1. UserClaim(task[p], TRUE) /\ (TRUE => UsersHeld)
        BY DEF UsersHeld
      <3>2. QED
        BY <1>1, <3>1, StartUserClaim, ReadUserClaim, WriteUserClaim DEF Step
    <2>4. \A q \in Proc : UserClaim(task[q], TRUE)'
      BY <2>1, <2>2, <2>3 DEF UsersHeld, UserClaim
    <2>5. QED
      BY <2>1, <2>4 DEF UsersHeld
  <1>2. ASSUME UNCHANGED <<user, userZset>>,
               \A p \in Proc : task'[p] \in {task[p], IdleTask}
        PROVE  UsersHeld'
    <2>1. UserClaim(IdleTask, TRUE)
      BY DEF IdleTask, UserClaim, Creates, HasCopy, DeletedPCs, BindPCs, SwitchPCs
    <2>2. \A p \in Proc : UserClaim(task'[p], TRUE)
      BY <1>2, <2>1 DEF UsersHeld
    <2>3. QED
      BY <1>2, <2>2 DEF UsersHeld, UserClaim
  <1>3. CASE CacheOrCrash \/ UNCHANGED vars
    BY <1>2, <1>3, <1>g DEF CacheOrCrash, CacheMiss, CacheSet, RpcCrash, ApiCrash, OnlineExpires, FreeExpires,
           NewTunnelManager, redis, vars
  <1>4. QED
    BY <1>1, <1>3, WritesKeepUsers, NextIsStep

-----------------------------------------------------------------------------
(* The off flag, whatever was in flight: a goroutine whose copy is not old. *)

\* Who is not on the way to write a user claims nothing of one.
LEMMA NothingClaimed ==
  /\ \A t : ~Creates(t) /\ ~HasCopy(t) => UserClaim(t, FALSE) /\ UserClaim(t, FALSE)'
  /\ ~Creates(IdleTask) /\ ~HasCopy(IdleTask)
  /\ \A t \in Task : ~Creates(OnError(t)) /\ ~HasCopy(OnError(t))
  BY DEF UserClaim, Creates, HasCopy, IdleTask, OnError, Task, BindPCs, SwitchPCs

\* A goroutine that another's step did not make stale claims what it did.
LEMMA FlagStays ==
  ASSUME IInv, FlagHeld, HNext, NEW q \in Proc \ stale', task'[q] = task[q]
  PROVE  UserClaim(task[q], FALSE)'
  <1>t. PICK t : t = task[q]
    OBVIOUS
  <1>1. CASE Creates(t) \/ HasCopy(t)
    <2>1. t.pc \in UserPCs /\ t.pc \notin {"idle", "serve"}
      BY <1>1 DEF Creates, HasCopy, UserPCs, BindPCs, SwitchPCs
    <2>2. t.u \in User
      BY <1>t, <2>1 DEF IInv, TasksOK, Holds
    <2>3. InFlight(q)'
      BY <1>t, <2>1 DEF InFlight
    <2>4. q \notin stale /\ ~BecomesStale(q)
      BY <2>3 DEF HNext
    <2>5. UserClaim(t, FALSE) /\ ~Changes(t.u)
      BY <1>1, <1>t, <2>2, <2>4 DEF FlagHeld, BecomesStale
    <2>6. QED
      BY <1>t, <2>5 DEF UserClaim, Changes
  <1>2. QED
    BY <1>1, <1>t, NothingClaimed

LEMMA FlagStep ==
  ASSUME IInv, ConnsHeld, FlagHeld, HNext
  PROVE  FlagHeld'
  <1>g. task \in [Proc -> Task]
    BY DEF IInv, TypeOK
  <1>q. SUFFICES ASSUME NEW q \in Proc \ stale', task'[q] # task[q]
                 PROVE  UserClaim(task[q], FALSE)'
    BY FlagStays DEF FlagHeld
  <1>1. ASSUME NEW p \in Proc, Step(p)
        PROVE  UserClaim(task[q], FALSE)'
    <2>1. p = q
      BY <1>1, <1>g, <1>q, OthersStay
    <2>2. CASE UserWrites(p)
      <3>1. ~Creates(task'[q]) /\ ~HasCopy(task'[q])
        <4>t. PICK t \in Task : t = task[q]
          BY <1>g
        <4>1. \E l \in {"zremUser", "unbindRead", "dropCache"} :
                 task'[q] \in {IdleTask, OnError(t), [t EXCEPT !.pc = l]}
          BY <1>g, <2>1, <2>2, <4>t DEF UserWrites, BindNodeWithNewUser, DelUser, ZremUser,
                 SwitchNodeByUser, SaveUser, Written, Become
        <4>2. \A l \in {"zremUser", "unbindRead", "dropCache"} :
                 ~Creates([t EXCEPT !.pc = l]) /\ ~HasCopy([t EXCEPT !.pc = l])
          BY DEF Creates, HasCopy, Task, BindPCs, SwitchPCs
        <4>3. QED
          BY <4>1, <4>2, NothingClaimed
      <3>2. QED
        BY <3>1, NothingClaimed
    <2>3. CASE ~UserWrites(p)
      <3>1. user' = user /\ userZset' = userZset
        BY <1>1, <2>3, UsersUntouched
      <3>2. CASE InFlight(q)'
        <4>1. q \notin stale
          BY <3>2 DEF HNext
        <4>2. UserClaim(task[p], FALSE) /\ (FALSE => UsersHeld)
          BY <2>1, <4>1 DEF FlagHeld
        <4>3. UserClaim(task'[p], FALSE)
          BY <1>1, <2>3, <4>2, StartUserClaim, ReadUserClaim, WriteUserClaim DEF Step
        <4>4. QED
          BY <2>1, <3>1, <4>3 DEF UserClaim
      <3>3. CASE ~InFlight(q)'
        <4>1. task'[q].pc \in {"idle", "serve"}
          BY <3>3 DEF InFlight
        <4>2. ~Creates(task'[q]) /\ ~HasCopy(task'[q])
          BY <4>1 DEF Creates, HasCopy, BindPCs, SwitchPCs
        <4>3. QED
          BY <4>2, NothingClaimed
      <3>4. QED
        BY <3>2, <3>3
    <2>4. QED
      BY <2>2, <2>3
  <1>2. CASE CacheOrCrash
    <2>1. task'[q] = IdleTask
      BY <1>2, <1>g, <1>q DEF CacheOrCrash, CacheMiss, CacheSet, RpcCrash, ApiCrash,
             OnlineExpires, FreeExpires, NewTunnelManager
    <2>2. QED
      BY <2>1, NothingClaimed
  <1>3. QED
    BY <1>1, <1>2, NextIsStep DEF HNext

-----------------------------------------------------------------------------
(* What holds whatever was in flight: what the websockets hold.             *)

LEMMA ConnsStep ==
  ASSUME IInv, ConnsHeld, [Next]_vars
  PROVE  ConnsHeld'
  <1> DEFINE Served == {"connFree", "serve", "offline", "offGet"}
             Claim(p, t) == /\ t.pc \in Served => t.u = None
                            /\ p \in Conn => t.op \in {"none", "conn", "browser", "traffic"}
                            /\ p \in Conn /\ ~apiUp => t.pc = "idle"
  <1>g. /\ task \in [Proc -> Task] /\ \A p \in Proc : GoodTask(task[p], nodeZset) /\ Claim(p, task[p])
        /\ Conn \subseteq Proc
    BY DEF IInv, TypeOK, TasksOK, GoodTask, ConnsHeld, Proc
  <1>z. ASSUME \A p \in Proc : Claim(p, task[p])' PROVE ConnsHeld'
    BY <1>g, <1>z DEF ConnsHeld
  <1>1. ASSUME NEW p \in Proc, Step(p)
        PROVE  ConnsHeld'
    <2>t. PICK t : t = task[p]
      OBVIOUS
    <2>g. t \in Task /\ Claim(p, t)
      BY <1>g, <2>t DEF GoodTask
    <2>o. \A q \in Proc : q # p => task'[q] = task[q]
      BY <1>g, <1>1, OthersStay
    <2>a. apiUp' = apiUp
      <3>1. CASE Starts(p) \/ Reads(p) \/ CallFails(p) \/ UserWrites(p)
        BY <3>1, ZenonT(60) DEF Starts, Request, CreateUser, SwitchUserRouteNode, DeleteUser,
               ModifyUser, StartOrStopUser, TrafficTimer, ServeWS, ServeBrowser, Reads, CheckRoute,
               GetUserToModify, CheckNode, CheckOnline, BindRead, BindOnline, UnbindRead,
               SwitchFrom, SwitchTo, CallFails, UserWrites, BindNodeWithNewUser, DelUser,
               ZremUser, SwitchNodeByUser, SaveUser
      <3>2. CASE UnbindNode(p) \/ AllocateFreeNode(p) \/ AddFreeNode(p) \/ DeleteUserCache(p)
                 \/ ConnMoves(p)
        BY <3>2 DEF UnbindNode, AllocateFreeNode, AddFreeNode, DeleteUserCache, ConnMoves,
               SetNodeAndZadd, SetNodeOnline, AddFreeOnAccept, ServeReturns, SetNodeOffline,
               OfflineGetNode, RemoveFreeNode, SwithNodeForUser
      <3>3. QED
        BY <1>1, <3>1, <3>2 DEF Step
    <2>q. ASSUME NEW s, Become(p, s) \/ Written(p, s), Claim(p, s), Claim(p, OnError(t))
          PROVE  ConnsHeld'
      <3>1. task'[p] \in {s, OnError(t)}
        BY <1>g, <2>t, <2>q DEF Become, Written
      <3>2. Claim(p, task'[p])
        BY <2>q, <3>1
      <3>3. \A q \in Proc : Claim(q, task[q])'
        BY <1>g, <2>o, <2>a, <3>2
      <3>4. QED
        BY <1>z, <3>3
    <2>e. Claim(p, IdleTask)
      BY DEF IdleTask
    <2>u. t.pc # "idle" /\ p \in Conn => apiUp
      BY <2>g
    <2>x. Claim(p, OnError(t))
      <3>1. CASE t.pc = "connFree" \/ (t.pc = "offline" /\ t.op # "browser")
        BY <2>g, <2>u, <3>1 DEF OnError, Task, SwitchPCs
      <3>2. CASE OnError(t) = [t EXCEPT !.pc = "addFree"] /\ t.pc \in SwitchPCs \cup {"bindTx"}
        BY <2>g, <2>u, <3>2 DEF Task, SwitchPCs
      <3>3. QED
        BY <2>e, <3>1, <3>2 DEF OnError
    \* A step that goes on with the same operation, not as a websocket served.
    <2>k. ASSUME NEW s, Become(p, s) \/ Written(p, s), t.pc # "idle", s.op = t.op, s.pc \notin Served
          PROVE  ConnsHeld'
      BY <2>g, <2>u, <2>q, <2>x, <2>k
    <2>1. CASE Starts(p)
      <3>1. ASSUME NEW s, Become(p, s), p \in Handler, s.pc \notin Served
            PROVE  ConnsHeld'
        BY <2>q, <2>x, <3>1, ProcAssumption
      <3>2. CASE Request(p) /\ p \in Handler
        BY <3>1, <3>2 DEF Request, CreateUser, SwitchUserRouteNode, ModifyUser, DeleteUser,
               StartOrStopUser, IdleTask
      <3>3. ASSUME NEW u \in User, TrafficTimer(p, u)
            PROVE  ConnsHeld'
        <4> DEFINE s == [IdleTask EXCEPT !.pc = "saveUser", !.op = "traffic", !.u = u, !.rec = user[u]]
        <4>1. Claim(p, s) /\ Become(p, s)
          BY <3>3 DEF TrafficTimer, IdleTask
        <4>2. QED
          BY <2>q, <2>x, <4>1
      <3>4. ASSUME NEW n \in Node, ServeWS(p, n) \/ ServeBrowser(p, n)
            PROVE  ConnsHeld'
        <4> DEFINE s(op) == [IdleTask EXCEPT !.pc = "register", !.op = op, !.n = n,
                                             !.u = bindUser[n]]
        <4>1. \E op \in {"conn", "browser"} : Claim(p, s(op)) /\ Become(p, s(op))
          BY <3>4 DEF ServeWS, ServeBrowser, IdleTask
        <4>2. QED
          BY <2>q, <2>x, <4>1
      <3>5. QED
        BY <2>1, <3>2, <3>3, <3>4 DEF Starts
    <2>2. CASE Reads(p)
      <3> USE DEF Task
      <3>1. CASE CheckRoute(p)
        BY <2>e, <2>g, <2>k, <2>q, <2>t, <2>x, <3>1 DEF CheckRoute, At
      <3>2. CASE GetUserToModify(p) \/ CheckNode(p)
        BY <2>e, <2>g, <2>k, <2>q, <2>t, <2>x, <3>2 DEF GetUserToModify, CheckNode, At
      <3>3. CASE CheckOnline(p)
        BY <2>e, <2>g, <2>k, <2>q, <2>t, <2>x, <3>3 DEF CheckOnline, At, Goto, Return, Become
      <3>4. CASE BindRead(p) \/ UnbindRead(p)
        BY <2>e, <2>g, <2>k, <2>q, <2>t, <2>x, <3>4 DEF BindRead, UnbindRead, At
      <3>5. CASE BindOnline(p)
        BY <2>e, <2>g, <2>k, <2>q, <2>t, <2>x, <3>5 DEF BindOnline, At
      <3>6. CASE SwitchFrom(p) \/ SwitchTo(p)
        BY <2>e, <2>g, <2>k, <2>q, <2>t, <2>x, <3>6 DEF SwitchFrom, SwitchTo, At
      <3>7. QED
        BY <2>2, <3>1, <3>2, <3>3, <3>4, <3>5, <3>6 DEF Reads
    <2>3. CASE UserWrites(p) \/ UnbindNode(p) \/ CallFails(p)
      <3> USE DEF Task
      <3>1. CASE BindNodeWithNewUser(p) \/ CallFails(p)
        BY <2>e, <2>q, <2>t, <2>x, <3>1 DEF BindNodeWithNewUser, CallFails
      <3>2. CASE DelUser(p) \/ ZremUser(p)
        BY <2>g, <2>k, <2>t, <3>2 DEF DelUser, ZremUser, At
      <3>3. CASE SwitchNodeByUser(p) \/ UnbindNode(p)
        BY <2>g, <2>k, <2>t, <3>3 DEF SwitchNodeByUser, UnbindNode, At
      <3>4. CASE SaveUser(p)
        BY <2>e, <2>g, <2>k, <2>q, <2>t, <2>x, <3>4 DEF SaveUser, At
      <3>5. QED
        BY <2>3, <3>1, <3>2, <3>3, <3>4 DEF UserWrites
    <2>4. CASE AllocateFreeNode(p)
      BY <2>e, <2>g, <2>k, <2>q, <2>t, <2>x, <2>4 DEF AllocateFreeNode, At, Return, Become, Task
    <2>5. CASE AddFreeNode(p) \/ DeleteUserCache(p) \/ RemoveFreeNode(p)
      BY <2>e, <2>q, <2>x, <2>5 DEF AddFreeNode, DeleteUserCache, RemoveFreeNode, Return, Become
    <2>6. CASE ConnMoves(p) /\ p \in Conn /\ ~RemoveFreeNode(p)
      <3> USE DEF Task
      <3>1. CASE SetNodeAndZadd(p)
        BY <2>g, <2>k, <2>t, <3>1 DEF SetNodeAndZadd, At
      <3>2. CASE SetNodeOnline(p)
        <4> DEFINE s == [t EXCEPT !.u = None, !.pc = IF t.u = None THEN "connFree" ELSE "serve"]
        <4>1. Claim(p, s)
          BY <2>g, <2>t, <2>u, <3>2 DEF SetNodeOnline, At
        <4>2. QED
          BY <2>q, <2>t, <2>x, <3>2, <4>1 DEF SetNodeOnline
      <3>3. ASSUME NEW l \in Served, Become(p, [t EXCEPT !.pc = l]), t.pc \in Served
            PROVE  ConnsHeld'
        <4>1. Claim(p, [t EXCEPT !.pc = l])
          BY <2>g, <2>u, <3>3
        <4>2. QED
          BY <2>q, <2>x, <3>3, <4>1
      <3>4. CASE AddFreeOnAccept(p) \/ ServeReturns(p) \/ SetNodeOffline(p)
        BY <2>e, <2>q, <2>t, <2>x, <3>3, <3>4 DEF AddFreeOnAccept, ServeReturns, SetNodeOffline,
               At, Goto, Return, Become
      <3>5. CASE OfflineGetNode(p)
        BY <2>g, <2>k, <2>t, <3>5 DEF OfflineGetNode, At
      <3>6. CASE SwithNodeForUser(p)
        BY <2>e, <2>g, <2>k, <2>q, <2>t, <2>x, <3>6 DEF SwithNodeForUser, At
      <3>7. QED
        BY <2>6, <3>1, <3>2, <3>4, <3>5, <3>6 DEF ConnMoves
    <2>7. QED
      BY <1>1, <2>1, <2>2, <2>3, <2>4, <2>5, <2>6 DEF Step
  <1>2. CASE CacheOrCrash \/ UNCHANGED vars
    <2>1. ASSUME UNCHANGED <<task, apiUp>> PROVE ConnsHeld'
      BY <2>1 DEF ConnsHeld
    <2>2. CASE UNCHANGED vars \/ CacheSet \/ OnlineExpires \/ FreeExpires \/ \E u \in User : CacheMiss(u)
      BY <2>1, <2>2 DEF vars, CacheSet, OnlineExpires, FreeExpires, CacheMiss
    <2>3. CASE RpcCrash \/ ApiCrash \/ NewTunnelManager
      BY <2>3, <1>g DEF RpcCrash, ApiCrash, NewTunnelManager, ConnsHeld, IdleTask
    <2>4. QED
      BY <1>2, <2>2, <2>3 DEF CacheOrCrash
  <1>3. QED
    BY <1>1, <1>2, NextIsStep

-----------------------------------------------------------------------------
(* Nodes: as long as no conflict about a user, a target or a node's record  *)
(* occurred, and no reply was lost.                                         *)

\* What a goroutine holds when it gives up, it held before.
LEMMA ErrorClaimsNode ==
  ASSUME NEW t \in Task, BindClaim(t)
  PROVE  /\ BindClaim(OnError(t)) /\ BindClaim(IdleTask) /\ IdleTask.pc \notin HeldPCs
         /\ OnError(t).pc \in HeldPCs => t.pc \in HeldPCs /\ OnError(t).to = t.to
  <1> USE DEF BindClaim, HeldPCs, DeletedPCs, BindPCs, SwitchPCs
  <1>1. BindClaim(IdleTask) /\ IdleTask.pc \notin HeldPCs
    BY DEF IdleTask
  <1>2. CASE OnError(t) = IdleTask
    BY <1>1, <1>2
  <1>3. CASE /\ t.pc \in SwitchPCs \cup {"bindTx"}
             /\ OnError(t) = [t EXCEPT !.pc = "addFree"]
    BY <1>1, <1>3 DEF Task
  <1>4. CASE t.pc = "connFree" \/ (t.pc = "offline" /\ t.op # "browser")
    BY <1>1, <1>4 DEF OnError, Task
  <1>5. QED
    BY <1>2, <1>3, <1>4 DEF OnError

\* The invariant, seen from the goroutine that takes the step.
LEMMA NodesParts ==
  ASSUME NodesHeld, task \in [Proc -> Task], NEW p \in Proc, Step(p),
         \A n \in nodeFree' : bindUser'[n] = None,
         \A u \in User : user'[u] # None => bindUser'[user'[u].route] = u,
         \A q \in Proc : q # p => BindClaim(task[q])',
         BindClaim(task[p])',
         task'[p].pc \in HeldPCs =>
            \A q \in Proc : q # p /\ task[q].pc \in HeldPCs => task[q].to # task'[p].to
  PROVE  NodesHeld'
  <1>1. \A q \in Proc : q # p => task'[q] = task[q]
    BY OthersStay
  <1>2. Distinct'
    BY <1>1 DEF NodesHeld, Distinct
  <1>3. QED
    BY <1>2 DEF NodesHeld

\* A step after which no node is bound otherwise, and none is free that was not.
LEMMA NodesStay ==
  ASSUME NodesHeld, task \in [Proc -> Task], NEW p \in Proc, Step(p),
         bindUser' = bindUser, nodeFree' \subseteq nodeFree,
         \A u \in User : user'[u] # None => user[u] # None /\ user'[u].route = user[u].route,
         BindClaim(task[p])',
         task'[p].pc \in HeldPCs =>
            \A q \in Proc : q # p /\ task[q].pc \in HeldPCs => task[q].to # task'[p].to
  PROVE  NodesHeld'
  <1>1. \A q \in Proc : q # p => task'[q] = task[q]
    BY OthersStay
  <1>2. \A q \in Proc : q # p => BindClaim(task[q])'
    BY <1>1 DEF NodesHeld, BindClaim
  <1>3. /\ \A n \in nodeFree' : bindUser'[n] = None
        /\ \A u \in User : user'[u] # None => bindUser'[user'[u].route] = u
    BY DEF NodesHeld
  <1>4. QED
    BY <1>2, <1>3, NodesParts

\* Reads and the begin of an operation: what a goroutine holds from now on it
\* held before, or it is the target that its request named.
LEMMA ReadsKeepNodes ==
  ASSUME IInv, NodesHeld, ~TargetConflict, NEW p \in Proc,
         Starts(p) \/ Reads(p) \/ CallFails(p)
  PROVE  NodesHeld'
  <1>t. PICK t : t = task[p]
    OBVIOUS
  <1>g. GoodTask(t, nodeZset) /\ t \in Task /\ BindClaim(t) /\ task \in [Proc -> Task]
    BY <1>t DEF IInv, TypeOK, TasksOK, GoodTask, NodesHeld
  <1>s. Step(p)
    BY DEF Step
  <1>r. UNCHANGED redis
    BY ZenonT(60) DEF Starts, Request, CreateUser, SwitchUserRouteNode, DeleteUser,
           ModifyUser, StartOrStopUser, TrafficTimer, ServeWS, ServeBrowser, Reads, CheckRoute,
           GetUserToModify, CheckNode, CheckOnline, BindRead, BindOnline, UnbindRead,
           SwitchFrom, SwitchTo, CallFails
  \* What it holds next, it holds already or the request named it.
  <1> DEFINE Kept(s) == /\ BindClaim(s)
                        /\ s.pc \in HeldPCs =>
                              /\ s.to = t.to
                              /\ t.pc \in HeldPCs \/ (t.op \in NamedOps /\ t.to # None)
  <1>i. ASSUME NEW s, Become(p, s), Kept(s) PROVE NodesHeld'
    <2>1. task'[p] = s
      BY <1>g, <1>i DEF Become
    <2>2. BindClaim(task[p])'
      BY <1>i, <1>r, <2>1 DEF BindClaim, redis
    <2>3. ASSUME s.pc \in HeldPCs, NEW q \in Proc, q # p, task[q].pc \in HeldPCs
          PROVE  task[q].to # s.to
      BY <1>i, <1>t, <2>3 DEF NodesHeld, Distinct, TargetConflict
    <2>4. QED
      BY <1>g, <1>r, <1>s, <2>1, <2>2, <2>3, NodesStay DEF redis
  <1>e. /\ BindClaim(OnError(t)) /\ BindClaim(IdleTask) /\ IdleTask.pc \notin HeldPCs
        /\ OnError(t).pc \in HeldPCs => t.pc \in HeldPCs /\ OnError(t).to = t.to
    BY <1>g, ErrorClaimsNode
  <1>x. ASSUME Become(p, IdleTask) \/ Become(p, OnError(t)) PROVE NodesHeld'
    BY <1>e, <1>i, <1>x
  <1>1. CASE Starts(p)
    <2>1. ASSUME NEW s, Become(p, s),
                 \/ s.pc \in {"delUser", "saveUser", "register"}
                 \/ s.pc = "allocate" /\ s.op \notin NamedOps
                 \/ s.pc \in {"checkRoute", "checkNode"} /\ s.op \in NamedOps
          PROVE  NodesHeld'
      <3>1. BindClaim(s) /\ s.pc \notin HeldPCs
        BY <2>1 DEF BindClaim, HeldPCs, DeletedPCs, BindPCs, SwitchPCs
      <3>2. QED
        BY <1>i, <2>1, <3>1
    <2>2. QED
      BY <1>1, <2>1, ZenonT(60) DEF Starts, Request, CreateUser, SwitchUserRouteNode, DeleteUser,
             ModifyUser, StartOrStopUser, TrafficTimer, ServeWS, ServeBrowser, IdleTask, NamedOps
  <1>2. CASE CallFails(p)
    BY <1>2, <1>t, <1>x DEF CallFails
  <1>3. CASE Reads(p)
    <2> USE <1>g DEF Kept, Task, At, BindClaim, HeldPCs, DeletedPCs, BindPCs, SwitchPCs
    <2>1. CASE CheckRoute(p)
      <3> DEFINE s == [t EXCEPT !.pc = IF t.op = "modify" THEN "getUser" ELSE "bindRead"]
      <3>1. bindUser[t.to] = None => Kept(s)
        BY <1>t, <2>1 DEF CheckRoute, GoodTask, Holds, ToPCs
      <3> HIDE DEF Kept
      <3>2. QED
        BY <1>i, <1>t, <1>x, <2>1, <3>1 DEF CheckRoute
    <2>2. CASE GetUserToModify(p)
      <3>1. Kept([t EXCEPT !.pc = "switchFrom", !.rec = user[t.u]])
        BY <1>t, <2>2 DEF GetUserToModify
      <3> HIDE DEF Kept
      <3>2. QED
        BY <1>i, <1>t, <1>x, <2>2, <3>1 DEF GetUserToModify
    <2>3. CASE CheckNode(p)
      <3>1. bindUser[t.to] = None => Kept([t EXCEPT !.pc = "checkOnline"])
        BY <1>t, <2>3 DEF CheckNode, GoodTask, Holds, ToPCs
      <3> HIDE DEF Kept
      <3>2. QED
        BY <1>i, <1>t, <1>x, <2>3, <3>1 DEF CheckNode
    <2>4. CASE CheckOnline(p)
      <3>1. Kept([t EXCEPT !.pc = "switchFrom"])
        BY <1>t, <2>4 DEF CheckOnline
      <3> HIDE DEF Kept
      <3>2. QED
        BY <1>i, <1>t, <1>x, <2>4, <3>1 DEF CheckOnline, Goto, Return, Become
    <2>5. CASE BindRead(p)
      <3>1. Kept([t EXCEPT !.pc = "bindOnline", !.bound = bindUser[t.to] # None])
        BY <1>t, <2>5 DEF BindRead
      <3> HIDE DEF Kept
      <3>2. QED
        BY <1>i, <1>t, <1>x, <2>5, <3>1 DEF BindRead
    <2>6. CASE BindOnline(p)
      <3>1. Kept([t EXCEPT !.pc = "bindTx", !.on = t.to \in online]) /\ ~t.bound
        BY <1>t, <2>6 DEF BindOnline
      <3> HIDE DEF Kept
      <3>2. QED
        BY <1>i, <1>t, <1>x, <2>6, <3>1 DEF BindOnline
    <2>7. CASE UnbindRead(p)
      <3>1. Kept([t EXCEPT !.pc = "unbindTx", !.on = t.rec.route \in online])
        BY <1>t, <2>7 DEF UnbindRead
      <3> HIDE DEF Kept
      <3>2. QED
        BY <1>i, <1>t, <1>x, <2>7, <3>1 DEF UnbindRead
    <2>8. CASE SwitchFrom(p)
      <3>1. Kept([t EXCEPT !.pc = "switchTo", !.on = t.rec.route \in online])
        BY <1>t, <2>8 DEF SwitchFrom
      <3> HIDE DEF Kept
      <3>2. QED
        BY <1>i, <1>t, <1>x, <2>8, <3>1 DEF SwitchFrom
    <2>9. CASE SwitchTo(p)
      <3>1. Kept([t EXCEPT !.pc = "switchTx"])
        BY <1>t, <2>9 DEF SwitchTo
      <3> HIDE DEF Kept
      <3>2. QED
        BY <1>i, <1>t, <1>x, <2>9, <3>1 DEF SwitchTo
    <2>10. QED
      BY <1>3, <2>1, <2>2, <2>3, <2>4, <2>5, <2>6, <2>7, <2>8, <2>9 DEF Reads
  <1>4. QED
    BY <1>1, <1>2, <1>3

\* The steps of a websocket bind no node and free none that is a target.
LEMMA ConnsKeepNodes ==
  ASSUME IInv, ConnsHeld, NodesHeld, ~RecordConflict, NEW p \in Conn, ConnMoves(p)
  PROVE  NodesHeld'
  <1>t. PICK t : t = task[p]
    OBVIOUS
  <1>g. GoodTask(t, nodeZset) /\ t \in Task /\ BindClaim(t) /\ task \in [Proc -> Task] /\ p \in Proc
    BY <1>t DEF IInv, TypeOK, TasksOK, GoodTask, NodesHeld, Proc
  <1>s. Step(p)
    BY DEF Step
  <1>i. ASSUME NEW s, Become(p, s) \/ Written(p, s), s.pc \notin HeldPCs \cup DeletedPCs,
               s.pc \notin {"checkRoute", "checkNode"}, s.pc = "allocate" => s.op \notin NamedOps,
               t.pc \notin HeldPCs
        PROVE  BindClaim(task[p])' /\ task'[p].pc \notin HeldPCs
    <2>1. task'[p] \in {s, OnError(t)}
      BY <1>g, <1>t, <1>i DEF Become, Written
    <2>2. OnError(t).pc \notin HeldPCs \cup DeletedPCs \cup {"checkRoute", "checkNode", "allocate"}
      BY <1>g, <1>i DEF OnError, IdleTask, Task, HeldPCs, DeletedPCs, BindPCs, SwitchPCs
    <2>3. QED
      BY <1>i, <2>1, <2>2 DEF BindClaim, HeldPCs, DeletedPCs, BindPCs, SwitchPCs
  <1>c. BindClaim(task[p])' /\ task'[p].pc \notin HeldPCs
    <2> USE <1>g, <1>t DEF At, Task, HeldPCs, DeletedPCs, BindPCs, SwitchPCs
    <2>1. CASE SetNodeAndZadd(p) \/ SetNodeOnline(p)
      BY <1>i, <2>1 DEF SetNodeAndZadd, SetNodeOnline
    <2>2. CASE AddFreeOnAccept(p) \/ ServeReturns(p) \/ SetNodeOffline(p)
      BY <1>i, <2>2 DEF AddFreeOnAccept, ServeReturns, SetNodeOffline, Goto, Return, Become, IdleTask
    <2>3. CASE OfflineGetNode(p)
      BY <1>i, <2>3 DEF OfflineGetNode
    <2>4. CASE RemoveFreeNode(p)
      <3>1. Become(p, IdleTask)
        BY <2>4 DEF RemoveFreeNode, Return, Become
      <3>2. QED
        BY <1>i, <2>4, <3>1 DEF RemoveFreeNode, IdleTask
    <2>5. CASE SwithNodeForUser(p)
      <3>1. t.op \notin NamedOps
        BY DEF ConnsHeld, NamedOps
      <3>2. QED
        BY <1>i, <2>5, <3>1 DEF SwithNodeForUser, IdleTask
    <2>6. QED
      BY <2>1, <2>2, <2>3, <2>4, <2>5 DEF ConnMoves
  <1>1. CASE ~AddFreeOnAccept(p)
    <2>1. bindUser' = bindUser
      <3>1. CASE SetNodeAndZadd(p)
        <4>1. t.u = bindUser[t.n]
          BY <1>t, <3>1 DEF RecordConflict, SetNodeAndZadd, At, RegisterPCs
        <4>2. QED
          BY <1>t, <3>1, <4>1 DEF SetNodeAndZadd, IInv, TypeOK
      <3>2. CASE ~SetNodeAndZadd(p)
        BY <1>1, <3>2 DEF ConnMoves, SetNodeOnline, ServeReturns, SetNodeOffline,
               OfflineGetNode, RemoveFreeNode, SwithNodeForUser, redis
      <3>3. QED
        BY <3>1, <3>2
    <2>2. nodeFree' \subseteq nodeFree /\ user' = user
      BY <1>1 DEF ConnMoves, SetNodeAndZadd, SetNodeOnline, ServeReturns, SetNodeOffline,
             OfflineGetNode, RemoveFreeNode, SwithNodeForUser, redis
    <2>3. QED
      BY <1>g, <1>c, <1>s, <2>1, <2>2, NodesStay
  <1>2. CASE AddFreeOnAccept(p)
    <2>1. /\ bindUser[t.n] = None
          /\ \A q \in Proc : task[q].to # t.n
      BY <1>g, <1>t, <1>2 DEF ConnsHeld, RecordConflict, AddFreeOnAccept, At, RegisterPCs
    <2>2. /\ nodeFree' = nodeFree \cup {t.n} /\ bindUser' = bindUser /\ user' = user
          /\ \A q \in Proc : q # p => task'[q] = task[q]
      BY <1>g, <1>s, <1>t, <1>2, OthersStay DEF AddFreeOnAccept
    <2>3. \A q \in Proc : q # p => BindClaim(task[q])'
      BY <2>1, <2>2 DEF NodesHeld, BindClaim
    <2>4. /\ \A n \in nodeFree' : bindUser'[n] = None
          /\ \A u \in User : user'[u] # None => bindUser'[user'[u].route] = u
      BY <2>1, <2>2 DEF NodesHeld
    <2>5. QED
      BY <1>g, <1>c, <1>s, <2>3, <2>4, NodesParts
  <1>3. QED
    BY <1>1, <1>2

\* A node taken out of node:free is a target nobody else holds.
LEMMA AllocateKeepsNodes ==
  ASSUME IInv, NodesHeld, ~TargetConflict', NEW p \in Proc, AllocateFreeNode(p)
  PROVE  NodesHeld'
  <1>t. PICK t : t = task[p]
    OBVIOUS
  <1>g. t \in Task /\ task \in [Proc -> Task] /\ Step(p) /\ t.pc = "allocate"
    BY <1>t DEF IInv, TypeOK, Step, AllocateFreeNode, At
  <1>o. \A q \in Proc : q # p => task'[q] = task[q]
    BY <1>g, OthersStay
  <1>x. ASSUME task'[p] = IdleTask
        PROVE  BindClaim(task[p])' /\ task'[p].pc \notin HeldPCs
    BY <1>x DEF BindClaim, IdleTask, HeldPCs, DeletedPCs, BindPCs, SwitchPCs
  <1>f. UNCHANGED <<bindUser, user>> /\ nodeFree' \subseteq nodeFree
    BY DEF AllocateFreeNode
  <1>1. CASE task'[p] = IdleTask
    BY <1>f, <1>g, <1>x, <1>1, NodesStay
  <1>2. CASE task'[p] # IdleTask
    <2>1. PICK n \in nodeFree :
             /\ nodeFree' = nodeFree \ {n}
             /\ Written(p, [task[p] EXCEPT !.to = n,
                   !.pc = IF task[p].op = "create" THEN "bindRead" ELSE "switchFrom"])
      BY <1>g, <1>2 DEF AllocateFreeNode, Return, Become
    <2>2. OnError(t) = IdleTask
      BY <1>g DEF OnError, SwitchPCs
    <2>3. task'[p] = [t EXCEPT !.to = n, !.pc = IF t.op = "create" THEN "bindRead" ELSE "switchFrom"]
      BY <1>g, <1>t, <1>2, <2>1, <2>2 DEF Written, Become
    <2>4. task'[p].to = n /\ task'[p].pc \in {"bindRead", "switchFrom"} /\ n \in Node
      BY <1>g, <2>3 DEF Task, IInv, TypeOK
    <2>5. bindUser[n] = None
      BY DEF NodesHeld
    <2>6. BindClaim(task[p])'
      BY <1>f, <2>1, <2>4, <2>5 DEF BindClaim, DeletedPCs
    <2>7. ASSUME NEW q \in Proc, q # p, task[q].pc \in HeldPCs
          PROVE  task[q].to # n
      <3>1. task[q].op \in NamedOps => task[q].to # n
        BY <1>o, <2>4, <2>7 DEF TargetConflict
      <3>2. task[q].op \notin NamedOps => task[q].to \notin nodeFree
        BY <2>7 DEF NodesHeld, BindClaim
      <3>3. QED
        BY <3>1, <3>2
    <2>8. QED
      BY <1>f, <1>g, <2>4, <2>6, <2>7, NodesStay
  <1>3. QED
    BY <1>1, <1>2

\* Giving a node back, deleting, listing and saving a user, dropping its route
\* from the cache: no node is bound otherwise than before.
LEMMA UnboundKeepNodes ==
  ASSUME IInv, UsersHeld, NodesHeld, NEW p \in Proc,
         AddFreeNode(p) \/ DeleteUserCache(p) \/ DelUser(p) \/ ZremUser(p) \/ SaveUser(p)
  PROVE  NodesHeld'
  <1>t. PICK t : t = task[p]
    OBVIOUS
  <1>g. /\ GoodTask(t, nodeZset) /\ t \in Task /\ BindClaim(t) /\ UserClaim(t, TRUE)
        /\ task \in [Proc -> Task] /\ user \in [User -> UserRec \cup {None}] /\ Step(p)
    BY <1>t DEF IInv, TypeOK, TasksOK, GoodTask, NodesHeld, UsersHeld, Step, UserWrites
  <1>o. \A q \in Proc : q # p => task'[q] = task[q]
    BY <1>g, OthersStay
  <1>i. ASSUME NEW s, Become(p, s) \/ Written(p, s), t.pc \notin HeldPCs \/ Become(p, s),
               s.pc \in {"idle", "dropCache"}
        PROVE  BindClaim(task[p])' /\ task'[p].pc \notin HeldPCs
    <2>1. task'[p] \in {s, OnError(t)} /\ (t.pc \in HeldPCs => task'[p] = s)
      BY <1>g, <1>t, <1>i DEF Become, Written
    <2>2. t.pc \notin HeldPCs => OnError(t).pc \notin HeldPCs \cup DeletedPCs \cup {"checkRoute", "checkNode", "allocate"}
      BY <1>g DEF OnError, IdleTask, Task, HeldPCs, DeletedPCs, BindPCs, SwitchPCs
    <2>3. QED
      BY <1>i, <2>1, <2>2 DEF BindClaim, HeldPCs, DeletedPCs, BindPCs, SwitchPCs
  <1>0. IdleTask.pc = "idle"
    BY DEF IdleTask
  <1>1. CASE AddFreeNode(p)
    <2>1. t.pc = "addFree" /\ Become(p, IdleTask) /\ t.to \in Node
      BY <1>g, <1>t, <1>1 DEF AddFreeNode, At, Return, Become, GoodTask, Holds, ToPCs
    <2>2. BindClaim(task[p])' /\ task'[p].pc \notin HeldPCs
      BY <1>0, <1>i, <2>1
    <2>3. /\ bindUser[t.to] = None
          /\ \A q \in Proc : q # p /\ task[q].pc \in HeldPCs => task[q].to # t.to
      BY <1>g, <1>t, <2>1 DEF BindClaim, HeldPCs, NodesHeld, Distinct
    <2>4. nodeFree' = nodeFree \cup {t.to} /\ bindUser' = bindUser /\ user' = user
      BY <1>t, <1>1 DEF AddFreeNode
    <2>5. \A q \in Proc : q # p => BindClaim(task[q])'
      BY <1>o, <2>3, <2>4 DEF NodesHeld, BindClaim
    <2>6. /\ \A n \in nodeFree' : bindUser'[n] = None
          /\ \A u \in User : user'[u] # None => bindUser'[user'[u].route] = u
      BY <2>3, <2>4 DEF NodesHeld
    <2>7. QED
      BY <1>g, <2>2, <2>5, <2>6, NodesParts
  <1>2. CASE DeleteUserCache(p)
    <2>1. BindClaim(task[p])' /\ task'[p].pc \notin HeldPCs
      BY <1>0, <1>2, <1>i DEF DeleteUserCache, Return, Become
    <2>2. UNCHANGED <<bindUser, nodeFree, user>>
      BY <1>2 DEF DeleteUserCache, redis
    <2>3. QED
      BY <1>g, <2>1, <2>2, NodesStay
  <1>3. CASE SaveUser(p)
    <2>1. t.pc = "saveUser" /\ t.u \in User
      BY <1>g, <1>t, <1>3 DEF SaveUser, At, GoodTask, Holds, UserPCs
    <2>2. ASSUME NEW s, Written(p, s), s.pc \in {"idle", "dropCache"}
          PROVE  BindClaim(task[p])' /\ task'[p].pc \notin HeldPCs
      BY <1>i, <2>1, <2>2 DEF HeldPCs, BindPCs, SwitchPCs
    <2>3. [t EXCEPT !.pc = "dropCache"].pc = "dropCache"
      BY <1>g DEF Task
    <2>4. BindClaim(task[p])' /\ task'[p].pc \notin HeldPCs
      BY <1>0, <1>t, <1>3, <2>2, <2>3 DEF SaveUser
    <2>5. /\ UNCHANGED <<bindUser, nodeFree>>
          /\ \A u \in User : user'[u] # None => user[u] # None /\ user'[u].route = user[u].route
      BY <1>g, <1>t, <1>3, <2>1 DEF SaveUser, nodeTables, UserClaim, HasCopy
    <2>6. QED
      BY <1>g, <2>4, <2>5, NodesStay
  \* The node of the deleted user is bound to it, as it was when it was stored.
  <1>4. CASE DelUser(p) \/ ZremUser(p)
    <2>1. t.pc \in {"delUser", "zremUser"} /\ t.u \in User /\ bindUser[t.rec.route] = t.u
      BY <1>g, <1>t, <1>4 DEF DelUser, ZremUser, At, GoodTask, Holds, UserPCs, UserClaim, HasCopy,
             BindClaim, DeletedPCs, NodesHeld
    <2>2. UNCHANGED <<bindUser, nodeFree>>
      BY <1>4 DEF DelUser, ZremUser, nodeTables
    <2>3. OnError(t) = IdleTask
      BY <2>1 DEF OnError, SwitchPCs
    <2>4. \/ task'[p] = IdleTask
          \/ task'[p] = [t EXCEPT !.pc = "zremUser"]
          \/ task'[p] = [t EXCEPT !.pc = "unbindRead"]
      BY <1>g, <1>t, <1>4, <2>3 DEF DelUser, ZremUser, Written, Become
    <2>5. BindClaim(task[p])' /\ task'[p].pc \notin HeldPCs
      BY <1>g, <2>1, <2>2, <2>4 DEF BindClaim, IdleTask, Task, HeldPCs, DeletedPCs, BindPCs, SwitchPCs
    <2>6. \A u \in User : user'[u] # None => user[u] # None /\ user'[u].route = user[u].route
      BY <1>g, <1>t, <1>4, <2>1 DEF DelUser, ZremUser
    <2>7. QED
      BY <1>g, <2>2, <2>5, <2>6, NodesStay
  <1>5. QED
    BY <1>1, <1>2, <1>3, <1>4

\* Two goroutines that hold nodes of users do not hold that of one user.
LEMMA OwnersDiffer ==
  ASSUME IInv, ~UserConflict, NEW p \in Proc, NEW q \in Proc, p # q,
         task[p].pc \in DeletedPCs \cup {"switchTx"}, task[q].pc \in DeletedPCs
  PROVE  task[p].u # task[q].u
  <1>1. ASSUME NEW r \in {p, q}
        PROVE  task[r].u # None /\ InFlight(r) /\ task[r].pc \notin RegisterPCs
    BY DEF IInv, TasksOK, Holds, UserPCs, DeletedPCs, SwitchPCs, InFlight, RegisterPCs
  <1>2. QED
    BY <1>1 DEF UserConflict

LEMMA UnbindKeepsNodes ==
  ASSUME IInv, UsersHeld, NodesHeld, ~UserConflict, NEW p \in Proc, UnbindNode(p)
  PROVE  NodesHeld'
  <1>t. PICK t : t = task[p]
    OBVIOUS
  <1> DEFINE r == t.rec.route
  <1>g. /\ GoodTask(t, nodeZset) /\ t \in Task /\ BindClaim(t) /\ UserClaim(t, TRUE)
        /\ task \in [Proc -> Task] /\ Step(p) /\ t.pc = "unbindTx"
        /\ bindUser \in [Node -> UserOrNone] /\ nodeZset \subseteq Node
    BY <1>t DEF IInv, TypeOK, TasksOK, GoodTask, NodesHeld, UsersHeld, Step, UnbindNode, At
  <1>o. \A q \in Proc : q # p => task'[q] = task[q]
    BY <1>g, OthersStay
  <1>1. r \in Node /\ t.u \in User /\ bindUser[r] = t.u /\ user[t.u] = None
    BY <1>g DEF GoodTask, Holds, Registered, RecPCs, UserPCs, BindClaim, UserClaim, DeletedPCs
  <1>2. /\ bindUser' = [bindUser EXCEPT ![r] = None] /\ nodeFree' \subseteq nodeFree \cup {r}
        /\ user' = user
    BY <1>t DEF UnbindNode
  <1>3. \A n \in nodeFree' : bindUser'[n] = None
    BY <1>1, <1>2, <1>g DEF NodesHeld, IInv, TypeOK
  <1>4. ASSUME NEW u \in User, user'[u] # None
        PROVE  bindUser'[user'[u].route] = u
    BY <1>1, <1>2, <1>4, <1>g DEF NodesHeld
  <1>5. ASSUME NEW q \in Proc, q # p
        PROVE  BindClaim(task[q])'
    <2>1. BindClaim(task[q]) /\ task'[q] = task[q]
      BY <1>o, <1>5 DEF NodesHeld
    <2>2. task[q].pc \in HeldPCs => task[q].to # r
      BY <1>1, <2>1 DEF BindClaim
    <2>3. task[q].pc \in DeletedPCs => task[q].rec.route # r
      BY <1>1, <1>5, <1>g, <1>t, <2>1, OwnersDiffer DEF BindClaim, DeletedPCs
    <2>4. task[q].pc \in HeldPCs => task[q].to \in Node
      BY <1>g DEF IInv, TasksOK, Holds, HeldPCs, ToPCs
    <2>5. QED
      BY <1>2, <1>g, <2>1, <2>2, <2>3, <2>4 DEF BindClaim
  <1>6. BindClaim(task[p])' /\ task'[p].pc \notin HeldPCs
    <2>1. task'[p] \in {IdleTask, [t EXCEPT !.pc = "dropCache"]}
      BY <1>g, <1>t DEF UnbindNode, Written, Become, OnError, SwitchPCs
    <2>2. QED
      BY <1>g, <2>1 DEF BindClaim, IdleTask, Task, HeldPCs, DeletedPCs, BindPCs, SwitchPCs
  <1>7. QED
    BY <1>3, <1>4, <1>5, <1>6, <1>g, NodesParts

\* The two transactions that bind the target: it was bound to nobody, so it is
\* no one else's route and no one else's target.
LEMMA BindKeepsNodes ==
  ASSUME IInv, UsersHeld, NodesHeld, ~UserConflict, NEW p \in Proc, ~LostReply(p),
         BindNodeWithNewUser(p) \/ SwitchNodeByUser(p)
  PROVE  NodesHeld'
  <1>t. PICK t : t = task[p]
    OBVIOUS
  <1> DEFINE Binding == t.pc = "bindTx"
             from == t.rec.route
  <1>g. /\ GoodTask(t, nodeZset) /\ t \in Task /\ BindClaim(t) /\ UserClaim(t, TRUE)
        /\ task \in [Proc -> Task] /\ Step(p)
        /\ bindUser \in [Node -> UserOrNone] /\ nodeZset \subseteq Node
        /\ user \in [User -> UserRec \cup {None}]
    BY <1>t DEF IInv, TypeOK, TasksOK, GoodTask, NodesHeld, UsersHeld, Step, UserWrites
  <1>c. \/ BindNodeWithNewUser(p) /\ t.pc = "bindTx"
        \/ SwitchNodeByUser(p) /\ t.pc = "switchTx"
    BY <1>t DEF BindNodeWithNewUser, SwitchNodeByUser, At
  <1>o. \A q \in Proc : q # p => task'[q] = task[q]
    BY <1>g, OthersStay
  <1>1. /\ t.to \in Node /\ t.u \in User /\ bindUser[t.to] = None
        /\ \A q \in Proc : q # p /\ task[q].pc \in HeldPCs => task[q].to # t.to
    BY <1>c, <1>g, <1>t DEF GoodTask, Holds, ToPCs, UserPCs, BindClaim, HeldPCs, BindPCs, SwitchPCs,
           NodesHeld, Distinct
  \* The old route is the user's own.
  <1>2. ~Binding => /\ from \in Node /\ bindUser[from] = t.u /\ t.rec \in UserRec
                    /\ user[t.u] # None /\ user[t.u].route = from
    BY <1>1, <1>c, <1>g DEF GoodTask, Holds, Registered, RecPCs, SwitchPCs, UserClaim, HasCopy, NodesHeld
  <1>b. bindUser' = IF Binding THEN [bindUser EXCEPT ![t.to] = t.u]
                    ELSE [bindUser EXCEPT ![from] = None, ![t.to] = t.u]
    BY <1>c, <1>t DEF BindNodeWithNewUser, SwitchNodeByUser
  <1>3. /\ bindUser'[t.to] = t.u
        /\ ~Binding => bindUser'[from] = None
        /\ \A n \in Node : n # t.to /\ (Binding \/ n # from) => bindUser'[n] = bindUser[n]
    BY <1>1, <1>2, <1>b, <1>g
  <1>4. /\ t.to \notin nodeFree'
        /\ \A n \in nodeFree' : n \in nodeFree \/ (~Binding /\ n = from)
    BY <1>c, <1>t DEF BindNodeWithNewUser, SwitchNodeByUser
  <1>5. /\ user'[t.u] # None /\ user'[t.u].route = t.to
        /\ \A u \in User : u # t.u => user'[u] = user[u]
    <2>1. CASE Binding
      <3> DEFINE new == [route |-> t.to, off |-> FALSE]
      <3>1. user' = [user EXCEPT ![t.u] = new]
        BY <1>c, <1>t, <2>1 DEF BindNodeWithNewUser
      <3>2. new \in UserRec /\ new.route = t.to
        BY <1>1 DEF UserRec
      <3> HIDE DEF new
      <3>3. QED
        BY <1>1, <1>g, <3>1, <3>2
    <2>2. CASE ~Binding
      BY <1>1, <1>2, <1>c, <1>g, <1>t, <2>2 DEF SwitchNodeByUser, UserRec
    <2>3. QED
      BY <2>1, <2>2
  <1>6. \A n \in nodeFree' : bindUser'[n] = None
    BY <1>3, <1>4 DEF NodesHeld, IInv, TypeOK
  <1>7. ASSUME NEW u \in User, user'[u] # None
        PROVE  bindUser'[user'[u].route] = u
    <2>1. CASE u = t.u
      BY <1>3, <1>5, <2>1
    <2>2. CASE u # t.u
      <3>1. user[u].route \in Node /\ bindUser[user[u].route] = u /\ user'[u] = user[u]
        BY <1>5, <1>7, <1>g, <2>2 DEF NodesHeld, UserRec
      <3>2. QED
        BY <1>1, <1>2, <1>3, <2>2, <3>1
    <2>3. QED
      BY <2>1, <2>2
  <1>8. ASSUME NEW q \in Proc, q # p
        PROVE  BindClaim(task[q])'
    <2>1. BindClaim(task[q]) /\ task'[q] = task[q]
      BY <1>o, <1>8 DEF NodesHeld
    <2>2. task[q].pc \in HeldPCs =>
             task[q].to \in Node /\ task[q].to # t.to /\ (~Binding => task[q].to # from)
      BY <1>1, <1>2, <1>8, <2>1 DEF BindClaim, IInv, TasksOK, Holds, HeldPCs, ToPCs
    <2>3. task[q].pc \in DeletedPCs =>
             /\ task[q].rec.route \in Node /\ task[q].u # None /\ task[q].rec.route # t.to
             /\ ~Binding => task[q].rec.route # from
      <3>1. task[q].pc \in DeletedPCs =>
               task[q].rec \in UserRec /\ task[q].u \in User /\ bindUser[task[q].rec.route] = task[q].u
        BY <2>1 DEF BindClaim, IInv, TasksOK, Holds, RecPCs, UserPCs, DeletedPCs
      <3>2. ~Binding /\ task[q].pc \in DeletedPCs => task[q].u # t.u
        BY <1>8, <1>c, <1>t, OwnersDiffer
      <3>3. QED
        BY <1>1, <1>2, <3>1, <3>2 DEF UserRec
    <2>4. QED
      BY <1>3, <1>4, <2>1, <2>2, <2>3 DEF BindClaim
  \* A reply that is lost was excluded: what follows is what follows the reply.
  <1>9. BindClaim(task[p])' /\ task'[p].pc \notin HeldPCs
    <2>1. redis' # redis
      BY <1>1, <1>3 DEF redis
    <2>2. task'[p] \in {IdleTask, [t EXCEPT !.pc = "dropCache"]} \/ task'[p] = OnError(t)
      BY <1>c, <1>g, <1>t DEF BindNodeWithNewUser, SwitchNodeByUser, Written, Become
    <2>3. task'[p] = OnError(t) => OnError(t) = IdleTask \/ "reply" \notin Faults
      BY <1>c, <1>t, <2>1 DEF LostReply, OnError, SwitchPCs
    <2>4. task'[p] \in {IdleTask, [t EXCEPT !.pc = "dropCache"]}
      BY <1>c, <1>g, <1>t, <2>2, <2>3 DEF BindNodeWithNewUser, SwitchNodeByUser, Written, Become
    <2>5. QED
      BY <1>g, <2>4 DEF BindClaim, IdleTask, Task, HeldPCs, DeletedPCs, BindPCs, SwitchPCs
  <1>10. QED
    BY <1>6, <1>7, <1>8, <1>9, <1>g, NodesParts

LEMMA NodesStep ==
  ASSUME IInv, ConnsHeld, UsersHeld, NodesHeld, ~UserConflict, ~TargetConflict, ~TargetConflict',
         ~RecordConflict, \A p \in Proc : ~LostReply(p), [Next]_vars
  PROVE  NodesHeld'
  <1>1. ASSUME NEW p \in Proc, Step(p) PROVE NodesHeld'
    BY <1>1, ReadsKeepNodes, ConnsKeepNodes, AllocateKeepsNodes, UnboundKeepNodes,
       UnbindKeepsNodes, BindKeepsNodes DEF Step, UserWrites
  <1>2. ASSUME UNCHANGED <<bindUser, user>>, nodeFree' \subseteq nodeFree,
               \A p \in Proc : task'[p] \in {task[p], IdleTask}
        PROVE  NodesHeld'
    <2>1. IdleTask.pc = "idle"
      BY DEF IdleTask
    <2>2. ASSUME NEW p \in Proc PROVE BindClaim(task[p])'
      <3>1. CASE task'[p] = IdleTask
        BY <2>1, <3>1 DEF BindClaim, HeldPCs, DeletedPCs, BindPCs, SwitchPCs
      <3>2. CASE task'[p] = task[p]
        BY <1>2, <3>2 DEF NodesHeld, BindClaim
      <3>3. QED
        BY <1>2, <3>1, <3>2
    <2>3. Distinct'
      BY <1>2, <2>1 DEF NodesHeld, Distinct, HeldPCs, BindPCs, SwitchPCs
    <2>4. QED
      BY <1>2, <2>2, <2>3 DEF NodesHeld
  <1>3. CASE CacheOrCrash \/ UNCHANGED vars
    <2>1. task \in [Proc -> Task]
      BY DEF IInv, TypeOK
    <2>2. QED
      BY <1>2, <1>3, <2>1 DEF CacheOrCrash, CacheMiss, CacheSet, RpcCrash, ApiCrash,
             OnlineExpires, FreeExpires, NewTunnelManager, redis, vars
  <1>4. QED
    BY <1>1, <1>3, NextIsStep

-----------------------------------------------------------------------------
(* node:free: as long as the only fault is a crash of the api service and   *)
(* no conflict but that of the cache occurred.                              *)

\* Once a browser always one, until the api service stops.
BrowsedStay == apiUp' => browsed \cap Node \subseteq browsed'

\* Whatever explains where a node is, only the goroutine that does it ends it.
LEMMA Elsewhere ==
  ASSUME NEW p \in Proc, Step(p), task \in [Proc -> Task], NEW n
  PROVE  LET t == task[p] IN
         /\ ConnAt(n, ServedPCs) =>
              ConnAt(n, ServedPCs)' \/ (p \in Conn /\ t.n = n /\ t.pc \in ServedPCs)
         /\ ConnAt(n, LeavingPCs) =>
              ConnAt(n, LeavingPCs)' \/ (p \in Conn /\ t.n = n /\ t.pc \in LeavingPCs)
         /\ ConnAt(n, {"connFree"}) =>
              ConnAt(n, {"connFree"})' \/ (p \in Conn /\ t.n = n /\ t.pc = "connFree")
         /\ Allocated(n) =>
              Allocated(n)' \/ (t.pc \in HeldPCs /\ t.op \notin NamedOps /\ t.to = n)
  <1>1. \A q \in Proc : q # p => task'[q] = task[q]
    BY OthersStay
  <1>2. Conn \subseteq Proc
    BY DEF Proc
  <1>3. QED
    BY <1>1, <1>2 DEF ConnAt, Allocated

\* The tables of nodes stay, and so does what explains them.
LEMMA FreeStays ==
  ASSUME FreeOnItsWay, task \in [Proc -> Task], NEW p \in Proc, Step(p),
         online \subseteq Node, nodeFree \subseteq Node, BrowsedStay,
         UNCHANGED <<bindUser, online, nodeFree, apiUp>>,
         task[p].pc \notin ServedPCs \cup LeavingPCs,
         task'[p].pc \notin {"addFree"} \cup ServedPCs,
         task[p].pc \in HeldPCs /\ task[p].op \notin NamedOps =>
            task'[p].pc \in HeldPCs /\ task'[p].op = task[p].op /\ task'[p].to = task[p].to
  PROVE  FreeOnItsWay'
  <1>1. \A q \in Proc : q # p => task'[q] = task[q]
    BY OthersStay
  <1>2. \A n \in Node : /\ ConnAt(n, ServedPCs) => ConnAt(n, ServedPCs)'
                        /\ ConnAt(n, LeavingPCs) => ConnAt(n, LeavingPCs)'
                        /\ ConnAt(n, {"connFree"}) => ConnAt(n, {"connFree"})'
                        /\ Allocated(n) => Allocated(n)'
    <2>1. ASSUME NEW n, task[p].pc \in HeldPCs /\ task[p].op \notin NamedOps /\ task[p].to = n
          PROVE  Allocated(n)'
      BY <2>1 DEF Allocated
    <2>2. QED
      BY <2>1, Elsewhere DEF ServedPCs, LeavingPCs
  <1>3. Conn \subseteq Proc
    BY DEF Proc
  <1>4. (\A q \in Proc : task[q].pc # "addFree")'
    BY <1>1 DEF FreeOnItsWay
  <1>5. (\A c \in Conn : task[c].pc \in ServedPCs => task[c].n \in online)'
    BY <1>1, <1>3 DEF FreeOnItsWay
  <1> HIDE DEF ConnAt, Allocated
  <1>6. QED
    BY <1>2, <1>4, <1>5 DEF FreeOnItsWay, BrowsedStay

\* Reads and the begin of an operation give no target up: what they check of
\* an allocated target is still true.
LEMMA ReadsKeepFree ==
  ASSUME OnlyApiCrashes, IInv, NodesHeld, FreeOnItsWay, BrowsedStay, NEW p \in Proc,
         Starts(p) \/ Reads(p)
  PROVE  FreeOnItsWay'
  <1>t. PICK t : t = task[p]
    OBVIOUS
  <1>g. /\ GoodTask(t, nodeZset) /\ t \in Task /\ BindClaim(t) /\ task \in [Proc -> Task] /\ Step(p)
        /\ nodeFree \subseteq Node /\ online \subseteq Node
    BY <1>t DEF IInv, TypeOK, TasksOK, GoodTask, NodesHeld, Step
  <1>r. UNCHANGED <<bindUser, online, nodeFree, apiUp>>
    BY ZenonT(60) DEF redis, Starts, Request, CreateUser, SwitchUserRouteNode, DeleteUser,
           ModifyUser, StartOrStopUser, TrafficTimer, ServeWS, ServeBrowser, Reads, CheckRoute,
           GetUserToModify, CheckNode, CheckOnline, BindRead, BindOnline, UnbindRead,
           SwitchFrom, SwitchTo
  <1>i. ASSUME NEW s, Become(p, s), s.pc \notin {"addFree"} \cup ServedPCs,
               t.pc \notin ServedPCs \cup LeavingPCs,
               t.pc \in HeldPCs => t.op \in NamedOps \/ (s.pc \in HeldPCs /\ s.op = t.op /\ s.to = t.to)
        PROVE  FreeOnItsWay'
    <2>1. task'[p] = s
      BY <1>g, <1>i DEF Become
    <2>2. QED
      BY <1>g, <1>i, <1>r, <1>t, <2>1, FreeStays
  <1>1. CASE Starts(p)
    <2>1. t.pc = "idle"
      BY <1>1, <1>t, ZenonT(60) DEF Starts, Request, CreateUser, SwitchUserRouteNode, DeleteUser,
             ModifyUser, StartOrStopUser, TrafficTimer, ServeWS, ServeBrowser, At
    <2>2. ASSUME NEW s, Become(p, s),
                 s.pc \in {"allocate", "checkRoute", "checkNode", "delUser", "saveUser", "register"}
          PROVE  FreeOnItsWay'
      BY <1>i, <2>1, <2>2 DEF ServedPCs, LeavingPCs, HeldPCs, BindPCs, SwitchPCs
    <2>3. QED
      BY <1>1, <2>2, ZenonT(60) DEF Starts, Request, CreateUser, SwitchUserRouteNode, DeleteUser,
             ModifyUser, StartOrStopUser, TrafficTimer, ServeWS, ServeBrowser, IdleTask
  <1>2. CASE Reads(p)
    <2> USE <1>g, <1>t, <1>i, <1>2 DEF At, Task, ServedPCs, LeavingPCs, HeldPCs, BindPCs, SwitchPCs
    <2>a. t.pc \in HeldPCs => t.to \in nodeZset /\ bindUser[t.to] = None
      BY DEF GoodTask, Holds, Registered, ToPCs, BindClaim
    <2>1. CASE CheckRoute(p)
      BY <2>1 DEF CheckRoute, IdleTask
    <2>2. CASE GetUserToModify(p)
      BY <2>2 DEF GetUserToModify, BindClaim, IdleTask
    <2>3. CASE CheckNode(p)
      BY <2>3 DEF CheckNode, IdleTask
    <2>4. CASE CheckOnline(p)
      BY <2>4 DEF CheckOnline, BindClaim, Goto, Return, Become, IdleTask
    <2>5. CASE BindRead(p)
      BY <2>5, <2>a DEF BindRead
    <2>6. CASE BindOnline(p)
      BY <2>6 DEF BindOnline, BindClaim
    <2>7. CASE UnbindRead(p)
      BY <2>7 DEF UnbindRead, IdleTask
    <2>8. CASE SwitchFrom(p)
      <3>1. t.rec.route \in nodeZset
        BY <2>8 DEF SwitchFrom, GoodTask, Holds, Registered, RecPCs
      <3>2. QED
        BY <2>8, <3>1 DEF SwitchFrom
    <2>9. CASE SwitchTo(p)
      BY <2>9, <2>a DEF SwitchTo
    <2>10. QED
      BY <2>1, <2>2, <2>3, <2>4, <2>5, <2>6, <2>7, <2>8, <2>9 DEF Reads
  <1>3. QED
    BY <1>1, <1>2

\* So do the other steps that leave the tables of nodes as they are.
LEMMA UsersKeepFree ==
  ASSUME OnlyApiCrashes, IInv, ~RecordConflict, FreeOnItsWay, BrowsedStay, NEW p \in Proc,
         \/ DelUser(p) \/ ZremUser(p) \/ SaveUser(p) \/ DeleteUserCache(p)
         \/ p \in Conn /\ SetNodeAndZadd(p)
         \/ p \in Conn /\ SwithNodeForUser(p)
  PROVE  FreeOnItsWay'
  <1>t. PICK t : t = task[p]
    OBVIOUS
  <1>g. /\ t \in Task /\ task \in [Proc -> Task] /\ Step(p)
        /\ nodeFree \subseteq Node /\ online \subseteq Node /\ bindUser \in [Node -> UserOrNone]
    BY <1>t DEF IInv, TypeOK, Step, UserWrites, ConnMoves
  <1>p. t.pc \in {"delUser", "zremUser", "saveUser", "dropCache", "register", "offUser"}
    BY <1>t DEF DelUser, ZremUser, SaveUser, DeleteUserCache, SetNodeAndZadd, SwithNodeForUser, At
  <1>s. task'[p].pc \in {"idle", "zremUser", "unbindRead", "dropCache", "setOnline", "allocate"}
    <2>1. ASSUME NEW s, Become(p, s) \/ Written(p, s),
                 s.pc \in {"idle", "zremUser", "unbindRead", "dropCache", "setOnline", "allocate"}
          PROVE  task'[p].pc \in {"idle", "zremUser", "unbindRead", "dropCache", "setOnline", "allocate"}
      BY <1>g, <2>1 DEF OnlyApiCrashes, Written, Become
    <2>2. CASE DeleteUserCache(p)
      BY <1>g, <2>2 DEF DeleteUserCache, Return, IdleTask
    <2>3. CASE ~DeleteUserCache(p)
      BY <1>g, <1>t, <2>1, <2>3 DEF DelUser, ZremUser, SaveUser, SetNodeAndZadd,
             SwithNodeForUser, Task, IdleTask
    <2>4. QED
      BY <2>2, <2>3
  <1>r. UNCHANGED <<bindUser, online, nodeFree, apiUp>>
    <2>1. CASE p \in Conn /\ SetNodeAndZadd(p)
      <3>1. t.u = bindUser[t.n]
        BY <1>t, <2>1 DEF RecordConflict, SetNodeAndZadd, At, RegisterPCs
      <3>2. QED
        BY <1>g, <1>t, <2>1, <3>1 DEF SetNodeAndZadd
    <2>2. CASE ~(p \in Conn /\ SetNodeAndZadd(p))
      BY <2>2 DEF DelUser, ZremUser, SaveUser, DeleteUserCache, SwithNodeForUser, redis, nodeTables
    <2>3. QED
      BY <2>1, <2>2
  <1>q. QED
    BY <1>g, <1>p, <1>r, <1>s, <1>t, FreeStays DEF ServedPCs, LeavingPCs, HeldPCs, BindPCs, SwitchPCs

\* The invariant from its parts, after the step of one goroutine.
LEMMA FreeParts ==
  ASSUME FreeOnItsWay, task \in [Proc -> Task], NEW p \in Proc, Step(p), apiUp' = apiUp,
         task'[p].pc # "addFree",
         \A c \in Conn \ {p} : task[c].pc \in ServedPCs => task[c].n \in online',
         p \in Conn /\ task'[p].pc \in ServedPCs => task'[p].n \in online',
         apiUp => /\ \A n \in online' : ConnAt(n, ServedPCs)'
                  /\ \A n \in nodeFree' \ online' : ConnAt(n, LeavingPCs)' \/ n \in browsed'
                  /\ \A n \in online' \ nodeFree' :
                        bindUser'[n] = None => Allocated(n)' \/ ConnAt(n, {"connFree"})'
  PROVE  FreeOnItsWay'
  <1>1. \A q \in Proc : q # p => task'[q] = task[q]
    BY OthersStay
  <1>2. Conn \subseteq Proc
    BY DEF Proc
  <1>3. (\A q \in Proc : task[q].pc # "addFree")'
    BY <1>1 DEF FreeOnItsWay
  <1>4. (\A c \in Conn : task[c].pc \in ServedPCs => task[c].n \in online)'
    BY <1>1, <1>2
  <1> HIDE DEF ConnAt, Allocated
  <1>5. QED
    BY <1>3, <1>4 DEF FreeOnItsWay

\* The transactions: a node that is no longer bound is free if it is online,
\* as its flag, read before, is still true; one that is bound is not free.
LEMMA TransactionsKeepFree ==
  ASSUME OnlyApiCrashes, IInv, UsersHeld, NodesHeld, ~OnlineConflict, FreeOnItsWay, BrowsedStay,
         NEW p \in Proc,
         BindNodeWithNewUser(p) \/ SwitchNodeByUser(p) \/ UnbindNode(p)
  PROVE  FreeOnItsWay'
  <1>t. PICK t : t = task[p]
    OBVIOUS
  <1> DEFINE from == t.rec.route
  <1>g. /\ GoodTask(t, nodeZset) /\ t \in Task /\ task \in [Proc -> Task] /\ Step(p)
        /\ nodeFree \subseteq Node /\ online \subseteq Node /\ bindUser \in [Node -> UserOrNone]
        /\ nodeZset \subseteq Node
    BY <1>t DEF IInv, TypeOK, TasksOK, GoodTask, Step, UserWrites
  <1>c. \/ BindNodeWithNewUser(p) /\ t.pc = "bindTx"
        \/ SwitchNodeByUser(p) /\ t.pc = "switchTx"
        \/ UnbindNode(p) /\ t.pc = "unbindTx"
    BY <1>t DEF BindNodeWithNewUser, SwitchNodeByUser, UnbindNode, At
  <1>s. task'[p].pc \in {"idle", "dropCache"}
    BY <1>c, <1>g, <1>t DEF BindNodeWithNewUser, SwitchNodeByUser, UnbindNode, OnlyApiCrashes,
           Written, Become, IdleTask, Task
  <1>r. UNCHANGED <<online, apiUp>>
    BY DEF BindNodeWithNewUser, SwitchNodeByUser, UnbindNode, cacheVars
  <1>1. /\ t.pc # "unbindTx" => t.to \in Node /\ t.u \in User
        /\ t.pc # "bindTx" => from \in Node /\ t.on = (from \in online)
    BY <1>c, <1>g, <1>t DEF GoodTask, Holds, Registered, ToPCs, UserPCs, RecPCs, BindPCs, SwitchPCs,
           OnlineConflict
  \* Which nodes are bound and free afterwards.
  <1>2. ASSUME NEW n \in Node
        PROVE  /\ n \in nodeFree' => n \in nodeFree \/ n \in online
               /\ n \in online \ nodeFree' /\ bindUser'[n] = None =>
                     n \notin nodeFree /\ bindUser[n] = None /\ (t.pc # "unbindTx" => n # t.to)
    <2>1. CASE t.pc = "bindTx"
      BY <1>1, <1>c, <1>g, <1>t, <2>1 DEF BindNodeWithNewUser
    <2>2. CASE t.pc = "switchTx"
      BY <1>1, <1>c, <1>g, <1>t, <2>2 DEF SwitchNodeByUser
    <2>3. CASE t.pc = "unbindTx"
      BY <1>1, <1>c, <1>g, <1>t, <2>3 DEF UnbindNode
    <2>4. QED
      BY <1>c, <2>1, <2>2, <2>3
  <1>3. ASSUME NEW n \in Node
        PROVE  /\ ConnAt(n, ServedPCs) => ConnAt(n, ServedPCs)'
               /\ ConnAt(n, LeavingPCs) => ConnAt(n, LeavingPCs)'
               /\ ConnAt(n, {"connFree"}) => ConnAt(n, {"connFree"})'
               /\ Allocated(n) => Allocated(n)' \/ (t.pc # "unbindTx" /\ n = t.to)
    BY <1>c, <1>g, <1>t, Elsewhere DEF ServedPCs, LeavingPCs, HeldPCs, BindPCs, SwitchPCs
  <1>4. nodeFree' \subseteq Node
    BY <1>1, <1>c, <1>g, <1>t DEF BindNodeWithNewUser, SwitchNodeByUser, UnbindNode
  <1>5. apiUp => /\ \A n \in online' : ConnAt(n, ServedPCs)'
                 /\ \A n \in nodeFree' \ online' : ConnAt(n, LeavingPCs)' \/ n \in browsed'
                 /\ \A n \in online' \ nodeFree' :
                       bindUser'[n] = None => Allocated(n)' \/ ConnAt(n, {"connFree"})'
    <2> HIDE DEF ConnAt, Allocated
    <2>1. QED
      BY <1>2, <1>3, <1>4, <1>g, <1>r DEF FreeOnItsWay, BrowsedStay
  <1>6. \A c \in Conn \ {p} : task[c].pc \in ServedPCs => task[c].n \in online'
    BY <1>r DEF FreeOnItsWay
  <1>7. QED
    BY <1>5, <1>6, <1>g, <1>r, <1>s, FreeParts DEF ServedPCs

\* An allocated node is not free any more, but on its way.
LEMMA AllocateKeepsFree ==
  ASSUME OnlyApiCrashes, IInv, NodesHeld, FreeOnItsWay, BrowsedStay, NEW p \in Proc,
         AllocateFreeNode(p)
  PROVE  FreeOnItsWay'
  <1>t. PICK t : t = task[p]
    OBVIOUS
  <1>g. /\ t \in Task /\ BindClaim(t) /\ task \in [Proc -> Task] /\ Step(p) /\ t.pc = "allocate"
        /\ nodeFree \subseteq Node /\ online \subseteq Node
    BY <1>t DEF IInv, TypeOK, NodesHeld, Step, AllocateFreeNode, At
  <1>r. UNCHANGED <<bindUser, online, apiUp>>
    BY DEF AllocateFreeNode
  <1>1. CASE Return(p) /\ UNCHANGED nodeFree
    BY <1>g, <1>r, <1>t, <1>1, FreeStays
       DEF Return, IdleTask, ServedPCs, LeavingPCs, HeldPCs, BindPCs, SwitchPCs
  <1>2. ASSUME NEW n \in nodeFree, nodeFree' = nodeFree \ {n},
               Written(p, [task[p] EXCEPT !.to = n,
                   !.pc = IF task[p].op = "create" THEN "bindRead" ELSE "switchFrom"])
        PROVE  FreeOnItsWay'
    <2>1. /\ task'[p].pc \in {"bindRead", "switchFrom"} /\ task'[p].to = n
          /\ task'[p].op = t.op /\ t.op \notin NamedOps
      <3>1. t.op \notin NamedOps
        BY <1>g DEF BindClaim
      <3>2. task'[p] = [t EXCEPT !.to = n,
                          !.pc = IF t.op = "create" THEN "bindRead" ELSE "switchFrom"]
        BY <1>g, <1>t, <1>2 DEF OnlyApiCrashes, Written, Become
      <3>3. QED
        BY <1>g, <3>1, <3>2 DEF Task
    <2>2. Allocated(n)'
      BY <2>1 DEF Allocated, HeldPCs, BindPCs, SwitchPCs
    <2>3. ASSUME NEW m \in Node
          PROVE  /\ ConnAt(m, ServedPCs) => ConnAt(m, ServedPCs)'
                 /\ ConnAt(m, LeavingPCs) => ConnAt(m, LeavingPCs)'
                 /\ ConnAt(m, {"connFree"}) => ConnAt(m, {"connFree"})'
                 /\ Allocated(m) => Allocated(m)'
      BY <1>g, <1>t, Elsewhere DEF ServedPCs, LeavingPCs, HeldPCs, BindPCs, SwitchPCs
    <2>4. apiUp => /\ \A m \in online' : ConnAt(m, ServedPCs)'
                   /\ \A m \in nodeFree' \ online' : ConnAt(m, LeavingPCs)' \/ m \in browsed'
                   /\ \A m \in online' \ nodeFree' :
                         bindUser'[m] = None => Allocated(m)' \/ ConnAt(m, {"connFree"})'
      <3> HIDE DEF ConnAt, Allocated
      <3>1. QED
        BY <1>2, <1>g, <1>r, <2>2, <2>3 DEF FreeOnItsWay, BrowsedStay
    <2>5. \A c \in Conn \ {p} : task[c].pc \in ServedPCs => task[c].n \in online'
      BY <1>r DEF FreeOnItsWay
    <2>6. QED
      BY <1>g, <1>r, <2>1, <2>4, <2>5, FreeParts DEF ServedPCs
  <1>3. QED
    BY <1>1, <1>2 DEF AllocateFreeNode

\* A websocket that comes, is served and goes, and is the only one of its node.
LEMMA ConnsKeepFree ==
  ASSUME OnlyApiCrashes, IInv, ConnsHeld, NodesHeld, ~RecordConflict, ~TunnelConflict, FreeOnItsWay,
         BrowsersKnown, BrowsedStay, NEW p \in Conn,
         \/ SetNodeOnline(p) \/ AddFreeOnAccept(p) \/ ServeReturns(p)
         \/ SetNodeOffline(p) \/ OfflineGetNode(p) \/ RemoveFreeNode(p)
  PROVE  FreeOnItsWay'
  <1>t. PICK t : t = task[p]
    OBVIOUS
  <1> DEFINE n == t.n
             s == task'[p]
  <1>g. /\ GoodTask(t, nodeZset) /\ t \in Task /\ task \in [Proc -> Task] /\ p \in Proc
        /\ nodeFree \subseteq Node /\ online \subseteq Node
    BY <1>t DEF IInv, TypeOK, TasksOK, GoodTask, Proc
  <1>s. Step(p)
    BY <1>g DEF Step, ConnMoves
  <1>1. n \in Node /\ t.pc \in {"setOnline", "connFree", "serve", "offline", "offGet", "removeFree"}
    BY <1>g, <1>t DEF SetNodeOnline, AddFreeOnAccept, ServeReturns, SetNodeOffline, OfflineGetNode,
           RemoveFreeNode, At, GoodTask, Holds, ConnPCs, RegisterPCs
  \* No other websocket of the node is past the handover.
  <1>2. ASSUME NEW c \in Conn, c # p, task[c].n = n
        PROVE  task[c].pc \notin ServedPCs \cup LeavingPCs
    BY <1>1, <1>2, <1>t DEF TunnelConflict, ServedPCs, LeavingPCs
  <1>r. UNCHANGED <<bindUser, apiUp>>
    BY DEF SetNodeOnline, AddFreeOnAccept, ServeReturns, SetNodeOffline, OfflineGetNode,
           RemoveFreeNode, redis
  <1>3. ASSUME NEW m \in Node
        PROVE  /\ ConnAt(m, ServedPCs) =>
                    ConnAt(m, ServedPCs)' \/ (m = n /\ t.pc \in ServedPCs)
               /\ ConnAt(m, LeavingPCs) =>
                    ConnAt(m, LeavingPCs)' \/ (m = n /\ t.pc \in LeavingPCs)
               /\ ConnAt(m, {"connFree"}) =>
                    ConnAt(m, {"connFree"})' \/ (m = n /\ t.pc = "connFree")
               /\ Allocated(m) => Allocated(m)'
    <2>1. t.pc \notin HeldPCs
      BY <1>1 DEF HeldPCs, BindPCs, SwitchPCs
    <2>2. QED
      BY <1>g, <1>s, <1>t, <2>1, Elsewhere
  <1>4. /\ s.pc \in ServedPCs /\ s.n = n => ConnAt(n, ServedPCs)'
        /\ s.pc \in LeavingPCs /\ s.n = n => ConnAt(n, LeavingPCs)'
        /\ s.pc = "connFree" /\ s.n = n => ConnAt(n, {"connFree"})'
    BY DEF ConnAt
  <1>5. s.pc # "idle" => s.n = n
    <2>1. CASE SetNodeOnline(p)
      <3>1. Become(p, [t EXCEPT !.u = None, !.pc = IF t.u = None THEN "connFree" ELSE "serve"])
        BY <1>t, <2>1 DEF SetNodeOnline, OnlyApiCrashes, Written
      <3>2. QED
        BY <1>g, <3>1 DEF Become, Task
    <2>2. CASE AddFreeOnAccept(p) \/ ServeReturns(p) \/ SetNodeOffline(p)
      BY <1>g, <1>t, <2>2 DEF AddFreeOnAccept, ServeReturns, SetNodeOffline, Goto, Return,
             IdleTask, Task
    <2>3. CASE OfflineGetNode(p)
      BY <1>g, <1>t, <2>3 DEF OfflineGetNode, Become, Task
    <2>4. CASE RemoveFreeNode(p)
      BY <1>g, <2>4 DEF RemoveFreeNode, Return, IdleTask
    <2>5. QED
      BY <2>1, <2>2, <2>3, <2>4
  <1> DEFINE Explained ==
        apiUp => /\ \A m \in online' : ConnAt(m, ServedPCs)'
                 /\ \A m \in nodeFree' \ online' : ConnAt(m, LeavingPCs)' \/ m \in browsed'
                 /\ \A m \in online' \ nodeFree' :
                       bindUser'[m] = None => Allocated(m)' \/ ConnAt(m, {"connFree"})'
             Served == /\ \A c \in Conn \ {p} : task[c].pc \in ServedPCs => task[c].n \in online'
                       /\ s.pc \in ServedPCs => n \in online'
                       /\ s.pc # "addFree"
  <1>q. ASSUME Explained, Served PROVE FreeOnItsWay'
    <2>1. p \in Conn /\ s.pc \in ServedPCs => s.n \in online'
      BY <1>q, <1>5 DEF ServedPCs
    <2>2. QED
      BY <1>q, <1>g, <1>r, <1>s, <2>1, FreeParts
  <1>6. /\ \A c \in Conn : task[c].pc \in ServedPCs => task[c].n \in online
        /\ apiUp => /\ \A m \in online : ConnAt(m, ServedPCs)
                    /\ \A m \in nodeFree \ online : ConnAt(m, LeavingPCs) \/ m \in browsed
                    /\ \A m \in online \ nodeFree :
                          bindUser[m] = None => Allocated(m) \/ ConnAt(m, {"connFree"})
    BY DEF FreeOnItsWay
  <1> HIDE DEF ConnAt, Allocated
  <1>7. CASE SetNodeOnline(p)
    <2>1. /\ t.pc = "setOnline" /\ online' = online \cup {n} /\ nodeFree' = nodeFree
          /\ t.u = bindUser[n]
      BY <1>t, <1>7 DEF SetNodeOnline, At, RecordConflict, RegisterPCs
    <2>2. s.pc = IF t.u = None THEN "connFree" ELSE "serve"
      <3>1. Become(p, [t EXCEPT !.u = None, !.pc = IF t.u = None THEN "connFree" ELSE "serve"])
        BY <1>t, <1>7 DEF SetNodeOnline, OnlyApiCrashes, Written
      <3>2. QED
        BY <1>g, <3>1 DEF Become, Task
    <2>3. Explained
      BY <1>1, <1>3, <1>4, <1>5, <1>6, <1>g, <1>r, <2>1, <2>2 DEF ServedPCs, LeavingPCs, BrowsedStay
    <2>4. QED
      BY <1>6, <1>q, <2>1, <2>2, <2>3
  <1>8. CASE AddFreeOnAccept(p) \/ ServeReturns(p)
    <2>1. /\ online' = online /\ t.pc \in {"connFree", "serve"} /\ s.pc \in {"serve", "offline"}
          /\ nodeFree' = nodeFree \cup (IF t.pc = "connFree" THEN {n} ELSE {})
      BY <1>g, <1>t, <1>8 DEF AddFreeOnAccept, ServeReturns, At, Goto, Task, redis
    <2>2. n \in online
      BY <1>6, <1>t, <2>1 DEF ServedPCs
    <2>3. Explained
      BY <1>1, <1>3, <1>4, <1>5, <1>6, <1>g, <1>r, <2>1, <2>2 DEF ServedPCs, LeavingPCs, BrowsedStay
    <2>4. QED
      BY <1>6, <1>q, <2>1, <2>2, <2>3
  <1>9. CASE SetNodeOffline(p)
    <2>1. /\ online' = online \ {n} /\ t.pc = "offline" /\ nodeFree' = nodeFree
          /\ s.pc = IF t.op = "browser" THEN "idle" ELSE "offGet"
      BY <1>g, <1>t, <1>9 DEF SetNodeOffline, At, Goto, Return, IdleTask, Task
    <2>b. apiUp /\ t.op = "browser" => n \in browsed
      BY <1>1, <1>t DEF BrowsersKnown, Browser
    <2>2. Explained
      BY <1>1, <1>3, <1>4, <1>5, <1>6, <1>g, <1>r, <2>1, <2>b DEF ServedPCs, LeavingPCs, BrowsedStay
    <2>3. \A c \in Conn \ {p} : task[c].pc \in ServedPCs => task[c].n \in online'
      BY <1>2, <1>6, <2>1
    <2>4. QED
      BY <1>q, <2>1, <2>2, <2>3 DEF ServedPCs
  <1>10. CASE OfflineGetNode(p)
    <2>1. /\ UNCHANGED <<online, nodeFree>> /\ t.pc = "offGet"
          /\ s.pc = IF bindUser[n] = None THEN "removeFree" ELSE "offUser"
      BY <1>g, <1>t, <1>10 DEF OfflineGetNode, At, Become, Task, redis
    <2>2. n \in nodeFree => bindUser[n] = None
      BY DEF NodesHeld
    <2>3. Explained
      BY <1>1, <1>3, <1>4, <1>5, <1>6, <1>g, <1>r, <2>1, <2>2 DEF ServedPCs, LeavingPCs, BrowsedStay
    <2>4. QED
      BY <1>6, <1>q, <2>1, <2>3 DEF ServedPCs
  <1>11. CASE RemoveFreeNode(p)
    <2>1. /\ online' = online /\ nodeFree' = nodeFree \ {n} /\ t.pc = "removeFree" /\ s.pc = "idle"
      BY <1>g, <1>t, <1>11 DEF RemoveFreeNode, At, Return, IdleTask
    <2>2. apiUp => n \notin online
      <3>1. ~ConnAt(n, ServedPCs)
        BY <1>2, <1>t, <2>1 DEF ConnAt, ServedPCs
      <3>2. QED
        BY <1>6, <3>1
    <2>3. Explained
      BY <1>1, <1>3, <1>4, <1>5, <1>6, <1>g, <1>r, <2>1, <2>2 DEF ServedPCs, LeavingPCs, BrowsedStay
    <2>4. QED
      BY <1>6, <1>q, <2>1, <2>3 DEF ServedPCs
  <1>12. QED
    BY <1>7, <1>8, <1>9, <1>10, <1>11


\* The api service is down: no websocket is there, and it starts with no node
\* online and none free.
LEMMA RestartKeepsFree ==
  ASSUME IInv, ConnsHeld, FreeOnItsWay, ApiCrash \/ OnlineExpires \/ FreeExpires \/ NewTunnelManager
  PROVE  FreeOnItsWay'
  <1>1. task \in [Proc -> Task] /\ Conn \subseteq Proc
    BY DEF IInv, TypeOK, Proc
  <1>2. CASE ApiCrash
    <2>1. /\ ~apiUp'
          /\ \A q \in Proc : task'[q] = IF q \in Conn THEN IdleTask ELSE task[q]
      BY <1>1, <1>2 DEF ApiCrash
    <2>2. /\ \A q \in Proc : task'[q].pc # "addFree"
          /\ \A c \in Conn : task'[c].pc \notin ServedPCs
      BY <1>1, <2>1 DEF FreeOnItsWay, IdleTask, ServedPCs
    <2> HIDE DEF ConnAt, Allocated
    <2>3. QED
      BY <2>1, <2>2 DEF FreeOnItsWay
  <1>3. CASE OnlineExpires \/ FreeExpires \/ NewTunnelManager
    <2>1. /\ task' = task
          /\ apiUp' => online' = {} /\ nodeFree' = {}
          /\ \A c \in Conn : task[c].pc = "idle"
      BY <1>3 DEF OnlineExpires, FreeExpires, NewTunnelManager, ConnsHeld
    <2> HIDE DEF ConnAt, Allocated
    <2>2. QED
      BY <2>1 DEF FreeOnItsWay, ServedPCs
  <1>4. QED
    BY <1>2, <1>3

\* Every step, when nothing but the api service crashes.
LEMMA FreeStep ==
  ASSUME OnlyApiCrashes, IInv, ConnsHeld, UsersHeld, NodesHeld, FreeOnItsWay,
         BrowsersKnown, BrowsedStay,
         ~RecordConflict, ~TunnelConflict, ~OnlineConflict, [Next]_vars
  PROVE  FreeOnItsWay'
  <1>1. ASSUME UNCHANGED <<bindUser, online, nodeFree, task, apiUp>>
        PROVE  FreeOnItsWay'
    <2>1. nodeFree \subseteq Node
      BY DEF IInv, TypeOK
    <2>2. QED
      BY <1>1, <2>1 DEF FreeOnItsWay, ConnAt, Allocated, BrowsedStay
  <1>2. ASSUME NEW p \in Proc, Step(p)
        PROVE  FreeOnItsWay'
    <2>1. ~AddFreeNode(p) /\ ~CallFails(p)
      BY DEF AddFreeNode, At, CallFails, FreeOnItsWay, OnlyApiCrashes
    <2>2. QED
      BY <1>2, <2>1, ReadsKeepFree, UsersKeepFree, TransactionsKeepFree, AllocateKeepsFree,
         ConnsKeepFree DEF Step, UserWrites, ConnMoves
  <1>3. CASE CacheOrCrash
    <2>1. ~RpcCrash
      BY DEF RpcCrash, OnlyApiCrashes
    <2>2. CASE CacheSet \/ \E u \in User : CacheMiss(u)
      BY <1>1, <2>2 DEF CacheSet, CacheMiss, redis
    <2>3. QED
      BY <1>3, <2>1, <2>2, RestartKeepsFree DEF CacheOrCrash
  <1>4. QED
    BY <1>1, <1>2, <1>3, NextIsStep DEF vars, redis


-----------------------------------------------------------------------------
(* The cache: as long as the users held and no fill held one in operation.   *)

\* Somebody in flight will drop the cached route of the user.
DropPCs == DeletedPCs \cup {"dropCache"}
DropPending(u) == \E p \in Proc : task[p].u = u /\ task[p].pc \in DropPCs

CachedIsStored(u) == user[u] # None /\ userCache[u] = user[u].route
FilledIsStored == fill # None => user[fill.u] # None /\ user[fill.u].route = fill.route

LEMMA CacheMeans ==
  /\ CacheOnItsWay <=>
       /\ \A u \in User : userCache[u] # None => CachedIsStored(u) \/ DropPending(u)
       /\ FilledIsStored
  /\ CacheOnItsWay' <=>
       /\ \A u \in User : userCache'[u] # None => CachedIsStored(u)' \/ DropPending(u)'
       /\ FilledIsStored'
  BY DEF CacheOnItsWay, CachedIsStored, FilledIsStored, DropPending, DropPCs

\* What was to be dropped still is after the step of a goroutine that does not
\* give up before it has dropped it.
LEMMA StillPending ==
  ASSUME task \in [Proc -> Task], NEW p \in Proc, Step(p), NEW u, DropPending(u),
         task[p].pc \in DropPCs /\ task[p].u = u => task'[p].pc \in DropPCs /\ task'[p].u = u
  PROVE  DropPending(u)'
  <1>1. PICK q \in Proc : task[q].u = u /\ task[q].pc \in DropPCs
    BY DEF DropPending
  <1>2. q # p => task'[q] = task[q]
    BY OthersStay
  <1>3. task'[q].u = u /\ task'[q].pc \in DropPCs
    BY <1>1, <1>2
  <1>4. QED
    BY <1>3 DEF DropPending

\* A step that touches neither the users nor the cache.
LEMMA CacheStays ==
  ASSUME CacheOnItsWay, task \in [Proc -> Task], NEW p \in Proc, Step(p),
         UNCHANGED <<user, userCache, fill>>,
         task[p].pc \in DropPCs => task'[p].pc \in DropPCs /\ task'[p].u = task[p].u
  PROVE  CacheOnItsWay'
  <1>1. \A u : DropPending(u) => DropPending(u)'
    BY StillPending
  <1> HIDE DEF DropPending
  <1>2. QED
    BY <1>1, CacheMeans DEF CachedIsStored, FilledIsStored

LEMMA ReadsKeepCache ==
  ASSUME OnlyApiCrashes, IInv, CacheOnItsWay, NEW p \in Proc,
         \/ Starts(p) \/ Reads(p) \/ ZremUser(p) \/ UnbindNode(p)
         \/ AllocateFreeNode(p) \/ AddFreeNode(p)
         \/ p \in Conn /\ ConnMoves(p)
  PROVE  CacheOnItsWay'
  <1>t. PICK t : t = task[p]
    OBVIOUS
  <1>g. /\ GoodTask(t, nodeZset) /\ t \in Task /\ task \in [Proc -> Task]
        /\ Step(p)
    BY <1>t DEF IInv, TypeOK, TasksOK, GoodTask, Step, UserWrites
  <1>1. UNCHANGED <<user, userCache, fill>>
    BY ZenonT(60) DEF Starts, Request, CreateUser, SwitchUserRouteNode, DeleteUser, ModifyUser,
           StartOrStopUser, TrafficTimer, ServeWS, ServeBrowser, Reads, CheckRoute, GetUserToModify, CheckNode,
           CheckOnline, BindRead, BindOnline, UnbindRead, SwitchFrom, SwitchTo, ZremUser, UnbindNode,
           AllocateFreeNode, AddFreeNode, ConnMoves, SetNodeAndZadd, SetNodeOnline,
           AddFreeOnAccept, ServeReturns, SetNodeOffline, OfflineGetNode, RemoveFreeNode,
           SwithNodeForUser, redis, cacheVars, nodeTables
  <1>2. t.pc \in DropPCs => ZremUser(p) \/ UnbindRead(p) \/ UnbindNode(p)
    <2> USE <1>t DEF At, DropPCs, DeletedPCs
    <2>1. ~Starts(p) \/ t.pc \notin DropPCs
      BY ZenonT(60) DEF Starts, Request, CreateUser, SwitchUserRouteNode, DeleteUser, ModifyUser,
             StartOrStopUser, TrafficTimer, ServeWS, ServeBrowser
    <2>2. Reads(p) /\ t.pc \in DropPCs => UnbindRead(p)
      BY DEF Reads, CheckRoute, GetUserToModify, CheckNode, CheckOnline, BindRead, BindOnline,
             SwitchFrom, SwitchTo
    <2>3. AllocateFreeNode(p) \/ AddFreeNode(p) \/ ConnMoves(p) => t.pc \notin DropPCs
      BY ZenonT(60) DEF AllocateFreeNode, AddFreeNode, ConnMoves, SetNodeAndZadd, SetNodeOnline,
             AddFreeOnAccept, ServeReturns, SetNodeOffline, OfflineGetNode, RemoveFreeNode,
             SwithNodeForUser
    <2>4. QED
      BY <2>1, <2>2, <2>3
  <1>3. ZremUser(p) \/ UnbindRead(p) \/ UnbindNode(p) =>
           task'[p].pc \in DropPCs /\ task'[p].u = t.u
    <2>1. CASE ZremUser(p)
      BY <1>g, <1>t, <2>1 DEF ZremUser, OnlyApiCrashes, Written, Become, Task, DropPCs, DeletedPCs
    <2>2. CASE UnbindRead(p)
      <3>1. t.pc = "unbindRead" /\ t.rec.route \in nodeZset
        BY <1>g, <1>t, <2>2, NoneAssumption
           DEF UnbindRead, At, GoodTask, Holds, Registered, RecPCs
      <3>2. QED
        BY <1>g, <1>t, <2>2, <3>1 DEF UnbindRead, Become, Task, DropPCs, DeletedPCs
    <2>3. CASE UnbindNode(p)
      BY <1>g, <1>t, <2>3 DEF UnbindNode, OnlyApiCrashes, Written, Become, Task, DropPCs
    <2>4. QED
      BY <2>1, <2>2, <2>3
  <1>4. QED
    BY <1>1, <1>2, <1>3, <1>g, <1>t, CacheStays

\* A write of a user: nobody is filling the cache with it; when it is created
\* nothing of it is cached, when it is deleted or moved the cached route will
\* be dropped, and when it is saved its route stays.
LEMMA WritesKeepCache ==
  ASSUME OnlyApiCrashes, IInv, UsersHeld, CacheOnItsWay, ~UserConflict, ~CacheConflict,
         NEW p \in Proc,
         BindNodeWithNewUser(p) \/ DelUser(p) \/ SwitchNodeByUser(p) \/ SaveUser(p)
  PROVE  CacheOnItsWay'
  <1>t. PICK t : t = task[p]
    OBVIOUS
  <1>g. /\ GoodTask(t, nodeZset) /\ UserClaim(t, TRUE) /\ t \in Task /\ task \in [Proc -> Task]
        /\ user \in [User -> UserRec \cup {None}] /\ Step(p)
    BY <1>t DEF IInv, TypeOK, TasksOK, GoodTask, UsersHeld, Step, UserWrites
  <1>c. \/ BindNodeWithNewUser(p) /\ t.pc = "bindTx"
        \/ DelUser(p) /\ t.pc = "delUser"
        \/ SwitchNodeByUser(p) /\ t.pc = "switchTx"
        \/ SaveUser(p) /\ t.pc = "saveUser"
    BY <1>t DEF BindNodeWithNewUser, DelUser, SwitchNodeByUser, SaveUser, At
  <1>u. t.u \in User /\ t.pc \notin DropPCs /\ InFlight(p) /\ t.pc \notin RegisterPCs
    BY <1>c, <1>g, <1>t DEF GoodTask, Holds, UserPCs, BindPCs, SwitchPCs, DropPCs, DeletedPCs,
           InFlight, RegisterPCs
  <1>o. /\ UNCHANGED <<userCache, fill>>
        /\ \A u \in User : u # t.u => user'[u] = user[u]
    BY <1>c, <1>g, <1>t DEF BindNodeWithNewUser, DelUser, SwitchNodeByUser, SaveUser, cacheVars
  <1>d. \A u : DropPending(u) => DropPending(u)'
    BY <1>g, <1>t, <1>u, StillPending
  \* Nobody else operates on the user, and nobody fills the cache with it.
  <1>n. ~DropPending(t.u)
    <2>1. ASSUME NEW q \in Proc, task[q].u = t.u, task[q].pc \in DropPCs
          PROVE  FALSE
      <3>1. q # p /\ InFlight(q) /\ task[q].pc \notin RegisterPCs
        BY <1>t, <1>u, <2>1 DEF InFlight, RegisterPCs, DropPCs, DeletedPCs
      <3>2. QED
        BY <1>t, <1>u, <2>1, <3>1 DEF UserConflict
    <2>2. QED
      BY <2>1 DEF DropPending
  <1>f. fill # None => fill.u # t.u /\ fill.u \in User
    BY <1>t, <1>u DEF CacheConflict, IInv, TypeOK
  <1>1. userCache[t.u] # None =>
           \/ user'[t.u] # None /\ userCache[t.u] = user'[t.u].route
           \/ DropPending(t.u)'
    <2>1. CASE BindNodeWithNewUser(p) /\ t.pc = "bindTx"
      BY <1>g, <1>n, <1>u, <2>1, CacheMeans DEF CachedIsStored, UserClaim, Creates, BindPCs
    <2>2. CASE DelUser(p) \/ SwitchNodeByUser(p)
      <3>1. task'[p].pc \in DropPCs /\ task'[p].u = t.u
        BY <1>g, <1>t, <2>2 DEF DelUser, SwitchNodeByUser, OnlyApiCrashes, Written, Become, Task,
               DropPCs, DeletedPCs
      <3>2. QED
        BY <3>1 DEF DropPending
    <2>3. CASE SaveUser(p) /\ t.pc = "saveUser"
      <3>1. user'[t.u] = t.rec /\ t.rec \in UserRec /\ user[t.u].route = t.rec.route
        BY <1>g, <1>t, <1>u, <2>3 DEF SaveUser, GoodTask, Holds, RecPCs, UserClaim, HasCopy
      <3>2. QED
        BY <1>n, <1>u, <3>1, CacheMeans DEF CachedIsStored
    <2>4. QED
      BY <1>c, <2>1, <2>2, <2>3
  <1> HIDE DEF DropPending
  <1>2. QED
    BY <1>1, <1>d, <1>f, <1>o, CacheMeans
   DEF CachedIsStored, FilledIsStored

\* The end of a request, or a filler's, and the crash that empties the cache.
LEMMA DropsKeepCache ==
  ASSUME IInv, ConnsHeld, CacheOnItsWay,
         \/ \E p \in Proc : DeleteUserCache(p)
         \/ \E u \in User : CacheMiss(u)
         \/ CacheSet \/ ApiCrash \/ OnlineExpires \/ FreeExpires \/ NewTunnelManager
  PROVE  CacheOnItsWay'
  <1>g. /\ task \in [Proc -> Task] /\ userCache \in [User -> NodeOrNone]
        /\ fill \in [u : User, route : Node] \cup {None}
    BY DEF IInv, TypeOK
  <1>m. task' = task => \A u : DropPending(u)' = DropPending(u)
    BY DEF DropPending
  <1>1. ASSUME NEW p \in Proc, DeleteUserCache(p)
        PROVE  CacheOnItsWay'
    <2>t. PICK t : t = task[p]
      OBVIOUS
    <2>1. /\ \A u \in User : userCache'[u] = IF u = t.u THEN None ELSE userCache[u]
          /\ UNCHANGED <<user, fill>>
      BY <1>1, <1>g, <2>t DEF DeleteUserCache, redis
    <2>2. Step(p)
      BY <1>1 DEF Step
    <2>3. \A u : u # t.u /\ DropPending(u) => DropPending(u)'
      BY <1>g, <2>2, <2>t, StillPending
    <2> HIDE DEF DropPending
    <2>4. QED
      BY <2>1, <2>3, CacheMeans
   DEF CachedIsStored, FilledIsStored
  <1> HIDE DEF DropPending
  <1>2. CASE \E u \in User : CacheMiss(u)
    BY <1>2, <1>m, CacheMeans DEF CachedIsStored, FilledIsStored, CacheMiss, redis
  <1>3. CASE CacheSet
    <2>1. /\ \A u \in User : userCache'[u] = IF u = fill.u THEN fill.route ELSE userCache[u]
          /\ UNCHANGED <<user, task>> /\ fill' = None /\ fill # None
      BY <1>3, <1>g DEF CacheSet, redis
    <2>2. QED
      BY <1>m, <2>1, CacheMeans
   DEF CachedIsStored, FilledIsStored
  <1>4. CASE ApiCrash
    <2>1. (\A u \in User : userCache'[u] = None) /\ fill' = None
      BY <1>4 DEF ApiCrash
    <2>2. QED
      BY <2>1, CacheMeans DEF FilledIsStored
  <1>5. CASE OnlineExpires \/ FreeExpires \/ NewTunnelManager
    BY <1>5, <1>m, CacheMeans DEF CachedIsStored, FilledIsStored, OnlineExpires, FreeExpires, NewTunnelManager, cacheVars
  <1>6. QED
    BY <1>1, <1>2, <1>3, <1>4, <1>5

\* Every step, when nothing but the api service crashes.
LEMMA CacheStep ==
  ASSUME OnlyApiCrashes, IInv, ConnsHeld, UsersHeld, CacheOnItsWay,
         ~UserConflict, ~CacheConflict, [Next]_vars
  PROVE  CacheOnItsWay'
  <1>1. CASE UNCHANGED vars
    BY <1>1 DEF vars, redis, cacheVars, CacheOnItsWay
  <1>2. ASSUME NEW p \in Proc, Step(p)
        PROVE  CacheOnItsWay'
    <2>1. ~CallFails(p)
      BY DEF CallFails, OnlyApiCrashes
    <2>2. QED
      BY <1>2, <2>1, ReadsKeepCache, WritesKeepCache, DropsKeepCache DEF Step, UserWrites
  <1>3. CASE CacheOrCrash
    <2>1. ~RpcCrash
      BY DEF RpcCrash, OnlyApiCrashes
    <2>2. QED
      BY <1>3, <2>1, DropsKeepCache DEF CacheOrCrash
  <1>4. QED
    BY <1>1, <1>2, <1>3, NextIsStep


-----------------------------------------------------------------------------
(* The invariant, and the properties it implies.                            *)

LEMMA ConflictsRaced ==
  /\ Conflicts \subseteq raced =>
       /\ "user" \notin raced => ~UserConflict
       /\ "target" \notin raced => ~TargetConflict
       /\ "record" \notin raced => ~RecordConflict
       /\ "tunnel" \notin raced => ~TunnelConflict
       /\ "online" \notin raced => ~OnlineConflict
       /\ "cache" \notin raced => ~CacheConflict
  /\ Conflicts' \subseteq raced' => ("target" \notin raced' => ~TargetConflict')
  BY DEF Conflicts, Kinds

LEMMA HInitInv == HInit => HInv
  <1> SUFFICES ASSUME HInit PROVE HInv
    OBVIOUS
  <1>i. Init /\ raced = {} /\ stale = {} /\ \A p \in Proc : task[p] = IdleTask
    BY DEF HInit, Init
  <1>c. Conn \subseteq Proc /\ Handler \subseteq Proc
    BY DEF Proc
  <1>1. IInv
    BY <1>i, InitInv
  <1>2. ConnsHeld /\ UsersHeld
    BY <1>i, <1>c DEF Init, IdleTask, ConnsHeld, UsersHeld, UserClaim, Creates, HasCopy,
           DeletedPCs, BindPCs, SwitchPCs
  <1>f. FlagHeld /\ BrowsersKnown
    <2>1. UserClaim(IdleTask, FALSE)
      BY NothingClaimed
    <2>2. FlagHeld
      BY <1>i, <2>1 DEF FlagHeld
    <2>3. \A c \in Conn : task[c].op = "none"
      BY <1>i, <1>c DEF IdleTask
    <2>4. QED
      BY <2>2, <2>3 DEF BrowsersKnown, Browser
  <1>3. NodesHeld
    BY <1>i DEF Init, IdleTask, NodesHeld, BindClaim, Distinct, HeldPCs, DeletedPCs, BindPCs, SwitchPCs
  <1>4. FreeOnItsWay /\ CacheOnItsWay
    BY <1>i, <1>c DEF Init, IdleTask, FreeOnItsWay, CacheOnItsWay, ServedPCs
  <1>5. Conflicts = {}
    <2>1. ~UserConflict /\ ~TargetConflict /\ ~OnlineConflict /\ ~CacheConflict
      BY <1>i DEF Init, IdleTask, UserConflict, TargetConflict, OnlineConflict, CacheConflict,
             InFlight, NamedOps
    <2>2. ~RecordConflict /\ ~TunnelConflict
      BY <1>i, <1>c DEF IdleTask, RecordConflict, TunnelConflict, RegisterPCs
    <2>3. QED
      BY <2>1, <2>2 DEF Conflicts
  <1>6. QED
    BY <1>i, <1>f, <1>1, <1>2, <1>3, <1>4, <1>5 DEF HInv

LEMMA HNextInv == HInv /\ [HNext]_<<vars, history>> => HInv'
  <1> SUFFICES ASSUME HInv, [HNext]_<<vars, history>> PROVE HInv'
    OBVIOUS
  <1>1. [Next]_vars
    BY DEF HNext
  <1>2. /\ raced \subseteq raced' /\ Conflicts' \subseteq raced'
        /\ "reply" \notin raced' => \A p \in Proc : ~LostReply(p)
    <2>1. CASE HNext
      BY <2>1 DEF HNext
    <2>2. CASE UNCHANGED <<vars, history>>
      <3>1. Conflicts' = Conflicts
        BY <2>2 DEF vars, redis, cacheVars, Conflicts, UserConflict, TargetConflict, RecordConflict,
               TunnelConflict, OnlineConflict, CacheConflict, InFlight, history
      <3>2. \A p \in Proc : ~LostReply(p)
        BY <2>2 DEF vars, LostReply
      <3>3. QED
        BY <2>2, <3>1, <3>2 DEF HInv, history
    <2>3. QED
      BY <2>1, <2>2
  <1>3. IInv' /\ ConnsHeld'
    BY <1>1, NextInv, ConnsStep DEF HInv
  <1>f. FlagHeld' /\ BrowsersKnown' /\ BrowsedStay
    <2>1. CASE HNext
      <3>1. FlagHeld'
        BY <2>1, FlagStep DEF HInv
      <3>2. BrowsersKnown' /\ BrowsedStay
        BY <2>1 DEF HNext, BrowsersKnown, BrowsedStay
      <3>3. QED
        BY <3>1, <3>2
    <2>2. CASE UNCHANGED <<vars, history>>
      BY <2>2 DEF HInv, vars, redis, history, FlagHeld, UserClaim, BrowsersKnown, Browser, BrowsedStay
    <2>3. QED
      BY <2>1, <2>2
  <1>4. Conflicts \subseteq raced
    BY DEF HInv
  <1>5. ASSUME Calm({"user"})' PROVE UsersHeld'
    BY <1>1, <1>2, <1>4, <1>5, ConflictsRaced, UsersStep DEF HInv, Calm
  <1>6. ASSUME Calm(BindKinds)' PROVE NodesHeld'
    <2>1. Calm({"user"}) /\ Calm(BindKinds)
      BY <1>2, <1>6 DEF Calm, BindKinds
    <2>2. /\ ~UserConflict /\ ~TargetConflict /\ ~TargetConflict' /\ ~RecordConflict
          /\ \A p \in Proc : ~LostReply(p)
      BY <1>2, <1>4, <1>6, ConflictsRaced DEF Calm, BindKinds
    <2>3. QED
      BY <1>1, <2>1, <2>2, NodesStep DEF HInv
  <1>7. ASSUME OnlyApiCrashes, raced' \subseteq {"cache"} PROVE FreeOnItsWay'
    <2>1. raced \subseteq {"cache"} /\ Calm({"user"}) /\ Calm(BindKinds)
      BY <1>2, <1>7 DEF Calm, BindKinds
    <2>2. ~RecordConflict /\ ~TunnelConflict /\ ~OnlineConflict
      BY <1>4, <2>1, ConflictsRaced
    <2>3. QED
      BY <1>1, <1>7, <1>f, <2>1, <2>2, FreeStep DEF HInv
  <1>8. ASSUME OnlyApiCrashes, Calm({"user", "cache"})' PROVE CacheOnItsWay'
    <2>1. Calm({"user"}) /\ Calm({"user", "cache"})
      BY <1>2, <1>8 DEF Calm
    <2>2. ~UserConflict /\ ~CacheConflict
      BY <1>4, <2>1, ConflictsRaced DEF Calm
    <2>3. QED
      BY <1>1, <1>8, <2>1, <2>2, CacheStep DEF HInv
  <1>9. QED
    BY <1>2, <1>3, <1>5, <1>6, <1>7, <1>8, <1>f DEF HInv, OnlyApiCrashes

\* What the tables say and what each goroutine holds, as long as none of the
\* conflicts it depends on has occurred: for any number of goroutines.
THEOREM HInductive == HSpec => []HInv
  <1>1. QED
    BY HInitInv, HNextInv, PTL DEF HSpec

\* A stored user stays in the list of users unless two operations on it
\* overlapped: model.DeleteUser stopped half-way at any point leaves it listed,
\* and the timer's SaveUser stores no user that is not.
THEOREM StoredAreListed == HSpec => []StoredIsListed
  <1>1. HInv => StoredIsListed
    BY DEF HInv, StoredIsListed, UsersHeld, Calm
  <1>2. QED
    BY <1>1, HInductive, PTL

\* The node a stored user is routed to is bound to that user, unless two
\* operations on the user or the target overlapped, a websocket wrote an old
\* record, or the reply to a write was lost.
THEOREM RoutesAreBound == HSpec => []RouteIsBound
  <1>1. HInv => RouteIsBound
    BY DEF HInv, RouteIsBound, NodesHeld, Calm, BindKinds
  <1>2. QED
    BY <1>1, HInductive, PTL

\* Hence no node serves two users.
THEOREM NodesAreExclusive == HSpec => []Exclusive
  <1>1. RouteIsBound => Exclusive
    BY DEF RouteIsBound, Exclusive
  <1>2. QED
    BY <1>1, RoutesAreBound, PTL

\* When nothing is in flight and nothing but the api service ever crashed, every
\* node that is online and bound to nobody can be allocated, and a node that can
\* be is bound to nobody and online, or was a browser.
THEOREM FreeAreUnboundOnline == HSpec => []FreeIsUnboundOnline
  <1>1. HInv => FreeIsUnboundOnline
    <2> SUFFICES ASSUME HInv, Quiet, apiUp, OnlyApiCrashes, raced \subseteq {"cache"}
                 PROVE  /\ \A n \in online : bindUser[n] = None => n \in nodeFree
                        /\ \A n \in nodeFree : bindUser[n] = None /\ n \in online \cup browsed
      BY DEF FreeIsUnboundOnline, OnlyApiCrashes
    <2>1. /\ FreeOnItsWay /\ \A n \in nodeFree : bindUser[n] = None
      BY DEF HInv, Calm, BindKinds, NodesHeld
    <2>2. \A p \in Proc : task[p].pc \in {"idle", "serve"}
      BY DEF Quiet, InFlight
    <2>3. \A n : ~Allocated(n) /\ ~ConnAt(n, {"connFree"}) /\ ~ConnAt(n, LeavingPCs)
      BY <2>2 DEF Allocated, ConnAt, Proc, HeldPCs, BindPCs, SwitchPCs, LeavingPCs
    <2> HIDE DEF Allocated, ConnAt
    <2>4. QED
      BY <2>1, <2>3 DEF FreeOnItsWay
  <1>2. QED
    BY <1>1, HInductive, PTL

\* When nothing is in flight a cached route is the stored one, unless two
\* operations on the user overlapped or one overlapped a fill of the cache.
THEOREM CachedAreFresh == HSpec => []CacheIsFresh
  <1>1. HInv => CacheIsFresh
    <2> SUFFICES ASSUME HInv, Quiet, OnlyApiCrashes, Calm({"user", "cache"}),
                        NEW u \in User, userCache[u] # None
                 PROVE  user[u] # None /\ userCache[u] = user[u].route
      BY DEF CacheIsFresh, OnlyApiCrashes, Calm
    <2>1. CacheOnItsWay
      BY DEF HInv
    <2>2. \A p \in Proc : task[p].pc \notin DeletedPCs \cup {"dropCache"}
      BY DEF Quiet, InFlight, DeletedPCs
    <2>3. QED
      BY <2>1, <2>2 DEF CacheOnItsWay
  <1>2. QED
    BY <1>1, HInductive, PTL


-----------------------------------------------------------------------------
(* What a step never does.                                                  *)

\* The flag of a user changes only where a request asks for it, or where a
\* goroutine writes an old copy.
LEMMA OffStays ==
  ASSUME IInv, FlagHeld, [Next]_vars, NEW u \in User,
         user[u] # None, user'[u] # None, user'[u].off # user[u].off
  PROVE  \E p \in Proc : /\ task[p].u = u /\ task'[p] # task[p]
                         /\ p \in stale \/ (At(p, "saveUser") /\ task[p].op = "save")
  <1>1. user' # user
    OBVIOUS
  <1>2. PICK p \in Proc : BindNodeWithNewUser(p) \/ DelUser(p) \/ SwitchNodeByUser(p) \/ SaveUser(p)
    <2>1. ~CacheOrCrash
      BY <1>1 DEF CacheOrCrash, CacheMiss, CacheSet, RpcCrash, ApiCrash, OnlineExpires, FreeExpires,
             NewTunnelManager, redis
    <2>2. ASSUME NEW p \in Proc, Step(p)
          PROVE  BindNodeWithNewUser(p) \/ DelUser(p) \/ SwitchNodeByUser(p) \/ SaveUser(p)
      BY <1>1, <2>2, ZenonT(60) DEF Step, UserWrites, Starts, Request, CreateUser, SwitchUserRouteNode, DeleteUser,
             ModifyUser, StartOrStopUser, TrafficTimer, ServeWS, ServeBrowser, Reads, CheckRoute, GetUserToModify,
             CheckNode, CheckOnline, BindRead, BindOnline, UnbindRead, SwitchFrom, SwitchTo, ZremUser,
             UnbindNode, AllocateFreeNode, AddFreeNode, DeleteUserCache, CallFails, ConnMoves,
             SetNodeAndZadd, SetNodeOnline, AddFreeOnAccept, ServeReturns, SetNodeOffline,
             OfflineGetNode, RemoveFreeNode, SwithNodeForUser, redis
    <2>3. QED
      BY <1>1, <2>1, <2>2, NextIsStep DEF vars, redis
  <1>t. PICK t : t = task[p]
    OBVIOUS
  <1>g. /\ GoodTask(t, nodeZset) /\ user \in [User -> UserRec \cup {None}]
        /\ task \in [Proc -> Task] /\ t \in Task
        /\ p \notin stale => UserClaim(t, FALSE)
    BY <1>t DEF IInv, TypeOK, TasksOK, GoodTask, FlagHeld
  <1>3. t.u = u /\ t.pc \in {"bindTx", "switchTx", "saveUser"}
    BY <1>2, <1>g, <1>t DEF BindNodeWithNewUser, DelUser, SwitchNodeByUser, SaveUser, At
  <1>4. task'[p] # t
    <2>1. task'[p].pc # t.pc
      BY <1>2, <1>3, <1>g, <1>t DEF BindNodeWithNewUser, DelUser, SwitchNodeByUser, SaveUser, At,
             Written, Become, OnError, IdleTask, Task, SwitchPCs
    <2>2. QED
      BY <2>1
  <1>5. ASSUME p \notin stale PROVE At(p, "saveUser") /\ t.op = "save"
    <2>1. UserClaim(t, FALSE)
      BY <1>5, <1>g
    <2>2. t.pc # "bindTx"
      BY <1>3, <2>1 DEF UserClaim, Creates, BindPCs
    <2>3. user[u].off = t.rec.off \/ (t.pc = "saveUser" /\ t.op = "save")
      BY <1>3, <2>1, <2>2 DEF UserClaim, HasCopy, SwitchPCs
    <2>4. user'[u].off = t.rec.off
      <3>1. t.rec \in UserRec
        BY <1>3, <1>g, <2>2 DEF GoodTask, Holds, RecPCs, SwitchPCs
      <3>2. user'[u] \in {t.rec, [t.rec EXCEPT !.route = t.to]}
        BY <1>2, <1>3, <1>g, <1>t, <2>2 DEF BindNodeWithNewUser, DelUser, SwitchNodeByUser, SaveUser, At
      <3>3. QED
        BY <3>1, <3>2 DEF UserRec
    <2>5. QED
      BY <1>t, <2>3, <2>4 DEF At
  <1>6. QED
    BY <1>3, <1>4, <1>5, <1>t

\* A stop is undone, and so is a start, only by a goroutine that had read the
\* user before it: whatever overlaps, a switch and the traffic timer, which write
\* all fields of a user, put back the flag they read, and without such an old
\* copy that is the flag stored.
THEOREM StopsAreKept == HSpec => StopIsKept
  <1> DEFINE KeepsStop ==
        \A u \in User :
          user[u] # None /\ user'[u] # None /\ user'[u].off # user[u].off =>
             \E p \in Proc : /\ task[p].u = u /\ task'[p] # task[p]
                             /\ p \in stale \/ (At(p, "saveUser") /\ task[p].op = "save")
  <1>1. HInv /\ [HNext]_<<vars, history>> => [KeepsStop]_<<vars, history>>
    <2> SUFFICES ASSUME HInv, HNext PROVE KeepsStop
      BY DEF KeepsStop
    <2>1. FlagHeld /\ IInv /\ [Next]_vars
      BY DEF HInv, HNext
    <2>2. QED
      BY <2>1, OffStays
  <1>2. QED
    BY <1>1, HInductive, PTL DEF HSpec, StopIsKept

\* The hash of a node and node:bind are written together: they come to differ
\* only where a websocket writes an old record of the node.
THEOREM BindsAreMirrored == Spec => BindMirrorsHash
  <1> DEFINE Mirrored ==
        \A n \in Node :
          ((n \in nodeBind) <=> (bindUser[n] # None)) =>
             \/ (n \in nodeBind') <=> (bindUser'[n] # None)
             \/ \E c \in Conn : At(c, "register") /\ task[c].n = n /\ task[c].u # bindUser[n]
  <1>1. IInv /\ [Next]_vars => [Mirrored]_vars
    <2> SUFFICES ASSUME IInv, Next PROVE Mirrored
      OBVIOUS
    <2>1. CASE UNCHANGED <<bindUser, nodeBind>>
      BY <2>1
    <2>2. ASSUME NEW p \in Proc, Step(p)
          PROVE  \/ UNCHANGED <<bindUser, nodeBind>>
                 \/ BindNodeWithNewUser(p) \/ UnbindNode(p) \/ SwitchNodeByUser(p)
                 \/ p \in Conn /\ SetNodeAndZadd(p)
      BY <2>2, ZenonT(60) DEF Step, UserWrites, Starts, Request, CreateUser, SwitchUserRouteNode, DeleteUser,
             ModifyUser, StartOrStopUser, TrafficTimer, ServeWS, ServeBrowser, Reads, CheckRoute, GetUserToModify,
             CheckNode, CheckOnline, BindRead, BindOnline, UnbindRead, SwitchFrom, SwitchTo, ZremUser,
             DelUser, SaveUser, AllocateFreeNode, AddFreeNode, DeleteUserCache, CallFails, ConnMoves,
             SetNodeOnline, AddFreeOnAccept, ServeReturns, SetNodeOffline, OfflineGetNode,
             RemoveFreeNode, SwithNodeForUser, redis, nodeTables
    <2>3. CASE CacheOrCrash
      BY <2>1, <2>3 DEF CacheOrCrash, CacheMiss, CacheSet, RpcCrash, ApiCrash, OnlineExpires, FreeExpires,
             NewTunnelManager, redis
    <2>4. ASSUME NEW p \in Proc, BindNodeWithNewUser(p) \/ UnbindNode(p) \/ SwitchNodeByUser(p)
          PROVE  Mirrored
      <3>t. PICK t : t = task[p]
        OBVIOUS
      <3>g. GoodTask(t, nodeZset) /\ bindUser \in [Node -> UserOrNone]
        BY <3>t DEF IInv, TypeOK, TasksOK, GoodTask
      <3>1. t.pc # "unbindTx" => t.to \in Node /\ t.u \in User /\ t.u # None
        BY <2>4, <3>g, <3>t DEF BindNodeWithNewUser, UnbindNode, SwitchNodeByUser, At, GoodTask, Holds,
               ToPCs, UserPCs, BindPCs, SwitchPCs
      <3>2. CASE BindNodeWithNewUser(p) /\ t.pc = "bindTx"
        BY <3>1, <3>2, <3>g, <3>t DEF BindNodeWithNewUser
      <3>3. CASE UnbindNode(p)
        BY <3>3, <3>g, <3>t DEF UnbindNode
      <3>4. CASE SwitchNodeByUser(p) /\ t.pc = "switchTx"
        BY <3>1, <3>4, <3>g, <3>t DEF SwitchNodeByUser
      <3>5. QED
        BY <2>4, <3>2, <3>3, <3>4, <3>t DEF BindNodeWithNewUser, SwitchNodeByUser, At
    <2>5. ASSUME NEW p \in Conn, SetNodeAndZadd(p)
          PROVE  Mirrored
      <3>1. bindUser \in [Node -> UserOrNone]
        BY DEF IInv, TypeOK
      <3>2. QED
        BY <2>5, <3>1 DEF SetNodeAndZadd
    <2>6. QED
      BY <2>1, <2>2, <2>3, <2>4, <2>5, NextIsStep
  <1>2. QED
    BY <1>1, Inductive, PTL DEF Spec, BindMirrorsHash
=============================================================================
