-------------------------- MODULE ManagerUsersProofs -------------------------
(***************************************************************************)
(* Proofs about ManagerUsers: what the manager remembers of users, for any *)
(* number of requests, users and points of presence.                       *)
(***************************************************************************)
EXTENDS ManagerUsers, TLAPS

USE NoneAssumption

\* The step of one request.
Step(r) ==
  \/ \E op \in Ops, u \in User, p \in Pop : Arrive(r, op, u, p)
  \/ GetForCreate(r) \/ GetForOthers(r) \/ GetFails(r)
  \/ CallCreates(r) \/ CallDeletes(r) \/ CallForwards(r)
  \/ CallTimesOut(r) \/ CallFails(r) \/ DeleteRefused(r)
  \/ SetUserPop(r) \/ SetUserPopFails(r) \/ DeleteUser(r) \/ DeleteUserFails(r)

\* What is claimed of a request, and of it alone.
Good(r) == Placed(task[r]) /\ (task[r].user \notin raced => Truthful(task[r]))

LEMMA UsersInitInv == Init => IInv
  BY DEF Init, Idle, IInv, TypeOK, Task, Placed, Truthful, OneChangeAtATime, Changing,
         StoredOrOnItsWay, RememberedIsStored

\* A request that is over claims nothing, and changes no user.
LEMMA IdleIsGood == Idle \in Task /\ Placed(Idle) /\ Truthful(Idle)
  BY DEF Idle, Task, Placed, Truthful

\* A request that goes on, or ends, while the tables and histories stay.
LEMMA GoesOn ==
  ASSUME IInv, NEW r \in Request, NEW t \in Task, Become(r, t),
         UNCHANGED <<userPop, stored, raced>>, late' \subseteq Call,
         orphan \subseteq orphan', orphan' \subseteq User,
         ghost \subseteq ghost', ghost' \subseteq User,
         Placed(t), t.user \notin raced => Truthful(t)',
         t.pc \in {"call", "set", "hdel"} => t.pop \in Pop,
         t.user # None => t.user = task[r].user /\ t.op = task[r].op,
         task[r].pc = "set" => task[r].user \in orphan',
         task[r].pc = "hdel" => task[r].user \in ghost'
  PROVE  IInv'
  <1>1. TypeOK'
    BY DEF IInv, TypeOK, Become
  <1>2. \A q \in Request : Good(q)'
    BY DEF IInv, Good, Become, Placed, Truthful, TypeOK
  <1>3. OneChangeAtATime'
    BY DEF IInv, OneChangeAtATime, Changing, Become, TypeOK
  <1>4. StoredOrOnItsWay'
    BY DEF IInv, StoredOrOnItsWay, Become, TypeOK
  <1>5. RememberedIsStored'
    BY DEF IInv, RememberedIsStored, Busy, Become, TypeOK
  <1>6. QED
    BY <1>1, <1>2, <1>3, <1>4, <1>5 DEF IInv, Good


\* What a request at each step is known to be.
LEMMA Known ==
  ASSUME IInv, NEW r \in Request
  PROVE  /\ task[r] \in Task /\ Placed(task[r])
         /\ task[r].pc \in {"call", "set", "hdel"} => task[r].pop \in Pop
         /\ task[r].user \notin raced => Truthful(task[r])
         /\ task \in [Request -> Task] /\ userPop \in [User -> Pop \cup {None}]
         /\ stored \in [Pop -> SUBSET User]
         /\ late \subseteq Call /\ raced \subseteq User /\ orphan \subseteq User /\ ghost \subseteq User
  BY DEF IInv, TypeOK

\* The steps that only read, or fail without effect.
LEMMA QuietSteps ==
  ASSUME IInv, NEW r \in Request,
         \/ GetForCreate(r) \/ GetForOthers(r) \/ GetFails(r) \/ CallForwards(r) \/ CallFails(r)
         \/ CallTimesOut(r) \/ DeleteRefused(r) \/ SetUserPopFails(r) \/ DeleteUserFails(r)
  PROVE  IInv'
  <1>t. PICK t : t = task[r]
    OBVIOUS
  <1>k. /\ t \in Task /\ Placed(t)
        /\ t.user \notin raced => Truthful(t)
        /\ t.pc \in {"call", "set", "hdel"} => t.pop \in Pop
        /\ userPop \in [User -> Pop \cup {None}]
        /\ late \subseteq Call /\ orphan \subseteq User /\ ghost \subseteq User
    BY <1>t, Known
  <1>1. CASE GetFails(r) \/ CallForwards(r) \/ CallFails(r)
    BY <1>1, <1>k, <1>t, IdleIsGood, GoesOn
       DEF GetFails, CallForwards, CallFails, Return, At, rest, history, Idle, Truthful
  <1>2. CASE GetForCreate(r)
    <2>1. t.pc = "get" /\ t.op = "create" /\ UNCHANGED <<userPop, stored, rest>>
      BY <1>2, <1>t DEF GetForCreate, At
    <2>2. CASE userPop[t.user] = None /\ Goto(r, "call")
      <3> DEFINE s == [t EXCEPT !.pc = "call"]
      <3>1. s \in Task /\ Become(r, s) /\ s.user = t.user /\ s.op = t.op /\ s.pc = "call" /\ s.pop = t.pop
        BY <1>k, <1>t, <2>2 DEF Goto, Task
      <3>2. Placed(s) /\ Truthful(s)' /\ s.pop \in Pop
        BY <1>k, <2>1, <2>2, <3>1 DEF Placed, Truthful, rest, history
      <3>3. QED
        BY <1>k, <1>t, <2>1, <3>1, <3>2, GoesOn DEF rest, history
    <2>3. CASE Return(r)
      BY <1>k, <1>t, <2>1, <2>3, IdleIsGood, GoesOn DEF Return, rest, history, Idle, Truthful
    <2>4. QED
      BY <1>2, <1>t, <2>2, <2>3 DEF GetForCreate
  <1>3. CASE GetForOthers(r)
    <2>1. t.pc = "get" /\ t.op \in {"delete", "forward"} /\ UNCHANGED <<userPop, stored, rest>>
      BY <1>3, <1>t DEF GetForOthers, At
    <2> DEFINE s == [t EXCEPT !.pc = "call", !.pop = userPop[t.user]]
    <2>2. CASE userPop[t.user] # None /\ Become(r, s)
      <3>1. /\ s \in Task /\ s.user = t.user /\ s.op = t.op /\ s.pc = "call"
            /\ s.pop = userPop[t.user] /\ s.pop \in Pop
        BY <1>k, <2>1, <2>2 DEF Task, Placed
      <3>2. Placed(s) /\ Truthful(s)'
        BY <1>k, <2>1, <2>2, <3>1 DEF Placed, Truthful, rest, history
      <3>3. QED
        BY <1>k, <1>t, <2>1, <2>2, <3>1, <3>2, GoesOn DEF rest, history
    <2>3. CASE Return(r)
      BY <1>k, <1>t, <2>1, <2>3, IdleIsGood, GoesOn DEF Return, rest, history, Idle, Truthful
    <2>4. QED
      BY <1>3, <1>t, <2>2, <2>3 DEF GetForOthers
  <1>4. CASE CallTimesOut(r)
    <2>1. late' \subseteq Call /\ t.pc = "call"
      BY <1>4, <1>k, <1>t DEF CallTimesOut, At, Call, Placed
    <2>2. QED
      BY <1>4, <1>k, <1>t, <2>1, IdleIsGood, GoesOn
         DEF CallTimesOut, Return, history, Idle, Truthful
  <1>5. CASE DeleteRefused(r)
    <2> DEFINE s == [t EXCEPT !.pc = "hdel"]
    <2>1. /\ t.pc = "call" /\ t.op = "delete" /\ UNCHANGED <<userPop, stored, late, raced, ghost>>
          /\ orphan \subseteq orphan' /\ orphan' \subseteq User
          /\ t.user \in stored[t.pop] => t.user \in orphan'
      BY <1>5, <1>k, <1>t DEF DeleteRefused, At, Has, Placed
    <2>2. s \in Task /\ Become(r, s) /\ s.user = t.user /\ s.op = t.op /\ s.pc = "hdel" /\ s.pop = t.pop
      BY <1>5, <1>k, <1>t DEF DeleteRefused, Goto, Task
    <2>3. Placed(s) /\ (t.user \notin raced => Truthful(s)')
      BY <1>k, <2>1, <2>2 DEF Placed, Truthful
    <2>4. QED
      BY <1>k, <1>t, <2>1, <2>2, <2>3, GoesOn
  <1>6. CASE SetUserPopFails(r) \/ DeleteUserFails(r)
    BY <1>6, <1>k, <1>t, IdleIsGood, GoesOn
       DEF SetUserPopFails, DeleteUserFails, Return, Idle, Truthful, Placed
  <1>7. QED
    BY <1>1, <1>2, <1>3, <1>4, <1>5, <1>6

\* A request that arrives: the user of two that change it counts as raced.
LEMMA ArriveStep ==
  ASSUME IInv, NEW r \in Request, NEW op \in Ops, NEW u \in User, NEW p \in Pop, Arrive(r, op, u, p)
  PROVE  IInv'
  <1> DEFINE s == [pc |-> "get", op |-> op, user |-> u, pop |-> IF op = "create" THEN p ELSE None]
  <1>k. /\ task[r].pc = "idle" /\ s \in Task /\ task' = [task EXCEPT ![r] = s]
        /\ task \in [Request -> Task] /\ UNCHANGED <<userPop, stored, late, orphan, ghost>>
        /\ raced \subseteq raced' /\ raced' \subseteq User
        /\ op # "forward" /\ u \notin raced' => \A q \in Request : ~Changing(q, u)
    BY Known DEF Arrive, Become, Task
  <1>1. TypeOK'
    BY <1>k DEF IInv, TypeOK
  <1>2. \A q \in Request : Good(q)'
    BY <1>k DEF IInv, Good, Placed, Truthful
  <1>3. OneChangeAtATime'
    BY <1>k DEF IInv, OneChangeAtATime, Changing
  <1>4. StoredOrOnItsWay'
    BY <1>k DEF IInv, StoredOrOnItsWay
  <1>5. RememberedIsStored'
    BY <1>k DEF IInv, RememberedIsStored, Busy
  <1>6. QED
    BY <1>1, <1>2, <1>3, <1>4, <1>5 DEF IInv, Good

\* The service stores the user, or forgets it.
LEMMA CallSteps ==
  ASSUME IInv, NEW r \in Request, CallCreates(r) \/ CallDeletes(r)
  PROVE  IInv'
  <1>t. PICK t : t = task[r]
    OBVIOUS
  <1> DEFINE u == t.user
             p == t.pop
             s == [t EXCEPT !.pc = IF t.op = "create" THEN "set" ELSE "hdel"]
  <1>k. /\ t.pc = "call" /\ t.op \in {"create", "delete"} /\ u \in User /\ p \in Pop
        /\ s \in Task /\ task' = [task EXCEPT ![r] = s] /\ s.op = t.op /\ s.user = u /\ s.pop = p
        /\ task \in [Request -> Task] /\ UNCHANGED <<userPop, late, raced, orphan, ghost>>
        /\ stored \in [Pop -> SUBSET User]
    BY <1>t, Known DEF CallCreates, CallDeletes, At, Goto, Become, Task, Placed, rest, history
  <1>s. /\ stored' = [stored EXCEPT ![p] = IF t.op = "create" THEN @ \cup {u} ELSE @ \ {u}]
        /\ s.pc = IF t.op = "create" THEN "set" ELSE "hdel"
    BY <1>k, <1>t DEF CallCreates, CallDeletes, At, Keeps, Drops, Task
  <1>o. u \notin raced => \A q \in Request \ {r} : ~Changing(q, u)
    BY <1>k, <1>t DEF IInv, OneChangeAtATime, Changing
  <1>h. u \notin raced => userPop[u] = IF t.op = "create" THEN None ELSE p
    BY <1>k, <1>t, Known DEF Truthful
  <1>1. TypeOK'
    BY <1>k, <1>s DEF IInv, TypeOK
  <1>2. \A q \in Request : Good(q)'
    <2>1. Good(r)'
      <3>1. task'[r] = s /\ Placed(s)
        <4>1. task'[r] = s
          BY <1>k
        <4>2. s.pc \in {"set", "hdel"} /\ (s.pc = "set" <=> s.op = "create") /\ s.user \in User
          BY <1>k, <1>s
        <4> HIDE DEF s
        <4>3. QED
          BY <1>k, <4>1, <4>2 DEF Placed, Ops
      <3>2. u \in stored'[p] <=> t.op = "create"
        BY <1>k, <1>s
      <3>3. u \notin raced => Truthful(s)'
        BY <1>h, <1>k, <1>s, <3>2 DEF Truthful
      <3> HIDE DEF s
      <3>4. QED
        BY <1>k, <3>1, <3>3 DEF Good
    <2>2. ASSUME NEW q \in Request, q # r PROVE Good(q)'
      BY <1>k, <1>o, <1>s, <2>2, Known DEF IInv, Good, Placed, Truthful, Changing
    <2>3. QED
      BY <2>1, <2>2
  <1>3. OneChangeAtATime'
    BY <1>k, <1>t DEF IInv, OneChangeAtATime, Changing
  <1>4. StoredOrOnItsWay'
    BY <1>k, <1>s, <1>t DEF IInv, StoredOrOnItsWay
  <1>5. RememberedIsStored'
    BY <1>k, <1>s, <1>t DEF IInv, RememberedIsStored, Busy
  <1>6. QED
    BY <1>1, <1>2, <1>3, <1>4, <1>5 DEF IInv, Good


\* The hash is written: the user's point of presence is set, or forgotten.
LEMMA HashSteps ==
  ASSUME IInv, NEW r \in Request, SetUserPop(r) \/ DeleteUser(r)
  PROVE  IInv'
  <1>t. PICK t : t = task[r]
    OBVIOUS
  <1> DEFINE u == t.user
             p == t.pop
  <1>k. /\ t.pc = IF t.op = "create" THEN "set" ELSE "hdel"
        /\ t.op \in {"create", "delete"} /\ u \in User /\ p \in Pop
        /\ task' = [task EXCEPT ![r] = Idle] /\ task \in [Request -> Task]
        /\ userPop \in [User -> Pop \cup {None}]
        /\ userPop' = [userPop EXCEPT ![u] = IF t.op = "create" THEN p ELSE None]
        /\ UNCHANGED <<stored, late, raced, orphan>>
        /\ ghost' = IF t.op = "create" THEN ghost ELSE ghost \ {u}
    BY <1>t, Known DEF SetUserPop, DeleteUser, Return, Become, Placed, rest, history
  <1>o. u \notin raced => \A q \in Request \ {r} : ~Changing(q, u)
    BY <1>k, <1>t DEF IInv, OneChangeAtATime, Changing
  <1>h. u \notin raced =>
          /\ t.op = "create" => userPop[u] = None /\ (u \notin ghost => u \in stored[p])
          /\ t.op = "delete" => userPop[u] = p /\ (u \notin orphan => u \notin stored[p])
    BY <1>k, <1>t, Known DEF Truthful
  <1>1. TypeOK'
    BY <1>k, IdleIsGood DEF IInv, TypeOK, Idle
  <1>2. \A q \in Request : Good(q)'
    <2>1. Good(r)'
      BY <1>k DEF Good, Placed, Truthful, Idle
    <2>2. ASSUME NEW q \in Request, q # r PROVE Good(q)'
      BY <1>k, <1>o, <2>2, Known DEF IInv, Good, Placed, Truthful, Changing
    <2>3. QED
      BY <2>1, <2>2
  <1>3. OneChangeAtATime'
    BY <1>k DEF IInv, OneChangeAtATime, Changing, Idle
  <1>4. StoredOrOnItsWay'
    <2> SUFFICES ASSUME NEW q \in Pop, NEW v \in stored[q] \ (raced \cup orphan)
                 PROVE  \/ userPop'[v] = q
                        \/ \E x \in Request : task'[x].user = v /\ task'[x].pc = "set" /\ task'[x].pop = q
      BY <1>k DEF StoredOrOnItsWay
    <2>1. \/ userPop[v] = q
          \/ \E x \in Request : task[x].user = v /\ task[x].pc = "set" /\ task[x].pop = q
      BY DEF IInv, StoredOrOnItsWay
    <2>2. v \in User
      BY Known
    <2>3. CASE v = u
      BY <1>h, <1>k, <1>o, <1>t, <2>1, <2>3, Known DEF Changing, Placed
    <2>4. CASE v # u
      BY <1>k, <1>t, <2>1, <2>2, <2>4
    <2>5. QED
      BY <2>3, <2>4
  <1>5. RememberedIsStored'
    BY <1>h, <1>k, <1>t DEF IInv, RememberedIsStored, Busy
  <1>6. QED
    BY <1>1, <1>2, <1>3, <1>4, <1>5 DEF IInv, Good

\* A call the manager no longer waits for is run: the user counts as left
\* behind, or as taken away.
LEMMA LateSteps ==
  ASSUME IInv, NEW c \in late, LateCreates(c) \/ LateDeletes(c) \/ LateIsNothing(c)
  PROVE  IInv'
  <1> DEFINE u == c.user
  <1>k. /\ c \in Call /\ late \subseteq Call /\ u \in User /\ c.pop \in Pop
        /\ UNCHANGED <<userPop, task, raced>> /\ late' \subseteq Call
        /\ stored \in [Pop -> SUBSET User] /\ orphan' \subseteq User /\ ghost' \subseteq User
    BY DEF IInv, TypeOK, Call, LateCreates, LateDeletes, LateIsNothing, history
  <1>s. \/ /\ stored' = [stored EXCEPT ![c.pop] = @ \cup {u}]
           /\ orphan' = orphan \cup {u} /\ ghost' = ghost
        \/ /\ stored' = [stored EXCEPT ![c.pop] = @ \ {u}]
           /\ orphan' = orphan /\ ghost' = ghost \cup {u}
        \/ UNCHANGED <<stored, orphan, ghost>>
    BY DEF LateCreates, LateDeletes, LateIsNothing, Keeps, Drops, history
  <1>1. TypeOK'
    BY <1>k, <1>s DEF IInv, TypeOK
  <1>2. \A q \in Request : Good(q)'
    BY <1>k, <1>s, Known DEF Good, Placed, Truthful
  <1>3. OneChangeAtATime'
    BY <1>k DEF IInv, OneChangeAtATime, Changing
  <1>4. StoredOrOnItsWay'
    BY <1>k, <1>s DEF IInv, StoredOrOnItsWay
  <1>5. RememberedIsStored'
    BY <1>k, <1>s DEF IInv, TypeOK, RememberedIsStored, Busy
  <1>6. QED
    BY <1>1, <1>2, <1>3, <1>4, <1>5 DEF IInv, Good

\* The manager starts again: what its requests were about to write is lost.
LEMMA RestartStep == ASSUME IInv, Restart PROVE IInv'
  <1>k. /\ \A q \in Request : task'[q] = Idle
        /\ task' \in [Request -> Task]
        /\ UNCHANGED <<userPop, stored, late, raced>>
        /\ orphan \subseteq orphan' /\ orphan' \subseteq User
        /\ ghost \subseteq ghost' /\ ghost' \subseteq User
        /\ \A q \in Request : /\ task[q].pc = "set" => task[q].user \in orphan'
                              /\ task[q].pc = "hdel" => task[q].user \in ghost'
    BY Known, IdleIsGood DEF IInv, TypeOK, Restart, Placed
  <1>1. TypeOK'
    BY <1>k DEF IInv, TypeOK, Idle
  <1>2. \A q \in Request : Good(q)'
    BY <1>k DEF Good, Placed, Truthful, Idle
  <1>3. OneChangeAtATime'
    BY <1>k DEF OneChangeAtATime, Changing, Idle
  <1>4. StoredOrOnItsWay'
    BY <1>k DEF IInv, StoredOrOnItsWay
  <1>5. RememberedIsStored'
    BY <1>k DEF IInv, RememberedIsStored, Busy
  <1>6. QED
    BY <1>1, <1>2, <1>3, <1>4, <1>5 DEF IInv, Good

\* What the manager remembers, what the services have and what each request
\* holds, through failures, late calls and restarts: for any number of requests.
THEOREM UsersInductive == Spec => []IInv
  <1>1. IInv /\ UNCHANGED vars => IInv'
    BY DEF vars, IInv, TypeOK, Placed, Truthful, OneChangeAtATime, Changing, StoredOrOnItsWay,
           RememberedIsStored, Busy
  <1>2. IInv /\ [Next]_vars => IInv'
    BY <1>1, QuietSteps, ArriveStep, CallSteps, HashSteps, LateSteps, RestartStep DEF Next
  <1>3. QED
    BY <1>2, UsersInitInv, PTL DEF Spec

\* The point of presence a user's requests are sent to has the user, whatever
\* fails in its creation, unless two requests changed it at a time or a
\* deletion was cut short or came late.
THEOREM RememberedAreStored == Spec => []UsersInv
  <1>1. IInv => UsersInv
    BY DEF IInv, UsersInv
  <1>2. QED
    BY <1>1, UsersInductive, PTL

\* A user is nowhere but where the manager remembers, so that it can be stopped
\* and deleted, unless two requests changed it at a time, a creation was cut
\* short or came late, or a deletion was refused.
THEOREM StoredAreRemembered == Spec => []StoredIsRemembered
  <1>1. IInv => StoredIsRemembered
    BY DEF IInv, StoredOrOnItsWay, StoredIsRemembered, Busy
  <1>2. QED
    BY <1>1, UsersInductive, PTL
=============================================================================
