---------------------------- MODULE ManagerUsers ----------------------------
(* The users the manager keeps (manager: createuserlogic.go,               *)
(* deleteuserlogic.go, the handlers that pass a request on, model/user.go).*)
(*                                                                         *)
(* A user lives in the service of one point of presence; the manager       *)
(* remembers which in a redis hash.  A handler reads the hash, calls the   *)
(* service and then writes the hash, and each of the three may fail.  What *)
(* the service does on a call (NodeBinding) is one step here: it stores    *)
(* the user, forgets it, or refuses.                                       *)

CONSTANTS Request,   \* goroutines, reused
          User, Pop, None

ASSUME NoneAssumption == None \notin User \cup Pop

VARIABLES
  userPop,   \* redis hash of each user's point of presence
  stored,    \* the users each point of presence has
  task,      \* each request: where it is, operation, user, point of presence
  late,      \* calls the manager no longer waits for and a service may yet run
  raced,     \* history: users created or deleted by two requests at a time
  orphan,    \* history: users left at a point of presence, and not remembered
  ghost      \* history: users a deletion cut short took from there

vars == <<userPop, stored, task, late, raced, orphan, ghost>>
history == <<raced, orphan, ghost>>
rest == <<late, history>>

Ops == {"create", "delete", "forward"}
Idle == [pc |-> "idle", op |-> None, user |-> None, pop |-> None]
Task == [pc : {"idle", "get", "call", "set", "hdel"}, op : Ops \cup {None},
         user : User \cup {None}, pop : Pop \cup {None}]
Call == [op : {"create", "delete"}, user : User, pop : Pop]

Init ==
  /\ userPop = [u \in User |-> None]
  /\ stored = [p \in Pop |-> {}]
  /\ task = [r \in Request |-> Idle]
  /\ late = {} /\ raced = {} /\ orphan = {} /\ ghost = {}

At(r, pc, ops) == task[r].pc = pc /\ task[r].op \in ops
Become(r, t) == task' = [task EXCEPT ![r] = t]
Goto(r, pc) == Become(r, [task[r] EXCEPT !.pc = pc])
Return(r) == Become(r, Idle)
\* A call c, of a request or late: has the service the user, and what it does.
Has(c) == c.user \in stored[c.pop]
Keeps(c) == stored' = [stored EXCEPT ![c.pop] = @ \cup {c.user}]
Drops(c) == stored' = [stored EXCEPT ![c.pop] = @ \ {c.user}]
Changing(q, u) == task[q].user = u /\ task[q].op \in {"create", "delete"}

-----------------------------------------------------------------------------
\* A request arrives; a creation names the point of presence.
Arrive(r, op, u, p) ==
  /\ task[r].pc = "idle"
  /\ Become(r, [pc |-> "get", op |-> op, user |-> u, pop |-> IF op = "create" THEN p ELSE None])
  /\ raced' = IF op # "forward" /\ \E q \in Request : Changing(q, u)
              THEN raced \cup {u} ELSE raced
  /\ UNCHANGED <<userPop, stored, late, orphan, ghost>>

\* Mutant: a creation does not look whether the user exists.
GetForCreate_Any(r) ==
  /\ At(r, "get", {"create"})
  /\ Goto(r, "call")
  /\ UNCHANGED <<userPop, stored, rest>>

\* GetUserPop: a creation goes on if there is no such user ...
GetForCreate(r) ==
  /\ At(r, "get", {"create"})
  /\ IF userPop[task[r].user] = None THEN Goto(r, "call") ELSE Return(r)
  /\ UNCHANGED <<userPop, stored, rest>>

\* ... and the others go where the user is.
GetForOthers(r) ==
  LET p == userPop[task[r].user]
  IN  /\ At(r, "get", {"delete", "forward"})
      /\ IF p = None THEN Return(r) ELSE Become(r, [task[r] EXCEPT !.pc = "call", !.pop = p])
      /\ UNCHANGED <<userPop, stored, rest>>

GetFails(r) ==
  /\ task[r].pc = "get"
  /\ Return(r)
  /\ UNCHANGED <<userPop, stored, rest>>

-----------------------------------------------------------------------------
\* The call of the service: it does as it is asked and answers ...
CallCreates(r) ==
  /\ At(r, "call", {"create"}) /\ ~Has(task[r])
  /\ Keeps(task[r])
  /\ Goto(r, "set")
  /\ UNCHANGED <<userPop, rest>>

CallDeletes(r) ==
  /\ At(r, "call", {"delete"}) /\ Has(task[r])
  /\ Drops(task[r])
  /\ Goto(r, "hdel")
  /\ UNCHANGED <<userPop, rest>>

CallForwards(r) ==
  /\ At(r, "call", {"forward"})
  /\ Return(r)
  /\ UNCHANGED <<userPop, stored, rest>>

\* ... or the manager stops waiting for it.  One late call of a kind at a time.
CallTimesOut(r) ==
  /\ At(r, "call", {"create", "delete"})
  /\ late' = late \cup {[op |-> task[r].op, user |-> task[r].user, pop |-> task[r].pop]}
  /\ Return(r)
  /\ UNCHANGED <<userPop, stored, history>>

\* A late call is run by the service, or never reaches it.
LateCreates(c) ==
  /\ c \in late /\ c.op = "create" /\ ~Has(c)
  /\ Keeps(c)
  /\ late' = late \ {c} /\ orphan' = orphan \cup {c.user}
  /\ UNCHANGED <<userPop, task, raced, ghost>>

LateDeletes(c) ==
  /\ c \in late /\ c.op = "delete" /\ Has(c)
  /\ Drops(c)
  /\ late' = late \ {c} /\ ghost' = ghost \cup {c.user}
  /\ UNCHANGED <<userPop, task, raced, orphan>>

LateIsNothing(c) ==
  /\ c \in late
  /\ late' = late \ {c}
  /\ UNCHANGED <<userPop, stored, task, history>>

\* Mutant: the error of a call is not looked at.
CallFails_Ignored(r) ==
  /\ task[r].pc = "call"
  /\ IF task[r].op = "create" THEN Goto(r, "set") ELSE Return(r)
  /\ UNCHANGED <<userPop, stored, rest>>

\* ... or refuses with an error, or is not reached ...
CallFails(r) ==
  /\ task[r].pc = "call"
  /\ Return(r)
  /\ UNCHANGED <<userPop, stored, rest>>

\* ... or refuses a deletion with a message, which the manager takes for done.
DeleteRefused(r) ==
  /\ At(r, "call", {"delete"})
  /\ Goto(r, "hdel")
  /\ orphan' = IF Has(task[r]) THEN orphan \cup {task[r].user} ELSE orphan
  /\ UNCHANGED <<userPop, stored, late, raced, ghost>>

-----------------------------------------------------------------------------
SetUserPop(r) ==
  /\ task[r].pc = "set"
  /\ userPop' = [userPop EXCEPT ![task[r].user] = task[r].pop]
  /\ Return(r)
  /\ UNCHANGED <<stored, rest>>

SetUserPopFails(r) ==
  /\ task[r].pc = "set"
  /\ Return(r) /\ orphan' = orphan \cup {task[r].user}
  /\ UNCHANGED <<userPop, stored, late, raced, ghost>>

\* DeleteUser: what an earlier deletion left behind is gone as well.
DeleteUser(r) ==
  /\ task[r].pc = "hdel"
  /\ userPop' = [userPop EXCEPT ![task[r].user] = None]
  /\ Return(r) /\ ghost' = ghost \ {task[r].user}
  /\ UNCHANGED <<stored, late, raced, orphan>>

DeleteUserFails(r) ==
  /\ task[r].pc = "hdel"
  /\ Return(r) /\ ghost' = ghost \cup {task[r].user}
  /\ UNCHANGED <<userPop, stored, late, raced, orphan>>

\* The manager stops and starts again.
Restart ==
  /\ task' = [r \in Request |-> Idle]
  /\ orphan' = orphan \cup {task[r].user : r \in {q \in Request : task[q].pc = "set"}}
  /\ ghost' = ghost \cup {task[r].user : r \in {q \in Request : task[q].pc = "hdel"}}
  /\ UNCHANGED <<userPop, stored, late, raced>>

Next ==
  \/ \E r \in Request :
       \/ \E op \in Ops, u \in User, p \in Pop : Arrive(r, op, u, p)
       \/ GetForCreate(r) \/ GetForOthers(r) \/ GetFails(r)
       \/ CallCreates(r) \/ CallDeletes(r) \/ CallForwards(r)
       \/ CallTimesOut(r) \/ CallFails(r) \/ DeleteRefused(r)
       \/ SetUserPop(r) \/ SetUserPopFails(r) \/ DeleteUser(r) \/ DeleteUserFails(r)
  \/ \E c \in late : LateCreates(c) \/ LateDeletes(c) \/ LateIsNothing(c)
  \/ Restart

Spec == Init /\ [][Next]_vars

-----------------------------------------------------------------------------
(* Properties                                                              *)

TypeOK ==
  /\ userPop \in [User -> Pop \cup {None}]
  /\ stored \in [Pop -> SUBSET User]
  /\ task \in [Request -> Task]
  /\ \A r \in Request : task[r].pc \in {"call", "set", "hdel"} => task[r].pop \in Pop
  /\ late \subseteq Call /\ raced \subseteq User /\ orphan \subseteq User /\ ghost \subseteq User

Busy(u, pc) == \E r \in Request : task[r].user = u /\ task[r].pc = pc

\* The point of presence the manager sends a user's requests to has the user,
\* whatever fails in its creation; what a deletion cut short, or one that comes
\* late, has broken the next deletion makes good.  Changes of the user come one at a time.
RememberedIsStored ==
  \A u \in User \ (raced \cup ghost) :
    userPop[u] # None /\ ~Busy(u, "hdel") => u \in stored[userPop[u]]

\* The same with the types of the variables.
UsersInv == TypeOK /\ RememberedIsStored

\* A user is at no point of presence but the one the manager remembers, so
\* that it can be stopped and deleted, unless a creation was cut short or
\* came late or a deletion was refused.  Changes of the user come one at a time.
StoredIsRemembered ==
  \A p \in Pop : \A u \in stored[p] \ (raced \cup orphan) :
    userPop[u] = p \/ Busy(u, "set")


(* The inductive invariant behind them: what a request holds.  A creation   *)
(* that was let go on finds the user nowhere remembered, a deletion where   *)
(* it went, as long as the user is changed by one request at a time.        *)
Placed(t) ==
  /\ t.pc # "idle" => t.user \in User /\ t.op \in Ops
  /\ t.pc = "get" /\ t.op = "create" => t.pop \in Pop
  /\ t.pc = "set" => t.op = "create"
  /\ t.pc = "hdel" => t.op = "delete"

Truthful(t) ==
  /\ t.op = "create" /\ t.pc \in {"call", "set"} => userPop[t.user] = None
  /\ t.op = "delete" /\ t.pc \in {"call", "hdel"} => userPop[t.user] = t.pop
  /\ t.pc = "set" /\ t.user \notin ghost => t.user \in stored[t.pop]
  /\ t.pc = "hdel" /\ t.user \notin orphan => t.user \notin stored[t.pop]

OneChangeAtATime ==
  \A u \in User \ raced, q, r \in Request : Changing(q, u) /\ Changing(r, u) => q = r

\* A user that is stored and not remembered is about to be, where it is stored.
StoredOrOnItsWay ==
  \A p \in Pop : \A u \in stored[p] \ (raced \cup orphan) :
    \/ userPop[u] = p
    \/ \E r \in Request : task[r].user = u /\ task[r].pc = "set" /\ task[r].pop = p

IInv ==
  /\ TypeOK
  /\ \A r \in Request : Placed(task[r]) /\ (task[r].user \notin raced => Truthful(task[r]))
  /\ OneChangeAtATime
  /\ StoredOrOnItsWay
  /\ RememberedIsStored
=============================================================================
