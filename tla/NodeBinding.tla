------------------------------ MODULE NodeBinding ------------------------------
(***************************************************************************)
(* The redis tables in which ippop records which node serves which user    *)
(* (src/ippop/api/model), and everything that writes them: the RPC         *)
(* handlers of the rpc service, the websocket goroutines and the traffic   *)
(* timer of the api service, and the websocket goroutines of the HTTP      *)
(* proxy, whose nodes are browsers.  (Its traffic timer has nothing to     *)
(* save: nothing counts traffic there.)  The first two run as processes of *)
(* their own (api/server.go, rpc/server.go), or all three in one (mian.go, *)
(* where a crash of all is a crash of the rpc service and one of the api   *)
(* service, with which the browsers go); they share nothing but redis, so  *)
(* the unit of interleaving is one redis round trip: a command or a        *)
(* MULTI/EXEC pipeline is one step, and what a goroutine read earlier is a *)
(* local copy that may be stale when used.                                 *)
(*                                                                         *)
(* GetNode is two round trips (HGETALL, SISMEMBER).  They are two steps    *)
(* only where the caller uses both answers (BindNodeWithNewUser,           *)
(* checkNode); elsewhere the step stands for the one whose answer is used. *)
(* Abstracted: every field of a user but its route and off flag, every     *)
(* field of a node but bind_user, and the scores of the sorted sets        *)
(* (ZPOPMIN may take any member).                                          *)
(***************************************************************************)
EXTENDS FiniteSets

CONSTANTS
    Node,       \* node ids
    User,       \* user names
    Handler,    \* goroutines of the rpc service, one request each
    Conn,       \* goroutines of the api service and of the HTTP proxy: a
                \* node's or a browser's websocket, the timer
    None,       \* no user, no node, no record
    Requests,   \* the operations clients ask for, a subset of RequestKinds
    Dialers,    \* users whose proxy connections look up the user cache
    Faults      \* what may go wrong, a subset of FaultKinds

RequestKinds == {"create", "createOn", "delete", "modify", "switch", "switchOn",
                 "save", "traffic", "browser"}
FaultKinds == {"error", "reply", "rpcCrash", "apiCrash"}

UserRec == [route: Node, off: BOOLEAN]

ASSUME NoneAssumption == None \notin Node \cup User \cup UserRec
ASSUME ProcAssumption == Handler \cap Conn = {}
ASSUME EnvAssumption ==
    Requests \subseteq RequestKinds /\ Dialers \subseteq User /\ Faults \subseteq FaultKinds

VARIABLES
    bindUser,   \* field bind_user of each node's hash
    nodeZset,   \* registered nodes: the hash and the zset entry
    online,     \* set node:online
    nodeBind,   \* zset node:bind
    nodeFree,   \* zset node:free
    user,       \* user hashes
    userZset,   \* zset of user names
    task,       \* what each goroutine is doing, with its local copies
    userCache,  \* TunnelManager.userCache: the cached route of each user
    fill,       \* a getUserFromCache that missed, between GetUser and Set
    apiUp       \* the api service is running

redis == <<bindUser, nodeZset, online, nodeBind, nodeFree, user, userZset>>
nodeTables == <<bindUser, nodeZset, online, nodeBind, nodeFree>>
cacheVars == <<userCache, fill>>
vars == <<redis, task, cacheVars, apiUp>>

Proc == Handler \cup Conn
NodeOrNone == Node \cup {None}
UserOrNone == User \cup {None}

Ops == RequestKinds \cup {"none", "conn"}
\* The operations whose target node was named by the request, not allocated.
NamedOps == {"createOn", "modify", "switchOn"}

BindPCs == {"bindRead", "bindOnline", "bindTx"}
SwitchPCs == {"switchFrom", "switchTo", "switchTx"}
RegisterPCs == {"register", "setOnline", "connFree"}
PCs == {"idle", "checkRoute", "allocate", "addFree", "delUser", "zremUser",
        "unbindRead", "unbindTx", "getUser", "checkNode", "checkOnline",
        "saveUser", "dropCache", "serve", "offline", "offGet", "offUser",
        "removeFree"} \cup BindPCs \cup SwitchPCs \cup RegisterPCs

Task == [pc: PCs, op: Ops,
         u: UserOrNone,             \* the user; while registering, node.BindUser
         n: NodeOrNone,             \* the node of a websocket
         to: NodeOrNone,            \* the node to bind
         rec: UserRec \cup {None},  \* the user as read
         bound: BOOLEAN,            \* node.BindUser # "" as read
         on: BOOLEAN]               \* node.Online as read

IdleTask == [pc |-> "idle", op |-> "none", u |-> None, n |-> None, to |-> None,
             rec |-> None, bound |-> FALSE, on |-> FALSE]

At(p, label) == task[p].pc = label
Goto(p, label) == task' = [task EXCEPT ![p].pc = label]
Return(p) == task' = [task EXCEPT ![p] = IdleTask]
Become(p, t) == task' = [task EXCEPT ![p] = t]
InFlight(p) == task[p].pc \notin {"idle", "serve"}

\* What a goroutine does when the redis call it is at returns an error: the
\* callers of SwitchNodeByUser give the node back (ModifyUser does not), so
\* does the deferred function of BindNodeWithNewUser if it read Online; the
\* errors of AddFreeNode and SetNodeOffline are ignored, and the latter is the
\* last that a browser's goroutine does; the rest returns.
OnError(t) ==
    IF \/ t.pc \in SwitchPCs /\ t.op # "modify"
       \/ t.pc = "bindTx" /\ t.on
    THEN [t EXCEPT !.pc = "addFree"]
    ELSE IF t.pc = "connFree" THEN [t EXCEPT !.pc = "serve"]
    ELSE IF t.pc = "offline" /\ t.op # "browser" THEN [t EXCEPT !.pc = "offGet"]
    ELSE IdleTask

\* A write was applied.  The goroutine goes on as t, or its reply is lost.
Written(p, t) ==
    \/ Become(p, t)
    \/ "reply" \in Faults /\ Become(p, OnError(task[p]))

-----------------------------------------------------------------------------
Init ==
    /\ bindUser = [n \in Node |-> None]
    /\ nodeZset = {} /\ online = {} /\ nodeBind = {} /\ nodeFree = {}
    /\ user = [u \in User |-> None]
    /\ userZset = {}
    /\ task = [p \in Proc |-> IdleTask]
    /\ userCache = [u \in User |-> None]
    /\ fill = None
    /\ apiUp = TRUE

(* The requests of the rpc service, up to their first redis answer.  One    *)
(* that is refused by that answer changes nothing and is not a step.        *)

\* CreateUser: GetUser must find nothing.  n is in.Route.NodeId, None if empty.
CreateUser(p, u, n) ==
    /\ At(p, "idle") /\ user[u] = None
    /\ Become(p, [IdleTask EXCEPT !.u = u, !.to = n,
                      !.op = IF n = None THEN "create" ELSE "createOn",
                      !.pc = IF n = None THEN "allocate" ELSE "checkRoute"])
    /\ UNCHANGED <<redis, cacheVars, apiUp>>

\* Faulty variant: the node is unbound before the user is deleted.
DeleteUser_UnbindFirst(p, u) ==
    /\ At(p, "idle") /\ user[u] # None
    /\ Become(p, [IdleTask EXCEPT !.pc = "unbindRead", !.op = "delete",
                                  !.u = u, !.rec = user[u]])
    /\ UNCHANGED <<redis, cacheVars, apiUp>>

DeleteUser(p, u) ==
    /\ At(p, "idle") /\ user[u] # None
    /\ Become(p, [IdleTask EXCEPT !.pc = "delUser", !.op = "delete",
                                  !.u = u, !.rec = user[u]])
    /\ UNCHANGED <<redis, cacheVars, apiUp>>

\* ModifyUser checks the route before it reads the user.
ModifyUser(p, u, n) ==
    /\ At(p, "idle")
    /\ Become(p, [IdleTask EXCEPT !.pc = "checkRoute", !.op = "modify",
                                  !.u = u, !.to = n])
    /\ UNCHANGED <<redis, cacheVars, apiUp>>

SwitchUserRouteNode(p, u, n) ==
    /\ At(p, "idle") /\ user[u] # None
    /\ Become(p, [IdleTask EXCEPT !.u = u, !.to = n, !.rec = user[u],
                      !.op = IF n = None THEN "switch" ELSE "switchOn",
                      !.pc = IF n = None THEN "allocate" ELSE "checkNode"])
    /\ UNCHANGED <<redis, cacheVars, apiUp>>

\* StartOrStopUser (and ModifyUserPassword, which changes another field).
StartOrStopUser(p, u, off) ==
    /\ At(p, "idle") /\ user[u] # None
    /\ Become(p, [IdleTask EXCEPT !.pc = "saveUser", !.op = "save", !.u = u,
                                  !.rec = [user[u] EXCEPT !.off = off]])
    /\ UNCHANGED <<redis, cacheVars, apiUp>>

\* startUserTrafficTimer, one user: the whole user is read, to be saved with
\* its traffic added.  There is one timer.
TrafficTimer(c, u) ==
    /\ apiUp /\ At(c, "idle") /\ user[u] # None
    /\ \A d \in Conn : task[d].op # "traffic"
    /\ Become(c, [IdleTask EXCEPT !.pc = "saveUser", !.op = "traffic", !.u = u,
                                  !.rec = user[u]])
    /\ UNCHANGED <<redis, cacheVars, apiUp>>

-----------------------------------------------------------------------------
(* The steps the handlers share.                                            *)

RouteModes == {"manual", "auto", "timed", "other"}

\* It says so of the three modes that there are.
isInvalidRouteMode(mode) == mode \in {"manual", "auto", "timed"}

\* checkRoute: the request's mode passes, and the named node exists and is not
\* bound.
CheckRoute(p) ==
    LET t == task[p]
        refused(mode) == \/ isInvalidRouteMode(mode)
                         \/ t.to \notin nodeZset \/ bindUser[t.to] # None IN
    /\ At(p, "checkRoute")
    /\ \E mode \in RouteModes :
        Become(p, IF refused(mode) THEN IdleTask
                  ELSE [t EXCEPT !.pc = IF t.op = "modify" THEN "getUser" ELSE "bindRead"])
    /\ UNCHANGED <<redis, cacheVars, apiUp>>

\* ModifyUser: the user exists and is not routed to the named node already.
GetUserToModify(p) ==
    LET t == task[p]
        refused == user[t.u] = None \/ user[t.u].route = t.to IN
    /\ At(p, "getUser")
    /\ Become(p, IF refused THEN IdleTask
                 ELSE [t EXCEPT !.pc = "switchFrom", !.rec = user[t.u]])
    /\ UNCHANGED <<redis, cacheVars, apiUp>>

\* checkNode: HGETALL, then SISMEMBER.
CheckNode(p) ==
    LET t == task[p] IN
    /\ At(p, "checkNode")
    /\ Become(p, IF t.to \notin nodeZset \/ bindUser[t.to] # None THEN IdleTask
                 ELSE [t EXCEPT !.pc = "checkOnline"])
    /\ UNCHANGED <<redis, cacheVars, apiUp>>

CheckOnline(p) ==
    /\ At(p, "checkOnline")
    /\ IF task[p].to \in online THEN Goto(p, "switchFrom") ELSE Return(p)
    /\ UNCHANGED <<redis, cacheVars, apiUp>>

\* Faulty variant: the caller gives a node back though none was allocated.
AllocateFreeNode_EmptyGivenBack(p) ==
    /\ At(p, "allocate")
    /\ \/ nodeFree = {} /\ Goto(p, "addFree")
       \/ \E n \in nodeFree :
            Become(p, [task[p] EXCEPT !.to = n,
                !.pc = IF task[p].op = "create" THEN "bindRead" ELSE "switchFrom"])
    /\ UNCHANGED <<redis, cacheVars, apiUp>>

\* Faulty variant: the node is read, not popped.
AllocateFreeNode_NotPopped(p) ==
    /\ At(p, "allocate")
    /\ \/ nodeFree = {} /\ Return(p)
       \/ \E n \in nodeFree :
            Become(p, [task[p] EXCEPT !.to = n,
                !.pc = IF task[p].op = "create" THEN "bindRead" ELSE "switchFrom"])
    /\ UNCHANGED <<redis, cacheVars, apiUp>>

\* AllocateFreeNode: ZPOPMIN takes the node out of node:free.
AllocateFreeNode(p) ==
    /\ At(p, "allocate")
    /\ \/ /\ nodeFree = {}
          /\ Return(p)
          /\ UNCHANGED nodeFree
       \/ \E n \in nodeFree :
            /\ nodeFree' = nodeFree \ {n}
            /\ Written(p, [task[p] EXCEPT !.to = n,
                   !.pc = IF task[p].op = "create" THEN "bindRead" ELSE "switchFrom"])
    /\ UNCHANGED <<bindUser, nodeZset, online, nodeBind, user, userZset, cacheVars, apiUp>>

AddFreeNode(p) ==
    /\ At(p, "addFree")
    /\ nodeFree' = nodeFree \cup {task[p].to}
    /\ Return(p)
    /\ UNCHANGED <<bindUser, nodeZset, online, nodeBind, user, userZset, cacheVars, apiUp>>

\* BindNodeWithNewUser, and the GetNode of CreateUser before it, whose answer
\* (the node exists) is the same.  A node that is missing is not given back.
BindRead(p) ==
    LET t == task[p] IN
    /\ At(p, "bindRead")
    /\ Become(p, IF t.to \notin nodeZset THEN IdleTask
                 ELSE [t EXCEPT !.pc = "bindOnline", !.bound = bindUser[t.to] # None])
    /\ UNCHANGED <<redis, cacheVars, apiUp>>

BindOnline(p) ==
    LET t == task[p]
        on == t.to \in online IN
    /\ At(p, "bindOnline")
    /\ Become(p, IF ~t.bound THEN [t EXCEPT !.pc = "bindTx", !.on = on]
                 ELSE IF on THEN [t EXCEPT !.pc = "addFree"]
                 ELSE IdleTask)
    /\ UNCHANGED <<redis, cacheVars, apiUp>>

BindNodeWithNewUser(p) ==
    LET t == task[p] IN
    /\ At(p, "bindTx")
    /\ bindUser' = [bindUser EXCEPT ![t.to] = t.u]
    /\ user' = [user EXCEPT ![t.u] = [route |-> t.to, off |-> FALSE]]
    /\ userZset' = userZset \cup {t.u}
    /\ nodeBind' = nodeBind \cup {t.to}
    /\ nodeFree' = nodeFree \ {t.to}
    /\ Written(p, IdleTask)
    /\ UNCHANGED <<nodeZset, online, cacheVars, apiUp>>

\* Faulty variant: the user is taken off the list before its hash is deleted.
DelUser_ListFirst(p) ==
    /\ At(p, "delUser")
    /\ userZset' = userZset \ {task[p].u}
    /\ Written(p, [task[p] EXCEPT !.pc = "zremUser"])
    /\ UNCHANGED <<nodeTables, user, cacheVars, apiUp>>

\* model.DeleteUser: Del, then Zrem.
DelUser(p) ==
    /\ At(p, "delUser")
    /\ user' = [user EXCEPT ![task[p].u] = None]
    /\ Written(p, [task[p] EXCEPT !.pc = "zremUser"])
    /\ UNCHANGED <<nodeTables, userZset, cacheVars, apiUp>>

ZremUser(p) ==
    /\ At(p, "zremUser")
    /\ userZset' = userZset \ {task[p].u}
    /\ Written(p, [task[p] EXCEPT !.pc = "unbindRead"])
    /\ UNCHANGED <<nodeTables, user, cacheVars, apiUp>>

\* UnbindNode of the route the deleted user had.
UnbindRead(p) ==
    LET t == task[p] IN
    /\ At(p, "unbindRead")
    /\ Become(p, IF t.rec.route \notin nodeZset THEN IdleTask
                 ELSE [t EXCEPT !.pc = "unbindTx", !.on = t.rec.route \in online])
    /\ UNCHANGED <<redis, cacheVars, apiUp>>

\* Faulty variant: the transaction lacks the ZREM of node:bind.
UnbindNode_StaysInZset(p) ==
    LET t == task[p]
        n == t.rec.route IN
    /\ At(p, "unbindTx")
    /\ bindUser' = [bindUser EXCEPT ![n] = None]
    /\ nodeFree' = IF t.on THEN nodeFree \cup {n} ELSE nodeFree
    /\ Written(p, [t EXCEPT !.pc = "dropCache"])
    /\ UNCHANGED <<nodeZset, nodeBind, online, user, userZset, cacheVars, apiUp>>

UnbindNode(p) ==
    LET t == task[p]
        n == t.rec.route IN
    /\ At(p, "unbindTx")
    /\ bindUser' = [bindUser EXCEPT ![n] = None]
    /\ nodeBind' = nodeBind \ {n}
    /\ nodeFree' = IF t.on THEN nodeFree \cup {n} ELSE nodeFree
    /\ Written(p, [t EXCEPT !.pc = "dropCache"])
    /\ UNCHANGED <<nodeZset, online, user, userZset, cacheVars, apiUp>>

\* SwitchNodeByUser: GetNode(from), GetNode(to), the transaction.
SwitchFrom(p) ==
    LET t == task[p] IN
    /\ At(p, "switchFrom")
    /\ Become(p, IF t.rec.route \notin nodeZset THEN OnError(t)
                 ELSE [t EXCEPT !.pc = "switchTo", !.on = t.rec.route \in online])
    /\ UNCHANGED <<redis, cacheVars, apiUp>>

SwitchTo(p) ==
    LET t == task[p] IN
    /\ At(p, "switchTo")
    /\ Become(p, IF t.to \notin nodeZset \/ bindUser[t.to] # None THEN OnError(t)
                 ELSE [t EXCEPT !.pc = "switchTx"])
    /\ UNCHANGED <<redis, cacheVars, apiUp>>

\* Faulty variant: the old node is freed without asking whether it is online.
SwitchNodeByUser_FreesOffline(p) ==
    LET t == task[p]
        from == t.rec.route IN
    /\ At(p, "switchTx")
    /\ bindUser' = [bindUser EXCEPT ![from] = None, ![t.to] = t.u]
    /\ nodeBind' = (nodeBind \ {from}) \cup {t.to}
    /\ nodeFree' = (nodeFree \cup {from}) \ {t.to}
    /\ user' = [user EXCEPT ![t.u] = [t.rec EXCEPT !.route = t.to]]
    /\ Written(p, [t EXCEPT !.pc = "dropCache"])
    /\ UNCHANGED <<nodeZset, online, userZset, cacheVars, apiUp>>

\* Faulty variant: the cached route is not dropped.
SwitchNodeByUser_KeepsCache(p) ==
    LET t == task[p]
        from == t.rec.route IN
    /\ At(p, "switchTx")
    /\ bindUser' = [bindUser EXCEPT ![from] = None, ![t.to] = t.u]
    /\ nodeBind' = (nodeBind \ {from}) \cup {t.to}
    /\ nodeFree' = (nodeFree \cup (IF t.on THEN {from} ELSE {})) \ {t.to}
    /\ user' = [user EXCEPT ![t.u] = [t.rec EXCEPT !.route = t.to]]
    /\ Written(p, IdleTask)
    /\ UNCHANGED <<nodeZset, online, userZset, cacheVars, apiUp>>

\* Faulty variant: the user is written anew, as BindNodeWithNewUser does.
SwitchNodeByUser_ResetsUser(p) ==
    LET t == task[p]
        from == t.rec.route IN
    /\ At(p, "switchTx")
    /\ bindUser' = [bindUser EXCEPT ![from] = None, ![t.to] = t.u]
    /\ nodeBind' = (nodeBind \ {from}) \cup {t.to}
    /\ nodeFree' = (nodeFree \cup (IF t.on THEN {from} ELSE {})) \ {t.to}
    /\ user' = [user EXCEPT ![t.u] = [route |-> t.to, off |-> FALSE]]
    /\ Written(p, [t EXCEPT !.pc = "dropCache"])
    /\ UNCHANGED <<nodeZset, online, userZset, cacheVars, apiUp>>

SwitchNodeByUser(p) ==
    LET t == task[p]
        from == t.rec.route IN
    /\ At(p, "switchTx")
    /\ bindUser' = [bindUser EXCEPT ![from] = None, ![t.to] = t.u]
    /\ nodeBind' = (nodeBind \ {from}) \cup {t.to}
    /\ nodeFree' = (nodeFree \cup (IF t.on THEN {from} ELSE {})) \ {t.to}
    /\ user' = [user EXCEPT ![t.u] = [t.rec EXCEPT !.route = t.to]]
    /\ Written(p, [t EXCEPT !.pc = "dropCache"])
    /\ UNCHANGED <<nodeZset, online, userZset, cacheVars, apiUp>>

\* SaveUser writes every field of the copy.  The timer does not touch the cache.
SaveUser(p) ==
    LET t == task[p] IN
    /\ At(p, "saveUser")
    /\ user' = [user EXCEPT ![t.u] = t.rec]
    /\ Written(p, IF t.op = "traffic" THEN IdleTask ELSE [t EXCEPT !.pc = "dropCache"])
    /\ UNCHANGED <<nodeTables, userZset, cacheVars, apiUp>>

\* DeleteUserFromCache, by a call (api) or a request (rpc, lost if api is down).
DeleteUserCache(p) ==
    /\ At(p, "dropCache")
    /\ userCache' = [userCache EXCEPT ![task[p].u] = None]
    /\ Return(p)
    /\ UNCHANGED <<redis, fill, apiUp>>

-----------------------------------------------------------------------------
(* A node's websocket in the api service, and a browser's in the HTTP       *)
(* proxy.                                                                   *)

\* Faulty variant: a node is set online without being registered.
ServeWS_NotRegistered(c, n) ==
    /\ apiUp /\ At(c, "idle")
    /\ Become(c, [IdleTask EXCEPT !.pc = "setOnline", !.op = "conn", !.n = n,
                                  !.u = bindUser[n]])
    /\ UNCHANGED <<redis, cacheVars, apiUp>>

\* ServeWS reads the node before the upgrade and the handover.
ServeWS(c, n) ==
    /\ apiUp /\ At(c, "idle")
    /\ Become(c, [IdleTask EXCEPT !.pc = "register", !.op = "conn", !.n = n,
                                  !.u = bindUser[n]])
    /\ UNCHANGED <<redis, cacheVars, apiUp>>

\* The HTTP proxy's ServeWS, likewise; it writes the same tables as the other.
ServeBrowser(c, n) ==
    /\ apiUp /\ At(c, "idle")
    /\ Become(c, [IdleTask EXCEPT !.pc = "register", !.op = "browser", !.n = n,
                                  !.u = bindUser[n]])
    /\ UNCHANGED <<redis, cacheVars, apiUp>>

\* SetNodeAndZadd writes the node as ServeWS read it, bind_user included.
SetNodeAndZadd(c) ==
    LET t == task[c] IN
    /\ At(c, "register")
    /\ bindUser' = [bindUser EXCEPT ![t.n] = t.u]
    /\ nodeZset' = nodeZset \cup {t.n}
    /\ Written(c, [t EXCEPT !.pc = "setOnline"])
    /\ UNCHANGED <<online, nodeBind, nodeFree, user, userZset, cacheVars, apiUp>>

SetNodeOnline(c) ==
    LET t == task[c] IN
    /\ At(c, "setOnline")
    /\ online' = online \cup {t.n}
    /\ Written(c, [t EXCEPT !.u = None,
                            !.pc = IF t.u = None THEN "connFree" ELSE "serve"])
    /\ UNCHANGED <<bindUser, nodeZset, nodeBind, nodeFree, user, userZset, cacheVars, apiUp>>

AddFreeOnAccept(c) ==
    /\ At(c, "connFree")
    /\ nodeFree' = nodeFree \cup {task[c].n}
    /\ Goto(c, "serve")
    /\ UNCHANGED <<bindUser, nodeZset, online, nodeBind, user, userZset, cacheVars, apiUp>>

\* serve returns: the websocket is gone.
ServeReturns(c) ==
    /\ At(c, "serve")
    /\ Goto(c, "offline")
    /\ UNCHANGED <<redis, cacheVars, apiUp>>

\* handleNodeOffline.  A browser's goroutine has nothing else deferred: what is
\* free stays free, and who is bound stays bound.
SetNodeOffline(c) ==
    /\ At(c, "offline")
    /\ online' = online \ {task[c].n}
    /\ IF task[c].op = "browser" THEN Return(c) ELSE Goto(c, "offGet")
    /\ UNCHANGED <<bindUser, nodeZset, nodeBind, nodeFree, user, userZset, cacheVars, apiUp>>

OfflineGetNode(c) ==
    LET t == task[c]
        u == bindUser[t.n] IN
    /\ At(c, "offGet")
    /\ Become(c, IF u = None THEN [t EXCEPT !.u = None, !.pc = "removeFree"]
                 ELSE [t EXCEPT !.u = u, !.pc = "offUser"])
    /\ UNCHANGED <<redis, cacheVars, apiUp>>

RemoveFreeNode(c) ==
    /\ At(c, "removeFree")
    /\ nodeFree' = nodeFree \ {task[c].n}
    /\ Return(c)
    /\ UNCHANGED <<bindUser, nodeZset, online, nodeBind, user, userZset, cacheVars, apiUp>>

\* swithNodeForUser: GetUser, then AllocateFreeNode and SwitchNodeByUser.
SwithNodeForUser(c) ==
    LET t == task[c] IN
    /\ At(c, "offUser")
    /\ Become(c, IF user[t.u] = None THEN IdleTask
                 ELSE [t EXCEPT !.pc = "allocate", !.rec = user[t.u]])
    /\ UNCHANGED <<redis, cacheVars, apiUp>>

-----------------------------------------------------------------------------
(* getUserFromCache, called for every proxied connection under userTunLock, *)
(* so at most one miss is being filled.                                     *)

CacheMiss(u) ==
    /\ apiUp /\ fill = None /\ userCache[u] = None /\ user[u] # None
    /\ fill' = [u |-> u, route |-> user[u].route]
    /\ UNCHANGED <<redis, task, userCache, apiUp>>

CacheSet ==
    /\ fill # None
    /\ userCache' = [userCache EXCEPT ![fill.u] = fill.route]
    /\ fill' = None
    /\ UNCHANGED <<redis, task, apiUp>>

-----------------------------------------------------------------------------
(* Faults.                                                                  *)

\* A redis (or cache) call fails without effect.
CallFails(p) ==
    /\ "error" \in Faults /\ InFlight(p)
    /\ Become(p, OnError(task[p]))
    /\ UNCHANGED <<redis, cacheVars, apiUp>>

RpcCrash ==
    /\ "rpcCrash" \in Faults
    /\ task' = [p \in Proc |-> IF p \in Handler THEN IdleTask ELSE task[p]]
    /\ UNCHANGED <<redis, cacheVars, apiUp>>

ApiCrash ==
    /\ "apiCrash" \in Faults /\ apiUp
    /\ apiUp' = FALSE
    /\ task' = [p \in Proc |-> IF p \in Conn THEN IdleTask ELSE task[p]]
    /\ userCache' = [u \in User |-> None]
    /\ fill' = None
    /\ UNCHANGED redis

\* While the api service is down nothing renews the expiry of the two keys,
\* which is set of one after the other.
OnlineExpires ==
    /\ ~apiUp
    /\ online' = {}
    /\ UNCHANGED <<bindUser, nodeZset, nodeBind, nodeFree, user, userZset, task, cacheVars, apiUp>>

FreeExpires ==
    /\ ~apiUp
    /\ nodeFree' = {}
    /\ UNCHANGED <<bindUser, nodeZset, online, nodeBind, user, userZset, task, cacheVars, apiUp>>

\* When it starts, NewTunnelManager deletes them, if it cannot, it panics: first
\* node:online, which is like an expiry, as nobody else adds to it, then node:free.
NewTunnelManager ==
    /\ ~apiUp /\ online = {}
    /\ apiUp' = TRUE
    /\ nodeFree' = {}
    /\ UNCHANGED <<bindUser, nodeZset, online, nodeBind, user, userZset, task, cacheVars>>

-----------------------------------------------------------------------------
Request(p) ==
    \E u \in User :
        \/ "create" \in Requests /\ CreateUser(p, u, None)
        \/ "createOn" \in Requests /\ \E n \in Node : CreateUser(p, u, n)
        \/ "delete" \in Requests /\ DeleteUser(p, u)
        \/ "modify" \in Requests /\ \E n \in Node : ModifyUser(p, u, n)
        \/ "switch" \in Requests /\ SwitchUserRouteNode(p, u, None)
        \/ "switchOn" \in Requests /\ \E n \in Node : SwitchUserRouteNode(p, u, n)
        \/ "save" \in Requests /\ \E off \in BOOLEAN : StartOrStopUser(p, u, off)

Shared(p) ==
    \/ AllocateFreeNode(p) \/ AddFreeNode(p)
    \/ SwitchFrom(p) \/ SwitchTo(p) \/ SwitchNodeByUser(p)
    \/ SaveUser(p) \/ DeleteUserCache(p)
    \/ CallFails(p)

HandlerStep(p) ==
    \/ Request(p) \/ Shared(p)
    \/ CheckRoute(p) \/ GetUserToModify(p) \/ CheckNode(p) \/ CheckOnline(p)
    \/ BindRead(p) \/ BindOnline(p) \/ BindNodeWithNewUser(p)
    \/ DelUser(p) \/ ZremUser(p) \/ UnbindRead(p) \/ UnbindNode(p)

ConnStep(c) ==
    \/ \E n \in Node : ServeWS(c, n) \/ ("browser" \in Requests /\ ServeBrowser(c, n))
    \/ "traffic" \in Requests /\ \E u \in User : TrafficTimer(c, u)
    \/ Shared(c)
    \/ SetNodeAndZadd(c) \/ SetNodeOnline(c) \/ AddFreeOnAccept(c) \/ ServeReturns(c)
    \/ SetNodeOffline(c) \/ OfflineGetNode(c) \/ RemoveFreeNode(c) \/ SwithNodeForUser(c)

Next ==
    \/ \E p \in Handler : HandlerStep(p)
    \/ \E c \in Conn : ConnStep(c)
    \/ \E u \in Dialers : CacheMiss(u)
    \/ CacheSet
    \/ RpcCrash \/ ApiCrash \/ OnlineExpires \/ FreeExpires \/ NewTunnelManager

Spec == Init /\ [][Next]_vars

-----------------------------------------------------------------------------
(* Properties.                                                              *)

TypeOK ==
    /\ bindUser \in [Node -> UserOrNone]
    /\ nodeZset \subseteq Node /\ online \subseteq Node
    /\ nodeBind \subseteq Node /\ nodeFree \subseteq Node
    /\ user \in [User -> UserRec \cup {None}]
    /\ userZset \subseteq User
    /\ task \in [Proc -> Task]
    /\ userCache \in [User -> NodeOrNone]
    /\ fill \in [u : User, route : Node] \cup {None}
    /\ apiUp \in BOOLEAN

\* The node a stored user is routed to is always a registered one, and so is
\* every node that can be allocated: whatever interleaves or fails.
RouteRegistered ==
    /\ \A u \in User : user[u] # None => user[u].route \in nodeZset
    /\ nodeFree \subseteq nodeZset

\* The two of them, as one invariant.
RoutesInv == TypeOK /\ RouteRegistered

\* The hash field bind_user and the zset node:bind say the same of a node
\* until a websocket registers the node from a record that was read before
\* somebody bound or unbound it.
BindMirrorsHash ==
    [][\A n \in Node :
          ((n \in nodeBind) <=> (bindUser[n] # None)) =>
             \/ (n \in nodeBind') <=> (bindUser'[n] # None)
             \/ \E c \in Conn : At(c, "register") /\ task[c].n = n /\ task[c].u # bindUser[n]
      ]_vars

(* The inductive invariant behind RouteRegistered: what a goroutine at each  *)
(* step holds.                                                              *)

ToPCs == BindPCs \cup SwitchPCs \cup
         {"checkRoute", "checkNode", "checkOnline", "getUser", "addFree"}
UserPCs == BindPCs \cup SwitchPCs \cup
           {"checkRoute", "checkNode", "checkOnline", "getUser", "allocate", "delUser",
            "zremUser", "unbindRead", "unbindTx", "saveUser", "dropCache", "offUser"}
RecPCs == SwitchPCs \cup {"checkNode", "checkOnline", "delUser", "zremUser",
                          "unbindRead", "unbindTx", "saveUser"}
ConnPCs == RegisterPCs \cup {"serve", "offline", "offGet", "offUser", "removeFree"}

Holds(t) ==
    /\ t.pc \in ToPCs => t.to \in Node
    /\ t.pc \in UserPCs => t.u \in User
    /\ t.pc \in RecPCs => t.rec \in UserRec
    /\ t.pc = "allocate" /\ t.op # "create" => t.rec \in UserRec
    /\ t.pc \in ConnPCs => t.n \in Node

\* Every node a goroutine carries past its check is registered.
Registered(t, zset) ==
    /\ t.to # None /\ t.pc \notin {"checkRoute", "checkNode"} => t.to \in zset
    /\ t.rec # None => t.rec.route \in zset
    /\ t.pc \in ConnPCs \ {"register"} => t.n \in zset

TasksOK == \A p \in Proc : Holds(task[p]) /\ Registered(task[p], nodeZset)

IInv == TypeOK /\ RouteRegistered /\ TasksOK
=============================================================================
