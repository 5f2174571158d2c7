-------------------------- MODULE BindingConflicts --------------------------
(***************************************************************************)
(* NodeBinding with a history of the conflicts that occurred: two          *)
(* goroutines in flight of which one uses what the other is changing.  The *)
(* code prevents none of them.  The invariants say which kinds of conflict *)
(* each promise of the tables depends on: as long as none of those kinds   *)
(* has occurred, it holds, whatever else interleaves.                      *)
(***************************************************************************)
EXTENDS NodeBinding

VARIABLES
    raced,      \* the kinds of conflict that ever occurred
    browsed,    \* nodes that came as browsers since the api service started
    stale       \* goroutines that hold an old copy of a user

history == <<raced, browsed, stale>>

-----------------------------------------------------------------------------
(* Conflicts between goroutines in flight, by kind.  None is prevented by   *)
(* the code; the properties below say which of them they depend on.         *)

\* Two operations on one user (for a websocket: once its offline handler has
\* read whom the node serves).
UserConflict ==
    \E p, q \in Proc :
        /\ p # q /\ InFlight(p) /\ InFlight(q)
        /\ task[p].pc \notin RegisterPCs /\ task[q].pc \notin RegisterPCs
        /\ task[p].u # None /\ task[p].u = task[q].u

\* A request names a node that another operation in flight has as its target.
TargetConflict ==
    \E p, q \in Proc :
        p # q /\ task[p].op \in NamedOps /\ task[p].to # None /\ task[p].to = task[q].to

\* A websocket registers a node from a record that is no longer true, or while
\* the node is the target of an operation.
RecordConflict ==
    \E c \in Conn :
        /\ task[c].pc \in RegisterPCs
        /\ \/ task[c].u # bindUser[task[c].n]
           \/ \E p \in Proc : task[p].to = task[c].n

\* Two websockets of one node, both past the handover.
TunnelConflict ==
    \E c, d \in Conn :
        /\ c # d /\ task[c].n # None /\ task[c].n = task[d].n
        /\ task[c].pc # "register" /\ task[d].pc # "register"

\* The route's Online flag, read earlier, is no longer true.
OnlineConflict ==
    \E p \in Proc :
        /\ task[p].pc \in {"unbindTx", "switchTo", "switchTx"}
        /\ task[p].on # (task[p].rec.route \in online)

\* A cache fill holds a copy of a user while an operation on the user runs.
CacheConflict ==
    fill # None /\ \E p \in Proc : InFlight(p) /\ task[p].u = fill.u

Kinds == {"user", "target", "record", "tunnel", "online", "cache", "reply"}
Conflicts ==
    {k \in Kinds :
        \/ k = "user" /\ UserConflict
        \/ k = "target" /\ TargetConflict
        \/ k = "record" /\ RecordConflict
        \/ k = "tunnel" /\ TunnelConflict
        \/ k = "online" /\ OnlineConflict
        \/ k = "cache" /\ CacheConflict}

\* The reply to a write is lost, and what follows is not what follows the reply.
LostReply(p) ==
    LET t == task[p] IN
    /\ "reply" \in Faults /\ redis' # redis /\ task'[p] = OnError(t)
    /\ \/ t.pc \in {"allocate", "delUser", "zremUser", "unbindTx", "switchTx", "register", "setOnline"}
       \/ t.pc = "bindTx" /\ t.on
       \/ t.pc = "saveUser" /\ t.op # "traffic"

\* The user a goroutine is about to create, and the one it holds a copy of.
Creates(t) == \/ t.pc \in BindPCs
              \/ t.pc = "allocate" /\ t.op = "create"
              \/ t.pc = "checkRoute" /\ t.op # "modify"
HasCopy(t) == \/ t.pc \in SwitchPCs \cup {"checkNode", "checkOnline", "delUser", "saveUser"}
              \/ t.pc = "allocate" /\ t.op # "create"

\* A step creates or deletes the user, or changes its off flag.
Changes(u) ==
    \/ (user[u] = None) # (user'[u] = None)
    \/ user[u] # None /\ user'[u] # None /\ user'[u].off # user[u].off

\* While it did so, the goroutine had read the user and was going to write it.
BecomesStale(p) == /\ Creates(task[p]) \/ HasCopy(task[p])
                   /\ \E u \in User : task[p].u = u /\ Changes(u)

Browser(n) == \E c \in Conn : task[c].op = "browser" /\ task[c].n = n

HInit == Init /\ raced = {} /\ browsed = {} /\ stale = {}
HNext ==
    /\ Next
    /\ raced' = raced \cup Conflicts' \cup {k \in {"reply"} : \E p \in Proc : LostReply(p)}
    /\ browsed' = {n \in Node : apiUp' /\ (n \in browsed \/ Browser(n)')}
    /\ stale' = {p \in Proc : InFlight(p)' /\ (p \in stale \/ BecomesStale(p))}
HSpec == HInit /\ [][HNext]_<<vars, history>>

-----------------------------------------------------------------------------
(* Properties.                                                              *)

\* A node serves one user: no two stored users are routed to the same node.
Exclusive ==
    raced \cap {"user", "target", "record", "reply"} = {} =>
        \A u, v \in User :
            u # v /\ user[u] # None /\ user[v] # None => user[u].route # user[v].route

\* The node a stored user is routed to is bound to that user.
RouteIsBound ==
    raced \cap {"user", "target", "record", "reply"} = {} =>
        \A u \in User : user[u] # None => bindUser[user[u].route] = u

\* A stored user is also in the list of users, wherever a deletion stops
\* half-way: nobody saves a copy of a user that was deleted after it was read.
StoredIsListed ==
    raced \cap {"user"} = {} => \A u \in User : user[u] # None => u \in userZset

\* Whenever nothing is in flight, a node that is online and unbound is free to
\* be allocated, and a free node is unbound and online - or was a browser: of
\* browsers that have gone the free ones stay free.  This survives restarts of
\* the api service, but not a call that failed half-way.
Quiet == \A p \in Proc : ~InFlight(p)

FreeIsUnboundOnline ==
    Quiet /\ apiUp /\ Faults \subseteq {"apiCrash"} /\ raced \subseteq {"cache"} =>
        /\ \A n \in online : bindUser[n] = None => n \in nodeFree
        /\ \A n \in nodeFree : bindUser[n] = None /\ n \in online \cup browsed

\* A cached route is the stored one, whenever no request is in flight.
CacheIsFresh ==
    Quiet /\ fill = None /\ Faults \subseteq {"apiCrash"} /\ raced \cap {"user", "cache"} = {} =>
        \A u \in User : userCache[u] # None =>
            user[u] # None /\ userCache[u] = user[u].route

\* A stop (or a start) is undone only by a goroutine that had read the user
\* before it and writes its copy after it, as the traffic timer and a switch may
\* do.  No operation that begins later undoes it: the writers of the other
\* fields put the flag back as it was.
StopIsKept ==
    [][\A u \in User :
          user[u] # None /\ user'[u] # None /\ user'[u].off # user[u].off =>
             \E p \in Proc : /\ task[p].u = u /\ task'[p] # task[p]
                             /\ p \in stale \/ (At(p, "saveUser") /\ task[p].op = "save")
      ]_<<vars, history>>

(* The inductive invariants behind the properties: what they say and what   *)
(* each goroutine holds, as long as nothing they depend on has occurred.    *)

Calm(kinds) == raced \cap kinds = {}
BindKinds == {"user", "target", "record", "reply"}

\* A websocket that is not at its offline handler holds no user; what the api
\* service runs, and that it runs nothing when it is down.
ConnsHeld ==
    /\ \A p \in Proc : task[p].pc \in {"connFree", "serve", "offline", "offGet"} =>
           task[p].u = None
    /\ \A c \in Conn : task[c].op \in {"none", "conn", "browser", "traffic"}
    /\ ~apiUp => \A c \in Conn : task[c].pc = "idle"

\* The user a goroutine is about to create does not exist, and the off flag in
\* the copy it holds is what is stored, unless it was asked to change it.  If it
\* is alone with the user, so is the route, and the user it deleted stays deleted.
DeletedPCs == {"zremUser", "unbindRead", "unbindTx"}

UserClaim(t, alone) ==
    /\ Creates(t) => user[t.u] = None
    /\ HasCopy(t) => /\ user[t.u] # None
                     /\ t.op # "save" \/ t.pc # "saveUser" => user[t.u].off = t.rec.off
                     /\ alone => t.u \in userZset /\ user[t.u].route = t.rec.route
    /\ alone /\ t.pc \in DeletedPCs => user[t.u] = None

UsersHeld ==
    /\ \A u \in User : user[u] # None => u \in userZset
    /\ \A p \in Proc : UserClaim(task[p], TRUE)

\* The former holds, whatever overlaps, of a goroutine whose copy is not old.
FlagHeld == \A p \in Proc \ stale : UserClaim(task[p], FALSE)

\* The target a goroutine holds is bound to nobody, no other goroutine holds
\* it and, if it was allocated, it is not free to be allocated again; the node
\* of a user it deleted is bound to that user yet.
HeldPCs == BindPCs \cup SwitchPCs \cup {"checkOnline", "getUser", "addFree"}

BindClaim(t) ==
    /\ t.pc \in HeldPCs => /\ bindUser[t.to] = None
                           /\ t.op \notin NamedOps => t.to \notin nodeFree
    /\ t.pc \in {"checkRoute", "checkNode", "checkOnline", "getUser"} => t.op \in NamedOps
    /\ t.pc = "allocate" => t.op \notin NamedOps
    /\ t.pc = "bindOnline" => ~t.bound
    /\ t.pc \in DeletedPCs => bindUser[t.rec.route] = t.u

Distinct ==
    \A p, q \in Proc :
        p # q /\ task[p].pc \in HeldPCs /\ task[q].pc \in HeldPCs => task[p].to # task[q].to

NodesHeld ==
    /\ \A u \in User : user[u] # None => bindUser[user[u].route] = u
    /\ \A n \in nodeFree : bindUser[n] = None
    /\ \A p \in Proc : BindClaim(task[p])
    /\ Distinct

\* A node is online while its websocket is served; a node that is free and not
\* online, or online and bound to nobody but not free, is on its way: with its
\* websocket, or with the goroutine that allocated it - or it was a browser.
ServedPCs == {"connFree", "serve", "offline"}
LeavingPCs == {"offGet", "removeFree"}
ConnAt(n, pcs) == \E c \in Conn : task[c].n = n /\ task[c].pc \in pcs
Allocated(n) ==
    \E p \in Proc : task[p].pc \in HeldPCs /\ task[p].op \notin NamedOps /\ task[p].to = n

BrowsersKnown == apiUp => \A n \in Node : Browser(n) => n \in browsed

FreeOnItsWay ==
    /\ \A p \in Proc : task[p].pc # "addFree"
    /\ \A c \in Conn : task[c].pc \in ServedPCs => task[c].n \in online
    /\ apiUp => /\ \A n \in online : ConnAt(n, ServedPCs)
                /\ \A n \in nodeFree \ online : ConnAt(n, LeavingPCs) \/ n \in browsed
                /\ \A n \in online \ nodeFree :
                      bindUser[n] = None => Allocated(n) \/ ConnAt(n, {"connFree"})

\* A cached route that is not the stored one will be dropped, and one that is
\* about to be cached is the stored one.
CacheOnItsWay ==
    /\ \A u \in User : userCache[u] # None =>
          \/ user[u] # None /\ userCache[u] = user[u].route
          \/ \E p \in Proc : task[p].u = u /\ task[p].pc \in DeletedPCs \cup {"dropCache"}
    /\ fill # None => user[fill.u] # None /\ user[fill.u].route = fill.route

OnlyApiCrashes == Faults \subseteq {"apiCrash"}
HInv ==
    /\ IInv /\ ConnsHeld /\ FlagHeld /\ BrowsersKnown
    /\ Conflicts \subseteq raced
    /\ Calm({"user"}) => UsersHeld
    /\ Calm(BindKinds) => NodesHeld
    /\ OnlyApiCrashes /\ raced \subseteq {"cache"} => FreeOnItsWay
    /\ OnlyApiCrashes /\ Calm({"user", "cache"}) => CacheOnItsWay
=============================================================================
