--------------------------- MODULE RouteController ---------------------------
(***************************************************************************)
(* The route controller (pkg/controller/route): one worker reconciles the  *)
(* nodes of its queue, a periodic pass (reconcileForCluster) reconciles    *)
(* every node of a list it took at its start.  Both write the VPC's route  *)
(* tables and the NetworkUnavailable condition of the nodes, and share     *)
(* nodeCache.                                                              *)
(*                                                                         *)
(* A step ends where the other process can get in: one action per call to  *)
(* the API server or to the VPC.  createRouteForInstance, with its retries,*)
(* and deleteRouteForInstance hold routeLock and are one step each.        *)
(*                                                                         *)
(* Simplifications:                                                        *)
(*  - a CIDR is the set of its addresses, a route is <<cidr, provider id>>;*)
(*  - `node' is the informer's view, and a patch shows in it at once;      *)
(*  - a node with a deletion timestamp is as one whose Ready is unknown;   *)
(*  - route entries that ListRoute skips (ECMP, other next hops) are left  *)
(*    out, and configRoutes is on;                                         *)
(*  - what the users, IPAM and failing calls do is counted by `left'.      *)
(***************************************************************************)
EXTENDS Integers, FiniteSets

CONSTANTS Names,           \* node names
          Provs,           \* provider ids
          NodeCidrs,       \* pod CIDRs that IPAM gives to nodes
          UserCidrs,       \* destinations of routes that users make by hand
          ClusterCidr,     \* ControllerCFG.ClusterCIDR
          Tables,          \* CloudCFG.Global.RouteTableIDS, or the VPC's one table
          MaxDisturbances, \* bound on edits, restarts and failing calls
          NoNode, NoCidr, NoProv, NoRoute

Cidrs == NodeCidrs \cup UserCidrs
Routes == Cidrs \X Provs

\* Pod CIDRs are disjoint parts of the cluster CIDR.
ASSUME CidrAssumption ==
    /\ \A c \in Cidrs : c # {}
    /\ \A c \in NodeCidrs : c \subseteq ClusterCidr
    /\ \A c, d \in NodeCidrs : c # d => c \cap d = {}
    /\ NoCidr \notin NodeCidrs /\ NoProv \notin Provs /\ NoRoute \notin Routes

ASSUME BoundAssumption == MaxDisturbances \in Nat

\* There is a table: getRouteTables fails when it finds none.
ASSUME NamesAssumption == Names # {} /\ Tables # {}

Nodes == [prov : Provs \cup {NoProv}, cidr : NodeCidrs \cup {NoCidr},
          state : {"ready", "unknown", "excluded"},
          cond : {"unset", "created", "failed"}]

ASSUME NodeAssumption == NoNode \notin Nodes

Procs == {"worker", "sync"}

VARIABLES
    node,       \* the nodes of the cluster
    routes,     \* the custom route entries of every table
    nodeCache,  \* the route to delete when a node is gone
    queue,      \* names in the worker's queue
    pc,         \* next call of each process
    tgt,        \* what each process works on: name, node as read, table, route
    tables,     \* tables each process has still to do
    ok,         \* the worker has seen no error so far
    snap,       \* the pass: nodes listed, routes listed, conflicts and nodes to do
    left        \* disturbances that may still happen

vars == <<node, routes, nodeCache, queue, pc, tgt, tables, ok, snap, left>>
world == <<node, routes, nodeCache, queue>>

Targets == [name : Names, nd : Nodes \cup {NoNode}, table : Tables,
            route : Routes \cup {NoRoute}]
Snaps == [nodes : [Names -> Nodes \cup {NoNode}], routes : SUBSET Routes,
          conflicts : SUBSET Routes, todo : SUBSET Names]

\* Every variable holds a value of its type, and both processes look for or add a
\* route only for a node that had a pod CIDR and a provider id when it was read.
\* (One entry per destination is the VPC's own doing: it refuses a second.)
TypeOK ==
    /\ node \in [Names -> Nodes \cup {NoNode}]
    /\ routes \in [Tables -> SUBSET Routes]
    /\ \A t \in Tables : \A r, s \in routes[t] : r[1] = s[1] => r = s
    /\ nodeCache \in [Names -> Routes \cup {NoRoute}]
    /\ queue \subseteq Names
    /\ pc \in [Procs -> {"idle", "find", "create", "cond", "delete", "list", "conflicts"}]
    /\ tgt \in [Procs -> Targets]
    /\ tables \in [Procs -> SUBSET Tables]
    /\ ok \in BOOLEAN
    /\ snap \in Snaps
    /\ left \in 0..MaxDisturbances
    /\ \A p \in Procs : pc[p] \in {"find", "create"} =>
          tgt[p].nd # NoNode /\ tgt[p].nd.cidr # NoCidr /\ tgt[p].nd.prov # NoProv

-----------------------------------------------------------------------------
(* Helpers of the controller.                                              *)

NeedSyncRoute(nd) == nd.state = "ready"

RouteOf(nd) == <<nd.cidr, nd.prov>>

HasRoute(nd) == nd # NoNode /\ nd.cidr # NoCidr

\* Mutant: the two networks are swapped.
ContainedInRoute(outside, inside) ==
    [equal |-> outside \subseteq inside,
     real  |-> outside \subseteq inside /\ inside # outside]

\* containsRoute: whether the network `outside' contains the destination, and
\* whether it contains more than that.
ContainsRoute(outside, inside) ==
    [equal |-> inside \subseteq outside,
     real  |-> inside \subseteq outside /\ inside # outside]

\* Mutant: an entry of the same destination with another next hop stays.
ConflictInsideOnly(r, nodes) ==
    \E n \in Names : HasRoute(nodes[n]) /\ ContainsRoute(nodes[n].cidr, r[1]).real

\* conflictWithNodes: the entry lies strictly inside a node's CIDR, or is a
\* node's CIDR and leads to another instance.
ConflictWithNodes(r, nodes) ==
    \E n \in Names :
        /\ HasRoute(nodes[n])
        /\ LET c == ContainsRoute(nodes[n].cidr, r[1])
           IN  c.real \/ (c.equal /\ r[2] # nodes[n].prov)

\* Mutant: nodes without provider id are listed.
NodeListAll ==
    [n \in Names |-> IF node[n] = NoNode THEN NoNode
                     ELSE IF node[n].state = "excluded" THEN NoNode ELSE node[n]]

\* NodeList leaves out nodes with the exclude label or without provider id: the
\* pass does not look at the provider id again.
NodeList ==
    [n \in Names |-> IF node[n] = NoNode THEN NoNode
                     ELSE IF node[n].state = "excluded" \/ node[n].prov = NoProv
                     THEN NoNode ELSE node[n]]

\* CreateRoute fails with InvalidCIDRBlock.Duplicate on another entry.
Duplicate(t, r) == \E s \in routes[t] : s[1] = r[1] /\ s # r

SetIfAbsent(n, r) ==
    nodeCache' = IF nodeCache[n] = NoRoute THEN [nodeCache EXCEPT ![n] = r] ELSE nodeCache

-----------------------------------------------------------------------------
(* The users, IPAM and the cloud.                                          *)

Disturb == left > 0 /\ left' = left - 1
Steady == UNCHANGED left

procs == <<pc, tgt, tables, ok, snap>>

Live(n) == node[n] # NoNode
FreeCidrs == {c \in NodeCidrs : \A m \in Names : Live(m) => node[m].cidr # c} \cup {NoCidr}
FreeProvs == {p \in Provs : \A m \in Names : Live(m) => node[m].prov # p} \cup {NoProv}

\* A node registers; IPAM and the cloud-node controller may set its CIDR and
\* provider id later.
AddNode(n) ==
    /\ Disturb
    /\ ~Live(n)
    /\ \E p \in FreeProvs, c \in FreeCidrs :
         node' = [node EXCEPT ![n] = [prov |-> p, cidr |-> c, state |-> "ready", cond |-> "unset"]]
    /\ queue' = queue \cup {n}
    /\ UNCHANGED <<routes, nodeCache, procs>>

\* predicateForNodeEvent.Update: only a changed pod CIDR (or UID) is queued.
PredicateUpdate(old, new) == old.cidr # new.cidr

\* The CIDR or provider id of a node is set, or its label or readiness changes.
ChangeNode(n) ==
    /\ Disturb
    /\ Live(n)
    /\ \/ \E p \in FreeProvs \ {NoProv} :
             node[n].prov = NoProv /\ node' = [node EXCEPT ![n].prov = p]
       \/ \E c \in FreeCidrs \ {NoCidr} :
             node[n].cidr = NoCidr /\ node' = [node EXCEPT ![n].cidr = c]
       \/ \E s \in {"ready", "unknown", "excluded"} \ {node[n].state} :
             node' = [node EXCEPT ![n].state = s]
    /\ queue' = IF PredicateUpdate(node[n], node'[n]) THEN queue \cup {n} ELSE queue
    /\ UNCHANGED <<routes, nodeCache, procs>>

RemoveNode(n) ==
    /\ Disturb
    /\ Live(n)
    /\ node' = [node EXCEPT ![n] = NoNode]
    /\ queue' = queue \cup {n}
    /\ UNCHANGED <<routes, nodeCache, procs>>

\* A user makes or removes an entry by hand.
UserRoute(t) ==
    /\ Disturb
    /\ \/ \E r \in UserCidrs \X Provs :
            /\ \A s \in routes[t] : s[1] # r[1]
            /\ routes' = [routes EXCEPT ![t] = @ \cup {r}]
       \/ \E r \in routes[t] : routes' = [routes EXCEPT ![t] = @ \ {r}]
    /\ UNCHANGED <<node, nodeCache, queue, procs>>

\* What a process that has nothing to do holds.
NoTarget == [name |-> CHOOSE n \in Names : TRUE, nd |-> NoNode,
             table |-> CHOOSE t \in Tables : TRUE, route |-> NoRoute]
NoSnap == [nodes |-> [n \in Names |-> NoNode], routes |-> {}, conflicts |-> {}, todo |-> {}]

\* The process dies and another replica takes over: nodeCache and the queue are
\* lost, every node of the cluster arrives as an add event.
Restart ==
    /\ Disturb
    /\ nodeCache' = [n \in Names |-> NoRoute]
    /\ queue' = {n \in Names : Live(n)}
    /\ pc' = [p \in Procs |-> "idle"]
    /\ tgt' = [p \in Procs |-> NoTarget]
    /\ tables' = [p \in Procs |-> {}]
    /\ ok' = TRUE
    /\ snap' = NoSnap
    /\ UNCHANGED <<node, routes>>

Environment ==
    \/ \E n \in Names : AddNode(n) \/ ChangeNode(n) \/ RemoveNode(n)
    \/ \E t \in Tables : UserRoute(t)
    \/ Restart

-----------------------------------------------------------------------------
(* Where a process goes next.                                              *)

\* The worker: to step s with the tables ts to do.
WorkerGoto(s, target, ts, good) ==
    /\ pc' = [pc EXCEPT !["worker"] = s]
    /\ tgt' = [tgt EXCEPT !["worker"] = target]
    /\ tables' = [tables EXCEPT !["worker"] = ts]
    /\ ok' = good
    /\ UNCHANGED snap

WorkerDone == WorkerGoto("idle", NoTarget, {}, TRUE)

\* The next table of the worker's loop, or step s when there is none.
WorkerNext(next, s, ts, good) ==
    IF ts = {} THEN WorkerGoto(s, tgt["worker"], {}, good)
    ELSE \E t \in ts :
           WorkerGoto(next, [tgt["worker"] EXCEPT !.table = t], ts \ {t}, good)

\* The pass: to step s with target, tables and snapshot.
SyncGoto(s, target, ts, sn) ==
    /\ pc' = [pc EXCEPT !["sync"] = s]
    /\ tgt' = [tgt EXCEPT !["sync"] = target]
    /\ tables' = [tables EXCEPT !["sync"] = ts]
    /\ snap' = sn
    /\ UNCHANGED ok

\* The next node of the table's second loop, else the next table, else the end.
SyncNext(target, ts, sn) ==
    IF sn.todo # {}
    THEN \E n \in sn.todo :
           SyncGoto("find", [target EXCEPT !.name = n, !.nd = sn.nodes[n]], ts,
                    [sn EXCEPT !.todo = @ \ {n}])
    ELSE IF ts # {}
    THEN \E t \in ts : SyncGoto("list", [NoTarget EXCEPT !.table = t], ts \ {t},
                                [NoSnap EXCEPT !.nodes = sn.nodes])
    ELSE SyncGoto("idle", NoTarget, {}, NoSnap)

-----------------------------------------------------------------------------
(* Reconcile, the worker.                                                  *)

\* Reconcile up to the loop over the tables; deletions take the route from
\* nodeCache, a node without CIDR only gets its condition set.
Reconcile(n) ==
    /\ pc["worker"] = "idle"
    /\ n \in queue
    /\ queue' = queue \ {n}
    /\ LET nd == node[n]
           target == [NoTarget EXCEPT !.name = n, !.nd = nd, !.route = nodeCache[n]]
       IN  IF nd = NoNode
           THEN IF nodeCache[n] = NoRoute THEN WorkerDone
                ELSE \E t \in Tables :
                       WorkerGoto("delete", [target EXCEPT !.table = t], Tables \ {t}, TRUE)
           ELSE IF ~NeedSyncRoute(nd) \/ nd.prov = NoProv THEN WorkerDone
           ELSE IF nd.cidr = NoCidr THEN WorkerGoto("cond", target, {}, FALSE)
           ELSE \E t \in Tables :
                  WorkerGoto("find", [target EXCEPT !.table = t], Tables \ {t}, TRUE)
    /\ Steady
    /\ UNCHANGED <<node, routes, nodeCache>>

\* getRouteTables fails: a deletion is queued again, anything else is left to
\* the periodic pass.
GetRouteTablesFails(n) ==
    /\ Disturb
    /\ pc["worker"] = "idle"
    /\ n \in queue
    /\ queue' = IF ~Live(n) /\ nodeCache[n] # NoRoute THEN queue ELSE queue \ {n}
    /\ UNCHANGED <<node, routes, nodeCache, procs>>

\* The end of one table of the deletion: after the last one the entry leaves
\* nodeCache, or the name is queued again if a table failed.
Deleted(good) ==
    LET n == tgt["worker"].name IN
    IF tables["worker"] # {}
    THEN /\ WorkerNext("delete", "idle", tables["worker"], good)
         /\ UNCHANGED <<nodeCache, queue>>
    ELSE /\ WorkerDone
         /\ nodeCache' = IF good THEN [nodeCache EXCEPT ![n] = NoRoute] ELSE nodeCache
         /\ queue' = IF good THEN queue ELSE queue \cup {n}

\* deleteRouteForInstance: an entry that is already gone is no error.
DeleteRoute(t, r) == routes' = [routes EXCEPT ![t] = @ \ {r}]

WorkerDelete ==
    /\ pc["worker"] = "delete"
    /\ DeleteRoute(tgt["worker"].table, tgt["worker"].route)
    /\ Deleted(ok)
    /\ Steady
    /\ UNCHANGED node

WorkerDeleteFails ==
    /\ Disturb
    /\ pc["worker"] = "delete"
    /\ DeleteRoute(tgt["worker"].table, tgt["worker"].route) \/ UNCHANGED routes
    /\ Deleted(FALSE)
    /\ UNCHANGED node

-----------------------------------------------------------------------------
(* addRouteForNode and updateNetworkingCondition, called by both.          *)

\* The end of addRouteForNode: the worker goes through its tables and then sets
\* the condition; the pass sets it at once, and skips it after an error.
Added(p, good) ==
    IF p = "worker"
    THEN WorkerNext("find", "cond", tables[p], ok /\ good)
    ELSE IF good THEN SyncGoto("cond", tgt[p], tables[p], snap)
    ELSE SyncNext(tgt[p], tables[p], snap)

\* findRoute: in the list the pass has taken unless that is empty, else by a
\* query.
Found(p) ==
    LET list == IF p = "sync" /\ snap.routes # {} THEN snap.routes
                ELSE routes[tgt[p].table]
    IN  RouteOf(tgt[p].nd) \in list

FindRoute(p) ==
    /\ pc[p] = "find"
    /\ IF Found(p)
       THEN SetIfAbsent(tgt[p].name, RouteOf(tgt[p].nd)) /\ Added(p, TRUE)
       ELSE /\ pc' = [pc EXCEPT ![p] = "create"]
            /\ UNCHANGED <<nodeCache, tgt, tables, ok, snap>>
    /\ Steady
    /\ UNCHANGED <<node, routes, queue>>

\* The query fails: addRouteForNode returns no error.
FindRouteFails(p) ==
    /\ Disturb
    /\ pc[p] = "find"
    /\ p = "sync" => snap.routes = {}
    /\ Added(p, TRUE)
    /\ UNCHANGED world

\* createRouteForInstance: an equal entry counts as created, an entry with
\* another next hop is an error.
CreateRoute(p) ==
    /\ pc[p] = "create"
    /\ LET t == tgt[p].table
           r == RouteOf(tgt[p].nd)
       IN  IF Duplicate(t, r) THEN Added(p, FALSE) /\ UNCHANGED <<routes, nodeCache>>
           ELSE /\ routes' = [routes EXCEPT ![t] = @ \cup {r}]
                /\ SetIfAbsent(tgt[p].name, r)
                /\ Added(p, TRUE)
    /\ Steady
    /\ UNCHANGED <<node, queue>>

\* Every attempt fails; the entry may have been made all the same.
CreateRouteFails(p) ==
    /\ Disturb
    /\ pc[p] = "create"
    /\ LET t == tgt[p].table
           r == RouteOf(tgt[p].nd)
       IN  \/ ~Duplicate(t, r) /\ routes' = [routes EXCEPT ![t] = @ \cup {r}]
           \/ UNCHANGED routes
    /\ Added(p, FALSE)
    /\ UNCHANGED <<node, nodeCache, queue>>

Wanted(p) == IF p = "sync" \/ ok THEN "created" ELSE "failed"

CondDone(p) == IF p = "worker" THEN WorkerDone ELSE SyncNext(tgt[p], tables[p], snap)

\* updateNetworkingCondition: nothing to do if the node as it was read has the
\* condition; otherwise PatchM reads the node again (one of the same name will
\* do, none is an error) and patches it.
UpdateCondition(p) ==
    /\ pc[p] = "cond"
    /\ LET n == tgt[p].name IN
       node' = IF tgt[p].nd.cond = Wanted(p) \/ ~Live(n) THEN node
               ELSE [node EXCEPT ![n].cond = Wanted(p)]
    /\ CondDone(p)
    /\ Steady
    /\ UNCHANGED <<routes, nodeCache, queue>>

UpdateConditionFails(p) ==
    /\ Disturb
    /\ pc[p] = "cond"
    /\ CondDone(p)
    /\ UNCHANGED world

-----------------------------------------------------------------------------
(* reconcileForCluster, the periodic pass.  A failing list of nodes or     *)
(* tables ends the pass before it starts and is the absence of this step.  *)

SyncStart ==
    /\ pc["sync"] = "idle"
    /\ SyncNext(NoTarget, Tables, [NoSnap EXCEPT !.nodes = NodeList])
    /\ Steady
    /\ UNCHANGED world

\* syncTableRoutes: list the table, find the conflicting entries and the nodes
\* to look at.
ListRoute ==
    /\ pc["sync"] = "list"
    /\ LET list == routes[tgt["sync"].table]
           sn == [snap EXCEPT
                    !.routes = list,
                    !.conflicts = {r \in list :
                                     /\ ContainsRoute(ClusterCidr, r[1]).equal
                                     /\ ConflictWithNodes(r, snap.nodes)},
                    !.todo = {n \in Names : HasRoute(snap.nodes[n]) /\ NeedSyncRoute(snap.nodes[n])}]
       IN  IF sn.conflicts # {} THEN SyncGoto("conflicts", tgt["sync"], tables["sync"], sn)
           ELSE SyncNext(tgt["sync"], tables["sync"], sn)
    /\ Steady
    /\ UNCHANGED world

ListRouteFails ==
    /\ Disturb
    /\ pc["sync"] = "list"
    /\ SyncNext(tgt["sync"], tables["sync"], snap)
    /\ UNCHANGED world

ConflictDone(r) ==
    LET sn == [snap EXCEPT !.conflicts = @ \ {r}]
    IN  IF sn.conflicts # {} THEN SyncGoto("conflicts", tgt["sync"], tables["sync"], sn)
        ELSE SyncNext(tgt["sync"], tables["sync"], sn)

DeleteConflict(r) ==
    /\ pc["sync"] = "conflicts"
    /\ r \in snap.conflicts
    /\ DeleteRoute(tgt["sync"].table, r)
    /\ ConflictDone(r)
    /\ Steady
    /\ UNCHANGED <<node, nodeCache, queue>>

DeleteConflictFails(r) ==
    /\ Disturb
    /\ pc["sync"] = "conflicts"
    /\ r \in snap.conflicts
    /\ DeleteRoute(tgt["sync"].table, r) \/ UNCHANGED routes
    /\ ConflictDone(r)
    /\ UNCHANGED <<node, nodeCache, queue>>

-----------------------------------------------------------------------------
Init ==
    /\ node = [n \in Names |-> NoNode]
    /\ routes = [t \in Tables |-> {}]
    /\ nodeCache = [n \in Names |-> NoRoute]
    /\ queue = {}
    /\ pc = [p \in Procs |-> "idle"]
    /\ tgt = [p \in Procs |-> NoTarget]
    /\ tables = [p \in Procs |-> {}]
    /\ ok = TRUE
    /\ snap = NoSnap
    /\ left = MaxDisturbances

AddRouteForNode(p) == FindRoute(p) \/ CreateRoute(p) \/ UpdateCondition(p)

Worker == (\E n \in Names : Reconcile(n)) \/ WorkerDelete \/ AddRouteForNode("worker")

Sync ==
    \/ SyncStart \/ ListRoute \/ AddRouteForNode("sync")
    \/ \E r \in Routes : DeleteConflict(r)

Fault ==
    \/ \E n \in Names : GetRouteTablesFails(n)
    \/ WorkerDeleteFails \/ ListRouteFails
    \/ \E p \in Procs : FindRouteFails(p) \/ CreateRouteFails(p) \/ UpdateConditionFails(p)
    \/ \E r \in Routes : DeleteConflictFails(r)

Next == Environment \/ Worker \/ Sync \/ Fault

Spec == Init /\ [][Next]_vars

\* The pass runs again and again (wait.Until with reconcilePeriod) and the
\* worker goes on as long as its queue is not empty.
FairSpec == Spec /\ WF_vars(Worker) /\ WF_vars(Sync)

-----------------------------------------------------------------------------
\* The entries of table t that cover address a, and the one that is used: no
\* other covering entry is inside it.
Covering(t, a) == {r \in routes[t] : a \in r[1]}
Used(t, a) == {r \in Covering(t, a) : \A s \in Covering(t, a) : r[1] \subseteq s[1]}

\* The pods of node n can be reached and the node says so.
Reachable(n) ==
    /\ node[n].cond = "created"
    /\ \A t \in Tables : \A a \in node[n].cidr : Used(t, a) = {RouteOf(node[n])}

\* Once the users and the cloud leave the controller alone, every node that
\* takes part (ready, with provider id and pod CIDR) is reached through every
\* table at every address of its pod CIDR and has NetworkUnavailable=false: no
\* event dropped by the predicate, no error the worker does not retry, no
\* leaked or hand-made entry inside its CIDR and no stale pass hinders that for
\* ever (reconcileForCluster).
RoutesConverge ==
    <>[](\A n \in Names :
            Live(n) /\ NeedSyncRoute(node[n]) /\ HasRoute(node[n]) /\ node[n].prov # NoProv
                => Reachable(n))

\* The controller removes no entry whose destination is not inside a pod CIDR:
\* a user's wider or unrelated route stays until the user removes it
\* (conflictWithNodes and nodeCache, however stale).
OtherRoutesStay ==
    [][\A t \in Tables : \A r \in routes[t] :
         r \in routes'[t] \/ UserRoute(t) \/ \E c \in NodeCidrs : r[1] \subseteq c]_vars
=============================================================================
