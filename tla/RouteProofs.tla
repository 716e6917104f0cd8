----------------------------- MODULE RouteProofs -----------------------------
(***************************************************************************)
(* Proofs about RouteController, for every set of nodes, provider ids,     *)
(* CIDRs and tables.  The invariant says, besides the types, that whatever *)
(* the two processes have put aside for deletion lies inside a pod CIDR:   *)
(* nodeCache holds routes of nodes only, the worker deletes what it took   *)
(* from there, and the conflicts of the pass are inside the CIDR of a node *)
(* of its list.                                                            *)
(***************************************************************************)
EXTENDS RouteController, TLAPS

NodeRoutes == NodeCidrs \X Provs
Inside(r) == \E c \in NodeCidrs : r[1] \subseteq c

\* A node for which a route can be made.
Routable(nd) == nd # NoNode /\ nd.cidr # NoCidr /\ nd.prov # NoProv

WorldInv ==
    /\ node \in [Names -> Nodes \cup {NoNode}]
    /\ routes \in [Tables -> SUBSET Routes]
    /\ \A t \in Tables : \A r, s \in routes[t] : r[1] = s[1] => r = s
    /\ nodeCache \in [Names -> NodeRoutes \cup {NoRoute}]
    /\ queue \subseteq Names
    /\ left \in 0..MaxDisturbances

Steps == {"idle", "find", "create", "cond", "delete", "list", "conflicts"}

\* What a process at step s may work on.
TargetOK(s, target) ==
    /\ target \in Targets
    /\ s \in {"find", "create"} => Routable(target.nd)
    /\ s = "delete" => target.route \in NodeRoutes

SnapOK(sn) ==
    /\ sn \in Snaps
    /\ \A n \in Names : sn.nodes[n] # NoNode => sn.nodes[n].prov # NoProv
    /\ \A n \in sn.todo : Routable(sn.nodes[n])
    /\ \A r \in sn.conflicts : Inside(r)

ProcInv ==
    /\ pc \in [Procs -> Steps]
    /\ tgt \in [Procs -> Targets]
    /\ tables \in [Procs -> SUBSET Tables]
    /\ ok \in BOOLEAN
    /\ \A p \in Procs : TargetOK(pc[p], tgt[p])
    /\ SnapOK(snap)

RouteInv == WorldInv /\ ProcInv

-----------------------------------------------------------------------------
\* The values of an idle process are well typed.
LEMMA NothingType == NoTarget \in Targets /\ NoTarget.nd = NoNode /\ SnapOK(NoSnap)
  <1>1. (CHOOSE n \in Names : TRUE) \in Names /\ (CHOOSE t \in Tables : TRUE) \in Tables
    BY NamesAssumption
  <1>2. NoTarget \in Targets /\ NoTarget.nd = NoNode
    BY <1>1 DEF NoTarget, Targets
  <1>3. NoSnap \in Snaps
    BY DEF NoSnap, Snaps
  <1>4. SnapOK(NoSnap)
    BY <1>3 DEF SnapOK, NoSnap
  <1> QED
    BY <1>2, <1>4

\* A well typed step of the worker keeps the invariant of the processes.
LEMMA WorkerGotoInv ==
    ASSUME ProcInv, NEW s \in Steps, NEW target, TargetOK(s, target),
           NEW ts \in SUBSET Tables, NEW good \in BOOLEAN, WorkerGoto(s, target, ts, good)
    PROVE  ProcInv'
  <1>1. target \in Targets
    BY DEF TargetOK
  <1>2. \A p \in Procs : TargetOK(pc'[p], tgt'[p])
    BY DEF WorkerGoto, ProcInv, Procs
  <1>3. /\ pc' \in [Procs -> Steps] /\ tgt' \in [Procs -> Targets]
        /\ tables' \in [Procs -> SUBSET Tables] /\ ok' \in BOOLEAN /\ snap' = snap
    BY <1>1 DEF WorkerGoto, ProcInv
  <1> QED
    BY <1>2, <1>3 DEF ProcInv, TargetOK, SnapOK, Routable, Inside

\* The same for the pass.
LEMMA SyncGotoInv ==
    ASSUME ProcInv, NEW s \in Steps, NEW target, TargetOK(s, target),
           NEW ts \in SUBSET Tables, NEW sn, SnapOK(sn), SyncGoto(s, target, ts, sn)
    PROVE  ProcInv'
  <1>1. target \in Targets
    BY DEF TargetOK
  <1>2. \A p \in Procs : TargetOK(pc'[p], tgt'[p])
    BY DEF SyncGoto, ProcInv, Procs
  <1>3. /\ pc' \in [Procs -> Steps] /\ tgt' \in [Procs -> Targets]
        /\ tables' \in [Procs -> SUBSET Tables] /\ ok' \in BOOLEAN /\ snap' = sn
    BY <1>1 DEF SyncGoto, ProcInv
  <1> QED
    BY <1>2, <1>3 DEF ProcInv, TargetOK, SnapOK, Routable, Inside

LEMMA WorkerDoneInv ==
    ASSUME ProcInv, WorkerDone
    PROVE  ProcInv'
  BY NothingType, WorkerGotoInv DEF WorkerDone, TargetOK, Steps

\* The loop over the tables.
LEMMA WorkerNextInv ==
    ASSUME ProcInv, NEW next \in {"find", "delete"}, NEW s \in {"cond", "idle"},
           TargetOK(next, tgt["worker"]),
           NEW good \in BOOLEAN, WorkerNext(next, s, tables["worker"], good)
    PROVE  ProcInv'
  <1> DEFINE ts == tables["worker"]
  <1>1. ts \in SUBSET Tables /\ tgt["worker"] \in Targets
    BY DEF ProcInv, Procs
  <1>2. CASE ts = {}
    <2>1. TargetOK(s, tgt["worker"])
      BY <1>1 DEF TargetOK
    <2> QED
      BY <1>1, <1>2, <2>1, WorkerGotoInv DEF WorkerNext, Steps
  <1>3. CASE ts # {}
    <2>1. PICK t \in ts :
            WorkerGoto(next, [tgt["worker"] EXCEPT !.table = t], ts \ {t}, good)
      BY <1>3 DEF WorkerNext
    <2>2. TargetOK(next, [tgt["worker"] EXCEPT !.table = t])
      BY <1>1, <2>1 DEF TargetOK, Targets
    <2> QED
      BY <1>1, <2>1, <2>2, WorkerGotoInv DEF Steps
  <1> QED
    BY <1>2, <1>3

\* The loops over nodes and tables of the pass.
LEMMA SyncNextInv ==
    ASSUME ProcInv, NEW target \in Targets, NEW ts \in SUBSET Tables,
           NEW sn, SnapOK(sn), SyncNext(target, ts, sn)
    PROVE  ProcInv'
  <1>1. CASE sn.todo # {}
    <2>1. PICK n \in sn.todo :
            SyncGoto("find", [target EXCEPT !.name = n, !.nd = sn.nodes[n]], ts,
                     [sn EXCEPT !.todo = @ \ {n}])
      BY <1>1 DEF SyncNext
    <2>2. n \in Names /\ sn.nodes[n] \in Nodes \cup {NoNode} /\ Routable(sn.nodes[n])
      BY <2>1 DEF SnapOK, Snaps
    <2>3. TargetOK("find", [target EXCEPT !.name = n, !.nd = sn.nodes[n]])
      BY <2>2 DEF TargetOK, Targets
    <2>4. SnapOK([sn EXCEPT !.todo = @ \ {n}])
      BY DEF SnapOK, Snaps
    <2> QED
      BY <2>1, <2>3, <2>4, SyncGotoInv DEF Steps
  <1>2. CASE sn.todo = {} /\ ts # {}
    <2>1. PICK t \in ts : SyncGoto("list", [NoTarget EXCEPT !.table = t], ts \ {t},
                                   [NoSnap EXCEPT !.nodes = sn.nodes])
      BY <1>2 DEF SyncNext
    <2>2. TargetOK("list", [NoTarget EXCEPT !.table = t])
      BY <2>1, NothingType DEF TargetOK, Targets
    <2>3. SnapOK([NoSnap EXCEPT !.nodes = sn.nodes])
      BY NothingType DEF SnapOK, Snaps, NoSnap
    <2> QED
      BY <2>1, <2>2, <2>3, SyncGotoInv DEF Steps
  <1>3. CASE sn.todo = {} /\ ts = {}
    BY <1>3, NothingType, SyncGotoInv DEF SyncNext, TargetOK, Steps
  <1> QED
    BY <1>1, <1>2, <1>3

\* The end of addRouteForNode, from the steps "find" and "create".
LEMMA AddedInv ==
    ASSUME ProcInv, NEW p \in Procs, pc[p] \in {"find", "create"}, NEW good \in BOOLEAN,
           Added(p, good)
    PROVE  ProcInv'
  <1>1. TargetOK("find", tgt[p]) /\ tgt[p] \in Targets /\ TargetOK("cond", tgt[p])
    BY DEF ProcInv, TargetOK
  <1>2. tables[p] \in SUBSET Tables /\ ok \in BOOLEAN /\ SnapOK(snap)
    BY DEF ProcInv
  <1>3. CASE p = "worker"
    BY <1>1, <1>2, <1>3, WorkerNextInv DEF Added
  <1>4. CASE p = "sync" /\ good
    BY <1>1, <1>2, <1>4, SyncGotoInv DEF Added, Steps
  <1>5. CASE p = "sync" /\ ~good
    BY <1>1, <1>2, <1>5, SyncNextInv DEF Added
  <1> QED
    BY <1>3, <1>4, <1>5 DEF Procs

\* The end of updateNetworkingCondition.
LEMMA CondDoneInv ==
    ASSUME ProcInv, NEW p \in Procs, CondDone(p)
    PROVE  ProcInv'
  <1>1. tgt[p] \in Targets /\ tables[p] \in SUBSET Tables /\ SnapOK(snap)
    BY DEF ProcInv
  <1> QED
    BY <1>1, WorkerDoneInv, SyncNextInv DEF CondDone, Procs

\* A step that leaves the processes alone keeps their invariant.
LEMMA ProcsUnchanged ==
    ASSUME ProcInv, UNCHANGED procs
    PROVE  ProcInv'
  BY DEF procs, ProcInv, TargetOK, SnapOK, Routable, Inside

\* A disturbance, or its absence, keeps the bound.
LEMMA LeftType ==
    ASSUME left \in 0..MaxDisturbances, Disturb \/ Steady
    PROVE  left' \in 0..MaxDisturbances
  BY BoundAssumption DEF Disturb, Steady

\* A route of a node that takes part.
LEMMA RouteOfType ==
    ASSUME NEW nd \in Nodes \cup {NoNode}, Routable(nd)
    PROVE  RouteOf(nd) \in NodeRoutes /\ RouteOf(nd) \in Routes /\ RouteOf(nd)[1] \in NodeCidrs
  BY DEF Routable, Nodes, RouteOf, NodeRoutes, Routes, Cidrs

\* The worker and the pass put only routes of nodes into nodeCache.
LEMMA SetIfAbsentType ==
    ASSUME WorldInv, NEW n \in Names, NEW r \in NodeRoutes, SetIfAbsent(n, r)
    PROVE  nodeCache' \in [Names -> NodeRoutes \cup {NoRoute}]
  BY DEF WorldInv, SetIfAbsent

-----------------------------------------------------------------------------
LEMMA InitInv == Init => RouteInv
  <1> SUFFICES ASSUME Init PROVE RouteInv
    OBVIOUS
  <1>1. WorldInv
    BY BoundAssumption DEF Init, WorldInv
  <1>2. ProcInv
    BY NothingType DEF Init, ProcInv, TargetOK, Steps
  <1> QED
    BY <1>1, <1>2 DEF RouteInv

\* Users, IPAM and restarts.
LEMMA EnvironmentInv ==
    ASSUME RouteInv, Environment
    PROVE  RouteInv'
  <1>1. CASE \E n \in Names : AddNode(n)
    <2>1. PICK n \in Names : AddNode(n)
      BY <1>1
    <2>2. PICK p \in FreeProvs, c \in FreeCidrs :
            node' = [node EXCEPT ![n] = [prov |-> p, cidr |-> c, state |-> "ready", cond |-> "unset"]]
      BY <2>1 DEF AddNode
    <2>3. [prov |-> p, cidr |-> c, state |-> "ready", cond |-> "unset"] \in Nodes
      BY <2>2 DEF FreeProvs, FreeCidrs, Nodes
    <2>4. WorldInv'
      BY <2>1, <2>2, <2>3, LeftType DEF AddNode, RouteInv, WorldInv
    <2> QED
      BY <2>1, <2>4, ProcsUnchanged DEF AddNode, RouteInv
  <1>2. CASE \E n \in Names : ChangeNode(n)
    <2>1. PICK n \in Names : ChangeNode(n)
      BY <1>2
    <2>2. node[n] \in Nodes
      BY <2>1 DEF ChangeNode, Live, RouteInv, WorldInv
    <2>3. node' \in [Names -> Nodes \cup {NoNode}]
      <3>1. CASE \E p \in FreeProvs \ {NoProv} : node' = [node EXCEPT ![n].prov = p]
        BY <2>2, <3>1 DEF FreeProvs, Nodes, RouteInv, WorldInv
      <3>2. CASE \E c \in FreeCidrs \ {NoCidr} : node' = [node EXCEPT ![n].cidr = c]
        BY <2>2, <3>2 DEF FreeCidrs, Nodes, RouteInv, WorldInv
      <3>3. CASE \E s \in {"ready", "unknown", "excluded"} : node' = [node EXCEPT ![n].state = s]
        BY <2>2, <3>3 DEF Nodes, RouteInv, WorldInv
      <3> QED
        BY <2>1, <3>1, <3>2, <3>3 DEF ChangeNode
    <2>4. WorldInv'
      BY <2>1, <2>3, LeftType DEF ChangeNode, RouteInv, WorldInv
    <2> QED
      BY <2>1, <2>4, ProcsUnchanged DEF ChangeNode, RouteInv
  <1>3. CASE \E n \in Names : RemoveNode(n)
    <2>1. PICK n \in Names : RemoveNode(n)
      BY <1>3
    <2>2. WorldInv'
      BY <2>1, LeftType DEF RemoveNode, RouteInv, WorldInv
    <2> QED
      BY <2>1, <2>2, ProcsUnchanged DEF RemoveNode, RouteInv
  <1>4. CASE \E t \in Tables : UserRoute(t)
    <2>1. PICK t \in Tables : UserRoute(t)
      BY <1>4
    <2>2. /\ routes' \in [Tables -> SUBSET Routes]
          /\ \A u \in Tables : \A r, s \in routes'[u] : r[1] = s[1] => r = s
      <3>1. CASE \E r \in UserCidrs \X Provs :
                   /\ \A s \in routes[t] : s[1] # r[1]
                   /\ routes' = [routes EXCEPT ![t] = @ \cup {r}]
        BY <3>1 DEF Routes, Cidrs, RouteInv, WorldInv
      <3>2. CASE \E r \in routes[t] : routes' = [routes EXCEPT ![t] = @ \ {r}]
        BY <3>2 DEF RouteInv, WorldInv
      <3> QED
        BY <2>1, <3>1, <3>2 DEF UserRoute
    <2>3. WorldInv'
      BY <2>1, <2>2, LeftType DEF UserRoute, RouteInv, WorldInv
    <2> QED
      BY <2>1, <2>3, ProcsUnchanged DEF UserRoute, RouteInv
  <1>5. CASE Restart
    <2>1. WorldInv'
      BY <1>5, LeftType DEF Restart, Live, RouteInv, WorldInv
    <2>2. ProcInv'
      BY <1>5, NothingType DEF Restart, ProcInv, TargetOK, SnapOK, Routable, Inside, Steps
    <2> QED
      BY <2>1, <2>2 DEF RouteInv
  <1> QED
    BY <1>1, <1>2, <1>3, <1>4, <1>5 DEF Environment

\* Deleting an entry keeps the tables well formed.
LEMMA DeleteRouteType ==
    ASSUME WorldInv, NEW t \in Tables, NEW r, DeleteRoute(t, r) \/ UNCHANGED routes
    PROVE  /\ routes' \in [Tables -> SUBSET Routes]
           /\ \A u \in Tables : \A x, y \in routes'[u] : x[1] = y[1] => x = y
  BY DEF WorldInv, DeleteRoute

\* Adding an entry whose destination is free, or that is there already, does too.
LEMMA CreateRouteType ==
    ASSUME WorldInv, NEW t \in Tables, NEW r \in Routes, ~Duplicate(t, r),
           routes' = [routes EXCEPT ![t] = @ \cup {r}]
    PROVE  /\ routes' \in [Tables -> SUBSET Routes]
           /\ \A u \in Tables : \A x, y \in routes'[u] : x[1] = y[1] => x = y
  BY DEF WorldInv, Duplicate

-----------------------------------------------------------------------------
\* The worker takes a name from its queue.
LEMMA ReconcileInv ==
    ASSUME RouteInv, NEW n \in Names, Reconcile(n)
    PROVE  RouteInv'
  <1> DEFINE nd == node[n]
             target == [NoTarget EXCEPT !.name = n, !.nd = nd, !.route = nodeCache[n]]
  <1>1. WorldInv'
    BY LeftType DEF Reconcile, RouteInv, WorldInv
  <1>2. nd \in Nodes \cup {NoNode} /\ nodeCache[n] \in NodeRoutes \cup {NoRoute}
    BY DEF RouteInv, WorldInv
  <1>3. nodeCache[n] \in Routes \cup {NoRoute}
    BY <1>2 DEF NodeRoutes, Routes, Cidrs
  <1>4. target \in Targets /\ target.nd = nd /\ target.route = nodeCache[n]
    BY <1>2, <1>3, NothingType DEF Targets
  <1>5. CASE WorkerDone
    BY <1>1, <1>5, WorkerDoneInv DEF RouteInv
  <1>6. CASE /\ nodeCache[n] # NoRoute
             /\ \E t \in Tables :
                  WorkerGoto("delete", [target EXCEPT !.table = t], Tables \ {t}, TRUE)
    <2>1. PICK t \in Tables :
            WorkerGoto("delete", [target EXCEPT !.table = t], Tables \ {t}, TRUE)
      BY <1>6
    <2>2. TargetOK("delete", [target EXCEPT !.table = t])
      BY <1>2, <1>4, <1>6 DEF TargetOK, Targets
    <2> QED
      BY <1>1, <2>1, <2>2, WorkerGotoInv DEF RouteInv, Steps
  <1>7. CASE WorkerGoto("cond", target, {}, FALSE)
    BY <1>1, <1>4, <1>7, WorkerGotoInv DEF RouteInv, Steps, TargetOK
  <1>8. CASE /\ Routable(nd)
             /\ \E t \in Tables :
                  WorkerGoto("find", [target EXCEPT !.table = t], Tables \ {t}, TRUE)
    <2>1. PICK t \in Tables :
            WorkerGoto("find", [target EXCEPT !.table = t], Tables \ {t}, TRUE)
      BY <1>8
    <2>2. TargetOK("find", [target EXCEPT !.table = t])
      BY <1>4, <1>8 DEF TargetOK, Targets
    <2> QED
      BY <1>1, <2>1, <2>2, WorkerGotoInv DEF RouteInv, Steps
  <1> QED
    BY <1>5, <1>6, <1>7, <1>8 DEF Reconcile, Routable

\* The loop over the tables of a deletion.
LEMMA DeletedInv ==
    ASSUME RouteInv, pc["worker"] = "delete", NEW good \in BOOLEAN, Deleted(good)
    PROVE  /\ ProcInv'
           /\ nodeCache' \in [Names -> NodeRoutes \cup {NoRoute}]
           /\ queue' \subseteq Names
  <1>1. TargetOK("delete", tgt["worker"]) /\ tgt["worker"].name \in Names
    BY DEF RouteInv, ProcInv, Procs, TargetOK, Targets
  <1>2. CASE tables["worker"] # {}
    BY <1>1, <1>2, WorkerNextInv DEF Deleted, RouteInv, WorldInv
  <1>3. CASE tables["worker"] = {}
    BY <1>1, <1>3, WorkerDoneInv DEF Deleted, RouteInv, WorldInv
  <1> QED
    BY <1>2, <1>3

LEMMA WorkerDeleteInv ==
    ASSUME RouteInv, WorkerDelete \/ WorkerDeleteFails
    PROVE  RouteInv'
  <1>1. pc["worker"] = "delete" /\ ok \in BOOLEAN /\ tgt["worker"].table \in Tables
    BY DEF WorkerDelete, WorkerDeleteFails, RouteInv, ProcInv, Procs, Targets
  <1>2. /\ ProcInv' /\ queue' \subseteq Names
        /\ nodeCache' \in [Names -> NodeRoutes \cup {NoRoute}]
    BY <1>1, DeletedInv DEF WorkerDelete, WorkerDeleteFails
  <1>3. /\ routes' \in [Tables -> SUBSET Routes]
        /\ \A u \in Tables : \A x, y \in routes'[u] : x[1] = y[1] => x = y
    BY <1>1, DeleteRouteType DEF WorkerDelete, WorkerDeleteFails, RouteInv
  <1> QED
    BY <1>2, <1>3, LeftType DEF WorkerDelete, WorkerDeleteFails, RouteInv, WorldInv

\* Looking for a node's route, making it and setting the condition.
LEMMA AddRouteForNodeInv ==
    ASSUME RouteInv, NEW p \in Procs,
           \/ FindRoute(p) \/ FindRouteFails(p)
           \/ CreateRoute(p) \/ CreateRouteFails(p)
           \/ UpdateCondition(p) \/ UpdateConditionFails(p)
    PROVE  RouteInv'
  <1> DEFINE r == RouteOf(tgt[p].nd)
             t == tgt[p].table
             n == tgt[p].name
  <1>1. /\ tgt[p] \in Targets /\ tables[p] \in SUBSET Tables /\ ok \in BOOLEAN
        /\ t \in Tables /\ n \in Names /\ SnapOK(snap) /\ TargetOK(pc[p], tgt[p])
    BY DEF RouteInv, ProcInv, Targets
  <1>2. ASSUME pc[p] \in {"find", "create"}
        PROVE  r \in NodeRoutes /\ r \in Routes
    BY <1>1, <1>2, RouteOfType DEF TargetOK, Targets
  <1>3. CASE FindRoute(p)
    <2>1. CASE Found(p)
      BY <1>1, <1>2, <1>3, <2>1, AddedInv, SetIfAbsentType, LeftType
      DEF FindRoute, RouteInv, WorldInv
    <2>2. CASE ~Found(p)
      <3>1. pc' = [pc EXCEPT ![p] = "create"] /\ UNCHANGED <<tgt, tables, ok, snap>>
        BY <1>3, <2>2 DEF FindRoute
      <3>2. \A q \in Procs : TargetOK(pc'[q], tgt'[q])
        BY <1>1, <1>3, <3>1 DEF FindRoute, RouteInv, ProcInv, TargetOK
      <3>3. ProcInv'
        BY <3>1, <3>2 DEF RouteInv, ProcInv, Steps, SnapOK, TargetOK, Routable, Inside
      <3> QED
        BY <1>3, <2>2, <3>3, LeftType DEF FindRoute, RouteInv, WorldInv
    <2> QED
      BY <2>1, <2>2
  <1>4. CASE FindRouteFails(p)
    BY <1>4, AddedInv, LeftType DEF FindRouteFails, world, RouteInv, WorldInv
  <1>5. CASE CreateRoute(p)
    <2>1. CASE Duplicate(t, r)
      BY <1>5, <2>1, AddedInv, LeftType DEF CreateRoute, RouteInv, WorldInv
    <2>2. CASE ~Duplicate(t, r)
      BY <1>1, <1>2, <1>5, <2>2, AddedInv, SetIfAbsentType, CreateRouteType, LeftType
      DEF CreateRoute, RouteInv, WorldInv
    <2> QED
      BY <2>1, <2>2
  <1>6. CASE CreateRouteFails(p)
    BY <1>1, <1>2, <1>6, AddedInv, CreateRouteType, LeftType
    DEF CreateRouteFails, RouteInv, WorldInv
  <1>7. CASE UpdateCondition(p)
    <2>1. node' \in [Names -> Nodes \cup {NoNode}]
      BY <1>1, <1>7 DEF UpdateCondition, Live, Wanted, Nodes, RouteInv, WorldInv
    <2> QED
      BY <1>7, <2>1, CondDoneInv, LeftType DEF UpdateCondition, RouteInv, WorldInv
  <1>8. CASE UpdateConditionFails(p)
    BY <1>8, CondDoneInv, LeftType DEF UpdateConditionFails, world, RouteInv, WorldInv
  <1> QED
    BY <1>3, <1>4, <1>5, <1>6, <1>7, <1>8

-----------------------------------------------------------------------------
\* A conflicting entry lies inside a pod CIDR.
LEMMA ConflictInside ==
    ASSUME NEW nodes \in [Names -> Nodes \cup {NoNode}], NEW r, ConflictWithNodes(r, nodes)
    PROVE  Inside(r)
  BY DEF ConflictWithNodes, ContainsRoute, HasRoute, Nodes, Inside

\* The start of a pass and the listing of a table.
LEMMA SyncListInv ==
    ASSUME RouteInv, SyncStart \/ ListRoute \/ ListRouteFails
    PROVE  RouteInv'
  <1>1. /\ tgt["sync"] \in Targets /\ tables["sync"] \in SUBSET Tables
        /\ tgt["sync"].table \in Tables /\ SnapOK(snap)
    BY DEF RouteInv, ProcInv, Procs, Targets
  <1>2. WorldInv'
    BY LeftType DEF SyncStart, ListRoute, ListRouteFails, world, RouteInv, WorldInv
  <1>3. CASE SyncStart
    <2>1. /\ NodeList \in [Names -> Nodes \cup {NoNode}]
          /\ \A n \in Names : NodeList[n] # NoNode => NodeList[n].prov # NoProv
      BY DEF NodeList, RouteInv, WorldInv
    <2>2. SnapOK([NoSnap EXCEPT !.nodes = NodeList])
      BY <2>1, NothingType DEF SnapOK, Snaps, NoSnap
    <2> QED
      BY <1>2, <1>3, <2>2, NothingType, SyncNextInv DEF SyncStart, RouteInv
  <1>4. CASE ListRoute
    <2> DEFINE list == routes[tgt["sync"].table]
               conf == {r \in list : /\ ContainsRoute(ClusterCidr, r[1]).equal
                                     /\ ConflictWithNodes(r, snap.nodes)}
               todo == {n \in Names : HasRoute(snap.nodes[n]) /\ NeedSyncRoute(snap.nodes[n])}
               sn == [snap EXCEPT !.routes = list, !.conflicts = conf, !.todo = todo]
    <2>1. list \in SUBSET Routes /\ snap.nodes \in [Names -> Nodes \cup {NoNode}]
      BY <1>1 DEF RouteInv, WorldInv, SnapOK, Snaps
    <2>2. \A r \in conf : Inside(r)
      BY <2>1, ConflictInside
    <2>3. \A n \in todo : Routable(snap.nodes[n])
      BY <1>1 DEF SnapOK, HasRoute, Routable
    <2>4. sn \in Snaps /\ sn.nodes = snap.nodes /\ sn.conflicts = conf /\ sn.todo = todo
      BY <1>1, <2>1 DEF SnapOK, Snaps
    <2>5. SnapOK(sn)
      BY <1>1, <2>2, <2>3, <2>4 DEF SnapOK
    <2>6. CASE SyncGoto("conflicts", tgt["sync"], tables["sync"], sn)
      BY <1>1, <1>2, <2>5, <2>6, SyncGotoInv DEF RouteInv, Steps, TargetOK
    <2>7. CASE SyncNext(tgt["sync"], tables["sync"], sn)
      BY <1>1, <1>2, <2>5, <2>7, SyncNextInv DEF RouteInv
    <2> QED
      BY <1>4, <2>6, <2>7 DEF ListRoute
  <1>5. CASE ListRouteFails
    BY <1>1, <1>2, <1>5, SyncNextInv DEF ListRouteFails, RouteInv
  <1> QED
    BY <1>3, <1>4, <1>5

LEMMA DeleteConflictInv ==
    ASSUME RouteInv, NEW r, DeleteConflict(r) \/ DeleteConflictFails(r)
    PROVE  RouteInv'
  <1> DEFINE sn == [snap EXCEPT !.conflicts = @ \ {r}]
  <1>1. /\ tgt["sync"] \in Targets /\ tables["sync"] \in SUBSET Tables
        /\ tgt["sync"].table \in Tables /\ SnapOK(snap)
    BY DEF RouteInv, ProcInv, Procs, Targets
  <1>2. SnapOK(sn)
    BY <1>1 DEF SnapOK, Snaps
  <1>3. ProcInv'
    <2>1. CASE SyncGoto("conflicts", tgt["sync"], tables["sync"], sn)
      BY <1>1, <1>2, <2>1, SyncGotoInv DEF RouteInv, Steps, TargetOK
    <2>2. CASE SyncNext(tgt["sync"], tables["sync"], sn)
      BY <1>1, <1>2, <2>2, SyncNextInv DEF RouteInv
    <2> QED
      BY <2>1, <2>2 DEF DeleteConflict, DeleteConflictFails, ConflictDone
  <1>4. /\ routes' \in [Tables -> SUBSET Routes]
        /\ \A u \in Tables : \A x, y \in routes'[u] : x[1] = y[1] => x = y
    BY <1>1, DeleteRouteType DEF DeleteConflict, DeleteConflictFails, RouteInv
  <1> QED
    BY <1>3, <1>4, LeftType DEF DeleteConflict, DeleteConflictFails, RouteInv, WorldInv

-----------------------------------------------------------------------------
\* Every step keeps the invariant.
LEMMA NextInv ==
    ASSUME RouteInv, [Next]_vars
    PROVE  RouteInv'
  <1>1. CASE Environment
    BY <1>1, EnvironmentInv
  <1>2. CASE Worker
    BY <1>2, ReconcileInv, WorkerDeleteInv, AddRouteForNodeInv DEF Worker, AddRouteForNode, Procs
  <1>3. CASE Sync
    BY <1>3, SyncListInv, DeleteConflictInv, AddRouteForNodeInv DEF Sync, AddRouteForNode, Procs
  <1>4. CASE Fault
    <2>1. ASSUME NEW n \in Names, GetRouteTablesFails(n)
          PROVE  RouteInv'
      <3>1. WorldInv'
        BY <2>1, LeftType DEF GetRouteTablesFails, RouteInv, WorldInv
      <3> QED
        BY <2>1, <3>1, ProcsUnchanged DEF GetRouteTablesFails, RouteInv
    <2> QED
      BY <1>4, <2>1, WorkerDeleteInv, SyncListInv, AddRouteForNodeInv, DeleteConflictInv DEF Fault
  <1>5. CASE UNCHANGED vars
    <2>1. WorldInv'
      BY <1>5 DEF vars, RouteInv, WorldInv
    <2> QED
      BY <1>5, <2>1, ProcsUnchanged DEF vars, procs, RouteInv
  <1> QED
    BY <1>1, <1>2, <1>3, <1>4, <1>5 DEF Next

\* The route controller keeps RouteInv.
THEOREM RouteInvariant == Spec => []RouteInv
  <1>1. Init => RouteInv
    BY InitInv
  <1>2. RouteInv /\ [Next]_vars => RouteInv'
    BY NextInv
  <1> QED
    BY <1>1, <1>2, PTL DEF Spec

\* Type correctness of the route controller, one entry per destination included:
\* no table ever gets two entries of one destination from the two processes, and
\* a route is made only for a node with provider id and pod CIDR.
THEOREM RouteTypeCorrect == Spec => []TypeOK
  <1>1. RouteInv => TypeOK
    <2> SUFFICES ASSUME RouteInv PROVE TypeOK
      OBVIOUS
    <2>1. NodeRoutes \subseteq Routes
      BY DEF NodeRoutes, Routes, Cidrs
    <2>2. nodeCache \in [Names -> Routes \cup {NoRoute}]
      BY <2>1 DEF RouteInv, WorldInv
    <2> QED
      BY <2>2 DEF TypeOK, RouteInv, WorldInv, ProcInv, TargetOK, Routable, SnapOK, Steps
  <1> QED
    BY <1>1, RouteInvariant, PTL

\* An entry that a step takes out of a table was taken out by the user, or lies
\* inside a pod CIDR.
LEMMA RemovedInside ==
    ASSUME RouteInv, [Next]_vars, NEW t \in Tables, NEW r \in routes[t], r \notin routes'[t]
    PROVE  UserRoute(t) \/ \E c \in NodeCidrs : r[1] \subseteq c
  <1>1. CASE Environment
    <2>1. PICK u \in Tables : UserRoute(u)
      BY <1>1 DEF Environment, AddNode, ChangeNode, RemoveNode, Restart
    <2>2. u = t
      BY <2>1 DEF UserRoute, RouteInv, WorldInv
    <2> QED
      BY <2>1, <2>2
  <1>2. CASE WorkerDelete \/ WorkerDeleteFails
    <2>1. r = tgt["worker"].route
      BY <1>2 DEF WorkerDelete, WorkerDeleteFails, DeleteRoute, RouteInv, WorldInv
    <2>2. tgt["worker"].route \in NodeRoutes
      BY <1>2 DEF WorkerDelete, WorkerDeleteFails, RouteInv, ProcInv, TargetOK, Procs
    <2> QED
      BY <2>1, <2>2 DEF NodeRoutes
  <1>3. CASE \E x \in Routes : DeleteConflict(x) \/ DeleteConflictFails(x)
    <2>1. PICK x \in Routes : DeleteConflict(x) \/ DeleteConflictFails(x)
      BY <1>3
    <2>2. r = x /\ x \in snap.conflicts
      BY <2>1 DEF DeleteConflict, DeleteConflictFails, DeleteRoute, RouteInv, WorldInv
    <2> QED
      BY <2>2 DEF RouteInv, ProcInv, SnapOK, Inside
  <1>4. ASSUME NEW p \in Procs, CreateRoute(p) \/ CreateRouteFails(p)
        PROVE  FALSE
    BY <1>4 DEF CreateRoute, CreateRouteFails, RouteInv, WorldInv
  <1>5. CASE Worker
    BY <1>2, <1>4, <1>5 DEF Worker, AddRouteForNode, Procs, Reconcile, FindRoute, UpdateCondition
  <1>6. CASE Sync
    BY <1>3, <1>4, <1>6
    DEF Sync, AddRouteForNode, Procs, FindRoute, UpdateCondition, SyncStart, ListRoute, world
  <1>7. CASE Fault
    BY <1>2, <1>3, <1>4, <1>7
    DEF Fault, GetRouteTablesFails, ListRouteFails, FindRouteFails, UpdateConditionFails, world
  <1>8. CASE UNCHANGED vars
    BY <1>8 DEF vars
  <1> QED
    BY <1>1, <1>5, <1>6, <1>7, <1>8 DEF Next

\* The route controller removes no entry whose destination is not inside a pod
\* CIDR, whatever the two processes read and whenever they act on it
\* (conflictWithNodes, nodeCache).
THEOREM OtherRoutesSafe == Spec => OtherRoutesStay
  <1>1. RouteInv /\ [Next]_vars =>
          [\A t \in Tables : \A r \in routes[t] :
             r \in routes'[t] \/ UserRoute(t) \/ \E c \in NodeCidrs : r[1] \subseteq c]_vars
    BY RemovedInside
  <1> QED
    BY <1>1, RouteInvariant, PTL DEF Spec, OtherRoutesStay
=============================================================================
