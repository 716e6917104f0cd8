----------------------------- MODULE BackendSync -----------------------------
(***************************************************************************)
(* From pods and nodes to the backends of one CLB service: the endpoint    *)
(* slices, the event handlers that decide whether a change is worth a      *)
(* reconcile (clbv1/event_handler.go), the building of the backends        *)
(* (reconcile/backend, clbv1/vgroups.go) and the pods' readiness gates,    *)
(* which the reconcile opens once a pod is registered.                     *)
(*                                                                         *)
(* Simplifications:                                                        *)
(*  - one service that needs a CLB and is not edited (ClbService has the   *)
(*    edits), one port; sending the backends to the cloud is one step      *)
(*    (VServerGroup has its calls); EndpointSlice is on;                   *)
(*  - a pod has one address and stays on its node NodeOf[p]; every node    *)
(*    has a provider id and every address an ENI;                          *)
(*  - a label is present or not, and is worth its name: "exclude" is       *)
(*    exclude-node, "balancer" exclude-from-external-load-balancers,       *)
(*    "vk" type=virtual-kubelet, "match" what backend-label asks for;      *)
(*  - services, nodes and slices are read from the API server, not from a  *)
(*    cache (config/runtime_config.go), and an event of theirs is handled  *)
(*    when they change; pods come from the cache.                          *)
(***************************************************************************)
EXTENDS Integers, FiniteSets

CONSTANTS NodeNames, Pods,
          NodeOf,          \* the node of each pod
          Services,        \* policy, remove-unscheduled, backend-label, vgroup-weight
          LabelSets,       \* label sets that nodes may have
          NodeChanges,     \* what may change of a node: "labels", "unsched", ...
          FilterServiceOnNodeChange,
          MaxChanges, MaxFaults,
          NoNode, NoPod, NoWeight

Labels == {"exclude", "balancer", "master", "vk", "match"}

\* Labels whose value is not empty.
Valued == {"vk", "match"}

Nodes == [labels : SUBSET Labels, unsched : BOOLEAN,
          ready : {"none", "true", "false"}, taint : BOOLEAN]
PodStates == [gate : {"none", "closed", "open"}, containers : BOOLEAN,
              seen : BOOLEAN, terminating : BOOLEAN]
Backends == (NodeNames \cup Pods) \X Nat

ASSUME ClusterAssumption ==
    /\ NodeOf \in [Pods -> NodeNames]
    /\ IsFiniteSet(NodeNames) /\ IsFiniteSet(Pods) /\ NodeNames \cap Pods = {}
    /\ LabelSets \subseteq SUBSET Labels
    /\ NoNode \notin Nodes /\ NoPod \notin PodStates
    /\ MaxChanges \in Nat /\ MaxFaults \in Nat

ASSUME ServiceAssumption ==
    \A s \in Services :
        /\ s.policy \in {"eni", "local", "cluster"}
        /\ s.removeUnscheduled \in BOOLEAN /\ s.backendLabel \in BOOLEAN
        /\ s.weight \in 0..100 \cup {NoWeight}

VARIABLES
    svc,      \* the service
    node,     \* the nodes
    pod,      \* the pods; `seen' says whether the cache has the pod
    slice,    \* what the endpoint slices say of each pod
    queued,   \* the service is in the work queue
    missed,   \* nodes and pods whose event was lost since the last reconcile began;
              \* a history variable: no step depends on it
    pc, rec,  \* the reconcile in progress: its next step and local variables
    group,    \* the backends of the vserver group
    changes, faults

vars == <<svc, node, pod, slice, queued, missed, pc, rec, group, changes, faults>>

Recs == [backends : SUBSET Backends, initial : SUBSET Pods, potential : BOOLEAN]

\* The weights a server may have: a service that asks for a weight gets at most
\* that on each server, and no server is left without traffic unless it asks for 0.
WeightRange ==
    IF svc.weight = NoWeight THEN Nat
    ELSE IF svc.weight = 0 THEN {0} ELSE 1..svc.weight

\* Every variable holds a value of its type, and a server is in the group once,
\* with a weight of the range (setWeightBackends).
TypeOK ==
    /\ svc \in Services
    /\ node \in [NodeNames -> Nodes \cup {NoNode}]
    /\ pod \in [Pods -> PodStates \cup {NoPod}]
    /\ slice \in [Pods -> {"absent", "ready", "notReady", "terminating"}]
    /\ queued \in BOOLEAN /\ missed \subseteq NodeNames \cup Pods
    /\ pc \in {"idle", "apply", "gates", "finish"}
    /\ rec.initial \subseteq Pods /\ rec.potential \in BOOLEAN
    /\ \A B \in {group, rec.backends} :
         /\ \A b \in B : b \in Backends /\ b[2] \in WeightRange
         /\ \A b, c \in B : b[1] = c[1] => b = c
    /\ changes \in 0..MaxChanges /\ faults \in 0..MaxFaults

-----------------------------------------------------------------------------
(* reconcile/backend: the nodes and endpoints a service may use.           *)

HasExcludeLabel(nd) == "exclude" \in nd.labels
IsMasterNode(nd) == "master" \in nd.labels
IsVK(nd) == "vk" \in nd.labels
IsNodeExcludeFromLoadBalancer(nd) == "balancer" \in nd.labels \/ HasExcludeLabel(nd)

NeedExcludeFromLB(nd) ==
    \/ IsMasterNode(nd)
    \/ nd.taint
    \/ nd.unsched /\ svc.removeUnscheduled
    \/ ~IsVK(nd) /\ nd.ready # "true"

GetNodes ==
    {n \in NodeNames : /\ node[n] # NoNode
                       /\ svc.backendLabel => "match" \in node[n].labels
                       /\ ~NeedExcludeFromLB(node[n])}

\* An endpoint that is not ready but whose pod has the gate of this service.
Gated(p) == pod[p] # NoPod /\ pod[p].seen /\ pod[p].gate # "none"

\* Mutant: pods that are not ready are never added.
ReadyBackends == {p \in Pods : slice[p] = "ready"}

\* setBackendsFromEndpointSlices: ready endpoints, and endpoints whose pod waits
\* for nothing but its readiness gate.
InitialBackends ==
    {p \in Pods : \/ slice[p] = "ready"
                  \/ slice[p] = "notReady" /\ Gated(p) /\ pod[p].containers}

\* Mutant: a pod that the cache does not show yet is not waited for.
PotentialIfSeen == \E p \in Pods : slice[p] = "notReady" /\ Gated(p) /\ ~pod[p].containers

\* containsPotentialReadyEndpoints: a pod that the cache does not show yet, or
\* whose containers are not ready.
ContainsPotentialReady ==
    \E p \in Pods :
        /\ slice[p] = "notReady"
        /\ \/ pod[p] = NoPod
           \/ ~pod[p].seen
           \/ Gated(p) /\ ~pod[p].containers

-----------------------------------------------------------------------------
(* clbv1/vgroups.go: the backends with their weights.  `pods' gives for    *)
(* each server how many of the service's pods stand behind it.             *)

PodNumber(local, servers, pods, s) == IF local THEN pods[s] ELSE 100

\* Mutant: a share is rounded down to 0.
PodPercentNoFloor(local, servers, pods, s, total) ==
    (IF local THEN svc.weight * pods[s] ELSE svc.weight) \div total

\* podPercentAlgorithm: total is the number of entries before duplicates go.
PodPercent(local, servers, pods, s, total) ==
    LET share == IF local THEN (svc.weight * pods[s]) \div total ELSE svc.weight \div total
    IN  IF svc.weight = 0 THEN 0 ELSE IF share < 1 THEN 1 ELSE share

SetWeightBackends(local, servers, pods, total) ==
    {<<s, IF svc.weight = NoWeight THEN PodNumber(local, servers, pods, s)
          ELSE PodPercent(local, servers, pods, s, total)>> : s \in servers}

One(servers) == [s \in servers |-> 1]

BuildENIBackends(initial) ==
    SetWeightBackends(FALSE, initial, One(initial), Cardinality(initial))

\* Pods on virtual nodes are backends of their own in every policy.
EciPods(initial) == {p \in initial : NodeOf[p] \in GetNodes /\ IsVK(node[NodeOf[p]])}

\* Nodes that may be backends themselves.
EcsNodes == {n \in GetNodes : ~IsNodeExcludeFromLoadBalancer(node[n])}

\* Under the local policy: the pods reached through their nodes, the servers, and
\* the pods behind each server.
EcsPods(initial) == {p \in initial \ EciPods(initial) : NodeOf[p] \in EcsNodes}
LocalServers(initial) == {NodeOf[p] : p \in EcsPods(initial)} \cup EciPods(initial)
PodsBehind(initial) ==
    [s \in LocalServers(initial) |->
       IF s \in EciPods(initial) THEN 1
       ELSE Cardinality({p \in EcsPods(initial) : NodeOf[p] = s})]

\* Mutant: every server counts for one pod.
BuildLocalUnweighted(initial) ==
    SetWeightBackends(TRUE, LocalServers(initial), One(LocalServers(initial)),
                      Cardinality(LocalServers(initial)))

\* The nodes with pods, each weighted by its pods, and the pods on virtual nodes.
BuildLocalBackends(initial) ==
    SetWeightBackends(TRUE, LocalServers(initial), PodsBehind(initial),
                      Cardinality(EcsPods(initial)) + Cardinality(EciPods(initial)))

\* Every node, and the pods on virtual nodes.
BuildClusterBackends(initial) ==
    LET servers == EcsNodes \cup EciPods(initial)
    IN  SetWeightBackends(FALSE, servers, One(servers), Cardinality(servers))

BuildBackends(initial) ==
    IF svc.policy = "eni" THEN BuildENIBackends(initial)
    ELSE IF svc.policy = "local" THEN BuildLocalBackends(initial)
    ELSE BuildClusterBackends(initial)

Wanted == BuildBackends(InitialBackends)

-----------------------------------------------------------------------------
(* The event handlers.                                                     *)

NoLabels(nd) == nd.labels = {}
CanNodeSkipEventHandler(nd) == ~NoLabels(nd) /\ (HasExcludeLabel(nd) \/ IsMasterNode(nd))

\* nodeLabelsChanged: the sizes, then the values of the old labels (a missing
\* label has the empty value).
NodeLabelsChanged(old, new) ==
    \/ Cardinality(old.labels) # Cardinality(new.labels)
    \/ \E l \in old.labels \ new.labels : l \in Valued

NodeReadyChanged(old, new) ==
    LET status(nd) == IF nd.ready = "none" THEN "false" ELSE nd.ready
    IN  status(old) # status(new)

NodeSpecChanged(old, new) ==
    \/ NodeLabelsChanged(old, new)
    \/ old.unsched # new.unsched
    \/ NodeReadyChanged(old, new)

CheckServiceAffected ==
    /\ svc.policy # "eni"
    /\ svc.policy = "cluster" \/ svc.backendLabel \/ svc.removeUnscheduled

delivery == <<queued, missed, faults>>

\* A handler of events puts the service into the queue, unless its own call for the
\* services fails: then the event of x is logged and lost.  A service that is in
\* the queue anyway loses nothing.
Enqueue(x) ==
    \/ queued' = TRUE /\ UNCHANGED <<missed, faults>>
    \/ /\ ~queued
       /\ faults < MaxFaults
       /\ faults' = faults + 1
       /\ missed' = missed \cup {x}
       /\ UNCHANGED queued

EnqueueManagedNode(n) ==
    IF ~FilterServiceOnNodeChange \/ CheckServiceAffected
    THEN Enqueue(n) ELSE UNCHANGED delivery

\* The Create, Update and Delete handlers of node events.
NodeEvent(n, old, new) ==
    IF IF old = NoNode THEN ~CanNodeSkipEventHandler(new)
       ELSE IF new = NoNode THEN ~CanNodeSkipEventHandler(old)
       ELSE /\ ~(CanNodeSkipEventHandler(old) /\ CanNodeSkipEventHandler(new))
            /\ NodeSpecChanged(old, new)
    THEN EnqueueManagedNode(n) ELSE UNCHANGED delivery

-----------------------------------------------------------------------------
(* The cluster around the controller.                                      *)

Change == changes < MaxChanges /\ changes' = changes + 1
work == <<pc, rec, group>>

SetNode(n, new) == node' = [node EXCEPT ![n] = new] /\ NodeEvent(n, node[n], new)

\* Nodes come and go and change, one label or one field at a time.
AddNode(n) ==
    /\ Change
    /\ node[n] = NoNode
    /\ \E L \in LabelSets, r \in {"none", "true"} :
         SetNode(n, [labels |-> L, unsched |-> FALSE, ready |-> r, taint |-> FALSE])
    /\ UNCHANGED <<svc, pod, slice, work>>

RemoveNode(n) ==
    /\ Change
    /\ node[n] # NoNode
    /\ SetNode(n, NoNode)
    /\ UNCHANGED <<svc, pod, slice, work>>

ChangeNode(n) ==
    /\ Change
    /\ node[n] # NoNode
    /\ \/ \E L \in LabelSets :
            /\ "labels" \in NodeChanges
            /\ Cardinality((L \ node[n].labels) \cup (node[n].labels \ L)) = 1
            /\ SetNode(n, [node[n] EXCEPT !.labels = L])
       \/ "unsched" \in NodeChanges /\ SetNode(n, [node[n] EXCEPT !.unsched = ~@])
       \/ "taint" \in NodeChanges /\ SetNode(n, [node[n] EXCEPT !.taint = ~@])
       \/ \E r \in {"true", "false"} \ {node[n].ready} :
            "ready" \in NodeChanges /\ SetNode(n, [node[n] EXCEPT !.ready = r])
    /\ UNCHANGED <<svc, pod, slice, work>>

\* A pod is created, with or without the service's readiness gate; its containers
\* get ready, and may fail once the pod has been published as ready; it is
\* told to terminate and disappears.
CreatePod(p) ==
    /\ Change
    /\ pod[p] = NoPod /\ slice[p] = "absent"
    /\ \E g \in {"none", "closed"} :
         pod' = [pod EXCEPT ![p] = [gate |-> g, containers |-> FALSE, seen |-> FALSE,
                                    terminating |-> FALSE]]
    /\ UNCHANGED <<svc, node, slice, delivery, work>>

ContainersReady(p) ==
    /\ Change
    /\ pod[p] # NoPod /\ ~pod[p].containers /\ ~pod[p].terminating
    /\ pod' = [pod EXCEPT ![p].containers = TRUE]
    /\ UNCHANGED <<svc, node, slice, delivery, work>>

ContainersFail(p) ==
    /\ Change
    /\ pod[p] # NoPod /\ pod[p].containers /\ slice[p] = "ready"
    /\ pod' = [pod EXCEPT ![p].containers = FALSE]
    /\ UNCHANGED <<svc, node, slice, delivery, work>>

Terminate(p) ==
    /\ Change
    /\ pod[p] # NoPod /\ ~pod[p].terminating
    /\ pod' = [pod EXCEPT ![p].terminating = TRUE]
    /\ UNCHANGED <<svc, node, slice, delivery, work>>

RemovePod(p) ==
    /\ Change
    /\ pod[p] # NoPod /\ pod[p].terminating
    /\ pod' = [pod EXCEPT ![p] = NoPod]
    /\ UNCHANGED <<svc, node, slice, delivery, work>>

\* The watch delivers a new pod to the controller's cache, without an event.
PodSeen(p) ==
    /\ pod[p] # NoPod /\ ~pod[p].seen
    /\ pod' = [pod EXCEPT ![p].seen = TRUE]
    /\ UNCHANGED <<svc, node, slice, delivery, work, changes>>

Published(p) ==
    IF pod[p] = NoPod THEN "absent"
    ELSE IF pod[p].terminating THEN "terminating"
    ELSE IF pod[p].containers /\ pod[p].gate # "closed" THEN "ready" ELSE "notReady"

\* The endpoint slice controller publishes the state of a pod: the endpoints of
\* the slice change and the handler queues the service, or loses the event.
SliceEvent(p) ==
    /\ slice[p] # Published(p)
    /\ slice' = [slice EXCEPT ![p] = Published(p)]
    /\ Enqueue(p)
    /\ UNCHANGED <<svc, node, pod, work, changes>>

-----------------------------------------------------------------------------
(* The reconcile.                                                          *)

NoRec == [backends |-> {}, initial |-> {}, potential |-> FALSE]

Quiet == UNCHANGED <<svc, node, slice, changes>>
Finish(again) == pc' = "idle" /\ rec' = NoRec /\ queued' = (queued \/ again)

\* BuildLocalModel: everything is read anew.
Build ==
    /\ pc = "idle"
    /\ queued
    /\ queued' = FALSE /\ missed' = {}
    /\ rec' = [backends |-> Wanted, initial |-> InitialBackends, potential |-> ContainsPotentialReady]
    /\ pc' = "apply"
    /\ UNCHANGED <<pod, group, faults>>
    /\ Quiet

\* Apply: the group becomes what was built.
Apply ==
    /\ pc = "apply"
    /\ group' = rec.backends
    /\ pc' = "gates"
    /\ UNCHANGED <<pod, rec, queued, missed, faults>>
    /\ Quiet

OpenGates(S) ==
    pod' = [p \in Pods |-> IF p \in S /\ pod[p] # NoPod /\ pod[p].gate = "closed"
                           THEN [pod[p] EXCEPT !.gate = "open"] ELSE pod[p]]

\* updateReadinessCondition: opens the gate of every pod that was registered; a
\* pod that the cache does not have is an error.
UpdateReadinessCondition ==
    /\ pc = "gates"
    /\ OpenGates({p \in rec.initial : pod[p] # NoPod /\ pod[p].seen})
    /\ IF \A p \in rec.initial : pod[p] # NoPod /\ pod[p].seen
       THEN pc' = "finish" /\ UNCHANGED <<rec, queued>>
       ELSE Finish(TRUE)
    /\ UNCHANGED <<group, missed, faults>>
    /\ Quiet

\* The end of reconcileLoadBalancerResources: once more if pods may get ready.
FinishReconcile ==
    /\ pc = "finish"
    /\ Finish(rec.potential)
    /\ UNCHANGED <<pod, group, missed, faults>>
    /\ Quiet

\* A call fails: some gates may have been opened, the service is queued again.
StepFails ==
    /\ faults < MaxFaults
    /\ faults' = faults + 1
    /\ pc # "idle"
    /\ IF pc = "gates" THEN \E S \in SUBSET rec.initial : OpenGates(S) ELSE UNCHANGED pod
    /\ Finish(TRUE)
    /\ UNCHANGED <<group, missed>>
    /\ Quiet

\* Another replica takes over and gets every service as an add event.
Restart ==
    /\ faults < MaxFaults
    /\ faults' = faults + 1
    /\ Finish(TRUE)
    /\ UNCHANGED <<pod, group, missed>>
    /\ Quiet

-----------------------------------------------------------------------------
Init ==
    /\ svc \in Services
    /\ node \in [NodeNames -> {NoNode} \cup
                 [labels : LabelSets, unsched : {FALSE}, ready : {"true"}, taint : {FALSE}]]
    /\ pod = [p \in Pods |-> NoPod]
    /\ slice = [p \in Pods |-> "absent"]
    /\ queued = TRUE /\ missed = {}
    /\ pc = "idle"
    /\ rec = NoRec
    /\ group = {}
    /\ changes = 0 /\ faults = 0

Work == Build \/ Apply \/ UpdateReadinessCondition \/ FinishReconcile
Watch == \E p \in Pods : PodSeen(p) \/ SliceEvent(p)

Cluster ==
    \/ \E n \in NodeNames : AddNode(n) \/ RemoveNode(n) \/ ChangeNode(n)
    \/ \E p \in Pods : \/ CreatePod(p) \/ ContainersReady(p) \/ ContainersFail(p)
                       \/ Terminate(p) \/ RemovePod(p)

Next == Cluster \/ Watch \/ Work \/ StepFails \/ Restart

Spec == Init /\ [][Next]_vars

\* The worker works off its queue (a requeue comes back after a delay), the
\* watches deliver, the endpoint slice controller does its work.
FairSpec == Spec /\ WF_vars(Work) /\ \A p \in Pods : WF_vars(PodSeen(p)) /\ WF_vars(SliceEvent(p))

-----------------------------------------------------------------------------
\* Nothing is queued, no reconcile runs and no endpoint slice is out of date.
AtRest == pc = "idle" /\ ~queued /\ \A p \in Pods : slice[p] = Published(p)

\* When the controller is at rest, the group is what a reconcile would make it,
\* unless an event was lost since the last one began: the event handlers let no
\* change pass that the building of the backends depends on, and a pod whose state
\* changes without an event is looked at again (nodeSpecChanged,
\* ContainsPotentialReadyEndpoints).
QuietMeansFresh == AtRest /\ missed = {} => group = Wanted

\* Once the cluster calms down, every pod whose containers are ready is published
\* as ready: the controller waits for the pod, the pod for its gate, and the gate
\* for the controller, but not for ever (updateReadinessCondition).  The only pods
\* left behind are those whose own event was lost; lost events of nodes and of
\* other pods do not matter.
GatesOpen ==
    <>[](\A p \in Pods \ missed :
            pod[p] # NoPod /\ pod[p].containers /\ ~pod[p].terminating => slice[p] = "ready")

\* Under the Local policy without weights, a node that takes part gets traffic in
\* proportion to the pods behind it: once nothing is in progress, its weight is
\* the number of published or registered pods it hosts, and a node without such
\* pods is not in the group, unless an event of one of its pods was lost since the
\* last reconcile began (buildLocalBackends, podNumberAlgorithm).
LocalWeights ==
    AtRest /\ svc.policy = "local" /\ svc.weight = NoWeight =>
        \A b \in group : b[1] \in NodeNames /\ (\A p \in Pods \cap missed : NodeOf[p] # b[1]) =>
            b[2] = Cardinality({p \in InitialBackends : NodeOf[p] = b[1]}) /\ b[2] > 0
=============================================================================
