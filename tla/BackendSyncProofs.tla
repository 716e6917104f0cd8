-------------------------- MODULE BackendSyncProofs --------------------------
(***************************************************************************)
(* Proofs about BackendSync, for every set of nodes, pods, services and    *)
(* label sets: the types with the range of the weights, that the group is  *)
(* fresh whenever nothing is left to do, and what the weights of the local *)
(* policy are.                                                             *)
(***************************************************************************)
EXTENDS BackendSync, FiniteSetTheorems, TLAPS

-----------------------------------------------------------------------------
(* The weights.                                                            *)

\* A server is in a group once, with a weight of the range.
BackendsOK(B) ==
    /\ \A b \in B : b \in Backends /\ b[2] \in WeightRange
    /\ \A b, c \in B : b[1] = c[1] => b = c

\* A share of k in t of the weight w is at most w.
LEMMA ShareBound ==
    ASSUME NEW w \in Nat, NEW t \in Nat, t > 0, NEW k \in 0..t
    PROVE  /\ (w * k) \div t \in 0..w
           /\ w \div t \in 0..w
  <1>1. ASSUME NEW a \in Nat, a <= w * t
        PROVE  a \div t \in 0..w
    <2> DEFINE q == a \div t
    <2>1. q \in Nat /\ q * t <= a
      OBVIOUS
    <2>2. q > w => q * t >= w * t + t
      <3> SUFFICES ASSUME q > w PROVE q * t >= w * t + t
        OBVIOUS
      <3>1. PICK d \in Nat : q = w + 1 + d
        BY <2>1
      <3> HIDE DEF q
      <3>2. (w + 1 + d) * t = w * t + t + d * t
        OBVIOUS
      <3>3. d * t >= 0
        OBVIOUS
      <3> QED
        BY <3>1, <3>2, <3>3
    <2> HIDE DEF q
    <2>3. q <= w
      BY <1>1, <2>1, <2>2
    <2> QED
      BY <2>1, <2>3 DEF q
  <1>2. w * k \in Nat /\ w * k <= w * t
    OBVIOUS
  <1>3. w <= w * t
    OBVIOUS
  <1> QED
    BY <1>1, <1>2, <1>3

\* setWeightBackends gives every server a weight of the range.
LEMMA SetWeightOK ==
    ASSUME svc \in Services, NEW local \in BOOLEAN, NEW servers \in SUBSET (NodeNames \cup Pods),
           NEW total \in Nat, servers # {} => total > 0,
           NEW pods \in [servers -> Nat], \A s \in servers : pods[s] <= total
    PROVE  BackendsOK(SetWeightBackends(local, servers, pods, total))
  <1> DEFINE weight(s) == IF svc.weight = NoWeight THEN PodNumber(local, servers, pods, s)
                          ELSE PodPercent(local, servers, pods, s, total)
  <1>1. ASSUME NEW s \in servers PROVE weight(s) \in Nat /\ weight(s) \in WeightRange
    <2>1. CASE svc.weight = NoWeight
      BY <2>1 DEF PodNumber, WeightRange
    <2>2. CASE svc.weight # NoWeight
      <3>1. svc.weight \in 0..100
        BY <2>2, ServiceAssumption
      <3> DEFINE share == IF local THEN (svc.weight * pods[s]) \div total
                          ELSE svc.weight \div total
      <3>2. total > 0 /\ pods[s] \in 0..total /\ svc.weight \in Nat
        BY <1>1, <3>1
      <3>3. share \in 0..svc.weight
        BY <3>2, ShareBound
      <3>4. weight(s) = IF svc.weight = 0 THEN 0 ELSE IF share < 1 THEN 1 ELSE share
        BY <2>2 DEF PodPercent
      <3> HIDE DEF share, weight
      <3>5. CASE svc.weight = 0
        BY <2>2, <3>4, <3>5 DEF WeightRange
      <3>6. CASE svc.weight # 0
        <4>1. WeightRange = 1..svc.weight
          BY <2>2, <3>6 DEF WeightRange
        <4>2. weight(s) \in 1..svc.weight
          BY <3>1, <3>3, <3>4, <3>6
        <4> QED
          BY <4>1, <4>2
      <3> QED
        BY <3>5, <3>6
    <2> QED
      BY <2>1, <2>2
  <1>2. SetWeightBackends(local, servers, pods, total) = {<<s, weight(s)>> : s \in servers}
    BY DEF SetWeightBackends
  <1> HIDE DEF weight
  <1> QED
    BY <1>1, <1>2 DEF BackendsOK, Backends

-----------------------------------------------------------------------------
(* The backends that are built.                                            *)

\* The number of servers, or of pods, as a divisor.
LEMMA Count ==
    ASSUME NEW S \in SUBSET (NodeNames \cup Pods)
    PROVE  /\ IsFiniteSet(S)
           /\ Cardinality(S) \in Nat
           /\ S # {} => Cardinality(S) > 0
           /\ \A T \in SUBSET S : Cardinality(T) <= Cardinality(S)
  <1>1. IsFiniteSet(NodeNames \cup Pods)
    BY ClusterAssumption, FS_Union
  <1>2. IsFiniteSet(S)
    BY <1>1, FS_Subset
  <1>3. Cardinality(S) \in Nat
    BY <1>2, FS_CardinalityType
  <1>4. S # {} => Cardinality(S) > 0
    BY <1>2, <1>3, FS_EmptySet
  <1>5. \A T \in SUBSET S : Cardinality(T) <= Cardinality(S)
    BY <1>2, FS_Subset
  <1> QED
    BY <1>2, <1>3, <1>4, <1>5

\* Where the servers come from.
LEMMA ServersFacts ==
    ASSUME NEW I \in SUBSET Pods
    PROVE  /\ EciPods(I) \subseteq I /\ EcsPods(I) \subseteq I
           /\ EcsNodes \subseteq NodeNames
           /\ \A p \in EcsPods(I) : NodeOf[p] \in EcsNodes
           /\ LocalServers(I) \subseteq NodeNames \cup Pods
  BY ClusterAssumption DEF EciPods, EcsPods, EcsNodes, GetNodes, LocalServers

\* The pods behind a server are among the pods counted.
LEMMA PodsBehindType ==
    ASSUME NEW I \in SUBSET Pods
    PROVE  LET total == Cardinality(EcsPods(I)) + Cardinality(EciPods(I))
           IN  /\ total \in Nat
               /\ LocalServers(I) # {} => total > 0
               /\ PodsBehind(I) \in [LocalServers(I) -> Nat]
               /\ \A s \in LocalServers(I) : PodsBehind(I)[s] <= total
  <1> DEFINE a == Cardinality(EcsPods(I))
             b == Cardinality(EciPods(I))
             behind(s) == {p \in EcsPods(I) : NodeOf[p] = s}
  <1>1. /\ a \in Nat /\ b \in Nat
        /\ EcsPods(I) # {} => a > 0
        /\ EciPods(I) # {} => b > 0
    BY ServersFacts, Count
  <1>2. ASSUME NEW s PROVE Cardinality(behind(s)) \in Nat /\ Cardinality(behind(s)) <= a
    <2>1. behind(s) \in SUBSET EcsPods(I) /\ EcsPods(I) \in SUBSET (NodeNames \cup Pods)
      BY ServersFacts
    <2>2. behind(s) \in SUBSET (NodeNames \cup Pods)
      BY <2>1
    <2> HIDE DEF behind
    <2> QED
      BY <2>1, <2>2, Count
  <1>3. PodsBehind(I) = [s \in LocalServers(I) |->
                            IF s \in EciPods(I) THEN 1 ELSE Cardinality(behind(s))]
    BY DEF PodsBehind
  <1> HIDE DEF behind
  <1>4. PodsBehind(I) \in [LocalServers(I) -> Nat]
    BY <1>2, <1>3
  <1>5. LocalServers(I) # {} => a + b > 0
    <2>1. LocalServers(I) # {} => EcsPods(I) # {} \/ EciPods(I) # {}
      BY DEF LocalServers
    <2> HIDE DEF a, b
    <2> QED
      BY <1>1, <2>1
  <1>6. ASSUME NEW s \in LocalServers(I) PROVE PodsBehind(I)[s] <= a + b
    <2>1. CASE s \in EciPods(I)
      <3>1. PodsBehind(I)[s] = 1 /\ b > 0
        BY <1>1, <1>3, <2>1
      <3> HIDE DEF a, b
      <3> QED
        BY <1>1, <3>1
    <2>2. CASE s \notin EciPods(I)
      <3>1. PodsBehind(I)[s] = Cardinality(behind(s))
        BY <1>3, <2>2
      <3> HIDE DEF a, b
      <3> QED
        BY <1>1, <1>2, <3>1
    <2> QED
      BY <2>1, <2>2
  <1>7. a + b \in Nat
    <2> HIDE DEF a, b
    <2> QED
      BY <1>1
  <1> QED
    BY <1>4, <1>5, <1>6, <1>7

\* A policy without pod counts: every server alike.
LEMMA EqualShares ==
    ASSUME svc \in Services, NEW servers \in SUBSET (NodeNames \cup Pods)
    PROVE  BackendsOK(SetWeightBackends(FALSE, servers, One(servers), Cardinality(servers)))
  <1>1. Cardinality(servers) \in Nat /\ (servers # {} => Cardinality(servers) > 0)
    BY Count
  <1>2. One(servers) \in [servers -> Nat] /\ \A s \in servers : One(servers)[s] = 1
    BY DEF One
  <1>3. \A s \in servers : One(servers)[s] <= Cardinality(servers)
    BY <1>1, <1>2
  <1> QED
    BY <1>1, <1>2, <1>3, SetWeightOK

\* Whatever the policy, the backends are well typed and weighted.
LEMMA BuildOK ==
    ASSUME svc \in Services, NEW I \in SUBSET Pods
    PROVE  BackendsOK(BuildBackends(I))
  <1>1. BackendsOK(BuildENIBackends(I))
    BY EqualShares DEF BuildENIBackends
  <1>2. BackendsOK(BuildLocalBackends(I))
    <2> DEFINE total == Cardinality(EcsPods(I)) + Cardinality(EciPods(I))
    <2>1. /\ total \in Nat
          /\ LocalServers(I) # {} => total > 0
          /\ PodsBehind(I) \in [LocalServers(I) -> Nat]
          /\ \A s \in LocalServers(I) : PodsBehind(I)[s] <= total
      BY PodsBehindType
    <2>2. LocalServers(I) \in SUBSET (NodeNames \cup Pods)
      BY ServersFacts
    <2>3. BuildLocalBackends(I) = SetWeightBackends(TRUE, LocalServers(I), PodsBehind(I), total)
      BY DEF BuildLocalBackends
    <2> HIDE DEF total
    <2> QED
      BY <2>1, <2>2, <2>3, SetWeightOK
  <1>3. BackendsOK(BuildClusterBackends(I))
    <2>1. EcsNodes \cup EciPods(I) \in SUBSET (NodeNames \cup Pods)
      BY ServersFacts
    <2> QED
      BY <2>1, EqualShares DEF BuildClusterBackends
  <1> QED
    BY <1>1, <1>2, <1>3 DEF BuildBackends

-----------------------------------------------------------------------------
(* Type correctness.                                                       *)

LEMMA InitType == Init => TypeOK
  <1> SUFFICES ASSUME Init PROVE TypeOK
    OBVIOUS
  <1>1. node \in [NodeNames -> Nodes \cup {NoNode}]
    <2>1. [labels : LabelSets, unsched : {FALSE}, ready : {"true"}, taint : {FALSE}]
            \subseteq Nodes
      BY ClusterAssumption DEF Nodes
    <2> QED
      BY <2>1 DEF Init
  <1>2. pod \in [Pods -> PodStates \cup {NoPod}]
        /\ slice \in [Pods -> {"absent", "ready", "notReady", "terminating"}]
    BY DEF Init
  <1>3. rec.initial = {} /\ rec.backends = {} /\ rec.potential = FALSE /\ group = {}
    BY DEF Init, NoRec
  <1>4. svc \in Services /\ queued = TRUE /\ missed = {} /\ pc = "idle" /\ changes = 0 /\ faults = 0
    BY DEF Init
  <1>5. changes \in 0..MaxChanges /\ faults \in 0..MaxFaults
    BY <1>4, ClusterAssumption
  <1> QED
    BY <1>1, <1>2, <1>3, <1>4, <1>5 DEF TypeOK

\* The types of what the cluster keeps.
ClusterType ==
    /\ node \in [NodeNames -> Nodes \cup {NoNode}]
    /\ pod \in [Pods -> PodStates \cup {NoPod}]
    /\ slice \in [Pods -> {"absent", "ready", "notReady", "terminating"}]
    /\ queued \in BOOLEAN /\ missed \subseteq NodeNames \cup Pods
    /\ changes \in 0..MaxChanges /\ faults \in 0..MaxFaults

LEMMA ChangeType ==
    ASSUME TypeOK, Change
    PROVE  changes' \in 0..MaxChanges
  BY ClusterAssumption DEF TypeOK, Change

\* What a handler leaves of an event.
DeliveryType ==
    queued \in BOOLEAN /\ missed \subseteq NodeNames \cup Pods /\ faults \in 0..MaxFaults

LEMMA EnqueueType ==
    ASSUME TypeOK, NEW x \in NodeNames \cup Pods, Enqueue(x)
    PROVE  DeliveryType'
  <1>1. /\ queued \in BOOLEAN /\ faults \in 0..MaxFaults /\ MaxFaults \in Nat
        /\ missed \subseteq NodeNames \cup Pods
    BY ClusterAssumption DEF TypeOK
  <1>2. queued' \in BOOLEAN
    BY <1>1, Zenon DEF Enqueue
  <1>3. faults' \in 0..MaxFaults
    BY <1>1 DEF Enqueue
  <1>4. missed' \subseteq NodeNames \cup Pods
    BY <1>1 DEF Enqueue
  <1> QED
    BY <1>2, <1>3, <1>4 DEF DeliveryType

\* A step that leaves the service, the reconcile and the group alone.
LEMMA WorkKept ==
    ASSUME TypeOK, UNCHANGED <<svc, pc, rec, group>>, ClusterType'
    PROVE  TypeOK'
  BY DEF TypeOK, ClusterType, WeightRange

LEMMA NodeEventType ==
    ASSUME TypeOK, NEW n \in NodeNames, NEW old, NEW new, NodeEvent(n, old, new)
    PROVE  DeliveryType'
  <1>1. Enqueue(n) \/ UNCHANGED delivery
    BY DEF NodeEvent, EnqueueManagedNode
  <1> QED
    BY <1>1, EnqueueType DEF TypeOK, delivery, DeliveryType

LEMMA NodesType ==
    ASSUME TypeOK, NEW n \in NodeNames, AddNode(n) \/ RemoveNode(n) \/ ChangeNode(n)
    PROVE  TypeOK'
  <1>1. UNCHANGED <<svc, pod, slice, pc, rec, group>>
    BY DEF AddNode, RemoveNode, ChangeNode, work
  <1>2. changes' \in 0..MaxChanges
    BY ChangeType DEF AddNode, RemoveNode, ChangeNode
  <1>3. \E new \in Nodes \cup {NoNode} : SetNode(n, new)
    <2>1. CASE AddNode(n)
      <3>1. PICK L \in LabelSets, r \in {"none", "true"} :
              SetNode(n, [labels |-> L, unsched |-> FALSE, ready |-> r, taint |-> FALSE])
        BY <2>1 DEF AddNode
      <3>2. [labels |-> L, unsched |-> FALSE, ready |-> r, taint |-> FALSE] \in Nodes
        BY ClusterAssumption, <3>1 DEF Nodes
      <3> QED
        BY <3>1, <3>2
    <2>2. CASE RemoveNode(n)
      BY <2>2 DEF RemoveNode
    <2>3. CASE ChangeNode(n)
      <3>1. node[n] \in Nodes
        BY <2>3 DEF ChangeNode, TypeOK
      <3>2. \/ \E L \in LabelSets : SetNode(n, [node[n] EXCEPT !.labels = L])
            \/ SetNode(n, [node[n] EXCEPT !.unsched = ~node[n].unsched])
            \/ SetNode(n, [node[n] EXCEPT !.taint = ~node[n].taint])
            \/ \E r \in {"true", "false"} : SetNode(n, [node[n] EXCEPT !.ready = r])
        BY <2>3 DEF ChangeNode
      <3>3. /\ \A L \in LabelSets : [node[n] EXCEPT !.labels = L] \in Nodes
            /\ [node[n] EXCEPT !.unsched = ~node[n].unsched] \in Nodes
            /\ [node[n] EXCEPT !.taint = ~node[n].taint] \in Nodes
            /\ \A r \in {"true", "false"} : [node[n] EXCEPT !.ready = r] \in Nodes
        BY <3>1, ClusterAssumption DEF Nodes
      <3> QED
        BY <3>2, <3>3
    <2> QED
      BY <2>1, <2>2, <2>3
  <1>4. PICK new \in Nodes \cup {NoNode} : node' = [node EXCEPT ![n] = new]
                                           /\ NodeEvent(n, node[n], new)
    BY <1>3 DEF SetNode
  <1>5. DeliveryType'
    BY <1>4, NodeEventType
  <1> QED
    BY <1>1, <1>2, <1>4, <1>5, WorkKept DEF TypeOK, ClusterType, DeliveryType

\* What happens to a pod.
LEMMA PodsType ==
    ASSUME TypeOK, NEW p \in Pods,
           \/ CreatePod(p) \/ ContainersReady(p) \/ ContainersFail(p) \/ Terminate(p)
           \/ RemovePod(p) \/ PodSeen(p)
    PROVE  TypeOK'
  <1>1. UNCHANGED <<svc, node, slice, queued, missed, faults, pc, rec, group>>
    BY DEF CreatePod, ContainersReady, ContainersFail, Terminate, RemovePod, PodSeen, work,
           delivery
  <1>2. changes' \in 0..MaxChanges
    <2>1. CASE Change
      BY <2>1, ChangeType
    <2>2. CASE UNCHANGED changes
      BY <2>2 DEF TypeOK
    <2> QED
      BY <2>1, <2>2 DEF CreatePod, ContainersReady, ContainersFail, Terminate, RemovePod, PodSeen
  <1>3. \E new \in PodStates \cup {NoPod} : pod' = [pod EXCEPT ![p] = new]
    <2>1. CASE CreatePod(p)
      <3>1. PICK g \in {"none", "closed"} :
              pod' = [pod EXCEPT ![p] = [gate |-> g, containers |-> FALSE, seen |-> FALSE,
                                         terminating |-> FALSE]]
        BY <2>1 DEF CreatePod
      <3>2. [gate |-> g, containers |-> FALSE, seen |-> FALSE, terminating |-> FALSE]
              \in PodStates
        BY <3>1 DEF PodStates
      <3> QED
        BY <3>1, <3>2
    <2>2. CASE RemovePod(p)
      BY <2>2 DEF RemovePod
    <2>3. CASE ContainersReady(p) \/ ContainersFail(p) \/ Terminate(p) \/ PodSeen(p)
      <3>1. pod[p] \in PodStates
        BY <2>3 DEF ContainersReady, ContainersFail, Terminate, PodSeen, TypeOK
      <3>2. /\ \A b \in BOOLEAN : [pod[p] EXCEPT !.containers = b] \in PodStates
            /\ [pod[p] EXCEPT !.terminating = TRUE] \in PodStates
            /\ [pod[p] EXCEPT !.seen = TRUE] \in PodStates
        BY <3>1 DEF PodStates
      <3>3. \/ \E b \in BOOLEAN : pod' = [pod EXCEPT ![p] = [pod[p] EXCEPT !.containers = b]]
            \/ pod' = [pod EXCEPT ![p] = [pod[p] EXCEPT !.terminating = TRUE]]
            \/ pod' = [pod EXCEPT ![p] = [pod[p] EXCEPT !.seen = TRUE]]
        BY <2>3 DEF ContainersReady, ContainersFail, Terminate, PodSeen
      <3> QED
        BY <3>2, <3>3
    <2> QED
      BY <2>1, <2>2, <2>3
  <1>4. pod' \in [Pods -> PodStates \cup {NoPod}]
    BY <1>3 DEF TypeOK
  <1> QED
    BY <1>1, <1>2, <1>4, WorkKept DEF TypeOK, ClusterType

LEMMA SliceType ==
    ASSUME TypeOK, NEW p \in Pods, SliceEvent(p)
    PROVE  TypeOK'
  <1>1. Published(p) \in {"absent", "ready", "notReady", "terminating"}
    BY DEF Published
  <1>2. slice' \in [Pods -> {"absent", "ready", "notReady", "terminating"}]
    BY <1>1 DEF SliceEvent, TypeOK
  <1>3. DeliveryType'
    BY EnqueueType DEF SliceEvent
  <1> QED
    BY <1>2, <1>3, WorkKept DEF SliceEvent, TypeOK, ClusterType, DeliveryType, work

\* Opening gates.
LEMMA OpenGatesType ==
    ASSUME TypeOK, NEW S, OpenGates(S)
    PROVE  pod' \in [Pods -> PodStates \cup {NoPod}]
  <1>1. ASSUME NEW p \in Pods, pod[p] # NoPod
        PROVE  [pod[p] EXCEPT !.gate = "open"] \in PodStates
    <2>1. pod[p] \in PodStates
      BY <1>1 DEF TypeOK
    <2> QED
      BY <2>1 DEF PodStates
  <1> QED
    BY <1>1 DEF OpenGates, TypeOK

\* The steps of the reconcile, the failures and the restart.
LEMMA ReconcileType ==
    ASSUME TypeOK, Work \/ StepFails \/ Restart
    PROVE  TypeOK'
  <1>1. UNCHANGED <<svc, node, slice, changes>>
    BY DEF Work, Build, Apply, UpdateReadinessCondition, FinishReconcile, StepFails, Restart, Quiet
  <1>2. pod' \in [Pods -> PodStates \cup {NoPod}]
    <2>1. pod' = pod \/ \E S : OpenGates(S)
      BY DEF Work, Build, Apply, UpdateReadinessCondition, FinishReconcile, StepFails, Restart
    <2> QED
      BY <2>1, OpenGatesType DEF TypeOK
  <1>3. faults' \in 0..MaxFaults
    <2>1. faults' = faults \/ (faults < MaxFaults /\ faults' = faults + 1)
      BY DEF Work, Build, Apply, UpdateReadinessCondition, FinishReconcile, StepFails, Restart
    <2> QED
      BY <2>1, ClusterAssumption DEF TypeOK
  <1>4. queued' \in BOOLEAN /\ missed' \subseteq NodeNames \cup Pods
    BY DEF TypeOK, Work, Build, Apply, UpdateReadinessCondition, FinishReconcile, StepFails,
           Restart, Finish
  <1>5. pc' \in {"idle", "apply", "gates", "finish"}
    BY DEF TypeOK, Work, Build, Apply, UpdateReadinessCondition, FinishReconcile, StepFails,
           Restart, Finish
  <1>6. /\ rec'.initial \subseteq Pods /\ rec'.potential \in BOOLEAN
        /\ BackendsOK(group') /\ BackendsOK(rec'.backends)
    <2>0. BackendsOK(group) /\ BackendsOK(rec.backends)
      BY DEF TypeOK, BackendsOK
    <2>1. CASE Build
      <3>1. InitialBackends \in SUBSET Pods /\ ContainsPotentialReady \in BOOLEAN
        BY DEF InitialBackends, ContainsPotentialReady
      <3>2. BackendsOK(Wanted)
        BY <3>1, BuildOK DEF TypeOK, Wanted
      <3>3. /\ group' = group /\ rec'.initial = InitialBackends
            /\ rec'.potential = ContainsPotentialReady /\ rec'.backends = Wanted
        BY <2>1 DEF Build
      <3> QED
        BY <2>0, <3>1, <3>2, <3>3
    <2>2. CASE Apply
      BY <2>0, <2>2 DEF Apply, TypeOK
    <2>3. CASE rec' = NoRec /\ group' = group
      BY <2>0, <2>3 DEF NoRec, BackendsOK
    <2>4. CASE rec' = rec /\ group' = group
      BY <2>0, <2>4 DEF TypeOK
    <2> QED
      BY <2>1, <2>2, <2>3, <2>4
         DEF Work, UpdateReadinessCondition, FinishReconcile, StepFails, Restart, Finish
  <1>7. WeightRange' = WeightRange
    BY <1>1 DEF WeightRange
  <1>8. \A B \in {group', rec'.backends} :
          /\ \A b \in B : b \in Backends /\ b[2] \in WeightRange'
          /\ \A b, c \in B : b[1] = c[1] => b = c
    BY <1>6, <1>7 DEF BackendsOK
  <1> QED
    BY <1>1, <1>2, <1>3, <1>4, <1>5, <1>6, <1>8 DEF TypeOK

LEMMA NextType == TypeOK /\ [Next]_vars => TypeOK'
  <1> SUFFICES ASSUME TypeOK, [Next]_vars PROVE TypeOK'
    OBVIOUS
  <1>1. CASE \E n \in NodeNames : AddNode(n) \/ RemoveNode(n) \/ ChangeNode(n)
    BY <1>1, NodesType
  <1>2. CASE \E p \in Pods : \/ CreatePod(p) \/ ContainersReady(p) \/ ContainersFail(p)
                             \/ Terminate(p) \/ RemovePod(p) \/ PodSeen(p)
    BY <1>2, PodsType
  <1>3. CASE \E p \in Pods : SliceEvent(p)
    BY <1>3, SliceType
  <1>4. CASE Work \/ StepFails \/ Restart
    BY <1>4, ReconcileType
  <1>5. CASE UNCHANGED vars
    BY <1>5, WorkKept DEF vars, TypeOK, ClusterType
  <1> QED
    BY <1>1, <1>2, <1>3, <1>4, <1>5 DEF Next, Cluster, Watch

\* Every variable has its type, and every weight that is built, and so every one in the
\* group, is in the range that the service asks for (setWeightBackends).
THEOREM BackendTypes == Spec => []TypeOK
  BY InitType, NextType, PTL DEF Spec

-----------------------------------------------------------------------------
(* Nothing is left to do only when the group is what a reconcile would make *)
(* it.                                                                      *)

\* What the node event handlers presume of a service that has nodes for backends: a
\* change of taints alone raises no event that they look at (nodeSpecChanged), a node
\* with the exclude label is skipped even if it is a virtual one
\* (canNodeSkipEventHandler), and with the feature gate on a service of the local policy
\* is passed over unless it asks for certain nodes (checkServiceAffected).
NodeEventsSuffice(s) ==
    s.policy # "eni" =>
        /\ "taint" \notin NodeChanges
        /\ \A L \in LabelSets : {"exclude", "vk"} \subseteq L => "master" \in L
        /\ FilterServiceOnNodeChange /\ s.policy = "local" => s.backendLabel \/ s.removeUnscheduled

\* Nodes have no taint and one of the label sets.
NodeInv == \A n \in NodeNames : node[n] # NoNode => ~node[n].taint /\ node[n].labels \in LabelSets

\* The pods I are those that the slices and the pods ask for, up to pods that were
\* removed and are still published, and no pod is waited for: one that is published as
\* not ready has been seen, and has its containers ready if it has a gate.  Of a pod
\* whose event was lost nothing is said.
SettledPod(p, I) ==
    /\ slice[p] = "ready" => p \in I
    /\ slice[p] \in {"absent", "terminating"} => p \notin I
    /\ slice[p] = "notReady" /\ pod[p] # NoPod =>
         /\ pod[p].seen
         /\ IF pod[p].gate = "none" THEN p \notin I ELSE p \in I /\ pod[p].containers

Settled(I) == \A p \in Pods \ missed : SettledPod(p, I)

\* Under the local policy without weights, G gives each node as many as it hosts of the
\* pods I, and has no node without one.
Counted(G, I) ==
    svc.policy = "local" /\ svc.weight = NoWeight =>
        \A b \in G : b[1] \in NodeNames =>
            b[2] = Cardinality({p \in I : NodeOf[p] = b[1]}) /\ b[2] > 0

\* No event of a node was lost, and the service gets those that matter.
NodesHeard == NodeEventsSuffice(svc) /\ NodeNames \cap missed = {}

\* G was built from the pods I, and the nodes it was built from have not changed unless
\* that may go unnoticed.
BuiltFrom(G, I) == Counted(G, I) /\ (NodesHeard => G = BuildBackends(I))

\* Unless the service is queued, what a reconcile has built is still right, or it knows
\* that it must come back, and a reconcile that is over has left what is right.
FreshInv ==
    ~queued =>
        /\ pc = "idle" => \E I \in SUBSET Pods : Settled(I) /\ BuiltFrom(group, I)
        /\ pc # "idle" => /\ BuiltFrom(rec.backends, rec.initial)
                          /\ rec.potential \/ Settled(rec.initial)
        /\ pc \in {"gates", "finish"} => group = rec.backends

\* A service with the ENI policy has no nodes for backends.
NodesKnown == NodeEventsSuffice(svc) /\ svc.policy # "eni" => NodeInv

BackendInv == TypeOK /\ FreshInv /\ NodesKnown

\* The nodes that make pods backends of their own.
VkNodes == {n \in GetNodes : IsVK(node[n])}

\* What is built depends on the nodes only through those two sets, and with the ENI
\* policy not at all.
LEMMA BuildKept ==
    ASSUME UNCHANGED svc,
           svc.policy = "eni" \/ (EcsNodes' = EcsNodes /\ VkNodes' = VkNodes)
    PROVE  \A I \in SUBSET Pods : BuildBackends(I)' = BuildBackends(I)
  <1> SUFFICES ASSUME NEW I \in SUBSET Pods PROVE BuildBackends(I)' = BuildBackends(I)
    OBVIOUS
  <1>1. \A local, servers, pods, total :
          SetWeightBackends(local, servers, pods, total)'
            = SetWeightBackends(local, servers, pods, total)
    <2>1. \A local, servers, pods, total, s :
            PodPercent(local, servers, pods, s, total)'
              = PodPercent(local, servers, pods, s, total)
      BY DEF PodPercent
    <2>2. \A local, servers, pods, s :
            PodNumber(local, servers, pods, s)' = PodNumber(local, servers, pods, s)
      BY DEF PodNumber
    <2> QED
      BY <2>1, <2>2 DEF SetWeightBackends
  <1>2. BuildENIBackends(I)' = BuildENIBackends(I)
    BY <1>1 DEF BuildENIBackends, One
  <1>3. CASE svc.policy = "eni"
    BY <1>2, <1>3 DEF BuildBackends
  <1>4. CASE EcsNodes' = EcsNodes /\ VkNodes' = VkNodes
    <2>1. EciPods(I) = {p \in I : NodeOf[p] \in VkNodes}
      BY DEF EciPods, VkNodes
    <2>2. EciPods(I)' = {p \in I : NodeOf[p] \in VkNodes'}
      BY DEF EciPods, VkNodes
    <2>3. EciPods(I)' = EciPods(I)
      BY <1>4, <2>1, <2>2
    <2>4. EcsPods(I)' = EcsPods(I)
      BY <1>4, <2>3 DEF EcsPods
    <2>5. LocalServers(I)' = LocalServers(I)
      BY <2>3, <2>4 DEF LocalServers
    <2>6. PodsBehind(I)' = PodsBehind(I)
      BY <2>3, <2>4, <2>5 DEF PodsBehind
    <2>7. BuildLocalBackends(I)' = BuildLocalBackends(I)
      BY <1>1, <2>3, <2>4, <2>5, <2>6 DEF BuildLocalBackends
    <2>8. BuildClusterBackends(I)' = BuildClusterBackends(I)
      BY <1>1, <1>4, <2>3 DEF BuildClusterBackends, One
    <2> QED
      BY <1>2, <2>7, <2>8 DEF BuildBackends
  <1> QED
    BY <1>3, <1>4

\* Which backends a node gives.
Eligible(nd) == /\ nd # NoNode
                /\ svc.backendLabel => "match" \in nd.labels
                /\ ~NeedExcludeFromLB(nd)

LEMMA SetsOfNodes ==
    /\ EcsNodes = {n \in NodeNames : Eligible(node[n]) /\ ~IsNodeExcludeFromLoadBalancer(node[n])}
    /\ VkNodes = {n \in NodeNames : Eligible(node[n]) /\ IsVK(node[n])}
  BY DEF EcsNodes, VkNodes, GetNodes, Eligible

\* A node that is skipped gives no backends.
LEMMA SkippedNode ==
    ASSUME NEW s, s.policy # "eni", NodeEventsSuffice(s), NEW nd \in Nodes, nd.labels \in LabelSets,
           CanNodeSkipEventHandler(nd), Eligible(nd)
    PROVE  IsNodeExcludeFromLoadBalancer(nd) /\ ~IsVK(nd)
  BY DEF NodeEventsSuffice, CanNodeSkipEventHandler, Eligible, NeedExcludeFromLB, IsMasterNode,
         HasExcludeLabel, IsNodeExcludeFromLoadBalancer, IsVK

\* What a node gives, before and after an event that is not put into the queue.
SameBackends(old, new) ==
    /\ Eligible(old) /\ ~IsNodeExcludeFromLoadBalancer(old)
         <=> Eligible(new) /\ ~IsNodeExcludeFromLoadBalancer(new)
    /\ Eligible(old) /\ IsVK(old) <=> Eligible(new) /\ IsVK(new)

\* One label more or less changes their number.
LEMMA OneLabel ==
    ASSUME NEW K \in SUBSET Labels, NEW L \in SUBSET Labels,
           Cardinality((L \ K) \cup (K \ L)) = 1
    PROVE  Cardinality(K) # Cardinality(L)
  <1>1. IsFiniteSet(Labels)
    <2>1. \A x, y : IsFiniteSet({x} \cup {y})
      BY FS_Singleton, FS_Union
    <2>2. IsFiniteSet(({"exclude"} \cup {"balancer"}) \cup ({"master"} \cup {"vk"}))
      BY <2>1, FS_Union
    <2>3. IsFiniteSet((({"exclude"} \cup {"balancer"}) \cup ({"master"} \cup {"vk"}))
                       \cup {"match"})
      BY <2>2, FS_Singleton, FS_Union
    <2>4. Labels = (({"exclude"} \cup {"balancer"}) \cup ({"master"} \cup {"vk"}))
                     \cup {"match"}
      BY DEF Labels
    <2> QED
      BY <2>3, <2>4
  <1>2. IsFiniteSet(K) /\ IsFiniteSet(L)
    BY <1>1, FS_Subset
  <1>3. IsFiniteSet((L \ K) \cup (K \ L))
    BY <1>1, FS_Subset
  <1>4. PICK l : (L \ K) \cup (K \ L) = {l}
    BY <1>3, FS_Singleton
  <1>5. CASE l \in L
    <2>1. L = K \cup {l} /\ l \notin K
      BY <1>4, <1>5
    <2>2. Cardinality(L) = Cardinality(K) + 1 /\ Cardinality(K) \in Nat
      BY <1>2, <2>1, FS_AddElement, FS_CardinalityType
    <2> QED
      BY <2>2
  <1>6. CASE l \notin L
    <2>1. K = L \cup {l}
      BY <1>4, <1>6
    <2>2. Cardinality(K) = Cardinality(L) + 1 /\ Cardinality(L) \in Nat
      BY <1>2, <1>6, <2>1, FS_AddElement, FS_CardinalityType
    <2> QED
      BY <2>2
  <1> QED
    BY <1>5, <1>6

\* A node as the cluster has it.
KnownNode(nd) == nd \in Nodes /\ ~nd.taint /\ nd.labels \in LabelSets

\* What a change may be: labels change one at a time.
NodeChange(old, new) ==
    \/ old = NoNode \/ new = NoNode
    \/ Cardinality((new.labels \ old.labels) \cup (old.labels \ new.labels)) = 1
    \/ old.unsched # new.unsched
    \/ old.labels = new.labels /\ old.unsched = new.unsched /\ old.ready # new.ready

\* An event of a node that puts nothing into the queue changes no backend.
LEMMA EventKept ==
    ASSUME svc.policy # "eni", NodeEventsSuffice(svc), svc \in Services, queued \in BOOLEAN,
           NEW n, NEW old, NEW new,
           old = NoNode \/ KnownNode(old), new = NoNode \/ KnownNode(new),
           NodeChange(old, new), NodeEvent(n, old, new), ~queued'
    PROVE  n \in missed' \/ SameBackends(old, new)
  <1> SUFFICES ASSUME n \notin missed' PROVE SameBackends(old, new)
    OBVIOUS
  <1>2. ~EnqueueManagedNode(n)
    <2>1. svc.policy \in {"local", "cluster"}
      BY ServiceAssumption
    <2>2. ~FilterServiceOnNodeChange \/ CheckServiceAffected
      BY <2>1 DEF NodeEventsSuffice, CheckServiceAffected
    <2>3. EnqueueManagedNode(n) => Enqueue(n)
      BY <2>2 DEF EnqueueManagedNode
    <2> QED
      BY <2>3 DEF Enqueue
  <1>3. ASSUME NEW nd, KnownNode(nd), CanNodeSkipEventHandler(nd), Eligible(nd)
        PROVE  IsNodeExcludeFromLoadBalancer(nd) /\ ~IsVK(nd)
    BY <1>3, SkippedNode DEF KnownNode
  <1>4. ~Eligible(NoNode)
    BY DEF Eligible
  <1>5. CASE old = NoNode /\ new = NoNode
    BY <1>5 DEF SameBackends
  <1>6. CASE old = NoNode /\ new # NoNode
    <2>1. CanNodeSkipEventHandler(new)
      BY <1>2, <1>6 DEF NodeEvent
    <2> QED
      BY <1>3, <1>4, <1>6, <2>1 DEF SameBackends
  <1>7. CASE old # NoNode /\ new = NoNode
    <2>1. CanNodeSkipEventHandler(old)
      BY <1>2, <1>7 DEF NodeEvent
    <2> QED
      BY <1>3, <1>4, <1>7, <2>1 DEF SameBackends
  <1>8. CASE old # NoNode /\ new # NoNode
    <2>1. \/ CanNodeSkipEventHandler(old) /\ CanNodeSkipEventHandler(new)
          \/ ~NodeSpecChanged(old, new)
      BY <1>2, <1>8 DEF NodeEvent
    <2>2. CASE CanNodeSkipEventHandler(old) /\ CanNodeSkipEventHandler(new)
      BY <1>3, <1>8, <2>2 DEF SameBackends
    <2>3. CASE ~NodeSpecChanged(old, new)
      <3>1. KnownNode(old) /\ KnownNode(new)
        BY <1>8
      <3>2. Cardinality((new.labels \ old.labels) \cup (old.labels \ new.labels)) # 1
        BY <2>3, <3>1, OneLabel DEF KnownNode, Nodes, NodeSpecChanged, NodeLabelsChanged
      <3>3. old.labels = new.labels /\ old.unsched = new.unsched /\ old.ready # new.ready
        BY <1>8, <2>3, <3>2 DEF NodeChange, NodeSpecChanged
      <3>4. (old.ready = "true") <=> (new.ready = "true")
        BY <2>3 DEF NodeSpecChanged, NodeReadyChanged
      <3>5. NeedExcludeFromLB(old) <=> NeedExcludeFromLB(new)
        BY <3>1, <3>3, <3>4 DEF KnownNode, NeedExcludeFromLB, IsMasterNode, IsVK
      <3>6. Eligible(old) <=> Eligible(new)
        BY <1>8, <3>3, <3>5 DEF Eligible
      <3> QED
        BY <3>3, <3>6 DEF SameBackends, IsNodeExcludeFromLoadBalancer, HasExcludeLabel, IsVK
    <2> QED
      BY <2>1, <2>2, <2>3
  <1> QED
    BY <1>5, <1>6, <1>7, <1>8

\* The nodes change.
LEMMA NodesFresh ==
    ASSUME svc.policy # "eni", NodeEventsSuffice(svc), TypeOK, NodeInv,
           NEW n \in NodeNames, AddNode(n) \/ RemoveNode(n) \/ ChangeNode(n)
    PROVE  /\ NodeInv'
           /\ ~queued' /\ n \notin missed' => EcsNodes' = EcsNodes /\ VkNodes' = VkNodes
  <1> DEFINE old == node[n]
  <1>1. old = NoNode \/ KnownNode(old)
    BY DEF TypeOK, NodeInv, KnownNode
  <1>2. PICK new : /\ new = NoNode \/ KnownNode(new)
                   /\ NodeChange(old, new)
                   /\ node' = [node EXCEPT ![n] = new] /\ NodeEvent(n, old, new)
    <2>1. CASE AddNode(n)
      <3>1. PICK L \in LabelSets, r \in {"none", "true"} :
              SetNode(n, [labels |-> L, unsched |-> FALSE, ready |-> r, taint |-> FALSE])
        BY <2>1 DEF AddNode
      <3> DEFINE new == [labels |-> L, unsched |-> FALSE, ready |-> r, taint |-> FALSE]
      <3>2. KnownNode(new)
        BY ClusterAssumption, <3>1 DEF KnownNode, Nodes
      <3>3. NodeChange(old, new)
        BY <2>1 DEF AddNode, NodeChange
      <3> QED
        BY <3>1, <3>2, <3>3 DEF SetNode
    <2>2. CASE RemoveNode(n)
      BY <2>2 DEF RemoveNode, SetNode, NodeChange
    <2>3. CASE ChangeNode(n)
      <3>1. KnownNode(old)
        BY <1>1, <2>3 DEF ChangeNode
      <3>2. CASE \E L \in LabelSets :
                   /\ Cardinality((L \ old.labels) \cup (old.labels \ L)) = 1
                   /\ SetNode(n, [old EXCEPT !.labels = L])
        <4>1. PICK L \in LabelSets :
                   /\ Cardinality((L \ old.labels) \cup (old.labels \ L)) = 1
                   /\ SetNode(n, [old EXCEPT !.labels = L])
          BY <3>2
        <4>2. KnownNode([old EXCEPT !.labels = L]) /\ [old EXCEPT !.labels = L].labels = L
          BY <3>1, ClusterAssumption DEF KnownNode, Nodes
        <4> QED
          BY <4>1, <4>2 DEF SetNode, NodeChange
      <3>3. CASE SetNode(n, [old EXCEPT !.unsched = ~old.unsched])
        <4>1. /\ KnownNode([old EXCEPT !.unsched = ~old.unsched])
              /\ [old EXCEPT !.unsched = ~old.unsched].unsched = ~old.unsched
          BY <3>1 DEF KnownNode, Nodes
        <4>2. old.unsched \in BOOLEAN
          BY <3>1 DEF KnownNode, Nodes
        <4> QED
          BY <3>3, <4>1, <4>2 DEF SetNode, NodeChange
      <3>4. CASE \E r \in {"true", "false"} \ {old.ready} : SetNode(n, [old EXCEPT !.ready = r])
        <4>1. PICK r \in {"true", "false"} \ {old.ready} : SetNode(n, [old EXCEPT !.ready = r])
          BY <3>4
        <4> DEFINE new == [old EXCEPT !.ready = r]
        <4>2. KnownNode(new) /\ new.ready # old.ready
              /\ new.labels = old.labels /\ new.unsched = old.unsched
          BY <3>1, <4>1 DEF KnownNode, Nodes
        <4>3. NodeChange(old, new)
          BY <4>2 DEF NodeChange
        <4> QED
          BY <4>1, <4>2, <4>3 DEF SetNode
      <3> QED
        BY <2>3, <3>2, <3>3, <3>4 DEF ChangeNode, NodeEventsSuffice
    <2> QED
      BY <2>1, <2>2, <2>3
  <1>3. node'[n] = new /\ \A m \in NodeNames : m # n => node'[m] = node[m]
    BY <1>2 DEF TypeOK
  <1>4. NodeInv'
    BY <1>2, <1>3 DEF NodeInv, KnownNode
  <1>5. svc' = svc
    BY DEF AddNode, RemoveNode, ChangeNode
  <1>6. ASSUME ~queued', n \notin missed'
        PROVE  EcsNodes' = EcsNodes /\ VkNodes' = VkNodes
    <2>1. SameBackends(old, new)
      BY <1>1, <1>2, <1>6, EventKept DEF TypeOK
    <2>2. ASSUME SameBackends(old, new) PROVE EcsNodes' = EcsNodes /\ VkNodes' = VkNodes
      <3>1. \A m \in NodeNames : SameBackends(node[m], node'[m])
        BY <1>3, <2>2 DEF SameBackends
      <3>2. /\ EcsNodes' = {m \in NodeNames :
                              Eligible(node'[m]) /\ ~IsNodeExcludeFromLoadBalancer(node'[m])}
            /\ VkNodes' = {m \in NodeNames : Eligible(node'[m]) /\ IsVK(node'[m])}
        BY <1>5 DEF EcsNodes, VkNodes, GetNodes, Eligible, NeedExcludeFromLB
      <3> QED
        BY <3>1, <3>2, SetsOfNodes DEF SameBackends
    <2> QED
      BY <2>1, <2>2
  <1> QED
    BY <1>4, <1>6

\* An event of a node never takes the service from the queue, and what was lost stays so.
LEMMA NodesQueue ==
    ASSUME queued \in BOOLEAN, NEW n \in NodeNames, AddNode(n) \/ RemoveNode(n) \/ ChangeNode(n)
    PROVE  /\ ~queued' => ~queued
           /\ missed \subseteq missed' /\ missed' \subseteq missed \cup {n}
  <1>1. \E old, new : NodeEvent(n, old, new)
    BY DEF AddNode, RemoveNode, ChangeNode, SetNode
  <1>2. Enqueue(n) \/ UNCHANGED delivery
    BY <1>1 DEF NodeEvent, EnqueueManagedNode
  <1> QED
    BY <1>2 DEF Enqueue, delivery

\* What a step may do to a pod that is published as not ready without an event: it goes
\* away, is seen, gets its containers ready or its gate opened.
PodKept(p) ==
    \/ pod'[p] = NoPod
    \/ slice[p] = "absent"
    \/ /\ pod[p] # NoPod
       /\ pod[p].seen => pod'[p].seen
       /\ pod'[p].gate = "none" <=> pod[p].gate = "none"
       /\ pod[p].containers /\ slice[p] = "notReady" => pod'[p].containers

LEMMA SettledKept ==
    ASSUME slice' = slice, missed' = missed, \A p \in Pods : PodKept(p)
    PROVE  \A I \in SUBSET Pods : Settled(I) => Settled(I)'
  BY DEF PodKept, Settled, SettledPod

\* What happens to the pods leaves what was built right.
LEMMA PodsFresh ==
    ASSUME TypeOK, NEW p \in Pods,
           \/ CreatePod(p) \/ ContainersReady(p) \/ ContainersFail(p) \/ Terminate(p)
           \/ RemovePod(p) \/ PodSeen(p)
    PROVE  \A I \in SUBSET Pods : Settled(I) => Settled(I)'
  <1>1. slice' = slice /\ missed' = missed
    BY DEF CreatePod, ContainersReady, ContainersFail, Terminate, RemovePod, PodSeen, delivery
  <1>2. ASSUME NEW q \in Pods, q # p PROVE PodKept(q)
    <2>1. \E x : pod' = [pod EXCEPT ![p] = x]
      BY DEF CreatePod, ContainersReady, ContainersFail, Terminate, RemovePod, PodSeen
    <2>2. pod'[q] = pod[q]
      BY <1>2, <2>1 DEF TypeOK
    <2> QED
      BY <2>2 DEF PodKept
  <1>3. PodKept(p)
    <2>1. CASE CreatePod(p)
      BY <2>1 DEF CreatePod, PodKept
    <2>2. CASE RemovePod(p)
      BY <2>2 DEF RemovePod, PodKept, TypeOK
    <2>3. CASE ContainersReady(p) \/ ContainersFail(p) \/ Terminate(p) \/ PodSeen(p)
      <3>1. pod[p] \in PodStates /\ pod[p] # NoPod
        BY <2>3 DEF ContainersReady, ContainersFail, Terminate, PodSeen, TypeOK
      <3>2. CASE ContainersReady(p)
        <4>1. pod'[p] = [pod[p] EXCEPT !.containers = TRUE]
          BY <3>2 DEF ContainersReady, TypeOK
        <4> QED
          BY <3>1, <4>1 DEF PodKept, PodStates
      <3>3. CASE ContainersFail(p)
        <4>1. pod'[p] = [pod[p] EXCEPT !.containers = FALSE] /\ slice[p] = "ready"
          BY <3>3 DEF ContainersFail, TypeOK
        <4> QED
          BY <3>1, <4>1 DEF PodKept, PodStates
      <3>4. CASE Terminate(p)
        <4>1. pod'[p] = [pod[p] EXCEPT !.terminating = TRUE]
          BY <3>4 DEF Terminate, TypeOK
        <4> QED
          BY <3>1, <4>1 DEF PodKept, PodStates
      <3>5. CASE PodSeen(p)
        <4>1. pod'[p] = [pod[p] EXCEPT !.seen = TRUE]
          BY <3>5 DEF PodSeen, TypeOK
        <4> QED
          BY <3>1, <4>1 DEF PodKept, PodStates
      <3> QED
        BY <2>3, <3>2, <3>3, <3>4, <3>5
    <2> QED
      BY <2>1, <2>2, <2>3
  <1> QED
    BY <1>1, <1>2, <1>3, SettledKept

\* So does the opening of gates.
LEMMA OpenGatesFresh ==
    ASSUME TypeOK, slice' = slice, missed' = missed, NEW S, OpenGates(S)
    PROVE  \A I \in SUBSET Pods : Settled(I) => Settled(I)'
  <1> SUFFICES ASSUME NEW p \in Pods PROVE PodKept(p)
    BY SettledKept
  <1>1. CASE pod'[p] = pod[p]
    BY <1>1 DEF PodKept
  <1>2. CASE pod[p] # NoPod /\ pod[p].gate = "closed" /\ pod'[p] = [pod[p] EXCEPT !.gate = "open"]
    <2>1. pod[p] \in PodStates
      BY <1>2 DEF TypeOK
    <2> QED
      BY <1>2, <2>1 DEF PodKept, PodStates
  <1> QED
    BY <1>1, <1>2 DEF OpenGates

\* Under the local policy the weight of a node is the number of pods behind it.
LEMMA LocalCount ==
    ASSUME svc.policy = "local", svc.weight = NoWeight,
           NEW I \in SUBSET Pods, NEW b \in BuildBackends(I), b[1] \in NodeNames
    PROVE  b[2] = Cardinality({p \in I : NodeOf[p] = b[1]}) /\ b[2] > 0
  <1>1. PICK s \in LocalServers(I) : b = <<s, PodsBehind(I)[s]>>
    BY DEF BuildBackends, BuildLocalBackends, SetWeightBackends, PodNumber
  <1>2. s \in NodeNames /\ s \notin EciPods(I)
    BY <1>1, ServersFacts, ClusterAssumption
  <1>3. PICK q \in EcsPods(I) : NodeOf[q] = s
    BY <1>1, <1>2 DEF LocalServers
  <1>4. s \in EcsNodes /\ q \in I /\ q \notin EciPods(I)
    BY <1>3 DEF EcsPods
  <1>5. s \in GetNodes /\ ~IsVK(node[s])
    BY <1>3, <1>4 DEF EciPods, EcsNodes
  <1>6. {p \in EcsPods(I) : NodeOf[p] = s} = {p \in I : NodeOf[p] = s}
    BY <1>4, <1>5 DEF EcsPods, EciPods
  <1>7. PodsBehind(I)[s] = Cardinality({p \in I : NodeOf[p] = s})
    BY <1>1, <1>2, <1>6 DEF PodsBehind
  <1>8. Cardinality({p \in I : NodeOf[p] = s}) > 0
    <2> DEFINE behind == {p \in I : NodeOf[p] = s}
    <2>1. behind \in SUBSET (NodeNames \cup Pods) /\ behind # {}
      BY <1>3, <1>4
    <2> HIDE DEF behind
    <2>2. Cardinality(behind) > 0
      BY <2>1, Count
    <2> QED
      BY <2>2 DEF behind
  <1> QED
    BY <1>1, <1>7, <1>8

\* What was built stays so while the service is the same, and the nodes where they count.
LEMMA BuiltKept ==
    ASSUME UNCHANGED svc, NodeNames \cap missed \subseteq missed',
           NodesHeard' => \A I \in SUBSET Pods : BuildBackends(I)' = BuildBackends(I)
    PROVE  \A G : \A I \in SUBSET Pods : BuiltFrom(G, I) => BuiltFrom(G, I)'
  <1>1. \A G, I : Counted(G, I)' <=> Counted(G, I)
    BY DEF Counted
  <1>2. NodesHeard' => NodesHeard
    BY DEF NodesHeard, NodeEventsSuffice
  <1> QED
    BY <1>1, <1>2 DEF BuiltFrom

\* A step beside the reconcile that changes neither what is built nor what is settled.
LEMMA BesideFresh ==
    ASSUME FreshInv, TypeOK, UNCHANGED svc, ~queued' => ~queued, UNCHANGED <<pc, rec, group>>,
           missed \subseteq missed',
           ~queued' /\ NodesHeard' =>
               \A I \in SUBSET Pods : BuildBackends(I)' = BuildBackends(I),
           ~queued' => \A I \in SUBSET Pods : Settled(I) => Settled(I)'
    PROVE  FreshInv'
  <1> SUFFICES ASSUME ~queued' PROVE FreshInv'
    BY DEF FreshInv
  <1>1. \A G : \A I \in SUBSET Pods : BuiltFrom(G, I) => BuiltFrom(G, I)'
    BY BuiltKept
  <1>2. CASE pc = "idle"
    <2>1. PICK I \in SUBSET Pods : Settled(I) /\ BuiltFrom(group, I)
      BY <1>2 DEF FreshInv
    <2>2. Settled(I)' /\ BuiltFrom(group, I)'
      BY <1>1, <2>1
    <2> QED
      BY <1>2, <2>2 DEF FreshInv
  <1>3. CASE pc # "idle"
    <2>1. rec.initial \in SUBSET Pods
      BY DEF TypeOK
    <2>2. BuiltFrom(rec.backends, rec.initial)'
      BY <1>1, <1>3, <2>1 DEF FreshInv
    <2>3. Settled(rec.initial) => Settled(rec.initial)'
      BY <2>1
    <2> QED
      BY <1>3, <2>2, <2>3 DEF FreshInv
  <1> QED
    BY <1>2, <1>3

\* A reconcile that knows of no pod to wait for has built what is settled.
LEMMA BuildSettled ==
    ASSUME TypeOK, ~ContainsPotentialReady
    PROVE  \A p \in Pods : SettledPod(p, InitialBackends)
  <1> SUFFICES ASSUME NEW p \in Pods
               PROVE  /\ slice[p] = "ready" => p \in InitialBackends
                      /\ slice[p] \in {"absent", "terminating"} => p \notin InitialBackends
                      /\ slice[p] = "notReady" /\ pod[p] # NoPod =>
                           /\ pod[p].seen
                           /\ IF pod[p].gate = "none" THEN p \notin InitialBackends
                              ELSE p \in InitialBackends /\ pod[p].containers
    BY DEF SettledPod
  <1>1. /\ slice[p] = "ready" => p \in InitialBackends
        /\ slice[p] \in {"absent", "terminating"} => p \notin InitialBackends
    BY DEF InitialBackends
  <1>2. ASSUME slice[p] = "notReady", pod[p] # NoPod
        PROVE  /\ pod[p].seen
               /\ pod[p].gate = "none" => p \notin InitialBackends
               /\ pod[p].gate # "none" => p \in InitialBackends /\ pod[p].containers
    <2>1. pod[p].seen /\ (Gated(p) => pod[p].containers)
      BY <1>2 DEF ContainsPotentialReady
    <2>2. Gated(p) <=> pod[p].gate # "none"
      BY <1>2, <2>1 DEF Gated
    <2>3. p \in InitialBackends <=> Gated(p) /\ pod[p].containers
      BY <1>2 DEF InitialBackends
    <2> QED
      BY <2>1, <2>2, <2>3
  <1> QED
    BY <1>1, <1>2

\* The steps of the reconcile, the failures and the restart.
LEMMA ReconcileFresh ==
    ASSUME TypeOK, FreshInv, Work \/ StepFails \/ Restart
    PROVE  FreshInv'
  <1> SUFFICES ASSUME ~queued' PROVE FreshInv'
    BY DEF FreshInv
  <1>1. UNCHANGED <<svc, node, slice>>
    BY DEF Work, Build, Apply, UpdateReadinessCondition, FinishReconcile, StepFails, Restart, Quiet
  <1>0. \A I \in SUBSET Pods : BuildBackends(I)' = BuildBackends(I)
    <2>1. EcsNodes' = EcsNodes /\ VkNodes' = VkNodes
      BY <1>1 DEF EcsNodes, VkNodes, GetNodes, NeedExcludeFromLB
    <2> QED
      BY <1>1, <2>1, BuildKept
  <1>2. ASSUME missed' = missed
        PROVE  \A G : \A I \in SUBSET Pods : BuiltFrom(G, I) => BuiltFrom(G, I)'
    BY <1>0, <1>1, <1>2, BuiltKept
  <1>3. ASSUME pod' = pod, missed' = missed
        PROVE  \A I \in SUBSET Pods : Settled(I) => Settled(I)'
    BY <1>1, <1>3 DEF Settled, SettledPod
  <1>4. rec.initial \in SUBSET Pods
    BY DEF TypeOK
  <1>5. CASE Build
    <2>1. /\ pc' = "apply" /\ pod' = pod /\ missed' = {} /\ rec'.backends = Wanted
          /\ rec'.initial = InitialBackends /\ rec'.potential = ContainsPotentialReady
      BY <1>5 DEF Build
    <2>2. InitialBackends \in SUBSET Pods
      BY DEF InitialBackends
    <2>3. Counted(rec'.backends, rec'.initial)
      BY <2>1, <2>2, LocalCount DEF Wanted, Counted
    <2>4. Counted(rec.backends, rec.initial)'
      BY <1>1, <2>3 DEF Counted
    <2>5. rec'.backends = BuildBackends(rec.initial)'
      BY <1>0, <2>1, <2>2 DEF Wanted
    <2>6. ~rec'.potential => \A p \in Pods : SettledPod(p, rec'.initial)
      BY <2>1, BuildSettled
    <2>7. ~rec'.potential => Settled(rec.initial)'
      BY <1>1, <2>1, <2>6 DEF Settled, SettledPod
    <2> QED
      BY <2>1, <2>4, <2>5, <2>7 DEF FreshInv, BuiltFrom
  <1>6. CASE Apply
    <2>1. /\ pc = "apply" /\ pc' = "gates" /\ rec' = rec /\ pod' = pod /\ group' = rec.backends
          /\ ~queued /\ missed' = missed
      BY <1>6 DEF Apply
    <2>2. BuiltFrom(rec.backends, rec.initial) /\ (rec.potential \/ Settled(rec.initial))
      BY <2>1 DEF FreshInv
    <2>3. BuiltFrom(rec.backends, rec.initial)'
      BY <1>2, <1>4, <2>1, <2>2
    <2>4. Settled(rec.initial) => Settled(rec.initial)'
      BY <1>3, <1>4, <2>1
    <2> QED
      BY <2>1, <2>2, <2>3, <2>4 DEF FreshInv
  <1>7. CASE UpdateReadinessCondition
    <2>1. \A I \in SUBSET Pods : Settled(I) => Settled(I)'
      BY <1>1, <1>7, OpenGatesFresh DEF UpdateReadinessCondition
    <2>2. /\ pc = "gates" /\ pc' = "finish" /\ rec' = rec /\ group' = group /\ ~queued
          /\ missed' = missed
      BY <1>7 DEF UpdateReadinessCondition, Finish
    <2>3. /\ BuiltFrom(rec.backends, rec.initial)
          /\ rec.potential \/ Settled(rec.initial)
          /\ group = rec.backends
      BY <2>2 DEF FreshInv
    <2>4. BuiltFrom(rec.backends, rec.initial)'
      BY <1>2, <1>4, <2>2, <2>3
    <2>5. Settled(rec.initial) => Settled(rec.initial)'
      BY <1>4, <2>1, <2>2
    <2> QED
      BY <2>2, <2>3, <2>4, <2>5 DEF FreshInv
  <1>8. CASE FinishReconcile
    <2>1. pc = "finish" /\ pc' = "idle" /\ ~queued /\ ~rec.potential /\ group' = group /\ pod' = pod
          /\ missed' = missed
      BY <1>8 DEF FinishReconcile, Finish
    <2>2. BuiltFrom(group, rec.initial) /\ Settled(rec.initial)
      BY <2>1 DEF FreshInv
    <2>3. PICK I \in SUBSET Pods : BuiltFrom(group, I) /\ Settled(I)
      BY <1>4, <2>2
    <2>4. BuiltFrom(group, I)' /\ Settled(I)'
      BY <1>2, <1>3, <2>1, <2>3
    <2> QED
      BY <2>1, <2>4 DEF FreshInv
  <1>9. CASE StepFails \/ Restart
    BY <1>9 DEF StepFails, Restart, Finish
  <1> QED
    BY <1>5, <1>6, <1>7, <1>8, <1>9 DEF Work

LEMMA InitFresh == Init => FreshInv /\ NodesKnown
  BY DEF Init, NodesKnown, NodeInv, FreshInv

LEMMA NextFresh ==
    ASSUME BackendInv, [Next]_vars
    PROVE  FreshInv' /\ NodesKnown'
  <1> USE DEF BackendInv
  <1> DEFINE SameNodes == UNCHANGED <<svc, node>>
  <1>1. ASSUME SameNodes
        PROVE  /\ NodesKnown'
               /\ \A I \in SUBSET Pods : BuildBackends(I)' = BuildBackends(I)
    <2>1. EcsNodes' = EcsNodes /\ VkNodes' = VkNodes
      BY <1>1 DEF EcsNodes, VkNodes, GetNodes, NeedExcludeFromLB
    <2> QED
      BY <1>1, <2>1, BuildKept DEF NodesKnown, NodeInv, NodeEventsSuffice
  <1>2. CASE \E n \in NodeNames : AddNode(n) \/ RemoveNode(n) \/ ChangeNode(n)
    <2>1. UNCHANGED <<svc, pod, slice, pc, rec, group>>
      BY <1>2 DEF AddNode, RemoveNode, ChangeNode, work
    <2>2. /\ ~queued' => ~queued
          /\ missed \subseteq missed' /\ missed' \subseteq missed \cup NodeNames
      BY <1>2, NodesQueue DEF TypeOK
    <2>3. ASSUME NodeEventsSuffice(svc), svc.policy # "eni"
          PROVE  /\ NodeInv'
                 /\ ~queued' /\ NodeNames \cap missed' = {} =>
                      EcsNodes' = EcsNodes /\ VkNodes' = VkNodes
      BY <1>2, <2>3, NodesFresh DEF NodesKnown
    <2>4. NodesKnown'
      BY <2>1, <2>3 DEF NodesKnown, NodeEventsSuffice
    <2>5. \A I \in SUBSET Pods : Settled(I) => Settled(I)'
      BY <2>1, <2>2 DEF Settled, SettledPod
    <2>6. ~queued' /\ NodesHeard' =>
            \A I \in SUBSET Pods : BuildBackends(I)' = BuildBackends(I)
      BY <2>1, <2>3, BuildKept DEF NodesHeard, NodeEventsSuffice
    <2> QED
      BY <2>1, <2>2, <2>4, <2>5, <2>6, BesideFresh
  <1>3. CASE \E p \in Pods : \/ CreatePod(p) \/ ContainersReady(p) \/ ContainersFail(p)
                             \/ Terminate(p) \/ RemovePod(p) \/ PodSeen(p)
    <2>1. UNCHANGED <<svc, node, queued, missed, pc, rec, group>>
      BY <1>3 DEF CreatePod, ContainersReady, ContainersFail, Terminate, RemovePod, PodSeen,
                  work, delivery
    <2>2. \A I \in SUBSET Pods : Settled(I) => Settled(I)'
      BY <1>3, PodsFresh
    <2> QED
      BY <1>1, <2>1, <2>2, BesideFresh
  <1>4. CASE \E p \in Pods : SliceEvent(p)
    <2>1. PICK p \in Pods : SliceEvent(p)
      BY <1>4
    <2>2. UNCHANGED <<svc, node, pod, pc, rec, group>>
          /\ slice' = [slice EXCEPT ![p] = Published(p)]
      BY <2>1 DEF SliceEvent, work
    <2>3. CASE queued'
      BY <1>1, <2>2, <2>3 DEF FreshInv
    <2>4. CASE ~queued'
      <3>1. ~queued /\ missed' = missed \cup {p}
        BY <2>1, <2>4 DEF SliceEvent, Enqueue
      <3>2. \A I \in SUBSET Pods : Settled(I) => Settled(I)'
        BY <2>2, <3>1 DEF Settled, SettledPod, TypeOK
      <3> QED
        BY <1>1, <2>2, <3>1, <3>2, BesideFresh
    <2> QED
      BY <2>3, <2>4
  <1>5. CASE Work \/ StepFails \/ Restart
    <2>1. UNCHANGED <<svc, node>>
      BY <1>5 DEF Work, Build, Apply, UpdateReadinessCondition, FinishReconcile, StepFails,
                  Restart, Quiet
    <2> QED
      BY <1>1, <1>5, <2>1, ReconcileFresh
  <1>6. CASE UNCHANGED vars
    <2>1. UNCHANGED <<svc, node, pod, slice, queued, missed, pc, rec, group>>
      BY <1>6 DEF vars
    <2>2. \A I \in SUBSET Pods : Settled(I) => Settled(I)'
      BY <2>1 DEF Settled, SettledPod
    <2> QED
      BY <1>1, <2>1, <2>2, BesideFresh
  <1> QED
    BY <1>2, <1>3, <1>4, <1>5, <1>6 DEF Next, Cluster, Watch

\* The event handlers let no change pass that the building of the backends depends on, and
\* every pod that changes without an event is looked at again.  An event whose handler fails
\* to read the services is lost, and takes away the claim about its own node or pod only,
\* until the next reconcile begins.
THEOREM BackendInvariant == Spec => []BackendInv
  <1>1. Init => BackendInv
    BY InitType, InitFresh DEF BackendInv
  <1>2. BackendInv /\ [Next]_vars => BackendInv'
    BY NextType, NextFresh DEF BackendInv
  <1> QED
    BY <1>1, <1>2, PTL DEF Spec

\* Once no slice is out of date, what is settled is what a reconcile would build from,
\* for every pod whose events arrived.
LEMMA RestIsSettled ==
    ASSUME TypeOK, \A p \in Pods : slice[p] = Published(p), NEW I \in SUBSET Pods, Settled(I)
    PROVE  \A p \in Pods \ missed : p \in I <=> p \in InitialBackends
  <1> SUFFICES ASSUME NEW p \in Pods \ missed PROVE p \in I <=> p \in InitialBackends
    OBVIOUS
  <1>0. SettledPod(p, I)
    BY DEF Settled
  <1>1. CASE slice[p] # "notReady"
    BY <1>0, <1>1 DEF TypeOK, SettledPod, InitialBackends
  <1>2. CASE slice[p] = "notReady"
    <2>1. pod[p] # NoPod
      BY <1>2 DEF Published
    <2>2. /\ pod[p].seen
          /\ IF pod[p].gate = "none" THEN p \notin I ELSE p \in I /\ pod[p].containers
      BY <1>0, <1>2, <2>1 DEF SettledPod
    <2>3. p \in InitialBackends <=> Gated(p) /\ pod[p].containers
      BY <1>2 DEF InitialBackends
    <2>4. Gated(p) <=> pod[p].gate # "none"
      BY <2>1, <2>2 DEF Gated
    <2> QED
      BY <2>2, <2>3, <2>4
  <1> QED
    BY <1>1, <1>2

LEMMA RestIsBuilt ==
    ASSUME BackendInv, AtRest
    PROVE  \E I \in SUBSET Pods : /\ BuiltFrom(group, I)
                                 /\ \A p \in Pods \ missed : p \in I <=> p \in InitialBackends
  <1>1. PICK I \in SUBSET Pods : Settled(I) /\ BuiltFrom(group, I)
    BY DEF BackendInv, FreshInv, AtRest
  <1>2. \A p \in Pods \ missed : p \in I <=> p \in InitialBackends
    BY <1>1, RestIsSettled DEF BackendInv, AtRest
  <1> QED
    BY <1>1, <1>2

\* When the controller is at rest and no event was lost since the last reconcile began, the
\* group is what a reconcile would make of it: no change of a node, pod or endpoint slips
\* through between the event filters, the reads of a reconcile and its failures
\* (nodeSpecChanged, ContainsPotentialReadyEndpoints).
THEOREM QuietIsFresh == Spec => [](NodeEventsSuffice(svc) => QuietMeansFresh)
  <1>1. BackendInv /\ NodeEventsSuffice(svc) => QuietMeansFresh
    <2> SUFFICES ASSUME BackendInv, NodeEventsSuffice(svc), AtRest, missed = {}
                 PROVE  group = Wanted
      BY DEF QuietMeansFresh
    <2>1. PICK I \in SUBSET Pods : /\ BuiltFrom(group, I)
                                  /\ \A p \in Pods \ missed : p \in I <=> p \in InitialBackends
      BY RestIsBuilt
    <2>2. I = InitialBackends
      BY <2>1 DEF InitialBackends
    <2> QED
      BY <2>1, <2>2 DEF BuiltFrom, NodesHeard, Wanted
  <1> QED
    BY <1>1, BackendInvariant, PTL

\* Traffic goes to a node in proportion to the pods it hosts, and to no node without
\* one, whatever the order of pods, nodes and reconciles, whichever events of nodes
\* the handlers drop, and whichever events are lost of pods on other nodes
\* (podNumberAlgorithm).
THEOREM LocalWeightsCount == Spec => []LocalWeights
  <1>1. BackendInv => LocalWeights
    <2> SUFFICES ASSUME BackendInv, AtRest, svc.policy = "local", svc.weight = NoWeight,
                        NEW b \in group, b[1] \in NodeNames,
                        \A p \in Pods \cap missed : NodeOf[p] # b[1]
                 PROVE  b[2] = Cardinality({p \in InitialBackends : NodeOf[p] = b[1]}) /\ b[2] > 0
      BY DEF LocalWeights
    <2>1. PICK I \in SUBSET Pods : /\ BuiltFrom(group, I)
                                  /\ \A p \in Pods \ missed : p \in I <=> p \in InitialBackends
      BY RestIsBuilt
    <2>2. {p \in I : NodeOf[p] = b[1]} = {p \in InitialBackends : NodeOf[p] = b[1]}
      BY <2>1 DEF InitialBackends
    <2> QED
      BY <2>1, <2>2 DEF BuiltFrom, Counted
  <1> QED
    BY <1>1, BackendInvariant, PTL
=============================================================================
