# A TLA+ model of the Alibaba Cloud controller manager

The cloud controller manager keeps resources of Alibaba Cloud in step with a
Kubernetes cluster: load balancer instances for Services, routes for the pod
networks of nodes, ALB instances for Ingresses, records in private DNS zones.
Every part is a controller of the same kind: events of a watch are filtered and
put into a work queue, a worker reads objects, from the API server or from a cache
that may be behind, compares them with the cloud and makes a series of calls, any of
which may fail or be cut off by the death of the process. What is hard to test is the order in
which these things meet. The modules here model that order exactly and abstract
the data (ports, certificates, bandwidth, names) to the few values that the
properties tell apart.

## 1. The system

| component | state it keeps | operations | module |
|---|---|---|---|
| Service object (API server, watch) | user-written part, finalizer, hash label, status | edits, deletion, patches with and without resource version | `ServiceObject`, `ClbService` |
| CLB service controller (`service/clbv1`) | work queue, reconcile in progress | event filters, `reconcile`, finalizers, `Apply`, labels and status | `ClbService` |
| CLB instances (SLB API) | name, owner tag, attributes, listeners, vserver groups | create with token, tag, find, update, delete | `ClbService` |
| vserver group reused by several services | backends with server, port, weight, owner | `diff`, batched add/remove/update, limit, `cleanup` | `VServerGroup` |
| nodes, pods, endpoint slices, readiness gates | node labels, taints, readiness; pod gates; published endpoints | node and slice event filters, building of backends and weights, opening of gates | `BackendSync` |
| route controller (`route`) | route tables, `nodeCache`, node condition | worker reconcile, periodic pass, conflict removal | `RouteController` |
| listeners of a CLB instance shared by services | listeners by port and protocol, with owner, redirect, certificate, state | diff, order of deletions, creations and updates, recreation | `ClbListeners` |
| NLB service controller (`service/nlbv2`) | Service object; instances, listeners and server groups, which outlive the instance | as CLB, with asynchronous jobs | `NlbService`, `NlbServiceLive` |
| node controller (`node`) | initialisation taint, provider id, addresses, network condition | initialisation, periodic pass, deletion of nodes without instance | `NodeController` |
| ALB ingress controller (`ingress`), one AlbConfig | finalizer, instance, listeners, rules, server groups found by tag | ordered appliers with goroutines, roll-backs and postponed deletions | `AlbApply`, `AlbApplyLive` |
| ALB servers (`ingress`) | servers of a group and their state, readiness gates, `syncServersQueue` | endpoint, node and service events, register, deregister, replace, wait | `AlbServers` |
| PrivateZone controller (`pvtz`) | DNS records of a service | record diff | not modelled |
| providers, credentials, metadata, dry run, start-up | SDK requests | translation of models to requests | only how calls succeed, fail or repeat |

How they interact:

- The user writes Services and Nodes; the **watch** carries them to the controllers,
  merging versions; **event filters** decide which change is worth a reconcile.
  A filtered event is never looked at again, which makes the filters part of the
  correctness argument.
- The manager's client has **no cache** of Services, Endpoints, EndpointSlices and
  Nodes (`config/runtime_config.go:84-91`), only of the other kinds, such as Pods. A
  reconcile reads the service live, and several times: the service that is checked
  need not be the service that is applied. The **event handlers** read Services live
  too, and when that read fails the event is lost
  (`clbv1/event_handler.go:232`, `307`, `432`; the same in `nlbv2`). The NLB
  reconcile takes a failed read for an empty service and forgets the key
  (`nlb_controller.go:158`).
- The ALB controller has informers of its own, the **store**. An event of endpoints is
  dropped while the store has no such service (`store.go:311`, `355`), and the channel
  of events overwrites old ones when it is full. `syncIngress` copies the listeners of
  the ingresses into the AlbConfig and only logs its errors.
- Patches of finalizers carry the resource version that was read and may conflict;
  patches of labels and status do not.
- The cloud has no transactions. A reconcile is a series of calls, found again
  after a failure by owner tag, by name or by client token.
- The **hash label** says which version of the service was last applied
  completely; when it matches, attributes and listeners are skipped.
- Several services may share one vserver group, each with its own worker and
  without a lock; so they do with the listeners of one instance. The route
  controller's worker and its periodic pass share the route tables, and only the
  single call is under a lock.
- The node controller and the route controller write the same condition of a node,
  one that the network is missing and the other that it is there.
- The reconcile of an AlbConfig creates and fills server groups; from then on the
  workers of `syncServersQueue` keep the servers, and both may be at one group.

What is hard, and the property that would show it going wrong (`PROJECT.json`
lists the hazards with their lines):

| hazard | properties |
|---|---|
| edits between the reads of one reconcile, crash between creation and tag, conflict of patches | `NoOrphan`, `NoDuplicate` |
| hash label written too early or too late, finalizer gone too early | `KeepsPromise`, `NlbConverges` |
| events filtered, merged or lost at a restart | `DeletionCompletes`, `BackendsConverge`, `QuietMeansFresh` |
| events lost because a handler, or the reconcile itself, could not read the service | `BackendsConverge`, `QuietMeansFresh`, `GatesOpen`, `LocalWeights`, `NlbConverges` |
| events of endpoints and ingresses dropped on the way to the ALB controller | `FilledBeforeUse`, `AlbConverges`, `ServersConverge` |
| user's own instance, half removed listeners and groups | `UserLbUntouched`, `UserLbCleaned`, `ListenersReturned` |
| group changed by others between read and call; limit reached; leftovers of others | `OthersUntouched`, `GroupConverges` |
| listeners read once and changed by others, redirects and their targets in the wrong order, a port handed over | `NoForeignDelete`, `KeptListenersServe`, `ListenersConverge` |
| pod, gate and controller waiting for each other | `GatesOpen` |
| weights rounded or counted wrongly | `LocalWeights`, `TypeOK` of `BackendSync` |
| worker and periodic pass on the same routes, each with an old list | `TypeOK` of `RouteController`, `OtherRoutesStay`, `RoutesConverge` |
| server groups that outlive the instance, asynchronous deletion, no client token | `NoOrphanNlb`, `NlbConverges`, `KeepsPromise` |
| goroutines sharing an error, roll-backs that fail, resources without their tag | `FilledBeforeUse`, `DoomedUnused`, `AlbConverges`, `KeepsPromise` |
| two workers and the creator on one server group, waits given up, a store of pods that lags, a pod that takes the name of another | `GateMeansRegistered`, `ServersConverge` |
| a node deleted by name by a goroutine, one event per node, a pass cut short | `OnlyDeadNodesDeleted`, `NodesConverge` |

## 2. Modules

Each MC module only gives names to sets of values for the configurations. A
definition named `Mutant: ...` in its comment is the same code with a plausible
mistake; it shows that a property can fail, and no specification uses it.

### ServiceObject, ClbService

`ServiceObject` is the Service as the load balancer controllers see it and the
predicates of `helper/service_utils.go` on it. The hash (`GetServiceHash`) covers
the user-written part and the deletion timestamp and is taken to be injective.

`ClbService` is one service, from the API server to the cloud.

| variable | in the program |
|---|---|
| `api`, `seen` | the object in etcd, which the reconcile reads, and what the watch has last delivered to the event filters |
| `eps` | the backends that nodes and endpoints give at the moment (`BackendSync` opens this value) |
| `queued`, `pc`, `rec` | work queue; next call and local variables of `reconcile` |
| `lbs` | the instances in the cloud, the user's own included |

One action stands for one call. The order of the calls of a reconcile:

    Reconcile -> AddFinalizers -> BuildAndFind -> CreateLoadBalancer -> TagLoadBalancer
              \                              \-> UpdateLoadBalancer                |
               \-> BuildAndFind (cleanup) ---\-> DeleteLoadBalancer                v
                                              `----------------------> ApplyVGroups -> ApplyListeners
                                                                         -> CleanupVGroups
    then AddServiceLabels -> UpdateServiceStatus
    or   RemoveServiceLabels -> RemoveServiceStatus -> RemoveFinalizers

`ReconcileErr` collects the returns the code itself decides on (conflict, object
or instance missing, ambiguous or not reusable instance). `StepFails` is any call
failing without effect; a call with an effect whose answer is lost is the call
followed by a failure of the next step. `UpdateLoadBalancerPartly`,
`ApplyVGroupsPartly`, `ApplyListenersPartly` and `CleanupVGroupsPartly` are the places
where one failing call out of several leaves a mixture: groups that were made and not
filled, or some of them removed. `RemoveServiceStatusSkipped` is a status that is
already empty. `BackendEventLost` is a handler that cannot read the service, so that new
backends are not queued. `LoadBalancerMissing` is the tolerated
"LoadBalancerId does not exist" of a cleanup. `Restart` is a change of leader:
queue and reconcile are lost, the list arrives as add events.

### VServerGroup

The part of a reconcile from `BuildLocalModel` to `cleanup`, for several services
that reuse one group of a user. `want` is what a service wants at the moment,
`job` what its reconcile has read and computed, `group` what the cloud has. Every
batch is a call of its own and may fail; `Batch` goes on after a failure. A
refused addition (`retryAdd`) is sent again after the deletions. A backend is a server
and a port to the cloud, whoever added it, and several services and the user may want
the same: then the description of the one that wrote last tells whose it is.

### BackendSync

From pods and nodes to the backends of one service: the node event filters, the
choice of nodes and endpoints, the three traffic policies with their weights, and
the readiness gates. Every event may be lost by its handler (`Enqueue`): a history
variable, `missed`, has the nodes and pods concerned until the next reconcile begins. The pods, kubelets, the informer and the endpoint slice
controller around it are external; they do what their contract says. Sending the
backends is one step, because `VServerGroup` has the calls. `Wanted` is what a
reconcile would build now, from the pods (`InitialBackends`) and the nodes
(`EcsNodes`, `PodsBehind`).

### RouteController

Two processes, `"worker"` and `"sync"`, with `pc`, `tgt` and `tables` each. A CIDR
is the set of its addresses, so that "inside", "equal" and the longest prefix of
a lookup are what they mean. `createRouteForInstance`, with the retries and the
check of a duplicate, is under `routeLock` and one step; so is
`deleteRouteForInstance`.

### ClbServiceLive

Adds `calm` and the history variable `missed`, which remembers that a backend event was
lost and no reconcile has built the backends since. At any moment the users and the faults of `ClbService` may stop for
good (`calm`). From then on only the watch and the workers run, including every error the
code decides on by itself. A property `[](calm => ...)` then speaks of every state
that edits and faults can leave behind, without assuming that they are few. The
module also has the mapping to `OwnedResource` (`Phase`, `Promise`).

### ClbListeners

The listeners of one instance that services share by force-override. `Plans` gives
the versions each service goes through. A reconcile (`rec`) reads all listeners
once (`Begin`, `BuildActionsForListeners`) and sends deletions, creations and
updates in the code's order; each call is an action, `StartListener` one of its
own. A redirect is changed by deleting and creating (`RecreateListener`). `Update`
writes back what was read where an annotation is not given. `Clash`, `ForwardsTo`,
`Deletable`, `Creatable` are what the cloud refuses. A certificate is checked against
those the account has, and not at all if the one in use is not among them (`CertOK`,
`KnownCerts`). The user may delete any listener in the console, a service's too;
`removed[s]` has those of service `s` that went in this way since its reconcile began.

### OwnedResource

The abstract specification: what is made for an object is made under the
finalizer, the finalizer goes only when nothing is left, the object goes after the
finalizer. `ClbServiceLive` (for a plain service), `NlbServiceLive` and `AlbApplyLive`
instantiate it with a refinement mapping from the phase of their object, its finalizer
and the resources that are theirs, and have `OwnedSpec` as the property `KeepsPromise`.

### NlbService, NlbServiceLive

One service from its object to the cloud. Unlike a CLB instance, an NLB instance
has no groups of its own: server groups are found by tag and name and must be made
before the listener and deleted after it. Deletion is a job (`JobDone`) for which the code
waits and whose failure it does not see. `rec` keeps what the reconcile has read:
service, instance, groups, listeners. `ReadFails` is the reconcile that cannot read its
service and forgets the key; `ScaleLost` a change of endpoints or nodes whose handler
cannot. `NlbServiceLive` adds `calm` and `lost`, a history variable that says which of
the two happened since a reconcile last read the service. `Refused` collects the errors the code or
the cloud gives by itself, `GroupRefused`, `AttrFails`, `GroupFails` the ones that
leave part of the work done.

### AlbApply, AlbApplyLive

`ing` is what the ingresses ask for. `SyncIngress` copies the listeners from there into
the AlbConfig (`ac.ports`) and queues it, or fails, and then the change is lost (`news`);
rules and groups are built from the ingresses themselves. `evts` has for each service
whether an event of its endpoints is due or was lost; `SyncServers` serves it.

The reconcile of one AlbConfig. The appliers run in the order server groups,
instance, listeners, rules, and then postponed deletions; the goroutines of one
step are in `job.gor`, interleave, and share one error as in the code.
A group or an instance is made by one call and tagged by the next; what is not
tagged is lost (`lost`). `swallowed` remembers the failures that the code logs or
overwrites, so that the properties can name them.

### AlbServers

The servers of one group. An element of the queue is service *and* event, so
two workers may serve one service, and the creator of the group is a third process.
Servers are added and removed by jobs that the code polls for; `Wait` may give up.
The endpoints are read from the API server, and the pods they name from the store of
an informer, which may be behind (`StoreCatchesUp`). Pods are looked up by name
(`InStore`, `ByName`), so that a pod may be found in place of another that had its name.
An event of the endpoints may be dropped (`Becomes`, `TakeOver`). `ungated`, `unseen` and
`excused` are history variables: they name the ways in which the code leaves a pod or a
group wrong. `unseen` says that the pods have changed without an event that a worker will
get, or that the store was behind when the last one was dealt with.

### NodeController

Workers initialise nodes with the cloud taint (find the instance, patch the spec,
patch the status, then sync addresses); the pass lists nodes with an id and takes
them batch by batch. A list is the set of its entries and a batch the first
`BatchSize` of them by name, as the API server gives them. Deletions wait in `doomed` for their goroutine. Node objects and instances
are numbered as they are made, so that another object of the same name is told
apart.

### Proof modules

Each extends the module it is about: `ClbServiceProofs` `ClbServiceLive`;
`BackendSyncProofs` `BackendSync`; `VGroupProofs` `VServerGroup`; `ClbListenersProofs`
`ClbListeners`; `RouteProofs` `RouteController`; `NodeProofs` `NodeController`;
`NlbProofs` `NlbServiceLive`; `AlbProofs` `AlbApplyLive` and `AlbServers`, which share no
state and no name: the specification of `AlbServers` is `ServersSpec`, its type invariant
`ServersTypeOK`. The inductive invariant comes first, then facts about the operators, one
lemma per action, and the theorems last.

## 3. Runs

Passing runs:

| run | instance | shows |
|---|---|---|
| `clb_plain` | two configurations, one internal and preserved; two free ids, client token forgotten, console deletions; 390 thousand states | no orphan, no second instance, no step on an instance that was not found |
| `clb_reuse` | a user's instance, with and without override; groups made and not filled, or removed one by one; 1.1 million states | the user's instance is never deleted, its listeners change only on request, and nothing is left on it |
| `clb_live` | preserve switched on and off; two backend sets, one potentially ready; events lost | deleted services go, others serve the latest backends, or earlier ones if the event was lost, and `OwnedResource` is implemented |
| `vgroup_share` | two services and the user on three servers, some on a port that several want, room for five, batches of one; a service is deleted or drops the group; 590 thousand states | a service removes only what it read as its own and overwrites only what it wants itself; everyone gets what nobody else may want (`Contested`) unless there is no room (`Crowded`) |
| `backend_sync` | one node (virtual or not), two pods, three services, one per policy; events lost; 1.9 million states | at rest the group is fresh, local weights are pod counts, gates open, except for what the event of which was lost (`missed`) |
| `route_live` | two node names, one pod CIDR, routes inside it and around the cluster | every node is reached in the end, other routes stay, one entry per destination |
| `clb_listeners` | service A goes from tcp to a redirect with https, another certificate, no redirect, nothing; B changes the protocol of its port and then wants one of A's; the user takes a port in the console and deletes listeners of anyone there; 230 thousand states | no service deletes a listener that is not its own and kept listeners serve on, unless another service has asked for the port or the user has replaced it; all services are served in the end, unless something in the cloud is in the way, both are after one port or the user has taken a listener away |
| `nlb` | an instance of its own or the user's, groups of two types, preserve, force-override, type no longer LoadBalancer; a user's server in a group; failed reads, lost events; 730 thousand states | nothing is orphaned, listeners point at filled groups, the user's resources stay, all converges unless blocked, and `OwnedResource` is implemented |
| `alb_apply` | AlbConfigs with their own, a reused or a taken instance; two ingress services, two listeners; events of ingresses and endpoints lost; 1.2 million states | postponed deletions meet no group in use, rules forward to filled groups unless an event or an error was dropped, all converges unless blocked or not told, and `OwnedResource` is implemented for what is tagged |
| `alb_servers` | two pods, with names of their own or one in place of the other, endpoint and node events, some dropped, an existing group or a new one; 930 thousand states | a gate opens only for a registered pod, or one that took the name of another, and the group comes to hold the right servers, with the exceptions that `unseen` and `excused` name |
| `node` | single nodes (address posted late, excluded, with a foreign address) with a fault; pairs with an unparsable id | no living node is deleted by the reconcile that saw it, and all nodes are initialised or removed, with the exceptions `LeftAlone` and `Behind` name |

One run ends in a counterexample (`findings` in `PROJECT.json` has the quotation):
`clb_class_orphan`, in which a service that gets another load balancer class is
"cleaned up" without its instance being deleted: the finalizer goes, the instance
stays, and is billed. Section 6 lists the other disagreements met.

The properties named `...Converge` say what holds in the end *or* name the
condition under which the code does not get there (`Blocked`, `Contested`,
`Crowded`, `Deprived`, `LeftAlone`, `Behind`, `missed`, `lost`, `news`, `evts`, `unseen`,
`excused`). Each names states that the code may not get out of by itself; section 6
describes them. Where an event was lost the exception reaches as far as the event: it
ends with the next reconcile (`missed`, `lost`), and it excuses only the node or pod
(`BackendSync`), the servers (`"event"` in `NlbServiceLive`, `evts` in `AlbApply`) or the
backends (`ClbServiceLive`) that the event was about.

### Bounds and why they are enough

- `ClbService` has no counters: its runs cover every sequence of edits, deletions,
  console deletions, watch deliveries, lost events, restarts and failures of an instance
  of two user-written parts. Two parts are needed for "old" and "new" and for an edit
  that is reverted. Two ids are needed for a second instance. Two backend sets are
  needed for stale backends.
- `vgroup_share`: three servers so that a change of `want` adds one, removes one
  and changes a weight; `Limit` 5 is what both services and the user need together,
  so that an addition before the deletion is refused; the user has a server on a port of
  one service, and both services may want a third server on one port; `MaxEdits` 2 lets both
  services change; `MaxFaults` 1 makes one batch fail, or the process restart, at
  every place. `"dropped"` among the ways to leave brings in the leftovers.
- `backend_sync`: `MaxChanges` 4 is what a pod's life with its gate takes (create,
  ready, terminate) and one change of a node in between; two pods on one node give
  a weight other than 1; `MaxFaults` 1 is a failing call or a lost event.
- `route_live`: `MaxDisturbances` 4 covers node, deletion, the same CIDR on
  another name, and one failing call, hand-made route or restart in between.
- `clb_listeners`: no bound but the versions in `Plans`; calls fail and the user makes and
  deletes listeners any number of times. Of the two certificates the account knows one,
  and the user's listener has the other. The versions are chosen so that a redirect appears, moves and goes, a
  certificate changes, a protocol changes and a port is handed over.
- `nlb`: `MaxChanges` 2 is two edits or changes of servers after the first version;
  deletion, faults, lost events, restarts, jobs and console actions are not counted. Three groups
  are what a change of type needs with one left over; a fourth would be one more of
  the same failed attempt.
- `alb_apply`: `MaxFaults` 2, since a roll-back that fails needs two; two groups so
  that two goroutines can fail; `MaxEdits` 1 on top of deletion: a change of the
  ingresses or of a service. An instance of the AlbConfig's own starts with nothing
  made or everything, one of the user's with force-override with everything, and one
  without it, or one that is taken, with nothing.
- `alb_servers`: two pods are needed for a batch of one and for replace and for
  separate calls (`ReplaceMaxNums` has both), and for one that takes the name of the other;
  `moves`, `faults` and the names are given with each start. A dropped event is not
  counted among the faults.
- `node`: two names give two batches of one; `MaxUid` 2 gives a second object of a
  name, or a second instance; one fault where there is one name, none with two.
- Configurations say `CHECK_DEADLOCK FALSE` where the system rests when the user
  does nothing more; the route controller never rests, because its pass repeats.
- `clb_plain` uses symmetry of the ids, which nothing tells apart; it checks
  invariants only.

### Fairness

- `ClbServiceLive`: the watch delivers and the worker takes the next step
  (`WF(WatchEvent)`, `WF(ReconcileStep)`). A requeue is rate limited but always
  comes. That calls succeed in the end is not assumed by fairness but is what `calm`
  means.
- `ClbListeners`: each service's worker goes on; the property has the hypothesis that
  users and faults stop.
- `NlbServiceLive`: the worker goes on, and jobs of the cloud end; `calm` as above.
- `AlbApplyLive`, `AlbServers`, `NodeController`: workers go on (without a fault:
  faults are bounded and never due), jobs end, informers deliver. In `AlbServers` a
  kubelet reports a pod that is ready; containers need never get ready. In
  `NodeController` the pass starts again and again (`wait.Until`), goroutines run,
  the route controller serves a node in the end, and a node without a machine is
  found to be silent by the node lifecycle controller.
- `VServerGroup`: each service's worker goes on (`WF(Work(s))` for each). Edits and
  faults are bounded, so they end.
- `BackendSync`: the worker, the pod informer and the endpoint slice controller
  each go on. A pod without the controller would wait for ever; the worker is
  needed because `GatesOpen` is about it.
- `RouteController`: `wait.Until(reconcilePeriod)` starts the pass again and again,
  and the worker takes from its queue. Weak fairness of each process, not of each
  step.

## 4. Proofs

TLAPS proves the following for **every** value of the constants that satisfies the
named assumptions: `IdsAssumption`, `SpecsAssumption`, `NoneAssumption` of
`ClbService`; `CidrAssumption`, `NamesAssumption`, `NodeAssumption`,
`BoundAssumption` of `RouteController`; `WantsAssumption`, `SizeAssumption` of
`VServerGroup`; `PlansAssumption` of `ClbListeners`; `NodeAssumption`,
`AbsentAssumption` of `NodeController`; `AlbAssumption` of `AlbApply`;
`NlbAssumption`, `NoneAssumption` of `NlbService`; `ClusterAssumption`,
`ServiceAssumption` of `BackendSync`; `AlbServersAssumption` of `AlbServers`. Most of them give the shape of what
a user may submit and say that the values for "none" are not records; the ones about
the world are that pod CIDRs are disjoint parts of the cluster CIDR (IPAM), that a service
wants a server and port once, and that pods served at the start have different names. Every run evaluates the assumptions of its module.

| theorem | statement |
|---|---|
| `TypeCorrect` | `Spec => []TypeOK` of `ClbService`: no step of `Apply` works on an instance it has not found |
| `PlainInvariant` | `PlainService /\ Spec => []PlainInv` |
| `PlainNoOrphan`, `PlainNoDuplicate` | from it: no orphaned and no second instance of a plain service |
| `PlainKeepsPromise` | `PlainService /\ Spec => KeepsPromise`: for a plain service `ClbService` implements `OwnedResource` |
| `UserInstanceUntouched` | `Spec => UserLbUntouched`: the user's instance is never deleted and its listeners are written only on request, whatever is submitted |
| `ReuseCleaned`, `ReuseListenersReturned` | a service that reuses the user's instance leaves no group on it and returns the listeners it took (`ReuseService`) |
| `RouteTypeCorrect` | one entry per destination in every table; routes are made only for nodes that have one |
| `OtherRoutesSafe` | no entry is removed but one inside a pod CIDR |
| `GroupTypeCorrect` | one backend per server and port; no empty list is sent |
| `GroupOthersUntouched` | a reconcile, however old its list of the group, removes only backends that were its own when it read them, and writes over only those whose server and port its service wants |
| `BackendTypes` | every backend in the group or on its way there is one that the code builds, with a weight of the range the service asks for |
| `QuietIsFresh` | `Spec => [](NodeEventsSuffice(svc) => QuietMeansFresh)`: at rest and with no lost event since the last reconcile began (`missed`), the group is what a reconcile would make of it now; for a service with the ENI policy without a condition |
| `LocalWeightsCount` | `Spec => []LocalWeights`, without a condition: at rest, the weights of a local service count the pods, whatever was read of the nodes, but for a node with a pod whose event was lost |
| `BackendInvariant` | the inductive invariant of these two |
| `ListenerTypes` | no call of `applyListeners` sends an attribute that is not set |
| `ListenersNoForeignDelete` | a listener that is not one's own is deleted only if another service has asked for its port and protocol, or the user has put it in place of the service's |
| `ListenersKeptServe` | a listener that the old and the new version have in common is not taken away, with the same exceptions |
| `NodeTypes`, `NodeOnlyDeadDeleted` | the object that was looked at is deleted only if the instance with its id is gone |
| `NlbTypes` | every call that needs an instance has one; groups in work belong to the version that was read |
| `NlbNoOrphan` | nothing of the service is left once the finalizer is gone |
| `NlbFilledBeforeUse` | a listener is pointed only at a group that has the servers the reconcile read |
| `NlbUserResourcesKept` | what is the user's stays |
| `NlbKeepsPromise` | `Spec => KeepsPromise`: `NlbService` implements `OwnedResource` |
| `AlbTypes` | what is not tagged is in the hands of the step that made it; nothing is lost without a failing call |
| `AlbDoomedUnused` | no listener and no rule forwards to a group that is about to be deleted |
| `AlbFilledBeforeUse` | a rule forwards to a group with servers, or a worker is about to add them, or an error or the last event of the endpoints was dropped |
| `AlbKeepsPromise` | `AlbApply` implements `OwnedResource` |
| `ServerTypes` | `ServersSpec => []ServersTypeOK`: a group that does not exist serves nobody, and no process removes a server it wants |
| `GatesAreRegistered` | `ServersSpec => GateMeansRegistered`: the readiness condition of a pod is set only with its server in the group, unless another process was at the group, or the pod has taken the name of one that was to be served |
| `ServersInvariant` | the inductive invariant of these two |

The theorems are about `Spec` (`ServersSpec` has its fairness in it); `clb_live`, `nlb` and `alb_apply` run one with fairness
and, for the first two, `calm`. That it implies `Spec` is `ClbLiveIsClb` and
`NlbLiveIsNlb` for these; the third is `Spec` with fairness as a further conjunct.

**Types of `ClbService`.** `TypeOK` alone is not inductive. The `delete` step of a service
on the user's instance goes on to steps that need an id, so `FoundInv` says that this
service has found it. `TypeInv` is the two together.

**No orphan.** `NoOrphan` says that an instance which has not been handed over has a
service with the finalizer. It is not inductive: `RemoveFinalizers` removes the
finalizer and looks at no instance. Why there is none left is an argument over what the
API server has of the service, what the hash label remembers of it and what the reconcile
has read. `PlainInv` states it:

- `ViewInv`: the reconcile never knows of a deletion that has not happened;
- `PathInv`: the steps that delete are taken only for a service being deleted, the
  steps that create only for one that, when it was read, was not;
- `LabelInv`: a hash label that records a deletion exists only when nothing is left
  to delete. Otherwise `Apply`, which skips the deletion when the hash is unchanged,
  would pass over a living instance on its way to `RemoveFinalizers`;
- `InstanceInv`: by default name every instance is found, so that a creation starts
  from none and a deletion has them all; and a live service is applied only behind its
  finalizer.

`PlainService` (no name, id or class of its own; type LoadBalancer) is a
hypothesis because each of its conjuncts is needed: section 6 says what happens
without it. `PlainKeepsPromise` rests on the same invariant (see *Refinements*).

**The user's instance.** That it is not touched needs only the types and `TargetInv`: a
reconcile works on that instance exactly when its copy of the service names it, and the
steps that create or tag are never taken for such a service. That it is left clean is
about the past of a service, as above. `KeptInv` has `ViewInv` and `PathInv`, and
`HeldInv`, that a live service is applied only behind its finalizer. `GroupsInv` adds
that the groups are gone before the steps that remove it. `ReturnInv` is about the hash
label: it is written before the finalizer goes, and the next attempt then skips
`applyListeners`. So a label that records the deletion must speak of listeners already
returned, whether the API server has it or the reconcile has read it (`MarkOK`). `ReuseService` says that every
version is of type LoadBalancer, without a class, and names the instance: a service that
drops the annotation is no longer asked to return anything.

**Routes.** What is removed was put aside earlier, by another step, from a list
that is stale by now. `RouteInv` therefore says of everything put aside that it
lies inside a pod CIDR: `nodeCache` holds node routes only, the worker's `delete`
step holds one taken from there, the pass's conflicts are inside the CIDR of a node
of its list. Disjointness of pod CIDRs is not needed for this.

**Groups.** The cloud identifies a backend by server and port and asks for no owner, and
services may want the same ones. So it is not true that a call meets only backends of
its own service. `GroupInv` says of the lists a service has still to send what remains
true however late they are sent: additions and updates are backends it wants, each
server and port once (`job.local`), and deletions backends that carried its name when it
read the group (`job.mine`). `OthersUntouched` says that nobody loses a backend in
another way.

**Backends.** `BackendInv` is `TypeOK`, `NodesKnown` (a node has one of the label sets and
no taint) and `FreshInv`: unless the service is queued, what a reconcile has built is
still right, or it knows that it must come back; and one that is over has left what is
right. Of a pod in `missed` it says nothing, and with a node in `missed` it says of the
nodes only how many pods they were counted for (`NodesHeard`). `QuietMeansFresh` and `LocalWeights` speak of the moment of rest only; to be
inductive they have to be said of every moment from the read of the nodes and pods to
the end of the reconcile. `Settled` says which pods a list of backends may stand for, and
`BuiltFrom` what the list then is. The proof goes through the changes that give no event:
a pod whose containers get ready while the controller waits for it, one that is published
before the informer has it, one that is removed and still published; and it shows that a
change of a node which the handlers drop changes no backend (`SameBackends`). The last
needs `NodeEventsSuffice`, a condition on the service and the nodes. A service with the
ENI policy satisfies it always; for the others it has three parts: no taint of the
autoscaler; no virtual node with the exclude label, unless it is a master; and, with
`FilterServiceOnNodeChange` on, no service of the local policy that neither names its
nodes by label nor has unscheduled ones removed. Each part is needed: with any one of
them left out TLC finds a counterexample to `QuietMeansFresh` (section 6). The instance
of `backend_sync` satisfies the three. The weights of the local policy need none of this:
a node that is out of date still has the weight of its pods (`Counted`).

**Listeners.** A reconcile reads the listeners once and works on that list to its end.
`ListenerInv` says what is still true of it: a listener to be deleted is its own
(`FreshDelete`), one to be updated has the redirect that was read (`FreshUpdate`), each
unless another service has asked for the same port and protocol or the user has deleted it
meanwhile; and the lists agree
with the version the reconcile builds (`PlanOK`). For this it must be known that every
listener in the cloud is the user's or one its owner has asked for (`OwnerOK`).

**Nodes.** The objects that worker, pass and goroutines hold may be long replaced.
Three things stay true of an object that was read: its uid is never given again, its
provider id does not change once set, and an instance that is gone does not come back.
`NodeInv` states them for each place where an object is kept (`SeenOK` in `WorkOK`,
`PassOK`, `DoomedOK`). A deletion that is due for an object of the same uid is then
one of an object without instance.

**NLB.** `NlbInv` is inductive and made of:

- `ReadInv`: what the reconcile knows of the service. A hash label is only ever written
  for a version that needs an NLB, so a cleanup never takes the path of "nothing has
  changed" past the deletion; the finalizer is there from the second step on;
- `InstInv`: at most one instance is found, none while one is to be created, and none of
  the controller's own for a service on the user's instance;
- `LeftInv`: a cleanup past the instance has left none, one past the groups has left
  none, and in between it has seen them all;
- `SeenInv`, `LocalInv`: the groups are what the reconcile takes them to be, apart from
  servers the user adds and unless a call failed, and when listeners are made every
  port has a group with the servers that were read.

**ALB.** `AlbInv` follows one apply through its appliers: who holds the finalizer
(`PhaseInv`), which steps have an instance (`LbInv`), what each goroutine has in hand
(`CreateInv`), that a wanted group is listed by the time it is used and never doomed
(`WantInv`), that a deletion has still before it whatever is listed (`DoomInv`), that a
target of a rule can be found and is filled or on the way, unless the event or the error
that would tell was dropped (`FillInv`), and how far the
listeners are on the way to what is asked for (`OpenInv`, `RulesInv`, `PostInv`). The last
gives `AlbDoomedUnused`: postponed deletions are due only when the rules are exactly those
asked for, and those name no doomed group.

**ALB servers.** A process lists the servers once and then makes its calls, batch by
batch, while jobs of the cloud end and others may be at the same group. `ServersInv` is
what it may rely on. `Alone`: of two processes at work each knows that it is not alone
(`unclean`), since the one that comes second marks both. `Undisturbed`: one that knows of
no other finds no server it wants on its way out, and each of them in the group unless
it has still to add it; when it sets the conditions it has none left to add. The
conditions go to the pods that bear the names now, and `Single` says that each name is
that of one pod: it is the pod that was to be served, or one that took its name. This proof
fails for a creator that takes no account of the group it fills: a worker may have
given up waiting for the removal of a server just before. With one pod, three changes
and two faults TLC then opens the gate of a pod whose server is being removed. So
`Build` counts a wanted server on its way out as `unclean` for the creator, as
`ListServers` does for the workers.

**Refinements.** For `ClbService` an instance is owned from its creation until it is
deleted or handed over: `AddFinalizers` is `Hold`, creation and taking an instance back
are `Make`, deletion, handing over and the console are `Free`, `UserDelete` is `Delete`, and
`RemoveFinalizers` is `LetGo`, since `PlainInv` says that no instance is left by then. The
one fact to add is that a service under deletion has its finalizer (`DeletingHeld`), so
that `Hold` is for a living one. Under the mapping of `NlbServiceLive`, `AddFinalizers` is `Hold`, the
creations of the instance and of groups are `Make`, untagging, deletion and the console
are `Free` or change nothing, `RemoveFinalizers` is `LetGo`, `DeleteService` is `Delete`, and
every other step is a stutter; that `RemoveFinalizers` may be `LetGo` is `NlbNoOrphan` one
step earlier, and so `LeftInv`. For `AlbApply` it is `DoomInv`, and `Make` is the tag call,
since what has no tag is nobody's.

Only model-checked, because out of the prover's reach: everything under fairness
(`DeletionCompletes`, `BackendsConverge`, `GatesOpen` and all properties named
`...Converge` or `...Converges`), which needs ENABLED. Every other property of a passing
run is a theorem. No module uses recursion, whose evaluation for every input could not
be proved by induction either.

## 5. What is not modelled

- In `ClbService`: attributes and listeners are one value `cfg` (`ClbListeners` has
  the listeners). ACLs and other attributes are one value wherever they appear.
- Names of resources and their parsing, formatting of requests, logging, metrics,
  events, dry run, flags and start-up: no state that the properties relate.
- Credential refresh and the metadata service: I/O.
- The `Endpoints` object in the CLB and NLB controllers (EndpointSlice off) and
  dual-stack services.
- In `BackendSync` a container may fail only when its pod is published as ready; see
  below. A virtual node with the exclude label is not among the label sets.
- In `RouteController` entries that `ListRoute` does not return (ECMP, other next
  hops than an instance).
- In `NlbService` events that are late or merged (`ClbService` has them), an edit
  that is taken back, the loadbalancer-id annotation being added or removed, and a
  service moving between CLB and NLB by annotation.
- In the ALB controller: how ingresses form groups, their locks and finalizers, an
  AlbConfig that `syncIngress` makes again after it is gone, which ingresses the class
  selects (only that an event may not be told), the
  building of rule conditions and actions, weights (the code never updates them),
  traffic policies other than ENI, deletion of a service under `AlbServers`, and
  certificates. `m.sdkCerts` is written by every https listener update
  (`alb/listener.go:188`), and updates run concurrently: one may use the
  certificates of another.
- In `NodeController` labels and other taints; the patch replaces the taints as they
  were read, so that one added meanwhile is lost.
- The PrivateZone controller: next in the plan.

## 6. Disagreements met while modelling

Lines of the repository that the code does not live up to, besides the one that
`clb_class_orphan` shows. All but the last were met as counterexamples of TLC.

- `clbv1/event_handler.go:110` "The service will be updated because the annotations
  has been changed.": if an edit fails half way and is reverted, the hash label
  matches the reverted service (`model_applier.go:51`) and attributes and listeners
  stay as the failed edit left them.
- `clbv1/event_handler.go:57` "Since a delete event has changed to an update event, it
  is safe to ignore it.": when the class annotation is added and the service then
  deleted, both events are filtered out and the finalizer is never removed.
- `clbv1/model_applier.go:309` "do not delete user managed vgroup, but need to clean
  the backends in the vgroup": the backends are read only of groups that the
  annotation names now, so a service that drops a reused group leaves its backends
  in it. They take the room of the services that still use it (`Crowded`).
- `reconcile/backend/backend.go:180` "Remove nodes that are about to be deleted by the
  cluster autoscaler.": no event handler compares taints, so the node stays a backend
  until something else changes.
- `route/route_controller.go:286` "RouteController created a route": a failing lookup
  (line 227), or a list that is out of date, counts as a route that exists.
- `clbv1/listeners.go:566` "Do not delete any listener that no longer managed by my
  service for safety": that is decided when the listeners are read. A listener that
  another service has taken over since is deleted, and the other service, whose
  label is up to date, does not make it again (`Contested`).
- `docs/usage-alb.md:19` "An Albconfig corresponds to one ALB instance.": when the tag
  call and the roll-back of `CreateALB` fail, or the process dies before it, the
  instance is found by nobody and the next reconcile makes another.
- `node/node_controller.go:193` "So that users do not see any significant delay in IP
  addresses being filled into the node": the sync after the initialisation uses the
  node as it was read before the patch, without provider id, and fails silently.

Other consequences of the code.

*CLB services.* Each conjunct of `PlainService` is needed. Type: if
the service is ClusterIP when `AddFinalizers` reads it and LoadBalancer again when the
label is written, the label speaks of a ClusterIP service; after an instance was made and
the type is changed again, the cleanup finds the hash unchanged, skips the deletion and
removes the finalizer (`model_applier.go:51`). Name: with a custom name and a crash between
creation and tag (`clbv1/loadbalancer.go:57`) only the client token prevents a second
instance. `disablePublicSLB` returns before the cleanup, so a deleted public service
keeps its finalizer; and the check is made on the first read of the service while
`AddFinalizers` reads it again, so an edit in between gives a public instance. A handler
that cannot read the service drops the event of its endpoints or nodes
(`event_handler.go:232`, `307`, `432`): the backends stay as they are until something else
happens (`missed`), and a pod with a readiness gate may wait for ever.

*Groups and backends.* A group that the controller made and to which a user added a
backend counts as user managed and is not deleted. An
addition overwrites the backend of the same server and port that a user or another service
has in a reused group, and takes it over with its description (`vgroups.go:262`): two
services in ENI mode with one target port do so to each other, and when one of them goes
the other has lost its backends until its next reconcile (`Contested`). A
label exchanged for another one is missed by `nodeLabelsChanged` when the old one had
an empty value; with `FilterServiceOnNodeChange` on, Local services ignore changes of a
node's exclude label. With EndpointSlice off endpoints never get a `TargetRef`, so
readiness gates are never opened. A container that fails after its pod was registered
and before it was published as ready leaves a stale backend, with no event to repair
it.

*Listeners.* A reconcile has read a listener of its service and is to delete it; another
service takes it over and gives it up, the user makes one of his own in its place, and
that is deleted. This is why `NoForeignDelete` and `KeptListenersServe` except what another
service has asked for at any time, not only what it has now; the attempt to prove
the narrower exception showed it. The same happens if the user deletes the service's
listener in the console and makes one of his own while a reconcile is on its way
(`removed`); one that is deleted in the console is not made again while the hash label
matches (`Deprived`), and a certificate is not checked if the old one is unknown
(`listeners.go:1025`). Deletions come before updates: an https listener that goes while the
redirect to it moves is refused, and so is everything after it, for good (`Blocked`).
`isNeedUpdate` writes back what it read, undoing what others changed meanwhile. An
update takes over any listener of the port and protocol, the user's too. The
description of a forwarding listener is never updated.

*Routes.* A stale list of the periodic pass re-creates the route of a node that was
deleted; `SetIfAbsent` keeps the first route of a name; a restart forgets `nodeCache`.
The routes leaked this way stay until they conflict with another node.
`route/predicate.go:28` compares `PodCIDRs` with itself.

*NLB.* A deletion job that fails or outlasts the wait counts as done. With a custom
name and a failed tag call the instance is never found again. Each failed retry of a
changed group type makes another group of the same name, and the first one listed is
taken. A user's server in a group of the old type keeps it alive, and it is then taken
for the new one (`Blocked`). Taking force-override away leaves listeners that nobody
moves, and the deletion stuck (`Blocked`). With the user's instance gone, its groups
are orphaned. `preserve-lb-on-delete` untags unused groups of a service that lives on.
With an unchanged hash and the instance gone the status gets an empty host name. If the
instance goes in the console while the service is of another type, which it then no longer
is, the status still names it and no other is made (`Blocked`). A failed read of the service
is taken for a service without finalizer and status: the reconcile ends well and the key is
forgotten (`lost`).

*ALB.* A listener that is no longer asked for is handed to `DeleteALB` with its
listener id (`applier/listener.go:108`): the reconcile fails from then on (`Blocked`). A
second goroutine that fails to create or fill a group is neither rolled back nor
reported, a failed roll-back is only logged, and the error of removing servers is stored
in a variable nobody reads: the empty group counts as made (`swallowed`). A reused
instance is deleted with its AlbConfig. `lb` is nil, and `lb.Status` a panic, if the
deletion is first seen by `AddFinalizers` (`alb_controller.go:563`). Errors of
`syncIngress` are only logged, conflicts included, so that the AlbConfig does not follow its
ingresses (`news`); the events of ingresses that name their class in the spec do not reach
it when a service comes or goes (`store.go:473`, `484`). An event of endpoints is dropped
while the store does not have the service, or if no ingress refers to it yet: a group that
was tagged before a crash and not filled stays empty under its rule (`evts`).

*ALB servers.* The gate of a pod is set only by a sync that adds servers: after a failed
patch, a restart, a failed listing while waiting, or when a pod gets the address of
another, the pod waits for ever (`ungated`). A wait given up leaves a server that is
being removed, and counts as there. A group filled while a pod with a gate was starting
is not looked at again before the next event. A failed pod that the store still shows as
ready stays a server, and nothing comes back to it (`unseen`). The condition is set on the pod
that has the name after the wait, whatever its UID (`applier/server.go:188`): one that took the
place of another gets ready without a server (`Replaced`). The creator does not list the servers of
the group it has made; if a worker has meanwhile put one there and is removing it again,
the creator takes it for one that it adds, and opens the gate of its pod after a wait
that is given up. Creator and worker may make each other's
calls fail; the creator then deletes the group and starts again.

*Nodes.* Creation is the only event: a node without id and address is looked at once
and stays tainted. Deletion and patches go by name: a newer object of that name may be
deleted, or be given the id of the older one. One id that cannot be parsed ends the pass
(`Behind`).

## 7. Plan

1. *ServiceHandover*: the NLB controller next to the CLB controller on one service.
   They share hash label and status but have a finalizer each, so that the switch of
   a class is a protocol between the two.
2. *PrivateZone*: record diff. *Ingress groups*: grouping, locks and finalizers.
3. A weaker hypothesis: `ReuseService` could have versions that do not name the instance.
