----------------------------- MODULE AlbServers -----------------------------
(***************************************************************************)
(* The servers of one ALB server group (pkg/controller/ingress): syncServers *)
(* and the queue it serves, the appliers under it, the calls of the provider *)
(* and the readiness gates of the pods.                                    *)
(*                                                                         *)
(* The elements of the queue are made of the key of a service and the event *)
(* itself, so that an endpoint event and a node event for one service are   *)
(* two elements, and two workers.  A third party is the reconcile of the    *)
(* AlbConfig, which creates the group and fills it.                         *)
(*                                                                         *)
(* The Endpoints are read from the API server, and the pods they name from  *)
(* the store of the pod informer, which may be behind.  A pod is looked up  *)
(* by its name: a successor of the same name may be found in its place.     *)
(*                                                                         *)
(* Simplifications: the traffic policy is ENI, a server is the address of a *)
(* pod, and each pod has its own; one service with one port; every pod has  *)
(* the readiness gate; the endpoints controller follows at once; the steps  *)
(* of creating a group are those of AlbApply.                               *)
(*                                                                         *)
(* No name is one of AlbApply, so that a module can extend both.            *)
(***************************************************************************)
EXTENDS Integers, FiniteSets

CONSTANTS Pods,
          Kinds,          \* of events: endpoint, node, service
          ReplaceMaxNums, \* BatchReplaceServersMaxNum: one of these
          BatchNum,       \* BatchRegisterServersDefaultNum
          ServerStarts    \* pods the group serves at the start ({}: no group), the names
                          \* of all pods, and bounds:
                          \* moves: changes of pods, and events of other kinds;
                          \* faults: failing calls, waits given up, restarts

ASSUME AlbServersAssumption ==
    /\ IsFiniteSet(Pods) /\ "endpoint" \in Kinds /\ "creator" \notin Kinds
    /\ BatchNum \in Nat \ {0} /\ ReplaceMaxNums \subseteq Nat
    /\ \A s \in ServerStarts : /\ s.served \subseteq Pods /\ s.moves \in Nat /\ s.faults \in Nat
                               /\ DOMAIN s.names = Pods
                               /\ \A p, q \in s.served : s.names[p] = s.names[q] => p = q

VARIABLES
    pod,      \* absent; starting; waiting: its containers are ready; ready
    gate,     \* pods whose condition is true
    store,    \* the pods as the store has them
    unseen,   \* there is a change that no worker has seen and none is to be told of
    used,     \* some ingress refers to the service
    exists,   \* the server group, with its tags
    group,    \* status of the server of each pod
    queue,    \* elements of syncServersQueue
    work,     \* what the workers and the creator are at
    ungated,  \* pods whose server was there before they were, or whose patch failed
    excused,  \* the group may be wrong for a reason named below
    name,     \* the names of the pods
    replaceMaxNum,
    moves, failures   \* how many there may still be

pods == <<pod, gate>>
hist == <<ungated, excused>>
view == <<store, unseen>>
bounds == <<name, replaceMaxNum, moves, failures>>
serverVars == <<pods, view, used, exists, group, queue, work, hist, bounds>>

Procs == Kinds \cup {"creator"}

\* unclean: another process was at work on the group meanwhile, or a server on its way
\* out was taken for one that is there.
Resting == [pc |-> "idle", want |-> {}, may |-> FALSE, add |-> {}, del |-> {}, call |-> {},
            unclean |-> FALSE]

\* The Endpoints object, kept by the endpoints controller.
Endpoints == [addresses |-> {p \in Pods : pod[p] = "ready"},
              notReadyAddresses |-> {p \in Pods : pod[p] \in {"starting", "waiting"}}]

\* The store does not tell whether a pod has its conditions.
Shown(p) == IF pod[p] = "ready" THEN "waiting" ELSE pod[p]
Fresh == \A p \in Pods : store[p] = Shown(p)

\* GetPod: what the store has under the name of a pod.
InStore(p) == {q \in Pods : name[q] = name[p] /\ store[q] # "absent"}

Present == {p \in Pods : group[p] # "none"}
Removing == {p \in Pods : group[p] = "removing"}

Failure == failures > 0 /\ failures' = failures - 1 /\ UNCHANGED <<name, replaceMaxNum, moves>>
NoFailure == UNCHANGED bounds

-----------------------------------------------------------------------------
(* Pods, nodes, ingresses, informers.                                       *)
Move == moves > 0 /\ moves' = moves - 1 /\ UNCHANGED <<name, replaceMaxNum, failures>>

\* epEventHandler: an event whenever addresses change, which is dropped if the store's
\* informer does not have the service (yet), or overwritten in a full channel.  Nobody
\* hears of containers that get ready, or fail before the pod is.
Becomes(p, s) ==
    /\ pod' = [pod EXCEPT ![p] = s]
    /\ \/ Endpoints' # Endpoints /\ queue' = queue \cup {"endpoint"} /\ UNCHANGED unseen
       \/ Endpoints' # Endpoints /\ queue' = queue /\ unseen' = TRUE
       \/ /\ Endpoints' = Endpoints /\ queue' = queue
          /\ unseen' = (unseen \/ (pod[p] = "waiting" /\ s = "starting"))
    /\ UNCHANGED <<store, used, exists, group, work, excused>>

\* A pod of the same name has to be gone before.
StartPod(p) == /\ \A q \in Pods : name[q] = name[p] => pod[q] = "absent"
               /\ Move /\ Becomes(p, "starting") /\ UNCHANGED <<gate, ungated>>

ContainersReady(p) == /\ pod[p] = "starting" /\ NoFailure
                      /\ Becomes(p, "waiting") /\ UNCHANGED <<gate, ungated>>

PodReady(p) == /\ pod[p] = "waiting" /\ p \in gate /\ NoFailure
               /\ Becomes(p, "ready") /\ UNCHANGED <<gate, ungated>>

PodFails(p) == /\ pod[p] \in {"waiting", "ready"} /\ Move
               /\ Becomes(p, "starting") /\ UNCHANGED <<gate, ungated>>

StopPod(p) == /\ pod[p] # "absent" /\ Move /\ Becomes(p, "absent")
              /\ gate' = gate \ {p} /\ ungated' = ungated \ {p}

\* nodeEventHandler, serviceHandler: events of the other kinds.
OtherEvent(k) == /\ k # "endpoint" /\ k \notin queue /\ Move
                 /\ queue' = queue \cup {k}
                 /\ UNCHANGED <<pods, view, used, exists, group, work, hist>>

\* The informer of pods, in the order of what happens to a name.
StoreCatchesUp(p) ==
    /\ store[p] # Shown(p) /\ (store[p] # "absent" \/ InStore(p) = {})
    /\ store' = [store EXCEPT ![p] = Shown(p)]
    /\ NoFailure /\ UNCHANGED <<pods, unseen, used, exists, group, queue, work, hist>>

UseService == /\ ~used /\ used' = TRUE
              /\ NoFailure /\ UNCHANGED <<pods, view, exists, group, queue, work, hist>>

\* The jobs of the cloud come to an end.
JobEnds(p) == /\ group[p] \in {"adding", "removing"}
              /\ group' = [group EXCEPT ![p] = IF @ = "adding" THEN "available" ELSE "none"]
              /\ NoFailure /\ UNCHANGED <<pods, view, used, exists, queue, work, hist>>

-----------------------------------------------------------------------------
(* What a process does.                                                     *)
At(k, pc) == work[k].pc = pc
GoesTo(k, pc) == work' = [work EXCEPT ![k].pc = pc]

\* Between reading the endpoints and the end of the calls.
Busy(k) == work[k].pc \notin {"idle", "build"}

\* Whoever is at work on the group is no longer alone.
Disturbed(k) == [j \in Procs |-> IF j = k THEN Resting ELSE [work[j] EXCEPT !.unclean = @ \/ Busy(j)]]

\* Mutant: the worker forgets the element whatever syncServers returns.
RequeueNever(k) == queue

\* The queue's worker after an error: the element is added again.
Requeue(k) == IF k \in Kinds THEN queue \cup {k} ELSE queue

\* An error.  The creator deletes the group, to create it again in its next reconcile.
SyncFails(k) ==
    /\ work' = IF k = "creator" THEN Disturbed(k) ELSE [work EXCEPT ![k] = Resting]
    /\ queue' = Requeue(k)
    /\ exists' = (exists /\ k # "creator")
    /\ group' = IF k = "creator" THEN [p \in Pods |-> "none"] ELSE group
    /\ excused' = (excused \/ work[k].unclean) /\ UNCHANGED ungated

\* syncServers returns; with pods that may get ready the element is tried again.  A
\* clean sync makes up for the ones before.  The creator does not come back for pods
\* that were starting.
Returns(k, unclean) ==
    /\ work' = [work EXCEPT ![k] = Resting]
    /\ queue' = IF work[k].may THEN Requeue(k) ELSE queue
    /\ excused' = IF k = "creator" THEN excused \/ unclean \/ work[k].may ELSE unclean
    /\ UNCHANGED <<exists, group>>

\* A worker takes an element; a service that no ingress refers to is skipped.
Take(k) == /\ k \in queue /\ At(k, "idle") /\ queue' = queue \ {k}
           /\ IF used THEN GoesTo(k, "build") ELSE UNCHANGED work
           /\ NoFailure /\ UNCHANGED <<pods, view, used, exists, group, hist>>

\* The creator: an empty group, with its tags.
CreateServerGroup == /\ used /\ ~exists /\ At("creator", "idle")
                     /\ exists' = TRUE /\ GoesTo("creator", "build")
                     /\ NoFailure /\ UNCHANGED <<pods, view, used, group, queue, hist>>

\* resolvePodEndpoints: addresses, and those not ready whose containers are.
Resolved == Endpoints.addresses \cup
            {p \in Endpoints.notReadyAddresses : \E q \in InStore(p) : store[q] = "waiting"}

\* containsPotentialReadyEndpoints.
Potential == Endpoints.notReadyAddresses \ Resolved # {}

Unknown == {p \in Pods : pod[p] # "absent" /\ InStore(p) = {}}

\* BuildServicePortSDKBackends.  A pod the store does not know is an error.  The creator
\* removes nobody.
Build(k) ==
    /\ At(k, "build")
    /\ \/ /\ Unknown = {}
          /\ unseen' = (~Fresh \/ (unseen /\ k = "creator" /\ Present \ Resolved # {}))
          /\ work' = [Disturbed(k) EXCEPT ![k] =
                 [Resting EXCEPT !.pc = IF k = "creator" THEN "register" ELSE "list",
                                 !.want = Resolved, !.may = Potential,
                                 !.add = IF k = "creator" THEN Resolved ELSE {},
                                 !.unclean = \/ \E i \in Procs \ {k} : Busy(i)
                                             \/ k = "creator" /\ Resolved \cap Removing # {}]]
          /\ NoFailure /\ UNCHANGED <<exists, group, queue, hist>>
       \/ Unknown # {} /\ NoFailure /\ SyncFails(k) /\ UNCHANGED unseen
       \/ Failure /\ SyncFails(k) /\ UNCHANGED unseen
    /\ UNCHANGED <<pods, store, used>>

\* Mutant: servers that are wanted are replaced as well.
UnmatchedTargetsAll(want) == Present \ Removing

\* matchEndpointWithTargets.  A server that is being removed counts as there, and is
\* not removed again.
UnmatchedTargets(want) == (Present \ want) \ Removing
UnmatchedEndpoints(want) == want \ Present

\* Apply of the service: the groups that carry its tags, none before one is created.
OfTheGroup(S) == IF exists THEN S ELSE {}

\* Apply of a group's servers.  If there is none to add, nobody looks at the conditions
\* of the pods.
ListServers(k) ==
    /\ At(k, "list")
    /\ \/ LET w   == work[k]
              add == OfTheGroup(UnmatchedEndpoints(w.want))
              del == OfTheGroup(UnmatchedTargets(w.want))
              unclean == w.unclean \/ w.want \cap Removing # {}
              few(S) == Cardinality(S) \in 1 .. replaceMaxNum - 1
          IN  /\ NoFailure
              /\ ungated' = IF add = {} THEN ungated \cup ((w.want \cap Present) \ gate) ELSE ungated
              /\ \/ add = {} /\ del = {} /\ Returns(k, unclean)
                 \/ /\ add # {} \/ del # {}
                    /\ work' = [work EXCEPT ![k].add = add, ![k].del = del, ![k].unclean = unclean,
                          ![k].pc = IF few(add) /\ few(del) THEN "replace"
                                    ELSE IF del = {} THEN "register" ELSE "deregister"]
                    /\ UNCHANGED <<exists, group, queue, excused>>
       \/ Failure /\ SyncFails(k)
    /\ UNCHANGED <<pods, view, used>>

\* The servers after a call: those to be added that are not there, those to be
\* removed that are.
Called(add, del) == [p \in Pods |->
    IF p \in add /\ group[p] = "none" THEN "adding"
    ELSE IF p \in del /\ group[p] \in {"adding", "available"} THEN "removing"
    ELSE group[p]]

\* The call is as the group is: nobody else has changed it.
InOrder(add, del) == /\ exists /\ \A p \in add : group[p] = "none"
                     /\ \A p \in del : group[p] \in {"adding", "available"}

\* One call, after which the process waits.
Call(k, add, del, next) ==
    \/ /\ exists /\ NoFailure
       /\ group' = Called(add, del)
       /\ work' = [work EXCEPT ![k] = [next EXCEPT !.pc = "wait", !.call = add \cup del]]
       /\ UNCHANGED <<exists, queue, hist>>
    \/ ~InOrder(add, del) /\ NoFailure /\ SyncFails(k)
    \/ Failure /\ SyncFails(k)

Replace(k) == /\ At(k, "replace")
              /\ Call(k, work[k].add, work[k].del, [work[k] EXCEPT !.add = {}, !.del = {}])
              /\ UNCHANGED <<pods, view, used>>

\* BatchRegisterServers and BatchDeregisterServers.
Batches(S) == {B \in SUBSET S : \/ Cardinality(B) = BatchNum
                                \/ B = S /\ Cardinality(B) \in 1 .. BatchNum}

Deregister(k) ==
    /\ At(k, "deregister")
    /\ \E B \in Batches(work[k].del) : Call(k, {}, B, [work[k] EXCEPT !.del = @ \ B])
    /\ UNCHANGED <<pods, view, used>>

\* The creator may have nothing to register.
Register(k) ==
    /\ At(k, "register")
    /\ \/ \E B \in Batches(work[k].add) : Call(k, B, {}, [work[k] EXCEPT !.add = @ \ B])
       \/ /\ work[k].add = {} /\ NoFailure
          /\ Returns(k, work[k].unclean) /\ UNCHANGED ungated
    /\ UNCHANGED <<pods, view, used>>

\* The servers of the last call are all available, or gone.
Completed(k) == \A p \in work[k].call : group[p] = IF p \in work[k].want THEN "available" ELSE "none"

\* Mutant: the conditions are set after the first batch.
AfterWaitEarly(k) == IF work[k].del # {} THEN "deregister" ELSE "gate"

\* What follows a call: the next batch, or the conditions of the pods if any servers
\* were added.
AfterWait(k) == IF work[k].del # {} THEN "deregister"
                ELSE IF work[k].add # {} THEN "register"
                ELSE IF work[k].call \cap work[k].want # {} THEN "gate" ELSE "return"

\* Polling until the job is done, or for so long; a listing that fails is an error.
Wait(k) ==
    /\ At(k, "wait")
    /\ \/ /\ (Completed(k) /\ NoFailure) \/ Failure
          /\ IF AfterWait(k) = "return"
             THEN Returns(k, work[k].unclean) /\ UNCHANGED ungated
             ELSE /\ work' = [work EXCEPT ![k].pc = AfterWait(k), ![k].call = {}]
                  /\ UNCHANGED <<exists, group, queue, hist>>
       \/ Failure /\ SyncFails(k)
    /\ UNCHANGED <<pods, view, used>>

\* The pods that have the name of one of S now.
ByName(S) == {q \in Pods : pod[q] # "absent" /\ \E p \in S : name[q] = name[p]}

\* updateTargetHealthPodCondition, for the pods of all servers that should be there.  A
\* pod whose patch fails is passed over, and so is one that the manager's client does
\* not have yet.
SetGates(k) ==
    /\ At(k, "gate")
    /\ \E S \in SUBSET ByName(work[k].want) :
          /\ gate' = gate \cup S
          /\ ungated' = (ungated \cup ByName(work[k].want)) \ gate'
    /\ NoFailure /\ Returns(k, work[k].unclean)
    /\ UNCHANGED <<pod, view, used>>

\* Another process takes over: all objects are new to its informers, but an event is
\* dropped if that of its service comes later.
TakeOver ==
    /\ Failure
    /\ work' = [k \in Procs |-> Resting]
    /\ queue' \in SUBSET Kinds /\ unseen' = (queue' = {})
    /\ store' = [p \in Pods |-> Shown(p)]
    /\ UNCHANGED <<pods, used, exists, group, hist>>

-----------------------------------------------------------------------------
ServersInit == /\ \E s \in ServerStarts : /\ gate = s.served /\ name = s.names
                                          /\ moves = s.moves /\ failures = s.faults
               /\ used = (gate # {}) /\ exists = used
               /\ pod = [p \in Pods |-> IF p \in gate THEN "ready" ELSE "absent"]
               /\ group = [p \in Pods |-> IF p \in gate THEN "available" ELSE "none"]
               /\ store = [p \in Pods |-> Shown(p)] /\ unseen = FALSE
               /\ queue = {} /\ work = [k \in Procs |-> Resting]
               /\ ungated = {} /\ excused = FALSE
               /\ replaceMaxNum \in ReplaceMaxNums

Process(k) == \/ Build(k) \/ ListServers(k) \/ Replace(k) \/ Deregister(k) \/ Register(k)
              \/ Wait(k) \/ SetGates(k)

Pod(p) == ContainersReady(p) \/ PodReady(p) \/ StartPod(p) \/ PodFails(p) \/ StopPod(p)

ServersNext == \/ \E k \in Procs : Process(k)
               \/ \E k \in Kinds : Take(k) \/ OtherEvent(k)
               \/ CreateServerGroup
               \/ \E p \in Pods : Pod(p) \/ StoreCatchesUp(p) \/ JobEnds(p)
               \/ UseService \/ TakeOver

\* Workers go on and are served in turn, informers deliver, jobs end, and kubelets
\* report a pod that is ready.  Containers need never get ready.
ServersFairness == /\ \A k \in Procs : WF_serverVars(Process(k) /\ NoFailure)
                   /\ \A k \in Kinds : WF_serverVars(Take(k))
                   /\ WF_serverVars(CreateServerGroup)
                   /\ \A p \in Pods : WF_serverVars(StoreCatchesUp(p)) /\ WF_serverVars(JobEnds(p)) /\ WF_serverVars(PodReady(p))

ServersSpec == ServersInit /\ [][ServersNext]_serverVars /\ ServersFairness

-----------------------------------------------------------------------------
\* Types; a process that is calling knows the group.
ServersTypeOK ==
    /\ pod \in [Pods -> {"absent", "starting", "waiting", "ready"}]
    /\ gate \subseteq Pods /\ ungated \subseteq Pods /\ excused \in BOOLEAN
    /\ group \in [Pods -> {"none", "adding", "available", "removing"}]
    /\ store \in [Pods -> {"absent", "starting", "waiting"}] /\ unseen \in BOOLEAN
    /\ \A p, q \in Pods : p # q /\ name[p] = name[q] => store[p] = "absent" \/ store[q] = "absent"
    /\ used \in BOOLEAN /\ exists \in BOOLEAN /\ queue \subseteq Kinds
    /\ \A k \in Procs : work[k].add \subseteq work[k].want /\ work[k].del \cap work[k].want = {}
    /\ exists => used
    /\ ~exists => Present = {}

\* The readiness gate holds a pod back until the load balancer can reach it: the
\* condition is set only for pods with a server in the group, unless another process
\* has been at the group, or the pod was found by the name of another, whose place it
\* has taken since.
Replaced(k, p) == \E q \in work[k].want \ {p} : name[q] = name[p]
GateMeansRegistered ==
    [][\A p \in gate' \ gate :
          \/ group[p] \in {"adding", "available"}
          \/ \E k \in Procs : At(k, "gate") /\ (work[k].unclean \/ Replaced(k, p))]_serverVars

\* The servers are the pods whose containers are ready, and these pods have been told
\* so, or something went wrong on the way to telling them.
Right == /\ {p \in Pods : group[p] = "available"} = {p \in Pods : pod[p] \in {"waiting", "ready"}}
         /\ \A p \in Pods : pod[p] = "waiting" => p \in ungated

\* Once the group is created it comes to hold the right servers, and stays that way,
\* unless the last to work on it were several, or a server that was on its way out is
\* wanted again, or it was filled while a pod was starting and there has been no event
\* since; or there has been a change that made no event, or one that was dropped, or
\* the store was behind when it was dealt with.
ServersConverge ==
    <>[](exists /\ At("creator", "idle")
            => Right \/ unseen \/ excused \/ \E k \in Procs : work[k].unclean)
=============================================================================
