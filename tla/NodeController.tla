--------------------------- MODULE NodeController ---------------------------
(***************************************************************************)
(* The cloud-node controller (pkg/controller/node): workers that initialise *)
(* nodes which register with the cloud taint, and a pass every few minutes  *)
(* over all nodes that have a provider id, in batches, which keeps their    *)
(* addresses and removes those whose instance is gone.                      *)
(*                                                                         *)
(* Only the creation of a node is an event.  Every write is a patch by the  *)
(* name of the node, whichever object has that name by then, and so is the  *)
(* deletion, which a goroutine sends later.                                 *)
(*                                                                         *)
(* Simplifications:                                                        *)
(*  - labels, other taints and the list of addresses are left out: addr is  *)
(*    the instance whose addresses the node shows;                         *)
(*  - the patch at the end of a pass reads and writes in one step, that of  *)
(*    a worker reads, writes the spec and writes the status;               *)
(*  - the exclude label and the provided-node-ip annotation do not change,  *)
(*    and the condition Ready is there from the start.                     *)
(***************************************************************************)
EXTENDS Integers, Sequences, FiniteSets

CONSTANTS MaxNames,   \* bound: nodes have at most the names 1 .. MaxNames, listed in that order
          Setups,     \* how the kubelet of each name is configured: one of these
          BatchSize,  \* MAX_BATCH_NUM
          CfgRoute,   \* --configure-cloud-routes
          MaxUid,     \* bound: node objects ever registered
          MaxFaults,  \* bound: failing calls and restarts, by the number of names
          Absent, NoId, BadId, NoWork

ASSUME NodeAssumption ==
    /\ MaxNames \in Nat \ {0} /\ BatchSize \in Nat \ {0} /\ CfgRoute \in BOOLEAN
    /\ MaxUid \in Nat /\ MaxFaults \in [1 .. MaxNames -> Nat]
    /\ {Absent, NoId, BadId, NoWork} \cap (0 .. MaxUid) = {} /\ NoId # BadId
    /\ \A s \in Setups : Len(s) \in 1 .. MaxNames /\ \A n \in DOMAIN s :
          /\ s[n].id \in {"given", "none", "bad"}   \* kubelet's --provider-id
          /\ s[n].ip \in BOOLEAN     \* posts its internal IP at once
          /\ s[n].excl \in BOOLEAN   \* has the exclude label
          /\ s[n].prov \in BOOLEAN   \* the IP it was given is the instance's

Names == 1 .. MaxNames
Ids == 1 .. MaxUid    \* instances and objects, numbered as they are made

VARIABLES
    node,     \* the Node object of each name
    alive,    \* the ECS instances that exist
    setup,    \* a member of Setups
    made,     \* how many objects and instances have been made
    queue,    \* names in the work queue
    work,     \* the reconcile of each name
    pass,     \* the periodic pass
    doomed,   \* deletions that goroutines have still to send
    unfound,  \* names without id that had no address when they were looked at
    faults

vars == <<node, alive, setup, made, queue, work, pass, doomed, unfound, faults>>

\* ip: posted its internal IP; unknown: the status of condition Ready.
Objects == [uid : Ids, ins : Ids, id : Ids \cup {NoId, BadId}, taint : BOOLEAN,
            ip : BOOLEAN, unknown : BOOLEAN, addr : {0} \cup Ids,
            net : {"none", "true", "false"}]

ASSUME AbsentAssumption == Absent \notin Objects

\* What is used of an object after it was read.
Seen(obj) == [uid |-> obj.uid, id |-> obj.id, unknown |-> obj.unknown]

IdlePass == [pc |-> "idle", batch |-> {}, left |-> {}, seen |-> {}]
NextBatch(list) == [pc |-> "batch", batch |-> {}, left |-> list, seen |-> {}]

Unchanged == <<alive, setup, made>>
World == <<node, Unchanged>>
Fault == faults < MaxFaults[Len(setup)] /\ faults' = faults + 1
NoFault == UNCHANGED faults

-----------------------------------------------------------------------------
(* Kubelets, the cloud, the node lifecycle controller and users.            *)

\* On a new machine, or again on one that has lost its node.  needAdd: the object
\* has the cloud taint.
Register(n) ==
    /\ n \in DOMAIN setup /\ node[n] = Absent /\ made.uid < MaxUid
    /\ \E i \in Ids :
          /\ \/ i = made.ins + 1
             \/ i \in alive /\ \A m \in Names : node[m] # Absent => node[m].ins # i
          /\ made' = [uid |-> made.uid + 1, ins |-> IF i > made.ins THEN i ELSE made.ins]
          /\ alive' = alive \cup {i}
          /\ node' = [node EXCEPT ![n] = LET k == setup[n] IN
                [uid |-> made.uid + 1, ins |-> i, taint |-> TRUE,
                 id |-> CASE k.id = "given" -> i [] k.id = "none" -> NoId [] OTHER -> BadId,
                 ip |-> k.ip, unknown |-> FALSE, addr |-> 0, net |-> "none"]]
    /\ queue' = queue \cup {n}
    /\ NoFault /\ UNCHANGED <<setup, work, pass, doomed, unfound>>

Change(n, obj) == /\ node' = [node EXCEPT ![n] = obj]
                  /\ NoFault /\ UNCHANGED <<Unchanged, queue, work, pass, doomed, unfound>>

\* A kubelet posts its address and readiness.
Post(n) == /\ node[n] # Absent /\ node[n].ins \in alive
           /\ ~node[n].ip \/ node[n].unknown
           /\ Change(n, [node[n] EXCEPT !.ip = TRUE, !.unknown = FALSE])

\* A kubelet is not heard of.
Unheard(n) == /\ node[n] # Absent /\ ~node[n].unknown
              /\ Change(n, [node[n] EXCEPT !.unknown = TRUE])

RemoveNode(n) == node[n] # Absent /\ Change(n, Absent)

Release(i) == /\ i \in alive /\ alive' = alive \ {i}
              /\ NoFault /\ UNCHANGED <<node, setup, made, queue, work, pass, doomed, unfound>>

\* The route controller has made the routes of a node and says so.
RouteCreated(n) ==
    /\ CfgRoute /\ node[n] # Absent /\ node[n].net # "false"
    /\ ~setup[n].excl /\ node[n].id \in Ids
    /\ Change(n, [node[n] EXCEPT !.net = "false"])

-----------------------------------------------------------------------------
(* Patches.                                                                 *)

\* Mutant: nodes with the exclude label are marked as well.
SetFieldsExcluded(n, obj, i, route) ==
    [id    |-> IF obj.id = NoId THEN i ELSE NoId,
     taint |-> obj.taint,
     net   |-> route /\ obj.net # "false"]

\* setFields: what the patch for an object as it was read will change.  The id is
\* set if there was none, the cloud taint goes, and the network is declared
\* unavailable unless it was known to be available.
SetFields(n, obj, i, route) ==
    [id    |-> IF obj.id = NoId THEN i ELSE NoId,
     taint |-> obj.taint,
     net   |-> route /\ ~setup[n].excl /\ obj.net # "false"]

\* The API server lets nobody change an id that is set.
Refused(obj, p) == p.id # NoId /\ obj.id \notin {NoId, p.id}

PatchSpec(obj, p) == [obj EXCEPT !.id = IF p.id = NoId THEN @ ELSE p.id,
                                 !.taint = @ /\ ~p.taint]
PatchStatus(obj, p) == [obj EXCEPT !.net = IF p.net THEN "true" ELSE @]

-----------------------------------------------------------------------------
(* A worker.                                                                *)
NoPatch == [id |-> NoId, taint |-> FALSE, net |-> FALSE]
NoObj == [uid |-> 0, id |-> NoId, unknown |-> FALSE]
At(n, pc) == work[n] # NoWork /\ work[n].pc = pc
Goto(n, pc) == work' = [work EXCEPT ![n].pc = pc] /\ UNCHANGED queue
ReturnOK(n) == work' = [work EXCEPT ![n] = NoWork] /\ UNCHANGED queue

ReturnErr(n) == work' = [work EXCEPT ![n] = NoWork] /\ queue' = queue \cup {n}

\* Reconcile and syncCloudNode: a node without the taint is done.  For the others
\* the id to look for is taken, or the instance at its one internal IP.
Reconcile(n) ==
    /\ n \in queue /\ work[n] = NoWork
    /\ queue' = queue \ {n} /\ unfound' = unfound \ {n}
    /\ work' = IF node[n] = Absent \/ ~node[n].taint THEN work
               ELSE [work EXCEPT ![n] =
                       [pc |-> "find", byIp |-> node[n].id = NoId,
                        ins |-> CASE node[n].id # NoId -> node[n].id
                                  [] node[n].ip        -> node[n].ins
                                  [] OTHER             -> NoId,
                        obj |-> NoObj, patch |-> NoPatch]]
    /\ NoFault /\ UNCHANGED <<World, pass, doomed>>

\* findCloudECS.  "none": ErrNotFound; the lookup by IP reports an instance that is
\* not there as an error.
FindCloudECS(w) == CASE w.ins = BadId                      -> "error"
                     [] w.ins = NoId                       -> "none"
                     [] w.ins \in alive                    -> "found"
                     [] w.ins \in Ids \ alive /\ w.byIp    -> "error"
                     [] w.ins \in Ids \ alive /\ ~w.byIp   -> "none"

\* doAddCloudNode up to the patch.
Find(n) ==
    /\ At(n, "find")
    /\ LET res == FindCloudECS(work[n])
       IN  \/ /\ res = "none" /\ NoFault /\ ReturnOK(n)
              /\ unfound' = IF work[n].byIp THEN unfound \cup {n} ELSE unfound
           \/ /\ res = "error" \/ (res = "found" /\ ~setup[n].prov)
              /\ NoFault /\ ReturnErr(n) /\ UNCHANGED unfound
           \/ /\ res = "found" /\ setup[n].prov
              /\ NoFault /\ Goto(n, "read") /\ UNCHANGED unfound
           \/ Fault /\ ReturnErr(n) /\ UNCHANGED unfound
    /\ UNCHANGED <<World, pass, doomed>>

\* PatchM reads the node again; nothing is written if nothing would change.
ReadNode(n) ==
    /\ At(n, "read") /\ node[n] # Absent
    /\ LET p == SetFields(n, node[n], work[n].ins, CfgRoute) IN
       work' = [work EXCEPT ![n].pc = IF p = NoPatch THEN "sync" ELSE "spec",
                            ![n].obj = Seen(node[n]), ![n].patch = p]
    /\ NoFault /\ UNCHANGED <<World, queue, pass, doomed, unfound>>

\* Taint and provider id first.
WriteSpec(n) ==
    /\ At(n, "spec") /\ node[n] # Absent /\ ~Refused(node[n], work[n].patch)
    /\ node' = [node EXCEPT ![n] = PatchSpec(@, work[n].patch)]
    /\ Goto(n, "status")
    /\ NoFault /\ UNCHANGED <<Unchanged, pass, doomed, unfound>>

WriteStatus(n) ==
    /\ At(n, "status") /\ node[n] # Absent
    /\ node' = [node EXCEPT ![n] = PatchStatus(@, work[n].patch)]
    /\ work' = [work EXCEPT ![n].pc = "sync", ![n].patch = NoPatch] /\ UNCHANGED queue
    /\ NoFault /\ UNCHANGED <<Unchanged, pass, doomed, unfound>>

\* Mutant: the time is up, and that is that.
PollFailsSilently(n) ==
    /\ \/ At(n, "read") /\ node[n] = Absent /\ NoFault
       \/ At(n, "spec") /\ (IF node[n] = Absent THEN TRUE ELSE Refused(node[n], work[n].patch)) /\ NoFault
       \/ At(n, "status") /\ node[n] = Absent /\ NoFault
       \/ (\E pc \in {"read", "spec", "status"} : At(n, pc)) /\ Fault
    /\ Goto(n, "read") \/ ReturnOK(n)
    /\ UNCHANGED <<World, pass, doomed, unfound>>

\* A failing patch is tried again every five seconds, until the time is up.
PollFails(n) ==
    /\ \/ At(n, "read") /\ node[n] = Absent /\ NoFault
       \/ At(n, "spec") /\ (IF node[n] = Absent THEN TRUE ELSE Refused(node[n], work[n].patch)) /\ NoFault
       \/ At(n, "status") /\ node[n] = Absent /\ NoFault
       \/ (\E pc \in {"read", "spec", "status"} : At(n, pc)) /\ Fault
    /\ Goto(n, "read") \/ ReturnErr(n)
    /\ UNCHANGED <<World, pass, doomed, unfound>>

-----------------------------------------------------------------------------
(* syncNode for one node, of which obj is what was read.                    *)

\* The instance is not among the ones listed.
DeleteLater(n, obj) ==
    doomed' = IF obj.unknown THEN doomed \cup {[name |-> n, uid |-> obj.uid]}
              ELSE doomed

\* PatchNodeStatus, by name.
Addressed(n, i) == IF node[n] = Absent THEN node ELSE [node EXCEPT ![n].addr = i]

\* The addresses, then setFields without the network condition, for whichever object
\* has the name: what the two patches make of the nodes.
Synced(n, i) ==
    LET p == SetFields(n, node[n], i, FALSE)
    IN  IF node[n] # Absent /\ ~Refused(node[n], p)
        THEN [node EXCEPT ![n] = [PatchSpec(@, p) EXCEPT !.addr = i]]
        ELSE Addressed(n, i)

\* Either patch, or both, may fail, which the caller is not told.
HalfSynced(n, i) == {node, Addressed(n, i), [Synced(n, i) EXCEPT ![n].addr = node[n].addr]}

\* A worker ends with syncNode for the node as it was before the patch: without a
\* provider id that is an error, which is ignored like any other.
SyncOne(n) ==
    /\ At(n, "sync")
    /\ LET obj == work[n].obj IN
          \/ /\ obj.id \in alive /\ setup[n].prov /\ NoFault
             /\ node' = Synced(n, obj.id) /\ UNCHANGED doomed
          \/ /\ obj.id \in alive /\ setup[n].prov /\ node[n] # Absent /\ Fault
             /\ node' \in HalfSynced(n, obj.id) /\ UNCHANGED doomed
          \/ /\ obj.id \in Ids \ alive /\ NoFault
             /\ DeleteLater(n, obj) /\ UNCHANGED node
          \/ /\ obj.id \notin Ids \/ (obj.id \in alive /\ ~setup[n].prov)
             /\ NoFault /\ UNCHANGED <<node, doomed>>
          \/ obj.id \in Ids /\ Fault /\ UNCHANGED <<node, doomed>>
    /\ ReturnOK(n)
    /\ UNCHANGED <<Unchanged, pass, unfound>>

-----------------------------------------------------------------------------
(* The periodic pass.                                                       *)

\* NodeList: without excluded nodes and those that have no id.
NodeList ==
    LET listed == {n \in Names : node[n] # Absent /\ ~setup[n].excl /\ node[n].id # NoId}
    IN  {[name |-> n, obj |-> Seen(node[n])] : n \in listed}

PassStart ==
    /\ pass.pc = "idle" /\ NodeList # {}
    /\ pass' = NextBatch(NodeList)
    /\ NoFault /\ UNCHANGED <<World, queue, work, doomed, unfound>>

\* batchOperate: the nodes of the list in order, a batch at a time.
Before(e, list) == {f \in list : f.name < e.name}
FirstBatch == {e \in pass.left : Cardinality(Before(e, pass.left)) < BatchSize}
Listed(ids) == pass' = [pc |-> "node", batch |-> FirstBatch, left |-> pass.left \ FirstBatch,
                        seen |-> {e.obj.id : e \in FirstBatch} \cap ids]
Unparsable == \E e \in FirstBatch : e.obj.id = BadId

\* Mutant: a failing call lists no instances.
ListInstancesBlind ==
    /\ pass.pc = "batch"
    /\ \/ Unparsable /\ NoFault /\ pass' = IdlePass
       \/ ~Unparsable /\ NoFault /\ Listed(alive)
       \/ ~Unparsable /\ Fault /\ Listed({})
    /\ UNCHANGED <<World, queue, work, doomed, unfound>>

\* ListInstances for a batch: one id that cannot be parsed, or a failing call, ends
\* the pass, and with it the batches that would have followed.
ListInstances ==
    /\ pass.pc = "batch"
    /\ \/ Unparsable /\ NoFault /\ pass' = IdlePass
       \/ ~Unparsable /\ NoFault /\ Listed(alive)
       \/ ~Unparsable /\ Fault /\ pass' = IdlePass
    /\ UNCHANGED <<World, queue, work, doomed, unfound>>

\* syncNode for one node of the batch.
SyncNode ==
    /\ pass.pc = "node"
    /\ \E e \in pass.batch :
          LET n == e.name
              i == e.obj.id
          IN  /\ Before(e, pass.batch) = {}
              /\ \/ /\ i \notin pass.seen /\ NoFault
                    /\ DeleteLater(n, e.obj) /\ UNCHANGED node
                 \/ /\ i \in pass.seen /\ setup[n].prov /\ NoFault
                    /\ node' = Synced(n, i) /\ UNCHANGED doomed
                 \/ /\ i \in pass.seen /\ setup[n].prov /\ node[n] # Absent /\ Fault
                    /\ node' \in HalfSynced(n, i)
                    /\ UNCHANGED doomed
                 \/ /\ i \in pass.seen /\ ~setup[n].prov /\ NoFault
                    /\ UNCHANGED <<node, doomed>>
              /\ pass' = CASE pass.batch # {e} -> [pass EXCEPT !.batch = @ \ {e}]
                           [] pass.batch = {e} /\ pass.left # {} -> NextBatch(pass.left)
                           [] OTHER -> IdlePass
    /\ UNCHANGED <<Unchanged, queue, work, unfound>>

\* The goroutine of deleteNode.
DeleteNode(d) ==
    /\ d \in doomed /\ doomed' = doomed \ {d}
    /\ \/ NoFault /\ node' = [node EXCEPT ![d.name] = Absent]
       \/ Fault /\ UNCHANGED node
    /\ UNCHANGED <<Unchanged, queue, work, pass, unfound>>

\* Another process takes over: every node is created anew for its informer.
Restart ==
    /\ Fault
    /\ queue' = {n \in Names : node[n] # Absent /\ node[n].taint}
    /\ work' = [n \in Names |-> NoWork] /\ pass' = IdlePass
    /\ doomed' = {} /\ unfound' = {}
    /\ UNCHANGED World

-----------------------------------------------------------------------------
Init == /\ node = [n \in Names |-> Absent] /\ alive = {} /\ setup \in Setups
        /\ made = [uid |-> 0, ins |-> 0]
        /\ queue = {} /\ work = [n \in Names |-> NoWork] /\ pass = IdlePass
        /\ doomed = {} /\ unfound = {} /\ faults = 0

Worker(n) == \/ Reconcile(n) \/ Find(n) \/ ReadNode(n) \/ WriteSpec(n) \/ WriteStatus(n)
             \/ PollFails(n) \/ SyncOne(n)

Pass == PassStart \/ ListInstances \/ SyncNode

Others == \/ \E n \in Names : Register(n) \/ Post(n) \/ RemoveNode(n)
          \/ \E i \in Ids : Release(i)
          \/ Restart

Next == \/ \E n \in Names : Worker(n) \/ RouteCreated(n) \/ Unheard(n)
        \/ Pass
        \/ \E d \in doomed : DeleteNode(d)
        \/ Others

\* Workers, the pass, which starts every five minutes, and the goroutines go on; the
\* route controller serves every node in the end, and a node whose machine is gone
\* is found to be silent.
Fairness ==
    /\ \A n \in Names : /\ WF_vars(Worker(n) /\ NoFault)
                        /\ WF_vars(RouteCreated(n))
                        /\ WF_vars(Unheard(n) /\ node[n].ins \notin alive)
    /\ WF_vars(Pass /\ NoFault)
    /\ \A n \in Names, u \in Ids : WF_vars(DeleteNode([name |-> n, uid |-> u]) /\ NoFault)

Spec == Init /\ [][Next]_vars /\ Fairness

-----------------------------------------------------------------------------
\* Types; nodes that take no part in routing never have their network declared
\* unavailable, since nobody would take that back.
TypeOK ==
    /\ node \in [Names -> Objects \cup {Absent}]
    /\ alive \subseteq Ids /\ setup \in Setups
    /\ made \in [uid : 0 .. MaxUid, ins : 0 .. MaxUid]
    /\ queue \subseteq Names /\ unfound \subseteq Names /\ faults \in 0 .. MaxFaults[Len(setup)]
    /\ \A n \in Names : work[n] # NoWork =>
          /\ work[n].pc \in {"find", "read", "spec", "status", "sync"}
          /\ work[n].obj.id \in Ids \cup {NoId, BadId}
          /\ work[n].pc # "find" => work[n].ins \in Ids
    /\ pass.pc \in {"idle", "batch", "node"}
    /\ \A e \in pass.left : e.obj.id \in Ids \cup {BadId}
    /\ pass.pc = "node" => pass.batch # {}
    /\ \A d \in doomed : d.name \in Names /\ d.uid \in Ids
    /\ \A n \in Names : node[n] # Absent /\ setup[n].excl => node[n].net = "none"

\* "if cloud node has been deleted, try to delete node from cluster": the controller
\* deletes the object it looked at only if the instance with its id is gone, however
\* late the goroutine runs.  Another object of that name has no such protection.
OnlyDeadNodesDeleted ==
    [][\A d \in doomed : /\ d \notin doomed'
                         /\ node[d.name] # Absent /\ node'[d.name] = Absent
                         /\ node[d.name].uid = d.uid
                         => node[d.name].id \notin alive]_vars

\* The pass does not get as far as this node: an id that cannot be parsed is in its
\* batch or in one before.
Behind(n) ==
    \E e, f \in NodeList :
        /\ f.name = n /\ e.obj.id = BadId
        /\ Cardinality(Before(e, NodeList)) \div BatchSize
              <= Cardinality(Before(f, NodeList)) \div BatchSize

\* Initialised, with its own addresses and a network.
Ready(n) ==
    /\ node[n].id = node[n].ins /\ ~node[n].taint
    /\ ~setup[n].excl => (Behind(n) \/ node[n].addr = node[n].ins)
    /\ ~setup[n].excl /\ CfgRoute => node[n].net = "false"

\* What the controller leaves for good: a node with the id of another instance, which
\* a reconcile gave it that had begun with another object of its name; one without
\* an id that had not posted its address when it was looked at, once; one whose
\* given address is not its instance's.
LeftAlone(n) == \/ node[n].id \notin {NoId, node[n].ins}
                \/ node[n].id = NoId /\ n \in unfound
                \/ ~setup[n].prov

\* In the end every node with an instance is initialised, and no node is left whose
\* instance is gone, as far as the pass gets.
NodesConverge ==
    <>[](\A n \in Names : node[n] # Absent =>
            \/ LeftAlone(n)
            \/ IF node[n].ins \in alive THEN Ready(n)
               ELSE node[n].id = NoId \/ setup[n].excl \/ Behind(n))
=============================================================================
