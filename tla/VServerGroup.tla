---------------------------- MODULE VServerGroup ----------------------------
(***************************************************************************)
(* A vserver group that a user made and that several Services reuse        *)
(* (annotation vgroup-port): every service's reconcile reads the group,    *)
(* computes the difference to the backends it wants and sends it in        *)
(* batches, without a lock, under the limit of backends per instance.      *)
(* ClbService shows the reconcile around this; here it is the part from    *)
(* BuildLocalModel to cleanup, with one action per call to the cloud.      *)
(*                                                                         *)
(* Simplifications:                                                        *)
(*  - a backend is a server (an ECS instance, or an ENI and its address)   *)
(*    with a port (NodePort or target port); its description is the name   *)
(*    of the service that wrote it, its owner;                             *)
(*  - the backends a service wants (endpoints, nodes, weights) are one     *)
(*    value of Wants; two services, or a service and the user, may want    *)
(*    the same server and port, as services with the ENI policy do that    *)
(*    select the same pods;                                                *)
(*  - a batch is any ServerGroupBatchSize members of the list to send.     *)
(***************************************************************************)
EXTENDS Integers, FiniteSets

CONSTANTS Svcs,                  \* the services that reuse the group
          User,                  \* the owner of the other backends
          Servers, Ports, Weights,
          Wants,                 \* what each service may want: sets of
                                 \* <<server, port, weight>>
          UserBackends,          \* what the user puts into the group: <<server, port>>
          BatchSize,             \* ControllerCFG.ServerGroupBatchSize
          Limit,                 \* backends the cloud allows
          LeaveModes,            \* how a service may stop using the group
          MaxEdits, MaxFaults    \* bounds on what the users do, on failing calls

Owners == Svcs \cup {User}

\* A service wants a server and port once.
ASSUME WantsAssumption ==
    /\ User \notin Svcs
    /\ \A s \in Svcs : \A w \in Wants[s] :
          /\ w \subseteq Servers \X Ports \X Weights
          /\ \A x, y \in w : x[1] = y[1] /\ x[2] = y[2] => x = y

ASSUME SizeAssumption ==
    /\ BatchSize \in Nat \ {0} /\ Limit \in Nat
    /\ MaxEdits \in Nat /\ MaxFaults \in Nat
    /\ LeaveModes \subseteq {"dropped", "deleted"}
    /\ Weights # {} /\ UserBackends \subseteq Servers \X Ports

Backends == [server : Servers, port : Ports, weight : Weights, owner : Owners]

VARIABLES
    group,   \* the backends of the group
    want,    \* what each service wants now
    mode,    \* "uses": the annotation names the group; "dropped"; "deleted"
    queued,  \* services in the work queue
    pc,      \* next call of each service's reconcile
    job,     \* local variables of each service's reconcile
    edits, faults

vars == <<group, want, mode, queued, pc, job, edits, faults>>

Wishes == {f \in [Svcs -> UNION {Wants[s] : s \in Svcs}] :
             \A s \in Svcs : f[s] \in Wants[s]}

Modes == {"uses", "dropped", "deleted"}

\* local: the backends wanted; mine: those of the service's own that were read.
Jobs == [local : SUBSET Backends, mine : SUBSET Backends, mode : Modes,
         add : SUBSET Backends, del : SUBSET Backends, update : SUBSET Backends,
         todo : SUBSET Backends,
         retryAdd : BOOLEAN, err : BOOLEAN]

\* The calls of one reconcile in their order.
StepNo == [idle |-> 0, read |-> 1, add |-> 2, del |-> 3, update |-> 4, retry |-> 5]
Steps == DOMAIN StepNo
BatchSteps == {"add", "del", "update", "retry"}

\* The list that a step of UpdateVServerGroup sends.
ListOf(j, step) ==
    CASE step = "add" -> j.add [] step = "del" -> j.del [] step = "update" -> j.update
      [] step = "retry" -> IF j.retryAdd THEN j.add ELSE {}

\* Every variable holds a value of its type; a group has one backend per server
\* and port; a step is taken only for a list with something left to send.
TypeOK ==
    /\ group \subseteq Backends
    /\ \A b, c \in group : b.server = c.server /\ b.port = c.port => b = c
    /\ want \in Wishes
    /\ mode \in [Svcs -> Modes]
    /\ queued \subseteq Svcs
    /\ pc \in [Svcs -> Steps]
    /\ job \in [Svcs -> Jobs]
    /\ \A s \in Svcs : pc[s] \in BatchSteps =>
         job[s].todo # {} /\ job[s].todo \subseteq ListOf(job[s], pc[s])
    /\ edits \in 0..MaxEdits
    /\ faults \in 0..MaxFaults

-----------------------------------------------------------------------------
SameKey(b, c) == b.server = c.server /\ b.port = c.port
KeyIn(b, S) == \E c \in S : SameKey(b, c)

\* The backends of the local model of service s.
Local(s) ==
    {[server |-> x[1], port |-> x[2], weight |-> x[3], owner |-> s] : x \in want[s]}

IsBackendManagedByMyService(s, b) == b.owner = s

Own(s) == {b \in group : IsBackendManagedByMyService(s, b)}

Additions(local) == {l \in local : ~KeyIn(l, group)}

\* Mutant: the backends of the others are compared too.
DeletionsOfAll(s, local) == {r \in group : ~KeyIn(r, local)}

Deletions(s, local) == {r \in Own(s) : ~KeyIn(r, local)}

\* diff asks for an update of every backend whose server is in the group with
\* another port, weight or description, its own entry or not.
Updates(local) ==
    {l \in local : \E r \in group :
        /\ l.server = r.server
        /\ l.port # r.port \/ l.weight # r.weight \/ l.owner # r.owner}

\* Batch: the next chunk of the list.
Batches(S) ==
    {B \in SUBSET S : B # {} /\ (Cardinality(B) = BatchSize \/ (B = S /\ Cardinality(S) < BatchSize))}

\* What the cloud makes of the three calls.
AddServers(B) == group \cup {b \in B : ~KeyIn(b, group)}
OverLimit(B) == Cardinality(AddServers(B)) > Limit
RemoveServers(B) == {b \in group : ~KeyIn(b, B)}
SetServers(B) == RemoveServers(B) \cup B

NoJob == [local |-> {}, mine |-> {}, mode |-> "uses", add |-> {}, del |-> {}, update |-> {},
          todo |-> {}, retryAdd |-> FALSE, err |-> FALSE]

-----------------------------------------------------------------------------
(* The users.                                                              *)

Edit == edits < MaxEdits /\ edits' = edits + 1 /\ UNCHANGED faults

\* Endpoints, nodes or the weight annotation change.
WantChanges(s) ==
    /\ Edit
    /\ mode[s] # "deleted"
    /\ \E w \in Wants[s] \ {want[s]} : want' = [want EXCEPT ![s] = w]
    /\ queued' = queued \cup {s}
    /\ UNCHANGED <<group, mode, pc, job>>

\* The user takes the group out of the annotation, or deletes the service.
Leave(s, m) ==
    /\ Edit
    /\ mode[s] = "uses"
    /\ mode' = [mode EXCEPT ![s] = m]
    /\ queued' = queued \cup {s}
    /\ UNCHANGED <<group, want, pc, job>>

UserBackend(v) == [server |-> v[1], port |-> v[2],
                   weight |-> CHOOSE w \in Weights : TRUE, owner |-> User]

\* The user removes a backend of hers, or puts it back.
UserEdit ==
    /\ Edit
    /\ \E b \in {UserBackend(v) : v \in UserBackends} :
         \/ b \in group /\ group' = group \ {b}
         \/ ~KeyIn(b, group) /\ ~OverLimit({b}) /\ group' = group \cup {b}
    /\ UNCHANGED <<want, mode, queued, pc, job>>

-----------------------------------------------------------------------------
(* One reconcile of service s.                                             *)

Goto(s, next, j) == pc' = [pc EXCEPT ![s] = next] /\ job' = [job EXCEPT ![s] = j]

Quiet == UNCHANGED <<want, mode, edits>>

\* The end of the reconcile: an error puts the service back into the queue.
Finish(s, j) ==
    /\ Goto(s, "idle", NoJob)
    /\ queued' = IF j.err THEN queued \cup {s} ELSE queued

\* Mutant: an empty list is sent.
ProceedAlways(s, j) ==
    LET due == {x \in BatchSteps : StepNo[x] > StepNo[pc[s]]}
    IN  IF due = {} THEN Finish(s, j)
        ELSE LET next == CHOOSE x \in due : \A y \in due : StepNo[x] <= StepNo[y]
             IN  Goto(s, next, [j EXCEPT !.todo = ListOf(j, next)]) /\ UNCHANGED queued

\* UpdateVServerGroup after the present step: empty lists are skipped.
Proceed(s, j) ==
    LET due == {x \in BatchSteps : StepNo[x] > StepNo[pc[s]] /\ ListOf(j, x) # {}}
    IN  IF due = {} THEN Finish(s, j)
        ELSE LET next == CHOOSE x \in due : \A y \in due : StepNo[x] <= StepNo[y]
             IN  Goto(s, next, [j EXCEPT !.todo = ListOf(j, next)]) /\ UNCHANGED queued

\* The reconcile starts: the service and the backends it wants are read
\* (BuildLocalModel).
Start(s) ==
    /\ s \in queued
    /\ pc[s] = "idle"
    /\ queued' = queued \ {s}
    /\ Goto(s, "read", [NoJob EXCEPT !.mode = mode[s], !.local = Local(s)])
    /\ UNCHANGED <<group, faults>>
    /\ Quiet

\* DescribeVServerGroups, then diff (applyVGroups) or, for a service that is
\* going away, the backends to take out (cleanup).  Backends are read only of a
\* group that the annotation names.
ReadAndDiff(s) ==
    /\ pc[s] = "read"
    /\ LET j == job[s] IN
       CASE j.mode = "uses" ->
              Proceed(s, [j EXCEPT !.mine = Own(s), !.add = Additions(j.local),
                                   !.del = Deletions(s, j.local),
                                   !.update = Updates(j.local)])
         [] j.mode = "deleted" ->
              Proceed(s, [j EXCEPT !.mine = Own(s), !.del = Deletions(s, {})])
         [] j.mode = "dropped" -> Finish(s, j)
    /\ UNCHANGED <<group, faults>>
    /\ Quiet

\* One batch of the list is done, well or badly; then the next one or the next
\* list.  Batch goes on after an error; errors of the additions count for nothing
\* when the limit was one of them.
After(s, B, j) ==
    IF j.todo # B THEN Goto(s, pc[s], [j EXCEPT !.todo = @ \ B]) /\ UNCHANGED queued
    ELSE Proceed(s, IF pc[s] = "add" /\ j.retryAdd THEN [j EXCEPT !.err = FALSE] ELSE j)

\* Mutant: a refused batch is not sent again after the deletions.
AddNoRetry(s) ==
    \E B \in Batches(job[s].todo) :
        /\ pc[s] \in {"add", "retry"}
        /\ group' = IF OverLimit(B) THEN group ELSE AddServers(B)
        /\ After(s, B, job[s])
        /\ UNCHANGED faults
        /\ Quiet

\* BatchAddVServerGroupBackendServers: a batch over the limit is refused as a
\* whole; the first time the list is sent again after the deletions, the second
\* time it is an error.
Add(s) ==
    \E B \in Batches(job[s].todo) :
        /\ pc[s] \in {"add", "retry"}
        /\ IF OverLimit(B)
           THEN /\ After(s, B, IF pc[s] = "add" THEN [job[s] EXCEPT !.retryAdd = TRUE]
                                                ELSE [job[s] EXCEPT !.err = TRUE])
                /\ UNCHANGED group
           ELSE After(s, B, job[s]) /\ group' = AddServers(B)
        /\ UNCHANGED faults
        /\ Quiet

\* BatchRemoveVServerGroupBackendServers, of diff's deletions or of cleanup.
Remove(s) ==
    \E B \in Batches(job[s].todo) :
        /\ pc[s] = "del"
        /\ group' = RemoveServers(B)
        /\ After(s, B, job[s])
        /\ UNCHANGED faults
        /\ Quiet

\* BatchUpdateVServerGroupBackendServers: a backend that is not there is an
\* error.
Update(s) ==
    \E B \in Batches(job[s].todo) :
        /\ pc[s] = "update"
        /\ IF \A b \in B : KeyIn(b, group)
           THEN group' = SetServers(B) /\ After(s, B, job[s])
           ELSE After(s, B, [job[s] EXCEPT !.err = TRUE]) /\ UNCHANGED group
        /\ UNCHANGED faults
        /\ Quiet

\* A call fails and leaves no effect: reading ends the reconcile, a batch does
\* not keep the next ones from being sent.
CallFails(s) ==
    /\ faults < MaxFaults
    /\ faults' = faults + 1
    /\ \/ pc[s] = "read" /\ Finish(s, [NoJob EXCEPT !.err = TRUE])
       \/ /\ pc[s] \in BatchSteps
          /\ \E B \in Batches(job[s].todo) : After(s, B, [job[s] EXCEPT !.err = TRUE])
    /\ UNCHANGED group
    /\ Quiet

\* The process dies and another replica reconciles every service again.
Restart ==
    /\ faults < MaxFaults
    /\ faults' = faults + 1
    /\ pc' = [s \in Svcs |-> "idle"]
    /\ job' = [s \in Svcs |-> NoJob]
    /\ queued' = Svcs
    /\ UNCHANGED group
    /\ Quiet

-----------------------------------------------------------------------------
Init ==
    /\ group = {UserBackend(v) : v \in UserBackends}
    /\ want \in Wishes
    /\ mode = [s \in Svcs |-> "uses"]
    /\ queued = Svcs
    /\ pc = [s \in Svcs |-> "idle"]
    /\ job = [s \in Svcs |-> NoJob]
    /\ edits = 0
    /\ faults = 0

Work(s) == Start(s) \/ ReadAndDiff(s) \/ Add(s) \/ Remove(s) \/ Update(s)

Users ==
    \/ \E s \in Svcs : WantChanges(s) \/ \E m \in LeaveModes : Leave(s, m)
    \/ UserEdit

Next == Users \/ (\E s \in Svcs : Work(s) \/ CallFails(s)) \/ Restart

Spec == Init /\ [][Next]_vars

\* The workers go on as long as there is something in the queue.
FairSpec == Spec /\ \A s \in Svcs : WF_vars(Work(s))

-----------------------------------------------------------------------------
\* The description is all that tells whose a backend is.  A service removes only
\* what was its own when it read the group, and writes over a backend only when it
\* wants that server and port itself: others lose a backend to it in those two ways
\* and no other, whatever happened to the group since (diff,
\* isBackendManagedByMyService).
OthersUntouched ==
    [][\A b \in group \ group' :
         \/ b.owner = User /\ edits' # edits
         \/ \E s \in Svcs :
              /\ <<pc[s], job[s]>> # <<pc'[s], job'[s]>>
              /\ IF KeyIn(b, group') THEN KeyIn(b, job[s].local) ELSE KeyIn(b, job[s].mine)]_vars

\* Another owner may want the server and port of b.
Contested(b) ==
    \/ b.owner # User /\ <<b.server, b.port>> \in UserBackends
    \/ \E t \in Svcs \ {b.owner} : \E w \in Wants[t] :
          \E x \in w : x[1] = b.server /\ x[2] = b.port

\* What the services that use the group want, with what the user and the services
\* that have dropped it have in it, is more than the cloud allows.
Crowded ==
    LET kept == {b \in group : b.owner = User \/ mode[b.owner] = "dropped"}
        local == UNION {Local(s) : s \in {t \in Svcs : mode[t] = "uses"}}
    IN  Cardinality({<<b.server, b.port>> : b \in kept \cup local}) > Limit

\* Once the users and the cloud leave them alone, every service that uses the
\* group has in it what it wants and nobody else may want, with the weights it
\* wants, and nothing else; a deleted one has nothing in it.  That holds though the
\* limit leaves no room to add before removing and the other services compete for
\* that room (UpdateVServerGroup), unless there is too little of it in the end.
GroupConverges ==
    <>[](\A s \in Svcs :
            /\ mode[s] = "uses" =>
                  \/ /\ Own(s) \subseteq Local(s)
                     /\ \A b \in Local(s) : b \in group \/ Contested(b)
                  \/ Crowded
            /\ mode[s] = "deleted" => Own(s) = {})
=============================================================================
