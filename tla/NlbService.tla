----------------------------- MODULE NlbService -----------------------------
(***************************************************************************)
(* The NLB service controller (pkg/controller/service/nlbv2) driving one   *)
(* Service: its object, the work queue, one reconcile in progress and, in   *)
(* the cloud, the NLB instances, their listeners and the server groups,    *)
(* which are resources of their own and outlive the instance.              *)
(*                                                                         *)
(* One action per call that changes something; the reads that a reconcile  *)
(* works from later (the service, the instance found, the server groups,   *)
(* the listeners) are kept in rec as they were read.                       *)
(*                                                                         *)
(* Simplifications:                                                        *)
(*  - a reconcile reads the service and the servers at one moment; later   *)
(*    changes make what it read stale;                                     *)
(*  - the user never returns to an earlier version (ClbService has that),  *)
(*    nor adds or removes the loadbalancer-id annotation;                  *)
(*  - the attributes of an instance are one value, those of listeners and  *)
(*    server groups are left out, except the type of a group;              *)
(*  - instances carry the default name; a batch of servers is one call;    *)
(*  - dry run, readiness gates, metrics and events are left out.           *)
(***************************************************************************)
EXTENDS Integers, FiniteSets, Sequences

CONSTANTS Specs,        \* user-written parts of the service
          Ports,        \* listener ports
          Kinds,        \* server group types
          Attrs,        \* values of the attributes of an instance
          Backends,     \* servers that endpoints and nodes may give
          Scales,       \* the sequence of sets of servers they give over time
          LbIds,        \* ids of created instances
          UserLb,       \* the instance the user made
          GroupIds,     \* ids of server groups: as many as the quota allows
          MaxChanges,   \* bound: edits of the service and changes of the servers
          UserServer,   \* a server that the user adds in the console
          UserGroup,    \* the target of the user's own listeners
          UserPorts,    \* ports of the user's instance with a listener of the user
          SharedPorts,  \* bound: ports to whose groups the user adds a server
          NoLb, NoInst, NoGroup, NoLis, NoRec, NoLabel

ASSUME NlbAssumption ==
    /\ LbIds \subseteq Nat /\ GroupIds \subseteq Nat /\ Ports \subseteq Nat
    /\ UserLb \notin LbIds /\ NoLb \notin LbIds \cup {UserLb}
    /\ NoGroup \notin GroupIds /\ NoLis \notin GroupIds
    /\ UserGroup \notin GroupIds \cup {NoLis}
    /\ UserServer \notin Backends
    /\ NoLabel \notin Specs
    /\ UserPorts \subseteq Ports
    /\ Scales \in Seq(SUBSET Backends) /\ Scales # <<>>
    /\ \A s \in Specs :
          /\ s = [need |-> s.need, user |-> s.user, override |-> s.override,
                  preserve |-> s.preserve, attr |-> s.attr, ports |-> s.ports]
          /\ s.need \in {"nlb", "none"}   \* "none": the type is not LoadBalancer
          /\ s.user \in BOOLEAN           \* annotation loadbalancer-id
          /\ s.override \in BOOLEAN       \* annotation force-override-listeners
          /\ s.preserve \in BOOLEAN       \* annotation preserve-lb-on-delete
          /\ s.attr \in Attrs
          /\ DOMAIN s.ports \subseteq Ports
          /\ \A p \in DOMAIN s.ports : s.ports[p] \in Kinds

VARIABLES
    svc,     \* the Service: phase, spec, finalizer, hash label, host of the status
    past,    \* the versions the user has submitted
    eps,     \* index in Scales of what endpoints and nodes give now
    queued,  \* the key is in the work queue or waits for a retry
    rec,     \* the reconcile in progress, or NoRec
    lbs,     \* the instances
    sgs      \* the server groups

vars == <<svc, past, eps, queued, rec, lbs, sgs>>

Lbs == LbIds \cup {UserLb}
Instances == [tag : BOOLEAN, kept : BOOLEAN, prot : BOOLEAN, deleting : BOOLEAN,
              attr : Attrs, lis : [Ports -> GroupIds \cup {UserGroup, NoLis}]]
Groups == [port : Ports, kind : Kinds, tag : BOOLEAN,
           servers : SUBSET (Backends \cup {UserServer})]
Services == [phase : {"live", "deleting", "gone"}, spec : Specs, fin : BOOLEAN,
             label : Specs \cup {NoLabel}, host : Lbs \cup {NoLb}]
Steps == {"fin", "find", "off", "delete", "wait", "untag", "create", "tag", "attr",
          "list", "groups", "listeners", "clean", "label", "status", "unfin"}

Locals == UNION {[D -> GroupIds \cup {NoGroup}] : D \in SUBSET Ports}
Recs == [pc : Steps, svc : Services, servers : SUBSET Backends, lb : Lbs \cup {NoLb},
         err : BOOLEAN, seen : [GroupIds -> Groups \cup {NoGroup}],
         local : Locals, failed : SUBSET Ports,
         lis : [Ports -> GroupIds \cup {UserGroup, NoLis}]]

ASSUME NoneAssumption == NoInst \notin Instances /\ NoGroup \notin Groups /\ NoRec \notin Recs

\* Every variable holds a value of its type, the ports in work are those of the
\* version that was read, and the calls that need an instance have one.
TypeOK ==
    /\ svc \in Services
    /\ past \subseteq Specs
    /\ eps \in 1 .. Len(Scales)
    /\ queued \in BOOLEAN
    /\ lbs \in [Lbs -> Instances \cup {NoInst}]
    /\ sgs \in [GroupIds -> Groups \cup {NoGroup}]
    /\ rec \in Recs \cup {NoRec}
    /\ rec # NoRec =>
          /\ rec.pc \in {"off", "delete", "wait", "untag", "tag", "attr", "listeners"}
                => rec.lb # NoLb
          /\ DOMAIN rec.local \subseteq DOMAIN rec.svc.spec.ports
          /\ rec.failed \subseteq DOMAIN rec.svc.spec.ports

-----------------------------------------------------------------------------
(* The service (helper/service_utils.go) and the event filters.            *)

NeedNLB(s) == s.spec.need = "nlb"

NeedDeleteLoadBalancer(s) == s.phase = "deleting" \/ s.spec.need # "nlb"

\* The hash covers the annotations, the ports and the deletion timestamp.  A
\* label is never written for a service that is being deleted.
IsServiceHashChanged(s) == s.phase = "deleting" \/ s.label # s.spec

IsUserManaged(s) == s.spec.user

\* needUpdate: neither version needs an NLB, nothing is queued.
NeedUpdate(old, new) == /\ NeedNLB(old) \/ NeedNLB(new)
                        /\ old.spec # new.spec \/ old.phase # new.phase

\* needAdd, for every service when the process starts.
NeedAdd(s) == s.phase # "gone" /\ (NeedNLB(s) \/ s.fin)

-----------------------------------------------------------------------------
(* The cloud.                                                              *)

Smallest(S) == CHOOSE x \in S : \A y \in S : x <= y

Found(i) == lbs[i] # NoInst

\* A server group cannot be deleted while a listener forwards to it.
InUse(g) == \E i \in Lbs, p \in Ports : Found(i) /\ lbs[i].lis[p] = g

NoListeners == [p \in Ports |-> NoLis]
NoGroups == [g \in GroupIds |-> NoGroup]
NoPorts == [p \in {} |-> NoGroup]

\* The deletion job of an instance ends: its listeners go with it.
JobDone ==
    \E i \in Lbs :
        /\ Found(i) /\ lbs[i].deleting
        /\ lbs' = [lbs EXCEPT ![i] = NoInst]
        /\ UNCHANGED <<svc, past, eps, queued, rec, sgs>>

-----------------------------------------------------------------------------
(* The reconcile.                                                          *)

At(pc) == rec # NoRec /\ rec.pc = pc
Goto(pc) == rec' = [rec EXCEPT !.pc = pc]
ReturnErr == rec' = NoRec /\ queued' = TRUE

Deleting == NeedDeleteLoadBalancer(rec.svc)
Spec0 == rec.svc.spec
Changed == IsServiceHashChanged(rec.svc)

\* The ports of the local model: none when the service is to be cleaned up.
LocalPorts == IF Deleting THEN {} ELSE DOMAIN Spec0.ports

\* setServerGroupServers: what endpoints, slices and nodes give now (BackendSync has
\* that choice and the weights; here each port gets the same).
LocalServers == Scales[eps]

\* Mutant: the finalizer is not set first.
BeginUnguarded ==
    /\ rec = NoRec /\ queued
    /\ queued' = FALSE
    /\ rec' = IF svc.phase = "gone" THEN NoRec
              ELSE [pc |-> "find",
                    svc |-> svc, servers |-> LocalServers, lb |-> NoLb, err |-> FALSE,
                    seen |-> NoGroups, local |-> NoPorts, failed |-> {}, lis |-> NoListeners]
    /\ UNCHANGED <<svc, past, eps, lbs, sgs>>

\* Read the service, and the servers of the local model with it.  Without a
\* finalizer there is nothing to clean up.
Begin ==
    /\ rec = NoRec /\ queued
    /\ queued' = FALSE
    /\ rec' = IF svc.phase = "gone" \/ (NeedDeleteLoadBalancer(svc) /\ ~svc.fin)
              THEN NoRec
              ELSE [pc |-> IF NeedDeleteLoadBalancer(svc) \/ svc.fin THEN "find" ELSE "fin",
                    svc |-> svc, servers |-> LocalServers, lb |-> NoLb, err |-> FALSE,
                    seen |-> NoGroups, local |-> NoPorts, failed |-> {}, lis |-> NoListeners]
    /\ UNCHANGED <<svc, past, eps, lbs, sgs>>

\* A fault: an error of that read is only logged.  What goes on is an empty service,
\* which needs no NLB and has no finalizer: nothing is done and the key is forgotten.
ReadFails ==
    /\ rec = NoRec /\ queued
    /\ queued' = FALSE
    /\ UNCHANGED <<svc, past, eps, rec, lbs, sgs>>

\* AddFinalizers: the API server refuses a new finalizer on a deleted object.
AddFinalizers ==
    /\ At("fin")
    /\ svc.phase = "live"
    /\ svc' = [svc EXCEPT !.fin = TRUE]
    /\ Goto("find")
    /\ UNCHANGED <<past, eps, queued, lbs, sgs>>

\* Mutant: an instance is looked for by tag only.
CandidatesByTag ==
    IF IsUserManaged(rec.svc) THEN {UserLb} ELSE {i \in LbIds : Found(i) /\ lbs[i].tag}

\* FindNLB: by id when the annotation names one, else by tag, else by name.
\* Every instance that was made for the service carries the default name.
Candidates ==
    LET made == {i \in LbIds : Found(i)}
        tagged == {i \in made : lbs[i].tag}
    IN  IF IsUserManaged(rec.svc) THEN {UserLb} ELSE IF tagged # {} THEN tagged ELSE made

\* Mutant: the deletion does not ask whether there is an instance.
AfterFindBlind(lb) ==
    IF ~Changed THEN "list"
    ELSE IF Deleting THEN IF IsUserManaged(rec.svc) THEN "list" ELSE "off"
    ELSE IF lb = NoLb THEN "create" ELSE "attr"

\* What follows the search: the branch of applyLoadBalancerAttribute.
AfterFind(lb) ==
    IF ~Changed THEN "list"
    ELSE IF Deleting THEN IF IsUserManaged(rec.svc) \/ lb = NoLb THEN "list" ELSE "off"
    ELSE IF lb = NoLb THEN "create" ELSE "attr"

Find ==
    /\ At("find")
    /\ \/ /\ Cardinality(Candidates) = 1
          /\ \E i \in Candidates :
                /\ Found(i)
                /\ rec' = [rec EXCEPT !.lb = i, !.pc = AfterFind(i)]
       \/ /\ Candidates = {}
          /\ rec' = [rec EXCEPT !.pc = AfterFind(NoLb)]
    /\ UNCHANGED <<svc, past, eps, queued, lbs, sgs>>

\* An instance named by id that does not exist: the cleanup takes that for done,
\* whatever else the service has.
FindNothing ==
    /\ At("find")
    /\ IsUserManaged(rec.svc) /\ ~Found(UserLb)
    /\ IF Deleting THEN Goto("label") /\ UNCHANGED queued ELSE ReturnErr
    /\ UNCHANGED <<svc, past, eps, lbs, sgs>>

\* Delete and SetProtectionsOff begin by lifting the deletion protection.
ProtectionOff ==
    /\ At("off")
    /\ Found(rec.lb)
    /\ lbs' = [lbs EXCEPT ![rec.lb].prot = FALSE]
    /\ Goto(IF Spec0.preserve THEN "untag" ELSE "delete")
    /\ UNCHANGED <<svc, past, eps, queued, sgs>>

\* CleanupLoadBalancerTags: the instance is the user's from now on.
Untag ==
    /\ At("untag")
    /\ Found(rec.lb)
    /\ lbs' = [lbs EXCEPT ![rec.lb].tag = FALSE, ![rec.lb].kept = TRUE]
    /\ rec' = [rec EXCEPT !.pc = "list", !.lb = NoLb]
    /\ UNCHANGED <<svc, past, eps, queued, sgs>>

\* DeleteLoadBalancer starts a job; an instance being deleted refuses a second.
DeleteNLB ==
    /\ At("delete")
    /\ Found(rec.lb) /\ ~lbs[rec.lb].deleting /\ ~lbs[rec.lb].prot
    /\ lbs' = [lbs EXCEPT ![rec.lb].deleting = TRUE]
    /\ Goto("wait")
    /\ UNCHANGED <<svc, past, eps, queued, sgs>>

\* waitJobFinish: the job has ended, or the time is up, which is no error.
WaitJobFinish ==
    /\ At("wait")
    /\ rec' = [rec EXCEPT !.pc = "list", !.lb = NoLb]
    /\ UNCHANGED <<svc, past, eps, queued, lbs, sgs>>

\* CreateLoadBalancer: without a client token; refused for a service that has an
\* address already.
CreateNLB ==
    /\ At("create")
    /\ rec.svc.host = NoLb
    /\ {i \in LbIds : ~Found(i)} # {}
    /\ LET i == Smallest({j \in LbIds : ~Found(j)})
       IN  /\ lbs' = [lbs EXCEPT ![i] = [tag |-> FALSE, kept |-> FALSE, prot |-> TRUE,
                                         deleting |-> FALSE, attr |-> Spec0.attr,
                                         lis |-> NoListeners]]
           /\ rec' = [rec EXCEPT !.pc = "tag", !.lb = i]
    /\ UNCHANGED <<svc, past, eps, queued, sgs>>

\* TagResources; then Find by the id that was given.
TagNLB ==
    /\ At("tag")
    /\ Found(rec.lb)
    /\ lbs' = [lbs EXCEPT ![rec.lb].tag = TRUE]
    /\ Goto("list")
    /\ UNCHANGED <<svc, past, eps, queued, sgs>>

\* isNLBReusable: not an instance of Kubernetes, and not another address than the
\* one already published.
Reusable == /\ ~lbs[rec.lb].tag
            /\ rec.svc.host \in {NoLb, rec.lb}

\* NLBManager.Update: the attributes that differ.
UpdateNLB ==
    /\ At("attr")
    /\ Found(rec.lb)
    /\ IsUserManaged(rec.svc) => Reusable
    /\ lbs' = [lbs EXCEPT ![rec.lb].attr = Spec0.attr]
    /\ Goto("list")
    /\ UNCHANGED <<svc, past, eps, queued, sgs>>


-----------------------------------------------------------------------------
(* Server groups.                                                          *)

\* ListNLBServerGroups by tag.
Listed == [g \in GroupIds |-> IF sgs[g] # NoGroup /\ sgs[g].tag THEN sgs[g] ELSE NoGroup]

\* BuildRemoteModel, and the match by name of applyVGroups: of several groups of
\* one name the first in the answer.
ListServerGroups ==
    /\ At("list")
    /\ LET named(p) == {g \in GroupIds : Listed[g] # NoGroup /\ Listed[g].port = p}
       IN  \E m \in [LocalPorts -> GroupIds \cup {NoGroup}] :
              /\ \A p \in LocalPorts :
                    IF named(p) = {} THEN m[p] = NoGroup ELSE m[p] \in named(p)
              /\ rec' = [rec EXCEPT !.pc = "groups", !.seen = Listed, !.local = m]
    /\ UNCHANGED <<svc, past, eps, queued, lbs, sgs>>

\* A group that is missing, or of another type, is created.
Lacking == {p \in LocalPorts :
              rec.local[p] = NoGroup \/ rec.seen[rec.local[p]].kind # Spec0.ports[p]}
ToCreate == Lacking \ rec.failed

\* diff: the servers to add, and those to remove, the user's excepted.
ToAdd(p) == rec.servers \ rec.seen[rec.local[p]].servers
ToRemove(p) == rec.seen[rec.local[p]].servers \ (rec.servers \cup {UserServer})
ToUpdate == {p \in LocalPorts \ Lacking : ToAdd(p) # {} \/ ToRemove(p) # {}}

\* The ports one after the other.
Port == Smallest(ToCreate \cup ToUpdate)

Free == {g \in GroupIds : sgs[g] = NoGroup}

CreateServerGroup ==
    /\ At("groups")
    /\ ToCreate \cup ToUpdate # {}
    /\ Port \in ToCreate
    /\ Free # {}
    /\ LET g == Smallest(Free)
           new == [port |-> Port, kind |-> Spec0.ports[Port], tag |-> TRUE, servers |-> {}]
       IN  /\ sgs' = [sgs EXCEPT ![g] = new]
           /\ rec' = [rec EXCEPT !.seen[g] = new, !.local[Port] = g]
    /\ UNCHANGED <<svc, past, eps, queued, lbs>>

\* AddServersToServerGroup, before anything is removed.
AddServers ==
    /\ At("groups")
    /\ ToCreate \cup ToUpdate # {}
    /\ Port \in ToUpdate
    /\ ToAdd(Port) # {}
    /\ LET g == rec.local[Port]
       IN  /\ sgs[g] # NoGroup
           /\ sgs' = [sgs EXCEPT ![g].servers = @ \cup ToAdd(Port)]
           /\ rec' = [rec EXCEPT !.seen[g].servers = @ \cup ToAdd(Port)]
    /\ UNCHANGED <<svc, past, eps, queued, lbs>>

RemoveServers ==
    /\ At("groups")
    /\ ToCreate \cup ToUpdate # {}
    /\ Port \in ToUpdate
    /\ ToAdd(Port) = {}
    /\ LET g == rec.local[Port]
       IN  /\ sgs[g] # NoGroup
           /\ sgs' = [sgs EXCEPT ![g].servers = @ \ ToRemove(Port)]
           /\ rec' = [rec EXCEPT !.seen[g].servers = @ \ ToRemove(Port)]
    /\ UNCHANGED <<svc, past, eps, queued, lbs>>

\* The servers of the group of Port once the next call for it is through.
Attempted == LET now == rec.seen[rec.local[Port]].servers
             IN  IF ToAdd(Port) # {} THEN now \cup ToAdd(Port) ELSE now \ ToRemove(Port)

\* A failing call does not keep the others from being sent: servers are removed
\* although some could not be added, and the next port has its turn.
GroupErr ==
    /\ rec' = [rec EXCEPT !.failed = @ \cup {Port},
                          !.seen = IF Port \in ToCreate THEN @
                                   ELSE [@ EXCEPT ![rec.local[Port]].servers = Attempted]]
    /\ UNCHANGED <<svc, past, eps, queued, lbs, sgs>>

\* Mutant: groups that could not be filled do not end the reconcile.
GroupsDoneAnyway ==
    /\ At("groups")
    /\ ToCreate \cup ToUpdate = {}
    /\ IF Lacking # {} \/ (Changed /\ rec.lb = NoLb /\ ~Deleting)
       THEN ReturnErr
       ELSE /\ IF Changed /\ rec.lb # NoLb
               THEN /\ Found(rec.lb)
                    /\ rec' = [rec EXCEPT !.pc = "listeners", !.lis = lbs[rec.lb].lis]
               ELSE Goto("clean")
            /\ UNCHANGED queued
    /\ UNCHANGED <<svc, past, eps, lbs, sgs>>

\* The end of applyVGroups; then the listeners, when the hash has changed.
GroupsDone ==
    /\ At("groups")
    /\ ToCreate \cup ToUpdate = {}
    /\ IF rec.failed # {} \/ (Changed /\ rec.lb = NoLb /\ ~Deleting)
       THEN ReturnErr
       ELSE /\ IF Changed /\ rec.lb # NoLb
               THEN /\ Found(rec.lb)
                    /\ rec' = [rec EXCEPT !.pc = "listeners", !.lis = lbs[rec.lb].lis]
               ELSE Goto("clean")
            /\ UNCHANGED queued
    /\ UNCHANGED <<svc, past, eps, lbs, sgs>>

-----------------------------------------------------------------------------
(* Listeners.                                                              *)

\* On the user's instance only with force-override.
Managed == IsUserManaged(rec.svc) => Spec0.override

\* Mutant: every listener that no port asks for.
LisToDeleteAll == {p \in Ports \ LocalPorts : rec.lis[p] # NoLis}

\* Those no port asks for; on the user's instance only the service's own.
LisToDelete == {p \in Ports \ LocalPorts :
                  /\ rec.lis[p] # NoLis
                  /\ IsUserManaged(rec.svc) => rec.lis[p] # UserGroup}

LisToSet == {p \in LocalPorts : rec.lis[p] # rec.local[p]}

DeleteNLBListener ==
    /\ At("listeners") /\ Managed
    /\ \E p \in LisToDelete :
          /\ Found(rec.lb)
          /\ lbs' = [lbs EXCEPT ![rec.lb].lis[p] = NoLis]
          /\ rec' = [rec EXCEPT !.lis[p] = NoLis]
    /\ UNCHANGED <<svc, past, eps, queued, sgs>>

\* CreateNLBListener or UpdateNLBListener: forward to the group of the port.
SetNLBListener ==
    /\ At("listeners") /\ Managed
    /\ LisToDelete = {} /\ LisToSet # {}
    /\ LET p == Smallest(LisToSet)
       IN  /\ Found(rec.lb) /\ ~lbs[rec.lb].deleting
           /\ sgs[rec.local[p]] # NoGroup
           /\ lbs' = [lbs EXCEPT ![rec.lb].lis[p] = rec.local[p]]
           /\ rec' = [rec EXCEPT !.lis[p] = rec.local[p]]
    /\ UNCHANGED <<svc, past, eps, queued, sgs>>

ListenersDone ==
    /\ At("listeners")
    /\ Managed => LisToDelete = {} /\ LisToSet = {}
    /\ Goto("clean")
    /\ UNCHANGED <<svc, past, eps, queued, lbs, sgs>>

-----------------------------------------------------------------------------
(* cleanup: the groups that were listed and belong to no port.             *)

Unused == {g \in GroupIds : rec.seen[g] # NoGroup
                              /\ \A p \in DOMAIN rec.local : rec.local[p] # g}

\* A group with a server of the user counts as the user's.
Shared(g) == UserServer \in rec.seen[g].servers

Cleaned(g) == rec' = [rec EXCEPT !.seen[g] = NoGroup]

CleanGroup ==
    /\ At("clean")
    /\ \E g \in Unused :
          /\ g = Smallest(Unused)
          /\ sgs[g] # NoGroup
          /\ \/ /\ Spec0.preserve
                /\ sgs' = [sgs EXCEPT ![g].tag = FALSE]
             \/ /\ ~Spec0.preserve /\ Shared(g)
                /\ sgs' = [sgs EXCEPT ![g].servers = @ \ (rec.seen[g].servers \ {UserServer})]
             \/ /\ ~Spec0.preserve /\ ~Shared(g) /\ ~InUse(g)
                /\ sgs' = [sgs EXCEPT ![g] = NoGroup]
          /\ Cleaned(g)
    /\ UNCHANGED <<svc, past, eps, queued, lbs>>

\* Mutant: the error of the attributes is forgotten.
CleanupForgets ==
    /\ At("clean")
    /\ Unused = {}
    /\ rec' = [rec EXCEPT !.pc = "label", !.seen = NoGroups, !.local = NoPorts,
                          !.lis = NoListeners]
    /\ UNCHANGED <<svc, past, eps, queued, lbs, sgs>>

\* The end of Apply: errors that were kept are returned now.
CleanupDone ==
    /\ At("clean")
    /\ Unused = {}
    /\ IF rec.err THEN ReturnErr
       ELSE /\ rec' = [rec EXCEPT !.pc = "label", !.seen = NoGroups, !.local = NoPorts,
                                  !.lis = NoListeners]
            /\ UNCHANGED queued
    /\ UNCHANGED <<svc, past, eps, lbs, sgs>>

-----------------------------------------------------------------------------
(* The bookkeeping at the end.                                             *)

\* addServiceLabels writes the hash of the service as it was read;
\* removeServiceLabels takes it away.
PatchLabel ==
    /\ At("label")
    /\ svc.phase # "gone"
    /\ svc' = [svc EXCEPT !.label = IF Deleting THEN NoLabel ELSE Spec0]
    /\ Goto("status")
    /\ UNCHANGED <<past, eps, queued, lbs, sgs>>

\* updateServiceStatus and removeServiceStatus.
PatchStatus ==
    /\ At("status")
    /\ svc.phase # "gone"
    /\ svc' = [svc EXCEPT !.host = IF Deleting THEN NoLb ELSE rec.lb]
    /\ IF Deleting THEN Goto("unfin") ELSE rec' = NoRec
    /\ UNCHANGED <<past, eps, queued, lbs, sgs>>

\* RemoveFinalizers; a deleted service goes with its last finalizer.
RemoveFinalizers ==
    /\ At("unfin")
    /\ svc' = [svc EXCEPT !.fin = FALSE,
                          !.phase = IF @ = "deleting" THEN "gone" ELSE @]
    /\ rec' = NoRec
    /\ UNCHANGED <<past, eps, queued, lbs, sgs>>

-----------------------------------------------------------------------------
(* Calls that fail.                                                        *)

\* What the cloud or the API server refuses: the reconcile returns the error.
Refused ==
    \/ At("fin") /\ svc.phase # "live"
    \/ At("find") /\ Cardinality(Candidates) > 1
    \/ \E pc \in {"off", "untag", "tag", "attr"} : At(pc) /\ ~Found(rec.lb)
    \/ /\ At("delete")
       /\ Found(rec.lb) => lbs[rec.lb].deleting \/ lbs[rec.lb].prot
    \/ At("create") /\ (rec.svc.host # NoLb \/ \A i \in LbIds : Found(i))
    \/ At("attr") /\ IsUserManaged(rec.svc) /\ Found(rec.lb) /\ ~Reusable
    \/ /\ At("groups") /\ ToCreate \cup ToUpdate = {} /\ rec.failed = {}
       /\ Changed /\ rec.lb # NoLb /\ ~Found(rec.lb)
    \/ /\ At("listeners") /\ Managed
       /\ \/ LisToDelete # {} /\ ~Found(rec.lb)
          \/ LisToSet # {} /\ LisToDelete = {} /\ (Found(rec.lb) => lbs[rec.lb].deleting)
    \/ /\ At("clean") /\ Unused # {}
       /\ LET g == Smallest(Unused) IN ~Spec0.preserve /\ ~Shared(g) /\ InUse(g)

Fail == Refused /\ ReturnErr /\ UNCHANGED <<svc, past, eps, lbs, sgs>>

\* The quota of server groups is used up.
GroupRefused == /\ At("groups")
                /\ ToCreate \cup ToUpdate # {}
                /\ Port \in ToCreate /\ Free = {}
                /\ GroupErr

\* Faults: a call fails that could have succeeded, or the process restarts and
\* lists all services.

\* An attribute cannot be set: the error is kept for the end, and the groups and
\* listeners are synchronised all the same.
AttrFails == /\ At("attr") /\ Found(rec.lb)
             /\ IsUserManaged(rec.svc) => Reusable
             /\ rec' = [rec EXCEPT !.pc = "list", !.err = TRUE]
             /\ UNCHANGED <<svc, past, eps, queued, lbs, sgs>>

GroupFails == /\ At("groups")
              /\ ToCreate \cup ToUpdate # {}
              /\ Port \in ToCreate => Free # {}
              /\ GroupErr

CallFails == /\ rec # NoRec
             /\ ReturnErr /\ UNCHANGED <<svc, past, eps, lbs, sgs>>

Restart == /\ rec' = NoRec
           /\ queued' = NeedAdd(svc)
           /\ UNCHANGED <<svc, past, eps, lbs, sgs>>

-----------------------------------------------------------------------------
(* The users.                                                              *)

Enqueue(new) == queued' = (queued \/ NeedUpdate(svc, new))

Changes == (Cardinality(past) - 1) + (eps - 1)

Edit ==
    /\ svc.phase = "live"
    /\ Changes < MaxChanges
    /\ \E s \in Specs \ past :
          LET new == [svc EXCEPT !.spec = s] IN
          /\ s.user = svc.spec.user
          /\ svc' = new
          /\ past' = past \cup {s}
          /\ Enqueue(new)
    /\ UNCHANGED <<eps, rec, lbs, sgs>>

DeleteService ==
    /\ svc.phase = "live"
    /\ LET new == [svc EXCEPT !.phase = IF svc.fin THEN "deleting" ELSE "gone"]
       IN  svc' = new /\ Enqueue(new)
    /\ UNCHANGED <<past, eps, rec, lbs, sgs>>

Rescale == /\ eps < Len(Scales)
           /\ Changes < MaxChanges
           /\ eps' = eps + 1
           /\ UNCHANGED <<svc, past, rec, lbs, sgs>>

\* Endpoint and node events count only for a service that needs an NLB.
Scale == /\ Rescale
         /\ queued' = (queued \/ (svc.phase # "gone" /\ NeedNLB(svc)))

\* A fault: the handler's own Get or List of services fails, and the event is lost.
ScaleLost == Rescale /\ UNCHANGED queued

\* At most one: a server that belongs to no service.
ConsoleAddServer ==
    /\ \A g \in GroupIds : sgs[g] # NoGroup => UserServer \notin sgs[g].servers
    /\ \E g \in GroupIds :
          /\ sgs[g] # NoGroup /\ sgs[g].tag /\ sgs[g].port \in SharedPorts
          /\ sgs' = [sgs EXCEPT ![g].servers = @ \cup {UserServer}]
    /\ UNCHANGED <<svc, past, eps, queued, rec, lbs>>

\* Of no account for a service that does not use it.
ConsoleDeleteLb ==
    /\ svc.spec.user /\ Found(UserLb)
    /\ lbs' = [lbs EXCEPT ![UserLb] = NoInst]
    /\ UNCHANGED <<svc, past, eps, queued, rec, sgs>>

-----------------------------------------------------------------------------
Init ==
    /\ \E s \in {t \in Specs : t.need = "nlb"} :
          /\ svc = [phase |-> "live", spec |-> s, fin |-> FALSE,
                    label |-> NoLabel, host |-> NoLb]
          /\ past = {s}
    /\ eps = 1
    /\ queued = TRUE
    /\ rec = NoRec
    /\ lbs = [i \in Lbs |->
                IF i # UserLb THEN NoInst
                ELSE [tag |-> FALSE, kept |-> TRUE, prot |-> TRUE, deleting |-> FALSE,
                      attr |-> CHOOSE a \in Attrs : TRUE,
                      lis |-> [p \in Ports |-> IF p \in UserPorts THEN UserGroup ELSE NoLis]]]
    /\ sgs = NoGroups

Step ==
    \/ Begin \/ AddFinalizers \/ Find \/ FindNothing
    \/ ProtectionOff \/ Untag \/ DeleteNLB \/ WaitJobFinish
    \/ CreateNLB \/ TagNLB \/ UpdateNLB
    \/ ListServerGroups \/ CreateServerGroup \/ AddServers \/ RemoveServers
    \/ GroupRefused \/ GroupsDone
    \/ DeleteNLBListener \/ SetNLBListener \/ ListenersDone
    \/ CleanGroup \/ CleanupDone
    \/ PatchLabel \/ PatchStatus \/ RemoveFinalizers
    \/ Fail

Fault == AttrFails \/ GroupFails \/ CallFails \/ Restart \/ ReadFails \/ ScaleLost

Users == Edit \/ DeleteService \/ Scale \/ ConsoleAddServer \/ ConsoleDeleteLb

Next == Step \/ JobDone \/ Fault \/ Users

Spec == Init /\ [][Next]_vars

-----------------------------------------------------------------------------
(* Properties.                                                             *)

\* The instances made for the service and not handed over to the user, and the
\* server groups that carry its tags and no server of the user.
OwnLbs == {i \in LbIds : Found(i) /\ ~lbs[i].kept /\ ~lbs[i].deleting}
OwnGroups == {g \in GroupIds : sgs[g] # NoGroup /\ sgs[g].tag
                                 /\ UserServer \notin sgs[g].servers}

\* Without the finalizer, nothing of the service is left in the cloud, whatever
\* calls failed or processes died on the way: an instance that was not tagged is
\* found by its name, and server groups go after the listeners that use them.
\* The user who deletes the instance under the service has its groups left.
NoOrphanNlb ==
    svc.fin \/ (OwnLbs = {} /\ (Found(UserLb) => OwnGroups = {}))

\* A listener is pointed only at a group that has all the servers the reconcile
\* read and no other: a new group is filled before traffic goes to it.
FilledBeforeUse ==
    [][\A i \in Lbs, p \in Ports :
          /\ Found(i) /\ lbs'[i] # NoInst
          /\ lbs'[i].lis[p] # lbs[i].lis[p]
          /\ lbs'[i].lis[p] \in GroupIds
          => sgs[lbs'[i].lis[p]].servers \ {UserServer} = rec.servers]_vars

\* The controller never deletes the user's instance, a listener of the user that
\* no port of the service claims, or a group in which it saw a user's server.
UserResourcesKept ==
    [][/\ rec # NoRec /\ Found(UserLb) /\ rec' # rec
       => /\ lbs'[UserLb] # NoInst
          /\ \A p \in Ports : lbs[UserLb].lis[p] = UserGroup
                              => \/ lbs'[UserLb].lis[p] = UserGroup
                                 \/ Spec0.override /\ p \in LocalPorts
          /\ \A g \in GroupIds :
                rec.seen[g] # NoGroup /\ Shared(g) => sgs'[g] # NoGroup]_vars
=============================================================================
