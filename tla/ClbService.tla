----------------------------- MODULE ClbService -----------------------------
(***************************************************************************)
(* The CLB service controller (pkg/controller/service/clbv1) driving one   *)
(* Service: the API server's object, the watch that delivers it, the work  *)
(* queue, one reconcile in progress and the CLB instances in the cloud.    *)
(*                                                                         *)
(* Reconcile is split where another actor can get in: one action per call  *)
(* to the API server or to the cloud.  Every call may fail before it takes *)
(* effect (StepFails); a call that takes effect and then fails is the same *)
(* call followed by a failure of the next one.  The controller's client    *)
(* has no cache of Services (config/runtime_config.go): what a reconcile   *)
(* or an event handler reads is the API server's object.                   *)
(*                                                                         *)
(* Simplifications:                                                        *)
(*  - one Service with one UID (a key is never reconciled by two workers); *)
(*  - the watch may merge events: `seen' jumps to the API server's object; *)
(*    it has only what the event handlers compare;                         *)
(*  - a Get and the patch with the resource version it read (finalizers,   *)
(*    with retries on a conflict) are one step, and so are a Get and the   *)
(*    merge patch of the status;                                           *)
(*  - the backends that endpoints and nodes give (`eps') are one value,    *)
(*    the groups of a service are a pair <<ports, backends>>, the          *)
(*    listeners and the attributes of an instance are the cfg they were    *)
(*    last set from; `Mixed' stands for some of them old or empty, some    *)
(*    new;                                                                 *)
(*  - dry-run mode, metrics and events are left out.                       *)
(***************************************************************************)
EXTENDS ServiceObject

CONSTANTS Specs,                 \* the user-written parts the user may submit
          Endpoints,             \* the backend sets endpoints and nodes may give
          PotentialReady,        \* those with endpoints that may become ready
          LbIds,                 \* ids the cloud gives to created instances
          UserLb,                \* the instance the user created by hand
          DisablePublicSLB,      \* CloudConfig global.disablePublicSLB
          ClientTokenHonoured,   \* the cloud still knows the creation token
          ConsoleDeletes,        \* the user may delete instances in the console
          NoLb, NoCfg, Mixed, NoRec

\* The values that stand for "nothing" are none of the things they stand beside,
\* and the user's instance has an id the cloud gives to no other.
ASSUME IdsAssumption == NoId \notin LbIds /\ NoId # UserLb /\ UserLb \notin LbIds

\* The fields of a user-written part (ServiceObject lists them).
ASSUME SpecsAssumption ==
    \A s \in Specs :
        s \in [type : {"LoadBalancer", "ClusterIP"},
              class : {"", "annotation", "other"},
              addr : {"", "internet", "intranet"}, name : {"", "custom"},
              lbid : {NoId, UserLb}, override : BOOLEAN, preserve : BOOLEAN,
              cfg : {t.cfg : t \in Specs}]

VARIABLES
    api,     \* the Service in the API server, or Gone
    seen,    \* the Service as the watch last delivered it, or Gone
    eps,     \* backends given by endpoints and nodes
    queued,  \* the key is in the work queue (or waiting for a retry)
    pc,      \* next call of the reconcile in progress, or "idle"
    rec,     \* local variables of the reconcile in progress, or NoRec
    lbs      \* instances in the cloud

vars == <<api, seen, eps, queued, pc, rec, lbs>>

Lbs == LbIds \cup {UserLb}
Cfgs == {s.cfg : s \in Specs}
Hashes == [spec : Specs, deleting : BOOLEAN]
Services == [spec : Specs, deleting : BOOLEAN, fin : BOOLEAN,
             label : Hashes \cup {NoLabel},
             status : Lbs \cup {NoId, NoStatus}]
Instances == [name : {"default", "custom", "user"}, tag : BOOLEAN,
              addr : {"internet", "intranet"}, attr : Cfgs \cup {NoCfg},
              lis : Cfgs \cup {NoCfg, Mixed}, vg : SUBSET (Cfgs \X (Endpoints \cup {Mixed})),
              released : BOOLEAN]
Reqs == [svc : Services, clean : BOOLEAN, id : Lbs \cup {NoId},
         eps : Endpoints, errs : BOOLEAN]

ApplySteps == {"find", "delete", "create", "tag", "update", "vgroups",
               "listeners", "cleanup"}
SyncSteps  == {"addFin", "labels", "status"}
CleanSteps == {"rmLabels", "rmStatus", "rmFin"}

\* The values that mean "none" are not records.
ASSUME NoneAssumption ==
    /\ Gone \notin Services \cup Hashes
    /\ NoRec \notin Reqs
    /\ NoLb \notin Instances
    /\ NoLabel \notin Hashes
    /\ NoStatus \notin Lbs \cup {NoId}

\* Every variable holds a value of its type, and the steps that work on an
\* instance have found one (Apply returns an error before they are reached).
TypeOK ==
    /\ api \in Services \cup {Gone}
    /\ seen \in Hashes \cup {Gone}
    /\ eps \in Endpoints
    /\ queued \in BOOLEAN
    /\ pc \in ApplySteps \cup SyncSteps \cup CleanSteps \cup {"idle"}
    /\ rec \in Reqs \cup {NoRec}
    /\ pc # "idle" => rec \in Reqs
    /\ pc \in {"tag", "update", "vgroups", "listeners", "cleanup"} => rec.id # NoId
    /\ lbs \in [Lbs -> Instances \cup {NoLb}]

-----------------------------------------------------------------------------
(* Helpers of the applier.                                                 *)

IsUserManaged(svc) == svc.spec.lbid # NoId
IsPublic(svc) == svc.spec.addr \in {"", "internet"}
DefaultName(s) == IF s.name = "" THEN "default" ELSE s.name
DefaultAddr(s) == IF s.addr = "" THEN "internet" ELSE s.addr

Existing == {i \in LbIds : lbs[i] # NoLb}
Tagged   == {i \in Existing : lbs[i].tag}
Named    == {i \in Existing : lbs[i].name = "default"}

\* Mutant: the default name is not tried when the tag is missing.
FindByTagOnly(svc) == IF IsUserManaged(svc) THEN {svc.spec.lbid} ELSE Tagged

(***************************************************************************)
(* FindLoadBalancer: by the id of the annotation, else by the owner tag,   *)
(* else by the default name.  The result is a set of candidates; more than *)
(* one is an error, and an id that does not exist is an error too.         *)
(***************************************************************************)
FindLoadBalancer(svc) ==
    IF IsUserManaged(svc) THEN {svc.spec.lbid}
    ELSE IF Tagged # {} THEN Tagged ELSE Named

Ambiguous(found) == \E i, j \in found : i # j
Absent(found) == \E i \in found : lbs[i] = NoLb

\* A user's instance may be reused unless Kubernetes created it or the service
\* already publishes another address.
IsLoadBalancerReusable(svc, i) ==
    ~lbs[i].tag /\ svc.status \in {NoStatus, i}

\* The instance the reconcile works on has been deleted behind its back.
Vanished == rec.id # NoId /\ lbs[rec.id] = NoLb

-----------------------------------------------------------------------------
(* How a reconcile goes on, ends, and writes to the API server.            *)

Goto(next, r) == pc' = next /\ rec' = r

Finish == Goto("idle", NoRec)

\* The end of buildAndApplyModel: the rest of cleanupLoadBalancerResources or
\* of reconcileLoadBalancerResources.
Applied(r) == Goto(IF r.clean THEN "rmLabels" ELSE "labels", r)

ReturnErr == Finish /\ queued' = TRUE

-----------------------------------------------------------------------------
(* The user, the endpoints and the watch.                                  *)

\* The user edits the service (an update may come after its deletion began).
UserEdit ==
    \E s \in Specs :
        /\ api # Gone
        /\ s # api.spec
        /\ api' = [api EXCEPT !.spec = s]
        /\ UNCHANGED <<seen, eps, queued, pc, rec, lbs>>

\* The user deletes the service: without a finalizer it disappears at once.
UserDelete ==
    /\ api # Gone
    /\ ~api.deleting
    /\ api' = IF HasFinalizer(api) THEN [api EXCEPT !.deleting = TRUE] ELSE Gone
    /\ UNCHANGED <<seen, eps, queued, pc, rec, lbs>>

\* The user deletes an instance in the console.
ConsoleDelete ==
    \E i \in Lbs :
        /\ ConsoleDeletes
        /\ lbs[i] # NoLb
        /\ lbs' = [lbs EXCEPT ![i] = NoLb]
        /\ UNCHANGED <<api, seen, eps, queued, pc, rec>>

\* Mutant: the deletion timestamp is not compared.
NeedUpdateNotOnDelete(old, new) ==
    /\ NeedCLB(old) \/ NeedCLB(new)
    /\ IF NeedCLB(old) # NeedCLB(new)
       THEN new.spec.class # "annotation"
       ELSE old.spec # new.spec

\* needUpdate: whether an update event of the service is put into the queue.
NeedUpdate(old, new) ==
    /\ NeedCLB(old) \/ NeedCLB(new)
    /\ IF NeedCLB(old) # NeedCLB(new)
       THEN new.spec.class # "annotation"
       ELSE old.spec # new.spec \/ old.deleting # new.deleting

\* needAdd: whether the add event of the service is put into the queue.
NeedAdd(svc) == NeedCLB(svc) \/ svc.fin

\* What the handlers compare of a service: its user-written part and whether it is
\* being deleted.
Delivered(svc) == IF svc = Gone THEN Gone ELSE [spec |-> svc.spec, deleting |-> svc.deleting]

\* The watch delivers the latest object, with the one it delivered before, to the
\* event handler.  A delete event is ignored.
WatchEvent ==
    /\ seen # Delivered(api)
    /\ seen' = Delivered(api)
    /\ queued' = (queued \/ (/\ api # Gone
                             /\ IF seen = Gone THEN NeedAdd(api)
                                               ELSE NeedUpdate(seen, api)))
    /\ UNCHANGED <<api, eps, pc, rec, lbs>>

\* Endpoints or nodes change: the handler reads the service and puts it into the
\* queue when it needs a CLB.
BackendEvent ==
    /\ eps' \in Endpoints \ {eps}
    /\ queued' = (queued \/ (api # Gone /\ NeedCLB(api)))
    /\ UNCHANGED <<api, seen, pc, rec, lbs>>

\* The handler fails to read the service: the event is logged and lost, unless the
\* service is in the queue anyway.
BackendEventLost ==
    /\ eps' \in Endpoints \ {eps}
    /\ ~queued /\ api # Gone /\ NeedCLB(api)
    /\ UNCHANGED <<api, seen, queued, pc, rec, lbs>>

\* The process dies and another replica starts: the queue and the reconcile in
\* progress are lost, the new watch begins with every service as an add event.
Restart ==
    /\ seen' = Delivered(api)
    /\ queued' = (api # Gone /\ NeedAdd(api))
    /\ Finish
    /\ UNCHANGED <<api, eps, lbs>>

-----------------------------------------------------------------------------
(* reconcile: read the service and choose a path.                          *)

NewReq(svc, clean) ==
    [svc |-> svc, clean |-> clean, id |-> NoId, eps |-> eps, errs |-> FALSE]

NothingToDo(svc) == DisablePublicSLB /\ IsPublic(svc)
NeedCleanup(svc) == NeedDeleteLoadBalancer(svc) \/ ~NeedCLB(svc)

Reconcile ==
    /\ pc = "idle"
    /\ queued
    /\ queued' = FALSE
    /\ \/ /\ \/ api = Gone
             \/ api # Gone /\ NothingToDo(api)
             \/ api # Gone /\ NeedCleanup(api) /\ ~HasFinalizer(api)
          /\ Finish
       \/ /\ api # Gone
          /\ ~NothingToDo(api)
          /\ IF NeedCleanup(api)
             THEN HasFinalizer(api) /\ Goto("find", NewReq(api, TRUE))
             ELSE Goto("addFin", NewReq(api, FALSE))
    /\ UNCHANGED <<api, seen, eps, lbs>>

\* Mutant: a failed patch of the finalizer is taken for done.
AddFinalizersIgnoringErr ==
    /\ pc = "addFin"
    /\ api # Gone
    /\ api' = [api EXCEPT !.fin = TRUE] \/ UNCHANGED api
    /\ Goto("find", [rec EXCEPT !.svc = api'])
    /\ UNCHANGED <<seen, eps, queued, lbs>>

\* AddFinalizers: reads the service again into the same object and patches it if
\* the finalizer is missing.
AddFinalizers ==
    /\ pc = "addFin"
    /\ api # Gone
    /\ api' = [api EXCEPT !.fin = TRUE]
    /\ Goto("find", [rec EXCEPT !.svc = api'])
    /\ UNCHANGED <<seen, eps, queued, lbs>>

-----------------------------------------------------------------------------
(* buildAndApplyModel                                                      *)

\* Mutant: an unchanged service is not checked for a missing instance.
AfterFindUnchecked(r) ==
    IF IsServiceHashChanged(r.svc)
    THEN IF NeedDeleteLoadBalancer(r.svc) THEN Goto("delete", r)
         ELSE Goto(IF r.id = NoId THEN "create" ELSE "update", r)
    ELSE Goto("vgroups", r)

\* After the remote instance is known: which part of Apply comes next.
AfterFind(r) ==
    IF IsServiceHashChanged(r.svc)
    THEN IF NeedDeleteLoadBalancer(r.svc) THEN Goto("delete", r)
         ELSE Goto(IF r.id = NoId THEN "create" ELSE "update", r)
    ELSE IF r.id # NoId THEN Goto("vgroups", r)
    ELSE NeedDeleteLoadBalancer(r.svc) /\ Applied(r)

\* Build the local model (it reads the backends) and find the instance.
BuildAndFind ==
    /\ pc = "find"
    /\ LET found == FindLoadBalancer(rec.svc)
           r == [rec EXCEPT !.eps = eps]
       IN  /\ ~Ambiguous(found)
           /\ ~Absent(found)
           /\ IF found = {} THEN AfterFind(r)
                            ELSE \E i \in found : AfterFind([r EXCEPT !.id = i])
    /\ UNCHANGED <<api, seen, eps, queued, lbs>>

\* A preserved instance loses its protections and the tags of Kubernetes.
HandOver(y) == [y EXCEPT !.tag = FALSE, !.released = TRUE]

\* Mutant: the instance is deleted without asking whose it is.
DeleteAnyLoadBalancer ==
    /\ pc = "delete"
    /\ ~Vanished
    /\ lbs' = IF rec.id = NoId THEN lbs ELSE [lbs EXCEPT ![rec.id] = NoLb]
    /\ Applied([rec EXCEPT !.id = NoId])
    /\ UNCHANGED <<api, seen, eps, queued>>

\* applyLoadBalancerAttribute, the branch of a service that needs no instance
\* any more: leave the user's instance, hand over a preserved one (protections
\* off, tags off), delete any other.
DeleteLoadBalancer ==
    /\ pc = "delete"
    /\ ~Vanished
    /\ LET i == rec.id IN
       IF IsUserManaged(rec.svc)
       THEN Goto("vgroups", rec) /\ UNCHANGED lbs
       ELSE /\ lbs' = IF i = NoId THEN lbs
                      ELSE [lbs EXCEPT ![i] =
                             IF rec.svc.spec.preserve THEN HandOver(lbs[i]) ELSE NoLb]
            /\ Applied([rec EXCEPT !.id = NoId])
    /\ UNCHANGED <<api, seen, eps, queued>>

\* What the cloud makes of a CreateLoadBalancer request.
NewInstance(s) ==
    [name |-> DefaultName(s), tag |-> FALSE, addr |-> DefaultAddr(s),
     attr |-> s.cfg, lis |-> NoCfg, vg |-> {}, released |-> FALSE]

\* CreateLoadBalancer with the client token of this service: the same token
\* gives the instance it made before.
CreateLoadBalancer ==
    /\ pc = "create"
    /\ ~IsServiceOwnIngress(rec.svc)
    /\ \E i \in LbIds :
        /\ IF ClientTokenHonoured /\ Existing # {}
           THEN i \in Existing /\ UNCHANGED lbs
           ELSE lbs[i] = NoLb /\ lbs' = [lbs EXCEPT ![i] = NewInstance(rec.svc.spec)]
        /\ Goto("tag", [rec EXCEPT !.id = i])
    /\ UNCHANGED <<api, seen, eps, queued>>

\* TagCLBResource with the default tags, then Find of the new id.
TagLoadBalancer ==
    /\ pc = "tag"
    /\ ~Vanished
    /\ lbs' = [lbs EXCEPT ![rec.id].tag = TRUE, ![rec.id].released = FALSE]
    /\ Goto("vgroups", rec)
    /\ UNCHANGED <<api, seen, eps, queued>>

\* Update of an existing instance y.  The owner tag and the attributes are set by
\* calls of their own; one failing (okTag, okAttr) does not stop the others, it
\* is remembered in errs.  The address type cannot change.
Updated(y, svc, okTag, okAttr) ==
    [y EXCEPT !.tag = y.tag \/ (okTag /\ ~IsUserManaged(svc)),
              !.released = y.released /\ ~okTag,
              !.attr = IF okAttr THEN svc.spec.cfg ELSE y.attr,
              !.name = IF okAttr /\ svc.spec.name # "" THEN svc.spec.name ELSE y.name]

UpdateWith(okTag, okAttr) ==
    /\ pc = "update"
    /\ ~Vanished
    /\ IsUserManaged(rec.svc) => IsLoadBalancerReusable(rec.svc, rec.id)
    /\ LET y == lbs[rec.id]
           addrOK == rec.svc.spec.addr \in {"", y.addr}
       IN  /\ lbs' = [lbs EXCEPT ![rec.id] = Updated(y, rec.svc, okTag, okAttr)]
           /\ Goto("vgroups", [rec EXCEPT !.errs = ~(okTag /\ okAttr /\ addrOK)])
    /\ UNCHANGED <<api, seen, eps, queued>>

UpdateLoadBalancer == UpdateWith(TRUE, TRUE)

UpdateLoadBalancerPartly ==
    \E okTag, okAttr \in BOOLEAN : ~(okTag /\ okAttr) /\ UpdateWith(okTag, okAttr)

\* Mutant: the backends are left alone when the hash label is up to date.
ApplyVGroupsIfHashChanged ==
    /\ pc = "vgroups"
    /\ ~Vanished
    /\ LET i == rec.id
           c == rec.svc.spec.cfg
       IN lbs' = IF NeedDeleteLoadBalancer(rec.svc) \/ ~IsServiceHashChanged(rec.svc)
                 THEN lbs
                 ELSE [lbs EXCEPT ![i].vg =
                         {g \in @ : g[1] # c} \cup {<<c, rec.eps>>}]
    /\ Goto(IF IsServiceHashChanged(rec.svc) THEN "listeners" ELSE "cleanup", rec)
    /\ UNCHANGED <<api, seen, eps, queued>>

\* applyVGroups: create or update the vserver group of the service's ports.
ApplyVGroups ==
    /\ pc = "vgroups"
    /\ ~Vanished
    /\ LET i == rec.id
           c == rec.svc.spec.cfg
       IN lbs' = IF NeedDeleteLoadBalancer(rec.svc) THEN lbs
                 ELSE [lbs EXCEPT ![i].vg =
                         {g \in @ : g[1] # c} \cup {<<c, rec.eps>>}]
    /\ Goto(IF IsServiceHashChanged(rec.svc) THEN "listeners" ELSE "cleanup", rec)
    /\ UNCHANGED <<api, seen, eps, queued>>

\* applyVGroups goes on after an error and returns it at the end: some groups are up
\* to date, others are old, or made and still empty.
ApplyVGroupsPartly ==
    /\ pc = "vgroups"
    /\ ~Vanished
    /\ ~NeedDeleteLoadBalancer(rec.svc)
    /\ LET i == rec.id
           c == rec.svc.spec.cfg
       IN  /\ <<c, rec.eps>> \notin lbs[i].vg
           /\ lbs' = [lbs EXCEPT ![i].vg = {g \in @ : g[1] # c} \cup {<<c, Mixed>>}]
    /\ ReturnErr
    /\ UNCHANGED <<api, seen, eps>>

SkipListeners(svc) == IsUserManaged(svc) /\ ~svc.spec.override

\* Mutant: the listeners of a service that goes away stay.
LocalListenersAlways(svc) == svc.spec.cfg

LocalListeners(svc) == IF NeedDeleteLoadBalancer(svc) THEN NoCfg ELSE svc.spec.cfg

\* applyListeners: deletes, creates and updates in that order.
ApplyListeners ==
    /\ pc = "listeners"
    /\ ~Vanished
    /\ lbs' = IF SkipListeners(rec.svc) THEN lbs
              ELSE [lbs EXCEPT ![rec.id].lis = LocalListeners(rec.svc)]
    /\ Goto("cleanup", rec)
    /\ UNCHANGED <<api, seen, eps, queued>>

\* applyListeners stops at the first error: some listeners are new, some old.
ApplyListenersPartly ==
    /\ pc = "listeners"
    /\ ~Vanished
    /\ ~SkipListeners(rec.svc)
    /\ lbs[rec.id].lis # LocalListeners(rec.svc)
    /\ lbs' = [lbs EXCEPT ![rec.id].lis = Mixed]
    /\ ReturnErr
    /\ UNCHANGED <<api, seen, eps>>

\* The vserver groups the service does not use any more.
Unused(y, svc) == {g \in y.vg : NeedDeleteLoadBalancer(svc) \/ g[1] # svc.spec.cfg}

\* Mutant: the vserver groups of a user's instance are never cleaned.
CleanupOwnVGroups ==
    /\ pc = "cleanup"
    /\ ~Vanished
    /\ lbs' = IF IsUserManaged(rec.svc) THEN lbs
              ELSE [lbs EXCEPT ![rec.id].vg = @ \ Unused(lbs[rec.id], rec.svc)]
    /\ IF rec.errs THEN ReturnErr ELSE Applied(rec) /\ UNCHANGED queued
    /\ UNCHANGED <<api, seen, eps>>

\* cleanup: delete the unused groups; Apply then returns the errors it remembered.
CleanupVGroups ==
    /\ pc = "cleanup"
    /\ ~Vanished
    /\ lbs' = [lbs EXCEPT ![rec.id].vg = @ \ Unused(lbs[rec.id], rec.svc)]
    /\ IF rec.errs THEN ReturnErr ELSE Applied(rec) /\ UNCHANGED queued
    /\ UNCHANGED <<api, seen, eps>>

\* cleanup stops at the first error: some of the unused groups are gone.
CleanupVGroupsPartly ==
    /\ pc = "cleanup"
    /\ ~Vanished
    /\ LET unused == Unused(lbs[rec.id], rec.svc)
       IN  \E gone \in SUBSET unused \ {{}, unused} :
             lbs' = [lbs EXCEPT ![rec.id].vg = @ \ gone]
    /\ ReturnErr
    /\ UNCHANGED <<api, seen, eps>>

\* A call on an instance that does not exist: cleanupLoadBalancerResources takes
\* "LoadBalancerId does not exist" as done, the other path as an error.
LoadBalancerMissing ==
    /\ \/ pc \in {"delete", "tag", "update", "vgroups", "listeners", "cleanup"} /\ Vanished
       \/ pc = "find" /\ Absent(FindLoadBalancer(rec.svc))
    /\ rec.clean
    /\ Applied(rec)
    /\ UNCHANGED <<api, seen, eps, queued, lbs>>

-----------------------------------------------------------------------------
(* The end of reconcileLoadBalancerResources.                              *)

\* addServiceLabels: a merge patch against the service as it was read.
AddServiceLabels ==
    /\ pc = "labels"
    /\ api # Gone
    /\ api' = IF IsServiceHashChanged(rec.svc)
              THEN [api EXCEPT !.label = GetServiceHash(rec.svc)] ELSE api
    /\ Goto("status", rec)
    /\ UNCHANGED <<seen, eps, queued, lbs>>

\* updateServiceStatus reads the service again, an error if it is gone; at the end
\* the requeue for potentially ready endpoints.
UpdateServiceStatus ==
    /\ pc = "status"
    /\ IF rec.svc.status = rec.id THEN UNCHANGED api
       ELSE api # Gone /\ api' = [api EXCEPT !.status = rec.id]
    /\ Finish
    /\ queued' = (queued \/ (~NeedDeleteLoadBalancer(rec.svc) /\ rec.eps \in PotentialReady))
    /\ UNCHANGED <<seen, eps, lbs>>

-----------------------------------------------------------------------------
(* The end of cleanupLoadBalancerResources.                                *)

RemoveServiceLabels ==
    /\ pc = "rmLabels"
    /\ IF rec.svc.label = NoLabel THEN UNCHANGED api
       ELSE api # Gone /\ api' = [api EXCEPT !.label = NoLabel]
    /\ Goto("rmStatus", rec)
    /\ UNCHANGED <<seen, eps, queued, lbs>>

RemoveServiceStatus ==
    /\ pc = "rmStatus"
    /\ IF rec.svc.status = NoStatus \/ api = Gone THEN UNCHANGED api
       ELSE api' = [api EXCEPT !.status = NoStatus]
    /\ Goto("rmFin", rec)
    /\ UNCHANGED <<seen, eps, queued, lbs>>

\* A failed read of the service is not an error here: its status stays (Retry
\* returns only what is worth trying again).
RemoveServiceStatusSkipped ==
    /\ pc = "rmStatus"
    /\ Goto("rmFin", rec)
    /\ UNCHANGED <<api, seen, eps, queued, lbs>>

\* RemoveFinalizers: the API server drops a deleted object with its last finalizer.
RemoveFinalizers ==
    /\ pc = "rmFin"
    /\ api # Gone
    /\ api' = IF api.deleting /\ api.fin THEN Gone ELSE [api EXCEPT !.fin = FALSE]
    /\ Finish
    /\ UNCHANGED <<seen, eps, queued, lbs>>

\* The code's own error returns: a service that is gone, an ambiguous or missing
\* instance, an instance that must not be created again or cannot be reused.
ReconcileErr ==
    /\ \/ pc \in {"addFin", "labels", "rmFin"} /\ api = Gone
       \/ /\ pc = "find"
          /\ LET found == FindLoadBalancer(rec.svc) IN
               \/ Ambiguous(found)
               \/ Absent(found) /\ ~rec.clean
               \/ /\ found = {}
                  /\ ~IsServiceHashChanged(rec.svc)
                  /\ ~NeedDeleteLoadBalancer(rec.svc)
       \/ pc = "create" /\ IsServiceOwnIngress(rec.svc)
       \/ /\ pc = "update"
          /\ ~Vanished
          /\ IsUserManaged(rec.svc)
          /\ ~IsLoadBalancerReusable(rec.svc, rec.id)
       \/ pc \in ApplySteps /\ Vanished /\ ~rec.clean
       \/ pc = "status" /\ rec.svc.status # rec.id /\ api = Gone
       \/ pc = "rmLabels" /\ rec.svc.label # NoLabel /\ api = Gone
    /\ ReturnErr
    /\ UNCHANGED <<api, seen, eps, lbs>>

\* Any call of the reconcile fails and leaves no effect: the error is returned
\* and the key is queued again.
StepFails ==
    /\ pc # "idle"
    /\ ReturnErr
    /\ UNCHANGED <<api, seen, eps, lbs>>

-----------------------------------------------------------------------------
UserInstance ==
    [name |-> "user", tag |-> FALSE, addr |-> "internet", attr |-> NoCfg,
     lis |-> NoCfg, vg |-> {}, released |-> FALSE]

Init ==
    /\ \E s \in Specs : api = NewService(s)
    /\ seen = Gone
    /\ eps \in Endpoints
    /\ queued = FALSE
    /\ pc = "idle"
    /\ rec = NoRec
    /\ lbs = [i \in Lbs |-> IF i = UserLb THEN UserInstance ELSE NoLb]

ReconcileStep ==
    \/ Reconcile \/ AddFinalizers \/ BuildAndFind \/ DeleteLoadBalancer
    \/ CreateLoadBalancer \/ TagLoadBalancer \/ UpdateLoadBalancer
    \/ ApplyVGroups \/ ApplyListeners \/ CleanupVGroups \/ LoadBalancerMissing
    \/ AddServiceLabels \/ UpdateServiceStatus
    \/ RemoveServiceLabels \/ RemoveServiceStatus \/ RemoveFinalizers
    \/ ReconcileErr

User == UserEdit \/ UserDelete \/ ConsoleDelete \/ BackendEvent
Fault ==
    \/ Restart \/ StepFails \/ BackendEventLost \/ UpdateLoadBalancerPartly
    \/ ApplyVGroupsPartly \/ ApplyListenersPartly \/ CleanupVGroupsPartly
    \/ RemoveServiceStatusSkipped

Next == User \/ WatchEvent \/ ReconcileStep \/ Fault

Spec == Init /\ [][Next]_vars

-----------------------------------------------------------------------------
(* Safety.                                                                 *)

\* Every instance the controller created and has not handed over to the user is
\* guarded: its service is in the API server and holds the finalizer, so no
\* crash, failed call, edit or deletion can leave an instance that nobody
\* will ever delete (AddFinalizers before Apply, RemoveFinalizers after it).
NoOrphan ==
    \A i \in Existing : lbs[i].released \/ HasFinalizer(api)

\* The controller never makes a second instance for the service, whatever it
\* has forgotten: a creation whose answer was lost is found again by tag, by
\* name or by client token (Find before Create).
NoDuplicate == \A i, j \in Existing : i = j

\* The instance of the user is never deleted by the controller, and its listeners
\* change only under a reconcile whose service asks to override them.
UserLbUntouched ==
    [][lbs[UserLb] # NoLb =>
         /\ lbs'[UserLb] = NoLb => ConsoleDelete
         /\ lbs'[UserLb] # NoLb /\ lbs'[UserLb].lis # lbs[UserLb].lis => rec.svc.spec.override]_vars

\* A deleted service leaves no vserver group on the user's instance: they are
\* removed before the finalizer is.
UserLbCleaned == api = Gone /\ lbs[UserLb] # NoLb => lbs[UserLb].vg = {}

\* A service that took the listeners of the user's instance over and still asks
\* for them when it is cleaned up leaves none when it goes.
ListenersReturned ==
    [][/\ RemoveFinalizers /\ api' = Gone
       /\ rec.svc.spec.override /\ lbs[UserLb] # NoLb
       => lbs[UserLb].lis = NoCfg]_vars

-----------------------------------------------------------------------------
(* Why no instance of a plain service is orphaned or doubled: the inductive *)
(* invariant.  Plain services carry no name, id or class of their own and   *)
(* keep their type.                                                         *)

PlainService ==
    \A s \in Specs : /\ s.type = "LoadBalancer" /\ s.class = ""
                     /\ s.name = "" /\ s.lbid = NoId

Live == {i \in Existing : ~lbs[i].released}

\* The controller's view of the deletion never runs ahead of the API server's.
Dying(svc) == svc = Gone \/ svc.deleting
DeadLabel(svc) == svc # Gone /\ svc.label # NoLabel /\ svc.label.deleting

ViewInv == pc # "idle" /\ rec.svc.deleting => Dying(api)

\* Which steps work on a service that is being deleted.
PathInv ==
    /\ pc # "idle" /\ rec.clean => rec.svc.deleting
    /\ pc \in CleanSteps => rec.clean
    /\ pc = "addFin" => ~rec.clean
    /\ pc = "delete" => rec.svc.deleting
    /\ pc \in {"create", "tag", "update"} => ~rec.svc.deleting

\* A hash label that records a deletion is written only when nothing is left to
\* delete, so Apply may skip the deletion of a service whose hash is unchanged.
LabelInv ==
    DeadLabel(api) \/ (pc # "idle" /\ DeadLabel(rec.svc)) =>
        /\ Live = {}
        /\ Dying(api)
        /\ pc # "idle" => rec.svc.deleting

\* What the reconcile in progress knows of the instances.
InstanceInv ==
    /\ \A i \in Existing : lbs[i].name = "default"
    /\ pc = "create" => Existing = {}
    /\ pc = "delete" => Existing \subseteq {rec.id}
    /\ pc \in ApplySteps /\ ~rec.svc.deleting => HasFinalizer(api)
    /\ /\ pc \in {"vgroups", "listeners", "cleanup", "labels", "status"} \cup CleanSteps
       /\ rec.svc.deleting
       => Live = {}

\* A plain service: the API server, the label and the reconcile in progress agree on
\* what is left to delete.
PlainInv ==
    /\ ViewInv /\ PathInv /\ LabelInv /\ InstanceInv
    /\ NoOrphan /\ NoDuplicate

=============================================================================
