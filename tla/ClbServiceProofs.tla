-------------------------- MODULE ClbServiceProofs --------------------------
(***************************************************************************)
(* Proofs about ClbService, for every set of services, backends and ids.   *)
(***************************************************************************)
EXTENDS ClbServiceLive, TLAPS

\* The types are not inductive alone: an instance named by the service must have
\* been found before it is worked on.
FoundInv == pc = "delete" /\ IsUserManaged(rec.svc) => rec.id # NoId
TypeInv == TypeOK /\ FoundInv

\* The writes to vserver groups and listeners, and those to labels and status.
ResourceWork ==
    \/ ApplyVGroups \/ ApplyVGroupsPartly \/ ApplyListeners \/ ApplyListenersPartly
    \/ CleanupVGroups \/ CleanupVGroupsPartly
StatusWork ==
    \/ AddServiceLabels \/ UpdateServiceStatus \/ RemoveServiceLabels
    \/ RemoveServiceStatus \/ RemoveServiceStatusSkipped

\* A reconcile works on the user's instance exactly when its service names it:
\* the other instances come from FindLoadBalancer or CreateLoadBalancer.
TargetInv ==
    /\ pc \in {"addFin", "find"} => rec.id = NoId
    /\ pc # "idle" /\ rec.id # NoId => (rec.id = UserLb <=> IsUserManaged(rec.svc))
    /\ pc \in {"create", "tag"} => ~IsUserManaged(rec.svc)

\* A service that needs a CLB as long as it lives, and one of them that reuses
\* the user's instance.
KeptService == \A s \in Specs : s.type = "LoadBalancer" /\ s.class = ""
ReuseService == KeptService /\ \A s \in Specs : s.lbid # NoId

\* Apply works on a live service only behind its finalizer.
HeldInv == pc \in ApplySteps /\ ~rec.svc.deleting => HasFinalizer(api)
KeptInv == TypeInv /\ TargetInv /\ ViewInv /\ PathInv /\ HeldInv

\* What the service has left on the user's instance.
NoGroups == lbs[UserLb] = NoLb \/ lbs[UserLb].vg = {}
Returned == lbs[UserLb] = NoLb \/ lbs[UserLb].lis = NoCfg

\* The vserver groups are guarded by the finalizer and gone before it goes.
GroupsInv ==
    /\ pc \in CleanSteps => NoGroups
    /\ NoGroups \/ HasFinalizer(api)

\* A hash label that records a deletion speaks of listeners already returned, so
\* a later reconcile of the same service may skip applyListeners.
MarkOK(svc) ==
    DeadLabel(svc) => /\ Dying(api)
                      /\ pc # "idle" => rec.svc.deleting
                      /\ svc.label.spec.override => Returned

ReturnInv ==
    /\ MarkOK(api) /\ (pc # "idle" => MarkOK(rec.svc))
    /\ /\ pc \in {"cleanup", "labels", "status"} \cup CleanSteps
       /\ rec.svc.deleting /\ rec.svc.spec.override
       => Returned

ReuseInv == KeptInv /\ GroupsInv /\ ReturnInv
-----------------------------------------------------------------------------

\* A fresh instance is an instance.
LEMMA NewInstanceType ==
    ASSUME NEW s \in Specs PROVE NewInstance(s) \in Instances
  BY SpecsAssumption DEF NewInstance, Instances, DefaultName, DefaultAddr, Cfgs

\* The initial state is well typed.
LEMMA InitTypeInv == Init => TypeInv
  <1> SUFFICES ASSUME Init PROVE TypeInv
    OBVIOUS
  <1>1. api \in Services /\ seen \in Hashes \cup {Gone}
    BY DEF Init, NewService, Services
  <1>2. UserInstance \in Instances
    BY DEF UserInstance, Instances
  <1>3. lbs \in [Lbs -> Instances \cup {NoLb}]
    BY <1>2 DEF Init
  <1> QED
    BY <1>1, <1>3 DEF Init, TypeInv, FoundInv, TypeOK, ApplySteps, SyncSteps, CleanSteps

\* What the watch delivers.
LEMMA DeliveredType ==
    ASSUME TypeInv PROVE Delivered(api) \in Hashes \cup {Gone}
  BY DEF TypeInv, TypeOK, Delivered, Services, Hashes

\* The request a reconcile starts with.
LEMMA NewReqType ==
    ASSUME TypeInv, NEW svc \in Services, NEW clean \in BOOLEAN
    PROVE  NewReq(svc, clean) \in Reqs
  BY DEF NewReq, Reqs, TypeInv, TypeOK

USE DEF ApplySteps, SyncSteps, CleanSteps

\* The user, the watch and a restart preserve the types.
LEMMA EnvTypeInv ==
    ASSUME TypeInv, User \/ WatchEvent \/ Restart \/ BackendEventLost
    PROVE  TypeInv'
  <1>1. CASE UserEdit
    <2>1. PICK s \in Specs : api # Gone /\ api' = [api EXCEPT !.spec = s]
      BY <1>1 DEF UserEdit
    <2>2. api' \in Services
      BY <2>1 DEF TypeInv, TypeOK, Services
    <2> QED
      BY <1>1, <2>2 DEF UserEdit, TypeInv, TypeOK, FoundInv
  <1>2. CASE UserDelete
    <2>1. api' \in Services \cup {Gone}
      BY <1>2 DEF UserDelete, TypeInv, TypeOK, Services
    <2> QED
      BY <1>2, <2>1 DEF UserDelete, TypeInv, TypeOK, FoundInv
  <1>3. CASE ConsoleDelete
    BY <1>3 DEF ConsoleDelete, TypeInv, TypeOK, FoundInv
  <1>4. CASE BackendEvent \/ BackendEventLost
    BY <1>4 DEF BackendEvent, BackendEventLost, TypeInv, TypeOK, FoundInv
  <1>5. CASE WatchEvent
    BY <1>5, DeliveredType DEF WatchEvent, TypeInv, TypeOK, FoundInv
  <1>6. CASE Restart
    BY <1>6, DeliveredType DEF Restart, Finish, Goto, TypeInv, TypeOK, FoundInv
  <1> QED
    BY <1>1, <1>2, <1>3, <1>4, <1>5, <1>6 DEF User

\* Steps that only choose where the reconcile goes on.
LEMMA GotoTypeInv ==
    ASSUME TypeInv, UNCHANGED <<api, seen, eps, lbs>>, queued' \in BOOLEAN,
           pc' \in ApplySteps \cup SyncSteps \cup CleanSteps \cup {"idle"},
           rec' \in Reqs \cup {NoRec},
           pc' # "idle" => rec' \in Reqs,
           pc' \in {"tag", "update", "vgroups", "listeners", "cleanup"} => rec'.id # NoId,
           FoundInv'
    PROVE  TypeInv'
  BY DEF TypeInv, TypeOK, FoundInv

\* Steps that end the reconcile with an error.
LEMMA ErrTypeInv ==
    ASSUME TypeInv, ReturnErr, UNCHANGED <<api, seen, eps, lbs>>
    PROVE  TypeInv'
  BY GotoTypeInv DEF ReturnErr, Finish, Goto, FoundInv

\* The choice of the first step.
LEMMA ReconcileTypeInv ==
    ASSUME TypeInv, Reconcile
    PROVE  TypeInv'
  <1>1. CASE Finish
    BY <1>1, GotoTypeInv DEF Reconcile, Finish, Goto, FoundInv
  <1>2. CASE api # Gone /\ \E clean \in BOOLEAN :
               Goto(IF clean THEN "find" ELSE "addFin", NewReq(api, clean))
    <2>1. api \in Services
      BY <1>2 DEF TypeInv, TypeOK
    <2> QED
      BY <1>2, <2>1, NewReqType, GotoTypeInv DEF Reconcile, Goto, FoundInv
  <1> QED
    BY <1>1, <1>2 DEF Reconcile

\* Adding the finalizer.
LEMMA AddFinalizersTypeInv ==
    ASSUME TypeInv, AddFinalizers
    PROVE  TypeInv'
  <1>1. rec \in Reqs /\ api \in Services
    BY DEF AddFinalizers, TypeInv, TypeOK
  <1>2. api' \in Services
    BY <1>1 DEF AddFinalizers, Services
  <1>3. [rec EXCEPT !.svc = api'] \in Reqs
    BY <1>1, <1>2 DEF Reqs
  <1> QED
    BY <1>2, <1>3 DEF AddFinalizers, Goto, TypeInv, TypeOK, FoundInv

\* Finding the instance.
LEMMA BuildAndFindTypeInv ==
    ASSUME TypeInv, BuildAndFind
    PROVE  TypeInv'
  <1> DEFINE r == [rec EXCEPT !.eps = eps]
  <1>1. rec \in Reqs /\ rec.svc \in Services
    BY DEF BuildAndFind, TypeInv, TypeOK, Reqs
  <1>2. r \in Reqs /\ \A i \in Lbs : [r EXCEPT !.id = i] \in Reqs /\ [r EXCEPT !.id = i].id = i
    BY <1>1 DEF Reqs, TypeInv, TypeOK
  <1>3. FindLoadBalancer(rec.svc) \subseteq Lbs
    BY <1>1, SpecsAssumption
       DEF FindLoadBalancer, IsUserManaged, Tagged, Named, Existing, Lbs, Services
  <1>4. PICK q \in Reqs : AfterFind(q) /\ (IsUserManaged(q.svc) => q.id # NoId)
    <2>1. CASE FindLoadBalancer(rec.svc) = {}
      BY <1>1, <1>2, <2>1 DEF BuildAndFind, FindLoadBalancer, Reqs
    <2>2. CASE FindLoadBalancer(rec.svc) # {}
      BY <1>2, <1>3, <2>2, IdsAssumption DEF BuildAndFind, Lbs
    <2> QED
      BY <2>1, <2>2
  <1>5. rec' \in Reqs /\ pc' \in ApplySteps \cup {"labels", "rmLabels"}
        /\ (pc' \in {"tag", "update", "vgroups", "listeners", "cleanup"} => rec'.id # NoId)
        /\ FoundInv'
    BY <1>4 DEF AfterFind, Goto, Applied, FoundInv
  <1> QED
    BY <1>5, GotoTypeInv DEF BuildAndFind, TypeInv, TypeOK

\* A step that changes one instance.
LEMMA InstanceTypeInv ==
    ASSUME TypeInv, UNCHANGED <<api, seen, eps>>, queued' \in BOOLEAN,
           pc' \in ApplySteps \cup SyncSteps \cup CleanSteps \cup {"idle"},
           rec' \in Reqs \cup {NoRec},
           pc' # "idle" => rec' \in Reqs,
           pc' \in {"tag", "update", "vgroups", "listeners", "cleanup"} => rec'.id # NoId,
           pc' # "delete",
           NEW i \in Lbs, NEW x \in Instances \cup {NoLb}, lbs' = [lbs EXCEPT ![i] = x]
    PROVE  TypeInv'
  BY DEF TypeInv, TypeOK, FoundInv

\* The instance a step works on.
LEMMA RecInstance ==
    ASSUME TypeInv, pc # "idle", rec.id # NoId, ~Vanished
    PROVE  /\ rec \in Reqs
           /\ rec.svc \in Services
           /\ rec.id \in Lbs
           /\ lbs[rec.id] \in Instances
  BY DEF TypeInv, TypeOK, Reqs, Vanished

\* Removing or handing over the instance.
LEMMA DeleteTypeInv ==
    ASSUME TypeInv, DeleteLoadBalancer
    PROVE  TypeInv'
  <1>1. rec \in Reqs /\ rec.svc \in Services /\ [rec EXCEPT !.id = NoId] \in Reqs
    BY DEF DeleteLoadBalancer, TypeInv, TypeOK, Reqs
  <1>2. CASE IsUserManaged(rec.svc) /\ rec.id # NoId
    BY <1>1, <1>2, GotoTypeInv DEF DeleteLoadBalancer, Goto, TypeInv, TypeOK, FoundInv
  <1>3. CASE ~IsUserManaged(rec.svc) /\ rec.id = NoId
    BY <1>1, <1>3, GotoTypeInv DEF DeleteLoadBalancer, Applied, Goto, TypeInv, TypeOK, FoundInv
  <1>4. CASE ~IsUserManaged(rec.svc) /\ rec.id # NoId
    <2>1. rec.id \in Lbs /\ lbs[rec.id] \in Instances
      BY <1>4, RecInstance DEF DeleteLoadBalancer
    <2>2. HandOver(lbs[rec.id]) \in Instances
      BY <2>1 DEF Instances, HandOver
    <2>3. \E x \in Instances \cup {NoLb} : lbs' = [lbs EXCEPT ![rec.id] = x]
      BY <1>4, <2>2 DEF DeleteLoadBalancer
    <2> QED
      BY <1>1, <1>4, <2>1, <2>3, InstanceTypeInv
         DEF DeleteLoadBalancer, Applied, Goto, TypeInv, TypeOK, FoundInv
  <1>5. CASE IsUserManaged(rec.svc) /\ rec.id = NoId
    BY <1>5 DEF DeleteLoadBalancer, TypeInv, FoundInv
  <1> QED
    BY <1>2, <1>3, <1>4, <1>5

\* Creating the instance.
LEMMA CreateTypeInv ==
    ASSUME TypeInv, CreateLoadBalancer
    PROVE  TypeInv'
  <1>1. rec \in Reqs /\ rec.svc.spec \in Specs
    BY DEF CreateLoadBalancer, TypeInv, TypeOK, Reqs, Services
  <1>2. PICK i \in LbIds :
          /\ \/ UNCHANGED lbs
             \/ lbs' = [lbs EXCEPT ![i] = NewInstance(rec.svc.spec)]
          /\ Goto("tag", [rec EXCEPT !.id = i])
    BY DEF CreateLoadBalancer
  <1>3. i \in Lbs /\ i # NoId /\ [rec EXCEPT !.id = i] \in Reqs /\ [rec EXCEPT !.id = i].id = i
    BY <1>1, IdsAssumption DEF Reqs, Lbs
  <1>4. CASE UNCHANGED lbs
    BY <1>2, <1>3, <1>4, GotoTypeInv DEF CreateLoadBalancer, Goto, TypeInv, TypeOK, FoundInv
  <1>5. CASE lbs' = [lbs EXCEPT ![i] = NewInstance(rec.svc.spec)]
    BY <1>1, <1>2, <1>3, <1>5, NewInstanceType, InstanceTypeInv
       DEF CreateLoadBalancer, Goto, TypeInv, TypeOK, FoundInv
  <1> QED
    BY <1>2, <1>4, <1>5

\* Tagging the instance.
LEMMA TagTypeInv ==
    ASSUME TypeInv, TagLoadBalancer
    PROVE  TypeInv'
  <1>1. rec.id # NoId /\ ~Vanished /\ pc # "idle"
    BY DEF TagLoadBalancer, TypeInv, TypeOK
  <1>2. rec \in Reqs /\ rec.id \in Lbs /\ lbs[rec.id] \in Instances
    BY <1>1, RecInstance
  <1> DEFINE x == [lbs[rec.id] EXCEPT !.tag = TRUE, !.released = FALSE]
  <1>3. x \in Instances
    BY <1>2 DEF Instances
  <1>4. lbs' = [lbs EXCEPT ![rec.id] = x]
    BY <1>2 DEF TagLoadBalancer, TypeInv, TypeOK, Instances
  <1> QED
    BY <1>1, <1>2, <1>3, <1>4, InstanceTypeInv DEF TagLoadBalancer, Goto, TypeInv, TypeOK

\* Attributes and tag change; the listeners do not, nor the name but to the service's.
LEMMA UpdatedType ==
    ASSUME NEW y \in Instances, NEW svc \in Services, NEW okTag \in BOOLEAN,
           NEW okAttr \in BOOLEAN
    PROVE  /\ Updated(y, svc, okTag, okAttr) \in Instances
           /\ Updated(y, svc, okTag, okAttr).lis = y.lis
           /\ svc.spec.name = "" => Updated(y, svc, okTag, okAttr).name = y.name
  <1> DEFINE tag == y.tag \/ (okTag /\ ~IsUserManaged(svc))
             released == y.released /\ ~okTag
             attr == IF okAttr THEN svc.spec.cfg ELSE y.attr
             name == IF okAttr /\ svc.spec.name # "" THEN svc.spec.name ELSE y.name
             x == [y EXCEPT !.tag = tag, !.released = released, !.attr = attr, !.name = name]
  <1>1. Updated(y, svc, okTag, okAttr) = x
    BY DEF Updated
  <1>2. tag \in BOOLEAN /\ released \in BOOLEAN
    OBVIOUS
  <1>3. attr \in Cfgs \cup {NoCfg} /\ name \in {"default", "custom", "user"}
    <2>1. svc.spec.cfg \in Cfgs /\ (svc.spec.name # "" => svc.spec.name = "custom")
      BY SpecsAssumption DEF Services, Cfgs
    <2>2. y.attr \in Cfgs \cup {NoCfg} /\ y.name \in {"default", "custom", "user"}
      BY DEF Instances
    <2> QED
      BY <2>1, <2>2
  <1>4. svc.spec.name = "" => name = y.name
    OBVIOUS
  <1> HIDE DEF tag, released, attr, name
  <1>5. x \in Instances
    BY <1>2, <1>3 DEF Instances
  <1>6. x.lis = y.lis /\ x.name = name
    BY DEF Instances
  <1> HIDE DEF x
  <1> QED
    BY <1>1, <1>4, <1>5, <1>6

\* Updating the instance.
LEMMA UpdateTypeInv ==
    ASSUME TypeInv, NEW okTag \in BOOLEAN, NEW okAttr \in BOOLEAN, UpdateWith(okTag, okAttr)
    PROVE  TypeInv'
  <1>1. rec.id # NoId /\ ~Vanished /\ pc # "idle"
    BY DEF UpdateWith, TypeInv, TypeOK
  <1>2. rec \in Reqs /\ rec.svc \in Services /\ rec.id \in Lbs /\ lbs[rec.id] \in Instances
    BY <1>1, RecInstance
  <1> DEFINE x == Updated(lbs[rec.id], rec.svc, okTag, okAttr)
             errs == ~(okTag /\ okAttr /\ rec.svc.spec.addr \in {"", lbs[rec.id].addr})
  <1>3. x \in Instances
    BY <1>2, UpdatedType
  <1>4. lbs' = [lbs EXCEPT ![rec.id] = x]
    BY DEF UpdateWith
  <1>5. [rec EXCEPT !.errs = errs] \in Reqs /\ [rec EXCEPT !.errs = errs].id = rec.id
    BY <1>2 DEF Reqs
  <1>6. pc' = "vgroups" /\ rec' = [rec EXCEPT !.errs = errs]
    BY DEF UpdateWith, Goto
  <1>7. UNCHANGED <<api, seen, eps, queued>>
    BY DEF UpdateWith
  <1> HIDE DEF x, errs
  <1> QED
    BY <1>1, <1>2, <1>3, <1>4, <1>5, <1>6, <1>7, InstanceTypeInv DEF TypeInv, TypeOK

\* Writing the vserver groups, the listeners, and cleaning up: the instance of the
\* reconcile keeps its name and its owner.
LEMMA ResourceStep ==
    ASSUME TypeInv, ResourceWork
    PROVE  /\ rec \in Reqs /\ rec.svc \in Services /\ rec.id \in Lbs /\ rec.id # NoId
           /\ lbs[rec.id] \in Instances
           /\ \/ UNCHANGED lbs
              \/ \E x \in Instances : /\ lbs' = [lbs EXCEPT ![rec.id] = x]
                                      /\ x.name = lbs[rec.id].name
                                      /\ x.released = lbs[rec.id].released
           /\ UNCHANGED <<api, seen, eps>>
           /\ queued' \in BOOLEAN
           /\ pc \in {"vgroups", "listeners", "cleanup"}
           /\ \/ pc' = "idle" /\ rec' = NoRec
              \/ pc' \in {"listeners", "cleanup"} /\ rec' = rec
              \/ pc' = (IF rec.clean THEN "rmLabels" ELSE "labels") /\ rec' = rec
  <1>1. rec.id # NoId /\ ~Vanished /\ pc # "idle"
    BY DEF ResourceWork, ApplyVGroups, ApplyVGroupsPartly, ApplyListeners,
           ApplyListenersPartly, CleanupVGroups, CleanupVGroupsPartly, TypeInv, TypeOK
  <1>2. /\ rec \in Reqs /\ rec.svc \in Services /\ rec.id \in Lbs
        /\ lbs[rec.id] \in Instances /\ lbs \in [Lbs -> Instances \cup {NoLb}]
        /\ rec.svc.spec.cfg \in Cfgs /\ rec.eps \in Endpoints
    BY <1>1, RecInstance DEF Services, Cfgs, Reqs, TypeInv, TypeOK
  <1> DEFINE y == lbs[rec.id]
             Keeps(x) == x \in Instances /\ x.name = y.name /\ x.released = y.released
  <1>3. \A g \in SUBSET (Cfgs \X (Endpoints \cup {Mixed})) : Keeps([y EXCEPT !.vg = g])
    BY <1>2 DEF Instances
  <1>4. \A c \in Cfgs \cup {NoCfg, Mixed} : Keeps([y EXCEPT !.lis = c])
    BY <1>2 DEF Instances
  <1>5. UNCHANGED lbs \/ \E x : lbs' = [lbs EXCEPT ![rec.id] = x] /\ Keeps(x)
    <2>0. y.vg \in SUBSET (Cfgs \X (Endpoints \cup {Mixed}))
      BY <1>2 DEF Instances
    <2>1. CASE ApplyVGroups /\ lbs' # lbs
      <3> DEFINE c == rec.svc.spec.cfg
                 g == {h \in y.vg : h[1] # c} \cup {<<c, rec.eps>>}
      <3>1. g \in SUBSET (Cfgs \X (Endpoints \cup {Mixed}))
        BY <1>2, <2>0
      <3>2. lbs' = [lbs EXCEPT ![rec.id] = [y EXCEPT !.vg = g]]
        BY <1>2, <2>1 DEF ApplyVGroups
      <3> QED
        BY <1>3, <3>1, <3>2
    <2>2. CASE ApplyListeners /\ lbs' # lbs
      <3>1. lbs' = [lbs EXCEPT ![rec.id] = [y EXCEPT !.lis = LocalListeners(rec.svc)]]
        BY <1>2, <2>2 DEF ApplyListeners
      <3> QED
        BY <1>2, <1>4, <3>1 DEF LocalListeners
    <2>3. CASE ApplyListenersPartly
      <3>1. lbs' = [lbs EXCEPT ![rec.id] = [y EXCEPT !.lis = Mixed]]
        BY <1>2, <2>3 DEF ApplyListenersPartly
      <3> QED
        BY <1>4, <3>1
    <2>4. CASE CleanupVGroups
      <3> DEFINE g == y.vg \ Unused(y, rec.svc)
      <3>1. g \in SUBSET (Cfgs \X (Endpoints \cup {Mixed}))
        BY <2>0
      <3>2. lbs' = [lbs EXCEPT ![rec.id] = [y EXCEPT !.vg = g]]
        BY <1>2, <2>4 DEF CleanupVGroups
      <3> QED
        BY <1>3, <3>1, <3>2
    <2>5. CASE ApplyVGroupsPartly
      <3> DEFINE c == rec.svc.spec.cfg
                 g == {h \in y.vg : h[1] # c} \cup {<<c, Mixed>>}
      <3>1. g \in SUBSET (Cfgs \X (Endpoints \cup {Mixed}))
        BY <1>2, <2>0
      <3>2. lbs' = [lbs EXCEPT ![rec.id] = [y EXCEPT !.vg = g]]
        BY <1>2, <2>5 DEF ApplyVGroupsPartly
      <3> QED
        BY <1>3, <3>1, <3>2
    <2>6. CASE CleanupVGroupsPartly
      <3>1. PICK gone : lbs' = [lbs EXCEPT ![rec.id] = [y EXCEPT !.vg = y.vg \ gone]]
        BY <1>2, <2>6 DEF CleanupVGroupsPartly
      <3>2. y.vg \ gone \in SUBSET (Cfgs \X (Endpoints \cup {Mixed}))
        BY <2>0
      <3> QED
        BY <1>3, <3>1, <3>2
    <2> QED
      BY <2>1, <2>2, <2>3, <2>4, <2>5, <2>6 DEF ResourceWork
  <1>6. /\ UNCHANGED <<api, seen, eps>>
        /\ queued' \in BOOLEAN
        /\ pc \in {"vgroups", "listeners", "cleanup"}
        /\ \/ pc' = "idle" /\ rec' = NoRec
           \/ pc' \in {"listeners", "cleanup"} /\ rec' = rec
           \/ pc' = (IF rec.clean THEN "rmLabels" ELSE "labels") /\ rec' = rec
    BY DEF ResourceWork, ApplyVGroups, ApplyVGroupsPartly, ApplyListeners,
           ApplyListenersPartly, CleanupVGroups, CleanupVGroupsPartly,
           ReturnErr, Finish, Applied, Goto, TypeInv, TypeOK
  <1> QED
    BY <1>1, <1>2, <1>5, <1>6

LEMMA ResourceTypeInv ==
    ASSUME TypeInv, ResourceWork
    PROVE  TypeInv'
  <1>1. CASE UNCHANGED lbs
    BY <1>1, ResourceStep, GotoTypeInv DEF FoundInv
  <1>2. CASE lbs' # lbs
    BY <1>2, ResourceStep, InstanceTypeInv
  <1> QED
    BY <1>1, <1>2

\* The end of a reconcile, on either path.
LEMMA FinishTypeInv ==
    ASSUME TypeInv, StatusWork \/ RemoveFinalizers
    PROVE  TypeInv'
  <1> USE DEF StatusWork, AddServiceLabels, UpdateServiceStatus, RemoveServiceLabels,
              RemoveServiceStatus, RemoveServiceStatusSkipped, RemoveFinalizers
  <1>1. rec \in Reqs /\ rec.svc \in Services
    BY DEF TypeInv, TypeOK, Reqs
  <1>2. \/ pc' \in {"status", "rmStatus", "rmFin"} /\ rec' = rec
        \/ pc' = "idle" /\ rec' = NoRec
    BY DEF Finish, Goto
  <1>3. UNCHANGED <<seen, eps, lbs>> /\ queued' \in BOOLEAN
    BY DEF TypeInv, TypeOK
  <1>4. api' \in Services \cup {Gone}
    <2>1. CASE AddServiceLabels
      <3>1. GetServiceHash(rec.svc) \in Hashes
        BY <1>1 DEF GetServiceHash, Hashes, Services
      <3> QED
        BY <2>1, <3>1 DEF Services, TypeInv, TypeOK
    <2>2. CASE ~AddServiceLabels
      BY <1>1, <2>2 DEF Services, Reqs, TypeInv, TypeOK
    <2> QED
      BY <2>1, <2>2
  <1> QED
    BY <1>1, <1>2, <1>3, <1>4 DEF TypeInv, TypeOK, FoundInv

\* Every step preserves the types.
LEMMA NextTypeInv == TypeInv /\ [Next]_vars => TypeInv'
  <1> SUFFICES ASSUME TypeInv, [Next]_vars PROVE TypeInv'
    OBVIOUS
  <1>1. CASE User \/ WatchEvent \/ Restart \/ BackendEventLost
    BY <1>1, EnvTypeInv
  <1>2. CASE Reconcile
    BY <1>2, ReconcileTypeInv
  <1>3. CASE AddFinalizers
    BY <1>3, AddFinalizersTypeInv
  <1>4. CASE BuildAndFind
    BY <1>4, BuildAndFindTypeInv
  <1>5. CASE DeleteLoadBalancer
    BY <1>5, DeleteTypeInv
  <1>6. CASE CreateLoadBalancer
    BY <1>6, CreateTypeInv
  <1>7. CASE TagLoadBalancer
    BY <1>7, TagTypeInv
  <1>8. CASE UpdateLoadBalancer \/ UpdateLoadBalancerPartly
    BY <1>8, UpdateTypeInv DEF UpdateLoadBalancer, UpdateLoadBalancerPartly
  <1>9. CASE ResourceWork
    BY <1>9, ResourceTypeInv
  <1>10. CASE LoadBalancerMissing
    <2>1. rec \in Reqs /\ rec' = rec /\ pc' \in {"labels", "rmLabels"}
      BY <1>10 DEF LoadBalancerMissing, Applied, Goto, TypeInv, TypeOK
    <2> QED
      BY <1>10, <2>1, GotoTypeInv DEF LoadBalancerMissing, FoundInv, TypeInv, TypeOK
  <1>11. CASE \/ StatusWork \/ RemoveFinalizers
    BY <1>11, FinishTypeInv
  <1>12. CASE ReconcileErr \/ StepFails
    BY <1>12, ErrTypeInv DEF ReconcileErr, StepFails
  <1>13. CASE UNCHANGED vars
    BY <1>13 DEF vars, TypeInv, TypeOK, FoundInv
  <1> QED
    BY <1>1, <1>2, <1>3, <1>4, <1>5, <1>6, <1>7, <1>8, <1>9, <1>10, <1>11, <1>12, <1>13
       DEF Next, ReconcileStep, Fault, ResourceWork, StatusWork

\* Type correctness: no interleaving of the user, the watch, faults and the
\* reconcile makes a step work on an instance it has not found.
THEOREM TypeCorrect == Spec => []TypeOK
  <1>1. Init => TypeInv
    BY InitTypeInv
  <1>2. TypeInv /\ [Next]_vars => TypeInv'
    BY NextTypeInv
  <1>3. TypeInv => TypeOK
    BY DEF TypeInv
  <1> QED
    BY <1>1, <1>2, <1>3, PTL DEF Spec

-----------------------------------------------------------------------------
(* The user's instance.                                                    *)

\* How Apply goes on: with the same service, along the order of its steps.
LEMMA ApplyMove ==
    ASSUME TypeInv,
           \/ BuildAndFind \/ DeleteLoadBalancer \/ CreateLoadBalancer \/ TagLoadBalancer
           \/ UpdateLoadBalancer \/ UpdateLoadBalancerPartly
           \/ ResourceWork
           \/ LoadBalancerMissing
    PROVE  /\ pc \in ApplySteps /\ rec \in Reqs /\ rec.svc \in Services
           /\ UNCHANGED api
           /\ \/ Finish
              \/ /\ rec'.svc = rec.svc /\ rec'.clean = rec.clean
                 /\ pc' \in ApplySteps \cup {"labels", "rmLabels"} /\ pc' # "find"
                 /\ pc' = "delete" => pc = "find" /\ NeedDeleteLoadBalancer(rec.svc)
                 /\ pc' \in {"create", "update"} => pc = "find" /\ ~NeedDeleteLoadBalancer(rec.svc)
                 /\ pc' = "tag" => pc = "create"
                 /\ pc' = "rmLabels" => rec.clean
  <1>0. ASSUME NEW e, NEW i, NEW b PROVE
          rec \in Reqs => /\ [rec EXCEPT !.eps = e].svc = rec.svc
                          /\ [rec EXCEPT !.eps = e].clean = rec.clean
                          /\ [rec EXCEPT !.id = i].svc = rec.svc
                          /\ [rec EXCEPT !.id = i].clean = rec.clean
                          /\ [rec EXCEPT !.errs = b].svc = rec.svc
                          /\ [rec EXCEPT !.errs = b].clean = rec.clean
                          /\ [[rec EXCEPT !.eps = e] EXCEPT !.id = i].svc = rec.svc
                          /\ [[rec EXCEPT !.eps = e] EXCEPT !.id = i].clean = rec.clean
    BY DEF Reqs
  <1>1. pc \in ApplySteps /\ rec \in Reqs /\ rec.svc \in Services
    BY DEF BuildAndFind, DeleteLoadBalancer, CreateLoadBalancer, TagLoadBalancer,
           UpdateLoadBalancer, UpdateLoadBalancerPartly, UpdateWith, ResourceWork, ApplyVGroups,
           ApplyVGroupsPartly, ApplyListeners, ApplyListenersPartly, CleanupVGroups,
           CleanupVGroupsPartly, LoadBalancerMissing, TypeInv, TypeOK, Reqs
  <1>2. CASE BuildAndFind
    <2>1. \/ AfterFind([rec EXCEPT !.eps = eps])
          \/ \E i : AfterFind([[rec EXCEPT !.eps = eps] EXCEPT !.id = i])
      BY <1>2 DEF BuildAndFind
    <2>2. PICK q : AfterFind(q) /\ q.svc = rec.svc /\ q.clean = rec.clean
      <3>1. CASE AfterFind([rec EXCEPT !.eps = eps])
        BY <1>0, <1>1, <3>1
      <3>2. CASE \E i : AfterFind([[rec EXCEPT !.eps = eps] EXCEPT !.id = i])
        <4>1. PICK i : AfterFind([[rec EXCEPT !.eps = eps] EXCEPT !.id = i])
          BY <3>2
        <4> DEFINE q == [[rec EXCEPT !.eps = eps] EXCEPT !.id = i]
        <4>2. AfterFind(q) /\ q.svc = rec.svc /\ q.clean = rec.clean
          BY <1>0, <1>1, <4>1
        <4> HIDE DEF q
        <4> QED
          BY <4>2
      <3> QED
        BY <2>1, <3>1, <3>2
    <2> QED
      BY <1>1, <1>2, <2>2 DEF BuildAndFind, AfterFind, Applied, Goto
  <1>3. CASE DeleteLoadBalancer
    BY <1>0, <1>1, <1>3 DEF DeleteLoadBalancer, Applied, Goto
  <1>4. CASE CreateLoadBalancer
    BY <1>0, <1>1, <1>4 DEF CreateLoadBalancer, Goto
  <1>5. CASE TagLoadBalancer
    BY <1>1, <1>5 DEF TagLoadBalancer, Goto
  <1>6. CASE UpdateLoadBalancer \/ UpdateLoadBalancerPartly
    <2>1. PICK okTag \in BOOLEAN, okAttr \in BOOLEAN : UpdateWith(okTag, okAttr)
      BY <1>6 DEF UpdateLoadBalancer, UpdateLoadBalancerPartly
    <2> QED
      BY <1>0, <1>1, <2>1 DEF UpdateWith, Goto
  <1>7. CASE ResourceWork
    BY <1>1, <1>7, ResourceStep DEF Finish, Goto
  <1>8. CASE LoadBalancerMissing
    BY <1>1, <1>8 DEF LoadBalancerMissing, Applied, Goto
  <1> QED
    BY <1>2, <1>3, <1>4, <1>5, <1>6, <1>7, <1>8

\* Which instance Apply works on.
LEMMA FindTarget ==
    ASSUME TypeInv, TargetInv, BuildAndFind
    PROVE  TargetInv'
  <1>1. pc = "find" /\ rec \in Reqs /\ rec.svc \in Services /\ rec.id = NoId
    BY DEF BuildAndFind, TypeInv, TypeOK, Reqs, TargetInv
  <1>2. FindLoadBalancer(rec.svc) = IF IsUserManaged(rec.svc) THEN {UserLb}
                                    ELSE IF Tagged # {} THEN Tagged ELSE Named
    BY <1>1, SpecsAssumption DEF FindLoadBalancer, IsUserManaged, Services
  <1>3. PICK q : /\ AfterFind(q) /\ q.svc = rec.svc
                 /\ q.id # NoId => (q.id = UserLb <=> IsUserManaged(rec.svc))
                 /\ q.id = NoId => ~IsUserManaged(rec.svc)
    <2> DEFINE r == [rec EXCEPT !.eps = eps]
    <2>1. r.svc = rec.svc /\ r.id = NoId /\ r \in Reqs
      BY <1>1 DEF Reqs, TypeInv, TypeOK
    <2>2. CASE FindLoadBalancer(rec.svc) = {}
      BY <1>2, <2>1, <2>2 DEF BuildAndFind
    <2>3. CASE FindLoadBalancer(rec.svc) # {}
      <3>1. PICK i \in FindLoadBalancer(rec.svc) : AfterFind([r EXCEPT !.id = i])
        BY <2>3 DEF BuildAndFind
      <3>2. [r EXCEPT !.id = i].svc = rec.svc /\ [r EXCEPT !.id = i].id = i
        BY <2>1 DEF Reqs
      <3>3. i # NoId /\ (i = UserLb <=> IsUserManaged(rec.svc))
        BY <1>2, <3>1, IdsAssumption DEF Tagged, Named, Existing
      <3> QED
        BY <3>1, <3>2, <3>3
    <2> QED
      BY <2>2, <2>3
  <1>4. rec' = q /\ pc' \notin {"addFin", "find", "tag", "idle"} /\ (pc' = "create" => q.id = NoId)
    BY <1>3 DEF AfterFind, Applied, Goto
  <1> QED
    BY <1>3, <1>4 DEF TargetInv, IsUserManaged

LEMMA NextTargetInv == TypeInv /\ TargetInv /\ [Next]_vars => TargetInv'
  <1> SUFFICES ASSUME TypeInv, TargetInv, [Next]_vars PROVE TargetInv'
    OBVIOUS
  <1>1. CASE pc' = "idle"
    BY <1>1 DEF TargetInv
  <1>2. CASE UNCHANGED <<pc, rec>>
    BY <1>2 DEF TargetInv, IsUserManaged
  <1>3. CASE Reconcile
    BY <1>3 DEF Reconcile, Finish, Goto, NewReq, TargetInv
  <1>4. CASE AddFinalizers
    <2>1. rec \in Reqs /\ pc' = "find" /\ rec.id = NoId /\ \E s : rec' = [rec EXCEPT !.svc = s]
      BY <1>4 DEF AddFinalizers, Goto, TargetInv, TypeInv, TypeOK
    <2>2. rec'.id = NoId
      BY <2>1 DEF Reqs
    <2> QED
      BY <2>1, <2>2 DEF TargetInv
  <1>5. CASE BuildAndFind
    BY <1>5, FindTarget
  <1>6. CASE CreateLoadBalancer
    <2>1. PICK i \in LbIds : rec' = [rec EXCEPT !.id = i]
      BY <1>6 DEF CreateLoadBalancer, Goto
    <2>2. rec \in Reqs /\ pc = "create" /\ pc' = "tag"
      BY <1>6 DEF CreateLoadBalancer, Goto, TypeInv, TypeOK
    <2>3. rec'.svc = rec.svc /\ rec'.id = i
      BY <2>1, <2>2 DEF Reqs
    <2> QED
      BY <2>1, <2>2, <2>3, IdsAssumption DEF TargetInv, IsUserManaged
  <1>7. CASE /\ \/ DeleteLoadBalancer \/ TagLoadBalancer
                \/ UpdateLoadBalancer \/ UpdateLoadBalancerPartly
                \/ ResourceWork
                \/ LoadBalancerMissing
             /\ pc' # "idle"
    <2>1. /\ rec'.svc = rec.svc
          /\ pc' \notin {"addFin", "find", "create", "tag"}
      BY <1>7, ApplyMove DEF Finish, Goto, DeleteLoadBalancer, TagLoadBalancer,
           UpdateLoadBalancer, UpdateLoadBalancerPartly, UpdateWith, ResourceWork, ApplyVGroups,
           ApplyVGroupsPartly, ApplyListeners, ApplyListenersPartly, CleanupVGroups,
           CleanupVGroupsPartly, LoadBalancerMissing, Applied
    <2>2. rec'.id \in {rec.id, NoId}
      <3>1. rec \in Reqs
        BY <1>7, ApplyMove
      <3>2. \A b : [rec EXCEPT !.errs = b].id = rec.id /\ [rec EXCEPT !.id = NoId].id = NoId
        BY <3>1 DEF Reqs
      <3> QED
        BY <1>7, <3>2 DEF Finish, Goto, ReturnErr, DeleteLoadBalancer, TagLoadBalancer,
           UpdateLoadBalancer, UpdateLoadBalancerPartly, UpdateWith, ResourceWork, ApplyVGroups,
           ApplyVGroupsPartly, ApplyListeners, ApplyListenersPartly, CleanupVGroups,
           CleanupVGroupsPartly, LoadBalancerMissing, Applied
    <2>3. pc # "idle"
      BY <1>7, ApplyMove
    <2> QED
      BY <2>1, <2>2, <2>3 DEF TargetInv, IsUserManaged
  <1>8. CASE \/ StatusWork \/ RemoveFinalizers
             \/ ReconcileErr \/ StepFails \/ Restart
    BY <1>8 DEF StatusWork, AddServiceLabels, UpdateServiceStatus, RemoveServiceLabels,
           RemoveServiceStatus, RemoveServiceStatusSkipped,
         RemoveFinalizers, ReconcileErr, StepFails, Restart, ReturnErr, Finish, Goto, TargetInv, IsUserManaged
  <1>9. CASE User \/ WatchEvent \/ BackendEventLost \/ UNCHANGED vars
    BY <1>2, <1>9 DEF User, UserEdit, UserDelete, ConsoleDelete, BackendEvent, BackendEventLost,
         WatchEvent, vars
  <1> QED
    BY <1>1, <1>3, <1>4, <1>5, <1>6, <1>7, <1>8, <1>9
       DEF Next, ReconcileStep, Fault, ResourceWork, StatusWork

\* A step of Apply that changes the user's instance works for a service that
\* names it.
LEMMA UserLbStep ==
    ASSUME TypeInv, TargetInv, [Next]_vars, lbs[UserLb] # NoLb, ~ConsoleDelete
    PROVE  /\ lbs'[UserLb] # NoLb
           /\ lbs'[UserLb].lis # lbs[UserLb].lis => rec.svc.spec.override
  <1>0. UserLb \in Lbs /\ UserLb \notin LbIds /\ lbs[UserLb] \in Instances /\ NoLb \notin Instances
    BY IdsAssumption, NoneAssumption DEF Lbs, TypeInv, TypeOK
  <1>1. CASE UNCHANGED lbs
    BY <1>0, <1>1
  <1>2. CASE DeleteLoadBalancer
    <2>1. CASE rec.id = NoId \/ IsUserManaged(rec.svc)
      BY <1>1, <1>2, <2>1 DEF DeleteLoadBalancer
    <2>2. CASE rec.id # NoId /\ ~IsUserManaged(rec.svc)
      <3>1. rec.id # UserLb
        BY <1>2, <2>2 DEF TargetInv, DeleteLoadBalancer
      <3>2. \E x : lbs' = [lbs EXCEPT ![rec.id] = x]
        BY <1>2, <2>2 DEF DeleteLoadBalancer
      <3> QED
        BY <1>0, <3>1, <3>2 DEF TypeInv, TypeOK
    <2> QED
      BY <2>1, <2>2
  <1>3. CASE CreateLoadBalancer
    <2>1. UNCHANGED lbs \/ \E i \in LbIds : \E x : lbs' = [lbs EXCEPT ![i] = x]
      BY <1>3 DEF CreateLoadBalancer
    <2> QED
      BY <1>0, <2>1 DEF TypeInv, TypeOK
  <1>4. CASE TagLoadBalancer
    <2>1. /\ rec.id # UserLb
          /\ lbs' = [lbs EXCEPT ![rec.id].tag = TRUE, ![rec.id].released = FALSE]
      BY <1>4 DEF TagLoadBalancer, TargetInv, TypeInv, TypeOK
    <2> QED
      BY <1>0, <2>1 DEF TypeInv, TypeOK
  <1>5. CASE UpdateLoadBalancer \/ UpdateLoadBalancerPartly
    <2>1. PICK okTag \in BOOLEAN, okAttr \in BOOLEAN : UpdateWith(okTag, okAttr)
      BY <1>5 DEF UpdateLoadBalancer, UpdateLoadBalancerPartly
    <2>2. lbs' = [lbs EXCEPT ![rec.id] = Updated(lbs[rec.id], rec.svc, okTag, okAttr)]
      BY <2>1 DEF UpdateWith
    <2>3. rec.svc \in Services
      BY <1>5, ApplyMove
    <2>4. /\ Updated(lbs[UserLb], rec.svc, okTag, okAttr) \in Instances
          /\ Updated(lbs[UserLb], rec.svc, okTag, okAttr).lis = lbs[UserLb].lis
      <3>1. \A y \in Instances : /\ Updated(y, rec.svc, okTag, okAttr) \in Instances
                                  /\ Updated(y, rec.svc, okTag, okAttr).lis = y.lis
        BY <2>1, <2>3, UpdatedType
      <3> QED
        BY <1>0, <3>1
    <2> QED
      BY <1>0, <2>2, <2>4 DEF TypeInv, TypeOK
  <1>6. CASE ResourceWork
    <2>1. lbs'[UserLb] \in Instances
      BY <1>0, <1>6, ResourceStep DEF TypeInv, TypeOK
    <2>2. rec.id \in Lbs /\ lbs[rec.id] \in Instances /\ pc # "idle" /\ rec.id # NoId
      BY <1>6, ResourceStep
    <2>3. CASE ApplyVGroups \/ ApplyVGroupsPartly \/ CleanupVGroups \/ CleanupVGroupsPartly
      <3>1. UNCHANGED lbs \/ \E g : lbs' = [lbs EXCEPT ![rec.id] = [lbs[rec.id] EXCEPT !.vg = g]]
        BY <1>0, <2>2, <2>3 DEF ApplyVGroups, ApplyVGroupsPartly, CleanupVGroups, CleanupVGroupsPartly,
                                TypeInv, TypeOK
      <3>2. \A g : [lbs[UserLb] EXCEPT !.vg = g].lis = lbs[UserLb].lis
        BY <1>0 DEF Instances
      <3>3. lbs'[UserLb] = lbs[UserLb] \/ \E g : lbs'[UserLb] = [lbs[UserLb] EXCEPT !.vg = g]
        <4>1. CASE UNCHANGED lbs
          BY <4>1
        <4>2. CASE ~UNCHANGED lbs
          <5>1. PICK g : lbs' = [lbs EXCEPT ![rec.id] = [lbs[rec.id] EXCEPT !.vg = g]]
            BY <3>1, <4>2
          <5>2. CASE rec.id = UserLb
            <6>1. lbs'[UserLb] = [lbs[UserLb] EXCEPT !.vg = g]
              BY <1>0, <5>1, <5>2, Zenon DEF TypeInv, TypeOK
            <6> QED
              BY <6>1
          <5>3. CASE rec.id # UserLb
            BY <1>0, <5>1, <5>3 DEF TypeInv, TypeOK
          <5> QED
            BY <5>2, <5>3
        <4> QED
          BY <4>1, <4>2
      <3> QED
        BY <1>0, <2>1, <3>2, <3>3
    <2>4. CASE ApplyListeners \/ ApplyListenersPartly
      <3>1. UNCHANGED lbs \/ (~SkipListeners(rec.svc) /\ \E c : lbs' = [lbs EXCEPT ![rec.id].lis = c])
        BY <2>4 DEF ApplyListeners, ApplyListenersPartly
      <3>2. lbs'[UserLb] # lbs[UserLb] => rec.id = UserLb /\ ~SkipListeners(rec.svc)
        BY <1>0, <2>2, <3>1 DEF TypeInv, TypeOK
      <3>3. rec.id = UserLb => IsUserManaged(rec.svc)
        BY <2>2 DEF TargetInv
      <3>4. rec.svc \in Services
        BY <1>6, ResourceStep
      <3>5. rec.svc.spec.override \in BOOLEAN
        BY <3>4, SpecsAssumption DEF Services
      <3> QED
        BY <1>0, <2>1, <3>2, <3>3, <3>5 DEF SkipListeners
    <2> QED
      BY <1>6, <2>3, <2>4 DEF ResourceWork
  <1>7. CASE ~UNCHANGED lbs
    <2>1. \/ DeleteLoadBalancer \/ CreateLoadBalancer \/ TagLoadBalancer
          \/ UpdateLoadBalancer \/ UpdateLoadBalancerPartly \/ ResourceWork
      BY <1>7 DEF ResourceWork, Next, User, ReconcileStep, Fault, UserEdit, UserDelete,
         BackendEvent, BackendEventLost, WatchEvent, Restart, Reconcile, AddFinalizers,
         BuildAndFind, LoadBalancerMissing, AddServiceLabels, UpdateServiceStatus,
         RemoveServiceLabels, RemoveServiceStatus, RemoveServiceStatusSkipped,
         RemoveFinalizers, ReconcileErr, StepFails, vars
    <2> QED
      BY <1>2, <1>3, <1>4, <1>5, <1>6, <2>1
  <1> QED
    BY <1>1, <1>7

\* The user's instance: whatever services are submitted and however the user
\* switches between them, the controller never deletes it (DeleteLoadBalancer
\* leaves an instance the service names) and writes its listeners only under a
\* service that asks to override them (applyListeners).
THEOREM UserInstanceUntouched == Spec => UserLbUntouched
  <1> DEFINE I == TypeInv /\ TargetInv
             A == lbs[UserLb] # NoLb =>
                    /\ lbs'[UserLb] = NoLb => ConsoleDelete
                    /\ lbs'[UserLb] # NoLb /\ lbs'[UserLb].lis # lbs[UserLb].lis
                       => rec.svc.spec.override
  <1>1. Init => I
    BY InitTypeInv DEF Init, TargetInv
  <1>2. I /\ [Next]_vars => I'
    BY NextTypeInv, NextTargetInv
  <1>3. I /\ [Next]_vars => [A]_vars
    <2> SUFFICES ASSUME I, [Next]_vars PROVE A
      OBVIOUS
    <2>1. CASE ~ConsoleDelete
      BY <2>1, UserLbStep
    <2>2. CASE ConsoleDelete
      <3>1. \E i \in Lbs : lbs' = [lbs EXCEPT ![i] = NoLb]
        BY <2>2 DEF ConsoleDelete
      <3>2. UserLb \in Lbs
        BY DEF Lbs
      <3> QED
        BY <2>2, <3>1, <3>2 DEF TypeInv, TypeOK
    <2> QED
      BY <2>1, <2>2
  <1>4. UserLbUntouched <=> [][A]_vars
    BY DEF UserLbUntouched
  <1> QED
    BY <1>1, <1>2, <1>3, <1>4, PTL DEF Spec

-----------------------------------------------------------------------------
(* Services that reuse the user's instance and leave it as they found it.  *)

\* What the predicates of helper/service_utils.go say of a service that needs a
\* CLB as long as it lives.
LEMMA KeptFacts ==
    ASSUME KeptService, NEW svc \in Services
    PROVE  /\ svc # Gone
           /\ NeedDeleteLoadBalancer(svc) <=> svc.deleting
           /\ NeedCleanup(svc) <=> svc.deleting
  BY NoneAssumption DEF KeptService, Services, NeedDeleteLoadBalancer, NeedCleanup, NeedCLB

\* Apply goes on.
LEMMA KeptApply ==
    ASSUME KeptService, KeptInv,
           \/ BuildAndFind \/ DeleteLoadBalancer \/ CreateLoadBalancer \/ TagLoadBalancer
           \/ UpdateLoadBalancer \/ UpdateLoadBalancerPartly
           \/ ResourceWork
           \/ LoadBalancerMissing
    PROVE  ViewInv' /\ PathInv' /\ HeldInv'
  <1>1. TypeInv /\ ViewInv /\ PathInv /\ HeldInv
    BY DEF KeptInv
  <1>2. pc \in ApplySteps /\ rec.svc \in Services /\ UNCHANGED api
    BY <1>1, ApplyMove
  <1>3. CASE Finish
    BY <1>1, <1>2, <1>3 DEF Finish, Goto, ViewInv, PathInv, HeldInv, Dying, HasFinalizer
  <1>4. CASE ~Finish
    <2>1. /\ rec'.svc = rec.svc /\ rec'.clean = rec.clean
          /\ pc' \in ApplySteps \cup {"labels", "rmLabels"}
          /\ pc' = "delete" => pc = "find" /\ NeedDeleteLoadBalancer(rec.svc)
          /\ pc' \in {"create", "update"} => pc = "find" /\ ~NeedDeleteLoadBalancer(rec.svc)
          /\ pc' = "tag" => pc = "create"
          /\ pc' = "rmLabels" => rec.clean
      BY <1>1, <1>4, ApplyMove
    <2>2. ViewInv'
      BY <1>1, <1>2, <2>1 DEF ViewInv, Dying, HasFinalizer
    <2>3. PathInv'
      BY <1>1, <1>2, <2>1, KeptFacts DEF PathInv
    <2>4. HeldInv'
      BY <1>1, <1>2, <2>1 DEF HeldInv, HasFinalizer
    <2> QED
      BY <2>2, <2>3, <2>4
  <1> QED
    BY <1>3, <1>4

\* The user, the watch and restarts.
LEMMA KeptEnv ==
    ASSUME KeptService, KeptInv, User \/ WatchEvent \/ Restart \/ BackendEventLost
    PROVE  ViewInv' /\ PathInv' /\ HeldInv'
  <1>1. TypeInv /\ ViewInv /\ PathInv /\ HeldInv
    BY DEF KeptInv
  <1>2. CASE UserEdit \/ UserDelete
    <2>1. UNCHANGED <<pc, rec>>
      BY <1>2 DEF UserEdit, UserDelete
    <2>2. /\ api \in Services
          /\ \/ api' \in Services /\ api'.fin = api.fin /\ (api.deleting => api'.deleting)
             \/ api' = Gone /\ ~api.fin
      BY <1>1, <1>2 DEF UserEdit, UserDelete, TypeInv, TypeOK, HasFinalizer, Services
    <2> QED
      BY <1>1, <2>1, <2>2, NoneAssumption
         DEF ViewInv, PathInv, HeldInv, Dying, HasFinalizer
  <1>3. CASE ConsoleDelete \/ BackendEvent \/ BackendEventLost
    BY <1>1, <1>3 DEF ConsoleDelete, BackendEvent, BackendEventLost, ViewInv, PathInv, HeldInv,
                      Dying, HasFinalizer
  <1>4. CASE WatchEvent \/ Restart
    <2>1. api' = api /\ (UNCHANGED <<pc, rec>> \/ (pc' = "idle" /\ rec' = NoRec))
      BY <1>4 DEF WatchEvent, Restart, Finish, Goto
    <2> QED
      BY <1>1, <2>1 DEF ViewInv, PathInv, HeldInv, Dying, HasFinalizer
  <1> QED
    BY <1>2, <1>3, <1>4 DEF User

\* The start of a reconcile.
LEMMA KeptStart ==
    ASSUME KeptService, KeptInv, Reconcile \/ AddFinalizers
    PROVE  /\ ViewInv' /\ PathInv' /\ HeldInv'
           /\ UNCHANGED lbs
           /\ \/ pc' = "idle" /\ UNCHANGED api
              \/ /\ pc' \in {"addFin", "find"}
                 /\ api \in Services /\ api' \in Services /\ rec'.svc = api'
                 /\ api'.label = api.label /\ api'.deleting = api.deleting
                 /\ api.fin => api'.fin
  <1>1. TypeInv /\ ViewInv /\ PathInv /\ HeldInv
    BY DEF KeptInv
  <1>2. UNCHANGED lbs
    BY DEF Reconcile, AddFinalizers
  <1>3. CASE Reconcile
    <2>1. UNCHANGED api /\ pc = "idle"
      BY <1>3 DEF Reconcile
    <2>2. CASE Finish
      BY <1>1, <1>2, <2>1, <2>2 DEF Finish, Goto, ViewInv, PathInv, HeldInv, Dying, HasFinalizer
    <2>3. CASE ~Finish
      <3>1. api \in Services
        BY <1>1, <1>3, <2>3 DEF Reconcile, TypeInv, TypeOK
      <3>2. /\ rec' = NewReq(api, api.deleting)
            /\ pc' = IF api.deleting THEN "find" ELSE "addFin"
        BY <1>3, <2>3, <3>1, KeptFacts DEF Reconcile, Goto, Services
      <3>3. rec'.svc = api /\ rec'.clean = api.deleting /\ api # Gone
        BY <3>1, <3>2, KeptFacts DEF NewReq
      <3> QED
        BY <1>2, <2>1, <3>1, <3>2, <3>3 DEF ViewInv, PathInv, HeldInv, Dying, HasFinalizer
    <2> QED
      BY <2>2, <2>3
  <1>4. CASE AddFinalizers
    <2>1. /\ api \in Services /\ pc = "addFin" /\ pc' = "find" /\ ~rec.clean /\ rec \in Reqs
          /\ api' = [api EXCEPT !.fin = TRUE] /\ rec' = [rec EXCEPT !.svc = api']
      BY <1>1, <1>4 DEF AddFinalizers, Goto, PathInv, TypeInv, TypeOK
    <2>2. /\ api' \in Services /\ api'.fin
          /\ api'.deleting = api.deleting /\ api'.label = api.label
      BY <2>1 DEF Services
    <2>3. rec'.svc = api' /\ rec'.clean = rec.clean
      BY <2>1 DEF Reqs
    <2>4. api' # Gone
      BY <2>2, NoneAssumption
    <2> QED
      BY <1>2, <2>1, <2>2, <2>3, <2>4 DEF ViewInv, PathInv, HeldInv, Dying, HasFinalizer
  <1> QED
    BY <1>3, <1>4

\* Labels and status are written or removed by patches that leave the finalizer
\* and the deletion alone.
LEMMA BookkeepingStep ==
    ASSUME TypeInv, StatusWork
    PROVE  /\ rec \in Reqs /\ rec.svc \in Services /\ UNCHANGED lbs
           /\ pc \in {"labels", "status", "rmLabels", "rmStatus"}
           /\ \/ pc' = "idle"
              \/ pc' = "status" /\ pc = "labels" /\ rec' = rec
              \/ pc' \in {"rmStatus", "rmFin"} /\ pc \in {"rmLabels", "rmStatus"} /\ rec' = rec
           /\ api = Gone => api' = Gone
           /\ api # Gone => /\ api \in Services /\ api' \in Services
                            /\ api'.fin = api.fin /\ api'.deleting = api.deleting
                            /\ \/ api'.label \in {api.label, NoLabel}
                               \/ pc = "labels" /\ api'.label = GetServiceHash(rec.svc)
  <1> USE DEF StatusWork, AddServiceLabels, UpdateServiceStatus, RemoveServiceLabels,
              RemoveServiceStatus, RemoveServiceStatusSkipped
  <1>1. /\ UNCHANGED lbs
        /\ pc \in {"labels", "status", "rmLabels", "rmStatus"}
        /\ \/ pc' = "idle"
           \/ pc' = "status" /\ pc = "labels" /\ rec' = rec
           \/ pc' \in {"rmStatus", "rmFin"} /\ pc \in {"rmLabels", "rmStatus"} /\ rec' = rec
    BY DEF Finish, Goto
  <1>2. /\ rec \in Reqs /\ rec.svc \in Services /\ rec.id \in Lbs \cup {NoId}
        /\ GetServiceHash(rec.svc) \in Hashes
    BY <1>1 DEF TypeInv, TypeOK, Reqs, Services, Hashes, GetServiceHash
  <1>3. api = Gone \/ api \in Services
    BY DEF TypeInv, TypeOK
  <1>4. ASSUME api # Gone, NEW h \in Hashes \cup {NoLabel}
        PROVE  /\ [api EXCEPT !.label = h] \in Services
               /\ [api EXCEPT !.label = h].fin = api.fin
               /\ [api EXCEPT !.label = h].deleting = api.deleting
               /\ [api EXCEPT !.label = h].label = h
    BY <1>3, <1>4 DEF Services
  <1>5. ASSUME api # Gone, NEW st \in Lbs \cup {NoId, NoStatus}
        PROVE  /\ [api EXCEPT !.status = st] \in Services
               /\ [api EXCEPT !.status = st].fin = api.fin
               /\ [api EXCEPT !.status = st].deleting = api.deleting
               /\ [api EXCEPT !.status = st].label = api.label
    BY <1>3, <1>5 DEF Services
  <1>6. \/ api' = api
        \/ /\ api # Gone
           /\ \/ api' = [api EXCEPT !.status = rec.id]
              \/ api' = [api EXCEPT !.status = NoStatus]
              \/ api' = [api EXCEPT !.label = NoLabel]
              \/ pc = "labels" /\ api' = [api EXCEPT !.label = GetServiceHash(rec.svc)]
    OBVIOUS
  <1>7. api = Gone => api' = Gone
    BY <1>6
  <1>8. ASSUME api # Gone
        PROVE  /\ api' \in Services /\ api'.fin = api.fin /\ api'.deleting = api.deleting
               /\ \/ api'.label \in {api.label, NoLabel}
                  \/ pc = "labels" /\ api'.label = GetServiceHash(rec.svc)
    <2>1. CASE api' = api
      BY <1>3, <1>8, <2>1
    <2>2. CASE api' = [api EXCEPT !.status = rec.id] \/ api' = [api EXCEPT !.status = NoStatus]
      BY <1>2, <1>8, <1>5, <2>2
    <2>3. CASE api' = [api EXCEPT !.label = NoLabel]
      BY <1>4, <1>8, <2>3
    <2>4. CASE pc = "labels" /\ api' = [api EXCEPT !.label = GetServiceHash(rec.svc)]
      BY <1>2, <1>4, <1>8, <2>4
    <2> QED
      BY <1>6, <2>1, <2>2, <2>3, <2>4
  <1> QED
    BY <1>1, <1>2, <1>3, <1>7, <1>8

\* The end of a reconcile.
LEMMA KeptEnd ==
    ASSUME KeptService, KeptInv, StatusWork \/ RemoveFinalizers \/ ReconcileErr \/ StepFails
    PROVE  ViewInv' /\ PathInv' /\ HeldInv'
  <1>1. TypeInv /\ ViewInv /\ PathInv /\ HeldInv
    BY DEF KeptInv
  <1>2. CASE StatusWork
    <2>1. Dying(api)' <=> Dying(api)
      BY <1>1, <1>2, BookkeepingStep, NoneAssumption DEF Dying
    <2>2. /\ pc \in {"labels", "status", "rmLabels", "rmStatus"}
          /\ \/ pc' = "idle"
             \/ pc' = "status" /\ pc = "labels" /\ rec' = rec
             \/ pc' \in {"rmStatus", "rmFin"} /\ pc \in {"rmLabels", "rmStatus"} /\ rec' = rec
      BY <1>1, <1>2, BookkeepingStep
    <2>3. ViewInv'
      BY <1>1, <2>1, <2>2 DEF ViewInv
    <2>4. PathInv' /\ HeldInv'
      BY <1>1, <2>2 DEF PathInv, HeldInv
    <2> QED
      BY <2>3, <2>4
  <1>3. CASE RemoveFinalizers \/ ReconcileErr \/ StepFails
    <2>1. pc' = "idle"
      BY <1>3 DEF RemoveFinalizers, ReconcileErr, StepFails, ReturnErr, Finish, Goto
    <2> QED
      BY <2>1 DEF ViewInv, PathInv, HeldInv
  <1> QED
    BY <1>2, <1>3

\* The views of a service that needs a CLB as long as it lives.
LEMMA NextKeptInv ==
    ASSUME KeptService, KeptInv, [Next]_vars
    PROVE  KeptInv'
  <1>1. TypeInv' /\ TargetInv'
    BY NextTypeInv, NextTargetInv DEF KeptInv
  <1>2. CASE UNCHANGED vars
    BY <1>2 DEF vars, KeptInv, ViewInv, PathInv, HeldInv, Dying, HasFinalizer, TypeInv, TypeOK,
                FoundInv, TargetInv, IsUserManaged
  <1>3. CASE Next
    BY <1>1, <1>3, KeptApply, KeptEnv, KeptStart, KeptEnd
       DEF KeptInv, Next, ReconcileStep, Fault, ResourceWork, StatusWork
  <1> QED
    BY <1>2, <1>3

\* Every service names the user's instance, so it is the one worked on.
LEMMA ReuseFacts ==
    ASSUME ReuseService, KeptInv, pc # "idle"
    PROVE  /\ KeptService
           /\ rec \in Reqs /\ rec.svc \in Services /\ IsUserManaged(rec.svc)
           /\ rec.svc.deleting \in BOOLEAN /\ rec.svc.spec.override \in BOOLEAN
           /\ FindLoadBalancer(rec.svc) = {UserLb}
           /\ rec.id # NoId => rec.id = UserLb
           /\ pc \notin {"create", "tag"}
           /\ NeedDeleteLoadBalancer(rec.svc) <=> rec.svc.deleting
  <1>1. KeptService /\ rec \in Reqs /\ rec.svc \in Services /\ rec.svc.spec \in Specs
    BY DEF ReuseService, KeptInv, TypeInv, TypeOK, Reqs, Services
  <1>2. rec.svc.spec.lbid = UserLb /\ rec.svc.spec.override \in BOOLEAN
    BY <1>1, SpecsAssumption DEF ReuseService
  <1>3. IsUserManaged(rec.svc)
    BY <1>2, IdsAssumption DEF IsUserManaged
  <1> QED
    BY <1>1, <1>2, <1>3, KeptFacts DEF FindLoadBalancer, KeptInv, TargetInv, Services

\* A step that leaves the service and its views alone.
LEMMA ReuseFrame ==
    ASSUME ReuseInv, UNCHANGED api,
           pc' # "idle" => pc # "idle" /\ rec'.svc = rec.svc,
           NoGroups => NoGroups' \/ HasFinalizer(api),
           pc' \in CleanSteps => NoGroups',
           Returned => Returned' \/ (pc # "idle" /\ ~rec.svc.deleting),
           /\ pc' \in {"cleanup", "labels", "status"} \cup CleanSteps
           /\ rec.svc.deleting /\ rec.svc.spec.override
           => Returned'
    PROVE  GroupsInv' /\ ReturnInv'
  <1>1. GroupsInv'
    BY DEF ReuseInv, GroupsInv, HasFinalizer
  <1>2. ASSUME NEW svc, MarkOK(svc)
        PROVE  DeadLabel(svc) => /\ Dying(api)'
                                 /\ pc' # "idle" => rec'.svc.deleting
                                 /\ svc.label.spec.override => Returned'
    BY <1>2 DEF MarkOK, Dying
  <1>3. MarkOK(api)'
    BY <1>2 DEF ReuseInv, ReturnInv, MarkOK, DeadLabel
  <1>4. pc' # "idle" => MarkOK(rec.svc)'
    BY <1>2 DEF ReuseInv, ReturnInv, MarkOK, DeadLabel
  <1> QED
    BY <1>1, <1>3, <1>4 DEF ReturnInv

\* The instance is looked up, found to be the user's, and updated.
LEMMA ReuseFind ==
    ASSUME ReuseService, ReuseInv,
           BuildAndFind \/ DeleteLoadBalancer \/ UpdateLoadBalancer \/ UpdateLoadBalancerPartly
    PROVE  GroupsInv' /\ ReturnInv'
  <1>0. KeptInv /\ TypeInv /\ pc # "idle" /\ UNCHANGED api
    BY DEF ReuseInv, KeptInv, BuildAndFind, DeleteLoadBalancer, UpdateLoadBalancer,
           UpdateLoadBalancerPartly, UpdateWith
  <1>1. /\ rec \in Reqs /\ rec.svc \in Services /\ IsUserManaged(rec.svc)
        /\ FindLoadBalancer(rec.svc) = {UserLb} /\ (rec.id # NoId => rec.id = UserLb)
    BY <1>0, ReuseFacts
  <1>2. pc' \in {"delete", "update", "vgroups"} /\ rec'.svc = rec.svc
    <2>1. CASE BuildAndFind
      <3> DEFINE r == [[rec EXCEPT !.eps = eps] EXCEPT !.id = UserLb]
      <3>1. AfterFind(r)
        BY <1>1, <2>1 DEF BuildAndFind
      <3>2. r.id = UserLb /\ r.svc = rec.svc
        BY <1>1 DEF Reqs
      <3> HIDE DEF r
      <3> QED
        BY <3>1, <3>2, IdsAssumption DEF AfterFind, Goto
    <2>2. CASE DeleteLoadBalancer
      BY <1>1, <2>2 DEF DeleteLoadBalancer, Goto
    <2>3. CASE UpdateLoadBalancer \/ UpdateLoadBalancerPartly
      <3>1. \A b : [rec EXCEPT !.errs = b].svc = rec.svc
        BY <1>1 DEF Reqs
      <3> QED
        BY <2>3, <3>1 DEF UpdateLoadBalancer, UpdateLoadBalancerPartly, UpdateWith, Goto
    <2> QED
      BY <2>1, <2>2, <2>3
  <1>3. (NoGroups => NoGroups') /\ (Returned => Returned')
    <2>1. CASE BuildAndFind \/ DeleteLoadBalancer
      BY <1>1, <2>1 DEF BuildAndFind, DeleteLoadBalancer, NoGroups, Returned
    <2>2. CASE UpdateLoadBalancer \/ UpdateLoadBalancerPartly
      <3>1. PICK okTag \in BOOLEAN, okAttr \in BOOLEAN : UpdateWith(okTag, okAttr)
        BY <2>2 DEF UpdateLoadBalancer, UpdateLoadBalancerPartly
      <3>2. rec.id = UserLb /\ UserLb \in Lbs /\ lbs[UserLb] \in Instances
        BY <1>0, <1>1, <3>1, RecInstance DEF UpdateWith, TypeInv, TypeOK
      <3> DEFINE x == Updated(lbs[UserLb], rec.svc, okTag, okAttr)
      <3>3. x.vg = lbs[UserLb].vg /\ x.lis = lbs[UserLb].lis
        BY <3>2 DEF Updated, Instances
      <3>4. lbs' = [lbs EXCEPT ![UserLb] = x]
        BY <3>1, <3>2 DEF UpdateWith
      <3> HIDE DEF x
      <3>5. lbs'[UserLb] = x /\ lbs[UserLb] # NoLb
        BY <1>0, <3>2, <3>4, NoneAssumption DEF TypeInv, TypeOK
      <3> QED
        BY <3>3, <3>5 DEF NoGroups, Returned
    <2> QED
      BY <2>1, <2>2
  <1> QED
    BY <1>0, <1>2, <1>3, ReuseFrame

\* Vserver groups and listeners of the user's instance are written and cleaned.
LEMMA ReuseResource ==
    ASSUME ReuseService, ReuseInv,
           ResourceWork
    PROVE  GroupsInv' /\ ReturnInv'
  <1>0. KeptInv /\ TypeInv /\ pc # "idle" /\ UNCHANGED api /\ HeldInv /\ PathInv
    BY ResourceStep DEF ReuseInv, KeptInv
  <1>1. /\ rec \in Reqs /\ rec.svc \in Services /\ IsUserManaged(rec.svc)
        /\ rec.id = UserLb /\ UserLb \in Lbs /\ lbs[UserLb] \in Instances
        /\ lbs[UserLb] # NoLb
        /\ rec.svc.deleting \in BOOLEAN /\ rec.svc.spec.override \in BOOLEAN
        /\ NeedDeleteLoadBalancer(rec.svc) <=> rec.svc.deleting
        /\ lbs \in [Lbs -> Instances \cup {NoLb}]
    BY <1>0, ReuseFacts, ResourceStep, NoneAssumption DEF TypeInv, TypeOK
  <1> DEFINE y == lbs[UserLb]
  <1>2. \A g : [y EXCEPT !.vg = g].vg = g /\ [y EXCEPT !.vg = g].lis = y.lis
    BY <1>1 DEF Instances
  <1>3. \A c : [y EXCEPT !.lis = c].lis = c /\ [y EXCEPT !.lis = c].vg = y.vg
    BY <1>1 DEF Instances
  <1>4. lbs'[UserLb] \in Instances /\ lbs'[UserLb] # NoLb
    BY <1>0, <1>1, ResourceStep, NoneAssumption
  <1>5. /\ NoGroups <=> y.vg = {}
        /\ Returned <=> y.lis = NoCfg
        /\ NoGroups' <=> lbs'[UserLb].vg = {}
        /\ Returned' <=> lbs'[UserLb].lis = NoCfg
    BY <1>1, <1>4 DEF NoGroups, Returned
  <1>6. CASE ApplyVGroups
    <2>1. UNCHANGED lbs \/ (~rec.svc.deleting /\ \E g : lbs' = [lbs EXCEPT ![UserLb] = [y EXCEPT !.vg = g]])
      BY <1>1, <1>6 DEF ApplyVGroups
    <2>2. lbs'[UserLb].lis = y.lis /\ (rec.svc.deleting => lbs'[UserLb].vg = y.vg)
      <3>1. CASE UNCHANGED lbs
        BY <3>1
      <3>2. CASE ~UNCHANGED lbs
        <4>1. ~rec.svc.deleting
          BY <2>1, <3>2
        <4>2. PICK g : lbs' = [lbs EXCEPT ![UserLb] = [y EXCEPT !.vg = g]]
          BY <2>1, <3>2
        <4>3. lbs'[UserLb] = [y EXCEPT !.vg = g]
          BY <1>1, <4>2, Zenon
        <4> QED
          BY <1>2, <4>1, <4>3
      <3> QED
        BY <3>1, <3>2
    <2>3. pc = "vgroups" /\ pc' \in {"listeners", "cleanup"} /\ rec' = rec
          /\ (pc' = "cleanup" => ~IsServiceHashChanged(rec.svc))
      BY <1>6 DEF ApplyVGroups, Goto
    <2>4. ~rec.svc.deleting => HasFinalizer(api)
      BY <1>0, <2>3 DEF HeldInv
    <2>5. ASSUME rec.svc.deleting, rec.svc.spec.override, pc' = "cleanup" PROVE Returned
      <3>1. rec.svc.label = GetServiceHash(rec.svc)
        BY <2>3, <2>5 DEF IsServiceHashChanged
      <3>2. GetServiceHash(rec.svc) \in Hashes /\ GetServiceHash(rec.svc).deleting
            /\ GetServiceHash(rec.svc).spec = rec.svc.spec
        BY <1>1, <2>5 DEF GetServiceHash, Hashes, Services
      <3>3. DeadLabel(rec.svc)
        BY <1>1, <3>1, <3>2, NoneAssumption DEF DeadLabel
      <3>4. MarkOK(rec.svc)
        BY <1>0 DEF ReuseInv, ReturnInv
      <3> QED
        BY <2>5, <3>1, <3>2, <3>3, <3>4 DEF MarkOK
    <2> QED
      BY <1>0, <1>5, <2>2, <2>3, <2>4, <2>5, ReuseFrame
  <1>7. CASE ApplyListeners
    <2>1. /\ SkipListeners(rec.svc) => UNCHANGED lbs
          /\ ~SkipListeners(rec.svc) =>
                lbs' = [lbs EXCEPT ![UserLb] = [y EXCEPT !.lis = LocalListeners(rec.svc)]]
      BY <1>1, <1>7 DEF ApplyListeners
    <2>2. lbs'[UserLb].vg = y.vg /\ (~SkipListeners(rec.svc) => lbs'[UserLb].lis = LocalListeners(rec.svc))
      <3>1. CASE SkipListeners(rec.svc)
        BY <2>1, <3>1
      <3>2. CASE ~SkipListeners(rec.svc)
        <4>1. lbs'[UserLb] = [y EXCEPT !.lis = LocalListeners(rec.svc)]
          BY <1>1, <2>1, <3>2, Zenon
        <4> QED
          BY <1>3, <4>1
      <3> QED
        BY <3>1, <3>2
    <2>3. SkipListeners(rec.svc) => lbs'[UserLb].lis = y.lis
      BY <2>1
    <2>4. rec.svc.deleting => LocalListeners(rec.svc) = NoCfg
      BY <1>1 DEF LocalListeners
    <2>5. rec.svc.spec.override => ~SkipListeners(rec.svc)
      BY <1>1 DEF SkipListeners
    <2>6. pc' = "cleanup" /\ rec' = rec
      BY <1>7 DEF ApplyListeners, Goto
    <2> QED
      BY <1>0, <1>5, <2>2, <2>3, <2>4, <2>5, <2>6, ReuseFrame
  <1>8. CASE ApplyListenersPartly
    <2>1. lbs' = [lbs EXCEPT ![UserLb] = [y EXCEPT !.lis = Mixed]] /\ pc' = "idle"
          /\ y.lis # LocalListeners(rec.svc)
      BY <1>1, <1>8 DEF ApplyListenersPartly, ReturnErr, Finish, Goto
    <2>2. lbs'[UserLb].vg = y.vg
      BY <1>1, <1>3, <2>1
    <2>3. Returned => ~rec.svc.deleting
      BY <1>1, <1>5, <2>1 DEF LocalListeners
    <2> QED
      BY <1>0, <1>5, <2>1, <2>2, <2>3, ReuseFrame
  <1>9. CASE CleanupVGroups
    <2> DEFINE g == y.vg \ Unused(y, rec.svc)
    <2>1. lbs' = [lbs EXCEPT ![UserLb] = [y EXCEPT !.vg = g]]
      BY <1>1, <1>9 DEF CleanupVGroups
    <2>2. (rec.svc.deleting => g = {}) /\ (y.vg = {} => g = {})
      BY <1>1 DEF Unused
    <2> HIDE DEF g
    <2>3. lbs'[UserLb].vg = g /\ lbs'[UserLb].lis = y.lis
      BY <1>1, <1>2, <2>1
    <2>4. pc = "cleanup" /\ pc' \in {"idle", "labels", "rmLabels"}
          /\ (pc' # "idle" => rec' = rec) /\ (pc' = "rmLabels" => rec.clean)
      BY <1>9 DEF CleanupVGroups, ReturnErr, Finish, Applied, Goto
    <2>5. rec.clean => rec.svc.deleting
      BY <1>0 DEF PathInv
    <2>6. rec.svc.deleting /\ rec.svc.spec.override => Returned
      BY <2>4 DEF ReuseInv, ReturnInv
    <2> QED
      BY <1>0, <1>5, <2>2, <2>3, <2>4, <2>5, <2>6, ReuseFrame
  <1>10. CASE ApplyVGroupsPartly
    <2>1. ~rec.svc.deleting /\ pc = "vgroups" /\ pc' = "idle"
          /\ \E g : lbs' = [lbs EXCEPT ![UserLb] = [y EXCEPT !.vg = g]]
      BY <1>1, <1>10 DEF ApplyVGroupsPartly, ReturnErr, Finish, Goto
    <2>2. PICK g : lbs' = [lbs EXCEPT ![UserLb] = [y EXCEPT !.vg = g]]
      BY <2>1
    <2>3. lbs'[UserLb] = [y EXCEPT !.vg = g]
      BY <1>1, <2>2, Zenon
    <2>4. lbs'[UserLb].lis = y.lis
      BY <1>2, <2>3
    <2>5. HasFinalizer(api)
      BY <1>0, <2>1 DEF HeldInv
    <2> QED
      BY <1>0, <1>5, <2>1, <2>4, <2>5, ReuseFrame
  <1>11. CASE CleanupVGroupsPartly
    <2>1. PICK gone : lbs' = [lbs EXCEPT ![UserLb] = [y EXCEPT !.vg = y.vg \ gone]]
      BY <1>1, <1>11 DEF CleanupVGroupsPartly
    <2>2. pc' = "idle"
      BY <1>11 DEF CleanupVGroupsPartly, ReturnErr, Finish, Goto
    <2>3. lbs'[UserLb] = [y EXCEPT !.vg = y.vg \ gone]
      BY <1>1, <2>1, Zenon
    <2>4. lbs'[UserLb].vg = y.vg \ gone /\ lbs'[UserLb].lis = y.lis
      BY <1>2, <2>3
    <2> QED
      BY <1>0, <1>5, <2>2, <2>4, ReuseFrame
  <1> QED
    BY <1>6, <1>7, <1>8, <1>9, <1>10, <1>11 DEF ResourceWork

\* The user's instance is gone and the deletion goes on.
LEMMA ReuseMissing ==
    ASSUME ReuseService, ReuseInv, LoadBalancerMissing
    PROVE  GroupsInv' /\ ReturnInv'
  <1>0. KeptInv /\ pc # "idle" /\ rec.clean /\ UNCHANGED <<api, lbs>>
        /\ pc' = "rmLabels" /\ rec' = rec
    BY DEF ReuseInv, LoadBalancerMissing, Applied, Goto
  <1>1. lbs[UserLb] = NoLb
    BY <1>0, ReuseFacts DEF LoadBalancerMissing, Vanished, Absent
  <1>2. NoGroups' /\ Returned'
    BY <1>0, <1>1 DEF NoGroups, Returned
  <1> QED
    BY <1>0, <1>2, ReuseFrame

\* Steps that leave the instances alone.
LEMMA ReuseQuiet ==
    ASSUME ReuseService, ReuseInv, KeptInv',
           \/ UserEdit \/ UserDelete \/ WatchEvent \/ Restart \/ Reconcile \/ AddFinalizers
           \/ StatusWork \/ RemoveFinalizers
    PROVE  GroupsInv' /\ ReturnInv'
  <1>0. /\ KeptService /\ KeptInv /\ TypeInv /\ ViewInv /\ PathInv /\ HeldInv /\ TypeInv'
        /\ GroupsInv /\ ReturnInv
    BY DEF ReuseService, ReuseInv, KeptInv
  <1>1. UNCHANGED lbs
    BY <1>0, BookkeepingStep, KeptStart
       DEF UserEdit, UserDelete, WatchEvent, Restart, RemoveFinalizers
  <1>2. (NoGroups' <=> NoGroups) /\ (Returned' <=> Returned)
    BY <1>1 DEF NoGroups, Returned
  <1>3. CASE UserEdit \/ UserDelete
    <2>1. UNCHANGED <<pc, rec>>
      BY <1>3 DEF UserEdit, UserDelete
    <2>2. /\ api \in Services
          /\ \/ api' \in Services /\ api'.fin = api.fin /\ api'.label = api.label
                /\ (api.deleting => api'.deleting)
             \/ api' = Gone /\ ~api.fin
      BY <1>0, <1>3 DEF UserEdit, UserDelete, TypeInv, TypeOK, HasFinalizer, Services
    <2>3. HasFinalizer(api) => HasFinalizer(api)'
      BY <2>2, NoneAssumption DEF HasFinalizer
    <2>4. Dying(api) => Dying(api)'
      BY <2>2, NoneAssumption DEF Dying
    <2>5. GroupsInv'
      BY <1>0, <1>2, <2>1, <2>3 DEF GroupsInv
    <2>6. DeadLabel(api)' => DeadLabel(api) /\ api'.label = api.label
      BY <2>2, NoneAssumption DEF DeadLabel
    <2>7. MarkOK(api)'
      BY <1>0, <1>2, <2>1, <2>4, <2>6 DEF ReturnInv, MarkOK, Dying
    <2>8. pc' # "idle" => MarkOK(rec.svc)'
      BY <1>0, <1>2, <2>1, <2>4 DEF ReturnInv, MarkOK, Dying, DeadLabel
    <2> QED
      BY <1>0, <1>2, <2>1, <2>5, <2>7, <2>8 DEF ReturnInv
  <1>4. CASE WatchEvent \/ Restart
    <2>1. api' = api /\ (UNCHANGED <<pc, rec>> \/ pc' = "idle")
      BY <1>4 DEF WatchEvent, Restart, Finish, Goto
    <2> QED
      BY <1>0, <1>2, <2>1 DEF GroupsInv, ReturnInv, MarkOK, Dying, DeadLabel, HasFinalizer
  <1>5. CASE Reconcile \/ AddFinalizers
    <2>1. CASE pc' = "idle"
      <3>1. UNCHANGED api
        BY <1>0, <1>5, <2>1, KeptStart
      <3> QED
        BY <1>0, <1>2, <2>1, <3>1 DEF GroupsInv, ReturnInv, MarkOK, Dying, DeadLabel, HasFinalizer
    <2>2. CASE pc' # "idle"
      <3>1. /\ pc' \in {"addFin", "find"}
            /\ api \in Services /\ api' \in Services /\ rec'.svc = api'
            /\ api'.label = api.label /\ api'.deleting = api.deleting
            /\ api.fin => api'.fin
        BY <1>0, <1>5, <2>2, KeptStart
      <3>2. api # Gone /\ api' # Gone
        BY <3>1, NoneAssumption
      <3>3. GroupsInv'
        BY <1>0, <1>2, <3>1, <3>2 DEF GroupsInv, HasFinalizer
      <3>4. MarkOK(api)' /\ MarkOK(rec.svc)'
        BY <1>0, <1>2, <3>1, <3>2 DEF ReturnInv, MarkOK, Dying, DeadLabel
      <3> QED
        BY <3>1, <3>3, <3>4 DEF ReturnInv
    <2> QED
      BY <2>1, <2>2
  <1>6. CASE StatusWork
    <2>1. /\ rec \in Reqs /\ rec.svc \in Services
          /\ pc \in {"labels", "status", "rmLabels", "rmStatus"}
          /\ \/ pc' = "idle"
             \/ pc' = "status" /\ pc = "labels" /\ rec' = rec
             \/ pc' \in {"rmStatus", "rmFin"} /\ pc \in {"rmLabels", "rmStatus"} /\ rec' = rec
          /\ api = Gone => api' = Gone
          /\ api # Gone => /\ api \in Services /\ api' \in Services
                           /\ api'.fin = api.fin /\ api'.deleting = api.deleting
                           /\ \/ api'.label \in {api.label, NoLabel}
                              \/ pc = "labels" /\ api'.label = GetServiceHash(rec.svc)
      BY <1>0, <1>6, BookkeepingStep
    <2>2. (HasFinalizer(api)' <=> HasFinalizer(api)) /\ (Dying(api)' <=> Dying(api))
      BY <2>1, NoneAssumption DEF HasFinalizer, Dying
    <2>3. GroupsInv'
      BY <1>0, <1>2, <2>1, <2>2 DEF GroupsInv
    <2>4. rec.svc.deleting => Dying(api)
      BY <1>0, <2>1 DEF ViewInv
    <2>5. DeadLabel(api)' => \/ DeadLabel(api) /\ api'.label = api.label
                             \/ /\ pc = "labels" /\ rec.svc.deleting
                                /\ api'.label.spec = rec.svc.spec
      BY <2>1, NoneAssumption DEF DeadLabel, GetServiceHash
    <2>6. pc = "labels" /\ rec.svc.deleting /\ rec.svc.spec.override => Returned
      BY <1>0 DEF ReturnInv
    <2>7. MarkOK(api)'
      BY <1>0, <1>2, <2>1, <2>2, <2>4, <2>5, <2>6 DEF ReturnInv, MarkOK
    <2>8. pc' # "idle" => MarkOK(rec.svc)'
      BY <1>0, <1>2, <2>1, <2>2 DEF ReturnInv, MarkOK, DeadLabel
    <2> QED
      BY <1>0, <1>2, <2>1, <2>3, <2>7, <2>8 DEF ReturnInv
  <1>7. CASE RemoveFinalizers
    <2>1. pc = "rmFin" /\ pc' = "idle"
      BY <1>7 DEF RemoveFinalizers, Finish, Goto
    <2>2. NoGroups
      BY <1>0, <2>1 DEF GroupsInv
    <2>3. Dying(api) /\ api # Gone
      BY <1>0, <1>7, <2>1 DEF PathInv, ViewInv, RemoveFinalizers
    <2>4. api' = Gone \/ (api' \in Services /\ api'.label = api.label /\ api'.deleting)
      BY <1>0, <1>7, <2>3 DEF RemoveFinalizers, Dying, TypeInv, TypeOK, Services
    <2>5. MarkOK(api)'
      BY <1>0, <1>2, <2>1, <2>3, <2>4, NoneAssumption DEF ReturnInv, MarkOK, Dying, DeadLabel
    <2> QED
      BY <1>2, <2>1, <2>2, <2>5 DEF GroupsInv, ReturnInv
  <1> QED
    BY <1>3, <1>4, <1>5, <1>6, <1>7

LEMMA NextReuseInv ==
    ASSUME ReuseService, ReuseInv, [Next]_vars
    PROVE  ReuseInv'
  <1>0. KeptInv /\ KeptService
    BY DEF ReuseInv, ReuseService
  <1>1. KeptInv'
    BY <1>0, NextKeptInv
  <1> SUFFICES GroupsInv' /\ ReturnInv'
    BY <1>1 DEF ReuseInv
  <1>2. CASE BuildAndFind \/ DeleteLoadBalancer \/ UpdateLoadBalancer \/ UpdateLoadBalancerPartly
    BY <1>2, ReuseFind
  <1>3. CASE ResourceWork
    BY <1>3, ReuseResource
  <1>4. CASE LoadBalancerMissing
    BY <1>4, ReuseMissing
  <1>5. CASE CreateLoadBalancer \/ TagLoadBalancer
    BY <1>0, <1>5, ReuseFacts DEF CreateLoadBalancer, TagLoadBalancer
  <1>6. CASE \/ UserEdit \/ UserDelete \/ WatchEvent \/ Restart \/ Reconcile \/ AddFinalizers
             \/ StatusWork \/ RemoveFinalizers
    BY <1>1, <1>6, ReuseQuiet
  <1>7. CASE ConsoleDelete
    <2>1. PICK i \in Lbs : lbs' = [lbs EXCEPT ![i] = NoLb]
      BY <1>7 DEF ConsoleDelete
    <2>2. lbs'[UserLb] \in {lbs[UserLb], NoLb}
      BY <1>0, <2>1 DEF KeptInv, TypeInv, TypeOK, Lbs
    <2>3. (NoGroups => NoGroups') /\ (Returned => Returned')
      BY <2>2 DEF NoGroups, Returned
    <2>4. UNCHANGED <<api, pc, rec>>
      BY <1>7 DEF ConsoleDelete
    <2>5. GroupsInv /\ ReturnInv
      BY DEF ReuseInv
    <2> QED
      BY <2>3, <2>4, <2>5, ReuseFrame DEF GroupsInv, ReturnInv
  <1>8. CASE BackendEvent \/ BackendEventLost \/ UNCHANGED vars
    <2>1. UNCHANGED <<api, pc, rec, lbs>>
      BY <1>8 DEF BackendEvent, BackendEventLost, vars
    <2> QED
      BY <2>1 DEF ReuseInv, GroupsInv, ReturnInv, MarkOK, NoGroups, Returned, Dying, DeadLabel, HasFinalizer
  <1>9. CASE ReconcileErr \/ StepFails
    <2>1. pc' = "idle" /\ UNCHANGED <<api, lbs>>
      BY <1>9 DEF ReconcileErr, StepFails, ReturnErr, Finish, Goto
    <2> QED
      BY <2>1 DEF ReuseInv, GroupsInv, ReturnInv, MarkOK, NoGroups, Returned, Dying, DeadLabel, HasFinalizer
  <1> QED
    BY <1>2, <1>3, <1>4, <1>5, <1>6, <1>7, <1>8, <1>9
       DEF Next, User, ReconcileStep, Fault, ResourceWork, StatusWork

LEMMA InitReuseInv == Init => ReuseInv
  <1> SUFFICES ASSUME Init PROVE ReuseInv
    OBVIOUS
  <1>1. TypeInv
    BY InitTypeInv
  <1>2. lbs[UserLb] = UserInstance /\ UserInstance.vg = {}
    BY DEF Init, Lbs, UserInstance
  <1>3. api.label = NoLabel /\ pc = "idle"
    BY DEF Init, NewService
  <1>4. TargetInv /\ ViewInv /\ PathInv /\ HeldInv
    BY <1>3 DEF TargetInv, ViewInv, PathInv, HeldInv
  <1>5. GroupsInv /\ ReturnInv
    BY <1>2, <1>3 DEF GroupsInv, ReturnInv, NoGroups, MarkOK, DeadLabel
  <1> QED
    BY <1>1, <1>4, <1>5 DEF ReuseInv, KeptInv

\* A service that reuses the user's instance and goes away, after any edits,
\* failures and restarts, leaves no vserver group on it (cleanup comes
\* before RemoveFinalizers).
THEOREM ReuseCleaned == ReuseService /\ Spec => []UserLbCleaned
  <1> SUFFICES ASSUME ReuseService PROVE Spec => []UserLbCleaned
    OBVIOUS
  <1>1. Init => ReuseInv
    BY InitReuseInv
  <1>2. ReuseInv /\ [Next]_vars => ReuseInv'
    BY NextReuseInv
  <1>3. ReuseInv => UserLbCleaned
    BY DEF ReuseInv, GroupsInv, NoGroups, HasFinalizer, UserLbCleaned
  <1> QED
    BY <1>1, <1>2, <1>3, PTL DEF Spec

\* One that took the listeners over and still asks for them when it goes leaves
\* none (applyListeners runs unless the hash label records that it has run).
THEOREM ReuseListenersReturned == ReuseService /\ Spec => ListenersReturned
  <1> SUFFICES ASSUME ReuseService PROVE Spec => ListenersReturned
    OBVIOUS
  <1> DEFINE A == /\ RemoveFinalizers /\ api' = Gone
                  /\ rec.svc.spec.override /\ lbs[UserLb] # NoLb
                  => lbs[UserLb].lis = NoCfg
  <1>1. Init => ReuseInv
    BY InitReuseInv
  <1>2. ReuseInv /\ [Next]_vars => ReuseInv'
    BY NextReuseInv
  <1>3. ReuseInv /\ [Next]_vars => [A]_vars
    <2> SUFFICES ASSUME ReuseInv, RemoveFinalizers, rec.svc.spec.override, lbs[UserLb] # NoLb
                 PROVE  lbs[UserLb].lis = NoCfg
      OBVIOUS
    <2>1. pc = "rmFin" /\ PathInv /\ ReturnInv
      BY DEF RemoveFinalizers, ReuseInv, KeptInv
    <2>2. rec.svc.deleting
      BY <2>1 DEF PathInv
    <2> QED
      BY <2>1, <2>2 DEF ReturnInv, Returned
  <1>4. ListenersReturned <=> [][A]_vars
    BY DEF ListenersReturned
  <1> QED
    BY <1>1, <1>2, <1>3, <1>4, PTL DEF Spec
-----------------------------------------------------------------------------
(* Plain services: no instance is orphaned and none is created twice, for   *)
(* every set of services, backends and ids, whatever the user, the watch,   *)
(* restarts and failed calls do and in whatever order.                      *)

Inv == TypeInv /\ PlainInv

\* What the predicates of helper/service_utils.go say of a plain service.
LEMMA PlainFacts ==
    ASSUME PlainService, NEW svc \in Services
    PROVE  /\ svc # Gone
           /\ NeedDeleteLoadBalancer(svc) <=> svc.deleting
           /\ NeedCleanup(svc) <=> svc.deleting
           /\ ~IsUserManaged(svc)
           /\ svc.spec.name = ""
  BY NoneAssumption DEF PlainService, Services, NeedDeleteLoadBalancer, NeedCleanup, NeedCLB, IsUserManaged

\* A plain service's instances are found whenever there are any.
LEMMA FindsAll ==
    ASSUME PlainService, Inv, NEW svc \in Services
    PROVE  FindLoadBalancer(svc) = Existing
  <1>1. FindLoadBalancer(svc) = IF Tagged # {} THEN Tagged ELSE Named
    BY PlainFacts DEF FindLoadBalancer
  <1>2. Named = Existing
    BY DEF Inv, PlainInv, InstanceInv, Named
  <1>3. Tagged # {} => Tagged = Existing
    BY DEF Inv, PlainInv, NoDuplicate, Tagged
  <1> QED
    BY <1>1, <1>2, <1>3

\* The initial state.
LEMMA InitInv == Init => Inv
  <1> SUFFICES ASSUME Init PROVE Inv
    OBVIOUS
  <1>1. Existing = {}
    BY IdsAssumption DEF Init, Existing, Lbs
  <1>2. Live = {}
    BY <1>1 DEF Live
  <1>3. TypeInv
    BY InitTypeInv
  <1>4. api.label = NoLabel /\ pc = "idle"
    BY DEF Init, NewService
  <1>5. ViewInv /\ PathInv /\ InstanceInv /\ NoOrphan /\ NoDuplicate
    BY <1>1, <1>2, <1>4 DEF ViewInv, PathInv, InstanceInv, NoOrphan, NoDuplicate
  <1>6. LabelInv
    BY <1>4 DEF LabelInv, DeadLabel
  <1> QED
    BY <1>3, <1>5, <1>6 DEF Inv, PlainInv

\* A step that leaves every instance's existence, name and owner alone.
SameInstances ==
    \A i \in LbIds :
        /\ lbs'[i] = NoLb <=> lbs[i] = NoLb
        /\ lbs[i] # NoLb => /\ lbs'[i].name = lbs[i].name
                            /\ lbs'[i].released = lbs[i].released

LEMMA SameInstancesFacts ==
    ASSUME SameInstances
    PROVE  /\ Existing' = Existing
           /\ Live' = Live
           /\ NoDuplicate => NoDuplicate'
           /\ \A i \in Existing : lbs'[i].name = lbs[i].name /\ lbs'[i].released = lbs[i].released
  BY DEF SameInstances, Existing, Live, NoDuplicate

LEMMA UnchangedInstances == UNCHANGED lbs => SameInstances
  BY DEF SameInstances

\* The finalizer as a guard of the instances that still belong to the service.
LEMMA OrphanFree == NoOrphan <=> (Live = {} \/ HasFinalizer(api))
  BY DEF NoOrphan, Live

\* The user edits or deletes the service.
LEMMA UserInv ==
    ASSUME PlainService, Inv, UserEdit \/ UserDelete, TypeInv'
    PROVE  PlainInv'
  <1>1. SameInstances /\ UNCHANGED <<pc, rec>>
    BY UnchangedInstances DEF UserEdit, UserDelete
  <1>2. /\ api \in Services
        /\ \/ api' \in Services /\ api'.fin = api.fin /\ api'.label = api.label
              /\ (api.deleting => api'.deleting)
           \/ api' = Gone /\ ~api.fin
    BY DEF UserEdit, UserDelete, Inv, TypeInv, TypeOK, HasFinalizer, Services
  <1>3. ViewInv'
    BY <1>1, <1>2, NoneAssumption DEF Inv, PlainInv, ViewInv, Dying, HasFinalizer, TypeInv
  <1>4. PathInv'
    BY <1>1 DEF Inv, PlainInv, PathInv
  <1>5. LabelInv'
    BY <1>1, <1>2, SameInstancesFacts, NoneAssumption DEF Inv, PlainInv, LabelInv, DeadLabel, Dying
  <1>6. InstanceInv'
    BY <1>1, <1>2, SameInstancesFacts, NoneAssumption DEF Inv, PlainInv, InstanceInv, HasFinalizer
  <1>7. NoOrphan' /\ NoDuplicate'
    BY <1>1, <1>2, SameInstancesFacts, OrphanFree, NoneAssumption
       DEF Inv, PlainInv, NoOrphan, HasFinalizer, Live
  <1> QED
    BY <1>3, <1>4, <1>5, <1>6, <1>7 DEF PlainInv

\* Instances are deleted in the console.
LEMMA ConsoleInv ==
    ASSUME PlainService, Inv, ConsoleDelete
    PROVE  PlainInv'
  <1>1. UNCHANGED <<api, pc, rec>>
    BY DEF ConsoleDelete
  <1>2. PICK i \in Lbs : lbs' = [lbs EXCEPT ![i] = NoLb]
    BY DEF ConsoleDelete
  <1>3. /\ Existing' \subseteq Existing
        /\ \A j \in Existing' : lbs'[j] = lbs[j]
    BY <1>2 DEF Existing, Inv, TypeInv, TypeOK, Lbs
  <1>4. Live' \subseteq Live
    BY <1>3 DEF Live
  <1>5. ViewInv' /\ PathInv'
    BY <1>1 DEF Inv, PlainInv, ViewInv, PathInv, Dying, HasFinalizer
  <1>6. LabelInv'
    BY <1>1, <1>4 DEF Inv, PlainInv, LabelInv, DeadLabel, Dying
  <1>7. InstanceInv'
    BY <1>1, <1>3, <1>4 DEF Inv, PlainInv, InstanceInv, HasFinalizer
  <1>8. NoOrphan' /\ NoDuplicate'
    BY <1>1, <1>3 DEF Inv, PlainInv, NoOrphan, NoDuplicate, HasFinalizer
  <1> QED
    BY <1>5, <1>6, <1>7, <1>8 DEF PlainInv

\* Endpoints and nodes change.
LEMMA BackendInv ==
    ASSUME Inv, BackendEvent \/ BackendEventLost
    PROVE  PlainInv'
  <1>1. UNCHANGED <<api, pc, rec, lbs>>
    BY DEF BackendEvent, BackendEventLost
  <1> QED
    BY <1>1 DEF Inv, PlainInv, ViewInv, PathInv, LabelInv, InstanceInv, NoOrphan, NoDuplicate,
                Live, Existing, Dying, DeadLabel, HasFinalizer

\* The watch delivers the object, or the process is restarted.
LEMMA WatchInv ==
    ASSUME PlainService, Inv, WatchEvent \/ Restart
    PROVE  PlainInv'
  <1>1. SameInstances /\ api' = api
    BY UnchangedInstances DEF WatchEvent, Restart
  <1>2. UNCHANGED <<pc, rec>> \/ (pc' = "idle" /\ rec' = NoRec)
    BY DEF WatchEvent, Restart, Finish, Goto
  <1>3. api = Gone \/ api \in Services
    BY DEF Inv, TypeInv, TypeOK
  <1>4. ViewInv'
    BY <1>1, <1>2, <1>3 DEF Inv, PlainInv, ViewInv, Dying, HasFinalizer
  <1>5. PathInv'
    BY <1>2 DEF Inv, PlainInv, PathInv
  <1>6. LabelInv'
    BY <1>1, <1>2, SameInstancesFacts DEF Inv, PlainInv, LabelInv, DeadLabel, Dying
  <1>7. InstanceInv'
    BY <1>1, <1>2, SameInstancesFacts DEF Inv, PlainInv, InstanceInv, HasFinalizer
  <1>8. NoOrphan' /\ NoDuplicate'
    BY <1>1, SameInstancesFacts DEF Inv, PlainInv, NoOrphan, HasFinalizer
  <1> QED
    BY <1>4, <1>5, <1>6, <1>7, <1>8 DEF PlainInv

\* The reconcile ends, with or without an error.
LEMMA IdleInv ==
    ASSUME Inv, Finish, UNCHANGED api, SameInstances
    PROVE  PlainInv'
  <1>1. pc' = "idle"
    BY DEF Finish, Goto
  <1>2. ViewInv' /\ PathInv'
    BY <1>1 DEF Inv, PlainInv, ViewInv, PathInv, Dying, HasFinalizer
  <1>3. LabelInv' /\ InstanceInv'
    BY <1>1, SameInstancesFacts DEF Inv, PlainInv, LabelInv, InstanceInv, DeadLabel, Dying
  <1>4. NoOrphan' /\ NoDuplicate'
    BY <1>1, SameInstancesFacts DEF Inv, PlainInv, NoOrphan, HasFinalizer
  <1> QED
    BY <1>2, <1>3, <1>4 DEF PlainInv

\* The reconcile goes on with the same service, the instances keep their names
\* and owners, and what the next step presumes holds.
LEMMA StepInv ==
    ASSUME Inv, pc # "idle", UNCHANGED api, SameInstances,
           rec'.svc = rec.svc, rec'.clean = rec.clean, PathInv',
           pc' \in ApplySteps => pc \in ApplySteps,
           pc' = "create" => Existing = {},
           pc' = "delete" => Existing \subseteq {rec'.id},
           /\ pc' \in {"vgroups", "listeners", "cleanup", "labels", "status"} \cup CleanSteps
           /\ rec.svc.deleting
           => Live = {}
    PROVE  PlainInv'
  <1>1. ViewInv'
    BY DEF Inv, PlainInv, ViewInv, Dying, HasFinalizer
  <1>2. LabelInv'
    BY SameInstancesFacts DEF Inv, PlainInv, LabelInv, DeadLabel, Dying
  <1>3. InstanceInv'
    BY SameInstancesFacts DEF Inv, PlainInv, InstanceInv, HasFinalizer
  <1>4. NoOrphan' /\ NoDuplicate'
    BY SameInstancesFacts DEF Inv, PlainInv, NoOrphan, HasFinalizer
  <1> QED
    BY <1>1, <1>2, <1>3, <1>4 DEF PlainInv

\* The reconcile reads the service and chooses a path.
LEMMA ReconcileInv ==
    ASSUME PlainService, Inv, Reconcile
    PROVE  PlainInv'
  <1>1. UNCHANGED <<api, lbs>>
    BY DEF Reconcile
  <1>2. CASE Finish
    BY <1>1, <1>2, IdleInv, UnchangedInstances
  <1>3. CASE ~Finish
    <2>1. api \in Services
      BY <1>3 DEF Reconcile, Inv, TypeInv, TypeOK
    <2>2. /\ rec' = NewReq(api, api.deleting)
          /\ pc' = IF api.deleting THEN "find" ELSE "addFin"
      BY <1>3, <2>1, PlainFacts DEF Reconcile, Goto, Services
    <2>3. rec'.svc = api /\ rec'.clean = api.deleting
      BY <2>2 DEF NewReq
    <2>4. SameInstances /\ pc = "idle"
      BY <1>1, UnchangedInstances DEF Reconcile
    <2>5. ViewInv'
      BY <1>1, <2>1, <2>3, PlainFacts DEF Inv, PlainInv, ViewInv, Dying, HasFinalizer
    <2>6. PathInv'
      BY <2>2, <2>3 DEF PathInv
    <2>7. LabelInv'
      BY <1>1, <2>1, <2>3, <2>4, PlainFacts, SameInstancesFacts
         DEF Inv, PlainInv, LabelInv, DeadLabel, Dying
    <2>8. InstanceInv'
      BY <2>2, <2>3, <2>4, SameInstancesFacts DEF Inv, PlainInv, InstanceInv, HasFinalizer
    <2>9. NoOrphan' /\ NoDuplicate'
      BY <1>1, <2>4, SameInstancesFacts DEF Inv, PlainInv, NoOrphan, HasFinalizer
    <2> QED
      BY <2>5, <2>6, <2>7, <2>8, <2>9 DEF PlainInv
  <1> QED
    BY <1>2, <1>3

\* The finalizer is there or added.
LEMMA AddFinalizersInv ==
    ASSUME PlainService, Inv, AddFinalizers
    PROVE  PlainInv'
  <1>1. /\ api \in Services /\ pc = "addFin" /\ pc' = "find" /\ ~rec.clean /\ rec \in Reqs
        /\ api' = [api EXCEPT !.fin = TRUE] /\ rec' = [rec EXCEPT !.svc = api']
    BY DEF AddFinalizers, Goto, Inv, PlainInv, PathInv, TypeInv, TypeOK
  <1>2. SameInstances
    BY UnchangedInstances DEF AddFinalizers
  <1>3. /\ api' \in Services /\ api'.fin
        /\ api'.deleting = api.deleting /\ api'.label = api.label
    BY <1>1 DEF Services
  <1>4. rec'.svc = api' /\ rec'.clean = rec.clean /\ api # Gone /\ api' # Gone
    BY <1>1, <1>3, NoneAssumption DEF Reqs
  <1>5. ViewInv' /\ PathInv'
    BY <1>1, <1>4 DEF ViewInv, PathInv, Dying
  <1>6. LabelInv'
    BY <1>1, <1>2, <1>3, <1>4, SameInstancesFacts
       DEF Inv, PlainInv, LabelInv, DeadLabel, Dying
  <1>7. HasFinalizer(api)'
    BY <1>3, <1>4 DEF HasFinalizer
  <1>8. InstanceInv'
    BY <1>1, <1>2, <1>7, SameInstancesFacts DEF Inv, PlainInv, InstanceInv
  <1>9. NoOrphan' /\ NoDuplicate'
    BY <1>2, <1>7, SameInstancesFacts DEF Inv, PlainInv, NoOrphan
  <1> QED
    BY <1>5, <1>6, <1>8, <1>9 DEF PlainInv

\* The instance is looked up.
LEMMA BuildAndFindInv ==
    ASSUME PlainService, Inv, BuildAndFind
    PROVE  PlainInv'
  <1>1. pc = "find" /\ rec \in Reqs /\ rec.svc \in Services
        /\ UNCHANGED <<api, lbs>>
    BY DEF BuildAndFind, Inv, TypeInv, TypeOK, Reqs
  <1>2. FindLoadBalancer(rec.svc) = Existing
    BY <1>1, FindsAll
  <1>3. PICK q : /\ AfterFind(q)
                 /\ q.svc = rec.svc /\ q.clean = rec.clean
                 /\ Existing \subseteq {q.id}
                 /\ q.id = NoId => Existing = {}
    <2> DEFINE r == [rec EXCEPT !.eps = eps]
    <2>1. CASE Existing = {}
      BY <1>1, <1>2, <2>1 DEF BuildAndFind, Reqs
    <2>2. CASE Existing # {}
      <3>1. PICK i \in Existing : AfterFind([r EXCEPT !.id = i])
        BY <1>2, <2>2 DEF BuildAndFind
      <3>2. i # NoId /\ Existing \subseteq {i}
        BY <3>1, IdsAssumption DEF Existing, Inv, PlainInv, NoDuplicate
      <3> DEFINE q == [r EXCEPT !.id = i]
      <3>3. q.svc = rec.svc /\ q.clean = rec.clean /\ q.id = i
        BY <1>1 DEF Reqs
      <3>4. AfterFind(q)
        BY <3>1
      <3> HIDE DEF q
      <3> QED
        BY <3>2, <3>3, <3>4
    <2> QED
      BY <2>1, <2>2
  <1>4. rec'.svc = rec.svc /\ rec'.clean = rec.clean /\ rec' = q
    BY <1>3 DEF AfterFind, Goto, Applied
  <1>5. \/ pc' = "delete" /\ rec.svc.deleting
        \/ pc' = "create" /\ ~rec.svc.deleting /\ q.id = NoId
        \/ pc' = "update" /\ ~rec.svc.deleting
        \/ pc' = "vgroups" /\ ~IsServiceHashChanged(rec.svc)
        \/ pc' \in {"labels", "rmLabels"} /\ ~IsServiceHashChanged(rec.svc)
           /\ (pc' = "rmLabels" => rec.clean)
    BY <1>1, <1>3, PlainFacts DEF AfterFind, Goto, Applied
  <1>6. rec.svc.deleting /\ ~IsServiceHashChanged(rec.svc) => Live = {}
    <2>1. ASSUME rec.svc.deleting, ~IsServiceHashChanged(rec.svc) PROVE DeadLabel(rec.svc)
      <3>1. GetServiceHash(rec.svc) \in Hashes
        BY <1>1 DEF GetServiceHash, Hashes, Services
      <3>2. GetServiceHash(rec.svc).deleting
        BY <2>1 DEF GetServiceHash
      <3> QED
        BY <1>1, <2>1, <3>1, <3>2, PlainFacts, NoneAssumption DEF IsServiceHashChanged, DeadLabel
    <2> QED
      BY <1>1, <2>1 DEF Inv, PlainInv, LabelInv
  <1>7. PathInv'
    BY <1>1, <1>4, <1>5 DEF Inv, PlainInv, PathInv
  <1> QED
    BY <1>1, <1>3, <1>4, <1>5, <1>6, <1>7, StepInv, UnchangedInstances

\* The service is being deleted: its instance is deleted or handed over.
LEMMA DeleteLeavesNone ==
    ASSUME PlainService, Inv, DeleteLoadBalancer
    PROVE  /\ Existing' \subseteq Existing
           /\ \A i \in Existing' : lbs'[i].name = "default" /\ lbs'[i].released
           /\ Live' = {}
  <1>1. /\ pc = "delete" /\ rec \in Reqs /\ rec.svc \in Services /\ rec.svc.deleting
        /\ Existing \subseteq {rec.id} /\ UNCHANGED api
    BY DEF DeleteLoadBalancer, Inv, TypeInv, TypeOK, Reqs, PlainInv, PathInv, InstanceInv
  <1>2. ~IsUserManaged(rec.svc)
    BY <1>1, PlainFacts
  <1>3. /\ Existing' \subseteq Existing
        /\ \A i \in Existing' : lbs'[i].name = "default" /\ lbs'[i].released
    <2>1. CASE rec.id = NoId
      BY <1>1, <1>2, <2>1, IdsAssumption DEF DeleteLoadBalancer, Existing
    <2>2. CASE rec.id # NoId
      <3>1. lbs[rec.id] \in Instances /\ rec.id \in Lbs
        BY <1>1, <2>2, RecInstance DEF DeleteLoadBalancer, Inv
      <3>2. PICK x : /\ lbs' = [lbs EXCEPT ![rec.id] = x]
                     /\ x = NoLb \/ (x.released /\ x.name = lbs[rec.id].name)
        <4> DEFINE x == IF rec.svc.spec.preserve THEN HandOver(lbs[rec.id]) ELSE NoLb
        <4>1. lbs' = [lbs EXCEPT ![rec.id] = x]
          BY <1>2, <2>2 DEF DeleteLoadBalancer
        <4>2. x = NoLb \/ (x.released /\ x.name = lbs[rec.id].name)
          BY <3>1 DEF Instances, HandOver
        <4> HIDE DEF x
        <4> QED
          BY <4>1, <4>2
      <3>3. \A i \in LbIds : i # rec.id => lbs'[i] = lbs[i]
        BY <3>2 DEF Inv, TypeInv, TypeOK, Lbs
      <3>4. lbs'[rec.id] = x
        BY <3>1, <3>2 DEF Inv, TypeInv, TypeOK
      <3>5. \A i \in Existing : lbs[i].name = "default"
        BY DEF Inv, PlainInv, InstanceInv
      <3>6. rec.id \in LbIds => rec.id \in Existing
        BY <3>1, NoneAssumption DEF Existing
      <3> QED
        BY <1>1, <3>2, <3>3, <3>4, <3>5, <3>6 DEF Existing
    <2> QED
      BY <2>1, <2>2
  <1> QED
    BY <1>3 DEF Live

LEMMA DeleteInv ==
    ASSUME PlainService, Inv, DeleteLoadBalancer
    PROVE  PlainInv'
  <1>1. /\ pc = "delete" /\ rec \in Reqs /\ rec.svc \in Services /\ rec.svc.deleting
        /\ UNCHANGED api
    BY DEF DeleteLoadBalancer, Inv, TypeInv, TypeOK, Reqs, PlainInv, PathInv, InstanceInv
  <1>2. ~IsUserManaged(rec.svc)
    BY <1>1, PlainFacts
  <1>3. /\ rec' = [rec EXCEPT !.id = NoId]
        /\ pc' = IF rec.clean THEN "rmLabels" ELSE "labels"
    BY <1>1, <1>2 DEF DeleteLoadBalancer, Applied, Goto, Reqs
  <1>4. rec'.svc = rec.svc /\ rec'.clean = rec.clean
    BY <1>1, <1>3 DEF Reqs
  <1>5. /\ Existing' \subseteq Existing
        /\ \A i \in Existing' : lbs'[i].name = "default" /\ lbs'[i].released
        /\ Live' = {}
    BY DeleteLeavesNone
  <1>6. ViewInv' /\ PathInv'
    BY <1>1, <1>3, <1>4 DEF Inv, PlainInv, ViewInv, PathInv, Dying, HasFinalizer
  <1>7. LabelInv'
    BY <1>1, <1>3, <1>4, <1>5 DEF Inv, PlainInv, LabelInv, DeadLabel, Dying
  <1>8. InstanceInv'
    BY <1>3, <1>5 DEF InstanceInv
  <1>9. NoOrphan' /\ NoDuplicate'
    BY <1>5 DEF Inv, PlainInv, NoOrphan, NoDuplicate
  <1> QED
    BY <1>6, <1>7, <1>8, <1>9 DEF PlainInv

\* The instance is created, tagged or updated: the service holds the finalizer.
LEMMA OwnInv ==
    ASSUME Inv, pc \in {"create", "tag", "update"}, pc' \in {"tag", "vgroups"},
           UNCHANGED api, rec'.svc = rec.svc, rec'.clean = rec.clean,
           \A i \in Existing' : lbs'[i].name = "default", NoDuplicate'
    PROVE  PlainInv'
  <1>1. ~rec.svc.deleting /\ ~rec.clean /\ HasFinalizer(api)
    BY DEF Inv, PlainInv, PathInv, InstanceInv
  <1>2. ViewInv' /\ PathInv'
    BY <1>1 DEF Inv, PlainInv, ViewInv, PathInv, Dying, HasFinalizer
  <1>3. LabelInv'
    BY <1>1 DEF Inv, PlainInv, LabelInv, DeadLabel
  <1>4. HasFinalizer(api)'
    BY <1>1 DEF HasFinalizer
  <1>5. InstanceInv'
    BY <1>1, <1>4 DEF InstanceInv
  <1>6. NoOrphan'
    BY <1>4 DEF NoOrphan
  <1> QED
    BY <1>2, <1>3, <1>5, <1>6 DEF PlainInv

\* An instance is created only when there is none.
LEMMA CreateInv ==
    ASSUME PlainService, Inv, CreateLoadBalancer
    PROVE  PlainInv'
  <1>1. /\ pc = "create" /\ pc' = "tag" /\ Existing = {}
        /\ UNCHANGED api /\ rec \in Reqs /\ rec.svc \in Services
    BY DEF CreateLoadBalancer, Goto, Inv, PlainInv, InstanceInv, TypeInv, TypeOK, Reqs
  <1>2. PICK i \in LbIds : /\ lbs' = [lbs EXCEPT ![i] = NewInstance(rec.svc.spec)]
                           /\ rec' = [rec EXCEPT !.id = i]
    BY <1>1 DEF CreateLoadBalancer, Goto
  <1>3. NewInstance(rec.svc.spec).name = "default"
    BY <1>1, PlainFacts DEF NewInstance, DefaultName
  <1>4. lbs'[i] = NewInstance(rec.svc.spec) /\ \A j \in LbIds : j # i => lbs'[j] = lbs[j]
    BY <1>2 DEF Inv, TypeInv, TypeOK, Lbs
  <1>5. Existing' \subseteq {i}
    BY <1>1, <1>4 DEF Existing
  <1>6. rec'.svc = rec.svc /\ rec'.clean = rec.clean
    BY <1>1, <1>2 DEF Reqs
  <1>7. NoDuplicate' /\ \A j \in Existing' : lbs'[j].name = "default"
    BY <1>3, <1>4, <1>5 DEF NoDuplicate
  <1> QED
    BY <1>1, <1>6, <1>7, OwnInv

\* A step that changes one existing instance and keeps its name.
LEMMA OneInstance ==
    ASSUME Inv, NEW i \in Lbs, lbs[i] \in Instances,
           NEW x \in Instances, lbs' = [lbs EXCEPT ![i] = x], x.name = lbs[i].name
    PROVE  /\ Existing' = Existing
           /\ \A j \in Existing' : lbs'[j].name = "default"
           /\ NoDuplicate'
           /\ x.released = lbs[i].released => SameInstances
  <1>1. lbs'[i] = x /\ \A j \in LbIds : j # i => lbs'[j] = lbs[j]
    BY DEF Inv, TypeInv, TypeOK, Lbs
  <1>2. lbs[i] # NoLb /\ x # NoLb
    BY NoneAssumption
  <1>3. Existing' = Existing
    BY <1>1, <1>2 DEF Existing
  <1>4. \A j \in Existing : lbs[j].name = "default"
    BY DEF Inv, PlainInv, InstanceInv
  <1>5. \A j \in Existing' : lbs'[j].name = "default"
    BY <1>1, <1>3, <1>4 DEF Existing
  <1>6. NoDuplicate'
    BY <1>3 DEF Inv, PlainInv, NoDuplicate
  <1>7. x.released = lbs[i].released => SameInstances
    BY <1>1, <1>2 DEF SameInstances
  <1> QED
    BY <1>3, <1>5, <1>6, <1>7

LEMMA TagInv ==
    ASSUME PlainService, Inv, TagLoadBalancer
    PROVE  PlainInv'
  <1>1. /\ pc = "tag" /\ pc' = "vgroups" /\ rec' = rec /\ UNCHANGED api
        /\ rec.id \in Lbs /\ lbs[rec.id] \in Instances
    BY RecInstance DEF TagLoadBalancer, Goto, Inv, TypeInv, TypeOK
  <1> DEFINE x == [lbs[rec.id] EXCEPT !.tag = TRUE, !.released = FALSE]
  <1>2. x \in Instances /\ x.name = lbs[rec.id].name
    BY <1>1 DEF Instances
  <1>3. lbs' = [lbs EXCEPT ![rec.id] = x]
    BY <1>1 DEF TagLoadBalancer, Inv, TypeInv, TypeOK, Instances
  <1> HIDE DEF x
  <1>4. NoDuplicate' /\ \A j \in Existing' : lbs'[j].name = "default"
    BY <1>1, <1>2, <1>3, OneInstance
  <1> QED
    BY <1>1, <1>4, OwnInv

LEMMA UpdateInv ==
    ASSUME PlainService, Inv, NEW okTag \in BOOLEAN, NEW okAttr \in BOOLEAN,
           UpdateWith(okTag, okAttr)
    PROVE  PlainInv'
  <1>1. /\ pc = "update" /\ pc' = "vgroups" /\ UNCHANGED api
        /\ rec \in Reqs /\ rec.svc \in Services
        /\ rec.id \in Lbs /\ lbs[rec.id] \in Instances
    BY RecInstance DEF UpdateWith, Goto, Inv, TypeInv, TypeOK
  <1> DEFINE x == Updated(lbs[rec.id], rec.svc, okTag, okAttr)
  <1>2. rec.svc.spec.name = "" /\ rec.svc.spec.cfg \in Cfgs
    BY <1>1, PlainFacts DEF Services, Cfgs
  <1>3. x \in Instances /\ x.name = lbs[rec.id].name
    BY <1>1, <1>2, UpdatedType
  <1>4. lbs' = [lbs EXCEPT ![rec.id] = x]
    BY DEF UpdateWith
  <1> HIDE DEF x
  <1>5. NoDuplicate' /\ \A j \in Existing' : lbs'[j].name = "default"
    BY <1>1, <1>3, <1>4, OneInstance
  <1>6. rec'.svc = rec.svc /\ rec'.clean = rec.clean
    BY <1>1 DEF UpdateWith, Goto, Reqs
  <1> QED
    BY <1>1, <1>5, <1>6, OwnInv

\* Vserver groups and listeners are written or cleaned up.
LEMMA ResourceInstances ==
    ASSUME Inv, ResourceWork
    PROVE  SameInstances
  <1>1. CASE UNCHANGED lbs
    BY <1>1, UnchangedInstances
  <1>2. CASE lbs' # lbs
    BY <1>2, ResourceStep, OneInstance DEF Inv
  <1> QED
    BY <1>1, <1>2

LEMMA ResourceInv ==
    ASSUME PlainService, Inv,
           ResourceWork
    PROVE  PlainInv'
  <1>1. SameInstances
    BY ResourceInstances
  <1>2. CASE pc' = "idle"
    BY <1>1, <1>2, ResourceStep, IdleInv DEF Inv, Finish, Goto
  <1>3. CASE pc' # "idle"
    <2>1. /\ pc \in {"vgroups", "listeners", "cleanup"} /\ rec' = rec
          /\ UNCHANGED api
          /\ pc' \in {"listeners", "cleanup", "labels", "rmLabels"}
          /\ pc' = "rmLabels" => rec.clean
      BY <1>3, ResourceStep DEF Inv
    <2>2. PathInv'
      BY <2>1 DEF Inv, PlainInv, PathInv
    <2>3. rec.svc.deleting => Live = {}
      BY <2>1 DEF Inv, PlainInv, InstanceInv
    <2> QED
      BY <1>1, <2>1, <2>2, <2>3, StepInv
  <1> QED
    BY <1>2, <1>3

\* The instance is gone already and the deletion goes on.
LEMMA MissingInv ==
    ASSUME PlainService, Inv, LoadBalancerMissing
    PROVE  PlainInv'
  <1>1. /\ pc # "idle" /\ rec.clean /\ rec.svc.deleting /\ rec \in Reqs /\ rec.svc \in Services
        /\ pc' = "rmLabels" /\ rec' = rec /\ UNCHANGED <<api, lbs>>
    BY DEF LoadBalancerMissing, Applied, Goto, Inv, PlainInv, PathInv, TypeInv, TypeOK, Reqs
  <1>2. ~Absent(FindLoadBalancer(rec.svc))
    BY <1>1, FindsAll DEF Absent, Existing
  <1>3. pc \in {"delete", "vgroups", "listeners", "cleanup"} /\ Vanished
    BY <1>1, <1>2 DEF LoadBalancerMissing, Inv, PlainInv, PathInv
  <1>4. pc = "delete" => Live = {}
    BY <1>3 DEF Inv, PlainInv, InstanceInv, Vanished, Live, Existing
  <1>5. Live = {}
    BY <1>1, <1>3, <1>4 DEF Inv, PlainInv, InstanceInv
  <1>6. PathInv'
    BY <1>1 DEF PathInv
  <1> QED
    BY <1>1, <1>5, <1>6, StepInv, UnchangedInstances

\* The labels and the status are written or removed.
LEMMA BookkeepingInv ==
    ASSUME PlainService, Inv, StatusWork
    PROVE  PlainInv'
  <1>1. /\ rec \in Reqs /\ rec.svc \in Services
        /\ pc \in {"labels", "status", "rmLabels", "rmStatus"}
        /\ \/ pc' = "idle"
           \/ pc' = "status" /\ pc = "labels" /\ rec' = rec
           \/ pc' \in {"rmStatus", "rmFin"} /\ pc \in {"rmLabels", "rmStatus"} /\ rec' = rec
        /\ api = Gone => api' = Gone
        /\ api # Gone => /\ api \in Services /\ api' \in Services
                         /\ api'.fin = api.fin /\ api'.deleting = api.deleting
                         /\ \/ api'.label \in {api.label, NoLabel}
                            \/ pc = "labels" /\ api'.label = GetServiceHash(rec.svc)
    BY BookkeepingStep DEF Inv
  <1>2. SameInstances
    BY BookkeepingStep, UnchangedInstances DEF Inv
  <1>3. (HasFinalizer(api)' <=> HasFinalizer(api)) /\ (Dying(api)' <=> Dying(api))
    BY <1>1, NoneAssumption DEF HasFinalizer, Dying
  <1>4. ViewInv' /\ PathInv'
    BY <1>1, <1>3 DEF Inv, PlainInv, ViewInv, PathInv
  <1>5. LabelInv'
    <2>1. pc = "labels" /\ rec.svc.deleting => Live = {} /\ Dying(api)
      BY DEF Inv, PlainInv, InstanceInv, ViewInv
    <2>2. DeadLabel(api)' => DeadLabel(api) \/ (pc = "labels" /\ rec.svc.deleting)
      BY <1>1, NoneAssumption DEF DeadLabel, GetServiceHash
    <2>3. pc' # "idle" => (DeadLabel(rec.svc)' <=> DeadLabel(rec.svc))
      BY <1>1 DEF DeadLabel
    <2> QED
      BY <1>1, <1>2, <1>3, <2>1, <2>2, <2>3, SameInstancesFacts DEF Inv, PlainInv, LabelInv
  <1>6. InstanceInv'
    BY <1>1, <1>2, SameInstancesFacts DEF Inv, PlainInv, InstanceInv
  <1>7. NoOrphan' /\ NoDuplicate'
    BY <1>2, <1>3, SameInstancesFacts DEF Inv, PlainInv, NoOrphan
  <1> QED
    BY <1>4, <1>5, <1>6, <1>7 DEF PlainInv

\* The finalizer is removed, when nothing is left to delete.
LEMMA RemoveFinalizersInv ==
    ASSUME PlainService, Inv, RemoveFinalizers
    PROVE  PlainInv'
  <1>1. /\ pc = "rmFin" /\ pc' = "idle" /\ api # Gone
        /\ rec.svc.deleting /\ Live = {} /\ Dying(api)
    BY DEF RemoveFinalizers, Finish, Goto, Inv, PlainInv, PathInv, InstanceInv, ViewInv
  <1>2. SameInstances
    BY UnchangedInstances DEF RemoveFinalizers
  <1>3. api' = Gone \/ (api' \in Services /\ api'.deleting /\ api'.label = api.label)
    BY <1>1 DEF RemoveFinalizers, Dying, Inv, TypeInv, TypeOK, Services
  <1>4. Dying(api)' /\ (DeadLabel(api)' => DeadLabel(api))
    BY <1>1, <1>3, NoneAssumption DEF Dying, DeadLabel
  <1>5. ViewInv' /\ PathInv'
    BY <1>1 DEF ViewInv, PathInv
  <1>6. LabelInv' /\ InstanceInv'
    BY <1>1, <1>2, <1>4, SameInstancesFacts DEF Inv, PlainInv, LabelInv, InstanceInv
  <1>7. NoOrphan' /\ NoDuplicate'
    BY <1>1, <1>2, SameInstancesFacts DEF Inv, PlainInv, NoOrphan, Live
  <1> QED
    BY <1>5, <1>6, <1>7 DEF PlainInv

\* Every step preserves the invariant.
LEMMA NextInv ==
    ASSUME PlainService, Inv, [Next]_vars
    PROVE  Inv'
  <1>0. TypeInv'
    BY NextTypeInv DEF Inv
  <1> SUFFICES PlainInv'
    BY <1>0 DEF Inv
  <1>1. CASE UserEdit \/ UserDelete
    BY <1>0, <1>1, UserInv
  <1>2. CASE ConsoleDelete
    BY <1>2, ConsoleInv
  <1>3. CASE BackendEvent \/ BackendEventLost
    BY <1>3, BackendInv
  <1>4. CASE WatchEvent \/ Restart
    BY <1>4, WatchInv
  <1>5. CASE Reconcile
    BY <1>5, ReconcileInv
  <1>6. CASE AddFinalizers
    BY <1>6, AddFinalizersInv
  <1>7. CASE BuildAndFind
    BY <1>7, BuildAndFindInv
  <1>8. CASE DeleteLoadBalancer
    BY <1>8, DeleteInv
  <1>9. CASE CreateLoadBalancer
    BY <1>9, CreateInv
  <1>10. CASE TagLoadBalancer
    BY <1>10, TagInv
  <1>11. CASE UpdateLoadBalancer \/ UpdateLoadBalancerPartly
    BY <1>11, UpdateInv DEF UpdateLoadBalancer, UpdateLoadBalancerPartly
  <1>12. CASE ResourceWork
    BY <1>12, ResourceInv
  <1>13. CASE LoadBalancerMissing
    BY <1>13, MissingInv
  <1>14. CASE StatusWork
    BY <1>14, BookkeepingInv
  <1>15. CASE RemoveFinalizers
    BY <1>15, RemoveFinalizersInv
  <1>16. CASE ReconcileErr \/ StepFails
    BY <1>16, IdleInv, UnchangedInstances DEF ReconcileErr, StepFails, ReturnErr
  <1>17. CASE UNCHANGED vars
    <2>1. UNCHANGED <<api, pc, rec, lbs>>
      BY <1>17 DEF vars
    <2> QED
      BY <2>1 DEF Inv, PlainInv, ViewInv, PathInv, LabelInv, InstanceInv, NoOrphan, NoDuplicate,
                  Live, Existing, Dying, DeadLabel, HasFinalizer
  <1> QED
    BY <1>1, <1>2, <1>3, <1>4, <1>5, <1>6, <1>7, <1>8, <1>9, <1>10, <1>11, <1>12, <1>13,
       <1>14, <1>15, <1>16, <1>17 DEF Next, User, ReconcileStep, Fault, ResourceWork, StatusWork

\* The views of a plain service that the API server, the hash label and
\* the reconcile in progress hold agree on what is left to delete (RemoveFinalizers
\* runs only after Apply has left nothing to delete).
THEOREM PlainInvariant == PlainService /\ Spec => []PlainInv
  <1> SUFFICES ASSUME PlainService PROVE Spec => []PlainInv
    OBVIOUS
  <1>1. Init => Inv
    BY InitInv
  <1>2. Inv /\ [Next]_vars => Inv'
    BY NextInv
  <1>3. Inv => PlainInv
    BY DEF Inv
  <1> QED
    BY <1>1, <1>2, <1>3, PTL DEF Spec

\* No instance that the controller created for a plain service and has not handed
\* over is ever left without a service that holds the finalizer.
THEOREM PlainNoOrphan == PlainService /\ Spec => []NoOrphan
  <1>1. PlainInv => NoOrphan
    BY DEF PlainInv
  <1> QED
    BY <1>1, PlainInvariant, PTL

\* The controller never creates a second instance for a plain service, even when
\* the cloud has forgotten the client token.
THEOREM PlainNoDuplicate == PlainService /\ Spec => []NoDuplicate
  <1>1. PlainInv => NoDuplicate
    BY DEF PlainInv
  <1> QED
    BY <1>1, PlainInvariant, PTL

-----------------------------------------------------------------------------
(* The promise of OwnedResource.                                           *)

\* A service under deletion has a finalizer: the API server keeps it for nothing else.
DeletingHeld == api # Gone /\ api.deleting => api.fin

\* What each step does to the service in the API server.
LEMMA ApiStep ==
    ASSUME [Next]_vars
    PROVE  \/ UserEdit \/ UserDelete \/ AddFinalizers \/ RemoveFinalizers \/ StatusWork
           \/ api' = api
  BY DEF StatusWork, Next, User, ConsoleDelete, BackendEvent, BackendEventLost, WatchEvent,
         ReconcileStep, Fault, Restart, StepFails, ReturnErr, ApplyVGroupsPartly,
         ApplyListenersPartly, CleanupVGroupsPartly, UpdateLoadBalancerPartly, Reconcile,
         BuildAndFind, DeleteLoadBalancer, CreateLoadBalancer, TagLoadBalancer,
         UpdateLoadBalancer, UpdateWith, ApplyVGroups, ApplyListeners, CleanupVGroups,
         LoadBalancerMissing, ReconcileErr, vars

LEMMA NextDeletingHeld == TypeInv /\ DeletingHeld /\ [Next]_vars => DeletingHeld'
  <1> SUFFICES ASSUME TypeInv, DeletingHeld, [Next]_vars PROVE DeletingHeld'
    OBVIOUS
  <1>1. api # Gone => api \in Services
    BY DEF TypeInv, TypeOK
  <1>2. CASE UserEdit \/ UserDelete
    <2>1. api \in Services /\ (api' = Gone \/ (api' \in Services /\ api'.fin = api.fin
                                               /\ (api'.deleting => api.deleting \/ api.fin)))
      BY <1>1, <1>2 DEF UserEdit, UserDelete, HasFinalizer, Services
    <2> QED
      BY <2>1, NoneAssumption DEF DeletingHeld
  <1>3. CASE AddFinalizers
    <2>1. api' = [api EXCEPT !.fin = TRUE] /\ api \in Services
      BY <1>1, <1>3 DEF AddFinalizers
    <2> QED
      BY <2>1 DEF DeletingHeld, Services
  <1>4. CASE RemoveFinalizers
    <2>1. api \in Services /\ (api' = Gone \/ (~api.deleting /\ api' = [api EXCEPT !.fin = FALSE]))
      BY <1>1, <1>4 DEF RemoveFinalizers, DeletingHeld
    <2> QED
      BY <2>1 DEF DeletingHeld, Services
  <1>5. CASE StatusWork
    BY <1>5, BookkeepingStep DEF DeletingHeld
  <1>6. CASE api' = api
    BY <1>6 DEF DeletingHeld
  <1> QED
    BY <1>2, <1>3, <1>4, <1>5, <1>6, ApiStep

\* The service stays as it is and instances are deleted or handed over.
LEMMA OwnedShrinks ==
    ASSUME Inv, Phase' = Phase, HasFinalizer(api)' = HasFinalizer(api), Live' \subseteq Live
    PROVE  UNCHANGED Promise!ownedVars \/ Promise!Free
  <1>1. CASE Live' = Live
    BY <1>1 DEF Promise!ownedVars
  <1>2. CASE Live' # Live
    <2>1. HasFinalizer(api) /\ HasFinalizer(api)'
      BY <1>2, OrphanFree DEF Inv, PlainInv
    <2>2. Live \ Live' \in (SUBSET Live) \ {{}} /\ Live' = Live \ (Live \ Live')
      BY <1>2
    <2> QED
      BY <2>1, <2>2 DEF Promise!Free
  <1> QED
    BY <1>1, <1>2

LEMMA PhaseKept ==
    ASSUME api' = api
    PROVE  Phase' = Phase /\ HasFinalizer(api)' = HasFinalizer(api)
  BY DEF Phase, HasFinalizer

\* The service is edited, deleted, given the finalizer or stripped of it.
LEMMA OwnedService ==
    ASSUME PlainService, Inv, DeletingHeld,
           UserEdit \/ UserDelete \/ AddFinalizers \/ RemoveFinalizers
    PROVE  UNCHANGED Promise!ownedVars \/ Promise!OwnedNext
  <1>1. Live' = Live
    BY UnchangedInstances, SameInstancesFacts
       DEF UserEdit, UserDelete, AddFinalizers, RemoveFinalizers
  <1>2. api # Gone => api \in Services
    BY DEF Inv, TypeInv, TypeOK
  <1>3. CASE api' = api
    BY <1>1, <1>3, PhaseKept DEF Promise!ownedVars
  <1>4. CASE UserEdit
    <2>1. api' \in Services /\ api' # Gone /\ api # Gone
          /\ api'.fin = api.fin /\ api'.deleting = api.deleting
      BY <1>2, <1>4, NoneAssumption DEF UserEdit, Services
    <2> QED
      BY <1>1, <2>1 DEF Promise!ownedVars, Phase, HasFinalizer
  <1>5. CASE UserDelete
    <2>1. api \in Services /\ Phase = "live"
      BY <1>2, <1>5 DEF UserDelete, Phase
    <2>2. CASE HasFinalizer(api)
      <3>1. api' \in Services /\ api' # Gone /\ api'.deleting /\ api'.fin = api.fin
        BY <1>5, <2>1, <2>2, NoneAssumption DEF UserDelete, Services
      <3> QED
        BY <1>1, <2>1, <2>2, <3>1 DEF Promise!OwnedNext, Promise!Delete, Phase, HasFinalizer
    <2>3. CASE ~HasFinalizer(api)
      <3>1. api' = Gone
        BY <1>5, <2>3 DEF UserDelete
      <3> QED
        BY <1>1, <2>1, <2>3, <3>1 DEF Promise!OwnedNext, Promise!Delete, Phase, HasFinalizer
    <2> QED
      BY <2>2, <2>3
  <1>6. CASE AddFinalizers /\ api' # api
    <2>1. api # Gone /\ api' = [api EXCEPT !.fin = TRUE]
      BY <1>6 DEF AddFinalizers
    <2>2. api \in Services /\ ~api.fin /\ ~api.deleting
      BY <1>2, <1>6, <2>1 DEF DeletingHeld, Services
    <2>3. api' \in Services /\ api' # Gone /\ api'.fin /\ ~api'.deleting
      BY <2>1, <2>2, NoneAssumption DEF Services
    <2> QED
      BY <1>1, <2>1, <2>2, <2>3 DEF Promise!OwnedNext, Promise!Hold, Phase, HasFinalizer
  <1>7. CASE RemoveFinalizers /\ api' # api
    <2>1. pc = "rmFin" /\ api # Gone
      BY <1>7 DEF RemoveFinalizers
    <2>2. rec.svc.deleting /\ Live = {} /\ Dying(api)
      BY <2>1 DEF Inv, PlainInv, PathInv, InstanceInv, ViewInv
    <2>3. api.deleting /\ api.fin /\ api' = Gone
      BY <1>7, <2>1, <2>2 DEF RemoveFinalizers, Dying, DeletingHeld
    <2> QED
      BY <1>1, <2>1, <2>2, <2>3 DEF Promise!OwnedNext, Promise!LetGo, Phase, HasFinalizer
  <1> QED
    BY <1>3, <1>4, <1>5, <1>6, <1>7

\* An instance is taken on under the finalizer.
LEMMA OwnedGrows ==
    ASSUME Inv, pc \in ApplySteps, ~rec.svc.deleting, api' = api,
           NEW i \in LbIds, Live' = Live \cup {i}
    PROVE  UNCHANGED Promise!ownedVars \/ Promise!OwnedNext
  <1>1. HasFinalizer(api)
    BY DEF Inv, PlainInv, InstanceInv
  <1>2. CASE i \in Live
    BY <1>2, PhaseKept DEF Promise!ownedVars
  <1>3. CASE i \notin Live
    BY <1>1, <1>3, PhaseKept DEF Promise!OwnedNext, Promise!Make
  <1> QED
    BY <1>2, <1>3

\* The instance of the reconcile is written and is the service's, or stays whose it was.
LEMMA OwnedWrite ==
    ASSUME Inv, pc \in {"tag", "update"}, api' = api, ~Vanished, rec.id # NoId,
           NEW x \in Instances, lbs' = [lbs EXCEPT ![rec.id] = x], x.name = lbs[rec.id].name,
           x.released => lbs[rec.id].released
    PROVE  UNCHANGED Promise!ownedVars \/ Promise!OwnedNext
  <1>1. ~rec.svc.deleting /\ pc \in ApplySteps
    BY DEF Inv, PlainInv, PathInv
  <1>2. rec.id \in Lbs /\ lbs[rec.id] \in Instances
    BY <1>1, RecInstance DEF Inv
  <1>3. Existing' = Existing
    BY <1>2, OneInstance
  <1>4. lbs'[rec.id] = x /\ \A j \in LbIds : j # rec.id => lbs'[j] = lbs[j]
    BY <1>2 DEF Inv, TypeInv, TypeOK, Lbs
  <1>5. Live' = Live \/ (rec.id \in LbIds /\ Live' = Live \cup {rec.id})
    BY <1>2, <1>3, <1>4, NoneAssumption DEF Live, Existing
  <1> QED
    BY <1>1, <1>5, OwnedGrows, PhaseKept DEF Promise!ownedVars

\* An update takes an instance back or leaves it whose it is.
LEMMA UpdatedReleased ==
    ASSUME NEW y \in Instances, NEW svc, NEW okTag \in BOOLEAN, NEW okAttr
    PROVE  Updated(y, svc, okTag, okAttr).released => y.released
  <1> DEFINE tag == y.tag \/ (okTag /\ ~IsUserManaged(svc))
             released == y.released /\ ~okTag
             attr == IF okAttr THEN svc.spec.cfg ELSE y.attr
             name == IF okAttr /\ svc.spec.name # "" THEN svc.spec.name ELSE y.name
  <1>1. released => y.released
    OBVIOUS
  <1>2. Updated(y, svc, okTag, okAttr)
          = [y EXCEPT !.tag = tag, !.released = released, !.attr = attr, !.name = name]
    BY DEF Updated
  <1> HIDE DEF tag, released, attr, name
  <1> QED
    BY <1>1, <1>2 DEF Instances

\* The instance is created, tagged or updated.
LEMMA OwnedInstance ==
    ASSUME PlainService, Inv,
           CreateLoadBalancer \/ TagLoadBalancer \/ UpdateLoadBalancer \/ UpdateLoadBalancerPartly
    PROVE  UNCHANGED Promise!ownedVars \/ Promise!OwnedNext
  <1>1. CASE CreateLoadBalancer
    <2>1. /\ pc = "create" /\ Existing = {} /\ api' = api /\ ~rec.svc.deleting
      BY <1>1 DEF CreateLoadBalancer, Inv, PlainInv, InstanceInv, PathInv
    <2>2. PICK i \in LbIds : lbs' = [lbs EXCEPT ![i] = NewInstance(rec.svc.spec)]
      BY <1>1, <2>1 DEF CreateLoadBalancer
    <2>3. lbs'[i] = NewInstance(rec.svc.spec) /\ \A j \in LbIds : j # i => lbs'[j] = lbs[j]
      BY <2>2 DEF Inv, TypeInv, TypeOK, Lbs
    <2>4. Live = {} /\ Live' \subseteq {i}
      BY <2>1, <2>3 DEF Live, Existing
    <2>5. Live' = Live \/ Live' = Live \cup {i}
      BY <2>4
    <2> QED
      BY <2>1, <2>5, OwnedGrows, PhaseKept DEF Promise!ownedVars
  <1>2. CASE TagLoadBalancer
    <2>1. /\ pc = "tag" /\ ~Vanished /\ rec.id # NoId /\ api' = api
          /\ rec.id \in Lbs /\ lbs[rec.id] \in Instances
      BY <1>2, RecInstance DEF TagLoadBalancer, Inv, TypeInv, TypeOK
    <2> DEFINE x == [lbs[rec.id] EXCEPT !.tag = TRUE, !.released = FALSE]
    <2>2. x \in Instances /\ x.name = lbs[rec.id].name /\ ~x.released
      BY <2>1 DEF Instances
    <2>3. lbs' = [lbs EXCEPT ![rec.id] = x]
      BY <1>2, <2>1 DEF TagLoadBalancer, Inv, TypeInv, TypeOK, Instances
    <2> HIDE DEF x
    <2> QED
      BY <2>1, <2>2, <2>3, OwnedWrite
  <1>3. ASSUME NEW okTag \in BOOLEAN, NEW okAttr \in BOOLEAN, UpdateWith(okTag, okAttr)
        PROVE  UNCHANGED Promise!ownedVars \/ Promise!OwnedNext
    <2>1. /\ pc = "update" /\ ~Vanished /\ rec.id # NoId /\ api' = api
          /\ rec \in Reqs /\ rec.svc \in Services
          /\ rec.id \in Lbs /\ lbs[rec.id] \in Instances
      BY <1>3, RecInstance DEF UpdateWith, Inv, TypeInv, TypeOK
    <2> DEFINE x == Updated(lbs[rec.id], rec.svc, okTag, okAttr)
    <2>2. rec.svc.spec.name = "" /\ rec.svc.spec.cfg \in Cfgs
      BY <2>1, PlainFacts DEF Services, Cfgs
    <2>3. x \in Instances /\ x.name = lbs[rec.id].name
      BY <2>1, <2>2, UpdatedType
    <2>4. x.released => lbs[rec.id].released
      BY <2>1, UpdatedReleased
    <2>5. lbs' = [lbs EXCEPT ![rec.id] = x]
      BY <1>3 DEF UpdateWith
    <2> HIDE DEF x
    <2> QED
      BY <2>1, <2>3, <2>4, <2>5, OwnedWrite
  <1> QED
    BY <1>1, <1>2, <1>3 DEF UpdateLoadBalancer, UpdateLoadBalancerPartly

\* Every step is a step of OwnedResource or leaves its state alone.
LEMMA OwnedStep ==
    ASSUME PlainService, Inv, DeletingHeld, [Next]_vars
    PROVE  UNCHANGED Promise!ownedVars \/ Promise!OwnedNext
  <1>1. CASE UserEdit \/ UserDelete \/ AddFinalizers \/ RemoveFinalizers
    BY <1>1, OwnedService
  <1>2. CASE \/ CreateLoadBalancer \/ TagLoadBalancer
             \/ UpdateLoadBalancer \/ UpdateLoadBalancerPartly
    BY <1>2, OwnedInstance
  <1>3. CASE api' = api /\ Live' \subseteq Live
    BY <1>3, OwnedShrinks, PhaseKept DEF Promise!OwnedNext
  <1>4. CASE api' = api /\ lbs' = lbs
    BY <1>3, <1>4, UnchangedInstances, SameInstancesFacts
  <1>5. CASE StatusWork
    <2>1. /\ lbs' = lbs
          /\ api = Gone => api' = Gone
          /\ api # Gone => /\ api' # Gone
                           /\ api'.fin = api.fin /\ api'.deleting = api.deleting
      BY <1>5, BookkeepingStep, NoneAssumption DEF Inv
    <2>2. Live' = Live
      BY <2>1, UnchangedInstances, SameInstancesFacts
    <2>3. Phase' = Phase /\ HasFinalizer(api)' = HasFinalizer(api)
      BY <2>1 DEF Phase, HasFinalizer
    <2> QED
      BY <2>2, <2>3 DEF Promise!ownedVars
  <1>6. CASE ConsoleDelete
    <2>1. PICK i \in Lbs : lbs' = [lbs EXCEPT ![i] = NoLb]
      BY <1>6 DEF ConsoleDelete
    <2>2. Live' \subseteq Live
      BY <2>1 DEF Live, Existing, Inv, TypeInv, TypeOK, Lbs
    <2> QED
      BY <1>3, <1>6, <2>2 DEF ConsoleDelete
  <1>7. CASE DeleteLoadBalancer
    <2>1. api' = api
      BY <1>7 DEF DeleteLoadBalancer
    <2>2. Live' = {}
      BY <1>7, DeleteLeavesNone
    <2> QED
      BY <1>3, <2>1, <2>2
  <1>8. CASE ResourceWork
    <2>1. api' = api
      BY <1>8, ResourceStep DEF Inv
    <2>2. Live' = Live
      BY <1>8, ResourceInstances, SameInstancesFacts
    <2> QED
      BY <1>3, <2>1, <2>2
  <1>9. CASE \/ BackendEvent \/ BackendEventLost \/ WatchEvent \/ Restart \/ Reconcile
             \/ BuildAndFind \/ LoadBalancerMissing \/ ReconcileErr \/ StepFails
             \/ UNCHANGED vars
    BY <1>4, <1>9 DEF BackendEvent, BackendEventLost, WatchEvent, Restart, Reconcile, BuildAndFind,
       LoadBalancerMissing, ReconcileErr, StepFails, vars
  <1> QED
    BY <1>1, <1>2, <1>5, <1>6, <1>7, <1>8, <1>9
       DEF Next, User, ReconcileStep, Fault, ResourceWork, StatusWork

\* The controller implements OwnedResource for a plain service, in every interleaving
\* with edits, deletion, restarts and failed calls: an instance is made
\* only under the finalizer, and the finalizer is let go only when none is left.
THEOREM PlainKeepsPromise == PlainService /\ Spec => KeepsPromise
  <1> SUFFICES ASSUME PlainService PROVE Spec => KeepsPromise
    OBVIOUS
  <1>1. Init => Inv /\ DeletingHeld /\ Promise!OwnedInit
    <2> SUFFICES ASSUME Init PROVE Inv /\ DeletingHeld /\ Promise!OwnedInit
      OBVIOUS
    <2>1. Inv
      BY InitInv
    <2>2. api # Gone /\ ~api.deleting /\ ~api.fin
      <3>1. PICK s \in Specs : api = NewService(s)
        BY DEF Init
      <3>2. NewService(s) \in Services
        BY DEF NewService, Services
      <3> QED
        BY <3>1, <3>2, NoneAssumption DEF NewService
    <2>3. Existing = {} /\ Live = {}
      BY IdsAssumption DEF Init, Existing, Lbs, Live
    <2> QED
      BY <2>1, <2>2, <2>3 DEF DeletingHeld, Promise!OwnedInit, Phase, HasFinalizer
  <1>2. Inv /\ DeletingHeld /\ [Next]_vars => Inv' /\ DeletingHeld'
    BY NextInv, NextDeletingHeld DEF Inv
  <1>3. Inv /\ DeletingHeld /\ [Next]_vars => [Promise!OwnedNext]_(Promise!ownedVars)
    BY OwnedStep
  <1> QED
    BY <1>1, <1>2, <1>3, PTL DEF Spec, KeepsPromise, Promise!OwnedSpec

\* What holds of the controller holds of the behaviours of ClbServiceLive, in which the
\* user and the faults may stop: those only restrict it.
THEOREM ClbLiveIsClb == LiveSpec => Spec
  <1>1. LiveInit => Init
    BY DEF LiveInit
  <1>2. [LiveNext]_liveVars => [Next]_vars
    BY DEF LiveNext, liveVars, Next, Rest, Work
  <1> QED
    BY <1>1, <1>2, PTL DEF LiveSpec, Spec
=============================================================================
