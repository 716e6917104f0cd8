----------------------------- MODULE NlbProofs -----------------------------
(***************************************************************************)
(* Proofs about NlbService, for every set of ports, groups, instances and  *)
(* versions of the service: the types, that nothing is orphaned, what a    *)
(* listener is pointed at, what stays the user's, and the promise of       *)
(* OwnedResource.                                                          *)
(***************************************************************************)
EXTENDS NlbServiceLive, WellFoundedInduction, TLAPS

\* What the reconcile has read and what its path says of it.  A hash label is only
\* written for a version that needs an NLB, so that a cleanup never skips the
\* deletion of the instance.
ReadInv ==
    /\ svc.label # NoLabel => svc.label.need = "nlb"
    /\ rec # NoRec =>
          /\ rec.svc.label # NoLabel => rec.svc.label.need = "nlb"
          /\ rec.svc.spec.user = svc.spec.user
          /\ rec.pc # "fin" => svc.fin
          /\ rec.pc \in {"off", "delete", "wait", "untag", "unfin"} => Deleting
          /\ rec.pc \in {"fin", "create", "tag", "attr"} => ~Deleting
          /\ rec.pc \in {"off", "delete", "wait", "untag", "create", "tag"} => ~rec.svc.spec.user
          /\ rec.pc \in {"off", "delete", "wait", "untag", "tag"} => rec.lb \in LbIds
          /\ rec.pc \in {"fin", "find"} => rec.lb = NoLb
          /\ rec.lb = UserLb => rec.svc.spec.user

\* At most one instance is made, none for a service on the user's.
InstInv ==
    /\ \A i, j \in LbIds : Found(i) /\ Found(j) => i = j
    /\ svc.spec.user => \A i \in LbIds : ~Found(i)
    /\ Found(UserLb) => ~lbs[UserLb].deleting
    /\ At("create") => \A i \in LbIds : ~Found(i)

\* A cleanup that is past the instance has left none, one that is past the groups
\* no group; in between it has seen all there are.
LeftInv ==
    rec # NoRec /\ Deleting =>
       /\ rec.pc \in {"wait", "list", "groups", "listeners", "clean", "label", "status", "unfin"}
             => OwnLbs = {}
       /\ rec.pc \in {"groups", "listeners", "clean"} => \A g \in OwnGroups : rec.seen[g] # NoGroup
       /\ rec.pc \in {"label", "status", "unfin"} => (Found(UserLb) => OwnGroups = {})

\* The groups are what the reconcile takes them to be, apart from a server that the
\* user adds and unless a call for one has failed.
SeenInv ==
    rec # NoRec =>
       \A g \in GroupIds :
          rec.seen[g] # NoGroup =>
             /\ sgs[g] # NoGroup
             /\ UserServer \in rec.seen[g].servers => UserServer \in sgs[g].servers
             /\ rec.failed = {} => sgs[g].servers \ {UserServer} = rec.seen[g].servers \ {UserServer}

\* Each port has its group, or none yet; the listeners come when all are filled.
LocalInv ==
    rec # NoRec =>
       /\ rec.pc \in {"groups", "listeners", "clean"} => DOMAIN rec.local = LocalPorts
       /\ rec.pc \in {"groups", "listeners"} =>
             \A p \in LocalPorts : rec.local[p] # NoGroup => rec.seen[rec.local[p]] # NoGroup
       /\ rec.pc = "listeners" =>
             /\ rec.failed = {}
             /\ \A p \in LocalPorts : /\ rec.local[p] # NoGroup
                                      /\ rec.seen[rec.local[p]].servers \ {UserServer} = rec.servers
             /\ Found(rec.lb) => rec.lis = lbs[rec.lb].lis

NlbInv == TypeOK /\ ReadInv /\ InstInv /\ LeftInv /\ SeenInv /\ LocalInv /\ NoOrphanNlb
-----------------------------------------------------------------------------

\* The least of a nonempty set of numbers is one of them.
LEMMA SmallestIn ==
    ASSUME NEW S, S \subseteq Nat, S # {}
    PROVE  Smallest(S) \in S
  <1>1. PICK x \in S : \A y \in S : <<y, x>> \notin OpToRel(<, Nat)
    BY WFMin, NatLessThanWellFounded
  <1>2. \A y \in S : ~(y < x)
    BY <1>1 DEF OpToRel
  <1>3. \E z \in S : \A y \in S : z <= y
    BY <1>2
  <1> QED
    BY <1>3 DEF Smallest

\* The fields of the reconcile in progress.
LEMMA RecFacts ==
    ASSUME TypeOK, rec # NoRec
    PROVE  /\ rec \in Recs
           /\ rec.pc \in Steps /\ rec.svc \in Services /\ rec.servers \subseteq Backends
           /\ rec.lb \in Lbs \cup {NoLb} /\ rec.err \in BOOLEAN
           /\ rec.seen \in [GroupIds -> Groups \cup {NoGroup}]
           /\ rec.local \in Locals
           /\ rec.local \in [DOMAIN rec.local -> GroupIds \cup {NoGroup}]
           /\ rec.failed \subseteq Ports
           /\ rec.lis \in [Ports -> GroupIds \cup {UserGroup, NoLis}]
  <1>1. rec \in Recs
    BY DEF TypeOK
  <1> QED
    BY <1>1 DEF Recs, Locals

\* The version the reconcile works from.
LEMMA SpecFacts ==
    ASSUME TypeOK, rec # NoRec
    PROVE  /\ Spec0 \in Specs /\ Spec0.need \in {"nlb", "none"} /\ Spec0.attr \in Attrs
           /\ Spec0.user \in BOOLEAN /\ Spec0 # NoLabel
           /\ LocalPorts \subseteq DOMAIN Spec0.ports /\ DOMAIN Spec0.ports \subseteq Ports
           /\ LocalPorts \subseteq Ports
           /\ \A p \in LocalPorts : Spec0.ports[p] \in Kinds
  <1>1. Spec0 \in Specs
    BY RecFacts DEF Services, Spec0
  <1>2. LocalPorts \subseteq DOMAIN Spec0.ports
    BY DEF LocalPorts
  <1> QED
    BY <1>1, <1>2, NlbAssumption

\* A service that is to be cleaned up is never taken for unchanged.
LEMMA DeletingChanged ==
    ASSUME TypeOK, ReadInv, rec # NoRec, Deleting
    PROVE  Changed
  <1>1. rec.svc.label # NoLabel => rec.svc.label.need = "nlb"
    BY DEF ReadInv
  <1>2. rec.svc.spec # NoLabel
    BY SpecFacts DEF Spec0
  <1> QED
    BY <1>1, <1>2 DEF Deleting, NeedDeleteLoadBalancer, Changed, IsServiceHashChanged

\* A step of the reconcile that changes nothing of it but the place.
LEMMA GotoFacts ==
    ASSUME TypeOK, rec # NoRec, NEW x \in Steps, rec' = [rec EXCEPT !.pc = x]
    PROVE  /\ rec' \in Recs /\ rec' # NoRec /\ rec'.pc = x
           /\ rec'.svc = rec.svc /\ rec'.servers = rec.servers /\ rec'.lb = rec.lb
           /\ rec'.err = rec.err /\ rec'.seen = rec.seen /\ rec'.local = rec.local
           /\ rec'.failed = rec.failed /\ rec'.lis = rec.lis
  <1>1. rec \in Recs
    BY DEF TypeOK
  <1> QED
    BY <1>1, NoneAssumption DEF Recs

\* A step that goes on with another instance, or none.
LEMMA AtLbFacts ==
    ASSUME rec \in Recs, NEW x \in Steps, NEW i \in Lbs \cup {NoLb},
           rec' = [rec EXCEPT !.pc = x, !.lb = i]
    PROVE  /\ rec' \in Recs /\ rec' # NoRec
           /\ rec'.pc = x /\ rec'.svc = rec.svc /\ rec'.servers = rec.servers
           /\ rec'.lb = i /\ rec'.err = rec.err /\ rec'.seen = rec.seen
           /\ rec'.local = rec.local /\ rec'.failed = rec.failed /\ rec'.lis = rec.lis
  <1>1. rec' \in Recs
    BY DEF Recs
  <1>2. rec'.pc = x /\ rec'.svc = rec.svc /\ rec'.servers = rec.servers
    BY DEF Recs
  <1>3. rec'.lb = i /\ rec'.err = rec.err /\ rec'.seen = rec.seen
    BY DEF Recs
  <1>4. rec'.local = rec.local /\ rec'.failed = rec.failed /\ rec'.lis = rec.lis
    BY DEF Recs
  <1> QED
    BY <1>1, <1>2, <1>3, <1>4, NoneAssumption

\* A step that has found its instance, or that there is none.
LEMMA FoundFacts ==
    ASSUME rec \in Recs, NEW x \in Steps, NEW i \in Lbs \cup {NoLb},
           rec' = [rec EXCEPT !.lb = i, !.pc = x]
    PROVE  /\ rec' \in Recs /\ rec' # NoRec
           /\ rec'.pc = x /\ rec'.svc = rec.svc /\ rec'.servers = rec.servers
           /\ rec'.lb = i /\ rec'.err = rec.err /\ rec'.seen = rec.seen
           /\ rec'.local = rec.local /\ rec'.failed = rec.failed /\ rec'.lis = rec.lis
  <1>1. rec' \in Recs
    BY DEF Recs
  <1>2. rec'.pc = x /\ rec'.svc = rec.svc /\ rec'.servers = rec.servers
    BY DEF Recs
  <1>3. rec'.lb = i /\ rec'.err = rec.err /\ rec'.seen = rec.seen
    BY DEF Recs
  <1>4. rec'.local = rec.local /\ rec'.failed = rec.failed /\ rec'.lis = rec.lis
    BY DEF Recs
  <1> QED
    BY <1>1, <1>2, <1>3, <1>4, NoneAssumption

\* A step that goes on in spite of an error.
LEMMA ErrFacts ==
    ASSUME rec \in Recs, NEW x \in Steps,
           rec' = [rec EXCEPT !.pc = x, !.err = TRUE]
    PROVE  /\ rec' \in Recs /\ rec' # NoRec
           /\ rec'.pc = x /\ rec'.svc = rec.svc /\ rec'.servers = rec.servers
           /\ rec'.lb = rec.lb /\ rec'.err = TRUE /\ rec'.seen = rec.seen
           /\ rec'.local = rec.local /\ rec'.failed = rec.failed /\ rec'.lis = rec.lis
  <1>1. rec' \in Recs
    BY DEF Recs
  <1>2. rec'.pc = x /\ rec'.svc = rec.svc /\ rec'.servers = rec.servers
    BY DEF Recs
  <1>3. rec'.lb = rec.lb /\ rec'.err = TRUE /\ rec'.seen = rec.seen
    BY DEF Recs
  <1>4. rec'.local = rec.local /\ rec'.failed = rec.failed /\ rec'.lis = rec.lis
    BY DEF Recs
  <1> QED
    BY <1>1, <1>2, <1>3, <1>4, NoneAssumption

\* The listeners are read.
LEMMA ListFacts ==
    ASSUME rec \in Recs, NEW l \in [Ports -> GroupIds \cup {UserGroup, NoLis}], "listeners" \in Steps,
           rec' = [rec EXCEPT !.pc = "listeners", !.lis = l]
    PROVE  /\ rec' \in Recs /\ rec' # NoRec
           /\ rec'.pc = "listeners" /\ rec'.svc = rec.svc /\ rec'.servers = rec.servers
           /\ rec'.lb = rec.lb /\ rec'.err = rec.err /\ rec'.seen = rec.seen
           /\ rec'.local = rec.local /\ rec'.failed = rec.failed /\ rec'.lis = l
  <1>1. rec' \in Recs
    BY DEF Recs
  <1>2. rec'.pc = "listeners" /\ rec'.svc = rec.svc /\ rec'.servers = rec.servers
    BY DEF Recs
  <1>3. rec'.lb = rec.lb /\ rec'.err = rec.err /\ rec'.seen = rec.seen
    BY DEF Recs
  <1>4. rec'.local = rec.local /\ rec'.failed = rec.failed /\ rec'.lis = l
    BY DEF Recs
  <1> QED
    BY <1>1, <1>2, <1>3, <1>4, NoneAssumption

\* The groups are read.
LEMMA SeenFacts ==
    ASSUME rec \in Recs, NEW x \in Steps, NEW l \in Locals,
           NEW seen \in [GroupIds -> Groups \cup {NoGroup}],
           rec' = [rec EXCEPT !.pc = x, !.seen = seen, !.local = l]
    PROVE  /\ rec' \in Recs /\ rec' # NoRec
           /\ rec'.pc = x /\ rec'.svc = rec.svc /\ rec'.servers = rec.servers
           /\ rec'.lb = rec.lb /\ rec'.err = rec.err /\ rec'.seen = seen
           /\ rec'.local = l /\ rec'.failed = rec.failed /\ rec'.lis = rec.lis
  <1>1. rec' \in Recs
    BY DEF Recs
  <1>2. rec'.pc = x /\ rec'.svc = rec.svc /\ rec'.servers = rec.servers
    BY DEF Recs
  <1>3. rec'.lb = rec.lb /\ rec'.err = rec.err /\ rec'.seen = seen
    BY DEF Recs
  <1>4. rec'.local = l /\ rec'.failed = rec.failed /\ rec'.lis = rec.lis
    BY DEF Recs
  <1> QED
    BY <1>1, <1>2, <1>3, <1>4, NoneAssumption

\* A reconcile that has ended leaves only the service and the cloud to look at.
LEMMA ReturnInv ==
    ASSUME NlbInv, rec' = NoRec, queued' \in BOOLEAN, UNCHANGED <<svc, past, eps, lbs, sgs>>
    PROVE  NlbInv'
  <1>1. TypeOK'
    BY DEF NlbInv, TypeOK
  <1>2. ReadInv' /\ InstInv' /\ LeftInv' /\ SeenInv' /\ LocalInv'
    BY DEF NlbInv, ReadInv, InstInv, LeftInv, SeenInv, LocalInv, Found, At
  <1>3. NoOrphanNlb'
    BY DEF NlbInv, NoOrphanNlb, OwnLbs, OwnGroups, Found
  <1> QED
    BY <1>1, <1>2, <1>3 DEF NlbInv

-----------------------------------------------------------------------------
(* What the users and the cloud do.                                        *)

\* Instances go, a group gets the user's server, and the service keeps its
\* finalizer, its label and the use of the user's instance.
WorldStep ==
    /\ svc' \in Services /\ svc'.fin = svc.fin /\ svc'.label = svc.label
    /\ svc'.spec.user = svc.spec.user
    /\ past' \subseteq Specs /\ eps' \in 1 .. Len(Scales) /\ queued' \in BOOLEAN
    /\ lbs' \in [Lbs -> Instances \cup {NoInst}]
    /\ \A i \in Lbs : lbs'[i] \in {lbs[i], NoInst}
    /\ sgs' \in [GroupIds -> Groups \cup {NoGroup}]
    /\ \A g \in GroupIds :
          /\ sgs'[g] = NoGroup <=> sgs[g] = NoGroup
          /\ sgs[g] # NoGroup => /\ sgs'[g].tag = sgs[g].tag
                                 /\ sgs[g].servers \subseteq sgs'[g].servers
                                 /\ sgs'[g].servers \ {UserServer} = sgs[g].servers \ {UserServer}

LEMMA WorldInv ==
    ASSUME NlbInv, WorldStep, rec' = rec
    PROVE  NlbInv' /\ OwnLbs' \subseteq OwnLbs /\ OwnGroups' \subseteq OwnGroups
                   /\ (Found(UserLb)' => Found(UserLb))
  <1>1. TypeOK'
    BY DEF NlbInv, TypeOK, WorldStep
  <1>2. ReadInv'
    BY DEF NlbInv, ReadInv, WorldStep, Deleting
  <1>3. \A i \in Lbs : Found(i)' => Found(i) /\ lbs'[i] = lbs[i]
    BY DEF WorldStep, Found
  <1>4. UserLb \in Lbs /\ LbIds \subseteq Lbs
    BY DEF Lbs
  <1>5. InstInv'
    <2>1. svc'.spec.user = svc.spec.user
      BY DEF WorldStep
    <2>2. At("create")' => At("create")
      BY DEF At
    <2> QED
      BY <1>3, <1>4, <2>1, <2>2 DEF NlbInv, InstInv, Found
  <1>6. OwnLbs' \subseteq OwnLbs /\ (Found(UserLb)' => Found(UserLb))
    BY <1>3, <1>4 DEF OwnLbs
  <1>7. OwnGroups' \subseteq OwnGroups
    BY DEF OwnGroups, WorldStep
  <1>8. LeftInv'
    BY <1>6, <1>7 DEF NlbInv, LeftInv, Deleting
  <1>9. SeenInv'
    BY DEF NlbInv, SeenInv, WorldStep
  <1>10. LocalInv'
    <2>1. rec # NoRec /\ rec.pc = "listeners" => rec.lb \in Lbs
      BY RecFacts DEF NlbInv, TypeOK
    <2>2. rec # NoRec /\ rec.pc = "listeners" /\ Found(rec.lb)' => Found(rec.lb) /\ lbs'[rec.lb] = lbs[rec.lb]
      BY <1>3, <2>1 DEF Found
    <2> QED
      BY <2>2 DEF NlbInv, LocalInv, LocalPorts, Deleting, Spec0
  <1>11. NoOrphanNlb'
    BY <1>6, <1>7 DEF NlbInv, NoOrphanNlb, WorldStep
  <1> QED
    BY <1>1, <1>2, <1>5, <1>6, <1>7, <1>8, <1>9, <1>10, <1>11 DEF NlbInv

LEMMA JobDoneWorld ==
    ASSUME NlbInv, JobDone
    PROVE  WorldStep /\ rec' = rec
  <1>1. PICK i \in Lbs : lbs' = [lbs EXCEPT ![i] = NoInst]
    BY DEF JobDone
  <1> QED
    BY <1>1 DEF JobDone, WorldStep, NlbInv, TypeOK

LEMMA EditWorld ==
    ASSUME NlbInv, Edit
    PROVE  WorldStep /\ rec' = rec
  <1>1. PICK s \in Specs : /\ s.user = svc.spec.user /\ svc' = [svc EXCEPT !.spec = s]
                           /\ past' = past \cup {s}
    BY DEF Edit
  <1>2. queued' \in BOOLEAN
    BY DEF Edit, Enqueue, NlbInv, TypeOK
  <1>3. svc' \in Services /\ svc'.fin = svc.fin /\ svc'.label = svc.label /\ svc'.spec = s
    BY <1>1 DEF NlbInv, TypeOK, Services
  <1> QED
    BY <1>1, <1>2, <1>3 DEF Edit, WorldStep, NlbInv, TypeOK

LEMMA DeleteServiceWorld ==
    ASSUME NlbInv, DeleteService
    PROVE  WorldStep /\ rec' = rec
  <1>1. svc' = [svc EXCEPT !.phase = IF svc.fin THEN "deleting" ELSE "gone"]
    BY DEF DeleteService
  <1>2. queued' \in BOOLEAN
    BY DEF DeleteService, Enqueue, NlbInv, TypeOK
  <1>3. svc' \in Services /\ svc'.fin = svc.fin /\ svc'.label = svc.label /\ svc'.spec = svc.spec
    BY <1>1 DEF NlbInv, TypeOK, Services
  <1> QED
    BY <1>2, <1>3 DEF DeleteService, WorldStep, NlbInv, TypeOK

LEMMA ScaleWorld ==
    ASSUME NlbInv, Scale \/ ScaleLost
    PROVE  WorldStep /\ rec' = rec
  <1>1. queued' \in BOOLEAN
    BY DEF Scale, ScaleLost, NlbInv, TypeOK
  <1>2. eps' \in 1 .. Len(Scales)
    <2>1. Len(Scales) \in Nat
      BY NlbAssumption
    <2> QED
      BY <2>1 DEF Scale, ScaleLost, Rescale, NlbInv, TypeOK
  <1> QED
    BY <1>1, <1>2 DEF Scale, ScaleLost, Rescale, WorldStep, NlbInv, TypeOK

LEMMA ConsoleAddServerWorld ==
    ASSUME NlbInv, ConsoleAddServer
    PROVE  WorldStep /\ rec' = rec
  <1>1. PICK g \in GroupIds : /\ sgs[g] # NoGroup
                              /\ sgs' = [sgs EXCEPT ![g].servers = @ \cup {UserServer}]
    BY DEF ConsoleAddServer
  <1>2. sgs[g] \in Groups
    BY <1>1 DEF NlbInv, TypeOK
  <1> DEFINE new == [sgs[g] EXCEPT !.servers = @ \cup {UserServer}]
  <1>3. /\ new \in Groups /\ new.tag = sgs[g].tag
        /\ new.servers = sgs[g].servers \cup {UserServer}
    BY <1>2 DEF Groups
  <1>4. new # NoGroup
    BY <1>3, NoneAssumption
  <1>5. sgs' = [sgs EXCEPT ![g] = new]
    BY <1>1 DEF NlbInv, TypeOK
  <1> HIDE DEF new
  <1>6. sgs \in [GroupIds -> Groups \cup {NoGroup}]
    BY DEF NlbInv, TypeOK
  <1>7. sgs' \in [GroupIds -> Groups \cup {NoGroup}] /\ sgs'[g] = new
        /\ \A h \in GroupIds \ {g} : sgs'[h] = sgs[h]
    BY <1>3, <1>5, <1>6
  <1> QED
    BY <1>1, <1>3, <1>4, <1>7 DEF ConsoleAddServer, WorldStep, NlbInv, TypeOK

LEMMA ConsoleDeleteLbWorld ==
    ASSUME NlbInv, ConsoleDeleteLb
    PROVE  WorldStep /\ rec' = rec
  BY DEF ConsoleDeleteLb, WorldStep, NlbInv, TypeOK, Lbs

-----------------------------------------------------------------------------
(* The reconcile: the service and the instance.                            *)

LEMMA BeginInv ==
    ASSUME NlbInv, Begin
    PROVE  NlbInv'
  <1> DEFINE new == [pc |-> IF NeedDeleteLoadBalancer(svc) \/ svc.fin THEN "find" ELSE "fin",
                     svc |-> svc, servers |-> LocalServers, lb |-> NoLb, err |-> FALSE,
                     seen |-> NoGroups, local |-> NoPorts, failed |-> {}, lis |-> NoListeners]
  <1>1. CASE rec' = NoRec
    BY <1>1, ReturnInv DEF Begin
  <1>2. CASE ~(svc.phase = "gone" \/ (NeedDeleteLoadBalancer(svc) /\ ~svc.fin)) /\ rec' = new
    <2>1. svc \in Services
      BY DEF NlbInv, TypeOK
    <2>2. LocalServers \subseteq Backends
      BY NlbAssumption DEF NlbInv, TypeOK, LocalServers
    <2>3. NoGroups \in [GroupIds -> Groups \cup {NoGroup}] /\ \A g \in GroupIds : NoGroups[g] = NoGroup
      BY DEF NoGroups
    <2>4. NoListeners \in [Ports -> GroupIds \cup {UserGroup, NoLis}]
      BY DEF NoListeners
    <2>5. DOMAIN NoPorts = {} /\ NoPorts \in [{} -> GroupIds \cup {NoGroup}]
      BY DEF NoPorts
    <2>6. NoPorts \in Locals
      BY <2>5 DEF Locals
    <2>7. new.pc \in {"find", "fin"} /\ (new.pc = "fin" <=> ~(NeedDeleteLoadBalancer(svc) \/ svc.fin))
      OBVIOUS
    <2>8. /\ new.svc = svc /\ new.servers = LocalServers /\ new.lb = NoLb /\ new.err = FALSE
          /\ new.seen = NoGroups /\ new.local = NoPorts /\ new.failed = {}
          /\ new.lis = NoListeners
      OBVIOUS
    <2>9. new \in Recs
      BY <2>1, <2>2, <2>3, <2>4, <2>6 DEF Recs, Steps
    <2> HIDE DEF new
    <2>10. TypeOK'
      BY <1>2, <2>5, <2>7, <2>8, <2>9 DEF Begin, NlbInv, TypeOK
    <2>11. ReadInv'
      <3>1. NoLb # UserLb
        BY NlbAssumption
      <3> QED
        BY <1>2, <2>7, <2>8, <3>1 DEF Begin, NlbInv, ReadInv, Deleting, NeedDeleteLoadBalancer
    <2>12. InstInv'
      BY <1>2, <2>7 DEF Begin, NlbInv, InstInv, Found, At
    <2>13. LeftInv' /\ LocalInv'
      BY <1>2, <2>7 DEF LeftInv, LocalInv
    <2>14. SeenInv'
      BY <1>2, <2>8, <2>3 DEF SeenInv
    <2>15. NoOrphanNlb'
      BY DEF Begin, NlbInv, NoOrphanNlb, OwnLbs, OwnGroups, Found
    <2> QED
      BY <2>10, <2>11, <2>12, <2>13, <2>14, <2>15 DEF NlbInv
  <1> QED
    BY <1>1, <1>2 DEF Begin

LEMMA AddFinalizersInv ==
    ASSUME NlbInv, AddFinalizers
    PROVE  NlbInv'
  <1>1. rec # NoRec /\ rec.pc = "fin" /\ svc' = [svc EXCEPT !.fin = TRUE]
    BY DEF AddFinalizers, At
  <1>2. /\ rec' \in Recs /\ rec' # NoRec /\ rec'.pc = "find"
        /\ rec'.svc = rec.svc /\ rec'.lb = rec.lb /\ rec'.seen = rec.seen
        /\ rec'.local = rec.local /\ rec'.failed = rec.failed
    BY <1>1, GotoFacts DEF AddFinalizers, Goto, Steps, NlbInv
  <1>3. svc' \in Services /\ svc'.spec = svc.spec /\ svc'.label = svc.label /\ svc'.fin = TRUE
    BY <1>1 DEF NlbInv, TypeOK, Services
  <1>4. TypeOK'
    BY <1>1, <1>2, <1>3 DEF AddFinalizers, NlbInv, TypeOK
  <1>5. ReadInv'
    BY <1>1, <1>2, <1>3 DEF NlbInv, ReadInv
  <1>6. InstInv'
    BY <1>2, <1>3 DEF AddFinalizers, NlbInv, InstInv, Found, At
  <1>7. LeftInv' /\ LocalInv'
    BY <1>2 DEF LeftInv, LocalInv
  <1>8. SeenInv'
    BY <1>1, <1>2 DEF AddFinalizers, NlbInv, SeenInv
  <1>9. NoOrphanNlb'
    BY <1>3 DEF NoOrphanNlb
  <1> QED
    BY <1>4, <1>5, <1>6, <1>7, <1>8, <1>9 DEF NlbInv

\* What the search finds.
LEMMA CandidateFacts ==
    ASSUME NlbInv, At("find")
    PROVE  /\ \A i \in Candidates : IF rec.svc.spec.user THEN i = UserLb ELSE i \in LbIds /\ Found(i)
           /\ Candidates = {} => ~rec.svc.spec.user /\ \A i \in LbIds : ~Found(i)
  BY DEF Candidates, IsUserManaged

LEMMA FindInv ==
    ASSUME NlbInv, Find
    PROVE  NlbInv'
  <1>1. rec # NoRec /\ rec.pc = "find" /\ rec \in Recs /\ At("find")
    BY RecFacts DEF Find, At, NlbInv
  <1>2. PICK i \in Lbs \cup {NoLb} :
           /\ rec' = [rec EXCEPT !.lb = i, !.pc = AfterFind(i)]
           /\ \/ i \in Candidates /\ Found(i)
              \/ Candidates = {} /\ i = NoLb
    <2>1. CASE Candidates = {} /\ rec' = [rec EXCEPT !.pc = AfterFind(NoLb)]
      <3>1. rec.lb = NoLb
        BY <1>1 DEF NlbInv, ReadInv
      <3> QED
        BY <1>1, <2>1, <3>1 DEF Recs
    <2>2. ASSUME NEW i \in Candidates, Found(i), rec' = [rec EXCEPT !.lb = i, !.pc = AfterFind(i)]
          PROVE  i \in Lbs
      BY <1>1, <2>2, CandidateFacts DEF Lbs
    <2> QED
      BY <2>1, <2>2 DEF Find
  <1>3. /\ rec' \in Recs /\ rec' # NoRec /\ rec'.pc = AfterFind(i) /\ rec'.lb = i
        /\ rec'.svc = rec.svc /\ rec'.servers = rec.servers /\ rec'.err = rec.err
        /\ rec'.seen = rec.seen /\ rec'.local = rec.local /\ rec'.failed = rec.failed
    <2>1. AfterFind(i) \in Steps
      BY DEF AfterFind, Steps
    <2> QED
      BY <1>1, <1>2, <2>1, FoundFacts
  <1>4. AfterFind(i) \in {"list", "off", "create", "attr"}
    BY DEF AfterFind
  <1>5. /\ i = NoLb => ~rec.svc.spec.user /\ \A j \in LbIds : ~Found(j)
        /\ i # NoLb => Found(i) /\ IF rec.svc.spec.user THEN i = UserLb ELSE i \in LbIds
    <2>1. NoLb \notin LbIds /\ NoLb # UserLb
      BY NlbAssumption
    <2> QED
      BY <1>1, <1>2, <2>1, CandidateFacts
  <1>6. /\ AfterFind(i) = "off" => Deleting /\ ~rec.svc.spec.user /\ i # NoLb
        /\ AfterFind(i) \in {"create", "attr"} => ~Deleting
        /\ AfterFind(i) = "create" => i = NoLb
        /\ AfterFind(i) = "attr" => i # NoLb
        /\ AfterFind(i) = "list" /\ Changed /\ Deleting => rec.svc.spec.user \/ i = NoLb
    BY DEF AfterFind, IsUserManaged
  <1>7. TypeOK'
    BY <1>1, <1>3, <1>4, <1>6 DEF Find, NlbInv, TypeOK
  <1>8. ReadInv'
    <2>1. UserLb \notin LbIds
      BY NlbAssumption
    <2> QED
      BY <1>1, <1>3, <1>4, <1>5, <1>6, <2>1 DEF Find, NlbInv, ReadInv, Deleting
  <1>9. InstInv'
    BY <1>3, <1>5, <1>6 DEF Find, NlbInv, InstInv, Found, At
  <1>10. LeftInv'
    <2>1. Deleting /\ rec'.pc = "list" => \A j \in LbIds : ~Found(j)
      <3>1. rec.svc.spec.user => \A j \in LbIds : ~Found(j)
        BY <1>1 DEF NlbInv, ReadInv, InstInv
      <3> QED
        BY <1>1, <1>3, <1>5, <1>6, <3>1, DeletingChanged DEF NlbInv
    <2>2. Deleting /\ rec'.pc = "list" => OwnLbs' = {}
      BY <2>1 DEF Find, OwnLbs, Found
    <2> QED
      BY <1>3, <1>4, <2>2 DEF LeftInv, Deleting
  <1>11. SeenInv'
    BY <1>1, <1>3 DEF Find, NlbInv, SeenInv
  <1>12. LocalInv'
    BY <1>3, <1>4 DEF LocalInv
  <1>13. NoOrphanNlb'
    BY DEF Find, NlbInv, NoOrphanNlb, OwnLbs, OwnGroups, Found
  <1> QED
    BY <1>7, <1>8, <1>9, <1>10, <1>11, <1>12, <1>13 DEF NlbInv

LEMMA FindNothingInv ==
    ASSUME NlbInv, FindNothing
    PROVE  NlbInv'
  <1>1. rec # NoRec /\ rec.pc = "find" /\ rec.svc.spec.user /\ ~Found(UserLb)
    BY DEF FindNothing, At, IsUserManaged
  <1>2. CASE ~Deleting
    BY <1>2, ReturnInv DEF FindNothing, ReturnErr
  <1>3. CASE Deleting
    <2>1. /\ rec' \in Recs /\ rec' # NoRec /\ rec'.pc = "label" /\ rec'.svc = rec.svc
          /\ rec'.seen = rec.seen /\ rec'.local = rec.local /\ rec'.failed = rec.failed
          /\ rec'.lb = rec.lb /\ UNCHANGED queued
      BY <1>1, <1>3, GotoFacts DEF FindNothing, Goto, Steps, NlbInv
    <2>2. TypeOK'
      BY <1>1, <2>1 DEF FindNothing, NlbInv, TypeOK
    <2>3. ReadInv'
      BY <1>1, <2>1 DEF FindNothing, NlbInv, ReadInv
    <2>4. InstInv'
      BY <2>1 DEF FindNothing, NlbInv, InstInv, Found, At
    <2>5. LeftInv'
      <3>1. \A j \in LbIds : ~Found(j)
        BY <1>1 DEF NlbInv, ReadInv, InstInv
      <3>2. OwnLbs' = {} /\ ~Found(UserLb)'
        BY <1>1, <3>1 DEF FindNothing, OwnLbs, Found
      <3> QED
        BY <2>1, <3>2 DEF LeftInv
    <2>6. SeenInv'
      BY <1>1, <2>1 DEF FindNothing, NlbInv, SeenInv
    <2>7. LocalInv'
      BY <2>1 DEF LocalInv
    <2>8. NoOrphanNlb'
      BY DEF FindNothing, NlbInv, NoOrphanNlb, OwnLbs, OwnGroups, Found
    <2> QED
      BY <2>2, <2>3, <2>4, <2>5, <2>6, <2>7, <2>8 DEF NlbInv
  <1> QED
    BY <1>2, <1>3

\* An instance is written.
LEMMA PutFacts ==
    ASSUME TypeOK, NEW i \in Lbs, NEW new \in Instances, lbs' = [lbs EXCEPT ![i] = new]
    PROVE  /\ lbs' \in [Lbs -> Instances \cup {NoInst}]
           /\ lbs'[i] = new /\ new # NoInst /\ Found(i)'
           /\ \A j \in Lbs \ {i} : lbs'[j] = lbs[j] /\ (Found(j)' <=> Found(j))
  BY NoneAssumption DEF TypeOK, Found

\* What is written of the instance on the way to its deletion.
LEMMA OffFacts ==
    ASSUME NlbInv, rec # NoRec, rec.pc \in {"off", "untag", "delete", "tag"}, Found(rec.lb)
    PROVE  /\ rec \in Recs /\ rec.lb \in LbIds /\ rec.lb \in Lbs /\ rec.lb # UserLb
           /\ UserLb \in Lbs /\ LbIds \subseteq Lbs
           /\ lbs[rec.lb] \in Instances
           /\ \A j \in LbIds : Found(j) => j = rec.lb
           /\ ~svc.spec.user
  <1>1. rec.lb \in LbIds
    BY DEF NlbInv, ReadInv
  <1>2. UserLb \notin LbIds
    BY NlbAssumption
  <1>3. \A j \in LbIds : Found(j) => j = rec.lb
    BY <1>1 DEF NlbInv, InstInv
  <1> QED
    BY <1>1, <1>2, <1>3, RecFacts DEF NlbInv, ReadInv, InstInv, Lbs, TypeOK, Found

LEMMA ProtectionOffInv ==
    ASSUME NlbInv, ProtectionOff
    PROVE  NlbInv'
  <1> DEFINE new == [lbs[rec.lb] EXCEPT !.prot = FALSE]
             x == IF Spec0.preserve THEN "untag" ELSE "delete"
  <1>1. /\ rec # NoRec /\ rec.pc = "off" /\ Found(rec.lb) /\ x \in Steps /\ x \in {"untag", "delete"}
        /\ lbs' = [lbs EXCEPT ![rec.lb] = new] /\ rec' = [rec EXCEPT !.pc = x]
    BY DEF ProtectionOff, At, Goto, Steps
  <1>2. new \in Instances /\ new.kept = lbs[rec.lb].kept /\ new.deleting = lbs[rec.lb].deleting
    BY <1>1, OffFacts DEF Instances
  <1> HIDE DEF new, x
  <1>3. /\ rec' \in Recs /\ rec' # NoRec /\ rec'.pc = x /\ rec'.svc = rec.svc
        /\ rec'.lb = rec.lb /\ rec'.seen = rec.seen /\ rec'.local = rec.local
        /\ rec'.failed = rec.failed
    BY <1>1, GotoFacts DEF NlbInv
  <1>4. /\ lbs' \in [Lbs -> Instances \cup {NoInst}]
        /\ lbs'[rec.lb] = new /\ new # NoInst
        /\ \A j \in Lbs \ {rec.lb} : lbs'[j] = lbs[j] /\ (Found(j)' <=> Found(j))
    BY <1>1, <1>2, OffFacts, PutFacts DEF NlbInv
  <1>5. TypeOK'
    BY <1>1, <1>3, <1>4 DEF ProtectionOff, NlbInv, TypeOK
  <1>6. ReadInv'
    BY <1>1, <1>3 DEF ProtectionOff, NlbInv, ReadInv, Deleting
  <1>7. InstInv'
    BY <1>1, <1>3, <1>4, OffFacts DEF ProtectionOff, NlbInv, InstInv, At
  <1>8. LeftInv' /\ LocalInv'
    BY <1>1, <1>3 DEF LeftInv, LocalInv
  <1>9. SeenInv'
    BY <1>1, <1>3 DEF ProtectionOff, NlbInv, SeenInv
  <1>10. NoOrphanNlb'
    BY <1>1 DEF ProtectionOff, NlbInv, NoOrphanNlb, ReadInv
  <1> QED
    BY <1>5, <1>6, <1>7, <1>8, <1>9, <1>10 DEF NlbInv

LEMMA UntagInv ==
    ASSUME NlbInv, Untag
    PROVE  NlbInv'
  <1> DEFINE new == [lbs[rec.lb] EXCEPT !.tag = FALSE, !.kept = TRUE]
  <1>1. /\ rec # NoRec /\ rec.pc = "untag" /\ Found(rec.lb)
        /\ rec' = [rec EXCEPT !.pc = "list", !.lb = NoLb]
    BY DEF Untag, At
  <1>2. new \in Instances /\ new.kept
    BY <1>1, OffFacts DEF Instances
  <1>3. lbs' = [lbs EXCEPT ![rec.lb] = new]
    BY <1>1, OffFacts DEF Untag, NlbInv, TypeOK, Instances
  <1> HIDE DEF new
  <1>4. /\ rec' \in Recs /\ rec' # NoRec /\ rec'.pc = "list" /\ rec'.lb = NoLb
        /\ rec'.svc = rec.svc /\ rec'.seen = rec.seen /\ rec'.local = rec.local
        /\ rec'.failed = rec.failed
    <2>1. "list" \in Steps /\ rec \in Recs
      BY <1>1, RecFacts DEF Steps, NlbInv
    <2> QED
      BY <1>1, <2>1, AtLbFacts
  <1>5. /\ lbs' \in [Lbs -> Instances \cup {NoInst}]
        /\ lbs'[rec.lb] = new /\ new # NoInst
        /\ \A j \in Lbs \ {rec.lb} : lbs'[j] = lbs[j] /\ (Found(j)' <=> Found(j))
    BY <1>1, <1>2, <1>3, OffFacts, PutFacts DEF NlbInv
  <1>6. TypeOK'
    BY <1>1, <1>4, <1>5 DEF Untag, NlbInv, TypeOK
  <1>7. ReadInv'
    <2>1. NoLb # UserLb
      BY NlbAssumption
    <2> QED
      BY <1>1, <1>4, <2>1 DEF Untag, NlbInv, ReadInv, Deleting
  <1>8. InstInv'
    BY <1>1, <1>4, <1>5, OffFacts DEF Untag, NlbInv, InstInv, At
  <1>9. LeftInv'
    <2>1. \A j \in LbIds : Found(j)' => lbs'[j].kept
      BY <1>1, <1>2, <1>5, OffFacts
    <2>2. OwnLbs' = {}
      BY <2>1 DEF OwnLbs
    <2> QED
      BY <1>4, <2>2 DEF LeftInv
  <1>10. SeenInv'
    BY <1>1, <1>4 DEF Untag, NlbInv, SeenInv
  <1>11. LocalInv'
    BY <1>4 DEF LocalInv
  <1>12. NoOrphanNlb'
    BY <1>1 DEF Untag, NlbInv, NoOrphanNlb, ReadInv
  <1> QED
    BY <1>6, <1>7, <1>8, <1>9, <1>10, <1>11, <1>12 DEF NlbInv

LEMMA DeleteNLBInv ==
    ASSUME NlbInv, DeleteNLB
    PROVE  NlbInv'
  <1> DEFINE new == [lbs[rec.lb] EXCEPT !.deleting = TRUE]
  <1>1. /\ rec # NoRec /\ rec.pc = "delete" /\ Found(rec.lb)
        /\ lbs' = [lbs EXCEPT ![rec.lb] = new] /\ rec' = [rec EXCEPT !.pc = "wait"]
    BY DEF DeleteNLB, At, Goto
  <1>2. new \in Instances /\ new.deleting
    BY <1>1, OffFacts DEF Instances
  <1> HIDE DEF new
  <1>3. /\ rec' \in Recs /\ rec' # NoRec /\ rec'.pc = "wait" /\ rec'.svc = rec.svc
        /\ rec'.lb = rec.lb /\ rec'.seen = rec.seen /\ rec'.local = rec.local
        /\ rec'.failed = rec.failed
    BY <1>1, GotoFacts DEF NlbInv, Steps
  <1>4. /\ lbs' \in [Lbs -> Instances \cup {NoInst}]
        /\ lbs'[rec.lb] = new /\ new # NoInst
        /\ \A j \in Lbs \ {rec.lb} : lbs'[j] = lbs[j] /\ (Found(j)' <=> Found(j))
    BY <1>1, <1>2, OffFacts, PutFacts DEF NlbInv
  <1>5. TypeOK'
    BY <1>1, <1>3, <1>4 DEF DeleteNLB, NlbInv, TypeOK
  <1>6. ReadInv'
    BY <1>1, <1>3 DEF DeleteNLB, NlbInv, ReadInv, Deleting
  <1>7. InstInv'
    BY <1>1, <1>3, <1>4, OffFacts DEF DeleteNLB, NlbInv, InstInv, At
  <1>8. LeftInv'
    <2>1. \A j \in LbIds : Found(j)' => lbs'[j].deleting
      BY <1>1, <1>2, <1>4, OffFacts
    <2>2. OwnLbs' = {}
      BY <2>1 DEF OwnLbs
    <2> QED
      BY <1>3, <2>2 DEF LeftInv
  <1>9. SeenInv'
    BY <1>1, <1>3 DEF DeleteNLB, NlbInv, SeenInv
  <1>10. LocalInv'
    BY <1>3 DEF LocalInv
  <1>11. NoOrphanNlb'
    BY <1>1 DEF DeleteNLB, NlbInv, NoOrphanNlb, ReadInv
  <1> QED
    BY <1>5, <1>6, <1>7, <1>8, <1>9, <1>10, <1>11 DEF NlbInv

LEMMA WaitJobFinishInv ==
    ASSUME NlbInv, WaitJobFinish
    PROVE  NlbInv'
  <1>1. /\ rec # NoRec /\ rec.pc = "wait" /\ rec \in Recs
        /\ rec' = [rec EXCEPT !.pc = "list", !.lb = NoLb]
    BY RecFacts DEF WaitJobFinish, At, NlbInv
  <1>2. /\ rec' \in Recs /\ rec'.pc = "list" /\ rec'.lb = NoLb
        /\ rec'.svc = rec.svc /\ rec'.seen = rec.seen /\ rec'.local = rec.local
        /\ rec'.failed = rec.failed /\ rec' # NoRec
    <2>1. "list" \in Steps
      BY DEF Steps
    <2> QED
      BY <1>1, <2>1, AtLbFacts
  <1>3. TypeOK'
    BY <1>1, <1>2 DEF WaitJobFinish, NlbInv, TypeOK
  <1>4. ReadInv'
    <2>1. NoLb # UserLb
      BY NlbAssumption
    <2> QED
      BY <1>1, <1>2, <2>1 DEF WaitJobFinish, NlbInv, ReadInv, Deleting
  <1>5. InstInv'
    BY <1>1, <1>2 DEF WaitJobFinish, NlbInv, InstInv, At, Found
  <1>6. LeftInv'
    BY <1>1, <1>2 DEF WaitJobFinish, NlbInv, LeftInv, Deleting, OwnLbs, Found
  <1>7. SeenInv'
    BY <1>1, <1>2 DEF WaitJobFinish, NlbInv, SeenInv
  <1>8. LocalInv'
    BY <1>2 DEF LocalInv
  <1>9. NoOrphanNlb'
    BY <1>1 DEF WaitJobFinish, NlbInv, NoOrphanNlb, ReadInv
  <1> QED
    BY <1>3, <1>4, <1>5, <1>6, <1>7, <1>8, <1>9 DEF NlbInv

LEMMA CreateNLBInv ==
    ASSUME NlbInv, CreateNLB
    PROVE  NlbInv'
  <1> DEFINE i == Smallest({j \in LbIds : ~Found(j)})
             new == [tag |-> FALSE, kept |-> FALSE, prot |-> TRUE, deleting |-> FALSE,
                     attr |-> Spec0.attr, lis |-> NoListeners]
  <1>1. /\ rec # NoRec /\ rec.pc = "create" /\ rec \in Recs /\ At("create")
        /\ lbs' = [lbs EXCEPT ![i] = new] /\ rec' = [rec EXCEPT !.pc = "tag", !.lb = i]
    BY RecFacts DEF CreateNLB, At, NlbInv
  <1>2. i \in LbIds /\ i \in Lbs /\ i # UserLb /\ i # NoLb /\ UserLb \in Lbs /\ LbIds \subseteq Lbs
    <2>1. {j \in LbIds : ~Found(j)} \subseteq Nat /\ {j \in LbIds : ~Found(j)} # {}
      BY NlbAssumption DEF CreateNLB
    <2>2. i \in {j \in LbIds : ~Found(j)}
      BY <2>1, SmallestIn
    <2> QED
      BY <2>2, NlbAssumption DEF Lbs
  <1>3. new \in Instances
    <2>1. NoListeners \in [Ports -> GroupIds \cup {UserGroup, NoLis}]
      BY DEF NoListeners
    <2> QED
      BY <1>1, <2>1, SpecFacts DEF NlbInv, Instances
  <1> HIDE DEF i, new
  <1>4. /\ rec' \in Recs /\ rec'.pc = "tag" /\ rec'.lb = i
        /\ rec'.svc = rec.svc /\ rec'.seen = rec.seen /\ rec'.local = rec.local
        /\ rec'.failed = rec.failed /\ rec' # NoRec
    <2>1. "tag" \in Steps
      BY DEF Steps
    <2> QED
      BY <1>1, <1>2, <2>1, AtLbFacts
  <1>5. /\ lbs' \in [Lbs -> Instances \cup {NoInst}]
        /\ lbs'[i] = new /\ new # NoInst
        /\ \A j \in Lbs \ {i} : lbs'[j] = lbs[j] /\ (Found(j)' <=> Found(j))
    BY <1>1, <1>2, <1>3, PutFacts DEF NlbInv
  <1>6. TypeOK'
    BY <1>1, <1>2, <1>4, <1>5 DEF CreateNLB, NlbInv, TypeOK
  <1>7. ReadInv'
    BY <1>1, <1>2, <1>4 DEF CreateNLB, NlbInv, ReadInv, Deleting
  <1>8. InstInv'
    <2>1. ~svc.spec.user /\ svc' = svc /\ rec'.pc # "create"
      BY <1>1, <1>4 DEF CreateNLB, NlbInv, ReadInv
    <2>2. \A j \in LbIds : Found(j)' => j = i
      BY <1>1, <1>2, <1>5 DEF NlbInv, InstInv
    <2>3. Found(UserLb)' => ~lbs'[UserLb].deleting
      BY <1>2, <1>5 DEF NlbInv, InstInv
    <2> QED
      BY <2>1, <2>2, <2>3 DEF InstInv, At
  <1>9. LeftInv' /\ LocalInv'
    BY <1>4 DEF LeftInv, LocalInv
  <1>10. SeenInv'
    BY <1>1, <1>4 DEF CreateNLB, NlbInv, SeenInv
  <1>11. NoOrphanNlb'
    BY <1>1 DEF CreateNLB, NlbInv, NoOrphanNlb, ReadInv
  <1> QED
    BY <1>6, <1>7, <1>8, <1>9, <1>10, <1>11 DEF NlbInv

LEMMA TagNLBInv ==
    ASSUME NlbInv, TagNLB
    PROVE  NlbInv'
  <1> DEFINE new == [lbs[rec.lb] EXCEPT !.tag = TRUE]
  <1>1. /\ rec # NoRec /\ rec.pc = "tag" /\ Found(rec.lb)
        /\ lbs' = [lbs EXCEPT ![rec.lb] = new] /\ rec' = [rec EXCEPT !.pc = "list"]
    BY DEF TagNLB, At, Goto
  <1>2. new \in Instances
    BY <1>1, OffFacts DEF Instances
  <1> HIDE DEF new
  <1>3. /\ rec' \in Recs /\ rec' # NoRec /\ rec'.pc = "list" /\ rec'.svc = rec.svc
        /\ rec'.lb = rec.lb /\ rec'.seen = rec.seen /\ rec'.local = rec.local
        /\ rec'.failed = rec.failed
    BY <1>1, GotoFacts DEF NlbInv, Steps
  <1>4. /\ lbs' \in [Lbs -> Instances \cup {NoInst}]
        /\ lbs'[rec.lb] = new /\ new # NoInst
        /\ \A j \in Lbs \ {rec.lb} : lbs'[j] = lbs[j] /\ (Found(j)' <=> Found(j))
    BY <1>1, <1>2, OffFacts, PutFacts DEF NlbInv
  <1>5. TypeOK'
    BY <1>1, <1>3, <1>4 DEF TagNLB, NlbInv, TypeOK
  <1>6. ReadInv'
    BY <1>1, <1>3 DEF TagNLB, NlbInv, ReadInv, Deleting
  <1>7. InstInv'
    BY <1>1, <1>3, <1>4, OffFacts DEF TagNLB, NlbInv, InstInv, At
  <1>8. LeftInv' /\ LocalInv'
    BY <1>1, <1>3 DEF NlbInv, ReadInv, LeftInv, LocalInv, Deleting
  <1>9. SeenInv'
    BY <1>1, <1>3 DEF TagNLB, NlbInv, SeenInv
  <1>10. NoOrphanNlb'
    BY <1>1 DEF TagNLB, NlbInv, NoOrphanNlb, ReadInv
  <1> QED
    BY <1>5, <1>6, <1>7, <1>8, <1>9, <1>10 DEF NlbInv

LEMMA UpdateNLBInv ==
    ASSUME NlbInv, UpdateNLB
    PROVE  NlbInv'
  <1> DEFINE new == [lbs[rec.lb] EXCEPT !.attr = Spec0.attr]
  <1>1. /\ rec # NoRec /\ rec.pc = "attr" /\ Found(rec.lb) /\ rec.lb \in Lbs
        /\ lbs' = [lbs EXCEPT ![rec.lb] = new] /\ rec' = [rec EXCEPT !.pc = "list"]
    BY RecFacts DEF UpdateNLB, At, Goto, NlbInv, TypeOK
  <1>2. new \in Instances /\ new.deleting = lbs[rec.lb].deleting
    <2>1. lbs[rec.lb] \in Instances
      BY <1>1 DEF NlbInv, TypeOK, Found
    <2> QED
      BY <1>1, <2>1, SpecFacts DEF Instances, NlbInv
  <1> HIDE DEF new
  <1>3. /\ rec' \in Recs /\ rec' # NoRec /\ rec'.pc = "list" /\ rec'.svc = rec.svc
        /\ rec'.lb = rec.lb /\ rec'.seen = rec.seen /\ rec'.local = rec.local
        /\ rec'.failed = rec.failed
    BY <1>1, GotoFacts DEF NlbInv, Steps
  <1>4. /\ lbs' \in [Lbs -> Instances \cup {NoInst}]
        /\ lbs'[rec.lb] = new /\ new # NoInst
        /\ \A j \in Lbs \ {rec.lb} : lbs'[j] = lbs[j] /\ (Found(j)' <=> Found(j))
    BY <1>1, <1>2, PutFacts DEF NlbInv
  <1>5. TypeOK'
    BY <1>1, <1>3, <1>4 DEF UpdateNLB, NlbInv, TypeOK
  <1>6. ReadInv'
    BY <1>1, <1>3 DEF UpdateNLB, NlbInv, ReadInv, Deleting
  <1>7. InstInv'
    <2>1. \A j \in Lbs : Found(j)' => Found(j) /\ lbs'[j].deleting = lbs[j].deleting
      BY <1>1, <1>2, <1>4
    <2>2. UserLb \in Lbs /\ LbIds \subseteq Lbs
      BY DEF Lbs
    <2>3. svc' = svc /\ rec'.pc # "create"
      BY <1>3 DEF UpdateNLB
    <2> QED
      BY <2>1, <2>2, <2>3 DEF NlbInv, InstInv, At
  <1>8. LeftInv' /\ LocalInv'
    BY <1>1, <1>3 DEF NlbInv, ReadInv, LeftInv, LocalInv, Deleting
  <1>9. SeenInv'
    BY <1>1, <1>3 DEF UpdateNLB, NlbInv, SeenInv
  <1>10. NoOrphanNlb'
    BY <1>1 DEF UpdateNLB, NlbInv, NoOrphanNlb, ReadInv
  <1> QED
    BY <1>5, <1>6, <1>7, <1>8, <1>9, <1>10 DEF NlbInv

-----------------------------------------------------------------------------
(* The reconcile: the server groups.                                       *)

LEMMA ListServerGroupsInv ==
    ASSUME NlbInv, ListServerGroups
    PROVE  NlbInv'
  <1>1. /\ rec # NoRec /\ rec.pc = "list" /\ rec \in Recs
        /\ UNCHANGED <<svc, past, eps, queued, lbs, sgs>>
    BY RecFacts DEF ListServerGroups, At, NlbInv
  <1>2. PICK m \in [LocalPorts -> GroupIds \cup {NoGroup}] :
           /\ \A p \in LocalPorts : m[p] = NoGroup \/ (m[p] \in GroupIds /\ Listed[m[p]] # NoGroup)
           /\ rec' = [rec EXCEPT !.pc = "groups", !.seen = Listed, !.local = m]
    BY DEF ListServerGroups
  <1>3. Listed \in [GroupIds -> Groups \cup {NoGroup}]
    BY DEF Listed, NlbInv, TypeOK
  <1>4. m \in Locals
    BY <1>1, SpecFacts DEF Locals, NlbInv
  <1>5. /\ rec' \in Recs /\ rec'.pc = "groups" /\ rec'.lb = rec.lb
        /\ rec'.svc = rec.svc /\ rec'.seen = Listed /\ rec'.local = m
        /\ rec'.failed = rec.failed /\ rec' # NoRec
    <2>1. "groups" \in Steps
      BY DEF Steps
    <2> QED
      BY <1>1, <1>2, <1>3, <1>4, <2>1, SeenFacts
  <1>6. TypeOK'
    BY <1>1, <1>5, SpecFacts DEF NlbInv, TypeOK, Spec0
  <1>7. ReadInv'
    BY <1>1, <1>5 DEF NlbInv, ReadInv
  <1>8. InstInv'
    BY <1>1, <1>5 DEF NlbInv, InstInv, Found, At
  <1>9. LeftInv'
    <2>1. Deleting => OwnLbs' = {}
      BY <1>1 DEF NlbInv, LeftInv, OwnLbs, Found
    <2>2. \A g \in OwnGroups' : Listed[g] # NoGroup
      BY <1>1 DEF OwnGroups, Listed
    <2> QED
      BY <1>5, <2>1, <2>2 DEF LeftInv, Deleting
  <1>10. SeenInv'
    BY <1>1, <1>5 DEF SeenInv, Listed
  <1>11. LocalInv'
    BY <1>2, <1>5 DEF LocalInv, LocalPorts, Deleting, Spec0
  <1>12. NoOrphanNlb'
    BY <1>1 DEF NlbInv, NoOrphanNlb, OwnLbs, OwnGroups, Found
  <1> QED
    BY <1>6, <1>7, <1>8, <1>9, <1>10, <1>11, <1>12 DEF NlbInv

\* The port whose turn it is.
LEMMA PortFacts ==
    ASSUME NlbInv, At("groups"), ToCreate \cup ToUpdate # {}
    PROVE  /\ rec # NoRec /\ rec.pc = "groups" /\ rec \in Recs
           /\ Port \in ToCreate \cup ToUpdate /\ Port \in LocalPorts /\ Port \in Ports
           /\ DOMAIN rec.local = LocalPorts
           /\ Port \in DOMAIN rec.svc.spec.ports /\ Spec0.ports[Port] \in Kinds
           /\ Port \notin ToCreate =>
                 /\ rec.local[Port] \in GroupIds
                 /\ rec.seen[rec.local[Port]] \in Groups /\ rec.seen[rec.local[Port]] # NoGroup
                 /\ sgs[rec.local[Port]] # NoGroup => sgs[rec.local[Port]] \in Groups
  <1>1. rec # NoRec /\ rec.pc = "groups" /\ rec \in Recs
    BY RecFacts DEF At, NlbInv
  <1>2. ToCreate \cup ToUpdate \subseteq LocalPorts
    BY DEF ToCreate, ToUpdate, Lacking
  <1>3. LocalPorts \subseteq Ports /\ LocalPorts \subseteq DOMAIN rec.svc.spec.ports
        /\ \A p \in LocalPorts : Spec0.ports[p] \in Kinds
    BY <1>1, SpecFacts DEF NlbInv, Spec0
  <1>4. Port \in ToCreate \cup ToUpdate
    <2>1. ToCreate \cup ToUpdate \subseteq Nat
      BY <1>2, <1>3, NlbAssumption
    <2> QED
      BY <2>1, SmallestIn DEF Port
  <1>5. DOMAIN rec.local = LocalPorts
    BY <1>1 DEF NlbInv, LocalInv
  <1>6. ASSUME Port \notin ToCreate
        PROVE  /\ rec.local[Port] \in GroupIds
               /\ rec.seen[rec.local[Port]] \in Groups /\ rec.seen[rec.local[Port]] # NoGroup
    <2>1. rec.local[Port] # NoGroup
      BY <1>2, <1>4, <1>6 DEF ToUpdate, Lacking
    <2>2. rec.local[Port] \in GroupIds
      BY <1>1, <1>2, <1>4, <1>5, <2>1, RecFacts DEF NlbInv
    <2>3. rec.seen[rec.local[Port]] # NoGroup
      BY <1>1, <1>2, <1>4, <2>1 DEF NlbInv, LocalInv
    <2> QED
      BY <1>1, <2>2, <2>3, RecFacts DEF NlbInv
  <1>7. rec.local[Port] \in GroupIds => sgs[rec.local[Port]] \in Groups \cup {NoGroup}
    BY DEF NlbInv, TypeOK
  <1> QED
    BY <1>1, <1>2, <1>3, <1>4, <1>5, <1>6, <1>7

LEMMA CreateServerGroupInv ==
    ASSUME NlbInv, CreateServerGroup
    PROVE  /\ NlbInv'
           /\ \E h \in GroupIds :
                 /\ sgs[h] = NoGroup /\ sgs'[h] # NoGroup
                 /\ sgs'[h].tag /\ UserServer \notin sgs'[h].servers
                 /\ \A k \in GroupIds \ {h} : sgs'[k] = sgs[k]
  <1> DEFINE g == Smallest(Free)
             new == [port |-> Port, kind |-> Spec0.ports[Port], tag |-> TRUE, servers |-> {}]
  <1>1. /\ At("groups") /\ ToCreate \cup ToUpdate # {} /\ Port \in ToCreate
        /\ UNCHANGED <<svc, past, eps, queued, lbs>>
        /\ sgs' = [sgs EXCEPT ![g] = new]
        /\ rec' = [rec EXCEPT !.seen[g] = new, !.local[Port] = g]
    BY DEF CreateServerGroup
  <1>2. g \in GroupIds /\ sgs[g] = NoGroup
    <2>1. Free \subseteq Nat /\ Free # {}
      BY NlbAssumption DEF CreateServerGroup, Free
    <2>2. g \in Free
      BY <2>1, SmallestIn
    <2> QED
      BY <2>2 DEF Free
  <1>3. new \in Groups /\ new # NoGroup /\ new.servers = {} /\ new.tag
    <2>1. new \in Groups
      BY <1>1, PortFacts DEF Groups
    <2> QED
      BY <2>1, NoneAssumption
  <1> HIDE DEF g, new
  <1>4. /\ rec # NoRec /\ rec.pc = "groups" /\ rec \in Recs
        /\ Port \in DOMAIN rec.local /\ DOMAIN rec.local = LocalPorts
    BY <1>1, PortFacts
  <1>5. /\ [rec.seen EXCEPT ![g] = new] \in [GroupIds -> Groups \cup {NoGroup}]
        /\ [rec.local EXCEPT ![Port] = g] \in [LocalPorts -> GroupIds \cup {NoGroup}]
        /\ [rec.local EXCEPT ![Port] = g] \in Locals
    <2>1. [rec.local EXCEPT ![Port] = g] \in [LocalPorts -> GroupIds \cup {NoGroup}]
      BY <1>2, <1>4, RecFacts DEF NlbInv
    <2>2. LocalPorts \subseteq Ports
      BY <1>4, SpecFacts DEF NlbInv
    <2>3. [rec.seen EXCEPT ![g] = new] \in [GroupIds -> Groups \cup {NoGroup}]
      BY <1>2, <1>3, <1>4, RecFacts DEF NlbInv
    <2> QED
      BY <2>1, <2>2, <2>3 DEF Locals
  <1>6. /\ rec' \in Recs /\ rec'.pc = "groups" /\ rec'.lb = rec.lb /\ rec'.svc = rec.svc
        /\ rec'.seen = [rec.seen EXCEPT ![g] = new]
        /\ rec'.local = [rec.local EXCEPT ![Port] = g]
        /\ rec'.failed = rec.failed /\ rec' # NoRec
    <2>1. rec' \in Recs
      BY <1>1, <1>4, <1>5 DEF Recs
    <2>2. rec'.pc = rec.pc /\ rec'.lb = rec.lb /\ rec'.svc = rec.svc /\ rec'.failed = rec.failed
      BY <1>1, <1>4, <1>5 DEF Recs
    <2>3. /\ rec'.seen = [rec.seen EXCEPT ![g] = new]
          /\ rec'.local = [rec.local EXCEPT ![Port] = g]
      BY <1>1, <1>4, <1>5 DEF Recs
    <2> QED
      BY <1>4, <2>1, <2>2, <2>3, NoneAssumption
  <1>7. sgs' \in [GroupIds -> Groups \cup {NoGroup}]
        /\ sgs'[g] = new /\ \A h \in GroupIds \ {g} : sgs'[h] = sgs[h]
    BY <1>1, <1>2, <1>3 DEF NlbInv, TypeOK
  <1>8. /\ rec'.seen[g] = new /\ \A h \in GroupIds \ {g} : rec'.seen[h] = rec.seen[h]
        /\ rec'.local[Port] = g /\ DOMAIN rec'.local = LocalPorts
        /\ \A p \in LocalPorts \ {Port} : rec'.local[p] = rec.local[p]
        /\ \A p \in LocalPorts : rec.local[p] \in GroupIds \cup {NoGroup}
    BY <1>2, <1>4, <1>6, RecFacts DEF NlbInv
  <1>9. TypeOK'
    BY <1>1, <1>4, <1>6, <1>7, <1>8 DEF NlbInv, TypeOK
  <1>10. ReadInv'
    BY <1>1, <1>4, <1>6 DEF NlbInv, ReadInv
  <1>11. InstInv'
    BY <1>1, <1>6 DEF NlbInv, InstInv, Found, At
  <1>12. LeftInv'
    <2>1. \A h \in OwnGroups' : h = g \/ h \in OwnGroups
      BY <1>7 DEF OwnGroups
    <2>2. Deleting => OwnLbs' = {} /\ \A h \in OwnGroups : rec.seen[h] # NoGroup
      BY <1>1, <1>4 DEF NlbInv, LeftInv, OwnLbs, Found
    <2>3. OwnGroups \subseteq GroupIds
      BY DEF OwnGroups
    <2>4. Deleting => \A h \in OwnGroups' : rec'.seen[h] # NoGroup
      BY <1>3, <1>8, <2>1, <2>2, <2>3
    <2> QED
      BY <1>6, <2>2, <2>4 DEF LeftInv, Deleting
  <1>13. SeenInv'
    <2>1. \A h \in GroupIds \ {g} : rec'.seen[h] = rec.seen[h] /\ sgs'[h] = sgs[h]
      BY <1>7, <1>8
    <2> QED
      BY <1>3, <1>4, <1>6, <1>7, <1>8, <2>1 DEF NlbInv, SeenInv
  <1>14. LocalInv'
    <2>1. LocalPorts' = LocalPorts
      BY <1>6 DEF LocalPorts, Deleting, Spec0
    <2>2. \A p \in LocalPorts : rec'.local[p] # NoGroup => rec'.seen[rec'.local[p]] # NoGroup
      <3>1. \A p \in LocalPorts : rec.local[p] # NoGroup => rec.seen[rec.local[p]] # NoGroup
        BY <1>4 DEF NlbInv, LocalInv
      <3> QED
        BY <1>3, <1>8, <3>1
    <2> QED
      BY <1>6, <1>8, <2>1, <2>2 DEF LocalInv
  <1>15. NoOrphanNlb'
    BY <1>1, <1>4 DEF NlbInv, NoOrphanNlb, ReadInv
  <1>16. \E h \in GroupIds :
            /\ sgs[h] = NoGroup /\ sgs'[h] # NoGroup
            /\ sgs'[h].tag /\ UserServer \notin sgs'[h].servers
            /\ \A k \in GroupIds \ {h} : sgs'[k] = sgs[k]
    BY <1>2, <1>3, <1>7
  <1> QED
    BY <1>9, <1>10, <1>11, <1>12, <1>13, <1>14, <1>15, <1>16 DEF NlbInv

\* Servers of groups change, and what the reconcile takes them to be; none comes,
\* goes, or loses the user's server.
LEMMA ServersInv ==
    ASSUME NlbInv, rec # NoRec, rec.pc = "groups", rec' \in Recs, rec' # NoRec,
           rec'.pc = "groups", rec'.lb = rec.lb, rec'.svc = rec.svc, rec'.local = rec.local,
           rec'.failed \subseteq DOMAIN rec.svc.spec.ports,
           UNCHANGED <<svc, past, eps, queued, lbs>>,
           sgs' \in [GroupIds -> Groups \cup {NoGroup}],
           \A h \in GroupIds :
              /\ rec'.seen[h] = NoGroup <=> rec.seen[h] = NoGroup
              /\ sgs'[h] = NoGroup <=> sgs[h] = NoGroup
              /\ sgs[h] # NoGroup =>
                    /\ sgs'[h].tag = sgs[h].tag
                    /\ UserServer \in sgs[h].servers => UserServer \in sgs'[h].servers,
           SeenInv'
    PROVE  NlbInv' /\ OwnGroups' \subseteq OwnGroups
  <1>1. TypeOK'
    BY DEF NlbInv, TypeOK
  <1>2. ReadInv'
    BY DEF NlbInv, ReadInv, Deleting
  <1>3. InstInv'
    BY DEF NlbInv, InstInv, Found, At
  <1>4. OwnGroups' \subseteq OwnGroups /\ OwnGroups' \subseteq GroupIds
    BY DEF OwnGroups
  <1>5. OwnLbs' = OwnLbs /\ (Found(UserLb)' <=> Found(UserLb))
    BY DEF OwnLbs, Found
  <1>6. LeftInv'
    <2>1. Deleting => OwnLbs = {} /\ \A h \in OwnGroups : rec.seen[h] # NoGroup
      BY DEF NlbInv, LeftInv
    <2> QED
      BY <1>4, <1>5, <2>1 DEF LeftInv, Deleting
  <1>7. LocalInv'
    <2>1. \A p \in LocalPorts : rec.local[p] \in GroupIds \cup {NoGroup}
      <3>1. DOMAIN rec.local = LocalPorts
        BY DEF NlbInv, LocalInv
      <3> QED
        BY <3>1, RecFacts DEF NlbInv
    <2>2. LocalPorts' = LocalPorts
      BY DEF LocalPorts, Deleting, Spec0
    <2> QED
      BY <2>1, <2>2 DEF NlbInv, LocalInv
  <1>8. NoOrphanNlb'
    BY DEF NlbInv, NoOrphanNlb, ReadInv
  <1> QED
    BY <1>1, <1>2, <1>3, <1>4, <1>6, <1>7, <1>8 DEF NlbInv

LEMMA ServerFacts ==
    ASSUME TypeOK, rec # NoRec, NEW p \in LocalPorts, rec.seen[rec.local[p]] \in Groups
    PROVE  /\ ToAdd(p) \subseteq Backends /\ UserServer \notin ToAdd(p)
           /\ UserServer \notin ToRemove(p)
  BY RecFacts, NlbAssumption DEF ToAdd, ToRemove, Groups

LEMMA AddServersInv ==
    ASSUME NlbInv, AddServers
    PROVE  /\ NlbInv' /\ OwnGroups' \subseteq OwnGroups
           /\ \A h \in GroupIds : sgs'[h] = NoGroup <=> sgs[h] = NoGroup
  <1> DEFINE g == rec.local[Port]
             new == [sgs[g] EXCEPT !.servers = @ \cup ToAdd(Port)]
             seen == [rec.seen[g] EXCEPT !.servers = @ \cup ToAdd(Port)]
  <1>1. /\ At("groups") /\ ToCreate \cup ToUpdate # {} /\ Port \in ToUpdate
        /\ UNCHANGED <<svc, past, eps, queued, lbs>>
        /\ sgs[g] # NoGroup
        /\ sgs' = [sgs EXCEPT ![g] = new]
        /\ rec' = [rec EXCEPT !.seen[g] = seen]
    BY DEF AddServers
  <1>2. Port \notin ToCreate
    BY <1>1 DEF ToCreate, ToUpdate
  <1>3. /\ rec # NoRec /\ rec.pc = "groups" /\ rec \in Recs /\ Port \in LocalPorts
        /\ g \in GroupIds /\ rec.seen[g] \in Groups /\ rec.seen[g] # NoGroup /\ sgs[g] \in Groups
    BY <1>1, <1>2, PortFacts
  <1>4. ToAdd(Port) \subseteq Backends /\ UserServer \notin ToAdd(Port)
    BY <1>3, ServerFacts DEF NlbInv
  <1>5. /\ new \in Groups /\ new.tag = sgs[g].tag
        /\ new.servers = sgs[g].servers \cup ToAdd(Port)
        /\ seen \in Groups /\ seen.servers = rec.seen[g].servers \cup ToAdd(Port)
    BY <1>3, <1>4 DEF Groups
  <1>6. new # NoGroup /\ seen # NoGroup
    BY <1>5, NoneAssumption
  <1> HIDE DEF g, new, seen
  <1>7. [rec.seen EXCEPT ![g] = seen] \in [GroupIds -> Groups \cup {NoGroup}]
    BY <1>3, <1>5, RecFacts DEF NlbInv
  <1>8. /\ rec' \in Recs /\ rec'.pc = "groups" /\ rec'.lb = rec.lb /\ rec'.svc = rec.svc
        /\ rec'.seen = [rec.seen EXCEPT ![g] = seen] /\ rec'.local = rec.local
        /\ rec'.failed = rec.failed /\ rec' # NoRec
    BY <1>1, <1>3, <1>7, NoneAssumption DEF Recs
  <1>9. /\ sgs' \in [GroupIds -> Groups \cup {NoGroup}]
        /\ sgs'[g] = new /\ \A h \in GroupIds \ {g} : sgs'[h] = sgs[h]
    BY <1>1, <1>3, <1>5 DEF NlbInv, TypeOK
  <1>10. rec'.seen[g] = seen /\ \A h \in GroupIds \ {g} : rec'.seen[h] = rec.seen[h]
    BY <1>3, <1>8, RecFacts DEF NlbInv
  <1>11. SeenInv'
    <2>1. /\ UserServer \in rec.seen[g].servers => UserServer \in sgs[g].servers
          /\ rec.failed = {} => sgs[g].servers \ {UserServer} = rec.seen[g].servers \ {UserServer}
      BY <1>3 DEF NlbInv, SeenInv
    <2>2. /\ UserServer \in seen.servers => UserServer \in new.servers
          /\ rec.failed = {} => new.servers \ {UserServer} = seen.servers \ {UserServer}
      BY <1>4, <1>5, <2>1
    <2>3. \A h \in GroupIds \ {g} : rec'.seen[h] = rec.seen[h] /\ sgs'[h] = sgs[h]
      BY <1>9, <1>10
    <2> QED
      BY <1>3, <1>6, <1>8, <1>9, <1>10, <2>2, <2>3 DEF NlbInv, SeenInv
  <1>12. rec'.failed \subseteq DOMAIN rec.svc.spec.ports
    BY <1>3, <1>8 DEF NlbInv, TypeOK
  <1>13. \A h \in GroupIds :
              /\ rec'.seen[h] = NoGroup <=> rec.seen[h] = NoGroup
              /\ sgs'[h] = NoGroup <=> sgs[h] = NoGroup
              /\ sgs[h] # NoGroup =>
                    /\ sgs'[h].tag = sgs[h].tag
                    /\ UserServer \in sgs[h].servers => UserServer \in sgs'[h].servers
    <2>1. sgs[g] # NoGroup
      BY <1>1 DEF g
    <2> QED
      BY <1>3, <1>5, <1>6, <1>9, <1>10, <2>1
  <1> QED
    BY <1>1, <1>3, <1>8, <1>9, <1>11, <1>12, <1>13, ServersInv

LEMMA RemoveServersInv ==
    ASSUME NlbInv, RemoveServers
    PROVE  /\ NlbInv' /\ OwnGroups' \subseteq OwnGroups
           /\ \A h \in GroupIds : sgs'[h] = NoGroup <=> sgs[h] = NoGroup
  <1> DEFINE g == rec.local[Port]
             new == [sgs[g] EXCEPT !.servers = @ \ ToRemove(Port)]
             seen == [rec.seen[g] EXCEPT !.servers = @ \ ToRemove(Port)]
  <1>1. /\ At("groups") /\ ToCreate \cup ToUpdate # {} /\ Port \in ToUpdate
        /\ UNCHANGED <<svc, past, eps, queued, lbs>>
        /\ sgs[g] # NoGroup
        /\ sgs' = [sgs EXCEPT ![g] = new]
        /\ rec' = [rec EXCEPT !.seen[g] = seen]
    BY DEF RemoveServers
  <1>2. Port \notin ToCreate
    BY <1>1 DEF ToCreate, ToUpdate
  <1>3. /\ rec # NoRec /\ rec.pc = "groups" /\ rec \in Recs /\ Port \in LocalPorts
        /\ g \in GroupIds /\ rec.seen[g] \in Groups /\ rec.seen[g] # NoGroup /\ sgs[g] \in Groups
    BY <1>1, <1>2, PortFacts
  <1>4. UserServer \notin ToRemove(Port)
    BY <1>3, ServerFacts DEF NlbInv
  <1>5. /\ new \in Groups /\ new.tag = sgs[g].tag
        /\ new.servers = sgs[g].servers \ ToRemove(Port)
        /\ seen \in Groups /\ seen.servers = rec.seen[g].servers \ ToRemove(Port)
    BY <1>3, <1>4 DEF Groups
  <1>6. new # NoGroup /\ seen # NoGroup
    BY <1>5, NoneAssumption
  <1> HIDE DEF g, new, seen
  <1>7. [rec.seen EXCEPT ![g] = seen] \in [GroupIds -> Groups \cup {NoGroup}]
    BY <1>3, <1>5, RecFacts DEF NlbInv
  <1>8. /\ rec' \in Recs /\ rec'.pc = "groups" /\ rec'.lb = rec.lb /\ rec'.svc = rec.svc
        /\ rec'.seen = [rec.seen EXCEPT ![g] = seen] /\ rec'.local = rec.local
        /\ rec'.failed = rec.failed /\ rec' # NoRec
    BY <1>1, <1>3, <1>7, NoneAssumption DEF Recs
  <1>9. /\ sgs' \in [GroupIds -> Groups \cup {NoGroup}]
        /\ sgs'[g] = new /\ \A h \in GroupIds \ {g} : sgs'[h] = sgs[h]
    BY <1>1, <1>3, <1>5 DEF NlbInv, TypeOK
  <1>10. rec'.seen[g] = seen /\ \A h \in GroupIds \ {g} : rec'.seen[h] = rec.seen[h]
    BY <1>3, <1>8, RecFacts DEF NlbInv
  <1>11. SeenInv'
    <2>1. /\ UserServer \in rec.seen[g].servers => UserServer \in sgs[g].servers
          /\ rec.failed = {} => sgs[g].servers \ {UserServer} = rec.seen[g].servers \ {UserServer}
      BY <1>3 DEF NlbInv, SeenInv
    <2>2. /\ UserServer \in seen.servers => UserServer \in new.servers
          /\ rec.failed = {} => new.servers \ {UserServer} = seen.servers \ {UserServer}
      BY <1>4, <1>5, <2>1
    <2>3. \A h \in GroupIds \ {g} : rec'.seen[h] = rec.seen[h] /\ sgs'[h] = sgs[h]
      BY <1>9, <1>10
    <2> QED
      BY <1>3, <1>6, <1>8, <1>9, <1>10, <2>2, <2>3 DEF NlbInv, SeenInv
  <1>12. rec'.failed \subseteq DOMAIN rec.svc.spec.ports
    BY <1>3, <1>8 DEF NlbInv, TypeOK
  <1>13. \A h \in GroupIds :
              /\ rec'.seen[h] = NoGroup <=> rec.seen[h] = NoGroup
              /\ sgs'[h] = NoGroup <=> sgs[h] = NoGroup
              /\ sgs[h] # NoGroup =>
                    /\ sgs'[h].tag = sgs[h].tag
                    /\ UserServer \in sgs[h].servers => UserServer \in sgs'[h].servers
    <2>1. sgs[g] # NoGroup
      BY <1>1 DEF g
    <2> QED
      BY <1>3, <1>4, <1>5, <1>6, <1>9, <1>10, <2>1
  <1> QED
    BY <1>1, <1>3, <1>8, <1>9, <1>11, <1>12, <1>13, ServersInv

\* A call for a group that fails: what was to be is taken for granted from then on.
LEMMA GroupErrInv ==
    ASSUME NlbInv, At("groups"), ToCreate \cup ToUpdate # {}, GroupErr
    PROVE  NlbInv'
  <1> DEFINE g == rec.local[Port]
             seen == IF Port \in ToCreate THEN rec.seen
                     ELSE [rec.seen EXCEPT ![g].servers = Attempted]
  <1>1. /\ rec # NoRec /\ rec.pc = "groups" /\ rec \in Recs
        /\ Port \in LocalPorts /\ Port \in Ports /\ Port \in DOMAIN rec.svc.spec.ports
    BY PortFacts
  <1>2. /\ seen \in [GroupIds -> Groups \cup {NoGroup}]
        /\ \A h \in GroupIds : /\ seen[h] = NoGroup <=> rec.seen[h] = NoGroup
                               /\ rec.seen[h] # NoGroup /\ UserServer \in seen[h].servers
                                     => UserServer \in rec.seen[h].servers
    <2>1. CASE Port \in ToCreate
      BY <1>1, <2>1, RecFacts DEF NlbInv
    <2>2. CASE Port \notin ToCreate
      <3>1. g \in GroupIds /\ rec.seen[g] \in Groups /\ rec.seen[g] # NoGroup
        BY <2>2, PortFacts
      <3>2. ToAdd(Port) \subseteq Backends /\ UserServer \notin ToAdd(Port)
        BY <1>1, <3>1, ServerFacts DEF NlbInv
      <3>3. Attempted \subseteq Backends \cup {UserServer}
            /\ (UserServer \in Attempted => UserServer \in rec.seen[g].servers)
        BY <3>1, <3>2 DEF Groups, Attempted
      <3> DEFINE new == [rec.seen[g] EXCEPT !.servers = Attempted]
      <3> HIDE DEF g
      <3>4. new \in Groups /\ new.servers = Attempted
        BY <3>1, <3>3 DEF Groups
      <3>5. new # NoGroup
        BY <3>4, NoneAssumption
      <3>6. rec.seen \in [GroupIds -> Groups \cup {NoGroup}]
        BY <1>1, RecFacts DEF NlbInv
      <3>7. seen = [rec.seen EXCEPT ![g] = new]
        BY <2>2, <3>1, <3>6
      <3> HIDE DEF new, seen
      <3>8. seen[g] = new /\ \A h \in GroupIds \ {g} : seen[h] = rec.seen[h]
        BY <3>1, <3>6, <3>7
      <3>9. seen \in [GroupIds -> Groups \cup {NoGroup}]
        BY <3>1, <3>4, <3>6, <3>7
      <3> QED
        BY <3>1, <3>3, <3>4, <3>5, <3>8, <3>9
    <2> QED
      BY <2>1, <2>2
  <1>3. rec' = [rec EXCEPT !.failed = rec.failed \cup {Port}, !.seen = seen]
    BY DEF GroupErr
  <1> HIDE DEF seen
  <1>4. rec.failed \cup {Port} \subseteq Ports
    BY <1>1, RecFacts DEF NlbInv
  <1>5. /\ rec' \in Recs /\ rec'.pc = "groups" /\ rec'.lb = rec.lb /\ rec'.svc = rec.svc
        /\ rec'.seen = seen /\ rec'.local = rec.local
        /\ rec'.failed = rec.failed \cup {Port} /\ rec' # NoRec
    <2>1. rec' \in Recs
      BY <1>1, <1>2, <1>3, <1>4 DEF Recs
    <2>2. rec'.pc = rec.pc /\ rec'.lb = rec.lb /\ rec'.svc = rec.svc /\ rec'.local = rec.local
      BY <1>1, <1>2, <1>3, <1>4 DEF Recs
    <2>3. rec'.seen = seen /\ rec'.failed = rec.failed \cup {Port}
      BY <1>1, <1>2, <1>3, <1>4 DEF Recs
    <2> QED
      BY <1>1, <2>1, <2>2, <2>3, NoneAssumption
  <1>6. SeenInv'
    <2>1. sgs' = sgs
      BY DEF GroupErr
    <2> QED
      BY <1>1, <1>2, <1>5, <2>1 DEF NlbInv, SeenInv
  <1>7. rec'.failed \subseteq DOMAIN rec.svc.spec.ports
    BY <1>1, <1>5 DEF NlbInv, TypeOK
  <1>8. UNCHANGED <<svc, past, eps, queued, lbs, sgs>> /\ sgs' \in [GroupIds -> Groups \cup {NoGroup}]
    BY DEF GroupErr, NlbInv, TypeOK
  <1> QED
    BY <1>1, <1>2, <1>5, <1>6, <1>7, <1>8, ServersInv

LEMMA GroupsDoneInv ==
    ASSUME NlbInv, GroupsDone
    PROVE  NlbInv'
  <1>1. /\ rec # NoRec /\ rec.pc = "groups" /\ rec \in Recs /\ At("groups")
        /\ UNCHANGED <<svc, past, eps, lbs, sgs>>
        /\ ToCreate \cup ToUpdate = {}
    BY RecFacts DEF GroupsDone, At, NlbInv
  <1>2. CASE ReturnErr
    BY <1>1, <1>2, ReturnInv DEF ReturnErr
  <1>3. CASE /\ rec.failed = {} /\ ~(Changed /\ rec.lb = NoLb /\ ~Deleting)
             /\ IF Changed /\ rec.lb # NoLb
                THEN /\ Found(rec.lb)
                     /\ rec' = [rec EXCEPT !.pc = "listeners", !.lis = lbs[rec.lb].lis]
                ELSE Goto("clean")
             /\ UNCHANGED queued
    <2>1. /\ rec' \in Recs /\ rec' # NoRec /\ rec'.lb = rec.lb /\ rec'.svc = rec.svc
          /\ rec'.seen = rec.seen /\ rec'.local = rec.local /\ rec'.failed = rec.failed
          /\ rec'.servers = rec.servers
          /\ \/ rec'.pc = "clean"
             \/ rec'.pc = "listeners" /\ rec.lb # NoLb /\ rec'.lis = lbs[rec.lb].lis
      <3>1. CASE Changed /\ rec.lb # NoLb
        <4>1. Found(rec.lb) /\ rec' = [rec EXCEPT !.pc = "listeners", !.lis = lbs[rec.lb].lis]
          BY <1>3, <3>1
        <4>2. rec.lb \in Lbs
          BY <1>1, <3>1, RecFacts DEF NlbInv
        <4>3. lbs[rec.lb] \in Instances
          BY <4>1, <4>2 DEF NlbInv, TypeOK, Found
        <4>4. lbs[rec.lb].lis \in [Ports -> GroupIds \cup {UserGroup, NoLis}]
          BY <4>3 DEF Instances
        <4>5. "listeners" \in Steps
          BY DEF Steps
        <4> QED
          BY <1>1, <3>1, <4>1, <4>4, <4>5, ListFacts
      <3>2. CASE ~(Changed /\ rec.lb # NoLb)
        BY <1>1, <1>3, <3>2, GotoFacts DEF Goto, Steps, NlbInv
      <3> QED
        BY <3>1, <3>2
    <2>2. TypeOK'
      BY <1>1, <1>3, <2>1 DEF NlbInv, TypeOK
    <2>3. ReadInv'
      BY <1>1, <2>1 DEF NlbInv, ReadInv, Deleting
    <2>4. InstInv'
      BY <1>1, <2>1 DEF NlbInv, InstInv, Found, At
    <2>5. LeftInv'
      BY <1>1, <2>1 DEF NlbInv, LeftInv, Deleting, OwnLbs, OwnGroups, Found
    <2>6. SeenInv'
      BY <1>1, <2>1 DEF NlbInv, SeenInv
    <2>7. LocalInv'
      <3>1. LocalPorts' = LocalPorts
        BY <2>1 DEF LocalPorts, Deleting, Spec0
      <3>2. Lacking = {}
        BY <1>1, <1>3 DEF ToCreate
      <3>3. \A p \in LocalPorts : /\ rec.local[p] # NoGroup
                                  /\ rec.seen[rec.local[p]] # NoGroup
        BY <1>1, <3>2 DEF Lacking, NlbInv, LocalInv
      <3>4. ASSUME NEW p \in LocalPorts
            PROVE  rec.seen[rec.local[p]].servers \ {UserServer} = rec.servers
        <4>1. ToAdd(p) = {} /\ ToRemove(p) = {}
          BY <1>1, <3>2 DEF ToUpdate
        <4>2. UserServer \notin rec.servers
          BY <1>1, NlbAssumption, RecFacts DEF NlbInv
        <4> QED
          BY <4>1, <4>2 DEF ToAdd, ToRemove
      <3>5. DOMAIN rec.local = LocalPorts
        BY <1>1 DEF NlbInv, LocalInv
      <3>6. rec'.pc = "listeners" => rec'.lis = lbs'[rec.lb].lis
        BY <1>1, <2>1
      <3> QED
        BY <1>3, <2>1, <3>1, <3>3, <3>4, <3>5, <3>6 DEF LocalInv
    <2>8. NoOrphanNlb'
      BY <1>1 DEF NlbInv, NoOrphanNlb, OwnLbs, OwnGroups, Found
    <2> QED
      BY <2>2, <2>3, <2>4, <2>5, <2>6, <2>7, <2>8 DEF NlbInv
  <1> QED
    BY <1>2, <1>3 DEF GroupsDone

-----------------------------------------------------------------------------
(* The reconcile: the listeners, the cleanup and the end.                  *)

\* Where a listener is written or removed.
LEMMA ListenerFacts ==
    ASSUME NlbInv, At("listeners"), Found(rec.lb)
    PROVE  /\ rec # NoRec /\ rec.pc = "listeners" /\ rec \in Recs
           /\ rec.lb \in Lbs /\ lbs[rec.lb] \in Instances /\ UserLb \in Lbs /\ LbIds \subseteq Lbs
           /\ rec.lis = lbs[rec.lb].lis /\ rec.failed = {} /\ DOMAIN rec.local = LocalPorts
           /\ \A p \in LocalPorts : /\ p \in Ports /\ rec.local[p] \in GroupIds
                                    /\ rec.seen[rec.local[p]].servers \ {UserServer} = rec.servers
                                    /\ sgs[rec.local[p]].servers \ {UserServer} = rec.servers
  <1>1. rec # NoRec /\ rec.pc = "listeners" /\ rec \in Recs
    BY RecFacts DEF At, NlbInv
  <1>2. rec.lb \in Lbs /\ lbs[rec.lb] \in Instances
    BY <1>1, RecFacts DEF NlbInv, TypeOK, Found
  <1>3. UserLb \in Lbs /\ LbIds \subseteq Lbs
    BY DEF Lbs
  <1>4. /\ rec.lis = lbs[rec.lb].lis /\ rec.failed = {} /\ DOMAIN rec.local = LocalPorts
        /\ \A p \in LocalPorts : /\ rec.local[p] # NoGroup /\ rec.seen[rec.local[p]] # NoGroup
                                 /\ rec.seen[rec.local[p]].servers \ {UserServer} = rec.servers
    BY <1>1 DEF NlbInv, LocalInv
  <1>5. \A p \in LocalPorts : p \in Ports /\ rec.local[p] \in GroupIds
    BY <1>1, <1>4, RecFacts, SpecFacts DEF NlbInv
  <1>6. \A p \in LocalPorts : sgs[rec.local[p]].servers \ {UserServer} = rec.servers
    BY <1>1, <1>4, <1>5 DEF NlbInv, SeenInv
  <1> QED
    BY <1>1, <1>2, <1>3, <1>4, <1>5, <1>6

\* The listener of a port changes, at the instance and in what was read of it.
LEMMA LisInv ==
    ASSUME NlbInv, At("listeners"), Found(rec.lb), NEW p \in Ports,
           NEW t \in GroupIds \cup {UserGroup, NoLis},
           lbs' = [lbs EXCEPT ![rec.lb].lis[p] = t],
           rec' = [rec EXCEPT !.lis[p] = t],
           UNCHANGED <<svc, past, eps, queued, sgs>>
    PROVE  /\ NlbInv'
           /\ lbs'[rec.lb].lis = [lbs[rec.lb].lis EXCEPT ![p] = t]
           /\ lbs'[rec.lb] # NoInst
           /\ \A j \in Lbs \ {rec.lb} : lbs'[j] = lbs[j]
           /\ OwnLbs' \subseteq OwnLbs /\ (Found(UserLb)' => Found(UserLb))
  <1> DEFINE new == [lbs[rec.lb] EXCEPT !.lis[p] = t]
             lis == [rec.lis EXCEPT ![p] = t]
  <1>1. /\ new \in Instances /\ new.deleting = lbs[rec.lb].deleting /\ new.lis = lis
        /\ new.kept = lbs[rec.lb].kept
    BY ListenerFacts DEF Instances
  <1>2. lbs' = [lbs EXCEPT ![rec.lb] = new] /\ rec' = [rec EXCEPT !.lis = lis]
    OBVIOUS
  <1>3. lis \in [Ports -> GroupIds \cup {UserGroup, NoLis}]
    BY ListenerFacts, RecFacts DEF NlbInv
  <1>4. lis = [lbs[rec.lb].lis EXCEPT ![p] = t]
    BY ListenerFacts
  <1> HIDE DEF new, lis
  <1>5. /\ rec' \in Recs /\ rec'.pc = "listeners" /\ rec'.lb = rec.lb
        /\ rec'.svc = rec.svc /\ rec'.seen = rec.seen /\ rec'.local = rec.local
        /\ rec'.failed = rec.failed /\ rec'.servers = rec.servers /\ rec'.lis = lis
        /\ rec' # NoRec
    BY <1>2, <1>3, ListenerFacts, NoneAssumption DEF Recs
  <1>6. /\ lbs' \in [Lbs -> Instances \cup {NoInst}]
        /\ lbs'[rec.lb] = new /\ new # NoInst
        /\ \A j \in Lbs \ {rec.lb} : lbs'[j] = lbs[j] /\ (Found(j)' <=> Found(j))
    BY <1>1, <1>2, ListenerFacts, PutFacts DEF NlbInv
  <1>7. TypeOK'
    BY <1>5, <1>6, ListenerFacts DEF NlbInv, TypeOK
  <1>8. ReadInv'
    BY <1>5, ListenerFacts DEF NlbInv, ReadInv, Deleting
  <1>9. \A j \in Lbs : Found(j)' => /\ Found(j) /\ lbs'[j].deleting = lbs[j].deleting
                                    /\ lbs'[j].kept = lbs[j].kept
    BY <1>1, <1>6
  <1>10. InstInv'
    BY <1>5, <1>9, ListenerFacts DEF NlbInv, InstInv, At
  <1>11. OwnLbs' \subseteq OwnLbs /\ (Found(UserLb)' => Found(UserLb))
    BY <1>9, ListenerFacts DEF OwnLbs
  <1>12. LeftInv'
    <2>1. OwnGroups' = OwnGroups
      BY DEF OwnGroups
    <2> QED
      BY <1>5, <1>11, <2>1, ListenerFacts DEF NlbInv, LeftInv, Deleting
  <1>13. SeenInv'
    BY <1>5, ListenerFacts DEF NlbInv, SeenInv
  <1>14. LocalInv'
    <2>1. LocalPorts' = LocalPorts
      BY <1>5 DEF LocalPorts, Deleting, Spec0
    <2>2. rec'.lis = lbs'[rec'.lb].lis
      BY <1>1, <1>5, <1>6
    <2> QED
      BY <1>5, <2>1, <2>2, ListenerFacts DEF NlbInv, LocalInv
  <1>15. NoOrphanNlb'
    BY ListenerFacts DEF NlbInv, NoOrphanNlb, ReadInv
  <1> QED
    BY <1>1, <1>4, <1>6, <1>7, <1>8, <1>10, <1>11, <1>12, <1>13, <1>14, <1>15 DEF NlbInv

LEMMA DeleteNLBListenerInv ==
    ASSUME NlbInv, DeleteNLBListener
    PROVE  NlbInv' /\ OwnLbs' \subseteq OwnLbs /\ (Found(UserLb)' => Found(UserLb))
  <1>1. PICK p \in LisToDelete : /\ Found(rec.lb)
                                 /\ lbs' = [lbs EXCEPT ![rec.lb].lis[p] = NoLis]
                                 /\ rec' = [rec EXCEPT !.lis[p] = NoLis]
    BY DEF DeleteNLBListener
  <1>2. p \in Ports
    BY DEF LisToDelete
  <1> QED
    BY <1>1, <1>2, LisInv DEF DeleteNLBListener

\* The port whose listener is set, and the group it is to forward to.
LEMMA SetFacts ==
    ASSUME NlbInv, SetNLBListener
    PROVE  /\ At("listeners") /\ Found(rec.lb) /\ Managed
           /\ \E p \in LocalPorts :
                 /\ p \in Ports /\ rec.local[p] \in GroupIds
                 /\ lbs' = [lbs EXCEPT ![rec.lb].lis[p] = rec.local[p]]
                 /\ rec' = [rec EXCEPT !.lis[p] = rec.local[p]]
           /\ UNCHANGED <<svc, past, eps, queued, sgs>>
  <1> DEFINE p == Smallest(LisToSet)
  <1>1. /\ At("listeners") /\ Managed /\ Found(rec.lb) /\ LisToSet # {}
        /\ lbs' = [lbs EXCEPT ![rec.lb].lis[p] = rec.local[p]]
        /\ rec' = [rec EXCEPT !.lis[p] = rec.local[p]]
        /\ UNCHANGED <<svc, past, eps, queued, sgs>>
    BY DEF SetNLBListener
  <1>2. LisToSet \subseteq Nat
    BY <1>1, ListenerFacts, NlbAssumption DEF LisToSet
  <1>3. p \in LisToSet
    BY <1>1, <1>2, SmallestIn
  <1>4. p \in LocalPorts /\ p \in Ports /\ rec.local[p] \in GroupIds
    BY <1>1, <1>3, ListenerFacts DEF LisToSet
  <1> HIDE DEF p
  <1> QED
    BY <1>1, <1>4

LEMMA SetNLBListenerInv ==
    ASSUME NlbInv, SetNLBListener
    PROVE  NlbInv' /\ OwnLbs' \subseteq OwnLbs /\ (Found(UserLb)' => Found(UserLb))
  BY SetFacts, LisInv

LEMMA ListenersDoneInv ==
    ASSUME NlbInv, ListenersDone
    PROVE  NlbInv'
  <1>1. /\ rec # NoRec /\ rec.pc = "listeners"
        /\ UNCHANGED <<svc, past, eps, queued, lbs, sgs>>
    BY DEF ListenersDone, At
  <1>2. /\ rec' \in Recs /\ rec' # NoRec /\ rec'.pc = "clean" /\ rec'.svc = rec.svc
        /\ rec'.lb = rec.lb /\ rec'.seen = rec.seen /\ rec'.local = rec.local
        /\ rec'.failed = rec.failed
    BY <1>1, GotoFacts DEF ListenersDone, Goto, Steps, NlbInv
  <1>3. TypeOK'
    BY <1>1, <1>2 DEF NlbInv, TypeOK
  <1>4. ReadInv'
    BY <1>1, <1>2 DEF NlbInv, ReadInv, Deleting
  <1>5. InstInv'
    BY <1>1, <1>2 DEF NlbInv, InstInv, Found, At
  <1>6. LeftInv'
    BY <1>1, <1>2 DEF NlbInv, LeftInv, Deleting, OwnLbs, OwnGroups, Found
  <1>7. SeenInv'
    BY <1>1, <1>2 DEF NlbInv, SeenInv
  <1>8. LocalInv'
    BY <1>1, <1>2 DEF NlbInv, LocalInv, LocalPorts, Deleting, Spec0
  <1>9. NoOrphanNlb'
    BY <1>1 DEF NlbInv, NoOrphanNlb, OwnLbs, OwnGroups, Found
  <1> QED
    BY <1>3, <1>4, <1>5, <1>6, <1>7, <1>8, <1>9 DEF NlbInv

\* The group that is cleaned loses its tags, all servers but the user's, or itself.
LEMMA CleanFacts ==
    ASSUME NlbInv, CleanGroup
    PROVE  /\ rec # NoRec /\ rec.pc = "clean" /\ rec \in Recs
           /\ UNCHANGED <<svc, past, eps, queued, lbs>>
           /\ sgs' \in [GroupIds -> Groups \cup {NoGroup}]
           /\ \E g \in GroupIds :
                 /\ rec.seen[g] # NoGroup
                 /\ rec' = [rec EXCEPT !.seen[g] = NoGroup]
                 /\ \A h \in GroupIds \ {g} : sgs'[h] = sgs[h]
                 /\ \/ sgs'[g] = NoGroup /\ ~Shared(g)
                    \/ sgs'[g] # NoGroup /\ ~sgs'[g].tag
                    \/ sgs'[g] # NoGroup /\ UserServer \in sgs'[g].servers
  <1>1. rec # NoRec /\ rec.pc = "clean" /\ rec \in Recs
    BY RecFacts DEF CleanGroup, At, NlbInv
  <1>2. PICK g \in Unused :
           /\ sgs[g] # NoGroup
           /\ \/ sgs' = [sgs EXCEPT ![g].tag = FALSE]
              \/ /\ Shared(g)
                 /\ sgs' = [sgs EXCEPT ![g].servers = @ \ (rec.seen[g].servers \ {UserServer})]
              \/ ~Shared(g) /\ sgs' = [sgs EXCEPT ![g] = NoGroup]
           /\ Cleaned(g)
    BY DEF CleanGroup
  <1>3. g \in GroupIds /\ rec.seen[g] # NoGroup /\ sgs[g] \in Groups
    BY <1>2 DEF Unused, NlbInv, TypeOK
  <1>4. rec' = [rec EXCEPT !.seen[g] = NoGroup]
    BY <1>2 DEF Cleaned
  <1>5. sgs \in [GroupIds -> Groups \cup {NoGroup}]
    BY DEF NlbInv, TypeOK
  <1>6. CASE sgs' = [sgs EXCEPT ![g].tag = FALSE]
    <2> DEFINE new == [sgs[g] EXCEPT !.tag = FALSE]
    <2>1. new \in Groups /\ ~new.tag
      BY <1>3 DEF Groups
    <2>2. new # NoGroup
      BY <2>1, NoneAssumption
    <2>3. sgs' = [sgs EXCEPT ![g] = new]
      BY <1>6
    <2> HIDE DEF new
    <2>4. /\ sgs' \in [GroupIds -> Groups \cup {NoGroup}] /\ sgs'[g] = new
          /\ \A h \in GroupIds \ {g} : sgs'[h] = sgs[h]
      BY <1>3, <1>5, <2>1, <2>3
    <2> QED
      BY <1>1, <1>3, <1>4, <2>1, <2>2, <2>4 DEF CleanGroup
  <1>7. CASE /\ Shared(g)
             /\ sgs' = [sgs EXCEPT ![g].servers = @ \ (rec.seen[g].servers \ {UserServer})]
    <2> DEFINE new == [sgs[g] EXCEPT !.servers = @ \ (rec.seen[g].servers \ {UserServer})]
    <2>1. new \in Groups /\ new.servers = sgs[g].servers \ (rec.seen[g].servers \ {UserServer})
      BY <1>3 DEF Groups
    <2>2. new # NoGroup
      BY <2>1, NoneAssumption
    <2>3. sgs' = [sgs EXCEPT ![g] = new]
      BY <1>7
    <2>4. UserServer \in sgs[g].servers
      BY <1>1, <1>3, <1>7 DEF NlbInv, SeenInv, Shared
    <2>5. UserServer \in new.servers
      BY <2>1, <2>4
    <2> HIDE DEF new
    <2>6. /\ sgs' \in [GroupIds -> Groups \cup {NoGroup}] /\ sgs'[g] = new
          /\ \A h \in GroupIds \ {g} : sgs'[h] = sgs[h]
      BY <1>3, <1>5, <2>1, <2>3
    <2> QED
      BY <1>1, <1>3, <1>4, <2>2, <2>5, <2>6 DEF CleanGroup
  <1>8. CASE ~Shared(g) /\ sgs' = [sgs EXCEPT ![g] = NoGroup]
    <2>1. /\ sgs' \in [GroupIds -> Groups \cup {NoGroup}] /\ sgs'[g] = NoGroup
          /\ \A h \in GroupIds \ {g} : sgs'[h] = sgs[h]
      BY <1>3, <1>5, <1>8
    <2> QED
      BY <1>1, <1>3, <1>4, <1>8, <2>1 DEF CleanGroup
  <1> QED
    BY <1>2, <1>6, <1>7, <1>8

LEMMA CleanGroupInv ==
    ASSUME NlbInv, CleanGroup
    PROVE  NlbInv'
  <1>1. /\ rec # NoRec /\ rec.pc = "clean" /\ rec \in Recs
        /\ UNCHANGED <<svc, past, eps, queued, lbs>>
        /\ sgs' \in [GroupIds -> Groups \cup {NoGroup}]
    BY CleanFacts
  <1>2. PICK g \in GroupIds :
           /\ rec' = [rec EXCEPT !.seen[g] = NoGroup]
           /\ \A h \in GroupIds \ {g} : sgs'[h] = sgs[h]
           /\ \/ sgs'[g] = NoGroup
              \/ sgs'[g] # NoGroup /\ ~sgs'[g].tag
              \/ sgs'[g] # NoGroup /\ UserServer \in sgs'[g].servers
    BY CleanFacts
  <1>3. [rec.seen EXCEPT ![g] = NoGroup] \in [GroupIds -> Groups \cup {NoGroup}]
    BY <1>1, RecFacts DEF NlbInv
  <1>4. /\ rec' \in Recs /\ rec'.pc = "clean" /\ rec'.lb = rec.lb /\ rec'.svc = rec.svc
        /\ rec'.seen = [rec.seen EXCEPT ![g] = NoGroup] /\ rec'.local = rec.local
        /\ rec'.failed = rec.failed /\ rec' # NoRec
    BY <1>1, <1>2, <1>3, NoneAssumption DEF Recs
  <1>5. rec'.seen[g] = NoGroup /\ \A h \in GroupIds \ {g} : rec'.seen[h] = rec.seen[h]
    BY <1>1, <1>4, RecFacts DEF NlbInv
  <1>6. OwnGroups' \subseteq OwnGroups \ {g} /\ OwnGroups \subseteq GroupIds
    BY <1>2 DEF OwnGroups
  <1>7. OwnLbs' = OwnLbs /\ (Found(UserLb)' <=> Found(UserLb))
    BY <1>1 DEF OwnLbs, Found
  <1>8. TypeOK'
    BY <1>1, <1>4 DEF NlbInv, TypeOK
  <1>9. ReadInv'
    BY <1>1, <1>4 DEF NlbInv, ReadInv, Deleting
  <1>10. InstInv'
    BY <1>1, <1>4 DEF NlbInv, InstInv, Found, At
  <1>11. LeftInv'
    BY <1>1, <1>4, <1>5, <1>6, <1>7 DEF NlbInv, LeftInv, Deleting
  <1>12. SeenInv'
    BY <1>1, <1>2, <1>4, <1>5 DEF NlbInv, SeenInv
  <1>13. LocalInv'
    BY <1>1, <1>4 DEF NlbInv, LocalInv, LocalPorts, Deleting, Spec0
  <1>14. NoOrphanNlb'
    BY <1>1 DEF NlbInv, NoOrphanNlb, ReadInv
  <1> QED
    BY <1>8, <1>9, <1>10, <1>11, <1>12, <1>13, <1>14 DEF NlbInv

LEMMA CleanupDoneInv ==
    ASSUME NlbInv, CleanupDone
    PROVE  NlbInv'
  <1>1. /\ rec # NoRec /\ rec.pc = "clean" /\ rec \in Recs /\ Unused = {}
        /\ UNCHANGED <<svc, past, eps, lbs, sgs>>
    BY RecFacts DEF CleanupDone, At, NlbInv
  <1>2. CASE ReturnErr
    BY <1>1, <1>2, ReturnInv DEF ReturnErr
  <1>3. CASE /\ rec' = [rec EXCEPT !.pc = "label", !.seen = NoGroups, !.local = NoPorts,
                                   !.lis = NoListeners]
             /\ UNCHANGED queued
    <2>1. /\ NoGroups \in [GroupIds -> Groups \cup {NoGroup}]
          /\ NoListeners \in [Ports -> GroupIds \cup {UserGroup, NoLis}]
          /\ "label" \in Steps
          /\ DOMAIN NoPorts = {} /\ \A g \in GroupIds : NoGroups[g] = NoGroup
      BY DEF NoGroups, NoListeners, Steps, NoPorts
    <2>2. NoPorts \in [{} -> GroupIds \cup {NoGroup}]
      BY DEF NoPorts
    <2>3. NoPorts \in Locals
      BY <2>2 DEF Locals
    <2>4. /\ rec' \in Recs /\ rec'.pc = "label" /\ rec'.lb = rec.lb /\ rec'.svc = rec.svc
          /\ rec'.seen = NoGroups /\ rec'.local = NoPorts
          /\ rec'.failed = rec.failed /\ rec' # NoRec
      <3>1. rec' = [rec EXCEPT !.pc = "label", !.seen = NoGroups, !.local = NoPorts,
                               !.lis = NoListeners]
        BY <1>3
      <3>2. rec \in Recs
        BY <1>1
      <3>3. /\ rec'.pc = "label" /\ rec'.lb = rec.lb /\ rec'.svc = rec.svc
            /\ rec'.seen = NoGroups /\ rec'.local = NoPorts /\ rec'.failed = rec.failed
        BY <3>1, <3>2 DEF Recs
      <3>4. rec' \in Recs
        BY <2>1, <2>3, <3>1, <3>2 DEF Recs
      <3> QED
        BY <3>3, <3>4, NoneAssumption
    <2>5. TypeOK'
      BY <1>1, <1>3, <2>1, <2>4 DEF NlbInv, TypeOK
    <2>6. ReadInv'
      BY <1>1, <2>4 DEF NlbInv, ReadInv
    <2>7. InstInv'
      BY <1>1, <2>4 DEF NlbInv, InstInv, Found, At
    <2>8. LeftInv'
      <3>1. Deleting => DOMAIN rec.local = {}
        BY <1>1 DEF NlbInv, LocalInv, LocalPorts
      <3>2. Deleting => \A g \in GroupIds : rec.seen[g] = NoGroup
        BY <1>1, <3>1 DEF Unused
      <3>3. OwnGroups \subseteq GroupIds
        BY DEF OwnGroups
      <3>4. Deleting => OwnLbs = {} /\ OwnGroups = {}
        BY <1>1, <3>2, <3>3 DEF NlbInv, LeftInv
      <3>5. OwnLbs' = OwnLbs /\ OwnGroups' = OwnGroups
        BY <1>1 DEF OwnLbs, OwnGroups, Found
      <3> QED
        BY <2>4, <3>4, <3>5 DEF LeftInv, Deleting
    <2>9. SeenInv'
      BY <2>1, <2>4 DEF SeenInv
    <2>10. LocalInv'
      BY <2>4 DEF LocalInv
    <2>11. NoOrphanNlb'
      BY <1>1 DEF NlbInv, NoOrphanNlb, OwnLbs, OwnGroups, Found
    <2> QED
      BY <2>5, <2>6, <2>7, <2>8, <2>9, <2>10, <2>11 DEF NlbInv
  <1> QED
    BY <1>2, <1>3 DEF CleanupDone

LEMMA PatchLabelInv ==
    ASSUME NlbInv, PatchLabel
    PROVE  NlbInv'
  <1> DEFINE label == IF Deleting THEN NoLabel ELSE Spec0
  <1>1. /\ rec # NoRec /\ rec.pc = "label" /\ svc' = [svc EXCEPT !.label = label]
        /\ UNCHANGED <<past, eps, queued, lbs, sgs>>
    BY DEF PatchLabel, At
  <1>2. label \in Specs \cup {NoLabel} /\ (label # NoLabel => label.need = "nlb")
    BY <1>1, SpecFacts DEF NlbInv, Deleting, NeedDeleteLoadBalancer, Spec0
  <1> HIDE DEF label
  <1>3. /\ rec' \in Recs /\ rec' # NoRec /\ rec'.pc = "status" /\ rec'.svc = rec.svc
        /\ rec'.lb = rec.lb /\ rec'.seen = rec.seen /\ rec'.local = rec.local
        /\ rec'.failed = rec.failed
    BY <1>1, GotoFacts DEF PatchLabel, Goto, Steps, NlbInv
  <1>4. svc' \in Services /\ svc'.spec = svc.spec /\ svc'.fin = svc.fin /\ svc'.label = label
    BY <1>1, <1>2 DEF NlbInv, TypeOK, Services
  <1>5. TypeOK'
    BY <1>1, <1>3, <1>4 DEF NlbInv, TypeOK
  <1>6. ReadInv'
    BY <1>1, <1>2, <1>3, <1>4 DEF NlbInv, ReadInv, Deleting
  <1>7. InstInv'
    BY <1>1, <1>3, <1>4 DEF NlbInv, InstInv, Found, At
  <1>8. LeftInv'
    BY <1>1, <1>3 DEF NlbInv, LeftInv, Deleting, OwnLbs, OwnGroups, Found
  <1>9. SeenInv'
    BY <1>1, <1>3 DEF NlbInv, SeenInv
  <1>10. LocalInv'
    BY <1>3 DEF LocalInv
  <1>11. NoOrphanNlb'
    BY <1>1, <1>4 DEF NlbInv, NoOrphanNlb, ReadInv
  <1> QED
    BY <1>5, <1>6, <1>7, <1>8, <1>9, <1>10, <1>11 DEF NlbInv

LEMMA PatchStatusInv ==
    ASSUME NlbInv, PatchStatus
    PROVE  NlbInv'
  <1> DEFINE host == IF Deleting THEN NoLb ELSE rec.lb
  <1>1. /\ rec # NoRec /\ rec.pc = "status" /\ svc' = [svc EXCEPT !.host = host]
        /\ UNCHANGED <<past, eps, queued, lbs, sgs>>
        /\ IF Deleting THEN Goto("unfin") ELSE rec' = NoRec
    BY DEF PatchStatus, At
  <1>2. host \in Lbs \cup {NoLb}
    BY <1>1, RecFacts DEF NlbInv
  <1> HIDE DEF host
  <1>3. svc' \in Services /\ svc'.spec = svc.spec /\ svc'.fin = svc.fin /\ svc'.label = svc.label
    BY <1>1, <1>2 DEF NlbInv, TypeOK, Services
  <1>4. NoOrphanNlb'
    BY <1>1, <1>3 DEF NlbInv, NoOrphanNlb, ReadInv
  <1>5. CASE rec' = NoRec
    <2>1. TypeOK'
      BY <1>1, <1>3, <1>5 DEF NlbInv, TypeOK
    <2>2. ReadInv' /\ LeftInv' /\ SeenInv' /\ LocalInv'
      BY <1>3, <1>5 DEF NlbInv, ReadInv, LeftInv, SeenInv, LocalInv
    <2>3. InstInv'
      BY <1>1, <1>3, <1>5 DEF NlbInv, InstInv, Found, At
    <2> QED
      BY <1>4, <2>1, <2>2, <2>3 DEF NlbInv
  <1>6. CASE Deleting /\ Goto("unfin")
    <2>1. /\ rec' \in Recs /\ rec' # NoRec /\ rec'.pc = "unfin" /\ rec'.svc = rec.svc
          /\ rec'.lb = rec.lb /\ rec'.seen = rec.seen /\ rec'.local = rec.local
          /\ rec'.failed = rec.failed
      BY <1>1, <1>6, GotoFacts DEF Goto, Steps, NlbInv
    <2>2. TypeOK'
      BY <1>1, <1>3, <2>1 DEF NlbInv, TypeOK
    <2>3. ReadInv'
      BY <1>1, <1>3, <1>6, <2>1 DEF NlbInv, ReadInv, Deleting
    <2>4. InstInv'
      BY <1>1, <1>3, <2>1 DEF NlbInv, InstInv, Found, At
    <2>5. LeftInv'
      BY <1>1, <2>1 DEF NlbInv, LeftInv, Deleting, OwnLbs, OwnGroups, Found
    <2>6. SeenInv'
      BY <1>1, <2>1 DEF NlbInv, SeenInv
    <2>7. LocalInv'
      BY <2>1 DEF LocalInv
    <2> QED
      BY <1>4, <2>2, <2>3, <2>4, <2>5, <2>6, <2>7 DEF NlbInv
  <1> QED
    BY <1>1, <1>5, <1>6

\* The finalizer goes when the cleanup that was read for has left nothing.
LEMMA RemoveFinalizersInv ==
    ASSUME NlbInv, RemoveFinalizers
    PROVE  NlbInv' /\ svc.fin /\ OwnLbs = {} /\ (Found(UserLb) => OwnGroups = {})
  <1> DEFINE phase == IF svc.phase = "deleting" THEN "gone" ELSE svc.phase
  <1>1. /\ rec # NoRec /\ rec.pc = "unfin" /\ rec' = NoRec
        /\ svc' = [svc EXCEPT !.fin = FALSE, !.phase = phase]
        /\ UNCHANGED <<past, eps, queued, lbs, sgs>>
    BY DEF RemoveFinalizers, At
  <1>2. phase \in {"live", "deleting", "gone"}
    BY DEF NlbInv, TypeOK, Services
  <1> HIDE DEF phase
  <1>3. svc' \in Services /\ svc'.spec = svc.spec /\ svc'.label = svc.label
    BY <1>1, <1>2 DEF NlbInv, TypeOK, Services
  <1>4. svc.fin /\ OwnLbs = {} /\ (Found(UserLb) => OwnGroups = {})
    BY <1>1 DEF NlbInv, ReadInv, LeftInv
  <1>5. NoOrphanNlb'
    BY <1>1, <1>4 DEF NoOrphanNlb, OwnLbs, OwnGroups, Found
  <1>6. TypeOK'
    BY <1>1, <1>3 DEF NlbInv, TypeOK
  <1>7. ReadInv' /\ LeftInv' /\ SeenInv' /\ LocalInv'
    BY <1>1, <1>3 DEF NlbInv, ReadInv, LeftInv, SeenInv, LocalInv
  <1>8. InstInv'
    BY <1>1, <1>3 DEF NlbInv, InstInv, Found, At
  <1> QED
    BY <1>4, <1>5, <1>6, <1>7, <1>8 DEF NlbInv

LEMMA AttrFailsInv ==
    ASSUME NlbInv, AttrFails
    PROVE  NlbInv'
  <1>1. /\ rec # NoRec /\ rec.pc = "attr" /\ rec \in Recs
        /\ rec' = [rec EXCEPT !.pc = "list", !.err = TRUE]
        /\ UNCHANGED <<svc, past, eps, queued, lbs, sgs>>
    BY RecFacts DEF AttrFails, At, NlbInv
  <1>2. /\ rec' \in Recs /\ rec'.pc = "list" /\ rec'.lb = rec.lb
        /\ rec'.svc = rec.svc /\ rec'.seen = rec.seen /\ rec'.local = rec.local
        /\ rec'.failed = rec.failed /\ rec' # NoRec
    <2>1. "list" \in Steps
      BY DEF Steps
    <2> QED
      BY <1>1, <2>1, ErrFacts
  <1>3. TypeOK'
    BY <1>1, <1>2 DEF NlbInv, TypeOK
  <1>4. ReadInv'
    BY <1>1, <1>2 DEF NlbInv, ReadInv, Deleting
  <1>5. InstInv'
    BY <1>1, <1>2 DEF NlbInv, InstInv, Found, At
  <1>6. LeftInv' /\ LocalInv'
    BY <1>1, <1>2 DEF NlbInv, ReadInv, LeftInv, LocalInv, Deleting
  <1>7. SeenInv'
    BY <1>1, <1>2 DEF NlbInv, SeenInv
  <1>8. NoOrphanNlb'
    BY <1>1 DEF NlbInv, NoOrphanNlb, OwnLbs, OwnGroups, Found
  <1> QED
    BY <1>3, <1>4, <1>5, <1>6, <1>7, <1>8 DEF NlbInv

-----------------------------------------------------------------------------
LEMMA InitInv ==
    ASSUME Init
    PROVE  NlbInv
  <1>1. PICK s \in Specs : svc = [phase |-> "live", spec |-> s, fin |-> FALSE,
                                  label |-> NoLabel, host |-> NoLb] /\ past = {s}
    BY DEF Init
  <1>2. svc \in Services /\ svc.label = NoLabel /\ ~svc.fin
    BY <1>1 DEF Services
  <1> DEFINE inst == [tag |-> FALSE, kept |-> TRUE, prot |-> TRUE, deleting |-> FALSE,
                      attr |-> CHOOSE a \in Attrs : TRUE,
                      lis |-> [p \in Ports |-> IF p \in UserPorts THEN UserGroup ELSE NoLis]]
  <1>3. inst \in Instances /\ ~inst.deleting
    <2>1. s.attr \in Attrs
      BY NlbAssumption
    <2>2. (CHOOSE a \in Attrs : TRUE) \in Attrs
      BY <2>1
    <2> QED
      BY <2>2 DEF Instances
  <1>4. lbs = [i \in Lbs |-> IF i # UserLb THEN NoInst ELSE inst]
    BY DEF Init
  <1> HIDE DEF inst
  <1>5. \A i \in LbIds : i \in Lbs /\ lbs[i] = NoInst
    BY <1>4, NlbAssumption DEF Lbs
  <1>6. UserLb \in Lbs /\ lbs[UserLb] = inst
    BY <1>4 DEF Lbs
  <1>7. TypeOK
    <2>1. lbs \in [Lbs -> Instances \cup {NoInst}]
      BY <1>3, <1>4
    <2>2. sgs \in [GroupIds -> Groups \cup {NoGroup}]
      BY DEF Init, NoGroups
    <2>3. 1 \in 1 .. Len(Scales)
      <3>1. Len(Scales) \in Nat /\ Len(Scales) # 0
        BY NlbAssumption
      <3> QED
        BY <3>1
    <2> QED
      BY <1>1, <1>2, <2>1, <2>2, <2>3 DEF Init, TypeOK
  <1>8. rec = NoRec
    BY DEF Init
  <1>9. ReadInv /\ LeftInv /\ SeenInv /\ LocalInv
    BY <1>2, <1>8 DEF ReadInv, LeftInv, SeenInv, LocalInv
  <1>10. InstInv
    BY <1>3, <1>5, <1>6, <1>8 DEF InstInv, Found, At
  <1>11. NoOrphanNlb
    <2>1. OwnLbs = {}
      BY <1>5 DEF OwnLbs, Found
    <2>2. OwnGroups = {}
      BY DEF Init, OwnGroups, NoGroups
    <2> QED
      BY <2>1, <2>2 DEF NoOrphanNlb
  <1> QED
    BY <1>7, <1>9, <1>10, <1>11 DEF NlbInv

LEMMA NextInv ==
    ASSUME NlbInv, [Next]_vars
    PROVE  NlbInv'
  <1>1. CASE Begin \/ AddFinalizers \/ Find \/ FindNothing
    BY <1>1, BeginInv, AddFinalizersInv, FindInv, FindNothingInv
  <1>2. CASE ProtectionOff \/ Untag \/ DeleteNLB \/ WaitJobFinish
    BY <1>2, ProtectionOffInv, UntagInv, DeleteNLBInv, WaitJobFinishInv
  <1>3. CASE CreateNLB \/ TagNLB \/ UpdateNLB \/ AttrFails
    BY <1>3, CreateNLBInv, TagNLBInv, UpdateNLBInv, AttrFailsInv
  <1>4. CASE ListServerGroups \/ CreateServerGroup \/ AddServers \/ RemoveServers
    BY <1>4, ListServerGroupsInv, CreateServerGroupInv, AddServersInv, RemoveServersInv
  <1>5. CASE GroupRefused \/ GroupFails
    BY <1>5, GroupErrInv DEF GroupRefused, GroupFails
  <1>6. CASE GroupsDone \/ DeleteNLBListener \/ SetNLBListener \/ ListenersDone
    BY <1>6, GroupsDoneInv, DeleteNLBListenerInv, SetNLBListenerInv, ListenersDoneInv
  <1>7. CASE CleanGroup \/ CleanupDone \/ PatchLabel \/ PatchStatus \/ RemoveFinalizers
    BY <1>7, CleanGroupInv, CleanupDoneInv, PatchLabelInv, PatchStatusInv, RemoveFinalizersInv
  <1>8. CASE Fail \/ CallFails \/ ReadFails
    BY <1>8, ReturnInv DEF Fail, CallFails, ReturnErr, ReadFails
  <1>9. CASE Restart
    <2>1. queued' \in BOOLEAN
      BY <1>9 DEF Restart, NeedAdd, NlbInv, TypeOK, Services
    <2> QED
      BY <1>9, <2>1, ReturnInv DEF Restart
  <1>10. CASE JobDone \/ Edit \/ DeleteService \/ Scale \/ ScaleLost
    BY <1>10, WorldInv, JobDoneWorld, EditWorld, DeleteServiceWorld, ScaleWorld
  <1>11. CASE ConsoleAddServer \/ ConsoleDeleteLb
    BY <1>11, WorldInv, ConsoleAddServerWorld, ConsoleDeleteLbWorld
  <1>12. CASE UNCHANGED vars
    BY <1>12 DEF vars, NlbInv, TypeOK, ReadInv, InstInv, LeftInv, SeenInv, LocalInv, NoOrphanNlb,
       OwnLbs, OwnGroups, Found, At, Deleting, LocalPorts, Spec0
  <1> QED
    BY <1>1, <1>2, <1>3, <1>4, <1>5, <1>6, <1>7, <1>8, <1>9, <1>10, <1>11, <1>12
       DEF Next, Step, Fault, Users

\* The inductive invariant: what the reconcile has read stays true enough of the
\* service and the cloud while users, jobs and faults go on.
THEOREM NlbInvariant == Spec => []NlbInv
  <1>1. Init => NlbInv
    BY InitInv
  <1>2. NlbInv /\ [Next]_vars => NlbInv'
    BY NextInv
  <1> QED
    BY <1>1, <1>2, PTL DEF Spec

\* Every variable has its type, in all behaviours of the controller.
THEOREM NlbTypes == Spec => []TypeOK
  <1>1. NlbInv => TypeOK
    BY DEF NlbInv
  <1> QED
    BY <1>1, NlbInvariant, PTL

\* Without the finalizer nothing of the service is left in the cloud, whichever call
\* failed and wherever the process died.
THEOREM NlbNoOrphan == Spec => []NoOrphanNlb
  <1>1. NlbInv => NoOrphanNlb
    BY DEF NlbInv
  <1> QED
    BY <1>1, NlbInvariant, PTL

-----------------------------------------------------------------------------
(* What a step does to listeners.                                          *)

\* Instances keep their listeners; they go only when the reconcile does nothing.
LisKept ==
    \A i \in Lbs : Found(i) => \/ lbs'[i] # NoInst /\ lbs'[i].lis = lbs[i].lis
                               \/ lbs'[i] = NoInst /\ rec' = rec

LEMMA WriteKeepsLis ==
    ASSUME TypeOK, NEW k \in Lbs, NEW new \in Instances, lbs' = [lbs EXCEPT ![k] = new],
           Found(k) => new.lis = lbs[k].lis
    PROVE  LisKept
  BY PutFacts DEF LisKept, Found

LEMMA AttrFacts ==
    ASSUME NlbInv, rec # NoRec, rec.pc \in {"off", "untag", "delete", "tag", "attr"}, Found(rec.lb)
    PROVE  rec.lb \in Lbs /\ lbs[rec.lb] \in Instances
  BY RecFacts DEF NlbInv, TypeOK, Found

\* The instance that is made, and where.
LEMMA CreateFacts ==
    ASSUME NlbInv, CreateNLB
    PROVE  \E k \in LbIds : \E new \in Instances :
              /\ lbs' = [lbs EXCEPT ![k] = new] /\ ~Found(k)
              /\ ~new.kept /\ ~new.deleting
  <1> DEFINE k == Smallest({j \in LbIds : ~Found(j)})
             new == [tag |-> FALSE, kept |-> FALSE, prot |-> TRUE, deleting |-> FALSE,
                     attr |-> Spec0.attr, lis |-> NoListeners]
  <1>1. rec # NoRec /\ lbs' = [lbs EXCEPT ![k] = new]
    BY DEF CreateNLB, At
  <1>2. k \in LbIds /\ ~Found(k)
    <2>1. {j \in LbIds : ~Found(j)} \subseteq Nat /\ {j \in LbIds : ~Found(j)} # {}
      BY NlbAssumption DEF CreateNLB
    <2>2. k \in {j \in LbIds : ~Found(j)}
      BY <2>1, SmallestIn
    <2> QED
      BY <2>2
  <1>3. new \in Instances /\ ~new.kept /\ ~new.deleting
    <2>1. NoListeners \in [Ports -> GroupIds \cup {UserGroup, NoLis}]
      BY DEF NoListeners
    <2> QED
      BY <1>1, <2>1, SpecFacts DEF NlbInv, Instances
  <1> HIDE DEF k, new
  <1> QED
    BY <1>1, <1>2, <1>3

LEMMA OtherStepsKeepLis ==
    ASSUME NlbInv, [Next]_vars, ~DeleteNLBListener, ~SetNLBListener
    PROVE  LisKept
  <1>1. CASE lbs' = lbs
    BY <1>1 DEF LisKept, Found
  <1>2. CASE JobDone \/ ConsoleDeleteLb
    <2>1. WorldStep /\ rec' = rec
      BY <1>2, JobDoneWorld, ConsoleDeleteLbWorld
    <2> QED
      BY <2>1 DEF WorldStep, LisKept, Found
  <1>3. CASE ProtectionOff
    <2> DEFINE new == [lbs[rec.lb] EXCEPT !.prot = FALSE]
    <2>1. rec # NoRec /\ rec.pc = "off" /\ Found(rec.lb) /\ lbs' = [lbs EXCEPT ![rec.lb] = new]
      BY <1>3 DEF ProtectionOff, At
    <2>2. rec.lb \in Lbs /\ new \in Instances /\ new.lis = lbs[rec.lb].lis
      BY <2>1, AttrFacts DEF Instances
    <2> HIDE DEF new
    <2> QED
      BY <2>1, <2>2, WriteKeepsLis DEF NlbInv
  <1>4. CASE Untag
    <2> DEFINE new == [lbs[rec.lb] EXCEPT !.tag = FALSE, !.kept = TRUE]
    <2>1. rec # NoRec /\ rec.pc = "untag" /\ Found(rec.lb)
      BY <1>4 DEF Untag, At
    <2>2. rec.lb \in Lbs /\ new \in Instances /\ new.lis = lbs[rec.lb].lis
      BY <2>1, AttrFacts DEF Instances
    <2>3. lbs' = [lbs EXCEPT ![rec.lb] = new]
      BY <1>4, <2>1, AttrFacts DEF Untag, NlbInv, TypeOK, Instances
    <2> HIDE DEF new
    <2> QED
      BY <2>2, <2>3, WriteKeepsLis DEF NlbInv
  <1>5. CASE DeleteNLB
    <2> DEFINE new == [lbs[rec.lb] EXCEPT !.deleting = TRUE]
    <2>1. rec # NoRec /\ rec.pc = "delete" /\ Found(rec.lb) /\ lbs' = [lbs EXCEPT ![rec.lb] = new]
      BY <1>5 DEF DeleteNLB, At
    <2>2. rec.lb \in Lbs /\ new \in Instances /\ new.lis = lbs[rec.lb].lis
      BY <2>1, AttrFacts DEF Instances
    <2> HIDE DEF new
    <2> QED
      BY <2>1, <2>2, WriteKeepsLis DEF NlbInv
  <1>6. CASE TagNLB
    <2> DEFINE new == [lbs[rec.lb] EXCEPT !.tag = TRUE]
    <2>1. rec # NoRec /\ rec.pc = "tag" /\ Found(rec.lb) /\ lbs' = [lbs EXCEPT ![rec.lb] = new]
      BY <1>6 DEF TagNLB, At
    <2>2. rec.lb \in Lbs /\ new \in Instances /\ new.lis = lbs[rec.lb].lis
      BY <2>1, AttrFacts DEF Instances
    <2> HIDE DEF new
    <2> QED
      BY <2>1, <2>2, WriteKeepsLis DEF NlbInv
  <1>7. CASE UpdateNLB
    <2> DEFINE new == [lbs[rec.lb] EXCEPT !.attr = Spec0.attr]
    <2>1. rec # NoRec /\ rec.pc = "attr" /\ Found(rec.lb) /\ lbs' = [lbs EXCEPT ![rec.lb] = new]
      BY <1>7 DEF UpdateNLB, At
    <2>2. rec.lb \in Lbs /\ new \in Instances /\ new.lis = lbs[rec.lb].lis
      BY <2>1, AttrFacts, SpecFacts DEF Instances, NlbInv
    <2> HIDE DEF new
    <2> QED
      BY <2>1, <2>2, WriteKeepsLis DEF NlbInv
  <1>8. CASE CreateNLB
    <2>1. PICK k \in LbIds : \E new \in Instances : lbs' = [lbs EXCEPT ![k] = new] /\ ~Found(k)
      BY <1>8, CreateFacts
    <2>2. k \in Lbs
      BY <2>1 DEF Lbs
    <2> QED
      BY <2>1, <2>2, WriteKeepsLis DEF NlbInv
  <1>9. CASE Begin \/ AddFinalizers \/ Find \/ FindNothing \/ WaitJobFinish \/ AttrFails \/ CallFails \/ ReadFails
    BY <1>1, <1>9 DEF Begin, AddFinalizers, Find, FindNothing, WaitJobFinish, AttrFails, CallFails,
       ReadFails
  <1>10. CASE ListServerGroups \/ CreateServerGroup \/ AddServers \/ RemoveServers \/ GroupsDone
    BY <1>1, <1>10 DEF ListServerGroups, CreateServerGroup, AddServers, RemoveServers, GroupsDone
  <1>11. CASE GroupRefused \/ GroupFails \/ ListenersDone \/ CleanGroup \/ CleanupDone
    BY <1>1, <1>11 DEF GroupRefused, GroupFails, GroupErr, ListenersDone, CleanGroup, CleanupDone
  <1>12. CASE PatchLabel \/ PatchStatus \/ RemoveFinalizers \/ Fail \/ Restart
    BY <1>1, <1>12 DEF PatchLabel, PatchStatus, RemoveFinalizers, Fail, Restart
  <1>13. CASE Edit \/ DeleteService \/ Scale \/ ScaleLost \/ ConsoleAddServer \/ UNCHANGED vars
    BY <1>1, <1>13 DEF Edit, DeleteService, Scale, ScaleLost, Rescale, ConsoleAddServer, vars
  <1> QED
    BY <1>2, <1>3, <1>4, <1>5, <1>6, <1>7, <1>8, <1>9, <1>10, <1>11, <1>12, <1>13
       DEF Next, Step, Fault, Users

\* What the two calls on listeners do.
LEMMA ListenerStep ==
    ASSUME NlbInv, DeleteNLBListener \/ SetNLBListener
    PROVE  /\ At("listeners") /\ Found(rec.lb) /\ Managed /\ sgs' = sgs
           /\ \A j \in Lbs \ {rec.lb} : lbs'[j] = lbs[j]
           /\ lbs'[rec.lb] # NoInst
           /\ \E p \in Ports, t \in GroupIds \cup {NoLis} :
                 /\ lbs'[rec.lb].lis = [lbs[rec.lb].lis EXCEPT ![p] = t]
                 /\ \/ t = NoLis /\ p \in LisToDelete
                    \/ p \in LocalPorts /\ t = rec.local[p]
  <1>1. CASE DeleteNLBListener
    <2>1. PICK p \in LisToDelete : /\ Found(rec.lb)
                                   /\ lbs' = [lbs EXCEPT ![rec.lb].lis[p] = NoLis]
                                   /\ rec' = [rec EXCEPT !.lis[p] = NoLis]
      BY <1>1 DEF DeleteNLBListener
    <2>2. p \in Ports
      BY DEF LisToDelete
    <2>3. At("listeners") /\ Managed /\ UNCHANGED <<svc, past, eps, queued, sgs>>
      BY <1>1 DEF DeleteNLBListener
    <2>4. /\ lbs'[rec.lb].lis = [lbs[rec.lb].lis EXCEPT ![p] = NoLis]
          /\ lbs'[rec.lb] # NoInst
          /\ \A j \in Lbs \ {rec.lb} : lbs'[j] = lbs[j]
      BY <2>1, <2>2, <2>3, LisInv
    <2> QED
      BY <2>1, <2>2, <2>3, <2>4
  <1>2. CASE SetNLBListener
    <2>1. PICK p \in LocalPorts : /\ p \in Ports /\ rec.local[p] \in GroupIds
                                  /\ lbs' = [lbs EXCEPT ![rec.lb].lis[p] = rec.local[p]]
                                  /\ rec' = [rec EXCEPT !.lis[p] = rec.local[p]]
      BY <1>2, SetFacts
    <2>2. At("listeners") /\ Found(rec.lb) /\ Managed /\ UNCHANGED <<svc, past, eps, queued, sgs>>
      BY <1>2, SetFacts
    <2>3. /\ lbs'[rec.lb].lis = [lbs[rec.lb].lis EXCEPT ![p] = rec.local[p]]
          /\ lbs'[rec.lb] # NoInst
          /\ \A j \in Lbs \ {rec.lb} : lbs'[j] = lbs[j]
      BY <2>1, <2>2, LisInv
    <2> QED
      BY <2>1, <2>2, <2>3
  <1> QED
    BY <1>1, <1>2

\* A listener is pointed only at a group that has all the servers the reconcile read.
THEOREM NlbFilledBeforeUse == Spec => FilledBeforeUse
  <1> DEFINE Filled ==
        \A i \in Lbs, p \in Ports :
          /\ Found(i) /\ lbs'[i] # NoInst
          /\ lbs'[i].lis[p] # lbs[i].lis[p]
          /\ lbs'[i].lis[p] \in GroupIds
          => sgs[lbs'[i].lis[p]].servers \ {UserServer} = rec.servers
  <1>1. ASSUME NlbInv, [Next]_vars PROVE Filled
    <2>1. CASE ~DeleteNLBListener /\ ~SetNLBListener
      BY <1>1, <2>1, OtherStepsKeepLis DEF LisKept
    <2>2. CASE DeleteNLBListener \/ SetNLBListener
      <3>1. /\ At("listeners") /\ Found(rec.lb)
            /\ \A j \in Lbs \ {rec.lb} : lbs'[j] = lbs[j]
        BY <1>1, <2>2, ListenerStep
      <3>2. PICK q \in Ports, t \in GroupIds \cup {NoLis} :
               /\ lbs'[rec.lb].lis = [lbs[rec.lb].lis EXCEPT ![q] = t]
               /\ \/ t = NoLis
                  \/ q \in LocalPorts /\ t = rec.local[q]
        BY <1>1, <2>2, ListenerStep
      <3>3. lbs[rec.lb].lis \in [Ports -> GroupIds \cup {UserGroup, NoLis}]
        BY <1>1, <3>1, ListenerFacts DEF Instances
      <3>4. \A p \in Ports : lbs'[rec.lb].lis[p] # lbs[rec.lb].lis[p] => p = q /\ lbs'[rec.lb].lis[p] = t
        BY <3>2, <3>3
      <3>5. t \in GroupIds => sgs[t].servers \ {UserServer} = rec.servers
        <4>1. NoLis \notin GroupIds
          BY NlbAssumption
        <4> QED
          BY <1>1, <3>1, <3>2, <4>1, ListenerFacts
      <3> QED
        BY <3>1, <3>4, <3>5
    <2> QED
      BY <2>1, <2>2
  <1>2. NlbInv /\ [Next]_vars => [Filled]_vars
    BY <1>1
  <1> QED
    BY <1>2, NlbInvariant, PTL DEF Spec, FilledBeforeUse

\* Groups go only in the cleanup, and none that has a server of the user.
LEMMA SharedGroupsKept ==
    ASSUME NlbInv, [Next]_vars, rec # NoRec, rec' # rec,
           NEW g \in GroupIds, rec.seen[g] # NoGroup, Shared(g)
    PROVE  sgs'[g] # NoGroup
  <1>1. sgs[g] # NoGroup
    BY DEF NlbInv, SeenInv
  <1>2. CASE sgs' = sgs
    BY <1>1, <1>2
  <1>3. CASE CreateServerGroup
    BY <1>1, <1>3, CreateServerGroupInv
  <1>4. CASE AddServers \/ RemoveServers
    BY <1>1, <1>4, AddServersInv, RemoveServersInv
  <1>5. CASE CleanGroup
    BY <1>1, <1>5, CleanFacts
  <1>6. CASE Begin \/ AddFinalizers \/ Find \/ FindNothing \/ WaitJobFinish \/ AttrFails \/ CallFails \/ ReadFails
    BY <1>2, <1>6 DEF Begin, AddFinalizers, Find, FindNothing, WaitJobFinish, AttrFails, CallFails,
       ReadFails
  <1>7. CASE ProtectionOff \/ Untag \/ DeleteNLB \/ CreateNLB \/ TagNLB \/ UpdateNLB
    BY <1>2, <1>7 DEF ProtectionOff, Untag, DeleteNLB, CreateNLB, TagNLB, UpdateNLB
  <1>8. CASE ListServerGroups \/ GroupsDone \/ DeleteNLBListener \/ SetNLBListener
    BY <1>2, <1>8 DEF ListServerGroups, GroupsDone, DeleteNLBListener, SetNLBListener
  <1>9. CASE GroupRefused \/ GroupFails \/ ListenersDone \/ CleanupDone
    BY <1>2, <1>9 DEF GroupRefused, GroupFails, GroupErr, ListenersDone, CleanupDone
  <1>10. CASE PatchLabel \/ PatchStatus \/ RemoveFinalizers \/ Fail \/ Restart
    BY <1>2, <1>10 DEF PatchLabel, PatchStatus, RemoveFinalizers, Fail, Restart
  <1>11. CASE JobDone \/ Edit \/ DeleteService \/ Scale \/ ScaleLost
    BY <1>11 DEF JobDone, Edit, DeleteService, Scale, ScaleLost, Rescale
  <1>12. CASE ConsoleAddServer \/ ConsoleDeleteLb \/ UNCHANGED vars
    BY <1>12 DEF ConsoleAddServer, ConsoleDeleteLb, vars
  <1> QED
    BY <1>3, <1>4, <1>5, <1>6, <1>7, <1>8, <1>9, <1>10, <1>11, <1>12
       DEF Next, Step, Fault, Users

\* The controller never deletes the user's instance, a listener of the user that no
\* port of the service claims, or a group in which it saw a user's server.
THEOREM NlbUserResourcesKept == Spec => UserResourcesKept
  <1> DEFINE Kept ==
        /\ rec # NoRec /\ Found(UserLb) /\ rec' # rec
        => /\ lbs'[UserLb] # NoInst
           /\ \A p \in Ports : lbs[UserLb].lis[p] = UserGroup
                               => \/ lbs'[UserLb].lis[p] = UserGroup
                                  \/ Spec0.override /\ p \in LocalPorts
           /\ \A g \in GroupIds :
                 rec.seen[g] # NoGroup /\ Shared(g) => sgs'[g] # NoGroup
  <1>1. ASSUME NlbInv, [Next]_vars, rec # NoRec, Found(UserLb), rec' # rec
        PROVE  /\ lbs'[UserLb] # NoInst
               /\ \A p \in Ports : lbs[UserLb].lis[p] = UserGroup
                                   => \/ lbs'[UserLb].lis[p] = UserGroup
                                      \/ Spec0.override /\ p \in LocalPorts
    <2>1. UserLb \in Lbs
      BY DEF Lbs
    <2>2. CASE ~DeleteNLBListener /\ ~SetNLBListener
      BY <1>1, <2>1, <2>2, OtherStepsKeepLis DEF LisKept
    <2>3. CASE DeleteNLBListener \/ SetNLBListener
      <3>1. /\ At("listeners") /\ Found(rec.lb) /\ Managed /\ lbs'[rec.lb] # NoInst
            /\ \A j \in Lbs \ {rec.lb} : lbs'[j] = lbs[j]
        BY <1>1, <2>3, ListenerStep
      <3>2. PICK q \in Ports, t \in GroupIds \cup {NoLis} :
               /\ lbs'[rec.lb].lis = [lbs[rec.lb].lis EXCEPT ![q] = t]
               /\ \/ t = NoLis /\ q \in LisToDelete
                  \/ q \in LocalPorts /\ t = rec.local[q]
        BY <1>1, <2>3, ListenerStep
      <3>3. CASE rec.lb # UserLb
        BY <1>1, <2>1, <3>1, <3>3 DEF Found
      <3>4. CASE rec.lb = UserLb
        <4>1. rec.svc.spec.user
          BY <1>1, <3>4 DEF NlbInv, ReadInv
        <4>2. Spec0.override
          BY <3>1, <4>1 DEF Managed, IsUserManaged
        <4>3. /\ lbs[UserLb].lis \in [Ports -> GroupIds \cup {UserGroup, NoLis}]
              /\ rec.lis = lbs[UserLb].lis
          BY <1>1, <3>1, <3>4, ListenerFacts DEF Instances
        <4>4. q \in LisToDelete => lbs[UserLb].lis[q] # UserGroup
          BY <4>1, <4>3 DEF LisToDelete, IsUserManaged
        <4>5. \A p \in Ports \ {q} : lbs'[UserLb].lis[p] = lbs[UserLb].lis[p]
          BY <3>2, <3>4, <4>3
        <4>6. lbs[UserLb].lis[q] = UserGroup => q \in LocalPorts
          BY <3>2, <4>4
        <4> QED
          BY <3>1, <3>4, <4>2, <4>5, <4>6
      <3> QED
        BY <3>3, <3>4
    <2> QED
      BY <2>2, <2>3
  <1>2. NlbInv /\ [Next]_vars => [Kept]_vars
    BY <1>1, SharedGroupsKept
  <1> QED
    BY <1>2, NlbInvariant, PTL DEF Spec, UserResourcesKept

-----------------------------------------------------------------------------
(* The promise of OwnedResource.                                           *)

LEMMA OwnedFacts ==
    /\ \A r : r \in Owned <=> \/ \E i \in OwnLbs : r = <<"lb", i>>
                              \/ Found(UserLb) /\ \E g \in OwnGroups : r = <<"group", g>>
    /\ Owned \subseteq ({"lb"} \X LbIds) \cup ({"group"} \X GroupIds)
    /\ \A i : <<"lb", i>> \in Owned <=> i \in OwnLbs
    /\ \A g : <<"group", g>> \in Owned <=> Found(UserLb) /\ g \in OwnGroups
  <1>1. \A r : r \in Owned <=> \/ \E i \in OwnLbs : r = <<"lb", i>>
                               \/ Found(UserLb) /\ \E g \in OwnGroups : r = <<"group", g>>
    BY DEF Owned
  <1>2. OwnLbs \subseteq LbIds /\ OwnGroups \subseteq GroupIds
    BY DEF OwnLbs, OwnGroups
  <1> QED
    BY <1>1, <1>2

\* What is taken away is freed, and only under the finalizer there is any.
LEMMA ShrinkOwned ==
    ASSUME NlbInv, svc'.phase = svc.phase, svc'.fin = svc.fin,
           OwnLbs' \subseteq OwnLbs, OwnGroups' \subseteq OwnGroups,
           Found(UserLb)' => Found(UserLb)
    PROVE  UNCHANGED Promise!ownedVars \/ Promise!Free
  <1>1. Owned' \subseteq Owned
    BY DEF Owned
  <1>2. CASE Owned' = Owned
    BY <1>2 DEF Promise!ownedVars
  <1>3. CASE Owned' # Owned
    <2>1. svc.fin
      <3>1. ~svc.fin => Owned = {}
        BY DEF NlbInv, NoOrphanNlb, Owned
      <3> QED
        BY <1>1, <1>3, <3>1
    <2> DEFINE gone == Owned \ Owned'
    <2>2. gone \in (SUBSET Owned) \ {{}} /\ Owned' = Owned \ gone
      BY <1>1, <1>3
    <2> QED
      BY <2>1, <2>2 DEF Promise!Free
  <1> QED
    BY <1>2, <1>3

\* An instance that is written was the service's before, if it is now.
LEMMA WriteShrinks ==
    ASSUME TypeOK, NEW k \in Lbs, NEW new \in Instances, Found(k), lbs' = [lbs EXCEPT ![k] = new],
           lbs[k].kept => new.kept, lbs[k].deleting => new.deleting
    PROVE  OwnLbs' \subseteq OwnLbs /\ (Found(UserLb)' => Found(UserLb))
  BY PutFacts DEF OwnLbs, Lbs

LEMMA WriteOwned ==
    ASSUME NlbInv, ProtectionOff \/ Untag \/ DeleteNLB \/ TagNLB \/ UpdateNLB
    PROVE  OwnLbs' \subseteq OwnLbs /\ (Found(UserLb)' => Found(UserLb))
  <1>1. CASE ProtectionOff
    <2> DEFINE new == [lbs[rec.lb] EXCEPT !.prot = FALSE]
    <2>1. rec # NoRec /\ rec.pc = "off" /\ Found(rec.lb) /\ lbs' = [lbs EXCEPT ![rec.lb] = new]
      BY <1>1 DEF ProtectionOff, At
    <2>2. /\ rec.lb \in Lbs /\ new \in Instances
          /\ new.kept = lbs[rec.lb].kept /\ new.deleting = lbs[rec.lb].deleting
      BY <2>1, AttrFacts DEF Instances
    <2> HIDE DEF new
    <2> QED
      BY <2>1, <2>2, WriteShrinks DEF NlbInv
  <1>2. CASE Untag
    <2> DEFINE new == [lbs[rec.lb] EXCEPT !.tag = FALSE, !.kept = TRUE]
    <2>1. rec # NoRec /\ rec.pc = "untag" /\ Found(rec.lb)
      BY <1>2 DEF Untag, At
    <2>2. rec.lb \in Lbs /\ new \in Instances /\ new.kept /\ new.deleting = lbs[rec.lb].deleting
      BY <2>1, AttrFacts DEF Instances
    <2>3. lbs' = [lbs EXCEPT ![rec.lb] = new]
      BY <1>2, <2>1, AttrFacts DEF Untag, NlbInv, TypeOK, Instances
    <2> HIDE DEF new
    <2> QED
      BY <2>1, <2>2, <2>3, WriteShrinks DEF NlbInv
  <1>3. CASE DeleteNLB
    <2> DEFINE new == [lbs[rec.lb] EXCEPT !.deleting = TRUE]
    <2>1. rec # NoRec /\ rec.pc = "delete" /\ Found(rec.lb) /\ lbs' = [lbs EXCEPT ![rec.lb] = new]
      BY <1>3 DEF DeleteNLB, At
    <2>2. rec.lb \in Lbs /\ new \in Instances /\ new.kept = lbs[rec.lb].kept /\ new.deleting
      BY <2>1, AttrFacts DEF Instances
    <2> HIDE DEF new
    <2> QED
      BY <2>1, <2>2, WriteShrinks DEF NlbInv
  <1>4. CASE TagNLB
    <2> DEFINE new == [lbs[rec.lb] EXCEPT !.tag = TRUE]
    <2>1. rec # NoRec /\ rec.pc = "tag" /\ Found(rec.lb) /\ lbs' = [lbs EXCEPT ![rec.lb] = new]
      BY <1>4 DEF TagNLB, At
    <2>2. /\ rec.lb \in Lbs /\ new \in Instances
          /\ new.kept = lbs[rec.lb].kept /\ new.deleting = lbs[rec.lb].deleting
      BY <2>1, AttrFacts DEF Instances
    <2> HIDE DEF new
    <2> QED
      BY <2>1, <2>2, WriteShrinks DEF NlbInv
  <1>5. CASE UpdateNLB
    <2> DEFINE new == [lbs[rec.lb] EXCEPT !.attr = Spec0.attr]
    <2>1. rec # NoRec /\ rec.pc = "attr" /\ Found(rec.lb) /\ lbs' = [lbs EXCEPT ![rec.lb] = new]
      BY <1>5 DEF UpdateNLB, At
    <2>2. /\ rec.lb \in Lbs /\ new \in Instances
          /\ new.kept = lbs[rec.lb].kept /\ new.deleting = lbs[rec.lb].deleting
      BY <2>1, AttrFacts, SpecFacts DEF Instances, NlbInv
    <2> HIDE DEF new
    <2> QED
      BY <2>1, <2>2, WriteShrinks DEF NlbInv
  <1> QED
    BY <1>1, <1>2, <1>3, <1>4, <1>5

\* One instance more, under the finalizer.
LEMMA CreateNLBOwned ==
    ASSUME NlbInv, CreateNLB
    PROVE  Promise!Make
  <1>1. svc.fin /\ svc' = svc /\ sgs' = sgs
    BY DEF CreateNLB, At, NlbInv, ReadInv
  <1>2. PICK k \in LbIds : \E new \in Instances : /\ lbs' = [lbs EXCEPT ![k] = new] /\ ~Found(k)
                                                  /\ ~new.kept /\ ~new.deleting
    BY CreateFacts
  <1>3. k \in Lbs /\ UserLb \in Lbs /\ LbIds \subseteq Lbs /\ k # UserLb
    BY NlbAssumption DEF Lbs
  <1>4. /\ ~Found(k) /\ lbs'[k] # NoInst /\ ~lbs'[k].kept /\ ~lbs'[k].deleting
        /\ \A j \in Lbs \ {k} : lbs'[j] = lbs[j] /\ (Found(j)' <=> Found(j))
    BY <1>2, <1>3, PutFacts DEF NlbInv
  <1>5. OwnLbs' = OwnLbs \cup {k} /\ k \notin OwnLbs
    BY <1>3, <1>4 DEF OwnLbs, Found
  <1>6. OwnGroups' = OwnGroups /\ (Found(UserLb)' <=> Found(UserLb))
    BY <1>1, <1>3, <1>4 DEF OwnGroups
  <1>7. Owned' = Owned \cup {<<"lb", k>>}
    BY <1>5, <1>6 DEF Owned
  <1>8. <<"lb", k>> \in (({"lb"} \X LbIds) \cup ({"group"} \X GroupIds)) \ Owned
    BY <1>5, OwnedFacts
  <1> QED
    BY <1>1, <1>7, <1>8 DEF Promise!Make

\* One group more, under the finalizer; of no account without the user's instance.
LEMMA CreateServerGroupOwned ==
    ASSUME NlbInv, CreateServerGroup
    PROVE  UNCHANGED Promise!ownedVars \/ Promise!Make
  <1>1. svc.fin /\ svc' = svc /\ lbs' = lbs
    BY DEF CreateServerGroup, At, NlbInv, ReadInv
  <1>2. PICK h \in GroupIds : /\ sgs[h] = NoGroup /\ sgs'[h] # NoGroup
                              /\ sgs'[h].tag /\ UserServer \notin sgs'[h].servers
                              /\ \A k \in GroupIds \ {h} : sgs'[k] = sgs[k]
    BY CreateServerGroupInv
  <1>3. OwnGroups' = OwnGroups \cup {h} /\ h \notin OwnGroups
    BY <1>2 DEF OwnGroups
  <1>4. OwnLbs' = OwnLbs /\ (Found(UserLb)' <=> Found(UserLb))
    BY <1>1 DEF OwnLbs, Found
  <1>5. CASE Found(UserLb)
    <2>1. Owned' = Owned \cup {<<"group", h>>}
      BY <1>3, <1>4, <1>5 DEF Owned
    <2>2. <<"group", h>> \in (({"lb"} \X LbIds) \cup ({"group"} \X GroupIds)) \ Owned
      BY <1>3, OwnedFacts
    <2> QED
      BY <1>1, <2>1, <2>2 DEF Promise!Make
  <1>6. CASE ~Found(UserLb)
    <2>1. Owned' = Owned
      BY <1>4, <1>6 DEF Owned
    <2> QED
      BY <1>1, <2>1 DEF Promise!ownedVars
  <1> QED
    BY <1>5, <1>6

LEMMA QuietOwned ==
    ASSUME NlbInv, lbs' = lbs, sgs' = sgs
    PROVE  Owned' = Owned /\ OwnLbs' = OwnLbs /\ OwnGroups' = OwnGroups
           /\ (Found(UserLb)' <=> Found(UserLb))
  BY DEF Owned, OwnLbs, OwnGroups, Found

\* Steps that write nothing but the service.
LEMMA ServiceOwned ==
    ASSUME NlbInv, \/ AddFinalizers \/ RemoveFinalizers \/ DeleteService
                   \/ Edit \/ PatchLabel \/ PatchStatus
    PROVE  UNCHANGED Promise!ownedVars \/ Promise!OwnedNext
  <1>1. svc \in Services
    BY DEF NlbInv, TypeOK
  <1>2. lbs' = lbs /\ sgs' = sgs
    BY DEF AddFinalizers, RemoveFinalizers, DeleteService, Edit, PatchLabel, PatchStatus
  <1>3. Owned' = Owned
    BY <1>2, QuietOwned
  <1>4. CASE AddFinalizers
    <2>1. svc.phase = "live" /\ svc' = [svc EXCEPT !.fin = TRUE]
      BY <1>4 DEF AddFinalizers
    <2>2. svc'.phase = svc.phase /\ svc'.fin = TRUE
      BY <1>1, <2>1 DEF Services
    <2> QED
      BY <1>3, <2>1, <2>2 DEF Promise!Hold, Promise!OwnedNext
  <1>5. CASE RemoveFinalizers
    <2>1. svc' = [svc EXCEPT !.fin = FALSE, !.phase = IF svc.phase = "deleting" THEN "gone" ELSE svc.phase]
      BY <1>5 DEF RemoveFinalizers
    <2>2. svc'.fin = FALSE /\ svc'.phase = IF svc.phase = "deleting" THEN "gone" ELSE svc.phase
      BY <1>1, <2>1 DEF Services
    <2>3. svc.fin /\ Owned = {}
      BY <1>5, RemoveFinalizersInv DEF Owned
    <2> QED
      BY <1>3, <2>2, <2>3 DEF Promise!LetGo, Promise!OwnedNext
  <1>6. CASE DeleteService
    <2>1. svc.phase = "live" /\ svc' = [svc EXCEPT !.phase = IF svc.fin THEN "deleting" ELSE "gone"]
      BY <1>6 DEF DeleteService
    <2>2. svc'.fin = svc.fin /\ svc'.phase = IF svc.fin THEN "deleting" ELSE "gone"
      BY <1>1, <2>1 DEF Services
    <2> QED
      BY <1>3, <2>1, <2>2 DEF Promise!Delete, Promise!OwnedNext
  <1>7. CASE Edit
    <2>1. PICK s \in Specs : svc' = [svc EXCEPT !.spec = s]
      BY <1>7 DEF Edit
    <2>2. svc'.fin = svc.fin /\ svc'.phase = svc.phase
      BY <1>1, <2>1 DEF Services
    <2> QED
      BY <1>3, <2>2 DEF Promise!ownedVars
  <1>8. CASE PatchLabel
    <2>1. svc' = [svc EXCEPT !.label = IF Deleting THEN NoLabel ELSE Spec0]
      BY <1>8 DEF PatchLabel
    <2>2. svc'.fin = svc.fin /\ svc'.phase = svc.phase
      BY <1>1, <2>1 DEF Services
    <2> QED
      BY <1>3, <2>2 DEF Promise!ownedVars
  <1>9. CASE PatchStatus
    <2>1. svc' = [svc EXCEPT !.host = IF Deleting THEN NoLb ELSE rec.lb]
      BY <1>9 DEF PatchStatus
    <2>2. svc'.fin = svc.fin /\ svc'.phase = svc.phase
      BY <1>1, <2>1 DEF Services
    <2> QED
      BY <1>3, <2>2 DEF Promise!ownedVars
  <1> QED
    BY <1>4, <1>5, <1>6, <1>7, <1>8, <1>9

LEMMA CleanGroupOwned ==
    ASSUME NlbInv, CleanGroup
    PROVE  OwnGroups' \subseteq OwnGroups
  BY CleanFacts DEF OwnGroups

LEMMA OwnedStart == Init => Promise!OwnedInit
  <1> SUFFICES ASSUME Init PROVE Promise!OwnedInit
    OBVIOUS
  <1>1. svc.phase = "live" /\ svc.fin = FALSE
    BY DEF Init
  <1>2. Owned = {}
    BY <1>1, InitInv DEF NlbInv, NoOrphanNlb, Owned
  <1> QED
    BY <1>1, <1>2 DEF Promise!OwnedInit

LEMMA OwnedStep == NlbInv /\ [Next]_vars => [Promise!OwnedNext]_(Promise!ownedVars)
  <1> SUFFICES ASSUME NlbInv, [Next]_vars
               PROVE  UNCHANGED Promise!ownedVars \/ Promise!OwnedNext
    OBVIOUS
  <1>1. CASE \/ AddFinalizers \/ RemoveFinalizers \/ DeleteService
             \/ Edit \/ PatchLabel \/ PatchStatus
    BY <1>1, ServiceOwned
  <1>2. CASE CreateNLB \/ CreateServerGroup
    BY <1>2, CreateNLBOwned, CreateServerGroupOwned DEF Promise!OwnedNext
  <1>3. CASE /\ svc' = svc /\ OwnLbs' \subseteq OwnLbs /\ OwnGroups' \subseteq OwnGroups
             /\ (Found(UserLb)' => Found(UserLb))
    BY <1>3, ShrinkOwned DEF Promise!OwnedNext
  <1>4. CASE svc' = svc /\ lbs' = lbs /\ sgs' = sgs
    BY <1>3, <1>4, QuietOwned
  <1>5. CASE ProtectionOff \/ Untag \/ DeleteNLB \/ TagNLB \/ UpdateNLB
    <2>1. svc' = svc /\ sgs' = sgs
      BY <1>5 DEF ProtectionOff, Untag, DeleteNLB, TagNLB, UpdateNLB
    <2>2. OwnGroups' = OwnGroups
      BY <2>1 DEF OwnGroups
    <2> QED
      BY <1>3, <1>5, <2>1, <2>2, WriteOwned
  <1>6. CASE DeleteNLBListener \/ SetNLBListener
    <2>1. svc' = svc /\ sgs' = sgs
      BY <1>6 DEF DeleteNLBListener, SetNLBListener
    <2>2. OwnGroups' = OwnGroups
      BY <2>1 DEF OwnGroups
    <2> QED
      BY <1>3, <1>6, <2>1, <2>2, DeleteNLBListenerInv, SetNLBListenerInv
  <1>7. CASE AddServers \/ RemoveServers \/ CleanGroup
    <2>1. svc' = svc /\ lbs' = lbs
      BY <1>7 DEF AddServers, RemoveServers, CleanGroup
    <2>2. OwnLbs' = OwnLbs /\ (Found(UserLb)' => Found(UserLb))
      BY <2>1 DEF OwnLbs, Found
    <2> QED
      BY <1>3, <1>7, <2>1, <2>2, AddServersInv, RemoveServersInv, CleanGroupOwned
  <1>8. CASE JobDone \/ ConsoleAddServer \/ ConsoleDeleteLb
    <2>1. WorldStep /\ rec' = rec /\ svc' = svc
      BY <1>8, JobDoneWorld, ConsoleAddServerWorld, ConsoleDeleteLbWorld
         DEF JobDone, ConsoleAddServer, ConsoleDeleteLb
    <2> QED
      BY <1>3, <2>1, WorldInv
  <1>9. CASE Begin \/ Find \/ FindNothing \/ WaitJobFinish \/ AttrFails \/ CallFails \/ ReadFails
    BY <1>4, <1>9 DEF Begin, Find, FindNothing, WaitJobFinish, AttrFails, CallFails,
       ReadFails
  <1>10. CASE ListServerGroups \/ GroupRefused \/ GroupFails \/ GroupsDone \/ ListenersDone
    BY <1>4, <1>10 DEF ListServerGroups, GroupRefused, GroupFails, GroupErr, GroupsDone, ListenersDone
  <1>11. CASE CleanupDone \/ Fail \/ Restart \/ Scale \/ ScaleLost \/ UNCHANGED vars
    BY <1>4, <1>11 DEF CleanupDone, Fail, Restart, Scale, ScaleLost, Rescale, vars
  <1> QED
    BY <1>1, <1>2, <1>5, <1>6, <1>7, <1>8, <1>9, <1>10, <1>11 DEF Next, Step, Fault, Users

\* The controller implements OwnedResource: it makes instances and groups only under
\* the finalizer, and lets go of it only when none is left.
THEOREM NlbKeepsPromise == Spec => KeepsPromise
  BY NlbInvariant, OwnedStart, OwnedStep, PTL DEF Spec, KeepsPromise, Promise!OwnedSpec

\* What holds of the controller holds of the behaviours of NlbServiceLive, in which the
\* users and the faults may stop: those only restrict it.
THEOREM NlbLiveIsNlb == LiveSpec => Spec
  <1>1. LiveInit => Init
    BY DEF LiveInit
  <1>2. [LiveNext]_liveVars => [Next]_vars
    BY DEF LiveNext, liveVars, Next, Rest
  <1> QED
    BY <1>1, <1>2, PTL DEF LiveSpec, Spec
=============================================================================
