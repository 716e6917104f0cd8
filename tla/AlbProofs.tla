----------------------------- MODULE AlbProofs -----------------------------
(***************************************************************************)
(* Proofs about the ALB modules, for every value of their parameters.      *)
(* AlbApply: the types, what the groups and rules of a listener are good   *)
(* for at every moment, and the promise of OwnedResource.  AlbServers, at  *)
(* the end: the types, and the readiness gates.                            *)
(***************************************************************************)
EXTENDS AlbApplyLive, AlbServers, FiniteSetTheorems, TLAPS

\* The AlbConfig is held by its finalizer while a reconcile works for it.
PhaseInv ==
    /\ pc \in {"idle", "fin"} => job = Idle
    /\ pc \notin {"idle", "fin"} => ac.fin
    /\ ac.phase = "deleting" => ac.fin
    /\ ac.phase = "gone" => ~ac.fin
    /\ job.del => ac.phase = "deleting"

\* The instance: which steps have which, and listeners only on a tagged one.
LbInv ==
    /\ Making => lb = "bare" /\ ac.mode = "own"
    /\ Making \/ pc \in {"listeners", "open", "rules"} => ~job.del /\ ac.mode # "plain"
    /\ pc \in {"listeners", "open", "rules"} => lb = "tagged"
    /\ pc \in {"create", "update"} => ~Plain
    /\ lb = "tagged" \/ \A p \in Ports : lis[p] = NoLis

Targets == {r \in Groups : \E p \in Ports : lis[p] # NoLis /\ \E i \in Prios : lis[p][i] = r}

\* The goroutines that create groups, and what they have in hand.
CreateInv ==
    pc = "create" =>
       \A r \in Res :
          /\ job.gor[r] = "new" => sg[r] = "none"
          /\ job.gor[r] = "tag" => sg[r] = "bare"
          /\ job.gor[r] = "add" => r \in Groups /\ r \in Listed
          /\ job.gor[r] = "undo" => sg[r] = "bare" \/ (r \in Groups /\ r \in Listed)
          /\ job.gor[r] # "none" => r \notin Targets
          /\ r \in Wanted(job) => job.err \/ r \in Listed \/ job.gor[r] # "none"
          /\ job.del => job.gor[r] = "none"
          /\ r \in job.matched => r \in Listed /\ job.gor[r] = "none"

\* The groups that were listed and those that are wanted.
WantInv ==
    /\ \A r \in job.doomed : r \notin Wanted(job)
    /\ pc = "update" => \A r \in Res : job.gor[r] # "none" => r \in Listed
    /\ /\ pc \in {"update", "lb", "wait", "tag", "untag", "listeners", "open", "rules"}
       /\ ~Plain
       => \A r \in Wanted(job) : r \in Listed

\* What the deletion of an AlbConfig has still to delete.
DoomInv ==
    /\ job.del /\ ~job.err /\ pc \in {"create", "update", "lb", "post"}
          => \A r \in Listed : r \in job.doomed
    /\ job.del /\ pc \in {"post", "status"} => lb # "tagged"
    /\ job.del /\ pc = "status" => Listed = {}

\* A rule forwards to a group that can be found; whatever service exists, its group
\* has servers, or is on the way to have them.
Filled(r) == r \in svc => sg[r] = "full" \/ r \in swallowed \/ evts[r] # "none"
FillInv ==
    /\ \A r \in Targets : r \in Listed
    /\ \A r \in Groups : \/ r \notin Listed
                         \/ Filled(r)
                         \/ pc = "create" /\ job.gor[r] \in {"add", "undo"}

\* The listeners and rules on their way to what is asked for.
Asked(p) == [i \in Prios |-> RuleAt(job.spec, p, i)]
OpenInv ==
    pc = "open" =>
       \A p \in Ports :
          /\ p \notin DOMAIN job.spec => lis[p] = NoLis /\ job.gor[p] = "none"
          /\ job.gor[p] = "old" => lis[p] # NoLis
          /\ p \in DOMAIN job.spec /\ job.gor[p] = "none" => job.err \/ lis[p] # NoLis
RulesInv ==
    pc = "rules" =>
       \A p \in Ports :
          IF p \notin DOMAIN job.spec THEN lis[p] = NoLis /\ job.gor[p] = "none"
          ELSE /\ lis[p] # NoLis
               /\ job.gor[p] = "create" =>
                     \A i \in Prios : Asked(p)[i] = NoRule => lis[p][i] = NoRule
               /\ job.gor[p] = "update" =>
                     \A i \in Prios : Asked(p)[i] = NoRule <=> lis[p][i] = NoRule
               /\ job.gor[p] = "none" => job.err \/ lis[p] = Asked(p)
PostInv ==
    pc = "post" /\ ~job.del =>
       \A p \in Ports : lis[p] = IF p \in DOMAIN job.spec THEN Asked(p) ELSE NoLis

AlbInv == /\ TypeOK /\ PhaseInv /\ LbInv /\ CreateInv /\ WantInv /\ DoomInv /\ FillInv
          /\ OpenInv /\ RulesInv /\ PostInv
-----------------------------------------------------------------------------
(* Facts about the model's operators.                                      *)

GorStates == {"none", "new", "tag", "add", "undo", "old", "delete", "create", "update"}

\* What a reconcile may be asked for.
LEMMA ShapeFacts ==
    ASSUME NEW s \in Shapes
    PROVE  /\ DOMAIN s \subseteq Ports
           /\ \A p \in DOMAIN s : s[p] \in Seq(Groups) /\ Len(s[p]) \in {0} \cup Prios
  <1>1. PICK t \in Specs, u \in Specs : s = Listen(DOMAIN t, u)
    BY DEF Shapes
  <1>2. DOMAIN s = DOMAIN t
    BY <1>1 DEF Listen
  <1>3. ASSUME NEW p \in DOMAIN s
        PROVE  s[p] \in Seq(Groups) /\ Len(s[p]) \in {0} \cup Prios
    <2>1. s[p] = IF p \in DOMAIN u THEN u[p] ELSE <<>>
      BY <1>1, <1>2 DEF Listen
    <2>2. CASE p \in DOMAIN u
      BY <2>1, <2>2, AlbAssumption
    <2>3. CASE p \notin DOMAIN u
      BY <2>1, <2>3
    <2> QED
      BY <2>2, <2>3
  <1> QED
    BY <1>2, <1>3, AlbAssumption

\* What the ingresses ask for is all there is to do, if the AlbConfig has their listeners.
LEMMA SpecShapes == Specs \subseteq Shapes
  <1> SUFFICES ASSUME NEW s \in Specs PROVE s \in Shapes
    OBVIOUS
  <1>1. s = [p \in DOMAIN s |-> s[p]]
    BY AlbAssumption
  <1>2. Listen(DOMAIN s, s) = s
    BY <1>1 DEF Listen
  <1> QED
    BY <1>2 DEF Shapes

\* No reconcile is in progress.
LEMMA IdleFacts ==
    ASSUME Shapes # {}
    PROVE  /\ Idle \in Jobs
           /\ ~Idle.del /\ ~Idle.err /\ ~Idle.late /\ Idle.doomed = {} /\ Idle.matched = {}
           /\ \A r \in Res : Idle.gor[r] = "none"
  BY DEF Idle, Jobs

\* A goroutine goes on, or reports its error.
LEMMA GorFacts ==
    ASSUME job \in Jobs, NEW r \in Res, NEW s \in GorStates
    PROVE  LET j == [job EXCEPT !.gor[r] = s]
               k == [job EXCEPT !.gor[r] = s, !.err = TRUE]
           IN  /\ j \in Jobs /\ k \in Jobs
               /\ j.spec = job.spec /\ k.spec = job.spec
               /\ j.del = job.del /\ k.del = job.del
               /\ j.late = job.late /\ k.late = job.late
               /\ j.matched = job.matched /\ k.matched = job.matched
               /\ j.doomed = job.doomed /\ k.doomed = job.doomed
               /\ j.err = job.err /\ k.err
               /\ j.gor = [job.gor EXCEPT ![r] = s] /\ k.gor = [job.gor EXCEPT ![r] = s]
  BY DEF Jobs, GorStates

\* A goroutine goes on, or ends with its error.
LEMMA StepFacts ==
    ASSUME job \in Jobs, NEW r \in Res, NEW s \in GorStates,
           Goroutine(r, s) \/ (s = "none" /\ Reports(r))
    PROVE  /\ pc' = pc /\ queued' = queued /\ job' \in Jobs /\ job'.spec = job.spec
           /\ job'.del = job.del /\ job'.late = job.late
           /\ job'.doomed = job.doomed /\ job'.matched = job.matched
           /\ job'.gor = [job.gor EXCEPT ![r] = s]
           /\ job.err => job'.err
           /\ job'.err => job.err \/ Reports(r)
           /\ Reports(r) => job'.err
  <1>1. CASE Goroutine(r, s) /\ ~Reports(r)
    <2>1. pc' = pc /\ queued' = queued /\ job' = [job EXCEPT !.gor[r] = s]
      BY <1>1 DEF Goroutine, Goto
    <2> QED
      BY <1>1, <2>1, GorFacts
  <1>2. CASE s = "none" /\ Reports(r)
    <2>1. pc' = pc /\ queued' = queued /\ job' = [job EXCEPT !.gor[r] = s, !.err = TRUE]
      BY <1>2 DEF Reports, Goto
    <2>2. job'.err = TRUE
      BY <2>1 DEF Jobs
    <2> QED
      BY <1>2, <2>1, <2>2, GorFacts
  <1>3. CASE Goroutine(r, s) /\ Reports(r) /\ s # "none"
    <2>1. job' = [job EXCEPT !.gor[r] = s] /\ job' = [job EXCEPT !.gor[r] = "none", !.err = TRUE]
      BY <1>3 DEF Goroutine, Reports, Goto
    <2>2. job.gor \in [Res -> GorStates] /\ DOMAIN job.gor = Res
      BY DEF Jobs, GorStates
    <2>3. job'.gor[r] = s
      BY <2>1, <2>2 DEF Jobs
    <2>4. job'.gor[r] = "none"
      <3>1. job' = [job EXCEPT !.gor[r] = "none", !.err = TRUE]
        BY <2>1
      <3>2. job'.gor = [job.gor EXCEPT ![r] = "none"]
        BY <3>1 DEF Jobs
      <3> QED
        BY <2>2, <3>2
    <2> QED
      BY <1>3, <2>3, <2>4
  <1> QED
    BY <1>1, <1>2, <1>3

\* The goroutines of the next step start.
LEMMA SpawnFacts ==
    ASSUME job \in Jobs, NEW f \in [Res -> GorStates]
    PROVE  LET j == [job EXCEPT !.gor = f]
           IN  /\ j \in Jobs
               /\ j.spec = job.spec /\ j.del = job.del /\ j.late = job.late /\ j.err = job.err
               /\ j.matched = job.matched /\ j.doomed = job.doomed /\ j.gor = f
  BY DEF Jobs, GorStates

\* The groups that a job wants.
LEMMA WantedFacts ==
    ASSUME NEW j \in Jobs
    PROVE  /\ Wanted(j) \subseteq Res
           /\ j.del => Wanted(j) = {}
           /\ ~j.del => \A p \in DOMAIN j.spec :
                           /\ p \in Ports /\ p \in Wanted(j)
                           /\ \A i \in Prios : \/ RuleAt(j.spec, p, i) = NoRule
                                               \/ /\ RuleAt(j.spec, p, i) \in Groups
                                                  /\ RuleAt(j.spec, p, i) \in Wanted(j)
           /\ \A p, i : RuleAt(j.spec, p, i) # NoRule => p \in DOMAIN j.spec
  <1>1. j.spec \in Shapes /\ j.del \in BOOLEAN
    BY DEF Jobs
  <1>2. /\ DOMAIN j.spec \subseteq Ports
        /\ \A p \in DOMAIN j.spec : j.spec[p] \in Seq(Groups)
    BY <1>1, ShapeFacts
  <1>3. \A p \in DOMAIN j.spec : Range(j.spec[p]) \subseteq Groups
    BY <1>2 DEF Range
  <1>4. \A p \in DOMAIN j.spec, i \in Prios :
           \/ RuleAt(j.spec, p, i) = NoRule
           \/ RuleAt(j.spec, p, i) \in Range(j.spec[p])
    <2> SUFFICES ASSUME NEW p \in DOMAIN j.spec, NEW i \in Prios, i <= Len(j.spec[p])
                 PROVE  j.spec[p][i] \in Range(j.spec[p])
      BY DEF RuleAt
    <2>1. i \in Nat /\ i >= 1
      <3>1. Cardinality(Prios) \in Nat
        BY AlbAssumption, FS_CardinalityType
      <3> QED
        BY <3>1, AlbAssumption
    <2>2. i \in DOMAIN j.spec[p]
      BY <1>2, <2>1
    <2> QED
      BY <2>2 DEF Range
  <1>5. Wanted(j) \subseteq Res
    BY <1>2, <1>3 DEF Wanted, Res
  <1>6. j.del => Wanted(j) = {}
    BY DEF Wanted
  <1>7. ~j.del => \A p \in DOMAIN j.spec : p \in Wanted(j) /\ Range(j.spec[p]) \subseteq Wanted(j)
    BY DEF Wanted
  <1>8. \A p, i : RuleAt(j.spec, p, i) # NoRule => p \in DOMAIN j.spec
    BY DEF RuleAt
  <1> QED
    BY <1>2, <1>3, <1>4, <1>5, <1>6, <1>7, <1>8

LEMMA SameWanted ==
    ASSUME NEW j, NEW k, j.spec = k.spec, j.del = k.del
    PROVE  Wanted(j) = Wanted(k)
  BY DEF Wanted

\* The rules asked for.
LEMMA AskedFacts ==
    ASSUME job \in Jobs, ~job.del, NEW p \in DOMAIN job.spec
    PROVE  /\ p \in Ports
           /\ Asked(p) \in Rules /\ Asked(p) # NoLis
           /\ \A i \in Prios : Asked(p)[i] = RuleAt(job.spec, p, i)
           /\ \A i \in Prios : Asked(p)[i] \in Groups => Asked(p)[i] \in Wanted(job)
  <1>1. Asked(p) \in Rules /\ p \in Ports
    BY WantedFacts DEF Asked, Rules
  <1>2. NoLis \notin Rules
    BY AlbAssumption DEF Rules
  <1> QED
    BY <1>1, <1>2, WantedFacts, AlbAssumption DEF Asked

-----------------------------------------------------------------------------
(* Types.                                                                  *)

Pcs == {"idle", "fin", "groups", "create", "update", "lb", "wait", "tag", "untag",
        "listeners", "open", "rules", "post", "status"}

LEMMA SomeSpec == TypeOK => Shapes # {}
  BY DEF TypeOK, Shapes

EventKinds == {"none", "due", "lost"}

LEMMA FaultFacts ==
    ASSUME TypeOK, Fault \/ NoFault
    PROVE  /\ faults' \in 0 .. MaxFaults
           /\ faults > 0 => faults' > 0
           /\ Fault => faults' > 0
  BY AlbAssumption DEF TypeOK, Fault, NoFault

\* An untagged group is in the hands of the goroutine that made it, and an untagged
\* instance in those of the step that did, or it is the user's.
BareGroups == \A r \in Res : sg[r] = "bare" => pc = "create" /\ job.gor[r] \in {"tag", "undo"}
BareLb == lb = "bare" => (IF ac.mode = "own" THEN Making ELSE ~Making)

\* A step that loses nothing.
LEMMA TypeStep ==
    ASSUME TypeOK, Fault \/ NoFault,
           ac' \in AlbConfigs, queued' \in BOOLEAN, svc' \subseteq Groups,
           evts' \in [Groups -> EventKinds], ing' \in Specs, news' \in EventKinds,
           lb' \in {"none", "bare", "tagged"}, sg' \in [Res -> {"none", "bare", "empty", "full"}],
           lis' \in [Ports -> {NoLis} \cup Rules], swallowed' \subseteq Groups,
           edits' \in 0 .. MaxEdits, pc' \in Pcs, job' \in Jobs, BareGroups', BareLb',
           \/ UNCHANGED lost
           \/ Fault /\ lost' \in [lb : Nat, sg : Nat]
    PROVE  TypeOK'
  <1>1. lost' \in [lb : Nat, sg : Nat] /\ (lost'.lb + lost'.sg > 0 => faults' > 0)
    BY FaultFacts DEF TypeOK
  <1> QED
    BY <1>1, FaultFacts DEF TypeOK, Pcs, BareGroups, BareLb, EventKinds

\* A step of the reconcile that changes nothing in the cloud and creates no group.
LEMMA QuietType ==
    ASSUME TypeOK, Fault \/ NoFault, queued' \in BOOLEAN, UNCHANGED <<World, Cloud>>,
           pc' \in Pcs, job' \in Jobs,
           pc = "create" => Settled("create"),
           ~Making /\ ~Making'
    PROVE  TypeOK'
  <1>1. BareGroups'
    BY DEF TypeOK, BareGroups, World, Cloud, Settled
  <1>2. BareLb'
    BY DEF TypeOK, BareLb, World, Cloud
  <1> QED
    BY <1>1, <1>2, TypeStep DEF TypeOK, World, Cloud, EventKinds

\* The users.
LEMMA UsersType ==
    ASSUME TypeOK, Users
    PROVE  TypeOK'
  <1>1. CASE Edit
    BY <1>1, AlbAssumption DEF Edit, TypeOK, Making
  <1>2. CASE DeleteAlbConfig
    <2>1. ac' \in AlbConfigs /\ ac'.mode = ac.mode
      BY <1>2 DEF DeleteAlbConfig, TypeOK, AlbConfigs
    <2>2. ac.fin \in BOOLEAN
      BY DEF TypeOK, AlbConfigs
    <2> QED
      BY <1>2, <2>1, <2>2 DEF DeleteAlbConfig, TypeOK, Making
  <1>3. ASSUME NEW g \in Groups, ToggleService(g) PROVE TypeOK'
    <2>1. /\ svc' \subseteq Groups /\ evts' \in [Groups -> EventKinds]
          /\ news' \in EventKinds
      BY <1>3 DEF ToggleService, TypeOK, EventKinds
    <2> QED
      BY <1>3, <2>1, AlbAssumption DEF ToggleService, TypeOK, Making, EventKinds
  <1> QED
    BY <1>1, <1>2, <1>3 DEF Users

LEMMA SyncType ==
    ASSUME TypeOK, NEW g \in Groups, SyncServers(g)
    PROVE  TypeOK' /\ Listed' = Listed
  <1>1. g \in Res
    BY DEF Res
  <1>2. /\ sg' \in [Res -> {"none", "bare", "empty", "full"}]
        /\ \A r \in Res : sg'[r] = sg[r] \/ (sg[r] \in {"empty", "full"} /\ sg'[r] \in {"empty", "full"})
    BY <1>1 DEF SyncServers, TypeOK, Listed
  <1>3. /\ evts' \in [Groups -> EventKinds] /\ swallowed' \subseteq Groups
        /\ UNCHANGED <<ac, ing, news, queued, svc, lb, lis, lost, faults, edits, pc, job>>
    BY DEF SyncServers, TypeOK, EventKinds
  <1>4. Listed' = Listed
    BY <1>2 DEF Listed
  <1> QED
    BY <1>2, <1>3, <1>4 DEF TypeOK, Making, EventKinds

LEMMA SyncIngressType ==
    ASSUME TypeOK, SyncIngress
    PROVE  /\ TypeOK' /\ UNCHANGED <<svc, evts, lb, sg, lis, swallowed, pc, job>>
           /\ ac'.phase = ac.phase /\ ac'.fin = ac.fin /\ ac'.mode = ac.mode
  <1>1. /\ ac' \in AlbConfigs
        /\ ac'.phase = ac.phase /\ ac'.fin = ac.fin /\ ac'.mode = ac.mode
    BY DEF SyncIngress, TypeOK, AlbConfigs
  <1>2. /\ queued' \in BOOLEAN /\ news' \in EventKinds /\ (Fault \/ NoFault)
        /\ UNCHANGED <<ing, svc, evts, edits, lb, sg, lis, lost, swallowed, pc, job>>
    BY DEF SyncIngress, TypeOK, EventKinds, Cloud
  <1>3. BareGroups' /\ BareLb'
    BY <1>1, <1>2 DEF TypeOK, BareGroups, BareLb, Making
  <1>4. TypeOK'
    BY <1>1, <1>2, <1>3, TypeStep DEF TypeOK, Pcs, EventKinds
  <1> QED
    BY <1>1, <1>2, <1>4

\* The reconcile returns.
LEMMA ReturnFacts ==
    ASSUME TypeOK, NEW err \in BOOLEAN, Return(err)
    PROVE  /\ pc' = "idle" /\ job' = Idle /\ queued' \in BOOLEAN /\ Idle \in Jobs
           /\ ~Idle.del /\ ~Idle.err /\ Idle.doomed = {}
  BY SomeSpec, IdleFacts DEF Return, TypeOK

LEMMA RestartType ==
    ASSUME AlbInv, Crash \/ Panic
    PROVE  TypeOK'
  <1>1. TypeOK /\ (Fault \/ NoFault) /\ Restart
    BY DEF AlbInv, Crash, Panic
  <1>2. Idle \in Jobs
    BY <1>1, SomeSpec, IdleFacts
  <1> DEFINE B == {r \in Res : sg[r] = "bare"}
  <1>3. IsFiniteSet(B) /\ Cardinality(B) \in Nat
    <2>1. IsFiniteSet(Res)
      BY AlbAssumption, FS_Union DEF Res
    <2> QED
      BY <2>1, FS_Subset, FS_CardinalityType
  <1> DEFINE typed == evts' \in [Groups -> EventKinds] /\ ing' \in Specs /\ news' \in EventKinds
  <1>0. typed
    BY <1>1 DEF Restart, TypeOK, EventKinds
  <1>4. lost' = [lb |-> lost.lb + (IF Making THEN 1 ELSE 0), sg |-> lost.sg + Cardinality(B)]
    BY <1>1 DEF Restart
  <1>5. lost' \in [lb : Nat, sg : Nat]
    BY <1>1, <1>3, <1>4 DEF TypeOK
  <1>6. CASE Crash
    <2>1. BareGroups' /\ BareLb'
      BY <1>1 DEF Restart, BareGroups, BareLb, Making, TypeOK, AlbInv, LbInv
    <2> QED
      BY <1>0, <1>1, <1>2, <1>5, <1>6, <2>1, TypeStep DEF Crash, Restart, TypeOK, Pcs
  <1>7. CASE Panic
    <2>1. B = {} /\ ~Making
      BY <1>1, <1>7 DEF Panic, TypeOK, Making
    <2>2. Cardinality(B) = 0
      BY <2>1, FS_EmptySet
    <2>3. UNCHANGED lost
      BY <1>1, <1>4, <2>1, <2>2 DEF TypeOK
    <2>4. BareGroups' /\ BareLb'
      BY <1>1, <1>7 DEF Panic, Restart, BareGroups, BareLb, Making, TypeOK
    <2> QED
      BY <1>0, <1>1, <1>2, <1>7, <2>3, <2>4, TypeStep DEF Panic, Restart, TypeOK, Pcs
  <1> QED
    BY <1>6, <1>7

-----------------------------------------------------------------------------
(* The invariant, step by step.                                            *)

LEMMA InitAlb == Init => AlbInv
  <1> SUFFICES ASSUME Init PROVE AlbInv
    OBVIOUS
  <1>1. PICK start \in Starts :
          LET old == start[3] IN
          /\ ac = [phase |-> "live", fin |-> old, ports |-> DOMAIN start[1], mode |-> start[2],
                   host |-> old]
          /\ ing = start[1]
          /\ lb = IF old THEN "tagged" ELSE IF start[2] = "own" THEN "none" ELSE "bare"
          /\ sg = [r \in Res |-> IF old /\ r \in Wanted([Idle EXCEPT !.spec = start[1]])
                                 THEN (IF r \in Ports THEN "empty" ELSE "full") ELSE "none"]
          /\ lis = [p \in Ports |-> IF old /\ p \in DOMAIN start[1]
                                    THEN [i \in Prios |-> RuleAt(start[1], p, i)] ELSE NoLis]
    BY DEF Init
  <1> DEFINE s == start[1]
             old == start[3]
             j == [Idle EXCEPT !.spec = s]
  <1>2. s \in Specs /\ start[2] \in ModeKinds /\ old \in BOOLEAN
    BY <1>1, AlbAssumption
  <1>3. Idle \in Jobs /\ ~Idle.del /\ ~Idle.err /\ Idle.doomed = {}
    BY <1>2, SpecShapes, IdleFacts
  <1>4. j \in Jobs /\ j.spec = s /\ ~j.del
    BY <1>2, <1>3, SpecShapes DEF Jobs
  <1>5. /\ ing \in Specs /\ news = "none" /\ evts \in [Groups -> EventKinds]
        /\ ac \in AlbConfigs /\ ac.phase = "live" /\ ac.fin = old /\ ac.mode = start[2]
        /\ job = Idle /\ pc = "idle" /\ svc = Groups /\ queued = TRUE
        /\ lost = [lb |-> 0, sg |-> 0] /\ swallowed = {} /\ faults = 0 /\ edits = 0
    BY <1>1, <1>2 DEF AlbConfigs, Init, EventKinds
  <1>6. /\ lb \in {"none", "bare", "tagged"} /\ (old <=> lb = "tagged")
        /\ lb = "bare" => ac.mode # "own"
    BY <1>1, <1>2, <1>5
  <1>7. /\ sg \in [Res -> {"none", "empty", "full"}]
        /\ \A r \in Groups : sg[r] = (IF old /\ r \in Wanted(j) THEN "full" ELSE "none")
        /\ \A r \in Res : r \in Listed <=> old /\ r \in Wanted(j)
    BY <1>1, AlbAssumption DEF Res, Listed
  <1>8. /\ lis \in [Ports -> {NoLis} \cup Rules]
        /\ \A p \in Ports : lis[p] # NoLis =>
              /\ old /\ p \in DOMAIN s
              /\ \A i \in Prios : lis[p][i] = RuleAt(s, p, i)
    <2>1. \A p \in DOMAIN s, i \in Prios : RuleAt(s, p, i) \in Groups \cup {NoRule}
      BY <1>4, WantedFacts
    <2> QED
      BY <1>1, <2>1 DEF Rules
  <1>9. TypeOK
    <2>1. faults \in 0 .. MaxFaults /\ edits \in 0 .. MaxEdits /\ lost \in [lb : Nat, sg : Nat]
      BY <1>5, AlbAssumption
    <2>2. lost.lb + lost.sg = 0
      BY <1>5
    <2>3. \A r \in Res : sg[r] # "bare"
      BY <1>7
    <2>4. sg \in [Res -> {"none", "bare", "empty", "full"}]
      BY <1>7
    <2> QED
      BY <1>3, <1>5, <1>6, <1>8, <2>1, <2>2, <2>3, <2>4 DEF TypeOK, Making, EventKinds
  <1>10. PhaseInv /\ LbInv /\ CreateInv /\ WantInv /\ DoomInv /\ OpenInv /\ RulesInv /\ PostInv
    BY <1>3, <1>5, <1>6, <1>8
       DEF PhaseInv, LbInv, Making, CreateInv, WantInv, DoomInv, OpenInv, RulesInv, PostInv
  <1>11. FillInv
    <2>1. ASSUME NEW r \in Targets PROVE r \in Listed
      <3>1. PICK p \in Ports : lis[p] # NoLis /\ \E i \in Prios : lis[p][i] = r
        BY <2>1 DEF Targets
      <3>2. PICK i \in Prios : lis[p][i] = r
        BY <3>1
      <3>3. r \in Groups /\ r # NoRule
        BY <2>1, AlbAssumption DEF Targets
      <3>4. old /\ p \in DOMAIN s /\ RuleAt(s, p, i) = r
        BY <1>8, <3>1, <3>2
      <3>5. r \in Wanted(j)
        BY <1>4, <3>3, <3>4, WantedFacts
      <3> QED
        BY <1>7, <3>3, <3>4, <3>5 DEF Res
    <2>2. \A r \in Groups : r \notin Listed \/ Filled(r)
      BY <1>7 DEF Filled, Res
    <2> QED
      BY <2>1, <2>2 DEF FillInv
  <1> QED
    BY <1>9, <1>10, <1>11 DEF AlbInv

\* A reconcile ends and leaves a cloud whose rules are as good as before.
LEMMA IdleAlb ==
    ASSUME AlbInv, TypeOK', pc' = "idle", job' = Idle,
           ac'.phase = "deleting" => ac'.fin,
           ac'.phase = "gone" => ~ac'.fin,
           lb' = "tagged" \/ \A p \in Ports : lis'[p] = NoLis,
           FillInv'
    PROVE  AlbInv'
  <1>1. ~Idle.del /\ Idle.doomed = {}
    BY SomeSpec, IdleFacts DEF AlbInv
  <1> QED
    BY <1>1 DEF AlbInv, PhaseInv, LbInv, Making, CreateInv, WantInv, DoomInv, OpenInv, RulesInv, PostInv

LEMMA SameFill ==
    ASSUME AlbInv, UNCHANGED <<svc, evts, sg, lis, swallowed>>,
           pc = "create" => Settled("create")
    PROVE  FillInv'
  BY DEF AlbInv, FillInv, Filled, Targets, Listed, Settled, Res

\* Steps that only return.
LEMMA ReturnAlb ==
    ASSUME AlbInv, NEW err \in BOOLEAN, Return(err), Fault \/ NoFault, UNCHANGED <<World, Cloud>>,
           pc = "create" => Settled("create"), ~Making
    PROVE  AlbInv'
  <1>1. TypeOK
    BY DEF AlbInv
  <1>2. pc' = "idle" /\ job' = Idle /\ queued' \in BOOLEAN /\ Idle \in Jobs
    BY <1>1, ReturnFacts
  <1>3. UNCHANGED <<ac, ing, news, svc, evts, edits, lb, sg, lis, lost, swallowed>>
    BY DEF World, Cloud
  <1>4. TypeOK'
    BY <1>1, <1>2, QuietType DEF Pcs, Making
  <1>5. FillInv'
    BY <1>3, SameFill
  <1> QED
    BY <1>2, <1>3, <1>4, <1>5, IdleAlb DEF AlbInv, PhaseInv, LbInv

\* The process stops.
LEMMA RestartAlb ==
    ASSUME AlbInv, Crash \/ Panic
    PROVE  AlbInv'
  <1>1. Restart /\ TypeOK'
    BY RestartType DEF Crash, Panic
  <1>2. /\ pc' = "idle" /\ job' = Idle
        /\ \A r \in Groups : r \in svc => evts'[r] # "none"
        /\ lb' = (IF Making THEN "none" ELSE lb)
        /\ sg' = [r \in Res |-> IF sg[r] = "bare" THEN "none" ELSE sg[r]]
        /\ UNCHANGED <<ac, svc, lis, swallowed>>
    BY <1>1 DEF Restart
  <1>3. Listed' = Listed
    BY <1>2 DEF Listed, AlbInv, TypeOK
  <1>4. FillInv'
    BY <1>2, <1>3 DEF AlbInv, FillInv, Filled, Targets
  <1>5. lb' = "tagged" \/ \A p \in Ports : lis'[p] = NoLis
    BY <1>2 DEF AlbInv, LbInv
  <1> QED
    BY <1>1, <1>2, <1>4, <1>5, IdleAlb DEF AlbInv, PhaseInv

\* The users.
LEMMA UsersAlb ==
    ASSUME AlbInv, Users
    PROVE  AlbInv'
  <1>1. TypeOK'
    BY UsersType DEF AlbInv
  <1>2. UNCHANGED <<lb, sg, lis, swallowed, pc, job>>
    BY DEF Users, Edit, DeleteAlbConfig, ToggleService
  <1>3. /\ ac'.mode = ac.mode /\ ac'.fin = ac.fin
        /\ \/ ac'.phase = ac.phase
           \/ ac.phase = "live" /\ ac'.phase = (IF ac.fin THEN "deleting" ELSE "gone")
    <2>1. CASE Edit \/ DeleteAlbConfig
      BY <2>1 DEF Edit, DeleteAlbConfig, AlbInv, TypeOK, AlbConfigs
    <2>2. CASE \E g \in Groups : ToggleService(g)
      BY <2>2 DEF ToggleService
    <2> QED
      BY <2>1, <2>2 DEF Users
  <1>4. PhaseInv' /\ LbInv'
    BY <1>2, <1>3 DEF AlbInv, PhaseInv, LbInv, Making, Plain
  <1>5. \A r \in Groups : Filled(r) => Filled(r)'
    BY <1>2 DEF Users, Edit, DeleteAlbConfig, ToggleService, Filled, AlbInv, TypeOK
  <1>6. Listed' = Listed /\ Targets' = Targets /\ Wanted(job)' = Wanted(job)
    BY <1>2 DEF Listed, Targets, Wanted
  <1>7. FillInv'
    BY <1>2, <1>5, <1>6 DEF AlbInv, FillInv
  <1>8. CreateInv' /\ DoomInv' /\ WantInv'
    BY <1>2, <1>3, <1>6 DEF AlbInv, CreateInv, DoomInv, WantInv, Plain
  <1>9. OpenInv' /\ RulesInv' /\ PostInv'
    BY <1>2 DEF AlbInv, OpenInv, RulesInv, PostInv, Asked
  <1> QED
    BY <1>1, <1>4, <1>7, <1>8, <1>9 DEF AlbInv

\* The workers of syncServersQueue.
LEMMA SyncAlb ==
    ASSUME AlbInv, NEW g \in Groups, SyncServers(g)
    PROVE  AlbInv'
  <1>1. TypeOK' /\ Listed' = Listed
    BY SyncType DEF AlbInv
  <1>2. UNCHANGED <<ac, svc, lb, lis, pc, job>>
    BY DEF SyncServers
  <1>3. g \in Res /\ \A r \in Res : r # g => sg'[r] = sg[r]
    BY DEF SyncServers, AlbInv, TypeOK, Res
  <1>4. g \notin Listed => sg'[g] = sg[g]
    BY <1>3 DEF SyncServers, AlbInv, TypeOK
  <1>5. PhaseInv' /\ LbInv'
    BY <1>2 DEF AlbInv, PhaseInv, LbInv, Making, Plain
  <1>6. Targets' = Targets /\ Wanted(job)' = Wanted(job)
    BY <1>2 DEF Targets, Wanted
  <1>7. \A r \in Res : r \notin Listed => sg'[r] = sg[r]
    BY <1>3, <1>4
  <1>8. CreateInv'
    BY <1>1, <1>2, <1>6, <1>7 DEF AlbInv, CreateInv, Listed
  <1>9. DoomInv' /\ WantInv'
    BY <1>1, <1>2, <1>6 DEF AlbInv, DoomInv, WantInv, Plain
  <1>10. OpenInv' /\ RulesInv' /\ PostInv'
    BY <1>2 DEF AlbInv, OpenInv, RulesInv, PostInv, Asked
  <1>11. FillInv'
    <2>1. g \in Listed => Filled(g)'
      BY <1>3 DEF SyncServers, Filled, AlbInv, TypeOK
    <2>2. \A r \in Groups : r # g /\ Filled(r) => Filled(r)'
      BY <1>3 DEF SyncServers, Filled, Res, AlbInv, TypeOK
    <2> QED
      BY <1>1, <1>2, <1>6, <2>1, <2>2 DEF AlbInv, FillInv
  <1> QED
    BY <1>1, <1>5, <1>8, <1>9, <1>10, <1>11 DEF AlbInv

\* syncIngress changes what the next reconcile does.
LEMMA SyncIngressAlb ==
    ASSUME AlbInv, SyncIngress
    PROVE  AlbInv'
  <1>1. /\ TypeOK' /\ UNCHANGED <<svc, evts, lb, sg, lis, swallowed, pc, job>>
        /\ ac'.phase = ac.phase /\ ac'.fin = ac.fin /\ ac'.mode = ac.mode
    BY SyncIngressType DEF AlbInv
  <1>2. PhaseInv' /\ LbInv'
    BY <1>1 DEF AlbInv, PhaseInv, LbInv, Making, Plain
  <1>3. Listed' = Listed /\ Targets' = Targets /\ Wanted(job)' = Wanted(job)
    BY <1>1 DEF Listed, Targets, Wanted
  <1>4. FillInv'
    BY <1>1, <1>3 DEF AlbInv, FillInv, Filled
  <1>5. CreateInv' /\ DoomInv' /\ WantInv'
    BY <1>1, <1>3 DEF AlbInv, CreateInv, DoomInv, WantInv, Plain
  <1>6. OpenInv' /\ RulesInv' /\ PostInv'
    BY <1>1 DEF AlbInv, OpenInv, RulesInv, PostInv, Asked
  <1> QED
    BY <1>1, <1>2, <1>4, <1>5, <1>6 DEF AlbInv

-----------------------------------------------------------------------------
(* The reconcile starts.                                                   *)

LEMMA BeginAlb ==
    ASSUME AlbInv, Begin
    PROVE  AlbInv'
  <1>1. TypeOK /\ Idle \in Jobs /\ ~Idle.del /\ ~Idle.err /\ Idle.doomed = {} /\ ac \in AlbConfigs
    BY SomeSpec, IdleFacts DEF AlbInv, TypeOK
  <1>2. /\ pc = "idle" /\ queued' = FALSE /\ NoFault /\ UNCHANGED <<World, Cloud>>
        /\ UNCHANGED <<ac, ing, news, svc, evts, edits, lb, sg, lis, lost, swallowed>>
    BY DEF Begin, World, Cloud
  <1>3. FillInv'
    BY <1>2, SameFill
  <1>4. job = Idle
    BY <1>2 DEF AlbInv, PhaseInv
  <1>5. CASE ac.phase = "gone"
    <2>1. pc' = "idle" /\ job' = Idle
      BY <1>2, <1>4, <1>5 DEF Begin
    <2>2. TypeOK'
      BY <1>1, <1>2, <2>1, QuietType DEF Pcs, Making
    <2> QED
      BY <1>2, <1>3, <2>1, <2>2, IdleAlb DEF AlbInv, PhaseInv, LbInv
  <1>6. CASE ac.phase = "live"
    <2>1. pc' = "fin" /\ job' = Idle
      BY <1>2, <1>6 DEF Begin
    <2>2. TypeOK'
      BY <1>1, <1>2, <2>1, QuietType DEF Pcs, Making
    <2> QED
      BY <1>1, <1>2, <1>3, <2>1, <2>2 DEF AlbInv, PhaseInv, LbInv, Making, CreateInv, WantInv,
             DoomInv, OpenInv, RulesInv, PostInv
  <1>7. CASE ac.phase = "deleting"
    <2>1. pc' = "groups" /\ job' = [Idle EXCEPT !.del = TRUE]
      BY <1>2, <1>7 DEF Begin
    <2>2. job' \in Jobs /\ job'.del /\ job'.doomed = {}
      BY <1>1, <2>1 DEF Jobs
    <2>3. TypeOK'
      BY <1>1, <1>2, <2>1, <2>2, QuietType DEF Pcs, Making
    <2> QED
      BY <1>2, <1>3, <1>7, <2>1, <2>2, <2>3 DEF AlbInv, PhaseInv, LbInv, Making, CreateInv, WantInv,
             DoomInv, OpenInv, RulesInv, PostInv
  <1> QED
    BY <1>1, <1>5, <1>6, <1>7 DEF AlbConfigs

LEMMA AddFinalizerAlb ==
    ASSUME AlbInv, AddFinalizer
    PROVE  AlbInv'
  <1>1. TypeOK /\ Idle \in Jobs /\ ac \in AlbConfigs /\ pc = "fin" /\ Idle.doomed = {}
    BY SomeSpec, IdleFacts DEF AlbInv, TypeOK, AddFinalizer
  <1>2. CASE \/ ac.phase = "gone" /\ NoFault /\ Return(TRUE) /\ UNCHANGED <<ac, Cloud>>
             \/ Fails /\ UNCHANGED ac
    <2>1. Return(TRUE) /\ (Fault \/ NoFault) /\ UNCHANGED <<World, Cloud>>
      BY <1>2 DEF AddFinalizer, Fails, World, Cloud
    <2> QED
      BY <1>1, <2>1, ReturnAlb DEF Making
  <1>3. CASE /\ ac.phase # "gone" /\ NoFault
             /\ ac' = [ac EXCEPT !.fin = TRUE]
             /\ Goto("groups", [Idle EXCEPT !.spec = Listen(ac.ports, ing),
                                            !.del = (ac.phase = "deleting"),
                                            !.late = (ac.phase = "deleting")])
             /\ UNCHANGED Cloud
    <2>1. /\ ac' \in AlbConfigs /\ ac'.fin /\ ac'.phase = ac.phase /\ ac'.mode = ac.mode
      BY <1>1, <1>3 DEF AlbConfigs
    <2>7. Listen(ac.ports, ing) \in Shapes
      BY <1>1 DEF TypeOK, AlbConfigs, Shapes
    <2>2. /\ pc' = "groups" /\ job' \in Jobs /\ job'.doomed = {} /\ job'.del = (ac.phase = "deleting")
          /\ queued' \in BOOLEAN
      BY <1>1, <1>3, <2>7 DEF Jobs, AlbConfigs, Goto, TypeOK
    <2>3. UNCHANGED <<ing, news, svc, evts, edits, lb, sg, lis, lost, swallowed>>
      BY <1>3 DEF AddFinalizer, Cloud
    <2>4. BareGroups' /\ BareLb'
      BY <1>1, <2>1, <2>2, <2>3 DEF TypeOK, BareGroups, BareLb, Making
    <2>5. TypeOK'
      BY <1>1, <1>3, <2>1, <2>2, <2>3, <2>4, TypeStep DEF TypeOK, Pcs, EventKinds
    <2>6. FillInv'
      BY <1>1, <2>3, SameFill
    <2> QED
      BY <1>1, <1>3, <2>1, <2>2, <2>3, <2>5, <2>6 DEF AlbInv, PhaseInv, LbInv, Making, CreateInv,
             WantInv, DoomInv, OpenInv, RulesInv, PostInv
  <1> QED
    BY <1>2, <1>3 DEF AddFinalizer

LEMMA ListGroupsAlb ==
    ASSUME AlbInv, ListGroups
    PROVE  AlbInv'
  <1>1. TypeOK /\ pc = "groups" /\ job \in Jobs /\ UNCHANGED World
    BY DEF AlbInv, TypeOK, ListGroups
  <1>2. CASE Fails
    BY <1>1, <1>2, ReturnAlb DEF Fails, Making
  <1>3. CASE Plain /\ NoFault /\ Goto("lb", job) /\ UNCHANGED Cloud
    <2>1. /\ pc' = "lb" /\ job' = job /\ queued' = queued
          /\ UNCHANGED <<ac, ing, news, svc, evts, edits, lb, sg, lis, lost, swallowed>>
      BY <1>1, <1>3 DEF Goto, World, Cloud
    <2>2. TypeOK'
      BY <1>1, <1>3, <2>1, QuietType DEF Pcs, Making, TypeOK
    <2>3. FillInv'
      BY <1>1, <2>1, SameFill
    <2>4. Wanted(job)' = Wanted(job) /\ Plain' = Plain /\ Plain
      BY <1>3, <2>1 DEF Wanted, Plain
    <2> QED
      BY <1>1, <2>1, <2>2, <2>3, <2>4 DEF AlbInv, PhaseInv, LbInv, Making, CreateInv,
             WantInv, DoomInv, OpenInv, RulesInv, PostInv, Plain
  <1>4. CASE /\ ~Plain /\ NoFault
             /\ Goto("create",
                  [job EXCEPT !.doomed = Listed \ Wanted(job),
                              !.matched = Listed \cap Wanted(job),
                              !.gor = [r \in Res |-> IF r \in Wanted(job) \ Listed
                                                     THEN "new" ELSE "none"]])
             /\ UNCHANGED Cloud
    <2>1. /\ pc' = "create" /\ queued' = queued
          /\ UNCHANGED <<ac, ing, news, svc, evts, edits, lb, sg, lis, lost, swallowed>>
          /\ job' = [job EXCEPT !.doomed = Listed \ Wanted(job),
                              !.matched = Listed \cap Wanted(job),
                              !.gor = [r \in Res |-> IF r \in Wanted(job) \ Listed
                                                     THEN "new" ELSE "none"]]
      BY <1>1, <1>4 DEF Goto, World, Cloud
    <2>2. Listed \subseteq Res
      BY DEF Listed
    <2> DEFINE f == [r \in Res |-> IF r \in Wanted(job) \ Listed THEN "new" ELSE "none"]
    <2>3. f \in [Res -> GorStates]
      BY DEF GorStates
    <2>4. /\ job' \in Jobs /\ job'.spec = job.spec /\ job'.del = job.del /\ job'.err = job.err
          /\ job'.doomed = Listed \ Wanted(job) /\ job'.matched = Listed \cap Wanted(job)
          /\ job'.gor = f
      <3> HIDE DEF f
      <3> QED
        BY <1>1, <2>1, <2>2, <2>3 DEF Jobs, GorStates, f
    <2>5. Wanted(job)' = Wanted(job)
      BY <2>4 DEF Wanted
    <2>6. TypeOK'
      BY <1>1, <1>4, <2>1, <2>4, QuietType DEF Pcs, Making, TypeOK
    <2>7. FillInv'
      BY <1>1, <2>1, SameFill
    <2>8. \A r \in Res : sg[r] # "bare"
      BY <1>1 DEF TypeOK
    <2>9. \A r \in Res : r \notin Listed => sg[r] = "none"
      BY <1>1, <2>8 DEF TypeOK, Listed
    <2>10. Listed' = Listed /\ Targets' = Targets
      BY <2>1 DEF Listed, Targets
    <2>11. job.del => Wanted(job) = {}
      BY DEF Wanted
    <2>12. CreateInv'
      <3>1. \A r \in Res : r \in Targets => r \in Listed
        BY DEF AlbInv, FillInv
      <3>2. \A r \in Res : job'.gor[r] = (IF r \in Wanted(job) \ Listed THEN "new" ELSE "none")
        BY <2>4
      <3> QED
        BY <2>1, <2>4, <2>5, <2>9, <2>10, <2>11, <3>1, <3>2 DEF CreateInv
    <2>13. WantInv'
      BY <2>1, <2>4, <2>5, <2>10 DEF WantInv
    <2>14. DoomInv'
      BY <2>1, <2>4, <2>10, <2>11 DEF DoomInv
    <2>15. PhaseInv' /\ LbInv'
      BY <1>1, <1>4, <2>1, <2>4 DEF AlbInv, PhaseInv, LbInv, Making, Plain
    <2> QED
      BY <2>1, <2>6, <2>7, <2>12, <2>13, <2>14, <2>15 DEF AlbInv, OpenInv, RulesInv, PostInv
  <1> QED
    BY <1>2, <1>3, <1>4 DEF ListGroups

-----------------------------------------------------------------------------
(* The server groups.                                                      *)

\* One goroutine of the creations goes on to state s, with its group only.
LEMMA CreateStep ==
    ASSUME AlbInv, pc = "create", NEW r \in Res, job.gor[r] # "none",
           NEW s \in {"none", "tag", "add", "undo"},
           Fault \/ NoFault, UNCHANGED <<World, lb, lis>>,
           Goroutine(r, s) \/ (s = "none" /\ Reports(r)),
           sg' \in [Res -> {"none", "bare", "empty", "full"}],
           \A q \in Res \ {r} : sg'[q] = sg[q],
           s = "tag" => sg'[r] = "bare",
           s = "add" => r \in Groups /\ sg'[r] \in {"empty", "full"},
           s = "undo" => sg'[r] = "bare" \/ (r \in Groups /\ sg'[r] \in {"empty", "full"}),
           s = "none" => sg'[r] # "bare" /\ (Reports(r) \/ sg'[r] \in {"empty", "full"}),
           r \in Groups => \/ sg'[r] \notin {"empty", "full"} \/ s \in {"add", "undo"}
                           \/ Filled(r)',
           swallowed' \subseteq Groups, swallowed \ {r} \subseteq swallowed',
           UNCHANGED lost \/ (Fault /\ lost' \in [lb : Nat, sg : Nat])
    PROVE  AlbInv'
  <1>1. /\ TypeOK /\ job \in Jobs /\ job.gor \in [Res -> GorStates]
        /\ ~job.del /\ r \notin Targets /\ r \notin job.matched
    BY DEF AlbInv, TypeOK, CreateInv, Jobs, GorStates
  <1>2. s \in GorStates /\ UNCHANGED <<ac, ing, news, svc, evts, edits, lb, lis>>
    BY DEF GorStates, World
  <1>3. /\ pc' = "create" /\ queued' = queued /\ job' \in Jobs /\ job'.spec = job.spec
        /\ ~job'.del /\ job'.doomed = job.doomed /\ job'.matched = job.matched
        /\ job'.gor = [job.gor EXCEPT ![r] = s]
        /\ job.err => job'.err
        /\ Reports(r) => job'.err
    BY <1>1, <1>2, StepFacts
  <1>4. \A q \in Res : job'.gor[q] = (IF q = r THEN s ELSE job.gor[q])
    BY <1>1, <1>3
  <1>5. /\ \A q \in Res : q # r => (q \in Listed' <=> q \in Listed)
        /\ r \in Listed' <=> sg'[r] \in {"empty", "full"}
    BY DEF Listed
  <1>6. Targets' = Targets /\ Wanted(job)' = Wanted(job)
    BY <1>1, <1>2, <1>3 DEF Targets, Wanted
  <1>7. BareGroups' /\ BareLb'
    <2>1. BareGroups'
      BY <1>1, <1>3, <1>4 DEF TypeOK, BareGroups
    <2>2. BareLb'
      BY <1>1, <1>2, <1>3 DEF TypeOK, BareLb, Making
    <2> QED
      BY <2>1, <2>2
  <1>8. TypeOK'
    BY <1>1, <1>2, <1>3, <1>7, TypeStep DEF TypeOK, Pcs, EventKinds
  <1>9. CreateInv'
    <2> SUFFICES ASSUME NEW q \in Res
                 PROVE  /\ job'.gor[q] = "new" => sg'[q] = "none"
                        /\ job'.gor[q] = "tag" => sg'[q] = "bare"
                        /\ job'.gor[q] = "add" => q \in Groups /\ q \in Listed'
                        /\ job'.gor[q] = "undo" => sg'[q] = "bare" \/ (q \in Groups /\ q \in Listed')
                        /\ job'.gor[q] # "none" => q \notin Targets
                        /\ q \in Wanted(job) => job'.err \/ q \in Listed' \/ job'.gor[q] # "none"
                        /\ q \in job.matched => q \in Listed' /\ job'.gor[q] = "none"
      BY <1>3, <1>6 DEF CreateInv
    <2>1. CASE q = r
      BY <1>1, <1>3, <1>4, <1>5, <2>1
    <2>2. CASE q # r
      BY <1>3, <1>4, <1>5, <2>2 DEF AlbInv, CreateInv
    <2> QED
      BY <2>1, <2>2
  <1>10. FillInv'
    <2>1. \A q \in Targets : q \in Listed'
      BY <1>1, <1>5 DEF AlbInv, FillInv, Targets, Res
    <2>2. ASSUME NEW q \in Groups, q # r, q \in Listed'
          PROVE  Filled(q)' \/ job'.gor[q] \in {"add", "undo"}
      <3>1. q \in Res /\ q \in Listed
        BY <1>5, <2>2 DEF Res
      <3>2. Filled(q) => Filled(q)'
        BY <1>2, <2>2, <3>1 DEF Filled
      <3> QED
        BY <1>4, <2>2, <3>1, <3>2 DEF AlbInv, FillInv
    <2>3. r \in Groups /\ r \in Listed' => Filled(r)' \/ job'.gor[r] \in {"add", "undo"}
      BY <1>4, <1>5
    <2> QED
      BY <1>3, <1>6, <2>1, <2>2, <2>3 DEF FillInv
  <1>11. PhaseInv' /\ LbInv'
    BY <1>1, <1>2, <1>3 DEF AlbInv, PhaseInv, LbInv, Making, Plain
  <1>12. WantInv' /\ DoomInv'
    BY <1>3, <1>6 DEF AlbInv, WantInv, DoomInv
  <1> QED
    BY <1>3, <1>8, <1>9, <1>10, <1>11, <1>12 DEF AlbInv, OpenInv, RulesInv, PostInv

LEMMA CreateGroupAlb ==
    ASSUME AlbInv, NEW r \in Res, CreateGroup(r)
    PROVE  AlbInv'
  <1>1. TypeOK /\ pc = "create" /\ job.gor[r] = "new" /\ sg[r] = "none" /\ UNCHANGED World
    BY DEF AlbInv, CreateInv, CreateGroup
  <1>2. CASE /\ NoFault /\ sg' = [sg EXCEPT ![r] = "bare"] /\ Goroutine(r, "tag")
             /\ UNCHANGED <<lb, lis, lost, swallowed>>
    <2>1. /\ sg' \in [Res -> {"none", "bare", "empty", "full"}]
          /\ \A q \in Res \ {r} : sg'[q] = sg[q]
          /\ sg'[r] = "bare" /\ swallowed' \subseteq Groups
      BY <1>1, <1>2 DEF TypeOK
    <2> QED
      BY <1>1, <1>2, <2>1, CreateStep
  <1>3. CASE Fault /\ Reports(r) /\ UNCHANGED Cloud
    <2>1. /\ sg' \in [Res -> {"none", "bare", "empty", "full"}]
          /\ \A q \in Res \ {r} : sg'[q] = sg[q]
          /\ sg'[r] = "none" /\ swallowed' = swallowed /\ swallowed \subseteq Groups
          /\ UNCHANGED <<lb, lis, lost>>
      BY <1>1, <1>3 DEF TypeOK, Cloud
    <2> QED
      BY <1>1, <1>3, <2>1, CreateStep
  <1> QED
    BY <1>2, <1>3 DEF CreateGroup

LEMMA TagGroupAlb ==
    ASSUME AlbInv, NEW r \in Res, TagGroup(r)
    PROVE  AlbInv'
  <1>1. TypeOK /\ pc = "create" /\ job.gor[r] = "tag" /\ sg[r] = "bare" /\ UNCHANGED World
    BY DEF AlbInv, CreateInv, TagGroup
  <1>2. CASE /\ NoFault /\ sg' = [sg EXCEPT ![r] = "empty"]
             /\ Goroutine(r, IF r \in Ports THEN "none" ELSE "add")
             /\ UNCHANGED <<lb, lis, lost, swallowed>>
    <2> DEFINE s == IF r \in Ports THEN "none" ELSE "add"
    <2>1. /\ sg' \in [Res -> {"none", "bare", "empty", "full"}]
          /\ \A q \in Res \ {r} : sg'[q] = sg[q]
          /\ sg'[r] = "empty" /\ swallowed' = swallowed /\ swallowed \subseteq Groups
      BY <1>1, <1>2 DEF TypeOK
    <2>2. /\ s \in {"none", "tag", "add", "undo"} /\ s \notin {"tag", "undo"}
          /\ s = "add" => r \in Groups
          /\ r \in Groups => s = "add"
      BY AlbAssumption DEF Res
    <2>3. Goroutine(r, s)
      BY <1>2
    <2> HIDE DEF s
    <2> QED
      BY <1>1, <1>2, <2>1, <2>2, <2>3, CreateStep
  <1>3. CASE Fault /\ Goroutine(r, "undo") /\ UNCHANGED Cloud
    <2>1. /\ sg' \in [Res -> {"none", "bare", "empty", "full"}]
          /\ \A q \in Res \ {r} : sg'[q] = sg[q]
          /\ sg'[r] = "bare" /\ swallowed' = swallowed /\ swallowed \subseteq Groups
          /\ UNCHANGED <<lb, lis, lost>>
      BY <1>1, <1>3 DEF TypeOK, Cloud
    <2> QED
      BY <1>1, <1>3, <2>1, CreateStep
  <1> QED
    BY <1>2, <1>3 DEF TagGroup

LEMMA AddServersAlb ==
    ASSUME AlbInv, NEW r \in Res, AddServers(r)
    PROVE  AlbInv'
  <1>1. /\ TypeOK /\ pc = "create" /\ job.gor[r] = "add" /\ r \in Groups
        /\ sg[r] \in {"empty", "full"} /\ UNCHANGED World
    BY DEF AlbInv, CreateInv, AddServers, Listed
  <1>2. CASE /\ NoFault /\ Goroutine(r, "none")
             /\ sg' = [sg EXCEPT ![r] = IF r \in svc THEN "full" ELSE "empty"]
             /\ UNCHANGED <<lb, lis, lost, swallowed>>
    <2>1. /\ sg' \in [Res -> {"none", "bare", "empty", "full"}]
          /\ \A q \in Res \ {r} : sg'[q] = sg[q]
          /\ sg'[r] = (IF r \in svc THEN "full" ELSE "empty")
          /\ swallowed' = swallowed /\ swallowed \subseteq Groups
      BY <1>1, <1>2 DEF TypeOK
    <2>2. svc' = svc
      BY <1>1 DEF World
    <2>3. Filled(r)'
      BY <2>1, <2>2 DEF Filled
    <2> QED
      BY <1>1, <1>2, <2>1, <2>3, CreateStep
  <1>3. CASE /\ r \in svc /\ Fault
             /\ Goroutine(r, IF job.err THEN "none" ELSE "undo")
             /\ swallowed' = IF job.err THEN swallowed \cup {r} ELSE swallowed
             /\ UNCHANGED <<lb, sg, lis, lost>>
    <2>1. /\ sg' \in [Res -> {"none", "bare", "empty", "full"}]
          /\ \A q \in Res \ {r} : sg'[q] = sg[q]
          /\ sg'[r] = sg[r]
          /\ swallowed \subseteq swallowed' /\ swallowed' \subseteq Groups
      BY <1>1, <1>3 DEF TypeOK
    <2>2. CASE job.err
      <3>1. Filled(r)'
        BY <1>3, <2>2 DEF Filled
      <3>2. Goroutine(r, "none")
        BY <1>3, <2>2
      <3> QED
        BY <1>1, <1>3, <2>1, <3>1, <3>2, CreateStep
    <2>3. CASE ~job.err
      <3>1. Goroutine(r, "undo")
        BY <1>3, <2>3
      <3> QED
        BY <1>1, <1>3, <2>1, <3>1, CreateStep
    <2> QED
      BY <2>2, <2>3
  <1> QED
    BY <1>2, <1>3 DEF AddServers

LEMMA UndoGroupAlb ==
    ASSUME AlbInv, NEW r \in Res, UndoGroup(r)
    PROVE  AlbInv'
  <1>1. /\ TypeOK /\ pc = "create" /\ job.gor[r] = "undo" /\ Reports(r) /\ UNCHANGED World
        /\ sg[r] = "bare" \/ (r \in Groups /\ sg[r] \in {"empty", "full"})
    BY DEF AlbInv, CreateInv, UndoGroup, Listed
  <1>2. CASE /\ NoFault /\ sg' = [sg EXCEPT ![r] = "none"]
             /\ swallowed' = swallowed \ {r} /\ UNCHANGED <<lb, lis, lost>>
    <2>1. /\ sg' \in [Res -> {"none", "bare", "empty", "full"}]
          /\ \A q \in Res \ {r} : sg'[q] = sg[q]
          /\ sg'[r] = "none" /\ swallowed' \subseteq Groups
      BY <1>1, <1>2 DEF TypeOK
    <2> QED
      BY <1>1, <1>2, <2>1, CreateStep
  <1>3. CASE /\ Fault /\ sg[r] = "bare"
             /\ sg' = [sg EXCEPT ![r] = "none"] /\ lost' = [lost EXCEPT !.sg = @ + 1]
             /\ UNCHANGED <<lb, lis, swallowed>>
    <2>1. /\ sg' \in [Res -> {"none", "bare", "empty", "full"}]
          /\ \A q \in Res \ {r} : sg'[q] = sg[q]
          /\ sg'[r] = "none" /\ swallowed' = swallowed /\ swallowed \subseteq Groups
      BY <1>1, <1>3 DEF TypeOK
    <2>2. lost' \in [lb : Nat, sg : Nat]
      BY <1>1, <1>3 DEF TypeOK
    <2> QED
      BY <1>1, <1>3, <2>1, <2>2, CreateStep
  <1>4. CASE /\ Fault /\ sg[r] # "bare"
             /\ swallowed' = swallowed \cup {r} /\ UNCHANGED <<lb, sg, lis, lost>>
    <2>1. /\ sg' \in [Res -> {"none", "bare", "empty", "full"}]
          /\ \A q \in Res \ {r} : sg'[q] = sg[q]
          /\ sg'[r] = sg[r] /\ swallowed' \subseteq Groups
      BY <1>1, <1>4 DEF TypeOK
    <2>2. Filled(r)'
      BY <1>4 DEF Filled
    <2> QED
      BY <1>1, <1>4, <2>1, <2>2, CreateStep
  <1> QED
    BY <1>2, <1>3, <1>4 DEF UndoGroup

LEMMA GroupsCreatedAlb ==
    ASSUME AlbInv, GroupsCreated
    PROVE  AlbInv'
  <1>1. /\ TypeOK /\ pc = "create" /\ job \in Jobs /\ Settled("create") /\ NoFault
        /\ \A r \in Res : job.gor[r] = "none"
        /\ UNCHANGED <<World, Cloud>>
    BY DEF AlbInv, TypeOK, GroupsCreated, Settled
  <1>2. CASE job.err
    BY <1>1, <1>2, ReturnAlb DEF GroupsCreated, Making
  <1>3. CASE ~job.err
    <2> DEFINE f == [r \in Res |-> IF r \in job.matched THEN "new" ELSE "none"]
    <2>1. f \in [Res -> GorStates]
      BY DEF GorStates
    <2>2. /\ pc' = "update" /\ queued' = queued /\ job' = [job EXCEPT !.gor = f]
          /\ UNCHANGED <<ac, ing, news, svc, evts, edits, lb, sg, lis, lost, swallowed>>
      BY <1>1, <1>3 DEF GroupsCreated, Goto, World, Cloud
    <2>3. /\ job' \in Jobs /\ job'.spec = job.spec /\ job'.del = job.del /\ job'.err = job.err
          /\ job'.doomed = job.doomed /\ job'.gor = f
      <3> HIDE DEF f
      <3> QED
        BY <1>1, <2>1, <2>2, SpawnFacts
    <2>4. Wanted(job)' = Wanted(job) /\ Listed' = Listed /\ Wanted(job) \subseteq Res
      BY <1>1, <2>2, <2>3, WantedFacts DEF Wanted, Listed
    <2>5. TypeOK'
      BY <1>1, <2>2, <2>3, QuietType DEF Pcs, Making, TypeOK
    <2>6. FillInv'
      BY <1>1, <2>2, SameFill
    <2>7. WantInv'
      <3>1. \A r \in Wanted(job) : r \in Listed
        BY <1>1, <1>3, <2>4 DEF AlbInv, CreateInv
      <3>2. \A r \in Res : job'.gor[r] # "none" => r \in Listed
        BY <1>1, <2>3 DEF AlbInv, CreateInv
      <3> QED
        BY <2>2, <2>3, <2>4, <3>1, <3>2 DEF AlbInv, WantInv
    <2>8. DoomInv' /\ PhaseInv' /\ LbInv'
      BY <1>1, <2>2, <2>3, <2>4 DEF AlbInv, DoomInv, PhaseInv, LbInv, Making, Plain
    <2> QED
      BY <2>2, <2>5, <2>6, <2>7, <2>8 DEF AlbInv, CreateInv, OpenInv, RulesInv, PostInv
  <1> QED
    BY <1>2, <1>3

LEMMA UpdateGroupAlb ==
    ASSUME AlbInv, NEW r \in Res, UpdateGroup(r)
    PROVE  AlbInv'
  <1>1. /\ TypeOK /\ pc = "update" /\ job \in Jobs /\ job.gor[r] = "new"
        /\ sg[r] \in {"empty", "full"} /\ UNCHANGED World
        /\ UNCHANGED <<ac, ing, news, svc, evts, edits>>
    BY DEF AlbInv, TypeOK, WantInv, UpdateGroup, Listed, World
  <1>2. /\ Goroutine(r, "none") \/ Reports(r)
        /\ Fault \/ NoFault
        /\ UNCHANGED <<lb, lis, lost>>
        /\ sg' \in [Res -> {"none", "bare", "empty", "full"}]
        /\ \A q \in Res \ {r} : sg'[q] = sg[q]
        /\ sg'[r] = sg[r] \/ (sg'[r] = "empty" /\ r \notin svc)
        /\ swallowed \subseteq swallowed' /\ swallowed' \subseteq Groups
    <2>1. r \notin svc \cup Ports => r \in Groups
      BY DEF Res
    <2> QED
      BY <1>1, <2>1 DEF UpdateGroup, Cloud, TypeOK
  <1>3. "none" \in GorStates
    BY DEF GorStates
  <1>4. /\ pc' = "update" /\ queued' = queued /\ job' \in Jobs /\ job'.spec = job.spec
        /\ job'.del = job.del /\ job'.doomed = job.doomed
        /\ job'.gor = [job.gor EXCEPT ![r] = "none"]
        /\ job.err => job'.err
    BY <1>1, <1>2, <1>3, StepFacts
  <1>5. \A q \in Res : job'.gor[q] # "none" => job.gor[q] # "none"
    BY <1>1, <1>4 DEF Jobs
  <1>6. Listed' = Listed
    BY <1>1, <1>2 DEF Listed
  <1>7. Targets' = Targets /\ Wanted(job)' = Wanted(job)
    BY <1>2, <1>4 DEF Targets, Wanted
  <1>8. \A q \in Res : sg'[q] # "bare"
    BY <1>1, <1>2 DEF TypeOK
  <1>9. BareGroups' /\ BareLb'
    BY <1>1, <1>2, <1>4, <1>8 DEF TypeOK, BareGroups, BareLb, Making
  <1>10. TypeOK'
    BY <1>1, <1>2, <1>4, <1>9, TypeStep DEF TypeOK, Pcs, EventKinds
  <1>11. FillInv'
    <2>1. \A q \in Groups : Filled(q) => Filled(q)'
      BY <1>1, <1>2 DEF Filled, Res
    <2> QED
      BY <1>1, <1>6, <1>7, <2>1 DEF AlbInv, FillInv
  <1>12. WantInv' /\ DoomInv'
    BY <1>1, <1>4, <1>5, <1>6, <1>7 DEF AlbInv, WantInv, DoomInv, Plain
  <1>13. PhaseInv' /\ LbInv'
    BY <1>1, <1>2, <1>4 DEF AlbInv, PhaseInv, LbInv, Making, Plain
  <1> QED
    BY <1>4, <1>10, <1>11, <1>12, <1>13 DEF AlbInv, CreateInv, OpenInv, RulesInv, PostInv

LEMMA GroupsUpdatedAlb ==
    ASSUME AlbInv, GroupsUpdated
    PROVE  AlbInv'
  <1>1. /\ TypeOK /\ pc = "update" /\ job \in Jobs /\ NoFault /\ UNCHANGED <<World, Cloud>>
    BY DEF AlbInv, TypeOK, GroupsUpdated, Settled
  <1>2. CASE job.err
    BY <1>1, <1>2, ReturnAlb DEF GroupsUpdated, Making
  <1>3. CASE ~job.err
    <2>1. /\ pc' = "lb" /\ queued' = queued /\ job' = job
          /\ UNCHANGED <<ac, ing, news, svc, evts, edits, lb, sg, lis, lost, swallowed>>
      BY <1>1, <1>3 DEF GroupsUpdated, Goto, World, Cloud
    <2>2. TypeOK'
      BY <1>1, <2>1, QuietType DEF Pcs, Making, TypeOK
    <2>3. FillInv'
      BY <1>1, <2>1, SameFill
    <2>4. Wanted(job)' = Wanted(job) /\ Listed' = Listed
      BY <2>1 DEF Wanted, Listed
    <2>5. DoomInv' /\ WantInv' /\ PhaseInv' /\ LbInv'
      BY <1>1, <2>1, <2>4 DEF AlbInv, DoomInv, WantInv, PhaseInv, LbInv, Making, Plain
    <2> QED
      BY <2>1, <2>2, <2>3, <2>5 DEF AlbInv, CreateInv, OpenInv, RulesInv, PostInv
  <1> QED
    BY <1>2, <1>3

-----------------------------------------------------------------------------
(* The instance.                                                           *)

\* The reconcile ends at the instance.
LEMMA LbReturns ==
    ASSUME AlbInv, pc \in {"lb", "wait", "tag", "untag"}, Return(TRUE), Fault \/ NoFault,
           UNCHANGED <<World, sg, lis, swallowed>>,
           lb' \in {"none", "tagged"} \/ (lb' = lb /\ ~Making),
           lb = "tagged" => lb' = "tagged",
           UNCHANGED lost \/ (Fault /\ lost' \in [lb : Nat, sg : Nat])
    PROVE  AlbInv'
  <1>1. TypeOK /\ pc' = "idle" /\ job' = Idle /\ queued' \in BOOLEAN /\ Idle \in Jobs
    BY ReturnFacts DEF AlbInv
  <1>2. UNCHANGED <<ac, ing, news, svc, evts, edits, sg, lis, swallowed>>
    BY DEF World
  <1>3. BareGroups' /\ BareLb'
    BY <1>1, <1>2 DEF TypeOK, BareGroups, BareLb, Making
  <1>4. TypeOK'
    BY <1>1, <1>2, <1>3, TypeStep DEF TypeOK, Pcs, EventKinds
  <1>5. FillInv'
    BY <1>2, SameFill
  <1> QED
    BY <1>1, <1>2, <1>4, <1>5, IdleAlb DEF AlbInv, PhaseInv, LbInv

\* The reconcile goes on, with the instance it has.
LEMMA LbGoes ==
    ASSUME AlbInv, pc \in {"lb", "wait", "tag", "untag"}, ~job.del, NEW step, Goto(step, job), NoFault \/ Fault,
           UNCHANGED <<World, sg, lis, lost, swallowed>>,
           \/ step \in {"wait", "tag", "untag"} /\ lb' = "bare" /\ ac.mode = "own"
           \/ step = "listeners" /\ lb' = "tagged" /\ ac.mode # "plain"
           \/ step = "status" /\ lb' = "tagged" /\ ac.mode = "plain",
           lb = "tagged" => lb' = "tagged"
    PROVE  AlbInv'
  <1>1. TypeOK /\ pc' = step /\ job' = job /\ queued' = queued
    BY DEF AlbInv, Goto
  <1>2. UNCHANGED <<ac, ing, news, svc, evts, edits, sg, lis, swallowed>>
    BY DEF World
  <1>3. BareGroups' /\ BareLb'
    BY <1>1, <1>2 DEF TypeOK, BareGroups, BareLb, Making
  <1>4. TypeOK'
    BY <1>1, <1>2, <1>3, TypeStep DEF TypeOK, Pcs, EventKinds
  <1>5. FillInv'
    BY <1>2, SameFill
  <1>6. Wanted(job)' = Wanted(job) /\ Listed' = Listed
    BY <1>1, <1>2 DEF Wanted, Listed
  <1>7. WantInv' /\ DoomInv'
    BY <1>1, <1>2, <1>6 DEF AlbInv, WantInv, DoomInv, Plain
  <1>8. PhaseInv' /\ LbInv'
    BY <1>1, <1>2 DEF AlbInv, PhaseInv, LbInv, Making, Plain
  <1> QED
    BY <1>1, <1>4, <1>5, <1>7, <1>8 DEF AlbInv, CreateInv, OpenInv, RulesInv, PostInv

LEMMA DeleteAlbAlb ==
    ASSUME AlbInv, DeleteAlb
    PROVE  AlbInv'
  <1>1. TypeOK /\ pc = "lb" /\ job.del /\ UNCHANGED World /\ UNCHANGED <<ac, ing, news, svc, evts, edits>>
    BY DEF AlbInv, DeleteAlb, World
  <1>2. CASE Fails
    BY <1>1, <1>2, ReturnAlb DEF Fails, Making
  <1>3. CASE /\ NoFault /\ Goto("post", job)
             /\ lb' = IF lb = "tagged" THEN "none" ELSE lb
             /\ lis' = IF lb = "tagged" THEN [p \in Ports |-> NoLis] ELSE lis
             /\ UNCHANGED <<sg, lost, swallowed>>
    <2>1. pc' = "post" /\ job' = job /\ queued' = queued
      BY <1>3 DEF Goto
    <2>2. \A p \in Ports : lis'[p] = NoLis
      BY <1>3 DEF AlbInv, LbInv
    <2>3. lis' \in [Ports -> {NoLis} \cup Rules] /\ lb' # "tagged" /\ lb' \in {"none", "bare", "tagged"}
      BY <1>1, <1>3 DEF TypeOK
    <2>4. BareGroups' /\ BareLb'
      BY <1>1, <1>3, <2>1 DEF TypeOK, BareGroups, BareLb, Making
    <2>5. TypeOK'
      BY <1>1, <1>3, <2>1, <2>3, <2>4, TypeStep DEF TypeOK, Pcs, EventKinds
    <2>6. Wanted(job)' = Wanted(job) /\ Listed' = Listed /\ Targets' = {}
      BY <1>3, <2>1, <2>2 DEF Wanted, Listed, Targets
    <2>7. FillInv'
      BY <1>1, <1>3, <2>1, <2>6 DEF AlbInv, FillInv, Filled
    <2>8. WantInv' /\ DoomInv'
      BY <1>1, <1>3, <2>1, <2>3, <2>6 DEF AlbInv, WantInv, DoomInv
    <2>9. PhaseInv' /\ LbInv'
      BY <1>1, <2>1, <2>2 DEF AlbInv, PhaseInv, LbInv, Making
    <2> QED
      BY <1>1, <2>1, <2>5, <2>7, <2>8, <2>9 DEF AlbInv, CreateInv, OpenInv, RulesInv, PostInv
  <1> QED
    BY <1>2, <1>3 DEF DeleteAlb

LEMMA FindAlbAlb ==
    ASSUME AlbInv, UpdateAlb \/ ReuseAlb
    PROVE  AlbInv'
  <1>1. /\ TypeOK /\ pc = "lb" /\ ~job.del /\ UNCHANGED World /\ ~Making
    BY DEF AlbInv, UpdateAlb, ReuseAlb, Making
  <1>2. CASE /\ Fails \/ (NoFault /\ Return(TRUE) /\ UNCHANGED Cloud)
    <2>1. Return(TRUE) /\ (Fault \/ NoFault) /\ UNCHANGED <<World, Cloud>>
      BY <1>1, <1>2 DEF Fails
    <2> QED
      BY <1>1, <2>1, ReturnAlb
  <1>3. CASE /\ NoFault /\ Goto(AfterLb, job) /\ lb' = "tagged"
             /\ UNCHANGED <<sg, lis, lost, swallowed>>
    <2>1. \/ AfterLb = "status" /\ ac.mode = "plain"
          \/ AfterLb = "listeners" /\ ac.mode # "plain"
      BY DEF AfterLb
    <2> QED
      BY <1>1, <1>3, <2>1, LbGoes
  <1>4. ASSUME UpdateAlb PROVE AlbInv'
    BY <1>2, <1>3, <1>4 DEF UpdateAlb, Cloud
  <1>5. ASSUME ReuseAlb PROVE AlbInv'
    BY <1>2, <1>3, <1>5 DEF ReuseAlb
  <1> QED
    BY <1>4, <1>5

LEMMA CreateAlbAlb ==
    ASSUME AlbInv, CreateAlb
    PROVE  AlbInv'
  <1>1. TypeOK /\ pc = "lb" /\ ~job.del /\ lb = "none" /\ ac.mode = "own" /\ UNCHANGED World
    BY DEF AlbInv, CreateAlb
  <1>2. CASE Fails
    BY <1>1, <1>2, ReturnAlb DEF Fails, Making
  <1>3. CASE /\ NoFault /\ Goto("wait", job)
             /\ lb' = "bare" /\ UNCHANGED <<sg, lis, lost, swallowed>>
    BY <1>1, <1>3, LbGoes
  <1> QED
    BY <1>2, <1>3 DEF CreateAlb

\* What is forgotten is lost.
LEMMA ForgetFacts ==
    ASSUME TypeOK, Forget
    PROVE  lb' = "none" /\ lost' \in [lb : Nat, sg : Nat] /\ UNCHANGED <<sg, lis, swallowed>>
  BY DEF TypeOK, Forget

LEMMA MakeAlbAlb ==
    ASSUME AlbInv, WaitActive \/ TagAlb \/ UndoAlb
    PROVE  AlbInv'
  <1>1. /\ TypeOK /\ pc \in {"wait", "tag", "untag"} /\ Making /\ UNCHANGED World
        /\ lb = "bare" /\ ac.mode = "own" /\ ~job.del
    BY DEF AlbInv, LbInv, Making, WaitActive, TagAlb, UndoAlb
  <1>2. CASE WaitActive
    <2>1. CASE NoFault /\ Goto("tag", job) /\ UNCHANGED Cloud
      <3>1. UNCHANGED <<lb, sg, lis, lost, swallowed>>
        BY <2>1 DEF Cloud
      <3> QED
        BY <1>1, <2>1, <3>1, LbGoes
    <2>2. CASE Fault /\ Return(TRUE) /\ Forget
      BY <1>1, <2>2, ForgetFacts, LbReturns
    <2> QED
      BY <1>2, <2>1, <2>2 DEF WaitActive
  <1>3. CASE TagAlb
    <2>1. CASE /\ NoFault /\ Goto("listeners", job)
               /\ lb' = "tagged" /\ UNCHANGED <<sg, lis, lost, swallowed>>
      BY <1>1, <2>1, LbGoes
    <2>2. CASE /\ Fault /\ Return(TRUE)
               /\ lb' = "tagged" /\ UNCHANGED <<sg, lis, lost, swallowed>>
      BY <1>1, <2>2, LbReturns
    <2>3. CASE Fault /\ Goto("untag", job) /\ UNCHANGED Cloud
      <3>1. UNCHANGED <<lb, sg, lis, lost, swallowed>>
        BY <2>3 DEF Cloud
      <3> QED
        BY <1>1, <2>3, <3>1, LbGoes
    <2> QED
      BY <1>3, <2>1, <2>2, <2>3 DEF TagAlb
  <1>4. CASE UndoAlb
    <2>1. CASE NoFault /\ lb' = "none" /\ UNCHANGED <<sg, lis, lost, swallowed>>
      BY <1>1, <1>4, <2>1, LbReturns DEF UndoAlb
    <2>2. CASE Fault /\ Forget
      BY <1>1, <1>4, <2>2, ForgetFacts, LbReturns DEF UndoAlb
    <2> QED
      BY <1>4, <2>1, <2>2 DEF UndoAlb
  <1> QED
    BY <1>2, <1>3, <1>4

-----------------------------------------------------------------------------
(* The listeners.                                                          *)

LEMMA ListListenersAlb ==
    ASSUME AlbInv, ListListeners
    PROVE  AlbInv'
  <1>1. /\ TypeOK /\ pc = "listeners" /\ job \in Jobs /\ UNCHANGED <<World, Cloud>>
        /\ lb = "tagged" /\ ~job.del
    BY DEF AlbInv, TypeOK, LbInv, ListListeners
  <1>2. CASE Return(TRUE) /\ (Fault \/ NoFault)
    BY <1>1, <1>2, ReturnAlb DEF Making
  <1>3. CASE /\ Stale = {} /\ NoFault
             /\ Goto("open", [job EXCEPT !.gor =
                     [r \in Res |-> IF r \in DOMAIN job.spec
                                    THEN (IF lis[r] = NoLis THEN "new" ELSE "old") ELSE "none"]])
    <2> DEFINE f == [r \in Res |-> IF r \in DOMAIN job.spec
                                   THEN (IF lis[r] = NoLis THEN "new" ELSE "old") ELSE "none"]
    <2>1. f \in [Res -> GorStates]
      BY DEF GorStates
    <2>2. /\ pc' = "open" /\ queued' = queued /\ job' = [job EXCEPT !.gor = f]
          /\ UNCHANGED <<ac, ing, news, svc, evts, edits, lb, sg, lis, lost, swallowed>>
      BY <1>1, <1>3 DEF Goto, World, Cloud
    <2>3. /\ job' \in Jobs /\ job'.spec = job.spec /\ job'.del = job.del /\ job'.err = job.err
          /\ job'.doomed = job.doomed /\ job'.gor = f
      <3> HIDE DEF f
      <3> QED
        BY <1>1, <2>1, <2>2, SpawnFacts
    <2>4. \A p \in Ports : p \in Res /\ job'.gor[p] = (IF p \in DOMAIN job.spec
                                   THEN (IF lis[p] = NoLis THEN "new" ELSE "old") ELSE "none")
      BY <2>3 DEF Res
    <2>5. TypeOK'
      BY <1>1, <1>3, <2>2, <2>3, QuietType DEF Pcs, Making, TypeOK
    <2>6. FillInv'
      BY <1>1, <2>2, SameFill
    <2>7. Wanted(job)' = Wanted(job) /\ Listed' = Listed
      BY <2>2, <2>3 DEF Wanted, Listed
    <2>8. WantInv' /\ DoomInv' /\ PhaseInv' /\ LbInv'
      BY <1>1, <2>2, <2>3, <2>7 DEF AlbInv, WantInv, DoomInv, PhaseInv, LbInv, Making, Plain
    <2>9. OpenInv'
      BY <1>3, <2>2, <2>3, <2>4 DEF OpenInv, Stale
    <2> QED
      BY <2>2, <2>5, <2>6, <2>8, <2>9 DEF AlbInv, CreateInv, RulesInv, PostInv
  <1> QED
    BY <1>2, <1>3 DEF ListListeners

\* The goroutine of one listener ends.
LEMMA OpenStep ==
    ASSUME AlbInv, pc = "open", NEW p \in Ports, job.gor[p] # "none",
           Goroutine(p, "none") \/ Reports(p), Fault \/ NoFault,
           lis' \in {lis, [lis EXCEPT ![p] = [i \in Prios |-> NoRule]]},
           Reports(p) \/ lis'[p] # NoLis,
           UNCHANGED <<World, lb, sg, lost, swallowed>>
    PROVE  AlbInv'
  <1>1. /\ TypeOK /\ job \in Jobs /\ ~job.del /\ lb = "tagged" /\ p \in Res
        /\ UNCHANGED <<ac, ing, news, svc, evts, edits>>
    BY DEF AlbInv, TypeOK, LbInv, World, Res
  <1>2. "none" \in GorStates
    BY DEF GorStates
  <1>3. /\ pc' = "open" /\ queued' = queued /\ job' \in Jobs /\ job'.spec = job.spec
        /\ job'.del = job.del /\ job'.doomed = job.doomed
        /\ job'.gor = [job.gor EXCEPT ![p] = "none"]
        /\ job.err => job'.err
        /\ Reports(p) => job'.err
    BY <1>1, <1>2, StepFacts
  <1>4. \A q \in Ports : job'.gor[q] = (IF q = p THEN "none" ELSE job.gor[q])
    BY <1>1, <1>3 DEF Jobs, Res
  <1>5. [i \in Prios |-> NoRule] \in Rules
    BY DEF Rules
  <1>6. /\ lis' \in [Ports -> {NoLis} \cup Rules]
        /\ \A q \in Ports : lis'[q] = lis[q] \/ (q = p /\ lis'[q] = [i \in Prios |-> NoRule])
    BY <1>1, <1>5 DEF TypeOK
  <1>7. \A q \in Ports : lis[q] # NoLis => lis'[q] # NoLis
    BY <1>5, <1>6, AlbAssumption DEF Rules
  <1>8. Targets' \subseteq Targets
    BY <1>6, AlbAssumption DEF Targets
  <1>9. BareGroups' /\ BareLb'
    BY <1>1, <1>3 DEF TypeOK, BareGroups, BareLb, Making
  <1>10. TypeOK'
    BY <1>1, <1>3, <1>6, <1>9, TypeStep DEF TypeOK, Pcs, EventKinds
  <1>11. Wanted(job)' = Wanted(job) /\ Listed' = Listed
    BY <1>3 DEF Wanted, Listed
  <1>12. FillInv'
    BY <1>1, <1>3, <1>8, <1>11 DEF AlbInv, FillInv, Filled
  <1>13. WantInv' /\ DoomInv' /\ PhaseInv' /\ LbInv'
    BY <1>1, <1>3, <1>11 DEF AlbInv, WantInv, DoomInv, PhaseInv, LbInv, Making, Plain
  <1>14. OpenInv'
    <2> SUFFICES ASSUME NEW q \in Ports
                 PROVE  /\ q \notin DOMAIN job.spec => lis'[q] = NoLis /\ job'.gor[q] = "none"
                        /\ job'.gor[q] = "old" => lis'[q] # NoLis
                        /\ q \in DOMAIN job.spec /\ job'.gor[q] = "none" => job'.err \/ lis'[q] # NoLis
      BY <1>3 DEF OpenInv
    <2>1. CASE q = p
      BY <1>1, <1>3, <1>4, <2>1 DEF AlbInv, OpenInv
    <2>2. CASE q # p
      BY <1>3, <1>4, <1>6, <2>2 DEF AlbInv, OpenInv
    <2> QED
      BY <2>1, <2>2
  <1> QED
    BY <1>3, <1>10, <1>12, <1>13, <1>14 DEF AlbInv, CreateInv, RulesInv, PostInv

LEMMA CreateListenerAlb ==
    ASSUME AlbInv, NEW p \in Ports, CreateListener(p) \/ UpdateListener(p)
    PROVE  AlbInv'
  <1>1. TypeOK /\ pc = "open" /\ job.gor[p] \in {"new", "old"} /\ UNCHANGED <<World, lb, sg, lost, swallowed>>
    BY DEF AlbInv, CreateListener, UpdateListener, Cloud
  <1>2. CASE CreateListener(p)
    <2>1. [i \in Prios |-> NoRule] # NoLis
      BY AlbAssumption
    <2>2. /\ Goroutine(p, "none") \/ Reports(p)
          /\ Fault \/ NoFault
          /\ lis' \in {lis, [lis EXCEPT ![p] = [i \in Prios |-> NoRule]]}
          /\ Reports(p) \/ lis'[p] # NoLis
      BY <1>1, <1>2, <2>1 DEF CreateListener, TypeOK
    <2> QED
      BY <1>1, <2>2, OpenStep
  <1>3. CASE UpdateListener(p)
    <2>1. lis[p] # NoLis
      BY <1>1, <1>3 DEF AlbInv, OpenInv, UpdateListener
    <2>2. /\ Goroutine(p, "none") \/ Reports(p)
          /\ Fault \/ NoFault
          /\ lis' = lis
      BY <1>3 DEF UpdateListener, Cloud
    <2> QED
      BY <1>1, <2>1, <2>2, OpenStep
  <1> QED
    BY <1>2, <1>3

LEMMA ListenersDoneAlb ==
    ASSUME AlbInv, ListenersDone
    PROVE  AlbInv'
  <1>1. /\ TypeOK /\ pc = "open" /\ job \in Jobs /\ NoFault /\ UNCHANGED <<World, Cloud>>
        /\ lb = "tagged" /\ ~job.del
    BY DEF AlbInv, TypeOK, LbInv, ListenersDone, Settled
  <1>2. CASE Return(TRUE)
    BY <1>1, <1>2, ReturnAlb DEF Making
  <1>3. CASE /\ Settled("open") /\ ~job.err
             /\ Goto("rules", [job EXCEPT !.gor = [r \in Res |-> IF r \in DOMAIN job.spec
                                                              THEN "delete" ELSE "none"]])
    <2> DEFINE f == [r \in Res |-> IF r \in DOMAIN job.spec THEN "delete" ELSE "none"]
    <2>1. f \in [Res -> GorStates]
      BY DEF GorStates
    <2>2. /\ pc' = "rules" /\ queued' = queued /\ job' = [job EXCEPT !.gor = f]
          /\ UNCHANGED <<ac, ing, news, svc, evts, edits, lb, sg, lis, lost, swallowed>>
      BY <1>1, <1>3 DEF Goto, World, Cloud
    <2>3. /\ job' \in Jobs /\ job'.spec = job.spec /\ job'.del = job.del /\ job'.err = job.err
          /\ job'.doomed = job.doomed /\ job'.gor = f
      <3> HIDE DEF f
      <3> QED
        BY <1>1, <2>1, <2>2, SpawnFacts
    <2>4. \A p \in Ports : p \in Res /\ job'.gor[p] = (IF p \in DOMAIN job.spec THEN "delete" ELSE "none")
      BY <2>3 DEF Res
    <2>5. TypeOK'
      BY <1>1, <2>2, <2>3, QuietType DEF Pcs, Making, TypeOK
    <2>6. FillInv'
      BY <1>1, <2>2, SameFill
    <2>7. Wanted(job)' = Wanted(job) /\ Listed' = Listed
      BY <2>2, <2>3 DEF Wanted, Listed
    <2>8. WantInv' /\ DoomInv' /\ PhaseInv' /\ LbInv'
      BY <1>1, <2>2, <2>3, <2>7 DEF AlbInv, WantInv, DoomInv, PhaseInv, LbInv, Making, Plain
    <2>9. \A p \in Ports : IF p \in DOMAIN job.spec THEN lis[p] # NoLis ELSE lis[p] = NoLis
      BY <1>1, <1>3 DEF AlbInv, OpenInv, Settled, Res
    <2>10. RulesInv'
      BY <2>2, <2>3, <2>4, <2>9 DEF RulesInv
    <2> QED
      BY <2>2, <2>5, <2>6, <2>8, <2>10 DEF AlbInv, CreateInv, OpenInv, PostInv
  <1> QED
    BY <1>2, <1>3 DEF ListenersDone

-----------------------------------------------------------------------------
(* The rules.                                                              *)

\* A call for the rules of one listener makes them so that the next one can start.
LEMMA RulesStep ==
    ASSUME AlbInv, NEW p \in Ports, NEW step, step # "none",
           NEW after \in {"create", "update", "none"}, NEW rules \in Rules,
           RuleCall(p, step, after, rules),
           \A i \in Prios : rules[i] \in Groups => rules[i] \in Targets \cup Wanted(job),
           after = "create" => \A i \in Prios : Asked(p)[i] = NoRule => rules[i] = NoRule,
           after = "update" => \A i \in Prios : Asked(p)[i] = NoRule <=> rules[i] = NoRule,
           after = "none" => rules = Asked(p)
    PROVE  AlbInv'
  <1>1. /\ TypeOK /\ pc = "rules" /\ job \in Jobs /\ ~job.del /\ lb = "tagged" /\ p \in Res
        /\ job.gor[p] # "none" /\ p \in DOMAIN job.spec /\ lis[p] # NoLis
        /\ ac.mode # "plain"
    BY DEF AlbInv, TypeOK, LbInv, RulesInv, RuleCall, Res
  <1>2. PICK s \in {after, "none"} :
           \/ Goroutine(p, s) /\ s = after /\ lis' = [lis EXCEPT ![p] = rules]
           \/ Reports(p) /\ s = "none" /\ lis' = lis
    <2>1. \/ Goroutine(p, after) /\ lis' = [lis EXCEPT ![p] = rules]
          \/ Reports(p) /\ lis' = lis
      BY DEF RuleCall
    <2> QED
      BY <2>1
  <1>3. /\ Fault \/ NoFault
        /\ UNCHANGED <<ac, ing, news, svc, evts, edits, lb, sg, lost, swallowed>>
    BY DEF RuleCall, World
  <1>4. s \in GorStates
    BY <1>2 DEF GorStates
  <1>5. /\ pc' = "rules" /\ queued' = queued /\ job' \in Jobs /\ job'.spec = job.spec
        /\ job'.del = job.del /\ job'.doomed = job.doomed
        /\ job'.gor = [job.gor EXCEPT ![p] = s]
        /\ job.err => job'.err
        /\ Reports(p) => job'.err
    BY <1>1, <1>2, <1>4, StepFacts
  <1>6. \A q \in Ports : job'.gor[q] = (IF q = p THEN s ELSE job.gor[q])
    BY <1>1, <1>5 DEF Jobs, Res
  <1>7. rules # NoLis
    BY AlbAssumption DEF Rules
  <1>8. /\ lis' \in [Ports -> {NoLis} \cup Rules]
        /\ \A q \in Ports : q # p => lis'[q] = lis[q]
        /\ lis'[p] \in {lis[p], rules} /\ lis'[p] # NoLis
    BY <1>1, <1>2, <1>7 DEF TypeOK
  <1>9. Targets' \subseteq Targets \cup Wanted(job)
    <2> SUFFICES ASSUME NEW r \in Groups, NEW q \in Ports, lis'[q] # NoLis,
                        NEW i \in Prios, lis'[q][i] = r
                 PROVE  r \in Targets \cup Wanted(job)
      BY DEF Targets
    <2>1. CASE lis'[q] = lis[q]
      BY <2>1 DEF Targets
    <2>2. CASE q = p /\ lis'[q] = rules
      BY <2>2
    <2> QED
      BY <1>8, <2>1, <2>2
  <1>10. BareGroups' /\ BareLb'
    BY <1>1, <1>3, <1>5 DEF TypeOK, BareGroups, BareLb, Making
  <1>11. TypeOK'
    BY <1>1, <1>3, <1>5, <1>8, <1>10, TypeStep DEF TypeOK, Pcs, EventKinds
  <1>12. Wanted(job)' = Wanted(job) /\ Listed' = Listed
    BY <1>3, <1>5 DEF Wanted, Listed
  <1>13. FillInv'
    <2>1. \A r \in Wanted(job) : r \in Listed
      BY <1>1 DEF AlbInv, WantInv, Plain
    <2> QED
      BY <1>1, <1>3, <1>5, <1>9, <1>12, <2>1 DEF AlbInv, FillInv, Filled
  <1>14. WantInv' /\ DoomInv' /\ PhaseInv' /\ LbInv'
    BY <1>1, <1>3, <1>5, <1>12 DEF AlbInv, WantInv, DoomInv, PhaseInv, LbInv, Making, Plain
  <1>15. \A q : Asked(q)' = Asked(q)
    BY <1>5 DEF Asked
  <1>16. RulesInv'
    <2> DEFINE Good(q, g, l, e) ==
                 IF q \notin DOMAIN job.spec THEN l = NoLis /\ g = "none"
                 ELSE /\ l # NoLis
                      /\ g = "create" => \A i \in Prios : Asked(q)[i] = NoRule => l[i] = NoRule
                      /\ g = "update" => \A i \in Prios : Asked(q)[i] = NoRule <=> l[i] = NoRule
                      /\ g = "none" => e \/ l = Asked(q)
    <2>1. \A q \in Ports : Good(q, job.gor[q], lis[q], job.err)
      BY <1>1 DEF AlbInv, RulesInv
    <2>2. \A q \in Ports : q # p => Good(q, job'.gor[q], lis'[q], job'.err)
      BY <1>5, <1>6, <1>8, <2>1
    <2>3. Good(p, job'.gor[p], lis'[p], job'.err)
      <3>1. CASE Reports(p) /\ s = "none"
        BY <1>1, <1>5, <1>6, <1>8, <3>1
      <3>2. CASE s = after /\ lis' = [lis EXCEPT ![p] = rules]
        <4>1. lis'[p] = rules
          BY <1>1, <3>2 DEF TypeOK
        <4> QED
          BY <1>1, <1>6, <1>7, <3>2, <4>1
      <3> QED
        BY <1>2, <3>1, <3>2
    <2>4. \A q \in Ports : Good(q, job'.gor[q], lis'[q], job'.err)
      BY <2>2, <2>3
    <2> QED
      BY <1>5, <1>15, <2>4 DEF RulesInv
  <1> QED
    BY <1>5, <1>11, <1>13, <1>14, <1>16 DEF AlbInv, CreateInv, OpenInv, PostInv

\* What the rules of a listener forward to before and after a call.
LEMMA RulesFacts ==
    ASSUME AlbInv, pc = "rules", NEW p \in Ports, job.gor[p] # "none"
    PROVE  /\ p \in DOMAIN job.spec /\ ~job.del /\ lis[p] \in Rules /\ Asked(p) \in Rules
           /\ \A i \in Prios : Asked(p)[i] = RuleAt(job.spec, p, i)
           /\ \A i \in Prios : Asked(p)[i] \in Groups => Asked(p)[i] \in Wanted(job)
           /\ \A i \in Prios : lis[p][i] \in Groups => lis[p][i] \in Targets
  <1>1. p \in DOMAIN job.spec /\ ~job.del /\ lis[p] # NoLis /\ job \in Jobs
    BY DEF AlbInv, TypeOK, LbInv, RulesInv
  <1>2. lis[p] \in Rules
    BY <1>1 DEF AlbInv, TypeOK
  <1> QED
    BY <1>1, <1>2, AskedFacts DEF Targets

LEMMA DeleteRulesAlb ==
    ASSUME AlbInv, NEW p \in Ports, DeleteRules(p)
    PROVE  AlbInv'
  <1> DEFINE rules == [i \in Prios |-> IF RuleAt(job.spec, p, i) = NoRule THEN NoRule ELSE lis[p][i]]
  <1>1. pc = "rules" /\ job.gor[p] = "delete" /\ RuleCall(p, "delete", "create", rules)
    BY DEF DeleteRules, RuleCall
  <1>2. /\ lis[p] \in Rules
        /\ \A i \in Prios : Asked(p)[i] = RuleAt(job.spec, p, i)
        /\ \A i \in Prios : lis[p][i] \in Groups => lis[p][i] \in Targets
    BY <1>1, RulesFacts
  <1>3. /\ rules \in Rules
        /\ \A i \in Prios : rules[i] \in Groups => rules[i] \in Targets \cup Wanted(job)
        /\ \A i \in Prios : Asked(p)[i] = NoRule => rules[i] = NoRule
    BY <1>2, AlbAssumption DEF Rules
  <1> HIDE DEF rules
  <1> QED
    BY <1>1, <1>3, RulesStep

LEMMA CreateRulesAlb ==
    ASSUME AlbInv, NEW p \in Ports, CreateRules(p)
    PROVE  AlbInv'
  <1> DEFINE rules == [i \in Prios |-> IF lis[p][i] = NoRule THEN RuleAt(job.spec, p, i) ELSE lis[p][i]]
  <1>1. pc = "rules" /\ job.gor[p] = "create" /\ RuleCall(p, "create", "update", rules)
    BY DEF CreateRules, RuleCall
  <1>2. /\ lis[p] \in Rules /\ Asked(p) \in Rules /\ p \in DOMAIN job.spec
        /\ \A i \in Prios : Asked(p)[i] = RuleAt(job.spec, p, i)
        /\ \A i \in Prios : Asked(p)[i] \in Groups => Asked(p)[i] \in Wanted(job)
        /\ \A i \in Prios : lis[p][i] \in Groups => lis[p][i] \in Targets
    BY <1>1, RulesFacts
  <1>3. \A i \in Prios : Asked(p)[i] = NoRule => lis[p][i] = NoRule
    BY <1>1, <1>2 DEF AlbInv, RulesInv
  <1>4. /\ rules \in Rules
        /\ \A i \in Prios : rules[i] \in Groups => rules[i] \in Targets \cup Wanted(job)
        /\ \A i \in Prios : Asked(p)[i] = NoRule <=> rules[i] = NoRule
    BY <1>2, <1>3 DEF Rules
  <1> HIDE DEF rules
  <1> QED
    BY <1>1, <1>4, RulesStep

LEMMA UpdateRulesAlb ==
    ASSUME AlbInv, NEW p \in Ports, UpdateRules(p)
    PROVE  AlbInv'
  <1> DEFINE rules == [i \in Prios |-> IF lis[p][i] # NoRule /\ RuleAt(job.spec, p, i) # NoRule
                                       THEN RuleAt(job.spec, p, i) ELSE lis[p][i]]
  <1>1. pc = "rules" /\ job.gor[p] = "update" /\ RuleCall(p, "update", "none", rules)
    BY DEF UpdateRules, RuleCall
  <1>2. /\ lis[p] \in Rules /\ Asked(p) \in Rules /\ p \in DOMAIN job.spec
        /\ \A i \in Prios : Asked(p)[i] = RuleAt(job.spec, p, i)
        /\ \A i \in Prios : Asked(p)[i] \in Groups => Asked(p)[i] \in Wanted(job)
    BY <1>1, RulesFacts
  <1>3. \A i \in Prios : Asked(p)[i] = NoRule <=> lis[p][i] = NoRule
    BY <1>1, <1>2 DEF AlbInv, RulesInv
  <1>4. \A i \in Prios : rules[i] = Asked(p)[i]
    BY <1>2, <1>3
  <1>5. rules = Asked(p)
    BY <1>4 DEF Asked
  <1> HIDE DEF rules
  <1> QED
    BY <1>1, <1>2, <1>5, RulesStep

LEMMA RulesDoneAlb ==
    ASSUME AlbInv, RulesDone
    PROVE  AlbInv'
  <1>1. /\ TypeOK /\ pc = "rules" /\ job \in Jobs /\ NoFault /\ UNCHANGED <<World, Cloud>>
        /\ lb = "tagged" /\ ~job.del /\ \A r \in Res : job.gor[r] = "none"
    BY DEF AlbInv, TypeOK, LbInv, RulesDone, Settled
  <1>2. CASE job.err
    BY <1>1, <1>2, ReturnAlb DEF RulesDone, Making
  <1>3. CASE ~job.err
    <2>1. /\ pc' = "post" /\ queued' = queued /\ job' = job
          /\ UNCHANGED <<ac, ing, news, svc, evts, edits, lb, sg, lis, lost, swallowed>>
      BY <1>1, <1>3 DEF RulesDone, Goto, World, Cloud
    <2>2. TypeOK'
      BY <1>1, <2>1, QuietType DEF Pcs, Making, TypeOK
    <2>3. FillInv'
      BY <1>1, <2>1, SameFill
    <2>4. Wanted(job)' = Wanted(job)
      BY <2>1 DEF Wanted
    <2>5. DoomInv' /\ WantInv' /\ PhaseInv' /\ LbInv'
      BY <1>1, <2>1, <2>4 DEF AlbInv, DoomInv, WantInv, PhaseInv, LbInv, Making, Plain
    <2>6. \A p \in Ports : lis[p] = IF p \in DOMAIN job.spec THEN Asked(p) ELSE NoLis
      BY <1>1, <1>3 DEF AlbInv, RulesInv, Res
    <2>7. \A p : Asked(p)' = Asked(p)
      BY <2>1 DEF Asked
    <2>8. PostInv'
      BY <2>1, <2>6, <2>7 DEF PostInv
    <2> QED
      BY <2>1, <2>2, <2>3, <2>5, <2>8 DEF AlbInv, CreateInv, OpenInv, RulesInv
  <1> QED
    BY <1>2, <1>3

-----------------------------------------------------------------------------
(* The deletions that were put off, and the end.                           *)

LEMMA PostGroupAlb ==
    ASSUME AlbInv, NEW r \in Res, PostGroup(r)
    PROVE  AlbInv'
  <1>1. /\ TypeOK /\ pc = "post" /\ job \in Jobs /\ r \in job.doomed
        /\ UNCHANGED <<ac, ing, news, svc, evts, edits>>
    BY DEF AlbInv, TypeOK, PostGroup, World
  <1>2. /\ pc' = "post" /\ queued' = queued /\ (Fault \/ NoFault)
        /\ UNCHANGED <<lb, lis, lost>>
        /\ job' = [job EXCEPT !.doomed = @ \ {r}] \/ job' = [job EXCEPT !.doomed = @ \ {r}, !.err = TRUE]
        /\ \/ ~InUse(r) /\ sg' = [sg EXCEPT ![r] = "none"] /\ swallowed' = swallowed \ {r}
           \/ sg' = sg /\ swallowed' = swallowed /\ job' = [job EXCEPT !.doomed = @ \ {r}, !.err = TRUE]
    BY DEF PostGroup, Goto, Cloud
  <1>3. /\ job' \in Jobs /\ job'.spec = job.spec /\ job'.del = job.del
        /\ job'.doomed = job.doomed \ {r}
        /\ job.err => job'.err
        /\ sg' = sg /\ swallowed' = swallowed => job'.err \/ (~InUse(r) /\ sg' = [sg EXCEPT ![r] = "none"])
    BY <1>1, <1>2 DEF Jobs
  <1>4. /\ sg' \in [Res -> {"none", "bare", "empty", "full"}]
        /\ \A q \in Res : q # r => sg'[q] = sg[q]
        /\ swallowed' \subseteq Groups /\ swallowed \ {r} \subseteq swallowed'
        /\ \/ ~InUse(r) /\ sg'[r] = "none"
           \/ job'.err /\ sg' = sg /\ swallowed' = swallowed
    BY <1>1, <1>2, <1>3 DEF TypeOK
  <1>5. Wanted(job)' = Wanted(job) /\ Targets' = Targets /\ \A p : Asked(p)' = Asked(p)
    BY <1>2, <1>3 DEF Wanted, Targets, Asked
  <1>6. BareGroups' /\ BareLb'
    BY <1>1, <1>2, <1>3, <1>4 DEF TypeOK, BareGroups, BareLb, Making
  <1>7. TypeOK'
    BY <1>1, <1>2, <1>3, <1>4, <1>6, TypeStep DEF TypeOK, Pcs, EventKinds
  <1>8. FillInv'
    <2>1. CASE ~InUse(r) /\ sg'[r] = "none"
      <3>1. r \notin Targets
        BY <2>1 DEF Targets, InUse
      <3>2. \A q \in Targets : q \in Listed'
        BY <1>4, <3>1 DEF AlbInv, FillInv, Listed, Targets, Res
      <3>3. r \notin Listed'
        BY <2>1 DEF Listed
      <3>4. \A q \in Groups : q # r /\ q \in Listed' => q \in Listed /\ (Filled(q) => Filled(q)')
        BY <1>1, <1>4 DEF Listed, Filled, Res
      <3> QED
        BY <1>1, <1>2, <1>5, <3>2, <3>3, <3>4 DEF AlbInv, FillInv
    <2>2. CASE sg' = sg /\ swallowed' = swallowed
      BY <1>1, <1>2, <2>2, SameFill
    <2> QED
      BY <1>4, <2>1, <2>2
  <1>9. WantInv'
    BY <1>1, <1>2, <1>3, <1>5 DEF AlbInv, WantInv
  <1>10. DoomInv'
    <2>1. \A q \in Listed' : q \in Listed
      BY <1>4 DEF Listed
    <2>2. ~job'.err => r \notin Listed'
      BY <1>4 DEF Listed
    <2> QED
      BY <1>1, <1>2, <1>3, <2>1, <2>2 DEF AlbInv, DoomInv
  <1>11. PhaseInv' /\ LbInv' /\ PostInv'
    BY <1>1, <1>2, <1>3, <1>5 DEF AlbInv, PhaseInv, LbInv, PostInv, Making, Plain
  <1> QED
    BY <1>2, <1>7, <1>8, <1>9, <1>10, <1>11 DEF AlbInv, CreateInv, OpenInv, RulesInv

LEMMA PostDoneAlb ==
    ASSUME AlbInv, PostDone
    PROVE  AlbInv'
  <1>1. /\ TypeOK /\ pc = "post" /\ job.doomed = {} /\ NoFault /\ UNCHANGED <<World, Cloud>>
    BY DEF AlbInv, PostDone
  <1>2. CASE job.err
    BY <1>1, <1>2, ReturnAlb DEF PostDone, Making
  <1>3. CASE ~job.err
    <2>1. /\ pc' = "status" /\ queued' = queued /\ job' = job
          /\ UNCHANGED <<ac, ing, news, svc, evts, edits, lb, sg, lis, lost, swallowed>>
      BY <1>1, <1>3 DEF PostDone, Goto, World, Cloud
    <2>2. TypeOK'
      BY <1>1, <2>1, QuietType DEF Pcs, Making, TypeOK
    <2>3. FillInv'
      BY <1>1, <2>1, SameFill
    <2>4. Wanted(job)' = Wanted(job) /\ Listed' = Listed
      BY <2>1 DEF Wanted, Listed
    <2>5. DoomInv' /\ WantInv' /\ PhaseInv' /\ LbInv'
      BY <1>1, <1>3, <2>1, <2>4 DEF AlbInv, DoomInv, WantInv, PhaseInv, LbInv, Making, Plain
    <2> QED
      BY <2>1, <2>2, <2>3, <2>5 DEF AlbInv, CreateInv, OpenInv, RulesInv, PostInv
  <1> QED
    BY <1>2, <1>3

\* The finalizer goes, or the status is written.
LEMMA EndAlb ==
    ASSUME AlbInv, RemoveFinalizer \/ UpdateStatus
    PROVE  AlbInv'
  <1>1. /\ TypeOK /\ pc = "status" /\ UNCHANGED <<ing, news, svc, evts, edits, Cloud>> /\ ac \in AlbConfigs
        /\ UNCHANGED <<lb, sg, lis, lost, swallowed>>
        /\ Fault \/ NoFault
    BY DEF AlbInv, TypeOK, RemoveFinalizer, UpdateStatus, Cloud
  <1>2. /\ Return(TRUE) \/ Return(FALSE)
        /\ \/ UNCHANGED ac
           \/ job.del /\ ac' = [ac EXCEPT !.fin = FALSE, !.phase = "gone"]
           \/ ac' = [ac EXCEPT !.host = TRUE]
    <2>1. CASE RemoveFinalizer
      BY <2>1 DEF RemoveFinalizer
    <2>2. CASE UpdateStatus
      BY <2>2 DEF UpdateStatus
    <2> QED
      BY <2>1, <2>2
  <1>3. PICK err \in BOOLEAN : Return(err)
    BY <1>2
  <1>4. /\ ac' \in AlbConfigs /\ ac'.mode = ac.mode
        /\ ac'.phase = "deleting" => ac'.fin
        /\ ac'.phase = "gone" => ~ac'.fin
    BY <1>1, <1>2 DEF AlbConfigs, AlbInv, PhaseInv
  <1>5. pc' = "idle" /\ job' = Idle /\ queued' \in BOOLEAN /\ Idle \in Jobs
    BY <1>1, <1>3, ReturnFacts
  <1>6. BareGroups' /\ BareLb'
    BY <1>1, <1>4, <1>5 DEF TypeOK, BareGroups, BareLb, Making
  <1>7. TypeOK'
    BY <1>1, <1>4, <1>5, <1>6, TypeStep DEF TypeOK, Pcs, EventKinds
  <1>8. FillInv'
    BY <1>1, SameFill
  <1> QED
    BY <1>1, <1>4, <1>5, <1>7, <1>8, IdleAlb DEF AlbInv, LbInv

LEMMA NextAlb == AlbInv /\ [Next]_vars => AlbInv'
  <1> SUFFICES ASSUME AlbInv, [Next]_vars PROVE AlbInv'
    OBVIOUS
  <1>1. CASE Users
    BY <1>1, UsersAlb
  <1>2. CASE Begin \/ AddFinalizer \/ ListGroups \/ GroupsCreated \/ GroupsUpdated
    BY <1>2, BeginAlb, AddFinalizerAlb, ListGroupsAlb, GroupsCreatedAlb, GroupsUpdatedAlb
  <1>3. CASE \E r \in Res : \/ CreateGroup(r) \/ TagGroup(r) \/ AddServers(r) \/ UndoGroup(r)
                            \/ UpdateGroup(r) \/ PostGroup(r)
    BY <1>3, CreateGroupAlb, TagGroupAlb, AddServersAlb, UndoGroupAlb, UpdateGroupAlb, PostGroupAlb
  <1>4. CASE DeleteAlb \/ UpdateAlb \/ ReuseAlb \/ CreateAlb \/ WaitActive \/ TagAlb \/ UndoAlb
    BY <1>4, DeleteAlbAlb, FindAlbAlb, CreateAlbAlb, MakeAlbAlb
  <1>5. CASE ListListeners \/ ListenersDone \/ RulesDone
    BY <1>5, ListListenersAlb, ListenersDoneAlb, RulesDoneAlb
  <1>6. CASE \E p \in Ports : \/ CreateListener(p) \/ UpdateListener(p)
                              \/ DeleteRules(p) \/ CreateRules(p) \/ UpdateRules(p)
    BY <1>6, CreateListenerAlb, DeleteRulesAlb, CreateRulesAlb, UpdateRulesAlb
  <1>7. CASE PostDone \/ RemoveFinalizer \/ UpdateStatus \/ Panic \/ Crash
    BY <1>7, PostDoneAlb, EndAlb, RestartAlb
  <1>8. CASE SyncIngress \/ \E g \in Groups : SyncServers(g)
    BY <1>8, SyncAlb, SyncIngressAlb
  <1>9. CASE UNCHANGED vars
    <2>1. UNCHANGED <<ac, ing, news, queued, svc, evts, lb, sg, lis, lost, swallowed, faults, edits, pc, job>>
      BY <1>9 DEF vars
    <2> QED
      BY <2>1 DEF AlbInv, TypeOK, PhaseInv, LbInv, Making, Plain, CreateInv, WantInv, DoomInv, FillInv,
             Filled, Targets, Listed, Wanted, OpenInv, RulesInv, PostInv, Asked
  <1> QED
    BY <1>1, <1>2, <1>3, <1>4, <1>5, <1>6, <1>7, <1>8, <1>9 DEF Next, Step

-----------------------------------------------------------------------------
(* What the invariant says of the properties.                              *)

LEMMA AlbUnused == AlbInv => DoomedUnused
  <1> SUFFICES ASSUME AlbInv, pc = "post", NEW r \in job.doomed, InUse(r) PROVE FALSE
    BY DEF DoomedUnused
  <1>1. job \in Jobs /\ r \in Res /\ r \notin Wanted(job)
    BY DEF AlbInv, TypeOK, WantInv, Jobs
  <1>2. PICK p \in Ports : lis[p] # NoLis /\ (r = p \/ \E i \in Prios : lis[p][i] = r)
    BY DEF InUse
  <1>3. ~job.del
    BY <1>2 DEF AlbInv, LbInv, DoomInv
  <1>4. p \in DOMAIN job.spec /\ lis[p] = Asked(p)
    BY <1>2, <1>3 DEF AlbInv, PostInv
  <1>5. CASE r = p
    BY <1>1, <1>3, <1>4, <1>5, WantedFacts
  <1>6. CASE \E i \in Prios : lis[p][i] = r
    <2>1. PICK i \in Prios : RuleAt(job.spec, p, i) = r
      BY <1>4, <1>6 DEF Asked
    <2>2. r # NoRule
      BY <1>1, AlbAssumption DEF Res
    <2> QED
      BY <1>1, <1>3, <1>4, <2>1, <2>2, WantedFacts
  <1> QED
    BY <1>2, <1>5, <1>6

LEMMA AlbFilled == AlbInv => FilledBeforeUse
  <1> SUFFICES ASSUME AlbInv, NEW p \in Ports, NEW i \in Prios, lis[p] # NoLis, lis[p][i] \in svc
               PROVE  \/ sg[lis[p][i]] = "full" \/ lis[p][i] \in swallowed
                      \/ evts[lis[p][i]] # "none"
    BY DEF FilledBeforeUse
  <1> DEFINE r == lis[p][i]
  <1>1. r \in Groups /\ r \in Targets /\ r \in Res
    BY DEF AlbInv, TypeOK, Targets, Res
  <1> HIDE DEF r
  <1>2. r \in Listed /\ ~(pc = "create" /\ job.gor[r] # "none")
    BY <1>1 DEF AlbInv, FillInv, CreateInv
  <1>3. Filled(r)
    BY <1>1, <1>2 DEF AlbInv, FillInv
  <1> QED
    BY <1>3 DEF Filled, r

-----------------------------------------------------------------------------
(* The promise of OwnedResource.                                           *)

\* What is owned are the groups that can be found, and the instance.
LEMMA OwnedFacts ==
    /\ Owned \subseteq {<<"lb", 1>>} \cup ({"group"} \X Res)
    /\ Listed = {} /\ lb # "tagged" => Owned = {}
    /\ Owned # {} => lb = "tagged" \/ Listed # {}
  BY DEF Owned, Listed

\* Neither of them changes.
LEMMA QuietOwned ==
    ASSUME ac'.phase = ac.phase, ac'.fin = ac.fin, Listed' = Listed, lb' = "tagged" <=> lb = "tagged"
    PROVE  UNCHANGED Promise!ownedVars
  <1>1. Owned' = Owned
    BY DEF Owned
  <1> QED
    BY <1>1 DEF Promise!ownedVars

\* A group that gets its tag, and one that is deleted.
LEMMA GroupOwned ==
    ASSUME ac' = ac, ac.fin, lb' = lb, NEW r \in Res,
           \/ r \notin Listed /\ Listed' = Listed \cup {r}
           \/ r \in Listed /\ Listed' = Listed \ {r}
    PROVE  Promise!Make \/ Promise!Free
  <1> DEFINE x == <<"group", r>>
  <1>1. /\ x \in {<<"lb", 1>>} \cup ({"group"} \X Res)
        /\ x \in Owned <=> r \in Listed
    BY DEF Owned
  <1>2. CASE r \notin Listed /\ Listed' = Listed \cup {r}
    <2>1. Owned' = Owned \cup {x}
      BY <1>2 DEF Owned
    <2> QED
      BY <1>1, <1>2, <2>1 DEF Promise!Make
  <1>3. CASE r \in Listed /\ Listed' = Listed \ {r}
    <2>1. Owned' = Owned \ {x}
      BY <1>3 DEF Owned
    <2>2. {x} \in (SUBSET Owned) \ {{}}
      BY <1>1, <1>3
    <2> QED
      BY <2>1, <2>2 DEF Promise!Free
  <1> QED
    BY <1>2, <1>3

\* The same of the instance.
LEMMA LbOwned ==
    ASSUME ac' = ac, ac.fin, Listed' = Listed,
           \/ lb # "tagged" /\ lb' = "tagged"
           \/ lb = "tagged" /\ lb' # "tagged"
    PROVE  Promise!Make \/ Promise!Free
  <1> DEFINE x == <<"lb", 1>>
  <1>1. /\ x \in {<<"lb", 1>>} \cup ({"group"} \X Res)
        /\ x \in Owned <=> lb = "tagged"
        /\ x \in Owned' <=> lb' = "tagged"
        /\ \A y : y # x => (y \in Owned' <=> y \in Owned)
    BY DEF Owned
  <1>2. CASE lb # "tagged" /\ lb' = "tagged"
    <2>1. Owned' = Owned \cup {x}
      BY <1>1, <1>2
    <2> QED
      BY <1>1, <1>2, <2>1 DEF Promise!Make
  <1>3. CASE lb = "tagged" /\ lb' # "tagged"
    <2>1. Owned' = Owned \ {x}
      BY <1>1, <1>3
    <2>2. {x} \in (SUBSET Owned) \ {{}}
      BY <1>1, <1>3
    <2> QED
      BY <2>1, <2>2 DEF Promise!Free
  <1> QED
    BY <1>2, <1>3

LEMMA OwnedStart == Init => Promise!OwnedInit
  <1> SUFFICES ASSUME Init PROVE Promise!OwnedInit
    OBVIOUS
  <1>1. AlbInv
    BY InitAlb
  <1>2. ac.phase = "live" /\ ac.fin \in BOOLEAN /\ (lb = "tagged" => ac.fin)
    BY AlbAssumption DEF Init
  <1>3. Listed # {} => ac.fin
    <2> SUFFICES ASSUME NEW r \in Listed PROVE ac.fin
      OBVIOUS
    <2> QED
      BY DEF Init, Listed
  <1> QED
    BY <1>2, <1>3, OwnedFacts DEF Promise!OwnedInit

\* The users only delete, as far as the promise goes.
LEMMA UsersOwned ==
    ASSUME AlbInv, Users
    PROVE  UNCHANGED Promise!ownedVars \/ Promise!Delete
  <1>1. UNCHANGED <<lb, sg>> /\ Listed' = Listed /\ ac \in AlbConfigs
    BY DEF Users, Edit, DeleteAlbConfig, ToggleService, Listed, AlbInv, TypeOK
  <1>2. Owned' = Owned
    BY <1>1 DEF Owned
  <1>3. CASE Edit \/ \E g \in Groups : ToggleService(g)
    <2>1. ac'.phase = ac.phase /\ ac'.fin = ac.fin
      BY <1>1, <1>3 DEF Edit, ToggleService, AlbConfigs
    <2> QED
      BY <1>1, <2>1, QuietOwned
  <1>4. CASE DeleteAlbConfig
    BY <1>1, <1>2, <1>4 DEF DeleteAlbConfig, AlbConfigs, Promise!Delete
  <1> QED
    BY <1>3, <1>4 DEF Users

\* The steps of the server groups.
LEMMA GroupsOwned ==
    ASSUME AlbInv, NEW r \in Res,
           \/ CreateGroup(r) \/ TagGroup(r) \/ AddServers(r) \/ UndoGroup(r)
           \/ UpdateGroup(r) \/ PostGroup(r)
    PROVE  UNCHANGED Promise!ownedVars \/ Promise!Make \/ Promise!Free
  <1>1. /\ pc \in {"create", "update", "post"} /\ ac' = ac /\ ac.fin
        /\ sg \in [Res -> {"none", "bare", "empty", "full"}]
    BY DEF AlbInv, TypeOK, PhaseInv, World, CreateGroup, TagGroup, AddServers, UndoGroup,
           UpdateGroup, PostGroup
  <1>2. lb' = lb
    BY DEF Cloud, CreateGroup, TagGroup, AddServers, UndoGroup, UpdateGroup, PostGroup
  <1>3. \E s \in {"none", "bare", "empty", "full"} : sg' = [sg EXCEPT ![r] = s]
    <2>1. UNCHANGED sg \/ \E s \in {"none", "bare", "empty", "full"} : sg' = [sg EXCEPT ![r] = s]
      BY <1>1 DEF Cloud, CreateGroup, TagGroup, AddServers, UndoGroup, UpdateGroup, PostGroup
    <2>2. UNCHANGED sg => sg' = [sg EXCEPT ![r] = sg[r]] /\ sg[r] \in {"none", "bare", "empty", "full"}
      BY <1>1
    <2> QED
      BY <2>1, <2>2
  <1>4. PICK s \in {"none", "bare", "empty", "full"} : sg' = [sg EXCEPT ![r] = s]
    BY <1>3
  <1>5. \/ Listed' = Listed
        \/ r \notin Listed /\ Listed' = Listed \cup {r}
        \/ r \in Listed /\ Listed' = Listed \ {r}
    <2>1. \A q \in Res : sg'[q] = (IF q = r THEN s ELSE sg[q])
      BY <1>1, <1>4
    <2>2. \A q : q \in Listed' <=> (IF q = r THEN s \in {"empty", "full"} ELSE q \in Listed)
      BY <2>1 DEF Listed
    <2> QED
      BY <2>2
  <1> QED
    BY <1>1, <1>2, <1>5, QuietOwned, GroupOwned

\* Those of the instance.
LEMMA InstanceOwned ==
    ASSUME AlbInv,
           DeleteAlb \/ UpdateAlb \/ ReuseAlb \/ CreateAlb \/ WaitActive \/ TagAlb \/ UndoAlb
    PROVE  UNCHANGED Promise!ownedVars \/ Promise!Make \/ Promise!Free
  <1>1. pc \in {"lb", "wait", "tag", "untag"} /\ ac' = ac
    BY DEF World, DeleteAlb, UpdateAlb, ReuseAlb, CreateAlb, WaitActive, TagAlb, UndoAlb
  <1>2. ac.fin
    BY <1>1 DEF AlbInv, PhaseInv
  <1>3. sg' = sg
    BY DEF Cloud, Fails, Forget, DeleteAlb, UpdateAlb, ReuseAlb, CreateAlb, WaitActive, TagAlb, UndoAlb
  <1>4. Listed' = Listed
    BY <1>3 DEF Listed
  <1> QED
    BY <1>1, <1>2, <1>4, QuietOwned, LbOwned

\* All others, except those on the finalizer, change nothing that is owned.
LEMMA OtherOwned ==
    ASSUME AlbInv,
           \/ Begin \/ ListGroups \/ GroupsCreated \/ GroupsUpdated
           \/ ListListeners \/ ListenersDone \/ RulesDone \/ PostDone
           \/ \E p \in Ports : \/ CreateListener(p) \/ UpdateListener(p)
                               \/ DeleteRules(p) \/ CreateRules(p) \/ UpdateRules(p)
    PROVE  UNCHANGED Promise!ownedVars
  <1>1. ac' = ac /\ lb' = lb /\ sg' = sg
    BY DEF World, Cloud, Fails, Begin, ListGroups, GroupsCreated, GroupsUpdated, ListListeners,
           ListenersDone, RulesDone, PostDone, CreateListener, UpdateListener, RuleCall,
           DeleteRules, CreateRules, UpdateRules
  <1>2. Listed' = Listed
    BY <1>1 DEF Listed
  <1> QED
    BY <1>1, <1>2, QuietOwned

\* A restart finds what it had tagged.
LEMMA RestartOwned ==
    ASSUME AlbInv, Crash \/ Panic
    PROVE  UNCHANGED Promise!ownedVars
  <1>1. /\ lb' = (IF Making THEN "none" ELSE lb)
        /\ sg' = [r \in Res |-> IF sg[r] = "bare" THEN "none" ELSE sg[r]]
        /\ ac' = ac
    BY DEF Crash, Panic, Restart
  <1>2. Listed' = Listed
    BY <1>1 DEF Listed
  <1>3. lb' = "tagged" <=> lb = "tagged"
    BY <1>1 DEF AlbInv, LbInv
  <1> QED
    BY <1>1, <1>2, <1>3, QuietOwned

\* The finalizer: held before anything is made, let go when nothing is left.
LEMMA FinalizerOwned ==
    ASSUME AlbInv, AddFinalizer \/ RemoveFinalizer \/ UpdateStatus
    PROVE  UNCHANGED Promise!ownedVars \/ Promise!Hold \/ Promise!LetGo
  <1>1. /\ ac \in AlbConfigs /\ UNCHANGED <<lb, sg>>
    BY DEF AlbInv, TypeOK, Cloud, Fails, AddFinalizer, RemoveFinalizer, UpdateStatus
  <1>2. Listed' = Listed /\ Owned' = Owned
    BY <1>1 DEF Listed, Owned
  <1>3. CASE UNCHANGED ac
    BY <1>1, <1>2, <1>3, QuietOwned
  <1>4. CASE AddFinalizer /\ ac.phase # "gone" /\ ac' = [ac EXCEPT !.fin = TRUE]
    <2>1. ac'.fin = TRUE /\ ac'.phase = ac.phase
      BY <1>1, <1>4 DEF AlbConfigs
    <2>2. CASE ac.phase = "live"
      BY <1>2, <2>1, <2>2 DEF Promise!Hold
    <2>3. CASE ac.phase = "deleting"
      <3>1. ac.fin = TRUE
        BY <1>1, <2>3 DEF AlbInv, PhaseInv, AlbConfigs
      <3> QED
        BY <1>1, <1>2, <2>1, <3>1, QuietOwned
    <2> QED
      BY <1>1, <1>4, <2>2, <2>3 DEF AlbConfigs
  <1>5. CASE /\ RemoveFinalizer
             /\ ac' = [ac EXCEPT !.fin = FALSE, !.phase = "gone"]
    <2>1. ac.phase = "deleting" /\ ac.fin /\ Owned = {}
      BY <1>5, OwnedFacts DEF RemoveFinalizer, AlbInv, PhaseInv, DoomInv
    <2>2. ac'.fin = FALSE /\ ac'.phase = "gone"
      BY <1>1, <1>5 DEF AlbConfigs
    <2> QED
      BY <1>2, <2>1, <2>2 DEF Promise!LetGo
  <1>6. CASE UpdateStatus /\ ac' = [ac EXCEPT !.host = TRUE]
    <2>1. ac'.fin = ac.fin /\ ac'.phase = ac.phase
      BY <1>1, <1>6 DEF AlbConfigs
    <2> QED
      BY <1>1, <1>2, <2>1, QuietOwned
  <1>7. CASE AddFinalizer
    BY <1>3, <1>4, <1>7 DEF AddFinalizer
  <1>8. CASE RemoveFinalizer
    BY <1>3, <1>5, <1>8 DEF RemoveFinalizer
  <1>9. CASE UpdateStatus
    BY <1>3, <1>6, <1>9 DEF UpdateStatus
  <1> QED
    BY <1>7, <1>8, <1>9

\* Every step is one that OwnedResource allows, or none.
LEMMA OwnedStep == AlbInv /\ [Next]_vars => [Promise!OwnedNext]_(Promise!ownedVars)
  <1> SUFFICES ASSUME AlbInv, [Next]_vars
               PROVE  UNCHANGED Promise!ownedVars \/ Promise!OwnedNext
    OBVIOUS
  <1>1. CASE Users
    BY <1>1, UsersOwned DEF Promise!OwnedNext
  <1>2. CASE AddFinalizer \/ RemoveFinalizer \/ UpdateStatus
    BY <1>2, FinalizerOwned DEF Promise!OwnedNext
  <1>3. CASE \E r \in Res : \/ CreateGroup(r) \/ TagGroup(r) \/ AddServers(r) \/ UndoGroup(r)
                            \/ UpdateGroup(r) \/ PostGroup(r)
    BY <1>3, GroupsOwned DEF Promise!OwnedNext
  <1>4. CASE DeleteAlb \/ UpdateAlb \/ ReuseAlb \/ CreateAlb \/ WaitActive \/ TagAlb \/ UndoAlb
    BY <1>4, InstanceOwned DEF Promise!OwnedNext
  <1>5. CASE \/ Begin \/ ListGroups \/ GroupsCreated \/ GroupsUpdated
             \/ ListListeners \/ ListenersDone \/ RulesDone \/ PostDone
             \/ \E p \in Ports : \/ CreateListener(p) \/ UpdateListener(p)
                                 \/ DeleteRules(p) \/ CreateRules(p) \/ UpdateRules(p)
    BY <1>5, OtherOwned
  <1>6. CASE Panic \/ Crash
    BY <1>6, RestartOwned
  <1>7. CASE \E g \in Groups : SyncServers(g)
    <2>1. PICK g \in Groups : SyncServers(g)
      BY <1>7
    <2>2. Listed' = Listed
      BY <2>1, SyncType DEF AlbInv
    <2> QED
      BY <2>1, <2>2, QuietOwned DEF SyncServers
  <1>9. CASE SyncIngress
    <2>1. UNCHANGED <<lb, sg>> /\ ac'.phase = ac.phase /\ ac'.fin = ac.fin
      BY <1>9, SyncIngressType DEF AlbInv
    <2>2. Listed' = Listed
      BY <2>1 DEF Listed
    <2> QED
      BY <2>1, <2>2, QuietOwned
  <1>8. CASE UNCHANGED vars
    <2>1. UNCHANGED <<ac, lb, sg>>
      BY <1>8 DEF vars
    <2>2. Listed' = Listed
      BY <2>1 DEF Listed
    <2> QED
      BY <2>1, <2>2, QuietOwned
  <1> QED
    BY <1>1, <1>2, <1>3, <1>4, <1>5, <1>6, <1>7, <1>8, <1>9 DEF Next, Step

-----------------------------------------------------------------------------
LEMMA AlwaysAlb == Spec => []AlbInv
  <1> QED
    BY InitAlb, NextAlb, PTL DEF Spec

\* Types: an untagged group or instance is in the hands of the step that made it, or is
\* the user's; nothing is lost without a failing call (AlbApply).
THEOREM AlbTypes == Spec => []TypeOK
  <1>1. AlbInv => TypeOK
    BY DEF AlbInv
  <1> QED
    BY <1>1, AlwaysAlb, PTL

\* The server groups that PostApply deletes are used by no listener and no rule, even
\* though users edit the AlbConfig and others fill groups since they were listed
\* (serverGroupApplier.PostApply).
THEOREM AlbDoomedUnused == Spec => []DoomedUnused
  BY AlwaysAlb, AlbUnused, PTL

\* A rule forwards to a group with servers, if there is a service, unless a worker is
\* about to add them or the code has dropped an error (serverGroupApplier.Apply).
THEOREM AlbFilledBeforeUse == Spec => []FilledBeforeUse
  BY AlwaysAlb, AlbFilled, PTL

\* The controller implements OwnedResource: nothing carries the tags of an AlbConfig
\* without its finalizer, which goes only when nothing is left (albconfigReconciler).
THEOREM AlbKeepsPromise == Spec => KeepsPromise
  <1> QED
    BY AlwaysAlb, OwnedStart, OwnedStep, PTL DEF Spec, KeepsPromise, Promise!OwnedSpec

-----------------------------------------------------------------------------
(* The servers of one group.                                                *)

PCs == {"idle", "build", "list", "replace", "deregister", "register", "wait", "gate"}

WorkRecord == [pc : PCs, want : SUBSET Pods, may : BOOLEAN, add : SUBSET Pods,
               del : SUBSET Pods, call : SUBSET Pods, unclean : BOOLEAN]

ServerStates == {"none", "adding", "available", "removing"}

\* What a process that has listed the servers, and was alone since, may rely on: a
\* server it wants is not on its way out, and is there unless it is still to be added.
Undisturbed(w, g) ==
    /\ w.add \subseteq w.want /\ w.del \cap w.want = {}
    /\ w.pc \in {"replace", "deregister", "register", "wait", "gate"} /\ ~w.unclean
         => \A p \in w.want : /\ g[p] # "removing"
                              /\ p \in w.add \/ g[p] \in {"adding", "available"}
    /\ w.pc = "gate" => w.add = {}

\* Of two processes at work on the group each knows that it is not alone.
Alone == \A k, j \in Procs : k # j /\ Busy(k) /\ Busy(j) => work[k].unclean

WorkInv == /\ work \in [Procs -> WorkRecord]
           /\ Alone
           /\ \A k \in Procs : Undisturbed(work[k], group)

\* At any time a name is that of one pod.
Single(state) ==
    \A p, q \in Pods : p # q /\ name[p] = name[q] => state[p] = "absent" \/ state[q] = "absent"

ServersInv == ServersTypeOK /\ Single(pod) /\ WorkInv


\* The shape of the state: the invariant is that of the processes and what TypeOK says
\* of the rest.
LEMMA ServersUnmoved ==
    ASSUME WorkInv, UNCHANGED <<work, group>>
    PROVE  WorkInv'
BY DEF WorkInv, Alone, Busy

LEMMA IdleProcess ==
    /\ Resting \in WorkRecord /\ Resting.pc = "idle" /\ Resting.del = {}
    /\ \A g : Undisturbed(Resting, g)
BY DEF Resting, WorkRecord, PCs, Undisturbed

\* A step of process k that leaves it with r, and changes the group only while k is at
\* work on it.
LEMMA OneProcess ==
    ASSUME WorkInv, NEW k \in Procs, NEW r \in WorkRecord,
           work' = [work EXCEPT ![k] = r],
           r.pc \in {"idle", "build"} \/ (Busy(k) /\ (work[k].unclean => r.unclean)),
           group' = group \/ Busy(k),
           Undisturbed(r, group')
    PROVE  WorkInv'
<1>1. /\ work \in [Procs -> WorkRecord] /\ work' \in [Procs -> WorkRecord]
      /\ work'[k] = r /\ \A j \in Procs \ {k} : work'[j] = work[j]
  BY DEF WorkInv
<1>2. Alone'
  <2> SUFFICES ASSUME NEW i \in Procs, NEW j \in Procs, i # j,
                      work'[i].pc \notin {"idle", "build"}, work'[j].pc \notin {"idle", "build"}
               PROVE  work'[i].unclean
    BY DEF Alone, Busy
  <2>1. Busy(i) /\ Busy(j)
    BY <1>1 DEF Busy
  <2>2. work[i].unclean
    BY <2>1 DEF WorkInv, Alone
  <2> QED BY <1>1, <2>2
<1>3. ASSUME NEW j \in Procs PROVE Undisturbed(work'[j], group')
  <2>1. CASE j = k
    BY <1>1, <2>1
  <2>2. CASE j # k /\ group' = group
    BY <1>1, <2>2 DEF WorkInv
  <2>3. CASE j # k /\ Busy(k)
    <3>1. Busy(j) => work[j].unclean
      BY <2>3 DEF WorkInv, Alone
    <3>2. Undisturbed(work[j], group)
      BY DEF WorkInv
    <3> QED BY <1>1, <2>3, <3>1, <3>2 DEF Undisturbed, Busy
  <2> QED BY <2>1, <2>2, <2>3
<1> QED BY <1>1, <1>2, <1>3 DEF WorkInv

\* A step of process k that the others at work get to know of.
LEMMA OthersDisturbed ==
    ASSUME WorkInv, NEW k \in Procs, NEW r \in WorkRecord,
           work' = [Disturbed(k) EXCEPT ![k] = r],
           \/ r.pc \in {"idle", "build"}
           \/ (\E j \in Procs \ {k} : Busy(j)) => r.unclean,
           Undisturbed(r, group')
    PROVE  WorkInv'
<1>1. ASSUME NEW j \in Procs
      PROVE  [work[j] EXCEPT !.unclean = @ \/ Busy(j)] \in WorkRecord
  <2>1. work[j] \in WorkRecord /\ (work[j].unclean \/ Busy(j)) \in BOOLEAN
    BY DEF WorkInv, Busy
  <2> QED BY <2>1 DEF WorkRecord
<1>2. /\ work' \in [Procs -> WorkRecord] /\ work'[k] = r
      /\ \A j \in Procs \ {k} :
            work'[j] = [work[j] EXCEPT !.unclean = @ \/ Busy(j)]
  BY <1>1, IdleProcess DEF Disturbed
<1>3. ASSUME NEW j \in Procs, j # k
      PROVE  /\ work'[j].pc = work[j].pc /\ work'[j].add = work[j].add
             /\ work'[j].del = work[j].del /\ work'[j].want = work[j].want
             /\ work'[j].unclean = (work[j].unclean \/ Busy(j))
  BY <1>2, <1>3 DEF WorkInv, WorkRecord
<1>4. Alone'
  <2> SUFFICES ASSUME NEW i \in Procs, NEW j \in Procs, i # j,
                      work'[i].pc \notin {"idle", "build"}, work'[j].pc \notin {"idle", "build"}
               PROVE  work'[i].unclean
    BY DEF Alone, Busy
  <2>1. CASE i # k
    BY <1>3, <2>1 DEF Busy
  <2>2. CASE i = k
    BY <1>2, <1>3, <2>2 DEF Busy
  <2> QED BY <2>1, <2>2
<1>5. ASSUME NEW j \in Procs PROVE Undisturbed(work'[j], group')
  <2>1. CASE j = k
    BY <1>2, <2>1
  <2>2. CASE j # k
    <3>1. Undisturbed(work[j], group)
      BY DEF WorkInv
    <3> QED BY <1>3, <2>2, <3>1 DEF Undisturbed, Busy
  <2> QED BY <2>1, <2>2
<1> QED BY <1>2, <1>4, <1>5 DEF WorkInv

\* What TypeOK says of the rest of the state.
OthersTyped ==
    /\ pod \in [Pods -> {"absent", "starting", "waiting", "ready"}]
    /\ gate \subseteq Pods /\ ungated \subseteq Pods /\ excused \in BOOLEAN
    /\ group \in [Pods -> ServerStates]
    /\ store \in [Pods -> {"absent", "starting", "waiting"}] /\ unseen \in BOOLEAN
    /\ Single(store) /\ Single(pod)
    /\ used \in BOOLEAN /\ exists \in BOOLEAN /\ queue \subseteq Kinds
    /\ exists => used
    /\ ~exists => \A p \in Pods : group[p] = "none"

LEMMA ServersInvParts ==
    (ServersInv <=> OthersTyped /\ WorkInv) /\ (ServersInv' <=> OthersTyped' /\ WorkInv')
BY DEF ServersInv, ServersTypeOK, OthersTyped, WorkInv, Undisturbed, Present, ServerStates, Single

LEMMA RequeuedKinds ==
    ASSUME NEW k \in Procs, queue \subseteq Kinds
    PROVE  Requeue(k) \subseteq Kinds
BY DEF Requeue

LEMMA Failing ==
    ASSUME ServersInv, NEW k \in Procs, SyncFails(k),
           UNCHANGED <<pod, gate, store, unseen, name, used>>
    PROVE  ServersInv'
<1> USE ServersInvParts
<1>1. OthersTyped'
  <2>1. (excused \/ work[k].unclean) \in BOOLEAN
    OBVIOUS
  <2>2. queue' \subseteq Kinds
    BY RequeuedKinds DEF SyncFails, OthersTyped
  <2>3. CASE k = "creator"
    BY <2>1, <2>2, <2>3 DEF SyncFails, OthersTyped, Single, ServerStates
  <2>4. CASE k # "creator"
    BY <2>1, <2>2, <2>4 DEF SyncFails, OthersTyped, Single
  <2> QED BY <2>3, <2>4
<1>2. WorkInv'
  <2>1. CASE k = "creator"
    <3>1. work' = Disturbed(k)
      BY <2>1 DEF SyncFails
    <3>2. work' = [Disturbed(k) EXCEPT ![k] = Resting]
      BY <3>1 DEF Disturbed
    <3> QED BY <3>2, IdleProcess, OthersDisturbed
  <2>2. CASE k # "creator"
    BY <2>2, IdleProcess, OneProcess DEF SyncFails
  <2> QED BY <2>1, <2>2
<1> QED BY <1>1, <1>2

LEMMA Returning ==
    ASSUME ServersInv, NEW k \in Procs, NEW unclean \in BOOLEAN,
           Returns(k, unclean), gate' \subseteq Pods, ungated' \subseteq Pods,
           UNCHANGED <<pod, store, unseen, name, used>>
    PROVE  ServersInv'
<1> USE ServersInvParts
<1>1. OthersTyped'
  <2>1. queue' \subseteq Kinds
    BY RequeuedKinds DEF Returns, OthersTyped
  <2>2. excused' \in BOOLEAN
    <3>1. (excused \/ unclean \/ work[k].may) \in BOOLEAN
      OBVIOUS
    <3> QED BY <3>1 DEF Returns
  <2> QED BY <2>1, <2>2 DEF Returns, OthersTyped, Single
<1>2. WorkInv'
  BY IdleProcess, OneProcess DEF Returns
<1> QED BY <1>1, <1>2

LEMMA WorkRecordMade ==
    ASSUME NEW w \in WorkRecord
    PROVE  /\ \A c \in PCs : [w EXCEPT !.pc = c] \in WorkRecord
           /\ \A S \in SUBSET Pods : /\ [w EXCEPT !.add = S] \in WorkRecord
                                     /\ [w EXCEPT !.del = S] \in WorkRecord
                                     /\ [w EXCEPT !.call = S] \in WorkRecord
           /\ \A u \in BOOLEAN : [w EXCEPT !.unclean = u] \in WorkRecord
BY DEF WorkRecord

\* Pods, informers, ingresses: steps that leave the group and the processes alone.
LEMMA PodSteps ==
    ASSUME "endpoint" \in Kinds, ServersInv, NEW p \in Pods, Pod(p)
    PROVE  ServersInv' /\ gate' \subseteq gate
<1> USE ServersInvParts
<1>1. UNCHANGED <<work, group, store, name, used, exists, excused>> /\ gate' \subseteq gate
  BY DEF Pod, ContainersReady, PodReady, StartPod,
         PodFails, StopPod, Becomes, Move, NoFailure, bounds
<1>2. pod' \in [Pods -> {"absent", "starting", "waiting", "ready"}]
  BY DEF Pod, ContainersReady, PodReady, StartPod,
         PodFails, StopPod, Becomes, OthersTyped
<1>3. gate' \subseteq Pods /\ ungated' \subseteq Pods
  BY DEF Pod, ContainersReady, PodReady, StartPod,
         PodFails, StopPod, OthersTyped
<1>4. queue' \subseteq queue \cup {"endpoint"}
  BY DEF Pod, ContainersReady, PodReady, StartPod,
         PodFails, StopPod, Becomes
<1>5. WorkInv'
  BY <1>1, ServersUnmoved
<1>6. unseen' \in BOOLEAN
  <2>1. (unseen \/ (pod[p] = "waiting" /\ pod'[p] = "starting")) \in BOOLEAN
    OBVIOUS
  <2> QED BY <2>1 DEF Pod, ContainersReady, PodReady, StartPod,
         PodFails, StopPod, Becomes, OthersTyped
<1>7. Single(pod)'
  <2>1. CASE StartPod(p)
    <3>1. \A q \in Pods : name[q] = name[p] => pod[q] = "absent"
      BY <2>1 DEF StartPod
    <3>2. pod' = [pod EXCEPT ![p] = "starting"]
      BY <2>1 DEF StartPod, Becomes
    <3> QED BY <1>1, <3>1, <3>2 DEF Single, OthersTyped
  <2>2. CASE ~StartPod(p)
    <3>1. /\ pod[p] # "absent"
          /\ \E s \in {"absent", "starting", "waiting", "ready"} : pod' = [pod EXCEPT ![p] = s]
      BY <2>2 DEF Pod, ContainersReady, PodReady, PodFails, StopPod, Becomes
    <3> QED BY <1>1, <3>1 DEF Single, OthersTyped
  <2> QED BY <2>1, <2>2
<1>8. Single(store)'
  BY <1>1 DEF Single, OthersTyped
<1> QED BY <1>1, <1>2, <1>3, <1>4, <1>5, <1>6, <1>7, <1>8 DEF OthersTyped

LEMMA JobSteps ==
    ASSUME ServersInv, NEW p \in Pods, JobEnds(p)
    PROVE  ServersInv'
<1> USE ServersInvParts
<1>1. /\ group' = [group EXCEPT ![p] = IF @ = "adding" THEN "available" ELSE "none"]
      /\ group[p] \in {"adding", "removing"}
      /\ UNCHANGED <<pod, gate, store, unseen, name, used, exists, queue, work, ungated, excused>>
  BY DEF JobEnds, pods, view, hist, NoFailure, bounds
<1>2. OthersTyped'
  BY <1>1 DEF OthersTyped, Single, ServerStates
<1>3. ASSUME NEW k \in Procs PROVE Undisturbed(work'[k], group')
  <2>1. Undisturbed(work[k], group) /\ work'[k] = work[k]
    BY <1>1 DEF WorkInv
  <2>2. work[k].want \subseteq Pods
    BY DEF WorkInv, WorkRecord
  <2> QED BY <1>1, <2>1, <2>2 DEF Undisturbed, OthersTyped
<1>4. WorkInv'
  BY <1>1, <1>3 DEF WorkInv, Alone, Busy
<1> QED BY <1>2, <1>4

LEMMA TakeSteps ==
    ASSUME ServersInv, NEW k \in Kinds, Take(k) \/ OtherEvent(k)
    PROVE  ServersInv' /\ gate' = gate
<1> USE ServersInvParts
<1>1. /\ UNCHANGED <<pod, gate, store, unseen, name, used, exists, group, ungated, excused>>
      /\ queue' \subseteq queue \cup {k}
  BY DEF Take, OtherEvent, pods, view, hist, Move, NoFailure, bounds
<1>2. OthersTyped'
  BY <1>1 DEF OthersTyped, Single
<1>3. CASE UNCHANGED work
  BY <1>1, <1>2, <1>3, ServersUnmoved
<1>4. CASE Take(k) /\ GoesTo(k, "build")
  <2>1. k \in Procs /\ "build" \in PCs
    BY DEF Procs, PCs
  <2>2. [work[k] EXCEPT !.pc = "build"] \in WorkRecord
    BY <2>1, WorkRecordMade DEF WorkInv
  <2>3. Undisturbed([work[k] EXCEPT !.pc = "build"], group')
    BY <1>1, <2>1 DEF WorkInv, WorkRecord, Undisturbed
  <2>4. WorkInv'
    BY <1>1, <1>4, <2>1, <2>2, <2>3, OneProcess DEF GoesTo, WorkRecord
  <2> QED BY <1>1, <1>2, <2>4
<1> QED BY <1>3, <1>4 DEF Take, OtherEvent

LEMMA CreateSteps ==
    ASSUME ServersInv, CreateServerGroup
    PROVE  ServersInv' /\ gate' = gate
<1> USE ServersInvParts
<1>1. /\ UNCHANGED <<pod, gate, store, unseen, name, used, queue, group, ungated, excused>>
      /\ used /\ exists' = TRUE /\ GoesTo("creator", "build")
  BY DEF CreateServerGroup, pods, view, hist, NoFailure, bounds
<1>2. OthersTyped'
  BY <1>1 DEF OthersTyped, Single
<1>3. "creator" \in Procs /\ "build" \in PCs
  BY DEF Procs, PCs
<1>4. [work["creator"] EXCEPT !.pc = "build"] \in WorkRecord
  BY <1>3, WorkRecordMade DEF WorkInv
<1>5. Undisturbed([work["creator"] EXCEPT !.pc = "build"], group')
  BY <1>1, <1>3 DEF WorkInv, WorkRecord, Undisturbed
<1>6. WorkInv'
  BY <1>1, <1>3, <1>4, <1>5, OneProcess DEF GoesTo, WorkRecord
<1> QED BY <1>1, <1>2, <1>6

LEMMA BuildSteps ==
    ASSUME ServersInv, NEW k \in Procs, Build(k)
    PROVE  ServersInv' /\ gate' = gate
<1> USE ServersInvParts
<1>1. UNCHANGED <<pod, gate, store, name, used>>
  BY DEF Build, pods, Failure, NoFailure, bounds
<1>2. CASE SyncFails(k) /\ UNCHANGED unseen
  BY <1>1, <1>2, Failing
<1>3. CASE ~(SyncFails(k) /\ UNCHANGED unseen)
  <2> DEFINE unclean == \/ \E i \in Procs \ {k} : Busy(i)
                        \/ k = "creator" /\ Resolved \cap Removing # {}
             add == IF k = "creator" THEN Resolved ELSE {}
             r == [Resting EXCEPT !.pc = IF k = "creator" THEN "register" ELSE "list",
                              !.want = Resolved, !.may = Potential,
                              !.add = add, !.unclean = unclean]
  <2>1. /\ work' = [Disturbed(k) EXCEPT ![k] = r]
        /\ UNCHANGED <<exists, group, queue, ungated, excused>>
    BY <1>3 DEF Build, hist
  <2>2. Resolved \subseteq Pods
    BY DEF Resolved, Endpoints
  <2>3. unclean \in BOOLEAN /\ Potential \in BOOLEAN
    BY DEF Potential
  <2>4. add \subseteq Resolved /\ (k = "creator" => add = Resolved)
    OBVIOUS
  <2>5. /\ r \in WorkRecord /\ r.pc = IF k = "creator" THEN "register" ELSE "list"
        /\ r.want = Resolved /\ r.add = add /\ r.del = {} /\ r.unclean = unclean
    <3> DEFINE c == IF k = "creator" THEN "register" ELSE "list"
    <3>1. c \in PCs
      BY DEF PCs
    <3>2. r = [Resting EXCEPT !.pc = c, !.want = Resolved,
                  !.may = Potential, !.add = add, !.unclean = unclean]
      OBVIOUS
    <3>3. add \in SUBSET Pods
      BY <2>2
    <3> HIDE DEF unclean, add, c, r
    <3>4. /\ r \in WorkRecord /\ r.pc = c /\ r.want = Resolved
          /\ r.add = add /\ r.del = {} /\ r.unclean = unclean
      BY <2>2, <2>3, <3>1, <3>2, <3>3, IdleProcess DEF WorkRecord
    <3> QED BY <3>4 DEF c
  <2> HIDE DEF unclean, add
  <2>6. Undisturbed(r, group')
    <3>1. CASE k = "creator"
      <4>1. ~unclean => \A p \in Resolved : group[p] # "removing"
        BY <2>2, <3>1 DEF unclean, Removing
      <4> QED BY <2>1, <2>4, <2>5, <3>1, <4>1 DEF Undisturbed
    <3>2. CASE k # "creator"
      BY <2>4, <2>5, <3>2 DEF Undisturbed
    <3> QED BY <3>1, <3>2
  <2>7. (\E j \in Procs \ {k} : Busy(j)) => r.unclean
    BY <2>4, <2>5 DEF unclean
  <2> HIDE DEF r
  <2>8. WorkInv'
    BY <2>1, <2>5, <2>6, <2>7, OthersDisturbed
  <2>9. unseen' \in BOOLEAN
    <3>1. unseen' = (~Fresh \/ (unseen /\ k = "creator" /\ Present \ Resolved # {}))
      BY <1>3 DEF Build
    <3> QED BY <3>1
  <2>10. OthersTyped'
    BY <1>1, <2>1, <2>9 DEF OthersTyped, Single
  <2> QED BY <1>1, <2>8, <2>10
<1> QED BY <1>2, <1>3

LEMMA ListSteps ==
    ASSUME ServersInv, NEW k \in Procs, ListServers(k)
    PROVE  ServersInv' /\ gate' = gate
<1> USE ServersInvParts
<1>1. UNCHANGED <<pod, gate, store, unseen, name, used>> /\ work[k].pc = "list"
  BY DEF ListServers, pods, At, view, Failure, NoFailure, bounds
<1>2. CASE SyncFails(k)
  BY <1>1, <1>2, Failing
<1>3. CASE ~SyncFails(k)
  <2> DEFINE w == work[k]
             add == OfTheGroup(UnmatchedEndpoints(w.want))
             del == OfTheGroup(UnmatchedTargets(w.want))
             unclean == w.unclean \/ w.want \cap Removing # {}
             few(S) == Cardinality(S) \in 1 .. replaceMaxNum - 1
             next == IF few(add) /\ few(del) THEN "replace"
                     ELSE IF del = {} THEN "register" ELSE "deregister"
             r == [w EXCEPT !.add = add, !.del = del, !.unclean = unclean, !.pc = next]
  <2>1. ungated' = IF add = {} THEN ungated \cup ((w.want \cap Present) \ gate) ELSE ungated
    BY <1>3 DEF ListServers
  <2>2. \/ Returns(k, unclean)
        \/ /\ add # {} \/ del # {}
           /\ work' = [work EXCEPT ![k].add = add, ![k].del = del, ![k].unclean = unclean,
                                   ![k].pc = next]
           /\ UNCHANGED <<exists, group, queue, excused>>
    BY <1>3 DEF ListServers
  <2>3. w \in WorkRecord
    BY DEF WorkInv
  <2>4. ungated' \subseteq Pods
    BY <2>1, <2>3 DEF OthersTyped, WorkRecord
  <2>5. CASE Returns(k, unclean)
    <3>1. unclean \in BOOLEAN
      OBVIOUS
    <3> HIDE DEF unclean
    <3>2. gate' \subseteq Pods
      BY <1>1 DEF OthersTyped
    <3> QED BY <1>1, <2>4, <2>5, <3>1, <3>2, Returning
  <2>6. CASE /\ add # {} \/ del # {}
             /\ work' = [work EXCEPT ![k].add = add, ![k].del = del, ![k].unclean = unclean,
                                     ![k].pc = next]
             /\ UNCHANGED <<exists, group, queue, excused>>
    <3>1. /\ add \subseteq w.want /\ add \subseteq Pods
          /\ del \subseteq Pods /\ del \cap w.want = {}
      BY <2>3 DEF OfTheGroup, UnmatchedEndpoints, UnmatchedTargets,
                  Present, WorkRecord
    <3>2. unclean \in BOOLEAN /\ next \in PCs /\ next \in {"replace", "register", "deregister"}
      BY DEF PCs
    <3>3. ~unclean => \A p \in w.want : /\ group[p] # "removing"
                                        /\ p \in add \/ group[p] \in {"adding", "available"}
      <4> SUFFICES ASSUME ~unclean, NEW p \in w.want
                   PROVE  /\ group[p] # "removing"
                          /\ p \in add \/ group[p] \in {"adding", "available"}
        OBVIOUS
      <4>1. p \in Pods
        BY <2>3 DEF WorkRecord
      <4>2. group[p] # "removing"
        BY <4>1 DEF Removing
      <4>3. exists
        BY <2>6 DEF OfTheGroup
      <4>4. p \notin add => group[p] # "none"
        BY <4>1, <4>3 DEF OfTheGroup, UnmatchedEndpoints, Present
      <4> QED BY <4>1, <4>2, <4>4 DEF OthersTyped, ServerStates
    <3>4. w.unclean => unclean
      OBVIOUS
    <3>5. work' = [work EXCEPT ![k] = r]
      <4> HIDE DEF add, del, unclean, next
      <4> QED BY <2>6 DEF WorkInv
    <3> HIDE DEF add, del, unclean, next
    <3>6. /\ r \in WorkRecord /\ r.pc = next /\ r.add = add /\ r.del = del /\ r.unclean = unclean
          /\ r.want = w.want
      BY <2>3, <3>1, <3>2 DEF WorkRecord
    <3>7. Undisturbed(r, group')
      BY <2>6, <3>1, <3>2, <3>3, <3>6 DEF Undisturbed
    <3>8. Busy(k)
      BY <1>1 DEF Busy
    <3> HIDE DEF r, w
    <3>9. WorkInv'
      <4>1. work[k].unclean => r.unclean
        BY <3>4, <3>6 DEF w
      <4> QED BY <2>6, <3>5, <3>6, <3>7, <3>8, <4>1, OneProcess
    <3> QED BY <1>1, <2>4, <2>6, <3>9 DEF OthersTyped, Single
  <2> HIDE DEF unclean, add, del, next
  <2> QED BY <2>2, <2>5, <2>6
<1> QED BY <1>2, <1>3

\* One call: the servers it adds are still to be added by the process, those it
\* removes are not wanted.
LEMMA CallSteps ==
    ASSUME ServersInv, NEW k \in Procs, NEW add, NEW del, NEW next \in WorkRecord,
           Call(k, add, del, next), UNCHANGED <<pod, gate, store, unseen, name, used>>,
           work[k].pc \in {"replace", "register", "deregister"},
           add \subseteq work[k].add, del \subseteq work[k].del,
           next.want = work[k].want, next.unclean = work[k].unclean,
           next.add \subseteq work[k].add, next.del \subseteq work[k].del,
           work[k].add \ add \subseteq next.add
    PROVE  ServersInv'
<1> USE ServersInvParts
<1>1. CASE SyncFails(k)
  BY <1>1, Failing
<1>2. CASE ~SyncFails(k)
  <2> DEFINE r == [next EXCEPT !.pc = "wait", !.call = add \cup del]
  <2>1. /\ exists /\ group' = Called(add, del)
        /\ work' = [work EXCEPT ![k] = r]
        /\ UNCHANGED <<exists, queue, ungated, excused>>
    BY <1>2 DEF Call, hist
  <2>2. work[k] \in WorkRecord /\ Undisturbed(work[k], group) /\ Busy(k)
    BY DEF WorkInv, Busy
  <2>3. add \cup del \in SUBSET Pods
    BY <2>2 DEF WorkRecord
  <2>4. /\ r \in WorkRecord /\ r.pc = "wait" /\ r.want = next.want /\ r.add = next.add
        /\ r.del = next.del /\ r.unclean = next.unclean
    BY <2>3 DEF WorkRecord, PCs
  <2>5. group' \in [Pods -> ServerStates]
    BY <2>1 DEF Called, OthersTyped, ServerStates
  <2>6. Undisturbed(r, group')
    <3>1. r.add \subseteq r.want /\ r.del \cap r.want = {}
      BY <2>2, <2>4 DEF Undisturbed
    <3>2. ASSUME ~r.unclean, NEW p \in r.want
          PROVE  /\ group'[p] # "removing"
                 /\ p \in r.add \/ group'[p] \in {"adding", "available"}
      <4>1. p \in Pods /\ p \notin del
        BY <2>2, <2>4 DEF Undisturbed, WorkRecord
      <4>2. group[p] # "removing" /\ (p \in work[k].add \/ group[p] \in {"adding", "available"})
        BY <2>2, <2>4, <3>2 DEF Undisturbed
      <4>3. group'[p] = IF p \in add /\ group[p] = "none" THEN "adding" ELSE group[p]
        BY <2>1, <4>1 DEF Called
      <4>4. p \in r.add \/ p \in add \/ p \notin work[k].add
        BY <2>4
      <4>5. group[p] \in ServerStates
        BY <4>1 DEF OthersTyped
      <4> QED BY <4>2, <4>3, <4>4, <4>5 DEF ServerStates
    <3> QED BY <2>4, <3>1, <3>2 DEF Undisturbed
  <2> HIDE DEF r
  <2>7. WorkInv'
    BY <2>1, <2>2, <2>4, <2>6, OneProcess
  <2> QED BY <2>1, <2>5, <2>7 DEF OthersTyped, Single
<1> QED BY <1>1, <1>2

LEMMA ReplaceSteps ==
    ASSUME ServersInv, NEW k \in Procs, Replace(k)
    PROVE  ServersInv' /\ gate' = gate
<1> DEFINE next == [work[k] EXCEPT !.add = {}, !.del = {}]
<1>1. /\ work[k].pc = "replace" /\ UNCHANGED <<pod, gate, store, unseen, name, used>>
      /\ Call(k, work[k].add, work[k].del, next)
  BY DEF Replace, At, pods, view, Call, Failure, NoFailure, bounds
<1>2. work[k] \in WorkRecord
  BY DEF ServersInv, WorkInv
<1>3. /\ next \in WorkRecord /\ next.want = work[k].want /\ next.unclean = work[k].unclean
      /\ next.add = {} /\ next.del = {}
  BY <1>2 DEF WorkRecord
<1> HIDE DEF next
<1> QED BY <1>1, <1>2, <1>3, CallSteps

LEMMA DeregisterSteps ==
    ASSUME ServersInv, NEW k \in Procs, Deregister(k)
    PROVE  ServersInv' /\ gate' = gate
<1>1. PICK B \in Batches(work[k].del) :
                 Call(k, {}, B, [work[k] EXCEPT !.del = @ \ B])
  BY DEF Deregister
<1>2. work[k].pc = "deregister" /\ UNCHANGED <<pod, gate, store, unseen, name, used>>
  BY DEF Deregister, At, pods, view, Call, Failure, NoFailure, bounds
<1>3. B \subseteq work[k].del
  BY <1>1 DEF Batches
<1> DEFINE next == [work[k] EXCEPT !.del = @ \ B]
<1>4. work[k] \in WorkRecord
  BY DEF ServersInv, WorkInv
<1>5. /\ next \in WorkRecord /\ next.want = work[k].want /\ next.unclean = work[k].unclean
      /\ next.add = work[k].add /\ next.del = work[k].del \ B
  BY <1>4 DEF WorkRecord
<1>6. Call(k, {}, B, next)
  BY <1>1
<1> HIDE DEF next
<1> QED BY <1>2, <1>3, <1>5, <1>6, CallSteps

LEMMA RegisterSteps ==
    ASSUME ServersInv, NEW k \in Procs, Register(k)
    PROVE  ServersInv' /\ gate' = gate
<1>1. work[k].pc = "register" /\ UNCHANGED <<pod, gate, store, unseen, name, used>>
  BY DEF Register, At, pods, view, Call, Failure, NoFailure, bounds
<1>2. CASE Returns(k, work[k].unclean) /\ UNCHANGED ungated
  <2>1. /\ work[k].unclean \in BOOLEAN /\ gate' \subseteq Pods /\ ungated' \subseteq Pods
    BY <1>1, <1>2, ServersInvParts DEF WorkInv, WorkRecord, OthersTyped
  <2> QED BY <1>1, <1>2, <2>1, Returning
<1>3. CASE \E B \in Batches(work[k].add) :
              Call(k, B, {}, [work[k] EXCEPT !.add = @ \ B])
  <2>1. PICK B \in Batches(work[k].add) :
                   Call(k, B, {}, [work[k] EXCEPT !.add = @ \ B])
    BY <1>3
  <2>2. B \subseteq work[k].add
    BY <2>1 DEF Batches
  <2> DEFINE next == [work[k] EXCEPT !.add = @ \ B]
  <2>3. work[k] \in WorkRecord
    BY DEF ServersInv, WorkInv
  <2>4. /\ next \in WorkRecord /\ next.want = work[k].want /\ next.unclean = work[k].unclean
        /\ next.add = work[k].add \ B /\ next.del = work[k].del
    BY <2>3 DEF WorkRecord
  <2>5. Call(k, B, {}, next)
    BY <2>1
  <2> HIDE DEF next
  <2> QED BY <1>1, <2>2, <2>4, <2>5, CallSteps
<1> QED BY <1>2, <1>3 DEF Register

LEMMA WaitSteps ==
    ASSUME ServersInv, NEW k \in Procs, Wait(k)
    PROVE  ServersInv' /\ gate' = gate
<1> USE ServersInvParts
<1>1. work[k].pc = "wait" /\ UNCHANGED <<pod, gate, store, unseen, name, used>>
  BY DEF Wait, At, pods, view, Failure, NoFailure, bounds
<1>2. CASE SyncFails(k)
  BY <1>1, <1>2, Failing
<1>3. CASE Returns(k, work[k].unclean) /\ UNCHANGED ungated
  <2>1. /\ work[k].unclean \in BOOLEAN /\ gate' \subseteq Pods /\ ungated' \subseteq Pods
    BY <1>1, <1>3 DEF WorkInv, WorkRecord, OthersTyped
  <2> QED BY <1>1, <1>3, <2>1, Returning
<1>4. CASE /\ AfterWait(k) # "return"
           /\ work' = [work EXCEPT ![k].pc = AfterWait(k), ![k].call = {}]
           /\ UNCHANGED <<exists, group, queue, ungated, excused>>
  <2> DEFINE next == AfterWait(k)
             r == [work[k] EXCEPT !.pc = next, !.call = {}]
  <2>1. work[k] \in WorkRecord /\ Undisturbed(work[k], group) /\ Busy(k)
    BY <1>1 DEF WorkInv, Busy
  <2>2. next \in {"deregister", "register", "gate"} /\ (next = "gate" => work[k].add = {})
    BY <1>4 DEF AfterWait
  <2>3. work' = [work EXCEPT ![k] = r]
    <3> HIDE DEF next
    <3> QED BY <1>4 DEF WorkInv, next
  <2> HIDE DEF next
  <2>4. /\ r \in WorkRecord /\ r.pc = next /\ r.want = work[k].want /\ r.add = work[k].add
        /\ r.del = work[k].del /\ r.unclean = work[k].unclean
    BY <2>1, <2>2 DEF WorkRecord, PCs
  <2>5. Undisturbed(r, group')
    BY <1>1, <1>4, <2>1, <2>2, <2>4 DEF Undisturbed
  <2> HIDE DEF r
  <2>6. WorkInv'
    BY <1>4, <2>1, <2>3, <2>4, <2>5, OneProcess
  <2> QED BY <1>1, <1>4, <2>6 DEF OthersTyped, Single
<1> QED BY <1>2, <1>3, <1>4 DEF Wait, hist

\* The conditions are set for servers the process wants, and it has none to add left.
LEMMA GateSteps ==
    ASSUME ServersInv, NEW k \in Procs, SetGates(k)
    PROVE  /\ ServersInv'
           /\ \A p \in gate' \ gate :
                 group[p] \in {"adding", "available"} \/ work[k].unclean \/ Replaced(k, p)
<1> USE ServersInvParts
<1> DEFINE found == ByName(work[k].want)
<1>1. /\ work[k].pc = "gate" /\ UNCHANGED <<pod, store, unseen, name, used>>
      /\ Returns(k, work[k].unclean)
  BY DEF SetGates, At, view, NoFailure, bounds
<1>2. /\ gate' \subseteq gate \cup found
      /\ ungated' \subseteq ungated \cup found
  BY DEF SetGates
<1>3. work[k] \in WorkRecord /\ Undisturbed(work[k], group)
  BY DEF WorkInv
<1>4. found \subseteq Pods
  BY DEF ByName
<1>5. gate' \subseteq Pods /\ ungated' \subseteq Pods /\ work[k].unclean \in BOOLEAN
  BY <1>2, <1>3, <1>4 DEF WorkRecord, OthersTyped
<1>6. ServersInv'
  BY <1>1, <1>5, Returning
<1>7. ASSUME NEW p \in gate' \ gate
      PROVE  group[p] \in {"adding", "available"} \/ work[k].unclean \/ Replaced(k, p)
  <2>1. PICK q \in work[k].want : name[q] = name[p]
    BY <1>2 DEF ByName
  <2>2. CASE q = p
    BY <1>1, <1>3, <2>1, <2>2 DEF Undisturbed
  <2>3. CASE q # p
    BY <2>1, <2>3 DEF Replaced
  <2> QED BY <2>2, <2>3
<1> QED BY <1>6, <1>7

LEMMA RestartSteps ==
    ASSUME ServersInv, TakeOver
    PROVE  ServersInv' /\ gate' = gate
<1> USE ServersInvParts
<1>1. /\ UNCHANGED <<pod, gate, name, used, exists, group, ungated, excused>>
      /\ work' = [k \in Procs |-> Resting]
      /\ queue' \subseteq Kinds /\ unseen' \in BOOLEAN /\ store' = [p \in Pods |-> Shown(p)]
  BY DEF TakeOver, pods, hist, Failure
<1>2. /\ store' \in [Pods -> {"absent", "starting", "waiting"}]
      /\ Single(store)' /\ Single(pod)'
  BY <1>1 DEF Shown, Single, OthersTyped
<1>3. OthersTyped'
  BY <1>1, <1>2 DEF OthersTyped
<1>4. WorkInv'
  BY <1>1, IdleProcess DEF WorkInv, Alone, Busy
<1> QED BY <1>1, <1>3, <1>4

LEMMA StoreSteps ==
    ASSUME ServersInv, NEW p \in Pods, StoreCatchesUp(p)
    PROVE  ServersInv' /\ gate' = gate
<1> USE ServersInvParts
<1>1. /\ UNCHANGED <<pod, gate, unseen, name, used, exists, group, queue, work, ungated, excused>>
      /\ store' = [store EXCEPT ![p] = Shown(p)]
      /\ store[p] # "absent" \/ InStore(p) = {}
  BY DEF StoreCatchesUp, pods, hist, NoFailure, bounds
<1>2. store' \in [Pods -> {"absent", "starting", "waiting"}]
  BY <1>1 DEF Shown, OthersTyped
<1>3. Single(store)' /\ Single(pod)'
  BY <1>1 DEF Single, InStore, OthersTyped
<1>4. OthersTyped'
  BY <1>1, <1>2, <1>3 DEF OthersTyped
<1>5. WorkInv'
  BY <1>1, ServersUnmoved
<1> QED BY <1>1, <1>4, <1>5

LEMMA UseSteps ==
    ASSUME ServersInv, UseService
    PROVE  ServersInv' /\ gate' = gate
<1> USE ServersInvParts
<1>1. /\ UNCHANGED <<pod, gate, store, unseen, name, exists, group, queue, work, ungated, excused>>
      /\ used' = TRUE
  BY DEF UseService, pods, view, hist, NoFailure, bounds
<1>2. OthersTyped'
  BY <1>1 DEF OthersTyped, Single
<1>3. WorkInv'
  BY <1>1, ServersUnmoved
<1> QED BY <1>1, <1>2, <1>3

LEMMA ServersStart ==
    ASSUME ServersInit
    PROVE  ServersInv
<1>1. /\ gate \subseteq Pods
      /\ \A p, q \in gate : name[p] = name[q] => p = q
  BY AlbServersAssumption DEF ServersInit
<1>2. /\ pod = [p \in Pods |-> IF p \in gate THEN "ready" ELSE "absent"]
      /\ store = [p \in Pods |-> Shown(p)]
  BY DEF ServersInit
<1>3. Single(pod)
  BY <1>1, <1>2 DEF Single
<1>4. Single(store) /\ store \in [Pods -> {"absent", "starting", "waiting"}]
  BY <1>1, <1>2 DEF Single, Shown
<1>5. OthersTyped
  BY <1>1, <1>3, <1>4 DEF ServersInit, OthersTyped, ServerStates
<1>6. WorkInv
  BY IdleProcess DEF ServersInit, WorkInv, Alone, Busy
<1> QED BY <1>5, <1>6, ServersInvParts

\* What GateMeansRegistered says of a step.
GateStep ==
    \A p \in gate' \ gate :
          \/ group[p] \in {"adding", "available"}
          \/ \E k \in Procs : At(k, "gate") /\ (work[k].unclean \/ Replaced(k, p))

LEMMA ServersStep ==
    ASSUME ServersInv, [ServersNext]_serverVars
    PROVE  ServersInv' /\ (GateStep \/ UNCHANGED serverVars)
<1>1. ASSUME NEW k \in Procs, Process(k)
      PROVE  ServersInv' /\ GateStep
  <2>1. CASE Build(k)
    BY <2>1, BuildSteps DEF GateStep
  <2>2. CASE ListServers(k)
    BY <2>2, ListSteps DEF GateStep
  <2>3. CASE Replace(k)
    BY <2>3, ReplaceSteps DEF GateStep
  <2>4. CASE Deregister(k)
    BY <2>4, DeregisterSteps DEF GateStep
  <2>5. CASE Register(k)
    BY <2>5, RegisterSteps DEF GateStep
  <2>6. CASE Wait(k)
    BY <2>6, WaitSteps DEF GateStep
  <2>7. CASE SetGates(k)
    <3>1. At(k, "gate")
      BY <2>7 DEF SetGates
    <3> QED BY <2>7, <3>1, GateSteps DEF GateStep
  <2> QED BY <1>1, <2>1, <2>2, <2>3, <2>4, <2>5, <2>6, <2>7 DEF Process
<1>2. ASSUME NEW k \in Kinds, Take(k) \/ OtherEvent(k)
      PROVE  ServersInv' /\ GateStep
  BY <1>2, TakeSteps DEF GateStep
<1>3. ASSUME CreateServerGroup PROVE ServersInv' /\ GateStep
  BY <1>3, CreateSteps DEF GateStep
<1>4. ASSUME NEW p \in Pods, Pod(p) PROVE ServersInv' /\ GateStep
  BY <1>4, PodSteps, AlbServersAssumption DEF GateStep
<1>5. ASSUME NEW p \in Pods, JobEnds(p) PROVE ServersInv' /\ GateStep
  BY <1>5, JobSteps DEF GateStep, JobEnds, pods
<1>6. ASSUME NEW p \in Pods, StoreCatchesUp(p) PROVE ServersInv' /\ GateStep
  BY <1>6, StoreSteps DEF GateStep
<1>7. ASSUME TakeOver PROVE ServersInv' /\ GateStep
  BY <1>7, RestartSteps DEF GateStep
<1>8. ASSUME UNCHANGED serverVars PROVE ServersInv'
  BY <1>8, ServersInvParts, ServersUnmoved
     DEF serverVars, pods, view, hist, bounds, OthersTyped, Single
<1>9. ASSUME UseService PROVE ServersInv' /\ GateStep
  BY <1>9, UseSteps DEF GateStep
<1> QED BY <1>1, <1>2, <1>3, <1>4, <1>5, <1>6, <1>7, <1>8, <1>9 DEF ServersNext

\* The inductive invariant: two processes at work on the group know of each other, and
\* one that knows of no other finds the servers it wants there or still to be added
\* (syncServers, RegisterServers and the creation of a group).
THEOREM ServersInvariant == ServersSpec => []ServersInv
<1>1. ServersInv /\ [ServersNext]_serverVars => ServersInv'
  BY ServersStep
<1>2. ServersInit => ServersInv
  BY ServersStart
<1> QED BY <1>1, <1>2, PTL DEF ServersSpec

\* The types; a group that does not exist serves nobody, and no process removes what it
\* wants (matchEndpointWithTargets).
THEOREM ServerTypes == ServersSpec => []ServersTypeOK
<1>1. ServersInv => ServersTypeOK
  BY DEF ServersInv
<1> QED BY <1>1, ServersInvariant, PTL

\* The readiness gates (updateTargetHealthPodCondition): a condition is set only for a
\* pod with a server in the group, unless the process knew that it was not alone, or the
\* pod has the name of one that the process has read of.
THEOREM GatesAreRegistered == ServersSpec => GateMeansRegistered
<1>1. ServersInv /\ [ServersNext]_serverVars => [GateStep]_serverVars
  BY ServersStep
<1> QED BY <1>1, ServersInvariant, PTL DEF ServersSpec, GateMeansRegistered, GateStep
=============================================================================
