----------------------------- MODULE NodeProofs -----------------------------
(***************************************************************************)
(* Proofs about NodeController, for every number of names and instances,   *)
(* every configuration of the kubelets and every batch size.  A worker, the *)
(* pass and the goroutines that delete act on objects they have read       *)
(* before; uid, provider id and the end of an instance are what stays true  *)
(* of such an object, and the invariant is made of these three.             *)
(***************************************************************************)
EXTENDS NodeController, TLAPS, FiniteSetTheorems, WellFoundedInduction

\* The instances made so far.
Made == 1 .. made.ins

\* The Node object of name n.
NodeOK(n) ==
    node[n] # Absent =>
        /\ node[n].uid \in 1 .. made.uid
        /\ node[n].ins \in Made
        /\ node[n].id \in Made \cup {NoId, BadId}
        /\ setup[n].excl => node[n].net = "none"

\* What was read of an object of that name: while the object is there, it keeps the
\* provider id it had, if it had one.
SeenOK(n, o) ==
    /\ o.uid \in 0 .. made.uid
    /\ o.id \in Made \cup {NoId, BadId}
    /\ o.id # NoId => o.uid # 0
    /\ o.id # NoId /\ node[n] # Absent /\ node[n].uid = o.uid => node[n].id = o.id

SeenObjects == [uid : 0 .. MaxUid, id : Ids \cup {NoId, BadId}, unknown : BOOLEAN]
Works == [pc : {"find", "read", "spec", "status", "sync"}, byIp : BOOLEAN,
          ins : Ids \cup {NoId, BadId}, obj : SeenObjects,
          patch : [id : Ids \cup {NoId}, taint : BOOLEAN, net : BOOLEAN]]
Entries == [name : Names, obj : SeenObjects]

\* A reconcile of name n.
WorkOK(n, w) ==
    /\ w \in Works
    /\ w.ins \in Made \cup {NoId, BadId}
    /\ w.pc # "find" => w.ins \in Made
    /\ w.patch.id \in Made \cup {NoId}
    /\ w.patch.net => ~setup[n].excl
    /\ SeenOK(n, w.obj)

EntryOK(e) == e \in Entries /\ SeenOK(e.name, e.obj) /\ e.obj.id # NoId

\* An instance of the batch that was not listed is gone.
PassOK(p) ==
    /\ p \in [pc : {"idle", "batch", "node"}, batch : SUBSET Entries,
              left : SUBSET Entries, seen : SUBSET Ids]
    /\ \A e \in p.left : EntryOK(e)
    /\ \A e \in p.batch : EntryOK(e) /\ e.obj.id \in Made /\ e.obj.id \notin alive \ p.seen
    /\ p.pc = "batch" => p.left # {}
    /\ p.pc = "node" => p.batch # {}

\* A deletion that is due: while the object is there, its instance is not.
DoomedOK(d) ==
    /\ d \in [name : Names, uid : Ids] /\ d.uid <= made.uid
    /\ node[d.name] # Absent /\ node[d.name].uid = d.uid => node[d.name].id \in Made \ alive

TypeInv ==
    /\ node \in [Names -> Objects \cup {Absent}]
    /\ made \in [uid : 0 .. MaxUid, ins : 0 .. MaxUid]
    /\ alive \subseteq Made /\ setup \in Setups
    /\ queue \subseteq Names /\ unfound \subseteq Names
    /\ faults \in 0 .. MaxFaults[Len(setup)]
    /\ work \in [Names -> Works \cup {NoWork}]

NodeInv ==
    /\ TypeInv
    /\ \A n \in Names : NodeOK(n)
    /\ \A n \in Names : work[n] # NoWork => WorkOK(n, work[n])
    /\ PassOK(pass)
    /\ \A d \in doomed : DoomedOK(d)

-----------------------------------------------------------------------------
\* An object keeps its uid and, once set, its provider id; a new one has a new uid.
Evolves(n) ==
    node'[n] # Absent =>
        \/ node[n] # Absent /\ node'[n].uid = node[n].uid /\ node[n].id \in {NoId, node'[n].id}
        \/ node'[n].uid > made.uid

\* Instances are not made twice.
WorldStep ==
    /\ \A n \in Names : Evolves(n)
    /\ made'.uid >= made.uid /\ made'.ins >= made.ins
    /\ \A i \in Made : i \in alive' => i \in alive

LEMMA MadeGrows ==
    ASSUME TypeInv, TypeInv', WorldStep
    PROVE  Made \subseteq Made' /\ 0 .. made.uid \subseteq 0 .. made'.uid /\ Made \subseteq Ids
           /\ made.uid \in Nat /\ made'.uid \in Nat /\ NoId \notin Made' /\ BadId \notin Made'
  <1>1. /\ made.uid \in Nat /\ made'.uid \in Nat /\ made.ins \in Nat /\ made'.ins \in Nat
        /\ made.uid <= made'.uid /\ made.ins <= made'.ins /\ MaxUid \in Nat
        /\ made.ins <= MaxUid /\ made'.ins <= MaxUid
    BY NodeAssumption DEF TypeInv, WorldStep
  <1>2. Made = 1 .. made.ins /\ Made' = 1 .. made'.ins /\ Ids = 1 .. MaxUid
    BY DEF Made, Ids
  <1>3. NoId \notin 0 .. MaxUid /\ BadId \notin 0 .. MaxUid
    BY NodeAssumption
  <1> QED
    BY <1>1, <1>2, <1>3

\* What was seen of an object stays so.
LEMMA SeenKept ==
    ASSUME NodeInv, TypeInv', WorldStep, NEW n \in Names, NEW o, SeenOK(n, o)
    PROVE  SeenOK(n, o)'
  <1>1. o.uid \in 0 .. made'.uid /\ o.id \in Made' \cup {NoId, BadId}
    BY MadeGrows DEF SeenOK, NodeInv
  <1>2. ASSUME o.id # NoId, node'[n] # Absent, node'[n].uid = o.uid
        PROVE  node'[n].id = o.id
    <2>1. o.uid <= made.uid /\ o.uid \in Nat /\ made.uid \in Nat
      BY MadeGrows DEF SeenOK, NodeInv
    <2>2. node[n] # Absent /\ node'[n].uid = node[n].uid /\ node[n].id \in {NoId, node'[n].id}
      BY <1>2, <2>1 DEF WorldStep, Evolves
    <2> QED
      BY <1>2, <2>2 DEF SeenOK
  <1> QED
    BY <1>1, <1>2 DEF SeenOK

LEMMA WorkKept ==
    ASSUME NodeInv, TypeInv', WorldStep, setup' = setup, NEW n \in Names, NEW w, WorkOK(n, w)
    PROVE  WorkOK(n, w)'
  BY MadeGrows, SeenKept DEF WorkOK, NodeInv

LEMMA PassKept ==
    ASSUME NodeInv, TypeInv', WorldStep, NEW p, PassOK(p)
    PROVE  PassOK(p)'
  <1>1. ASSUME NEW e, EntryOK(e) PROVE EntryOK(e)'
    BY <1>1, SeenKept DEF EntryOK, Entries
  <1>2. \A e \in p.batch : e.obj.id \in Made' /\ e.obj.id \notin alive' \ p.seen
    BY MadeGrows DEF PassOK, NodeInv, WorldStep
  <1> QED
    BY <1>1, <1>2 DEF PassOK

LEMMA DoomedKept ==
    ASSUME NodeInv, TypeInv', WorldStep, NEW d, DoomedOK(d)
    PROVE  DoomedOK(d)'
  <1>1. d.name \in Names /\ d.uid \in Nat /\ d.uid <= made.uid /\ d.uid <= made'.uid
    BY MadeGrows, NodeAssumption DEF DoomedOK, NodeInv, WorldStep, Ids
  <1>2. ASSUME node'[d.name] # Absent, node'[d.name].uid = d.uid
        PROVE  node'[d.name].id \in Made' \ alive'
    <2>1. /\ node[d.name] # Absent /\ node'[d.name].uid = node[d.name].uid
          /\ node[d.name].id \in {NoId, node'[d.name].id}
      BY <1>1, <1>2, MadeGrows DEF WorldStep, Evolves, NodeInv
    <2>2. node[d.name].id \in Made \ alive
      BY <1>2, <2>1 DEF DoomedOK
    <2> QED
      BY <2>1, <2>2, MadeGrows DEF WorldStep, NodeInv
  <1> QED
    BY <1>1, <1>2 DEF DoomedOK

\* A step: what is new in the work, the pass and the deletions has to be shown.
LEMMA StepInv ==
    ASSUME NodeInv, TypeInv', WorldStep, setup' = setup,
           \A n \in Names : NodeOK(n)',
           \A n \in Names : work'[n] \in {NoWork, work[n]} \/ WorkOK(n, work[n])',
           pass' = pass \/ PassOK(pass)',
           \A d \in doomed' : d \in doomed \/ DoomedOK(d)'
    PROVE  NodeInv'
  <1>1. \A n \in Names : work'[n] # NoWork => WorkOK(n, work[n])'
    BY WorkKept DEF NodeInv
  <1>2. PassOK(pass)'
    BY PassKept DEF NodeInv
  <1>3. \A d \in doomed' : DoomedOK(d)'
    BY DoomedKept DEF NodeInv
  <1> QED
    BY <1>1, <1>2, <1>3 DEF NodeInv

-----------------------------------------------------------------------------
\* The nodes and the instances stay as they are.
LEMMA QuietWorld ==
    ASSUME NodeInv, UNCHANGED <<node, alive, setup, made>>
    PROVE  /\ WorldStep /\ \A n \in Names : NodeOK(n)'
           /\ node' \in [Names -> Objects \cup {Absent}]
           /\ made' \in [uid : 0 .. MaxUid, ins : 0 .. MaxUid] /\ alive' \subseteq Made'
           /\ setup' \in Setups
  <1>1. /\ made.uid \in Nat /\ made.ins \in Nat
    BY NodeAssumption DEF NodeInv, TypeInv
  <1> QED
    BY <1>1 DEF NodeInv, TypeInv, NodeOK, WorldStep, Evolves, Made

\* One node changes, or goes.
LEMMA Touch ==
    ASSUME NodeInv, UNCHANGED <<alive, setup, made>>, NEW n \in Names, NEW obj,
           node' = [node EXCEPT ![n] = obj],
           \/ obj = Absent
           \/ /\ node[n] # Absent /\ obj \in Objects
              /\ obj.uid = node[n].uid /\ obj.ins = node[n].ins
              /\ node[n].id \in {NoId, obj.id} /\ obj.id \in Made \cup {NoId, BadId}
              /\ setup[n].excl => obj.net = "none"
    PROVE  /\ WorldStep /\ \A m \in Names : NodeOK(m)'
           /\ node' \in [Names -> Objects \cup {Absent}]
           /\ made' \in [uid : 0 .. MaxUid, ins : 0 .. MaxUid] /\ alive' \subseteq Made'
           /\ setup' \in Setups
  <1>1. /\ node' \in [Names -> Objects \cup {Absent}] /\ node'[n] = obj
        /\ \A m \in Names : m # n => node'[m] = node[m]
    BY DEF NodeInv, TypeInv
  <1>2. made.uid \in Nat /\ made.ins \in Nat
    BY NodeAssumption DEF NodeInv, TypeInv
  <1>3. \A m \in Names : Evolves(m)
    BY <1>1 DEF Evolves
  <1>4. \A m \in Names : NodeOK(m)'
    BY <1>1 DEF NodeOK, NodeInv, Made
  <1> QED
    BY <1>1, <1>2, <1>3, <1>4 DEF WorldStep, NodeInv, TypeInv, Made

\* The patch of the spec, as far as the API server accepts it.
LEMMA PatchSpecOK ==
    ASSUME NodeInv, NEW obj \in Objects, obj.id \in Made \cup {NoId, BadId},
           NEW p, p.id \in Made \cup {NoId}, ~Refused(obj, p)
    PROVE  /\ PatchSpec(obj, p) \in Objects
           /\ PatchSpec(obj, p).uid = obj.uid /\ PatchSpec(obj, p).ins = obj.ins
           /\ PatchSpec(obj, p).net = obj.net
           /\ obj.id \in {NoId, PatchSpec(obj, p).id}
           /\ PatchSpec(obj, p).id \in Made \cup {NoId, BadId}
  <1>1. Made \subseteq Ids
    BY NodeAssumption DEF NodeInv, TypeInv, Made, Ids
  <1>2. (obj.taint /\ ~p.taint) \in BOOLEAN
    OBVIOUS
  <1> QED
    BY <1>1, <1>2 DEF PatchSpec, Objects, Refused

LEMMA SetFieldsType ==
    ASSUME NEW n, NEW obj \in Objects, NEW i, NEW route
    PROVE  /\ SetFields(n, obj, i, route).id \in {i, NoId}
           /\ SetFields(n, obj, i, route).taint \in BOOLEAN
           /\ SetFields(n, obj, i, route).net \in BOOLEAN
           /\ SetFields(n, obj, i, route).net => ~setup[n].excl
           /\ DOMAIN SetFields(n, obj, i, route) = {"id", "taint", "net"}
  BY DEF SetFields, Objects

\* The patches of syncNode, whichever of them succeed.
LEMMA SyncedOK ==
    ASSUME NodeInv, UNCHANGED <<alive, setup, made>>, NEW n \in Names, NEW i \in Made,
           node' = Synced(n, i) \/ (node[n] # Absent /\ node' \in HalfSynced(n, i))
    PROVE  /\ WorldStep /\ \A m \in Names : NodeOK(m)'
           /\ node' \in [Names -> Objects \cup {Absent}]
           /\ made' \in [uid : 0 .. MaxUid, ins : 0 .. MaxUid] /\ alive' \subseteq Made'
           /\ setup' \in Setups
  <1> DEFINE p == SetFields(n, node[n], i, FALSE)
             a == [node[n] EXCEPT !.addr = i]
             q == PatchSpec(node[n], p)
             b == [q EXCEPT !.addr = i]
  <1>1. node \in [Names -> Objects \cup {Absent}] /\ i \in Ids
    BY NodeAssumption DEF NodeInv, TypeInv, Made, Ids
  <1>2. CASE node' = node
    BY <1>2, QuietWorld
  <1>3. CASE node[n] = Absent
    <2>1. Synced(n, i) = node
      BY <1>3 DEF Synced, Addressed
    <2> QED
      BY <1>2, <1>3, <2>1
  <1>4. CASE node[n] # Absent
    <2>1. node[n] \in Objects /\ NodeOK(n)
      BY <1>1, <1>4 DEF NodeInv
    <2>2. /\ a \in Objects /\ a.uid = node[n].uid /\ a.ins = node[n].ins /\ a.id = node[n].id
          /\ a.net = node[n].net
      BY <1>1, <2>1 DEF Objects
    <2>3. Addressed(n, i) = [node EXCEPT ![n] = a]
      BY <1>4 DEF Addressed
    <2>4. p.id \in Made \cup {NoId}
      BY DEF SetFields
    <2> HIDE DEF p
    <2>5. CASE node' = Addressed(n, i)
      <3> HIDE DEF a
      <3> QED
        BY <1>4, <2>1, <2>2, <2>3, <2>5, Touch DEF NodeOK
    <2>6. CASE Refused(node[n], p)
      <3>1. Synced(n, i) = Addressed(n, i)
        BY <2>6 DEF Synced, p
      <3>2. CASE node' = [Synced(n, i) EXCEPT ![n].addr = node[n].addr]
        <4>1. [a EXCEPT !.addr = node[n].addr] = node[n]
          BY <2>1 DEF Objects
        <4> HIDE DEF a
        <4>2. [node EXCEPT ![n] = a][n] = a
          BY <1>1
        <4>3. node' = [node EXCEPT ![n] = node[n]]
          BY <1>1, <2>3, <3>1, <3>2, <4>1, <4>2
        <4>4. node' = node
          BY <1>1, <4>3
        <4> QED
          BY <1>2, <4>4
      <3> QED
        BY <1>2, <1>4, <2>5, <3>1, <3>2 DEF HalfSynced
    <2>7. CASE ~Refused(node[n], p)
      <3>1. Synced(n, i) = [node EXCEPT ![n] = b]
        BY <1>4, <2>7 DEF Synced, p
      <3>2. /\ q \in Objects /\ q.uid = node[n].uid /\ q.ins = node[n].ins /\ q.net = node[n].net
            /\ node[n].id \in {NoId, q.id} /\ q.id \in Made \cup {NoId, BadId}
        <4>1. node[n] \in Objects /\ node[n].id \in Made \cup {NoId, BadId}
          BY <1>4, <2>1 DEF NodeOK
        <4> QED
          BY <2>4, <2>7, <4>1, PatchSpecOK
      <3> DEFINE c == [q EXCEPT !.addr = node[n].addr]
      <3> HIDE DEF q
      <3>3. /\ b \in Objects /\ b.uid = q.uid /\ b.ins = q.ins /\ b.net = q.net /\ b.id = q.id
            /\ c \in Objects /\ c.uid = q.uid /\ c.ins = q.ins /\ c.net = q.net /\ c.id = q.id
            /\ [b EXCEPT !.addr = node[n].addr] = c
        <4>1. /\ b \in Objects /\ b.uid = q.uid /\ b.ins = q.ins
              /\ b.net = q.net /\ b.id = q.id
          BY <1>1, <2>1, <3>2 DEF Objects
        <4>2. /\ c \in Objects /\ c.uid = q.uid /\ c.ins = q.ins
              /\ c.net = q.net /\ c.id = q.id
          BY <1>1, <2>1, <3>2 DEF Objects
        <4>3. [b EXCEPT !.addr = node[n].addr] = c
          BY <1>1, <2>1, <3>2 DEF Objects
        <4> HIDE DEF b, c
        <4> QED
          BY <4>1, <4>2, <4>3
      <3> HIDE DEF b, c
      <3>4. CASE node' = Synced(n, i)
        <4>1. b.uid = node[n].uid /\ b.ins = node[n].ins /\ (setup[n].excl => b.net = "none")
          BY <1>4, <2>1, <3>2, <3>3 DEF NodeOK
        <4> QED
          BY <1>4, <2>1, <3>1, <3>2, <3>3, <3>4, <4>1, Touch
      <3>5. CASE node' = [Synced(n, i) EXCEPT ![n].addr = node[n].addr]
        <4>1. [node EXCEPT ![n] = b][n] = b
          BY <1>1
        <4>2. node' = [node EXCEPT ![n] = c]
          BY <1>1, <3>1, <3>3, <3>5, <4>1
        <4>3. c.uid = node[n].uid /\ c.ins = node[n].ins /\ (setup[n].excl => c.net = "none")
          BY <1>4, <2>1, <3>2, <3>3 DEF NodeOK
        <4> QED
          BY <1>4, <2>1, <3>2, <3>3, <4>2, <4>3, Touch
      <3> QED
        BY <1>2, <2>5, <3>4, <3>5 DEF HalfSynced
    <2> QED
      BY <2>6, <2>7
  <1> QED
    BY <1>3, <1>4

-----------------------------------------------------------------------------
LEMMA FaultType ==
    ASSUME NodeInv, Fault \/ NoFault, setup' = setup
    PROVE  faults' \in 0 .. MaxFaults[Len(setup')]
  <1>1. MaxFaults[Len(setup)] \in Nat /\ faults \in 0 .. MaxFaults[Len(setup)]
    BY NodeAssumption DEF NodeInv, TypeInv
  <1> QED
    BY <1>1 DEF Fault, NoFault

\* The reconcile of n becomes w.
LEMMA WorkStep ==
    ASSUME NodeInv, NEW n \in Names, NEW w, work' = [work EXCEPT ![n] = w],
           w = NoWork \/ WorkOK(n, w)'
    PROVE  /\ work' \in [Names -> Works \cup {NoWork}]
           /\ \A m \in Names : work'[m] \in {NoWork, work[m]} \/ WorkOK(m, work[m])'
  <1>1. /\ work' \in [Names -> Works \cup {NoWork}] /\ work'[n] = w
        /\ \A m \in Names : m # n => work'[m] = work[m]
    BY DEF NodeInv, TypeInv, WorkOK
  <1>2. work'[n] \in {NoWork, work[n]} \/ WorkOK(n, work[n])'
    BY <1>1
  <1> QED
    BY <1>1, <1>2

\* A step of the reconcile of n that leaves the nodes alone.
LEMMA WorkerInv ==
    ASSUME NodeInv, NEW n \in Names, NEW w, work' = [work EXCEPT ![n] = w],
           w = NoWork \/ WorkOK(n, w), Fault \/ NoFault,
           queue' \subseteq Names, unfound' \subseteq Names, UNCHANGED <<World, pass, doomed>>
    PROVE  NodeInv'
  <1>1. UNCHANGED <<node, alive, setup, made>> /\ pass' = pass /\ doomed' = doomed
    BY DEF World, Unchanged
  <1>2. WorkOK(n, w) => WorkOK(n, w)'
    BY <1>1 DEF WorkOK, SeenOK, Made
  <1>3. /\ work' \in [Names -> Works \cup {NoWork}]
        /\ \A m \in Names : work'[m] \in {NoWork, work[m]} \/ WorkOK(m, work[m])'
    BY <1>2, WorkStep
  <1>4. TypeInv'
    BY <1>1, <1>3, QuietWorld, FaultType DEF TypeInv
  <1> QED
    BY <1>1, <1>3, <1>4, QuietWorld, StepInv

LEMMA ReconcileInv ==
    ASSUME NodeInv, NEW n \in Names, Reconcile(n)
    PROVE  NodeInv'
  <1> DEFINE w == [pc |-> "find", byIp |-> node[n].id = NoId,
                   ins |-> CASE node[n].id # NoId -> node[n].id
                             [] node[n].ip        -> node[n].ins
                             [] OTHER             -> NoId,
                   obj |-> NoObj, patch |-> NoPatch]
  <1>1. /\ queue' \subseteq Names /\ unfound' \subseteq Names /\ NoFault
        /\ UNCHANGED <<World, pass, doomed>> /\ work[n] = NoWork
    BY DEF Reconcile, NodeInv, TypeInv
  <1>2. CASE node[n] = Absent \/ ~node[n].taint
    <2>1. work' = [work EXCEPT ![n] = NoWork]
      BY <1>1, <1>2 DEF Reconcile, NodeInv, TypeInv
    <2> QED
      BY <1>1, <2>1, WorkerInv
  <1>3. CASE ~(node[n] = Absent \/ ~node[n].taint)
    <2>1. work' = [work EXCEPT ![n] = w]
      BY <1>3 DEF Reconcile
    <2>2. w.ins \in Made \cup {NoId, BadId} /\ Made \subseteq Ids /\ made.uid \in Nat
      BY <1>3, NodeAssumption DEF NodeInv, NodeOK, TypeInv, Made, Ids
    <2>3. w \in Works /\ SeenOK(n, w.obj)
      BY <2>2, NodeAssumption DEF Works, SeenObjects, NoObj, NoPatch, SeenOK
    <2>4. WorkOK(n, w)
      BY <2>2, <2>3 DEF WorkOK, NoPatch
    <2> HIDE DEF w
    <2> QED
      BY <1>1, <2>1, <2>4, WorkerInv
  <1> QED
    BY <1>2, <1>3

\* The parts of a reconcile that has begun.
LEMMA AtWork ==
    ASSUME NodeInv, NEW n \in Names, NEW pc, At(n, pc)
    PROVE  /\ work[n] # NoWork /\ WorkOK(n, work[n]) /\ work[n] \in Works
           /\ work[n].pc = pc /\ (pc # "find" => work[n].ins \in Made)
  BY DEF At, NodeInv, WorkOK

LEMMA FoundIsMade ==
    ASSUME NodeInv, NEW w, w.ins \in Made \cup {NoId, BadId}, FindCloudECS(w) = "found"
    PROVE  w.ins \in Made
  <1>1. /\ NoId \notin alive /\ BadId \notin alive /\ NoId \notin Ids /\ BadId \notin Ids
        /\ NoId # BadId
    <2>1. made.ins \in Nat /\ made.ins <= MaxUid /\ MaxUid \in Nat /\ alive \subseteq 1 .. made.ins
      BY NodeAssumption DEF NodeInv, TypeInv, Made
    <2>2. 1 .. made.ins \subseteq 1 .. MaxUid /\ NoId \notin 0 .. MaxUid /\ BadId \notin 0 .. MaxUid
      BY <2>1, NodeAssumption
    <2>3. NoId # BadId
      BY NodeAssumption
    <2>4. 1 .. MaxUid \subseteq 0 .. MaxUid
      BY <2>1
    <2> QED
      BY <2>1, <2>2, <2>3, <2>4 DEF Ids
  <1>2. CASE w.ins = BadId
    BY <1>1, <1>2 DEF FindCloudECS
  <1>3. CASE w.ins = NoId
    BY <1>1, <1>3 DEF FindCloudECS
  <1> QED
    BY <1>2, <1>3

LEMMA FindInv ==
    ASSUME NodeInv, NEW n \in Names, Find(n)
    PROVE  NodeInv'
  <1>1. At(n, "find") /\ UNCHANGED <<World, pass, doomed>> /\ (Fault \/ NoFault)
    BY DEF Find
  <1>2. /\ work[n] # NoWork /\ WorkOK(n, work[n]) /\ work[n] \in Works
    BY <1>1, AtWork
  <1>3. unfound' \subseteq Names /\ queue' \subseteq Names
    BY DEF Find, NodeInv, TypeInv, ReturnOK, ReturnErr, Goto
  <1>4. CASE ReturnOK(n) \/ ReturnErr(n)
    BY <1>1, <1>3, <1>4, WorkerInv DEF ReturnOK, ReturnErr
  <1>5. CASE FindCloudECS(work[n]) = "found" /\ Goto(n, "read")
    <2> DEFINE w == [work[n] EXCEPT !.pc = "read"]
    <2>1. work[n].ins \in Made
      BY <1>2, <1>5, FoundIsMade DEF WorkOK
    <2>2. work' = [work EXCEPT ![n] = w]
      BY <1>5 DEF Goto
    <2>3. WorkOK(n, w)
      BY <1>2, <2>1 DEF WorkOK, Works
    <2> QED
      BY <1>1, <1>3, <2>2, <2>3, WorkerInv
  <1> QED
    BY <1>4, <1>5 DEF Find

LEMMA ReadInv ==
    ASSUME NodeInv, NEW n \in Names, ReadNode(n)
    PROVE  NodeInv'
  <1> DEFINE p == SetFields(n, node[n], work[n].ins, CfgRoute)
             w == [work[n] EXCEPT !.pc = IF p = NoPatch THEN "sync" ELSE "spec",
                                  !.obj = Seen(node[n]), !.patch = p]
  <1>1. At(n, "read") /\ UNCHANGED <<World, queue, pass, doomed, unfound>> /\ NoFault
        /\ node[n] # Absent
    BY DEF ReadNode
  <1>2. /\ work[n] # NoWork /\ WorkOK(n, work[n]) /\ work[n] \in Works /\ work[n].ins \in Made
    BY <1>1, AtWork
  <1>3. queue' \subseteq Names /\ unfound' \subseteq Names
    BY <1>1 DEF NodeInv, TypeInv
  <1>4. work' = [work EXCEPT ![n] = w]
    BY DEF ReadNode
  <1>5. node[n] \in Objects /\ NodeOK(n)
    BY <1>1 DEF NodeInv, TypeInv
  <1>6. Made \subseteq Ids /\ made.uid \in 0 .. MaxUid
    BY NodeAssumption DEF NodeInv, TypeInv, Made, Ids
  <1>7. /\ p \in [id : Made \cup {NoId}, taint : BOOLEAN, net : BOOLEAN]
        /\ p.net => ~setup[n].excl
    BY <1>2, <1>5, NodeAssumption DEF SetFields, Objects
  <1>8. Seen(node[n]) \in SeenObjects /\ SeenOK(n, Seen(node[n]))
    BY <1>1, <1>5, <1>6, NodeAssumption DEF Seen, SeenObjects, SeenOK, NodeOK, Objects, Ids
  <1> HIDE DEF p
  <1>9. w \in Works /\ w.ins = work[n].ins /\ w.obj = Seen(node[n]) /\ w.patch = p
    BY <1>2, <1>6, <1>7, <1>8 DEF Works
  <1> HIDE DEF w
  <1>10. WorkOK(n, w)
    BY <1>2, <1>7, <1>8, <1>9 DEF WorkOK
  <1> QED
    BY <1>1, <1>3, <1>4, <1>10, WorkerInv

\* A step of the reconcile of n that patches the node.
LEMMA PatchInv ==
    ASSUME NodeInv, NEW n \in Names, NEW w, work' = [work EXCEPT ![n] = w], WorkOK(n, w),
           NoFault, UNCHANGED <<Unchanged, queue, pass, doomed, unfound>>,
           node[n] # Absent, NEW obj \in Objects, node' = [node EXCEPT ![n] = obj],
           obj.uid = node[n].uid, obj.ins = node[n].ins, node[n].id \in {NoId, obj.id},
           obj.id \in Made \cup {NoId, BadId}, setup[n].excl => obj.net = "none"
    PROVE  NodeInv'
  <1>1. UNCHANGED <<alive, setup, made>> /\ UNCHANGED <<queue, pass, doomed, unfound>>
    BY DEF Unchanged
  <1>2. /\ WorldStep /\ \A m \in Names : NodeOK(m)'
        /\ node' \in [Names -> Objects \cup {Absent}]
        /\ made' \in [uid : 0 .. MaxUid, ins : 0 .. MaxUid] /\ alive' \subseteq Made'
        /\ setup' \in Setups
    BY <1>1, Touch
  <1>3. TypeInv'
    <2>1. work' \in [Names -> Works \cup {NoWork}]
      BY DEF NodeInv, TypeInv, WorkOK
    <2> QED
      BY <1>1, <1>2, <2>1, FaultType DEF NodeInv, TypeInv
  <1>4. WorkOK(n, w)'
    BY <1>1, <1>2, <1>3, WorkKept
  <1>5. \A m \in Names : work'[m] \in {NoWork, work[m]} \/ WorkOK(m, work[m])'
    BY <1>4, WorkStep
  <1> QED
    BY <1>1, <1>2, <1>3, <1>5, StepInv

LEMMA WriteSpecInv ==
    ASSUME NodeInv, NEW n \in Names, WriteSpec(n)
    PROVE  NodeInv'
  <1> DEFINE obj == PatchSpec(node[n], work[n].patch)
             w == [work[n] EXCEPT !.pc = "status"]
  <1>1. /\ At(n, "spec") /\ node[n] # Absent /\ ~Refused(node[n], work[n].patch) /\ NoFault
        /\ UNCHANGED <<Unchanged, queue, pass, doomed, unfound>>
        /\ node' = [node EXCEPT ![n] = obj] /\ work' = [work EXCEPT ![n] = w]
    BY DEF WriteSpec, Goto
  <1>2. /\ work[n] # NoWork /\ WorkOK(n, work[n]) /\ work[n] \in Works /\ work[n].ins \in Made
    BY <1>1, AtWork
  <1>3. node[n] \in Objects /\ NodeOK(n)
    BY <1>1 DEF NodeInv, TypeInv
  <1>4. node[n].id \in Made \cup {NoId, BadId} /\ work[n].patch.id \in Made \cup {NoId}
    BY <1>1, <1>2, <1>3 DEF NodeOK, WorkOK
  <1>5. /\ obj \in Objects /\ obj.uid = node[n].uid /\ obj.ins = node[n].ins
        /\ obj.net = node[n].net /\ node[n].id \in {NoId, obj.id}
        /\ obj.id \in Made \cup {NoId, BadId}
    BY <1>1, <1>3, <1>4, PatchSpecOK
  <1>6. WorkOK(n, w)
    BY <1>2 DEF WorkOK, Works
  <1> HIDE DEF obj, w
  <1>7. setup[n].excl => obj.net = "none"
    BY <1>1, <1>3, <1>5 DEF NodeOK
  <1> QED
    BY <1>1, <1>5, <1>6, <1>7, PatchInv

LEMMA WriteStatusInv ==
    ASSUME NodeInv, NEW n \in Names, WriteStatus(n)
    PROVE  NodeInv'
  <1> DEFINE obj == PatchStatus(node[n], work[n].patch)
             w == [work[n] EXCEPT !.pc = "sync", !.patch = NoPatch]
  <1>1. /\ At(n, "status") /\ node[n] # Absent /\ NoFault
        /\ UNCHANGED <<Unchanged, queue, pass, doomed, unfound>>
        /\ node' = [node EXCEPT ![n] = obj] /\ work' = [work EXCEPT ![n] = w]
    BY DEF WriteStatus
  <1>2. /\ work[n] # NoWork /\ WorkOK(n, work[n]) /\ work[n] \in Works /\ work[n].ins \in Made
    BY <1>1, AtWork
  <1>3. node[n] \in Objects /\ NodeOK(n)
    BY <1>1 DEF NodeInv, TypeInv
  <1>4. node[n].id \in Made \cup {NoId, BadId} /\ (work[n].patch.net => ~setup[n].excl)
    BY <1>1, <1>2, <1>3 DEF NodeOK, WorkOK
  <1>5. /\ obj \in Objects /\ obj.uid = node[n].uid /\ obj.ins = node[n].ins
        /\ obj.id = node[n].id /\ (setup[n].excl => obj.net = node[n].net)
    BY <1>3, <1>4 DEF PatchStatus, Objects
  <1>6. WorkOK(n, w)
    BY <1>2 DEF WorkOK, Works, NoPatch
  <1> HIDE DEF obj, w
  <1>7. setup[n].excl => obj.net = "none"
    BY <1>1, <1>3, <1>5 DEF NodeOK
  <1> QED
    BY <1>1, <1>4, <1>5, <1>6, <1>7, PatchInv

LEMMA PollFailsInv ==
    ASSUME NodeInv, NEW n \in Names, PollFails(n)
    PROVE  NodeInv'
  <1>1. /\ \E pc \in {"read", "spec", "status"} : At(n, pc)
        /\ Fault \/ NoFault
        /\ UNCHANGED <<World, pass, doomed, unfound>>
    BY DEF PollFails
  <1>2. /\ work[n] # NoWork /\ WorkOK(n, work[n]) /\ work[n] \in Works /\ work[n].ins \in Made
    BY <1>1, AtWork
  <1>3. queue' \subseteq Names /\ unfound' \subseteq Names
    BY <1>1 DEF PollFails, Goto, ReturnErr, NodeInv, TypeInv
  <1>4. CASE ReturnErr(n)
    BY <1>1, <1>3, <1>4, WorkerInv DEF ReturnErr
  <1>5. CASE Goto(n, "read")
    <2> DEFINE w == [work[n] EXCEPT !.pc = "read"]
    <2>1. work' = [work EXCEPT ![n] = w]
      BY <1>5 DEF Goto
    <2>2. WorkOK(n, w)
      BY <1>2 DEF WorkOK, Works
    <2> QED
      BY <1>1, <1>3, <2>1, <2>2, WorkerInv
  <1> QED
    BY <1>4, <1>5 DEF PollFails

\* A deletion that syncNode puts off: the instance of the object is gone.
LEMMA DeleteLaterOK ==
    ASSUME NodeInv, UNCHANGED <<node, alive, setup, made>>, NEW n \in Names,
           NEW o \in SeenObjects, SeenOK(n, o), o.id \in Made \ alive, DeleteLater(n, o)
    PROVE  \A d \in doomed' : d \in doomed \/ DoomedOK(d)'
  <1> DEFINE d == [name |-> n, uid |-> o.uid]
  <1>1. \A x \in doomed' : x \in doomed \/ x = d
    BY DEF DeleteLater
  <1>2. o.uid \in Ids /\ o.uid <= made.uid /\ o.id # NoId
    BY NodeAssumption DEF SeenOK, SeenObjects, NodeInv, TypeInv, Ids, Made
  <1>3. DoomedOK(d)'
    BY <1>2 DEF DoomedOK, SeenOK, Made
  <1> QED
    BY <1>1, <1>3

LEMMA SyncOneInv ==
    ASSUME NodeInv, NEW n \in Names, SyncOne(n)
    PROVE  NodeInv'
  <1> DEFINE obj == work[n].obj
  <1>1. /\ At(n, "sync") /\ ReturnOK(n) /\ UNCHANGED <<Unchanged, pass, unfound>>
        /\ Fault \/ NoFault
    BY DEF SyncOne
  <1>2. UNCHANGED <<alive, setup, made, pass, unfound, queue>>
        /\ work' = [work EXCEPT ![n] = NoWork]
    BY <1>1 DEF Unchanged, ReturnOK
  <1>3. work[n] \in Works /\ obj \in SeenObjects /\ SeenOK(n, obj)
    BY <1>1, AtWork DEF WorkOK, Works
  <1>4. /\ work' \in [Names -> Works \cup {NoWork}]
        /\ \A m \in Names : work'[m] \in {NoWork, work[m]} \/ WorkOK(m, work[m])'
    BY <1>2, WorkStep
  <1>5. faults' \in 0 .. MaxFaults[Len(setup')]
    BY <1>1, <1>2, FaultType
  <1>6. obj.id \in alive => obj.id \in Made
    BY DEF NodeInv, TypeInv
  <1>7. obj.id \in Ids => obj.id \in Made
    BY <1>3, NodeAssumption DEF SeenOK, Ids
  <1>8. CASE obj.id \in alive /\ doomed' = doomed
             /\ (node' = Synced(n, obj.id) \/ (node[n] # Absent /\ node' \in HalfSynced(n, obj.id)))
    <2>1. /\ WorldStep /\ \A m \in Names : NodeOK(m)'
          /\ node' \in [Names -> Objects \cup {Absent}]
          /\ made' \in [uid : 0 .. MaxUid, ins : 0 .. MaxUid] /\ alive' \subseteq Made'
          /\ setup' \in Setups
      BY <1>2, <1>6, <1>8, SyncedOK
    <2>2. TypeInv'
      BY <1>2, <1>4, <1>5, <2>1 DEF NodeInv, TypeInv
    <2> QED
      BY <1>2, <1>4, <1>8, <2>1, <2>2, StepInv
  <1>9. CASE /\ UNCHANGED node
             /\ \/ doomed' = doomed
                \/ obj.id \in Ids \ alive /\ DeleteLater(n, obj)
    <2>1. UNCHANGED <<node, alive, setup, made>>
      BY <1>2, <1>9
    <2>2. \A d \in doomed' : d \in doomed \/ DoomedOK(d)'
      BY <1>3, <1>7, <1>9, <2>1, DeleteLaterOK
    <2>3. TypeInv'
      BY <1>2, <1>4, <1>5, <2>1, QuietWorld DEF NodeInv, TypeInv
    <2> QED
      BY <1>2, <1>4, <2>1, <2>2, <2>3, QuietWorld, StepInv
  <1> QED
    BY <1>8, <1>9 DEF SyncOne

-----------------------------------------------------------------------------
\* A step of the pass that leaves the nodes alone.
LEMMA PassInv ==
    ASSUME NodeInv, PassOK(pass)', Fault \/ NoFault, UNCHANGED <<World, queue, work, doomed, unfound>>
    PROVE  NodeInv'
  <1>1. UNCHANGED <<node, alive, setup, made>> /\ UNCHANGED <<queue, work, doomed, unfound>>
    BY DEF World, Unchanged
  <1>2. TypeInv'
    BY <1>1, QuietWorld, FaultType DEF NodeInv, TypeInv
  <1> QED
    BY <1>1, <1>2, QuietWorld, StepInv

LEMMA IdlePassOK == PassOK(IdlePass)
  BY DEF PassOK, IdlePass

\* What the list of nodes holds.
LEMMA NodeListOK ==
    ASSUME NodeInv
    PROVE  \A e \in NodeList : EntryOK(e)
  <1> SUFFICES ASSUME NEW n \in Names, node[n] # Absent, node[n].id # NoId
               PROVE  EntryOK([name |-> n, obj |-> Seen(node[n])])
    BY DEF NodeList
  <1>1. node[n] \in Objects /\ NodeOK(n) /\ made.uid \in 0 .. MaxUid
    BY DEF NodeInv, TypeInv
  <1>2. Seen(node[n]) \in SeenObjects
    BY <1>1, NodeAssumption DEF Seen, SeenObjects, Objects, Ids
  <1>3. SeenOK(n, Seen(node[n]))
    BY <1>1, NodeAssumption DEF Seen, SeenOK, NodeOK
  <1> QED
    BY <1>2, <1>3 DEF EntryOK, Entries, Seen

LEMMA PassStartInv ==
    ASSUME NodeInv, PassStart
    PROVE  NodeInv'
  <1> DEFINE p == NextBatch(NodeList)
  <1>1. /\ pass' = p /\ NoFault /\ UNCHANGED <<World, queue, work, doomed, unfound>>
        /\ NodeList # {}
    BY DEF PassStart
  <1>2. p = [pc |-> "batch", batch |-> {}, left |-> NodeList, seen |-> {}]
    BY DEF NextBatch
  <1>3. NodeList \subseteq Entries
    BY NodeListOK DEF EntryOK
  <1>4. PassOK(p)
    BY <1>1, <1>2, <1>3, NodeListOK DEF PassOK
  <1>5. ASSUME NEW q, PassOK(q) PROVE PassOK(q)'
    BY <1>1, <1>5 DEF World, Unchanged, PassOK, EntryOK, SeenOK, Made
  <1>6. \A q : pass' = q /\ PassOK(q) => PassOK(pass)'
    BY <1>5
  <1> HIDE DEF p
  <1> QED
    BY <1>1, <1>4, <1>6, PassInv

\* The first node of a list comes before all others.
LEMMA FirstEntry ==
    ASSUME NEW list \in SUBSET Entries, list # {}
    PROVE  \E e \in list : Before(e, list) = {}
  <1> DEFINE T == {e.name : e \in list}
  <1>1. T \subseteq Nat /\ T # {}
    BY NodeAssumption DEF Entries, Names
  <1>2. PICK x \in T : \A y \in T : <<y, x>> \notin OpToRel(<, Nat)
    <2> HIDE DEF T
    <2> QED
      BY <1>1, NatLessThanWellFounded, WFMin
  <1>3. PICK e \in list : e.name = x
    OBVIOUS
  <1>4. \A f \in list : ~(f.name < e.name)
    BY <1>1, <1>2, <1>3 DEF OpToRel
  <1> QED
    BY <1>4 DEF Before

LEMMA ListInstancesInv ==
    ASSUME NodeInv, ListInstances
    PROVE  NodeInv'
  <1> DEFINE p == [pc |-> "node", batch |-> FirstBatch, left |-> pass.left \ FirstBatch,
                   seen |-> {e.obj.id : e \in FirstBatch} \cap alive]
  <1>1. /\ pass.pc = "batch" /\ (Fault \/ NoFault)
        /\ UNCHANGED <<World, queue, work, doomed, unfound>>
    BY DEF ListInstances
  <1>2. ASSUME NEW q, PassOK(q) PROVE PassOK(q)'
    BY <1>1, <1>2 DEF World, Unchanged, PassOK, EntryOK, SeenOK, Made
  <1>3. CASE pass' = IdlePass
    BY <1>1, <1>2, <1>3, IdlePassOK, PassInv
  <1>4. CASE ~Unparsable /\ Listed(alive)
    <2>1. pass' = p
      BY <1>4 DEF Listed
    <2>2. /\ pass.left \in SUBSET Entries /\ pass.left # {} /\ FirstBatch \subseteq pass.left
          /\ \A e \in pass.left : EntryOK(e)
      BY <1>1 DEF NodeInv, PassOK, FirstBatch
    <2>3. FirstBatch # {}
      <3>1. PICK e \in pass.left : Before(e, pass.left) = {}
        BY <2>2, FirstEntry
      <3>2. Cardinality(Before(e, pass.left)) < BatchSize
        BY <3>1, FS_EmptySet, NodeAssumption
      <3> QED
        BY <3>2 DEF FirstBatch
    <2>4. \A e \in FirstBatch : e.obj.id \in Made
      BY <1>4, <2>2 DEF Unparsable, EntryOK, SeenOK
    <2>5. alive \subseteq Ids
      BY NodeAssumption DEF NodeInv, TypeInv, Made, Ids
    <2>6. PassOK(p)
      BY <2>2, <2>3, <2>4, <2>5 DEF PassOK
    <2> HIDE DEF p
    <2> QED
      BY <1>1, <1>2, <2>1, <2>6, PassInv
  <1> QED
    BY <1>3, <1>4 DEF ListInstances

LEMMA SyncNodeInv ==
    ASSUME NodeInv, SyncNode
    PROVE  NodeInv'
  <1> DEFINE Next1(e) == CASE pass.batch # {e} -> [pass EXCEPT !.batch = @ \ {e}]
                           [] pass.batch = {e} /\ pass.left # {} -> NextBatch(pass.left)
                           [] OTHER -> IdlePass
  <1>1. PICK e \in pass.batch :
          LET n == e.name
              i == e.obj.id
          IN  /\ \/ /\ i \notin pass.seen /\ NoFault
                    /\ DeleteLater(n, e.obj) /\ UNCHANGED node
                 \/ /\ i \in pass.seen /\ setup[n].prov /\ NoFault
                    /\ node' = Synced(n, i) /\ UNCHANGED doomed
                 \/ /\ i \in pass.seen /\ setup[n].prov /\ node[n] # Absent /\ Fault
                    /\ node' \in HalfSynced(n, i)
                    /\ UNCHANGED doomed
                 \/ /\ i \in pass.seen /\ ~setup[n].prov /\ NoFault
                    /\ UNCHANGED <<node, doomed>>
              /\ pass' = Next1(e)
    BY DEF SyncNode
  <1>2. UNCHANGED <<alive, setup, made>> /\ UNCHANGED <<queue, work, unfound>> /\ pass.pc = "node"
    BY DEF SyncNode, Unchanged
  <1>3. /\ PassOK(pass) /\ EntryOK(e) /\ e.obj.id \in Made /\ e.obj.id \notin alive \ pass.seen
    BY DEF NodeInv, PassOK
  <1>4. e.name \in Names /\ e.obj \in SeenObjects /\ SeenOK(e.name, e.obj)
    BY <1>3 DEF EntryOK, Entries
  <1>5. PassOK(Next1(e))
    <2>1. CASE pass.batch # {e}
      <3> DEFINE q == [pass EXCEPT !.batch = @ \ {e}]
      <3>1. /\ q.pc = pass.pc /\ q.batch = pass.batch \ {e} /\ q.left = pass.left
            /\ q.seen = pass.seen
            /\ q \in [pc : {"idle", "batch", "node"}, batch : SUBSET Entries,
                       left : SUBSET Entries, seen : SUBSET Ids]
        BY <1>3 DEF PassOK
      <3>2. pass.batch \ {e} # {}
        BY <1>1, <2>1
      <3>3. PassOK(q)
        <4> HIDE DEF q
        <4> QED
          BY <1>2, <1>3, <3>1, <3>2 DEF PassOK
      <3> QED
        BY <2>1, <3>3
    <2>2. CASE pass.batch = {e} /\ pass.left # {}
      <3> DEFINE q == NextBatch(pass.left)
      <3>1. q = [pc |-> "batch", batch |-> {}, left |-> pass.left, seen |-> {}]
        BY DEF NextBatch
      <3>2. PassOK(q)
        BY <1>3, <2>2, <3>1 DEF PassOK
      <3> QED
        BY <2>2, <3>2
    <2>3. CASE pass.batch = {e} /\ pass.left = {}
      BY <2>3, IdlePassOK
    <2> QED
      BY <2>1, <2>2, <2>3
  <1> HIDE DEF Next1
  <1>6. faults' \in 0 .. MaxFaults[Len(setup')]
    BY <1>1, <1>2, FaultType
  <1>7. CASE doomed' = doomed /\ (\/ node' = Synced(e.name, e.obj.id)
                                  \/ node[e.name] # Absent /\ node' \in HalfSynced(e.name, e.obj.id))
    <2>1. /\ WorldStep /\ \A m \in Names : NodeOK(m)'
          /\ node' \in [Names -> Objects \cup {Absent}]
          /\ made' \in [uid : 0 .. MaxUid, ins : 0 .. MaxUid] /\ alive' \subseteq Made'
          /\ setup' \in Setups
      BY <1>2, <1>3, <1>4, <1>7, SyncedOK
    <2>2. TypeInv'
      BY <1>2, <1>6, <2>1 DEF NodeInv, TypeInv
    <2>3. PassOK(Next1(e)) /\ pass' = Next1(e)
      BY <1>1, <1>5
    <2>4. PassOK(pass)'
      BY <2>1, <2>2, <2>3, PassKept
    <2> QED
      BY <1>2, <1>7, <2>1, <2>2, <2>4, StepInv
  <1>8. CASE /\ UNCHANGED node
             /\ doomed' = doomed \/ (e.obj.id \notin pass.seen /\ DeleteLater(e.name, e.obj))
    <2>1. UNCHANGED <<node, alive, setup, made>>
      BY <1>2, <1>8
    <2>2. \A d \in doomed' : d \in doomed \/ DoomedOK(d)'
      BY <1>3, <1>4, <1>8, <2>1, DeleteLaterOK
    <2>3. TypeInv'
      BY <1>2, <1>6, <2>1, QuietWorld DEF NodeInv, TypeInv
    <2>4. PassOK(Next1(e)) /\ pass' = Next1(e)
      BY <1>1, <1>5
    <2>5. PassOK(pass)'
      BY <2>1, <2>3, <2>4, QuietWorld, PassKept
    <2> QED
      BY <1>2, <2>1, <2>2, <2>3, <2>5, QuietWorld, StepInv
  <1> QED
    BY <1>1, <1>7, <1>8

-----------------------------------------------------------------------------
(* Kubelets, the cloud, other controllers and users.                       *)

LEMMA RegisterInv ==
    ASSUME NodeInv, NEW n \in Names, Register(n)
    PROVE  NodeInv'
  <1>1. PICK i \in Ids :
          /\ i = made.ins + 1 \/ i \in alive
          /\ made' = [uid |-> made.uid + 1, ins |-> IF i > made.ins THEN i ELSE made.ins]
          /\ alive' = alive \cup {i}
          /\ node' = [node EXCEPT ![n] = LET k == setup[n] IN
                [uid |-> made.uid + 1, ins |-> i, taint |-> TRUE,
                 id |-> CASE k.id = "given" -> i [] k.id = "none" -> NoId [] OTHER -> BadId,
                 ip |-> k.ip, unknown |-> FALSE, addr |-> 0, net |-> "none"]]
    BY DEF Register
  <1>2. /\ n \in DOMAIN setup /\ made.uid < MaxUid /\ queue' = queue \cup {n} /\ NoFault
        /\ UNCHANGED <<setup, work, pass, doomed, unfound>>
    BY DEF Register
  <1> DEFINE id == CASE setup[n].id = "given" -> i [] setup[n].id = "none" -> NoId [] OTHER -> BadId
             obj == [uid |-> made.uid + 1, ins |-> i, taint |-> TRUE, id |-> id,
                     ip |-> setup[n].ip, unknown |-> FALSE, addr |-> 0, net |-> "none"]
  <1>3. /\ made.uid \in Nat /\ made.ins \in Nat /\ made.ins <= MaxUid /\ MaxUid \in Nat
        /\ i \in 1 .. MaxUid
    BY NodeAssumption DEF NodeInv, TypeInv, Ids
  <1>4. /\ made'.uid = made.uid + 1 /\ made'.ins \in Nat /\ made'.ins >= made.ins
        /\ made' \in [uid : 0 .. MaxUid, ins : 0 .. MaxUid] /\ i \in 1 .. made'.ins
    BY <1>1, <1>2, <1>3
  <1>5. Made \subseteq Made' /\ i \in Made' /\ (i \in Made => i \in alive)
    BY <1>1, <1>3, <1>4 DEF Made
  <1>6. id \in {i, NoId, BadId}
    OBVIOUS
  <1>7. obj \in Objects
    <2>1. setup \in Setups /\ n \in DOMAIN setup
      BY <1>2 DEF NodeInv, TypeInv
    <2>2. setup[n].ip \in BOOLEAN
      BY <2>1, NodeAssumption
    <2>3. made.uid + 1 \in Ids
      BY <1>2, <1>3 DEF Ids
    <2> HIDE DEF id
    <2> QED
      BY <1>1, <1>6, <2>2, <2>3 DEF Objects
  <1>8. node' = [node EXCEPT ![n] = obj]
    BY <1>1
  <1> HIDE DEF id
  <1>9. obj.uid = made.uid + 1 /\ obj.ins = i /\ obj.id = id /\ obj.net = "none"
    OBVIOUS
  <1> HIDE DEF obj
  <1>10. /\ node' \in [Names -> Objects \cup {Absent}] /\ node'[n] = obj
         /\ \A m \in Names : m # n => node'[m] = node[m]
    BY <1>7, <1>8 DEF NodeInv, TypeInv
  <1>11. WorldStep
    <2>1. \A m \in Names : Evolves(m)
      BY <1>3, <1>9, <1>10 DEF Evolves
    <2> QED
      BY <1>1, <1>3, <1>4, <1>5, <2>1 DEF WorldStep
  <1>12. TypeInv'
    <2>1. alive' \subseteq Made'
      BY <1>1, <1>5 DEF NodeInv, TypeInv
    <2> QED
      BY <1>2, <1>4, <1>10, <2>1, FaultType DEF NodeInv, TypeInv
  <1>13. \A m \in Names : NodeOK(m)'
    <2>1. NodeOK(n)'
      BY <1>3, <1>4, <1>5, <1>6, <1>9, <1>10 DEF NodeOK
    <2>2. 1 .. made.uid \subseteq 1 .. made'.uid
      BY <1>3, <1>4
    <2>3. \A m \in Names : m # n => NodeOK(m)'
      BY <1>2, <1>5, <1>10, <2>2 DEF NodeOK, NodeInv
    <2> QED
      BY <2>1, <2>3
  <1> QED
    BY <1>2, <1>11, <1>12, <1>13, StepInv

\* One node changes and nothing else.
LEMMA ChangeInv ==
    ASSUME NodeInv, NEW n \in Names, NEW obj, Change(n, obj),
           \/ obj = Absent
           \/ /\ node[n] # Absent /\ obj \in Objects
              /\ obj.uid = node[n].uid /\ obj.ins = node[n].ins /\ obj.id = node[n].id
              /\ setup[n].excl => obj.net = node[n].net
    PROVE  NodeInv'
  <1>1. /\ node' = [node EXCEPT ![n] = obj] /\ NoFault /\ UNCHANGED <<alive, setup, made>>
        /\ UNCHANGED <<queue, work, pass, doomed, unfound>>
    BY DEF Change, Unchanged
  <1>2. node[n] # Absent => /\ node[n].id \in Made \cup {NoId, BadId}
                            /\ setup[n].excl => node[n].net = "none"
    BY DEF NodeInv, NodeOK
  <1>3. /\ WorldStep /\ \A m \in Names : NodeOK(m)'
        /\ node' \in [Names -> Objects \cup {Absent}]
        /\ made' \in [uid : 0 .. MaxUid, ins : 0 .. MaxUid] /\ alive' \subseteq Made'
        /\ setup' \in Setups
    BY <1>1, <1>2, Touch
  <1>4. TypeInv'
    BY <1>1, <1>3, FaultType DEF NodeInv, TypeInv
  <1> QED
    BY <1>1, <1>3, <1>4, StepInv

LEMMA PostInv ==
    ASSUME NodeInv, NEW n \in Names, Post(n) \/ Unheard(n) \/ RemoveNode(n) \/ RouteCreated(n)
    PROVE  NodeInv'
  <1>1. node[n] # Absent /\ node[n] \in Objects
    BY DEF Post, Unheard, RemoveNode, RouteCreated, NodeInv, TypeInv
  <1>2. CASE Post(n)
    <2> DEFINE obj == [node[n] EXCEPT !.ip = TRUE, !.unknown = FALSE]
    <2>1. /\ obj \in Objects /\ obj.uid = node[n].uid /\ obj.ins = node[n].ins
          /\ obj.id = node[n].id /\ obj.net = node[n].net
      BY <1>1 DEF Objects
    <2>2. Change(n, obj)
      BY <1>2 DEF Post
    <2> HIDE DEF obj
    <2> QED
      BY <1>1, <2>1, <2>2, ChangeInv
  <1>3. CASE Unheard(n)
    <2> DEFINE obj == [node[n] EXCEPT !.unknown = TRUE]
    <2>1. /\ obj \in Objects /\ obj.uid = node[n].uid /\ obj.ins = node[n].ins
          /\ obj.id = node[n].id /\ obj.net = node[n].net
      BY <1>1 DEF Objects
    <2>2. Change(n, obj)
      BY <1>3 DEF Unheard
    <2> HIDE DEF obj
    <2> QED
      BY <1>1, <2>1, <2>2, ChangeInv
  <1>4. CASE RemoveNode(n)
    BY <1>4, ChangeInv DEF RemoveNode
  <1>5. CASE RouteCreated(n)
    <2> DEFINE obj == [node[n] EXCEPT !.net = "false"]
    <2>1. /\ obj \in Objects /\ obj.uid = node[n].uid /\ obj.ins = node[n].ins
          /\ obj.id = node[n].id
      BY <1>1 DEF Objects
    <2>2. Change(n, obj) /\ ~setup[n].excl
      BY <1>5 DEF RouteCreated
    <2> HIDE DEF obj
    <2> QED
      BY <1>1, <2>1, <2>2, ChangeInv
  <1> QED
    BY <1>2, <1>3, <1>4, <1>5

LEMMA ReleaseInv ==
    ASSUME NodeInv, NEW i, Release(i)
    PROVE  NodeInv'
  <1>1. /\ alive' = alive \ {i} /\ NoFault
        /\ UNCHANGED <<node, setup, made, queue, work, pass, doomed, unfound>>
    BY DEF Release
  <1>2. made.uid \in Nat /\ made.ins \in Nat
    BY NodeAssumption DEF NodeInv, TypeInv
  <1>3. WorldStep /\ \A n \in Names : NodeOK(n)'
    BY <1>1, <1>2 DEF WorldStep, Evolves, NodeOK, NodeInv, Made
  <1>4. TypeInv'
    BY <1>1, FaultType DEF NodeInv, TypeInv, Made
  <1> QED
    BY <1>1, <1>3, <1>4, StepInv

LEMMA DeleteNodeInv ==
    ASSUME NodeInv, NEW d \in doomed, DeleteNode(d)
    PROVE  NodeInv'
  <1>1. /\ doomed' \subseteq doomed /\ (Fault \/ NoFault)
        /\ UNCHANGED <<alive, setup, made>> /\ UNCHANGED <<queue, work, pass, unfound>>
        /\ UNCHANGED node \/ node' = [node EXCEPT ![d.name] = Absent]
    BY DEF DeleteNode, Unchanged
  <1>2. d.name \in Names
    BY DEF NodeInv, DoomedOK
  <1>3. /\ WorldStep /\ \A m \in Names : NodeOK(m)'
        /\ node' \in [Names -> Objects \cup {Absent}]
        /\ made' \in [uid : 0 .. MaxUid, ins : 0 .. MaxUid] /\ alive' \subseteq Made'
        /\ setup' \in Setups
    BY <1>1, <1>2, Touch, QuietWorld
  <1>4. TypeInv'
    BY <1>1, <1>3, FaultType DEF NodeInv, TypeInv
  <1> QED
    BY <1>1, <1>3, <1>4, StepInv

LEMMA RestartInv ==
    ASSUME NodeInv, Restart
    PROVE  NodeInv'
  <1>1. /\ Fault /\ queue' \subseteq Names /\ work' = [n \in Names |-> NoWork]
        /\ pass' = IdlePass /\ doomed' = {} /\ unfound' = {}
        /\ UNCHANGED <<node, alive, setup, made>>
    BY DEF Restart, World, Unchanged
  <1>2. TypeInv'
    BY <1>1, QuietWorld, FaultType DEF NodeInv, TypeInv
  <1>3. PassOK(pass)'
    BY <1>1 DEF PassOK, IdlePass
  <1>4. \A n \in Names : work'[n] = NoWork
    BY <1>1
  <1> QED
    BY <1>1, <1>2, <1>3, <1>4, QuietWorld, StepInv

-----------------------------------------------------------------------------
LEMMA InitNodeInv == Init => NodeInv
  <1> SUFFICES ASSUME Init PROVE NodeInv
    OBVIOUS
  <1>1. 0 \in 0 .. MaxUid /\ 0 \in 0 .. MaxFaults[Len(setup)]
    BY NodeAssumption DEF Init
  <1>2. TypeInv
    BY <1>1 DEF Init, TypeInv
  <1>3. \A n \in Names : node[n] = Absent /\ work[n] = NoWork
    BY DEF Init
  <1>4. PassOK(pass)
    BY IdlePassOK DEF Init
  <1> QED
    BY <1>2, <1>3, <1>4 DEF Init, NodeInv, NodeOK

LEMMA NextNodeInv == NodeInv /\ [Next]_vars => NodeInv'
  <1> SUFFICES ASSUME NodeInv, [Next]_vars PROVE NodeInv'
    OBVIOUS
  <1>1. ASSUME NEW n \in Names, Worker(n) PROVE NodeInv'
    BY <1>1, ReconcileInv, FindInv, ReadInv, WriteSpecInv, WriteStatusInv, PollFailsInv,
       SyncOneInv DEF Worker
  <1>2. CASE Pass
    BY <1>2, PassStartInv, ListInstancesInv, SyncNodeInv DEF Pass
  <1>3. CASE Others
    BY <1>3, RegisterInv, PostInv, ReleaseInv, RestartInv DEF Others
  <1>4. ASSUME NEW d \in doomed, DeleteNode(d) PROVE NodeInv'
    BY <1>4, DeleteNodeInv
  <1>5. CASE UNCHANGED vars
    <2>1. UNCHANGED <<World, queue, work, doomed, unfound>> /\ pass' = pass /\ NoFault
      BY <1>5 DEF vars, World, Unchanged, NoFault
    <2>2. ASSUME NEW q, PassOK(q) PROVE PassOK(q)'
      BY <2>1, <2>2 DEF World, Unchanged, PassOK, EntryOK, SeenOK, Made
    <2>3. PassOK(pass)'
      BY <2>1, <2>2 DEF NodeInv
    <2> QED
      BY <2>1, <2>3, PassInv
  <1> QED
    BY <1>1, <1>2, <1>3, <1>4, <1>5, PostInv DEF Next

\* The inductive invariant of the node controller.
LEMMA Invariance == Spec => []NodeInv
  BY InitNodeInv, NextNodeInv, PTL DEF Spec

\* Types; a worker past the lookup has an instance, the pass never goes on with an
\* empty batch, and no node outside routing is marked as without a network.
THEOREM NodeTypes == Spec => []TypeOK
  <1>1. NodeInv => TypeOK
    <2> SUFFICES ASSUME NodeInv PROVE TypeOK
      OBVIOUS
    <2>1. Made \subseteq Ids
      BY NodeAssumption DEF NodeInv, TypeInv, Made, Ids
    <2>2. \A n \in Names : work[n] # NoWork =>
            /\ work[n].pc \in {"find", "read", "spec", "status", "sync"}
            /\ work[n].obj.id \in Ids \cup {NoId, BadId}
            /\ work[n].pc # "find" => work[n].ins \in Ids
      BY <2>1 DEF NodeInv, WorkOK, Works, SeenObjects
    <2>3. /\ pass.pc \in {"idle", "batch", "node"}
          /\ \A e \in pass.left : e.obj.id \in Ids \cup {BadId}
          /\ pass.pc = "node" => pass.batch # {}
      BY <2>1 DEF NodeInv, PassOK, EntryOK, SeenOK
    <2>4. \A d \in doomed : d.name \in Names /\ d.uid \in Ids
      BY DEF NodeInv, DoomedOK
    <2>5. \A n \in Names : node[n] # Absent /\ setup[n].excl => node[n].net = "none"
      BY DEF NodeInv, NodeOK
    <2> QED
      BY <2>1, <2>2, <2>3, <2>4, <2>5 DEF NodeInv, TypeInv, TypeOK
  <1> QED
    BY <1>1, Invariance, PTL

\* "if cloud node has been deleted, try to delete node from cluster": whatever happens
\* between the list of instances and the goroutine of deleteNode, the object that was
\* looked at is deleted only if the instance with its id is gone.
THEOREM NodeOnlyDeadDeleted == Spec => OnlyDeadNodesDeleted
  <1>1. NodeInv /\ [Next]_vars =>
          [\A d \in doomed : /\ d \notin doomed'
                             /\ node[d.name] # Absent /\ node'[d.name] = Absent
                             /\ node[d.name].uid = d.uid
                             => node[d.name].id \notin alive]_vars
    BY DEF NodeInv, DoomedOK
  <1> QED
    BY <1>1, Invariance, PTL DEF Spec, OnlyDeadNodesDeleted
=============================================================================
