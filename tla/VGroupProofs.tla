---------------------------- MODULE VGroupProofs ----------------------------
(***************************************************************************)
(* Proofs about VServerGroup, for every set of services, servers and       *)
(* ports, every batch size and every limit.  The cloud identifies a        *)
(* backend by server and port only, and services may want the same ones.   *)
(* So the invariant says of every list a service has still to send that    *)
(* additions and updates are backends it wants, each server and port once, *)
(* and deletions backends that were its own when it read the group.        *)
(***************************************************************************)
EXTENDS VServerGroup, TLAPS

\* The backends that owner o may have.
Of(o) == {b \in Backends : b.owner = o}

Unique(S) == \A b, c \in S : SameKey(b, c) => b = c

\* The lists of a reconcile of service s.
JobOK(s, j) ==
    /\ j \in Jobs
    /\ j.local \subseteq Of(s) /\ Unique(j.local)
    /\ j.add \subseteq j.local /\ j.update \subseteq j.local
    /\ j.mine \subseteq Of(s) /\ j.del \subseteq j.mine

\* A step that sends a list has something left of it.
TodoOK(step, j) ==
    step \in BatchSteps => j.todo # {} /\ j.todo \subseteq ListOf(j, step)

GroupOK(g) == g \subseteq Backends /\ Unique(g)

GroupInv ==
    /\ GroupOK(group)
    /\ want \in Wishes
    /\ mode \in [Svcs -> Modes]
    /\ queued \subseteq Svcs
    /\ pc \in [Svcs -> Steps]
    /\ job \in [Svcs -> Jobs]
    /\ \A s \in Svcs : JobOK(s, job[s]) /\ TodoOK(pc[s], job[s])
    /\ edits \in 0..MaxEdits /\ faults \in 0..MaxFaults

-----------------------------------------------------------------------------
LEMMA StepFacts ==
    /\ Steps = {"idle", "read", "add", "del", "update", "retry"}
    /\ \A x \in Steps : StepNo[x] \in Int
    /\ StepNo["idle"] = 0 /\ StepNo["read"] = 1 /\ StepNo["add"] = 2
    /\ StepNo["del"] = 3 /\ StepNo["update"] = 4 /\ StepNo["retry"] = 5
  BY DEF Steps, StepNo

\* The first of the steps that are due.
LEMMA FirstStep ==
    ASSUME NEW due \in SUBSET BatchSteps, due # {}
    PROVE  \E x \in due : \A y \in due : StepNo[x] <= StepNo[y]
  <1>1. CASE "add" \in due
    BY <1>1, StepFacts DEF BatchSteps
  <1>2. CASE "add" \notin due /\ "del" \in due
    BY <1>2, StepFacts DEF BatchSteps
  <1>3. CASE "add" \notin due /\ "del" \notin due /\ "update" \in due
    BY <1>3, StepFacts DEF BatchSteps
  <1>4. CASE "add" \notin due /\ "del" \notin due /\ "update" \notin due
    <2>1. due = {"retry"}
      BY <1>4 DEF BatchSteps
    <2> QED
      BY <2>1, StepFacts
  <1> QED
    BY <1>1, <1>2, <1>3, <1>4

\* A step sends backends that the service wants, no server and port twice, or
\* deletes what it read as its own.
LEMMA ListType ==
    ASSUME NEW s \in Svcs, NEW j, JobOK(s, j), NEW step \in BatchSteps
    PROVE  /\ ListOf(j, step) \subseteq Of(s)
           /\ ListOf(j, step) \subseteq IF step = "del" THEN j.mine ELSE j.local
           /\ step # "del" => Unique(ListOf(j, step))
  BY DEF ListOf, JobOK, BatchSteps, Unique

\* The local model of a service.
LEMMA LocalType ==
    ASSUME GroupInv, NEW s \in Svcs
    PROVE  Local(s) \subseteq Of(s) /\ Unique(Local(s))
  <1>1. want[s] \in Wants[s]
    BY DEF GroupInv, Wishes
  <1>2. ASSUME NEW x \in want[s]
        PROVE  [server |-> x[1], port |-> x[2], weight |-> x[3], owner |-> s] \in Of(s)
    <2>1. x \in Servers \X Ports \X Weights
      BY <1>1, WantsAssumption
    <2> QED
      BY <2>1 DEF Of, Backends, Owners
  <1>3. Local(s) \subseteq Of(s)
    BY <1>2 DEF Local
  <1>4. Unique(Local(s))
    BY <1>1, WantsAssumption DEF Unique, SameKey, Local
  <1> QED
    BY <1>3, <1>4

\* The empty job, also with other settings.
LEMMA NoJobType ==
    ASSUME NEW s \in Svcs
    PROVE  NoJob \in Jobs /\ JobOK(s, NoJob)
  BY DEF NoJob, Jobs, Modes, JobOK, Unique

\* A reconcile that goes to a step with a job that fits it.
LEMMA GotoInv ==
    ASSUME GroupInv, NEW s \in Svcs, NEW next \in Steps, NEW j, JobOK(s, j), TodoOK(next, j),
           Goto(s, next, j), queued' \subseteq Svcs, Quiet, faults' \in 0..MaxFaults,
           GroupOK(group')
    PROVE  GroupInv'
  <1>1. /\ pc' \in [Svcs -> Steps] /\ job' \in [Svcs -> Jobs]
        /\ \A q \in Svcs : JobOK(q, job'[q]) /\ TodoOK(pc'[q], job'[q])
    BY DEF GroupInv, Goto, JobOK
  <1>2. /\ want' \in Wishes /\ mode' \in [Svcs -> Modes] /\ edits' \in 0..MaxEdits
    BY DEF GroupInv, Quiet
  <1> QED
    BY <1>1, <1>2 DEF GroupInv, GroupOK, JobOK, TodoOK, Unique, Of

LEMMA FinishInv ==
    ASSUME GroupInv, NEW s \in Svcs, NEW j, Finish(s, j), Quiet, faults' \in 0..MaxFaults,
           GroupOK(group')
    PROVE  GroupInv'
  <1>1. TodoOK("idle", NoJob) /\ "idle" \in Steps
    BY StepFacts DEF TodoOK, BatchSteps
  <1>2. queued' \subseteq Svcs /\ Goto(s, "idle", NoJob)
    BY DEF Finish, GroupInv
  <1> QED
    BY <1>1, <1>2, NoJobType, GotoInv

\* The next list that is not empty, or the end; in either case the step changes.
LEMMA ProceedInv ==
    ASSUME GroupInv, NEW s \in Svcs, NEW j, JobOK(s, j), pc[s] # "idle", Proceed(s, j), Quiet,
           faults' \in 0..MaxFaults, GroupOK(group')
    PROVE  GroupInv' /\ pc'[s] # pc[s]
  <1> DEFINE due == {x \in BatchSteps : StepNo[x] > StepNo[pc[s]] /\ ListOf(j, x) # {}}
             next == CHOOSE x \in due : \A y \in due : StepNo[x] <= StepNo[y]
  <1>1. pc[s] \in Steps
    BY DEF GroupInv
  <1>2. CASE due = {}
    <2>1. Finish(s, j)
      BY <1>2 DEF Proceed
    <2>2. pc'[s] = "idle"
      BY <2>1 DEF Finish, Goto, GroupInv
    <2> QED
      BY <2>1, <2>2, FinishInv
  <1>3. CASE due # {}
    <2> DEFINE k == [j EXCEPT !.todo = ListOf(j, next)]
    <2>1. next \in due
      <3>1. \E x \in due : \A y \in due : StepNo[x] <= StepNo[y]
        BY <1>3, FirstStep
      <3> QED
        BY <3>1
    <2>2. next \in BatchSteps /\ next \in Steps /\ StepNo[next] > StepNo[pc[s]] /\ ListOf(j, next) # {}
      BY <2>1, StepFacts DEF BatchSteps
    <2>3. Goto(s, next, k) /\ queued' = queued
      BY <1>3 DEF Proceed
    <2>4. ListOf(j, next) \subseteq Backends
      BY <2>2, ListType DEF Of
    <2> HIDE DEF next
    <2>5. /\ k \in Jobs /\ k.todo = ListOf(j, next) /\ k.add = j.add /\ k.del = j.del
          /\ k.update = j.update /\ k.local = j.local /\ k.mine = j.mine
          /\ k.retryAdd = j.retryAdd
      BY <2>4 DEF JobOK, Jobs
    <2>6. JobOK(s, k) /\ TodoOK(next, k)
      BY <2>2, <2>5 DEF JobOK, TodoOK, ListOf
    <2>7. GroupInv'
      BY <2>2, <2>3, <2>6, GotoInv DEF GroupInv
    <2>8. pc'[s] = next /\ next # pc[s]
      BY <1>1, <2>2, <2>3, StepFacts DEF Goto, GroupInv
    <2> QED
      BY <2>7, <2>8
  <1> QED
    BY <1>2, <1>3

\* A service is at work: its reconcile moves.
Moves(s) == <<pc[s], job[s]>> # <<pc'[s], job'[s]>>

\* After a batch the rest of the list or the next list follows.
LEMMA AfterInv ==
    ASSUME GroupInv, NEW s \in Svcs, pc[s] \in BatchSteps, NEW B \in Batches(job[s].todo),
           NEW j, JobOK(s, j), j.todo = job[s].todo, j.todo \subseteq ListOf(j, pc[s]),
           After(s, B, j), Quiet, faults' \in 0..MaxFaults, GroupOK(group')
    PROVE  GroupInv' /\ Moves(s)
  <1>1. B \subseteq job[s].todo /\ B # {}
    BY DEF Batches
  <1>2. CASE j.todo # B
    <2> DEFINE k == [j EXCEPT !.todo = @ \ B]
    <2>1. Goto(s, pc[s], k) /\ queued' = queued
      BY <1>2 DEF After
    <2>2. /\ k \in Jobs /\ k.todo = j.todo \ B /\ k.add = j.add /\ k.del = j.del
          /\ k.update = j.update /\ k.local = j.local /\ k.mine = j.mine
          /\ k.retryAdd = j.retryAdd
      BY DEF JobOK, Jobs
    <2>3. JobOK(s, k)
      BY <2>2 DEF JobOK
    <2>4. ListOf(k, pc[s]) = ListOf(j, pc[s])
      BY <2>2 DEF ListOf
    <2>5. TodoOK(pc[s], k)
      BY <1>1, <1>2, <2>2, <2>4 DEF TodoOK
    <2>6. GroupInv'
      BY <2>1, <2>3, <2>5, GotoInv DEF GroupInv
    <2>7. job'[s].todo # job[s].todo
      BY <1>1, <2>1, <2>2 DEF Goto, GroupInv
    <2> QED
      BY <2>6, <2>7 DEF Moves
  <1>3. CASE j.todo = B
    <2> DEFINE k == IF pc[s] = "add" /\ j.retryAdd THEN [j EXCEPT !.err = FALSE] ELSE j
    <2>1. JobOK(s, k)
      BY DEF JobOK, Jobs
    <2>2. Proceed(s, k) /\ pc[s] # "idle"
      BY <1>3 DEF After, BatchSteps
    <2>3. GroupInv' /\ pc'[s] # pc[s]
      BY <2>1, <2>2, ProceedInv
    <2> QED
      BY <2>3 DEF Moves
  <1> QED
    BY <1>2, <1>3

\* A batch is part of what the service may send.
LEMMA BatchType ==
    ASSUME GroupInv, NEW s \in Svcs, pc[s] \in BatchSteps, NEW B \in Batches(job[s].todo)
    PROVE  /\ B \subseteq Of(s) /\ B \subseteq Backends
           /\ B \subseteq IF pc[s] = "del" THEN job[s].mine ELSE job[s].local
           /\ pc[s] # "del" => Unique(B)
           /\ JobOK(s, job[s]) /\ job[s].todo \subseteq ListOf(job[s], pc[s])
  <1>1. JobOK(s, job[s]) /\ job[s].todo \subseteq ListOf(job[s], pc[s]) /\ B \subseteq job[s].todo
    BY DEF GroupInv, TodoOK, Batches
  <1> QED
    BY <1>1, ListType DEF Of, Unique

\* The job of a step that met an error, or the limit.
LEMMA ErrorJob ==
    ASSUME GroupInv, NEW s \in Svcs, pc[s] \in BatchSteps,
           NEW j \in {[job[s] EXCEPT !.err = TRUE], [job[s] EXCEPT !.retryAdd = TRUE], job[s]}
    PROVE  JobOK(s, j) /\ j.todo = job[s].todo /\ j.todo \subseteq ListOf(j, pc[s])
  <1>1. /\ j \in Jobs /\ j.local = job[s].local /\ j.mine = job[s].mine /\ j.add = job[s].add /\ j.del = job[s].del
        /\ j.update = job[s].update /\ j.todo = job[s].todo
        /\ job[s].retryAdd => j.retryAdd
    BY DEF GroupInv, Jobs
  <1>2. JobOK(s, job[s]) /\ job[s].todo \subseteq ListOf(job[s], pc[s])
    BY DEF GroupInv, TodoOK
  <1>3. JobOK(s, j)
    BY <1>1, <1>2 DEF JobOK
  <1>4. ListOf(job[s], pc[s]) \subseteq ListOf(j, pc[s])
    BY <1>1 DEF ListOf, BatchSteps
  <1> QED
    BY <1>1, <1>2, <1>3, <1>4

\* The three calls keep the group well formed: additions take nothing out,
\* deletions what they name, updates write over what they name.
LEMMA AddGroup ==
    ASSUME GroupInv, NEW s \in Svcs, NEW B, B \subseteq Of(s), Unique(B)
    PROVE  GroupOK(AddServers(B)) /\ group \subseteq AddServers(B)
  BY DEF GroupInv, GroupOK, AddServers, Unique, Of, KeyIn, SameKey

LEMMA RemoveGroup ==
    ASSUME GroupInv, NEW B
    PROVE  /\ GroupOK(RemoveServers(B))
           /\ \A b \in group \ RemoveServers(B) : KeyIn(b, B) /\ ~KeyIn(b, RemoveServers(B))
  <1>1. GroupOK(RemoveServers(B))
    BY DEF GroupInv, GroupOK, RemoveServers, Unique
  <1>2. \A b \in group \ RemoveServers(B) : KeyIn(b, B)
    BY DEF RemoveServers
  <1>3. \A b \in group : KeyIn(b, B) => ~KeyIn(b, RemoveServers(B))
    BY DEF RemoveServers, KeyIn, SameKey
  <1> QED
    BY <1>1, <1>2, <1>3

LEMMA SetGroup ==
    ASSUME GroupInv, NEW s \in Svcs, NEW B, B \subseteq Of(s), Unique(B)
    PROVE  /\ GroupOK(SetServers(B))
           /\ \A b \in group \ SetServers(B) : KeyIn(b, B) /\ KeyIn(b, SetServers(B))
  <1>1. GroupOK(SetServers(B))
    BY DEF GroupInv, GroupOK, SetServers, RemoveServers, Unique, Of, KeyIn, SameKey
  <1>2. \A b \in group \ SetServers(B) : KeyIn(b, B)
    BY DEF SetServers, RemoveServers
  <1>3. \A b \in group : KeyIn(b, B) => KeyIn(b, SetServers(B))
    BY DEF SetServers, KeyIn
  <1> QED
    BY <1>1, <1>2, <1>3

-----------------------------------------------------------------------------
\* Steps of a service keep the invariant; what they take out of the group was read
\* as the service's own, and what they write over it wants.
OwnOnly(s) ==
    \A b \in group \ group' :
        /\ Moves(s)
        /\ IF KeyIn(b, group') THEN KeyIn(b, job[s].local) ELSE KeyIn(b, job[s].mine)

LEMMA KeyInMore ==
    ASSUME NEW b, NEW S, NEW T, S \subseteq T, KeyIn(b, S)
    PROVE  KeyIn(b, T)
  BY DEF KeyIn

LEMMA StartInv ==
    ASSUME GroupInv, NEW s \in Svcs, Start(s)
    PROVE  GroupInv' /\ OwnOnly(s)
  <1> DEFINE j == [NoJob EXCEPT !.mode = mode[s], !.local = Local(s)]
  <1>1. Local(s) \subseteq Of(s) /\ Unique(Local(s)) /\ mode[s] \in Modes
    BY LocalType DEF GroupInv
  <1>2. Local(s) \subseteq Backends
    BY <1>1 DEF Of
  <1>3. /\ j \in Jobs /\ j.local = Local(s) /\ j.mine = {} /\ j.add = {} /\ j.del = {} /\ j.update = {}
    BY <1>1, <1>2 DEF NoJob, Jobs
  <1>4. JobOK(s, j)
    BY <1>1, <1>3 DEF JobOK, Unique
  <1>5. TodoOK("read", j) /\ "read" \in Steps
    BY StepFacts DEF TodoOK, BatchSteps
  <1>6. Goto(s, "read", j) /\ queued' \subseteq Svcs /\ Quiet /\ group' = group /\ faults' = faults
    BY DEF Start, GroupInv
  <1>7. GroupOK(group') /\ faults' \in 0..MaxFaults
    BY <1>6 DEF GroupInv
  <1>8. GroupInv'
    BY <1>4, <1>5, <1>6, <1>7, GotoInv
  <1> QED
    BY <1>6, <1>8 DEF OwnOnly

LEMMA ReadInv ==
    ASSUME GroupInv, NEW s \in Svcs, ReadAndDiff(s)
    PROVE  GroupInv' /\ OwnOnly(s)
  <1> DEFINE j == job[s]
             d == [j EXCEPT !.mine = Own(s), !.add = Additions(j.local),
                            !.del = Deletions(s, j.local), !.update = Updates(j.local)]
             e == [j EXCEPT !.mine = Own(s), !.del = Deletions(s, {})]
  <1>1. pc[s] # "idle" /\ group' = group /\ Quiet /\ GroupOK(group') /\ faults' \in 0..MaxFaults
    BY DEF ReadAndDiff, GroupInv
  <1>2. JobOK(s, j)
    BY DEF GroupInv
  <1>3. Own(s) \subseteq Of(s) /\ \A l : Deletions(s, l) \subseteq Own(s)
    BY DEF Deletions, Own, IsBackendManagedByMyService, GroupInv, GroupOK, Of
  <1>4. Additions(j.local) \subseteq j.local /\ Updates(j.local) \subseteq j.local
    BY DEF Additions, Updates
  <1>5. JobOK(s, d)
    <2>1. /\ Additions(j.local) \subseteq Backends /\ Updates(j.local) \subseteq Backends
          /\ Deletions(s, j.local) \subseteq Backends /\ Own(s) \subseteq Backends
      BY <1>2, <1>3, <1>4 DEF JobOK, Of
    <2>2. /\ d \in Jobs /\ d.local = j.local /\ d.mine = Own(s) /\ d.add = Additions(j.local)
          /\ d.del = Deletions(s, j.local) /\ d.update = Updates(j.local)
      BY <1>2, <2>1 DEF JobOK, Jobs
    <2> HIDE DEF d
    <2> QED
      BY <1>2, <1>3, <1>4, <2>2 DEF JobOK
  <1>6. JobOK(s, e)
    <2>1. Deletions(s, {}) \subseteq Backends /\ Own(s) \subseteq Backends
      BY <1>3 DEF Of
    <2>2. /\ e \in Jobs /\ e.local = j.local /\ e.mine = Own(s) /\ e.add = j.add
          /\ e.del = Deletions(s, {}) /\ e.update = j.update
      BY <1>2, <2>1 DEF JobOK, Jobs
    <2> HIDE DEF e
    <2> QED
      BY <1>2, <1>3, <2>2 DEF JobOK
  <1>7. j.mode \in {"uses", "dropped", "deleted"}
    BY <1>2 DEF JobOK, Jobs, Modes
  <1> HIDE DEF d, e
  <1>8. Proceed(s, d) \/ Proceed(s, e) \/ Finish(s, j)
    BY <1>7 DEF ReadAndDiff, d, e
  <1>9. GroupInv'
    BY <1>1, <1>5, <1>6, <1>8, ProceedInv, FinishInv
  <1> QED
    BY <1>1, <1>9 DEF OwnOnly

LEMMA AddInv ==
    ASSUME GroupInv, NEW s \in Svcs, Add(s)
    PROVE  GroupInv' /\ OwnOnly(s)
  <1>1. PICK B \in Batches(job[s].todo) :
          /\ pc[s] \in {"add", "retry"}
          /\ IF OverLimit(B)
             THEN /\ After(s, B, IF pc[s] = "add" THEN [job[s] EXCEPT !.retryAdd = TRUE]
                                                  ELSE [job[s] EXCEPT !.err = TRUE])
                  /\ UNCHANGED group
             ELSE After(s, B, job[s]) /\ group' = AddServers(B)
          /\ UNCHANGED faults
          /\ Quiet
    BY DEF Add
  <1>2. pc[s] \in BatchSteps /\ pc[s] # "del" /\ faults' \in 0..MaxFaults
    BY <1>1 DEF BatchSteps, GroupInv
  <1>3. B \subseteq Of(s) /\ Unique(B)
    BY <1>1, <1>2, BatchType
  <1>4. GroupOK(group') /\ group \subseteq group'
    BY <1>1, <1>3, AddGroup DEF GroupInv
  <1>5. PICK j \in {[job[s] EXCEPT !.err = TRUE], [job[s] EXCEPT !.retryAdd = TRUE], job[s]} :
          After(s, B, j)
    BY <1>1
  <1>6. JobOK(s, j) /\ j.todo = job[s].todo /\ j.todo \subseteq ListOf(j, pc[s])
    BY <1>2, <1>5, ErrorJob
  <1>7. GroupInv'
    BY <1>1, <1>2, <1>4, <1>5, <1>6, AfterInv
  <1> QED
    BY <1>4, <1>7 DEF OwnOnly

LEMMA RemoveInv ==
    ASSUME GroupInv, NEW s \in Svcs, Remove(s)
    PROVE  GroupInv' /\ OwnOnly(s)
  <1>1. PICK B \in Batches(job[s].todo) :
          /\ pc[s] = "del"
          /\ group' = RemoveServers(B)
          /\ After(s, B, job[s])
          /\ UNCHANGED faults
          /\ Quiet
    BY DEF Remove
  <1>2. pc[s] \in BatchSteps /\ faults' \in 0..MaxFaults
    BY <1>1 DEF BatchSteps, GroupInv
  <1>3. /\ B \subseteq job[s].mine /\ JobOK(s, job[s])
        /\ job[s].todo \subseteq ListOf(job[s], pc[s])
    BY <1>1, <1>2, BatchType
  <1>4. GroupOK(group') /\ \A b \in group \ group' : KeyIn(b, B) /\ ~KeyIn(b, group')
    BY <1>1, RemoveGroup
  <1>5. GroupInv' /\ Moves(s)
    BY <1>1, <1>2, <1>3, <1>4, AfterInv
  <1>6. \A b \in group \ group' : KeyIn(b, job[s].mine)
    BY <1>3, <1>4, KeyInMore
  <1> QED
    BY <1>4, <1>5, <1>6 DEF OwnOnly

LEMMA UpdateInv ==
    ASSUME GroupInv, NEW s \in Svcs, Update(s)
    PROVE  GroupInv' /\ OwnOnly(s)
  <1>1. PICK B \in Batches(job[s].todo) :
          /\ pc[s] = "update"
          /\ IF \A b \in B : KeyIn(b, group)
             THEN group' = SetServers(B) /\ After(s, B, job[s])
             ELSE After(s, B, [job[s] EXCEPT !.err = TRUE]) /\ UNCHANGED group
          /\ UNCHANGED faults
          /\ Quiet
    BY DEF Update
  <1>2. pc[s] \in BatchSteps /\ pc[s] # "del" /\ faults' \in 0..MaxFaults
    BY <1>1 DEF BatchSteps, GroupInv
  <1>3. B \subseteq Of(s) /\ Unique(B) /\ B \subseteq job[s].local
    BY <1>1, <1>2, BatchType
  <1>4. GroupOK(group') /\ \A b \in group \ group' : KeyIn(b, B) /\ KeyIn(b, group')
    BY <1>1, <1>3, SetGroup DEF GroupInv
  <1>5. PICK j \in {[job[s] EXCEPT !.err = TRUE], [job[s] EXCEPT !.retryAdd = TRUE], job[s]} :
          After(s, B, j)
    BY <1>1
  <1>6. JobOK(s, j) /\ j.todo = job[s].todo /\ j.todo \subseteq ListOf(j, pc[s])
    BY <1>2, <1>5, ErrorJob
  <1>7. GroupInv' /\ Moves(s)
    BY <1>1, <1>2, <1>4, <1>5, <1>6, AfterInv
  <1>8. \A b \in group \ group' : KeyIn(b, job[s].local)
    BY <1>3, <1>4, KeyInMore
  <1> QED
    BY <1>4, <1>7, <1>8 DEF OwnOnly

LEMMA CallFailsInv ==
    ASSUME GroupInv, NEW s \in Svcs, CallFails(s)
    PROVE  GroupInv' /\ group' = group
  <1>1. Quiet /\ group' = group /\ faults' \in 0..MaxFaults /\ GroupOK(group')
    BY SizeAssumption DEF CallFails, GroupInv
  <1>2. CASE Finish(s, [NoJob EXCEPT !.err = TRUE])
    BY <1>1, <1>2, FinishInv
  <1>3. CASE /\ pc[s] \in BatchSteps
             /\ \E B \in Batches(job[s].todo) : After(s, B, [job[s] EXCEPT !.err = TRUE])
    <2> DEFINE j == [job[s] EXCEPT !.err = TRUE]
    <2>1. PICK B \in Batches(job[s].todo) : After(s, B, j)
      BY <1>3
    <2>2. JobOK(s, j) /\ j.todo = job[s].todo /\ j.todo \subseteq ListOf(j, pc[s])
      BY <1>3, ErrorJob
    <2> HIDE DEF j
    <2> QED
      BY <1>1, <1>3, <2>1, <2>2, AfterInv
  <1> QED
    BY <1>1, <1>2, <1>3 DEF CallFails

\* What the jobs and the steps need is untouched by the users.
LEMMA JobsUnchanged ==
    ASSUME GroupInv, UNCHANGED <<pc, job>>, GroupOK(group'), want' \in Wishes,
           mode' \in [Svcs -> Modes], queued' \subseteq Svcs,
           edits' \in 0..MaxEdits, faults' \in 0..MaxFaults
    PROVE  GroupInv'
  BY DEF GroupInv, JobOK, TodoOK, GroupOK, Unique, Of

LEMMA UserBackendType ==
    ASSUME NEW v \in UserBackends
    PROVE  UserBackend(v) \in Of(User)
  <1>1. v[1] \in Servers /\ v[2] \in Ports /\ (CHOOSE w \in Weights : TRUE) \in Weights
    BY SizeAssumption
  <1> QED
    BY <1>1 DEF UserBackend, Of, Backends, Owners

LEMMA UsersInv ==
    ASSUME GroupInv, Users
    PROVE  /\ GroupInv'
           /\ \A b \in group \ group' : b.owner = User /\ edits' # edits
  <1>1. edits' \in 0..MaxEdits /\ edits' # edits /\ faults' \in 0..MaxFaults
    BY SizeAssumption DEF Users, WantChanges, Leave, UserEdit, Edit, GroupInv
  <1>2. CASE \E s \in Svcs : WantChanges(s)
    <2>1. PICK s \in Svcs : WantChanges(s)
      BY <1>2
    <2>2. PICK w \in Wants[s] : want' = [want EXCEPT ![s] = w]
      BY <2>1 DEF WantChanges
    <2>3. want' \in Wishes
      <3>1. want \in [Svcs -> UNION {Wants[q] : q \in Svcs}] /\ \A q \in Svcs : want[q] \in Wants[q]
        BY DEF GroupInv, Wishes
      <3>2. w \in UNION {Wants[q] : q \in Svcs}
        BY <2>2
      <3>3. want' \in [Svcs -> UNION {Wants[q] : q \in Svcs}] /\ \A q \in Svcs : want'[q] \in Wants[q]
        BY <2>2, <3>1, <3>2
      <3> QED
        BY <3>3 DEF Wishes
    <2> QED
      BY <1>1, <2>1, <2>3, JobsUnchanged DEF WantChanges, GroupInv
  <1>3. CASE \E s \in Svcs : \E m \in LeaveModes : Leave(s, m)
    <2>1. PICK s \in Svcs, m \in LeaveModes : Leave(s, m)
      BY <1>3
    <2>2. m \in Modes
      BY SizeAssumption DEF Modes
    <2> QED
      BY <1>1, <2>1, <2>2, JobsUnchanged DEF Leave, GroupInv
  <1>4. CASE UserEdit
    <2>1. PICK v \in UserBackends :
            \/ UserBackend(v) \in group /\ group' = group \ {UserBackend(v)}
            \/ ~KeyIn(UserBackend(v), group) /\ group' = group \cup {UserBackend(v)}
      BY <1>4 DEF UserEdit
    <2>2. UserBackend(v) \in Of(User)
      BY UserBackendType
    <2>3. GroupOK(group')
      BY <2>1, <2>2 DEF GroupInv, GroupOK, Unique, KeyIn, SameKey, Of
    <2>4. \A b \in group \ group' : b.owner = User
      BY <2>1, <2>2 DEF Of
    <2>5. GroupInv'
      BY <1>1, <1>4, <2>3, JobsUnchanged DEF UserEdit, GroupInv
    <2> QED
      BY <1>1, <2>4, <2>5
  <1> QED
    BY <1>2, <1>3, <1>4 DEF Users

LEMMA RestartInv ==
    ASSUME GroupInv, Restart
    PROVE  GroupInv' /\ group' = group
  <1>1. /\ group' = group /\ queued' = Svcs /\ want' = want /\ mode' = mode /\ edits' = edits
        /\ faults' \in 0..MaxFaults
    BY SizeAssumption DEF Restart, Quiet, GroupInv
  <1>2. pc' \in [Svcs -> Steps] /\ job' \in [Svcs -> Jobs]
    BY StepFacts, NoJobType DEF Restart
  <1>3. \A s \in Svcs : JobOK(s, job'[s]) /\ TodoOK(pc'[s], job'[s])
    BY NoJobType DEF Restart, TodoOK, BatchSteps
  <1> QED
    BY <1>1, <1>2, <1>3 DEF GroupInv, GroupOK, JobOK, TodoOK, Unique, Of

-----------------------------------------------------------------------------
LEMMA InitGroupInv == Init => GroupInv
  <1> SUFFICES ASSUME Init PROVE GroupInv
    OBVIOUS
  <1>1. GroupOK(group)
    <2>1. \A v \in UserBackends : /\ UserBackend(v) \in Of(User)
                                /\ UserBackend(v).server = v[1] /\ UserBackend(v).port = v[2]
                                /\ v = <<v[1], v[2]>>
      BY UserBackendType, SizeAssumption DEF UserBackend
    <2>2. group \subseteq Of(User)
      BY <2>1 DEF Init
    <2>3. Unique(group)
      BY <2>1 DEF Init, Unique, SameKey
    <2> QED
      BY <2>2, <2>3 DEF GroupOK, Of
  <1>2. pc \in [Svcs -> Steps] /\ job \in [Svcs -> Jobs]
    BY StepFacts, NoJobType DEF Init
  <1>3. \A s \in Svcs : JobOK(s, job[s]) /\ TodoOK(pc[s], job[s])
    BY NoJobType DEF Init, TodoOK, BatchSteps
  <1> QED
    BY <1>1, <1>2, <1>3, SizeAssumption DEF Init, GroupInv, Modes

\* A step of the whole system: the invariant and who loses backends.
LEMMA NextGroupInv ==
    ASSUME GroupInv, [Next]_vars
    PROVE  /\ GroupInv'
           /\ \A b \in group \ group' :
                 \/ b.owner = User /\ edits' # edits
                 \/ \E s \in Svcs :
                      /\ Moves(s)
                      /\ IF KeyIn(b, group') THEN KeyIn(b, job[s].local)
                                             ELSE KeyIn(b, job[s].mine)
  <1>1. CASE Users
    BY <1>1, UsersInv
  <1>2. ASSUME NEW s \in Svcs, Work(s)
        PROVE  GroupInv' /\ OwnOnly(s)
    BY <1>2, StartInv, ReadInv, AddInv, RemoveInv, UpdateInv DEF Work
  <1>3. CASE \E s \in Svcs : Work(s)
    BY <1>2, <1>3 DEF OwnOnly
  <1>4. CASE \E s \in Svcs : CallFails(s)
    BY <1>4, CallFailsInv
  <1>5. CASE Restart
    BY <1>5, RestartInv
  <1>6. CASE UNCHANGED vars
    BY <1>6, JobsUnchanged DEF vars, GroupInv
  <1> QED
    BY <1>1, <1>3, <1>4, <1>5, <1>6 DEF Next

\* The inductive invariant of the shared group.
THEOREM GroupInvariant == Spec => []GroupInv
  <1>1. GroupInv /\ [Next]_vars => GroupInv'
    BY NextGroupInv
  <1> QED
    BY InitGroupInv, <1>1, PTL DEF Spec

\* Type correctness: whatever the services read and send at whatever time, the
\* group has one backend per server and port, and UpdateVServerGroup sends no
\* empty list.
THEOREM GroupTypeCorrect == Spec => []TypeOK
  <1>1. GroupInv => TypeOK
    BY DEF GroupInv, GroupOK, Unique, SameKey, TodoOK, TypeOK
  <1> QED
    BY <1>1, GroupInvariant, PTL

\* A service removes only what was its own when it read the group, and writes over
\* a backend only when it wants that server and port itself, whatever has happened to
\* the group since (diff, isBackendManagedByMyService).
THEOREM GroupOthersUntouched == Spec => OthersUntouched
  <1>1. GroupInv /\ [Next]_vars =>
          [\A b \in group \ group' :
             \/ b.owner = User /\ edits' # edits
             \/ \E s \in Svcs :
                  /\ <<pc[s], job[s]>> # <<pc'[s], job'[s]>>
                  /\ IF KeyIn(b, group') THEN KeyIn(b, job[s].local)
                                         ELSE KeyIn(b, job[s].mine)]_vars
    BY NextGroupInv DEF Moves
  <1> QED
    BY <1>1, GroupInvariant, PTL DEF Spec, OthersUntouched
=============================================================================
