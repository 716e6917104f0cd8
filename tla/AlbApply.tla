------------------------------ MODULE AlbApply ------------------------------
(***************************************************************************)
(* The ALB ingress controller applying one AlbConfig: Reconcile of         *)
(* pkg/controller/ingress/alb_controller.go, the stack its builder makes,  *)
(* the appliers of reconcile/applier, run in the order server groups,      *)
(* instance, listeners, rules and then, in reverse, the deletions they     *)
(* postponed, and the calls of pkg/provider/alibaba/alb.  One action per   *)
(* call that changes something; the goroutines of a step interleave.       *)
(*                                                                         *)
(* A server group is known by its resource id, the value of a tag that is  *)
(* put on it by a second call: a listener port names the (always empty)    *)
(* group of its default action, a member of Groups one service port of     *)
(* one ingress.  A group or an instance whose tag was never put can not be *)
(* found again: it is lost.                                                *)
(*                                                                         *)
(* Simplifications:                                                        *)
(*  - attributes, rule conditions, weights and certificates are left out:  *)
(*    an update may fail, or changes nothing a property looks at, except   *)
(*    the target of a rule;                                                *)
(*  - the servers of a group are there or not (AlbServers has them);       *)
(*  - batches are one call; reads that fail are failures of the call that  *)
(*    follows; an ALB accepts all that the code asks of it, except         *)
(*    the deletion of a group in use and that of an unknown id.            *)
(***************************************************************************)
EXTENDS Integers, Sequences, FiniteSets, Functions

CONSTANTS Ports,      \* listener ports
          Groups,     \* service ports of ingresses: resource ids of server groups
          Specs,      \* what ingresses may ask for
          Starts,     \* the AlbConfigs to begin with: a spec, a mode, applied before or not
          Prios,      \* rule priorities, 1 .. n
          MaxFaults,  \* bound: failing calls and restarts
          MaxEdits,   \* bound: changes of ingresses and services
          NoLis, NoRule

ModeKinds == {"own",     \* the controller makes an instance
              "force",   \* spec.config.id is set, and forceOverride
              "plain",   \* spec.config.id is set, without forceOverride
              "taken"}   \* as "force", but the instance is another AlbConfig's

ASSUME AlbAssumption ==
    /\ Ports \cap Groups = {} /\ Starts \subseteq Specs \X ModeKinds \X BOOLEAN
    /\ IsFiniteSet(Ports) /\ IsFiniteSet(Groups) /\ IsFiniteSet(Prios)
    /\ Prios = 1 .. Cardinality(Prios)
    /\ NoRule \notin Ports \cup Groups
    /\ NoLis \notin [Prios -> Groups \cup {NoRule}]
    /\ MaxFaults \in Nat /\ MaxEdits \in Nat
    /\ \A s \in Specs : /\ DOMAIN s \subseteq Ports /\ s \in [DOMAIN s -> Seq(Groups)]
                        /\ \A p \in DOMAIN s : Len(s[p]) \in {0} \cup Prios

Res == Ports \cup Groups

VARIABLES
    ac,        \* the AlbConfig: phase, fin (finalizer), ports (listeners), mode, host (status)
    ing,       \* what the ingresses ask for
    news,      \* the last event of an ingress: "none" (dealt with), "due", or "lost"
    queued,    \* the work queue holds the key of the AlbConfig
    svc,       \* the groups whose service exists
    evts,      \* for each group, the last event of the endpoints of its service
    lb,        \* the instance: "none", "bare" or "tagged"
    sg,        \* the server groups: "none", "bare", or tagged and "empty" or "full"
    lis,       \* the listeners of the instance: the targets of their rules
    lost,      \* how many instances (lb) and groups (sg) exist that nobody can find
    swallowed, \* groups with a failure that an apply neither undid nor reported
    faults, edits,
    pc, job    \* the reconcile in progress: see Idle

vars == <<ac, ing, news, queued, svc, evts, lb, sg, lis, lost, swallowed, faults, edits, pc, job>>

\* A reconcile takes the listeners from the AlbConfig and the rules from the ingresses.
Listen(ports, s) == [p \in ports |-> IF p \in DOMAIN s THEN s[p] ELSE <<>>]
Shapes == {Listen(DOMAIN t, s) : t \in Specs, s \in Specs}

\* del: the stack is empty, since the AlbConfig was read with a deletion
\* timestamp; late: only on the second read; gor: the goroutines of the step; err:
\* the error they share; matched, doomed: matchedResAndSDKSGPs, unmatchedSDKSGPs.
Idle == [spec |-> CHOOSE s \in Shapes : TRUE, del |-> FALSE, gor |-> [r \in Res |-> "none"],
         err |-> FALSE, matched |-> {}, doomed |-> {}, late |-> FALSE]

\* A default group for each listener, and one for each service of a rule.
Wanted(j) == IF j.del THEN {}
             ELSE DOMAIN j.spec \cup UNION {Range(j.spec[p]) : p \in DOMAIN j.spec}
Listed == {r \in Res : sg[r] \in {"empty", "full"}}   \* found by the stack's tags
Named(g) == \E p \in DOMAIN ing : g \in Range(ing[p])
InUse(r) == \E p \in Ports : lis[p] # NoLis /\ (r = p \/ \E i \in Prios : lis[p][i] = r)

\* Mutant: a priority without a rule gets the group of the default action.
RuleAtDefault(s, p, i) == IF p \in DOMAIN s /\ i <= Len(s[p]) THEN s[p][i] ELSE p

RuleAt(s, p, i) == IF p \in DOMAIN s /\ i <= Len(s[p]) THEN s[p][i] ELSE NoRule

Init ==
    /\ \E start \in Starts :
          LET old == start[3] IN
          /\ ac = [phase |-> "live", fin |-> old, ports |-> DOMAIN start[1], mode |-> start[2],
                   host |-> old]
          /\ ing = start[1]
          /\ lb = IF old THEN "tagged" ELSE IF start[2] = "own" THEN "none" ELSE "bare"
          /\ sg = [r \in Res |-> IF old /\ r \in Wanted([Idle EXCEPT !.spec = start[1]])
                                 THEN (IF r \in Ports THEN "empty" ELSE "full") ELSE "none"]
          /\ lis = [p \in Ports |-> IF old /\ p \in DOMAIN start[1]
                                    THEN [i \in Prios |-> RuleAt(start[1], p, i)] ELSE NoLis]
    /\ queued = TRUE /\ news = "none" /\ svc = Groups /\ evts = [g \in Groups |-> "none"]
    /\ lost = [lb |-> 0, sg |-> 0] /\ swallowed = {} /\ faults = 0 /\ edits = 0
    /\ pc = "idle" /\ job = Idle

-----------------------------------------------------------------------------
(* Users.  A change of an ingress is told to syncIngress.                   *)
Edit == /\ ac.phase = "live" /\ edits < MaxEdits /\ edits' = edits + 1
        /\ ing' \in Specs \ {ing} /\ news' = "due"
        /\ UNCHANGED <<ac, queued, svc, evts, lb, sg, lis, lost, swallowed, faults, pc, job>>

DeleteAlbConfig ==
    /\ ac.phase = "live"
    /\ ac' = [ac EXCEPT !.phase = IF ac.fin THEN "deleting" ELSE "gone"]
    /\ queued' = (queued \/ ac.fin)
    /\ UNCHANGED <<ing, news, svc, evts, lb, sg, lis, lost, swallowed, faults, edits, pc, job>>

\* A service that comes or goes is told to syncIngress, unless its ingresses name their
\* class in their spec.  The event of its endpoints is dropped if the informer of
\* services does not have it yet, or no more.  A service no ingress names does not matter.
ToggleService(g) ==
    /\ edits < MaxEdits /\ edits' = edits + 1
    /\ Named(g)
    /\ svc' = IF g \in svc THEN svc \ {g} ELSE svc \cup {g}
    /\ \/ evts' = [evts EXCEPT ![g] = "due"]
       \/ evts[g] # "due" /\ evts' = [evts EXCEPT ![g] = "lost"]
    /\ news' \in {"due", news}
    /\ UNCHANGED <<ac, ing, queued, lb, sg, lis, lost, swallowed, faults, pc, job>>

-----------------------------------------------------------------------------
(* syncIngress and the end of a reconcile.                                  *)
\* An error puts the key back.
Return(err) == /\ pc' = "idle" /\ job' = Idle
               /\ queued' = (queued \/ err)

Fault == faults < MaxFaults /\ faults' = faults + 1
NoFault == UNCHANGED faults
Cloud == <<lb, sg, lis, lost, swallowed>>
World == <<ac, ing, news, svc, evts, edits>>
Goto(step, j) == pc' = step /\ job' = j /\ UNCHANGED queued

\* The listeners of the AlbConfig follow the ingresses and its key is queued.  An error,
\* a conflict included, is only logged, and the event is lost.  (An AlbConfig that is
\* gone would be made again, which is left out.)
SyncIngress ==
    /\ news = "due" /\ ac.phase # "gone"
    /\ \/ /\ NoFault /\ news' = "none" /\ queued' = TRUE
          /\ ac' = [ac EXCEPT !.ports = DOMAIN ing]
       \/ Fault /\ news' = "lost" /\ UNCHANGED <<ac, queued>>
    /\ UNCHANGED <<ing, svc, evts, edits, pc, job, Cloud>>

\* A call fails and nothing else happens.
Fails == Fault /\ Return(TRUE) /\ UNCHANGED Cloud

Begin == /\ pc = "idle" /\ queued
         /\ queued' = FALSE
         /\ CASE ac.phase = "gone"     -> UNCHANGED <<pc, job>>
              [] ac.phase = "deleting" -> pc' = "groups" /\ job' = [Idle EXCEPT !.del = TRUE]
              [] ac.phase = "live"     -> pc' = "fin" /\ job' = Idle
         /\ NoFault /\ UNCHANGED <<World, Cloud>>

\* AddFinalizers reads the AlbConfig again: from here on the reconcile works with
\* what it finds now, a deletion timestamp included.
AddFinalizer ==
    /\ pc = "fin"
    /\ \/ /\ ac.phase # "gone" /\ NoFault
          /\ ac' = [ac EXCEPT !.fin = TRUE]
          /\ Goto("groups", [Idle EXCEPT !.spec = Listen(ac.ports, ing),
                                         !.del = (ac.phase = "deleting"),
                                         !.late = (ac.phase = "deleting")])
          /\ UNCHANGED Cloud
       \/ ac.phase = "gone" /\ NoFault /\ Return(TRUE) /\ UNCHANGED <<ac, Cloud>>
       \/ Fails /\ UNCHANGED ac
    /\ UNCHANGED <<ing, news, svc, evts, edits>>

-----------------------------------------------------------------------------
(* Server groups: a goroutine for each that is missing.                     *)
Plain == ac.mode = "plain" /\ ~job.del

ListGroups ==
    /\ pc = "groups"
    /\ \/ Plain /\ NoFault /\ Goto("lb", job) /\ UNCHANGED Cloud
       \/ /\ ~Plain /\ NoFault
          /\ Goto("create",
                  [job EXCEPT !.doomed = Listed \ Wanted(job),
                              !.matched = Listed \cap Wanted(job),
                              !.gor = [r \in Res |-> IF r \in Wanted(job) \ Listed
                                                     THEN "new" ELSE "none"]])
          /\ UNCHANGED Cloud
       \/ ~Plain /\ Fails
    /\ UNCHANGED World

Goroutine(r, state) == Goto(pc, [job EXCEPT !.gor[r] = state])
\* The first error is kept; all others are dropped.
Reports(r) == Goto(pc, [job EXCEPT !.gor[r] = "none", !.err = TRUE])

CreateGroup(r) ==
    /\ pc = "create" /\ job.gor[r] = "new"
    /\ \/ /\ NoFault /\ sg' = [sg EXCEPT ![r] = "bare"] /\ Goroutine(r, "tag")
          /\ UNCHANGED <<lb, lis, lost, swallowed>>
       \/ Fault /\ Reports(r) /\ UNCHANGED Cloud
    /\ UNCHANGED World

\* The group of a default action is ready now.
TagGroup(r) ==
    /\ pc = "create" /\ job.gor[r] = "tag"
    /\ \/ /\ NoFault /\ sg' = [sg EXCEPT ![r] = "empty"]
          /\ Goroutine(r, IF r \in Ports THEN "none" ELSE "add")
          /\ UNCHANGED <<lb, lis, lost, swallowed>>
       \/ Fault /\ Goroutine(r, "undo") /\ UNCHANGED Cloud
    /\ UNCHANGED World

\* Mutant: a group without its servers is kept when they can not be added.
AddServersKeeps(r) ==
    /\ pc = "create" /\ job.gor[r] = "add"
    /\ \/ /\ NoFault /\ Goroutine(r, "none")
          /\ sg' = [sg EXCEPT ![r] = IF r \in svc THEN "full" ELSE "empty"]
          /\ UNCHANGED <<lb, lis, lost, swallowed>>
       \/ r \in svc /\ Fault /\ Reports(r) /\ UNCHANGED Cloud
    /\ UNCHANGED World

\* After a failure the group is deleted again, unless another goroutine has
\* failed: then it stays as it is.
AddServers(r) ==
    /\ pc = "create" /\ job.gor[r] = "add"
    /\ \/ /\ NoFault /\ Goroutine(r, "none")
          /\ sg' = [sg EXCEPT ![r] = IF r \in svc THEN "full" ELSE "empty"]
          /\ UNCHANGED <<lb, lis, lost, swallowed>>
       \/ /\ r \in svc /\ Fault
          /\ Goroutine(r, IF job.err THEN "none" ELSE "undo")
          /\ swallowed' = IF job.err THEN swallowed \cup {r} ELSE swallowed
          /\ UNCHANGED <<lb, sg, lis, lost>>
    /\ UNCHANGED World

\* The deletion that undoes a creation; its failure is only logged.
UndoGroup(r) ==
    /\ pc = "create" /\ job.gor[r] = "undo" /\ Reports(r)
    /\ \/ /\ NoFault /\ sg' = [sg EXCEPT ![r] = "none"]
          /\ swallowed' = swallowed \ {r} /\ UNCHANGED <<lb, lis, lost>>
       \/ /\ Fault /\ sg[r] = "bare"
          /\ sg' = [sg EXCEPT ![r] = "none"] /\ lost' = [lost EXCEPT !.sg = @ + 1]
          /\ UNCHANGED <<lb, lis, swallowed>>
       \/ /\ Fault /\ sg[r] # "bare"
          /\ swallowed' = swallowed \cup {r} /\ UNCHANGED <<lb, sg, lis, lost>>
    /\ UNCHANGED World

Settled(step) == pc = step /\ \A r \in Res : job.gor[r] = "none"

GroupsCreated ==
    /\ Settled("create") /\ NoFault
    /\ IF job.err THEN Return(TRUE)
       ELSE Goto("update", [job EXCEPT !.gor = [r \in Res |-> IF r \in job.matched
                                                              THEN "new" ELSE "none"]])
    /\ UNCHANGED <<World, Cloud>>

\* UpdateALBServerGroup, then the servers of a service that is gone are removed; a
\* failure of that is stored in the variable of the creations, which nobody reads.
UpdateGroup(r) ==
    /\ pc = "update" /\ job.gor[r] = "new"
    /\ \/ NoFault /\ Goroutine(r, "none")
          /\ sg' = [sg EXCEPT ![r] = IF r \in svc \cup Ports THEN sg[r] ELSE "empty"]
          /\ UNCHANGED <<lb, lis, lost, swallowed>>
       \/ /\ r \notin svc \cup Ports /\ Fault /\ Goroutine(r, "none")
          /\ swallowed' = swallowed \cup {r} /\ UNCHANGED <<lb, sg, lis, lost>>
       \/ Fault /\ Reports(r) /\ UNCHANGED Cloud
    /\ UNCHANGED World

GroupsUpdated ==
    /\ Settled("update") /\ NoFault
    /\ IF job.err THEN Return(TRUE) ELSE Goto("lb", job)
    /\ UNCHANGED <<World, Cloud>>

-----------------------------------------------------------------------------
(* The instance, found by the tags of the stack.                            *)
DeleteAlb ==
    /\ pc = "lb" /\ job.del
    /\ \/ /\ NoFault /\ Goto("post", job)
          /\ lb' = IF lb = "tagged" THEN "none" ELSE lb
          /\ lis' = IF lb = "tagged" THEN [p \in Ports |-> NoLis] ELSE lis
          /\ UNCHANGED <<sg, lost, swallowed>>
       \/ Fails
    /\ UNCHANGED World

AfterLb == IF ac.mode = "plain" THEN "status" ELSE "listeners"

UpdateAlb ==
    /\ pc = "lb" /\ ~job.del /\ lb = "tagged"
    /\ \/ NoFault /\ Goto(AfterLb, job) /\ UNCHANGED Cloud
       \/ ac.mode # "plain" /\ Fails
    /\ UNCHANGED World

\* The tags of another AlbConfig, or the absence of the instance, end in an error.
ReuseAlb ==
    /\ pc = "lb" /\ ~job.del /\ lb # "tagged" /\ ac.mode # "own"
    /\ \/ /\ ac.mode # "taken" /\ lb = "bare" /\ NoFault /\ Goto(AfterLb, job)
          /\ lb' = "tagged" /\ UNCHANGED <<sg, lis, lost, swallowed>>
       \/ (ac.mode = "taken" \/ lb = "none") /\ NoFault /\ Return(TRUE) /\ UNCHANGED Cloud
       \/ Fails
    /\ UNCHANGED World

CreateAlb ==
    /\ pc = "lb" /\ ~job.del /\ lb = "none" /\ ac.mode = "own"
    /\ \/ /\ NoFault /\ Goto("wait", job)
          /\ lb' = "bare" /\ UNCHANGED <<sg, lis, lost, swallowed>>
       \/ Fails
    /\ UNCHANGED World

Forget == lb' = "none" /\ lost' = [lost EXCEPT !.lb = @ + 1] /\ UNCHANGED <<sg, lis, swallowed>>

\* Polls until the instance is active.
WaitActive ==
    /\ pc = "wait"
    /\ \/ NoFault /\ Goto("tag", job) /\ UNCHANGED Cloud
       \/ Fault /\ Return(TRUE) /\ Forget
    /\ UNCHANGED World

\* Then the access log is attached, which may fail as well.
TagAlb ==
    /\ pc = "tag"
    /\ \/ /\ NoFault /\ Goto("listeners", job)
          /\ lb' = "tagged" /\ UNCHANGED <<sg, lis, lost, swallowed>>
       \/ /\ Fault /\ Return(TRUE)
          /\ lb' = "tagged" /\ UNCHANGED <<sg, lis, lost, swallowed>>
       \/ Fault /\ Goto("untag", job) /\ UNCHANGED Cloud
    /\ UNCHANGED World

UndoAlb ==
    /\ pc = "untag" /\ Return(TRUE)
    /\ \/ NoFault /\ lb' = "none" /\ UNCHANGED <<sg, lis, lost, swallowed>>
       \/ Fault /\ Forget
    /\ UNCHANGED World

-----------------------------------------------------------------------------
(* Listeners, matched by their port.  One that is not wanted is handed to   *)
(* DeleteALB, which looks for an instance with the listener's id and fails. *)
Stale == {p \in Ports : lis[p] # NoLis /\ p \notin DOMAIN job.spec}

ListListeners ==
    /\ pc = "listeners"
    /\ \/ Stale # {} /\ NoFault /\ Return(TRUE)
       \/ /\ Stale = {} /\ NoFault
          /\ Goto("open", [job EXCEPT !.gor =
                     [r \in Res |-> IF r \in DOMAIN job.spec
                                    THEN (IF lis[r] = NoLis THEN "new" ELSE "old") ELSE "none"]])
       \/ Fault /\ Return(TRUE)
    /\ UNCHANGED <<World, Cloud>>

\* A failure may come after the listener is there.
CreateListener(p) ==
    /\ pc = "open" /\ job.gor[p] = "new"
    /\ \/ NoFault /\ Goroutine(p, "none") /\ lis' = [lis EXCEPT ![p] = [i \in Prios |-> NoRule]]
       \/ Fault /\ Reports(p) /\ lis' \in {lis, [lis EXCEPT ![p] = [i \in Prios |-> NoRule]]}
    /\ UNCHANGED <<World, lb, sg, lost, swallowed>>

\* Updates start when all creations are done, and without an error.
UpdateListener(p) ==
    /\ pc = "open" /\ job.gor[p] = "old" /\ ~job.err
    /\ \A q \in Ports : job.gor[q] # "new"
    /\ \/ NoFault /\ Goroutine(p, "none")
       \/ Fault /\ Reports(p)
    /\ UNCHANGED <<World, Cloud>>

ListenersDone ==
    /\ pc = "open" /\ NoFault
    /\ \/ /\ Settled("open") /\ ~job.err
          /\ Goto("rules", [job EXCEPT !.gor = [r \in Res |-> IF r \in DOMAIN job.spec
                                                              THEN "delete" ELSE "none"]])
       \/ job.err /\ (\A q \in Ports : job.gor[q] # "new") /\ Return(TRUE)
    /\ UNCHANGED <<World, Cloud>>

-----------------------------------------------------------------------------
(* Rules, matched by their priority, in a goroutine for each listener: the  *)
(* ones that are not wanted go, the missing are made, the others updated.   *)
RuleCall(p, step, after, rules) ==
    /\ pc = "rules" /\ job.gor[p] = step
    /\ \/ /\ NoFault /\ Goroutine(p, after)
          /\ lis' = [lis EXCEPT ![p] = rules]
       \/ lis[p] # rules /\ Fault /\ Reports(p) /\ UNCHANGED lis
    /\ UNCHANGED <<World, lb, sg, lost, swallowed>>

\* Mutant: rules that are not wanted any more are left alone.
DeleteRulesNone(p) == RuleCall(p, "delete", "create", lis[p])

DeleteRules(p) == RuleCall(p, "delete", "create",
    [i \in Prios |-> IF RuleAt(job.spec, p, i) = NoRule THEN NoRule ELSE lis[p][i]])

CreateRules(p) == RuleCall(p, "create", "update",
    [i \in Prios |-> IF lis[p][i] = NoRule THEN RuleAt(job.spec, p, i) ELSE lis[p][i]])

\* Mutant: rules that were there before are taken to be right.
UpdateRulesNone(p) == RuleCall(p, "update", "none", lis[p])

UpdateRules(p) == RuleCall(p, "update", "none",
    [i \in Prios |-> IF lis[p][i] # NoRule /\ RuleAt(job.spec, p, i) # NoRule
                     THEN RuleAt(job.spec, p, i) ELSE lis[p][i]])

RulesDone ==
    /\ Settled("rules") /\ NoFault
    /\ IF job.err THEN Return(TRUE) ELSE Goto("post", job)
    /\ UNCHANGED <<World, Cloud>>

-----------------------------------------------------------------------------
(* PostApply: the groups that were not wanted when they were listed.  A     *)
(* group in use is tried again until a time limit, which is an error.       *)
PostGroup(r) ==
    /\ pc = "post" /\ r \in job.doomed
    /\ \/ /\ ~InUse(r) /\ NoFault
          /\ Goto("post", [job EXCEPT !.doomed = @ \ {r}])
          /\ sg' = [sg EXCEPT ![r] = "none"] /\ swallowed' = swallowed \ {r}
          /\ UNCHANGED <<lb, lis, lost>>
       \/ /\ (IF InUse(r) THEN NoFault ELSE Fault)
          /\ Goto("post", [job EXCEPT !.doomed = @ \ {r}, !.err = TRUE])
          /\ UNCHANGED Cloud
    /\ UNCHANGED World

\* Mutant: a failing deletion does not count.
PostDoneAnyway ==
    /\ pc = "post" /\ job.doomed = {} /\ NoFault
    /\ Goto("status", job)
    /\ UNCHANGED <<World, Cloud>>

PostDone ==
    /\ pc = "post" /\ job.doomed = {} /\ NoFault
    /\ IF job.err THEN Return(TRUE) ELSE Goto("status", job)
    /\ UNCHANGED <<World, Cloud>>

\* What was read as deleted has lost all it owned; the finalizer follows, and the
\* AlbConfig with it.
RemoveFinalizer ==
    /\ pc = "status" /\ job.del /\ ~job.late
    /\ \/ /\ NoFault /\ Return(FALSE)
          /\ ac' = [ac EXCEPT !.fin = FALSE, !.phase = "gone"]
       \/ Fault /\ Return(TRUE) /\ UNCHANGED ac
    /\ UNCHANGED <<ing, news, svc, evts, edits, Cloud>>

UpdateStatus ==
    /\ pc = "status" /\ ~job.del
    /\ \/ /\ NoFault /\ Return(FALSE)
          /\ ac' = [ac EXCEPT !.host = TRUE]
       \/ ~ac.host /\ Fault /\ Return(TRUE) /\ UNCHANGED ac
    /\ UNCHANGED <<ing, news, svc, evts, edits, Cloud>>

-----------------------------------------------------------------------------
(* syncServers brings the servers of the groups of a service up to date, if  *)
(* an ingress names it.                                                     *)
SyncServers(g) ==
    /\ evts[g] = "due"
    /\ \/ Named(g) /\ swallowed' = swallowed \ {g} /\ evts' = [evts EXCEPT ![g] = "none"]
          /\ sg' = [sg EXCEPT ![g] = IF g \in Listed
                                     THEN (IF g \in svc THEN "full" ELSE "empty") ELSE @]
       \/ ~Named(g) /\ evts' = [evts EXCEPT ![g] = "lost"] /\ UNCHANGED <<sg, swallowed>>
    /\ UNCHANGED <<ac, ing, news, queued, svc, lb, lis, lost, faults, edits, pc, job>>

\* The process stops; what was made and not tagged is lost.  When it is back everything
\* is listed again, but an event of endpoints that comes before the service, or is
\* overwritten in the channel of 1024 events, is dropped; and nothing is done with one
\* if no ingress names the service.
Making == pc \in {"wait", "tag", "untag"}
Restart ==
    /\ pc' = "idle" /\ job' = Idle
    /\ queued' = (ac.phase # "gone")
    /\ news' = "due"
    /\ evts' \in [Groups -> {"none", "due", "lost"}]
    /\ \A g \in Groups : evts'[g] = "none" <=> g \notin svc /\ evts[g] = "none"
    /\ \A g \in Groups : evts'[g] = "due" => g \in svc /\ Named(g)
    /\ lost' = [lb |-> lost.lb + (IF Making THEN 1 ELSE 0),
                sg |-> lost.sg + Cardinality({r \in Res : sg[r] = "bare"})]
    /\ lb' = IF Making THEN "none" ELSE lb
    /\ sg' = [r \in Res |-> IF sg[r] = "bare" THEN "none" ELSE sg[r]]
    /\ UNCHANGED <<ac, ing, svc, lis, swallowed, edits>>

Crash == Fault /\ Restart

\* A deletion that only the second read saw gives no instance, whose status is
\* read all the same: the process panics.
Panic == pc = "status" /\ job.late /\ NoFault /\ Restart

-----------------------------------------------------------------------------
Users == Edit \/ DeleteAlbConfig \/ \E g \in Groups : ToggleService(g)

Step ==
    \/ Begin \/ AddFinalizer \/ ListGroups \/ GroupsCreated \/ GroupsUpdated
    \/ \E r \in Res : \/ CreateGroup(r) \/ TagGroup(r) \/ AddServers(r) \/ UndoGroup(r)
                      \/ UpdateGroup(r) \/ PostGroup(r)
    \/ DeleteAlb \/ UpdateAlb \/ ReuseAlb \/ CreateAlb \/ WaitActive \/ TagAlb \/ UndoAlb
    \/ ListListeners \/ ListenersDone \/ RulesDone
    \/ \E p \in Ports : \/ CreateListener(p) \/ UpdateListener(p)
                        \/ DeleteRules(p) \/ CreateRules(p) \/ UpdateRules(p)
    \/ PostDone \/ RemoveFinalizer \/ UpdateStatus \/ Panic
    \/ SyncIngress \/ \E g \in Groups : SyncServers(g)

Next == Users \/ Step \/ Crash

Spec == Init /\ [][Next]_vars

-----------------------------------------------------------------------------
AlbConfigs == [phase : {"live", "deleting", "gone"}, fin : BOOLEAN,
               ports : {DOMAIN s : s \in Specs}, mode : ModeKinds, host : BOOLEAN]
Jobs == [spec : Shapes, del : BOOLEAN, late : BOOLEAN, err : BOOLEAN,
         gor : [Res -> {"none", "new", "tag", "add", "undo", "old",
                        "delete", "create", "update"}],
         matched : SUBSET Res, doomed : SUBSET Res]
Rules == [Prios -> Groups \cup {NoRule}]

\* Types; a group or an instance is untagged only in the hands of the step that made
\* it, or as the user's instance; and nothing gets lost without a failing call.
TypeOK ==
    /\ ac \in AlbConfigs /\ ing \in Specs
    /\ queued \in BOOLEAN /\ news \in {"none", "due", "lost"}
    /\ svc \subseteq Groups /\ evts \in [Groups -> {"none", "due", "lost"}]
    /\ lb \in {"none", "bare", "tagged"}
    /\ sg \in [Res -> {"none", "bare", "empty", "full"}]
    /\ lis \in [Ports -> {NoLis} \cup Rules]
    /\ lost \in [lb : Nat, sg : Nat] /\ (lost.lb + lost.sg > 0 => faults > 0)
    /\ swallowed \subseteq Groups
    /\ faults \in 0 .. MaxFaults /\ edits \in 0 .. MaxEdits
    /\ pc \in {"idle", "fin", "groups", "create", "update", "lb", "wait", "tag", "untag",
               "listeners", "open", "rules", "post", "status"}
    /\ job \in Jobs
    /\ lb = "bare" => (IF ac.mode = "own" THEN Making ELSE ~Making)
    /\ \A r \in Res : sg[r] = "bare" => pc = "create" /\ job.gor[r] \in {"tag", "undo"}

\* The groups that PostApply deletes were listed before the listeners and rules were
\* applied; when their turn comes no listener and no rule forwards to one of them.
DoomedUnused == pc = "post" => \A r \in job.doomed : ~InUse(r)

\* A rule forwards to a group that has servers, if its service exists; or a worker
\* is about to add them (syncServersQueue), or the last event of the endpoints was
\* dropped, or a failure was (AddServers, UndoGroup).
FilledBeforeUse ==
    \A p \in Ports, i \in Prios :
        (lis[p] # NoLis /\ lis[p][i] \in svc)
            => LET r == lis[p][i]
               IN  sg[r] = "full" \/ r \in swallowed \/ evts[r] # "none"
=============================================================================
