--------------------------- MODULE NlbServiceLive ---------------------------
(***************************************************************************)
(* What the NLB service controller finally brings about, and the promise   *)
(* of OwnedResource it keeps.  The users and the faults may stop for good  *)
(* at any moment (calm); errors that the code meets by itself go on.       *)
(***************************************************************************)
EXTENDS NlbService

VARIABLES
    calm,   \* the users and the faults have stopped
    lost    \* "key" or "event": what the controller lost since a reconcile last read
            \* the service; a history variable: no step depends on it

liveVars == <<vars, calm, lost>>

History == lost' = IF Begin THEN "nothing"
                   ELSE IF ReadFails THEN "key"
                   ELSE IF ScaleLost /\ lost = "nothing" THEN "event"
                   ELSE lost

Rest == ~calm /\ calm' = TRUE /\ UNCHANGED <<vars, lost>>

LiveNext == \/ (Users \/ Fault) /\ ~calm /\ UNCHANGED calm /\ History
            \/ (Step \/ JobDone) /\ UNCHANGED calm /\ History
            \/ Rest

\* A worker takes the next step of its reconcile or the next key of the queue;
\* jobs of the cloud end.
Fairness == /\ WF_liveVars(Step /\ UNCHANGED calm /\ History)
            /\ WF_liveVars(JobDone /\ UNCHANGED calm /\ History)

LiveInit == Init /\ calm = FALSE /\ lost = "nothing"

LiveSpec == LiveInit /\ [][LiveNext]_liveVars /\ Fairness

-----------------------------------------------------------------------------
Instance == IF svc.spec.user THEN UserLb ELSE svc.host

\* Each port is served by a listener of the instance that forwards to the one
\* group of the port, of the right type, with exactly the present servers, or
\* earlier ones when the event of the present ones was lost.
Serving ==
    /\ Instance # NoLb /\ Found(Instance) /\ ~lbs[Instance].deleting
    /\ svc.fin /\ svc.label = svc.spec /\ svc.host = Instance
    /\ lbs[Instance].attr = svc.spec.attr
    /\ \A p \in Ports :
          IF p \in DOMAIN svc.spec.ports
          THEN \E g \in GroupIds :
                  /\ sgs[g] # NoGroup
                  /\ sgs[g].port = p /\ sgs[g].kind = svc.spec.ports[p]
                  /\ \E e \in 1 .. eps : /\ e = eps \/ lost = "event"
                                        /\ sgs[g].servers \ {UserServer} = Scales[e]
                  /\ (svc.spec.user => svc.spec.override) => lbs[Instance].lis[p] = g
          ELSE lbs[Instance].lis[p] \notin GroupIds

\* Clean: the finalizer is gone, and with it all that NoOrphanNlb speaks of.
Clean == ~svc.fin

\* What keeps the controller from getting there: the user's instance is gone; its
\* listeners were the service's before force-override was taken away, and nobody
\* moves them now; the instance went while the service was of another type, which
\* it no longer is, and the status still names it: no other is made (CreateNLB); no
\* server group can be made; or a group the user shares has the name of another of
\* the service, and is taken for it.
Blocked ==
    \/ svc.spec.user /\ ~Found(UserLb)
    \/ /\ svc.spec.user /\ ~svc.spec.override
       /\ \E p \in Ports : lbs[UserLb].lis[p] \in GroupIds
    \/ ~svc.spec.user /\ svc.host # NoLb /\ ~Found(svc.host)
    \/ \A g \in GroupIds : sgs[g] # NoGroup
    \/ \E g, h \in GroupIds : /\ g # h
                              /\ sgs[g] # NoGroup /\ sgs[h] # NoGroup
                              /\ sgs[g].tag /\ sgs[h].tag
                              /\ sgs[g].port = sgs[h].port
                              /\ UserServer \in sgs[g].servers

\* Left alone, the controller finally serves the present version of a service that
\* needs an NLB and has cleaned up after one that does not, or is blocked.  After a
\* read that failed it waits for the next event: the key is out of the queue.
NlbConverges ==
    [](calm => <>[](lost = "key" \/ Blocked \/ (IF svc.phase = "live" /\ NeedNLB(svc)
                                                THEN Serving ELSE Clean)))

-----------------------------------------------------------------------------
Owned == {<<"lb", i>> : i \in OwnLbs}
         \cup {<<"group", g>> : g \in IF Found(UserLb) THEN OwnGroups ELSE {}}

Promise == INSTANCE OwnedResource WITH
              Resources <- ({"lb"} \X LbIds) \cup ({"group"} \X GroupIds),
              obj <- svc.phase, held <- svc.fin, owned <- Owned

\* The controller implements OwnedResource: it makes instances and groups only
\* under the finalizer, and lets go of it only when none is left.
KeepsPromise == Promise!OwnedSpec
=============================================================================
