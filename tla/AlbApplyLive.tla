---------------------------- MODULE AlbApplyLive ----------------------------
(***************************************************************************)
(* What applying an AlbConfig finally brings about, and the promise of     *)
(* OwnedResource it keeps.  Users and faults stop after as many steps as   *)
(* the bounds allow, or before; errors the code meets by itself go on.     *)
(***************************************************************************)
EXTENDS AlbApply

\* A worker of the controller goes on with its reconcile, or takes the next key; so
\* do the workers of syncQueue and syncServersQueue.  A fault is never due.
Fairness == /\ WF_vars(Step /\ NoFault) /\ WF_vars(SyncIngress /\ NoFault)
            /\ \A g \in Groups : WF_vars(SyncServers(g))

LiveSpec == Spec /\ Fairness

-----------------------------------------------------------------------------
\* The listeners and rules are the ones asked for, their groups exist and have servers
\* exactly if the service exists, no other group is left.  Only a group with a failure
\* or an event that was dropped may have the servers of an earlier time.
Served ==
    /\ ac.fin /\ ac.host /\ lb = "tagged"
    /\ ac.mode # "plain" =>
         /\ \A p \in Ports : lis[p] = IF p \in DOMAIN ing
                                      THEN [i \in Prios |-> RuleAt(ing, p, i)] ELSE NoLis
         /\ Listed = Wanted([Idle EXCEPT !.spec = ing])
         /\ \A g \in Listed \cap Groups : g \in swallowed \/ evts[g] = "lost" \/ (sg[g] = "full" <=> g \in svc)

\* The instance to be used is another's or is gone; or a listener is to be removed.
Blocked == \/ ac.mode = "taken"
           \/ ac.mode # "own" /\ lb = "none"
           \/ \E p \in Ports : lis[p] # NoLis /\ p \notin DOMAIN ing

\* Left alone at last, the controller finally serves what the AlbConfig and its ingresses ask
\* for, or has removed all it made for one that is deleted, unless it is blocked, or
\* syncIngress has failed to tell the AlbConfig of the last change.
AlbConverges ==
    <>[](IF ac.phase = "live" THEN Blocked \/ news = "lost" \/ Served ELSE ac.phase = "gone")

-----------------------------------------------------------------------------
Owned == {<<"group", r>> : r \in Listed}
         \cup (IF lb = "tagged" THEN {<<"lb", 1>>} ELSE {})

Promise == INSTANCE OwnedResource WITH
              Resources <- {<<"lb", 1>>} \cup ({"group"} \X Res),
              obj <- ac.phase, held <- ac.fin, owned <- Owned

\* The controller implements OwnedResource for all that carries its tags: nothing is
\* tagged without the finalizer, which goes only when nothing tagged is left.
KeepsPromise == Promise!OwnedSpec
=============================================================================
