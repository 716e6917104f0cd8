--------------------------- MODULE ClbServiceLive ---------------------------
(***************************************************************************)
(* What the CLB service controller finally brings about, and the promise   *)
(* of OwnedResource it keeps for a plain service.  The user and the        *)
(* faults of ClbService may stop for good at any moment (calm); from then  *)
(* on only the watch and the workers run.  Errors the code returns itself  *)
(* are steps of the workers and go on: a reconcile that fails for ever     *)
(* would refute these properties.                                          *)
(***************************************************************************)
EXTENDS ClbService

VARIABLES calm,    \* the user and the faults have stopped
          missed   \* a backend event was lost since backends were last built; a
                   \* history variable: no step depends on it

liveVars == <<vars, calm, missed>>

Rest == ~calm /\ calm' = TRUE /\ UNCHANGED <<vars, missed>>

\* BuildAndFind reads the backends anew.
History == missed' = IF BackendEventLost THEN TRUE ELSE missed /\ ~BuildAndFind

Work == (WatchEvent \/ ReconcileStep) /\ UNCHANGED calm /\ History

LiveNext == \/ (User \/ Fault) /\ ~calm /\ UNCHANGED calm /\ History
            \/ Work
            \/ Rest

\* The watch delivers what it has, and a worker takes the next step of its
\* reconcile or the next key of the queue.
Fairness == WF_liveVars(WatchEvent /\ UNCHANGED calm /\ History)
            /\ WF_liveVars(ReconcileStep /\ UNCHANGED calm /\ History)

LiveInit == Init /\ calm = FALSE /\ missed = FALSE

LiveSpec == LiveInit /\ [][LiveNext]_liveVars /\ Fairness

\* A deleted service finally leaves the API server, whatever state the faults left
\* it in: no event filter, label or early return keeps its finalizer.
DeletionCompletes == [](calm /\ api # Gone /\ api.deleting => <>(api = Gone))

\* The instance of a service that stays finally has exactly the vserver groups of
\* its ports with the latest backends, even when the hash label says that the
\* service has not changed, and its address is published.  If the handler of a
\* backend event could not read the service and no reconcile came after it, the
\* backends may be older ones, nothing else.
Serving ==
    \E i \in Lbs, e \in Endpoints :
        /\ lbs[i] # NoLb
        /\ lbs[i].vg = {<<api.spec.cfg, e>>}
        /\ e = eps \/ missed
        /\ api.status = i

BackendsConverge ==
    [](calm => <>[](api = Gone \/ api.deleting \/ Serving))

-----------------------------------------------------------------------------
Phase == IF api = Gone THEN "gone" ELSE IF api.deleting THEN "deleting" ELSE "live"

Promise == INSTANCE OwnedResource WITH
              Resources <- LbIds, obj <- Phase, held <- HasFinalizer(api), owned <- Live

\* The controller implements OwnedResource for a plain service: an instance is made,
\* or taken back, only under the finalizer, the finalizer is added only to a service
\* that is not being deleted, and it is let go only when every instance is deleted or
\* handed over (AddFinalizers before Apply, RemoveFinalizers after it).
KeepsPromise == Promise!OwnedSpec
=============================================================================
