--------------------------- MODULE OwnedResource ---------------------------
(***************************************************************************)
(* What a controller with a finalizer promises for one Kubernetes object:  *)
(* whatever it makes in the cloud for the object is made while it holds    *)
(* the finalizer, the finalizer is let go only when nothing is left, and   *)
(* the object cannot go before that.  Controllers that keep cloud          *)
(* resources for an object are shown to implement it.                      *)
(***************************************************************************)
EXTENDS FiniteSets

CONSTANT Resources   \* names of the resources that may be made

VARIABLES obj,     \* "live", "deleting" (has a deletion timestamp) or "gone"
          held,    \* the object carries the controller's finalizer
          owned    \* the resources made for the object that still exist

ownedVars == <<obj, held, owned>>

\* A new object, or one that an earlier run of the controller has worked for.
OwnedInit == /\ obj = "live" /\ held \in BOOLEAN
             /\ owned \subseteq Resources /\ (owned # {} => held)

\* Nothing is taken on for an object that is being deleted.
Hold == obj = "live" /\ held' = TRUE /\ UNCHANGED <<obj, owned>>

Make == /\ held
        /\ \E r \in Resources \ owned : owned' = owned \cup {r}
        /\ UNCHANGED <<obj, held>>

\* Deleted, or handed over to the user.
Free == /\ held
        /\ \E gone \in (SUBSET owned) \ {{}} : owned' = owned \ gone
        /\ UNCHANGED <<obj, held>>

Delete == obj = "live" /\ obj' = (IF held THEN "deleting" ELSE "gone")
          /\ UNCHANGED <<held, owned>>

\* The API server drops a deleted object with its last finalizer.
LetGo == /\ held /\ owned = {}
         /\ held' = FALSE
         /\ obj' = (IF obj = "deleting" THEN "gone" ELSE obj)
         /\ UNCHANGED owned

OwnedNext == Hold \/ Make \/ Free \/ Delete \/ LetGo

OwnedSpec == OwnedInit /\ [][OwnedNext]_ownedVars
============================================================================
