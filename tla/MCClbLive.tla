----------------------------- MODULE MCClbLive ------------------------------
(* Instances of ClbServiceLive. *)
EXTENDS ClbServiceLive

CONSTANTS a, e1, e2, l1

\* A plain service; the user may ask for the instance to be preserved.
Plain == [type |-> "LoadBalancer", class |-> "", addr |-> "", name |-> "",
          lbid |-> NoId, override |-> FALSE, preserve |-> FALSE, cfg |-> a]

LiveSpecs == {Plain, [Plain EXCEPT !.preserve = TRUE]}

Second == {e2}
Two == {e1, e2}
OneId == {l1}
=============================================================================
