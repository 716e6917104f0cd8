---------------------------- MODULE MCClbService ----------------------------
(***************************************************************************)
(* Instances of ClbService: the sets of services a user may submit.        *)
(***************************************************************************)
EXTENDS ClbService, TLC

CONSTANTS a, b, e1, e2, l1, l2

\* A plain service: created, found again and deleted by the controller.
Plain(c) == [type |-> "LoadBalancer", class |-> "", addr |-> "", name |-> "",
             lbid |-> NoId, override |-> FALSE, preserve |-> FALSE, cfg |-> c]

\* Two configurations; the second is internal and to be preserved.
PlainSpecs == {Plain(a), [Plain(b) EXCEPT !.preserve = TRUE, !.addr = "intranet"]}

\* The service reuses the user's instance, with or without its listeners.
ReuseSpecs == {[Plain(a) EXCEPT !.lbid = UserLb],
               [Plain(b) EXCEPT !.lbid = UserLb, !.override = TRUE]}

\* The service is switched to another class of load balancer.
ClassSpecs == {Plain(a), [Plain(a) EXCEPT !.class = "other"]}

None == {}
One == {e1}
Two == {e1, e2}
Ids == {l1, l2}
OneId == {l1}
Sym == Permutations(Ids)
=============================================================================
