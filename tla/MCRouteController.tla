-------------------------- MODULE MCRouteController --------------------------
(***************************************************************************)
(* Instances of RouteController: pod CIDRs of two addresses, and hand-made *)
(* routes inside a pod CIDR and around the whole cluster.                  *)
(***************************************************************************)
EXTENDS RouteController, TLC

CONSTANTS n1, n2, p1, p2, t1, t2

OneName == {n1}
TwoNames == {n1, n2}
TwoProvs == {p1, p2}
OneTable == {t1}
TwoTables == {t1, t2}
OneCidr == {{1, 2}}
TwoCidrs == {{1, 2}, {3, 4}}
HandMade == {{1}, 1..5}
Cluster == 1..4
=============================================================================
