---------------------------- MODULE MCBackendSync ----------------------------
(***************************************************************************)
(* Two pods on one node, a virtual one or not, for services of             *)
(* the three traffic policies.                                             *)
(***************************************************************************)
EXTENDS BackendSync, TLC

CONSTANTS n1, p1, p2

TwoPods == {p1, p2}
OneNode == {n1}
OnFirst == [p \in Pods |-> n1]

Svc(p, u, l, w) == [policy |-> p, removeUnscheduled |-> u, backendLabel |-> l, weight |-> w]

AllServices == {Svc("eni", FALSE, FALSE, NoWeight), Svc("local", FALSE, TRUE, NoWeight),
                Svc("cluster", TRUE, FALSE, 1)}

NodeLabels == {{"match"}, {"match", "exclude"}, {"vk"}}
AllButTaint == {"labels", "unsched", "ready"}
=============================================================================
