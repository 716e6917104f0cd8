---------------------------- MODULE MCNlbService ----------------------------
(* Small instances of NlbServiceLive for TLC. *)
EXTENDS NlbServiceLive, TLC

CONSTANTS b1, b2, eni, ecs, a1, a2

Own == [need |-> "nlb", user |-> FALSE, override |-> FALSE, preserve |-> FALSE,
        attr |-> a1, ports |-> (80 :> ecs)]
Off == [Own EXCEPT !.need = "none"]
Reuse == [Own EXCEPT !.user = TRUE, !.override = TRUE]

\* Another type of group, and preserved; no longer a LoadBalancer; on the user's
\* instance with force-override, and without it and with another attribute.
MCSpecs == {Own,
            [Own EXCEPT !.ports = (80 :> eni), !.preserve = TRUE],
            Off,
            Reuse,
            [Reuse EXCEPT !.ports = (90 :> ecs), !.override = FALSE, !.attr = a2]}

MCScales == <<{b1}, {b2}>>
=============================================================================
