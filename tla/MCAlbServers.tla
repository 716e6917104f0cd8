---------------------------- MODULE MCAlbServers ----------------------------
(***************************************************************************)
(* An instance of AlbServers.                                              *)
(***************************************************************************)
EXTENDS AlbServers

CONSTANTS p1, p2

MCPods == {p1, p2}
\* Two pods with names of their own, or one that takes the place of the other.
Apart == [p \in MCPods |-> p]
Same == [p \in MCPods |-> p1]
MCStarts == {[served |-> {p1}, names |-> Apart, moves |-> 2, faults |-> 1],
             [served |-> {}, names |-> Apart, moves |-> 2, faults |-> 0],
             [served |-> {}, names |-> Apart, moves |-> 1, faults |-> 1],
             [served |-> {p1}, names |-> Same, moves |-> 2, faults |-> 0]}
=============================================================================
