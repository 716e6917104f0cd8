--------------------------- MODULE MCVServerGroup ---------------------------
(***************************************************************************)
(* Two services and the user share a group that has no room to spare, and  *)
(* want some servers on the same port.                                     *)
(***************************************************************************)
EXTENDS VServerGroup, TLC

CONSTANTS s1, s2, user, x, y, z

TwoSvcs == {s1, s2}
ThreeServers == {x, y, z}
ThreePorts == 1..3
TwoWeights == {1, 2}

\* A change removes a server, adds one and sets a weight.  The user has x on port 1
\* as well, and both services may want z there.
Wanted == (s1 :> {{<<x, 1, 1>>, <<y, 1, 1>>}, {<<y, 1, 2>>, <<z, 1, 1>>}}) @@
          (s2 :> {{<<x, 2, 1>>, <<y, 2, 1>>}, {<<y, 2, 2>>, <<z, 1, 2>>}})
UserServers == {<<x, 1>>, <<z, 3>>}
Leaving == {"deleted", "dropped"}
=============================================================================
