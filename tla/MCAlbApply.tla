----------------------------- MODULE MCAlbApply -----------------------------
(* Small instances of AlbApplyLive for TLC. *)
EXTENDS AlbApplyLive, TLC

CONSTANTS g, h

\* Two services; one of them left, with the other priority; another listener in place
\* of the first.
Two == (80 :> <<h, g>>)
One == (80 :> <<g>>)
MCSpecs == {Two, One, (443 :> <<g>>)}
MCStarts == {<<Two, "own", TRUE>>, <<One, "force", TRUE>>}
            \cup {<<One, m, FALSE>> : m \in {"own", "plain", "taken"}}
=============================================================================
