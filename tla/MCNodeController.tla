-------------------------- MODULE MCNodeController --------------------------
(***************************************************************************)
(* Instances of NodeController.                                            *)
(***************************************************************************)
EXTENDS NodeController

Given == [id |-> "given", ip |-> TRUE, excl |-> FALSE, prov |-> TRUE]
ByIp == [Given EXCEPT !.id = "none"]
LateIp == [ByIp EXCEPT !.ip = FALSE]
Bad == [Given EXCEPT !.id = "bad"]
Excluded == [Given EXCEPT !.excl = TRUE]
Unknown == [Given EXCEPT !.prov = FALSE]

MCSetups == {<<LateIp>>, <<Excluded>>, <<Unknown>>, <<Given, Bad>>, <<Bad, Given>>}
MCMaxFaults == <<1, 0>>
=============================================================================
