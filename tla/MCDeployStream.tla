--------------------------- MODULE MCDeployStream ---------------------------
(***************************************************************************)
(* Instances of DeployStream for TLC.                                      *)
(***************************************************************************)
EXTENDS DeployStream

CONSTANTS d1, d2, c1, c2, shop, web

Plan(async, app, name) == [async |-> async, app |-> app, name |-> name]

\* An app whose container has its own name, and one that has the app's id.
TwoTopics == {Plan(TRUE, shop, web), Plan(TRUE, shop, shop), Plan(FALSE, shop, shop)}

OneTopic == {Plan(TRUE, shop, shop)}

=============================================================================
