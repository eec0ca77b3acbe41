------------------------------ MODULE MCFanOut -------------------------------
(* Two statements of two sessions on the two nodes of a table, which share   *)
(* one data source whose pool has a single connection.                       *)
EXTENDS FanOut, TLC

CONSTANTS r1, r2, n1, n2, d1

TwoRequests == {r1, r2}
TwoNodes    == <<n1, n2>>
OneSource   == (n1 :> d1) @@ (n2 :> d1)
=============================================================================
