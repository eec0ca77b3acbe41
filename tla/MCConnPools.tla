----------------------------- MODULE MCConnPools -----------------------------
(* Two goroutines ask for two data sources, of which Close may fail for one, *)
(* and for a third one without an entry in the configuration.                *)
EXTENDS ConnPools

CONSTANTS g1, g2, d1, d2, d3

TwoCallers == {g1, g2}
ThreeNames == {d1, d2, d3}
TwoUsable  == {d1, d2}
Stubborn   == {d2}
=============================================================================
