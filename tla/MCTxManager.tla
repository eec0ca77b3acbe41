----------------------------- MODULE MCTxManager -----------------------------
(* Small instances of TxManager: two goroutines and two data sources, one   *)
(* with a pool that a single branch exhausts.  With two letters and four    *)
(* ticks a second, ticks 0 and 2 give the same id.                          *)
EXTENDS TxManager

CONSTANTS g1, g2, d1, d2

TwoCallers == {g1, g2}
TwoSources == {d1, d2}
Ticks == 0 .. 2
TwoTicks == 0 .. 1
Pools == [s \in TwoSources |-> IF s = d1 THEN 1 ELSE 2]
=============================================================================
