----------------------------- MODULE MCSnowflake -----------------------------
(* Small instances of Snowflake: two sequence numbers per millisecond, so that *)
(* the third id of one has to wait.  Worker id 2 exceeds the worker field of   *)
(* one bit and is masked to 0.                                                 *)
EXTENDS Snowflake, TLC

CONSTANTS g1, g2, a, b

TwoCallers == {g1, g2}
TwoGenerators == {a, b}
OneGenerator == {a}
NoGenerator == {}
OtherGenerator == {b}
DifferentWorkers == (a :> 2) @@ (b :> 1)
ConfiguredWorker == [g \in {a, b} |-> 1]
=============================================================================
