----------------------------- MODULE MCQueryPath -----------------------------
(* Small instances of QueryPath: a table over two sources with two tables    *)
(* each, and two keys whose homes are in different sources.                  *)
EXTENDS QueryPath, Spellings

CONSTANTS s1, s2, v1, v2

OneSession  == {s1}
TwoSessions == {s1, s2}
MCValues    == {v1, v2}

(* Sessions are alike. *)
Symmetric == Permutations(TwoSessions)

MCRules == [t_order |-> Rule(Layout(Part(N("ds"), 0, 1), Part(N("t_order"), 0, 1)),
                             Joined("id", "ds", 2), Joined("id", "t_order", 2))]

MCSources  == {At("ds", 0), At("ds", 1)}
OneFaulty  == {At("ds", 1)}
OrderNodes == {DataNode(d, At("t_order", n)) : d \in MCSources, n \in {0, 1}}

TwoKeys == {Four, Five}

HomeOf(k) == DataNode(At("ds", Numeral(k) % 2), At("t_order", Numeral(k) % 2))
TwoHomes == [k \in TwoKeys |-> HomeOf(k)]

Valued(q, v) == q @@ [value |-> v]

Insert(table, k, v) == Query("INSERT", table, <<>>) @@ [key |-> k, value |-> v]
(* INSERT INTO t_order /* ds=ds_0 */ /* tb=t_order_0 */ (id, ...) VALUES ... *)
HintedInsert(k, v) == Hinted(Insert("t_order", k, v), <<HomeOf(k).ds>>, <<HomeOf(k).table>>)

WheresOf(keys) == {<<>>} \cup {<<Equality("id", k)>> : k \in keys}

Reads(table, keys)   == {Query("SELECT", table, w) : w \in WheresOf(keys)}
Deletes(table, keys) == {Query("DELETE", table, <<Equality("id", k)>>) : k \in keys}
Updates(table)       == {Valued(Query("UPDATE", table, <<>>), v2)}

(* Reads of everything and of one key, deletes by key, updates of everything. *)
Usual == Reads("t_order", {Five}) \cup Deletes("t_order", Keys) \cup Updates("t_order")

(* Each INSERT hinted to the node of its key, or left to the router. *)
PlacedStatements == Usual \cup {HintedInsert(k, v1) : k \in Keys}
RoutedStatements == Usual \cup {Insert("t_order", k, v1) : k \in Keys}

(* What is proved of tables spread and used by key applies to this one.      *)
OrderSpread == Spread(By("id", 2), By("id", 2))
ASSUME Statements = PlacedStatements =>
  SpreadByKey("t_order", OrderSpread) /\ UsedByKey("t_order", OrderSpread)
=============================================================================
