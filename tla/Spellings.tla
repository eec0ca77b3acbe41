------------------------------ MODULE Spellings ------------------------------
(* How configurations and statements are written down for TLC.               *)
EXTENDS Routing

N(letters)       == Name(letters, 1, <<>>)   \* ds_, before a range
At(letters, n)   == Name(letters, 1, <<n>>)  \* ds_0
Part(name, lo, hi) == [name |-> name, range |-> <<lo, hi>>]
Whole(name)        == [name |-> name, range |-> <<>>]
Layout(ds, table)  == <<[ds |-> ds, table |-> table]>>

(* ${column % n} after the letters alone: ds${id % 2} *)
Joined(column, letters, n) ==
  Strategy(column, Inline(Expression(Logical(letters), <<n>>)))
(* the arrow form, ds_$->{id % 2}, which no pattern matches *)
Arrow(column, text) ==
  Strategy(column, Inline(Expression(Logical(text), <<>>)))

Rule(layout, ds, table) ==
  [actualDataNodes |-> layout, dsStrategy |-> ds, tableStrategy |-> table]
By(column, n) == <<[column |-> column, count |-> n]>>
Spread(ds, table) == [ds |-> ds, table |-> table]

Grid(letters) == Layout(Part(N("ds"), 0, 1), Part(N(letters), 0, 3))

Four  == <<52>>
Five  == <<53>>
Seven == <<55>>
Ten   == <<49, 48>>
Text  == <<97, 98>>          \* ab

Condition(column, op, args) == [column |-> column, op |-> op, args |-> args]
Equality(column, v) == Condition(column, "=", <<v>>)

Query(verb, table, where) ==
  [class |-> "plain", verb |-> verb, comment |-> "none", table |-> table,
   hintDS |-> <<>>, hintTable |-> <<>>, where |-> where, any |-> FALSE]
Hinted(q, ds, table) == [q EXCEPT !.comment = "behind", !.hintDS = ds, !.hintTable = table]
=============================================================================
