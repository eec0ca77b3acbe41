------------------------------- MODULE Layouts -------------------------------
(***************************************************************************)
(* What an operator means by the layout and the strategies of a table, and *)
(* which spellings the code of Routing reads in that sense.  Nothing here  *)
(* is code: it is what the routing decisions are measured by.              *)
(***************************************************************************)
EXTENDS Routing

(* Each range of a layout stands for the numbers in it. *)
NamesOf(part) ==
  IF part.range = <<>> THEN {part.name}
  ELSE {[part.name EXCEPT !.number = <<n>>] : n \in part.range[1] .. part.range[2]}

Denoted(layout) ==
  {DataNode(d, t) : d \in NamesOf(layout.ds), t \in NamesOf(layout.table)}

(* A shard is the column and the number of the sources, or tables, that the *)
(* rows of a table are spread over, or <<>> when they are not; a spread is  *)
(* the shard for the sources and the one for the tables.                    *)
HasShard(name, shard, row) ==
  shard # <<>> => name.number = <<IntValue(row[shard[1].column]) % shard[1].count>>

(* The nodes a row belongs on. *)
NodesFor(layout, spread, row) ==
  {n \in Denoted(layout) : HasShard(n.ds, spread.ds, row) /\ HasShard(n.table, spread.table, row)}
-----------------------------------------------------------------------------
(* The patterns of the parser find a part: it is a name, or a name with an  *)
(* underscore before the range, and the range is not ${0..0}, which stands  *)
(* for "no range" in the code.                                              *)
WellSpelledPart(part) ==
  LET name == part.name IN
  /\ name = Name(name.letters, name.underscores, name.number)
  /\ name.letters # Blank /\ name.underscores \in Nat
  /\ part.range # <<>> =>
       /\ part.range \in Nat \X (Nat \ {0}) /\ part.range[1] <= part.range[2]
       /\ name.underscores > 0

(* The name without the underscore before its range. *)
Stem(name) == [name EXCEPT !.underscores = @ - 1]

(* The strategy calculates the names of the part from the shard's column:   *)
(* its expression is the name without the underscore, which the code adds,  *)
(* and ${column % count}.                                                   *)
Spreads(strategy, part, shard) ==
  IF shard = <<>> THEN strategy = NoStrategy
  ELSE LET column == shard[1].column  count == shard[1].count IN
    /\ shard = <<[column |-> column, count |-> count]>>
    /\ column # NoColumn /\ count \in Nat \ {0}
    /\ part.range = <<0, count - 1>>
    /\ strategy = Strategy(column, Inline(Expression(Stem(part.name), <<count>>)))

WellConfigured(rule, spread) ==
  /\ Len(rule.actualDataNodes) = 1
  /\ LET layout == rule.actualDataNodes[1] IN
       /\ WellSpelledPart(layout.ds) /\ WellSpelledPart(layout.table)
       /\ Spreads(rule.dsStrategy, layout.ds, spread.ds)
       /\ Spreads(rule.tableStrategy, layout.table, spread.table)

(* What a statement says of a shard's column, it says with "=" and a value  *)
(* whose integer is not negative: Go's remainder of a negative one is       *)
(* negative or 0, and the layouts have no such numbers.                     *)
Equates(q, shard) ==
  shard # <<>> =>
    \A i \in DOMAIN q.where :
      q.where[i].column = shard[1].column =>
        q.where[i].op = "=" /\ IntValue(q.where[i].args[1]) \in Nat

(* The parser finds the table: the comments stand behind its name, or after *)
(* SELECT.                                                                  *)
Readable(q) ==
  q.comment \in {"none", "behind"} \/ (q.comment = "afterVerb" /\ q.verb = "SELECT")

(* The statement can be routed by the rule of its table: it has no hints,   *)
(* and its conditions are joined by AND.                                    *)
RoutedByKeys(q, spread) ==
  /\ q.class = "plain" /\ Readable(q) /\ ~HasHint(q)
  /\ q.any = FALSE
  /\ q.where = [i \in 1 .. Len(q.where) |-> q.where[i]] /\ Len(q.where) \in Nat
  /\ Equates(q, spread.ds) /\ Equates(q, spread.table)

(* It says a value for each shard of its table. *)
GivesShards(q, spread) ==
  \A shard \in {spread.ds, spread.table} : shard # <<>> => Conditions(q, shard[1].column) # {}
=============================================================================
