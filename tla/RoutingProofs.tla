---------------------------- MODULE RoutingProofs ----------------------------
(***************************************************************************)
(* Which nodes the routing of a well configured table reaches, for every   *)
(* configuration and every statement: by each part of the layout, the name *)
(* its value in the statement calculates, or all names if it has none.     *)
(***************************************************************************)
EXTENDS Sql, Layouts, FiniteSetTheorems, WellFoundedInduction, TLAPS

(* A set of numbers has a least one.  The library states it of a relation   *)
(* given by an operator, so it is taken from the subsets 0 .. x - 1.        *)
LEMMA LeastNumber ==
  ASSUME NEW T \in SUBSET Nat, T # {}
  PROVE  \E x \in T : \A y \in T : x <= y
<1> DEFINE Below(x) == 0 .. x - 1
           I == {Below(x) : x \in T}
           R == StrictSubsetOrdering(Nat)
<1>1. \A x \in T : Below(x) \in FiniteSubsetsOf(Nat)
  <2> TAKE x \in T
  <2>1. IsFiniteSet(0 .. x - 1)
    BY FS_Interval
  <2> QED BY <2>1 DEF FiniteSubsetsOf
<1>2. I \subseteq FiniteSubsetsOf(Nat) /\ I # {}
  BY <1>1
<1>3. IsWellFoundedOn(R, FiniteSubsetsOf(Nat))
  BY FS_StrictSubsetOrderingWellFounded
<1>4. PICK s \in I : \A t \in I : ~ (<<t, s>> \in R)
  <2> HIDE DEF I, R
  <2> QED BY <1>2, <1>3, WFMin
<1>5. PICK x \in T : s = Below(x)
  OBVIOUS
<1>6. ASSUME NEW y \in T, ~(x <= y) PROVE FALSE
  <2>1. Below(y) \in SUBSET Nat /\ Below(x) \in SUBSET Nat /\ Below(y) \subseteq Below(x)
    BY <1>6
  <2>2. y \in Below(x) /\ y \notin Below(y)
    BY <1>6
  <2>3. <<Below(y), Below(x)>> \in R
    BY <2>1, <2>2 DEF StrictSubsetOrdering
  <2> QED BY <1>4, <1>5, <2>3
<1> QED BY <1>6
-----------------------------------------------------------------------------
(* What the parser reads *)

IsText(q) == q.where = [i \in 1 .. Len(q.where) |-> q.where[i]] /\ Len(q.where) \in Nat

(* The value for a column is read from the first condition on it. *)
LEMMA FirstConditionRead ==
  ASSUME NEW q, IsText(q), NEW column, Conditions(q, column) # {}
  PROVE  \E i \in Conditions(q, column) :
           ExtractShardingValue(q, column) = <<Remaining(q.where[i])>>
<1> DEFINE conds == Conditions(q, column)
           first == CHOOSE i \in conds : \A k \in conds : i <= k
<1>1. conds \in SUBSET Nat
  BY DEF Conditions, IsText
<1>2. \E i \in conds : \A k \in conds : i <= k
  BY <1>1, LeastNumber
<1>3. first \in conds
  BY <1>2
<1>4. ExtractShardingValue(q, column) = <<Remaining(q.where[first])>>
  BY DEF ExtractShardingValue
<1> QED BY <1>3, <1>4

(* Of a column that has only equalities, it is the value of one of them. *)
LEMMA EqualityRead ==
  ASSUME NEW q, IsText(q), NEW shard, shard # <<>>, Equates(q, shard),
         Conditions(q, shard[1].column) # {}
  PROVE  \E i \in Conditions(q, shard[1].column) :
           /\ q.where[i].op = "=" /\ IntValue(q.where[i].args[1]) \in Nat
           /\ ExtractShardingValue(q, shard[1].column) = <<q.where[i].args[1]>>
<1>1. PICK i \in Conditions(q, shard[1].column) :
        ExtractShardingValue(q, shard[1].column) = <<Remaining(q.where[i])>>
  BY FirstConditionRead
<1>2. q.where[i].op = "=" /\ IntValue(q.where[i].args[1]) \in Nat
  BY DEF Equates, Conditions
<1>3. Remaining(q.where[i]) = q.where[i].args[1]
  BY <1>2 DEF Remaining
<1> QED BY <1>1, <1>2, <1>3
-----------------------------------------------------------------------------
(* Names *)

(* With a name's underscore left out of the pattern and put back with the   *)
(* number, the names of a range are those it stands for.                    *)
LEMMA NumberedIs ==
  ASSUME NEW l, NEW u, NEW m, NEW n
  PROVE  Numbered(Name(l, u, m), n) = Name(l, u + 1, <<n>>)
<1> DEFINE r == [Name(l, u, m) EXCEPT !.underscores = @ + 1]
<1>1. r = Name(l, u + 1, m)
  BY DEF Name
<1>2. Numbered(Name(l, u, m), n) = [r EXCEPT !.number = <<n>>]
  BY DEF Numbered
<1> QED BY <1>1, <1>2 DEF Name

(* The pattern that the parser finds is the name without the underscore. *)
LEMMA PatternRead ==
  ASSUME NEW part, WellSpelledPart(part), part.range # <<>>
  PROVE  Pattern(part.name) = Stem(part.name)
  BY DEF WellSpelledPart, Pattern, Stem

LEMMA NumberedName ==
  ASSUME NEW part, WellSpelledPart(part), part.range # <<>>, NEW n
  PROVE  Numbered(Pattern(part.name), n) = [part.name EXCEPT !.number = <<n>>]
<1> DEFINE name == part.name
<1>1. name = Name(name.letters, name.underscores, name.number) /\ name.underscores \in Nat \ {0}
  BY DEF WellSpelledPart
<1>2. Pattern(name) = Name(name.letters, name.underscores - 1, name.number)
  BY <1>1 DEF Pattern, Name
<1>3. Numbered(Pattern(name), n) = Name(name.letters, name.underscores - 1 + 1, <<n>>)
  BY <1>2, NumberedIs
<1>4. [name EXCEPT !.number = <<n>>] = Name(name.letters, name.underscores, <<n>>)
  BY <1>1 DEF Name
<1>5. name.underscores - 1 + 1 = name.underscores
  BY <1>1
<1> QED BY <1>3, <1>4, <1>5

LEMMA NamesOfRange ==
  ASSUME NEW part, WellSpelledPart(part), part.range # <<>>
  PROVE  /\ NamesIn(Pattern(part.name), part.range) = NamesOf(part)
         /\ NamesOf(part) # {}
         /\ part.range # Zero
<1>1. \A n : Numbered(Pattern(part.name), n) = [part.name EXCEPT !.number = <<n>>]
  BY NumberedName
<1>2. NamesOf(part) = {[part.name EXCEPT !.number = <<n>>] : n \in part.range[1] .. part.range[2]}
  BY DEF NamesOf
<1>3. NamesIn(Pattern(part.name), part.range) = NamesOf(part)
  BY <1>1, <1>2, Zenon DEF NamesIn
<1>4. part.range[1] \in part.range[1] .. part.range[2] /\ part.range[2] # 0
  BY DEF WellSpelledPart
<1>5. NamesOf(part) # {}
  BY <1>2, <1>4
<1>6. part.range # Zero
  BY <1>4 DEF Zero
<1> QED BY <1>3, <1>5, <1>6

(* The value of a shard in a statement. *)
ValueOf(q, shard) == ExtractShardingValue(q, shard[1].column)[1]

(* The names of a part that a statement reaches. *)
Reached(part, shard, q) ==
  IF shard = <<>> \/ Conditions(q, shard[1].column) = {} THEN NamesOf(part)
  ELSE {[part.name EXCEPT !.number = <<IntValue(ValueOf(q, shard)) % shard[1].count>>]}

(* A strategy without a column restricts nothing; one that spreads a part   *)
(* over the numbers of its range calculates one of its names.               *)
LEMMA TargetReached ==
  ASSUME NEW q, IsText(q), NEW part, NEW strategy, NEW shard,
         WellSpelledPart(part), Spreads(strategy, part, shard), Equates(q, shard)
  PROVE  LET value  == ValueFor(q, strategy)
             target == Target(strategy, value)
         IN /\ ~DividesByZero(strategy, value)
            /\ value # <<>> => strategy.algorithm.kind = "inline"
            /\ target = <<>> => Reached(part, shard, q) = NamesOf(part)
            /\ target # <<>> => part.range # <<>> /\ Reached(part, shard, q) = {target[1]}
<1> DEFINE value == ValueFor(q, strategy)
           target == Target(strategy, value)
<1>1. CASE shard = <<>>
  <2>1. strategy = NoStrategy /\ value = <<>>
    BY <1>1 DEF Spreads, ValueFor, NoStrategy, Strategy, NoColumn
  <2> QED BY <1>1, <2>1 DEF Target, DividesByZero, Reached
<1>2. CASE shard # <<>>
  <2> DEFINE column == shard[1].column
             count == shard[1].count
             expr == Expression(Stem(part.name), <<count>>)
  <2>1. /\ strategy.column = column /\ strategy.algorithm = Inline(expr)
        /\ column # NoColumn /\ count \in Nat \ {0}
        /\ part.range = <<0, count - 1>>
    BY <1>2 DEF Spreads, Strategy
  <2>2. value = ExtractShardingValue(q, column)
    BY <2>1 DEF ValueFor
  <2>3. /\ strategy.algorithm.kind = "inline" /\ strategy.algorithm.expr = expr
        /\ expr.modulus = <<count>> /\ expr.prefix = Pattern(part.name)
    <3>1. part.range # <<>>
      BY <2>1
    <3> QED BY <2>1, <3>1, PatternRead DEF Inline, Expression
  <2>4. strategy.algorithm \notin {NoAlgorithm, UnknownAlgorithm, ModAlgorithm}
    <3>1. ModAlgorithm.expr.modulus = <<>>
      BY DEF ModAlgorithm, Inline, Expression
    <3>2. <<count>> # <<>>
      OBVIOUS
    <3>3. NoAlgorithm.kind = "none" /\ UnknownAlgorithm.kind = "unknown"
      BY DEF NoAlgorithm, UnknownAlgorithm
    <3> QED BY <2>3, <3>1, <3>2, <3>3
  <2>5. ~DividesByZero(strategy, value)
    BY <2>1, <2>3 DEF DividesByZero
  <2>6. CASE Conditions(q, column) = {}
    <3>1. value = <<>> /\ target = <<>>
      BY <2>2, <2>6 DEF ExtractShardingValue, Target
    <3> QED BY <1>2, <2>3, <2>5, <2>6, <3>1 DEF Reached
  <2>7. CASE Conditions(q, column) # {}
    <3>1. value = <<ValueOf(q, shard)>> /\ IntValue(ValueOf(q, shard)) \in Nat
      BY <1>2, <2>2, <2>7, EqualityRead DEF ValueOf
    <3> DEFINE n == IntValue(ValueOf(q, shard))
    <3>2. Remainder(n, count) = n % count
      BY <3>1 DEF Remainder
    <3>3. target = <<Numbered(Pattern(part.name), n % count)>>
      BY <2>3, <2>4, <3>1, <3>2 DEF Target, Calculated
    <3>4. Numbered(Pattern(part.name), n % count) = [part.name EXCEPT !.number = <<n % count>>]
      BY <2>1, NumberedName
    <3> QED BY <1>2, <2>1, <2>3, <2>5, <2>7, <3>3, <3>4 DEF Reached
  <2> QED BY <2>6, <2>7
<1> QED BY <1>1, <1>2
-----------------------------------------------------------------------------
(* Nodes *)

(* The code reads a layout part by part. *)
LEMMA SourcesRead ==
  ASSUME NEW rng, NEW part, WellSpelledPart(part), NEW target, NEW names,
         rng.ds = IF part.range = <<>> THEN part.name ELSE Pattern(part.name),
         rng.dsRange = IF part.range = <<>> THEN Zero ELSE part.range,
         target = <<>> => names = NamesOf(part),
         target # <<>> => names = {target[1]}
  PROVE  SourcesOf(rng, target) = names
<1>1. CASE target # <<>>
  BY <1>1 DEF SourcesOf
<1>2. CASE target = <<>> /\ part.range = <<>>
  BY <1>2 DEF SourcesOf, NamesOf
<1>3. CASE target = <<>> /\ part.range # <<>>
  BY <1>3, NamesOfRange DEF SourcesOf
<1> QED BY <1>1, <1>2, <1>3

LEMMA TablesRead ==
  ASSUME NEW rng, NEW part, WellSpelledPart(part), NEW target, NEW names,
         rng.table = IF part.range = <<>> THEN part.name ELSE Pattern(part.name),
         rng.tableRange = IF part.range = <<>> THEN Zero ELSE part.range,
         target = <<>> => names = NamesOf(part),
         target # <<>> => part.range # <<>> /\ names = {target[1]}
  PROVE  TablesOf(rng, target) = names
<1>1. CASE part.range = <<>>
  BY <1>1 DEF TablesOf, NamesOf
<1>2. CASE target = <<>> /\ part.range # <<>>
  BY <1>2, NamesOfRange DEF TablesOf
<1>3. CASE target # <<>> /\ part.range # <<>>
  BY <1>3, NamesOfRange DEF TablesOf
<1> QED BY <1>1, <1>2, <1>3

NodesOver(sources, tables) == {DataNode(d, t) : d \in sources, t \in tables}

LEMMA NodesRead ==
  ASSUME NEW layout, WellSpelledPart(layout.ds), WellSpelledPart(layout.table),
         NEW dsTarget, NEW tableTarget, NEW sources, NEW tables,
         dsTarget = <<>> => sources = NamesOf(layout.ds),
         dsTarget # <<>> => layout.ds.range # <<>> /\ sources = {dsTarget[1]},
         tableTarget = <<>> => tables = NamesOf(layout.table),
         tableTarget # <<>> => layout.table.range # <<>> /\ tables = {tableTarget[1]}
  PROVE  /\ ParseActualDataNodes(layout).kind \in {"range", "node"}
         /\ expandDataNodes(ParseActualDataNodes(layout), dsTarget, tableTarget)
              = NodesOver(sources, tables)
<1> DEFINE parsed == ParseActualDataNodes(layout)
           nodes == expandDataNodes(parsed, dsTarget, tableTarget)
<1>1. layout.ds.name.letters # Blank /\ layout.table.name.letters # Blank
  BY DEF WellSpelledPart
<1>2. CASE layout.ds.range = <<>> /\ layout.table.range = <<>>
  <2>1. parsed = [kind |-> "node", node |-> DataNode(layout.ds.name, layout.table.name)]
    BY <1>1, <1>2 DEF ParseActualDataNodes
  <2>2. sources = {layout.ds.name} /\ tables = {layout.table.name}
    BY <1>2 DEF NamesOf
  <2>3. nodes = {DataNode(layout.ds.name, layout.table.name)}
    BY <2>1 DEF expandDataNodes
  <2> QED BY <2>1, <2>2, <2>3 DEF NodesOver
<1>3. CASE layout.ds.range # <<>> \/ layout.table.range # <<>>
  <2>1. /\ parsed.kind = "range"
        /\ parsed.ds = IF layout.ds.range = <<>> THEN layout.ds.name ELSE Pattern(layout.ds.name)
        /\ parsed.dsRange = IF layout.ds.range = <<>> THEN Zero ELSE layout.ds.range
        /\ parsed.table = IF layout.table.range = <<>> THEN layout.table.name
                          ELSE Pattern(layout.table.name)
        /\ parsed.tableRange = IF layout.table.range = <<>> THEN Zero ELSE layout.table.range
    BY <1>1, <1>3 DEF ParseActualDataNodes, RangeNode
  <2>2. SourcesOf(parsed, dsTarget) = sources
    BY <2>1, SourcesRead
  <2>3. TablesOf(parsed, tableTarget) = tables
    BY <2>1, TablesRead
  <2> QED BY <2>1, <2>2, <2>3 DEF expandDataNodes, NodesOver
<1> QED BY <1>2, <1>3

ReachedNodes(layout, spread, q) ==
  NodesOver(Reached(layout.ds, spread.ds, q), Reached(layout.table, spread.table, q))

LEMMA SomeReached ==
  ASSUME NEW part, WellSpelledPart(part), NEW shard, NEW q
  PROVE  Reached(part, shard, q) # {}
<1>1. NamesOf(part) # {}
  BY NamesOfRange DEF NamesOf
<1> QED BY <1>1 DEF Reached

(* A well configured rule sends a statement to the nodes that its values     *)
(* name, part by part, and to no other.                                      *)
LEMMA RuleReaches ==
  ASSUME NEW rule, NEW spread, WellConfigured(rule, spread),
         NEW q, RoutedByKeys(q, spread)
  PROVE  /\ NodesOfRule(rule).kind \in {"range", "node"}
         /\ RouteByRule(q, rule) = ToNodes(ReachedNodes(rule.actualDataNodes[1], spread, q))
<1> DEFINE layout == rule.actualDataNodes[1]
           dsValue == ValueFor(q, rule.dsStrategy)
           tableValue == ValueFor(q, rule.tableStrategy)
           dsTarget == Target(rule.dsStrategy, dsValue)
           tableTarget == Target(rule.tableStrategy, tableValue)
           sources == Reached(layout.ds, spread.ds, q)
           tables == Reached(layout.table, spread.table, q)
           parsed == NodesOfRule(rule)
           nodes == expandDataNodes(parsed, dsTarget, tableTarget)
<1>1. /\ WellSpelledPart(layout.ds) /\ WellSpelledPart(layout.table)
      /\ Spreads(rule.dsStrategy, layout.ds, spread.ds)
      /\ Spreads(rule.tableStrategy, layout.table, spread.table)
      /\ parsed = ParseActualDataNodes(layout)
  BY DEF WellConfigured, NodesOfRule
<1>2. IsText(q) /\ Equates(q, spread.ds) /\ Equates(q, spread.table)
  BY DEF RoutedByKeys, IsText
<1>3. /\ ~DividesByZero(rule.dsStrategy, dsValue)
      /\ dsValue # <<>> => rule.dsStrategy.algorithm.kind = "inline"
      /\ dsTarget = <<>> => sources = NamesOf(layout.ds)
      /\ dsTarget # <<>> => layout.ds.range # <<>> /\ sources = {dsTarget[1]}
  BY <1>1, <1>2, TargetReached
<1>4. /\ ~DividesByZero(rule.tableStrategy, tableValue)
      /\ tableValue # <<>> => rule.tableStrategy.algorithm.kind = "inline"
      /\ tableTarget = <<>> => tables = NamesOf(layout.table)
      /\ tableTarget # <<>> => layout.table.range # <<>> /\ tables = {tableTarget[1]}
  BY <1>1, <1>2, TargetReached
<1>5. parsed.kind \in {"range", "node"} /\ nodes = NodesOver(sources, tables)
  <2> HIDE DEF dsTarget, tableTarget, sources, tables, layout
  <2>1. /\ ParseActualDataNodes(layout).kind \in {"range", "node"}
        /\ expandDataNodes(ParseActualDataNodes(layout), dsTarget, tableTarget)
             = NodesOver(sources, tables)
    BY <1>1, <1>3, <1>4, NodesRead
  <2> QED BY <1>1, <2>1
<1>6. nodes = ReachedNodes(layout, spread, q)
  BY <1>5 DEF ReachedNodes
<1>7. nodes # {}
  <2>1. sources # {} /\ tables # {}
    BY <1>1, SomeReached
  <2>2. PICK d \in sources, t \in tables : TRUE
    BY <2>1
  <2>3. DataNode(d, t) \in nodes
    BY <1>5 DEF NodesOver
  <2> QED BY <2>3
<1>8. RouteByRule(q, rule) = ToNodes(nodes)
  <2> HIDE DEF nodes
  <2>1. ~(tableValue # <<>> /\ rule.tableStrategy.algorithm.kind = "unknown")
    BY <1>4
  <2> QED BY <1>3, <1>4, <1>5, <1>7, <2>1 DEF RouteByRule, nodes
<1> QED BY <1>5, <1>6, <1>8

-----------------------------------------------------------------------------
(* Rows *)

(* A row that a statement is about has the value that was read. *)
LEMMA ValueMatches ==
  ASSUME NEW q, NEW spread, RoutedByKeys(q, spread), NEW shard \in {spread.ds, spread.table},
         shard # <<>>, Conditions(q, shard[1].column) # {},
         NEW row, Matches(q, row)
  PROVE  row[shard[1].column] = ValueOf(q, shard)
<1>1. IsText(q) /\ Equates(q, shard) /\ ~q.any
  BY DEF RoutedByKeys, IsText
<1>2. PICK i \in Conditions(q, shard[1].column) :
        /\ q.where[i].op = "="
        /\ ExtractShardingValue(q, shard[1].column) = <<q.where[i].args[1]>>
  BY <1>1, EqualityRead
<1>3. i \in DOMAIN q.where /\ q.where[i].column = shard[1].column
  BY DEF Conditions
<1>4. Satisfies(row[q.where[i].column], q.where[i])
  BY <1>1, <1>3 DEF Matches
<1>5. row[q.where[i].column] = q.where[i].args[1]
  BY <1>2, <1>4 DEF Satisfies
<1> QED BY <1>2, <1>3, <1>5 DEF ValueOf

(* The name of a part that such a row belongs to is reached. *)
LEMMA PartMatched ==
  ASSUME NEW q, NEW spread, RoutedByKeys(q, spread), NEW shard \in {spread.ds, spread.table},
         NEW part, NEW row, Matches(q, row),
         NEW name \in NamesOf(part), HasShard(name, shard, row),
         NEW strategy, Spreads(strategy, part, shard)
  PROVE  name \in Reached(part, shard, q)
<1>1. CASE shard = <<>> \/ Conditions(q, shard[1].column) = {}
  BY <1>1 DEF Reached
<1>2. CASE shard # <<>> /\ Conditions(q, shard[1].column) # {}
  <2>1. row[shard[1].column] = ValueOf(q, shard)
    BY <1>2, ValueMatches
  <2>2. name.number = <<IntValue(ValueOf(q, shard)) % shard[1].count>>
    BY <1>2, <2>1 DEF HasShard
  <2>3. part.range # <<>>
    BY <1>2 DEF Spreads
  <2>4. PICK n : name = [part.name EXCEPT !.number = <<n>>]
    BY <2>3 DEF NamesOf
  <2>5. name = [part.name EXCEPT !.number = name.number]
    BY <2>4
  <2> QED BY <1>2, <2>2, <2>5 DEF Reached
<1> QED BY <1>1, <1>2

(* A name that is reached is one of the layout, and if the statement says a *)
(* value, it is that of every row the statement is about.                   *)
LEMMA PartRight ==
  ASSUME NEW q, NEW spread, RoutedByKeys(q, spread), NEW shard \in {spread.ds, spread.table},
         NEW part, WellSpelledPart(part), NEW strategy, Spreads(strategy, part, shard),
         NEW name \in Reached(part, shard, q)
  PROVE  /\ name \in NamesOf(part)
         /\ (shard # <<>> => Conditions(q, shard[1].column) # {}) =>
              \A row : Matches(q, row) => HasShard(name, shard, row)
<1>1. CASE shard = <<>> \/ Conditions(q, shard[1].column) = {}
  BY <1>1 DEF Reached, HasShard
<1>2. CASE shard # <<>> /\ Conditions(q, shard[1].column) # {}
  <2> DEFINE value == IntValue(ValueOf(q, shard))
             count == shard[1].count
  <2>1. name = [part.name EXCEPT !.number = <<value % count>>]
    BY <1>2 DEF Reached
  <2>2. value \in Nat
    <3>1. IsText(q) /\ Equates(q, shard)
      BY DEF RoutedByKeys, IsText
    <3>2. PICK i \in Conditions(q, shard[1].column) :
            /\ IntValue(q.where[i].args[1]) \in Nat
            /\ ExtractShardingValue(q, shard[1].column) = <<q.where[i].args[1]>>
      BY <1>2, <3>1, EqualityRead
    <3> QED BY <3>2 DEF ValueOf
  <2>3. count \in Nat \ {0} /\ part.range = <<0, count - 1>>
    BY <1>2 DEF Spreads
  <2>4. value % count \in part.range[1] .. part.range[2]
    <3> HIDE DEF value, count
    <3> QED BY <2>2, <2>3
  <2>5. name \in NamesOf(part)
    BY <2>1, <2>3, <2>4 DEF NamesOf
  <2>6. name.number = <<value % count>>
    BY <2>1 DEF WellSpelledPart, Name
  <2>7. \A row : Matches(q, row) => HasShard(name, shard, row)
    BY <1>2, <2>6, ValueMatches DEF HasShard
  <2> QED BY <2>5, <2>7
<1> QED BY <1>1, <1>2

(* So a well configured table is routed right: a statement reaches every    *)
(* node with a row it is about, no node that the layout does not declare,   *)
(* and no node of other rows if it gives the values of all shards.          *)
LEMMA RoutedRight ==
  ASSUME NEW rule, NEW spread, WellConfigured(rule, spread),
         NEW q, RoutedByKeys(q, spread)
  PROVE  LET layout == rule.actualDataNodes[1]
             nodes == ReachedNodes(layout, spread, q)
         IN /\ \A row : Matches(q, row) => NodesFor(layout, spread, row) \subseteq nodes
            /\ nodes \subseteq Denoted(layout)
            /\ GivesShards(q, spread) =>
                 \A row : Matches(q, row) => nodes \subseteq NodesFor(layout, spread, row)
            /\ q.where = <<>> => nodes = Denoted(layout)
<1> DEFINE layout == rule.actualDataNodes[1]
           nodes == ReachedNodes(layout, spread, q)
<1>1. /\ WellSpelledPart(layout.ds) /\ WellSpelledPart(layout.table)
      /\ Spreads(rule.dsStrategy, layout.ds, spread.ds)
      /\ Spreads(rule.tableStrategy, layout.table, spread.table)
  BY DEF WellConfigured
<1> HIDE DEF layout
<1>2. \A d, t : DataNode(d, t).ds = d /\ DataNode(d, t).table = t
  BY DEF DataNode
<1>3. ASSUME NEW row, Matches(q, row), NEW n \in NodesFor(layout, spread, row)
      PROVE  n \in nodes
  <2>1. PICK d \in NamesOf(layout.ds), t \in NamesOf(layout.table) : n = DataNode(d, t)
    BY DEF NodesFor, Denoted
  <2>2. HasShard(d, spread.ds, row) /\ HasShard(t, spread.table, row)
    BY <1>2, <2>1 DEF NodesFor
  <2>3. d \in Reached(layout.ds, spread.ds, q)
    BY <1>1, <1>3, <2>2, PartMatched
  <2>4. t \in Reached(layout.table, spread.table, q)
    BY <1>1, <1>3, <2>2, PartMatched
  <2> QED BY <2>1, <2>3, <2>4 DEF ReachedNodes, NodesOver
<1>4. ASSUME NEW n \in nodes
      PROVE  /\ n \in Denoted(layout)
             /\ GivesShards(q, spread) =>
                  \A row : Matches(q, row) => n \in NodesFor(layout, spread, row)
  <2>1. PICK d \in Reached(layout.ds, spread.ds, q),
             t \in Reached(layout.table, spread.table, q) : n = DataNode(d, t)
    BY DEF ReachedNodes, NodesOver
  <2>2. d \in NamesOf(layout.ds) /\ t \in NamesOf(layout.table)
    BY <1>1, PartRight
  <2>3. n \in Denoted(layout)
    BY <2>1, <2>2 DEF Denoted
  <2>4. ASSUME GivesShards(q, spread),
               NEW row, Matches(q, row)
        PROVE  n \in NodesFor(layout, spread, row)
    <3>1. HasShard(d, spread.ds, row)
      BY <1>1, <2>4, PartRight DEF GivesShards
    <3>2. HasShard(t, spread.table, row)
      BY <1>1, <2>4, PartRight DEF GivesShards
    <3> QED BY <1>2, <2>1, <2>3, <3>1, <3>2 DEF NodesFor
  <2> QED BY <2>3, <2>4
<1>5. ASSUME q.where = <<>> PROVE nodes = Denoted(layout)
  <2>1. \A column : Conditions(q, column) = {}
    BY <1>5 DEF Conditions
  <2> QED BY <2>1 DEF ReachedNodes, Reached, NodesOver, Denoted
<1> QED BY <1>3, <1>4, <1>5 DEF layout

=============================================================================
