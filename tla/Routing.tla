------------------------------- MODULE Routing -------------------------------
(***************************************************************************)
(* The routing decision of sqlrouter/router.go: which data nodes a         *)
(* statement is sent to.  Pure operators on the configuration and on what  *)
(* the parser sees of a statement.                                         *)
(*                                                                         *)
(* A name such as ds_0 is a record: the letters, the underscores after     *)
(* them, and the number, if any.  A literal of the SQL text is a sequence  *)
(* of character codes.  A value that may be missing is a sequence of       *)
(* length 0 or 1.                                                          *)
(***************************************************************************)
EXTENDS Integers, Sequences, SequencesExt

CONSTANTS
  HalfWord,   \* 2^63, half the range of Go's int
  Rules       \* logical table -> its rule, for the tables that have one

ASSUME RoutingAssumption == HalfWord \in Nat \ {0}

Name(letters, underscores, number) ==
  [letters |-> letters, underscores |-> underscores, number |-> number]

Blank == ""

(* fmt.Sprintf("%s_%d", name, n) *)
Numbered(name, n) == [name EXCEPT !.underscores = @ + 1, !.number = <<n>>]
-----------------------------------------------------------------------------
(* Literals and the integer they are sharded by *)

Wrap(x) == ((x + HalfWord) % (2 * HalfWord)) - HalfWord

hashString(text) == FoldLeft(LAMBDA h, c : Wrap(31 * h + c), 0, text)

Digits == 48 .. 57
Minus == 45
Plus  == 43
Unsigned(text) == IF text # <<>> /\ Head(text) \in {Minus, Plus} THEN Tail(text) ELSE text
Magnitude(text) == FoldLeft(LAMBDA n, c : 10 * n + (c - 48), 0, Unsigned(text))
Numeral(text) == IF Head(text) = Minus THEN -Magnitude(text) ELSE Magnitude(text)

(* strconv.Atoi succeeds *)
IsNumeral(text) ==
  /\ Unsigned(text) # <<>>
  /\ \A i \in DOMAIN Unsigned(text) : Unsigned(text)[i] \in Digits
  /\ Numeral(text) \in -HalfWord .. HalfWord - 1

(* The switch on the type of the value: all values are text here. *)
IntValue(text) == IF IsNumeral(text) THEN Numeral(text) ELSE hashString(text)

(* Go's remainder has the sign of the dividend. *)
Remainder(a, m) == IF a >= 0 THEN a % m ELSE -((-a) % m)
-----------------------------------------------------------------------------
(* An algorithm-expression is a prefix and the modulus of the first         *)
(* ${column % n} in it.  One without such a placeholder is its own result;  *)
(* the arrow form $->{column % n} is of that kind.                          *)

Expression(prefix, modulus) == [prefix |-> prefix, modulus |-> modulus]

(* InlineShardingStrategy.Calculate and config.CalculateShardingValue       *)
(* replace the placeholder by the remainder.                                *)
Inlined(expr, text) ==
  IF expr.modulus = <<>> THEN expr.prefix
  ELSE [expr.prefix EXCEPT !.number = <<Remainder(IntValue(text), expr.modulus[1])>>]

(* calculateDataSource and calculateTable put "_" between the two. *)
Calculated(expr, text) ==
  IF expr.modulus = <<>> THEN expr.prefix
  ELSE Numbered(expr.prefix, Remainder(IntValue(text), expr.modulus[1]))
-----------------------------------------------------------------------------
(* What the parser reads in a statement.  A statement is a record with      *)
(*   class    "plain"; "metadata", answered by one of the handlers; or      *)
(*            "system", one that IsSystemQuery recognises                   *)
(*   verb     "SELECT", "INSERT", "UPDATE" or "DELETE"                      *)
(*   comment  where its comments stand: "none"; "beforeVerb"; "afterVerb",  *)
(*            before INTO, FROM or the table of an UPDATE; "beforeTable"; or *)
(*            "behind" the table                                            *)
(*   table    the table it names                                            *)
(*   hintDS, hintTable   the hints in its comments                          *)
(*   where    its conditions [column, op, args], in order                   *)

CommentSign == "/*"

(* "INSERT INTO" and "DELETE FROM " are looked for as they are, the FROM of *)
(* a SELECT anywhere.                                                       *)
HidesTheVerb(stmt) ==
  \/ stmt.comment = "beforeVerb"
  \/ stmt.comment = "afterVerb" /\ stmt.verb \in {"INSERT", "DELETE"}

(* The comment stands where the name is looked for. *)
TakenForTheName(stmt) ==
  \/ stmt.comment = "beforeTable"
  \/ stmt.comment = "afterVerb" /\ stmt.verb = "UPDATE"

(* The table's name is followed by a blank, and read up to there. *)
ExtractTableName(stmt) ==
  IF HidesTheVerb(stmt) THEN <<>>
  ELSE IF TakenForTheName(stmt) THEN <<CommentSign>> ELSE <<stmt.table>>

Conditions(stmt, column) == {i \in DOMAIN stmt.where : stmt.where[i].column = column}

Equals == 61
Space  == 32
Comma  == 44
Paren  == 41

(* What is left of a condition without the column and the operator.  The    *)
(* alternatives of the pattern are tried in order, so > matches before >=   *)
(* and leaves the equals sign; IN loses its opening parenthesis only; and   *)
(* BETWEEN is cut at its AND.                                               *)
Remaining(cond) ==
  CASE cond.op \in {">=", "<="} -> <<Equals, Space>> \o cond.args[1]
    [] cond.op = "IN" -> FlattenSeq([i \in DOMAIN cond.args |->
         cond.args[i] \o IF i = Len(cond.args) THEN <<Paren>> ELSE <<Comma>>])
    [] OTHER -> cond.args[1]

(* ExtractShardingValue: of the first condition on the column, if any. *)
ExtractShardingValue(stmt, column) ==
  LET conds == Conditions(stmt, column)
      first == CHOOSE i \in conds : \A k \in conds : i <= k
  IN IF conds = {} THEN <<>> ELSE <<Remaining(stmt.where[first])>>
-----------------------------------------------------------------------------
(* Data nodes.  A layout such as ds_${0..1}.t_order_${0..3} has two parts,  *)
(* each a name and the range after it, if any.                              *)

DataNode(ds, table) == [ds |-> ds, table |-> table]

(* Fault variant: the underscore stays, as config_test.go expects it. *)
KeepUnderscore(name) == name

(* (.+?)_? leaves the last underscore out of the pattern. *)
Pattern(name) ==
  IF name.underscores = 0 THEN name ELSE [name EXCEPT !.underscores = @ - 1]

Zero == <<0, 0>>

RangeNode(ds, table, dsRange, tableRange) ==
  [kind |-> "range", ds |-> ds, table |-> table,
   dsRange |-> dsRange, tableRange |-> tableRange]

(* Without its readwrite_ds_ forms.  A layout without a dot is an error; a  *)
(* table that is a bare range makes simpleRangePattern match, whose fourth  *)
(* group does not exist.                                                    *)
ParseActualDataNodes(layout) ==
  LET ds == layout.ds  table == layout.table IN
    IF ds.name.letters = Blank THEN [kind |-> "error"]
    ELSE IF table.name.letters = Blank /\ table.range # <<>> THEN [kind |-> "panic"]
    ELSE CASE ds.range # <<>> /\ table.range # <<>> ->
                RangeNode(Pattern(ds.name), Pattern(table.name), ds.range, table.range)
           [] ds.range # <<>> /\ table.range = <<>> ->
                RangeNode(Pattern(ds.name), table.name, ds.range, Zero)
           [] ds.range = <<>> /\ table.range # <<>> ->
                RangeNode(ds.name, Pattern(table.name), Zero, table.range)
           [] ds.range = <<>> /\ table.range = <<>> ->
                [kind |-> "node", node |-> DataNode(ds.name, table.name)]

NamesIn(pattern, range) == {Numbered(pattern, n) : n \in range[1] .. range[2]}

(* Fault variant: a calculated data source does not restrict the nodes. *)
IgnoresSource(rng, targetDS) ==
  IF rng.dsRange = Zero THEN {rng.ds} ELSE NamesIn(rng.ds, rng.dsRange)

(* The range [0,0] stands for "the pattern is the name".  A target is the   *)
(* calculated name; for a single table the calculated one is not used.      *)
SourcesOf(rng, targetDS) ==
  IF targetDS # <<>> THEN {targetDS[1]}
  ELSE IF rng.dsRange = Zero THEN {rng.ds} ELSE NamesIn(rng.ds, rng.dsRange)

TablesOf(rng, targetTable) ==
  IF rng.tableRange = Zero THEN {rng.table}
  ELSE IF targetTable # <<>> THEN {targetTable[1]} ELSE NamesIn(rng.table, rng.tableRange)

expandDataNodes(parsed, targetDS, targetTable) ==
  IF parsed.kind = "node" THEN {parsed.node}
  ELSE {DataNode(d, t) : d \in SourcesOf(parsed, targetDS), t \in TablesOf(parsed, targetTable)}
-----------------------------------------------------------------------------
(* Decisions *)

ToNodes(nodes) == [to |-> "nodes", nodes |-> nodes]
ToDefault == [to |-> "default"]
Local     == [to |-> "local"]
Panic     == [to |-> "panic"]

EmptyName == Name(Blank, 0, <<>>)
Logical(table) == Name(table, 0, <<>>)   \* the statement is not rewritten

HasHint(stmt) == stmt.hintDS # <<>> \/ stmt.hintTable # <<>>

(* A hint for the table alone leaves the name of the data source empty; the *)
(* hinted table takes the place of the name that the parser found.          *)
routeWithHint(stmt) ==
  ToNodes({DataNode(IF stmt.hintDS = <<>> THEN EmptyName ELSE stmt.hintDS[1],
                    IF stmt.hintTable = <<>> \/ ExtractTableName(stmt) # <<stmt.table>>
                    THEN Logical(stmt.table) ELSE stmt.hintTable[1])})

(* A strategy is a column and an algorithm: an expression, "none" for an    *)
(* empty name, or "unknown" for one the configuration does not define.      *)
NoColumn == Blank
NoAlgorithm == [kind |-> "none"]
UnknownAlgorithm == [kind |-> "unknown"]
Inline(expr) == [kind |-> "inline", expr |-> expr]
Strategy(column, algorithm) == [column |-> column, algorithm |-> algorithm]
NoStrategy == Strategy(NoColumn, NoAlgorithm)

ValueFor(stmt, strategy) ==
  IF strategy.column = NoColumn THEN <<>> ELSE ExtractShardingValue(stmt, strategy.column)

(* The router reads the algorithm-expression of an algorithm of any type;   *)
(* one of type MOD has none.                                                *)
ModAlgorithm == Inline(Expression(EmptyName, <<>>))

(* The name a strategy calculates, if the statement has a value for it.  An *)
(* empty name restricts nothing.                                            *)
Target(strategy, value) ==
  IF value = <<>> \/ strategy.algorithm \in {NoAlgorithm, UnknownAlgorithm, ModAlgorithm}
  THEN <<>> ELSE <<Calculated(strategy.algorithm.expr, value[1])>>

DividesByZero(strategy, value) ==
  value # <<>> /\ strategy.algorithm.kind = "inline" /\ strategy.algorithm.expr.modulus = <<0>>

(* GetTableRuleForSQL: what the rule says of the nodes, perhaps nothing. *)
NodesOfRule(rule) ==
  IF rule.actualDataNodes = <<>> THEN [kind |-> "nil"]
  ELSE ParseActualDataNodes(rule.actualDataNodes[1])

(* buildRouteContext and executeRoute: an error, or no node at all, sends   *)
(* the statement to the default data source.  Having no database algorithm  *)
(* is an error, having no table algorithm is not.                           *)
RouteByRule(stmt, rule) ==
  LET dsValue    == ValueFor(stmt, rule.dsStrategy)
      tableValue == ValueFor(stmt, rule.tableStrategy)
      parsed     == NodesOfRule(rule)
      nodes      == expandDataNodes(parsed, Target(rule.dsStrategy, dsValue),
                                            Target(rule.tableStrategy, tableValue))
      noSource   == dsValue # <<>> /\ rule.dsStrategy.algorithm.kind # "inline"
      noTable    == tableValue # <<>> /\ rule.tableStrategy.algorithm.kind = "unknown"
  IN IF \/ DividesByZero(rule.dsStrategy, dsValue)
        \/ ~noSource /\ DividesByZero(rule.tableStrategy, tableValue) THEN Panic
     ELSE IF noSource \/ noTable \/ parsed.kind = "nil" \/ nodes = {} THEN ToDefault
     ELSE ToNodes(nodes)

(* The rule is looked up by the name that the parser found. *)
RuleOf(stmt) == Rules[ExtractTableName(stmt)[1]]

TableHasRule(stmt) ==
  /\ ExtractTableName(stmt)[1] \in DOMAIN Rules
  /\ NodesOfRule(RuleOf(stmt)).kind # "error"

(* Fault variant: the rule of the table comes before the hints. *)
RuleBeforeHint(stmt) ==
  IF stmt.class # "plain" \/ ExtractTableName(stmt) = <<>> THEN ToDefault
  ELSE IF TableHasRule(stmt) THEN RouteByRule(stmt, RuleOf(stmt))
  ELSE IF HasHint(stmt) THEN routeWithHint(stmt)
  ELSE ToDefault

(* RouteAndExecuteSQLWithResult *)
Route(stmt) ==
  IF stmt.class = "metadata" THEN Local
  ELSE IF stmt.class = "system" \/ ExtractTableName(stmt) = <<>> THEN ToDefault
  ELSE IF HasHint(stmt) THEN routeWithHint(stmt)
  ELSE IF ~TableHasRule(stmt) THEN ToDefault
  ELSE IF NodesOfRule(RuleOf(stmt)).kind = "panic" THEN Panic
  ELSE RouteByRule(stmt, RuleOf(stmt))
=============================================================================
