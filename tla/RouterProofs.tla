---------------------------- MODULE RouterProofs -----------------------------
(***************************************************************************)
(* Proofs about Router for every configuration and every statement: hints  *)
(* are obeyed, a node's table takes the place of the logical table in each *)
(* spelling, and a well configured table is routed to the right nodes.     *)
(***************************************************************************)
EXTENDS Router, RoutingProofs

(* What the parser may find of a name in a text. *)
WellSpelled(q) ==
  \A i \in DOMAIN q.mentions :
    /\ q.mentions[i] = Mention(q.mentions[i].role, q.mentions[i].word,
                               q.mentions[i].quoted, q.mentions[i].qualifier)
    /\ q.mentions[i].quoted \in BOOLEAN
    /\ q.mentions[i].qualifier \in {"none", "bare", "quoted"}

(* The state is about one statement: no decision or text of another is left. *)
OfOneStatement == stmt \in Statements /\ Decided(stmt)

THEOREM DecisionsAreCurrent == Spec => []OfOneStatement
<1>1. Init => OfOneStatement
  BY DEF Init, Decided, OfOneStatement
<1>2. OfOneStatement /\ [Next]_vars => OfOneStatement'
  BY DEF OfOneStatement, Decided, Next, Decide, vars, Texts, SentTo
<1> QED
  BY <1>1, <1>2, PTL DEF Spec
-----------------------------------------------------------------------------
(* The parser finds the table of a statement with its comments there. *)
LEMMA FindsTheTable ==
  ASSUME NEW q, Readable(q)
  PROVE  ExtractTableName(q) = <<q.table>>
BY DEF Readable, ExtractTableName, HidesTheVerb, TakenForTheName

(* A hinted statement that the parser can read is routed by its hints. *)
LEMMA HintRoute ==
  ASSUME NEW q, q.class = "plain", Readable(q), HasHint(q)
  PROVE  Route(q) = routeWithHint(q)
<1>1. ExtractTableName(q) # <<>>
  BY FindsTheTable
<1> QED
  BY <1>1 DEF Route

(* One of the four patterns finds every qualified name. *)
LEMMA QualifierGoes ==
  ASSUME NEW q, WellSpelled(q), NEW i \in DOMAIN q.mentions
  PROVE  WithoutQualifier(q.mentions[i]) =
           Mention(q.mentions[i].role, q.mentions[i].word,
                   WithoutQualifier(q.mentions[i]).quoted, "none")
<1> DEFINE m == q.mentions[i]
<1>1. m = Mention(m.role, m.word, m.quoted, m.qualifier)
  BY DEF WellSpelled
<1>2. CASE m.qualifier = "none"
  <2>1. WithoutQualifier(m) = m
    BY <1>2 DEF WithoutQualifier, Patterns
  <2> QED BY <1>1, <1>2, <2>1
<1>3. CASE m.qualifier # "none"
  <2>1. <<m.qualifier, m.quoted>> \in Patterns
    BY <1>3 DEF WellSpelled, Patterns
  <2>2. WithoutQualifier(m) = [m EXCEPT !.qualifier = "none", !.quoted = TRUE]
    BY <2>1 DEF WithoutQualifier
  <2>3. WithoutQualifier(m) = Mention(m.role, m.word, TRUE, "none")
    BY <1>1, <2>2 DEF Mention
  <2> QED BY <2>3 DEF Mention
<1> QED BY <1>2, <1>3

(* Whatever rule the table has and wherever the name of the table stands, a *)
(* hint that the parser can read names the one source that gets the         *)
(* statement and the table that it is rewritten for.                        *)
THEOREM HintsDecide ==
  ASSUME \A q \in Statements : WellSpelled(q)
  PROVE  Spec => []HintsObeyed
<1>1. OfOneStatement => HintsObeyed
  <2> DEFINE n == DataNode(stmt.hintDS[1],
                    IF stmt.hintTable = <<>> THEN Logical(stmt.table) ELSE stmt.hintTable[1])
  <2> SUFFICES ASSUME OfOneStatement, stmt.class = "plain", Readable(stmt), stmt.hintDS # <<>>
               PROVE  /\ SentTo(decision) = {n}
                      /\ n.ds = stmt.hintDS[1]
                      /\ IF stmt.hintTable = <<>> THEN sent[n] = stmt.mentions
                         ELSE \A i \in DOMAIN stmt.mentions :
                                MeansItsTable(stmt, i) => sent[n][i].word = stmt.hintTable[1]
    BY DEF HintsObeyed
  <2>1. stmt \in Statements /\ decision = Route(stmt) /\ sent = Texts(stmt)
    BY DEF OfOneStatement, Decided
  <2>2. HasHint(stmt) /\ ExtractTableName(stmt) = <<stmt.table>>
    BY FindsTheTable DEF HasHint
  <2>3. SentTo(Route(stmt)) = {n}
    BY <2>2, HintRoute DEF routeWithHint, ToNodes, SentTo
  <2>4. n.ds = stmt.hintDS[1] /\ n.table = IF stmt.hintTable = <<>> THEN Logical(stmt.table) ELSE stmt.hintTable[1]
    BY DEF DataNode
  <2> HIDE DEF n
  <2>5. sent[n] = Rewritten(stmt, n)
    BY <2>1, <2>3 DEF Texts
  <2>6. CASE stmt.hintTable = <<>>
    BY <2>1, <2>2, <2>3, <2>4, <2>5, <2>6 DEF Rewritten
  <2>7. ASSUME stmt.hintTable # <<>>, NEW i \in DOMAIN stmt.mentions, MeansItsTable(stmt, i)
        PROVE  sent[n][i].word = stmt.hintTable[1]
    <3>1. sent[n] = Replaced(stmt.mentions, Logical(stmt.table), n.table)
      BY <2>2, <2>5, <2>7 DEF Rewritten, RewriteTableInSQL
    <3>2. sent[n][i] = [WithoutQualifier(stmt.mentions[i]) EXCEPT !.word = n.table]
      BY <3>1, <2>7 DEF Replaced, MeansItsTable
    <3>3. WithoutQualifier(stmt.mentions[i])
            = Mention(stmt.mentions[i].role, stmt.mentions[i].word,
                      WithoutQualifier(stmt.mentions[i]).quoted, "none")
      BY <2>1, QualifierGoes
    <3>4. sent[n][i].word = n.table
      BY <3>2, <3>3 DEF Mention
    <3> QED BY <2>4, <2>7, <3>4
  <2> QED
    BY <2>1, <2>3, <2>4, <2>6, <2>7
<1> QED
  BY <1>1, DecisionsAreCurrent, PTL

(* For every statement whose strings and columns do not have the name of    *)
(* its table, each node it is routed to works on its own table, however the *)
(* table is spelled and how often.                                          *)
THEOREM NodesTablesReplaceNames ==
  ASSUME \A q \in Statements : WellSpelled(q)
  PROVE  Spec => []NodesGetTheirTable
<1>1. OfOneStatement => NodesGetTheirTable
  <2> SUFFICES ASSUME OfOneStatement, Readable(stmt), OnlyTableNames,
                      HasHint(stmt) => stmt.hintTable # <<>>,
                      NEW n \in SentTo(decision), NEW i \in DOMAIN stmt.mentions
               PROVE  IF MeansItsTable(stmt, i)
                      THEN /\ sent[n][i].word = n.table
                           /\ sent[n][i].qualifier = "none"
                           /\ sent[n][i].role = stmt.mentions[i].role
                      ELSE sent[n][i] = stmt.mentions[i]
    BY DEF NodesGetTheirTable
  <2> DEFINE m == stmt.mentions[i]
  <2>1. stmt \in Statements /\ decision = Route(stmt) /\ sent = Texts(stmt)
    BY DEF OfOneStatement, Decided
  <2>2. ExtractTableName(stmt) = <<stmt.table>>
    BY FindsTheTable
  <2>3. sent[n] = Replaced(stmt.mentions, Logical(stmt.table), n.table)
    BY <2>1, <2>2 DEF Texts, Rewritten, RewriteTableInSQL
  <2>4. sent[n][i] = IF m.word = Logical(stmt.table)
                     THEN [WithoutQualifier(m) EXCEPT !.word = n.table] ELSE m
    BY <2>3 DEF Replaced
  <2>5. WithoutQualifier(m) = Mention(m.role, m.word, WithoutQualifier(m).quoted, "none")
    BY <2>1, QualifierGoes
  <2>6. [WithoutQualifier(m) EXCEPT !.word = n.table]
          = Mention(m.role, n.table, WithoutQualifier(m).quoted, "none")
    BY <2>5 DEF Mention
  <2>7. CASE m.word = Logical(stmt.table)
    <3>1. m.role = "table"
      BY <2>7 DEF OnlyTableNames, Range
    <3> QED
      BY <2>4, <2>6, <2>7, <3>1 DEF Mention, MeansItsTable
  <2>8. CASE m.word # Logical(stmt.table)
    BY <2>4, <2>8 DEF MeansItsTable
  <2> QED
    BY <2>7, <2>8
<1> QED
  BY <1>1, DecisionsAreCurrent, PTL
-----------------------------------------------------------------------------
(* A statement without hints goes where the rule of its table sends it. *)
LEMMA RuleRoute ==
  ASSUME NEW q, ByRule(q), NEW spread,
         WellConfigured(Rules[q.table], spread), RoutedByKeys(q, spread)
  PROVE  SentTo(Route(q)) = ReachedNodes(LayoutOf(q.table), spread, q)
<1> DEFINE rule == Rules[q.table]
<1>1. /\ NodesOfRule(rule).kind \in {"range", "node"}
      /\ RouteByRule(q, rule) = ToNodes(ReachedNodes(LayoutOf(q.table), spread, q))
  BY RuleReaches DEF LayoutOf
<1>2. TableHasRule(q) /\ NodesOfRule(rule).kind # "panic"
  BY <1>1, FindsTheTable DEF TableHasRule, RuleOf, ByRule
<1>3. /\ q.class = "plain" /\ ~HasHint(q)
      /\ ExtractTableName(q) # <<>> /\ RuleOf(q) = rule
  BY FindsTheTable DEF ByRule, RuleOf
<1>4. Route(q) = RouteByRule(q, rule)
  BY <1>2, <1>3 DEF Route
<1> QED
  BY <1>1, <1>4 DEF SentTo, ToNodes

(* In each state the nodes of the decision are those reached. *)
LEMMA ReachedByRule ==
  ASSUME KeyedAccess, OfOneStatement, ByRule(stmt)
  PROVE  LET spread == Shards[stmt.table] IN
         /\ WellConfigured(Rules[stmt.table], spread) /\ RoutedByKeys(stmt, spread)
         /\ SentTo(decision) = ReachedNodes(LayoutOf(stmt.table), spread, stmt)
<1>1. stmt \in Statements /\ decision = Route(stmt)
  BY DEF OfOneStatement, Decided
<1>2. WellConfigured(Rules[stmt.table], Shards[stmt.table]) /\ RoutedByKeys(stmt, Shards[stmt.table])
  BY <1>1 DEF KeyedAccess
<1> QED
  BY <1>1, <1>2, RuleRoute

(* However the rows of a table are spread, whichever conditions a statement *)
(* has and in whatever order: no node of a row it is about is left out.     *)
THEOREM NoMatchingRowSkipped ==
  ASSUME KeyedAccess
  PROVE  Spec => []NoMatchSkipped
<1>1. OfOneStatement => NoMatchSkipped
  <2> SUFFICES ASSUME OfOneStatement, ByRule(stmt), NEW row \in Rows, Matches(stmt, row)
               PROVE  Home(stmt.table, row) \subseteq SentTo(decision)
    BY DEF NoMatchSkipped
  <2> QED
    BY ReachedByRule, RoutedRight DEF Home, LayoutOf
<1> QED
  BY <1>1, DecisionsAreCurrent, PTL

(* And no node is reached that the layout does not declare, or, if the      *)
(* statement gives every shard, that none of its rows belongs on.           *)
THEOREM OnlyNodesOfTheRows ==
  ASSUME KeyedAccess, SomeRowMeant
  PROVE  Spec => []OnlyRightNodes
<1>1. OfOneStatement => OnlyRightNodes
  <2> SUFFICES ASSUME OfOneStatement, ByRule(stmt)
               PROVE  /\ SentTo(decision) \subseteq Denoted(LayoutOf(stmt.table))
                      /\ (Pins(stmt, Shards[stmt.table].ds) /\ Pins(stmt, Shards[stmt.table].table)) =>
                           SentTo(decision) \subseteq
                             UNION {Home(stmt.table, row) : row \in {w \in Rows : Matches(stmt, w)}}
    BY DEF OnlyRightNodes
  <2> DEFINE spread == Shards[stmt.table]
             nodes == ReachedNodes(LayoutOf(stmt.table), spread, stmt)
  <2>1. /\ WellConfigured(Rules[stmt.table], spread) /\ RoutedByKeys(stmt, spread)
        /\ SentTo(decision) = nodes
    BY ReachedByRule
  <2>2. nodes \subseteq Denoted(LayoutOf(stmt.table))
    BY <2>1, RoutedRight DEF LayoutOf
  <2>3. ASSUME Pins(stmt, spread.ds), Pins(stmt, spread.table)
        PROVE  nodes \subseteq UNION {Home(stmt.table, row) : row \in {w \in Rows : Matches(stmt, w)}}
    <3>1. PICK row \in Rows : Matches(stmt, row)
      BY DEF SomeRowMeant, OfOneStatement
    <3>2. GivesShards(stmt, spread)
      BY <2>3 DEF Pins, Conditions, GivesShards
    <3>3. nodes \subseteq Home(stmt.table, row)
      BY <2>1, <3>1, <3>2, RoutedRight DEF Home, LayoutOf
    <3> QED BY <3>1, <3>3
  <2> QED BY <2>1, <2>2, <2>3
<1> QED
  BY <1>1, DecisionsAreCurrent, PTL

(* A statement without a condition reaches what the layout denotes, each    *)
(* of the numbers of both its ranges.                                       *)
THEOREM LayoutsAreMeant ==
  ASSUME KeyedAccess
  PROVE  Spec => []LayoutMeansItsNodes
<1>1. OfOneStatement => LayoutMeansItsNodes
  BY ReachedByRule, RoutedRight DEF LayoutMeansItsNodes, LayoutOf
<1> QED
  BY <1>1, DecisionsAreCurrent, PTL
=============================================================================
