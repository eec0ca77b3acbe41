------------------------------- MODULE Router --------------------------------
(***************************************************************************)
(* A router that decides on one statement after another, and rewrites it   *)
(* for the nodes.  It keeps nothing between two statements, so its         *)
(* properties are about single decisions: they compare the code's text     *)
(* processing with what the configuration means by its layouts and         *)
(* strategies, and with what the statement means by its names.             *)
(***************************************************************************)
EXTENDS Sql, Rewriting, Layouts

CONSTANTS
  Statements,   \* the statements sessions send
  Rows,         \* the rows the tables may hold
  Shards        \* table -> column and number of the sources and of the tables
                \* its rows are meant to be spread over, <<>> when they are not

VARIABLES
  stmt,         \* the statement decided on
  decision,     \* what was decided
  sent          \* node -> the text it was given

vars == <<stmt, decision, sent>>

SentTo(d) == IF d.to = "nodes" THEN d.nodes ELSE {}

Texts(q) == [n \in SentTo(Route(q)) |-> Rewritten(q, n)]

Decided(q) == stmt = q /\ decision = Route(q) /\ sent = Texts(q)

Init == \E q \in Statements : Decided(q)

Decide(q) ==
  /\ stmt' = q
  /\ decision' = Route(q)
  /\ sent' = Texts(q)

Next == \E q \in Statements : Decide(q)

Spec == Init /\ [][Next]_vars
-----------------------------------------------------------------------------
LayoutOf(table) == Rules[table].actualDataNodes[1]

(* The nodes a row belongs on. *)
Home(table, row) == NodesFor(LayoutOf(table), Shards[table], row)

ByRule(q) == q.class = "plain" /\ q.table \in DOMAIN Rules /\ ~HasHint(q) /\ Readable(q)

(* The tables are spread as the configuration's strategies say, and each    *)
(* statement says its values with "=".                                      *)
KeyedAccess ==
  \A q \in Statements : ByRule(q) =>
    WellConfigured(Rules[q.table], Shards[q.table]) /\ RoutedByKeys(q, Shards[q.table])

(* No statement contradicts itself about the rows that it is about. *)
SomeRowMeant == \A q \in Statements : ByRule(q) => \E row \in Rows : Matches(q, row)

(* A statement on a sharded table reaches every node that may hold a row it *)
(* is about: no matching row is left out of an answer, an update or a       *)
(* delete because its node was not asked.                                   *)
NoMatchSkipped ==
  ByRule(stmt) =>
    \A row \in Rows : Matches(stmt, row) => Home(stmt.table, row) \subseteq SentTo(decision)

(* It reaches no other node than those the layout of the table declares,    *)
(* and, when it gives the sharding columns as equalities, only the nodes of *)
(* the rows it is about: "the right data node".                             *)
Pins(q, shard) ==
  shard # <<>> =>
    \E i \in DOMAIN q.where : q.where[i].column = shard[1].column /\ q.where[i].op = "="

OnlyRightNodes ==
  ByRule(stmt) =>
    /\ SentTo(decision) \subseteq Denoted(LayoutOf(stmt.table))
    /\ (Pins(stmt, Shards[stmt.table].ds) /\ Pins(stmt, Shards[stmt.table].table)) =>
         SentTo(decision) \subseteq
           UNION {Home(stmt.table, row) : row \in {w \in Rows : Matches(stmt, w)}}

(* A statement without a condition is sent to exactly the nodes its layout  *)
(* declares.                                                                *)
LayoutMeansItsNodes ==
  (ByRule(stmt) /\ stmt.where = <<>>) =>
    SentTo(decision) = Denoted(LayoutOf(stmt.table))

(* A hint that stands behind the name of the table, or after SELECT, decides *)
(* whatever the configuration says: one node gets the statement, at the      *)
(* hinted source, with the hinted table wherever it means its table; without *)
(* a hint for the table it gets the text as it is.  A hint for the table     *)
(* alone names no source, and the statement fails.                           *)
MeansItsTable(q, i) == q.mentions[i].role = "table" /\ q.mentions[i].word = Logical(q.table)

HintsObeyed ==
  (stmt.class = "plain" /\ Readable(stmt) /\ stmt.hintDS # <<>>) =>
    \E n \in SentTo(decision) :
      /\ SentTo(decision) = {n}
      /\ n.ds = stmt.hintDS[1]
      /\ IF stmt.hintTable = <<>> THEN sent[n] = stmt.mentions
         ELSE \A i \in DOMAIN stmt.mentions :
                MeansItsTable(stmt, i) => sent[n][i].word = stmt.hintTable[1]

(* Each node works on its own physical table and on no other: wherever the  *)
(* statement means its table, in whatever spelling, the node's table stands *)
(* instead, without the name of a database that the node need not have; and *)
(* everything else is what the session wrote.  Columns and strings that     *)
(* have the name of the table are rewritten too, and the text of one whose  *)
(* table the parser does not find is not, so such statements are left aside.*)
OnlyTableNames == \A m \in Range(stmt.mentions) : m.word = Logical(stmt.table) => m.role = "table"

NodesGetTheirTable ==
  (Readable(stmt) /\ OnlyTableNames /\ (HasHint(stmt) => stmt.hintTable # <<>>)) =>
    \A n \in SentTo(decision) : \A i \in DOMAIN stmt.mentions :
      LET meant == stmt.mentions[i]  got == sent[n][i] IN
        IF MeansItsTable(stmt, i)
        THEN got.word = n.table /\ got.qualifier = "none" /\ got.role = meant.role
        ELSE got = meant
=============================================================================
