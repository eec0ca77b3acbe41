------------------------------ MODULE QueryPath ------------------------------
(***************************************************************************)
(* The statements of several sessions on their way through the proxy: each *)
(* is routed (Routing), executed by the data sources, node by node in any  *)
(* order, and answered from the results.  The interleaving of goroutines   *)
(* within one node is FanOut's; here a node executes in one step.          *)
(***************************************************************************)
EXTENDS Sql, Layouts, FiniteSets

CONSTANTS
  Sessions,
  Statements,    \* the statements sessions send
  Sources,       \* the names under dataSources
  Physical,      \* the tables that exist, as data nodes
  Keys, Values,  \* a row is a primary key, in column "id", and a value
  NoRow,         \* what a table has for a key without a row
  Idle,          \* what a session without a statement is running
  Home,          \* key -> the node its row belongs on
  Faulty         \* the data sources that may be out of order or cut off

ASSUME QueryPathAssumption ==
  /\ Sources # {}
  /\ IsFiniteSet(Keys)
  /\ Idle \notin Statements
  /\ \A q \in Statements : q.verb = "INSERT" => q.key \in Keys /\ q.value \in Values
  /\ \A q \in Statements : q.verb = "UPDATE" => q.value \in Values
  /\ \A n \in Physical : n.ds \in Sources
  /\ \A k \in Keys : Home[k] \in Physical
  /\ \A q \in Statements : Route(q).to # "panic"
  /\ Faulty \subseteq Sources

VARIABLES
  contents,   \* physical table -> key -> row
  running,    \* session -> its statement
  todo,       \* session -> the nodes that have yet to execute it
  rows,       \* session -> key -> the rows that nodes returned for it
  affected,   \* session -> the sum of the affected rows
  oks, errs   \* session -> how many nodes executed it, how many did not

vars == <<contents, running, todo, rows, affected, oks, errs>>

TypeOK ==
  /\ contents \in [Physical -> [Keys -> Values \cup {NoRow}]]
  /\ running \in [Sessions -> Statements \cup {Idle}]
  /\ todo = [s \in Sessions |-> todo[s]]
  /\ rows \in [Sessions -> [Keys -> Seq(Values)]]
  /\ affected \in [Sessions -> Nat]
  /\ oks \in [Sessions -> Nat]
  /\ errs \in [Sessions -> Nat]

NoRows == [k \in Keys |-> <<>>]

Init ==
  /\ contents = [n \in Physical |-> [k \in Keys |-> NoRow]]
  /\ running = [s \in Sessions |-> Idle]
  /\ todo = [s \in Sessions |-> {}]
  /\ rows = [s \in Sessions |-> NoRows]
  /\ affected = [s \in Sessions |-> 0]
  /\ oks = [s \in Sessions |-> 0]
  /\ errs = [s \in Sessions |-> 0]
-----------------------------------------------------------------------------
(* What MySQL makes of a statement *)

(* An INSERT is about its own key, whatever is in the table. *)
Concerns(q, k) ==
  IF q.verb = "INSERT" THEN k = q.key ELSE Matches(q, [id |-> k])

Written(q, row) ==
  CASE q.verb = "INSERT" /\ row = NoRow -> q.value
    [] q.verb = "UPDATE" /\ row # NoRow -> q.value
    [] q.verb = "DELETE" -> NoRow
    [] OTHER -> row

Conflicts(q, row) == q.verb = "INSERT" /\ row # NoRow

(* executeSQL asks for rows when the text starts with SELECT. *)
Selects(q) == q.verb = "SELECT" /\ q.comment # "beforeVerb"
-----------------------------------------------------------------------------
(* GetDefaultDataSourceName: the first name in the order of a Go map, which *)
(* is a different one each time.                                            *)
DefaultNodes(q) == {DataNode(d, Logical(q.table)) : d \in Sources}

(* The nodes a statement may be sent to. *)
NodeSets(q) ==
  LET d == Route(q) IN
    CASE d.to = "nodes" -> {d.nodes}
      [] d.to = "default" -> {{n} : n \in DefaultNodes(q)}
      [] d.to = "local" -> {{}}

Begin(s, q) ==
  /\ running[s] = Idle
  /\ running' = [running EXCEPT ![s] = q]
  /\ \E nodes \in NodeSets(q) : todo' = [todo EXCEPT ![s] = nodes]
  /\ rows' = [rows EXCEPT ![s] = NoRows]
  /\ affected' = [affected EXCEPT ![s] = 0]
  /\ oks' = [oks EXCEPT ![s] = 0]
  /\ errs' = [errs EXCEPT ![s] = 0]
  /\ UNCHANGED contents

(* Fault variant: a node may be asked again. *)
AsksAgain(s, n) ==
  /\ n \in todo[s]
  /\ todo' \in {todo, [todo EXCEPT ![s] = @ \ {n}]}

Leaves(s, n) ==
  /\ n \in todo[s]
  /\ todo' = [todo EXCEPT ![s] = @ \ {n}]

Refused(q, n) ==
  n \in Physical => \E k \in Keys : Concerns(q, k) /\ Conflicts(q, contents[n][k])

Apply(q, n) ==
  contents' = [contents EXCEPT ![n] = [k \in Keys |->
    IF Concerns(q, k) THEN Written(q, @[k]) ELSE @[k]]]

Execute(s, n) ==
  LET q == running[s]
      K == {k \in Keys : Concerns(q, k)}
  IN /\ Leaves(s, n)
     /\ ~Refused(q, n)
     /\ Apply(q, n)
     /\ rows' = [rows EXCEPT ![s] = [k \in Keys |->
          IF k \in K /\ Selects(q) /\ contents[n][k] # NoRow
          THEN Append(@[k], contents[n][k]) ELSE @[k]]]
     /\ affected' = [affected EXCEPT ![s] =
          @ + Cardinality({k \in K : Written(q, contents[n][k]) # contents[n][k]})]
     /\ oks' = [oks EXCEPT ![s] = @ + 1]
     /\ UNCHANGED <<running, errs>>

(* An unknown data source or table, a duplicate key, a source that is out of *)
(* order; or one whose connection breaks when the statement was executed.    *)
Fail(s, n) ==
  /\ Leaves(s, n)
  /\ \/ /\ Refused(running[s], n) \/ n.ds \in Faulty
        /\ UNCHANGED contents
     \/ /\ ~Refused(running[s], n) /\ n.ds \in Faulty
        /\ Apply(running[s], n)
  /\ errs' = [errs EXCEPT ![s] = @ + 1]
  /\ UNCHANGED <<running, rows, affected, oks>>

(* Every node is done: the session has its answer. *)
End(s) ==
  /\ running[s] # Idle /\ todo[s] = {}
  /\ running' = [running EXCEPT ![s] = Idle]
  /\ UNCHANGED <<contents, todo, rows, affected, oks, errs>>

Next ==
  \E s \in Sessions :
    \/ \E q \in Statements : Begin(s, q)
    \/ \E n \in todo[s] : Execute(s, n) \/ Fail(s, n)
    \/ End(s)

Spec == Init /\ [][Next]_vars
-----------------------------------------------------------------------------
(* The answer is an error only if no node executed the statement. *)
IsError(s) == errs[s] > 0 /\ oks[s] = 0

(* The sessions see one table: it has, for each key, the row of its home    *)
(* node, and a statement is done with a key when that node has executed it. *)
(* Where a source fails there are gaps: the rows on it, and no others, may  *)
(* be passed over, or changed without being counted.  The answer is an      *)
(* error if nothing else was executed, and does not tell otherwise.         *)
Seen == INSTANCE LogicalTable WITH
  Unreliable <- {k \in Keys : Home[k].ds \in Faulty},
  table   <- [k \in Keys |-> contents[Home[k]][k]],
  left    <- [s \in Sessions |->
               IF running[s] = Idle THEN {}
               ELSE {k \in Keys : Concerns(running[s], k) /\ Home[k] \in todo[s]}],
  seen    <- rows,
  changed <- affected,
  heard   <- [s \in Sessions |-> oks[s] > 0],
  refused <- [s \in Sessions |-> IsError(s)]

ActsAsOneTable == Seen!LSpec

(* No row is stored on another node than its home, so that a later statement *)
(* with its key finds it and a full scan returns it once.                    *)
RowsAtHome ==
  \A n \in Physical : \A k \in Keys : contents[n][k] # NoRow => n = Home[k]
-----------------------------------------------------------------------------
(* What the two rest on: where statements are sent.  Every INSERT is sent   *)
(* to the home node of its key and nowhere else.                            *)
InsertsPlaced ==
  \A q \in Statements :
    q.verb = "INSERT" => \A nodes \in NodeSets(q) : nodes \subseteq {Home[q.key]}

(* A node has a part in a statement: a row the statement is about, or an    *)
(* empty share of a statement about several.                                *)
About(q) == {k \in Keys : Concerns(q, k)}
Share(q, n) == {k \in Keys : Concerns(q, k) /\ Home[k] = n}
HasPart(q, n) == Share(q, n) # {} \/ Cardinality(About(q)) > 1

(* A statement is sent to every home of a row it is about, only to tables   *)
(* that exist, and to no node for nothing.                                  *)
ReachesHomes ==
  \A q \in Statements : \A nodes \in NodeSets(q) :
    /\ \A k \in Keys : Concerns(q, k) => Home[k] \in nodes
    /\ \A n \in nodes : n \in Physical /\ HasPart(q, n)

(* The router owes that to a table whose nodes exist and whose rows are     *)
(* spread by their key, or not spread, as its rule says ...                 *)
SpreadByKey(table, spread) ==
  /\ table \in DOMAIN Rules /\ WellConfigured(Rules[table], spread)
  /\ Denoted(Rules[table].actualDataNodes[1]) \subseteq Physical
  /\ \A k \in Keys : NodesFor(Rules[table].actualDataNodes[1], spread, [id |-> k]) = {Home[k]}

(* ... if INSERTs are hinted to the home of their key, and the other        *)
(* statements are about several rows or say the key of one.                 *)
UsedByKey(table, spread) ==
  \A q \in Statements :
    IF q.verb = "INSERT"
    THEN /\ q.class = "plain" /\ Readable(q)
         /\ q.hintDS = <<Home[q.key].ds>> /\ q.hintTable = <<Home[q.key].table>>
    ELSE /\ q.table = table /\ RoutedByKeys(q, spread)
         /\ Cardinality(About(q)) > 1 \/ (About(q) # {} /\ GivesShards(q, spread))
=============================================================================
