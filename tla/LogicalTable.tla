---------------------------- MODULE LogicalTable -----------------------------
(***************************************************************************)
(* What a sharded table is to the sessions that use it through the proxy:  *)
(* one table.  A statement takes effect on each row it is about exactly    *)
(* once, between its start and its end, and on no other row.  Statements   *)
(* about several rows are not atomic: each data node does its part in its  *)
(* own time.  Rows whose data source may fail are passed over when it does,*)
(* or changed without a word; the answer is an error if no part was heard  *)
(* of, and silent about it otherwise.                                      *)
(***************************************************************************)
EXTENDS Naturals, FiniteSets, Sequences

CONSTANTS
  Sessions, Statements,
  Keys,               \* the primary keys
  NoRow,              \* what the table has for a key without a row
  Idle,               \* what a session without a statement is running
  Unreliable,         \* the keys whose data source may fail
  Concerns(_, _),     \* (statement, key): the statement is about that row
  Selects(_),         \* the statement returns rows
  Written(_, _),      \* (statement, row): what it makes of the row
  Conflicts(_, _)     \* (statement, row): it is refused because of the row

VARIABLES
  table,     \* key -> its row
  running,   \* session -> its statement
  left,      \* session -> the keys its statement has yet to take effect on
  seen,      \* session -> key -> the rows its answer has for the key
  changed,   \* session -> how many rows it changed
  heard,     \* session -> some part of its statement was executed and heard of
  refused    \* session -> its answer is an error

lvars == <<table, running, left, seen, changed, heard, refused>>

NothingSeen == [k \in Keys |-> <<>>]

LInit ==
  /\ table = [k \in Keys |-> NoRow]
  /\ running = [s \in Sessions |-> Idle]
  /\ left = [s \in Sessions |-> {}]
  /\ seen = [s \in Sessions |-> NothingSeen]
  /\ changed = [s \in Sessions |-> 0]
  /\ heard = [s \in Sessions |-> FALSE]
  /\ refused = [s \in Sessions |-> FALSE]

Start(s, q) ==
  /\ running[s] = Idle
  /\ running' = [running EXCEPT ![s] = q]
  /\ left' = [left EXCEPT ![s] = {k \in Keys : Concerns(q, k)}]
  /\ seen' = [seen EXCEPT ![s] = NothingSeen]
  /\ changed' = [changed EXCEPT ![s] = 0]
  /\ heard' = [heard EXCEPT ![s] = FALSE]
  /\ refused' = [refused EXCEPT ![s] = FALSE]
  /\ UNCHANGED table

(* A statement about several rows also goes to nodes that have none of them. *)
IsPart(q, K) == K # {} \/ Cardinality({k \in Keys : Concerns(q, k)}) > 1

After(q, K) == [k \in Keys |-> IF k \in K THEN Written(q, table[k]) ELSE table[k]]

Effect(s, K) ==
  LET q == running[s]
      conflict == \E k \in K : Conflicts(q, table[k])
  IN
    /\ UNCHANGED running
    /\ q # Idle /\ IsPart(q, K)
    /\ heard' = [heard EXCEPT ![s] = @ \/ ~conflict]
    /\ refused' = [refused EXCEPT ![s] = conflict]
    /\ left' = [left EXCEPT ![s] = @ \ K]
    /\ table' = After(q, K)
    /\ changed' = [changed EXCEPT ![s] =
         @ + Cardinality({k \in K : Written(q, table[k]) # table[k]})]
    /\ seen' = [seen EXCEPT ![s] = [k \in Keys |->
         IF k \in K /\ Selects(q) /\ table[k] # NoRow THEN <<table[k]>> ELSE @[k]]]

Gap(s, K) ==
  LET q == running[s] IN
    /\ UNCHANGED <<running, heard>>
    /\ q # Idle /\ IsPart(q, K) /\ K \subseteq Unreliable
    /\ refused' = [refused EXCEPT ![s] = ~heard[s]]
    /\ left' = [left EXCEPT ![s] = @ \ K]
    /\ table' \in {table, After(q, K)}
    /\ UNCHANGED <<seen, changed>>

Finish(s) ==
  /\ running[s] # Idle /\ left[s] = {}
  /\ running' = [running EXCEPT ![s] = Idle]
  /\ UNCHANGED <<table, left, seen, changed, heard, refused>>

LNext ==
  \E s \in Sessions :
    \/ Finish(s)
    \/ \E q \in Statements : Start(s, q)
    \/ \E K \in SUBSET left[s] : Effect(s, K) \/ Gap(s, K)

LSpec == LInit /\ [][LNext]_lvars
=============================================================================
