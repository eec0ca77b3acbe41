-------------------------- MODULE QueryPathProofs ----------------------------
(***************************************************************************)
(* Proofs about QueryPath for any layout, any number of sessions and any   *)
(* failures: the state is well typed, rows stay on their home nodes when   *)
(* every INSERT is placed there, and the proxy implements LogicalTable if  *)
(* moreover the statements reach the homes of the rows they are about;     *)
(* which they do by RoutingProofs when the tables are well configured.     *)
(***************************************************************************)
EXTENDS QueryPath, RoutingProofs

(* A session that is not running a statement waits for no node. *)
IdleInv == \A s \in Sessions : running[s] = Idle => todo[s] = {}

(* An INSERT on its way is on its way home. *)
OnTheWayHome ==
  \A s \in Sessions :
    (running[s] # Idle /\ running[s].verb = "INSERT") => todo[s] \subseteq {Home[running[s].key]}

(* What a statement makes of a row is again a row or none. *)
LEMMA WrittenType ==
  ASSUME NEW q \in Statements, NEW row \in Values \cup {NoRow}
  PROVE  Written(q, row) \in Values \cup {NoRow}
  BY QueryPathAssumption DEF QueryPathAssumption, Written

(* Only an INSERT makes a row where there was none. *)
LEMMA OnlyInsertCreates ==
  ASSUME NEW q, Written(q, NoRow) # NoRow
  PROVE  q.verb = "INSERT"
  BY DEF Written

(* So tables keep holding rows when a statement is executed. *)
LEMMA ApplyType ==
  ASSUME contents \in [Physical -> [Keys -> Values \cup {NoRow}]],
         NEW q \in Statements, NEW n \in Physical, Apply(q, n)
  PROVE  contents' \in [Physical -> [Keys -> Values \cup {NoRow}]]
<1> DEFINE row == [k \in Keys |->
                    IF Concerns(q, k) THEN Written(q, contents[n][k]) ELSE contents[n][k]]
<1>1. contents[n] \in [Keys -> Values \cup {NoRow}]
  OBVIOUS
<1>2. \A k \in Keys : Written(q, contents[n][k]) \in Values \cup {NoRow}
  BY <1>1, WrittenType
<1>3. row \in [Keys -> Values \cup {NoRow}]
  BY <1>1, <1>2
<1>4. contents' = [contents EXCEPT ![n] = row]
  BY DEF Apply
<1> QED BY <1>3, <1>4
-----------------------------------------------------------------------------
(* The types are kept by every step: nothing but rows gets into the tables  *)
(* and the answers, and the counters of an answer count.                    *)
LEMMA TypeStep == TypeOK /\ IdleInv /\ [Next]_vars => TypeOK'
<1> SUFFICES ASSUME TypeOK, IdleInv, [Next]_vars PROVE TypeOK'
  OBVIOUS
<1>1. CASE UNCHANGED vars
  BY <1>1 DEF TypeOK, vars
<1>2. ASSUME NEW s \in Sessions, NEW q \in Statements, Begin(s, q) PROVE TypeOK'
  <2>1. NoRows \in [Keys -> Seq(Values)]
    BY DEF NoRows
  <2>2. (/\ contents \in [Physical -> [Keys -> Values \cup {NoRow}]]
         /\ running \in [Sessions -> Statements \cup {Idle}])'
    BY <1>2 DEF TypeOK, Begin
  <2>3. (todo = [t \in Sessions |-> todo[t]])'
    BY <1>2 DEF TypeOK, Begin
  <2>4. (rows \in [Sessions -> [Keys -> Seq(Values)]])'
    BY <1>2, <2>1 DEF TypeOK, Begin
  <2>5. (/\ affected \in [Sessions -> Nat] /\ oks \in [Sessions -> Nat]
         /\ errs \in [Sessions -> Nat])'
    BY <1>2 DEF TypeOK, Begin
  <2> QED BY <2>2, <2>3, <2>4, <2>5 DEF TypeOK
<1>3. ASSUME NEW s \in Sessions, NEW n \in todo[s], Execute(s, n) PROVE TypeOK'
  <2> DEFINE q == running[s]
             K == {k \in Keys : Concerns(q, k)}
             J == {k \in K : Written(q, contents[n][k]) # contents[n][k]}
  <2>1. q \in Statements /\ n \in Physical
    BY <1>3 DEF TypeOK, IdleInv, Execute, Refused
  <2>2. contents[n] \in [Keys -> Values \cup {NoRow}]
    BY <2>1 DEF TypeOK
  <2>3. (contents \in [Physical -> [Keys -> Values \cup {NoRow}]])'
    BY <1>3, <2>1, ApplyType DEF TypeOK, Execute
  <2>4. (rows \in [Sessions -> [Keys -> Seq(Values)]])'
    <3> DEFINE result == [k \in Keys |->
                 IF k \in K /\ Selects(q) /\ contents[n][k] # NoRow
                 THEN Append(rows[s][k], contents[n][k]) ELSE rows[s][k]]
    <3>1. rows[s] \in [Keys -> Seq(Values)]
      BY DEF TypeOK
    <3>2. ASSUME NEW k \in Keys, contents[n][k] # NoRow
          PROVE  Append(rows[s][k], contents[n][k]) \in Seq(Values)
      BY <2>2, <3>1, <3>2
    <3>3. result \in [Keys -> Seq(Values)]
      BY <3>1, <3>2
    <3>4. rows' = [rows EXCEPT ![s] = result]
      BY <1>3 DEF Execute
    <3> QED BY <3>3, <3>4 DEF TypeOK
  <2>5. (affected \in [Sessions -> Nat])'
    <3>1. Cardinality(J) \in Nat
      BY FS_Subset, FS_CardinalityType, QueryPathAssumption DEF QueryPathAssumption
    <3>2. affected' = [affected EXCEPT ![s] = @ + Cardinality(J)]
      BY <1>3 DEF Execute
    <3> QED BY <3>1, <3>2 DEF TypeOK
  <2>6. (/\ running \in [Sessions -> Statements \cup {Idle}]
         /\ oks \in [Sessions -> Nat] /\ errs \in [Sessions -> Nat])'
    BY <1>3 DEF TypeOK, Execute
  <2>7. (todo = [t \in Sessions |-> todo[t]])'
    BY <1>3 DEF TypeOK, Execute, Leaves
  <2> QED BY <2>3, <2>4, <2>5, <2>6, <2>7 DEF TypeOK
<1>4. ASSUME NEW s \in Sessions, NEW n \in todo[s], Fail(s, n) PROVE TypeOK'
  <2>1. errs' = [errs EXCEPT ![s] = @ + 1]
    BY <1>4 DEF Fail
  <2>2. todo' = [todo EXCEPT ![s] = @ \ {n}]
    BY <1>4 DEF Fail, Leaves
  <2>3. (errs \in [Sessions -> Nat])'
    BY <2>1 DEF TypeOK
  <2>4. (todo = [t \in Sessions |-> todo[t]])'
    BY <2>2 DEF TypeOK
  <2>5. (contents \in [Physical -> [Keys -> Values \cup {NoRow}]])'
    <3>1. CASE UNCHANGED contents
      BY <3>1 DEF TypeOK
    <3>2. CASE ~Refused(running[s], n) /\ Apply(running[s], n)
      <4>1. running[s] \in Statements /\ n \in Physical
        BY <3>2 DEF TypeOK, IdleInv, Refused
      <4> QED BY <3>2, <4>1, ApplyType DEF TypeOK
    <3> QED BY <1>4, <3>1, <3>2 DEF Fail
  <2>6. UNCHANGED <<running, rows, affected, oks>>
    BY <1>4 DEF Fail
  <2> QED BY <2>3, <2>4, <2>5, <2>6 DEF TypeOK
<1>5. ASSUME NEW s \in Sessions, End(s) PROVE TypeOK'
  BY <1>5 DEF TypeOK, End
<1> QED
  BY <1>1, <1>2, <1>3, <1>4, <1>5 DEF Next

LEMMA IdleStep == TypeOK /\ IdleInv /\ [Next]_vars => IdleInv'
<1> SUFFICES ASSUME TypeOK, IdleInv, [Next]_vars PROVE IdleInv'
  OBVIOUS
<1>1. CASE UNCHANGED vars
  BY <1>1 DEF IdleInv, vars
<1>2. ASSUME NEW s \in Sessions, NEW q \in Statements, Begin(s, q) PROVE IdleInv'
  BY <1>2, QueryPathAssumption DEF QueryPathAssumption, TypeOK, IdleInv, Begin
<1>3. ASSUME NEW s \in Sessions, NEW n \in todo[s], Execute(s, n) \/ Fail(s, n)
      PROVE  IdleInv'
  <2>1. UNCHANGED running /\ todo' = [todo EXCEPT ![s] = @ \ {n}]
    BY <1>3 DEF Execute, Fail, Leaves
  <2> QED BY <2>1 DEF TypeOK, IdleInv
<1>4. ASSUME NEW s \in Sessions, End(s) PROVE IdleInv'
  BY <1>4 DEF TypeOK, IdleInv, End
<1> QED
  BY <1>1, <1>2, <1>3, <1>4 DEF Next

(* The tables hold rows, the answers hold rows, and a session between two   *)
(* statements has no node left to wait for, whatever is routed where.       *)
THEOREM TypeCorrect == Spec => [](TypeOK /\ IdleInv)
<1>1. Init => TypeOK /\ IdleInv
  BY DEF Init, TypeOK, IdleInv, NoRows
<1>2. TypeOK /\ IdleInv /\ [Next]_vars => (TypeOK /\ IdleInv)'
  BY TypeStep, IdleStep
<1> QED
  BY <1>1, <1>2, PTL DEF Spec
-----------------------------------------------------------------------------
(* How an INSERT is placed: with hints for the source and the table of its  *)
(* home, in comments behind the table.  The rule of the table is not asked. *)
LEMMA HintsPlace ==
  ASSUME NEW q \in Statements,
         q.class = "plain", Readable(q),
         q.hintDS # <<>>, q.hintTable # <<>>
  PROVE  NodeSets(q) = {{DataNode(q.hintDS[1], q.hintTable[1])}}
<1> DEFINE home == DataNode(q.hintDS[1], q.hintTable[1])
<1>1. HasHint(q) /\ ExtractTableName(q) = <<q.table>>
  BY DEF HasHint, Readable, ExtractTableName, HidesTheVerb, TakenForTheName
<1>2. routeWithHint(q) = ToNodes({home})
  BY <1>1 DEF routeWithHint
<1>3. Route(q) = ToNodes({home})
  BY <1>1, <1>2 DEF Route
<1> QED
  BY <1>3 DEF NodeSets, ToNodes

LEMMA WayStep ==
  ASSUME InsertsPlaced
  PROVE  TypeOK /\ OnTheWayHome /\ [Next]_vars => OnTheWayHome'
<1> SUFFICES ASSUME TypeOK, OnTheWayHome, [Next]_vars PROVE OnTheWayHome'
  OBVIOUS
<1>1. CASE UNCHANGED vars
  BY <1>1 DEF OnTheWayHome, vars
<1>2. ASSUME NEW s \in Sessions, NEW q \in Statements, Begin(s, q) PROVE OnTheWayHome'
  <2>1. PICK nodes \in NodeSets(q) : todo' = [todo EXCEPT ![s] = nodes]
    BY <1>2 DEF Begin
  <2>2. running' = [running EXCEPT ![s] = q]
    BY <1>2 DEF Begin
  <2>3. q.verb = "INSERT" => nodes \subseteq {Home[q.key]}
    BY DEF InsertsPlaced
  <2> QED BY <2>1, <2>2, <2>3 DEF TypeOK, OnTheWayHome
<1>3. ASSUME NEW s \in Sessions, NEW n \in todo[s], Execute(s, n) \/ Fail(s, n)
      PROVE  OnTheWayHome'
  <2>1. UNCHANGED running /\ todo' = [todo EXCEPT ![s] = @ \ {n}]
    BY <1>3 DEF Execute, Fail, Leaves
  <2> QED BY <2>1 DEF TypeOK, OnTheWayHome
<1>4. ASSUME NEW s \in Sessions, End(s) PROVE OnTheWayHome'
  BY <1>4 DEF TypeOK, OnTheWayHome, End
<1> QED
  BY <1>1, <1>2, <1>3, <1>4 DEF Next

LEMMA HomeStep ==
  TypeOK /\ IdleInv /\ OnTheWayHome /\ RowsAtHome /\ [Next]_vars => RowsAtHome'
<1> SUFFICES ASSUME TypeOK, IdleInv, OnTheWayHome, RowsAtHome, [Next]_vars
             PROVE  RowsAtHome'
  OBVIOUS
<1>1. CASE UNCHANGED contents
  BY <1>1 DEF RowsAtHome
<1>2. ASSUME NEW s \in Sessions, NEW n \in todo[s],
             ~Refused(running[s], n), Apply(running[s], n)
      PROVE  RowsAtHome'
  <2> DEFINE q == running[s]
  <2>1. q # Idle /\ n \in Physical
    BY <1>2 DEF IdleInv, Refused
  <2>2. SUFFICES ASSUME NEW m \in Physical, NEW k \in Keys, contents'[m][k] # NoRow
                 PROVE  m = Home[k]
    BY DEF RowsAtHome
  <2>3. CASE contents[m][k] # NoRow
    BY <2>3 DEF RowsAtHome
  <2>4. CASE contents[m][k] = NoRow
    <3> DEFINE row == [l \in Keys |->
           IF Concerns(q, l) THEN Written(q, contents[n][l]) ELSE contents[n][l]]
    <3>1. contents' = [contents EXCEPT ![n] = row]
      BY <1>2 DEF Apply
    <3>2. m = n /\ contents'[n][k] = row[k]
      BY <2>1, <2>2, <2>4, <3>1 DEF TypeOK
    <3>3. Concerns(q, k) /\ Written(q, NoRow) # NoRow
      BY <2>2, <2>4, <3>2
    <3>4. q.verb = "INSERT"
      BY <3>3, OnlyInsertCreates
    <3>5. k = q.key
      BY <3>3, <3>4 DEF Concerns
    <3> QED BY <2>1, <3>2, <3>4, <3>5 DEF OnTheWayHome
  <2> QED BY <2>3, <2>4
<1>3. ASSUME NEW s \in Sessions, NEW n \in todo[s], Execute(s, n) \/ Fail(s, n)
      PROVE  RowsAtHome'
  BY <1>1, <1>2, <1>3 DEF Execute, Fail
<1> QED
  BY <1>1, <1>3 DEF Next, vars, Begin, End

(* A row is never stored on another node than its home, for any layout and  *)
(* any rules, however the sessions interleave and whichever nodes fail, if  *)
(* every INSERT is placed there.                                            *)
THEOREM PlacedRowsStayHome ==
  ASSUME InsertsPlaced
  PROVE  Spec => []RowsAtHome
<1> DEFINE IInv == TypeOK /\ IdleInv /\ OnTheWayHome /\ RowsAtHome
<1>1. Init => IInv
  BY DEF Init, TypeOK, IdleInv, NoRows, OnTheWayHome, RowsAtHome
<1>2. IInv /\ [Next]_vars => IInv'
  BY TypeStep, IdleStep, WayStep, HomeStep
<1>3. IInv => RowsAtHome
  OBVIOUS
<1> QED
  BY <1>1, <1>2, <1>3, PTL DEF Spec

(* The same with the hints themselves: a client that writes the home node   *)
(* of the key into the hints of each INSERT keeps every row at its home.    *)
THEOREM HintedRowsStayHome ==
  ASSUME \A q \in Statements : q.verb = "INSERT" =>
           /\ q.class = "plain" /\ Readable(q)
           /\ q.hintDS = <<Home[q.key].ds>> /\ q.hintTable = <<Home[q.key].table>>,
         \A k \in Keys : Home[k] = DataNode(Home[k].ds, Home[k].table)
  PROVE  Spec => []RowsAtHome
<1>1. InsertsPlaced
  <2> SUFFICES ASSUME NEW q \in Statements, q.verb = "INSERT"
               PROVE  NodeSets(q) = {{Home[q.key]}}
    BY DEF InsertsPlaced
  <2>1. q.key \in Keys
    BY QueryPathAssumption DEF QueryPathAssumption
  <2>2. /\ q.hintDS # <<>> /\ q.hintDS[1] = Home[q.key].ds
        /\ q.hintTable # <<>> /\ q.hintTable[1] = Home[q.key].table
    OBVIOUS
  <2>3. NodeSets(q) = {{DataNode(q.hintDS[1], q.hintTable[1])}}
    BY <2>2, HintsPlace
  <2> QED BY <2>1, <2>2, <2>3
<1> QED
  BY <1>1, PlacedRowsStayHome
-----------------------------------------------------------------------------
(* The refinement *)

(* A node that is yet to be asked has a part in the statement. *)
WayInv ==
  \A s \in Sessions :
    running[s] # Idle => \A n \in todo[s] : n \in Physical /\ HasPart(running[s], n)

(* Nothing was read yet of a key whose home is still to be asked. *)
UnseenInv ==
  \A s \in Sessions : \A k \in Keys : Home[k] \in todo[s] => rows[s][k] = <<>>

(* An INSERT has one node, so when it has that before it, nothing is done. *)
InsertInv ==
  \A s \in Sessions :
    (running[s] # Idle /\ running[s].verb = "INSERT" /\ todo[s] # {}) => oks[s] = 0

Inv == TypeOK /\ IdleInv /\ OnTheWayHome /\ RowsAtHome /\ WayInv /\ UnseenInv /\ InsertInv

(* The abstract state *)
table_   == [k \in Keys |-> contents[Home[k]][k]]
left_    == [s \in Sessions |->
              IF running[s] = Idle THEN {}
              ELSE {k \in Keys : Concerns(running[s], k) /\ Home[k] \in todo[s]}]
heard_   == [s \in Sessions |-> oks[s] > 0]
refused_ == [s \in Sessions |-> IsError(s)]

LEMMA Homes == ASSUME NEW k \in Keys PROVE Home[k] \in Physical
  BY QueryPathAssumption DEF QueryPathAssumption
-----------------------------------------------------------------------------
LEMMA WayInvStep ==
  ASSUME ReachesHomes, TypeOK, WayInv, [Next]_vars
  PROVE  WayInv'
<1>1. CASE UNCHANGED vars
  BY <1>1 DEF WayInv, vars
<1>2. ASSUME NEW s \in Sessions, NEW q \in Statements, Begin(s, q) PROVE WayInv'
  <2>1. PICK nodes \in NodeSets(q) : todo' = [todo EXCEPT ![s] = nodes]
    BY <1>2 DEF Begin
  <2>2. running' = [running EXCEPT ![s] = q]
    BY <1>2 DEF Begin
  <2>3. \A n \in nodes : n \in Physical /\ HasPart(q, n)
    BY DEF ReachesHomes
  <2> QED BY <2>1, <2>2, <2>3 DEF TypeOK, WayInv
<1>3. ASSUME NEW s \in Sessions, NEW n \in todo[s], Execute(s, n) \/ Fail(s, n)
      PROVE  WayInv'
  <2>1. UNCHANGED running /\ todo' = [todo EXCEPT ![s] = @ \ {n}]
    BY <1>3 DEF Execute, Fail, Leaves
  <2> QED BY <2>1 DEF TypeOK, WayInv
<1>4. ASSUME NEW s \in Sessions, End(s) PROVE WayInv'
  BY <1>4 DEF TypeOK, WayInv, End
<1> QED
  BY <1>1, <1>2, <1>3, <1>4 DEF Next

LEMMA UnseenStep ==
  ASSUME TypeOK, RowsAtHome, IdleInv, UnseenInv, [Next]_vars
  PROVE  UnseenInv'
<1> SUFFICES ASSUME NEW t \in Sessions, NEW k \in Keys, Home[k] \in todo'[t]
             PROVE  rows'[t][k] = <<>>
  BY DEF UnseenInv
<1>1. CASE UNCHANGED vars
  BY <1>1 DEF UnseenInv, vars
<1>2. ASSUME NEW s \in Sessions, NEW q \in Statements, Begin(s, q) PROVE rows'[t][k] = <<>>
  BY <1>2 DEF TypeOK, UnseenInv, Begin, NoRows
<1>3. ASSUME NEW s \in Sessions, NEW n \in todo[s], Execute(s, n) PROVE rows'[t][k] = <<>>
  <2>1. todo' = [todo EXCEPT ![s] = @ \ {n}]
    BY <1>3 DEF Execute, Leaves
  <2>2. Home[k] \in todo[t] /\ (t = s => Home[k] # n)
    BY <2>1 DEF TypeOK
  <2>3. n \in Physical
    BY <1>3 DEF Execute, Refused
  <2>4. t = s => contents[n][k] = NoRow
    BY <2>2, <2>3 DEF RowsAtHome
  <2>5. rows'[t][k] = rows[t][k]
    BY <1>3, <2>4 DEF TypeOK, Execute
  <2> QED BY <2>2, <2>5 DEF UnseenInv
<1>4. ASSUME NEW s \in Sessions, NEW n \in todo[s], Fail(s, n) PROVE rows'[t][k] = <<>>
  BY <1>4 DEF TypeOK, UnseenInv, Fail, Leaves
<1>5. ASSUME NEW s \in Sessions, End(s) PROVE rows'[t][k] = <<>>
  BY <1>5 DEF UnseenInv, End
<1> QED
  BY <1>1, <1>2, <1>3, <1>4, <1>5 DEF Next

LEMMA InsertStep ==
  ASSUME TypeOK, OnTheWayHome, InsertInv, [Next]_vars
  PROVE  InsertInv'
<1> SUFFICES ASSUME NEW t \in Sessions, running'[t] # Idle, running'[t].verb = "INSERT",
                    todo'[t] # {}
             PROVE  oks'[t] = 0
  BY DEF InsertInv
<1>1. CASE UNCHANGED vars
  BY <1>1 DEF InsertInv, vars
<1>2. ASSUME NEW s \in Sessions, NEW q \in Statements, Begin(s, q) PROVE oks'[t] = 0
  BY <1>2 DEF TypeOK, InsertInv, Begin
<1>3. ASSUME NEW s \in Sessions, NEW n \in todo[s], Execute(s, n) \/ Fail(s, n)
      PROVE  oks'[t] = 0
  <2>1. UNCHANGED running /\ todo' = [todo EXCEPT ![s] = @ \ {n}]
    BY <1>3 DEF Execute, Fail, Leaves
  <2>2. t # s
    BY <2>1 DEF TypeOK, OnTheWayHome
  <2>3. todo'[t] = todo[t] /\ oks'[t] = oks[t]
    BY <1>3, <2>1, <2>2 DEF TypeOK, Execute, Fail
  <2> QED BY <2>1, <2>3 DEF InsertInv
<1>4. ASSUME NEW s \in Sessions, End(s) PROVE oks'[t] = 0
  BY <1>4 DEF TypeOK, InsertInv, End
<1> QED
  BY <1>1, <1>2, <1>3, <1>4 DEF Next

LEMMA Invariance ==
  ASSUME InsertsPlaced, ReachesHomes
  PROVE  Spec => []Inv
<1>1. Init => Inv
  <2>1. Init => TypeOK /\ IdleInv
    BY DEF Init, TypeOK, IdleInv, NoRows
  <2> QED
    BY <2>1 DEF Inv, Init, NoRows, OnTheWayHome, RowsAtHome, WayInv, UnseenInv, InsertInv
<1>2. Inv /\ [Next]_vars => Inv'
  BY TypeStep, IdleStep, WayStep, HomeStep, WayInvStep, UnseenStep, InsertStep DEF Inv
<1> QED
  BY <1>1, <1>2, PTL DEF Spec
-----------------------------------------------------------------------------
(* What is so when a node n takes its turn: the statement is about no row   *)
(* there but those of its share, and makes none.                            *)
Turn(s, n) ==
  /\ running[s] \in Statements /\ running[s] # Idle
  /\ n \in Physical
  /\ HasPart(running[s], n)
  /\ \A k \in Keys : Concerns(running[s], k) /\ Home[k] # n =>
       contents[n][k] = NoRow /\ Written(running[s], NoRow) = NoRow

LEMMA TakesTurn ==
  ASSUME Inv, NEW s \in Sessions, NEW n \in todo[s]
  PROVE  Turn(s, n)
<1>1. running[s] \in Statements /\ running[s] # Idle
  BY DEF Inv, TypeOK, IdleInv
<1>2. n \in Physical /\ HasPart(running[s], n)
  BY <1>1 DEF Inv, WayInv
<1>3. ASSUME NEW k \in Keys, Concerns(running[s], k), Home[k] # n
      PROVE  contents[n][k] = NoRow /\ Written(running[s], NoRow) = NoRow
  <2>1. contents[n][k] = NoRow
    BY <1>2, <1>3 DEF Inv, RowsAtHome
  <2>2. running[s].verb # "INSERT"
    BY <1>1, <1>3 DEF Inv, OnTheWayHome, Concerns
  <2> QED BY <2>1, <2>2, OnlyInsertCreates
<1> QED BY <1>1, <1>2, <1>3 DEF Turn

LEMMA SamePart ==
  ASSUME NEW q, NEW n, HasPart(q, n)
  PROVE  Seen!IsPart(q, Share(q, n))
<1>1. Seen!Cardinality({k \in Keys : Concerns(q, k)}) = Cardinality({k \in Keys : Concerns(q, k)})
  BY DEF Seen!Cardinality, Cardinality
<1> QED BY <1>1 DEF HasPart, About, Seen!IsPart

(* A statement that a node executes takes effect on the rows of its share.  *)
LEMMA ApplyRefines ==
  ASSUME Inv, NEW s \in Sessions, NEW n \in todo[s], Apply(running[s], n)
  PROVE  table_' = Seen!After(running[s], Share(running[s], n))
<1> DEFINE q == running[s]
<1>1. Turn(s, n)
  BY TakesTurn
<1>2. ASSUME NEW k \in Keys
      PROVE  contents'[Home[k]][k] = IF k \in Share(q, n) THEN Written(q, contents[Home[k]][k])
                                                          ELSE contents[Home[k]][k]
  BY <1>1, Homes DEF Inv, TypeOK, Turn, Apply, Share
<1>3. table_' = [k \in Keys |-> contents'[Home[k]][k]]
  BY DEF table_
<1>4. Seen!After(q, Share(q, n)) =
        [k \in Keys |-> IF k \in Share(q, n) THEN Written(q, contents[Home[k]][k])
                                             ELSE contents[Home[k]][k]]
  BY DEF Seen!After
<1> QED BY <1>2, <1>3, <1>4

LEMMA LeftRefines ==
  ASSUME Inv, NEW s \in Sessions, NEW n \in todo[s], Leaves(s, n), UNCHANGED running
  PROVE  /\ left_' = [left_ EXCEPT ![s] = @ \ Share(running[s], n)]
         /\ Share(running[s], n) \in SUBSET left_[s]
<1>1. Turn(s, n)
  BY TakesTurn
<1>2. todo' = [todo EXCEPT ![s] = @ \ {n}]
  BY DEF Leaves
<1> QED BY <1>1, <1>2 DEF Inv, TypeOK, Turn, left_, Share

-----------------------------------------------------------------------------
(* One session's answer changes and no other's. *)
LEMMA OneFlag ==
  ASSUME NEW f \in [Sessions -> BOOLEAN], NEW g \in [Sessions -> BOOLEAN],
         NEW s \in Sessions, NEW b \in BOOLEAN,
         g[s] <=> b, \A t \in Sessions \ {s} : g[t] <=> f[t]
  PROVE  g = [f EXCEPT ![s] = b]
  OBVIOUS

LEMMA Flags ==
  /\ heard_ \in [Sessions -> BOOLEAN] /\ heard_' \in [Sessions -> BOOLEAN]
  /\ refused_ \in [Sessions -> BOOLEAN] /\ refused_' \in [Sessions -> BOOLEAN]
  BY DEF heard_, refused_, IsError

LEMMA FlagsAt ==
  ASSUME NEW t \in Sessions
  PROVE  /\ (heard_[t] <=> oks[t] > 0) /\ (heard_'[t] <=> oks'[t] > 0)
         /\ (refused_[t] <=> errs[t] > 0 /\ oks[t] = 0)
         /\ (refused_'[t] <=> errs'[t] > 0 /\ oks'[t] = 0)
  BY DEF heard_, refused_, IsError

LEMMA BeginRefines ==
  ASSUME ReachesHomes, Inv, NEW s \in Sessions, NEW q \in Statements, Begin(s, q)
  PROVE  Seen!Start(s, q)
<1>0. /\ ~(oks'[s] > 0) /\ ~(errs'[s] > 0)
      /\ \A t \in Sessions \ {s} : oks'[t] = oks[t] /\ errs'[t] = errs[t]
  BY DEF Inv, TypeOK, Begin
<1>1. PICK nodes \in NodeSets(q) : todo' = [todo EXCEPT ![s] = nodes]
  BY DEF Begin
<1>2. \A k \in Keys : Concerns(q, k) => Home[k] \in nodes
  BY DEF ReachesHomes
<1>3. running[s] = Idle /\ running' = [running EXCEPT ![s] = q] /\ q # Idle
  BY QueryPathAssumption DEF QueryPathAssumption, Begin
<1>4. left_' = [left_ EXCEPT ![s] = {k \in Keys : Concerns(q, k)}]
  BY <1>1, <1>2, <1>3 DEF Inv, TypeOK, left_
<1>5. rows' = [rows EXCEPT ![s] = Seen!NothingSeen]
  BY DEF Begin, NoRows, Seen!NothingSeen
<1>6. heard_' = [heard_ EXCEPT ![s] = FALSE]
  <2>1. ~heard_'[s] /\ \A t \in Sessions \ {s} : heard_'[t] <=> heard_[t]
    BY <1>0, FlagsAt
  <2> QED BY <2>1, Flags, OneFlag
<1>7. refused_' = [refused_ EXCEPT ![s] = FALSE]
  <2>1. ~refused_'[s] /\ \A t \in Sessions \ {s} : refused_'[t] <=> refused_[t]
    BY <1>0, FlagsAt
  <2> QED BY <2>1, Flags, OneFlag
<1>8. affected' = [affected EXCEPT ![s] = 0] /\ UNCHANGED table_
  BY DEF Begin, table_
<1> QED
  BY <1>3, <1>4, <1>5, <1>6, <1>7, <1>8 DEF Seen!Start, left_, heard_, refused_, table_

LEMMA ExecuteRefines ==
  ASSUME Inv, NEW s \in Sessions, NEW n \in todo[s], Execute(s, n),
         NEW K, K = Share(running[s], n)
  PROVE  Seen!Effect(s, K)
<1> DEFINE q == running[s]
<1>0. /\ oks'[s] > 0 /\ oks'[s] # 0
      /\ \A t \in Sessions \ {s} : oks'[t] = oks[t] /\ errs'[t] = errs[t]
  BY DEF Inv, TypeOK, Execute
<1>1. Turn(s, n)
  BY TakesTurn
<1>2. UNCHANGED running /\ q # Idle /\ Seen!IsPart(q, K)
  BY <1>1, SamePart DEF Turn, Execute
<1>3. \A k \in K : table_[k] = contents[n][k] /\ k \in Keys /\ Concerns(q, k)
  BY DEF Share, table_
<1>4. ~ \E k \in K : Conflicts(q, table_[k])
  BY <1>1, <1>3 DEF Execute, Refused, Turn
<1>5. left_' = [left_ EXCEPT ![s] = @ \ K]
  BY LeftRefines DEF Execute
<1>6. table_' = Seen!After(q, K)
  BY ApplyRefines DEF Execute
<1>7. heard_' = [heard_ EXCEPT ![s] = TRUE]
  <2>1. heard_'[s] /\ \A t \in Sessions \ {s} : heard_'[t] <=> heard_[t]
    BY <1>0, FlagsAt
  <2> QED BY <2>1, Flags, OneFlag
<1>8. refused_' = [refused_ EXCEPT ![s] = FALSE]
  <2>1. ~refused_'[s] /\ \A t \in Sessions \ {s} : refused_'[t] <=> refused_[t]
    BY <1>0, FlagsAt
  <2> QED BY <2>1, Flags, OneFlag
<1>9. affected' = [affected EXCEPT ![s] =
        @ + Seen!Cardinality({k \in K : Written(q, table_[k]) # table_[k]})]
  <2> DEFINE A == {k \in {l \in Keys : Concerns(q, l)} : Written(q, contents[n][k]) # contents[n][k]}
             B == {k \in K : Written(q, table_[k]) # table_[k]}
  <2>1. A = B
    BY <1>1, <1>3 DEF Turn, Share
  <2>2. Seen!Cardinality(B) = Cardinality(B)
    BY DEF Seen!Cardinality, Cardinality
  <2>3. affected' = [affected EXCEPT ![s] = @ + Cardinality(A)]
    BY DEF Execute
  <2> QED BY <2>1, <2>2, <2>3
<1>10. rows' = [rows EXCEPT ![s] = [k \in Keys |->
         IF k \in K /\ Selects(q) /\ table_[k] # NoRow THEN <<table_[k]>> ELSE @[k]]]
  <2> DEFINE old == [k \in Keys |->
               IF Concerns(q, k) /\ Selects(q) /\ contents[n][k] # NoRow
               THEN Append(rows[s][k], contents[n][k]) ELSE rows[s][k]]
             new == [k \in Keys |->
               IF k \in K /\ Selects(q) /\ table_[k] # NoRow THEN <<table_[k]>> ELSE rows[s][k]]
  <2>1. rows' = [rows EXCEPT ![s] = old]
    BY DEF Execute
  <2>2. ASSUME NEW k \in Keys PROVE old[k] = new[k]
    <3>1. CASE k \in K
      <4>1. rows[s][k] = <<>>
        BY <3>1 DEF Inv, UnseenInv, Share
      <4>2. \A x : Append(<<>>, x) = <<x>>
        OBVIOUS
      <4> QED BY <1>3, <3>1, <4>1, <4>2
    <3>2. CASE k \notin K
      BY <1>1, <3>2 DEF Turn, Share
    <3> QED BY <3>1, <3>2
  <2>3. old = new
    BY <2>2
  <2> QED BY <2>1, <2>3
<1>11. heard_' = [heard_ EXCEPT ![s] = @ \/ ~ \E k \in K : Conflicts(q, table_[k])]
  BY <1>4, <1>7 DEF heard_
<1>12. refused_' = [refused_ EXCEPT ![s] = \E k \in K : Conflicts(q, table_[k])]
  BY <1>4, <1>8 DEF refused_
<1> QED
  BY <1>2, <1>5, <1>6, <1>9, <1>10, <1>11, <1>12 DEF Seen!Effect, left_, heard_, refused_, table_


(* A node that refuses an INSERT has a row for its key, and the table keeps *)
(* it; that node was the only one, so the answer is an error.               *)
LEMMA RefusalRefines ==
  ASSUME Inv, NEW s \in Sessions, NEW n \in todo[s], Fail(s, n), Refused(running[s], n),
         NEW K, K = Share(running[s], n)
  PROVE  Seen!Effect(s, K)
<1> DEFINE q == running[s]
<1>1. Turn(s, n)
  BY TakesTurn
<1>2. UNCHANGED <<running, contents, rows, affected, oks>> /\ q # Idle /\ Seen!IsPart(q, K)
  BY <1>1, SamePart DEF Turn, Fail
<1>3. \A k \in K : table_[k] = contents[n][k] /\ k \in Keys /\ Concerns(q, k)
  BY DEF Share, table_
<1>4. PICK k \in Keys : Concerns(q, k) /\ Conflicts(q, contents[n][k])
  BY <1>1 DEF Refused, Turn
<1>5. q.verb = "INSERT" /\ contents[n][k] # NoRow
  BY <1>4 DEF Conflicts
<1>6. k \in K /\ \A l \in K : l = k
  BY <1>1, <1>3, <1>4, <1>5 DEF Turn, Share, Concerns
<1>7. \E l \in K : Conflicts(q, table_[l])
  BY <1>3, <1>4, <1>6
<1>8. \A l \in K : Written(q, table_[l]) = table_[l]
  BY <1>3, <1>5, <1>6 DEF Written
<1>9. left_' = [left_ EXCEPT ![s] = @ \ K]
  BY <1>2, LeftRefines DEF Fail
<1>10. table_' = Seen!After(q, K)
  BY <1>2, <1>8 DEF table_, Seen!After
<1>11. heard_' = [heard_ EXCEPT ![s] = @ \/ ~ \E l \in K : Conflicts(q, table_[l])]
  BY <1>2, <1>7, Flags DEF heard_
<1>12. refused_' = [refused_ EXCEPT ![s] = \E l \in K : Conflicts(q, table_[l])]
  <2>1. oks'[s] = 0 /\ errs'[s] > 0
    BY <1>2, <1>5 DEF Inv, TypeOK, InsertInv, Fail
  <2>2. \A t \in Sessions \ {s} : oks'[t] = oks[t] /\ errs'[t] = errs[t]
    BY DEF Inv, TypeOK, Fail
  <2>3. refused_'[s] /\ \A t \in Sessions \ {s} : refused_'[t] <=> refused_[t]
    BY <2>1, <2>2, FlagsAt
  <2>4. refused_' = [refused_ EXCEPT ![s] = TRUE]
    BY <2>3, Flags, OneFlag
  <2> QED BY <1>7, <2>4 DEF refused_
<1>13. affected' = [affected EXCEPT ![s] =
         @ + Seen!Cardinality({l \in K : Written(q, table_[l]) # table_[l]})]
  <2>1. {l \in K : Written(q, table_[l]) # table_[l]} = {}
    BY <1>8
  <2>2. Seen!Cardinality({}) = 0
    BY FS_EmptySet DEF Seen!Cardinality, Cardinality
  <2>3. affected[s] + 0 = affected[s]
    BY DEF Inv, TypeOK
  <2> QED BY <1>2, <2>1, <2>2, <2>3 DEF Inv, TypeOK
<1>14. rows' = [rows EXCEPT ![s] = [l \in Keys |->
         IF l \in K /\ Selects(q) /\ table_[l] # NoRow THEN <<table_[l]>> ELSE @[l]]]
  BY <1>2, <1>5 DEF Inv, TypeOK, Selects
<1> QED
  BY <1>2, <1>9, <1>10, <1>11, <1>12, <1>13, <1>14
     DEF Seen!Effect, left_, heard_, refused_, table_

(* Any other failure is one of a faulty source, and leaves a gap. *)
LEMMA FailRefines ==
  ASSUME Inv, NEW s \in Sessions, NEW n \in todo[s], Fail(s, n), ~Refused(running[s], n),
         NEW K, K = Share(running[s], n)
  PROVE  Seen!Gap(s, K)
<1> DEFINE q == running[s]
<1>1. Turn(s, n)
  BY TakesTurn
<1>2. UNCHANGED <<running, rows, affected, oks>> /\ q # Idle /\ Seen!IsPart(q, K)
  BY <1>1, SamePart DEF Turn, Fail
<1>3. K \subseteq {k \in Keys : Home[k].ds \in Faulty}
  BY DEF Fail, Share
<1>4. left_' = [left_ EXCEPT ![s] = @ \ K]
  BY <1>2, LeftRefines DEF Fail
<1>5. table_' \in {table_, Seen!After(q, K)}
  BY ApplyRefines DEF Fail, table_
<1>6. heard_' = heard_
  BY <1>2 DEF heard_
<1>7. refused_' = [refused_ EXCEPT ![s] = ~heard_[s]]
  <2>1. errs'[s] > 0 /\ oks'[s] = oks[s] /\ oks[s] \in Nat
    BY <1>2 DEF Inv, TypeOK, Fail
  <2>2. \A t \in Sessions \ {s} : oks'[t] = oks[t] /\ errs'[t] = errs[t]
    BY DEF Inv, TypeOK, Fail
  <2>3. refused_'[s] <=> ~heard_[s]
    BY <2>1, FlagsAt
  <2>4. \A t \in Sessions \ {s} : refused_'[t] <=> refused_[t]
    BY <2>2, FlagsAt
  <2> QED BY <2>3, <2>4, Flags, OneFlag
<1> QED
  BY <1>2, <1>3, <1>4, <1>5, <1>6, <1>7 DEF Seen!Gap, left_, heard_, refused_, table_

LEMMA EndRefines ==
  ASSUME Inv, NEW s \in Sessions, End(s)
  PROVE  Seen!Finish(s)
<1>1. todo[s] = {} /\ running[s] # Idle /\ running' = [running EXCEPT ![s] = Idle]
  BY DEF End
<1>2. left_[s] = {} /\ left_' = left_
  BY <1>1 DEF Inv, TypeOK, End, left_
<1>3. UNCHANGED <<table_, rows, affected, heard_, refused_>>
  BY DEF End, table_, heard_, refused_, IsError
<1> QED
  BY <1>1, <1>2, <1>3 DEF Seen!Finish, left_, heard_, refused_, table_

-----------------------------------------------------------------------------
LEMMA InitRefines == Init => Seen!LInit
<1> SUFFICES ASSUME Init PROVE Seen!LInit
  OBVIOUS
<1>1. table_ = [k \in Keys |-> NoRow]
  BY Homes DEF Init, table_
<1>2. left_ = [s \in Sessions |-> {}]
  BY DEF Init, left_
<1>3. heard_ = [s \in Sessions |-> FALSE] /\ refused_ = [s \in Sessions |-> FALSE]
  <2>1. \A s \in Sessions : ~(oks[s] > 0) /\ ~(errs[s] > 0)
    BY DEF Init
  <2>2. \A s \in Sessions : heard_[s] = FALSE /\ refused_[s] = FALSE
    BY <2>1, FlagsAt, Flags
  <2> QED BY <2>2, Flags
<1> QED
  BY <1>1, <1>2, <1>3
     DEF Init, NoRows, Seen!LInit, Seen!NothingSeen, table_, left_, heard_, refused_

LEMMA StepRefines ==
  ASSUME ReachesHomes, Inv, [Next]_vars
  PROVE  [Seen!LNext]_Seen!lvars
<1>1. CASE UNCHANGED vars
  <2>1. UNCHANGED <<table_, running, left_, rows, affected, heard_, refused_>>
    BY <1>1 DEF vars, table_, left_, heard_, refused_, IsError
  <2> QED BY <2>1 DEF Seen!lvars, table_, left_, heard_, refused_
<1>2. ASSUME NEW s \in Sessions, NEW q \in Statements, Begin(s, q) PROVE Seen!LNext
  BY <1>2, BeginRefines DEF Seen!LNext
<1>3. ASSUME NEW s \in Sessions, NEW n \in todo[s], Execute(s, n) \/ Fail(s, n)
      PROVE  Seen!LNext
  <2>1. PICK K \in SUBSET left_[s] : K = Share(running[s], n)
    BY <1>3, LeftRefines DEF Execute, Fail
  <2>2. Seen!Effect(s, K) \/ Seen!Gap(s, K)
    BY <1>3, <2>1, ExecuteRefines, RefusalRefines, FailRefines
  <2> QED BY <2>2 DEF Seen!LNext, left_
<1>4. ASSUME NEW s \in Sessions, End(s) PROVE Seen!LNext
  BY <1>4, EndRefines DEF Seen!LNext
<1> QED
  BY <1>1, <1>2, <1>3, <1>4 DEF Next

(* Through the proxy, the physical tables act as one table for each session, *)
(* for any layout, rules, number of sessions and failing sources: a statement*)
(* takes effect once on each row it is about and on no other, except in the  *)
(* gaps that a failing source leaves.  What this rests on is the routing:    *)
(* INSERTs are placed on the home of their key, and other statements are     *)
(* sent to every home of a row they are about.                               *)
THEOREM OneTable ==
  ASSUME InsertsPlaced, ReachesHomes
  PROVE  Spec => ActsAsOneTable
<1>1. Init => Seen!LInit
  BY InitRefines
<1>2. Inv /\ [Next]_vars => [Seen!LNext]_Seen!lvars
  BY StepRefines
<1>3. Spec => []Inv
  BY Invariance
<1> QED
  BY <1>1, <1>2, <1>3, PTL DEF Spec, ActsAsOneTable, Seen!LSpec
-----------------------------------------------------------------------------
(* The routing itself: of a table that is spread by key, and used by it,    *)
(* every statement reaches the homes of its rows.                           *)
LEMMA KeyedNodes ==
  ASSUME NEW table, NEW spread, SpreadByKey(table, spread), UsedByKey(table, spread),
         NEW q \in Statements, q.verb # "INSERT"
  PROVE  NodeSets(q) = {ReachedNodes(Rules[table].actualDataNodes[1], spread, q)}
<1> DEFINE rule == Rules[table]
           nodes == ReachedNodes(rule.actualDataNodes[1], spread, q)
<1>1. q.table = table /\ RoutedByKeys(q, spread)
  BY DEF UsedByKey
<1>2. table \in DOMAIN Rules /\ WellConfigured(rule, spread)
  BY DEF SpreadByKey
<1>3. NodesOfRule(rule).kind \in {"range", "node"} /\ RouteByRule(q, rule) = ToNodes(nodes)
  BY <1>1, <1>2, RuleReaches
<1>4. q.class = "plain" /\ ExtractTableName(q) = <<q.table>> /\ ~HasHint(q)
  BY <1>1 DEF RoutedByKeys, Readable, ExtractTableName, HidesTheVerb, TakenForTheName
<1>5. TableHasRule(q) /\ RuleOf(q) = rule /\ NodesOfRule(rule).kind # "panic"
  BY <1>1, <1>2, <1>3, <1>4 DEF TableHasRule, RuleOf
<1>6. Route(q) = ToNodes(nodes)
  BY <1>1, <1>3, <1>4, <1>5 DEF Route
<1> QED
  BY <1>6 DEF NodeSets, ToNodes

LEMMA KeyedReaches ==
  ASSUME NEW table, NEW spread, SpreadByKey(table, spread), UsedByKey(table, spread)
  PROVE  InsertsPlaced /\ ReachesHomes
<1> DEFINE layout == Rules[table].actualDataNodes[1]
<1>1. ASSUME NEW q \in Statements, q.verb = "INSERT"
      PROVE  NodeSets(q) = {{Home[q.key]}} /\ q.key \in Keys
  <2>1. q.key \in Keys
    BY <1>1, QueryPathAssumption DEF QueryPathAssumption
  <2>2. /\ q.class = "plain" /\ Readable(q)
        /\ q.hintDS = <<Home[q.key].ds>> /\ q.hintTable = <<Home[q.key].table>>
    BY <1>1 DEF UsedByKey
  <2>3. /\ q.hintDS # <<>> /\ q.hintDS[1] = Home[q.key].ds
        /\ q.hintTable # <<>> /\ q.hintTable[1] = Home[q.key].table
    BY <2>2
  <2>4. NodeSets(q) = {{DataNode(q.hintDS[1], q.hintTable[1])}}
    BY <2>2, <2>3, HintsPlace
  <2>5. Home[q.key] \in Denoted(layout)
    BY <2>1 DEF SpreadByKey, NodesFor
  <2>6. Home[q.key] = DataNode(Home[q.key].ds, Home[q.key].table)
    <3>1. PICK d \in NamesOf(layout.ds), t \in NamesOf(layout.table) : Home[q.key] = DataNode(d, t)
      BY <2>5 DEF Denoted
    <3> QED BY <3>1 DEF DataNode
  <2> QED BY <2>1, <2>3, <2>4, <2>6
<1>2. InsertsPlaced
  BY <1>1 DEF InsertsPlaced
<1>3. ASSUME NEW q \in Statements, NEW nodes \in NodeSets(q)
      PROVE  /\ \A k \in Keys : Concerns(q, k) => Home[k] \in nodes
             /\ \A n \in nodes : n \in Physical /\ HasPart(q, n)
  <2>1. CASE q.verb = "INSERT"
    <3>1. nodes = {Home[q.key]} /\ q.key \in Keys
      BY <1>1, <1>3, <2>1
    <3>2. q.key \in Share(q, Home[q.key])
      BY <2>1, <3>1 DEF Share, Concerns
    <3> QED BY <2>1, <3>1, <3>2, Homes DEF Concerns, HasPart
  <2>2. CASE q.verb # "INSERT"
    <3>1. nodes = ReachedNodes(layout, spread, q)
      BY <1>3, <2>2, KeyedNodes
    <3>2. /\ WellConfigured(Rules[table], spread) /\ Denoted(layout) \subseteq Physical
          /\ \A k \in Keys : NodesFor(layout, spread, [id |-> k]) = {Home[k]}
      BY DEF SpreadByKey
    <3>3. /\ RoutedByKeys(q, spread)
          /\ Cardinality(About(q)) > 1 \/ (About(q) # {} /\ GivesShards(q, spread))
      BY <2>2 DEF UsedByKey
    <3>4. \A k \in Keys : Concerns(q, k) <=> Matches(q, [id |-> k])
      BY <2>2 DEF Concerns
    <3>5. \A k \in Keys : Concerns(q, k) => Home[k] \in nodes
      BY <3>1, <3>2, <3>3, <3>4, RoutedRight
    <3>6. nodes \subseteq Physical
      BY <3>1, <3>2, <3>3, RoutedRight
    <3>7. ASSUME NEW n \in nodes PROVE HasPart(q, n)
      <4>1. CASE Cardinality(About(q)) > 1
        BY <4>1 DEF HasPart, About
      <4>2. CASE About(q) # {} /\ GivesShards(q, spread)
        <5>1. PICK k \in Keys : Concerns(q, k)
          BY <4>2 DEF About
        <5>2. nodes \subseteq {Home[k]}
          BY <3>1, <3>2, <3>3, <3>4, <4>2, <5>1, RoutedRight
        <5>3. k \in Share(q, n)
          BY <5>1, <5>2 DEF Share
        <5> QED BY <5>3 DEF HasPart, About
      <4> QED BY <3>3, <4>1, <4>2
    <3> QED BY <3>5, <3>6, <3>7
  <2> QED BY <2>1, <2>2
<1>4. ReachesHomes
  BY <1>3 DEF ReachesHomes
<1> QED
  BY <1>2, <1>4

(* So the table that the configuration describes is the table that the      *)
(* sessions have: with the layout and the strategies of its rule in the     *)
(* spelling that the router reads, keys given as equalities, and INSERTs    *)
(* hinted to the home of their key, nothing more has to be supposed.        *)
THEOREM ConfiguredTableIsOne ==
  ASSUME NEW table, NEW spread, SpreadByKey(table, spread), UsedByKey(table, spread)
  PROVE  Spec => ActsAsOneTable
  BY KeyedReaches, OneTable
=============================================================================
