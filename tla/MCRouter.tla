------------------------------ MODULE MCRouter -------------------------------
(* Configurations and statements for Router.                                 *)
EXTENDS Router, Spellings

(* Every kind of layout, in the spelling the router can follow. *)
WorkingRules ==
  [ t_order |-> Rule(Grid("t_order"), Joined("id", "ds", 2), Joined("id", "t_order", 4)),
    t_item  |-> Rule(Grid("t_item"), Joined("user", "ds", 2), Joined("id", "t_item", 4)),
    t_log   |-> Rule(Layout(Whole(At("ds", 0)), Part(N("t_log"), 0, 3)),
                     NoStrategy, Joined("id", "t_log", 4)),
    t_acct  |-> Rule(Layout(Part(N("ds"), 0, 1), Whole(Logical("t_acct"))),
                     Joined("user", "ds", 2), NoStrategy),
    t_user  |-> Rule(Layout(Whole(At("ds", 0)), Whole(Logical("t_user"))),
                     NoStrategy, NoStrategy) ]

WorkingShards ==
  [ t_order |-> Spread(By("id", 2), By("id", 4)),
    t_item  |-> Spread(By("user", 2), By("id", 4)),
    t_log   |-> Spread(<<>>, By("id", 4)),
    t_acct  |-> Spread(By("user", 2), <<>>),
    t_user  |-> Spread(<<>>, <<>>) ]

(* config.yaml *)
ShippedRules ==
  [t_order |-> Rule(Grid("t_order"), Arrow("id", "ds_$->{order_id % 2}"),
                                     Arrow("id", "t_order_$->{order_id % 4}"))]

OrderShards == [t_order |-> Spread(By("id", 2), By("id", 4))]

Literals == {Four, Seven, Ten, Text}
RowsOver(lits) == [{"id", "user"} -> lits]
MCRows == RowsOver(Literals)

Wheres(lits) ==
  {<<>>}
    \cup {<<Equality(c, v)>> : c \in {"id", "user"}, v \in lits}
    \cup {<<Equality("id", v), Equality("user", w)>> : v, w \in lits}
    \cup {<<Equality("user", v), Equality("id", w)>> : v, w \in lits}

PlainQueries(lits) ==
  {Query(verb, table, where) : verb \in {"SELECT", "UPDATE"},
                               table \in DOMAIN Rules \cup {"t_plain"}, where \in Wheres(lits)}

HintedQueries ==
  {Hinted(Query("SELECT", table, where), <<At("ds", 1)>>, tb) :
     table \in DOMAIN Rules \cup {"t_plain"}, where \in Wheres({Four}),
     tb \in {<<>>, <<At("t_order", 3)>>}}

Spelled(q, mentions) == q @@ [mentions |-> mentions]
(* FROM table, or UPDATE table, and nothing else with a name. *)
Plainly(q) == Spelled(q, <<Mention("table", Logical(q.table), FALSE, "none")>>)

(* FROM t_order, `demo_db`.t_order, and so on, with columns such as         *)
(* t_order.id, another table whose name begins alike, or a string.          *)
Mentions ==
  LET Named(table) == {Mention("table", Logical(table), quoted, qualifier) :
                         quoted \in BOOLEAN, qualifier \in {"none", "bare", "quoted"}}
      Said == Mention("literal", Logical("t_order"), FALSE, "none")
  IN Named("t_order") \X (Named("t_order") \cup Named("t_order_item") \cup {Said})

SpelledQueries ==
  {Spelled(q, m) : m \in Mentions,
     q \in {Query("SELECT", "t_order", <<Equality("id", Four)>>),
            Hinted(Query("UPDATE", "t_order", <<>>), <<At("ds", 1)>>, <<At("t_order", 3)>>),
            Hinted(Query("UPDATE", "t_order", <<>>), <<At("ds", 1)>>, <<>>)}}

(* With comments that are hints, or are not. *)
CommentedQueries ==
  {Query(verb, "t_order", <<>>) : verb \in {"SELECT", "UPDATE", "DELETE"}}
    \cup {Hinted(Query(verb, "t_order", <<>>), ds, <<At("t_order", 3)>>) :
            verb \in {"SELECT", "INSERT", "UPDATE", "DELETE"}, ds \in {<<>>, <<At("ds", 1)>>}}

OtherQueries ==
  {[Query("SELECT", "t_order", <<>>) EXCEPT !.class = c] : c \in {"system", "metadata"}}
    \cup {[q EXCEPT !.comment = c] : q \in CommentedQueries,
                                     c \in {"beforeVerb", "afterVerb", "beforeTable", "behind"}}

MCStatements ==
  SpelledQueries \cup
    {Plainly(q) : q \in PlainQueries(Literals) \cup HintedQueries \cup OtherQueries}

(* What is proved of keyed access applies to the working configuration. *)
ASSUME Rules = WorkingRules => KeyedAccess /\ SomeRowMeant

KeyedStatements == {Plainly(q) : q \in PlainQueries({Four, Seven})}
=============================================================================
