------------------------------ MODULE Rewriting ------------------------------
(***************************************************************************)
(* The text that a node executes: the statement with the name of its table *)
(* replaced (sqlrouter/parser.go).  Of the text, a statement has its       *)
(* mentions: the places where a name stands.  A mention is a record with   *)
(*   role       "table", also in front of a column; "column"; or           *)
(*              "literal", a word in a string                              *)
(*   word       the name                                                   *)
(*   quoted     it stands in backticks                                     *)
(*   qualifier  what precedes it with a dot: "none", "bare" or "quoted"    *)
(* The table of the statement is the first of them.                        *)
(***************************************************************************)
EXTENDS Routing

Mention(role, word, quoted, qualifier) ==
  [role |-> role, word |-> word, quoted |-> quoted, qualifier |-> qualifier]

(* The four patterns of RewriteTableInSQL, one for each spelling of a       *)
(* qualified name.  Each takes the qualifier away and leaves the name in     *)
(* backticks, so no more than one of them finds a given mention.             *)
Patterns == {"bare", "quoted"} \X BOOLEAN

WithoutQualifier(m) ==
  IF <<m.qualifier, m.quoted>> \in Patterns
  THEN [m EXCEPT !.qualifier = "none", !.quoted = TRUE] ELSE m

(* Fault variant: the first match only. *)
FirstOnly(mentions, old, new) == [mentions EXCEPT ![1] = [WithoutQualifier(@) EXCEPT !.word = new]]

(* RewriteTableName finds whole words, in backticks or not: t_order_item is  *)
(* not t_order.                                                              *)
Replaced(mentions, old, new) ==
  [i \in DOMAIN mentions |->
     IF mentions[i].word = old THEN [WithoutQualifier(mentions[i]) EXCEPT !.word = new]
     ELSE mentions[i]]

RewriteTableInSQL(stmt, new) ==
  IF ExtractTableName(stmt) = <<>> THEN stmt.mentions
  ELSE Replaced(stmt.mentions, Logical(ExtractTableName(stmt)[1]), new)

(* What node n is given.  A hint for the source alone rewrites nothing. *)
Rewritten(stmt, n) ==
  IF HasHint(stmt) /\ stmt.hintTable = <<>> THEN stmt.mentions
  ELSE RewriteTableInSQL(stmt, n.table)
=============================================================================
