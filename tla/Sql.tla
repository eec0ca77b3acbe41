--------------------------------- MODULE Sql ---------------------------------
(***************************************************************************)
(* What a data source does with a statement: the rows it selects and what  *)
(* it makes of them.  MySQL, not code of this repository.  A row is a      *)
(* function from columns to literals; the rows of a table are told apart   *)
(* by their primary key.                                                   *)
(***************************************************************************)
EXTENDS Routing

LessThan(a, b) == Numeral(a) < Numeral(b)

(* A condition [column, op, args] on a literal. *)
Satisfies(v, cond) ==
  LET a == cond.args IN
    CASE cond.op = "="  -> v = a[1]
      [] cond.op \in {"!=", "<>"} -> v # a[1]
      [] cond.op = "<"  -> LessThan(v, a[1])
      [] cond.op = ">"  -> LessThan(a[1], v)
      [] cond.op = "<=" -> ~LessThan(a[1], v)
      [] cond.op = ">=" -> ~LessThan(v, a[1])
      [] cond.op = "IN" -> \E i \in DOMAIN a : v = a[i]
      [] cond.op = "BETWEEN" -> ~LessThan(v, a[1]) /\ ~LessThan(a[2], v)

(* stmt.any: the conditions are joined by OR, otherwise by AND. *)
Matches(stmt, row) ==
  \/ stmt.where = <<>>
  \/ /\ stmt.any
     /\ \E i \in DOMAIN stmt.where : Satisfies(row[stmt.where[i].column], stmt.where[i])
  \/ /\ ~stmt.any
     /\ \A i \in DOMAIN stmt.where : Satisfies(row[stmt.where[i].column], stmt.where[i])
=============================================================================
