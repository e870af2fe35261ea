----------------------------- MODULE SqlRewrite ------------------------------
(***************************************************************************)
(* optimizer/sql_rewrite.cpp: a subquery in the WHERE of a query becomes a *)
(* table of that query, which a semi join or an anti join then reads.      *)
(*                                                                         *)
(* A rewriting of the subquery q of the plan p answers                     *)
(*   ret: "ok", "cannot" (CAN_NOT_REWRITE), "refused" (an error) or        *)
(*        "aborted" (its assertion fails),                                 *)
(*   p, q: both plans as it leaves them, and e: the condition that stands  *)
(*        for the predicate.  What it has changed by the time it gives up  *)
(*        stays changed.                                                   *)
(***************************************************************************)
EXTENDS QueryTables

Rewritten(ret, p, q, e) == [ret |-> ret, p |-> p, q |-> q, e |-> e]

OneColumnQuery(q, lhs) == Len(q.list) = 1 /\ Len(q.names) = 1 /\ ~IsNone(lhs)

\* The table a rewritten subquery becomes
AddTmpTable(p, q, join, anti) ==
  [p EXCEPT !.tables = Append(@, TmpTable(p.level, q.name, q, join, anti))]

FirstOfList(q) == ColumnExpr(ListColumn(q, q.names[1]))
Conjunction(es) == FoldLeft(MakeAnd, None, es)

\* rewrite_for_select_N_semi
RewriteNSemi(p, sub, lhs) ==
  LET q == [sub EXCEPT !.alias = sub.name]
  IN IF ~OneColumnQuery(sub, lhs) THEN Rewritten("refused", p, sub, None)
     ELSE Rewritten("ok", AddTmpTable(p, q, "SemiJoin", None), q,
                    BinaryExpr("=", lhs, FirstOfList(q)))

\* rewrite_for_select_N_anti
RewriteNAnti(p, sub, lhs) ==
  LET q == [sub EXCEPT !.alias = sub.name]
      anti == BinaryExpr("anti=", lhs, FirstOfList(q))
  IN IF ~OneColumnQuery(sub, lhs) THEN Rewritten("refused", p, sub, None)
     ELSE Rewritten("ok", AddTmpTable(p, q, "AntiJoin", anti), q, anti)

\* A column the subquery has to give its new neighbour
Exported(q, d) ==
  [q EXCEPT !.list = Append(@, ColumnExpr(d)), !.names = Append(@, "")]
LastColumn(q) == ColumnExpr(<<q.name, Len(q.list)>>)

\* A column of the subquery's own tables
IsOwn(q, who) == Len(who) = 1 /\ ~FromParent(q, who[1])

\* rewrite_expr: its columns of the subquery's own tables become columns of
\* the new table; r is what has become of the expression so far
Exporting(r) == [r EXCEPT !.e = LastColumn(r.q)]
RewriteColumn(q, e, who) ==
  CASE Len(who) # 1 -> [ok |-> FALSE, q |-> q, e |-> e]
    [] IsOwn(q, who) -> Exporting([ok |-> TRUE, q |-> Exported(q, e.d), e |-> e])
    [] OTHER -> [ok |-> TRUE, q |-> q, e |-> e]
PutOperand(r, field, x) == [x EXCEPT !.e = [r.e EXCEPT ![field] = x.e]]
RECURSIVE RewriteExpr(_, _)
RewriteOperand(r, field) ==
  IF r.ok THEN PutOperand(r, field, RewriteExpr(r.q, r.e[field])) ELSE r
RewriteExpr(q, e) ==
  CASE e.k \in {"const", "un", "bin", "tern"} ->
         FoldLeft(RewriteOperand, [ok |-> TRUE, q |-> q, e |-> e], Operands(e))
    [] e.k = "col" -> RewriteColumn(q, e, WhoHaveDesc(q, e.d))
    [] OTHER -> [ok |-> FALSE, q |-> q, e |-> e]

\* rewrite_select_list
PutCorrected(r, i) == [ok |-> r.ok, q |-> [r.q EXCEPT !.corrected[i] = r.e]]
RewriteSelectList(sub, op) ==
  FoldLeft(LAMBDA a, i : IF a.ok THEN PutCorrected(RewriteExpr(a.q, a.q.corrected[i]), i) ELSE a,
           [ok |-> TRUE, q |-> IF op \in {"EXISTS", "NOT EXISTS"}
                               THEN [sub EXCEPT !.list = <<>>, !.names = <<>>] ELSE sub],
           [i \in DOMAIN sub.corrected |-> i])

\* How the rewritings of a correlated subquery end
WithTable(p, r, join, anti, cond) ==
  CASE ~r.ok -> Rewritten("cannot", p, r.q, None)
    [] r.ok /\ r.q.corrected = <<>> -> Rewritten("aborted", p, r.q, None)
    [] OTHER -> Rewritten("ok", AddTmpTable(p, r.q, join, anti), r.q, cond)

\* mutant: the correlated predicates are forgotten
RewriteJSemiBare(p, sub, lhs, op) ==
  LET r == RewriteSelectList([sub EXCEPT !.alias = sub.name], op)
      equal == IF op = "IN" THEN BinaryExpr("=", lhs, FirstOfList(r.q)) ELSE ConstExpr(Bool(TRUE))
  IN Rewritten("ok", AddTmpTable(p, r.q, "SemiJoin", None), r.q, equal)

\* rewrite_for_select_J_semi
JSemi(p, lhs, op, r) ==
  WithTable(p, r, "SemiJoin", None,
            MakeAnd(Conjunction(r.q.corrected),
                    IF op = "IN" THEN BinaryExpr("=", lhs, FirstOfList(r.q)) ELSE None))
RewriteJSemi(p, sub, lhs, op) ==
  IF op = "IN" /\ ~OneColumnQuery(sub, lhs) THEN Rewritten("refused", p, sub, None)
  ELSE JSemi(p, lhs, op, RewriteSelectList([sub EXCEPT !.alias = sub.name], op))

\* rewrite_for_select_J_anti: it looks for IN where NOT IN is meant, so that
\* no number of columns is too many
JAnti(p, lhs, op, r) ==
  LET anti == IF op = "NOT IN" THEN BinaryExpr("anti=", lhs, FirstOfList(r.q)) ELSE None
  IN WithTable(p, r, "AntiJoin", anti, MakeAnd(anti, Conjunction(r.q.corrected)))
RewriteJAnti(p, sub, lhs, op) ==
  JAnti(p, lhs, op, RewriteSelectList([sub EXCEPT !.alias = sub.name], op))

\* is_column_eq_expr
IsColumnEqual(e) == e.k = "bin" /\ e.op = "=" /\ IsColumn(e.x) /\ IsColumn(e.y)

\* rewrite_agg_list: the columns of an expression as columns of the new table
RECURSIVE RewriteAggList(_, _)
RewriteAggList(e, t) ==
  IF IsColumn(e) THEN ColumnExpr(<<t, e.d[2]>>)
  ELSE FoldLeft(LAMBDA x, field : [x EXCEPT ![field] = RewriteAggList(@, t)], e, Operands(e))

\* One turn of the loop of rewrite_group_by_for_JA: the side of the predicate
\* that is the subquery's own becomes a column to group by
GroupBySide(q, i, side) ==
  LET x == q.corrected[i][side]
      r == [Exported(q, x.d) EXCEPT !.group = Append(@, x)]
  IN [next |-> "on", q |-> [r EXCEPT !.corrected[i][side] = LastColumn(r)]]
GroupByOwn(q, i, first, second) ==
  CASE Len(first) # 1 -> [next |-> "stop", q |-> q]
    [] IsOwn(q, first) -> GroupBySide(q, i, "x")
    [] Len(first) = 1 /\ ~IsOwn(q, first) /\ Len(second) # 1 -> [next |-> "stop", q |-> q]
    [] Len(first) = 1 /\ ~IsOwn(q, first) /\ IsOwn(q, second) -> GroupBySide(q, i, "y")
    [] OTHER -> [next |-> "cannot", q |-> q]
GroupedBy(q, i) ==
  GroupByOwn(q, i, WhoHaveDesc(q, q.corrected[i].x.d), WhoHaveDesc(q, q.corrected[i].y.d))

\* rewrite_group_by_for_JA
AggregateByGroup(r) ==
  IF r.next = "cannot" THEN [ok |-> FALSE, q |-> r.q]
  ELSE [ok |-> TRUE, q |-> [r.q EXCEPT !.list[1] = RewriteAggList(@, r.q.name)]]
RewriteGroupBy(sub) ==
  AggregateByGroup(FoldLeft(LAMBDA a, i : IF a.next # "on" THEN a ELSE GroupedBy(a.q, i),
                            [next |-> "on", q |-> sub], [i \in DOMAIN sub.corrected |-> i]))

\* rewrite_for_select_JA_semi: the aggregate of the subquery, by group, on the
\* right of the operator, on whichever side it stood
JASemi(p, lhs, op, r) ==
  WithTable(p, r, "SemiJoin", None,
            MakeAnd(Conjunction(r.q.corrected), BinaryExpr(op, lhs, FirstOfList(r.q))))
RewriteJASemi(p, sub, lhs, op) ==
  CASE ~OneColumnQuery(sub, lhs) -> Rewritten("refused", p, sub, None)
    [] OneColumnQuery(sub, lhs) /\ \E i \in DOMAIN sub.corrected : ~IsColumnEqual(sub.corrected[i]) ->
         Rewritten("cannot", p, sub, None)
    [] OTHER -> JASemi(p, lhs, op, RewriteGroupBy([sub EXCEPT !.alias = sub.name]))

\* The name of the temporary table: in the code, the next of all there were
TmpName(p) == "tmp_table_" \o ToString(100 * p.level + Len(p.tables))

\* rewrite_for_select
RewriteForSelect(p, query, lhs, op) ==
  LET sub == [query EXCEPT !.name = TmpName(p)]
  IN CASE IsCorrelated(sub) /\ IsSimpleScalarGroup(sub) -> RewriteJASemi(p, sub, lhs, op)
       [] IsCorrelated(sub) /\ ~IsSimpleScalarGroup(sub) /\ op \in {"IN", "EXISTS"} ->
            RewriteJSemi(p, sub, lhs, op)
       [] IsCorrelated(sub) /\ ~IsSimpleScalarGroup(sub) /\ op \in {"NOT IN", "NOT EXISTS"} ->
            RewriteJAnti(p, sub, lhs, op)
       [] ~IsCorrelated(sub) /\ op = "IN" -> RewriteNSemi(p, sub, lhs)
       [] ~IsCorrelated(sub) /\ op = "NOT IN" -> RewriteNAnti(p, sub, lhs)
       [] OTHER -> Rewritten("cannot", p, sub, None)
=============================================================================
