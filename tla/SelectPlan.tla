----------------------------- MODULE SelectPlan ------------------------------
(***************************************************************************)
(* plan/select_plan.cpp: from the statement of a query to its plan.        *)
(* optimizer resolves the clauses in the order FROM, SELECT, WHERE, GROUP  *)
(* BY, HAVING, ORDER BY, LIMIT and rewrites the subqueries of WHERE on the *)
(* way; build_plan makes the tree of operators.                            *)
(*                                                                         *)
(* A step of the resolution answers with the plan it leaves, the           *)
(* expression it made (e), whether the expression uses a column of an      *)
(* outer query (up: have_parent_column), and ret: "ok", "all"              *)
(* (HAVE_ALL_COLUMN_STMT), "refused" (any other error) or "aborted".       *)
(***************************************************************************)
EXTENDS SqlRewrite

Resolved(p, e, up) == [ret |-> "ok", p |-> p, e |-> e, up |-> up]
Failed(p, code) == [ret |-> code, p |-> p, e |-> None, up |-> FALSE]
Refused(p) == Failed(p, "refused")

\* Go(r), unless r is a failure
IfOk(r, Go(_)) == IF r.ret = "ok" THEN Go(r) ELSE r
\* Step(p, x) for each x of s, as long as nothing fails
Each(p, s, Step(_, _)) ==
  FoldLeft(LAMBDA r, x : IfOk(r, LAMBDA ok : Step(ok.p, x)), Resolved(p, None, FALSE), s)

-----------------------------------------------------------------------------
(* Expressions.                                                             *)

\* A column of the table t, in the rows of t
ColumnOf(p, t, c, outer) ==
  IF t.tmp THEN Resolved(p, ColumnExpr(ListColumn(t.plan, c)), outer)
  ELSE LET d == <<t.alias, ColumnNumber(t.base, c)>>
       IN Resolved(AddAccessColumn(p, t, d), ColumnExpr(d), outer)
\* resolve_column_desc: an outer query's column, only in WHERE
ResolveOwned(p, t, c, outer) ==
  IF ~HaveColumn(t, c) \/ (outer /\ p.clause # "where") THEN Refused(p)
  ELSE ColumnOf(IF outer THEN [p EXCEPT !.refs = Append(@, t)] ELSE p, t, c, outer)
ResolveFound(p, who, c) ==
  IF Len(who) # 1 THEN Refused(p) ELSE ResolveOwned(p, who[1], c, FromParent(p, who[1]))
ResolveColumn(p, s) == ResolveFound(p, WhoHaveColumn(p, s), s.c)

\* The list of an IN: constants only
ResolveList(p, s) ==
  IF \A i \in DOMAIN s.l : s.l[i].s = "const"
  THEN Resolved(p, ConstExpr(List([i \in DOMAIN s.l |-> s.l[i].v])), FALSE)
  ELSE Refused(p)

\* A conjunct that is no join condition
AddFilter(p, e) ==
  Resolved(IF IsTableFilter(p, e) THEN AddTableFilter(p, e)
           ELSE [p EXCEPT !.after = MakeAnd(@, e)], None, FALSE)
\* A conjunct of two columns; first and second are the tables that have them
AddJoin(p, e, a, b) ==
  Resolved(AddJoinCond(IF e.op = "=" THEN AddJoinEqualCond(p, a, b, e) ELSE p, a, b, e), None, FALSE)
OfTwoColumns(p, e, first, second) ==
  CASE Len(first) # 1 \/ Len(second) # 1 -> Refused(p)
    [] /\ Len(first) = 1 /\ Len(second) = 1
       /\ ~FromParent(p, first[1]) /\ ~FromParent(p, second[1])
       /\ first[1].alias # second[1].alias -> AddJoin(p, e, first[1].alias, second[1].alias)
    [] OTHER -> AddFilter(p, e)
\* resolve_simple_expr: a conjunct finds its place
RECURSIVE ResolveSimpleExpr(_, _)
ResolveSimpleExpr(p, e) ==
  CASE e.k = "bin" /\ e.op = "AND" ->
         IfOk(ResolveSimpleExpr(p, e.x), LAMBDA r : ResolveSimpleExpr(r.p, e.y))
    [] e.k = "bin" /\ e.op # "AND" /\ IsColumn(e.x) /\ IsColumn(e.y) ->
         OfTwoColumns(p, e, WhoHaveDesc(p, e.x.d), WhoHaveDesc(p, e.y.d))
    [] OTHER -> AddFilter(p, e)

\* What was not rewritten: the correlated predicates become the subquery's
\* own.  An error ends the loop and nothing else.
ResolveCorrected(q) == Each(q, q.corrected, LAMBDA r, e : ResolveSimpleExpr(r, e)).p

\* A predicate with a subquery on one side and, unless there is none, lhs on
\* the other; Whole makes the expression that it is when it is not rewritten
OrWhole(r, up, Whole(_)) ==
  CASE r.ret = "ok" -> Resolved(r.p, r.e, up)
    [] r.ret = "cannot" -> Resolved(r.p, Whole(SubplanExpr(ResolveCorrected(r.q))), up)
    [] OTHER -> Failed(r.p, r.ret)
Rewrite(p, sub, lhs, op, up, Whole(_)) == OrWhole(RewriteForSelect(p, sub, lhs, op), up, Whole)

RECURSIVE Resolve(_, _), Optimize(_, _, _, _), Build(_), BuildExpr(_)

\* What is made of another query's plan, if it has one
OfPlan(p, o, Use(_)) == IF o.ret = "ok" THEN Use(o.p) ELSE Failed(p, o.ret)

\* The case of a subquery: what it reads of this query's tables, this one reads
ReadsFor(p, q, t) ==
  IF t.id \notin DOMAIN q.parentAccess THEN p
  ELSE FoldLeft(LAMBDA x, d : AddAccessColumn(x, t, d), p, q.parentAccess[t.id])
WithSubplan(p, q) ==
  LET refs == SelectSeq(q.refs, LAMBDA t : FromParent(p, t))
  IN Resolved(FoldLeft(LAMBDA r, t : ReadsFor(r, q, t), [p EXCEPT !.refs = @ \o refs],
                       p.parents \o p.tables), SubplanExpr(q), FALSE)
ResolveQuery(p, s) ==
  OfPlan(p, Optimize(s.q, p.parents \o p.tables, p.level + 1, ""), LAMBDA q : WithSubplan(p, q))

\* The case of an aggregate: its column in the row of the group operator
MayAggregate(p) == p.clause = "list" \/ (p.clause = "having" /\ p.group # <<>>)
AddAggregate(p, s, r) ==
  CASE r.ret = "ok" \/ (r.ret = "all" /\ s.f = "COUNT" /\ s.x.s = "star") ->
         Resolved([r.p EXCEPT !.aggrs = Append(@, [f |-> s.f, x |-> r.e])],
                  ColumnExpr(<<r.p.alias, Len(r.p.aggrs) + 1>>), r.up)
    [] OTHER -> Failed(p, IF r.ret = "all" THEN "refused" ELSE r.ret)
ResolveAggregate(p, s) ==
  IF MayAggregate(p) THEN AddAggregate(p, s, Resolve(p, s.x)) ELSE Refused(p)

ResolveUnary(p, s) ==
  IfOk(Resolve(p, s.x), LAMBDA r :
    IF IsSubplan(r.e) THEN Rewrite(r.p, r.e.plan, None, s.op, r.up, LAMBDA e : UnaryExpr(s.op, e))
    ELSE Resolved(r.p, UnaryExpr(s.op, r.e), r.up))

\* A subquery on both sides is left as it is
OfOperands(s, x, y) ==
  LET left == IsSubplan(x.e)
      up == x.up \/ y.up
  IN IF left = IsSubplan(y.e) THEN Resolved(y.p, BinaryExpr(s.op, x.e, y.e), up)
     ELSE Rewrite(y.p, IF left THEN x.e.plan ELSE y.e.plan, IF left THEN y.e ELSE x.e, s.op, up,
                  LAMBDA e : IF left THEN BinaryExpr(s.op, e, y.e) ELSE BinaryExpr(s.op, x.e, e))
ResolveBinary(p, s) ==
  IfOk(Resolve(p, s.x), LAMBDA x : IfOk(Resolve(x.p, s.y), LAMBDA y : OfOperands(s, x, y)))

ResolveTernary(p, s) ==
  IfOk(Resolve(p, s.x), LAMBDA x : IfOk(Resolve(x.p, s.y), LAMBDA y : IfOk(Resolve(y.p, s.z), LAMBDA z :
    Resolved(z.p, TernaryExpr(s.op, x.e, y.e, z.e), x.up \/ y.up \/ z.up))))

\* resolve_expr
Resolve(p, s) ==
  CASE s.s = "const" -> Resolved(p, ConstExpr(s.v), FALSE)
    [] s.s = "star" -> Failed(p, IF p.clause \in {"list", "having"} THEN "all" ELSE "refused")
    [] s.s = "col" -> ResolveColumn(p, s)
    [] s.s = "query" -> ResolveQuery(p, s)
    [] s.s = "list" -> ResolveList(p, s)
    [] s.s = "agg" -> ResolveAggregate(p, s)
    [] s.s = "un" -> ResolveUnary(p, s)
    [] s.s = "bin" -> ResolveBinary(p, s)
    [] s.s = "tern" -> ResolveTernary(p, s)

-----------------------------------------------------------------------------
(* The clauses.                                                             *)

Under(p, clause) == [p EXCEPT !.clause = clause]
Leave(r) == [r EXCEPT !.p.clause = "", !.ret = IF @ = "all" THEN "refused" ELSE @]

\* get_ref_table_from_query: a query in FROM is planned and built at once
AddQuery(p, f) ==
  IF Len(FindTable(p, f.as)) = 1 THEN Refused(p)
  ELSE OfPlan(p, Optimize(f.q, <<>>, 0, f.as), LAMBDA q :
         IF Build(q).ret # "ok" THEN Refused(p)
         ELSE Resolved([p EXCEPT !.tables = Append(@, TmpTable(p.level, f.as, q, "Join", None))],
                       None, FALSE))

\* get_ref_tables
AddFrom(p, f) ==
  CASE f.s = "query" -> AddQuery(p, f)
    [] f.s = "table" ->
         IF Len(FindTable(p, f.as)) = 1 THEN Refused(p)
         ELSE Resolved([p EXCEPT !.tables = Append(@, BaseTable(p.level, f.t, f.as))], None, FALSE)

\* What * stands for: all columns of a table
TableColumns(p, t) ==
  IF t.tmp
  THEN [p EXCEPT !.list = @ \o [i \in DOMAIN t.plan.list |-> ColumnExpr(ListColumns(t.plan)[i])],
                 !.names = @ \o t.plan.names]
  ELSE LET ds == [i \in DOMAIN Columns[t.base] |-> <<t.alias, i>>]
       IN FoldLeft(LAMBDA q, d : AddAccessColumn(q, t, d),
                   [p EXCEPT !.list = @ \o [i \in DOMAIN ds |-> ColumnExpr(ds[i])],
                             !.names = @ \o Columns[t.base]], ds)

\* resolve_all_column_in_select_list
ResolveAllColumns(p, s) ==
  CASE s.s # "star" -> Refused(p)
    [] s.s = "star" /\ s.t = "*" -> Resolved(FoldLeft(TableColumns, p, p.tables), None, FALSE)
    [] OTHER -> IF Len(FindTable(p, s.t)) = 1
                THEN Resolved(TableColumns(p, FindTable(p, s.t)[1]), None, FALSE)
                ELSE Refused(p)

\* resolve_select_list; r is what resolve_expr makes of the item i
ListItem(p, i, r) ==
  CASE r.ret = "all" -> ResolveAllColumns(p, i.e)
    [] r.ret = "ok" /\ r.up -> Refused(p)
    [] r.ret = "ok" /\ ~r.up -> [r EXCEPT !.p.list = Append(@, r.e), !.p.names = Append(@, i.as)]
    [] OTHER -> r
ResolveSelectList(p, items) ==
  Leave(Each(Under(p, "list"), items, LAMBDA q, i : ListItem(q, i, Resolve(q, i.e))))

\* resolve_simple_stmt
ResolveConjunct(p, s) ==
  IfOk(Resolve(p, s), LAMBDA r : IF r.up THEN [r EXCEPT !.p.corrected = Append(@, r.e)]
                                 ELSE ResolveSimpleExpr(r.p, r.e))

\* resolve_where_stmt: the conjuncts, from left to right
RECURSIVE Conjuncts(_)
Conjuncts(s) ==
  CASE s.s = "none" -> <<>>
    [] s.s = "bin" /\ s.op = "AND" -> Conjuncts(s.x) \o Conjuncts(s.y)
    [] OTHER -> <<s>>
ResolveWhere(p, s) == Leave(Each(Under(p, "where"), Conjuncts(s), ResolveConjunct))

\* resolve_group_stmt
ResolveGroup(p, columns) ==
  Each(p, columns, LAMBDA q, s :
    IfOk(IF s.s = "col" THEN Resolve(q, s) ELSE Refused(q),
         LAMBDA r : [r EXCEPT !.p.group = Append(@, r.e)]))

\* resolve_having_stmt
ResolveHaving(p, s) ==
  IF s.s = "none" THEN Resolved(p, None, FALSE)
  ELSE Leave(IfOk(Resolve(Under(p, "having"), s), LAMBDA r : [r EXCEPT !.p.having = r.e]))

\* resolve_sort_stmt: a column of the select list, whatever table the
\* statement names, before a column of the tables
SortColumn(p, s) ==
  CASE s.s # "col" -> Refused(p)
    [] s.s = "col" /\ Named(p, s.c) # {} ->
         Resolved([p EXCEPT !.sort = Append(@, ColumnExpr(ListColumn(p, s.c))),
                            !.sortsResult = TRUE], None, FALSE)
    [] OTHER -> IfOk(Resolve(p, s), LAMBDA r : IF p.sortsResult THEN Refused(p)
                                               ELSE [r EXCEPT !.p.sort = Append(@, r.e)])
ResolveSort(p, columns) == Each(p, columns, SortColumn)

-----------------------------------------------------------------------------
(* The operators: records with the name of the operator in o.               *)

\* choos_best_join_order: of the tables that are not yet placed, the first
\* that an equality joins with a table before it, placed or not
JoinOrder(p) ==
  LET plain == SelectInSeq(p.tables, LAMBDA t : t.join # "Join")
      end == IF plain = 0 THEN Len(p.tables) ELSE plain - 1
      Place(s, k) ==
        LET next == {i \in k .. end : \E j \in 1 .. i - 1 :
                       ~IsNone(JoinCond(p, s[j].alias, s[i].alias).equal)}
        IN IF next = {} THEN s ELSE [s EXCEPT ![k] = s[Min(next)], ![Min(next)] = s[k]]
  IN FoldLeft(Place, p.tables, [k \in 1 .. end - 1 |-> k + 1])

\* make_filter
FilteredBy(filter, op) ==
  IF IsNone(filter) THEN op ELSE [o |-> "filter", in |-> op, filter |-> filter]

\* make_table_scan and make_access_row_desc
FilterOf(p, t) == IF t.id \in DOMAIN p.filters THEN p.filters[t.id] ELSE None
TableScan(p, t) ==
  IF t.tmp THEN FilteredBy(BuildExpr(FilterOf(p, t)), Build(t.plan).op)
  ELSE [o |-> "scan", base |-> t.base, filter |-> BuildExpr(FilterOf(p, t)),
        columns |-> IF t.id \in DOMAIN p.access THEN p.access[t.id] ELSE <<>>]

\* One turn of the loop of make_join_plan: the tables before i and table i
JoinWith(p, tables, left, i) ==
  LET t == tables[i]
      conds == [j \in 1 .. i - 1 |-> JoinCond(p, tables[j].alias, t.alias)]
      equal == Conjunction([j \in DOMAIN conds |-> conds[j].equal])
  IN [o |-> CASE t.join = "AntiJoin" -> "anti"
              [] t.join # "AntiJoin" /\ IsNone(equal) -> "nested"
              [] OTHER -> "hash",
      left |-> left, right |-> TableScan(p, t), equal |-> equal, anti |-> t.anti,
      cond |-> BuildExpr(Conjunction([j \in DOMAIN conds |-> conds[j].cond])),
      probe |-> t.alias, semi |-> t.join = "SemiJoin"]

\* make_join_plan
JoinAll(p, tables) ==
  FoldLeft(LAMBDA left, i : JoinWith(p, tables, left, i), TableScan(p, tables[1]),
           [i \in 1 .. Len(tables) - 1 |-> i + 1])
MakeJoinPlan(p) == FilteredBy(BuildExpr(p.after), JoinAll(p, JoinOrder(p)))

\* make_group_pan
MakeGroupPlan(p, op) ==
  IF p.group = <<>> /\ p.aggrs = <<>> THEN op
  ELSE [o |-> IF p.group = <<>> THEN "scalar" ELSE "group", in |-> op, by |-> p.group,
        filter |-> BuildExpr(p.having), alias |-> p.alias,
        aggrs |-> [i \in DOMAIN p.aggrs |-> [p.aggrs[i] EXCEPT !.x = BuildExpr(@)]]]

\* make_distinct_plan
MakeDistinctPlan(p, op) == IF p.distinct THEN [o |-> "distinct", in |-> op] ELSE op

\* make_query_plan
MakeQueryPlan(p, op) ==
  [o |-> "query", in |-> op, alias |-> p.alias,
   list |-> [i \in DOMAIN p.list |-> BuildExpr(p.list[i])]]

TopNRows == 30000
UsesTopN(p) == ~p.distinct /\ p.limit # <<>> /\ p.limit[1] + p.limit[2] < TopNRows

\* make_sort_plan; a limit is an offset and a size
MakeSortPlan(p, op) ==
  LET sort == [o |-> "sort", in |-> op, by |-> p.sort, asc |-> p.asc]
  IN CASE p.sort = <<>> -> op
       [] p.sort # <<>> /\ UsesTopN(p) ->
            [sort EXCEPT !.o = "topn"] @@ [size |-> p.limit[1] + p.limit[2]]
       [] OTHER -> sort

\* mutant: a top-n sort takes care of the offset, too
MakeLimitPlanRarely(p, op) ==
  IF p.limit = <<>> \/ (p.sort # <<>> /\ UsesTopN(p)) THEN op
  ELSE [o |-> "limit", in |-> op, offset |-> p.limit[1], size |-> p.limit[2]]
\* make_limit_plan: not after a top-n sort without an offset
MakeLimitPlan(p, op) ==
  IF p.limit = <<>> \/ (p.sort # <<>> /\ UsesTopN(p) /\ p.limit[1] = 0) THEN op
  ELSE [o |-> "limit", in |-> op, offset |-> p.limit[1], size |-> p.limit[2]]

\* build_plan: a subquery's errors are not looked at, and leave it with the
\* operators made so far
Build(p) ==
  CASE p.root # None -> [ret |-> "ok", op |-> p.root]
    [] p.root = None /\ p.group = <<>> /\ p.aggrs = <<>> /\ ~IsNone(p.having) ->
         [ret |-> "refused", op |-> MakeJoinPlan(p)]
    [] OTHER ->
         [ret |-> "ok",
          op |-> MakeLimitPlan(p, MakeSortPlan(p, MakeQueryPlan(p, MakeDistinctPlan(p,
                   MakeGroupPlan(p, MakeJoinPlan(p))))))]

\* The expressions of an operator: their subqueries are built too
BuildExpr(e) ==
  IF IsSubplan(e)
  THEN [k |-> "sub", correlated |-> IsCorrelated(e.plan), op |-> Build(e.plan).op]
  ELSE FoldLeft(LAMBDA x, field : [x EXCEPT ![field] = BuildExpr(@)], e, Operands(e))

\* make_set_plan: both sides are planned and built as queries of their own
BuiltPlan(o) == IF o.ret = "ok" THEN Build(o.p) @@ o ELSE o
SetOf(p, op, a, b) ==
  CASE a.ret # "ok" -> Failed(p, a.ret)
    [] a.ret = "ok" /\ b.ret # "ok" -> Failed(p, b.ret)
    [] OTHER -> IF Len(a.p.list) # Len(b.p.list) THEN Refused(p)
                ELSE Resolved([p EXCEPT !.root = [o |-> op, left |-> a.op, right |-> b.op],
                                        !.list = a.p.list, !.names = a.p.names], None, FALSE)
MakeSetPlan(p, q) ==
  SetOf(p, q.op, BuiltPlan(Optimize(q.first, <<>>, 0, "")), BuiltPlan(Optimize(q.second, <<>>, 0, "")))

\* optimizer
ResolveClauses(p, q) ==
  IfOk(IfOk(IfOk(IfOk(IfOk(Each(p, q.from, AddFrom),
    LAMBDA r : ResolveSelectList(r.p, q.list)),
    LAMBDA r : ResolveWhere(r.p, q.where)),
    LAMBDA r : ResolveGroup(r.p, q.group)),
    LAMBDA r : ResolveHaving(r.p, q.having)),
    LAMBDA r : ResolveSort(r.p, q.order))
Optimize(q, parents, level, alias) ==
  LET p == NewPlan(parents, level, alias)
  IN IF q.s = "set" THEN MakeSetPlan(p, q)
     ELSE ResolveClauses([p EXCEPT !.distinct = q.distinct, !.asc = q.asc, !.limit = q.limit], q)
=============================================================================
