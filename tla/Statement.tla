----------------------------- MODULE Statement ------------------------------
(***************************************************************************)
(* A statement on its way through the server: the parser makes it of its   *)
(* text; of a SELECT, the optimizer resolves it, build_plan makes the      *)
(* operators and execute reads them until there are no more rows; of an    *)
(* INSERT, a DELETE or an UPDATE, the plan is made at once and execute     *)
(* changes the table.  What it answers, and what it does to the table, is  *)
(* compared with what the statement means in SQL.                          *)
(***************************************************************************)
EXTENDS Changes, SqlText

CONSTANTS Statements,  \* what clients mean
          Databases    \* contents of the tables

Sql == INSTANCE SqlMeaning

VARIABLES stmt,    \* what the client means
          text,    \* how it says so
          query, explain, pc, plan, tree, db, answer

vars == <<stmt, text, query, explain, pc, plan, tree, db, answer>>

Init ==
  /\ stmt \in Statements
  /\ \E full \in BOOLEAN : text = Text(stmt, full)
  /\ pc = "received"
  /\ query = None
  /\ explain = FALSE
  /\ plan = None
  /\ tree = None
  /\ db = <<>>
  /\ answer = <<>>

\* SqlDriver::parse_sql and Plan::make_plan
NextPlan(s) ==
  CASE s \in {"select", "set"} -> "parsed"
    [] s \in {"insert", "delete", "update"} -> "change"
    [] OTHER -> "other"
Parsed(r) ==
  /\ explain' = (r.ok /\ r.e.s = "explain")
  /\ query' = CASE ~r.ok -> None [] explain' -> r.e.of [] OTHER -> r.e
  /\ pc' = IF r.ok THEN NextPlan(query'.s) ELSE "syntax error"
Parse ==
  /\ pc = "received"
  /\ Parsed(ParseSql(text))
  /\ text' = <<>>
  /\ UNCHANGED <<stmt, plan, tree, db, answer>>

\* SelectPlan::optimizer
Optimized(o) ==
  /\ pc' = IF o.ret = "ok" THEN "optimized" ELSE o.ret
  /\ plan' = IF o.ret = "ok" THEN o.p ELSE None
OptimizeQuery ==
  /\ pc = "parsed"
  /\ Optimized(Optimize(query, <<>>, 0, ""))
  /\ UNCHANGED <<stmt, text, query, explain, tree, db, answer>>

\* SelectPlan::build_plan
Built(b) ==
  /\ pc' = IF b.ret = "ok" THEN "built" ELSE b.ret
  /\ tree' = IF b.ret = "ok" THEN b.op ELSE None
BuildPlan ==
  /\ pc = "optimized"
  /\ Built(Build(plan))
  /\ UNCHANGED <<stmt, text, query, explain, plan, db, answer>>

\* SelectPlan::execute; EXPLAIN answers with the operators and reads no row
Answers(rows) == [i \in DOMAIN rows |-> ValuesOf(rows[i])]
Execute ==
  /\ pc = "built"
  /\ \E d \in Databases :
       /\ db' = d
       /\ pc' = CASE explain -> "explained"
                   [] ~explain /\ Crashes(tree, d) -> "crashed"
                   [] OTHER -> "answered"
       /\ answer' = IF pc' = "answered" THEN Answers(Rows(tree, d, <<>>, 1)) ELSE <<>>
  /\ UNCHANGED <<stmt, text, query, explain, plan, tree>>

\* optimizer and build_plan of the other plans
Planned(p) ==
  /\ pc' = IF p.ret = "ok" THEN "planned" ELSE p.ret
  /\ plan' = IF p.ret = "ok" THEN p ELSE None
PlanChange ==
  /\ pc = "change"
  /\ \E d \in Databases : db' = d /\ Planned(PlanOf(query, d))
  /\ UNCHANGED <<stmt, text, query, explain, tree, answer>>

\* execute of the other plans
ChangedTo(c) ==
  /\ pc' = "changed"
  /\ db' = [db EXCEPT ![query.t] = c.rows]
  /\ answer' = <<c.count>>
ExecuteChange ==
  /\ pc = "planned"
  /\ IF explain THEN pc' = "explained" /\ UNCHANGED <<db, answer>>
     ELSE ChangedTo(Changed(query, plan, db))
  /\ UNCHANGED <<stmt, text, query, explain, plan, tree>>

Next == Parse \/ OptimizeQuery \/ BuildPlan \/ Execute \/ PlanChange \/ ExecuteChange

Spec == Init /\ [][Next]_vars

-----------------------------------------------------------------------------
(* What kind of statement a query is.                                       *)

Grouped(q) == q.group # <<>> \/ Sql!Aggregates(q)
Plain(q) ==
  /\ q.s = "select" /\ ~Grouped(q)
  /\ q.order = <<>> /\ q.limit = <<>> /\ ~q.distinct

\* The conjuncts of a subquery that name a column it does not have, and those
\* that only equate two columns
Foreign(q, s) == s.s = "col" /\ Sql!Owners(q.from, s) = {}
Outer(q) ==
  LET Reaches(e) == e.s = "bin" /\ (Foreign(q, e.x) \/ Foreign(q, e.y))
  IN SelectSeq(Conjuncts(q.where), Reaches)
Equates(e) == e.s = "bin" /\ e.op = "=" /\ e.x.s = "col" /\ e.y.s = "col"

\* The subqueries that are right when the planner rewrites them, and those it
\* may leave alone.  The others are in the README.
Answerable(s) ==
  LET q == IF s.s = "un" THEN s.x.q ELSE s.y.q
      outer == Outer(q)
  IN CASE Sql!QueriesIn(s) = {} -> TRUE
       [] s.s = "un" -> /\ s.op \in {"EXISTS", "NOT EXISTS"} /\ s.x.s = "query"
                        /\ outer = <<>> \/ \E i \in DOMAIN outer : Equates(outer[i])
       [] s.s = "bin" ->
            /\ s.x.s = "col" /\ s.y.s = "query"
            /\ s.op = "NOT IN" => outer = <<>>
            /\ Sql!Aggregates(q) /\ outer # <<>> =>
                 /\ \A i \in DOMAIN outer : Equates(outer[i])
                 /\ q.list[1].e.f # "COUNT"
       [] OTHER -> FALSE
SortsItsList(q) ==
  q.s = "set" \/ \A s \in ToSet(q.order) : s.c \in ToSet(Sql!NamesOf(q))
AllAnswerable(q) ==
  CASE q.s \in {"set", "insert"} -> TRUE
    [] q.s = "select" -> \A i \in DOMAIN Conjuncts(q.where) : Answerable(Conjuncts(q.where)[i])
    [] q.s \in {"delete", "update"} -> \A x \in Sql!QueriesIn(q.where) : Outer(x) = <<>>

Acceptable(q) ==
  IF q.s \in {"select", "set"} THEN Sql!WellFormed(q, <<>>) ELSE Sql!WellFormedChange(q, db)

-----------------------------------------------------------------------------
Copies(rows, r) == Cardinality({i \in DOMAIN rows : rows[i] = r})
SameRows(one, two) ==
  /\ Len(one) = Len(two)
  /\ \A r \in ToSet(one) : Copies(one, r) = Copies(two, r)

\* Where SQL has no group, HashGroup may have that of no rows
GroupOfNoRows(q, rows) ==
  q.s = "select" /\ Grouped(q) /\ rows = <<>> /\ Len(answer) <= 1
SameOrNoGroup(q, rows) == SameRows(answer, rows) \/ GroupOfNoRows(q, rows)

\* The answer of a statement without subqueries has exactly the rows for which
\* its WHERE is true, the values SQL gives its select list, and each row as
\* often, over one table, several, or the answer of another query: whatever
\* becomes of a conjunct, a filter of a table, a condition of a join or a filter
\* after the joins, each is there once, in any order of the tables.  So have
\* sets, and groups, except those of no rows.
RowsExact ==
  /\ pc = "answered"
  /\ query.s = "set" \/ ((Plain(query) \/ Grouped(query)) /\ Sql!QueriesIn(query.where) = {})
  => SameOrNoGroup(query, Sql!Meaning(query, <<>>, db))

\* So has the answer of a statement with subqueries in its WHERE, whether
\* SqlRewriter has made joins of them or they run once for every row.
SubqueriesExact ==
  /\ pc = "answered" /\ query.s = "select" /\ (Plain(query) \/ Grouped(query))
  /\ Sql!QueriesIn(query.where) # {} /\ AllAnswerable(query)
  => SameOrNoGroup(query, Sql!Meaning(query, <<>>, db))

SortedColumns(q) ==
  {i \in DOMAIN Sql!NamesOf(q) : \E s \in ToSet(q.order) : s.c = Sql!NamesOf(q)[i]}
InOrder(all, rows) ==
  \/ GroupOfNoRows(query, rows)
  \/ /\ Len(answer) = Len(rows)
     /\ \A r \in ToSet(answer) : Copies(answer, r) <= Copies(all, r)
     /\ \A i \in DOMAIN rows, k \in SortedColumns(query) : answer[i][k] = rows[i][k]

\* ORDER BY and LIMIT: as many rows as there should be, each among the rows of
\* the statement without a limit, and in the order of the columns it is to be
\* sorted by, in whichever of sort, top-n sort and limit the planner puts them.
OrderedAnswers ==
  /\ pc = "answered" /\ query.s = "select" /\ SortsItsList(query)
  /\ query.order # <<>> \/ query.limit # <<>>
  =>
    LET all == Sql!Meaning([query EXCEPT !.limit = <<>>], <<>>, db)
    IN InOrder(all, Sql!Within(query.limit, all))

\* A statement is refused when it has no meaning, and only then: a column that
\* two tables have, or none, is never taken for one of another table, and a
\* value that is not of its column's type is not stored.
RefusedRight ==
  /\ pc = "refused" => ~Acceptable(query)
  /\ pc \in {"answered", "changed", "explained"} => Acceptable(query)

-----------------------------------------------------------------------------
(* The statements that change a table.                                      *)

\* What is read is what was written: no operand is taken away from an operator
\* that binds more tightly, no clause is lost, and no statement is refused
\* for its syntax, however many parentheses it has.
ParsesBack ==
  pc # "received" => stmt = IF explain THEN [s |-> "explain", of |-> query] ELSE query

\* A NULL in the rows of a subquery makes the code's NOT IN true, not unknown
NotInNull(q) ==
  /\ q.s # "insert" /\ q.where.s = "bin" /\ q.where.op = "NOT IN"
  /\ \E x \in Sql!QueriesIn(q.where) : <<Null>> \in ToSet(Sql!Meaning(x, <<>>, db))

\* A change leaves the table as SQL has it, and counts the rows that it has
\* changed; only DELETE without a WHERE does not count.  EXPLAIN of a change
\* makes none.
ChangesExact ==
  [][pc = "planned" /\ explain => db' = db]_vars /\
  [][pc = "planned" /\ ~explain /\ AllAnswerable(query) /\ ~NotInNull(query) =>
       LET t == query.t
           hit == Sql!HitBy(query, db)
       IN /\ SameRows(db'[t], Sql!ChangedBy(query, db))
          /\ answer' = <<IF query.s = "delete" /\ query.where.s = "none" THEN 0 ELSE hit>>
          /\ \A u \in DOMAIN db \ {t} : db'[u] = db[u]]_vars

-----------------------------------------------------------------------------
\* The columns of the rows of an operator
RECURSIVE Supplies(_)
Supplies(op) ==
  CASE op.o = "scan" -> ToSet(op.columns)
    [] op.o \in {"filter", "distinct", "sort", "topn", "limit"} -> Supplies(op.in)
    [] op.o = "query" -> {<<op.alias, i>> : i \in DOMAIN op.list}
    [] op.o = "scalar" -> {<<op.alias, i>> : i \in DOMAIN op.aggrs}
    [] op.o = "group" -> {<<op.alias, i>> : i \in DOMAIN op.aggrs} \union {e.d : e \in ToSet(op.by)}
    [] op.o \in {"hash", "nested"} /\ ~op.semi -> Supplies(op.left) \union Supplies(op.right)
    [] OTHER -> Supplies(op.left)

\* Every expression of an operator, and of the operators below it, finds its
\* columns: in the rows of the operator's input or, in a correlated subquery, in
\* those of the queries around it
RECURSIVE Fed(_, _), Supplied(_, _)
Fed(e, have) ==
  CASE e.k = "col" -> e.d \in have
    [] e.k = "sub" -> Supplied(e.op, IF e.correlated THEN have ELSE {})
    [] e.k = "un" -> Fed(e.x, have)
    [] e.k = "bin" -> Fed(e.x, have) /\ Fed(e.y, have)
    [] e.k = "tern" -> Fed(e.x, have) /\ Fed(e.y, have) /\ Fed(e.z, have)
    [] OTHER -> TRUE
Supplied(op, outer) ==
  LET below == IF "in" \in DOMAIN op THEN {op.in}
               ELSE IF "left" \in DOMAIN op THEN {op.left, op.right} ELSE {}
      input == outer \union IF op.o = "scan" THEN Supplies(op) ELSE UNION {Supplies(b) : b \in below}
      Args == {op.aggrs[i].x : i \in DOMAIN op.aggrs}
      exprs == CASE op.o \in {"scan", "filter"} -> {op.filter}
                 [] op.o = "query" -> ToSet(op.list)
                 [] op.o \in {"sort", "topn"} -> ToSet(op.by)
                 [] op.o = "scalar" -> Args
                 [] op.o = "group" -> Args \union ToSet(op.by)
                 [] op.o \in {"hash", "nested", "anti"} -> {op.cond, op.equal}
                 [] OTHER -> {}
  IN /\ \A e \in exprs : Fed(e, input)
     /\ op.o \in {"scalar", "group"} => Fed(op.filter, outer \union Supplies(op))
     /\ \A b \in below : Supplied(b, outer)

\* A column that an operator uses is in the rows it
\* reads: what the planner collects for the scans in add_access_column, and
\* what SqlRewriter moves between queries, agree with the expressions.  A row
\* without it would give an error where a value is, and lose the row.
ColumnsSupplied ==
  pc \in {"built", "answered", "crashed"} /\ AllAnswerable(query) /\ SortsItsList(query) =>
    Supplied(tree, {})
=============================================================================
