------------------------------ MODULE Changes --------------------------------
(***************************************************************************)
(* plan/insert_plan.cpp, plan/delete_plan.cpp and plan/update_plan.cpp:    *)
(* the statements that change the rows of a table.  They resolve their     *)
(* expressions themselves, with less care than SelectPlan, and work on one *)
(* table.  TableSpace.tla has the pages under them; here a table is the    *)
(* sequence of its rows.                                                   *)
(*                                                                         *)
(* A resolution answers with ret, the expression e and the columns of the  *)
(* table it reads, access_columns.                                         *)
(***************************************************************************)
EXTENDS PlanRun

CONSTANT Types  \* of the columns of the tables

NotResolved(code) == [ret |-> code, e |-> None, access |-> {}]
\* mutant: only the columns of the first part are read
MadeOfFirst(rs, e) ==
  LET bad == SelectSeq(rs, LAMBDA r : r.ret # "ok")
  IN IF bad # <<>> THEN bad[1]
     ELSE [ret |-> "ok", e |-> e, access |-> IF rs = <<>> THEN {} ELSE rs[1].access]
\* The expression e, made of the parts rs, or what went wrong in the first
MadeOf(rs, e) ==
  LET bad == SelectSeq(rs, LAMBDA r : r.ret # "ok")
  IN IF bad # <<>> THEN bad[1]
     ELSE [ret |-> "ok", e |-> e, access |-> UNION {r.access : r \in ToSet(rs)}]

\* A subquery: planned and built with the table around it.  The predicates
\* that mention that table are in its plan's corrected, and stay there.
BuiltQuery(table, p, b) ==
  IF b.ret # "ok" THEN NotResolved(b.ret)
  ELSE [ret |-> "ok", e |-> [k |-> "sub", correlated |-> IsCorrelated(p), op |-> b.op],
        access |-> IF table.id \in DOMAIN p.parentAccess
                   THEN ToSet(p.parentAccess[table.id]) ELSE {}]
PlannedQuery(table, o) ==
  IF o.ret = "ok" THEN BuiltQuery(table, o.p, Build(o.p)) ELSE NotResolved(o.ret)
ChangeQuery(t, s) ==
  LET table == BaseTable(0, t, t) IN PlannedQuery(table, Optimize(s.q, <<table>>, 1, ""))

\* resolve_expr of DeletePlan and UpdatePlan: a column's table is not looked at
RECURSIVE ResolveChange(_, _)
ResolveChange(t, s) ==
  LET d == <<t, ColumnNumber(t, s.c)>>
      R(x) == ResolveChange(t, x)
  IN CASE s.s = "const" -> MadeOf(<<>>, ConstExpr(s.v))
       [] s.s = "col" -> IF s.c \notin ToSet(Columns[t]) THEN NotResolved("refused")
                         ELSE [ret |-> "ok", e |-> ColumnExpr(d), access |-> {d}]
       [] s.s = "query" -> ChangeQuery(t, s)
       [] s.s = "list" ->
            IF \A i \in DOMAIN s.l : s.l[i].s = "const"
            THEN MadeOf(<<>>, ConstExpr(List([i \in DOMAIN s.l |-> s.l[i].v])))
            ELSE NotResolved("refused")
       [] s.s = "un" -> MadeOf(<<R(s.x)>>, UnaryExpr(s.op, R(s.x).e))
       [] s.s = "bin" -> MadeOf(<<R(s.x), R(s.y)>>, BinaryExpr(s.op, R(s.x).e, R(s.y).e))
       [] s.s = "tern" -> MadeOf(<<R(s.x), R(s.y), R(s.z)>>,
                                 TernaryExpr(s.op, R(s.x).e, R(s.y).e, R(s.z).e))
       [] OTHER -> NotResolved("refused")

\* resolve_filter
ResolveFilter(t, where) ==
  IF where.s = "none" THEN MadeOf(<<>>, None) ELSE ResolveChange(t, where)

-----------------------------------------------------------------------------
(* INSERT.                                                                  *)

\* InsertPlan::resolve_expr: constants and what is made of them
RECURSIVE InsertExpr(_)
InsertExpr(s) ==
  CASE s.s = "const" -> MadeOf(<<>>, ConstExpr(s.v))
    [] s.s = "un" -> MadeOf(<<InsertExpr(s.x)>>, UnaryExpr(s.op, InsertExpr(s.x).e))
    [] s.s = "bin" -> MadeOf(<<InsertExpr(s.x), InsertExpr(s.y)>>,
                             BinaryExpr(s.op, InsertExpr(s.x).e, InsertExpr(s.y).e))
    [] s.s = "tern" -> MadeOf(<<InsertExpr(s.x), InsertExpr(s.y), InsertExpr(s.z)>>,
                              TernaryExpr(s.op, InsertExpr(s.x).e, InsertExpr(s.y).e,
                                          InsertExpr(s.z).e))
    [] OTHER -> NotResolved("refused")

\* check_column_value
ColumnsFit(t, values) == Len(values) = Len(Columns[t])

\* resolve_row: the row, or none
CastCell(type, r) == IF r.ret = "ok" THEN CastTo(type, Eval(r.e, <<>>, <<>>, <<>>)) ELSE <<>>
WholeRow(cells) == IF \E i \in DOMAIN cells : cells[i] = <<>> THEN <<>> ELSE <<FlattenSeq(cells)>>
InsertRow(t, values) ==
  IF ~ColumnsFit(t, values) THEN <<>>
  ELSE WholeRow([i \in DOMAIN values |-> CastCell(Types[t][i], InsertExpr(values[i]))])

\* InsertPlan::build_plan: every row is made before the first is stored
InsertRows(rows) ==
  IF \E i \in DOMAIN rows : rows[i] = <<>> THEN [ret |-> "refused"]
  ELSE [ret |-> "ok", rows |-> FlattenSeq(rows)]
PlanInsert(q) == InsertRows([i \in DOMAIN q.rows |-> InsertRow(q.t, q.rows[i])])

-----------------------------------------------------------------------------
(* DELETE and UPDATE.                                                       *)

FilterPlan(r) == [ret |-> r.ret, filter |-> r.e, access |-> r.access]

\* DeletePlan::optimizer and build_plan
PlanDelete(q) == FilterPlan(ResolveFilter(q.t, q.where))

\* UpdatePlan has a resolve_expr of its own, which is the same
UpdateExpr(t, s) == ResolveChange(t, s)
UpdateFilter(t, where) == IF where.s = "none" THEN MadeOf(<<>>, None) ELSE UpdateExpr(t, where)

\* resolve_cell: the column and its new value, or nothing.  The value is
\* calculated once, before there is a row.
NewCell(i, value) == IF value = <<>> THEN <<>> ELSE <<[column |-> i, value |-> value[1]]>>
CellOf(t, i, r, db) ==
  IF r.ret = "ok" THEN NewCell(i, CastTo(Types[t][i], Eval(r.e, <<>>, db, <<>>))) ELSE <<>>
ResolveCell(t, s, db) ==
  LET value == IF s.x.s = "col" THEN s.y ELSE s.x
      column == IF s.y.s = "col" THEN s.y ELSE s.x
  IN IF \/ s.s # "bin" \/ s.op # "=" \/ column.s # "col" \/ value.s = "col"
        \/ column.c \notin ToSet(Columns[t])
     THEN <<>> ELSE CellOf(t, ColumnNumber(t, column.c), UpdateExpr(t, value), db)

\* resolve_update_row
UpdateRow(t, set, db) == [i \in DOMAIN set |-> ResolveCell(t, set[i], db)]

\* UpdatePlan::optimizer and build_plan
UpdateWith(r, cells) ==
  CASE r.ret # "ok" -> [ret |-> r.ret]
    [] r.ret = "ok" /\ \E i \in DOMAIN cells : cells[i] = <<>> -> [ret |-> "refused"]
    [] OTHER -> FilterPlan(r) @@ [cells |-> FlattenSeq(cells)]
PlanUpdate(q, db) == UpdateWith(UpdateFilter(q.t, q.where), UpdateRow(q.t, q.set, db))

\* Plan::make_plan
PlanOf(q, db) ==
  CASE q.s = "insert" -> PlanInsert(q)
    [] q.s = "delete" -> PlanDelete(q)
    [] q.s = "update" -> PlanUpdate(q, db)

-----------------------------------------------------------------------------
(* Execution.                                                               *)

\* The subqueries that are executed once, at the first row
RECURSIVE Settled(_, _)
Settled(e, db) ==
  IF e.k = "sub" THEN IF e.correlated THEN e ELSE ConstExpr(Eval(e, <<>>, db, <<>>))
  ELSE FoldLeft(LAMBDA x, field : [x EXCEPT ![field] = Settled(@, db)], e, Operands(e))

\* A row as the filter of a change sees it
AccessedCells(t, row, access) ==
  SelectSeq([i \in DOMAIN row |-> <<<<t, i>>, row[i]>>], LAMBDA cell : cell[1] \in access)

\* What becomes of a row that passes: nothing, or the row with the new cells
Made(row, p) ==
  IF "cells" \notin DOMAIN p THEN <<>>
  ELSE <<FoldLeft(LAMBDA r, c : [r EXCEPT ![c.column] = c.value], row, p.cells)>>

\* Delete::get_next_row and Update::get_next_row, from the first row of the
\* table to the last.  The scan of a correlated subquery has a TableSpace of its
\* own and reads the file, where the table is as it was before the change: its
\* dirty pages are in the cache of the change (as long as they fit into it).
SweptRow(t, filter, p, db, a, i) ==
  IF Passes(filter, AccessedCells(t, db[t][i], p.access), db, <<>>)
  THEN [rows |-> a.rows \o Made(db[t][i], p), count |-> a.count + 1]
  ELSE [a EXCEPT !.rows = Append(@, db[t][i])]
SweptBy(t, filter, p, db) ==
  FoldLeft(LAMBDA a, i : SweptRow(t, filter, p, db, a, i),
           [rows |-> <<>>, count |-> 0], [i \in DOMAIN db[t] |-> i])
Swept(t, p, db) == SweptBy(t, Settled(p.filter, db), p, db)

\* Execution of the plans: the rows of the table then, and affect_rows
ExecuteInsert(t, p, db) == [rows |-> db[t] \o p.rows, count |-> Len(p.rows)]
\* Without a filter delete_all_row empties the table, and nothing is counted
ExecuteDelete(t, p, db) ==
  IF IsNone(p.filter) THEN [rows |-> <<>>, count |-> 0] ELSE Swept(t, p, db)
ExecuteUpdate(t, p, db) == Swept(t, p, db)

Changed(q, p, db) ==
  CASE q.s = "insert" -> ExecuteInsert(q.t, p, db)
    [] q.s = "delete" -> ExecuteDelete(q.t, p, db)
    [] q.s = "update" -> ExecuteUpdate(q.t, p, db)
=============================================================================
