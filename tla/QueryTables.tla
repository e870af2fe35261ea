----------------------------- MODULE QueryTables -----------------------------
(***************************************************************************)
(* What a SelectPlan knows while it resolves its statement                 *)
(* (plan/select_plan.h), and how it looks up tables and columns.           *)
(*                                                                         *)
(* A column of a row is a pair <<table, column>>: the alias the table goes *)
(* by in its query, "" for the columns a query makes itself, and the       *)
(* number of the column.  A table of a query is a TableStmt; id tells it   *)
(* from every other table, also when its alias is the same.                *)
(***************************************************************************)
EXTENDS Objects

CONSTANT Columns  \* the tables of the database and the names of their columns

-----------------------------------------------------------------------------
(* Statements, as the parser leaves them, and expressions.                  *)

None == [k |-> "none"]
IsNone(e) == e.k = "none"
ConstExpr(v) == [k |-> "const", v |-> v]
ColumnExpr(d) == [k |-> "col", d |-> d]
SubplanExpr(plan) == [k |-> "sub", plan |-> plan]
UnaryExpr(op, x) == [k |-> "un", op |-> op, x |-> x]
BinaryExpr(op, x, y) == [k |-> "bin", op |-> op, x |-> x, y |-> y]
TernaryExpr(op, x, y, z) == [k |-> "tern", op |-> op, x |-> x, y |-> y, z |-> z]

IsColumn(e) == e.k = "col"
IsSubplan(e) == e.k = "sub"

\* The fields that are expressions, from left to right
Operands(e) ==
  CASE e.k = "un" -> <<"x">>
    [] e.k = "bin" -> <<"x", "y">>
    [] e.k = "tern" -> <<"x", "y", "z">>
    [] OTHER -> <<>>

\* The columns and the subplans an expression uses
RECURSIVE ColumnsOf(_), SubplansOf(_)
ColumnsOf(e) ==
  IF IsColumn(e) THEN {e.d} ELSE UNION {ColumnsOf(e[field]) : field \in ToSet(Operands(e))}
SubplansOf(e) ==
  IF IsSubplan(e) THEN {e.plan} ELSE UNION {SubplansOf(e[field]) : field \in ToSet(Operands(e))}

\* make_and_expression
MakeAnd(e, other) ==
  CASE IsNone(other) -> e
    [] IsNone(e) /\ ~IsNone(other) -> other
    [] OTHER -> BinaryExpr("AND", e, other)

-----------------------------------------------------------------------------
(* The plan.                                                                *)

NewPlan(parents, level, alias) ==
  [parents |-> parents,      \* the tables of the queries around this one
   level |-> level,          \* how many there are
   alias |-> alias,          \* alias_table_id
   name |-> "",              \* what SqlRewriter calls the table it makes of it
   tables |-> <<>>, list |-> <<>>, names |-> <<>>,
   access |-> <<>>, parentAccess |-> <<>>,
   joins |-> <<>>, filters |-> <<>>, after |-> None,
   corrected |-> <<>>, refs |-> <<>>,
   aggrs |-> <<>>, group |-> <<>>, having |-> None,
   sort |-> <<>>, sortsResult |-> FALSE, asc |-> TRUE,
   distinct |-> FALSE, limit |-> <<>>,
   clause |-> "",            \* resolve_select_list_or_having, is_resolve_where
   root |-> None]            \* root_operator

IsCorrelated(p) == p.refs # <<>>
IsSimpleScalarGroup(p) == p.group = <<>> /\ Len(p.aggrs) = 1

BaseTable(level, base, alias) ==
  [id |-> <<level, alias>>, alias |-> alias, tmp |-> FALSE, base |-> base,
   join |-> "Join", anti |-> None]
TmpTable(level, alias, plan, join, anti) ==
  [id |-> <<level, alias>>, alias |-> alias, tmp |-> TRUE, plan |-> plan,
   join |-> join, anti |-> anti]

\* The number of a column of a table
ColumnNumber(t, c) == Min({i \in DOMAIN Columns[t] : Columns[t][i] = c})

\* get_column_from_select_list
Named(p, c) == {i \in DOMAIN p.names : p.names[i] = c}
ListColumn(p, c) == <<p.alias, Min(Named(p, c))>>
\* get_query_row_desc
ListColumns(p) == [i \in DOMAIN p.list |-> <<p.alias, i>>]

-----------------------------------------------------------------------------
(* Whose is a column?  A search gives the tables it finds; more than one is *)
(* TABLE_REDEFINE, none COLUMN_NOT_EXISTS or TABLE_NOT_EXISTS.              *)

HaveColumn(t, c) ==
  IF t.tmp THEN Named(t.plan, c) # {} ELSE c \in ToSet(Columns[t.base])

FindTable(p, alias) == SelectSeq(p.tables, LAMBDA t : t.alias = alias)
FindTableFromParent(p, alias) == SelectSeq(p.parents, LAMBDA t : t.alias = alias)

FromParent(p, t) == \E i \in DOMAIN p.parents : p.parents[i].id = t.id

\* mutant: the first table that has the column is taken
FirstWithColumn(p, c) ==
  LET all == SelectSeq(p.tables, LAMBDA t : HaveColumn(t, c))
  IN IF all = <<>> THEN <<>> ELSE <<all[1]>>

\* A temporary table counts only when no table before it has the column
WithColumn(p, c) ==
  FoldLeft(LAMBDA s, t : IF HaveColumn(t, c) /\ (t.tmp => s = <<>>) THEN Append(s, t) ELSE s,
           <<>>, p.tables)
ParentWithColumn(p, c) == SelectSeq(p.parents, LAMBDA t : HaveColumn(t, c))

\* who_have_column, of a column of the statement
OwnOrUp(own, up, qualified) ==
  IF Len(own) = 1 \/ (Len(own) > 1 /\ qualified) THEN own ELSE up
WhoHaveColumn(p, s) ==
  IF s.t = "" THEN OwnOrUp(WithColumn(p, s.c), ParentWithColumn(p, s.c), FALSE)
  ELSE OwnOrUp(FindTable(p, s.t), FindTableFromParent(p, s.t), TRUE)

\* who_have_column, of a column of an expression
WhoHaveDesc(p, d) ==
  LET own == FindTable(p, d[1])
  IN IF own # <<>> THEN own ELSE FindTableFromParent(p, d[1])

\* add_access_column
Accessed(access, t, d) ==
  IF t.id \notin DOMAIN access THEN access @@ (t.id :> <<d>>)
  ELSE IF d \in ToSet(access[t.id]) THEN access
  ELSE [access EXCEPT ![t.id] = Append(@, d)]
\* mutant: an outer query is not told what its subquery reads
AddAccessColumnHere(p, t, d) == [p EXCEPT !.access = Accessed(@, t, d)]
AddAccessColumn(p, t, d) ==
  IF FromParent(p, t) THEN [p EXCEPT !.parentAccess = Accessed(@, t, d)]
  ELSE [p EXCEPT !.access = Accessed(@, t, d)]

-----------------------------------------------------------------------------
(* Where a conjunct of WHERE goes.                                          *)

\* is_table_filter: its columns belong to one table of this query, and the
\* queries in it do not depend on a row
IsTableFilter(p, e) ==
  /\ \A d \in ColumnsOf(e) :
       LET who == WhoHaveDesc(p, d) IN Len(who) = 1 /\ ~FromParent(p, who[1])
  /\ \A q \in SubplansOf(e) : ~IsCorrelated(q)
  /\ Cardinality({d[1] : d \in ColumnsOf(e)}) <= 1

\* add_table_filter: what uses no column filters every table
AddTableFilter(p, e) ==
  LET ids == IF ColumnsOf(e) = {} THEN {t.id : t \in ToSet(p.tables)}
             ELSE {WhoHaveDesc(p, d)[1].id : d \in ColumnsOf(e)}
      Old(i) == IF i \in DOMAIN p.filters THEN p.filters[i] ELSE None
  IN [p EXCEPT !.filters = [i \in ids |-> MakeAnd(Old(i), e)] @@ @]

\* search_jon_info
JoinCond(p, a, b) == IF {a, b} \in DOMAIN p.joins THEN p.joins[{a, b}]
                     ELSE [cond |-> None, equal |-> None]
\* mutant: a condition takes the place of the one before it
AddJoinCondLast(p, a, b, e) ==
  [p EXCEPT !.joins = ({a, b} :> [JoinCond(p, a, b) EXCEPT !.cond = e]) @@ @]
\* add_join_cond
AddJoinCond(p, a, b, e) ==
  [p EXCEPT !.joins = ({a, b} :> [JoinCond(p, a, b) EXCEPT !.cond = MakeAnd(@, e)]) @@ @]
\* add_join_equal_cond
AddJoinEqualCond(p, a, b, e) ==
  [p EXCEPT !.joins = ({a, b} :> [JoinCond(p, a, b) EXCEPT !.equal = MakeAnd(@, e)]) @@ @]
=============================================================================
