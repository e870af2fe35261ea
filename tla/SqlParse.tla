------------------------------ MODULE SqlParse -------------------------------
(***************************************************************************)
(* parser/lex_yacc/sql_parser.y: from the tokens of a statement to the     *)
(* statement.  A token is a tuple of its kind and, for an identifier, a    *)
(* number or a string, its value.  bison's tables are read as what they    *)
(* were made from: a production is an operator of the position it starts   *)
(* at, and answers with ok, what it made (e) and the position after it     *)
(* (at); where productions compete the precedences of the tokens decide.   *)
(***************************************************************************)
EXTENDS Objects

CONSTANT GlobalDatabase  \* the session's database

Kind(ts, i) == IF i \in DOMAIN ts THEN ts[i][1] ELSE ";"
Node(e, i) == [ok |-> TRUE, e |-> e, at |-> i]
Fail == [ok |-> FALSE]
\* What follows r, if there is an r
Then(r, next(_)) == IF r.ok THEN next(r) ELSE Fail
\* What is made of what r has made
Make(r, of(_)) == Then(r, LAMBDA x : Node(of(x.e), x.at))
\* What r has made, and what comes next as one of its fields
With(r, field, next(_)) ==
  Then(r, LAMBDA x : Make(next(x.at), LAMBDA e : (field :> e) @@ x.e))
OrElse(r, other) == IF r.ok THEN r ELSE other
\* A token that has to be there
Expect(ts, r, kind) ==
  IF r.ok /\ Kind(ts, r.at) = kind THEN [r EXCEPT !.at = @ + 1] ELSE Fail
\* An identifier, after r
Ident(ts, i) == IF Kind(ts, i) = "id" THEN Node(ts[i][2], i + 1) ELSE Fail

-----------------------------------------------------------------------------
(* Statements.                                                              *)

Nothing == [s |-> "none"]
Const(v) == [s |-> "const", v |-> v]
Column(t, c) == [s |-> "col", t |-> t, c |-> c]
AllColumns(t) == [s |-> "star", t |-> t]
Table(db, t) == [s |-> "table", db |-> db, t |-> t, as |-> t]
MakeUnary(op, x) == [s |-> "un", op |-> op, x |-> x]
MakeBinary(op, x, y) == [s |-> "bin", op |-> op, x |-> x, y |-> y]
MakeTernary(op, x, y, z) == [s |-> "tern", op |-> op, x |-> x, y |-> y, z |-> z]
MakeQuery(q) == [s |-> "query", q |-> q]

AggregateOf == [sum |-> "SUM", avg |-> "AVG", count |-> "COUNT", min |-> "MIN", max |-> "MAX"]
\* make_aggr_stmt: no other function
MakeAggregate(f, x) ==
  IF f \notin DOMAIN AggregateOf THEN Fail
  ELSE Make(x, LAMBDA e : [s |-> "agg", f |-> AggregateOf[f], x |-> e])

Spelled(op) ==
  CASE op = "<>" -> "!="
    [] op \in {"AND", "OR"} -> IF op = "AND" THEN " and " ELSE " or "
    [] op \in {"LIKE", "NOT LIKE"} -> IF op = "LIKE" THEN " like " ELSE " not like "
    [] op \in {"IN", "NOT IN"} -> ""
    [] OTHER -> op
\* to_string, which names a column that has no other name
RECURSIVE NameOf(_)
NameOf(e) ==
  CASE e.s = "col" -> IF e.t = "" THEN e.c ELSE e.t \o "." \o e.c
    [] e.s = "star" -> IF e.t = "*" THEN "*" ELSE e.t \o ".*"
    [] e.s = "const" -> IF Type(e.v) = "number" THEN ToString(e.v[2]) ELSE Type(e.v)
    [] e.s = "agg" -> e.f \o "(" \o NameOf(e.x) \o ")"
    [] e.s = "un" -> NameOf(e.x) \o (IF e.op \in {"IS NULL", "IS NOT NULL"} THEN " " \o e.op ELSE "")
    [] e.s = "bin" -> NameOf(e.x) \o Spelled(e.op) \o NameOf(e.y)
    [] e.s = "tern" ->
         NameOf(e.x) \o (IF e.op = "BETWEEN" THEN "between" ELSE "not between")
           \o NameOf(e.y) \o "and" \o NameOf(e.z)
    [] e.s \in {"query", "list"} -> "the time"

-----------------------------------------------------------------------------
(* Expressions.                                                             *)

Comparison == {"=", "<>", "<", ">", "<=", ">="}
\* The precedence of a token that may follow an expression; 0 for the others
Prec(kind) ==
  CASE kind = "OR" -> 3
    [] kind = "AND" -> 4
    [] kind = "NOT" -> 5
    [] kind \in Comparison -> 6
    [] kind = "LIKE" -> 7
    [] kind = "BETWEEN" -> 8
    [] kind = "IN" -> 9
    [] kind = "IS" -> 10
    [] kind \in {"+", "-"} -> 11
    [] kind \in {"*", "/"} -> 12
    [] OTHER -> 0

RECURSIVE Items(_, _, _), Item(_, _, _), Expr(_, _, _), Climb(_, _, _),
          Simple(_, _), SelectNoParens(_, _), SelectWithParens(_, _)

\* Things with commas between them
Items(ts, i, what) ==
  Then(Item(ts, i, what),
       LAMBDA x : IF Kind(ts, x.at) # "," THEN Node(<<x.e>>, x.at)
                  ELSE Make(Items(ts, x.at + 1, what), LAMBDA rest : <<x.e>> \o rest))
\* The same in parentheses
InParentheses(ts, i, what) ==
  IF Kind(ts, i) = "(" THEN Expect(ts, Items(ts, i + 1, what), ")") ELSE Fail

\* column_ref
ColumnRef(ts, i) ==
  CASE Kind(ts, i) = "*" -> Node(AllColumns("*"), i + 1)
    [] Kind(ts, i) = "id" /\ Kind(ts, i + 1) # "." -> Node(Column("", ts[i][2]), i + 1)
    [] OTHER -> CASE Kind(ts, i + 2) = "*" -> Node(AllColumns(ts[i][2]), i + 3)
                  [] Kind(ts, i + 2) = "id" -> Node(Column(ts[i][2], ts[i + 2][2]), i + 3)
                  [] OTHER -> Fail

\* expr_const
ExprConst(ts, i) ==
  CASE Kind(ts, i) = "num" -> Node(Const(Number(ts[i][2])), i + 1)
    [] Kind(ts, i) = "str" -> Node(Const(Varchar(ts[i][2])), i + 1)
    [] Kind(ts, i) \in {"TRUE", "FALSE"} -> Node(Const(Bool(Kind(ts, i) = "TRUE")), i + 1)
    [] Kind(ts, i) = "NULL" -> Node(Const(Null), i + 1)
    [] Kind(ts, i) \in {"DATETIME", "DATE"} ->
         IF Kind(ts, i + 1) = "str" /\ Times[ts[i + 1][2]] >= 0
         THEN Node(Const(DateTime(Times[ts[i + 1][2]])), i + 2) ELSE Fail

\* func_expr
FuncExpr(ts, i) ==
  LET j == IF Kind(ts, i + 2) \in {"ALL", "DISTINCT"} THEN i + 3 ELSE i + 2
  IN MakeAggregate(ts[i][2], Expect(ts, Expr(ts, j, 0), ")"))

\* EXISTS
ExistsOf(ts, i, op) == Make(SelectWithParens(ts, i), LAMBDA q : MakeUnary(op, q))

\* simple_expr and the signs before it: a query in parentheses is read as one
\* before it is read as an expression in parentheses
Simple(ts, i) ==
  LET kind == Kind(ts, i)
  IN CASE kind = "+" -> Simple(ts, i + 1)
       [] kind = "-" -> Make(Simple(ts, i + 1), LAMBDA x : MakeUnary("-", x))
       [] kind = "(" -> OrElse(SelectWithParens(ts, i), Expect(ts, Expr(ts, i + 1, 0), ")"))
       [] kind = "EXISTS" -> ExistsOf(ts, i + 1, "EXISTS")
       [] kind = "NOT" /\ Kind(ts, i + 1) = "EXISTS" -> ExistsOf(ts, i + 2, "NOT EXISTS")
       [] kind = "id" /\ Kind(ts, i + 1) = "(" -> FuncExpr(ts, i)
       [] kind = "*" \/ (kind = "id" /\ Kind(ts, i + 1) # "(") -> ColumnRef(ts, i)
       [] kind \in {"num", "str", "TRUE", "FALSE", "NULL", "DATETIME", "DATE"} -> ExprConst(ts, i)
       [] OTHER -> Fail

\* expr, with operators that bind tighter than min
Expr(ts, i, min) == Climb(ts, Simple(ts, i), min)

\* mutant: the bounds of BETWEEN are any expressions
ArithExprAny(ts, i) == Expr(ts, i, 0)
\* arith_expr
ArithExpr(ts, i) == Expr(ts, i, Prec("IS"))

\* in_expr
InExpr(ts, i) ==
  OrElse(SelectWithParens(ts, i),
         Make(InParentheses(ts, i, "expr"), LAMBDA items : [s |-> "list", l |-> items]))

\* The operator at i with left before it; not is the NOT of NOT LIKE, NOT
\* BETWEEN and NOT IN, the token that its precedence is looked up by
OperationAt(ts, i, left, not) ==
  LET kind == Kind(ts, i)
      op == IF not THEN "NOT " \o kind ELSE kind
  IN CASE kind = "LIKE" \/ (kind \in Comparison \union {"OR", "AND", "+", "-", "*", "/"} /\ ~not) ->
            Make(Expr(ts, i + 1, Prec(kind)), LAMBDA y : MakeBinary(op, left, y))
       [] kind = "BETWEEN" ->
            Then(Expect(ts, ArithExpr(ts, i + 1), "AND"),
                 LAMBDA low : Make(ArithExpr(ts, low.at),
                                   LAMBDA high : MakeTernary(op, left, low.e, high)))
       [] kind = "IN" -> Make(InExpr(ts, i + 1), LAMBDA list : MakeBinary(op, left, list))
       [] kind = "IS" /\ ~not ->
            CASE Kind(ts, i + 1) = "NULL" -> Node(MakeUnary("IS NULL", left), i + 2)
              [] Kind(ts, i + 1) = "NOT" /\ Kind(ts, i + 2) = "NULL" ->
                   Node(MakeUnary("IS NOT NULL", left), i + 3)
              [] OTHER -> Fail
       [] OTHER -> Fail
Operation(ts, left, not) == OperationAt(ts, IF not THEN left.at + 1 ELSE left.at, left.e, not)

\* The engine's choice between a reduction and a shift
Climb(ts, left, min) ==
  LET kind == Kind(ts, left.at)
  IN IF ~left.ok \/ Prec(kind) <= min THEN left
     ELSE Climb(ts, Operation(ts, left, kind = "NOT"), min)

-----------------------------------------------------------------------------
(* SELECT.                                                                  *)

\* select_with_parens
SelectWithParens(ts, i) ==
  IF Kind(ts, i) # "(" THEN Fail
  ELSE Make(Expect(ts, SelectNoParens(ts, i + 1), ")"), MakeQuery)

\* A name for what is before it, with AS or without
AliasAt(ts, i) == Ident(ts, IF Kind(ts, i) = "AS" THEN i + 1 ELSE i)
Labelled(ts, i, if(_), else) ==
  IF Kind(ts, i) \in {"AS", "id"} THEN Make(AliasAt(ts, i), if) ELSE else

\* projection: an expression and the name it gets
Projection(ts, i) ==
  Then(Expr(ts, i, 0),
       LAMBDA x : Labelled(ts, x.at, LAMBDA name : [e |-> x.e, as |-> name],
                           Node([e |-> x.e, as |-> NameOf(x.e)], x.at)))

\* relation_factor
RelationFactor(ts, i) ==
  IF Kind(ts, i + 1) = "."
  THEN Then(Ident(ts, i), LAMBDA d : Make(Ident(ts, i + 2), LAMBDA t : Table(d.e, t)))
  ELSE Make(Ident(ts, i), LAMBDA t : Table(GlobalDatabase, t))

\* table_factor: a query has to have a name
TableFactor(ts, i) ==
  Then(IF Kind(ts, i) = "(" THEN SelectWithParens(ts, i) ELSE RelationFactor(ts, i),
       LAMBDA t : Labelled(ts, t.at, LAMBDA name : [as |-> name] @@ t.e,
                           IF t.e.s = "table" THEN t ELSE Fail))

Where(ts, i) == IF Kind(ts, i) = "WHERE" THEN Expr(ts, i + 1, 0) ELSE Node(Nothing, i)
Having(ts, i) == IF Kind(ts, i) = "HAVING" THEN Expr(ts, i + 1, 0) ELSE Node(Nothing, i)
\* opt_groupby and opt_order_by
By(ts, i, kind) ==
  CASE Kind(ts, i) # kind -> Node(<<>>, i)
    [] Kind(ts, i) = kind /\ Kind(ts, i + 1) = "BY" -> Items(ts, i + 2, "expr")
    [] OTHER -> Fail
AscDesc(ts, i) ==
  IF Kind(ts, i) \in {"ASC", "DESC"} THEN Node(Kind(ts, i) = "ASC", i + 1) ELSE Node(TRUE, i)
\* opt_select_limit
Limit(ts, i) ==
  LET n(j) == Kind(ts, j) = "num"
  IN CASE Kind(ts, i) # "LIMIT" -> Node(<<>>, i)
       [] n(i + 1) /\ Kind(ts, i + 2) = "," /\ n(i + 3) -> Node(<<ts[i + 1][2], ts[i + 3][2]>>, i + 4)
       [] n(i + 1) /\ Kind(ts, i + 2) # "," -> Node(<<0, ts[i + 1][2]>>, i + 2)
       [] OTHER -> Fail

\* SELECT ... FROM DUAL reads one row of a table that has some
Dual(list, i) ==
  Node([s |-> "select", list |-> list, from |-> <<Table("system", "sys_databases")>>,
        where |-> Nothing, group |-> <<>>, having |-> Nothing, order |-> <<>>, asc |-> TRUE,
        distinct |-> FALSE, limit |-> <<0, 1>>], i)

\* What comes after the select list x
FromClauses(ts, x) ==
  With(With(With(With(With(With(Expect(ts, x, "FROM"),
    "from", LAMBDA j : Items(ts, j, "table")),
    "where", LAMBDA j : Where(ts, j)),
    "group", LAMBDA j : By(ts, j, "GROUP")),
    "having", LAMBDA j : Having(ts, j)),
    "order", LAMBDA j : By(ts, j, "ORDER")),
    "asc", LAMBDA j : AscDesc(ts, j))
SelectFrom(ts, i) ==
  LET distinct == Kind(ts, i + 1) = "DISTINCT"
  IN Then(With(Node([s |-> "select", distinct |-> distinct], IF distinct THEN i + 2 ELSE i + 1),
               "list", LAMBDA j : Items(ts, j, "projection")),
          LAMBDA x : IF Kind(ts, x.at) = "FROM" /\ Kind(ts, x.at + 1) = "DUAL"
                     THEN Dual(x.e.list, x.at + 2)
                     ELSE With(FromClauses(ts, x), "limit", LAMBDA j : Limit(ts, j)))

\* The set operators join queries in parentheses
SetOperation(ts, first) ==
  LET kind == Kind(ts, first.at)
      all == kind = "UNION" /\ Kind(ts, first.at + 1) = "ALL"
      op == CASE kind = "UNION" -> IF all THEN "UnionAll" ELSE "HashUnion"
              [] kind = "INTERSECT" -> "HashIntersect"
              [] kind = "EXCEPT" -> "HashExcept"
  IN IF kind \notin {"UNION", "INTERSECT", "EXCEPT"} THEN Fail
     ELSE Make(SelectWithParens(ts, IF all THEN first.at + 2 ELSE first.at + 1),
               LAMBDA second : [s |-> "set", op |-> op, first |-> first.e.q, second |-> second.q])

\* select_no_parens
SelectNoParens(ts, i) ==
  CASE Kind(ts, i) = "SELECT" /\ Kind(ts, i + 1) # "DATABASE" -> SelectFrom(ts, i)
    [] Kind(ts, i) = "SELECT" /\ Kind(ts, i + 1) = "DATABASE" ->
         IF Kind(ts, i + 2) = "(" /\ Kind(ts, i + 3) = ")"
         THEN Node([s |-> "current database"], i + 4) ELSE Fail
    [] Kind(ts, i) # "SELECT" -> Then(SelectWithParens(ts, i), LAMBDA first : SetOperation(ts, first))

-----------------------------------------------------------------------------
(* The other statements.                                                    *)

TypeOf(kind) ==
  CASE kind \in {"INT", "BIGINT", "DOUBLE", "BOOL"} -> "number"
    [] kind \in {"VARCHAR", "CHAR"} -> "varchar"
    [] kind \in {"DATETIME", "DATE", "TIME"} -> "datetime"
    [] OTHER -> ""
\* column_definition; a length or a precision is read and forgotten
ColumnDefinition(ts, i) ==
  LET sized == Kind(ts, i + 2) = "(" /\ Kind(ts, i + 3) = "num" /\ Kind(ts, i + 4) = ")"
  IN IF Kind(ts, i) # "id" \/ TypeOf(Kind(ts, i + 1)) = "" THEN Fail
     ELSE Node(<<ts[i][2], TypeOf(Kind(ts, i + 1))>>, IF sized THEN i + 5 ELSE i + 2)

Item(ts, i, what) ==
  CASE what = "expr" -> Expr(ts, i, 0)
    [] what = "projection" -> Projection(ts, i)
    [] what = "table" -> TableFactor(ts, i)
    [] what = "row" -> InParentheses(ts, i, "expr")  \* insert_vals_list
    [] what = "column" -> ColumnDefinition(ts, i)

\* A statement that names a table, or a database
About(what, t) == Make(t, LAMBDA e : [s |-> what, db |-> e.db, t |-> e.t])
OfTable(what, ts, i) == About(what, RelationFactor(ts, i))
OfDatabase(what, ts, i) == Make(Ident(ts, i), LAMBDA d : [s |-> what, db |-> d])

\* insert_stmt; there is no INSERT of a query
InsertStmt(ts) ==
  IF Kind(ts, 2) # "INTO" THEN Fail
  ELSE With(Expect(ts, OfTable("insert", ts, 3), "VALUES"), "rows", LAMBDA i : Items(ts, i, "row"))

\* assign: the comma between assignments is not the comma that the scanner
\* gives, so that there is only one of them
Assignments(ts, i) ==
  Then(Expect(ts, Ident(ts, i), "="),
       LAMBDA c : Make(Expr(ts, c.at, 0), LAMBDA v : <<MakeBinary("=", Column("", c.e), v)>>))
\* update_stmt
UpdateStmt(ts) ==
  With(With(Expect(ts, OfTable("update", ts, 2), "SET"), "set", LAMBDA i : Assignments(ts, i)),
       "where", LAMBDA i : Where(ts, i))

\* delete_stmt
DeleteStmt(ts) ==
  IF Kind(ts, 2) # "FROM" THEN Fail
  ELSE With(OfTable("delete", ts, 3), "where", LAMBDA i : Where(ts, i))

\* create_stmt and drop_stmt
CreateStmt(ts) ==
  CASE Kind(ts, 2) = "TABLE" ->
         With(OfTable("create table", ts, 3), "columns", LAMBDA i : InParentheses(ts, i, "column"))
    [] Kind(ts, 2) = "DATABASE" -> OfDatabase("create database", ts, 3)
    [] OTHER -> Fail
DropStmt(ts) ==
  CASE Kind(ts, 2) = "TABLE" ->
         Then(TableFactor(ts, 3), LAMBDA t : IF t.e.s = "table" THEN About("drop table", t) ELSE Fail)
    [] Kind(ts, 2) = "DATABASE" -> OfDatabase("drop database", ts, 3)
    [] OTHER -> Fail

\* show_stmt, desc_stmt, use_stmt and analyze_stmt
ShowStmt(ts) ==
  CASE Kind(ts, 2) = "DATABASES" -> Node([s |-> "show databases"], 3)
    [] Kind(ts, 2) = "TABLES" /\ Kind(ts, 3) # "FROM" ->
         Node([s |-> "show tables", db |-> GlobalDatabase], 3)
    [] Kind(ts, 2) = "TABLES" /\ Kind(ts, 3) = "FROM" -> OfDatabase("show tables", ts, 4)
    [] Kind(ts, 2) = "COLUMNS" /\ Kind(ts, 3) = "FROM" -> OfTable("desc", ts, 4)
    [] Kind(ts, 2) = "TABLE" /\ Kind(ts, 3) = "STATIS" -> OfTable("table statis", ts, 4)
    [] Kind(ts, 2) = "COLUMN" /\ Kind(ts, 3) = "STATIS" -> OfTable("column statis", ts, 4)
    [] OTHER -> Fail
AnalyzeStmt(ts) ==
  LET Name(i) == IF Kind(ts, i) = "*" THEN "*" ELSE ts[i][2]
      dot == Kind(ts, 2) = "TABLE" /\ Kind(ts, 4) = "."
  IN IF \/ dot /\ Kind(ts, 3) = "id" /\ Kind(ts, 5) \in {"id", "*"}
        \/ dot /\ Kind(ts, 3) = "*" /\ Kind(ts, 5) = "*"
     THEN Node([s |-> "analyze", db |-> Name(3), t |-> Name(5)], 6) ELSE Fail

\* explainable_stmt
Explainable(ts) ==
  CASE Kind(ts, 1) \in {"SELECT", "("} -> SelectNoParens(ts, 1)
    [] Kind(ts, 1) = "INSERT" -> InsertStmt(ts)
    [] Kind(ts, 1) = "UPDATE" -> UpdateStmt(ts)
    [] Kind(ts, 1) = "DELETE" -> DeleteStmt(ts)
    [] OTHER -> Fail
ExplainStmt(ts) ==
  Then(Explainable(Tail(ts)), LAMBDA r : Node([s |-> "explain", of |-> r.e], r.at + 1))

\* sql_stmt: the statement, or a syntax error
SqlStmt(ts) ==
  CASE Kind(ts, 1) = "EXPLAIN" -> ExplainStmt(ts)
    [] Kind(ts, 1) = "CREATE" -> CreateStmt(ts)
    [] Kind(ts, 1) = "DROP" -> DropStmt(ts)
    [] Kind(ts, 1) = "SHOW" -> ShowStmt(ts)
    [] Kind(ts, 1) \in {"DESC", "DESCRIBE"} -> OfTable("desc", ts, 2)
    [] Kind(ts, 1) = "USING" -> OfDatabase("use", ts, 2)
    [] Kind(ts, 1) = "ANALYZE" -> AnalyzeStmt(ts)
    [] OTHER -> Explainable(ts)
ParseSql(ts) == Then(SqlStmt(ts), LAMBDA r : IF r.at = Len(ts) + 1 THEN r ELSE Fail)
=============================================================================
