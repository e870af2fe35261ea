----------------------------- MODULE SqlMeaning ------------------------------
(***************************************************************************)
(* What a query means in SQL: names are scoped by the query they stand in, *)
(* a condition is true, false or unknown, FROM is a product, and a clause  *)
(* works on what the clause before it leaves.  Nothing here looks at a     *)
(* plan; it is what the answers of PlanRun are compared with.              *)
(*                                                                         *)
(* A row is a sequence of cells [t, c, v]: the alias of its table, the     *)
(* name of the column and the value, a Null, Number, Varchar, DateTime or, *)
(* for the condition it is unknown or not, a Bool.  env holds the rows of  *)
(* the queries around an expression, the innermost first.                  *)
(***************************************************************************)
EXTENDS Objects

CONSTANTS Columns, Types

Fits(cell, s) == cell.c = s.c /\ (s.t = "" \/ cell.t = s.t)
Knows(row, s) == \E i \in DOMAIN row : Fits(row[i], s)
Lookup(env, s) ==
  LET row == SelectSeq(env, LAMBDA r : Knows(r, s))[1]
  IN SelectSeq(row, LAMBDA cell : Fits(cell, s))[1].v

-----------------------------------------------------------------------------
(* Conditions.                                                              *)

Not3(x) == IF IsNull(x) THEN Null ELSE Bool(~x[2])
And3(x, y) ==
  IF Bool(FALSE) \in {x, y} THEN Bool(FALSE) ELSE IF Null \in {x, y} THEN Null ELSE Bool(TRUE)
Or3(x, y) == Not3(And3(Not3(x), Not3(y)))

\* A list is IN unknown when only its NULLs could be the value
In3(x, values) ==
  CASE values = {} -> Bool(FALSE)
    [] values # {} /\ ~IsNull(x) /\ x \in values -> Bool(TRUE)
    [] OTHER -> IF IsNull(x) \/ Null \in values THEN Null ELSE Bool(FALSE)

\* The dictionary order of the letters of a Varchar
Precedes(s, t) ==
  \E n \in 0 .. Len(s) : /\ SubSeq(s, 1, n) = SubSeq(t, 1, Min({n, Len(t)}))
                         /\ n < Len(t)
                         /\ n = Len(s) \/ s[n + 1] < t[n + 1]
LessThan(x, y) == IF Type(x) = "varchar" THEN Precedes(x[2], y[2]) ELSE x[2] < y[2]

Compare3(op, x, y) ==
  IF Null \in {x, y} THEN Null
  ELSE Bool(CASE op = "=" -> x = y
              [] op = "<>" -> x # y
              [] op = "<" -> LessThan(x, y)
              [] op = ">" -> LessThan(y, x)
              [] op = "<=" -> ~LessThan(y, x)
              [] op = ">=" -> ~LessThan(x, y))

Calc(op, x, y) ==
  IF Null \in {x, y} THEN Null
  ELSE Number(CASE op = "+" -> x[2] + y[2]
                [] op = "-" -> x[2] - y[2]
                [] op = "*" -> x[2] * y[2]
                [] op = "/" -> x[2] \div y[2])  \* of multiples of y

-----------------------------------------------------------------------------
(* Aggregates over the values of a group, NULLs left out.                   *)

Total(vs) == FoldLeft(LAMBDA a, v : a + v[2], 0, vs)
\* The value that Better puts before the others
Best(vs, Better(_, _)) == CHOOSE v \in vs : \A w \in vs : v = w \/ Better(v, w)
AggregateOf(f, vs) ==
  CASE f = "COUNT" -> Number(Len(vs))
    [] f # "COUNT" /\ vs = <<>> -> Null
    [] f = "SUM" /\ vs # <<>> -> <<Type(vs[1]), Total(vs)>>
    [] f = "AVG" /\ vs # <<>> -> Average(Number(Total(vs)), Len(vs))
    [] f = "MIN" /\ vs # <<>> -> Best(ToSet(vs), LAMBDA v, w : LessThan(v, w))
    [] f = "MAX" /\ vs # <<>> -> Best(ToSet(vs), LAMBDA v, w : LessThan(w, v))
Aggregate(f, values) == AggregateOf(f, SelectSeq(values, LAMBDA v : ~IsNull(v)))

-----------------------------------------------------------------------------
(* Operators over the values of their operands.                             *)

Between3(x, y, z) == And3(Compare3(">=", x, y), Compare3("<=", x, z))
Negate3(x, not) == IF not THEN Not3(x) ELSE x

Unary(op, x) ==
  CASE op = "NOT" -> Not3(x)
    [] op = "-" -> Calc("-", Number(0), x)
    [] op = "IS NULL" -> Bool(IsNull(x))
    [] op = "IS NOT NULL" -> Bool(~IsNull(x))
Binary(op, x, y) ==
  CASE op = "AND" -> And3(x, y)
    [] op = "OR" -> Or3(x, y)
    [] op \in {"LIKE", "NOT LIKE"} ->
         IF Null \in {x, y} THEN Null ELSE Bool(Matches(x[2], y[2]) = (op = "LIKE"))
    [] op \in {"+", "-", "*", "/"} -> Calc(op, x, y)
    [] op \in {"=", "<>", "<", ">", "<=", ">="} -> Compare3(op, x, y)

\* The value of a subquery with these rows, and its values for IN
OnlyValue(rows) == IF rows = <<>> THEN Null ELSE rows[1][1]
FirstValues(rows) == {r[1] : r \in ToSet(rows)}

RECURSIVE ValueOf(_, _, _, _), Meaning(_, _, _)

\* The value of an expression; group are the rows it aggregates
ValueOf(s, env, group, db) ==
  LET V(x) == ValueOf(x, env, group, db)
      Answer(x) == Meaning(x.q, env, db)
  IN CASE s.s = "const" -> s.v
       [] s.s = "col" -> Lookup(env, s)
       [] s.s = "query" -> OnlyValue(Answer(s))
       [] s.s = "agg" ->
            Aggregate(s.f, [i \in DOMAIN group |-> IF s.x.s = "star" THEN Bool(TRUE)
                                                   ELSE ValueOf(s.x, <<group[i]>> \o env, <<>>, db)])
       [] s.s = "un" ->
            IF s.op \in {"EXISTS", "NOT EXISTS"}
            THEN Bool((Answer(s.x) # <<>>) = (s.op = "EXISTS"))
            ELSE Unary(s.op, V(s.x))
       [] s.s = "bin" ->
            IF s.op \in {"IN", "NOT IN"}
            THEN Negate3(In3(V(s.x), IF s.y.s = "list" THEN {s.y.l[i].v : i \in DOMAIN s.y.l}
                                     ELSE FirstValues(Answer(s.y))), s.op = "NOT IN")
            ELSE Binary(s.op, V(s.x), V(s.y))
       [] s.s = "tern" -> Negate3(Between3(V(s.x), V(s.y), V(s.z)), s.op = "NOT BETWEEN")

-----------------------------------------------------------------------------
(* The clauses.                                                             *)

RECURSIVE NamesOf(_)
\* The names of the columns a query answers with
NamesOf(q) ==
  IF q.s = "set" THEN NamesOf(q.first)
  ELSE LET All(f) == IF f.s = "table" THEN Columns[f.t] ELSE NamesOf(f.q)
           Star(t) == FlattenSeq([i \in DOMAIN q.from |->
                        IF t \in {"*", q.from[i].as} THEN All(q.from[i]) ELSE <<>>])
       IN FlattenSeq([i \in DOMAIN q.list |->
            IF q.list[i].e.s = "star" THEN Star(q.list[i].e.t) ELSE <<q.list[i].as>>])

\* The rows of a table of FROM
Tagged(name, names, values) ==
  [i \in DOMAIN values |-> [j \in DOMAIN names |-> [t |-> name, c |-> names[j], v |-> values[i][j]]]]
RowsOf(f, db) ==
  IF f.s = "table" THEN Tagged(f.as, Columns[f.t], db[f.t])
  ELSE Tagged(f.as, NamesOf(f.q), Meaning(f.q, <<>>, db))

Pairs(rows, others) ==
  FlattenSeq([i \in DOMAIN rows |-> [j \in DOMAIN others |-> rows[i] \o others[j]]])
Product(from, db) == FoldLeft(LAMBDA rows, f : Pairs(rows, RowsOf(f, db)), <<<<>>>>, from)

RECURSIVE HasAggregate(_)
HasAggregate(s) ==
  CASE s.s = "agg" -> TRUE
    [] s.s = "un" -> HasAggregate(s.x)
    [] s.s = "bin" -> HasAggregate(s.x) \/ HasAggregate(s.y)
    [] s.s = "tern" -> HasAggregate(s.x) \/ HasAggregate(s.y) \/ HasAggregate(s.z)
    [] OTHER -> FALSE
Aggregates(q) == \E i \in DOMAIN q.list : HasAggregate(q.list[i].e)

Distinct(rows) == FoldLeft(LAMBDA s, r : IF Contains(s, r) THEN s ELSE Append(s, r), <<>>, rows)

\* The values of the select list for a row, the first of its group
Star(t, row) == SelectSeq(row, LAMBDA cell : t \in {"*", cell.t})
Values(cells) == [i \in DOMAIN cells |-> cells[i].v]
Selected(q, row, group, env, db) ==
  FlattenSeq([i \in DOMAIN q.list |->
    IF q.list[i].e.s = "star" THEN Values(Star(q.list[i].e.t, row))
    ELSE <<ValueOf(q.list[i].e, <<row>> \o env, group, db)>>])

True(c, row, group, env, db) ==
  c.s = "none" \/ ValueOf(c, <<row>> \o env, group, db) = Bool(TRUE)

\* The rows of a query that WHERE leaves
Matching(q, env, db) ==
  SelectSeq(Product(q.from, db), LAMBDA r : True(q.where, r, <<>>, env, db))

\* Its groups, and the first row of one, if it has a row
Key(q, r) == [i \in DOMAIN q.group |-> Lookup(<<r>>, q.group[i])]
GroupsOf(q, rows) ==
  IF q.group = <<>> THEN <<rows>>
  ELSE LET keys == Distinct([i \in DOMAIN rows |-> Key(q, rows[i])])
       IN [i \in DOMAIN keys |-> SelectSeq(rows, LAMBDA r : Key(q, r) = keys[i])]
First(g) == IF g = <<>> THEN <<>> ELSE g[1]

\* Rows with their values in the select list, not yet in order: groups is a
\* sequence of groups, or the rows themselves, each with no group
ListedOf(q, groups, env, db) ==
  [i \in DOMAIN groups |->
     [row |-> groups[i].row, out |-> Selected(q, groups[i].row, groups[i].group, env, db)]]
Having(q, groups, env, db) ==
  SelectSeq([i \in DOMAIN groups |-> [row |-> First(groups[i]), group |-> groups[i]]],
            LAMBDA g : True(q.having, g.row, g.group, env, db))
Grouping(q, rows, env, db) ==
  IF q.group # <<>> \/ Aggregates(q) THEN Having(q, GroupsOf(q, rows), env, db)
  ELSE [i \in DOMAIN rows |-> [row |-> rows[i], group |-> <<>>]]
Listed(q, env, db) == ListedOf(q, Grouping(q, Matching(q, env, db), env, db), env, db)

\* NULLs come first, whichever way the others go
Earlier(asc, x, y) ==
  CASE IsNull(y) -> FALSE
    [] ~IsNull(y) /\ IsNull(x) -> TRUE
    [] OTHER -> IF asc THEN LessThan(x, y) ELSE LessThan(y, x)
SortValue(names, r, s) ==
  IF s.c \in ToSet(names) THEN r.out[Min({i \in DOMAIN r.out : names[i] = s.c})]
  ELSE Lookup(<<r.row>>, s)
Ordered(q, rows) ==
  LET Value(r, k) == SortValue(NamesOf(q), r, q.order[k])
      Less(a, b) == \E k \in DOMAIN q.order :
                      /\ Earlier(q.asc, Value(a, k), Value(b, k))
                      /\ \A j \in 1 .. k - 1 : Value(a, j) = Value(b, j)
  IN SortSeq(rows, Less)

SetOf(op, A, B) ==
  CASE op = "UnionAll" -> A \o B
    [] op = "HashUnion" -> Distinct(A \o B)
    [] op = "HashIntersect" -> Distinct(SelectSeq(A, LAMBDA r : Contains(B, r)))
    [] op = "HashExcept" -> Distinct(SelectSeq(A, LAMBDA r : ~Contains(B, r)))

\* DISTINCT and LIMIT
Outs(rows) == [i \in DOMAIN rows |-> rows[i].out]
Without(distinct, rows) == IF distinct THEN Distinct(rows) ELSE rows
Within(limit, rows) ==
  IF limit = <<>> THEN rows
  ELSE SubSeq(rows, limit[1] + 1, Min({limit[1] + limit[2], Len(rows)}))

\* The values a query answers with
Meaning(q, env, db) ==
  IF q.s = "set" THEN SetOf(q.op, Meaning(q.first, <<>>, db), Meaning(q.second, <<>>, db))
  ELSE Within(q.limit, Without(q.distinct, Outs(Ordered(q, Listed(q, env, db)))))

-----------------------------------------------------------------------------
(* Which statements have a meaning.                                         *)

RECURSIVE ColumnsIn(_), QueriesIn(_)
\* The columns of an expression and the queries in it
ColumnsIn(s) ==
  CASE s.s = "col" -> {s}
    [] s.s \in {"un", "agg"} -> ColumnsIn(s.x)
    [] s.s = "bin" -> ColumnsIn(s.x) \union ColumnsIn(s.y)
    [] s.s = "tern" -> ColumnsIn(s.x) \union ColumnsIn(s.y) \union ColumnsIn(s.z)
    [] OTHER -> {}
QueriesIn(s) ==
  CASE s.s = "query" -> {s.q}
    [] s.s \in {"un", "agg"} -> QueriesIn(s.x)
    [] s.s = "bin" -> QueriesIn(s.x) \union QueriesIn(s.y)
    [] s.s = "tern" -> QueriesIn(s.x) \union QueriesIn(s.y) \union QueriesIn(s.z)
    [] OTHER -> {}

NamesIn(f) == ToSet(IF f.s = "table" THEN Columns[f.t] ELSE NamesOf(f.q))
\* The tables of from that a column may belong to
Owners(from, s) ==
  {i \in DOMAIN from : s.c \in NamesIn(from[i]) /\ s.t \in {"", from[i].as}}

RECURSIVE WellFormed(_, _)
\* A query within others, whose tables are in outer: no two tables of one name;
\* a column is one table's, and an outer table's only in WHERE; an aggregate
\* stands in the select list or in a HAVING that has groups
WellFormed(q, outer) ==
  IF q.s = "set"
  THEN /\ WellFormed(q.first, <<>>) /\ WellFormed(q.second, <<>>)
       /\ Len(NamesOf(q.first)) = Len(NamesOf(q.second))
  ELSE LET list == {q.list[i].e : i \in DOMAIN q.list}
           Own(s) == Cardinality(Owners(q.from, s)) = 1
           Foreign(s) == Owners(q.from, s) = {} /\ Cardinality(Owners(outer, s)) = 1
           stars == {e.t : e \in {e \in list : e.s = "star"}}
       IN /\ \A i, j \in DOMAIN q.from : i # j => q.from[i].as # q.from[j].as
          /\ \A i \in DOMAIN q.from : q.from[i].s = "query" => WellFormed(q.from[i].q, <<>>)
          /\ stars \subseteq {"*"} \union {q.from[i].as : i \in DOMAIN q.from}
          /\ \A s \in UNION {ColumnsIn(e) : e \in list \union {q.having}} \union ToSet(q.group) : Own(s)
          /\ \A s \in ColumnsIn(q.where) : Own(s) \/ Foreign(s)
          /\ \A s \in ToSet(q.order) : Own(s) \/ s.c \in ToSet(NamesOf(q))
          /\ \A x \in QueriesIn(q.where) : WellFormed(x, outer \o q.from)
          /\ ~HasAggregate(q.where)
          /\ HasAggregate(q.having) => q.group # <<>>
          /\ q.having.s # "none" => q.group # <<>> \/ Aggregates(q)

-----------------------------------------------------------------------------
(* Changes.                                                                 *)

\* The rows of a table, as tables of FROM have them, that a change is about
HitsOf(where, rows, db) == {i \in DOMAIN rows : True(where, rows[i], <<>>, <<>>, db)}
Hits(q, db) == HitsOf(q.where, Tagged(q.t, Columns[q.t], db[q.t]), db)

\* A value as one of a type
As(type, v) == IF type = "datetime" /\ Type(v) = "varchar" THEN DateTime(Times[v[2]]) ELSE v
Stored(t, i, e, db) == As(Types[t][i], ValueOf(e, <<>>, <<>>, db))
Position(t, c) == CHOOSE i \in DOMAIN Columns[t] : Columns[t][i] = c

\* The rows of its table afterwards: rows are those before, hits the ones the
\* change is about
NewRow(q, row, db) ==
  FoldLeft(LAMBDA r, a : [r EXCEPT ![Position(q.t, a.x.c)] = Stored(q.t, Position(q.t, a.x.c), a.y, db)],
           row, q.set)
RowsAfter(q, rows, hits, db) ==
  CASE q.s = "delete" -> LET left == SelectSeq([i \in DOMAIN rows |-> i], LAMBDA i : i \notin hits)
                         IN [i \in DOMAIN left |-> rows[left[i]]]
    [] q.s = "update" -> [i \in DOMAIN rows |-> IF i \in hits THEN NewRow(q, rows[i], db) ELSE rows[i]]
ChangedBy(q, db) ==
  IF q.s = "insert"
  THEN db[q.t] \o [i \in DOMAIN q.rows |->
                     [j \in DOMAIN q.rows[i] |-> Stored(q.t, j, q.rows[i][j], db)]]
  ELSE RowsAfter(q, db[q.t], Hits(q, db), db)

\* How many rows it changes
HitBy(q, db) == IF q.s = "insert" THEN Len(q.rows) ELSE Cardinality(Hits(q, db))

\* Every value is one of its column's type and uses no column, and WHERE is a
\* condition on the rows of the table
OfType(type, v) ==
  IsNull(v) \/ (Type(v) = type /\ (Type(v) = "datetime" => v[2] >= 0))
FineValue(t, i, e, db) ==
  /\ ColumnsIn(e) = {} /\ ~HasAggregate(e)
  /\ OfType(Types[t][i], Stored(t, i, e, db))
Assignments(q) ==
  IF q.s = "insert" THEN UNION {{<<j, q.rows[i][j]>> : j \in DOMAIN q.rows[i]} : i \in DOMAIN q.rows}
  ELSE {<<Position(q.t, q.set[i].x.c), q.set[i].y>> : i \in DOMAIN q.set}
Condition(t, e) ==
  LET from == <<[s |-> "table", t |-> t, as |-> t]>>
  IN /\ \A s \in ColumnsIn(e) : Owners(from, s) # {}
     /\ ~HasAggregate(e)
     /\ \A x \in QueriesIn(e) : WellFormed(x, from)
WellFormedChange(q, db) ==
  /\ q.s = "insert" => \A i \in DOMAIN q.rows : Len(q.rows[i]) = Len(Columns[q.t])
  /\ q.s = "update" => \A i \in DOMAIN q.set : q.set[i].x.c \in ToSet(Columns[q.t])
  /\ q.s # "insert" => Condition(q.t, q.where)
  /\ q.s # "delete" => \A a \in Assignments(q) : FineValue(q.t, a[1], a[2], db)
=============================================================================
