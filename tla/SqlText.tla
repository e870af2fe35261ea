------------------------------- MODULE SqlText -------------------------------
(***************************************************************************)
(* A statement as a client writes it, token by token.  In the brief style  *)
(* there are only the parentheses that SQL needs, and no word that may be  *)
(* left out; in the full style every operand that could have parentheses   *)
(* has them.  The parser has to read the same statement from both.         *)
(***************************************************************************)
EXTENDS SqlParse

\* How tightly SQL binds an expression: the operands of a predicate are sums,
\* products and what is simpler
Level(e) ==
  CASE e.s = "bin" /\ e.op = "OR" -> 1
    [] e.s = "bin" /\ e.op = "AND" -> 2
    [] e.s = "bin" /\ e.op \in {"+", "-"} -> 4
    [] e.s = "bin" /\ e.op \in {"*", "/"} -> 5
    [] e.s = "bin" /\ e.op \notin {"OR", "AND", "+", "-", "*", "/"} -> 3
    [] e.s = "tern" \/ (e.s = "un" /\ e.op \in {"IS NULL", "IS NOT NULL"}) -> 3
    [] e.s = "un" /\ e.op = "-" -> 6
    [] OTHER -> 7

\* Keywords and signs
Words(s) == [i \in DOMAIN s |-> <<s[i]>>]
Parens(ts) == Words(<<"(">>) \o ts \o Words(<<")">>)
Comma(seqs) == FlattenSeq([i \in DOMAIN seqs |-> IF i = 1 THEN seqs[1] ELSE Words(<<",">>) \o seqs[i]])
Id(name) == <<<<"id", name>>>>
Optional(full, word) == IF full THEN Words(<<word>>) ELSE <<>>

OperatorWords(op) ==
  CASE op = "NOT LIKE" -> Words(<<"NOT", "LIKE">>)
    [] op = "NOT IN" -> Words(<<"NOT", "IN">>)
    [] op = "NOT BETWEEN" -> Words(<<"NOT", "BETWEEN">>)
    [] op = "IS NULL" -> Words(<<"IS", "NULL">>)
    [] op = "IS NOT NULL" -> Words(<<"IS", "NOT", "NULL">>)
    [] op = "NOT EXISTS" -> Words(<<"NOT", "EXISTS">>)
    [] OTHER -> Words(<<op>>)

RECURSIVE Written(_, _), QueryText(_, _)

\* An operand, in parentheses when it binds less tightly than it has to
Operand(e, level, full) ==
  IF Level(e) < level \/ (full /\ Level(e) < 7) THEN Parens(Written(e, full)) ELSE Written(e, full)

Written(e, full) ==
  LET O(x, level) == Operand(x, level, full)
      chain == e.s = "bin" /\ e.op \in {"OR", "AND", "+", "-", "*", "/"}
  IN CASE e.s = "const" ->
            IF Type(e.v) = "datetime"
            THEN <<<<IF full THEN "DATETIME" ELSE "DATE">>,
                   <<"str", CHOOSE time \in DOMAIN Times : Times[time] = e.v[2]>>>>
            ELSE
            <<CASE Type(e.v) = "number" -> <<"num", e.v[2]>>
                [] Type(e.v) = "varchar" -> <<"str", e.v[2]>>
                [] Type(e.v) = "bool" -> <<IF e.v[2] THEN "TRUE" ELSE "FALSE">>
                [] Type(e.v) = "null" -> <<"NULL">>>>
       [] e.s = "col" -> (IF e.t = "" THEN <<>> ELSE Id(e.t) \o Words(<<".">>)) \o Id(e.c)
       [] e.s = "star" -> (IF e.t = "*" THEN <<>> ELSE Id(e.t) \o Words(<<".">>)) \o Words(<<"*">>)
       [] e.s = "query" -> Parens(QueryText(e.q, full))
       [] e.s = "list" -> Parens(Comma([i \in DOMAIN e.l |-> Written(e.l[i], full)]))
       [] e.s = "agg" -> Id(CHOOSE f \in DOMAIN AggregateOf : AggregateOf[f] = e.f)
                           \o Parens(Written(e.x, full))
       [] e.s = "un" -> IF e.op \in {"IS NULL", "IS NOT NULL"} THEN O(e.x, 4) \o OperatorWords(e.op)
                        ELSE OperatorWords(e.op) \o O(e.x, 6)
       [] e.s = "bin" ->
            IF chain THEN O(e.x, Level(e)) \o OperatorWords(e.op) \o O(e.y, Level(e) + 1)
            ELSE O(e.x, 4) \o OperatorWords(e.op) \o O(e.y, 4)
       [] e.s = "tern" ->
            O(e.x, 4) \o OperatorWords(e.op) \o O(e.y, 4) \o Words(<<"AND">>) \o O(e.z, 4)

QueryText(q, full) ==
  LET Label(name) == Optional(full, "AS") \o Id(name)
      Listed(x) == Written(x.e, full) \o (IF x.as = NameOf(x.e) THEN <<>> ELSE Label(x.as))
      Source(f) == IF f.s = "query" THEN Parens(QueryText(f.q, full)) \o Label(f.as)
                   ELSE (IF f.db = GlobalDatabase THEN <<>> ELSE Id(f.db) \o Words(<<".">>))
                          \o Id(f.t) \o (IF f.as = f.t THEN <<>> ELSE Label(f.as))
      Clause(words, es) ==
        IF es = <<>> THEN <<>> ELSE Words(words) \o Comma([i \in DOMAIN es |-> Written(es[i], full)])
      Condition(word, e) == IF e.s = "none" THEN <<>> ELSE Words(<<word>>) \o Written(e, full)
      n(i) == <<<<"num", i>>>>
      limit == IF q.limit = <<>> THEN <<>>
               ELSE Words(<<"LIMIT">>)
                      \o IF q.limit[1] = 0 /\ ~full THEN n(q.limit[2])
                         ELSE n(q.limit[1]) \o Words(<<",">>) \o n(q.limit[2])
      operator == CASE q.op = "UnionAll" -> <<"UNION", "ALL">>
                    [] q.op = "HashUnion" -> <<"UNION">>
                    [] q.op = "HashIntersect" -> <<"INTERSECT">>
                    [] q.op = "HashExcept" -> <<"EXCEPT">>
      dual == q.from[1].s = "table" /\ q.from[1].db = "system" /\ ~full
  IN IF q.s = "set"
     THEN Parens(QueryText(q.first, full)) \o Words(operator) \o Parens(QueryText(q.second, full))
     ELSE Words(<<"SELECT">>) \o Optional(q.distinct, "DISTINCT")
            \o Comma([i \in DOMAIN q.list |-> Listed(q.list[i])])
            \o IF dual THEN Words(<<"FROM", "DUAL">>) ELSE
            Words(<<"FROM">>) \o Comma([i \in DOMAIN q.from |-> Source(q.from[i])])
            \o Condition("WHERE", q.where) \o Clause(<<"GROUP", "BY">>, q.group)
            \o Condition("HAVING", q.having) \o Clause(<<"ORDER", "BY">>, q.order)
            \o (IF q.asc THEN Optional(full /\ q.order # <<>>, "ASC") ELSE Words(<<"DESC">>))
            \o limit

TableText(s, full) ==
  IF s.db = GlobalDatabase /\ ~full THEN Id(s.t) ELSE Id(s.db) \o Words(<<".">>) \o Id(s.t)
Everything(name) == IF name = "*" THEN Words(<<"*">>) ELSE Id(name)

RECURSIVE Text(_, _)
Text(s, full) ==
  LET t == TableText(s, full)
      where == IF s.where.s = "none" THEN <<>> ELSE Words(<<"WHERE">>) \o Written(s.where, full)
      Row(es) == Parens(Comma([i \in DOMAIN es |-> Written(es[i], full)]))
      TypeWord(type) == CASE type = "number" -> IF full THEN "DOUBLE" ELSE "INT"
                          [] type = "varchar" -> "VARCHAR"
                          [] type = "datetime" -> "DATETIME"
      Size(type) == IF full /\ type = "varchar" THEN Parens(<<<<"num", 10>>>>) ELSE <<>>
      Definition(c) == Id(c[1]) \o Words(<<TypeWord(c[2])>>) \o Size(c[2])
  IN CASE s.s \in {"select", "set"} -> QueryText(s, full)
       [] s.s = "insert" -> Words(<<"INSERT", "INTO">>) \o t \o Words(<<"VALUES">>)
                              \o Comma([i \in DOMAIN s.rows |-> Row(s.rows[i])])
       [] s.s = "update" ->
            Words(<<"UPDATE">>) \o t \o Words(<<"SET">>)
              \o Comma([i \in DOMAIN s.set |-> Id(s.set[i].x.c) \o Words(<<"=">>)
                                                 \o Written(s.set[i].y, full)])
              \o where
       [] s.s = "delete" -> Words(<<"DELETE", "FROM">>) \o t \o where
       [] s.s = "create table" -> Words(<<"CREATE", "TABLE">>) \o t
            \o Parens(Comma([i \in DOMAIN s.columns |-> Definition(s.columns[i])]))
       [] s.s = "drop table" -> Words(<<"DROP", "TABLE">>) \o t
       [] s.s \in {"create database", "drop database"} ->
            Words(<<IF s.s = "drop database" THEN "DROP" ELSE "CREATE", "DATABASE">>) \o Id(s.db)
       [] s.s = "explain" -> Words(<<"EXPLAIN">>) \o Text(s.of, full)
       [] s.s = "current database" -> Words(<<"SELECT", "DATABASE", "(", ")">>)
       [] s.s = "show databases" -> Words(<<"SHOW", "DATABASES">>)
       [] s.s = "show tables" -> Words(<<"SHOW", "TABLES">>)
            \o IF s.db = GlobalDatabase /\ ~full THEN <<>> ELSE Words(<<"FROM">>) \o Id(s.db)
       [] s.s = "desc" -> Words(IF full THEN <<"SHOW", "COLUMNS", "FROM">> ELSE <<"DESC">>) \o t
       [] s.s = "table statis" -> Words(<<"SHOW", "TABLE", "STATIS">>) \o t
       [] s.s = "column statis" -> Words(<<"SHOW", "COLUMN", "STATIS">>) \o t
       [] s.s = "use" -> Words(<<"USING">>) \o Id(s.db)
       [] s.s = "analyze" -> Words(<<"ANALYZE", "TABLE">>) \o Everything(s.db) \o Words(<<".">>)
                               \o Everything(s.t)
=============================================================================
