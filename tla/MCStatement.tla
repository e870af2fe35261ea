------------------------------ MODULE MCStatement -----------------------------
(***************************************************************************)
(* Two tables, up to three and two rows, and statements that take every way*)
(* through the parser and the planner.  Letters are numbers; the strings   *)
(* <<8>> and <<9>> are a time and an hour that no day has.                 *)
(***************************************************************************)
EXTENDS Statement

MCColumns == [t |-> <<"a", "b", "s">>, u |-> <<"a", "c">>, v |-> <<"d", "a">>,
              sys_databases |-> <<"id">>]
MCTypes == [t |-> <<"number", "number", "varchar">>, u |-> <<"number", "number">>,
            v |-> <<"datetime", "number">>, sys_databases |-> <<"number">>]
MCTimes == <<7>> :> 0 @@ <<8>> :> 100 @@ <<9>> :> -1

N(n) == Number(n)
TRows == <<<<N(1), N(1), Varchar(<<1, 2>>)>>, <<N(2), N(2), Varchar(<<2>>)>>,
           <<Null, N(3), Varchar(<<2, 1>>)>>, <<N(1), N(4), Null>>>>
URows == <<<<N(1), N(1)>>, <<N(2), N(2)>>, <<Null, N(3)>>, <<N(1), N(4)>>>>

\* Up to n of the rows, in their order
Some(n, rows) ==
  {SelectSeq(rows, LAMBDA r : r \in kept) :
     kept \in {kept \in SUBSET ToSet(rows) : Cardinality(kept) <= n}}
VRows == {<<>>, <<<<DateTime(100), N(1)>>, <<DateTime(50), Null>>>>}
SystemRows == {<<<<N(1)>>, <<N(2)>>>>}
MCDatabases == [t : Some(3, TRows), u : Some(2, URows), v : VRows, sys_databases : SystemRows]

-----------------------------------------------------------------------------
K(n) == [s |-> "const", v |-> N(n)]
S(str) == [s |-> "const", v |-> Varchar(str)]
NullK == [s |-> "const", v |-> Null]
Col(t, c) == [s |-> "col", t |-> t, c |-> c]
A == Col("", "a")
B == Col("", "b")
C == Col("", "c")
TA == Col("t", "a")
UA == Col("u", "a")
Star(t) == [s |-> "star", t |-> t]
Bin(op, x, y) == [s |-> "bin", op |-> op, x |-> x, y |-> y]
Un(op, x) == [s |-> "un", op |-> op, x |-> x]
Tern(op, x, y, z) == [s |-> "tern", op |-> op, x |-> x, y |-> y, z |-> z]
Agg(f, x) == [s |-> "agg", f |-> f, x |-> x]
Query(q) == [s |-> "query", q |-> q]
ListOf(l) == [s |-> "list", l |-> l]
Is(e, name) == [e |-> e, as |-> name]
T == Table("db", "t")
U == Table("db", "u")
From(q, name) == [s |-> "query", q |-> q, as |-> name]

Sel(list, from, where) ==
  [s |-> "select", list |-> list, from |-> from, where |-> where, group |-> <<>>,
   having |-> Nothing, order |-> <<>>, asc |-> TRUE, distinct |-> FALSE, limit |-> <<>>]
AllOf(from, where) == Sel(<<Is(Star("*"), "*")>>, from, where)
OnT(where) == AllOf(<<T>>, where)
SetQuery(op, x, y) == [s |-> "set", op |-> op, first |-> x, second |-> y]
Bs == <<Is(B, "b")>>
Cs == <<Is(C, "c")>>
As == <<Is(A, "a")>>
AB == <<Is(A, "a"), Is(B, "b")>>


Comparisons == {"=", "<>", "<", ">", "<=", ">="}
Filters ==
  {OnT(Bin(op, x, y)) : op \in Comparisons, x \in {A, B}, y \in {A, K(2), Col("t", "b")}}
  \union {OnT(Bin(op, Bin("=", A, K(1)), x)) : op \in {"AND", "OR"},
            x \in {Bin(">", B, K(1)), Un("IS NULL", A), Un("IS NOT NULL", Col("", "s")),
                   Bin("<", A, B)}}
  \union {OnT(Bin(op, Col("", "s"), S(p))) : op \in {"LIKE", "NOT LIKE"},
            p \in {<<1, Percent>>, <<Percent, 2>>, <<Percent, 1, Percent>>, <<Percent>>}}
  \union {OnT(Nothing), OnT(Bin("<=", Col("", "s"), S(<<1>>))),
          OnT(Bin(">", Col("", "s"), S(<<1>>))),
          OnT(Tern("BETWEEN", A, K(1), B)), OnT(Tern("NOT BETWEEN", B, K(2), K(3))),
          OnT(Bin("IN", A, ListOf(<<K(2), K(3)>>))), OnT(Bin("NOT IN", A, ListOf(<<K(2), K(3)>>))),
          OnT(Bin("=", Bin("+", A, K(1)), B)), OnT(Bin(">", Un("-", A), Un("-", K(2)))),
          Sel(<<Is(Bin("*", A, B), "x"), Is(Star("t"), "t.*")>>, <<T>>, Bin("=", K(1), K(1)))}

T2 == [T EXCEPT !.as = "x"]
XB == Col("x", "b")
Pairs == <<Is(Col("x", "a"), "a"), Is(Col("y", "b"), "b")>>
Derived == From(Sel(AB, <<T>>, Bin(">", B, K(1))), "d")
Counted == From([Sel(<<Is(A, "a"), Is(Agg("COUNT", B), "n")>>, <<T>>, Nothing) EXCEPT !.group = <<A>>], "d")
Joins ==
  {AllOf(<<T, U>>, Bin(op, TA, UA)) : op \in Comparisons}
  \union {AllOf(<<T, U>>, Bin(op, x, y)) : op \in {"AND", "OR"},
            x \in {Bin("=", TA, UA), Bin("<", TA, UA)},
            y \in {Bin("<", B, C), Bin("=", C, B), Bin("=", TA, K(1)), Un("IS NULL", UA)}}
  \union {
  AllOf(<<T, U>>, Nothing), AllOf(<<T, U>>, Bin("=", Bin("+", B, K(1)), C)),
  Sel(Pairs, <<T2, [T EXCEPT !.as = "y"]>>, Bin("=", Col("x", "a"), Col("y", "b"))),
  AllOf(<<T2, [T EXCEPT !.as = "y"], U>>,
        Bin("AND", Bin("=", XB, C), Bin("=", Col("y", "b"), C))),
  AllOf(<<T2, [T EXCEPT !.as = "y"], U>>,
        Bin("AND", Bin("=", XB, C), Bin("<", Col("y", "b"), XB))),
  AllOf(<<Derived, U>>, Bin("=", Col("d", "a"), UA)),
  AllOf(<<U, Derived>>, Bin("AND", Bin("=", Col("d", "b"), C), Bin(">", Col("d", "b"), K(2)))),
  Sel(<<Is(Col("d", "x"), "x")>>, <<From(Sel(<<Is(Bin("+", B, K(1)), "x")>>, <<T>>, Nothing), "d")>>,
      Bin(">", Col("d", "x"), K(2))),
  Sel(<<Is(Col("d", "n"), "n")>>, <<From(Sel(<<Is(Agg("COUNT", A), "n")>>, <<T>>, Nothing), "d")>>,
      Bin(">", Col("d", "n"), K(0)))}

InU(op, lhs, where) == Bin(op, lhs, Query(Sel(As, <<U>>, where)))
ExistsU(op, where) == Un(op, Query(Sel(Cs, <<U>>, where)))
ScalarU(op, lhs, f, where) == Bin(op, lhs, Query(Sel(<<Is(Agg(f, C), "m")>>, <<U>>, where)))
Both == Bin("AND", Bin("=", TA, UA), Bin("<", B, C))
Subs ==
  {InU(op, A, where) : op \in {"IN", "NOT IN"},
     where \in {Nothing, Bin(">", C, K(1)), Un("IS NOT NULL", A), Bin("=", C, K(9))}}
  \union {InU("IN", TA, where) : where \in {Bin("=", B, C), Bin("<", B, C), Both,
            Bin("AND", Bin("=", B, C), Bin("=", UA, K(1)))}}
  \union {ExistsU(op, where) : op \in {"EXISTS", "NOT EXISTS"},
            where \in {Bin("=", TA, UA), Bin("=", UA, TA), Both, Bin(">", C, K(1)), Nothing,
                       Bin("AND", Bin("=", TA, UA), Bin(">", C, K(1)))}}
  \union {ScalarU(op, B, f, where) : op \in {"=", "<=", ">"}, f \in {"MIN", "SUM"},
            where \in {Nothing, Bin("=", TA, UA), Bin("=", UA, TA)}}
  \union {ScalarU("<", B, "COUNT", Bin(">", C, K(1))),
          InU("IN", A, Bin("IN", C, Query(Sel(<<Is(XB, "b")>>, <<T2>>, Nothing)))),
          InU("IN", A, Un("EXISTS", Query(Sel(<<Is(XB, "b")>>, <<T2>>, Bin("=", XB, C)))))}
Nested ==
  {OnT(s) : s \in Subs}
  \union {OnT(Bin("AND", InU("IN", A, Nothing), Bin(">", B, K(1)))),
          OnT(Bin("AND", InU("IN", A, Nothing),
                  Un("NOT EXISTS", Query(Sel(<<Is(XB, "b")>>, <<T2>>, Bin("<", XB, K(2))))))),
          Sel(Bs, <<T>>, ExistsU("EXISTS", Bin("=", TA, UA))),
          Sel(Bs, <<T>>, InU("IN", TA, Bin("=", Col("t", "b"), C))),
          AllOf(<<T2, T>>, Bin("AND", Bin("=", Col("x", "a"), TA), InU("IN", XB, Nothing)))}
\* Those that it does not answer as SQL has it
Unanswerable == {
  OnT(InU("NOT IN", TA, Bin("=", B, C))),
  OnT(ExistsU("EXISTS", Bin("<", B, C))), OnT(ExistsU("NOT EXISTS", Bin("<", TA, UA))),
  OnT(ScalarU("<", B, "COUNT", Bin("=", UA, TA))), OnT(ScalarU("=", B, "MAX", Bin("<", UA, TA))),
  OnT(Bin("OR", InU("IN", A, Nothing), Bin(">", B, K(2)))),
  OnT(ExistsU("EXISTS", Un("EXISTS", Query(Sel(<<Is(XB, "b")>>, <<T2>>, Bin("=", XB, Col("t", "b"))))))),
  [Sel(As, <<T>>, Nothing) EXCEPT !.order = <<B>>],
  [Sel(As, <<T>>, Bin(">", B, K(0))) EXCEPT !.distinct = TRUE]}

GroupBy(columns, list, where, having) == [Sel(list, <<T>>, where) EXCEPT !.group = columns, !.having = having]
Groups ==
  {GroupBy(<<A>>, <<Is(A, "a"), Is(Agg(f, B), "n")>>, Nothing, having) :
     f \in {"COUNT", "SUM", "MIN", "MAX", "AVG"},
     having \in {Nothing, Bin(">", Agg("COUNT", Star("*")), K(1)), Bin("<", Agg("MAX", B), K(3))}}
  \union {Sel(<<Is(Agg(f, A), "n"), Is(Agg("COUNT", Star("*")), "m")>>, <<T>>, where) :
            f \in {"COUNT", "SUM", "MIN", "MAX"}, where \in {Nothing, Bin(">", B, K(1))}}
  \union {SetQuery(op, Sel(As, <<T>>, where), Sel(As, <<U>>, Nothing)) :
            op \in {"UnionAll", "HashUnion", "HashIntersect", "HashExcept"},
            where \in {Nothing, Bin(">", B, K(1))}}
  \union {
  GroupBy(<<A, B>>, <<Is(B, "b"), Is(Bin("+", Agg("SUM", B), K(1)), "n")>>, Un("IS NOT NULL", A), Nothing),
  GroupBy(<<A>>, As, InU("IN", A, Nothing), Nothing),
  [Sel(<<Is(TA, "a"), Is(Agg("SUM", C), "n")>>, <<T, U>>, Bin("=", TA, UA)) EXCEPT !.group = <<TA>>],
  Sel(<<Is(Col("d", "n"), "n")>>, <<Counted>>, Bin(">", Col("d", "n"), K(0)))}

Orders ==
  {[Sel(AB, <<T>>, Nothing) EXCEPT !.order = <<B>>, !.asc = asc, !.limit = limit] :
     asc \in BOOLEAN, limit \in {<<>>, <<0, 1>>, <<1, 1>>, <<1, 3>>}}
  \union {[Sel(AB, <<T>>, Nothing) EXCEPT !.order = order, !.asc = asc] :
     asc \in BOOLEAN, order \in {<<A>>, <<A, B>>}}
  \union {[Sel(AB, <<T>>, Bin(">", B, K(1))) EXCEPT !.limit = <<1, 2>>],
          [GroupBy(<<A>>, <<Is(A, "a"), Is(Agg("SUM", B), "n")>>, Nothing, Nothing)
             EXCEPT !.order = <<Col("", "n")>>, !.asc = FALSE]}

Wrong == {
  AllOf(<<T, U>>, Bin("=", A, K(1))), OnT(Bin("=", C, K(1))),
  Sel(As, <<T, U>>, Nothing), [AllOf(<<T, U>>, Nothing) EXCEPT !.order = <<Col("", "z")>>],
  Sel(<<Is(Col("u", "c"), "c")>>, <<T>>, Nothing), Sel(<<Is(Star("u"), "u.*")>>, <<T>>, Nothing),
  AllOf(<<T, T>>, Nothing), OnT(Bin(">", Agg("MAX", A), K(1))),
  OnT(ExistsU("EXISTS", Bin("=", Col("x", "a"), UA))), OnT(InU("IN", Col("", "z"), Nothing)),
  OnT(InU("IN", A, Bin("=", Col("", "z"), C))),
  AllOf(<<T, T2>>, ExistsU("EXISTS", Bin("=", B, C))),
  SetQuery("UnionAll", Sel(AB, <<T>>, Nothing), Sel(As, <<U>>, Nothing)),
  [Sel(As, <<T>>, Nothing) EXCEPT !.having = Bin(">", A, K(1))]}

FromDual == [Sel(<<Is(Bin("+", K(1), K(2)), "x")>>, <<Table("system", "sys_databases")>>, Nothing)
               EXCEPT !.limit = <<0, 1>>]
Others ==
  {FromDual, Sel(<<Is(Bin("-", A, Bin("-", B, K(1))), "x"), Is(Bin("*", Un("-", Bin("+", B, K(1))), Un("-", B)), "y")>>,
                 <<T>>, Bin("OR", Bin("AND", Bin("=", A, K(1)), Bin("=", B, K(1))), Bin("=", B, K(3)))),
   Sel(<<Is(Bin("/", A, K(1)), "x")>>, <<T>>,
       Bin("AND", Bin("OR", Bin("=", A, K(1)), Bin("=", A, K(2))), Bin("<", B, K(3))))}

Queries == Filters \union Joins \union Nested \union Unanswerable \union Groups \union Orders
             \union Wrong \union Others

-----------------------------------------------------------------------------
Insert(t, rows) == [s |-> "insert", db |-> "db", t |-> t, rows |-> rows]
Delete(t, where) == [s |-> "delete", db |-> "db", t |-> t, where |-> where]
Update(t, c, v, where) ==
  [s |-> "update", db |-> "db", t |-> t, set |-> <<Bin("=", Col("", c), v)>>, where |-> where]

Wheres == {Nothing, Bin(">", B, K(1)), Bin("=", TA, K(1)), Un("IS NULL", A),
           Bin("OR", Bin("=", A, B), Bin("LIKE", Col("", "s"), S(<<2, Percent>>))),
           Bin("IN", A, ListOf(<<K(2), K(3)>>)), Tern("BETWEEN", B, A, K(2)),
           InU("IN", A, Nothing), InU("NOT IN", B, Bin(">", C, K(1))), ScalarU(">=", B, "MAX", Nothing),
           Bin("AND", Bin("<", A, B), ExistsU("EXISTS", Bin("=", C, K(1)))),
           Bin("IN", B, Query(Sel(As, <<T>>, Nothing)))}
Changes ==
  {Delete("t", where) : where \in Wheres}
  \union {Update("t", "a", v, where) : v \in {K(3), NullK}, where \in Wheres}
  \union {
  Delete("t", Bin("=", Col("", "z"), K(1))), Delete("t", Bin("=", Agg("MAX", A), K(1))),
  Delete("t", InU("IN", A, Bin("=", Col("", "z"), C))), Delete("t", ExistsU("EXISTS", Bin("=", UA, TA))),
  Update("t", "a", K(1), Bin(">", Col("", "z"), K(1))),
  Update("t", "z", K(1), Nothing), Update("t", "a", S(<<1>>), Nothing), Update("t", "s", S(<<1>>), Nothing),
  Update("t", "b", Bin("+", Query(Sel(<<Is(Agg("MAX", C), "m")>>, <<U>>, Nothing)), K(1)), Nothing),
  Update("t", "b", Bin("*", K(2), Bin("+", K(1), K(2))), Bin("=", B, K(3))),
  Update("v", "d", S(<<8>>), Un("IS NULL", A)), Update("v", "d", S(<<9>>), Nothing),
  Insert("u", <<<<K(5), K(6)>>>>),
  Insert("u", <<<<Bin("-", Bin("-", K(9), K(3)), K(2)), NullK>>, <<Un("-", K(1)), K(5)>>>>),
  Insert("u", <<<<K(5), K(6)>>, <<K(5)>>>>), Insert("u", <<<<K(5), S(<<1>>)>>>>),
  Insert("u", <<<<K(5), C>>>>), Insert("t", <<<<K(7), NullK, S(<<1, 2>>)>>>>),
  Insert("v", <<<<S(<<8>>), K(1)>>, <<NullK, K(2)>>>>), Insert("v", <<<<S(<<9>>), K(1)>>>>),
  Insert("v", <<<<[s |-> "const", v |-> DateTime(100)], K(1)>>>>), Insert("v", <<<<K(1), K(1)>>>>)}

Of(what) == [s |-> what, db |-> "db", t |-> "t"]
OtherStatements ==
  {Of(what) : what \in {"drop table", "desc", "table statis", "column statis", "analyze"}}
  \union {[s |-> what, db |-> "d2"] : what \in {"create database", "drop database", "show tables", "use"}}
  \union {
  [s |-> "create table", db |-> "db", t |-> "w",
   columns |-> <<<<"a", "number">>, <<"s", "varchar">>, <<"d", "datetime">>>>],
  [s |-> "show databases"], [s |-> "current database"], [s |-> "show tables", db |-> "db"],
  [s |-> "analyze", db |-> "*", t |-> "*"], [s |-> "analyze", db |-> "db", t |-> "*"]}

Explain(q) == [s |-> "explain", of |-> q]
Explained == {Explain(q) : q \in {OnT(InU("IN", A, Nothing)), Delete("t", Nothing), Delete("t", Bin("=", A, K(1))),
                                  Update("t", "a", K(3), Nothing), Insert("u", <<<<K(5), K(6)>>>>)}}

MCStatements == Queries \union Changes \union OtherStatements \union Explained
=============================================================================
