------------------------------- MODULE Objects -------------------------------
(***************************************************************************)
(* The values of common/object.h and what expressions do with them.  An    *)
(* object is a pair of its class and its value; NULL is the Bool that      *)
(* make_null_object makes, and all error codes are one.  A Number holds an *)
(* integer: my_decimal divides two numbers without a fraction down to one  *)
(* without a fraction.  A DateTime holds its time_t.                       *)
(***************************************************************************)
EXTENDS Like, FiniteSets

CONSTANT Times  \* StringToDatetime: the time_t of a string, negative for no time

Null == <<"null">>
Error == <<"error">>
Bool(b) == <<"bool", b>>
Number(n) == <<"number", n>>
Ratio(n, m) == <<"ratio", n, m>>   \* a Number that is no integer; only AVG makes one
Varchar(s) == <<"varchar", s>>
DateTime(t) == <<"datetime", t>>
List(s) == <<"list", s>>          \* ObjList
Result(rows) == <<"result", rows>> \* QueryResult

Type(x) == x[1]
IsNull(x) == Type(x) = "null"
IsError(x) == Type(x) = "error"

BoolValue(x) ==
  CASE Type(x) = "bool" -> x[2]
    [] Type(x) = "number" -> x[2] # 0
    [] Type(x) = "list" -> x[2] # <<>>
    [] Type(x) \in {"varchar", "datetime", "result"} -> TRUE
    [] Type(x) \in {"null", "error"} -> FALSE

-----------------------------------------------------------------------------
(* Arithmetic and comparison, class by class.                               *)

Quotient(n, m) ==
  LET Abs(i) == IF i < 0 THEN -i ELSE i
      q == Abs(n) \div Abs(m)
  IN IF (n < 0) = (m < 0) THEN q ELSE -q

NumberArithmetic(op, x, y) ==
  CASE op = "+" -> Number(x[2] + y[2])
    [] op = "-" -> Number(x[2] - y[2])
    [] op = "*" -> Number(x[2] * y[2])
    [] op = "/" -> IF y[2] = 0 THEN Error ELSE Number(Quotient(x[2], y[2]))

BoolArithmetic(op, x, y) ==
  CASE op = "+" -> Bool(x[2] \/ y[2])
    [] op = "-" -> Bool(x[2] # y[2])
    [] op \in {"*", "/"} -> Bool(x[2] /\ y[2])

\* Unless the difference is zero, it is zero
DateTimeArithmetic(op, x, y) ==
  CASE op = "+" -> DateTime(x[2] + y[2])
    [] op = "-" -> DateTime(0)
    [] op \in {"*", "/"} -> Error

\* The operators of Object, for the classes that have none of their own; the
\* others look for NULL first and then for an operand of another class
Arithmetic(op, x, y) ==
  CASE Type(x) \in {"error", "varchar", "list", "result"} -> Error
    [] Type(x) = "datetime" /\ op \in {"*", "/"} -> Error
    [] OTHER ->
         CASE IsNull(x) \/ IsNull(y) -> Null
           [] ~IsNull(x) /\ ~IsNull(y) /\ Type(x) # Type(y) -> Error
           [] Type(x) = "number" /\ Type(y) = "number" -> NumberArithmetic(op, x, y)
           [] Type(x) = "bool" /\ Type(y) = "bool" -> BoolArithmetic(op, x, y)
           [] Type(x) = "datetime" /\ Type(y) = "datetime" -> DateTimeArithmetic(op, x, y)

\* memcmp over the bytes of two strings, the terminators among them: the
\* first difference, if there is one among the first n
FirstDifference(s, t, n) ==
  Min({i \in 0 .. n : i = n \/ At(s, i) # At(t, i)})
SameBytes(s, t, n) == FirstDifference(s, t, n) = n
LessBytes(s, t, n) ==
  LET i == FirstDifference(s, t, n) IN i < n /\ At(s, i) < At(t, i)

\* The lengths count the terminator
VarcharEqual(s, t) == Len(s) = Len(t) /\ SameBytes(s, t, Len(s) + 1)
VarcharGreater(s, t) ==
  LET n == Min({Len(s), Len(t)}) + 1
  IN LessBytes(t, s, n) \/ (Len(s) > Len(t) /\ SameBytes(s, t, n))
VarcharLess(s, t) ==
  LET n == Min({Len(s), Len(t)}) + 1
  IN LessBytes(s, t, n) \/ (Len(s) < Len(t) /\ SameBytes(s, t, n))

BoolCompare(op, a, b) ==
  CASE op = "=" -> a = b
    [] op = ">" -> a /\ ~b
    [] op = "<" -> ~a /\ b

Compare(op, x, y) ==
  CASE Type(x) \in {"error", "list", "result"} -> Error
    [] OTHER ->
         CASE IsNull(x) \/ IsNull(y) -> Null
           [] ~IsNull(x) /\ ~IsNull(y) /\ Type(x) # Type(y) -> Error
           [] Type(x) = "varchar" /\ Type(y) = "varchar" ->
                Bool(CASE op = "=" -> VarcharEqual(x[2], y[2])
                       [] op = ">" -> VarcharGreater(x[2], y[2])
                       [] op = "<" -> VarcharLess(x[2], y[2]))
           [] Type(x) = "bool" /\ Type(y) = "bool" -> Bool(BoolCompare(op, x[2], y[2]))
           [] Type(x) = Type(y) /\ Type(x) \in {"number", "datetime"} ->
                Bool(CASE op = "=" -> x[2] = y[2]
                       [] op = ">" -> x[2] > y[2]
                       [] op = "<" -> x[2] < y[2])

\* Number and DateTime; Varchar asks for DateTime bounds and then compares
\* itself with them
Between(x, y, z) ==
  CASE Type(x) \in {"bool", "error", "list", "result"} -> Error
    [] IsNull(x) -> Error
    [] OTHER ->
         CASE IsNull(y) \/ IsNull(z) -> Null
           [] ~IsNull(y) /\ ~IsNull(z) /\ Type(x) = "varchar" -> Error
           [] OTHER -> IF Type(y) # Type(x) \/ Type(z) # Type(x) THEN Error
                       ELSE Bool(x[2] >= y[2] /\ x[2] <= z[2])

-----------------------------------------------------------------------------
(* The logic: NULL and anything is NULL, NULL or anything is that thing.    *)

OpAnd(x, y) ==
  CASE IsError(x) -> Error
    [] ~IsError(x) /\ (IsNull(x) \/ IsNull(y)) -> Null
    [] OTHER -> Bool(BoolValue(x) /\ BoolValue(y))
\* mutant: NULL or anything is NULL
OpOrStrict(x, y) ==
  CASE IsError(x) -> Error
    [] ~IsError(x) /\ (IsNull(x) \/ IsNull(y)) -> Null
    [] OTHER -> Bool(BoolValue(x) \/ BoolValue(y))
OpOr(x, y) == IF IsError(x) THEN Error ELSE Bool(BoolValue(x) \/ BoolValue(y))
OpNot(x) ==
  CASE IsError(x) -> Error
    [] IsNull(x) -> Null
    [] OTHER -> Bool(~BoolValue(x))
OpMinus(x) ==
  CASE Type(x) = "number" -> Number(-x[2])
    [] OTHER -> Error

Like(x, y) ==
  CASE Type(x) # "varchar" -> Error
    [] Type(x) = "varchar" /\ IsNull(y) -> Null
    [] OTHER -> IF Type(y) # "varchar" THEN Error
                ELSE Bool(StringLike(x[2], y[2], -1))

-----------------------------------------------------------------------------
(* Lists of constants and results of subqueries.  A row is a sequence of    *)
(* cells, each a pair of a column and an object.                            *)

OnlyCell(row) == row[1][2]

CastSimple(x) ==
  IF Type(x) # "result" THEN x
  ELSE IF Len(x[2]) = 1 /\ Len(x[2][1]) = 1 THEN OnlyCell(x[2][1])
  ELSE Error

Found(elements, x) == \E i \in DOMAIN elements : BoolValue(Compare("=", elements[i], x))

\* What in and not_in compare with, or an error: a row of more than one column
\* met before the value is found
Elements(l) ==
  IF Type(l) = "list" THEN l[2] ELSE [i \in DOMAIN l[2] |-> OnlyCell(l[2][i])]
OneColumn(l) ==
  Type(l) = "list" \/ \A i \in DOMAIN l[2] : Len(l[2][i]) = 1

In(l, x) ==
  CASE Type(l) \notin {"list", "result"} -> Error
    [] Type(l) \in {"list", "result"} /\ IsNull(x) -> Null
    [] OTHER -> IF OneColumn(l) THEN Bool(Found(Elements(l), x)) ELSE Error

NotIn(l, x) ==
  CASE Type(l) \notin {"list", "result"} -> Error
    [] Type(l) \in {"list", "result"} /\ IsNull(x) ->
         IF l[2] = <<>> THEN Bool(TRUE) ELSE Null
    [] OTHER -> IF OneColumn(l) THEN Bool(~Found(Elements(l), x)) ELSE Error

Exists(x) ==
  CASE IsNull(x) -> Null
    [] IsError(x) -> Error
    [] Type(x) \in {"list", "result"} -> Bool(x[2] # <<>>)
    [] OTHER -> Bool(TRUE)

-----------------------------------------------------------------------------
(* Operation::calc.                                                         *)

\* do_GE and do_LE ask for equality only when the order says no
OrEqual(strict, x, y) ==
  IF IsError(strict) \/ IsNull(strict) \/ BoolValue(strict) THEN strict
  ELSE Compare("=", x, y)

\* The operator, or its negation
Negated(x, negative) == IF negative THEN OpNot(x) ELSE x

\* The do_ functions of one, two and three operands
Do1(op, x) ==
  CASE op \in {"EXISTS", "NOT EXISTS"} -> Negated(Exists(x), op = "NOT EXISTS")
    [] op = "NOT" -> OpNot(x)
    [] op = "-" -> IF IsNull(x) THEN Error ELSE OpMinus(x)
    [] op = "IS NULL" -> Bool(IsNull(x))
    [] op = "IS NOT NULL" -> Bool(~IsNull(x))

Do2(op, x, y) ==
  CASE op \in {"+", "-", "*", "/"} -> Arithmetic(op, x, y)
    [] op \in {"=", ">", "<"} -> Compare(op, x, y)
    [] op = "anti=" -> IF IsNull(x) \/ IsNull(y) THEN Bool(TRUE) ELSE Compare("=", x, y)
    [] op = "<>" -> OpNot(Compare("=", x, y))
    [] op \in {">=", "<="} -> OrEqual(Compare(IF op = ">=" THEN ">" ELSE "<", x, y), x, y)
    [] op = "IN" -> In(y, x)
    [] op = "NOT IN" -> NotIn(y, x)
    [] op = "AND" -> OpAnd(x, y)
    [] op = "OR" -> OpOr(x, y)
    [] op \in {"LIKE", "NOT LIKE"} -> Negated(Like(x, y), op = "NOT LIKE")

CalcUnary(op, obj) ==
  LET x == IF op \in {"EXISTS", "NOT EXISTS"} THEN obj ELSE CastSimple(obj)
  IN IF Type(obj) = "result" /\ IsError(x) THEN Error ELSE Do1(op, x)

\* Of two subquery results only the first is taken for its value
CalcBinary(op, first, second) ==
  LET x == CastSimple(first)
      y == IF Type(first) = "result" \/ op \in {"IN", "NOT IN"} THEN second
           ELSE CastSimple(second)
  IN IF \/ Type(first) = "result" /\ IsError(x)
        \/ Type(second) = "result" /\ IsError(y)
     THEN Error ELSE Do2(op, x, y)

CalcTernary(op, x, y, z) == Negated(Between(x, y, z), op = "NOT BETWEEN")

-----------------------------------------------------------------------------
(* AggregateExpression over the values of its rows: result is <<>> until a  *)
(* value has been added, count is row_count.                                *)

NewAggregate == [result |-> <<>>, count |-> 0]

Accumulate(x, y) ==
  CASE IsNull(x) \/ IsNull(y) -> Null
    [] OTHER -> IF Type(x) = Type(y) /\ Type(x) \in {"number", "datetime"}
                THEN <<Type(x), x[2] + y[2]>> ELSE x

Summed(a, x) ==
  IF IsError(x) \/ IsNull(x) THEN a
  ELSE [a EXCEPT !.result = IF @ = <<>> THEN x ELSE Accumulate(@, x)]

\* mutant: NULLs are counted
AddValueNulls(f, a, x) ==
  CASE f = "AVG" -> [Summed(a, x) EXCEPT !.count = @ + 1]
    [] f = "SUM" -> Summed(a, x)
    [] f = "COUNT" -> [a EXCEPT !.result = IF @ = <<>> THEN Number(1) ELSE Number(@[2] + 1)]
    [] f \in {"MAX", "MIN"} /\ (IsError(x) \/ IsNull(x)) -> a
    [] OTHER ->
         [a EXCEPT !.result =
            IF @ = <<>> \/ BoolValue(Compare(IF f = "MAX" THEN ">" ELSE "<", x, @)) THEN x ELSE @]

AddValue(f, a, x) ==
  CASE f = "AVG" -> [Summed(a, x) EXCEPT !.count = @ + 1]
    [] f = "SUM" -> Summed(a, x)
    [] f # "AVG" /\ (IsError(x) \/ IsNull(x)) -> a
    [] OTHER ->
         [a EXCEPT !.result =
            CASE f = "COUNT" -> IF @ = <<>> THEN Number(1) ELSE Number(@[2] + 1)
              [] f = "MAX" -> IF @ = <<>> \/ BoolValue(Compare(">", x, @)) THEN x ELSE @
              [] f = "MIN" -> IF @ = <<>> \/ BoolValue(Compare("<", x, @)) THEN x ELSE @]

\* row_count is divided by as "n.000000": the quotient keeps its fraction
Average(sum, n) ==
  IF Type(sum) = "number" /\ sum[2] % n # 0 THEN Ratio(sum[2], n)
  ELSE Arithmetic("/", sum, Number(n))

AggregateResult(f, a) ==
  CASE a.result = <<>> -> IF f = "COUNT" THEN Number(0) ELSE Null
    [] f = "AVG" /\ a.result # <<>> -> Average(a.result, a.count)
    [] OTHER -> a.result

-----------------------------------------------------------------------------
(* What a column stores.                                                    *)

\* mutant: a NULL is no value of any type
CastToOwn(type, x) ==
  IF Type(x) = type THEN <<x>> ELSE <<>>
\* cast_to: the value as one of the column's type, or no value
CastTo(type, x) ==
  CASE Type(x) = type \/ IsNull(x) -> <<x>>
    [] Type(x) = "varchar" /\ type = "datetime" ->
         IF Times[x[2]] < 0 THEN <<>> ELSE <<DateTime(Times[x[2]])>>
    [] OTHER -> <<>>
=============================================================================
