------------------------------- MODULE PlanRun -------------------------------
(***************************************************************************)
(* The rows a plan returns.  Operators.tla has the operators one by one,   *)
(* call by call; here each of them is the sequence of its rows, and they   *)
(* are put together the way SelectPlan does.  A row is a sequence of cells,*)
(* each a pair of a column and an object.  Hash values do not collide: two *)
(* rows share a bucket when their hash columns hold the same values.       *)
(*                                                                         *)
(* bound is what SelectPlan::reset_for_correlated_subquery has written     *)
(* into the columns of the filters: the row of the outer query, <<>> where *)
(* there is none.  pass is 2 for the rows an operator still gives after    *)
(* they were read and its reset has been called.                           *)
(*                                                                         *)
(* A correlated subquery is reopened once per outer row, and the hash      *)
(* tables in it keep the rows of the rows before; that is in Operators.tla *)
(* and is not repeated here.                                               *)
(***************************************************************************)
EXTENDS SelectPlan

\* Row::get_cell: the first of that name
HasCell(row, d) == \E i \in DOMAIN row : row[i][1] = d
Cell(row, d) ==
  IF HasCell(row, d) THEN row[Min({i \in DOMAIN row : row[i][1] = d})][2] ELSE Error

ValuesOf(row) == [i \in DOMAIN row |-> row[i][2]]

RECURSIVE Eval(_, _, _, _), Rows(_, _, _, _)

\* get_result of an expression; ColumnExpression::get_result looks at what
\* reset has left before it looks at the row
Eval(e, row, db, bound) ==
  CASE e.k = "const" -> e.v
    [] e.k = "col" -> IF HasCell(bound, e.d) THEN Cell(bound, e.d) ELSE Cell(row, e.d)
    [] e.k = "sub" -> Result(Rows(e.op, db, IF e.correlated THEN row \o bound ELSE bound, 1))
    [] e.k = "un" -> CalcUnary(e.op, Eval(e.x, row, db, bound))
    [] e.k = "bin" -> CalcBinary(e.op, Eval(e.x, row, db, bound), Eval(e.y, row, db, bound))
    [] e.k = "tern" -> CalcTernary(e.op, Eval(e.x, row, db, bound), Eval(e.y, row, db, bound),
                                   Eval(e.z, row, db, bound))

\* Filter::operator()
Passes(filter, row, db, bound) == IsNone(filter) \/ BoolValue(Eval(filter, row, db, bound))
Filtered(filter, rows, db, bound) == SelectSeq(rows, LAMBDA r : Passes(filter, r, db, bound))

\* TableScan::get_next_row: a row has the columns the plan accesses
Scanned(op, db) ==
  [i \in DOMAIN db[op.base] |->
     [j \in DOMAIN op.columns |-> <<op.columns[j], db[op.base][i][op.columns[j][2]]>>]]

\* Query::make_row
Projected(op, row, db) ==
  [i \in DOMAIN op.list |-> <<<<op.alias, i>>, Eval(op.list[i], row, db, <<>>)>>]

-----------------------------------------------------------------------------
(* Joins.                                                                   *)

\* init_hash_table: the columns of the equalities, those of the probing side
\* and the others.  The condition of NOT IN adds its columns at the end.
RECURSIVE KeyColumns(_)
KeyColumns(e) ==
  CASE e.k = "col" -> <<e.d>>
    [] e.k = "bin" -> KeyColumns(e.x) \o KeyColumns(e.y)
    [] OTHER -> <<>>
AllKeys(op) == KeyColumns(op.equal) \o (IF op.o = "anti" THEN KeyColumns(op.anti) ELSE <<>>)
ProbeColumns(op) == SelectSeq(AllKeys(op), LAMBDA d : d[1] = op.probe)
BuildColumns(op) == SelectSeq(AllKeys(op), LAMBDA d : d[1] # op.probe)

\* HashTable::hash: of the whole row when there are no columns
HashKey(columns, row) ==
  IF columns = <<>> THEN ValuesOf(row)
  ELSE SelectSeq([i \in DOMAIN columns |-> Cell(row, columns[i])], LAMBDA v : ~IsError(v))
SameBucket(op, l, r) == HashKey(BuildColumns(op), l) = HashKey(ProbeColumns(op), r)

Holds(op, l, r, db) == Passes(op.cond, r \o l, db, <<>>)

\* HashJoin::join and NestedLoopJoin::join: by rows of the right child, and by
\* rows of the left child
WithEach(found, row) == [i \in DOMAIN found |-> found[i] \o row]
HashJoined(op, L, R, db) ==
  FlattenSeq([i \in DOMAIN R |->
    WithEach(SelectSeq(L, LAMBDA l : SameBucket(op, l, R[i]) /\ Holds(op, l, R[i], db)), R[i])])
NestedJoined(op, L, R, db) ==
  FlattenSeq([i \in DOMAIN L |->
    WithEach(SelectSeq(R, LAMBDA r : Holds(op, L[i], r, db)), L[i])])

\* HashJoin::semi_join: what has been returned leaves the table
Taken(a, found) ==
  [out |-> a.out \o found, table |-> SelectSeq(a.table, LAMBDA l : l \notin ToSet(found))]
HashSemiJoined(op, L, R, db) ==
  FoldLeft(LAMBDA a, r :
             Taken(a, SelectSeq(a.table, LAMBDA l : SameBucket(op, l, r) /\ Holds(op, l, r, db))),
           [out |-> <<>>, table |-> L], R).out

\* NestedLoopJoin::semi_join: right_pos never goes back
GoneOn(a, l, n, end) ==
  IF n > 0 THEN [out |-> Append(a.out, l), pos |-> n] ELSE [a EXCEPT !.pos = end]
NestedSemiJoined(op, L, R, db) ==
  FoldLeft(LAMBDA a, l :
             GoneOn(a, l, SelectInSubSeq(R, a.pos + 1, Len(R), LAMBDA r : Holds(op, l, r, db)), Len(R)),
           [out |-> <<>>, pos |-> 0], L).out

\* HashNullAwareAntiJoin::build_hash_table.  first are the rows of the right
\* child, again those it gives after reset; without a column on the right
\* they are not read first, and without one on the left no row is passed over.
AntiColumn(op, probing) ==
  SelectSeq(KeyColumns(op.anti), LAMBDA d : (d[1] = op.probe) = probing)
ReadsFirst(op) == AntiColumn(op, TRUE) # <<>>
AntiTable(op, L, first) ==
  LET Value(probing, row) == Cell(row, Last(AntiColumn(op, probing)))
  IN IF ReadsFirst(op) /\ \E r \in ToSet(first) : IsNull(Value(TRUE, r)) THEN <<>>
     ELSE IF ReadsFirst(op) /\ first # <<>> /\ AntiColumn(op, FALSE) # <<>>
          THEN SelectSeq(L, LAMBDA l : ~IsNull(Value(FALSE, l)))
          ELSE L
AntiJoined(op, L, first, again, db) ==
  SelectSeq(AntiTable(op, L, first),
            LAMBDA l : \A r \in ToSet(again) : ~(SameBucket(op, l, r) /\ Holds(op, l, r, db)))

-----------------------------------------------------------------------------
(* Groups.                                                                  *)

\* add_row_to_agg_func: the first aggregate that reports an error is the last
\* one that sees the row
AddValues(aggrs, as, values) ==
  LET bad == {i \in DOMAIN aggrs : aggrs[i].f # "AVG" /\ IsError(values[i])}
      last == IF bad = {} THEN Len(aggrs) ELSE Min(bad)
  IN [i \in DOMAIN as |-> IF i <= last THEN AddValue(aggrs[i].f, as[i], values[i]) ELSE as[i]]
Added(aggrs, as, row, db) ==
  AddValues(aggrs, as, [i \in DOMAIN aggrs |-> IF IsNone(aggrs[i].x) THEN Bool(TRUE)
                                               ELSE Eval(aggrs[i].x, row, db, <<>>)])

\* The cells of the aggregates over rows
Results(op, as) ==
  [i \in DOMAIN as |-> <<<<op.alias, i>>, AggregateResult(op.aggrs[i].f, as[i])>>]
Aggregated(op, rows, db) ==
  Results(op, FoldLeft(LAMBDA a, r : Added(op.aggrs, a, r, db),
                       [i \in DOMAIN op.aggrs |-> NewAggregate], rows))

\* ScalarGroup: reopen and open both add the rows
ScalarRow(op, rows, db, bound) ==
  Aggregated(op, IF bound = <<>> THEN rows ELSE rows \o rows, db)

\* HashGroup: a row for each value of the columns, and one when there is no
\* row at all
Bucket(op, r) == HashKey([i \in DOMAIN op.by |-> op.by[i].d], r)
Buckets(op, rows) ==
  FoldLeft(LAMBDA s, r : IF Contains(s, Bucket(op, r)) THEN s ELSE Append(s, Bucket(op, r)),
           <<>>, rows)
RowGroups(op, rows) ==
  IF rows = <<>> THEN <<<<>>>>
  ELSE [i \in DOMAIN Buckets(op, rows) |->
          SelectSeq(rows, LAMBDA r : Bucket(op, r) = Buckets(op, rows)[i])]
GroupRow(op, group, db) ==
  [i \in DOMAIN op.by |->
     <<op.by[i].d, IF group = <<>> THEN Null ELSE Eval(op.by[i], group[1], db, <<>>)>>]
  \o Aggregated(op, group, db)
GroupRows(op, rows, db) ==
  [i \in DOMAIN RowGroups(op, rows) |-> GroupRow(op, RowGroups(op, rows)[i], db)]

-----------------------------------------------------------------------------
(* Order and sets.                                                          *)

\* Sort::less and Sort::greater.  TopNSort has them without the cases of NULL,
\* and no order where there is one: its statements sort by columns without NULL.
Precedes(asc, left, right) ==
  LET Same(i) == IF IsNull(left[i]) \/ IsNull(right[i]) THEN left[i] = right[i]
                 ELSE BoolValue(Compare("=", left[i], right[i]))
      different == {i \in DOMAIN left : ~Same(i)}
      f == Min(different)
  IN /\ different # {}
     /\ ~IsNull(right[f])
     /\ \/ IsNull(left[f])
        \/ BoolValue(Compare(IF asc THEN "<" ELSE ">", left[f], right[f]))
SortKey(op, row) == [i \in DOMAIN op.by |-> Eval(op.by[i], row, <<>>, <<>>)]
Before(op, l, r) == Precedes(op.asc, SortKey(op, l), SortKey(op, r))

\* std::sort keeps the order of equal rows while there are few of them
FirstRows(op, rows) ==
  IF op.o = "topn" THEN SubSeq(rows, 1, Min({op.size, Len(rows)})) ELSE rows
SortedRows(op, rows) == FirstRows(op, SortSeq(rows, LAMBDA l, r : Before(op, l, r)))

\* The rows that were not seen before, whole rows and by position
Fresh(rows, seen) ==
  FoldLeft(LAMBDA s, r : IF \E x \in ToSet(s) \union ToSet(seen) : ValuesOf(x) = ValuesOf(r)
                         THEN s ELSE Append(s, r), <<>>, rows)

\* Limit: a row even when it is to give none
Limited(op, rows) ==
  LET size == Max({op.size, 1})
  IN SubSeq(rows, op.offset + 1, Min({op.offset + size, Len(rows)}))

-----------------------------------------------------------------------------
\* What an operator returns that has been read and reset
Reads(o, pass) == pass = 1 \/ o \notin {"scalar", "group", "distinct", "HashUnion",
                                        "HashIntersect", "HashExcept", "anti"}

\* The rows of the operators that have a filter are those that pass it
Kept(op, rows, db, bound) ==
  IF op.o \in {"scan", "filter", "scalar", "group"} THEN Filtered(op.filter, rows, db, bound)
  ELSE rows

\* The rows of op over those of its children: L and R, or I.  Only an anti join
\* reads its right child again, and gets RR.
Joined(op, L, R, RR, db) ==
  CASE op.o = "hash" /\ op.semi -> HashSemiJoined(op, L, R, db)
    [] op.o = "hash" /\ ~op.semi -> HashJoined(op, L, R, db)
    [] op.o = "nested" /\ op.semi -> NestedSemiJoined(op, L, R, db)
    [] op.o = "nested" /\ ~op.semi -> NestedJoined(op, L, R, db)
    [] op.o = "anti" -> AntiJoined(op, L, R, IF ReadsFirst(op) THEN RR ELSE R, db)
    [] op.o = "UnionAll" -> R \o L
    [] op.o = "HashUnion" -> Fresh(R \o L, <<>>)
    [] op.o = "HashIntersect" ->
         Fresh(SelectSeq(L, LAMBDA l : \E r \in ToSet(R) : ValuesOf(l) = ValuesOf(r)), <<>>)
    [] op.o = "HashExcept" -> Fresh(L, R)
Shaped(op, I, db, bound) ==
  CASE op.o = "filter" -> I
    [] op.o = "query" -> [i \in DOMAIN I |-> Projected(op, I[i], db)]
    [] op.o = "scalar" -> <<ScalarRow(op, I, db, bound)>>
    [] op.o = "group" -> GroupRows(op, I, db)
    [] op.o = "distinct" -> Fresh(I, <<>>)
    [] op.o \in {"sort", "topn"} -> SortedRows(op, I)
    [] op.o = "limit" -> Limited(op, I)

\* Sort and TopNSort read their child only once
Rows(op, db, bound, pass) ==
  IF ~Reads(op.o, pass) THEN <<>>
  ELSE Kept(op, CASE op.o = "scan" -> Scanned(op, db)
                  [] "left" \in DOMAIN op ->
                       Joined(op, Rows(op.left, db, bound, pass), Rows(op.right, db, bound, pass),
                              Rows(op.right, db, bound, 2), db)
                  [] "in" \in DOMAIN op ->
                       Shaped(op, Rows(op.in, db, bound, IF op.o \in {"sort", "topn"} THEN 1 ELSE pass),
                              db, bound),
            db, bound)

\* probe_and_drop follows the join condition of an anti join; where there is
\* none, it follows a null pointer as soon as a bucket has a row.  rows are
\* those of the children, as they are and after a reset.
Probes(op, rows) ==
  \E l \in ToSet(AntiTable(op, rows[<<"left", 1>>], rows[<<"right", 1>>])),
     r \in ToSet(rows[<<"right", IF ReadsFirst(op) THEN 2 ELSE 1>>]) : SameBucket(op, l, r)
RECURSIVE Crashes(_, _)
Crashes(op, db) ==
  \/ \E child \in {"left", "right", "in"} \cap DOMAIN op : Crashes(op[child], db)
  \/ /\ op.o = "anti" /\ IsNone(op.cond)
     /\ Probes(op, [read \in {<<"left", 1>>, <<"right", 1>>, <<"right", 2>>} |->
                      Rows(op[read[1]], db, <<>>, read[2])])
=============================================================================
