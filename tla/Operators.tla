----------------------------- MODULE Operators -----------------------------
(***************************************************************************)
(* The physical operators of a query plan (sql/): one operator over table  *)
(* scans, driven through the interface of sql/phy_operator.h.  A plan that *)
(* is used "again" is opened, read, reset and read once more, as           *)
(* HashNullAwareAntiJoin does with its right child.  A plan of a           *)
(* "correlated" subquery is reopened for a row of the outer query, opened, *)
(* read and closed, once per outer row, as SubplanExpression::get_result   *)
(* does.                                                                   *)
(***************************************************************************)
EXTENDS HashTable

CONSTANT Plan  \* records [kind, left, right, size, offset, asc, use]

VARIABLES
  plan,   \* the operator, the rows of its tables and how it is used
  outer,  \* the row of the outer query the scans' filters refer to, or 0
  pc,     \* where the operator's caller is
  pass,   \* how often its rows have been asked for
  read,   \* rows get_next_row has taken from the children
  op,     \* the operator's members
  out,    \* the rows returned in this pass
  first   \* the rows returned in the first pass

vars == <<plan, outer, pc, pass, read, op, out, first>>

MaxPass == 2

ASSUME PlanAssumption == \A p \in Plan :
  /\ p.kind \in {"scan", "unionAll", "distinct", "union", "intersect", "except",
                 "hashJoin", "hashSemi", "antiJoin", "nlJoin", "nlSemi",
                 "group", "scalar", "sort", "topn", "limit"}
  /\ p.left \in Seq(Row) /\ p.right \in Seq(Row)
  /\ p.size \in Nat /\ p.offset \in Nat /\ p.asc \in BOOLEAN
  /\ p.use \in {"again", "correlated"}
  \* TopNSort compares no NULL and keeps a row at least
  /\ p.kind = "topn" => p.size > 0 /\ \A i \in DOMAIN p.left : p.left[i].k # Null

NewOp == [table |-> NewTable, seen |-> NewTable, queue |-> <<>>, last |-> <<>>,
          leftRow |-> <<>>, rows |-> <<>>, pos |-> 0, ended |-> FALSE,
          emitted |-> FALSE, tally |-> NoRows, result |-> <<>>]

\* get_next_row of a scan leaves an empty row behind when it has no more
BlankRow == [k |-> -1, v |-> -1]

----------------------------------------------------------------------------
\* The rows a child returns: its filter is v = o in a correlated subquery
Seen(rel, o) == Only(rel, {i \in DOMAIN rel : o = 0 \/ rel[i].v = o})
Left == Seen(plan.left, outer)
Right == Seen(plan.right, outer)

\* What get_next_row reads from the children, in the order it reads it
Input ==
  CASE plan.kind \in {"union", "unionAll"} -> Right \o Left
    [] plan.kind \in {"hashJoin", "hashSemi"} -> Right
    [] OTHER -> Left

\* Sort::less and Sort::greater: NULL comes first in both
Before(l, r) ==
  \/ l.k = Null /\ r.k # Null
  \/ IF plan.asc THEN KeyLess(l, r) ELSE KeyLess(r, l)

\* std::sort, in whatever order it leaves equal rows
Sorted(s) ==
  {t \in {[i \in DOMAIN s |-> s[p[i]]] : p \in SetToSeqs(DOMAIN s)} :
     \A i, j \in DOMAIN s : i < j => ~Before(t[j], t[i])}

\* One row into the heap of the first plan.size rows
Keep(s, r) ==
  IF Len(s) < plan.size THEN {Append(s, r)}
  ELSE LET last == {i \in DOMAIN s : \A j \in DOMAIN s : ~Before(s[i], s[j])}
       IN IF \E i \in last : Before(s[i], r) THEN {s}
          ELSE {[s EXCEPT ![i] = r] : i \in last}

\* The heaps there may be after each row of s
Heaps(s) ==
  LET kept[i \in 0 .. Len(s)] == IF i = 0 THEN {<<>>} ELSE UNION {Keep(t, s[i]) : t \in kept[i - 1]}
  IN  kept
TopRows(s) == UNION {Sorted(t) : t \in Heaps(s)[Len(s)]}

\* HashJoin::build_hash_table
BuiltJoin(o, L) == [o EXCEPT !.table = BuildAll(Clear(@), KeyHash, L)]

\* HashIntersect::build_hash_table
BuiltIntersect(o, R) ==
  [o EXCEPT !.table = BuildNew(Clear(@), R), !.seen = Clear(@)]

\* HashExcept::build_hash_table
BuiltExcept(o, R) == [o EXCEPT !.table = BuildNew(Clear(@), R)]

\* mutant: rows without a key are kept although the right side has rows
UnmatchedNulls(t, L, R) == DropAll(BuildAll(t, KeyHash, L), R)

\* The rows NOT IN leaves, when no key on the right is NULL
Unmatched(t, L, R) ==
  DropAll(BuildAll(t, KeyHash, Only(L, {i \in DOMAIN L : R = <<>> \/ L[i].k # Null})), R)

\* HashNullAwareAntiJoin::build_hash_table
BuiltAntiJoin(o, L, R) ==
  LET none == \E r \in ToSet(R) : r.k = Null
      t == IF none THEN Clear(o.table) ELSE Unmatched(Clear(o.table), L, R)
  IN [o EXCEPT !.table = t, !.rows = Rows(t), !.pos = 0]

\* NestedLoopJoin::cache_right_table
CachedRight(o, R) == [o EXCEPT !.rows = R, !.pos = 0]

\* HashGroup::build_hash_table
BuiltGroups(o, L) ==
  LET t == BuildAll(Clear(o.table), KeyHash, L)
  IN [o EXCEPT !.table = t, !.rows = Groups(t)]

\* ScalarGroup::calc_aggregate
Aggregated(o, L) ==
  LET n == Plus(o.tally, L)
  IN [o EXCEPT !.tally = n, !.result = <<[k |-> Null, tally |-> n]>>]

\* Sort::sort_rows and TopNSort::sort_rows
SortedRows(o, orders) == {[o EXCEPT !.rows = s, !.pos = 0] : s \in orders}

\* What open and reopen do once the children, which return L and R, are open
Built(o, L, R) ==
  CASE plan.kind \in {"hashJoin", "hashSemi"} -> {BuiltJoin(o, L)}
    [] plan.kind = "intersect" -> {BuiltIntersect(o, R)}
    [] plan.kind = "except" -> {BuiltExcept(o, R)}
    [] plan.kind = "antiJoin" -> {BuiltAntiJoin(o, L, R)}
    [] plan.kind \in {"nlJoin", "nlSemi"} -> {CachedRight(o, R)}
    [] plan.kind = "group" -> {BuiltGroups(o, L)}
    [] plan.kind = "scalar" -> {Aggregated(o, L)}
    [] plan.kind = "sort" -> SortedRows(o, Sorted(L))
    [] plan.kind = "topn" -> SortedRows(o, TopRows(L))
    [] OTHER -> {o}

\* What reset does apart from resetting the children
WasReset(o) ==
  CASE plan.kind = "distinct" -> [o EXCEPT !.table = Clear(@)]
    [] plan.kind = "hashJoin" \/ plan.kind = "hashSemi" ->
         [o EXCEPT !.queue = <<>>, !.last = <<>>]
    [] plan.kind = "group" -> [o EXCEPT !.pos = 0, !.emitted = FALSE]
    [] plan.kind \in {"nlJoin", "nlSemi", "sort", "topn", "limit"} ->
         [o EXCEPT !.pos = 0]
    [] OTHER -> o

\* mutant: reopen leaves the members alone
WasReopenedNot(o) == o

\* What reopen does apart from reopening the children and building
WasReopened(o) ==
  CASE plan.kind = "distinct" \/ plan.kind = "union" -> [o EXCEPT !.table = Clear(@)]
    [] plan.kind = "group" -> [o EXCEPT !.pos = 0, !.emitted = FALSE]
    [] plan.kind = "scalar" -> [o EXCEPT !.tally = NoRows]
    [] plan.kind = "limit" -> [o EXCEPT !.pos = 0]
    [] plan.kind = "hashJoin" \/ plan.kind = "hashSemi" ->
         [o EXCEPT !.queue = <<>>, !.last = <<>>]
    [] OTHER -> o

----------------------------------------------------------------------------
Init ==
  /\ plan \in Plan
  /\ outer = 0 /\ pc = "new" /\ pass = 0 /\ read = 0
  /\ op = NewOp /\ out = <<>> /\ first = <<>>

\* SelectPlan::reset_for_correlated_subquery
Reopen ==
  /\ plan.use = "correlated" /\ pc \in {"new", "closed"} /\ pass < MaxPass
  /\ outer' \in {r.v : r \in Row}
  /\ pc' = "reopened" /\ read' = 0
  /\ op' \in Built(WasReopened(op), Seen(plan.left, outer'), Seen(plan.right, outer'))
  /\ UNCHANGED <<plan, pass, out, first>>

\* open, at the start of SelectPlan::execute
Open ==
  /\ pc = IF plan.use = "correlated" THEN "reopened" ELSE "new"
  /\ pc' = "reading" /\ pass' = pass + 1 /\ read' = 0 /\ out' = <<>>
  /\ op' \in Built(op, Left, Right)
  /\ UNCHANGED <<plan, outer, first>>

\* reset, before the rows are read again
Reset ==
  /\ plan.use = "again" /\ pc = "end" /\ pass < MaxPass
  /\ pc' = "reading" /\ pass' = pass + 1 /\ read' = 0 /\ out' = <<>>
  /\ op' = WasReset(op)
  /\ UNCHANGED <<plan, outer, first>>

\* close: its caller has all the rows or, under a LIMIT, enough of them
Close ==
  /\ pc \in {"reading", "end"}
  /\ pc' = "closed"
  /\ UNCHANGED <<plan, outer, pass, read, op, out, first>>

----------------------------------------------------------------------------
\* get_next_row
Asked(kinds) == pc = "reading" /\ plan.kind \in kinds

Return(row, n, o) ==
  /\ out' = Append(out, row) /\ read' = n /\ op' = o
  /\ first' = IF pass = 1 THEN out' ELSE first
  /\ UNCHANGED <<plan, outer, pc, pass>>

NoMoreRows(n, o) ==
  /\ pc' = "end" /\ read' = n /\ op' = o
  /\ UNCHANGED <<plan, outer, pass, out, first>>

ReadChild(kind) ==
  /\ Asked({kind})
  /\ IF read < Len(Input) THEN Return(Input[read + 1], read + 1, op)
     ELSE NoMoreRows(read, op)

TableScan == ReadChild("scan")
UnionAll == ReadChild("unionAll")

\* The next row the hash table does not hold
ReadNew(kind) ==
  /\ Asked({kind})
  /\ LET n == SelectInSubSeq(Input, read + 1, Len(Input), LAMBDA r : ~Probe(op.table, r))
     IN IF n > 0
        THEN Return(Input[n], n, [op EXCEPT !.table = Build(@, RowHash, Input[n])])
        ELSE NoMoreRows(Len(Input), op)

HashDistinct == ReadNew("distinct")
HashUnion == ReadNew("union")
HashExcept == ReadNew("except")

\* mutant: rows are not remembered
HashIntersectAll ==
  /\ Asked({"intersect"})
  /\ LET n == SelectInSubSeq(Input, read + 1, Len(Input), LAMBDA r : Probe(op.table, r))
     IN IF n > 0 THEN Return(Input[n], n, op) ELSE NoMoreRows(Len(Input), op)

\* A row both sides have, once
HashIntersect ==
  /\ Asked({"intersect"})
  /\ LET n == SelectInSubSeq(Input, read + 1, Len(Input),
                        LAMBDA r : Probe(op.table, r) /\ ~Probe(op.seen, r))
     IN IF n > 0
        THEN Return(Input[n], n, [op EXCEPT !.seen = Build(@, RowHash, Input[n])])
        ELSE NoMoreRows(Len(Input), op)

\* HashJoin: join and semi_join
HashJoin ==
  /\ Asked({"hashJoin", "hashSemi"})
  /\ LET semi == plan.kind = "hashSemi"
         Joined(l, r) == IF semi THEN l ELSE <<l, r>>
         n == SelectInSubSeq(Input, read + 1, Len(Input), LAMBDA r : Matches(op.table, r) # <<>>)
         found == Matches(op.table, Input[n])
     IN CASE op.queue # <<>> ->
               Return(Joined(Head(op.queue), op.last), read,
                      [op EXCEPT !.queue = Tail(@)])
          [] op.queue = <<>> /\ n > 0 ->
               Return(Joined(Head(found), Input[n]), n,
                      [op EXCEPT !.queue = Tail(found), !.last = Input[n],
                                 !.table = IF semi THEN Drop(@, Input[n]) ELSE @])
          [] OTHER -> NoMoreRows(Len(Input), op)

\* The left row still held is the one that came with NO_MORE_ROWS: its cells
\* are null pointers, and the join condition follows them
LeftIsBlank == op.leftRow = <<BlankRow>> /\ op.pos < Len(op.rows)

NestedLoopBlank ==
  /\ Asked({"nlJoin"}) /\ LeftIsBlank
  /\ pc' = "crashed"
  /\ UNCHANGED <<plan, outer, pass, read, op, out, first>>

\* NestedLoopJoin::join, for l.k < r.k: the pairs after the current one, in
\* the order of the loops
NestedLoopJoin ==
  /\ Asked({"nlJoin"}) /\ ~LeftIsBlank
  /\ LET here == IF op.leftRow = <<>> THEN read + 1 ELSE read
         Outer(i) == IF i = read THEN op.leftRow[1] ELSE Input[i]
         pairs == {p \in (here .. Len(Input)) \X DOMAIN op.rows :
                     /\ (p[1] = here => p[2] > op.pos)
                     /\ KeyLess(Outer(p[1]), op.rows[p[2]])}
         next == CHOOSE p \in pairs : \A q \in pairs :
                   p[1] < q[1] \/ (p[1] = q[1] /\ p[2] <= q[2])
     IN IF pairs # {}
        THEN Return(<<Outer(next[1]), op.rows[next[2]]>>, next[1],
                    [op EXCEPT !.leftRow = <<Outer(next[1])>>, !.pos = next[2]])
        ELSE NoMoreRows(Len(Input),
               [op EXCEPT !.leftRow = <<BlankRow>>,
                          !.pos = IF here > Len(Input) THEN @ ELSE Len(op.rows)])

\* NestedLoopJoin::semi_join: right_pos never goes back
NestedLoopSemi ==
  /\ Asked({"nlSemi"})
  /\ LET more == read < Len(Input)
         n == IF more THEN SelectInSubSeq(op.rows, op.pos + 1, Len(op.rows),
                                     LAMBDA r : KeyLess(Input[read + 1], r))
              ELSE 0
     IN IF n > 0 THEN Return(Input[read + 1], read + 1, [op EXCEPT !.pos = n])
        ELSE NoMoreRows(Len(Input),
                        [op EXCEPT !.pos = IF more THEN Len(op.rows) ELSE @])

\* HashGroup, with HAVING COUNT(*) >= size
HashGroup ==
  /\ Asked({"group"})
  /\ LET none == [k |-> Null, tally |-> NoRows]
         Having(g) == CountRows(g.tally) >= plan.size
         n == SelectInSubSeq(op.rows, op.pos + 1, Len(op.rows), Having)
         finished == [op EXCEPT !.pos = Len(op.rows), !.ended = TRUE]
     IN CASE op.rows = <<>> /\ ~op.emitted ->
               IF Having(none) THEN Return(none, read, [op EXCEPT !.emitted = TRUE])
               ELSE NoMoreRows(read, [op EXCEPT !.emitted = TRUE])
          [] op.rows = <<>> /\ op.emitted -> NoMoreRows(read, op)
          [] op.rows # <<>> /\ op.ended -> NoMoreRows(read, op)
          [] OTHER ->
               IF n = 0 THEN NoMoreRows(read, finished)
               ELSE Return(op.rows[n], read,
                           IF n = Len(op.rows) THEN finished
                           ELSE [op EXCEPT !.pos = n])

\* ScalarGroup, with HAVING COUNT(*) >= size
ScalarGroup ==
  /\ Asked({"scalar"})
  /\ IF op.result # <<>> /\ CountRows(op.result[1].tally) >= plan.size
     THEN Return(op.result[1], read, [op EXCEPT !.result = <<>>])
     ELSE NoMoreRows(read, op)

\* The next of the rows open has prepared
NextOf(kind, end) ==
  /\ Asked({kind})
  /\ IF op.pos < end
     THEN Return(op.rows[op.pos + 1], read, [op EXCEPT !.pos = @ + 1])
     ELSE NoMoreRows(read, op)

Sort == NextOf("sort", Len(op.rows))
TopNSort == NextOf("topn", Min({plan.size, Len(op.rows)}))
HashNullAwareAntiJoin == NextOf("antiJoin", Len(op.rows))

\* Limit: pos is cur_offset
Limit ==
  /\ Asked({"limit"})
  /\ LET skipped == IF op.pos < plan.offset THEN plan.offset - op.pos ELSE 0
         n == read + skipped + 1
     IN IF op.pos > plan.offset /\ op.pos - plan.offset >= plan.size
        THEN NoMoreRows(read, op)
        ELSE IF n <= Len(Input)
             THEN Return(Input[n], n, [op EXCEPT !.pos = @ + skipped + 1])
             ELSE NoMoreRows(Len(Input), [op EXCEPT !.pos = @ + Len(Input) - read])

Next ==
  \/ Reopen \/ Open \/ Reset \/ Close
  \/ TableScan \/ UnionAll \/ HashDistinct \/ HashUnion \/ HashExcept \/ HashIntersect
  \/ HashJoin \/ HashNullAwareAntiJoin
  \/ NestedLoopJoin \/ NestedLoopBlank \/ NestedLoopSemi
  \/ HashGroup \/ ScalarGroup \/ Sort \/ TopNSort \/ Limit

Spec == Init /\ [][Next]_vars

----------------------------------------------------------------------------
\* A pass ends with exactly one row Item(x) for each x of S
Occurrences(s, e) == Cardinality({i \in DOMAIN s : s[i] = e})
Returned(S, Item(_)) ==
  /\ Len(out) = Cardinality(S)
  /\ \A e \in ToSet(out) : Occurrences(out, e) = Cardinality({x \in S : Item(x) = e})

Pairs(Test(_, _)) ==
  {p \in (DOMAIN Left) \X (DOMAIN Right) : Test(Left[p[1]], Right[p[2]])}
Pair(p) == <<Left[p[1]], Right[p[2]]>>
LeftRows(Test(_)) == {i \in DOMAIN Left : Test(Left[i])}
LeftRow(i) == Left[i]

\* The joins of a query that is not correlated: each pair (or, for IN and NOT
\* IN, each row) that the condition asks for, as often as it occurs, although
\* keys share buckets, a semi join drops rows while it reads and NULL equals
\* nothing; a hash join also after a reset.  NestedLoopJoin::semi_join gives
\* rows that match, but not all of them.
JoinsExact ==
  (pc = "end" /\ plan.use = "again" /\ (pass = 1 \/ plan.kind = "hashJoin")) =>
    CASE plan.kind = "hashJoin" -> Returned(Pairs(KeyEqual), Pair)
      [] plan.kind = "nlJoin" -> Returned(Pairs(KeyLess), Pair)
      [] plan.kind = "hashSemi" ->
           Returned(LeftRows(LAMBDA l : \E r \in ToSet(Right) : KeyEqual(l, r)), LeftRow)
      [] plan.kind = "antiJoin" ->
           Returned(LeftRows(LAMBDA l : \A r \in ToSet(Right) :
                               l.k # Null /\ r.k # Null /\ l.k # r.k), LeftRow)
      [] plan.kind = "nlSemi" ->
           \A l \in ToSet(out) : l \in ToSet(Left) /\ \E r \in ToSet(Right) : KeyLess(l, r)
      [] OTHER -> TRUE

\* DISTINCT, UNION, INTERSECT and EXCEPT give every row of their result once,
\* also in the first pass of a correlated subquery, where the table is built
\* twice.  HashTable::equal takes any two rows of a bucket for equal that have
\* NULL in the same column: the result is right while the hash keeps those apart.
NullsApart == \A r, s \in Row : r.k = Null /\ s.k = Null /\ r # s => RowHash[r] # RowHash[s]
SetsExact ==
  (NullsApart /\ pc = "end" /\ pass = 1
     /\ plan.kind \in {"distinct", "union", "intersect", "except"}) =>
    /\ IsInjective(out)
    /\ ToSet(out) = CASE plan.kind = "distinct" -> ToSet(Left)
                      [] plan.kind = "union" -> ToSet(Left) \union ToSet(Right)
                      [] plan.kind = "intersect" -> ToSet(Left) \intersect ToSet(Right)
                      [] plan.kind = "except" -> ToSet(Left) \ ToSet(Right)

\* GROUP BY and aggregates of a query that is not correlated: one row per
\* value of the key, NULL among them, over exactly the rows with that key,
\* although groups share buckets and HAVING skips some; without input, one
\* row over nothing.
GroupsExact ==
  (pc = "end" /\ pass = 1 /\ plan.use = "again" /\ plan.kind \in {"group", "scalar"}) =>
    LET keys == IF Left = <<>> \/ plan.kind = "scalar" THEN {Null} ELSE {r.k : r \in ToSet(Left)}
        Member(key, r) == plan.kind = "scalar" \/ r.k = key
        groups == {[k |-> key, tally |-> Tally(Only(Left, {i \in DOMAIN Left : Member(key, Left[i])}))]
                     : key \in keys}
    IN Returned({g \in groups : CountRows(g.tally) >= plan.size}, LAMBDA g : g)

\* The operators that may be read any number of times: a scan, UNION ALL, ORDER
\* BY, ORDER BY with LIMIT, and LIMIT n for n > 0 give their rows in every
\* pass, after a reset, for a new row of the outer query and when the pass
\* before was left early.
InOrder(s) == \A i, j \in DOMAIN s : i < j => ~Before(s[j], s[i])
PassesExact ==
  pc = "end" =>
    CASE plan.kind = "scan" -> out = Left
      [] plan.kind = "unionAll" -> out = Right \o Left
      [] plan.kind = "sort" -> InOrder(out) /\ Returned(DOMAIN Left, LeftRow)
      [] plan.kind = "topn" ->
           /\ InOrder(out)
           /\ Len(out) = Min({plan.size, Len(Left)})
           /\ \A l \in ToSet(Left) :
                \/ Occurrences(out, l) = Occurrences(Left, l)
                \/ /\ Occurrences(out, l) < Occurrences(Left, l)
                   /\ \A r \in ToSet(out) : ~Before(l, r)
      [] plan.kind = "limit" /\ plan.size > 0 ->
           out = SubSeq(Left, plan.offset + 1, Min({plan.offset + plan.size, Len(Left)}))
      [] OTHER -> TRUE

\* phy_operator.h: reset makes the rows readable again
RowsAgain ==
  (pc = "end" /\ plan.use = "again" /\ pass = 2) =>
    Returned(DOMAIN first, LAMBDA i : first[i])
=============================================================================
