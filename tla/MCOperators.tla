---------------------------- MODULE MCOperators ----------------------------
(***************************************************************************)
(* Operators over tables of at most two rows (three for the operators with *)
(* one child), with NULL keys, equal keys and keys that share a bucket.    *)
(***************************************************************************)
EXTENDS Operators

MCRow == {[k |-> 0, v |-> 1], [k |-> 0, v |-> 2], [k |-> 1, v |-> 1],
          [k |-> 1, v |-> 2], [k |-> 2, v |-> 1], [k |-> 3, v |-> 1]}
MCKeyHash == [r \in MCRow |-> IF r.k <= 1 THEN 1 ELSE 2]
MCRowHash == [r \in MCRow |-> IF r.v = 1 THEN 1 ELSE 2]

Of(kinds, lefts, rights, sizes, offsets) ==
  [kind : kinds, left : lefts, right : rights, size : sizes, offset : offsets,
   asc : {TRUE}, use : {"again", "correlated"}]

Long == SeqOf(MCRow, 3)
Short == SeqOf(MCRow, 2)
NoNulls == {s \in Long : \A i \in DOMAIN s : s[i].k # Null}

MCPlan ==
  Of({"unionAll", "union", "intersect", "except", "hashJoin", "hashSemi",
      "antiJoin", "nlJoin", "nlSemi"}, Short, Short, {0}, {0})
  \union Of({"scan", "distinct"}, Long, {<<>>}, {0}, {0})
  \union Of({"group", "scalar"}, Long, {<<>>}, {0, 2}, {0})
  \union Of({"limit"}, Long, {<<>>}, {1, 2}, {0, 1})
  \union {[p EXCEPT !.asc = b] : b \in BOOLEAN,
            p \in Of({"sort"}, Long, {<<>>}, {0}, {0})
                  \union Of({"topn"}, NoNulls, {<<>>}, {1, 2}, {0})}
=============================================================================
