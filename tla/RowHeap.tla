------------------------------- MODULE RowHeap -------------------------------
(***************************************************************************)
(* What the row store promises a lone statement: a heap of rows, changed a *)
(* row at a time while a statement runs and at no other moment.  A row     *)
(* that is added, or rewritten by an UPDATE, gets a row id above every id  *)
(* handed out before.  Only a crash takes anything back: it ends the       *)
(* statement, leaves each row the statement has not touched as it was, and *)
(* of the touched ones the old copy, the new one, both or none.            *)
(***************************************************************************)
EXTENDS Integers

VARIABLES
  busy,  \* a statement is running
  rows,  \* the live rows, records with fields rid, tag and val
  base,  \* the rows when the running statement began
  last   \* no row id above this one has been handed out

heapVars == <<busy, rows, base, last>>

Tags(R) == {r.tag : r \in R}

\* Rows of which the statement has added, rewritten or removed a copy
Touched == Tags(rows \ base) \cup Tags(base \ rows)

HeapInit == busy = FALSE /\ rows = {} /\ base = {} /\ last = -1

Begin == ~busy /\ busy' /\ base' = rows /\ UNCHANGED <<rows, last>>

Answer == busy /\ ~busy' /\ UNCHANGED <<rows, base, last>>

\* the id of an added row is new
Added(r) == r.rid > last /\ last' = r.rid

Insert ==
  /\ \E r \in rows' : Added(r) /\ r.tag \notin Tags(rows) /\ rows' = rows \cup {r}
  /\ UNCHANGED base

Update ==
  /\ \E old \in rows : \E r \in rows' :
       Added(r) /\ r.tag = old.tag /\ rows' = (rows \ {old}) \cup {r}
  /\ UNCHANGED base

Delete ==
  /\ \E old \in rows : rows' = rows \ {old}
  /\ UNCHANGED <<base, last>>

\* only DELETE without WHERE starts the row ids again
Truncate == rows' = {} /\ last' = -1 /\ UNCHANGED base

\* one row of the running statement
Step == busy /\ busy' /\ (Insert \/ Update \/ Delete \/ Truncate)

Crash ==
  /\ busy /\ ~busy'
  /\ rows' \subseteq rows \cup base
  /\ \A r \in rows \cup base : r.tag \notin Touched => r \in rows'
  /\ last' <= last
  /\ UNCHANGED base

HeapNext == Begin \/ Answer \/ Step \/ Crash

HeapSpec == HeapInit /\ [][HeapNext]_heapVars
=============================================================================
