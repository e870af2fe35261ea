------------------------------- MODULE RowIds -------------------------------
(***************************************************************************)
(* Row ids of one table (storage/page.h, page.cpp): a u32 whose high bits  *)
(* are the page's offset and whose low bits number the rows of the page.   *)
(* Page::delete_row marks a row by setting the top bit of the id stored in *)
(* its RowInfo.  The widths are parameters; the code's are 2^32, 2^31 and  *)
(* 2^10.                                                                   *)
(***************************************************************************)
EXTENDS Integers, Sequences

CONSTANTS
  IdSpace,    \* ids wrap at this number: 2^32
  Flag,       \* the bit that marks a deleted row: 2^31
  PageSlots,  \* row ids per page: 2^10
  MaxPages,   \* bound of the model: pages of the table
  MaxRows     \* bound of the model: rows that fit in a page

ASSUME WidthAssumption ==
  /\ Flag \in Nat /\ PageSlots \in Nat /\ MaxPages \in Nat /\ MaxRows \in Nat
  /\ PageSlots > 0 /\ MaxRows <= PageSlots
  /\ IdSpace = 2 * Flag

VARIABLES
  endId,  \* endId[p + 1]: page_header_->end_row_id of page p
  info,   \* info[p + 1]: the row_id fields of the page's RowInfo array
  live    \* history: the rows <<p + 1, slot>> inserted and not deleted since

vars == <<endId, info, live>>

-----------------------------------------------------------------------------
\* mutant: a shift too short
BegRowIdShort(offset) == (offset * (PageSlots - 1)) % IdSpace

\* get_beg_row_id_from_page_offset: page_offset << 10 in 32 bits
BegRowId(offset) == (offset * PageSlots) % IdSpace

\* get_page_offset_from_row_id
PageOffset(rid) == rid \div PageSlots

\* row_id_deleted, and row_id |= 0x80000000
Deleted(rid) == rid >= Flag
MarkedShifted(rid) == (rid + 2 * Flag) % IdSpace  \* mutant: a bit too far left
Marked(rid) == IF Deleted(rid) THEN rid ELSE rid + Flag

\* Page::search_row in page p: the slots whose RowInfo carries the id
Found(p, rid) ==
  {k \in 1 .. Len(info[p + 1]) : info[p + 1][k] = rid /\ ~Deleted(rid)}

\* The id of a row as a scan sets it, and as TableSpace looks it up
IdOf(p, k) == info[p + 1][k]

-----------------------------------------------------------------------------
Init == endId = <<>> /\ info = <<>> /\ live = {}

\* TableSpace::create_page behind the last page
CreatePage ==
  /\ Len(endId) < MaxPages
  /\ endId' = Append(endId, BegRowId(Len(endId)))
  /\ info' = Append(info, <<>>)
  /\ UNCHANGED live

\* Page::insert_row into the last page: row_id = end_row_id++
Insert ==
  /\ endId # <<>>
  /\ LET n == Len(endId) IN
     /\ Len(info[n]) < MaxRows
     /\ info' = [info EXCEPT ![n] = Append(@, endId[n])]
     /\ endId' = [endId EXCEPT ![n] = (@ + 1) % IdSpace]
     /\ live' = live \cup {<<n, Len(info[n]) + 1>>}

\* TableSpace::delete_row of a row a scan has returned; the page its id leads
\* to must be one of the file's
Delete ==
  \E row \in live :
    LET rid == IdOf(row[1] - 1, row[2])
        p == PageOffset(rid)
    IN /\ ~Deleted(rid)
       /\ p < Len(info)
       /\ \E k \in Found(p, rid) : info' = [info EXCEPT ![p + 1][k] = Marked(@)]
       /\ live' = live \ {row}
       /\ UNCHANGED endId

Next == CreatePage \/ Insert \/ Delete

Spec == Init /\ [][Next]_vars

-----------------------------------------------------------------------------
\* A row that was inserted and not deleted is found: its id leads to its page
\* and there to its RowInfo and no other (page.h: "the page can be located
\* directly from the row_id"), and no scan takes it for deleted.
LiveRowsFound ==
  \A row \in live :
    LET rid == IdOf(row[1] - 1, row[2])
    IN PageOffset(rid) = row[1] - 1 /\ Found(row[1] - 1, rid) = {row[2]}

\* A deleted row stays deleted: later inserts and deletes never bring it back.
DeletedStaysDeleted ==
  \A p \in 0 .. (Len(info) - 1) : \A k \in 1 .. Len(info[p + 1]) :
    <<p + 1, k>> \notin live => Deleted(IdOf(p, k))

\* Row ids are increasing and unique over the whole table (page.h), whatever
\* rows have been deleted: the ids without their flag follow the file order.
IdsIncrease ==
  \A p, q \in 1 .. Len(info) : \A k \in 1 .. Len(info[p]), m \in 1 .. Len(info[q]) :
    (p < q \/ (p = q /\ k < m)) => info[p][k] % Flag < info[q][m] % Flag
=============================================================================
