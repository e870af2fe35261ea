------------------------ MODULE TableSpaceRefinement ------------------------
(***************************************************************************)
(* A lone session's TableSpace implements RowHeap: the private cache, the  *)
(* eviction of pages by a scan and the page-by-page write-back at close    *)
(* are invisible to it, except in a crash.                                 *)
(***************************************************************************)
EXTENDS TableSpace, FiniteSetsExt

Lone == CHOOSE s \in Session : TRUE

\* The table as the session sees it: its cached pages over those of the file
PageCount == Max({Len(file)} \cup {o + 1 : o \in DOMAIN cache[Lone]})

View ==
  [i \in 1 .. PageCount |->
     IF (i - 1) \in DOMAIN cache[Lone] THEN OnDisk(cache[Lone][i - 1])
     ELSE IF i <= Len(file) THEN file[i]
     ELSE Hole]

\* The highest row id in use, by a live row or a deleted one
ViewLast ==
  Max({-1} \cup {RowId(i - 1, Len(View[i].rows)) : i \in {n \in 1 .. Len(View) : View[n].rows # <<>>}})

Heap == INSTANCE RowHeap
          WITH busy <- pc[Lone] # "idle", rows <- LiveRows(View), base <- snap[Lone],
               last <- ViewLast

\* Every step of the storage code is one step of the heap or none at all:
\* no read, eviction, write-back or reopening changes a row, no row id is
\* handed out twice, and only a crash undoes anything, sparing what the
\* statement did not touch.
ImplementsHeap == Heap!HeapSpec
=============================================================================
