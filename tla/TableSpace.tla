----------------------------- MODULE TableSpace -----------------------------
(***************************************************************************)
(* The row store of one table (storage/table_space.cpp, page.cpp and       *)
(* IoService.cpp) under the statements that use it (sql/insert.cpp,        *)
(* update.cpp, delete.cpp, table_scan.cpp and the execute loops of plan/). *)
(*                                                                         *)
(* The table is a file of pages.  Every statement opens a TableSpace of    *)
(* its own: a private cache of pages (the map `pages'), written back page  *)
(* by page when a scan moves past a dirty page and when the statement      *)
(* closes.  Nothing else reaches the file, and no lock is taken.           *)
(***************************************************************************)
EXTENDS Integers, Sequences, FiniteSets

CONSTANTS
  Session,       \* workers that may execute a statement on the table
  Val,           \* abstract column values
  Width,         \* Width[v]: bytes a row of value v takes, its RowInfo included
  PageCapacity,  \* free bytes of an empty page
  PageSlots,     \* row ids per page: 1024, the low 10 bits of a row id
  Statement,     \* the statements sessions may execute
  MaxPages,      \* bound of the model: pages of the file
  MaxTag         \* bound of the model: rows inserted

Kinds == {"insert", "select", "update", "delete", "truncate"}

\* Statements are records: the values an INSERT adds, the values the WHERE
\* of the others selects, the value an UPDATE assigns.  DELETE without WHERE
\* is "truncate".
ASSUME StatementAssumption ==
  /\ Statement # {}
  /\ Statement \subseteq
       [kind : Kinds, vals : Seq(Val), filter : SUBSET Val, set : Val]

\* A row takes at least as many bytes as make PageSlots row ids enough for a
\* page: row_width is at least 8 and a RowInfo 8, 16344 < 16 * 1024.
ASSUME PageAssumption ==
  /\ PageCapacity \in Nat
  /\ PageSlots \in Nat \ {0}
  /\ MaxPages \in Nat
  /\ MaxTag \in Nat
  /\ Width \in [Val -> Nat]
  /\ \A v \in Val : Width[v] * PageSlots > PageCapacity

VARIABLES
  file,      \* the pages on disk: page o is file[o + 1]
  cache,     \* cache[s]: TableSpace::pages, page offset -> page in memory
  cur,       \* cur[s]: TableSpace::cur_page_offset
  pc,        \* pc[s]: "idle", "rows" (the execute loop) or "close"
  stmt,      \* stmt[s]: the statement being executed
  todo,      \* todo[s]: values the INSERT has still to add
  affected,  \* affected[s]: Plan::affect_rows_
  failed,    \* failed[s]: the statement ended with an error code
  out,       \* history: rows the SELECT has returned
  snap,      \* history: rows the file held when the statement opened
  nextTag    \* history: identity of the next row inserted

local == <<cur, pc, stmt, todo, affected, failed, out, snap>>
vars == <<file, cache, local, nextTag>>

-----------------------------------------------------------------------------
(***************************************************************************)
(* Pages.  `rows' is in insertion order; the RowInfo array grows downwards, *)
(* so the scan index idx counts from the newest row.                       *)
(***************************************************************************)
Row == [tag : Nat, val : Val, dead : BOOLEAN]
DiskPage == [rows : Seq(Row), free : Nat, next : Nat]
Page == [rows : Seq(Row), free : Nat, next : Nat, idx : Nat, dirty : BOOLEAN]

\* The bytes a write beyond the end of the file leaves before it.
Hole == [rows |-> <<>>, free |-> 0, next |-> 0]

\* Page::make_page as create_page calls it
NewPage(o) ==
  [rows |-> <<>>, free |-> PageCapacity, next |-> o + 1, idx |-> 0, dirty |-> FALSE]

OnDisk(p) == [rows |-> p.rows, free |-> p.free, next |-> p.next]

\* IoService::read_page and Page::open
ReadPage(o) ==
  [rows |-> file[o + 1].rows, free |-> file[o + 1].free,
   next |-> file[o + 1].next, idx |-> 0, dirty |-> FALSE]

\* Page::insert_row
WithRow(p, r) ==
  [rows |-> Append(p.rows, r), free |-> p.free - Width[r.val],
   next |-> p.next, idx |-> p.idx, dirty |-> TRUE]

\* mutant: deleting a row leaves the page clean
WithoutRowClean(p, slot) == [p EXCEPT !.rows = [@ EXCEPT ![slot].dead = TRUE]]

\* Page::delete_row
WithoutRow(p, slot) ==
  [p EXCEPT !.rows = [@ EXCEPT ![slot].dead = TRUE], !.dirty = TRUE]

\* Slot of the row at index k of the RowInfo array
SlotAt(p, k) == Len(p.rows) - k
Live(p, k) == ~p.rows[SlotAt(p, k)].dead

\* mutant: the deleted flag is not looked at
NextRowAtDeleted(p, k) == k = p.idx /\ k \in 0 .. (Len(p.rows) - 1)

\* Page::have_row, and the index Page::get_next_row stops at
NextRowAt(p, k) ==
  /\ k \in p.idx .. (Len(p.rows) - 1)
  /\ Live(p, k)
  /\ \A j \in p.idx .. (k - 1) : ~Live(p, j)
HaveRow(p) == \E k \in p.idx .. (Len(p.rows) - 1) : Live(p, k)

\* Row ids (page.h): page offset above, slot within the page below
RowId(o, slot) == o * PageSlots + slot - 1
PageOf(rid) == rid \div PageSlots
SlotOf(rid) == (rid % PageSlots) + 1

-----------------------------------------------------------------------------
(***************************************************************************)
(* The cache of a statement.                                               *)
(***************************************************************************)
Put(c, o, p) == [x \in DOMAIN c \cup {o} |-> IF x = o THEN p ELSE c[x]]
Erase(c, o) == [x \in DOMAIN c \ {o} |-> c[x]]
NoPages == [x \in {} |-> NewPage(0)]

EndOffset == Len(file) - 1

\* get_page_from_offset: the cached page, or the page read from the file
CanGet(c, o) == o \in DOMAIN c \/ o <= EndOffset
WithPage(c, o) == IF o \in DOMAIN c THEN c ELSE Put(c, o, ReadPage(o))

\* mutant: a statement that has no page yet makes page 0, whatever the file holds
WithLastPageBlind(c) == IF DOMAIN c = {} THEN Put(c, 0, NewPage(0)) ELSE c

\* get_last_page: what it leaves in the cache, and the page it finds
WithLastPage(c) ==
  IF file # <<>> THEN WithPage(c, EndOffset)
  ELSE IF DOMAIN c = {} THEN Put(c, 0, NewPage(0))
  ELSE c
IsLast(c, o) == o \in DOMAIN c /\ \A x \in DOMAIN c : x <= o

\* TableSpace::insert_row with the last page o: into o, or into a new page
\* behind it.  A row wider than an empty page leaves that page created.
InsertAt(c, o, r) ==
  IF c[o].free >= Width[r.val]
  THEN [ok |-> TRUE, off |-> o, cache |-> Put(c, o, WithRow(c[o], r))]
  ELSE LET n == c[o].next IN
       IF PageCapacity >= Width[r.val]
       THEN [ok |-> TRUE, off |-> n, cache |-> Put(c, n, WithRow(NewPage(n), r))]
       ELSE [ok |-> FALSE, off |-> n, cache |-> Put(c, n, NewPage(n))]

\* TableSpace::delete_row
DeleteRid(c, rid) ==
  Put(c, PageOf(rid), WithoutRow(c[PageOf(rid)], SlotOf(rid)))

\* IoService::write_page from Page::~Page: only a dirty page is written
WriteBack(o, p) ==
  IF ~p.dirty THEN file
  ELSE [i \in 1 .. (IF o + 1 > Len(file) THEN o + 1 ELSE Len(file)) |->
          IF i = o + 1 THEN OnDisk(p)
          ELSE IF i <= Len(file) THEN file[i]
          ELSE Hole]

\* The live rows of a sequence of pages
LiveRows(f) ==
  UNION {{[rid |-> RowId(i - 1, k), tag |-> f[i].rows[k].tag, val |-> f[i].rows[k].val] :
            k \in {n \in 1 .. Len(f[i].rows) : ~f[i].rows[n].dead}} :
         i \in 1 .. Len(f)}

-----------------------------------------------------------------------------
Init ==
  /\ file = <<>>
  /\ cache = [s \in Session |-> NoPages]
  /\ cur = [s \in Session |-> 0]
  /\ pc = [s \in Session |-> "idle"]
  /\ stmt = [s \in Session |-> CHOOSE st \in Statement : TRUE]
  /\ todo = [s \in Session |-> <<>>]
  /\ affected = [s \in Session |-> 0]
  /\ failed = [s \in Session |-> FALSE]
  /\ out = [s \in Session |-> <<>>]
  /\ snap = [s \in Session |-> {}]
  /\ nextTag = 1

\* A worker starts a statement: make_table_space and TableSpace::open
Open(s, st) ==
  /\ pc[s] = "idle"
  /\ pc' = [pc EXCEPT ![s] = "rows"]
  /\ stmt' = [stmt EXCEPT ![s] = st]
  /\ todo' = [todo EXCEPT ![s] = st.vals]
  /\ cur' = [cur EXCEPT ![s] = 0]
  /\ affected' = [affected EXCEPT ![s] = 0]
  /\ failed' = [failed EXCEPT ![s] = FALSE]
  /\ out' = [out EXCEPT ![s] = <<>>]
  /\ snap' = [snap EXCEPT ![s] = LiveRows(file)]
  /\ UNCHANGED <<file, cache, nextTag>>

\* InsertPlan::execute, one value: Insert::get_next_row
InsertNext(s) ==
  /\ pc[s] = "rows" /\ stmt[s].kind = "insert" /\ todo[s] # <<>>
  /\ nextTag <= MaxTag
  /\ LET c == WithLastPage(cache[s]) IN
     \E o \in DOMAIN c :
       /\ IsLast(c, o)
       /\ LET r == [tag |-> nextTag, val |-> Head(todo[s]), dead |-> FALSE]
              placed == InsertAt(c, o, r)
          IN /\ placed.off < MaxPages
             /\ cache' = [cache EXCEPT ![s] = placed.cache]
             /\ todo' = [todo EXCEPT ![s] = Tail(@)]
             /\ pc' = [pc EXCEPT ![s] = IF placed.ok THEN "rows" ELSE "close"]
             /\ failed' = [failed EXCEPT ![s] = ~placed.ok]
  /\ nextTag' = nextTag + 1
  /\ UNCHANGED <<file, cur, stmt, affected, out, snap>>

\* All values are in: affect_rows_ is set and the operator closed
InsertEnd(s) ==
  /\ pc[s] = "rows" /\ stmt[s].kind = "insert" /\ todo[s] = <<>>
  /\ affected' = [affected EXCEPT ![s] = Len(stmt[s].vals)]
  /\ pc' = [pc EXCEPT ![s] = "close"]
  /\ UNCHANGED <<file, cache, cur, stmt, todo, failed, out, snap, nextTag>>

\* Delete::get_next_row without filter: IoService::clear_file
Truncate(s) ==
  /\ pc[s] = "rows" /\ stmt[s].kind = "truncate"
  /\ file' = <<>>
  /\ pc' = [pc EXCEPT ![s] = "close"]
  /\ UNCHANGED <<cache, cur, stmt, todo, affected, failed, out, snap, nextTag>>

(***************************************************************************)
(* Scans: TableSpace::get_next_row as SELECT, UPDATE and DELETE call it.    *)
(* One turn of its page loop, and of the caller's filter loop, is a step.  *)
(***************************************************************************)
Scanning(s) ==
  pc[s] = "rows" /\ stmt[s].kind \in {"select", "update", "delete"}

\* The cache with the current page in it
Loaded(s) == WithPage(cache[s], cur[s])
Current(s) == Loaded(s)[cur[s]]

\* Page::get_next_row stops at index k of the current page
AtRow(s, k) ==
  /\ Scanning(s)
  /\ CanGet(cache[s], cur[s])
  /\ NextRowAt(Current(s), k)
RowAt(s, k) == Current(s).rows[SlotAt(Current(s), k)]
RidAt(s, k) == RowId(cur[s], SlotAt(Current(s), k))
PassedAgain(s, k) == Put(Loaded(s), cur[s], [Current(s) EXCEPT !.idx = k])  \* mutant
Passed(s, k) == Put(Loaded(s), cur[s], [Current(s) EXCEPT !.idx = k + 1])
Indices(s) == 0 .. (Len(Current(s).rows) - 1)
Selects(s, k) == RowAt(s, k).val \in stmt[s].filter

\* The filter rejects the row
SkipRow(s) ==
  /\ Scanning(s) /\ CanGet(cache[s], cur[s])
  /\ \E k \in Indices(s) :
       /\ AtRow(s, k) /\ ~Selects(s, k)
       /\ cache' = [cache EXCEPT ![s] = Passed(s, k)]
  /\ UNCHANGED <<file, local, nextTag>>

\* TableScan returns the row; SelectPlan counts it
SelectRow(s) ==
  /\ Scanning(s) /\ CanGet(cache[s], cur[s]) /\ stmt[s].kind = "select"
  /\ \E k \in Indices(s) :
       /\ AtRow(s, k) /\ Selects(s, k)
       /\ cache' = [cache EXCEPT ![s] = Passed(s, k)]
       /\ out' = [out EXCEPT ![s] =
            Append(@, [rid |-> RidAt(s, k), tag |-> RowAt(s, k).tag, val |-> RowAt(s, k).val])]
  /\ affected' = [affected EXCEPT ![s] = @ + 1]
  /\ UNCHANGED <<file, cur, pc, stmt, todo, failed, snap, nextTag>>

\* Delete::get_next_row with a filter
DeleteRow(s) ==
  /\ Scanning(s) /\ CanGet(cache[s], cur[s]) /\ stmt[s].kind = "delete"
  /\ \E k \in Indices(s) :
       /\ AtRow(s, k) /\ Selects(s, k)
       /\ cache' = [cache EXCEPT ![s] = DeleteRid(Passed(s, k), RidAt(s, k))]
  /\ affected' = [affected EXCEPT ![s] = @ + 1]
  /\ UNCHANGED <<file, cur, pc, stmt, todo, failed, out, snap, nextTag>>

\* Update::get_next_row and TableSpace::update_row: the page merges the new
\* cells into the old row and always answers ROW_DATA_TOO_LONG, so the merged
\* row goes to the last page and then the old one is deleted.
UpdateRow(s) ==
  /\ Scanning(s) /\ CanGet(cache[s], cur[s]) /\ stmt[s].kind = "update"
  /\ \E k \in Indices(s) :
       /\ AtRow(s, k) /\ Selects(s, k)
       /\ LET c == WithLastPage(Passed(s, k)) IN
          \E o \in DOMAIN c :
            /\ IsLast(c, o)
            /\ LET merged == [RowAt(s, k) EXCEPT !.val = stmt[s].set]
                   placed == InsertAt(c, o, merged)
               IN /\ placed.off < MaxPages
                  /\ cache' = [cache EXCEPT ![s] =
                       IF placed.ok THEN DeleteRid(placed.cache, RidAt(s, k))
                       ELSE placed.cache]
                  /\ affected' = [affected EXCEPT ![s] = IF placed.ok THEN @ + 1 ELSE @]
                  /\ pc' = [pc EXCEPT ![s] = IF placed.ok THEN "rows" ELSE "close"]
                  /\ failed' = [failed EXCEPT ![s] = ~placed.ok]
  /\ UNCHANGED <<file, cur, stmt, todo, out, snap, nextTag>>

\* mutants: the evicted page is dropped; the scan does not move on
NextPageDropped(s) ==
  /\ Scanning(s) /\ CanGet(cache[s], cur[s]) /\ ~HaveRow(Current(s))
  /\ LET c == WithLastPage(Loaded(s)) IN
     /\ ~IsLast(c, cur[s])
     /\ cache' = [cache EXCEPT ![s] = Erase(c, cur[s])]
     /\ cur' = [cur EXCEPT ![s] = c[cur[s]].next]
  /\ UNCHANGED <<file, pc, stmt, todo, affected, failed, out, snap, nextTag>>
NextPageStays(s) ==
  /\ Scanning(s) /\ CanGet(cache[s], cur[s]) /\ ~HaveRow(Current(s))
  /\ LET c == WithLastPage(Loaded(s)) IN
     /\ ~IsLast(c, cur[s])
     /\ cache' = [cache EXCEPT ![s] = Erase(c, cur[s])]
     /\ file' = WriteBack(cur[s], c[cur[s]])
  /\ UNCHANGED <<cur, pc, stmt, todo, affected, failed, out, snap, nextTag>>

\* The page is exhausted and is not the last: it leaves the cache, which
\* writes it back when dirty, and the scan goes to the page behind it.
NextPage(s) ==
  /\ Scanning(s) /\ CanGet(cache[s], cur[s]) /\ ~HaveRow(Current(s))
  /\ LET c == WithLastPage(Loaded(s)) IN
     /\ ~IsLast(c, cur[s])
     /\ cache' = [cache EXCEPT ![s] = Erase(c, cur[s])]
     /\ file' = WriteBack(cur[s], c[cur[s]])
     /\ cur' = [cur EXCEPT ![s] = c[cur[s]].next]
  /\ UNCHANGED <<pc, stmt, todo, affected, failed, out, snap, nextTag>>

\* END_OF_TABLE_SPACE: no such page, or the last page is exhausted.  The
\* execute loop ends with NO_MORE_ROWS and closes the operator.
ScanEnd(s) ==
  /\ Scanning(s)
  /\ \/ /\ ~CanGet(cache[s], cur[s])
        /\ UNCHANGED cache
     \/ /\ CanGet(cache[s], cur[s])
        /\ ~HaveRow(Current(s))
        /\ LET c == WithLastPage(Loaded(s)) IN
           /\ IsLast(c, cur[s])
           /\ cache' = [cache EXCEPT ![s] = c]
  /\ pc' = [pc EXCEPT ![s] = "close"]
  /\ UNCHANGED <<file, cur, stmt, todo, affected, failed, out, snap, nextTag>>

-----------------------------------------------------------------------------
\* mutant: the last page is written first
FlushBackToFront(s) ==
  /\ pc[s] = "close"
  /\ \E o \in DOMAIN cache[s] :
       /\ \A x \in DOMAIN cache[s] : o >= x
       /\ file' = WriteBack(o, cache[s][o])
       /\ cache' = [cache EXCEPT ![s] = Erase(@, o)]
  /\ UNCHANGED <<local, nextTag>>

\* TableSpace::close: pages_copy is destroyed front to back, so the dirty
\* pages are written in the order of their offsets, one write per page.
Flush(s) ==
  /\ pc[s] = "close"
  /\ \E o \in DOMAIN cache[s] :
       /\ \A x \in DOMAIN cache[s] : o <= x
       /\ file' = WriteBack(o, cache[s][o])
       /\ cache' = [cache EXCEPT ![s] = Erase(@, o)]
  /\ UNCHANGED <<local, nextTag>>

\* The statement has returned once the cache is empty
Done(s) == pc[s] = "close" /\ DOMAIN cache[s] = {}

\* The worker answers and is free for another statement
Reply(s) ==
  /\ Done(s)
  /\ pc' = [pc EXCEPT ![s] = "idle"]
  /\ UNCHANGED <<file, cache, cur, stmt, todo, affected, failed, out, snap, nextTag>>

\* The process dies between two file operations: every cache is lost
Crash ==
  /\ \E s \in Session : pc[s] # "idle"
  /\ cache' = [s \in Session |-> NoPages]
  /\ pc' = [s \in Session |-> "idle"]
  /\ UNCHANGED <<file, cur, stmt, todo, affected, failed, out, snap, nextTag>>

RowStep(s) ==
  \/ InsertNext(s) \/ InsertEnd(s) \/ Truncate(s)
  \/ SkipRow(s) \/ SelectRow(s) \/ DeleteRow(s) \/ UpdateRow(s)
  \/ NextPage(s) \/ ScanEnd(s)

Next ==
  \/ \E s \in Session :
       \/ \E st \in Statement : Open(s, st)
       \/ RowStep(s) \/ Flush(s) \/ Reply(s)
  \/ Crash

Spec == Init /\ [][Next]_vars

\* A worker that executes a statement goes on until it has answered
FairSpec == Spec /\ \A s \in Session : WF_vars(RowStep(s) \/ Flush(s) \/ Reply(s))

-----------------------------------------------------------------------------
TypeOK ==
  /\ file \in Seq(DiskPage)
  /\ \A s \in Session :
       /\ DOMAIN cache[s] \subseteq Nat
       /\ \A o \in DOMAIN cache[s] : cache[s][o] \in Page
  /\ DOMAIN cache = Session
  /\ cur \in [Session -> Nat]
  /\ pc \in [Session -> {"idle", "rows", "close"}]
  /\ stmt \in [Session -> Statement]
  /\ todo \in [Session -> Seq(Val)]
  /\ affected \in [Session -> Nat]
  /\ failed \in [Session -> BOOLEAN]
  /\ nextTag \in Nat

\* The pages of the file lie side by side: whatever was written, evicted or
\* lost in a crash, page o of the file is a page create_page made for offset
\* o, and its page_next leads to o + 1.  A hole would be read as a page whose
\* successor is page 0, and a scan would never end.
NoHoles == \A i \in 1 .. Len(file) : file[i].next = i

\* A scan never hands out the same row id twice, whatever other statements
\* write to the file meanwhile (page.h: row ids are increasing and unique).
NoRowReturnedTwice ==
  \A s \in Session : \A i, j \in 1 .. Len(out[s]) :
    out[s][i].rid = out[s][j].rid => i = j

\* A SELECT or a DELETE that has begun ends, although other statements may
\* grow the file under the scan: the scan only moves to higher pages.
ScanEnds ==
  \A s \in Session :
    (pc[s] = "rows" /\ stmt[s].kind \in {"select", "delete"}) ~> (pc[s] = "idle")

-----------------------------------------------------------------------------
(***************************************************************************)
(* What one statement does to the table when no other runs beside it.       *)
(***************************************************************************)
Content(rows) == {[tag |-> r.tag, val |-> r.val] : r \in rows}
Hits(s) == {r \in snap[s] : r.val \in stmt[s].filter}

\* A SELECT returns every row that matches, once, and nothing else.
SelectExact ==
  \A s \in Session : Done(s) /\ stmt[s].kind = "select" =>
    /\ {out[s][i] : i \in 1 .. Len(out[s])} = Hits(s)
    /\ Len(out[s]) = Cardinality(Hits(s))

\* A statement that answered without error left on disk exactly what SQL
\* says: the old rows, and those it added, changed or removed; every row
\* once.  An UPDATE that visits its own new rows again still leaves one copy.
\* The answer counts the rows a DELETE removed, and those an UPDATE changed when
\* its new rows do not match its WHERE, or fit in the only page of the table:
\* there the copies go to the front of the RowInfo array, behind the scan.
\* (Matching copies that spill into a later page are visited, and counted, again.)
StatementEffect ==
  \A s \in Session : Done(s) /\ ~failed[s] =>
    LET now == LiveRows(file)
        old == Content(snap[s])
        hit == Content(Hits(s))
    IN /\ \/ stmt[s].kind = "delete"
          \/ stmt[s].kind = "update" /\ (stmt[s].set \notin stmt[s].filter \/ Len(file) = 1)
          => affected[s] = Cardinality(hit)
       /\ Cardinality(Content(now)) = Cardinality(now)
       /\ Content(now) =
            CASE stmt[s].kind = "select" -> old
              [] stmt[s].kind = "delete" -> old \ hit
              [] stmt[s].kind = "truncate" -> {}
              [] stmt[s].kind = "update" ->
                   (old \ hit) \cup {[r EXCEPT !.val = stmt[s].set] : r \in hit}
              [] stmt[s].kind = "insert" ->
                   old \cup {[tag |-> nextTag - Len(stmt[s].vals) + i - 1, val |-> stmt[s].vals[i]] :
                               i \in 1 .. Len(stmt[s].vals)}

\* A crash or an error never harms a row the statement did not select: it is
\* on disk, unchanged and once, at every moment.
BystandersSafe ==
  \A s \in Session :
    (pc[s] # "idle" /\ stmt[s].kind # "truncate") =>
      LET bystanders == IF stmt[s].kind \in {"insert", "select"} THEN snap[s]
                        ELSE snap[s] \ Hits(s)
      IN bystanders \subseteq LiveRows(file)

\* Every row id a page hands out is one of its own PageSlots ids.
SlotsSuffice ==
  /\ \A i \in 1 .. Len(file) : Len(file[i].rows) <= PageSlots
  /\ \A s \in Session : \A o \in DOMAIN cache[s] :
       Len(cache[s][o].rows) <= PageSlots
=============================================================================
