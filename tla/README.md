# Verification of CatDB

TLA+ models of the parts of CatDB that carry its own logic, the TLC runs that
check them on small instances, and TLAPS proofs of what matters most for every
value of the constants. `PROJECT.json` lists components, runs, mutants, hazards
and theorems and maps every definition to the lines it models; this file is the
guide. Paths are relative to `src/`.

    tlc -workers 2 -config TableSpace.cfg MCTableSpace   # one run
    tlapm TableSpaceProofs.tla                           # one set of proofs

## 1. The system

CatDB is a small SQL database in C++: a MySQL-protocol server, a lex/yacc
parser, a Volcano-style executor and a row store with one file per table. It has
no tests, and README.md:2 says that locks and caches are not supported: sessions
share nothing but the table files. What follows lists the components, their
state and operations, what makes each hard, and what makes it correct.

| component (source) | state | operations | hard behaviour | what makes it correct | model |
|---|---|---|---|---|---|
| row store (`storage/table_space`, `page`, `IoService`) | table file; per statement a private map of pages, current page | open, get_next_row, insert/update/delete_row, clear, close | write-back in pieces, eviction under a scan, crash between two page writes, two private caches on one file | a statement's effect is what SQL says; a crash harms no other row; the file has no holes | `TableSpace`, `RowHeap` |
| row ids (`storage/page.h`) | ids in the RowInfo arrays | create_page, insert_row, delete_row | 32-bit layout shared with a deleted flag | an id leads to its row, ids are unique, deleted rows stay deleted | `RowIds` |
| DML operators (`sql/insert`, `update`, `delete`, `table_scan`; `plan/*_plan` execute loops) | values to insert, rows affected | get_next_row, execute | UPDATE moves rows under its own scan | every row changed once, counts right | `TableSpace` |
| SELECT operators (`sql/hash_*`, `nested_loop_join`, `*_group`, `sort`, `topn_sort`, `limit`; `common/hash_table`) | hash tables, queues, positions, flags | open, get_next_row, reset, reopen, close | state kept over reset and reopen; NULLs; shared buckets | the rows SQL asks for, in every pass | `HashTable`, `Operators`; whole trees in `PlanRun` |
| expressions (`sql/expression`, `filter`) | operand stacks, aggregates, subplans | get_result, add, reset | NULL, errors, subplans run per row | three-valued logic | `PlanRun`, `Objects` |
| parser (`parser/lex_yacc/sql_parser.y` and what bison makes of it) | tokens, statements | one production each | precedences declared apart, optional words | reads what was written | `SqlParse`, `SqlText` |
| select plan builder (`plan/select_plan`) | tables of the query, conjuncts, access columns, join order | optimizer, build_plan | names in nested scopes; each conjunct finds its place | every conjunct once, every column supplied, refused only if meaningless | `QueryTables`, `SelectPlan` |
| optimizer (`optimizer/sql_rewrite`, `statis`) | two plans at a time | rewrite of IN, EXISTS, comparisons | conditions move between queries | the rows of the subquery it replaces | `SqlRewrite` |
| plans of INSERT, DELETE, UPDATE (`plan/*_plan`) | expressions, operators | build_plan, execute | resolve with less care; subqueries run once | the change SQL says, and nothing when refused | `Changes` |
| values and numbers (`common/object`, `obj_*`, `decimal.cc`, `my_decimal.h`) | words of nine digits, sign, point | arithmetic, compare, hash, (de)serialize, LIKE | carries and borrows over words; results over operands; lost digits | exact while it fits; equal values compare and hash alike | `Objects`, `Like`, `Decimal`, `Numbers` |
| thread pool (`server/thread_pool.hpp`) | task queue, one condition flag, counters | append_task, worker loop, quit | flag and signal are two steps; one flag for many notifications | no lost wake-up, each task once, shutdown progresses | `ThreadPool` |
| write cache (`server/socket_buffer`) | ring with head and tail | write_package, have_a_look, read | reader looks without the lock and reads the length in pieces; the end of the ring; exact fill | a FIFO queue of bytes | `BufferCache`, `LossyFifo` |
| connections (`server/server`, `net_service`, `request_handle`, `loginer`) | client count, handles, seq, caches, descriptors | new_connection, login, read/write_socket, handle_request, post_packet, close_connection | poll thread against workers, clients leaving at any time, blocking login and writes, handle lifetime and its unlocked copy | answers whole and in order, handle outlives the plan that counts it, limit holds, everybody served while clients read | `Server` |
| catalog and DDL (`sql/schema_checker`, `plan/create_plan`, `drop_plan`) | rows of the system tables, directories, files | add/delete database and table, create/delete file; what SHOW, DESC and USE read | check then insert; catalog and files changed in steps, ids reused | names and ids unambiguous, nothing inherited from what was dropped, answers stay true | `Catalog` |
| packet reader (`socket_buffer` read_package, `request_handle` read_socket, handle_request) | read cache | write of blocks, read_package, dispatch | packets split over blocks and around the end of the ring; refused blocks | commands handled are commands sent | `PacketReader` |
| packets of an answer (`server/packet`, process_\*_packet) | buffer with a position | serialize | fixed buffers, unchecked stores | the client reads what was meant, or sees that it cannot | `Packets` |
| scanner, contents of the login's packets, settings, log, installer, loader | | | run once, or formats | | no |
| timers (`server/timer_manager`), `storage/storage.cpp`, state table (`server/state.cpp`) | | | | no code uses them | no |

Interactions. `ServerService` owns one poll thread and one pool. The poll thread
accepts and logs in clients, assembles a command and, for a query, appends a
task that binds the bare `RequestHandle`. A worker parses and builds a `Plan`,
which copies the handle's `m_self`, runs the operator tree, and posts the
answer's packets into the handle's write cache; the poll thread sends what the
cache holds. The leaves of an operator tree are `TableScan`s, each over a
`TableSpace` of its own, and INSERT, UPDATE and DELETE likewise open one each.
The pages of a table are shared only through its file.

## 2. Modules

| module | models | extends / used by |
|---|---|---|
| `TableSpace` | row store and the statements over one table | `TableSpaceRefinement`, `TableSpaceProofs` |
| `TableSpaceProofs`, `LoneStatementProofs` | pages, files and what a scan returns; what each step does to the table of a session that is alone | the second extends the first |
| `RowHeap` | abstract: a heap of rows changed a row at a time | refined by `TableSpaceRefinement` |
| `TableSpaceRefinement` | refinement mapping: cached pages laid over the file's | `MCTableSpace`, `LoneStatementProofs` |
| `MCTableSpace`, `MCTableSpaceShared` | instances with one and two sessions | |
| `RowIds` | the layout of row ids | `RowIdsProofs` |
| `ThreadPool` | queue, condition, workers and shutdown | `ThreadPoolProofs` |
| `BufferCache` | the ring of a connection's write cache | `BufferCacheRefinement` |
| `LossyFifo` | abstract: a FIFO whose promise ends at an overrun or a look beyond its buffer | refined by `BufferCacheRefinement` |
| `BufferCacheRefinement` | refinement mapping: the bytes of the ring that were not sent | `MCBufferCache`, `BufferCacheProofs` |
| `PacketReader`, `Packets` | the read cache, commands, the packets of answers | `MCBufferCache` and `BufferCacheProofs`, beside `BufferCache` |
| `Server` | connections, logins, commands, answers, handles | `MCServer`, `ServerProofs` |
| `MCServer` | instance whose clients and workers are interchangeable (symmetry, invariants only) | |
| `HashTable` | rows with NULL and the hash table of the operators | `Operators` |
| `Operators`, `MCOperators` | the operators of a SELECT over table scans | `OperatorsProofs` |
| `Like`, `Objects` | LIKE; values and what operators of expressions do with them | everything below |
| `SqlParse`, `SqlText` | from tokens to a statement; how a client may write it | `Statement` |
| `QueryTables`, `SqlRewrite`, `SelectPlan` | names and tables of a query, rewriting of subqueries, resolving and building | each extends the one before |
| `PlanRun`, `Changes` | the rows of a plan; INSERT, DELETE, UPDATE | extend `SelectPlan` |
| `SqlMeaning` | abstract: what a statement means in SQL | instantiated by `Statement` |
| `Statement`, `MCStatement` | a statement from its text to its answer | |
| `Decimal`, `Numbers`, `MCNumbers` | decimal arithmetic on words; a number under any operations | |
| `Catalog`, `MCCatalog` | databases and tables: system tables, directories, files | `CatalogProofs` |
| `*Proofs` | theorems and their proofs | |

**TableSpace.** `file` is the table file, a page per element with its rows, its
free bytes and `page_next`; `cache[s]` is the `pages` map of session `s`, `cur[s]`
its `cur_page_offset`. `pc[s]` says whether the execute loop runs (`"rows"`) or
the table space closes (`"close"`). The actions are `Open`, one per turn of the
loop of each statement (`InsertNext`, `SkipRow`, `SelectRow`, `DeleteRow`,
`UpdateRow`, `NextPage`, `ScanEnd`, `Truncate`, `InsertEnd`), one write of the
closing loop (`Flush`), `Reply`, and `Crash` between any two of them. Values are
model values with a width; a predicate is the set of values it selects.
`UpdateRow` follows `Page::update_row`, which merges the row and always answers
ROW_DATA_TOO_LONG, so an UPDATE inserts the merged copy in the last page and
then deletes the old row. The variables `out`, `snap` and `nextTag` are history.
Two sessions interleave at file operations and rows; each reads and writes whole
pages, as `IoService` does. A crash leaves whole pages: torn page writes and
file-system caching are outside the model.

**RowHeap.** What the row store promises a lone statement: rows come and go one
at a time, ids only grow, and a crash may lose or double only rows the
statement has touched. `TableSpaceRefinement` shows that caching, eviction and
write-back are invisible to it.

**RowIds.** Ids with their real arithmetic (`<< 10`, wrap at 2^32, flag in bit
31), widths being parameters.

**ThreadPool.** A step is one critical section or one access to an atomic.
`Condition`'s flag and signal are separate steps; `wait` consumes the flag;
spurious wake-ups are possible but never relied upon. `Quit` and
`wait_for_job_finish` are the two ways to `StoreExit`. Joining follows.

**BufferCache.** Bytes are numbered as they are accepted. `Write` is one step (it
holds the lock); `Send` takes any part of what was looked at; `Read` removes what
was sent. head and tail may stand at `Capacity`, one behind the last byte, as in
the code. `have_a_look` takes no lock and is taken apart: its length is
`min(Block, size())` with `size()` called again where it was smaller, and each
call reads tail in its test and once more in its sum. `LookTail`, `LookFirst`,
`LookTail`, `LookSecond` are these four reads, and writes may come between any
two (`raced`). A compiler that merges reads only removes interleavings. Then come
the copy (`LookCopy`) and, for a length that is none of `0 .. min(Block, Capacity)`,
`LookSpills`: the second `size()` is compared with nothing, and one torn by a
wrap of tail is negative (all of it is `int`, socket_buffer.cpp:63-90). Nothing is
said of the program after that. The model assumes that the bytes of a write are
visible before its tail, as they are in the order x86 keeps for stores.

**PacketReader, Packets.** Bytes are numbered in the order the client sends
them. A client sends commands of any of some lengths; read_socket takes blocks of any
length up to its own, writes each to the read cache and does not look whether it
was taken (a refused block is lost); handle_request takes packets out one by one
and posts an answer. `Packets` has the serializers: a payload is a sequence of
pieces with their sizes, stored into a buffer of the size the packet has asked
for, each store looking for room. Rows and fields ask for 1020 bytes and go on
after a failed store. What a client reads (`ReadAnswer` and what it uses) is not under
`src/` and is marked external. A composed run has one behaviour per cache: the
variable `side` says which of the two moves, since they share nothing.

**Server.** A packet is a unit with a size, a command one of three kinds: answered
by the poll thread (`direct`), answered by a worker before there is a plan
(`refused`), or a `query` with an answer of some length. `stored` is the size of a
write cache and `moved` whether its head has left 0. `Posted` has three outcomes: the
packet is kept; it takes the last byte there is, and as tail then meets head the
cache reads as empty and all in it is lost (with head at 0, tail stops at the end of
the buffer and nothing is lost); or it is refused. The handlers are the poll
thread's; `Polling` says that it is blocked neither in a login nor in a write: the
sockets are blocking, so `WriteSocket` begins a write which `WriteReturns` ends when
the client has read, and workers go on meanwhile. Where the cache was lost under a
write, what is left in it is no packet any more, and the model drops it.
`exists` and `self` are the reference counts of a handle as far as they matter:
whether m_self refers to it, the local pointer of close_connection (`conn` is
`"closing"` between the swap in `Close` and its destruction in `Release`), or some
plan. A worker copies m_self without a lock: `Begin` starts the copy
(`thd = "copying"`), `Hold` ends it. If the swap came in between, the copy may count
a reference or none, and a plan that counts none is as bare as its task. What
a copy of a half-swapped pointer does beyond that (a null `thd`, which only
SELECT DATABASE() follows, show_plan.cpp:127) is not modelled. A write to a client that
has left may end the process (`WriteFails`, SIGPIPE), a failed login leaves its
socket (`"leaked"`). Clients keep to the protocol: one command at a time.

**Catalog.** `dbs`, `tables` and `columns` are the rows of sys_databases,
sys_tables and sys_columns, `dirs` and `files` what the file system has. A
statement is the series of its statements on the system tables and of its file
operations, each an action: CREATE DATABASE makes the directory, then the row;
CREATE TABLE the row, the columns, the file; DROP TABLE removes the file, the
columns, the row; DROP DATABASE the columns and row of each table, then its own
row. `Crash` may come between any two. `serial` numbers what is created, so that
a column or a row in a file tells which table it was made for; `made`, `gone`
and `left` are history too. What the code has and the model keeps: ids are the
largest one left plus one; a file that is there is taken as it is; a SELECT
makes a file that is missing; a name the file system refuses leaves a table
without a file; DROP DATABASE runs `rm -rf` with the path right behind it
(IoService.cpp:200), so directory and files stay (`left`), and a table made
later under an old name finds the old rows in its file. One statement runs at a
time, and statements on the system tables do not fail. What SHOW, DESC and USE
answer (`ShownDatabases`, `ShownTables`, `MayUse`, `Describes`) is a function of the
catalog that any state may be asked for.

**HashTable, Operators.** One operator over table scans, with `op` holding the
members of whichever operator the plan has. A row is a key (0 is NULL) and a
rest. A plan used `"again"` is opened, read, reset and read once more; one that
is `"correlated"` is reopened for an outer row, opened, read and closed, twice.
Hash joins test `k = k`, nested loops `k < k`, HAVING is `COUNT(*) >= size`, an
aggregate is represented by the multiset of rows added to it, the order in which
`std::sort` leaves equal rows is open. `HashTable::clear` is modelled as
the code has it: its only statement is commented out, so it does nothing.

**Statement.** The variables follow a statement through the server: `text` are
its tokens, `query` what the parser makes of them, `plan` what
`SelectPlan::optimizer` leaves, `tree` the operators of `build_plan`, `answer` the
rows or the count. The actions are `Parse`, `OptimizeQuery`, `BuildPlan`,
`Execute` for queries, `PlanChange`, `ExecuteChange` for the others. Each is a
composition of pure operators:

- `SqlText` writes a statement in two styles, with the fewest and the most
  parentheses and optional words; `SqlParse` is the grammar of sql_parser.y, a
  production an operator from a position to what it made and the position behind.
  The tables bison generates are mapped as what they were generated from.
- `QueryTables` is the state of a `SelectPlan` while it resolves: tables with
  alias and id, lists, filters, joins, access columns. `SelectPlan` resolves
  clause by clause, collects columns, splits WHERE into conjuncts and makes them
  the filter of a table, conditions of a join, or a filter behind the joins; joins
  are ordered so that an equality joins the next table if one can. `SqlRewrite` has the
  rewriting of subqueries with everything it leaves behind when it gives up.
- `PlanRun` gives the rows of an operator tree as sequences. It repeats what
  of the operators' own state reaches an answer (a second pass, NULL handling,
  rows of an empty group) and leaves the rest to `Operators`; hash values do not
  collide in it.
- `Changes` has InsertPlan, DeletePlan and UpdatePlan, which resolve their
  expressions by rules of their own. A correlated subquery opens a table space of
  its own for each row and reads the file, which the statement around it has not
  written yet: it sees the table as it was.
- `SqlMeaning` looks at no plan. Names are scoped by the query they stand in,
  FROM is a product, conditions have three values.

Identifiers are in lower case; tables named in FROM exist; EXPLAIN's text and the
type and length of result columns are not modelled.

**Decimal, Numbers.** `Decimal` is common/decimal.cc on a sign, digits before and
after the point, and `Words` words of `Digits` digits (9 and 9 in the code): add,
subtract, multiply, Knuth's division, compare, text and binary form, each with its
truncation when words do not suffice. `Numbers` has one number on which the
operators (a new object each, made from the text of the result), the
aggregates (in place) and storage work in any order, beside its exact value
`exact`. `width` is `obj_width`, set where a number is made and not by the
aggregates. `Reload` stores a number and reads it back. It packs it into `tmp`, of
`TmpSize` bytes (29 in the code), and whatever has a longer binary form (`BinSize`;
that takes 64 digits or more) is written over its end: `Overrun`, after which nothing
is said of the number. `Storable` keeps a number that has outgrown its width from
being stored: such a number is the result of an aggregate, and a query's result is
refused by `cast_to` where a value is stored, or made into a new number by an
operator. Rounding, modulo and exponents in texts are not modelled; error codes of
my_decimal_\* are ignored, as
by their callers.

## 3. Runs

Each answers one question. Distinct states are in the last column.

| run | question | bounds | states |
|---|---|---|---|
| `ts_single` | does each statement of a lone session, with crashes, do what SQL says, and is it a `RowHeap`? | 3 values (two to a page, one to a page, too wide for any), 3 pages, 4 rows inserted | 260 k |
| `ts_shared` | what survives of the file and of scans when two sessions share a table without locks? | 2 sessions, 2 pages, 2 rows inserted | 203 k |
| `row_ids` | do ids lead to their rows while they stay below the flag? | ids of 5 bits, 4 pages of 4 ids | 54 k |
| `thread_pool` | wake-ups, single execution, progress, shutdown | 2 workers, 3 tasks | 25 k |
| `buffer_cache` | are both caches of a connection FIFO queues, are commands handled and answers read whole, does everything get sent? | write cache of 5, blocks of 3, packets of 1 to 3, 12 bytes; read cache of 13, blocks up to 5, commands of 1, 3, 5 bytes, 3 commands; packet numbers mod 4; texts of 0, 250, 251, 740, 1000 characters | 125 k |
| `server` | answers, handles and losses under every interleaving | 2 clients, 2 workers (up to symmetry), cache of 2 bytes, packets of 1 or 2, answers of 3 packets, 2 commands each | 2.68 M |
| `server_live` | the limit, and is everyone answered and cleaned up after? | 3 clients for 2 places, 1 worker, one command each, packets of 1 byte | 218 k |
| `catalog` | are names and ids unambiguous, is nothing inherited and every answer kept, whatever is interrupted? | 2 databases, 2 table names (one refused by the file system), 1 or 2 columns, 4 creations | 264 k |
| `operators` | does every operator return the right rows, in every pass of those that can be read again? | tables of up to 2 rows (3 for one child) of 6, 2 buckets | 1.26 M |
| `operators_again` | does reset make the rows readable again? *No* | as above | |
| `statement` | does a statement, from its tokens on, give the rows or make the change SQL says, and is it refused only when it means nothing? | some 470 statements in two styles, on every table t of up to 3 rows of 4 and u of up to 2 of 4, with NULLs and duplicates | 104 k |
| `numbers` | is arithmetic exact while results fit, and are equal numbers equal to compare and to hash? | words of 2 digits, 4 words, `tmp` of 3 bytes, 9 literals around the ends of words, 3 operations | 119 k |

Why the bounds are enough. A value too wide for a page, one that fills a page
and one of which two fit reach each branch of `insert_row`; three pages have
a first, a middle and a last one, so that a scan evicts a dirty page, goes on
to one not yet on disk, and a crash falls between writes of any two. Two
workers are the fewest among which a notification can go to the wrong one, three
tasks the fewest of which two share a flag while another runs. In a ring of 5,
blocks of 3 and packets of 1 to 3 are split around its end at every place, and 12
bytes go around it more than twice; a write of 3 between the two calls of
`size()` makes a length of up to 5 for a block of 3. A read cache of 13 has room for a block of 5 beside an unfinished command of
3 bytes and its header, but not always beside one of 5: blocks go around its end,
and some are refused. Texts of 250 and 251 characters are stored with lengths of
different sizes; 740 leaves room in a row for one of them and 1000 for none. Packets of 1 and 2 bytes against a cache of 2 are kept, fill
it to the last byte with head at 0 and elsewhere, and are refused; answers of 3
packets need the poll thread in between, and a direct answer or a second
command comes behind them. Three clients for two places make one be refused, or wait behind a
login. Four creations are a database and a table, each dropped
or interrupted and made again. Two buckets for four keys put different keys, and NULL with a
key, into one bucket; two passes are what it takes for a first to spoil the
second. Statements are chosen so that every kind of statement, every operator of
an expression and of a plan, every place of a conjunct and every way a subquery is
rewritten occurs; two rows of t with
an equal key, one with NULL and an empty table are among the databases. Two
digits a word and four words make every carry, borrow and guess of a
quotient's word occur with numbers of two and three words, and results that
do not fit; a binary form has up to 4 bytes against a `tmp` of 3. The bounds of the models (`MaxPages`, `MaxTag`, `MaxWritten`,
`MaxCommands`, `MaxSent`, `MaxSerial`, `MaxPass`, `MaxSteps`) sit in the guards of the actions that would exceed them.

`CHECK_DEADLOCK FALSE` stands where the system may stop: pools that are shut
down, caches with all bytes sent, clients that have left, plans closed, statements
answered, operations done. The runs of
the row store and the catalog check deadlock: an idle session can always begin a
statement, and the bounds stop only what would exceed them.

### What the properties say

- *Row store.* `SelectExact` and `StatementEffect` compare the answer, the
  file and the counts with the table before the statement. `BystandersSafe` holds
  at every moment, so also after a crash. `NoHoles`, `NoRowReturnedTwice` and
  `ScanEnds` hold for two sessions too. The count of an UPDATE is stated where its
  new rows do not match its WHERE or fit in one page: other copies are visited and
  counted again, and such an UPDATE may go on until the disk is full, which is why
  `ScanEnds` is not stated for UPDATE. `ScanEnds` leans on the bound on what is appended
  (`MaxPages`, `MaxTag`): a scan goes to the end of the file as it is when it gets there, so
  it ends only if others do not append for ever and faster than it reads.
- *Row ids.* `LiveRowsFound`, `DeletedStaysDeleted`.
- *Pool.* `NoLostWakeup`, `TaskRuns`; `ShutdownWakes` says that a
  shutdown reaches the joins with one worker gone at least. With two sleepers the
  others may stay asleep, because the shutdown's notifications share the flag;
  the program only shuts down in a destructor at exit.
- *Write cache.* `FifoInOrder`, `ImplementsFifo`, `AllSent`, all up to the first
  write that fills the ring to its last byte and up to a look that leaves its buffer.
  `FifoInOrder` also says when that can happen: only with a write between the reads
  of the length. Every other race of the look with the workers is harmless.
- *Read cache and packets.* `CommandsWhole`: until a block has been refused, the
  commands handled are those the client sent, in order. `AnswersRead`: what a
  client makes of an answer is what was put into it, or it sees that a row is
  malformed; the packets are numbered as the protocol asks.
- *Server.* `AnswerIntact` (the poll thread resets `seq`, a worker counts it;
  packets are lost only of an answer at least as long as the cache),
  `PlanKeepsHandle` (a counted reference keeps the handle, whatever the poll
  thread and other workers drop), `FreedForLeaversOnly` (a handle that nobody counts,
  in a task or behind a copy that came too late, is used after its end only if the
  client left unanswered), `ClientsCounted`, `AllAnswered`, `LeaverFreed`.
- *Catalog.* `NamesAndIdsUnique` (a name with two rows is found by nobody),
  `NothingInherited` (ids come back after a DROP, their columns and tables must
  not), and `AnswersKept`: what a CREATE TABLE or DROP TABLE has reported stays
  true until the same table is named again, whatever else is done or interrupted,
  and SHOW, DESC and USE answer accordingly. An interrupted DROP TABLE may leave a name that can neither
  be created nor dropped; no document promises otherwise.
- *Operators.* `JoinsExact`, `SetsExact`, `GroupsExact`: as many of each row as
  SQL asks for; `PassesExact` for operators that can be read again.
  `SetsExact` assumes `NullsApart`, since `HashTable::equal` takes two rows of a
  bucket for equal at the first column where both are NULL. Of
  `NestedLoopJoin::semi_join` only soundness is stated: it never sets
  `right_pos` back and misses rows.
- *Statements.* `RowsExact` (no subqueries: each row as often as SQL has it, for
  lists, joins, groups, sets and derived tables), `SubqueriesExact` (with
  subqueries that are `Answerable`), `OrderedAnswers`, `RefusedRight`,
  `ColumnsSupplied` (no operator reads a column that its input lacks),
  `ParsesBack`, `ChangesExact` (table, count, and no change by EXPLAIN). What their
  preconditions leave out is listed in section 4.
- *Numbers.* `Exact`, `ComparesExact`, `KeysAgree` (equal numbers with equally
  many digits behind the point hash alike; a negative zero is left out of
  `ComparesExact`).

### Fairness

Safety runs assume none. Where liveness is checked, it is weak fairness of what
the code's threads do by themselves, and of clients only what is said here:

- `TableSpace!FairSpec`: a worker executing a statement goes on. There is no
  lock to wait for.
- `ThreadPool!FairSpec`: each worker is scheduled and its tasks return; the poll
  thread finishes the calls it has begun. Appending tasks, shutting down and
  spurious wake-ups are not fair. The mutexes protect single steps.
- `BufferCache!FairSpec`: the poll thread goes on with its turns (`Turn`), and the
  socket takes at least one byte when it is asked; workers need not write.
- `Server!ServerFair`: each handler of the poll thread, per client, since a turn of
  the poll loop serves every descriptor that is ready; each worker; and a write
  to a client that has left comes back.
- `Server!ClientsFair`: what the server needs of its clients. One in the login
  answers or leaves: the login reads with blocking calls on the poll thread (the
  timeout declared in loginer.cpp:227 is not used). One that is served reads what it
  is sent, or leaves: `write_socket` loops on a blocking write
  (request_handle.cpp:103-118). The code guarantees neither, and one silent client
  stops all others; `AllAnswered` and `LeaverFreed` are said under this assumption only.

## 4. Findings

One is a run, because a comment of the code says otherwise:

- **Operators read again** (`operators_again`, hash_table.cpp:46). `clear`
  does nothing, and several resets do not call it: DISTINCT, UNION, INTERSECT,
  EXCEPT, GROUP BY return nothing in a second pass. `HashNullAwareAntiJoin`
  relies on a second pass over the subquery of NOT IN. phy_operator.h:50 says that
  reset lets the rows be read again.

The models keep everything else as the code has it. What departs from SQL or
from what one would expect, without a document that says so, is excluded from the
properties by a named condition:

| where | what the code does | left out by |
|---|---|---|
| socket_buffer.cpp:133 | a write that fills the cache exactly makes it read as empty, unless head is 0: its bytes are lost although the write is reported as done | `overrun` in `FifoInOrder`, `dropped` in `AnswerIntact` |
| socket_buffer.cpp:89 | the length of a look is read in pieces without the lock: with a write in between it exceeds the block of the caller or is negative | `"spilled"` in `FifoInOrder` |
| request_handle.cpp:108 | sockets are blocking: a client that does not read, or does not answer the handshake, stops the poll thread and with it every client | `ClientsFair` |
| request_handle.cpp:127, 368, plan.cpp:112 | m_self is copied by a worker without a lock while the poll thread swaps it: the plan may hold no counted reference | `Hold` |
| obj_number.cpp:60 | a number whose binary form has more than 29 bytes is written over the end of `tmp` | `Overrun` |
| obj_number.cpp:54 | `obj_width` is not set anew when an aggregate lengthens a number; no such number is stored as it is | `Storable` |
| request_handle.cpp:79 | a block the read cache refuses is lost; a command longer than the cache can never be read | `CommandsWhole` ends there |
| scalar_group.cpp:58 | reopen and open both add all rows: COUNT and SUM of a correlated subquery that stays a subplan are doubled | `Answerable` |
| sql_rewrite.cpp:277 | COUNT in a correlated comparison that is rewritten: an outer row without a match is lost (a comment says so) | `Answerable` |
| sql_rewrite.cpp | correlated NOT IN over NULLs; EXISTS whose only correlation is no equality; an IN below OR is rewritten as if it stood under AND; a query on the left of a comparison | `Answerable` |
| sort.cpp:240 | the top-n sort compares NULL with nothing, in neither order: its order is undefined where a sort column has a NULL | ORDER BY with LIMIT is over columns without NULL |
| select_plan.cpp | DISTINCT is applied before the list is computed; GROUP BY over no rows gives a row; ORDER BY a column that is not in the list | `Plain`, `Grouped`, `SortsItsList` |
| sql_parser.cpp:1182 | a LIMIT that does not fit in an int ends the process; LIMIT 0 gives a row; COUNT(DISTINCT) is COUNT; AVG counts rows that are NULL | not among the statements |
| delete_plan.cpp:170, update_plan.cpp | conditions on the outer row are dropped in subqueries; NOT IN over rows with a NULL is true; an UPDATE of two columns is a syntax error | `AllAnswerable`, `NotInNull` |
| obj_varchar.cpp | LIKE without '%' matches a prefix | patterns with '%' |
| request_handle.cpp:269 | the type of a result column is that of the first row's value, undefined if that is NULL | not modelled |
| decimal.cc:1964 | a sum written over its first operand reads words it has already written: it loses a leading word when it needs one more | `Disturbed` |
| obj_number.cpp:77 | 1.5 and 1.50 are equal and hash differently; a negative zero is less than zero | `KeysAgree`, `NegativeZero` |
| page.cpp:455 | from page 2^21 on (32 GB) new rows carry the deleted flag | `TableFits` |
| IoService.cpp:161 | DELETE without WHERE beside another session leaves a hole | `TruncateAlone` |
| table_space.cpp:128 | an UPDATE may follow its own copies without end | `ScanEnds` |
| IoService.cpp:200 | DROP DATABASE runs `rm -rf` without a blank before the path: files stay | `left` |
| schema_checker.cpp | statistics rows outlive their table; two DDL statements side by side; failing statements on system tables are not noticed; SHOW STATUS and SHOW INDEX are answered OK | not modelled |
| server.cpp:81, thread_pool.hpp:159 | sockets of failed logins stay open; sleepers at shutdown; SIGPIPE | `leaked`, `ShutdownWakes`, `WriteFails` |
| sql_rewrite.cpp:15, sql_scanner.cpp:824 | globals that all workers use without a lock | not modelled |

## 5. Proofs

Proved by TLAPS for every value of the constants that meets the named
assumptions. Each file finds an inductive invariant, proves that `Init` has it
and that every action keeps it, a lemma per action, and derives its theorems.

| theorem | says | assumes |
|---|---|---|
| `TableSpaceProofs!Inductive`, `Typed`, `FileHasNoHoles`, `RowIdsSuffice` | `IInv`, `TypeOK`, `NoHoles`, `SlotsSuffice` for any sessions, statements, values and sizes | `TruncateAlone`, `PageAssumption`, `StatementAssumption` |
| `TableSpaceProofs!ReturnsOnce` | `NoRowReturnedTwice`, whatever other sessions write under the scan | the same |
| `LoneStatementProofs!HarmsNone`, `SelectsExactly`, `LeavesExactly` | `BystandersSafe`, `SelectExact`, `StatementEffect` | `OneSession`, the same two |
| `LoneStatementProofs!RefinesHeap` | `ImplementsHeap`: a lone session's store refines `RowHeap` | `OneSession`, `Session # {}`, the same two |
| `OperatorsProofs!ReturnsSets` | `SetsExact` for any tables, number of buckets and hash functions | `HashAssumption`, `PlanAssumption` |
| `OperatorsProofs!ReturnsJoins`, `ReturnsGroups` | `JoinsExact`, `GroupsExact`, likewise | the same |
| `OperatorsProofs!GivesPasses` | `PassesExact`, likewise for any sizes and offsets | the same |
| `RowIdsProofs!Inductive`, `RowsFound`, `NoRowBack`, `IdsFollowFile` | `LiveRowsFound`, `DeletedStaysDeleted`, `IdsIncrease` for all widths | `TableFits` |
| `ThreadPoolProofs!Inductive`, `NoWakeupLost` | `NoLostWakeup` for any number of workers and tasks | `PoolAssumption` |
| `ServerProofs!Inductive`, `AnswersWhole`, `HandlesOutlivePlans`, `OnlyLeaversFreed`, `CountsClients` | `AnswerIntact`, `PlanKeepsHandle`, `FreedForLeaversOnly`, `ClientsCounted` for any clients, workers, commands, limit, cache and sizes of packets | `ServerAssumption` |
| `CatalogProofs!Inductive`, `Unique`, `NoHeritage`, `OwnRows` | `NamesAndIdsUnique`, `NothingInherited`, `RowsOfOwnTable` for any names, column lists and number of statements and crashes | `CatalogAssumption` |
| `CatalogProofs!InductiveAnswers`, `KeepsAnswers` | `AnswersKept`, likewise | `ListsAssumption` |
| `BufferCacheProofs!Inductive`, `CacheIsFifo`, `CacheTyped` | `FifoInOrder`, `TypeOK` for any capacity, block and packet sizes, with writes between any two reads of the look | `SizeAssumption` |
| `BufferCacheProofs!RefinesFifo` | `ImplementsFifo`: the ring refines `LossyFifo` | `SizeAssumption` |
| `BufferCacheProofs!ReadsCommands` | `CommandsWhole` for any cache, block, lengths and number of commands | `ReaderAssumption` |
| `BufferCacheProofs!ReadsAnswers` | `AnswersRead` for any messages and results: any number and length of names, rows, texts and NULLs | `AnswersAssumption`, `SeqAssumption` |

The arguments:

- *Pages and files.* `NoHoles` is not inductive: a cached page written far beyond the
  end would make a hole. `IInv` says that file and caches hold only pages
  `create_page` made for their offset, with free bytes that account for their
  rows (`FileOK`, `CacheOK`); that between the end of the file and a page that
  will be written every page is cached and will be written too, and before it
  (`Linked`, `Filled`); and that a scan leaves no dirty page behind (`Ahead`). The
  rows of a page are then bounded by `Width * PageSlots > PageCapacity`.
  `TruncateAlone` is needed: a DELETE without WHERE that empties the file while
  another session holds a dirty page beyond its new end does leave a hole, which a
  scan reads as a page that leads back to page 0, without end.
- *What a scan returns.* A row id is `Behind` a scan when its page is, or when it
  stands further up the RowInfo array of the current page, which grows at its
  other end. Everything returned is behind the scan, and what the scan
  finds next is not; no step of any session moves a row id from behind it to the
  front, since the scan's page stays in its cache and `cur` only grows.
- *A session alone.* `Table(file, cache[s])` is the table as the session sees it,
  its pages over those of the file, and `Now(s)` its live rows. For each action a
  lemma says what it does to them (`PassEffect`, `InsertEffect`, ...): reading,
  evicting and writing change nothing, INSERT appends one row with an id `Above`
  all others, DELETE marks one, UPDATE does both. What makes the write-back safe
  is `TagsApart`: an UPDATE leaves the old copy on disk for a while, on a page that is
  still to be written and does not lie behind the page of the new copy; pages are
  written front to back, in the scan and at close, so the old copy goes first, and no
  moment, so no crash, has two copies on disk. On it rest, per kind of statement
  (`Selecting`, `Deleting`, `Inserting`, `Updating`), what the scan has passed, has
  returned or counted, and what it still has to meet. An UPDATE may meet its own copies again; `Wide` and
  `CopiesPast` say when it does not, which is when the count of `StatementEffect`
  is promised.
- *The heap.* The mapping reads rows and the highest row id off the cached pages
  laid over the file's. A step that only reads or writes back is a stutter since the table
  stays; the ids of appended rows exceed the highest one, since the last page
  with rows is the one a row goes to (`HighestNew`). For a crash the proof needs
  that no page of the file is longer than the session has it (`Grows`), that the old rows still
  in the table are on disk, and that what is on disk is old, or new and behind the
  scan (`Disclosed`): a row an UPDATE removes is not behind it, so it is an old one.
- *Sets.* The hash table holds exactly the rows it was built from and those returned
  so far, and of the set operators' inputs the rows skipped are those the table
  answered for (`SetInv`); no two rows returned are equal, and none is left out that
  belongs to the result. A probe finds a row in its bucket and no other, by
  `NullsApart`.
- *Joins.* "As often as it occurs" is a bijection: `Lists(s, S, g)` says that s has
  `g[x]` for each x of S once, in some order, and a lemma each says what append,
  concatenation, selection and the flattening of buckets do to it. The hash
  table lists the rows it was built from, each bucket those whose key hashes to
  it (`KeyTable`). `JoinInv`: what a hash join has returned and what waits in its
  queue lists the pairs of the right rows read so far (`JoinRead`); for a semi join the
  table lists the left rows no right row has matched yet (`SemiRead`), since a match
  drops them; NOT IN is decided when it opens (`NotInRead`); a nested loop has returned the
  pairs before the current one in the order of the loops (`LoopRead`).
- *Groups.* Equal keys have one bucket (`HashAssumption`), so the groups of
  the buckets list the keys of the input (`GroupsListed`), and what is read so
  far lists those before `pos` that HAVING lets through (`GroupRead`). A tally
  depends only on what a sequence lists (`TallyIs`), not on its order.
- *Passes.* `PassInv` says for each operator that can be read again what it has
  returned and where its members stand: the first rows of its input
  (`ScanRead`), the first of the rows it has sorted (`OrderRead`), those from the
  offset on (`LimitRead`). What `open` and `reset` must set back is part of it. The
  top-n sort rests on its heap (`HeapOK`): it has the first rows of what it has seen, as
  often as they occur, and a row it has fewer of comes after none of those it has.
  That the result of `std::sort` has every row as often as its input is a
  bijection between positions (`SortedIs`).
- *Row ids.* Page p numbers its rows consecutively from `(p-1) * PageSlots`, and
  exactly the deleted ids carry the flag. `TableFits` (ids stay below the flag) is
  needed: bit 31 is the flag's and, by the comment at page.h:28, the page
  offset's, so that from page 2^21 on a new row counts as deleted.
- *Pool.* While the pool is open: if the flag is up, a signal is pending or a
  worker is awake; if the queue is not empty, the flag is up, a notification is
  on its way, or a worker is about to take. The second part is what one shared
  flag for many notifications needs, and what `NoLostWakeup` alone does not say.
- *Connections.* A command of a client is in one place: its inbox, the queue, or a
  worker that has not posted all of its answer (`SentOK`, `QueuedOK`, `RunningOK`).
  So only one thread at a time numbers packets of a connection, and the job's
  count is `seq`. Without a lost packet, what the client has and what the cache
  has are the packets 1 to `seq` (`CacheOK`, `GotOK`), and the packet that is being
  written is the first of the cache until `read` removes it (`WritingOK`). The
  cache's size is the sum of its packets (`Sized`), which are of the answer under way and
  no more than was posted of it; so a packet that is refused, or that fills the cache,
  makes the answer at least as long as the cache. Until its local pointer is
  destroyed, close_connection keeps the handle (`Handles`); afterwards the plans do that
  have counted a reference. A limit that is looked at before a login and counted after it
  holds because the poll thread logs in one client at a time and is in nobody's login
  while it closes or writes (`Places`, `Counted`).
- *Write cache.* Before an overrun, the ring holds the accepted bytes in order
  between head and tail and what the poll thread has copied without the lock is
  a front of them: workers only write behind tail. Only the poll thread moves head, and
  without an overrun a tail that was behind head when the test of `size()` read it still is when
  the sum does; so a torn length is never more than what is there (`Looked`, `TornSize`), and
  what is wrong with it can only be that it exceeds the block or is negative. If no write
  came between the reads they agree and the length is one `buf` has (`Unraced`).
  `CacheTyped` claims that of the lengths copied and sent. In `LossyFifo` the queue is then the
  bytes from the client's last one to the last one written: `Send` takes its
  front, and `Read`, which removes it from the ring later, is a stutter.
- *Read cache.* While no block has been refused, the ring holds, in order, the bytes
  that arrived and were not handled (`Unhandled`), and the first of them begins a
  command, so that the bytes at head are its header and no other's. When the
  loop ends, the next command is not there in full (`NothingWaits`). `Roomy` is the
  condition of `CommandsWhole` under which a block always fits: the loop leaves less
  than one command, and a command leaves room for a block.
- *Packets.* For each store, what it appends when there is room and that it leaves
  the buffer alone otherwise (`HasPiece`, `HasText`). The rows are the hard
  part: the server stores cells from the first to the last, going on after one that
  did not fit, while the client reads from a piece on to the end. What the client reads behind
  the j-th cell (`ReadsBehind`) has at most a text per cell that is left, and the
  right ones if it has that many: by induction from the last cell back to the first,
  as a number of cells that has the property, and none before it, is a smallest one
  (`WFMin`). So a row that reads as having all its columns reads right. `FiveJoined` puts
  the packets of a result behind each other, and `ResultNumbered` numbers them.
- *Catalog.* What a statement has done so far is part of the invariant
  (`Underway`): the table whose columns are being added is the last one made; one
  that is about to lose its row has neither columns nor file; a database that
  goes has its files in `left`. With it, every file not left behind has a table
  of its name with only its own rows (`FilesOwned`), from which a new table, whose
  name nobody has, starts empty. For `AnswersKept` it is extended by what every
  answered table still has (`Kept`) and by what the statement under way takes back
  before it changes anything (`Changing`): promises about a table are withdrawn in
  its first step, and later steps change only rows with the ids found there.

The assumptions. `PageAssumption` is justified by the code: a row takes at least 8
bytes and its RowInfo 8, and a page's 16344 free bytes are fewer than 16 * 1024.
`OneSession` and `TruncateAlone` are conditions on who runs beside whom, which the
code does not enforce: it has no lock on a table, and README.md:2 of the
repository says so. `HashAssumption` says that hash values
are buckets and that equal keys have equal ones; that hash tables tell NULLs
apart is a hypothesis of `SetsExact` itself. `PlanAssumption` says what plans there are. A top-n
sort is over rows without NULL and keeps a row at least: its comparison leaves the
order of NULL open, and with LIMIT 0 it reads a first row that an empty heap does not have.
`ListsAssumption` says that the
column list of a CREATE TABLE is not empty and that its columns are numbered in
the order in which they are listed. `ReaderAssumption` and `SeqAssumption` say that sizes are
numbers, and the cache's and the block's are not 0. `AnswersAssumption` describes
an answer: OK, an error with a message, or names and rows of cells, each row with a
cell for each name, as `PlanRun` and the SHOW plans make them.

Only model-checked: the liveness properties (out of the prover's reach, as is
ENABLED); the `Statement` group, whose operators are recursive over the statement,
which the provers cannot unfold; and, not proved yet, what `Numbers` promises.

## 6. Not modelled, and the plan

Not modelled: the scanner (its table is generated; escapes and case are formats),
the contents of the login's packets (`check_privilege` accepts everybody), packets
of prepared statements (nothing sends them), the layout of SHOW, DESC and EXPLAIN
answers, the estimates of `statis.cpp` (only EXPLAIN shows them), rounding, modulo and exponents of numbers, settings, logging, the
installer and the TPC-H loader, timers, PageManager and the state table (no
callers). Outer joins, HashJoin's anti join and `NestedLoopJoin::anti_join` return
nothing or cannot be reached. A set query as a derived table and hash operators inside
correlated subplans are in no statement of the run.

Planned, in this order:

1. `Catalog` with two statements side by side, to show what of it depends on their
   running alone; with statements on the system tables that fail; and with ANALYZE.
2. The login's packets over `PacketReader`'s cache, and the race of
   `cur_database`.
3. Proofs: of `Decimal`, comparison and what a number's text and binary form
   keep.
