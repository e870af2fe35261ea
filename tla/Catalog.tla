------------------------------- MODULE Catalog -------------------------------
(***************************************************************************)
(* Databases and tables (sql/schema_checker.cpp, plan/create_plan.cpp,     *)
(* plan/drop_plan.cpp): the rows of the system tables, and the directories *)
(* and files of storage/table_space.cpp.  A DDL statement is a series of   *)
(* SQL statements on the system tables and of file operations; nothing     *)
(* makes it one transaction, and the process may die between any two.      *)
(*                                                                         *)
(* One statement runs at a time: nothing is locked, and two DDL statements *)
(* side by side may both find a name free.  Names are shorter than a page. *)
(***************************************************************************)
EXTENDS Integers, Sequences, FiniteSets

CONSTANTS
  DbName,
  TableName,
  Refused,    \* the table names for which the file system makes no file
  Lists,      \* the column lists of CREATE TABLE
  MaxSerial   \* bound of the model: databases and tables created

ASSUME CatalogAssumption == MaxSerial \in Nat /\ Refused \subseteq TableName

\* A table has a column, and columns are numbered as they are listed
ASSUME ListsAssumption ==
  \A l \in Lists : /\ l \in Seq(Nat) /\ l # <<>>
                   /\ \A j, k \in DOMAIN l : j < k => l[j] < l[k]

VARIABLES
  dbs,      \* system.sys_databases
  tables,   \* system.sys_tables
  columns,  \* system.sys_columns
  dirs,     \* the directories of databases
  files,    \* the table files: <<database, table>> -> the rows in it
  at,       \* where the statement that runs is
  db,       \* the database it names
  table,    \* the table it names
  list,     \* the columns it lists
  added,    \* how many of them are in
  id,       \* the id of the table it adds or deletes
  serial,   \* history: databases and tables are numbered as they are made
  made,     \* history: the tables a CREATE TABLE has reported as made
  gone,     \* history: the tables a DROP TABLE has reported as dropped
  left      \* history: the files that a DROP DATABASE has left behind

catalog == <<dbs, tables, columns>>
storage == <<dirs, files>>
stmt == <<db, table, list>>
history == <<made, gone, left>>
vars == <<catalog, storage, at, stmt, added, id, serial, history>>

\* The rows of the system tables.  The fields serial and home are history:
\* which database or table of that name it is, and which database a table
\* was made in.  A row in a file is the serial of the table it was put into.
Database == [id : Nat, name : DbName, serial : Nat]
TableRow == [id : Nat, name : TableName, db : Nat, serial : Nat, home : Nat]
Column == [table : Nat, pos : Nat, serial : Nat]

\* Before install_db.sql; the database system it makes, with the three tables
\* themselves, is a database like others that no statement of the model names.
Init ==
  /\ dbs = {} /\ tables = {} /\ columns = {}
  /\ dirs = {} /\ files = [p \in {} |-> {}]
  /\ at = "idle" /\ db \in DbName /\ table \in TableName /\ list \in Lists
  /\ added = 0 /\ id = 0
  /\ serial = 0 /\ made = {} /\ gone = {} /\ left = {}

-----------------------------------------------------------------------------
(* Queries on the system tables.                                            *)

\* get_database_id finds a database when exactly one row has the name
DatabaseIds(d) == {r.id : r \in {x \in dbs : x.name = d}}
HasDatabase(d, i) == DatabaseIds(d) = {i}

\* show_tables: the tables of the databases of a name
TablesOf(d) == {t \in tables : t.db \in DatabaseIds(d)}

\* get_table_id, likewise
TableIds(d, t) == {r.id : r \in {x \in TablesOf(d) : x.name = t}}
HasTable(d, t, i) == TableIds(d, t) = {i}

ColumnsOf(i) == {c \in columns : c.table = i}

\* get_last_database_id and get_last_table_id: 0 if there is none
IsLastId(rows, i) == i \in {0} \cup {r.id : r \in rows} /\ \A r \in rows : r.id <= i

\* get_row_desc: a table without columns is not found
Resolves(d, t) == \E i \in TableIds(d, t) : ColumnsOf(i) # {}

\* IoService::open: the file is made if it is not there
Opened(p) == [q \in DOMAIN files \cup {p} |-> IF q \in DOMAIN files THEN files[q] ELSE {}]
CanOpen(d, t) == d \in dirs /\ t \notin Refused

-----------------------------------------------------------------------------
(* CREATE DATABASE.                                                         *)

\* TableSpace::create_database: mkdir, whose result nobody looks at
CreateDatabase(d) ==
  /\ at = "idle" /\ serial < MaxSerial
  /\ at' = "add" /\ db' = d
  /\ dirs' = dirs \cup {d}
  /\ UNCHANGED <<catalog, files, table, list, added, id, serial, history>>

\* SchemaChecker::add_database
AddDatabase ==
  /\ at = "add"
  /\ IF \E i \in DatabaseIds(db) : HasDatabase(db, i)
     THEN UNCHANGED <<dbs, serial>>
     ELSE /\ \E last \in {0} \cup {r.id : r \in dbs} :
               /\ IsLastId(dbs, last)
               /\ dbs' = dbs \cup {[id |-> last + 1, name |-> db, serial |-> serial + 1]}
          /\ serial' = serial + 1
  /\ at' = "idle"
  /\ UNCHANGED <<tables, columns, storage, stmt, added, id, history>>

-----------------------------------------------------------------------------
(* CREATE TABLE: the catalog first, then the file.                          *)

\* SchemaChecker::add_table finds no database, or the table in it
CreateTableFails(d, t) ==
  /\ at = "idle"
  /\ \/ ~\E i \in DatabaseIds(d) : HasDatabase(d, i)
     \/ \E i \in TableIds(d, t) : HasTable(d, t, i)
  /\ db' = d /\ table' = t
  /\ UNCHANGED <<catalog, storage, at, list, added, id, serial, history>>

\* mutant: the name is not looked up
AddTableBlind(d, t, l) ==
  /\ at = "idle" /\ serial < MaxSerial
  /\ \E i \in DatabaseIds(d), last \in {0} \cup {r.id : r \in tables} :
       /\ HasDatabase(d, i) /\ IsLastId(tables, last)
       /\ \E r \in dbs : r.id = i /\ tables' = tables \cup
            {[id |-> last + 1, name |-> t, db |-> i, serial |-> serial + 1, home |-> r.serial]}
       /\ id' = last + 1
  /\ at' = "columns" /\ db' = d /\ table' = t /\ list' = l
  /\ added' = 0 /\ serial' = serial + 1
  /\ gone' = gone \ {<<d, t>>}
  /\ UNCHANGED <<dbs, columns, storage, made, left>>

\* add_table: the row of sys_tables
AddTable(d, t, l) ==
  /\ at = "idle" /\ serial < MaxSerial
  /\ ~\E i \in TableIds(d, t) : HasTable(d, t, i)
  /\ \E i \in DatabaseIds(d), last \in {0} \cup {r.id : r \in tables} :
       /\ HasDatabase(d, i) /\ IsLastId(tables, last)
       /\ \E r \in dbs : r.id = i /\ tables' = tables \cup
            {[id |-> last + 1, name |-> t, db |-> i, serial |-> serial + 1, home |-> r.serial]}
       /\ id' = last + 1
  /\ at' = "columns" /\ db' = d /\ table' = t /\ list' = l
  /\ added' = 0 /\ serial' = serial + 1
  /\ gone' = gone \ {<<d, t>>}
  /\ UNCHANGED <<dbs, columns, storage, made, left>>

\* mutant: the last column is left out
AddColumnShort ==
  /\ at = "columns" /\ added < Len(list)
  /\ columns' = IF added + 1 = Len(list) THEN columns
                ELSE columns \cup {[table |-> id, pos |-> list[added + 1], serial |-> serial]}
  /\ added' = added + 1
  /\ UNCHANGED <<dbs, tables, storage, at, stmt, id, serial, history>>

\* add_table: a row of sys_columns
AddColumn ==
  /\ at = "columns" /\ added < Len(list)
  /\ columns' = columns \cup {[table |-> id, pos |-> list[added + 1], serial |-> serial]}
  /\ added' = added + 1
  /\ UNCHANGED <<dbs, tables, storage, at, stmt, id, serial, history>>

\* TableSpace::create_table; a file that is there is taken as it is
CreateFile ==
  /\ at = "columns" /\ added = Len(list)
  /\ IF CanOpen(db, table)
     THEN /\ files' = Opened(<<db, table>>)
          /\ made' = made \cup {[db |-> db, table |-> table, list |-> list]}
     ELSE UNCHANGED <<files, made>>
  /\ at' = "idle"
  /\ UNCHANGED <<catalog, dirs, stmt, added, id, serial, gone, left>>

-----------------------------------------------------------------------------
(* DROP TABLE: the file first, then the catalog.                            *)

Unmade(d, t) == made \ {m \in made : m.db = d /\ m.table = t}

\* TableSpace::delete_table finds no file
DropTableFails(d, t) ==
  /\ at = "idle" /\ <<d, t>> \notin DOMAIN files
  /\ db' = d /\ table' = t
  /\ UNCHANGED <<catalog, storage, at, list, added, id, serial, history>>


\* TableSpace::delete_table
DropFile(d, t) ==
  /\ at = "idle" /\ <<d, t>> \in DOMAIN files
  /\ files' = [q \in DOMAIN files \ {<<d, t>>} |-> files[q]]
  /\ made' = Unmade(d, t) /\ left' = left \ {<<d, t>>}
  /\ at' = "delete" /\ db' = d /\ table' = t
  /\ UNCHANGED <<catalog, dirs, list, added, id, serial, gone>>

\* SchemaChecker::delete_table knows no such table: the answer is an error
DeleteTableFails ==
  /\ at = "delete" /\ ~\E i \in TableIds(db, table) : HasTable(db, table, i)
  /\ at' = "idle"
  /\ UNCHANGED <<catalog, storage, stmt, added, id, serial, history>>

\* mutant: the columns stay
DeleteColumnsNot ==
  /\ at = "delete"
  /\ \E i \in TableIds(db, table) : HasTable(db, table, i) /\ id' = i
  /\ at' = "row"
  /\ UNCHANGED <<catalog, storage, stmt, added, serial, history>>

\* delete_table: the rows of sys_columns
DeleteColumns ==
  /\ at = "delete"
  /\ \E i \in TableIds(db, table) :
       HasTable(db, table, i) /\ id' = i /\ columns' = columns \ ColumnsOf(i)
  /\ at' = "row"
  /\ UNCHANGED <<dbs, tables, storage, stmt, added, serial, history>>

\* delete_table: the row of sys_tables
DeleteTable ==
  /\ at = "row"
  /\ tables' = {t \in tables : ~(t.id = id /\ t.db \in DatabaseIds(db))}
  /\ gone' = gone \cup {<<db, table>>}
  /\ at' = "idle"
  /\ UNCHANGED <<dbs, columns, storage, stmt, added, id, serial, made, left>>

-----------------------------------------------------------------------------
(* DROP DATABASE.                                                           *)

DropDatabaseFails(d) ==
  /\ at = "idle" /\ ~\E i \in DatabaseIds(d) : HasDatabase(d, i)
  /\ db' = d
  /\ UNCHANGED <<catalog, storage, at, table, list, added, id, serial, history>>

\* TableSpace::delete_database: the command is "rm -rf" with the path right
\* behind it, which removes nothing; its result is not looked at
DropDatabase(d) ==
  /\ at = "idle" /\ \E i \in DatabaseIds(d) : HasDatabase(d, i)
  /\ at' = "tables" /\ db' = d
  /\ made' = {m \in made : m.db # d}
  /\ gone' = {g \in gone : g[1] # d}
  /\ left' = left \cup {p \in DOMAIN files : p[1] = d}
  /\ UNCHANGED <<catalog, storage, table, list, added, id, serial>>

\* SchemaChecker::delete_database, for each table: its columns, its row
DeleteColumnsOfNext ==
  /\ at = "tables"
  /\ \E t \in TablesOf(db) :
       HasTable(db, t.name, t.id) /\ id' = t.id /\ table' = t.name /\ columns' = columns \ ColumnsOf(t.id)
  /\ at' = "tableRow"
  /\ UNCHANGED <<dbs, tables, storage, db, list, added, serial, history>>

DeleteTableOfNext ==
  /\ at = "tableRow"
  /\ tables' = {t \in tables : ~(t.id = id /\ t.db \in DatabaseIds(db))}
  /\ at' = "tables"
  /\ UNCHANGED <<dbs, columns, storage, stmt, added, id, serial, history>>

\* mutant: the database goes before its tables
DeleteDatabaseFirst ==
  /\ at = "tables"
  /\ dbs' = {r \in dbs : r.id \notin DatabaseIds(db)}
  /\ at' = "idle"
  /\ UNCHANGED <<tables, columns, storage, stmt, added, id, serial, history>>

\* and at last the row of the database
DeleteDatabase ==
  /\ at = "tables" /\ TablesOf(db) = {}
  /\ dbs' = {r \in dbs : r.id \notin DatabaseIds(db)}
  /\ at' = "idle"
  /\ UNCHANGED <<tables, columns, storage, stmt, added, id, serial, history>>

-----------------------------------------------------------------------------
\* A SELECT opens the table's file, and so makes one that is missing
Select(d, t) ==
  /\ at = "idle" /\ Resolves(d, t) /\ CanOpen(d, t)
  /\ files' = Opened(<<d, t>>)
  /\ UNCHANGED <<catalog, dirs, at, stmt, added, id, serial, history>>

\* An INSERT also puts a row into it
Insert(d, t) ==
  /\ at = "idle" /\ Resolves(d, t) /\ CanOpen(d, t)
  /\ \E r \in TablesOf(d) :
       /\ r.name = t
       /\ files' = [Opened(<<d, t>>) EXCEPT ![<<d, t>>] = @ \cup {r.serial}]
  /\ UNCHANGED <<catalog, dirs, at, stmt, added, id, serial, history>>

\* The process dies between two steps of a statement
Crash ==
  /\ at # "idle" /\ at' = "idle"
  /\ UNCHANGED <<catalog, storage, stmt, added, id, serial, history>>

-----------------------------------------------------------------------------
(* What SHOW, DESC and USE tell a session; they change no table.            *)

\* get_name_from_result
Names(rows) == {r.name : r \in rows}

\* SHOW DATABASES
ShownDatabases == Names(dbs)

\* SHOW TABLES, of a database that is not there too: nothing
ShownTables(d) == Names(TablesOf(d))

\* USE and COM_INIT_DB, accepted
MayUse(d) == \E i \in DatabaseIds(d) : HasDatabase(d, i)

\* desc_table: the columns of every table of the name
DescRows(d, t) == UNION {ColumnsOf(i) : i \in TableIds(d, t)}

\* get_columns_from_result: no column is an error
Described(d, t) == DescRows(d, t) # {}

\* DESC: the columns in the order of their ids
Describes(d, t, l) ==
  /\ Described(d, t)
  /\ {c.pos : c \in DescRows(d, t)} = {l[k] : k \in DOMAIN l}
  /\ \A j, k \in DOMAIN l : j < k => l[j] < l[k]

-----------------------------------------------------------------------------

Next ==
  \/ \E d \in DbName : CreateDatabase(d) \/ DropDatabaseFails(d) \/ DropDatabase(d)
  \/ AddDatabase
  \/ \E d \in DbName, t \in TableName :
       \/ CreateTableFails(d, t) \/ DropTableFails(d, t) \/ DropFile(d, t)
       \/ Select(d, t) \/ Insert(d, t)
       \/ \E l \in Lists : AddTable(d, t, l)
  \/ AddColumn \/ CreateFile
  \/ DeleteTableFails \/ DeleteColumns \/ DeleteTable
  \/ DeleteColumnsOfNext \/ DeleteTableOfNext \/ DeleteDatabase
  \/ Crash

Spec == Init /\ [][Next]_vars

-----------------------------------------------------------------------------
\* A name and an id stand for one database, or one table of a database,
\* whatever was created, dropped or interrupted before: with two rows of a
\* name get_id_from_result finds none, and nobody reaches the table any more.
NamesAndIdsUnique ==
  /\ \A r, s \in dbs : (r.id = s.id \/ r.name = s.name) => r = s
  /\ \A r, s \in tables : (r.id = s.id \/ (r.db = s.db /\ r.name = s.name)) => r = s

\* Ids are given out again after a DROP.  Whatever was interrupted, nothing
\* of the former owner of an id is left to be taken over: no column for a new
\* table, no table for a new database.
NothingInherited ==
  /\ \A c \in columns : \E t \in tables : t.id = c.table /\ t.serial = c.serial
  /\ \A t \in tables : \E r \in dbs : r.id = t.db /\ r.serial = t.home

\* A table holds only rows inserted since it was created, also when a DROP of
\* its predecessor was interrupted.  Not so of the files DROP DATABASE leaves:
\* a table made later under the same name has the rows of the old one.
RowsOfOwnTable ==
  \A t \in tables, r \in dbs :
    (t.db = r.id /\ <<r.name, t.name>> \in DOMAIN files \ left) =>
      files[<<r.name, t.name>>] \subseteq {t.serial}

\* What was answered stays true until a statement on the same table begins,
\* through everything done or interrupted elsewhere, and SHOW, DESC and USE
\* tell every session so: a table reported as made is listed, described by
\* its columns, found under one id and has its file; one reported as dropped
\* is neither listed nor described, and no file is left of it.
AnswersKept ==
  /\ \A m \in made :
       /\ m.db \in ShownDatabases /\ MayUse(m.db)
       /\ m.table \in ShownTables(m.db) /\ Describes(m.db, m.table, m.list)
       /\ \E i \in TableIds(m.db, m.table) : HasTable(m.db, m.table, i)
       /\ <<m.db, m.table>> \in DOMAIN files
  /\ \A g \in gone :
       g[2] \notin ShownTables(g[1]) /\ ~Described(g[1], g[2]) /\ g \notin DOMAIN files
=============================================================================
