---------------------------- MODULE CatalogProofs ----------------------------
(***************************************************************************)
(* Names and ids stay unique, nothing is inherited through an id that is   *)
(* given out again, and a table has only rows of its own, for any names    *)
(* and column lists and any number of crashes.                             *)
(***************************************************************************)
EXTENDS Catalog, TLAPS

\* Ids are numbers, and a file has a database and a table
Shapes ==
  /\ \A r \in dbs : r.id \in Nat
  /\ \A t \in tables : t.id \in Nat
  /\ files = [p \in DOMAIN files |-> files[p]]
  /\ \A p \in DOMAIN files : p = <<p[1], p[2]>>

\* Table t is the one a statement on <<d, n>> means
Means(t, d, n) == t.name = n /\ \E r \in dbs : r.name = d /\ r.id = t.db

\* Where a statement is says what it has done: the table whose columns are
\* being added is the last one made, a table that goes has lost its columns
\* and its file, and a database that goes leaves its files behind.
Underway ==
  /\ at = "columns" =>
       \E t \in tables : t.id = id /\ t.serial = serial /\ Means(t, db, table)
  /\ at \in {"row", "tableRow"} => ColumnsOf(id) = {}
  /\ at \in {"delete", "row"} => <<db, table>> \notin DOMAIN files
  /\ at = "row" => \A t \in tables : t.id = id => Means(t, db, table)
  /\ at \in {"tables", "tableRow"} => \A p \in DOMAIN files : p[1] = db => p \in left

\* Every file that was not left behind is that of a table, and has only its rows
FilesOwned ==
  \A p \in DOMAIN files : p \notin left =>
    \E t \in tables : Means(t, p[1], p[2]) /\ files[p] \subseteq {t.serial}

IInv == Shapes /\ NamesAndIdsUnique /\ NothingInherited /\ Underway /\ FilesOwned

-----------------------------------------------------------------------------
LEMMA InitOK == Init => IInv
  BY DEF Init, IInv, Shapes, NamesAndIdsUnique, NothingInherited, Underway, FilesOwned

\* Uniqueness makes a name in the catalog one that is found.
LEMMA Found ==
  ASSUME NamesAndIdsUnique
  PROVE  /\ \A r \in dbs : HasDatabase(r.name, r.id)
         /\ \A r \in dbs, t \in tables : t.db = r.id => HasTable(r.name, t.name, t.id)
<1>1. \A r \in dbs : DatabaseIds(r.name) = {r.id}
  BY DEF DatabaseIds, NamesAndIdsUnique
<1>2. ASSUME NEW r \in dbs, NEW t \in tables, t.db = r.id
      PROVE  TableIds(r.name, t.name) = {t.id}
  <2>1. t \in TablesOf(r.name)
    BY <1>1, <1>2 DEF TablesOf
  <2>2. ASSUME NEW u \in TablesOf(r.name), u.name = t.name PROVE u = t
    BY <1>1, <1>2, <2>2 DEF TablesOf, NamesAndIdsUnique
  <2> QED BY <2>1, <2>2 DEF TableIds
<1> QED BY <1>1, <1>2 DEF HasDatabase, HasTable

LEMMA AddDatabaseOK == ASSUME IInv, AddDatabase PROVE IInv'
<1> USE DEF IInv
<1>1. CASE dbs' = dbs
  BY <1>1 DEF AddDatabase, Shapes, NamesAndIdsUnique, NothingInherited, Underway,
     FilesOwned, Means, ColumnsOf, storage, stmt, history
<1>2. CASE dbs' # dbs
  <2>1. PICK last \in {0} \cup {r.id : r \in dbs} :
          /\ IsLastId(dbs, last)
          /\ dbs' = dbs \cup {[id |-> last + 1, name |-> db, serial |-> serial + 1]}
    BY <1>2 DEF AddDatabase
  <2>2. ~\E i \in DatabaseIds(db) : HasDatabase(db, i)
    BY <1>2 DEF AddDatabase
  <2>3. /\ UNCHANGED <<tables, columns, files, db, table, left>>
        /\ at' = "idle"
    BY DEF AddDatabase, storage, stmt, history
  <2>4. \A r \in dbs : r.name # db
    <3> SUFFICES ASSUME NEW r \in dbs, r.name = db PROVE FALSE
      OBVIOUS
    <3>1. HasDatabase(db, r.id)
      BY Found
    <3> QED BY <2>2, <3>1 DEF HasDatabase
  <2>5. last \in Nat /\ \A r \in dbs : r.id \in Nat /\ r.id <= last
    BY <2>1 DEF Shapes, IsLastId
  <2> DEFINE new == [id |-> last + 1, name |-> db, serial |-> serial + 1]
  <2>6. /\ dbs' = dbs \cup {new} /\ new.id = last + 1 /\ new.name = db
        /\ new.id \in Nat /\ \A r \in dbs : r.id # new.id /\ r.name # new.name
    BY <2>1, <2>4, <2>5
  <2> HIDE DEF new
  <2>7. Shapes'
    BY <2>3, <2>6 DEF Shapes
  <2>8. NamesAndIdsUnique'
    BY <2>3, <2>6 DEF NamesAndIdsUnique
  <2>9. NothingInherited'
    BY <2>3, <2>6 DEF NothingInherited
  <2>10. Underway'
    BY <2>3 DEF Underway
  <2>11. FilesOwned'
    BY <2>3, <2>6 DEF FilesOwned, Means
  <2> QED BY <2>7, <2>8, <2>9, <2>10, <2>11
<1> QED BY <1>1, <1>2

LEMMA AddTableOK ==
  ASSUME IInv, NEW d \in DbName, NEW n \in TableName, NEW l \in Lists, AddTable(d, n, l)
  PROVE  IInv'
<1> USE DEF IInv
<1>1. PICK i \in DatabaseIds(d), last \in {0} \cup {r.id : r \in tables}, r \in dbs :
        /\ HasDatabase(d, i) /\ IsLastId(tables, last) /\ r.id = i
        /\ tables' = tables \cup
             {[id |-> last + 1, name |-> n, db |-> i, serial |-> serial + 1, home |-> r.serial]}
        /\ id' = last + 1
  BY DEF AddTable
<1>2. /\ UNCHANGED <<dbs, columns, files, left>>
      /\ at' = "columns" /\ db' = d /\ table' = n /\ serial' = serial + 1
      /\ ~\E k \in TableIds(d, n) : HasTable(d, n, k)
  BY DEF AddTable, storage
<1>3. r.name = d
  BY <1>1 DEF DatabaseIds, NamesAndIdsUnique
<1>4. \A t \in tables : ~(t.db = i /\ t.name = n)
  <2> SUFFICES ASSUME NEW t \in tables, t.db = i, t.name = n PROVE FALSE
    OBVIOUS
  <2>1. HasTable(d, n, t.id)
    BY Found, <1>1, <1>3
  <2> QED BY <1>2, <2>1 DEF HasTable
<1>5. last \in Nat /\ \A t \in tables : t.id \in Nat /\ t.id <= last
  BY <1>1 DEF Shapes, IsLastId
<1> DEFINE new == [id |-> last + 1, name |-> n, db |-> i, serial |-> serial + 1,
                   home |-> r.serial]
<1>6. /\ tables' = tables \cup {new} /\ new.id = last + 1 /\ new.id \in Nat
      /\ new.name = n /\ new.db = i /\ new.serial = serial + 1 /\ new.home = r.serial
      /\ \A t \in tables : t.id # new.id /\ ~(t.db = new.db /\ t.name = new.name)
  BY <1>1, <1>4, <1>5
<1> HIDE DEF new
<1>7. Shapes'
  BY <1>2, <1>6 DEF Shapes
<1>8. NamesAndIdsUnique'
  BY <1>2, <1>6 DEF NamesAndIdsUnique
<1>9. NothingInherited'
  BY <1>1, <1>2, <1>6 DEF NothingInherited
<1>10. Underway'
  BY <1>1, <1>2, <1>3, <1>6 DEF Underway, Means
<1>11. FilesOwned'
  BY <1>2, <1>6 DEF FilesOwned, Means
<1> QED BY <1>7, <1>8, <1>9, <1>10, <1>11

LEMMA AddColumnOK == ASSUME IInv, AddColumn PROVE IInv'
<1> USE DEF IInv
<1>1. /\ at = "columns" /\ UNCHANGED <<dbs, tables, files, at, db, table, id, serial, left>>
      /\ columns' = columns \cup {[table |-> id, pos |-> list[added + 1], serial |-> serial]}
  BY DEF AddColumn, storage, stmt, history
<1>2. NothingInherited'
  BY <1>1 DEF NothingInherited, Underway
<1> QED
  BY <1>1, <1>2 DEF Shapes, NamesAndIdsUnique, Underway, FilesOwned, Means

\* Opening the file of a table leaves every file with its owner.
LEMMA OpenOK ==
  ASSUME IInv, NEW t \in tables, NEW d, NEW n, Means(t, d, n)
  PROVE  /\ DOMAIN Opened(<<d, n>>) = DOMAIN files \cup {<<d, n>>}
         /\ \A p \in DOMAIN Opened(<<d, n>>) : p \notin left =>
              \E u \in tables : Means(u, p[1], p[2]) /\ Opened(<<d, n>>)[p] \subseteq {u.serial}
<1>1. \A p \in DOMAIN files : Opened(<<d, n>>)[p] = files[p]
  BY DEF Opened
<1>2. <<d, n>> \notin DOMAIN files => Opened(<<d, n>>)[<<d, n>>] = {}
  BY DEF Opened
<1>3. DOMAIN Opened(<<d, n>>) = DOMAIN files \cup {<<d, n>>}
  BY DEF Opened
<1> QED BY <1>1, <1>2, <1>3 DEF IInv, FilesOwned

LEMMA CreateFileOK == ASSUME IInv, CreateFile PROVE IInv'
<1>1. PICK t \in tables : Means(t, db, table)
  BY DEF IInv, Underway, CreateFile
<1>2. UNCHANGED <<dbs, tables, columns, id, left>> /\ at' = "idle"
  BY DEF CreateFile, catalog, stmt
<1>3. files' = files \/ files' = Opened(<<db, table>>)
  BY DEF CreateFile
<1>4. FilesOwned'
  <2>1. CASE files' = files
    BY <1>2, <2>1 DEF IInv, FilesOwned, Means
  <2>2. CASE files' = Opened(<<db, table>>)
    BY <1>1, <1>2, <2>2, OpenOK, ZenonT(40) DEF FilesOwned, Means
  <2> QED BY <1>3, <2>1, <2>2
<1>5. Shapes'
  BY <1>2, <1>3 DEF IInv, Shapes, Opened
<1> QED
  BY <1>2, <1>4, <1>5 DEF IInv, NamesAndIdsUnique, NothingInherited, Underway

LEMMA DropFileOK ==
  ASSUME IInv, NEW d \in DbName, NEW n \in TableName, DropFile(d, n) PROVE IInv'
<1>1. /\ UNCHANGED <<dbs, tables, columns, id>> /\ at' = "delete" /\ db' = d /\ table' = n
      /\ files' = [q \in DOMAIN files \ {<<d, n>>} |-> files[q]]
      /\ left' = left \ {<<d, n>>}
  BY DEF DropFile, catalog
<1>2. FilesOwned'
  BY <1>1 DEF IInv, FilesOwned, Means
<1> QED
  BY <1>1, <1>2 DEF IInv, Shapes, NamesAndIdsUnique, NothingInherited, Underway

LEMMA DeleteColumnsOK == ASSUME IInv, DeleteColumns PROVE IInv'
<1> USE DEF IInv
<1>1. PICK i \in TableIds(db, table) : id' = i /\ columns' = columns \ ColumnsOf(i)
  BY DEF DeleteColumns
<1>2. /\ at = "delete" /\ at' = "row"
      /\ UNCHANGED <<dbs, tables, files, db, table, serial, left>>
  BY DEF DeleteColumns, storage, stmt, history
<1>3. PICK t \in tables : t.id = i /\ t.name = table /\ t.db \in DatabaseIds(db)
  BY <1>1 DEF TableIds, TablesOf
<1>4. Means(t, db, table)
  BY <1>3 DEF Means, DatabaseIds
<1>5. \A u \in tables : u.id = i => u = t
  BY <1>3 DEF NamesAndIdsUnique
<1>6. Underway'
  BY <1>1, <1>2, <1>4, <1>5 DEF Underway, Means, ColumnsOf
<1> QED
  BY <1>1, <1>2, <1>6 DEF Shapes, NamesAndIdsUnique, NothingInherited, FilesOwned, Means

\* A table that goes has no columns, and no file but one left behind.
LEMMA TableGoesOK ==
  ASSUME IInv, UNCHANGED <<dbs, columns, files, left>>,
         tables' = {t \in tables : ~(t.id = id /\ t.db \in DatabaseIds(db))},
         ColumnsOf(id) = {},
         \A t \in tables : (t.id = id /\ t.db \in DatabaseIds(db)) =>
           \A p \in DOMAIN files : Means(t, p[1], p[2]) => p \in left
  PROVE  Shapes' /\ NamesAndIdsUnique' /\ NothingInherited' /\ FilesOwned'
<1> USE DEF IInv
<1>1. NothingInherited'
  <2>1. \A c \in columns : c.table # id
    BY DEF ColumnsOf
  <2> QED BY <2>1 DEF NothingInherited
<1>2. FilesOwned'
  BY DEF FilesOwned, Means
<1>3. Shapes' /\ NamesAndIdsUnique'
  BY DEF Shapes, NamesAndIdsUnique
<1> QED BY <1>1, <1>2, <1>3

LEMMA DeleteTableOK == ASSUME IInv, DeleteTable PROVE IInv'
<1>1. /\ at = "row" /\ at' = "idle" /\ UNCHANGED <<dbs, columns, files, left>>
      /\ tables' = {t \in tables : ~(t.id = id /\ t.db \in DatabaseIds(db))}
  BY DEF DeleteTable, storage
<1>2. ASSUME NEW t \in tables, t.id = id, NEW p \in DOMAIN files, Means(t, p[1], p[2])
      PROVE  p \in left
  <2>1. SUFFICES ASSUME p \notin left PROVE FALSE
    OBVIOUS
  <2>2. PICK u \in tables : Means(u, p[1], p[2])
    BY <2>1 DEF IInv, FilesOwned
  <2>3. Means(t, db, table)
    BY <1>1, <1>2 DEF IInv, Underway
  <2>4. p[1] = db /\ p[2] = table
    BY <1>2, <2>3 DEF Means, IInv, NamesAndIdsUnique
  <2>5. p = <<db, table>>
    BY <2>4 DEF IInv, Shapes
  <2> QED BY <1>1, <2>5 DEF IInv, Underway
<1>3. ColumnsOf(id) = {}
  BY <1>1 DEF IInv, Underway
<1>4. Shapes' /\ NamesAndIdsUnique' /\ NothingInherited' /\ FilesOwned'
  BY <1>1, <1>2, <1>3, TableGoesOK
<1> QED BY <1>1, <1>4 DEF IInv, Underway

LEMMA DropDatabaseOK == ASSUME IInv, NEW d \in DbName, DropDatabase(d) PROVE IInv'
<1>1. /\ UNCHANGED <<dbs, tables, columns, files, id>> /\ at' = "tables" /\ db' = d
      /\ left' = left \cup {p \in DOMAIN files : p[1] = d}
  BY DEF DropDatabase, catalog, storage
<1> QED
  BY <1>1 DEF IInv, Shapes, NamesAndIdsUnique, NothingInherited, Underway, FilesOwned, Means

LEMMA DeleteColumnsOfNextOK == ASSUME IInv, DeleteColumnsOfNext PROVE IInv'
<1>1. /\ at = "tables" /\ at' = "tableRow" /\ UNCHANGED <<dbs, tables, files, db, left>>
      /\ \E t \in tables : id' = t.id /\ columns' = columns \ ColumnsOf(t.id)
  BY DEF DeleteColumnsOfNext, storage, history, TablesOf
<1> QED
  BY <1>1 DEF IInv, Shapes, NamesAndIdsUnique, NothingInherited, Underway, FilesOwned,
     Means, ColumnsOf

LEMMA DeleteTableOfNextOK == ASSUME IInv, DeleteTableOfNext PROVE IInv'
<1>1. /\ at = "tableRow" /\ at' = "tables" /\ UNCHANGED <<dbs, columns, files, db, left>>
      /\ tables' = {t \in tables : ~(t.id = id /\ t.db \in DatabaseIds(db))}
  BY DEF DeleteTableOfNext, storage, stmt, history
<1>2. ASSUME NEW t \in tables, t.db \in DatabaseIds(db),
             NEW p \in DOMAIN files, Means(t, p[1], p[2])
      PROVE  p \in left
  <2>1. p[1] = db
    BY <1>2 DEF Means, DatabaseIds, IInv, NamesAndIdsUnique
  <2> QED BY <1>1, <2>1 DEF IInv, Underway
<1>3. ColumnsOf(id) = {}
  BY <1>1 DEF IInv, Underway
<1>4. Shapes' /\ NamesAndIdsUnique' /\ NothingInherited' /\ FilesOwned'
  BY <1>1, <1>2, <1>3, TableGoesOK
<1> QED BY <1>1, <1>4 DEF IInv, Underway

LEMMA DeleteDatabaseOK == ASSUME IInv, DeleteDatabase PROVE IInv'
<1> USE DEF IInv
<1>1. /\ at = "tables" /\ at' = "idle" /\ UNCHANGED <<tables, columns, files, left>>
      /\ TablesOf(db) = {} /\ dbs' = {r \in dbs : r.id \notin DatabaseIds(db)}
  BY DEF DeleteDatabase, storage, history
<1>2. \A t \in tables : t.db \notin DatabaseIds(db)
  BY <1>1 DEF TablesOf
<1>3. NothingInherited'
  BY <1>1, <1>2 DEF NothingInherited
<1>4. FilesOwned'
  BY <1>1, <1>2 DEF FilesOwned, Means
<1> QED BY <1>1, <1>3, <1>4 DEF Shapes, NamesAndIdsUnique, Underway

LEMMA InsertOK ==
  ASSUME IInv, NEW d \in DbName, NEW n \in TableName, Insert(d, n) PROVE IInv'
<1>1. PICK t \in TablesOf(d) :
        /\ t.name = n
        /\ files' = [Opened(<<d, n>>) EXCEPT ![<<d, n>>] = @ \cup {t.serial}]
  BY DEF Insert
<1>2. at = "idle" /\ UNCHANGED <<dbs, tables, columns, at, id, left>>
  BY DEF Insert, catalog, history
<1>3. t \in tables /\ Means(t, d, n)
  BY <1>1 DEF TablesOf, Means, DatabaseIds
<1>4. /\ DOMAIN files' = DOMAIN Opened(<<d, n>>)
      /\ \A p \in DOMAIN files' : p # <<d, n>> => files'[p] = Opened(<<d, n>>)[p]
      /\ files'[<<d, n>>] = Opened(<<d, n>>)[<<d, n>>] \cup {t.serial}
  <2>1. Opened(<<d, n>>) = [p \in DOMAIN Opened(<<d, n>>) |-> Opened(<<d, n>>)[p]]
    BY DEF Opened
  <2>2. <<d, n>> \in DOMAIN Opened(<<d, n>>)
    BY DEF Opened
  <2> DEFINE o == Opened(<<d, n>>)
  <2> HIDE DEF o
  <2>3. /\ o = [p \in DOMAIN o |-> o[p]] /\ <<d, n>> \in DOMAIN o
        /\ files' = [o EXCEPT ![<<d, n>>] = @ \cup {t.serial}]
    BY <1>1, <2>1, <2>2 DEF o
  <2>4. /\ DOMAIN files' = DOMAIN o
        /\ \A p \in DOMAIN files' : p # <<d, n>> => files'[p] = o[p]
        /\ files'[<<d, n>>] = o[<<d, n>>] \cup {t.serial}
    BY <2>3
  <2> QED BY <2>4 DEF o
<1>5. \A u \in tables : Means(u, d, n) => u = t
  BY <1>3 DEF Means, IInv, NamesAndIdsUnique
<1>6. FilesOwned'
  <2> SUFFICES ASSUME NEW p \in DOMAIN files', p \notin left
               PROVE  \E u \in tables : Means(u, p[1], p[2]) /\ files'[p] \subseteq {u.serial}
    BY <1>2 DEF FilesOwned, Means
  <2>1. PICK u \in tables :
          Means(u, p[1], p[2]) /\ Opened(<<d, n>>)[p] \subseteq {u.serial}
    BY <1>3, <1>4, OpenOK
  <2>2. CASE p = <<d, n>>
    BY <1>4, <1>5, <2>1, <2>2
  <2>3. CASE p # <<d, n>>
    BY <1>4, <2>1, <2>3
  <2> QED BY <2>2, <2>3
<1>7. Shapes'
  <2>1. files' = [p \in DOMAIN files' |-> files'[p]]
    BY <1>1
  <2>2. \A p \in DOMAIN files' : p = <<p[1], p[2]>>
    <3>1. DOMAIN files' = DOMAIN files \cup {<<d, n>>}
      BY <1>3, <1>4, OpenOK
    <3> QED BY <3>1 DEF IInv, Shapes
  <2> QED BY <1>2, <2>1, <2>2 DEF IInv, Shapes
<1> QED
  BY <1>2, <1>6, <1>7 DEF IInv, NamesAndIdsUnique, NothingInherited, Underway

LEMMA SelectOK ==
  ASSUME IInv, NEW d \in DbName, NEW n \in TableName, Select(d, n) PROVE IInv'
<1>1. PICK i \in TableIds(d, n) : TRUE
  BY DEF Select, Resolves
<1>2. PICK t \in tables : Means(t, d, n)
  BY <1>1 DEF TableIds, TablesOf, DatabaseIds, Means
<1>3. /\ at = "idle" /\ UNCHANGED <<dbs, tables, columns, at, id, left>>
      /\ files' = Opened(<<d, n>>)
  BY DEF Select, catalog, history
<1>4. FilesOwned'
  BY <1>2, <1>3, OpenOK, ZenonT(40) DEF FilesOwned, Means
<1>5. Shapes'
  BY <1>3 DEF IInv, Shapes, Opened
<1> QED
  BY <1>3, <1>4, <1>5 DEF IInv, NamesAndIdsUnique, NothingInherited, Underway

\* The other steps change nothing the invariant speaks of but where the
\* statement is.
LEMMA RestOK ==
  ASSUME IInv, UNCHANGED <<catalog, files, left>>, at' \in {"idle", "add"}
  PROVE  IInv'
  BY DEF IInv, catalog, Shapes, NamesAndIdsUnique, NothingInherited, Underway, FilesOwned,
     Means

LEMMA NextOK == ASSUME IInv, [Next]_vars PROVE IInv'
<1>1. ASSUME NEW d \in DbName,
             CreateDatabase(d) \/ DropDatabaseFails(d) \/ DropDatabase(d)
      PROVE  IInv'
  BY <1>1, RestOK, DropDatabaseOK DEF CreateDatabase, DropDatabaseFails, storage, history
<1>2. ASSUME NEW d \in DbName, NEW t \in TableName,
             \/ CreateTableFails(d, t) \/ DropTableFails(d, t) \/ DropFile(d, t)
             \/ Select(d, t) \/ Insert(d, t) \/ \E l \in Lists : AddTable(d, t, l)
      PROVE  IInv'
  BY <1>2, RestOK, DropFileOK, SelectOK, InsertOK, AddTableOK
     DEF CreateTableFails, DropTableFails, storage, history
<1>3. CASE DeleteTableFails \/ Crash
  BY <1>3, RestOK DEF DeleteTableFails, Crash, storage, history
<1>4. CASE AddDatabase \/ AddColumn \/ CreateFile \/ DeleteColumns \/ DeleteTable
           \/ DeleteColumnsOfNext \/ DeleteTableOfNext \/ DeleteDatabase
  BY <1>4, AddDatabaseOK, AddColumnOK, CreateFileOK, DeleteColumnsOK, DeleteTableOK,
     DeleteColumnsOfNextOK, DeleteTableOfNextOK, DeleteDatabaseOK
<1>5. CASE UNCHANGED vars
  BY <1>5 DEF vars, catalog, storage, stmt, history, IInv, Shapes, NamesAndIdsUnique,
     NothingInherited, Underway, FilesOwned, Means, ColumnsOf
<1> QED BY <1>1, <1>2, <1>3, <1>4, <1>5 DEF Next

-----------------------------------------------------------------------------
\* The catalog and the files keep the invariant through every statement and
\* every crash.
THEOREM Inductive == Spec => []IInv
<1>1. Init => IInv
  BY InitOK
<1>2. IInv /\ [Next]_vars => IInv'
  BY NextOK
<1> QED BY <1>1, <1>2, PTL DEF Spec

\* A name and an id stand for one database or table.
THEOREM Unique == Spec => []NamesAndIdsUnique
<1>1. IInv => NamesAndIdsUnique
  BY DEF IInv
<1> QED BY <1>1, Inductive, PTL

\* Nothing of the former owner of an id is taken over.
THEOREM NoHeritage == Spec => []NothingInherited
<1>1. IInv => NothingInherited
  BY DEF IInv
<1> QED BY <1>1, Inductive, PTL

\* A table holds only rows inserted since it was created.
THEOREM OwnRows == Spec => []RowsOfOwnTable
<1>1. ASSUME IInv PROVE RowsOfOwnTable
  <2> SUFFICES ASSUME NEW t \in tables, NEW r \in dbs, t.db = r.id,
                      <<r.name, t.name>> \in DOMAIN files \ left
               PROVE  files[<<r.name, t.name>>] \subseteq {t.serial}
    BY DEF RowsOfOwnTable
  <2>1. PICK u \in tables : /\ Means(u, r.name, t.name)
                            /\ files[<<r.name, t.name>>] \subseteq {u.serial}
    BY <1>1 DEF IInv, FilesOwned
  <2>2. u = t
    BY <1>1, <2>1 DEF IInv, NamesAndIdsUnique, Means
  <2> QED BY <2>1, <2>2
<1> QED BY <1>1, Inductive, PTL

-----------------------------------------------------------------------------
(* What was answered.                                                       *)

Positions(i) == {c.pos : c \in ColumnsOf(i)}
Listed(l, n) == {l[k] : k \in 1 .. n}

\* The table that was reported as made, or not there any more
Kept ==
  /\ \A m \in made :
       /\ m.list \in Lists
       /\ \E t \in tables : /\ Means(t, m.db, m.table)
                            /\ Positions(t.id) = Listed(m.list, Len(m.list))
       /\ <<m.db, m.table>> \in DOMAIN files
  /\ \A g \in gone : /\ g = <<g[1], g[2]>> /\ g \notin DOMAIN files
                     /\ \A t \in tables : ~Means(t, g[1], g[2])

\* Nothing is promised of what a statement is about to change, and a table
\* that is being made has the columns added so far
Changing ==
  /\ at \in {"columns", "delete", "row"} => \A m \in made : ~(m.db = db /\ m.table = table)
  /\ at = "columns" => /\ <<db, table>> \notin gone
                       /\ list \in Lists /\ added \in 0 .. Len(list)
                       /\ Positions(id) = Listed(list, added)
  /\ at = "row" => \A t \in tables : Means(t, db, table) => t.id = id
  /\ at \in {"tables", "tableRow"} => /\ \A m \in made : m.db # db
                                      /\ \A g \in gone : g[1] # db

AInv == IInv /\ Kept /\ Changing

LEMMA InitKept == Init => Kept /\ Changing
  BY DEF Init, Kept, Changing

\* Two tables that statements mean by the same name are one
LEMMA OneMeant ==
  ASSUME IInv
  PROVE  /\ \A t, u \in tables : \A d, n : Means(t, d, n) /\ Means(u, d, n) => t = u
         /\ \A t \in tables : \A d, n, e, m : Means(t, d, n) /\ Means(t, e, m) => d = e /\ n = m
         /\ \A t, u \in tables : t.id = u.id => t = u
         /\ \A t \in tables : \A d : (t.db \in DatabaseIds(d)) <=> Means(t, d, t.name)
BY DEF IInv, NamesAndIdsUnique, Means, DatabaseIds

LEMMA RestKept ==
  ASSUME AInv, UNCHANGED <<dbs, tables, columns, files, made, gone>>, at' \in {"idle", "add"}
  PROVE  Kept' /\ Changing'
  BY DEF AInv, Kept, Changing, Means, Positions, ColumnsOf

LEMMA AddDatabaseKept == ASSUME AInv, AddDatabase PROVE Kept' /\ Changing'
<1>1. /\ UNCHANGED <<tables, columns, files, made, gone>> /\ at' = "idle"
      /\ \A r \in dbs : r \in dbs'
  BY DEF AddDatabase, storage, history
<1>2. IInv /\ IInv'
  BY AddDatabaseOK DEF AInv
<1>3. ASSUME NEW t \in tables, NEW d, NEW n PROVE Means(t, d, n)' <=> Means(t, d, n)
  <2>1. PICK r \in dbs : r.id = t.db
    BY <1>2 DEF IInv, NothingInherited
  <2>2. \A s \in dbs' : s.id = t.db => s = r
    BY <1>1, <1>2, <2>1 DEF IInv, NamesAndIdsUnique
  <2> QED BY <1>1, <2>1, <2>2 DEF Means
<1> QED BY <1>1, <1>3 DEF AInv, Kept, Changing, Positions, ColumnsOf

LEMMA AddTableKept ==
  ASSUME AInv, NEW d \in DbName, NEW n \in TableName, NEW l \in Lists, AddTable(d, n, l)
  PROVE  Kept' /\ Changing'
<1>1. PICK i \in DatabaseIds(d), last \in {0} \cup {r.id : r \in tables}, r \in dbs :
        /\ HasDatabase(d, i) /\ IsLastId(tables, last) /\ r.id = i
        /\ tables' = tables \cup
             {[id |-> last + 1, name |-> n, db |-> i, serial |-> serial + 1, home |-> r.serial]}
        /\ id' = last + 1
  BY DEF AddTable
<1>2. /\ UNCHANGED <<dbs, columns, files, made>>
      /\ at' = "columns" /\ db' = d /\ table' = n /\ list' = l /\ added' = 0
      /\ gone' = gone \ {<<d, n>>}
      /\ ~\E k \in TableIds(d, n) : HasTable(d, n, k)
  BY DEF AddTable, storage
<1>3. IInv /\ IInv'
  BY AddTableOK DEF AInv
<1> DEFINE new == [id |-> last + 1, name |-> n, db |-> i, serial |-> serial + 1,
                   home |-> r.serial]
<1>4. /\ tables' = tables \cup {new} /\ new.id = last + 1 /\ new.name = n /\ new.db = i
      /\ \A t \in tables : t.id # last + 1
  <2>1. last \in Nat /\ \A t \in tables : t.id \in Nat /\ t.id <= last
    BY <1>1, <1>3 DEF IInv, Shapes, IsLastId
  <2> QED BY <1>1, <2>1
<1> HIDE DEF new
<1>5. \A t, e, m : Means(t, e, m)' <=> Means(t, e, m)
  BY <1>2 DEF Means
<1>6. Means(new, d, n)
  <2>1. r.name = d
    BY <1>1, <1>3 DEF DatabaseIds, IInv, NamesAndIdsUnique
  <2> QED BY <1>1, <1>4, <2>1 DEF Means
<1>7. \A t \in tables : ~Means(t, d, n)
  <2> SUFFICES ASSUME NEW t \in tables, Means(t, d, n) PROVE FALSE
    OBVIOUS
  <2>1. HasTable(d, n, t.id)
    BY <1>3, Found DEF IInv, Means
  <2> QED BY <1>2, <2>1 DEF HasTable
<1>8. ColumnsOf(id') = {}
  BY <1>1, <1>3, <1>4 DEF ColumnsOf, IInv, NothingInherited
<1>9. Kept'
  <2>1. \A g \in gone' : ~Means(new, g[1], g[2])
    <3> SUFFICES ASSUME NEW g \in gone, g # <<d, n>>, Means(new, g[1], g[2]) PROVE FALSE
      BY <1>2
    <3>1. g[1] = d /\ g[2] = n
      BY <1>3, <1>6 DEF Means, IInv, NamesAndIdsUnique
    <3> QED BY <3>1 DEF AInv, Kept
  <2>2. \A t : Positions(t)' = Positions(t)
    BY <1>2 DEF Positions, ColumnsOf
  <2> QED BY <1>2, <1>4, <1>5, <2>1, <2>2 DEF AInv, Kept
<1>10. Changing'
  <2>1. \A m \in made : ~(m.db = d /\ m.table = n)
    BY <1>7 DEF AInv, Kept
  <2>2. Positions(id)' = {} /\ Listed(l, 0) = {} /\ 0 \in 0 .. Len(l)
    <3>1. Len(l) \in Nat
      BY ListsAssumption
    <3> QED BY <1>2, <1>8, <3>1 DEF Positions, ColumnsOf, Listed
  <2> QED BY <1>2, <2>1, <2>2 DEF Changing
<1> QED BY <1>9, <1>10

LEMMA AddColumnKept == ASSUME AInv, AddColumn PROVE Kept' /\ Changing'
<1>1. /\ at = "columns" /\ added < Len(list)
      /\ UNCHANGED <<dbs, tables, files, at, db, table, list, id, made, gone>>
      /\ columns' = columns \cup {[table |-> id, pos |-> list[added + 1], serial |-> serial]}
      /\ added' = added + 1
  BY DEF AddColumn, storage, stmt, history
<1>2. PICK u \in tables : u.id = id /\ Means(u, db, table)
  BY <1>1 DEF AInv, IInv, Underway
<1>3. /\ list \in Lists /\ added \in Nat /\ Len(list) \in Nat
      /\ Positions(id) = Listed(list, added)
      /\ \A m \in made : ~(m.db = db /\ m.table = table)
  <2>1. list \in Lists /\ added \in 0 .. Len(list)
    BY <1>1 DEF AInv, Changing
  <2>2. Len(list) \in Nat
    BY <2>1, ListsAssumption
  <2> QED BY <1>1, <2>1, <2>2 DEF AInv, Changing
<1>4. /\ \A i : i # id => Positions(i)' = Positions(i)
      /\ Positions(id)' = Positions(id) \cup {list[added + 1]}
  <2> DEFINE c == [table |-> id, pos |-> list[added + 1], serial |-> serial]
  <2>1. c.table = id /\ c.pos = list[added + 1] /\ columns' = columns \cup {c}
    BY <1>1
  <2> HIDE DEF c
  <2>2. /\ \A i : i # id => ColumnsOf(i)' = ColumnsOf(i)
        /\ ColumnsOf(id)' = ColumnsOf(id) \cup {c}
    BY <1>1, <2>1 DEF ColumnsOf
  <2> QED BY <1>1, <2>1, <2>2 DEF Positions
<1>5. Listed(list, added + 1) = Listed(list, added) \cup {list[added + 1]}
  <2>1. 1 .. added + 1 = (1 .. added) \cup {added + 1}
    BY <1>3
  <2> QED BY <2>1 DEF Listed
<1>6. \A t, e, m : Means(t, e, m)' <=> Means(t, e, m)
  BY <1>1 DEF Means
<1>7. ASSUME NEW m \in made, NEW t \in tables, Means(t, m.db, m.table)
      PROVE  Positions(t.id)' = Positions(t.id)
  <2>1. t.id # id
    BY <1>2, <1>3, <1>7, OneMeant DEF AInv
  <2> QED BY <1>4, <2>1
<1>8. Kept'
  BY <1>1, <1>6, <1>7 DEF AInv, Kept
<1>9. Changing'
  <2>1. added + 1 \in 0 .. Len(list)
    BY <1>1, <1>3
  <2> QED BY <1>1, <1>3, <1>4, <1>5, <2>1 DEF AInv, Changing
<1> QED BY <1>8, <1>9

\* A file is opened, and so made, only of a table that is not gone
LEMMA OpenKept ==
  ASSUME AInv, NEW d, NEW n, <<d, n>> \notin gone,
         UNCHANGED <<dbs, tables, columns, gone>>, at' = "idle",
         DOMAIN files' = DOMAIN files \cup {<<d, n>>},
         \A m \in made' : \/ m \in made
                          \/ /\ m.list \in Lists /\ m.db = d /\ m.table = n
                             /\ \E t \in tables : /\ Means(t, d, n)
                                                  /\ Positions(t.id) = Listed(m.list, Len(m.list))
  PROVE  Kept' /\ Changing'
<1>1. /\ \A t, e, m : Means(t, e, m)' <=> Means(t, e, m)
      /\ \A i : Positions(i)' = Positions(i)
  BY DEF Means, Positions, ColumnsOf
<1> QED BY <1>1 DEF AInv, Kept, Changing

LEMMA CreateFileKept == ASSUME AInv, CreateFile PROVE Kept' /\ Changing'
<1>1. /\ at = "columns" /\ added = Len(list) /\ at' = "idle"
      /\ UNCHANGED <<dbs, tables, columns, gone>>
  BY DEF CreateFile, catalog
<1>2. CASE UNCHANGED <<files, made>>
  BY <1>1, <1>2, RestKept
<1>3. CASE /\ files' = Opened(<<db, table>>)
           /\ made' = made \cup {[db |-> db, table |-> table, list |-> list]}
  <2>1. PICK t \in tables : t.id = id /\ Means(t, db, table)
    BY <1>1 DEF AInv, IInv, Underway
  <2>2. /\ list \in Lists /\ Positions(t.id) = Listed(list, Len(list))
        /\ <<db, table>> \notin gone
    BY <1>1, <2>1 DEF AInv, Changing
  <2>3. DOMAIN files' = DOMAIN files \cup {<<db, table>>}
    BY <1>3 DEF Opened
  <2> DEFINE m == [db |-> db, table |-> table, list |-> list]
  <2>4. m.list = list /\ m.db = db /\ m.table = table /\ made' = made \cup {m}
    BY <1>3
  <2> HIDE DEF m
  <2> QED BY <1>1, <2>1, <2>2, <2>3, <2>4, OpenKept
<1> QED BY <1>2, <1>3 DEF CreateFile

LEMMA UseKept ==
  ASSUME AInv, NEW d \in DbName, NEW n \in TableName, Select(d, n) \/ Insert(d, n)
  PROVE  Kept' /\ Changing'
<1>1. /\ at' = "idle" /\ UNCHANGED <<dbs, tables, columns, made, gone>>
      /\ DOMAIN files' = DOMAIN files \cup {<<d, n>>}
      /\ \E i \in TableIds(d, n) : TRUE
  BY DEF Select, Insert, Resolves, catalog, history, Opened
<1>2. \E t \in tables : Means(t, d, n)
  BY <1>1 DEF TableIds, TablesOf, DatabaseIds, Means
<1>3. <<d, n>> \notin gone
  BY <1>2 DEF AInv, Kept
<1> QED BY <1>1, <1>3, OpenKept


LEMMA DropFileKept ==
  ASSUME AInv, NEW d \in DbName, NEW n \in TableName, DropFile(d, n)
  PROVE  Kept' /\ Changing'
<1>1. /\ UNCHANGED <<dbs, tables, columns, gone>>
      /\ at' = "delete" /\ db' = d /\ table' = n
      /\ DOMAIN files' = DOMAIN files \ {<<d, n>>}
      /\ made' = Unmade(d, n)
  BY DEF DropFile, catalog
<1>2. /\ \A t, e, m : Means(t, e, m)' <=> Means(t, e, m)
      /\ \A i : Positions(i)' = Positions(i)
  BY <1>1 DEF Means, Positions, ColumnsOf
<1>3. \A m \in made' : m \in made /\ ~(m.db = d /\ m.table = n)
  BY <1>1 DEF Unmade
<1>4. \A m \in made' : <<m.db, m.table>> \in DOMAIN files'
  BY <1>1, <1>3 DEF AInv, Kept
<1> QED BY <1>1, <1>2, <1>3, <1>4 DEF AInv, Kept, Changing

\* The columns of a table that goes are not those of one that stays
LEMMA ColumnsGo ==
  ASSUME AInv, NEW u \in tables, UNCHANGED <<dbs, tables, files, made, gone>>,
         columns' = columns \ ColumnsOf(u.id),
         \A m \in made : ~Means(u, m.db, m.table)
  PROVE  Kept'
<1>1. \A t, e, m : Means(t, e, m)' <=> Means(t, e, m)
  BY DEF Means
<1>2. \A i : i # u.id => Positions(i)' = Positions(i)
  BY DEF Positions, ColumnsOf
<1>3. ASSUME NEW m \in made, NEW t \in tables, Means(t, m.db, m.table)
      PROVE  Positions(t.id)' = Positions(t.id)
  BY <1>2, <1>3, OneMeant DEF AInv
<1> QED BY <1>1, <1>3 DEF AInv, Kept

LEMMA DeleteColumnsKept == ASSUME AInv, DeleteColumns PROVE Kept' /\ Changing'
<1>1. PICK i \in TableIds(db, table) : id' = i /\ columns' = columns \ ColumnsOf(i)
  BY DEF DeleteColumns
<1>2. /\ at = "delete" /\ at' = "row" /\ UNCHANGED <<dbs, tables, files, db, table, made, gone>>
  BY DEF DeleteColumns, storage, stmt, history
<1>3. PICK u \in tables : u.id = i /\ Means(u, db, table)
  BY <1>1 DEF TableIds, TablesOf, Means, DatabaseIds
<1>4. \A m \in made : ~(m.db = db /\ m.table = table)
  BY <1>2 DEF AInv, Changing
<1>5. Kept'
  <2>1. \A m \in made : ~Means(u, m.db, m.table)
    BY <1>3, <1>4, OneMeant DEF AInv
  <2> QED BY <1>1, <1>2, <1>3, <2>1, ColumnsGo
<1>6. Changing'
  <2>1. \A t \in tables : Means(t, db, table)' => t.id = i
    BY <1>2, <1>3, OneMeant DEF AInv, Means
  <2> QED BY <1>1, <1>2, <1>4, <2>1 DEF Changing, Means
<1> QED BY <1>5, <1>6

LEMMA DeleteTableKept == ASSUME AInv, DeleteTable PROVE Kept' /\ Changing'
<1>1. /\ at = "row" /\ at' = "idle" /\ UNCHANGED <<dbs, columns, files, made>>
      /\ tables' = {t \in tables : ~(t.id = id /\ t.db \in DatabaseIds(db))}
      /\ gone' = gone \cup {<<db, table>>}
  BY DEF DeleteTable, storage
<1>2. /\ \A t, e, m : Means(t, e, m)' <=> Means(t, e, m)
      /\ \A i : Positions(i)' = Positions(i)
  BY <1>1 DEF Means, Positions, ColumnsOf
<1>3. /\ \A m \in made : ~(m.db = db /\ m.table = table)
      /\ \A t \in tables : Means(t, db, table) => t.id = id
  BY <1>1 DEF AInv, Changing
<1>4. /\ \A t \in tables : t.id = id => Means(t, db, table)
      /\ <<db, table>> \notin DOMAIN files
  BY <1>1 DEF AInv, IInv, Underway
<1>5. \A m \in made, t \in tables : Means(t, m.db, m.table) => t \in tables'
  BY <1>1, <1>3, <1>4, OneMeant DEF AInv
<1>6. \A t \in tables' : t \in tables /\ ~Means(t, db, table)
  BY <1>1, <1>3 DEF Means, DatabaseIds
<1>7. Kept'
  BY <1>1, <1>2, <1>4, <1>5, <1>6 DEF AInv, Kept
<1> QED BY <1>1, <1>7 DEF Changing

LEMMA DropDatabaseKept ==
  ASSUME AInv, NEW d \in DbName, DropDatabase(d) PROVE Kept' /\ Changing'
<1>1. /\ UNCHANGED <<dbs, tables, columns, files>> /\ at' = "tables" /\ db' = d
      /\ made' = {m \in made : m.db # d} /\ gone' = {g \in gone : g[1] # d}
  BY DEF DropDatabase, catalog, storage
<1>2. /\ \A t, e, m : Means(t, e, m)' <=> Means(t, e, m)
      /\ \A i : Positions(i)' = Positions(i)
  BY <1>1 DEF Means, Positions, ColumnsOf
<1> QED BY <1>1, <1>2 DEF AInv, Kept, Changing

LEMMA DeleteColumnsOfNextKept ==
  ASSUME AInv, DeleteColumnsOfNext PROVE Kept' /\ Changing'
<1>1. PICK u \in TablesOf(db) : columns' = columns \ ColumnsOf(u.id)
  BY DEF DeleteColumnsOfNext
<1>2. /\ at = "tables" /\ at' = "tableRow"
      /\ UNCHANGED <<dbs, tables, files, db, made, gone>>
  BY DEF DeleteColumnsOfNext, storage, history
<1>3. u \in tables /\ Means(u, db, u.name)
  BY <1>1 DEF TablesOf, Means, DatabaseIds
<1>4. (\A m \in made : m.db # db) /\ \A g \in gone : g[1] # db
  BY <1>2 DEF AInv, Changing
<1>5. \A m \in made : ~Means(u, m.db, m.table)
  BY <1>3, <1>4, OneMeant DEF AInv
<1> QED BY <1>1, <1>2, <1>3, <1>4, <1>5, ColumnsGo DEF Changing

LEMMA DeleteTableOfNextKept ==
  ASSUME AInv, DeleteTableOfNext PROVE Kept' /\ Changing'
<1>1. /\ at = "tableRow" /\ at' = "tables"
      /\ UNCHANGED <<dbs, columns, files, db, made, gone>>
      /\ tables' = {t \in tables : ~(t.id = id /\ t.db \in DatabaseIds(db))}
  BY DEF DeleteTableOfNext, storage, stmt, history
<1>2. /\ \A t, e, m : Means(t, e, m)' <=> Means(t, e, m)
      /\ \A i : Positions(i)' = Positions(i)
  BY <1>1 DEF Means, Positions, ColumnsOf
<1>3. (\A m \in made : m.db # db) /\ \A g \in gone : g[1] # db
  BY <1>1 DEF AInv, Changing
<1>4. \A m \in made, t \in tables : Means(t, m.db, m.table) => t \in tables'
  BY <1>1, <1>3, OneMeant DEF AInv
<1>5. Kept'
  BY <1>1, <1>2, <1>4 DEF AInv, Kept
<1> QED BY <1>1, <1>3, <1>5 DEF Changing

LEMMA DeleteDatabaseKept == ASSUME AInv, DeleteDatabase PROVE Kept' /\ Changing'
<1>1. /\ at = "tables" /\ at' = "idle" /\ UNCHANGED <<tables, columns, files, made, gone>>
      /\ dbs' = {r \in dbs : r.id \notin DatabaseIds(db)}
  BY DEF DeleteDatabase, storage, history
<1>2. \A m \in made : m.db # db
  BY <1>1 DEF AInv, Changing
<1>3. \A t, e, m : Means(t, e, m)' => Means(t, e, m)
  BY <1>1 DEF Means
<1>4. \A t, e, m : Means(t, e, m) /\ e # db => Means(t, e, m)'
  BY <1>1 DEF Means, DatabaseIds, AInv, IInv, NamesAndIdsUnique
<1>5. \A i : Positions(i)' = Positions(i)
  BY <1>1 DEF Positions, ColumnsOf
<1>6. Kept'
  BY <1>1, <1>2, <1>3, <1>4, <1>5 DEF AInv, Kept
<1> QED BY <1>1, <1>6 DEF Changing

LEMMA NextKept == ASSUME AInv, [Next]_vars PROVE AInv'
<1>1. IInv'
  BY NextOK DEF AInv
<1>2. ASSUME NEW d \in DbName,
             CreateDatabase(d) \/ DropDatabaseFails(d) \/ DropDatabase(d)
      PROVE  Kept' /\ Changing'
  BY <1>2, RestKept, DropDatabaseKept
     DEF CreateDatabase, DropDatabaseFails, catalog, storage, history
<1>3. ASSUME NEW d \in DbName, NEW t \in TableName,
             \/ CreateTableFails(d, t) \/ DropTableFails(d, t) \/ DropFile(d, t)
             \/ Select(d, t) \/ Insert(d, t) \/ \E l \in Lists : AddTable(d, t, l)
      PROVE  Kept' /\ Changing'
  BY <1>3, RestKept, DropFileKept, UseKept, AddTableKept
     DEF CreateTableFails, DropTableFails, catalog, storage, history
<1>4. CASE DeleteTableFails \/ Crash
  BY <1>1, <1>4, RestKept DEF DeleteTableFails, Crash, catalog, storage, history, AInv
<1>5. CASE AddDatabase \/ AddColumn \/ CreateFile \/ DeleteColumns \/ DeleteTable
           \/ DeleteColumnsOfNext \/ DeleteTableOfNext \/ DeleteDatabase
  BY <1>1, <1>5, AddDatabaseKept, AddColumnKept, CreateFileKept, DeleteColumnsKept,
     DeleteTableKept, DeleteColumnsOfNextKept, DeleteTableOfNextKept, DeleteDatabaseKept
     DEF AInv
<1>6. CASE UNCHANGED vars
  <2>1. Kept'
    BY <1>6 DEF vars, catalog, storage, history, AInv, Kept, Means, Positions, ColumnsOf
  <2>2. Changing'
    BY <1>6 DEF vars, catalog, storage, stmt, history, AInv, Changing, Means, Positions, ColumnsOf
  <2> QED BY <1>1, <2>1, <2>2 DEF AInv
<1> QED BY <1>1, <1>2, <1>3, <1>4, <1>5, <1>6 DEF Next, AInv

\* With what was reported as made or dropped, and what a statement is about
\* to change, the invariant is still inductive.
THEOREM InductiveAnswers == Spec => []AInv
<1>1. Init => AInv
  BY InitOK, InitKept DEF AInv
<1>2. AInv /\ [Next]_vars => AInv'
  BY NextKept
<1> QED BY <1>1, <1>2, PTL DEF Spec

\* A table of columns in the order of their ids describes its list
LEMMA DescribedSo ==
  ASSUME AInv, NEW m \in made
  PROVE  /\ m.db \in ShownDatabases /\ MayUse(m.db)
         /\ m.table \in ShownTables(m.db) /\ Describes(m.db, m.table, m.list)
         /\ \E i \in TableIds(m.db, m.table) : HasTable(m.db, m.table, i)
<1>1. PICK t \in tables : /\ Means(t, m.db, m.table)
                          /\ Positions(t.id) = Listed(m.list, Len(m.list))
  BY DEF AInv, Kept
<1>2. PICK r \in dbs : r.name = m.db /\ r.id = t.db
  BY <1>1 DEF Means
<1>3. t.name = m.table
  BY <1>1 DEF Means
<1>4. HasDatabase(m.db, r.id) /\ HasTable(m.db, m.table, t.id)
  BY <1>2, <1>3, Found DEF AInv, IInv
<1>5. DatabaseIds(m.db) = {r.id} /\ TableIds(m.db, m.table) = {t.id}
  BY <1>4 DEF HasDatabase, HasTable
<1>6. m.db \in ShownDatabases /\ MayUse(m.db) /\ m.table \in ShownTables(m.db)
  BY <1>2, <1>3, <1>4, <1>5 DEF ShownDatabases, MayUse, ShownTables, Names, TablesOf
<1>7. DescRows(m.db, m.table) = ColumnsOf(t.id)
  BY <1>5 DEF DescRows
<1>8. /\ m.list \in Seq(Nat) /\ m.list # <<>>
      /\ \A j, k \in DOMAIN m.list : j < k => m.list[j] < m.list[k]
  BY ListsAssumption DEF AInv, Kept
<1>9. DOMAIN m.list = 1 .. Len(m.list) /\ 1 \in DOMAIN m.list
  BY <1>8
<1>10. {c.pos : c \in DescRows(m.db, m.table)} = {m.list[k] : k \in DOMAIN m.list}
  BY <1>1, <1>7, <1>9 DEF Positions, Listed
<1>11. Described(m.db, m.table)
  BY <1>9, <1>10 DEF Described
<1> QED BY <1>4, <1>5, <1>6, <1>8, <1>10, <1>11 DEF Describes

\* What CREATE TABLE and DROP TABLE have answered stays true, and SHOW, DESC
\* and USE say so, through everything done or interrupted elsewhere, until a
\* statement on the same table begins.
THEOREM KeepsAnswers == Spec => []AnswersKept
<1>1. ASSUME AInv PROVE AnswersKept
  <2>1. \A m \in made : <<m.db, m.table>> \in DOMAIN files
    BY <1>1 DEF AInv, Kept
  <2>2. ASSUME NEW g \in gone
        PROVE  /\ g[2] \notin ShownTables(g[1]) /\ ~Described(g[1], g[2])
               /\ g \notin DOMAIN files
    <3>1. g \notin DOMAIN files /\ \A t \in tables : ~Means(t, g[1], g[2])
      BY <1>1 DEF AInv, Kept
    <3>2. \A t \in TablesOf(g[1]) : t.name # g[2]
      BY <3>1 DEF TablesOf, DatabaseIds, Means
    <3>3. TableIds(g[1], g[2]) = {}
      BY <3>2 DEF TableIds
    <3> QED BY <3>1, <3>2, <3>3 DEF ShownTables, Names, Described, DescRows
  <2> QED BY <1>1, <2>1, <2>2, DescribedSo DEF AnswersKept
<1> QED BY <1>1, InductiveAnswers, PTL

=============================================================================
