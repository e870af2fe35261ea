------------------------ MODULE LoneStatementProofs ------------------------
(***************************************************************************)
(* What one statement does to the table, for every page size and every     *)
(* statement, when no other runs beside it: what SELECT returns, what      *)
(* INSERT, UPDATE and DELETE leave on disk and count, and the rows that no *)
(* crash or error harms.                                                   *)
(***************************************************************************)
EXTENDS TableSpaceProofs, TableSpaceRefinement, WellFoundedInduction

\* One worker executes statements: no statement runs beside another
OneSession == \A s, t \in Session : s = t

-----------------------------------------------------------------------------
(***************************************************************************)
(* The table as a session sees it: its cached pages over those of the file. *)
(***************************************************************************)
Disk(f, o) == IF o < Len(f) THEN f[o + 1].rows ELSE <<>>
Table(f, c) == [o \in Nat |-> IF o \in DOMAIN c THEN c[o].rows ELSE Disk(f, o)]

\* Slot k of a page holds the live row r
Holds(rows, k, r) ==
  k \in 1 .. Len(rows) /\ ~rows[k].dead /\ rows[k].tag = r.tag /\ rows[k].val = r.val

LiveIn(R) == {r \in Found : Holds(R[PageOf(r.rid)], SlotOf(r.rid), r)}

FilePages(f) ==
  /\ f \in Seq(DiskPage)
  /\ \A i \in 1 .. Len(f) : Sound(f[i]) /\ f[i].next = i

\* Every row id is that of a slot of a page
LEMMA RidBack ==
  ASSUME NEW rid \in Nat
  PROVE  PageOf(rid) \in Nat /\ SlotOf(rid) \in 1 .. PageSlots
         /\ RowId(PageOf(rid), SlotOf(rid)) = rid
<1>1. PageSlots \in Nat /\ PageSlots > 0
  BY PageAssumption
<1> DEFINE q == rid \div PageSlots
           m == rid % PageSlots
<1>2. q \in Int /\ m \in 0 .. (PageSlots - 1) /\ rid = PageSlots * q + m
  BY <1>1
<1> HIDE DEF q, m
<1>3. q >= 0
  <2> SUFFICES ASSUME q < 0 PROVE FALSE
    BY <1>2
  <2>1. PICK d \in Nat : q = 0 - 1 - d
    BY <1>2
  <2>2. rid = 0 - PageSlots - PageSlots * d + m
    BY <1>1, <1>2, <2>1
  <2>3. PageSlots * d >= 0
    BY <1>1, <2>1
  <2> QED BY <1>1, <1>2, <2>2, <2>3
<1>4. q * PageSlots = PageSlots * q
  BY <1>1, <1>2
<1> QED BY <1>1, <1>2, <1>3, <1>4 DEF PageOf, SlotOf, RowId, q, m

LEMMA RidTyped ==
  ASSUME NEW o \in Nat, NEW k \in 1 .. PageSlots
  PROVE  RowId(o, k) \in Nat
<1>1. PageSlots \in Nat
  BY PageAssumption
<1>2. PICK a \in Nat : a = o * PageSlots
  BY <1>1
<1>3. RowId(o, k) = a + k - 1
  BY <1>2 DEF RowId
<1> QED BY <1>1, <1>3

LEMMA TableTyped ==
  ASSUME NEW f, FilePages(f), NEW c, CacheOK(c)
  PROVE  /\ Table(f, c) \in [Nat -> Seq(Row)]
         /\ \A o \in Nat : Len(Table(f, c)[o]) <= PageSlots
<1>1. PageSlots \in Nat
  BY PageAssumption
<1> SUFFICES ASSUME NEW o \in Nat
             PROVE  Table(f, c)[o] \in Seq(Row) /\ Len(Table(f, c)[o]) <= PageSlots
  BY DEF Table
<1>2. CASE o \in DOMAIN c
  <2>1. c[o].rows \in Seq(Row) /\ c[o].free \in Nat /\ Sound(c[o])
    BY <1>2 DEF CacheOK, PageOK, Page
  <2> QED BY <2>1, <1>2, SlotBound DEF Table
<1>3. CASE o \notin DOMAIN c /\ o < Len(f)
  <2>1. o + 1 \in 1 .. Len(f)
    BY <1>3 DEF FilePages
  <2>2. f[o + 1].rows \in Seq(Row) /\ f[o + 1].free \in Nat /\ Sound(f[o + 1])
    <3>1. f[o + 1] \in DiskPage /\ Sound(f[o + 1])
      BY <2>1 DEF FilePages
    <3> QED BY <3>1 DEF DiskPage
  <2> QED BY <2>2, <1>3, SlotBound DEF Table, Disk
<1>4. CASE o \notin DOMAIN c /\ ~(o < Len(f))
  BY <1>4, <1>1 DEF Table, Disk
<1> QED BY <1>2, <1>3, <1>4

\* The rows of a sequence of pages are those of the table under an empty cache
SoundPages(f) == f \in Seq(DiskPage) /\ \A i \in 1 .. Len(f) : Sound(f[i])

LEMMA LiveOnPages ==
  ASSUME NEW f, SoundPages(f), NEW c, DOMAIN c = {}
  PROVE  LiveRows(f) = LiveIn(Table(f, c))
<1> DEFINE R == Table(f, c)
<1>1. \A o \in Nat : R[o] = Disk(f, o)
  BY DEF Table
<1>2. Len(f) \in Nat
  BY DEF SoundPages
<1>3. ASSUME NEW i \in 1 .. Len(f), NEW k \in 1 .. Len(f[i].rows), ~f[i].rows[k].dead
      PROVE  [rid |-> RowId(i - 1, k), tag |-> f[i].rows[k].tag, val |-> f[i].rows[k].val] \in LiveIn(R)
  <2>1. f[i].rows \in Seq(Row) /\ f[i].free \in Nat /\ Sound(f[i])
    <3>1. f[i] \in DiskPage /\ Sound(f[i])
      BY DEF SoundPages
    <3> QED BY <3>1 DEF DiskPage
  <2>2. k \in 1 .. PageSlots /\ i - 1 \in Nat /\ f[i].rows[k] \in Row
    <3>1. Len(f[i].rows) <= PageSlots /\ PageSlots \in Nat /\ Len(f[i].rows) \in Nat
      BY <2>1, SlotBound, PageAssumption
    <3> QED BY <2>1, <3>1
  <2>3. PageOf(RowId(i - 1, k)) = i - 1 /\ SlotOf(RowId(i - 1, k)) = k
    BY <2>2, RidPage
  <2>4. RowId(i - 1, k) \in Nat
    BY <2>2, RidTyped
  <2>5. R[i - 1] = f[i].rows
    <3>1. i - 1 < Len(f) /\ (i - 1) + 1 = i
      BY <1>2
    <3> QED BY <3>1, <2>2, <1>1 DEF Disk
  <2> HIDE DEF R
  <2> DEFINE r == [rid |-> RowId(i - 1, k), tag |-> f[i].rows[k].tag, val |-> f[i].rows[k].val]
  <2>6. r \in Found
    BY <2>2, <2>4 DEF Found, Row
  <2>7. Holds(R[PageOf(r.rid)], SlotOf(r.rid), r)
    BY <2>3, <2>5, <1>3 DEF Holds
  <2> QED BY <2>6, <2>7 DEF LiveIn
<1>4. ASSUME NEW r \in LiveIn(R) PROVE r \in LiveRows(f)
  <2> DEFINE o == PageOf(r.rid)
             k == SlotOf(r.rid)
  <2>1. r \in Found /\ Holds(R[o], k, r)
    BY DEF LiveIn
  <2>2. r.rid \in Nat /\ r = [rid |-> r.rid, tag |-> r.tag, val |-> r.val]
    BY <2>1 DEF Found
  <2>3. o \in Nat /\ k \in 1 .. PageSlots /\ RowId(o, k) = r.rid
    BY <2>2, RidBack
  <2> HIDE DEF o, k, R
  <2>4. R[o] = Disk(f, o) /\ k \in 1 .. Len(R[o])
    BY <2>1, <2>3, <1>1 DEF Holds
  <2>5. o < Len(f)
    BY <2>4 DEF Disk
  <2>6. PICK i \in 1 .. Len(f) : i = o + 1
    BY <2>3, <2>5, <1>2
  <2>7. i - 1 = o /\ R[o] = f[i].rows
    BY <2>3, <2>4, <2>5, <2>6 DEF Disk
  <2>8. k \in {n \in 1 .. Len(f[i].rows) : ~f[i].rows[n].dead}
    BY <2>1, <2>4, <2>7 DEF Holds
  <2>9. r = [rid |-> RowId(i - 1, k), tag |-> f[i].rows[k].tag, val |-> f[i].rows[k].val]
    BY <2>1, <2>2, <2>3, <2>7 DEF Holds
  <2> QED BY <2>8, <2>9 DEF LiveRows
<1>5. LiveRows(f) \subseteq LiveIn(R)
  BY <1>3 DEF LiveRows
<1> QED BY <1>4, <1>5

LEMMA LiveOnDisk ==
  ASSUME NEW f, FilePages(f), NEW c, DOMAIN c = {}
  PROVE  LiveRows(f) = LiveIn(Table(f, c))
BY LiveOnPages DEF FilePages, SoundPages

LEMMA UpToNext ==
  ASSUME NEW m \in Nat, NEW k \in Nat, k # m + 1
  PROVE  k \in 1 .. (m + 1) <=> k \in 1 .. m
OBVIOUS

\* A row appended to a page is one live row more
LEMMA LiveAppend ==
  ASSUME NEW R \in [Nat -> Seq(Row)], NEW o \in Nat, NEW x \in Row, ~x.dead,
         Len(R[o]) < PageSlots
  PROVE  LET new == [rid |-> RowId(o, Len(R[o]) + 1), tag |-> x.tag, val |-> x.val] IN
         /\ new \in Found
         /\ PageOf(new.rid) = o /\ SlotOf(new.rid) = Len(R[o]) + 1
         /\ \A r \in LiveIn(R) : r.rid # new.rid
         /\ LiveIn([R EXCEPT ![o] = Append(@, x)]) = LiveIn(R) \cup {new}
<1> DEFINE n == Len(R[o]) + 1
           new == [rid |-> RowId(o, n), tag |-> x.tag, val |-> x.val]
           S == [R EXCEPT ![o] = Append(@, x)]
<1>0. PageSlots \in Nat /\ R[o] \in Seq(Row)
  BY PageAssumption
<1>1. n \in 1 .. PageSlots
  BY <1>0
<1>2. PageOf(RowId(o, n)) = o /\ SlotOf(RowId(o, n)) = n
  BY <1>1, RidPage
<1>3. RowId(o, n) \in Nat
  BY <1>1, RidTyped
<1>4. new \in Found /\ new.rid = RowId(o, n) /\ new.tag = x.tag /\ new.val = x.val
  BY <1>3 DEF Found, Row
<1>5. /\ S[o] = Append(R[o], x) /\ \A p \in Nat \ {o} : S[p] = R[p]
      /\ Len(S[o]) = n /\ S[o][n] = x /\ \A k \in 1 .. Len(R[o]) : S[o][k] = R[o][k]
  BY <1>0
<1>a. PICK m \in Nat : m = Len(R[o]) /\ n = m + 1
  BY <1>0
<1> HIDE DEF S, new
<1>6. \A r \in LiveIn(R) : r.rid # new.rid
  <2> SUFFICES ASSUME NEW r \in LiveIn(R), r.rid = new.rid PROVE FALSE
    OBVIOUS
  <2>1. Holds(R[o], n, r)
    BY <1>2, <1>4 DEF LiveIn
  <2> QED BY <2>1, <1>0 DEF Holds
<1>7. new \in LiveIn(S)
  <2>1. Holds(S[o], n, new)
    BY <1>1, <1>4, <1>5 DEF Holds
  <2> QED BY <2>1, <1>2, <1>4 DEF LiveIn
<1>8. ASSUME NEW r \in Found, r # new PROVE r \in LiveIn(S) <=> r \in LiveIn(R)
  <2> DEFINE p == PageOf(r.rid)
             k == SlotOf(r.rid)
  <2>1. p \in Nat /\ k \in 1 .. PageSlots /\ RowId(p, k) = r.rid /\ r = [rid |-> r.rid, tag |-> r.tag, val |-> r.val]
    BY RidBack DEF Found
  <2> HIDE DEF p, k
  <2>2. CASE p # o
    BY <2>1, <2>2, <1>5 DEF LiveIn, p, k
  <2>3. CASE p = o /\ k # n
    <3>1. k \in 1 .. n <=> k \in 1 .. Len(R[o])
      <4> HIDE DEF n
      <4>1. k # m + 1 /\ k \in Nat
        BY <2>1, <2>3, <1>a
      <4> QED BY <4>1, <1>a, UpToNext
    <3>2. Holds(S[o], k, r) <=> Holds(R[o], k, r)
      BY <3>1, <1>5 DEF Holds
    <3> QED BY <3>2, <2>3 DEF LiveIn, p, k
  <2>4. CASE p = o /\ k = n
    <3>1. ~Holds(R[o], n, r)
      BY <1>0 DEF Holds
    <3>2. Holds(S[o], n, r) => r = new
      BY <2>1, <2>4, <1>5 DEF Holds, new
    <3> QED BY <3>1, <3>2, <2>4, <1>8 DEF LiveIn, p, k
  <2> QED BY <2>2, <2>3, <2>4
<1>9. LiveIn(S) = LiveIn(R) \cup {new}
  <2>1. LiveIn(S) \subseteq Found /\ LiveIn(R) \subseteq Found
    BY DEF LiveIn
  <2> QED BY <2>1, <1>4, <1>7, <1>8
<1> QED BY <1>2, <1>4, <1>6, <1>9 DEF S, new

\* A row marked deleted is one live row less
LEMMA LiveDelete ==
  ASSUME NEW R \in [Nat -> Seq(Row)], NEW o \in Nat, NEW k \in 1 .. Len(R[o]),
         k <= PageSlots, ~R[o][k].dead
  PROVE  LET old == [rid |-> RowId(o, k), tag |-> R[o][k].tag, val |-> R[o][k].val] IN
         /\ old \in LiveIn(R)
         /\ LiveIn([R EXCEPT ![o] = [@ EXCEPT ![k].dead = TRUE]]) = LiveIn(R) \ {old}
<1> DEFINE old == [rid |-> RowId(o, k), tag |-> R[o][k].tag, val |-> R[o][k].val]
           S == [R EXCEPT ![o] = [@ EXCEPT ![k].dead = TRUE]]
<1>0. PageSlots \in Nat /\ R[o] \in Seq(Row) /\ R[o][k] \in Row
  BY PageAssumption
<1>1. k \in 1 .. PageSlots
  BY <1>0
<1>2. PageOf(RowId(o, k)) = o /\ SlotOf(RowId(o, k)) = k
  BY <1>1, RidPage
<1>3. RowId(o, k) \in Nat
  BY <1>1, RidTyped
<1>4. old \in Found /\ old.rid = RowId(o, k) /\ old.tag = R[o][k].tag /\ old.val = R[o][k].val
  BY <1>0, <1>3 DEF Found, Row
<1>5. /\ \A p \in Nat \ {o} : S[p] = R[p]
      /\ Len(S[o]) = Len(R[o]) /\ S[o][k].dead = TRUE
      /\ \A j \in 1 .. Len(R[o]) : j # k => S[o][j] = R[o][j]
  <2>1. S[o] = [R[o] EXCEPT ![k].dead = TRUE] /\ \A p \in Nat \ {o} : S[p] = R[p]
    OBVIOUS
  <2>2. R[o][k] = [tag |-> R[o][k].tag, val |-> R[o][k].val, dead |-> R[o][k].dead]
    BY <1>0 DEF Row
  <2>3. [R[o][k] EXCEPT !.dead = TRUE].dead = TRUE
    BY <2>2
  <2> QED BY <2>1, <2>3, <1>0
<1> HIDE DEF S, old
<1>6. old \in LiveIn(R)
  <2>1. Holds(R[o], k, old)
    BY <1>4 DEF Holds
  <2> QED BY <2>1, <1>2, <1>4 DEF LiveIn
<1>7. ASSUME NEW r \in Found PROVE r \in LiveIn(S) <=> r \in LiveIn(R) /\ r # old
  <2> DEFINE p == PageOf(r.rid)
             j == SlotOf(r.rid)
  <2>1. p \in Nat /\ j \in 1 .. PageSlots /\ RowId(p, j) = r.rid /\ r = [rid |-> r.rid, tag |-> r.tag, val |-> r.val]
    BY RidBack DEF Found
  <2> HIDE DEF p, j
  <2>2. CASE p # o
    <3>1. r # old
      BY <2>2, <1>2, <1>4 DEF p
    <3> QED BY <2>1, <2>2, <3>1, <1>5 DEF LiveIn, p, j
  <2>3. CASE p = o /\ j # k
    <3>1. Holds(S[o], j, r) <=> Holds(R[o], j, r)
      BY <2>1, <2>3, <1>0, <1>5 DEF Holds
    <3>2. r # old
      BY <2>3, <1>2, <1>4 DEF j
    <3> QED BY <3>1, <3>2, <2>3 DEF LiveIn, p, j
  <2>4. CASE p = o /\ j = k
    <3>1. ~Holds(S[o], k, r)
      BY <1>5 DEF Holds
    <3>2. Holds(R[o], k, r) => r = old
      BY <2>1, <2>4 DEF Holds, old
    <3> QED BY <3>1, <3>2, <2>4 DEF LiveIn, p, j
  <2> QED BY <2>2, <2>3, <2>4
<1>8. LiveIn(S) = LiveIn(R) \ {old}
  <2>1. LiveIn(S) \subseteq Found /\ LiveIn(R) \subseteq Found
    BY DEF LiveIn
  <2> QED BY <2>1, <1>7
<1> QED BY <1>6, <1>8 DEF S, old

-----------------------------------------------------------------------------
(***************************************************************************)
(* What the operations of a TableSpace do to the table.                     *)
(***************************************************************************)
\* A page that is not dirty is as it is on disk
Clean(f, c) == \A o \in DOMAIN c : ~c[o].dirty => c[o].rows = Disk(f, o)

LEMMA TableEqual ==
  ASSUME NEW f, NEW c, NEW g, NEW d,
         \A o \in Nat : (IF o \in DOMAIN c THEN c[o].rows ELSE Disk(f, o))
                          = (IF o \in DOMAIN d THEN d[o].rows ELSE Disk(g, o))
  PROVE  Table(f, c) = Table(g, d)
BY DEF Table

\* Reading a page into the cache changes nothing
LEMMA LoadTable ==
  ASSUME FileOK, NEW c, CacheOK(c), Clean(file, c), NEW o \in Nat, CanGet(c, o)
  PROVE  /\ Table(file, WithPage(c, o)) = Table(file, c)
         /\ Clean(file, WithPage(c, o))
<1>1. CASE o \in DOMAIN c
  BY <1>1 DEF WithPage
<1>2. CASE o \notin DOMAIN c
  <2> DEFINE d == Put(c, o, ReadPage(o))
  <2>1. WithPage(c, o) = d
    BY <1>2 DEF WithPage
  <2>2. Len(file) \in Nat /\ o < Len(file)
    BY <1>2 DEF CanGet, EndOffset, FileOK
  <2>3. ReadPage(o).rows = Disk(file, o)
    BY <2>2 DEF ReadPage, Disk
  <2>4. /\ DOMAIN d = DOMAIN c \cup {o} /\ d[o] = ReadPage(o)
        /\ \A x \in DOMAIN c : d[x] = c[x]
    BY <1>2 DEF Put
  <2> HIDE DEF d
  <2>5. Table(file, d) = Table(file, c)
    BY <1>2, <2>3, <2>4, TableEqual
  <2>6. Clean(file, d)
    BY <2>3, <2>4 DEF Clean
  <2> QED BY <2>1, <2>5, <2>6
<1> QED BY <1>1, <1>2

LEMMA LastPageTable ==
  ASSUME FileOK, NEW c, CacheOK(c), Clean(file, c)
  PROVE  /\ Table(file, WithLastPage(c)) = Table(file, c)
         /\ Clean(file, WithLastPage(c))
<1>0. Len(file) \in Nat /\ (file = <<>> <=> Len(file) = 0)
  BY DEF FileOK
<1>1. CASE file # <<>>
  <2>1. EndOffset \in Nat /\ CanGet(c, EndOffset)
    BY <1>0, <1>1 DEF CanGet, EndOffset
  <2>2. WithLastPage(c) = WithPage(c, EndOffset)
    BY <1>1 DEF WithLastPage
  <2> QED BY <2>1, <2>2, LoadTable
<1>2. CASE file = <<>> /\ DOMAIN c = {}
  <2> DEFINE d == Put(c, 0, NewPage(0))
  <2>1. WithLastPage(c) = d
    BY <1>2 DEF WithLastPage
  <2>2. DOMAIN d = {0} /\ d[0] = NewPage(0) /\ NewPage(0).rows = <<>>
    BY <1>2 DEF Put, NewPage
  <2>3. \A o \in Nat : Disk(file, o) = <<>>
    BY <1>0, <1>2 DEF Disk
  <2> HIDE DEF d
  <2>4. Table(file, d) = Table(file, c)
    BY <1>2, <2>2, <2>3, TableEqual
  <2>5. Clean(file, d)
    BY <2>2, <2>3 DEF Clean
  <2> QED BY <2>1, <2>4, <2>5
<1>3. CASE file = <<>> /\ DOMAIN c # {}
  BY <1>3 DEF WithLastPage
<1> QED BY <1>1, <1>2, <1>3

\* The last page lies at the end of the file or behind it
LEMMA LastIsLast ==
  ASSUME FileOK, NEW c, Held(c, Len(file)),
         NEW o \in DOMAIN WithLastPage(c), IsLast(WithLastPage(c), o)
  PROVE  /\ o \in Nat /\ o + 1 >= Len(file) /\ PageOK(WithLastPage(c)[o], o)
         /\ \A p \in Nat : p > o => p \notin DOMAIN WithLastPage(c) /\ Table(file, c)[p] = <<>>
         /\ \A p \in DOMAIN c : p <= o
         /\ Table(file, c)[o] = WithLastPage(c)[o].rows
         /\ o >= Len(file) /\ o > 0 => o \in DOMAIN c
<1> DEFINE e == WithLastPage(c)
<1>0. Len(file) \in Nat /\ (file = <<>> <=> Len(file) = 0)
  BY DEF FileOK
<1>1. /\ CacheOK(e) /\ \A x \in DOMAIN c : x \in DOMAIN e /\ e[x] = c[x]
      /\ \A x \in DOMAIN e \ DOMAIN c : x < Len(file) \/ x = 0
  BY WithLastPageOK
<1>2. o + 1 >= Len(file)
  <2>1. CASE file # <<>>
    <3>1. EndOffset \in DOMAIN e
      BY <2>1 DEF WithLastPage, WithPage, Put
    <3>2. EndOffset <= o /\ o \in Nat
      BY <3>1, <1>1 DEF IsLast, CacheOK
    <3> QED BY <3>2, <1>0 DEF EndOffset
  <2>2. CASE file = <<>>
    BY <2>2, <1>0, <1>1 DEF CacheOK
  <2> QED BY <2>1, <2>2
<1> HIDE DEF e
<1>3. o \in Nat /\ \A x \in DOMAIN e : x <= o /\ x \in Nat
  BY <1>1 DEF CacheOK, IsLast, e
<1>4. ASSUME NEW p \in Nat, p > o PROVE p \notin DOMAIN e /\ Table(file, c)[p] = <<>>
  <2>1. p \notin DOMAIN e /\ p \notin DOMAIN c
    BY <1>1, <1>3, <1>4
  <2>2. ~(p < Len(file))
    BY <1>0, <1>2, <1>3, <1>4
  <2> QED BY <2>1, <2>2 DEF Table, Disk
<1>5. PageOK(e[o], o)
  BY <1>1, <1>3 DEF CacheOK, e
<1>6. Table(file, c)[o] = e[o].rows
  <2>1. CASE o \in DOMAIN c
    BY <2>1, <1>1, <1>3 DEF Table
  <2>2. CASE o \notin DOMAIN c /\ file # <<>>
    <3>1. e = WithPage(c, EndOffset)
      BY <2>2 DEF WithLastPage, e
    <3>2. DOMAIN e \subseteq DOMAIN c \cup {EndOffset}
      BY <3>1 DEF WithPage, Put
    <3>3. o = EndOffset /\ e[o] = ReadPage(o) /\ o < Len(file)
      BY <2>2, <3>1, <3>2, <1>0 DEF WithPage, Put, EndOffset, e
    <3> QED BY <2>2, <3>3, <1>3 DEF ReadPage, Table, Disk
  <2>3. CASE o \notin DOMAIN c /\ file = <<>>
    <3>1. DOMAIN c = {}
      BY <2>3 DEF WithLastPage, e
    <3>2. e = Put(c, 0, NewPage(0))
      BY <2>3, <3>1 DEF WithLastPage, e
    <3>3. o = 0 /\ e[o] = NewPage(0)
      BY <3>1, <3>2 DEF Put, e
    <3> QED BY <3>1, <3>3, <1>0, <1>3, <2>3 DEF NewPage, Table, Disk
  <2> QED BY <2>1, <2>2, <2>3
<1>7. o >= Len(file) /\ o > 0 => o \in DOMAIN c
  BY <1>0, <1>1, <1>3 DEF e
<1>8. \A p \in DOMAIN c : p <= o
  BY <1>1, <1>3
<1> QED BY <1>2, <1>3, <1>4, <1>5, <1>6, <1>7, <1>8 DEF e

\* What an INSERT of row r leaves: the table with the row behind all others, or
\* the table as it was
InsertedOnly(c, o, r, placed) ==
  /\ Clean(file, placed.cache)
  /\ placed.off \in {o, o + 1} /\ o \in Nat
  /\ placed.ok =>
       /\ Table(file, placed.cache) = [Table(file, c) EXCEPT ![placed.off] = Append(@, r)]
       /\ Len(Table(file, c)[placed.off]) < PageSlots
       /\ \A p \in Nat : p > placed.off => Table(file, c)[p] = <<>>
       /\ placed.off \in DOMAIN placed.cache
  /\ ~placed.ok => Table(file, placed.cache) = Table(file, c)

\* A row that is inserted is appended to the last page with rows or to the page
\* behind it; a row that fits in no page leaves the table as it was.
LEMMA InsertTable ==
  ASSUME FileOK, NEW c, Held(c, Len(file)), Clean(file, c), NEW r \in Row,
         NEW o \in DOMAIN WithLastPage(c), IsLast(WithLastPage(c), o),
         NEW placed, placed = InsertAt(WithLastPage(c), o, r)
  PROVE  InsertedOnly(c, o, r, placed)
<1> DEFINE e == WithLastPage(c)
           R == Table(file, c)
           w == Width[r.val]
<1>1. /\ o \in Nat /\ o + 1 >= Len(file) /\ PageOK(e[o], o) /\ o + 1 \in Nat
      /\ \A p \in Nat : p > o => p \notin DOMAIN e /\ R[p] = <<>>
      /\ R[o] = e[o].rows
  BY LastIsLast
<1>2. CacheOK(c)
  BY DEF Held
<1>3. Table(file, e) = R /\ Clean(file, e) /\ FilePages(file)
  BY <1>2, LastPageTable DEF FileOK, FilePages
<1>4. e[o].next = o + 1 /\ e[o].rows \in Seq(Row)
  BY <1>1 DEF PageOK, Page
<1>5. R[o + 1] = <<>> /\ o + 1 \notin DOMAIN e /\ Disk(file, o + 1) = <<>>
  <2>1. o + 1 > o
    BY <1>1
  <2>2. R[o + 1] = <<>> /\ o + 1 \notin DOMAIN e
    BY <1>1, <2>1
  <2>3. ~(o + 1 < Len(file))
    BY <1>1, <1>3 DEF FilePages
  <2> QED BY <2>2, <2>3 DEF Disk
<1>6. o \in DOMAIN e
  OBVIOUS
<1>6a. PageSlots \in Nat \ {0} /\ PageCapacity \in Nat /\ w \in Nat
  BY PageAssumption DEF Row
<1>6b. placed = InsertAt(e, o, r)
  OBVIOUS
<1> HIDE DEF e, R
<1>7. CASE e[o].free >= w
  <2> DEFINE p == WithRow(e[o], r)
             d == Put(e, o, p)
  <2>1. placed = [ok |-> TRUE, off |-> o, cache |-> d]
    BY <1>7, <1>6b DEF InsertAt
  <2>2. PageOK(p, o) /\ p.dirty /\ p.rows = Append(e[o].rows, r)
    <3>1. PageOK(p, o) /\ p.dirty
      BY <1>1, <1>7, WithRowOK
    <3> QED BY <3>1 DEF WithRow
  <2>3. Len(p.rows) <= PageSlots
    BY <2>2, SlotBound DEF PageOK, Page
  <2>4. Len(R[o]) < PageSlots
    <3>1. PICK m \in Nat : m = Len(e[o].rows) /\ Len(p.rows) = m + 1
      BY <1>4, <2>2
    <3> QED BY <3>1, <2>3, <1>1, <1>6a
  <2> HIDE DEF p
  <2>5. DOMAIN d = DOMAIN e /\ d[o] = p /\ \A x \in DOMAIN e \ {o} : d[x] = e[x]
    BY <1>6 DEF Put
  <2> HIDE DEF d
  <2>6. Table(file, d) = [Table(file, e) EXCEPT ![o] = Append(@, r)]
    <3>1. Table(file, e)[o] = e[o].rows
      BY <1>1, <1>6 DEF Table
    <3> DEFINE A == Table(file, e)
               B == [A EXCEPT ![o] = Append(@, r)]
    <3>2. B[o] = d[o].rows
      BY <1>1, <2>2, <2>5, <3>1 DEF Table
    <3>3. \A x \in Nat \ {o} : B[x] = Table(file, d)[x]
      BY <2>5 DEF Table
    <3>4. Table(file, d)[o] = d[o].rows
      BY <1>1, <1>6, <2>5 DEF Table
    <3>5. DOMAIN B = Nat /\ DOMAIN Table(file, d) = Nat
      BY DEF Table
    <3>6. \A x \in Nat : B[x] = Table(file, d)[x]
      BY <3>2, <3>3, <3>4
    <3>7. B = [x \in Nat |-> B[x]] /\ Table(file, d) = [x \in Nat |-> Table(file, d)[x]]
      BY DEF Table
    <3> HIDE DEF B
    <3>8. B = Table(file, d)
      BY <3>6, <3>7
    <3> QED BY <3>8 DEF B
  <2>7. Clean(file, d)
    BY <1>3, <2>2, <2>5 DEF Clean
  <2> QED BY <1>1, <1>3, <1>6, <2>1, <2>4, <2>5, <2>6, <2>7 DEF R, InsertedOnly
<1>8. CASE ~(e[o].free >= w) /\ PageCapacity >= w
  <2> DEFINE p == WithRow(NewPage(o + 1), r)
             d == Put(e, o + 1, p)
  <2>1. placed = [ok |-> TRUE, off |-> o + 1, cache |-> d]
    BY <1>8, <1>4, <1>6b DEF InsertAt
  <2>2. p.dirty /\ p.rows = Append(<<>>, r)
    BY DEF WithRow, NewPage
  <2> HIDE DEF p
  <2>5. /\ DOMAIN d = DOMAIN e \cup {o + 1} /\ d[o + 1] = p
        /\ \A x \in DOMAIN e : d[x] = e[x]
    BY <1>5 DEF Put
  <2> HIDE DEF d
  <2>6. Table(file, d) = [Table(file, e) EXCEPT ![o + 1] = Append(@, r)]
    <3> DEFINE A == Table(file, e)
               B == [A EXCEPT ![o + 1] = Append(@, r)]
    <3>1. A[o + 1] = <<>>
      BY <1>1, <1>3, <1>5
    <3>2. B[o + 1] = Append(<<>>, r)
      BY <1>1, <3>1 DEF Table
    <3>3. \A x \in Nat \ {o + 1} : B[x] = Table(file, d)[x]
      BY <2>5 DEF Table
    <3>4. Table(file, d)[o + 1] = Append(<<>>, r)
      BY <1>1, <2>2, <2>5 DEF Table
    <3>6. \A x \in Nat : B[x] = Table(file, d)[x]
      BY <3>2, <3>3, <3>4
    <3>7. B = [x \in Nat |-> B[x]] /\ Table(file, d) = [x \in Nat |-> Table(file, d)[x]]
      BY DEF Table
    <3> HIDE DEF B
    <3>8. B = Table(file, d)
      BY <3>6, <3>7
    <3> QED BY <3>8 DEF B
  <2>7. Clean(file, d)
    BY <1>3, <2>2, <2>5 DEF Clean
  <2>8. Len(R[o + 1]) < PageSlots
    BY <1>5, <1>6a
  <2>9. \A x \in Nat : x > o + 1 => R[x] = <<>>
    BY <1>1
  <2>10. /\ placed.ok = TRUE /\ placed.off = o + 1 /\ placed.cache = d
         /\ placed.off \in DOMAIN placed.cache
    BY <2>1, <2>5
  <2>11. Table(file, placed.cache) = [Table(file, c) EXCEPT ![placed.off] = Append(@, r)]
    BY <1>3, <2>6, <2>10 DEF R
  <2>12. /\ Len(Table(file, c)[placed.off]) < PageSlots
         /\ \A x \in Nat : x > placed.off => Table(file, c)[x] = <<>>
    BY <2>8, <2>9, <2>10 DEF R
  <2> QED BY <1>1, <2>7, <2>10, <2>11, <2>12 DEF InsertedOnly
<1>9. CASE ~(e[o].free >= w) /\ ~(PageCapacity >= w)
  <2> DEFINE d == Put(e, o + 1, NewPage(o + 1))
  <2>1. placed = [ok |-> FALSE, off |-> o + 1, cache |-> d]
    BY <1>9, <1>4, <1>6b DEF InsertAt
  <2>2. NewPage(o + 1).rows = <<>>
    BY DEF NewPage
  <2>5. /\ DOMAIN d = DOMAIN e \cup {o + 1} /\ d[o + 1] = NewPage(o + 1)
        /\ \A x \in DOMAIN e : d[x] = e[x]
    BY <1>5 DEF Put
  <2> HIDE DEF d
  <2>6. Table(file, d) = Table(file, e)
    BY <1>5, <2>2, <2>5, TableEqual
  <2>7. Clean(file, d)
    BY <1>3, <1>5, <2>2, <2>5 DEF Clean
  <2>8. placed.ok = FALSE /\ placed.off = o + 1 /\ placed.cache = d
    BY <2>1
  <2>9. Table(file, placed.cache) = Table(file, c)
    BY <1>3, <2>6, <2>8 DEF R
  <2> QED BY <1>1, <2>7, <2>8, <2>9 DEF InsertedOnly
<1> QED BY <1>7, <1>8, <1>9 DEF InsertedOnly

LEMMA InsertFails ==
  ASSUME FileOK, NEW c, Held(c, Len(file)), Clean(file, c), NEW r \in Row,
         NEW o \in DOMAIN WithLastPage(c), IsLast(WithLastPage(c), o),
         NEW placed, placed = InsertAt(WithLastPage(c), o, r), ~placed.ok
  PROVE  Clean(file, placed.cache) /\ Table(file, placed.cache) = Table(file, c)
<1>1. InsertedOnly(c, o, r, placed)
  BY InsertTable
<1> QED BY <1>1 DEF InsertedOnly

\* A row that is deleted is marked in its page
LEMMA DeleteTable ==
  ASSUME NEW n \in Nat, NEW f, NEW c, Held(c, n), Clean(f, c), NEW o \in DOMAIN c,
         NEW slot \in 1 .. Len(c[o].rows)
  PROVE  LET d == DeleteRid(c, RowId(o, slot)) IN
         /\ Table(f, d) = [Table(f, c) EXCEPT ![o] = [@ EXCEPT ![slot].dead = TRUE]]
         /\ Clean(f, d)
         /\ slot <= PageSlots /\ o \in Nat /\ Table(f, c)[o] = c[o].rows
<1> DEFINE p == WithoutRow(c[o], slot)
           d == Put(c, o, p)
<1>1. o \in Nat /\ PageOK(c[o], o)
  BY DEF Held, CacheOK
<1>2. slot \in 1 .. PageSlots
  <2>1. c[o].rows \in Seq(Row) /\ c[o].free \in Nat /\ Sound(c[o])
    BY <1>1 DEF PageOK, Page
  <2>2. Len(c[o].rows) <= PageSlots
    BY <2>1, SlotBound
  <2>3. Len(c[o].rows) \in Nat /\ PageSlots \in Nat
    BY <2>1, PageAssumption
  <2> QED BY <2>2, <2>3
<1>3. DeleteRid(c, RowId(o, slot)) = d
  BY <1>1, <1>2, RidPage DEF DeleteRid
<1>4. p.rows = [c[o].rows EXCEPT ![slot].dead = TRUE] /\ p.dirty
  <2>1. c[o] \in Page
    BY <1>1 DEF PageOK
  <2> QED BY <2>1 DEF WithoutRow, Page
<1> HIDE DEF p
<1>5. /\ DOMAIN d = DOMAIN c /\ d[o] = p
      /\ \A x \in DOMAIN c \ {o} : d[x] = c[x]
  BY DEF Put
<1> HIDE DEF d
<1>6. Table(f, d) = [Table(f, c) EXCEPT ![o] = [@ EXCEPT ![slot].dead = TRUE]]
  <2> DEFINE A == Table(f, c)
             B == [A EXCEPT ![o] = [@ EXCEPT ![slot].dead = TRUE]]
  <2>1. A[o] = c[o].rows
    BY <1>1 DEF Table
  <2>2. B[o] = d[o].rows
    BY <1>1, <1>4, <1>5, <2>1 DEF Table
  <2>3. \A x \in Nat \ {o} : B[x] = Table(f, d)[x]
    BY <1>5 DEF Table
  <2>4. Table(f, d)[o] = d[o].rows
    BY <1>1, <1>5 DEF Table
  <2>6. \A x \in Nat : B[x] = Table(f, d)[x]
    BY <2>2, <2>3, <2>4
  <2>7. B = [x \in Nat |-> B[x]] /\ Table(f, d) = [x \in Nat |-> Table(f, d)[x]]
    BY DEF Table
  <2> HIDE DEF B
  <2>8. B = Table(f, d)
    BY <2>6, <2>7
  <2> QED BY <2>8 DEF B
<1>7. Clean(f, d)
  BY <1>4, <1>5 DEF Clean
<1>8. slot <= PageSlots
  BY <1>2, PageAssumption
<1>9. Table(f, c)[o] = c[o].rows
  BY <1>1 DEF Table
<1> QED BY <1>1, <1>3, <1>6, <1>7, <1>8, <1>9

\* Moving the index of the scan changes nothing
LEMMA PassedTable ==
  ASSUME IInv, NEW s \in Session, Scanning(s), CanGet(cache[s], cur[s]), NEW k \in Nat,
         Clean(file, cache[s])
  PROVE  /\ Table(file, Loaded(s)) = Table(file, cache[s]) /\ Clean(file, Loaded(s))
         /\ Table(file, Passed(s, k)) = Table(file, cache[s]) /\ Clean(file, Passed(s, k))
         /\ Table(file, cache[s])[cur[s]] = Current(s).rows
<1> DEFINE c == Loaded(s)
           p == [Current(s) EXCEPT !.idx = k + 1]
           d == Passed(s, k)
<1>1. /\ Held(c, Len(file)) /\ cur[s] \in Nat /\ cur[s] \in DOMAIN c
      /\ PageOK(Current(s), cur[s]) /\ c[cur[s]] = Current(s)
  BY LoadedOK DEF Current
<1>2. FileOK /\ CacheOK(cache[s])
  BY DEF IInv, SessionOK
<1>3. Table(file, c) = Table(file, cache[s]) /\ Clean(file, c)
  BY <1>1, <1>2, LoadTable DEF Loaded
<1>4. p.rows = Current(s).rows /\ p.dirty = Current(s).dirty
  BY <1>1 DEF PageOK, Page
<1>5. d = Put(c, cur[s], p)
  BY DEF Passed
<1> HIDE DEF p, c, d
<1>6. DOMAIN d = DOMAIN c /\ d[cur[s]] = p /\ \A x \in DOMAIN c \ {cur[s]} : d[x] = c[x]
  BY <1>1, <1>5 DEF Put
<1>7. Table(file, d) = Table(file, c)
  BY <1>1, <1>4, <1>6, TableEqual
<1>8. Clean(file, d)
  BY <1>1, <1>3, <1>4, <1>6 DEF Clean
<1>9. Table(file, c)[cur[s]] = Current(s).rows
  BY <1>1 DEF Table
<1> QED BY <1>3, <1>7, <1>8, <1>9 DEF c, d

\* Writing a page back and dropping it moves its rows from the cache to the file
LEMMA WriteBackTable ==
  ASSUME FileOK, NEW c, CacheOK(c), Clean(file, c), NEW o \in DOMAIN c,
         c[o].dirty => o <= Len(file)
  PROVE  LET f == WriteBack(o, c[o])
             d == Erase(c, o)
         IN /\ \A x \in Nat : Disk(f, x) = IF x = o THEN c[o].rows ELSE Disk(file, x)
            /\ Table(f, d) = Table(file, c)
            /\ Clean(f, d)
<1> DEFINE f == WriteBack(o, c[o])
           d == Erase(c, o)
<1>0. Len(file) \in Nat /\ o \in Nat
  BY DEF FileOK, CacheOK
<1>1. \A x \in Nat : Disk(f, x) = IF x = o THEN c[o].rows ELSE Disk(file, x)
  <2>1. CASE ~c[o].dirty
    BY <2>1 DEF WriteBack, Clean
  <2>2. CASE c[o].dirty
    <3> DEFINE n == IF o + 1 > Len(file) THEN o + 1 ELSE Len(file)
               g == [i \in 1 .. n |-> IF i = o + 1 THEN OnDisk(c[o])
                                      ELSE IF i <= Len(file) THEN file[i] ELSE Hole]
    <3>1. f = g
      BY <2>2 DEF WriteBack
    <3>2. n \in Nat /\ n >= Len(file) /\ n > o /\ (n = o + 1 \/ n = Len(file)) /\ o <= Len(file)
      BY <1>0, <2>2
    <3>3. Len(g) = n
      <4> HIDE DEF n
      <4> QED BY <3>2
    <3> HIDE DEF n
    <3> SUFFICES ASSUME NEW x \in Nat
                 PROVE  Disk(g, x) = IF x = o THEN c[o].rows ELSE Disk(file, x)
      BY <3>1
    <3>4. CASE x = o
      <4>1. x < n /\ x + 1 \in 1 .. n
        BY <3>2, <3>4, <1>0
      <4>2. g[x + 1] = OnDisk(c[o])
        BY <3>4, <4>1
      <4> QED BY <3>3, <3>4, <4>1, <4>2 DEF Disk, OnDisk
    <3>5. CASE x # o /\ x < Len(file)
      <4>1. x < n /\ x + 1 \in 1 .. n /\ x + 1 # o + 1 /\ x + 1 <= Len(file)
        BY <3>2, <3>5, <1>0
      <4>2. g[x + 1] = file[x + 1]
        BY <3>5, <4>1
      <4> QED BY <3>3, <3>5, <4>1, <4>2 DEF Disk
    <3>6. CASE x # o /\ ~(x < Len(file))
      <4>1. ~(x < n)
        BY <3>2, <3>6, <1>0
      <4> QED BY <3>3, <3>6, <4>1 DEF Disk
    <3> QED BY <3>4, <3>5, <3>6
  <2> QED BY <2>1, <2>2
<1>2. DOMAIN d = DOMAIN c \ {o} /\ \A x \in DOMAIN d : d[x] = c[x]
  BY DEF Erase
<1> HIDE DEF f, d
<1>3. Table(f, d) = Table(file, c)
  <2> SUFFICES ASSUME NEW x \in Nat
               PROVE  (IF x \in DOMAIN d THEN d[x].rows ELSE Disk(f, x))
                        = (IF x \in DOMAIN c THEN c[x].rows ELSE Disk(file, x))
    BY TableEqual
  <2> QED BY <1>1, <1>2
<1>4. Clean(f, d)
  BY <1>1, <1>2 DEF Clean, CacheOK
<1> QED BY <1>1, <1>3, <1>4 DEF f, d

-----------------------------------------------------------------------------
(***************************************************************************)
(* One session alone.  Now(s) is the table as it sees it.                   *)
(***************************************************************************)
Now(s) == LiveIn(Table(file, cache[s]))

\* The pages in front of a scan have not been read yet
Fresh(s) ==
  Scanning(s) => \A o \in DOMAIN cache[s] : o > cur[s] => cache[s][o].idx = 0

Base(s) == Clean(file, cache[s]) /\ Fresh(s)

\* The live row of the table at index k of the page the scan reads
FoundAt(s, k) ==
  [rid |-> RidAt(s, k), tag |-> RowAt(s, k).tag, val |-> RowAt(s, k).val]

LEMMA NowTyped ==
  ASSUME NEW R, NEW r \in LiveIn(R)
  PROVE  /\ r \in Found /\ r.rid \in Nat /\ r.tag \in Nat /\ r.val \in Val
         /\ r = [rid |-> r.rid, tag |-> r.tag, val |-> r.val]
         /\ PageOf(r.rid) \in Nat /\ SlotOf(r.rid) \in 1 .. PageSlots
         /\ RowId(PageOf(r.rid), SlotOf(r.rid)) = r.rid
         /\ Holds(R[PageOf(r.rid)], SlotOf(r.rid), r)
<1>1. r \in Found /\ Holds(R[PageOf(r.rid)], SlotOf(r.rid), r)
  BY DEF LiveIn
<1>2. r.rid \in Nat /\ r.tag \in Nat /\ r.val \in Val
      /\ r = [rid |-> r.rid, tag |-> r.tag, val |-> r.val]
  BY <1>1 DEF Found
<1> QED BY <1>1, <1>2, RidBack

\* Two rows of the table with one row id are one row
LEMMA SameRid ==
  ASSUME NEW R, NEW r \in LiveIn(R), NEW q \in LiveIn(R), r.rid = q.rid
  PROVE  r = q
<1>1. /\ r = [rid |-> r.rid, tag |-> r.tag, val |-> r.val]
      /\ q = [rid |-> q.rid, tag |-> q.tag, val |-> q.val]
      /\ Holds(R[PageOf(r.rid)], SlotOf(r.rid), r)
      /\ Holds(R[PageOf(q.rid)], SlotOf(q.rid), q)
  BY NowTyped
<1> QED BY <1>1 DEF Holds

LEMMA FoundAtLive ==
  ASSUME IInv, NEW s \in Session, Clean(file, cache[s]), Scanning(s), CanGet(cache[s], cur[s]),
         NEW k \in Indices(s), AtRow(s, k)
  PROVE  FoundAt(s, k) \in Now(s) /\ ~Behind(s, FoundAt(s, k).rid)
<1> DEFINE p == Current(s)
           slot == SlotAt(p, k)
           r == FoundAt(s, k)
<1>1. /\ k \in Nat /\ slot \in 1 .. Len(p.rows)
      /\ RowAt(s, k) = p.rows[slot] /\ RowAt(s, k) \in Row
      /\ RidAt(s, k) = RowId(cur[s], slot) /\ RidAt(s, k) \in Nat
      /\ PageOf(RidAt(s, k)) = cur[s] /\ SlotOf(RidAt(s, k)) = slot
      /\ cur[s] \in Nat /\ p \in Page
  BY RowOfScan
<1>2. Table(file, cache[s])[cur[s]] = p.rows
  BY <1>1, PassedTable
<1>3. /\ r \in Found /\ r.rid = RidAt(s, k)
      /\ r.tag = RowAt(s, k).tag /\ r.val = RowAt(s, k).val
  BY <1>1 DEF FoundAt, Found, Row
<1>4. ~p.rows[slot].dead
  BY DEF AtRow, NextRowAt, Live
<1>5. Holds(p.rows, slot, r)
  BY <1>1, <1>3, <1>4 DEF Holds
<1>6. r \in Now(s)
  BY <1>1, <1>2, <1>3, <1>5 DEF Now, LiveIn
<1>7. ~Behind(s, r.rid)
  <2>1. k \in p.idx .. (Len(p.rows) - 1) /\ p.idx \in Nat /\ Len(p.rows) \in Nat
    BY <1>1 DEF AtRow, NextRowAt, Page
  <2>2. slot = Len(p.rows) - k
    BY DEF SlotAt
  <2>3. cur[s] \in DOMAIN cache[s] => p = cache[s][cur[s]]
    BY DEF Current, Loaded, WithPage
  <2> HIDE DEF p, slot, r
  <2>4. ~(slot > Len(p.rows) - p.idx)
    BY <2>1, <2>2
  <2> QED BY <1>1, <1>3, <2>3, <2>4 DEF Behind
<1> QED BY <1>6, <1>7

\* Of the rows of the page, those up to index k are behind the scan or at k
LEMMA PassedRows ==
  ASSUME IInv, NEW s \in Session, Clean(file, cache[s]), Scanning(s), CanGet(cache[s], cur[s]),
         NEW k \in Indices(s), AtRow(s, k), NEW r \in Now(s), PageOf(r.rid) = cur[s]
  PROVE  /\ SlotOf(r.rid) \in 1 .. Len(Current(s).rows)
         /\ SlotOf(r.rid) > Len(Current(s).rows) - (k + 1)
              <=> Behind(s, r.rid) \/ r = FoundAt(s, k)
<1> DEFINE p == Current(s)
           j == SlotOf(r.rid)
<1>1. /\ k \in Nat /\ cur[s] \in Nat /\ p \in Page
      /\ RidAt(s, k) = RowId(cur[s], SlotAt(p, k))
      /\ PageOf(RidAt(s, k)) = cur[s] /\ SlotOf(RidAt(s, k)) = SlotAt(p, k)
  BY RowOfScan
<1>2. Table(file, cache[s])[cur[s]] = p.rows
  BY <1>1, PassedTable
<1>3. /\ r.rid \in Nat /\ RowId(cur[s], j) = r.rid /\ Holds(p.rows, j, r)
  BY <1>2, NowTyped DEF Now
<1>4. j \in 1 .. Len(p.rows) /\ ~p.rows[j].dead
  BY <1>3 DEF Holds
<1>5. /\ k \in p.idx .. (Len(p.rows) - 1) /\ p.idx \in Nat /\ Len(p.rows) \in Nat
      /\ \A i \in p.idx .. (k - 1) : p.rows[Len(p.rows) - i].dead
  BY <1>1, SMTT(30) DEF AtRow, NextRowAt, Page, Live, SlotAt
<1>6. cur[s] \in DOMAIN cache[s] => p = cache[s][cur[s]]
  BY DEF Current, Loaded, WithPage
<1>7. cur[s] \notin DOMAIN cache[s] => p.idx = 0
  BY DEF Current, Loaded, WithPage, Put, ReadPage
<1>8. r = FoundAt(s, k) <=> j = SlotAt(p, k)
  <2>1. FoundAt(s, k) \in Now(s) /\ FoundAt(s, k).rid = RidAt(s, k)
    BY FoundAtLive DEF FoundAt
  <2>2. j = SlotAt(p, k) => r.rid = RidAt(s, k)
    BY <1>1, <1>3
  <2>3. r = FoundAt(s, k) => j = SlotAt(p, k)
    BY <2>1, <1>1
  <2> QED BY <2>1, <2>2, <2>3, SameRid DEF Now
<1>9. SlotAt(p, k) = Len(p.rows) - k
  BY DEF SlotAt
<1>10. Behind(s, r.rid) <=> cur[s] \in DOMAIN cache[s] /\ j > Len(p.rows) - p.idx
  BY <1>1, <1>6 DEF Behind
<1> HIDE DEF p, j
<1>11. PICK m \in Nat : m = Len(p.rows)
  BY <1>5
<1>12. ASSUME j > m - (k + 1), j # m - k PROVE j > m - p.idx
  <2>1. PICK i \in Nat : i = m - j
    <3>1. j \in 1 .. m
      BY <1>4, <1>11
    <3> QED BY <3>1
  <2>2. j = m - i
    BY <2>1, <1>4, <1>11
  <2>3. i \notin p.idx .. (k - 1)
    BY <2>2, <1>4, <1>5, <1>11
  <2>4. i < k
    BY <2>1, <2>2, <1>1, <1>4, <1>11, <1>12
  <2>5. i < p.idx
    BY <2>3, <2>4, <1>1, <1>5
  <2> QED BY <2>2, <2>5, <1>5, <1>11
<1>13. ASSUME j > m - p.idx PROVE j > m - (k + 1)
  BY <1>1, <1>4, <1>5, <1>11, <1>13
<1>14. j = m - k => j > m - (k + 1)
  BY <1>1, <1>11
<1>15. j > m - p.idx => cur[s] \in DOMAIN cache[s]
  BY <1>4, <1>7, <1>11
<1>16. (j > m - (k + 1)) <=> (cur[s] \in DOMAIN cache[s] /\ j > m - p.idx) \/ j = m - k
  BY <1>12, <1>13, <1>14, <1>15
<1>17. j > Len(p.rows) - (k + 1) <=> Behind(s, r.rid) \/ r = FoundAt(s, k)
  BY <1>8, <1>9, <1>10, <1>11, <1>16
<1> QED BY <1>4, <1>17 DEF p, j

\* When the page holds no further row, its rows are behind the scan
LEMMA PageDone ==
  ASSUME IInv, NEW s \in Session, Clean(file, cache[s]), Scanning(s), CanGet(cache[s], cur[s]),
         ~HaveRow(Current(s)), NEW r \in Now(s), PageOf(r.rid) = cur[s]
  PROVE  Behind(s, r.rid)
<1> DEFINE p == Current(s)
           j == SlotOf(r.rid)
<1>1. PageOK(p, cur[s]) /\ cur[s] \in Nat /\ p \in Page
  BY LoadedOK DEF PageOK
<1>2. Table(file, cache[s])[cur[s]] = p.rows
  <2>1. 0 \in Nat
    OBVIOUS
  <2> QED BY <2>1, PassedTable
<1>3. j \in 1 .. Len(p.rows) /\ ~p.rows[j].dead
  BY <1>2, NowTyped DEF Now, Holds
<1>4. p.idx \in Nat /\ Len(p.rows) \in Nat
  BY <1>1 DEF Page
<1>5. \A k \in p.idx .. (Len(p.rows) - 1) : p.rows[Len(p.rows) - k].dead
  BY DEF HaveRow, Live, SlotAt
<1>6. cur[s] \in DOMAIN cache[s] => p = cache[s][cur[s]]
  BY DEF Current, Loaded, WithPage
<1>7. cur[s] \notin DOMAIN cache[s] => p.idx = 0
  BY DEF Current, Loaded, WithPage, Put, ReadPage
<1> HIDE DEF p, j
<1>8. PICK m \in Nat : m = Len(p.rows)
  BY <1>4
<1>9. PICK i \in Nat : i = m - j
  <2>1. j \in 1 .. m
    BY <1>3, <1>8
  <2> QED BY <2>1
<1>10. j = m - i /\ i <= m - 1
  BY <1>3, <1>8, <1>9
<1>11. i < p.idx
  BY <1>3, <1>4, <1>5, <1>8, <1>10
<1>12. j > m - p.idx /\ cur[s] \in DOMAIN cache[s]
  BY <1>4, <1>7, <1>10, <1>11
<1> QED BY <1>6, <1>8, <1>12 DEF Behind, j

-----------------------------------------------------------------------------
(***************************************************************************)
(* The effect of each step on the table of the session that takes it.       *)
(***************************************************************************)
\* What a step that reads on, or writes a page back, leaves as it was
Unmoved(s) ==
  /\ Table(file, cache[s])' = Table(file, cache[s]) /\ Now(s)' = Now(s)
  /\ Clean(file, cache[s])' /\ Fresh(s)'

\* The pages that are still to be written
Dirty(c) == {o \in DOMAIN c : c[o].dirty}

\* Page o, in front of all pages still to be written, goes to the file
Writes(s, o) ==
  /\ o \in Nat
  /\ \A x \in Nat : Disk(file', x) = IF x = o THEN Table(file, cache[s])[x] ELSE Disk(file, x)
  /\ \A x \in Dirty(cache[s]) : x >= o
  /\ Dirty(cache[s]) \ {o} \subseteq Dirty(cache'[s])
  /\ Len(file') >= Len(file) /\ Len(file) \in Nat /\ Len(file') \in Nat
  /\ o \in Dirty(cache[s]) => Len(file') > o

\* A scan passes the row at index k
LEMMA PassEffect ==
  ASSUME IInv, NEW s \in Session, Base(s), SkipRow(s) \/ SelectRow(s)
  PROVE  /\ Unmoved(s)
         /\ \E k \in Indices(s), r \in Now(s) :
              /\ r = FoundAt(s, k) /\ ~Behind(s, r.rid)
              /\ Selects(s, k) <=> r.val \in stmt[s].filter
              /\ Selects(s, k) <=> SelectRow(s)
              /\ SelectRow(s) => out' = [out EXCEPT ![s] = Append(@, FoundAt(s, k))]
              /\ SkipRow(s) => out' = out
              /\ \A q \in Now(s) : Behind(s, q.rid)' <=> Behind(s, q.rid) \/ q = r
<1>1. Types /\ FileOK /\ Clean(file, cache[s]) /\ Fresh(s)
  BY DEF IInv, Base
<1>2. /\ Scanning(s) /\ CanGet(cache[s], cur[s])
      /\ UNCHANGED <<file, cur, pc, stmt, snap>>
  BY DEF SkipRow, SelectRow, local
<1>3. PICK k \in Indices(s) :
        /\ AtRow(s, k) /\ cache' = [cache EXCEPT ![s] = Passed(s, k)]
        /\ Selects(s, k) <=> SelectRow(s)
        /\ SelectRow(s) => out' = [out EXCEPT ![s] = Append(@, FoundAt(s, k))]
        /\ SkipRow(s) => out' = out
  <2>1. CASE SkipRow(s)
    <3>1. PICK k \in Indices(s) : AtRow(s, k) /\ ~Selects(s, k) /\ cache' = [cache EXCEPT ![s] = Passed(s, k)]
      BY <2>1 DEF SkipRow
    <3>2. ~SelectRow(s)
      <4> SUFFICES ASSUME SelectRow(s) PROVE FALSE
        OBVIOUS
      <4>1. PICK j \in Indices(s) : AtRow(s, j) /\ Selects(s, j)
        BY DEF SelectRow
      <4>2. j = k
        <5>1. Current(s) \in Page
          BY <1>2, RowOfScan
        <5>2. Current(s).idx \in Nat /\ Len(Current(s).rows) \in Nat
          BY <5>1 DEF Page
        <5> QED BY <3>1, <4>1, <5>2 DEF AtRow, NextRowAt
      <4> QED BY <3>1, <4>1, <4>2
    <3> QED BY <2>1, <3>1, <3>2 DEF SkipRow, local
  <2>2. CASE SelectRow(s)
    <3>1. PICK k \in Indices(s) :
            /\ AtRow(s, k) /\ Selects(s, k) /\ cache' = [cache EXCEPT ![s] = Passed(s, k)]
            /\ out' = [out EXCEPT ![s] = Append(@, FoundAt(s, k))]
      BY <2>2 DEF SelectRow, FoundAt
    <3>2. ~SkipRow(s)
      <4> SUFFICES ASSUME SkipRow(s) PROVE FALSE
        OBVIOUS
      <4>1. PICK j \in Indices(s) : AtRow(s, j) /\ ~Selects(s, j)
        BY DEF SkipRow
      <4>2. j = k
        <5>1. Current(s) \in Page
          BY <1>2, RowOfScan
        <5>2. Current(s).idx \in Nat /\ Len(Current(s).rows) \in Nat
          BY <5>1 DEF Page
        <5> QED BY <3>1, <4>1, <5>2 DEF AtRow, NextRowAt
      <4> QED BY <3>1, <4>1, <4>2
    <3> QED BY <2>2, <3>1, <3>2
  <2> QED BY <2>1, <2>2
<1>4. k \in Nat /\ cur[s] \in Nat /\ Current(s) \in Page
  BY <1>2, RowOfScan
<1>5. /\ Table(file, Passed(s, k)) = Table(file, cache[s])
      /\ Clean(file, Passed(s, k))
      /\ cur[s] \in DOMAIN Passed(s, k)
      /\ Passed(s, k)[cur[s]].rows = Current(s).rows
      /\ Passed(s, k)[cur[s]].idx = k + 1
  BY <1>1, <1>2, <1>4, PassedTable, PassedPage
<1>6. cache'[s] = Passed(s, k) /\ cur'[s] = cur[s] /\ pc'[s] = pc[s] /\ stmt'[s] = stmt[s] /\ file' = file
  BY <1>1, <1>2, <1>3 DEF Types
<1>7. Now(s)' = Now(s) /\ Table(file, cache[s])' = Table(file, cache[s]) /\ Clean(file, cache[s])'
  BY <1>5, <1>6 DEF Now
<1>8. Fresh(s)'
  <2>1. \A o \in DOMAIN Passed(s, k) : o # cur[s] =>
          Passed(s, k)[o].idx = 0 \/ (o \in DOMAIN cache[s] /\ Passed(s, k)[o] = cache[s][o])
    BY DEF Passed, Put, Loaded, WithPage
  <2> QED BY <2>1, <1>1, <1>2, <1>4, <1>6 DEF Fresh, Scanning
<1>9. PICK r \in Now(s) : r = FoundAt(s, k) /\ ~Behind(s, r.rid)
  BY <1>1, <1>2, <1>3, FoundAtLive
<1>10. ASSUME NEW q \in Now(s) PROVE Behind(s, q.rid)' <=> Behind(s, q.rid) \/ q = r
  <2>1. PageOf(q.rid) \in Nat
    BY NowTyped DEF Now
  <2>2. CASE PageOf(q.rid) = cur[s]
    <3>1. SlotOf(q.rid) > Len(Current(s).rows) - (k + 1) <=> Behind(s, q.rid) \/ q = r
      BY <2>2, <1>1, <1>2, <1>3, <1>9, PassedRows
    <3>2. Behind(s, q.rid)' <=> SlotOf(q.rid) > Len(Current(s).rows) - (k + 1)
      BY <2>1, <2>2, <1>4, <1>5, <1>6 DEF Behind
    <3> QED BY <3>1, <3>2
  <2>3. CASE PageOf(q.rid) # cur[s]
    <3>1. PageOf(r.rid) = cur[s]
      BY <1>2, <1>9, RowOfScan DEF FoundAt
    <3> QED BY <2>3, <3>1, <1>6 DEF Behind
  <2> QED BY <2>2, <2>3
<1>11. Selects(s, k) <=> r.val \in stmt[s].filter
  BY <1>9 DEF Selects, FoundAt
<1> QED BY <1>3, <1>7, <1>8, <1>9, <1>10, <1>11 DEF Unmoved

\* The scan goes to the next page
LEMMA NextPageEffect ==
  ASSUME IInv, NEW s \in Session, Base(s), NextPage(s)
  PROVE  /\ Unmoved(s)
         /\ \A r \in Now(s) : Behind(s, r.rid)' <=> Behind(s, r.rid)
         /\ Writes(s, cur[s])
<1> DEFINE c == Loaded(s)
           e == WithLastPage(c)
           o == cur[s]
           d == Erase(e, o)
           R == Table(file, cache[s])
<1>1. Types /\ FileOK /\ SessionOK(s) /\ Clean(file, cache[s]) /\ Fresh(s)
  BY DEF IInv, Base
<1>2. /\ Scanning(s) /\ CanGet(cache[s], o) /\ ~HaveRow(Current(s))
      /\ cache' = [cache EXCEPT ![s] = d]
      /\ file' = WriteBack(o, e[o])
      /\ cur' = [cur EXCEPT ![s] = e[o].next]
      /\ UNCHANGED <<pc, stmt, out, snap>>
  BY DEF NextPage
<1>3. /\ Held(c, Len(file)) /\ o \in Nat /\ o \in DOMAIN c /\ Ahead(c, o) /\ Len(file) \in Nat
  BY <1>1, <1>2, LoadedOK DEF FileOK
<1>4. Table(file, c) = R /\ Clean(file, c)
  <2>1. 0 \in Nat
    OBVIOUS
  <2> QED BY <2>1, <1>1, <1>2, PassedTable
<1>5. /\ CacheOK(e) /\ Linked(e, Len(file)) /\ CacheOK(c)
      /\ \A x \in DOMAIN c : x \in DOMAIN e /\ e[x] = c[x]
      /\ \A x \in DOMAIN e \ DOMAIN c : ~e[x].dirty /\ e[x].idx = 0
  <2> HIDE DEF c
  <2>1. \A x \in DOMAIN e \ DOMAIN c : e[x].idx = 0
    BY DEF WithLastPage, WithPage, Put, ReadPage, NewPage
  <2> QED BY <2>1, <1>1, <1>3, WithLastPageOK DEF Held
<1>6. Table(file, e) = R /\ Clean(file, e)
  <2> HIDE DEF c
  <2> QED BY <1>1, <1>4, <1>5, LastPageTable
<1>7. \A x \in DOMAIN e : x > o => e[x].idx = 0
  <2>1. \A x \in DOMAIN c : x # o => x \in DOMAIN cache[s] /\ c[x] = cache[s][x]
    BY DEF Loaded, WithPage, Put
  <2>2. \A x \in DOMAIN c : x > o => c[x].idx = 0
    BY <2>1, <1>1, <1>2, <1>3, <1>5 DEF Fresh, CacheOK
  <2> QED BY <2>2, <1>5
<1>17. \A x \in DOMAIN cache[s] : x \in DOMAIN c /\ c[x] = cache[s][x]
  BY DEF Loaded, WithPage, Put
<1> HIDE DEF c, e, o, R
<1>8. o \in DOMAIN e /\ e[o].next = o + 1 /\ Ahead(e, o)
  BY <1>3, <1>5 DEF CacheOK, PageOK, Ahead
<1>9. e[o].dirty => o <= Len(file)
  <2> SUFFICES ASSUME e[o].dirty, o > Len(file) PROVE FALSE
    BY <1>3
  <2>1. o - 1 \in DOMAIN e /\ e[o - 1].dirty
    BY <1>3, <1>5, <1>8 DEF Linked
  <2> QED BY <2>1, <1>3, <1>8 DEF Ahead
<1>10. /\ \A x \in Nat : Disk(file', x) = IF x = o THEN e[o].rows ELSE Disk(file, x)
       /\ Table(file', d) = Table(file, e)
       /\ Clean(file', d)
  BY <1>1, <1>2, <1>5, <1>6, <1>8, <1>9, WriteBackTable
<1>11. cache'[s] = d /\ cur'[s] = o + 1 /\ pc'[s] = pc[s] /\ stmt'[s] = stmt[s]
  BY <1>1, <1>2, <1>8 DEF Types
<1>12. DOMAIN d = DOMAIN e \ {o} /\ \A x \in DOMAIN d : d[x] = e[x]
  BY DEF Erase
<1> HIDE DEF d
<1>13. Now(s)' = Now(s) /\ Table(file, cache[s])' = Table(file, cache[s]) /\ Clean(file, cache[s])'
  BY <1>6, <1>10, <1>11 DEF Now, R
<1>14. Fresh(s)'
  <2>1. \A x \in DOMAIN d : x > o + 1 => d[x].idx = 0
    BY <1>3, <1>5, <1>7, <1>12 DEF CacheOK
  <2> QED BY <2>1, <1>11 DEF Fresh
<1>15. ASSUME NEW r \in Now(s) PROVE Behind(s, r.rid)' <=> Behind(s, r.rid)
  <2>1. PageOf(r.rid) \in Nat /\ Holds(R[PageOf(r.rid)], SlotOf(r.rid), r)
    BY NowTyped DEF Now, R
  <2>2. ASSUME Behind(s, r.rid) PROVE Behind(s, r.rid)'
    <3>1. PageOf(r.rid) <= o
      BY <2>1, <2>2, <1>3 DEF Behind, o
    <3>2. PageOf(r.rid) < o + 1
      BY <2>1, <3>1, <1>3
    <3> QED BY <3>2, <1>11 DEF Behind
  <2>3. ASSUME Behind(s, r.rid)' PROVE Behind(s, r.rid)
    <3>1. CASE PageOf(r.rid) < o
      BY <3>1 DEF Behind, o
    <3>2. CASE PageOf(r.rid) = o
      BY <3>2, <1>1, <1>2, PageDone DEF o
    <3>3. CASE PageOf(r.rid) = o + 1 /\ o + 1 \in DOMAIN d /\ SlotOf(r.rid) > Len(d[o + 1].rows) - d[o + 1].idx
      <4>1. d[o + 1] = e[o + 1] /\ o + 1 \in DOMAIN e /\ d[o + 1].idx = 0
        BY <3>3, <1>3, <1>7, <1>12
      <4>2. R[o + 1] = d[o + 1].rows
        BY <4>1, <1>3, <1>6 DEF Table
      <4>3. SlotOf(r.rid) \in 1 .. Len(d[o + 1].rows)
        BY <2>1, <3>3, <4>2 DEF Holds
      <4>4. Len(d[o + 1].rows) \in Nat
        BY <4>1, <1>5 DEF CacheOK, PageOK, Page
      <4>5. PICK m \in Nat : m = Len(d[o + 1].rows)
        BY <4>4
      <4>6. SlotOf(r.rid) > m - 0 /\ SlotOf(r.rid) \in 1 .. m
        BY <3>3, <4>1, <4>3, <4>5
      <4> QED BY <4>6
    <3>4. (PageOf(r.rid) < o + 1)
          \/ (PageOf(r.rid) = o + 1 /\ o + 1 \in DOMAIN d /\ SlotOf(r.rid) > Len(d[o + 1].rows) - d[o + 1].idx)
      BY <2>3, <1>11 DEF Behind
    <3> QED BY <3>1, <3>2, <3>3, <3>4, <2>1, <1>3
  <2> QED BY <2>2, <2>3
<1>16. \A x \in Nat : Disk(file', x) = IF x = o THEN R[x] ELSE Disk(file, x)
  <2>1. R[o] = e[o].rows
    BY <1>3, <1>6, <1>8 DEF Table
  <2> QED BY <2>1, <1>10
<1>18. Dirty(cache[s]) \ {o} \subseteq Dirty(cache'[s]) /\ \A x \in Dirty(cache[s]) : x >= o
  <2>1. \A x \in Dirty(cache[s]) : x \in DOMAIN e /\ e[x] = cache[s][x] /\ e[x].dirty
    BY <1>5, <1>17 DEF Dirty
  <2> QED BY <2>1, <1>8, <1>11, <1>12 DEF Dirty, Ahead
<1>19. /\ Len(file') >= Len(file) /\ Len(file') \in Nat
       /\ o \in Dirty(cache[s]) => Len(file') > o
  <2>1. PageOK(e[o], o) /\ (o \in Dirty(cache[s]) => e[o].dirty)
    BY <1>5, <1>8, <1>17 DEF CacheOK, Dirty
  <2>2. PICK f : f = WriteBack(o, e[o])
    OBVIOUS
  <2>3. f \in Seq(DiskPage) /\ Len(f) >= Len(file) /\ (e[o].dirty => Len(f) > o)
    BY <2>1, <2>2, <1>1, <1>3, <1>9, WriteBackOK
  <2> QED BY <2>1, <2>2, <2>3, <1>2
<1>20. Writes(s, o)
  BY <1>3, <1>16, <1>18, <1>19 DEF Writes, R
<1> QED BY <1>13, <1>14, <1>15, <1>20 DEF Unmoved, o

\* When the scan ends every row of the table is behind it
LEMMA ScanEndEffect ==
  ASSUME IInv, NEW s \in Session, Base(s), ScanEnd(s)
  PROVE  Unmoved(s) /\ \A r \in Now(s) : Behind(s, r.rid)
<1> DEFINE c == Loaded(s)
           e == WithLastPage(c)
           o == cur[s]
           R == Table(file, cache[s])
<1>1. /\ Types /\ FileOK /\ SessionOK(s) /\ Clean(file, cache[s]) /\ Fresh(s)
      /\ Len(file) \in Nat /\ o \in Nat /\ CacheOK(cache[s])
  BY DEF IInv, Base, FileOK, Types, SessionOK
<1>2. Scanning(s) /\ pc' = [pc EXCEPT ![s] = "close"] /\ UNCHANGED <<file, cur, stmt>>
  BY DEF ScanEnd
<1>3. Fresh(s)'
  BY <1>1, <1>2 DEF Fresh, Scanning, Types
<1>4. CASE ~CanGet(cache[s], o) /\ UNCHANGED cache
  <2>1. Now(s)' = Now(s) /\ Table(file, cache[s])' = Table(file, cache[s]) /\ Clean(file, cache[s])'
    BY <1>1, <1>2, <1>4 DEF Now
  <2>2. o \notin DOMAIN cache[s] /\ o >= Len(file)
    BY <1>1, <1>4 DEF CanGet, EndOffset
  <2>3. Filled(cache[s], Len(file)) /\ Linked(cache[s], Len(file))
    BY <1>1, <1>2 DEF SessionOK, Scanning
  <2>4. \A x \in DOMAIN cache[s] : x < o
    <3> SUFFICES ASSUME NEW x \in DOMAIN cache[s], x >= o PROVE FALSE
      BY <1>1 DEF CacheOK
    <3>1. x \in Nat /\ x > o /\ x >= Len(file)
      BY <2>2, <1>1 DEF CacheOK
    <3>2. cache[s][x].dirty /\ o \in Len(file) .. (x - 1)
      BY <3>1, <2>2, <2>3, <1>1 DEF Filled
    <3> QED BY <3>2, <2>2, <2>3 DEF Linked
  <2>5. ASSUME NEW r \in Now(s) PROVE PageOf(r.rid) < o
    <3>1. PageOf(r.rid) \in Nat /\ SlotOf(r.rid) \in 1 .. Len(R[PageOf(r.rid)])
      BY NowTyped DEF Now, Holds
    <3> DEFINE q == PageOf(r.rid)
    <3> HIDE DEF q
    <3>2. q \in DOMAIN cache[s] \/ q < Len(file)
      <4> SUFFICES ASSUME q \notin DOMAIN cache[s], ~(q < Len(file)) PROVE FALSE
        OBVIOUS
      <4>1. R[q] = <<>>
        BY <3>1 DEF Table, Disk, q
      <4> QED BY <3>1, <4>1 DEF q
    <3>3. q < o
      BY <3>1, <3>2, <2>2, <2>4, <1>1 DEF q
    <3> QED BY <3>3 DEF q
  <2> QED BY <2>1, <2>5, <1>3 DEF Unmoved, Behind
<1>5. CASE /\ CanGet(cache[s], o) /\ ~HaveRow(Current(s))
           /\ IsLast(e, o) /\ cache' = [cache EXCEPT ![s] = e]
  <2>1. /\ Held(c, Len(file)) /\ o \in DOMAIN c
    BY <1>2, <1>5, LoadedOK
  <2>2. Table(file, c) = R /\ Clean(file, c)
    <3>1. 0 \in Nat
      OBVIOUS
    <3> QED BY <3>1, <1>1, <1>2, <1>5, PassedTable
  <2>3. Table(file, e) = R /\ Clean(file, e)
    <3> HIDE DEF c
    <3> QED BY <1>1, <2>1, <2>2, LastPageTable DEF Held
  <2>4. cache'[s] = e /\ file' = file
    BY <1>1, <1>2, <1>5 DEF Types
  <2>5. Now(s)' = Now(s) /\ Table(file, cache[s])' = Table(file, cache[s]) /\ Clean(file, cache[s])'
    BY <2>3, <2>4 DEF Now
  <2>6. \A p \in Nat : p > o => R[p] = <<>>
    <3> HIDE DEF c
    <3>1. o \in DOMAIN WithLastPage(c) /\ IsLast(WithLastPage(c), o)
      BY <1>5 DEF IsLast
    <3> QED BY <3>1, <1>1, <2>1, <2>2, LastIsLast
  <2>7. ASSUME NEW r \in Now(s) PROVE Behind(s, r.rid)
    <3>1. PageOf(r.rid) \in Nat /\ SlotOf(r.rid) \in 1 .. Len(R[PageOf(r.rid)])
      BY NowTyped DEF Now, Holds
    <3>2. ~(PageOf(r.rid) > o)
      <4> SUFFICES ASSUME PageOf(r.rid) > o PROVE FALSE
        OBVIOUS
      <4>1. R[PageOf(r.rid)] = <<>>
        BY <2>6, <3>1
      <4> QED BY <3>1, <4>1
    <3>3. CASE PageOf(r.rid) = o
      BY <3>3, <1>1, <1>2, <1>5, PageDone
    <3>4. CASE PageOf(r.rid) < o
      BY <3>4 DEF Behind
    <3> QED BY <3>1, <3>2, <3>3, <3>4, <1>1
  <2> QED BY <2>5, <2>7, <1>3 DEF Unmoved
<1> QED BY <1>4, <1>5 DEF ScanEnd

\* A page is written back when the statement closes
LEMMA FlushEffect ==
  ASSUME IInv, NEW s \in Session, Base(s), Flush(s)
  PROVE  /\ Unmoved(s)
         /\ \E o \in Nat : Writes(s, o)
<1>1. Types /\ FileOK /\ SessionOK(s) /\ Clean(file, cache[s])
  BY DEF IInv, Base
<1> DEFINE c == cache[s]
<1>2. PICK o \in DOMAIN c :
        /\ \A x \in DOMAIN c : o <= x
        /\ file' = WriteBack(o, c[o])
        /\ cache' = [cache EXCEPT ![s] = Erase(c, o)]
  BY DEF Flush
<1>3. pc[s] = "close" /\ UNCHANGED <<pc, stmt, cur>>
  BY DEF Flush, local
<1>4. CacheOK(c) /\ Linked(c, Len(file)) /\ o \in Nat /\ Len(file) \in Nat
  BY <1>1 DEF SessionOK, CacheOK, FileOK
<1>5. c[o].dirty => o <= Len(file)
  <2> SUFFICES ASSUME c[o].dirty, o > Len(file) PROVE FALSE
    BY <1>4
  <2>1. o - 1 \in DOMAIN c
    BY <1>4 DEF Linked
  <2> QED BY <2>1, <1>2, <1>4
<1>6. cache'[s] = Erase(c, o)
  BY <1>1, <1>2 DEF Types
<1>7. /\ \A x \in Nat : Disk(file', x) = IF x = o THEN c[o].rows ELSE Disk(file, x)
      /\ Table(file', cache'[s]) = Table(file, c)
      /\ Clean(file', cache'[s])
  BY <1>1, <1>2, <1>4, <1>5, <1>6, WriteBackTable
<1>8. Now(s)' = Now(s) /\ Table(file, cache[s])' = Table(file, cache[s]) /\ Clean(file, cache[s])' /\ Fresh(s)'
  BY <1>1, <1>3, <1>7 DEF Now, Fresh, Scanning
<1>9. DOMAIN cache'[s] = DOMAIN c \ {o} /\ \A x \in DOMAIN cache'[s] : cache'[s][x] = c[x]
  BY <1>6 DEF Erase
<1>10. Table(file, c)[o] = c[o].rows
  BY <1>4 DEF Table
<1>11. Dirty(c) \ {o} \subseteq Dirty(cache'[s]) /\ \A x \in Dirty(c) : x >= o
  BY <1>2, <1>4, <1>9 DEF Dirty, CacheOK
<1>12. /\ Len(file') >= Len(file) /\ Len(file') \in Nat
       /\ o \in Dirty(c) => Len(file') > o
  <2>1. PageOK(c[o], o) /\ (o \in Dirty(c) => c[o].dirty)
    BY <1>4 DEF CacheOK, Dirty
  <2>2. PICK f : f = WriteBack(o, c[o])
    OBVIOUS
  <2>3. f \in Seq(DiskPage) /\ Len(f) >= Len(file) /\ (c[o].dirty => Len(f) > o)
    BY <2>1, <2>2, <1>1, <1>4, <1>5, WriteBackOK
  <2> QED BY <2>1, <2>2, <2>3, <1>2
<1>13. Writes(s, o)
  BY <1>4, <1>7, <1>10, <1>11, <1>12 DEF Writes
<1> QED BY <1>4, <1>8, <1>13 DEF Unmoved

\* No operation on a cache forgets a page that is still to be written
LEMMA PutDirty ==
  ASSUME NEW c, NEW o, NEW p
  PROVE  /\ Dirty(c) \ {o} \subseteq Dirty(Put(c, o, p))
         /\ p.dirty => o \in Dirty(Put(c, o, p))
         /\ ~p.dirty => Dirty(Put(c, o, p)) = Dirty(c) \ {o}
BY DEF Dirty, Put

LEMMA LoadDirty ==
  ASSUME NEW c, NEW o
  PROVE  Dirty(c) \subseteq Dirty(WithPage(c, o)) /\ Dirty(c) \subseteq Dirty(WithLastPage(c))
BY DEF Dirty, Put, WithPage, WithLastPage

LEMMA InsertDirty ==
  ASSUME NEW c, CacheOK(c), NEW o \in DOMAIN c, IsLast(c, o), NEW r,
         NEW placed, placed = InsertAt(c, o, r)
  PROVE  /\ Dirty(c) \subseteq Dirty(placed.cache)
         /\ placed.ok => placed.off \in Dirty(placed.cache)
<1>1. o \in Nat /\ c[o].next = o + 1 /\ \A x \in DOMAIN c : x \in Nat /\ x <= o
  BY DEF CacheOK, PageOK, IsLast
<1>2. o + 1 \notin Dirty(c)
  BY <1>1 DEF Dirty
<1>3. CASE c[o].free >= Width[r.val]
  <2>1. WithRow(c[o], r).dirty
    BY DEF WithRow
  <2>2. placed.cache = Put(c, o, WithRow(c[o], r)) /\ placed.off = o
    BY <1>3 DEF InsertAt
  <2> QED BY <2>1, <2>2, PutDirty
<1>4. CASE ~(c[o].free >= Width[r.val]) /\ PageCapacity >= Width[r.val]
  <2>1. WithRow(NewPage(o + 1), r).dirty
    BY DEF WithRow
  <2>2. placed.cache = Put(c, o + 1, WithRow(NewPage(o + 1), r)) /\ placed.off = o + 1
    BY <1>1, <1>4 DEF InsertAt
  <2> QED BY <1>2, <2>1, <2>2, PutDirty
<1>5. CASE ~(c[o].free >= Width[r.val]) /\ ~(PageCapacity >= Width[r.val])
  <2>1. placed.cache = Put(c, o + 1, NewPage(o + 1)) /\ placed.ok = FALSE
    BY <1>1, <1>5 DEF InsertAt
  <2> QED BY <1>2, <2>1, PutDirty
<1> QED BY <1>3, <1>4, <1>5

LEMMA DeleteDirty ==
  ASSUME NEW c, CacheOK(c), NEW o \in DOMAIN c, NEW slot \in 1 .. Len(c[o].rows),
         slot \in 1 .. PageSlots
  PROVE  Dirty(c) \cup {o} \subseteq Dirty(DeleteRid(c, RowId(o, slot)))
<1>1. o \in Nat /\ PageOK(c[o], o)
  BY DEF CacheOK
<1>2. WithoutRow(c[o], slot).dirty
  BY <1>1, WithoutRowOK
<1>3. DeleteRid(c, RowId(o, slot)) = Put(c, o, WithoutRow(c[o], slot))
  BY <1>1, RidPage DEF DeleteRid
<1> QED BY <1>2, <1>3, PutDirty

LEMMA PassedDirty ==
  ASSUME NEW s \in Session, Current(s) \in Page, NEW k
  PROVE  Dirty(cache[s]) \subseteq Dirty(Passed(s, k))
<1>1. Dirty(cache[s]) \subseteq Dirty(Loaded(s))
  BY LoadDirty DEF Loaded
<1> DEFINE p == [Current(s) EXCEPT !.idx = k]
           q == [Current(s) EXCEPT !.idx = k + 1]
<1>2. q.dirty = Current(s).dirty
  BY DEF Page
<1>3. cur[s] \in Dirty(Loaded(s)) => q.dirty
  BY <1>2 DEF Dirty, Current
<1>4. Dirty(Loaded(s)) \subseteq Dirty(Put(Loaded(s), cur[s], q))
  <2> HIDE DEF q
  <2> QED BY <1>3, PutDirty
<1> QED BY <1>1, <1>4 DEF Passed

\* Insertions and deletions leave the index of every page alone
LEMMA InsertIndex ==
  ASSUME FileOK, NEW c, Held(c, Len(file)), NEW r \in Row,
         NEW o \in DOMAIN WithLastPage(c), IsLast(WithLastPage(c), o)
  PROVE  LET d == InsertAt(WithLastPage(c), o, r).cache IN
         \A x \in DOMAIN d : d[x].idx = IF x \in DOMAIN c THEN c[x].idx ELSE 0
<1> DEFINE e == WithLastPage(c)
           d == InsertAt(e, o, r).cache
<1>1. \A x \in DOMAIN e : e[x].idx = IF x \in DOMAIN c THEN c[x].idx ELSE 0
  BY DEF WithLastPage, WithPage, Put, ReadPage, NewPage
<1>2. /\ o \in Nat /\ PageOK(e[o], o) /\ e[o].next = o + 1 /\ o + 1 > o /\ o + 1 \in Nat
      /\ \A p \in Nat : p > o => p \notin DOMAIN e
      /\ \A p \in DOMAIN c : p <= o
  BY LastIsLast DEF PageOK
<1>3. o + 1 \notin DOMAIN e /\ o + 1 \notin DOMAIN c
  <2>1. \A p \in DOMAIN c : p # o + 1
    BY <1>2 DEF Held, CacheOK
  <2> QED BY <2>1, <1>2
<1>4. o \in DOMAIN e
  OBVIOUS
<1> HIDE DEF e
<1>5. WithRow(e[o], r).idx = e[o].idx
      /\ WithRow(NewPage(o + 1), r).idx = 0 /\ NewPage(o + 1).idx = 0
  BY DEF WithRow, NewPage
<1>6. \/ d = Put(e, o, WithRow(e[o], r))
      \/ d = Put(e, o + 1, WithRow(NewPage(o + 1), r))
      \/ d = Put(e, o + 1, NewPage(o + 1))
  BY <1>2 DEF InsertAt
<1> HIDE DEF d
<1>7. CASE d = Put(e, o, WithRow(e[o], r))
  BY <1>1, <1>4, <1>5, <1>7 DEF Put, d, e
<1>8. CASE d = Put(e, o + 1, WithRow(NewPage(o + 1), r))
  BY <1>1, <1>3, <1>5, <1>8 DEF Put, d, e
<1>9. CASE d = Put(e, o + 1, NewPage(o + 1))
  BY <1>1, <1>3, <1>5, <1>9 DEF Put, d, e
<1> QED BY <1>6, <1>7, <1>8, <1>9 DEF d, e

\* Row id rid lies above every row id the table has used
Above(R, rid) == \A o \in Nat : \A k \in 1 .. Len(R[o]) : RowId(o, k) < rid

\* The id of a row behind the last one lies above all others
LEMMA AppendAbove ==
  ASSUME NEW R \in [Nat -> Seq(Row)], \A o \in Nat : Len(R[o]) <= PageSlots,
         NEW p \in Nat, \A o \in Nat : o > p => R[o] = <<>>
  PROVE  Above(R, RowId(p, Len(R[p]) + 1))
<1> SUFFICES ASSUME NEW o \in Nat, NEW k \in 1 .. Len(R[o])
             PROVE  RowId(o, k) < RowId(p, Len(R[p]) + 1)
  BY DEF Above
<1>0. PageSlots \in Nat \ {0}
  BY PageAssumption
<1>1. PICK m \in Nat : m = Len(R[p])
  OBVIOUS
<1>2. PICK n \in Nat : n = Len(R[o]) /\ n <= PageSlots /\ k \in 1 .. n
  OBVIOUS
<1>3. ~(o > p)
  BY <1>2
<1>4. PICK a \in Nat : a = o * PageSlots
  BY <1>0
<1>5. CASE o = p
  <2>1. k <= m
    BY <1>1, <1>2, <1>5
  <2>2. RowId(o, k) = a + k - 1 /\ RowId(p, m + 1) = a + m
    BY <1>4, <1>1, <1>2, <1>5 DEF RowId
  <2> QED BY <2>1, <2>2, <1>1, <1>2, <1>4, SMTT(30)
<1>6. CASE o < p
  <2>1. PICK d \in Nat : p = o + 1 + d
    BY <1>6
  <2>2. PICK b \in Nat : b = d * PageSlots
    BY <1>0, <2>1
  <2>3. p * PageSlots = a + PageSlots + b
    BY <1>0, <1>4, <2>1, <2>2
  <2>4. RowId(o, k) = a + k - 1
    BY <1>4 DEF RowId
  <2>5. RowId(p, m + 1) = a + PageSlots + b + (m + 1) - 1
    BY <2>3 DEF RowId
  <2>6. k \in Nat /\ k <= PageSlots
    BY <1>0, <1>2
  <2>7. a + k - 1 < a + PageSlots + b + (m + 1) - 1
    <3>1. a \in Nat /\ b \in Nat /\ m \in Nat /\ PageSlots \in Nat
      BY <2>2, <1>0, <1>1, <1>4
    <3> QED BY <3>1, <2>6
  <2> QED BY <2>4, <2>5, <2>7, <1>1
<1> QED BY <1>3, <1>5, <1>6

LEMMA AboveLonger ==
  ASSUME NEW R \in [Nat -> Seq(Row)], NEW S \in [Nat -> Seq(Row)],
         \A o \in Nat : Len(R[o]) <= Len(S[o]), NEW rid \in Nat, Above(S, rid)
  PROVE  Above(R, rid)
<1> SUFFICES ASSUME NEW o \in Nat, NEW k \in 1 .. Len(R[o])
             PROVE  RowId(o, k) < rid
  BY DEF Above
<1>1. PICK a \in Nat : a = Len(R[o])
  OBVIOUS
<1>2. PICK b \in Nat : b = Len(S[o])
  OBVIOUS
<1>3. k \in 1 .. Len(S[o])
  BY <1>1, <1>2
<1> QED BY <1>3 DEF Above

LEMMA AboveFresh ==
  ASSUME NEW R, NEW rid, Above(R, rid), NEW r \in LiveIn(R)
  PROVE  r.rid < rid
<1>1. /\ PageOf(r.rid) \in Nat /\ RowId(PageOf(r.rid), SlotOf(r.rid)) = r.rid
      /\ Holds(R[PageOf(r.rid)], SlotOf(r.rid), r)
  BY NowTyped
<1> QED BY <1>1 DEF Above, Holds

\* Every page has as many rows in S as in R, or one page has one more: that
\* with row id rid
SameLengths(R, S) == \A o \in Nat : Len(S[o]) = Len(R[o])
Grown(R, S, rid) ==
  \E p \in Nat : /\ rid = RowId(p, Len(R[p]) + 1) /\ Len(S[p]) = Len(R[p]) + 1
                 /\ \A o \in Nat \ {p} : Len(S[o]) = Len(R[o])

\* INSERT adds one row with a new id, or fails and leaves the table alone
LEMMA InsertEffect ==
  ASSUME IInv, NEW s \in Session, Base(s), InsertNext(s)
  PROVE  /\ file' = file /\ Clean(file, cache[s])' /\ Fresh(s)'
         /\ \/ /\ pc'[s] = "rows" /\ failed'[s] = FALSE
               /\ \E new \in Found :
                    /\ new.tag = nextTag /\ new.val = Head(todo[s])
                    /\ Above(Table(file, cache[s]), new.rid)
                    /\ Now(s)' = Now(s) \cup {new}
                    /\ Grown(Table(file, cache[s]), Table(file', cache'[s]), new.rid)
            \/ /\ pc'[s] = "close" /\ failed'[s] = TRUE /\ Now(s)' = Now(s)
               /\ Table(file', cache'[s]) = Table(file, cache[s])
<1> DEFINE c == cache[s]
           R == Table(file, c)
           r == [tag |-> nextTag, val |-> Head(todo[s]), dead |-> FALSE]
<1>1. Types /\ FileOK /\ SessionOK(s) /\ Clean(file, c)
  BY DEF IInv, Base
<1>2. pc[s] = "rows" /\ stmt[s].kind = "insert" /\ todo[s] # <<>> /\ UNCHANGED <<file, stmt>>
  BY DEF InsertNext
<1>3. PICK o \in DOMAIN WithLastPage(c) :
        LET placed == InsertAt(WithLastPage(c), o, r) IN
        /\ IsLast(WithLastPage(c), o)
        /\ cache' = [cache EXCEPT ![s] = placed.cache]
        /\ pc' = [pc EXCEPT ![s] = IF placed.ok THEN "rows" ELSE "close"]
        /\ failed' = [failed EXCEPT ![s] = ~placed.ok]
  BY DEF InsertNext
<1> DEFINE placed == InsertAt(WithLastPage(c), o, r)
<1>4. Held(c, Len(file)) /\ FilePages(file)
  BY <1>1, <1>2 DEF SessionOK, Held, FileOK, FilePages
<1>5. todo[s] \in Seq(Val) /\ Head(todo[s]) \in Val /\ nextTag \in Nat
  BY <1>1, <1>2 DEF Types
<1>6. r \in Row /\ r.dead = FALSE /\ r.tag = nextTag /\ r.val = Head(todo[s])
  BY <1>5, RowTyped
<1>7. /\ cache'[s] = placed.cache /\ file' = file
      /\ pc'[s] = (IF placed.ok THEN "rows" ELSE "close") /\ failed'[s] = ~placed.ok
      /\ stmt'[s].kind = "insert"
  BY <1>1, <1>2, <1>3 DEF Types
<1>8. placed.ok \in BOOLEAN
  BY <1>1, <1>3, <1>4, <1>6, InsertOK
<1>9. /\ Clean(file, placed.cache)
      /\ placed.off \in {o, o + 1} /\ o \in Nat
      /\ placed.ok =>
           /\ Table(file, placed.cache) = [R EXCEPT ![placed.off] = Append(@, r)]
           /\ Len(R[placed.off]) < PageSlots
           /\ \A p \in Nat : p > placed.off => R[p] = <<>>
      /\ ~placed.ok => Table(file, placed.cache) = R
  <2> HIDE DEF c, r
  <2>1. FileOK /\ Held(c, Len(file)) /\ Clean(file, c) /\ r \in Row /\ IsLast(WithLastPage(c), o)
    BY <1>1, <1>3, <1>4, <1>6
  <2>2. placed = InsertAt(WithLastPage(c), o, r)
    OBVIOUS
  <2> HIDE DEF placed
  <2>3. InsertedOnly(c, o, r, placed)
    BY <2>1, <2>2, InsertTable
  <2> QED BY <2>3 DEF InsertedOnly, R
<1>10. R \in [Nat -> Seq(Row)] /\ \A p \in Nat : Len(R[p]) <= PageSlots
  BY <1>4, TableTyped DEF Held
<1>11. Clean(file, cache[s])' /\ Fresh(s)'
  BY <1>7, <1>9 DEF Fresh, Scanning
<1> HIDE DEF placed, c, R, r
<1>12. CASE placed.ok
  <2>1. PICK p \in Nat : p = placed.off
    BY <1>9
  <2> DEFINE S == [R EXCEPT ![p] = Append(@, r)]
  <2>2. PICK new \in Found :
          /\ new.rid = RowId(p, Len(R[p]) + 1) /\ new.tag = r.tag /\ new.val = r.val
          /\ LiveIn(S) = LiveIn(R) \cup {new}
    <3>1. Len(R[p]) < PageSlots /\ ~r.dead
      BY <1>6, <1>9, <1>12, <2>1
    <3> HIDE DEF S
    <3>2. LET new == [rid |-> RowId(p, Len(R[p]) + 1), tag |-> r.tag, val |-> r.val] IN
          new \in Found /\ LiveIn(S) = LiveIn(R) \cup {new}
      BY <1>6, <1>10, <3>1, LiveAppend DEF S
    <3> QED BY <3>2
  <2>3. Above(R, new.rid)
    BY <1>9, <1>10, <1>12, <2>1, <2>2, AppendAbove, ZenonT(40)
  <2>4. Now(s)' = Now(s) \cup {new}
    BY <1>7, <1>9, <1>12, <2>1, <2>2 DEF Now, R, c
  <2>5. Grown(R, S, new.rid)
    <3>1. R[p] \in Seq(Row) /\ S[p] = Append(R[p], r) /\ \A o1 \in Nat \ {p} : S[o1] = R[o1]
      BY <1>10, <2>1
    <3>2. Len(S[p]) = Len(R[p]) + 1
      BY <3>1
    <3> HIDE DEF S
    <3> QED BY <2>1, <2>2, <3>1, <3>2 DEF Grown
  <2>6. Table(file', cache'[s]) = S
    BY <1>7, <1>9, <1>12, <2>1
  <2> HIDE DEF S
  <2> QED BY <1>6, <1>7, <1>11, <1>12, <2>2, <2>3, <2>4, <2>5, <2>6 DEF R, c
<1>13. CASE ~placed.ok
  <2>1. Now(s)' = Now(s)
    BY <1>7, <1>9, <1>13 DEF Now, R, c
  <2>2. Table(file', cache'[s]) = Table(file, cache[s])
    BY <1>7, <1>9, <1>13 DEF R, c
  <2> QED BY <1>7, <1>8, <1>11, <1>13, <2>1, <2>2
<1> QED BY <1>8, <1>12, <1>13

\* DELETE removes the row the scan has found
LEMMA DeleteEffect ==
  ASSUME IInv, NEW s \in Session, Base(s), DeleteRow(s)
  PROVE  /\ file' = file /\ Clean(file, cache[s])' /\ Fresh(s)'
         /\ SameLengths(Table(file, cache[s]), Table(file', cache'[s]))
         /\ \E r \in Now(s) :
              /\ r.val \in stmt[s].filter /\ ~Behind(s, r.rid)
              /\ Now(s)' = Now(s) \ {r}
              /\ \A q \in Now(s) : Behind(s, q.rid)' <=> Behind(s, q.rid) \/ q = r
<1> DEFINE R == Table(file, cache[s])
           o == cur[s]
<1>1. Types /\ FileOK /\ Clean(file, cache[s]) /\ Fresh(s) /\ Len(file) \in Nat /\ SessionOK(s)
  BY DEF IInv, Base, FileOK
<1>2. /\ Scanning(s) /\ CanGet(cache[s], o) /\ UNCHANGED <<file, cur, pc, stmt>>
  BY DEF DeleteRow
<1>3. PICK k \in Indices(s) :
        /\ AtRow(s, k) /\ Selects(s, k)
        /\ cache' = [cache EXCEPT ![s] = DeleteRid(Passed(s, k), RidAt(s, k))]
  BY DEF DeleteRow
<1> DEFINE c == Passed(s, k)
           slot == SlotAt(Current(s), k)
           d == DeleteRid(c, RowId(o, slot))
<1>4. /\ k \in Nat /\ o \in Nat /\ Current(s) \in Page /\ slot \in 1 .. Len(Current(s).rows)
      /\ slot \in 1 .. PageSlots
      /\ RowAt(s, k) = Current(s).rows[slot] /\ RidAt(s, k) = RowId(o, slot)
      /\ PageOf(RidAt(s, k)) = o /\ SlotOf(RidAt(s, k)) = slot
  BY <1>2, RowOfScan
<1>5. /\ Table(file, c) = R /\ Clean(file, c) /\ R[o] = Current(s).rows
      /\ Held(c, Len(file)) /\ o \in DOMAIN c
      /\ c[o].rows = Current(s).rows /\ c[o].idx = k + 1
  BY <1>1, <1>2, <1>4, PassedTable, PassedPage, PassedOK
<1>6. /\ Table(file, d) = [R EXCEPT ![o] = [@ EXCEPT ![slot].dead = TRUE]]
      /\ Clean(file, d) /\ slot <= PageSlots
  <2> HIDE DEF c, slot
  <2>1. slot \in 1 .. Len(c[o].rows) /\ Len(file) \in Nat
    BY <1>1, <1>4, <1>5
  <2>2. Held(c, Len(file)) /\ Clean(file, c) /\ o \in DOMAIN c
    BY <1>5
  <2> HIDE DEF o
  <2>3. /\ Table(file, d) = [Table(file, c) EXCEPT ![o] = [@ EXCEPT ![slot].dead = TRUE]]
        /\ Clean(file, d) /\ slot <= PageSlots
    BY <2>1, <2>2, DeleteTable
  <2> HIDE DEF d, R
  <2>4. Table(file, c) = R
    BY <1>5 DEF o
  <2> QED BY <2>3, <2>4
<1>7. cache'[s] = d /\ file' = file /\ cur'[s] = o /\ stmt'[s] = stmt[s] /\ pc'[s] = pc[s]
  BY <1>1, <1>2, <1>3, <1>4 DEF Types
<1>8. \A x \in DOMAIN d : x \in DOMAIN c /\ d[x].idx = c[x].idx /\ (x # o => d[x] = c[x])
  <2>1. d = Put(c, o, WithoutRow(c[o], slot))
    BY <1>4 DEF DeleteRid
  <2>2. WithoutRow(c[o], slot).idx = c[o].idx
    BY <1>5 DEF WithoutRow, Held, CacheOK, PageOK, Page
  <2> HIDE DEF c, d, slot
  <2> QED BY <2>1, <2>2, <1>5 DEF Put
<1>9. o \in DOMAIN d /\ Len(d[o].rows) = Len(Current(s).rows) /\ d[o].idx = k + 1
  <2>1. o \in DOMAIN d
    BY <1>4 DEF DeleteRid, Put
  <2>2. d[o].rows = [Current(s).rows EXCEPT ![slot].dead = TRUE]
    <3>1. Table(file, d)[o] = d[o].rows
      BY <2>1, <1>4 DEF Table
    <3>2. R \in [Nat -> Seq(Row)]
      BY <1>1, TableTyped DEF SessionOK, FileOK, FilePages
    <3> HIDE DEF R, d
    <3> QED BY <3>1, <3>2, <1>4, <1>5, <1>6
  <2>3. Len(d[o].rows) = Len(Current(s).rows)
    BY <2>2, <1>4 DEF Page
  <2> QED BY <2>1, <2>3, <1>5, <1>8
<1>10. PICK r \in Now(s) : r = FoundAt(s, k) /\ ~Behind(s, r.rid)
  BY <1>1, <1>2, <1>3, FoundAtLive
<1>11. R \in [Nat -> Seq(Row)]
  BY <1>1, TableTyped DEF SessionOK, FileOK, FilePages
<1>12. LiveIn(Table(file, d)) = LiveIn(R) \ {r}
  <2>1. ~R[o][slot].dead
    BY <1>3, <1>5 DEF AtRow, NextRowAt, Live
  <2>2. r = [rid |-> RowId(o, slot), tag |-> R[o][slot].tag, val |-> R[o][slot].val]
    BY <1>4, <1>5, <1>10 DEF FoundAt
  <2>3. slot \in 1 .. Len(R[o])
    BY <1>4, <1>5
  <2>4. slot <= PageSlots /\ o \in Nat
    BY <1>4, <1>6
  <2> HIDE DEF R, d, slot, o
  <2>5. LiveIn([R EXCEPT ![o] = [@ EXCEPT ![slot].dead = TRUE]]) = LiveIn(R) \ {r}
    BY <2>1, <2>2, <2>3, <2>4, <1>11, LiveDelete, ZenonT(40)
  <2>6. Table(file, d) = [R EXCEPT ![o] = [@ EXCEPT ![slot].dead = TRUE]]
    BY <1>6
  <2> QED BY <2>5, <2>6
<1>17. SameLengths(R, Table(file, d))
  <2>1. o \in Nat /\ slot \in 1 .. Len(R[o])
    BY <1>4, <1>5
  <2> HIDE DEF R, d, slot, o
  <2>2. Table(file, d)[o] = [R[o] EXCEPT ![slot].dead = TRUE]
        /\ \A x \in Nat \ {o} : Table(file, d)[x] = R[x]
    BY <2>1, <1>6, <1>11
  <2>3. Len(Table(file, d)[o]) = Len(R[o])
    BY <2>1, <2>2, <1>11
  <2> QED BY <2>2, <2>3 DEF SameLengths
<1> HIDE DEF d, c, slot, o, R
<1>18. SameLengths(Table(file, cache[s]), Table(file', cache'[s]))
  BY <1>7, <1>17 DEF R
<1>13. Now(s)' = Now(s) \ {r} /\ Clean(file, cache[s])'
  BY <1>6, <1>7, <1>12 DEF Now, R
<1>14. Fresh(s)'
  <2>1. \A x \in DOMAIN c : x # o =>
          c[x].idx = 0 \/ (x \in DOMAIN cache[s] /\ c[x] = cache[s][x])
    BY DEF Passed, Put, Loaded, WithPage, ReadPage, c, o
  <2> QED BY <2>1, <1>1, <1>2, <1>4, <1>7, <1>8 DEF Fresh, Scanning, o
<1>15. ASSUME NEW q \in Now(s) PROVE Behind(s, q.rid)' <=> Behind(s, q.rid) \/ q = r
  <2>1. PageOf(q.rid) \in Nat
    BY NowTyped DEF Now
  <2>2. CASE PageOf(q.rid) = o
    <3>1. SlotOf(q.rid) > Len(Current(s).rows) - (k + 1) <=> Behind(s, q.rid) \/ q = r
      BY <2>2, <1>1, <1>2, <1>3, <1>10, PassedRows DEF o
    <3>2. Behind(s, q.rid)' <=> SlotOf(q.rid) > Len(Current(s).rows) - (k + 1)
      BY <2>1, <2>2, <1>4, <1>7, <1>9 DEF Behind
    <3> QED BY <3>1, <3>2
  <2>3. CASE PageOf(q.rid) # o
    <3>1. PageOf(r.rid) = o
      BY <1>4, <1>10 DEF FoundAt
    <3> QED BY <2>3, <3>1, <1>7 DEF Behind, o
  <2> QED BY <2>2, <2>3
<1>16. r.val \in stmt[s].filter
  BY <1>3, <1>10 DEF Selects, FoundAt
<1> QED BY <1>2, <1>10, <1>13, <1>14, <1>15, <1>16, <1>18

\* Table S is R with a row put behind page o, and with the row at slot k removed
Appends(R, S, o, x) == S = [R EXCEPT ![o] = Append(@, x)]
Removes(R, S, o, k) == S = [R EXCEPT ![o] = [@ EXCEPT ![k].dead = TRUE]]

\* What becomes of the slots and of the live rows
AppendedOnly(R, S, o, x) ==
  /\ S[o] = Append(R[o], x) /\ \A q \in Nat \ {o} : S[q] = R[q]
  /\ S \in [Nat -> Seq(Row)] /\ \A q \in Nat : Len(R[q]) <= Len(S[q])
  /\ \E new \in Found :
       /\ new.rid = RowId(o, Len(R[o]) + 1) /\ new.tag = x.tag /\ new.val = x.val
       /\ PageOf(new.rid) = o /\ SlotOf(new.rid) = Len(R[o]) + 1
       /\ \A r \in LiveIn(R) : r.rid # new.rid
       /\ LiveIn(S) = LiveIn(R) \cup {new}
RemovedOnly(R, S, o, k) ==
  LET old == [rid |-> RowId(o, k), tag |-> R[o][k].tag, val |-> R[o][k].val] IN
  /\ S[o] = [R[o] EXCEPT ![k].dead = TRUE] /\ Len(S[o]) = Len(R[o])
  /\ S \in [Nat -> Seq(Row)] /\ \A q \in Nat : Len(R[q]) <= Len(S[q])
  /\ SameLengths(R, S)
  /\ old \in LiveIn(R) /\ LiveIn(S) = LiveIn(R) \ {old}

LEMMA AppendedTable ==
  ASSUME NEW R \in [Nat -> Seq(Row)], NEW o \in Nat, NEW x \in Row, ~x.dead,
         Len(R[o]) < PageSlots, NEW S, Appends(R, S, o, x)
  PROVE  AppendedOnly(R, S, o, x)
<1>1. R[o] \in Seq(Row)
  OBVIOUS
<1>2. Append(R[o], x) \in Seq(Row)
  BY <1>1
<1>3. /\ S[o] = Append(R[o], x) /\ \A q \in Nat \ {o} : S[q] = R[q]
      /\ S \in [Nat -> Seq(Row)]
  BY <1>2 DEF Appends
<1>4. LET new == [rid |-> RowId(o, Len(R[o]) + 1), tag |-> x.tag, val |-> x.val] IN
      /\ new \in Found
      /\ PageOf(new.rid) = o /\ SlotOf(new.rid) = Len(R[o]) + 1
      /\ \A r \in LiveIn(R) : r.rid # new.rid
      /\ LiveIn(S) = LiveIn(R) \cup {new}
  BY LiveAppend DEF Appends
<1>5. ASSUME NEW q \in Nat PROVE Len(R[q]) <= Len(S[q])
  <2>1. CASE q = o
    <3>1. Len(S[q]) = Len(R[q]) + 1 /\ Len(R[q]) \in Nat
      BY <2>1, <1>1, <1>3
    <3> QED BY <3>1
  <2>2. CASE q # o
    <3>1. S[q] = R[q] /\ R[q] \in Seq(Row)
      BY <2>2, <1>3
    <3>2. Len(R[q]) \in Nat
      BY <3>1
    <3> QED BY <3>1, <3>2
  <2> QED BY <2>1, <2>2
<1> QED BY <1>3, <1>4, <1>5 DEF AppendedOnly

LEMMA DeletedTable ==
  ASSUME NEW R \in [Nat -> Seq(Row)], NEW o \in Nat, NEW k \in 1 .. Len(R[o]),
         k <= PageSlots, ~R[o][k].dead, NEW S, Removes(R, S, o, k)
  PROVE  RemovedOnly(R, S, o, k)
<1>1. R[o] \in Seq(Row)
  OBVIOUS
<1>2. S[o] = [R[o] EXCEPT ![k].dead = TRUE]
  BY DEF Removes
<1>3. Len(S[o]) = Len(R[o])
  BY <1>1, <1>2
<1>4. LET old == [rid |-> RowId(o, k), tag |-> R[o][k].tag, val |-> R[o][k].val] IN
      old \in LiveIn(R) /\ LiveIn(S) = LiveIn(R) \ {old}
  BY LiveDelete DEF Removes
<1>5. S \in [Nat -> Seq(Row)]
  <2>1. R[o][k] \in Row
    BY <1>1
  <2>2. [R[o][k] EXCEPT !.dead = TRUE] \in Row
    BY <2>1 DEF Row
  <2>3. [R[o] EXCEPT ![k].dead = TRUE] \in Seq(Row)
    BY <2>2, <1>1
  <2> QED BY <2>3 DEF Removes
<1>6. ASSUME NEW q \in Nat PROVE Len(R[q]) <= Len(S[q])
  <2>1. q # o => S[q] = R[q]
    BY DEF Removes
  <2>2. Len(R[q]) = Len(S[q])
    BY <2>1, <1>3
  <2>3. R[q] \in Seq(Row)
    OBVIOUS
  <2>4. Len(R[q]) \in Nat
    BY <2>3
  <2> QED BY <2>2, <2>4
<1>7. SameLengths(R, S)
  <2>1. \A q \in Nat \ {o} : S[q] = R[q]
    BY DEF Removes
  <2> QED BY <2>1, <1>3 DEF SameLengths
<1> QED BY <1>2, <1>3, <1>4, <1>5, <1>6, <1>7 DEF RemovedOnly

UpdatedOnly(c, d, x, o, slot) ==
  LET R == Table(file, c)
      old == [rid |-> RowId(o, slot), tag |-> c[o].rows[slot].tag, val |-> c[o].rows[slot].val]
  IN /\ Clean(file, d)
     /\ \A y \in DOMAIN d : d[y].idx = IF y \in DOMAIN c THEN c[y].idx ELSE 0
     /\ o \in DOMAIN d /\ Len(d[o].rows) \in {Len(c[o].rows), Len(c[o].rows) + 1}
     /\ Dirty(c) \cup {o} \subseteq Dirty(d)
     /\ \A rid \in Nat : Above(Table(file, d), rid) => Above(R, rid)
     /\ \E new \in Found :
          /\ new.tag = x.tag /\ new.val = x.val /\ Above(R, new.rid)
          /\ Grown(R, Table(file, d), new.rid)
          /\ LiveIn(Table(file, d)) = (LiveIn(R) \ {old}) \cup {new}
          /\ PageOf(new.rid) >= o /\ PageOf(new.rid) \in Nat /\ PageOf(new.rid) \in Dirty(d)
          /\ PageOf(new.rid) = o =>
               SlotOf(new.rid) = Len(c[o].rows) + 1 /\ Len(d[o].rows) = Len(c[o].rows) + 1

\* The cache after a row was inserted and the one the scan has found deleted
LEMMA UpdateCache ==
  ASSUME FileOK, NEW c, Held(c, Len(file)), Clean(file, c), NEW x \in Row, ~x.dead,
         NEW o \in DOMAIN c, NEW slot \in 1 .. Len(c[o].rows), ~c[o].rows[slot].dead,
         NEW last \in DOMAIN WithLastPage(c), IsLast(WithLastPage(c), last),
         NEW placed, placed = InsertAt(WithLastPage(c), last, x), placed.ok,
         NEW d, d = DeleteRid(placed.cache, RowId(o, slot))
  PROVE  UpdatedOnly(c, d, x, o, slot)
<1> DEFINE R == Table(file, c)
           n == Len(file)
           p == placed.off
           S == [R EXCEPT ![p] = Append(@, x)]
           old == [rid |-> RowId(o, slot), tag |-> c[o].rows[slot].tag, val |-> c[o].rows[slot].val]
<1>1. n \in Nat /\ CacheOK(c) /\ FilePages(file) /\ o \in Nat
  BY DEF FileOK, Held, CacheOK, FilePages
<1>2. R \in [Nat -> Seq(Row)] /\ \A q \in Nat : Len(R[q]) <= PageSlots
  BY <1>1, TableTyped
<1>3. /\ Clean(file, placed.cache) /\ p \in {last, last + 1} /\ last \in Nat
      /\ Table(file, placed.cache) = S
      /\ Len(R[p]) < PageSlots
      /\ \A q \in Nat : q > p => R[q] = <<>>
      /\ p \in DOMAIN placed.cache
  <2>1. InsertedOnly(c, last, x, placed)
    BY InsertTable
  <2> QED BY <2>1 DEF InsertedOnly
<1>4. /\ CacheOK(placed.cache) /\ Linked(placed.cache, n) /\ Filled(placed.cache, n)
      /\ \A y \in DOMAIN c : y <= last /\ y \in DOMAIN placed.cache
                             /\ Len(placed.cache[y].rows) >= Len(c[y].rows)
  BY InsertOK
<1>5. \A y \in DOMAIN placed.cache : placed.cache[y].idx = IF y \in DOMAIN c THEN c[y].idx ELSE 0
  BY InsertIndex
<1>6. p \in Nat /\ o <= p
  BY <1>1, <1>3, <1>4
<1>7. R[o] = c[o].rows
  BY <1>1 DEF Table
<1>8. PICK T : T = S
  OBVIOUS
<1>23. Len(R[p]) < PageSlots
  BY <1>3
<1> HIDE DEF R, n, p, old
<1>24. T = [R EXCEPT ![p] = Append(@, x)]
  BY <1>8
<1> HIDE DEF S
<1>25. /\ T[p] = Append(R[p], x) /\ \A q \in Nat \ {p} : T[q] = R[q]
       /\ T \in [Nat -> Seq(Row)]
       /\ \E new \in Found :
            /\ new.rid = RowId(p, Len(R[p]) + 1) /\ new.tag = x.tag /\ new.val = x.val
            /\ PageOf(new.rid) = p /\ SlotOf(new.rid) = Len(R[p]) + 1
            /\ \A r \in LiveIn(R) : r.rid # new.rid
            /\ LiveIn(T) = LiveIn(R) \cup {new}
       /\ \A q \in Nat : Len(R[q]) <= Len(T[q])
  <2>1. PICK A : A = R
    OBVIOUS
  <2>2. PICK q \in Nat : q = p
    BY <1>6
  <2>3. A \in [Nat -> Seq(Row)] /\ Len(A[q]) < PageSlots /\ Appends(A, T, q, x)
    BY <1>2, <1>23, <1>24, <2>1, <2>2 DEF Appends
  <2>4. AppendedOnly(A, T, q, x)
    BY <2>3, AppendedTable
  <2> QED BY <2>1, <2>2, <2>4 DEF AppendedOnly
<1>9. slot \in 1 .. Len(R[o])
  BY <1>7
<1>10. T[o] \in Seq(Row) /\ R[o] \in Seq(Row) /\ T[o][slot] = R[o][slot] /\ slot \in 1 .. Len(T[o])
       /\ Len(T[o]) \in {Len(R[o]), Len(R[o]) + 1} /\ (p = o => Len(T[o]) = Len(R[o]) + 1)
  <2>0. T[o] \in Seq(Row) /\ R[o] \in Seq(Row)
    BY <1>1, <1>2, <1>25
  <2>1. CASE p = o
    <3>1. T[o] = Append(R[o], x)
      BY <2>1, <1>25
    <3> QED BY <3>1, <2>0, <2>1, <1>9
  <2>2. CASE p # o
    <3>1. T[o] = R[o]
      BY <2>2, <1>1, <1>25
    <3> QED BY <3>1, <2>0, <2>2, <1>9
  <2> QED BY <2>0, <2>1, <2>2
<1>11. PICK new \in Found :
         /\ new.rid = RowId(p, Len(R[p]) + 1) /\ new.tag = x.tag /\ new.val = x.val
         /\ PageOf(new.rid) = p /\ SlotOf(new.rid) = Len(R[p]) + 1
         /\ \A r \in LiveIn(R) : r.rid # new.rid
         /\ LiveIn(T) = LiveIn(R) \cup {new}
  BY <1>25
<1>12. Above(R, new.rid)
  BY <1>2, <1>3, <1>6, <1>11, AppendAbove
<1>13. Held(placed.cache, n) /\ o \in DOMAIN placed.cache /\ placed.cache[o].rows = T[o]
  <2>1. o \in DOMAIN placed.cache
    BY <1>4
  <2>2. Table(file, placed.cache)[o] = placed.cache[o].rows
    BY <2>1, <1>1 DEF Table
  <2> QED BY <2>1, <2>2, <1>3, <1>4, <1>8 DEF Held
<1>26. Table(file, placed.cache) = T
  BY <1>3, <1>8
<1>14. /\ Table(file, d) = [T EXCEPT ![o] = [@ EXCEPT ![slot].dead = TRUE]]
       /\ Clean(file, d) /\ slot <= PageSlots
  <2>1. slot \in 1 .. Len(placed.cache[o].rows)
    BY <1>10, <1>13
  <2>2. PICK e : e = placed.cache
    OBVIOUS
  <2>3. Held(e, n) /\ o \in DOMAIN e /\ slot \in 1 .. Len(e[o].rows) /\ Clean(file, e)
    BY <2>1, <2>2, <1>3, <1>13
  <2>4. /\ Table(file, DeleteRid(e, RowId(o, slot))) = [Table(file, e) EXCEPT ![o] = [@ EXCEPT ![slot].dead = TRUE]]
        /\ Clean(file, DeleteRid(e, RowId(o, slot))) /\ slot <= PageSlots
    BY <2>3, <1>1, DeleteTable
  <2> QED BY <2>2, <2>4, <1>26
<1>15. LiveIn(Table(file, d)) = LiveIn(T) \ {old} /\ old \in LiveIn(T) /\ old \in LiveIn(R)
       /\ Table(file, d)[o] = [T[o] EXCEPT ![slot].dead = TRUE]
       /\ Len(Table(file, d)[o]) = Len(T[o])
       /\ Table(file, d) \in [Nat -> Seq(Row)]
       /\ SameLengths(T, Table(file, d))
       /\ \A q \in Nat : Len(T[q]) <= Len(Table(file, d)[q])
  <2>1. ~T[o][slot].dead /\ ~R[o][slot].dead
    BY <1>7, <1>10
  <2>2. old = [rid |-> RowId(o, slot), tag |-> T[o][slot].tag, val |-> T[o][slot].val]
        /\ old = [rid |-> RowId(o, slot), tag |-> R[o][slot].tag, val |-> R[o][slot].val]
    BY <1>7, <1>10 DEF old
  <2>3. T \in [Nat -> Seq(Row)] /\ o \in Nat /\ slot \in 1 .. Len(T[o]) /\ slot <= PageSlots
    BY <1>1, <1>10, <1>14, <1>25
  <2>4. PICK U : U = Table(file, d)
    OBVIOUS
  <2>5. Removes(T, U, o, slot)
    BY <2>4, <1>14 DEF Removes
  <2>6. /\ LiveIn(U) = LiveIn(T) \ {old} /\ old \in LiveIn(T)
        /\ U[o] = [T[o] EXCEPT ![slot].dead = TRUE]
        /\ Len(U[o]) = Len(T[o]) /\ U \in [Nat -> Seq(Row)] /\ SameLengths(T, U)
        /\ \A q \in Nat : Len(T[q]) <= Len(U[q])
    <3>1. RemovedOnly(T, U, o, slot)
      BY <2>1, <2>3, <2>5, DeletedTable
    <3> QED BY <3>1, <2>2 DEF RemovedOnly
  <2>7. PICK A : A = R
    OBVIOUS
  <2>8. PICK V : Removes(A, V, o, slot)
    BY DEF Removes
  <2>9. A \in [Nat -> Seq(Row)] /\ slot \in 1 .. Len(A[o]) /\ ~A[o][slot].dead
        /\ old = [rid |-> RowId(o, slot), tag |-> A[o][slot].tag, val |-> A[o][slot].val]
    BY <2>1, <2>2, <2>7, <1>2, <1>9
  <2>10. old \in LiveIn(A)
    <3>1. RemovedOnly(A, V, o, slot)
      BY <2>3, <2>8, <2>9, DeletedTable
    <3> QED BY <3>1, <2>9 DEF RemovedOnly
  <2> QED BY <2>4, <2>6, <2>7, <2>10
<1>16. LiveIn(Table(file, d)) = (LiveIn(R) \ {old}) \cup {new}
  <2>1. new # old
    BY <1>11, <1>15
  <2> QED BY <2>1, <1>11, <1>15
<1>17. DOMAIN d = DOMAIN placed.cache /\ \A y \in DOMAIN d : d[y].idx = placed.cache[y].idx
  <2>1. slot \in 1 .. PageSlots
    BY <1>9, <1>14, PageAssumption
  <2>2. d = Put(placed.cache, o, WithoutRow(placed.cache[o], slot))
    BY <2>1, <1>1, RidPage DEF DeleteRid
  <2>3. WithoutRow(placed.cache[o], slot).idx = placed.cache[o].idx
    BY <1>13 DEF WithoutRow, Held, CacheOK, PageOK, Page
  <2> QED BY <2>2, <2>3, <1>13 DEF Put
<1>18. o \in DOMAIN d /\ Len(d[o].rows) = Len(T[o])
  <2>1. o \in DOMAIN d
    BY <1>13, <1>17
  <2>2. Table(file, d)[o] = d[o].rows
    BY <2>1, <1>1 DEF Table
  <2> QED BY <2>1, <2>2, <1>15
<1>19. PageOf(new.rid) >= o /\ PageOf(new.rid) \in Nat
  BY <1>6, <1>11
<1>20. PageOf(new.rid) = o =>
         SlotOf(new.rid) = Len(c[o].rows) + 1 /\ Len(d[o].rows) = Len(c[o].rows) + 1
  BY <1>7, <1>10, <1>11, <1>18
<1>21. Len(d[o].rows) \in {Len(c[o].rows), Len(c[o].rows) + 1}
  BY <1>7, <1>10, <1>18
<1>22. \A y \in DOMAIN d : d[y].idx = IF y \in DOMAIN c THEN c[y].idx ELSE 0
  BY <1>5, <1>17
<1>27. CacheOK(placed.cache) /\ slot \in 1 .. Len(placed.cache[o].rows)
       /\ p \in Dirty(placed.cache) /\ Dirty(c) \subseteq Dirty(placed.cache)
  <2>1. CacheOK(WithLastPage(c)) /\ Dirty(c) \subseteq Dirty(WithLastPage(c))
    BY <1>1, WithLastPageOK, LoadDirty DEF Held
  <2>2. Dirty(WithLastPage(c)) \subseteq Dirty(placed.cache) /\ placed.off \in Dirty(placed.cache)
    BY <2>1, InsertDirty
  <2> QED BY <2>1, <2>2, <1>4, <1>10, <1>13 DEF p
<1>28. Dirty(placed.cache) \cup {o} \subseteq Dirty(d)
  <2>1. slot \in 1 .. PageSlots
    BY <1>9, <1>14, PageAssumption
  <2>2. PICK e : e = placed.cache
    OBVIOUS
  <2>3. CacheOK(e) /\ o \in DOMAIN e /\ slot \in 1 .. Len(e[o].rows) /\ d = DeleteRid(e, RowId(o, slot))
    BY <2>2, <1>13, <1>27
  <2>4. Dirty(e) \cup {o} \subseteq Dirty(d)
    BY <2>1, <2>3, DeleteDirty
  <2> QED BY <2>2, <2>4
<1>29. Dirty(c) \cup {o} \subseteq Dirty(d) /\ PageOf(new.rid) \in Dirty(d)
  BY <1>11, <1>27, <1>28
<1>30. ASSUME NEW rid \in Nat, Above(Table(file, d), rid) PROVE Above(R, rid)
  <2>1. PICK A : A = R
    OBVIOUS
  <2>2. PICK U : U = Table(file, d)
    OBVIOUS
  <2>3. A \in [Nat -> Seq(Row)] /\ U \in [Nat -> Seq(Row)] /\ Above(U, rid)
    BY <2>1, <2>2, <1>2, <1>15, <1>30
  <2>4. ASSUME NEW q \in Nat PROVE Len(A[q]) <= Len(U[q])
    <3>1. Len(A[q]) <= Len(T[q]) /\ Len(T[q]) <= Len(U[q])
      BY <2>1, <2>2, <1>15, <1>25
    <3>2. A[q] \in Seq(Row) /\ T[q] \in Seq(Row) /\ U[q] \in Seq(Row)
      BY <2>3, <1>25
    <3>3. Len(A[q]) \in Nat /\ Len(T[q]) \in Nat /\ Len(U[q]) \in Nat
      BY <3>2
    <3> QED BY <3>1, <3>3
  <2>5. Above(A, rid)
    BY <2>3, <2>4, AboveLonger
  <2> QED BY <2>1, <2>5
<1>31. Grown(R, Table(file, d), new.rid)
  <2>1. R[p] \in Seq(Row) /\ T[p] = Append(R[p], x)
    BY <1>2, <1>6, <1>25
  <2>2. Len(T[p]) = Len(R[p]) + 1
    BY <2>1
  <2>3. \A q \in Nat : Len(Table(file, d)[q]) = Len(T[q])
    BY <1>15 DEF SameLengths
  <2>4. \A q \in Nat \ {p} : Len(Table(file, d)[q]) = Len(R[q])
    BY <2>3, <1>25
  <2> QED BY <2>2, <2>3, <2>4, <1>6, <1>11 DEF Grown
<1> QED BY <1>11, <1>12, <1>14, <1>16, <1>18, <1>19, <1>20, <1>21, <1>22, <1>29, <1>30, <1>31 DEF R, old, UpdatedOnly

\* UPDATE puts the changed row behind all others and removes the row it found,
\* or fails and leaves the table alone
LEMMA UpdateEffect ==
  ASSUME IInv, NEW s \in Session, Base(s), UpdateRow(s)
  PROVE  /\ file' = file /\ Clean(file, cache[s])' /\ Fresh(s)'
         /\ \/ /\ pc'[s] = "rows" /\ failed'[s] = FALSE /\ affected'[s] = affected[s] + 1
               /\ \E r \in Now(s), new \in Found :
                    /\ r.val \in stmt[s].filter /\ ~Behind(s, r.rid) /\ PageOf(r.rid) = cur[s]
                    /\ new.tag = r.tag /\ new.val = stmt[s].set
                    /\ Above(Table(file, cache[s]), new.rid)
                    /\ Grown(Table(file, cache[s]), Table(file', cache'[s]), new.rid)
                    /\ Now(s)' = (Now(s) \ {r}) \cup {new}
                    /\ \A q \in Now(s) \ {r} : Behind(s, q.rid)' <=> Behind(s, q.rid)
                    /\ PageOf(new.rid) >= cur[s] /\ PageOf(new.rid) \in Nat
                    /\ PageOf(new.rid) = cur[s] => Behind(s, new.rid)'
                    /\ Dirty(cache[s]) \cup {cur[s], PageOf(new.rid)} \subseteq Dirty(cache'[s])
               /\ \A rid \in Nat : Above(Table(file', cache'[s]), rid) => Above(Table(file, cache[s]), rid)
            \/ /\ pc'[s] = "close" /\ failed'[s] = TRUE /\ Now(s)' = Now(s)
               /\ Table(file', cache'[s]) = Table(file, cache[s])
<1> DEFINE R == Table(file, cache[s])
           o == cur[s]
<1>1. Types /\ FileOK /\ Clean(file, cache[s]) /\ Fresh(s) /\ Len(file) \in Nat
  BY DEF IInv, Base, FileOK
<1>2. /\ Scanning(s) /\ CanGet(cache[s], o) /\ stmt[s].kind = "update"
      /\ UNCHANGED <<file, cur, stmt>>
  BY DEF UpdateRow
<1>3. PICK k \in Indices(s) :
        /\ AtRow(s, k) /\ Selects(s, k)
        /\ \E last \in DOMAIN WithLastPage(Passed(s, k)) :
             /\ IsLast(WithLastPage(Passed(s, k)), last)
             /\ LET merged == [RowAt(s, k) EXCEPT !.val = stmt[s].set]
                    placed == InsertAt(WithLastPage(Passed(s, k)), last, merged)
                IN /\ cache' = [cache EXCEPT ![s] =
                        IF placed.ok THEN DeleteRid(placed.cache, RidAt(s, k))
                        ELSE placed.cache]
                   /\ affected' = [affected EXCEPT ![s] = IF placed.ok THEN @ + 1 ELSE @]
                   /\ pc' = [pc EXCEPT ![s] = IF placed.ok THEN "rows" ELSE "close"]
                   /\ failed' = [failed EXCEPT ![s] = ~placed.ok]
  BY DEF UpdateRow
<1> DEFINE c == Passed(s, k)
           slot == SlotAt(Current(s), k)
           merged == [RowAt(s, k) EXCEPT !.val = stmt[s].set]
<1>4. PICK last \in DOMAIN WithLastPage(c) :
        LET placed == InsertAt(WithLastPage(c), last, merged) IN
        /\ IsLast(WithLastPage(c), last)
        /\ cache' = [cache EXCEPT ![s] =
             IF placed.ok THEN DeleteRid(placed.cache, RidAt(s, k)) ELSE placed.cache]
        /\ affected' = [affected EXCEPT ![s] = IF placed.ok THEN @ + 1 ELSE @]
        /\ pc' = [pc EXCEPT ![s] = IF placed.ok THEN "rows" ELSE "close"]
        /\ failed' = [failed EXCEPT ![s] = ~placed.ok]
  BY <1>3
<1> DEFINE placed == InsertAt(WithLastPage(c), last, merged)
           d == DeleteRid(placed.cache, RowId(o, slot))
<1>5. /\ k \in Nat /\ o \in Nat /\ Current(s) \in Page /\ slot \in 1 .. Len(Current(s).rows)
      /\ RowAt(s, k) = Current(s).rows[slot] /\ RowAt(s, k) \in Row /\ RidAt(s, k) = RowId(o, slot)
      /\ PageOf(RidAt(s, k)) = o
  BY <1>2, RowOfScan
<1>6. /\ Table(file, c) = R /\ Clean(file, c) /\ R[o] = Current(s).rows
      /\ Held(c, Len(file)) /\ o \in DOMAIN c
      /\ c[o].rows = Current(s).rows /\ c[o].idx = k + 1
  BY <1>1, <1>2, <1>5, PassedTable, PassedPage, PassedOK
<1>7. ~RowAt(s, k).dead
  BY <1>3, <1>5 DEF AtRow, NextRowAt, Live
<1>8. merged \in Row /\ ~merged.dead /\ merged.tag = RowAt(s, k).tag /\ merged.val = stmt[s].set
  <2>1. stmt[s].set \in Val
    BY <1>1, StatementAssumption DEF Types
  <2> QED BY <2>1, <1>5, <1>7 DEF Row
<1>9. IsLast(WithLastPage(c), last)
  BY <1>4
<1>10. placed.ok \in BOOLEAN
  <2> HIDE DEF c, merged
  <2> QED BY <1>1, <1>6, <1>8, <1>9, InsertOK
<1>11. /\ cache'[s] = (IF placed.ok THEN d ELSE placed.cache)
       /\ affected'[s] = (IF placed.ok THEN affected[s] + 1 ELSE affected[s])
       /\ pc'[s] = (IF placed.ok THEN "rows" ELSE "close") /\ failed'[s] = ~placed.ok
       /\ file' = file /\ cur'[s] = o /\ stmt'[s] = stmt[s]
  <2>1. cache' = [cache EXCEPT ![s] = IF placed.ok THEN d ELSE placed.cache]
    BY <1>4, <1>5
  <2>2. /\ affected' = [affected EXCEPT ![s] = IF placed.ok THEN @ + 1 ELSE @]
        /\ pc' = [pc EXCEPT ![s] = IF placed.ok THEN "rows" ELSE "close"]
        /\ failed' = [failed EXCEPT ![s] = ~placed.ok]
    BY <1>4
  <2> HIDE DEF placed, d, c, merged
  <2> QED BY <2>1, <2>2, <1>1, <1>2 DEF Types
<1>12. PICK r \in Now(s) : r = FoundAt(s, k) /\ ~Behind(s, r.rid)
  BY <1>1, <1>2, <1>3, FoundAtLive
<1>13. r.val \in stmt[s].filter /\ r.tag = RowAt(s, k).tag
       /\ r = [rid |-> RowId(o, slot), tag |-> c[o].rows[slot].tag, val |-> c[o].rows[slot].val]
  BY <1>3, <1>5, <1>6, <1>12 DEF Selects, FoundAt
<1>14. \A x \in DOMAIN c : x # o =>
         c[x].idx = 0 \/ (x \in DOMAIN cache[s] /\ c[x] = cache[s][x])
  BY DEF Passed, Put, Loaded, WithPage, ReadPage
<1>15. PICK e : e = placed.cache
  OBVIOUS
<1>16. CASE ~placed.ok
  <2>1. /\ Clean(file, e) /\ Table(file, e) = Table(file, c)
    <3> HIDE DEF c, merged
    <3>1. placed = InsertAt(WithLastPage(c), last, merged)
      OBVIOUS
    <3>2. FileOK /\ Held(c, Len(file)) /\ Clean(file, c) /\ merged \in Row
      BY <1>1, <1>6, <1>8
    <3>3. IsLast(WithLastPage(c), last)
      BY <1>9
    <3> HIDE DEF placed
    <3>4. PICK g : g = placed
      OBVIOUS
    <3>5. g = InsertAt(WithLastPage(c), last, merged) /\ ~g.ok
      BY <3>1, <3>4, <1>16
    <3>6. Clean(file, g.cache) /\ Table(file, g.cache) = Table(file, c)
      BY <3>2, <3>3, <3>5, InsertFails
    <3> QED BY <3>4, <3>6, <1>15
  <2>2. cache'[s] = e /\ file' = file /\ pc'[s] = "close" /\ failed'[s] = TRUE
    BY <1>11, <1>15, <1>16
  <2> HIDE DEF placed, c, merged, slot, d
  <2>3. Now(s)' = Now(s) /\ Clean(file, cache[s])'
    BY <2>1, <2>2, <1>6 DEF Now
  <2>4. Fresh(s)'
    BY <2>2 DEF Fresh, Scanning
  <2>5. Table(file', cache'[s]) = Table(file, cache[s])
    BY <2>1, <2>2, <1>6
  <2> QED BY <2>2, <2>3, <2>4, <2>5
<1>17. CASE placed.ok
  <2>1. PICK f : f = d
    OBVIOUS
  <2>2. cache'[s] = f /\ file' = file /\ pc'[s] = "rows" /\ failed'[s] = FALSE
        /\ affected'[s] = affected[s] + 1 /\ cur'[s] = o
    BY <2>1, <1>11, <1>17
  <2>3. /\ Clean(file, f)
        /\ \A y \in DOMAIN f : f[y].idx = IF y \in DOMAIN c THEN c[y].idx ELSE 0
        /\ o \in DOMAIN f /\ Len(f[o].rows) \in {Len(c[o].rows), Len(c[o].rows) + 1}
        /\ Dirty(c) \cup {o} \subseteq Dirty(f)
        /\ \A rid \in Nat : Above(Table(file, f), rid) => Above(Table(file, c), rid)
        /\ \E new \in Found :
             /\ new.tag = merged.tag /\ new.val = merged.val /\ Above(Table(file, c), new.rid)
             /\ Grown(Table(file, c), Table(file, f), new.rid)
             /\ LiveIn(Table(file, f)) = (LiveIn(Table(file, c)) \ {r}) \cup {new}
             /\ PageOf(new.rid) >= o /\ PageOf(new.rid) \in Nat /\ PageOf(new.rid) \in Dirty(f)
             /\ PageOf(new.rid) = o =>
                  SlotOf(new.rid) = Len(c[o].rows) + 1 /\ Len(f[o].rows) = Len(c[o].rows) + 1
    <3>1. slot \in 1 .. Len(c[o].rows) /\ ~c[o].rows[slot].dead
      BY <1>5, <1>6, <1>7
    <3> HIDE DEF c, merged, slot, o
    <3>2. placed = InsertAt(WithLastPage(c), last, merged) /\ f = DeleteRid(placed.cache, RowId(o, slot))
      BY <2>1
    <3> HIDE DEF placed, d
    <3>3. PICK y \in DOMAIN c : y = o
      BY <1>6
    <3>4. FileOK /\ Held(c, Len(file)) /\ Clean(file, c) /\ merged \in Row /\ ~merged.dead
      BY <1>1, <1>6, <1>8
    <3>5. IsLast(WithLastPage(c), last) /\ placed.ok
      BY <1>9, <1>17
    <3>6. slot \in 1 .. Len(c[y].rows) /\ ~c[y].rows[slot].dead /\ f = DeleteRid(placed.cache, RowId(y, slot))
      BY <3>1, <3>2, <3>3
    <3>7. UpdatedOnly(c, f, merged, y, slot)
      BY <3>2, <3>4, <3>5, <3>6, UpdateCache
    <3> QED BY <3>3, <3>7, <1>13 DEF UpdatedOnly, o
  <2>11. Dirty(cache[s]) \subseteq Dirty(c)
    BY <1>5, PassedDirty
  <2> HIDE DEF placed, c, merged, slot, d
  <2>4. PICK new \in Found :
             /\ new.tag = r.tag /\ new.val = stmt[s].set /\ Above(R, new.rid)
             /\ Grown(R, Table(file, f), new.rid)
             /\ LiveIn(Table(file, f)) = (LiveIn(R) \ {r}) \cup {new}
             /\ PageOf(new.rid) >= o /\ PageOf(new.rid) \in Nat /\ PageOf(new.rid) \in Dirty(f)
             /\ PageOf(new.rid) = o =>
                  SlotOf(new.rid) = Len(c[o].rows) + 1 /\ Len(f[o].rows) = Len(c[o].rows) + 1
    BY <2>3, <1>6, <1>8, <1>13
  <2>5. Now(s)' = (Now(s) \ {r}) \cup {new} /\ Clean(file, cache[s])'
    BY <2>2, <2>3, <2>4 DEF Now
  <2>6. Fresh(s)'
    BY <2>2, <2>3, <1>1, <1>2, <1>5, <1>11, <1>14 DEF Fresh, Scanning
  <2>7. PICK m \in Nat : m = Len(Current(s).rows) /\ m = Len(c[o].rows)
    BY <1>5, <1>6 DEF Page
  <2>8. PICK mm \in Nat : mm = Len(f[o].rows) /\ f[o].idx = k + 1 /\ mm \in {m, m + 1}
    <3>1. f[o].rows \in Seq(Row)
      <4>1. f[o].rows = Table(file, f)[o]
        BY <2>3, <1>5 DEF Table
      <4>2. SessionOK(s)'
        BY UpdateRowOK DEF IInv
      <4>3. CacheOK(f)
        BY <4>2, <2>2 DEF SessionOK
      <4> QED BY <4>3, <2>3 DEF CacheOK, PageOK, Page
    <3> QED BY <3>1, <2>3, <2>7, <1>6
  <2>9. ASSUME NEW q \in Now(s) \ {r} PROVE Behind(s, q.rid)' <=> Behind(s, q.rid)
    <3>1. PageOf(q.rid) \in Nat /\ SlotOf(q.rid) \in Nat
      BY NowTyped DEF Now
    <3>2. CASE PageOf(q.rid) = o
      <4>1. SlotOf(q.rid) > m - (k + 1) <=> Behind(s, q.rid)
        BY <3>2, <2>7, <1>1, <1>2, <1>3, <1>12, PassedRows
      <4>2. SlotOf(q.rid) # m - k
        <5>4. r \in Now(s)
          BY <1>12
        <5>1. RowId(PageOf(q.rid), SlotOf(q.rid)) = q.rid
          BY NowTyped DEF Now
        <5>2. slot = m - k
          BY <2>7 DEF slot, SlotAt
        <5>3. q.rid # r.rid
          BY <5>4, SameRid DEF Now
        <5> QED BY <5>1, <5>2, <5>3, <3>2, <1>13
      <4>3. Behind(s, q.rid)' <=> SlotOf(q.rid) > mm - (k + 1)
        BY <3>1, <3>2, <2>2, <2>8, <2>3 DEF Behind
      <4>4. SlotOf(q.rid) > mm - (k + 1) <=> SlotOf(q.rid) > m - (k + 1)
        <5>1. PICK j \in Nat : j = SlotOf(q.rid)
          BY <3>1
        <5>2. k \in Nat /\ j # m - k /\ mm \in {m, m + 1}
          BY <5>1, <4>2, <2>8, <1>5
        <5>3. j > mm - (k + 1) <=> j > m - (k + 1)
          BY <5>2
        <5> QED BY <5>1, <5>3
      <4> QED BY <4>1, <4>3, <4>4
    <3>3. CASE PageOf(q.rid) # o
      BY <3>3, <1>11 DEF Behind
    <3> QED BY <3>2, <3>3
  <2>10. PageOf(new.rid) = cur[s] => Behind(s, new.rid)'
    BY <2>2, <2>3, <2>4, <2>7, <2>8, <1>5 DEF Behind
  <2>12. Dirty(cache[s]) \cup {cur[s], PageOf(new.rid)} \subseteq Dirty(cache'[s])
    BY <2>2, <2>3, <2>4, <2>11
  <2>13. \A rid \in Nat : Above(Table(file', cache'[s]), rid) => Above(Table(file, cache[s]), rid)
    BY <2>2, <2>3, <1>6
  <2>14. PageOf(r.rid) = cur[s]
    BY <1>5, <1>12 DEF FoundAt
  <2>15. Grown(Table(file, cache[s]), Table(file', cache'[s]), new.rid)
    BY <2>2, <2>4
  <2> QED BY <2>2, <2>4, <2>5, <2>6, <2>9, <2>10, <2>12, <2>13, <2>14, <2>15, <1>12, <1>13
<1> QED BY <1>10, <1>16, <1>17

\* A page that is still to be written stays so until it is written
LEMMA StaysDirty ==
  ASSUME IInv, NEW s \in Session, Base(s),
         \/ SkipRow(s) \/ SelectRow(s) \/ DeleteRow(s) \/ UpdateRow(s)
         \/ InsertNext(s) \/ ScanEnd(s)
  PROVE  Dirty(cache[s]) \subseteq Dirty(cache'[s])
<1>1. Types /\ FileOK /\ SessionOK(s) /\ Len(file) \in Nat
  BY DEF IInv, FileOK
<1>2. ASSUME NEW c, CacheOK(WithLastPage(c)), NEW last \in DOMAIN WithLastPage(c), IsLast(WithLastPage(c), last),
             NEW r, NEW placed, placed = InsertAt(WithLastPage(c), last, r)
      PROVE  Dirty(c) \subseteq Dirty(placed.cache)
  <2>1. Dirty(c) \subseteq Dirty(WithLastPage(c))
    BY LoadDirty
  <2>2. Dirty(WithLastPage(c)) \subseteq Dirty(placed.cache)
    BY <1>2, InsertDirty
  <2> QED BY <2>1, <2>2
<1>3. CASE SkipRow(s) \/ SelectRow(s)
  <2>1. Scanning(s) /\ CanGet(cache[s], cur[s]) /\ \E k \in Indices(s) : cache'[s] = Passed(s, k)
    BY <1>1, <1>3 DEF SkipRow, SelectRow, Types
  <2>2. PICK k \in Indices(s) : cache'[s] = Passed(s, k)
    BY <2>1
  <2>3. Current(s) \in Page
    BY <2>1, <2>2, RowOfScan
  <2> QED BY <2>2, <2>3, PassedDirty
<1>4. CASE DeleteRow(s)
  <2>1. /\ Scanning(s) /\ CanGet(cache[s], cur[s])
        /\ \E k \in Indices(s) : cache'[s] = DeleteRid(Passed(s, k), RidAt(s, k))
    BY <1>1, <1>4 DEF DeleteRow, Types
  <2>2. PICK k \in Indices(s) : cache'[s] = DeleteRid(Passed(s, k), RidAt(s, k))
    BY <2>1
  <2> DEFINE slot == SlotAt(Current(s), k)
  <2>3. /\ k \in Nat /\ Current(s) \in Page /\ slot \in 1 .. Len(Current(s).rows) /\ slot \in 1 .. PageSlots
        /\ RidAt(s, k) = RowId(cur[s], slot)
    BY <2>1, RowOfScan
  <2>4. /\ CacheOK(Passed(s, k)) /\ cur[s] \in DOMAIN Passed(s, k)
        /\ Passed(s, k)[cur[s]].rows = Current(s).rows
    BY <2>1, <2>3, PassedPage, PassedOK DEF Held, IInv
  <2>5. Dirty(Passed(s, k)) \subseteq Dirty(cache'[s])
    <3> HIDE DEF slot
    <3> QED BY <2>2, <2>3, <2>4, DeleteDirty
  <2>6. Dirty(cache[s]) \subseteq Dirty(Passed(s, k))
    BY <2>3, PassedDirty
  <2> QED BY <2>5, <2>6
<1>5. CASE InsertNext(s)
  <2>1. CacheOK(cache[s]) /\ Linked(cache[s], Len(file)) /\ Filled(cache[s], Len(file))
    BY <1>1, <1>5 DEF SessionOK, InsertNext
  <2>2. CacheOK(WithLastPage(cache[s]))
    BY <2>1, <1>1, WithLastPageOK DEF Held
  <2>3. \E o \in DOMAIN WithLastPage(cache[s]) : \E r, placed :
          /\ IsLast(WithLastPage(cache[s]), o)
          /\ placed = InsertAt(WithLastPage(cache[s]), o, r) /\ cache'[s] = placed.cache
    BY <1>1, <1>5 DEF InsertNext, Types
  <2> QED BY <2>2, <2>3, <1>2
<1>6. CASE ScanEnd(s)
  <2>1. cache'[s] = cache[s] \/ cache'[s] = WithLastPage(Loaded(s))
    BY <1>1, <1>6 DEF ScanEnd, Types
  <2> QED BY <2>1, LoadDirty DEF Loaded
<1>7. CASE UpdateRow(s)
  <2>1. /\ Scanning(s) /\ CanGet(cache[s], cur[s])
        /\ \E k \in Indices(s) :
           \E o \in DOMAIN WithLastPage(Passed(s, k)) :
             \E r, placed :
               /\ IsLast(WithLastPage(Passed(s, k)), o)
               /\ placed = InsertAt(WithLastPage(Passed(s, k)), o, r)
               /\ \/ cache'[s] = placed.cache
                  \/ pc'[s] = "rows"
    <3>1. Scanning(s) /\ CanGet(cache[s], cur[s])
      BY <1>7 DEF UpdateRow
    <3>2. PICK k \in Indices(s) :
            LET c == WithLastPage(Passed(s, k)) IN
            \E o \in DOMAIN c :
              /\ IsLast(c, o)
              /\ LET merged == [RowAt(s, k) EXCEPT !.val = stmt[s].set]
                     placed == InsertAt(c, o, merged)
                 IN /\ cache' = [cache EXCEPT ![s] =
                         IF placed.ok THEN DeleteRid(placed.cache, RidAt(s, k))
                         ELSE placed.cache]
                    /\ pc' = [pc EXCEPT ![s] = IF placed.ok THEN "rows" ELSE "close"]
      BY <1>7 DEF UpdateRow
    <3>3. PICK c : c = WithLastPage(Passed(s, k))
      OBVIOUS
    <3>4. PICK merged : merged = [RowAt(s, k) EXCEPT !.val = stmt[s].set]
      OBVIOUS
    <3>5. PICK o \in DOMAIN c :
              /\ IsLast(c, o)
              /\ LET placed == InsertAt(c, o, merged)
                 IN /\ cache' = [cache EXCEPT ![s] =
                         IF placed.ok THEN DeleteRid(placed.cache, RidAt(s, k))
                         ELSE placed.cache]
                    /\ pc' = [pc EXCEPT ![s] = IF placed.ok THEN "rows" ELSE "close"]
      BY <3>2, <3>3, <3>4
    <3>6. PICK placed : placed = InsertAt(c, o, merged)
      OBVIOUS
    <3>7. cache'[s] = placed.cache \/ pc'[s] = "rows"
      BY <3>5, <3>6, <1>1 DEF Types
    <3> QED BY <3>1, <3>3, <3>5, <3>6, <3>7
  <2>2. CASE pc'[s] = "rows"
    BY <2>2, <1>7, UpdateEffect
  <2>3. CASE pc'[s] # "rows"
    <3>0. PICK k \in Indices(s) :
             \E o \in DOMAIN WithLastPage(Passed(s, k)) : \E r, placed :
               /\ IsLast(WithLastPage(Passed(s, k)), o)
               /\ placed = InsertAt(WithLastPage(Passed(s, k)), o, r)
               /\ cache'[s] = placed.cache
      BY <2>1, <2>3
    <3>8. PICK o \in DOMAIN WithLastPage(Passed(s, k)) : \E r, placed :
               /\ IsLast(WithLastPage(Passed(s, k)), o)
               /\ placed = InsertAt(WithLastPage(Passed(s, k)), o, r)
               /\ cache'[s] = placed.cache
      BY <3>0
    <3>1. PICK r, placed :
               /\ IsLast(WithLastPage(Passed(s, k)), o)
               /\ placed = InsertAt(WithLastPage(Passed(s, k)), o, r)
               /\ cache'[s] = placed.cache
      BY <3>8
    <3>2. k \in Nat /\ Current(s) \in Page
      BY <2>1, RowOfScan
    <3>3. Held(Passed(s, k), Len(file))
      BY <2>1, <3>2, PassedOK DEF IInv
    <3>4. CacheOK(WithLastPage(Passed(s, k)))
      BY <3>3, <1>1, WithLastPageOK DEF Held
    <3>5. Dirty(Passed(s, k)) \subseteq Dirty(cache'[s])
      BY <3>1, <3>4, <1>2
    <3>6. Dirty(cache[s]) \subseteq Dirty(Passed(s, k))
      BY <3>2, PassedDirty
    <3> QED BY <3>5, <3>6
  <2> QED BY <2>2, <2>3
<1> QED BY <1>3, <1>4, <1>5, <1>6, <1>7

-----------------------------------------------------------------------------
(***************************************************************************)
(* Tags: no two rows of the table, and no two rows of the file, are copies *)
(* of one row.  An UPDATE leaves the old copy in the file for a while, on  *)
(* a page that is still to be written and does not lie behind that of the  *)
(* new copy: pages are written front to back, so the old copy goes first.  *)
(***************************************************************************)
OneTag(S) == \A q, r \in S : q.tag = r.tag => q = r

OlderCopies(s) ==
  \A d \in LiveRows(file), r \in Now(s) :
    d.tag = r.tag => d = r \/ (PageOf(d.rid) \in Dirty(cache[s]) /\ PageOf(d.rid) <= PageOf(r.rid))

TagsApart(s) ==
  /\ OneTag(Now(s)) /\ OneTag(LiveRows(file))
  /\ \A r \in Now(s) : r.tag < nextTag
  /\ \A r \in LiveRows(file) : r.tag < nextTag
  /\ OlderCopies(s)

\* The rows on disk are the rows of the file seen without a cache
LEMMA DiskRows ==
  ASSUME NEW f, FilePages(f)
  PROVE  /\ LiveRows(f) = LiveIn(Table(f, NoPages))
         /\ \A o \in Nat : Table(f, NoPages)[o] = Disk(f, o)
<1>1. DOMAIN NoPages = {}
  BY DEF NoPages
<1> QED BY <1>1, LiveOnDisk DEF Table

\* Where the row ids of a live row lead
LEMMA LiveTyped ==
  ASSUME NEW R, NEW r \in LiveIn(R)
  PROVE  r \in Found /\ r.rid \in Nat /\ r.tag \in Nat /\ r.val \in Val /\ PageOf(r.rid) \in Nat
BY NowTyped

\* A write replaces the rows of one page by those of the table
LEMMA WrittenRows ==
  ASSUME IInv, IInv', NEW s \in Session, NEW o, Writes(s, o), NEW r \in Found
  PROVE  r \in LiveRows(file') <=> IF PageOf(r.rid) = o THEN r \in Now(s) ELSE r \in LiveRows(file)
<1>1. FilePages(file) /\ FilePages(file')
  BY DEF IInv, FileOK, FilePages
<1>2. PageOf(r.rid) \in Nat
  BY RidBack DEF Found
<1>3. PICK x \in Nat : x = PageOf(r.rid)
  BY <1>2
<1>4. Disk(file', x) = IF x = o THEN Table(file, cache[s])[x] ELSE Disk(file, x)
  BY DEF Writes
<1>5. r \in LiveRows(file') <=> Holds(Disk(file', x), SlotOf(r.rid), r)
  BY <1>1, <1>3, DiskRows DEF LiveIn
<1>6. r \in LiveRows(file) <=> Holds(Disk(file, x), SlotOf(r.rid), r)
  BY <1>1, <1>3, DiskRows DEF LiveIn
<1>7. r \in Now(s) <=> Holds(Table(file, cache[s])[x], SlotOf(r.rid), r)
  BY <1>3 DEF Now, LiveIn
<1> QED BY <1>3, <1>4, <1>5, <1>6, <1>7

\* The rows of the file are found rows
LEMMA DiskTyped ==
  ASSUME IInv, NEW r \in LiveRows(file)
  PROVE  r \in Found /\ PageOf(r.rid) \in Nat /\ r.rid \in Nat /\ r.tag \in Nat
<1>1. FilePages(file)
  BY DEF IInv, FileOK, FilePages
<1>2. r \in LiveIn(Table(file, NoPages))
  BY <1>1, DiskRows
<1> QED BY <1>2, LiveTyped

\* A write takes the old copy before the new one
LEMMA WriteKeepsTags ==
  ASSUME IInv, IInv', NEW s \in Session, TagsApart(s), Unmoved(s), nextTag' = nextTag,
         NEW o, Writes(s, o)
  PROVE  TagsApart(s)'
<1>1. Now(s)' = Now(s)
  BY DEF Unmoved
<1>2. ASSUME NEW r \in LiveRows(file')
      PROVE  /\ r \in Found /\ PageOf(r.rid) \in Nat
             /\ IF PageOf(r.rid) = o THEN r \in Now(s) ELSE r \in LiveRows(file)
  <2>1. r \in Found /\ PageOf(r.rid) \in Nat
    <3>1. FilePages(file')
      BY DEF IInv, FileOK, FilePages
    <3>2. r \in LiveIn(Table(file', NoPages))
      BY <3>1, DiskRows
    <3> QED BY <3>2, LiveTyped
  <2> QED BY <2>1, WrittenRows
<1>3. ASSUME NEW q \in LiveRows(file'), NEW r \in LiveRows(file'), q.tag = r.tag,
             PageOf(q.rid) # o
      PROVE  q = r
  <2>1. q \in LiveRows(file) /\ PageOf(q.rid) \in Nat /\ PageOf(r.rid) \in Nat
    BY <1>2, <1>3
  <2>2. CASE PageOf(r.rid) # o
    <3>1. r \in LiveRows(file)
      BY <2>2, <1>2
    <3> QED BY <2>1, <3>1, <1>3 DEF TagsApart, OneTag
  <2>3. CASE PageOf(r.rid) = o
    <3>1. r \in Now(s)
      BY <2>3, <1>2
    <3>2. q = r \/ (PageOf(q.rid) \in Dirty(cache[s]) /\ PageOf(q.rid) <= PageOf(r.rid))
      BY <2>1, <3>1, <1>3 DEF TagsApart, OlderCopies
    <3>3. ~(PageOf(q.rid) \in Dirty(cache[s]) /\ PageOf(q.rid) <= o)
      BY <2>1, <1>3 DEF Writes
    <3> QED BY <2>3, <3>2, <3>3
  <2> QED BY <2>2, <2>3
<1>4. OneTag(LiveRows(file'))
  <2> SUFFICES ASSUME NEW q \in LiveRows(file'), NEW r \in LiveRows(file'), q.tag = r.tag
               PROVE  q = r
    BY DEF OneTag
  <2>1. CASE PageOf(q.rid) # o
    BY <2>1, <1>3
  <2>2. CASE PageOf(r.rid) # o
    BY <2>2, <1>3
  <2>3. CASE PageOf(q.rid) = o /\ PageOf(r.rid) = o
    BY <2>3, <1>2 DEF TagsApart, OneTag
  <2> QED BY <2>1, <2>2, <2>3
<1>5. \A r \in LiveRows(file') : r.tag < nextTag
  BY <1>2 DEF TagsApart
<1>6. ASSUME NEW d \in LiveRows(file'), NEW r \in Now(s), d.tag = r.tag
      PROVE  d = r \/ (PageOf(d.rid) \in Dirty(cache'[s]) /\ PageOf(d.rid) <= PageOf(r.rid))
  <2>1. CASE PageOf(d.rid) = o
    BY <2>1, <1>2, <1>6 DEF TagsApart, OneTag
  <2>2. CASE PageOf(d.rid) # o
    <3>1. d = r \/ (PageOf(d.rid) \in Dirty(cache[s]) /\ PageOf(d.rid) <= PageOf(r.rid))
      BY <2>2, <1>2, <1>6 DEF TagsApart, OlderCopies
    <3> QED BY <2>2, <3>1 DEF Writes
  <2> QED BY <2>1, <2>2
<1> QED BY <1>1, <1>4, <1>5, <1>6 DEF TagsApart, OlderCopies

\* A step that changes no row
LEMMA RestKeepsTags ==
  ASSUME NEW s \in Session, TagsApart(s), file' = file, Now(s)' = Now(s),
         Dirty(cache[s]) \subseteq Dirty(cache'[s]), nextTag' = nextTag
  PROVE  TagsApart(s)'
BY DEF TagsApart, OlderCopies

\* INSERT gives its row a tag of its own
LEMMA InsertKeepsTags ==
  ASSUME IInv, NEW s \in Session, Base(s), TagsApart(s), InsertNext(s)
  PROVE  TagsApart(s)'
<1>1. file' = file /\ Dirty(cache[s]) \subseteq Dirty(cache'[s])
  BY InsertEffect, StaysDirty
<1>2. nextTag' = nextTag + 1 /\ nextTag \in Nat
  BY DEF InsertNext, IInv, Types
<1>3. \A r \in Now(s) : r.tag \in Nat /\ r.tag < nextTag /\ r.tag < nextTag + 1
  BY <1>2, LiveTyped DEF TagsApart, Now
<1>4. \A r \in LiveRows(file) : r.tag \in Nat /\ r.tag < nextTag /\ r.tag < nextTag + 1
  BY <1>2, DiskTyped DEF TagsApart
<1>5. CASE Now(s)' = Now(s)
  BY <1>1, <1>2, <1>3, <1>4, <1>5 DEF TagsApart, OlderCopies
<1>6. ASSUME NEW new \in Found, new.tag = nextTag, Now(s)' = Now(s) \cup {new}
      PROVE  TagsApart(s)'
  <2>1. OneTag(Now(s)')
    BY <1>2, <1>3, <1>6 DEF TagsApart, OneTag
  <2>2. \A r \in Now(s)' : r.tag < nextTag'
    BY <1>2, <1>3, <1>6
  <2>3. OlderCopies(s)'
    BY <1>1, <1>2, <1>4, <1>6 DEF TagsApart, OlderCopies
  <2> QED BY <2>1, <2>2, <2>3, <1>1, <1>2, <1>4 DEF TagsApart
<1> QED BY <1>5, <1>6, InsertEffect

LEMMA DeleteKeepsTags ==
  ASSUME IInv, NEW s \in Session, Base(s), TagsApart(s), DeleteRow(s)
  PROVE  TagsApart(s)'
<1>1. file' = file /\ Dirty(cache[s]) \subseteq Dirty(cache'[s]) /\ nextTag' = nextTag
  BY DeleteEffect, StaysDirty DEF DeleteRow
<1>2. Now(s)' \subseteq Now(s)
  BY DeleteEffect
<1> QED BY <1>1, <1>2 DEF TagsApart, OlderCopies, OneTag

\* UPDATE puts the new copy behind the old one, whose page is now to be written
LEMMA UpdateKeepsTags ==
  ASSUME IInv, NEW s \in Session, Base(s), TagsApart(s), UpdateRow(s)
  PROVE  TagsApart(s)'
<1>1. /\ file' = file /\ Dirty(cache[s]) \subseteq Dirty(cache'[s]) /\ nextTag' = nextTag
  BY UpdateEffect, StaysDirty DEF UpdateRow
<1>2. CASE Now(s)' = Now(s)
  BY <1>1, <1>2, RestKeepsTags
<1>3. ASSUME NEW r \in Now(s), NEW new \in Found, new.tag = r.tag,
             PageOf(r.rid) = cur[s], PageOf(new.rid) >= cur[s], PageOf(new.rid) \in Nat,
             Now(s)' = (Now(s) \ {r}) \cup {new},
             cur[s] \in Dirty(cache'[s])
      PROVE  TagsApart(s)'
  <2>1. OneTag(Now(s)')
    BY <1>3 DEF TagsApart, OneTag
  <2>2. \A q \in Now(s)' : q.tag < nextTag'
    BY <1>1, <1>3 DEF TagsApart
  <2>3. ASSUME NEW d \in LiveRows(file), NEW q \in Now(s)', d.tag = q.tag
        PROVE  d = q \/ (PageOf(d.rid) \in Dirty(cache'[s]) /\ PageOf(d.rid) <= PageOf(q.rid))
    <3>1. CASE q \in Now(s)
      BY <3>1, <2>3, <1>1 DEF TagsApart, OlderCopies
    <3>2. CASE q = new
      <4>1. d = r \/ (PageOf(d.rid) \in Dirty(cache[s]) /\ PageOf(d.rid) <= PageOf(r.rid))
        BY <3>2, <2>3, <1>3 DEF TagsApart, OlderCopies
      <4>2. PageOf(d.rid) \in Nat /\ PageOf(r.rid) \in Nat
        BY DiskTyped, LiveTyped DEF Now
      <4>3. PageOf(d.rid) \in Dirty(cache'[s])
        BY <4>1, <1>1, <1>3
      <4>4. PageOf(d.rid) <= PageOf(new.rid)
        BY <4>1, <4>2, <1>3
      <4> QED BY <3>2, <4>3, <4>4
    <3> QED BY <3>1, <3>2, <1>3
  <2> QED BY <2>1, <2>2, <2>3, <1>1 DEF TagsApart, OlderCopies
<1>4. \/ Now(s)' = Now(s)
      \/ \E r \in Now(s), new \in Found :
           /\ new.tag = r.tag /\ PageOf(r.rid) = cur[s] /\ PageOf(new.rid) >= cur[s] /\ PageOf(new.rid) \in Nat
           /\ Now(s)' = (Now(s) \ {r}) \cup {new} /\ cur[s] \in Dirty(cache'[s])
  BY UpdateEffect
<1> QED BY <1>2, <1>3, <1>4

\* Without a cache the session sees the file
LEMMA EmptyCache ==
  ASSUME IInv, NEW s \in Session, DOMAIN cache[s] = {}
  PROVE  /\ Now(s) = LiveRows(file) /\ Clean(file, cache[s]) /\ Dirty(cache[s]) = {} /\ Fresh(s)
         /\ \A rid : PageOf(rid) \in Nat /\ cur[s] = 0 => ~Behind(s, rid)
<1>1. FilePages(file)
  BY DEF IInv, FileOK, FilePages
<1>2. Now(s) = LiveRows(file)
  BY <1>1, LiveOnDisk DEF Now
<1> QED BY <1>2 DEF Clean, Dirty, Fresh, Behind

\* What is left when nothing is cached
LEMMA EmptyKeepsTags ==
  ASSUME IInv, IInv', NEW s \in Session, TagsApart(s), nextTag' = nextTag,
         DOMAIN cache'[s] = {}, LiveRows(file') \subseteq LiveRows(file)
  PROVE  TagsApart(s)'
<1>1. Now(s)' = LiveRows(file')
  <2>1. FilePages(file')
    BY DEF IInv, FileOK, FilePages
  <2> QED BY <2>1, LiveOnDisk DEF Now
<1>2. \A q, r \in LiveRows(file') : q.tag = r.tag => q = r
  BY DEF TagsApart, OneTag
<1>3. \A r \in LiveRows(file') : r.tag < nextTag
  BY DEF TagsApart
<1> QED BY <1>1, <1>2, <1>3 DEF TagsApart, OneTag, OlderCopies

-----------------------------------------------------------------------------
(***************************************************************************)
(* What holds while a statement runs.                                      *)
(***************************************************************************)
\* The rows the statement does not select
Bystanders(s) ==
  IF stmt[s].kind \in {"insert", "select"} THEN snap[s] ELSE snap[s] \ Hits(s)

Safe(s) ==
  stmt[s].kind # "truncate" =>
    Bystanders(s) \subseteq Now(s) /\ Bystanders(s) \subseteq LiveRows(file)

Opened(s) ==
  /\ snap[s] \subseteq Found /\ IsFiniteSet(snap[s]) /\ OneTag(snap[s])
  /\ pc[s] = "rows" => ~failed[s]

\* A row the scan cannot meet any more
Past(s, r) == pc[s] = "close" \/ Behind(s, r.rid)

Selecting(s) ==
  stmt[s].kind = "select" =>
    /\ Now(s) = snap[s]
    /\ \A i \in 1 .. Len(out[s]) : out[s][i] \in Hits(s)
    /\ \A r \in Hits(s) : Past(s, r) => \E i \in 1 .. Len(out[s]) : out[s][i] = r

Deleting(s) ==
  stmt[s].kind = "delete" =>
    /\ Now(s) \subseteq snap[s]
    /\ affected[s] = Cardinality(snap[s] \ Now(s))
    /\ \A r \in Now(s) : r.val \in stmt[s].filter => ~Past(s, r)

Truncating(s) == stmt[s].kind = "truncate" /\ pc[s] = "close" => Now(s) = {}

\* What is new when the first k values of v are in the table and the next
\* row's tag is t
Supplied(v, k, t) == {[tag |-> t - k + i - 1, val |-> v[i]] : i \in 1 .. k}

\* n values are in the table
Inserted(s, n) ==
  /\ Len(todo[s]) = Len(stmt[s].vals) - n
  /\ \A i \in 1 .. Len(todo[s]) : todo[s][i] = stmt[s].vals[n + i]
  /\ pc[s] = "close" => n = Len(stmt[s].vals)
  /\ Content(Now(s)) = Content(snap[s]) \cup Supplied(stmt[s].vals, n, nextTag)
Inserting(s) ==
  stmt[s].kind = "insert" /\ ~failed[s] => \E n \in 0 .. Len(stmt[s].vals) : Inserted(s, n)

\* The table has, or will have, a second page
Wide(s) == Len(file) >= 2 \/ \E o \in Dirty(cache[s]) : o >= 1

\* Rows that were there when the statement opened have lower ids than those
\* it adds; each of the others is the changed copy of a row it has selected.
OldBelow(s) ==
  pc[s] = "rows" => \A h \in snap[s], rid \in Nat : Above(Table(file, cache[s]), rid) => h.rid < rid
Copied(s) ==
  \A r \in Now(s) : r \notin snap[s] => \E h \in Hits(s) : r.tag = h.tag /\ r.val = stmt[s].set
Ahead2(s) ==
  \A r \in Now(s) : r \in snap[s] /\ r.val \in stmt[s].filter => failed[s] \/ ~Past(s, r)
Kept2(s) ==
  \A h \in Hits(s) : h \in Now(s) \/ \E r \in Now(s) \ snap[s] : r.tag = h.tag
Tallied(s) ==
  ~failed[s] =>
    \/ stmt[s].set \in stmt[s].filter /\ Wide(s)
    \/ affected[s] = Cardinality(Hits(s) \ Now(s))
CopiesPast(s) == pc[s] = "rows" => Wide(s) \/ \A r \in Now(s) \ snap[s] : Behind(s, r.rid)
Updating(s) ==
  stmt[s].kind = "update" =>
    OldBelow(s) /\ Copied(s) /\ Ahead2(s) /\ Kept2(s) /\ Tallied(s) /\ CopiesPast(s)

Running(s) ==
  /\ Opened(s) /\ Safe(s)
  /\ Selecting(s) /\ Deleting(s) /\ Truncating(s) /\ Inserting(s) /\ Updating(s)

Alone(s) == Base(s) /\ TagsApart(s) /\ (pc[s] # "idle" => Running(s))

LInv == RInv /\ DOMAIN snap = Session /\ \A s \in Session : Alone(s)

-----------------------------------------------------------------------------
(***************************************************************************)
(* Steps that change no row: a row is passed or returned, a page is left   *)
(* or written, the scan ends.                                              *)
(***************************************************************************)
Quiet(s) ==
  /\ Unmoved(s)
  /\ stmt'[s] = stmt[s] /\ snap'[s] = snap[s] /\ todo'[s] = todo[s] /\ failed'[s] = failed[s]
  /\ nextTag' = nextTag
  /\ Scanning(s) \/ pc[s] = "close"
  /\ pc'[s] \in {pc[s], "close"}
  /\ \A r \in Now(s) : Behind(s, r.rid) => Past(s, r)'
  /\ (file' = file /\ Dirty(cache[s]) \subseteq Dirty(cache'[s])) \/ \E o \in Nat : Writes(s, o)

\* None but rows the statement does not select become past
PassesOthers(s) ==
  \A r \in Now(s) : r.val \in stmt[s].filter /\ ~Past(s, r) => ~Past(s, r)'

LEMMA QuietSteps ==
  ASSUME IInv, NEW s \in Session, Base(s)
  PROVE  /\ SelectRow(s) => Quiet(s)
         /\ SkipRow(s) \/ NextPage(s) \/ ScanEnd(s) \/ Flush(s) =>
              Quiet(s) /\ PassesOthers(s) /\ out'[s] = out[s] /\ affected'[s] = affected[s]
<1>1. Types
  BY DEF IInv
<1>2. ASSUME SkipRow(s) \/ SelectRow(s) PROVE Quiet(s)
  <2>1. /\ UNCHANGED <<file, cur, pc, stmt, todo, failed, snap, nextTag>> /\ Scanning(s)
    BY <1>2 DEF SkipRow, SelectRow, local
  <2>2. Unmoved(s) /\ \A q \in Now(s) : Behind(s, q.rid) => Behind(s, q.rid)'
    BY <1>2, PassEffect
  <2>3. Dirty(cache[s]) \subseteq Dirty(cache'[s])
    BY <1>2, StaysDirty
  <2> QED BY <2>1, <2>2, <2>3 DEF Quiet, Past
<1>3. ASSUME SkipRow(s) PROVE PassesOthers(s) /\ out'[s] = out[s] /\ affected'[s] = affected[s]
  <2>1. UNCHANGED <<out, affected, pc, stmt>> /\ Scanning(s)
    BY <1>3 DEF SkipRow, local
  <2>2. ~SelectRow(s)
    <3>1. PICK k \in Indices(s) : AtRow(s, k) /\ ~Selects(s, k)
      BY <1>3 DEF SkipRow
    <3> SUFFICES ASSUME SelectRow(s) PROVE FALSE
      OBVIOUS
    <3>2. PICK j \in Indices(s) : AtRow(s, j) /\ Selects(s, j)
      BY DEF SelectRow
    <3>3. Current(s) \in Page
      BY <1>3, <3>1, RowOfScan DEF SkipRow
    <3>4. j = k
      <4>1. Current(s).idx \in Nat /\ Len(Current(s).rows) \in Nat
        BY <3>3 DEF Page
      <4> QED BY <3>1, <3>2, <4>1 DEF AtRow, NextRowAt
    <3> QED BY <3>1, <3>2, <3>4
  <2>3. PICK k \in Indices(s), r \in Now(s) :
          /\ Selects(s, k) <=> r.val \in stmt[s].filter
          /\ Selects(s, k) <=> SelectRow(s)
          /\ \A q \in Now(s) : Behind(s, q.rid)' <=> Behind(s, q.rid) \/ q = r
    BY <1>3, PassEffect
  <2> QED BY <2>1, <2>2, <2>3 DEF PassesOthers, Past, Scanning
<1>4. ASSUME NextPage(s)
      PROVE  Quiet(s) /\ PassesOthers(s) /\ out'[s] = out[s] /\ affected'[s] = affected[s]
  <2>1. UNCHANGED <<pc, stmt, todo, affected, failed, out, snap, nextTag>> /\ Scanning(s)
    BY <1>4 DEF NextPage
  <2>2. /\ Unmoved(s) /\ Writes(s, cur[s])
        /\ \A r \in Now(s) : Behind(s, r.rid)' <=> Behind(s, r.rid)
    BY <1>4, NextPageEffect
  <2>3. cur[s] \in Nat
    BY <1>1 DEF Types
  <2> QED BY <2>1, <2>2, <2>3 DEF Quiet, PassesOthers, Past
<1>5. ASSUME ScanEnd(s)
      PROVE  Quiet(s) /\ PassesOthers(s) /\ out'[s] = out[s] /\ affected'[s] = affected[s]
  <2>1. /\ UNCHANGED <<file, cur, stmt, todo, affected, failed, out, snap, nextTag>> /\ Scanning(s)
        /\ pc'[s] = "close"
    BY <1>1, <1>5 DEF ScanEnd, Types
  <2>2. Unmoved(s) /\ \A r \in Now(s) : Behind(s, r.rid)
    BY <1>5, ScanEndEffect
  <2>3. Dirty(cache[s]) \subseteq Dirty(cache'[s])
    BY <1>5, StaysDirty
  <2> QED BY <2>1, <2>2, <2>3 DEF Quiet, PassesOthers, Past
<1>6. ASSUME Flush(s)
      PROVE  Quiet(s) /\ PassesOthers(s) /\ out'[s] = out[s] /\ affected'[s] = affected[s]
  <2>1. UNCHANGED <<pc, stmt, todo, affected, failed, out, snap, nextTag>> /\ pc[s] = "close"
    BY <1>6 DEF Flush, local
  <2>2. Unmoved(s) /\ \E o \in Nat : Writes(s, o)
    BY <1>6, FlushEffect
  <2> QED BY <2>1, <2>2 DEF Quiet, PassesOthers, Past
<1> QED BY <1>2, <1>3, <1>4, <1>5, <1>6

\* A second page stays
LEMMA StaysWide ==
  ASSUME IInv, NEW s \in Session, Wide(s),
         (file' = file /\ Dirty(cache[s]) \subseteq Dirty(cache'[s])) \/ \E o \in Nat : Writes(s, o)
  PROVE  Wide(s)'
<1>1. CASE file' = file /\ Dirty(cache[s]) \subseteq Dirty(cache'[s])
  BY <1>1 DEF Wide
<1>2. ASSUME NEW o \in Nat, Writes(s, o) PROVE Wide(s)'
  <2>1. PICK m \in Nat : m = Len(file)
    BY <1>2 DEF Writes
  <2>2. PICK n \in Nat : n = Len(file')
    BY <1>2 DEF Writes
  <2>3. n >= m /\ (o \in Dirty(cache[s]) => n > o) /\ Dirty(cache[s]) \ {o} \subseteq Dirty(cache'[s])
    BY <1>2, <2>1, <2>2 DEF Writes
  <2>4. CASE m >= 2
    BY <2>2, <2>3, <2>4 DEF Wide
  <2>5. ASSUME NEW p \in Dirty(cache[s]), p >= 1 PROVE Wide(s)'
    <3>1. CASE p = o
      <4>1. n >= 2
        BY <3>1, <2>5, <2>3
      <4> QED BY <4>1, <2>2 DEF Wide
    <3>2. CASE p # o
      <4>1. p \in Dirty(cache'[s])
        BY <3>2, <2>3
      <4> QED BY <4>1, <2>5 DEF Wide
    <3> QED BY <3>1, <3>2
  <2> QED BY <2>1, <2>4, <2>5 DEF Wide
<1> QED BY <1>1, <1>2

\* What such a step keeps, when it counts nothing but rows a SELECT returns
LEMMA QuietKeeps ==
  ASSUME IInv, IInv', NEW s \in Session, Alone(s), Quiet(s), Selecting(s)',
         stmt[s].kind # "select" => PassesOthers(s) /\ affected'[s] = affected[s]
  PROVE  Alone(s)'
<1>1. /\ stmt'[s] = stmt[s] /\ snap'[s] = snap[s] /\ todo'[s] = todo[s] /\ failed'[s] = failed[s]
      /\ nextTag' = nextTag /\ Unmoved(s)
      /\ Now(s)' = Now(s) /\ Table(file, cache[s])' = Table(file, cache[s])
      /\ Scanning(s) \/ pc[s] = "close"
      /\ pc'[s] \in {pc[s], "close"} /\ pc[s] # "idle" /\ pc'[s] # "idle"
      /\ \A r \in Now(s) : Behind(s, r.rid) => Past(s, r)'
      /\ (file' = file /\ Dirty(cache[s]) \subseteq Dirty(cache'[s])) \/ \E o \in Nat : Writes(s, o)
  BY DEF Quiet, Unmoved, Scanning
<1>2. Base(s) /\ TagsApart(s) /\ Running(s)
  BY <1>1 DEF Alone
<1>3. Base(s)'
  BY <1>1 DEF Unmoved, Base
<1>4. TagsApart(s)'
  BY <1>1, <1>2, RestKeepsTags, WriteKeepsTags
<1>5. Opened(s)' /\ Hits(s)' = Hits(s) /\ Bystanders(s)' = Bystanders(s)
  BY <1>1, <1>2 DEF Running, Opened, Hits, Bystanders
<1>6. Safe(s)'
  <2> SUFFICES ASSUME stmt[s].kind # "truncate", NEW r \in Bystanders(s)
               PROVE  r \in Now(s) /\ r \in LiveRows(file')
    BY <1>1, <1>5 DEF Safe
  <2>1. r \in Now(s) /\ r \in LiveRows(file) /\ r \in Found
    BY <1>2 DEF Running, Safe, Opened, Bystanders
  <2>2. ASSUME NEW o \in Nat, Writes(s, o) PROVE r \in LiveRows(file')
    BY <2>1, <2>2, WrittenRows
  <2> QED BY <2>1, <2>2, <1>1
<1>7. Deleting(s)'
  BY <1>1, <1>2 DEF Running, Deleting, PassesOthers
<1>8. Truncating(s)'
  BY <1>1, <1>2 DEF Running, Truncating, Scanning
<1>9. Inserting(s)'
  <2> SUFFICES ASSUME stmt[s].kind = "insert", ~failed[s]
               PROVE  \E n \in 0 .. Len(stmt[s].vals) : Inserted(s, n)'
    BY <1>1 DEF Inserting
  <2>1. pc[s] = "close" /\ pc'[s] = "close"
    BY <1>1 DEF Scanning
  <2>2. PICK n \in 0 .. Len(stmt[s].vals) : Inserted(s, n)
    BY <1>2 DEF Running, Inserting
  <2>3. Inserted(s, n)'
    BY <2>1, <2>2, <1>1 DEF Inserted
  <2> QED BY <2>3
<1>10. Updating(s)'
  <2> SUFFICES ASSUME stmt[s].kind = "update" PROVE Updating(s)'
    BY <1>1 DEF Updating
  <2>1. /\ OldBelow(s) /\ Copied(s) /\ Ahead2(s) /\ Kept2(s) /\ Tallied(s) /\ CopiesPast(s)
        /\ PassesOthers(s) /\ affected'[s] = affected[s]
    BY <1>2 DEF Running, Updating
  <2>2. OldBelow(s)' /\ Copied(s)' /\ Kept2(s)'
    BY <2>1, <1>1, <1>5 DEF OldBelow, Copied, Kept2
  <2>3. Ahead2(s)'
    BY <2>1, <1>1 DEF Ahead2, PassesOthers
  <2>4. Wide(s) => Wide(s)'
    BY <1>1, StaysWide
  <2>5. Tallied(s)'
    BY <2>1, <2>4, <1>1, <1>5 DEF Tallied
  <2>6. CopiesPast(s)'
    BY <2>1, <2>4, <1>1 DEF CopiesPast, Past
  <2> QED BY <2>2, <2>3, <2>5, <2>6 DEF Updating
<1> QED BY <1>1, <1>3, <1>4, <1>5, <1>6, <1>7, <1>8, <1>9, <1>10 DEF Alone, Running

LEMMA QuietActionsKeep ==
  ASSUME IInv, IInv', NEW s \in Session, Alone(s), SkipRow(s) \/ NextPage(s) \/ ScanEnd(s) \/ Flush(s)
  PROVE  Alone(s)'
<1>1. Base(s)
  BY DEF Alone
<1>2. Quiet(s) /\ PassesOthers(s) /\ out'[s] = out[s] /\ affected'[s] = affected[s]
  BY <1>1, QuietSteps
<1>3. /\ stmt'[s] = stmt[s] /\ snap'[s] = snap[s] /\ Now(s)' = Now(s)
      /\ pc[s] # "idle"
  BY <1>2 DEF Quiet, Unmoved, Scanning
<1>4. Selecting(s) /\ Hits(s)' = Hits(s)
  BY <1>3 DEF Alone, Running, Hits
<1>5. Selecting(s)'
  <2> SUFFICES ASSUME stmt[s].kind = "select" PROVE Selecting(s)'
    BY <1>3 DEF Selecting
  <2>1. Now(s) = snap[s] /\ \A i \in 1 .. Len(out[s]) : out[s][i] \in Hits(s)
    BY <1>4 DEF Selecting
  <2>2. \A r \in Hits(s) : Past(s, r)' => Past(s, r)
    BY <2>1, <1>2 DEF Hits, PassesOthers
  <2> QED BY <2>1, <2>2, <1>2, <1>3, <1>4 DEF Selecting
<1> QED BY <1>2, <1>5, QuietKeeps

\* A SELECT returns the row it passes
LEMMA SelectKeeps ==
  ASSUME IInv, IInv', out \in [Session -> Seq(Found)], NEW s \in Session, Alone(s), SelectRow(s)
  PROVE  Alone(s)'
<1>1. Base(s) /\ stmt[s].kind = "select" /\ pc[s] = "rows" /\ pc' = pc
  BY DEF Alone, SelectRow, Scanning
<1>2. Quiet(s)
  BY <1>1, QuietSteps
<1>3. stmt'[s] = stmt[s] /\ snap'[s] = snap[s] /\ Now(s)' = Now(s)
  BY <1>2 DEF Quiet, Unmoved
<1>4. PICK k \in Indices(s), r \in Now(s) :
        /\ r = FoundAt(s, k) /\ (Selects(s, k) <=> r.val \in stmt[s].filter)
        /\ Selects(s, k) <=> SelectRow(s)
        /\ SelectRow(s) => out' = [out EXCEPT ![s] = Append(@, FoundAt(s, k))]
        /\ \A q \in Now(s) : Behind(s, q.rid)' <=> Behind(s, q.rid) \/ q = r
  BY <1>1, PassEffect
<1>5. out'[s] = Append(out[s], r) /\ r.val \in stmt[s].filter
  BY <1>4
<1>6. Selecting(s) /\ Hits(s)' = Hits(s)
  BY <1>1, <1>3 DEF Alone, Running, Hits
<1>7. PICK n \in Nat : n = Len(out[s])
  OBVIOUS
<1>8. /\ Len(out'[s]) = n + 1 /\ out'[s][n + 1] = r
      /\ \A i \in 1 .. n : out'[s][i] = out[s][i]
  BY <1>4, <1>5, <1>7 DEF LiveIn, Now
<1>9. Now(s) = snap[s] /\ r \in Hits(s)
  BY <1>1, <1>4, <1>5, <1>6 DEF Selecting, Hits
<1>10. \A i \in 1 .. n + 1 : out'[s][i] \in Hits(s)
  <2>1. \A i \in 1 .. n : out'[s][i] \in Hits(s)
    BY <1>1, <1>6, <1>7, <1>8 DEF Selecting
  <2> QED BY <2>1, <1>8, <1>9
<1>11. ASSUME NEW q \in Hits(s), Past(s, q)'
       PROVE  \E i \in 1 .. n + 1 : out'[s][i] = q
  <2>1. q = r \/ Behind(s, q.rid)
    BY <1>1, <1>4, <1>9, <1>11 DEF Past, Hits
  <2>2. CASE q = r
    BY <2>2, <1>8
  <2>3. CASE Behind(s, q.rid)
    <3>1. \E i \in 1 .. n : out[s][i] = q
      BY <2>3, <1>1, <1>6, <1>7 DEF Selecting, Past
    <3> QED BY <3>1, <1>8
  <2> QED BY <2>1, <2>2, <2>3
<1>12. Selecting(s)'
  BY <1>3, <1>6, <1>8, <1>9, <1>10, <1>11 DEF Selecting
<1> QED BY <1>1, <1>2, <1>12, QuietKeeps

\* DELETE removes the row it passes, which it selects, and counts it
LEMMA DeleteKeeps ==
  ASSUME IInv, IInv', NEW s \in Session, Alone(s), DeleteRow(s)
  PROVE  Alone(s)'
<1>1. /\ Base(s) /\ stmt[s].kind = "delete" /\ pc[s] = "rows"
      /\ affected[s] \in Nat /\ affected'[s] = affected[s] + 1
      /\ UNCHANGED <<pc, stmt, snap, todo, failed, nextTag>>
  BY DEF Alone, DeleteRow, Scanning, IInv, Types
<1>2. PICK r \in Now(s) :
        /\ r.val \in stmt[s].filter /\ ~Behind(s, r.rid)
        /\ Now(s)' = Now(s) \ {r}
        /\ \A q \in Now(s) : Behind(s, q.rid)' <=> Behind(s, q.rid) \/ q = r
  BY <1>1, DeleteEffect
<1>3. file' = file /\ Base(s)'
  BY <1>1, DeleteEffect DEF Base
<1>4. TagsApart(s)'
  BY <1>1, DeleteKeepsTags DEF Alone
<1>5. Opened(s) /\ Safe(s) /\ Deleting(s)
  BY <1>1 DEF Alone, Running
<1>6. Now(s) \subseteq snap[s] /\ affected[s] = Cardinality(snap[s] \ Now(s)) /\ r \in Hits(s)
  BY <1>1, <1>2, <1>5 DEF Deleting, Hits
<1>7. Hits(s)' = Hits(s) /\ Bystanders(s)' = Bystanders(s) /\ Opened(s)'
  BY <1>1, <1>5 DEF Hits, Bystanders, Opened
<1>8. Safe(s)'
  <2>1. r \notin Bystanders(s)
    BY <1>1, <1>6 DEF Bystanders
  <2> QED BY <2>1, <1>1, <1>2, <1>3, <1>5, <1>7 DEF Safe
<1>9. Deleting(s)'
  <2>1. snap[s] \ Now(s)' = (snap[s] \ Now(s)) \cup {r} /\ r \notin snap[s] \ Now(s)
    BY <1>2, <1>6
  <2>2. IsFiniteSet(snap[s] \ Now(s))
    BY <1>5, FS_Difference DEF Opened
  <2>3. Cardinality(snap[s] \ Now(s)') = affected'[s]
    BY <2>1, <2>2, <1>1, <1>6, FS_AddElement, ZenonT(40)
  <2>4. \A q \in Now(s)' : q.val \in stmt[s].filter => ~Past(s, q)'
    BY <1>1, <1>2, <1>5 DEF Deleting, Past
  <2> QED BY <2>3, <2>4, <1>1, <1>2, <1>6 DEF Deleting
<1>10. Selecting(s)' /\ Truncating(s)' /\ Inserting(s)' /\ Updating(s)'
  BY <1>1 DEF Selecting, Truncating, Inserting, Updating
<1> QED BY <1>3, <1>4, <1>7, <1>8, <1>9, <1>10 DEF Alone, Running

\* A changed row leaves its place for a new one, behind all others.  Its page,
\* and that of the copy, are then still to be written.
Moves(s, r, new) ==
  /\ r \in Now(s) /\ new \in Found
  /\ r.val \in stmt[s].filter /\ ~Behind(s, r.rid)
  /\ new.tag = r.tag /\ new.val = stmt[s].set
  /\ Above(Table(file, cache[s]), new.rid)
  /\ Now(s)' = (Now(s) \ {r}) \cup {new}
  /\ \A q \in Now(s) \ {r} : Behind(s, q.rid)' <=> Behind(s, q.rid)
  /\ PageOf(new.rid) \in Nat
  /\ PageOf(new.rid) = cur[s] => Behind(s, new.rid)'
  /\ Dirty(cache[s]) \cup {cur[s], PageOf(new.rid)} \subseteq Dirty(cache'[s])
  /\ \A rid \in Nat : Above(Table(file', cache'[s]), rid) => Above(Table(file, cache[s]), rid)

LEMMA MovesKeeps ==
  ASSUME IInv, IInv', NEW s \in Session, Alone(s), NEW r, NEW new, Moves(s, r, new), Scanning(s),
         stmt[s].kind = "update", pc'[s] = "rows", failed'[s] = FALSE, affected'[s] = affected[s] + 1,
         UNCHANGED <<file, cur, stmt, snap>>
  PROVE  Updating(s)' /\ Safe(s)'
<1>1. /\ pc[s] = "rows" /\ failed[s] = FALSE /\ affected[s] \in Nat /\ cur[s] \in Nat
      /\ Opened(s) /\ Safe(s) /\ OldBelow(s) /\ Copied(s) /\ Ahead2(s) /\ Kept2(s)
      /\ Tallied(s) /\ CopiesPast(s)
  BY DEF Alone, Running, Updating, Scanning, Opened, IInv, Types
<1>2. /\ r \in Now(s) /\ new \in Found /\ new.rid \in Nat
      /\ r.val \in stmt[s].filter /\ ~Behind(s, r.rid)
      /\ new.tag = r.tag /\ new.val = stmt[s].set
      /\ Now(s)' = (Now(s) \ {r}) \cup {new}
      /\ \A q \in Now(s) \ {r} : Behind(s, q.rid)' <=> Behind(s, q.rid)
  BY DEF Moves, Found
<1>3. new \notin snap[s]
  <2>1. \A h \in snap[s] : h.rid < new.rid
    BY <1>1, <1>2 DEF OldBelow, Moves
  <2> QED BY <2>1, <1>2
<1>4. Hits(s)' = Hits(s) /\ Bystanders(s)' = Bystanders(s) /\ snap'[s] = snap[s] /\ stmt'[s] = stmt[s]
  BY DEF Hits, Bystanders
<1>5. r \in snap[s] => r \in Hits(s)
  BY <1>2 DEF Hits
<1>6. Safe(s)'
  <2>1. r \notin Bystanders(s)
    BY <1>5 DEF Bystanders
  <2> QED BY <2>1, <1>1, <1>2, <1>4 DEF Safe
<1>7. OldBelow(s)'
  BY <1>1, <1>4 DEF OldBelow, Moves
<1>8. Copied(s)'
  <2> SUFFICES ASSUME NEW q \in Now(s)', q \notin snap[s]
               PROVE  \E h \in Hits(s) : q.tag = h.tag /\ q.val = stmt[s].set
    BY <1>4 DEF Copied
  <2>1. CASE q \in Now(s)
    BY <2>1, <1>1 DEF Copied
  <2>2. CASE q = new
    <3>1. CASE r \in snap[s]
      BY <3>1, <2>2, <1>2, <1>5
    <3>2. CASE r \notin snap[s]
      BY <3>2, <2>2, <1>1, <1>2 DEF Copied
    <3> QED BY <3>1, <3>2
  <2> QED BY <2>1, <2>2, <1>2
<1>9. Ahead2(s)'
  <2> SUFFICES ASSUME NEW q \in Now(s)', q \in snap[s], q.val \in stmt[s].filter
               PROVE  ~Past(s, q)'
    BY <1>4 DEF Ahead2
  <2>1. q \in Now(s) \ {r}
    BY <1>2, <1>3
  <2>2. ~Past(s, q)
    BY <2>1, <1>1 DEF Ahead2
  <2> QED BY <2>1, <2>2, <1>1, <1>2 DEF Past
<1>10. Kept2(s)'
  <2> SUFFICES ASSUME NEW h \in Hits(s), h \notin Now(s)'
               PROVE  \E q \in Now(s)' \ snap[s] : q.tag = h.tag
    BY <1>4 DEF Kept2
  <2>1. CASE h \in Now(s)
    BY <2>1, <1>2, <1>3
  <2>2. CASE h \notin Now(s)
    <3>1. PICK q \in Now(s) \ snap[s] : q.tag = h.tag
      BY <2>2, <1>1 DEF Kept2
    <3>2. CASE q = r
      BY <3>1, <3>2, <1>2, <1>3
    <3>3. CASE q # r
      BY <3>1, <3>3, <1>2
    <3> QED BY <3>2, <3>3
  <2> QED BY <2>1, <2>2
<1>11. Wide(s) => Wide(s)'
  <2>1. Dirty(cache[s]) \subseteq Dirty(cache'[s])
    BY DEF Moves
  <2> QED BY <2>1, StaysWide
<1>12. Tallied(s)'
  <2>1. CASE stmt[s].set \in stmt[s].filter /\ Wide(s)
    BY <2>1, <1>4, <1>11 DEF Tallied
  <2>2. CASE r \notin snap[s]
    <3>1. r.val = stmt[s].set
      BY <2>2, <1>1, <1>2 DEF Copied
    <3>2. Wide(s)
      BY <2>2, <1>1, <1>2 DEF CopiesPast
    <3> QED BY <3>1, <3>2, <2>1, <1>2
  <2>3. CASE r \in snap[s] /\ affected[s] = Cardinality(Hits(s) \ Now(s))
    <3>1. Hits(s) \ Now(s)' = (Hits(s) \ Now(s)) \cup {r} /\ r \notin Hits(s) \ Now(s)
      BY <2>3, <1>2, <1>3, <1>5 DEF Hits
    <3>2. IsFiniteSet(Hits(s) \ Now(s))
      <4>1. Hits(s) \ Now(s) = snap[s] \ (snap[s] \ (Hits(s) \ Now(s)))
        BY DEF Hits
      <4> QED BY <4>1, <1>1, FS_Difference DEF Opened
    <3>3. Cardinality(Hits(s) \ Now(s)') = affected'[s]
      BY <3>1, <3>2, <2>3, FS_AddElement, ZenonT(40)
    <3> QED BY <3>3, <1>4 DEF Tallied
  <2> QED BY <2>1, <2>2, <2>3, <1>1 DEF Tallied
<1>13. CopiesPast(s)'
  <2> SUFFICES ASSUME ~Wide(s)', NEW q \in Now(s)', q \notin snap[s]
               PROVE  Behind(s, q.rid)'
    BY <1>4 DEF CopiesPast
  <2>1. CASE q \in Now(s) \ {r}
    BY <2>1, <1>1, <1>2, <1>11 DEF CopiesPast
  <2>2. CASE q = new
    <3>1. cur[s] \in Dirty(cache'[s]) /\ PageOf(new.rid) \in Dirty(cache'[s]) /\ PageOf(new.rid) \in Nat
      BY DEF Moves
    <3>2. ~(cur[s] >= 1) /\ ~(PageOf(new.rid) >= 1)
      BY <3>1 DEF Wide
    <3>3. PageOf(new.rid) = cur[s]
      BY <3>1, <3>2, <1>1
    <3> QED BY <2>2, <3>3 DEF Moves
  <2> QED BY <2>1, <2>2, <1>2
<1> QED BY <1>6, <1>7, <1>8, <1>9, <1>10, <1>12, <1>13 DEF Updating

LEMMA UpdateKeeps ==
  ASSUME IInv, IInv', NEW s \in Session, Alone(s), UpdateRow(s)
  PROVE  Alone(s)'
<1>1. /\ Base(s) /\ stmt[s].kind = "update" /\ pc[s] = "rows" /\ Scanning(s)
      /\ UNCHANGED <<file, cur, stmt, snap, todo, nextTag>>
  BY DEF Alone, UpdateRow, Scanning
<1>2. Opened(s) /\ Safe(s) /\ Updating(s)
  BY <1>1 DEF Alone, Running
<1>3. Base(s)'
  BY <1>1, UpdateEffect DEF Base
<1>4. TagsApart(s)'
  BY <1>1, UpdateKeepsTags DEF Alone
<1>5. Selecting(s)' /\ Deleting(s)' /\ Truncating(s)' /\ Inserting(s)'
  BY <1>1 DEF Selecting, Deleting, Truncating, Inserting
<1>6. \/ /\ pc'[s] = "rows" /\ failed'[s] = FALSE /\ affected'[s] = affected[s] + 1
         /\ \E r, new : Moves(s, r, new)
      \/ pc'[s] = "close" /\ failed'[s] = TRUE /\ Now(s)' = Now(s)
  BY <1>1, UpdateEffect DEF Moves
<1>7. CASE pc'[s] = "close" /\ failed'[s] = TRUE /\ Now(s)' = Now(s)
  <2>1. Hits(s)' = Hits(s) /\ Bystanders(s)' = Bystanders(s) /\ Opened(s)'
    BY <1>1, <1>2, <1>7 DEF Hits, Bystanders, Opened
  <2>2. Safe(s)'
    BY <2>1, <1>1, <1>2, <1>7 DEF Safe
  <2>3. Updating(s)'
    BY <2>1, <1>1, <1>2, <1>7
       DEF Updating, OldBelow, Copied, Ahead2, Kept2, Tallied, CopiesPast
  <2> QED BY <2>1, <2>2, <2>3, <1>3, <1>4, <1>5 DEF Alone, Running
<1>8. CASE /\ pc'[s] = "rows" /\ failed'[s] = FALSE /\ affected'[s] = affected[s] + 1
           /\ \E r, new : Moves(s, r, new)
  <2>1. PICK r, new : Moves(s, r, new)
    BY <1>8
  <2>2. Updating(s)' /\ Safe(s)'
    BY <2>1, <1>1, <1>8, MovesKeeps
  <2>3. Opened(s)'
    BY <1>1, <1>2, <1>8 DEF Opened
  <2> QED BY <2>2, <2>3, <1>3, <1>4, <1>5 DEF Alone, Running
<1> QED BY <1>6, <1>7, <1>8

\* The rows of n + 1 values: those of n values and the next one
LEMMA OneMore ==
  ASSUME NEW v, NEW t \in Nat, NEW n \in Nat
  PROVE  Supplied(v, n + 1, t + 1) = Supplied(v, n, t) \cup {[tag |-> t, val |-> v[n + 1]]}
<1> DEFINE L == {[tag |-> t + 1 - (n + 1) + i - 1, val |-> v[i]] : i \in 1 .. n + 1}
           R == {[tag |-> t - n + i - 1, val |-> v[i]] : i \in 1 .. n}
           e == [tag |-> t, val |-> v[n + 1]]
<1>1. \A i \in 1 .. n + 1 :
        /\ t + 1 - (n + 1) + i - 1 = t - n + i - 1
        /\ i \in 1 .. n \/ (i = n + 1 /\ t - n + i - 1 = t)
  OBVIOUS
<1>2. ASSUME NEW x \in L PROVE x \in R \cup {e}
  <2>1. PICK i \in 1 .. n + 1 : x = [tag |-> t + 1 - (n + 1) + i - 1, val |-> v[i]]
    OBVIOUS
  <2>2. x = [tag |-> t - n + i - 1, val |-> v[i]]
    BY <2>1, <1>1
  <2> QED BY <2>2, <1>1
<1>3. ASSUME NEW x \in R PROVE x \in L
  <2>1. PICK i \in 1 .. n : x = [tag |-> t - n + i - 1, val |-> v[i]]
    OBVIOUS
  <2>2. i \in 1 .. n + 1
    OBVIOUS
  <2>3. x = [tag |-> t + 1 - (n + 1) + i - 1, val |-> v[i]]
    BY <2>1, <2>2, <1>1
  <2> QED BY <2>2, <2>3
<1>4. e \in L
  <2>1. n + 1 \in 1 .. n + 1 /\ t + 1 - (n + 1) + (n + 1) - 1 = t
    OBVIOUS
  <2> QED BY <2>1
<1> HIDE DEF L, R, e
<1>5. L = R \cup {e}
  BY <1>2, <1>3, <1>4
<1> QED BY <1>5 DEF Supplied

\* INSERT adds the next of its values
LEMMA InsertKeeps ==
  ASSUME IInv, IInv', NEW s \in Session, Alone(s), InsertNext(s)
  PROVE  Alone(s)'
<1>1. /\ Base(s) /\ stmt[s].kind = "insert" /\ pc[s] = "rows" /\ todo[s] # <<>>
      /\ todo[s] \in Seq(Val) /\ todo'[s] = Tail(todo[s])
      /\ nextTag \in Nat /\ nextTag' = nextTag + 1
      /\ UNCHANGED <<file, cur, stmt, snap>>
  BY DEF Alone, InsertNext, IInv, Types
<1>2. Opened(s) /\ Safe(s) /\ Inserting(s) /\ failed[s] = FALSE
  BY <1>1 DEF Alone, Running, Opened, IInv, Types
<1>3. Base(s)'
  BY <1>1, InsertEffect DEF Base
<1>4. TagsApart(s)'
  BY <1>1, InsertKeepsTags DEF Alone
<1>5. \/ /\ pc'[s] = "rows" /\ failed'[s] = FALSE
         /\ \E new \in Found : /\ new.tag = nextTag /\ new.val = Head(todo[s])
                               /\ Now(s)' = Now(s) \cup {new}
      \/ pc'[s] = "close" /\ failed'[s] = TRUE /\ Now(s)' = Now(s)
  BY <1>1, InsertEffect
<1>6. Opened(s)' /\ Bystanders(s)' = Bystanders(s)
  BY <1>1, <1>2, <1>5 DEF Opened, Bystanders, Hits
<1>7. Safe(s)'
  BY <1>1, <1>2, <1>5, <1>6 DEF Safe
<1>8. Inserting(s)'
  <2> SUFFICES ASSUME ~failed'[s]
               PROVE  \E n \in 0 .. Len(stmt[s].vals) : Inserted(s, n)'
    BY <1>1 DEF Inserting
  <2>1. PICK new \in Found : /\ new.tag = nextTag /\ new.val = Head(todo[s])
                             /\ Now(s)' = Now(s) \cup {new}
    BY <1>5
  <2>2. PICK n \in 0 .. Len(stmt[s].vals) : Inserted(s, n)
    BY <1>1, <1>2 DEF Inserting
  <2>3. PICK v : v = stmt[s].vals
    OBVIOUS
  <2>4. v \in Seq(Val)
    <3>1. stmt[s] \in Statement
      BY DEF IInv, Types
    <3> QED BY <3>1, <2>3, StatementAssumption
  <2>5. PICK m \in Nat : m = Len(v)
    BY <2>4
  <2>6. PICK l \in Nat : l = Len(todo[s])
    BY <1>1
  <2>7. n \in Nat /\ l >= 1 /\ l = m - n
    BY <1>1, <2>2, <2>3, <2>5, <2>6 DEF Inserted
  <2>8. Head(todo[s]) = v[n + 1]
    <3>1. Head(todo[s]) = todo[s][1]
      BY <1>1
    <3> QED BY <3>1, <2>2, <2>3, <2>6, <2>7 DEF Inserted
  <2>9. /\ Len(Tail(todo[s])) = l - 1
        /\ \A i \in 1 .. (l - 1) : Tail(todo[s])[i] = todo[s][i + 1]
    BY <1>1, <2>6
  <2>10. \A i \in 1 .. (l - 1) : Tail(todo[s])[i] = v[n + 1 + i]
    <3> SUFFICES ASSUME NEW i \in 1 .. (l - 1) PROVE Tail(todo[s])[i] = v[n + 1 + i]
      OBVIOUS
    <3>1. \A j \in 1 .. Len(todo[s]) : todo[s][j] = v[n + j]
      BY <2>2, <2>3 DEF Inserted
    <3>2. i + 1 \in 1 .. Len(todo[s]) /\ n + (i + 1) = n + 1 + i
      BY <2>6, <2>7
    <3>3. todo[s][i + 1] = v[n + 1 + i]
      BY <3>1, <3>2
    <3> QED BY <3>3, <2>9
  <2>11. Content(Now(s)') = Content(Now(s)) \cup {[tag |-> nextTag, val |-> v[n + 1]]}
    BY <2>1, <2>8 DEF Content
  <2>12. Supplied(v, n + 1, nextTag + 1) = Supplied(v, n, nextTag) \cup {[tag |-> nextTag, val |-> v[n + 1]]}
    <3>1. nextTag \in Nat /\ n \in Nat
      BY <1>1, <2>7
    <3> QED BY <3>1, OneMore
  <2>13. Content(Now(s)) = Content(snap[s]) \cup Supplied(v, n, nextTag)
    BY <2>2, <2>3 DEF Inserted
  <2>14. Content(Now(s)') = Content(snap[s]) \cup Supplied(v, n + 1, nextTag + 1)
    BY <2>11, <2>12, <2>13
  <2>15. n + 1 \in 0 .. Len(stmt[s].vals)
    BY <2>3, <2>5, <2>7
  <2>16. l - 1 = m - (n + 1)
    BY <2>7
  <2>17. pc'[s] = "rows"
    BY <1>5
  <2>18. /\ stmt'[s] = stmt[s] /\ snap'[s] = snap[s]
    BY <1>1
  <2>19. Inserted(s, n + 1)'
    BY <1>1, <2>3, <2>5, <2>9, <2>10, <2>14, <2>16, <2>17, <2>18 DEF Inserted
  <2> QED BY <2>15, <2>19
<1>9. Selecting(s)' /\ Deleting(s)' /\ Truncating(s)' /\ Updating(s)'
  BY <1>1 DEF Selecting, Deleting, Truncating, Updating
<1> QED BY <1>3, <1>4, <1>6, <1>7, <1>8, <1>9 DEF Alone, Running

LEMMA InsertEndKeeps ==
  ASSUME IInv, IInv', NEW s \in Session, Alone(s), InsertEnd(s)
  PROVE  Alone(s)'
<1>1. /\ Base(s) /\ stmt[s].kind = "insert" /\ pc[s] = "rows" /\ todo[s] = <<>> /\ pc'[s] = "close"
      /\ UNCHANGED <<file, cache, cur, stmt, todo, snap, failed, nextTag>>
  BY DEF Alone, InsertEnd, IInv, Types
<1>2. Opened(s) /\ Safe(s) /\ Inserting(s) /\ failed[s] = FALSE
  BY <1>1 DEF Alone, Running, Opened, IInv, Types
<1>3. Base(s)' /\ TagsApart(s)'
  BY <1>1 DEF Alone, Base, Clean, Fresh, Scanning, TagsApart, OlderCopies, Now
<1>4. Opened(s)' /\ Safe(s)'
  BY <1>1, <1>2 DEF Opened, Safe, Bystanders, Hits, Now
<1>5. Inserting(s)'
  <2>1. PICK n \in 0 .. Len(stmt[s].vals) : Inserted(s, n)
    BY <1>1, <1>2 DEF Inserting
  <2>2. Len(stmt[s].vals) \in Nat
    <3>1. stmt[s] \in Statement
      BY DEF IInv, Types
    <3> QED BY <3>1, StatementAssumption
  <2>3. n = Len(stmt[s].vals)
    <3>1. Len(todo[s]) = 0
      BY <1>1
    <3> QED BY <3>1, <2>1, <2>2 DEF Inserted
  <2>4. Inserted(s, n)'
    BY <2>1, <2>3, <1>1 DEF Inserted, Now
  <2> QED BY <2>4, <1>1 DEF Inserting
<1>6. Selecting(s)' /\ Deleting(s)' /\ Truncating(s)' /\ Updating(s)'
  BY <1>1 DEF Selecting, Deleting, Truncating, Updating
<1> QED BY <1>3, <1>4, <1>5, <1>6 DEF Alone, Running

\* DELETE without WHERE leaves an empty file
LEMMA TruncateKeeps ==
  ASSUME IInv, IInv', NEW s \in Session, Alone(s), Truncate(s)
  PROVE  Alone(s)'
<1>1. /\ stmt[s].kind = "truncate" /\ pc[s] = "rows" /\ pc'[s] = "close" /\ file' = <<>>
      /\ UNCHANGED <<cache, cur, stmt, todo, snap, failed, nextTag>>
  BY DEF Truncate, IInv, Types
<1>2. DOMAIN cache'[s] = {}
  BY <1>1 DEF IInv, SessionOK
<1>3. LiveRows(file') = {}
  BY <1>1 DEF LiveRows
<1>4. TagsApart(s)'
  BY <1>1, <1>2, <1>3, EmptyKeepsTags DEF Alone
<1>5. Now(s)' = {}
  <2>1. FilePages(file')
    BY DEF IInv, FileOK, FilePages
  <2> QED BY <2>1, <1>2, <1>3, LiveOnDisk DEF Now
<1>6. Base(s)'
  BY <1>1, <1>2 DEF Base, Clean, Fresh, Scanning
<1>7. Opened(s)
  BY <1>1 DEF Alone, Running
<1>8. /\ Opened(s)' /\ Safe(s)' /\ Truncating(s)'
      /\ Selecting(s)' /\ Deleting(s)' /\ Inserting(s)' /\ Updating(s)'
  BY <1>1, <1>5, <1>7 DEF Opened, Safe, Truncating, Selecting, Deleting, Inserting, Updating
<1> QED BY <1>4, <1>6, <1>8 DEF Alone, Running

\* A file holds finitely many rows
LEMMA FiniteRows == ASSUME NEW f, FilePages(f) PROVE IsFiniteSet(LiveRows(f))
<1> DEFINE Slots(i) == {n \in 1 .. Len(f[i].rows) : ~f[i].rows[n].dead}
           row(i, k) == [rid |-> RowId(i - 1, k), tag |-> f[i].rows[k].tag, val |-> f[i].rows[k].val]
           On(i) == {row(i, k) : k \in Slots(i)}
           All == {On(i) : i \in 1 .. Len(f)}
<1>1. Len(f) \in Nat
  BY DEF FilePages
<1>2. ASSUME NEW i \in 1 .. Len(f) PROVE IsFiniteSet(On(i))
  <2>1. Len(f[i].rows) \in Nat
    <3>1. f[i] \in DiskPage
      BY DEF FilePages
    <3> QED BY <3>1 DEF DiskPage
  <2>2. PICK m \in Nat : m = Len(f[i].rows)
    BY <2>1
  <2>5. IsFiniteSet(1 .. m)
    BY FS_Interval
  <2>3. IsFiniteSet(Slots(i))
    BY <2>2, <2>5, FS_Subset
  <2> DEFINE g == [k \in Slots(i) |-> row(i, k)]
  <2>4. g \in Surjection(Slots(i), On(i))
    BY DEF Surjection
  <2> QED BY <2>3, <2>4, FS_Surjection
<1>3. IsFiniteSet(All)
  <2>1. IsFiniteSet(1 .. Len(f))
    BY <1>1, FS_Interval
  <2> DEFINE g == [i \in 1 .. Len(f) |-> On(i)]
  <2>2. g \in Surjection(1 .. Len(f), All)
    BY DEF Surjection
  <2> QED BY <2>1, <2>2, FS_Surjection
<1>4. IsFiniteSet(UNION All)
  BY <1>2, <1>3, FS_UNION
<1> QED BY <1>4 DEF LiveRows

\* A statement opens the table as it is on disk
LEMMA OpenKeeps ==
  ASSUME IInv, IInv', out \in [Session -> Seq(Found)], DOMAIN snap = Session,
         NEW s \in Session, Alone(s), NEW st \in Statement, Open(s, st)
  PROVE  Alone(s)'
<1>1. /\ pc[s] = "idle" /\ pc'[s] = "rows" /\ stmt'[s] = st /\ todo'[s] = st.vals /\ cur'[s] = 0
      /\ affected'[s] = 0 /\ failed'[s] = FALSE /\ out'[s] = <<>> /\ snap'[s] = LiveRows(file)
      /\ UNCHANGED <<file, cache, nextTag>>
  BY DEF Open, IInv, Types
<1>2. DOMAIN cache[s] = {} /\ DOMAIN cache'[s] = {}
  BY <1>1 DEF IInv, SessionOK
<1>3. Now(s) = LiveRows(file) /\ Now(s)' = Now(s)
  BY <1>1, <1>2, EmptyCache DEF Now
<1>4. Base(s)'
  BY <1>1, <1>2 DEF Base, Clean, Fresh
<1>5. TagsApart(s)'
  BY <1>1, <1>3 DEF Alone, TagsApart, OlderCopies
<1>6. Now(s) \subseteq Found /\ IsFiniteSet(Now(s)) /\ OneTag(Now(s))
  <2>1. FilePages(file)
    BY DEF IInv, FileOK, FilePages
  <2> QED BY <2>1, <1>3, FiniteRows DEF Now, LiveIn, Alone, TagsApart
<1>7. ASSUME NEW r \in Now(s) PROVE ~Past(s, r)'
  <2>1. PageOf(r.rid) \in Nat
    BY LiveTyped DEF Now
  <2> QED BY <2>1, <1>1, <1>2 DEF Past, Behind
<1>8. Opened(s)' /\ Safe(s)'
  BY <1>1, <1>3, <1>6 DEF Opened, Safe, Bystanders, Hits
<1>9. Hits(s)' \subseteq Now(s) /\ snap'[s] = Now(s)
  BY <1>1, <1>3 DEF Hits
<1>10. Selecting(s)'
  <2>1. 1 .. Len(out'[s]) = {}
    BY <1>1
  <2> QED BY <2>1, <1>3, <1>7, <1>9 DEF Selecting
<1>11. Deleting(s)'
  <2>1. snap'[s] \ Now(s)' = {}
    BY <1>3, <1>9
  <2> QED BY <2>1, <1>1, <1>3, <1>7, <1>9, FS_EmptySet DEF Deleting
<1>12. Truncating(s)'
  BY <1>1 DEF Truncating
<1>13. Inserting(s)'
  <2>1. st.vals \in Seq(Val) /\ Len(st.vals) \in Nat
    BY StatementAssumption
  <2>2. Inserted(s, 0)'
    <3>1. \A i \in 1 .. Len(st.vals) : 0 + i = i
      BY <2>1
    <3>2. Supplied(st.vals, 0, nextTag) = {}
      BY DEF Supplied
    <3>3. Content(Now(s)') = Content(snap'[s])
      BY <1>3, <1>9
    <3> QED BY <2>1, <3>1, <3>2, <3>3, <1>1 DEF Inserted
  <2> QED BY <2>1, <2>2, <1>1 DEF Inserting
<1>14. Updating(s)'
  <2>1. OldBelow(s)'
    <3> SUFFICES ASSUME NEW h \in Now(s), NEW rid \in Nat, Above(Table(file, cache[s]), rid)
                 PROVE  h.rid < rid
      BY <1>1, <1>9 DEF OldBelow
    <3> QED BY AboveFresh DEF Now
  <2>2. Copied(s)' /\ Ahead2(s)' /\ Kept2(s)' /\ CopiesPast(s)'
    BY <1>3, <1>7, <1>9 DEF Copied, Ahead2, Kept2, CopiesPast
  <2>3. Tallied(s)'
    <3>1. (Hits(s) \ Now(s))' = {}
      BY <1>3, <1>9
    <3> QED BY <3>1, <1>1, FS_EmptySet DEF Tallied
  <2> QED BY <2>1, <2>2, <2>3 DEF Updating
<1> QED BY <1>4, <1>5, <1>8, <1>10, <1>11, <1>12, <1>13, <1>14 DEF Alone, Running

\* Between statements only the file counts
LEMMA ReplyKeeps ==
  ASSUME IInv, NEW s \in Session, Alone(s), Reply(s)
  PROVE  Alone(s)'
<1>1. pc'[s] = "idle" /\ UNCHANGED <<file, cache, nextTag>>
  BY DEF Reply, IInv, Types
<1> QED BY <1>1 DEF Alone, Base, Clean, Fresh, Scanning, TagsApart, OlderCopies, Now

LEMMA CrashKeeps ==
  ASSUME IInv, IInv', NEW s \in Session, Alone(s), Crash
  PROVE  Alone(s)'
<1>1. pc'[s] = "idle" /\ cache'[s] = NoPages /\ UNCHANGED <<file, nextTag>>
  BY DEF Crash
<1>2. DOMAIN cache'[s] = {}
  BY <1>1 DEF NoPages
<1>3. TagsApart(s)'
  BY <1>1, <1>2, EmptyKeepsTags DEF Alone
<1> QED BY <1>1, <1>2, <1>3 DEF Alone, Base, Clean, Fresh, Scanning

LEMMA LoneInit == Init => LInv
<1> SUFFICES ASSUME Init PROVE LInv
  OBVIOUS
<1>1. RInv /\ IInv
  BY ReturnedInit DEF RInv
<1>2. ASSUME NEW s \in Session PROVE Alone(s)
  <2>1. pc[s] = "idle" /\ cache[s] = NoPages /\ file = <<>>
    BY DEF Init
  <2>2. DOMAIN cache[s] = {}
    BY <2>1 DEF NoPages
  <2>3. LiveRows(file) = {}
    BY <2>1 DEF LiveRows
  <2>4. Now(s) = {}
    BY <2>2, <2>3, <1>1, EmptyCache
  <2> QED BY <2>1, <2>2, <2>3, <2>4
          DEF Alone, Base, Clean, Fresh, Scanning, TagsApart, OneTag, OlderCopies
<1>3. DOMAIN snap = Session
  BY DEF Init
<1> QED BY <1>1, <1>2, <1>3 DEF LInv

LEMMA LoneNext == ASSUME LInv, OneSession, [Next]_vars PROVE LInv'
<1>1. /\ RInv /\ IInv /\ out \in [Session -> Seq(Found)] /\ DOMAIN snap = Session
      /\ \A s \in Session : Alone(s)
  BY DEF LInv, RInv
<1>2. TruncateAlone
  BY DEF OneSession, TruncateAlone
<1>3. RInv' /\ IInv'
  BY <1>1, <1>2, ReturnedNext DEF RInv
<1>4. ASSUME NEW s \in Session, Alone(s)', DOMAIN snap' = Session PROVE LInv'
  BY <1>3, <1>4 DEF LInv, OneSession
<1>5. CASE UNCHANGED vars
  <2>1. UNCHANGED <<file, cache, cur, pc, stmt, todo, affected, failed, out, snap, nextTag>>
    BY <1>5 DEF vars, local
  <2>2. ASSUME NEW s \in Session PROVE Alone(s)'
    <3>1. Alone(s)
      BY <1>1
    <3>2. Base(s)' /\ TagsApart(s)' /\ Now(s)' = Now(s) /\ Hits(s)' = Hits(s)
      BY <2>1, <3>1 DEF Alone, Base, Clean, Fresh, Scanning, TagsApart, OlderCopies, Now, Hits
    <3>3. \A r : Past(s, r)' <=> Past(s, r)
      BY <2>1 DEF Past, Behind
    <3>4. Wide(s)' <=> Wide(s)
      BY <2>1 DEF Wide
    <3>5. Opened(s) /\ Safe(s) => Opened(s)' /\ Safe(s)'
      BY <2>1, <3>2 DEF Opened, Safe, Bystanders
    <3>6. Selecting(s) /\ Deleting(s) /\ Truncating(s) => Selecting(s)' /\ Deleting(s)' /\ Truncating(s)'
      BY <2>1, <3>2, <3>3 DEF Selecting, Deleting, Truncating
    <3>7. Inserting(s) => Inserting(s)'
      <4>1. ASSUME NEW n, Inserted(s, n) PROVE Inserted(s, n)'
        BY <2>1, <3>2, <4>1 DEF Inserted
      <4> QED BY <4>1, <2>1 DEF Inserting
    <3>8. Updating(s) => Updating(s)'
      BY <2>1, <3>2, <3>3, <3>4
         DEF Updating, OldBelow, Copied, Ahead2, Kept2, Tallied, CopiesPast, Past
    <3> QED BY <2>1, <3>1, <3>2, <3>5, <3>6, <3>7, <3>8 DEF Alone, Running
  <2> QED BY <2>1, <2>2, <1>1, <1>3 DEF LInv
<1>6. CASE Crash
  <2>1. \A s \in Session : Alone(s)'
    BY <1>1, <1>3, <1>6, CrashKeeps
  <2> QED BY <2>1, <1>1, <1>3, <1>6 DEF LInv, Crash
<1>7. ASSUME NEW s \in Session, NEW st \in Statement, Open(s, st) PROVE LInv'
  <2>1. Alone(s)'
    BY <1>1, <1>3, <1>7, OpenKeeps
  <2>2. DOMAIN snap' = Session
    BY <1>1, <1>7 DEF Open
  <2> QED BY <2>1, <2>2, <1>4
<1>8. ASSUME NEW s \in Session, RowStep(s) \/ Flush(s) \/ Reply(s) PROVE LInv'
  <2>1. snap' = snap
    BY <1>8 DEF RowStep, Flush, Reply, local, InsertNext, InsertEnd, Truncate, SkipRow, SelectRow,
                DeleteRow, UpdateRow, NextPage, ScanEnd
  <2>2. CASE InsertNext(s) \/ InsertEnd(s) \/ Truncate(s)
    BY <2>2, <2>1, <1>1, <1>3, <1>4, InsertKeeps, InsertEndKeeps, TruncateKeeps
  <2>3. CASE SkipRow(s) \/ NextPage(s) \/ ScanEnd(s) \/ Flush(s)
    BY <2>3, <2>1, <1>1, <1>3, <1>4, QuietActionsKeep
  <2>4. CASE SelectRow(s) \/ DeleteRow(s) \/ UpdateRow(s)
    BY <2>4, <2>1, <1>1, <1>3, <1>4, SelectKeeps, DeleteKeeps, UpdateKeeps
  <2>5. CASE Reply(s)
    BY <2>5, <2>1, <1>1, <1>3, <1>4, ReplyKeeps
  <2> QED BY <1>8, <2>2, <2>3, <2>4, <2>5 DEF RowStep
<1> QED BY <1>5, <1>6, <1>7, <1>8 DEF Next

-----------------------------------------------------------------------------
(***************************************************************************)
(* What this says of the statements.                                       *)
(***************************************************************************)
\* No row the statement does not select is harmed, by a crash or an error
\* between any two of its steps: it is on disk, unchanged, at every moment.
THEOREM HarmsNone == OneSession => (Spec => []BystandersSafe)
<1> SUFFICES ASSUME OneSession PROVE Spec => []BystandersSafe
  OBVIOUS
<1>1. Init => LInv
  BY LoneInit
<1>2. LInv /\ [Next]_vars => LInv'
  BY LoneNext
<1>3. LInv => BystandersSafe
  BY DEF LInv, Alone, Running, Safe, Bystanders, BystandersSafe
<1> QED BY <1>1, <1>2, <1>3, PTL DEF Spec

\* A SELECT that has ended has returned its hits, each once
LEMMA SelectsHits ==
  ASSUME LInv, NEW s \in Session, Done(s), stmt[s].kind = "select"
  PROVE  /\ {out[s][i] : i \in 1 .. Len(out[s])} = Hits(s)
         /\ Len(out[s]) = Cardinality(Hits(s))
<1>1. /\ pc[s] = "close" /\ Selecting(s) /\ Apart(out[s]) /\ out[s] \in Seq(Found)
  BY DEF LInv, Alone, Running, RInv, Returned, Done
<1>2. PICK n \in Nat : n = Len(out[s])
  BY <1>1
<1>3. PICK q : q = out[s]
  OBVIOUS
<1>4. /\ \A i \in 1 .. n : q[i] \in Hits(s)
      /\ \A r \in Hits(s) : \E i \in 1 .. n : q[i] = r
  BY <1>1, <1>2, <1>3 DEF Selecting, Past
<1>5. {q[i] : i \in 1 .. n} = Hits(s)
  BY <1>4
<1> DEFINE f == [i \in 1 .. n |-> q[i]]
<1>6. f \in Surjection(1 .. n, Hits(s))
  BY <1>4 DEF Surjection
<1>7. f \in Injection(1 .. n, Hits(s))
  <2>1. \A i, j \in 1 .. n : q[i].rid = q[j].rid => i = j
    BY <1>1, <1>2, <1>3 DEF Apart
  <2>2. f \in [1 .. n -> Hits(s)]
    BY <1>4
  <2>3. \A i, j \in 1 .. n : f[i] = f[j] => i = j
    BY <2>1
  <2> QED BY <2>2, <2>3 DEF Injection, IsInjective
<1>8. IsFiniteSet(1 .. n) /\ Cardinality(1 .. n) = n
  <2>1. 1 \in Int /\ n \in Int
    BY <1>2
  <2>2. IsFiniteSet(1 .. n) /\ Cardinality(1 .. n) = (IF 1 > n THEN 0 ELSE n - 1 + 1)
    BY <2>1, FS_Interval, Zenon
  <2>3. (IF 1 > n THEN 0 ELSE n - 1 + 1) = n
    BY <1>2
  <2> QED BY <2>2, <2>3
<1> HIDE DEF f
<1>9. Cardinality(Hits(s)) = n
  BY <1>6, <1>7, <1>8, FS_Surjection
<1> QED BY <1>2, <1>3, <1>5, <1>9

\* A SELECT returns every row that matches, once, and nothing else.
THEOREM SelectsExactly == OneSession => (Spec => []SelectExact)
<1> SUFFICES ASSUME OneSession PROVE Spec => []SelectExact
  OBVIOUS
<1>1. Init => LInv
  BY LoneInit
<1>2. LInv /\ [Next]_vars => LInv'
  BY LoneNext
<1>3. LInv => SelectExact
  BY SelectsHits DEF SelectExact
<1> QED BY <1>1, <1>2, <1>3, PTL DEF Spec

\* Rows with tags of their own are as many as their contents
LEMMA ContentOf ==
  ASSUME NEW S, IsFiniteSet(S), OneTag(S)
  PROVE  /\ Cardinality(Content(S)) = Cardinality(S)
         /\ \A T \in SUBSET S : Content(S \ T) = Content(S) \ Content(T)
<1> DEFINE f == [r \in S |-> [tag |-> r.tag, val |-> r.val]]
<1>1. \A q, r \in S : [tag |-> q.tag, val |-> q.val] = [tag |-> r.tag, val |-> r.val] => q = r
  <2> SUFFICES ASSUME NEW q \in S, NEW r \in S,
                      [tag |-> q.tag, val |-> q.val] = [tag |-> r.tag, val |-> r.val]
               PROVE  q = r
    OBVIOUS
  <2>1. q.tag = r.tag
    OBVIOUS
  <2> QED BY <2>1 DEF OneTag
<1>2. f \in Surjection(S, Content(S)) /\ f \in Injection(S, Content(S))
  <2>1. f \in [S -> Content(S)] /\ \A x \in Content(S) : \E r \in S : f[r] = x
    BY DEF Content
  <2>2. \A q, r \in S : f[q] = f[r] => q = r
    BY <1>1
  <2> QED BY <2>1, <2>2 DEF Surjection, Injection, IsInjective
<1> HIDE DEF f
<1>3. Cardinality(Content(S)) = Cardinality(S)
  BY <1>2, FS_Surjection
<1>4. ASSUME NEW T \in SUBSET S PROVE Content(S \ T) = Content(S) \ Content(T)
  BY <1>1 DEF Content
<1> QED BY <1>3, <1>4

\* What the table has become when a statement has ended without error
LEMMA EndState ==
  ASSUME LInv, NEW s \in Session, Done(s), ~failed[s]
  PROVE  /\ LiveRows(file) = Now(s) /\ OneTag(Now(s)) /\ IsFiniteSet(Now(s))
         /\ OneTag(snap[s]) /\ IsFiniteSet(snap[s])
         /\ stmt[s].kind = "select" => Now(s) = snap[s]
         /\ stmt[s].kind = "truncate" => Now(s) = {}
         /\ stmt[s].kind = "delete" =>
              Now(s) = snap[s] \ Hits(s) /\ affected[s] = Cardinality(Hits(s))
         /\ stmt[s].kind = "update" =>
              /\ snap[s] \ Hits(s) \subseteq Now(s) /\ Hits(s) \cap Now(s) = {}
              /\ Copied(s) /\ Kept2(s)
              /\ stmt[s].set \notin stmt[s].filter \/ Len(file) = 1 =>
                   affected[s] = Cardinality(Hits(s))
         /\ stmt[s].kind = "insert" => Inserted(s, Len(stmt[s].vals))
<1>1. /\ IInv /\ pc[s] = "close" /\ DOMAIN cache[s] = {}
      /\ Opened(s) /\ Safe(s) /\ Selecting(s) /\ Deleting(s) /\ Truncating(s)
      /\ Inserting(s) /\ Updating(s) /\ TagsApart(s)
  BY DEF LInv, RInv, Alone, Running, Done
<1>2. LiveRows(file) = Now(s) /\ Dirty(cache[s]) = {}
  BY <1>1, EmptyCache
<1>3. IsFiniteSet(Now(s))
  <2>1. FilePages(file)
    BY <1>1 DEF IInv, FileOK, FilePages
  <2> QED BY <2>1, <1>2, FiniteRows
<1>4. OneTag(Now(s)) /\ OneTag(snap[s]) /\ IsFiniteSet(snap[s])
  BY <1>1 DEF TagsApart, Opened
<1>5. stmt[s].kind = "select" => Now(s) = snap[s]
  BY <1>1 DEF Selecting
<1>6. stmt[s].kind = "truncate" => Now(s) = {}
  BY <1>1 DEF Truncating
<1>7. ASSUME stmt[s].kind = "delete"
      PROVE  Now(s) = snap[s] \ Hits(s) /\ affected[s] = Cardinality(Hits(s))
  <2>1. /\ Now(s) \subseteq snap[s] /\ affected[s] = Cardinality(snap[s] \ Now(s))
        /\ \A r \in Now(s) : r.val \notin stmt[s].filter
    BY <1>1, <1>7 DEF Deleting, Past
  <2>2. snap[s] \ Hits(s) \subseteq Now(s)
    BY <1>1, <1>7 DEF Safe, Bystanders
  <2>3. Now(s) = snap[s] \ Hits(s) /\ snap[s] \ Now(s) = Hits(s)
    BY <2>1, <2>2 DEF Hits
  <2> QED BY <2>1, <2>3
<1>8. ASSUME stmt[s].kind = "update"
      PROVE  /\ snap[s] \ Hits(s) \subseteq Now(s) /\ Hits(s) \cap Now(s) = {}
             /\ Copied(s) /\ Kept2(s)
             /\ stmt[s].set \notin stmt[s].filter \/ Len(file) = 1 =>
                  affected[s] = Cardinality(Hits(s))
  <2>1. snap[s] \ Hits(s) \subseteq Now(s)
    BY <1>1, <1>8 DEF Safe, Bystanders
  <2>2. Copied(s) /\ Kept2(s) /\ Ahead2(s) /\ Tallied(s)
    BY <1>1, <1>8 DEF Updating
  <2>3. Hits(s) \cap Now(s) = {}
    BY <2>2, <1>1 DEF Ahead2, Past, Hits
  <2>4. Len(file) = 1 => ~Wide(s)
    BY <1>2 DEF Wide
  <2>5. Hits(s) \ Now(s) = Hits(s)
    BY <2>3
  <2> QED BY <2>1, <2>2, <2>3, <2>4, <2>5 DEF Tallied
<1>9. ASSUME stmt[s].kind = "insert" PROVE Inserted(s, Len(stmt[s].vals))
  <2>1. PICK n \in 0 .. Len(stmt[s].vals) : Inserted(s, n)
    BY <1>1, <1>9 DEF Inserting
  <2>2. n = Len(stmt[s].vals)
    BY <2>1, <1>1 DEF Inserted
  <2> QED BY <2>1, <2>2
<1> QED BY <1>2, <1>3, <1>4, <1>5, <1>6, <1>7, <1>8, <1>9

\* An UPDATE has put the new copy of each of its hits in the place of the old one
LEMMA Rewritten ==
  ASSUME NEW s \in Session, OneTag(snap[s]), IsFiniteSet(snap[s]),
         snap[s] \ Hits(s) \subseteq Now(s), Hits(s) \cap Now(s) = {}, Copied(s), Kept2(s)
  PROVE  Content(Now(s)) = (Content(snap[s]) \ Content(Hits(s)))
           \cup {[r EXCEPT !.val = stmt[s].set] : r \in Content(Hits(s))}
<1> DEFINE copy(h) == [tag |-> h.tag, val |-> stmt[s].set]
           changed(r) == [r EXCEPT !.val = stmt[s].set]
<1>1. {changed(r) : r \in Content(Hits(s))} = {copy(h) : h \in Hits(s)}
  <2>1. \A h \in Hits(s) : changed([tag |-> h.tag, val |-> h.val]) = copy(h)
    OBVIOUS
  <2>2. Content(Hits(s)) = {[tag |-> h.tag, val |-> h.val] : h \in Hits(s)}
    BY DEF Content
  <2> HIDE DEF copy, changed
  <2>3. \A h \in Hits(s) : copy(h) \in {changed(r) : r \in Content(Hits(s))}
    BY <2>1, <2>2
  <2>4. \A r \in Content(Hits(s)) : changed(r) \in {copy(h) : h \in Hits(s)}
    BY <2>1, <2>2
  <2> QED BY <2>3, <2>4
<1>2. Content(snap[s]) \ Content(Hits(s)) = Content(snap[s] \ Hits(s))
  BY ContentOf DEF Hits
<1>3. ASSUME NEW r \in Now(s)
      PROVE  r \in snap[s] \ Hits(s) \/ \E h \in Hits(s) : [tag |-> r.tag, val |-> r.val] = copy(h)
  BY DEF Copied
<1>4. ASSUME NEW h \in Hits(s)
      PROVE  \E r \in Now(s) : [tag |-> r.tag, val |-> r.val] = copy(h)
  <2>1. PICK r \in Now(s) \ snap[s] : r.tag = h.tag
    BY DEF Kept2
  <2>2. r.val = stmt[s].set
    BY <2>1 DEF Copied
  <2> QED BY <2>1, <2>2
<1>5. Content(Now(s)) \subseteq Content(snap[s] \ Hits(s)) \cup {copy(h) : h \in Hits(s)}
  BY <1>3 DEF Content
<1>6. Content(snap[s] \ Hits(s)) \subseteq Content(Now(s))
  BY DEF Content
<1>7. {copy(h) : h \in Hits(s)} \subseteq Content(Now(s))
  BY <1>4 DEF Content
<1> QED BY <1>1, <1>2, <1>5, <1>6, <1>7

\* A statement that answered without error left on disk exactly the old rows
\* and those it added, changed or removed, every row once, and has counted
\* those it removed, or changed as far as it meets no copy of its own again.
THEOREM LeavesExactly == OneSession => (Spec => []StatementEffect)
<1> SUFFICES ASSUME OneSession PROVE Spec => []StatementEffect
  OBVIOUS
<1>1. Init => LInv
  BY LoneInit
<1>2. LInv /\ [Next]_vars => LInv'
  BY LoneNext
<1>3. LInv => StatementEffect
  <2> SUFFICES ASSUME LInv, NEW s \in Session, Done(s), ~failed[s]
      PROVE  /\ \/ stmt[s].kind = "delete"
                \/ stmt[s].kind = "update" /\ (stmt[s].set \notin stmt[s].filter \/ Len(file) = 1)
                => affected[s] = Cardinality(Content(Hits(s)))
             /\ Cardinality(Content(LiveRows(file))) = Cardinality(LiveRows(file))
             /\ Content(LiveRows(file)) =
                  CASE stmt[s].kind = "select" -> Content(snap[s])
                    [] stmt[s].kind = "delete" -> Content(snap[s]) \ Content(Hits(s))
                    [] stmt[s].kind = "truncate" -> {}
                    [] stmt[s].kind = "update" ->
                         (Content(snap[s]) \ Content(Hits(s)))
                           \cup {[r EXCEPT !.val = stmt[s].set] : r \in Content(Hits(s))}
                    [] stmt[s].kind = "insert" ->
                         Content(snap[s]) \cup
                           {[tag |-> nextTag - Len(stmt[s].vals) + i - 1, val |-> stmt[s].vals[i]] :
                              i \in 1 .. Len(stmt[s].vals)}
    BY DEF StatementEffect
  <2>1. /\ LiveRows(file) = Now(s) /\ OneTag(Now(s)) /\ IsFiniteSet(Now(s))
        /\ OneTag(snap[s]) /\ IsFiniteSet(snap[s])
    BY EndState
  <2>2. Cardinality(Content(LiveRows(file))) = Cardinality(LiveRows(file))
    BY <2>1, ContentOf
  <2>3. Cardinality(Content(Hits(s))) = Cardinality(Hits(s))
    <3>1. Hits(s) \in SUBSET snap[s]
      BY DEF Hits
    <3>2. IsFiniteSet(Hits(s))
      BY <2>1, <3>1, FS_Subset
    <3>3. OneTag(Hits(s))
      BY <2>1, <3>1 DEF OneTag
    <3> QED BY <3>2, <3>3, ContentOf
  <2>4. stmt[s].kind \in {"insert", "select", "update", "delete", "truncate"}
    <3>1. stmt[s] \in Statement
      BY DEF LInv, RInv, IInv, Types
    <3> QED BY <3>1, StatementAssumption DEF Kinds
  <2>5. CASE stmt[s].kind = "select"
    BY <2>1, <2>2, <2>5, EndState
  <2>6. CASE stmt[s].kind = "delete"
    <3>1. Now(s) = snap[s] \ Hits(s) /\ affected[s] = Cardinality(Hits(s))
      BY <2>6, EndState
    <3>2. Content(snap[s] \ Hits(s)) = Content(snap[s]) \ Content(Hits(s))
      BY <2>1, ContentOf DEF Hits
    <3> QED BY <2>1, <2>2, <2>3, <2>6, <3>1, <3>2
  <2>7. CASE stmt[s].kind = "truncate"
    <3>1. Content({}) = {}
      BY DEF Content
    <3>2. Now(s) = {}
      BY <2>7, EndState
    <3> QED BY <2>1, <2>2, <2>7, <3>1, <3>2
  <2>8. CASE stmt[s].kind = "update"
    <3>1. /\ snap[s] \ Hits(s) \subseteq Now(s) /\ Hits(s) \cap Now(s) = {}
          /\ Copied(s) /\ Kept2(s)
          /\ stmt[s].set \notin stmt[s].filter \/ Len(file) = 1 =>
               affected[s] = Cardinality(Hits(s))
      BY <2>8, EndState
    <3>2. Content(Now(s)) = (Content(snap[s]) \ Content(Hits(s)))
            \cup {[r EXCEPT !.val = stmt[s].set] : r \in Content(Hits(s))}
      BY <2>1, <3>1, Rewritten
    <3> HIDE DEF Hits
    <3> QED BY <2>1, <2>2, <2>3, <2>8, <3>1, <3>2
  <2>9. CASE stmt[s].kind = "insert"
    <3>1. Inserted(s, Len(stmt[s].vals))
      BY <2>9, EndState
    <3>2. Content(Now(s)) = Content(snap[s]) \cup
            {[tag |-> nextTag - Len(stmt[s].vals) + i - 1, val |-> stmt[s].vals[i]] :
               i \in 1 .. Len(stmt[s].vals)}
      BY <3>1 DEF Inserted, Supplied
    <3> QED BY <2>1, <2>2, <2>9, <3>2
  <2> QED BY <2>4, <2>5, <2>6, <2>7, <2>8, <2>9
<1> QED BY <1>1, <1>2, <1>3, PTL DEF Spec

-----------------------------------------------------------------------------
(***************************************************************************)
(* What the heap of RowHeap sees of the store: the highest row id in use,  *)
(* and what a crash would leave.                                           *)
(***************************************************************************)
Bounded(c) == \E n \in Nat : \A o \in DOMAIN c : o <= n

LEMMA PutBounded ==
  ASSUME NEW c, DOMAIN c \subseteq Nat, Bounded(c), NEW o \in Nat, NEW p
  PROVE  Bounded(Put(c, o, p)) /\ DOMAIN Put(c, o, p) \subseteq Nat
<1>1. PICK n \in Nat : \A x \in DOMAIN c : x <= n
  BY DEF Bounded
<1>2. DOMAIN Put(c, o, p) = DOMAIN c \cup {o}
  BY DEF Put
<1>3. \A x \in DOMAIN c \cup {o} : x <= n + o
  BY <1>1
<1>4. n + o \in Nat
  OBVIOUS
<1> QED BY <1>2, <1>3, <1>4 DEF Bounded

LEMMA LoadBounded ==
  ASSUME FileOK, NEW c, DOMAIN c \subseteq Nat, Bounded(c)
  PROVE  /\ \A o \in Nat : Bounded(WithPage(c, o)) /\ DOMAIN WithPage(c, o) \subseteq Nat
         /\ Bounded(WithLastPage(c)) /\ DOMAIN WithLastPage(c) \subseteq Nat
<1>1. \A o \in Nat : Bounded(WithPage(c, o)) /\ DOMAIN WithPage(c, o) \subseteq Nat
  BY PutBounded DEF WithPage
<1>2. file # <<>> => EndOffset \in Nat
  BY DEF FileOK, EndOffset
<1>3. Bounded(WithLastPage(c)) /\ DOMAIN WithLastPage(c) \subseteq Nat
  BY <1>1, <1>2, PutBounded DEF WithLastPage
<1> QED BY <1>1, <1>3

LEMMA InsertBounded ==
  ASSUME NEW c, CacheOK(c), Bounded(c), NEW o \in DOMAIN c, NEW r
  PROVE  Bounded(InsertAt(c, o, r).cache) /\ DOMAIN InsertAt(c, o, r).cache \subseteq Nat
<1>1. o \in Nat /\ c[o].next \in Nat /\ DOMAIN c \subseteq Nat
  BY DEF CacheOK, PageOK, Page
<1>2. \A x \in Nat : \A p : Bounded(Put(c, x, p)) /\ DOMAIN Put(c, x, p) \subseteq Nat
  BY <1>1, PutBounded
<1> QED BY <1>1, <1>2 DEF InsertAt

\* The cache of a statement has a highest page
LEMMA StaysBounded ==
  ASSUME IInv, NEW s \in Session, Bounded(cache[s]),
         \/ InsertNext(s) \/ SkipRow(s) \/ SelectRow(s) \/ DeleteRow(s) \/ UpdateRow(s)
         \/ NextPage(s) \/ ScanEnd(s) \/ Flush(s)
  PROVE  Bounded(cache'[s])
<1>1. Types /\ FileOK /\ SessionOK(s) /\ DOMAIN cache[s] \subseteq Nat /\ CacheOK(cache[s])
  BY DEF IInv, SessionOK, CacheOK
<1>2. cur[s] \in Nat
  BY <1>1 DEF Types
<1>3. Bounded(Loaded(s)) /\ DOMAIN Loaded(s) \subseteq Nat
  BY <1>1, <1>2, LoadBounded DEF Loaded
<1>4. \A k : Bounded(Passed(s, k)) /\ DOMAIN Passed(s, k) \subseteq Nat
  BY <1>2, <1>3, PutBounded DEF Passed
<1>5. CASE SkipRow(s) \/ SelectRow(s)
  <2>1. \E k \in Indices(s) : cache'[s] = Passed(s, k)
    BY <1>1, <1>5 DEF SkipRow, SelectRow, Types
  <2> QED BY <2>1, <1>4
<1>6. CASE DeleteRow(s)
  <2>1. Scanning(s) /\ CanGet(cache[s], cur[s])
    BY <1>6 DEF DeleteRow
  <2>2. PICK k \in Indices(s) : cache'[s] = DeleteRid(Passed(s, k), RidAt(s, k))
    BY <1>1, <1>6 DEF DeleteRow, Types
  <2>3. PageOf(RidAt(s, k)) \in Nat
    BY <2>1, RowOfScan
  <2> QED BY <2>2, <2>3, <1>4, PutBounded DEF DeleteRid
<1>7. CASE InsertNext(s)
  <2>1. PICK o \in DOMAIN WithLastPage(cache[s]) : \E r :
          IsLast(WithLastPage(cache[s]), o) /\ cache'[s] = InsertAt(WithLastPage(cache[s]), o, r).cache
    BY <1>1, <1>7 DEF InsertNext, Types
  <2>2. PICK r : cache'[s] = InsertAt(WithLastPage(cache[s]), o, r).cache
    BY <2>1
  <2>3. Held(cache[s], Len(file))
    BY <1>1, <1>7 DEF SessionOK, Held, InsertNext
  <2>4. CacheOK(WithLastPage(cache[s]))
    BY <2>3, <1>1, WithLastPageOK
  <2>5. Bounded(WithLastPage(cache[s]))
    BY <1>1, LoadBounded
  <2> QED BY <2>2, <2>4, <2>5, InsertBounded
<1>8. CASE UpdateRow(s)
  <2>1. Scanning(s) /\ CanGet(cache[s], cur[s])
    BY <1>8 DEF UpdateRow
  <2>2. PICK k \in Indices(s) :
          LET c == WithLastPage(Passed(s, k)) IN
          \E o \in DOMAIN c :
            LET merged == [RowAt(s, k) EXCEPT !.val = stmt[s].set]
                placed == InsertAt(c, o, merged)
            IN cache' = [cache EXCEPT ![s] = IF placed.ok THEN DeleteRid(placed.cache, RidAt(s, k))
                                             ELSE placed.cache]
    BY <1>8 DEF UpdateRow
  <2>3. PICK o \in DOMAIN WithLastPage(Passed(s, k)) :
            LET merged == [RowAt(s, k) EXCEPT !.val = stmt[s].set]
                placed == InsertAt(WithLastPage(Passed(s, k)), o, merged)
            IN cache' = [cache EXCEPT ![s] = IF placed.ok THEN DeleteRid(placed.cache, RidAt(s, k))
                                             ELSE placed.cache]
    BY <2>2
  <2>20. PICK r : r = [RowAt(s, k) EXCEPT !.val = stmt[s].set]
    OBVIOUS
  <2>21. PICK placed : placed = InsertAt(WithLastPage(Passed(s, k)), o, r)
    OBVIOUS
  <2>4. /\ placed = InsertAt(WithLastPage(Passed(s, k)), o, r)
        /\ cache' = [cache EXCEPT ![s] = IF placed.ok THEN DeleteRid(placed.cache, RidAt(s, k))
                                         ELSE placed.cache]
    BY <2>3, <2>20, <2>21
  <2>5. PICK c : c = Passed(s, k)
    OBVIOUS
  <2>6. Held(c, Len(file)) /\ Bounded(c) /\ DOMAIN c \subseteq Nat
    <3>1. k \in Nat /\ Current(s) \in Page /\ PageOf(RidAt(s, k)) \in Nat
      BY <2>1, RowOfScan
    <3> QED BY <2>1, <2>5, <3>1, <1>1, <1>4, PassedOK
  <2>7. CacheOK(WithLastPage(c)) /\ Bounded(WithLastPage(c))
    BY <2>6, <1>1, WithLastPageOK, LoadBounded
  <2>8. Bounded(placed.cache) /\ DOMAIN placed.cache \subseteq Nat
    BY <2>4, <2>5, <2>7, InsertBounded
  <2>9. PageOf(RidAt(s, k)) \in Nat
    BY <2>1, RowOfScan
  <2>10. Bounded(DeleteRid(placed.cache, RidAt(s, k)))
    BY <2>8, <2>9, PutBounded DEF DeleteRid
  <2> QED BY <2>4, <2>8, <2>10, <1>1 DEF Types
<1>9. ASSUME NEW c, Bounded(c), DOMAIN c \subseteq Nat, NEW o PROVE Bounded(Erase(c, o))
  <2>1. DOMAIN Erase(c, o) = DOMAIN c \ {o}
    BY DEF Erase
  <2> QED BY <2>1, <1>9 DEF Bounded
<1>10. CASE NextPage(s)
  <2>1. cache'[s] = Erase(WithLastPage(Loaded(s)), cur[s])
    BY <1>1, <1>10 DEF NextPage, Types
  <2>2. Bounded(WithLastPage(Loaded(s))) /\ DOMAIN WithLastPage(Loaded(s)) \subseteq Nat
    BY <1>1, <1>3, LoadBounded
  <2> QED BY <2>1, <2>2, <1>9
<1>11. CASE ScanEnd(s)
  <2>1. cache'[s] = cache[s] \/ cache'[s] = WithLastPage(Loaded(s))
    BY <1>1, <1>11 DEF ScanEnd, Types
  <2> QED BY <2>1, <1>1, <1>3, LoadBounded
<1>12. CASE Flush(s)
  <2>1. \E o : cache'[s] = Erase(cache[s], o)
    BY <1>1, <1>12 DEF Flush, Types
  <2> QED BY <2>1, <1>1, <1>9
<1> QED BY <1>5, <1>6, <1>7, <1>8, <1>10, <1>11, <1>12


-----------------------------------------------------------------------------
\* A non-empty set of integers with an upper bound has a largest element
LEMMA MaxExists ==
  ASSUME NEW S, S \subseteq Int, S # {}, NEW b \in Int, \A x \in S : x <= b
  PROVE  Max(S) \in S /\ \A x \in S : x <= Max(S)
<1> DEFINE T == {n \in Nat : \E x \in S : n = b - x}
<1>1. T \subseteq Nat /\ T # {}
  <2>1. PICK x \in S : TRUE
    OBVIOUS
  <2>2. b - x \in Nat
    OBVIOUS
  <2> QED BY <2>2
<1>2. PICK n \in T : \A y \in T : ~(<<y, n>> \in OpToRel(<, Nat))
  BY <1>1, NatLessThanWellFounded, WFMin
<1>3. \A y \in T : ~(y < n)
  BY <1>1, <1>2 DEF OpToRel
<1>4. PICK m \in S : n = b - m
  OBVIOUS
<1>5. \A x \in S : m >= x
  <2> SUFFICES ASSUME NEW x \in S PROVE m >= x
    OBVIOUS
  <2>1. b - x \in T
    OBVIOUS
  <2>2. ~(b - x < b - m)
    BY <2>1, <1>3, <1>4
  <2> QED BY <2>2
<1> HIDE DEF T
<1> QED BY <1>5 DEF Max

\* The highest row id in use
Highest(R, x) ==
  /\ \A o \in Nat : Len(R[o]) > 0 => RowId(o, Len(R[o])) <= x
  /\ x = -1 \/ \E o \in Nat : Len(R[o]) > 0 /\ x = RowId(o, Len(R[o]))

\* The pages of a table, none longer than its row ids
Slotted(R) == R \in [Nat -> Seq(Row)] /\ \A o \in Nat : Len(R[o]) <= PageSlots

LEMMA HighestTyped ==
  ASSUME NEW R, Slotted(R), NEW x, Highest(R, x)
  PROVE  /\ x \in Int /\ x >= -1
         /\ \A o \in Nat : Len(R[o]) \in Nat /\ (Len(R[o]) > 0 => RowId(o, Len(R[o])) \in Nat)
<1>1. \A o \in Nat : Len(R[o]) \in Nat /\ Len(R[o]) <= PageSlots
  BY DEF Slotted
<1>2. ASSUME NEW o \in Nat, Len(R[o]) > 0 PROVE RowId(o, Len(R[o])) \in Nat
  <2>1. PICK k \in 1 .. PageSlots : k = Len(R[o])
    BY <1>1, <1>2, PageAssumption
  <2> QED BY <2>1, RidTyped
<1>3. x = -1 \/ x \in Nat
  BY <1>2 DEF Highest
<1> QED BY <1>1, <1>2, <1>3

\* It grows with the pages
LEMMA HighestGrows ==
  ASSUME NEW R, Slotted(R), NEW S, Slotted(S), \A o \in Nat : Len(R[o]) <= Len(S[o]),
         NEW x, Highest(R, x), NEW y, Highest(S, y)
  PROVE  x <= y
<1>1. x \in Int /\ y \in Int /\ y >= -1
  BY HighestTyped
<1>2. CASE x = -1
  BY <1>1, <1>2
<1>3. CASE x # -1
  <2>1. PICK o \in Nat : Len(R[o]) > 0 /\ x = RowId(o, Len(R[o]))
    BY <1>3 DEF Highest
  <2>5. Len(R[o]) \in Nat /\ Len(S[o]) \in Nat
    BY HighestTyped
  <2>2. Len(R[o]) \in Nat /\ Len(S[o]) \in Nat /\ Len(R[o]) <= Len(S[o])
    BY <2>5
  <2>3. RowId(o, Len(S[o])) <= y
    BY <2>1, <2>2 DEF Highest
  <2>4. PICK a \in Nat : a = o * PageSlots
    BY PageAssumption
  <2> QED BY <2>1, <2>2, <2>3, <2>4, <1>1 DEF RowId
<1> QED BY <1>2, <1>3

LEMMA HighestSame ==
  ASSUME NEW R, Slotted(R), NEW S, Slotted(S), SameLengths(R, S),
         NEW x, Highest(R, x), NEW y, Highest(S, y)
  PROVE  x = y
<1>1. \A o \in Nat : Len(R[o]) \in Nat /\ Len(S[o]) = Len(R[o])
  BY DEF Slotted, SameLengths
<1>2. \A o \in Nat : Len(R[o]) <= Len(S[o]) /\ Len(S[o]) <= Len(R[o])
  BY <1>1
<1>3. x <= y /\ y <= x
  BY <1>2, HighestGrows
<1> QED BY <1>3, HighestTyped

\* A row behind all others has the highest id
LEMMA HighestNew ==
  ASSUME NEW R, Slotted(R), NEW S, Slotted(S), NEW rid \in Nat, Grown(R, S, rid), Above(R, rid),
         NEW x, Highest(R, x), NEW y, Highest(S, y)
  PROVE  x < rid /\ y = rid
<1>1. PICK p \in Nat : /\ rid = RowId(p, Len(R[p]) + 1) /\ Len(S[p]) = Len(R[p]) + 1
                       /\ \A o \in Nat \ {p} : Len(S[o]) = Len(R[o])
  BY DEF Grown
<1>2. x \in Int /\ y \in Int /\ \A o \in Nat : Len(R[o]) \in Nat
  BY HighestTyped
<1>3. \A o \in Nat : Len(R[o]) > 0 => RowId(o, Len(R[o])) < rid
  BY <1>2 DEF Above
<1>4. x < rid
  BY <1>2, <1>3 DEF Highest
<1>5. Len(S[p]) > 0 /\ RowId(p, Len(S[p])) = rid
  BY <1>1, <1>2
<1>6. rid <= y
  BY <1>5 DEF Highest
<1>7. PICK o \in Nat : Len(S[o]) > 0 /\ y = RowId(o, Len(S[o]))
  BY <1>6, <1>2 DEF Highest
<1>8. CASE o # p
  <2>1. y < rid
    BY <1>1, <1>3, <1>7, <1>8
  <2> QED BY <2>1, <1>2, <1>6
<1> QED BY <1>4, <1>5, <1>7, <1>8


-----------------------------------------------------------------------------
\* The pages of View are those of the table
LEMMA ViewPages ==
  ASSUME IInv, Lone \in Session, Bounded(cache[Lone])
  PROVE  /\ SoundPages(View) /\ Len(View) \in Nat
         /\ \A o \in Nat : Disk(View, o) = Table(file, cache[Lone])[o]
<1>1. FileOK /\ CacheOK(cache[Lone]) /\ Len(file) \in Nat
  BY DEF IInv, SessionOK, FileOK
<1> DEFINE c == cache[Lone]
           S == {Len(file)} \cup {o + 1 : o \in DOMAIN c}
<1>2. PICK n \in Nat : \A o \in DOMAIN c : o <= n
  BY DEF Bounded
<1>3. S \subseteq Nat /\ S # {} /\ \A x \in S : x <= Len(file) + n + 1
  BY <1>1, <1>2 DEF CacheOK
<1>4. Max(S) \in S /\ \A x \in S : x <= Max(S)
  <2>1. S \subseteq Int /\ Len(file) + n + 1 \in Int
    BY <1>1, <1>3
  <2> HIDE DEF S
  <2> QED BY <2>1, <1>3, MaxExists
<1>5. PageCount = Max(S)
  BY DEF PageCount
<1>6. PageCount \in Nat /\ Len(file) <= PageCount /\ \A o \in DOMAIN c : o < PageCount
  <2>1. \A x \in S : x \in Nat /\ x <= PageCount
    BY <1>3, <1>4, <1>5
  <2>2. PageCount \in S
    BY <1>4, <1>5
  <2>3. Len(file) \in S /\ \A o \in DOMAIN c : o + 1 \in S
    OBVIOUS
  <2>4. \A o \in DOMAIN c : o \in Nat
    BY <1>1 DEF CacheOK
  <2> HIDE DEF S
  <2>5. \A o \in DOMAIN c : o + 1 <= PageCount
    BY <2>1, <2>3
  <2> QED BY <2>1, <2>2, <2>3, <2>4, <2>5
<1> HIDE DEF S
<1>7. PICK m \in Nat : m = PageCount
  BY <1>6
<1>8. /\ DOMAIN View = 1 .. m
      /\ \A i \in 1 .. m : View[i] = IF (i - 1) \in DOMAIN c THEN OnDisk(c[i - 1])
                                     ELSE IF i <= Len(file) THEN file[i] ELSE Hole
  BY <1>7 DEF View
<1>9. ASSUME NEW i \in 1 .. m PROVE View[i] \in DiskPage /\ Sound(View[i])
  <2>1. CASE (i - 1) \in DOMAIN c
    <3>1. View[i] = OnDisk(c[i - 1])
      BY <1>8, <2>1
    <3>2. c[i - 1] \in Page /\ Sound(c[i - 1])
      BY <1>1, <2>1 DEF CacheOK, PageOK
    <3> QED BY <3>1, <3>2 DEF OnDisk, Page, DiskPage, Sound
  <2>2. CASE (i - 1) \notin DOMAIN c /\ i <= Len(file)
    <3>1. View[i] = file[i] /\ i \in 1 .. Len(file)
      BY <1>1, <1>8, <2>2
    <3> QED BY <3>1, <1>1 DEF FileOK
  <2>3. CASE (i - 1) \notin DOMAIN c /\ ~(i <= Len(file))
    <3>1. View[i] = Hole
      BY <1>8, <2>3
    <3>2. <<>> \in Seq(Row) /\ Len(<<>>) = 0
      OBVIOUS
    <3>3. Hole \in DiskPage
      BY <3>2 DEF Hole, DiskPage
    <3>4. PICK b \in Nat : b = PageSlots * PageCapacity
      BY PageAssumption
    <3>5. Sound(Hole)
      BY <3>2, <3>4, PageAssumption DEF Hole, Sound, K
    <3> QED BY <3>1, <3>3, <3>5
  <2> QED BY <2>1, <2>2, <2>3
<1>10. View \in Seq(DiskPage) /\ Len(View) = m
  <2>1. View \in [1 .. m -> DiskPage]
    <3>1. View = [i \in 1 .. m |-> View[i]]
      BY <1>7 DEF View
    <3> QED BY <3>1, <1>9
  <2> QED BY <2>1
<1>11. SoundPages(View)
  BY <1>9, <1>10 DEF SoundPages
<1>12. ASSUME NEW o \in Nat PROVE Disk(View, o) = Table(file, c)[o]
  <2>1. Table(file, c)[o] = IF o \in DOMAIN c THEN c[o].rows ELSE Disk(file, o)
    BY DEF Table
  <2>2. CASE o < m
    <3>1. PICK i \in 1 .. m : i = o + 1
      BY <2>2
    <3>2. i - 1 = o /\ Disk(View, o) = View[i].rows
      BY <3>1, <2>2, <1>10 DEF Disk
    <3>3. View[i] = IF o \in DOMAIN c THEN OnDisk(c[o]) ELSE IF i <= Len(file) THEN file[i] ELSE Hole
      BY <3>2, <1>8
    <3>4. i <= Len(file) <=> o < Len(file)
      BY <3>1, <1>1
    <3> QED BY <2>1, <3>1, <3>2, <3>3, <3>4 DEF Disk, OnDisk, Hole
  <2>3. CASE ~(o < m)
    <3>1. o \notin DOMAIN c /\ ~(o < Len(file))
      BY <2>3, <1>1, <1>6, <1>7
    <3> QED BY <2>1, <2>3, <3>1, <1>10 DEF Disk
  <2> QED BY <2>2, <2>3
<1> QED BY <1>10, <1>11, <1>12


\* The table of a session has no page with more rows than row ids
LEMMA TableSlotted == ASSUME IInv, NEW s \in Session PROVE Slotted(Table(file, cache[s]))
<1>1. FilePages(file) /\ CacheOK(cache[s])
  BY DEF IInv, FileOK, FilePages, SessionOK
<1> QED BY <1>1, TableTyped DEF Slotted

\* The last row of the last page with rows
LEMMA ViewHighest ==
  ASSUME IInv, Lone \in Session, Bounded(cache[Lone])
  PROVE  Highest(Table(file, cache[Lone]), ViewLast)
<1> DEFINE R == Table(file, cache[Lone])
           I == {n \in 1 .. Len(View) : View[n].rows # <<>>}
           S == {-1} \cup {RowId(i - 1, Len(View[i].rows)) : i \in I}
<1>1. PICK m \in Nat : m = Len(View)
  BY ViewPages
<1>2. Slotted(R)
  BY TableSlotted
<1>3. ASSUME NEW o \in Nat
      PROVE  /\ o < m => o + 1 \in 1 .. m /\ (o + 1) - 1 = o /\ View[o + 1].rows = R[o]
             /\ ~(o < m) => R[o] = <<>>
  BY <1>1, ViewPages DEF Disk
<1>4. \A o \in Nat : R[o] \in Seq(Row) /\ Len(R[o]) \in Nat /\ Len(R[o]) <= PageSlots
  BY <1>2 DEF Slotted
<1> HIDE DEF R
<1>5. ASSUME NEW i \in I
      PROVE  \E o \in Nat : /\ o < m /\ i = o + 1 /\ Len(R[o]) > 0
                            /\ RowId(i - 1, Len(View[i].rows)) = RowId(o, Len(R[o]))
  <2>1. i \in 1 .. m /\ View[i].rows # <<>>
    BY <1>1
  <2>2. PICK o \in Nat : o = i - 1
    BY <2>1
  <2>3. o < m /\ i = o + 1
    BY <2>1, <2>2
  <2>4. View[i].rows = R[o] /\ R[o] \in Seq(Row)
    BY <2>3, <1>3, <1>4
  <2>5. Len(R[o]) > 0
    BY <2>1, <2>4
  <2> QED BY <2>2, <2>3, <2>4, <2>5
<1>6. ASSUME NEW o \in Nat, Len(R[o]) > 0 PROVE RowId(o, Len(R[o])) \in S
  <2>1. Len(<<>>) = 0
    OBVIOUS
  <2>2. o < m
    BY <2>1, <1>3, <1>6
  <2>3. o + 1 \in 1 .. m /\ View[o + 1].rows = R[o] /\ (o + 1) - 1 = o
    BY <2>2, <1>3
  <2>4. o + 1 \in I
    BY <2>1, <2>3, <1>1, <1>6
  <2>5. RowId((o + 1) - 1, Len(View[o + 1].rows)) \in S
    BY <2>4
  <2> QED BY <2>3, <2>5
<1>7. ASSUME NEW x \in S
      PROVE  x = -1 \/ \E o \in Nat : o < m /\ Len(R[o]) > 0 /\ x = RowId(o, Len(R[o]))
  BY <1>5
<1> HIDE DEF S, I
<1>8. PICK b \in Nat : b = m * PageSlots
  BY PageAssumption
<1>9. ASSUME NEW o \in Nat, o < m, Len(R[o]) > 0
      PROVE  RowId(o, Len(R[o])) \in Int /\ RowId(o, Len(R[o])) <= b
  <2>1. PICK p \in Nat : p = PageSlots
    BY PageAssumption
  <2>2. (o + 1) * p <= m * p
    BY <2>1, <1>9, Monotone
  <2>3. PICK a \in Nat : a = o * p
    BY <2>1
  <2>4. (o + 1) * p = a + p
    BY <2>3
  <2>5. Len(R[o]) \in Nat /\ Len(R[o]) <= p
    BY <1>4, <2>1
  <2>6. RowId(o, Len(R[o])) = a + Len(R[o]) - 1
    BY <2>1, <2>3 DEF RowId
  <2>7. a + p <= b
    BY <2>1, <2>2, <2>4, <1>8
  <2> QED BY <2>5, <2>6, <2>7
<1>10. \A x \in S : x \in Int /\ x <= b
  BY <1>7, <1>9
<1>11. -1 \in S
  BY DEF S
<1>12. Max(S) \in S /\ \A x \in S : x <= Max(S)
  <2>1. S \subseteq Int /\ S # {} /\ b \in Int
    BY <1>10, <1>11
  <2> QED BY <2>1, <1>10, MaxExists
<1>13. ViewLast = Max(S)
  BY DEF ViewLast, S, I
<1> QED BY <1>6, <1>7, <1>12, <1>13 DEF Highest, R

LEMMA ViewIs ==
  (IInv /\ Lone \in Session /\ Bounded(cache[Lone])) =>
    /\ LiveRows(View) = Now(Lone)
    /\ Slotted(Table(file, cache[Lone])) /\ Highest(Table(file, cache[Lone]), ViewLast)
<1> SUFFICES ASSUME IInv, Lone \in Session, Bounded(cache[Lone])
             PROVE  /\ LiveRows(View) = Now(Lone)
                    /\ Slotted(Table(file, cache[Lone])) /\ Highest(Table(file, cache[Lone]), ViewLast)
  OBVIOUS
<1>1. DOMAIN NoPages = {}
  BY DEF NoPages
<1>2. LiveRows(View) = LiveIn(Table(View, NoPages))
  BY <1>1, ViewPages, LiveOnPages
<1>3. Table(View, NoPages) = Table(file, cache[Lone])
  <2>1. \A o \in Nat : Table(View, NoPages)[o] = Table(file, cache[Lone])[o]
    BY <1>1, ViewPages DEF Table
  <2> QED BY <2>1 DEF Table
<1>4. LiveRows(View) = Now(Lone)
  BY <1>2, <1>3 DEF Now
<1> QED BY <1>4, TableSlotted, ViewHighest

LEMMA ViewWillBe ==
  (IInv' /\ Lone \in Session /\ Bounded(cache'[Lone])) =>
    /\ LiveRows(View)' = Now(Lone)'
    /\ Slotted(Table(file', cache'[Lone])) /\ Highest(Table(file', cache'[Lone]), ViewLast')
<1>1. ((IInv /\ Lone \in Session /\ Bounded(cache[Lone])) =>
         /\ LiveRows(View) = Now(Lone)
         /\ Slotted(Table(file, cache[Lone])) /\ Highest(Table(file, cache[Lone]), ViewLast))'
  BY ViewIs, PTL
<1> QED BY <1>1


-----------------------------------------------------------------------------
\* No page of the file is longer than the session has it.  While a statement
\* runs, the file holds the old rows that are still in the table, and nothing
\* but old rows and new ones, which a scan has left behind.
Grows(s) == \A o \in Nat : Len(Disk(file, o)) <= Len(Table(file, cache[s])[o])
Disclosed(s) ==
  /\ Now(s) \cap snap[s] \subseteq LiveRows(file)
  /\ \A d \in LiveRows(file) :
       d \in snap[s] \/ (d \in Now(s) /\ (Scanning(s) => PageOf(d.rid) < cur[s]))
HeapOK(s) == Bounded(cache[s]) /\ Grows(s) /\ (pc[s] # "idle" => Disclosed(s))

HInv == LInv /\ \A s \in Session : HeapOK(s)

LEMMA LengthsTyped ==
  ASSUME IInv, NEW s \in Session, NEW o \in Nat
  PROVE  Len(Table(file, cache[s])[o]) \in Nat /\ Len(Disk(file, o)) \in Nat
<1>1. FilePages(file) /\ CacheOK(cache[s]) /\ CacheOK(NoPages) /\ DOMAIN NoPages = {}
  BY DEF IInv, FileOK, FilePages, SessionOK, CacheOK, NoPages
<1>2. Table(file, NoPages)[o] = Disk(file, o)
  BY <1>1 DEF Table
<1>3. Table(file, cache[s])[o] \in Seq(Row) /\ Table(file, NoPages)[o] \in Seq(Row)
  BY <1>1, TableTyped
<1> QED BY <1>2, <1>3

\* Steps that change no row
LEMMA StillDiscloses ==
  ASSUME IInv, IInv', NEW s \in Session, Unmoved(s), snap'[s] = snap[s], Grows(s), Disclosed(s),
         Scanning(s)' => Scanning(s) /\ cur'[s] >= cur[s],
         file' = file \/ \E o \in Nat : Writes(s, o) /\ (Scanning(s)' => o < cur'[s])
  PROVE  Grows(s)' /\ Disclosed(s)'
<1>1. Table(file', cache'[s]) = Table(file, cache[s]) /\ Now(s)' = Now(s)
  BY DEF Unmoved
<1>2. cur[s] \in Nat /\ cur'[s] \in Nat
  BY DEF IInv, Types
<1>3. \A r \in Now(s) \cup LiveRows(file) : r \in Found /\ PageOf(r.rid) \in Nat
  BY DiskTyped, LiveTyped DEF Now
<1>4. CASE file' = file
  <2>1. Grows(s)'
    BY <1>1, <1>4 DEF Grows
  <2>2. Scanning(s)' => \A d \in LiveRows(file) : PageOf(d.rid) < cur[s] => PageOf(d.rid) < cur'[s]
    BY <1>2, <1>3
  <2> QED BY <2>1, <2>2, <1>1, <1>4 DEF Disclosed
<1>5. CASE \E o \in Nat : Writes(s, o) /\ (Scanning(s)' => o < cur'[s])
  <2>1. PICK o \in Nat : Writes(s, o) /\ (Scanning(s)' => o < cur'[s])
    BY <1>5
  <2>2. \A x \in Nat : Disk(file', x) = IF x = o THEN Table(file, cache[s])[x] ELSE Disk(file, x)
    BY <2>1 DEF Writes
  <2>3. Grows(s)'
    <3> SUFFICES ASSUME NEW x \in Nat PROVE Len(Disk(file', x)) <= Len(Table(file', cache'[s])[x])
      BY DEF Grows
    <3>1. Len(Table(file, cache[s])[x]) \in Nat /\ Len(Disk(file, x)) <= Len(Table(file, cache[s])[x])
      BY LengthsTyped DEF Grows
    <3> QED BY <3>1, <2>2, <1>1
  <2>4. \A r \in Found : r \in LiveRows(file') <=> IF PageOf(r.rid) = o THEN r \in Now(s) ELSE r \in LiveRows(file)
    BY <2>1, WrittenRows
  <2>5. Now(s)' \cap snap'[s] \subseteq LiveRows(file')
    BY <2>4, <1>1, <1>3 DEF Disclosed
  <2>6. ASSUME NEW d \in LiveRows(file')
        PROVE  d \in snap'[s] \/ (d \in Now(s)' /\ (Scanning(s)' => PageOf(d.rid) < cur'[s]))
    <3>1. d \in Found
      <4>1. (\A e \in LiveRows(file) : e \in Found)'
        <5>1. FilePages(file')
          BY DEF IInv, FileOK, FilePages
        <5> QED BY <5>1, DiskRows DEF LiveIn
      <4> QED BY <4>1
    <3>2. CASE PageOf(d.rid) = o
      BY <3>1, <3>2, <2>1, <2>4, <1>1
    <3>3. CASE PageOf(d.rid) # o
      <4>1. d \in LiveRows(file)
        BY <3>1, <3>3, <2>4
      <4>2. d \in snap[s] \/ (d \in Now(s) /\ (Scanning(s) => PageOf(d.rid) < cur[s]))
        BY <4>1 DEF Disclosed
      <4>3. PageOf(d.rid) \in Nat
        BY <4>1, <1>3
      <4> QED BY <4>2, <4>3, <1>1, <1>2
    <3> QED BY <3>2, <3>3
  <2> QED BY <2>3, <2>5, <2>6 DEF Disclosed
<1> QED BY <1>4, <1>5

\* Steps that leave the file alone and change one row, or fail
LEMMA ChangeGrows ==
  ASSUME IInv, NEW s \in Session, Grows(s), file' = file,
         \/ Table(file', cache'[s]) = Table(file, cache[s])
         \/ SameLengths(Table(file, cache[s]), Table(file', cache'[s]))
         \/ \E rid : Grown(Table(file, cache[s]), Table(file', cache'[s]), rid)
  PROVE  Grows(s)'
<1> SUFFICES ASSUME NEW o \in Nat PROVE Len(Disk(file', o)) <= Len(Table(file', cache'[s])[o])
  BY DEF Grows
<1>1. Len(Table(file, cache[s])[o]) \in Nat /\ Len(Disk(file, o)) \in Nat
  BY LengthsTyped
<1>2. Len(Disk(file, o)) <= Len(Table(file, cache[s])[o])
  BY DEF Grows
<1>3. \/ Len(Table(file', cache'[s])[o]) = Len(Table(file, cache[s])[o])
      \/ Len(Table(file', cache'[s])[o]) = Len(Table(file, cache[s])[o]) + 1
  BY DEF SameLengths, Grown
<1> QED BY <1>1, <1>2, <1>3


\* Steps that only read on, or write a page back
LEMMA QuietHeap ==
  ASSUME IInv, IInv', NEW s \in Session, Alone(s), HeapOK(s),
         SkipRow(s) \/ SelectRow(s) \/ NextPage(s) \/ ScanEnd(s) \/ Flush(s)
  PROVE  HeapOK(s)' /\ pc[s] # "idle"
<1>1. Types /\ Base(s) /\ cur[s] \in Nat /\ cur'[s] \in Nat
  BY DEF Alone, IInv, Types
<1>2. pc[s] # "idle"
  BY DEF SkipRow, SelectRow, NextPage, ScanEnd, Flush, Scanning
<1>3. Bounded(cache'[s])
  BY StaysBounded DEF HeapOK
<1>4. Grows(s) /\ Disclosed(s)
  BY <1>2 DEF HeapOK
<1>5. Unmoved(s) /\ snap'[s] = snap[s]
  BY <1>1, QuietSteps DEF Quiet
<1>9. ASSUME Grows(s)' /\ Disclosed(s)' PROVE HeapOK(s)' /\ pc[s] # "idle"
  BY <1>2, <1>3, <1>9 DEF HeapOK
<1>6. CASE SkipRow(s) \/ SelectRow(s) \/ ScanEnd(s)
  <2>1. file' = file /\ cur' = cur /\ (Scanning(s)' => Scanning(s))
    <3>1. Scanning(s) /\ UNCHANGED <<file, cur>>
      BY <1>6 DEF SkipRow, SelectRow, ScanEnd, local
    <3> QED BY <3>1
  <2>2. cur'[s] >= cur[s]
    BY <2>1, <1>1
  <2>3. Grows(s)' /\ Disclosed(s)'
    BY <2>1, <2>2, <1>4, <1>5, StillDiscloses
  <2> QED BY <2>3, <1>9
<1>7. CASE NextPage(s)
  <2>1. Scanning(s) /\ CanGet(cache[s], cur[s])
    BY <1>7 DEF NextPage
  <2>2. cur'[s] = WithLastPage(Loaded(s))[cur[s]].next
    BY <1>1, <1>7 DEF NextPage, Types
  <2>3. Held(Loaded(s), Len(file)) /\ cur[s] \in DOMAIN Loaded(s) /\ PageOK(Current(s), cur[s])
    BY <2>1, LoadedOK
  <2>4. WithLastPage(Loaded(s))[cur[s]] = Current(s)
    <3>1. FileOK
      BY DEF IInv
    <3> QED BY <3>1, <2>3, WithLastPageOK DEF Current
  <2>5. cur'[s] = cur[s] + 1
    BY <2>2, <2>3, <2>4 DEF PageOK
  <2>6. Writes(s, cur[s])
    BY <1>1, <1>7, NextPageEffect
  <2>7. cur'[s] >= cur[s] /\ cur[s] < cur'[s]
    BY <2>5, <1>1
  <2>8. \E o \in Nat : Writes(s, o) /\ (Scanning(s)' => o < cur'[s])
    BY <2>6, <2>7, <1>1
  <2>9. Grows(s)' /\ Disclosed(s)'
    BY <2>1, <2>7, <2>8, <1>4, <1>5, StillDiscloses
  <2> QED BY <2>9, <1>9
<1>8. CASE Flush(s)
  <2>1. ~Scanning(s)'
    BY <1>8 DEF Flush, local, Scanning
  <2>2. \E o \in Nat : Writes(s, o)
    BY <1>1, <1>8, FlushEffect
  <2>3. Grows(s)' /\ Disclosed(s)'
    BY <2>1, <2>2, <1>4, <1>5, StillDiscloses
  <2> QED BY <2>3, <1>9
<1> QED BY <1>6, <1>7, <1>8

LEMMA InsertHeap ==
  ASSUME IInv, IInv', NEW s \in Session, Alone(s), HeapOK(s), InsertNext(s)
  PROVE  HeapOK(s)'
<1>1. /\ Base(s) /\ stmt[s].kind = "insert" /\ pc[s] = "rows" /\ ~Scanning(s)'
      /\ UNCHANGED <<file, snap>>
  BY DEF Alone, InsertNext, Scanning
<1>2. Bounded(cache'[s]) /\ Grows(s) /\ Disclosed(s)
  BY <1>1, StaysBounded DEF HeapOK
<1>3. Grows(s)'
  BY <1>1, <1>2, InsertEffect, ChangeGrows
<1>4. snap[s] \subseteq Now(s) /\ \A r \in Now(s) : r.tag < nextTag /\ r.tag \in Nat
  <2>1. Safe(s) /\ \A r \in Now(s) : r.tag < nextTag
    BY <1>1 DEF Alone, TagsApart, Running
  <2>2. \A r \in Now(s) : r.tag \in Nat
    BY LiveTyped DEF Now
  <2> QED BY <2>1, <2>2, <1>1 DEF Safe, Bystanders
<1>5. Now(s)' = Now(s) \/ \E new : new.tag = nextTag /\ Now(s)' = Now(s) \cup {new}
  BY <1>1, InsertEffect
<1>6. nextTag \in Nat
  BY DEF IInv, Types
<1>7. Now(s)' \cap snap[s] \subseteq Now(s)
  BY <1>4, <1>5, <1>6
<1>8. Now(s) \subseteq Now(s)'
  BY <1>5
<1>9. Disclosed(s)'
  BY <1>1, <1>2, <1>7, <1>8 DEF Disclosed
<1> QED BY <1>2, <1>3, <1>9 DEF HeapOK

LEMMA DeleteHeap ==
  ASSUME IInv, IInv', NEW s \in Session, Alone(s), HeapOK(s), DeleteRow(s)
  PROVE  HeapOK(s)'
<1>1. /\ Base(s) /\ stmt[s].kind = "delete" /\ pc[s] = "rows"
      /\ UNCHANGED <<file, snap>>
  BY DEF Alone, DeleteRow, Scanning
<1>2. Bounded(cache'[s]) /\ Grows(s) /\ Disclosed(s)
  BY <1>1, StaysBounded DEF HeapOK
<1>3. Grows(s)'
  BY <1>1, <1>2, DeleteEffect, ChangeGrows
<1>4. Now(s) \subseteq snap[s]
  BY <1>1 DEF Alone, Running, Deleting
<1>5. Now(s)' \subseteq Now(s)
  BY <1>1, DeleteEffect
<1>6. Disclosed(s)'
  BY <1>1, <1>2, <1>4, <1>5 DEF Disclosed
<1> QED BY <1>2, <1>3, <1>6 DEF HeapOK

\* The row an UPDATE removes is not behind the scan: if it is in the file it is an old one
LEMMA UpdateHeap ==
  ASSUME IInv, IInv', NEW s \in Session, Alone(s), HeapOK(s), UpdateRow(s)
  PROVE  HeapOK(s)'
<1>1. /\ Base(s) /\ stmt[s].kind = "update" /\ pc[s] = "rows" /\ Scanning(s)
      /\ UNCHANGED <<file, snap, cur, stmt>>
  BY DEF Alone, UpdateRow, Scanning
<1>2. Bounded(cache'[s]) /\ Grows(s) /\ Disclosed(s)
  BY <1>1, StaysBounded DEF HeapOK
<1>3. Grows(s)'
  BY <1>1, <1>2, UpdateEffect, ChangeGrows
<1>4. \/ Now(s)' = Now(s)
      \/ \E r \in Now(s), new \in Found :
           /\ PageOf(r.rid) = cur[s] /\ Above(Table(file, cache[s]), new.rid)
           /\ Now(s)' = (Now(s) \ {r}) \cup {new}
  BY <1>1, UpdateEffect
<1>5. CASE Now(s)' = Now(s)
  <2>1. Disclosed(s)'
    BY <1>1, <1>2, <1>5 DEF Disclosed
  <2> QED BY <2>1, <1>2, <1>3 DEF HeapOK
<1>6. CASE \E r \in Now(s), new \in Found :
             /\ PageOf(r.rid) = cur[s] /\ Above(Table(file, cache[s]), new.rid)
             /\ Now(s)' = (Now(s) \ {r}) \cup {new}
  <2>1. PICK r \in Now(s), new \in Found :
             /\ PageOf(r.rid) = cur[s] /\ Above(Table(file, cache[s]), new.rid)
             /\ Now(s)' = (Now(s) \ {r}) \cup {new}
    BY <1>6
  <2>2. new \notin snap[s]
    <3>1. snap[s] \subseteq Found /\ OldBelow(s)
      BY <1>1 DEF Alone, Running, Opened, Updating
    <3>2. new.rid \in Nat
      BY DEF Found
    <3>3. \A h \in snap[s] : h.rid < new.rid
      BY <3>1, <3>2, <2>1, <1>1 DEF OldBelow
    <3> QED BY <3>2, <3>3
  <2>3. cur[s] \in Nat
    BY DEF IInv, Types
  <2>4. ~(PageOf(r.rid) < cur[s])
    BY <2>1, <2>3
  <2>5. \A d \in LiveRows(file) : d \in snap[s] \/ (d \in Now(s) /\ d # r /\ PageOf(d.rid) < cur[s])
    BY <1>1, <1>2, <2>4 DEF Disclosed
  <2>6. Disclosed(s)'
    BY <1>1, <1>2, <2>1, <2>2, <2>5 DEF Disclosed
  <2> QED BY <2>6, <1>2, <1>3 DEF HeapOK
<1> QED BY <1>4, <1>5, <1>6


\* A file without a cache
LEMMA BareHeap ==
  ASSUME IInv, NEW s \in Session, DOMAIN cache[s] = {}
  PROVE  /\ Bounded(cache[s]) /\ Grows(s)
         /\ \A o \in Nat : Table(file, cache[s])[o] = Disk(file, o)
         /\ Now(s) = LiveRows(file)
<1>1. Bounded(cache[s])
  BY DEF Bounded
<1>2. \A o \in Nat : Table(file, cache[s])[o] = Disk(file, o)
  BY DEF Table
<1>4. \A o \in Nat : Len(Disk(file, o)) \in Nat
  BY LengthsTyped
<1>5. \A o \in Nat : Len(Disk(file, o)) <= Len(Disk(file, o))
  BY <1>4
<1>3. Grows(s)
  BY <1>2, <1>5 DEF Grows
<1> QED BY <1>1, <1>2, <1>3, EmptyCache

LEMMA BareAfter ==
  \A s \in Session : IInv' /\ DOMAIN cache'[s] = {} =>
    /\ Bounded(cache'[s]) /\ Grows(s)'
    /\ \A o \in Nat : Table(file', cache'[s])[o] = Disk(file', o)
    /\ Now(s)' = LiveRows(file')
<1>1. \A s \in Session : IInv /\ DOMAIN cache[s] = {} =>
        /\ Bounded(cache[s]) /\ Grows(s)
        /\ \A o \in Nat : Table(file, cache[s])[o] = Disk(file, o)
        /\ Now(s) = LiveRows(file)
  BY BareHeap
<1>2. (\A s \in Session : IInv /\ DOMAIN cache[s] = {} =>
         /\ Bounded(cache[s]) /\ Grows(s)
         /\ \A o \in Nat : Table(file, cache[s])[o] = Disk(file, o)
         /\ Now(s) = LiveRows(file))'
  BY <1>1, PTL
<1> QED BY <1>2

LEMMA OpenHeap ==
  ASSUME IInv, IInv', DOMAIN snap = Session, NEW s \in Session, NEW st \in Statement, Open(s, st)
  PROVE  HeapOK(s)' /\ DOMAIN cache[s] = {} /\ DOMAIN cache'[s] = {} /\ snap'[s] = LiveRows(file)
<1>1. pc[s] = "idle" /\ snap'[s] = LiveRows(file) /\ UNCHANGED <<file, cache>>
  BY DEF Open
<1>2. DOMAIN cache[s] = {} /\ DOMAIN cache'[s] = {}
  BY <1>1 DEF IInv, SessionOK
<1>3. Disclosed(s)'
  BY <1>1, <1>2, BareAfter DEF Disclosed
<1> QED BY <1>1, <1>2, <1>3, BareAfter DEF HeapOK

LEMMA TruncateHeap ==
  ASSUME IInv, IInv', NEW s \in Session, Truncate(s)
  PROVE  HeapOK(s)' /\ Now(s)' = {} /\ \A o \in Nat : Table(file', cache'[s])[o] = <<>>
<1>1. /\ stmt[s].kind = "truncate" /\ pc[s] = "rows" /\ file' = <<>>
      /\ UNCHANGED <<cache, snap>>
  BY DEF Truncate
<1>2. DOMAIN cache'[s] = {}
  BY <1>1 DEF IInv, SessionOK
<1>3. LiveRows(file') = {}
  BY <1>1 DEF LiveRows
<1>4. Now(s)' = {}
  BY <1>2, <1>3, BareAfter
<1>5. Disclosed(s)'
  BY <1>1, <1>3, <1>4 DEF Disclosed
<1>6. \A o \in Nat : Table(file', cache'[s])[o] = <<>>
  <2>1. \A o \in Nat : Disk(file', o) = <<>>
    BY <1>1 DEF Disk
  <2> QED BY <2>1, <1>2, BareAfter
<1> QED BY <1>2, <1>4, <1>5, <1>6, BareAfter DEF HeapOK

\* The session leaves the table alone
LEMMA RestHeap ==
  ASSUME NEW s \in Session, HeapOK(s), file' = file, cache'[s] = cache[s], cur'[s] = cur[s],
         snap'[s] = snap[s], stmt'[s] = stmt[s], pc'[s] \in {pc[s], "close", "idle"},
         pc'[s] = "close" => pc[s] # "idle"
  PROVE  HeapOK(s)'
<1>1. Now(s)' = Now(s) /\ (Grows(s) => Grows(s)')
  BY DEF Now, Grows
<1>2. Disclosed(s) => Disclosed(s)'
  BY <1>1 DEF Disclosed, Scanning
<1> QED BY <1>1, <1>2 DEF HeapOK

LEMMA HInvInit == Init => HInv
<1> SUFFICES ASSUME Init PROVE HInv
  OBVIOUS
<1>1. LInv /\ IInv
  BY LoneInit DEF LInv, RInv
<1>2. ASSUME NEW s \in Session PROVE HeapOK(s)
  <2>1. pc[s] = "idle" /\ DOMAIN cache[s] = {}
    BY DEF Init, NoPages
  <2> QED BY <2>1, <1>1, BareHeap DEF HeapOK
<1> QED BY <1>1, <1>2 DEF HInv

LEMMA HInvNext == ASSUME HInv, OneSession, [Next]_vars PROVE HInv'
<1>1. LInv /\ LInv' /\ \A s \in Session : HeapOK(s)
  BY LoneNext DEF HInv
<1>2. /\ IInv /\ IInv' /\ DOMAIN snap = Session /\ \A s \in Session : Alone(s)
  BY <1>1 DEF LInv, RInv
<1>3. ASSUME NEW s \in Session, HeapOK(s)' PROVE HInv'
  BY <1>1, <1>3 DEF HInv, OneSession
<1>4. CASE UNCHANGED vars
  <2>1. UNCHANGED <<file, cache, cur, pc, stmt, snap>>
    BY <1>4 DEF vars, local
  <2>2. ASSUME NEW s \in Session PROVE HeapOK(s)'
    BY <2>1, <1>1, RestHeap
  <2> QED BY <2>2, <1>1 DEF HInv
<1>5. CASE Crash
  <2>1. ASSUME NEW s \in Session PROVE HeapOK(s)'
    <3>1. pc'[s] = "idle" /\ DOMAIN cache'[s] = {}
      BY <1>5 DEF Crash, NoPages
    <3> QED BY <3>1, <1>2, BareAfter DEF HeapOK
  <2> QED BY <2>1, <1>1 DEF HInv
<1>6. ASSUME NEW s \in Session, NEW st \in Statement, Open(s, st) PROVE HInv'
  BY <1>2, <1>3, <1>6, OpenHeap
<1>7. ASSUME NEW s \in Session, RowStep(s) \/ Flush(s) \/ Reply(s) PROVE HInv'
  <2>1. CASE InsertNext(s) \/ DeleteRow(s) \/ UpdateRow(s) \/ Truncate(s)
    BY <2>1, <1>1, <1>2, <1>3, InsertHeap, DeleteHeap, UpdateHeap, TruncateHeap
  <2>2. CASE SkipRow(s) \/ SelectRow(s) \/ NextPage(s) \/ ScanEnd(s) \/ Flush(s)
    BY <2>2, <1>1, <1>2, <1>3, QuietHeap
  <2>3. CASE InsertEnd(s) \/ Reply(s)
    <3>1. /\ UNCHANGED <<file, cache, cur, stmt, snap>> /\ pc[s] # "idle"
          /\ pc'[s] \in {"close", "idle"}
      BY <2>3, <1>2 DEF InsertEnd, Reply, Done, IInv, Types
    <3>2. HeapOK(s)'
      BY <3>1, <1>1, RestHeap
    <3> QED BY <3>2, <1>3
  <2> QED BY <1>7, <2>1, <2>2, <2>3 DEF RowStep
<1> QED BY <1>4, <1>5, <1>6, <1>7 DEF Next


-----------------------------------------------------------------------------
(***************************************************************************)
(* The steps of the heap.                                                  *)
(***************************************************************************)
\* How the mapping reads the table before and after a step
Seen ==
  /\ Lone \in Session /\ \A s \in Session : s = Lone
  /\ LiveRows(View) = Now(Lone) /\ LiveRows(View)' = Now(Lone)'
  /\ Slotted(Table(file, cache[Lone])) /\ Highest(Table(file, cache[Lone]), ViewLast)
  /\ Slotted(Table(file', cache'[Lone])) /\ Highest(Table(file', cache'[Lone]), ViewLast')

LEMMA SeesTable == ASSUME HInv, HInv', OneSession, Session # {} PROVE Seen
<1>1. Lone \in Session
  BY DEF Lone
<1>2. IInv /\ IInv' /\ Bounded(cache[Lone]) /\ Bounded(cache'[Lone])
  BY <1>1 DEF HInv, HeapOK, LInv, RInv
<1> QED BY <1>1, <1>2, ViewIs, ViewWillBe DEF Seen, OneSession

\* No row has moved and no page has grown
LEMMA NothingSeen ==
  ASSUME Seen, Now(Lone)' = Now(Lone), snap'[Lone] = snap[Lone],
         pc'[Lone] = "idle" <=> pc[Lone] = "idle",
         SameLengths(Table(file, cache[Lone]), Table(file', cache'[Lone]))
  PROVE  UNCHANGED Heap!heapVars
<1>1. ViewLast' = ViewLast
  BY HighestSame DEF Seen
<1>2. LiveRows(View)' = LiveRows(View)
  BY DEF Seen
<1> QED BY <1>1, <1>2 DEF Heap!heapVars

LEMMA QuietSeen ==
  ASSUME IInv, Alone(Lone), Seen,
         \/ SkipRow(Lone) \/ SelectRow(Lone) \/ NextPage(Lone) \/ ScanEnd(Lone) \/ Flush(Lone)
         \/ InsertEnd(Lone)
  PROVE  UNCHANGED Heap!heapVars
<1>1. Types /\ Base(Lone) /\ Lone \in Session
  BY DEF Alone, IInv, Seen
<1>2. pc[Lone] # "idle" /\ pc'[Lone] # "idle" /\ snap'[Lone] = snap[Lone]
  BY <1>1 DEF SkipRow, SelectRow, NextPage, ScanEnd, Flush, InsertEnd, Scanning, local, Types
<1>3. Table(file', cache'[Lone]) = Table(file, cache[Lone]) /\ Now(Lone)' = Now(Lone)
  <2>1. CASE InsertEnd(Lone)
    BY <2>1 DEF InsertEnd, Now
  <2>2. CASE ~InsertEnd(Lone)
    BY <2>2, <1>1, QuietSteps DEF Quiet, Unmoved
  <2> QED BY <2>1, <2>2
<1>4. SameLengths(Table(file, cache[Lone]), Table(file', cache'[Lone]))
  BY <1>3 DEF SameLengths
<1> QED BY <1>2, <1>3, <1>4, NothingSeen

\* A row is added behind all others
LEMMA InsertSeen ==
  ASSUME IInv, Alone(Lone), Seen, InsertNext(Lone)
  PROVE  Heap!Step \/ UNCHANGED Heap!heapVars
<1>1. Types /\ Base(Lone) /\ Lone \in Session /\ pc[Lone] = "rows" /\ snap' = snap
  BY DEF Alone, IInv, Seen, InsertNext
<1>2. CASE pc'[Lone] = "rows"
  <2>1. PICK new \in Found :
          /\ new.tag = nextTag /\ Above(Table(file, cache[Lone]), new.rid)
          /\ Now(Lone)' = Now(Lone) \cup {new}
          /\ Grown(Table(file, cache[Lone]), Table(file', cache'[Lone]), new.rid)
    BY <1>1, <1>2, InsertEffect
  <2>2. new.rid \in Nat
    BY DEF Found
  <2>3. ViewLast < new.rid /\ ViewLast' = new.rid
    BY <2>1, <2>2, HighestNew DEF Seen
  <2>4. \A r \in Now(Lone) : r.tag < nextTag /\ r.tag \in Nat
    BY LiveTyped DEF Alone, TagsApart, Now
  <2>5. new.tag \notin {r.tag : r \in Now(Lone)}
    BY <2>1, <2>4 DEF IInv, Types
  <2>6. ViewLast \in Int
    BY HighestTyped DEF Seen
  <2>7. Heap!Added(new)
    BY <2>2, <2>3, <2>6 DEF Heap!Added
  <2>8. Heap!Insert
    BY <2>1, <2>5, <2>7, <1>1 DEF Heap!Insert, Heap!Tags, Seen
  <2> QED BY <2>8, <1>1, <1>2 DEF Heap!Step
<1>3. CASE pc'[Lone] # "rows"
  <2>1. pc'[Lone] = "close" /\ Now(Lone)' = Now(Lone) /\ Table(file', cache'[Lone]) = Table(file, cache[Lone])
    BY <1>1, <1>3, InsertEffect
  <2>2. SameLengths(Table(file, cache[Lone]), Table(file', cache'[Lone]))
    BY <2>1 DEF SameLengths
  <2> QED BY <2>1, <2>2, <1>1, NothingSeen
<1> QED BY <1>2, <1>3

\* A row gives way to its new copy behind all others
LEMMA UpdateSeen ==
  ASSUME IInv, Alone(Lone), Seen, UpdateRow(Lone)
  PROVE  Heap!Step \/ UNCHANGED Heap!heapVars
<1>1. Types /\ Base(Lone) /\ Lone \in Session /\ pc[Lone] = "rows" /\ snap' = snap
  BY DEF Alone, IInv, Seen, UpdateRow, Scanning
<1>2. CASE pc'[Lone] = "rows"
  <2>1. PICK r \in Now(Lone), new \in Found :
          /\ new.tag = r.tag /\ Above(Table(file, cache[Lone]), new.rid)
          /\ Now(Lone)' = (Now(Lone) \ {r}) \cup {new}
          /\ Grown(Table(file, cache[Lone]), Table(file', cache'[Lone]), new.rid)
    BY <1>1, <1>2, UpdateEffect
  <2>2. new.rid \in Nat
    BY DEF Found
  <2>3. ViewLast < new.rid /\ ViewLast' = new.rid
    BY <2>1, <2>2, HighestNew DEF Seen
  <2>4. ViewLast \in Int
    BY HighestTyped DEF Seen
  <2>5. Heap!Added(new)
    BY <2>2, <2>3, <2>4 DEF Heap!Added
  <2>6. Heap!Update
    BY <2>1, <2>5, <1>1 DEF Heap!Update, Seen
  <2> QED BY <2>6, <1>1, <1>2 DEF Heap!Step
<1>3. CASE pc'[Lone] # "rows"
  <2>1. pc'[Lone] = "close" /\ Now(Lone)' = Now(Lone) /\ Table(file', cache'[Lone]) = Table(file, cache[Lone])
    BY <1>1, <1>3, UpdateEffect
  <2>2. SameLengths(Table(file, cache[Lone]), Table(file', cache'[Lone]))
    BY <2>1 DEF SameLengths
  <2> QED BY <2>1, <2>2, <1>1, NothingSeen
<1> QED BY <1>2, <1>3

LEMMA DeleteSeen ==
  ASSUME IInv, Alone(Lone), Seen, DeleteRow(Lone)
  PROVE  Heap!Step
<1>1. /\ Types /\ Base(Lone) /\ Lone \in Session
      /\ pc[Lone] = "rows" /\ pc'[Lone] = "rows" /\ snap' = snap
  BY DEF Alone, IInv, Seen, DeleteRow, Scanning
<1>2. PICK r \in Now(Lone) : Now(Lone)' = Now(Lone) \ {r}
  BY <1>1, DeleteEffect
<1>3. ViewLast' = ViewLast
  BY <1>1, DeleteEffect, HighestSame DEF Seen
<1>4. Heap!Delete
  BY <1>1, <1>2, <1>3 DEF Heap!Delete, Seen
<1> QED BY <1>1, <1>4 DEF Heap!Step

LEMMA TruncateSeen ==
  ASSUME IInv, IInv', Seen, Truncate(Lone)
  PROVE  Heap!Step
<1>1. Lone \in Session /\ pc[Lone] = "rows" /\ pc'[Lone] = "close" /\ snap' = snap
  BY DEF IInv, Types, Seen, Truncate
<1>2. Now(Lone)' = {} /\ \A o \in Nat : Table(file', cache'[Lone])[o] = <<>>
  BY <1>1, TruncateHeap
<1>3. ViewLast' = -1
  <2>1. \A o \in Nat : Len(Table(file', cache'[Lone])[o]) = 0
    BY <1>2
  <2> QED BY <2>1 DEF Seen, Highest
<1>4. Heap!Truncate
  BY <1>1, <1>2, <1>3 DEF Heap!Truncate, Seen
<1> QED BY <1>1, <1>4 DEF Heap!Step


LEMMA OpenSeen ==
  ASSUME HInv, HInv', Seen, NEW st \in Statement, Open(Lone, st)
  PROVE  Heap!Begin
<1>1. IInv /\ IInv' /\ DOMAIN snap = Session /\ Lone \in Session
  BY DEF HInv, LInv, RInv, Seen
<1>2. pc[Lone] = "idle" /\ pc'[Lone] = "rows" /\ UNCHANGED <<file, cache>>
  BY <1>1 DEF Open, IInv, Types
<1>3. DOMAIN cache[Lone] = {} /\ snap'[Lone] = LiveRows(file)
  BY <1>1, OpenHeap
<1>4. Now(Lone) = LiveRows(file) /\ Now(Lone)' = Now(Lone)
  BY <1>1, <1>2, <1>3, BareHeap DEF Now
<1>5. SameLengths(Table(file, cache[Lone]), Table(file', cache'[Lone]))
  BY <1>2 DEF SameLengths
<1>6. ViewLast' = ViewLast
  BY <1>5, HighestSame DEF Seen
<1> QED BY <1>2, <1>3, <1>4, <1>6 DEF Heap!Begin, Seen

LEMMA ReplySeen == ASSUME IInv, Seen, Reply(Lone) PROVE Heap!Answer
<1>1. Lone \in Session /\ Types
  BY DEF IInv, Seen
<1>2. pc[Lone] = "close" /\ pc'[Lone] = "idle" /\ UNCHANGED <<file, cache, snap>>
  BY <1>1 DEF Reply, Done, Types
<1>3. Now(Lone)' = Now(Lone) /\ SameLengths(Table(file, cache[Lone]), Table(file', cache'[Lone]))
  BY <1>2 DEF Now, SameLengths
<1>4. ViewLast' = ViewLast
  BY <1>3, HighestSame DEF Seen
<1> QED BY <1>2, <1>3, <1>4 DEF Heap!Answer, Seen

\* What is left after a crash is on disk: every row the statement has not
\* touched, and no page longer than the session had it
LEMMA CrashSeen == ASSUME HInv, HInv', Seen, Crash PROVE Heap!Crash
<1>1. Lone \in Session /\ IInv /\ IInv' /\ Grows(Lone) /\ HeapOK(Lone)
  BY DEF HInv, LInv, RInv, HeapOK, Seen
<1>2. /\ pc[Lone] # "idle" /\ pc'[Lone] = "idle" /\ DOMAIN cache'[Lone] = {}
      /\ UNCHANGED <<file, snap>>
  BY <1>1 DEF Crash, Seen, NoPages
<1>3. Disclosed(Lone)
  BY <1>1, <1>2 DEF HeapOK
<1>4. Now(Lone)' = LiveRows(file) /\ \A o \in Nat : Table(file', cache'[Lone])[o] = Disk(file, o)
  BY <1>1, <1>2, BareAfter
<1>5. \A o \in Nat : Len(Table(file', cache'[Lone])[o]) <= Len(Table(file, cache[Lone])[o])
  BY <1>1, <1>4 DEF Grows
<1>6. ViewLast' <= ViewLast
  BY <1>5, HighestGrows DEF Seen
<1>7. LiveRows(file) \subseteq Now(Lone) \cup snap[Lone]
  BY <1>3 DEF Disclosed
<1>8. ASSUME NEW r \in Now(Lone) \cup snap[Lone],
             r.tag \notin {q.tag : q \in Now(Lone) \ snap[Lone]},
             r.tag \notin {q.tag : q \in snap[Lone] \ Now(Lone)}
      PROVE  r \in LiveRows(file)
  <2>1. r \in Now(Lone) \cap snap[Lone]
    BY <1>8
  <2> QED BY <2>1, <1>3 DEF Disclosed
<1> QED BY <1>2, <1>4, <1>6, <1>7, <1>8 DEF Heap!Crash, Heap!Touched, Heap!Tags, Seen

LEMMA HeapStep ==
  ASSUME HInv, HInv', OneSession, Session # {}, [Next]_vars
  PROVE  [Heap!HeapNext]_Heap!heapVars
<1>1. Seen
  BY SeesTable
<1>2. IInv /\ IInv' /\ Alone(Lone) /\ Lone \in Session /\ \A s \in Session : s = Lone
  BY <1>1 DEF HInv, LInv, RInv, Seen
<1>3. CASE UNCHANGED vars
  <2>1. UNCHANGED <<file, cache, pc, snap>>
    BY <1>3 DEF vars, local
  <2>2. Now(Lone)' = Now(Lone) /\ SameLengths(Table(file, cache[Lone]), Table(file', cache'[Lone]))
    BY <2>1 DEF Now, SameLengths
  <2> QED BY <2>1, <2>2, <1>1, NothingSeen
<1>4. CASE Crash
  BY <1>1, <1>4, CrashSeen DEF Heap!HeapNext
<1>5. CASE \E st \in Statement : Open(Lone, st)
  BY <1>1, <1>5, OpenSeen DEF Heap!HeapNext
<1>6. CASE Reply(Lone)
  BY <1>1, <1>2, <1>6, ReplySeen DEF Heap!HeapNext
<1>7. CASE InsertNext(Lone) \/ UpdateRow(Lone) \/ DeleteRow(Lone) \/ Truncate(Lone)
  BY <1>1, <1>2, <1>7, InsertSeen, UpdateSeen, DeleteSeen, TruncateSeen DEF Heap!HeapNext
<1>8. CASE \/ SkipRow(Lone) \/ SelectRow(Lone) \/ NextPage(Lone) \/ ScanEnd(Lone) \/ Flush(Lone)
           \/ InsertEnd(Lone)
  BY <1>1, <1>2, <1>8, QuietSeen
<1> QED BY <1>2, <1>3, <1>4, <1>5, <1>6, <1>7, <1>8 DEF Next, RowStep

LEMMA HeapStart == ASSUME Init, Session # {} PROVE Heap!HeapInit
<1>1. HInv /\ Lone \in Session
  BY HInvInit DEF Lone
<1>2. IInv /\ Bounded(cache[Lone])
  BY <1>1 DEF HInv, HeapOK, LInv, RInv
<1>3. file = <<>> /\ pc[Lone] = "idle" /\ snap[Lone] = {} /\ DOMAIN cache[Lone] = {}
  BY <1>1 DEF Init, NoPages
<1>4. LiveRows(file) = {} /\ \A o \in Nat : Disk(file, o) = <<>>
  BY <1>3 DEF LiveRows, Disk
<1>5. LiveRows(View) = {} /\ \A o \in Nat : Table(file, cache[Lone])[o] = <<>>
  BY <1>1, <1>2, <1>3, <1>4, ViewIs, BareHeap
<1>6. \A o \in Nat : Len(Table(file, cache[Lone])[o]) = 0
  BY <1>5
<1>7. ViewLast = -1
  BY <1>1, <1>2, <1>6, ViewIs DEF Highest
<1> QED BY <1>3, <1>5, <1>7 DEF Heap!HeapInit

\* A session that is alone implements the heap of rows, for every page size,
\* every table and every statement: caching, eviction and page-wise writing show
\* only when the process dies, and then touch only what the statement touched.
THEOREM RefinesHeap == OneSession /\ Session # {} => (Spec => ImplementsHeap)
<1> SUFFICES ASSUME OneSession, Session # {} PROVE Spec => ImplementsHeap
  OBVIOUS
<1>1. Init => HInv /\ Heap!HeapInit
  BY HInvInit, HeapStart
<1>2. HInv /\ [Next]_vars => HInv'
  BY HInvNext
<1>3. HInv /\ HInv' /\ [Next]_vars => [Heap!HeapNext]_Heap!heapVars
  BY HeapStep
<1> QED BY <1>1, <1>2, <1>3, PTL DEF Spec, ImplementsHeap, Heap!HeapSpec

=============================================================================
