-------------------------- MODULE TableSpaceProofs --------------------------
(***************************************************************************)
(* Row ids and the page file, for every page size, set of sessions and set *)
(* of statements.                                                          *)
(***************************************************************************)
EXTENDS TableSpace, FiniteSetTheorems, TLAPS

K == PageCapacity + 1

\* The header of a page accounts for its rows: each took more than
\* 1 / PageSlots of the capacity.
Sound(p) ==
  /\ Len(p.rows) * K <= PageSlots * (PageCapacity - p.free)
  /\ p.free <= PageCapacity

LEMMA Monotone ==
  ASSUME NEW a \in Nat, NEW b \in Nat, NEW c \in Nat, a <= b
  PROVE  a * c <= b * c
<1>1. (b - a) * c >= 0
  OBVIOUS
<1>2. (b - a) * c = b * c - a * c
  OBVIOUS
<1> QED
  BY <1>1, <1>2

\* n rows that take free bytes off a page leave n <= PageSlots
LEMMA SlotArithmetic ==
  ASSUME NEW n \in Nat, NEW free \in Nat,
         n * K <= PageSlots * (PageCapacity - free)
  PROVE  n <= PageSlots
<1>0. PageCapacity \in Nat /\ PageSlots \in Nat /\ PageSlots > 0 /\ K = PageCapacity + 1
  BY PageAssumption DEF K
<1>1. PageSlots * free >= 0
  BY <1>0
<1>2. PageSlots * (PageCapacity - free) = PageSlots * PageCapacity - PageSlots * free
  BY <1>0
<1>3. n * K <= PageSlots * PageCapacity
  <2>1. n * K \in Int /\ PageSlots * PageCapacity \in Int /\ PageSlots * free \in Int
    BY <1>0
  <2> QED BY <1>1, <1>2, <2>1
<1>4. SUFFICES ASSUME n > PageSlots PROVE FALSE
  BY <1>0
<1>5. PageSlots * K <= n * K
  BY <1>0, <1>4, Monotone
<1>6. PageSlots * K = PageSlots * PageCapacity + PageSlots
  BY <1>0
<1> QED
  <2>1. n * K \in Int /\ PageSlots * PageCapacity \in Int /\ PageSlots * K \in Int
    BY <1>0
  <2> QED BY <1>0, <1>3, <1>5, <1>6, <2>1

\* A row of a sound page has one of the PageSlots ids of that page.
LEMMA SlotBound ==
  ASSUME NEW p, p.rows \in Seq(Row), p.free \in Nat, Sound(p)
  PROVE  Len(p.rows) <= PageSlots
<1>1. Len(p.rows) \in Nat
  OBVIOUS
<1> QED
  BY <1>1, SlotArithmetic DEF Sound

\* Row ids of the slots of a page lead back to the page and the slot.
LEMMA RidPage ==
  ASSUME NEW o \in Nat, NEW slot \in 1 .. PageSlots
  PROVE  /\ PageOf(RowId(o, slot)) = o
         /\ SlotOf(RowId(o, slot)) = slot
<1> DEFINE r == slot - 1
           x == o * PageSlots + r
           q == x \div PageSlots
           m == x % PageSlots
<1>1. PageSlots \in Nat /\ PageSlots > 0 /\ r \in 0 .. (PageSlots - 1)
  BY PageAssumption
<1>2. x \in Nat
  BY <1>1
<1>3. q \in Int /\ m \in 0 .. (PageSlots - 1) /\ x = PageSlots * q + m
  BY <1>1, <1>2
<1>4. q = o
  <2> HIDE DEF q, m
  <2>0. o * PageSlots + r = PageSlots * q + m
    BY <1>3 DEF x
  <2>1. CASE q < o
    <3>1. PICK d \in Nat : o = q + 1 + d
      BY <2>1, <1>3
    <3>2. PageSlots + d * PageSlots + r = m
      BY <2>0, <3>1, <1>1, <1>3
    <3>3. d * PageSlots >= 0
      BY <1>1, <3>1
    <3> QED BY <3>2, <3>3, <1>1, <1>3
  <2>2. CASE q > o
    <3>1. PICK d \in Nat : q = o + 1 + d
      BY <2>2, <1>3
    <3>2. r = PageSlots + d * PageSlots + m
      BY <2>0, <3>1, <1>1, <1>3
    <3>3. d * PageSlots >= 0
      BY <1>1, <3>1
    <3> QED BY <3>2, <3>3, <1>1, <1>3
  <2> QED BY <2>1, <2>2, <1>3
<1>5. m = r
  <2> HIDE DEF q, m
  <2> QED BY <1>3, <1>4, <1>1 DEF x
<1> QED
  BY <1>4, <1>5 DEF PageOf, SlotOf, RowId

-----------------------------------------------------------------------------
(***************************************************************************)
(* The inductive invariant.                                                *)
(***************************************************************************)
FileOK ==
  /\ file \in Seq(DiskPage)
  /\ \A i \in 1 .. Len(file) : Sound(file[i]) /\ file[i].next = i

\* A page in memory at offset o is a page made for offset o
PageOK(p, o) == p \in Page /\ Sound(p) /\ p.next = o + 1
CacheOK(c) == DOMAIN c \subseteq Nat /\ \A o \in DOMAIN c : PageOK(c[o], o)

\* Between the end of a file of n pages and a page that will be written, every
\* page is in the cache and will be written too.
Linked(c, n) ==
  \A o \in DOMAIN c : c[o].dirty =>
    \A j \in n .. (o - 1) : j \in DOMAIN c /\ c[j].dirty

\* While rows are being processed, a page behind the end of the file is dirty
Filled(c, n) == \A o \in DOMAIN c : o >= n => c[o].dirty

\* A scan leaves no dirty page behind
Ahead(c, o) == \A x \in DOMAIN c : c[x].dirty => x >= o

SessionOK(s) ==
  /\ CacheOK(cache[s])
  /\ Linked(cache[s], Len(file))
  /\ pc[s] = "rows" => Filled(cache[s], Len(file))
  /\ Scanning(s) => Ahead(cache[s], cur[s])
  /\ pc[s] = "idle" => DOMAIN cache[s] = {}
  /\ (pc[s] = "rows" /\ stmt[s].kind = "truncate") => DOMAIN cache[s] = {}

Types ==
  /\ cache = [s \in Session |-> cache[s]]
  /\ cur \in [Session -> Nat]
  /\ pc \in [Session -> {"idle", "rows", "close"}]
  /\ stmt \in [Session -> Statement]
  /\ todo \in [Session -> Seq(Val)]
  /\ affected \in [Session -> Nat]
  /\ failed \in [Session -> BOOLEAN]
  /\ nextTag \in Nat

IInv == Types /\ FileOK /\ \A s \in Session : SessionOK(s)

\* DELETE without WHERE empties the file under the caches of other sessions
TruncateAlone ==
  (\E st \in Statement : st.kind = "truncate") => \A s, t \in Session : s = t

-----------------------------------------------------------------------------
(***************************************************************************)
(* Pages and caches.                                                       *)
(***************************************************************************)
LEMMA NewPageOK == ASSUME NEW o \in Nat PROVE PageOK(NewPage(o), o)
<1>1. PageCapacity \in Nat /\ PageSlots \in Nat /\ K \in Nat
  BY PageAssumption DEF K
<1>2. Len(<<>>) = 0 /\ <<>> \in Seq(Row)
  OBVIOUS
<1>3. 0 * K <= PageSlots * (PageCapacity - PageCapacity)
  BY <1>1
<1> QED
  BY <1>1, <1>2, <1>3 DEF NewPage, PageOK, Sound, Page

LEMMA ReadPageOK ==
  ASSUME FileOK, NEW o \in Nat, o < Len(file)
  PROVE  PageOK(ReadPage(o), o) /\ ReadPage(o).dirty = FALSE
<1>1. o + 1 \in 1 .. Len(file)
  BY DEF FileOK
<1>2. file[o + 1] \in DiskPage /\ Sound(file[o + 1]) /\ file[o + 1].next = o + 1
  BY <1>1 DEF FileOK
<1> QED
  BY <1>2 DEF ReadPage, PageOK, Sound, Page, DiskPage

LEMMA WithRowOK ==
  ASSUME NEW o \in Nat, NEW p, PageOK(p, o), NEW r \in Row, p.free >= Width[r.val]
  PROVE  PageOK(WithRow(p, r), o) /\ WithRow(p, r).dirty
<1> DEFINE w == Width[r.val]
           n == Len(p.rows)
           q == WithRow(p, r)
<1>1. p \in Page /\ r.val \in Val
  BY DEF PageOK, Row
<1>2. w \in Nat /\ w * PageSlots > PageCapacity /\ PageCapacity \in Nat /\ PageSlots \in Nat
  BY <1>1, PageAssumption
<1>3. n \in Nat /\ p.free \in Nat /\ p.free - w \in Nat
  BY <1>1, <1>2 DEF Page
<1>4. q.rows = Append(p.rows, r) /\ q.free = p.free - w /\ q.next = p.next /\ q.idx = p.idx /\ q.dirty = TRUE
  BY <1>1 DEF WithRow, Page
<1>5. q \in Page
  <2>1. Append(p.rows, r) \in Seq(Row)
    BY <1>1 DEF Page
  <2> QED BY <1>1, <1>3, <2>1 DEF WithRow, Page
<1>6. Len(q.rows) = n + 1
  BY <1>1, <1>4 DEF Page
<1>7. (n + 1) * K <= PageSlots * (PageCapacity - (p.free - w))
  <2> DEFINE a == n * K
             b == PageSlots * (PageCapacity - p.free)
             d == w * PageSlots
  <2>1. K \in Nat /\ K <= d
    BY <1>2 DEF K
  <2>2. (n + 1) * K = a + K
    BY <1>3, <2>1
  <2>3. PageSlots * (PageCapacity - (p.free - w)) = b + d
    BY <1>2, <1>3, SMTT(30)
  <2>4. a <= b
    BY DEF PageOK, Sound
  <2>5. a \in Int /\ b \in Int /\ d \in Int
    BY <1>2, <1>3, <2>1
  <2> HIDE DEF a, b, d
  <2> QED BY <2>1, <2>2, <2>3, <2>4, <2>5
<1>8. p.free - w <= PageCapacity
  BY <1>2, <1>3 DEF PageOK, Sound
<1> QED
  BY <1>4, <1>5, <1>6, <1>7, <1>8 DEF PageOK, Sound

LEMMA WithoutRowOK ==
  ASSUME NEW o \in Nat, NEW p, PageOK(p, o), NEW slot \in 1 .. Len(p.rows)
  PROVE  PageOK(WithoutRow(p, slot), o) /\ WithoutRow(p, slot).dirty
<1> DEFINE rows == [p.rows EXCEPT ![slot].dead = TRUE]
           q == WithoutRow(p, slot)
<1>1. p \in Page
  BY DEF PageOK
<1>2. p.rows \in Seq(Row) /\ p.rows[slot] \in Row
  BY <1>1 DEF Page
<1>3. [p.rows[slot] EXCEPT !.dead = TRUE] \in Row
  BY <1>2 DEF Row
<1>4. rows \in Seq(Row) /\ Len(rows) = Len(p.rows)
  BY <1>2, <1>3
<1>5. q.rows = rows /\ q.free = p.free /\ q.next = p.next /\ q.dirty = TRUE /\ q \in Page
  BY <1>1, <1>4 DEF WithoutRow, Page
<1> QED
  BY <1>4, <1>5 DEF PageOK, Sound

LEMMA PutOK ==
  ASSUME NEW c, CacheOK(c), NEW o \in Nat, NEW p, PageOK(p, o)
  PROVE  /\ CacheOK(Put(c, o, p))
         /\ DOMAIN Put(c, o, p) = DOMAIN c \cup {o}
         /\ Put(c, o, p)[o] = p
         /\ \A x \in DOMAIN c \ {o} : Put(c, o, p)[x] = c[x]
BY DEF CacheOK, Put

LEMMA EraseOK ==
  ASSUME NEW c, CacheOK(c), NEW o
  PROVE  /\ CacheOK(Erase(c, o))
         /\ DOMAIN Erase(c, o) = DOMAIN c \ {o}
         /\ \A x \in DOMAIN c \ {o} : Erase(c, o)[x] = c[x]
BY DEF CacheOK, Erase

LEMMA WriteBackOK ==
  ASSUME FileOK, NEW o \in Nat, NEW p, PageOK(p, o), p.dirty => o <= Len(file)
  PROVE  LET f == WriteBack(o, p) IN
         /\ f \in Seq(DiskPage)
         /\ \A i \in 1 .. Len(f) : Sound(f[i]) /\ f[i].next = i
         /\ Len(f) >= Len(file)
         /\ p.dirty => Len(f) > o
<1>0. Len(file) \in Nat /\ file \in Seq(DiskPage)
  BY DEF FileOK
<1>1. CASE ~p.dirty
  BY <1>1, <1>0 DEF WriteBack, FileOK
<1>2. CASE p.dirty
  <2> DEFINE n == IF o + 1 > Len(file) THEN o + 1 ELSE Len(file)
             g == [i \in 1 .. n |-> IF i = o + 1 THEN OnDisk(p)
                                    ELSE IF i <= Len(file) THEN file[i] ELSE Hole]
  <2>1. WriteBack(o, p) = g
    BY <1>2 DEF WriteBack
  <2>2. n \in Nat /\ n >= Len(file) /\ n > o
    BY <1>0
  <2>3. OnDisk(p) \in DiskPage /\ Sound(OnDisk(p)) /\ OnDisk(p).next = o + 1
    BY DEF PageOK, OnDisk, Page, DiskPage, Sound
  <2>4. \A i \in 1 .. n : g[i] \in DiskPage /\ Sound(g[i]) /\ g[i].next = i
    <3> SUFFICES ASSUME NEW i \in 1 .. n
                 PROVE  g[i] \in DiskPage /\ Sound(g[i]) /\ g[i].next = i
      OBVIOUS
    <3>1. CASE i = o + 1
      BY <3>1, <2>3
    <3>2. CASE i # o + 1
      <4>1. i \in 1 .. Len(file)
        BY <3>2, <1>0, <1>2
      <4> QED BY <4>1, <3>2, <1>0 DEF FileOK
    <3> QED BY <3>1, <3>2
  <2> HIDE DEF n
  <2>5. g \in Seq(DiskPage) /\ Len(g) = n
    <3>1. g \in [1 .. n -> DiskPage]
      BY <2>4
    <3> HIDE DEF g
    <3> QED BY <3>1, <2>2
  <2> HIDE DEF g
  <2> QED BY <2>1, <2>2, <2>4, <2>5
<1> QED BY <1>1, <1>2

-----------------------------------------------------------------------------
(***************************************************************************)
(* Loading, inserting and deleting keep a cache linked to the file.        *)
(***************************************************************************)
\* What a cache owes a file of n pages while rows are processed
Held(c, n) == CacheOK(c) /\ Linked(c, n) /\ Filled(c, n)

LEMMA WithPageOK ==
  ASSUME FileOK, NEW c, Held(c, Len(file)), NEW o \in Nat, CanGet(c, o)
  PROVE  /\ Held(WithPage(c, o), Len(file))
         /\ DOMAIN WithPage(c, o) = DOMAIN c \cup {o}
         /\ \A x \in DOMAIN c : WithPage(c, o)[x] = c[x]
         /\ o \notin DOMAIN c => ~WithPage(c, o)[o].dirty /\ o < Len(file)
<1>1. CASE o \in DOMAIN c
  BY <1>1 DEF WithPage
<1>2. CASE o \notin DOMAIN c
  <2>0. Len(file) \in Nat
    BY DEF FileOK
  <2>1. o < Len(file)
    BY <1>2, <2>0 DEF CanGet, EndOffset
  <2>2. PageOK(ReadPage(o), o) /\ ReadPage(o).dirty = FALSE
    BY <2>1, ReadPageOK
  <2> DEFINE d == Put(c, o, ReadPage(o))
  <2>3. WithPage(c, o) = d
    BY <1>2 DEF WithPage
  <2>4. /\ CacheOK(d)
        /\ DOMAIN d = DOMAIN c \cup {o}
        /\ d[o] = ReadPage(o)
        /\ \A x \in DOMAIN c \ {o} : d[x] = c[x]
    <3>1. CacheOK(c)
      BY DEF Held
    <3> QED BY <2>2, <3>1 DEF Put, CacheOK
  <2>5. \A x \in DOMAIN c : d[x] = c[x]
    BY <1>2, <2>4
  <2> HIDE DEF d
  <2>6. Linked(d, Len(file))
    BY <2>2, <2>4, <2>5 DEF Linked, Held
  <2>7. Filled(d, Len(file))
    BY <2>0, <2>1, <2>4, <2>5 DEF Filled, Held, CacheOK
  <2> QED BY <1>2, <2>1, <2>2, <2>3, <2>4, <2>5, <2>6, <2>7 DEF Held
<1> QED BY <1>1, <1>2

\* get_last_page brings in a page of the file, or makes page 0 of an empty one
LEMMA WithLastPageOK ==
  ASSUME FileOK, NEW c, Held(c, Len(file))
  PROVE  LET e == WithLastPage(c) IN
         /\ CacheOK(e) /\ Linked(e, Len(file))
         /\ \A x \in DOMAIN c : x \in DOMAIN e /\ e[x] = c[x]
         /\ \A x \in DOMAIN e \ DOMAIN c :
              /\ ~e[x].dirty
              /\ x < Len(file) \/ (x = 0 /\ DOMAIN c = {} /\ Len(file) = 0 /\ e[x] = NewPage(0))
<1>0. Len(file) \in Nat /\ (file = <<>> <=> Len(file) = 0)
  BY DEF FileOK
<1>1. CASE file # <<>>
  <2>1. EndOffset \in Nat /\ CanGet(c, EndOffset) /\ EndOffset < Len(file)
    BY <1>0, <1>1 DEF CanGet, EndOffset
  <2>2. WithLastPage(c) = WithPage(c, EndOffset)
    BY <1>1 DEF WithLastPage
  <2> DEFINE e == WithPage(c, EndOffset)
  <2>3. /\ Held(e, Len(file)) /\ DOMAIN e = DOMAIN c \cup {EndOffset}
        /\ \A x \in DOMAIN c : e[x] = c[x]
        /\ EndOffset \notin DOMAIN c => ~e[EndOffset].dirty
    BY <2>1, WithPageOK
  <2>4. WithLastPage(c) = e
    BY <2>2
  <2> HIDE DEF e
  <2> QED BY <2>1, <2>3, <2>4 DEF Held
<1>2. CASE file = <<>> /\ DOMAIN c = {}
  <2> DEFINE e == Put(c, 0, NewPage(0))
  <2>1. WithLastPage(c) = e
    BY <1>2 DEF WithLastPage
  <2>2. CacheOK(e) /\ DOMAIN e = {0} /\ e[0] = NewPage(0)
    <3>1. CacheOK(c) /\ PageOK(NewPage(0), 0)
      BY NewPageOK DEF Held
    <3> QED BY <3>1, <1>2 DEF Put, CacheOK
  <2>3. ~NewPage(0).dirty
    BY DEF NewPage
  <2> HIDE DEF e
  <2>4. Linked(e, Len(file))
    BY <2>2, <2>3 DEF Linked
  <2> QED BY <1>0, <1>2, <2>1, <2>2, <2>3, <2>4
<1>3. CASE file = <<>> /\ DOMAIN c # {}
  BY <1>3 DEF WithLastPage, Held
<1> QED BY <1>1, <1>2, <1>3

\* TableSpace::insert_row keeps the cache linked, and filled when it succeeds
LEMMA InsertOK ==
  ASSUME FileOK, NEW c, Held(c, Len(file)), NEW r \in Row,
         NEW o \in DOMAIN WithLastPage(c), IsLast(WithLastPage(c), o)
  PROVE  LET placed == InsertAt(WithLastPage(c), o, r) IN
         /\ placed.ok \in BOOLEAN
         /\ CacheOK(placed.cache) /\ Linked(placed.cache, Len(file))
         /\ placed.ok => Filled(placed.cache, Len(file))
         /\ \A x \in DOMAIN c :
              /\ x <= o /\ x \in DOMAIN placed.cache
              /\ Len(placed.cache[x].rows) >= Len(c[x].rows)
         /\ \A x \in DOMAIN placed.cache :
              placed.cache[x].dirty => x >= o \/ (x \in DOMAIN c /\ c[x].dirty)
<1> DEFINE e == WithLastPage(c)
           placed == InsertAt(e, o, r)
           n == Len(file)
           w == Width[r.val]
<1>0. n \in Nat /\ PageCapacity \in Nat /\ w \in Nat
  BY PageAssumption DEF FileOK, Row
<1>1. /\ CacheOK(e) /\ Linked(e, n)
      /\ \A x \in DOMAIN c : x \in DOMAIN e /\ e[x] = c[x]
      /\ \A x \in DOMAIN e \ DOMAIN c :
              /\ ~e[x].dirty
              /\ x < n \/ (x = 0 /\ DOMAIN c = {} /\ n = 0 /\ e[x] = NewPage(0))
  BY WithLastPageOK
<1>2. /\ o \in DOMAIN e /\ o \in Nat /\ PageOK(e[o], o) /\ e[o].next = o + 1
      /\ \A x \in DOMAIN e : x <= o /\ x \in Nat
  BY <1>1 DEF IsLast, CacheOK, PageOK
<1>3. o + 1 \notin DOMAIN e
  BY <1>2
<1>4. Linked(c, n) /\ Filled(c, n) /\ CacheOK(c)
  BY DEF Held
\* below o, everything behind the end of the file is dirty
<1>5. \A j \in Nat : n <= j /\ j < o => j \in DOMAIN e /\ e[j].dirty
  <2>1. CASE o < n
    BY <2>1, <1>0, <1>2
  <2>2. CASE o >= n /\ o \in DOMAIN c
    BY <2>2, <1>1, <1>4 DEF Filled, Linked
  <2>3. CASE o >= n /\ o \notin DOMAIN c
    BY <2>3, <1>0, <1>1, <1>2
  <2> QED BY <2>1, <2>2, <2>3, <1>0, <1>2
<1>6. \A x \in DOMAIN e \ {o} : x >= n => e[x].dirty
  BY <1>0, <1>1, <1>2, <1>4 DEF Filled, CacheOK
<1>7. CASE e[o].free >= w
  <2> DEFINE p == WithRow(e[o], r)
             d == Put(e, o, p)
  <2>1. placed = [ok |-> TRUE, off |-> o, cache |-> d]
    BY <1>7 DEF InsertAt
  <2>2. PageOK(p, o) /\ p.dirty
    BY <1>2, <1>7, WithRowOK
  <2>3. /\ CacheOK(d) /\ DOMAIN d = DOMAIN e /\ d[o] = p
        /\ \A x \in DOMAIN e \ {o} : d[x] = e[x]
    <3> HIDE DEF e, p
    <3> QED BY <1>1, <1>2, <2>2 DEF Put, CacheOK
  <2>4. Len(p.rows) >= Len(e[o].rows)
    BY <1>2 DEF WithRow, PageOK, Page
  <2> HIDE DEF d, p, e, placed, n
  <2>5. Linked(d, n)
    <3> SUFFICES ASSUME NEW x \in DOMAIN d, d[x].dirty, NEW j \in n .. (x - 1)
                 PROVE  j \in DOMAIN d /\ d[j].dirty
      BY DEF Linked
    <3>1. CASE x = o
      BY <3>1, <1>0, <1>2, <1>5, <2>3
    <3>2. CASE x # o
      BY <3>2, <1>0, <1>1, <1>2, <2>2, <2>3 DEF Linked
    <3> QED BY <3>1, <3>2
  <2>6. Filled(d, n)
    BY <1>6, <2>2, <2>3 DEF Filled
  <2>7. \A x \in DOMAIN c : Len(d[x].rows) >= Len(c[x].rows)
    <3>1. \A x \in DOMAIN c : Len(c[x].rows) \in Nat
      BY <1>4 DEF CacheOK, PageOK, Page
    <3> QED BY <1>1, <1>2, <2>3, <2>4, <3>1
  <2> QED BY <1>1, <1>2, <2>1, <2>2, <2>3, <2>5, <2>6, <2>7 DEF e, n, placed
<1>8. CASE ~(e[o].free >= w) /\ PageCapacity >= w
  <2> DEFINE p == WithRow(NewPage(o + 1), r)
             d == Put(e, o + 1, p)
  <2>1. placed = [ok |-> TRUE, off |-> o + 1, cache |-> d]
    BY <1>8, <1>2 DEF InsertAt
  <2>2. PageOK(p, o + 1) /\ p.dirty
    BY <1>2, <1>8, WithRowOK, NewPageOK DEF NewPage
  <2>3. /\ CacheOK(d) /\ DOMAIN d = DOMAIN e \cup {o + 1} /\ d[o + 1] = p
        /\ \A x \in DOMAIN e : d[x] = e[x]
    <3> HIDE DEF e, p
    <3>1. o + 1 \in Nat
      BY <1>2
    <3> QED BY <1>1, <1>3, <2>2, <3>1 DEF Put, CacheOK
  <2>4. o >= n => e[o].dirty
    <3>1. CASE o \in DOMAIN c
      BY <3>1, <1>1, <1>4 DEF Filled
    <3>2. CASE o \notin DOMAIN c
      <4>1. e[o] = NewPage(0) => e[o].free = PageCapacity
        BY DEF NewPage
      <4> QED BY <3>2, <4>1, <1>0, <1>1, <1>2, <1>8
    <3> QED BY <3>1, <3>2
  <2> HIDE DEF d, p, e, placed, n
  <2>5. Linked(d, n)
    <3> SUFFICES ASSUME NEW x \in DOMAIN d, d[x].dirty, NEW j \in n .. (x - 1)
                 PROVE  j \in DOMAIN d /\ d[j].dirty
      BY DEF Linked
    <3>1. CASE x = o + 1
      <4>1. j \in Nat /\ n <= j /\ j <= o
        BY <3>1, <1>0, <1>2
      <4> QED BY <4>1, <1>2, <1>5, <2>3, <2>4
    <3>2. CASE x # o + 1
      BY <3>2, <1>1, <2>3 DEF Linked
    <3> QED BY <3>1, <3>2
  <2>6. Filled(d, n)
    BY <1>6, <2>2, <2>3, <2>4 DEF Filled
  <2>7. \A x \in DOMAIN c : Len(d[x].rows) >= Len(c[x].rows)
    <3>1. \A x \in DOMAIN c : Len(c[x].rows) \in Nat
      BY <1>4 DEF CacheOK, PageOK, Page
    <3> QED BY <1>1, <2>3, <3>1
  <2>8. \A x \in DOMAIN d : d[x].dirty => x >= o \/ (x \in DOMAIN c /\ c[x].dirty)
    BY <1>1, <1>2, <2>3
  <2> QED BY <1>1, <1>2, <2>1, <2>3, <2>5, <2>6, <2>7, <2>8 DEF e, n, placed
<1>9. CASE ~(e[o].free >= w) /\ ~(PageCapacity >= w)
  <2> DEFINE d == Put(e, o + 1, NewPage(o + 1))
  <2>1. placed = [ok |-> FALSE, off |-> o + 1, cache |-> d]
    BY <1>9, <1>2 DEF InsertAt
  <2>2. ~NewPage(o + 1).dirty
    BY DEF NewPage
  <2>3. /\ CacheOK(d) /\ DOMAIN d = DOMAIN e \cup {o + 1} /\ d[o + 1] = NewPage(o + 1)
        /\ \A x \in DOMAIN e : d[x] = e[x]
    <3> HIDE DEF e
    <3>1. o + 1 \in Nat
      BY <1>2
    <3> QED BY <1>1, <1>3, <3>1, NewPageOK DEF Put, CacheOK
  <2> HIDE DEF d, e, placed, n
  <2>5. Linked(d, n)
    BY <1>1, <2>2, <2>3 DEF Linked
  <2>7. \A x \in DOMAIN c : Len(d[x].rows) >= Len(c[x].rows)
    <3>1. \A x \in DOMAIN c : Len(c[x].rows) \in Nat
      BY <1>4 DEF CacheOK, PageOK, Page
    <3> QED BY <1>1, <2>3, <3>1
  <2> QED BY <1>1, <1>2, <2>1, <2>2, <2>3, <2>5, <2>7 DEF e, n, placed
<1> QED BY <1>7, <1>8, <1>9

\* TableSpace::delete_row of a row that is in the cache
LEMMA DeleteOK ==
  ASSUME NEW n \in Nat, NEW c, Held(c, n), NEW o \in DOMAIN c,
         NEW slot \in 1 .. Len(c[o].rows)
  PROVE  LET d == DeleteRid(c, RowId(o, slot)) IN
         /\ Held(d, n)
         /\ DOMAIN d = DOMAIN c
         /\ \A x \in DOMAIN d : d[x].dirty => x = o \/ c[x].dirty
<1> DEFINE p == WithoutRow(c[o], slot)
           d == Put(c, o, p)
<1>0. CacheOK(c) /\ Linked(c, n) /\ Filled(c, n) /\ DOMAIN c \subseteq Nat
  BY DEF Held, CacheOK
<1>1. o \in Nat /\ PageOK(c[o], o)
  BY <1>0 DEF CacheOK
<1>2. slot \in 1 .. PageSlots
  <2>1. c[o].rows \in Seq(Row) /\ c[o].free \in Nat /\ Sound(c[o])
    BY <1>1 DEF PageOK, Page
  <2>2. Len(c[o].rows) <= PageSlots
    BY <2>1, SlotBound
  <2>3. Len(c[o].rows) \in Nat /\ PageSlots \in Nat
    BY <2>1, PageAssumption
  <2> QED BY <2>2, <2>3
<1>3. DeleteRid(c, RowId(o, slot)) = d
  BY <1>1, <1>2, RidPage DEF DeleteRid
<1>4. PageOK(p, o) /\ p.dirty
  BY <1>1, WithoutRowOK
<1>5. /\ CacheOK(d) /\ DOMAIN d = DOMAIN c /\ d[o] = p
      /\ \A x \in DOMAIN c \ {o} : d[x] = c[x]
  <2> HIDE DEF p
  <2> QED BY <1>0, <1>1, <1>4 DEF Put, CacheOK
<1> HIDE DEF d, p
<1>6. Linked(d, n)
  <2> SUFFICES ASSUME NEW x \in DOMAIN d, d[x].dirty, NEW j \in n .. (x - 1)
               PROVE  j \in DOMAIN d /\ d[j].dirty
    BY DEF Linked
  <2>1. c[x].dirty
    BY <1>0, <1>5 DEF Filled
  <2> QED BY <2>1, <1>0, <1>4, <1>5 DEF Linked
<1>7. Filled(d, n)
  BY <1>0, <1>4, <1>5 DEF Filled
<1> QED BY <1>3, <1>5, <1>6, <1>7 DEF Held

-----------------------------------------------------------------------------
(***************************************************************************)
(* The steps of a session.                                                 *)
(***************************************************************************)
LEMMA LoadedOK ==
  ASSUME IInv, NEW s \in Session, Scanning(s), CanGet(cache[s], cur[s])
  PROVE  /\ Held(Loaded(s), Len(file))
         /\ cur[s] \in Nat /\ cur[s] \in DOMAIN Loaded(s)
         /\ Ahead(Loaded(s), cur[s])
         /\ PageOK(Current(s), cur[s])
<1>1. FileOK /\ SessionOK(s) /\ cur[s] \in Nat
  BY DEF IInv, Types
<1>2. Held(cache[s], Len(file)) /\ Ahead(cache[s], cur[s])
  BY <1>1 DEF SessionOK, Held, Scanning
<1> DEFINE d == WithPage(cache[s], cur[s])
<1>3. /\ Held(d, Len(file)) /\ DOMAIN d = DOMAIN cache[s] \cup {cur[s]}
      /\ \A x \in DOMAIN cache[s] : d[x] = cache[s][x]
      /\ cur[s] \notin DOMAIN cache[s] => ~d[cur[s]].dirty
  BY <1>1, <1>2, WithPageOK
<1>4. Loaded(s) = d /\ Current(s) = d[cur[s]]
  BY DEF Loaded, Current
<1> HIDE DEF d
<1>5. Ahead(d, cur[s])
  BY <1>1, <1>2, <1>3 DEF Ahead
<1>6. PageOK(d[cur[s]], cur[s])
  BY <1>3 DEF Held, CacheOK
<1> QED BY <1>1, <1>3, <1>4, <1>5, <1>6

LEMMA PassedOK ==
  ASSUME IInv, NEW s \in Session, Scanning(s), CanGet(cache[s], cur[s]), NEW k \in Nat
  PROVE  /\ Held(Passed(s, k), Len(file))
         /\ cur[s] \in DOMAIN Passed(s, k)
         /\ Ahead(Passed(s, k), cur[s])
         /\ Passed(s, k)[cur[s]].rows = Current(s).rows
<1> DEFINE c == Loaded(s)
           o == cur[s]
           p == [Current(s) EXCEPT !.idx = k + 1]
           d == Put(c, o, p)
<1>1. /\ Held(c, Len(file)) /\ o \in Nat /\ o \in DOMAIN c /\ Ahead(c, o)
      /\ PageOK(Current(s), o)
  BY LoadedOK
<1>2. c[o] = Current(s) /\ Passed(s, k) = d
  BY DEF Current, Passed
<1>3. p \in Page /\ p.rows = Current(s).rows /\ p.free = Current(s).free
        /\ p.next = Current(s).next /\ p.dirty = Current(s).dirty
  BY <1>1, SMTT(30) DEF PageOK, Page
<1>4. PageOK(p, o)
  BY <1>1, <1>3 DEF PageOK, Sound
<1> HIDE DEF p, c, o
<1>5. /\ CacheOK(d) /\ DOMAIN d = DOMAIN c /\ d[o] = p
      /\ \A x \in DOMAIN c \ {o} : d[x] = c[x]
  BY <1>1, <1>4 DEF Put, CacheOK, Held
<1> HIDE DEF d
<1>6. \A x \in DOMAIN c : d[x].dirty = c[x].dirty
  BY <1>1, <1>2, <1>3, <1>5
<1>7. Linked(d, Len(file)) /\ Filled(d, Len(file))
  BY <1>1, <1>5, <1>6 DEF Held, Linked, Filled
<1>8. Ahead(d, o)
  BY <1>1, <1>5, <1>6 DEF Ahead
<1> QED BY <1>1, <1>2, <1>3, <1>5, <1>7, <1>8 DEF Held, o

\* A step of s that only lets the file grow leaves the other sessions alone
LEMMA Frame ==
  ASSUME IInv, NEW s \in Session, Types', FileOK', Len(file') >= Len(file), SessionOK(s)',
         \A t \in Session \ {s} :
           cache'[t] = cache[t] /\ cur'[t] = cur[t] /\ pc'[t] = pc[t] /\ stmt'[t] = stmt[t]
  PROVE  IInv'
<1>1. SUFFICES ASSUME NEW t \in Session \ {s} PROVE SessionOK(t)'
  BY DEF IInv
<1>2. SessionOK(t)
  BY DEF IInv
<1>3. Len(file) \in Nat /\ Len(file') \in Nat
  BY DEF IInv, FileOK
<1>4. DOMAIN cache[t] \subseteq Nat
  BY <1>2 DEF SessionOK, CacheOK
<1>5. Linked(cache[t], Len(file'))
  BY <1>2, <1>3 DEF SessionOK, Linked
<1>6. Filled(cache[t], Len(file)) => Filled(cache[t], Len(file'))
  BY <1>3, <1>4 DEF Filled
<1> QED BY <1>2, <1>5, <1>6 DEF SessionOK, Scanning

LEMMA InitOK == Init => IInv
<1> SUFFICES ASSUME Init PROVE IInv
  OBVIOUS
<1>1. Types
  BY StatementAssumption DEF Init, Types
<1>2. FileOK
  BY DEF Init, FileOK
<1>3. \A s \in Session : SessionOK(s)
  <2>1. \A s \in Session : DOMAIN cache[s] = {} /\ pc[s] = "idle"
    BY DEF Init, NoPages
  <2> QED BY <2>1 DEF SessionOK, CacheOK, Linked, Filled, Ahead, Scanning
<1> QED BY <1>1, <1>2, <1>3 DEF IInv

\* The row an INSERT adds
LEMMA RowTyped ==
  ASSUME NEW v \in Val, NEW t \in Nat
  PROVE  [tag |-> t, val |-> v, dead |-> FALSE] \in Row
BY DEF Row

LEMMA InsertNextOK == ASSUME IInv, NEW s \in Session, InsertNext(s) PROVE IInv'
<1>1. FileOK /\ SessionOK(s) /\ Types
  BY DEF IInv
<1> DEFINE r == [tag |-> nextTag, val |-> Head(todo[s]), dead |-> FALSE]
           c == WithLastPage(cache[s])
<1>2. PICK o \in DOMAIN c :
        LET placed == InsertAt(c, o, r) IN
        /\ IsLast(c, o)
        /\ cache' = [cache EXCEPT ![s] = placed.cache]
        /\ todo' = [todo EXCEPT ![s] = Tail(@)]
        /\ pc' = [pc EXCEPT ![s] = IF placed.ok THEN "rows" ELSE "close"]
        /\ failed' = [failed EXCEPT ![s] = ~placed.ok]
  BY DEF InsertNext
<1>3. /\ pc[s] = "rows" /\ stmt[s].kind = "insert" /\ todo[s] # <<>>
      /\ nextTag' = nextTag + 1
      /\ UNCHANGED <<file, cur, stmt, affected, out, snap>>
  BY DEF InsertNext
<1>4. Held(cache[s], Len(file))
  BY <1>1, <1>3 DEF SessionOK, Held
<1>5. todo[s] \in Seq(Val) /\ Head(todo[s]) \in Val /\ Tail(todo[s]) \in Seq(Val) /\ nextTag \in Nat
  BY <1>1, <1>3 DEF Types
<1>6. r \in Row
  BY <1>5, RowTyped
<1> DEFINE placed == InsertAt(c, o, r)
<1>7. /\ placed.ok \in BOOLEAN
      /\ CacheOK(placed.cache) /\ Linked(placed.cache, Len(file))
      /\ placed.ok => Filled(placed.cache, Len(file))
  BY <1>1, <1>2, <1>4, <1>6, InsertOK
<1>8. Types'
  <2> DEFINE d == placed.cache
             ok == placed.ok
  <2>1. /\ cache' = [cache EXCEPT ![s] = d] /\ ok \in BOOLEAN
        /\ pc' = [pc EXCEPT ![s] = IF ok THEN "rows" ELSE "close"]
        /\ failed' = [failed EXCEPT ![s] = ~ok]
        /\ todo' = [todo EXCEPT ![s] = Tail(@)]
    BY <1>2, <1>7
  <2> HIDE DEF d, ok
  <2>2. cache' = [t \in Session |-> cache'[t]]
    BY <2>1, <1>1 DEF Types
  <2>3. pc' \in [Session -> {"idle", "rows", "close"}]
    BY <2>1, <1>1 DEF Types
  <2>4. failed' \in [Session -> BOOLEAN]
    BY <2>1, <1>1 DEF Types
  <2>5. todo' \in [Session -> Seq(Val)]
    BY <2>1, <1>1, <1>5 DEF Types
  <2> QED BY <2>2, <2>3, <2>4, <2>5, <1>1, <1>3, <1>5 DEF Types
<1>9. FileOK' /\ Len(file') >= Len(file)
  BY <1>1, <1>3 DEF FileOK
<1>10. SessionOK(s)'
  <2>1. cache'[s] = placed.cache /\ pc'[s] = (IF placed.ok THEN "rows" ELSE "close")
        /\ stmt'[s].kind = "insert"
    BY <1>1, <1>2, <1>3 DEF Types
  <2> HIDE DEF placed
  <2> QED BY <2>1, <1>3, <1>7 DEF SessionOK, Scanning
<1>11. \A t \in Session \ {s} :
         cache'[t] = cache[t] /\ cur'[t] = cur[t] /\ pc'[t] = pc[t] /\ stmt'[t] = stmt[t]
  BY <1>1, <1>2, <1>3 DEF Types
<1> QED BY <1>8, <1>9, <1>10, <1>11, Frame

LEMMA UpdateRowOK == ASSUME IInv, NEW s \in Session, UpdateRow(s) PROVE IInv'
<1>1. FileOK /\ SessionOK(s) /\ Types
  BY DEF IInv
<1>2. /\ Scanning(s) /\ CanGet(cache[s], cur[s]) /\ stmt[s].kind = "update"
      /\ UNCHANGED <<file, cur, stmt, todo, out, snap, nextTag>>
  BY DEF UpdateRow
<1>3. PICK k \in Indices(s) :
        LET c == WithLastPage(Passed(s, k)) IN
        \E o \in DOMAIN c :
          /\ IsLast(c, o)
          /\ LET merged == [RowAt(s, k) EXCEPT !.val = stmt[s].set]
                 placed == InsertAt(c, o, merged)
             IN /\ cache' = [cache EXCEPT ![s] =
                     IF placed.ok THEN DeleteRid(placed.cache, RidAt(s, k))
                     ELSE placed.cache]
                /\ affected' = [affected EXCEPT ![s] = IF placed.ok THEN @ + 1 ELSE @]
                /\ pc' = [pc EXCEPT ![s] = IF placed.ok THEN "rows" ELSE "close"]
                /\ failed' = [failed EXCEPT ![s] = ~placed.ok]
  BY DEF UpdateRow
<1> DEFINE c == Passed(s, k)
           e == WithLastPage(c)
           slot == SlotAt(Current(s), k)
           merged == [RowAt(s, k) EXCEPT !.val = stmt[s].set]
<1>4. PICK o \in DOMAIN e :
          LET placed == InsertAt(e, o, merged) IN
          /\ IsLast(e, o)
          /\ cache' = [cache EXCEPT ![s] =
                     IF placed.ok THEN DeleteRid(placed.cache, RidAt(s, k))
                     ELSE placed.cache]
          /\ affected' = [affected EXCEPT ![s] = IF placed.ok THEN @ + 1 ELSE @]
          /\ pc' = [pc EXCEPT ![s] = IF placed.ok THEN "rows" ELSE "close"]
          /\ failed' = [failed EXCEPT ![s] = ~placed.ok]
  BY <1>3
<1> DEFINE placed == InsertAt(e, o, merged)
           d == IF placed.ok THEN DeleteRid(placed.cache, RidAt(s, k)) ELSE placed.cache
<1>5. /\ PageOK(Current(s), cur[s]) /\ Current(s).rows \in Seq(Row) /\ cur[s] \in Nat
  BY <1>2, LoadedOK DEF PageOK, Page
<1>6. k \in Nat /\ slot \in 1 .. Len(Current(s).rows)
  BY <1>5 DEF Indices, SlotAt
<1>7. merged \in Row
  <2>1. Current(s).rows[slot] \in Row
    BY <1>5, <1>6
  <2>2. RowAt(s, k) \in Row
    BY <2>1 DEF RowAt
  <2>3. stmt[s].set \in Val
    BY <1>1, StatementAssumption DEF Types
  <2> QED BY <2>2, <2>3 DEF Row
<1>8. /\ Held(c, Len(file)) /\ cur[s] \in DOMAIN c
      /\ Ahead(c, cur[s])
      /\ c[cur[s]].rows = Current(s).rows
  BY <1>2, <1>6, PassedOK
<1>9. /\ placed.ok \in BOOLEAN
      /\ CacheOK(placed.cache) /\ Linked(placed.cache, Len(file))
      /\ placed.ok => Filled(placed.cache, Len(file))
      /\ \A x \in DOMAIN c :
              /\ x <= o /\ x \in DOMAIN placed.cache
              /\ Len(placed.cache[x].rows) >= Len(c[x].rows)
      /\ \A x \in DOMAIN placed.cache :
              placed.cache[x].dirty => x >= o \/ (x \in DOMAIN c /\ c[x].dirty)
  <2> HIDE DEF c, merged
  <2> QED BY <1>1, <1>4, <1>7, <1>8, InsertOK
<1>10. Ahead(placed.cache, cur[s])
  <2>1. o \in Nat
    <3>1. CacheOK(e)
      <4> HIDE DEF c
      <4> QED BY <1>1, <1>8, WithLastPageOK
    <3> HIDE DEF e
    <3> QED BY <3>1 DEF CacheOK
  <2>2. DOMAIN placed.cache \subseteq Nat
    BY <1>9 DEF CacheOK
  <2> HIDE DEF placed, c
  <2> QED BY <2>1, <2>2, <1>5, <1>8, <1>9 DEF Ahead
<1>11. /\ CacheOK(d) /\ Linked(d, Len(file)) /\ Ahead(d, cur[s])
       /\ placed.ok => Filled(d, Len(file))
  <2>1. CASE placed.ok
    <3>0. Len(file) \in Nat
      BY <1>1 DEF FileOK
    <3>1. Held(placed.cache, Len(file)) /\ cur[s] \in DOMAIN placed.cache
      <4> HIDE DEF placed, c
      <4> QED BY <2>1, <1>8, <1>9 DEF Held
    <3>2. slot \in 1 .. Len(placed.cache[cur[s]].rows)
      <4>1. Len(placed.cache[cur[s]].rows) \in Nat
        <5> HIDE DEF placed
        <5> QED BY <3>1, SMTT(30) DEF Held, CacheOK, PageOK, Page
      <4>2. Len(placed.cache[cur[s]].rows) >= Len(Current(s).rows)
        <5> HIDE DEF placed, c
        <5> QED BY <1>8, <1>9
      <4>3. Len(Current(s).rows) \in Nat
        BY <1>5
      <4> HIDE DEF placed, slot
      <4> QED BY <4>1, <4>2, <4>3, <1>6
    <3>3. RidAt(s, k) = RowId(cur[s], slot)
      BY DEF RidAt
    <3> HIDE DEF placed, slot
    <3>4. /\ Held(d, Len(file)) /\ DOMAIN d = DOMAIN placed.cache
          /\ \A x \in DOMAIN d : d[x].dirty => x = cur[s] \/ placed.cache[x].dirty
      BY <2>1, <3>0, <3>1, <3>2, <3>3, DeleteOK
    <3> HIDE DEF d
    <3> QED BY <3>4, <1>5, <1>10 DEF Held, Ahead
  <2>2. CASE ~placed.ok
    <3> HIDE DEF placed
    <3> QED BY <2>2, <1>9, <1>10
  <2> QED BY <2>1, <2>2
<1>12. Types'
  <2> DEFINE ok == placed.ok
  <2>1. /\ cache' = [cache EXCEPT ![s] = d] /\ ok \in BOOLEAN
        /\ pc' = [pc EXCEPT ![s] = IF ok THEN "rows" ELSE "close"]
        /\ failed' = [failed EXCEPT ![s] = ~ok]
        /\ affected' = [affected EXCEPT ![s] = IF ok THEN @ + 1 ELSE @]
    BY <1>4, <1>9
  <2> HIDE DEF d, ok
  <2>2. cache' = [t \in Session |-> cache'[t]]
    BY <2>1, <1>1 DEF Types
  <2>3. pc' \in [Session -> {"idle", "rows", "close"}]
    BY <2>1, <1>1 DEF Types
  <2>4. failed' \in [Session -> BOOLEAN]
    BY <2>1, <1>1 DEF Types
  <2>5. affected' \in [Session -> Nat]
    BY <2>1, <1>1 DEF Types
  <2> QED BY <2>2, <2>3, <2>4, <2>5, <1>1, <1>2 DEF Types
<1>13. FileOK' /\ Len(file') >= Len(file)
  BY <1>1, <1>2 DEF FileOK
<1>14. SessionOK(s)'
  <2>1. cache'[s] = d /\ pc'[s] = (IF placed.ok THEN "rows" ELSE "close")
        /\ stmt'[s].kind = "update"
    <3> HIDE DEF c, e, merged
    <3> QED BY <1>1, <1>2, <1>4 DEF Types
  <2> HIDE DEF placed, d
  <2> QED BY <2>1, <1>2, <1>11 DEF SessionOK, Scanning
<1>15. \A t \in Session \ {s} :
         cache'[t] = cache[t] /\ cur'[t] = cur[t] /\ pc'[t] = pc[t] /\ stmt'[t] = stmt[t]
  <2> HIDE DEF c, e, merged
  <2> QED BY <1>1, <1>2, <1>4 DEF Types
<1> QED BY <1>12, <1>13, <1>14, <1>15, Frame

\* A scan step that only moves the index of the current page
LEMMA PassOK ==
  ASSUME IInv, NEW s \in Session, SkipRow(s) \/ SelectRow(s) PROVE IInv'
<1>1. FileOK /\ SessionOK(s) /\ Types
  BY DEF IInv
<1>2. /\ Scanning(s) /\ CanGet(cache[s], cur[s])
      /\ UNCHANGED <<file, cur, pc, stmt, todo, failed, nextTag>>
      /\ affected' \in [Session -> Nat]
  <2>1. affected \in [Session -> Nat]
    BY <1>1 DEF Types
  <2>2. CASE SkipRow(s)
    BY <2>1, <2>2 DEF SkipRow, local
  <2>3. CASE SelectRow(s)
    <3>1. affected' = [affected EXCEPT ![s] = @ + 1]
      BY <2>3 DEF SelectRow
    <3>2. affected' \in [Session -> Nat]
      BY <2>1, <3>1
    <3> QED BY <2>3, <3>2 DEF SelectRow
  <2> QED BY <2>2, <2>3
<1>3. PICK k \in Indices(s) : cache' = [cache EXCEPT ![s] = Passed(s, k)]
  BY DEF SkipRow, SelectRow
<1>4. k \in Nat
  BY <1>1, <1>2, LoadedOK DEF Indices, PageOK, Page
<1> DEFINE d == Passed(s, k)
<1>5. Held(d, Len(file)) /\ Ahead(d, cur[s])
  BY <1>2, <1>4, PassedOK
<1>6. cache' = [cache EXCEPT ![s] = d]
  BY <1>3
<1> HIDE DEF d
<1>7. Types'
  <2>1. cache' = [t \in Session |-> cache'[t]]
    BY <1>1, <1>6 DEF Types
  <2> QED BY <2>1, <1>1, <1>2 DEF Types
<1>8. FileOK' /\ Len(file') >= Len(file)
  BY <1>1, <1>2 DEF FileOK
<1>9. SessionOK(s)'
  <2>1. cache'[s] = d
    BY <1>1, <1>6 DEF Types
  <2> QED BY <2>1, <1>2, <1>5 DEF SessionOK, Scanning, Held
<1>10. \A t \in Session \ {s} :
         cache'[t] = cache[t] /\ cur'[t] = cur[t] /\ pc'[t] = pc[t] /\ stmt'[t] = stmt[t]
  BY <1>1, <1>2, <1>6 DEF Types
<1> QED BY <1>7, <1>8, <1>9, <1>10, Frame

LEMMA DeleteRowOK == ASSUME IInv, NEW s \in Session, DeleteRow(s) PROVE IInv'
<1>1. FileOK /\ SessionOK(s) /\ Types
  BY DEF IInv
<1>2. /\ Scanning(s) /\ CanGet(cache[s], cur[s])
      /\ UNCHANGED <<file, cur, pc, stmt, todo, failed, nextTag>>
      /\ affected' \in [Session -> Nat]
  BY <1>1 DEF DeleteRow, Types
<1>3. PICK k \in Indices(s) :
        cache' = [cache EXCEPT ![s] = DeleteRid(Passed(s, k), RidAt(s, k))]
  BY DEF DeleteRow
<1> DEFINE slot == SlotAt(Current(s), k)
           c == Passed(s, k)
           d == DeleteRid(c, RowId(cur[s], slot))
<1>4. Current(s).rows \in Seq(Row) /\ cur[s] \in Nat /\ Len(file) \in Nat
  BY <1>1, <1>2, LoadedOK DEF PageOK, Page, FileOK
<1>5. k \in Nat /\ slot \in 1 .. Len(Current(s).rows)
  BY <1>4 DEF Indices, SlotAt
<1>6. /\ Held(c, Len(file)) /\ cur[s] \in DOMAIN c /\ Ahead(c, cur[s])
      /\ c[cur[s]].rows = Current(s).rows
  BY <1>2, <1>5, PassedOK
<1>7. Held(d, Len(file)) /\ Ahead(d, cur[s])
  <2> HIDE DEF c, slot
  <2>1. slot \in 1 .. Len(c[cur[s]].rows)
    BY <1>5, <1>6
  <2>2. /\ Held(d, Len(file)) /\ DOMAIN d = DOMAIN c
        /\ \A x \in DOMAIN d : d[x].dirty => x = cur[s] \/ c[x].dirty
    BY <2>1, <1>4, <1>6, DeleteOK
  <2> HIDE DEF d
  <2> QED BY <2>2, <1>4, <1>6 DEF Ahead
<1>8. cache' = [cache EXCEPT ![s] = d]
  BY <1>3 DEF RidAt
<1> HIDE DEF d
<1>9. Types'
  <2>1. cache' = [t \in Session |-> cache'[t]]
    BY <1>1, <1>8 DEF Types
  <2> QED BY <2>1, <1>1, <1>2 DEF Types
<1>10. FileOK' /\ Len(file') >= Len(file)
  BY <1>1, <1>2, <1>4 DEF FileOK
<1>11. SessionOK(s)'
  <2>1. cache'[s] = d
    BY <1>1, <1>8 DEF Types
  <2> QED BY <2>1, <1>2, <1>7 DEF SessionOK, Scanning, Held
<1>12. \A t \in Session \ {s} :
         cache'[t] = cache[t] /\ cur'[t] = cur[t] /\ pc'[t] = pc[t] /\ stmt'[t] = stmt[t]
  BY <1>1, <1>2, <1>8 DEF Types
<1> QED BY <1>9, <1>10, <1>11, <1>12, Frame

\* The page a scan leaves lies at most at the end of the file when it is
\* dirty: every page between them would be dirty and behind the scan.
LEMMA NextPageOK == ASSUME IInv, NEW s \in Session, NextPage(s) PROVE IInv'
<1>1. FileOK /\ SessionOK(s) /\ Types /\ Len(file) \in Nat
  BY DEF IInv, FileOK
<1> DEFINE c == Loaded(s)
           e == WithLastPage(c)
           o == cur[s]
           d == Erase(e, o)
           f == WriteBack(o, e[o])
           n == Len(file)
<1>2. /\ Scanning(s) /\ CanGet(cache[s], o)
      /\ cache' = [cache EXCEPT ![s] = d]
      /\ file' = f
      /\ cur' = [cur EXCEPT ![s] = e[o].next]
      /\ UNCHANGED <<pc, stmt, todo, affected, failed, out, snap, nextTag>>
  BY DEF NextPage
<1>3. /\ Held(c, n) /\ o \in Nat /\ o \in DOMAIN c /\ Ahead(c, o)
  BY <1>2, LoadedOK
<1>4. /\ CacheOK(e) /\ Linked(e, n)
      /\ \A x \in DOMAIN c : x \in DOMAIN e /\ e[x] = c[x]
      /\ \A x \in DOMAIN e \ DOMAIN c : ~e[x].dirty /\ x < n
  <2> HIDE DEF c
  <2> QED BY <1>1, <1>3, WithLastPageOK
<1>5. PageOK(e[o], o) /\ e[o].next = o + 1 /\ o \in DOMAIN e
  BY <1>3, <1>4 DEF CacheOK, PageOK
<1> HIDE DEF c, e, o
<1>6. Ahead(e, o)
  BY <1>3, <1>4 DEF Ahead
<1>7. e[o].dirty => o <= n
  <2> SUFFICES ASSUME e[o].dirty, o > n PROVE FALSE
    BY <1>1, <1>3
  <2>1. o - 1 \in DOMAIN e /\ e[o - 1].dirty
    BY <1>1, <1>3, <1>4, <1>5 DEF Linked
  <2> QED BY <2>1, <1>3, <1>6 DEF Ahead
<1>8. /\ f \in Seq(DiskPage)
      /\ \A i \in 1 .. Len(f) : Sound(f[i]) /\ f[i].next = i
      /\ Len(f) >= n
      /\ e[o].dirty => Len(f) > o
  BY <1>1, <1>3, <1>5, <1>7, WriteBackOK
<1>9. /\ CacheOK(d) /\ DOMAIN d = DOMAIN e \ {o}
      /\ \A x \in DOMAIN d : d[x] = e[x]
  BY <1>4, EraseOK
<1> HIDE DEF d, f
<1>10. Linked(d, Len(f))
  <2> SUFFICES ASSUME NEW x \in DOMAIN d, d[x].dirty, NEW j \in Len(f) .. (x - 1)
               PROVE  j \in DOMAIN d /\ d[j].dirty
    BY DEF Linked
  <2>1. Len(f) \in Nat
    BY <1>8
  <2>2. j \in DOMAIN e /\ e[j].dirty
    BY <2>1, <1>1, <1>4, <1>8, <1>9 DEF Linked
  <2>3. j # o
    BY <2>1, <2>2, <1>3, <1>8
  <2> QED BY <2>2, <2>3, <1>9
<1>11. Filled(d, Len(f))
  <2> SUFFICES ASSUME NEW x \in DOMAIN d, x >= Len(f) PROVE d[x].dirty
    BY DEF Filled
  <2>1. x \in Nat /\ Len(f) \in Nat
    BY <1>8, <1>9 DEF CacheOK
  <2> QED BY <2>1, <1>1, <1>3, <1>4, <1>8, <1>9 DEF Filled, Held
<1>12. Ahead(d, o + 1)
  <2>1. DOMAIN d \subseteq Nat
    BY <1>9 DEF CacheOK
  <2> QED BY <2>1, <1>3, <1>6, <1>9 DEF Ahead
<1>13. Types'
  <2>1. cache' = [t \in Session |-> cache'[t]]
    BY <1>1, <1>2 DEF Types
  <2>2. cur' \in [Session -> Nat]
    BY <1>1, <1>2, <1>3, <1>5 DEF Types
  <2> QED BY <2>1, <2>2, <1>1, <1>2 DEF Types
<1>14. FileOK' /\ Len(file') >= Len(file)
  BY <1>2, <1>8 DEF FileOK, n
<1>15. SessionOK(s)'
  <2>1. cache'[s] = d /\ cur'[s] = o + 1 /\ file' = f
    BY <1>1, <1>2, <1>5 DEF Types
  <2> QED BY <2>1, <1>2, <1>9, <1>10, <1>11, <1>12 DEF SessionOK, Scanning
<1>16. \A t \in Session \ {s} :
         cache'[t] = cache[t] /\ cur'[t] = cur[t] /\ pc'[t] = pc[t] /\ stmt'[t] = stmt[t]
  BY <1>1, <1>2 DEF Types
<1> QED BY <1>13, <1>14, <1>15, <1>16, Frame

LEMMA ScanEndOK == ASSUME IInv, NEW s \in Session, ScanEnd(s) PROVE IInv'
<1>1. FileOK /\ SessionOK(s) /\ Types
  BY DEF IInv
<1>2. /\ Scanning(s)
      /\ pc' = [pc EXCEPT ![s] = "close"]
      /\ UNCHANGED <<file, cur, stmt, todo, affected, failed, out, snap, nextTag>>
  BY DEF ScanEnd
<1>3. PICK d : /\ cache' = [cache EXCEPT ![s] = d]
               /\ CacheOK(d) /\ Linked(d, Len(file))
  <2>1. CASE UNCHANGED cache
    <3>1. cache' = [cache EXCEPT ![s] = cache[s]]
      BY <2>1, <1>1 DEF Types
    <3> QED BY <3>1, <1>1 DEF SessionOK
  <2>2. CASE CanGet(cache[s], cur[s]) /\ cache' = [cache EXCEPT ![s] = WithLastPage(Loaded(s))]
    <3>1. Held(Loaded(s), Len(file))
      BY <2>2, <1>2, LoadedOK
    <3> QED BY <3>1, <2>2, <1>1, WithLastPageOK
  <2> QED BY <2>1, <2>2 DEF ScanEnd
<1>4. Types'
  <2>1. cache' = [t \in Session |-> cache'[t]]
    BY <1>1, <1>3 DEF Types
  <2> QED BY <2>1, <1>1, <1>2 DEF Types
<1>5. FileOK' /\ Len(file') >= Len(file)
  BY <1>1, <1>2 DEF FileOK
<1>6. SessionOK(s)'
  <2>1. cache'[s] = d /\ pc'[s] = "close"
    BY <1>1, <1>2, <1>3 DEF Types
  <2> QED BY <2>1, <1>2, <1>3 DEF SessionOK, Scanning
<1>7. \A t \in Session \ {s} :
         cache'[t] = cache[t] /\ cur'[t] = cur[t] /\ pc'[t] = pc[t] /\ stmt'[t] = stmt[t]
  BY <1>1, <1>2, <1>3 DEF Types
<1> QED BY <1>4, <1>5, <1>6, <1>7, Frame

\* The lowest page of the cache leaves no gap when it is written
LEMMA FlushOK == ASSUME IInv, NEW s \in Session, Flush(s) PROVE IInv'
<1>1. FileOK /\ SessionOK(s) /\ Types /\ Len(file) \in Nat
  BY DEF IInv, FileOK
<1>2. PICK o \in DOMAIN cache[s] :
        /\ \A x \in DOMAIN cache[s] : o <= x
        /\ file' = WriteBack(o, cache[s][o])
        /\ cache' = [cache EXCEPT ![s] = Erase(@, o)]
  BY DEF Flush
<1> DEFINE c == cache[s]
           d == Erase(c, o)
           f == WriteBack(o, c[o])
           n == Len(file)
<1>3. /\ pc[s] = "close"
      /\ UNCHANGED <<cur, pc, stmt, todo, affected, failed, nextTag>>
  BY DEF Flush, local
<1>4. CacheOK(c) /\ Linked(c, n) /\ o \in Nat /\ PageOK(c[o], o)
  BY <1>1 DEF SessionOK, CacheOK
<1>5. file' = f /\ cache' = [cache EXCEPT ![s] = d]
  BY <1>2
<1> HIDE DEF c
<1>6. \A x \in DOMAIN c : o <= x
  BY <1>2 DEF c
<1>7. c[o].dirty => o <= n
  <2> SUFFICES ASSUME c[o].dirty, o > n PROVE FALSE
    BY <1>1, <1>4
  <2>1. o - 1 \in DOMAIN c
    BY <1>1, <1>2, <1>4 DEF Linked, c
  <2> QED BY <2>1, <1>4, <1>6
<1>8. /\ f \in Seq(DiskPage)
      /\ \A i \in 1 .. Len(f) : Sound(f[i]) /\ f[i].next = i
      /\ Len(f) >= n
      /\ c[o].dirty => Len(f) > o
  BY <1>1, <1>4, <1>7, WriteBackOK
<1>9. /\ CacheOK(d) /\ DOMAIN d = DOMAIN c \ {o}
      /\ \A x \in DOMAIN d : d[x] = c[x]
  BY <1>4, EraseOK
<1> HIDE DEF d, f
<1>10. Linked(d, Len(f))
  <2> SUFFICES ASSUME NEW x \in DOMAIN d, d[x].dirty, NEW j \in Len(f) .. (x - 1)
               PROVE  j \in DOMAIN d /\ d[j].dirty
    BY DEF Linked
  <2>1. Len(f) \in Nat
    BY <1>8
  <2>2. j \in DOMAIN c /\ c[j].dirty
    BY <2>1, <1>1, <1>4, <1>8, <1>9 DEF Linked
  <2>3. j # o
    BY <2>1, <2>2, <1>4, <1>8
  <2> QED BY <2>2, <2>3, <1>9
<1>11. Types'
  <2>1. cache' = [t \in Session |-> cache'[t]]
    BY <1>1, <1>5 DEF Types
  <2> QED BY <2>1, <1>1, <1>3 DEF Types
<1>12. FileOK' /\ Len(file') >= Len(file)
  BY <1>5, <1>8 DEF FileOK, n
<1>13. SessionOK(s)'
  <2>1. cache'[s] = d /\ file' = f /\ pc'[s] = "close"
    BY <1>1, <1>3, <1>5 DEF Types
  <2> QED BY <2>1, <1>9, <1>10 DEF SessionOK, Scanning
<1>14. \A t \in Session \ {s} :
         cache'[t] = cache[t] /\ cur'[t] = cur[t] /\ pc'[t] = pc[t] /\ stmt'[t] = stmt[t]
  BY <1>1, <1>3, <1>5 DEF Types
<1> QED BY <1>11, <1>12, <1>13, <1>14, Frame

LEMMA OpenOK ==
  ASSUME IInv, NEW s \in Session, NEW st \in Statement, Open(s, st) PROVE IInv'
<1>1. FileOK /\ SessionOK(s) /\ Types
  BY DEF IInv
<1>2. /\ pc[s] = "idle"
      /\ pc' = [pc EXCEPT ![s] = "rows"]
      /\ stmt' = [stmt EXCEPT ![s] = st]
      /\ todo' = [todo EXCEPT ![s] = st.vals]
      /\ cur' = [cur EXCEPT ![s] = 0]
      /\ affected' = [affected EXCEPT ![s] = 0]
      /\ failed' = [failed EXCEPT ![s] = FALSE]
      /\ UNCHANGED <<file, cache, nextTag>>
  BY DEF Open
<1>3. Types'
  <2>1. st.vals \in Seq(Val)
    BY StatementAssumption
  <2> QED BY <2>1, <1>1, <1>2 DEF Types
<1>4. FileOK' /\ Len(file') >= Len(file)
  BY <1>1, <1>2 DEF FileOK
<1>5. SessionOK(s)'
  <2>1. DOMAIN cache[s] = {}
    BY <1>1, <1>2 DEF SessionOK
  <2>2. cache' = cache /\ file' = file /\ pc'[s] = "rows" /\ cur'[s] = 0
    BY <1>1, <1>2 DEF Types
  <2> QED BY <2>1, <2>2 DEF SessionOK, Scanning, CacheOK, Linked, Filled, Ahead
<1>6. \A t \in Session \ {s} :
         cache'[t] = cache[t] /\ cur'[t] = cur[t] /\ pc'[t] = pc[t] /\ stmt'[t] = stmt[t]
  BY <1>1, <1>2 DEF Types
<1> QED BY <1>3, <1>4, <1>5, <1>6, Frame

\* The end of an INSERT, and the answer of a statement whose cache is empty
LEMMA EndOK ==
  ASSUME IInv, NEW s \in Session, InsertEnd(s) \/ Reply(s) PROVE IInv'
<1>1. FileOK /\ SessionOK(s) /\ Types
  BY DEF IInv
<1>2. /\ UNCHANGED <<file, cache, cur, stmt, todo, failed, nextTag>>
      /\ \/ pc' = [pc EXCEPT ![s] = "close"]
         \/ pc' = [pc EXCEPT ![s] = "idle"] /\ DOMAIN cache[s] = {}
  BY DEF InsertEnd, Reply, Done
<1>3. affected' \in [Session -> Nat]
  <2>1. CASE InsertEnd(s)
    <3>1. stmt[s].vals \in Seq(Val)
      BY <1>1, StatementAssumption DEF Types
    <3>2. Len(stmt[s].vals) \in Nat
      BY <3>1
    <3>3. affected' = [affected EXCEPT ![s] = Len(stmt[s].vals)]
      BY <2>1 DEF InsertEnd
    <3> QED BY <3>2, <3>3, <1>1 DEF Types
  <2>2. CASE Reply(s)
    BY <2>2, <1>1 DEF Reply, Types
  <2> QED BY <2>1, <2>2
<1>4. Types'
  BY <1>1, <1>2, <1>3 DEF Types
<1>5. FileOK' /\ Len(file') >= Len(file)
  BY <1>1, <1>2 DEF FileOK
<1>6. SessionOK(s)'
  <2>1. pc'[s] = "close" \/ (pc'[s] = "idle" /\ DOMAIN cache[s] = {})
    BY <1>1, <1>2 DEF Types
  <2> QED BY <2>1, <1>1, <1>2 DEF SessionOK, Scanning
<1>7. \A t \in Session \ {s} :
         cache'[t] = cache[t] /\ cur'[t] = cur[t] /\ pc'[t] = pc[t] /\ stmt'[t] = stmt[t]
  BY <1>1, <1>2 DEF Types
<1> QED BY <1>4, <1>5, <1>6, <1>7, Frame

LEMMA TruncateOK ==
  ASSUME IInv, TruncateAlone, NEW s \in Session, Truncate(s) PROVE IInv'
<1>1. FileOK /\ SessionOK(s) /\ Types
  BY DEF IInv
<1>2. /\ pc[s] = "rows" /\ stmt[s].kind = "truncate"
      /\ file' = <<>>
      /\ pc' = [pc EXCEPT ![s] = "close"]
      /\ UNCHANGED <<cache, cur, stmt, todo, affected, failed, out, snap, nextTag>>
  BY DEF Truncate
<1>3. \A t \in Session : t = s
  BY <1>1, <1>2 DEF TruncateAlone, Types
<1>4. Types'
  BY <1>1, <1>2 DEF Types
<1>5. FileOK'
  BY <1>2 DEF FileOK
<1>6. SessionOK(s)'
  <2>1. DOMAIN cache[s] = {} /\ cache' = cache /\ pc'[s] = "close"
    BY <1>1, <1>2 DEF SessionOK, Types
  <2> QED BY <2>1 DEF SessionOK, Scanning, CacheOK, Linked
<1> QED BY <1>3, <1>4, <1>5, <1>6 DEF IInv

LEMMA CrashOK == ASSUME IInv, Crash PROVE IInv'
<1>1. FileOK /\ Types
  BY DEF IInv
<1>2. /\ cache' = [s \in Session |-> NoPages]
      /\ pc' = [s \in Session |-> "idle"]
      /\ UNCHANGED <<file, cur, stmt, todo, affected, failed, out, snap, nextTag>>
  BY DEF Crash
<1>3. Types'
  BY <1>1, <1>2 DEF Types
<1>4. FileOK'
  BY <1>1, <1>2 DEF FileOK
<1>5. \A s \in Session : SessionOK(s)'
  <2> SUFFICES ASSUME NEW s \in Session PROVE SessionOK(s)'
    OBVIOUS
  <2>1. DOMAIN cache'[s] = {} /\ pc'[s] = "idle"
    BY <1>2 DEF NoPages
  <2> QED BY <2>1 DEF SessionOK, CacheOK, Linked, Scanning
<1> QED BY <1>3, <1>4, <1>5 DEF IInv

\* The invariant is inductive
LEMMA NextOK == ASSUME IInv, TruncateAlone, [Next]_vars PROVE IInv'
<1>1. CASE UNCHANGED vars
  BY <1>1 DEF vars, local, IInv, Types, FileOK, SessionOK, Scanning
<1>2. CASE Next
  <2>1. CASE Crash
    BY <2>1, CrashOK
  <2>2. ASSUME NEW s \in Session, NEW st \in Statement, Open(s, st) PROVE IInv'
    BY <2>2, OpenOK
  <2>3. ASSUME NEW s \in Session, RowStep(s) PROVE IInv'
    BY <2>3, InsertNextOK, EndOK, TruncateOK, PassOK, DeleteRowOK, UpdateRowOK,
       NextPageOK, ScanEndOK DEF RowStep
  <2>4. ASSUME NEW s \in Session, Flush(s) \/ Reply(s) PROVE IInv'
    BY <2>4, FlushOK, EndOK
  <2> QED BY <1>2, <2>1, <2>2, <2>3, <2>4 DEF Next
<1> QED BY <1>1, <1>2

-----------------------------------------------------------------------------
(***************************************************************************)
(* The theorems.                                                           *)
(***************************************************************************)
\* The strengthened invariant holds in every reachable state.
THEOREM Inductive == TruncateAlone => (Spec => []IInv)
<1>1. Init => IInv
  BY InitOK
<1>2. TruncateAlone /\ IInv /\ [Next]_vars => IInv'
  BY NextOK
<1> SUFFICES ASSUME TruncateAlone PROVE Spec => []IInv
  OBVIOUS
<1>3. IInv /\ [Next]_vars => IInv'
  BY <1>2
<1> QED BY <1>1, <1>3, PTL DEF Spec

\* Whatever sessions insert, update, evict and write back side by side, and
\* wherever a crash interrupts them, the file is a gapless list of pages that
\* each lead to the next.
THEOREM FileHasNoHoles == TruncateAlone => (Spec => []NoHoles)
<1>1. IInv => NoHoles
  BY DEF IInv, FileOK, NoHoles
<1> QED BY <1>1, Inductive, PTL

\* A page never outgrows the row ids it has: in memory and on disk, its rows
\* number at most PageSlots, so no row id denotes a row of the next page.
THEOREM RowIdsSuffice == TruncateAlone => (Spec => []SlotsSuffice)
<1>1. IInv => SlotsSuffice
  <2> SUFFICES ASSUME IInv PROVE SlotsSuffice
    OBVIOUS
  <2>1. ASSUME NEW i \in 1 .. Len(file) PROVE Len(file[i].rows) <= PageSlots
    <3>1. file[i] \in DiskPage /\ Sound(file[i])
      BY DEF IInv, FileOK
    <3> QED BY <3>1, SlotBound DEF DiskPage
  <2>2. ASSUME NEW s \in Session, NEW o \in DOMAIN cache[s]
        PROVE  Len(cache[s][o].rows) <= PageSlots
    <3>1. cache[s][o] \in Page /\ Sound(cache[s][o])
      BY DEF IInv, SessionOK, CacheOK, PageOK
    <3> QED BY <3>1, SlotBound DEF Page
  <2> QED BY <2>1, <2>2 DEF SlotsSuffice
<1> QED BY <1>1, Inductive, PTL

\* Type correctness, for every set of sessions, values and statements.
THEOREM Typed == TruncateAlone => (Spec => []TypeOK)
<1>1. IInv => TypeOK
  BY DEF IInv, Types, FileOK, SessionOK, CacheOK, PageOK, TypeOK
<1> QED BY <1>1, Inductive, PTL

-----------------------------------------------------------------------------
(***************************************************************************)
(* What a scan returns: no row id twice, whatever other sessions write.    *)
(***************************************************************************)
\* A row returned to the client
Found == [rid : Nat, tag : Nat, val : Val]

\* Row id rid lies behind the scan of s: on an earlier page, or further up
\* the RowInfo array of the page the scan reads.
Behind(s, rid) ==
  \/ PageOf(rid) < cur[s]
  \/ /\ PageOf(rid) = cur[s]
     /\ cur[s] \in DOMAIN cache[s]
     /\ SlotOf(rid) > Len(cache[s][cur[s]].rows) - cache[s][cur[s]].idx

Reading(s) == pc[s] = "rows" /\ stmt[s].kind = "select"

Apart(q) == \A i, j \in 1 .. Len(q) : q[i].rid = q[j].rid => i = j

Returned(s) ==
  /\ Apart(out[s])
  /\ Reading(s) => \A i \in 1 .. Len(out[s]) : Behind(s, out[s][i].rid)

RInv ==
  /\ IInv
  /\ out \in [Session -> Seq(Found)]
  /\ \A s \in Session : Returned(s)

-----------------------------------------------------------------------------
\* The row at index k of the page a scan reads
LEMMA RowOfScan ==
  ASSUME IInv, NEW s \in Session, Scanning(s), CanGet(cache[s], cur[s]),
         NEW k \in Indices(s)
  PROVE  LET slot == SlotAt(Current(s), k) IN
         /\ k \in Nat /\ cur[s] \in Nat /\ Current(s) \in Page
         /\ slot \in 1 .. Len(Current(s).rows) /\ slot \in 1 .. PageSlots
         /\ RowAt(s, k) = Current(s).rows[slot] /\ RowAt(s, k) \in Row
         /\ RidAt(s, k) = RowId(cur[s], slot) /\ RidAt(s, k) \in Nat
         /\ PageOf(RidAt(s, k)) = cur[s] /\ SlotOf(RidAt(s, k)) = slot
<1> DEFINE p == Current(s)
           slot == SlotAt(p, k)
<1>1. PageOK(p, cur[s]) /\ cur[s] \in Nat /\ p \in Page
  BY LoadedOK DEF PageOK
<1>2. p.rows \in Seq(Row) /\ p.free \in Nat /\ Sound(p) /\ Len(p.rows) \in Nat
  BY <1>1 DEF PageOK, Page
<1>3. k \in 0 .. (Len(p.rows) - 1)
  BY DEF Indices
<1> HIDE DEF p
<1>4. k \in Nat /\ slot \in 1 .. Len(p.rows)
  BY <1>2, <1>3 DEF SlotAt
<1>5. Len(p.rows) <= PageSlots /\ PageSlots \in Nat
  BY <1>2, SlotBound, PageAssumption
<1>6. slot \in 1 .. PageSlots
  BY <1>2, <1>4, <1>5
<1>7. RowAt(s, k) = p.rows[slot] /\ p.rows[slot] \in Row
  BY <1>2, <1>4 DEF RowAt, p
<1>8. RidAt(s, k) = RowId(cur[s], slot)
  BY DEF RidAt, p
<1> HIDE DEF slot
<1>9. RowId(cur[s], slot) \in Nat
  <2>1. cur[s] * PageSlots \in Nat
    BY <1>1, <1>5
  <2> QED BY <2>1, <1>6, <1>5 DEF RowId
<1>10. PageOf(RidAt(s, k)) = cur[s] /\ SlotOf(RidAt(s, k)) = slot
  BY <1>1, <1>6, <1>8, RidPage
<1> QED BY <1>1, <1>4, <1>6, <1>7, <1>8, <1>9, <1>10 DEF p, slot

\* What the cache holds of the page a scan reads once the row at k is passed
LEMMA PassedPage ==
  ASSUME IInv, NEW s \in Session, Scanning(s), CanGet(cache[s], cur[s]), NEW k \in Nat
  PROVE  /\ cur[s] \in DOMAIN Passed(s, k)
         /\ Passed(s, k)[cur[s]] = [Current(s) EXCEPT !.idx = k + 1]
         /\ Passed(s, k)[cur[s]].rows = Current(s).rows
         /\ Passed(s, k)[cur[s]].idx = k + 1
<1>1. PageOK(Current(s), cur[s])
  BY LoadedOK
<1>2. [Current(s) EXCEPT !.idx = k + 1].rows = Current(s).rows
      /\ [Current(s) EXCEPT !.idx = k + 1].idx = k + 1
  BY <1>1 DEF PageOK, Page
<1>3. cur[s] \in DOMAIN Passed(s, k)
      /\ Passed(s, k)[cur[s]] = [Current(s) EXCEPT !.idx = k + 1]
  BY DEF Passed, Put
<1> QED BY <1>2, <1>3

\* Passing a row leaves what was behind the scan behind it, and the row too
LEMMA PassedBehind ==
  ASSUME IInv, NEW s \in Session, Scanning(s), CanGet(cache[s], cur[s]),
         NEW k \in Indices(s), AtRow(s, k),
         cache'[s] = Passed(s, k), cur'[s] = cur[s],
         NEW new \in Nat, new = RidAt(s, k)
  PROVE  /\ \A rid \in Nat : Behind(s, rid) => Behind(s, rid)' /\ rid # new
         /\ Behind(s, new)'
<1> DEFINE o == cur[s]
           p == Current(s)
           slot == SlotAt(p, k)
<1>1. /\ k \in Nat /\ o \in Nat /\ p \in Page /\ slot \in 1 .. Len(p.rows)
      /\ PageOf(new) = o /\ SlotOf(new) = slot
  BY RowOfScan
<1>2. /\ o \in DOMAIN cache'[s]
      /\ cache'[s][o].rows = p.rows /\ cache'[s][o].idx = k + 1
  BY <1>1, PassedPage
<1>3. p.rows \in Seq(Row) /\ p.idx \in Nat /\ Len(p.rows) \in Nat
  BY <1>1 DEF Page
<1>4. k \in p.idx .. (Len(p.rows) - 1)
  BY DEF AtRow, NextRowAt
<1>5. slot = Len(p.rows) - k
  BY DEF SlotAt
<1>6. o \in DOMAIN cache[s] => p = cache[s][o]
  BY DEF Current, Loaded, WithPage
<1> HIDE DEF p, slot, o
<1>7. Behind(s, new)'
  <2>1. SlotOf(new) > Len(p.rows) - (k + 1)
    BY <1>1, <1>3, <1>5
  <2> QED BY <2>1, <1>1, <1>2 DEF Behind, o
<1>8. ASSUME NEW rid \in Nat, Behind(s, rid) PROVE Behind(s, rid)' /\ rid # new
  <2>1. CASE PageOf(rid) < o
    <3>1. PageOf(rid) # o
      BY <2>1, <1>1
    <3> QED BY <2>1, <3>1, <1>1 DEF Behind, o
  <2>2. CASE PageOf(rid) = o /\ o \in DOMAIN cache[s] /\ SlotOf(rid) > Len(p.rows) - p.idx
    <3>1. SlotOf(rid) \in Int
      BY PageAssumption DEF SlotOf
    <3>2. SlotOf(rid) > Len(p.rows) - (k + 1) /\ SlotOf(rid) # slot
      BY <2>2, <3>1, <1>1, <1>3, <1>4, <1>5, SMTT(30)
    <3> QED BY <2>2, <3>2, <1>1, <1>2 DEF Behind, o
  <2>3. (PageOf(rid) < o) \/ (PageOf(rid) = o /\ o \in DOMAIN cache[s] /\ SlotOf(rid) > Len(p.rows) - p.idx)
    BY <1>6, <1>8 DEF Behind, o
  <2> QED BY <2>1, <2>2, <2>3
<1> QED BY <1>7, <1>8

-----------------------------------------------------------------------------
(***************************************************************************)
(* No row id is returned twice.                                            *)
(***************************************************************************)
\* A step of s that keeps its rows, and what is behind its scan
LEMMA KeepsReturned ==
  ASSUME RInv, NEW s \in Session, IInv',
         out'[s] = out[s] \/ out'[s] = <<>>,
         Reading(s)' => out'[s] = <<>> \/
           (Reading(s) /\ \A rid \in Nat : Behind(s, rid) => Behind(s, rid)')
  PROVE  Returned(s)'
<1>1. Returned(s) /\ out[s] \in Seq(Found)
  BY DEF RInv
<1>2. Apart(out'[s])
  BY <1>1 DEF Returned, Apart
<1>3. ASSUME Reading(s)', NEW i \in 1 .. Len(out'[s])
      PROVE  \E x \in Nat : x = out'[s][i].rid /\ Behind(s, x)'
  <2>1. CASE out'[s] = <<>>
    BY <2>1, <1>3
  <2>2. CASE out'[s] # <<>>
    <3>1. out'[s] = out[s] /\ Reading(s)
      BY <2>2, <1>3
    <3>2. PICK q \in Seq(Found) : q = out[s]
      BY <1>1
    <3>3. PICK r \in Nat : r = q[i].rid
      <4>1. i \in 1 .. Len(q)
        BY <3>1, <3>2, <1>3
      <4>2. q[i] \in Found
        BY <4>1
      <4> QED BY <4>2 DEF Found
    <3>4. Behind(s, r)
      BY <3>1, <3>2, <3>3, <1>1, <1>3 DEF Returned
    <3>5. Behind(s, r)'
      BY <3>4, <1>3, <2>2
    <3> QED BY <3>1, <3>2, <3>3, <3>5
  <2> QED BY <2>1, <2>2
<1> QED BY <1>2, <1>3 DEF Returned, Behind

\* SELECT returns the next row
LEMMA SelectReturned ==
  ASSUME RInv, NEW s \in Session, SelectRow(s)
  PROVE  out' \in [Session -> Seq(Found)] /\ Returned(s)'
<1>1. IInv /\ Types /\ Returned(s) /\ out \in [Session -> Seq(Found)]
  BY DEF RInv, IInv
<1>2. /\ Scanning(s) /\ CanGet(cache[s], cur[s]) /\ stmt[s].kind = "select"
      /\ UNCHANGED <<cur, pc, stmt>>
  BY DEF SelectRow
<1>3. PICK k \in Indices(s) :
        /\ AtRow(s, k) /\ Selects(s, k)
        /\ cache' = [cache EXCEPT ![s] = Passed(s, k)]
        /\ out' = [out EXCEPT ![s] =
             Append(@, [rid |-> RidAt(s, k), tag |-> RowAt(s, k).tag, val |-> RowAt(s, k).val])]
  BY DEF SelectRow
<1>4. RidAt(s, k) \in Nat /\ RowAt(s, k) \in Row
  BY <1>1, <1>2, RowOfScan
<1>5. PICK r \in Found : r = [rid |-> RidAt(s, k), tag |-> RowAt(s, k).tag, val |-> RowAt(s, k).val]
  BY <1>4 DEF Found, Row
<1>6. PICK new \in Nat : new = RidAt(s, k)
  BY <1>4
<1>7. out' = [out EXCEPT ![s] = Append(@, r)] /\ r.rid = new
  BY <1>3, <1>5, <1>6
<1>8. cache'[s] = Passed(s, k) /\ cur'[s] = cur[s]
  BY <1>1, <1>2, <1>3 DEF Types
<1>9. /\ \A rid \in Nat : Behind(s, rid) => Behind(s, rid)' /\ rid # new
      /\ Behind(s, new)'
  BY <1>1, <1>2, <1>3, <1>6, <1>8, PassedBehind
<1>10. PICK q \in Seq(Found) : q = out[s]
  BY <1>1
<1>11. out'[s] = Append(q, r)
  BY <1>1, <1>7, <1>10
<1>12. /\ Len(Append(q, r)) = Len(q) + 1 /\ Len(q) \in Nat
       /\ \A i \in 1 .. Len(q) : Append(q, r)[i] = q[i]
       /\ Append(q, r)[Len(q) + 1] = r
  OBVIOUS
<1>13. \A i \in 1 .. Len(q) : Behind(s, q[i].rid) /\ q[i].rid \in Nat
  <2>1. Reading(s)
    BY <1>2 DEF Reading, Scanning
  <2>2. \A i \in 1 .. Len(q) : q[i] \in Found
    OBVIOUS
  <2> QED BY <2>1, <2>2, <1>1, <1>10 DEF Returned, Found
<1>14. \A i \in 1 .. Len(q) : q[i].rid # new
  BY <1>9, <1>13
<1>15. Apart(q)
  BY <1>1, <1>10 DEF Returned
<1>16. Apart(out'[s])
  <2> SUFFICES ASSUME NEW i \in 1 .. Len(q) + 1, NEW j \in 1 .. Len(q) + 1,
                      Append(q, r)[i].rid = Append(q, r)[j].rid
               PROVE  i = j
    BY <1>11, <1>12 DEF Apart
  <2>1. CASE i \in 1 .. Len(q) /\ j \in 1 .. Len(q)
    BY <2>1, <1>12, <1>15 DEF Apart
  <2>2. CASE i = Len(q) + 1 /\ j = Len(q) + 1
    BY <2>2
  <2>3. CASE i \in 1 .. Len(q) /\ j = Len(q) + 1
    BY <2>3, <1>7, <1>12, <1>14
  <2>4. CASE i = Len(q) + 1 /\ j \in 1 .. Len(q)
    BY <2>4, <1>7, <1>12, <1>14
  <2> QED BY <2>1, <2>2, <2>3, <2>4, <1>12
<1>17. ASSUME NEW i \in 1 .. Len(out'[s])
       PROVE  \E x \in Nat : x = out'[s][i].rid /\ Behind(s, x)'
  <2>1. CASE i \in 1 .. Len(q)
    <3>1. PICK x \in Nat : x = q[i].rid /\ Behind(s, x)
      BY <2>1, <1>13
    <3>2. Behind(s, x)'
      BY <3>1, <1>9
    <3>3. out'[s][i].rid = x
      BY <2>1, <3>1, <1>11, <1>12
    <3> QED BY <3>2, <3>3
  <2>2. CASE i = Len(q) + 1
    <3>1. out'[s][i].rid = new
      BY <2>2, <1>7, <1>11, <1>12
    <3> QED BY <3>1, <1>9
  <2> QED BY <2>1, <2>2, <1>11, <1>12
<1>18. out' \in [Session -> Seq(Found)]
  <2>1. Append(q, r) \in Seq(Found)
    OBVIOUS
  <2> QED BY <2>1, <1>1, <1>7, <1>10
<1> QED BY <1>16, <1>17, <1>18 DEF Returned, Behind

LEMMA ReturnedInit == Init => RInv
<1> SUFFICES ASSUME Init PROVE RInv
  OBVIOUS
<1>1. IInv
  BY InitOK
<1>2. \A s \in Session : out[s] = <<>>
  BY DEF Init
<1>3. out \in [Session -> Seq(Found)]
  <2>1. <<>> \in Seq(Found)
    OBVIOUS
  <2> QED BY <2>1 DEF Init
<1>4. \A s \in Session : Returned(s)
  BY <1>2 DEF Returned, Apart
<1> QED BY <1>1, <1>3, <1>4 DEF RInv

LEMMA ReturnedNext == ASSUME RInv, TruncateAlone, [Next]_vars PROVE RInv'
<1>1. IInv /\ IInv' /\ Types /\ out \in [Session -> Seq(Found)]
  BY NextOK DEF RInv, IInv
\* a step of s leaves the others alone
<1>2. ASSUME NEW s \in Session, out' \in [Session -> Seq(Found)], Returned(s)',
             \A t \in Session \ {s} :
               /\ cache'[t] = cache[t] /\ cur'[t] = cur[t] /\ pc'[t] = pc[t]
               /\ stmt'[t] = stmt[t] /\ out'[t] = out[t]
      PROVE  RInv'
  <2>1. ASSUME NEW t \in Session \ {s} PROVE Returned(t)'
    <3>1. Returned(t)
      BY DEF RInv
    <3> QED BY <3>1, <1>2 DEF Returned, Reading, Behind
  <2> QED BY <2>1, <1>1, <1>2 DEF RInv
<1>3. CASE UNCHANGED vars
  BY <1>3, <1>1 DEF RInv, vars, local, Returned, Reading, Behind
<1>4. CASE Crash
  <2>1. /\ out' = out
        /\ \A s \in Session : pc'[s] = "idle"
    BY <1>4 DEF Crash
  <2>2. ASSUME NEW s \in Session PROVE Returned(s)'
    <3>1. ~Reading(s)'
      BY <2>1 DEF Reading
    <3> QED BY <2>1, <3>1, KeepsReturned, <1>1
  <2> QED BY <2>1, <2>2, <1>1 DEF RInv
<1>5. ASSUME NEW s \in Session, NEW st \in Statement, Open(s, st) PROVE RInv'
  <2>1. /\ out' = [out EXCEPT ![s] = <<>>]
        /\ \A t \in Session \ {s} :
             /\ cache'[t] = cache[t] /\ cur'[t] = cur[t] /\ pc'[t] = pc[t]
             /\ stmt'[t] = stmt[t] /\ out'[t] = out[t]
    BY <1>1, <1>5 DEF Open, Types
  <2>2. <<>> \in Seq(Found)
    OBVIOUS
  <2>3. out' \in [Session -> Seq(Found)] /\ out'[s] = <<>>
    BY <2>1, <2>2, <1>1
  <2>4. Returned(s)'
    BY <2>3, <1>1, KeepsReturned
  <2> QED BY <2>1, <2>3, <2>4, <1>2
<1>6. ASSUME NEW s \in Session, SelectRow(s) PROVE RInv'
  <2>1. \A t \in Session \ {s} :
             /\ cache'[t] = cache[t] /\ cur'[t] = cur[t] /\ pc'[t] = pc[t]
             /\ stmt'[t] = stmt[t] /\ out'[t] = out[t]
    BY <1>1, <1>6 DEF SelectRow, Types
  <2> QED BY <2>1, <1>2, <1>6, SelectReturned
<1>7. ASSUME NEW s \in Session, SkipRow(s) PROVE RInv'
  <2>1. PICK k \in Indices(s) : AtRow(s, k) /\ cache' = [cache EXCEPT ![s] = Passed(s, k)]
    BY <1>7 DEF SkipRow
  <2>2. Scanning(s) /\ CanGet(cache[s], cur[s]) /\ UNCHANGED <<cur, pc, stmt, out>>
    BY <1>7 DEF SkipRow, local
  <2>3. PICK new \in Nat : new = RidAt(s, k)
    BY <2>2, <1>1, RowOfScan
  <2>4. cache'[s] = Passed(s, k) /\ cur'[s] = cur[s]
    BY <2>1, <2>2, <1>1 DEF Types
  <2>5. \A rid \in Nat : Behind(s, rid) => Behind(s, rid)'
    BY <2>1, <2>2, <2>3, <2>4, <1>1, PassedBehind
  <2>6. Returned(s)'
    BY <2>2, <2>5, <1>1, KeepsReturned DEF Reading
  <2>7. \A t \in Session \ {s} : cache'[t] = cache[t]
    BY <2>1, <1>1 DEF Types
  <2> QED BY <2>2, <2>6, <2>7, <1>1, <1>2
<1>8. ASSUME NEW s \in Session, NextPage(s) PROVE RInv'
  <2> DEFINE e == WithLastPage(Loaded(s))
  <2>1. /\ Scanning(s) /\ CanGet(cache[s], cur[s])
        /\ cache' = [cache EXCEPT ![s] = Erase(e, cur[s])]
        /\ cur' = [cur EXCEPT ![s] = e[cur[s]].next]
        /\ UNCHANGED <<pc, stmt, out>>
    BY <1>8 DEF NextPage
  <2>2. cur'[s] = cur[s] + 1 /\ cur[s] \in Nat
    <3>1. /\ Held(Loaded(s), Len(file)) /\ cur[s] \in DOMAIN Loaded(s)
          /\ PageOK(Current(s), cur[s]) /\ FileOK /\ cur[s] \in Nat
      BY <2>1, <1>1, LoadedOK DEF IInv
    <3>2. e[cur[s]] = Current(s)
      BY <3>1, WithLastPageOK DEF Current
    <3> QED BY <2>1, <3>1, <3>2, <1>1 DEF PageOK, Types
  <2>3. ASSUME NEW rid \in Nat, Behind(s, rid) PROVE Behind(s, rid)'
    <3>1. PageOf(rid) \in Int /\ PageOf(rid) <= cur[s]
      BY <2>2, <2>3, PageAssumption DEF Behind, PageOf
    <3> QED BY <2>2, <3>1 DEF Behind
  <2>4. Returned(s)'
    BY <2>1, <2>3, <1>1, KeepsReturned DEF Reading
  <2>5. \A t \in Session \ {s} : cache'[t] = cache[t] /\ cur'[t] = cur[t]
    BY <2>1, <1>1 DEF Types
  <2> QED BY <2>1, <2>4, <2>5, <1>1, <1>2
\* the rest either is no step of a SELECT or ends its scan
<1>9. ASSUME NEW s \in Session,
             \/ InsertNext(s) \/ InsertEnd(s) \/ Truncate(s) \/ DeleteRow(s) \/ UpdateRow(s)
             \/ ScanEnd(s) \/ Flush(s) \/ Reply(s)
      PROVE  RInv'
  <2>1. out' = out
    BY <1>9 DEF InsertNext, InsertEnd, Truncate, DeleteRow, UpdateRow, ScanEnd, Flush, Reply, local
  <2>2. \A t \in Session \ {s} :
             /\ cache'[t] = cache[t] /\ cur'[t] = cur[t] /\ pc'[t] = pc[t]
             /\ stmt'[t] = stmt[t] /\ out'[t] = out[t]
    <3>1. CASE InsertNext(s) \/ UpdateRow(s)
      BY <3>1, <1>1 DEF InsertNext, UpdateRow, Types
    <3>2. CASE InsertEnd(s) \/ Truncate(s) \/ DeleteRow(s) \/ ScanEnd(s) \/ Flush(s) \/ Reply(s)
      BY <3>2, <1>1 DEF InsertEnd, Truncate, DeleteRow, ScanEnd, Flush, Reply, local, Types
    <3> QED BY <3>1, <3>2, <1>9
  <2>3. ~Reading(s)'
    <3>1. CASE InsertNext(s) \/ Truncate(s) \/ InsertEnd(s)
      BY <3>1, <1>1 DEF InsertNext, Truncate, InsertEnd, Reading, Types
    <3>2. CASE DeleteRow(s) \/ UpdateRow(s)
      BY <3>2, <1>1 DEF DeleteRow, UpdateRow, Reading, Types
    <3>3. CASE ScanEnd(s) \/ Reply(s)
      BY <3>3, <1>1 DEF ScanEnd, Reply, Reading, Types
    <3>4. CASE Flush(s)
      BY <3>4, <1>1 DEF Flush, Reading, Types, local
    <3> QED BY <3>1, <3>2, <3>3, <3>4, <1>9
  <2>4. Returned(s)'
    BY <2>1, <2>3, <1>1, KeepsReturned
  <2> QED BY <2>1, <2>2, <2>4, <1>1, <1>2
<1> QED BY <1>3, <1>4, <1>5, <1>6, <1>7, <1>8, <1>9 DEF Next, RowStep

\* A scan never hands out the same row id twice, whatever the other sessions
\* insert, delete, update and write back under it.
THEOREM ReturnsOnce == TruncateAlone => (Spec => []NoRowReturnedTwice)
<1>1. Init => RInv
  BY ReturnedInit
<1>2. TruncateAlone /\ RInv /\ [Next]_vars => RInv'
  BY ReturnedNext
<1>3. RInv => NoRowReturnedTwice
  BY DEF RInv, Returned, Apart, NoRowReturnedTwice
<1> SUFFICES ASSUME TruncateAlone PROVE Spec => []NoRowReturnedTwice
  OBVIOUS
<1>4. RInv /\ [Next]_vars => RInv'
  BY <1>2
<1> QED BY <1>1, <1>3, <1>4, PTL DEF Spec
=============================================================================
