---------------------------- MODULE RowIdsProofs ----------------------------
(***************************************************************************)
(* Row ids do what page.h says of them as long as every id of the table    *)
(* stays below the bit that marks a deleted row: for the code's widths,    *)
(* up to 2^21 pages.                                                       *)
(***************************************************************************)
EXTENDS RowIds, SequenceTheorems, TLAPS

TableFits == MaxPages * PageSlots <= Flag

\* The id a page numbers its k-th row with
Number(p, k) == (p - 1) * PageSlots + (k - 1)

-----------------------------------------------------------------------------
(* Arithmetic of the ids.                                                   *)

LEMMA TimesMonotone ==
  ASSUME NEW a \in Nat, NEW b \in Nat, NEW s \in Nat, a <= b
  PROVE  a * s <= b * s
OBVIOUS

LEMMA Distributes ==
  ASSUME NEW a \in Nat, NEW s \in Nat
  PROVE  a * s \in Nat /\ (a + 1) * s = a * s + s
OBVIOUS

LEMMA Quotient ==
  ASSUME NEW a \in Nat, NEW s \in Nat \ {0}, NEW r \in 0 .. s - 1
  PROVE  (a * s + r) \div s = a
OBVIOUS

LEMMA Remainder ==
  ASSUME NEW k \in Nat \ {0}, NEW x \in 0 .. k - 1
  PROVE  x % k = x /\ (x + k) % k = x
<1>1. x % k = x
  OBVIOUS
<1>2. (x + k) % k = x
  OBVIOUS
<1> QED BY <1>1, <1>2

LEMMA NumberBound ==
  ASSUME TableFits, NEW p \in 1 .. MaxPages, NEW k \in 1 .. PageSlots
  PROVE  /\ Number(p, k) \in 0 .. Flag - 1
         /\ PageOffset(Number(p, k)) = p - 1
         /\ (p - 1) * PageSlots + k <= Flag
<1>1. /\ MaxPages \in Nat /\ PageSlots \in Nat \ {0} /\ Flag \in Nat
      /\ p - 1 \in Nat /\ k - 1 \in 0 .. PageSlots - 1
  BY WidthAssumption
<1>2. (p - 1) * PageSlots + PageSlots <= Flag
  <2>1. (p - 1 + 1) * PageSlots = (p - 1) * PageSlots + PageSlots
    BY <1>1, Distributes
  <2>2. p * PageSlots <= MaxPages * PageSlots
    BY <1>1, TimesMonotone
  <2>3. p - 1 + 1 = p
    BY <1>1
  <2>4. MaxPages * PageSlots <= Flag
    BY DEF TableFits
  <2>5. (p - 1) * PageSlots \in Nat /\ MaxPages * PageSlots \in Nat
    BY <1>1, Distributes
  <2>6. (p - 1) * PageSlots + PageSlots = p * PageSlots
    BY <2>1, <2>3
  <2> QED BY <1>1, <2>2, <2>4, <2>5, <2>6
<1>3. (p - 1) * PageSlots \in Nat
  BY <1>1, Distributes
<1>4. PageOffset(Number(p, k)) = p - 1
  BY <1>1, Quotient DEF PageOffset, Number
<1>5. Number(p, k) \in 0 .. Flag - 1 /\ (p - 1) * PageSlots + k <= Flag
  <2> DEFINE base == (p - 1) * PageSlots
  <2>1. base \in Nat /\ base + PageSlots <= Flag
    BY <1>2, <1>3
  <2>2. Number(p, k) = base + (k - 1)
    BY DEF Number
  <2> HIDE DEF base
  <2>3. Number(p, k) \in 0 .. Flag - 1 /\ base + k <= Flag
    BY <1>1, <2>1, <2>2
  <2> QED BY <2>3 DEF base
<1> QED BY <1>4, <1>5

\* Numbers follow the order of pages and slots
LEMMA NumberOrder ==
  ASSUME NEW p \in Nat \ {0}, NEW q \in Nat \ {0},
         NEW k \in 1 .. PageSlots, NEW m \in 1 .. PageSlots,
         p < q \/ (p = q /\ k < m)
  PROVE  Number(p, k) < Number(q, m)
<1>1. PageSlots \in Nat /\ p - 1 \in Nat /\ q - 1 \in Nat
  BY WidthAssumption
<1>2. CASE p < q
  <2>1. (p - 1 + 1) * PageSlots <= (q - 1) * PageSlots
    BY <1>1, <1>2, TimesMonotone
  <2>2. (p - 1 + 1) * PageSlots = (p - 1) * PageSlots + PageSlots
    BY <1>1, Distributes
  <2>3. (p - 1) * PageSlots \in Nat /\ (q - 1) * PageSlots \in Nat
    BY <1>1, Distributes
  <2> DEFINE P == (p - 1) * PageSlots
             Q == (q - 1) * PageSlots
  <2>4. P \in Nat /\ Q \in Nat /\ P + PageSlots <= Q
    BY <2>1, <2>2, <2>3
  <2>5. Number(p, k) = P + (k - 1) /\ Number(q, m) = Q + (m - 1)
    BY DEF Number
  <2> HIDE DEF P, Q
  <2> QED BY <1>1, <2>4, <2>5
<1>3. CASE p = q /\ k < m
  <2> DEFINE P == (p - 1) * PageSlots
  <2>1. P \in Nat
    BY <1>1, Distributes
  <2>2. Number(p, k) = P + (k - 1) /\ Number(q, m) = P + (m - 1)
    BY <1>3 DEF Number
  <2> HIDE DEF P
  <2> QED BY <1>1, <1>3, <2>1, <2>2
<1> QED BY <1>2, <1>3

\* and tell the rows of a page apart
LEMMA SameNumber ==
  ASSUME NEW p \in Nat \ {0}, NEW k \in 1 .. PageSlots, NEW m \in 1 .. PageSlots,
         Number(p, k) \in Nat, Number(p, k) = Number(p, m)
  PROVE  k = m
<1>1. k < m => Number(p, k) < Number(p, m)
  BY NumberOrder
<1>2. m < k => Number(p, m) < Number(p, k)
  BY NumberOrder
<1>3. PageSlots \in Nat
  BY WidthAssumption
<1> QED BY <1>1, <1>2, <1>3

-----------------------------------------------------------------------------
(* The inductive invariant: a page numbers its rows without a gap, and the *)
(* ids of exactly its deleted rows carry the flag.                         *)

Shapes ==
  /\ endId \in Seq(Nat)
  /\ info \in Seq(Seq(Nat))
  /\ Len(endId) = Len(info) /\ Len(info) <= MaxPages
  /\ \A p \in 1 .. Len(info) : Len(info[p]) <= MaxRows
  /\ live \subseteq (1 .. Len(info)) \X (1 .. MaxRows)
  /\ \A row \in live : row[2] <= Len(info[row[1]])

Numbered ==
  \A p \in 1 .. Len(info) :
    /\ endId[p] = (p - 1) * PageSlots + Len(info[p])
    /\ \A k \in 1 .. Len(info[p]) :
         info[p][k] = IF <<p, k>> \in live THEN Number(p, k) ELSE Number(p, k) + Flag

IInv == Shapes /\ Numbered

LEMMA InitOK == Init => IInv
<1> SUFFICES ASSUME Init PROVE IInv
  OBVIOUS
<1>1. endId = <<>> /\ info = <<>> /\ live = {} /\ MaxPages \in Nat
  BY WidthAssumption DEF Init
<1>2. Shapes
  BY <1>1 DEF Shapes
<1>3. Numbered
  BY <1>1 DEF Numbered
<1> QED BY <1>2, <1>3 DEF IInv

LEMMA CreatePageOK == ASSUME TableFits, IInv, CreatePage PROVE IInv'
<1> DEFINE n == Len(info)
<1>1. /\ n \in Nat /\ Len(endId) = n /\ n < MaxPages
      /\ endId \in Seq(Nat) /\ info \in Seq(Seq(Nat)) /\ MaxPages \in Nat
      /\ MaxRows \in Nat /\ PageSlots \in Nat \ {0} /\ Flag \in Nat /\ IdSpace = 2 * Flag
  BY WidthAssumption DEF IInv, Shapes, CreatePage
<1>2. BegRowId(n) = n * PageSlots /\ n * PageSlots \in Nat
  <2>1. n + 1 \in 1 .. MaxPages /\ 1 \in 1 .. PageSlots
    BY <1>1
  <2>2. Number(n + 1, 1) \in 0 .. Flag - 1
    BY <2>1, NumberBound
  <2>3. Number(n + 1, 1) = n * PageSlots
    <3>1. n + 1 - 1 = n /\ n * PageSlots \in Nat
      BY <1>1, Distributes
    <3>2. (n + 1 - 1) * PageSlots = n * PageSlots
      BY <3>1
    <3> QED BY <3>1, <3>2 DEF Number
  <2> DEFINE x == n * PageSlots
  <2>4. x \in 0 .. Flag - 1
    BY <2>2, <2>3
  <2>5. BegRowId(n) = x % IdSpace
    BY DEF BegRowId
  <2> HIDE DEF x
  <2>6. IdSpace \in Nat \ {0} /\ x \in 0 .. IdSpace - 1
    BY <1>1, <2>4
  <2>7. x % IdSpace = x
    BY <2>6, Remainder
  <2>8. BegRowId(n) = x /\ x \in Nat
    BY <2>4, <2>5, <2>7
  <2> QED BY <2>8 DEF x
<1>3. /\ endId' = Append(endId, BegRowId(n))
      /\ info' = Append(info, <<>>)
      /\ live' = live
  BY <1>1 DEF CreatePage
<1>4. /\ endId' \in Seq(Nat) /\ info' \in Seq(Seq(Nat))
      /\ Len(endId') = n + 1 /\ Len(info') = n + 1
      /\ \A p \in 1 .. n : info'[p] = info[p] /\ endId'[p] = endId[p]
      /\ info'[n + 1] = <<>> /\ endId'[n + 1] = n * PageSlots
  <2>1. <<>> \in Seq(Nat)
    OBVIOUS
  <2> QED BY <1>1, <1>2, <1>3, <2>1
<1>5. Shapes'
  BY <1>1, <1>3, <1>4 DEF IInv, Shapes
<1>6. Numbered'
  <2> SUFFICES ASSUME NEW p \in 1 .. Len(info')
               PROVE  /\ endId'[p] = (p - 1) * PageSlots + Len(info'[p])
                      /\ \A k \in 1 .. Len(info'[p]) :
                           info'[p][k] = IF <<p, k>> \in live' THEN Number(p, k)
                                         ELSE Number(p, k) + Flag
    BY DEF Numbered
  <2>1. CASE p \in 1 .. n
    <3>1. info'[p] = info[p] /\ endId'[p] = endId[p] /\ p \in 1 .. Len(info)
      BY <1>4, <2>1
    <3>2. endId[p] = (p - 1) * PageSlots + Len(info[p])
      BY <3>1 DEF IInv, Numbered
    <3>3. \A k \in 1 .. Len(info[p]) :
            info[p][k] = IF <<p, k>> \in live THEN Number(p, k) ELSE Number(p, k) + Flag
      BY <3>1 DEF IInv, Numbered
    <3>4. endId'[p] = (p - 1) * PageSlots + Len(info'[p])
      BY <3>1, <3>2, Zenon
    <3>5. \A k \in 1 .. Len(info'[p]) :
            info'[p][k] = IF <<p, k>> \in live' THEN Number(p, k) ELSE Number(p, k) + Flag
      BY <1>3, <3>1, <3>3, Zenon
    <3> QED BY <3>4, <3>5
  <2>2. CASE p = n + 1
    <3>1. p - 1 = n /\ Len(info'[p]) = 0
      BY <1>1, <1>4, <2>2
    <3>2. (p - 1) * PageSlots = n * PageSlots
      BY <3>1
    <3> DEFINE x == n * PageSlots
    <3>3. x \in Nat /\ endId'[p] = x
      BY <1>2, <1>4, <2>2
    <3>4. (p - 1) * PageSlots = x
      BY <3>2
    <3> DEFINE y == (p - 1) * PageSlots
    <3> HIDE DEF x, y
    <3>5. endId'[p] = y + Len(info'[p])
      BY <3>1, <3>3, <3>4 DEF y
    <3>6. \A k \in 1 .. Len(info'[p]) : FALSE
      BY <3>1
    <3> QED BY <3>5, <3>6 DEF y
  <2>3. p \in 1 .. n \/ p = n + 1
    BY <1>1, <1>4
  <2> QED BY <2>1, <2>2, <2>3
<1> QED BY <1>5, <1>6 DEF IInv

LEMMA InsertOK == ASSUME TableFits, IInv, Insert PROVE IInv'
<1> DEFINE n == Len(info)
           m == Len(info[n])
<1>1. /\ n \in Nat \ {0} /\ Len(endId) = n /\ n <= MaxPages
      /\ endId \in Seq(Nat) /\ info \in Seq(Seq(Nat)) /\ MaxPages \in Nat
      /\ MaxRows \in Nat /\ MaxRows <= PageSlots /\ PageSlots \in Nat \ {0}
      /\ Flag \in Nat /\ IdSpace = 2 * Flag
  <2>1. endId # <<>> /\ endId \in Seq(Nat) /\ Len(endId) = n
    BY DEF IInv, Shapes, Insert
  <2>2. n \in Nat \ {0}
    BY <2>1
  <2> QED BY <2>1, <2>2, WidthAssumption DEF IInv, Shapes
<1>2. m < MaxRows /\ m \in Nat /\ info[n] \in Seq(Nat)
  BY <1>1 DEF Insert
<1>3. endId[n] = Number(n, m + 1) /\ endId[n] \in 0 .. Flag - 1
  <2>1. n \in 1 .. MaxPages /\ m + 1 \in 1 .. PageSlots
    BY <1>1, <1>2
  <2>2. endId[n] = (n - 1) * PageSlots + m
    <3>1. n \in 1 .. Len(info)
      BY <1>1
    <3> QED BY <3>1 DEF IInv, Numbered
  <2>3. m + 1 - 1 = m
    BY <1>2
  <2> QED BY <2>1, <2>2, <2>3, NumberBound DEF Number
<1>4. /\ info' = [info EXCEPT ![n] = Append(info[n], endId[n])]
      /\ endId' = [endId EXCEPT ![n] = endId[n] + 1]
      /\ live' = live \cup {<<n, m + 1>>}
  <2>1. (endId[n] + 1) % IdSpace = endId[n] + 1
    <3> DEFINE y == endId[n] + 1
    <3>1. IdSpace \in Nat \ {0} /\ y \in 0 .. IdSpace - 1
      BY <1>1, <1>3
    <3> HIDE DEF y
    <3>2. y % IdSpace = y
      BY <3>1, Remainder
    <3> QED BY <3>2 DEF y
  <2>2. endId' = [endId EXCEPT ![n] = (endId[n] + 1) % IdSpace]
    BY <1>1 DEF Insert
  <2> QED BY <1>1, <2>1, <2>2 DEF Insert
<1>5. /\ endId' \in Seq(Nat) /\ Len(endId') = n
      /\ endId'[n] = endId[n] + 1
      /\ \A p \in 1 .. n : p # n => endId'[p] = endId[p]
  BY <1>1, <1>3, <1>4
<1>6. /\ info' \in Seq(Seq(Nat)) /\ Len(info') = n
      /\ info'[n] = Append(info[n], endId[n])
      /\ \A p \in 1 .. n : p # n => info'[p] = info[p]
  <2>1. Append(info[n], endId[n]) \in Seq(Nat)
    BY <1>2, <1>3
  <2> QED BY <1>1, <1>4, <2>1, SMTT(30)
<1>7. /\ Len(info'[n]) = m + 1 /\ info'[n][m + 1] = endId[n]
      /\ \A k \in 1 .. m : info'[n][k] = info[n][k]
  BY <1>2, <1>3, <1>6
<1>8. Shapes'
  <2>1. ASSUME NEW p \in 1 .. n PROVE Len(info'[p]) <= MaxRows
    <3>1. CASE p = n
      <4>1. m + 1 <= MaxRows
        BY <1>1, <1>2
      <4> QED BY <1>7, <3>1, <4>1
    <3>2. CASE p # n
      BY <1>6, <3>2 DEF IInv, Shapes
    <3> QED BY <3>1, <3>2
  <2>2. live' \subseteq (1 .. n) \X (1 .. MaxRows)
    BY <1>1, <1>2, <1>4, SMTT(30) DEF IInv, Shapes
  <2>3. ASSUME NEW row \in live' PROVE row[2] <= Len(info'[row[1]])
    <3>1. CASE row = <<n, m + 1>>
      BY <1>2, <1>7, <3>1
    <3>2. CASE row \in live /\ row[1] = n
      <4>1. row[2] <= m
        BY <3>2 DEF IInv, Shapes
      <4>2. row[2] \in Nat
        BY <1>1, <3>2 DEF IInv, Shapes
      <4> QED BY <1>2, <1>7, <3>2, <4>1, <4>2
    <3>3. CASE row \in live /\ row[1] # n
      <4>1. row[1] \in 1 .. n /\ row[2] <= Len(info[row[1]])
        BY <3>3 DEF IInv, Shapes
      <4> QED BY <1>6, <3>3, <4>1
    <3> QED BY <1>4, <3>1, <3>2, <3>3
  <2> QED BY <1>1, <1>5, <1>6, <2>1, <2>2, <2>3 DEF Shapes
<1>9. Numbered'
  <2>1. ASSUME NEW p \in 1 .. n, p # n
        PROVE  /\ endId'[p] = (p - 1) * PageSlots + Len(info'[p])
               /\ \A k \in 1 .. Len(info'[p]) :
                    info'[p][k] = IF <<p, k>> \in live' THEN Number(p, k)
                                  ELSE Number(p, k) + Flag
    <3>1. info'[p] = info[p] /\ endId'[p] = endId[p]
      BY <1>5, <1>6, <2>1
    <3>2. \A k : <<p, k>> \in live' <=> <<p, k>> \in live
      BY <1>4, <2>1
    <3> QED BY <3>1, <3>2 DEF IInv, Numbered
  <2>2. endId'[n] = (n - 1) * PageSlots + Len(info'[n])
    <3> DEFINE b == (n - 1) * PageSlots
    <3>1. endId[n] = b + m /\ b \in Nat
      <4>1. n - 1 \in Nat /\ n \in 1 .. Len(info)
        BY <1>1
      <4>2. b \in Nat
        BY <1>1, <4>1, Distributes
      <4>3. endId[n] = b + m
        BY <4>1 DEF IInv, Numbered
      <4> QED BY <4>2, <4>3
    <3> HIDE DEF b
    <3>2. endId[n] + 1 = b + (m + 1)
      BY <1>2, <3>1
    <3> QED BY <1>5, <1>7, <3>2 DEF b
  <2>3. ASSUME NEW k \in 1 .. Len(info'[n])
        PROVE  info'[n][k] = IF <<n, k>> \in live' THEN Number(n, k)
                             ELSE Number(n, k) + Flag
    <3>1. CASE k = m + 1
      BY <1>3, <1>4, <1>7, <3>1
    <3>2. CASE k \in 1 .. m
      <4>1. <<n, k>> \in live' <=> <<n, k>> \in live
        BY <1>2, <1>4, <3>2
      <4>2. info'[n][k] = info[n][k]
        BY <1>7, <3>2
      <4>3. n \in 1 .. Len(info) /\ k \in 1 .. Len(info[n])
        BY <1>1, <3>2
      <4> QED BY <4>1, <4>2, <4>3 DEF IInv, Numbered
    <3> QED BY <1>2, <1>7, <3>1, <3>2
  <2> QED BY <1>1, <1>6, <2>1, <2>2, <2>3 DEF Numbered
<1> QED BY <1>8, <1>9 DEF IInv

LEMMA DeleteOK == ASSUME TableFits, IInv, Delete PROVE IInv'
<1> DEFINE n == Len(info)
<1>1. /\ n \in Nat /\ n <= MaxPages /\ info \in Seq(Seq(Nat)) /\ MaxPages \in Nat
      /\ MaxRows \in Nat /\ MaxRows <= PageSlots /\ PageSlots \in Nat \ {0} /\ Flag \in Nat
  BY WidthAssumption DEF IInv, Shapes
<1>2. PICK row \in live :
        LET rid == IdOf(row[1] - 1, row[2])
            p == PageOffset(rid)
        IN /\ ~Deleted(rid)
           /\ p < Len(info)
           /\ \E k \in Found(p, rid) : info' = [info EXCEPT ![p + 1][k] = Marked(@)]
           /\ live' = live \ {row}
           /\ UNCHANGED endId
  BY DEF Delete
<1> DEFINE a == row[1]
           b == row[2]
           rid == info[a][b]
<1>3. a \in 1 .. n /\ b \in 1 .. Len(info[a]) /\ b \in 1 .. PageSlots /\ row = <<a, b>>
  BY <1>1 DEF IInv, Shapes
<1>4. rid = Number(a, b) /\ rid \in 0 .. Flag - 1 /\ PageOffset(rid) = a - 1
  <2>1. a \in 1 .. MaxPages
    BY <1>1, <1>3
  <2>2. rid = Number(a, b)
    BY <1>3 DEF IInv, Numbered
  <2> QED BY <1>3, <2>1, <2>2, NumberBound
<1>5. IdOf(row[1] - 1, row[2]) = rid
  <2>1. a - 1 + 1 = a
    BY <1>1, <1>3
  <2> QED BY <2>1 DEF IdOf
<1>6. PICK k \in Found(a - 1, rid) : info' = [info EXCEPT ![a - 1 + 1][k] = Marked(@)]
  BY <1>2, <1>4, <1>5
<1>7. k \in 1 .. Len(info[a]) /\ info[a][k] = rid
  <2>1. a - 1 + 1 = a
    BY <1>1, <1>3
  <2> QED BY <1>6, <2>1 DEF Found
<1>8. info' = [info EXCEPT ![a] = [info[a] EXCEPT ![k] = rid + Flag]]
  <2>1. a - 1 + 1 = a
    BY <1>1, <1>3
  <2>2. Marked(rid) = rid + Flag
    BY <1>1, <1>4 DEF Marked, Deleted
  <2> QED BY <1>6, <1>7, <2>1, <2>2
<1>9. k = b
  <2>1. k \in 1 .. PageSlots
    BY <1>1, <1>3, <1>7 DEF IInv, Shapes
  <2>2. rid = Number(a, k)
    <3>1. info[a][k] = IF <<a, k>> \in live THEN Number(a, k) ELSE Number(a, k) + Flag
      BY <1>3, <1>7 DEF IInv, Numbered
    <3>2. Number(a, k) \in Nat
      <4>1. a \in 1 .. MaxPages
        BY <1>1, <1>3
      <4>2. Number(a, k) \in 0 .. Flag - 1
        BY <2>1, <4>1, NumberBound
      <4> QED BY <1>1, <4>2
    <3> QED BY <1>1, <1>4, <1>7, <3>1, <3>2
  <2>3. a \in Nat \ {0} /\ Number(a, k) \in Nat /\ Number(a, k) = Number(a, b)
    BY <1>1, <1>3, <1>4, <2>2, SMTT(30)
  <2> QED BY <1>3, <2>1, <2>3, SameNumber
<1>10. /\ info' \in Seq(Seq(Nat)) /\ Len(info') = n
       /\ Len(info'[a]) = Len(info[a])
       /\ info'[a][b] = rid + Flag
       /\ \A p \in 1 .. n : p # a => info'[p] = info[p]
       /\ \A j \in 1 .. Len(info[a]) : j # b => info'[a][j] = info[a][j]
  <2>1. info[a] \in Seq(Nat)
    BY <1>1, <1>3
  <2> DEFINE page == [info[a] EXCEPT ![b] = rid + Flag]
  <2>2. /\ page \in Seq(Nat) /\ Len(page) = Len(info[a])
        /\ page[b] = rid + Flag
        /\ \A j \in 1 .. Len(info[a]) : j # b => page[j] = info[a][j]
    <3>1. rid + Flag \in Nat
      BY <1>1, <1>4, SMTT(30)
    <3>2. page \in Seq(Nat) /\ Len(page) = Len(info[a])
      BY <1>3, <2>1, <3>1, ExceptSeq
    <3>3. DOMAIN info[a] = 1 .. Len(info[a])
      BY <2>1
    <3> QED BY <1>3, <3>2, <3>3
  <2>3. info' = [info EXCEPT ![a] = page]
    BY <1>8, <1>9
  <2> HIDE DEF page
  <2> QED BY <1>1, <1>3, <2>2, <2>3, SMTT(30)
<1>11. live' = live \ {<<a, b>>} /\ endId' = endId
  BY <1>2, <1>3
<1>12. \A p \in 1 .. n : Len(info'[p]) = Len(info[p])
  BY <1>10
<1>13. Shapes'
  BY <1>1, <1>10, <1>11, <1>12 DEF IInv, Shapes
<1>14. Numbered'
  <2> SUFFICES ASSUME NEW p \in 1 .. n
               PROVE  /\ endId'[p] = (p - 1) * PageSlots + Len(info'[p])
                      /\ \A j \in 1 .. Len(info'[p]) :
                           info'[p][j] = IF <<p, j>> \in live' THEN Number(p, j)
                                         ELSE Number(p, j) + Flag
    BY <1>10 DEF Numbered
  <2>1. endId'[p] = (p - 1) * PageSlots + Len(info'[p])
    BY <1>11, <1>12 DEF IInv, Numbered
  <2>2. ASSUME NEW j \in 1 .. Len(info'[p])
        PROVE  info'[p][j] = IF <<p, j>> \in live' THEN Number(p, j)
                             ELSE Number(p, j) + Flag
    <3>1. j \in 1 .. Len(info[p])
      BY <1>12, <2>2
    <3>2. CASE p = a /\ j = b
      BY <1>4, <1>10, <1>11, <3>2
    <3>3. CASE ~(p = a /\ j = b)
      <4>1. info'[p][j] = info[p][j]
        BY <1>10, <3>1, <3>3
      <4>2. <<p, j>> \in live' <=> <<p, j>> \in live
        BY <1>11, <3>3
      <4> QED BY <3>1, <4>1, <4>2 DEF IInv, Numbered
    <3> QED BY <3>2, <3>3
  <2> QED BY <2>1, <2>2
<1> QED BY <1>13, <1>14 DEF IInv

LEMMA NextOK == ASSUME TableFits, IInv, [Next]_vars PROVE IInv'
<1>1. CASE CreatePage
  BY <1>1, CreatePageOK
<1>2. CASE Insert
  BY <1>2, InsertOK
<1>3. CASE Delete
  BY <1>3, DeleteOK
<1>4. CASE UNCHANGED vars
  BY <1>4 DEF vars, IInv, Shapes, Numbered
<1> QED BY <1>1, <1>2, <1>3, <1>4 DEF Next

\* In a table whose ids stay below the flag (page.cpp: row_id |= 0x80000000),
\* pages number their rows without a gap and exactly the deleted ids are flagged.
THEOREM Inductive == TableFits => (Spec => []IInv)
<1> SUFFICES ASSUME TableFits PROVE Spec => []IInv
  OBVIOUS
<1>1. Init => IInv
  BY InitOK
<1>2. IInv /\ [Next]_vars => IInv'
  BY NextOK
<1> QED BY <1>1, <1>2, PTL DEF Spec

-----------------------------------------------------------------------------
(* What page.h says of row ids.                                             *)

\* The id stored for a row, flagged or not
LEMMA Stored ==
  ASSUME TableFits, IInv, NEW p \in 1 .. Len(info), NEW k \in 1 .. Len(info[p])
  PROVE  /\ p \in 1 .. MaxPages /\ k \in 1 .. PageSlots
         /\ Number(p, k) \in 0 .. Flag - 1
         /\ PageOffset(Number(p, k)) = p - 1
         /\ info[p][k] = IF <<p, k>> \in live THEN Number(p, k) ELSE Number(p, k) + Flag
<1>1. p \in 1 .. MaxPages /\ k \in 1 .. PageSlots
  <2>1. /\ Len(info) <= MaxPages /\ Len(info[p]) <= MaxRows
        /\ MaxRows <= PageSlots /\ MaxRows \in Nat /\ PageSlots \in Nat /\ MaxPages \in Nat
        /\ Len(info) \in Nat /\ Len(info[p]) \in Nat
    BY WidthAssumption DEF IInv, Shapes
  <2> QED BY <2>1
<1>2. info[p][k] = IF <<p, k>> \in live THEN Number(p, k) ELSE Number(p, k) + Flag
  BY DEF IInv, Numbered
<1> QED BY <1>1, <1>2, NumberBound

LEMMA FoundThere == ASSUME TableFits, IInv PROVE LiveRowsFound
<1> SUFFICES ASSUME NEW row \in live
             PROVE  LET rid == IdOf(row[1] - 1, row[2])
                    IN /\ PageOffset(rid) = row[1] - 1
                       /\ Found(row[1] - 1, rid) = {row[2]}
  BY DEF LiveRowsFound
<1> DEFINE a == row[1]
           b == row[2]
           rid == info[a][b]
<1>1. a \in 1 .. Len(info) /\ b \in 1 .. Len(info[a]) /\ <<a, b>> \in live
      /\ Flag \in Nat /\ a - 1 + 1 = a
  <2>1. a \in 1 .. Len(info) /\ b \in 1 .. MaxRows /\ b <= Len(info[a])
        /\ row = <<a, b>> /\ MaxRows \in Nat /\ info \in Seq(Seq(Nat))
    BY WidthAssumption DEF IInv, Shapes
  <2>2. Len(info[a]) \in Nat /\ a \in Nat
    BY <2>1
  <2>3. <<a, b>> \in live
    BY <2>1
  <2>4. b \in 1 .. Len(info[a]) /\ a - 1 + 1 = a
    BY <2>1, <2>2
  <2>5. Flag \in Nat
    BY WidthAssumption
  <2> QED BY <2>1, <2>3, <2>4, <2>5
<1>2. rid = Number(a, b) /\ rid \in 0 .. Flag - 1 /\ PageOffset(rid) = a - 1
      /\ b \in 1 .. PageSlots /\ a \in 1 .. MaxPages
  BY <1>1, Stored
<1>3. IdOf(a - 1, b) = rid
  BY <1>1 DEF IdOf
<1>4. Found(a - 1, rid) = {k \in 1 .. Len(info[a]) : info[a][k] = rid /\ ~Deleted(rid)}
  BY <1>1 DEF Found
<1>5. ~Deleted(rid)
  BY <1>1, <1>2 DEF Deleted
<1>6. ASSUME NEW k \in 1 .. Len(info[a]), info[a][k] = rid PROVE k = b
  <2>1. /\ k \in 1 .. PageSlots /\ Number(a, k) \in 0 .. Flag - 1
        /\ info[a][k] = IF <<a, k>> \in live THEN Number(a, k) ELSE Number(a, k) + Flag
    BY <1>1, Stored
  <2>2. Number(a, k) = Number(a, b)
    BY <1>1, <1>2, <1>6, <2>1
  <2>3. a \in Nat \ {0} /\ Number(a, k) \in Nat
    BY <1>1, <1>2, <2>1, SMTT(30)
  <2>4. k \in 1 .. PageSlots /\ b \in 1 .. PageSlots
    BY <1>2, <2>1
  <2> HIDE DEF a, b
  <2> QED BY <2>2, <2>3, <2>4, SameNumber
<1>7. Found(a - 1, rid) = {b}
  BY <1>1, <1>4, <1>5, <1>6
<1> QED BY <1>2, <1>3, <1>7

LEMMA StayDeleted == ASSUME TableFits, IInv PROVE DeletedStaysDeleted
<1> SUFFICES ASSUME NEW p \in 0 .. (Len(info) - 1), NEW k \in 1 .. Len(info[p + 1]),
                    <<p + 1, k>> \notin live
             PROVE  Deleted(IdOf(p, k))
  BY DEF DeletedStaysDeleted
<1>1. p + 1 \in 1 .. Len(info) /\ Flag \in Nat
  BY WidthAssumption DEF IInv, Shapes
<1>2. info[p + 1][k] = Number(p + 1, k) + Flag /\ Number(p + 1, k) \in 0 .. Flag - 1
  BY <1>1, Stored
<1> QED BY <1>1, <1>2 DEF Deleted, IdOf

LEMMA Ordered == ASSUME TableFits, IInv PROVE IdsIncrease
<1> SUFFICES ASSUME NEW p \in 1 .. Len(info), NEW q \in 1 .. Len(info),
                    NEW k \in 1 .. Len(info[p]), NEW m \in 1 .. Len(info[q]),
                    p < q \/ (p = q /\ k < m)
             PROVE  info[p][k] % Flag < info[q][m] % Flag
  BY DEF IdsIncrease
<1>1. Flag \in Nat
  BY WidthAssumption
<1>2. /\ k \in 1 .. PageSlots /\ Number(p, k) \in 0 .. Flag - 1 /\ p \in 1 .. MaxPages
      /\ info[p][k] = IF <<p, k>> \in live THEN Number(p, k) ELSE Number(p, k) + Flag
  BY Stored
<1>3. /\ m \in 1 .. PageSlots /\ Number(q, m) \in 0 .. Flag - 1 /\ q \in 1 .. MaxPages
      /\ info[q][m] = IF <<q, m>> \in live THEN Number(q, m) ELSE Number(q, m) + Flag
  BY Stored
<1>4. info[p][k] % Flag = Number(p, k)
  <2>1. Flag \in Nat \ {0}
    BY <1>1, <1>2
  <2> QED BY <1>2, <2>1, Remainder
<1>5. info[q][m] % Flag = Number(q, m)
  <2>1. Flag \in Nat \ {0}
    BY <1>1, <1>2
  <2> QED BY <1>3, <2>1, Remainder
<1>6. Number(p, k) < Number(q, m)
  BY <1>2, <1>3, NumberOrder
<1> QED BY <1>4, <1>5, <1>6

\* A row that was inserted and not deleted is found by its id, in the page and
\* the slot it is in (page.h, get_page_from_row_id, search_row).
THEOREM RowsFound == TableFits => (Spec => []LiveRowsFound)
<1> SUFFICES ASSUME TableFits PROVE Spec => []LiveRowsFound
  OBVIOUS
<1>1. IInv => LiveRowsFound
  BY FoundThere
<1> QED BY <1>1, Inductive, PTL

\* No later insert or delete brings a deleted row back (row_id_deleted).
THEOREM NoRowBack == TableFits => (Spec => []DeletedStaysDeleted)
<1> SUFFICES ASSUME TableFits PROVE Spec => []DeletedStaysDeleted
  OBVIOUS
<1>1. IInv => DeletedStaysDeleted
  BY StayDeleted
<1> QED BY <1>1, Inductive, PTL

\* Row ids are increasing and unique over the table (page.h), deleted or not.
THEOREM IdsFollowFile == TableFits => (Spec => []IdsIncrease)
<1> SUFFICES ASSUME TableFits PROVE Spec => []IdsIncrease
  OBVIOUS
<1>1. IInv => IdsIncrease
  BY Ordered
<1> QED BY <1>1, Inductive, PTL
=============================================================================
