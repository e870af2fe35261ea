------------------------- MODULE BufferCacheProofs -------------------------
(***************************************************************************)
(* The two caches of a connection, for every capacity, block and packets.  *)
(* The write cache neither loses nor reorders a byte and implements a FIFO *)
(* queue, up to an overrun or a look that leaves its buffer, and a look    *)
(* leaves it only if a write falls between the reads of its length.  The   *)
(* read cache hands every command over whole, in order and as soon as it   *)
(* is there.                                                               *)
(***************************************************************************)
EXTENDS BufferCacheRefinement, PacketReader, SequenceTheorems, FiniteSetTheorems,
        WellFoundedInduction, TLAPS

\* BufferCacheBase::size for any two positions
Between(h, t) == IF h <= t THEN t - h ELSE t + Capacity - h

LEMMA SizeIs == Size = Between(head, tail)
BY DEF Size, SizeOf, Between

-----------------------------------------------------------------------------
(* Positions and cells.                                                     *)

LEMMA SizeBound ==
  ASSUME NEW h \in 0 .. Capacity, NEW t \in 0 .. Capacity
  PROVE  Between(h, t) \in 0 .. Capacity
BY SizeAssumption DEF Between

\* A write moves tail, and size grows by its length unless it meets head
LEMMA AdvanceTail ==
  ASSUME NEW h \in 0 .. Capacity, NEW t \in 0 .. Capacity,
         NEW n \in Nat \ {0}, n <= Capacity - Between(h, t)
  PROVE  /\ Advance(t, n) \in 0 .. Capacity
         /\ Advance(t, n) # h => Between(h, Advance(t, n)) = Between(h, t) + n
BY SizeAssumption DEF Between, Advance

\* A read moves head, and size shrinks by its length
LEMMA AdvanceHead ==
  ASSUME NEW h \in 0 .. Capacity, NEW t \in 0 .. Capacity,
         NEW n \in Nat, n <= Between(h, t)
  PROVE  /\ Advance(h, n) \in 0 .. Capacity
         /\ Between(Advance(h, n), t) = Between(h, t) - n
         /\ \A i \in Nat : i < Between(h, t) - n => Slot(Advance(h, n), i) = Slot(h, i + n)
BY SizeAssumption DEF Between, Advance, Slot

LEMMA SlotCell ==
  ASSUME NEW at \in 0 .. Capacity, NEW i \in Nat, i < Capacity
  PROVE  Slot(at, i) \in 0 .. Capacity - 1
BY SizeAssumption DEF Slot

\* The cells of the content are not those a write fills; those follow it
LEMMA Disjoint ==
  ASSUME NEW h \in 0 .. Capacity, NEW t \in 0 .. Capacity,
         NEW n \in Nat, n <= Capacity - Between(h, t),
         NEW i \in Nat, i < Between(h, t) + n
  PROVE  /\ i < Between(h, t) => Behind(t, Slot(h, i)) >= n
         /\ i >= Between(h, t) => Behind(t, Slot(h, i)) = i - Between(h, t)
BY SizeAssumption DEF Between, Slot, Behind

-----------------------------------------------------------------------------
(* The inductive invariant.                                                 *)

Types ==
  /\ ring \in [0 .. Capacity - 1 -> Nat]
  /\ head \in 0 .. Capacity /\ tail \in 0 .. Capacity
  /\ written \in Nat /\ overrun \in BOOLEAN
  /\ pc \in {"idle", "first", "again", "second", "sized", "copied", "sent", "spilled"}
  /\ seen \in 0 .. Capacity /\ raced \in BOOLEAN /\ len \in Int
  /\ peek \in Seq(Nat) /\ client \in Seq(Nat)
  /\ pc \in {"copied", "sent"} => len \in Copyable
  /\ pc = "copied" => Len(peek) = len

\* What write_socket has in hand is the front of the content; while it reads
\* the length, a tail that was behind head still is
Looked ==
  /\ pc \in {"first", "second"} /\ seen < head => tail < head
  /\ pc \in {"sized", "copied", "sent"} => len <= Size
  /\ pc = "copied" => \A i \in 1 .. len : peek[i] = Len(client) + i

\* What the reads of a length have in common that no write came between
Unraced ==
  ~raced =>
    /\ pc = "first" => seen = tail
    /\ pc = "again" => Size < Block
    /\ pc = "second" => seen = tail /\ Size < Block
    /\ pc = "sized" => len \in Copyable
    /\ pc # "spilled"

IInv == Types /\ Unraced /\ (~overrun => InOrder /\ Looked)

LEMMA InitOK == Init => IInv
<1> SUFFICES ASSUME Init PROVE IInv
  OBVIOUS
<1>1. Capacity \in Nat /\ Block \in Nat
  BY SizeAssumption
<1>2. Size = 0
  BY DEF Init, Size, SizeOf
<1>3. Types
  <2>1. <<>> \in Seq(Nat)
    OBVIOUS
  <2>2. ring \in [0 .. Capacity - 1 -> Nat]
    BY DEF Init
  <2>3. peek = <<>> /\ client = <<>> /\ pc = "idle" /\ overrun = FALSE
    BY DEF Init
  <2>4. peek \in Seq(Nat) /\ client \in Seq(Nat)
    BY <2>1, <2>3
  <2>5. /\ head \in 0 .. Capacity /\ tail \in 0 .. Capacity /\ written \in Nat
        /\ len \in Int /\ seen \in 0 .. Capacity
    BY <1>1 DEF Init
  <2>7. raced \in BOOLEAN
    BY DEF Init
  <2>6. /\ pc \in {"idle", "first", "again", "second", "sized", "copied", "sent", "spilled"}
        /\ overrun \in BOOLEAN /\ pc \notin {"copied", "sent"}
    BY <2>3
  <2> QED BY <2>2, <2>4, <2>5, <2>6, <2>7 DEF Types
<1>4. InOrder /\ Looked
  <2>1. Len(client) = 0 /\ Unremoved = 0 /\ written = 0 /\ pc = "idle"
    BY DEF Init, Unremoved
  <2> QED BY <1>2, <2>1 DEF InOrder, Looked
<1>5. Unraced
  BY DEF Init, Unraced
<1> QED BY <1>3, <1>4, <1>5 DEF IInv

LEMMA WriteOK == ASSUME IInv, NEW n \in PacketSize, Write(n) PROVE IInv'
<1> DEFINE s == Between(head, tail)
<1>1. /\ Types /\ n \in Nat \ {0} /\ n <= Capacity - s
      /\ Capacity \in Nat
  BY SizeAssumption, SizeIs DEF IInv, Write, Fits
<1>2. /\ ring' = [x \in 0 .. Capacity - 1 |->
           IF Behind(tail, x) < n THEN written + 1 + Behind(tail, x) ELSE ring[x]]
      /\ tail' = Advance(tail, n)
      /\ written' = written + n
      /\ overrun' = (overrun \/ tail' = head)
      /\ raced' = (raced \/ pc \in {"first", "again", "second"})
      /\ UNCHANGED <<head, pc, seen, len, peek, client>>
  BY DEF Write
<1>3. tail' \in 0 .. Capacity
  BY <1>1, <1>2, AdvanceTail DEF Types
<1>4. ring' \in [0 .. Capacity - 1 -> Nat]
  <2>1. \A x \in 0 .. Capacity - 1 : Behind(tail, x) \in Nat
    BY <1>1 DEF Types, Behind
  <2> QED BY <1>1, <1>2, <2>1 DEF Types
<1>5. overrun' \in BOOLEAN /\ raced' \in BOOLEAN
  BY <1>2
<1>6. Types'
  BY <1>1, <1>2, <1>3, <1>4, <1>5 DEF Types, Copyable
<1>9. Unraced'
  <2>1. Unraced
    BY DEF IInv
  <2> QED BY <1>2, <2>1 DEF Unraced, Copyable
<1>7. ASSUME ~overrun' PROVE InOrder' /\ Looked'
  <2>1. ~overrun /\ tail' # head
    BY <1>2, <1>7
  <2>2. InOrder /\ Looked /\ s \in 0 .. Capacity
    BY <1>1, <2>1, SizeBound DEF IInv, Types
  <2>3. Size' = s + n /\ Size = s
    <3>1. Between(head, tail') = s + n
      BY <1>1, <1>2, <2>1, AdvanceTail DEF Types
    <3>2. Size' = Between(head, tail')
      BY <1>2 DEF Size, SizeOf, Between
    <3> QED BY <3>1, <3>2, SizeIs
  <2>4. ASSUME NEW i \in 1 .. Size'
        PROVE  ring'[Slot(head, i - 1)] = written' - Size' + i
    <3> DEFINE x == Slot(head, i - 1)
    <3>1. i \in Nat /\ i - 1 \in Nat /\ i - 1 < s + n /\ i - 1 < Capacity
      BY <1>1, <2>2, <2>3
    <3>2. x \in 0 .. Capacity - 1
      BY <1>1, <3>1, SlotCell DEF Types
    <3>3. /\ i - 1 < s => Behind(tail, x) >= n
          /\ i - 1 >= s => Behind(tail, x) = i - 1 - s
      BY <1>1, <3>1, Disjoint DEF Types
    <3>4. Behind(tail, x) \in Nat
      BY <1>1, <3>2, SMTT(30) DEF Types, Behind
    <3>5. ring'[x] = IF Behind(tail, x) < n THEN written + 1 + Behind(tail, x) ELSE ring[x]
      BY <1>2, <3>2
    <3>6. i - 1 < s => ring[x] = written - s + i
      BY <2>2, <2>3, <3>1 DEF InOrder
    <3>7. written \in Nat /\ s \in Nat /\ n \in Nat
      BY <1>1, <2>2 DEF Types
    <3> HIDE DEF x, s
    <3>8. CASE i - 1 < s
      <4>1. ring'[x] = written - s + i
        BY <3>1, <3>3, <3>4, <3>5, <3>6, <3>7, <3>8
      <4> QED BY <4>1, <1>2, <2>3, <3>1, <3>7 DEF x
    <3>9. CASE i - 1 >= s
      <4>1. ring'[x] = written + 1 + (i - 1 - s)
        BY <3>1, <3>3, <3>5, <3>7, <3>9
      <4> QED BY <4>1, <1>2, <2>3, <3>1, <3>7 DEF x
    <3> QED BY <3>1, <3>7, <3>8, <3>9
  <2>5. \A i \in 1 .. Len(client) : client[i] = i
    BY <2>2 DEF InOrder
  <2>6. written' - Size' = written - Size /\ UNCHANGED Unremoved
    BY <1>1, <1>2, <2>2, <2>3 DEF Types, Unremoved
  <2>7. InOrder'
    BY <1>2, <2>2, <2>4, <2>5, <2>6 DEF InOrder
  <2>8. Looked'
    <3>1. tail < head => tail' < head
      BY <1>1, <1>2, <2>1 DEF Types, Between, Advance
    <3>2. s + n >= s
      BY <1>1, <2>2
    <3>3. pc \in {"sized", "copied", "sent"} => len <= s + n
      BY <1>1, <2>2, <2>3, <3>2 DEF Looked, Types
    <3> QED BY <1>2, <2>2, <2>3, <3>1, <3>3 DEF Looked
  <2> QED BY <2>7, <2>8
<1> QED BY <1>6, <1>7, <1>9 DEF IInv

LEMMA CopyableIs ==
  ASSUME NEW n \in Int
  PROVE  n \in Copyable <=> n \in 0 .. Block /\ n <= Capacity
BY SizeAssumption DEF Copyable, Least

LEMMA LookTailOK == ASSUME IInv, LookTail PROVE IInv'
<1>1. Types /\ Unraced
  BY DEF IInv
<1>2. /\ pc \in {"idle", "again"} /\ seen' = tail
      /\ pc' = IF pc = "idle" THEN "first" ELSE "second"
      /\ raced' = (raced /\ pc = "again")
      /\ UNCHANGED <<ring, head, tail, written, overrun, len, peek, client>>
  BY DEF LookTail, ringVars
<1>3. UNCHANGED <<Size, Unremoved>>
  BY <1>2 DEF Size, SizeOf, Unremoved
<1>4. Types'
  BY <1>1, <1>2 DEF Types
<1>5. Unraced'
  BY <1>1, <1>2, <1>3 DEF Unraced
<1>6. ~overrun => InOrder'
  BY <1>2, <1>3 DEF IInv, InOrder
<1>7. Looked'
  BY <1>2, <1>3 DEF Looked
<1> QED BY <1>2, <1>4, <1>5, <1>6, <1>7 DEF IInv

\* However often tail has moved between its two reads, size is not above what
\* the cache holds
LEMMA TornSize ==
  ASSUME Types, seen < head => tail < head
  PROVE  SizeOf(seen, tail) \in Int /\ SizeOf(seen, tail) <= Size
BY SizeAssumption DEF Types, Size, SizeOf

LEMMA LookFirstOK == ASSUME IInv, LookFirst PROVE IInv'
<1>1. /\ Types /\ Unraced /\ Size \in 0 .. Capacity /\ Capacity \in Nat /\ Block \in Nat \ {0}
  BY SizeAssumption, SizeIs, SizeBound DEF IInv, Types
<1>2. /\ pc = "first" /\ len' = Block
      /\ pc' = IF Block > SizeOf(seen, tail) THEN "again" ELSE "sized"
      /\ UNCHANGED <<ring, head, tail, written, overrun, seen, raced, peek, client>>
  BY DEF LookFirst, ringVars
<1>3. UNCHANGED <<Size, Unremoved>>
  BY <1>2 DEF Size, SizeOf, Unremoved
<1>4. Types'
  BY <1>1, <1>2 DEF Types
<1>5. Unraced'
  <2>1. ~raced => SizeOf(seen, tail) = Size
    BY <1>1, <1>2 DEF Unraced, Size
  <2>2. ~raced /\ pc' = "sized" => Block <= Capacity
    BY <1>1, <1>2, <2>1
  <2>3. Block <= Capacity => len' \in 0 .. Block /\ len' <= Capacity
    BY <1>1, <1>2
  <2>4. Block <= Capacity => len' \in Copyable
    BY <1>1, <1>2, <2>3, CopyableIs
  <2>5. Copyable' = Copyable
    BY DEF Copyable
  <2> QED BY <1>1, <1>2, <1>3, <2>1, <2>2, <2>4, <2>5 DEF Unraced
<1>6. ~overrun => InOrder'
  BY <1>2, <1>3 DEF IInv, InOrder
<1>7. ASSUME ~overrun PROVE Looked'
  <2>1. seen < head => tail < head
    BY <1>2, <1>7 DEF IInv, Looked
  <2>2. SizeOf(seen, tail) \in Int /\ SizeOf(seen, tail) <= Size
    BY <1>1, <2>1, TornSize
  <2>3. pc' = "sized" => Block <= Size
    BY <1>1, <1>2, <2>2
  <2> QED BY <1>2, <1>3, <2>3 DEF Looked
<1> QED BY <1>2, <1>4, <1>5, <1>6, <1>7 DEF IInv

LEMMA LookSecondOK == ASSUME IInv, LookSecond PROVE IInv'
<1>1. /\ Types /\ Unraced /\ Size \in 0 .. Capacity /\ Capacity \in Nat /\ Block \in Nat \ {0}
  BY SizeAssumption, SizeIs, SizeBound DEF IInv, Types
<1>2. /\ pc = "second" /\ len' = SizeOf(seen, tail) /\ pc' = "sized"
      /\ UNCHANGED <<ring, head, tail, written, overrun, seen, raced, peek, client>>
  BY DEF LookSecond, ringVars
<1>3. UNCHANGED <<Size, Unremoved>>
  BY <1>2 DEF Size, SizeOf, Unremoved
<1>4. Types'
  <2>1. SizeOf(seen, tail) \in Int
    BY <1>1 DEF Types, SizeOf
  <2> QED BY <1>1, <1>2, <2>1 DEF Types
<1>5. Unraced'
  <2>1. ~raced => SizeOf(seen, tail) = Size /\ Size < Block
    BY <1>1, <1>2 DEF Unraced, Size
  <2>2. ~raced => Size \in Copyable
    BY <1>1, <2>1, CopyableIs
  <2>3. Copyable' = Copyable
    BY DEF Copyable
  <2> QED BY <1>2, <2>1, <2>2, <2>3 DEF Unraced
<1>6. ~overrun => InOrder'
  BY <1>2, <1>3 DEF IInv, InOrder
<1>7. ASSUME ~overrun PROVE Looked'
  <2>1. seen < head => tail < head
    BY <1>2, <1>7 DEF IInv, Looked
  <2>2. SizeOf(seen, tail) <= Size
    BY <1>1, <2>1, TornSize
  <2> QED BY <1>2, <1>3, <2>2 DEF Looked
<1> QED BY <1>2, <1>4, <1>5, <1>6, <1>7 DEF IInv

LEMMA LookSpillsOK == ASSUME IInv, LookSpills PROVE IInv'
<1>1. Types /\ Unraced
  BY DEF IInv
<1>2. /\ pc = "sized" /\ len \notin Copyable /\ pc' = "spilled"
      /\ UNCHANGED <<ring, head, tail, written, overrun, seen, raced, len, peek, client>>
  BY DEF LookSpills, ringVars
<1>3. UNCHANGED <<Size, Unremoved>>
  BY <1>2 DEF Size, SizeOf, Unremoved
<1>4. Types'
  BY <1>1, <1>2 DEF Types
<1>5. Unraced'
  BY <1>1, <1>2 DEF Unraced
<1>6. ~overrun => InOrder'
  BY <1>2, <1>3 DEF IInv, InOrder
<1>7. Looked'
  BY <1>2 DEF Looked
<1> QED BY <1>2, <1>4, <1>5, <1>6, <1>7 DEF IInv

LEMMA LookCopyOK == ASSUME IInv, LookCopy PROVE IInv'
<1>1. /\ Types /\ Unraced /\ Size \in 0 .. Capacity /\ Capacity \in Nat /\ Block \in Nat
  BY SizeAssumption, SizeIs, SizeBound DEF IInv, Types
<1>2. /\ pc = "sized" /\ len \in 0 .. Block /\ len <= Capacity /\ len \in Copyable
      /\ UNCHANGED <<ring, head, tail, written, overrun, seen, raced, len, client>>
      /\ \/ len = 0 /\ pc' = "idle" /\ UNCHANGED peek
         \/ /\ pc' = "copied"
            /\ peek' = [i \in 1 .. len |-> IF head = tail THEN 0 ELSE ring[Slot(head, i - 1)]]
  BY <1>1, CopyableIs DEF LookCopy, ringVars, Types
<1>3. UNCHANGED <<Size, Unremoved, Copyable>>
  BY <1>2 DEF Size, SizeOf, Unremoved, Copyable
<1>4. \A i \in 1 .. len : ring[Slot(head, i - 1)] \in Nat
  <2> SUFFICES ASSUME NEW i \in 1 .. len PROVE ring[Slot(head, i - 1)] \in Nat
    OBVIOUS
  <2>1. i - 1 \in Nat /\ i - 1 < Capacity
    BY <1>1, <1>2
  <2>2. Slot(head, i - 1) \in 0 .. Capacity - 1
    BY <1>1, <2>1, SlotCell DEF Types
  <2> QED BY <1>1, <2>2 DEF Types
<1>5. peek' \in Seq(Nat) /\ (pc' = "copied" => Len(peek') = len)
  <2>1. len \in Nat
    BY <1>2
  <2>2. CASE UNCHANGED peek /\ pc' = "idle"
    BY <1>1, <2>2 DEF Types
  <2>3. CASE peek' = [i \in 1 .. len |-> IF head = tail THEN 0 ELSE ring[Slot(head, i - 1)]]
    BY <1>4, <2>1, <2>3
  <2> QED BY <1>2, <2>2, <2>3
<1>6. Types'
  BY <1>1, <1>2, <1>3, <1>5 DEF Types
<1>8. Unraced'
  BY <1>2 DEF Unraced
<1>7. ASSUME ~overrun PROVE InOrder' /\ Looked'
  <2>1. InOrder /\ Looked
    BY <1>7 DEF IInv
  <2>2. InOrder'
    BY <1>2, <1>3, <2>1 DEF InOrder
  <2>3. ASSUME pc' = "copied", NEW i \in 1 .. len PROVE peek'[i] = Len(client) + i
    <3>1. len \in Nat /\ len <= Size /\ written \in Nat /\ Len(client) \in Nat
      BY <1>1, <1>2, <2>1 DEF Types, Looked
    <3>2. head # tail
      BY <1>1, <3>1 DEF Size, SizeOf, Types
    <3>3. peek'[i] = ring[Slot(head, i - 1)]
      BY <1>2, <2>3, <3>2
    <3>4. i \in 1 .. Size
      BY <1>1, <3>1
    <3>5. ring[Slot(head, i - 1)] = written - Size + i /\ written - Size = Len(client)
      BY <1>2, <2>1, <3>1, <3>4 DEF InOrder, Unremoved
    <3> QED BY <3>3, <3>5
  <2>4. Looked'
    BY <1>2, <1>3, <2>1, <2>3 DEF Looked
  <2> QED BY <2>2, <2>4
<1> QED BY <1>2, <1>6, <1>7, <1>8 DEF IInv

LEMMA SendOK == ASSUME IInv, NEW k \in 1 .. Block, Send(k) PROVE IInv'
<1>1. /\ Types /\ Size \in 0 .. Capacity /\ Capacity \in Nat /\ Block \in Nat
  BY SizeAssumption, SizeIs, SizeBound DEF IInv, Types
<1>2. /\ pc = "copied" /\ pc' = "sent" /\ k \in 1 .. len /\ len' = k
      /\ client' = client \o SubSeq(peek, 1, k)
      /\ UNCHANGED <<ring, head, tail, written, overrun, seen, raced, peek>>
  BY DEF Send, ringVars
<1>3. Len(peek) = len /\ peek \in Seq(Nat) /\ client \in Seq(Nat) /\ len \in Nat
      /\ len \in 0 .. Block /\ len <= Capacity
  BY <1>1, <1>2, CopyableIs DEF Types
<1> DEFINE q == SubSeq(peek, 1, k)
<1>4. /\ q \in Seq(Nat) /\ Len(q) = k /\ \A i \in 1 .. k : q[i] = peek[i]
  <2>1. \A i \in 1 .. k : peek[i] \in Nat
    BY <1>2, <1>3, SMTT(30)
  <2>2. /\ q \in Seq(Nat) /\ Len(q) = IF 1 <= k THEN k - 1 + 1 ELSE 0
        /\ \A i \in 1 .. k - 1 + 1 : q[i] = peek[1 + i - 1]
    BY <2>1, SubSeqProperties
  <2> HIDE DEF q
  <2>3. \A i \in 1 .. k : q[i] = peek[i]
    <3> SUFFICES ASSUME NEW i \in 1 .. k PROVE q[i] = peek[i]
      OBVIOUS
    <3>1. i \in 1 .. k - 1 + 1 /\ 1 + i - 1 = i
      OBVIOUS
    <3> QED BY <2>2, <3>1
  <2> QED BY <2>2, <2>3
<1> HIDE DEF q
<1>5. /\ client' \in Seq(Nat) /\ Len(client') = Len(client) + k
      /\ \A i \in 1 .. Len(client) : client'[i] = client[i]
      /\ \A i \in 1 .. k : client'[Len(client) + i] = peek[i]
  BY <1>2, <1>3, <1>4 DEF q
<1>6. Types'
  <2>1. k \in Int /\ k \in 0 .. Block /\ k <= Capacity
    BY <1>1, <1>2, <1>3
  <2>2. k \in Copyable /\ Copyable' = Copyable
    BY <2>1, CopyableIs DEF Copyable
  <2> QED BY <1>1, <1>2, <1>5, <2>1, <2>2 DEF Types
<1>7. UNCHANGED Size
  BY <1>2 DEF Size, SizeOf
<1>9. Unraced'
  BY <1>2 DEF Unraced
<1>8. ASSUME ~overrun PROVE InOrder' /\ Looked'
  <2>1. InOrder /\ Looked
    BY <1>8 DEF IInv
  <2>2. \A i \in 1 .. Len(client') : client'[i] = i
    <3> SUFFICES ASSUME NEW i \in 1 .. Len(client') PROVE client'[i] = i
      OBVIOUS
    <3>0. Len(client) \in Nat
      BY <1>3
    <3>1. CASE i \in 1 .. Len(client)
      BY <3>1, <1>5, <2>1 DEF InOrder
    <3>2. CASE i \notin 1 .. Len(client)
      <4>1. i - Len(client) \in 1 .. k
        BY <3>0, <3>2, <1>2, <1>5
      <4>2. client'[Len(client) + (i - Len(client))] = peek[i - Len(client)]
        BY <4>1, <1>5
      <4>3. i - Len(client) \in 1 .. len
        BY <4>1, <1>2, <1>3
      <4>4. peek[i - Len(client)] = Len(client) + (i - Len(client))
        BY <4>3, <1>2, <2>1 DEF Looked
      <4>5. Len(client) + (i - Len(client)) = i
        BY <3>0
      <4> QED BY <4>2, <4>4, <4>5
    <3> QED BY <3>1, <3>2
  <2>3. written - Size = Len(client') - k
    <3>1. written - Size = Len(client) - 0
      BY <1>2, <2>1 DEF InOrder, Unremoved
    <3>2. Len(client) \in Nat /\ k \in Nat
      BY <1>2, <1>3
    <3> QED BY <3>1, <3>2, <1>5
  <2>4. InOrder'
    <3>1. Unremoved' = k
      BY <1>2 DEF Unremoved
    <3> QED BY <1>2, <1>7, <2>1, <2>2, <2>3, <3>1 DEF InOrder
  <2>5. Looked'
    BY <1>1, <1>2, <1>3, <1>7, <2>1 DEF Looked
  <2> QED BY <2>4, <2>5
<1> QED BY <1>2, <1>6, <1>8, <1>9 DEF IInv

LEMMA ReadOK == ASSUME IInv, Read PROVE IInv'
<1> DEFINE n == Least(len, Size)
<1>1. /\ Types /\ Size \in 0 .. Capacity /\ Capacity \in Nat /\ Block \in Nat
      /\ Size = Between(head, tail)
  BY SizeAssumption, SizeIs, SizeBound DEF IInv, Types
<1>8. len \in 0 .. Block
  BY <1>1, CopyableIs DEF Types, Read
<1>2. /\ pc = "sent" /\ pc' = "idle" /\ head' = Advance(head, n)
      /\ UNCHANGED <<ring, tail, written, overrun, seen, raced, len, peek, client>>
  BY DEF Read
<1>3. n \in Nat /\ n <= Size
  BY <1>1, <1>8 DEF Least
<1>4. /\ head' \in 0 .. Capacity
      /\ Between(head', tail) = Size - n
      /\ \A i \in Nat : i < Size - n => Slot(head', i) = Slot(head, i + n)
  <2> HIDE DEF n
  <2> QED BY <1>1, <1>2, <1>3, AdvanceHead DEF Types
<1>5. Size' = Size - n
  BY <1>2, <1>4 DEF Size, SizeOf, Between
<1>6. Types'
  BY <1>1, <1>2, <1>4 DEF Types
<1>9. Unraced'
  BY <1>2 DEF Unraced
<1>7. ASSUME ~overrun PROVE InOrder' /\ Looked'
  <2>1. InOrder /\ Looked
    BY <1>7 DEF IInv
  <2>2. n = len /\ len \in Nat
    BY <1>1, <1>2, <1>8, <2>1 DEF Looked, Least
  <2>3. written \in Nat /\ Len(client) \in Nat
    BY <1>1 DEF Types
  <2>4. ASSUME NEW i \in 1 .. Size' PROVE ring[Slot(head', i - 1)] = written - Size' + i
    <3>1. i - 1 \in Nat /\ i - 1 < Size - n /\ i + n \in 1 .. Size
      BY <1>1, <1>3, <1>5
    <3>2. Slot(head', i - 1) = Slot(head, (i + n) - 1)
      <4>1. Slot(head', i - 1) = Slot(head, (i - 1) + n)
        BY <1>4, <3>1
      <4>2. (i - 1) + n = (i + n) - 1
        BY <1>3, <3>1
      <4> QED BY <4>1, <4>2
    <3>3. ring[Slot(head, (i + n) - 1)] = written - Size + (i + n)
      BY <2>1, <3>1 DEF InOrder
    <3> QED BY <1>1, <1>3, <1>5, <2>3, <3>2, <3>3
  <2>5. written - Size' = Len(client)
    <3>1. written - Size = Len(client) - len
      BY <1>2, <2>1 DEF InOrder, Unremoved
    <3> QED BY <3>1, <1>1, <1>5, <2>2, <2>3
  <2>6. InOrder'
    <3>1. Unremoved' = 0
      BY <1>2 DEF Unremoved
    <3> QED BY <1>2, <2>1, <2>3, <2>4, <2>5, <3>1 DEF InOrder
  <2>7. Looked'
    BY <1>2 DEF Looked
  <2> QED BY <2>6, <2>7
<1> QED BY <1>2, <1>6, <1>7, <1>9 DEF IInv

\* The invariant holds in every reachable state.
THEOREM Inductive == Spec => []IInv
<1>1. Init => IInv
  BY InitOK
<1>2. IInv /\ [Next]_vars => IInv'
  <2> SUFFICES ASSUME IInv, [Next]_vars PROVE IInv'
    OBVIOUS
  <2>1. CASE UNCHANGED vars
    BY <2>1 DEF vars, ringVars, IInv, Types, Unraced, InOrder, Looked, Size, SizeOf, Unremoved, Copyable
  <2>2. CASE Next
    BY <2>2, WriteOK, LookTailOK, LookFirstOK, LookSecondOK, LookCopyOK, LookSpillsOK, SendOK, ReadOK
       DEF Next, Turn, SendSome
  <2> QED BY <2>1, <2>2
<1> QED BY <1>1, <1>2, PTL DEF Spec

\* Before an overrun and a look that leaves its buffer the client receives
\* exactly the bytes accepted, in order and once, whatever the capacity, the
\* block and the packets are, and although size is called twice and reads tail
\* twice without the lock (have_a_look); a look leaves its buffer only if a
\* write fell between these reads.
THEOREM CacheIsFifo == Spec => []FifoInOrder
<1>1. IInv => FifoInOrder
  BY DEF IInv, Unraced, Sound, FifoInOrder
<1> QED BY <1>1, Inductive, PTL

\* Positions stay within the buffer, even after an overrun, and what is sent
\* and removed is never more than a block: a longer or negative length, which
\* a write between the reads of the length can cause, ends in "spilled".
THEOREM CacheTyped == Spec => []TypeOK
<1>1. IInv => TypeOK
  BY DEF IInv, Types, TypeOK
<1> QED BY <1>1, Inductive, PTL
-----------------------------------------------------------------------------
(* The refinement: what waits in the cache is fixed by the bytes accepted   *)
(* and the bytes the client has.                                            *)

\* Bytes a + 1 .. b
Bytes(a, b) == [i \in 1 .. b - a |-> a + i]

LEMMA BytesTyped ==
  ASSUME NEW a \in Nat, NEW b \in Nat, a <= b
  PROVE  /\ Bytes(a, b) \in Seq(Nat) /\ Len(Bytes(a, b)) = b - a
         /\ \A i \in 1 .. b - a : Bytes(a, b)[i] = a + i
BY DEF Bytes

LEMMA BytesSplit ==
  ASSUME NEW a \in Nat, NEW b \in Nat, NEW k \in 1 .. b - a, a <= b
  PROVE  /\ SubSeq(Bytes(a, b), 1, k) = Bytes(a, a + k)
         /\ SubSeq(Bytes(a, b), k + 1, b - a) = Bytes(a + k, b)
<1> DEFINE s == Bytes(a, b)
<1>1. /\ s \in Seq(Nat) /\ Len(s) = b - a /\ \A i \in 1 .. b - a : s[i] = a + i
  BY BytesTyped
<1>2. /\ Bytes(a, a + k) \in Seq(Nat) /\ Len(Bytes(a, a + k)) = k
      /\ \A i \in 1 .. k : Bytes(a, a + k)[i] = a + i
  <2>1. a + k \in Nat /\ a <= a + k /\ (a + k) - a = k
    OBVIOUS
  <2> QED BY <2>1, BytesTyped
<1>3. /\ Bytes(a + k, b) \in Seq(Nat) /\ Len(Bytes(a + k, b)) = b - (a + k)
      /\ \A i \in 1 .. b - (a + k) : Bytes(a + k, b)[i] = (a + k) + i
  <2>1. a + k \in Nat /\ a + k <= b
    OBVIOUS
  <2> QED BY <2>1, BytesTyped
<1> HIDE DEF s
<1>4. /\ SubSeq(s, 1, k) \in Seq(Nat) /\ Len(SubSeq(s, 1, k)) = k
      /\ \A i \in 1 .. k : SubSeq(s, 1, k)[i] = s[i]
  <2>1. /\ SubSeq(s, 1, k) \in Seq(Nat)
        /\ Len(SubSeq(s, 1, k)) = IF 1 <= k THEN k - 1 + 1 ELSE 0
        /\ \A i \in 1 .. k - 1 + 1 : SubSeq(s, 1, k)[i] = s[1 + i - 1]
    BY <1>1, SubSeqProperties, SMTT(30)
  <2> QED BY <2>1
<1>5. /\ SubSeq(s, k + 1, b - a) \in Seq(Nat) /\ Len(SubSeq(s, k + 1, b - a)) = b - (a + k)
      /\ \A i \in 1 .. b - (a + k) : SubSeq(s, k + 1, b - a)[i] = s[k + i]
  <2>1. /\ SubSeq(s, k + 1, b - a) \in Seq(Nat)
        /\ Len(SubSeq(s, k + 1, b - a)) = IF k + 1 <= b - a THEN (b - a) - (k + 1) + 1 ELSE 0
        /\ \A i \in 1 .. (b - a) - (k + 1) + 1 : SubSeq(s, k + 1, b - a)[i] = s[(k + 1) + i - 1]
    BY <1>1, SubSeqProperties
  <2> QED BY <2>1
<1>6. SubSeq(s, 1, k) = Bytes(a, a + k)
  <2>1. \A i \in 1 .. k : SubSeq(s, 1, k)[i] = Bytes(a, a + k)[i]
    BY <1>1, <1>2, <1>4
  <2> QED BY <1>2, <1>4, <2>1, SeqEqual
<1>7. SubSeq(s, k + 1, b - a) = Bytes(a + k, b)
  <2>1. \A i \in 1 .. b - (a + k) : SubSeq(s, k + 1, b - a)[i] = Bytes(a + k, b)[i]
    BY <1>1, <1>3, <1>5
  <2> QED BY <1>3, <1>5, <2>1, SeqEqual
<1> QED BY <1>6, <1>7 DEF s

LEMMA WaitingIs ==
  ASSUME IInv, ~overrun
  PROVE  /\ Waiting = Bytes(Len(client), written)
         /\ Len(client) <= written /\ Len(client) \in Nat /\ written \in Nat
<1> DEFINE n == Size
           u == Unremoved
           a == Len(client)
           b == written
<1>1. /\ a \in Nat /\ b \in Nat /\ n \in Nat /\ u \in Nat /\ u <= n
      /\ b - n = a - u
      /\ \A i \in 1 .. n : ring[Slot(head, i - 1)] = b - n + i
  <2>1. Types /\ InOrder /\ Looked
    BY DEF IInv
  <2>2. n \in 0 .. Capacity
    BY <2>1, SizeIs, SizeBound DEF Types
  <2>3. u \in Nat /\ u <= n
    BY <2>1, <2>2, CopyableIs DEF Types, Looked, Unremoved
  <2> QED BY <2>1, <2>2, <2>3, SizeAssumption DEF Types, InOrder
<1>2. Content = [i \in 1 .. n |-> ring[Slot(head, i - 1)]] /\ Waiting = SubSeq(Content, u + 1, n)
  BY DEF Content, Waiting
<1> HIDE DEF n, u, a, b
<1>3. n - u = b - a /\ a <= b
  BY <1>1
<1>4. Content = [i \in 1 .. n |-> (a - u) + i]
  BY <1>1, <1>2
<1>5. \A i \in u + 1 .. n : Content[i] \in Nat
  BY <1>1, <1>4
<1>6. /\ Waiting \in Seq(Nat) /\ Len(Waiting) = b - a
      /\ \A i \in 1 .. b - a : Waiting[i] = a + i
  <2>1. /\ SubSeq(Content, u + 1, n) \in Seq(Nat)
        /\ Len(SubSeq(Content, u + 1, n)) = IF u + 1 <= n THEN n - (u + 1) + 1 ELSE 0
        /\ \A i \in 1 .. n - (u + 1) + 1 :
             SubSeq(Content, u + 1, n)[i] = Content[(u + 1) + i - 1]
    BY <1>1, <1>5, SubSeqProperties
  <2>2. Len(Waiting) = b - a
    BY <1>1, <1>2, <1>3, <2>1
  <2>3. ASSUME NEW i \in 1 .. b - a PROVE Waiting[i] = a + i
    <3>1. Waiting[i] = Content[(u + 1) + i - 1] /\ (u + 1) + i - 1 \in 1 .. n
      BY <1>1, <1>2, <1>3, <2>1
    <3> QED BY <1>1, <1>4, <3>1
  <2> QED BY <1>2, <2>1, <2>2, <2>3
<1>7. /\ Bytes(a, b) \in Seq(Nat) /\ Len(Bytes(a, b)) = b - a
      /\ \A i \in 1 .. b - a : Bytes(a, b)[i] = a + i
  BY <1>1, <1>3, BytesTyped
<1>8. Waiting = Bytes(a, b)
  BY <1>6, <1>7, SeqEqual
<1> QED BY <1>1, <1>3, <1>8 DEF a, b

WaitingKnown ==
  /\ Waiting = Bytes(Len(client), written)
  /\ Len(client) <= written /\ Len(client) \in Nat /\ written \in Nat

LEMMA WaitingNext == (IInv /\ ~overrun)' => WaitingKnown'
<1>1. IInv /\ ~overrun => WaitingKnown
  BY WaitingIs DEF WaitingKnown
<1> QED BY <1>1, PTL

LEMMA SendBytes ==
  ASSUME IInv, ~overrun, NEW k \in 1 .. Block, Send(k)
  PROVE  /\ k \in 1 .. written - Len(client)
         /\ client' = client \o Bytes(Len(client), Len(client) + k)
         /\ Len(client') = Len(client) + k
<1> DEFINE a == Len(client)
           s == SubSeq(peek, 1, k)
<1>1. /\ pc = "copied" /\ k \in 1 .. len /\ k \in Nat /\ client' = client \o s
      /\ client \in Seq(Nat) /\ a \in Nat /\ peek \in Seq(Nat) /\ Len(peek) = len /\ len \in Nat
      /\ \A i \in 1 .. len : peek[i] = a + i
      /\ len <= Size
  BY SizeAssumption, CopyableIs DEF Send, IInv, Types, Looked
<1>2. /\ s \in Seq(Nat) /\ Len(s) = k /\ \A i \in 1 .. k : s[i] = a + i
  <2>1. /\ SubSeq(peek, 1, k) \in Seq(Nat)
        /\ Len(SubSeq(peek, 1, k)) = IF 1 <= k THEN k - 1 + 1 ELSE 0
        /\ \A i \in 1 .. k - 1 + 1 : SubSeq(peek, 1, k)[i] = peek[1 + i - 1]
    <3>1. \A i \in 1 .. k : peek[i] \in Nat
      BY <1>1
    <3> QED BY <1>1, <3>1, SubSeqProperties
  <2> HIDE DEF a
  <2> QED BY <1>1, <2>1, SMTT(30)
<1> HIDE DEF s
<1>3. /\ Bytes(a, a + k) \in Seq(Nat) /\ Len(Bytes(a, a + k)) = k
      /\ \A i \in 1 .. k : Bytes(a, a + k)[i] = a + i
  <2>1. a + k \in Nat /\ a <= a + k /\ (a + k) - a = k
    BY <1>1
  <2> QED BY <1>1, <2>1, BytesTyped, ZenonT(40)
<1>4. s = Bytes(a, a + k)
  BY <1>2, <1>3, SeqEqual
<1>5. k \in 1 .. written - a
  <2>1. written - Size = a /\ written \in Nat
    BY <1>1 DEF IInv, InOrder, Types, Unremoved
  <2>2. Size \in Nat
    BY SizeIs, SizeBound DEF IInv, Types
  <2> QED BY <1>1, <2>1, <2>2
<1>6. Len(client') = a + k
  BY <1>1, <1>2, ConcatProperties
<1> QED BY <1>1, <1>4, <1>5, <1>6

LEMMA InitMaps == Init => Fifo!FifoInit
<1> SUFFICES ASSUME Init PROVE Fifo!FifoInit
  OBVIOUS
<1>1. Size = 0 /\ Unremoved = 0
  BY SizeAssumption DEF Init, Size, SizeOf, Unremoved
<1>2. Waiting = <<>>
  BY <1>1, SubSeqEmpty DEF Waiting
<1> QED BY <1>2 DEF Init, Sound, Fifo!FifoInit

LEMMA StepMaps ==
  ASSUME IInv, IInv', [Next]_vars
  PROVE  [Fifo!Accept \/ Fifo!Deliver \/ Fifo!Overrun]_Fifo!fifoVars
<1>1. CASE ~Sound'
  BY <1>1 DEF Fifo!Overrun
<1>2. CASE Sound'
  <2> DEFINE a == Len(client)
             b == written
  <2>0. ~overrun' /\ pc' # "spilled"
    BY <1>2 DEF Sound
  <2>1. Sound /\ ~overrun
    <3>1. ASSUME NEW n \in PacketSize, Write(n) PROVE Sound /\ ~overrun
      BY <2>0, <3>1 DEF Write, Sound
    <3>2. CASE LookTail \/ LookFirst \/ LookSecond
      BY <2>0, <3>2 DEF LookTail, LookFirst, LookSecond, ringVars, Sound
    <3>3. CASE LookCopy \/ LookSpills \/ Read
      BY <2>0, <3>3 DEF LookCopy, LookSpills, Read, ringVars, Sound
    <3>4. ASSUME NEW k \in 1 .. Block, Send(k) PROVE Sound /\ ~overrun
      BY <2>0, <3>4 DEF Send, ringVars, Sound
    <3>5. CASE UNCHANGED vars
      BY <2>0, <3>5 DEF vars, ringVars, Sound
    <3> QED BY <3>1, <3>2, <3>3, <3>4, <3>5 DEF Next, Turn, SendSome
  <2>2. /\ Waiting = Bytes(a, b) /\ a <= b /\ a \in Nat /\ b \in Nat
        /\ Waiting' = Bytes(a', b') /\ a' <= b' /\ a' \in Nat /\ b' \in Nat
    <3>1. Waiting = Bytes(a, b) /\ a <= b /\ a \in Nat /\ b \in Nat
      BY <2>1, WaitingIs
    <3>2. Waiting' = Bytes(a', b') /\ a' <= b' /\ a' \in Nat /\ b' \in Nat
      BY <2>0, WaitingNext DEF WaitingKnown
    <3> QED BY <3>1, <3>2
  <2>3. CASE UNCHANGED <<written, client>>
    BY <1>2, <2>1, <2>2, <2>3 DEF Fifo!fifoVars
  <2>4. ASSUME NEW n \in PacketSize, Write(n) PROVE Fifo!Accept
    <3>1. n \in Nat \ {0} /\ b' = b + n /\ client' = client
      BY <2>4, SizeAssumption DEF Write
    <3>2. Len(Waiting) = b - a /\ Len(Waiting') = b' - a
      BY <2>2, <3>1, BytesTyped
    <3>3. Waiting' = [i \in 1 .. Len(Waiting') |-> a + i]
      BY <2>2, <3>1, <3>2 DEF Bytes
    <3>4. Len(Waiting') > Len(Waiting)
      BY <2>2, <3>1, <3>2
    <3> QED BY <1>2, <2>1, <3>1, <3>3, <3>4 DEF Fifo!Accept
  <2>5. ASSUME NEW k \in 1 .. Block, Send(k) PROVE Fifo!Deliver
    <3>1. /\ k \in 1 .. b - a /\ client' = client \o Bytes(a, a + k)
          /\ a' = a + k /\ b' = b
      BY <2>1, <2>5, SendBytes DEF Send, ringVars
    <3>2. Len(Waiting) = b - a
      BY <2>2, BytesTyped
    <3>3. /\ SubSeq(Waiting, 1, k) = Bytes(a, a + k)
          /\ SubSeq(Waiting, k + 1, Len(Waiting)) = Waiting'
      <4>1. /\ SubSeq(Bytes(a, b), 1, k) = Bytes(a, a + k)
            /\ SubSeq(Bytes(a, b), k + 1, b - a) = Bytes(a + k, b)
        BY <2>2, <3>1, BytesSplit
      <4>2. Waiting' = Bytes(a + k, b)
        BY <2>2, <3>1
      <4> QED BY <2>2, <3>2, <4>1, <4>2
    <3> QED BY <1>2, <2>1, <3>1, <3>2, <3>3 DEF Fifo!Deliver
  <2>6. LookTail \/ LookFirst \/ LookSecond \/ LookCopy \/ LookSpills \/ Read \/ UNCHANGED vars
          => UNCHANGED <<written, client>>
    BY DEF LookTail, LookFirst, LookSecond, LookCopy, LookSpills, Read, vars, ringVars
  <2> QED BY <2>3, <2>4, <2>5, <2>6 DEF Next, Turn, SendSome
<1> QED BY <1>1, <1>2

\* The write cache implements LossyFifo for every capacity, block and packet
\* size: each write, each read of the length, each copy, send and removal is
\* one step of a FIFO queue or none, until a write fills the cache to its last
\* byte or a look leaves its buffer, in whatever order workers and the poll
\* thread take them.
THEOREM RefinesFifo == Spec => ImplementsFifo
<1>1. IInv /\ IInv' /\ [Next]_vars =>
        [Fifo!Accept \/ Fifo!Deliver \/ Fifo!Overrun]_Fifo!fifoVars
  BY StepMaps
<1> QED BY <1>1, InitMaps, Inductive, PTL DEF Spec, ImplementsFifo, Fifo!FifoSpec


-----------------------------------------------------------------------------
(* The read cache: its positions and cells, as above.                       *)

\* The bytes between two positions of the read cache
Held(h, t) == IF h <= t THEN t - h ELSE t + CacheSize - h

LEMMA HeldIs == Cache!Size = Held(first, next)
BY DEF Cache!Size, Cache!SizeOf, Held

LEMMA HeldBound ==
  ASSUME NEW h \in 0 .. CacheSize, NEW t \in 0 .. CacheSize
  PROVE  Held(h, t) \in 0 .. CacheSize
BY ReaderAssumption DEF Held

\* Bytes written are added behind the others, unless the tail meets the head
LEMMA HeldGrows ==
  ASSUME NEW h \in 0 .. CacheSize, NEW t \in 0 .. CacheSize,
         NEW n \in Nat \ {0}, n <= CacheSize - Held(h, t)
  PROVE  /\ Cache!Advance(t, n) \in 0 .. CacheSize
         /\ Cache!Advance(t, n) # h => Held(h, Cache!Advance(t, n)) = Held(h, t) + n
         /\ Held(h, t) + n < CacheSize => Cache!Advance(t, n) # h
BY ReaderAssumption DEF Held, Cache!Advance

\* Bytes read are removed in front of the others
LEMMA HeldShrinks ==
  ASSUME NEW h \in 0 .. CacheSize, NEW t \in 0 .. CacheSize,
         NEW n \in Nat, n <= Held(h, t)
  PROVE  /\ Cache!Advance(h, n) \in 0 .. CacheSize
         /\ Held(Cache!Advance(h, n), t) = Held(h, t) - n
         /\ \A i \in Nat : i < Held(h, t) - n =>
              Cache!Slot(Cache!Advance(h, n), i) = Cache!Slot(h, i + n)
BY ReaderAssumption DEF Held, Cache!Advance, Cache!Slot

LEMMA HeldCell ==
  ASSUME NEW h \in 0 .. CacheSize, NEW i \in Nat, i < CacheSize
  PROVE  Cache!Slot(h, i) \in 0 .. CacheSize - 1
BY ReaderAssumption DEF Cache!Slot

\* The cells of the content are not those a write fills; those follow it
LEMMA HeldApart ==
  ASSUME NEW h \in 0 .. CacheSize, NEW t \in 0 .. CacheSize,
         NEW n \in Nat, n <= CacheSize - Held(h, t),
         NEW i \in Nat, i < Held(h, t) + n
  PROVE  /\ i < Held(h, t) => Cache!Behind(t, Cache!Slot(h, i)) >= n
         /\ i >= Held(h, t) => Cache!Behind(t, Cache!Slot(h, i)) = i - Held(h, t)
BY ReaderAssumption DEF Held, Cache!Slot, Cache!Behind

-----------------------------------------------------------------------------
(* Reading commands.                                                        *)

ReaderTypes ==
  /\ cells \in [0 .. CacheSize - 1 -> Nat]
  /\ first \in 0 .. CacheSize /\ next \in 0 .. CacheSize
  /\ got \in Nat /\ handled \in Nat /\ sent \in Seq(Nat)
  /\ spilt \in BOOLEAN /\ reading \in BOOLEAN

\* The client's commands follow each other, each with a header
EndsGrow == \A j, k \in 0 .. Len(sent) : j < k => EndOf(j) + PACKET_HEADER_SIZE <= EndOf(k)

\* The cache holds, in order, what has come of the commands not handled
Unhandled ==
  /\ handled <= Len(sent)
  /\ Cache!Size = got - EndOf(handled)
  /\ \A i \in 1 .. Cache!Size : Byte(i) = EndOf(handled) + i

LastCommand ==
  handled > 0 => command = [i \in 1 .. LengthOf(handled) |-> EndOf(handled - 1) + PACKET_HEADER_SIZE + i]

\* The loop has not ended before a packet that is there
NothingWaits == ~reading => handled = Len(sent) \/ got < EndOf(handled + 1)

\* A block fits in the cache beside an unfinished command
Roomy == \A k \in DOMAIN sent : PACKET_HEADER_SIZE + LengthOf(k) + ReadBlock <= CacheSize

ReaderInv ==
  /\ ReaderTypes /\ EndsGrow
  /\ got <= TotalSent
  /\ ~spilt => Unhandled /\ LastCommand /\ NothingWaits
  /\ Roomy => ~spilt


LEMMA EndsTyped ==
  ASSUME ReaderTypes
  PROVE  /\ Len(sent) \in Nat /\ TotalSent \in Nat
         /\ \A k \in 0 .. Len(sent) : EndOf(k) \in Nat
BY DEF ReaderTypes, EndOf, TotalSent

LEMMA LengthsTyped ==
  ASSUME ReaderTypes, EndsGrow
  PROVE  \A k \in 1 .. Len(sent) : LengthOf(k) \in Nat
<1> SUFFICES ASSUME NEW k \in 1 .. Len(sent) PROVE LengthOf(k) \in Nat
  OBVIOUS
<1>1. k \in 0 .. Len(sent) /\ k - 1 \in 0 .. Len(sent) /\ k - 1 < k
  BY EndsTyped
<1>2. EndOf(k - 1) + PACKET_HEADER_SIZE <= EndOf(k)
  BY <1>1 DEF EndsGrow
<1> QED BY <1>1, <1>2, EndsTyped DEF LengthOf, PACKET_HEADER_SIZE

\* What is in the cache is not more than what was sent and not handled
LEMMA UnhandledBound ==
  ASSUME ReaderInv, ~spilt
  PROVE  /\ Cache!Size \in 0 .. CacheSize /\ CacheSize \in Nat /\ got = EndOf(handled) + Cache!Size
         /\ handled \in 0 .. Len(sent) /\ EndOf(handled) \in Nat
<1>1. ReaderTypes /\ Unhandled
  BY DEF ReaderInv
<1>2. Cache!Size \in 0 .. CacheSize
  BY <1>1, HeldIs, HeldBound DEF ReaderTypes
<1>3. handled \in 0 .. Len(sent)
  BY <1>1, EndsTyped DEF ReaderTypes, Unhandled
<1>4. EndOf(handled) \in Nat
  BY <1>1, <1>3, EndsTyped
<1> QED BY <1>1, <1>2, <1>3, <1>4, ReaderAssumption DEF ReaderTypes, Unhandled

\* More than a header is there: it is that of the next command
LEMMA HeaderRead ==
  ASSUME ReaderInv, ~spilt, Cache!Size >= PACKET_HEADER_SIZE
  PROVE  handled + 1 \in 1 .. Len(sent) /\ LengthsAt(1) = {LengthOf(handled + 1)}
<1>1. ReaderTypes /\ EndsGrow /\ Unhandled /\ got <= TotalSent /\ got \in Nat
  BY DEF ReaderInv, ReaderTypes
<1>2. /\ Cache!Size \in Nat /\ got = EndOf(handled) + Cache!Size
      /\ handled \in 0 .. Len(sent) /\ EndOf(handled) \in Nat
  BY UnhandledBound
<1>3. handled # Len(sent)
  BY <1>1, <1>2 DEF TotalSent, PACKET_HEADER_SIZE
<1>4. handled + 1 \in 1 .. Len(sent) /\ handled + 1 - 1 = handled
  BY <1>1, <1>2, <1>3, EndsTyped
<1>5. \A j \in 0 .. 2 : Byte(1 + j) = EndOf(handled) + 1 + j
  <2> SUFFICES ASSUME NEW j \in 0 .. 2 PROVE Byte(1 + j) = EndOf(handled) + 1 + j
    OBVIOUS
  <2>1. 1 + j \in 1 .. Cache!Size
    BY <1>2 DEF PACKET_HEADER_SIZE
  <2>2. Byte(1 + j) = EndOf(handled) + (1 + j)
    BY <1>1, <2>1 DEF Unhandled
  <2> QED BY <1>2, <2>2
<1>6. handled + 1 \in CommandsAt(1)
  <2>1. PICK h : h = handled + 1
    OBVIOUS
  <2>2. h \in 1 .. Len(sent) /\ h - 1 = handled
    BY <1>2, <1>4, <2>1
  <2>3. EndOf(h - 1) = EndOf(handled)
    BY <2>2
  <2>4. \A j \in 0 .. 2 : Byte(1 + j) = EndOf(h - 1) + 1 + j
    BY <1>5, <2>3
  <2>5. h \in CommandsAt(1)
    BY <2>2, <2>4 DEF CommandsAt
  <2> QED BY <2>1, <2>5
<1>7. ASSUME NEW k \in CommandsAt(1) PROVE k = handled + 1
  <2>1. k \in 1 .. Len(sent) /\ Byte(1 + 0) = EndOf(k - 1) + 1 + 0
    BY DEF CommandsAt
  <2>2. k - 1 \in 0 .. Len(sent) /\ EndOf(k - 1) \in Nat
    BY <1>1, <2>1, EndsTyped
  <2>3. EndOf(k - 1) = EndOf(handled)
    BY <1>2, <1>5, <2>1, <2>2
  <2>4. k - 1 = handled
    <3>1. ~(k - 1 < handled) /\ ~(handled < k - 1)
      BY <1>1, <1>2, <2>2, <2>3 DEF EndsGrow, PACKET_HEADER_SIZE
    <3> QED BY <1>2, <2>2, <3>1
  <2> QED BY <1>2, <2>1, <2>4
<1>8. CommandsAt(1) = {handled + 1}
  BY <1>6, <1>7
<1> QED BY <1>4, <1>8 DEF LengthsAt

\* The lengths a header may say are lengths
LEMMA LengthsAtTyped == ASSUME ReaderTypes, EndsGrow PROVE LengthsAt(1) \subseteq Nat
<1>1. \A k \in CommandsAt(1) : LengthOf(k) \in Nat
  BY LengthsTyped DEF CommandsAt
<1>2. {LengthOf(k) : k \in CommandsAt(1)} \subseteq Nat
  BY <1>1
<1>3. CommandSize \cup {0, CacheSize} \subseteq Nat
  BY ReaderAssumption
<1> QED BY <1>2, <1>3, Zenon DEF LengthsAt

LEMMA ReaderInitOK == ReaderInit => ReaderInv
<1> SUFFICES ASSUME ReaderInit PROVE ReaderInv
  OBVIOUS
<1>1. CacheSize \in Nat \ {0}
  BY ReaderAssumption
<1>2. /\ cells = [x \in 0 .. CacheSize - 1 |-> 0]
      /\ first = 0 /\ next = 0 /\ got = 0 /\ sent = <<>> /\ spilt = FALSE
      /\ reading = FALSE /\ handled = 0
  BY DEF ReaderInit
<1>3. sent \in Seq(Nat) /\ Len(sent) = 0
  BY <1>2
<1>4. ReaderTypes
  <2>1. cells \in [0 .. CacheSize - 1 -> Nat]
    BY <1>1, <1>2
  <2>2. 0 \in 0 .. CacheSize
    BY <1>1
  <2> QED BY <1>2, <1>3, <2>1, <2>2 DEF ReaderTypes
<1>5. EndOf(0) = 0 /\ TotalSent = 0
  BY <1>3 DEF EndOf, TotalSent
<1>6. EndsGrow
  BY <1>3 DEF EndsGrow
<1>7. Cache!Size = 0
  BY <1>2 DEF Cache!Size, Cache!SizeOf
<1> QED BY <1>2, <1>3, <1>4, <1>5, <1>6, <1>7
        DEF ReaderInv, Unhandled, LastCommand, NothingWaits


LEMMA SendCommandOK ==
  ASSUME ReaderInv, NEW n \in CommandSize, SendCommand(n)
  PROVE  ReaderInv'
<1> DEFINE e == TotalSent + PACKET_HEADER_SIZE + n
<1>0. PICK l : l = Len(sent)
  OBVIOUS
<1>1. /\ ReaderTypes /\ EndsGrow /\ got <= TotalSent /\ got \in Nat
      /\ n \in Nat /\ l \in Nat /\ TotalSent \in Nat /\ TotalSent = EndOf(l)
      /\ sent \in Seq(Nat)
  BY <1>0, EndsTyped, ReaderAssumption DEF ReaderInv, ReaderTypes, TotalSent
<1>2. /\ sent' = Append(sent, e)
      /\ UNCHANGED <<cells, first, next, got, spilt, reading, handled, command>>
  BY DEF SendCommand
<1>3. e \in Nat /\ e = TotalSent + 4 + n
  BY <1>1 DEF PACKET_HEADER_SIZE
<1> HIDE DEF e
<1>4. /\ sent' \in Seq(Nat) /\ Len(sent') = l + 1 /\ sent'[l + 1] = e
      /\ \A k \in 1 .. l : sent'[k] = sent[k]
  BY <1>0, <1>1, <1>2, <1>3
<1>5. /\ \A k \in 0 .. l : EndOf(k)' = EndOf(k)
      /\ EndOf(l + 1)' = e
      /\ TotalSent' = e
  <2>1. ASSUME NEW k \in 0 .. l PROVE EndOf(k)' = EndOf(k)
    <3>1. k = 0 \/ k \in 1 .. l
      BY <1>1
    <3> QED BY <3>1, <1>4 DEF EndOf
  <2>2. PICK m : m = l + 1
    OBVIOUS
  <2>3. m # 0 /\ EndOf(m)' = e
    BY <1>1, <1>4, <2>2 DEF EndOf
  <2>4. TotalSent' = (IF Len(sent') = 0 THEN 0 ELSE sent'[Len(sent')])
    BY DEF TotalSent, EndOf
  <2>5. TotalSent' = e
    BY <1>1, <1>4, <2>4
  <2> QED BY <1>1, <1>4, <2>1, <2>2, <2>3, <2>5 DEF EndOf
<1>6. \A k \in 1 .. l : LengthOf(k)' = LengthOf(k)
  <2> SUFFICES ASSUME NEW k \in 1 .. l PROVE LengthOf(k)' = LengthOf(k)
    OBVIOUS
  <2>1. k \in 0 .. l /\ k - 1 \in 0 .. l
    BY <1>1
  <2>2. EndOf(k)' = EndOf(k) /\ EndOf(k - 1)' = EndOf(k - 1)
    BY <1>5, <2>1
  <2> QED BY <2>2 DEF LengthOf
<1>7. ReaderTypes'
  BY <1>1, <1>2, <1>4 DEF ReaderTypes
<1>8. EndsGrow'
  <2>1. ASSUME NEW j \in 0 .. l + 1, NEW k \in 0 .. l + 1, j < k
        PROVE  EndOf(j)' + 4 <= EndOf(k)'
    <3>1. j \in 0 .. l
      BY <1>1, <2>1
    <3>2. EndOf(j)' = EndOf(j) /\ EndOf(j) \in Nat
      BY <1>0, <1>1, <1>5, <3>1, EndsTyped
    <3>3. j = l \/ EndOf(j) + 4 <= EndOf(l)
      BY <1>0, <1>1, <3>1 DEF EndsGrow, PACKET_HEADER_SIZE
    <3>4. EndOf(j) <= TotalSent
      BY <1>1, <3>2, <3>3
    <3>5. CASE k \in 0 .. l
      <4>1. EndOf(k)' = EndOf(k)
        BY <1>5, <3>5
      <4>2. EndOf(j) + 4 <= EndOf(k)
        BY <1>0, <1>1, <2>1, <3>1, <3>5 DEF EndsGrow, PACKET_HEADER_SIZE
      <4> QED BY <3>2, <4>1, <4>2
    <3>6. CASE k = l + 1
      <4>1. EndOf(k)' = e
        BY <1>5, <3>6 DEF EndOf
      <4> QED BY <1>1, <1>3, <3>2, <3>4, <4>1
    <3> QED BY <1>1, <3>5, <3>6
  <2> QED BY <1>4, <2>1 DEF EndsGrow, PACKET_HEADER_SIZE
<1>9. got' <= TotalSent'
  BY <1>1, <1>2, <1>3, <1>5
<1>10. ASSUME ~spilt' PROVE Unhandled' /\ LastCommand' /\ NothingWaits'
  <2>1. ~spilt /\ Unhandled /\ LastCommand /\ NothingWaits
    BY <1>2, <1>10 DEF ReaderInv
  <2>2. PICK h \in 0 .. l : h = handled
    BY <1>0, <2>1, UnhandledBound
  <2>3. handled' = h /\ EndOf(h)' = EndOf(h) /\ EndOf(handled)' = EndOf(h)'
    BY <1>2, <1>5, <2>2 DEF EndOf
  <2>4. Cache!Size' = Cache!Size /\ \A i : Byte(i)' = Byte(i)
    BY <1>2 DEF Cache!Size, Cache!SizeOf, Byte
  <2>5. Unhandled'
    <3>1. h <= Len(sent')
      BY <1>1, <1>4, <2>2
    <3>2. EndOf(handled)' = EndOf(handled)
      BY <2>2, <2>3
    <3> QED BY <1>2, <2>1, <2>3, <2>4, <3>1, <3>2 DEF Unhandled
  <2>6. LastCommand'
    <3> SUFFICES ASSUME h > 0 PROVE LastCommand'
      BY <2>3 DEF LastCommand
    <3>1. h \in 1 .. l /\ h - 1 \in 0 .. l
      BY <1>1, <2>2
    <3>2. LengthOf(h)' = LengthOf(h) /\ EndOf(h - 1)' = EndOf(h - 1)
      BY <1>5, <1>6, <3>1
    <3>3. LengthOf(handled)' = LengthOf(h)' /\ EndOf(handled - 1)' = EndOf(h - 1)'
      BY <2>3 DEF LengthOf, EndOf
    <3>4. command = [i \in 1 .. LengthOf(h) |-> EndOf(h - 1) + PACKET_HEADER_SIZE + i]
      BY <2>1, <2>2, <3>1 DEF LastCommand
    <3> QED BY <1>2, <3>2, <3>3, <3>4 DEF LastCommand
  <2>7. NothingWaits'
    <3> SUFFICES ASSUME ~reading PROVE handled' = Len(sent') \/ got' < EndOf(handled + 1)'
      BY <1>2 DEF NothingWaits
    <3>1. EndOf(handled + 1)' = EndOf(h + 1)'
      BY <2>3 DEF EndOf
    <3>2. CASE h = l
      <4>1. EndOf(h + 1)' = e
        BY <1>5, <3>2 DEF EndOf
      <4>2. got < e
        BY <1>1, <1>3
      <4> QED BY <1>2, <3>1, <4>1, <4>2
    <3>3. CASE h # l
      <4>1. h + 1 \in 0 .. l
        BY <1>1, <2>2, <3>3
      <4>2. EndOf(h + 1)' = EndOf(h + 1)
        BY <1>5, <4>1
      <4>3. got < EndOf(h + 1)
        BY <1>0, <2>1, <2>2, <3>3 DEF NothingWaits
      <4> QED BY <1>2, <3>1, <4>2, <4>3
    <3> QED BY <3>2, <3>3
  <2> QED BY <2>5, <2>6, <2>7
<1>11. Roomy' => Roomy
  <2> SUFFICES ASSUME Roomy' PROVE Roomy
    OBVIOUS
  <2>1. DOMAIN sent = 1 .. l /\ DOMAIN sent' = 1 .. l + 1
    BY <1>0, <1>1, <1>4
  <2>2. ASSUME NEW k \in 1 .. l PROVE PACKET_HEADER_SIZE + LengthOf(k) + ReadBlock <= CacheSize
    <3>1. k \in DOMAIN sent'
      BY <1>1, <2>1
    <3>2. PACKET_HEADER_SIZE + LengthOf(k)' + ReadBlock <= CacheSize
      BY <3>1 DEF Roomy
    <3> QED BY <3>2, <1>6
  <2> QED BY <2>1, <2>2 DEF Roomy
<1>12. Roomy' => ~spilt'
  BY <1>2, <1>11 DEF ReaderInv
<1> QED BY <1>7, <1>8, <1>9, <1>10, <1>12 DEF ReaderInv


\* A block that may come finds room when commands leave it
LEMMA RoomForBlock ==
  ASSUME ReaderInv, Roomy, ~reading, NEW k \in 1 .. ReadBlock, got + k <= TotalSent
  PROVE  ~spilt /\ Cache!Size + k < CacheSize
<1>1. /\ ~spilt /\ NothingWaits /\ ReaderTypes /\ EndsGrow
  BY DEF ReaderInv
<1>2. /\ Cache!Size \in 0 .. CacheSize /\ CacheSize \in Nat /\ got = EndOf(handled) + Cache!Size
      /\ handled \in 0 .. Len(sent) /\ EndOf(handled) \in Nat
  BY <1>1, UnhandledBound
<1>3. ReadBlock \in Nat
  BY ReaderAssumption
<1>4. handled # Len(sent)
  BY <1>2, <1>3 DEF TotalSent
<1>5. PICK h : h = handled + 1
  OBVIOUS
<1>6. h \in 1 .. Len(sent) /\ h \in DOMAIN sent /\ h - 1 = handled /\ h \in 0 .. Len(sent)
  <2>1. Len(sent) \in Nat
    BY <1>1, EndsTyped
  <2>2. h \in 1 .. Len(sent) /\ h - 1 = handled
    BY <1>2, <1>4, <1>5, <2>1
  <2>3. DOMAIN sent = 1 .. Len(sent)
    BY <1>1 DEF ReaderTypes
  <2> QED BY <2>1, <2>2, <2>3
<1>7. EndOf(h) \in Nat /\ EndOf(h - 1) = EndOf(handled)
  BY <1>1, <1>6, EndsTyped
<1>8. got < EndOf(h)
  BY <1>1, <1>4, <1>5 DEF NothingWaits
<1>9. 4 + (EndOf(h) - EndOf(handled) - 4) + ReadBlock <= CacheSize
  <2>1. PACKET_HEADER_SIZE + LengthOf(h) + ReadBlock <= CacheSize
    BY <1>6 DEF Roomy
  <2>2. LengthOf(h) = EndOf(h) - EndOf(handled) - 4
    BY <1>7 DEF LengthOf, PACKET_HEADER_SIZE
  <2> QED BY <2>1, <2>2 DEF PACKET_HEADER_SIZE
<1> QED BY <1>1, <1>2, <1>3, <1>7, <1>8, <1>9

LEMMA ReadSocketOK ==
  ASSUME ReaderInv, NEW k \in 1 .. ReadBlock, ReadSocket(k)
  PROVE  ReaderInv'
<1> DEFINE z == Held(first, next)
<1>1. /\ ReaderTypes /\ EndsGrow /\ got \in Nat /\ k \in Nat \ {0} /\ k <= CacheSize - z
      /\ CacheSize \in Nat /\ ~reading /\ got + k <= TotalSent
  BY ReaderAssumption, HeldIs DEF ReaderInv, ReaderTypes, ReadSocket, Cache!Write, Cache!Fits
<1>2. /\ cells' = [x \in 0 .. CacheSize - 1 |->
           IF Cache!Behind(next, x) < k THEN got + 1 + Cache!Behind(next, x) ELSE cells[x]]
      /\ next' = Cache!Advance(next, k)
      /\ got' = got + k
      /\ spilt' = (spilt \/ next' = first)
      /\ reading' = TRUE
      /\ UNCHANGED <<first, sent, handled, command>>
  BY DEF ReadSocket, Cache!Write
<1>3. first \in 0 .. CacheSize /\ next \in 0 .. CacheSize /\ z \in 0 .. CacheSize
  BY <1>1, HeldBound DEF ReaderTypes
<1>4. next' \in 0 .. CacheSize
  BY <1>1, <1>2, <1>3, HeldGrows
<1>5. cells' \in [0 .. CacheSize - 1 -> Nat]
  <2>1. \A x \in 0 .. CacheSize - 1 : Cache!Behind(next, x) \in Nat
    BY <1>1, <1>3 DEF Cache!Behind
  <2> QED BY <1>1, <1>2, <2>1 DEF ReaderTypes
<1>6. ReaderTypes'
  BY <1>1, <1>2, <1>4, <1>5 DEF ReaderTypes
<1>7. /\ \A j : EndOf(j)' = EndOf(j) /\ LengthOf(j)' = LengthOf(j)
      /\ EndOf(handled)' = EndOf(handled) /\ EndOf(handled - 1)' = EndOf(handled - 1)
      /\ LengthOf(handled)' = LengthOf(handled)
      /\ TotalSent' = TotalSent
  BY <1>2 DEF EndOf, LengthOf, TotalSent
<1>8. EndsGrow' /\ got' <= TotalSent'
  BY <1>1, <1>2, <1>7 DEF EndsGrow
<1>9. ASSUME ~spilt' PROVE Unhandled' /\ LastCommand' /\ NothingWaits'
  <2>1. ~spilt /\ next' # first
    BY <1>2, <1>9
  <2>2. Unhandled /\ LastCommand
    BY <2>1 DEF ReaderInv
  <2>3. Cache!Size' = z + k /\ Cache!Size = z
    <3>1. Held(first, next') = z + k
      BY <1>1, <1>2, <1>3, <2>1, HeldGrows
    <3>2. Cache!Size' = Held(first, next')
      BY <1>2 DEF Cache!Size, Cache!SizeOf, Held
    <3> QED BY <3>1, <3>2, HeldIs
  <2>4. PICK c \in Nat : c = EndOf(handled)
    BY <2>1, UnhandledBound
  <2>5. got = c + z
    BY <2>1, <2>3, <2>4, UnhandledBound
  <2>6. ASSUME NEW i \in 1 .. Cache!Size' PROVE Byte(i)' = c + i
    <3> DEFINE x == Cache!Slot(first, i - 1)
    <3>1. i \in Nat /\ i - 1 \in Nat /\ i - 1 < z + k /\ i - 1 < CacheSize
      BY <1>1, <1>3, <2>3
    <3>2. x \in 0 .. CacheSize - 1
      BY <1>3, <3>1, HeldCell
    <3>3. /\ i - 1 < z => Cache!Behind(next, x) >= k
          /\ i - 1 >= z => Cache!Behind(next, x) = i - 1 - z
      BY <1>1, <1>3, <3>1, HeldApart
    <3>4. PICK b \in Nat : b = Cache!Behind(next, x)
      BY <1>1, <1>3, <3>2 DEF Cache!Behind
    <3>5. cells'[x] = IF b < k THEN got + 1 + b ELSE cells[x]
      BY <1>2, <3>2, <3>4
    <3>6. Byte(i)' = cells'[x]
      BY <1>2 DEF Byte, Cache!Slot
    <3>7. i - 1 < z => cells[x] = c + i
      BY <2>2, <2>3, <2>4, <3>1 DEF Unhandled, Byte
    <3> HIDE DEF x, z
    <3> QED BY <1>1, <1>3, <2>4, <2>5, <3>1, <3>3, <3>4, <3>5, <3>6, <3>7
  <2>7. Unhandled'
    <3>1. handled' <= Len(sent')
      BY <1>2, <2>2 DEF Unhandled
    <3>2. Cache!Size' = got' - EndOf(handled)'
      BY <1>1, <1>2, <1>3, <1>7, <2>3, <2>4, <2>5, SMTT(30)
    <3> QED BY <1>7, <2>4, <2>6, <3>1, <3>2 DEF Unhandled
  <2>8. LastCommand'
    BY <1>2, <1>7, <2>2 DEF LastCommand
  <2> QED BY <1>2, <2>7, <2>8 DEF NothingWaits
<1>10. Roomy' => ~spilt'
  <2> SUFFICES ASSUME Roomy' PROVE ~spilt'
    OBVIOUS
  <2>1. Roomy
    BY <1>2, <1>7 DEF Roomy
  <2>2. ~spilt /\ z + k < CacheSize
    BY <1>1, <2>1, RoomForBlock, HeldIs
  <2>3. next' # first
    BY <1>1, <1>2, <1>3, <2>2, HeldGrows
  <2> QED BY <1>2, <2>2, <2>3
<1> QED BY <1>6, <1>8, <1>9, <1>10 DEF ReaderInv

LEMMA ReadSocketRefusedOK ==
  ASSUME ReaderInv, NEW k \in 1 .. ReadBlock, ReadSocketRefused(k)
  PROVE  ReaderInv'
<1>1. /\ ReaderTypes /\ EndsGrow /\ got \in Nat /\ k \in Nat \ {0}
      /\ CacheSize \in Nat /\ ~reading /\ got + k <= TotalSent /\ ~Cache!Fits(k)
  BY ReaderAssumption DEF ReaderInv, ReaderTypes, ReadSocketRefused
<1>2. /\ got' = got + k /\ spilt' = TRUE /\ reading' = TRUE
      /\ UNCHANGED <<cells, first, next, sent, handled, command>>
  BY DEF ReadSocketRefused
<1>3. ReaderTypes'
  BY <1>1, <1>2 DEF ReaderTypes
<1>4. /\ \A j : EndOf(j)' = EndOf(j) /\ LengthOf(j)' = LengthOf(j)
      /\ TotalSent' = TotalSent
  BY <1>2 DEF EndOf, LengthOf, TotalSent
<1>5. EndsGrow' /\ got' <= TotalSent'
  BY <1>1, <1>2, <1>4 DEF EndsGrow
<1>6. ~Roomy
  <2> SUFFICES ASSUME Roomy PROVE FALSE
    OBVIOUS
  <2>1. Cache!Size + k < CacheSize /\ Cache!Size \in 0 .. CacheSize
    BY <1>1, RoomForBlock, UnhandledBound
  <2>2. next + 1 = first
    BY <1>1, <2>1 DEF Cache!Fits, Cache!IsFull
  <2>3. Cache!Size = CacheSize - 1
    BY <1>1, <2>2 DEF Cache!Size, Cache!SizeOf, ReaderTypes
  <2> QED BY <1>1, <2>1, <2>3
<1>7. ~Roomy'
  BY <1>2, <1>4, <1>6 DEF Roomy
<1> QED BY <1>2, <1>3, <1>5, <1>7 DEF ReaderInv


LEMMA ReadPackageOK == ASSUME ReaderInv, ReadPackage PROVE ReaderInv'
<1> DEFINE z == Held(first, next)
<1>1. /\ ReaderTypes /\ EndsGrow /\ CacheSize \in Nat /\ z = Cache!Size
      /\ first \in 0 .. CacheSize /\ next \in 0 .. CacheSize /\ z \in 0 .. CacheSize
  BY ReaderAssumption, HeldIs, HeldBound DEF ReaderInv, ReaderTypes
<1>2. /\ reading /\ handled' = handled + 1
      /\ UNCHANGED <<cells, next, got, sent, spilt, reading>>
  BY DEF ReadPackage
<1>3. PICK n \in LengthsAt(1) :
        /\ PackageReady(n)
        /\ command' = [i \in 1 .. n |-> Byte(PACKET_HEADER_SIZE + i)]
        /\ first' = Cache!Advance(Cache!Advance(first, PACKET_HEADER_SIZE), n)
  BY DEF ReadPackage
<1>4. n \in Nat /\ 4 + n <= z
  BY <1>1, <1>3, LengthsAtTyped DEF PackageReady, PACKET_HEADER_SIZE
<1>5. PICK f : f = Cache!Advance(first, 4)
  OBVIOUS
<1>6. /\ f \in 0 .. CacheSize /\ Held(f, next) = z - 4
      /\ \A i \in Nat : i < z - 4 => Cache!Slot(f, i) = Cache!Slot(first, i + 4)
  BY <1>1, <1>4, <1>5, HeldShrinks
<1>7. first' = Cache!Advance(f, n)
  BY <1>3, <1>5 DEF PACKET_HEADER_SIZE
<1>8. /\ first' \in 0 .. CacheSize /\ Held(first', next) = z - 4 - n
      /\ \A i \in Nat : i < z - 4 - n => Cache!Slot(first', i) = Cache!Slot(f, i + n)
  <2>1. n <= Held(f, next)
    BY <1>1, <1>4, <1>6
  <2> QED BY <1>1, <1>4, <1>6, <1>7, <2>1, HeldShrinks
<1>9. ReaderTypes'
  BY <1>1, <1>2, <1>8 DEF ReaderTypes
<1>10. /\ \A j : EndOf(j)' = EndOf(j) /\ LengthOf(j)' = LengthOf(j)
       /\ TotalSent' = TotalSent
  BY <1>2 DEF EndOf, LengthOf, TotalSent
<1>11. EndsGrow' /\ got' <= TotalSent'
  BY <1>2, <1>10 DEF EndsGrow, ReaderInv
<1>12. ASSUME ~spilt' PROVE Unhandled' /\ LastCommand' /\ NothingWaits'
  <2>1. ~spilt /\ Unhandled
    BY <1>2, <1>12 DEF ReaderInv
  <2>2. handled + 1 \in 1 .. Len(sent) /\ n = LengthOf(handled + 1)
    BY <1>1, <1>3, <1>4, <2>1, HeaderRead DEF PACKET_HEADER_SIZE
  <2>3. PICK g \in Nat : g = handled
    BY <1>1 DEF ReaderTypes
  <2>4. PICK h : h = g + 1
    OBVIOUS
  <2>5. /\ handled' = h /\ h \in 1 .. Len(sent) /\ h - 1 = g /\ h > 0 /\ n = LengthOf(h)
    BY <1>2, <2>2, <2>3, <2>4
  <2>6. PICK c \in Nat : c = EndOf(g)
    BY <2>1, <2>3, UnhandledBound
  <2>7. EndOf(h) = c + 4 + n
    <3>1. h \in 0 .. Len(sent)
      BY <1>1, <2>5, EndsTyped
    <3>2. EndOf(h) \in Nat
      BY <1>1, <3>1, EndsTyped
    <3>3. n = EndOf(h) - c - 4
      BY <2>5, <2>6 DEF LengthOf, PACKET_HEADER_SIZE
    <3> QED BY <2>6, <3>2, <3>3
  <2>8. got = c + z
    BY <1>1, <2>1, <2>3, <2>6, UnhandledBound
  <2>9. \A i \in 1 .. z : Byte(i) = c + i
    BY <1>1, <2>1, <2>3, <2>6 DEF Unhandled
  <2>10. /\ EndOf(handled)' = EndOf(h) /\ EndOf(handled - 1)' = c
         /\ LengthOf(handled)' = n
    <3>1. EndOf(handled)' = EndOf(h)' /\ LengthOf(handled)' = LengthOf(h)'
      BY <2>5 DEF EndOf, LengthOf
    <3>2. EndOf(handled - 1)' = EndOf(g)'
      BY <2>5 DEF EndOf
    <3> QED BY <1>10, <2>5, <2>6, <3>1, <3>2
  <2>11. Cache!Size' = z - 4 - n
    BY <1>2, <1>8 DEF Cache!Size, Cache!SizeOf, Held
  <2>12. ASSUME NEW i \in 1 .. Cache!Size' PROVE Byte(i)' = EndOf(handled)' + i
    <3> HIDE DEF z
    <3>1. PICK m \in Nat : m = i - 1
      OBVIOUS
    <3>2. i = m + 1 /\ m < z - 4 - n /\ m + n \in Nat /\ m + n < z - 4 /\ m + n + 4 + 1 \in 1 .. z
      BY <1>1, <1>4, <2>11, <3>1
    <3>3. Cache!Slot(first', m) = Cache!Slot(first, m + n + 4)
      BY <1>6, <1>8, <3>2
    <3>4. Byte(i)' = cells[Cache!Slot(first, m + n + 4)]
      <4>1. Byte(i)' = cells'[Cache!Slot(first', i - 1)]
        BY DEF Byte, Cache!Slot
      <4> QED BY <1>2, <3>1, <3>3, <4>1
    <3>5. Byte(m + n + 4 + 1) = cells[Cache!Slot(first, m + n + 4)]
      <4>1. PICK p : p = m + n + 4 + 1
        OBVIOUS
      <4>2. Byte(p) = cells[Cache!Slot(first, p - 1)]
        BY DEF Byte
      <4>3. p - 1 = m + n + 4
        BY <1>4, <4>1
      <4> QED BY <4>1, <4>2, <4>3
    <3>6. Byte(i)' = c + (m + n + 4 + 1)
      BY <2>9, <3>2, <3>4, <3>5
    <3> QED BY <1>4, <2>6, <2>7, <2>10, <3>2, <3>6
  <2>13. Unhandled'
    <3>1. handled' <= Len(sent')
      BY <1>2, <2>5
    <3>2. Cache!Size' = got' - EndOf(handled)'
      BY <1>1, <1>2, <1>4, <2>6, <2>7, <2>8, <2>10, <2>11
    <3> QED BY <2>12, <3>1, <3>2 DEF Unhandled
  <2>14. LastCommand'
    <3>1. \A i \in 1 .. n : Byte(4 + i) = c + 4 + i
      <4> SUFFICES ASSUME NEW i \in 1 .. n PROVE Byte(4 + i) = c + 4 + i
        OBVIOUS
      <4>1. 4 + i \in 1 .. z
        BY <1>1, <1>4
      <4>2. Byte(4 + i) = c + (4 + i)
        BY <2>9, <4>1
      <4> QED BY <2>6, <4>2
    <3>2. command' = [i \in 1 .. n |-> c + 4 + i]
      BY <1>3, <3>1 DEF PACKET_HEADER_SIZE
    <3> QED BY <2>10, <3>2 DEF LastCommand, PACKET_HEADER_SIZE
  <2> QED BY <1>2, <2>13, <2>14 DEF NothingWaits
<1>13. Roomy' => ~spilt'
  BY <1>2, <1>10 DEF Roomy, ReaderInv
<1> QED BY <1>9, <1>11, <1>12, <1>13 DEF ReaderInv

LEMMA LoopEndsOK == ASSUME ReaderInv, LoopEnds PROVE ReaderInv'
<1>1. /\ reading' = FALSE /\ UNCHANGED <<cells, first, next, got, sent, spilt, handled, command>>
      /\ \E n \in LengthsAt(1) : ~PackageReady(n)
  BY DEF LoopEnds
<1>2. ReaderTypes /\ EndsGrow
  BY DEF ReaderInv
<1>3. ReaderTypes'
  BY <1>1, <1>2 DEF ReaderTypes
<1>4. /\ \A j : EndOf(j)' = EndOf(j) /\ LengthOf(j)' = LengthOf(j) /\ Byte(j)' = Byte(j)
      /\ EndOf(handled)' = EndOf(handled) /\ EndOf(handled - 1)' = EndOf(handled - 1)
      /\ EndOf(handled + 1)' = EndOf(handled + 1) /\ LengthOf(handled)' = LengthOf(handled)
      /\ TotalSent' = TotalSent /\ Cache!Size' = Cache!Size
  BY <1>1 DEF EndOf, LengthOf, TotalSent, Byte, Cache!Size, Cache!SizeOf
<1>5. EndsGrow' /\ got' <= TotalSent'
  BY <1>1, <1>2, <1>4 DEF EndsGrow, ReaderInv
<1>6. ASSUME ~spilt' PROVE Unhandled' /\ LastCommand' /\ NothingWaits'
  <2>1. ~spilt /\ Unhandled /\ LastCommand
    BY <1>1, <1>6 DEF ReaderInv
  <2>2. Unhandled' /\ LastCommand'
    BY <1>1, <1>4, <2>1 DEF Unhandled, LastCommand
  <2>3. ASSUME handled # Len(sent) PROVE got < EndOf(handled + 1)
    <3>1. PICK c \in Nat : c = EndOf(handled)
      BY <2>1, UnhandledBound
    <3>2. PICK z \in Nat : z = Cache!Size
      BY <2>1, UnhandledBound
    <3>3. got = c + z /\ handled \in 0 .. Len(sent)
      BY <2>1, <3>1, <3>2, UnhandledBound
    <3>4. PICK h : h = handled + 1
      OBVIOUS
    <3>5. h \in 0 .. Len(sent) /\ h - 1 = handled /\ handled < h
      BY <1>2, <2>3, <3>3, <3>4, EndsTyped
    <3>6. EndOf(h) \in Nat /\ c + 4 <= EndOf(h)
      BY <1>2, <3>1, <3>3, <3>5, EndsTyped DEF EndsGrow, PACKET_HEADER_SIZE
    <3>7. CASE z < 4
      BY <3>1, <3>2, <3>3, <3>4, <3>6, <3>7
    <3>8. CASE z >= 4
      <4>1. ~PackageReady(LengthOf(h))
        BY <1>1, <2>1, <3>2, <3>4, <3>8, HeaderRead DEF PACKET_HEADER_SIZE
      <4>2. LengthOf(h) = EndOf(h) - c - 4
        BY <3>1, <3>5 DEF LengthOf, PACKET_HEADER_SIZE
      <4>3. ~(z >= 4 + (EndOf(h) - c - 4))
        BY <3>2, <4>1, <4>2 DEF PackageReady, PACKET_HEADER_SIZE
      <4> QED BY <3>1, <3>2, <3>3, <3>4, <3>6, <4>3
    <3> QED BY <3>2, <3>7, <3>8
  <2>4. NothingWaits'
    BY <1>1, <1>4, <2>3 DEF NothingWaits
  <2> QED BY <2>2, <2>4
<1>7. Roomy' => ~spilt'
  BY <1>1, <1>4 DEF Roomy, ReaderInv
<1> QED BY <1>3, <1>5, <1>6, <1>7 DEF ReaderInv

LEMMA ReaderNextOK == ASSUME ReaderInv, [ReaderNext]_readerVars PROVE ReaderInv'
<1>1. CASE UNCHANGED readerVars
  <2>1. UNCHANGED <<cells, first, next, got, sent, spilt, reading, handled, command>>
    BY <1>1 DEF readerVars
  <2>2. UNCHANGED <<ReaderTypes, EndsGrow, TotalSent, Unhandled, LastCommand, NothingWaits, Roomy>>
    BY <2>1 DEF ReaderTypes, EndsGrow, TotalSent, Unhandled, LastCommand, NothingWaits, Roomy,
                EndOf, LengthOf, Byte, Cache!Size, Cache!SizeOf, Cache!Slot
  <2> QED BY <2>1, <2>2 DEF ReaderInv
<1> QED BY <1>1, SendCommandOK, ReadSocketOK, ReadSocketRefusedOK, ReadPackageOK, LoopEndsOK
        DEF ReaderNext

\* The commands that have come whole are those handled
LEMMA HandledWhole ==
  ASSUME ReaderInv, ~spilt, ~reading
  PROVE  handled = Cardinality({k \in 1 .. Len(sent) : EndOf(k) <= got})
<1>1. ReaderTypes /\ EndsGrow /\ NothingWaits
  BY DEF ReaderInv
<1>2. PICK h \in Nat : h = handled
  BY <1>1 DEF ReaderTypes
<1>3. PICK l \in Nat : l = Len(sent)
  BY <1>1, EndsTyped
<1>4. h <= l /\ EndOf(h) <= got /\ got \in Nat
  <2>1. handled \in 0 .. Len(sent) /\ got = EndOf(handled) + Cache!Size /\ Cache!Size \in Nat
        /\ EndOf(handled) \in Nat
    BY UnhandledBound
  <2> QED BY <1>2, <1>3, <2>1
<1>5. ASSUME NEW k \in 1 .. l PROVE EndOf(k) <= got <=> k <= h
  <2>1. /\ k \in 0 .. Len(sent) /\ h \in 0 .. Len(sent) /\ EndOf(k) \in Nat /\ EndOf(h) \in Nat
    BY <1>1, <1>3, <1>4, EndsTyped
  <2>2. CASE k <= h
    <3>1. k = h \/ EndOf(k) + 4 <= EndOf(h)
      BY <1>1, <2>1, <2>2 DEF EndsGrow, PACKET_HEADER_SIZE
    <3>2. EndOf(k) <= EndOf(h)
      BY <2>1, <3>1
    <3> QED BY <1>4, <2>1, <2>2, <3>2
  <2>3. CASE k > h
    <3>1. PICK m : m = h + 1
      OBVIOUS
    <3>2. m \in 0 .. Len(sent) /\ m <= k
      BY <1>3, <2>1, <2>3, <3>1
    <3>3. got < EndOf(m) /\ EndOf(m) \in Nat
      <4>1. handled # Len(sent)
        BY <1>2, <1>3, <2>3
      <4>2. got < EndOf(handled + 1)
        BY <1>1, <4>1 DEF NothingWaits
      <4> QED BY <1>1, <1>2, <3>1, <3>2, <4>2, EndsTyped
    <3>4. m = k \/ EndOf(m) + 4 <= EndOf(k)
      BY <1>1, <2>1, <3>2 DEF EndsGrow, PACKET_HEADER_SIZE
    <3>5. got < EndOf(k)
      BY <1>4, <2>1, <3>3, <3>4
    <3> QED BY <1>4, <2>1, <2>3, <3>5
  <2> QED BY <2>1, <2>2, <2>3
<1>6. {k \in 1 .. Len(sent) : EndOf(k) <= got} = 1 .. h
  BY <1>3, <1>4, <1>5
<1>7. Cardinality(1 .. h) = (IF 1 > h THEN 0 ELSE h - 1 + 1)
  <2>1. 1 \in Int /\ h \in Int
    OBVIOUS
  <2> QED BY <2>1, FS_Interval, Zenon
<1>8. Cardinality(1 .. h) = h
  BY <1>7
<1> QED BY <1>2, <1>6, <1>8

\* Every command is read whole and in order, whatever blocks the bytes arrive
\* in and wherever the cache wraps, and no command that is there waits for a
\* later one, as long as no block fills the cache; which none does if every
\* command leaves room for a block.  For every cache, block and command size.
THEOREM ReadsCommands == ReaderSpec => []CommandsWhole
<1>1. ReaderInit => ReaderInv
  BY ReaderInitOK
<1>2. ReaderInv /\ [ReaderNext]_readerVars => ReaderInv'
  BY ReaderNextOK
<1>3. ReaderInv => CommandsWhole
  BY HandledWhole DEF ReaderInv, LastCommand, Roomy, CommandsWhole
<1> QED BY <1>1, <1>2, <1>3, PTL DEF ReaderSpec


-----------------------------------------------------------------------------
(* The buffers packets are serialized into.                                 *)

IntValue == Int \cup {"code", "#", "width", "decimals", "any"}
IntPieces == {IntPiece(w, v) : w \in Nat, v \in IntValue}
LengthPieces == {LengthPiece(w, f, v) : w \in Nat, f \in Nat, v \in Nat}
CharPieces == {Chars(n) : n \in Nat}
Piece == IntPieces \cup LengthPieces \cup CharPieces

BufferType == [len : Nat, pos : Nat, pieces : Seq(Piece), ok : BOOLEAN]

\* c is b with one piece more
Extends(b, c, piece) ==
  /\ c.len = b.len /\ c.pos = b.pos + piece.size /\ c.ok = TRUE
  /\ Len(c.pieces) = Len(b.pieces) + 1
  /\ c.pieces[Len(b.pieces) + 1] = piece
  /\ \A i \in 1 .. Len(b.pieces) : c.pieces[i] = b.pieces[i]

\* c is b after a store that has failed
Same(b, c) == c.len = b.len /\ c.pos = b.pos /\ c.pieces = b.pieces

LEMMA PieceTyped ==
  /\ \A w \in Nat, v \in IntValue : IntPiece(w, v) \in Piece
  /\ \A w, f, v \in Nat : LengthPiece(w, f, v) \in Piece
  /\ \A n \in Nat : Chars(n) \in Piece
  /\ \A p \in Piece : p.size \in Nat
<1>1. \A p \in Piece : p.size \in Nat
  <2>1. \A p \in IntPieces : p.size \in Nat
    BY DEF IntPieces, IntPiece
  <2>2. \A p \in LengthPieces : p.size \in Nat
    BY DEF LengthPieces, LengthPiece
  <2>3. \A p \in CharPieces : p.size \in Nat
    BY DEF CharPieces, Chars
  <2> QED BY <2>1, <2>2, <2>3 DEF Piece
<1>2. \A w \in Nat, v \in IntValue : IntPiece(w, v) \in Piece
  BY DEF IntPieces, Piece
<1>3. \A w, f, v \in Nat : LengthPiece(w, f, v) \in Piece
  BY DEF LengthPieces, Piece
<1>4. \A n \in Nat : Chars(n) \in Piece
  BY DEF CharPieces, Piece
<1> QED BY <1>1, <1>2, <1>3, <1>4

LEMMA PutExtends ==
  ASSUME NEW b \in BufferType, NEW p \in Piece
  PROVE  Put(b, p) \in BufferType /\ Extends(b, Put(b, p), p)
<1>1. PICK q : q = Append(b.pieces, p)
  OBVIOUS
<1>2. b.pieces \in Seq(Piece) /\ b.len \in Nat /\ b.pos \in Nat /\ p.size \in Nat
  BY PieceTyped DEF BufferType
<1>3. /\ q \in Seq(Piece) /\ Len(q) = Len(b.pieces) + 1 /\ q[Len(b.pieces) + 1] = p
      /\ \A i \in 1 .. Len(b.pieces) : q[i] = b.pieces[i]
  BY <1>1, <1>2
<1>4. Put(b, p) = [len |-> b.len, pos |-> b.pos + p.size, pieces |-> q, ok |-> TRUE]
  <2>1. PICK c : c = Put(b, p)
    OBVIOUS
  <2>2. c = [b EXCEPT !.pos = b.pos + p.size, !.pieces = q, !.ok = TRUE]
    BY <1>1, <2>1 DEF Put
  <2>3. c = [len |-> b.len, pos |-> b.pos + p.size, pieces |-> q, ok |-> TRUE]
    BY <2>2 DEF BufferType
  <2> QED BY <2>1, <2>3
<1> QED BY <1>2, <1>3, <1>4 DEF BufferType, Extends

LEMMA FailedSame ==
  ASSUME NEW b \in BufferType
  PROVE  Failed(b) \in BufferType /\ Same(b, Failed(b)) /\ Failed(b).ok = FALSE
BY DEF Failed, Same, BufferType

LEMMA FreshTyped ==
  ASSUME NEW n \in Nat
  PROVE  /\ Fresh(n) \in BufferType
         /\ Fresh(n).len = n + 4 /\ Fresh(n).pos = 4 /\ Fresh(n).pieces = <<>> /\ Fresh(n).ok = TRUE
<1>1. <<>> \in Seq(Piece)
  OBVIOUS
<1> QED BY <1>1 DEF Fresh, Buffer, BufferType, PACKET_HEADER_SIZE

-----------------------------------------------------------------------------
(* Texts.                                                                   *)

\* How a length is stored, and NULL
LengthFor(n) ==
  IF n < 251 THEN LengthPiece(1, n, n)
  ELSE IF n < 65536 THEN LengthPiece(3, 252, n)
  ELSE IF n < 16777216 THEN LengthPiece(4, 253, n)
  ELSE LengthPiece(9, 254, n)
NullPiece == LengthPiece(1, 251, 0)

LEMMA LengthForTyped ==
  ASSUME NEW n \in Nat
  PROVE  /\ LengthFor(n) \in Piece /\ LengthFor(n).piece = "length"
         /\ GetLength(LengthFor(n)) = n
         /\ LengthFor(n).size \in Nat /\ LengthFor(n).size >= 1 /\ LengthFor(n).size <= 9
         /\ n < 65536 => LengthFor(n).size = Prefix(n)
<1>1. LengthFor(n) \in Piece
  BY PieceTyped DEF LengthFor
<1> QED BY <1>1 DEF LengthFor, LengthPiece, GetLength, Prefix

LEMMA StoreLengthIs ==
  ASSUME NEW b \in BufferType, NEW n \in Nat
  PROVE  StoreLength(b, n) = IF LengthFor(n).size <= Remain(b) THEN Put(b, LengthFor(n)) ELSE Failed(b)
<1>1. Remain(b) \in Int
  BY DEF Remain, BufferType
<1>2. CASE n < 251
  BY <1>1, <1>2 DEF StoreLength, LengthFor, LengthPiece
<1>3. CASE n >= 251 /\ n < 65536
  BY <1>1, <1>3 DEF StoreLength, LengthFor, LengthPiece
<1>4. CASE n >= 65536 /\ n < 16777216
  BY <1>1, <1>4 DEF StoreLength, LengthFor, LengthPiece
<1>5. CASE n >= 16777216
  BY <1>1, <1>5 DEF StoreLength, LengthFor, LengthPiece
<1> QED BY <1>2, <1>3, <1>4, <1>5

\* c is b with a text of n characters
HasText(b, c, n) ==
  /\ c.len = b.len /\ c.pos = b.pos + LengthFor(n).size + n /\ c.ok = TRUE
  /\ Len(c.pieces) = Len(b.pieces) + 2
  /\ c.pieces[Len(b.pieces) + 1] = LengthFor(n) /\ c.pieces[Len(b.pieces) + 2] = Chars(n)
  /\ \A i \in 1 .. Len(b.pieces) : c.pieces[i] = b.pieces[i]

\* A text is stored with its length, if there is room for both, or not at all
Stores(b, c, n) ==
  /\ c \in BufferType
  /\ LengthFor(n).size + n <= Remain(b) => HasText(b, c, n)
  /\ LengthFor(n).size + n > Remain(b) => Same(b, c) /\ c.ok = FALSE

LEMMA StoreStrIs ==
  ASSUME NEW b \in BufferType, NEW n \in Nat
  PROVE  Stores(b, StoreStr(b, n), n)
<1>1. PICK s \in Nat : s = LengthFor(n).size /\ s >= 1
  BY LengthForTyped
<1>2. PICK r \in Int : r = Remain(b)
  BY DEF Remain, BufferType
<1>3. PICK c : c = StoreStr(b, n)
  OBVIOUS
<1>4. CASE s > r
  <2>1. StoreLength(b, n) = Failed(b)
    BY <1>1, <1>2, <1>4, StoreLengthIs
  <2>2. c = Failed(b)
    BY <1>3, <2>1, FailedSame DEF StoreStr
  <2>3. c \in BufferType /\ Same(b, c) /\ c.ok = FALSE
    BY <2>2, FailedSame
  <2>4. ~(s + n <= r)
    BY <1>4
  <2>5. Stores(b, c, n)
    BY <1>1, <1>2, <2>3, <2>4 DEF Stores
  <2> QED BY <1>3, <2>5
<1>5. CASE s <= r
  <2>1. PICK d : d = StoreLength(b, n)
    OBVIOUS
  <2>2. PICK l \in Piece : l = LengthFor(n)
    BY LengthForTyped
  <2>3. d = Put(b, l)
    BY <1>1, <1>2, <1>5, <2>1, <2>2, StoreLengthIs
  <2>4. d \in BufferType /\ Extends(b, d, l) /\ d.ok = TRUE
    <3>1. d \in BufferType /\ Extends(b, d, l)
      BY <2>3, PutExtends, Zenon
    <3> QED BY <3>1, Zenon DEF Extends
  <2>5. Remain(d) = r - s
    BY <1>1, <1>2, <2>2, <2>4 DEF Remain, Extends, BufferType
  <2>6. c = IF n <= r - s THEN Put(d, Chars(n)) ELSE Failed(b)
    BY <1>3, <2>1, <2>4, <2>5 DEF StoreStr
  <2>7. CASE n > r - s
    <3>0. c = Failed(b)
      BY <1>1, <1>2, <2>6, <2>7
    <3>1. c \in BufferType /\ Same(b, c) /\ c.ok = FALSE
      BY <3>0, FailedSame
    <3>2. ~(s + n <= r)
      BY <1>1, <1>2, <2>7
    <3>3. Stores(b, c, n)
      BY <1>1, <1>2, <3>1, <3>2 DEF Stores
    <3> QED BY <1>3, <3>3
  <2>8. CASE n <= r - s
    <3>1. PICK t \in Piece : t = Chars(n) /\ t.size = n
      BY PieceTyped DEF Chars
    <3>2. c \in BufferType /\ Extends(d, c, t)
      BY <2>4, <2>6, <2>8, <3>1, PutExtends
    <3>3. Len(b.pieces) \in Nat /\ Len(d.pieces) = Len(b.pieces) + 1 /\ b.pos \in Nat
      BY <2>4 DEF Extends, BufferType
    <3>4. c.len = b.len /\ c.pos = b.pos + s + n /\ c.ok = TRUE
      BY <1>1, <2>2, <2>4, <3>1, <3>2, <3>3 DEF Extends
    <3>5. /\ Len(c.pieces) = Len(b.pieces) + 2
          /\ c.pieces[Len(b.pieces) + 2] = t
          /\ \A i \in 1 .. Len(d.pieces) : c.pieces[i] = d.pieces[i]
      BY <3>2, <3>3 DEF Extends
    <3>6. /\ d.pieces[Len(b.pieces) + 1] = l
          /\ \A i \in 1 .. Len(b.pieces) : d.pieces[i] = b.pieces[i]
      BY <2>4 DEF Extends
    <3>7. /\ c.pieces[Len(b.pieces) + 1] = l
          /\ \A i \in 1 .. Len(b.pieces) : c.pieces[i] = b.pieces[i]
      BY <3>3, <3>5, <3>6, SMTT(30)
    <3>8. HasText(b, c, n)
      BY <1>1, <2>2, <3>1, <3>4, <3>5, <3>7 DEF HasText
    <3>9. ~(s + n > r)
      BY <1>1, <1>2, <2>8
    <3>10. Stores(b, c, n)
      BY <1>1, <1>2, <3>2, <3>8, <3>9 DEF Stores
    <3> QED BY <1>3, <3>10
  <2> QED BY <1>1, <1>2, <2>7, <2>8
<1> QED BY <1>1, <1>2, <1>4, <1>5


-----------------------------------------------------------------------------
(* Rows.                                                                    *)

\* Induction, over a set of numbers
LEMMA FromZeroOn ==
  ASSUME NEW S, S \subseteq Nat, 0 \in S, \A n \in S : n + 1 \in S
  PROVE  S = Nat
<1> SUFFICES ASSUME Nat \ S # {} PROVE FALSE
  OBVIOUS
<1> DEFINE T == Nat \ S
<1>1. T \subseteq Nat /\ T # {}
  OBVIOUS
<1>2. PICK n \in T : \A y \in T : ~(<<y, n>> \in OpToRel(<, Nat))
  <2> HIDE DEF T
  <2> QED BY <1>1, NatLessThanWellFounded, WFMin
<1>3. \A y \in T : ~(y < n)
  BY <1>1, <1>2 DEF OpToRel
<1>4. n \in Nat /\ n # 0 /\ n \notin S
  OBVIOUS
<1>5. n - 1 \in Nat /\ n - 1 < n
  BY <1>4
<1>6. n - 1 \in S
  BY <1>3, <1>5
<1> QED BY <1>4, <1>6

\* The buffers of a row are those CellsStored says
LEMMA CellsStoredIs ==
  ASSUME NEW b, NEW row, Len(row) \in Nat
  PROVE  \A i \in 0 .. Len(row) :
           CellsStored(b, row)[i] = IF i = 0 THEN b ELSE Cell(CellsStored(b, row)[i - 1], row[i])
<1> DEFINE Recursive(f, n) == f = [i \in 0 .. n |-> IF i = 0 THEN b ELSE Cell(f[i - 1], row[i])]
           S == {n \in Nat : \E f : Recursive(f, n)}
<1>1. 0 \in S
  <2> DEFINE f == [i \in 0 .. 0 |-> b]
  <2>1. Recursive(f, 0)
    OBVIOUS
  <2> QED BY <2>1
<1>2. ASSUME NEW n \in S PROVE n + 1 \in S
  <2>1. PICK f : Recursive(f, n)
    OBVIOUS
  <2> DEFINE g == [i \in 0 .. n + 1 |-> IF i <= n THEN f[i] ELSE Cell(f[n], row[n + 1])]
  <2>2. n \in Nat
    OBVIOUS
  <2>3. ASSUME NEW i \in 0 .. n + 1
        PROVE  g[i] = IF i = 0 THEN b ELSE Cell(g[i - 1], row[i])
    <3>1. CASE i = 0
      BY <2>1, <2>2, <3>1
    <3>2. CASE i \in 1 .. n
      <4>1. g[i] = f[i] /\ g[i - 1] = f[i - 1] /\ i # 0 /\ i \in 0 .. n
        BY <2>2, <3>2
      <4>2. f[i] = Cell(f[i - 1], row[i])
        BY <2>1, <4>1
      <4> QED BY <4>1, <4>2
    <3>3. CASE i = n + 1
      <4>1. g[i] = Cell(f[n], row[n + 1]) /\ g[i - 1] = f[n] /\ i # 0
        BY <2>2, <3>3
      <4> QED BY <3>3, <4>1
    <3> QED BY <2>2, <3>1, <3>2, <3>3
  <2>4. g = [i \in 0 .. n + 1 |-> g[i]]
    OBVIOUS
  <2> HIDE DEF g
  <2>5. Recursive(g, n + 1)
    BY <2>3, <2>4
  <2> HIDE DEF Recursive
  <2>6. \E h : Recursive(h, n + 1)
    BY <2>5
  <2> QED BY <2>2, <2>6
<1> HIDE DEF S
<1>3. S = Nat
  <2>1. S \subseteq Nat
    BY DEF S
  <2> QED BY <1>1, <1>2, <2>1, FromZeroOn
<1>4. \E f : Recursive(f, Len(row))
  BY <1>3 DEF S
<1>5. Recursive(CellsStored(b, row), Len(row))
  BY <1>4 DEF CellsStored
<1> QED BY <1>5


\* The sums of a row are those BytesUpTo says
LEMMA BytesUpToIs ==
  ASSUME NEW row, Len(row) \in Nat
  PROVE  \A i \in 0 .. Len(row) :
           BytesUpTo(row)[i] = IF i = 0 THEN 0 ELSE BytesUpTo(row)[i - 1] + CellBytes(row[i])
<1> DEFINE Recursive(f, n) == f = [i \in 0 .. n |-> IF i = 0 THEN 0 ELSE f[i - 1] + CellBytes(row[i])]
           S == {n \in Nat : \E f : Recursive(f, n)}
<1>1. 0 \in S
  <2> DEFINE f == [i \in 0 .. 0 |-> 0]
  <2>1. Recursive(f, 0)
    OBVIOUS
  <2> QED BY <2>1
<1>2. ASSUME NEW n \in S PROVE n + 1 \in S
  <2>1. PICK f : Recursive(f, n)
    OBVIOUS
  <2> DEFINE g == [i \in 0 .. n + 1 |-> IF i <= n THEN f[i] ELSE f[n] + CellBytes(row[n + 1])]
  <2>2. n \in Nat
    OBVIOUS
  <2>3. ASSUME NEW i \in 0 .. n + 1
        PROVE  g[i] = IF i = 0 THEN 0 ELSE g[i - 1] + CellBytes(row[i])
    <3>1. CASE i = 0
      BY <2>1, <2>2, <3>1
    <3>2. CASE i \in 1 .. n
      <4>1. g[i] = f[i] /\ g[i - 1] = f[i - 1] /\ i # 0 /\ i \in 0 .. n
        BY <2>2, <3>2
      <4>2. f[i] = f[i - 1] + CellBytes(row[i])
        BY <2>1, <4>1
      <4> QED BY <4>1, <4>2
    <3>3. CASE i = n + 1
      <4>1. g[i] = f[n] + CellBytes(row[n + 1]) /\ g[i - 1] = f[n] /\ i # 0
        BY <2>2, <3>3
      <4> QED BY <3>3, <4>1
    <3> QED BY <2>2, <3>1, <3>2, <3>3
  <2>4. g = [i \in 0 .. n + 1 |-> g[i]]
    OBVIOUS
  <2> HIDE DEF g
  <2>5. Recursive(g, n + 1)
    BY <2>3, <2>4
  <2> HIDE DEF Recursive
  <2>6. \E h : Recursive(h, n + 1)
    BY <2>5
  <2> QED BY <2>2, <2>6
<1> HIDE DEF S
<1>3. S = Nat
  <2>1. S \subseteq Nat
    BY DEF S
  <2> QED BY <1>1, <1>2, <2>1, FromZeroOn
<1>4. \E f : Recursive(f, Len(row))
  BY <1>3 DEF S
<1>5. Recursive(BytesUpTo(row), Len(row))
  BY <1>4 DEF BytesUpTo
<1> QED BY <1>5

\* What the client reads from piece i on, if f is what it reads behind it
NullAt(p, i) == i <= Len(p) /\ p[i].piece = "length" /\ GetLength(p[i]) = -1
TextAt(p, i) == i <= Len(p) /\ IsText(p, i)
Reading(p, f, i) ==
  IF NullAt(p, i) THEN [texts |-> <<-1>> \o f[i + 1].texts, end |-> f[i + 1].end]
  ELSE IF TextAt(p, i) THEN [texts |-> <<GetLength(p[i])>> \o f[i + 2].texts, end |-> f[i + 2].end]
  ELSE [texts |-> <<>>, end |-> i]

LEMMA TextsFromIs ==
  ASSUME NEW p, Len(p) \in Nat
  PROVE  \A i \in 1 .. Len(p) + 1 : TextsFrom(p)[i] = Reading(p, TextsFrom(p), i)
<1> DEFINE Recursive(f, a, l) == f = [i \in a .. l + 1 |-> Reading(p, f, i)]
           S == {n \in Nat : n <= Len(p) => \E f : Recursive(f, Len(p) + 1 - n, Len(p))}
<1>0. PICK l \in Nat : l = Len(p)
  OBVIOUS
<1>1. 0 \in S
  <2> DEFINE f == [i \in l + 1 .. l + 1 |-> [texts |-> <<>>, end |-> i]]
  <2>1. ASSUME NEW i \in l + 1 .. l + 1 PROVE f[i] = Reading(p, f, i)
    <3>1. ~NullAt(p, i) /\ ~TextAt(p, i)
      BY <1>0 DEF NullAt, TextAt
    <3> QED BY <3>1 DEF Reading
  <2>2. f = [i \in l + 1 .. l + 1 |-> f[i]]
    OBVIOUS
  <2> HIDE DEF f
  <2>3. Recursive(f, l + 1, l)
    BY <2>1, <2>2
  <2> HIDE DEF Recursive
  <2>4. \E h : Recursive(h, l + 1 - 0, l)
    BY <1>0, <2>3
  <2> QED BY <1>0, <2>4
<1>2. ASSUME NEW n \in S PROVE n + 1 \in S
  <2> SUFFICES ASSUME n + 1 <= l PROVE \E h : Recursive(h, l + 1 - (n + 1), l)
    BY <1>0
  <2>1. PICK f : Recursive(f, l + 1 - n, l)
    BY <1>0
  <2>2. PICK m \in Nat : m = l - n /\ m >= 1
    BY <1>0
  <2>3. /\ l + 1 - n = m + 1 /\ l + 1 - (n + 1) = m /\ m <= l
    BY <1>0, <2>2
  <2>4. f = [i \in m + 1 .. l + 1 |-> Reading(p, f, i)]
    BY <2>1, <2>3
  <2> DEFINE g == [i \in m .. l + 1 |-> IF i > m THEN f[i] ELSE Reading(p, f, m)]
  <2>5. ASSUME NEW i \in m .. l + 1 PROVE g[i] = Reading(p, g, i)
    <3>1. i = l + 1 => ~NullAt(p, i) /\ ~TextAt(p, i)
      BY <1>0 DEF NullAt, TextAt
    <3>2. i = l => ~TextAt(p, i)
      BY <1>0 DEF TextAt, IsText
    <3>3. NullAt(p, i) => g[i + 1] = f[i + 1]
      BY <1>0, <2>3, <3>1
    <3>4. TextAt(p, i) => g[i + 2] = f[i + 2]
      BY <1>0, <2>3, <3>1, <3>2
    <3>5. Reading(p, g, i) = Reading(p, f, i)
      BY <3>3, <3>4 DEF Reading
    <3>6. g[i] = Reading(p, f, i)
      <4>1. CASE i = m
        BY <2>3, <4>1
      <4>2. CASE i \in m + 1 .. l + 1
        BY <2>4, <4>2
      <4> QED BY <2>3, <4>1, <4>2
    <3> QED BY <3>5, <3>6
  <2>6. g = [i \in m .. l + 1 |-> g[i]]
    OBVIOUS
  <2> HIDE DEF g
  <2>7. Recursive(g, m, l)
    BY <2>5, <2>6
  <2> HIDE DEF Recursive
  <2> QED BY <2>3, <2>7
<1> HIDE DEF S
<1>3. S = Nat
  <2>1. S \subseteq Nat
    BY DEF S
  <2> QED BY <1>1, <1>2, <2>1, FromZeroOn
<1>4. \E f : Recursive(f, 1, l)
  <2>1. l + 1 - l = 1
    OBVIOUS
  <2> HIDE DEF Recursive
  <2> QED BY <1>0, <1>3, <2>1 DEF S
<1>5. Recursive(TextsFrom(p), 1, l)
  BY <1>0, <1>4 DEF TextsFrom, Reading, NullAt, TextAt
<1> QED BY <1>0, <1>5


\* c is b with a cell
HasCell(b, d, c) ==
  IF c.type = "null" THEN Extends(b, d, NullPiece) ELSE HasText(b, d, c.len)

\* A cell is stored or left out; it is stored if it fits with room to spare
Keeps(b, d, c) ==
  /\ d \in BufferType /\ d.len = b.len
  /\ HasCell(b, d, c) \/ Same(b, d)
  /\ Remain(b) <= RowSize /\ CellBytes(c) + 29 <= Remain(b) =>
       HasCell(b, d, c) /\ d.pos = b.pos + CellBytes(c)

LEMMA NullPieceTyped ==
  /\ NullPiece \in Piece /\ NullPiece.piece = "length" /\ NullPiece.size = 1 /\ GetLength(NullPiece) = -1
BY PieceTyped DEF NullPiece, LengthPiece, GetLength

\* What a store leaves when it fails, or for want of room
LEMMA FailedKeeps ==
  ASSUME NEW b \in BufferType, NEW d \in BufferType, NEW c \in AnswerCell, Same(b, d),
         Remain(b) <= RowSize => CellBytes(c) + 29 > Remain(b)
  PROVE  Keeps(b, d, c)
<1>1. CellBytes(c) \in Nat
  BY DEF CellBytes, Prefix, AnswerCell
<1>2. Remain(b) \in Int
  BY DEF Remain, BufferType
<1>3. d.len = b.len
  BY DEF Same
<1> QED BY <1>1, <1>2, <1>3 DEF Keeps

\* A cell that is stored as a text
LEMMA TextKeeps ==
  ASSUME NEW b \in BufferType, NEW c \in AnswerCell, c.type # "null"
  PROVE  Keeps(b, StoreStr(b, c.len), c)
<1>1. PICK d : d = StoreStr(b, c.len)
  OBVIOUS
<1>2. PICK n \in Nat : n = c.len
  BY DEF AnswerCell
<1>3. Stores(b, d, n)
  BY <1>1, <1>2, StoreStrIs
<1>4. PICK s \in Nat : s = LengthFor(n).size
  BY LengthForTyped
<1>5. PICK r \in Int : r = Remain(b)
  BY DEF Remain, BufferType
<1>6. d \in BufferType
  BY <1>3 DEF Stores
<1>7. CellBytes(c) = Prefix(n) + n /\ Prefix(n) \in Nat
  BY <1>2 DEF CellBytes, Prefix
<1>8. r <= RowSize /\ CellBytes(c) + 29 <= r => s = Prefix(n) /\ s + n <= r
  <2> SUFFICES ASSUME r <= RowSize, CellBytes(c) + 29 <= r PROVE s = Prefix(n) /\ s + n <= r
    OBVIOUS
  <2>1. n < 65536
    BY <1>7 DEF RowSize
  <2>2. s = Prefix(n)
    BY <1>4, <2>1, LengthForTyped
  <2> QED BY <1>7, <2>2
<1>9. CASE s + n > r
  <2>1. Same(b, d)
    BY <1>3, <1>4, <1>5, <1>9 DEF Stores
  <2>2. Remain(b) <= RowSize => CellBytes(c) + 29 > Remain(b)
    BY <1>5, <1>7, <1>8, <1>9 DEF RowSize
  <2> QED BY <1>1, <1>6, <2>1, <2>2, FailedKeeps
<1>10. CASE s + n <= r
  <2>1. HasText(b, d, n)
    BY <1>3, <1>4, <1>5, <1>10 DEF Stores
  <2>2. HasCell(b, d, c) /\ d.len = b.len /\ d.pos = b.pos + s + n
    BY <1>2, <1>4, <2>1 DEF HasCell, HasText
  <2>3. Remain(b) <= RowSize /\ CellBytes(c) + 29 <= Remain(b) => d.pos = b.pos + CellBytes(c)
    <3>1. b.pos \in Nat
      BY DEF BufferType
    <3> QED BY <1>5, <1>7, <1>8, <2>2, <3>1
  <2>4. Keeps(b, d, c)
    BY <1>6, <2>2, <2>3 DEF Keeps
  <2> QED BY <1>1, <2>4
<1> QED BY <1>9, <1>10

LEMMA CellKeeps ==
  ASSUME NEW b \in BufferType, NEW c \in AnswerCell
  PROVE  Keeps(b, Cell(b, c), c)
<1>1. PICK r \in Int : r = Remain(b) /\ r = b.len - b.pos
  BY DEF Remain, BufferType
<1>2. CellBytes(c) \in Nat
  BY DEF CellBytes, Prefix, AnswerCell
<1>3. Failed(b) \in BufferType /\ Same(b, Failed(b))
  BY FailedSame
<1>4. (r <= RowSize => CellBytes(c) + 29 > r) => Keeps(b, Failed(b), c)
  BY <1>1, <1>3, FailedKeeps
<1>5. CASE c.type = "null"
  <2>1. CellBytes(c) = 1
    BY <1>5 DEF CellBytes
  <2>2. CASE r <= 0
    <3>1. Cell(b, c) = Failed(b)
      BY <1>1, <1>5, <2>2 DEF Cell
    <3> QED BY <1>4, <2>1, <2>2, <3>1
  <2>3. CASE r > 0
    <3>1. b.len >= b.pos + 1
      BY <1>1, <2>3 DEF BufferType
    <3>2. Cell(b, c) = Put(b, NullPiece)
      BY <1>1, <1>5, <2>3, <3>1 DEF Cell, StoreNull, PutIf, NullPiece
    <3>3. PICK d : d = Put(b, NullPiece)
      OBVIOUS
    <3>4. d \in BufferType /\ Extends(b, d, NullPiece)
      BY <3>3, NullPieceTyped, PutExtends
    <3>5. HasCell(b, d, c) /\ d.len = b.len /\ d.pos = b.pos + 1
      BY <1>5, <3>4, NullPieceTyped DEF HasCell, Extends
    <3>6. Keeps(b, d, c)
      BY <2>1, <3>4, <3>5 DEF Keeps
    <3> QED BY <3>2, <3>3, <3>6
  <2> QED BY <2>2, <2>3
<1>6. CASE c.type = "number"
  <2>1. Cell(b, c) = IF r < 29 THEN Failed(b) ELSE StoreStr(b, c.len)
    BY <1>1, <1>6 DEF Cell
  <2>2. CASE r < 29
    BY <1>2, <1>4, <2>1, <2>2
  <2>3. CASE r >= 29
    BY <1>6, <2>1, <2>3, TextKeeps
  <2> QED BY <2>2, <2>3
<1>7. CASE c.type = "datetime"
  <2>1. Cell(b, c) = IF r < 21 THEN Failed(b) ELSE StoreStr(b, c.len)
    BY <1>1, <1>7 DEF Cell
  <2>2. CASE r < 21
    BY <1>2, <1>4, <2>1, <2>2
  <2>3. CASE r >= 21
    BY <1>7, <2>1, <2>3, TextKeeps
  <2> QED BY <2>2, <2>3
<1>8. CASE c.type = "varchar"
  <2>1. Cell(b, c) = IF c.len < r THEN StoreStr(b, c.len) ELSE Failed(b)
    BY <1>1, <1>8 DEF Cell
  <2>2. CASE c.len < r
    BY <1>8, <2>1, <2>2, TextKeeps
  <2>3. CASE c.len >= r
    <3>1. CellBytes(c) >= c.len /\ c.len \in Nat
      BY <1>8 DEF CellBytes, Prefix, AnswerCell
    <3>2. CellBytes(c) + 29 > r
      BY <1>2, <2>3, <3>1
    <3>3. Cell(b, c) = Failed(b)
      BY <2>1, <2>3, <3>1
    <3> QED BY <1>4, <3>2, <3>3
  <2>4. c.len \in Nat
    BY DEF AnswerCell
  <2> QED BY <2>2, <2>3, <2>4
<1>9. CASE c.type = "bool"
  <2>1. Cell(b, c) = StoreStr(b, c.len)
    BY <1>9 DEF Cell
  <2> QED BY <1>9, <2>1, TextKeeps
<1>10. c.type \in {"null", "bool", "number", "datetime", "varchar"}
  BY DEF AnswerCell
<1> QED BY <1>5, <1>6, <1>7, <1>8, <1>9, <1>10


\* A row to store, and the buffers while it is stored
RowBuffers(row, D) ==
  /\ row \in Seq(AnswerCell)
  /\ D = CellsStored(Fresh(RowSize), row)

LEMMA RowBuffersAre ==
  ASSUME NEW row, NEW D, RowBuffers(row, D)
  PROVE  /\ D[0] = Fresh(RowSize)
         /\ \A i \in 0 .. Len(row) : D[i] \in BufferType /\ D[i].len = RowSize + 4
         /\ \A i \in 1 .. Len(row) : Keeps(D[i - 1], D[i], row[i])
<1>1. PICK k \in Nat : k = Len(row)
  BY DEF RowBuffers
<1>2. \A i \in 0 .. k : D[i] = IF i = 0 THEN Fresh(RowSize) ELSE Cell(D[i - 1], row[i])
  BY <1>1, CellsStoredIs DEF RowBuffers
<1>3. D[0] = Fresh(RowSize)
  BY <1>1, <1>2
<1>4. D[0] \in BufferType /\ D[0].len = RowSize + 4
  <2>1. RowSize \in Nat
    BY DEF RowSize
  <2> QED BY <1>3, <2>1, FreshTyped
<1>5. ASSUME NEW i \in 1 .. k, D[i - 1] \in BufferType PROVE Keeps(D[i - 1], D[i], row[i])
  <2>1. row[i] \in AnswerCell
    BY <1>1 DEF RowBuffers
  <2>2. D[i] = Cell(D[i - 1], row[i])
    BY <1>2
  <2> QED BY <1>5, <2>1, <2>2, CellKeeps
<1> DEFINE S == {n \in Nat : n <= k => D[n] \in BufferType /\ D[n].len = RowSize + 4}
<1>6. 0 \in S
  BY <1>4
<1>7. ASSUME NEW n \in S PROVE n + 1 \in S
  <2> SUFFICES ASSUME n + 1 <= k PROVE D[n + 1] \in BufferType /\ D[n + 1].len = RowSize + 4
    OBVIOUS
  <2>1. PICK i \in 1 .. k : i = n + 1 /\ i - 1 = n
    OBVIOUS
  <2>2. Keeps(D[i - 1], D[i], row[i])
    BY <1>5, <2>1
  <2> QED BY <2>1, <2>2 DEF Keeps
<1>8. S = Nat
  <2>1. S \subseteq Nat
    OBVIOUS
  <2> HIDE DEF S
  <2> QED BY <1>6, <1>7, <2>1, FromZeroOn
<1>9. \A i \in 0 .. k : D[i] \in BufferType /\ D[i].len = RowSize + 4
  BY <1>8
<1>10. \A i \in 1 .. k : Keeps(D[i - 1], D[i], row[i])
  <2> SUFFICES ASSUME NEW i \in 1 .. k PROVE Keeps(D[i - 1], D[i], row[i])
    OBVIOUS
  <2>1. i - 1 \in 0 .. k
    OBVIOUS
  <2> QED BY <1>5, <1>9, <2>1
<1> QED BY <1>1, <1>3, <1>9, <1>10

\* The first cells of a row take no more than all of them
LEMMA SumsGrow ==
  ASSUME NEW row \in Seq(AnswerCell)
  PROVE  \A i \in 0 .. Len(row) :
           /\ BytesUpTo(row)[i] \in Nat
           /\ \A j \in 0 .. i : BytesUpTo(row)[j] <= BytesUpTo(row)[i]
<1>1. PICK k \in Nat : k = Len(row)
  OBVIOUS
<1>2. PICK s : s = BytesUpTo(row)
  OBVIOUS
<1>3. \A i \in 0 .. k : s[i] = IF i = 0 THEN 0 ELSE s[i - 1] + CellBytes(row[i])
  BY <1>1, <1>2, BytesUpToIs
<1>4. \A i \in 1 .. k : CellBytes(row[i]) \in Nat
  <2> SUFFICES ASSUME NEW i \in 1 .. k PROVE CellBytes(row[i]) \in Nat
    OBVIOUS
  <2>1. row[i] \in AnswerCell
    BY <1>1
  <2> QED BY <2>1 DEF CellBytes, Prefix, AnswerCell
<1> DEFINE S == {n \in Nat : n <= k => \A j \in 0 .. n : s[j] \in Nat /\ s[j] <= s[n]}
<1>5. 0 \in S
  BY <1>3
<1>6. ASSUME NEW n \in S PROVE n + 1 \in S
  <2> SUFFICES ASSUME n + 1 <= k
               PROVE  \A j \in 0 .. n + 1 : s[j] \in Nat /\ s[j] <= s[n + 1]
    OBVIOUS
  <2>1. s[n] \in Nat /\ \A j \in 0 .. n : s[j] \in Nat /\ s[j] <= s[n]
    OBVIOUS
  <2>2. PICK i \in 1 .. k : i = n + 1 /\ i - 1 = n
    OBVIOUS
  <2>3. s[i] = s[n] + CellBytes(row[i])
    BY <1>3, <2>2
  <2>4. s[i] \in Nat /\ s[n] <= s[i]
    BY <1>4, <2>1, <2>3
  <2>5. ASSUME NEW j \in 0 .. n + 1 PROVE s[j] \in Nat /\ s[j] <= s[i]
    <3>1. CASE j = i
      BY <2>4, <3>1
    <3>2. CASE j \in 0 .. n
      BY <2>1, <2>4, <3>2
    <3> QED BY <2>2, <3>1, <3>2
  <2> QED BY <2>2, <2>4, <2>5
<1>7. S = Nat
  <2>1. S \subseteq Nat
    OBVIOUS
  <2> HIDE DEF S
  <2> QED BY <1>5, <1>6, <2>1, FromZeroOn
<1> QED BY <1>1, <1>2, <1>7


\* Every cell of a row that fits is stored
LEMMA RowFits ==
  ASSUME NEW row, NEW D, RowBuffers(row, D), RowBytes(row) <= RowSize - 29
  PROVE  \A i \in 1 .. Len(row) : HasCell(D[i - 1], D[i], row[i])
<1>1. PICK k \in Nat : k = Len(row)
  BY DEF RowBuffers
<1>2. PICK s : s = BytesUpTo(row)
  OBVIOUS
<1>3. /\ \A i \in 0 .. k : s[i] \in Nat /\ s[i] <= s[k]
      /\ s[k] <= 991 /\ s[0] = 0
  <2>1. row \in Seq(AnswerCell)
    BY DEF RowBuffers
  <2>2. \A i \in 0 .. k : s[i] \in Nat /\ s[i] <= s[k]
    BY <1>1, <1>2, <2>1, SumsGrow
  <2>3. s[0] = 0
    BY <1>1, <1>2, BytesUpToIs
  <2> QED BY <1>1, <1>2, <2>2, <2>3 DEF RowBytes, RowSize
<1>4. \A i \in 1 .. k : s[i] = s[i - 1] + CellBytes(row[i]) /\ CellBytes(row[i]) \in Nat
  <2> SUFFICES ASSUME NEW i \in 1 .. k
               PROVE  s[i] = s[i - 1] + CellBytes(row[i]) /\ CellBytes(row[i]) \in Nat
    OBVIOUS
  <2>1. row[i] \in AnswerCell
    BY <1>1 DEF RowBuffers
  <2>2. CellBytes(row[i]) \in Nat
    BY <2>1 DEF CellBytes, Prefix, AnswerCell
  <2> QED BY <1>1, <1>2, <2>2, BytesUpToIs
<1>5. /\ D[0].pos = 4
      /\ \A i \in 0 .. k : D[i] \in BufferType /\ D[i].len = 1024
      /\ \A i \in 1 .. k : Keeps(D[i - 1], D[i], row[i])
  <2>1. RowSize \in Nat /\ RowSize + 4 = 1024
    BY DEF RowSize
  <2>2. D[0].pos = 4
    <3>1. D[0] = Fresh(RowSize)
      BY RowBuffersAre
    <3>2. Fresh(RowSize).pos = 4
      <4>1. RowSize \in Nat
        BY <2>1
      <4> QED BY <4>1, FreshTyped, Zenon
    <3> QED BY <3>1, <3>2
  <2>3. /\ \A i \in 0 .. k : D[i] \in BufferType /\ D[i].len = RowSize + 4
        /\ \A i \in 1 .. k : Keeps(D[i - 1], D[i], row[i])
    BY <1>1, RowBuffersAre
  <2> QED BY <2>1, <2>2, <2>3
<1>6. ASSUME NEW i \in 1 .. k, D[i - 1].pos = 4 + s[i - 1]
      PROVE  HasCell(D[i - 1], D[i], row[i]) /\ D[i].pos = 4 + s[i]
  <2>1. i - 1 \in 0 .. k /\ i \in 0 .. k
    OBVIOUS
  <2>2. Remain(D[i - 1]) = 1020 - s[i - 1]
    BY <1>3, <1>5, <1>6, <2>1 DEF Remain
  <2>3. Remain(D[i - 1]) <= RowSize /\ CellBytes(row[i]) + 29 <= Remain(D[i - 1])
    BY <1>3, <1>4, <2>1, <2>2 DEF RowSize
  <2>4. HasCell(D[i - 1], D[i], row[i]) /\ D[i].pos = D[i - 1].pos + CellBytes(row[i])
    BY <1>5, <2>3 DEF Keeps
  <2> QED BY <1>3, <1>4, <1>6, <2>1, <2>4
<1> DEFINE S == {n \in Nat : n <= k => D[n].pos = 4 + s[n]}
<1>7. 0 \in S
  BY <1>3, <1>5
<1>8. ASSUME NEW n \in S PROVE n + 1 \in S
  <2> SUFFICES ASSUME n + 1 <= k PROVE D[n + 1].pos = 4 + s[n + 1]
    OBVIOUS
  <2>1. PICK i \in 1 .. k : i = n + 1 /\ i - 1 = n
    OBVIOUS
  <2>2. D[i - 1].pos = 4 + s[i - 1]
    BY <2>1
  <2> QED BY <1>6, <2>1, <2>2
<1>9. S = Nat
  <2>1. S \subseteq Nat
    OBVIOUS
  <2> HIDE DEF S
  <2> QED BY <1>7, <1>8, <2>1, FromZeroOn
<1>10. \A n \in 0 .. k : D[n].pos = 4 + s[n]
  BY <1>9
<1>11. \A i \in 1 .. k : HasCell(D[i - 1], D[i], row[i])
  <2> SUFFICES ASSUME NEW i \in 1 .. k PROVE HasCell(D[i - 1], D[i], row[i])
    OBVIOUS
  <2>1. i - 1 \in 0 .. k
    OBVIOUS
  <2> QED BY <1>6, <1>10, <2>1
<1> QED BY <1>1, <1>11

\* What there is to read in a cell
SeenCell(c) == IF c.type = "null" THEN -1 ELSE c.len

\* The client reads the cell that begins behind q pieces, and goes on
LEMMA CellRead ==
  ASSUME NEW p \in Seq(Piece), NEW b \in BufferType, NEW d \in BufferType, NEW c \in AnswerCell,
         HasCell(b, d, c), Len(d.pieces) <= Len(p),
         \A x \in 1 .. Len(d.pieces) : p[x] = d.pieces[x]
  PROVE  LET r == TextsFrom(p)[Len(d.pieces) + 1]
         IN TextsFrom(p)[Len(b.pieces) + 1] = [texts |-> <<SeenCell(c)>> \o r.texts, end |-> r.end]
<1>1. PICK T : T = TextsFrom(p)
  OBVIOUS
<1>2. PICK q \in Nat : q = Len(b.pieces)
  BY DEF BufferType
<1>3. PICK l \in Nat : l = Len(p)
  OBVIOUS
<1>4. \A i \in 1 .. l + 1 : T[i] = Reading(p, T, i)
  BY <1>1, <1>3, TextsFromIs
<1>5. CASE c.type = "null"
  <2>1. Len(d.pieces) = q + 1 /\ d.pieces[q + 1] = NullPiece
    BY <1>2, <1>5 DEF HasCell, Extends
  <2>2. q + 1 \in 1 .. l + 1 /\ q + 1 <= Len(p) /\ p[q + 1] = NullPiece
    BY <1>2, <1>3, <2>1
  <2>3. NullAt(p, q + 1)
    BY <2>2, NullPieceTyped DEF NullAt
  <2>4. T[q + 1] = [texts |-> <<-1>> \o T[q + 1 + 1].texts, end |-> T[q + 1 + 1].end]
    BY <1>4, <2>2, <2>3 DEF Reading
  <2>5. SeenCell(c) = -1
    BY <1>5 DEF SeenCell
  <2> QED BY <1>1, <1>2, <2>1, <2>4, <2>5
<1>6. CASE c.type # "null"
  <2>1. PICK n \in Nat : n = c.len
    BY DEF AnswerCell
  <2>2. Len(d.pieces) = q + 2 /\ d.pieces[q + 1] = LengthFor(n) /\ d.pieces[q + 2] = Chars(n)
    BY <1>2, <1>6, <2>1 DEF HasCell, HasText
  <2>3. /\ q + 1 \in 1 .. l + 1 /\ q + 1 <= Len(p) /\ q + 1 < Len(p) /\ q + 1 + 1 = q + 2
        /\ p[q + 1] = LengthFor(n) /\ p[q + 2] = Chars(n)
    BY <1>2, <1>3, <2>2, SMTT(30)
  <2>4. p[q + 1].piece = "length" /\ GetLength(p[q + 1]) = n
    BY <2>3, LengthForTyped
  <2>5. ~NullAt(p, q + 1) /\ TextAt(p, q + 1)
    BY <2>3, <2>4 DEF NullAt, TextAt, IsText
  <2>6. T[q + 1] = [texts |-> <<n>> \o T[q + 1 + 2].texts, end |-> T[q + 1 + 2].end]
    BY <1>4, <2>3, <2>4, <2>5 DEF Reading
  <2>7. SeenCell(c) = n /\ q + 1 + 2 = q + 2 + 1
    BY <1>6, <2>1 DEF SeenCell
  <2> QED BY <1>1, <1>2, <2>2, <2>6, <2>7
<1> QED BY <1>5, <1>6

\* What the client reads of the cells behind the j-th, T being what it reads
\* of the row's packet p
ReadsBehind(row, D, p, T, j) ==
  LET k == Len(row)
      r == T[Len(D[j].pieces) + 1]
  IN  /\ Len(D[j].pieces) <= Len(p)
      /\ \A x \in 1 .. Len(D[j].pieces) : p[x] = D[j].pieces[x]
      /\ r.texts \in Seq(Int) /\ Len(r.texts) <= k - j /\ r.end = Len(p) + 1
      /\ Len(r.texts) = k - j => \A i \in 1 .. k - j : r.texts[i] = SeenCell(row[j + i])
      /\ (\A i \in j + 1 .. k : HasCell(D[i - 1], D[i], row[i])) => Len(r.texts) = k - j

LEMMA ReadsOneMore ==
  ASSUME NEW row, NEW D, RowBuffers(row, D), NEW i \in 1 .. Len(row),
         NEW p \in Seq(Piece), NEW T, T = TextsFrom(p), ReadsBehind(row, D, p, T, i)
  PROVE  ReadsBehind(row, D, p, T, i - 1)
<1>1. PICK k \in Nat : k = Len(row)
  BY DEF RowBuffers
<1>2. i - 1 \in 0 .. k /\ i \in 0 .. k /\ i - 1 + 1 = i
  BY <1>1
<1>3. PICK b \in BufferType : b = D[i - 1]
  BY <1>1, <1>2, RowBuffersAre
<1>4. PICK d \in BufferType : d = D[i]
  BY <1>1, <1>2, RowBuffersAre
<1>5. PICK c \in AnswerCell : c = row[i]
  BY DEF RowBuffers
<1>6. HasCell(b, d, c) \/ Same(b, d)
  BY <1>3, <1>4, <1>5, RowBuffersAre DEF Keeps
<1>7. PICK q \in Nat : q = Len(b.pieces)
  BY DEF BufferType
<1>8. PICK m \in Nat : m = Len(d.pieces)
  BY DEF BufferType
<1>9. PICK r : r = T[m + 1]
  OBVIOUS
<1>10. /\ m <= Len(p) /\ Len(p) \in Nat
       /\ \A x \in 1 .. m : p[x] = d.pieces[x]
       /\ r.texts \in Seq(Int) /\ Len(r.texts) <= k - i /\ r.end = Len(p) + 1
       /\ Len(r.texts) = k - i => \A x \in 1 .. k - i : r.texts[x] = SeenCell(row[i + x])
       /\ (\A x \in i + 1 .. k : HasCell(D[x - 1], D[x], row[x])) => Len(r.texts) = k - i
  BY <1>1, <1>4, <1>8, <1>9 DEF ReadsBehind
<1>11. CASE Same(b, d)
  <2>1. b.pieces = d.pieces /\ q = m
    BY <1>7, <1>8, <1>11 DEF Same
  <2>2. ~HasCell(b, d, c)
    <3>1. Len(d.pieces) # Len(b.pieces) + 1 /\ Len(d.pieces) # Len(b.pieces) + 2
      BY <1>7, <1>8, <2>1
    <3> QED BY <3>1 DEF HasCell, Extends, HasText
  <2>3. i \in i - 1 + 1 .. k
    BY <1>1, <1>2
  <2>4. ~(\A x \in i - 1 + 1 .. k : HasCell(D[x - 1], D[x], row[x]))
    BY <1>3, <1>4, <1>5, <2>2, <2>3
  <2>5. Len(r.texts) \in Nat /\ Len(r.texts) <= k - (i - 1) /\ Len(r.texts) # k - (i - 1)
    BY <1>1, <1>10
  <2>6. T[q + 1] = r
    BY <1>9, <2>1
  <2> QED BY <1>1, <1>3, <1>7, <1>10, <2>1, <2>4, <2>5, <2>6 DEF ReadsBehind
<1>12. CASE HasCell(b, d, c)
  <2>1. PICK u : u = T[q + 1]
    OBVIOUS
  <2>2. u = [texts |-> <<SeenCell(c)>> \o r.texts, end |-> r.end]
    BY <1>7, <1>8, <1>9, <1>10, <1>12, <2>1, CellRead
  <2>3. SeenCell(c) \in Int
    BY DEF SeenCell, AnswerCell
  <2>4. PICK v \in Int : v = SeenCell(c)
    BY <2>3
  <2>5. PICK e \in Seq(Int) : e = r.texts
    BY <1>10
  <2>6. PICK t \in Seq(Int) : t = <<v>> \o e
    <3>1. <<v>> \in Seq(Int)
      OBVIOUS
    <3>2. <<v>> \o e \in Seq(Int)
      BY <3>1
    <3> QED BY <3>2
  <2>7. /\ u.texts = t /\ u.end = Len(p) + 1
        /\ Len(t) = Len(e) + 1 /\ t[1] = v
        /\ \A x \in 1 .. Len(e) : t[x + 1] = e[x]
    <3>1. Len(t) = Len(e) + 1 /\ t[1] = v
      BY <2>6
    <3>2. \A x \in 1 .. Len(e) : t[x + 1] = e[x]
      BY <2>6, SMTT(30)
    <3>3. u.texts = t /\ u.end = Len(p) + 1
      BY <1>10, <2>2, <2>4, <2>5, <2>6
    <3> QED BY <3>1, <3>2, <3>3
  <2>8. q <= m /\ \A x \in 1 .. q : d.pieces[x] = b.pieces[x]
    BY <1>7, <1>8, <1>12 DEF HasCell, Extends, HasText
  <2>9. q <= Len(p) /\ \A x \in 1 .. q : p[x] = b.pieces[x]
    BY <1>10, <2>8
  <2>10. Len(t) <= k - (i - 1)
    BY <1>1, <1>10, <2>5, <2>7
  <2>11. ASSUME Len(t) = k - (i - 1), NEW x \in 1 .. k - (i - 1)
         PROVE  t[x] = SeenCell(row[i - 1 + x])
    <3>0. Len(e) \in Nat /\ i \in Nat
      BY <1>1
    <3>1. Len(e) = k - i
      BY <1>1, <2>7, <2>11, <3>0
    <3>2. CASE x = 1
      BY <1>1, <1>5, <2>4, <2>7, <3>2
    <3>3. CASE x # 1
      <4>1. PICK y \in 1 .. Len(e) : x = y + 1
        BY <1>1, <2>11, <3>1, <3>3
      <4>2. t[x] = e[y]
        BY <2>7, <4>1
      <4>3. e[y] = SeenCell(row[i + y])
        BY <1>10, <2>5, <3>1
      <4>4. i + y = i - 1 + x
        BY <4>1
      <4> QED BY <4>2, <4>3, <4>4
    <3> QED BY <3>2, <3>3
  <2>12. ASSUME \A x \in i - 1 + 1 .. k : HasCell(D[x - 1], D[x], row[x])
         PROVE  Len(t) = k - (i - 1)
    <3>1. \A x \in i + 1 .. k : HasCell(D[x - 1], D[x], row[x])
      BY <1>1, <2>12
    <3>2. Len(e) = k - i
      BY <1>10, <2>5, <3>1
    <3> QED BY <1>1, <2>7, <3>2
  <2> QED BY <1>1, <1>3, <1>7, <2>1, <2>7, <2>9, <2>10, <2>11, <2>12 DEF ReadsBehind
<1> QED BY <1>6, <1>11, <1>12


\* The client reads a row, or sees that a cell is missing; a row that fits it
\* reads.
RowAnswered(row, p) ==
  /\ IsRow(p, Len(row)) => Texts(p) = [j \in DOMAIN row |-> SeenCell(row[j])]
  /\ RowBytes(row) <= RowSize - 29 => IsRow(p, Len(row))

LEMMA RowRead ==
  ASSUME NEW row \in Seq(AnswerCell)
  PROVE  RowAnswered(row, Row(Fresh(RowSize), row).pieces)
<1>1. PICK D : D = CellsStored(Fresh(RowSize), row)
  OBVIOUS
<1>2. RowBuffers(row, D)
  BY <1>1 DEF RowBuffers
<1>3. PICK k \in Nat : k = Len(row)
  OBVIOUS
<1>4. D[k] \in BufferType /\ D[0] = Fresh(RowSize)
  BY <1>2, <1>3, RowBuffersAre
<1>5. PICK p \in Seq(Piece) : p = D[k].pieces
  BY <1>4 DEF BufferType
<1>6. Row(Fresh(RowSize), row).pieces = p
  BY <1>1, <1>3, <1>4, <1>5 DEF Row, BufferType
<1>7. PICK T : T = TextsFrom(p)
  OBVIOUS
<1>8. PICK l \in Nat : l = Len(p)
  OBVIOUS
<1>9. ReadsBehind(row, D, p, T, k)
  <2>1. ~NullAt(p, l + 1) /\ ~TextAt(p, l + 1)
    BY <1>8 DEF NullAt, TextAt
  <2>2. T[l + 1] = Reading(p, T, l + 1)
    BY <1>7, <1>8, TextsFromIs
  <2>3. T[l + 1] = [texts |-> <<>>, end |-> l + 1]
    BY <2>1, <2>2 DEF Reading
  <2>4. <<>> \in Seq(Int) /\ Len(<<>>) = 0
    OBVIOUS
  <2>5. T[l + 1].texts \in Seq(Int) /\ Len(T[l + 1].texts) = 0 /\ T[l + 1].end = l + 1
    BY <2>3, <2>4
  <2>6. k - k = 0 /\ \A i \in 1 .. k - k : FALSE
    OBVIOUS
  <2> QED BY <1>3, <1>5, <1>8, <2>5, <2>6 DEF ReadsBehind
<1> DEFINE S == {n \in Nat : n <= k => ReadsBehind(row, D, p, T, k - n)}
<1>10. 0 \in S
  BY <1>9
<1>11. ASSUME NEW n \in S PROVE n + 1 \in S
  <2> SUFFICES ASSUME n + 1 <= k PROVE ReadsBehind(row, D, p, T, k - (n + 1))
    OBVIOUS
  <2>1. PICK i \in 1 .. k : i = k - n
    OBVIOUS
  <2>2. ReadsBehind(row, D, p, T, i)
    BY <2>1
  <2>3. ReadsBehind(row, D, p, T, i - 1)
    BY <1>2, <1>3, <1>7, <2>2, ReadsOneMore
  <2>4. i - 1 = k - (n + 1)
    BY <2>1
  <2> QED BY <2>3, <2>4
<1>12. S = Nat
  <2>1. S \subseteq Nat
    OBVIOUS
  <2> HIDE DEF S
  <2> QED BY <1>10, <1>11, <2>1, FromZeroOn
<1>13. ReadsBehind(row, D, p, T, 0)
  <2>1. k - k = 0 /\ k <= k
    OBVIOUS
  <2>2. k \in S
    BY <1>12
  <2>3. ReadsBehind(row, D, p, T, k - k)
    BY <2>2
  <2> QED BY <2>1, <2>3
<1>14. PICK r : r = T[1]
  OBVIOUS
<1>15. /\ r.texts \in Seq(Int) /\ Len(r.texts) <= k /\ r.end = Len(p) + 1
       /\ Len(r.texts) = k => \A i \in 1 .. k : r.texts[i] = SeenCell(row[i])
       /\ (\A i \in 1 .. k : HasCell(D[i - 1], D[i], row[i])) => Len(r.texts) = k
  <2>1. D[0].pieces = <<>>
    <3>1. RowSize \in Nat
      BY DEF RowSize
    <3> QED BY <1>4, <3>1, FreshTyped
  <2>2. Len(D[0].pieces) + 1 = 1
    BY <2>1
  <2>3. k - 0 = k /\ 0 + 1 = 1 /\ \A i \in 1 .. k : 0 + i = i
    OBVIOUS
  <2> QED BY <1>3, <1>13, <1>14, <2>2, <2>3 DEF ReadsBehind
<1>16. Texts(p) = r.texts /\ TextsFrom(p)[1].end = Len(p) + 1
  BY <1>7, <1>14, <1>15 DEF Texts
<1>17. ASSUME IsRow(p, k) PROVE Texts(p) = [j \in DOMAIN row |-> SeenCell(row[j])]
  <2>1. Len(r.texts) = k
    BY <1>16, <1>17 DEF IsRow
  <2>2. DOMAIN r.texts = 1 .. k /\ DOMAIN row = 1 .. k
    BY <1>3, <1>15, <2>1
  <2>3. r.texts = [j \in 1 .. k |-> r.texts[j]]
    BY <1>15, <2>2
  <2>4. \A j \in 1 .. k : r.texts[j] = SeenCell(row[j])
    BY <1>15, <2>1
  <2> QED BY <1>16, <2>2, <2>3, <2>4
<1>18. ASSUME RowBytes(row) <= RowSize - 29 PROVE IsRow(p, k)
  <2>1. \A i \in 1 .. k : HasCell(D[i - 1], D[i], row[i])
    BY <1>2, <1>3, <1>18, RowFits
  <2>2. Len(r.texts) = k
    BY <1>15, <2>1
  <2> QED BY <1>16, <2>2 DEF IsRow
<1> QED BY <1>3, <1>6, <1>17, <1>18 DEF RowAnswered


-----------------------------------------------------------------------------
(* Fields.                                                                  *)

\* c is b with an integer, if there is room
StoresInt(b, c, w, v) ==
  /\ c \in BufferType
  /\ Extends(b, c, IntPiece(w, v)) \/ Same(b, c)
  /\ b.pos + w <= b.len => Extends(b, c, IntPiece(w, v))

LEMMA StoreIntIs ==
  ASSUME NEW b \in BufferType, NEW w \in Nat, NEW v \in IntValue
  PROVE  StoresInt(b, StoreInt(b, w, v), w, v)
<1>1. PICK q \in Piece : q = IntPiece(w, v)
  BY PieceTyped
<1>2. b.len \in Nat /\ b.pos \in Nat
  BY DEF BufferType
<1>3. CASE b.len >= b.pos + w
  <2>1. StoreInt(b, w, v) = Put(b, q)
    BY <1>1, <1>3 DEF StoreInt, PutIf
  <2>2. Put(b, q) \in BufferType /\ Extends(b, Put(b, q), q)
    BY PutExtends
  <2> QED BY <1>1, <2>1, <2>2 DEF StoresInt
<1>4. CASE ~(b.len >= b.pos + w)
  <2>1. StoreInt(b, w, v) = Failed(b)
    BY <1>1, <1>4 DEF StoreInt, PutIf
  <2>2. ~(b.pos + w <= b.len)
    BY <1>2, <1>4
  <2> QED BY <2>1, <2>2, FailedSame DEF StoresInt
<1> QED BY <1>3, <1>4

\* A text that is stored adds two pieces, an integer one; what is not stored
\* adds none
TextCounted(b, c, n, k, l) ==
  (HasText(b, c, n) => l = k + 2) /\ (HasText(b, c, n) \/ l = k)
IntCounted(b, c, w, v, k, l) ==
  (Extends(b, c, IntPiece(w, v)) => l = k + 1) /\ (Extends(b, c, IntPiece(w, v)) \/ l = k)

\* and what there is room for is stored
TextFits(b, c, n, s) ==
  s + n <= b.len - b.pos => HasText(b, c, n) /\ c.len = b.len /\ c.pos = b.pos + (s + n)
IntFits(b, c, w, v) ==
  w <= b.len - b.pos => Extends(b, c, IntPiece(w, v)) /\ c.len = b.len /\ c.pos = b.pos + w

\* Where the next store begins in a buffer of a field
StandsAt(b, q) == b.len = 1024 /\ b.pos = q

LEMMA StoresCounts ==
  ASSUME NEW b \in BufferType, NEW c, NEW n \in Nat, Stores(b, c, n),
         NEW k \in Nat, k = Len(b.pieces), NEW l \in Nat, l = Len(c.pieces)
  PROVE  TextCounted(b, c, n, k, l) /\ TextFits(b, c, n, LengthFor(n).size)
<1>1. PICK s \in Nat : s = LengthFor(n).size
  BY LengthForTyped
<1>2. Remain(b) = b.len - b.pos /\ Remain(b) \in Int /\ b.pos \in Nat
  BY DEF Remain, BufferType
<1>3. s + n <= Remain(b) \/ s + n > Remain(b)
  BY <1>1, <1>2
<1>4. b.pos + s + n = b.pos + (s + n)
  BY <1>1, <1>2
<1> QED BY <1>1, <1>2, <1>3, <1>4 DEF TextCounted, TextFits, Stores, HasText, Same

LEMMA StoresIntCounts ==
  ASSUME NEW b \in BufferType, NEW c, NEW w \in Nat, NEW v \in IntValue, StoresInt(b, c, w, v),
         NEW k \in Nat, k = Len(b.pieces), NEW l \in Nat, l = Len(c.pieces)
  PROVE  IntCounted(b, c, w, v, k, l) /\ IntFits(b, c, w, v)
<1>1. b.len \in Nat /\ b.pos \in Nat
  BY DEF BufferType
<1>2. w <= b.len - b.pos => b.pos + w <= b.len
  BY <1>1
<1> QED BY <1>2 DEF IntCounted, IntFits, StoresInt, Extends, Same, IntPiece

\* p begins with the pieces of b
BeginsWith(p, b) == Len(b.pieces) <= Len(p) /\ \A x \in 1 .. Len(b.pieces) : p[x] = b.pieces[x]

LEMMA BeginsWithLess ==
  ASSUME NEW p, Len(p) \in Nat, NEW b \in BufferType, NEW c \in BufferType, BeginsWith(p, c)
  PROVE  /\ \A n \in Nat : HasText(b, c, n) => BeginsWith(p, b)
         /\ \A q \in Piece : Extends(b, c, q) => BeginsWith(p, b) /\ p[Len(b.pieces) + 1] = q
<1>1. Len(b.pieces) \in Nat /\ Len(c.pieces) \in Nat
  BY DEF BufferType
<1>2. ASSUME Len(b.pieces) <= Len(c.pieces), \A i \in 1 .. Len(b.pieces) : c.pieces[i] = b.pieces[i]
      PROVE  BeginsWith(p, b)
  BY <1>1, <1>2 DEF BeginsWith
<1>3. ASSUME NEW n \in Nat, HasText(b, c, n) PROVE BeginsWith(p, b)
  BY <1>1, <1>2, <1>3 DEF HasText
<1>4. ASSUME NEW q \in Piece, Extends(b, c, q) PROVE BeginsWith(p, b) /\ p[Len(b.pieces) + 1] = q
  <2>1. Len(c.pieces) = Len(b.pieces) + 1 /\ c.pieces[Len(b.pieces) + 1] = q
    BY <1>4 DEF Extends
  <2>2. BeginsWith(p, b)
    BY <1>1, <1>2, <1>4 DEF Extends
  <2>3. p[Len(b.pieces) + 1] = c.pieces[Len(b.pieces) + 1]
    BY <1>1, <2>1 DEF BeginsWith
  <2> QED BY <2>1, <2>2, <2>3
<1> QED BY <1>3, <1>4

\* u is t with n in front
InFront(n, t, u) ==
  u \in Seq(Int) /\ Len(u) = Len(t) + 1 /\ u[1] = n /\ \A x \in 1 .. Len(t) : u[x + 1] = t[x]

LEMMA OneInFront ==
  ASSUME NEW n \in Int, NEW t \in Seq(Int)
  PROVE  InFront(n, t, <<n>> \o t)
<1>1. <<n>> \in Seq(Int)
  OBVIOUS
<1>2. PICK u \in Seq(Int) : u = <<n>> \o t
  <2>1. <<n>> \o t \in Seq(Int)
    BY <1>1
  <2> QED BY <2>1
<1>3. Len(u) = Len(t) + 1 /\ u[1] = n
  BY <1>2
<1>4. \A x \in 1 .. Len(t) : u[x + 1] = t[x]
  BY <1>2
<1> QED BY <1>2, <1>3, <1>4 DEF InFront

\* A text is read, and the client goes on behind it
LEMMA TextRead ==
  ASSUME NEW p \in Seq(Piece), NEW b \in BufferType, NEW d \in BufferType, NEW n \in Nat,
         HasText(b, d, n), BeginsWith(p, d),
         NEW t \in Seq(Int), t = TextsFrom(p)[Len(d.pieces) + 1].texts
  PROVE  InFront(n, t, TextsFrom(p)[Len(b.pieces) + 1].texts)
<1>1. PICK c \in AnswerCell : c = [type |-> "bool", len |-> n]
  BY DEF AnswerCell
<1>2. HasCell(b, d, c) /\ SeenCell(c) = n
  BY <1>1 DEF HasCell, SeenCell
<1>3. TextsFrom(p)[Len(b.pieces) + 1] =
        [texts |-> <<SeenCell(c)>> \o TextsFrom(p)[Len(d.pieces) + 1].texts,
         end |-> TextsFrom(p)[Len(d.pieces) + 1].end]
  BY <1>2, CellRead DEF BeginsWith
<1>4. TextsFrom(p)[Len(b.pieces) + 1].texts = <<n>> \o t
  BY <1>2, <1>3
<1> QED BY <1>4, OneInFront

\* The client reads the name of a column, or sees that something is missing; a
\* name that fits it reads.
FieldAnswered(name, p) ==
  /\ IsField(p) => FieldName(p) = name
  /\ 21 + Prefix(name) + name <= FieldSize => IsField(p)

LEMMA FieldRead ==
  ASSUME NEW name \in Nat, NEW type \in IntValue
  PROVE  FieldAnswered(name, Field(Fresh(FieldSize), name, type).pieces)
<1>0. PICK b0 \in BufferType : b0 = Fresh(FieldSize) /\ b0.len = 1024 /\ b0.pos = 4 /\ Len(b0.pieces) = 0
  <2>1. FieldSize \in Nat
    BY DEF FieldSize
  <2>2. PICK b : b = Fresh(FieldSize)
    OBVIOUS
  <2>3. b \in BufferType /\ b.len = FieldSize + 4 /\ b.pos = 4 /\ b.pieces = <<>>
    BY <2>1, <2>2, FreshTyped
  <2>4. Len(b.pieces) = 0 /\ b.len = 1024
    BY <2>3 DEF FieldSize
  <2> QED BY <2>2, <2>3, <2>4
<1>1. PICK b1 : b1 = StoreStr(b0, 3) /\ b1 \in BufferType /\ Stores(b0, b1, 3)
  <2>1. Stores(b0, StoreStr(b0, 3), 3)
    BY StoreStrIs
  <2>2. StoreStr(b0, 3) \in BufferType
    BY <2>1 DEF Stores
  <2> QED BY <2>1, <2>2
<1>2. PICK b2 : b2 = StoreStr(b1, 0) /\ b2 \in BufferType /\ Stores(b1, b2, 0)
  BY <1>1, StoreStrIs DEF Stores
<1>3. PICK b3 : b3 = StoreStr(b2, 0) /\ b3 \in BufferType /\ Stores(b2, b3, 0)
  BY <1>2, StoreStrIs DEF Stores
<1>4. PICK b4 : b4 = StoreStr(b3, 0) /\ b4 \in BufferType /\ Stores(b3, b4, 0)
  BY <1>3, StoreStrIs DEF Stores
<1>5. PICK b5 : b5 = StoreStr(b4, name) /\ b5 \in BufferType /\ Stores(b4, b5, name)
  BY <1>4, StoreStrIs DEF Stores
<1>6. PICK b6 : b6 = StoreStr(b5, 0) /\ b6 \in BufferType /\ Stores(b5, b6, 0)
  BY <1>5, StoreStrIs DEF Stores
<1>7. PICK b7 : b7 = StoreInt(b6, 1, 12) /\ b7 \in BufferType /\ StoresInt(b6, b7, 1, 12)
  BY <1>6, StoreIntIs DEF StoresInt, IntValue
<1>8. PICK b8 : b8 = StoreInt(b7, 2, 8) /\ b8 \in BufferType /\ StoresInt(b7, b8, 2, 8)
  BY <1>7, StoreIntIs DEF StoresInt, IntValue
<1>9. PICK b9 : b9 = StoreInt(b8, 4, "width") /\ b9 \in BufferType /\ StoresInt(b8, b9, 4, "width")
  BY <1>8, StoreIntIs DEF StoresInt, IntValue
<1>10. PICK b10 : b10 = StoreInt(b9, 1, type) /\ b10 \in BufferType /\ StoresInt(b9, b10, 1, type)
  BY <1>9, StoreIntIs DEF StoresInt, IntValue
<1>11. PICK b11 : b11 = StoreInt(b10, 2, 0) /\ b11 \in BufferType /\ StoresInt(b10, b11, 2, 0)
  BY <1>10, StoreIntIs DEF StoresInt, IntValue
<1>12. PICK b12 : b12 = StoreInt(b11, 1, "decimals") /\ b12 \in BufferType /\ StoresInt(b11, b12, 1, "decimals")
  BY <1>11, StoreIntIs DEF StoresInt, IntValue
<1>13. PICK b13 : b13 = StoreInt(b12, 2, 0) /\ b13 \in BufferType /\ StoresInt(b12, b13, 2, 0)
  BY <1>12, StoreIntIs DEF StoresInt, IntValue
<1>14. PICK p \in Seq(Piece) : p = b13.pieces
  BY <1>13 DEF BufferType
<1>15. Field(Fresh(FieldSize), name, type).pieces = p
  <2>1. Field(Fresh(FieldSize), name, type) = [b13 EXCEPT !.ok = TRUE]
    BY <1>0, <1>1, <1>2, <1>3, <1>4, <1>5, <1>6, <1>7, <1>8, <1>9, <1>10, <1>11, <1>12, <1>13 DEF Field
  <2>2. [b13 EXCEPT !.ok = TRUE].pieces = b13.pieces
    BY <1>13 DEF BufferType
  <2> QED BY <1>14, <2>1, <2>2
<1>16. PICK s \in Nat : s = LengthFor(name).size /\ (name < 65536 => s = Prefix(name))
  BY LengthForTyped
<1>17. /\ LengthFor(0).size = 1 /\ LengthFor(3).size = 1
       /\ 0 \in Nat /\ 1 \in Nat /\ 2 \in Nat /\ 3 \in Nat /\ 4 \in Nat
       /\ 0 \in IntValue /\ 8 \in IntValue /\ 12 \in IntValue /\ "width" \in IntValue /\ "decimals" \in IntValue
  BY DEF LengthFor, LengthPiece, IntValue
\* The stores one by one: what each adds to the pieces and to the bytes
<1>18. /\ b0 \in BufferType /\ b1 \in BufferType /\ b2 \in BufferType /\ b3 \in BufferType /\ b4 \in BufferType
       /\ b5 \in BufferType /\ b6 \in BufferType /\ b7 \in BufferType /\ b8 \in BufferType /\ b9 \in BufferType
       /\ b10 \in BufferType /\ b11 \in BufferType /\ b12 \in BufferType /\ b13 \in BufferType
  BY <1>0, <1>1, <1>2, <1>3, <1>4, <1>5, <1>6, <1>7, <1>8, <1>9, <1>10, <1>11, <1>12, <1>13
<1>19. \A b \in BufferType : Len(b.pieces) \in Nat /\ b.pos \in Nat /\ b.len \in Nat
  BY DEF BufferType
<1>20. PICK l0, l1, l2, l3, l4, l5, l6, l7, l8, l9, l10, l11, l12, l13 \in Nat :
         /\ l0 = Len(b0.pieces) /\ l1 = Len(b1.pieces) /\ l2 = Len(b2.pieces) /\ l3 = Len(b3.pieces) /\ l4 = Len(b4.pieces)
         /\ l5 = Len(b5.pieces) /\ l6 = Len(b6.pieces) /\ l7 = Len(b7.pieces) /\ l8 = Len(b8.pieces) /\ l9 = Len(b9.pieces)
         /\ l10 = Len(b10.pieces) /\ l11 = Len(b11.pieces) /\ l12 = Len(b12.pieces) /\ l13 = Len(b13.pieces)
  BY <1>18, <1>19
<1>32. TextCounted(b0, b1, 3, l0, l1) /\ TextFits(b0, b1, 3, 1)
  <2>1. TextCounted(b0, b1, 3, l0, l1) /\ TextFits(b0, b1, 3, LengthFor(3).size)
    BY <1>1, <1>17, <1>18, <1>20, StoresCounts, Zenon
  <2> QED BY <1>17, <2>1
<1>33. TextCounted(b1, b2, 0, l1, l2) /\ TextFits(b1, b2, 0, 1)
  BY <1>2, <1>17, <1>18, <1>20, StoresCounts, Zenon
<1>34. TextCounted(b2, b3, 0, l2, l3) /\ TextFits(b2, b3, 0, 1)
  BY <1>3, <1>17, <1>18, <1>20, StoresCounts, Zenon
<1>35. TextCounted(b3, b4, 0, l3, l4) /\ TextFits(b3, b4, 0, 1)
  BY <1>4, <1>17, <1>18, <1>20, StoresCounts, Zenon
<1>36. TextCounted(b4, b5, name, l4, l5) /\ TextFits(b4, b5, name, s)
  <2>1. TextCounted(b4, b5, name, l4, l5) /\ TextFits(b4, b5, name, LengthFor(name).size)
    BY <1>5, <1>17, <1>18, <1>20, StoresCounts, Zenon
  <2> QED BY <1>16, <2>1
<1>37. TextCounted(b5, b6, 0, l5, l6) /\ TextFits(b5, b6, 0, 1)
  BY <1>6, <1>17, <1>18, <1>20, StoresCounts, Zenon
<1>38. IntCounted(b6, b7, 1, 12, l6, l7) /\ IntFits(b6, b7, 1, 12)
  BY <1>7, <1>17, <1>18, <1>20, StoresIntCounts, Zenon
<1>39. IntCounted(b7, b8, 2, 8, l7, l8) /\ IntFits(b7, b8, 2, 8)
  BY <1>8, <1>17, <1>18, <1>20, StoresIntCounts, Zenon
<1>40. IntCounted(b8, b9, 4, "width", l8, l9) /\ IntFits(b8, b9, 4, "width")
  BY <1>9, <1>17, <1>18, <1>20, StoresIntCounts, Zenon
<1>41. IntCounted(b9, b10, 1, type, l9, l10) /\ IntFits(b9, b10, 1, type)
  BY <1>10, <1>17, <1>18, <1>20, StoresIntCounts, Zenon
<1>42. IntCounted(b10, b11, 2, 0, l10, l11) /\ IntFits(b10, b11, 2, 0)
  BY <1>11, <1>17, <1>18, <1>20, StoresIntCounts, Zenon
<1>43. IntCounted(b11, b12, 1, "decimals", l11, l12) /\ IntFits(b11, b12, 1, "decimals")
  BY <1>12, <1>17, <1>18, <1>20, StoresIntCounts, Zenon
<1>44. IntCounted(b12, b13, 2, 0, l12, l13) /\ IntFits(b12, b13, 2, 0)
  BY <1>13, <1>17, <1>18, <1>20, StoresIntCounts, Zenon
<1> DEFINE Texts6 ==
             /\ HasText(b0, b1, 3)
             /\ HasText(b1, b2, 0)
             /\ HasText(b2, b3, 0)
             /\ HasText(b3, b4, 0)
             /\ HasText(b4, b5, name)
             /\ HasText(b5, b6, 0)
           Ints7 ==
             /\ Extends(b6, b7, IntPiece(1, 12))
             /\ Extends(b7, b8, IntPiece(2, 8))
             /\ Extends(b8, b9, IntPiece(4, "width"))
             /\ Extends(b9, b10, IntPiece(1, type))
             /\ Extends(b10, b11, IntPiece(2, 0))
             /\ Extends(b11, b12, IntPiece(1, "decimals"))
             /\ Extends(b12, b13, IntPiece(2, 0))
           Whole == Texts6 /\ Ints7
<1>45. ASSUME Len(p) = 19 PROVE Whole
  <2>1. l0 = 0 /\ l13 = 19
    BY <1>0, <1>14, <1>20, <1>45
  <2>2. l6 <= 12 /\ (l6 = 12 => Texts6)
    BY <2>1, <1>32, <1>33, <1>34, <1>35, <1>36, <1>37 DEF TextCounted
  <2>3. l13 <= l6 + 7 /\ (l13 = l6 + 7 => Ints7)
    <3>1. l7 <= l6 + 1 /\ (l7 = l6 + 1 => Extends(b6, b7, IntPiece(1, 12)))
      BY <1>38 DEF IntCounted
    <3>2. l8 <= l7 + 1 /\ (l8 = l7 + 1 => Extends(b7, b8, IntPiece(2, 8)))
      BY <1>39 DEF IntCounted
    <3>3. l9 <= l8 + 1 /\ (l9 = l8 + 1 => Extends(b8, b9, IntPiece(4, "width")))
      BY <1>40 DEF IntCounted
    <3>4. l10 <= l9 + 1 /\ (l10 = l9 + 1 => Extends(b9, b10, IntPiece(1, type)))
      BY <1>41 DEF IntCounted
    <3>5. l11 <= l10 + 1 /\ (l11 = l10 + 1 => Extends(b10, b11, IntPiece(2, 0)))
      BY <1>42 DEF IntCounted
    <3>6. l12 <= l11 + 1 /\ (l12 = l11 + 1 => Extends(b11, b12, IntPiece(1, "decimals")))
      BY <1>43 DEF IntCounted
    <3>7. l13 <= l12 + 1 /\ (l13 = l12 + 1 => Extends(b12, b13, IntPiece(2, 0)))
      BY <1>44 DEF IntCounted
    <3>8. /\ l13 <= l6 + 7
          /\ l13 = l6 + 7 => /\ l7 = l6 + 1 /\ l8 = l7 + 1 /\ l9 = l8 + 1 /\ l10 = l9 + 1
                             /\ l11 = l10 + 1 /\ l12 = l11 + 1 /\ l13 = l12 + 1
      <4>1. l7 <= l6 + 1 /\ l8 <= l7 + 1 /\ l9 <= l8 + 1 /\ l10 <= l9 + 1
        BY <3>1, <3>2, <3>3, <3>4, Zenon
      <4>2. l11 <= l10 + 1 /\ l12 <= l11 + 1 /\ l13 <= l12 + 1
        BY <3>5, <3>6, <3>7, Zenon
      <4> QED BY <4>1, <4>2
    <3> QED BY <3>1, <3>2, <3>3, <3>4, <3>5, <3>6, <3>7, <3>8, Zenon
  <2>4. Texts6
    BY <2>1, <2>2, <2>3
  <2>5. Ints7
    BY <2>1, <2>2, <2>3
  <2> QED BY <2>4, <2>5
<1>46. ASSUME 21 + Prefix(name) + name <= FieldSize PROVE Whole
  <2>0. PICK z \in Nat : z = s + name /\ z <= 999
    BY <1>16, <1>46 DEF Prefix, FieldSize
  <2>1. StandsAt(b0, 4)
    BY <1>0 DEF StandsAt
  <2>2. HasText(b0, b1, 3) /\ StandsAt(b1, 8)
    BY <1>32, <2>0, <2>1 DEF TextFits, StandsAt
  <2>3. HasText(b1, b2, 0) /\ StandsAt(b2, 9)
    BY <1>33, <2>0, <2>2 DEF TextFits, StandsAt
  <2>4. HasText(b2, b3, 0) /\ StandsAt(b3, 10)
    BY <1>34, <2>0, <2>3 DEF TextFits, StandsAt
  <2>5. HasText(b3, b4, 0) /\ StandsAt(b4, 11)
    BY <1>35, <2>0, <2>4 DEF TextFits, StandsAt
  <2>6. HasText(b4, b5, name) /\ StandsAt(b5, 11 + z)
    BY <1>16, <1>36, <2>0, <2>5 DEF TextFits, StandsAt
  <2>7. HasText(b5, b6, 0) /\ StandsAt(b6, 12 + z)
    BY <1>37, <2>0, <2>6 DEF TextFits, StandsAt
  <2>8. Extends(b6, b7, IntPiece(1, 12)) /\ StandsAt(b7, 13 + z)
    BY <1>38, <2>0, <2>7 DEF IntFits, StandsAt
  <2>9. Extends(b7, b8, IntPiece(2, 8)) /\ StandsAt(b8, 15 + z)
    BY <1>39, <2>0, <2>8 DEF IntFits, StandsAt
  <2>10. Extends(b8, b9, IntPiece(4, "width")) /\ StandsAt(b9, 19 + z)
    BY <1>40, <2>0, <2>9 DEF IntFits, StandsAt
  <2>11. Extends(b9, b10, IntPiece(1, type)) /\ StandsAt(b10, 20 + z)
    BY <1>41, <2>0, <2>10 DEF IntFits, StandsAt
  <2>12. Extends(b10, b11, IntPiece(2, 0)) /\ StandsAt(b11, 22 + z)
    BY <1>42, <2>0, <2>11 DEF IntFits, StandsAt
  <2>13. Extends(b11, b12, IntPiece(1, "decimals")) /\ StandsAt(b12, 23 + z)
    BY <1>43, <2>0, <2>12 DEF IntFits, StandsAt
  <2>14. Extends(b12, b13, IntPiece(2, 0)) /\ StandsAt(b13, 25 + z)
    BY <1>44, <2>0, <2>13 DEF IntFits, StandsAt
  <2> QED BY <2>2, <2>3, <2>4, <2>5, <2>6, <2>7, <2>8, <2>9, <2>10, <2>11, <2>12, <2>13, <2>14
<1>47. ASSUME Whole PROVE Len(p) = 19 /\ Len(Texts(p)) = 6 /\ Texts(p)[5] = name
  <2>0. l1 = 2 /\ l2 = 4 /\ l3 = 6 /\ l4 = 8 /\ l5 = 10 /\ l6 = 12 /\ l7 = 13 /\ l8 = 14 /\ l9 = 15 /\ l10 = 16 /\ l11 = 17 /\ l12 = 18 /\ l13 = 19
    <3>1. l0 = 0
      BY <1>0, <1>20
    <3>2. l1 = 2 /\ l2 = 4 /\ l3 = 6 /\ l4 = 8 /\ l5 = 10 /\ l6 = 12
      BY <1>47, <3>1, <1>32, <1>33, <1>34, <1>35, <1>36, <1>37 DEF TextCounted
    <3>3. l7 = 13 /\ l8 = 14 /\ l9 = 15 /\ l10 = 16 /\ l11 = 17 /\ l12 = 18 /\ l13 = 19
      BY <1>47, <3>2, <1>38, <1>39, <1>40, <1>41, <1>42, <1>43, <1>44 DEF IntCounted
    <3> QED BY <3>2, <3>3
  <2>2. Len(p) = 19
    BY <1>14, <1>20, <2>0
  <2>3. BeginsWith(p, b13)
    BY <1>14, <1>20, <2>0 DEF BeginsWith
  <2>4. BeginsWith(p, b12)
    <3>1. IntPiece(2, 0) \in Piece
      BY PieceTyped DEF IntValue
    <3>2. Extends(b12, b13, IntPiece(2, 0))
      BY <1>47
    <3> QED BY <1>18, <2>2, <2>3, <3>1, <3>2, BeginsWithLess
  <2>5. BeginsWith(p, b11)
    <3>1. IntPiece(1, "decimals") \in Piece
      BY PieceTyped DEF IntValue
    <3>2. Extends(b11, b12, IntPiece(1, "decimals"))
      BY <1>47
    <3> QED BY <1>18, <2>2, <2>4, <3>1, <3>2, BeginsWithLess
  <2>6. BeginsWith(p, b10)
    <3>1. IntPiece(2, 0) \in Piece
      BY PieceTyped DEF IntValue
    <3>2. Extends(b10, b11, IntPiece(2, 0))
      BY <1>47
    <3> QED BY <1>18, <2>2, <2>5, <3>1, <3>2, BeginsWithLess
  <2>7. BeginsWith(p, b9)
    <3>1. IntPiece(1, type) \in Piece
      BY PieceTyped DEF IntValue
    <3>2. Extends(b9, b10, IntPiece(1, type))
      BY <1>47
    <3> QED BY <1>18, <2>2, <2>6, <3>1, <3>2, BeginsWithLess
  <2>8. BeginsWith(p, b8)
    <3>1. IntPiece(4, "width") \in Piece
      BY PieceTyped DEF IntValue
    <3>2. Extends(b8, b9, IntPiece(4, "width"))
      BY <1>47
    <3> QED BY <1>18, <2>2, <2>7, <3>1, <3>2, BeginsWithLess
  <2>9. BeginsWith(p, b7)
    <3>1. IntPiece(2, 8) \in Piece
      BY PieceTyped DEF IntValue
    <3>2. Extends(b7, b8, IntPiece(2, 8))
      BY <1>47
    <3> QED BY <1>18, <2>2, <2>8, <3>1, <3>2, BeginsWithLess
  <2>10. BeginsWith(p, b6) /\ p[l6 + 1] = IntPiece(1, 12)
    <3>1. IntPiece(1, 12) \in Piece
      BY <1>17, PieceTyped
    <3>2. Extends(b6, b7, IntPiece(1, 12))
      BY <1>47
    <3>3. BeginsWith(p, b6) /\ p[Len(b6.pieces) + 1] = IntPiece(1, 12)
      BY <1>18, <2>2, <2>9, <3>1, <3>2, BeginsWithLess, SMTT(30)
    <3> QED BY <1>20, <3>3
  <2>11. BeginsWith(p, b5)
    BY <1>17, <1>18, <1>47, <2>2, <2>10, BeginsWithLess
  <2>12. BeginsWith(p, b4)
    BY <1>17, <1>18, <1>47, <2>2, <2>11, BeginsWithLess
  <2>13. BeginsWith(p, b3)
    BY <1>17, <1>18, <1>47, <2>2, <2>12, BeginsWithLess
  <2>14. BeginsWith(p, b2)
    BY <1>17, <1>18, <1>47, <2>2, <2>13, BeginsWithLess
  <2>15. BeginsWith(p, b1)
    BY <1>17, <1>18, <1>47, <2>2, <2>14, BeginsWithLess
  <2>16. BeginsWith(p, b0)
    BY <1>17, <1>18, <1>47, <2>2, <2>15, BeginsWithLess
  <2>17. PICK t6 \in Seq(Int) : t6 = TextsFrom(p)[Len(b6.pieces) + 1].texts /\ Len(t6) = 0
    <3>1. p[13].piece = "int"
      BY <2>0, <2>10 DEF IntPiece
    <3>2. ~NullAt(p, 13) /\ ~TextAt(p, 13)
      BY <3>1 DEF NullAt, TextAt, IsText
    <3>3. 13 \in 1 .. Len(p) + 1 /\ Len(p) \in Nat /\ 13 = Len(b6.pieces) + 1
      BY <1>20, <2>0, <2>2
    <3>4. TextsFrom(p)[13] = Reading(p, TextsFrom(p), 13)
      BY <3>3, TextsFromIs
    <3>5. TextsFrom(p)[13].texts = <<>>
      BY <3>2, <3>4 DEF Reading
    <3>6. <<>> \in Seq(Int) /\ Len(<<>>) = 0
      OBVIOUS
    <3> QED BY <3>3, <3>5, <3>6
  <2>18. PICK t5 : t5 = TextsFrom(p)[Len(b5.pieces) + 1].texts /\ InFront(0, t6, t5)
    <3>1. b5 \in BufferType /\ b6 \in BufferType /\ HasText(b5, b6, 0) /\ 0 \in Nat
      BY <1>17, <1>18, <1>47
    <3>2. t6 \in Seq(Int)
      BY <2>17 DEF InFront
    <3> QED BY <2>10, <2>17, <3>1, <3>2, TextRead
  <2>19. PICK t4 : t4 = TextsFrom(p)[Len(b4.pieces) + 1].texts /\ InFront(name, t5, t4)
    <3>1. b4 \in BufferType /\ b5 \in BufferType /\ HasText(b4, b5, name) /\ name \in Nat
      BY <1>17, <1>18, <1>47
    <3>2. t5 \in Seq(Int)
      BY <2>18 DEF InFront
    <3> QED BY <2>11, <2>18, <3>1, <3>2, TextRead
  <2>20. PICK t3 : t3 = TextsFrom(p)[Len(b3.pieces) + 1].texts /\ InFront(0, t4, t3)
    <3>1. b3 \in BufferType /\ b4 \in BufferType /\ HasText(b3, b4, 0) /\ 0 \in Nat
      BY <1>17, <1>18, <1>47
    <3>2. t4 \in Seq(Int)
      BY <2>19 DEF InFront
    <3> QED BY <2>12, <2>19, <3>1, <3>2, TextRead
  <2>21. PICK t2 : t2 = TextsFrom(p)[Len(b2.pieces) + 1].texts /\ InFront(0, t3, t2)
    <3>1. b2 \in BufferType /\ b3 \in BufferType /\ HasText(b2, b3, 0) /\ 0 \in Nat
      BY <1>17, <1>18, <1>47
    <3>2. t3 \in Seq(Int)
      BY <2>20 DEF InFront
    <3> QED BY <2>13, <2>20, <3>1, <3>2, TextRead
  <2>22. PICK t1 : t1 = TextsFrom(p)[Len(b1.pieces) + 1].texts /\ InFront(0, t2, t1)
    <3>1. b1 \in BufferType /\ b2 \in BufferType /\ HasText(b1, b2, 0) /\ 0 \in Nat
      BY <1>17, <1>18, <1>47
    <3>2. t2 \in Seq(Int)
      BY <2>21 DEF InFront
    <3> QED BY <2>14, <2>21, <3>1, <3>2, TextRead
  <2>23. PICK t0 : t0 = TextsFrom(p)[Len(b0.pieces) + 1].texts /\ InFront(3, t1, t0)
    <3>1. b0 \in BufferType /\ b1 \in BufferType /\ HasText(b0, b1, 3) /\ 3 \in Nat
      BY <1>17, <1>18, <1>47
    <3>2. t1 \in Seq(Int)
      BY <2>22 DEF InFront
    <3> QED BY <2>15, <2>22, <3>1, <3>2, TextRead
  <2>24. /\ Len(t5) = 1 /\ Len(t4) = 2 /\ Len(t3) = 3
        /\ Len(t2) = 4 /\ Len(t1) = 5 /\ Len(t0) = 6
    BY <2>17, <2>18, <2>19, <2>20, <2>21, <2>22, <2>23 DEF InFront
  <2>25. t4[1] = name
    BY <2>19 DEF InFront
  <2>26. t3[2] = name
    <3>1. 1 \in 1 .. Len(t4) /\ 1 + 1 = 2
      BY <2>24
    <3>2. t3[1 + 1] = t4[1]
      BY <2>20, <3>1 DEF InFront
    <3> QED BY <2>25, <3>1, <3>2
  <2>27. t2[3] = name
    <3>1. 2 \in 1 .. Len(t3) /\ 2 + 1 = 3
      BY <2>24
    <3>2. t2[2 + 1] = t3[2]
      BY <2>21, <3>1 DEF InFront
    <3> QED BY <2>26, <3>1, <3>2
  <2>28. t1[4] = name
    <3>1. 3 \in 1 .. Len(t2) /\ 3 + 1 = 4
      BY <2>24
    <3>2. t1[3 + 1] = t2[3]
      BY <2>22, <3>1 DEF InFront
    <3> QED BY <2>27, <3>1, <3>2
  <2>29. t0[5] = name
    <3>1. 4 \in 1 .. Len(t1) /\ 4 + 1 = 5
      BY <2>24
    <3>2. t0[4 + 1] = t1[4]
      BY <2>23, <3>1 DEF InFront
    <3> QED BY <2>28, <3>1, <3>2
  <2>30. Texts(p) = t0
    BY <1>0, <2>23 DEF Texts
  <2> QED BY <2>2, <2>24, <2>29, <2>30
<1>48. ASSUME Whole PROVE IsField(p) /\ FieldName(p) = name
  BY <1>47, <1>48 DEF IsField, FieldName
<1>49. IsField(p) => Whole
  <2>1. 12 + 7 = 19
    OBVIOUS
  <2> QED BY <1>45, <2>1 DEF IsField
<1> HIDE DEF Whole
<1> QED BY <1>15, <1>46, <1>48, <1>49 DEF FieldAnswered

-----------------------------------------------------------------------------
(* Headers and ends.                                                        *)

\* c is b with one piece more, and used up to q
HasPiece(b, c, piece, q) == c \in BufferType /\ c.ok = TRUE /\ c.len = b.len /\ c.pos = q /\ Extends(b, c, piece)

\* A store for which there is room
LEMMA StoredInt ==
  ASSUME NEW b \in BufferType, NEW w \in Nat, NEW v \in IntValue, NEW q \in Nat, b.pos + w = q, q <= b.len
  PROVE  HasPiece(b, StoreInt(b, w, v), IntPiece(w, v), q)
<1>1. PICK c : c = StoreInt(b, w, v)
  OBVIOUS
<1>2. c \in BufferType /\ Extends(b, c, IntPiece(w, v))
  BY <1>1, StoreIntIs DEF StoresInt
<1>3. c.ok = TRUE /\ c.len = b.len /\ c.pos = q
  BY <1>2 DEF Extends, IntPiece
<1> QED BY <1>1, <1>2, <1>3 DEF HasPiece

LEMMA StoredLength ==
  ASSUME NEW b \in BufferType, NEW n \in Nat, NEW q \in Nat, b.pos + LengthFor(n).size = q, q <= b.len
  PROVE  HasPiece(b, StoreLength(b, n), LengthFor(n), q)
<1>1. PICK l \in Piece : l = LengthFor(n)
  BY LengthForTyped
<1>2. PICK c : c = StoreLength(b, n)
  OBVIOUS
<1>3. l.size <= Remain(b)
  BY <1>1, LengthForTyped DEF Remain, BufferType
<1>4. c = Put(b, l)
  BY <1>1, <1>2, <1>3, StoreLengthIs
<1>5. c \in BufferType /\ Extends(b, c, l)
  BY <1>4, PutExtends
<1>6. c.ok = TRUE /\ c.len = b.len /\ c.pos = q
  BY <1>1, <1>5 DEF Extends
<1> QED BY <1>1, <1>2, <1>5, <1>6 DEF HasPiece

\* The one packet of a header: the number of columns
LEMMA ResheaderIs ==
  ASSUME NEW n \in Nat
  PROVE  /\ Resheader(Fresh(ResheaderSize), n).ok = TRUE
         /\ Resheader(Fresh(ResheaderSize), n).pieces[1] = LengthFor(n)
<1>1. ResheaderSize \in Nat
  BY DEF ResheaderSize, MAX_STORE_LENGTH
<1>2. PICK b \in BufferType : b = Fresh(ResheaderSize) /\ b.len = 13 /\ b.pos = 4 /\ b.pieces = <<>>
  <2>1. PICK b : b = Fresh(ResheaderSize)
    OBVIOUS
  <2>2. b \in BufferType /\ b.len = ResheaderSize + 4 /\ b.pos = 4 /\ b.pieces = <<>>
    BY <1>1, <2>1, FreshTyped
  <2>3. b.len = 13
    BY <2>2 DEF ResheaderSize, MAX_STORE_LENGTH
  <2> QED BY <2>1, <2>2, <2>3
<1>3. PICK s \in Nat : s = LengthFor(n).size /\ s <= 9
  BY LengthForTyped
<1>4. PICK q \in Nat : q = b.pos + s /\ q <= b.len
  BY <1>2, <1>3
<1>5. PICK c : c = StoreLength(b, n) /\ c.ok = TRUE /\ Extends(b, c, LengthFor(n))
  BY <1>3, <1>4, StoredLength DEF HasPiece
<1>6. Len(b.pieces) + 1 = 1
  BY <1>2
<1>7. c.pieces[1] = LengthFor(n)
  BY <1>5, <1>6 DEF Extends
<1> QED BY <1>2, <1>5, <1>7 DEF Resheader

\* The buffer of a packet that stores n bytes
LEMMA FreshIs ==
  ASSUME NEW n \in Nat
  PROVE  \E b \in BufferType : b = Fresh(n) /\ b.len = n + 4 /\ b.pos = 4 /\ Len(b.pieces) = 0
<1>1. PICK b : b = Fresh(n)
  OBVIOUS
<1>2. b \in BufferType /\ b.len = n + 4 /\ b.pos = 4 /\ b.pieces = <<>>
  BY <1>1, FreshTyped
<1>3. Len(b.pieces) = 0
  BY <1>2
<1> QED BY <1>1, <1>2, <1>3

\* The packet behind the columns and behind the rows
LEMMA EofIs == Eof(Fresh(EofSize)).ok = TRUE /\ IsEof(Eof(Fresh(EofSize)).pieces)
<1>1. EofSize \in Nat /\ EofSize + 4 = 9
  BY DEF EofSize
<1>2. /\ 0 \in IntValue /\ 254 \in IntValue
      /\ 1 \in Nat /\ 2 \in Nat /\ 5 \in Nat /\ 7 \in Nat /\ 9 \in Nat
  BY DEF IntValue
<1>3. PICK b \in BufferType : b = Fresh(EofSize) /\ b.len = 9 /\ b.pos = 4 /\ Len(b.pieces) = 0
  BY <1>1, FreshIs
<1>4. PICK c : c = StoreInt(b, 1, 254) /\ HasPiece(b, c, IntPiece(1, 254), 5)
  <2>1. b.pos + 1 = 5 /\ 5 <= b.len
    BY <1>3
  <2> QED BY <1>2, <2>1, StoredInt, SMTT(30)
<1>5. PICK d : d = StoreInt(c, 2, 0) /\ HasPiece(c, d, IntPiece(2, 0), 7)
  <2>1. c \in BufferType /\ c.pos + 2 = 7 /\ 7 <= c.len
    BY <1>3, <1>4 DEF HasPiece
  <2> QED BY <1>2, <2>1, StoredInt, Zenon
<1>6. PICK e : e = StoreInt(d, 2, 0) /\ HasPiece(d, e, IntPiece(2, 0), 9)
  <2>1. d \in BufferType /\ d.pos + 2 = 9 /\ 9 <= d.len
    BY <1>3, <1>4, <1>5 DEF HasPiece
  <2> QED BY <1>2, <2>1, StoredInt, Zenon
<1>7. Eof(Fresh(EofSize)) = e
  BY <1>3, <1>4, <1>5, <1>6 DEF Eof, Then, HasPiece
<1>8. Len(c.pieces) = 1 /\ c.pieces[1] = IntPiece(1, 254)
  BY <1>3, <1>4 DEF HasPiece, Extends
<1>9. Len(d.pieces) = 2 /\ d.pieces[1] = IntPiece(1, 254)
  BY <1>5, <1>8 DEF HasPiece, Extends
<1>10. Len(e.pieces) = 3 /\ e.pieces[1] = IntPiece(1, 254)
  BY <1>6, <1>9 DEF HasPiece, Extends
<1> QED BY <1>6, <1>7, <1>10 DEF HasPiece, IsEof, IntPiece

\* An acknowledgement
LEMMA OkIs == Ok(Fresh(OkSize)).ok = TRUE /\ Ok(Fresh(OkSize)).pieces[1] = IntPiece(1, 0)
<1>1. OkSize \in Nat /\ OkSize + 4 = 36
  BY DEF OkSize
<1>2. /\ 0 \in IntValue /\ 34 \in IntValue /\ LengthFor(0).size = 1
      /\ 0 \in Nat /\ 1 \in Nat /\ 2 \in Nat
      /\ 5 \in Nat /\ 6 \in Nat /\ 7 \in Nat /\ 9 \in Nat /\ 11 \in Nat
  BY DEF IntValue, LengthFor, LengthPiece
<1>3. PICK b \in BufferType : b = Fresh(OkSize) /\ b.len = 36 /\ b.pos = 4 /\ Len(b.pieces) = 0
  BY <1>1, FreshIs
<1>4. PICK c : c = StoreInt(b, 1, 0) /\ HasPiece(b, c, IntPiece(1, 0), 5)
  <2>1. b.pos + 1 = 5 /\ 5 <= b.len
    BY <1>3
  <2> QED BY <1>2, <2>1, StoredInt, Zenon
<1>5. PICK d : d = StoreLength(c, 0) /\ HasPiece(c, d, LengthFor(0), 6)
  <2>1. c \in BufferType /\ c.pos + LengthFor(0).size = 6 /\ 6 <= c.len
    BY <1>2, <1>3, <1>4 DEF HasPiece
  <2> QED BY <1>2, <2>1, StoredLength, Zenon
<1>6. PICK e : e = StoreLength(d, 0) /\ HasPiece(d, e, LengthFor(0), 7)
  <2>1. d \in BufferType /\ d.pos + LengthFor(0).size = 7 /\ 7 <= d.len
    BY <1>2, <1>3, <1>4, <1>5 DEF HasPiece
  <2> QED BY <1>2, <2>1, StoredLength, Zenon
<1>7. PICK f : f = StoreInt(e, 2, 34) /\ HasPiece(e, f, IntPiece(2, 34), 9)
  <2>1. e \in BufferType /\ e.pos + 2 = 9 /\ 9 <= e.len
    BY <1>3, <1>4, <1>5, <1>6 DEF HasPiece
  <2> QED BY <1>2, <2>1, StoredInt, Zenon
<1>8. PICK g : g = StoreInt(f, 2, 0) /\ HasPiece(f, g, IntPiece(2, 0), 11)
  <2>1. f \in BufferType /\ f.pos + 2 = 11 /\ 11 <= f.len
    BY <1>3, <1>4, <1>5, <1>6, <1>7 DEF HasPiece
  <2> QED BY <1>2, <2>1, StoredInt, Zenon
<1>9. Ok(Fresh(OkSize)) = g
  BY <1>3, <1>4, <1>5, <1>6, <1>7, <1>8 DEF Ok, Then, HasPiece
<1>10. Len(c.pieces) = 1 /\ c.pieces[1] = IntPiece(1, 0)
  BY <1>3, <1>4 DEF HasPiece, Extends
<1>11. Len(d.pieces) = 2 /\ d.pieces[1] = IntPiece(1, 0)
  BY <1>5, <1>10 DEF HasPiece, Extends
<1>12. Len(e.pieces) = 3 /\ e.pieces[1] = IntPiece(1, 0)
  BY <1>6, <1>11 DEF HasPiece, Extends
<1>13. Len(f.pieces) = 4 /\ f.pieces[1] = IntPiece(1, 0)
  BY <1>7, <1>12 DEF HasPiece, Extends
<1>14. g.ok = TRUE /\ g.pieces[1] = IntPiece(1, 0)
  BY <1>8, <1>13 DEF HasPiece, Extends
<1> QED BY <1>9, <1>14

\* An error, with its message
LEMMA ErrorIs ==
  ASSUME NEW n \in Nat
  PROVE  LET e == Error(Fresh(ErrorSize(n)), n)
         IN  e.ok = TRUE /\ e.pieces[1] = IntPiece(1, 255) /\ e.pieces[5] = Chars(n)
<1>1. ErrorSize(n) \in Nat /\ ErrorSize(n) + 4 = 22 + n
  BY DEF ErrorSize, MAX_STORE_LENGTH
<1>2. /\ 255 \in IntValue /\ "code" \in IntValue /\ "#" \in IntValue
      /\ 1 \in Nat /\ 2 \in Nat /\ 5 \in Nat /\ 7 \in Nat /\ 8 \in Nat
  BY DEF IntValue
<1>3. PICK b \in BufferType : b = Fresh(ErrorSize(n)) /\ b.len = 22 + n /\ b.pos = 4 /\ Len(b.pieces) = 0
  BY <1>1, FreshIs
<1>4. PICK c : c = StoreInt(b, 1, 255) /\ HasPiece(b, c, IntPiece(1, 255), 5)
  <2>1. b.pos + 1 = 5 /\ 5 <= b.len
    BY <1>3
  <2> QED BY <1>2, <2>1, StoredInt, SMTT(30)
<1>5. PICK d : d = StoreInt(c, 2, "code") /\ HasPiece(c, d, IntPiece(2, "code"), 7)
  <2>1. c \in BufferType /\ c.pos + 2 = 7 /\ 7 <= c.len
    BY <1>3, <1>4 DEF HasPiece
  <2> QED BY <1>2, <2>1, StoredInt, Zenon
<1>6. PICK e : e = StoreInt(d, 1, "#") /\ HasPiece(d, e, IntPiece(1, "#"), 8)
  <2>1. d \in BufferType /\ d.pos + 1 = 8 /\ 8 <= d.len
    BY <1>3, <1>4, <1>5 DEF HasPiece
  <2> QED BY <1>2, <2>1, StoredInt, Zenon
<1>7. PICK f \in BufferType : /\ f = PutIf(e, Chars(5), e.pos + 5 < e.len)
                              /\ f.ok = TRUE /\ f.len = 22 + n /\ f.pos = 13 /\ Extends(e, f, Chars(5))
  <2>1. PICK q \in Piece : q = Chars(5) /\ q.size = 5
    BY <1>2, PieceTyped DEF Chars
  <2>2. e \in BufferType /\ e.pos = 8 /\ e.len = 22 + n
    BY <1>3, <1>4, <1>5, <1>6 DEF HasPiece
  <2>3. e.pos + 5 < e.len
    BY <2>2
  <2>4. PICK f : f = Put(e, q)
    OBVIOUS
  <2>5. f \in BufferType /\ Extends(e, f, q)
    BY <2>2, <2>4, PutExtends
  <2>6. f = PutIf(e, Chars(5), e.pos + 5 < e.len)
    BY <2>1, <2>3, <2>4 DEF PutIf
  <2>7. f.ok = TRUE /\ f.len = 22 + n /\ f.pos = 13
    BY <2>1, <2>2, <2>5 DEF Extends
  <2> QED BY <2>1, <2>5, <2>6, <2>7
<1>8. PICK g \in BufferType : g = StoreChars(f, n) /\ g.ok = TRUE /\ Extends(f, g, Chars(n))
  <2>1. PICK q \in Piece : q = Chars(n)
    BY PieceTyped
  <2>2. f.pos > 0 /\ f.len > f.pos /\ Remain(f) >= n
    BY <1>7 DEF Remain
  <2>3. PICK g : g = Put(f, q)
    OBVIOUS
  <2>4. g \in BufferType /\ Extends(f, g, q)
    BY <2>3, PutExtends
  <2>5. g = StoreChars(f, n)
    BY <2>1, <2>2, <2>3 DEF StoreChars, PutIf
  <2>6. g.ok = TRUE
    BY <2>4 DEF Extends
  <2> QED BY <2>1, <2>4, <2>5, <2>6
<1>9. Error(Fresh(ErrorSize(n)), n) = g
  BY <1>3, <1>4, <1>5, <1>6, <1>7, <1>8 DEF Error, Then, HasPiece
<1>10. Len(c.pieces) = 1 /\ c.pieces[1] = IntPiece(1, 255)
  BY <1>3, <1>4 DEF HasPiece, Extends
<1>11. Len(d.pieces) = 2 /\ d.pieces[1] = IntPiece(1, 255)
  BY <1>5, <1>10 DEF HasPiece, Extends
<1>12. Len(e.pieces) = 3 /\ e.pieces[1] = IntPiece(1, 255)
  BY <1>6, <1>11 DEF HasPiece, Extends
<1>13. Len(f.pieces) = 4 /\ f.pieces[1] = IntPiece(1, 255)
  BY <1>7, <1>12 DEF Extends
<1>14. g.ok = TRUE /\ g.pieces[1] = IntPiece(1, 255) /\ g.pieces[5] = Chars(n)
  <2>1. Len(f.pieces) + 1 = 5
    BY <1>13
  <2> QED BY <1>8, <1>13, <2>1 DEF Extends
<1> QED BY <1>9, <1>14

-----------------------------------------------------------------------------
(* Answers.                                                                 *)

\* ps is x, then the m of f, y, the k of g, and z
Joins(ps, x, f, m, y, g, k, z) ==
  /\ Len(ps) = m + k + 3 /\ DOMAIN ps = 1 .. m + k + 3
  /\ ps[1] = x /\ ps[m + 2] = y /\ ps[m + k + 3] = z
  /\ \A i \in 1 .. m : ps[i + 1] = f[i]
  /\ \A i \in 1 .. k : ps[m + 2 + i] = g[i]

\* c is the m of a, then the n of b
Follows(c, a, m, b, n) ==
  /\ Len(c) = m + n
  /\ \A i \in 1 .. m : c[i] = a[i]
  /\ \A i \in 1 .. n : c[m + i] = b[i]

LEMMA TwoJoined ==
  ASSUME NEW S, NEW a \in Seq(S), NEW b \in Seq(S), NEW m \in Nat, m = Len(a), NEW n \in Nat, n = Len(b)
  PROVE  a \o b \in Seq(S) /\ Follows(a \o b, a, m, b, n)
<1>1. a \o b \in Seq(S) /\ Len(a \o b) = Len(a) + Len(b)
  BY ConcatProperties
<1>2. \A i \in 1 .. m : (a \o b)[i] = a[i]
  OBVIOUS
<1>3. \A i \in 1 .. n : (a \o b)[m + i] = b[i]
  OBVIOUS
<1> QED BY <1>1, <1>2, <1>3 DEF Follows

LEMMA FiveJoined ==
  ASSUME NEW S, NEW x \in S, NEW y \in S, NEW z \in S,
         NEW m \in Nat, NEW f \in [1 .. m -> S], NEW k \in Nat, NEW g \in [1 .. k -> S]
  PROVE  Joins(<<x>> \o f \o <<y>> \o g \o <<z>>, x, f, m, y, g, k, z)
<1>1. f \in Seq(S) /\ g \in Seq(S) /\ m = Len(f) /\ k = Len(g)
  OBVIOUS
<1>2. \A w \in S : <<w>> \in Seq(S) /\ 1 = Len(<<w>>) /\ <<w>>[1] = w
  OBVIOUS
<1>3. 1 \in Nat /\ 1 \in 1 .. 1
  OBVIOUS
<1>4. PICK a \in Seq(S) : a = <<x>> \o f /\ Follows(a, <<x>>, 1, f, m)
  BY <1>1, <1>2, <1>3, TwoJoined
<1>5. PICK p \in Nat : p = Len(a) /\ p = 1 + m
  BY <1>4 DEF Follows
<1>6. PICK b \in Seq(S) : b = a \o <<y>> /\ Follows(b, a, p, <<y>>, 1)
  BY <1>2, <1>3, <1>5, TwoJoined
<1>7. PICK q \in Nat : q = Len(b) /\ q = p + 1
  BY <1>6 DEF Follows
<1>8. PICK c \in Seq(S) : c = b \o g /\ Follows(c, b, q, g, k)
  BY <1>1, <1>7, TwoJoined
<1>9. PICK r \in Nat : r = Len(c) /\ r = q + k
  BY <1>8 DEF Follows
<1>10. PICK d \in Seq(S) : d = c \o <<z>> /\ Follows(d, c, r, <<z>>, 1)
  BY <1>2, <1>3, <1>9, TwoJoined
<1>11. d = <<x>> \o f \o <<y>> \o g \o <<z>>
  BY <1>4, <1>6, <1>8, <1>10
<1>12. Len(d) = m + k + 3 /\ d[m + k + 3] = z
  <2>1. d[r + 1] = z
    BY <1>2, <1>3, <1>10 DEF Follows
  <2>2. r + 1 = m + k + 3
    BY <1>5, <1>7, <1>9
  <2> QED BY <1>10, <2>1, <2>2 DEF Follows
<1>13. \A i \in 1 .. q : d[i] = b[i]
  <2> SUFFICES ASSUME NEW i \in 1 .. q PROVE d[i] = b[i]
    OBVIOUS
  <2>1. i \in 1 .. r
    BY <1>9
  <2> QED BY <1>8, <1>10, <2>1 DEF Follows
<1>14. d[m + 2] = y
  <2>1. b[p + 1] = y
    BY <1>2, <1>3, <1>6 DEF Follows
  <2>2. q \in 1 .. q /\ q = p + 1 /\ q = m + 2
    BY <1>5, <1>7
  <2> QED BY <1>13, <2>1, <2>2
<1>15. \A i \in 1 .. p : d[i] = a[i]
  <2> SUFFICES ASSUME NEW i \in 1 .. p PROVE d[i] = a[i]
    OBVIOUS
  <2>1. i \in 1 .. q
    BY <1>7
  <2> QED BY <1>6, <1>13, <2>1 DEF Follows
<1>16. d[1] = x
  <2>1. a[1] = x
    BY <1>2, <1>3, <1>4 DEF Follows
  <2>2. 1 \in 1 .. p
    BY <1>5
  <2> QED BY <1>15, <2>1, <2>2
<1>17. ASSUME NEW i \in 1 .. m PROVE d[i + 1] = f[i]
  <2>1. a[1 + i] = f[i]
    BY <1>4 DEF Follows
  <2>2. 1 + i \in 1 .. p /\ 1 + i = i + 1
    BY <1>5
  <2> QED BY <1>15, <2>1, <2>2
<1>18. ASSUME NEW i \in 1 .. k PROVE d[m + 2 + i] = g[i]
  <2>1. c[q + i] = g[i]
    BY <1>8 DEF Follows
  <2>2. q + i \in 1 .. r /\ q + i = m + 2 + i
    BY <1>5, <1>7, <1>9
  <2>3. d[q + i] = c[q + i]
    BY <1>10, <2>2 DEF Follows
  <2> QED BY <2>1, <2>2, <2>3
<1>19. DOMAIN d = 1 .. m + k + 3
  BY <1>12
<1> QED BY <1>11, <1>12, <1>14, <1>16, <1>17, <1>18, <1>19 DEF Joins

LEMMA OkRead == ReadAnswer(Packets([kind |-> "ok"])) = [kind |-> "ok"]
<1>1. PICK p : p = Packet(1, Ok(Fresh(OkSize)))
  OBVIOUS
<1>2. p.seq = 1 % SeqLimit /\ p.payload[1] = IntPiece(1, 0)
  BY <1>1, OkIs DEF Packet
<1>3. PICK ps : ps = <<p>>
  OBVIOUS
<1>4. Packets([kind |-> "ok"]) = ps
  BY <1>1, <1>3, OkIs DEF Packets, Post
<1>5. Len(ps) = 1 /\ DOMAIN ps = 1 .. 1 /\ ps[1] = p /\ ps # <<>>
  BY <1>3
<1>6. Numbered(ps)
  BY <1>2, <1>5 DEF Numbered
<1>7. /\ ~(ps = <<>> \/ ~Numbered(ps)) /\ ps[1].payload[1] = IntPiece(1, 0)
      /\ ps[1].payload[1] # IntPiece(1, 255) /\ ps[1].payload[1].piece # "length"
  BY <1>2, <1>5, <1>6 DEF IntPiece
<1>8. ReadAnswer(ps) = [kind |-> "ok"]
  BY <1>7 DEF ReadAnswer
<1> QED BY <1>4, <1>8

LEMMA ErrorRead ==
  ASSUME NEW n \in Nat, NEW a, a = [kind |-> "error", message |-> n]
  PROVE  ReadAnswer(Packets(a)) = a
<1>1. PICK p : p = Packet(1, Error(Fresh(ErrorSize(n)), n))
  OBVIOUS
<1>2. p.seq = 1 % SeqLimit /\ p.payload[1] = IntPiece(1, 255) /\ p.payload[5] = Chars(n)
  BY <1>1, ErrorIs DEF Packet
<1>3. PICK ps : ps = <<p>>
  OBVIOUS
<1>4. Packets(a) = ps
  BY <1>1, <1>3, ErrorIs DEF Packets, Post
<1>5. Len(ps) = 1 /\ DOMAIN ps = 1 .. 1 /\ ps[1] = p /\ ps # <<>>
  BY <1>3
<1>6. Numbered(ps)
  BY <1>2, <1>5 DEF Numbered
<1>7. IntPiece(1, 255) # IntPiece(1, 0) /\ IntPiece(1, 255).piece # "length" /\ Chars(n).size = n
  BY DEF IntPiece, Chars
<1>8. /\ ~(ps = <<>> \/ ~Numbered(ps)) /\ ps[1].payload[1] # IntPiece(1, 0)
      /\ ps[1].payload[1] = IntPiece(1, 255) /\ ps[1].payload[5].size = n
      /\ ps[1].payload[1].piece # "length"
  BY <1>2, <1>5, <1>6, <1>7
<1>9. ReadAnswer(ps) = [kind |-> "error", message |-> n]
  BY <1>8 DEF ReadAnswer
<1> QED BY <1>4, <1>9

\* The packets of a result
RowAnswers ==
  {a \in [kind : {"rows"}, names : Seq(Nat), rows : Seq(Seq(AnswerCell))] :
     \A i \in DOMAIN a.rows : Len(a.rows[i]) = Len(a.names)}

HeaderPacket(n) == Packet(1, Resheader(Fresh(ResheaderSize), n))
EofPacket(q) == Packet(q, Eof(Fresh(EofSize)))
Results(ps, a, n, m) ==
  Joins(ps, HeaderPacket(n), Fields(a), n, EofPacket(n + 2), Rows(a, n + 2), m, EofPacket(n + m + 3))

LEMMA ResultSetIs ==
  ASSUME NEW a \in RowAnswers, NEW n \in Nat, n = Len(a.names), NEW m \in Nat, m = Len(a.rows)
  PROVE  Results(Packets(a), a, n, m)
<1>1. a.kind = "rows" /\ a.names \in Seq(Nat) /\ a.rows \in Seq(Seq(AnswerCell))
  BY DEF RowAnswers
<1>2. PICK x : x = HeaderPacket(n)
  OBVIOUS
<1>3. PICK y : y = EofPacket(n + 2)
  OBVIOUS
<1>4. PICK z : z = EofPacket(n + m + 3)
  OBVIOUS
<1>5. PICK f : f = Fields(a) /\ f = [i \in 1 .. n |-> f[i]]
  <2>1. DOMAIN a.names = 1 .. n
    BY <1>1
  <2> QED BY <2>1 DEF Fields
<1>6. PICK g : g = Rows(a, n + 2) /\ g = [i \in 1 .. m |-> g[i]]
  <2>1. DOMAIN a.rows = 1 .. m
    BY <1>1
  <2> QED BY <2>1 DEF Rows
<1>7. /\ Post(1, Resheader(Fresh(ResheaderSize), n)) = <<x>>
      /\ Post(n + 2, Eof(Fresh(EofSize))) = <<y>>
      /\ Post(n + m + 3, Eof(Fresh(EofSize))) = <<z>>
  BY <1>2, <1>3, <1>4, ResheaderIs, EofIs DEF Post, HeaderPacket, EofPacket
<1>8. ResultSet(a) = <<x>> \o f \o <<y>> \o g \o <<z>>
  BY <1>5, <1>6, <1>7 DEF ResultSet
<1>9. Packets(a) = ResultSet(a)
  BY <1>1 DEF Packets
<1>10. PICK S : /\ x \in S /\ y \in S /\ z \in S
                /\ f \in [1 .. n -> S] /\ g \in [1 .. m -> S]
  <2> DEFINE R == {x, y, z} \cup {f[i] : i \in 1 .. n} \cup {g[i] : i \in 1 .. m}
  <2>1. x \in R /\ y \in R /\ z \in R
    OBVIOUS
  <2>2. f \in [1 .. n -> R] /\ g \in [1 .. m -> R]
    BY <1>5, <1>6
  <2> HIDE DEF R
  <2> QED BY <2>1, <2>2
<1>11. Joins(<<x>> \o f \o <<y>> \o g \o <<z>>, x, f, n, y, g, m, z)
  BY <1>10, FiveJoined
<1> QED BY <1>2, <1>3, <1>4, <1>5, <1>6, <1>8, <1>9, <1>11 DEF Results

LEMMA BehindIs ==
  ASSUME NEW n \in Nat, NEW m \in Nat, NEW i \in Nat, i > n + 2, i < n + m + 3
  PROVE  \E j \in 1 .. m : i = n + 2 + j
<1>1. PICK j \in Int : j = i - (n + 2)
  OBVIOUS
<1>2. j \in 1 .. m /\ i = n + 2 + j
  BY <1>1
<1> QED BY <1>2

\* Each packet has its number
SeqsRight(x, f, n, y, g, m, z) ==
  /\ x.seq = 1 % SeqLimit /\ y.seq = (n + 2) % SeqLimit /\ z.seq = (n + m + 3) % SeqLimit
  /\ \A i \in 1 .. n : f[i].seq = (1 + i) % SeqLimit
  /\ \A i \in 1 .. m : g[i].seq = (n + 2 + i) % SeqLimit

LEMMA JoinedNumbered ==
  ASSUME NEW n \in Nat, NEW m \in Nat, NEW ps, NEW x, NEW f, NEW y, NEW g, NEW z,
         Joins(ps, x, f, n, y, g, m, z), SeqsRight(x, f, n, y, g, m, z)
  PROVE  Numbered(ps)
<1>1. DOMAIN ps = 1 .. n + m + 3
  BY DEF Joins
<1>2. ASSUME NEW i \in 1 .. n + m + 3 PROVE ps[i].seq = i % SeqLimit
  <2>1. CASE i = 1
    BY <2>1 DEF Joins, SeqsRight
  <2>2. CASE i = n + 2
    BY <2>2 DEF Joins, SeqsRight
  <2>3. CASE i = n + m + 3
    BY <2>3 DEF Joins, SeqsRight
  <2>4. CASE i > 1 /\ i < n + 2
    <3>1. PICK j \in 1 .. n : i = j + 1
      <4>1. i - 1 \in 1 .. n /\ i = i - 1 + 1
        BY <2>4
      <4> QED BY <4>1
    <3>2. ps[i] = f[j]
      BY <3>1 DEF Joins
    <3>3. f[j].seq = (1 + j) % SeqLimit /\ 1 + j = i
      BY <3>1 DEF SeqsRight
    <3> QED BY <3>2, <3>3
  <2>5. CASE i > n + 2 /\ i < n + m + 3
    <3>1. PICK j \in 1 .. m : i = n + 2 + j
      BY <2>5, BehindIs
    <3>2. ps[i] = g[j]
      BY <3>1 DEF Joins
    <3>3. g[j].seq = (n + 2 + j) % SeqLimit
      BY DEF SeqsRight
    <3> QED BY <3>1, <3>2, <3>3
  <2> QED BY <2>1, <2>2, <2>3, <2>4, <2>5
<1> QED BY <1>1, <1>2 DEF Numbered

LEMMA ResultNumbered ==
  ASSUME NEW a \in RowAnswers, NEW n \in Nat, n = Len(a.names), NEW m \in Nat, m = Len(a.rows),
         NEW ps, Results(ps, a, n, m)
  PROVE  Numbered(ps)
<1>1. \A q, b : Packet(q, b).seq = q % SeqLimit
  BY DEF Packet
<1>2. DOMAIN a.names = 1 .. n /\ DOMAIN a.rows = 1 .. m
  BY DEF RowAnswers
<1>3. ASSUME NEW i \in 1 .. n PROVE Fields(a)[i].seq = (1 + i) % SeqLimit
  BY <1>1, <1>2 DEF Fields
<1>4. ASSUME NEW i \in 1 .. m PROVE Rows(a, n + 2)[i].seq = (n + 2 + i) % SeqLimit
  BY <1>1, <1>2 DEF Rows
<1>5. HeaderPacket(n).seq = 1 % SeqLimit /\ \A q : EofPacket(q).seq = q % SeqLimit
  BY <1>1 DEF HeaderPacket, EofPacket
<1>6. PICK x, f, y, g, z :
         /\ x = HeaderPacket(n) /\ f = Fields(a) /\ y = EofPacket(n + 2)
         /\ g = Rows(a, n + 2) /\ z = EofPacket(n + m + 3)
  OBVIOUS
<1>7. Joins(ps, x, f, n, y, g, m, z)
  BY <1>6 DEF Results
<1>8. SeqsRight(x, f, n, y, g, m, z)
  BY <1>3, <1>4, <1>5, <1>6 DEF SeqsRight
<1> QED BY <1>7, <1>8, JoinedNumbered, Zenon

LEMMA TypesTyped ==
  ASSUME NEW a \in RowAnswers, NEW i \in 1 .. Len(a.names)
  PROVE  TypesOf(a)[i] \in IntValue
<1>1. i \in DOMAIN a.names
  BY DEF RowAnswers
<1>2. /\ DOMAIN TypeCode = {"bool", "number", "datetime", "varchar"}
      /\ \A t \in DOMAIN TypeCode : TypeCode[t] \in IntValue
      /\ "any" \in IntValue /\ TypeCode.varchar \in IntValue
  BY DEF TypeCode, IntValue
<1>3. CASE a.rows = <<>>
  BY <1>1, <1>2, <1>3 DEF TypesOf
<1>4. CASE a.rows # <<>>
  <2>1. PICK t : t = a.rows[1][i].type
    OBVIOUS
  <2>2. TypesOf(a)[i] = IF t \in DOMAIN TypeCode THEN TypeCode[t] ELSE "any"
    BY <1>1, <1>4, <2>1 DEF TypesOf
  <2> QED BY <1>2, <2>2
<1> QED BY <1>3, <1>4

\* What the packets of a result hold: x a length, f names, g rows
Reads(ps, a, n, m) ==
  /\ Len(ps) = n + m + 3
  /\ ps[1].payload[1] = LengthFor(n) /\ IsEof(ps[n + 2].payload) /\ IsEof(ps[n + m + 3].payload)
  /\ \A i \in 1 .. n : FieldAnswered(a.names[i], ps[i + 1].payload)
  /\ \A i \in 1 .. m : RowAnswered(a.rows[i], ps[n + 2 + i].payload)

LEMMA ResultReads ==
  ASSUME NEW a \in RowAnswers, NEW n \in Nat, n = Len(a.names), NEW m \in Nat, m = Len(a.rows),
         NEW ps, Results(ps, a, n, m)
  PROVE  Reads(ps, a, n, m)
<1>1. \A q, b : Packet(q, b).payload = b.pieces
  BY DEF Packet
<1>2. DOMAIN a.names = 1 .. n /\ DOMAIN a.rows = 1 .. m
  BY DEF RowAnswers
<1>3. ASSUME NEW i \in 1 .. n PROVE FieldAnswered(a.names[i], Fields(a)[i].payload)
  <2>1. Fields(a)[i].payload = Field(Fresh(FieldSize), a.names[i], TypesOf(a)[i]).pieces
    BY <1>1, <1>2 DEF Fields
  <2>2. a.names[i] \in Nat
    BY <1>2 DEF RowAnswers
  <2>3. TypesOf(a)[i] \in IntValue
    BY TypesTyped
  <2> QED BY <2>1, <2>2, <2>3, FieldRead
<1>4. ASSUME NEW i \in 1 .. m PROVE RowAnswered(a.rows[i], Rows(a, n + 2)[i].payload)
  <2>1. Rows(a, n + 2)[i].payload = Row(Fresh(RowSize), a.rows[i]).pieces
    BY <1>1, <1>2 DEF Rows
  <2>2. a.rows[i] \in Seq(AnswerCell)
    BY <1>2 DEF RowAnswers
  <2> QED BY <2>1, <2>2, RowRead
<1>5. HeaderPacket(n).payload[1] = LengthFor(n)
  BY <1>1, ResheaderIs DEF HeaderPacket
<1>6. \A q : IsEof(EofPacket(q).payload)
  BY <1>1, EofIs DEF EofPacket
<1>7. /\ Len(ps) = n + m + 3
      /\ ps[1] = HeaderPacket(n) /\ ps[n + 2] = EofPacket(n + 2)
      /\ ps[n + m + 3] = EofPacket(n + m + 3)
      /\ \A i \in 1 .. n : ps[i + 1] = Fields(a)[i]
      /\ \A i \in 1 .. m : ps[n + 2 + i] = Rows(a, n + 2)[i]
  BY DEF Results, Joins
<1> QED BY <1>3, <1>4, <1>5, <1>6, <1>7 DEF Reads

\* Nothing is missing in the packets of a result
Complete(ps, n, m) ==
  /\ \A i \in 1 .. n : IsField(ps[i + 1].payload)
  /\ \A i \in 1 .. m : IsRow(ps[n + 2 + i].payload, n)

\* Whether packets that begin with a length of n, and of which there are m
\* more than the n names need, are the result whose rows they hold
Framed(ps, n, m) ==
  /\ Len(ps) = n + m + 3
  /\ ps[1].payload[1] = LengthFor(n) /\ IsEof(ps[n + 2].payload) /\ IsEof(ps[n + m + 3].payload)

RowsOf(ps, n, m) ==
  [kind |-> "rows",
   names |-> [i \in 1 .. n |-> FieldName(ps[i + 1].payload)],
   rows |-> [i \in 1 .. m |-> Texts(ps[n + 2 + i].payload)]]

LEMMA FramedRead ==
  ASSUME NEW n \in Nat, NEW m \in Nat, NEW ps, Framed(ps, n, m)
  PROVE  ReadRows(ps) = IF Complete(ps, n, m) THEN RowsOf(ps, n, m) ELSE Malformed
<1>1. GetLength(ps[1].payload[1]) = n
  BY LengthForTyped DEF Framed
<1>2. PICK l \in Nat : l = Len(ps) /\ l = n + m + 3
  BY DEF Framed
<1>3. ~(l < n + 3) /\ IsEof(ps[n + 2].payload) /\ IsEof(ps[l].payload)
  BY <1>2 DEF Framed
<1>4. (\E i \in 2 .. n + 1 : ~IsField(ps[i].payload)) <=> (\E i \in 1 .. n : ~IsField(ps[i + 1].payload))
  <2>1. ASSUME NEW i \in 2 .. n + 1, ~IsField(ps[i].payload)
        PROVE  \E j \in 1 .. n : ~IsField(ps[j + 1].payload)
    <3>1. i - 1 \in 1 .. n /\ i - 1 + 1 = i
      OBVIOUS
    <3> QED BY <2>1, <3>1
  <2>2. ASSUME NEW i \in 1 .. n, ~IsField(ps[i + 1].payload)
        PROVE  \E j \in 2 .. n + 1 : ~IsField(ps[j].payload)
    <3>1. i + 1 \in 2 .. n + 1
      OBVIOUS
    <3> QED BY <2>2, <3>1
  <2> QED BY <2>1, <2>2
<1>5. (\E i \in n + 3 .. l - 1 : ~IsRow(ps[i].payload, n))
        <=> (\E i \in 1 .. m : ~IsRow(ps[n + 2 + i].payload, n))
  <2>1. ASSUME NEW i \in n + 3 .. l - 1, ~IsRow(ps[i].payload, n)
        PROVE  \E j \in 1 .. m : ~IsRow(ps[n + 2 + j].payload, n)
    <3>1. i \in Nat /\ i > n + 2 /\ i < n + m + 3
      BY <1>2
    <3>2. PICK j \in 1 .. m : i = n + 2 + j
      BY <3>1, BehindIs
    <3> QED BY <2>1, <3>2
  <2>2. ASSUME NEW i \in 1 .. m, ~IsRow(ps[n + 2 + i].payload, n)
        PROVE  \E j \in n + 3 .. l - 1 : ~IsRow(ps[j].payload, n)
    <3>1. n + 2 + i \in n + 3 .. l - 1
      BY <1>2
    <3> QED BY <2>2, <3>1
  <2> QED BY <2>1, <2>2
<1>6. l - n - 3 = m
  BY <1>2
<1>7. ReadRows(ps) =
        IF \/ l < n + 3
           \/ \E i \in 2 .. n + 1 : ~IsField(ps[i].payload)
           \/ ~IsEof(ps[n + 2].payload) \/ ~IsEof(ps[l].payload)
           \/ \E i \in n + 3 .. l - 1 : ~IsRow(ps[i].payload, n)
        THEN Malformed
        ELSE [kind |-> "rows",
              names |-> [i \in 1 .. n |-> FieldName(ps[i + 1].payload)],
              rows |-> [i \in 1 .. l - n - 3 |-> Texts(ps[n + 2 + i].payload)]]
  BY <1>1, <1>2, Zenon DEF ReadRows
<1>8. ReadRows(ps) =
        IF \/ \E i \in 1 .. n : ~IsField(ps[i + 1].payload)
           \/ \E i \in 1 .. m : ~IsRow(ps[n + 2 + i].payload, n)
        THEN Malformed ELSE RowsOf(ps, n, m)
  BY <1>3, <1>4, <1>5, <1>6, <1>7, Zenon DEF RowsOf
<1> QED BY <1>8, Zenon DEF Complete

LEMMA CompleteRead ==
  ASSUME NEW a \in RowAnswers, NEW n \in Nat, n = Len(a.names), NEW m \in Nat, m = Len(a.rows),
         NEW ps, Reads(ps, a, n, m)
  PROVE  ReadRows(ps) = IF Complete(ps, n, m) THEN Seen(a) ELSE Malformed
<1>1. Framed(ps, n, m)
  BY Zenon DEF Reads, Framed
<1>2. ReadRows(ps) = IF Complete(ps, n, m) THEN RowsOf(ps, n, m) ELSE Malformed
  BY <1>1, FramedRead, Zenon
<1>3. ASSUME Complete(ps, n, m) PROVE RowsOf(ps, n, m) = Seen(a)
  <2>1. PICK N, R : /\ a = [kind |-> "rows", names |-> N, rows |-> R]
                    /\ N = [i \in 1 .. n |-> N[i]] /\ DOMAIN R = 1 .. m
                    /\ \A i \in 1 .. m : Len(R[i]) = n
    BY DEF RowAnswers
  <2>2. a.kind = "rows" /\ a.names = N /\ a.rows = R
    BY <2>1
  <2>3. \A i \in 1 .. n : FieldName(ps[i + 1].payload) = N[i]
    BY <1>3, <2>2, Zenon DEF Complete, Reads, FieldAnswered
  <2>4. ASSUME NEW i \in 1 .. m
        PROVE  Texts(ps[n + 2 + i].payload) = [j \in DOMAIN R[i] |-> SeenCell(R[i][j])]
    BY <1>3, <2>1, <2>2, SMTT(30) DEF Complete, Reads, RowAnswered
  <2>5. Seen(a) = [a EXCEPT !.rows = [i \in 1 .. m |-> [j \in DOMAIN R[i] |-> SeenCell(R[i][j])]]]
    BY <2>1, <2>2, Zenon DEF Seen, SeenCell
  <2>6. PICK T : T = [i \in 1 .. m |-> [j \in DOMAIN R[i] |-> SeenCell(R[i][j])]]
    OBVIOUS
  <2>7. [a EXCEPT !.rows = T] = [kind |-> "rows", names |-> N, rows |-> T]
    BY <2>1
  <2>8. [i \in 1 .. n |-> FieldName(ps[i + 1].payload)] = N
    BY <2>1, <2>3, Zenon
  <2>9. [i \in 1 .. m |-> Texts(ps[n + 2 + i].payload)] = T
    BY <2>4, <2>6, Zenon
  <2> QED BY <2>5, <2>6, <2>7, <2>8, <2>9, Zenon DEF RowsOf
<1> QED BY <1>2, <1>3, Zenon

LEMMA FittingComplete ==
  ASSUME NEW a \in RowAnswers, NEW n \in Nat, n = Len(a.names), NEW m \in Nat, m = Len(a.rows),
         NEW ps, Reads(ps, a, n, m), FitsPackets(a)
  PROVE  Complete(ps, n, m)
<1>1. /\ a.kind = "rows" /\ DOMAIN a.names = 1 .. n /\ DOMAIN a.rows = 1 .. m
      /\ \A i \in 1 .. m : Len(a.rows[i]) = n
  BY DEF RowAnswers
<1>2. /\ \A i \in 1 .. n : 21 + Prefix(a.names[i]) + a.names[i] <= FieldSize
      /\ \A i \in 1 .. m : RowBytes(a.rows[i]) <= RowSize - 29
  BY <1>1 DEF FitsPackets
<1>3. \A i \in 1 .. n : IsField(ps[i + 1].payload)
  BY <1>2 DEF Reads, FieldAnswered
<1>4. \A i \in 1 .. m : IsRow(ps[n + 2 + i].payload, n)
  BY <1>1, <1>2 DEF Reads, RowAnswered
<1> QED BY <1>3, <1>4 DEF Complete


LEMMA FramedAnswer ==
  ASSUME NEW n \in Nat, NEW m \in Nat, NEW ps, Framed(ps, n, m), Numbered(ps)
  PROVE  ReadAnswer(ps) = ReadRows(ps)
<1>1. ps # <<>>
  <2>1. PICK l \in Nat : l = Len(ps) /\ l # 0
    BY DEF Framed
  <2> QED BY <2>1
<1>2. PICK q : q = ps[1].payload[1] /\ q = LengthFor(n)
  BY DEF Framed
<1>3. q.piece = "length" /\ q # IntPiece(1, 0) /\ q # IntPiece(1, 255)
  <2>1. q.piece = "length"
    BY <1>2, LengthForTyped
  <2>2. IntPiece(1, 0).piece = "int" /\ IntPiece(1, 255).piece = "int"
    BY DEF IntPiece
  <2> QED BY <2>1, <2>2
<1>4. /\ ~(ps = <<>> \/ ~Numbered(ps)) /\ ps[1].payload[1] # IntPiece(1, 0)
      /\ ps[1].payload[1] # IntPiece(1, 255) /\ ps[1].payload[1].piece = "length"
  BY <1>1, <1>2, <1>3
<1> QED BY <1>4 DEF ReadAnswer

\* What the client reads of an answer a
ReadRight(a, r) ==
  \/ r = Seen(a)
  \/ ~FitsPackets(a) /\ r = Malformed

LEMMA ResultRead ==
  ASSUME NEW a \in RowAnswers
  PROVE  ReadRight(a, ReadAnswer(Packets(a)))
<1>1. PICK n \in Nat, m \in Nat : n = Len(a.names) /\ m = Len(a.rows)
  BY DEF RowAnswers
<1>2. PICK ps : ps = Packets(a)
  OBVIOUS
<1>3. Results(ps, a, n, m)
  BY <1>1, <1>2, ResultSetIs, Zenon
<1>4. Reads(ps, a, n, m) /\ Numbered(ps)
  BY <1>1, <1>3, ResultReads, ResultNumbered, Zenon
<1>5. Framed(ps, n, m)
  BY <1>4, Zenon DEF Reads, Framed
<1>6. ReadAnswer(ps) = ReadRows(ps)
  BY <1>4, <1>5, FramedAnswer, Zenon
<1>7. ReadRows(ps) = IF Complete(ps, n, m) THEN Seen(a) ELSE Malformed
  BY <1>1, <1>4, CompleteRead, Zenon
<1>8. FitsPackets(a) => Complete(ps, n, m)
  BY <1>1, <1>4, FittingComplete, Zenon
<1> QED BY <1>2, <1>6, <1>7, <1>8, Zenon DEF ReadRight

LEMMA EachRead ==
  ASSUME NEW a \in Answers
  PROVE  ReadRight(a, Replies[a])
<1>1. Replies[a] = ReadAnswer(Packets(a))
  BY DEF Replies
<1>2. CASE a = [kind |-> "ok"]
  <2>1. ReadAnswer(Packets(a)) = a
    BY <1>2, OkRead
  <2>2. Seen(a) = a
    BY <1>2 DEF Seen
  <2> QED BY <1>1, <2>1, <2>2, Zenon DEF ReadRight
<1>3. CASE a \in [kind : {"error"}, message : Nat]
  <2>1. PICK n \in Nat : a = [kind |-> "error", message |-> n]
    BY <1>3
  <2>2. ReadAnswer(Packets(a)) = a
    BY <2>1, ErrorRead
  <2>3. Seen(a) = a
    BY <2>1 DEF Seen
  <2> QED BY <1>1, <2>2, <2>3, Zenon DEF ReadRight
<1>4. CASE a \in RowAnswers
  BY <1>1, <1>4, ResultRead
<1>5. \/ a = [kind |-> "ok"] \/ a \in [kind : {"error"}, message : Nat] \/ a \in RowAnswers
  BY AnswersAssumption, Zenon DEF RowAnswers
<1> QED BY <1>2, <1>3, <1>4, <1>5

\* The answer of the last command is one of the answers, with what the client
\* reads of its packets.
AnswerKept == answer = <<>> \/ \E a \in Answers : answer = <<a, Replies[a]>>

\* The client reads every answer as it was given: an OK, an error with its
\* message, and a result with each name and each text or NULL in its row and
\* column, numbered without a gap.  If a name or a row does not fit in its
\* packet the client may see that something is missing, but never reads
\* another answer (store_length, store_str_v, the serialize functions of
\* server/packet, send_result_set).
THEOREM ReadsAnswers == ReaderSpec => []AnswersRead
<1>1. ReaderInit => AnswerKept
  BY DEF ReaderInit, AnswerKept
<1>2. AnswerKept /\ [ReaderNext]_readerVars => AnswerKept'
  <2> SUFFICES ASSUME AnswerKept, [ReaderNext]_readerVars
               PROVE  AnswerKept'
    OBVIOUS
  <2>1. CASE answer' = answer
    BY <2>1 DEF AnswerKept, Replies
  <2>2. CASE LoopEnds
    BY <2>2 DEF LoopEnds, AnswerKept
  <2>3. CASE ReadPackage
    BY <2>3 DEF ReadPackage, AnswerKept, Replies
  <2>4. ASSUME NEW n \in CommandSize, SendCommand(n) PROVE answer' = answer
    BY <2>4 DEF SendCommand
  <2>5. ASSUME NEW k \in 1 .. ReadBlock, ReadSocket(k) PROVE answer' = answer
    BY <2>5 DEF ReadSocket
  <2>6. ASSUME NEW k \in 1 .. ReadBlock, ReadSocketRefused(k) PROVE answer' = answer
    BY <2>6 DEF ReadSocketRefused
  <2>7. CASE UNCHANGED readerVars
    BY <2>1, <2>7 DEF readerVars
  <2> QED BY <2>1, <2>2, <2>3, <2>4, <2>5, <2>6, <2>7 DEF ReaderNext
<1>3. AnswerKept => AnswersRead
  <2> SUFFICES ASSUME NEW a \in Answers, answer = <<a, Replies[a]>>
               PROVE  AnswersRead
    BY DEF AnswerKept, AnswersRead
  <2>1. PICK r : r = Replies[a] /\ ReadRight(a, r)
    BY EachRead
  <2>2. answer[1] = a /\ answer[2] = r
    BY <2>1
  <2> QED BY <2>1, <2>2, Zenon DEF AnswersRead, ReadRight
<1> QED BY <1>1, <1>2, <1>3, PTL DEF ReaderSpec

=============================================================================
