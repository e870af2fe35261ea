------------------------------- MODULE Packets -------------------------------
(***************************************************************************)
(* The packets of an answer (server/packet, and the process_*_packet       *)
(* functions of server/request_handle.cpp).  A payload is a sequence of    *)
(* pieces, each with the bytes it takes: an integer, a length (its first   *)
(* byte says how it is stored, or that there is NULL instead of a text),   *)
(* or the characters of a text, of which only the number matters.          *)
(*                                                                         *)
(* post_packet serializes into a buffer of a size the packet has asked     *)
(* for; every store looks whether there is room.  Rows and fields ask for  *)
(* 1020 bytes whatever they hold, and go on when a store has failed.       *)
(***************************************************************************)
EXTENDS Integers, Sequences, FiniteSets

PACKET_HEADER_SIZE == 4
MAX_STORE_LENGTH == 9

IntPiece(width, value) == [piece |-> "int", size |-> width, value |-> value]
LengthPiece(width, first, value) == [piece |-> "length", size |-> width, first |-> first, value |-> value]
Chars(n) == [piece |-> "chars", size |-> n]

\* A buffer of len bytes of which pos are used.  ok is the result of the last
\* store; a store that fails leaves pos and what is before it.
Buffer(len) == [len |-> len, pos |-> PACKET_HEADER_SIZE, pieces |-> <<>>, ok |-> TRUE]
Remain(b) == b.len - b.pos
Put(b, piece) == [b EXCEPT !.pos = @ + piece.size, !.pieces = Append(@, piece), !.ok = TRUE]
Failed(b) == [b EXCEPT !.ok = FALSE]
PutIf(b, piece, room) == IF room THEN Put(b, piece) ELSE Failed(b)

-----------------------------------------------------------------------------
(* Util: integers, lengths and texts.                                       *)

\* store_int1 to store_int8
StoreInt(b, width, value) == PutIf(b, IntPiece(width, value), b.len >= b.pos + width)

\* store_null
StoreNull(b) == PutIf(b, LengthPiece(1, 251, 0), b.len >= b.pos + 1)

\* mutant: 251 as a length of one byte
StoreLengthWide(b, n) ==
  CASE n < 252 /\ Remain(b) >= 1 -> Put(b, LengthPiece(1, n, n))
    [] n >= 252 /\ n < 65536 /\ Remain(b) >= 3 -> Put(b, LengthPiece(3, 252, n))
    [] n < 16777216 /\ n >= 65536 /\ Remain(b) >= 4 -> Put(b, LengthPiece(4, 253, n))
    [] n >= 16777216 /\ Remain(b) >= 9 -> Put(b, LengthPiece(9, 254, n))
    [] OTHER -> Failed(b)

\* store_length: 251 to 255 are no lengths of one byte
StoreLength(b, n) ==
  CASE n < 251 /\ Remain(b) >= 1 -> Put(b, LengthPiece(1, n, n))
    [] n >= 251 /\ n < 65536 /\ Remain(b) >= 3 -> Put(b, LengthPiece(3, 252, n))
    [] n >= 65536 /\ n < 16777216 /\ Remain(b) >= 4 -> Put(b, LengthPiece(4, 253, n))
    [] n >= 16777216 /\ Remain(b) >= 9 -> Put(b, LengthPiece(9, 254, n))
    [] OTHER -> Failed(b)

\* get_length: the length, or -1 for NULL
GetLength(p) == IF p.first = 251 THEN -1 ELSE IF p.first < 251 THEN p.first ELSE p.value

\* store_str_v and store_obstr: rolled back when the text does not fit
StoreStr(b, n) ==
  LET l == StoreLength(b, n) IN
  IF ~l.ok THEN l ELSE IF n <= Remain(l) THEN Put(l, Chars(n)) ELSE Failed(b)

\* store_obstr_nzt: the text without its length
StoreChars(b, n) == PutIf(b, Chars(n), b.pos > 0 /\ b.len > b.pos /\ Remain(b) >= n)

\* One store after another, until one fails
Then(b, c) == IF b.ok THEN c ELSE b

-----------------------------------------------------------------------------
(* serialize and get_serialize_size.                                        *)

\* The code of a cell's type that a field carries, if it has one: NULL is no
\* type of the table, and the variable keeps what the stack held
TypeCode == [bool |-> 1, number |-> 5, datetime |-> 12, varchar |-> 253]

\* ResheaderPacket: the number of columns
ResheaderSize == MAX_STORE_LENGTH
Resheader(b, columns) == StoreLength(b, columns)

\* EofPacket
EofSize == 5
Eof(b) ==
  LET c == StoreInt(b, 1, 254)
      d == Then(c, StoreInt(c, 2, 0))
  IN  Then(d, StoreInt(d, 2, 0))

\* OKPacket, of which no command sets a field
OkSize == 5 + 9 + 9 + 9
Ok(b) ==
  LET c == StoreInt(b, 1, 0)
      d == Then(c, StoreLength(c, 0))
      e == Then(d, StoreLength(d, 0))
      f == Then(e, StoreInt(e, 2, 34))
  IN  Then(f, StoreInt(f, 2, 0))

\* ErrorPacket, with a message of n characters; the SQL state of five is
\* written when at least one byte is left behind it
ErrorSize(n) == 9 + MAX_STORE_LENGTH + n
Error(b, n) ==
  LET c == StoreInt(b, 1, 255)
      d == Then(c, StoreInt(c, 2, "code"))
      e == Then(d, StoreInt(d, 1, "#"))
      f == Then(e, PutIf(e, Chars(5), e.pos + 5 < e.len))
  IN  Then(f, StoreChars(f, n))

\* FieldPacket: no result of a store is looked at
FieldSize == 1020
Field(b, name, type) ==
  LET def == StoreStr(b, 3)
      table == StoreStr(StoreStr(StoreStr(def, 0), 0), 0)
      named == StoreStr(StoreStr(table, name), 0)
      coded == StoreInt(StoreInt(StoreInt(named, 1, 12), 2, 8), 4, "width")
      typed == StoreInt(coded, 1, type)
  IN  [StoreInt(StoreInt(StoreInt(typed, 2, 0), 1, "decimals"), 2, 0) EXCEPT !.ok = TRUE]

\* RowPacket::cell_str.  Numbers and dates ask for the longest text they have.
Cell(b, c) ==
  CASE c.type = "null" -> IF Remain(b) <= 0 THEN Failed(b) ELSE StoreNull(b)
    [] c.type = "number" -> IF Remain(b) < 29 THEN Failed(b) ELSE StoreStr(b, c.len)
    [] c.type = "datetime" -> IF Remain(b) < 21 THEN Failed(b) ELSE StoreStr(b, c.len)
    [] c.type = "varchar" -> IF c.len < Remain(b) THEN StoreStr(b, c.len) ELSE Failed(b)
    [] OTHER -> StoreStr(b, c.len)

\* RowPacket: the buffer after each cell.  The result is SUCCESS, whatever
\* became of the cells.
RowSize == 1020
CellsStored(b, row) ==
  LET stored[i \in 0 .. Len(row)] == IF i = 0 THEN b ELSE Cell(stored[i - 1], row[i])
  IN  stored
Row(b, row) == [CellsStored(b, row)[Len(row)] EXCEPT !.ok = TRUE]

-----------------------------------------------------------------------------
(* RequestHandle.                                                           *)

CONSTANT SeqLimit  \* the number of values of a packet's number, seq

ASSUME SeqAssumption == SeqLimit \in Nat \ {0}

\* post_packet: nothing is sent when serialize has failed, as it never does
\* for a field or a row
Packet(seq, b) == [seq |-> seq % SeqLimit, payload |-> b.pieces]
Post(seq, b) == IF b.ok THEN <<Packet(seq, b)>> ELSE <<>>
Fresh(size) == Buffer(size + PACKET_HEADER_SIZE)

\* process_field_packets: the types are those of the first row
TypesOf(a) ==
  IF a.rows = <<>> THEN [i \in DOMAIN a.names |-> TypeCode.varchar]
  ELSE [i \in DOMAIN a.names |->
          LET t == a.rows[1][i].type IN IF t \in DOMAIN TypeCode THEN TypeCode[t] ELSE "any"]

Fields(a) ==
  [i \in DOMAIN a.names |-> Packet(1 + i, Field(Fresh(FieldSize), a.names[i], TypesOf(a)[i]))]

\* process_row_packets
Rows(a, seq) == [i \in DOMAIN a.rows |-> Packet(seq + i, Row(Fresh(RowSize), a.rows[i]))]

\* send_result_set: seq starts at 0 with the command and counts every packet
ResultSet(a) ==
  LET n == Len(a.names)
      m == Len(a.rows)
  IN  Post(1, Resheader(Fresh(ResheaderSize), n)) \o Fields(a) \o Post(n + 2, Eof(Fresh(EofSize)))
      \o Rows(a, n + 2) \o Post(n + m + 3, Eof(Fresh(EofSize)))

\* send_ok_packet, send_error_packet and do_not_support, and the result of a
\* SELECT, SHOW or DESC
Packets(a) ==
  CASE a.kind = "ok" -> Post(1, Ok(Fresh(OkSize)))
    [] a.kind = "error" -> Post(1, Error(Fresh(ErrorSize(a.message)), a.message))
    [] a.kind = "rows" -> ResultSet(a)

-----------------------------------------------------------------------------
(* A client of the protocol.                                                *)

Malformed == [kind |-> "malformed"]
Numbered(ps) == \A i \in DOMAIN ps : ps[i].seq = i % SeqLimit
IsEof(p) == Len(p) = 3 /\ p[1].piece = "int" /\ p[1].value = 254
IsText(p, i) == p[i].piece = "length" /\ i < Len(p) /\ p[i + 1] = Chars(GetLength(p[i]))

\* The texts, or NULLs, that follow each other from piece i on: their lengths,
\* -1 for NULL, and the piece they end before
TextsFrom(p) ==
  LET next[i \in 1 .. Len(p) + 1] ==
        IF i <= Len(p) /\ p[i].piece = "length" /\ GetLength(p[i]) = -1
        THEN [texts |-> <<-1>> \o next[i + 1].texts, end |-> next[i + 1].end]
        ELSE IF i <= Len(p) /\ IsText(p, i)
        THEN [texts |-> <<GetLength(p[i])>> \o next[i + 2].texts, end |-> next[i + 2].end]
        ELSE [texts |-> <<>>, end |-> i]
  IN  next
Texts(p) == TextsFrom(p)[1].texts

FieldName(p) == Texts(p)[5]
IsField(p) == Len(Texts(p)) = 6 /\ Len(p) = 12 + 7
IsRow(p, columns) == Len(Texts(p)) = columns /\ TextsFrom(p)[1].end = Len(p) + 1

ReadRows(ps) ==
  LET n == GetLength(ps[1].payload[1]) IN
  IF \/ Len(ps) < n + 3
     \/ \E i \in 2 .. n + 1 : ~IsField(ps[i].payload)
     \/ ~IsEof(ps[n + 2].payload) \/ ~IsEof(ps[Len(ps)].payload)
     \/ \E i \in n + 3 .. Len(ps) - 1 : ~IsRow(ps[i].payload, n)
  THEN Malformed
  ELSE [kind |-> "rows",
        names |-> [i \in 1 .. n |-> FieldName(ps[i + 1].payload)],
        rows |-> [i \in 1 .. Len(ps) - n - 3 |-> Texts(ps[n + 2 + i].payload)]]

ReadAnswer(ps) ==
  CASE ps = <<>> \/ ~Numbered(ps) -> Malformed
    [] ps[1].payload[1] = IntPiece(1, 0) -> [kind |-> "ok"]
    [] ps[1].payload[1] = IntPiece(1, 255) -> [kind |-> "error", message |-> ps[1].payload[5].size]
    [] ps[1].payload[1].piece = "length" -> ReadRows(ps)
    [] OTHER -> Malformed

\* What there is to read in an answer
Seen(a) ==
  IF a.kind # "rows" THEN a
  ELSE [a EXCEPT !.rows = [i \in DOMAIN a.rows |->
          [j \in DOMAIN a.rows[i] |-> IF a.rows[i][j].type = "null" THEN -1 ELSE a.rows[i][j].len]]]

-----------------------------------------------------------------------------
\* The bytes a cell and a name take, and whether they all fit
Prefix(n) == IF n < 251 THEN 1 ELSE 3
CellBytes(c) == IF c.type = "null" THEN 1 ELSE Prefix(c.len) + c.len
BytesUpTo(row) ==
  LET sum[i \in 0 .. Len(row)] == IF i = 0 THEN 0 ELSE sum[i - 1] + CellBytes(row[i])
  IN  sum
RowBytes(row) == BytesUpTo(row)[Len(row)]
FitsPackets(a) ==
  a.kind = "rows" =>
    /\ \A i \in DOMAIN a.names : 21 + Prefix(a.names[i]) + a.names[i] <= FieldSize
    /\ \A i \in DOMAIN a.rows : RowBytes(a.rows[i]) <= RowSize - 29
=============================================================================
