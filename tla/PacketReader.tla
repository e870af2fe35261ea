---------------------------- MODULE PacketReader ----------------------------
(***************************************************************************)
(* How a connection reads commands and answers them: read_socket and       *)
(* handle_request (server/request_handle.cpp) over the read cache of       *)
(* server/socket_buffer.cpp.  The client's bytes arrive in blocks of any   *)
(* length, a packet may be split over blocks and around the end of the     *)
(* cache, and a block the cache refuses is lost: nobody looks at the       *)
(* result of write.  Only the poll thread uses the read cache.             *)
(*                                                                         *)
(* Bytes are numbered in the order the client sends them.  Answers are     *)
(* taken to fit in the write cache, which BufferCache and Server model.    *)
(***************************************************************************)
EXTENDS Packets

CONSTANTS
  CacheSize,    \* m_read_cache's capacity, the configured cache size
  ReadBlock,    \* BLOCK_SIZE of read_socket
  CommandSize,  \* lengths of the clients' commands
  Answers,      \* what commands are answered with
  MaxSent       \* bound of the model: commands a client sends

ASSUME ReaderAssumption ==
  CacheSize \in Nat \ {0} /\ ReadBlock \in Nat \ {0} /\ CommandSize \subseteq Nat

\* The cells of a result, by their types and the lengths of their texts
AnswerCell == [type : {"null", "bool", "number", "datetime", "varchar"}, len : Nat]

ASSUME AnswersAssumption ==
  \A a \in Answers :
    \/ a = [kind |-> "ok"]
    \/ a \in [kind : {"error"}, message : Nat]
    \/ /\ a \in [kind : {"rows"}, names : Seq(Nat), rows : Seq(Seq(AnswerCell))]
       /\ \A i \in DOMAIN a.rows : Len(a.rows[i]) = Len(a.names)

VARIABLES
  cells,     \* m_buffer.data of the read cache: the number of the byte stored
  first,     \* m_head
  next,      \* m_tail
  got,       \* history: bytes net_read has returned
  sent,      \* history: the commands the client has sent, by their last bytes
  spilt,     \* history: a block was refused, or has filled the cache
  reading,   \* read_socket runs its loop
  handled,   \* how many commands handle_request has been given
  command,   \* the bytes of the last one
  answer     \* its answer as given and as read, <<>> once the loop goes on

readerVars == <<cells, first, next, got, sent, spilt, reading, handled, command, answer>>

\* The last byte of the first k commands, and the length of the k-th
EndOf(k) == IF k = 0 THEN 0 ELSE sent[k]
TotalSent == EndOf(Len(sent))
LengthOf(k) == EndOf(k) - EndOf(k - 1) - PACKET_HEADER_SIZE

Cache == INSTANCE BufferCache
  WITH Capacity <- CacheSize, Block <- ReadBlock, PacketSize <- 1 .. ReadBlock,
       MaxWritten <- MaxSent * (PACKET_HEADER_SIZE + CacheSize), ring <- cells, head <- first, tail <- next,
       written <- got, overrun <- spilt,
       pc <- "idle", seen <- 0, raced <- FALSE, len <- 0, peek <- <<>>, client <- <<>>

ReaderInit ==
  /\ cells = [x \in 0 .. CacheSize - 1 |-> 0]
  /\ first = 0 /\ next = 0 /\ got = 0 /\ sent = <<>> /\ spilt = FALSE
  /\ reading = FALSE /\ handled = 0 /\ command = <<>> /\ answer = <<>>

-----------------------------------------------------------------------------
\* The client sends a command, perhaps before the last one is answered
SendCommand(n) ==
  /\ Len(sent) < MaxSent
  /\ sent' = Append(sent, TotalSent + PACKET_HEADER_SIZE + n)
  /\ UNCHANGED <<cells, first, next, got, spilt, reading, handled, command, answer>>

\* read_socket: k bytes are there and the cache takes them
ReadSocket(k) ==
  /\ ~reading /\ got + k <= TotalSent /\ Cache!Write(k)
  /\ reading' = TRUE
  /\ UNCHANGED <<sent, handled, command, answer>>

\* or refuses them
ReadSocketRefused(k) ==
  /\ ~reading /\ got + k <= TotalSent /\ ~Cache!Fits(k)
  /\ got' = got + k /\ spilt' = TRUE
  /\ reading' = TRUE
  /\ UNCHANGED <<cells, first, next, sent, handled, command, answer>>

\* The i-th byte have_a_look copies
Byte(i) == cells[Cache!Slot(first, i - 1)]

\* The commands whose headers begin with the i-th byte
CommandsAt(i) == {k \in 1 .. Len(sent) : \A j \in 0 .. 2 : Byte(i + j) = EndOf(k - 1) + 1 + j}

\* The length that a header says whose first byte is the i-th: any length
\* if the bytes there are no header
LengthsAt(i) ==
  IF CommandsAt(i) # {} THEN {LengthOf(k) : k \in CommandsAt(i)}
  ELSE CommandSize \cup {0, CacheSize}

\* mutant: the header is not counted
PackageReadyBare(n) == Cache!Size >= PACKET_HEADER_SIZE /\ Cache!Size >= n

\* read_package: a whole packet is there.  With fewer than four bytes the
\* header holds what was on the stack, and whatever it says there is none.
PackageReady(n) == Cache!Size >= PACKET_HEADER_SIZE + n

\* What the client reads of each answer
Replies == [a \in Answers |-> ReadAnswer(Packets(a))]

\* read_package and handle_request
ReadPackage ==
  /\ reading
  /\ \E n \in LengthsAt(1) :
       /\ PackageReady(n)
       /\ command' = [i \in 1 .. n |-> Byte(PACKET_HEADER_SIZE + i)]
       /\ first' = Cache!Advance(Cache!Advance(first, PACKET_HEADER_SIZE), n)
  /\ handled' = handled + 1
  /\ \E a \in Answers : answer' = <<a, Replies[a]>>
  /\ UNCHANGED <<cells, next, got, sent, spilt, reading>>

\* The loop ends with the first packet that is not whole
LoopEnds ==
  /\ reading
  /\ \E n \in LengthsAt(1) : ~PackageReady(n)
  /\ reading' = FALSE /\ answer' = <<>>
  /\ UNCHANGED <<cells, first, next, got, sent, spilt, handled, command>>

ReaderNext ==
  \/ \E n \in CommandSize : SendCommand(n)
  \/ \E k \in 1 .. ReadBlock : ReadSocket(k) \/ ReadSocketRefused(k)
  \/ ReadPackage
  \/ LoopEnds

ReaderSpec == ReaderInit /\ [][ReaderNext]_readerVars

-----------------------------------------------------------------------------
\* Commands arrive whole and in order however they are split into blocks, and
\* none that is there waits for a later one; no block is refused as long as
\* commands leave room for a block beside an unfinished one.
CommandsWhole ==
  /\ ~spilt =>
       /\ handled > 0 => command = [i \in 1 .. LengthOf(handled) |-> EndOf(handled - 1) + PACKET_HEADER_SIZE + i]
       /\ ~reading => handled = Cardinality({k \in 1 .. Len(sent) : EndOf(k) <= got})
  /\ (\A k \in DOMAIN sent : PACKET_HEADER_SIZE + LengthOf(k) + ReadBlock <= CacheSize) => ~spilt

\* The client reads what it was answered, if every row and name fits in a
\* packet, and never takes one answer for another.
AnswersRead ==
  answer # <<>> =>
    \/ answer[2] = Seen(answer[1])
    \/ ~FitsPackets(answer[1]) /\ answer[2] = Malformed
=============================================================================
