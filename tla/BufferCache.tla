---------------------------- MODULE BufferCache ----------------------------
(***************************************************************************)
(* The write cache of a connection (server/socket_buffer.cpp) between the  *)
(* workers that answer and the poll thread that sends (write_socket in     *)
(* server/request_handle.cpp).  Workers write packets under the lock; the  *)
(* poll thread looks at the bytes without it, sends them, and removes what *)
(* was sent under the lock.  The look reads tail up to four times, and a   *)
(* write may fall between any two of these reads.  A write's bytes are in  *)
(* the ring before tail is moved, as on the machines this runs on.         *)
(***************************************************************************)
EXTENDS Integers, Sequences

CONSTANTS
  Capacity,   \* m_buffer.capacity, the configured cache size
  Block,      \* BLOCK_SIZE of write_socket
  PacketSize, \* lengths of the packets workers write
  MaxWritten  \* bound of the model: bytes accepted

ASSUME SizeAssumption ==
  /\ Capacity \in Nat \ {0}
  /\ Block \in Nat \ {0}
  /\ MaxWritten \in Nat
  /\ PacketSize \subseteq Nat \ {0}

VARIABLES
  ring,     \* m_buffer.data: the number of the byte stored, 0 for none
  head,     \* m_head
  tail,     \* m_tail
  written,  \* history: bytes accepted so far; bytes are numbered from 1
  overrun,  \* history: a write has filled the cache to its last byte
  pc,       \* write_socket: "idle"; in have_a_look between the reads of the
            \* length: "first", "again", "second"; "sized", "copied", "sent";
            \* "spilled": a copy of a length that buf does not have
  seen,     \* tail, as the test in size has read it
  raced,    \* history: a write fell between the reads of this look's length
  len,      \* tmp.length
  peek,     \* buf: the bytes have_a_look has copied
  client    \* history: the bytes the client has received

ringVars == <<ring, head, tail, written, overrun>>
vars == <<ringVars, pc, seen, raced, len, peek, client>>

Least(a, b) == IF a < b THEN a ELSE b

\* The cell of the i-th byte behind a position, around the end of the buffer
Slot(at, i) == IF at + i < Capacity THEN at + i ELSE at + i - Capacity

\* and how far a cell is behind a position
Behind(at, x) == IF x >= at THEN x - at ELSE x + Capacity - at

\* BufferCacheBase::size; the test and the sum read tail each for itself
SizeOf(tested, summed) == IF head <= tested THEN summed - head ELSE summed + Capacity - head
Size == SizeOf(tail, tail)

\* is_full, as it is: the remainder is not taken
IsFull == tail + 1 = head

\* mutant: only half of the wrap is done
AdvanceShort(at, n) == IF Capacity - at >= n THEN at + n ELSE n

\* A position moved on by n bytes, as write and read move tail and head: the
\* end of the buffer is a position of its own
Advance(at, n) == IF Capacity - at >= n THEN at + n ELSE n - (Capacity - at)

-----------------------------------------------------------------------------
Init ==
  /\ ring = [x \in 0 .. Capacity - 1 |-> 0]
  /\ head = 0 /\ tail = 0 /\ written = 0 /\ overrun = FALSE
  /\ pc = "idle" /\ seen = 0 /\ raced = FALSE /\ len = 0
  /\ peek = <<>> /\ client = <<>>

\* the test of write
Fits(n) == ~IsFull /\ n <= Capacity - Size

\* write, of a packet that fits; write_package reports any other as refused
\* and leaves the cache alone
Write(n) ==
  /\ Fits(n)
  /\ written + n <= MaxWritten
  /\ ring' = [x \in 0 .. Capacity - 1 |->
       IF Behind(tail, x) < n THEN written + 1 + Behind(tail, x) ELSE ring[x]]
  /\ tail' = Advance(tail, n)
  /\ written' = written + n
  /\ overrun' = (overrun \/ tail' = head)
  /\ raced' = (raced \/ pc \in {"first", "again", "second"})
  /\ UNCHANGED <<head, pc, seen, len, peek, client>>

-----------------------------------------------------------------------------
(* write_socket, one turn of its loop.                                      *)

\* have_a_look: size is called, and its test reads tail
LookTail ==
  /\ pc \in {"idle", "again"}
  /\ seen' = tail
  /\ pc' = IF pc = "idle" THEN "first" ELSE "second"
  /\ raced' = (raced /\ pc = "again")
  /\ UNCHANGED <<ringVars, len, peek, client>>

\* mutant: nothing is sent before a block is full
LookFirstBlock ==
  /\ pc = "first"
  /\ len' = Block
  /\ pc' = IF Block > SizeOf(seen, tail) THEN "idle" ELSE "sized"
  /\ UNCHANGED <<ringVars, seen, raced, peek, client>>

\* the first size is compared with the block: a block, or size once more
LookFirst ==
  /\ pc = "first"
  /\ len' = Block
  /\ pc' = IF Block > SizeOf(seen, tail) THEN "again" ELSE "sized"
  /\ UNCHANGED <<ringVars, seen, raced, peek, client>>

\* and the second one taken for the length, without a comparison
LookSecond ==
  /\ pc = "second"
  /\ len' = SizeOf(seen, tail)
  /\ pc' = "sized"
  /\ UNCHANGED <<ringVars, seen, raced, peek, client>>

\* the lengths buf and the ring have
Copyable == 0 .. Least(Block, Capacity)

\* have_a_look: the copy.  Nothing is copied when the cache is empty by now,
\* and the bytes of buf are those the stack held; of a length of 0 nothing is
\* sent either.
LookCopy ==
  /\ pc = "sized" /\ len \in Copyable
  /\ IF len = 0
       THEN pc' = "idle" /\ UNCHANGED peek
       ELSE /\ pc' = "copied"
            /\ peek' = [i \in 1 .. len |-> IF head = tail THEN 0 ELSE ring[Slot(head, i - 1)]]
  /\ UNCHANGED <<ringVars, seen, raced, len, client>>

\* of any other length memcpy, or net_write after it, leaves buf: whatever
\* happens then is outside of the model
LookSpills ==
  /\ pc = "sized" /\ len \notin Copyable
  /\ pc' = "spilled"
  /\ UNCHANGED <<ringVars, seen, raced, len, peek, client>>

\* mutant: what was looked at is removed, not what was sent
SendAll(k) ==
  /\ pc = "copied" /\ k \in 1 .. len
  /\ client' = client \o SubSeq(peek, 1, k)
  /\ pc' = "sent"
  /\ UNCHANGED <<ringVars, seen, raced, len, peek>>

\* net_write takes k bytes
Send(k) ==
  /\ pc = "copied" /\ k \in 1 .. len
  /\ client' = client \o SubSeq(peek, 1, k)
  /\ len' = k
  /\ pc' = "sent"
  /\ UNCHANGED <<ringVars, seen, raced, peek>>

\* read: at most len bytes leave the cache
Read ==
  /\ pc = "sent"
  /\ head' = Advance(head, Least(len, Size))
  /\ pc' = "idle"
  /\ UNCHANGED <<ring, tail, written, overrun, seen, raced, len, peek, client>>

SendSome == \E k \in 1 .. Block : Send(k)

\* One turn of the loop after another, as the poll thread takes them
Turn == LookTail \/ LookFirst \/ LookSecond \/ LookCopy \/ LookSpills \/ SendSome \/ Read

Next == (\E n \in PacketSize : Write(n)) \/ Turn

Spec == Init /\ [][Next]_vars

\* The poll loop goes on as long as the socket takes bytes
FairSpec == Spec /\ WF_vars(Turn)

-----------------------------------------------------------------------------
TypeOK ==
  /\ ring \in [0 .. Capacity - 1 -> Nat]
  /\ head \in 0 .. Capacity /\ tail \in 0 .. Capacity
  /\ written \in Nat /\ overrun \in BOOLEAN
  /\ pc \in {"idle", "first", "again", "second", "sized", "copied", "sent", "spilled"}
  /\ seen \in 0 .. Capacity /\ raced \in BOOLEAN
  /\ len \in Int /\ (pc \in {"copied", "sent"} => len \in Copyable)
  /\ peek \in Seq(Nat)
  /\ client \in Seq(Nat)

\* The bytes the client has received that are still in the cache
Unremoved == IF pc = "sent" THEN len ELSE 0

\* Nothing is lost, repeated or reordered between the workers and the client
\* before a write fills the cache to its last byte or a look goes beyond its
\* buffer: the client has the first bytes accepted, and the cache holds the
\* others in order, although the reader looks at it without the lock while
\* workers write.  And a look goes beyond its buffer (more than BLOCK_SIZE
\* bytes, or a negative number of them) only if a write fell between the reads
\* of its length: that is the one thing the missing lock can spoil.
InOrder ==
  /\ \A i \in 1 .. Len(client) : client[i] = i
  /\ \A i \in 1 .. Size : ring[Slot(head, i - 1)] = written - Size + i
  /\ written - Size = Len(client) - Unremoved
Sound == ~overrun /\ pc # "spilled"
FifoInOrder == (Sound => InOrder) /\ (pc = "spilled" => raced)

\* Accepted bytes are sent in the end, unless the cache is overrun or a look
\* goes beyond its buffer.
AllSent ==
  \A n \in 1 .. MaxWritten : (written = n) ~> (~Sound \/ Len(client) >= n)
=============================================================================
