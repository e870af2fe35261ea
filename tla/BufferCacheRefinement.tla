----------------------- MODULE BufferCacheRefinement -----------------------
(***************************************************************************)
(* The write cache of a connection implements LossyFifo: the ring with its *)
(* two positions, the look without the lock and the removal after the send *)
(* are invisible to the client until a write fills the cache or the look   *)
(* leaves its buffer.                                                      *)
(***************************************************************************)
EXTENDS BufferCache

Content == [i \in 1 .. Size |-> ring[Slot(head, i - 1)]]

\* The bytes accepted that the client does not have yet
Waiting == SubSeq(Content, Unremoved + 1, Size)

Fifo == INSTANCE LossyFifo
          WITH queue <- Waiting, delivered <- client, sound <- Sound

\* The ring with its two positions, the look that reads its length piece by
\* piece without the lock, and the removal after the send behave as one FIFO
\* queue, up to an overrun or a look that leaves its buffer.
ImplementsFifo == Fifo!FifoSpec
=============================================================================
