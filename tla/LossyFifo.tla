----------------------------- MODULE LossyFifo -----------------------------
(***************************************************************************)
(* What a connection expects of its write cache: bytes leave in the order  *)
(* they were accepted, each once, and none is lost.  Bytes are numbered in *)
(* the order of their acceptance.  The promise ends at the first write     *)
(* that fills the cache to its last byte, and at a look beyond its buffer. *)
(***************************************************************************)
EXTENDS Integers, Sequences

VARIABLES
  queue,      \* the bytes accepted and not delivered
  delivered,  \* the bytes delivered
  sound       \* the promise still holds

fifoVars == <<queue, delivered, sound>>

FifoInit == queue = <<>> /\ delivered = <<>> /\ sound = TRUE

Accept ==
  /\ sound /\ sound'
  /\ Len(queue') > Len(queue)
  /\ queue' = [i \in 1 .. Len(queue') |-> Len(delivered) + i]
  /\ UNCHANGED delivered

Deliver ==
  /\ sound /\ sound'
  /\ \E k \in 1 .. Len(queue) :
       /\ delivered' = delivered \o SubSeq(queue, 1, k)
       /\ queue' = SubSeq(queue, k + 1, Len(queue))

Overrun == ~sound'

FifoSpec == FifoInit /\ [][Accept \/ Deliver \/ Overrun]_fifoVars
=============================================================================
