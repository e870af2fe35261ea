--------------------------- MODULE MCBufferCache ---------------------------
(***************************************************************************)
(* The two caches of a connection: the write cache as a FIFO, and the read *)
(* cache with the packets read from it and the answers to them.  They      *)
(* share no state, so that a behaviour moves one of them only.             *)
(***************************************************************************)
EXTENDS BufferCacheRefinement, PacketReader

VARIABLE side  \* the cache that is looked at: "write" or "read"

MCInit == Init /\ ReaderInit /\ side \in {"write", "read"}

MCNext ==
  /\ \/ side = "write" /\ Next /\ UNCHANGED readerVars
     \/ side = "read" /\ ReaderNext /\ UNCHANGED vars
  /\ UNCHANGED side

MCSpec ==
  /\ MCInit /\ [][MCNext]_<<vars, readerVars, side>>
  /\ WF_vars(side = "write" /\ UNCHANGED <<readerVars, side>> /\ Turn)

-----------------------------------------------------------------------------
\* Texts of which the lengths are stored in different ways, and that fill
\* what is left of a row or go beyond it
NullCell == [type |-> "null", len |-> 0]
MCCells ==
  {NullCell} \cup [type : {"varchar"}, len : {0, 250, 251, 740, 1000}]
  \cup {[type |-> "number", len |-> 9], [type |-> "datetime", len |-> 19], [type |-> "bool", len |-> 1]}

MCAnswers ==
  {[kind |-> "ok"], [kind |-> "error", message |-> 40]}
  \cup {[kind |-> "rows", names |-> <<n>>, rows |-> <<>>] : n \in {3, 250, 251, 990, 1100}}
  \cup {[kind |-> "rows", names |-> <<3, 251>>, rows |-> <<<<c, d>>>>] : c, d \in MCCells}
  \cup {[kind |-> "rows", names |-> <<3>>, rows |-> [i \in 1 .. 5 |-> <<c>>]] : c \in MCCells}
=============================================================================
