--------------------------- MODULE HopRefinement ---------------------------
(***************************************************************************)
(* HopTransfer implements ChunkRelay: a packet has reached a node when its *)
(* bit is set in the node's bitmap, and a chunk is written when ToFile has *)
(* been called for it.                                                     *)
(***************************************************************************)
EXTENDS HopTransfer

Abstract == INSTANCE ChunkRelay WITH
    made <- chkID,
    held <- bitmap,
    written <- {w.chk : w \in Range(toFile)}

\* Lost, repeated and positional retransmissions, crossed ACKs and retries
\* never make a node mark a packet that the node before it does not hold, or
\* make the destination write an incomplete chunk.
Implements == Abstract!Spec
=============================================================================
