-------------------------- MODULE BypassRefinement --------------------------
(***************************************************************************)
(* Bypass implements OrderedPipe: a node has the packets up to m_prevSeq,  *)
(* the source those it has numbered.                                       *)
(***************************************************************************)
EXTENDS Bypass

Pipe == INSTANCE OrderedPipe WITH got <- [n \in 1 .. N |-> Got(n)]

\* Retransmissions, losses and queueing never make a node take a packet out of
\* order, twice, or before the node in front of it has it.
InSequence == Pipe!Spec
=============================================================================
