------------------------------ MODULE MCBypass ------------------------------
(* Instances of Bypass for TLC: the block tables of DoStart, shortened.    *)
EXTENDS BypassRefinement

\* wired-new.cc, the table that is compiled: every hop is a block.
HopTable == <<2, 3, 4>>

\* mixed-new.cc (bypass): the second block spans two links.
BlockTable == <<2, 4, 0, 5>>

\* bypass.cc:515 "if I am the block destination, I should send back and ack to
\* block source": a block source that waits for a packet its block destination
\* has received is released.
BlockDestinationAcks ==
    \A n \in Sender : Acks(n) =>
        ((ackTimer[n] /\ prevSeq[Bd[n]] = Cur(n)) ~>
            ~ (ackTimer[n] /\ prevSeq[Bd[n]] = Cur(n)))
=============================================================================
