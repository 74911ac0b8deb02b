--------------------------- MODULE MCHopTransfer ---------------------------
(* Which faults the instances of HopTransfer have, and what a comment of   *)
(* hop_protocol.cc says and the code does not do.                          *)
EXTENDS HopRefinement

\* A behavior with losses or with early timeouts, not with both.
OneKindOfFault == losses' = 0 \/ early' = 0

\* Data and CSYNCs of the source may be lost, no ACKs and nothing of the relays.
SourceLoses ==
    losses' # losses => back' = back /\ \A n \in Relay : fwd'[n] = fwd[n]

\* hop_protocol.cc:610 "if yes, then sends the missing packet": the packets
\* read at the missing positions are the missing packets.
MissingIsResent ==
    \A n \in Sender : \A m \in Range(back[n]) :
        {data[n][m.chk][i] : i \in Pkt \ m.bits} = Pkt \ m.bits
=============================================================================
