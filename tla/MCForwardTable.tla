--------------------------- MODULE MCForwardTable ---------------------------
(* Instances of ForwardTable for TLC.                                      *)
EXTENDS ForwardTable

CONSTANT Setts   \* the SETTs of the instance

\* Every set of tables over the nodes with these SETTs in which the neighbors of
\* Me, and they alone, list it; a LETT differs from the SETT of its link.
LettOf(s) == IF s = 0 THEN 0 ELSE 4 - s
Tables ==
    {w \in [Node -> [Node -> Setts \cup {0}]] : \A n \in Node : w[n][n] = 0}
MCInit ==
    /\ sett \in {w \in Tables : \A n \in Node : w[n][Me] = w[Me][n]}
    /\ lett = [n \in Node |-> [b \in Node |-> LettOf(sett[n][b])]]
    /\ Start

MCSpec == MCInit /\ [][Turn]_vars
MCFairSpec == MCSpec /\ WF_vars(Turn)
=============================================================================
