------------------------------- MODULE MCDtn -------------------------------
(* Instances of Dtn for TLC: three nodes in a line.                        *)
EXTENDS Dtn

CONSTANTS a, b, c

Nodes == {a, b, c}
Line == {<<a, b>>, <<b, a>>, <<b, c>>, <<c, b>>}

\* Two DLSAs of a, or one of a and then one of b.
TwoDlsas == {f \in [Nodes -> 0 .. 2] : f[a] + f[b] <= 2 /\ f[b] <= f[a] /\ f[c] = 0}

\* b updates its probability table once more.
OneUpdate == [n \in Nodes |-> IF n = b THEN 1 ELSE 0]

\* The DLSA timers start four seconds after the update timers: the neighbors have
\* heard each other, exchanged empty summary vectors and updated their tables.
MCInit ==
    /\ nbr = [n \in Node |-> {m \in Node : <<n, m>> \in Link}]
    /\ prob = [n \in Node |-> [m \in Node |->
                  [on |-> IF <<n, m>> \in Link THEN 1 ELSE 0, off |-> 0]]]
    /\ dlsaSeq = [n \in Node |-> 0]
    /\ dlsa = [n \in Node |-> [s \in Node |-> NoDlsa]]
    /\ routed = [n \in Node |-> {}]
    /\ chan = [n \in Node |-> [m \in Node |-> <<>>]]
    /\ losses = 0 /\ expired = 0 /\ updates = [n \in Node |-> 0]
    /\ made = [n \in Node |-> <<>>]
    /\ fresh = {}
MCSpec == MCInit /\ [][Next]_vars
MCFairSpec == MCSpec /\ Fairness

\* One fault: a loss, or b does not hear c for a while after its DLSA, and may
\* update its probability table meanwhile.
OneFault ==
    /\ losses' + expired' <= 1
    /\ expired' # expired => dlsaSeq[b] = 1 /\ c \notin nbr'[b]
    /\ updates' # updates => c \notin nbr[b]
=============================================================================
