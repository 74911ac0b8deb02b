----------------------------- MODULE MCLsaFlood -----------------------------
(* Instances of LsaFlood and LsaWire for TLC: three nodes in a line.       *)
EXTENDS LsaWire

CONSTANTS a, b, c

Nodes == {a, b, c}
Line == {<<a, b>>, <<b, a>>, <<b, c>>, <<c, b>>}

\* LSAs after the empty one of DoStart: two of b, or one of a and one of c.
TwoOfB == [n \in Nodes |-> IF n = b THEN 3 ELSE 1]
OneOfAC == [n \in Nodes |-> IF n = b THEN 1 ELSE 2]

\* At most two, or one, of a loss, an early retry and an expiry.
Faults == losses' + early' + expired'
TwoFaults == Faults <= 2
OneFault == Faults <= 1
=============================================================================
