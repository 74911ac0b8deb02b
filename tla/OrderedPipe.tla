---------------------------- MODULE OrderedPipe ----------------------------
(***************************************************************************)
(* What Bypass promises about order: the source has K packets, and every   *)
(* node of the chain gets them in sequence, without gaps or repetitions,   *)
(* and only after the node before it.                                      *)
(***************************************************************************)
EXTENDS Integers

CONSTANTS N, K

VARIABLE got   \* got[n]: the packets 1 .. got[n] have reached node n

Init == got = [n \in 1 .. N |-> 0]

Load ==
    /\ got[1] = 0
    /\ got' = [got EXCEPT ![1] = K]

Pass(n) ==
    /\ got[n] < got[n - 1]
    /\ got' = [got EXCEPT ![n] = @ + 1]

Next == Load \/ \E n \in 2 .. N : Pass(n)

Spec == Init /\ [][Next]_got
=============================================================================
