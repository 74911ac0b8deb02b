----------------------------- MODULE ChunkRelay -----------------------------
(***************************************************************************)
(* What the hop-by-hop transfer promises, without messages, timers or      *)
(* buffers: packets of chunks that the source made move one node at a time *)
(* along the chain, a node only hands on what it holds, and the            *)
(* destination writes a chunk only when it holds all of it.                *)
(***************************************************************************)
EXTENDS Integers

CONSTANTS N, C, P

VARIABLES
    made,     \* chunks the source has made
    held,     \* held[n][c]: packets of chunk c that have reached node n
    written   \* chunks the destination has written

vars == <<made, held, written>>

Init ==
    /\ made = 0
    /\ held = [n \in 2 .. N |-> [c \in 1 .. C |-> {}]]
    /\ written = {}

Make ==
    /\ made < C
    /\ made' = made + 1
    /\ UNCHANGED <<held, written>>

\* What the node before n can hand over of chunk c.
Offer(n, c) == IF n = 2 THEN (IF c <= made THEN 1 .. P ELSE {}) ELSE held[n - 1][c]

Carry(n, c, p) ==
    /\ p \in Offer(n, c)
    /\ held' = [held EXCEPT ![n][c] = @ \cup {p}]
    /\ UNCHANGED <<made, written>>

Write(c) ==
    /\ held[N][c] = 1 .. P
    /\ written' = written \cup {c}
    /\ UNCHANGED <<made, held>>

Next ==
    \/ Make
    \/ \E n \in 2 .. N, c \in 1 .. C, p \in 1 .. P : Carry(n, c, p)
    \/ \E c \in 1 .. C : Write(c)

Spec == Init /\ [][Next]_vars
=============================================================================
