---------------------------- MODULE ForwardTable ----------------------------
(***************************************************************************)
(* GSTARState::forward_table_computation (gstar_state.cc), the forward     *)
(* search that turns the neighbor table and the LSA table of a node into   *)
(* its forward table, one step per turn of its while loop.                 *)
(*                                                                         *)
(* The two tables are one matrix: sett[Me] holds SETT_avg of the neighbor  *)
(* table, sett[n] the SETTs of the LSA of n, 0 where there is no entry     *)
(* (a SETT is never 0), and lett likewise.  The vectors are sets: their    *)
(* order, that of the arrival of link probes, only decides ties.           *)
(***************************************************************************)
EXTENDS Integers, Sequences, FiniteSets

CONSTANTS
    Node,   \* the nodes of the network
    Me,     \* myIP
    MaxWt,  \* 4294967295, from which min_wt starts in every turn
    Slots   \* 50, the size of confirmed and of path

ASSUME ForwardAssumption ==
    /\ IsFiniteSet(Node) /\ Me \in Node
    /\ MaxWt \in Nat /\ Slots \in Nat
    /\ Cardinality(Node) <= Slots + 1

VARIABLES
    sett, lett,  \* the weights of the neighbor table and the LSA table
    tent,        \* m_tentative_table
    forward      \* m_forward_table; confirmed is the set of its destinations

vars == <<sett, lett, tent, forward>>

\* An entry of either table; path runs from the destination back to the next hop.
Entry(d, s, l, h, p) == [dest |-> d, sett |-> s, lett |-> l, hop |-> h, path |-> p]

Dests(T) == {e.dest : e \in T}

\* The computation starts with an empty forward table and the neighbors.
Start ==
    /\ forward = {}
    /\ tent = {Entry(b, sett[Me][b], lett[Me][b], b, <<b>>) :
                   b \in {c \in Node : sett[Me][c] > 0}}

\* The entry the scan over the tentative table stops at: the first with the
\* least SETT below MaxWt.  (With none below MaxWt, 71 minutes, the code would
\* confirm the last entry once more; the sums stay far below.)
M_LeastFirst(e) == e \in tent /\ e.sett < MaxWt
Least(e) ==
    /\ e \in tent
    /\ e.sett < MaxWt
    /\ \A t \in tent : e.sett <= t.sett

\* The entries that the LSA of e's destination gives rise to.
M_OfferedHop(e) ==
    {Entry(b, sett[e.dest][b] + e.sett, lett[e.dest][b] + e.lett, e.dest, <<b>> \o e.path) :
        b \in {c \in Node : sett[e.dest][c] > 0}}
M_OfferedAll(e) ==
    {Entry(b, sett[e.dest][b] + e.sett, lett[e.dest][b] + e.lett, e.hop, <<b>> \o e.path) :
        b \in {c \in Node : sett[e.dest][c] > 1}}
Offered(e) ==
    {Entry(b, sett[e.dest][b] + e.sett, lett[e.dest][b] + e.lett, e.hop, <<b>> \o e.path) :
        b \in {c \in Node : sett[e.dest][c] > 0}}

\* Offers for this node and for confirmed destinations are dropped, and so are
\* those worse than the tentative entry for the same destination.
NotWorse(o, rest) == \A t \in rest : t.dest = o.dest => o.sett <= t.sett
M_AcceptedAlways(e, rest) ==
    {o \in Offered(e) : o.dest # Me /\ o.dest \notin Dests(forward) \cup {e.dest}}
M_AcceptedOwn(e, rest) ==
    {o \in Offered(e) :
        o.dest \notin Dests(forward) \cup {e.dest} /\ NotWorse(o, rest)}
Accepted(e, rest) ==
    {o \in Offered(e) :
        /\ o.dest # Me
        /\ o.dest \notin Dests(forward) \cup {e.dest}
        /\ NotWorse(o, rest)}

\* A tentative entry goes when an offer for its destination is not worse.
Replaced(e, rest) ==
    {t \in rest : \E o \in Offered(e) : o.dest = t.dest /\ o.sett <= t.sett}

\* One turn of the loop.
M_TurnKeeps ==
    /\ \E e \in tent :
          /\ Least(e)
          /\ forward' = forward \cup {e}
          /\ tent' = (tent \ Replaced(e, tent)) \cup Accepted(e, tent)
    /\ UNCHANGED <<sett, lett>>
Turn ==
    /\ \E e \in tent :
          /\ Least(e)
          /\ forward' = forward \cup {e}
          /\ LET rest == tent \ {e}
             IN  tent' = (rest \ Replaced(e, rest)) \cup Accepted(e, rest)
    /\ UNCHANGED <<sett, lett>>

\* The tables from which a computation may start: any weights, no entry of a
\* node for itself.
TypeOfWeights ==
    /\ sett \in [Node -> [Node -> Nat]]
    /\ lett \in [Node -> [Node -> Nat]]
    /\ \A n \in Node : sett[n][n] = 0

Init == TypeOfWeights /\ Start

Spec == Init /\ [][Turn]_vars

\* The loop runs to its end inside one event.
FairSpec == Spec /\ WF_vars(Turn)

-----------------------------------------------------------------------------
(* Properties.                                                             *)

Entries == [dest : Node, sett : Nat, lett : Nat, hop : Node, path : Seq(Node)]

\* Both tables hold entries with a next hop and a path of nodes.
TypeOK ==
    /\ TypeOfWeights
    /\ tent \subseteq Entries
    /\ forward \subseteq Entries

\* The forward table never has two entries for a destination, never one for the
\* node itself, and no confirmed destination becomes tentative again: so the
\* array confirmed and the paths, which only run through confirmed nodes, fit.
OneEntryEach ==
    /\ \A e, f \in forward \cup tent : e.dest = f.dest => e = f
    /\ Dests(forward) \cap Dests(tent) = {}
    /\ Me \notin Dests(forward \cup tent)

\* The path of an entry runs over listed links from the next hop, a neighbor, to
\* the destination: each entry extends a confirmed one, or is a neighbor.
Extends(e, f) ==
    /\ sett[f.dest][e.dest] > 0
    /\ e.sett = f.sett + sett[f.dest][e.dest]
    /\ e.lett = f.lett + lett[f.dest][e.dest]
    /\ e.hop = f.hop
    /\ e.path = <<e.dest>> \o f.path
Direct(e) ==
    /\ sett[Me][e.dest] > 0
    /\ e = Entry(e.dest, sett[Me][e.dest], lett[Me][e.dest], e.dest, <<e.dest>>)
PathsAreReal ==
    \A e \in forward \cup tent : Direct(e) \/ \E f \in forward : f # e /\ Extends(e, f)

\* No link of the tables gives a better way between two confirmed nodes than
\* the entries have; with PathsAreReal, every SETT sum is that of a shortest path.
NoShortcut ==
    /\ \A f \in forward : sett[Me][f.dest] > 0 => f.sett <= sett[Me][f.dest]
    /\ \A e, f \in forward :
          sett[e.dest][f.dest] > 0 => f.sett <= e.sett + sett[e.dest][f.dest]

\* When the loop ends, every neighbor and every node that a confirmed node lists
\* has an entry.
AllReached ==
    tent = {} =>
        /\ \A b \in Node : sett[Me][b] > 0 => b \in Dests(forward)
        /\ \A e \in forward, b \in Node :
              sett[e.dest][b] > 0 /\ b # Me => b \in Dests(forward)

\* A reference for the result: the SETT of a shortest way from Me in at most k
\* links, MaxWt where there is none below MaxWt.
LeastOf(S) == CHOOSE x \in S : \A y \in S : x <= y
OneLinkMore(d) ==
    [n \in Node |->
        LeastOf({d[n]} \cup {d[m] + sett[m][n] : m \in {a \in Node : sett[a][n] > 0}})]
Ways[k \in 0 .. Cardinality(Node)] ==
    IF k = 0 THEN [n \in Node |-> IF n = Me THEN 0 ELSE MaxWt]
             ELSE OneLinkMore(Ways[k - 1])

\* At the end the forward table holds exactly the reachable nodes, each with the
\* SETT of a shortest way.
IsShortest ==
    tent = {} =>
        LET dist == Ways[Cardinality(Node)]
        IN  /\ Dests(forward) = {n \in Node \ {Me} : dist[n] < MaxWt}
            /\ \A e \in forward : e.sett = dist[e.dest]

\* The loop comes to its end: with sums below MaxWt every turn confirms a node.
LoopEnds == <>(tent = {})
=============================================================================
