----------------------------- MODULE FlowSelect -----------------------------
(***************************************************************************)
(* How flows are started: every node runs selectNodes for itself, once for *)
(* each flow, and the node that finds itself selected as source starts     *)
(* SendData, which then runs again and again on m_thruput_Timer            *)
(* (mobilityfirst.cc).                                                     *)
(*                                                                         *)
(* selectNodes seeds the generator with time(NULL), so nodes that select   *)
(* in the same second of the wall clock draw the same numbers, and with    *)
(* the same list of senders come to the same pair.                         *)
(***************************************************************************)
EXTENDS Integers, Sequences, FiniteSets

CONSTANTS
    Node,      \* the nodes that may be selected, 1 to nNodes - 1
    NFlows,    \* nFlows
    MaxTicks,  \* bound on the changes of the second
    MaxChunks  \* bound on the chunks of a node

ASSUME FlowAssumption ==
    /\ IsFiniteSet(Node) /\ Cardinality(Node) >= 2
    /\ NFlows \in 1 .. Cardinality(Node)
    /\ MaxTicks \in Nat /\ MaxChunks \in Nat

VARIABLES
    selected,  \* selectedSourceAddress and selectedDestinationAddress
    senders,   \* senders; its length is countFlows
    running,   \* whether m_thruput_Timer is running
    fatal,     \* Timer::Schedule was called while it was
    chunks,    \* history: source and destination in the chunks of each node
    drawn,     \* the pairs drawn in this second, each with its list of senders
    ticks

vars == <<selected, senders, running, fatal, chunks, drawn, ticks>>

Pair == {f \in Node \X Node : f[1] # f[2]}

Init ==
    /\ selected = [n \in Node |-> <<>>]
    /\ senders = [n \in Node |-> <<>>]
    /\ running = [n \in Node |-> FALSE]
    /\ fatal = FALSE
    /\ chunks = [n \in Node |-> <<>>]
    /\ drawn = {}
    /\ ticks = 0

\* A source that was not selected before, and a destination other than it.  The
\* loop of selectNodes would not end if every node were a sender.
M_Draw(n) == Pair
M_DrawBoth(n) ==
    {f \in Pair : \A i \in 1 .. Len(senders[n]) :
        f[1] # senders[n][i] /\ f[2] # senders[n][i]}
Draw(n) == {f \in Pair : \A i \in 1 .. Len(senders[n]) : f[1] # senders[n][i]}

\* All nodes share one generator, which srand(time(NULL)) sets back at every
\* selection: the draw repeats one made in this second with the same senders.
Seeded(n, f) == \A d \in drawn : d.senders = senders[n] => d.pair = f

\* SendData makes a chunk for what is selected and schedules itself.
SendData(n, f) ==
    /\ chunks' = [chunks EXCEPT ![n] = Append(@, f)]
    /\ running' = [running EXCEPT ![n] = TRUE]

\* selectNodes at n, for the next flow.
selectNodes(n) ==
    /\ Len(senders[n]) < NFlows
    /\ \E f \in Draw(n) :
          /\ Seeded(n, f)
          /\ drawn' = drawn \cup {[senders |-> senders[n], pair |-> f]}
          /\ selected' = [selected EXCEPT ![n] = f]
          /\ senders' = [senders EXCEPT ![n] = Append(@, f[1])]
          /\ IF f[1] = n
             THEN SendData(n, f) /\ fatal' = (fatal \/ running[n])
             ELSE UNCHANGED <<chunks, running, fatal>>
    /\ UNCHANGED ticks

\* m_thruput_Timer expires.
ThruputTimerExpire(n) ==
    /\ running[n] /\ Len(chunks[n]) < MaxChunks
    /\ SendData(n, selected[n])
    /\ UNCHANGED <<selected, senders, fatal, drawn, ticks>>

\* The wall clock goes on to another second.
Tick ==
    /\ ticks < MaxTicks
    /\ ticks' = ticks + 1
    /\ drawn' = {}
    /\ UNCHANGED <<selected, senders, running, fatal, chunks>>

Next ==
    \/ \E n \in Node : selectNodes(n) \/ ThruputTimerExpire(n)
    \/ Tick

Spec == Init /\ [][Next]_vars

-----------------------------------------------------------------------------
(* Properties.                                                             *)

\* No node is selected as a source again while it is sending, which would abort
\* the simulation in Timer::Schedule, even where the second has changed between two
\* selections and the nodes disagree about the sources.
NoFatal == ~fatal

\* The loops of selectNodes find a source and a destination for every flow, even
\* when there are as many flows as nodes.
SelectionEnds == \A n \in Node : Len(senders[n]) < NFlows => Draw(n) # {}

\* hop_protocol.cc:189 "source address": the source in the chunks of a node is
\* that node.
OwnSource ==
    \A n \in Node : \A i \in 1 .. Len(chunks[n]) : chunks[n][i][1] = n
=============================================================================
