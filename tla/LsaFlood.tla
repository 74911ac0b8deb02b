------------------------------ MODULE LsaFlood ------------------------------
(***************************************************************************)
(* The link-state part of GSTAR: link probes build the neighbor tables,    *)
(* every node floods LSAs to its neighbors, each copy is retried until its *)
(* neighbor acknowledges it, and what a node hears goes into its LSA table *)
(* and its forward table (mobilityfirst.cc, gstar_protocol.cc,             *)
(* gstar_state.cc).                                                        *)
(*                                                                         *)
(* Nodes have one interface, so a node is its address.  The weights of the *)
(* links are left to ForwardTable and LinkQuality: here a forward table is *)
(* the set of its destinations.  Unicast messages between two nodes arrive *)
(* in order, or are lost; a link probe is one step, from any node in range.*)
(* LSA tuples live for 100000 s (GSTAR_LSA_TIMER) and do not expire here,  *)
(* and the summary vector for a new neighbor is empty and changes nothing. *)
(***************************************************************************)
EXTENDS Integers, Sequences, FiniteSets

CONSTANTS
    Node,      \* the nodes
    Link,      \* pairs of nodes in range of each other
    MaxLsa,    \* bound on LSASequenceNumber, for each node
    MaxLosses, MaxEarly, MaxExpire  \* bounds on the steps named below

ASSUME FloodAssumption ==
    /\ Link \in SUBSET (Node \X Node)
    /\ \A n, m \in Node : <<n, m>> \in Link => n # m /\ <<m, n>> \in Link
    /\ MaxLsa \in [Node -> Nat]
    /\ MaxLosses \in Nat /\ MaxEarly \in Nat /\ MaxExpire \in Nat

VARIABLES
    nbr,     \* m_neighborSet: the neighbors of each node
    lsaSeq,  \* LSASequenceNumber
    lsa,     \* m_lsaSet: lsa[n][s] is the LSA of s at n
    routed,  \* the destinations of m_forward_table
    saved,   \* lsa_set: the copies that are retried, each with its event
    chan,    \* chan[n][m]: messages on their way from n to m
    losses, early, expired,  \* how often the bounded steps were taken
    adv,     \* history: adv[s][k + 1], the neighbors in LSA k of s
    told     \* history: every copy that n has sent, ever

vars == <<nbr, lsaSeq, lsa, routed, saved, chan, losses, early, expired, adv, told>>

Peers(n) == {m \in Node : <<n, m>> \in Link}

\* An LSA tuple, and the sequence number below all others where there is none.
NoLsa == [seq |-> -1, nbrs |-> {}]

\* The messages: an LSA of src and its acknowledgement, which names src and seq.
LsaMsg(s, k, b) == [type |-> "LSA", src |-> s, seq |-> k, nbrs |-> b]
AckMsg(s, k)    == [type |-> "LSA_ACK", src |-> s, seq |-> k, nbrs |-> {}]

\* The destinations that forward_table_computation finds: the least set with the
\* neighbors nb in it that is closed under the LSAs in tab, without n itself.
Closed(C, n, tab) == \A s \in C : tab[s].nbrs \ {n} \subseteq C
Reach(n, nb, tab) ==
    {d \in Node : \A C \in SUBSET Node : nb \subseteq C /\ Closed(C, n, tab) => d \in C}

\* DoStart has run LSATimerExpire once, before anything was heard.
Init ==
    /\ nbr = [n \in Node |-> {}]
    /\ lsaSeq = [n \in Node |-> 1]
    /\ lsa = [n \in Node |-> [s \in Node |-> NoLsa]]
    /\ routed = [n \in Node |-> {}]
    /\ saved = [n \in Node |-> {}]
    /\ chan = [n \in Node |-> [m \in Node |-> <<>>]]
    /\ losses = 0 /\ early = 0 /\ expired = 0
    /\ adv = [n \in Node |-> << {} >>]
    /\ told = [n \in Node |-> {}]

\* A link probe of m reaches n, is entered or refreshed, and the forward table
\* is computed again.
RecvLP(n, m) ==
    /\ <<m, n>> \in Link
    /\ nbr' = [nbr EXCEPT ![n] = @ \cup {m}]
    /\ routed' = [routed EXCEPT ![n] = Reach(n, nbr[n] \cup {m}, lsa[n])]
    /\ UNCHANGED <<lsaSeq, lsa, saved, chan, losses, early, expired, adv, told>>

\* No link probe of m was heard for four seconds: the tuple goes, the forward
\* table stays (the call that would compute it is commented out) and so do the
\* retries towards m.
NeighborTupleTimerExpire(n, m) ==
    /\ m \in nbr[n]
    /\ expired < MaxExpire
    /\ expired' = expired + 1
    /\ nbr' = [nbr EXCEPT ![n] = @ \ {m}]
    /\ UNCHANGED <<lsaSeq, lsa, routed, saved, chan, losses, early, adv, told>>

\* The saved copies of message p for the neighbors in to, under number k.
Copies(p, k, to) == {[to |-> m, seq |-> k, msg |-> p] : m \in to}

\* Message p goes from n to every neighbor, behind what is in c; each copy is
\* saved under number k with the event that will send it again.
M_Flood(n, p, k, c) ==
    /\ chan' = [c EXCEPT ![n] =
                   [m \in Node |-> IF m \in nbr[n] THEN Append(c[n][m], p) ELSE c[n][m]]]
    /\ saved' = saved
    /\ told' = [told EXCEPT ![n] = @ \cup Copies(p, k, nbr[n])]
Flood(n, p, k, c) ==
    /\ chan' = [c EXCEPT ![n] =
                   [m \in Node |-> IF m \in nbr[n] THEN Append(c[n][m], p) ELSE c[n][m]]]
    /\ saved' = [saved EXCEPT ![n] = @ \cup Copies(p, k, nbr[n])]
    /\ told' = [told EXCEPT ![n] = @ \cup Copies(p, k, nbr[n])]

\* The number LSATimerExpire reads back when SendLSA has already counted on.
M_GetLSASeqNo(n) == lsaSeq[n] + 1
GetLSASeqNo(n) == (lsaSeq[n] + 1) - 1

\* SendLSA makes an LSA of the neighbor table and counts; the LSA is flooded.
M_LSATimerExpire(n) ==
    /\ lsaSeq[n] < MaxLsa[n]
    /\ adv' = [adv EXCEPT ![n] = Append(@, nbr[n])]
    /\ Flood(n, LsaMsg(n, lsaSeq[n], nbr[n]), GetLSASeqNo(n), chan)
    /\ UNCHANGED <<nbr, lsaSeq, lsa, routed, losses, early, expired>>
LSATimerExpire(n) ==
    /\ lsaSeq[n] < MaxLsa[n]
    /\ lsaSeq' = [lsaSeq EXCEPT ![n] = @ + 1]
    /\ adv' = [adv EXCEPT ![n] = Append(@, nbr[n])]
    /\ Flood(n, LsaMsg(n, lsaSeq[n], nbr[n]), GetLSASeqNo(n), chan)
    /\ UNCHANGED <<nbr, lsa, routed, losses, early, expired>>

\* The first message from m to n is taken.
Popped(n, m) == [chan EXCEPT ![m][n] = Tail(@)]

\* Every LSA is acknowledged to the node it came from.
Acked(n, m, p) == [Popped(n, m) EXCEPT ![n][m] = Append(@, AckMsg(p.src, p.seq))]

\* An LSA is new if it is not this node's own and the table has none of its
\* source, or an older one.
IsNew(n, p) == p.src # n /\ p.seq > lsa[n][p.src].seq

\* The new LSA is entered and the forward table computed again.
M_InsertLSATuple(n, p) ==
    /\ lsa' = [lsa EXCEPT ![n][p.src] = [seq |-> p.seq, nbrs |-> p.nbrs]]
    /\ routed' = IF lsa[n][p.src] = NoLsa
                 THEN [routed EXCEPT ![n] = Reach(n, nbr[n], lsa'[n])] ELSE routed
InsertLSATuple(n, p) ==
    /\ lsa' = [lsa EXCEPT ![n][p.src] = [seq |-> p.seq, nbrs |-> p.nbrs]]
    /\ routed' = [routed EXCEPT ![n] = Reach(n, nbr[n], lsa'[n])]

\* Case 3 of RecvMF, for a new LSA: it goes on to every neighbor, the one it
\* came from and its source included.
RecvNewLSA(n, m, p) ==
    /\ p.type = "LSA" /\ IsNew(n, p)
    /\ InsertLSATuple(n, p)
    /\ Flood(n, p, p.seq, Acked(n, m, p))
    /\ UNCHANGED <<nbr, lsaSeq, losses, early, expired, adv>>

\* Case 3 of RecvMF, for one that InsertLSATuple discards.
RecvOldLSA(n, m, p) ==
    /\ p.type = "LSA" /\ ~IsNew(n, p)
    /\ chan' = Acked(n, m, p)
    /\ UNCHANGED <<nbr, lsaSeq, lsa, routed, saved, losses, early, expired, adv, told>>

\* Case 10 of RecvMF: the copy the acknowledgement is for, and its event, go.
M_Confirmed(c, m, p) == c.to = m /\ c.msg.src = p.src
Confirmed(c, m, p) == c.to = m /\ c.msg.src = p.src /\ c.seq = p.seq
RecvLSAACK(n, m, p) ==
    /\ p.type = "LSA_ACK"
    /\ saved' = [saved EXCEPT ![n] = {c \in @ : ~Confirmed(c, m, p)}]
    /\ chan' = Popped(n, m)
    /\ UNCHANGED <<nbr, lsaSeq, lsa, routed, losses, early, expired, adv, told>>

\* Neither the copy nor its acknowledgement is on its way.
Quiet(n, c) ==
    /\ \A i \in 1 .. Len(chan[n][c.to]) : chan[n][c.to][i] # c.msg
    /\ \A i \in 1 .. Len(chan[c.to][n]) :
          chan[c.to][n][i] # AckMsg(c.msg.src, c.msg.seq)

\* The event of a saved copy: it is sent again, with a new event.  An event that
\* is earlier than an answer on its way counts against MaxEarly.
ReSendLSA(n, c) ==
    /\ c \in saved[n]
    /\ Quiet(n, c) \/ early < MaxEarly
    /\ early' = IF Quiet(n, c) THEN early ELSE early + 1
    /\ chan' = [chan EXCEPT ![n][c.to] = Append(@, c.msg)]
    /\ UNCHANGED <<nbr, lsaSeq, lsa, routed, saved, losses, expired, adv, told>>

\* The channel loses a message.
Lose(n, m) ==
    /\ chan[n][m] # <<>>
    /\ losses < MaxLosses
    /\ losses' = losses + 1
    /\ chan' = [chan EXCEPT ![n][m] = Tail(@)]
    /\ UNCHANGED <<nbr, lsaSeq, lsa, routed, saved, early, expired, adv, told>>

\* RecvMF takes the first message from m.
Recv(n, m) ==
    /\ chan[m][n] # <<>>
    /\ LET p == Head(chan[m][n])
       IN  RecvNewLSA(n, m, p) \/ RecvOldLSA(n, m, p) \/ RecvLSAACK(n, m, p)

Next ==
    \/ \E n, m \in Node :
          \/ RecvLP(n, m) \/ NeighborTupleTimerExpire(n, m)
          \/ Recv(n, m) \/ Lose(n, m)
    \/ \E n \in Node : LSATimerExpire(n)
    \/ \E n \in Node : \E c \in saved[n] : ReSendLSA(n, c)

Spec == Init /\ [][Next]_vars

\* Probes keep coming, the LSA timer runs again and again, what is not lost
\* arrives, and the events of saved copies fire.
Fairness ==
    /\ \A n \in Node : WF_vars(LSATimerExpire(n))
    /\ \A n \in Node : \A m \in Peers(n) :
          /\ WF_vars(RecvLP(n, m)) /\ WF_vars(Recv(n, m))
          /\ \A s \in Node :
                WF_vars(\E c \in saved[n] : c.to = m /\ c.msg.src = s /\ ReSendLSA(n, c))
FairSpec == Spec /\ Fairness

-----------------------------------------------------------------------------
(* Properties.                                                             *)

Message == [type : {"LSA", "LSA_ACK"}, src : Node, seq : Nat, nbrs : SUBSET Node]
Copy == [to : Node, seq : Nat, msg : Message]

\* Types; neighbors are nodes in range.
TypeOK ==
    /\ nbr \in [Node -> SUBSET Node] /\ \A n \in Node : nbr[n] \subseteq Peers(n)
    /\ lsaSeq \in [Node -> Nat]
    /\ lsa \in [Node -> [Node -> [seq : Nat \cup {-1}, nbrs : SUBSET Node]]]
    /\ routed \in [Node -> SUBSET Node]
    /\ saved \in [Node -> SUBSET Copy]
    /\ chan \in [Node -> [Node -> Seq(Message)]]
    /\ losses \in 0 .. MaxLosses /\ early \in 0 .. MaxEarly /\ expired \in 0 .. MaxExpire
    /\ adv \in [Node -> Seq(SUBSET Node)]
    /\ told \in [Node -> SUBSET Copy]

\* Whatever a node has stored as LSA k of s, after copies, retries and detours, is
\* what s advertised as its LSA k: no node computes a forward table from a mixture.
Authentic ==
    \A n, s \in Node :
        LET k == lsa[n][s].seq
        IN  k >= 0 => k < Len(adv[s]) /\ lsa[n][s].nbrs = adv[s][k + 1]

\* A copy sent to a neighbor is retried until that neighbor has this LSA or a
\* later one, or is its source: nothing else ends a retry, not the loss of the
\* neighbor, nor an ACK of another LSA.
ReliableFlood ==
    \A n \in Node : \A c \in told[n] :
        \/ c \in saved[n]
        \/ c.to = c.msg.src
        \/ lsa[c.to][c.msg.src].seq >= c.seq

\* Every destination that the current neighbors and LSAs lead to is in the forward
\* table, although only some of the handlers compute it.
RouteCurrent ==
    \A n \in Node : Reach(n, nbr[n], lsa[n]) \subseteq routed[n]

\* The LSA that a node sends once all neighbors know each other, and go on to, reaches
\* everyone, whatever is lost or sent twice on the way and whichever neighbor had
\* expired before.
AllNeighbors == \A n \in Node : nbr[n] = Peers(n)
Latest(s) ==
    \A n \in Node \ {s} :
        lsa[n][s].seq = MaxLsa[s] - 1 /\ lsa[n][s].nbrs = Peers(s)
Converges ==
    \A s \in Node :
        (lsaSeq[s] < MaxLsa[s] /\ []AllNeighbors) ~> Latest(s)

\* Flooding dies out: nothing is on its way or retried for ever.
FloodEnds ==
    <>[](\A n, m \in Node : chan[n][m] = <<>> /\ saved[n] = {})
=============================================================================
