-------------------------------- MODULE Dtn --------------------------------
(***************************************************************************)
(* The disconnected operation of GSTAR: every node keeps how long it has   *)
(* seen each neighbor, now and then makes a DLSA of these probabilities,   *)
(* and neighbors exchange summary vectors, ask for the DLSAs they lack and *)
(* compute a second forward table from them (cases 1, 4, 5 and 6 of RecvMF,*)
(* DLSATimerExpire, UpdateTimerExpire, ProcessSummaryVectorACK in          *)
(* mobilityfirst.cc, and what they call in gstar_protocol.cc and           *)
(* gstar_state.cc).  Messages travel in the formats of MfHeader.           *)
(*                                                                         *)
(* Nodes have one interface, so a node is its address.  The tables are     *)
(* sets; no handler depends on the order of their vectors.  Unicast        *)
(* messages between two nodes arrive in order, or are lost, and nothing is *)
(* sent again.  DLSA tuples live for 100000 s and do not expire here.      *)
(* SummVecSequenceNumber is sent and echoed but never looked at: 0.        *)
(***************************************************************************)
EXTENDS MfHeader, FiniteSets

CONSTANTS
    Node,        \* the nodes
    Link,        \* pairs of nodes in range of each other
    Numbers,     \* bound: the values that DLSASequenceNumber of the nodes may have
    MaxUpdates,  \* bound on the updates of a probability table, for each node
    MaxLosses, MaxExpire  \* bounds on the steps named below

ASSUME DtnAssumption ==
    /\ IsFiniteSet(Node)
    /\ Link \in SUBSET (Node \X Node)
    /\ \A n, m \in Node : <<n, m>> \in Link => n # m /\ <<m, n>> \in Link
    /\ Numbers \in SUBSET [Node -> Nat]
    /\ MaxUpdates \in [Node -> Nat] /\ MaxLosses \in Nat /\ MaxExpire \in Nat

VARIABLES
    nbr,      \* m_neighborSet: the neighbors of each node
    prob,     \* m_neighborProbabilitySet: on_time and off_time, both 0 without an entry
    dlsaSeq,  \* DLSASequenceNumber
    dlsa,     \* m_dlsaSet: dlsa[n][s] is the DLSA of s at n
    routed,   \* the destinations of m_dtn_forward_table
    chan,     \* chan[n][m]: packets on their way from n to m
    losses, expired, updates,  \* how often the bounded steps were taken
    made,     \* history: made[s][k + 1], the tuple of DLSA k of s
    fresh     \* history: nodes whose DLSA timer ran since the last loss

vars == <<nbr, prob, dlsaSeq, dlsa, routed, chan, losses, expired, updates, made, fresh>>

\* A DLSA tuple; addrs and probs are its two arrays.
NoDlsa == [seq |-> -1, addrs |-> <<>>, probs |-> <<>>]

\* The orders in which a table may hold the pairs in S.
Orders(S) == {q \in [1 .. Cardinality(S) -> S] : {q[i] : i \in DOMAIN q} = S}
First(q)  == [i \in DOMAIN q |-> q[i][1]]
Second(q) == [i \in DOMAIN q |-> q[i][2]]

\* SendSummaryVector: the numbers of the DLSAs that n has, and one number more.
Numbered(tab) == {<<s, tab[s].seq>> : s \in {t \in Node : tab[t] # NoDlsa}}
VectorOf(n, q) ==
    [type |-> 4, seq |-> 0, addr |-> n,
     part |-> [length |-> Len(q), addrs |-> First(q), nums |-> Second(q) \o <<0>>]]
SendSummaryVector(n, tab) == {VectorOf(n, q) : q \in Orders(Numbered(tab))}

\* FindDLSA: the table has this DLSA, or a later one of its node.
FindDLSA(tab, s, k) == tab[s] # NoDlsa /\ tab[s].seq >= k

\* SendSummaryVectorACK: what n lacks of a summary vector, but never its own (in
\* the order of the vector, which nobody depends on).
Pairs(p) == {<<p.addrs[i], p.nums[i]>> : i \in DOMAIN p.nums}
M_Lacking(n, tab, p) == Pairs(p)
Lacking(n, tab, p) == {e \in Pairs(p) : ~FindDLSA(tab, e[1], e[2]) /\ e[1] # n}
AckOf(n, k, q) ==
    [type |-> 5, seq |-> k, addr |-> n,
     part |-> [length |-> Len(q), addrs |-> First(q), nums |-> Second(q)]]
SendSummaryVectorACK(n, tab, h) ==
    {AckOf(n, h.seq, q) : q \in Orders(Lacking(n, tab, h.part))}

\* SendDLSA: the DLSA tuple t of s.
SendDLSA(s, t) ==
    [type |-> 6, seq |-> t.seq, addr |-> s,
     part |-> [length |-> Len(t.addrs), addrs |-> t.addrs, probs |-> t.probs]]

\* The probability that SendMyDLSA gives a neighbor, in percent.
Percent(t) == (t.on * 100) \div (t.on + t.off)
Seen(n) == {m \in Node : prob[n][m].on > 0}
MyEntries(n) == {<<m, Percent(prob[n][m])>> : m \in Seen(n)}
SendMyDLSA(n) ==
    {SendDLSA(n, [seq |-> dlsaSeq[n], addrs |-> First(q), probs |-> Second(q)]) :
        q \in Orders(MyEntries(n))}

\* The nodes that a DLSA lists.
ListedBy(t) == {t.addrs[i] : i \in DOMAIN t.addrs}

\* The destinations that dtn_forward_table_computation finds: the least set with
\* the nodes nb in it that is closed under the DLSAs in tab, without n itself.
Closed(C, n, tab) == \A s \in C : ListedBy(tab[s]) \ {n} \subseteq C
Reach(n, nb, tab) ==
    {d \in Node : \A C \in SUBSET Node : nb \subseteq C /\ Closed(C, n, tab) => d \in C}

Init ==
    /\ nbr = [n \in Node |-> {}]
    /\ prob = [n \in Node |-> [m \in Node |-> [on |-> 0, off |-> 0]]]
    /\ dlsaSeq = [n \in Node |-> 0]
    /\ dlsa = [n \in Node |-> [s \in Node |-> NoDlsa]]
    /\ routed = [n \in Node |-> {}]
    /\ chan = [n \in Node |-> [m \in Node |-> <<>>]]
    /\ losses = 0 /\ expired = 0 /\ updates = [n \in Node |-> 0]
    /\ made = [n \in Node |-> <<>>]
    /\ fresh = {}

-----------------------------------------------------------------------------

\* A summary vector of the table tab goes from n to every neighbor, behind what
\* is in c.
Announce(n, tab, c) ==
    \E h \in SendSummaryVector(n, tab) :
        chan' = [c EXCEPT ![n] =
                   [m \in Node |-> IF m \in nbr[n] THEN Append(c[n][m], Serialize(h))
                                   ELSE c[n][m]]]

\* Case 1: a link probe of m reaches n, which did not know m: the new neighbor
\* gets a summary vector.  (A probe of a known neighbor changes nothing here.)
RecvLP(n, m) ==
    /\ <<m, n>> \in Link /\ m \notin nbr[n]
    /\ nbr' = [nbr EXCEPT ![n] = @ \cup {m}]
    /\ \E h \in SendSummaryVector(n, dlsa[n]) :
          chan' = [chan EXCEPT ![n][m] = Append(@, Serialize(h))]
    /\ UNCHANGED <<prob, dlsaSeq, dlsa, routed, losses, expired, updates, made, fresh>>

\* No link probe of m was heard for four seconds.
NeighborTupleTimerExpire(n, m) ==
    /\ m \in nbr[n]
    /\ expired < MaxExpire
    /\ expired' = expired + 1
    /\ nbr' = [nbr EXCEPT ![n] = @ \ {m}]
    /\ UNCHANGED <<prob, dlsaSeq, dlsa, routed, chan, losses, updates, made, fresh>>

\* Every node seen so far was there for one more interval, or was not; neighbors
\* without an entry get one.
Updated(n) ==
    [m \in Node |->
        IF m \in nbr[n] THEN [prob[n][m] EXCEPT !.on = @ + 1]
        ELSE IF m \in Seen(n) THEN [prob[n][m] EXCEPT !.off = @ + 1] ELSE prob[n][m]]
UpdateTimerExpire(n) ==
    /\ updates[n] < MaxUpdates[n]
    /\ updates' = [updates EXCEPT ![n] = @ + 1]
    /\ prob' = [prob EXCEPT ![n] = Updated(n)]
    /\ UNCHANGED <<nbr, dlsaSeq, dlsa, routed, chan, losses, expired, made, fresh>>

\* InsertDLSATuple: the table has none of this node, or an older one.
M_IsNew(n, h) == dlsa[n][h.addr] = NoDlsa
IsNew(n, h) == dlsa[n][h.addr] = NoDlsa \/ dlsa[n][h.addr].seq < h.seq

\* The DLSA is entered and the forward table computed again.
Tuple(h) == [seq |-> h.seq, addrs |-> h.part.addrs, probs |-> h.part.probs]
Entered(n, h) == [dlsa[n] EXCEPT ![h.addr] = Tuple(h)]
M_InsertDLSATuple(n, h) ==
    /\ dlsa' = [dlsa EXCEPT ![n] = Entered(n, h)]
    /\ routed' = IF h.addr = n THEN routed
                 ELSE [routed EXCEPT ![n] = Reach(n, Seen(n), Entered(n, h))]
InsertDLSATuple(n, h) ==
    /\ dlsa' = [dlsa EXCEPT ![n] = Entered(n, h)]
    /\ routed' = [routed EXCEPT ![n] = Reach(n, Seen(n), Entered(n, h))]

\* SendMyDLSA makes the next DLSA, which ProcessDLSA enters here as any other,
\* and every neighbor gets a summary vector.
DLSATimerExpire(n) ==
    /\ dlsaSeq' = [dlsaSeq EXCEPT ![n] = @ + 1]
    /\ dlsaSeq' \in Numbers
    /\ \E g \in SendMyDLSA(n) :
          /\ made' = [made EXCEPT ![n] = Append(@, Tuple(g))]
          /\ \E h \in {Deserialize(Serialize(g))} :
                /\ InsertDLSATuple(n, h)
                /\ Announce(n, Entered(n, h), chan)
    /\ fresh' = fresh \cup {n}
    /\ UNCHANGED <<nbr, prob, losses, expired, updates>>

\* The first packet from m to n is taken.
Popped(n, m) == [chan EXCEPT ![m][n] = Tail(@)]

\* Case 4: a summary vector is answered.
M_RecvSummaryVector(n, m, h) ==
    /\ h.type = 4
    /\ \E r \in SendSummaryVectorACK(n, dlsa[n], h), v \in SendSummaryVector(n, dlsa[n]) :
          chan' = [Popped(n, m) EXCEPT ![n][m] = @ \o <<Serialize(r), Serialize(v)>>]
    /\ UNCHANGED <<nbr, prob, dlsaSeq, dlsa, routed, losses, expired, updates, made, fresh>>
RecvSummaryVector(n, m, h) ==
    /\ h.type = 4
    /\ \E r \in SendSummaryVectorACK(n, dlsa[n], h) :
          chan' = [Popped(n, m) EXCEPT ![n][m] = Append(@, Serialize(r))]
    /\ UNCHANGED <<nbr, prob, dlsaSeq, dlsa, routed, losses, expired, updates, made, fresh>>

\* Case 5: the DLSAs asked for are sent.  The code would follow a NULL pointer
\* if the table had no tuple of the address.
M_Asked(n, h) ==
    [i \in DOMAIN h.part.addrs |-> Serialize(SendDLSA(n, dlsa[n][h.part.addrs[i]]))]
Asked(n, h) ==
    [i \in DOMAIN h.part.addrs |->
        Serialize(SendDLSA(h.part.addrs[i], dlsa[n][h.part.addrs[i]]))]
ProcessSummaryVectorACK(n, m, h) ==
    /\ h.type = 5
    /\ chan' = [Popped(n, m) EXCEPT ![n][m] = @ \o Asked(n, h)]
    /\ UNCHANGED <<nbr, prob, dlsaSeq, dlsa, routed, losses, expired, updates, made, fresh>>

\* What dlsa_flag holds in case 6: what ProcessDLSA returned, and anything for a
\* DLSA of the node itself, where it is not initialized.
DlsaFlag(n, h) == IF h.addr = n THEN BOOLEAN ELSE {IsNew(n, h)}

\* Case 6: a new DLSA is entered and announced to every neighbor.
RecvDLSA(n, m, h) ==
    /\ h.type = 6
    /\ IF h.addr # n /\ IsNew(n, h)
       THEN InsertDLSATuple(n, h) ELSE UNCHANGED <<dlsa, routed>>
    /\ \E flag \in DlsaFlag(n, h) :
          IF flag THEN Announce(n, dlsa'[n], Popped(n, m)) ELSE chan' = Popped(n, m)
    /\ UNCHANGED <<nbr, prob, dlsaSeq, losses, expired, updates, made, fresh>>

\* RecvMF takes the first packet from m.
Received(n, m) ==
    IF chan[m][n] = <<>> THEN {} ELSE {Deserialize(Head(chan[m][n]))}
Recv(n, m) ==
    \E h \in Received(n, m) :
        \/ RecvSummaryVector(n, m, h)
        \/ ProcessSummaryVectorACK(n, m, h)
        \/ RecvDLSA(n, m, h)

\* The channel loses a packet.
Lose(n, m) ==
    /\ chan[n][m] # <<>>
    /\ losses < MaxLosses
    /\ losses' = losses + 1
    /\ chan' = [chan EXCEPT ![n][m] = Tail(@)]
    /\ fresh' = {}
    /\ UNCHANGED <<nbr, prob, dlsaSeq, dlsa, routed, expired, updates, made>>

Next ==
    \/ \E n, m \in Node :
          \/ RecvLP(n, m) \/ NeighborTupleTimerExpire(n, m)
          \/ Recv(n, m) \/ Lose(n, m)
    \/ \E n \in Node : UpdateTimerExpire(n) \/ DLSATimerExpire(n)

Spec == Init /\ [][Next]_vars

\* What is not lost arrives.
Fairness == \A l \in Link : WF_vars(Recv(l[1], l[2]))
FairSpec == Spec /\ Fairness

-----------------------------------------------------------------------------
(* Properties.                                                             *)

\* What is on its way from n to m, as m will read it.
InFlight(n, m) == {Deserialize(chan[n][m][i]) : i \in 1 .. Len(chan[n][m])}

\* Whatever a node has stored as DLSA k of s, after it was listed, asked for,
\* written, read and handed on, is what s made as its DLSA k.
Authentic ==
    \A n, s \in Node :
        LET t == dlsa[n][s]
        IN  t # NoDlsa => t.seq + 1 \in DOMAIN made[s] /\ t = made[s][t.seq + 1]

\* No handler meets a message that it cannot take, although none checks: a vector
\* is read with no more numbers than length, which SendSummaryVectorACK would copy
\* past its arrays; a node is asked only for DLSAs that it has, since SendDLSA
\* follows what FindDLSATuple returns; and no DLSA comes back to its own node, for
\* which dlsa_flag is tested without a value.
Takes(n, h) ==
    /\ h.type \in {4, 5} => Len(h.part.nums) = h.part.length
    /\ h.type = 5 => \A i \in DOMAIN h.part.addrs : dlsa[n][h.part.addrs[i]] # NoDlsa
    /\ h.type = 6 => h.addr # n
Acceptable == \A n, m \in Node : \A h \in InFlight(m, n) : Takes(n, h)

\* The DTN forward table, which only a DLSA that is entered computes again, has
\* no destination that the tables do not lead to and all that the node's own last
\* DLSA and those of the others lead to.
RoutesCurrent ==
    \A n \in Node :
        /\ routed[n] \subseteq Reach(n, Seen(n), dlsa[n])
        /\ Reach(n, ListedBy(dlsa[n][n]), dlsa[n]) \subseteq routed[n]

\* Nothing is sent again, but a node whose DLSA timer has run after the last loss
\* has, as soon as nothing is on its way between them, brought every neighbor up
\* to its own state, whatever was lost before.
UpToDate(n, m) == \A s \in Node : dlsa[m][s].seq >= dlsa[n][s].seq
Repaired ==
    \A n \in fresh : \A m \in nbr[n] :
        chan[n][m] = <<>> /\ chan[m][n] = <<>> => UpToDate(n, m)

\* The exchange of vectors and DLSAs dies out.
ExchangeEnds == <>[](\A n, m \in Node : chan[n][m] = <<>>)
=============================================================================
