--------------------------- MODULE LsaFloodProofs ---------------------------
(***************************************************************************)
(* Proofs about LsaFlood, for every network, every number of LSAs and any  *)
(* losses, early events and expiries of neighbors.  The inductive          *)
(* invariant says what every message vouches for: an LSA, that its source  *)
(* advertised it under its number; an ACK, that its sender is the source   *)
(* or has this LSA or a later one.                                         *)
(***************************************************************************)
EXTENDS LsaWire, MfHeaderProofs, FiniteSetTheorems

Msgs(s) == {s[i] : i \in 1 .. Len(s)}

\* LSA k of s is what s advertised, by the history A.
Genuine(A, s, k, b) == k < Len(A[s]) /\ b = A[s][k + 1]

\* Node m has LSA k of s or a later one, by the tables L, or made it.
Knows(L, m, s, k) == m = s \/ L[m][s].seq >= k

Vouched(A, L, n, p) ==
    /\ p.type = "LSA" => Genuine(A, p.src, p.seq, p.nbrs)
    /\ p.type = "LSA_ACK" => Knows(L, n, p.src, p.seq)

Numbered == \A s \in Node : lsaSeq[s] = Len(adv[s])
Carried == \A n, m \in Node : \A p \in Msgs(chan[n][m]) : Vouched(adv, lsa, n, p)
Copied ==
    \A n \in Node : \A c \in saved[n] :
        c.msg.type = "LSA" /\ Genuine(adv, c.msg.src, c.msg.seq, c.msg.nbrs)

IInv ==
    /\ TypeOK
    /\ Numbered
    /\ Carried
    /\ Copied
    /\ Authentic
    /\ ReliableFlood
    /\ RouteCurrent

Chans == [Node -> [Node -> Seq(Message)]]

-----------------------------------------------------------------------------
\* The messages of a queue that has grown, shrunk or is read.
LEMMA AppendMsgs ==
    ASSUME NEW s \in Seq(Message), NEW p \in Message
    PROVE  Append(s, p) \in Seq(Message) /\ Msgs(Append(s, p)) = Msgs(s) \cup {p}
  <1>1. Append(s, p) \in Seq(Message) /\ Len(Append(s, p)) = Len(s) + 1
    OBVIOUS
  <1>2. \A i \in 1 .. Len(s) : Append(s, p)[i] = s[i]
    OBVIOUS
  <1>3. Append(s, p)[Len(s) + 1] = p
    OBVIOUS
  <1>4. Len(s) \in Nat
    OBVIOUS
  <1>5. 1 .. (Len(s) + 1) = (1 .. Len(s)) \cup {Len(s) + 1}
    BY <1>4
  <1> QED
    BY <1>1, <1>2, <1>3, <1>5 DEF Msgs

LEMMA TailMsgs ==
    ASSUME NEW s \in Seq(Message), s # <<>>
    PROVE  /\ Tail(s) \in Seq(Message) /\ Msgs(Tail(s)) \subseteq Msgs(s)
           /\ Head(s) \in Message /\ Head(s) \in Msgs(s)
  <1>1. Tail(s) \in Seq(Message) /\ Len(Tail(s)) = Len(s) - 1 /\ Len(s) \in Nat \ {0}
    OBVIOUS
  <1>2. \A i \in 1 .. Len(Tail(s)) : Tail(s)[i] = s[i + 1]
    BY <1>1
  <1>3. \A i \in 1 .. Len(Tail(s)) : i + 1 \in 1 .. Len(s)
    BY <1>1
  <1>4. Msgs(Tail(s)) \subseteq Msgs(s)
    BY <1>2, <1>3 DEF Msgs
  <1>5. Head(s) = s[1] /\ 1 \in 1 .. Len(s) /\ s[1] \in Message
    BY <1>1
  <1> QED
    BY <1>1, <1>4, <1>5 DEF Msgs

\* The acknowledgement of a message is a message.
LEMMA AckType ==
    ASSUME NEW p \in Message
    PROVE  /\ AckMsg(p.src, p.seq) \in Message
           /\ AckMsg(p.src, p.seq).type = "LSA_ACK"
           /\ AckMsg(p.src, p.seq).src = p.src /\ AckMsg(p.src, p.seq).seq = p.seq
  BY DEF AckMsg, Message

\* Taking the first message of a queue.
LEMMA PoppedMsgs ==
    ASSUME chan \in Chans, NEW n \in Node, NEW m \in Node, chan[m][n] # <<>>
    PROVE  /\ Popped(n, m) \in Chans
           /\ \A x, y \in Node : Msgs(Popped(n, m)[x][y]) \subseteq Msgs(chan[x][y])
           /\ Head(chan[m][n]) \in Message
           /\ Head(chan[m][n]) \in Msgs(chan[m][n])
  <1>1. chan[m][n] \in Seq(Message)
    BY DEF Chans
  <1>2. /\ Tail(chan[m][n]) \in Seq(Message)
        /\ Msgs(Tail(chan[m][n])) \subseteq Msgs(chan[m][n])
        /\ Head(chan[m][n]) \in Message
        /\ Head(chan[m][n]) \in Msgs(chan[m][n])
    BY <1>1, TailMsgs
  <1>3. Popped(n, m) \in Chans
    BY <1>2 DEF Popped, Chans
  <1>4. ASSUME NEW x \in Node, NEW y \in Node
        PROVE  Popped(n, m)[x][y] = IF x = m /\ y = n THEN Tail(chan[m][n]) ELSE chan[x][y]
    BY DEF Popped, Chans
  <1> QED
    BY <1>2, <1>3, <1>4

\* Adding a message to one queue.
Sent(c, n, m, p) == [c EXCEPT ![n][m] = Append(@, p)]
LEMMA SentMsgs ==
    ASSUME NEW c \in Chans, NEW n \in Node, NEW m \in Node, NEW p \in Message
    PROVE  /\ Sent(c, n, m, p) \in Chans
           /\ \A x, y \in Node :
                 Msgs(Sent(c, n, m, p)[x][y]) \subseteq
                     Msgs(c[x][y]) \cup (IF x = n THEN {p} ELSE {})
  <1>1. c[n][m] \in Seq(Message)
    BY DEF Chans
  <1>2. Append(c[n][m], p) \in Seq(Message) /\ Msgs(Append(c[n][m], p)) = Msgs(c[n][m]) \cup {p}
    BY <1>1, AppendMsgs
  <1>3. Sent(c, n, m, p) \in Chans
    BY <1>2 DEF Chans, Sent
  <1>4. ASSUME NEW x \in Node, NEW y \in Node
        PROVE  Sent(c, n, m, p)[x][y] = IF x = n /\ y = m THEN Append(c[n][m], p) ELSE c[x][y]
    BY DEF Chans, Sent
  <1> QED
    BY <1>2, <1>3, <1>4

\* Adding a message to the queues of all neighbors.
LEMMA FloodMsgs ==
    ASSUME NEW n \in Node, NEW p \in Message, NEW k, NEW c \in Chans, Flood(n, p, k, c)
    PROVE  /\ chan' \in Chans
           /\ \A x, y \in Node :
                 Msgs(chan'[x][y]) \subseteq Msgs(c[x][y]) \cup (IF x = n THEN {p} ELSE {})
  <1> DEFINE Q(m) == IF m \in nbr[n] THEN Append(c[n][m], p) ELSE c[n][m]
  <1>1. chan' = [c EXCEPT ![n] = [m \in Node |-> Q(m)]]
    BY DEF Flood
  <1>2. ASSUME NEW m \in Node
        PROVE  Q(m) \in Seq(Message) /\ Msgs(Q(m)) \subseteq Msgs(c[n][m]) \cup {p}
    <2>1. c[n][m] \in Seq(Message)
      BY DEF Chans
    <2> QED
      BY <2>1, AppendMsgs
  <1> HIDE DEF Q
  <1>3. chan' \in Chans
    BY <1>1, <1>2 DEF Chans
  <1>4. ASSUME NEW x \in Node, NEW y \in Node
        PROVE  chan'[x][y] = IF x = n THEN Q(y) ELSE c[x][y]
    BY <1>1 DEF Chans
  <1> QED
    BY <1>2, <1>3, <1>4

-----------------------------------------------------------------------------
\* A step that takes nothing back: LSA tables only get newer and advertised LSAs
\* stay as they are.
Grows ==
    /\ \A n, s \in Node : lsa'[n][s].seq >= lsa[n][s].seq
    /\ \A s \in Node : /\ Len(adv'[s]) >= Len(adv[s])
                       /\ \A i \in 1 .. Len(adv[s]) : adv'[s][i] = adv[s][i]

\* The types that the lemmas below use.
LEMMA Types ==
    ASSUME TypeOK, NEW n \in Node, NEW s \in Node
    PROVE  /\ adv[s] \in Seq(SUBSET Node) /\ Len(adv[s]) \in Nat
           /\ lsa[n][s] \in [seq : Nat \cup {-1}, nbrs : SUBSET Node]
           /\ lsa[n][s].seq \in Int
           /\ \A c \in saved[n] : c \in Copy
           /\ \A c \in told[n] : c \in Copy
           /\ \A p \in Msgs(chan[n][s]) : p \in Message
  <1>1. adv[s] \in Seq(SUBSET Node)
    BY DEF TypeOK
  <1>2. lsa[n][s] \in [seq : Nat \cup {-1}, nbrs : SUBSET Node]
    BY DEF TypeOK
  <1>3. \A c \in saved[n] : c \in Copy
    BY DEF TypeOK
  <1>4. \A c \in told[n] : c \in Copy
    BY DEF TypeOK
  <1>5. chan[n][s] \in Seq(Message)
    BY DEF TypeOK
  <1>6. \A p \in Msgs(chan[n][s]) : p \in Message
    BY <1>5 DEF Msgs
  <1>7. Len(adv[s]) \in Nat /\ lsa[n][s].seq \in Int
    BY <1>1, <1>2
  <1> QED
    BY <1>1, <1>2, <1>3, <1>4, <1>6, <1>7

LEMMA CopyType ==
    ASSUME NEW c \in Copy
    PROVE  c.to \in Node /\ c.seq \in Nat /\ c.msg \in Message /\ c.msg.src \in Node /\ c.msg.seq \in Nat
  <1>1. c.to \in Node /\ c.seq \in Nat /\ c.msg \in Message
    BY DEF Copy
  <1> QED
    BY <1>1 DEF Message

\* What was genuine stays so.
LEMMA GenuineStays ==
    ASSUME TypeOK, TypeOK', Grows, NEW s \in Node, NEW k \in Nat, NEW b, Genuine(adv, s, k, b)
    PROVE  Genuine(adv', s, k, b)
  <1>1. Len(adv[s]) \in Nat
    BY Types
  <1>2. adv'[s] \in Seq(SUBSET Node)
    BY DEF TypeOK
  <1>3. Len(adv'[s]) \in Nat
    BY <1>2
  <1>4. k + 1 \in 1 .. Len(adv[s])
    BY <1>1 DEF Genuine
  <1>5. adv'[s][k + 1] = adv[s][k + 1] /\ Len(adv'[s]) >= Len(adv[s])
    BY <1>4 DEF Grows
  <1> QED
    BY <1>1, <1>3, <1>5 DEF Genuine

\* What was known stays known.
LEMMA KnownStays ==
    ASSUME TypeOK, TypeOK', Grows, NEW n \in Node, NEW s \in Node, NEW k \in Nat,
           Knows(lsa, n, s, k)
    PROVE  Knows(lsa', n, s, k)
  <1>1. lsa[n][s].seq \in Int
    BY Types
  <1>2. lsa'[n][s] \in [seq : Nat \cup {-1}, nbrs : SUBSET Node]
    BY DEF TypeOK
  <1>3. lsa'[n][s].seq \in Int
    BY <1>2
  <1>4. lsa'[n][s].seq >= lsa[n][s].seq
    BY DEF Grows
  <1> QED
    BY <1>1, <1>3, <1>4 DEF Knows

\* What a message vouches for stays true.
LEMMA VouchedStays ==
    ASSUME TypeOK, TypeOK', Grows, NEW n \in Node, NEW p \in Message, Vouched(adv, lsa, n, p)
    PROVE  Vouched(adv', lsa', n, p)
  <1>1. p.src \in Node /\ p.seq \in Nat
    BY DEF Message
  <1> QED
    BY <1>1, GenuineStays, KnownStays DEF Vouched

\* The messages that were there, and new ones that are true, keep Carried.
LEMMA StepCarried ==
    ASSUME TypeOK, TypeOK', Grows, Carried,
           \A n, m \in Node : \A p \in Msgs(chan'[n][m]) :
               p \in Msgs(chan[n][m]) \/ Vouched(adv', lsa', n, p)
    PROVE  Carried'
  <1>1. ASSUME NEW n \in Node, NEW m \in Node, NEW p \in Msgs(chan[n][m])
        PROVE  Vouched(adv', lsa', n, p)
    BY Types, VouchedStays DEF Carried
  <1>2. \A n, m \in Node : \A p \in Msgs(chan'[n][m]) : Vouched(adv', lsa', n, p)
    BY <1>1
  <1> QED
    BY <1>2 DEF Carried

\* Saved copies that were there, and new ones that are genuine, keep Copied.
LEMMA StepCopied ==
    ASSUME TypeOK, TypeOK', Grows, Copied,
           \A n \in Node : \A c \in saved'[n] :
               \/ c \in saved[n]
               \/ c.msg.type = "LSA" /\ Genuine(adv', c.msg.src, c.msg.seq, c.msg.nbrs)
    PROVE  Copied'
  <1>1. ASSUME NEW n \in Node, NEW c \in saved[n]
        PROVE  c.msg.type = "LSA" /\ Genuine(adv', c.msg.src, c.msg.seq, c.msg.nbrs)
    <2>1. c \in Copy
      BY Types
    <2>2. c.msg.src \in Node /\ c.msg.seq \in Nat
      BY <2>1, CopyType
    <2>3. c.msg.type = "LSA" /\ Genuine(adv, c.msg.src, c.msg.seq, c.msg.nbrs)
      BY DEF Copied
    <2> QED
      BY <2>2, <2>3, GenuineStays
  <1> QED
    BY <1>1 DEF Copied

\* Stored LSAs that were there, and new ones that are genuine, keep Authentic.
LEMMA StepAuthentic ==
    ASSUME TypeOK, TypeOK', Grows, Authentic,
           \A n, s \in Node :
               \/ lsa'[n][s] = lsa[n][s]
               \/ Genuine(adv', s, lsa'[n][s].seq, lsa'[n][s].nbrs)
    PROVE  Authentic'
  <1>1. ASSUME NEW n \in Node, NEW s \in Node, lsa'[n][s].seq >= 0
        PROVE  Genuine(adv', s, lsa'[n][s].seq, lsa'[n][s].nbrs)
    <2>1. CASE lsa'[n][s] = lsa[n][s]
      <3>1. lsa[n][s].seq \in Nat
        BY <1>1, <2>1, Types
      <3>2. Genuine(adv, s, lsa[n][s].seq, lsa[n][s].nbrs)
        BY <3>1 DEF Authentic, Genuine
      <3>3. Genuine(adv', s, lsa[n][s].seq, lsa[n][s].nbrs)
        BY <3>1, <3>2, GenuineStays
      <3> QED
        BY <3>3, <2>1
    <2> QED
      BY <2>1
  <1> QED
    BY <1>1 DEF Authentic, Genuine

\* A copy that leaves the saved ones is known to its neighbor, and every copy that
\* is told is saved: then nothing is forgotten.
LEMMA StepReliable ==
    ASSUME TypeOK, TypeOK', Grows, ReliableFlood,
           \A n \in Node : told'[n] \ told[n] \subseteq saved'[n],
           \A n \in Node : \A c \in saved[n] :
               c \in saved'[n] \/ Knows(lsa, c.to, c.msg.src, c.seq)
    PROVE  ReliableFlood'
  <1>1. ASSUME NEW n \in Node, NEW c \in told[n]
        PROVE  c \in saved'[n] \/ Knows(lsa', c.to, c.msg.src, c.seq)
    <2>1. c \in Copy
      BY Types
    <2>2. c.to \in Node /\ c.msg.src \in Node /\ c.seq \in Nat
      BY <2>1, CopyType
    <2>3. c \in saved'[n] \/ Knows(lsa, c.to, c.msg.src, c.seq)
      BY DEF ReliableFlood, Knows
    <2> QED
      BY <2>2, <2>3, KnownStays
  <1>2. \A n \in Node : \A c \in told'[n] : c \in saved'[n] \/ Knows(lsa', c.to, c.msg.src, c.seq)
    BY <1>1
  <1> QED
    BY <1>2 DEF ReliableFlood, Knows

-----------------------------------------------------------------------------
\* Fewer neighbors lead to fewer destinations.
LEMMA ReachShrinks ==
    ASSUME NEW n, NEW A, NEW B, A \subseteq B, NEW tab
    PROVE  Reach(n, A, tab) \subseteq Reach(n, B, tab)
  BY DEF Reach

LEMMA ReachType ==
    ASSUME NEW n, NEW A, NEW tab
    PROVE  Reach(n, A, tab) \subseteq Node
  BY DEF Reach

\* A step that changes neither tables nor history takes nothing back.
LEMMA SameGrows ==
    ASSUME TypeOK, lsa' = lsa, adv' = adv
    PROVE  Grows
  <1>1. \A n, s \in Node : lsa[n][s].seq \in Int
    BY Types
  <1>2. \A s \in Node : Len(adv[s]) \in Nat
    BY Types
  <1> QED
    BY <1>1, <1>2 DEF Grows

\* A step that leaves the three tables of routing alone keeps RouteCurrent.
LEMMA SameRoutes ==
    ASSUME RouteCurrent, lsa' = lsa, nbr' = nbr, routed' = routed
    PROVE  RouteCurrent'
  BY DEF RouteCurrent

\* The invariant of a step that changes no LSA table and no history, adds only
\* messages that are true, and drops only saved copies that are known.
LEMMA QuietStep ==
    ASSUME IInv, TypeOK', RouteCurrent',
           lsa' = lsa, adv' = adv, lsaSeq' = lsaSeq, told' = told,
           \A n \in Node : saved'[n] \subseteq saved[n],
           \A n \in Node : \A c \in saved[n] :
               c \in saved'[n] \/ Knows(lsa, c.to, c.msg.src, c.seq),
           \A n, m \in Node : \A p \in Msgs(chan'[n][m]) :
               p \in Msgs(chan[n][m]) \/ Vouched(adv, lsa, n, p)
    PROVE  IInv'
  <1>0. TypeOK /\ Numbered /\ Carried /\ Copied /\ Authentic /\ ReliableFlood
    BY DEF IInv
  <1>1. Grows
    BY <1>0, SameGrows
  <1>2. Carried'
    BY <1>0, <1>1, StepCarried
  <1>3. Copied'
    BY <1>0, <1>1, StepCopied
  <1>4. Authentic'
    BY <1>0, <1>1, StepAuthentic
  <1>5. ReliableFlood'
    BY <1>0, <1>1, StepReliable
  <1>6. Numbered'
    BY <1>0 DEF Numbered
  <1> QED
    BY <1>2, <1>3, <1>4, <1>5, <1>6 DEF IInv

\* RecvLP: the forward table is computed from the tables it leaves.
LEMMA StepLP ==
    ASSUME IInv, NEW n \in Node, NEW m \in Node, RecvLP(n, m)
    PROVE  IInv'
  <1>0. TypeOK /\ RouteCurrent
    BY DEF IInv
  <1>1. nbr' \in [Node -> SUBSET Node] /\ \A x \in Node : nbr'[x] \subseteq Peers(x)
    <2>1. m \in Peers(n)
      BY FloodAssumption DEF RecvLP, Peers
    <2> QED
      BY <1>0, <2>1 DEF RecvLP, TypeOK
  <1>2. routed' \in [Node -> SUBSET Node]
    BY <1>0, ReachType DEF RecvLP, TypeOK
  <1>3. TypeOK'
    BY <1>0, <1>1, <1>2 DEF RecvLP, TypeOK, Peers
  <1>4. RouteCurrent'
    <2>1. ASSUME NEW x \in Node
          PROVE  Reach(x, nbr'[x], lsa[x]) \subseteq routed'[x]
      <3>1. CASE x = n
        BY <3>1, <1>0 DEF RecvLP, TypeOK
      <3>2. CASE x # n
        BY <3>2, <1>0 DEF RecvLP, TypeOK, RouteCurrent
      <3> QED
        BY <3>1, <3>2
    <2> QED
      BY <2>1 DEF RouteCurrent, RecvLP
  <1> QED
    BY <1>3, <1>4, QuietStep DEF RecvLP

\* NeighborTupleTimerExpire: the forward table is stale, but only too large.
LEMMA StepExpire ==
    ASSUME IInv, NEW n \in Node, NEW m \in Node, NeighborTupleTimerExpire(n, m)
    PROVE  IInv'
  <1>0. TypeOK /\ RouteCurrent
    BY DEF IInv
  <1>1. nbr' \in [Node -> SUBSET Node] /\ \A x \in Node : nbr'[x] \subseteq nbr[x]
    BY <1>0 DEF NeighborTupleTimerExpire, TypeOK
  <1>2. \A x \in Node : nbr'[x] \subseteq Peers(x)
    BY <1>0, <1>1 DEF TypeOK
  <1>3. expired' \in 0 .. MaxExpire
    BY <1>0, FloodAssumption DEF NeighborTupleTimerExpire, TypeOK
  <1>4. TypeOK'
    BY <1>0, <1>1, <1>2, <1>3 DEF NeighborTupleTimerExpire, TypeOK, Peers
  <1>5. RouteCurrent'
    <2>1. \A x \in Node : Reach(x, nbr'[x], lsa[x]) \subseteq Reach(x, nbr[x], lsa[x])
      BY <1>1, ReachShrinks
    <2> QED
      BY <1>0, <2>1 DEF RouteCurrent, NeighborTupleTimerExpire
  <1> QED
    BY <1>4, <1>5, QuietStep DEF NeighborTupleTimerExpire

\* RecvOldLSA: the ACK of an LSA that is not new is true.
LEMMA StepOld ==
    ASSUME IInv, NEW n \in Node, NEW m \in Node, chan[m][n] # <<>>,
           RecvOldLSA(n, m, Head(chan[m][n]))
    PROVE  IInv'
  <1> DEFINE p == Head(chan[m][n])
             q == AckMsg(p.src, p.seq)
  <1>0. TypeOK /\ RouteCurrent /\ chan \in Chans
    BY DEF IInv, TypeOK, Chans
  <1>1. /\ Popped(n, m) \in Chans
        /\ \A x, y \in Node : Msgs(Popped(n, m)[x][y]) \subseteq Msgs(chan[x][y])
        /\ p \in Message
    BY <1>0, PoppedMsgs
  <1>2. q \in Message /\ q.type = "LSA_ACK" /\ q.src = p.src /\ q.seq = p.seq
    BY <1>1, AckType
  <1>3. chan' = Sent(Popped(n, m), n, m, q)
    BY DEF RecvOldLSA, Acked, Sent
  <1>4. /\ chan' \in Chans
        /\ \A x, y \in Node : Msgs(chan'[x][y]) \subseteq
               Msgs(Popped(n, m)[x][y]) \cup (IF x = n THEN {q} ELSE {})
    <2>1. PICK c : c = Popped(n, m)
      OBVIOUS
    <2>2. PICK r : r = q
      OBVIOUS
    <2>3. c \in Chans /\ r \in Message
      BY <2>1, <2>2, <1>1, <1>2
    <2>4. /\ Sent(c, n, m, r) \in Chans
          /\ \A x, y \in Node : Msgs(Sent(c, n, m, r)[x][y]) \subseteq
                Msgs(c[x][y]) \cup (IF x = n THEN {r} ELSE {})
      BY <2>3, SentMsgs
    <2>5. chan' = Sent(c, n, m, r)
      BY <2>1, <2>2, <1>3
    <2> QED
      BY <2>1, <2>2, <2>4, <2>5
  <1>5. p.src \in Node /\ p.seq \in Nat
    BY <1>1 DEF Message
  <1>6. lsa[n][p.src].seq \in Int
    BY <1>0, <1>5, Types
  <1>7. Knows(lsa, n, p.src, p.seq)
    BY <1>5, <1>6 DEF RecvOldLSA, IsNew, Knows
  <1>8. Vouched(adv, lsa, n, q)
    BY <1>2, <1>7 DEF Vouched
  <1>9. \A x, y \in Node : \A r \in Msgs(chan'[x][y]) :
           r \in Msgs(chan[x][y]) \/ Vouched(adv, lsa, x, r)
    BY <1>1, <1>4, <1>8
  <1>10. TypeOK'
    BY <1>0, <1>4 DEF RecvOldLSA, TypeOK, Chans, Peers
  <1>11. RouteCurrent'
    BY <1>0, SameRoutes DEF RecvOldLSA
  <1> QED
    BY <1>9, <1>10, <1>11, QuietStep DEF RecvOldLSA

\* RecvLSAACK: the copy that goes is known to the neighbor.
LEMMA StepAck ==
    ASSUME IInv, NEW n \in Node, NEW m \in Node, chan[m][n] # <<>>,
           RecvLSAACK(n, m, Head(chan[m][n]))
    PROVE  IInv'
  <1> DEFINE p == Head(chan[m][n])
  <1>0. TypeOK /\ RouteCurrent /\ Carried /\ chan \in Chans
    BY DEF IInv, TypeOK, Chans
  <1>1. /\ Popped(n, m) \in Chans
        /\ \A x, y \in Node : Msgs(Popped(n, m)[x][y]) \subseteq Msgs(chan[x][y])
        /\ p \in Message /\ p \in Msgs(chan[m][n])
    BY <1>0, PoppedMsgs
  <1>2. chan' = Popped(n, m) /\ p.type = "LSA_ACK"
    BY DEF RecvLSAACK
  <1>3. Knows(lsa, m, p.src, p.seq)
    BY <1>0, <1>1, <1>2 DEF Carried, Vouched
  <1>4. saved' = [saved EXCEPT ![n] = {c \in @ : ~Confirmed(c, m, p)}]
    BY DEF RecvLSAACK
  <1>5. saved' \in [Node -> SUBSET Copy] /\ \A x \in Node : saved'[x] \subseteq saved[x]
    BY <1>0, <1>4 DEF TypeOK
  <1>6. ASSUME NEW x \in Node, NEW c \in saved[x], c \notin saved'[x]
        PROVE  Knows(lsa, c.to, c.msg.src, c.seq)
    <2>1. Confirmed(c, m, p)
      BY <1>0, <1>4, <1>6 DEF TypeOK
    <2> QED
      BY <2>1, <1>3 DEF Confirmed
  <1>7. TypeOK'
    BY <1>0, <1>1, <1>2, <1>5 DEF RecvLSAACK, TypeOK, Chans, Peers
  <1>8. RouteCurrent'
    BY <1>0, SameRoutes DEF RecvLSAACK
  <1>9. \A x, y \in Node : \A r \in Msgs(chan'[x][y]) : r \in Msgs(chan[x][y])
    BY <1>1, <1>2
  <1> QED
    BY <1>5, <1>6, <1>7, <1>8, <1>9, QuietStep DEF RecvLSAACK

\* ReSendLSA: a saved copy is a genuine LSA.
LEMMA StepResend ==
    ASSUME IInv, NEW n \in Node, NEW c \in saved[n], ReSendLSA(n, c)
    PROVE  IInv'
  <1>0. TypeOK /\ RouteCurrent /\ Copied /\ chan \in Chans
    BY DEF IInv, TypeOK, Chans
  <1>1. c.to \in Node /\ c.msg \in Message
    BY <1>0, Types, CopyType
  <1>2. chan' = Sent(chan, n, c.to, c.msg)
    BY DEF ReSendLSA, Sent
  <1>3. /\ chan' \in Chans
        /\ \A x, y \in Node :
              Msgs(chan'[x][y]) \subseteq Msgs(chan[x][y]) \cup (IF x = n THEN {c.msg} ELSE {})
    BY <1>0, <1>1, <1>2, SentMsgs
  <1>4. Vouched(adv, lsa, n, c.msg)
    BY <1>0 DEF Copied, Vouched
  <1>5. early' \in 0 .. MaxEarly
    <2>1. early \in 0 .. MaxEarly /\ MaxEarly \in Nat
      BY <1>0, FloodAssumption DEF TypeOK
    <2> QED
      BY <2>1 DEF ReSendLSA
  <1>6. TypeOK'
    BY <1>0, <1>3, <1>5 DEF ReSendLSA, TypeOK, Chans, Peers
  <1>7. RouteCurrent'
    BY <1>0, SameRoutes DEF ReSendLSA
  <1>8. \A x, y \in Node : \A r \in Msgs(chan'[x][y]) :
           r \in Msgs(chan[x][y]) \/ Vouched(adv, lsa, x, r)
    BY <1>3, <1>4
  <1> QED
    BY <1>6, <1>7, <1>8, QuietStep DEF ReSendLSA

\* Lose takes a message away.
LEMMA StepLose ==
    ASSUME IInv, NEW n \in Node, NEW m \in Node, Lose(n, m)
    PROVE  IInv'
  <1>0. TypeOK /\ RouteCurrent /\ chan \in Chans
    BY DEF IInv, TypeOK, Chans
  <1>1. chan' = Popped(m, n) /\ chan[n][m] # <<>>
    BY DEF Lose, Popped
  <1>2. /\ chan' \in Chans
        /\ \A x, y \in Node : Msgs(chan'[x][y]) \subseteq Msgs(chan[x][y])
    BY <1>0, <1>1, PoppedMsgs
  <1>3. losses' \in 0 .. MaxLosses
    <2>1. losses \in 0 .. MaxLosses /\ MaxLosses \in Nat
      BY <1>0, FloodAssumption DEF TypeOK
    <2> QED
      BY <2>1 DEF Lose
  <1>4. TypeOK'
    BY <1>0, <1>2, <1>3 DEF Lose, TypeOK, Chans, Peers
  <1>5. RouteCurrent'
    BY <1>0, SameRoutes DEF Lose
  <1> QED
    BY <1>2, <1>4, <1>5, QuietStep DEF Lose

\* LSATimerExpire: the new LSA is genuine and its copies are saved.
LEMMA StepSend ==
    ASSUME IInv, NEW n \in Node, LSATimerExpire(n)
    PROVE  IInv'
  <1> DEFINE p == LsaMsg(n, lsaSeq[n], nbr[n])
  <1>0. TypeOK /\ Numbered /\ Carried /\ Copied /\ Authentic /\ ReliableFlood /\ RouteCurrent
    BY DEF IInv
  <1>1. chan \in Chans /\ nbr[n] \in SUBSET Node /\ lsaSeq[n] \in Nat /\ lsaSeq[n] = Len(adv[n])
    BY <1>0 DEF TypeOK, Chans, Numbered
  <1>2. p \in Message /\ p.type = "LSA" /\ p.src = n /\ p.seq = lsaSeq[n] /\ p.nbrs = nbr[n]
    BY <1>1 DEF LsaMsg, Message
  <1>3. Flood(n, p, GetLSASeqNo(n), chan) /\ GetLSASeqNo(n) \in Nat
    BY <1>1 DEF LSATimerExpire, GetLSASeqNo
  <1>4. /\ chan' \in Chans
        /\ \A x, y \in Node :
              Msgs(chan'[x][y]) \subseteq Msgs(chan[x][y]) \cup (IF x = n THEN {p} ELSE {})
    BY <1>1, <1>2, <1>3, FloodMsgs
  <1>5. \A c \in Copies(p, GetLSASeqNo(n), nbr[n]) : c \in Copy /\ c.msg = p
    BY <1>1, <1>2, <1>3 DEF Copies, Copy
  <1>6. /\ saved' = [saved EXCEPT ![n] = @ \cup Copies(p, GetLSASeqNo(n), nbr[n])]
        /\ told' = [told EXCEPT ![n] = @ \cup Copies(p, GetLSASeqNo(n), nbr[n])]
    BY <1>3 DEF Flood
  <1>7. saved' \in [Node -> SUBSET Copy]
    BY <1>0, <1>5, <1>6 DEF TypeOK
  <1>8. told' \in [Node -> SUBSET Copy]
    BY <1>0, <1>5, <1>6 DEF TypeOK
  <1>9. /\ adv' = [adv EXCEPT ![n] = Append(@, nbr[n])]
        /\ lsaSeq' = [lsaSeq EXCEPT ![n] = @ + 1]
        /\ lsa' = lsa /\ nbr' = nbr /\ routed' = routed
    BY DEF LSATimerExpire
  <1>10. adv \in [Node -> Seq(SUBSET Node)] /\ lsaSeq \in [Node -> Nat]
    BY <1>0 DEF TypeOK
  <1>11. /\ Append(adv[n], nbr[n]) \in Seq(SUBSET Node)
         /\ Len(Append(adv[n], nbr[n])) = Len(adv[n]) + 1
         /\ \A i \in 1 .. Len(adv[n]) : Append(adv[n], nbr[n])[i] = adv[n][i]
         /\ Append(adv[n], nbr[n])[Len(adv[n]) + 1] = nbr[n]
    <2>1. adv[n] \in Seq(SUBSET Node)
      BY <1>10
    <2> QED
      BY <2>1, <1>1
  <1>12. adv' \in [Node -> Seq(SUBSET Node)] /\ lsaSeq' \in [Node -> Nat]
    BY <1>9, <1>10, <1>11
  <1>13. TypeOK'
    BY <1>0, <1>4, <1>7, <1>8, <1>9, <1>12 DEF LSATimerExpire, TypeOK, Chans, Peers
  <1>14. adv'[n] = Append(adv[n], nbr[n]) /\ \A s \in Node : s # n => adv'[s] = adv[s]
    BY <1>9, <1>10
  <1>15. Grows
    <2>1. \A x, s \in Node : lsa[x][s].seq \in Int
      BY <1>0, Types
    <2>2. \A s \in Node : Len(adv[s]) \in Nat
      BY <1>0, Types
    <2>3. ASSUME NEW s \in Node
          PROVE  Len(adv'[s]) >= Len(adv[s]) /\ \A i \in 1 .. Len(adv[s]) : adv'[s][i] = adv[s][i]
      BY <2>2, <1>11, <1>14
    <2> QED
      BY <2>1, <2>3, <1>9 DEF Grows
  <1>16. Genuine(adv', p.src, p.seq, p.nbrs)
    BY <1>1, <1>2, <1>11, <1>14 DEF Genuine
  <1>17. Vouched(adv', lsa', n, p)
    BY <1>2, <1>16 DEF Vouched
  <1>18. Carried'
    <2>1. \A x, y \in Node : \A r \in Msgs(chan'[x][y]) :
             r \in Msgs(chan[x][y]) \/ Vouched(adv', lsa', x, r)
      BY <1>4, <1>17
    <2> QED
      BY <2>1, <1>0, <1>13, <1>15, StepCarried
  <1> HIDE DEF p
  <1>19. Copied'
    <2>1. \A x \in Node : \A c \in saved'[x] :
             \/ c \in saved[x]
             \/ c.msg.type = "LSA" /\ Genuine(adv', c.msg.src, c.msg.seq, c.msg.nbrs)
      <3>1. ASSUME NEW x \in Node, NEW c \in saved'[x], c \notin saved[x]
            PROVE  c.msg = p
        <4>1. c \in Copies(p, GetLSASeqNo(n), nbr[n])
          BY <3>1, <1>0, <1>6 DEF TypeOK
        <4> QED
          BY <4>1, <1>5
      <3> QED
        BY <3>1, <1>2, <1>16
    <2> QED
      BY <2>1, <1>0, <1>13, <1>15, StepCopied
  <1>20. Authentic'
    <2>1. \A x, s \in Node : lsa'[x][s] = lsa[x][s]
      BY <1>9
    <2> QED
      BY <2>1, <1>0, <1>13, <1>15, StepAuthentic
  <1>21. ReliableFlood'
    <2>1. \A x \in Node : told'[x] \ told[x] \subseteq saved'[x] /\ saved[x] \subseteq saved'[x]
      BY <1>0, <1>6 DEF TypeOK
    <2> QED
      BY <2>1, <1>0, <1>13, <1>15, StepReliable
  <1>22. Numbered'
    <2>1. ASSUME NEW s \in Node
          PROVE  lsaSeq'[s] = Len(adv'[s])
      BY <1>0, <1>9, <1>10, <1>11, <1>14 DEF Numbered
    <2> QED
      BY <2>1 DEF Numbered
  <1>23. RouteCurrent'
    BY <1>0, <1>9, SameRoutes
  <1> QED
    BY <1>13, <1>18, <1>19, <1>20, <1>21, <1>22, <1>23 DEF IInv

\* RecvNewLSA: what is entered and passed on is genuine, and is acknowledged when
\* the table has it.
LEMMA StepNew ==
    ASSUME IInv, NEW n \in Node, NEW m \in Node, chan[m][n] # <<>>,
           RecvNewLSA(n, m, Head(chan[m][n]))
    PROVE  IInv'
  <1>a. PICK p : p = Head(chan[m][n])
    OBVIOUS
  <1>b. PICK q : q = AckMsg(p.src, p.seq)
    OBVIOUS
  <1>0. TypeOK /\ Numbered /\ Carried /\ Copied /\ Authentic /\ ReliableFlood /\ RouteCurrent
    BY DEF IInv
  <1>1. chan \in Chans /\ lsa \in [Node -> [Node -> [seq : Nat \cup {-1}, nbrs : SUBSET Node]]]
    BY <1>0 DEF TypeOK, Chans
  <1>2. /\ Popped(n, m) \in Chans
        /\ \A x, y \in Node : Msgs(Popped(n, m)[x][y]) \subseteq Msgs(chan[x][y])
        /\ p \in Message /\ p \in Msgs(chan[m][n])
    BY <1>1, <1>a, PoppedMsgs
  <1>3. q \in Message /\ q.type = "LSA_ACK" /\ q.src = p.src /\ q.seq = p.seq
    BY <1>2, <1>b, AckType
  <1>4. /\ p.type = "LSA" /\ IsNew(n, p) /\ InsertLSATuple(n, p)
        /\ Flood(n, p, p.seq, Acked(n, m, p))
        /\ UNCHANGED <<nbr, lsaSeq, losses, early, expired, adv>>
    BY <1>a DEF RecvNewLSA
  <1>5. /\ Acked(n, m, p) \in Chans
        /\ \A x, y \in Node : Msgs(Acked(n, m, p)[x][y]) \subseteq
              Msgs(Popped(n, m)[x][y]) \cup (IF x = n THEN {q} ELSE {})
    <2>1. Acked(n, m, p) = Sent(Popped(n, m), n, m, q)
      BY <1>b DEF Acked, Sent
    <2>2. PICK c : c = Popped(n, m)
      OBVIOUS
    <2>3. c \in Chans
      BY <2>2, <1>2
    <2>4. /\ Sent(c, n, m, q) \in Chans
          /\ \A x, y \in Node : Msgs(Sent(c, n, m, q)[x][y]) \subseteq
                Msgs(c[x][y]) \cup (IF x = n THEN {q} ELSE {})
      BY <2>3, <1>3, SentMsgs
    <2> QED
      BY <2>1, <2>2, <2>4
  <1>6. /\ chan' \in Chans
        /\ \A x, y \in Node : Msgs(chan'[x][y]) \subseteq
              Msgs(Acked(n, m, p)[x][y]) \cup (IF x = n THEN {p} ELSE {})
    BY <1>2, <1>4, <1>5, FloodMsgs
  <1>7. p.src \in Node /\ p.seq \in Nat /\ p.nbrs \in SUBSET Node /\ p.src # n
    BY <1>2, <1>4 DEF Message, IsNew
  <1>8. Genuine(adv, p.src, p.seq, p.nbrs)
    BY <1>0, <1>2, <1>4 DEF Carried, Vouched
  <1>9. lsa' = [lsa EXCEPT ![n][p.src] = [seq |-> p.seq, nbrs |-> p.nbrs]]
    BY <1>4 DEF InsertLSATuple
  <1>10. lsa' \in [Node -> [Node -> [seq : Nat \cup {-1}, nbrs : SUBSET Node]]]
    BY <1>1, <1>7, <1>9
  <1>11. ASSUME NEW x \in Node, NEW s \in Node
         PROVE  lsa'[x][s] = IF x = n /\ s = p.src THEN [seq |-> p.seq, nbrs |-> p.nbrs]
                             ELSE lsa[x][s]
    BY <1>1, <1>7, <1>9
  <1>12. \A c \in Copies(p, p.seq, nbr[n]) : c \in Copy /\ c.msg = p
    <2>1. nbr[n] \subseteq Node
      BY <1>0 DEF TypeOK
    <2>2. p \in Message /\ p.seq \in Nat
      BY <1>2, <1>7
    <2> QED
      BY ONLY <2>1, <2>2 DEF Copies, Copy
  <1>13. /\ saved' = [saved EXCEPT ![n] = @ \cup Copies(p, p.seq, nbr[n])]
         /\ told' = [told EXCEPT ![n] = @ \cup Copies(p, p.seq, nbr[n])]
    BY <1>4 DEF Flood
  <1>14. saved' \in [Node -> SUBSET Copy] /\ told' \in [Node -> SUBSET Copy]
    BY <1>0, <1>12, <1>13 DEF TypeOK
  <1>15. routed' = [routed EXCEPT ![n] = Reach(n, nbr[n], lsa'[n])]
    BY <1>4 DEF InsertLSATuple
  <1>16. routed' \in [Node -> SUBSET Node]
    BY <1>0, <1>15, ReachType DEF TypeOK
  <1>17. TypeOK'
    BY <1>0, <1>4, <1>6, <1>10, <1>14, <1>16 DEF TypeOK, Chans, Peers
  <1>18. Grows
    <2>1. \A x, s \in Node : lsa[x][s].seq \in Int
      BY <1>0, Types
    <2>2. \A s \in Node : Len(adv[s]) \in Nat
      BY <1>0, Types
    <2>3. p.seq > lsa[n][p.src].seq
      BY <1>4 DEF IsNew
    <2>4. ASSUME NEW x \in Node, NEW s \in Node
          PROVE  lsa'[x][s].seq >= lsa[x][s].seq
      BY <2>1, <2>3, <1>7, <1>11
    <2> QED
      BY <2>2, <2>4, <1>4 DEF Grows
  <1>19. Vouched(adv', lsa', n, p) /\ Vouched(adv', lsa', n, q)
    <2>1. Genuine(adv', p.src, p.seq, p.nbrs)
      BY <1>4, <1>8
    <2>2. Knows(lsa', n, q.src, q.seq)
      BY <1>3, <1>7, <1>11 DEF Knows
    <2> QED
      BY <2>1, <2>2, <1>3, <1>4 DEF Vouched
  <1>20. Carried'
    <2>1. \A x, y \in Node : \A r \in Msgs(chan'[x][y]) :
             r \in Msgs(chan[x][y]) \/ Vouched(adv', lsa', x, r)
      <3> SUFFICES ASSUME NEW x \in Node, NEW y \in Node, NEW r \in Msgs(chan'[x][y])
                   PROVE  r \in Msgs(chan[x][y]) \/ Vouched(adv', lsa', x, r)
        OBVIOUS
      <3>1. r \in Msgs(Acked(n, m, p)[x][y]) \/ (x = n /\ r = p)
        BY <1>6
      <3>2. r \in Msgs(Acked(n, m, p)[x][y]) =>
               r \in Msgs(Popped(n, m)[x][y]) \/ (x = n /\ r = q)
        BY <1>5
      <3>3. Msgs(Popped(n, m)[x][y]) \subseteq Msgs(chan[x][y])
        BY <1>2
      <3> QED
        BY <3>1, <3>2, <3>3, <1>19
    <2> QED
      BY <2>1, <1>0, <1>17, <1>18, StepCarried
  <1>21. Copied'
    <2>1. \A x \in Node : \A c \in saved'[x] :
             \/ c \in saved[x]
             \/ c.msg.type = "LSA" /\ Genuine(adv', c.msg.src, c.msg.seq, c.msg.nbrs)
      <3>1. ASSUME NEW x \in Node, NEW c \in saved'[x], c \notin saved[x]
            PROVE  c.msg = p
        <4>1. c \in Copies(p, p.seq, nbr[n])
          BY <3>1, <1>0, <1>13 DEF TypeOK
        <4> QED
          BY <4>1, <1>12
      <3> QED
        BY <3>1, <1>4, <1>8
    <2> QED
      BY <2>1, <1>0, <1>17, <1>18, StepCopied
  <1>22. Authentic'
    <2>1. ASSUME NEW x \in Node, NEW s \in Node
          PROVE  lsa'[x][s] = lsa[x][s] \/ Genuine(adv', s, lsa'[x][s].seq, lsa'[x][s].nbrs)
      BY <1>4, <1>8, <1>11
    <2> QED
      BY <2>1, <1>0, <1>17, <1>18, StepAuthentic
  <1>23. ReliableFlood'
    <2>1. \A x \in Node : told'[x] \ told[x] \subseteq saved'[x] /\ saved[x] \subseteq saved'[x]
      BY <1>0, <1>13 DEF TypeOK
    <2> QED
      BY <2>1, <1>0, <1>17, <1>18, StepReliable
  <1>24. Numbered'
    BY <1>0, <1>4 DEF Numbered
  <1>25. RouteCurrent'
    <2>1. ASSUME NEW x \in Node
          PROVE  Reach(x, nbr[x], lsa'[x]) \subseteq routed'[x]
      <3>1. CASE x = n
        BY <3>1, <1>0, <1>15 DEF TypeOK
      <3>2. CASE x # n
        <4>1. lsa'[x] = lsa[x] /\ routed'[x] = routed[x]
          BY <3>2, <1>0, <1>1, <1>9, <1>15 DEF TypeOK
        <4> QED
          BY <4>1, <1>0 DEF RouteCurrent
      <3> QED
        BY <3>1, <3>2
    <2> QED
      BY <2>1, <1>4 DEF RouteCurrent
  <1> QED
    BY <1>17, <1>20, <1>21, <1>22, <1>23, <1>24, <1>25 DEF IInv

\* The network starts in the invariant.
LEMMA InitInv == Init => IInv
  <1> SUFFICES ASSUME Init
               PROVE  IInv
    OBVIOUS
  <1>1. TypeOK
    <2>1. << {} >> \in Seq(SUBSET Node) /\ <<>> \in Seq(Message)
      OBVIOUS
    <2>2. NoLsa \in [seq : Nat \cup {-1}, nbrs : SUBSET Node]
      BY DEF NoLsa
    <2>3. 0 \in 0 .. MaxLosses /\ 0 \in 0 .. MaxEarly /\ 0 \in 0 .. MaxExpire
      BY FloodAssumption
    <2>4. /\ nbr \in [Node -> SUBSET Node] /\ \A n \in Node : nbr[n] \subseteq Peers(n)
          /\ lsaSeq \in [Node -> Nat] /\ routed \in [Node -> SUBSET Node]
          /\ saved \in [Node -> SUBSET Copy] /\ told \in [Node -> SUBSET Copy]
      BY DEF Init
    <2>5. lsa \in [Node -> [Node -> [seq : Nat \cup {-1}, nbrs : SUBSET Node]]]
      BY <2>2 DEF Init
    <2>6. chan \in [Node -> [Node -> Seq(Message)]]
      BY <2>1 DEF Init
    <2>7. adv \in [Node -> Seq(SUBSET Node)]
      BY <2>1 DEF Init
    <2> QED
      BY <2>3, <2>4, <2>5, <2>6, <2>7 DEF Init, TypeOK
  <1>2. Numbered
    BY DEF Init, Numbered
  <1>3. Carried
    <2>1. \A n, m \in Node : chan[n][m] = <<>>
      BY DEF Init
    <2>2. Msgs(<<>>) = {}
      BY DEF Msgs
    <2> QED
      BY <2>1, <2>2 DEF Carried
  <1>4. Copied /\ ReliableFlood
    BY DEF Init, Copied, ReliableFlood
  <1>5. Authentic
    <2>1. \A n, s \in Node : lsa[n][s].seq = -1
      BY DEF Init, NoLsa
    <2> QED
      BY <2>1 DEF Authentic
  <1>6. RouteCurrent
    <2>1. \A n \in Node : nbr[n] = {} /\ \A s \in Node : lsa[n][s].nbrs = {}
      BY DEF Init, NoLsa
    <2>2. ASSUME NEW n \in Node
          PROVE  Reach(n, nbr[n], lsa[n]) = {}
      <3>1. {} \in SUBSET Node /\ nbr[n] \subseteq {} /\ Closed({}, n, lsa[n])
        BY <2>1 DEF Closed
      <3> QED
        BY <3>1 DEF Reach
    <2> QED
      BY <2>2 DEF RouteCurrent
  <1> QED
    BY <1>1, <1>2, <1>3, <1>4, <1>5, <1>6 DEF IInv

\* The invariant of link-state flooding: what LSAs, ACKs and saved copies vouch
\* for, kept by every handler of mobilityfirst.cc that touches them.
THEOREM Inductive == Spec => []IInv
  <1>1. IInv /\ [Next]_vars => IInv'
    <2> SUFFICES ASSUME IInv, [Next]_vars
                 PROVE  IInv'
      OBVIOUS
    <2>1. ASSUME NEW n \in Node, NEW m \in Node, RecvLP(n, m)
          PROVE  IInv'
      BY <2>1, StepLP
    <2>2. ASSUME NEW n \in Node, NEW m \in Node, NeighborTupleTimerExpire(n, m)
          PROVE  IInv'
      BY <2>2, StepExpire
    <2>3. ASSUME NEW n \in Node, NEW m \in Node, Recv(n, m)
          PROVE  IInv'
      BY <2>3, StepNew, StepOld, StepAck DEF Recv
    <2>4. ASSUME NEW n \in Node, NEW m \in Node, Lose(n, m)
          PROVE  IInv'
      BY <2>4, StepLose
    <2>5. ASSUME NEW n \in Node, LSATimerExpire(n)
          PROVE  IInv'
      BY <2>5, StepSend
    <2>6. ASSUME NEW n \in Node, NEW c \in saved[n], ReSendLSA(n, c)
          PROVE  IInv'
      BY <2>6, StepResend
    <2>7. CASE UNCHANGED vars
      <3>1. /\ nbr' = nbr /\ lsaSeq' = lsaSeq /\ lsa' = lsa /\ routed' = routed
            /\ saved' = saved /\ chan' = chan /\ losses' = losses /\ early' = early
            /\ expired' = expired /\ adv' = adv /\ told' = told
        BY <2>7 DEF vars
      <3>2. TypeOK'
        BY <3>1 DEF IInv, TypeOK, Peers
      <3>3. RouteCurrent'
        BY <3>1, SameRoutes DEF IInv
      <3> QED
        BY <3>1, <3>2, <3>3, QuietStep
    <2> QED
      BY <2>1, <2>2, <2>3, <2>4, <2>5, <2>6, <2>7 DEF Next
  <1> QED
    BY InitInv, <1>1, PTL DEF Spec

\* No node computes its forward table from an LSA that its source did not send.
THEOREM AuthenticLsas == Spec => []Authentic
  <1>1. IInv => Authentic
    BY DEF IInv
  <1> QED
    BY <1>1, Inductive, PTL

\* lsa_set keeps every copy of an LSA until its neighbor has it.
THEOREM FloodIsReliable == Spec => []ReliableFlood
  <1>1. IInv => ReliableFlood
    BY DEF IInv
  <1> QED
    BY <1>1, Inductive, PTL

\* m_forward_table always has every destination that the tables lead to.
THEOREM RoutesCurrent == Spec => []RouteCurrent
  <1>1. IInv => RouteCurrent
    BY DEF IInv
  <1> QED
    BY <1>1, Inductive, PTL
-----------------------------------------------------------------------------
(* The formats.                                                            *)

\* What the fields of the messages hold.
Vals == Nat \cup Node \cup ({"sett", "lett"} \X Node)

\* The elements of a finite set, one behind the other.
LEMMA Listed ==
    ASSUME NEW S, IsFiniteSet(S)
    PROVE  SetToSeq(S) \in Seq(S)
<1>1. Cardinality(S) \in Nat /\ ExistsBijection(1 .. Cardinality(S), S)
  BY FS_CardinalityType
<1>2. \E f \in [1 .. Cardinality(S) -> S] : IsInjective(f)
  BY <1>1 DEF ExistsBijection, Bijection, Injection, IsInjective
<1>3. SetToSeq(S) \in [1 .. Cardinality(S) -> S]
  BY <1>2 DEF SetToSeq
<1>. QED
  BY <1>1, <1>3

\* The header of an LSA.
LEMMA LsaHeaders ==
    ASSUME NEW p \in Message
    PROVE  LsaHeader(p) \in Headers(Vals)
<1>1. p.seq \in Vals /\ p.src \in Vals /\ p.nbrs \subseteq Node
  BY DEF Message, Vals
<1>2. IsFiniteSet(p.nbrs)
  BY <1>1, AddressAssumption, FS_Subset
<1>3. PICK q : q = SetToSeq(p.nbrs)
  OBVIOUS
<1>4. q \in Seq(p.nbrs)
  BY <1>2, <1>3, Listed
<1>5. q \in Seq(Node)
  BY <1>1, <1>4, WiderSeq
<1>6. q \in Seq(Vals) /\ Len(q) \in Nat /\ \A i \in 1 .. Len(q) : q[i] \in Node
  <2>1. Node \subseteq Vals
    BY DEF Vals
  <2>. QED
    BY <1>5, <2>1, WiderSeq
<1>7. PICK B, C : /\ B = [i \in 1 .. Len(q) |-> <<"sett", q[i]>>]
                  /\ C = [i \in 1 .. Len(q) |-> <<"lett", q[i]>>]
  OBVIOUS
<1>8. \A x \in Node : <<"sett", x>> \in Vals /\ <<"lett", x>> \in Vals
  BY DEF Vals
<1>9. B \in [1 .. Len(q) -> Vals] /\ C \in [1 .. Len(q) -> Vals]
  BY <1>6, <1>7, <1>8
<1>10. B \in Seq(Vals) /\ Len(B) = Len(q) /\ C \in Seq(Vals) /\ Len(C) = Len(q)
  BY <1>6, <1>9
<1>11. PICK t : t = [length |-> Len(q), addrs |-> q, sett |-> B, lett |-> C]
  OBVIOUS
<1>12. t \in Lsas(Vals)
  BY <1>6, <1>10, <1>11 DEF Lsas
<1>13. LsaHeader(p) = [type |-> 3, seq |-> p.seq, addr |-> p.src, part |-> t]
  BY <1>3, <1>7, <1>11 DEF LsaHeader
<1>14. LsaHeader(p) \in [type : {3}, seq : Vals, addr : Vals, part : Lsas(Vals)]
  BY <1>1, <1>12, <1>13
<1>. QED
  BY <1>14 DEF Headers

\* The header of an ACK.
LEMMA LsaAckHeaders ==
    ASSUME NEW p \in Message, NEW n \in Node
    PROVE  LsaAckHeader(n, p) \in Headers(Vals)
<1>1. p.seq \in Vals /\ p.src \in Vals /\ n \in Vals
  BY DEF Message, Vals
<1>2. LsaAckHeader(n, p) \in [type : {10}, seq : Vals, addr : Vals, part : LsaAcks(Vals)]
  BY <1>1 DEF LsaAckHeader, LsaAcks
<1>. QED
  BY <1>2 DEF Headers

\* The LSAs and LSA ACKs on their way are read as SendLSA and LSA_ACK wrote them, and fill
\* exactly the bytes that GetSerializedSize made room for.
THEOREM MessagesReadable == Spec => []WireFormats
<1>1. Nat \subseteq Vals
  BY DEF Vals
<1>2. TypeOK => WireFormats
  <2>. SUFFICES ASSUME TypeOK, NEW n \in Node, NEW m \in Node, NEW i \in 1 .. Len(chan[n][m])
                PROVE  Faithful(HeaderOf(n, chan[n][m][i]))
    BY DEF WireFormats
  <2>1. PICK s, p : s = chan[n][m] /\ p = chan[n][m][i]
    OBVIOUS
  <2>2. s \in Seq(Message)
    BY <2>1 DEF TypeOK
  <2>3. p \in Message
    BY <2>1, <2>2
  <2>4. HeaderOf(n, p) \in Headers(Vals)
    BY <2>3, LsaHeaders, LsaAckHeaders DEF HeaderOf
  <2>. QED
    BY <1>1, <2>1, <2>4, FormatsFaithful
<1>3. IInv => WireFormats
  BY <1>2 DEF IInv
<1>. QED
  BY <1>3, Inductive, PTL

\* A data packet is read as it was written.
LEMMA DataHeaders ==
    ASSUME NEW m \in Node, NEW k \in Nat, NEW s \in Node, NEW d \in Node
    PROVE  Deserialize(Serialize(DataHeader(m, k, s, d))) = DataHeader(m, k, s, d)
<1>1. /\ Nat \subseteq Vals /\ m \in Vals /\ k \in Vals /\ s \in Vals /\ d \in Vals
      /\ 1 \in Vals /\ 0 \in Vals /\ PayloadSize \in Vals /\ PayloadSize \in Nat
  BY HeaderAssumption DEF Vals
<1>2. PICK b : b = [i \in 1 .. PayloadSize |-> 0]
  OBVIOUS
<1>3. b \in [1 .. PayloadSize -> Vals]
  BY <1>1, <1>2
<1>4. b \in Seq(Vals) /\ Len(b) = PayloadSize
  BY <1>1, <1>3
<1>5. PICK t : t = [src |-> s, dest |-> d, pkt_no |-> 1, payload_size |-> PayloadSize,
                    payload |-> b]
  OBVIOUS
<1>6. t \in Datas(Vals)
  BY <1>1, <1>4, <1>5 DEF Datas
<1>7. DataHeader(m, k, s, d) = [type |-> 9, seq |-> k, addr |-> m, part |-> t]
  BY <1>2, <1>5 DEF DataHeader
<1>8. DataHeader(m, k, s, d) \in [type : {9}, seq : Vals, addr : Vals, part : Datas(Vals)]
  BY <1>1, <1>6, <1>7
<1>9. DataHeader(m, k, s, d) \in Headers(Vals)
  BY <1>8 DEF Headers
<1>. QED
  BY <1>1, <1>9, ReadAsWritten

\* Case 9 of RecvMF has no break: the data packet is looked up in lsa_set as an LSA ACK, and
\* no saved copy is found, whatever the chunk and the flow are.
THEOREM FallThroughHarmless == Spec => []DataLeavesRetries
<1>1. TypeOK => DataLeavesRetries
  <2>. SUFFICES ASSUME TypeOK, NEW n \in Node, NEW s \in Node, NEW d \in Node,
                       NEW e \in saved[n], NEW h,
                       h = Deserialize(Serialize(DataHeader(e.to, e.seq, s, d)))
                PROVE  ~Confirmed(e, h.addr, [src |-> LsaAckSrc(h), seq |-> h.seq])
    BY DEF DataLeavesRetries
  <2>1. e \in Copy
    BY DEF TypeOK
  <2>2. e.to \in Node /\ e.seq \in Nat /\ e.msg.src \in Node
    BY <2>1 DEF Copy, Message
  <2>3. h = DataHeader(e.to, e.seq, s, d)
    BY <2>2, DataHeaders
  <2>4. LsaAckSrc(h) = AnyAddr
    BY <2>3 DEF DataHeader, LsaAckSrc
  <2>. QED
    BY <2>2, <2>4, AddressAssumption DEF Confirmed
<1>2. IInv => DataLeavesRetries
  BY <1>1 DEF IInv
<1>. QED
  BY <1>2, Inductive, PTL
=============================================================================
