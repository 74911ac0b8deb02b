----------------------------- MODULE DtnProofs -----------------------------
(***************************************************************************)
(* Proofs about Dtn, for any nodes and links and any number of DLSAs,      *)
(* losses and expiries.                                                    *)
(*                                                                         *)
(* The invariant says what a message on a link vouches for (MsgOK): a      *)
(* summary vector lists DLSAs that its sender has, an ACK asks for ones    *)
(* that its receiver has and that its sender did not make, and a DLSA is   *)
(* one that its node made, on its way to another node.  Since no number in *)
(* a table gets smaller (Grows), that stays true while the message is on   *)
(* its way, whatever is entered meanwhile.  Owed says where each DLSA that *)
(* a fresh node has and a neighbor lacks stands in the exchange: listed,   *)
(* asked for or sent.  Every handler moves it one stage on.                *)
(***************************************************************************)
EXTENDS Dtn, MfHeaderProofs, FiniteSetTheorems

\* The values in the messages: numbers, nodes and percentages.
Percents == {Percent(t) : t \in [on : Nat, off : Nat]}
Vals == Nat \cup Node \cup Percents

\* The tuples of a DLSA table.
Tuples ==
    {t \in [seq : Nat, addrs : Seq(Node), probs : Seq(Percents)] : Len(t.addrs) = Len(t.probs)}

\* A summary vector, or its ACK, as it is read.
ListOK(p) ==
    /\ p.addrs \in Seq(Node) /\ p.nums \in Seq(Nat)
    /\ Len(p.addrs) = p.length /\ Len(p.nums) = p.length

\* What may be on a link.
Packets ==
    {Serialize(h) : h \in [type : {4, 5, 6}, seq : Nat, addr : Node,
                           part : [length : Nat, addrs : Seq(Node), nums : Seq(Nat)] \cup
                                  [length : Nat, addrs : Seq(Node), probs : Seq(Percents)]]}

-----------------------------------------------------------------------------
(* The messages that the handlers build, and what is read from them.       *)

\* The values of a function on a finite set.
LEMMA FiniteImage ==
    ASSUME NEW T, IsFiniteSet(T), NEW f, NEW S, S = {f[x] : x \in T}
    PROVE  IsFiniteSet(S)
<1>1. PICK g : g = [x \in T |-> f[x]]
  OBVIOUS
<1>2. g \in Surjection(T, S)
  BY <1>1 DEF Surjection
<1>. QED
  BY <1>2, FS_Surjection

\* A table in some order.
LEMMA OrdersOf ==
    ASSUME NEW S, IsFiniteSet(S), NEW q \in Orders(S)
    PROVE  /\ q \in Seq(S)
           /\ {q[i] : i \in 1 .. Len(q)} = S
<1>1. Cardinality(S) \in Nat
  BY FS_CardinalityType
<1>2. q \in [1 .. Cardinality(S) -> S] /\ {q[i] : i \in DOMAIN q} = S
  BY DEF Orders
<1>3. q \in Seq(S)
  BY <1>1, <1>2
<1>4. DOMAIN q = 1 .. Len(q)
  BY <1>3
<1>. QED
  BY <1>2, <1>3, <1>4

\* A sequence of pairs, and its two columns.
IsRows(q, A, B) ==
    Len(q) \in Nat /\ DOMAIN q = 1 .. Len(q) /\ \A i \in 1 .. Len(q) : q[i] \in A \X B
IsColumns(q, A, B) ==
    /\ First(q) \in Seq(A) /\ Len(First(q)) = Len(q)
    /\ Second(q) \in Seq(B) /\ Len(Second(q)) = Len(q)

\* The columns are as long as the sequence.
LEMMA Columns ==
    ASSUME NEW A, NEW B, NEW q, IsRows(q, A, B)
    PROVE  IsColumns(q, A, B)
<1>0. Len(q) \in Nat /\ DOMAIN q = 1 .. Len(q) /\ \A i \in 1 .. Len(q) : q[i] \in A \X B
  BY DEF IsRows
<1>1. \A i \in 1 .. Len(q) : q[i][1] \in A /\ q[i][2] \in B
  BY <1>0
<1>2. First(q) = [i \in 1 .. Len(q) |-> q[i][1]]
  BY <1>0 DEF First
<1>3. Second(q) = [i \in 1 .. Len(q) |-> q[i][2]]
  BY <1>0 DEF Second
<1>4. First(q) \in Seq(A) /\ Len(First(q)) = Len(q)
  BY <1>0, <1>1, <1>2
<1>5. Second(q) \in Seq(B) /\ Len(Second(q)) = Len(q)
  BY <1>0, <1>1, <1>3
<1>. QED
  BY <1>4, <1>5 DEF IsColumns

\* The pairs of a vector whose columns are those of q.
LEMMA PairsOf ==
    ASSUME NEW q, DOMAIN q = 1 .. Len(q),
           \A i \in 1 .. Len(q) : q[i] = <<q[i][1], q[i][2]>>,
           NEW p, p.addrs = First(q), p.nums = Second(q)
    PROVE  Pairs(p) = {q[i] : i \in 1 .. Len(q)}
<1>1. DOMAIN p.nums = 1 .. Len(q)
  BY DEF Second
<1>2. \A i \in 1 .. Len(q) : <<p.addrs[i], p.nums[i]>> = q[i]
  BY DEF First, Second
<1>. QED
  BY <1>1, <1>2 DEF Pairs

\* A DLSA table.
Tables == [Node -> Tuples \cup {NoDlsa}]

\* What SendSummaryVector lists is finite.
LEMMA NumberedFinite ==
    ASSUME NEW tab \in Tables
    PROVE  IsFiniteSet(Numbered(tab)) /\ Numbered(tab) \subseteq Node \X Nat
<1>1. PICK T, f : /\ T = {t \in Node : tab[t] # NoDlsa}
                  /\ f = [s \in T |-> <<s, tab[s].seq>>]
  OBVIOUS
<1>2. IsFiniteSet(T)
  BY <1>1, DtnAssumption, FS_Subset
<1>3. Numbered(tab) = {f[s] : s \in T}
  BY <1>1 DEF Numbered
<1>4. IsFiniteSet(Numbered(tab))
  BY <1>2, <1>3, FiniteImage
<1>5. \A s \in T : tab[s].seq \in Nat
  BY <1>1 DEF Tables, Tuples
<1>6. Numbered(tab) \subseteq Node \X Nat
  BY <1>1, <1>5 DEF Numbered
<1>. QED
  BY <1>4, <1>6

\* What is left of a vector that is read.
LEMMA PairsFinite ==
    ASSUME NEW p, ListOK(p)
    PROVE  IsFiniteSet(Pairs(p)) /\ Pairs(p) \subseteq Node \X Nat
<1>1. PICK T, f : T = 1 .. p.length /\ f = [i \in T |-> <<p.addrs[i], p.nums[i]>>]
  OBVIOUS
<1>2. DOMAIN p.nums = T /\ p.length \in Nat
  BY <1>1 DEF ListOK
<1>3. IsFiniteSet(T)
  BY <1>1, <1>2, FS_Interval
<1>4. Pairs(p) = {f[i] : i \in T}
  BY <1>1, <1>2 DEF Pairs
<1>5. IsFiniteSet(Pairs(p))
  BY <1>3, <1>4, FiniteImage
<1>6. \A i \in T : p.addrs[i] \in Node /\ p.nums[i] \in Nat
  BY <1>1, <1>2 DEF ListOK
<1>. QED
  BY <1>2, <1>5, <1>6 DEF Pairs

\* One entry of a vector that is read.
LEMMA PairAt ==
    ASSUME NEW p, ListOK(p), NEW i \in 1 .. p.length
    PROVE  /\ p.addrs[i] \in Node /\ p.nums[i] \in Nat
           /\ \E e \in Pairs(p) : e[1] = p.addrs[i] /\ e[2] = p.nums[i]
<1>1. p.addrs[i] \in Node /\ p.nums[i] \in Nat /\ i \in DOMAIN p.nums
  BY DEF ListOK
<1>2. PICK e : e = <<p.addrs[i], p.nums[i]>>
  OBVIOUS
<1>3. e \in Pairs(p)
  BY <1>1, <1>2 DEF Pairs
<1>4. e[1] = p.addrs[i] /\ e[2] = p.nums[i]
  BY <1>2
<1>. QED
  BY <1>1, <1>3, <1>4

\* What n sends as its summary vector lists the numbers in its table, and no more
\* numbers are read than addresses.
LEMMA VectorSent ==
    ASSUME NEW n \in Node, NEW tab \in Tables, NEW h \in SendSummaryVector(n, tab)
    PROVE  LET r == Deserialize(Serialize(h))
           IN  /\ Serialize(h) \in Packets
               /\ r.type = 4 /\ r.seq = 0 /\ ListOK(r.part)
               /\ Pairs(r.part) = Numbered(tab)
<1>1. PICK q \in Orders(Numbered(tab)) : h = VectorOf(n, q)
  BY DEF SendSummaryVector
<1>2. IsFiniteSet(Numbered(tab)) /\ Numbered(tab) \subseteq Node \X Nat
  BY NumberedFinite
<1>3. q \in Seq(Numbered(tab)) /\ {q[i] : i \in 1 .. Len(q)} = Numbered(tab)
  BY <1>2, OrdersOf
<1>4. q \in Seq(Node \X Nat) /\ Len(q) \in Nat
  BY <1>2, <1>3
<1>5. PICK A, B : A = First(q) /\ B = Second(q)
  OBVIOUS
<1>6. A \in Seq(Node) /\ B \in Seq(Nat) /\ Len(A) = Len(q) /\ Len(B) = Len(q)
  <2>1. IsRows(q, Node, Nat)
    BY <1>4 DEF IsRows
  <2>2. IsColumns(q, Node, Nat)
    BY <2>1, Columns
  <2>. QED
    BY <1>5, <2>2 DEF IsColumns
<1>7. PICK B0 : B0 = B \o <<0>>
  OBVIOUS
<1>8. B0 \in Seq(Nat) /\ Len(A) <= Len(B0) /\ SubSeq(B0, 1, Len(A)) = B
  <2>1. /\ B0 \in Seq(Nat) /\ Len(B0) = Len(B) + 1
        /\ \A i \in 1 .. Len(B) : B0[i] = B[i]
    BY ONLY <1>6, <1>7
  <2>2. SubSeq(B0, 1, Len(A)) = B
    BY ONLY <1>6, <2>1
  <2>. QED
    BY <1>6, <2>1, <2>2
<1>9. PICK p0 : p0 = [length |-> Len(A), addrs |-> A, nums |-> B0]
  OBVIOUS
<1>10. h = [type |-> 4, seq |-> 0, addr |-> n, part |-> p0]
  BY <1>1, <1>5, <1>6, <1>7, <1>9 DEF VectorOf
<1>11. Serialize(h) \in Packets
  <2>1. p0 \in [length : Nat, addrs : Seq(Node), nums : Seq(Nat)]
    BY <1>4, <1>6, <1>8, <1>9
  <2>2. h \in [type : {4, 5, 6}, seq : Nat, addr : Node,
               part : [length : Nat, addrs : Seq(Node), nums : Seq(Nat)] \cup
                      [length : Nat, addrs : Seq(Node), probs : Seq(Percents)]]
    BY <1>10, <2>1
  <2>. QED
    BY <2>2 DEF Packets
<1>12. PICK p : p = [length |-> Len(A), addrs |-> A, nums |-> B]
  OBVIOUS
<1>13. Deserialize(Serialize(h)) = [type |-> 4, seq |-> 0, addr |-> n, part |-> p]
  <2>1. Nat \subseteq Vals /\ 0 \in Vals /\ n \in Vals
    BY DEF Vals
  <2>2. A \in Seq(Vals) /\ B0 \in Seq(Vals)
    <3>1. Node \subseteq Vals /\ Nat \subseteq Vals
      BY DEF Vals
    <3>. QED
      BY <1>6, <1>8, <3>1, WiderSeq
  <2>3. p0 \in Vectors(Vals)
    BY <1>4, <1>6, <1>8, <1>9, <2>2 DEF Vectors
  <2>4. Cut(p0) = p
    BY <1>8, <1>9, <1>12 DEF Cut
  <2>5. h \in [type : {4}, seq : Vals, addr : Vals, part : Vectors(Vals)]
    BY <1>10, <2>1, <2>3
  <2>6. Deserialize(Serialize(h)) =
           [type |-> 4, seq |-> h.seq, addr |-> h.addr, part |-> Cut(h.part)]
    BY <2>1, <2>5, VectorIsCut
  <2>. QED
    BY <1>10, <2>4, <2>6
<1>14. ListOK(p)
  BY <1>6, <1>12 DEF ListOK
<1>15. Pairs(p) = Numbered(tab)
  <2>1. p.addrs = First(q) /\ p.nums = Second(q)
    BY <1>5, <1>12
  <2>2. Pairs(p) = {q[i] : i \in 1 .. Len(q)}
    <3>1. DOMAIN q = 1 .. Len(q) /\ \A i \in 1 .. Len(q) : q[i] \in Node \X Nat
      BY <1>4
    <3>2. \A i \in 1 .. Len(q) : q[i] = <<q[i][1], q[i][2]>>
      BY <3>1
    <3>. QED
      BY <2>1, <3>1, <3>2, PairsOf
  <2>. QED
    BY <1>3, <2>2
<1>. QED
  BY <1>11, <1>13, <1>14, <1>15

\* What n answers lists what it lacks.
LEMMA AckSent ==
    ASSUME NEW n \in Node, NEW tab, NEW g, g.seq \in Nat, ListOK(g.part),
           NEW h \in SendSummaryVectorACK(n, tab, g)
    PROVE  LET r == Deserialize(Serialize(h))
           IN  /\ Serialize(h) \in Packets
               /\ r.type = 5 /\ r.seq \in Nat /\ ListOK(r.part)
               /\ Pairs(r.part) = Lacking(n, tab, g.part)
<1>. DEFINE L == Lacking(n, tab, g.part)
<1>1. PICK q \in Orders(L) : h = AckOf(n, g.seq, q)
  BY DEF SendSummaryVectorACK
<1>2. IsFiniteSet(L) /\ L \subseteq Node \X Nat
  <2>1. L \subseteq Pairs(g.part)
    BY DEF Lacking
  <2>. QED
    BY <2>1, PairsFinite, FS_Subset
<1>3. q \in Seq(L) /\ {q[i] : i \in 1 .. Len(q)} = L
  BY <1>2, OrdersOf
<1>4. q \in Seq(Node \X Nat) /\ Len(q) \in Nat
  BY <1>2, <1>3
<1>. HIDE DEF L
<1>5. PICK A, B : A = First(q) /\ B = Second(q)
  OBVIOUS
<1>6. A \in Seq(Node) /\ B \in Seq(Nat) /\ Len(A) = Len(q) /\ Len(B) = Len(q)
  <2>1. IsRows(q, Node, Nat)
    BY <1>4 DEF IsRows
  <2>2. IsColumns(q, Node, Nat)
    BY <2>1, Columns
  <2>. QED
    BY <1>5, <2>2 DEF IsColumns
<1>7. PICK p : p = [length |-> Len(A), addrs |-> A, nums |-> B]
  OBVIOUS
<1>8. h = [type |-> 5, seq |-> g.seq, addr |-> n, part |-> p]
  BY <1>1, <1>5, <1>6, <1>7 DEF AckOf
<1>9. Serialize(h) \in Packets
  <2>1. p \in [length : Nat, addrs : Seq(Node), nums : Seq(Nat)]
    BY <1>4, <1>6, <1>7
  <2>2. h \in [type : {4, 5, 6}, seq : Nat, addr : Node,
               part : [length : Nat, addrs : Seq(Node), nums : Seq(Nat)] \cup
                      [length : Nat, addrs : Seq(Node), probs : Seq(Percents)]]
    BY <1>8, <2>1
  <2>. QED
    BY <2>2 DEF Packets
<1>10. Deserialize(Serialize(h)) = h
  <2>1. Nat \subseteq Vals /\ g.seq \in Vals /\ n \in Vals
    BY DEF Vals
  <2>2. A \in Seq(Vals) /\ B \in Seq(Vals)
    <3>1. Node \subseteq Vals /\ Nat \subseteq Vals
      BY DEF Vals
    <3>. QED
      BY <1>6, <3>1, WiderSeq
  <2>3. p \in Lists(Vals)
    BY <1>4, <1>6, <1>7, <2>2 DEF Lists
  <2>4. h \in [type : {4, 5}, seq : Vals, addr : Vals, part : Lists(Vals)]
    BY <1>8, <2>1, <2>3
  <2>5. h \in Headers(Vals)
    BY <2>4 DEF Headers
  <2>. QED
    BY <2>1, <2>5, ReadAsWritten
<1>11. ListOK(p)
  BY <1>6, <1>7 DEF ListOK
<1>12. Pairs(p) = L
  <2>1. p.addrs = First(q) /\ p.nums = Second(q)
    BY <1>5, <1>7
  <2>2. Pairs(p) = {q[i] : i \in 1 .. Len(q)}
    <3>1. DOMAIN q = 1 .. Len(q) /\ \A i \in 1 .. Len(q) : q[i] \in Node \X Nat
      BY <1>4
    <3>2. \A i \in 1 .. Len(q) : q[i] = <<q[i][1], q[i][2]>>
      BY <3>1
    <3>. QED
      BY <2>1, <3>1, <3>2, PairsOf
  <2>. QED
    BY <1>3, <2>2
<1>. QED
  BY <1>8, <1>9, <1>10, <1>11, <1>12 DEF L

\* A DLSA is read as the tuple that was sent.
LEMMA DlsaSent ==
    ASSUME NEW s \in Node, NEW t \in Tuples
    PROVE  LET h == SendDLSA(s, t)
           IN  /\ Serialize(h) \in Packets
               /\ Deserialize(Serialize(h)) = h
               /\ h.type = 6 /\ h.addr = s /\ h.seq = t.seq /\ Tuple(h) = t
<1>1. PICK h : h = SendDLSA(s, t)
  OBVIOUS
<1>2. PICK p : p = [length |-> Len(t.addrs), addrs |-> t.addrs, probs |-> t.probs]
  OBVIOUS
<1>3. /\ t.seq \in Nat /\ t.addrs \in Seq(Node) /\ t.probs \in Seq(Percents)
      /\ Len(t.addrs) = Len(t.probs)
      /\ t = [seq |-> t.seq, addrs |-> t.addrs, probs |-> t.probs]
  BY DEF Tuples
<1>4. h = [type |-> 6, seq |-> t.seq, addr |-> s, part |-> p]
  BY <1>1, <1>2 DEF SendDLSA
<1>5. Serialize(h) \in Packets
  <2>1. p \in [length : Nat, addrs : Seq(Node), probs : Seq(Percents)]
    BY <1>2, <1>3
  <2>2. h \in [type : {4, 5, 6}, seq : Nat, addr : Node,
               part : [length : Nat, addrs : Seq(Node), nums : Seq(Nat)] \cup
                      [length : Nat, addrs : Seq(Node), probs : Seq(Percents)]]
    BY <1>3, <1>4, <2>1
  <2>. QED
    BY <2>2 DEF Packets
<1>6. Deserialize(Serialize(h)) = h
  <2>1. Nat \subseteq Vals /\ t.seq \in Vals /\ s \in Vals
    BY <1>3 DEF Vals
  <2>2. t.addrs \in Seq(Vals) /\ t.probs \in Seq(Vals)
    <3>1. Node \subseteq Vals /\ Percents \subseteq Vals
      BY DEF Vals
    <3>. QED
      BY <1>3, <3>1, WiderSeq
  <2>3. p \in Dlsas(Vals)
    BY <1>2, <1>3, <2>2 DEF Dlsas
  <2>4. h \in [type : {6}, seq : Vals, addr : Vals, part : Dlsas(Vals)]
    BY <1>4, <2>1, <2>3
  <2>5. h \in Headers(Vals)
    BY <2>4 DEF Headers
  <2>. QED
    BY <2>1, <2>5, ReadAsWritten
<1>7. h.type = 6 /\ h.addr = s /\ h.seq = t.seq
  BY <1>4
<1>8. Tuple(h) = t
  BY <1>2, <1>3, <1>4 DEF Tuple
<1>. QED
  BY <1>1, <1>5, <1>6, <1>7, <1>8

\* The entries of the probability tables.
Times == [on : Nat, off : Nat]

\* The DLSA that n makes lists the nodes it has seen.
LEMMA MyDlsa ==
    ASSUME NEW n \in Node, prob[n] \in [Node -> Times], dlsaSeq[n] \in Nat,
           NEW g \in SendMyDLSA(n)
    PROVE  \E t \in Tuples :
              g = SendDLSA(n, t) /\ t.seq = dlsaSeq[n] /\ ListedBy(t) = Seen(n)
<1>1. PICK q \in Orders(MyEntries(n)) :
         g = SendDLSA(n, [seq |-> dlsaSeq[n], addrs |-> First(q), probs |-> Second(q)])
  BY DEF SendMyDLSA
<1>2. PICK T, f : T = Seen(n) /\ f = [m \in T |-> <<m, Percent(prob[n][m])>>]
  OBVIOUS
<1>3. T \subseteq Node /\ IsFiniteSet(T)
  BY <1>2, DtnAssumption, FS_Subset DEF Seen
<1>4. MyEntries(n) = {f[m] : m \in T}
  BY <1>2 DEF MyEntries
<1>5. IsFiniteSet(MyEntries(n))
  BY <1>3, <1>4, FiniteImage
<1>6. \A m \in T : Percent(prob[n][m]) \in Percents
  BY <1>3 DEF Percents, Times
<1>7. MyEntries(n) \subseteq Node \X Percents
  BY <1>2, <1>3, <1>6 DEF MyEntries
<1>8. q \in Seq(MyEntries(n)) /\ {q[i] : i \in 1 .. Len(q)} = MyEntries(n)
  BY <1>5, OrdersOf
<1>9. q \in Seq(Node \X Percents) /\ Len(q) \in Nat
  BY <1>7, <1>8
<1>10. PICK A, B : A = First(q) /\ B = Second(q)
  OBVIOUS
<1>11. A \in Seq(Node) /\ B \in Seq(Percents) /\ Len(A) = Len(q) /\ Len(B) = Len(q)
  <2>1. PICK P : P = Percents
    OBVIOUS
  <2>2. IsRows(q, Node, P)
    BY <1>9, <2>1 DEF IsRows
  <2>3. IsColumns(q, Node, P)
    BY <2>2, Columns
  <2>. QED
    BY <1>10, <2>1, <2>3 DEF IsColumns
<1>12. PICK t : t = [seq |-> dlsaSeq[n], addrs |-> A, probs |-> B]
  OBVIOUS
<1>13. t \in Tuples
  BY <1>11, <1>12 DEF Tuples
<1>14. ListedBy(t) = Seen(n)
  <2>1. DOMAIN A = 1 .. Len(q) /\ \A i \in 1 .. Len(q) : A[i] = q[i][1]
    <3>1. DOMAIN q = 1 .. Len(q)
      BY <1>9
    <3>. QED
      BY <1>10, <3>1 DEF First
  <2>2. \A x : (\E i \in 1 .. Len(q) : A[i] = x) <=> x \in Seen(n)
    <3>1. \A i \in 1 .. Len(q) : q[i] \in MyEntries(n)
      BY <1>8
    <3>2. \A i \in 1 .. Len(q) : A[i] \in Seen(n)
      BY <2>1, <3>1 DEF MyEntries
    <3>3. \A x \in Seen(n) : \E i \in 1 .. Len(q) : A[i] = x
      <4>. TAKE x \in Seen(n)
      <4>1. <<x, Percent(prob[n][x])>> \in MyEntries(n)
        BY DEF MyEntries
      <4>2. PICK i \in 1 .. Len(q) : q[i] = <<x, Percent(prob[n][x])>>
        BY <1>8, <4>1
      <4>. QED
        BY <2>1, <4>2
    <3>. QED
      BY <3>2, <3>3
  <2>3. ListedBy(t) = {A[i] : i \in 1 .. Len(q)}
    BY <1>12, <2>1 DEF ListedBy
  <2>. QED
    BY <2>2, <2>3
<1>. QED
  BY <1>1, <1>10, <1>12, <1>13, <1>14

-----------------------------------------------------------------------------
(* The links.                                                              *)

\* What is read from the packets in q.
ReadOf(q) == {Deserialize(q[i]) : i \in 1 .. Len(q)}

\* One packet more.
LEMMA ReadAppend ==
    ASSUME NEW q \in Seq(Packets), NEW p \in Packets
    PROVE  Append(q, p) \in Seq(Packets) /\ ReadOf(Append(q, p)) = ReadOf(q) \cup {Deserialize(p)}
<1>1. PICK a : a = Append(q, p)
  OBVIOUS
<1>2. /\ a \in Seq(Packets) /\ Len(a) = Len(q) + 1 /\ Len(q) \in Nat
      /\ \A i \in 1 .. Len(q) : a[i] = q[i]
      /\ a[Len(q) + 1] = p
  BY <1>1
<1>3. 1 .. Len(a) = (1 .. Len(q)) \cup {Len(q) + 1}
  BY <1>2
<1>4. ReadOf(a) = ReadOf(q) \cup {Deserialize(p)}
  BY <1>2, <1>3 DEF ReadOf
<1>. QED
  BY <1>1, <1>2, <1>4

\* Several packets more.
LEMMA ReadConcat ==
    ASSUME NEW q \in Seq(Packets), NEW r \in Seq(Packets)
    PROVE  q \o r \in Seq(Packets) /\ ReadOf(q \o r) = ReadOf(q) \cup ReadOf(r)
<1>1. PICK a : a = q \o r
  OBVIOUS
<1>2. /\ a \in Seq(Packets) /\ Len(a) = Len(q) + Len(r) /\ Len(q) \in Nat /\ Len(r) \in Nat
      /\ \A i \in 1 .. Len(q) : a[i] = q[i]
      /\ \A i \in 1 .. Len(r) : a[Len(q) + i] = r[i]
  BY <1>1
<1>3. \A i \in 1 .. Len(a) : i \in 1 .. Len(q) \/ \E j \in 1 .. Len(r) : i = Len(q) + j
  <2>. TAKE i \in 1 .. Len(a)
  <2>1. i \notin 1 .. Len(q) => i - Len(q) \in 1 .. Len(r) /\ i = Len(q) + (i - Len(q))
    BY <1>2
  <2>. QED
    BY <2>1
<1>4. \A i \in 1 .. Len(q) : i \in 1 .. Len(a)
  BY <1>2
<1>5. \A j \in 1 .. Len(r) : Len(q) + j \in 1 .. Len(a)
  BY <1>2
<1>6. ReadOf(a) \subseteq ReadOf(q) \cup ReadOf(r)
  BY <1>2, <1>3 DEF ReadOf
<1>7. ReadOf(q) \subseteq ReadOf(a)
  BY <1>2, <1>4 DEF ReadOf
<1>8. ReadOf(r) \subseteq ReadOf(a)
  BY <1>2, <1>5 DEF ReadOf
<1>. QED
  BY <1>1, <1>2, <1>6, <1>7, <1>8

\* The first packet is taken.
LEMMA ReadTail ==
    ASSUME NEW q \in Seq(Packets), q # <<>>
    PROVE  Tail(q) \in Seq(Packets) /\ ReadOf(q) = {Deserialize(Head(q))} \cup ReadOf(Tail(q))
<1>1. PICK a : a = Tail(q)
  OBVIOUS
<1>2. /\ a \in Seq(Packets) /\ Len(q) = Len(a) + 1 /\ Len(a) \in Nat
      /\ Head(q) = q[1] /\ \A i \in 1 .. Len(a) : a[i] = q[i + 1]
  BY <1>1
<1>3. \A i \in 1 .. Len(q) : i = 1 \/ \E j \in 1 .. Len(a) : i = j + 1
  <2>. TAKE i \in 1 .. Len(q)
  <2>1. i # 1 => i - 1 \in 1 .. Len(a) /\ i = (i - 1) + 1
    BY <1>2
  <2>. QED
    BY <2>1
<1>4. \A j \in 1 .. Len(a) : j + 1 \in 1 .. Len(q)
  BY <1>2
<1>5. ReadOf(q) \subseteq {Deserialize(Head(q))} \cup ReadOf(a)
  BY <1>2, <1>3 DEF ReadOf
<1>6. Deserialize(Head(q)) \in ReadOf(q)
  BY <1>2 DEF ReadOf
<1>7. ReadOf(a) \subseteq ReadOf(q)
  BY <1>2, <1>4 DEF ReadOf
<1>. QED
  BY <1>1, <1>2, <1>5, <1>6, <1>7

\* The links between the nodes.
Chans == [Node -> [Node -> Seq(Packets)]]

\* The links after packets were sent or taken, as the actions write them.
WithOne(c, n, m, p)  == [c EXCEPT ![n][m] = Append(@, p)]
WithMany(c, n, m, r) == [c EXCEPT ![n][m] = @ \o r]
WithAll(c, n, N, p)  ==
    [c EXCEPT ![n] = [k \in Node |-> IF k \in N THEN Append(c[n][k], p) ELSE c[n][k]]]
WithoutFirst(c, n, m) == [c EXCEPT ![n][m] = Tail(@)]

\* After something was sent from n to m, the links d hold what c did and R.
Sent(c, d, n, m, R) ==
    /\ d \in Chans
    /\ ReadOf(d[n][m]) = ReadOf(c[n][m]) \cup R
    /\ \A x, y \in Node : (x # n \/ y # m) => d[x][y] = c[x][y]

\* A packet is sent to one node.
LEMMA SendOne ==
    ASSUME NEW c \in Chans, NEW n \in Node, NEW m \in Node, NEW p \in Packets,
           NEW d, d = WithOne(c, n, m, p)
    PROVE  Sent(c, d, n, m, {Deserialize(p)})
<1>1. c[n][m] \in Seq(Packets)
  BY DEF Chans
<1>2. PICK a : a = Append(c[n][m], p)
  OBVIOUS
<1>3. a \in Seq(Packets) /\ ReadOf(a) = ReadOf(c[n][m]) \cup {Deserialize(p)}
  BY <1>1, <1>2, ReadAppend
<1>4. d = [c EXCEPT ![n][m] = a]
  BY <1>2 DEF WithOne
<1>5. /\ d \in Chans /\ d[n][m] = a
      /\ \A x, y \in Node : (x # n \/ y # m) => d[x][y] = c[x][y]
  BY ONLY <1>3, <1>4 DEF Chans
<1>. QED
  BY <1>3, <1>5 DEF Sent

\* Packets are sent to one node.
LEMMA SendMany ==
    ASSUME NEW c \in Chans, NEW n \in Node, NEW m \in Node, NEW r \in Seq(Packets),
           NEW d, d = WithMany(c, n, m, r)
    PROVE  Sent(c, d, n, m, ReadOf(r))
<1>1. c[n][m] \in Seq(Packets)
  BY DEF Chans
<1>2. PICK a : a = c[n][m] \o r
  OBVIOUS
<1>3. a \in Seq(Packets) /\ ReadOf(a) = ReadOf(c[n][m]) \cup ReadOf(r)
  BY <1>1, <1>2, ReadConcat
<1>4. d = [c EXCEPT ![n][m] = a]
  BY <1>2 DEF WithMany
<1>5. /\ d \in Chans /\ d[n][m] = a
      /\ \A x, y \in Node : (x # n \/ y # m) => d[x][y] = c[x][y]
  BY ONLY <1>3, <1>4 DEF Chans
<1>. QED
  BY <1>3, <1>5 DEF Sent

\* The first packet is taken from a link.
LEMMA TakeOne ==
    ASSUME NEW c \in Chans, NEW n \in Node, NEW m \in Node, c[n][m] # <<>>,
           NEW d, d = WithoutFirst(c, n, m)
    PROVE  /\ d \in Chans
           /\ ReadOf(c[n][m]) = {Deserialize(Head(c[n][m]))} \cup ReadOf(d[n][m])
           /\ \A x, y \in Node : (x # n \/ y # m) => d[x][y] = c[x][y]
<1>1. c[n][m] \in Seq(Packets)
  BY DEF Chans
<1>2. PICK a, h : a = Tail(c[n][m]) /\ h = Deserialize(Head(c[n][m]))
  OBVIOUS
<1>3. a \in Seq(Packets) /\ ReadOf(c[n][m]) = {h} \cup ReadOf(a)
  BY <1>1, <1>2, ReadTail
<1>4. d = [c EXCEPT ![n][m] = a]
  BY <1>2 DEF WithoutFirst
<1>5. /\ d \in Chans /\ d[n][m] = a
      /\ \A x, y \in Node : (x # n \/ y # m) => d[x][y] = c[x][y]
  BY ONLY <1>3, <1>4 DEF Chans
<1>. QED
  BY <1>2, <1>3, <1>5

\* One packet more to every node in N.
SentAll(c, d, n, N, p) ==
    /\ d \in Chans
    /\ \A y \in N : ReadOf(d[n][y]) = ReadOf(c[n][y]) \cup {Deserialize(p)}
    /\ \A x, y \in Node : x # n \/ y \notin N => d[x][y] = c[x][y]

\* A packet is sent to every node in N.
LEMMA SendAll ==
    ASSUME NEW c \in Chans, NEW n \in Node, NEW N \in SUBSET Node, NEW p \in Packets
    PROVE  SentAll(c, WithAll(c, n, N, p), n, N, p)
<1>. DEFINE d == WithAll(c, n, N, p)
<1>1. \A k \in Node : c[n][k] \in Seq(Packets)
  BY DEF Chans
<1>2. \A k \in Node : /\ Append(c[n][k], p) \in Seq(Packets)
                      /\ ReadOf(Append(c[n][k], p)) = ReadOf(c[n][k]) \cup {Deserialize(p)}
  BY <1>1, ReadAppend
<1>3. PICK a : a = [k \in Node |-> IF k \in N THEN Append(c[n][k], p) ELSE c[n][k]]
  OBVIOUS
<1>4. a \in [Node -> Seq(Packets)]
  BY <1>1, <1>2, <1>3
<1>5. /\ \A k \in N : ReadOf(a[k]) = ReadOf(c[n][k]) \cup {Deserialize(p)}
      /\ \A k \in Node : k \notin N => a[k] = c[n][k]
  BY <1>2, <1>3
<1>6. d = [c EXCEPT ![n] = a]
  BY <1>3 DEF WithAll
<1>7. /\ d \in Chans /\ d[n] = a
      /\ \A x \in Node : x # n => d[x] = c[x]
  BY ONLY <1>4, <1>6 DEF Chans
<1>. QED
  BY <1>5, <1>7 DEF SentAll

-----------------------------------------------------------------------------
(* The inductive invariant.                                                *)

\* The type of each variable that a property depends on.
Types ==
    /\ nbr \in [Node -> SUBSET Node]
    /\ prob \in [Node -> [Node -> Times]]
    /\ dlsaSeq \in [Node -> Nat]
    /\ dlsa \in [Node -> Tables]
    /\ routed \in [Node -> SUBSET Node]
    /\ chan \in Chans
    /\ made \in [Node -> Seq(Tuples)]
    /\ fresh \subseteq Node

\* No node is its own neighbor.
NoLoop == \A n \in Node : n \notin nbr[n] /\ chan[n][n] = <<>>

\* The node's own DLSA is the last one it made.
OwnOK ==
    \A n \in Node : Len(made[n]) = dlsaSeq[n] /\ dlsa[n][n].seq = dlsaSeq[n] - 1

\* t is a DLSA that s made.
Genuine(s, t) == t.seq + 1 \in DOMAIN made[s] /\ t = made[s][t.seq + 1]
AllGenuine == \A n, s \in Node : dlsa[n][s] # NoDlsa => Genuine(s, dlsa[n][s])

\* What a message from n to m vouches for: a summary vector lists what n has, an
\* ACK what m has and n did not make, and a DLSA is genuine and not m's.
MsgOK(n, m, h) ==
    /\ h.type \in {4, 5, 6}
    /\ h.type \in {4, 5} => h.seq \in Nat /\ ListOK(h.part)
    /\ h.type = 4 => \A e \in Pairs(h.part) : dlsa[n][e[1]].seq >= e[2]
    /\ h.type = 5 => \A e \in Pairs(h.part) : e[1] # n /\ dlsa[m][e[1]].seq >= e[2]
    /\ h.type = 6 => /\ h.addr \in Node /\ h.addr # m
                     /\ Tuple(h) \in Tuples /\ Genuine(h.addr, Tuple(h))
Msgs == \A n, m \in Node : \A h \in InFlight(n, m) : MsgOK(n, m, h)

\* The node's own DLSA lists nodes that it has seen.
Recorded == \A n \in Node : ListedBy(dlsa[n][n]) \subseteq Seen(n)

\* What n has of s is at m, too, or is on its way: listed to m, asked for by m, or
\* sent to m.
Owed(n, m, s) ==
    \/ dlsa[m][s].seq >= dlsa[n][s].seq
    \/ \E h \in InFlight(n, m) : h.type = 4 /\ <<s, dlsa[n][s].seq>> \in Pairs(h.part)
    \/ \E h \in InFlight(m, n) : h.type = 5 /\ \E e \in Pairs(h.part) : e[1] = s
    \/ \E h \in InFlight(n, m) : h.type = 6 /\ h.addr = s /\ h.seq >= dlsa[n][s].seq
Owes == \A n \in fresh : \A m \in nbr[n] : \A s \in Node : Owed(n, m, s)

\* The inductive invariant.
IInv ==
    /\ Types /\ NoLoop /\ OwnOK /\ AllGenuine /\ Msgs /\ Recorded /\ RoutesCurrent /\ Owes

-----------------------------------------------------------------------------
(* What stays true in a step.                                              *)

\* The number of a tuple, -1 when there is none.
LEMMA SeqFacts ==
    ASSUME NEW t \in Tuples \cup {NoDlsa}
    PROVE  /\ t.seq \in Int /\ t.seq >= -1
           /\ t # NoDlsa => t \in Tuples /\ t.seq \in Nat
           /\ t.seq >= 0 => t # NoDlsa
  BY DEF Tuples, NoDlsa

\* What a table holds.
LEMMA TableFacts ==
    ASSUME Types, NEW x \in Node
    PROVE  dlsa[x] \in Tables /\ \A s \in Node : dlsa[x][s] \in Tuples \cup {NoDlsa}
  BY DEF Types, Tables

\* No number in a table gets smaller, and what was genuine stays so.
Grows ==
    /\ \A x, s \in Node : dlsa[x][s].seq <= dlsa'[x][s].seq
    /\ \A s \in Node, t \in Tuples : Genuine(s, t) => Genuine(s, t)'

\* A step that changes no table.
LEMMA SameGrows ==
    ASSUME Types, UNCHANGED <<dlsa, made>>
    PROVE  Grows
<1>1. \A x, s \in Node : dlsa[x][s].seq \in Int
  BY TableFacts, SeqFacts
<1>. QED
  BY <1>1 DEF Grows, Genuine

\* What a message vouches for stays true.
LEMMA MsgKept ==
    ASSUME Types, Types', Grows, NEW x \in Node, NEW y \in Node, NEW h, MsgOK(x, y, h)
    PROVE  MsgOK(x, y, h)'
<1>1. \A z, s \in Node : dlsa[z][s].seq \in Int /\ dlsa'[z][s].seq \in Int
  <2>1. \A z, s \in Node : dlsa[z][s] \in Tuples \cup {NoDlsa}
    BY TableFacts
  <2>2. \A z, s \in Node : dlsa'[z][s] \in Tuples \cup {NoDlsa}
    BY DEF Types, Tables
  <2>. QED
    BY <2>1, <2>2, SeqFacts
<1>2. h.type \in {4, 5} => \A e \in Pairs(h.part) : e[1] \in Node /\ e[2] \in Nat
  BY PairsFinite DEF MsgOK
<1>3. h.type = 4 => \A e \in Pairs(h.part) : dlsa'[x][e[1]].seq >= e[2]
  <2>. SUFFICES ASSUME h.type = 4, NEW e \in Pairs(h.part)
                PROVE  dlsa'[x][e[1]].seq >= e[2]
    OBVIOUS
  <2>1. e[1] \in Node /\ e[2] \in Nat /\ dlsa[x][e[1]].seq >= e[2]
    BY <1>2 DEF MsgOK
  <2>. QED
    BY <1>1, <2>1 DEF Grows
<1>4. h.type = 5 => \A e \in Pairs(h.part) : dlsa'[y][e[1]].seq >= e[2]
  <2>. SUFFICES ASSUME h.type = 5, NEW e \in Pairs(h.part)
                PROVE  dlsa'[y][e[1]].seq >= e[2]
    OBVIOUS
  <2>1. e[1] \in Node /\ e[2] \in Nat /\ dlsa[y][e[1]].seq >= e[2]
    BY <1>2 DEF MsgOK
  <2>. QED
    BY <1>1, <2>1 DEF Grows
<1>5. h.type = 6 => Genuine(h.addr, Tuple(h))'
  BY DEF MsgOK, Grows
<1>. QED
  BY <1>3, <1>4, <1>5 DEF MsgOK

\* All messages: the ones that stay, and the new ones.
LEMMA MsgsKept ==
    ASSUME Types, Types', Grows, Msgs,
           \A x, y \in Node : \A h \in InFlight(x, y)' :
              h \in InFlight(x, y) \/ MsgOK(x, y, h)'
    PROVE  Msgs'
<1>. SUFFICES ASSUME NEW x \in Node, NEW y \in Node, NEW h \in InFlight(x, y)'
              PROVE  MsgOK(x, y, h)'
  BY DEF Msgs
<1>1. CASE h \in InFlight(x, y)
  <2>1. MsgOK(x, y, h)
    BY <1>1 DEF Msgs
  <2>. QED
    BY <2>1, MsgKept
<1>. QED
  BY <1>1

\* What a node has stays genuine.
LEMMA GenuineKept ==
    ASSUME Types, Grows, AllGenuine, NEW x \in Node, NEW s \in Node,
           dlsa'[x][s] = dlsa[x][s], dlsa'[x][s] # NoDlsa
    PROVE  Genuine(s, dlsa[x][s])'
<1>1. PICK t : t = dlsa[x][s]
  OBVIOUS
<1>2. t \in Tuples /\ Genuine(s, t)
  <2>1. t # NoDlsa
    BY <1>1
  <2>. QED
    BY <1>1, <2>1, TableFacts DEF AllGenuine
<1>3. Genuine(s, t)'
  BY <1>2 DEF Grows
<1>. QED
  BY <1>1, <1>3 DEF Genuine

\* Nothing that is owed is lost while the messages stay.
LEMMA OwedKept ==
    ASSUME Types, Types', Grows, NEW x \in Node, NEW y \in Node, NEW s \in Node,
           Owed(x, y, s), dlsa'[x][s] = dlsa[x][s],
           InFlight(x, y) \subseteq InFlight(x, y)', InFlight(y, x) \subseteq InFlight(y, x)'
    PROVE  Owed(x, y, s)'
<1>1. /\ dlsa[x][s].seq \in Int /\ dlsa[y][s].seq \in Int /\ dlsa'[y][s].seq \in Int
      /\ dlsa[y][s].seq <= dlsa'[y][s].seq
  <2>1. dlsa'[y][s] \in Tuples \cup {NoDlsa}
    BY DEF Types, Tables
  <2>. QED
    BY <2>1, TableFacts, SeqFacts DEF Grows
<1>2. CASE dlsa[y][s].seq >= dlsa[x][s].seq
  BY <1>1, <1>2 DEF Owed
<1>3. CASE \E h \in InFlight(x, y) : h.type = 4 /\ <<s, dlsa[x][s].seq>> \in Pairs(h.part)
  BY <1>3 DEF Owed
<1>4. CASE \E h \in InFlight(y, x) : h.type = 5 /\ \E e \in Pairs(h.part) : e[1] = s
  BY <1>4 DEF Owed
<1>5. CASE \E h \in InFlight(x, y) : h.type = 6 /\ h.addr = s /\ h.seq >= dlsa[x][s].seq
  BY <1>5 DEF Owed
<1>. QED
  BY <1>2, <1>3, <1>4, <1>5 DEF Owed

\* A summary vector of the table that x has after the step vouches for what x has,
\* and pays all that x owes.
LEMMA Announced ==
    ASSUME Types', NEW x \in Node, NEW y \in Node, NEW r,
           r.type = 4, r.seq = 0, ListOK(r.part), Pairs(r.part) = Numbered(dlsa'[x])
    PROVE  /\ MsgOK(x, y, r)'
           /\ r \in InFlight(x, y)' => \A s \in Node : Owed(x, y, s)'
<1>1. \A z, s \in Node : dlsa'[z][s] \in Tuples \cup {NoDlsa}
  BY DEF Types, Tables
<1>2. \A z, s \in Node : dlsa'[z][s].seq \in Int /\ dlsa'[z][s].seq >= -1
  BY <1>1, SeqFacts
<1>3. MsgOK(x, y, r)'
  <2>1. \A e \in Pairs(r.part) : e[1] \in Node /\ dlsa'[x][e[1]].seq = e[2]
    BY DEF Numbered
  <2>2. \A e \in Pairs(r.part) : dlsa'[x][e[1]].seq >= e[2]
    BY <1>2, <2>1
  <2>. QED
    BY <2>2 DEF MsgOK
<1>4. ASSUME r \in InFlight(x, y)', NEW s \in Node PROVE Owed(x, y, s)'
  <2>1. CASE dlsa'[x][s] = NoDlsa
    <3>1. dlsa'[x][s].seq = -1
      BY <2>1 DEF NoDlsa
    <3>2. dlsa'[y][s].seq >= dlsa'[x][s].seq
      BY <1>2, <3>1
    <3>. QED
      BY <3>2 DEF Owed
  <2>2. CASE dlsa'[x][s] # NoDlsa
    <3>1. <<s, dlsa'[x][s].seq>> \in Pairs(r.part)
      BY <2>2 DEF Numbered
    <3>. QED
      BY <1>4, <3>1 DEF Owed
  <2>. QED
    BY <2>1, <2>2
<1>. QED
  BY <1>3, <1>4

\* The DTN table with more neighbors.
LEMMA ReachMore ==
    ASSUME NEW n, NEW A, NEW B, A \subseteq B, NEW tab
    PROVE  Reach(n, A, tab) \subseteq Reach(n, B, tab)
  BY DEF Reach

\* A step that changes neither the tables nor the routes.
LEMMA RoutesKept ==
    ASSUME Recorded, RoutesCurrent, UNCHANGED <<prob, dlsa, routed>>
    PROVE  Recorded' /\ RoutesCurrent'
<1>1. \A n \in Node : Seen(n)' = Seen(n)
  BY DEF Seen
<1>. QED
  BY <1>1 DEF Recorded, RoutesCurrent

\* A DLSA is entered that is not the node's own, or lists what the node has seen.
LEMMA RoutesEntered ==
    ASSUME Types, Recorded, RoutesCurrent, NEW n \in Node, NEW h, h.addr \in Node,
           InsertDLSATuple(n, h), UNCHANGED prob,
           h.addr = n => ListedBy(Tuple(h)) \subseteq Seen(n)
    PROVE  Recorded' /\ RoutesCurrent'
<1>1. \A x \in Node : Seen(x)' = Seen(x)
  BY DEF Seen
<1>2. /\ dlsa'[n] = Entered(n, h) /\ routed'[n] = Reach(n, Seen(n), Entered(n, h))
      /\ \A x \in Node : x # n => dlsa'[x] = dlsa[x] /\ routed'[x] = routed[x]
  BY DEF InsertDLSATuple, Types
<1>3. ListedBy(dlsa'[n][n]) \subseteq Seen(n)
  <2>1. dlsa[n] \in Tables
    BY TableFacts
  <2>2. CASE h.addr = n
    BY <1>2, <2>1, <2>2 DEF Entered, Tables
  <2>3. CASE h.addr # n
    BY <1>2, <2>1, <2>3 DEF Entered, Tables, Recorded
  <2>. QED
    BY <2>2, <2>3
<1>4. Recorded'
  BY <1>1, <1>2, <1>3 DEF Recorded
<1>5. ASSUME NEW x \in Node
      PROVE  /\ routed'[x] \subseteq Reach(x, Seen(x)', dlsa'[x])
             /\ Reach(x, ListedBy(dlsa'[x][x]), dlsa'[x]) \subseteq routed'[x]
  <2>1. CASE x = n
    <3>1. Reach(n, ListedBy(dlsa'[n][n]), dlsa'[n]) \subseteq Reach(n, Seen(n), dlsa'[n])
      BY <1>3, ReachMore
    <3>. QED
      BY <1>1, <1>2, <2>1, <3>1
  <2>2. CASE x # n
    BY <1>1, <1>2, <2>2 DEF RoutesCurrent
  <2>. QED
    BY <2>1, <2>2
<1>. QED
  BY <1>4, <1>5 DEF RoutesCurrent

-----------------------------------------------------------------------------
(* The steps.                                                              *)

\* The invariant holds at the start.
LEMMA InitInv ==
    ASSUME Init
    PROVE  IInv
<1>1. Types
  <2>1. chan \in Chans
    BY DEF Init, Chans
  <2>2. dlsa \in [Node -> Tables]
    BY DEF Init, Tables
  <2>3. prob \in [Node -> [Node -> Times]]
    BY DEF Init, Times
  <2>4. made \in [Node -> Seq(Tuples)]
    BY DEF Init
  <2>. QED
    BY <2>1, <2>2, <2>3, <2>4 DEF Init, Types
<1>2. NoLoop
  BY DEF Init, NoLoop
<1>3. OwnOK
  BY DEF Init, OwnOK, NoDlsa
<1>4. AllGenuine
  BY DEF Init, AllGenuine
<1>5. Msgs
  <2>1. \A n, m \in Node : InFlight(n, m) = {}
    BY DEF Init, InFlight
  <2>. QED
    BY <2>1 DEF Msgs
<1>6. Recorded
  BY DEF Init, Recorded, ListedBy, NoDlsa
<1>7. RoutesCurrent
  <2>1. \A n \in Node : dlsa[n] = [s \in Node |-> NoDlsa] /\ routed[n] = {}
    BY DEF Init
  <2>2. \A n, s \in Node : ListedBy(dlsa[n][s]) = {}
    BY <2>1 DEF ListedBy, NoDlsa
  <2>3. \A n \in Node : Closed({}, n, dlsa[n])
    BY DEF Closed
  <2>4. \A n \in Node : Reach(n, {}, dlsa[n]) = {}
    BY <2>3 DEF Reach
  <2>. QED
    BY <2>1, <2>2, <2>4 DEF RoutesCurrent
<1>8. Owes
  BY DEF Init, Owes
<1>. QED
  BY <1>1, <1>2, <1>3, <1>4, <1>5, <1>6, <1>7, <1>8 DEF IInv

\* A step that touches no table and no link.
LEMMA TablesSame ==
    ASSUME IInv, Types', UNCHANGED <<dlsaSeq, dlsa, chan, made>>
    PROVE  OwnOK' /\ AllGenuine' /\ Msgs'
<1>1. Grows
  BY SameGrows DEF IInv
<1>2. OwnOK'
  BY DEF IInv, OwnOK
<1>3. AllGenuine'
  BY DEF IInv, AllGenuine, Genuine
<1>4. \A x, y \in Node : InFlight(x, y)' = InFlight(x, y)
  BY DEF InFlight
<1>5. Msgs'
  BY <1>1, <1>4, MsgsKept DEF IInv
<1>. QED
  BY <1>2, <1>3, <1>5

\* Nothing happens.
LEMMA StepStutter ==
    ASSUME IInv, UNCHANGED vars
    PROVE  IInv'
<1>1. Types' /\ NoLoop'
  BY DEF IInv, vars, Types, NoLoop
<1>2. OwnOK' /\ AllGenuine' /\ Msgs'
  BY <1>1, TablesSame DEF vars
<1>3. Recorded' /\ RoutesCurrent'
  BY RoutesKept DEF IInv, vars
<1>4. Owes'
  BY DEF IInv, vars, Owes, Owed, InFlight
<1>. QED
  BY <1>1, <1>2, <1>3, <1>4 DEF IInv

\* A neighbor that is gone is owed nothing.
LEMMA StepExpire ==
    ASSUME IInv, NEW n \in Node, NEW m \in Node, NeighborTupleTimerExpire(n, m)
    PROVE  IInv'
<1>1. Types' /\ NoLoop'
  BY DEF IInv, NeighborTupleTimerExpire, Types, NoLoop
<1>2. OwnOK' /\ AllGenuine' /\ Msgs'
  BY <1>1, TablesSame DEF NeighborTupleTimerExpire
<1>3. Recorded' /\ RoutesCurrent'
  BY RoutesKept DEF IInv, NeighborTupleTimerExpire
<1>4. Owes'
  <2>1. \A x \in Node : nbr'[x] \subseteq nbr[x]
    BY DEF IInv, NeighborTupleTimerExpire, Types
  <2>2. \A x, y, s \in Node : Owed(x, y, s) => Owed(x, y, s)'
    BY DEF NeighborTupleTimerExpire, Owed, InFlight
  <2>3. fresh' = fresh /\ fresh \subseteq Node /\ \A x \in Node : nbr[x] \subseteq Node
    BY DEF IInv, NeighborTupleTimerExpire, Types
  <2>. QED
    BY <2>1, <2>2, <2>3 DEF IInv, Owes
<1>. QED
  BY <1>1, <1>2, <1>3, <1>4 DEF IInv

\* A node that was seen once is seen for ever.
LEMMA StepUpdate ==
    ASSUME IInv, NEW n \in Node, UpdateTimerExpire(n)
    PROVE  IInv'
<1>1. /\ Updated(n) \in [Node -> Times]
      /\ \A m \in Node : prob[n][m].on > 0 => Updated(n)[m].on > 0
  <2>1. \A m \in Node : prob[n][m] \in Times
    BY DEF IInv, Types
  <2>. QED
    BY <2>1 DEF Updated, Times
<1>2. /\ prob' \in [Node -> [Node -> Times]] /\ prob'[n] = Updated(n)
      /\ \A x \in Node : x # n => prob'[x] = prob[x]
  BY <1>1 DEF IInv, Types, UpdateTimerExpire
<1>3. Types' /\ NoLoop'
  BY <1>2 DEF IInv, UpdateTimerExpire, Types, NoLoop
<1>4. OwnOK' /\ AllGenuine' /\ Msgs'
  BY <1>3, TablesSame DEF UpdateTimerExpire
<1>5. \A x \in Node : Seen(x) \subseteq Seen(x)'
  BY <1>1, <1>2 DEF Seen
<1>6. dlsa' = dlsa /\ routed' = routed
  BY DEF UpdateTimerExpire
<1>7. Recorded'
  BY <1>5, <1>6 DEF IInv, Recorded
<1>8. RoutesCurrent'
  <2>1. ASSUME NEW x \in Node PROVE Reach(x, Seen(x), dlsa[x]) \subseteq Reach(x, Seen(x)', dlsa[x])
    BY <1>5, ReachMore
  <2>. QED
    BY <1>6, <2>1 DEF IInv, RoutesCurrent
<1>9. Owes'
  BY DEF UpdateTimerExpire, IInv, Owes, Owed, InFlight
<1>. QED
  BY <1>3, <1>4, <1>7, <1>8, <1>9 DEF IInv

\* What is on a link is what is read from its packets.
LEMMA Reads ==
    ASSUME NEW x, NEW y
    PROVE  InFlight(x, y) = ReadOf(chan[x][y]) /\ InFlight(x, y)' = ReadOf(chan'[x][y])
  BY DEF InFlight, ReadOf

\* A step that leaves the tables alone: all but Msgs and Owes.
LEMMA LinksChange ==
    ASSUME IInv, UNCHANGED <<prob, dlsaSeq, dlsa, routed, made>>,
           nbr' \in [Node -> SUBSET Node], chan' \in Chans, fresh' \subseteq fresh,
           \A x \in Node : x \notin nbr'[x] /\ chan'[x][x] = <<>>
    PROVE  Types' /\ NoLoop' /\ OwnOK' /\ AllGenuine' /\ Recorded' /\ RoutesCurrent' /\ Grows
<1>1. Types'
  BY DEF IInv, Types
<1>2. NoLoop'
  BY DEF NoLoop
<1>3. OwnOK' /\ AllGenuine'
  BY DEF IInv, OwnOK, AllGenuine, Genuine
<1>4. Recorded' /\ RoutesCurrent'
  BY RoutesKept DEF IInv
<1>5. Grows
  BY SameGrows DEF IInv
<1>. QED
  BY <1>1, <1>2, <1>3, <1>4, <1>5

\* What n owed m, or m owed n, while the message h from m to n was on its way.
StoodFor(x, y, s, m, n, h) ==
    \/ x = m /\ y = n /\ h.type = 4 /\ <<s, dlsa[x][s].seq>> \in Pairs(h.part)
    \/ y = m /\ x = n /\ h.type = 5 /\ \E e \in Pairs(h.part) : e[1] = s
    \/ x = m /\ y = n /\ h.type = 6 /\ h.addr = s /\ h.seq >= dlsa[x][s].seq

\* When the message h from m is taken by n, only what it stood for may be open.
LEMMA OwedPopped ==
    ASSUME Types, Types', Grows, NEW x \in Node, NEW y \in Node, NEW s \in Node,
           NEW m, NEW n, NEW h,
           Owed(x, y, s), dlsa'[x][s] = dlsa[x][s],
           \A g \in InFlight(x, y) : g \in InFlight(x, y)' \/ (x = m /\ y = n /\ g = h),
           \A g \in InFlight(y, x) : g \in InFlight(y, x)' \/ (y = m /\ x = n /\ g = h)
    PROVE  Owed(x, y, s)' \/ StoodFor(x, y, s, m, n, h)
<1>1. /\ dlsa[x][s].seq \in Int /\ dlsa[y][s].seq \in Int /\ dlsa'[y][s].seq \in Int
      /\ dlsa[y][s].seq <= dlsa'[y][s].seq
  <2>1. dlsa'[y][s] \in Tuples \cup {NoDlsa}
    BY DEF Types, Tables
  <2>. QED
    BY <2>1, TableFacts, SeqFacts DEF Grows
<1>2. CASE dlsa[y][s].seq >= dlsa[x][s].seq
  BY <1>1, <1>2 DEF Owed
<1>3. CASE \E g \in InFlight(x, y) : g.type = 4 /\ <<s, dlsa[x][s].seq>> \in Pairs(g.part)
  BY <1>3 DEF Owed, StoodFor
<1>4. CASE \E g \in InFlight(y, x) : g.type = 5 /\ \E e \in Pairs(g.part) : e[1] = s
  BY <1>4 DEF Owed, StoodFor
<1>5. CASE \E g \in InFlight(x, y) : g.type = 6 /\ g.addr = s /\ g.seq >= dlsa[x][s].seq
  BY <1>5 DEF Owed, StoodFor
<1>. QED
  BY <1>2, <1>3, <1>4, <1>5 DEF Owed

\* A lost packet: no node is fresh any more.
LEMMA StepLose ==
    ASSUME IInv, NEW n \in Node, NEW m \in Node, Lose(n, m)
    PROVE  IInv'
<1>1. /\ chan' \in Chans
      /\ ReadOf(chan[n][m]) = {Deserialize(Head(chan[n][m]))} \cup ReadOf(chan'[n][m])
      /\ \A x, y \in Node : (x # n \/ y # m) => chan'[x][y] = chan[x][y]
  <2>1. chan \in Chans /\ chan[n][m] # <<>> /\ chan' = WithoutFirst(chan, n, m)
    BY DEF IInv, Types, Lose, WithoutFirst
  <2>. QED
    BY <2>1, TakeOne
<1>2. \A x \in Node : x \notin nbr'[x] /\ chan'[x][x] = <<>>
  <2>1. n # m
    BY DEF IInv, NoLoop, Lose
  <2>. QED
    BY <1>1, <2>1 DEF IInv, NoLoop, Lose
<1>3. Types' /\ NoLoop' /\ OwnOK' /\ AllGenuine' /\ Recorded' /\ RoutesCurrent' /\ Grows
  BY <1>1, <1>2, LinksChange DEF IInv, Types, Lose
<1>4. \A x, y \in Node : InFlight(x, y)' \subseteq InFlight(x, y)
  BY <1>1, Reads
<1>5. Msgs'
  BY <1>3, <1>4, MsgsKept DEF IInv
<1>6. Owes'
  BY DEF Lose, Owes
<1>. QED
  BY <1>3, <1>5, <1>6 DEF IInv

\* A new neighbor gets a summary vector.
LEMMA StepLP ==
    ASSUME IInv, NEW n \in Node, NEW m \in Node, RecvLP(n, m)
    PROVE  IInv'
<1>1. n # m
  BY DtnAssumption DEF RecvLP
<1>2. dlsa[n] \in Tables
  BY TableFacts DEF IInv
<1>3. PICK h \in SendSummaryVector(n, dlsa[n]) :
         chan' = [chan EXCEPT ![n][m] = Append(@, Serialize(h))]
  BY DEF RecvLP
<1>4. PICK p, r : p = Serialize(h) /\ r = Deserialize(p)
  OBVIOUS
<1>5. /\ p \in Packets /\ r.type = 4 /\ r.seq = 0 /\ ListOK(r.part)
      /\ Pairs(r.part) = Numbered(dlsa[n])
  BY <1>2, <1>4, VectorSent
<1>6. /\ chan' \in Chans
      /\ ReadOf(chan'[n][m]) = ReadOf(chan[n][m]) \cup {r}
      /\ \A x, y \in Node : (x # n \/ y # m) => chan'[x][y] = chan[x][y]
  <2>1. chan \in Chans /\ chan' = WithOne(chan, n, m, p)
    BY <1>3, <1>4 DEF IInv, Types, WithOne
  <2>2. p \in Packets
    BY <1>5
  <2>3. PICK c, d : c = chan /\ d = chan'
    OBVIOUS
  <2>4. c \in Chans /\ n \in Node /\ m \in Node /\ d = WithOne(c, n, m, p)
    BY <2>1, <2>3
  <2>5. Sent(c, d, n, m, {Deserialize(p)})
    BY ONLY <2>2, <2>4, SendOne
  <2>. QED
    BY <1>4, <2>3, <2>5 DEF Sent
<1>7. /\ nbr' \in [Node -> SUBSET Node]
      /\ \A x \in Node : nbr'[x] \subseteq nbr[x] \cup (IF x = n THEN {m} ELSE {})
  BY DEF IInv, Types, RecvLP
<1>8. \A x \in Node : x \notin nbr'[x] /\ chan'[x][x] = <<>>
  BY <1>1, <1>6, <1>7 DEF IInv, NoLoop
<1>9. Types' /\ NoLoop' /\ OwnOK' /\ AllGenuine' /\ Recorded' /\ RoutesCurrent' /\ Grows
  BY <1>6, <1>7, <1>8, LinksChange DEF RecvLP
<1>10. /\ InFlight(n, m)' = InFlight(n, m) \cup {r}
       /\ \A x, y \in Node : InFlight(x, y) \subseteq InFlight(x, y)'
       /\ \A x, y \in Node : (x # n \/ y # m) => InFlight(x, y)' = InFlight(x, y)
  BY <1>6, Reads
<1>11. dlsa' = dlsa /\ fresh' = fresh
  BY DEF RecvLP
<1>12. MsgOK(n, m, r)' /\ \A s \in Node : Owed(n, m, s)'
  BY <1>5, <1>9, <1>10, <1>11, Announced
<1>13. Msgs'
  BY <1>9, <1>10, <1>12, MsgsKept DEF IInv
<1>14. Owes'
  <2>. SUFFICES ASSUME NEW x \in fresh, NEW y \in nbr'[x], NEW s \in Node
                PROVE  Owed(x, y, s)'
    BY <1>11 DEF Owes
  <2>1. x \in Node /\ y \in Node
    BY <1>7 DEF IInv, Types
  <2>2. CASE x = n /\ y = m
    BY <1>12, <2>2
  <2>3. CASE ~(x = n /\ y = m)
    <3>1. y \in nbr[x]
      BY <1>7, <2>1, <2>3
    <3>2. Owed(x, y, s)
      BY <3>1 DEF IInv, Owes
    <3>. QED
      BY <1>9, <1>10, <1>11, <2>1, <3>2, OwedKept DEF IInv
  <2>. QED
    BY <2>2, <2>3
<1>. QED
  BY <1>9, <1>13, <1>14 DEF IInv

\* The message that n takes from m, and what is left.
LEMMA Taken ==
    ASSUME IInv, NEW n \in Node, NEW m \in Node, NEW h \in Received(n, m)
    PROVE  /\ m # n /\ MsgOK(m, n, h)
           /\ Popped(n, m) \in Chans
           /\ ReadOf(chan[m][n]) = {h} \cup ReadOf(Popped(n, m)[m][n])
           /\ \A x, y \in Node : (x # m \/ y # n) => Popped(n, m)[x][y] = chan[x][y]
<1>1. chan[m][n] # <<>> /\ h = Deserialize(Head(chan[m][n]))
  BY DEF Received
<1>2. chan \in Chans /\ Popped(n, m) = WithoutFirst(chan, m, n)
  BY DEF IInv, Types, Popped, WithoutFirst
<1>3. /\ Popped(n, m) \in Chans
      /\ ReadOf(chan[m][n]) = {h} \cup ReadOf(Popped(n, m)[m][n])
      /\ \A x, y \in Node : (x # m \/ y # n) => Popped(n, m)[x][y] = chan[x][y]
  BY <1>1, <1>2, TakeOne
<1>4. m # n
  BY <1>1 DEF IInv, NoLoop
<1>5. h \in InFlight(m, n)
  BY <1>3, Reads
<1>6. MsgOK(m, n, h)
  BY <1>5 DEF IInv, Msgs
<1>. QED
  BY <1>3, <1>4, <1>6

\* A summary vector is answered: what n lacks of it is asked for.
LEMMA StepVector ==
    ASSUME IInv, NEW n \in Node, NEW m \in Node, NEW h \in Received(n, m),
           RecvSummaryVector(n, m, h)
    PROVE  IInv'
<1>1. PICK c : c = Popped(n, m)
  OBVIOUS
<1>2. /\ m # n /\ MsgOK(m, n, h) /\ c \in Chans
      /\ ReadOf(chan[m][n]) = {h} \cup ReadOf(c[m][n])
      /\ \A x, y \in Node : (x # m \/ y # n) => c[x][y] = chan[x][y]
  BY <1>1, Taken
<1>3. h.type = 4 /\ h.seq \in Nat /\ ListOK(h.part)
  BY <1>2 DEF RecvSummaryVector, MsgOK
<1>4. PICK g \in SendSummaryVectorACK(n, dlsa[n], h) :
         chan' = WithOne(c, n, m, Serialize(g))
  BY <1>1 DEF RecvSummaryVector, WithOne
<1>5. PICK p, r : p = Serialize(g) /\ r = Deserialize(p)
  OBVIOUS
<1>6. /\ p \in Packets /\ r.type = 5 /\ r.seq \in Nat /\ ListOK(r.part)
      /\ Pairs(r.part) = Lacking(n, dlsa[n], h.part)
  BY <1>3, <1>5, AckSent
<1>7. /\ chan' \in Chans
      /\ ReadOf(chan'[n][m]) = ReadOf(c[n][m]) \cup {r}
      /\ \A x, y \in Node : (x # n \/ y # m) => chan'[x][y] = c[x][y]
  <2>1. PICK d : d = chan'
    OBVIOUS
  <2>2. /\ c \in Chans /\ n \in Node /\ m \in Node /\ p \in Packets
        /\ d = WithOne(c, n, m, p)
    BY <1>2, <1>4, <1>5, <1>6, <2>1
  <2>3. Sent(c, d, n, m, {Deserialize(p)})
    BY ONLY <2>2, SendOne
  <2>. QED
    BY <1>5, <2>1, <2>3 DEF Sent
<1>8. \A x \in Node : x \notin nbr'[x] /\ chan'[x][x] = <<>>
  BY <1>2, <1>7 DEF IInv, NoLoop, RecvSummaryVector
<1>9. Types' /\ NoLoop' /\ OwnOK' /\ AllGenuine' /\ Recorded' /\ RoutesCurrent' /\ Grows
  BY <1>7, <1>8, LinksChange DEF IInv, Types, RecvSummaryVector
<1>10. /\ InFlight(n, m)' = InFlight(n, m) \cup {r}
       /\ \A k \in InFlight(m, n) : k \in InFlight(m, n)' \/ k = h
       /\ InFlight(m, n)' \subseteq InFlight(m, n)
       /\ \A x, y \in Node : ~(x = n /\ y = m) /\ ~(x = m /\ y = n)
                                => InFlight(x, y)' = InFlight(x, y)
  BY <1>2, <1>7, Reads
<1>11. dlsa' = dlsa /\ fresh' = fresh /\ nbr' = nbr
  BY DEF RecvSummaryVector
<1>12. \A e \in Pairs(h.part) : e[1] \in Node /\ e[2] \in Nat /\ dlsa[m][e[1]].seq >= e[2]
  BY <1>2, <1>3, PairsFinite DEF MsgOK
<1>13. MsgOK(n, m, r)'
  BY <1>6, <1>11, <1>12 DEF MsgOK, Lacking
<1>14. Msgs'
  BY <1>9, <1>10, <1>13, MsgsKept DEF IInv
<1>15. ASSUME NEW s \in Node, <<s, dlsa[m][s].seq>> \in Pairs(h.part)
       PROVE  Owed(m, n, s)'
  <2>1. /\ dlsa[m][s] \in Tuples \cup {NoDlsa} /\ dlsa[n][s] \in Tuples \cup {NoDlsa}
        /\ dlsa[m][s].seq \in Int /\ dlsa[n][s].seq \in Int
    BY TableFacts, SeqFacts DEF IInv
  <2>2. CASE FindDLSA(dlsa[n], s, dlsa[m][s].seq)
    BY <1>11, <2>2 DEF FindDLSA, Owed
  <2>3. CASE s = n
    <3>1. dlsa[n][n].seq = Len(made[n]) - 1 /\ Len(made[n]) \in Nat
      BY DEF IInv, OwnOK, Types
    <3>2. dlsa[m][n] # NoDlsa => dlsa[m][n].seq + 1 \in DOMAIN made[n]
      BY DEF IInv, AllGenuine, Genuine
    <3>3. dlsa[m][n] # NoDlsa => dlsa[m][n].seq + 1 <= Len(made[n])
      BY <3>2 DEF IInv, Types
    <3>4. dlsa[m][n] = NoDlsa => dlsa[m][n].seq = -1
      BY DEF NoDlsa
    <3>5. dlsa[n][n].seq >= dlsa[m][n].seq
      BY <2>1, <2>3, <3>1, <3>3, <3>4
    <3>. QED
      BY <1>11, <2>3, <3>5 DEF Owed
  <2>4. CASE s # n /\ ~FindDLSA(dlsa[n], s, dlsa[m][s].seq)
    <3>1. PICK e : e = <<s, dlsa[m][s].seq>>
      OBVIOUS
    <3>2. e \in Pairs(r.part) /\ e[1] = s
      BY <1>6, <1>15, <2>4, <3>1 DEF Lacking
    <3>3. r \in InFlight(n, m)'
      BY <1>10
    <3>. QED
      BY <1>6, <3>2, <3>3 DEF Owed
  <2>. QED
    BY <2>2, <2>3, <2>4
<1>16. Owes'
  <2>. SUFFICES ASSUME NEW x \in fresh, NEW y \in nbr[x], NEW s \in Node
                PROVE  Owed(x, y, s)'
    BY <1>11 DEF Owes
  <2>1. x \in Node /\ y \in Node /\ Owed(x, y, s)
    BY DEF IInv, Types, Owes
  <2>2. /\ \A k \in InFlight(x, y) : k \in InFlight(x, y)' \/ (x = m /\ y = n /\ k = h)
        /\ \A k \in InFlight(y, x) : k \in InFlight(y, x)' \/ (y = m /\ x = n /\ k = h)
    BY <1>2, <1>10, <2>1
  <2>3. Owed(x, y, s)' \/ StoodFor(x, y, s, m, n, h)
    BY <1>9, <1>11, <2>1, <2>2, OwedPopped DEF IInv
  <2>. QED
    BY <1>3, <1>15, <2>3 DEF StoodFor
<1>. QED
  BY <1>9, <1>14, <1>16 DEF IInv

\* What is sent when DLSAs are asked for that n has.
LEMMA AskedFor ==
    ASSUME NEW n, NEW h, ListOK(h.part),
           \A i \in 1 .. h.part.length : dlsa[n][h.part.addrs[i]] \in Tuples
    PROVE  /\ Asked(n, h) \in Seq(Packets)
           /\ \A g \in ReadOf(Asked(n, h)) : \E i \in 1 .. h.part.length :
                 g = SendDLSA(h.part.addrs[i], dlsa[n][h.part.addrs[i]])
           /\ \A i \in 1 .. h.part.length :
                 SendDLSA(h.part.addrs[i], dlsa[n][h.part.addrs[i]]) \in ReadOf(Asked(n, h))
<1>1. PICK A, l, f : /\ A = h.part.addrs /\ l = h.part.length
                     /\ f = [i \in 1 .. l |-> SendDLSA(A[i], dlsa[n][A[i]])]
  OBVIOUS
<1>2. A \in Seq(Node) /\ l \in Nat /\ DOMAIN A = 1 .. l
  BY <1>1 DEF ListOK
<1>3. \A i \in 1 .. l : /\ f[i] = SendDLSA(A[i], dlsa[n][A[i]])
                        /\ Serialize(f[i]) \in Packets
                        /\ Deserialize(Serialize(f[i])) = f[i]
  <2>. TAKE i \in 1 .. l
  <2>1. PICK s, t : s = A[i] /\ t = dlsa[n][A[i]]
    OBVIOUS
  <2>2. s \in Node /\ t \in Tuples /\ f[i] = SendDLSA(s, t)
    BY <1>1, <1>2, <2>1
  <2>3. Serialize(SendDLSA(s, t)) \in Packets
    BY <2>2, DlsaSent
  <2>4. Deserialize(Serialize(SendDLSA(s, t))) = SendDLSA(s, t)
    BY <2>2, DlsaSent
  <2>. QED
    BY <2>1, <2>2, <2>3, <2>4
<1>4. PICK q : q = Asked(n, h)
  OBVIOUS
<1>5. DOMAIN q = 1 .. l /\ \A i \in 1 .. l : q[i] = Serialize(f[i])
  BY <1>1, <1>2, <1>3, <1>4 DEF Asked
<1>6. q \in Seq(Packets) /\ Len(q) = l
  <2>1. q = [i \in 1 .. l |-> Serialize(f[i])]
    BY <1>1, <1>2, <1>3, <1>4 DEF Asked
  <2>. QED
    BY <1>2, <1>3, <2>1
<1>7. \A i \in 1 .. l : Deserialize(q[i]) = f[i]
  BY <1>3, <1>5
<1>8. /\ \A g \in ReadOf(q) : \E i \in 1 .. l : g = f[i]
      /\ \A i \in 1 .. l : f[i] \in ReadOf(q)
  BY <1>6, <1>7 DEF ReadOf
<1>. QED
  BY <1>1, <1>3, <1>4, <1>6, <1>8

\* The DLSAs asked for are sent as n has them now.
LEMMA StepAck ==
    ASSUME IInv, NEW n \in Node, NEW m \in Node, NEW h \in Received(n, m),
           ProcessSummaryVectorACK(n, m, h)
    PROVE  IInv'
<1>1. PICK c, q : c = Popped(n, m) /\ q = Asked(n, h)
  OBVIOUS
<1>2. /\ m # n /\ MsgOK(m, n, h) /\ c \in Chans
      /\ ReadOf(chan[m][n]) = {h} \cup ReadOf(c[m][n])
      /\ \A x, y \in Node : (x # m \/ y # n) => c[x][y] = chan[x][y]
  BY <1>1, Taken
<1>3. h.type = 5 /\ ListOK(h.part)
  BY <1>2 DEF ProcessSummaryVectorACK, MsgOK
<1>4. \A i \in 1 .. h.part.length :
         LET s == h.part.addrs[i] IN s \in Node /\ s # m /\ dlsa[n][s] \in Tuples
  <2>. TAKE i \in 1 .. h.part.length
  <2>1. PICK s, k : s = h.part.addrs[i] /\ k = h.part.nums[i]
    OBVIOUS
  <2>2. s \in Node /\ k \in Nat
    BY <1>3, <2>1, PairAt
  <2>3. s # m /\ dlsa[n][s].seq >= k
    <3>1. PICK e \in Pairs(h.part) : e[1] = s /\ e[2] = k
      BY <1>3, <2>1, PairAt
    <3>. QED
      BY <1>2, <1>3, <3>1 DEF MsgOK
  <2>4. dlsa[n][s] \in Tuples
    BY <2>2, <2>3, TableFacts, SeqFacts DEF IInv
  <2>. QED
    BY <2>1, <2>2, <2>3, <2>4
<1>5. /\ q \in Seq(Packets)
      /\ \A g \in ReadOf(q) : \E i \in 1 .. h.part.length :
            g = SendDLSA(h.part.addrs[i], dlsa[n][h.part.addrs[i]])
      /\ \A i \in 1 .. h.part.length :
            SendDLSA(h.part.addrs[i], dlsa[n][h.part.addrs[i]]) \in ReadOf(q)
  BY <1>1, <1>3, <1>4, AskedFor
<1>6. /\ chan' \in Chans
      /\ ReadOf(chan'[n][m]) = ReadOf(c[n][m]) \cup ReadOf(q)
      /\ \A x, y \in Node : (x # n \/ y # m) => chan'[x][y] = c[x][y]
  <2>1. chan' = WithMany(c, n, m, q)
    BY <1>1 DEF ProcessSummaryVectorACK, WithMany
  <2>2. PICK d : d = chan'
    OBVIOUS
  <2>3. /\ c \in Chans /\ n \in Node /\ m \in Node /\ q \in Seq(Packets)
        /\ d = WithMany(c, n, m, q)
    BY <1>2, <1>5, <2>1, <2>2
  <2>4. Sent(c, d, n, m, ReadOf(q))
    BY ONLY <2>3, SendMany
  <2>. QED
    BY <2>2, <2>4 DEF Sent
<1>7. \A x \in Node : x \notin nbr'[x] /\ chan'[x][x] = <<>>
  BY <1>2, <1>6 DEF IInv, NoLoop, ProcessSummaryVectorACK
<1>8. Types' /\ NoLoop' /\ OwnOK' /\ AllGenuine' /\ Recorded' /\ RoutesCurrent' /\ Grows
  BY <1>6, <1>7, LinksChange DEF IInv, Types, ProcessSummaryVectorACK
<1>9. /\ InFlight(n, m)' = InFlight(n, m) \cup ReadOf(q)
      /\ \A k \in InFlight(m, n) : k \in InFlight(m, n)' \/ k = h
      /\ InFlight(m, n)' \subseteq InFlight(m, n)
      /\ \A x, y \in Node : ~(x = n /\ y = m) /\ ~(x = m /\ y = n)
                               => InFlight(x, y)' = InFlight(x, y)
  BY <1>2, <1>6, Reads
<1>10. dlsa' = dlsa /\ made' = made /\ fresh' = fresh /\ nbr' = nbr
  BY DEF ProcessSummaryVectorACK
<1>11. ASSUME NEW i \in 1 .. h.part.length, NEW s, s = h.part.addrs[i],
              NEW g, g = SendDLSA(s, dlsa[n][s])
       PROVE  g.type = 6 /\ g.addr = s /\ g.seq = dlsa[n][s].seq /\ MsgOK(n, m, g)'
  <2>1. PICK t : t = dlsa[n][s]
    OBVIOUS
  <2>2. s \in Node /\ s # m /\ t \in Tuples /\ g = SendDLSA(s, t)
    BY <1>4, <1>11, <2>1
  <2>3. g.type = 6 /\ g.addr = s /\ g.seq = t.seq /\ Tuple(g) = t
    BY <2>2, DlsaSent
  <2>4. t # NoDlsa
    BY <2>2 DEF Tuples, NoDlsa
  <2>5. Genuine(s, t)
    BY <2>1, <2>2, <2>4 DEF IInv, AllGenuine
  <2>6. Genuine(s, t)'
    BY <1>10, <2>5 DEF Genuine
  <2>. QED
    BY <2>1, <2>2, <2>3, <2>6 DEF MsgOK
<1>12. Msgs'
  <2>1. \A g \in ReadOf(q) : MsgOK(n, m, g)'
    BY <1>5, <1>11
  <2>. QED
    BY <1>8, <1>9, <2>1, MsgsKept DEF IInv
<1>13. ASSUME NEW s \in Node, \E e \in Pairs(h.part) : e[1] = s
       PROVE  Owed(n, m, s)'
  <2>1. PICK i \in 1 .. h.part.length : h.part.addrs[i] = s
    <3>1. PICK e \in Pairs(h.part) : e[1] = s
      BY <1>13
    <3>2. PICK j \in DOMAIN h.part.nums : e = <<h.part.addrs[j], h.part.nums[j]>>
      BY <3>1 DEF Pairs
    <3>3. e[1] = h.part.addrs[j]
      BY <3>2
    <3>4. j \in 1 .. h.part.length
      BY <1>3 DEF ListOK
    <3>. QED
      BY ONLY <3>1, <3>3, <3>4
  <2>2. PICK g : g = SendDLSA(s, dlsa[n][s])
    OBVIOUS
  <2>3. g \in InFlight(n, m)'
    BY <1>5, <1>9, <2>1, <2>2
  <2>4. g.type = 6 /\ g.addr = s /\ g.seq = dlsa[n][s].seq
    BY <1>11, <2>1, <2>2
  <2>5. g.seq >= dlsa'[n][s].seq
    BY <1>10, <2>4, TableFacts, SeqFacts DEF IInv
  <2>. QED
    BY <2>3, <2>4, <2>5 DEF Owed
<1>14. Owes'
  <2>. SUFFICES ASSUME NEW x \in fresh, NEW y \in nbr[x], NEW s \in Node
                PROVE  Owed(x, y, s)'
    BY <1>10 DEF Owes
  <2>1. x \in Node /\ y \in Node /\ Owed(x, y, s)
    BY DEF IInv, Types, Owes
  <2>2. /\ \A k \in InFlight(x, y) : k \in InFlight(x, y)' \/ (x = m /\ y = n /\ k = h)
        /\ \A k \in InFlight(y, x) : k \in InFlight(y, x)' \/ (y = m /\ x = n /\ k = h)
    BY <1>2, <1>9, <2>1
  <2>3. Owed(x, y, s)' \/ StoodFor(x, y, s, m, n, h)
    BY <1>8, <1>10, <2>1, <2>2, OwedPopped DEF IInv
  <2>. QED
    BY <1>3, <1>13, <2>3 DEF StoodFor
<1>. QED
  BY <1>8, <1>12, <1>14 DEF IInv

\* The tables after a DLSA is entered.
LEMMA Enters ==
    ASSUME Types, NEW n \in Node, NEW h, h.addr \in Node, Tuple(h) \in Tuples,
           InsertDLSATuple(n, h)
    PROVE  /\ dlsa' \in [Node -> Tables] /\ routed' \in [Node -> SUBSET Node]
           /\ dlsa'[n] = Entered(n, h) /\ dlsa'[n][h.addr] = Tuple(h)
           /\ \A x, s \in Node : (x # n \/ s # h.addr) => dlsa'[x][s] = dlsa[x][s]
<1>1. PICK t, a, T : t = Tuple(h) /\ a = h.addr /\ T = Entered(n, h)
  OBVIOUS
<1>2. dlsa[n] \in Tables /\ T = [dlsa[n] EXCEPT ![a] = t] /\ a \in Node /\ t \in Tuples
  BY <1>1, TableFacts DEF Entered
<1>3. T \in Tables /\ T[a] = t /\ \A s \in Node : s # a => T[s] = dlsa[n][s]
  BY ONLY <1>2 DEF Tables
<1>4. dlsa \in [Node -> Tables] /\ dlsa' = [dlsa EXCEPT ![n] = T]
  BY <1>1 DEF Types, InsertDLSATuple
<1>5. dlsa' \in [Node -> Tables] /\ dlsa'[n] = T /\ \A x \in Node : x # n => dlsa'[x] = dlsa[x]
  BY <1>3, <1>4
<1>6. routed' \in [Node -> SUBSET Node]
  <2>1. Reach(n, Seen(n), T) \in SUBSET Node
    BY DEF Reach
  <2>. QED
    BY <1>1, <2>1 DEF Types, InsertDLSATuple
<1>. QED
  BY <1>1, <1>3, <1>5, <1>6

\* A summary vector of the new table of n goes to its neighbors, behind what is in
\* c: it vouches for what n has, and n owes nothing that it does not pay.
LEMMA Announcement ==
    ASSUME IInv, Types', NEW n \in Node, NEW c \in Chans, Announce(n, dlsa'[n], c)
    PROVE  \E r :
              /\ \A y \in nbr[n] : ReadOf(chan'[n][y]) = ReadOf(c[n][y]) \cup {r}
              /\ \A x, y \in Node : x # n \/ y \notin nbr[n] => chan'[x][y] = c[x][y]
              /\ \A y \in Node : MsgOK(n, y, r)'
              /\ \A y \in nbr[n], s \in Node : Owed(n, y, s)'
<1>1. PICK N, T : N = nbr[n] /\ T = dlsa'[n]
  OBVIOUS
<1>2. N \in SUBSET Node /\ T \in Tables
  BY <1>1 DEF IInv, Types
<1>3. PICK h \in SendSummaryVector(n, T) : chan' = WithAll(c, n, N, Serialize(h))
  BY <1>1 DEF Announce, WithAll
<1>4. PICK p, r : p = Serialize(h) /\ r = Deserialize(p)
  OBVIOUS
<1>5. /\ p \in Packets /\ r.type = 4 /\ r.seq = 0 /\ ListOK(r.part)
      /\ Pairs(r.part) = Numbered(T)
  BY <1>2, <1>4, VectorSent
<1>6. /\ \A y \in N : ReadOf(chan'[n][y]) = ReadOf(c[n][y]) \cup {r}
      /\ \A x, y \in Node : x # n \/ y \notin N => chan'[x][y] = c[x][y]
  <2>1. N \in SUBSET Node /\ p \in Packets /\ chan' = WithAll(c, n, N, p)
    BY <1>2, <1>3, <1>4, <1>5
  <2>2. SentAll(c, WithAll(c, n, N, p), n, N, p)
    BY <2>1, SendAll
  <2>. QED
    BY <1>4, <2>1, <2>2 DEF SentAll
<1>7. ASSUME NEW y \in Node
      PROVE  MsgOK(n, y, r)' /\ (r \in InFlight(n, y)' => \A s \in Node : Owed(n, y, s)')
  BY <1>1, <1>5, Announced
<1>8. \A y \in N : r \in InFlight(n, y)'
  BY <1>6, Reads
<1>. QED
  BY <1>1, <1>2, <1>6, <1>7, <1>8

\* The links of an announcement.
LEMMA AnnouncedChans ==
    ASSUME Types, NEW n \in Node, NEW T \in Tables, NEW c \in Chans, Announce(n, T, c)
    PROVE  chan' \in Chans
<1>1. PICK N : N = nbr[n]
  OBVIOUS
<1>2. N \in SUBSET Node
  BY <1>1 DEF Types
<1>3. PICK h \in SendSummaryVector(n, T) : chan' = WithAll(c, n, N, Serialize(h))
  BY <1>1 DEF Announce, WithAll
<1>4. PICK p : p = Serialize(h)
  OBVIOUS
<1>5. p \in Packets /\ chan' = WithAll(c, n, N, p)
  BY <1>3, <1>4, VectorSent
<1>6. SentAll(c, WithAll(c, n, N, p), n, N, p)
  BY <1>2, <1>5, SendAll
<1>. QED
  BY <1>5, <1>6 DEF SentAll

\* A DLSA that is not newer than what n has is dropped: n has what it stood for.
LEMMA StepOldDlsa ==
    ASSUME IInv, NEW n \in Node, NEW m \in Node, NEW h \in Received(n, m),
           h.type = 6, ~IsNew(n, h), chan' = Popped(n, m),
           UNCHANGED <<nbr, prob, dlsaSeq, dlsa, routed, made, fresh>>
    PROVE  IInv'
<1>1. PICK c : c = Popped(n, m)
  OBVIOUS
<1>2. /\ m # n /\ MsgOK(m, n, h) /\ c \in Chans
      /\ ReadOf(chan[m][n]) = {h} \cup ReadOf(c[m][n])
      /\ \A x, y \in Node : (x # m \/ y # n) => c[x][y] = chan[x][y]
  BY <1>1, Taken
<1>3. \A x \in Node : x \notin nbr'[x] /\ chan'[x][x] = <<>>
  BY <1>1, <1>2 DEF IInv, NoLoop
<1>4. Types' /\ NoLoop' /\ OwnOK' /\ AllGenuine' /\ Recorded' /\ RoutesCurrent' /\ Grows
  BY <1>1, <1>2, <1>3, LinksChange DEF IInv, Types
<1>5. /\ \A k \in InFlight(m, n) : k \in InFlight(m, n)' \/ k = h
      /\ InFlight(m, n)' \subseteq InFlight(m, n)
      /\ \A x, y \in Node : (x # m \/ y # n) => InFlight(x, y)' = InFlight(x, y)
  BY <1>1, <1>2, Reads
<1>6. Msgs'
  BY <1>4, <1>5, MsgsKept DEF IInv
<1>7. h.addr \in Node /\ h.seq \in Nat /\ dlsa[n][h.addr].seq >= h.seq
  <2>1. h.addr \in Node /\ Tuple(h) \in Tuples
    BY <1>2 DEF MsgOK
  <2>2. h.seq \in Nat
    BY <2>1 DEF Tuple, Tuples
  <2>3. dlsa[n][h.addr].seq \in Int
    BY <2>1, TableFacts, SeqFacts DEF IInv
  <2>. QED
    BY <2>1, <2>2, <2>3 DEF IsNew
<1>8. Owes'
  <2>. SUFFICES ASSUME NEW x \in fresh, NEW y \in nbr[x], NEW s \in Node
                PROVE  Owed(x, y, s)'
    BY DEF Owes
  <2>1. x \in Node /\ y \in Node /\ Owed(x, y, s)
    BY DEF IInv, Types, Owes
  <2>2. /\ \A k \in InFlight(x, y) : k \in InFlight(x, y)' \/ (x = m /\ y = n /\ k = h)
        /\ \A k \in InFlight(y, x) : k \in InFlight(y, x)' \/ (y = m /\ x = n /\ k = h)
    BY <1>2, <1>5, <2>1
  <2>3. Owed(x, y, s)' \/ StoodFor(x, y, s, m, n, h)
    <3>1. Types /\ Types' /\ Grows
      BY <1>4 DEF IInv
    <3>2. dlsa'[x][s] = dlsa[x][s]
      OBVIOUS
    <3>. QED
      BY ONLY <2>1, <2>2, <3>1, <3>2, OwedPopped
  <2>4. CASE y = n /\ h.addr = s /\ h.seq >= dlsa[x][s].seq
    <3>1. dlsa[x][s].seq \in Int /\ dlsa[n][s].seq \in Int
      BY <2>1, TableFacts, SeqFacts DEF IInv
    <3>2. dlsa[y][s].seq >= dlsa[x][s].seq
      BY <1>7, <2>4, <3>1
    <3>. QED
      BY <3>2 DEF Owed
  <2>. QED
    BY <2>3, <2>4 DEF StoodFor
<1>. QED
  BY <1>4, <1>6, <1>8 DEF IInv

\* A newer DLSA is entered, and every neighbor told.
LEMMA StepNewDlsa ==
    ASSUME IInv, NEW n \in Node, NEW m \in Node, NEW h \in Received(n, m),
           h.type = 6, IsNew(n, h), InsertDLSATuple(n, h),
           Announce(n, dlsa'[n], Popped(n, m)),
           UNCHANGED <<nbr, prob, dlsaSeq, made, fresh>>
    PROVE  IInv'
<1>1. PICK c : c = Popped(n, m)
  OBVIOUS
<1>2. /\ m # n /\ MsgOK(m, n, h) /\ c \in Chans
      /\ ReadOf(chan[m][n]) = {h} \cup ReadOf(c[m][n])
      /\ \A x, y \in Node : (x # m \/ y # n) => c[x][y] = chan[x][y]
  BY <1>1, Taken
<1>3. PICK a, t : a = h.addr /\ t = Tuple(h)
  OBVIOUS
<1>4. a \in Node /\ a # n /\ t \in Tuples /\ Genuine(a, t) /\ t.seq = h.seq /\ h.seq \in Nat
  <2>1. a \in Node /\ a # n /\ t \in Tuples /\ Genuine(a, t)
    BY <1>2, <1>3 DEF MsgOK
  <2>2. t.seq = h.seq /\ h.seq \in Nat
    BY <1>3, <2>1 DEF Tuple, Tuples
  <2>. QED
    BY <2>1, <2>2
<1>5. /\ dlsa' \in [Node -> Tables] /\ routed' \in [Node -> SUBSET Node]
      /\ dlsa'[n] = Entered(n, h) /\ dlsa'[n][a] = t
      /\ \A x, s \in Node : (x # n \/ s # a) => dlsa'[x][s] = dlsa[x][s]
  BY <1>3, <1>4, Enters DEF IInv
<1>6. Types'
  <2>1. dlsa'[n] \in Tables
    BY <1>5
  <2>2. chan' \in Chans
    BY <1>1, <1>2, <2>1, AnnouncedChans DEF IInv
  <2>. QED
    BY <1>5, <2>2 DEF IInv, Types
<1>7. \A x, s \in Node : dlsa[x][s].seq \in Int
  BY TableFacts, SeqFacts DEF IInv
<1>8. dlsa[n][a].seq <= t.seq
  BY <1>3, <1>4, <1>7 DEF IsNew, NoDlsa
<1>9. Grows
  <2>1. \A x, s \in Node : dlsa[x][s].seq <= dlsa'[x][s].seq
    BY <1>4, <1>5, <1>7, <1>8
  <2>. QED
    BY <2>1 DEF Grows, Genuine
<1>10. OwnOK'
  BY <1>4, <1>5 DEF IInv, OwnOK
<1>11. AllGenuine'
  <2>. SUFFICES ASSUME NEW x \in Node, NEW s \in Node, dlsa'[x][s] # NoDlsa
                PROVE  Genuine(s, dlsa[x][s])'
    BY DEF AllGenuine
  <2>1. CASE x = n /\ s = a
    BY <1>4, <1>5, <2>1 DEF Genuine
  <2>2. CASE x # n \/ s # a
    BY <1>5, <1>9, <2>2, GenuineKept DEF IInv
  <2>. QED
    BY <2>1, <2>2
<1>12. Recorded' /\ RoutesCurrent'
  BY <1>3, <1>4, RoutesEntered DEF IInv
<1>13. PICK r :
         /\ \A y \in nbr[n] : ReadOf(chan'[n][y]) = ReadOf(c[n][y]) \cup {r}
         /\ \A x, y \in Node : x # n \/ y \notin nbr[n] => chan'[x][y] = c[x][y]
         /\ \A y \in Node : MsgOK(n, y, r)'
         /\ \A y \in nbr[n], s \in Node : Owed(n, y, s)'
  BY <1>1, <1>2, <1>6, Announcement
<1>14. NoLoop'
  <2>1. n \notin nbr[n]
    BY DEF IInv, NoLoop
  <2>2. \A x \in Node : chan'[x][x] = chan[x][x]
    BY <1>2, <1>13, <2>1
  <2>. QED
    BY <2>2 DEF IInv, NoLoop
<1>15. /\ \A y \in nbr[n] : InFlight(n, y)' = InFlight(n, y) \cup {r}
       /\ \A x, y \in Node : x # n \/ y \notin nbr[n] => InFlight(x, y)' \subseteq InFlight(x, y)
       /\ \A x, y \in Node : \A k \in InFlight(x, y) :
             k \in InFlight(x, y)' \/ (x = m /\ y = n /\ k = h)
  <2>1. \A y \in nbr[n] : y \in Node
    BY DEF IInv, Types
  <2>2. ASSUME NEW y \in nbr[n] PROVE InFlight(n, y)' = InFlight(n, y) \cup {r}
    <3>1. y \in Node /\ c[n][y] = chan[n][y]
      BY <1>2, <2>1
    <3>2. ReadOf(chan'[n][y]) = ReadOf(c[n][y]) \cup {r}
      BY <1>13
    <3>. QED
      BY <3>1, <3>2, Reads
  <2>3. \A x, y \in Node : ReadOf(c[x][y]) \subseteq ReadOf(chan[x][y])
    BY <1>2
  <2>4. ASSUME NEW x \in Node, NEW y \in Node, x # n \/ y \notin nbr[n]
        PROVE  InFlight(x, y)' \subseteq InFlight(x, y)
    BY <1>13, <2>3, <2>4, Reads
  <2>5. ASSUME NEW x \in Node, NEW y \in Node, NEW k \in InFlight(x, y)
        PROVE  k \in InFlight(x, y)' \/ (x = m /\ y = n /\ k = h)
    <3>1. CASE x = n /\ y \in nbr[n]
      BY <2>2, <3>1
    <3>2. CASE x # n \/ y \notin nbr[n]
      <4>1. k \in ReadOf(c[x][y]) \/ (x = m /\ y = n /\ k = h)
        BY <1>2, <2>5, Reads
      <4>. QED
        BY <1>13, <3>2, <4>1, Reads
    <3>. QED
      BY <3>1, <3>2
  <2>. QED
    BY <2>2, <2>4, <2>5
<1>16. Msgs'
  <2>1. \A x, y \in Node : \A k \in InFlight(x, y)' :
           k \in InFlight(x, y) \/ MsgOK(x, y, k)'
    BY <1>13, <1>15
  <2>. QED
    BY <1>6, <1>9, <2>1, MsgsKept DEF IInv
<1>17. Owes'
  <2>. SUFFICES ASSUME NEW x \in fresh, NEW y \in nbr[x], NEW s \in Node
                PROVE  Owed(x, y, s)'
    BY DEF Owes
  <2>1. x \in Node /\ y \in Node /\ Owed(x, y, s)
    BY DEF IInv, Types, Owes
  <2>2. CASE x = n
    BY <1>13, <2>2
  <2>3. CASE x # n
    <3>1. dlsa'[x][s] = dlsa[x][s]
      BY <1>5, <2>1, <2>3
    <3>2. /\ \A k \in InFlight(x, y) : k \in InFlight(x, y)' \/ (x = m /\ y = n /\ k = h)
          /\ \A k \in InFlight(y, x) : k \in InFlight(y, x)' \/ (y = m /\ x = n /\ k = h)
      BY <1>15, <2>1
    <3>3. Owed(x, y, s)' \/ StoodFor(x, y, s, m, n, h)
      <4>1. Types /\ Types' /\ Grows
        BY <1>6, <1>9 DEF IInv
      <4>. QED
        BY ONLY <2>1, <3>1, <3>2, <4>1, OwedPopped
    <3>4. CASE y = n /\ a = s /\ h.seq >= dlsa[x][s].seq
      <4>1. dlsa'[y][s].seq >= dlsa'[x][s].seq
        BY <1>4, <1>5, <3>1, <3>4
      <4>. QED
        BY <4>1 DEF Owed
    <3>. QED
      BY <1>3, <3>3, <3>4 DEF StoodFor
  <2>. QED
    BY <2>2, <2>3
<1>. QED
  BY <1>6, <1>10, <1>11, <1>12, <1>14, <1>16, <1>17 DEF IInv

\* Case 6, where dlsa_flag always has a value.
LEMMA StepRecvDlsa ==
    ASSUME IInv, NEW n \in Node, NEW m \in Node, NEW h \in Received(n, m),
           RecvDLSA(n, m, h)
    PROVE  IInv'
<1>1. h.type = 6 /\ h.addr # n
  BY Taken DEF RecvDLSA, MsgOK
<1>2. CASE IsNew(n, h)
  <2>1. InsertDLSATuple(n, h) /\ Announce(n, dlsa'[n], Popped(n, m))
    BY <1>1, <1>2 DEF RecvDLSA, DlsaFlag
  <2>. QED
    BY <1>1, <1>2, <2>1, StepNewDlsa DEF RecvDLSA
<1>3. CASE ~IsNew(n, h)
  <2>1. chan' = Popped(n, m) /\ UNCHANGED <<dlsa, routed>>
    BY <1>1, <1>3 DEF RecvDLSA, DlsaFlag
  <2>. QED
    BY <1>1, <1>3, <2>1, StepOldDlsa DEF RecvDLSA
<1>. QED
  BY <1>2, <1>3

\* A node makes its next DLSA, enters it and tells every neighbor.
LEMMA StepTimer ==
    ASSUME IInv, NEW n \in Node, DLSATimerExpire(n)
    PROVE  IInv'
<1>1. /\ prob[n] \in [Node -> Times] /\ dlsaSeq[n] \in Nat /\ made[n] \in Seq(Tuples)
      /\ Len(made[n]) = dlsaSeq[n] /\ dlsa[n][n].seq = dlsaSeq[n] - 1
  BY DEF IInv, Types, OwnOK
<1>2. PICK g, h :
         /\ g \in SendMyDLSA(n) /\ h = Deserialize(Serialize(g))
         /\ made' = [made EXCEPT ![n] = Append(@, Tuple(g))]
         /\ InsertDLSATuple(n, h)
         /\ Announce(n, Entered(n, h), chan)
  BY DEF DLSATimerExpire
<1>3. PICK t \in Tuples : g = SendDLSA(n, t) /\ t.seq = dlsaSeq[n] /\ ListedBy(t) = Seen(n)
  BY <1>1, <1>2, MyDlsa
<1>4. h = g /\ h.addr = n /\ Tuple(h) = t
  BY <1>2, <1>3, DlsaSent
<1>5. /\ dlsaSeq' = [dlsaSeq EXCEPT ![n] = @ + 1] /\ fresh' = fresh \cup {n}
      /\ nbr' = nbr /\ prob' = prob
  BY DEF DLSATimerExpire
<1>6. PICK q : q = Append(made[n], t)
  OBVIOUS
<1>7. /\ q \in Seq(Tuples) /\ Len(q) = dlsaSeq[n] + 1 /\ DOMAIN q = 1 .. Len(q)
      /\ q[dlsaSeq[n] + 1] = t
      /\ \A i \in 1 .. Len(made[n]) : q[i] = made[n][i]
  BY <1>1, <1>6
<1>8. /\ made' \in [Node -> Seq(Tuples)] /\ made'[n] = q
      /\ \A s \in Node : s # n => made'[s] = made[s]
  <2>1. made \in [Node -> Seq(Tuples)] /\ made' = [made EXCEPT ![n] = q]
    BY <1>2, <1>4, <1>6 DEF IInv, Types
  <2>. QED
    BY <1>7, <2>1
<1>9. /\ dlsa' \in [Node -> Tables] /\ routed' \in [Node -> SUBSET Node]
      /\ dlsa'[n] = Entered(n, h) /\ dlsa'[n][n] = t
      /\ \A x, s \in Node : (x # n \/ s # n) => dlsa'[x][s] = dlsa[x][s]
  BY <1>2, <1>4, Enters DEF IInv
<1>10. Types'
  <2>1. dlsa'[n] \in Tables /\ Announce(n, dlsa'[n], chan) /\ chan \in Chans
    BY <1>2, <1>9 DEF IInv, Types
  <2>2. chan' \in Chans
    BY <2>1, AnnouncedChans DEF IInv
  <2>3. dlsaSeq' \in [Node -> Nat] /\ fresh' \subseteq Node
    BY <1>5 DEF IInv, Types
  <2>. QED
    BY <1>5, <1>8, <1>9, <2>2, <2>3 DEF IInv, Types
<1>11. \A x, s \in Node : dlsa[x][s].seq \in Int
  BY TableFacts, SeqFacts DEF IInv
<1>12. Grows
  <2>1. \A x, s \in Node : dlsa[x][s].seq <= dlsa'[x][s].seq
    <3>1. dlsa[n][n].seq <= dlsa'[n][n].seq
      BY <1>1, <1>3, <1>9
    <3>. QED
      BY <1>9, <1>11, <3>1
  <2>2. ASSUME NEW s \in Node, NEW u \in Tuples, Genuine(s, u) PROVE Genuine(s, u)'
    <3>1. CASE s = n
      <4>1. u.seq + 1 \in 1 .. Len(made[n]) /\ u = made[n][u.seq + 1]
        BY <1>1, <2>2, <3>1 DEF Genuine
      <4>2. u.seq + 1 \in 1 .. Len(q) /\ q[u.seq + 1] = u
        BY <1>1, <1>7, <4>1
      <4>. QED
        BY <1>7, <1>8, <3>1, <4>2 DEF Genuine
    <3>2. CASE s # n
      BY <1>8, <2>2, <3>2 DEF Genuine
    <3>. QED
      BY <3>1, <3>2
  <2>. QED
    BY <2>1, <2>2 DEF Grows
<1>13. OwnOK'
  <2>1. Len(made'[n]) = dlsaSeq'[n] /\ dlsa'[n][n].seq = dlsaSeq'[n] - 1
    <3>1. dlsaSeq'[n] = dlsaSeq[n] + 1
      BY <1>5 DEF IInv, Types
    <3>. QED
      BY <1>1, <1>3, <1>7, <1>8, <1>9, <3>1
  <2>2. \A x \in Node : x # n =>
           made'[x] = made[x] /\ dlsaSeq'[x] = dlsaSeq[x] /\ dlsa'[x][x] = dlsa[x][x]
    BY <1>5, <1>8, <1>9 DEF IInv, Types
  <2>. QED
    BY <2>1, <2>2 DEF IInv, OwnOK
<1>14. AllGenuine'
  <2>. SUFFICES ASSUME NEW x \in Node, NEW s \in Node, dlsa'[x][s] # NoDlsa
                PROVE  Genuine(s, dlsa[x][s])'
    BY DEF AllGenuine
  <2>1. CASE x = n /\ s = n
    BY <1>1, <1>3, <1>7, <1>8, <1>9, <2>1 DEF Genuine
  <2>2. CASE x # n \/ s # n
    BY <1>9, <1>12, <2>2, GenuineKept DEF IInv
  <2>. QED
    BY <2>1, <2>2
<1>15. Recorded' /\ RoutesCurrent'
  <2>1. /\ Types /\ Recorded /\ RoutesCurrent /\ InsertDLSATuple(n, h) /\ UNCHANGED prob
        /\ h.addr \in Node /\ ListedBy(Tuple(h)) \subseteq Seen(n)
    BY <1>2, <1>3, <1>4, <1>5 DEF IInv
  <2>. QED
    BY <2>1, RoutesEntered
<1>16. PICK r :
         /\ \A y \in nbr[n] : ReadOf(chan'[n][y]) = ReadOf(chan[n][y]) \cup {r}
         /\ \A x, y \in Node : x # n \/ y \notin nbr[n] => chan'[x][y] = chan[x][y]
         /\ \A y \in Node : MsgOK(n, y, r)'
         /\ \A y \in nbr[n], s \in Node : Owed(n, y, s)'
  <2>1. chan \in Chans /\ Announce(n, dlsa'[n], chan)
    BY <1>2, <1>9 DEF IInv, Types
  <2>. QED
    BY <1>10, <2>1, Announcement
<1>17. NoLoop'
  <2>1. n \notin nbr[n]
    BY DEF IInv, NoLoop
  <2>2. \A x \in Node : chan'[x][x] = chan[x][x]
    BY <1>16, <2>1
  <2>. QED
    BY <1>5, <2>2 DEF IInv, NoLoop
<1>18. /\ \A y \in nbr[n] : InFlight(n, y)' = InFlight(n, y) \cup {r}
       /\ \A x, y \in Node : x # n \/ y \notin nbr[n] => InFlight(x, y)' = InFlight(x, y)
       /\ \A x, y \in Node : InFlight(x, y) \subseteq InFlight(x, y)'
  <2>1. ASSUME NEW y \in nbr[n] PROVE InFlight(n, y)' = InFlight(n, y) \cup {r}
    <3>1. ReadOf(chan'[n][y]) = ReadOf(chan[n][y]) \cup {r}
      BY <1>16
    <3>. QED
      BY <3>1, Reads
  <2>2. ASSUME NEW x \in Node, NEW y \in Node, x # n \/ y \notin nbr[n]
        PROVE  InFlight(x, y)' = InFlight(x, y)
    BY <1>16, <2>2, Reads
  <2>. QED
    BY <2>1, <2>2
<1>19. Msgs'
  <2>1. \A x, y \in Node : \A k \in InFlight(x, y)' :
           k \in InFlight(x, y) \/ MsgOK(x, y, k)'
    BY <1>16, <1>18
  <2>. QED
    BY <1>10, <1>12, <2>1, MsgsKept DEF IInv
<1>20. Owes'
  <2>. SUFFICES ASSUME NEW x \in fresh', NEW y \in nbr[x], NEW s \in Node
                PROVE  Owed(x, y, s)'
    BY <1>5 DEF Owes
  <2>1. CASE x = n
    BY <1>16, <2>1
  <2>2. CASE x # n
    <3>1. x \in Node /\ y \in Node /\ Owed(x, y, s)
      BY <1>5, <2>2 DEF IInv, Types, Owes
    <3>2. Types /\ dlsa'[x][s] = dlsa[x][s]
      BY <1>9, <2>2, <3>1 DEF IInv
    <3>. QED
      BY <1>10, <1>12, <1>18, <3>1, <3>2, OwedKept
  <2>. QED
    BY <2>1, <2>2
<1>. QED
  BY <1>10, <1>13, <1>14, <1>15, <1>17, <1>19, <1>20 DEF IInv

\* Every step keeps the invariant.
LEMMA StepInv ==
    ASSUME IInv, [Next]_vars
    PROVE  IInv'
<1>1. CASE UNCHANGED vars
  BY <1>1, StepStutter
<1>2. ASSUME NEW n \in Node, NEW m \in Node, RecvLP(n, m) PROVE IInv'
  BY <1>2, StepLP
<1>3. ASSUME NEW n \in Node, NEW m \in Node, NeighborTupleTimerExpire(n, m) PROVE IInv'
  BY <1>3, StepExpire
<1>4. ASSUME NEW n \in Node, NEW m \in Node, Recv(n, m) PROVE IInv'
  BY <1>4, StepVector, StepAck, StepRecvDlsa DEF Recv
<1>5. ASSUME NEW n \in Node, NEW m \in Node, Lose(n, m) PROVE IInv'
  BY <1>5, StepLose
<1>6. ASSUME NEW n \in Node, UpdateTimerExpire(n) PROVE IInv'
  BY <1>6, StepUpdate
<1>7. ASSUME NEW n \in Node, DLSATimerExpire(n) PROVE IInv'
  BY <1>7, StepTimer
<1>. QED
  BY <1>1, <1>2, <1>3, <1>4, <1>5, <1>6, <1>7 DEF Next

-----------------------------------------------------------------------------
(* The properties.                                                         *)

\* The tables, the links and what the nodes owe each other fit together in every
\* state, for any nodes, links, losses and expiries.
THEOREM Inductive == Spec => []IInv
<1>1. Init => IInv
  BY InitInv
<1>2. IInv /\ [Next]_vars => IInv'
  BY StepInv
<1>. QED
  BY <1>1, <1>2, PTL DEF Spec

\* What a node has stored as a DLSA of s is what s made: SendMyDLSA, SendDLSA,
\* ProcessDLSA and the formats between them never mix up DLSAs.
THEOREM AuthenticDlsas == Spec => []Authentic
<1>1. IInv => Authentic
  BY DEF IInv, AllGenuine, Genuine, Authentic
<1>. QED
  BY <1>1, Inductive, PTL

\* No handler meets a message that it cannot take: not SendSummaryVectorACK a
\* vector with more numbers than addresses, not SendDLSA a node without tuple, not
\* case 6 of RecvMF the node's own DLSA.
THEOREM AlwaysAcceptable == Spec => []Acceptable
<1>1. ASSUME IInv, NEW n \in Node, NEW m \in Node, NEW h \in InFlight(m, n)
      PROVE  Takes(n, h)
  <2>1. MsgOK(m, n, h)
    BY <1>1 DEF IInv, Msgs
  <2>2. h.type \in {4, 5} => Len(h.part.nums) = h.part.length
    BY <2>1 DEF MsgOK, ListOK
  <2>3. ASSUME h.type = 5, NEW i \in DOMAIN h.part.addrs
        PROVE  dlsa[n][h.part.addrs[i]] # NoDlsa
    <3>1. PICK s, k : s = h.part.addrs[i] /\ k = h.part.nums[i]
      OBVIOUS
    <3>2. ListOK(h.part) /\ i \in 1 .. h.part.length
      BY <2>1, <2>3 DEF MsgOK, ListOK
    <3>3. s \in Node /\ k \in Nat
      BY <3>1, <3>2, PairAt
    <3>4. PICK e \in Pairs(h.part) : e[1] = s /\ e[2] = k
      BY <3>1, <3>2, PairAt
    <3>5. dlsa[n][s].seq >= k
      BY <2>1, <2>3, <3>4 DEF MsgOK
    <3>. QED
      BY <3>1, <3>3, <3>5 DEF NoDlsa
  <2>4. h.type = 6 => h.addr # n
    BY <2>1 DEF MsgOK
  <2>. QED
    BY <2>2, <2>3, <2>4 DEF Takes
<1>2. IInv => Acceptable
  BY <1>1 DEF Acceptable
<1>. QED
  BY <1>2, Inductive, PTL

\* The DTN forward table, computed only when ProcessDLSA enters a DLSA, is never
\* behind the DLSAs that the node has.
THEOREM DtnRoutesCurrent == Spec => []RoutesCurrent
<1>1. IInv => RoutesCurrent
  BY DEF IInv
<1>. QED
  BY <1>1, Inductive, PTL

\* One DLSA timer after the last loss repairs it: once the links are empty, every
\* neighbor has all that the node has.
THEOREM LossesRepaired == Spec => []Repaired
<1>1. ASSUME IInv, NEW n \in fresh, NEW m \in nbr[n], chan[n][m] = <<>>, chan[m][n] = <<>>
      PROVE  UpToDate(n, m)
  <2>1. InFlight(n, m) = {} /\ InFlight(m, n) = {}
    BY <1>1 DEF InFlight
  <2>2. \A s \in Node : Owed(n, m, s)
    BY <1>1 DEF IInv, Owes
  <2>. QED
    BY <2>1, <2>2 DEF Owed, UpToDate
<1>2. IInv => Repaired
  BY <1>1 DEF Repaired
<1>. QED
  BY <1>2, Inductive, PTL
=============================================================================
