---------------------------- MODULE BypassProofs ----------------------------
(***************************************************************************)
(* Proofs about Bypass: for every block table, types and order (the        *)
(* refinement of OrderedPipe); for the hop-by-hop table, stop-and-wait on  *)
(* every hop and what follows from it.                                     *)
(***************************************************************************)
EXTENDS BypassRefinement, SequenceTheorems, TLAPS

-----------------------------------------------------------------------------
(* Sequences of packets.                                                   *)

\* What Append does to a sequence of packets.
LEMMA PktAppend ==
    ASSUME NEW s \in Seq(Packets), NEW p \in Packets
    PROVE  /\ Append(s, p) \in Seq(Packets)
           /\ Len(Append(s, p)) = Len(s) + 1
           /\ \A i \in 1 .. Len(s) : Append(s, p)[i] = s[i]
           /\ Append(s, p)[Len(s) + 1] = p
  OBVIOUS

\* What Head and Tail do to a nonempty sequence of packets.
LEMMA PktTail ==
    ASSUME NEW s \in Seq(Packets), s # <<>>
    PROVE  /\ Len(s) \in Nat \ {0}
           /\ Head(s) = s[1]
           /\ Head(s) \in Packets
           /\ Tail(s) \in Seq(Packets)
           /\ Len(Tail(s)) = Len(s) - 1
           /\ \A i \in 1 .. Len(s) - 1 : Tail(s)[i] = s[i + 1]
  OBVIOUS

\* A sequence of one packet.
LEMMA PktOne ==
    ASSUME NEW p \in Packets
    PROVE  <<p>> \in Seq(Packets) /\ Len(<<p>>) = 1 /\ <<p>>[1] = p /\ <<p>> # <<>>
  OBVIOUS

\* Concatenation of packet sequences.
LEMMA PktConcat ==
    ASSUME NEW s \in Seq(Packets), NEW t \in Seq(Packets)
    PROVE  /\ s \o t \in Seq(Packets)
           /\ Len(s \o t) = Len(s) + Len(t)
           /\ \A i \in 1 .. Len(s) + Len(t) :
                 (s \o t)[i] = IF i <= Len(s) THEN s[i] ELSE t[i - Len(s)]
  OBVIOUS

\* A bound on the sequence numbers of a sequence survives every operation.
LEMMA UpToOps ==
    ASSUME NEW s \in Seq(Packets), NEW b \in Int, UpTo(s, b)
    PROVE  /\ \A c \in Int : b <= c => UpTo(s, c)
           /\ s # <<>> => UpTo(Tail(s), b) /\ Head(s).seq <= b
           /\ \A p \in Packets : p.seq <= b => UpTo(Append(s, p), b)
           /\ \A t \in Seq(Packets) : UpTo(t, b) => UpTo(s \o t, b)
<1>0. \A i \in 1 .. Len(s) : s[i] \in Packets
  OBVIOUS
<1>0a. \A p \in Packets : p.seq \in Int
  BY DEF Packets
<1>1. ASSUME NEW c \in Int, b <= c PROVE UpTo(s, c)
  BY <1>0, <1>0a, <1>1 DEF UpTo
<1>2. ASSUME s # <<>> PROVE UpTo(Tail(s), b) /\ Head(s).seq <= b
  BY <1>2, PktTail DEF UpTo
<1>3. ASSUME NEW p \in Packets, p.seq <= b PROVE UpTo(Append(s, p), b)
  BY <1>3, PktAppend DEF UpTo
<1>4. ASSUME NEW t \in Seq(Packets), UpTo(t, b) PROVE UpTo(s \o t, b)
  <2> SUFFICES ASSUME NEW i \in 1 .. Len(s \o t) PROVE (s \o t)[i].seq <= b
    BY DEF UpTo
  <2>1. Len(s) \in Nat /\ Len(t) \in Nat
    OBVIOUS
  <2>2. i \in 1 .. Len(s) + Len(t)
    BY PktConcat
  <2>3. CASE i <= Len(s)
    BY <2>1, <2>2, <2>3, PktConcat DEF UpTo
  <2>4. CASE ~ (i <= Len(s))
    <3>1. (s \o t)[i] = t[i - Len(s)]
      BY <2>2, <2>4, PktConcat
    <3>2. i - Len(s) \in 1 .. Len(t)
      BY <2>1, <2>2, <2>4
    <3> QED BY <1>4, <3>1, <3>2 DEF UpTo
  <2> QED BY <2>3, <2>4
<1> QED BY <1>1, <1>2, <1>3, <1>4

-----------------------------------------------------------------------------
(* Types and order, for every block table.                                 *)

\* Where the sequences of a node live.
LEMMA NodeTypes ==
    ASSUME TypeOK
    PROVE  /\ \A n \in Sender : /\ fwd[n] \in Seq(Packets)
                                /\ mPacket[n] \in Seq(Packets)
                                /\ dataPkts[n] \in Seq(Packets)
                                /\ back[n] \in Seq(Sender)
           /\ \A n \in 1 .. N : Got(n) \in 0 .. K
           /\ \A n \in Receiver : prevSeq[n] \in 0 .. K
<1>1. \A n \in 1 .. N : n = 1 \/ n \in Receiver
  BY BypassAssumption DEF Receiver
<1>2. seqno - 1 \in 0 .. K
  BY BypassAssumption DEF TypeOK
<1>3. \A n \in Receiver : prevSeq[n] \in 0 .. K
  BY DEF TypeOK
<1>4. \A n \in 1 .. N : Got(n) \in 0 .. K
  BY <1>1, <1>2, <1>3 DEF Got
<1>5. \A n \in Sender : /\ fwd[n] \in Seq(Packets)
                        /\ mPacket[n] \in Seq(Packets)
                        /\ dataPkts[n] \in Seq(Packets)
                        /\ back[n] \in Seq(Sender)
  BY DEF TypeOK
<1> QED BY <1>3, <1>4, <1>5

\* Node numbers.
LEMMA Nodes ==
    /\ \A n \in Sender : n \in 1 .. N /\ n + 1 \in Receiver
    /\ \A n \in Receiver : n \in 1 .. N /\ n - 1 \in Sender /\ n # 1 /\ (n # N => n \in Sender)
    /\ 1 \in Sender /\ 2 \in Receiver /\ 1 \in 1 .. N /\ N \in Receiver
    /\ \A n \in Sender : Acks(n) => Bd[n] \in Receiver
  BY BypassAssumption DEF Sender, Receiver, Acks

\* Old offers are still good when nodes only get more.
LEMMA OffersGrow ==
    ASSUME TypeOK, Offers, NEW n \in Sender, NEW b \in Int, Got(n) <= b
    PROVE  UpTo(fwd[n], b) /\ UpTo(mPacket[n], b) /\ UpTo(dataPkts[n], b)
<1>1. /\ fwd[n] \in Seq(Packets) /\ mPacket[n] \in Seq(Packets) /\ dataPkts[n] \in Seq(Packets)
      /\ Got(n) \in Int
  BY NodeTypes, Nodes
<1>2. UpTo(fwd[n], Got(n)) /\ UpTo(mPacket[n], Got(n)) /\ UpTo(dataPkts[n], Got(n))
  BY DEF Offers
<1> QED BY <1>1, <1>2, UpToOps

\* The source's packets.
LEMMA SourcePackets ==
    ASSUME NEW i \in 1 .. K
    PROVE  Packet(i, 1, 2) \in Packets /\ Packet(i, 1, 2).seq = i
           /\ Packet(i, 1, 2).bs = 1 /\ Packet(i, 1, 2).bd = 2
  BY Nodes DEF Packet, Packets

\* The header a forwarding node writes.
LEMMA ReheaderOK ==
    ASSUME NEW n \in Sender, NEW m \in Packets
    PROVE  Reheader(n, m) \in Packets /\ Reheader(n, m).seq = m.seq
  BY Nodes DEF Reheader, Packet, Packets

\* PacketTimerExpire keeps types and offers only what the source has.
LEMMA PacketTimerStep ==
    ASSUME TypeOK, Offers, PacketTimerExpire
    PROVE  TypeOK' /\ Offers'
<1>1. 1 \in 1 .. K /\ \A i \in 1 .. K - 1 : i + 1 \in 1 .. K
  BY BypassAssumption
<1> PICK p : p = Packet(1, 1, 2)
  OBVIOUS
<1> PICK q : q = [i \in 1 .. K - 1 |-> Packet(i + 1, 1, 2)]
  OBVIOUS
<1>2. p \in Packets /\ p.seq = 1
  BY <1>1, SourcePackets
<1>3. /\ q \in Seq(Packets) /\ Len(q) = K - 1
      /\ \A i \in 1 .. K - 1 : q[i].seq = i + 1
  <2>1. \A i \in 1 .. K - 1 : Packet(i + 1, 1, 2) \in Packets /\ Packet(i + 1, 1, 2).seq = i + 1
    BY <1>1, SourcePackets
  <2>2. q \in [1 .. K - 1 -> Packets] /\ K - 1 \in Nat
    BY <2>1, BypassAssumption
  <2>3. \A i \in 1 .. K - 1 : q[i] = Packet(i + 1, 1, 2)
    OBVIOUS
  <2> QED BY <2>1, <2>2, <2>3
<1>4. /\ fwd' = [fwd EXCEPT ![1] = Append(fwd[1], p)]
      /\ mPacket' = [mPacket EXCEPT ![1] = <<p>>]
      /\ dataPkts' = [dataPkts EXCEPT ![1] = q]
      /\ seqno' = K + 1
  BY DEF PacketTimerExpire
<1>5. fwd' \in [Sender -> Seq(Packets)]
  BY <1>2, <1>4, NodeTypes, Nodes, PktAppend DEF TypeOK
<1>6. mPacket' \in [Sender -> Seq(Packets)] /\ dataPkts' \in [Sender -> Seq(Packets)]
  BY <1>2, <1>3, <1>4, PktOne DEF TypeOK
<1>7. ackTimer' \in [Sender -> BOOLEAN] /\ fatal' \in BOOLEAN
  BY DEF PacketTimerExpire, TypeOK
<1>8. TypeOK'
  BY <1>4, <1>5, <1>6, <1>7 DEF PacketTimerExpire, TypeOK, bound
<1>9. \A n \in Sender : Got(n)' \in Int /\ Got(n) <= Got(n)' /\ (n = 1 => Got(n)' = K)
  <2> SUFFICES ASSUME NEW n \in Sender
               PROVE  Got(n)' \in Int /\ Got(n) <= Got(n)' /\ (n = 1 => Got(n)' = K)
    OBVIOUS
  <2>1. Got(n) \in 0 .. K
    BY NodeTypes, Nodes
  <2>2. CASE n = 1
    <3>1. Got(n)' = seqno' - 1
      BY <2>2 DEF Got
    <3> QED BY <1>4, <2>1, <3>1, BypassAssumption
  <2>3. CASE n # 1
    <3>1. Got(n)' = prevSeq'[n] /\ Got(n) = prevSeq[n] /\ prevSeq' = prevSeq
      BY <2>3 DEF Got, PacketTimerExpire
    <3> QED BY <2>1, <2>3, <3>1
  <2> QED BY <2>2, <2>3
<1>10. Offers'
  <2> SUFFICES ASSUME NEW n \in Sender
               PROVE  UpTo(fwd'[n], Got(n)') /\ UpTo(mPacket'[n], Got(n)')
                      /\ UpTo(dataPkts'[n], Got(n)')
    BY DEF Offers
  <2> PICK b \in Int : b = Got(n)'
    BY <1>9
  <2>1. UpTo(fwd[n], b) /\ UpTo(mPacket[n], b) /\ UpTo(dataPkts[n], b)
    BY <1>9, OffersGrow
  <2>2. CASE n = 1
    <3>1. UpTo(q, b) /\ UpTo(<<p>>, b)
      BY <1>2, <1>3, <1>9, <2>2, PktOne, BypassAssumption DEF UpTo
    <3>2. UpTo(Append(fwd[1], p), b)
      <4>1. PICK s : s = fwd[1]
        OBVIOUS
      <4>2. s \in Seq(Packets) /\ UpTo(s, b) /\ b = K /\ b \in Int
        BY <1>9, <2>1, <2>2, <4>1, NodeTypes
      <4>3. p \in Packets /\ p.seq <= b
        BY <1>2, <4>2, BypassAssumption
      <4> QED BY ONLY <4>1, <4>2, <4>3, UpToOps
    <3>3. fwd'[1] = Append(fwd[1], p) /\ mPacket'[1] = <<p>> /\ dataPkts'[1] = q
      BY <1>4, Nodes DEF TypeOK
    <3> QED BY <2>2, <3>1, <3>2, <3>3
  <2>3. CASE n # 1
    BY <1>4, <2>1, <2>3 DEF TypeOK
  <2> QED BY <2>2, <2>3
<1> QED BY <1>8, <1>10

\* Accepting a data packet keeps types and Offers.
LEMMA RecvDataStep ==
    ASSUME TypeOK, Offers, NEW r \in Receiver, RecvData(r)
    PROVE  TypeOK' /\ Offers'
<1> PICK l : l = r - 1
  OBVIOUS
<1>0. l \in Sender /\ r \in 1 .. N /\ l \in 1 .. N /\ (r # N => r \in Sender) /\ r # 1 /\ l # r
  BY Nodes DEF Sender, Receiver
<1> PICK m : m = Head(fwd[l])
  OBVIOUS
<1>1. /\ fwd[l] # <<>> /\ m.seq = prevSeq[r] + 1
      /\ prevSeq' = [prevSeq EXCEPT ![r] = m.seq]
      /\ AckData(r, m) /\ seqno' = seqno /\ UNCHANGED bound
      /\ Deliver(r) \/ ForwardNow(r, Reheader(r, m)) \/ Enqueue(r, Reheader(r, m))
  BY DEF RecvData, InOrder
<1>2. m \in Packets /\ Tail(fwd[l]) \in Seq(Packets) /\ fwd[l] \in Seq(Packets)
  BY <1>0, <1>1, NodeTypes, PktTail
<1>3. m.seq \in 1 .. K /\ m.bs \in Sender
  BY <1>2 DEF Packets
<1>4. prevSeq' \in [Receiver -> 0 .. K]
  <2>1. m.seq \in 0 .. K
    BY <1>3, BypassAssumption
  <2>2. prevSeq \in [Receiver -> 0 .. K]
    BY DEF TypeOK
  <2> QED BY <1>1, <2>1, <2>2
<1>5. back' \in [Sender -> Seq(Sender)]
  <2>1. Append(back[l], m.bs) \in Seq(Sender)
    BY <1>0, <1>3, NodeTypes
  <2> QED BY <1>1, <2>1 DEF AckData, TypeOK
<1> PICK p : p = Reheader(r, m)
  OBVIOUS
<1>6. r # N => p \in Packets /\ p.seq = m.seq
  BY <1>0, <1>2, ReheaderOK
<1>7. \A n \in Sender : /\ Got(n)' \in Int /\ Got(n) <= Got(n)'
                        /\ (n = r => Got(n)' = m.seq)
  <2> SUFFICES ASSUME NEW n \in Sender
               PROVE  /\ Got(n)' \in Int /\ Got(n) <= Got(n)'
                      /\ (n = r => Got(n)' = m.seq)
    OBVIOUS
  <2>1. Got(n) \in 0 .. K
    BY NodeTypes, Nodes
  <2>2. CASE n = 1
    <3>1. Got(n)' = seqno' - 1 /\ Got(n) = seqno - 1
      BY <2>2 DEF Got
    <3> QED BY <1>0, <1>1, <2>1, <2>2, <3>1
  <2>3. CASE n = r
    <3>1. Got(n)' = prevSeq'[n] /\ Got(n) = prevSeq[n]
      BY <1>0, <2>3 DEF Got
    <3>2. prevSeq'[r] = m.seq /\ m.seq = prevSeq[r] + 1
      BY <1>1 DEF TypeOK
    <3> QED BY <2>1, <2>3, <3>1, <3>2
  <2>4. CASE n # 1 /\ n # r
    <3>1. Got(n)' = prevSeq'[n] /\ Got(n) = prevSeq[n]
      BY <2>4 DEF Got
    <3>2. prevSeq'[n] = prevSeq[n]
      BY <1>1, <2>4, Nodes DEF TypeOK, Sender, Receiver
    <3> QED BY <2>1, <2>4, <3>1, <3>2
  <2> QED BY <2>2, <2>3, <2>4
<1>8. UpTo(fwd[l], Got(l)) /\ m.seq <= Got(l) /\ UpTo(Tail(fwd[l]), Got(l))
  BY <1>0, <1>1, <1>2, NodeTypes, UpToOps DEF Offers
<1>t. \A n \in Sender : UpTo(Tail(fwd[l]), Got(l)')
  BY <1>0, <1>2, <1>7, <1>8, NodeTypes, UpToOps
<1>9. CASE Deliver(r)
  <2>1. /\ fwd' = [fwd EXCEPT ![l] = Tail(fwd[l])]
        /\ UNCHANGED <<dataPkts, mPacket, ackTimer, queueEmpty, fatal>>
    BY <1>9 DEF Deliver
  <2>2. fwd' \in [Sender -> Seq(Packets)]
    BY <1>2, <2>1 DEF TypeOK
  <2>3. TypeOK'
    BY <1>1, <1>4, <1>5, <2>1, <2>2 DEF TypeOK, bound
  <2>4. ASSUME NEW n \in Sender
        PROVE  UpTo(fwd'[n], Got(n)') /\ UpTo(mPacket'[n], Got(n)') /\ UpTo(dataPkts'[n], Got(n)')
    <3> PICK b \in Int : b = Got(n)'
      BY <1>7
    <3>1. UpTo(fwd[n], b) /\ UpTo(mPacket[n], b) /\ UpTo(dataPkts[n], b)
      BY <1>7, OffersGrow
    <3>2. UpTo(fwd'[n], b)
      <4>1. CASE n = l
        BY <1>0, <1>t, <2>1, <4>1 DEF TypeOK
      <4>2. CASE n # l
        BY <2>1, <3>1, <4>2 DEF TypeOK
      <4> QED BY <4>1, <4>2
    <3> QED BY <2>1, <3>1, <3>2
  <2> QED BY <2>3, <2>4 DEF Offers
<1>10. CASE ForwardNow(r, p)
  <2>1. /\ r # N
        /\ fwd' = [fwd EXCEPT ![l] = Tail(fwd[l]), ![r] = Append(fwd[r], p)]
        /\ mPacket' = [mPacket EXCEPT ![r] = <<p>>]
        /\ UNCHANGED dataPkts
    BY <1>0, <1>10 DEF ForwardNow, TypeOK
  <2>2. p \in Packets /\ p.seq = m.seq /\ r \in Sender
    BY <1>0, <1>6, <2>1
  <2>3. fwd' \in [Sender -> Seq(Packets)]
    BY <1>2, <2>1, <2>2, NodeTypes, PktAppend DEF TypeOK
  <2>4. mPacket' \in [Sender -> Seq(Packets)]
    BY <2>1, <2>2, PktOne DEF TypeOK
  <2>5. ackTimer' \in [Sender -> BOOLEAN] /\ fatal' \in BOOLEAN /\ queueEmpty' \in [Sender -> {0, 1}]
    BY <1>10 DEF ForwardNow, TypeOK
  <2>6. TypeOK'
    BY <1>1, <1>4, <1>5, <2>1, <2>3, <2>4, <2>5 DEF TypeOK, bound
  <2>7. ASSUME NEW n \in Sender
        PROVE  UpTo(fwd'[n], Got(n)') /\ UpTo(mPacket'[n], Got(n)') /\ UpTo(dataPkts'[n], Got(n)')
    <3> PICK b \in Int : b = Got(n)'
      BY <1>7
    <3>1. UpTo(fwd[n], b) /\ UpTo(mPacket[n], b) /\ UpTo(dataPkts[n], b)
      BY <1>7, OffersGrow
    <3>2. CASE n = r
      <4>1. UpTo(<<p>>, b)
        BY <1>3, <1>7, <2>2, <3>2, PktOne DEF UpTo
      <4>2. UpTo(Append(fwd[r], p), b)
        BY <1>3, <1>7, <2>2, <3>1, <3>2, NodeTypes, UpToOps
      <4>3. fwd'[n] = Append(fwd[r], p) /\ mPacket'[n] = <<p>>
        BY <1>0, <2>1, <3>2 DEF TypeOK
      <4> QED BY <2>1, <3>1, <4>1, <4>2, <4>3
    <3>3. CASE n = l
      <4>1. fwd'[n] = Tail(fwd[l]) /\ mPacket'[n] = mPacket[n]
        BY <1>0, <2>1, <3>3 DEF TypeOK
      <4> QED BY <1>t, <2>1, <3>1, <3>3, <4>1
    <3>4. CASE n # r /\ n # l
      <4>1. fwd'[n] = fwd[n] /\ mPacket'[n] = mPacket[n]
        BY <2>1, <3>4 DEF TypeOK
      <4> QED BY <2>1, <3>1, <4>1
    <3> QED BY <3>2, <3>3, <3>4
  <2> QED BY <2>6, <2>7 DEF Offers
<1>11. CASE Enqueue(r, p)
  <2>1. /\ r # N
        /\ fwd' = [fwd EXCEPT ![l] = Tail(fwd[l])]
        /\ dataPkts' = [dataPkts EXCEPT ![r] = Append(dataPkts[r], p)]
        /\ UNCHANGED <<mPacket, ackTimer, queueEmpty, fatal>>
    BY <1>11 DEF Enqueue
  <2>2. p \in Packets /\ p.seq = m.seq /\ r \in Sender
    BY <1>0, <1>6, <2>1
  <2>3. fwd' \in [Sender -> Seq(Packets)]
    BY <1>2, <2>1 DEF TypeOK
  <2>4. dataPkts' \in [Sender -> Seq(Packets)]
    BY <2>1, <2>2, NodeTypes, PktAppend DEF TypeOK
  <2>6. TypeOK'
    BY <1>1, <1>4, <1>5, <2>1, <2>3, <2>4 DEF TypeOK, bound
  <2>7. ASSUME NEW n \in Sender
        PROVE  UpTo(fwd'[n], Got(n)') /\ UpTo(mPacket'[n], Got(n)') /\ UpTo(dataPkts'[n], Got(n)')
    <3> PICK b \in Int : b = Got(n)'
      BY <1>7
    <3>1. UpTo(fwd[n], b) /\ UpTo(mPacket[n], b) /\ UpTo(dataPkts[n], b)
      BY <1>7, OffersGrow
    <3>2. CASE n = r
      <4>2. UpTo(Append(dataPkts[r], p), b)
        BY <1>3, <1>7, <2>2, <3>1, <3>2, NodeTypes, UpToOps
      <4>3. fwd'[n] = fwd[n] /\ dataPkts'[n] = Append(dataPkts[r], p)
        BY <1>0, <2>1, <3>2 DEF TypeOK
      <4> QED BY <2>1, <3>1, <4>2, <4>3
    <3>3. CASE n = l
      <4>1. fwd'[n] = Tail(fwd[l]) /\ dataPkts'[n] = dataPkts[n]
        BY <1>0, <2>1, <3>3 DEF TypeOK
      <4> QED BY <1>t, <2>1, <3>1, <3>3, <4>1
    <3>4. CASE n # r /\ n # l
      <4>1. fwd'[n] = fwd[n] /\ dataPkts'[n] = dataPkts[n]
        BY <2>1, <3>4 DEF TypeOK
      <4> QED BY <2>1, <3>1, <4>1
    <3> QED BY <3>2, <3>3, <3>4
  <2> QED BY <2>6, <2>7 DEF Offers
<1> QED BY <1>1, <1>9, <1>10, <1>11

\* Dropping a data packet keeps types and Offers.
LEMMA DropDataStep ==
    ASSUME TypeOK, Offers, NEW r \in Receiver, DropData(r)
    PROVE  TypeOK' /\ Offers'
<1> PICK l : l = r - 1
  OBVIOUS
<1>0. l \in Sender /\ l \in 1 .. N
  BY Nodes
<1>1. /\ fwd[l] # <<>> /\ fwd' = [fwd EXCEPT ![l] = Tail(fwd[l])]
      /\ UNCHANGED <<seqno, prevSeq, dataPkts, mPacket, ackTimer, queueEmpty, fatal, back, bound>>
  BY DEF DropData, node
<1>2. fwd[l] \in Seq(Packets) /\ Tail(fwd[l]) \in Seq(Packets)
  BY <1>0, <1>1, NodeTypes, PktTail
<1>3. fwd' \in [Sender -> Seq(Packets)]
  BY <1>1, <1>2 DEF TypeOK
<1>4. TypeOK'
  BY <1>1, <1>3 DEF TypeOK, bound
<1>5. ASSUME NEW n \in Sender
      PROVE  UpTo(fwd'[n], Got(n)') /\ UpTo(mPacket'[n], Got(n)') /\ UpTo(dataPkts'[n], Got(n)')
  <2>1. Got(n)' = Got(n) /\ mPacket'[n] = mPacket[n] /\ dataPkts'[n] = dataPkts[n]
    BY <1>1 DEF Got
  <2>2. UpTo(fwd[n], Got(n)) /\ UpTo(mPacket[n], Got(n)) /\ UpTo(dataPkts[n], Got(n))
    BY DEF Offers
  <2>3. CASE n = l
    <3>1. fwd'[n] = Tail(fwd[n])
      BY <1>1, <2>3 DEF TypeOK
    <3>2. UpTo(Tail(fwd[n]), Got(n))
      BY <1>0, <1>1, <1>2, <2>2, <2>3, NodeTypes, UpToOps
    <3> QED BY <2>1, <2>2, <3>1, <3>2
  <2>4. CASE n # l
    BY <1>1, <2>1, <2>2, <2>4 DEF TypeOK
  <2> QED BY <2>3, <2>4
<1> QED BY <1>4, <1>5 DEF Offers

\* An ACK for this node keeps types and Offers.
LEMMA RecvAckStep ==
    ASSUME TypeOK, Offers, NEW k \in Sender, RecvAck(k)
    PROVE  TypeOK' /\ Offers'
<1>1. /\ back[k] # <<>> /\ back' = [back EXCEPT ![k] = Tail(back[k])]
      /\ UNCHANGED <<seqno, prevSeq, fatal, bound>>
      /\ SendNext(k) \/ GoIdle(k)
  BY DEF RecvAck
<1>2. back' \in [Sender -> Seq(Sender)]
  <2>1. Tail(back[k]) \in Seq(Sender)
    BY <1>1, NodeTypes
  <2> QED BY <1>1, <2>1 DEF TypeOK
<1>3. \A n \in Sender : Got(n)' = Got(n)
  BY <1>1 DEF Got
<1>4. CASE GoIdle(k)
  <2>1. UNCHANGED <<mPacket, dataPkts, fwd>>
    BY <1>4 DEF GoIdle
  <2>2. ackTimer' \in [Sender -> BOOLEAN] /\ queueEmpty' \in [Sender -> {0, 1}]
    BY <1>4 DEF GoIdle, TypeOK
  <2>3. TypeOK'
    BY <1>1, <1>2, <2>1, <2>2 DEF TypeOK, bound
  <2>4. Offers'
    BY <1>3, <2>1 DEF Offers
  <2> QED BY <2>3, <2>4
<1>5. CASE SendNext(k)
  <2> PICK p : p = Head(dataPkts[k])
    OBVIOUS
  <2>1. /\ dataPkts[k] # <<>>
        /\ mPacket' = [mPacket EXCEPT ![k] = <<p>>]
        /\ dataPkts' = [dataPkts EXCEPT ![k] = Tail(dataPkts[k])]
        /\ fwd' = [fwd EXCEPT ![k] = Append(fwd[k], p)]
    BY <1>5 DEF SendNext
  <2>2. /\ p \in Packets /\ Tail(dataPkts[k]) \in Seq(Packets)
        /\ dataPkts[k] \in Seq(Packets) /\ fwd[k] \in Seq(Packets)
    BY <2>1, NodeTypes, PktTail
  <2>3. ackTimer' \in [Sender -> BOOLEAN] /\ queueEmpty' \in [Sender -> {0, 1}]
    BY <1>5 DEF SendNext, TypeOK
  <2>4. mPacket' \in [Sender -> Seq(Packets)] /\ dataPkts' \in [Sender -> Seq(Packets)]
    BY <2>1, <2>2, PktOne DEF TypeOK
  <2>5. fwd' \in [Sender -> Seq(Packets)]
    BY <2>1, <2>2, PktAppend DEF TypeOK
  <2>6. TypeOK'
    BY <1>1, <1>2, <2>3, <2>4, <2>5 DEF TypeOK, bound
  <2>7. ASSUME NEW n \in Sender
        PROVE  UpTo(fwd'[n], Got(n)) /\ UpTo(mPacket'[n], Got(n)) /\ UpTo(dataPkts'[n], Got(n))
    <3>1. UpTo(fwd[n], Got(n)) /\ UpTo(mPacket[n], Got(n)) /\ UpTo(dataPkts[n], Got(n))
      BY DEF Offers
    <3>2. CASE n = k
      <4>0. Got(n) \in Int
        BY NodeTypes, Nodes
      <4>1. p.seq <= Got(n) /\ UpTo(Tail(dataPkts[k]), Got(n))
        BY <2>1, <2>2, <3>1, <3>2, <4>0, UpToOps
      <4>2. UpTo(<<p>>, Got(n))
        BY <2>2, <4>1, PktOne DEF UpTo
      <4>3. UpTo(Append(fwd[k], p), Got(n))
        BY <2>2, <3>1, <3>2, <4>0, <4>1, UpToOps
      <4>4. fwd'[n] = Append(fwd[k], p) /\ mPacket'[n] = <<p>> /\ dataPkts'[n] = Tail(dataPkts[k])
        BY <2>1, <3>2 DEF TypeOK
      <4> QED BY <4>1, <4>2, <4>3, <4>4
    <3>3. CASE n # k
      BY <2>1, <3>1, <3>3 DEF TypeOK
    <3> QED BY <3>2, <3>3
  <2> QED BY <1>3, <2>6, <2>7 DEF Offers
<1> QED BY <1>1, <1>4, <1>5

\* Passing an ACK on keeps types and Offers.
LEMMA RelayAckStep ==
    ASSUME TypeOK, Offers, NEW k \in Sender, RelayAck(k)
    PROVE  TypeOK' /\ Offers'
<1>1. /\ back[k] # <<>>
      /\ back' = [back EXCEPT ![k] = Tail(@), ![k - 1] = Append(@, Head(back[k]))]
      /\ UNCHANGED <<node, fwd, bound>>
  BY DEF RelayAck
<1>2. Tail(back[k]) \in Seq(Sender) /\ Head(back[k]) \in Sender
  BY <1>1, NodeTypes
<1>3. k - 1 \in Sender => Append(back[k - 1], Head(back[k])) \in Seq(Sender)
  BY <1>2, NodeTypes
<1>4. k # k - 1
  BY DEF Sender
<1>5. back' \in [Sender -> Seq(Sender)]
  BY <1>1, <1>2, <1>3, <1>4 DEF TypeOK
<1>6. TypeOK' /\ Offers'
  BY <1>1, <1>5 DEF TypeOK, node, bound, Offers, Got
<1> QED BY <1>6

\* A retransmission keeps types and Offers.
LEMMA AckTimerStep ==
    ASSUME TypeOK, Offers, NEW k \in Sender, ACKTimerExpire(k)
    PROVE  TypeOK' /\ Offers'
<1>1. /\ fwd' = [fwd EXCEPT ![k] = fwd[k] \o mPacket[k]]
      /\ UNCHANGED <<node, back, dataLosses, ackLosses>>
  BY DEF ACKTimerExpire
<1>2. fwd[k] \in Seq(Packets) /\ mPacket[k] \in Seq(Packets)
  BY NodeTypes
<1>3. fwd' \in [Sender -> Seq(Packets)]
  BY <1>1, <1>2, PktConcat DEF TypeOK
<1>4. early' \in 0 .. MaxEarly
  BY BypassAssumption DEF ACKTimerExpire, TypeOK
<1>5. TypeOK'
  BY <1>1, <1>3, <1>4 DEF TypeOK, node
<1>6. ASSUME NEW n \in Sender
      PROVE  UpTo(fwd'[n], Got(n)') /\ UpTo(mPacket'[n], Got(n)') /\ UpTo(dataPkts'[n], Got(n)')
  <2>1. Got(n)' = Got(n) /\ mPacket'[n] = mPacket[n] /\ dataPkts'[n] = dataPkts[n]
    BY <1>1 DEF Got, node
  <2>2. UpTo(fwd[n], Got(n)) /\ UpTo(mPacket[n], Got(n)) /\ UpTo(dataPkts[n], Got(n))
    BY DEF Offers
  <2>3. CASE n = k
    <3>1. fwd'[n] = fwd[n] \o mPacket[n]
      BY <1>1, <2>3 DEF TypeOK
    <3>0. Got(n) \in Int
      BY NodeTypes, Nodes
    <3>2. UpTo(fwd[n] \o mPacket[n], Got(n))
      BY <1>2, <2>2, <2>3, <3>0, UpToOps
    <3> QED BY <2>1, <2>2, <3>1, <3>2
  <2>4. CASE n # k
    BY <1>1, <2>1, <2>2, <2>4 DEF TypeOK
  <2> QED BY <2>3, <2>4
<1> QED BY <1>5, <1>6 DEF Offers

\* A loss keeps types and Offers.
LEMMA LossStep ==
    ASSUME TypeOK, Offers, NEW k \in Sender, LoseData(k) \/ LoseAck(k)
    PROVE  TypeOK' /\ Offers'
<1>1. CASE LoseData(k)
  <2>1. /\ fwd[k] # <<>> /\ fwd' = [fwd EXCEPT ![k] = Tail(fwd[k])]
        /\ UNCHANGED <<node, back, ackLosses, early>>
    BY <1>1 DEF LoseData
  <2>2. fwd[k] \in Seq(Packets) /\ Tail(fwd[k]) \in Seq(Packets)
    BY <2>1, NodeTypes, PktTail
  <2>3. fwd' \in [Sender -> Seq(Packets)]
    BY <2>1, <2>2 DEF TypeOK
  <2>4. dataLosses' \in 0 .. MaxDataLosses
    BY <1>1, BypassAssumption DEF LoseData, TypeOK
  <2>5. TypeOK'
    BY <2>1, <2>3, <2>4 DEF TypeOK, node
  <2>6. ASSUME NEW n \in Sender
        PROVE  UpTo(fwd'[n], Got(n)') /\ UpTo(mPacket'[n], Got(n)') /\ UpTo(dataPkts'[n], Got(n)')
    <3>1. Got(n)' = Got(n) /\ mPacket'[n] = mPacket[n] /\ dataPkts'[n] = dataPkts[n]
      BY <2>1 DEF Got, node
    <3>2. UpTo(fwd[n], Got(n)) /\ UpTo(mPacket[n], Got(n)) /\ UpTo(dataPkts[n], Got(n))
      BY DEF Offers
    <3>3. CASE n = k
      <4>1. fwd'[n] = Tail(fwd[n])
        BY <2>1, <3>3 DEF TypeOK
      <4>0. Got(n) \in Int
        BY NodeTypes, Nodes
      <4>2. UpTo(Tail(fwd[n]), Got(n))
        BY <2>1, <2>2, <3>2, <3>3, <4>0, UpToOps
      <4> QED BY <3>1, <3>2, <4>1, <4>2
    <3>4. CASE n # k
      BY <2>1, <3>1, <3>2, <3>4 DEF TypeOK
    <3> QED BY <3>3, <3>4
  <2> QED BY <2>5, <2>6 DEF Offers
<1>2. CASE LoseAck(k)
  <2>1. /\ back[k] # <<>> /\ back' = [back EXCEPT ![k] = Tail(back[k])]
        /\ UNCHANGED <<node, fwd, dataLosses, early>>
    BY <1>2 DEF LoseAck
  <2>2. Tail(back[k]) \in Seq(Sender)
    BY <2>1, NodeTypes
  <2>3. back' \in [Sender -> Seq(Sender)]
    BY <2>1, <2>2 DEF TypeOK
  <2>4. ackLosses' \in 0 .. MaxAckLosses
    BY <1>2, BypassAssumption DEF LoseAck, TypeOK
  <2>5. TypeOK' /\ Offers'
    BY <2>1, <2>3, <2>4 DEF TypeOK, node, Offers, Got
  <2> QED BY <2>5
<1> QED BY <1>1, <1>2

\* Types and offers hold initially and are preserved by every step.
LEMMA OrderInit == Init => TypeOK /\ Offers
<1> SUFFICES ASSUME Init PROVE TypeOK /\ Offers
  OBVIOUS
<1>1. <<>> \in Seq(Packets) /\ <<>> \in Seq(Sender) /\ \A b : UpTo(<<>>, b)
  BY DEF UpTo
<1>2. TypeOK
  <2>1. /\ fwd \in [Sender -> Seq(Packets)] /\ mPacket \in [Sender -> Seq(Packets)]
        /\ dataPkts \in [Sender -> Seq(Packets)]
    BY <1>1 DEF Init
  <2>2. back \in [Sender -> Seq(Sender)]
    BY <1>1 DEF Init
  <2>3. /\ seqno \in {1, K + 1} /\ prevSeq \in [Receiver -> 0 .. K]
        /\ dataLosses \in 0 .. MaxDataLosses
        /\ ackLosses \in 0 .. MaxAckLosses /\ early \in 0 .. MaxEarly
    BY BypassAssumption DEF Init
  <2>4. ackTimer \in [Sender -> BOOLEAN] /\ queueEmpty \in [Sender -> {0, 1}] /\ fatal \in BOOLEAN
    BY DEF Init
  <2> QED BY <2>1, <2>2, <2>3, <2>4 DEF TypeOK
<1>3. Offers
  BY <1>1 DEF Init, Offers
<1> QED BY <1>2, <1>3

\* Every step keeps types and Offers, whatever the block table.
LEMMA OrderNext == TypeOK /\ Offers /\ [Next]_vars => TypeOK' /\ Offers'
<1> SUFFICES ASSUME TypeOK, Offers, [Next]_vars PROVE TypeOK' /\ Offers'
  OBVIOUS
<1>1. CASE UNCHANGED vars
  BY <1>1 DEF vars, node, bound, TypeOK, Offers, Got
<1>2. CASE Next
  BY <1>2, PacketTimerStep, RecvDataStep, DropDataStep, RecvAckStep, RelayAckStep,
     AckTimerStep, LossStep DEF Next
<1> QED BY <1>1, <1>2

\* Bypass is type correct for every chain, block table and number of packets.
THEOREM TypeCorrect == Spec => []TypeOK
<1>1. Spec => [](TypeOK /\ Offers)
  BY OrderInit, OrderNext, PTL DEF Spec
<1> QED BY <1>1, PTL

-----------------------------------------------------------------------------
(* The refinement of OrderedPipe.                                          *)

\* A step either leaves every Got alone, or numbers the source's packets, or
\* gives one node the next packet, which the node before it has.
LEMMA GotStep ==
    ASSUME TypeOK, Offers, [Next]_vars
    PROVE  \/ \A n \in 1 .. N : Got(n)' = Got(n)
           \/ /\ Got(1) = 0 /\ Got(1)' = K
              /\ \A n \in 1 .. N : n # 1 => Got(n)' = Got(n)
           \/ \E r \in 2 .. N : /\ Got(r) < Got(r - 1) /\ Got(r)' = Got(r) + 1
                                /\ \A n \in 1 .. N : n # r => Got(n)' = Got(n)
<1>1. CASE PacketTimerExpire
  <2>1. seqno = 1 /\ seqno' = K + 1 /\ prevSeq' = prevSeq
    BY <1>1 DEF PacketTimerExpire
  <2> QED BY <2>1, BypassAssumption DEF Got
<1>2. ASSUME NEW r \in Receiver, RecvData(r)
      PROVE  /\ Got(r) < Got(r - 1) /\ Got(r)' = Got(r) + 1
             /\ \A n \in 1 .. N : n # r => Got(n)' = Got(n)
  <2> PICK l : l = r - 1
    OBVIOUS
  <2> PICK m : m = Head(fwd[l])
    OBVIOUS
  <2>0. l \in Sender /\ l \in 1 .. N /\ r \in 1 .. N /\ r # 1
    BY Nodes
  <2>1. /\ fwd[l] # <<>> /\ m.seq = prevSeq[r] + 1
        /\ prevSeq' = [prevSeq EXCEPT ![r] = m.seq] /\ seqno' = seqno
    BY <1>2 DEF RecvData, InOrder
  <2>2. fwd[l] \in Seq(Packets) /\ Got(l) \in Int
    BY <2>0, NodeTypes
  <2>3. m.seq <= Got(l)
    BY <2>0, <2>1, <2>2, UpToOps DEF Offers
  <2>4. Got(r) = prevSeq[r] /\ Got(r)' = prevSeq'[r]
    BY <2>0 DEF Got
  <2>5. prevSeq'[r] = prevSeq[r] + 1 /\ prevSeq[r] \in 0 .. K
    BY <2>1 DEF TypeOK
  <2>6. ASSUME NEW n \in 1 .. N, n # r PROVE Got(n)' = Got(n)
    BY <2>1, <2>6 DEF Got, TypeOK
  <2> QED BY <2>1, <2>2, <2>3, <2>4, <2>5, <2>6
<1>3. ASSUME seqno' = seqno, prevSeq' = prevSeq PROVE \A n \in 1 .. N : Got(n)' = Got(n)
  BY <1>3 DEF Got
<1>4. CASE UNCHANGED vars
  BY <1>3, <1>4 DEF vars, node
<1>5. ASSUME NEW r \in Receiver, DropData(r) PROVE seqno' = seqno /\ prevSeq' = prevSeq
  BY <1>5 DEF DropData, node
<1>6. ASSUME NEW k \in Sender,
             RecvAck(k) \/ RelayAck(k) \/ ACKTimerExpire(k) \/ LoseData(k) \/ LoseAck(k)
      PROVE  seqno' = seqno /\ prevSeq' = prevSeq
  BY <1>6 DEF RecvAck, RelayAck, ACKTimerExpire, LoseData, LoseAck, node
<1>7. CASE \E r \in Receiver : RecvData(r)
  BY <1>2, <1>7 DEF Receiver
<1> QED BY <1>1, <1>3, <1>4, <1>5, <1>6, <1>7 DEF Next

\* For every chain, block table and pattern of losses and timeouts, packets
\* reach every node in sequence, once, and after the node before it.
THEOREM Ordered == Spec => InSequence
<1> DEFINE g == [n \in 1 .. N |-> Got(n)]
<1>1. Init => Pipe!Init
  <2> SUFFICES ASSUME Init PROVE \A n \in 1 .. N : Got(n) = 0
    BY DEF Pipe!Init
  <2>1. \A n \in 1 .. N : n = 1 \/ n \in Receiver
    BY BypassAssumption DEF Receiver
  <2> QED BY <2>1 DEF Init, Got
<1>2. ASSUME TypeOK, Offers, [Next]_vars PROVE [Pipe!Next]_g
  <2>0. /\ g' = [n \in 1 .. N |-> Got(n)']
        /\ \A n \in 1 .. N : g[n] = Got(n)
    OBVIOUS
  <2>1. CASE \A n \in 1 .. N : Got(n)' = Got(n)
    BY <2>0, <2>1
  <2>2. CASE /\ Got(1) = 0 /\ Got(1)' = K
             /\ \A n \in 1 .. N : n # 1 => Got(n)' = Got(n)
    <3>1. g[1] = 0
      BY <2>0, <2>2, Nodes
    <3>2. g' = [g EXCEPT ![1] = K]
      BY <2>0, <2>2, Nodes
    <3> QED BY <3>1, <3>2 DEF Pipe!Next, Pipe!Load
  <2>3. CASE \E r \in 2 .. N : /\ Got(r) < Got(r - 1) /\ Got(r)' = Got(r) + 1
                               /\ \A n \in 1 .. N : n # r => Got(n)' = Got(n)
    <3> PICK r \in 2 .. N : /\ Got(r) < Got(r - 1) /\ Got(r)' = Got(r) + 1
                            /\ \A n \in 1 .. N : n # r => Got(n)' = Got(n)
      BY <2>3
    <3>1. r \in 1 .. N /\ r - 1 \in 1 .. N
      BY BypassAssumption
    <3>2. g[r] < g[r - 1]
      BY <2>0, <3>1
    <3>3. g' = [g EXCEPT ![r] = g[r] + 1]
      BY <2>0, <3>1
    <3> QED BY <3>2, <3>3 DEF Pipe!Next, Pipe!Pass
  <2> QED BY <1>2, <2>1, <2>2, <2>3, GotStep
<1>3. Spec => [](TypeOK /\ Offers)
  BY OrderInit, OrderNext, PTL DEF Spec
<1> QED BY <1>1, <1>2, <1>3, PTL DEF Spec, InSequence, Pipe!Spec

-----------------------------------------------------------------------------
(* Stop-and-wait on every hop of the hop-by-hop table.                     *)

\* The outstanding packet's number.
LEMMA CurType ==
    ASSUME TypeOK, NEW n \in Sender
    PROVE  /\ Cur(n) \in 0 .. K
           /\ Cur(n) = 0 <=> mPacket[n] = <<>>
           /\ mPacket[n] # <<>> => mPacket[n][1] \in Packets /\ mPacket[n][1].seq = Cur(n)
<1>1. mPacket[n] \in Seq(Packets)
  BY NodeTypes
<1>2. CASE mPacket[n] = <<>>
  BY <1>2, BypassAssumption DEF Cur
<1>3. CASE mPacket[n] # <<>>
  <2>1. mPacket[n][1] \in Packets
    BY <1>1, <1>3, PktTail
  <2>2. mPacket[n][1].seq \in 1 .. K
    BY <2>1 DEF Packets
  <2> QED BY <1>3, <2>1, <2>2, BypassAssumption DEF Cur
<1> QED BY <1>2, <1>3

\* A hop whose state a step leaves alone stays as it was.
LEMMA HopFrame ==
    ASSUME NEW n \in Sender, HopOK(n),
           fwd'[n] = fwd[n], mPacket'[n] = mPacket[n], dataPkts'[n] = dataPkts[n],
           ackTimer'[n] = ackTimer[n], queueEmpty'[n] = queueEmpty[n], back'[n] = back[n],
           prevSeq'[n + 1] = prevSeq[n + 1], Got(n)' = Got(n),
           n = 1 => seqno' = seqno
    PROVE  HopOK(n)'
<1>1. Cur(n)' = Cur(n)
  BY DEF Cur
<1>2. InFlightOK(n)' /\ OutstandingOK(n)'
  BY <1>1 DEF HopOK, InFlightOK, OutstandingOK, OwnBlock, UpTo
<1>3. QueueOK(n)' /\ AckOK(n)' /\ FlagOK(n)'
  BY <1>1 DEF HopOK, QueueOK, AckOK, FlagOK, OwnBlock
<1> QED BY <1>2, <1>3 DEF HopOK

\* Losing or dropping the first packet in flight.
LEMMA InFlightTail ==
    ASSUME TypeOK, NEW n \in Sender, InFlightOK(n), fwd[n] # <<>>
    PROVE  OwnBlock(n, Tail(fwd[n])) /\ UpTo(Tail(fwd[n]), Cur(n))
           /\ Head(fwd[n]).bs = n /\ Head(fwd[n]).bd = n + 1 /\ Head(fwd[n]).seq <= Cur(n)
<1>1. fwd[n] \in Seq(Packets) /\ Cur(n) \in Int
  BY NodeTypes, CurType
<1>2. UpTo(Tail(fwd[n]), Cur(n)) /\ Head(fwd[n]).seq <= Cur(n)
  BY <1>1, UpToOps DEF InFlightOK
<1>3. OwnBlock(n, Tail(fwd[n])) /\ Head(fwd[n]).bs = n /\ Head(fwd[n]).bd = n + 1
  BY <1>1, PktTail DEF InFlightOK, OwnBlock
<1> QED BY <1>2, <1>3

\* Sending a packet of the hop's own block.
LEMMA OwnAppend ==
    ASSUME NEW n \in Sender, NEW s \in Seq(Packets), NEW p \in Packets,
           OwnBlock(n, s), p.bs = n, p.bd = n + 1
    PROVE  OwnBlock(n, Append(s, p))
  BY PktAppend DEF OwnBlock

\* Two sequences of own packets make one.
LEMMA OwnConcat ==
    ASSUME NEW n, NEW s \in Seq(Packets), NEW t \in Seq(Packets), OwnBlock(n, s), OwnBlock(n, t)
    PROVE  OwnBlock(n, s \o t)
<1> SUFFICES ASSUME NEW i \in 1 .. Len(s \o t)
             PROVE  (s \o t)[i].bs = n /\ (s \o t)[i].bd = n + 1
  BY DEF OwnBlock
<1>1. Len(s) \in Nat /\ Len(t) \in Nat
  OBVIOUS
<1>2. i \in 1 .. Len(s) + Len(t)
  BY PktConcat
<1>3. CASE i <= Len(s)
  BY <1>1, <1>2, <1>3, PktConcat DEF OwnBlock
<1>4. CASE ~ (i <= Len(s))
  <2>1. (s \o t)[i] = t[i - Len(s)]
    BY <1>2, <1>4, PktConcat
  <2>2. i - Len(s) \in 1 .. Len(t)
    BY <1>1, <1>2, <1>4
  <2> QED BY <2>1, <2>2 DEF OwnBlock
<1> QED BY <1>3, <1>4

\* PacketTimerExpire starts stop-and-wait on the first hop.
LEMMA PacketTimerHop ==
    ASSUME TypeOK, TypeOK', StopAndWait, PacketTimerExpire
    PROVE  StopAndWait'
<1> PICK p : p = Packet(1, 1, 2)
  OBVIOUS
<1> PICK q : q = [i \in 1 .. K - 1 |-> Packet(i + 1, 1, 2)]
  OBVIOUS
<1>0. 1 \in Sender /\ 1 \in 1 .. K /\ K \in Nat /\ 2 \in Receiver
  BY Nodes, BypassAssumption
<1>1. /\ seqno = 1 /\ seqno' = K + 1
      /\ mPacket' = [mPacket EXCEPT ![1] = <<p>>]
      /\ dataPkts' = [dataPkts EXCEPT ![1] = q]
      /\ fwd' = [fwd EXCEPT ![1] = Append(fwd[1], p)]
      /\ ackTimer' = [ackTimer EXCEPT ![1] = TRUE]
      /\ fatal' = (fatal \/ ackTimer[1])
      /\ UNCHANGED <<prevSeq, queueEmpty, back>>
  BY DEF PacketTimerExpire
<1>2. HopOK(1) /\ ~ fatal
  BY <1>0 DEF StopAndWait
<1>3. ~ ackTimer[1]
  BY <1>1, <1>2 DEF HopOK, FlagOK
<1>4. ~ fatal'
  BY <1>1, <1>2, <1>3
<1>5. prevSeq[2] = 0
  <2>1. Got(1) = 0
    BY <1>1 DEF Got
  <2>2. Len(dataPkts[1]) \in Nat /\ Cur(1) \in 0 .. K
    BY <1>0, NodeTypes, CurType
  <2>3. Cur(1) = 0
    BY <1>2, <2>1, <2>2 DEF HopOK, QueueOK
  <2> QED BY <1>2, <1>3, <2>3 DEF HopOK, OutstandingOK
<1>6. p \in Packets /\ p.seq = 1 /\ p.bs = 1 /\ p.bd = 2
  BY <1>0, SourcePackets
<1>7. /\ mPacket'[1] = <<p>> /\ dataPkts'[1] = q /\ fwd'[1] = Append(fwd[1], p)
      /\ ackTimer'[1] = TRUE
  BY <1>0, <1>1 DEF TypeOK
<1>8. Cur(1)' = 1
  BY <1>6, <1>7, PktOne DEF Cur
<1>9. Got(1)' = K
  BY <1>0, <1>1 DEF Got
<1>10. InFlightOK(1)'
  <2>1. OwnBlock(1, fwd[1]) /\ UpTo(fwd[1], Cur(1)) /\ Cur(1) \in 0 .. K /\ fwd[1] \in Seq(Packets)
    BY <1>0, <1>2, CurType, NodeTypes DEF HopOK, InFlightOK
  <2>2. OwnBlock(1, Append(fwd[1], p))
    BY <1>0, <1>6, <2>1, OwnAppend
  <2>3. Cur(1) <= 1
    <3>1. Len(dataPkts[1]) \in Nat
      BY <1>0, NodeTypes
    <3>2. Got(1) = 0
      BY <1>1 DEF Got
    <3> QED BY <1>2, <2>1, <3>1, <3>2 DEF HopOK, QueueOK
  <2>4. UpTo(fwd[1], 1)
    BY <2>1, <2>3, UpToOps
  <2>5. UpTo(Append(fwd[1], p), 1)
    BY <1>6, <2>1, <2>4, UpToOps
  <2> QED BY <1>7, <1>8, <2>2, <2>5 DEF InFlightOK
<1>11. OutstandingOK(1)'
  <2>1. OwnBlock(1, <<p>>) /\ Len(<<p>>) = 1
    BY <1>6, PktOne DEF OwnBlock
  <2>2. prevSeq'[2] = 0
    BY <1>1, <1>5
  <2> QED BY <1>7, <1>8, <2>1, <2>2 DEF OutstandingOK
<1>12. QueueOK(1)'
  <2>1. \A i \in 1 .. K - 1 : Packet(i + 1, 1, 2).seq = i + 1 /\ Packet(i + 1, 1, 2).bs = 1
                              /\ Packet(i + 1, 1, 2).bd = 2
    BY DEF Packet
  <2>2. Len(q) = K - 1 /\ \A i \in 1 .. K - 1 : q[i] = Packet(i + 1, 1, 2)
    BY <1>0, BypassAssumption
  <2>3. OwnBlock(1, q) /\ \A i \in 1 .. Len(q) : q[i].seq = 1 + i
    <3>1. \A i \in 1 .. Len(q) : q[i].seq = i + 1 /\ q[i].bs = 1 /\ q[i].bd = 2
      BY <2>1, <2>2
    <3> QED BY <1>0, <2>2, <3>1 DEF OwnBlock
  <2> QED BY <1>7, <1>8, <1>9, <2>2, <2>3 DEF QueueOK
<1>13. AckOK(1)' /\ FlagOK(1)'
  <2>1. back[1] = <<>>
    BY <1>2, <1>3 DEF HopOK, AckOK
  <2>2. K + 1 # 1
    BY BypassAssumption
  <2> QED BY <1>1, <2>1, <2>2 DEF AckOK, FlagOK
<1>14. HopOK(1)'
  BY <1>10, <1>11, <1>12, <1>13 DEF HopOK
<1>15. ASSUME NEW n \in Sender, n # 1 PROVE HopOK(n)'
  <2>1. /\ fwd'[n] = fwd[n] /\ mPacket'[n] = mPacket[n] /\ dataPkts'[n] = dataPkts[n]
        /\ ackTimer'[n] = ackTimer[n]
    BY <1>1, <1>15 DEF TypeOK
  <2>2. Got(n)' = Got(n)
    BY <1>1, <1>15 DEF Got
  <2>3. HopOK(n)
    BY DEF StopAndWait
  <2> QED BY <1>1, <1>15, <2>1, <2>2, <2>3, HopFrame
<1> QED BY <1>4, <1>14, <1>15 DEF StopAndWait

\* What RecvData of node r does to the hop it arrives on: the packet is the
\* outstanding one, and its ACK is the only one.
LEMMA RecvDataArrival ==
    ASSUME HopByHop, TypeOK, StopAndWait, NEW r \in Receiver, NEW l, l = r - 1, RecvData(r),
           fwd'[l] = Tail(fwd[l]), mPacket'[l] = mPacket[l], dataPkts'[l] = dataPkts[l],
           ackTimer'[l] = ackTimer[l], queueEmpty'[l] = queueEmpty[l]
    PROVE  HopOK(l)'
<1>0. l \in Sender /\ l + 1 = r
  BY Nodes DEF Receiver
<1> PICK m : m = Head(fwd[l])
  OBVIOUS
<1>1. /\ fwd[l] # <<>> /\ m.seq = prevSeq[r] + 1
      /\ prevSeq' = [prevSeq EXCEPT ![r] = m.seq]
      /\ AckData(r, m) /\ seqno' = seqno
  BY DEF RecvData, InOrder
<1>2. HopOK(l)
  BY <1>0 DEF StopAndWait
<1>3. /\ OwnBlock(l, Tail(fwd[l])) /\ UpTo(Tail(fwd[l]), Cur(l))
      /\ m.bs = l /\ m.bd = r /\ m.seq <= Cur(l)
  BY <1>0, <1>1, <1>2, InFlightTail DEF HopOK
<1>4. Cur(l) \in 0 .. K /\ prevSeq[r] \in 0 .. K
  BY <1>0, CurType, NodeTypes
<1>5. prevSeq[r] = Cur(l) - 1 /\ m.seq = Cur(l) /\ ackTimer[l]
  BY <1>0, <1>1, <1>2, <1>3, <1>4 DEF HopOK, OutstandingOK
<1>6. back[l] = <<>>
  BY <1>0, <1>2, <1>4, <1>5 DEF HopOK, AckOK
<1>7. back' = [back EXCEPT ![l] = Append(back[l], l)]
  BY <1>1, <1>3 DEF AckData
<1>8. back'[l] = <<l>>
  BY <1>0, <1>6, <1>7 DEF TypeOK
<1>9. prevSeq'[l + 1] = Cur(l)
  BY <1>0, <1>1, <1>5 DEF TypeOK
<1>10. Cur(l)' = Cur(l)
  BY DEF Cur
<1>11. Got(l)' = Got(l)
  <2>1. CASE l = 1
    BY <1>1, <2>1 DEF Got
  <2>2. CASE l # 1
    <3>1. l # r
      BY <1>0 DEF Sender
    <3>2. prevSeq'[l] = prevSeq[l]
      BY <1>0, <1>1, <2>2, <3>1 DEF TypeOK, Sender, Receiver
    <3> QED BY <2>2, <3>2 DEF Got
  <2> QED BY <2>1, <2>2
<1>12. InFlightOK(l)'
  BY <1>3, <1>10 DEF InFlightOK, OwnBlock, UpTo
<1>13. OutstandingOK(l)'
  BY <1>2, <1>5, <1>9, <1>10 DEF HopOK, OutstandingOK, OwnBlock
<1>14. QueueOK(l)'
  BY <1>2, <1>10, <1>11 DEF HopOK, QueueOK, OwnBlock
<1>15. AckOK(l)'
  BY <1>5, <1>8, <1>9, <1>10 DEF AckOK
<1>16. FlagOK(l)'
  BY <1>1, <1>2 DEF HopOK, FlagOK
<1> QED BY <1>12, <1>13, <1>14, <1>15, <1>16 DEF HopOK

\* Hops that RecvData of node r does not touch.
LEMMA RecvDataElsewhere ==
    ASSUME HopByHop, TypeOK, StopAndWait, NEW r \in Receiver, RecvData(r),
           NEW n \in Sender, n # r, n # r - 1,
           fwd'[n] = fwd[n], mPacket'[n] = mPacket[n], dataPkts'[n] = dataPkts[n],
           ackTimer'[n] = ackTimer[n], queueEmpty'[n] = queueEmpty[n]
    PROVE  HopOK(n)'
<1> PICK m : m = Head(fwd[r - 1])
  OBVIOUS
<1>1. prevSeq' = [prevSeq EXCEPT ![r] = m.seq] /\ AckData(r, m) /\ seqno' = seqno
  BY DEF RecvData
<1>2. n + 1 # r /\ n + 1 \in Receiver
  BY Nodes DEF Sender, Receiver
<1>3. prevSeq'[n + 1] = prevSeq[n + 1]
  BY <1>1, <1>2 DEF TypeOK
<1>4. back'[n] = back[n]
  BY <1>1 DEF AckData, TypeOK
<1>5. Got(n)' = Got(n)
  <2>1. CASE n = 1
    BY <1>1, <2>1 DEF Got
  <2>2. CASE n # 1
    <3>1. prevSeq'[n] = prevSeq[n]
      BY <1>1, <2>2 DEF TypeOK, Sender, Receiver
    <3> QED BY <2>2, <3>1 DEF Got
  <2> QED BY <2>1, <2>2
<1>6. HopOK(n)
  BY DEF StopAndWait
<1> QED BY <1>1, <1>3, <1>4, <1>5, <1>6, HopFrame

\* Accepting a data packet keeps stop-and-wait on the hops either side.
LEMMA RecvDataHop ==
    ASSUME HopByHop, TypeOK, TypeOK', StopAndWait, NEW r \in Receiver, RecvData(r)
    PROVE  StopAndWait'
<1> PICK l : l = r - 1
  OBVIOUS
<1>0. /\ l \in Sender /\ l # r /\ r # 1 /\ l + 1 = r
      /\ r # N => r \in Sender /\ r + 1 \in Receiver /\ r + 1 # r
  BY Nodes DEF Sender, Receiver
<1> PICK m : m = Head(fwd[l])
  OBVIOUS
<1>1. /\ fwd[l] # <<>> /\ m.seq = prevSeq[r] + 1
      /\ prevSeq' = [prevSeq EXCEPT ![r] = m.seq]
      /\ AckData(r, m) /\ seqno' = seqno
      /\ Deliver(r) \/ ForwardNow(r, Reheader(r, m)) \/ Enqueue(r, Reheader(r, m))
  BY DEF RecvData, InOrder
<1>2. m \in Packets /\ fwd[l] \in Seq(Packets) /\ m.seq \in 1 .. K
  <2>1. m \in Packets /\ fwd[l] \in Seq(Packets)
    BY <1>0, <1>1, NodeTypes, PktTail
  <2> QED BY <2>1 DEF Packets
<1> PICK p : p = Reheader(r, m)
  OBVIOUS
<1>3. r # N => p \in Packets /\ p.seq = m.seq /\ p.bs = r /\ p.bd = r + 1
  <2> SUFFICES ASSUME r # N PROVE p \in Packets /\ p.seq = m.seq /\ p.bs = r /\ p.bd = r + 1
    OBVIOUS
  <2>1. p \in Packets /\ p.seq = m.seq
    BY <1>0, <1>2, ReheaderOK
  <2>2. Bd[r] = r + 1 /\ Acks(r)
    BY <1>0 DEF HopByHop, Acks, Sender
  <2> QED BY <2>1, <2>2 DEF Reheader, Packet
<1>4. ~ fatal
  BY DEF StopAndWait
<1>5. CASE Deliver(r)
  <2>1. /\ fwd' = [fwd EXCEPT ![l] = Tail(fwd[l])] /\ r = N
        /\ UNCHANGED <<dataPkts, mPacket, ackTimer, queueEmpty, fatal>>
    BY <1>5 DEF Deliver
  <2>2. HopOK(l)'
    <3>1. fwd'[l] = Tail(fwd[l])
      BY <1>0, <2>1 DEF TypeOK
    <3> QED BY <2>1, <3>1, RecvDataArrival
  <2>3. ASSUME NEW n \in Sender, n # l PROVE HopOK(n)'
    <3>1. n # r
      BY <2>1 DEF Sender
    <3>2. fwd'[n] = fwd[n]
      BY <2>1, <2>3 DEF TypeOK
    <3> QED BY <2>1, <2>3, <3>1, <3>2, RecvDataElsewhere
  <2> QED BY <1>4, <2>1, <2>2, <2>3 DEF StopAndWait
<1>6. ASSUME r # N
      PROVE  /\ HopOK(r) /\ Got(r) = prevSeq[r] /\ Got(r)' = m.seq /\ m.seq = Got(r) + 1
             /\ prevSeq'[r + 1] = prevSeq[r + 1] /\ back'[r] = back[r]
             /\ prevSeq[r] \in 0 .. K /\ Cur(r) \in 0 .. K /\ Len(dataPkts[r]) \in Nat
  <2>1. HopOK(r)
    BY <1>0, <1>6 DEF StopAndWait
  <2>2. Got(r) = prevSeq[r] /\ Got(r)' = prevSeq'[r]
    BY <1>0 DEF Got
  <2>3. prevSeq'[r] = m.seq /\ prevSeq'[r + 1] = prevSeq[r + 1]
    BY <1>0, <1>1, <1>6 DEF TypeOK
  <2>4. back'[r] = back[r]
    BY <1>0, <1>1, <1>6 DEF AckData, TypeOK
  <2>5. prevSeq[r] \in 0 .. K /\ Cur(r) \in 0 .. K /\ Len(dataPkts[r]) \in Nat
    BY <1>0, <1>6, NodeTypes, CurType
  <2> QED BY <1>1, <2>1, <2>2, <2>3, <2>4, <2>5
<1>7. CASE ForwardNow(r, p)
  <2>1. /\ r # N /\ queueEmpty[r] = 0
        /\ fwd' = [fwd EXCEPT ![l] = Tail(fwd[l]), ![r] = Append(fwd[r], p)]
        /\ mPacket' = [mPacket EXCEPT ![r] = <<p>>]
        /\ UNCHANGED dataPkts
    BY <1>0, <1>7 DEF ForwardNow, TypeOK
  <2>2. /\ ackTimer' = [ackTimer EXCEPT ![r] = TRUE]
        /\ fatal' = (fatal \/ ackTimer[r])
        /\ queueEmpty' = [queueEmpty EXCEPT ![r] = 1]
    <3>1. Acks(r)
      BY <1>0, <2>1 DEF HopByHop, Acks, Sender
    <3> QED BY <1>7, <3>1 DEF ForwardNow
  <2>3. HopOK(r) /\ r \in Sender
    BY <1>0, <1>6, <2>1
  <2>4. ~ ackTimer[r]
    BY <1>0, <2>1, <2>3 DEF HopOK, FlagOK
  <2>5. /\ fwd'[r] = Append(fwd[r], p) /\ mPacket'[r] = <<p>> /\ dataPkts'[r] = dataPkts[r]
        /\ ackTimer'[r] = TRUE /\ queueEmpty'[r] = 1
    BY <1>0, <2>1, <2>2, <2>3 DEF TypeOK
  <2>6. dataPkts[r] = <<>> /\ Len(dataPkts[r]) = 0
    BY <2>3, <2>4 DEF HopOK, QueueOK
  <2>7. Got(r) = Cur(r) /\ prevSeq[r + 1] = Cur(r) /\ back[r] = <<>>
    <3>1. Len(dataPkts[r]) = Got(r) - Cur(r)
      BY <2>3 DEF HopOK, QueueOK
    <3>2. Got(r) \in Int /\ Cur(r) \in Int
      BY <1>6, <2>1
    <3>3. prevSeq[r + 1] = Cur(r) /\ back[r] = <<>>
      BY <2>3, <2>4 DEF HopOK, OutstandingOK, AckOK
    <3> QED BY <2>6, <3>1, <3>2, <3>3
  <2>8. Cur(r)' = m.seq /\ m.seq = Cur(r) + 1 /\ Got(r)' = m.seq
    <3>1. p \in Packets /\ p.seq = m.seq
      BY <1>3, <2>1
    <3>2. Cur(r)' = p.seq
      BY <2>5, <3>1, PktOne DEF Cur
    <3> QED BY <1>6, <2>1, <2>7, <3>1, <3>2
  <2>9. InFlightOK(r)'
    <3>1. OwnBlock(r, fwd[r]) /\ UpTo(fwd[r], Cur(r)) /\ fwd[r] \in Seq(Packets)
      BY <2>3, NodeTypes DEF HopOK, InFlightOK
    <3>2. OwnBlock(r, Append(fwd[r], p))
      BY <1>3, <2>1, <2>3, <3>1, OwnAppend
    <3>3. UpTo(fwd[r], m.seq)
      BY <1>6, <2>1, <2>8, <3>1, UpToOps
    <3>4. UpTo(Append(fwd[r], p), m.seq)
      BY <1>2, <1>3, <2>1, <3>1, <3>3, UpToOps
    <3> QED BY <2>5, <2>8, <3>2, <3>4 DEF InFlightOK
  <2>10. OutstandingOK(r)'
    <3>1. OwnBlock(r, <<p>>) /\ Len(<<p>>) = 1 /\ <<p>> # <<>>
      BY <1>3, <2>1, PktOne DEF OwnBlock
    <3>2. prevSeq'[r + 1] = Cur(r)' - 1
      BY <1>6, <2>1, <2>7, <2>8
    <3> QED BY <2>5, <3>1, <3>2 DEF OutstandingOK
  <2>11. QueueOK(r)'
    BY <1>6, <2>1, <2>5, <2>6, <2>8 DEF QueueOK, OwnBlock
  <2>12. AckOK(r)' /\ FlagOK(r)'
    BY <1>0, <1>6, <2>1, <2>5, <2>7 DEF AckOK, FlagOK
  <2>13. HopOK(r)'
    BY <2>9, <2>10, <2>11, <2>12 DEF HopOK
  <2>14. HopOK(l)'
    <3>1. l \in Sender /\ r \in Sender /\ l # r
      BY <1>0, <2>3
    <3>2. fwd'[l] = Tail(fwd[l])
      BY <2>1, <3>1 DEF TypeOK
    <3>3. mPacket'[l] = mPacket[l] /\ dataPkts'[l] = dataPkts[l]
      BY <2>1, <3>1 DEF TypeOK
    <3>4. ackTimer'[l] = ackTimer[l]
      BY <2>2, <3>1 DEF TypeOK
    <3>5. queueEmpty'[l] = queueEmpty[l]
      BY <2>2, <3>1 DEF TypeOK
    <3> QED BY <3>2, <3>3, <3>4, <3>5, RecvDataArrival
  <2>15. ASSUME NEW n \in Sender, n # l, n # r PROVE HopOK(n)'
    <3>1. fwd'[n] = fwd[n]
      BY <2>1, <2>15 DEF TypeOK
    <3>2. mPacket'[n] = mPacket[n] /\ dataPkts'[n] = dataPkts[n]
      BY <2>1, <2>15 DEF TypeOK
    <3>3. ackTimer'[n] = ackTimer[n] /\ queueEmpty'[n] = queueEmpty[n]
      BY <2>2, <2>15 DEF TypeOK
    <3> QED BY <2>15, <3>1, <3>2, <3>3, RecvDataElsewhere
  <2> QED BY <1>4, <2>2, <2>4, <2>13, <2>14, <2>15 DEF StopAndWait
<1>8. CASE Enqueue(r, p)
  <2>1. /\ r # N /\ queueEmpty[r] # 0
        /\ fwd' = [fwd EXCEPT ![l] = Tail(fwd[l])]
        /\ dataPkts' = [dataPkts EXCEPT ![r] = Append(dataPkts[r], p)]
        /\ UNCHANGED <<mPacket, ackTimer, queueEmpty, fatal>>
    BY <1>8 DEF Enqueue
  <2>2. HopOK(r) /\ r \in Sender
    BY <1>0, <1>6, <2>1
  <2>3. ackTimer[r]
    BY <1>0, <2>1, <2>2 DEF HopOK, FlagOK, TypeOK
  <2>4. fwd'[r] = fwd[r] /\ dataPkts'[r] = Append(dataPkts[r], p)
    BY <1>0, <2>1, <2>2 DEF TypeOK
  <2>5. Cur(r)' = Cur(r)
    BY <2>1 DEF Cur
  <2>6. InFlightOK(r)' /\ OutstandingOK(r)'
    BY <1>6, <2>1, <2>2, <2>4, <2>5 DEF HopOK, InFlightOK, OutstandingOK, OwnBlock, UpTo
  <2>7. QueueOK(r)'
    <3>1. /\ OwnBlock(r, dataPkts[r]) /\ dataPkts[r] \in Seq(Packets)
          /\ Len(dataPkts[r]) = Got(r) - Cur(r)
          /\ \A i \in 1 .. Len(dataPkts[r]) : dataPkts[r][i].seq = Cur(r) + i
      BY <2>2, NodeTypes DEF HopOK, QueueOK
    <3>2. OwnBlock(r, Append(dataPkts[r], p))
      BY <1>3, <2>1, <2>2, <3>1, OwnAppend
    <3>3. Len(Append(dataPkts[r], p)) = Got(r)' - Cur(r)
      BY <1>3, <1>6, <2>1, <3>1, PktAppend, SMTT(30)
    <3>4. ASSUME NEW i \in 1 .. Len(Append(dataPkts[r], p))
          PROVE  Append(dataPkts[r], p)[i].seq = Cur(r) + i
      <4>1. i \in 1 .. Len(dataPkts[r]) \/ i = Len(dataPkts[r]) + 1
        BY <1>3, <1>6, <2>1, <3>1, PktAppend
      <4>2. CASE i \in 1 .. Len(dataPkts[r])
        BY <1>3, <2>1, <3>1, <4>2, PktAppend
      <4>3. CASE i = Len(dataPkts[r]) + 1
        <5>1. Append(dataPkts[r], p)[i] = p
          BY <1>3, <2>1, <3>1, <4>3, PktAppend
        <5>2. p.seq = Cur(r) + i
          BY <1>3, <1>6, <2>1, <3>1, <4>3
        <5> QED BY <5>1, <5>2
      <4> QED BY <4>1, <4>2, <4>3
    <3> QED BY <2>1, <2>3, <2>4, <2>5, <3>2, <3>3, <3>4 DEF QueueOK
  <2>8. AckOK(r)' /\ FlagOK(r)'
    BY <1>0, <1>6, <2>1, <2>2, <2>5 DEF HopOK, AckOK, FlagOK
  <2>9. HopOK(r)'
    BY <2>6, <2>7, <2>8 DEF HopOK
  <2>10. HopOK(l)'
    <3>1. fwd'[l] = Tail(fwd[l]) /\ dataPkts'[l] = dataPkts[l]
      BY <1>0, <2>1 DEF TypeOK
    <3> QED BY <2>1, <3>1, RecvDataArrival
  <2>11. ASSUME NEW n \in Sender, n # l, n # r PROVE HopOK(n)'
    <3>1. fwd'[n] = fwd[n] /\ dataPkts'[n] = dataPkts[n]
      BY <2>1, <2>11 DEF TypeOK
    <3> QED BY <2>1, <2>11, <3>1, RecvDataElsewhere
  <2> QED BY <1>4, <2>1, <2>9, <2>10, <2>11 DEF StopAndWait
<1> QED BY <1>1, <1>5, <1>7, <1>8

\* Dropping a data packet keeps stop-and-wait.
LEMMA DropDataHop ==
    ASSUME TypeOK, StopAndWait, NEW k \in Sender, fwd[k] # <<>>,
           fwd' = [fwd EXCEPT ![k] = Tail(@)], UNCHANGED node, UNCHANGED back
    PROVE  StopAndWait'
<1>0. /\ UNCHANGED <<seqno, prevSeq, dataPkts, mPacket, ackTimer, queueEmpty, fatal>>
      /\ \A n \in Sender : Got(n)' = Got(n)
  BY DEF node, Got
<1>1. ASSUME NEW n \in Sender, n # k PROVE HopOK(n)'
  <2>1. fwd'[n] = fwd[n] /\ HopOK(n)
    BY <1>1 DEF TypeOK, StopAndWait
  <2> QED BY <1>0, <2>1, HopFrame
<1>2. HopOK(k)'
  <2>1. HopOK(k) /\ Cur(k)' = Cur(k) /\ fwd'[k] = Tail(fwd[k])
    BY <1>0 DEF StopAndWait, Cur, TypeOK
  <2>2. OwnBlock(k, Tail(fwd[k])) /\ UpTo(Tail(fwd[k]), Cur(k))
    BY <2>1, InFlightTail DEF HopOK
  <2>3. InFlightOK(k)'
    BY <2>1, <2>2 DEF InFlightOK
  <2>4. OutstandingOK(k)'
    BY <1>0, <2>1 DEF HopOK, OutstandingOK, OwnBlock
  <2>5. QueueOK(k)'
    BY <1>0, <2>1 DEF HopOK, QueueOK, OwnBlock
  <2>6. AckOK(k)' /\ FlagOK(k)'
    BY <1>0, <2>1 DEF HopOK, AckOK, FlagOK
  <2> QED BY <2>3, <2>4, <2>5, <2>6 DEF HopOK
<1> QED BY <1>0, <1>1, <1>2 DEF StopAndWait

\* An ACK moves its hop on to the next packet and keeps stop-and-wait.
LEMMA RecvAckHop ==
    ASSUME TypeOK, StopAndWait, NEW k \in Sender, RecvAck(k)
    PROVE  StopAndWait'
<1>1. /\ back[k] # <<>> /\ back' = [back EXCEPT ![k] = Tail(back[k])]
      /\ UNCHANGED <<seqno, prevSeq, fatal>>
      /\ SendNext(k) \/ GoIdle(k)
  BY DEF RecvAck
<1>2. HopOK(k)
  BY DEF StopAndWait
<1>3. back[k] = <<k>> /\ ackTimer[k] /\ prevSeq[k + 1] = Cur(k)
  BY <1>1, <1>2 DEF HopOK, AckOK
<1>4. back'[k] = <<>>
  BY <1>1, <1>3 DEF TypeOK
<1>5. \A n \in Sender : Got(n)' = Got(n)
  BY <1>1 DEF Got
<1>6. k = 1 => seqno # 1
  BY <1>2, <1>3 DEF HopOK, FlagOK
<1>7. ASSUME NEW n \in Sender, n # k PROVE HopOK(n)'
  <2>1. /\ fwd'[n] = fwd[n] /\ mPacket'[n] = mPacket[n] /\ dataPkts'[n] = dataPkts[n]
        /\ ackTimer'[n] = ackTimer[n] /\ queueEmpty'[n] = queueEmpty[n] /\ back'[n] = back[n]
    BY <1>1, <1>7 DEF SendNext, GoIdle, TypeOK
  <2>2. HopOK(n)
    BY DEF StopAndWait
  <2> QED BY <1>1, <1>5, <2>1, <2>2, HopFrame
<1>8. Cur(k) \in 0 .. K /\ Got(k) \in Int /\ dataPkts[k] \in Seq(Packets) /\ fwd[k] \in Seq(Packets)
  BY CurType, NodeTypes, Nodes
<1>9. CASE GoIdle(k)
  <2>1. UNCHANGED <<mPacket, dataPkts, fwd>> /\ dataPkts[k] = <<>>
    BY <1>9 DEF GoIdle
  <2>2. ackTimer'[k] = FALSE /\ queueEmpty'[k] = 0
    BY <1>9 DEF GoIdle, TypeOK
  <2>3. Cur(k)' = Cur(k)
    BY <2>1 DEF Cur
  <2>4. InFlightOK(k)'
    BY <1>2, <2>1, <2>3 DEF HopOK, InFlightOK
  <2>5. OutstandingOK(k)'
    BY <1>1, <1>2, <1>3, <2>1, <2>2, <2>3 DEF HopOK, OutstandingOK
  <2>6. QueueOK(k)'
    BY <1>2, <1>5, <2>1, <2>3 DEF HopOK, QueueOK
  <2>7. AckOK(k)' /\ FlagOK(k)'
    BY <1>1, <1>4, <1>6, <2>2 DEF AckOK, FlagOK
  <2>8. HopOK(k)'
    BY <2>4, <2>5, <2>6, <2>7 DEF HopOK
  <2> QED BY <1>1, <1>7, <2>8 DEF StopAndWait
<1>10. CASE SendNext(k)
  <2> PICK p : p = Head(dataPkts[k])
    OBVIOUS
  <2>1. /\ dataPkts[k] # <<>>
        /\ mPacket' = [mPacket EXCEPT ![k] = <<p>>]
        /\ dataPkts' = [dataPkts EXCEPT ![k] = Tail(dataPkts[k])]
        /\ fwd' = [fwd EXCEPT ![k] = Append(fwd[k], p)]
        /\ ackTimer' = [ackTimer EXCEPT ![k] = TRUE]
        /\ queueEmpty' = [queueEmpty EXCEPT ![k] = 1]
    BY <1>10 DEF SendNext
  <2>2. /\ mPacket'[k] = <<p>> /\ dataPkts'[k] = Tail(dataPkts[k])
        /\ fwd'[k] = Append(fwd[k], p) /\ ackTimer'[k] = TRUE /\ queueEmpty'[k] = 1
    BY <2>1 DEF TypeOK
  <2>3. /\ p \in Packets /\ p = dataPkts[k][1] /\ Len(dataPkts[k]) \in Nat \ {0}
        /\ Len(Tail(dataPkts[k])) = Len(dataPkts[k]) - 1
        /\ \A i \in 1 .. Len(dataPkts[k]) - 1 : Tail(dataPkts[k])[i] = dataPkts[k][i + 1]
    BY <1>8, <2>1, PktTail
  <2>4. /\ OwnBlock(k, dataPkts[k]) /\ Len(dataPkts[k]) = Got(k) - Cur(k)
        /\ \A i \in 1 .. Len(dataPkts[k]) : dataPkts[k][i].seq = Cur(k) + i
    BY <1>2 DEF HopOK, QueueOK
  <2>5. p.seq = Cur(k) + 1 /\ p.bs = k /\ p.bd = k + 1
    BY <2>3, <2>4 DEF OwnBlock
  <2>6. Cur(k)' = Cur(k) + 1
    <3>1. Cur(k)' = p.seq
      BY <2>2, <2>3, PktOne DEF Cur
    <3> QED BY <2>5, <3>1
  <2>7. InFlightOK(k)'
    <3>1. OwnBlock(k, fwd[k]) /\ UpTo(fwd[k], Cur(k))
      BY <1>2 DEF HopOK, InFlightOK
    <3>2. OwnBlock(k, Append(fwd[k], p))
      BY <1>8, <2>3, <2>5, <3>1, OwnAppend
    <3>3. UpTo(fwd[k], Cur(k) + 1)
      BY <1>8, <3>1, UpToOps
    <3>4. UpTo(Append(fwd[k], p), Cur(k) + 1)
      BY <1>8, <2>3, <2>5, <3>3, UpToOps
    <3> QED BY <2>2, <2>6, <3>2, <3>4 DEF InFlightOK
  <2>8. OutstandingOK(k)'
    <3>1. OwnBlock(k, <<p>>) /\ Len(<<p>>) = 1 /\ <<p>> # <<>>
      BY <2>3, <2>5, PktOne DEF OwnBlock
    <3>2. prevSeq'[k + 1] = Cur(k)' - 1
      BY <1>1, <1>3, <1>8, <2>6
    <3> QED BY <2>2, <3>1, <3>2 DEF OutstandingOK
  <2>9. QueueOK(k)'
    <3>1. \A i \in 1 .. Len(dataPkts[k]) - 1 : i + 1 \in 1 .. Len(dataPkts[k])
      BY <2>3
    <3>2. OwnBlock(k, Tail(dataPkts[k]))
      BY <2>3, <2>4, <3>1 DEF OwnBlock
    <3>3. Len(Tail(dataPkts[k])) = Got(k) - (Cur(k) + 1)
      BY <1>8, <2>3, <2>4
    <3>4. ASSUME NEW i \in 1 .. Len(Tail(dataPkts[k]))
          PROVE  Tail(dataPkts[k])[i].seq = (Cur(k) + 1) + i
      <4>1. i \in 1 .. Len(dataPkts[k]) - 1 /\ i \in Int
        BY <2>3
      <4>2. Tail(dataPkts[k])[i] = dataPkts[k][i + 1]
        BY <2>3, <4>1
      <4>3. dataPkts[k][i + 1].seq = Cur(k) + (i + 1)
        BY <2>4, <3>1, <4>1
      <4> QED BY <1>8, <4>1, <4>2, <4>3
    <3> QED BY <1>5, <2>2, <2>6, <3>2, <3>3, <3>4 DEF QueueOK
  <2>10. AckOK(k)' /\ FlagOK(k)'
    BY <1>1, <1>4, <1>6, <2>2 DEF AckOK, FlagOK
  <2>11. HopOK(k)'
    BY <2>7, <2>8, <2>9, <2>10 DEF HopOK
  <2> QED BY <1>1, <1>7, <2>11 DEF StopAndWait
<1> QED BY <1>1, <1>9, <1>10

\* With one hop per block every ACK is for the node it reaches.
LEMMA RelayAckHop ==
    ASSUME StopAndWait, NEW k \in Sender, RelayAck(k)
    PROVE  FALSE
<1>1. back[k] # <<>> /\ Head(back[k]) # k
  BY DEF RelayAck
<1>2. back[k] = <<k>>
  BY <1>1 DEF StopAndWait, HopOK, AckOK
<1> QED BY <1>1, <1>2

\* A retransmission keeps stop-and-wait.
LEMMA AckTimerHop ==
    ASSUME TypeOK, StopAndWait, NEW k \in Sender, ACKTimerExpire(k)
    PROVE  StopAndWait'
<1>0. /\ UNCHANGED <<seqno, prevSeq, dataPkts, mPacket, ackTimer, queueEmpty, fatal, back>>
      /\ fwd' = [fwd EXCEPT ![k] = fwd[k] \o mPacket[k]] /\ ackTimer[k]
      /\ \A n \in Sender : Got(n)' = Got(n)
  BY DEF node, Got, ACKTimerExpire
<1>1. ASSUME NEW n \in Sender, n # k PROVE HopOK(n)'
  <2>1. fwd'[n] = fwd[n] /\ HopOK(n)
    BY <1>0, <1>1 DEF TypeOK, StopAndWait
  <2> QED BY <1>0, <2>1, HopFrame
<1>2. HopOK(k)'
  <2>1. HopOK(k) /\ Cur(k)' = Cur(k) /\ fwd'[k] = fwd[k] \o mPacket[k]
    BY <1>0 DEF StopAndWait, Cur, TypeOK
  <2>2. fwd[k] \in Seq(Packets) /\ mPacket[k] \in Seq(Packets) /\ Cur(k) \in Int
    BY NodeTypes, CurType
  <2>3. UpTo(mPacket[k], Cur(k))
    <3>1. mPacket[k] # <<>> /\ Len(mPacket[k]) <= 1
      BY <1>0, <2>1 DEF HopOK, OutstandingOK
    <3>2. mPacket[k][1].seq = Cur(k) /\ Len(mPacket[k]) \in Nat
      BY <2>2, <3>1, CurType
    <3> QED BY <2>2, <3>1, <3>2 DEF UpTo
  <2>4. UpTo(fwd[k] \o mPacket[k], Cur(k))
    BY <2>1, <2>2, <2>3, UpToOps DEF HopOK, InFlightOK
  <2>5. OwnBlock(k, fwd[k] \o mPacket[k])
    BY <2>1, <2>2, OwnConcat DEF HopOK, InFlightOK, OutstandingOK
  <2>6. InFlightOK(k)'
    BY <2>1, <2>4, <2>5 DEF InFlightOK
  <2>7. OutstandingOK(k)'
    BY <1>0, <2>1 DEF HopOK, OutstandingOK, OwnBlock
  <2>8. QueueOK(k)'
    BY <1>0, <2>1 DEF HopOK, QueueOK, OwnBlock
  <2>9. AckOK(k)' /\ FlagOK(k)'
    BY <1>0, <2>1 DEF HopOK, AckOK, FlagOK
  <2> QED BY <2>6, <2>7, <2>8, <2>9 DEF HopOK
<1> QED BY <1>0, <1>1, <1>2 DEF StopAndWait

\* Losing an ACK keeps stop-and-wait.
LEMMA LoseAckHop ==
    ASSUME TypeOK, StopAndWait, NEW k \in Sender, LoseAck(k)
    PROVE  StopAndWait'
<1>0. /\ UNCHANGED <<seqno, prevSeq, dataPkts, mPacket, ackTimer, queueEmpty, fatal, fwd>>
      /\ back[k] # <<>> /\ back' = [back EXCEPT ![k] = Tail(back[k])]
      /\ \A n \in Sender : Got(n)' = Got(n)
  BY DEF node, Got, LoseAck
<1>1. ASSUME NEW n \in Sender, n # k PROVE HopOK(n)'
  <2>1. back'[n] = back[n] /\ HopOK(n)
    BY <1>0, <1>1 DEF TypeOK, StopAndWait
  <2> QED BY <1>0, <2>1, HopFrame
<1>2. HopOK(k)'
  <2>1. HopOK(k) /\ Cur(k)' = Cur(k)
    BY <1>0 DEF StopAndWait, Cur
  <2>2. back[k] = <<k>>
    BY <1>0, <2>1 DEF HopOK, AckOK
  <2>3. back'[k] = <<>>
    BY <1>0, <2>2 DEF TypeOK
  <2>4. InFlightOK(k)' /\ OutstandingOK(k)'
    BY <1>0, <2>1 DEF HopOK, InFlightOK, OutstandingOK, OwnBlock, UpTo
  <2>5. QueueOK(k)'
    BY <1>0, <2>1 DEF HopOK, QueueOK, OwnBlock
  <2>6. AckOK(k)' /\ FlagOK(k)'
    BY <1>0, <2>1, <2>3 DEF HopOK, AckOK, FlagOK
  <2> QED BY <2>4, <2>5, <2>6 DEF HopOK
<1> QED BY <1>0, <1>1, <1>2 DEF StopAndWait

\* Stop-and-wait holds initially and is preserved by every step.
LEMMA HopInit == Init => StopAndWait
<1> SUFFICES ASSUME Init PROVE StopAndWait
  OBVIOUS
<1>1. ASSUME NEW n \in Sender PROVE HopOK(n)
  <2>1. /\ fwd[n] = <<>> /\ mPacket[n] = <<>> /\ dataPkts[n] = <<>> /\ back[n] = <<>>
        /\ ackTimer[n] = FALSE /\ queueEmpty[n] = 0 /\ prevSeq[n + 1] = 0 /\ Len(<<>>) = 0
    BY Nodes DEF Init
  <2>2. Cur(n) = 0
    BY <2>1 DEF Cur
  <2>3. Got(n) = 0
    <3>1. CASE n = 1
      BY <3>1 DEF Init, Got
    <3>2. CASE n # 1
      <4>1. n \in Receiver
        BY <3>2, BypassAssumption DEF Sender, Receiver
      <4> QED BY <3>2, <4>1 DEF Init, Got
    <3> QED BY <3>1, <3>2
  <2>4. InFlightOK(n) /\ OutstandingOK(n)
    BY <2>1, <2>2 DEF InFlightOK, OutstandingOK, OwnBlock, UpTo
  <2>5. QueueOK(n) /\ AckOK(n) /\ FlagOK(n)
    BY <2>1, <2>2, <2>3 DEF QueueOK, AckOK, FlagOK, OwnBlock
  <2> QED BY <2>4, <2>5 DEF HopOK
<1> QED BY <1>1 DEF StopAndWait, Init

\* Every step keeps stop-and-wait when every hop is a block.
LEMMA HopNext ==
    ASSUME HopByHop, TypeOK, TypeOK', StopAndWait, [Next]_vars
    PROVE  StopAndWait'
<1>1. CASE UNCHANGED vars
  <2>1. /\ UNCHANGED <<seqno, prevSeq, dataPkts, mPacket, ackTimer, queueEmpty, fatal, fwd, back>>
        /\ \A n \in Sender : Got(n)' = Got(n)
    BY <1>1 DEF vars, node, Got
  <2>2. \A n \in Sender : HopOK(n) => HopOK(n)'
    BY <2>1, HopFrame
  <2> QED BY <2>1, <2>2 DEF StopAndWait
<1>2. ASSUME NEW r \in Receiver, DropData(r) PROVE StopAndWait'
  <2>1. r - 1 \in Sender
    BY Nodes
  <2> QED BY <1>2, <2>1, DropDataHop DEF DropData
<1>3. ASSUME NEW k \in Sender, LoseData(k) PROVE StopAndWait'
  BY <1>3, DropDataHop DEF LoseData
<1>4. CASE PacketTimerExpire
  BY <1>4, PacketTimerHop
<1>5. ASSUME NEW r \in Receiver, RecvData(r) PROVE StopAndWait'
  BY <1>5, RecvDataHop
<1>6. ASSUME NEW k \in Sender, RecvAck(k) \/ RelayAck(k) \/ ACKTimerExpire(k) \/ LoseAck(k)
      PROVE  StopAndWait'
  BY <1>6, RecvAckHop, RelayAckHop, AckTimerHop, LoseAckHop
<1> QED BY <1>1, <1>2, <1>3, <1>4, <1>5, <1>6 DEF Next

\* With the table that is compiled, every hop runs stop-and-wait for ever.
THEOREM HopStopAndWait == ASSUME HopByHop PROVE Spec => []StopAndWait
<1>1. StopAndWait /\ TypeOK /\ TypeOK' /\ [Next]_vars => StopAndWait'
  BY HopNext
<1> QED BY <1>1, HopInit, TypeCorrect, PTL DEF Spec

\* With the table that is compiled, m_ackTimer is never scheduled while it is
\* running, so Timer::Schedule never aborts the program.
THEOREM NeverFatal == ASSUME HopByHop PROVE Spec => []NoFatal
<1>1. StopAndWait => NoFatal
  BY DEF StopAndWait, NoFatal
<1> QED BY <1>1, HopStopAndWait, PTL

\* With the table that is compiled, an ACK, which names no packet, always means
\* the packet its block source is waiting for.
THEOREM AckUnambiguous == ASSUME HopByHop PROVE Spec => []AckIsForCurrent
<1>1. StopAndWait => AckIsForCurrent
  <2> SUFFICES ASSUME StopAndWait, NEW n \in Sender, NEW m \in Sender, n \in Range(back[m])
               PROVE  ackTimer[n] /\ prevSeq[Bd[n]] = Cur(n)
    BY DEF AckIsForCurrent
  <2>1. HopOK(m)
    BY DEF StopAndWait
  <2>2. back[m] = <<m>> /\ ackTimer[m] /\ prevSeq[m + 1] = Cur(m)
    BY <2>1 DEF HopOK, AckOK, Range
  <2>3. n = m
    BY <2>2 DEF Range
  <2> QED BY <2>2, <2>3 DEF HopByHop
<1> QED BY <1>1, HopStopAndWait, PTL

\* With the table that is compiled, a packet a node has accepted stays with it
\* until the next node has it.
THEOREM NothingLost == ASSUME HopByHop PROVE Spec => []NothingForgotten
<1>1. StopAndWait /\ TypeOK => NothingForgotten
  <2> SUFFICES ASSUME StopAndWait, TypeOK, NEW n \in Sender, Acks(n),
                      NEW s \in prevSeq[Bd[n]] + 1 .. Got(n)
               PROVE  \/ s = Cur(n) /\ ackTimer[n]
                      \/ \E p \in Range(dataPkts[n]) : p.seq = s
    BY DEF NothingForgotten
  <2>1. HopOK(n) /\ Bd[n] = n + 1
    BY DEF StopAndWait, HopByHop
  <2>2. Cur(n) \in 0 .. K /\ Got(n) \in 0 .. K /\ prevSeq[n + 1] \in 0 .. K
        /\ dataPkts[n] \in Seq(Packets)
    BY CurType, NodeTypes, Nodes
  <2>3. /\ prevSeq[n + 1] \in {Cur(n) - 1, Cur(n)} /\ (prevSeq[n + 1] = Cur(n) \/ ackTimer[n])
        /\ Len(dataPkts[n]) = Got(n) - Cur(n)
        /\ \A i \in 1 .. Len(dataPkts[n]) : dataPkts[n][i].seq = Cur(n) + i
    BY <2>1 DEF HopOK, OutstandingOK, QueueOK
  <2>4. s \in Int /\ prevSeq[n + 1] + 1 <= s /\ s <= Got(n)
    BY <2>1, <2>2
  <2>5. CASE s <= Cur(n)
    BY <2>2, <2>3, <2>4, <2>5
  <2>6. CASE s > Cur(n)
    <3> PICK i : i = s - Cur(n)
      OBVIOUS
    <3>1. i \in 1 .. Len(dataPkts[n]) /\ Cur(n) + i = s
      BY <2>2, <2>3, <2>4, <2>6
    <3>2. dataPkts[n][i] \in Range(dataPkts[n])
      BY <2>2, <3>1 DEF Range
    <3> QED BY <2>3, <3>1, <3>2
  <2> QED BY <2>2, <2>4, <2>5, <2>6
<1> QED BY <1>1, HopStopAndWait, TypeCorrect, PTL
=============================================================================
