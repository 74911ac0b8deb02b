------------------------- MODULE HopTransferProofs -------------------------
(***************************************************************************)
(* Theorems about HopTransfer, for every length of the chain, every number *)
(* and size of chunks and every number of losses and early timeouts.  The  *)
(* last part is about the behaviors without early timeouts in which only   *)
(* the source loses messages: there each hop is always in one of six       *)
(* phases, the inductive invariant Lockstep.                               *)
(***************************************************************************)
EXTENDS MCHopTransfer, SequenceTheorems, FiniteSetTheorems, TLAPS

-----------------------------------------------------------------------------
(* Sequences and their ranges.                                             *)

\* Appending adds exactly one element to the range of a sequence.
LEMMA AppendRange ==
    ASSUME NEW S, NEW s \in Seq(S), NEW e \in S
    PROVE  /\ Append(s, e) \in Seq(S)
           /\ Append(s, e) # <<>>
           /\ Len(Append(s, e)) = Len(s) + 1
           /\ Range(Append(s, e)) = Range(s) \cup {e}
<1>1. Append(s, e) \in Seq(S) /\ Len(Append(s, e)) = Len(s) + 1 /\ Append(s, e) # <<>>
  BY AppendProperties
<1>2. Range(Append(s, e)) = {Append(s, e)[i] : i \in 1 .. Len(s) + 1}
  BY <1>1, RangeEquality
<1>3. Range(s) = {s[i] : i \in 1 .. Len(s)}
  BY RangeEquality
<1>4. \A i \in 1 .. Len(s) : Append(s, e)[i] = s[i]
  BY AppendProperties
<1>5. Append(s, e)[Len(s) + 1] = e
  BY AppendProperties
<1>6. Len(s) \in Nat
  OBVIOUS
<1> QED BY <1>1, <1>2, <1>3, <1>4, <1>5, <1>6

\* Head and Tail stay within the range of a sequence.
LEMMA HeadTailRange ==
    ASSUME NEW S, NEW s \in Seq(S), s # <<>>
    PROVE  /\ Tail(s) \in Seq(S)
           /\ Range(Tail(s)) \subseteq Range(s)
           /\ Head(s) \in Range(s)
           /\ Head(s) \in S
<1>1. /\ Tail(s) \in Seq(S) /\ Len(Tail(s)) = Len(s) - 1 /\ Head(s) \in S
      /\ Len(s) \in Nat \ {0}
  BY HeadTailProperties, EmptySeq
<1>2. Range(Tail(s)) = {Tail(s)[i] : i \in 1 .. Len(s) - 1}
  BY <1>1, RangeEquality
<1>3. Range(s) = {s[i] : i \in 1 .. Len(s)}
  BY RangeEquality
<1>4. \A i \in 1 .. Len(s) - 1 : Tail(s)[i] = s[i + 1] /\ i + 1 \in 1 .. Len(s)
  BY <1>1
<1>5. Head(s) = s[1] /\ 1 \in 1 .. Len(s)
  BY <1>1
<1> QED BY <1>1, <1>2, <1>3, <1>4, <1>5

\* A sequence whose range has P elements is at least P long.
LEMMA LongEnough ==
    ASSUME NEW s \in Seq(Pkt), Range(s) = Pkt
    PROVE  P <= Len(s)
<1>1. Len(s) \in Nat /\ P \in Nat /\ DOMAIN s = 1 .. Len(s)
  BY ConstAssumption
<1>2. s \in [1 .. Len(s) -> Pkt]
  BY <1>1
<1>3. s \in Surjection(1 .. Len(s), Pkt)
  BY <1>1, <1>2 DEF Surjection, Range
<1>4. IsFiniteSet(1 .. Len(s)) /\ Cardinality(1 .. Len(s)) = Len(s)
  BY <1>1, FS_Interval
<1>5. Cardinality(Pkt) = P
  BY <1>1, FS_Interval, ConstAssumption DEF Pkt
<1>6. Cardinality(Pkt) <= Cardinality(1 .. Len(s))
  BY <1>3, <1>4, FS_Surjection
<1> QED BY <1>4, <1>5, <1>6

\* The chunk the source builds has P packets and all of them.
LEMMA WholeProperties ==
    /\ Whole \in Seq(Pkt)
    /\ Len(Whole) = P
    /\ Range(Whole) = Pkt
BY ConstAssumption DEF Whole, Pkt, Range

-----------------------------------------------------------------------------
(* Messages and what a step does to them.                                  *)

\* Neighbours on the chain: what is a sender, a relay or a receiver.
LEMMA Nodes ==
    /\ 1 \in Sender /\ 2 \in Receiver /\ N \in Receiver
    /\ \A n \in Receiver : n - 1 \in Sender /\ (n # N => n \in Sender /\ n \in Relay)
    /\ \A n \in Sender : n + 1 \in Receiver /\ (n # 1 => n \in Relay /\ n \in Receiver)
    /\ \A n \in Relay : n \in Sender /\ n \in Receiver /\ n # 1 /\ n # N
    /\ Sender \subseteq 1 .. N /\ Receiver \subseteq 1 .. N
BY ConstAssumption DEF Sender, Receiver, Relay

\* The messages the handlers build are messages.
LEMMA MsgTypes ==
    /\ \A c \in Chunk : CSYNC(c) \in Msg
    /\ \A c \in Chunk, p \in Pkt : DATA(c, p) \in Msg
    /\ \A c : CSYNC(c).type = "CSYNC" /\ CSYNC(c).chk = c
    /\ \A c, p : DATA(c, p).type = "DATA" /\ DATA(c, p).chk = c /\ DATA(c, p).pkt = p
    /\ \A m \in Msg : /\ m.chk \in Chunk
                      /\ m.type = "CSYNC" \/ m.type = "DATA"
                      /\ m.type = "DATA" => m.pkt \in Pkt
                      /\ m.type = "CSYNC" => m = CSYNC(m.chk)
<1>1. ASSUME NEW c \in Chunk PROVE CSYNC(c) \in Msg
  BY DEF Msg
<1>2. ASSUME NEW c \in Chunk, NEW p \in Pkt PROVE DATA(c, p) \in Msg
  BY DEF Msg
<1>3. \A c : CSYNC(c).type = "CSYNC" /\ CSYNC(c).chk = c
  BY DEF CSYNC
<1>4. \A c, p : DATA(c, p).type = "DATA" /\ DATA(c, p).chk = c /\ DATA(c, p).pkt = p
  BY DEF DATA
<1>5. \A m \in Msg : /\ m.chk \in Chunk
                     /\ m.type = "CSYNC" \/ m.type = "DATA"
                     /\ m.type = "DATA" => m.pkt \in Pkt
                     /\ m.type = "CSYNC" => m = CSYNC(m.chk)
  <2> SUFFICES ASSUME NEW m \in Msg
               PROVE  /\ m.chk \in Chunk
                      /\ m.type = "CSYNC" \/ m.type = "DATA"
                      /\ m.type = "DATA" => m.pkt \in Pkt
                      /\ m.type = "CSYNC" => m = CSYNC(m.chk)
    OBVIOUS
  <2>1. CASE \E c \in Chunk : m = CSYNC(c)
    BY <2>1, <1>3
  <2>2. CASE \E c \in Chunk, p \in Pkt : m = DATA(c, p)
    BY <2>2, <1>4
  <2> QED BY <2>1, <2>2 DEF Msg
<1> QED BY <1>1, <1>2, <1>3, <1>4, <1>5

(* What sending and receiving do to the channels and the timer tables.     *)

\* One message more on one hop: types and promises of the others stay.
LEMMA FwdAppend ==
    ASSUME fwd \in [Sender -> Seq(Msg)], NEW n \in Sender, NEW m \in Msg,
           fwd' = [fwd EXCEPT ![n] = Append(@, m)]
    PROVE  /\ fwd' \in [Sender -> Seq(Msg)]
           /\ fwd'[n] # <<>>
           /\ Range(fwd'[n]) = Range(fwd[n]) \cup {m}
           /\ \A k \in Sender : k # n => fwd'[k] = fwd[k]
<1>1. fwd[n] \in Seq(Msg)
  OBVIOUS
<1>2. /\ Append(fwd[n], m) \in Seq(Msg) /\ Append(fwd[n], m) # <<>>
      /\ Range(Append(fwd[n], m)) = Range(fwd[n]) \cup {m}
  BY <1>1, AppendRange
<1> QED BY <1>2

\* One message fewer on one hop.
LEMMA FwdTail ==
    ASSUME fwd \in [Sender -> Seq(Msg)], NEW n \in Sender, fwd[n] # <<>>,
           fwd' = [fwd EXCEPT ![n] = Tail(@)]
    PROVE  /\ fwd' \in [Sender -> Seq(Msg)]
           /\ Range(fwd'[n]) \subseteq Range(fwd[n])
           /\ \A k \in Sender : k # n => fwd'[k] = fwd[k]
<1>1. fwd[n] \in Seq(Msg)
  OBVIOUS
<1>2. Tail(fwd[n]) \in Seq(Msg) /\ Range(Tail(fwd[n])) \subseteq Range(fwd[n])
  BY <1>1, HeadTailRange
<1> QED BY <1>2

\* A burst more on one hop.
LEMMA FwdConcat ==
    ASSUME fwd \in [Sender -> Seq(Msg)], NEW n \in Sender, NEW t \in Seq(Msg),
           fwd' = [fwd EXCEPT ![n] = @ \o t]
    PROVE  /\ fwd' \in [Sender -> Seq(Msg)]
           /\ Range(fwd'[n]) = Range(fwd[n]) \cup Range(t)
           /\ \A k \in Sender : k # n => fwd'[k] = fwd[k]
<1>1. fwd[n] \in Seq(Msg)
  OBVIOUS
<1>2. fwd[n] \o t \in Seq(Msg) /\ Range(fwd[n] \o t) = Range(fwd[n]) \cup Range(t)
  BY <1>1, ConcatProperties, RangeConcatenation
<1> QED BY <1>2

\* One ACK more on one hop.
LEMMA BackAppend ==
    ASSUME back \in [Sender -> Seq(AckMsg)], NEW n \in Sender, NEW m \in AckMsg,
           back' = [back EXCEPT ![n] = Append(@, m)]
    PROVE  /\ back' \in [Sender -> Seq(AckMsg)]
           /\ back'[n] # <<>>
           /\ Range(back'[n]) = Range(back[n]) \cup {m}
           /\ \A k \in Sender : k # n => back'[k] = back[k]
<1>1. back[n] \in Seq(AckMsg)
  OBVIOUS
<1>2. /\ Append(back[n], m) \in Seq(AckMsg) /\ Append(back[n], m) # <<>>
      /\ Range(Append(back[n], m)) = Range(back[n]) \cup {m}
  BY <1>1, AppendRange
<1> QED BY <1>2

\* One ACK fewer on one hop.
LEMMA BackTail ==
    ASSUME back \in [Sender -> Seq(AckMsg)], NEW n \in Sender, back[n] # <<>>,
           back' = [back EXCEPT ![n] = Tail(@)]
    PROVE  /\ back' \in [Sender -> Seq(AckMsg)]
           /\ Range(back'[n]) \subseteq Range(back[n])
           /\ \A k \in Sender : k # n => back'[k] = back[k]
<1>1. back[n] \in Seq(AckMsg)
  OBVIOUS
<1>2. Tail(back[n]) \in Seq(AckMsg) /\ Range(Tail(back[n])) \subseteq Range(back[n])
  BY <1>1, HeadTailRange
<1> QED BY <1>2

\* One csync_set entry more at one node.
LEMMA CsyncAppend ==
    ASSUME csync \in [Sender -> Seq(CsyncEntry)], NEW n \in Sender, NEW m \in CsyncEntry,
           csync' = [csync EXCEPT ![n] = Append(@, m)]
    PROVE  /\ csync' \in [Sender -> Seq(CsyncEntry)]
           /\ csync'[n] # <<>>
           /\ Range(csync'[n]) = Range(csync[n]) \cup {m}
           /\ \A k \in Sender : k # n => csync'[k] = csync[k]
<1>1. csync[n] \in Seq(CsyncEntry)
  OBVIOUS
<1>2. /\ Append(csync[n], m) \in Seq(CsyncEntry) /\ Append(csync[n], m) # <<>>
      /\ Range(Append(csync[n], m)) = Range(csync[n]) \cup {m}
  BY <1>1, AppendRange
<1> QED BY <1>2

\* One data_saved_set entry more at one node.
LEMMA SavedAppend ==
    ASSUME saved \in [Sender -> Seq(SavedEntry)], NEW n \in Sender, NEW m \in SavedEntry,
           saved' = [saved EXCEPT ![n] = Append(@, m)]
    PROVE  /\ saved' \in [Sender -> Seq(SavedEntry)]
           /\ saved'[n] # <<>>
           /\ Range(saved'[n]) = Range(saved[n]) \cup {m}
           /\ \A k \in Sender : k # n => saved'[k] = saved[k]
<1>1. saved[n] \in Seq(SavedEntry)
  OBVIOUS
<1>2. /\ Append(saved[n], m) \in Seq(SavedEntry) /\ Append(saved[n], m) # <<>>
      /\ Range(Append(saved[n], m)) = Range(saved[n]) \cup {m}
  BY <1>1, AppendRange
<1> QED BY <1>2

\* The vectors only grow, so what a message says of its sender stays true.
Grown == \A n \in Sender, c \in Chunk :
            /\ Range(data[n][c]) \subseteq Range(data'[n][c])
            /\ Len(data[n][c]) <= Len(data'[n][c])

\* Vectors only grow, so what messages and entries promised still holds.
LEMMA GrownKeeps ==
    ASSUME TypeOK, data' \in [Sender -> [Chunk -> Seq(Pkt)]], Grown
    PROVE  \A n \in Sender :
              /\ \A m \in Msg : MsgOK(n, m) => MsgOK(n, m)'
              /\ \A c \in Chunk : Startable(n, c) => Startable(n, c)'
<1> SUFFICES ASSUME NEW n \in Sender
             PROVE  /\ \A m \in Msg : MsgOK(n, m) => MsgOK(n, m)'
                    /\ \A c \in Chunk : Startable(n, c) => Startable(n, c)'
  OBVIOUS
<1>1. ASSUME NEW c \in Chunk, Startable(n, c) PROVE Startable(n, c)'
  <2>1. data[n][c] \in Seq(Pkt)
    BY DEF TypeOK
  <2>2. data'[n][c] \in Seq(Pkt)
    OBVIOUS
  <2>3. Len(data[n][c]) \in Nat /\ Len(data'[n][c]) \in Nat /\ P \in Nat
    BY <2>1, <2>2, ConstAssumption
  <2> QED BY <2>3, <1>1 DEF Startable, Grown
<1>2. ASSUME NEW m \in Msg, MsgOK(n, m) PROVE MsgOK(n, m)'
  BY <1>1, <1>2, MsgTypes DEF MsgOK, Held, Grown
<1> QED BY <1>1, <1>2

\* What stored bursts and ACKs in flight say survives a step that leaves them
\* alone, because the vectors only grow.
LEMMA KeptMessages ==
    ASSUME TypeOK,
           \A n \in Sender : /\ \A m \in Msg : MsgOK(n, m) => MsgOK(n, m)'
                             /\ \A d \in Chunk : Startable(n, d) => Startable(n, d)'
    PROVE  /\ SavedOK /\ saved' = saved => SavedOK'
           /\ AckOK /\ back' = back => AckOK'
           /\ FwdOK /\ fwd' = fwd => FwdOK'
           /\ CsyncOK /\ csync' = csync => CsyncOK'
<1>1. \A n \in Sender : \A e \in Range(saved[n]) :
            Range(e.pkts) \subseteq Msg /\ Closing(e) \in Chunk
  <2> SUFFICES ASSUME NEW n \in Sender, NEW e \in Range(saved[n])
               PROVE  Range(e.pkts) \subseteq Msg /\ Closing(e) \in Chunk
    OBVIOUS
  <2>1. saved[n] \in Seq(SavedEntry)
    BY DEF TypeOK
  <2>2. e \in SavedEntry
    BY <2>1, RangeOfSeq
  <2>3. e.pkts \in Seq(Msg) /\ e.pkts # <<>>
    BY <2>2 DEF SavedEntry
  <2>4. Len(e.pkts) \in 1 .. Len(e.pkts)
    BY <2>3, EmptySeq, LenProperties
  <2>5. e.pkts[Len(e.pkts)] \in Msg
    BY <2>3, <2>4
  <2> QED BY <2>3, <2>5, RangeOfSeq, MsgTypes DEF Closing
<1>2. \A n \in Sender : Range(back[n]) \subseteq AckMsg
  BY RangeOfSeq DEF TypeOK
<1>3. \A n \in Sender : Range(fwd[n]) \subseteq Msg
  BY RangeOfSeq DEF TypeOK
<1>4. \A n \in Sender : Range(csync[n]) \subseteq CsyncEntry
  BY RangeOfSeq DEF TypeOK
<1>5. SavedOK /\ saved' = saved => SavedOK'
  BY <1>1 DEF SavedOK, Closing
<1>6. AckOK /\ back' = back => AckOK'
  BY <1>2 DEF AckOK, AckMsg
<1>7. FwdOK /\ fwd' = fwd => FwdOK'
  BY <1>3 DEF FwdOK
<1>8. CsyncOK /\ csync' = csync => CsyncOK'
  BY <1>4 DEF CsyncOK, CsyncEntry
<1> QED BY <1>5, <1>6, <1>7, <1>8

\* The inductive invariant holds initially.
LEMMA InitIInv == Init => IInv
<1> SUFFICES ASSUME Init PROVE IInv
  OBVIOUS
<1> USE ConstAssumption, Nodes
<1>1. TypeOK
  BY DEF Init, TypeOK, Sender, Receiver, Chunk, Pkt
<1>2. Range(<<>>) = {}
  BY DEF Range
<1>3. SourceOK
  BY DEF Init, SourceOK, Chunk
<1>4. RelayOK
  BY <1>2 DEF Init, RelayOK, Held
<1>5. NestedOK /\ FirstOK
  BY DEF Init, NestedOK, FirstOK
<1>6. FwdOK /\ SavedOK /\ CsyncOK /\ AckOK /\ WriteOK
  BY <1>2 DEF Init, FwdOK, SavedOK, CsyncOK, AckOK, WriteOK
<1> QED BY <1>1, <1>3, <1>4, <1>5, <1>6 DEF IInv

\* SendData (FromFile) preserves the inductive invariant.
LEMMA SendDataStep == ASSUME IInv, NEW route \in BOOLEAN, SendData(route) PROVE IInv'
<1>0. 1 \in Sender /\ 1 \in 1 .. N /\ 1 \notin Relay /\ 2 \in Receiver
  BY Nodes
<1>1. TypeOK
  BY DEF IInv
<1>2. chkID \in 0 .. C /\ chkID < C /\ C \in Nat
  BY <1>1, ConstAssumption DEF TypeOK, SendData
<1>3. PICK c \in Chunk : c = chkID + 1
  BY <1>2 DEF Chunk
<1>4. data[1][c] = <<>>
  BY <1>2, <1>3 DEF IInv, SourceOK
<1>5. data' = [data EXCEPT ![1][c] = Whole] /\ data \in [Sender -> [Chunk -> Seq(Pkt)]]
  BY <1>1, <1>3 DEF TypeOK, SendData
<1>6. /\ \A n \in Sender, d \in Chunk : n # 1 \/ d # c => data'[n][d] = data[n][d]
      /\ data'[1][c] = Whole
      /\ data' \in [Sender -> [Chunk -> Seq(Pkt)]]
  BY <1>0, <1>3, <1>5, WholeProperties
<1>7. Armed(c) \in CsyncEntry /\ CSYNC(c) \in Msg
  BY <1>3, MsgTypes DEF Armed, CsyncEntry
<1>8. /\ fwd \in [Sender -> Seq(Msg)]
      /\ fwd' = fwd \/ fwd' = [fwd EXCEPT ![1] = Append(@, CSYNC(c))]
  BY <1>1, <1>3 DEF TypeOK, SendData
<1>9. /\ csync \in [Sender -> Seq(CsyncEntry)]
      /\ csync' = csync \/ csync' = [csync EXCEPT ![1] = Append(@, Armed(c))]
  BY <1>1, <1>3 DEF TypeOK, SendData
<1>10. /\ fwd' \in [Sender -> Seq(Msg)]
       /\ Range(fwd'[1]) \subseteq Range(fwd[1]) \cup {CSYNC(c)}
       /\ \A n \in Sender : n # 1 => fwd'[n] = fwd[n]
  <2>1. CASE fwd' = fwd
    BY <2>1, <1>0, <1>8
  <2>2. CASE fwd' = [fwd EXCEPT ![1] = Append(@, CSYNC(c))]
    BY <2>2, <1>0, <1>7, <1>8, FwdAppend
  <2> QED BY <2>1, <2>2, <1>8
<1>11. /\ csync' \in [Sender -> Seq(CsyncEntry)]
       /\ Range(csync'[1]) \subseteq Range(csync[1]) \cup {Armed(c)}
       /\ \A n \in Sender : n # 1 => csync'[n] = csync[n]
  <2>1. CASE csync' = csync
    BY <2>1, <1>0, <1>9
  <2>2. CASE csync' = [csync EXCEPT ![1] = Append(@, Armed(c))]
    BY <2>2, <1>0, <1>7, <1>9, CsyncAppend
  <2> QED BY <2>1, <2>2, <1>9
<1>12. TypeOK'
  <2>1. resume \in [Sender -> Nat] /\ pktCount \in [1 .. N -> SUBSET Chunk]
    BY <1>1 DEF TypeOK
  <2>2. \/ resume' = resume
        \/ resume[1] > 0 /\ resume' = [resume EXCEPT ![1] = @ - 1]
    BY <1>3 DEF SendData, FromFileStarts
  <2>3. resume' \in [Sender -> Nat]
    BY <1>0, <2>1, <2>2
  <2>4. pktCount' = [pktCount EXCEPT ![1] = @ \cup {c}] /\ chkID' = c
    BY <1>3 DEF SendData
  <2>5. pktCount' \in [1 .. N -> SUBSET Chunk]
    BY <1>0, <1>3, <2>1, <2>4
  <2>6. chkID' \in 0 .. C
    BY <1>3, <2>4, ConstAssumption DEF Chunk
  <2> QED BY <1>1, <1>6, <1>10, <1>11, <2>3, <2>5, <2>6 DEF SendData, TypeOK
<1>13. Grown
  <2>1. \A n \in Sender, d \in Chunk : data[n][d] \in Seq(Pkt)
    BY <1>5
  <2>2. \A n \in Sender, d \in Chunk : Len(data[n][d]) \in Nat
    BY <2>1
  <2>3. Range(<<>>) = {} /\ Len(<<>>) = 0 /\ 0 <= P
    BY ConstAssumption DEF Range
  <2>4. /\ Range(data[1][c]) \subseteq Range(data'[1][c])
        /\ Len(data[1][c]) <= Len(data'[1][c])
    BY <2>3, <1>4, <1>6, WholeProperties
  <2>5. ASSUME NEW n \in Sender, NEW d \in Chunk, n # 1 \/ d # c
        PROVE  /\ Range(data[n][d]) \subseteq Range(data'[n][d])
               /\ Len(data[n][d]) <= Len(data'[n][d])
    BY <2>2, <2>5, <1>6
  <2> QED BY <2>4, <2>5 DEF Grown
<1>14. \A n \in Sender : /\ \A m \in Msg : MsgOK(n, m) => MsgOK(n, m)'
                         /\ \A d \in Chunk : Startable(n, d) => Startable(n, d)'
  BY <1>1, <1>6, <1>13, GrownKeeps
<1>15. Startable(1, c)'
  <2>1. Len(data'[1][c]) = P /\ P \in Nat
    BY <1>6, WholeProperties, ConstAssumption
  <2> QED BY <2>1 DEF Startable
<1>16. SourceOK'
  <2>1. SourceOK /\ chkID' = c
    BY <1>3 DEF IInv, SendData
  <2>2. \A d \in Chunk : d <= c <=> d <= chkID \/ d = c
    BY <1>2, <1>3 DEF Chunk
  <2>3. ASSUME NEW d \in Chunk PROVE data'[1][d] = IF d <= c THEN Whole ELSE <<>>
    BY <1>0, <1>3, <1>6, <2>1, <2>2 DEF SourceOK
  <2> QED BY <2>1, <2>3 DEF SourceOK
<1>17. RelayOK' /\ NestedOK' /\ FirstOK'
  <2>1. RelayOK /\ NestedOK /\ FirstOK /\ bitmap' = bitmap
    BY DEF IInv, SendData
  <2>2. \A n \in Relay : n \in Sender /\ n # 1
    BY Nodes DEF Relay
  <2>3. RelayOK'
    BY ONLY <2>1, <2>2, <1>6 DEF RelayOK, Held
  <2>4. NestedOK'
    BY ONLY <2>1 DEF NestedOK
  <2>5. FirstOK'
    BY ONLY <2>1, <1>0, <1>13 DEF FirstOK, Held, Grown
  <2> QED BY ONLY <2>3, <2>4, <2>5
<1>18. FwdOK'
  <2>1. MsgOK(1, CSYNC(c))'
    BY <1>15, MsgTypes DEF MsgOK
  <2>2. FwdOK /\ \A n \in Sender : Range(fwd[n]) \subseteq Msg
    BY <1>8, RangeOfSeq DEF IInv
  <2> QED BY <1>0, <1>10, <1>14, <2>1, <2>2 DEF FwdOK
<1>19. CsyncOK'
  <2>1. CsyncOK /\ \A n \in Sender : Range(csync[n]) \subseteq CsyncEntry
    BY <1>9, RangeOfSeq DEF IInv
  <2>2. Armed(c).chk = c /\ \A e \in CsyncEntry : e.chk \in Chunk
    BY DEF Armed, CsyncEntry
  <2> QED BY <1>0, <1>11, <1>14, <1>15, <2>1, <2>2 DEF CsyncOK
<1>20. SavedOK' /\ AckOK' /\ WriteOK'
  <2>1. /\ SavedOK /\ AckOK /\ WriteOK
        /\ saved' = saved /\ back' = back /\ toFile' = toFile /\ bitmap' = bitmap
    BY DEF IInv, SendData
  <2> QED BY <1>1, <1>14, <2>1, KeptMessages DEF WriteOK
<1> QED BY <1>12, <1>16, <1>17, <1>18, <1>19, <1>20 DEF IInv

\* Case 9, a data packet, preserves the inductive invariant.
LEMMA RecvDATAStep == ASSUME IInv, NEW n \in Receiver, RecvDATA(n) PROVE IInv'
<1>1. TypeOK /\ n - 1 \in Sender /\ n \in 1 .. N /\ N \in Nat
  BY Nodes, ConstAssumption DEF IInv
<1>2. PICK m \in Msg : m = Head(fwd[n - 1]) /\ m \in Range(fwd[n - 1])
  <2>1. fwd[n - 1] \in Seq(Msg) /\ fwd[n - 1] # <<>>
    BY <1>1 DEF TypeOK, RecvDATA
  <2> QED BY <2>1, HeadTailRange
<1>3. PICK c \in Chunk, p \in Pkt : c = m.chk /\ p = m.pkt
  BY <1>2, MsgTypes DEF RecvDATA
<1>4. p \in Held(n - 1, c)
  <2>1. m.type = "DATA" /\ MsgOK(n - 1, m)
    BY <1>1, <1>2 DEF RecvDATA, IInv, FwdOK
  <2> QED BY <2>1, <1>3 DEF MsgOK
<1>5. /\ bitmap' = [bitmap EXCEPT ![n][c] = @ \cup {p}]
      /\ bitmap \in [Receiver -> [Chunk -> SUBSET Pkt]]
  BY <1>1, <1>2, <1>3 DEF RecvDATA, TypeOK
<1>6. /\ bitmap' \in [Receiver -> [Chunk -> SUBSET Pkt]]
      /\ bitmap'[n][c] = bitmap[n][c] \cup {p}
      /\ \A k \in Receiver, d \in Chunk : k # n \/ d # c => bitmap'[k][d] = bitmap[k][d]
  BY <1>3, <1>5
<1>7. data \in [Sender -> [Chunk -> Seq(Pkt)]]
  BY <1>1 DEF TypeOK
<1>8. /\ data' \in [Sender -> [Chunk -> Seq(Pkt)]]
      /\ \A k \in Sender, d \in Chunk : k # n \/ d # c => data'[k][d] = data[k][d]
      /\ n # N => /\ Range(data'[n][c]) = Range(data[n][c]) \cup {p}
                  /\ Len(data'[n][c]) = Len(data[n][c]) + 1
  <2>1. CASE n = N
    <3>1. data' = data
      BY <2>1 DEF RecvDATA
    <3> QED BY <2>1, <3>1, <1>7
  <2>2. CASE n # N
    <3>1. n \in Sender /\ data' = [data EXCEPT ![n][c] = Append(@, p)]
      BY <2>2, <1>2, <1>3, Nodes DEF RecvDATA
    <3>2. data[n][c] \in Seq(Pkt)
      BY <1>7, <3>1
    <3>3. /\ Append(data[n][c], p) \in Seq(Pkt)
          /\ Range(Append(data[n][c], p)) = Range(data[n][c]) \cup {p}
          /\ Len(Append(data[n][c], p)) = Len(data[n][c]) + 1
      BY <3>2, <1>3, AppendRange
    <3> QED BY <1>7, <3>1, <3>3
  <2> QED BY <2>1, <2>2
<1>9. fwd \in [Sender -> Seq(Msg)] /\ fwd[n - 1] # <<>> /\ fwd' = [fwd EXCEPT ![n - 1] = Tail(@)]
  BY <1>1 DEF RecvDATA, TypeOK
<1>10. /\ fwd' \in [Sender -> Seq(Msg)]
       /\ Range(fwd'[n - 1]) \subseteq Range(fwd[n - 1])
       /\ \A k \in Sender : k # n - 1 => fwd'[k] = fwd[k]
  BY <1>1, <1>9, FwdTail
<1>11. TypeOK'
  <2>1. pktArray' \in [Pkt -> 0 .. C]
    <3>0. pktArray \in [Pkt -> 0 .. C]
      BY <1>1 DEF TypeOK
    <3>1. c \in 0 .. C
      BY <1>3, ConstAssumption DEF Chunk
    <3>2. pktArray' = pktArray \/ pktArray' = [pktArray EXCEPT ![p] = c]
      BY <1>2, <1>3 DEF RecvDATA
    <3> QED BY <3>0, <3>1, <3>2
  <2> QED BY <1>1, <1>6, <1>8, <1>10, <2>1 DEF TypeOK, RecvDATA, timer
<1>12. Grown
  <2>1. \A k \in Sender, d \in Chunk : data[k][d] \in Seq(Pkt)
    BY <1>7
  <2>2. \A k \in Sender, d \in Chunk : Len(data[k][d]) \in Nat
    BY <2>1
  <2>3. n = N => n \notin Sender
    BY <1>1 DEF Sender
  <2>4. ASSUME NEW k \in Sender, NEW d \in Chunk, k # n \/ d # c
        PROVE  Range(data[k][d]) \subseteq Range(data'[k][d]) /\ Len(data[k][d]) <= Len(data'[k][d])
    BY <2>2, <2>4, <1>8
  <2>5. ASSUME n \in Sender
        PROVE  Range(data[n][c]) \subseteq Range(data'[n][c]) /\ Len(data[n][c]) <= Len(data'[n][c])
    BY <2>2, <2>3, <2>5, <1>8
  <2> QED BY <2>4, <2>5 DEF Grown
<1>13. \A k \in Sender : /\ \A x \in Msg : MsgOK(k, x) => MsgOK(k, x)'
                         /\ \A d \in Chunk : Startable(k, d) => Startable(k, d)'
  BY <1>1, <1>8, <1>12, GrownKeeps
<1>14. SourceOK'
  <2>1. SourceOK /\ chkID' = chkID /\ 1 \in Sender /\ n # 1
    BY Nodes DEF IInv, RecvDATA, Receiver
  <2> QED BY <2>1, <1>8 DEF SourceOK
<1>15. RelayOK'
  <2>1. RelayOK /\ \A k \in Relay : k \in Sender /\ k \in Receiver /\ k # N
    BY Nodes DEF IInv
  <2>2. ASSUME NEW k \in Relay, NEW d \in Chunk PROVE Held(k, d)' = bitmap'[k][d]
    <3>1. Held(k, d) = bitmap[k][d]
      BY <2>1 DEF RelayOK
    <3>2. CASE k # n \/ d # c
      BY <3>1, <3>2, <2>1, <1>6, <1>8 DEF Held
    <3>3. CASE k = n /\ d = c
      BY <3>1, <3>3, <2>1, <1>6, <1>8 DEF Held
    <3> QED BY <3>2, <3>3
  <2> QED BY <2>2 DEF RelayOK
<1>16. NestedOK'
  <2> SUFFICES ASSUME NEW k \in Receiver, NEW l \in Receiver, k <= l, NEW d \in Chunk
               PROVE  bitmap'[l][d] \subseteq bitmap'[k][d]
    BY DEF NestedOK
  <2>1. bitmap[l][d] \subseteq bitmap[k][d]
    BY DEF IInv, NestedOK
  <2>2. CASE l # n \/ d # c
    BY <2>1, <2>2, <1>6
  <2>3. CASE l = n /\ d = c /\ k # n
    <3>1. k \in Int /\ n \in Int /\ k >= 2 /\ k <= n - 1 /\ n - 1 \in Relay
      BY <2>3, <1>1 DEF Receiver, Relay
    <3>2. p \in bitmap[n - 1][c] /\ n - 1 \in Receiver
      BY <3>1, <1>4, Nodes DEF IInv, RelayOK
    <3>3. bitmap[n - 1][c] \subseteq bitmap[k][c]
      BY <3>1, <3>2 DEF IInv, NestedOK
    <3> QED BY <2>1, <2>3, <3>2, <3>3, <1>6
  <2>4. CASE l = n /\ d = c /\ k = n
    BY <2>4
  <2> QED BY <2>2, <2>3, <2>4
<1>17. FirstOK'
  <2>1. FirstOK /\ 1 \in Sender /\ 2 \in Receiver /\ n # 1 /\ (n = 2 => n - 1 = 1)
    BY Nodes DEF IInv, Receiver
  <2>2. \A d \in Chunk : data'[1][d] = data[1][d]
    BY <2>1, <1>8
  <2>3. ASSUME NEW d \in Chunk PROVE bitmap'[2][d] \subseteq Held(1, d)'
    <3>1. CASE n = 2 /\ d = c
      BY <3>1, <2>1, <2>2, <1>4, <1>6 DEF FirstOK, Held
    <3>2. CASE n # 2 \/ d # c
      BY <3>2, <2>1, <2>2, <1>6 DEF FirstOK, Held
    <3> QED BY <3>1, <3>2
  <2> QED BY <2>3 DEF FirstOK
<1>18. FwdOK'
  <2>1. FwdOK /\ \A k \in Sender : Range(fwd[k]) \subseteq Msg
    BY <1>9, RangeOfSeq DEF IInv
  <2> QED BY <2>1, <1>10, <1>13 DEF FwdOK
<1>19. SavedOK' /\ CsyncOK' /\ AckOK'
  <2>1. SavedOK /\ CsyncOK /\ AckOK /\ saved' = saved /\ csync' = csync /\ back' = back
    BY DEF IInv, RecvDATA, timer
  <2> QED BY <2>1, <1>1, <1>13, KeptMessages
<1>20. WriteOK'
  <2>1. WriteOK /\ toFile' = toFile /\ Range(toFile) \subseteq Written /\ N \in Receiver
    BY <1>1, RangeOfSeq, Nodes DEF IInv, RecvDATA, TypeOK
  <2>2. \A w \in Range(toFile) : w.chk \in Chunk
    BY <2>1 DEF Written
  <2>3. \A d \in Chunk : bitmap'[N][d] \subseteq Pkt /\ bitmap[N][d] \subseteq bitmap'[N][d]
    BY <2>1, <1>6
  <2> QED BY <2>1, <2>2, <2>3 DEF WriteOK
<1> QED BY <1>11, <1>14, <1>15, <1>16, <1>17, <1>18, <1>19, <1>20 DEF IInv

\* A step that adds nothing to the vectors and the bitmaps.
LEMMA StoresKept ==
    ASSUME IInv, chkID' = chkID, data' = data, bitmap' = bitmap
    PROVE  /\ SourceOK' /\ RelayOK' /\ NestedOK' /\ FirstOK'
           /\ \A k \in Sender : /\ \A x \in Msg : MsgOK(k, x) => MsgOK(k, x)'
                                /\ \A d \in Chunk : Startable(k, d) => Startable(k, d)'
           /\ fwd' = fwd => FwdOK'
           /\ saved' = saved => SavedOK'
           /\ csync' = csync => CsyncOK'
           /\ back' = back => AckOK'
           /\ toFile' = toFile => WriteOK'
<1>1. SourceOK' /\ RelayOK' /\ NestedOK' /\ FirstOK'
  BY DEF IInv, SourceOK, RelayOK, NestedOK, FirstOK, Held
<1>2. \A k \in Sender : /\ \A x \in Msg : MsgOK(k, x) => MsgOK(k, x)'
                        /\ \A d \in Chunk : Startable(k, d) => Startable(k, d)'
  BY DEF MsgOK, Startable, Held
<1>3. TypeOK /\ FwdOK /\ SavedOK /\ CsyncOK /\ AckOK /\ WriteOK
  BY DEF IInv
<1>4. toFile' = toFile => WriteOK'
  BY <1>3 DEF WriteOK
<1> QED BY <1>1, <1>2, <1>3, <1>4, KeptMessages

\* Losing a message preserves the inductive invariant.
LEMMA LoseStep == ASSUME IInv, NEW n \in Sender, LoseFwd(n) \/ LoseBack(n) PROVE IInv'
<1>1. chkID' = chkID /\ data' = data /\ bitmap' = bitmap
  BY DEF LoseFwd, LoseBack, hop
<1>2. TypeOK /\ losses' \in 0 .. MaxLosses
  <2>1. TypeOK /\ losses \in 0 .. MaxLosses /\ MaxLosses \in Nat
    BY ConstAssumption DEF IInv, TypeOK
  <2>2. losses < MaxLosses /\ losses' = losses + 1
    BY DEF LoseFwd, LoseBack
  <2> QED BY <2>1, <2>2
<1>3. CASE LoseFwd(n)
  <2>1. fwd \in [Sender -> Seq(Msg)] /\ fwd[n] # <<>> /\ fwd' = [fwd EXCEPT ![n] = Tail(@)]
    BY <1>2, <1>3 DEF TypeOK, LoseFwd
  <2>2. /\ fwd' \in [Sender -> Seq(Msg)]
        /\ Range(fwd'[n]) \subseteq Range(fwd[n])
        /\ \A k \in Sender : k # n => fwd'[k] = fwd[k]
    BY <2>1, FwdTail
  <2>3. TypeOK'
    BY <1>2, <1>3, <2>2 DEF TypeOK, LoseFwd, hop, timer
  <2>4. FwdOK'
    <3>1. FwdOK /\ \A k \in Sender : Range(fwd'[k]) \subseteq Range(fwd[k])
      BY <2>2 DEF IInv
    <3>2. \A k \in Sender : Range(fwd[k]) \subseteq Msg
      BY <2>1, RangeOfSeq
    <3> QED BY <3>1, <3>2, <1>1, StoresKept DEF FwdOK
  <2>5. saved' = saved /\ csync' = csync /\ back' = back /\ toFile' = toFile
    BY <1>3 DEF LoseFwd, hop, timer
  <2> QED BY <1>1, <2>3, <2>4, <2>5, StoresKept DEF IInv
<1>4. CASE LoseBack(n)
  <2>1. back \in [Sender -> Seq(AckMsg)] /\ back[n] # <<>> /\ back' = [back EXCEPT ![n] = Tail(@)]
    BY <1>2, <1>4 DEF TypeOK, LoseBack
  <2>2. /\ back' \in [Sender -> Seq(AckMsg)]
        /\ Range(back'[n]) \subseteq Range(back[n])
        /\ \A k \in Sender : k # n => back'[k] = back[k]
    BY <2>1, BackTail
  <2>3. TypeOK'
    BY <1>2, <1>4, <2>2 DEF TypeOK, LoseBack, hop, timer
  <2>4. AckOK'
    <3>1. AckOK /\ \A k \in Sender : Range(back'[k]) \subseteq Range(back[k])
      BY <2>2 DEF IInv
    <3> QED BY <3>1, <1>1 DEF AckOK, Startable
  <2>5. saved' = saved /\ csync' = csync /\ fwd' = fwd /\ toFile' = toFile
    BY <1>4 DEF LoseBack, hop, timer
  <2> QED BY <1>1, <2>3, <2>4, <2>5, StoresKept DEF IInv
<1> QED BY <1>3, <1>4

\* Case 7, a CSYNC, preserves the inductive invariant.
LEMMA RecvCSYNCStep ==
    ASSUME IInv, NEW n \in Receiver, NEW route \in BOOLEAN, RecvCSYNC(n, route)
    PROVE  IInv'
<1>1. TypeOK /\ n - 1 \in Sender /\ n \in 1 .. N
  BY Nodes DEF IInv
<1>2. chkID' = chkID /\ data' = data /\ bitmap' = bitmap /\ saved' = saved
  BY DEF RecvCSYNC
<1>3. PICK m \in Msg : m = Head(fwd[n - 1]) /\ m \in Range(fwd[n - 1])
  <2>1. fwd[n - 1] \in Seq(Msg) /\ fwd[n - 1] # <<>>
    BY <1>1 DEF TypeOK, RecvCSYNC
  <2> QED BY <2>1, HeadTailRange
<1>4. PICK c \in Chunk : c = m.chk
  BY <1>3, MsgTypes
<1>5. Startable(n - 1, c)
  <2>1. m.type = "CSYNC" /\ MsgOK(n - 1, m)
    BY <1>1, <1>3 DEF RecvCSYNC, IInv, FwdOK
  <2> QED BY <2>1, <1>4 DEF MsgOK
<1>6. /\ SendCSYNCACK(n, c)
      /\ CSYNCFile(n, c) \/ CSYNCRelay(n, c, route) \/ CSYNCAnswer(n, c)
  BY <1>3, <1>4 DEF RecvCSYNC
<1>7. /\ fwd \in [Sender -> Seq(Msg)] /\ fwd[n - 1] # <<>>
      /\ back \in [Sender -> Seq(AckMsg)]
      /\ csync \in [Sender -> Seq(CsyncEntry)]
      /\ resume \in [Sender -> Nat]
      /\ toFile \in Seq(Written)
      /\ bitmap \in [Receiver -> [Chunk -> SUBSET Pkt]]
      /\ pktCount \in [1 .. N -> SUBSET Chunk]
  BY <1>1 DEF TypeOK, RecvCSYNC
<1>8. ACK(c, bitmap[n][c]) \in AckMsg /\ ACK(c, bitmap[n][c]).chk = c
  BY <1>7 DEF ACK, AckMsg
<1>9. /\ back' \in [Sender -> Seq(AckMsg)]
      /\ Range(back'[n - 1]) = Range(back[n - 1]) \cup {ACK(c, bitmap[n][c])}
      /\ \A k \in Sender : k # n - 1 => back'[k] = back[k]
  BY <1>1, <1>6, <1>7, <1>8, BackAppend DEF SendCSYNCACK
<1>10. pktCount' \in [1 .. N -> SUBSET Chunk]
  BY <1>1, <1>6, <1>7 DEF SendCSYNCACK
<1>11. AckOK'
  <2>1. AckOK
    BY DEF IInv
  <2>2. \A k \in Sender : \A x \in Range(back'[k]) : Startable(k, x.chk)
    BY <2>1, <1>5, <1>8, <1>9 DEF AckOK
  <2> QED BY <2>2, <1>2 DEF AckOK, Startable
<1>12. ASSUME fwd' = [fwd EXCEPT ![n - 1] = Tail(@)]
       PROVE  fwd' \in [Sender -> Seq(Msg)] /\ FwdOK'
  <2>1. /\ fwd' \in [Sender -> Seq(Msg)]
        /\ Range(fwd'[n - 1]) \subseteq Range(fwd[n - 1])
        /\ \A k \in Sender : k # n - 1 => fwd'[k] = fwd[k]
    BY <1>1, <1>7, <1>12, FwdTail
  <2>2. FwdOK /\ \A k \in Sender : Range(fwd'[k]) \subseteq Range(fwd[k])
    BY <2>1 DEF IInv
  <2> QED BY <2>1, <2>2, <1>2 DEF FwdOK, MsgOK, Startable, Held
<1>13. CASE CSYNCFile(n, c)
  <2>1. /\ fwd' = [fwd EXCEPT ![n - 1] = Tail(@)] /\ resume' = resume /\ csync' = csync
        /\ n = N /\ bitmap[N][c] = Pkt
    BY <1>13 DEF CSYNCFile, AllReceived
  <2>2. PICK w \in Written : w.chk = c /\ toFile' = Append(toFile, w)
    <3> DEFINE w == [chk |-> c, whole |-> pktArray = [p \in Pkt |-> c]]
    <3>1. w \in Written /\ w.chk = c
      BY DEF Written
    <3>2. toFile' = Append(toFile, w)
      BY <1>13 DEF CSYNCFile
    <3> QED BY <3>1, <3>2
  <2>3. toFile' \in Seq(Written) /\ Range(toFile') = Range(toFile) \cup {w}
    BY <1>7, <2>2, AppendRange
  <2>4. WriteOK'
    BY <2>1, <2>2, <2>3, <1>2 DEF IInv, WriteOK
  <2>5. TypeOK'
    BY <1>1, <1>2, <1>9, <1>10, <1>12, <2>1, <2>3 DEF TypeOK, RecvCSYNC
  <2> QED BY <1>2, <1>11, <1>12, <2>1, <2>4, <2>5, StoresKept DEF IInv
<1>14. CASE CSYNCAnswer(n, c)
  <2>1. /\ fwd' = [fwd EXCEPT ![n - 1] = Tail(@)]
        /\ resume' = resume /\ csync' = csync /\ toFile' = toFile
    BY <1>14 DEF CSYNCAnswer
  <2>2. TypeOK'
    BY <1>1, <1>2, <1>9, <1>10, <1>12, <2>1 DEF TypeOK, RecvCSYNC
  <2> QED BY <1>2, <1>11, <1>12, <2>1, <2>2, StoresKept DEF IInv
<1>15. CASE CSYNCRelay(n, c, route)
  <2>1. /\ n # N /\ bitmap[n][c] = Pkt /\ (c = 1 \/ resume[n] > 0)
        /\ resume' = IF c = 1 THEN resume ELSE [resume EXCEPT ![n] = @ - 1]
        /\ csync' = [csync EXCEPT ![n] = Append(@, Armed(c))]
        /\ fwd' = [fwd EXCEPT ![n - 1] = Tail(@), ![n] = IF route THEN Append(@, CSYNC(c)) ELSE @]
        /\ toFile' = toFile
    BY <1>15 DEF CSYNCRelay, RelayStarts, AllReceived
  <2>2. n \in Sender /\ n \in Relay
    BY <2>1, Nodes
  <2>3. Startable(n, c)
    <3>1. data[n][c] \in Seq(Pkt) /\ Range(data[n][c]) = Pkt
      BY <1>1, <2>1, <2>2 DEF IInv, TypeOK, RelayOK, Held
    <3> QED BY <3>1, LongEnough DEF Startable
  <2>4. resume' \in [Sender -> Nat]
    BY <1>7, <2>1, <2>2
  <2>5. /\ Armed(c) \in CsyncEntry /\ Armed(c).chk = c
        /\ CSYNC(c) \in Msg /\ CSYNC(c).chk = c /\ CSYNC(c).type = "CSYNC"
    BY MsgTypes DEF Armed, CsyncEntry
  <2>6. /\ csync' \in [Sender -> Seq(CsyncEntry)]
        /\ Range(csync'[n]) = Range(csync[n]) \cup {Armed(c)}
        /\ \A k \in Sender : k # n => csync'[k] = csync[k]
    BY <1>7, <2>1, <2>2, <2>5, CsyncAppend
  <2>7. CsyncOK'
    <3>1. CsyncOK
      BY DEF IInv
    <3>2. \A k \in Sender : \A e \in Range(csync'[k]) : Startable(k, e.chk)
      BY <3>1, <2>3, <2>5, <2>6 DEF CsyncOK
    <3> QED BY <3>2, <1>2 DEF CsyncOK, Startable
  <2>8. /\ fwd' \in [Sender -> Seq(Msg)]
        /\ Range(fwd'[n - 1]) \subseteq Range(fwd[n - 1])
        /\ Range(fwd'[n]) \subseteq Range(fwd[n]) \cup {CSYNC(c)}
        /\ \A k \in Sender : k # n - 1 /\ k # n => fwd'[k] = fwd[k]
    <3>1. fwd[n - 1] \in Seq(Msg) /\ fwd[n] \in Seq(Msg) /\ n # n - 1
      BY <1>1, <1>7, <2>2 DEF Receiver
    <3>2. Tail(fwd[n - 1]) \in Seq(Msg) /\ Range(Tail(fwd[n - 1])) \subseteq Range(fwd[n - 1])
      BY <3>1, <1>7, HeadTailRange
    <3>3. /\ Append(fwd[n], CSYNC(c)) \in Seq(Msg)
          /\ Range(Append(fwd[n], CSYNC(c))) = Range(fwd[n]) \cup {CSYNC(c)}
      BY <3>1, <2>5, AppendRange
    <3>4. /\ fwd'[n - 1] = Tail(fwd[n - 1])
          /\ fwd'[n] = IF route THEN Append(fwd[n], CSYNC(c)) ELSE fwd[n]
          /\ \A k \in Sender : k # n - 1 /\ k # n => fwd'[k] = fwd[k]
          /\ DOMAIN fwd' = Sender /\ fwd' = [k \in Sender |-> fwd'[k]]
      BY <1>1, <1>7, <2>1, <2>2, <3>1
    <3>5. \A k \in Sender : fwd'[k] \in Seq(Msg)
      BY <3>1, <3>2, <3>3, <3>4, <1>7
    <3> QED BY <3>2, <3>3, <3>4, <3>5
  <2>9. FwdOK'
    <3>1. FwdOK /\ MsgOK(n, CSYNC(c))
      BY <2>3, <2>5 DEF IInv, MsgOK
    <3>2. \A k \in Sender : \A x \in Range(fwd'[k]) : MsgOK(k, x)
      BY <3>1, <2>8 DEF FwdOK
    <3> QED BY <3>2, <1>2 DEF FwdOK, MsgOK, Startable, Held
  <2>10. TypeOK'
    BY <1>1, <1>2, <1>9, <1>10, <2>1, <2>4, <2>6, <2>8 DEF TypeOK, RecvCSYNC
  <2> QED BY <1>2, <1>11, <2>1, <2>7, <2>9, <2>10, StoresKept DEF IInv
<1> QED BY <1>6, <1>13, <1>14, <1>15

-----------------------------------------------------------------------------
(* The sending side.                                                       *)

\* A burst that node n may put on the link: messages about what n holds,
\* closed by the CSYNC of a chunk whose vector is long enough.
GoodBurst(n, pkts, d) ==
    /\ pkts \in Seq(Msg) /\ pkts # <<>>
    /\ \A x \in Range(pkts) : MsgOK(n, x)
    /\ d \in Chunk /\ pkts[Len(pkts)].chk = d /\ Startable(n, d)

\* The burst ProcessCSYNCACK resends holds only packets of the vector.
LEMMA ResendIsGood ==
    ASSUME TypeOK, NEW n \in Sender, NEW c \in Chunk, Startable(n, c),
           NEW missing \in SUBSET Pkt, NEW order \in Ascending(missing)
    PROVE  GoodBurst(n, Resend(n, c, order), c)
<1> DEFINE v == data[n][c]
           d == [k \in 1 .. Len(order) |-> DATA(c, v[order[k]])]
<1>1. v \in Seq(Pkt) /\ P <= Len(v) /\ P \in Nat
  BY ConstAssumption DEF TypeOK, Startable
<1>2. PICK k \in 0 .. P : order \in [1 .. k -> missing]
  BY DEF Ascending
<1>3. order \in Seq(missing) /\ Len(order) = k /\ k \in Nat
  BY <1>1, <1>2
<1>4. \A i \in 1 .. Len(order) : order[i] \in 1 .. Len(v)
  <2>1. Len(v) \in Nat
    BY <1>1
  <2>2. \A i \in Pkt : i \in 1 .. Len(v)
    BY <2>1, <1>1 DEF Pkt
  <2>3. \A i \in 1 .. Len(order) : order[i] \in Pkt
    BY <1>2, <1>3
  <2> QED BY <2>2, <2>3
<1>5. \A i \in 1 .. Len(order) : v[order[i]] \in Pkt /\ v[order[i]] \in Range(v)
  BY <1>1, <1>4, RangeEquality
<1> HIDE DEF v
<1>6. \A i \in 1 .. Len(order) : d[i] \in Msg /\ d[i].type = "DATA" /\ d[i].chk = c
                                 /\ d[i].pkt \in Range(v)
  BY <1>5, MsgTypes
<1>7. d \in Seq(Msg) /\ Len(d) = Len(order)
  BY <1>3, <1>6
<1>8. CSYNC(c) \in Msg /\ CSYNC(c).chk = c /\ MsgOK(n, CSYNC(c))
  BY MsgTypes DEF MsgOK
<1>9. Resend(n, c, order) = Append(d, CSYNC(c))
  BY DEF Resend, v
<1>10. Range(d) = {d[i] : i \in 1 .. Len(order)}
  BY <1>7, RangeEquality
<1> HIDE DEF d
<1>11. /\ Append(d, CSYNC(c)) \in Seq(Msg) /\ Append(d, CSYNC(c)) # <<>>
       /\ Len(Append(d, CSYNC(c))) = Len(d) + 1
       /\ Range(Append(d, CSYNC(c))) = Range(d) \cup {CSYNC(c)}
  BY <1>7, <1>8, AppendRange
<1>12. Append(d, CSYNC(c))[Len(d) + 1] = CSYNC(c)
  BY <1>7, <1>8, AppendProperties
<1>13. \A x \in Range(d) : MsgOK(n, x)
  BY <1>6, <1>10 DEF MsgOK, Held, v
<1> QED BY <1>8, <1>9, <1>11, <1>12, <1>13 DEF GoodBurst

\* The CSYNC of the next chunk is sent only when its vector is long enough.
LEMMA NextChunkIsGood ==
    ASSUME TypeOK, NEW n \in Sender, NEW c \in Chunk, NextChunk(n, c) # <<>>
    PROVE  GoodBurst(n, NextChunk(n, c), c + 1)
<1>1. /\ c + 1 \in pktCount[n] /\ Len(data[n][c + 1]) = P
      /\ NextChunk(n, c) = <<CSYNC(c + 1)>>
  BY DEF NextChunk, NextReady
<1>2. c + 1 \in Chunk
  <2>1. pktCount[n] \subseteq Chunk
    BY Nodes DEF TypeOK
  <2> QED BY <1>1, <2>1
<1>3. Startable(n, c + 1)
  BY <1>1, ConstAssumption DEF Startable
<1> DEFINE m == CSYNC(c + 1)
<1>4. m \in Msg /\ m.chk = c + 1 /\ MsgOK(n, m)
  BY <1>2, <1>3, MsgTypes DEF MsgOK
<1> HIDE DEF m
<1>5. <<m>> \in Seq(Msg) /\ <<m>> # <<>> /\ Range(<<m>>) = {m} /\ <<m>>[Len(<<m>>)] = m
  BY <1>4 DEF Range
<1> QED BY <1>1, <1>2, <1>3, <1>4, <1>5 DEF GoodBurst, m

\* Erasing the first csync_set entry leaves entries that were there.
LEMMA EraseFirstRange ==
    ASSUME NEW s \in Seq(CsyncEntry)
    PROVE  EraseFirst(s) \in Seq(CsyncEntry) /\ Range(EraseFirst(s)) \subseteq Range(s)
BY HeadTailRange DEF EraseFirst

\* Case 8, a CSYNC ACK, preserves the inductive invariant.
LEMMA RecvCSYNCACKStep ==
    ASSUME IInv, NEW n \in Sender, NEW forward \in BOOLEAN, RecvCSYNCACK(n, forward)
    PROVE  IInv'
<1>1. /\ chkID' = chkID /\ data' = data /\ bitmap' = bitmap /\ toFile' = toFile
      /\ back[n] # <<>> /\ back' = [back EXCEPT ![n] = Tail(@)]
  BY DEF RecvCSYNCACK
<1>2. /\ TypeOK
      /\ fwd \in [Sender -> Seq(Msg)]
      /\ back \in [Sender -> Seq(AckMsg)]
      /\ csync \in [Sender -> Seq(CsyncEntry)]
      /\ saved \in [Sender -> Seq(SavedEntry)]
      /\ resume \in [Sender -> Nat]
  BY DEF IInv, TypeOK
<1>3. /\ back' \in [Sender -> Seq(AckMsg)]
      /\ Range(back'[n]) \subseteq Range(back[n])
      /\ \A k \in Sender : k # n => back'[k] = back[k]
  BY <1>1, <1>2, BackTail
<1>4. AckOK'
  <2>1. AckOK /\ \A k \in Sender : Range(back'[k]) \subseteq Range(back[k])
    BY <1>3 DEF IInv
  <2> QED BY <2>1, <1>1 DEF AckOK, Startable
<1>5. PICK m \in AckMsg : m = Head(back[n]) /\ m \in Range(back[n])
  BY <1>1, <1>2, HeadTailRange
<1>6. m.chk \in Chunk /\ m.bits \subseteq Pkt /\ Startable(n, m.chk)
  BY <1>5 DEF AckMsg, IInv, AckOK
<1>7. EraseFirst(csync[n]) \in Seq(CsyncEntry) /\ Range(EraseFirst(csync[n])) \subseteq Range(csync[n])
  BY <1>2, EraseFirstRange
<1>8. CsyncOK /\ SavedOK /\ FwdOK
  BY DEF IInv
<1>9. ASSUME NEW pkts, NEW d, GoodBurst(n, pkts, d), ForwardBurst(n, pkts, d)
      PROVE  IInv'
  <2>1. /\ fwd' = [fwd EXCEPT ![n] = @ \o pkts]
        /\ csync' = [csync EXCEPT ![n] = Append(EraseFirst(@), Armed(d))]
        /\ saved' = saved /\ resume' = resume
    BY <1>9 DEF ForwardBurst
  <2>2. /\ fwd' \in [Sender -> Seq(Msg)]
        /\ Range(fwd'[n]) = Range(fwd[n]) \cup Range(pkts)
        /\ \A k \in Sender : k # n => fwd'[k] = fwd[k]
    BY <1>2, <1>9, <2>1, FwdConcat DEF GoodBurst
  <2>3. FwdOK'
    <3>1. \A k \in Sender : \A x \in Range(fwd'[k]) : MsgOK(k, x)
      BY <1>8, <1>9, <2>2 DEF FwdOK, GoodBurst
    <3> QED BY <3>1, <1>1 DEF FwdOK, MsgOK, Startable, Held
  <2>4. Armed(d) \in CsyncEntry /\ Armed(d).chk = d /\ Startable(n, d)
    BY <1>9 DEF GoodBurst, Armed, CsyncEntry
  <2>5. /\ Append(EraseFirst(csync[n]), Armed(d)) \in Seq(CsyncEntry)
        /\ Range(Append(EraseFirst(csync[n]), Armed(d))) = Range(EraseFirst(csync[n])) \cup {Armed(d)}
    BY <1>7, <2>4, AppendRange
  <2>6. /\ csync' \in [Sender -> Seq(CsyncEntry)]
        /\ Range(csync'[n]) \subseteq Range(csync[n]) \cup {Armed(d)}
        /\ \A k \in Sender : k # n => csync'[k] = csync[k]
    BY <1>2, <1>7, <2>1, <2>5
  <2>7. CsyncOK'
    <3>1. \A k \in Sender : \A e \in Range(csync'[k]) : Startable(k, e.chk)
      BY <1>8, <2>4, <2>6 DEF CsyncOK
    <3> QED BY <3>1, <1>1 DEF CsyncOK, Startable
  <2>8. TypeOK'
    BY <1>1, <1>2, <1>3, <2>1, <2>2, <2>6 DEF TypeOK, RecvCSYNCACK
  <2> QED BY <1>1, <1>4, <2>1, <2>3, <2>7, <2>8, StoresKept DEF IInv
<1>10. ASSUME csync' = [csync EXCEPT ![n] = EraseFirst(@)]
       PROVE  csync' \in [Sender -> Seq(CsyncEntry)] /\ CsyncOK'
  <2>1. /\ csync' \in [Sender -> Seq(CsyncEntry)]
        /\ \A k \in Sender : Range(csync'[k]) \subseteq Range(csync[k])
    BY <1>2, <1>7, <1>10
  <2> QED BY <2>1, <1>1, <1>8 DEF CsyncOK, Startable
<1>11. ASSUME NEW pkts, NEW d, GoodBurst(n, pkts, d), StoreBurst(n, pkts)
       PROVE  IInv'
  <2> DEFINE e == [pkts |-> pkts, armed |-> TRUE]
  <2>1. /\ saved' = [saved EXCEPT ![n] = Append(@, e)]
        /\ csync' = [csync EXCEPT ![n] = EraseFirst(@)]
        /\ fwd' = fwd /\ resume' = resume
    BY <1>11 DEF StoreBurst
  <2>2. e \in SavedEntry /\ e.pkts = pkts
    BY <1>11 DEF GoodBurst, SavedEntry
  <2> HIDE DEF e
  <2>3. /\ saved' \in [Sender -> Seq(SavedEntry)]
        /\ Range(saved'[n]) = Range(saved[n]) \cup {e}
        /\ \A k \in Sender : k # n => saved'[k] = saved[k]
    BY <1>2, <2>1, <2>2, SavedAppend
  <2>4. SavedOK'
    <3>1. (\A x \in Range(e.pkts) : MsgOK(n, x)) /\ Startable(n, Closing(e))
      BY <1>11, <2>2 DEF GoodBurst, Closing
    <3>2. \A k \in Sender : \A f \in Range(saved'[k]) :
              (\A x \in Range(f.pkts) : MsgOK(k, x)) /\ Startable(k, Closing(f))
      BY <3>1, <1>8, <2>3 DEF SavedOK
    <3> QED BY <3>2, <1>1 DEF SavedOK, MsgOK, Startable, Held, Closing
  <2>5. TypeOK'
    BY <1>1, <1>2, <1>3, <1>10, <2>1, <2>3 DEF TypeOK, RecvCSYNCACK
  <2> QED BY <1>1, <1>4, <1>10, <2>1, <2>4, <2>5, StoresKept DEF IInv
<1>12. ASSUME WaitInResume(n) PROVE IInv'
  <2>1. /\ resume' = [resume EXCEPT ![n] = @ + 1]
        /\ csync' = [csync EXCEPT ![n] = EraseFirst(@)]
        /\ fwd' = fwd /\ saved' = saved
    BY <1>12 DEF WaitInResume
  <2>2. resume' \in [Sender -> Nat]
    BY <1>2, <2>1
  <2>3. TypeOK'
    BY <1>1, <1>2, <1>3, <1>10, <2>1, <2>2 DEF TypeOK, RecvCSYNCACK
  <2> QED BY <1>1, <1>4, <1>10, <2>1, <2>3, StoresKept DEF IInv
<1>13. CASE Pkt \ m.bits # {}
  <2>1. PICK order \in Ascending(Pkt \ m.bits) :
            \/ ForwardBurst(n, Resend(n, m.chk, order), m.chk)
            \/ StoreBurst(n, Resend(n, m.chk, order))
    BY <1>5, <1>13 DEF RecvCSYNCACK
  <2>2. GoodBurst(n, Resend(n, m.chk, order), m.chk)
    BY <1>2, <1>6, ResendIsGood
  <2> QED BY <2>1, <2>2, <1>9, <1>11
<1>14. CASE Pkt \ m.bits = {}
  <2>1. \/ WaitInResume(n)
        \/ /\ NextChunk(n, m.chk) # <<>>
           /\ \/ ForwardBurst(n, NextChunk(n, m.chk), m.chk + 1)
              \/ StoreBurst(n, NextChunk(n, m.chk))
    BY <1>5, <1>14 DEF RecvCSYNCACK
  <2>2. NextChunk(n, m.chk) # <<>> => GoodBurst(n, NextChunk(n, m.chk), m.chk + 1)
    BY <1>2, <1>6, NextChunkIsGood
  <2> QED BY <2>1, <2>2, <1>9, <1>11, <1>12
<1> QED BY <1>13, <1>14

-----------------------------------------------------------------------------
(* Timers.                                                                 *)

\* Marking an entry as fired or armed leaves its chunk alone.
LEMMA RearmKeeps ==
    ASSUME NEW s \in Seq(CsyncEntry), NEW i \in 1 .. Len(s), NEW b \in BOOLEAN
    PROVE  /\ [s EXCEPT ![i].armed = b] \in Seq(CsyncEntry)
           /\ \A e \in Range([s EXCEPT ![i].armed = b]) : \E f \in Range(s) : e.chk = f.chk
           /\ Len([s EXCEPT ![i].armed = b]) = Len(s)
<1> DEFINE t == [s EXCEPT ![i].armed = b]
<1>1. \A j \in 1 .. Len(s) : s[j] \in CsyncEntry
  OBVIOUS
<1>2. \A j \in 1 .. Len(s) : t[j] \in CsyncEntry /\ t[j].chk = s[j].chk
  BY <1>1 DEF CsyncEntry
<1>3. DOMAIN t = 1 .. Len(s) /\ Len(s) \in Nat
  OBVIOUS
<1>4. t \in Seq(CsyncEntry) /\ Len(t) = Len(s)
  BY <1>2, <1>3
<1>5. \A e \in Range(t) : \E f \in Range(s) : e.chk = f.chk
  BY <1>2, <1>3 DEF Range
<1> QED BY <1>4, <1>5

\* A CSYNC retry preserves the inductive invariant.
LEMMA ReSendCSYNStep ==
    ASSUME IInv, NEW n \in Sender, NEW route \in BOOLEAN, NEW k \in 0 .. Len(csync[n]),
           ReSendCSYN(n, k, route)
    PROVE  IInv'
<1>1. /\ chkID' = chkID /\ data' = data /\ bitmap' = bitmap /\ toFile' = toFile
      /\ saved' = saved /\ back' = back /\ resume' = resume /\ pktCount' = pktCount
      /\ pktArray' = pktArray /\ dstray' = dstray /\ losses' = losses
  BY DEF ReSendCSYN, Postpone, hop
<1>2. /\ TypeOK
      /\ fwd \in [Sender -> Seq(Msg)]
      /\ csync \in [Sender -> Seq(CsyncEntry)] /\ csync[n] \in Seq(CsyncEntry)
      /\ stray \in [Sender -> Nat]
      /\ early \in 0 .. MaxEarly /\ MaxEarly \in Nat
      /\ CsyncOK /\ FwdOK
  BY ConstAssumption DEF IInv, TypeOK
<1>3. early' \in 0 .. MaxEarly
  <2>1. early' = early \/ (early < MaxEarly /\ early' = early + 1)
    BY DEF ReSendCSYN
  <2> QED BY <2>1, <1>2
<1> DEFINE s == Fired(csync[n], k)
           st == StrayAfter(stray[n], k)
<1>4. /\ s \in Seq(CsyncEntry) /\ Len(s) = Len(csync[n])
      /\ \A e \in Range(s) : \E f \in Range(csync[n]) : e.chk = f.chk
  <2>1. CASE k = 0
    BY <2>1, <1>2 DEF Fired
  <2>2. CASE k # 0
    <3>1. k \in 1 .. Len(csync[n])
      BY <2>2, <1>2
    <3>2. s = [csync[n] EXCEPT ![k].armed = FALSE]
      BY <2>2 DEF Fired
    <3>3. /\ [csync[n] EXCEPT ![k].armed = FALSE] \in Seq(CsyncEntry)
          /\ \A e \in Range([csync[n] EXCEPT ![k].armed = FALSE]) :
                \E f \in Range(csync[n]) : e.chk = f.chk
          /\ Len([csync[n] EXCEPT ![k].armed = FALSE]) = Len(csync[n])
      BY <3>1, <1>2, RearmKeeps
    <3> HIDE DEF s
    <3> QED BY <3>2, <3>3
  <2> QED BY <2>1, <2>2
<1>5. st \in Nat
  <2>1. stray[n] \in Nat /\ (k = 0 => stray[n] > 0)
    BY <1>2 DEF ReSendCSYN, Pending
  <2> QED BY <2>1 DEF StrayAfter
<1>6. \A e \in Range(s) : Startable(n, e.chk)
  BY <1>2, <1>4 DEF CsyncOK
<1>7. \/ stray' = [stray EXCEPT ![n] = st] /\ csync' = csync /\ fwd' = fwd
      \/ stray' = [stray EXCEPT ![n] = st + 1] /\ csync' = [csync EXCEPT ![n] = s] /\ fwd' = fwd
      \/ /\ s # <<>>
         /\ stray' = [stray EXCEPT ![n] = st]
         /\ csync' = [csync EXCEPT ![n] = [s EXCEPT ![1].armed = TRUE]]
         /\ fwd' = IF route THEN [fwd EXCEPT ![n] = Append(@, CSYNC(s[1].chk))] ELSE fwd
  BY DEF ReSendCSYN, Postpone
<1> HIDE DEF s, st
<1>8. stray' \in [Sender -> Nat]
  BY <1>2, <1>5, <1>7
<1>9. ASSUME csync' = csync, fwd' = fwd PROVE IInv'
  <2>1. TypeOK'
    BY <1>1, <1>2, <1>3, <1>8, <1>9 DEF TypeOK
  <2> QED BY <1>1, <1>9, <2>1, StoresKept DEF IInv
<1>10. ASSUME NEW t \in Seq(CsyncEntry), csync' = [csync EXCEPT ![n] = t],
              \A e \in Range(t) : Startable(n, e.chk)
       PROVE  csync' \in [Sender -> Seq(CsyncEntry)] /\ CsyncOK'
  <2>1. /\ csync' \in [Sender -> Seq(CsyncEntry)]
        /\ csync'[n] = t /\ \A j \in Sender : j # n => csync'[j] = csync[j]
    BY <1>2, <1>10
  <2>2. \A j \in Sender : \A e \in Range(csync'[j]) : Startable(j, e.chk)
    BY <1>2, <1>10, <2>1 DEF CsyncOK
  <2> QED BY <2>1, <2>2, <1>1 DEF CsyncOK, Startable
<1>11. ASSUME csync' = [csync EXCEPT ![n] = s], fwd' = fwd PROVE IInv'
  <2>1. csync' \in [Sender -> Seq(CsyncEntry)] /\ CsyncOK'
    BY <1>4, <1>6, <1>10, <1>11
  <2>2. TypeOK'
    BY <1>1, <1>2, <1>3, <1>8, <1>11, <2>1 DEF TypeOK
  <2> QED BY <1>1, <1>11, <2>1, <2>2, StoresKept DEF IInv
<1>12. ASSUME s # <<>>, csync' = [csync EXCEPT ![n] = [s EXCEPT ![1].armed = TRUE]],
              fwd' = IF route THEN [fwd EXCEPT ![n] = Append(@, CSYNC(s[1].chk))] ELSE fwd
       PROVE  IInv'
  <2>1. 1 \in 1 .. Len(s)
    BY <1>4, <1>12, EmptySeq, LenProperties
  <2>2. s[1] \in Range(s) /\ s[1] \in CsyncEntry
    BY <2>1, <1>4 DEF Range
  <2>3. PICK c \in Chunk : c = s[1].chk
    BY <2>2 DEF CsyncEntry
  <2>4. Startable(n, c)
    BY <2>2, <2>3, <1>6
  <2> DEFINE t == [s EXCEPT ![1].armed = TRUE]
  <2>5. t \in Seq(CsyncEntry) /\ \A e \in Range(t) : \E f \in Range(s) : e.chk = f.chk
    BY <2>1, <1>4, RearmKeeps
  <2>6. csync' = [csync EXCEPT ![n] = t]
    BY <1>12
  <2> HIDE DEF t
  <2>7. csync' \in [Sender -> Seq(CsyncEntry)] /\ CsyncOK'
    BY <2>5, <2>6, <1>6, <1>10
  <2>8. CSYNC(c) \in Msg /\ MsgOK(n, CSYNC(c))
    BY <2>4, MsgTypes DEF MsgOK
  <2>9. /\ fwd' \in [Sender -> Seq(Msg)]
        /\ Range(fwd'[n]) \subseteq Range(fwd[n]) \cup {CSYNC(c)}
        /\ \A j \in Sender : j # n => fwd'[j] = fwd[j]
    <3>1. CASE fwd' = fwd
      BY <3>1, <1>2
    <3>2. CASE fwd' = [fwd EXCEPT ![n] = Append(@, CSYNC(c))]
      BY <3>2, <2>8, <1>2, FwdAppend
    <3>3. fwd' = fwd \/ fwd' = [fwd EXCEPT ![n] = Append(@, CSYNC(c))]
      BY <2>3, <1>12
    <3> QED BY <3>1, <3>2, <3>3
  <2>10. FwdOK'
    <3>1. \A j \in Sender : \A x \in Range(fwd'[j]) : MsgOK(j, x)
      BY <1>2, <2>8, <2>9 DEF FwdOK
    <3> QED BY <3>1, <1>1 DEF FwdOK, MsgOK, Startable, Held
  <2>11. TypeOK'
    BY <1>1, <1>2, <1>3, <1>8, <2>7, <2>9 DEF TypeOK
  <2> QED BY <1>1, <2>7, <2>10, <2>11, StoresKept DEF IInv
<1> QED BY <1>7, <1>9, <1>11, <1>12

\* The same for stored bursts.
LEMMA RearmKeepsSaved ==
    ASSUME NEW s \in Seq(SavedEntry), NEW i \in 1 .. Len(s), NEW b \in BOOLEAN
    PROVE  /\ [s EXCEPT ![i].armed = b] \in Seq(SavedEntry)
           /\ \A e \in Range([s EXCEPT ![i].armed = b]) : \E f \in Range(s) : e.pkts = f.pkts
           /\ Len([s EXCEPT ![i].armed = b]) = Len(s)
<1> DEFINE t == [s EXCEPT ![i].armed = b]
<1>1. \A j \in 1 .. Len(s) : s[j] \in SavedEntry
  OBVIOUS
<1>2. \A j \in 1 .. Len(s) : t[j] \in SavedEntry /\ t[j].pkts = s[j].pkts
  BY <1>1 DEF SavedEntry
<1>3. DOMAIN t = 1 .. Len(s) /\ Len(s) \in Nat
  OBVIOUS
<1>4. t \in Seq(SavedEntry) /\ Len(t) = Len(s)
  BY <1>2, <1>3
<1>5. \A e \in Range(t) : \E f \in Range(s) : e.pkts = f.pkts
  BY <1>2, <1>3 DEF Range
<1> QED BY <1>4, <1>5

\* A retry of a stored burst preserves the inductive invariant.
LEMMA ReSendDataStep ==
    ASSUME IInv, NEW n \in Sender, NEW good \in BOOLEAN, NEW k \in 0 .. Len(saved[n]),
           ReSendData(n, k, good)
    PROVE  IInv'
<1>1. /\ chkID' = chkID /\ data' = data /\ bitmap' = bitmap /\ toFile' = toFile
      /\ back' = back /\ resume' = resume /\ pktCount' = pktCount
      /\ pktArray' = pktArray /\ stray' = stray /\ losses' = losses /\ early' = early
  BY DEF ReSendData, hop
<1>2. /\ TypeOK
      /\ fwd \in [Sender -> Seq(Msg)]
      /\ csync \in [Sender -> Seq(CsyncEntry)]
      /\ saved \in [Sender -> Seq(SavedEntry)] /\ saved[n] \in Seq(SavedEntry)
      /\ dstray \in [Sender -> Nat]
      /\ CsyncOK /\ FwdOK /\ SavedOK
  BY DEF IInv, TypeOK
<1> DEFINE s == Fired(saved[n], k)
           st == StrayAfter(dstray[n], k)
<1>3. /\ s \in Seq(SavedEntry) /\ Len(s) = Len(saved[n])
      /\ \A e \in Range(s) : \E f \in Range(saved[n]) : e.pkts = f.pkts
  <2>1. CASE k = 0
    BY <2>1, <1>2 DEF Fired
  <2>2. CASE k # 0
    <3>1. k \in 1 .. Len(saved[n])
      BY <2>2, <1>2
    <3>2. s = [saved[n] EXCEPT ![k].armed = FALSE]
      BY <2>2 DEF Fired
    <3>3. /\ [saved[n] EXCEPT ![k].armed = FALSE] \in Seq(SavedEntry)
          /\ \A e \in Range([saved[n] EXCEPT ![k].armed = FALSE]) :
                \E f \in Range(saved[n]) : e.pkts = f.pkts
          /\ Len([saved[n] EXCEPT ![k].armed = FALSE]) = Len(saved[n])
      BY <3>1, <1>2, RearmKeepsSaved
    <3> HIDE DEF s
    <3> QED BY <3>2, <3>3
  <2> QED BY <2>1, <2>2
<1>4. dstray[n] \in Nat /\ (k = 0 => dstray[n] > 0)
  BY <1>2 DEF ReSendData, Pending
<1>5. st \in Nat
  BY <1>4 DEF StrayAfter
<1>6. \/ saved[n] = <<>> /\ dstray' = [dstray EXCEPT ![n] = @ - 1]
         /\ saved' = saved /\ fwd' = fwd /\ csync' = csync
      \/ saved[n] # <<>> /\ SendSaved(n, k)
      \/ saved[n] # <<>> /\ KeepSaved(n, k)
  BY DEF ReSendData
\* What a table of stored bursts says depends on its bursts only.
<1>7. ASSUME NEW t \in Seq(SavedEntry), saved' = [saved EXCEPT ![n] = t],
             \A e \in Range(t) : \E f \in Range(saved[n]) : e.pkts = f.pkts
      PROVE  saved' \in [Sender -> Seq(SavedEntry)] /\ SavedOK'
  <2>1. /\ saved' \in [Sender -> Seq(SavedEntry)]
        /\ saved'[n] = t /\ \A j \in Sender : j # n => saved'[j] = saved[j]
    BY <1>2, <1>7
  <2>2. \A j \in Sender : \A e \in Range(saved'[j]) :
            \E f \in Range(saved[j]) : e.pkts = f.pkts
    BY <1>7, <2>1
  <2>3. \A j \in Sender : \A e \in Range(saved'[j]) :
            (\A x \in Range(e.pkts) : MsgOK(j, x)) /\ Startable(j, Closing(e))
    <3> SUFFICES ASSUME NEW j \in Sender, NEW e \in Range(saved'[j])
                 PROVE  (\A x \in Range(e.pkts) : MsgOK(j, x)) /\ Startable(j, Closing(e))
      OBVIOUS
    <3>1. PICK f \in Range(saved[j]) : e.pkts = f.pkts
      BY <2>2
    <3>2. (\A x \in Range(f.pkts) : MsgOK(j, x)) /\ Startable(j, Closing(f))
      BY <1>2 DEF SavedOK
    <3> QED BY <3>1, <3>2 DEF Closing
  <2> QED BY <2>1, <2>3, <1>1 DEF SavedOK, MsgOK, Startable, Held, Closing
<1>8. CASE saved[n] = <<>> /\ dstray' = [dstray EXCEPT ![n] = @ - 1]
           /\ saved' = saved /\ fwd' = fwd /\ csync' = csync
  <2>1. k = 0
    <3>1. Len(saved[n]) = 0
      BY <1>8
    <3> QED BY <3>1
  <2>2. dstray' \in [Sender -> Nat]
    BY <1>2, <1>4, <1>8, <2>1
  <2>3. TypeOK'
    BY <1>1, <1>2, <1>8, <2>2 DEF TypeOK
  <2> QED BY <1>1, <1>8, <2>3, StoresKept DEF IInv
<1>9. CASE saved[n] # <<>> /\ KeepSaved(n, k)
  <2>1. /\ saved' = [saved EXCEPT ![n] = [s EXCEPT ![1].armed = TRUE]]
        /\ dstray' = [dstray EXCEPT ![n] = IF s[1].armed THEN st + 1 ELSE st]
        /\ fwd' = fwd /\ csync' = csync
    BY <1>9 DEF KeepSaved
  <2> HIDE DEF s, st
  <2>2. 1 \in 1 .. Len(s)
    <3>1. Len(saved[n]) \in Nat /\ Len(saved[n]) # 0
      BY <1>2, <1>9, EmptySeq, LenProperties
    <3> QED BY <3>1, <1>3
  <2>3. dstray' \in [Sender -> Nat]
    BY <1>2, <1>5, <2>1
  <2> DEFINE t == [s EXCEPT ![1].armed = TRUE]
  <2>4. t \in Seq(SavedEntry) /\ \A e \in Range(t) : \E f \in Range(s) : e.pkts = f.pkts
    BY <2>2, <1>3, RearmKeepsSaved
  <2>5. saved' = [saved EXCEPT ![n] = t]
    BY <2>1
  <2> HIDE DEF t
  <2>6. saved' \in [Sender -> Seq(SavedEntry)] /\ SavedOK'
    <3>1. \A e \in Range(t) : \E f \in Range(saved[n]) : e.pkts = f.pkts
      BY <1>3, <2>4
    <3> QED BY <3>1, <1>7, <2>4, <2>5
  <2>7. TypeOK'
    BY <1>1, <1>2, <2>1, <2>3, <2>6 DEF TypeOK
  <2> QED BY <1>1, <2>1, <2>6, <2>7, StoresKept DEF IInv
<1>10. CASE saved[n] # <<>> /\ SendSaved(n, k)
  <2> DEFINE e == saved[n][1]
  <2>1. /\ saved' = [saved EXCEPT ![n] = Tail(s)]
        /\ dstray' = [dstray EXCEPT ![n] = st]
        /\ fwd' = [fwd EXCEPT ![n] = @ \o e.pkts]
        /\ csync' = [csync EXCEPT ![n] = Append(@, Armed(Closing(e)))]
    BY <1>10 DEF SendSaved, Closing
  <2> HIDE DEF s, st
  <2>2. Len(saved[n]) \in Nat /\ Len(saved[n]) # 0
    BY <1>2, <1>10, EmptySeq, LenProperties
  <2>3. s # <<>> /\ 1 \in 1 .. Len(saved[n])
    BY <2>2, <1>3
  <2>4. e \in SavedEntry /\ e \in Range(saved[n])
    BY <2>3, <1>2 DEF Range
  <2> HIDE DEF e
  <2>5. e.pkts \in Seq(Msg) /\ e.pkts # <<>>
    BY <2>4 DEF SavedEntry
  <2>6. (\A x \in Range(e.pkts) : MsgOK(n, x)) /\ Startable(n, Closing(e))
    BY <2>4, <1>2 DEF SavedOK
  <2>7. PICK d \in Chunk : d = Closing(e)
    <3>1. Len(e.pkts) \in 1 .. Len(e.pkts)
      BY <2>5, EmptySeq, LenProperties
    <3>2. e.pkts[Len(e.pkts)] \in Msg
      BY <2>5, <3>1
    <3> QED BY <3>2, MsgTypes DEF Closing
  <2>8. Tail(s) \in Seq(SavedEntry) /\ Range(Tail(s)) \subseteq Range(s)
    BY <2>3, <1>3, HeadTailRange
  <2>9. saved' \in [Sender -> Seq(SavedEntry)] /\ SavedOK'
    BY <1>3, <1>7, <2>1, <2>8
  <2>10. dstray' \in [Sender -> Nat]
    BY <1>2, <1>5, <2>1
  <2>11. /\ fwd' \in [Sender -> Seq(Msg)]
         /\ Range(fwd'[n]) = Range(fwd[n]) \cup Range(e.pkts)
         /\ \A j \in Sender : j # n => fwd'[j] = fwd[j]
    BY <1>2, <2>1, <2>5, FwdConcat
  <2>12. FwdOK'
    <3>1. \A j \in Sender : \A x \in Range(fwd'[j]) : MsgOK(j, x)
      BY <1>2, <2>6, <2>11 DEF FwdOK
    <3> QED BY <3>1, <1>1 DEF FwdOK, MsgOK, Startable, Held
  <2>13. Armed(d) \in CsyncEntry /\ Armed(d).chk = d
    BY DEF Armed, CsyncEntry
  <2>14. csync' = [csync EXCEPT ![n] = Append(@, Armed(d))]
    BY <2>1, <2>7
  <2>15. /\ csync' \in [Sender -> Seq(CsyncEntry)]
         /\ Range(csync'[n]) = Range(csync[n]) \cup {Armed(d)}
         /\ \A j \in Sender : j # n => csync'[j] = csync[j]
    BY <1>2, <2>13, <2>14, CsyncAppend
  <2>16. CsyncOK'
    <3>1. \A j \in Sender : \A f \in Range(csync'[j]) : Startable(j, f.chk)
      BY <1>2, <2>6, <2>7, <2>13, <2>15 DEF CsyncOK
    <3> QED BY <3>1, <1>1 DEF CsyncOK, Startable
  <2>17. TypeOK'
    BY <1>1, <1>2, <2>9, <2>10, <2>11, <2>15 DEF TypeOK
  <2> QED BY <1>1, <2>9, <2>12, <2>16, <2>17, StoresKept DEF IInv
<1> QED BY <1>6, <1>8, <1>9, <1>10

-----------------------------------------------------------------------------
(* The theorems.                                                           *)

\* Every step of the specification preserves the inductive invariant.
LEMMA NextIInv == IInv /\ [Next]_vars => IInv'
<1> SUFFICES ASSUME IInv, [Next]_vars PROVE IInv'
  OBVIOUS
<1>1. CASE \E route \in BOOLEAN : SendData(route)
  BY <1>1, SendDataStep
<1>2. CASE \E n \in Receiver : RecvDATA(n)
  BY <1>2, RecvDATAStep
<1>3. CASE \E n \in Receiver, route \in BOOLEAN : RecvCSYNC(n, route)
  BY <1>3, RecvCSYNCStep
<1>4. CASE \E n \in Sender, forward \in BOOLEAN : RecvCSYNCACK(n, forward)
  BY <1>4, RecvCSYNCACKStep
<1>5. CASE \E n \in Sender, route \in BOOLEAN :
              \E k \in 0 .. Len(csync[n]) : ReSendCSYN(n, k, route)
  BY <1>5, ReSendCSYNStep
<1>6. CASE \E n \in Sender, good \in BOOLEAN :
              \E k \in 0 .. Len(saved[n]) : ReSendData(n, k, good)
  BY <1>6, ReSendDataStep
<1>7. CASE \E n \in Sender : LoseFwd(n) \/ LoseBack(n)
  BY <1>7, LoseStep
<1>8. CASE UNCHANGED vars
  <2>1. /\ chkID' = chkID /\ data' = data /\ bitmap' = bitmap /\ toFile' = toFile
        /\ back' = back /\ resume' = resume /\ pktCount' = pktCount
        /\ pktArray' = pktArray /\ stray' = stray /\ losses' = losses /\ early' = early
        /\ fwd' = fwd /\ csync' = csync /\ saved' = saved /\ dstray' = dstray
    BY <1>8 DEF vars, hop, timer, net
  <2>2. TypeOK'
    BY <2>1 DEF IInv, TypeOK
  <2> QED BY <2>1, <2>2, StoresKept DEF IInv
<1> QED BY <1>1, <1>2, <1>3, <1>4, <1>5, <1>6, <1>7, <1>8 DEF Next

\* The inductive invariant holds in every behaviour of HopTransfer.
THEOREM Inductive == Spec => []IInv
<1>1. Init => IInv
  BY InitIInv
<1>2. IInv /\ [Next]_vars => IInv'
  BY NextIInv
<1> QED BY <1>1, <1>2, PTL DEF Spec

\* Every variable keeps its type: in particular no burst is ever empty and
\* every chunk named by a message, an entry or an ACK is one of the flow.
THEOREM TypeCorrect == Spec => []TypeOK
<1>1. IInv => TypeOK
  BY DEF IInv
<1> QED BY <1>1, Inductive, PTL

\* ProcessCSYNCACK never reads past the end of data_pkt_vector, however many
\* messages are lost and however many answers come late.
THEOREM NoOverrun == Spec => []InBounds
<1>1. IInv => InBounds
  <2> SUFFICES ASSUME IInv, NEW n \in Sender, NEW m \in Range(back[n]), NEW i \in Pkt
               PROVE  i <= Len(data[n][m.chk])
    BY DEF InBounds
  <2>1. Startable(n, m.chk)
    BY DEF IInv, AckOK
  <2>2. m.chk \in Chunk
    <3>1. back[n] \in Seq(AckMsg)
      BY DEF IInv, TypeOK
    <3>2. m \in AckMsg
      BY <3>1, RangeOfSeq
    <3> QED BY <3>2 DEF AckMsg
  <2>3. Len(data[n][m.chk]) \in Nat
    <3>1. data[n][m.chk] \in Seq(Pkt)
      BY <2>2 DEF IInv, TypeOK
    <3> QED BY <3>1
  <2> QED BY <2>1, <2>3, ConstAssumption DEF Startable, Pkt
<1> QED BY <1>1, Inductive, PTL

\* The destination writes only chunks that the source made and that every
\* relay on the way holds completely.
THEOREM WrittenEndToEnd == Spec => []WrittenWasCarried
<1>1. IInv => WrittenWasCarried
  <2> SUFFICES ASSUME IInv, NEW w \in Range(toFile)
               PROVE  w.chk <= chkID /\ \A n \in Receiver : bitmap[n][w.chk] = Pkt
    BY DEF WrittenWasCarried
  <2>1. w.chk \in Chunk
    <3>1. toFile \in Seq(Written)
      BY DEF IInv, TypeOK
    <3>2. w \in Written
      BY <3>1, RangeOfSeq
    <3> QED BY <3>2 DEF Written
  <2>2. bitmap[N][w.chk] = Pkt /\ N \in Receiver /\ 2 \in Receiver
    BY Nodes DEF IInv, WriteOK
  <2>3. ASSUME NEW n \in Receiver PROVE bitmap[n][w.chk] = Pkt
    <3>1. bitmap[N][w.chk] \subseteq bitmap[n][w.chk]
      BY <2>1, <2>2, ConstAssumption DEF IInv, NestedOK, Receiver
    <3>2. bitmap[n][w.chk] \subseteq Pkt
      BY <2>1 DEF IInv, TypeOK
    <3> QED BY <3>1, <3>2, <2>2
  <2>4. Pkt \subseteq Range(data[1][w.chk])
    BY <2>1, <2>2, <2>3 DEF IInv, FirstOK, Held
  <2>5. 1 \in Pkt /\ Range(<<>>) = {}
    BY ConstAssumption DEF Pkt, Range
  <2>6. w.chk <= chkID
    BY <2>1, <2>4, <2>5 DEF IInv, SourceOK
  <2> QED BY <2>3, <2>6
<1> QED BY <1>1, Inductive, PTL

-----------------------------------------------------------------------------
(* HopTransfer implements ChunkRelay.                                      *)

\* What a step does to the three things ChunkRelay knows.
LEMMA MappedStep ==
    ASSUME IInv, [Next]_vars
    PROVE  \/ UNCHANGED <<chkID, bitmap, toFile>>
           \/ /\ chkID < C /\ chkID' = chkID + 1
              /\ UNCHANGED <<bitmap, toFile>>
           \/ \E n \in Receiver, c \in Chunk, p \in Pkt :
                 /\ IF n = 2 THEN c <= chkID ELSE p \in bitmap[n - 1][c]
                 /\ bitmap' = [bitmap EXCEPT ![n][c] = @ \cup {p}]
                 /\ UNCHANGED <<chkID, toFile>>
           \/ \E c \in Chunk, x \in Written :
                 /\ bitmap[N][c] = Pkt /\ x.chk = c
                 /\ toFile' = Append(toFile, x)
                 /\ UNCHANGED <<chkID, bitmap>>
<1>1. ASSUME NEW route \in BOOLEAN, SendData(route)
      PROVE  chkID < C /\ chkID' = chkID + 1 /\ UNCHANGED <<bitmap, toFile>>
  BY <1>1 DEF SendData
<1>2. ASSUME NEW n \in Receiver, RecvDATA(n)
      PROVE  \E c \in Chunk, p \in Pkt :
                 /\ IF n = 2 THEN c <= chkID ELSE p \in bitmap[n - 1][c]
                 /\ bitmap' = [bitmap EXCEPT ![n][c] = @ \cup {p}]
                 /\ UNCHANGED <<chkID, toFile>>
  <2>1. TypeOK /\ n - 1 \in Sender
    BY Nodes DEF IInv
  <2>2. PICK m \in Msg : m = Head(fwd[n - 1]) /\ m \in Range(fwd[n - 1])
    <3>1. fwd[n - 1] \in Seq(Msg) /\ fwd[n - 1] # <<>>
      BY <1>2, <2>1 DEF TypeOK, RecvDATA
    <3> QED BY <3>1, HeadTailRange
  <2>3. PICK c \in Chunk, p \in Pkt : c = m.chk /\ p = m.pkt
    BY <1>2, <2>2, MsgTypes DEF RecvDATA
  <2>4. p \in Held(n - 1, c)
    <3>1. m.type = "DATA" /\ MsgOK(n - 1, m)
      BY <1>2, <2>1, <2>2 DEF RecvDATA, IInv, FwdOK
    <3> QED BY <2>3, <3>1 DEF MsgOK
  <2>5. bitmap' = [bitmap EXCEPT ![n][c] = @ \cup {p}] /\ UNCHANGED <<chkID, toFile>>
    BY <1>2, <2>2, <2>3 DEF RecvDATA
  <2>6. CASE n = 2
    <3>1. p \in Range(data[1][c]) /\ Range(<<>>) = {}
      BY <2>4, <2>6 DEF Held, Range
    <3>2. c <= chkID
      BY <3>1 DEF IInv, SourceOK
    <3> QED BY <2>5, <2>6, <3>2
  <2>7. CASE n # 2
    <3>1. n - 1 \in Relay
      BY <2>7, ConstAssumption DEF Receiver, Relay
    <3>2. p \in bitmap[n - 1][c]
      BY <2>4, <3>1 DEF IInv, RelayOK
    <3> QED BY <2>5, <2>7, <3>2
  <2> QED BY <2>6, <2>7
<1>3. ASSUME NEW n \in Receiver, NEW route \in BOOLEAN, RecvCSYNC(n, route)
      PROVE  \/ UNCHANGED <<chkID, bitmap, toFile>>
             \/ \E c \in Chunk, x \in Written :
                   /\ bitmap[N][c] = Pkt /\ x.chk = c
                   /\ toFile' = Append(toFile, x)
                   /\ UNCHANGED <<chkID, bitmap>>
  <2>1. TypeOK /\ n - 1 \in Sender
    BY Nodes DEF IInv
  <2>2. PICK m \in Msg : m = Head(fwd[n - 1])
    <3>1. fwd[n - 1] \in Seq(Msg) /\ fwd[n - 1] # <<>>
      BY <1>3, <2>1 DEF TypeOK, RecvCSYNC
    <3> QED BY <3>1, HeadTailRange
  <2>3. PICK c \in Chunk : c = m.chk
    BY <2>2, MsgTypes
  <2>4. /\ CSYNCFile(n, c) \/ CSYNCRelay(n, c, route) \/ CSYNCAnswer(n, c)
        /\ UNCHANGED <<chkID, bitmap>>
    BY <1>3, <2>2, <2>3 DEF RecvCSYNC
  <2>5. CASE CSYNCRelay(n, c, route) \/ CSYNCAnswer(n, c)
    BY <2>4, <2>5 DEF CSYNCRelay, CSYNCAnswer
  <2>6. CASE CSYNCFile(n, c)
    <3> PICK x : x = [chk |-> c, whole |-> pktArray = [p \in Pkt |-> c]]
      OBVIOUS
    <3>1. x \in Written /\ x.chk = c
      BY DEF Written
    <3>2. toFile' = Append(toFile, x) /\ bitmap[N][c] = Pkt
      BY <2>6 DEF CSYNCFile, AllReceived
    <3> QED BY <2>4, <3>1, <3>2
  <2> QED BY <2>4, <2>5, <2>6
<1>4. ASSUME NEW n \in Sender, NEW forward \in BOOLEAN, RecvCSYNCACK(n, forward)
      PROVE  UNCHANGED <<chkID, bitmap, toFile>>
  BY <1>4 DEF RecvCSYNCACK
<1>5. ASSUME NEW n \in Sender, NEW k \in 0 .. Len(csync[n]), NEW route \in BOOLEAN,
             ReSendCSYN(n, k, route)
      PROVE  UNCHANGED <<chkID, bitmap, toFile>>
  BY <1>5 DEF ReSendCSYN, Postpone, hop
<1>6. ASSUME NEW n \in Sender, NEW k \in 0 .. Len(saved[n]), NEW good \in BOOLEAN,
             ReSendData(n, k, good)
      PROVE  UNCHANGED <<chkID, bitmap, toFile>>
  BY <1>6 DEF ReSendData, hop
<1>7. ASSUME NEW n \in Sender, LoseFwd(n) \/ LoseBack(n)
      PROVE  UNCHANGED <<chkID, bitmap, toFile>>
  BY <1>7 DEF LoseFwd, LoseBack, hop
<1>8. CASE UNCHANGED vars
  BY <1>8 DEF vars, hop
<1>9. CASE Next
  BY <1>1, <1>2, <1>3, <1>4, <1>5, <1>6, <1>7, <1>9 DEF Next
<1> QED BY <1>8, <1>9

\* The hop-by-hop transfer, with its losses, retries and crossed answers,
\* implements the abstract relay of chunks.
THEOREM Refinement == Spec => Implements
<1> DEFINE W == {w.chk : w \in Range(toFile)}
<1>1. Init => Abstract!Init
  <2> SUFFICES ASSUME Init PROVE Abstract!Init
    OBVIOUS
  <2>1. Range(toFile) = {}
    BY DEF Init, Range
  <2> QED BY <2>1 DEF Init, Abstract!Init, Receiver, Chunk
<1>2. ASSUME IInv, [Next]_vars PROVE [Abstract!Next]_(Abstract!vars)
  <2>1. CASE UNCHANGED <<chkID, bitmap, toFile>>
    BY <2>1 DEF Abstract!vars
  <2>2. CASE /\ chkID < C /\ chkID' = chkID + 1 /\ UNCHANGED <<bitmap, toFile>>
    BY <2>2 DEF Abstract!Next, Abstract!Make
  <2>3. CASE \E n \in Receiver, c \in Chunk, p \in Pkt :
                 /\ IF n = 2 THEN c <= chkID ELSE p \in bitmap[n - 1][c]
                 /\ bitmap' = [bitmap EXCEPT ![n][c] = @ \cup {p}]
                 /\ UNCHANGED <<chkID, toFile>>
    <3> PICK n \in Receiver, c \in Chunk, p \in Pkt :
                 /\ IF n = 2 THEN c <= chkID ELSE p \in bitmap[n - 1][c]
                 /\ bitmap' = [bitmap EXCEPT ![n][c] = @ \cup {p}]
                 /\ UNCHANGED <<chkID, toFile>>
      BY <2>3
    <3>1. p \in Abstract!Offer(n, c)
      BY DEF Abstract!Offer, Pkt
    <3>2. W' = W
      OBVIOUS
    <3>3. Abstract!Carry(n, c, p)
      BY <3>1, <3>2 DEF Abstract!Carry
    <3> QED BY <3>3 DEF Abstract!Next, Receiver, Chunk, Pkt
  <2>4. CASE \E c \in Chunk, x \in Written :
                 /\ bitmap[N][c] = Pkt /\ x.chk = c
                 /\ toFile' = Append(toFile, x)
                 /\ UNCHANGED <<chkID, bitmap>>
    <3> PICK c \in Chunk, x \in Written :
                 /\ bitmap[N][c] = Pkt /\ x.chk = c
                 /\ toFile' = Append(toFile, x)
                 /\ UNCHANGED <<chkID, bitmap>>
      BY <2>4
    <3>1. toFile \in Seq(Written)
      BY <1>2 DEF IInv, TypeOK
    <3>2. Range(toFile') = Range(toFile) \cup {x}
      BY <3>1, AppendRange
    <3>3. W' = W \cup {c}
      BY <3>2
    <3>4. Abstract!Write(c)
      BY <3>3 DEF Abstract!Write, Pkt
    <3> QED BY <3>4 DEF Abstract!Next, Chunk
  <2> QED BY <1>2, <2>1, <2>2, <2>3, <2>4, MappedStep
<1> QED BY <1>1, <1>2, Inductive, PTL DEF Spec, Implements, Abstract!Spec

-----------------------------------------------------------------------------
(* Custody of the flow.                                                    *)

\* Re-arming an entry leaves the table nonempty.
LEMMA StillNonEmpty ==
    /\ \A S, s : s \in Seq(S) /\ s # <<>> => \A e : [s EXCEPT ![1] = e] # <<>>
    /\ \A S, s, k : s \in Seq(S) /\ s # <<>> => Fired(s, k) # <<>>
<1>1. ASSUME NEW S, NEW s \in Seq(S), s # <<>>, NEW k, NEW e PROVE [s EXCEPT ![k] = e] # <<>>
  <2>1. Len(s) \in Nat \ {0} /\ DOMAIN s = 1 .. Len(s)
    BY <1>1, EmptySeq
  <2>2. DOMAIN [s EXCEPT ![k] = e] = 1 .. Len(s) /\ 1 \in 1 .. Len(s)
    BY <2>1
  <2>3. DOMAIN <<>> = {}
    OBVIOUS
  <2> QED BY <2>2, <2>3
<1>2. ASSUME NEW S, NEW s \in Seq(S), s # <<>>, NEW k PROVE Fired(s, k) # <<>>
  BY <1>1, <1>2 DEF Fired
<1> QED BY <1>1, <1>2

\* The part of Custody that is about hop n.
HopCustody(n) ==
    /\ n = 1 /\ chkID > 0 => Baton(1)
    /\ pktCount[n + 1] # {} \/ fwd[n] # <<>> \/ back[n] # <<>> => Baton(n)

\* A step that leaves the batons of a hop alone, and starts nothing on it.
LEMMA CustodyFrame ==
    ASSUME NEW n \in Sender, HopCustody(n),
           csync'[n] = csync[n], saved'[n] = saved[n], dstray'[n] = dstray[n],
           resume'[n] = resume[n], chkID' = chkID, pktCount'[n + 1] = pktCount[n + 1],
           fwd[n] = <<>> => fwd'[n] = <<>>, back[n] = <<>> => back'[n] = <<>>
    PROVE  HopCustody(n)'
  BY DEF HopCustody, Baton, StoredAndRetried

\* Every step keeps the baton of every started hop.
LEMMA CustodyNext ==
    ASSUME TypeOK, \A n \in Sender : HopCustody(n), [Next]_vars
    PROVE  \A n \in Sender : HopCustody(n)'
<1>0. /\ csync \in [Sender -> Seq(CsyncEntry)] /\ saved \in [Sender -> Seq(SavedEntry)]
      /\ dstray \in [Sender -> Nat] /\ resume \in [Sender -> Nat] /\ fwd \in [Sender -> Seq(Msg)]
      /\ back \in [Sender -> Seq(AckMsg)] /\ pktCount \in [1 .. N -> SUBSET Chunk]
      /\ chkID \in 0 .. C
  BY DEF TypeOK
<1>a. \A s, e : Append(s, e) # <<>>
  OBVIOUS
<1>1. ASSUME NEW route \in BOOLEAN, SendData(route), NEW n \in Sender PROVE HopCustody(n)'
  <2>1. CASE n = 1
    <3>1. /\ 1 \in Sender
          /\ chkID > 0 => Baton(1)
          /\ chkID = 0 => FromFileStarts(chkID + 1)
      BY <2>1, Nodes DEF HopCustody, FromFileStarts
    <3>2. CASE FromFileStarts(chkID + 1)
      <4>1. csync'[1] = Append(csync[1], Armed(chkID + 1))
        BY <1>0, <1>1, <3>1, <3>2 DEF SendData
      <4>2. csync'[1] # <<>>
        BY <1>a, <4>1
      <4> QED BY <2>1, <4>2 DEF HopCustody, Baton
    <3>3. CASE ~ FromFileStarts(chkID + 1)
      <4>1. UNCHANGED <<csync, saved, dstray, resume>>
        BY <1>1, <3>3 DEF SendData
      <4>2. Baton(1)
        BY <1>0, <3>1, <3>3, ConstAssumption
      <4>3. Baton(1)'
        BY <4>1, <4>2 DEF Baton, StoredAndRetried
      <4> QED BY <2>1, <4>3 DEF HopCustody
    <3> QED BY <3>2, <3>3
  <2>2. CASE n # 1
    <3>1. /\ csync'[n] = csync[n] /\ resume'[n] = resume[n] /\ fwd'[n] = fwd[n]
          /\ saved' = saved /\ dstray' = dstray /\ back' = back
      BY <1>0, <1>1, <2>2 DEF SendData
    <3>2. pktCount'[n + 1] = pktCount[n + 1]
      <4>1. n + 1 # 1 /\ n + 1 \in 1 .. N
        BY ConstAssumption DEF Sender
      <4> QED BY <1>0, <1>1, <4>1 DEF SendData
    <3> QED BY <2>2, <3>1, <3>2 DEF HopCustody, Baton, StoredAndRetried
  <2> QED BY <2>1, <2>2
<1>2. ASSUME NEW r \in Receiver, RecvDATA(r), NEW n \in Sender PROVE HopCustody(n)'
  <2>1. UNCHANGED <<csync, saved, dstray, resume, chkID, pktCount, back>>
    BY <1>2 DEF RecvDATA, timer
  <2>2. fwd[n] = <<>> => fwd'[n] = <<>>
    <3>1. fwd[r - 1] # <<>> /\ fwd' = [fwd EXCEPT ![r - 1] = Tail(@)]
      BY <1>2 DEF RecvDATA
    <3> QED BY <1>0, <3>1
  <2> QED BY <2>1, <2>2, CustodyFrame
<1>3. ASSUME NEW r \in Receiver, NEW route \in BOOLEAN, RecvCSYNC(r, route), NEW n \in Sender
      PROVE  HopCustody(n)'
  <2> PICK c : c = Head(fwd[r - 1]).chk
    OBVIOUS
  <2>1. /\ fwd[r - 1] # <<>> /\ SendCSYNCACK(r, c)
        /\ CSYNCFile(r, c) \/ CSYNCRelay(r, c, route) \/ CSYNCAnswer(r, c)
        /\ UNCHANGED <<chkID, saved, dstray>>
    BY <1>3 DEF RecvCSYNC
  <2>2. r - 1 \in Sender /\ r - 1 # r /\ r \in 1 .. N
    BY Nodes DEF Receiver
  <2>3. CASE n = r - 1
    <3>1. Baton(n)
      BY <2>1, <2>3 DEF HopCustody
    <3>2. csync'[n] = csync[n] /\ resume'[n] = resume[n]
      BY <1>0, <2>1, <2>2, <2>3 DEF CSYNCFile, CSYNCRelay, CSYNCAnswer
    <3>3. Baton(n)'
      BY <2>1, <3>1, <3>2 DEF Baton, StoredAndRetried
    <3> QED BY <3>3 DEF HopCustody
  <2>4. CASE n # r - 1 /\ (n # r \/ ~ CSYNCRelay(r, c, route))
    <3>1. csync'[n] = csync[n] /\ resume'[n] = resume[n] /\ fwd'[n] = fwd[n]
      BY <1>0, <2>1, <2>2, <2>4 DEF CSYNCFile, CSYNCRelay, CSYNCAnswer
    <3>2. back'[n] = back[n] /\ pktCount'[n + 1] = pktCount[n + 1]
      <4>1. n + 1 # r /\ n + 1 \in 1 .. N
        BY <2>4, ConstAssumption DEF Sender, Receiver
      <4> QED BY <1>0, <2>1, <2>4, <4>1 DEF SendCSYNCACK
    <3> QED BY <2>1, <3>1, <3>2, CustodyFrame
  <2>5. CASE n = r /\ CSYNCRelay(r, c, route)
    <3>1. csync'[n] = Append(csync[n], Armed(c))
      BY <1>0, <2>5 DEF CSYNCRelay
    <3>2. csync'[n] # <<>>
      BY <1>a, <3>1
    <3> QED BY <3>2 DEF HopCustody, Baton
  <2> QED BY <2>3, <2>4, <2>5
<1>4. ASSUME NEW k \in Sender, NEW forward \in BOOLEAN, RecvCSYNCACK(k, forward), NEW n \in Sender
      PROVE  HopCustody(n)'
  <2>1. /\ \/ \E pkts, c : ForwardBurst(k, pkts, c)
           \/ \E pkts : StoreBurst(k, pkts)
           \/ WaitInResume(k)
        /\ back[k] # <<>> /\ back' = [back EXCEPT ![k] = Tail(@)] /\ UNCHANGED <<chkID, pktCount, dstray>>
    BY <1>4 DEF RecvCSYNCACK
  <2>2. CASE n = k
    <3>1. Baton(k)'
      <4>1. ASSUME NEW pkts, NEW c, ForwardBurst(k, pkts, c) PROVE csync'[k] # <<>>
        <5>1. csync'[k] = Append(EraseFirst(csync[k]), Armed(c))
          BY <1>0, <4>1 DEF ForwardBurst
        <5> QED BY <1>a, <5>1
      <4>2. ASSUME NEW pkts, StoreBurst(k, pkts) PROVE StoredAndRetried(k)'
        <5>1. saved'[k] = Append(saved[k], [pkts |-> pkts, armed |-> TRUE])
          BY <1>0, <4>2 DEF StoreBurst
        <5>2. Len(saved[k]) + 1 \in 1 .. Len(saved'[k]) /\ saved'[k][Len(saved[k]) + 1].armed
          BY <1>0, <5>1
        <5> QED BY <1>a, <5>1, <5>2 DEF StoredAndRetried
      <4>3. ASSUME WaitInResume(k) PROVE resume'[k] > 0
        BY <1>0, <4>3 DEF WaitInResume
      <4> QED BY <2>1, <4>1, <4>2, <4>3 DEF Baton
    <3> QED BY <2>2, <3>1 DEF HopCustody
  <2>3. CASE n # k
    <3>1. /\ csync'[n] = csync[n] /\ saved'[n] = saved[n] /\ resume'[n] = resume[n]
          /\ fwd'[n] = fwd[n]
      <4>1. ASSUME NEW pkts, NEW c, ForwardBurst(k, pkts, c) PROVE <3>1!:
        BY <1>0, <2>3, <4>1 DEF ForwardBurst
      <4>2. ASSUME NEW pkts, StoreBurst(k, pkts) PROVE <3>1!:
        BY <1>0, <2>3, <4>2 DEF StoreBurst
      <4>3. ASSUME WaitInResume(k) PROVE <3>1!:
        BY <1>0, <2>3, <4>3 DEF WaitInResume
      <4> QED BY <2>1, <4>1, <4>2, <4>3
    <3>2. back'[n] = back[n]
      BY <1>0, <2>1, <2>3
    <3> QED BY <2>1, <3>1, <3>2, CustodyFrame
  <2> QED BY <2>2, <2>3
<1>5. ASSUME NEW k \in Sender, NEW i \in 0 .. Len(csync[k]), NEW route \in BOOLEAN,
             ReSendCSYN(k, i, route), NEW n \in Sender
      PROVE  HopCustody(n)'
  <2> PICK s : s = Fired(csync[k], i)
    OBVIOUS
  <2>1. /\ UNCHANGED <<saved, dstray, resume, chkID, pktCount, back>>
        /\ \/ s = <<>> /\ UNCHANGED <<csync, fwd>>
           \/ s # <<>> /\ csync' = [csync EXCEPT ![k] = s] /\ UNCHANGED fwd
           \/ /\ s # <<>> /\ csync' = [csync EXCEPT ![k] = [s EXCEPT ![1].armed = TRUE]]
              /\ \E e : fwd' = [fwd EXCEPT ![k] = e] \/ fwd' = fwd
    BY <1>5 DEF ReSendCSYN, Postpone, hop
  <2>2. CASE n # k
    <3>1. csync'[n] = csync[n] /\ fwd'[n] = fwd[n]
      BY <1>0, <2>1, <2>2
    <3> QED BY <2>1, <3>1, CustodyFrame
  <2>3. CASE n = k /\ s = <<>>
    BY <2>1, <2>3, CustodyFrame
  <2>4. CASE n = k /\ s # <<>>
    <3>1. csync[k] # <<>>
      <4>1. CASE i = 0
        BY <2>4, <4>1 DEF Fired
      <4>2. CASE i # 0
        BY <1>0, <4>2
      <4> QED BY <4>1, <4>2
    <3>2. s \in Seq(CsyncEntry)
      <4>1. csync[k] \in Seq(CsyncEntry) /\ (i = 0 \/ i \in 1 .. Len(csync[k]))
        BY <1>0
      <4> QED BY <4>1, RearmKeeps DEF Fired
    <3>3. csync'[k] # <<>>
      <4>1. CASE csync' = [csync EXCEPT ![k] = s]
        BY <1>0, <2>4, <4>1
      <4>2. CASE csync' = [csync EXCEPT ![k] = [s EXCEPT ![1].armed = TRUE]]
        <5>1. csync'[k] = [s EXCEPT ![1].armed = TRUE]
          BY <1>0, <4>2
        <5> QED BY <2>4, <3>2, <5>1, StillNonEmpty
      <4> QED BY <2>1, <2>4, <4>1, <4>2
    <3> QED BY <2>4, <3>3 DEF HopCustody, Baton
  <2> QED BY <2>2, <2>3, <2>4
<1>6. ASSUME NEW k \in Sender, NEW i \in 0 .. Len(saved[k]), NEW good \in BOOLEAN,
             ReSendData(k, i, good), NEW n \in Sender
      PROVE  HopCustody(n)'
  <2>1. /\ UNCHANGED <<resume, chkID, pktCount, back>>
        /\ \/ saved[k] = <<>> /\ UNCHANGED <<saved, fwd, csync>>
           \/ saved[k] # <<>> /\ SendSaved(k, i)
           \/ saved[k] # <<>> /\ KeepSaved(k, i)
    BY <1>6 DEF ReSendData, hop
  <2>2. CASE n # k
    <3>1. csync'[n] = csync[n] /\ fwd'[n] = fwd[n] /\ saved'[n] = saved[n]
      BY <1>0, <2>1, <2>2 DEF SendSaved, KeepSaved
    <3>2. dstray'[n] = dstray[n]
      BY <1>0, <1>6, <2>2 DEF ReSendData, SendSaved, KeepSaved
    <3> QED BY <2>1, <3>1, <3>2, CustodyFrame
  <2>3. CASE n = k /\ saved[k] = <<>> /\ UNCHANGED <<saved, fwd, csync>>
    BY <2>1, <2>3 DEF HopCustody, Baton, StoredAndRetried
  <2>4. CASE n = k /\ SendSaved(k, i)
    <3>1. csync'[k] = Append(csync[k], Armed(saved[k][1].pkts[Len(saved[k][1].pkts)].chk))
      BY <1>0, <2>4 DEF SendSaved
    <3>2. csync'[k] # <<>>
      BY <1>a, <3>1
    <3> QED BY <2>4, <3>2 DEF HopCustody, Baton
  <2>5. CASE n = k /\ saved[k] # <<>> /\ KeepSaved(k, i)
    <3> PICK s : s = Fired(saved[k], i)
      OBVIOUS
    <3>1. saved'[k] = [s EXCEPT ![1].armed = TRUE]
      BY <1>0, <2>5 DEF KeepSaved
    <3>2. s # <<>>
      BY <1>0, <2>5, StillNonEmpty
    <3>3. s \in Seq(SavedEntry)
      <4>1. saved[k] \in Seq(SavedEntry) /\ (i = 0 \/ i \in 1 .. Len(saved[k]))
        BY <1>0
      <4> QED BY <4>1, RearmKeepsSaved DEF Fired
    <3>4. saved'[k] # <<>>
      BY <3>1, <3>2, <3>3, StillNonEmpty
    <3>5. 1 \in 1 .. Len(saved'[k]) /\ saved'[k][1].armed
      <4>1. Len(s) \in Nat \ {0}
        BY <3>2, <3>3, EmptySeq
      <4>2. s[1] \in SavedEntry /\ 1 \in DOMAIN s /\ Len(saved'[k]) = Len(s)
        BY <3>1, <3>3, <4>1
      <4> QED BY <3>1, <4>1, <4>2 DEF SavedEntry
    <3> QED BY <2>5, <3>4, <3>5 DEF HopCustody, Baton, StoredAndRetried
  <2> QED BY <2>1, <2>2, <2>3, <2>4, <2>5
<1>7. ASSUME NEW k \in Sender, LoseFwd(k) \/ LoseBack(k), NEW n \in Sender PROVE HopCustody(n)'
  <2>1. UNCHANGED <<csync, saved, dstray, resume, chkID, pktCount>>
    BY <1>7 DEF LoseFwd, LoseBack, hop, timer
  <2>2. (fwd[n] = <<>> => fwd'[n] = <<>>) /\ (back[n] = <<>> => back'[n] = <<>>)
    BY <1>0, <1>7 DEF LoseFwd, LoseBack
  <2> QED BY <2>1, <2>2, CustodyFrame
<1>8. CASE UNCHANGED vars
  <2>1. UNCHANGED <<csync, saved, dstray, resume, chkID, pktCount, fwd, back>>
    BY <1>8 DEF vars, hop, timer, net
  <2> QED BY <2>1, CustodyFrame
<1>9. CASE Next
  <2> SUFFICES ASSUME NEW n \in Sender PROVE HopCustody(n)'
    OBVIOUS
  <2> QED BY <1>1, <1>2, <1>3, <1>4, <1>5, <1>6, <1>7, <1>9 DEF Next
<1> QED BY <1>8, <1>9

\* A hop that has been started always keeps a CSYNC to retry, a stored burst whose
\* event is pending or a place in resume: the flow is never forgotten, also where
\* ReSendData leaves a burst without its event.
THEOREM NeverForgotten == Spec => []Custody
<1> DEFINE I == \A n \in Sender : HopCustody(n)
<1>1. Init => I
  BY Nodes DEF Init, HopCustody, Sender
<1>2. TypeOK /\ I /\ [Next]_vars => I'
  BY CustodyNext
<1>3. I => Custody
  BY Nodes DEF HopCustody, Custody
<1> HIDE DEF I
<1> QED BY <1>1, <1>2, <1>3, TypeCorrect, PTL DEF Spec

-----------------------------------------------------------------------------
(* Retries of CSYNCs.                                                      *)

\* How many entries of a csync_set have lost their own event.
Lost(s) == Cardinality(Unarmed(s))

\* They are finitely many.
LEMMA LostType ==
    ASSUME NEW s \in Seq(CsyncEntry)
    PROVE  IsFiniteSet(Unarmed(s)) /\ Lost(s) \in Nat /\ Unarmed(s) \subseteq 1 .. Len(s)
<1>1. Len(s) \in Nat /\ DOMAIN s = 1 .. Len(s)
  OBVIOUS
<1>2. IsFiniteSet(1 .. Len(s))
  BY <1>1, FS_Interval
<1>3. Unarmed(s) \in SUBSET (1 .. Len(s))
  BY <1>1 DEF Unarmed
<1>4. IsFiniteSet(Unarmed(s))
  BY <1>2, <1>3, FS_Subset
<1> QED BY <1>3, <1>4, FS_CardinalityType DEF Lost

\* A new entry has its event.
LEMMA LostAppend ==
    ASSUME NEW s \in Seq(CsyncEntry), NEW c \in Chunk
    PROVE  Lost(Append(s, Armed(c))) = Lost(s)
<1> DEFINE t == Append(s, Armed(c))
<1>1. Armed(c) \in CsyncEntry /\ Armed(c).armed
  BY DEF Armed, CsyncEntry
<1>2. /\ t \in Seq(CsyncEntry) /\ Len(t) = Len(s) + 1
      /\ \A i \in 1 .. Len(s) : t[i] = s[i]
      /\ t[Len(s) + 1] = Armed(c)
  BY <1>1, AppendProperties
<1> HIDE DEF t
<1>3. DOMAIN s = 1 .. Len(s) /\ DOMAIN t = 1 .. Len(s) + 1 /\ Len(s) \in Nat
  BY <1>2
<1>4. Unarmed(t) = Unarmed(s)
  BY <1>1, <1>2, <1>3 DEF Unarmed
<1> QED BY <1>4 DEF Lost, t

\* Erasing the first entry loses no other event.
LEMMA LostErased ==
    ASSUME NEW s \in Seq(CsyncEntry)
    PROVE  Lost(EraseFirst(s)) <= Lost(s)
<1>1. CASE s = <<>>
  <2>1. EraseFirst(s) = s
    BY <1>1 DEF EraseFirst
  <2>2. Lost(s) \in Nat
    BY LostType
  <2> QED BY <2>1, <2>2
<1>2. CASE s # <<>>
  <2> DEFINE t == Tail(s)
             f == [i \in Unarmed(t) |-> i + 1]
  <2>1. /\ t \in Seq(CsyncEntry) /\ Len(t) = Len(s) - 1 /\ Len(s) \in Nat \ {0}
        /\ \A i \in 1 .. Len(t) : t[i] = s[i + 1]
    BY <1>2, HeadTailProperties, EmptySeq
  <2> HIDE DEF t
  <2>2. DOMAIN s = 1 .. Len(s) /\ DOMAIN t = 1 .. Len(s) - 1
    BY <2>1
  <2>3. \A i \in Unarmed(t) : i \in Nat /\ i + 1 \in Unarmed(s)
    BY <2>1, <2>2 DEF Unarmed
  <2>4. f \in Injection(Unarmed(t), Unarmed(s))
    BY <2>3 DEF Injection, IsInjective
  <2>5. Lost(t) <= Lost(s)
    BY <2>4, LostType, FS_Injection DEF Lost
  <2> QED BY <1>2, <2>5 DEF EraseFirst, t
<1> QED BY <1>1, <1>2

\* An event of an entry fires, and an entry gets a new event.
LEMMA LostFired ==
    ASSUME NEW s \in Seq(CsyncEntry), NEW i \in 1 .. Len(s), s[i].armed
    PROVE  Lost([s EXCEPT ![i].armed = FALSE]) = Lost(s) + 1
<1> DEFINE t == [s EXCEPT ![i].armed = FALSE]
<1>1. \A j \in 1 .. Len(s) : s[j] \in CsyncEntry
  OBVIOUS
<1>2. DOMAIN s = 1 .. Len(s) /\ DOMAIN t = 1 .. Len(s)
  OBVIOUS
<1>3. ~ t[i].armed /\ \A j \in 1 .. Len(s) : j # i => t[j] = s[j]
  BY <1>1 DEF CsyncEntry
<1> HIDE DEF t
<1>4. Unarmed(t) = Unarmed(s) \cup {i} /\ i \notin Unarmed(s)
  BY <1>2, <1>3 DEF Unarmed
<1> QED BY <1>4, LostType, FS_AddElement DEF Lost, t

\* The first entry gets a new event after its own has fired.
LEMMA LostRearmed ==
    ASSUME NEW s \in Seq(CsyncEntry), NEW i \in 1 .. Len(s), ~ s[i].armed
    PROVE  Lost([s EXCEPT ![i].armed = TRUE]) = Lost(s) - 1
<1> DEFINE t == [s EXCEPT ![i].armed = TRUE]
<1>1. \A j \in 1 .. Len(s) : s[j] \in CsyncEntry
  OBVIOUS
<1>2. DOMAIN s = 1 .. Len(s) /\ DOMAIN t = 1 .. Len(s)
  OBVIOUS
<1>3. t[i].armed /\ \A j \in 1 .. Len(s) : j # i => t[j] = s[j]
  BY <1>1 DEF CsyncEntry
<1> HIDE DEF t
<1>4. Unarmed(t) = Unarmed(s) \ {i} /\ i \in Unarmed(s)
  BY <1>2, <1>3 DEF Unarmed
<1> QED BY <1>4, LostType, FS_RemoveElement DEF Lost, t

\* The part of RetryPending that is about hop n.
HopRetries(n) == Lost(csync[n]) <= stray[n]

\* Every step keeps an event for every entry.
LEMMA RetriesNext ==
    ASSUME IInv, IInv', \A n \in Sender : HopRetries(n), [Next]_vars
    PROVE  \A n \in Sender : HopRetries(n)'
<1>0. /\ csync \in [Sender -> Seq(CsyncEntry)] /\ csync' \in [Sender -> Seq(CsyncEntry)]
      /\ stray \in [Sender -> Nat] /\ chkID \in 0 .. C
      /\ fwd \in [Sender -> Seq(Msg)] /\ back \in [Sender -> Seq(AckMsg)]
      /\ pktCount \in [1 .. N -> SUBSET Chunk] /\ saved \in [Sender -> Seq(SavedEntry)]
      /\ data \in [Sender -> [Chunk -> Seq(Pkt)]]
      /\ TypeOK
  BY DEF IInv, TypeOK
<1> SUFFICES ASSUME NEW n \in Sender PROVE HopRetries(n)'
  OBVIOUS
<1>a. csync[n] \in Seq(CsyncEntry) /\ stray[n] \in Nat /\ Lost(csync[n]) \in Nat
      /\ Lost(csync[n]) <= stray[n]
  BY <1>0, LostType DEF HopRetries
\* An entry comes with its event.
<1>b. ASSUME NEW j \in Sender, NEW c \in Chunk,
             csync' = [csync EXCEPT ![j] = Append(@, Armed(c))], stray' = stray
      PROVE  HopRetries(n)'
  <2>1. csync'[n] = csync[n] \/ csync'[n] = Append(csync[n], Armed(c))
    BY <1>0, <1>b
  <2> QED BY <1>a, <1>b, <2>1, LostAppend DEF HopRetries
<1>c. ASSUME NEW j \in Sender, NEW c \in Chunk,
             \/ csync' = [csync EXCEPT ![j] = EraseFirst(@)]
             \/ csync' = [csync EXCEPT ![j] = Append(EraseFirst(@), Armed(c))],
             stray' = stray
      PROVE  HopRetries(n)'
  <2>1. EraseFirst(csync[n]) \in Seq(CsyncEntry) /\ Lost(EraseFirst(csync[n])) <= Lost(csync[n])
    BY <1>a, EraseFirstRange, LostErased
  <2>2. \/ csync'[n] = csync[n] \/ csync'[n] = EraseFirst(csync[n])
        \/ csync'[n] = Append(EraseFirst(csync[n]), Armed(c))
    BY <1>0, <1>c
  <2>3. Lost(csync'[n]) <= Lost(csync[n])
    <3>1. Lost(Append(EraseFirst(csync[n]), Armed(c))) = Lost(EraseFirst(csync[n]))
      BY <2>1, LostAppend
    <3>2. CASE csync'[n] = csync[n]
      BY <1>a, <3>2
    <3>3. CASE csync'[n] = EraseFirst(csync[n])
      BY <2>1, <3>3
    <3>4. CASE csync'[n] = Append(EraseFirst(csync[n]), Armed(c))
      BY <2>1, <3>1, <3>4
    <3> QED BY <2>2, <3>2, <3>3, <3>4
  <2>4. Lost(csync'[n]) \in Nat
    BY <1>0, LostType
  <2> QED BY <1>a, <1>c, <2>3, <2>4 DEF HopRetries
<1>d. ASSUME csync' = csync, stray' = stray PROVE HopRetries(n)'
  BY <1>a, <1>d DEF HopRetries
<1>1. ASSUME NEW route \in BOOLEAN, SendData(route) PROVE HopRetries(n)'
  <2>1. stray' = stray
    BY <1>1 DEF SendData
  <2>2. CASE csync' = csync
    BY <1>d, <2>1, <2>2
  <2>3. CASE csync' # csync
    <3>1. csync' = [csync EXCEPT ![1] = Append(@, Armed(chkID + 1))] /\ chkID < C
      BY <1>1, <2>3 DEF SendData
    <3>2. chkID + 1 \in Chunk /\ 1 \in Sender
      BY <1>0, <3>1, ConstAssumption, Nodes DEF Chunk
    <3> QED BY <1>b, <2>1, <3>1, <3>2
  <2> QED BY <2>2, <2>3
<1>2. ASSUME NEW r \in Receiver, RecvDATA(r) PROVE HopRetries(n)'
  BY <1>2, <1>d DEF RecvDATA, timer
<1>3. ASSUME NEW r \in Receiver, NEW route \in BOOLEAN, RecvCSYNC(r, route)
      PROVE  HopRetries(n)'
  <2> PICK c : c = Head(fwd[r - 1]).chk
    OBVIOUS
  <2>1. /\ fwd[r - 1] # <<>> /\ stray' = stray
        /\ CSYNCFile(r, c) \/ CSYNCRelay(r, c, route) \/ CSYNCAnswer(r, c)
    BY <1>3 DEF RecvCSYNC
  <2>2. CASE csync' = csync
    BY <1>d, <2>1, <2>2
  <2>3. CASE csync' # csync
    <3>1. CSYNCRelay(r, c, route)
      BY <2>1, <2>3 DEF CSYNCFile, CSYNCAnswer
    <3>2. csync' = [csync EXCEPT ![r] = Append(@, Armed(c))] /\ r # N
      BY <3>1 DEF CSYNCRelay, RelayStarts
    <3>3. r \in Sender /\ r - 1 \in Sender
      BY <3>2, ConstAssumption DEF Receiver, Sender
    <3>4. Head(fwd[r - 1]) \in Msg
      BY <1>0, <2>1, <3>3, HeadTailProperties
    <3>5. c \in Chunk
      BY <3>4, MsgTypes
    <3> QED BY <1>b, <2>1, <3>2, <3>3, <3>5
  <2> QED BY <2>2, <2>3
<1>4. ASSUME NEW j \in Sender, NEW forward \in BOOLEAN, RecvCSYNCACK(j, forward)
      PROVE  HopRetries(n)'
  <2> PICK c : c = Head(back[j]).chk
    OBVIOUS
  <2>1. stray' = stray /\ back[j] # <<>>
    BY <1>4 DEF RecvCSYNCACK
  <2>2. c \in Chunk
    <3>1. Head(back[j]) \in AckMsg
      BY <1>0, <2>1, HeadTailProperties
    <3> QED BY <3>1 DEF AckMsg
  <2>3. \/ csync' = [csync EXCEPT ![j] = EraseFirst(@)]
        \/ csync' = [csync EXCEPT ![j] = Append(EraseFirst(@), Armed(c))]
        \/ /\ csync' = [csync EXCEPT ![j] = Append(EraseFirst(@), Armed(c + 1))]
           /\ NextChunk(j, c) # <<>>
    BY <1>4 DEF RecvCSYNCACK, ForwardBurst, StoreBurst, WaitInResume
  <2>4. NextChunk(j, c) # <<>> => c + 1 \in Chunk
    BY <1>0, <2>2, NextChunkIsGood DEF GoodBurst
  <2> QED BY <1>c, <2>1, <2>2, <2>3, <2>4
<1>5. ASSUME NEW j \in Sender, NEW route \in BOOLEAN, NEW k \in 0 .. Len(csync[j]),
             ReSendCSYN(j, k, route)
      PROVE  HopRetries(n)'
  <2>1. CASE n # j
    <3>1. csync'[n] = csync[n] /\ stray'[n] = stray[n]
      BY <1>0, <1>5, <2>1 DEF ReSendCSYN, Postpone
    <3> QED BY <1>a, <3>1 DEF HopRetries
  <2>2. CASE n = j
    <3> PICK s, st : s = Fired(csync[n], k) /\ st = StrayAfter(stray[n], k)
      OBVIOUS
    <3>1. Pending(csync[n], stray[n], k)
      BY <1>5, <2>2 DEF ReSendCSYN
    <3>2. /\ s \in Seq(CsyncEntry) /\ st \in Int
          /\ Lost(s) \in Nat /\ Lost(s) <= st + 1
      <4>1. CASE k = 0
        <5>1. s = csync[n] /\ st = stray[n] - 1
          BY <4>1 DEF Fired, StrayAfter
        <5> QED BY <1>a, <5>1
      <4>2. CASE k # 0
        <5>1. k \in 1 .. Len(csync[n]) /\ csync[n][k].armed /\ st = stray[n]
              /\ s = [csync[n] EXCEPT ![k].armed = FALSE]
          BY <1>a, <2>2, <3>1, <4>2 DEF Fired, StrayAfter, Pending
        <5>2. s \in Seq(CsyncEntry)
          BY <1>a, <5>1, RearmKeeps
        <5>3. Lost(s) = Lost(csync[n]) + 1
          BY <1>a, <5>1, LostFired
        <5> QED BY <1>a, <5>1, <5>2, <5>3
      <4> QED BY <4>1, <4>2
    <3>3. CASE s = <<>>
      <4>1. csync' = csync /\ stray' = [stray EXCEPT ![n] = st]
        BY <1>5, <2>2, <3>3 DEF ReSendCSYN, Postpone
      <4>2. k = 0 /\ stray[n] > 0 /\ st = stray[n] - 1
        <5>1. CASE k # 0
          <6>1. csync[n] # <<>>
            BY <1>a, <2>2, <5>1
          <6> QED BY <1>a, <3>3, <6>1, StillNonEmpty
        <5> QED BY <5>1, <3>1 DEF Pending, StrayAfter
      <4>3. csync[n] = <<>>
        BY <3>3, <4>2 DEF Fired
      <4>4. Lost(csync[n]) = 0
        <5>1. Unarmed(csync[n]) = {}
          BY <4>3 DEF Unarmed
        <5> QED BY <5>1, FS_EmptySet DEF Lost
      <4>5. stray'[n] = st /\ csync'[n] = csync[n]
        BY <1>0, <4>1
      <4> QED BY <1>a, <4>2, <4>4, <4>5 DEF HopRetries
    <3>4. CASE s # <<>> /\ s[1].armed
      <4>1. csync' = [csync EXCEPT ![n] = s] /\ stray' = [stray EXCEPT ![n] = st + 1]
        BY <1>5, <2>2, <3>4 DEF ReSendCSYN, Postpone
      <4>2. csync'[n] = s /\ stray'[n] = st + 1
        BY <1>0, <4>1
      <4> QED BY <3>2, <4>2 DEF HopRetries
    <3>5. CASE s # <<>> /\ ~ s[1].armed
      <4>1. /\ csync' = [csync EXCEPT ![n] = [s EXCEPT ![1].armed = TRUE]]
            /\ stray' = [stray EXCEPT ![n] = st]
        BY <1>5, <2>2, <3>5 DEF ReSendCSYN, Postpone
      <4>2. csync'[n] = [s EXCEPT ![1].armed = TRUE] /\ stray'[n] = st
        BY <1>0, <4>1
      <4>3. 1 \in 1 .. Len(s)
        BY <3>2, <3>5, EmptySeq, LenProperties
      <4>4. Lost([s EXCEPT ![1].armed = TRUE]) = Lost(s) - 1
        BY <3>2, <3>5, <4>3, LostRearmed
      <4> QED BY <3>2, <4>2, <4>4 DEF HopRetries
    <3> QED BY <3>3, <3>4, <3>5
  <2> QED BY <2>1, <2>2
<1>6. ASSUME NEW j \in Sender, NEW good \in BOOLEAN, NEW k \in 0 .. Len(saved[j]),
             ReSendData(j, k, good)
      PROVE  HopRetries(n)'
  <2>1. stray' = stray
    BY <1>6 DEF ReSendData
  <2>2. CASE csync' = csync
    BY <1>d, <2>1, <2>2
  <2>3. CASE csync' # csync
    <3>1. saved[j] # <<>> /\ csync' = [csync EXCEPT ![j] = Append(@, Armed(Closing(saved[j][1])))]
      BY <1>6, <2>3 DEF ReSendData, SendSaved, KeepSaved, Closing
    <3>2. saved[j] \in Seq(SavedEntry) /\ 1 \in 1 .. Len(saved[j])
      BY <1>0, <3>1, EmptySeq, LenProperties
    <3>3. PICK e \in SavedEntry : e = saved[j][1]
      BY <3>2
    <3>4. e.pkts \in Seq(Msg) /\ e.pkts # <<>>
      BY DEF SavedEntry
    <3>5. Len(e.pkts) \in 1 .. Len(e.pkts)
      BY <3>4, EmptySeq, LenProperties
    <3>6. Closing(e) \in Chunk
      BY <3>4, <3>5, MsgTypes DEF Closing
    <3> QED BY <1>b, <2>1, <3>1, <3>3, <3>6
  <2> QED BY <2>2, <2>3
<1>7. ASSUME NEW j \in Sender, LoseFwd(j) \/ LoseBack(j) PROVE HopRetries(n)'
  BY <1>7, <1>d DEF LoseFwd, LoseBack, timer
<1>8. CASE UNCHANGED vars
  BY <1>8, <1>d DEF vars, timer
<1>9. CASE Next
  BY <1>1, <1>2, <1>3, <1>4, <1>5, <1>6, <1>7, <1>9 DEF Next
<1> QED BY <1>8, <1>9

\* For every entry of csync_set whose own event has fired or was taken over there
\* is another ReSendCSYN event pending, so no CSYNC retry is orphaned: whichever
\* entry an event was scheduled for, ReSendCSYN works on the first one.
THEOREM RetriesPending == Spec => []RetryPending
<1> DEFINE I == \A n \in Sender : HopRetries(n)
<1>1. Init => I
  <2> SUFFICES ASSUME Init, NEW n \in Sender PROVE HopRetries(n)
    OBVIOUS
  <2>1. csync[n] = <<>> /\ stray[n] = 0
    BY DEF Init
  <2>2. Unarmed(csync[n]) = {}
    BY <2>1 DEF Unarmed
  <2>3. Lost(csync[n]) = 0
    BY <2>2, FS_EmptySet DEF Lost
  <2> QED BY <2>1, <2>3 DEF HopRetries
<1>2. IInv /\ IInv' /\ I /\ [Next]_vars => I'
  BY RetriesNext
<1>3. I => RetryPending
  BY DEF HopRetries, RetryPending, Lost
<1> HIDE DEF I
<1> QED BY <1>1, <1>2, <1>3, Inductive, PTL DEF Spec

-----------------------------------------------------------------------------
(* One chunk at a time: without early timeouts and when only the source    *)
(* loses messages, every hop is in one of a few phases.                    *)

\* The packets that a burst q carries before its closing CSYNC.
Carried(q) == {q[i].pkt : i \in 1 .. Len(q) - 1}

\* A burst of chunk c: different packets, none of which is in b, and the CSYNC.
Burst(q, c, b) ==
    /\ q \in Seq(Msg) /\ q # <<>> /\ q[Len(q)] = CSYNC(c)
    /\ \A i \in 1 .. Len(q) - 1 : q[i].type = "DATA" /\ q[i].chk = c /\ q[i].pkt \notin b
    /\ \A i, j \in 1 .. Len(q) - 1 : q[i].pkt = q[j].pkt => i = j

\* The bitmap of a hop without losses, at rest.
AllOrNone(S) == S = {} \/ S = Pkt

\* A vector without repetitions has at most P packets, and has P exactly when it
\* has all of them.
LEMMA DistinctPackets ==
    ASSUME NEW s \in Seq(Pkt), IsInjective(s)
    PROVE  Len(s) <= P /\ (Range(s) = Pkt <=> Len(s) = P)
<1>1. P \in Nat /\ Len(s) \in Nat /\ s \in [1 .. Len(s) -> Pkt]
  BY ConstAssumption
<1>2. IsFiniteSet(Pkt) /\ Cardinality(Pkt) = P
  BY <1>1, FS_Interval, ConstAssumption DEF Pkt
<1>3. Cardinality(1 .. Len(s)) = Len(s)
  BY <1>1, FS_Interval
<1>4. s \in Injection(1 .. Len(s), Pkt)
  BY <1>1 DEF Injection, IsInjective
<1>5. Len(s) <= P /\ (Len(s) = P <=> s \in Surjection(1 .. Len(s), Pkt))
  BY <1>2, <1>3, <1>4, FS_Injection
<1>6. Range(s) = {s[i] : i \in 1 .. Len(s)}
  BY RangeEquality
<1>7. s \in Surjection(1 .. Len(s), Pkt) <=> Range(s) = Pkt
  BY <1>1, <1>6 DEF Surjection
<1> QED BY <1>5, <1>7

\* A vector without repetitions keeps none when a new packet is appended.
LEMMA DistinctAppend ==
    ASSUME NEW s \in Seq(Pkt), IsInjective(s), NEW p \in Pkt, p \notin Range(s)
    PROVE  IsInjective(Append(s, p))
<1>1. /\ Len(Append(s, p)) = Len(s) + 1 /\ DOMAIN Append(s, p) = 1 .. Len(s) + 1
      /\ \A i \in 1 .. Len(s) : Append(s, p)[i] = s[i]
      /\ Append(s, p)[Len(s) + 1] = p
  BY AppendProperties
<1>2. \A i \in 1 .. Len(s) : s[i] # p
  BY RangeEquality
<1> QED BY <1>1, <1>2 DEF IsInjective

\* A lone CSYNC is a burst.
LEMMA BurstCsync ==
    ASSUME NEW c \in Chunk, NEW b
    PROVE  Burst(<<CSYNC(c)>>, c, b) /\ Carried(<<CSYNC(c)>>) = {}
<1>1. <<CSYNC(c)>> \in Seq(Msg) /\ Len(<<CSYNC(c)>>) = 1 /\ <<CSYNC(c)>>[1] = CSYNC(c)
  BY MsgTypes
<1> QED BY <1>1 DEF Burst, Carried

\* The first packet of a burst, and what is left when it is taken off.
LEMMA BurstData ==
    ASSUME NEW q, NEW c \in Chunk, NEW b, Burst(q, c, b), Head(q).type = "DATA"
    PROVE  /\ Head(q).chk = c /\ Head(q).pkt \notin b /\ Head(q).pkt \in Pkt
           /\ Burst(Tail(q), c, b) /\ Burst(Tail(q), c, b \cup {Head(q).pkt})
           /\ Carried(q) = Carried(Tail(q)) \cup {Head(q).pkt}
<1> DEFINE t == Tail(q)
           L == Len(q)
<1>1. q \in Seq(Msg) /\ q # <<>> /\ L \in Nat /\ L # 0 /\ Head(q) = q[1]
  BY DEF Burst
<1>2. t \in Seq(Msg) /\ Len(t) = L - 1 /\ \A i \in 1 .. L - 1 : t[i] = q[i + 1]
  BY <1>1, HeadTailProperties
<1>3. CSYNC(c).type = "CSYNC" /\ q[L] = CSYNC(c)
  BY MsgTypes DEF Burst
<1>4. L > 1
  BY <1>1, <1>3
<1>5. q[1].type = "DATA" /\ q[1].chk = c /\ q[1].pkt \notin b
  BY <1>1, <1>4 DEF Burst
<1>6. q[1].pkt \in Pkt
  <2>1. q[1] \in Msg
    BY <1>1, <1>4
  <2> QED BY <2>1, <1>5, MsgTypes
<1>7. t # <<>> /\ t[Len(t)] = CSYNC(c)
  <2>1. Len(t) \in 1 .. L - 1 /\ Len(t) + 1 = L
    BY <1>1, <1>2, <1>4
  <2>2. t[Len(t)] = q[L]
    BY <2>1, <1>2
  <2>3. t # <<>>
    <3>1. Len(t) # 0
      BY <1>1, <1>2, <1>4
    <3>2. Len(<<>>) = 0
      OBVIOUS
    <3> QED BY ONLY <3>1, <3>2
  <2> QED BY <2>2, <2>3, <1>3
<1>8. \A i \in 1 .. Len(t) - 1 :
         /\ i + 1 \in 1 .. L - 1 /\ 1 \in 1 .. L - 1 /\ i + 1 # 1
         /\ t[i] = q[i + 1]
  BY <1>1, <1>2, <1>4
<1>9. \A i \in 1 .. Len(t) - 1 :
         /\ t[i].type = "DATA" /\ t[i].chk = c /\ t[i].pkt \notin b
         /\ t[i].pkt # q[1].pkt
  BY <1>8 DEF Burst
<1>10. \A i, j \in 1 .. Len(t) - 1 : t[i].pkt = t[j].pkt => i = j
  <2> SUFFICES ASSUME NEW i \in 1 .. Len(t) - 1, NEW j \in 1 .. Len(t) - 1, t[i].pkt = t[j].pkt
               PROVE  i = j
    OBVIOUS
  <2>1. i + 1 = j + 1
    BY <1>8 DEF Burst
  <2> QED BY <2>1
<1>11. Burst(t, c, b) /\ Burst(t, c, b \cup {q[1].pkt})
  BY <1>2, <1>7, <1>9, <1>10 DEF Burst
<1>12. Carried(q) = Carried(t) \cup {q[1].pkt}
  <2>1. \A i \in 1 .. L - 1 : i = 1 \/ (i - 1 \in 1 .. Len(t) - 1 /\ t[i - 1] = q[i])
    BY <1>1, <1>2, <1>4
  <2>2. Carried(q) \subseteq Carried(t) \cup {q[1].pkt}
    BY <2>1 DEF Carried
  <2>3. Carried(t) \cup {q[1].pkt} \subseteq Carried(q)
    BY <1>8, <1>4, <1>1 DEF Carried
  <2> QED BY <2>2, <2>3
<1> QED BY <1>1, <1>5, <1>6, <1>11, <1>12

\* A burst that starts with a CSYNC has nothing else.
LEMMA BurstEnd ==
    ASSUME NEW q, NEW c \in Chunk, NEW b, Burst(q, c, b), Head(q).type # "DATA"
    PROVE  Head(q) = CSYNC(c) /\ Tail(q) = <<>> /\ Carried(q) = {}
<1>1. q \in Seq(Msg) /\ q # <<>> /\ Len(q) \in Nat /\ Len(q) # 0 /\ Head(q) = q[1]
  BY DEF Burst
<1>2. Len(q) = 1
  <2>1. \A L \in Nat : L # 0 /\ L # 1 => 1 \in 1 .. L - 1
    OBVIOUS
  <2> QED BY <1>1, <2>1 DEF Burst
<1>3. Tail(q) = <<>>
  <2>1. Tail(q) \in Seq(Msg) /\ Len(Tail(q)) = 0
    BY <1>1, <1>2, HeadTailProperties
  <2> QED BY <2>1, EmptySeq
<1> QED BY <1>1, <1>2, <1>3 DEF Burst, Carried

\* The packets at some positions of a vector.
Picked(n, c, S) == {data[n][c][i] : i \in S}

\* What ProcessCSYNCACK returns for the missing positions of a vector without
\* repetitions.
LEMMA BurstResend ==
    ASSUME TypeOK, NEW n \in Sender, NEW c \in Chunk, Startable(n, c), IsInjective(data[n][c]),
           NEW missing \in SUBSET Pkt, NEW order \in Ascending(missing),
           NEW b, Picked(n, c, missing) \cap b = {}
    PROVE  /\ Burst(Resend(n, c, order), c, b)
           /\ Carried(Resend(n, c, order)) = Picked(n, c, missing)
<1> DEFINE s == data[n][c]
           r == [k \in 1 .. Len(order) |-> DATA(c, s[order[k]])]
           q == Resend(n, c, order)
<1>1. s \in Seq(Pkt) /\ P <= Len(s) /\ P \in Nat
  BY ConstAssumption DEF TypeOK, Startable
<1>2. /\ order \in Seq(Pkt) /\ Range(order) = missing
      /\ \A i, j \in 1 .. Len(order) : i < j => order[i] < order[j]
  <2>1. PICK k \in 0 .. P : order \in [1 .. k -> missing]
    BY DEF Ascending
  <2>2. k \in Nat
    BY <1>1
  <2>3. order \in Seq(Pkt) /\ DOMAIN order = 1 .. Len(order)
    BY <2>1, <2>2
  <2> QED BY <2>3 DEF Ascending
<1>3. /\ Len(order) \in Nat
      /\ \A k \in 1 .. Len(order) : order[k] \in missing /\ order[k] \in DOMAIN s /\ s[order[k]] \in Pkt
  <2>1. Len(order) \in Nat /\ \A k \in 1 .. Len(order) : order[k] \in missing
    BY <1>2, RangeEquality
  <2>2. \A i \in Pkt : i \in 1 .. Len(s) /\ s[i] \in Pkt
    <3>1. \A i \in Pkt : i \in 1 .. Len(s)
      BY <1>1 DEF Pkt
    <3>2. \A i \in 1 .. Len(s) : s[i] \in Pkt
      BY <1>1
    <3> QED BY <3>1, <3>2
  <2>3. DOMAIN s = 1 .. Len(s)
    BY <1>1
  <2> QED BY <2>1, <2>2, <2>3
<1>4. \A k \in 1 .. Len(order) : DATA(c, s[order[k]]) \in Msg
  BY <1>3, MsgTypes
<1>5. r \in Seq(Msg) /\ Len(r) = Len(order)
  BY <1>3, <1>4
<1>6. q = Append(r, CSYNC(c)) /\ CSYNC(c) \in Msg
  BY MsgTypes DEF Resend
<1>7. /\ q \in Seq(Msg) /\ q # <<>> /\ Len(q) = Len(order) + 1
      /\ q[Len(q)] = CSYNC(c)
      /\ \A k \in 1 .. Len(order) : q[k] = DATA(c, s[order[k]])
  BY <1>5, <1>6, AppendProperties
<1>8. \A k \in 1 .. Len(q) - 1 :
         /\ q[k].type = "DATA" /\ q[k].chk = c /\ q[k].pkt = s[order[k]]
         /\ k \in 1 .. Len(order)
  BY <1>3, <1>7, MsgTypes
<1>9. \A i, j \in 1 .. Len(q) - 1 : q[i].pkt = q[j].pkt => i = j
  <2> SUFFICES ASSUME NEW i \in 1 .. Len(q) - 1, NEW j \in 1 .. Len(q) - 1, q[i].pkt = q[j].pkt
               PROVE  i = j
    OBVIOUS
  <2>1. i \in 1 .. Len(order) /\ j \in 1 .. Len(order) /\ s[order[i]] = s[order[j]]
    BY <1>8
  <2>2. order[i] = order[j]
    BY <2>1, <1>3 DEF IsInjective
  <2>3. order[i] \in Int /\ order[j] \in Int
    <3>1. order[i] \in Pkt /\ order[j] \in Pkt
      BY <2>1, <1>3
    <3> QED BY <3>1 DEF Pkt
  <2> QED BY <2>1, <2>2, <2>3, <1>2, <1>3
<1>10. Burst(q, c, b)
  <2>1. \A i \in missing : s[i] \notin b
    BY DEF Picked
  <2> QED BY <1>3, <1>7, <1>8, <1>9, <2>1 DEF Burst
<1>11. Carried(q) = {s[i] : i \in missing}
  <2>1. Carried(q) \subseteq {s[i] : i \in missing}
    BY <1>3, <1>8 DEF Carried
  <2>2. \A i \in missing : \E k \in 1 .. Len(order) : order[k] = i
    BY <1>2, RangeEquality
  <2>3. \A k \in 1 .. Len(order) : k \in 1 .. Len(q) - 1
    BY <1>3, <1>7
  <2>4. {s[i] : i \in missing} \subseteq Carried(q)
    BY <2>2, <2>3, <1>8 DEF Carried
  <2> QED BY <2>1, <2>4
<1> QED BY <1>10, <1>11 DEF Picked

-----------------------------------------------------------------------------
(* The phases of a hop.                                                    *)

\* Node n + 1 has all chunks before c and nothing of the chunks after c.
Upto(n, c) ==
    \A d \in Chunk : /\ d < c => bitmap[n + 1][d] = Pkt
                     /\ d > c => bitmap[n + 1][d] = {}

\* The burst q of chunk c on hop n: new packets only, all of them if n is a relay,
\* and only after a CSYNC of the chunk was answered.
Load(n, c, q) ==
    /\ Burst(q, c, bitmap[n + 1][c])
    /\ n # 1 => AllOrNone(bitmap[n + 1][c] \cup Carried(q))
    /\ Carried(q) # {} => c \in pktCount[n + 1]

Idle(n) ==
    /\ csync[n] = <<>> /\ saved[n] = <<>> /\ resume[n] = 0 /\ Quiet(n)
    /\ \A d \in Chunk : bitmap[n + 1][d] = {}

Waiting(n, c) ==
    /\ csync[n] = <<>> /\ saved[n] = <<>> /\ resume[n] = 1 /\ Quiet(n)
    /\ Upto(n, c) /\ bitmap[n + 1][c] = Pkt

Stored(n, c) ==
    /\ csync[n] = <<>> /\ resume[n] = 0 /\ Quiet(n)
    /\ Len(saved[n]) = 1 /\ saved[n][1].armed /\ Closing(saved[n][1]) = c
    /\ Upto(n, c)
Storing(n, c) == Stored(n, c) /\ Load(n, c, saved[n][1].pkts)

Sent(n, c) ==
    /\ saved[n] = <<>> /\ resume[n] = 0
    /\ Len(csync[n]) = 1 /\ csync[n][1].chk = c
    /\ Upto(n, c)
Silent(n, c) == Sent(n, c) /\ Quiet(n) /\ (n # 1 => AllOrNone(bitmap[n + 1][c]))
Flying(n, c) == Sent(n, c) /\ back[n] = <<>> /\ Load(n, c, fwd[n])
Answered(n, c) ==
    /\ Sent(n, c) /\ fwd[n] = <<>> /\ back[n] = <<ACK(c, bitmap[n + 1][c])>>
    /\ c \in pktCount[n + 1]
    /\ n # 1 => AllOrNone(bitmap[n + 1][c])

Busy(n, c) ==
    Waiting(n, c) \/ Storing(n, c) \/ Silent(n, c) \/ Flying(n, c) \/ Answered(n, c)
Phase(n) == Idle(n) \/ \E c \in Chunk : Busy(n, c)

\* Hop n has delivered chunk c, and no CSYNC of c is on its way or to be sent.
Closed(n, c) ==
    /\ bitmap[n + 1][c] = Pkt
    /\ \/ resume[n] > 0
       \/ \E x \in Chunk : x > c /\ (Stored(n, x) \/ Sent(n, x))
       \/ Sent(n, c) /\ back[n] # <<>>

\* The hop has a CSYNC to retry, a stored burst or a place in resume.
Engaged(n) == csync[n] # <<>> \/ saved[n] # <<>> \/ resume[n] > 0

\* A relay waits only when all that was closed before it is beyond it, and starts
\* only when chunk 1 is closed.
ResumeOK == \A n \in Relay, c \in Chunk : resume[n] > 0 /\ Closed(n - 1, c) => bitmap[n + 1][c] = Pkt
BegunOK  == \A n \in Relay : Engaged(n) => Closed(n - 1, 1)
CreateOK ==
    /\ pktCount[1] = 1 .. chkID
    /\ resume[1] > 0 => \A c \in 1 .. chkID : bitmap[2][c] = Pkt
CountOK  == \A n \in Sender, c \in Chunk : bitmap[n + 1][c] # {} => c \in pktCount[n + 1]
OnceOK   == \A n \in Relay, c \in Chunk : IsInjective(data[n][c])
ArrayOK  == \A c \in Chunk : Upto(N - 1, c) => \A p \in bitmap[N][c] : pktArray[p] = c

Lockstep ==
    /\ \A n \in Sender : Phase(n)
    /\ ResumeOK /\ BegunOK /\ CreateOK /\ CountOK /\ OnceOK /\ ArrayOK
    /\ WrittenWholeInOrder

LiveNext == Next /\ SourceLoses

\* A hop that a step does not touch.
HopSame(n) ==
    /\ csync'[n] = csync[n] /\ saved'[n] = saved[n] /\ resume'[n] = resume[n]
    /\ fwd'[n] = fwd[n] /\ back'[n] = back[n]
    /\ bitmap'[n + 1] = bitmap[n + 1] /\ pktCount[n + 1] \subseteq pktCount'[n + 1]

\* It stays in its phase.
LEMMA PhaseFrame ==
    ASSUME NEW n \in Sender, Phase(n), HopSame(n)
    PROVE  Phase(n)' /\ \A c \in Chunk : Closed(n, c)' <=> Closed(n, c)
<1>1. \A c : Upto(n, c)' <=> Upto(n, c)
  BY DEF HopSame, Upto
<1>2. \A c, q : Load(n, c, q) => Load(n, c, q)'
  BY DEF HopSame, Load
<1>3. (Quiet(n)' <=> Quiet(n)) /\ (Idle(n)' <=> Idle(n))
  BY DEF HopSame, Quiet, Idle
<1>4. \A c : (Stored(n, c)' <=> Stored(n, c)) /\ (Sent(n, c)' <=> Sent(n, c)) /\ (Waiting(n, c)' <=> Waiting(n, c))
  BY <1>1, <1>3 DEF HopSame, Stored, Sent, Waiting, Closing
<1>5. \A c : (Storing(n, c) => Storing(n, c)') /\ (Flying(n, c) => Flying(n, c)')
  BY <1>2, <1>4 DEF HopSame, Storing, Flying
<1>6. \A c : (Silent(n, c) => Silent(n, c)') /\ (Answered(n, c) => Answered(n, c)')
  BY <1>3, <1>4 DEF HopSame, Silent, Answered
<1>7. \A c : Busy(n, c) => Busy(n, c)'
  BY <1>4, <1>5, <1>6 DEF Busy
<1>8. Phase(n)'
  BY <1>3, <1>7 DEF Phase
<1>9. \A c \in Chunk : Closed(n, c)' <=> Closed(n, c)
  BY <1>4 DEF HopSame, Closed
<1> QED BY <1>8, <1>9

\* What a hop holds tells its phase.
LEMMA WhichPhase ==
    ASSUME TypeOK, NEW n \in Sender, Phase(n)
    PROVE  /\ fwd[n] # <<>> => \E c \in Chunk : Flying(n, c)
           /\ back[n] # <<>> => \E c \in Chunk : Answered(n, c)
           /\ saved[n] # <<>> => \E c \in Chunk : Storing(n, c)
           /\ resume[n] > 0 => \E c \in Chunk : Waiting(n, c)
           /\ csync[n] # <<>> /\ Quiet(n) => \E c \in Chunk : Silent(n, c)
           /\ ~ Engaged(n) <=> Idle(n)
<1>1. \A c : Sent(n, c) => csync[n] # <<>> /\ saved[n] = <<>> /\ resume[n] = 0
  <2>1. Len(<<>>) = 0
    OBVIOUS
  <2> QED BY <2>1 DEF Sent
<1>2. \A c : Stored(n, c) => saved[n] # <<>> /\ csync[n] = <<>> /\ resume[n] = 0 /\ Quiet(n)
  <2>1. Len(<<>>) = 0
    OBVIOUS
  <2> QED BY <2>1 DEF Stored
<1>3. \A c : Flying(n, c) => fwd[n] # <<>> /\ back[n] = <<>>
  BY DEF Flying, Load, Burst
<1>4. \A c : Answered(n, c) => fwd[n] = <<>> /\ back[n] # <<>>
  BY DEF Answered
<1>5. \A c : Silent(n, c) => Quiet(n)
  BY DEF Silent
<1>6. \A c : Waiting(n, c) => csync[n] = <<>> /\ saved[n] = <<>> /\ Quiet(n) /\ resume[n] > 0
  BY DEF Waiting
<1>7. Idle(n) => csync[n] = <<>> /\ saved[n] = <<>> /\ Quiet(n) /\ ~ (resume[n] > 0)
  BY DEF Idle
<1>8. Quiet(n) <=> fwd[n] = <<>> /\ back[n] = <<>>
  BY DEF Quiet
<1>9. resume[n] = 0 => ~ (resume[n] > 0)
  OBVIOUS
<1>10. \A c : /\ Storing(n, c) => Stored(n, c)
              /\ Silent(n, c) \/ Flying(n, c) \/ Answered(n, c) => Sent(n, c)
  BY DEF Storing, Silent, Flying, Answered
<1>11. Idle(n) \/ \E c \in Chunk : Waiting(n, c) \/ Storing(n, c) \/ Silent(n, c) \/ Flying(n, c) \/ Answered(n, c)
  BY DEF Phase, Busy
<1> QED BY ONLY <1>1, <1>2, <1>3, <1>4, <1>5, <1>6, <1>7, <1>8, <1>9, <1>10, <1>11 DEF Engaged

\* Which chunks a hop has closed, in each phase.
ClosedTable ==
    \A n \in Sender, c, x \in Chunk :
        /\ Idle(n) => ~ Closed(n, x)
        /\ Waiting(n, c) => (Closed(n, x) <=> x <= c)
        /\ Storing(n, c) \/ Silent(n, c) \/ Flying(n, c) => (Closed(n, x) <=> x < c)
        /\ Answered(n, c) => (Closed(n, x) <=> x < c \/ (x = c /\ bitmap[n + 1][c] = Pkt))

\* The phase of a hop decides which chunks it has closed.
LEMMA ClosedIs == ClosedTable
<1> SUFFICES ASSUME NEW n \in Sender, NEW c \in Chunk, NEW x \in Chunk
             PROVE  /\ Idle(n) => ~ Closed(n, x)
                    /\ Waiting(n, c) => (Closed(n, x) <=> x <= c)
                    /\ Storing(n, c) \/ Silent(n, c) \/ Flying(n, c) => (Closed(n, x) <=> x < c)
                    /\ Answered(n, c) => (Closed(n, x) <=> x < c \/ (x = c /\ bitmap[n + 1][c] = Pkt))
  BY DEF ClosedTable
<1>1. c \in Int /\ x \in Int /\ Pkt # {} /\ \A y \in Chunk : y \in Int
  BY ConstAssumption DEF Chunk, Pkt
<1>2. Len(<<>>) = 0 /\ ~ (0 > 0) /\ 1 > 0
  OBVIOUS
<1>3. \A y : Sent(n, y) => csync[n] # <<>> /\ saved[n] = <<>> /\ resume[n] = 0 /\ csync[n][1].chk = y
  BY <1>2 DEF Sent
<1>4. \A y : Stored(n, y) => saved[n] # <<>> /\ csync[n] = <<>> /\ resume[n] = 0 /\ Closing(saved[n][1]) = y /\ back[n] = <<>>
  BY <1>2 DEF Stored, Quiet
<1>5. Idle(n) => ~ Closed(n, x)
  BY <1>2, <1>3, <1>4 DEF Idle, Closed
<1>6. Waiting(n, c) => (Closed(n, x) <=> x <= c)
  <2>1. Waiting(n, c) => (Closed(n, x) <=> bitmap[n + 1][x] = Pkt)
    BY <1>2 DEF Waiting, Closed
  <2>2. Waiting(n, c) => (bitmap[n + 1][x] = Pkt <=> x <= c)
    <3>1. Waiting(n, c) => Upto(n, c) /\ bitmap[n + 1][c] = Pkt
      BY DEF Waiting
    <3> QED BY <3>1, <1>1 DEF Upto
  <2> QED BY <2>1, <2>2
<1>7. Upto(n, c) => (x < c => bitmap[n + 1][x] = Pkt) /\ (x > c => bitmap[n + 1][x] # Pkt)
  BY <1>1 DEF Upto
<1>8. Stored(n, c) => (Closed(n, x) <=> bitmap[n + 1][x] = Pkt /\ c > x)
  BY <1>2, <1>3, <1>4 DEF Closed
<1>9. Sent(n, c) => (Closed(n, x) <=> bitmap[n + 1][x] = Pkt /\ (c > x \/ (x = c /\ back[n] # <<>>)))
  BY <1>2, <1>3, <1>4 DEF Closed
<1>10. Stored(n, c) \/ Sent(n, c) => Upto(n, c)
  BY DEF Stored, Sent
<1>11. Storing(n, c) => (Closed(n, x) <=> x < c)
  BY <1>1, <1>7, <1>8, <1>10 DEF Storing
<1>12. Silent(n, c) \/ Flying(n, c) => Sent(n, c) /\ back[n] = <<>>
  BY DEF Silent, Flying, Quiet
<1>13. Silent(n, c) \/ Flying(n, c) => (Closed(n, x) <=> x < c)
  BY <1>1, <1>7, <1>9, <1>10, <1>12
<1>14. Answered(n, c) => Sent(n, c) /\ back[n] # <<>>
  BY DEF Answered
<1>15. Answered(n, c) => (Closed(n, x) <=> x < c \/ (x = c /\ bitmap[n + 1][c] = Pkt))
  BY <1>1, <1>7, <1>9, <1>10, <1>14
<1> QED BY <1>5, <1>6, <1>11, <1>13, <1>15

\* The same after a step.
LEMMA ClosedIsNext == ClosedTable'
BY ClosedIs, PTL

\* The parts of the invariant that relate two hops.
LEMMA CrossKept ==
    ASSUME ResumeOK, BegunOK,
           \A n \in Relay, c \in Chunk : bitmap[n + 1][c] = Pkt => bitmap'[n + 1][c] = Pkt,
           \A n \in Relay, c \in Chunk :
              resume'[n] > 0 /\ Closed(n - 1, c)' => resume[n] > 0 /\ Closed(n - 1, c),
           \A n \in Relay : Engaged(n)' => Engaged(n) \/ Closed(n - 1, 1)',
           \A n \in Relay : Closed(n - 1, 1) => Closed(n - 1, 1)'
    PROVE  ResumeOK' /\ BegunOK'
<1>1. ResumeOK'
  BY DEF ResumeOK
<1>2. BegunOK'
  BY DEF BegunOK
<1> QED BY <1>1, <1>2

\* The invariant holds at the start.
LEMMA InitLockstep == Init => Lockstep
<1> SUFFICES ASSUME Init PROVE Lockstep
  OBVIOUS
<1>1. \A n \in Sender : n \in 1 .. N - 1 /\ n + 1 \in Receiver /\ n \in Int
  BY Nodes DEF Sender
<1>2. \A n \in Sender : Idle(n)
  BY <1>1 DEF Init, Idle, Quiet
<1>3. \A n \in Sender : Phase(n)
  BY <1>2 DEF Phase
<1>4. \A n \in Relay : n \in Sender /\ resume[n] = 0 /\ ~ Engaged(n)
  BY Nodes DEF Init, Engaged
<1>5. ResumeOK /\ BegunOK
  BY <1>4 DEF ResumeOK, BegunOK
<1>6. CreateOK
  BY Nodes DEF CreateOK, Init
<1>7. CountOK
  BY <1>1 DEF CountOK, Init
<1>8. OnceOK
  BY Nodes DEF OnceOK, Init, IsInjective
<1>9. ArrayOK
  BY Nodes DEF ArrayOK, Init
<1>10. WrittenWholeInOrder
  BY DEF WrittenWholeInOrder, Init
<1> QED BY <1>3, <1>5, <1>6, <1>7, <1>8, <1>9, <1>10 DEF Lockstep

\* A packet of a burst arrives.
LEMMA RecvDATALock ==
    ASSUME IInv, IInv', Lockstep, NEW n \in Receiver, RecvDATA(n)
    PROVE  Lockstep'
<1> DEFINE h == n - 1
           m == Head(fwd[h])
           p == m.pkt
<1>1. h \in Sender /\ h + 1 = n /\ n \in Int /\ h \in Int /\ TypeOK /\ TypeOK'
  BY Nodes DEF Receiver, IInv
<1>2. PICK c \in Chunk : Flying(h, c)
  BY <1>1, WhichPhase DEF Lockstep, RecvDATA
<1>3. Sent(h, c) /\ back[h] = <<>> /\ Load(h, c, fwd[h]) /\ Burst(fwd[h], c, bitmap[n][c])
  BY <1>1, <1>2 DEF Flying, Load
<1>4. /\ m.type = "DATA"
      /\ bitmap' = [bitmap EXCEPT ![n][m.chk] = @ \cup {m.pkt}]
      /\ fwd' = [fwd EXCEPT ![h] = Tail(@)]
      /\ csync' = csync /\ saved' = saved /\ resume' = resume /\ back' = back
      /\ pktCount' = pktCount /\ chkID' = chkID /\ toFile' = toFile
      /\ n = N => pktArray' = [pktArray EXCEPT ![m.pkt] = m.chk] /\ data' = data
      /\ n # N => data' = [data EXCEPT ![n][m.chk] = Append(@, m.pkt)] /\ pktArray' = pktArray
  BY DEF RecvDATA, timer
<1>5. /\ m.chk = c /\ p \notin bitmap[n][c] /\ p \in Pkt
      /\ Burst(Tail(fwd[h]), c, bitmap[n][c] \cup {p})
      /\ Carried(fwd[h]) = Carried(Tail(fwd[h])) \cup {p}
  <2> DEFINE q == fwd[h]
             b == bitmap[n][c]
  <2>1. Burst(q, c, b) /\ Head(q).type = "DATA"
    BY <1>3, <1>4
  <2> HIDE DEF q, b
  <2>2. /\ Head(q).chk = c /\ Head(q).pkt \notin b /\ Head(q).pkt \in Pkt
        /\ Burst(Tail(q), c, b \cup {Head(q).pkt})
        /\ Carried(q) = Carried(Tail(q)) \cup {Head(q).pkt}
    BY <2>1, BurstData
  <2> QED BY <2>2 DEF q, b
<1> HIDE DEF m, p
<1>6. /\ fwd'[h] = Tail(fwd[h])
      /\ bitmap'[n][c] = bitmap[n][c] \cup {p}
      /\ \A d \in Chunk : d # c => bitmap'[n][d] = bitmap[n][d]
      /\ \A k \in Receiver : k # n => bitmap'[k] = bitmap[k]
      /\ \A k \in Sender : k # h => fwd'[k] = fwd[k]
  BY <1>1, <1>4, <1>5 DEF p, TypeOK
<1>7. \A k \in Sender : k # h => HopSame(k)
  <2>1. \A k \in Sender : k # h => k + 1 \in Receiver /\ k + 1 # n
    BY Nodes, <1>1 DEF Sender
  <2> QED BY <2>1, <1>4, <1>6 DEF HopSame
<1>8. Flying(h, c)'
  <2>1. Upto(h, c)'
    BY <1>1, <1>3, <1>6 DEF Sent, Upto, Chunk
  <2>2. Sent(h, c)'
    BY <1>3, <1>4, <2>1 DEF Sent
  <2>3. (bitmap[n][c] \cup {p}) \cup Carried(Tail(fwd[h])) = bitmap[n][c] \cup Carried(fwd[h])
    BY <1>5
  <2>4. Burst(fwd'[h], c, bitmap'[n][c])
    BY <1>5, <1>6
  <2>5. h # 1 => AllOrNone(bitmap'[n][c] \cup Carried(fwd'[h]))
    BY <1>1, <1>3, <1>6, <2>3 DEF Load
  <2>6. c \in pktCount'[n]
    BY <1>1, <1>3, <1>4, <1>5 DEF Load
  <2>7. Load(h, c, fwd[h])'
    BY <2>4, <2>5, <2>6, <1>1 DEF Load
  <2> QED BY <2>2, <2>7, <1>3, <1>4 DEF Flying
<1>9. \A k \in Sender : Phase(k)'
  <2>1. Phase(h)'
    BY <1>8 DEF Phase, Busy
  <2> QED BY <2>1, <1>7, PhaseFrame DEF Lockstep
<1>10. \A k \in Sender, x \in Chunk : Closed(k, x)' <=> Closed(k, x)
  <2>1. \A x \in Chunk : Closed(h, x)' <=> Closed(h, x)
    BY <1>1, <1>2, <1>8, ClosedIs, ClosedIsNext DEF ClosedTable
  <2> QED BY <2>1, <1>7, PhaseFrame DEF Lockstep
<1>11. \A k \in Receiver, x \in Chunk : bitmap[k][x] = Pkt => bitmap'[k][x] = Pkt
  BY <1>5, <1>6
<1>12. ResumeOK' /\ BegunOK'
  <2>1. \A k \in Relay : k - 1 \in Sender /\ k + 1 \in Receiver
    BY Nodes
  <2>3. 1 \in Chunk
    BY ConstAssumption DEF Chunk
  <2>2. \A k : Engaged(k)' <=> Engaged(k)
    BY <1>4 DEF Engaged
  <2> QED BY <2>1, <2>2, <2>3, <1>4, <1>10, <1>11, CrossKept DEF Lockstep
<1>13. CreateOK'
  <2>1. 2 \in Receiver /\ chkID \in 0 .. C /\ C \in Nat
    BY <1>1, Nodes, ConstAssumption DEF TypeOK
  <2>2. \A x \in 1 .. chkID : x \in Chunk
    BY <2>1 DEF Chunk
  <2>3. CreateOK /\ \A x \in 1 .. chkID : bitmap[2][x] = Pkt => bitmap'[2][x] = Pkt
    BY <2>1, <2>2, <1>11 DEF Lockstep
  <2> QED BY ONLY <2>3, <1>4 DEF CreateOK
<1>14. CountOK'
  <2>1. c \in pktCount[n]
    BY <1>1, <1>3, <1>5 DEF Load
  <2> QED BY <2>1, <1>4, <1>6, Nodes DEF Lockstep, CountOK
<1>15. OnceOK'
  <2>1. CASE n = N
    BY <2>1, <1>4 DEF Lockstep, OnceOK
  <2>2. CASE n # N
    <3>1. n \in Relay /\ n \in Sender
      BY <2>2, Nodes
    <3>2. data[n][c] \in Seq(Pkt) /\ IsInjective(data[n][c]) /\ p \notin Range(data[n][c])
      BY <1>1, <1>5, <3>1 DEF Lockstep, OnceOK, IInv, RelayOK, Held, TypeOK
    <3>3. IsInjective(Append(data[n][c], p))
      BY <3>2, <1>5, DistinctAppend
    <3>4. /\ data'[n][c] = Append(data[n][c], p)
          /\ \A k \in Sender, d \in Chunk : k # n \/ d # c => data'[k][d] = data[k][d]
      <4>1. data' = [data EXCEPT ![n][c] = Append(@, p)] /\ data \in [Sender -> [Chunk -> Seq(Pkt)]]
        BY <2>2, <1>1, <1>4, <1>5 DEF p, TypeOK
      <4> HIDE DEF p
      <4> QED BY ONLY <4>1, <3>1, c \in Chunk
    <3> QED BY <3>3, <3>4, Nodes DEF Lockstep, OnceOK
  <2> QED BY <2>1, <2>2
<1>16. ArrayOK'
  <2>1. CASE n # N
    <3>1. N \in Receiver /\ N - 1 + 1 = N
      BY Nodes, ConstAssumption
    <3>2. bitmap'[N] = bitmap[N] /\ pktArray' = pktArray
      BY <2>1, <3>1, <1>4, <1>6
    <3> QED BY <3>1, <3>2 DEF Lockstep, ArrayOK, Upto
  <2>2. CASE n = N
    <3> SUFFICES ASSUME NEW x \in Chunk, Upto(h, x)', NEW q \in bitmap'[N][x] PROVE pktArray'[q] = x
      BY <2>2 DEF ArrayOK
    <3>1. pktArray' = [pktArray EXCEPT ![p] = c] /\ pktArray \in [Pkt -> 0 .. C]
      BY <2>2, <1>1, <1>4, <1>5 DEF p, TypeOK
    <3>2. x \in Int /\ c \in Int
      BY DEF Chunk
    <3>3. x = c
      <4>1. bitmap'[n][c] # {}
        BY <1>6
      <4>2. ~ (c > x)
        BY <4>1, <1>1 DEF Upto
      <4>3. ~ (x > c)
        BY <1>1, <1>3, <1>6, <2>2, <3>2 DEF Sent, Upto
      <4> QED BY <4>2, <4>3, <3>2
    <3>4. q \in bitmap[n][c] \cup {p}
      BY <3>3, <1>6, <2>2
    <3>5. q \in bitmap[n][c] => pktArray[q] = c /\ q \in Pkt
      <4>1. bitmap[n][c] \subseteq Pkt
        BY <1>1 DEF TypeOK
      <4> QED BY <4>1, <1>3, <2>2 DEF Lockstep, ArrayOK, Sent
    <3> QED BY <3>1, <3>3, <3>4, <3>5, <1>5
  <2> QED BY <2>1, <2>2
<1>17. WrittenWholeInOrder'
  BY <1>4 DEF Lockstep, WrittenWholeInOrder
<1> QED BY <1>9, <1>12, <1>13, <1>14, <1>15, <1>16, <1>17 DEF Lockstep

\* A hop on which a chunk is started, with or without a route.
LEMMA StartPhase ==
    ASSUME NEW n \in Sender, NEW c \in Chunk,
           csync'[n] = <<Armed(c)>>, saved'[n] = <<>>, resume'[n] = 0, back'[n] = <<>>,
           fwd'[n] = <<>> \/ fwd'[n] = <<CSYNC(c)>>,
           Upto(n, c)', n # 1 => AllOrNone(bitmap'[n + 1][c])
    PROVE  Silent(n, c)' \/ Flying(n, c)'
<1>1. Sent(n, c)'
  BY DEF Sent, Armed
<1>2. CASE fwd'[n] = <<>>
  BY <1>1, <1>2 DEF Silent, Quiet
<1>3. CASE fwd'[n] = <<CSYNC(c)>>
  <2>1. Burst(fwd'[n], c, bitmap'[n + 1][c]) /\ Carried(fwd'[n]) = {}
    BY <1>3, BurstCsync
  <2>2. bitmap'[n + 1][c] \cup Carried(fwd'[n]) = bitmap'[n + 1][c]
    BY <2>1
  <2>3. Load(n, c, fwd[n])'
    BY <2>1, <2>2 DEF Load
  <2> QED BY <1>1, <2>3 DEF Flying
<1> QED BY <1>2, <1>3

\* A CSYNC arrives: what happens on the hop behind node n.
LEMMA RecvCSYNCHop ==
    ASSUME IInv, Lockstep, NEW n \in Receiver, NEW route \in BOOLEAN, RecvCSYNC(n, route),
           NEW c \in Chunk, Flying(n - 1, c)
    PROVE  /\ Answered(n - 1, c)'
           /\ pktCount' = [pktCount EXCEPT ![n] = @ \cup {c}]
           /\ chkID' = chkID /\ data' = data /\ bitmap' = bitmap /\ pktArray' = pktArray
           /\ saved' = saved
           /\ \A k \in Sender : k # n - 1 => back'[k] = back[k]
           /\ \A k \in Sender : k # n - 1 /\ k # n => fwd'[k] = fwd[k]
           /\ CSYNCFile(n, c) \/ CSYNCRelay(n, c, route) \/ CSYNCAnswer(n, c)
<1> DEFINE h == n - 1
           m == Head(fwd[h])
<1>1. h \in Sender /\ h + 1 = n /\ n \in Int /\ h # n /\ TypeOK
  BY Nodes DEF Receiver, IInv
<1>2. Sent(h, c) /\ back[h] = <<>> /\ Load(h, c, fwd[h]) /\ Burst(fwd[h], c, bitmap[n][c])
  BY <1>1 DEF Flying, Load
<1>3. m.type = "CSYNC" /\ m.type # "DATA"
  BY DEF RecvCSYNC
<1>4. m = CSYNC(c) /\ Tail(fwd[h]) = <<>> /\ Carried(fwd[h]) = {}
  BY <1>2, <1>3, BurstEnd
<1>5. m.chk = c
  BY <1>4, MsgTypes
<1>6. /\ pktCount' = [pktCount EXCEPT ![n] = @ \cup {c}]
      /\ back' = [back EXCEPT ![h] = Append(@, ACK(c, bitmap[n][c]))]
      /\ CSYNCFile(n, c) \/ CSYNCRelay(n, c, route) \/ CSYNCAnswer(n, c)
      /\ chkID' = chkID /\ data' = data /\ bitmap' = bitmap /\ pktArray' = pktArray
      /\ saved' = saved
  BY <1>5 DEF RecvCSYNC, SendCSYNCACK
<1>7. fwd'[h] = <<>> /\ \A k \in Sender : k # h /\ k # n => fwd'[k] = fwd[k]
  <2>1. CASE fwd' = [fwd EXCEPT ![h] = Tail(@)]
    BY <2>1, <1>1, <1>4 DEF TypeOK
  <2>2. CASE CSYNCRelay(n, c, route)
    BY <2>2, <1>1, <1>4 DEF TypeOK, CSYNCRelay
  <2> QED BY <2>1, <2>2, <1>6 DEF CSYNCFile, CSYNCAnswer
<1>8. csync'[h] = csync[h] /\ resume'[h] = resume[h]
  <2>1. CASE CSYNCRelay(n, c, route)
    BY <2>1, <1>1 DEF TypeOK, CSYNCRelay
  <2> QED BY <2>1, <1>6 DEF CSYNCFile, CSYNCAnswer
<1>9. back'[h] = <<ACK(c, bitmap[n][c])>> /\ \A k \in Sender : k # h => back'[k] = back[k]
  <2>1. back'[h] = Append(<<>>, ACK(c, bitmap[n][c])) /\ \A k \in Sender : k # h => back'[k] = back[k]
    BY <1>1, <1>2, <1>6 DEF TypeOK
  <2> QED BY <2>1
<1>10. Sent(h, c)'
  BY <1>2, <1>6, <1>8 DEF Sent, Upto
<1>11. h # 1 => AllOrNone(bitmap'[n][c])
  <2>1. bitmap[n][c] \cup Carried(fwd[h]) = bitmap[n][c]
    BY <1>4
  <2> QED BY <2>1, <1>1, <1>2, <1>6 DEF Load
<1>12. c \in pktCount'[n]
  BY <1>1, <1>6, Nodes DEF TypeOK
<1>13. Answered(h, c)'
  BY <1>1, <1>6, <1>7, <1>9, <1>10, <1>11, <1>12 DEF Answered
<1> QED BY <1>6, <1>7, <1>9, <1>13

\* What happens on the hop before a relay that starts chunk c.
LEMMA RelayStartHop ==
    ASSUME IInv, Lockstep, NEW n \in Receiver, NEW route \in BOOLEAN,
           NEW c \in Chunk, Flying(n - 1, c), CSYNCRelay(n, c, route),
           bitmap' = bitmap, saved' = saved, back'[n] = back[n]
    PROVE  /\ n \in Relay
           /\ Silent(n, c)' \/ Flying(n, c)'
           /\ resume'[n] = 0 /\ \A k \in Sender : k # n => resume'[k] = resume[k] /\ csync'[k] = csync[k]
           /\ \/ Idle(n) /\ c = 1
              \/ c # 1 /\ \E d \in Chunk : Waiting(n, d) /\ c <= d + 1
<1> DEFINE h == n - 1
<1>1. h \in Sender /\ h + 1 = n /\ n \in Int /\ h # n /\ TypeOK /\ n \in Relay /\ n \in Sender /\ n + 1 \in Receiver
      /\ n # 1 /\ c \in Int /\ 1 \in Chunk
  BY Nodes, ConstAssumption DEF Receiver, IInv, CSYNCRelay, RelayStarts, Chunk
<1>2. c = 1 \/ resume[n] > 0
  BY DEF CSYNCRelay, RelayStarts
<1>3. \A x \in Chunk : Closed(h, x) <=> x < c
  BY <1>1, ClosedIs DEF ClosedTable
<1>4. Engaged(n) => c # 1
  BY <1>1, <1>3 DEF Lockstep, BegunOK
<1>5. fwd'[n] = fwd[n] \/ fwd'[n] = Append(fwd[n], CSYNC(c))
  BY <1>1 DEF CSYNCRelay, TypeOK
<1>6. csync'[n] = Append(csync[n], Armed(c)) /\ \A k \in Sender : k # n => csync'[k] = csync[k]
  BY <1>1 DEF CSYNCRelay, TypeOK
<1>7. resume' = IF c = 1 THEN resume ELSE [resume EXCEPT ![n] = @ - 1]
  BY DEF CSYNCRelay
<1>8. \A k \in Sender : k # n => resume'[k] = resume[k]
  BY <1>1, <1>7 DEF TypeOK
<1>9. Upto(h, c) /\ \A x \in Chunk : bitmap[n + 1][x] \subseteq bitmap[n][x]
  <2>1. Upto(h, c)
    BY DEF Flying, Sent
  <2>2. n <= n + 1
    BY <1>1
  <2> QED BY <2>1, <2>2, <1>1 DEF IInv, NestedOK
<1>10. CASE ~ Engaged(n)
  <2>1. Idle(n) /\ c = 1
    BY <1>10, <1>1, <1>2, WhichPhase DEF Lockstep, Engaged
  <2>2. csync[n] = <<>> /\ saved[n] = <<>> /\ resume[n] = 0 /\ fwd[n] = <<>> /\ back[n] = <<>>
        /\ \A x \in Chunk : bitmap[n + 1][x] = {}
    BY <2>1 DEF Idle, Quiet
  <2>3. csync'[n] = <<Armed(c)>> /\ (fwd'[n] = <<>> \/ fwd'[n] = <<CSYNC(c)>>)
    <3>1. Append(<<>>, Armed(c)) = <<Armed(c)>> /\ Append(<<>>, CSYNC(c)) = <<CSYNC(c)>>
      OBVIOUS
    <3> QED BY <3>1, <2>2, <1>5, <1>6
  <2>4. resume'[n] = 0
    BY <2>1, <2>2, <1>7
  <2>5. \A x \in Chunk : ~ (x < c)
    BY <2>1 DEF Chunk
  <2>6. Upto(n, c)'
    BY <2>2, <2>5 DEF Upto
  <2>7. AllOrNone(bitmap'[n + 1][c])
    BY <2>2 DEF AllOrNone
  <2>8. Silent(n, c)' \/ Flying(n, c)'
    BY <1>1, <2>2, <2>3, <2>4, <2>6, <2>7, StartPhase
  <2> QED BY <2>1, <2>4, <2>8, <1>1, <1>6, <1>8
<1>11. CASE Engaged(n)
  <2>1. c # 1 /\ resume[n] > 0
    BY <1>2, <1>4, <1>11
  <2>2. PICK d \in Chunk : Waiting(n, d)
    BY <2>1, <1>1, WhichPhase DEF Lockstep
  <2>3. csync[n] = <<>> /\ saved[n] = <<>> /\ resume[n] = 1 /\ fwd[n] = <<>> /\ back[n] = <<>>
        /\ Upto(n, d) /\ bitmap[n + 1][d] = Pkt
    BY <2>2 DEF Waiting, Quiet
  <2>4. csync'[n] = <<Armed(c)>> /\ (fwd'[n] = <<>> \/ fwd'[n] = <<CSYNC(c)>>)
    <3>1. Append(<<>>, Armed(c)) = <<Armed(c)>> /\ Append(<<>>, CSYNC(c)) = <<CSYNC(c)>>
      OBVIOUS
    <3> QED BY <3>1, <2>3, <1>5, <1>6
  <2>5. resume'[n] = 0
    BY <2>1, <2>3, <1>1, <1>7 DEF TypeOK
  <2>6. \A x \in Chunk : x < c => bitmap[n + 1][x] = Pkt
    BY <1>1, <1>3, <2>1 DEF Lockstep, ResumeOK
  <2>7. \A x \in Chunk : x > c => bitmap[n + 1][x] = {}
    BY <1>1, <1>9 DEF Upto
  <2>8. Upto(n, c)'
    BY <2>6, <2>7 DEF Upto
  <2>9. AllOrNone(bitmap'[n + 1][c])
    BY <2>3, <1>1 DEF AllOrNone, Upto, Chunk
  <2>10. Silent(n, c)' \/ Flying(n, c)'
    BY <1>1, <2>3, <2>4, <2>5, <2>8, <2>9, StartPhase
  <2>11. c <= d + 1
    <3>1. d \in Int /\ d \in Nat /\ Pkt # {}
      BY ConstAssumption DEF Chunk, Pkt
    <3>2. c > d + 1 => d + 1 \in Chunk /\ d + 1 < c
      BY <3>1, <1>1, ConstAssumption DEF Chunk
    <3>3. d + 1 \in Chunk => bitmap[n + 1][d + 1] = {}
      BY <2>3, <3>1 DEF Upto
    <3> QED BY <3>1, <3>2, <3>3, <2>6, <1>1
  <2> QED BY <2>1, <2>2, <2>5, <2>10, <2>11, <1>1, <1>6, <1>8
<1> QED BY <1>10, <1>11

\* A CSYNC arrives.
LEMMA RecvCSYNCLock ==
    ASSUME IInv, IInv', Lockstep, NEW n \in Receiver, NEW route \in BOOLEAN, RecvCSYNC(n, route)
    PROVE  Lockstep'
<1> DEFINE h == n - 1
<1>1. h \in Sender /\ h + 1 = n /\ n \in Int /\ h # n /\ h \in Int /\ n # 1 /\ TypeOK /\ TypeOK' /\ 1 \in Chunk
  BY Nodes, ConstAssumption DEF Receiver, IInv, Chunk
<1>2. PICK c \in Chunk : Flying(h, c)
  BY <1>1, WhichPhase DEF Lockstep, RecvCSYNC
<1>3. /\ Answered(h, c)'
      /\ pktCount' = [pktCount EXCEPT ![n] = @ \cup {c}]
      /\ chkID' = chkID /\ data' = data /\ bitmap' = bitmap /\ pktArray' = pktArray
      /\ saved' = saved
      /\ \A k \in Sender : k # h => back'[k] = back[k]
      /\ \A k \in Sender : k # h /\ k # n => fwd'[k] = fwd[k]
      /\ CSYNCFile(n, c) \/ CSYNCRelay(n, c, route) \/ CSYNCAnswer(n, c)
  BY <1>2, RecvCSYNCHop
<1>4. Upto(h, c) /\ c \in Int
  BY <1>2 DEF Flying, Sent, Chunk
<1>5. \A x \in Chunk : Closed(h, x) <=> x < c
  BY <1>1, <1>2, ClosedIs DEF ClosedTable
<1>6. \A x \in Chunk : Closed(h, x)' <=> x < c \/ (x = c /\ bitmap[n][c] = Pkt)
  BY <1>1, <1>3, ClosedIsNext DEF ClosedTable
<1>7. Phase(h)'
  BY <1>3 DEF Phase, Busy
<1>8. \A k \in Sender : pktCount[k + 1] \subseteq pktCount'[k + 1]
  BY <1>1, <1>3, Nodes DEF TypeOK
<1>9. pktCount'[1] = pktCount[1]
  BY <1>1, <1>3, Nodes DEF TypeOK
<1>10. CountOK'
  BY <1>3, <1>8 DEF Lockstep, CountOK
<1>11. OnceOK' /\ ArrayOK'
  BY <1>3 DEF Lockstep, OnceOK, ArrayOK, Upto
<1>12. CASE CSYNCRelay(n, c, route)
  <2>1. n \in Sender => back'[n] = back[n]
    BY <1>1, <1>3
  <2>2. n \in Relay /\ n \in Sender
    BY <1>12, Nodes DEF CSYNCRelay, RelayStarts
  <2>3. /\ Silent(n, c)' \/ Flying(n, c)'
        /\ resume'[n] = 0 /\ \A k \in Sender : k # n => resume'[k] = resume[k] /\ csync'[k] = csync[k]
        /\ \/ Idle(n) /\ c = 1
           \/ c # 1 /\ \E d \in Chunk : Waiting(n, d) /\ c <= d + 1
    BY <1>2, <1>3, <1>12, <2>1, <2>2, RelayStartHop
  <2>4. \A k \in Sender : k # h /\ k # n => HopSame(k)
    BY <1>3, <1>8, <2>3 DEF HopSame
  <2>5. \A k \in Sender : k # h /\ k # n => Phase(k)' /\ \A x \in Chunk : Closed(k, x)' <=> Closed(k, x)
    BY <2>4, PhaseFrame DEF Lockstep
  <2>6. Phase(n)'
    BY <2>3 DEF Phase, Busy
  <2>7. \A x \in Chunk : Closed(n, x)' <=> x < c
    BY <2>2, <2>3, ClosedIsNext DEF ClosedTable
  <2>8. \A x \in Chunk : x < c => Closed(n, x)
    <3> SUFFICES ASSUME NEW x \in Chunk, x < c PROVE Closed(n, x)
      OBVIOUS
    <3>1. x \in Int /\ x >= 1
      BY DEF Chunk
    <3>2. PICK d \in Chunk : Waiting(n, d) /\ c <= d + 1
      BY <2>3, <3>1
    <3>3. x <= d
      BY <3>1, <3>2, <1>4 DEF Chunk
    <3> QED BY <3>2, <3>3, <2>2, ClosedIs DEF ClosedTable
  <2>9. Closed(n, 1) => 1 < c
    <3>1. Idle(n) => ~ Closed(n, 1)
      BY <1>1, <2>2, ClosedIs DEF ClosedTable
    <3> QED BY <3>1, <2>3, <1>4 DEF Chunk
  <2>10. Closed(h, 1)'
    <3>1. bitmap[n][c] = Pkt
      BY <1>12 DEF CSYNCRelay, RelayStarts, AllReceived
    <3>2. 1 < c \/ 1 = c
      BY <1>4 DEF Chunk
    <3> QED BY <1>1, <1>6, <3>1, <3>2
  <2>11. \A k \in Relay : k \in Sender /\ k - 1 \in Sender /\ k \in Int /\ (k # n => k - 1 # h)
    BY Nodes, <1>1 DEF Relay
  <2>12. \A k \in Relay, x \in Chunk :
            resume'[k] > 0 /\ Closed(k - 1, x)' => resume[k] > 0 /\ Closed(k - 1, x)
    <3> SUFFICES ASSUME NEW k \in Relay, NEW x \in Chunk, resume'[k] > 0, Closed(k - 1, x)'
                 PROVE  resume[k] > 0 /\ Closed(k - 1, x)
      OBVIOUS
    <3>1. k # n
      BY <2>3
    <3>2. resume'[k] = resume[k] /\ k - 1 # h /\ k - 1 \in Sender
      BY <3>1, <2>3, <2>11
    <3>3. CASE k - 1 = n
      BY <3>2, <3>3, <2>7, <2>8
    <3>4. CASE k - 1 # n
      BY <3>2, <3>4, <2>5
    <3> QED BY <3>2, <3>3, <3>4
  <2>13. \A k \in Relay : Engaged(k)' => Engaged(k) \/ Closed(k - 1, 1)'
    <3>1. \A k \in Relay : k # n => (Engaged(k)' <=> Engaged(k))
      BY <1>3, <2>3, <2>11 DEF Engaged
    <3> QED BY <3>1, <2>10
  <2>14. \A k \in Relay : Closed(k - 1, 1) => Closed(k - 1, 1)'
    <3> SUFFICES ASSUME NEW k \in Relay, Closed(k - 1, 1) PROVE Closed(k - 1, 1)'
      OBVIOUS
    <3>1. CASE k = n
      BY <3>1, <2>10
    <3>2. CASE k # n /\ k - 1 = n
      BY <3>2, <2>7, <2>9, <1>1
    <3>3. CASE k # n /\ k - 1 # n
      BY <3>3, <2>5, <2>11, <1>1
    <3> QED BY <3>1, <3>2, <3>3
  <2>15. ResumeOK' /\ BegunOK'
    BY <1>3, <2>12, <2>13, <2>14, CrossKept DEF Lockstep
  <2>16. CreateOK'
    BY <1>1, <1>3, <1>9, <2>3, Nodes DEF Lockstep, CreateOK
  <2>17. WrittenWholeInOrder'
    BY <1>12 DEF CSYNCRelay, Lockstep, WrittenWholeInOrder
  <2> QED BY <1>7, <1>10, <1>11, <2>5, <2>6, <2>15, <2>16, <2>17 DEF Lockstep
<1>13. CASE ~ CSYNCRelay(n, c, route)
  <2>1. csync' = csync /\ resume' = resume /\ fwd' = [fwd EXCEPT ![h] = Tail(@)]
        /\ (CSYNCFile(n, c) \/ CSYNCAnswer(n, c))
    BY <1>3, <1>13 DEF CSYNCFile, CSYNCAnswer
  <2>2. \A k \in Sender : k # h => HopSame(k)
    BY <1>1, <1>3, <1>8, <2>1 DEF HopSame, TypeOK
  <2>3. \A k \in Sender : k # h => Phase(k)' /\ \A x \in Chunk : Closed(k, x)' <=> Closed(k, x)
    BY <2>2, PhaseFrame DEF Lockstep
  <2>4. \A k \in Relay : k \in Sender /\ k - 1 \in Sender /\ k \in Int /\ (k # n => k - 1 # h)
    BY Nodes, <1>1 DEF Relay
  <2>5. n \in Relay /\ bitmap[n][c] = Pkt => ~ (resume[n] > 0)
    <3>1. n \in Relay => n # N
      BY Nodes
    <3> QED BY <3>1, <2>1 DEF CSYNCFile, CSYNCAnswer, RelayStarts, AllReceived
  <2>6. \A k \in Relay, x \in Chunk :
            resume'[k] > 0 /\ Closed(k - 1, x)' => resume[k] > 0 /\ Closed(k - 1, x)
    <3> SUFFICES ASSUME NEW k \in Relay, NEW x \in Chunk, resume'[k] > 0, Closed(k - 1, x)'
                 PROVE  resume[k] > 0 /\ Closed(k - 1, x)
      OBVIOUS
    <3>1. CASE k = n
      BY <3>1, <1>5, <1>6, <2>1, <2>5
    <3>2. CASE k # n
      BY <3>2, <2>1, <2>3, <2>4
    <3> QED BY <3>1, <3>2
  <2>7. \A k \in Relay : Engaged(k)' => Engaged(k) \/ Closed(k - 1, 1)'
    BY <1>3, <2>1 DEF Engaged
  <2>8. \A k \in Relay : Closed(k - 1, 1) => Closed(k - 1, 1)'
    BY <1>1, <1>5, <1>6, <2>3, <2>4
  <2>9. ResumeOK' /\ BegunOK'
    BY <1>3, <2>6, <2>7, <2>8, CrossKept DEF Lockstep
  <2>10. CreateOK'
    BY <1>3, <1>9, <2>1 DEF Lockstep, CreateOK
  <2>11. WrittenWholeInOrder'
    <3>1. CASE CSYNCAnswer(n, c)
      BY <3>1 DEF CSYNCAnswer, Lockstep, WrittenWholeInOrder
    <3>2. CASE CSYNCFile(n, c)
      <4> DEFINE w == [chk |-> c, whole |-> pktArray = [p \in Pkt |-> c]]
      <4>1. n = N /\ bitmap[N][c] = Pkt /\ toFile' = Append(toFile, w) /\ toFile \in Seq(Written)
        BY <3>2, <1>1 DEF CSYNCFile, AllReceived, TypeOK
      <4>2. pktArray = [p \in Pkt |-> c]
        <5>1. \A p \in Pkt : pktArray[p] = c
          BY <4>1, <1>4 DEF Lockstep, ArrayOK
        <5> QED BY <5>1, <1>1 DEF TypeOK
      <4>3. w.whole /\ w.chk = c /\ w \in Written
        BY <4>2 DEF Written
      <4>4. \A i \in 1 .. Len(toFile) : toFile[i].chk <= c /\ toFile[i] \in Written
        <5> SUFFICES ASSUME NEW i \in 1 .. Len(toFile) PROVE toFile[i].chk <= c /\ toFile[i] \in Written
          OBVIOUS
        <5>1. toFile[i] \in Written /\ toFile[i] \in Range(toFile)
          BY <4>1, RangeEquality
        <5>2. toFile[i].chk \in Chunk /\ bitmap[N][toFile[i].chk] = Pkt
          BY <5>1 DEF Written, IInv, WriteOK
        <5>3. 1 \in Pkt
          BY ConstAssumption DEF Pkt
        <5> QED BY <5>1, <5>2, <5>3, <4>1, <1>1, <1>4 DEF Upto, Chunk
      <4> HIDE DEF w
      <4>5. /\ Len(toFile') = Len(toFile) + 1 /\ toFile'[Len(toFile) + 1] = w
            /\ \A i \in 1 .. Len(toFile) : toFile'[i] = toFile[i]
            /\ DOMAIN toFile' = 1 .. Len(toFile) + 1 /\ Len(toFile) \in Nat
            /\ DOMAIN toFile = 1 .. Len(toFile)
        BY <4>1, <4>3, AppendProperties
      <4>6. \A i \in 1 .. Len(toFile) : toFile[i].whole /\ \A j \in 1 .. i : toFile[j].chk <= toFile[i].chk
        BY <4>5 DEF Lockstep, WrittenWholeInOrder
      <4> SUFFICES ASSUME NEW i \in DOMAIN toFile'
                   PROVE  toFile'[i].whole /\ \A j \in 1 .. i : toFile'[j].chk <= toFile'[i].chk
        BY DEF WrittenWholeInOrder
      <4>7. CASE i \in 1 .. Len(toFile)
        <5>1. \A j \in 1 .. i : j \in 1 .. Len(toFile)
          BY <4>5, <4>7
        <5> QED BY <4>5, <4>6, <4>7, <5>1
      <4>8. CASE i = Len(toFile) + 1
        <5>1. \A j \in 1 .. i : j \in 1 .. Len(toFile) \/ j = i
          BY <4>5, <4>8
        <5> QED BY <4>3, <4>4, <4>5, <4>8, <5>1, <1>4
      <4> QED BY <4>5, <4>7, <4>8
    <3> QED BY <2>1, <3>1, <3>2
  <2> QED BY <1>7, <1>10, <1>11, <2>3, <2>9, <2>10, <2>11 DEF Lockstep
<1> QED BY <1>12, <1>13

\* An ACK is answered with the burst q of chunk x, which is sent or stored.
LEMMA DepartPhase ==
    ASSUME TypeOK, NEW n \in Sender, NEW c \in Chunk, Answered(n, c),
           NEW x \in Chunk, NEW q, Load(n, x, q), Upto(n, x),
           bitmap' = bitmap, pktCount' = pktCount, back' = [back EXCEPT ![n] = Tail(@)],
           ForwardBurst(n, q, x) \/ StoreBurst(n, q)
    PROVE  /\ Flying(n, x)' \/ Storing(n, x)'
           /\ resume' = resume
           /\ \A k \in Sender : k # n => fwd'[k] = fwd[k] /\ csync'[k] = csync[k] /\ saved'[k] = saved[k]
<1>1. Sent(n, c) /\ fwd[n] = <<>> /\ back[n] = <<ACK(c, bitmap[n + 1][c])>>
  BY DEF Answered
<1>2. saved[n] = <<>> /\ resume[n] = 0 /\ csync[n] \in Seq(CsyncEntry) /\ Len(csync[n]) = 1
  BY <1>1 DEF Sent, TypeOK
<1>3. EraseFirst(csync[n]) = <<>>
  <2>1. csync[n] # <<>>
    <3>1. Len(<<>>) = 0 /\ 0 # 1
      OBVIOUS
    <3> QED BY ONLY <3>1, <1>2
  <2>2. Tail(csync[n]) \in Seq(CsyncEntry) /\ Len(Tail(csync[n])) = 0
    BY <1>2, <2>1, HeadTailProperties
  <2>3. Tail(csync[n]) = <<>>
    BY <2>2, EmptySeq
  <2> QED BY <2>1, <2>3 DEF EraseFirst
<1>4. back'[n] = <<>>
  <2>1. \A a : Tail(<<a>>) = <<>>
    OBVIOUS
  <2> QED BY <2>1, <1>1 DEF TypeOK
<1>5. q \in Seq(Msg) /\ q # <<>> /\ q[Len(q)] = CSYNC(x)
  BY DEF Load, Burst
<1>6. Upto(n, x)' /\ \A z : Load(n, x, z) => Burst(z, x, bitmap'[n + 1][x])
  BY DEF Upto, Load
<1>7. CASE ForwardBurst(n, q, x)
  <2>1. /\ fwd' = [fwd EXCEPT ![n] = @ \o q]
        /\ csync' = [csync EXCEPT ![n] = Append(EraseFirst(@), Armed(x))]
        /\ saved' = saved /\ resume' = resume
    BY <1>7 DEF ForwardBurst
  <2>2. fwd'[n] = q
    <3>1. fwd'[n] = <<>> \o q
      BY <1>1, <2>1 DEF TypeOK
    <3> QED BY <3>1, <1>5
  <2>3. csync'[n] = <<Armed(x)>>
    <3>1. csync'[n] = Append(<<>>, Armed(x))
      BY <1>3, <2>1 DEF TypeOK
    <3> QED BY <3>1
  <2>4. Sent(n, x)'
    <3>1. Len(csync'[n]) = 1 /\ csync'[n][1] = Armed(x) /\ Armed(x).chk = x
      BY <2>3 DEF Armed
    <3>2. saved'[n] = <<>> /\ resume'[n] = 0
      BY <1>2, <2>1
    <3> QED BY ONLY <3>1, <3>2, <1>6 DEF Sent
  <2>5. Load(n, x, fwd[n])'
    BY <2>2 DEF Load
  <2>6. Flying(n, x)'
    BY <1>4, <2>4, <2>5 DEF Flying
  <2> QED BY <2>1, <2>6 DEF TypeOK
<1>8. CASE StoreBurst(n, q)
  <2> DEFINE e == [pkts |-> q, armed |-> TRUE]
  <2>1. /\ saved' = [saved EXCEPT ![n] = Append(@, e)]
        /\ csync' = [csync EXCEPT ![n] = EraseFirst(@)]
        /\ fwd' = fwd /\ resume' = resume
    BY <1>8 DEF StoreBurst
  <2>2. e.pkts = q /\ e.armed
    OBVIOUS
  <2> HIDE DEF e
  <2>3. saved'[n] = <<e>>
    <3>1. saved'[n] = Append(<<>>, e)
      BY <1>2, <2>1 DEF TypeOK
    <3> QED BY <3>1
  <2>4. Len(saved'[n]) = 1 /\ saved'[n][1] = e
    BY <2>3
  <2>5. csync'[n] = <<>>
    BY <1>3, <2>1 DEF TypeOK
  <2>6. Closing(e) = x
    BY <2>2, <1>5, MsgTypes DEF Closing
  <2>7. Stored(n, x)'
    BY <1>1, <1>2, <1>4, <1>6, <2>1, <2>2, <2>4, <2>5, <2>6 DEF Stored, Quiet, Closing
  <2>8. Load(n, x, saved[n][1].pkts)'
    BY <2>2, <2>4 DEF Load
  <2>9. Storing(n, x)'
    BY <2>7, <2>8 DEF Storing
  <2> QED BY <2>1, <2>9 DEF TypeOK
<1> QED BY <1>7, <1>8

\* The burst for the missing packets of chunk c.
LEMMA ResendLoad ==
    ASSUME IInv, Lockstep, NEW n \in Sender, NEW c \in Chunk, Answered(n, c),
           Pkt \ bitmap[n + 1][c] # {},
           NEW order \in Ascending(Pkt \ bitmap[n + 1][c])
    PROVE  Load(n, c, Resend(n, c, order))
<1> DEFINE b == bitmap[n + 1][c]
           missing == Pkt \ b
           s == data[n][c]
           q == Resend(n, c, order)
<1>1. TypeOK /\ n + 1 \in Receiver /\ s \in Seq(Pkt) /\ b \subseteq Pkt /\ c \in pktCount[n + 1]
  <2>1. TypeOK /\ n + 1 \in Receiver
    BY Nodes DEF IInv
  <2>2. bitmap[n + 1] \in [Chunk -> SUBSET Pkt] /\ data[n] \in [Chunk -> Seq(Pkt)]
    BY <2>1 DEF TypeOK
  <2>3. b \in SUBSET Pkt /\ s \in Seq(Pkt)
    BY <2>2
  <2> QED BY <2>1, <2>3 DEF Answered
<1>2. Startable(n, c)
  <2>1. back[n] = <<ACK(c, b)>> /\ ACK(c, b).chk = c
    BY DEF Answered, ACK
  <2>2. ACK(c, b) \in Range(back[n])
    <3>1. DOMAIN back[n] = 1 .. 1 /\ back[n][1] = ACK(c, b)
      BY <2>1
    <3> QED BY <3>1 DEF Range
  <2> QED BY <2>1, <2>2 DEF IInv, AckOK
<1>3. P <= Len(s) /\ P \in Nat /\ P # 0 /\ Len(s) \in Nat
  BY <1>1, <1>2, ConstAssumption DEF Startable
<1>4. CASE n = 1
  <2>1. s = Whole
    <3>1. s # <<>>
      <4>1. Len(<<>>) = 0
        OBVIOUS
      <4> QED BY <1>3, <4>1
    <3> QED BY <1>4, <3>1 DEF IInv, SourceOK
  <2>2. IsInjective(s) /\ \A i \in Pkt : s[i] = i
    BY <2>1 DEF Whole, IsInjective
  <2>3. Picked(n, c, missing) \cap b = {}
    BY <2>2 DEF Picked
  <2>4. missing \in SUBSET Pkt
    OBVIOUS
  <2> HIDE DEF missing, b
  <2>5. order \in Ascending(missing)
    BY DEF missing, b
  <2>6. Burst(q, c, b)
    BY <1>1, <1>2, <2>2, <2>3, <2>4, <2>5, BurstResend
  <2> QED BY <2>6, <1>1, <1>4 DEF Load, b
<1>5. CASE n # 1
  <2>1. n \in Relay /\ IsInjective(s)
    BY <1>5, Nodes DEF Lockstep, OnceOK
  <2>2. b = {} /\ missing = Pkt
    BY <1>1, <1>5 DEF Answered, AllOrNone
  <2>3. Len(s) = P /\ Range(s) = Pkt
    BY <1>1, <1>3, <2>1, DistinctPackets
  <2>4. Picked(n, c, Pkt) = Pkt
    <3>1. Range(s) = {s[i] : i \in 1 .. Len(s)} /\ Pkt = 1 .. Len(s)
      BY <1>1, <2>3, RangeEquality DEF Pkt
    <3> QED BY <3>1, <2>3 DEF Picked
  <2>5. order \in Ascending(Pkt) /\ Pkt \in SUBSET Pkt
    BY <2>2
  <2>6. Picked(n, c, Pkt) \cap {} = {}
    OBVIOUS
  <2>7. Burst(q, c, {}) /\ Carried(q) = Picked(n, c, Pkt)
    BY <1>1, <1>2, <2>1, <2>5, <2>6, BurstResend
  <2>8. b \cup Carried(q) = Pkt /\ Burst(q, c, b)
    BY <2>2, <2>4, <2>7
  <2> QED BY <2>8, <1>1 DEF Load, AllOrNone
<1> QED BY <1>4, <1>5

\* An ACK arrives: what happens on its hop.
LEMMA RecvACKHop ==
    ASSUME IInv, Lockstep, NEW n \in Sender, NEW forward \in BOOLEAN, RecvCSYNCACK(n, forward),
           NEW c \in Chunk, Answered(n, c)
    PROVE  /\ \/ /\ bitmap[n + 1][c] # Pkt /\ resume' = resume
                 /\ Flying(n, c)' \/ Storing(n, c)'
              \/ /\ bitmap[n + 1][c] = Pkt /\ resume' = resume
                 /\ c + 1 \in Chunk /\ (Flying(n, c + 1)' \/ Storing(n, c + 1)')
              \/ /\ bitmap[n + 1][c] = Pkt /\ resume' = [resume EXCEPT ![n] = @ + 1]
                 /\ ~ NextReady(n, c) /\ Waiting(n, c)'
           /\ \A k \in Sender : k # n => HopSame(k)
<1> DEFINE b == bitmap[n + 1][c]
           m == Head(back[n])
<1>1. TypeOK /\ n + 1 \in Receiver /\ b \subseteq Pkt
  <2>1. TypeOK /\ n + 1 \in Receiver
    BY Nodes DEF IInv
  <2>2. bitmap[n + 1] \in [Chunk -> SUBSET Pkt]
    BY <2>1 DEF TypeOK
  <2> QED BY <2>1, <2>2
<1>2. Sent(n, c) /\ fwd[n] = <<>> /\ back[n] = <<ACK(c, b)>> /\ Upto(n, c)
  BY DEF Answered, Sent
<1>3. m = ACK(c, b) /\ m.chk = c /\ m.bits = b
  BY <1>2 DEF ACK
<1>4. /\ bitmap' = bitmap /\ pktCount' = pktCount /\ back' = [back EXCEPT ![n] = Tail(@)]
  BY DEF RecvCSYNCACK
<1>5. back'[n] = <<>> /\ \A k \in Sender : k # n => back'[k] = back[k]
  <2>1. \A a : Tail(<<a>>) = <<>>
    OBVIOUS
  <2> QED BY <2>1, <1>1, <1>2, <1>4 DEF TypeOK
<1>6. \/ /\ Pkt \ b # {}
         /\ \E order \in Ascending(Pkt \ b) :
               ForwardBurst(n, Resend(n, c, order), c) \/ StoreBurst(n, Resend(n, c, order))
      \/ /\ Pkt \ b = {} /\ NextChunk(n, c) = <<>> /\ WaitInResume(n)
      \/ /\ Pkt \ b = {} /\ NextChunk(n, c) # <<>>
         /\ ForwardBurst(n, NextChunk(n, c), c + 1) \/ StoreBurst(n, NextChunk(n, c))
  BY <1>3 DEF RecvCSYNCACK
<1> HIDE DEF m
<1>7. CASE \E order \in Ascending(Pkt \ b) :
              Pkt \ b # {} /\ (ForwardBurst(n, Resend(n, c, order), c) \/ StoreBurst(n, Resend(n, c, order)))
  <2>1. PICK order \in Ascending(Pkt \ b) :
           Pkt \ b # {} /\ (ForwardBurst(n, Resend(n, c, order), c) \/ StoreBurst(n, Resend(n, c, order)))
    BY <1>7
  <2> DEFINE q == Resend(n, c, order)
  <2>2. Load(n, c, q)
    BY <2>1, ResendLoad
  <2>3. ForwardBurst(n, q, c) \/ StoreBurst(n, q)
    BY <2>1
  <2> HIDE DEF q
  <2>4. /\ Flying(n, c)' \/ Storing(n, c)'
        /\ resume' = resume
        /\ \A k \in Sender : k # n => fwd'[k] = fwd[k] /\ csync'[k] = csync[k] /\ saved'[k] = saved[k]
    BY <1>1, <1>2, <1>4, <2>2, <2>3, DepartPhase
  <2>5. \A k \in Sender : k # n => HopSame(k)
    BY <1>4, <1>5, <2>4 DEF HopSame
  <2>6. b # Pkt
    BY <2>1
  <2> QED BY <2>4, <2>5, <2>6
<1>8. CASE Pkt \ b = {} /\ NextChunk(n, c) = <<>> /\ WaitInResume(n)
  <2>1. b = Pkt
    BY <1>1, <1>8
  <2>2. ~ NextReady(n, c)
    BY <1>8 DEF NextChunk
  <2>3. /\ resume' = [resume EXCEPT ![n] = @ + 1]
        /\ csync' = [csync EXCEPT ![n] = EraseFirst(@)]
        /\ fwd' = fwd /\ saved' = saved
    BY <1>8 DEF WaitInResume
  <2>4. saved[n] = <<>> /\ resume[n] = 0 /\ csync[n] \in Seq(CsyncEntry) /\ Len(csync[n]) = 1
    BY <1>1, <1>2 DEF Sent, TypeOK
  <2>5. EraseFirst(csync[n]) = <<>>
    <3>1. csync[n] # <<>>
      <4>1. Len(<<>>) = 0
        OBVIOUS
      <4> QED BY <4>1, <2>4
    <3>2. Tail(csync[n]) \in Seq(CsyncEntry) /\ Len(Tail(csync[n])) = 0
      BY <2>4, <3>1, HeadTailProperties
    <3>3. Tail(csync[n]) = <<>>
      BY <3>2, EmptySeq
    <3> QED BY <3>1, <3>3 DEF EraseFirst
  <2>6. csync'[n] = <<>> /\ resume'[n] = 1
    BY <1>1, <2>3, <2>4, <2>5 DEF TypeOK
  <2>7. Waiting(n, c)'
    BY <1>2, <1>4, <1>5, <2>1, <2>3, <2>4, <2>6 DEF Waiting, Quiet, Upto
  <2>8. \A k \in Sender : k # n => HopSame(k)
    BY <1>1, <1>4, <1>5, <2>3 DEF HopSame, TypeOK
  <2> QED BY <2>1, <2>2, <2>3, <2>7, <2>8
<1>9. CASE /\ Pkt \ b = {} /\ NextChunk(n, c) # <<>>
           /\ ForwardBurst(n, NextChunk(n, c), c + 1) \/ StoreBurst(n, NextChunk(n, c))
  <2> DEFINE x == c + 1
             q == NextChunk(n, c)
  <2>1. b = Pkt
    BY <1>1, <1>9
  <2>2. NextReady(n, c) /\ q = <<CSYNC(x)>>
    BY <1>9 DEF NextChunk
  <2>3. x \in Chunk
    BY <1>1, <2>2, Nodes DEF NextReady, TypeOK
  <2>4. Upto(n, x) /\ bitmap[n + 1][x] = {}
    BY <1>2, <2>1, <2>3 DEF Upto, Chunk
  <2> HIDE DEF x
  <2>5. Burst(q, x, bitmap[n + 1][x]) /\ Carried(q) = {}
    BY <2>2, <2>3, BurstCsync
  <2>6. Load(n, x, q)
    BY <2>4, <2>5 DEF Load, AllOrNone
  <2>7. ForwardBurst(n, q, x) \/ StoreBurst(n, q)
    BY <1>9 DEF x
  <2> HIDE DEF q
  <2>8. /\ Flying(n, x)' \/ Storing(n, x)'
        /\ resume' = resume
        /\ \A k \in Sender : k # n => fwd'[k] = fwd[k] /\ csync'[k] = csync[k] /\ saved'[k] = saved[k]
    BY <1>1, <1>2, <1>4, <2>3, <2>4, <2>6, <2>7, DepartPhase
  <2>9. \A k \in Sender : k # n => HopSame(k)
    BY <1>4, <1>5, <2>8 DEF HopSame
  <2> QED BY <2>1, <2>3, <2>8, <2>9 DEF x
<1> QED BY <1>6, <1>7, <1>8, <1>9

\* A node that has a chunk completely can pass it on.
LEMMA FullIsReady ==
    ASSUME IInv, Lockstep, NEW n \in Relay, NEW c \in Chunk, c + 1 \in Chunk,
           bitmap[n][c + 1] = Pkt
    PROVE  NextReady(n, c)
<1> DEFINE x == c + 1
<1>1. n \in Sender /\ n - 1 \in Sender /\ n \in Int /\ TypeOK /\ x \in Chunk
  BY Nodes DEF IInv, Relay
<1>2. 1 \in Pkt
  BY ConstAssumption DEF Pkt
<1>3. x \in pktCount[n]
  <2>1. n - 1 + 1 = n
    BY <1>1
  <2> QED BY <1>1, <1>2, <2>1 DEF Lockstep, CountOK
<1>4. data[n][x] \in Seq(Pkt) /\ Range(data[n][x]) = Pkt /\ IsInjective(data[n][x])
  <2> HIDE DEF x
  <2>1. data[n] \in [Chunk -> Seq(Pkt)]
    BY <1>1 DEF TypeOK
  <2>2. Range(data[n][x]) = bitmap[n][x]
    BY <1>1 DEF IInv, RelayOK, Held
  <2>3. IsInjective(data[n][x])
    BY <1>1 DEF Lockstep, OnceOK
  <2>4. bitmap[n][x] = Pkt
    BY DEF x
  <2> QED BY <1>1, <2>1, <2>2, <2>3, <2>4
<1>5. Len(data[n][x]) = P
  BY <1>4, DistinctPackets
<1> QED BY <1>3, <1>5 DEF NextReady

\* An ACK arrives.
LEMMA RecvCSYNCACKLock ==
    ASSUME IInv, IInv', Lockstep, NEW n \in Sender, NEW forward \in BOOLEAN, RecvCSYNCACK(n, forward)
    PROVE  Lockstep'
<1>1. TypeOK /\ TypeOK' /\ n \in Int /\ 1 \in Chunk /\ n + 1 \in Receiver /\ n >= 1
  BY Nodes, ConstAssumption DEF Sender, IInv, Chunk
<1>2. PICK c \in Chunk : Answered(n, c)
  BY <1>1, WhichPhase DEF Lockstep, RecvCSYNCACK
<1>3. /\ \/ /\ bitmap[n + 1][c] # Pkt /\ resume' = resume
            /\ Flying(n, c)' \/ Storing(n, c)'
         \/ /\ bitmap[n + 1][c] = Pkt /\ resume' = resume
            /\ c + 1 \in Chunk /\ (Flying(n, c + 1)' \/ Storing(n, c + 1)')
         \/ /\ bitmap[n + 1][c] = Pkt /\ resume' = [resume EXCEPT ![n] = @ + 1]
            /\ ~ NextReady(n, c) /\ Waiting(n, c)'
      /\ \A k \in Sender : k # n => HopSame(k)
  BY <1>2, RecvACKHop
<1>4. /\ bitmap' = bitmap /\ pktCount' = pktCount /\ chkID' = chkID /\ data' = data
      /\ pktArray' = pktArray /\ toFile' = toFile
  BY DEF RecvCSYNCACK
<1>5. \A x \in Chunk : Closed(n, x) <=> x < c \/ (x = c /\ bitmap[n + 1][c] = Pkt)
  BY <1>2, ClosedIs DEF ClosedTable
<1>6. \A x \in Chunk : x \in Int /\ x >= 1
  BY DEF Chunk
<1>7. Upto(n, c)
  BY <1>2 DEF Answered, Sent
<1>8. Phase(n)' /\ \A x \in Chunk : Closed(n, x)' <=> Closed(n, x)
  <2>1. CASE bitmap[n + 1][c] # Pkt /\ (Flying(n, c)' \/ Storing(n, c)')
    <3>1. \A x \in Chunk : Closed(n, x)' <=> x < c
      BY <2>1, ClosedIsNext DEF ClosedTable
    <3> QED BY <2>1, <3>1, <1>5 DEF Phase, Busy
  <2>2. CASE bitmap[n + 1][c] = Pkt /\ c + 1 \in Chunk /\ (Flying(n, c + 1)' \/ Storing(n, c + 1)')
    <3>1. \A x \in Chunk : Closed(n, x)' <=> x < c + 1
      BY <2>2, ClosedIsNext DEF ClosedTable
    <3>2. \A x \in Chunk : x < c + 1 <=> x < c \/ x = c
      BY <1>6
    <3> QED BY <2>2, <3>1, <3>2, <1>5 DEF Phase, Busy
  <2>3. CASE bitmap[n + 1][c] = Pkt /\ Waiting(n, c)'
    <3>1. \A x \in Chunk : Closed(n, x)' <=> x <= c
      BY <2>3, ClosedIsNext DEF ClosedTable
    <3>2. \A x \in Chunk : x <= c <=> x < c \/ x = c
      BY <1>6
    <3> QED BY <2>3, <3>1, <3>2, <1>5 DEF Phase, Busy
  <2> QED BY <1>3, <2>1, <2>2, <2>3
<1>9. \A k \in Sender : Phase(k)' /\ \A x \in Chunk : Closed(k, x)' <=> Closed(k, x)
  BY <1>3, <1>8, PhaseFrame DEF Lockstep
<1>10. \A k \in Relay : k \in Sender /\ k - 1 \in Sender /\ k \in Int
  BY Nodes DEF Relay
<1>11. \A k \in Sender : k # n => resume'[k] = resume[k]
  BY <1>3 DEF HopSame
<1>12. BegunOK'
  <2> SUFFICES ASSUME NEW k \in Relay, Engaged(k)' PROVE Closed(k - 1, 1)'
    BY DEF BegunOK
  <2>1. Engaged(k)
    <3>1. CASE k = n
      <4>1. csync[n] # <<>>
        <5>1. Len(<<>>) = 0 /\ 0 # 1 /\ Len(csync[n]) = 1
          BY <1>2 DEF Answered, Sent
        <5> QED BY ONLY <5>1
      <4> QED BY <3>1, <4>1 DEF Engaged
    <3>2. CASE k # n
      BY <3>2, <1>3, <1>10 DEF HopSame, Engaged
    <3> QED BY <3>1, <3>2
  <2> QED BY <2>1, <1>1, <1>9, <1>10 DEF Lockstep, BegunOK
<1>13. ResumeOK'
  <2> SUFFICES ASSUME NEW k \in Relay, NEW x \in Chunk, resume'[k] > 0, Closed(k - 1, x)
               PROVE  bitmap[k + 1][x] = Pkt
    BY <1>4, <1>9, <1>10 DEF ResumeOK
  <2>1. CASE resume'[k] = resume[k]
    BY <2>1 DEF Lockstep, ResumeOK
  <2>2. CASE resume'[k] # resume[k]
    <3>1. k = n /\ bitmap[n + 1][c] = Pkt /\ ~ NextReady(n, c)
      BY <2>2, <1>3, <1>10, <1>11
    <3>2. x > c => FALSE
      <4> SUFFICES ASSUME x > c PROVE FALSE
        OBVIOUS
      <4>1. k - 1 \in Sender /\ k - 1 + 1 = n /\ bitmap[n][x] = Pkt
        BY <3>1, <1>10 DEF Closed
      <4>2. c + 1 \in Chunk /\ c + 1 <= x
        BY <1>6, ConstAssumption DEF Chunk
      <4>3. 1 \in Pkt
        BY ConstAssumption DEF Pkt
      <4>4. PICK y \in Chunk : Upto(k - 1, y)
        <5>1. ~ Idle(k - 1)
          BY <4>1, <4>3 DEF Idle
        <5>2. PICK y \in Chunk : Busy(k - 1, y)
          BY <4>1, <5>1 DEF Lockstep, Phase
        <5>3. Upto(k - 1, y)
          BY <5>2 DEF Busy, Waiting, Storing, Stored, Silent, Flying, Answered, Sent
        <5> QED BY <5>3
      <4>5. x <= y
        BY <4>1, <4>3, <4>4, <1>6 DEF Upto
      <4>6. c + 1 = x \/ c + 1 < y
        BY <4>2, <4>5, <1>6
      <4>7. bitmap[n][c + 1] = Pkt
        BY <4>1, <4>2, <4>4, <4>6 DEF Upto
      <4> QED BY <3>1, <4>2, <4>7, FullIsReady
    <3>3. x < c \/ x = c
      BY <3>2, <1>6
    <3> QED BY <3>1, <3>3, <1>7 DEF Upto
  <2> QED BY <2>1, <2>2
<1>14. CreateOK'
  <2>1. CASE resume'[1] = resume[1]
    BY <2>1, <1>4 DEF Lockstep, CreateOK
  <2>2. CASE resume'[1] # resume[1]
    <3>1. n = 1 /\ bitmap[2][c] = Pkt /\ ~ NextReady(1, c)
      BY <2>2, <1>3, <1>11, Nodes
    <3>2. chkID \in 0 .. C /\ pktCount[1] = 1 .. chkID
      BY <1>1 DEF TypeOK, Lockstep, CreateOK
    <3>3. chkID <= c
      <4> SUFFICES ASSUME c < chkID PROVE FALSE
        BY <1>6, <3>2
      <4>1. c + 1 \in Chunk /\ c + 1 <= chkID /\ c + 1 \in 1 .. chkID
        BY <1>6, <3>2, ConstAssumption DEF Chunk
      <4>2. data[1][c + 1] = Whole
        BY <4>1 DEF IInv, SourceOK
      <4> QED BY <3>1, <3>2, <4>1, <4>2, WholeProperties DEF NextReady
    <3>4. \A x \in 1 .. chkID : x \in Chunk /\ (x < c \/ x = c)
      BY <3>2, <3>3, <1>6, ConstAssumption DEF Chunk
    <3>5. \A x \in 1 .. chkID : bitmap[2][x] = Pkt
      <4>1. 1 + 1 = 2
        OBVIOUS
      <4> QED BY <4>1, <3>1, <3>4, <1>7 DEF Upto
    <3> QED BY <3>2, <3>5, <1>4 DEF CreateOK
  <2> QED BY <2>1, <2>2
<1>15. CountOK' /\ OnceOK' /\ ArrayOK' /\ WrittenWholeInOrder'
  BY <1>4 DEF Lockstep, CountOK, OnceOK, ArrayOK, Upto, WrittenWholeInOrder
<1> QED BY <1>9, <1>12, <1>13, <1>14, <1>15 DEF Lockstep

\* A step of one hop that leaves the stores of the nodes alone.
LEMMA LocalStep ==
    ASSUME Lockstep, hop' = hop, NEW n \in Sender, Phase(n)',
           \A x \in Chunk : Closed(n, x)' <=> Closed(n, x),
           Engaged(n)' => Engaged(n),
           \A k \in Sender : k # n => HopSame(k)
    PROVE  Lockstep'
<1>1. /\ chkID' = chkID /\ data' = data /\ bitmap' = bitmap /\ pktCount' = pktCount
      /\ resume' = resume /\ pktArray' = pktArray /\ toFile' = toFile
  BY DEF hop
<1>2. \A k \in Sender : Phase(k)' /\ \A x \in Chunk : Closed(k, x)' <=> Closed(k, x)
  BY PhaseFrame DEF Lockstep
<1>3. \A k \in Relay : k \in Sender /\ k - 1 \in Sender
  BY Nodes
<1>4. \A k \in Relay : Engaged(k)' => Engaged(k)
  BY <1>3 DEF HopSame, Engaged
<1>5. 1 \in Chunk
  BY ConstAssumption DEF Chunk
<1>6. ResumeOK' /\ BegunOK'
  BY <1>1, <1>2, <1>3, <1>4, <1>5, CrossKept DEF Lockstep
<1>7. CreateOK' /\ CountOK' /\ OnceOK' /\ ArrayOK' /\ WrittenWholeInOrder'
  BY <1>1 DEF Lockstep, CreateOK, CountOK, OnceOK, ArrayOK, Upto, WrittenWholeInOrder
<1> QED BY <1>2, <1>6, <1>7 DEF Lockstep

\* An entry whose event fires or that gets a new one keeps its chunk.
LEMMA OneEntry ==
    ASSUME NEW s \in Seq(CsyncEntry), Len(s) = 1, NEW k \in 0 .. 1, NEW b \in BOOLEAN
    PROVE  /\ Len(Fired(s, k)) = 1 /\ Fired(s, k)[1].chk = s[1].chk
           /\ Len([Fired(s, k) EXCEPT ![1].armed = b]) = 1
           /\ [Fired(s, k) EXCEPT ![1].armed = b][1].chk = s[1].chk
<1>2. \A t \in Seq(CsyncEntry), v \in BOOLEAN :
         Len(t) = 1 => /\ [t EXCEPT ![1].armed = v] \in Seq(CsyncEntry)
                       /\ Len([t EXCEPT ![1].armed = v]) = 1
                       /\ [t EXCEPT ![1].armed = v][1].chk = t[1].chk
  <2> SUFFICES ASSUME NEW t \in Seq(CsyncEntry), NEW v \in BOOLEAN, Len(t) = 1
               PROVE  /\ [t EXCEPT ![1].armed = v] \in Seq(CsyncEntry)
                      /\ Len([t EXCEPT ![1].armed = v]) = 1
                      /\ [t EXCEPT ![1].armed = v][1].chk = t[1].chk
    OBVIOUS
  <2>1. t \in [1 .. 1 -> CsyncEntry] /\ t[1] \in CsyncEntry
    <3>1. t \in [1 .. Len(t) -> CsyncEntry]
      BY LenProperties
    <3>2. t \in [1 .. 1 -> CsyncEntry]
      BY <3>1
    <3> QED BY ONLY <3>2, SMT
  <2>2. 1 \in 1 .. Len(t)
    BY ONLY Len(t) = 1, SMT
  <2>3. [t EXCEPT ![1].armed = v] \in Seq(CsyncEntry) /\ Len([t EXCEPT ![1].armed = v]) = Len(t)
    BY <2>2, RearmKeeps, ZenonT(40)
  <2>4. [t EXCEPT ![1].armed = v][1] = [t[1] EXCEPT !.armed = v]
    BY <2>1
  <2>5. [t[1] EXCEPT !.armed = v].chk = t[1].chk
    BY <2>1 DEF CsyncEntry
  <2> QED BY <2>3, <2>4, <2>5
<1>3. Fired(s, k) \in Seq(CsyncEntry) /\ Len(Fired(s, k)) = 1 /\ Fired(s, k)[1].chk = s[1].chk
  <2>1. k = 0 \/ k = 1
    OBVIOUS
  <2> QED BY <2>1, <1>2 DEF Fired
<1> QED BY <1>2, <1>3

\* A CSYNC timer fires.
LEMMA ReSendCSYNLock ==
    ASSUME MaxEarly = 0, IInv, Lockstep, NEW n \in Sender, NEW route \in BOOLEAN,
           NEW k \in 0 .. Len(csync[n]), ReSendCSYN(n, k, route)
    PROVE  Lockstep'
<1> DEFINE s == Fired(csync[n], k)
<1>1. TypeOK /\ csync[n] \in Seq(CsyncEntry) /\ n \in Sender
  BY DEF IInv, TypeOK
<1>2. Quiet(n)
  <2>1. early \in 0 .. MaxEarly
    BY <1>1 DEF TypeOK
  <2> QED BY <2>1 DEF ReSendCSYN
<1>3. hop' = hop /\ saved' = saved /\ back' = back
  BY DEF ReSendCSYN
<1>4. bitmap' = bitmap /\ pktCount' = pktCount /\ resume' = resume
  BY <1>3 DEF hop
<1>5. \/ csync' = csync /\ fwd' = fwd
      \/ /\ s # <<>>
         /\ csync' = [csync EXCEPT ![n] = s] \/ csync' = [csync EXCEPT ![n] = [s EXCEPT ![1].armed = TRUE]]
         /\ fwd' = fwd \/ fwd' = [fwd EXCEPT ![n] = Append(@, CSYNC(s[1].chk))]
  BY DEF ReSendCSYN, Postpone
<1>6. CASE csync[n] = <<>> \/ (csync' = csync /\ fwd' = fwd)
  <2>1. csync' = csync /\ fwd' = fwd
    <3>1. csync[n] = <<>> => s = <<>>
      BY DEF Fired
    <3> QED BY <3>1, <1>5, <1>6
  <2>2. \A j \in Sender : HopSame(j)
    BY <1>3, <1>4, <2>1 DEF HopSame
  <2>3. Phase(n)' /\ \A x \in Chunk : Closed(n, x)' <=> Closed(n, x)
    BY <2>2, PhaseFrame DEF Lockstep
  <2>4. Engaged(n)' => Engaged(n)
    BY <2>1, <1>3, <1>4 DEF Engaged
  <2> QED BY <1>3, <2>2, <2>3, <2>4, LocalStep
<1>7. CASE csync[n] # <<>> /\ ~ (csync' = csync /\ fwd' = fwd)
  <2>1. PICK c \in Chunk : Silent(n, c)
    BY <1>1, <1>2, <1>7, WhichPhase DEF Lockstep
  <2>2. Sent(n, c) /\ fwd[n] = <<>> /\ back[n] = <<>> /\ (n # 1 => AllOrNone(bitmap[n + 1][c]))
    BY <2>1 DEF Silent, Quiet
  <2>3. Len(csync[n]) = 1 /\ csync[n][1].chk = c /\ saved[n] = <<>> /\ resume[n] = 0 /\ Upto(n, c)
    BY <2>2 DEF Sent
  <2>4. k \in 0 .. 1
    BY <2>3
  <2>5. /\ Len(s) = 1 /\ s[1].chk = c
        /\ Len([s EXCEPT ![1].armed = TRUE]) = 1 /\ [s EXCEPT ![1].armed = TRUE][1].chk = c
    BY <1>1, <2>3, <2>4, OneEntry
  <2> HIDE DEF s
  <2>6. /\ Len(csync'[n]) = 1 /\ csync'[n][1].chk = c
        /\ \A j \in Sender : j # n => csync'[j] = csync[j]
    BY <1>1, <1>5, <1>7, <2>5 DEF TypeOK
  <2>7. Sent(n, c)'
    <3>1. Upto(n, c)'
      BY <1>4, <2>3 DEF Upto
    <3> QED BY <1>3, <1>4, <2>3, <2>6, <3>1 DEF Sent
  <2>8. /\ fwd'[n] = <<>> \/ fwd'[n] = <<CSYNC(c)>>
        /\ \A j \in Sender : j # n => fwd'[j] = fwd[j]
    <3>1. fwd'[n] = <<>> \/ fwd'[n] = Append(<<>>, CSYNC(c))
      BY <1>1, <1>5, <1>7, <2>2, <2>5 DEF TypeOK
    <3>2. Append(<<>>, CSYNC(c)) = <<CSYNC(c)>>
      OBVIOUS
    <3>3. \A j \in Sender : j # n => fwd'[j] = fwd[j]
      BY <1>1, <1>5, <1>7 DEF TypeOK
    <3> QED BY <3>1, <3>2, <3>3
  <2>9. Silent(n, c)' \/ Flying(n, c)'
    <3>1. CASE fwd'[n] = <<>>
      BY <3>1, <1>3, <1>4, <2>2, <2>7 DEF Silent, Quiet
    <3>2. CASE fwd'[n] = <<CSYNC(c)>>
      <4>1. Burst(fwd'[n], c, bitmap'[n + 1][c]) /\ Carried(fwd'[n]) = {}
        BY <3>2, BurstCsync
      <4>2. bitmap'[n + 1][c] \cup Carried(fwd'[n]) = bitmap[n + 1][c]
        BY <1>4, <4>1
      <4>3. Load(n, c, fwd[n])'
        BY <4>1, <4>2, <2>2 DEF Load
      <4> QED BY <1>3, <2>2, <2>7, <4>3 DEF Flying
    <3> QED BY <2>8, <3>1, <3>2
  <2>10. Phase(n)'
    BY <2>9 DEF Phase, Busy
  <2>11. \A x \in Chunk : Closed(n, x)' <=> Closed(n, x)
    BY <2>1, <2>9, ClosedIs, ClosedIsNext DEF ClosedTable
  <2>12. \A j \in Sender : j # n => HopSame(j)
    BY <1>3, <1>4, <2>6, <2>8 DEF HopSame
  <2>13. Engaged(n)
    BY <1>7 DEF Engaged
  <2> QED BY <1>3, <2>10, <2>11, <2>12, <2>13, LocalStep
<1> QED BY <1>6, <1>7

\* A stored burst whose event fires or that gets a new one keeps its packets.
LEMMA OneStored ==
    ASSUME NEW s \in Seq(SavedEntry), Len(s) = 1, NEW k \in 0 .. 1
    PROVE  /\ Tail(Fired(s, k)) = <<>>
           /\ Len([Fired(s, k) EXCEPT ![1].armed = TRUE]) = 1
           /\ [Fired(s, k) EXCEPT ![1].armed = TRUE][1].pkts = s[1].pkts
           /\ [Fired(s, k) EXCEPT ![1].armed = TRUE][1].armed
<1>2. \A t \in Seq(SavedEntry), v \in BOOLEAN :
         Len(t) = 1 => /\ [t EXCEPT ![1].armed = v] \in Seq(SavedEntry)
                       /\ Len([t EXCEPT ![1].armed = v]) = 1
                       /\ [t EXCEPT ![1].armed = v][1].pkts = t[1].pkts
                       /\ [t EXCEPT ![1].armed = v][1].armed = v
  <2> SUFFICES ASSUME NEW t \in Seq(SavedEntry), NEW v \in BOOLEAN, Len(t) = 1
               PROVE  /\ [t EXCEPT ![1].armed = v] \in Seq(SavedEntry)
                      /\ Len([t EXCEPT ![1].armed = v]) = 1
                      /\ [t EXCEPT ![1].armed = v][1].pkts = t[1].pkts
                      /\ [t EXCEPT ![1].armed = v][1].armed = v
    OBVIOUS
  <2>1. t \in [1 .. 1 -> SavedEntry] /\ t[1] \in SavedEntry
    <3>1. t \in [1 .. Len(t) -> SavedEntry]
      BY LenProperties
    <3>2. t \in [1 .. 1 -> SavedEntry]
      BY <3>1
    <3> QED BY ONLY <3>2, SMT
  <2>2. 1 \in 1 .. Len(t)
    BY ONLY Len(t) = 1, SMT
  <2>3. [t EXCEPT ![1].armed = v] \in Seq(SavedEntry) /\ Len([t EXCEPT ![1].armed = v]) = Len(t)
    BY <2>2, RearmKeepsSaved, ZenonT(40)
  <2>4. [t EXCEPT ![1].armed = v][1] = [t[1] EXCEPT !.armed = v]
    BY <2>1
  <2>5. [t[1] EXCEPT !.armed = v].pkts = t[1].pkts /\ [t[1] EXCEPT !.armed = v].armed = v
    BY <2>1 DEF SavedEntry
  <2> QED BY <2>3, <2>4, <2>5
<1>3. Fired(s, k) \in Seq(SavedEntry) /\ Len(Fired(s, k)) = 1 /\ Fired(s, k)[1].pkts = s[1].pkts
  <2>1. k = 0 \/ k = 1
    OBVIOUS
  <2> QED BY <2>1, <1>2 DEF Fired
<1>4. Tail(Fired(s, k)) = <<>>
  <2> DEFINE t == Fired(s, k)
  <2>1. t \in Seq(SavedEntry) /\ Len(t) = 1
    BY <1>3
  <2> HIDE DEF t
  <2>2. t # <<>>
    <3>1. Len(<<>>) = 0 /\ 0 # 1
      OBVIOUS
    <3> QED BY ONLY <3>1, <2>1
  <2>3. Tail(t) \in Seq(SavedEntry) /\ Len(Tail(t)) = 0
    BY <2>1, <2>2, HeadTailProperties
  <2>4. Tail(t) = <<>>
    BY <2>3, EmptySeq
  <2> QED BY <2>4 DEF t
<1> QED BY <1>2, <1>3, <1>4

\* The timer of a stored burst fires.
LEMMA ReSendDataLock ==
    ASSUME IInv, Lockstep, NEW n \in Sender, NEW good \in BOOLEAN,
           NEW k \in 0 .. Len(saved[n]), ReSendData(n, k, good)
    PROVE  Lockstep'
<1>1. TypeOK /\ saved[n] \in Seq(SavedEntry)
  BY DEF IInv, TypeOK
<1>2. hop' = hop /\ back' = back
  BY DEF ReSendData
<1>3. bitmap' = bitmap /\ pktCount' = pktCount /\ resume' = resume
  BY <1>2 DEF hop
<1>4. CASE saved[n] = <<>>
  <2>1. saved' = saved /\ csync' = csync /\ fwd' = fwd
    BY <1>4 DEF ReSendData
  <2>2. \A j \in Sender : HopSame(j)
    BY <1>2, <1>3, <2>1 DEF HopSame
  <2>3. Phase(n)' /\ \A x \in Chunk : Closed(n, x)' <=> Closed(n, x)
    BY <2>2, PhaseFrame DEF Lockstep
  <2>4. Engaged(n)' => Engaged(n)
    BY <2>1, <1>3 DEF Engaged
  <2> QED BY <1>2, <2>2, <2>3, <2>4, LocalStep
<1>5. CASE saved[n] # <<>>
  <2> DEFINE q == saved[n][1].pkts
             s == Fired(saved[n], k)
             t == [s EXCEPT ![1].armed = TRUE]
  <2>1. PICK c \in Chunk : Storing(n, c)
    BY <1>1, <1>5, WhichPhase DEF Lockstep
  <2>2. Stored(n, c) /\ Load(n, c, q)
    BY <2>1 DEF Storing
  <2>3. /\ csync[n] = <<>> /\ resume[n] = 0 /\ fwd[n] = <<>> /\ back[n] = <<>>
        /\ Len(saved[n]) = 1 /\ Closing(saved[n][1]) = c /\ Upto(n, c)
    BY <2>2 DEF Stored, Quiet
  <2>4. k \in 0 .. 1
    BY <2>3
  <2>5. Tail(s) = <<>> /\ Len(t) = 1 /\ t[1].pkts = q /\ t[1].armed
    BY <1>1, <2>3, <2>4, OneStored
  <2>6. Upto(n, c)'
    BY <1>3, <2>3 DEF Upto
  <2>7. Engaged(n)
    BY <1>5 DEF Engaged
  <2>8. q \in Seq(Msg)
    BY <2>2 DEF Load, Burst
  <2>9. CASE SendSaved(n, k)
    <3>1. /\ saved' = [saved EXCEPT ![n] = Tail(Fired(@, k))]
          /\ fwd' = [fwd EXCEPT ![n] = @ \o q]
          /\ csync' = [csync EXCEPT ![n] = Append(@, Armed(c))]
      BY <2>3, <2>9 DEF SendSaved, Closing
    <3>2. saved'[n] = <<>> /\ \A j \in Sender : j # n => saved'[j] = saved[j]
      BY <1>1, <2>5, <3>1 DEF TypeOK
    <3>3. fwd'[n] = q /\ \A j \in Sender : j # n => fwd'[j] = fwd[j]
      <4>1. fwd'[n] = <<>> \o q /\ \A j \in Sender : j # n => fwd'[j] = fwd[j]
        BY <1>1, <2>3, <3>1 DEF TypeOK
      <4> QED BY <4>1, <2>8
    <3>4. csync'[n] = <<Armed(c)>> /\ \A j \in Sender : j # n => csync'[j] = csync[j]
      <4>1. csync'[n] = Append(<<>>, Armed(c)) /\ \A j \in Sender : j # n => csync'[j] = csync[j]
        BY <1>1, <2>3, <3>1 DEF TypeOK
      <4> QED BY <4>1
    <3>5. Sent(n, c)'
      <4>1. Len(csync'[n]) = 1 /\ csync'[n][1] = Armed(c) /\ Armed(c).chk = c
        BY <3>4 DEF Armed
      <4>2. resume'[n] = 0
        BY <1>3, <2>3
      <4> QED BY ONLY <4>1, <4>2, <3>2, <2>6 DEF Sent
    <3>6. Load(n, c, fwd[n])'
      BY <1>3, <2>2, <3>3 DEF Load
    <3>7. Flying(n, c)'
      BY <1>2, <2>3, <3>5, <3>6 DEF Flying
    <3>8. Phase(n)'
      BY <3>7 DEF Phase, Busy
    <3>9. \A x \in Chunk : Closed(n, x)' <=> Closed(n, x)
      BY <2>1, <3>7, ClosedIs, ClosedIsNext DEF ClosedTable
    <3>10. \A j \in Sender : j # n => HopSame(j)
      BY <1>2, <1>3, <3>2, <3>3, <3>4 DEF HopSame
    <3> QED BY <1>2, <2>7, <3>8, <3>9, <3>10, LocalStep
  <2>10. CASE KeepSaved(n, k)
    <3>1. saved' = [saved EXCEPT ![n] = t] /\ fwd' = fwd /\ csync' = csync
      BY <2>10 DEF KeepSaved
    <3> HIDE DEF t, s
    <3>2. saved'[n] = t /\ \A j \in Sender : j # n => saved'[j] = saved[j]
      BY <1>1, <3>1 DEF TypeOK
    <3>3. Closing(t[1]) = c
      BY <2>3, <2>5 DEF Closing
    <3>4. Stored(n, c)'
      BY <1>2, <1>3, <2>3, <2>5, <2>6, <3>1, <3>2, <3>3 DEF Stored, Quiet, Closing
    <3>5. Load(n, c, saved[n][1].pkts)'
      BY <1>3, <2>2, <2>5, <3>2 DEF Load
    <3>6. Storing(n, c)'
      BY <3>4, <3>5 DEF Storing
    <3>7. Phase(n)'
      BY <3>6 DEF Phase, Busy
    <3>8. \A x \in Chunk : Closed(n, x)' <=> Closed(n, x)
      BY <2>1, <3>6, ClosedIs, ClosedIsNext DEF ClosedTable
    <3>9. \A j \in Sender : j # n => HopSame(j)
      BY <1>2, <1>3, <3>1, <3>2 DEF HopSame
    <3> QED BY <1>2, <2>7, <3>7, <3>8, <3>9, LocalStep
  <2> QED BY <1>5, <2>9, <2>10 DEF ReSendData
<1> QED BY <1>4, <1>5

\* A message of the source is lost.
LEMMA LoseLock ==
    ASSUME IInv, Lockstep, SourceLoses, NEW n \in Sender, LoseFwd(n) \/ LoseBack(n)
    PROVE  Lockstep'
<1>1. TypeOK /\ fwd[n] \in Seq(Msg) /\ back[n] \in Seq(AckMsg) /\ losses \in Nat
  <2>1. TypeOK /\ fwd \in [Sender -> Seq(Msg)] /\ back \in [Sender -> Seq(AckMsg)]
    BY DEF IInv, TypeOK
  <2>2. losses \in Nat
    BY <2>1, ConstAssumption DEF TypeOK
  <2> QED BY ONLY <2>1, <2>2, n \in Sender
<1>2. losses' # losses
  BY <1>1 DEF LoseFwd, LoseBack
<1>3. \A S, t : t \in Seq(S) /\ t # <<>> => Tail(t) # t
  <2> SUFFICES ASSUME NEW S, NEW t \in Seq(S), t # <<>> PROVE Tail(t) # t
    OBVIOUS
  <2>1. Len(Tail(t)) = Len(t) - 1 /\ Len(t) \in Nat
    BY HeadTailProperties
  <2>2. \A i \in Nat : i - 1 # i
    OBVIOUS
  <2> QED BY <2>1, <2>2
<1>4. ~ LoseBack(n)
  <2> SUFFICES ASSUME LoseBack(n) PROVE FALSE
    OBVIOUS
  <2>1. back'[n] = Tail(back[n]) /\ back[n] # <<>>
    BY <1>1 DEF LoseBack, TypeOK
  <2> QED BY <1>1, <1>2, <1>3, <2>1 DEF SourceLoses
<1>5. /\ fwd[n] # <<>> /\ fwd'[n] = Tail(fwd[n]) /\ hop' = hop /\ back' = back
      /\ csync' = csync /\ saved' = saved
      /\ \A j \in Sender : j # n => fwd'[j] = fwd[j]
  BY <1>1, <1>4 DEF LoseFwd, TypeOK, timer
<1>6. n = 1
  <2>1. n \in Relay => fwd'[n] = fwd[n]
    BY <1>2 DEF SourceLoses
  <2> QED BY <1>1, <1>3, <1>5, <2>1, Nodes
<1>7. bitmap' = bitmap /\ pktCount' = pktCount /\ resume' = resume
  BY <1>5 DEF hop
<1>8. PICK c \in Chunk : Flying(n, c)
  BY <1>1, <1>5, WhichPhase DEF Lockstep
<1>9. Sent(n, c) /\ back[n] = <<>> /\ Load(n, c, fwd[n]) /\ Burst(fwd[n], c, bitmap[n + 1][c])
  BY <1>8 DEF Flying, Load
<1>10. Sent(n, c)'
  BY <1>5, <1>7, <1>9 DEF Sent, Upto
<1>11. Silent(n, c)' \/ Flying(n, c)'
  <2> DEFINE q == fwd[n]
             b == bitmap[n + 1][c]
  <2>1. Burst(q, c, b)
    BY <1>9
  <2>2. CASE Head(q).type = "DATA"
    <3> HIDE DEF q, b
    <3>1. Burst(Tail(q), c, b) /\ Carried(q) = Carried(Tail(q)) \cup {Head(q).pkt}
      BY <2>1, <2>2, BurstData
    <3>2. Burst(fwd'[n], c, b) /\ (Carried(fwd'[n]) # {} => c \in pktCount[n + 1])
      BY <3>1, <1>5, <1>9 DEF q, Load
    <3>3. Load(n, c, fwd[n])'
      BY <3>2, <1>6, <1>7 DEF Load, b
    <3> QED BY <3>3, <1>5, <1>9, <1>10 DEF Flying
  <2>3. CASE Head(q).type # "DATA"
    <3> HIDE DEF q, b
    <3>1. Tail(q) = <<>>
      BY <2>1, <2>3, BurstEnd
    <3>2. fwd'[n] = <<>>
      BY <3>1, <1>5 DEF q
    <3> QED BY <3>2, <1>5, <1>6, <1>9, <1>10 DEF Silent, Quiet
  <2> QED BY <2>2, <2>3
<1>12. Phase(n)'
  BY <1>11 DEF Phase, Busy
<1>13. \A x \in Chunk : Closed(n, x)' <=> Closed(n, x)
  BY <1>8, <1>11, ClosedIs, ClosedIsNext DEF ClosedTable
<1>14. \A j \in Sender : j # n => HopSame(j)
  BY <1>5, <1>7 DEF HopSame
<1>15. Engaged(n)' => Engaged(n)
  BY <1>5, <1>7 DEF Engaged
<1> QED BY <1>5, <1>12, <1>13, <1>14, <1>15, LocalStep

\* What the source holds of chunks that it has not made yet.
LEMMA NotYetMade ==
    ASSUME IInv, Lockstep
    PROVE  /\ \A x \in Chunk : x > chkID => bitmap[2][x] = {}
           /\ chkID = 0 => Idle(1)
<1>1. TypeOK /\ chkID \in Int /\ 1 \in Sender /\ 1 + 1 = 2 /\ 2 \in Receiver
  <2>1. TypeOK /\ 1 \in Sender /\ 2 \in Receiver /\ C \in Nat
    BY Nodes, ConstAssumption DEF IInv
  <2>2. chkID \in 0 .. C
    BY <2>1 DEF TypeOK
  <2> QED BY <2>1, <2>2
<1>2. Range(<<>>) = {} /\ Len(<<>>) = 0
  BY DEF Range
<1>3. \A x \in Chunk : x > chkID => data[1][x] = <<>>
  BY <1>1 DEF IInv, SourceOK, Chunk
<1>4. \A x \in Chunk : x > chkID => bitmap[2][x] = {}
  BY <1>2, <1>3 DEF IInv, FirstOK, Held
<1>5. ASSUME chkID = 0 PROVE Idle(1)
  <2>1. \A x \in Chunk : x > chkID
    BY <1>5 DEF Chunk
  <2>2. \A x \in Chunk : ~ Startable(1, x)
    BY <1>2, <1>3, <2>1, ConstAssumption DEF Startable
  <2>3. csync[1] = <<>>
    <3> SUFFICES ASSUME csync[1] # <<>> PROVE FALSE
      OBVIOUS
    <3>1. csync[1] \in Seq(CsyncEntry)
      BY <1>1 DEF TypeOK
    <3>2. Head(csync[1]) \in Range(csync[1]) /\ Head(csync[1]) \in CsyncEntry
      BY <3>1, HeadTailRange
    <3> QED BY <1>1, <2>2, <3>2 DEF CsyncEntry, IInv, CsyncOK
  <2>4. saved[1] = <<>>
    <3> SUFFICES ASSUME saved[1] # <<>> PROVE FALSE
      OBVIOUS
    <3>1. PICK c \in Chunk : Storing(1, c)
      BY <1>1, WhichPhase DEF Lockstep
    <3>2. Closing(saved[1][1]) = c /\ saved[1] \in Seq(SavedEntry)
      BY <1>1, <3>1 DEF Storing, Stored, TypeOK
    <3>3. Head(saved[1]) \in Range(saved[1]) /\ Head(saved[1]) = saved[1][1]
      BY <3>2, HeadTailRange
    <3> QED BY <1>1, <2>2, <3>2, <3>3 DEF IInv, SavedOK
  <2>5. ~ (resume[1] > 0)
    <3> SUFFICES ASSUME resume[1] > 0 PROVE FALSE
      OBVIOUS
    <3>1. PICK c \in Chunk : Waiting(1, c)
      BY <1>1, WhichPhase DEF Lockstep
    <3>2. 1 \in Pkt /\ bitmap[2][c] = Pkt
      BY <1>1, <3>1, ConstAssumption DEF Waiting, Pkt
    <3> QED BY <1>4, <2>1, <3>2
  <2> QED BY <1>1, <2>3, <2>4, <2>5, WhichPhase DEF Lockstep, Engaged
<1> QED BY <1>4, <1>5

\* The source makes a chunk.
LEMMA SendDataLock ==
    ASSUME IInv, IInv', Lockstep, NEW route \in BOOLEAN, SendData(route)
    PROVE  Lockstep'
<1>1. TypeOK /\ TypeOK' /\ chkID \in Nat /\ 1 \in Sender /\ 1 + 1 = 2 /\ 2 \in Receiver /\ 1 \in Chunk
  <2>1. TypeOK /\ TypeOK' /\ 1 \in Sender /\ 2 \in Receiver /\ C \in Nat
    BY Nodes, ConstAssumption DEF IInv
  <2>2. chkID \in 0 .. C /\ 1 \in Chunk
    BY <2>1, ConstAssumption DEF TypeOK, Chunk
  <2> QED BY <2>1, <2>2
<1>2. PICK c \in Chunk : c = chkID + 1 /\ c \in Int
  <2>1. chkID + 1 \in Chunk
    BY <1>1, ConstAssumption DEF SendData, Chunk
  <2> QED BY <2>1 DEF Chunk
<1>3. /\ chkID' = c
      /\ data' = [data EXCEPT ![1][c] = Whole]
      /\ pktCount' = [pktCount EXCEPT ![1] = @ \cup {c}]
      /\ bitmap' = bitmap /\ pktArray' = pktArray /\ toFile' = toFile
      /\ saved' = saved /\ back' = back
      /\ IF FromFileStarts(c)
         THEN /\ resume' = IF c = 1 THEN resume ELSE [resume EXCEPT ![1] = @ - 1]
              /\ csync' = [csync EXCEPT ![1] = Append(@, Armed(c))]
              /\ fwd' = IF route THEN [fwd EXCEPT ![1] = Append(@, CSYNC(c))] ELSE fwd
         ELSE resume' = resume /\ csync' = csync /\ fwd' = fwd
  BY <1>2 DEF SendData
<1>4. \A x \in Chunk : x > chkID => bitmap[2][x] = {}
  BY NotYetMade
<1>5. pktCount'[1] = 1 .. c /\ \A k \in Sender : pktCount'[k + 1] = pktCount[k + 1]
  <2>1. pktCount'[1] = 1 .. chkID \cup {c}
    BY <1>1, <1>3, Nodes DEF TypeOK, Lockstep, CreateOK
  <2>2. 1 .. chkID \cup {c} = 1 .. c
    BY <1>1, <1>2
  <2>3. \A k \in Sender : k + 1 \in 1 .. N /\ k + 1 # 1
    BY Nodes DEF Sender
  <2> QED BY <2>1, <2>2, <2>3, <1>1, <1>3 DEF TypeOK
<1>6. \A k \in Relay : k \in Sender /\ k - 1 \in Sender /\ k # 1 /\ k \in Int
  BY Nodes DEF Relay
<1>7. OnceOK'
  <2>1. \A k \in Relay : data'[k] = data[k]
    BY <1>1, <1>3, <1>6 DEF TypeOK
  <2> QED BY <2>1 DEF Lockstep, OnceOK
<1>8. CountOK' /\ ArrayOK' /\ WrittenWholeInOrder'
  <2>1. CountOK /\ ArrayOK /\ WrittenWholeInOrder
    BY DEF Lockstep
  <2>2. CountOK'
    BY <1>3, <1>5, <2>1 DEF CountOK
  <2>3. ArrayOK'
    BY <1>3, <2>1 DEF ArrayOK, Upto
  <2>4. WrittenWholeInOrder'
    BY <1>3, <2>1 DEF WrittenWholeInOrder
  <2> QED BY <2>2, <2>3, <2>4
<1>9. \A k \in Sender : k # 1 => HopSame(k)
  <2>1. \A k \in Sender : k # 1 => csync'[k] = csync[k]
    <3>1. csync' = csync \/ csync' = [csync EXCEPT ![1] = Append(@, Armed(c))]
      BY <1>3
    <3>2. DOMAIN csync = Sender
      BY <1>1 DEF TypeOK
    <3> QED BY ONLY <3>1, <3>2
  <2>2. \A k \in Sender : k # 1 => fwd'[k] = fwd[k]
    <3>1. fwd' = fwd \/ fwd' = [fwd EXCEPT ![1] = Append(@, CSYNC(c))]
      BY <1>3
    <3>2. fwd \in [Sender -> Seq(Msg)]
      BY <1>1 DEF TypeOK
    <3> QED BY ONLY <3>1, <3>2
  <2>3. \A k \in Sender : k # 1 => resume'[k] = resume[k]
    <3>1. resume' = resume \/ resume' = [resume EXCEPT ![1] = @ - 1]
      BY <1>3
    <3>2. resume \in [Sender -> Nat]
      BY <1>1 DEF TypeOK
    <3> QED BY ONLY <3>1, <3>2
  <2> QED BY <2>1, <2>2, <2>3, <1>3, <1>5 DEF HopSame
<1>10. CASE ~ FromFileStarts(c)
  <2>1. HopSame(1)
    BY <1>1, <1>3, <1>5, <1>10 DEF HopSame
  <2>2. \A k \in Sender : Phase(k)' /\ \A x \in Chunk : Closed(k, x)' <=> Closed(k, x)
    BY <1>9, <2>1, PhaseFrame DEF Lockstep
  <2>3. \A k \in Relay : Engaged(k)' <=> Engaged(k)
    BY <1>3, <1>10 DEF Engaged
  <2>4. ResumeOK' /\ BegunOK'
    BY <1>1, <1>3, <1>6, <1>10, <2>2, <2>3, CrossKept DEF Lockstep
  <2>5. CreateOK'
    BY <1>3, <1>5, <1>10 DEF CreateOK, FromFileStarts
  <2> QED BY <1>7, <1>8, <2>2, <2>4, <2>5 DEF Lockstep
<1>11. CASE FromFileStarts(c)
  <2>1. /\ resume' = IF c = 1 THEN resume ELSE [resume EXCEPT ![1] = @ - 1]
        /\ csync'[1] = Append(csync[1], Armed(c))
        /\ fwd'[1] = fwd[1] \/ fwd'[1] = Append(fwd[1], CSYNC(c))
    <3>1. csync' = [csync EXCEPT ![1] = Append(@, Armed(c))] /\ csync \in [Sender -> Seq(CsyncEntry)]
      BY <1>1, <1>3, <1>11 DEF TypeOK
    <3>2. fwd' = fwd \/ fwd' = [fwd EXCEPT ![1] = Append(@, CSYNC(c))]
      BY <1>3, <1>11
    <3>3. fwd \in [Sender -> Seq(Msg)]
      BY <1>1 DEF TypeOK
    <3> QED BY <3>1, <3>2, <3>3, <1>1, <1>3, <1>11
  <2>2. /\ csync[1] = <<>> /\ saved[1] = <<>> /\ resume'[1] = 0 /\ fwd[1] = <<>> /\ back[1] = <<>>
        /\ Closed(1, 1) => c # 1
        /\ \A x \in Chunk : x < c => bitmap[2][x] = Pkt /\ Closed(1, x)
    <3>1. CASE c = 1
      <4>1. Idle(1) /\ chkID = 0
        BY <3>1, <1>1, <1>2, NotYetMade
      <4>2. ~ Closed(1, 1)
        BY <1>1, <4>1, ClosedIs DEF ClosedTable
      <4>3. \A x \in Chunk : ~ (x < c)
        BY <3>1 DEF Chunk
      <4> QED BY <3>1, <4>1, <4>2, <4>3, <2>1 DEF Idle, Quiet
    <3>2. CASE c # 1
      <4>1. resume[1] > 0
        BY <3>2, <1>11 DEF FromFileStarts
      <4>2. PICK d \in Chunk : Waiting(1, d)
        BY <1>1, <4>1, WhichPhase DEF Lockstep
      <4>3. resume[1] = 1 /\ csync[1] = <<>> /\ saved[1] = <<>> /\ fwd[1] = <<>> /\ back[1] = <<>> /\ Upto(1, d)
        BY <4>2 DEF Waiting, Quiet
      <4>4. resume'[1] = 0
        BY <1>1, <2>1, <3>2, <4>3 DEF TypeOK
      <4>5. \A x \in Chunk : x < c => bitmap[2][x] = Pkt
        <5>1. \A x \in Chunk : x < c => x \in 1 .. chkID
          BY <1>1, <1>2 DEF Chunk
        <5> QED BY <4>1, <5>1 DEF Lockstep, CreateOK
      <4>6. 1 \in Pkt
        BY ConstAssumption DEF Pkt
      <4>7. \A x \in Chunk : x < c => x <= d
        <5>1. \A x \in Chunk : x \in Int
          BY DEF Chunk
        <5>2. \A x \in Chunk : x > d => bitmap[2][x] = {}
          BY <1>1, <4>3 DEF Upto
        <5> QED BY <4>5, <4>6, <5>1, <5>2
      <4>8. \A x \in Chunk : x < c => Closed(1, x)
        BY <1>1, <4>2, <4>7, ClosedIs DEF ClosedTable
      <4> QED BY <3>2, <4>3, <4>4, <4>5, <4>8
    <3> QED BY <3>1, <3>2
  <2>3. Upto(1, c)'
    <3>1. \A x \in Chunk : x > c => x > chkID
      BY <1>1, <1>2 DEF Chunk
    <3> QED BY <3>1, <1>1, <1>3, <1>4, <2>2 DEF Upto
  <2>4. csync'[1] = <<Armed(c)>> /\ (fwd'[1] = <<>> \/ fwd'[1] = <<CSYNC(c)>>)
    <3>1. Append(<<>>, Armed(c)) = <<Armed(c)>> /\ Append(<<>>, CSYNC(c)) = <<CSYNC(c)>>
      OBVIOUS
    <3> QED BY <3>1, <2>1, <2>2
  <2>5. Silent(1, c)' \/ Flying(1, c)'
    BY <1>1, <1>2, <1>3, <2>2, <2>3, <2>4, StartPhase
  <2>6. \A k \in Sender : Phase(k)' /\ (k # 1 => \A x \in Chunk : Closed(k, x)' <=> Closed(k, x))
    <3>1. Phase(1)'
      BY <1>2, <2>5 DEF Phase, Busy
    <3> QED BY <3>1, <1>9, PhaseFrame DEF Lockstep
  <2>7. \A x \in Chunk : Closed(1, x)' <=> x < c
    BY <1>1, <1>2, <2>5, ClosedIsNext DEF ClosedTable
  <2>8. \A k \in Relay : resume'[k] = resume[k] /\ (Engaged(k)' => Engaged(k))
    BY <1>6, <1>9 DEF HopSame, Engaged
  <2>9. \A k \in Relay, x \in Chunk : Closed(k - 1, x)' => Closed(k - 1, x)
    BY <1>6, <2>2, <2>6, <2>7
  <2>10. \A k \in Relay : Closed(k - 1, 1) => Closed(k - 1, 1)'
    <3>1. c # 1 => 1 < c
      BY <1>2 DEF Chunk
    <3> QED BY <3>1, <1>1, <1>6, <2>2, <2>6, <2>7
  <2>11. ResumeOK' /\ BegunOK'
    BY <1>3, <2>8, <2>9, <2>10, CrossKept DEF Lockstep
  <2>12. CreateOK'
    BY <1>3, <1>5, <2>2 DEF CreateOK
  <2> QED BY <1>7, <1>8, <2>6, <2>11, <2>12 DEF Lockstep
<1> QED BY <1>10, <1>11

\* Every step keeps the invariant.
LEMMA NextLockstep ==
    ASSUME MaxEarly = 0, IInv, IInv', Lockstep, [LiveNext]_vars
    PROVE  Lockstep'
<1>1. CASE vars' = vars
  <2>1. /\ hop' = hop /\ csync' = csync /\ saved' = saved /\ fwd' = fwd /\ back' = back
    BY <1>1 DEF vars, timer, net
  <2>2. bitmap' = bitmap /\ pktCount' = pktCount /\ resume' = resume /\ 1 \in Sender
    BY <2>1, Nodes DEF hop
  <2>3. \A j \in Sender : HopSame(j)
    BY <2>1, <2>2 DEF HopSame
  <2>4. Phase(1)' /\ \A x \in Chunk : Closed(1, x)' <=> Closed(1, x)
    BY <2>2, <2>3, PhaseFrame DEF Lockstep
  <2>5. Engaged(1)' => Engaged(1)
    BY <2>1, <2>2 DEF Engaged
  <2> QED BY <2>1, <2>2, <2>3, <2>4, <2>5, LocalStep
<1>2. CASE \E route \in BOOLEAN : SendData(route)
  BY <1>2, SendDataLock
<1>3. CASE \E n \in Receiver : RecvDATA(n)
  BY <1>3, RecvDATALock
<1>4. CASE \E n \in Receiver, route \in BOOLEAN : RecvCSYNC(n, route)
  BY <1>4, RecvCSYNCLock
<1>5. CASE \E n \in Sender, forward \in BOOLEAN : RecvCSYNCACK(n, forward)
  BY <1>5, RecvCSYNCACKLock
<1>6. CASE \E n \in Sender, route \in BOOLEAN :
              \E k \in 0 .. Len(csync[n]) : ReSendCSYN(n, k, route)
  BY <1>6, ReSendCSYNLock
<1>7. CASE \E n \in Sender, good \in BOOLEAN :
              \E k \in 0 .. Len(saved[n]) : ReSendData(n, k, good)
  BY <1>7, ReSendDataLock
<1>8. CASE SourceLoses /\ \E n \in Sender : LoseFwd(n) \/ LoseBack(n)
  BY <1>8, LoseLock
<1> QED BY <1>1, <1>2, <1>3, <1>4, <1>5, <1>6, <1>7, <1>8 DEF LiveNext, Next

\* The behaviors of the instance hop_live: no CSYNC timeout beats an answer, and
\* only messages of the source are lost.
LiveSpec == Init /\ [][LiveNext]_vars

\* They are behaviors of the specification.
LEMMA LiveInductive == LiveSpec => []IInv
<1>1. LiveSpec => Spec
  <2>1. [LiveNext]_vars => [Next]_vars
    BY DEF LiveNext
  <2> QED BY <2>1, PTL DEF LiveSpec, Spec
<1> QED BY <1>1, Inductive, PTL

\* In these behaviors every hop passes on one chunk at a time, from one phase to the
\* next, and relays wait only when nothing is left to pass on.
THEOREM HopsInLockstep == ASSUME MaxEarly = 0 PROVE LiveSpec => []Lockstep
<1>3. Init => Lockstep
  BY InitLockstep
<1>4. IInv /\ IInv' /\ Lockstep /\ [LiveNext]_vars => Lockstep'
  BY NextLockstep
<1> QED BY <1>3, <1>4, LiveInductive, PTL DEF LiveSpec

\* In these behaviors nothing of a chunk travels on a hop before the next node has
\* all of the chunk before it: the bursts of ProcessCSYNCACK never overtake.
THEOREM ChunkAfterChunk == ASSUME MaxEarly = 0 PROVE LiveSpec => []OneChunkAtATime
<1>1. IInv /\ Lockstep => OneChunkAtATime
  <2> SUFFICES ASSUME IInv, Lockstep, NEW n \in Sender, NEW m \in Range(fwd[n]), m.chk > 1
               PROVE  bitmap[n + 1][m.chk - 1] = Pkt
    BY DEF OneChunkAtATime
  <2>1. TypeOK /\ fwd[n] \in Seq(Msg)
    BY DEF IInv, TypeOK
  <2>2. PICK i \in 1 .. Len(fwd[n]) : m = fwd[n][i]
    BY <2>1, RangeEquality
  <2>3. fwd[n] # <<>>
    <3>1. Len(<<>>) = 0 /\ Len(fwd[n]) # 0
      BY <2>1, <2>2
    <3> QED BY ONLY <3>1
  <2>4. PICK c \in Chunk : Flying(n, c)
    BY <2>1, <2>3, WhichPhase DEF Lockstep
  <2>5. Upto(n, c) /\ Burst(fwd[n], c, bitmap[n + 1][c])
    BY <2>4 DEF Flying, Sent, Load
  <2>6. m.chk = c
    <3>1. i \in 1 .. Len(fwd[n]) - 1 \/ i = Len(fwd[n])
      BY <2>1
    <3> QED BY <3>1, <2>2, <2>5, MsgTypes DEF Burst
  <2>7. c - 1 \in Chunk /\ c - 1 < c
    BY <2>6, ConstAssumption DEF Chunk
  <2> QED BY <2>5, <2>6, <2>7 DEF Upto
<1> QED BY <1>1, LiveInductive, HopsInLockstep, PTL

\* In these behaviors ToFile runs while pkt_array holds the whole chunk and nothing
\* else, and never goes back to an earlier chunk.
THEOREM WrittenWhole == ASSUME MaxEarly = 0 PROVE LiveSpec => []WrittenWholeInOrder
<1>1. Lockstep => WrittenWholeInOrder
  BY DEF Lockstep
<1> QED BY <1>1, HopsInLockstep, PTL

\* In these behaviors no relay stores a packet of a chunk twice.
THEOREM StoredOnce == ASSUME MaxEarly = 0 PROVE LiveSpec => []NoneTwice
<1>1. IInv /\ Lockstep => NoneTwice
  <2> SUFFICES ASSUME IInv, Lockstep, NEW n \in Relay, NEW c \in Chunk PROVE Len(data[n][c]) <= P
    BY DEF NoneTwice
  <2>1. data[n] \in [Chunk -> Seq(Pkt)]
    BY Nodes DEF IInv, TypeOK
  <2>2. data[n][c] \in Seq(Pkt) /\ IsInjective(data[n][c])
    BY <2>1 DEF Lockstep, OnceOK
  <2> QED BY <2>2, DistinctPackets
<1> QED BY <1>1, LiveInductive, HopsInLockstep, PTL

=============================================================================
