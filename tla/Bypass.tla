------------------------------- MODULE Bypass -------------------------------
(***************************************************************************)
(* The block-acknowledged relay of ns3::Bypass (bypass.cc): PacketTimer-   *)
(* Expire, RecvMF (data and ACK) and ACKTimerExpire on a chain of nodes    *)
(* 1..N.  The source sends NUM_PACKET packets.  A node with m_ack = 1 is a *)
(* block source: it keeps one packet outstanding until its block           *)
(* destination m_bd acknowledges it and queues the rest.  A node with      *)
(* m_ack = 0 forwards data and ACKs and keeps nothing.  An ACK carries no  *)
(* sequence number.                                                        *)
(*                                                                         *)
(* DoStart writes m_ack and m_bd per address; its active table             *)
(* (wired-new.cc) makes the next node the block destination of every node, *)
(* the alternative table "mixed-new.cc (bypass)" has a block that spans    *)
(* several links.  The constant Bd is that table.                          *)
(***************************************************************************)
EXTENDS Integers, Sequences, Functions

CONSTANTS
    N,              \* nodes of the chain; N is m_dest
    K,              \* NUM_PACKET
    Bd,             \* Bd[n]: m_bd of node n, 0 where m_ack = 0
    MaxDataLosses,  \* bound: data packets the links lose
    MaxAckLosses,   \* bound: ACKs the links lose
    MaxEarly        \* bound: ACK timeouts that beat traffic still in flight

Sender   == 1 .. N - 1
Receiver == 2 .. N

\* m_ack of node n.
Acks(n) == Bd[n] # 0

\* PacketTimerExpire addresses the source's packets to the second node; blocks
\* are contiguous and every block destination short of N starts a block.
ASSUME BypassAssumption ==
    /\ N \in Nat /\ N >= 2
    /\ K \in Nat \ {0}
    /\ Bd \in [Sender -> 0 .. N]
    /\ Bd[1] = 2
    /\ \A n \in Sender : Acks(n) =>
          /\ n < Bd[n]
          /\ \A m \in n + 1 .. Bd[n] - 1 : ~ Acks(m)
          /\ Bd[n] < N => Acks(Bd[n])
    /\ MaxDataLosses \in Nat /\ MaxAckLosses \in Nat /\ MaxEarly \in Nat

VARIABLES
    seqno,      \* m_seqno of the source; 1 until its m_packetTimer expires
    prevSeq,    \* m_prevSeq
    dataPkts,   \* data_pkts
    mPacket,    \* m_packet, as a sequence of at most one packet
    ackTimer,   \* m_ackTimer is running
    queueEmpty, \* queue_empty: despite its name 1 while a packet is outstanding
    fatal,      \* Timer::Schedule was called on a running timer: the program aborts
    fwd,        \* fwd[n]: data packets from n to n + 1
    back,       \* back[n]: ACKs from n + 1 to n, each its destination address
    dataLosses, ackLosses, early

node  == <<seqno, prevSeq, dataPkts, mPacket, ackTimer, queueEmpty, fatal>>
bound == <<dataLosses, ackLosses, early>>
vars  == <<node, fwd, back, bound>>

Packet(s, bs, bd) == [seq |-> s, bs |-> bs, bd |-> bd]
Packets == [seq : 1 .. K, bs : Sender, bd : Receiver]

Init ==
    /\ seqno = 1
    /\ prevSeq = [n \in Receiver |-> 0]
    /\ dataPkts = [n \in Sender |-> <<>>]
    /\ mPacket = [n \in Sender |-> <<>>]
    /\ ackTimer = [n \in Sender |-> FALSE]
    /\ queueEmpty = [n \in Sender |-> 0]
    /\ fatal = FALSE
    /\ fwd = [n \in Sender |-> <<>>]
    /\ back = [n \in Sender |-> <<>>]
    /\ dataLosses = 0 /\ ackLosses = 0 /\ early = 0

-----------------------------------------------------------------------------
\* The source makes all its packets at once, sends the first and queues the
\* others.  It leaves queue_empty alone.
PacketTimerExpire ==
    /\ seqno = 1
    /\ seqno' = K + 1
    /\ mPacket' = [mPacket EXCEPT ![1] = <<Packet(1, 1, 2)>>]
    /\ dataPkts' = [dataPkts EXCEPT ![1] = [i \in 1 .. K - 1 |-> Packet(i + 1, 1, 2)]]
    /\ fwd' = [fwd EXCEPT ![1] = Append(@, Packet(1, 1, 2))]
    /\ ackTimer' = [ackTimer EXCEPT ![1] = TRUE]
    /\ fatal' = (fatal \/ ackTimer[1])
    /\ UNCHANGED <<prevSeq, queueEmpty, back, bound>>

-----------------------------------------------------------------------------
(* RecvMF, type 1.                                                         *)

\* Only the next packet in order is looked at.
M_InOrderRepeats(n, m) == m.seq <= prevSeq[n] + 1
M_InOrderAny(n, m) == TRUE
InOrder(n, m) == m.seq = prevSeq[n] + 1

\* The block destination acknowledges to the block source.
AckData(n, m) ==
    back' = IF m.bd = n THEN [back EXCEPT ![n - 1] = Append(@, m.bs)] ELSE back

\* The header a node forwards: a block source opens its own block.
Reheader(n, m) == IF Acks(n) THEN Packet(m.seq, n, Bd[n]) ELSE m

\* The final destination keeps nothing.
Deliver(n) ==
    /\ n = N
    /\ fwd' = [fwd EXCEPT ![n - 1] = Tail(@)]
    /\ UNCHANGED <<dataPkts, mPacket, ackTimer, queueEmpty, fatal>>

\* Nothing outstanding: send at once; only a block source then waits.
M_ForwardNowOverwrites(n, p) ==
    /\ n # N
    /\ mPacket' = [mPacket EXCEPT ![n] = <<p>>]
    /\ fwd' = [fwd EXCEPT ![n - 1] = Tail(@), ![n] = Append(@, p)]
    /\ IF Acks(n)
       THEN /\ ackTimer' = [ackTimer EXCEPT ![n] = TRUE]
            /\ queueEmpty' = [queueEmpty EXCEPT ![n] = 1]
            /\ UNCHANGED fatal
       ELSE UNCHANGED <<ackTimer, fatal, queueEmpty>>
    /\ UNCHANGED dataPkts
ForwardNow(n, p) ==
    /\ n # N /\ queueEmpty[n] = 0
    /\ mPacket' = [mPacket EXCEPT ![n] = <<p>>]
    /\ fwd' = [fwd EXCEPT ![n - 1] = Tail(@), ![n] = Append(@, p)]
    /\ IF Acks(n)
       THEN /\ ackTimer' = [ackTimer EXCEPT ![n] = TRUE]
            /\ fatal' = (fatal \/ ackTimer[n])
            /\ queueEmpty' = [queueEmpty EXCEPT ![n] = 1]
       ELSE UNCHANGED <<ackTimer, fatal, queueEmpty>>
    /\ UNCHANGED dataPkts

Enqueue(n, p) ==
    /\ n # N /\ queueEmpty[n] # 0
    /\ dataPkts' = [dataPkts EXCEPT ![n] = Append(@, p)]
    /\ fwd' = [fwd EXCEPT ![n - 1] = Tail(@)]
    /\ UNCHANGED <<mPacket, ackTimer, queueEmpty, fatal>>

RecvData(n) ==
    /\ fwd[n - 1] # <<>>
    /\ LET m == Head(fwd[n - 1]) IN
       /\ InOrder(n, m)
       /\ prevSeq' = [prevSeq EXCEPT ![n] = m.seq]
       /\ AckData(n, m)
       /\ Deliver(n) \/ ForwardNow(n, Reheader(n, m)) \/ Enqueue(n, Reheader(n, m))
    /\ UNCHANGED <<seqno, bound>>

\* Any other packet is dropped without an answer.
DropData(n) ==
    /\ fwd[n - 1] # <<>>
    /\ ~ InOrder(n, Head(fwd[n - 1]))
    /\ fwd' = [fwd EXCEPT ![n - 1] = Tail(@)]
    /\ UNCHANGED <<node, back, bound>>

-----------------------------------------------------------------------------
(* RecvMF, type 2.                                                         *)

\* The ACK is for this node: the timer is cancelled and the next queued packet,
\* if any, is sent and becomes outstanding.
M_SendNextLeavesFlag(n) ==
    /\ dataPkts[n] # <<>>
    /\ mPacket' = [mPacket EXCEPT ![n] = <<Head(dataPkts[n])>>]
    /\ dataPkts' = [dataPkts EXCEPT ![n] = Tail(@)]
    /\ fwd' = [fwd EXCEPT ![n] = Append(@, Head(dataPkts[n]))]
    /\ ackTimer' = [ackTimer EXCEPT ![n] = TRUE]
    /\ queueEmpty' = [queueEmpty EXCEPT ![n] = 0]
SendNext(n) ==
    /\ dataPkts[n] # <<>>
    /\ mPacket' = [mPacket EXCEPT ![n] = <<Head(dataPkts[n])>>]
    /\ dataPkts' = [dataPkts EXCEPT ![n] = Tail(@)]
    /\ fwd' = [fwd EXCEPT ![n] = Append(@, Head(dataPkts[n]))]
    /\ ackTimer' = [ackTimer EXCEPT ![n] = TRUE]
    /\ queueEmpty' = [queueEmpty EXCEPT ![n] = 1]

GoIdle(n) ==
    /\ dataPkts[n] = <<>>
    /\ ackTimer' = [ackTimer EXCEPT ![n] = FALSE]
    /\ queueEmpty' = [queueEmpty EXCEPT ![n] = 0]
    /\ UNCHANGED <<mPacket, dataPkts, fwd>>

RecvAck(n) ==
    /\ back[n] # <<>>
    /\ Head(back[n]) = n
    /\ back' = [back EXCEPT ![n] = Tail(@)]
    /\ SendNext(n) \/ GoIdle(n)
    /\ UNCHANGED <<seqno, prevSeq, fatal, bound>>

\* The ACK is for a node further back: it is passed on.
RelayAck(n) ==
    /\ back[n] # <<>>
    /\ Head(back[n]) # n
    /\ back' = [back EXCEPT ![n] = Tail(@), ![n - 1] = Append(@, Head(back[n]))]
    /\ UNCHANGED <<node, fwd, bound>>

-----------------------------------------------------------------------------
\* Nothing of node n's block is in flight.
Quiet(n) == \A m \in n .. Bd[n] - 1 : fwd[m] = <<>> /\ back[m] = <<>>

\* The outstanding packet is sent again and the timer restarted.
M_ACKTimerExpireOnce(n) ==
    /\ ackTimer[n]
    /\ Quiet(n) \/ early < MaxEarly
    /\ early' = IF Quiet(n) THEN early ELSE early + 1
    /\ fwd' = [fwd EXCEPT ![n] = @ \o mPacket[n]]
    /\ ackTimer' = [ackTimer EXCEPT ![n] = FALSE]
    /\ UNCHANGED <<seqno, prevSeq, dataPkts, mPacket, queueEmpty, fatal, back,
                   dataLosses, ackLosses>>
ACKTimerExpire(n) ==
    /\ ackTimer[n]
    /\ Quiet(n) \/ early < MaxEarly
    /\ early' = IF Quiet(n) THEN early ELSE early + 1
    /\ fwd' = [fwd EXCEPT ![n] = @ \o mPacket[n]]
    /\ UNCHANGED <<node, back, dataLosses, ackLosses>>

LoseData(n) ==
    /\ fwd[n] # <<>> /\ dataLosses < MaxDataLosses
    /\ fwd' = [fwd EXCEPT ![n] = Tail(@)]
    /\ dataLosses' = dataLosses + 1
    /\ UNCHANGED <<node, back, ackLosses, early>>

LoseAck(n) ==
    /\ back[n] # <<>> /\ ackLosses < MaxAckLosses
    /\ back' = [back EXCEPT ![n] = Tail(@)]
    /\ ackLosses' = ackLosses + 1
    /\ UNCHANGED <<node, fwd, dataLosses, early>>

-----------------------------------------------------------------------------
Next ==
    /\ ~ fatal
    /\ \/ PacketTimerExpire
       \/ \E n \in Receiver : RecvData(n) \/ DropData(n)
       \/ \E n \in Sender : RecvAck(n) \/ RelayAck(n)
       \/ \E n \in Sender : ACKTimerExpire(n)
       \/ \E n \in Sender : LoseData(n) \/ LoseAck(n)

Spec == Init /\ [][Next]_vars

\* A packet that is not lost arrives, and a running timer expires.
Fairness ==
    /\ WF_vars(PacketTimerExpire)
    /\ \A n \in Receiver : WF_vars(RecvData(n) \/ DropData(n))
    /\ \A n \in Sender :
          /\ WF_vars(RecvAck(n) \/ RelayAck(n))
          /\ WF_vars(ACKTimerExpire(n))

FairSpec == Spec /\ Fairness

-----------------------------------------------------------------------------
(* Properties.                                                             *)

\* Every field of every node and every packet in flight has its type.
TypeOK ==
    /\ seqno \in {1, K + 1}
    /\ prevSeq \in [Receiver -> 0 .. K]
    /\ dataPkts \in [Sender -> Seq(Packets)]
    /\ mPacket \in [Sender -> Seq(Packets)]
    /\ ackTimer \in [Sender -> BOOLEAN]
    /\ queueEmpty \in [Sender -> {0, 1}]
    /\ fatal \in BOOLEAN
    /\ fwd \in [Sender -> Seq(Packets)]
    /\ back \in [Sender -> Seq(Sender)]
    /\ dataLosses \in 0 .. MaxDataLosses
    /\ ackLosses \in 0 .. MaxAckLosses
    /\ early \in 0 .. MaxEarly

\* Timer::Schedule aborts the program when its timer is still running.  The
\* flag queue_empty and the timer are set and cleared in different handlers;
\* RecvMF never schedules m_ackTimer while it runs.
NoFatal == ~ fatal

\* The last sequence number node n has.
Got(n) == IF n = 1 THEN seqno - 1 ELSE prevSeq[n]

\* Sequence number of n's outstanding or last packet, 0 before the first.
Cur(n) == IF mPacket[n] = <<>> THEN 0 ELSE mPacket[n][1].seq

\* An ACK names no packet, so it must mean the outstanding one: whenever an ACK
\* for block source n is in flight, n is waiting and its block destination has
\* the packet n is waiting for.  Then RecvAck never releases a packet that has
\* not arrived, whatever timeouts and retransmissions happened before.
AckIsForCurrent ==
    \A n, m \in Sender : n \in Range(back[m]) =>
        ackTimer[n] /\ prevSeq[Bd[n]] = Cur(n)

\* Nothing accepted is dropped: what block source n has and its block
\* destination has not, is n's outstanding packet or in its queue.
NothingForgotten ==
    \A n \in Sender : Acks(n) =>
        \A s \in prevSeq[Bd[n]] + 1 .. Got(n) :
            \/ s = Cur(n) /\ ackTimer[n]
            \/ \E p \in Range(dataPkts[n]) : p.seq = s

\* Block source n waits for a packet that the next node has taken, after a loss
\* behind that node: of an ACK, or of the packet on a later link of the block.  The
\* next node drops every retransmission (bypass.cc:509), so nothing repairs it.
DroppedForGood(n) ==
    /\ ackTimer[n] /\ prevSeq[n + 1] = Cur(n)
    /\ ackLosses > 0 \/ (dataLosses > 0 /\ Bd[n] # n + 1)

\* The source's packets all reach the final destination, whatever is lost and
\* however early ACKTimerExpire sends again, except where some block source is left
\* waiting for ever for a packet that the next node drops.
AllDelivered ==
    <>(prevSeq[N] = K) \/ <>[](\E n \in Sender : DroppedForGood(n))

-----------------------------------------------------------------------------
(* The inductive invariants.                                               *)

UpTo(s, b) == \A i \in 1 .. Len(s) : s[i].seq <= b

\* For every block table: a node only offers packets it has itself.
Offers ==
    \A n \in Sender :
        UpTo(fwd[n], Got(n)) /\ UpTo(mPacket[n], Got(n)) /\ UpTo(dataPkts[n], Got(n))

\* For the table that is compiled, in which every hop is a block.
HopByHop == \A n \in Sender : Bd[n] = n + 1

\* Packets that node n sends or keeps are of its own block.
OwnBlock(n, s) == \A i \in 1 .. Len(s) : s[i].bs = n /\ s[i].bd = n + 1

\* One packet outstanding per hop: nothing newer is in flight, the next node is
\* at most one packet behind, the queue continues where the outstanding packet
\* ends, and there is at most one ACK, for the outstanding packet.
InFlightOK(n) == OwnBlock(n, fwd[n]) /\ UpTo(fwd[n], Cur(n))
OutstandingOK(n) ==
    /\ OwnBlock(n, mPacket[n])
    /\ Len(mPacket[n]) <= 1
    /\ prevSeq[n + 1] \in {Cur(n) - 1, Cur(n)}
    /\ prevSeq[n + 1] = Cur(n) \/ ackTimer[n]
    /\ ackTimer[n] => mPacket[n] # <<>>
QueueOK(n) ==
    /\ OwnBlock(n, dataPkts[n])
    /\ Len(dataPkts[n]) = Got(n) - Cur(n)
    /\ \A i \in 1 .. Len(dataPkts[n]) : dataPkts[n][i].seq = Cur(n) + i
    /\ dataPkts[n] # <<>> => ackTimer[n]
AckOK(n) ==
    \/ back[n] = <<>>
    \/ back[n] = <<n>> /\ ackTimer[n] /\ prevSeq[n + 1] = Cur(n)
FlagOK(n) ==
    IF n = 1 THEN seqno = 1 => ~ ackTimer[1]
             ELSE queueEmpty[n] = 0 <=> ~ ackTimer[n]

HopOK(n) == InFlightOK(n) /\ OutstandingOK(n) /\ QueueOK(n) /\ AckOK(n) /\ FlagOK(n)

\* Every hop of the chain runs stop-and-wait, and no timer was rescheduled.
StopAndWait == ~ fatal /\ \A n \in Sender : HopOK(n)
=============================================================================
