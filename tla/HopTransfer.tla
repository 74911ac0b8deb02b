---------------------------- MODULE HopTransfer ----------------------------
(***************************************************************************)
(* The hop-by-hop chunk transfer of MobilityFirst: HOPProtocol             *)
(* (hop_protocol.cc) driven by RecvMF cases 7, 8 and 9, SendData,          *)
(* ReSendCSYN and ReSendData of RoutingProtocol (mobilityfirst.cc).        *)
(*                                                                         *)
(* One flow runs along the chain of nodes 1..N: node 1 is the source, node *)
(* N the destination, the others relays.  A chunk of P packets crosses a   *)
(* hop as CSYNC -> ACK with the receiver's bitmap -> the missing packets   *)
(* and a CSYNC -> ACK ... until the bitmap is full.  Links are FIFO and    *)
(* lossy.  The simulator runs one event at a time, so each handler is one  *)
(* action.                                                                 *)
(***************************************************************************)
EXTENDS Integers, Sequences, FiniteSets, Functions

CONSTANTS
    N,          \* length of the chain
    C,          \* bound: chunks the source creates
    P,          \* CHK_PKT_COUNT
    MaxLosses,  \* bound: messages the links lose
    MaxEarly    \* bound: CSYNC timeouts that beat an answer still in flight

ASSUME ConstAssumption ==
    /\ N \in Nat /\ N >= 2
    /\ C \in Nat \ {0}
    /\ P \in Nat \ {0}
    /\ MaxLosses \in Nat
    /\ MaxEarly \in Nat

Sender   == 1 .. N - 1
Relay    == 2 .. N - 1
Receiver == 2 .. N
Chunk    == 1 .. C
Pkt      == 1 .. P

VARIABLES
    chkID,     \* the source's chunk counter
    data,      \* data[n][c]: data_pkts of chunk c in n's m_dataSet, in push order
    bitmap,    \* bitmap[n][c]: the '1' positions; {} when n has no tuple for c
    pktCount,  \* chunks with a tuple in m_PktCountSet (packet_count is always P)
    resume,    \* live entries of the vector resume
    csync,     \* csync_set: chunk of each CSYNC, armed while its event id is pending
    stray,     \* pending ReSendCSYN events that are no entry's id
    saved,     \* data_saved_set: packets stored, armed while their event id is pending
    dstray,    \* pending ReSendData events that are no entry's id
    pktArray,  \* the destination's pkt_array: the chunk each slot was last set from
    toFile,    \* history of the destination's ToFile calls; its length is total_chunck
    fwd,       \* fwd[n]: messages from n to n + 1
    back,      \* back[n]: CSYNC ACKs from n + 1 to n
    losses, early

net   == <<fwd, back>>
hop   == <<chkID, data, bitmap, pktCount, resume, pktArray, toFile>>
timer == <<csync, stray, saved, dstray>>
vars  == <<hop, timer, net, losses, early>>

CSYNC(c)   == [type |-> "CSYNC", chk |-> c, pkt |-> 0]
DATA(c, p) == [type |-> "DATA", chk |-> c, pkt |-> p]
ACK(c, b)  == [chk |-> c, bits |-> b]

Msg    == {CSYNC(c) : c \in Chunk} \cup {DATA(c, p) : c \in Chunk, p \in Pkt}
AckMsg == [chk : Chunk, bits : SUBSET Pkt]

CsyncEntry == [chk : Chunk, armed : BOOLEAN]
SavedEntry == [pkts : Seq(Msg) \ {<<>>}, armed : BOOLEAN]
Written    == [chk : Chunk, whole : BOOLEAN]

\* The packets of a chunk as the source builds them, in order.
Whole == [p \in Pkt |-> p]

Init ==
    /\ chkID = 0
    /\ data = [n \in Sender |-> [c \in Chunk |-> <<>>]]
    /\ bitmap = [n \in Receiver |-> [c \in Chunk |-> {}]]
    /\ pktCount = [n \in 1 .. N |-> {}]
    /\ resume = [n \in Sender |-> 0]
    /\ csync = [n \in Sender |-> <<>>]
    /\ stray = [n \in Sender |-> 0]
    /\ saved = [n \in Sender |-> <<>>]
    /\ dstray = [n \in Sender |-> 0]
    /\ pktArray = [p \in Pkt |-> 0]
    /\ toFile = <<>>
    /\ fwd = [n \in Sender |-> <<>>]
    /\ back = [n \in Sender |-> <<>>]
    /\ losses = 0 /\ early = 0

-----------------------------------------------------------------------------
(* The source.                                                             *)

\* csync_set.push_back with a ReSendCSYN event scheduled for the entry.
Armed(c) == [chk |-> c, armed |-> TRUE]

\* FromFile returns a CSYNC for chunk 1, or for a later chunk when the flow is
\* waiting in resume; otherwise the chunk is only stored.
M_FromFileStartsAlways(c) == TRUE
FromFileStarts(c) == c = 1 \/ resume[1] > 0

SendData(route) ==
    LET c == chkID + 1 IN
    /\ chkID < C
    /\ chkID' = c
    /\ data' = [data EXCEPT ![1][c] = Whole]
    /\ pktCount' = [pktCount EXCEPT ![1] = @ \cup {c}]
    /\ IF FromFileStarts(c)
       THEN /\ resume' = IF c = 1 THEN resume ELSE [resume EXCEPT ![1] = @ - 1]
            /\ csync' = [csync EXCEPT ![1] = Append(@, Armed(c))]
            /\ fwd' = IF route THEN [fwd EXCEPT ![1] = Append(@, CSYNC(c))] ELSE fwd
       ELSE UNCHANGED <<resume, csync, fwd>>
    /\ UNCHANGED <<bitmap, pktArray, toFile, stray, saved, dstray, back, losses, early>>

-----------------------------------------------------------------------------
(* The receiving side of a hop.                                            *)

\* Case 9: RcvdDataPkt sets the bit; the destination overwrites pkt_array, a
\* relay appends the packet to its vector whether or not it is there already.
RecvDATA(n) ==
    /\ fwd[n - 1] # <<>>
    /\ LET m == Head(fwd[n - 1]) IN
       /\ m.type = "DATA"
       /\ bitmap' = [bitmap EXCEPT ![n][m.chk] = @ \cup {m.pkt}]
       /\ IF n = N
          THEN pktArray' = [pktArray EXCEPT ![m.pkt] = m.chk] /\ UNCHANGED data
          ELSE data' = [data EXCEPT ![n][m.chk] = Append(@, m.pkt)] /\ UNCHANGED pktArray
    /\ fwd' = [fwd EXCEPT ![n - 1] = Tail(@)]
    /\ UNCHANGED <<chkID, pktCount, resume, toFile, timer, back, losses, early>>

\* SendCSYNCACK: record the packet count and answer with the bitmap.
SendCSYNCACK(n, c) ==
    /\ pktCount' = [pktCount EXCEPT ![n] = @ \cup {c}]
    /\ back' = [back EXCEPT ![n - 1] = Append(@, ACK(c, bitmap[n][c]))]

\* The file_flag check of SendCSYNCACK: the bitmap of the chunk has no '0'.
AllReceived(n, c) == bitmap[n][c] = Pkt

\* A relay that holds the whole chunk passes it on: always for chunk 1, and for
\* a later chunk when the flow is waiting in resume.
M_RelayStartsWithoutResume(n, c) == n # N /\ AllReceived(n, c)
M_RelayStartsFirstOnly(n, c) == n # N /\ AllReceived(n, c) /\ c = 1
RelayStarts(n, c) == n # N /\ AllReceived(n, c) /\ (c = 1 \/ resume[n] > 0)

\* Case 7 at the destination of a complete chunk: total_chunck++ and ToFile.
M_CSYNCFileUnchecked(n, c) ==
    /\ n = N
    /\ toFile' = Append(toFile, [chk |-> c, whole |-> pktArray = [p \in Pkt |-> c]])
    /\ fwd' = [fwd EXCEPT ![n - 1] = Tail(@)]
    /\ UNCHANGED <<resume, csync>>
M_CSYNCFileAnyChunk(n, c) ==
    /\ n = N /\ \E d \in Chunk : AllReceived(n, d)
    /\ toFile' = Append(toFile, [chk |-> c, whole |-> pktArray = [p \in Pkt |-> c]])
    /\ fwd' = [fwd EXCEPT ![n - 1] = Tail(@)]
    /\ UNCHANGED <<resume, csync>>
CSYNCFile(n, c) ==
    /\ n = N /\ AllReceived(n, c)
    /\ toFile' = Append(toFile, [chk |-> c, whole |-> pktArray = [p \in Pkt |-> c]])
    /\ fwd' = [fwd EXCEPT ![n - 1] = Tail(@)]
    /\ UNCHANGED <<resume, csync>>

\* Case 7 at a relay that starts the next hop: the CSYNC is sent if there is a
\* route, and its retry is scheduled either way.
CSYNCRelay(n, c, route) ==
    /\ RelayStarts(n, c)
    /\ resume' = IF c = 1 THEN resume ELSE [resume EXCEPT ![n] = @ - 1]
    /\ csync' = [csync EXCEPT ![n] = Append(@, Armed(c))]
    /\ fwd' = [fwd EXCEPT ![n - 1] = Tail(@),
                          ![n] = IF route THEN Append(@, CSYNC(c)) ELSE @]
    /\ UNCHANGED toFile

\* Case 7 otherwise: only the ACK.
CSYNCAnswer(n, c) ==
    /\ ~ RelayStarts(n, c)
    /\ ~ (n = N /\ AllReceived(n, c))
    /\ fwd' = [fwd EXCEPT ![n - 1] = Tail(@)]
    /\ UNCHANGED <<resume, csync, toFile>>

RecvCSYNC(n, route) ==
    /\ fwd[n - 1] # <<>>
    /\ LET m == Head(fwd[n - 1]) IN
       /\ m.type = "CSYNC"
       /\ SendCSYNCACK(n, m.chk)
       /\ \/ CSYNCFile(n, m.chk)
          \/ CSYNCRelay(n, m.chk, route)
          \/ CSYNCAnswer(n, m.chk)
    /\ UNCHANGED <<chkID, data, bitmap, pktArray, stray, saved, dstray, losses, early>>

-----------------------------------------------------------------------------
(* The sending side of a hop.                                              *)

\* The elements of a set of positions in increasing order, as the loop over i
\* visits them (a set with one element).
Ascending(S) ==
    {s \in UNION {[1 .. k -> S] : k \in 0 .. P} :
        /\ Range(s) = S
        /\ \A i, j \in DOMAIN s : i < j => s[i] < s[j]}

\* ProcessCSYNCACK when a bit is '0': data_pkt_vector[i] for every missing i,
\* by position in the vector, then the CSYNC of the same chunk.
Resend(n, c, order) ==
    Append([k \in 1 .. Len(order) |-> DATA(c, data[n][c][order[k]])], CSYNC(c))

\* ProcessCSYNCACK when every bit is '1': the CSYNC of the next chunk, if its
\* count is known and the vector has exactly that size.
M_NextReadyCountOnly(n, c) == c + 1 \in pktCount[n]
NextReady(n, c) == c + 1 \in pktCount[n] /\ Len(data[n][c + 1]) = P

NextChunk(n, c) == IF NextReady(n, c) THEN <<CSYNC(c + 1)>> ELSE <<>>

\* The first entry of the source leaves csync_set and its event is cancelled,
\* whichever chunk it is for.
EraseFirst(s) == IF s = <<>> THEN s ELSE Tail(s)

\* Case 8 with the burst pkts that ProcessCSYNCACK returned: forwarded and the
\* closing CSYNC retried, or stored while the forward flag is 0, or, when there
\* is nothing to send, the flow waits in resume.
ForwardBurst(n, pkts, c) ==
    /\ fwd' = [fwd EXCEPT ![n] = @ \o pkts]
    /\ csync' = [csync EXCEPT ![n] = Append(EraseFirst(@), Armed(c))]
    /\ UNCHANGED <<saved, resume>>

StoreBurst(n, pkts) ==
    /\ saved' = [saved EXCEPT ![n] = Append(@, [pkts |-> pkts, armed |-> TRUE])]
    /\ csync' = [csync EXCEPT ![n] = EraseFirst(@)]
    /\ UNCHANGED <<fwd, resume>>

WaitInResume(n) ==
    /\ resume' = [resume EXCEPT ![n] = @ + 1]
    /\ csync' = [csync EXCEPT ![n] = EraseFirst(@)]
    /\ UNCHANGED <<fwd, saved>>

RecvCSYNCACK(n, forward) ==
    /\ back[n] # <<>>
    /\ LET m == Head(back[n])
           missing == Pkt \ m.bits
       IN  \/ /\ missing # {}
              /\ \E order \in Ascending(missing) :
                    LET pkts == Resend(n, m.chk, order) IN
                    IF forward THEN ForwardBurst(n, pkts, m.chk)
                               ELSE StoreBurst(n, pkts)
           \/ /\ missing = {}
              /\ LET pkts == NextChunk(n, m.chk) IN
                 IF pkts = <<>> THEN WaitInResume(n)
                 ELSE IF forward THEN ForwardBurst(n, pkts, m.chk + 1)
                                 ELSE StoreBurst(n, pkts)
    /\ back' = [back EXCEPT ![n] = Tail(@)]
    /\ UNCHANGED <<chkID, data, bitmap, pktCount, pktArray, toFile, stray, dstray,
                   losses, early>>

-----------------------------------------------------------------------------
(* Timers.  An entry's id event is due 1 us after its expiration time, so   *)
(* the entry has expired exactly when that event is no longer pending: the *)
(* field armed stands for the comparison of times in ReSendCSYN.           *)

Quiet(n) == fwd[n] = <<>> /\ back[n] = <<>>

\* One pending event of node n fires: entry k's id, or for k = 0 a stray one.
Pending(s, strays, k) == IF k = 0 THEN strays > 0 ELSE s[k].armed
Fired(s, k) == IF k = 0 THEN s ELSE [s EXCEPT ![k].armed = FALSE]
StrayAfter(strays, k) == IF k = 0 THEN strays - 1 ELSE strays

\* The first entry has not expired: it gets a new event at its expiration time,
\* and the event it had is forgotten but stays pending.
M_PostponeDropsEvent(n, s, st) ==
    /\ s # <<>> /\ s[1].armed
    /\ stray' = [stray EXCEPT ![n] = st]
    /\ csync' = [csync EXCEPT ![n] = s]
    /\ UNCHANGED fwd
Postpone(n, s, st) ==
    /\ s # <<>> /\ s[1].armed
    /\ stray' = [stray EXCEPT ![n] = st + 1]
    /\ csync' = [csync EXCEPT ![n] = s]
    /\ UNCHANGED fwd

\* ReSendCSYN always works on the FIRST entry of the source, whichever entry the
\* event was scheduled for: an expired one is sent again if there is a route.
ReSendCSYN(n, k, route) ==
    /\ Pending(csync[n], stray[n], k)
    /\ Quiet(n) \/ early < MaxEarly
    /\ early' = IF Quiet(n) THEN early ELSE early + 1
    /\ LET s == Fired(csync[n], k)
           st == StrayAfter(stray[n], k)
       IN  \/ /\ s = <<>>
              /\ stray' = [stray EXCEPT ![n] = st]
              /\ UNCHANGED <<csync, fwd>>
           \/ Postpone(n, s, st)
           \/ /\ s # <<>> /\ ~ s[1].armed
              /\ stray' = [stray EXCEPT ![n] = st]
              /\ csync' = [csync EXCEPT ![n] = [s EXCEPT ![1].armed = TRUE]]
              /\ fwd' = IF route THEN [fwd EXCEPT ![n] = Append(@, CSYNC(s[1].chk))] ELSE fwd
    /\ UNCHANGED <<hop, saved, dstray, back, losses>>

\* ReSendData, first entry of the source, forward flag and route both good: the
\* stored burst is sent, its CSYNC gets a retry, the entry's own event is
\* cancelled and the entry erased.
SendSaved(n, k) ==
    LET e == saved[n][1] IN
    /\ saved' = [saved EXCEPT ![n] = Tail(Fired(@, k))]
    /\ dstray' = [dstray EXCEPT ![n] = StrayAfter(@, k)]
    /\ fwd' = [fwd EXCEPT ![n] = @ \o e.pkts]
    /\ csync' = [csync EXCEPT ![n] = Append(@, Armed(e.pkts[Len(e.pkts)].chk))]

\* ReSendData otherwise: a new event for the first entry; the one it had, if
\* still pending, is forgotten.
M_KeepSavedOnce(n, k) ==
    /\ saved' = [saved EXCEPT ![n] = Fired(@, k)]
    /\ dstray' = [dstray EXCEPT ![n] = StrayAfter(@, k)]
    /\ UNCHANGED <<fwd, csync>>
KeepSaved(n, k) ==
    LET s == Fired(saved[n], k)
        st == StrayAfter(dstray[n], k)
    IN  /\ saved' = [saved EXCEPT ![n] = [s EXCEPT ![1].armed = TRUE]]
        /\ dstray' = [dstray EXCEPT ![n] = IF s[1].armed THEN st + 1 ELSE st]
        /\ UNCHANGED <<fwd, csync>>

ReSendData(n, k, good) ==
    /\ Pending(saved[n], dstray[n], k)
    /\ \/ /\ saved[n] = <<>>
          /\ dstray' = [dstray EXCEPT ![n] = @ - 1]
          /\ UNCHANGED <<saved, fwd, csync>>
       \/ saved[n] # <<>> /\ good /\ SendSaved(n, k)
       \/ saved[n] # <<>> /\ ~ good /\ KeepSaved(n, k)
    /\ UNCHANGED <<hop, stray, back, losses, early>>

-----------------------------------------------------------------------------
(* The network.                                                            *)

LoseFwd(n) ==
    /\ fwd[n] # <<>> /\ losses < MaxLosses
    /\ losses' = losses + 1
    /\ fwd' = [fwd EXCEPT ![n] = Tail(@)]
    /\ UNCHANGED <<hop, timer, back, early>>

LoseBack(n) ==
    /\ back[n] # <<>> /\ losses < MaxLosses
    /\ losses' = losses + 1
    /\ back' = [back EXCEPT ![n] = Tail(@)]
    /\ UNCHANGED <<hop, timer, fwd, early>>

-----------------------------------------------------------------------------
Next ==
    \/ \E route \in BOOLEAN : SendData(route)
    \/ \E n \in Receiver : RecvDATA(n)
    \/ \E n \in Receiver, route \in BOOLEAN : RecvCSYNC(n, route)
    \/ \E n \in Sender, forward \in BOOLEAN : RecvCSYNCACK(n, forward)
    \/ \E n \in Sender, route \in BOOLEAN :
          \E k \in 0 .. Len(csync[n]) : ReSendCSYN(n, k, route)
    \/ \E n \in Sender, good \in BOOLEAN :
          \E k \in 0 .. Len(saved[n]) : ReSendData(n, k, good)
    \/ \E n \in Sender : LoseFwd(n) \/ LoseBack(n)

Spec == Init /\ [][Next]_vars

\* Messages that are not lost arrive, timers fire, SendData runs again every
\* throughput interval, and a retry sooner or later finds a route.
Fairness ==
    /\ WF_vars(\E route \in BOOLEAN : SendData(route))
    /\ \A n \in Receiver :
          /\ WF_vars(RecvDATA(n))
          /\ WF_vars(\E route \in BOOLEAN : RecvCSYNC(n, route))
    /\ \A n \in Sender :
          /\ WF_vars(\E forward \in BOOLEAN : RecvCSYNCACK(n, forward))
          /\ WF_vars(\E k \in 0 .. Len(csync[n]) : ReSendCSYN(n, k, TRUE))
          /\ WF_vars(\E k \in 0 .. Len(saved[n]) : ReSendData(n, k, TRUE))

FairSpec == Spec /\ Fairness

-----------------------------------------------------------------------------
(* Properties.                                                             *)

\* Every variable has its type; in particular resume, a count of vector
\* entries, never goes below zero, and no stored burst is empty.
TypeOK ==
    /\ chkID \in 0 .. C
    /\ data \in [Sender -> [Chunk -> Seq(Pkt)]]
    /\ bitmap \in [Receiver -> [Chunk -> SUBSET Pkt]]
    /\ pktCount \in [1 .. N -> SUBSET Chunk]
    /\ resume \in [Sender -> Nat]
    /\ csync \in [Sender -> Seq(CsyncEntry)]
    /\ stray \in [Sender -> Nat]
    /\ saved \in [Sender -> Seq(SavedEntry)]
    /\ dstray \in [Sender -> Nat]
    /\ pktArray \in [Pkt -> 0 .. C]
    /\ toFile \in Seq(Written)
    /\ fwd \in [Sender -> Seq(Msg)]
    /\ back \in [Sender -> Seq(AckMsg)]
    /\ losses \in 0 .. MaxLosses /\ early \in 0 .. MaxEarly

\* ProcessCSYNCACK reads data_pkt_vector[i] for every '0' bit without a bounds
\* check (hop_protocol.cc:624).  Whenever an ACK that reports packet i missing
\* is on its way to node n, n's vector for that chunk reaches position i.
InBounds ==
    \A n \in Sender : \A m \in Range(back[n]) :
        \A i \in Pkt \ m.bits : i <= Len(data[n][m.chk])

\* A burst is stored and some ReSendData event that will send it is pending.
StoredAndRetried(n) ==
    /\ saved[n] # <<>>
    /\ dstray[n] > 0 \/ \E i \in 1 .. Len(saved[n]) : saved[n][i].armed

\* The hop's baton: a CSYNC to retry, a stored burst with an event, or a place in resume.
Baton(n) == csync[n] # <<>> \/ StoredAndRetried(n) \/ resume[n] > 0

\* A hop that has been started never forgets its flow: case 8 erases the first
\* csync_set entry whichever chunk it belongs to, and must replace it, and when two
\* bursts are stored ReSendData sends the first whichever event fired and cancels
\* that one's own (mobilityfirst.cc:1159), which may leave the other without any; by
\* then a CSYNC must be there to retry.  The source has a baton from its first
\* chunk on, a relay from its first CSYNC.
Custody ==
    /\ chkID > 0 => Baton(1)
    /\ \A n \in Sender :
          (pktCount[n + 1] # {} \/ fwd[n] # <<>> \/ back[n] # <<>>) => Baton(n)

\* Entries of a csync_set whose own event has fired or was taken over.
Unarmed(s) == {i \in DOMAIN s : ~ s[i].armed}

\* No CSYNC retry is orphaned: ReSendCSYN overwrites the id of the first entry
\* and case 8 cancels ids, but for every entry of csync_set that lost its own
\* event there is another ReSendCSYN event pending.
RetryPending ==
    \A n \in Sender : Cardinality(Unarmed(csync[n])) <= stray[n]

\* End to end: when the destination writes chunk c, the source created it and
\* every relay on the way holds all of its packets.
WrittenWasCarried ==
    \A w \in Range(toFile) :
        /\ w.chk <= chkID
        /\ \A n \in Receiver : bitmap[n][w.chk] = Pkt

\* Nothing of chunk c travels on a hop before the next node holds all of
\* chunk c - 1.  (Holds while no timeout beats an answer and only messages of
\* the source are lost.)
OneChunkAtATime ==
    \A n \in Sender : \A m \in Range(fwd[n]) :
        m.chk > 1 => bitmap[n + 1][m.chk - 1] = Pkt

\* ToFile(c) runs while pkt_array, which all chunks share, holds chunk c and nothing
\* of another chunk, and chunks are written in order: when a late CSYNC finds a place
\* in resume, a relay starts a chunk twice and total_chunck counts it again, but
\* never after a later chunk.  (Holds while no timeout beats an answer and only messages
\* of the source are lost.)
WrittenWholeInOrder ==
    \A i \in DOMAIN toFile :
        /\ toFile[i].whole
        /\ \A j \in 1 .. i : toFile[j].chk <= toFile[i].chk

\* No vector of packets gets longer than its chunk, which would keep NextReady
\* false for good.  (Holds while no timeout beats an answer and only messages of the
\* source are lost.)
NoneTwice == \A n \in Relay, c \in Chunk : Len(data[n][c]) <= P

\* Every chunk that the source creates is written in the end, although a burst
\* may be stored many times and a CSYNC retried without a route.
AllWritten == <>(\A c \in Chunk : \E w \in Range(toFile) : w.chk = c)

-----------------------------------------------------------------------------
(* The inductive invariant behind InBounds, WrittenWasCarried and the      *)
(* refinement: what each node's vectors hold, and what the messages in     *)
(* flight, stored or waiting for a retry say about the node that sent them.*)

Held(n, c) == Range(data[n][c])

\* The vector of chunk c is long enough to be indexed at every position.
Startable(n, c) == P <= Len(data[n][c])

MsgOK(n, m) == IF m.type = "CSYNC" THEN Startable(n, m.chk) ELSE m.pkt \in Held(n, m.chk)
Closing(e) == e.pkts[Len(e.pkts)].chk

SourceOK == \A c \in Chunk : data[1][c] = IF c <= chkID THEN Whole ELSE <<>>
RelayOK  == \A n \in Relay, c \in Chunk : Held(n, c) = bitmap[n][c]
NestedOK == \A m, n \in Receiver, c \in Chunk : m <= n => bitmap[n][c] \subseteq bitmap[m][c]
FirstOK  == \A c \in Chunk : bitmap[2][c] \subseteq Held(1, c)
FwdOK    == \A n \in Sender : \A m \in Range(fwd[n]) : MsgOK(n, m)
SavedOK  == \A n \in Sender : \A e \in Range(saved[n]) :
                /\ \A m \in Range(e.pkts) : MsgOK(n, m)
                /\ Startable(n, Closing(e))
CsyncOK  == \A n \in Sender : \A e \in Range(csync[n]) : Startable(n, e.chk)
AckOK    == \A n \in Sender : \A m \in Range(back[n]) : Startable(n, m.chk)
WriteOK  == \A w \in Range(toFile) : bitmap[N][w.chk] = Pkt

\* The inductive invariant: types, the nesting of what the nodes hold, and what
\* every message, entry and ACK promises about the node that sent it.
IInv ==
    /\ TypeOK
    /\ SourceOK /\ RelayOK /\ NestedOK /\ FirstOK
    /\ FwdOK /\ SavedOK /\ CsyncOK /\ AckOK
    /\ WriteOK
=============================================================================
