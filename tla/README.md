# MobilityFirst in TLA+

TLA+ models, TLC instances and TLAPS proofs for the code that this repository
adds to the ns-3.11 simulator: the MobilityFirst routing protocol
(`ns-3.11/src/mobilityfirst`) and the bypass protocol (`ns-3.11/src/bypass`).
Everything else in the repository is ns-3 itself and its tools, which are not
modelled. Paths below are relative to `src/ns-3.11/src/`.

## 1. The system

All of it runs inside a discrete-event simulator. One event runs at a time and
to its end, so there are no data races. What makes the code hard is that a
handler on one node runs between any two handlers on another: messages are
lost, timers fire before or after the answer they wait for, and the containers
(`csync_set`, `data_saved_set`, `lsa_set`, the neighbor and LSA tables) are
changed by several handlers that find entries by partial keys.

| part | state | operations | talks to |
|---|---|---|---|
| hop-by-hop transfer (`hop_protocol.cc`, `mobilityfirst.cc`) | `m_dataSet`, `m_PktCountSet`, bitmaps, `resume`, `pkt_array`, `csync_set`, `data_saved_set` | `FromFile`/`SendData`, `RcvdDataPkt`, `SendCSYNCACK`, `ProcessCSYNCACK`, `ReSendCSYN`, `ReSendData` | asks GSTAR for interfaces and the forward flag; CSYNC, ACK and data messages to the next node |
| GSTAR probing (`gstar_protocol.cc`, `gstar_state.cc`) | neighbor table: `SETT_array`, `SETT_avg`, `LETT`, expiry | `SendLP`, `ProcessLP`, `InsertNeighborTuple`, `NeighborTupleTimerExpire` | broadcasts probes; feeds the LSAs and the forward table |
| GSTAR flooding | LSA table, `LSASequenceNumber`, `lsa_set` | `LSATimerExpire`, `RecvMF` cases 3 and 10, `InsertLSATuple`, `ReSendLSA` | LSA and LSA ACK messages to the neighbors |
| GSTAR forwarding (`gstar_state.cc`) | forward table | `forward_table_computation`, `forward_flag` | called by the inserts; read by the transfer |
| flow selection (`mobilityfirst.cc`) | selected pair, `senders`, throughput timer | `selectNodes`, `SendData` | starts the transfer |
| bypass (`bypass.cc`) | `m_prevSeq`, `data_pkts`, `m_packet`, `queue_empty`, two timers | `PacketTimerExpire`, `RecvMF`, `ACKTimerExpire` | data and ACK packets along a chain of blocks |
| GSTAR disconnected operation (DTN) | probability table, DLSA table, `DLSASequenceNumber`, DTN forward table | `UpdateTimerExpire`, `DLSATimerExpire`, `RecvMF` cases 4, 5 and 6, `ProcessSummaryVectorACK` | summary vectors, their ACKs and DLSAs to the neighbors |
| message header (`mf_header.cc`) | | `Serialize`, `Deserialize`, `GetSerializedSize` for ten message types | every message goes through it |
| applications, helpers, old `gstar` copy | | | see section 7 |

What makes each part correct:

* transfer: a chunk is handed on only by a node that holds it, a hop that was
  started goes on, a lost message is repaired, the destination writes every
  chunk, completely;
* probing: the averages are those of measured values, and a link that does not
  get worse is used;
* flooding: everybody gets the newest LSA of everybody, unchanged, and the
  traffic ends;
* disconnected operation: neighbors that meet end with the same DLSAs, unchanged,
  ask only for what the other has, and stop talking;
* header: what is read is what was written;
* forwarding: shortest paths that exist, and a loop that ends inside its arrays;
* flow selection: a source is left for each flow, no node starts twice, and a source
  sends its own chunks;
* bypass: packets in sequence, none forgotten, no timer started twice.

The hazards, each at its line, are listed in `PROJECT.json`.

## 2. The modules

| module | models |
|---|---|
| `HopTransfer` | the transfer of the chunks of one flow along a chain `1..N` |
| `ChunkRelay` | what the transfer promises, without messages, timers and buffers |
| `HopRefinement` | the refinement mapping from the one to the other |
| `HopTransferProofs` | theorems about `HopTransfer` |
| `Bypass` | the bypass relay along a chain, for any block table `Bd` |
| `OrderedPipe`, `BypassRefinement` | its promise about order, and the mapping |
| `BypassProofs` | theorems about `Bypass` |
| `ForwardTable` | the forward search, one step per turn of the loop |
| `ForwardTableProofs` | theorems about it |
| `LsaFlood` | probes, LSA flooding, retries and forward tables of a network |
| `MfHeader` | the wire format of every message type |
| `MfHeaderProofs` | theorems about it |
| `LsaWire` | the messages of `LsaFlood` in the formats of `MfHeader`, and the fall-through of case 9 of `RecvMF` |
| `LsaFloodProofs` | theorems about `LsaFlood` and `LsaWire` |
| `Dtn` | summary vectors, DLSAs and DTN tables of a network, sent through `MfHeader` |
| `DtnProofs` | theorems about it |
| `LinkQuality` | the measurements of one link, and `forward_flag` on it |
| `LinkQualityProofs` | theorems about it |
| `FlowSelect` | selection of flows on every node, with the wall-clock seed |
| `FlowSelectProofs` | theorems about it |
| `MCHopTransfer`, `MCBypass`, `MCForwardTable`, `MCLsaFlood`, `MCDtn`, `MCFlowSelect` | instances for TLC, fault models and the properties that the code's comments state |

Operators that start with `M_` are deliberately wrong variants of the
definition below them, as a plausible bug would make them. Each shows that a
property notices that bug; none is part of a specification.

### HopTransfer

One action per handler: `SendData`, `RecvDATA` (case 9), `RecvCSYNC` (case 7),
`RecvCSYNCACK` (case 8), `ReSendCSYN` and `ReSendData`, each with all that the
handler does, the calls into `HOPProtocol` included, and the loss of a message.

* The vectors of packets are sequences of packet numbers in order of arrival,
  since `ProcessCSYNCACK` indexes them by packet number. A bitmap is a set.
  `packet_count` is always `CHK_PKT_COUNT`, so `m_PktCountSet` is a set of chunks.
* `pkt_array` keeps the chunk that each slot was last written from; `toFile`
  records the calls of `ToFile` and whether the array was unmixed then.
* `csync_set` and `data_saved_set` are sequences, because the handlers work on
  the first entry that matches, not on the one whose event fired. `armed` says
  that the event in `id` is pending; `stray` and `dstray` count pending events
  that no entry names any more. An entry's event is due 1 microsecond after its
  expiration time, so `armed` also says that it has not expired.
* Whether GSTAR has a route (`route`) and what `forward_flag` decides (`forward`)
  are arbitrary inputs of the actions.
* A timeout may fire when nothing of the exchange is on the link any more;
  a timeout that beats an answer is also allowed, `MaxEarly` times.
* Links are FIFO and lossy and do not duplicate: UDP over the simulated Wi-Fi
  between two nodes.

### Bypass

`PacketTimerExpire` (all `NUM_PACKET` packets, one sent and the rest queued),
`RecvData`/`DropData` and `RecvAck`/`RelayAck` (the branches of `RecvMF`), and
`ACKTimerExpire`. `Bd` is the table that `DoStart` writes by address: the one that
is compiled makes every hop a block; the one for `mixed-new.cc` in a comment next
to it has blocks over several links. `fatal` is the abort of `Timer::Schedule` on
a running timer (`core/model/timer.cc`).

### ForwardTable

The two tables are one matrix of weights. `Start` is the initialisation, `Turn`
one turn of the `while (1)` loop. Tentative and forward table are sets: their
order only decides ties, so `Turn` picks any least entry. The relaxations of one
turn concern different destinations and are done at once. `Ways` is the reference:
the least sums over at most `k` listed links, for growing `k` (Bellman-Ford).

### LsaFlood

Nodes with one interface, so a node is its address. `RecvLP` is the arrival of
a link probe from a node in range with `ProcessLP` and the table computation it
ends in; `NeighborTupleTimerExpire` leaves the forward table as it is, as the
code does (the call in `EraseNeighborTuple` is commented out). `RecvNewLSA` and
`RecvOldLSA` are case 3 of `RecvMF`, `RecvLSAACK` case 10. A forward table is the
set of its destinations, `Reach`: that `forward_table_computation` finds exactly
these is what `ForwardTable` shows. `adv` and `told` are history variables. The
initial state is the one after `DoStart`, which has sent an empty LSA to nobody.

### MfHeader and Dtn

A buffer is the sequence of the fields that were written, each with its width and
byte order (`WriteHtonU32`, `WriteU32`, `WriteHtonU64`, `WriteU8`); a field read in
another way is garbled. The vectors of LSAs, summary vectors and DLSAs are written
as long as they are and read as long as `length` says: `SendSummaryVector` appends
one number more than it counts, which the reader leaves in the buffer.
`LsaAckSrc` is what a handler finds in a structure that does not belong to the
type: case 9 of `RecvMF` falls through into case 10 and looks there. `LsaWire` puts
the messages of `LsaFlood` into these formats and asks what that look-up does to
the retries of an LSA.

`Dtn` sends these buffers. `RecvLP` is the probe of a new neighbor, which gets a
summary vector; `RecvSummaryVector`, `ProcessSummaryVectorACK` and `RecvDLSA` are
cases 4, 5 and 6; `UpdateTimerExpire` counts how long each neighbor has been seen,
`DLSATimerExpire` makes the next DLSA, enters it and announces it. In case 6
`dlsa_flag` is not initialized for a DLSA of the node itself, so it may then be
anything. Two calls that would start the timers of this mode are commented out in
`DoStart` (`mobilityfirst.cc:309-313`): at this commit only the exchange of empty
vectors with new neighbors is live. The handlers are compiled and dispatched, and
`Dtn` models them with the timers running. The DTN table is the set of its
destinations; `made` and `fresh` are history variables.

### LinkQuality

`SendLP` numbers the probes 0 to 9; the neighbor hears one (`InsertNeighborTuple`)
or not (`Miss`). Time is counted in probe intervals of 1 s, and a tuple expires
4 s after the last probe heard, so three probes may be missed (`Patience`).
`forward_flag` is the decision for the neighbor itself. It reads the forward table
(`entry`), not the tuple: a probe that is heard, or anything else that makes the
node compute the table (`OtherTupleInserted`), writes the two averages into it, while
the expiry of the tuple leaves the entry as it is (the call at `gstar_state.cc:31` is
commented out), so bursts may still go to a neighbor that is no longer known. The
link is taken to be the only way to the neighbor.

### FlowSelect

Every node runs `selectNodes` for itself. All nodes share one C generator that
`srand(time(NULL))` sets back at each selection, so a draw is a function of the
second and of the node's list of senders; `drawn` remembers the draws of this
second and `Tick` forgets them.

## 3. What TLC checks

| run | instance | shows |
|---|---|---|
| `hop_safety` | 3 nodes, 2 chunks of 2 packets; any 2 losses, or 1 early timeout | `TypeOK`, `InBounds`, `Custody`, `RetryPending`, `WrittenWasCarried`, `Implements` (the refinement of `ChunkRelay`) |
| `hop_live` | 4 nodes, 3 chunks of 2 packets; 2 losses of messages of the source | `OneChunkAtATime`, `WrittenWholeInOrder`, `NoneTwice`, and, with fairness, `AllWritten` |
| `bypass_block` | 5 nodes, blocks of 1, 2 and 1 links, 3 packets; 2 data losses on any links, 1 ACK loss, 2 early timeouts | `NoFatal`, `AckIsForCurrent`, `NothingForgotten`, `InSequence` (the refinement of `OrderedPipe`), and, with fairness, `AllDelivered` |
| `forward_table` | every pair of tables over 4 nodes with SETTs 1 and 3 | `OneEntryEach`, `PathsAreReal`, `NoShortcut`, `AllReached`, `IsShortest` against a Bellman-Ford reference, `LoopEnds` |
| `lsa_flood` | 3 nodes in a line, 2 LSAs of the middle one; 2 of a loss, an early retry and an expiry | `Authentic`, `ReliableFlood`, `RouteCurrent` |
| `lsa_live` | 3 nodes in a line, an LSA of each end; 1 loss, early retry or expiry | `WireFormats`, `DataLeavesRetries`, and, with fairness, `Converges` and `FloodEnds` |
| `link_quality` | window 5, SETTs 1, 2 and 5, patience 2 | `EstimatesInRange`, `SlotsOfProbes`, `SteadyForwards` |
| `dtn` | 3 nodes in a line, 2 DLSAs of an end, or 1 of it and 1 of the middle; 1 loss, or a neighbor that goes and comes back | `Authentic`, `Acceptable`, `RoutesCurrent`, `Repaired`, and, with fairness of reception, `ExchangeEnds` |
| `flow_select` | 3 nodes, 3 flows, 1 change of the second, nodes symmetric | `NoFatal`, `SelectionEnds` |

Three runs show where the code does not do what one of its comments says:

* `hop_resend` (`MissingIsResent`): after a loss at a relay, `data_pkt_vector[i]` is
  not packet `i` (`hop_protocol.cc:624`), and the wrong packet is sent again.
* `bypass_ack_lost` (`BlockDestinationAcks`): after a lost ACK the retransmissions
  are dropped as out of sequence and never acknowledged (`bypass.cc:509`).
* `flow_source` (`OwnSource`): `SendData` reads the selected pair that `selectNodes`
  has meanwhile overwritten for the next flow, so a source continues with
  chunks in another node's name (`mobilityfirst.cc:1006`).

Further deviations met while modelling, for which no run is kept: after one
lost ACK on a chain with a relay, the same CSYNC takes a place in `resume` twice, and
`OneChunkAtATime`, `WrittenWholeInOrder` and `AllWritten` fail (hence the fault model
of `hop_live`); a packet received twice makes the vector of a relay longer
than the packet count, so `ProcessCSYNCACK` does not send a next chunk that is
complete (`hop_protocol.cc:650`); with an early timeout two bursts of a flow may be
stored, and then the event of the second sends the first, cancels that one's event
and leaves the second without any (`mobilityfirst.cc:1159`): that burst is never sent
again, and `Custody` states what remains true, that the hop still has a CSYNC, a
stored burst with an event or a place in `resume`; a packet that is lost on a later link
of a block is never repaired, because the node in between keeps `m_prevSeq` and drops
every retransmission (`bypass.cc:509`), which is why `AllDelivered` has an alternative;
nodes that select in different seconds draw different sources, so that a flow may have
two sources or none (`mobilityfirst.cc:198`); without any fault, a CSYNC that arrives after its chunk
was passed on finds a place in `resume`, the chunk is started again and
`total_chunck` counts it twice (`hop_protocol.cc:536`; `WrittenWholeInOrder` is what
remains true); the comparison of costs in `dtn_forward_table_computation` keeps an
entry that is worse (`gstar_state.cc:727`); `InsertNeighborTuple` does not empty the slots
of missed probes when the number has wrapped (`gstar_state.cc:53`); the branch of
`forward_flag` for a good next hop is commented out (`gstar_state.cc:492`).

### The bounds

* Chains. Two hops are the least with a relay, where a node is a receiver and a
  sender of the same chunk; three have two relays next to each other. Two
  packets are the least for which position and number in a vector can differ,
  two chunks the least for a next chunk, three for a chunk that overtakes.
* Losses and early timeouts. Two losses allow a second one while the first is
  being repaired. `MaxEarly` counts timeouts that beat an answer; one already
  makes two exchanges of a hop run at once. The two kinds of fault are not
  combined in `hop_safety` (`OneKindOfFault`), since the vectors of the relays grow
  with every copy; the proofs of section 5 have no such bound.
* `ForwardTable`: four nodes allow ties, detours that are shorter than links,
  nodes that are not reachable and LSAs that contradict each other. The LSAs
  may disagree about any link except those of the node itself.
* `LsaFlood`: a line makes the ends depend on the relay in the middle, and every
  LSA also comes back. Two LSAs of one node are the least that can be confused.
* `Dtn`: in a line, the DLSA of one end reaches the other only through the tables
  of the middle, in three messages for each hop. Two DLSAs of one node are the
  least that can overtake or be confused, one loss is the least that leaves
  neighbors different. The run starts when neighbors have met, as it is four
  seconds after the start; the way from unknown neighbors is taken when the
  middle forgets an end and hears it again.
* `FlowSelect`: as many flows as nodes, so that the last draw has one source left.
* `LinkQuality`: a window of 5 with patience 2 keeps the relation that the
  code's 10 and 3 have: a tuple expires before all its slots are missed, and the
  run goes round the array until no new state appears.
* `CHECK_DEADLOCK FALSE` stands in the runs of the transfer, the bypass and the flow
  selection, where the number of chunks, packets or flows is bounded and the
  system may be done, in `dtn`, whose timers are bounded, and in `forward_table`, which ends when the loop ends. The
  LSA runs and `link_quality` check deadlock.

### Fairness

The simulator runs every event that is scheduled. So a message that was
sent and not lost arrives, a pending event fires, the throughput timer runs
`SendData` again, and probes and LSA timers keep coming: weak fairness of these
actions. Losses, early timeouts and expiries get no fairness, and in `Dtn` nothing
but reception does. In
`HopTransfer` the retries are fair with `route` and `good` true: a retry that
finds no route is repeated until the network has one. `Converges` is about an LSA that a node
sends once all neighbors know each other and go on to; `AllDelivered` about runs in
which no block source is left waiting for ever for a packet that the next node has
taken and drops (`DroppedForGood`, after a lost ACK or a loss behind that node), so it
shows that nothing else stops delivery. `FairSpec` of `ForwardTable` says that the loop runs on inside its event.

## 4. Abstract specifications

`ChunkRelay`: packets of chunks that the source made move one node at a time, a
node hands on only what it holds, the destination writes only what it has
completely. `HopRefinement` maps `made` to `chkID`, `held` to the bitmaps and `written`
to the chunks in `toFile`; every action but `SendData`, `RecvDATA` and `RecvCSYNC` is
a stutter.

`OrderedPipe`: every node gets the packets in sequence, once, and after the
node before it. `BypassRefinement` maps `got` to `m_prevSeq`.

## 5. What is proved

TLAPS checks these for every value of the constants that the named
assumptions allow (`ConstAssumption`, `BypassAssumption`, `ForwardAssumption`,
`FloodAssumption`, `FlowAssumption`, `HeaderAssumption`, `DtnAssumption`,
`QualityAssumption`, `AddressAssumption`): any length of the chain, any number of packets, any network,
any number of losses, early timeouts and expiries.

* **HopTransfer**: `TypeCorrect`, `NoOverrun` (`InBounds`), `WrittenEndToEnd`
  (`WrittenWasCarried`), `Refinement` (`Implements`), `NeverForgotten` (`Custody`).
  `InBounds` is not inductive: an ACK that reports a gap is harmless only
  because its chunk was started by a node that had `P` packets of it. `IInv` adds
  that what the nodes hold is nested along the chain (`NestedOK`, `FirstOK`,
  `RelayOK`), and what everything that travels, is stored or waits says of the
  vector of its sender: a CSYNC, an entry of `csync_set`, an ACK, that the
  vector is long enough (`Startable`); a data packet, that it is in the vector
  (`FwdOK`, `SavedOK`, `CsyncOK`, `AckOK`). Vectors only grow, so these stay true.
  Duplicates make a vector longer, and a vector with all `P` packets has at
  least `P` entries by counting (`LongEnough`).
  `RetriesPending` (`RetryPending`) is about events that work on an entry which is
  not theirs: on each hop, there is a stray event for every entry of `csync_set`
  whose own event is gone (`HopRetries`). `Custody` asks for a stored burst whose event is
  pending: a burst may lose its event to another one, but the handler that takes it sends
  a burst and with it a new CSYNC, or makes a new event.
* **HopTransfer without early timeouts, only messages of the source lost**
  (`LiveSpec` with `MaxEarly = 0`, the behaviors of `hop_live`): `ChunkAfterChunk`
  (`OneChunkAtATime`), `WrittenWhole` (`WrittenWholeInOrder`) and `StoredOnce` (`NoneTwice`),
  for any number of losses. None of the three
  is inductive: whether a relay starts a chunk depends on its `resume` and on
  what the hop before it has closed. `HopsInLockstep` proves `Lockstep`: every hop is
  idle or in one phase of one chunk (`Waiting` for the ACK of a CSYNC, `Storing`
  packets that wait for a route, `Silent` after a loss, `Flying`, `Answered`), the node
  behind it has all of the chunks before that one and nothing of the ones after
  it (`Upto`), and a relay that may resume has passed on all that the hop before it
  has closed (`ResumeOK`, `BegunOK`). `OnceOK` and `ArrayOK` carry this into the vectors
  and into `pkt_array`. TLC checked `Lockstep` on instances larger than `hop_live` (4
  nodes, 3 chunks of 2 packets; 3 nodes, 3 chunks of 3 packets with 4 losses) before it was proved.
* **Bypass**, for every block table: `TypeCorrect` and `Ordered` (`InSequence`), from
  `Offers`: a node sends, keeps and queues only packets that it has had.
  For the compiled table (`HopByHop`): `NeverFatal`, `AckUnambiguous` and `NothingLost`
  from `StopAndWait`: on each hop, one packet outstanding, nothing newer in
  flight, the receiver at most one behind, the queue without gaps behind the
  outstanding packet, at most one ACK and only while it is waited for, and the
  flag `queue_empty` in step with the timer.
* **ForwardTable**: `EntriesDistinct`, `RealPaths`, `Shortest`, `Complete` and `ShortestPaths`. The
  invariant adds `Sorted` (confirmed entries are not worse than tentative ones)
  and `Covered` (every listed link out of a confirmed node leads to an entry that
  is not worse than the way over it). No bound on weights is needed. `ShortestPaths`
  (`IsShortest`) compares the result with `Ways`: no sum of `Ways` is below the table's, by
  induction over the number of links, and none is above, by induction over the
  entries in the order in which the loop confirmed them.
* **LsaFlood**: `AuthenticLsas`, `FloodIsReliable`, `RoutesCurrent`. The invariant says
  what a message vouches for: an LSA or a saved copy, that its source
  advertised these neighbors under this number; an ACK, that its sender made
  the LSA or has it or a later one. LSA numbers in a table only grow, so both
  stay true. For `RouteCurrent`: every handler that makes the tables lead further
  computes the forward table again, and those that do not only shrink them.
  On top of the theorems about the formats, `MessagesReadable` (`WireFormats`): every LSA
  and LSA ACK on a link is read as it was written; and `FallThroughHarmless`
  (`DataLeavesRetries`): a data packet that is also looked up as an LSA ACK matches no
  saved copy, because the structure it finds holds the address of an empty
  `Ipv4Address`, which no node has (`AddressAssumption`).
* **FlowSelect**: `NeverFatal`, `LoopsEnd`. A node that is sending is in
  its own list of senders, and the draw avoids that list (`SendingIsListed`), in whichever
  second it is made. `LoopsEnd` counts: a list shorter than the set of nodes leaves one.
* **MfHeader**: `ReadAsWritten`, for every message of types 1 and 3 to 10 whose vectors are as
  long as its `length` says (type 2, the link probe ACK, is never sent), and `VectorIsCut`, for the summary vectors, which have one
  number more. Each structure is a count and vectors behind each other, and the
  reader finds each vector where the lengths of those before it end (`Layout2`,
  `Layout3`, `GetPut`); the values may be anything. `FormatsFaithful` adds that the
  bytes written are the ones that `GetSerializedSize` announces: each structure is
  a row of four-byte fields and then fields of one width (`Shape`), and the sum over
  such a row is found by induction (`CountTo`).
* **Dtn**: `AuthenticDlsas`, `AlwaysAcceptable`, `DtnRoutesCurrent`, `LossesRepaired`, on top
  of the theorems about the formats. None of the four is inductive. `IInv` adds
  what a message vouches for (`MsgOK`): a summary vector lists what its sender has,
  an ACK asks for what its receiver has and its sender did not make, a DLSA is
  genuine and is not on its way to the node that made it. Numbers in a table only
  grow, so this stays true while newer DLSAs overtake the message. `Owes` says, for
  each DLSA that a fresh node has and a neighbor lacks, that it is listed, asked for
  or sent; each handler takes it from one stage to the next, and a loss ends the
  claim until the next DLSA timer. That a node's own DLSA is never asked for needs
  `OwnOK`: no table has a later DLSA of a node than the node itself. `Recorded` (a
  node's DLSA lists only nodes that it has seen) carries the DTN table over the
  updates of the probability table.
* **LinkQuality**: `SlotsAreOfProbes` (`SlotsOfProbes`), `EstimatesBounded` (`EstimatesInRange`)
  and `SteadyLinkForwards` (`SteadyForwards`). The invariant adds that after a probe that
  was heard `prev_seq_no` is the number before the next one, so that nothing is
  emptied, and that a tuple goes only after a probe was missed. That the forward table has the averages of the tuple while there
  is one is `EntryCurrent`. The sums over the slots
  are a recursive function, `Sums`; that they lie between the number of filled slots
  times the least and times the largest measurement is an induction over the slots,
  and the division keeps both bounds.

The recursive functions (`Ways`, `Sums`, `Sizes`) are reasoned about by induction
from the well-foundedness of `<` on the naturals, for a set of counterexamples
that would have a least element; that each function exists is proved
first. No module with a theorem has a RECURSIVE operator.

Every invariant and both refinements of the passing runs are stated by a theorem.
Only TLC checks liveness (`AllWritten`, `AllDelivered`, `LoopEnds`, `Converges`,
`FloodEnds`, `ExchangeEnds`), since TLAPS does not reason about fairness, and `NoFatal`,
`AckIsForCurrent` and `NothingForgotten` of the bypass for blocks of several links.

## 6. The plan

Done, in this order: `HopTransfer` with its refinement and proofs, `Bypass`,
`ForwardTable`, `LsaFlood`, `LinkQuality`, `FlowSelect` with its proofs, `MfHeader` and `Dtn`
with theirs, `LsaWire`; then the theorems for the remaining invariants. Next:

1. proofs: `StopAndWait` for blocks of several links;
2. several flows over one relay: `csync_set`, `data_saved_set` and `resume` are keyed
   by source only;
3. nodes with several interfaces in `LsaFlood`, where the address in an LSA ACK
   and the one of the saved copy differ, and the expiry of LSA tuples;
4. transfer and routing together: the route that a hop uses changes while a
   chunk is on its way;
5. the costs and next hops of the DTN table.

## 7. What is not modelled

* ns-3 itself, the network simulation cradle (`nsc-0.5.2`) and the other vendored
  trees, which are nearly all of the repository: third-party code that the
  protocols run on. What they use of it, unicast and broadcast over lossy links and
  the event queue, is in the channels and the timers of the models.
* The expiry of LSA and DLSA tuples after 100000 s: the longest example runs for
  1000 s.
* The costs and next hops of the DTN table, and `GetInterfaces`, a look-up.
* The serialisation in `bypass-header.cc`: fixed fields and no state.
* Link probe ACKs: nothing sends them.
* `ns-3.11/src/gstar`: an earlier copy of the link-state part.
* The applications (`transparent`, `bulk-send-application-delay`,
  `packet-sink-delay`), helpers, examples and scratch programs: input, output
  and topologies.
* Logging, payloads and files; `ToFile` is the event that it is called.
