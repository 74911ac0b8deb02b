------------------------------ MODULE LsaWire ------------------------------
(***************************************************************************)
(* The messages of LsaFlood in the formats of MfHeader: what is on the     *)
(* links can be written and read, and a data packet that RecvMF also looks *)
(* up as an LSA ACK ends no retry.                                         *)
(***************************************************************************)
EXTENDS LsaFlood, MfHeader, SequencesExt

\* A network is finite, and no node has the address that Ipv4Address () holds.
ASSUME AddressAssumption == IsFiniteSet(Node) /\ AnyAddr \notin Node

\* SendLSA pushes address, SETT and LETT of each neighbor; SETT and LETT are tokens.
LsaHeader(p) ==
    LET q == SetToSeq(p.nbrs)
    IN  [type |-> 3, seq |-> p.seq, addr |-> p.src,
         part |-> [length |-> Len(q), addrs |-> q,
                   sett |-> [i \in 1 .. Len(q) |-> <<"sett", q[i]>>],
                   lett |-> [i \in 1 .. Len(q) |-> <<"lett", q[i]>>]]]

\* The ACK that node n sends names the source of the LSA.
LsaAckHeader(n, p) == [type |-> 10, seq |-> p.seq, addr |-> n, part |-> [src |-> p.src]]

HeaderOf(n, p) == IF p.type = "LSA" THEN LsaHeader(p) ELSE LsaAckHeader(n, p)

\* Every message on its way is read as it was written, and takes up the bytes that
\* GetSerializedSize made room for.
WireFormats ==
    \A n, m \in Node : \A i \in 1 .. Len(chan[n][m]) : Faithful(HeaderOf(n, chan[n][m][i]))

\* A data packet of chunk k of the flow from s to d, sent by m.
DataHeader(m, k, s, d) ==
    [type |-> 9, seq |-> k, addr |-> m,
     part |-> [src |-> s, dest |-> d, pkt_no |-> 1, payload_size |-> PayloadSize,
               payload |-> [i \in 1 .. PayloadSize |-> 0]]]

\* RecvMF falls through from case 9 into case 10: a data packet from a neighbor is
\* also looked up as an LSA ACK.  Whatever its chunk and its flow are, it ends no
\* retry of an LSA.
DataLeavesRetries ==
    \A n, s, d \in Node : \A e \in saved[n] :
        LET h == Deserialize(Serialize(DataHeader(e.to, e.seq, s, d)))
        IN  ~Confirmed(e, h.addr, [src |-> LsaAckSrc(h), seq |-> h.seq])
=============================================================================
