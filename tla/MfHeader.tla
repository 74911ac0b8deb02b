------------------------------ MODULE MfHeader ------------------------------
(***************************************************************************)
(* The packet formats of MobilityFirst: how mf::MessageHeader is written   *)
(* into a packet and read back (mf_header.cc, mf_header.h).                *)
(*                                                                         *)
(* A header is [type, seq, addr, part]: m_messageType, m_SequenceNumber,   *)
(* m_srcAddr and the one structure that belongs to the type.  A buffer is  *)
(* the sequence of the fields written, each with its width and byte order: *)
(* a field that is read in another way than it was written is garbled.     *)
(***************************************************************************)
EXTENDS Integers, Sequences

CONSTANTS
    PayloadSize,  \* PAYLOAD_SIZE, 256
    AnyAddr       \* what Ipv4Address () holds, 102.102.102.102

ASSUME HeaderAssumption == PayloadSize \in Nat

\* Write* of a 32-bit field; wider and narrower ones stand in vectors and arrays only.
Net32(v)  == [kind |-> "net32", val |-> v]
Host32(v) == [kind |-> "host32", val |-> v]

Bytes(f) == IF f.kind = "net64" THEN 8 ELSE IF f.kind = "octet" THEN 1 ELSE 4

Garbled == [garbled |-> TRUE]
Read(f, kind) == IF f.kind = kind THEN f.val ELSE Garbled

\* A vector or an array is written element by element; n elements are read from
\* behind position at.  SETTs, LETTs, numbers and probabilities are 64 bits wide.
Put(kind, s) == [i \in 1 .. Len(s) |-> [kind |-> kind, val |-> s[i]]]
Get(buf, at, n, kind) == [i \in 1 .. n |-> Read(buf[at + i], kind)]

-----------------------------------------------------------------------------
(* The structures.  The vectors of the first three are written as long as  *)
(* they are, and as many elements read as length says.                     *)

LSA_Serialize(p) ==
    <<Host32(p.length)>> \o Put("net32", p.addrs) \o Put("net64", p.sett) \o Put("net64", p.lett)
M_LSA_Deserialize(buf) ==
    LET n == Read(buf[1], "host32")
    IN  [length |-> n, addrs |-> Get(buf, 1, n, "net32"),
         sett |-> Get(buf, 1 + 2 * n, n, "net64"), lett |-> Get(buf, 1 + n, n, "net64")]
LSA_Deserialize(buf) ==
    LET n == Read(buf[1], "host32")
    IN  [length |-> n, addrs |-> Get(buf, 1, n, "net32"),
         sett |-> Get(buf, 1 + n, n, "net64"), lett |-> Get(buf, 1 + 2 * n, n, "net64")]

summary_vector_Serialize(p) ==
    <<Host32(p.length)>> \o Put("net32", p.addrs) \o Put("net64", p.nums)
summary_vector_Deserialize(buf) ==
    LET n == Read(buf[1], "host32")
    IN  [length |-> n, addrs |-> Get(buf, 1, n, "net32"), nums |-> Get(buf, 1 + n, n, "net64")]

DLSA_Serialize(p) ==
    <<Host32(p.length)>> \o Put("net32", p.addrs) \o Put("net64", p.probs)
DLSA_Deserialize(buf) ==
    LET n == Read(buf[1], "host32")
    IN  [length |-> n, addrs |-> Get(buf, 1, n, "net32"), probs |-> Get(buf, 1 + n, n, "net64")]

CSYNC_Serialize(p) == <<Net32(p.src), Net32(p.dest), Host32(p.count)>>
CSYNC_Deserialize(buf) ==
    [src |-> Read(buf[1], "net32"), dest |-> Read(buf[2], "net32"),
     count |-> Read(buf[3], "host32")]

\* The bitmap travels as an array of PAYLOAD_SIZE, of which the first
\* CHK_PKT_COUNT elements are set.
CSYNC_ACK_Serialize(p) ==
    <<Net32(p.src), Net32(p.dest), Host32(p.count)>> \o Put("host32", p.bitmap)
CSYNC_ACK_Deserialize(buf) ==
    [src |-> Read(buf[1], "net32"), dest |-> Read(buf[2], "net32"),
     count |-> Read(buf[3], "host32"), bitmap |-> Get(buf, 3, PayloadSize, "host32")]

DATA_Serialize(p) ==
    <<Net32(p.src), Net32(p.dest), Host32(p.pkt_no), Host32(p.payload_size)>>
        \o Put("octet", p.payload)
DATA_Deserialize(buf) ==
    [src |-> Read(buf[1], "net32"), dest |-> Read(buf[2], "net32"),
     pkt_no |-> Read(buf[3], "host32"), payload_size |-> Read(buf[4], "host32"),
     payload |-> Get(buf, 4, PayloadSize, "octet")]

-----------------------------------------------------------------------------
(* The header: type 1 is a link probe, 2 its ACK, 3 an LSA, 4 a summary    *)
(* vector and 5 its ACK, 6 a DLSA, 7 CSYNC, 8 CSYNC ACK, 9 DATA and 10 the *)
(* ACK of an LSA.                                                          *)

\* What a handler has set for the type goes behind the three common fields.
WrittenPart(t, p) ==
    CASE t = 1       -> Put("octet", p.mac)
      [] t = 3       -> LSA_Serialize(p)
      [] t \in {4, 5} -> summary_vector_Serialize(p)
      [] t = 6       -> DLSA_Serialize(p)
      [] t = 7       -> CSYNC_Serialize(p)
      [] t = 8       -> CSYNC_ACK_Serialize(p)
      [] t = 9       -> DATA_Serialize(p)
      [] t = 10      -> <<Net32(p.src)>>
      [] OTHER       -> <<>>
Serialize(h) ==
    <<Net32(h.type), Net32(h.seq), Net32(h.addr)>> \o WrittenPart(h.type, h.part)

ReadPart(t, body) ==
    CASE t = 1       -> [mac |-> Get(body, 0, 6, "octet")]
      [] t = 3       -> LSA_Deserialize(body)
      [] t \in {4, 5} -> summary_vector_Deserialize(body)
      [] t = 6       -> DLSA_Deserialize(body)
      [] t = 7       -> CSYNC_Deserialize(body)
      [] t = 8       -> CSYNC_ACK_Deserialize(body)
      [] t = 9       -> DATA_Deserialize(body)
      [] t = 10      -> [src |-> Read(body[1], "net32")]
      [] OTHER       -> <<>>
Deserialize(buf) ==
    LET t == Read(buf[1], "net32")
    IN  [type |-> t, seq |-> Read(buf[2], "net32"), addr |-> Read(buf[3], "net32"),
         part |-> ReadPart(t, SubSeq(buf, 4, Len(buf)))]

\* The bytes that AddHeader makes room for; Deserialize computes what it has read
\* in the same way from the header it has built.
GetSerializedSize(h) ==
    12 + (CASE h.type = 1       -> 6
            [] h.type = 3       -> 4 * Len(h.part.addrs) + 8 * Len(h.part.sett)
                                     + 8 * Len(h.part.lett) + 4
            [] h.type \in {4, 5} -> 4 * Len(h.part.addrs) + 4 + 8 * Len(h.part.nums)
            [] h.type = 6       -> 4 * Len(h.part.addrs) + 8 * Len(h.part.probs) + 4
            [] h.type = 7       -> 4 + 4 * 2
            [] h.type = 8       -> 4 * PayloadSize + 4 + 4 * 2
            [] h.type = 9       -> 2 * 4 + 2 * 4 + PayloadSize
            [] h.type = 10      -> 4
            [] OTHER            -> 0)

\* GetLSA_ACK ().src of a header that has been read: set for type 10 only, and
\* otherwise what the constructor of the address left there.
M_LsaAckSrc(h) == IF h.type \in {9, 10} THEN h.part.src ELSE AnyAddr
LsaAckSrc(h) == IF h.type = 10 THEN h.part.src ELSE AnyAddr

\* The bytes that are written, field by field.
Sizes(buf) ==
    LET sum[i \in 0 .. Len(buf)] == IF i = 0 THEN 0 ELSE sum[i - 1] + Bytes(buf[i])
    IN  sum

\* A header is read as it was written, and takes up the bytes that were made room
\* for.
Faithful(h) ==
    LET buf == Serialize(h)
    IN  Deserialize(buf) = h /\ Sizes(buf)[Len(buf)] = GetSerializedSize(h)
=============================================================================
