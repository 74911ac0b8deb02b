--------------------------- MODULE MfHeaderProofs ---------------------------
(***************************************************************************)
(* Proofs about MfHeader: what Deserialize makes of what Serialize wrote,  *)
(* for every message that the handlers build.  The values may be anything; *)
(* V is a set that holds them.                                             *)
(***************************************************************************)
EXTENDS MfHeader, SequenceTheorems, NaturalsInduction, WellFoundedInduction, TLAPS

Kinds == {"net32", "host32", "net64", "octet"}
Fields(V) == [kind : Kinds, val : V]

\* A sequence over a set is one over every larger set.
LEMMA WiderSeq ==
    ASSUME NEW S, NEW T, S \subseteq T, NEW s \in Seq(S)
    PROVE  s \in Seq(T)
<1>1. s \in [1 .. Len(s) -> S] /\ Len(s) \in Nat
  OBVIOUS
<1>2. s \in [1 .. Len(s) -> T]
  BY <1>1
<1>. QED
  BY <1>1, <1>2

\* The fields of a vector, and what is read from one of them.
LEMMA PutIn ==
    ASSUME NEW V, NEW s \in Seq(V), NEW k \in Kinds
    PROVE  /\ Put(k, s) \in Seq(Fields(V))
           /\ Len(Put(k, s)) = Len(s)
           /\ \A i \in 1 .. Len(s) : Put(k, s)[i] = [kind |-> k, val |-> s[i]]
<1>1. \A i \in 1 .. Len(s) : [kind |-> k, val |-> s[i]] \in Fields(V)
  BY DEF Fields
<1>. QED
  BY <1>1 DEF Put

\* A field is read as the kind that it was written as.
LEMMA ReadField ==
    ASSUME NEW k, NEW v
    PROVE  Read([kind |-> k, val |-> v], k) = v
  BY DEF Read

\* Vectors that were written at position at are read there.
LEMMA GetPut ==
    ASSUME NEW V, NEW s \in Seq(V), NEW k \in Kinds, NEW buf, NEW at \in Nat,
           \A i \in 1 .. Len(s) : buf[at + i] = Put(k, s)[i]
    PROVE  Get(buf, at, Len(s), k) = s
<1>1. \A i \in 1 .. Len(s) : Read(buf[at + i], k) = s[i]
  <2>. TAKE i \in 1 .. Len(s)
  <2>1. buf[at + i] = [kind |-> k, val |-> s[i]]
    BY PutIn
  <2>. QED
    BY <2>1, ReadField
<1>2. Get(buf, at, Len(s), k) = [i \in 1 .. Len(s) |-> s[i]]
  BY <1>1 DEF Get
<1>. QED
  BY <1>2

\* Single fields.
LEMMA FieldTypes ==
    ASSUME NEW V, NEW v \in V
    PROVE  Net32(v) \in Fields(V) /\ Host32(v) \in Fields(V)
  BY DEF Net32, Host32, Fields, Kinds

\* A count and two vectors, one behind the other.
LEMMA Layout2 ==
    ASSUME NEW S, NEW x \in S, NEW A \in Seq(S), NEW B \in Seq(S),
           NEW buf, buf = <<x>> \o A \o B
    PROVE  /\ buf \in Seq(S) /\ Len(buf) = 1 + Len(A) + Len(B)
           /\ buf[1] = x
           /\ \A i \in 1 .. Len(A) : buf[1 + i] = A[i]
           /\ \A i \in 1 .. Len(B) : buf[1 + Len(A) + i] = B[i]
<1>1. /\ <<x>> \o A \in Seq(S) /\ Len(<<x>> \o A) = 1 + Len(A)
      /\ (<<x>> \o A)[1] = x
      /\ \A i \in 1 .. Len(A) : (<<x>> \o A)[1 + i] = A[i]
  OBVIOUS
<1>. QED
  BY <1>1

\* A count and three vectors, and where their fields stand.
Block3(x, A, B, C) == <<x>> \o A \o B \o C
LaidOut3(buf, x, A, B, C, S) ==
    /\ buf \in Seq(S)
    /\ buf[1] = x
    /\ \A i \in 1 .. Len(A) : buf[1 + i] = A[i]
    /\ \A i \in 1 .. Len(B) : buf[1 + Len(A) + i] = B[i]
    /\ \A i \in 1 .. Len(C) : buf[1 + Len(A) + Len(B) + i] = C[i]

\* Every field is where the count and the lengths of the vectors before it say.
LEMMA Layout3 ==
    ASSUME NEW S, NEW x \in S, NEW A \in Seq(S), NEW B \in Seq(S), NEW C \in Seq(S)
    PROVE  LaidOut3(Block3(x, A, B, C), x, A, B, C, S)
<1>0. PICK buf : buf = Block3(x, A, B, C)
  OBVIOUS
<1>1. PICK AB : AB = <<x>> \o A \o B
  OBVIOUS
<1>2. /\ AB \in Seq(S) /\ Len(AB) = 1 + Len(A) + Len(B)
      /\ AB[1] = x
      /\ \A i \in 1 .. Len(A) : AB[1 + i] = A[i]
      /\ \A i \in 1 .. Len(B) : AB[1 + Len(A) + i] = B[i]
  BY <1>1, Layout2
<1>3. buf = AB \o C
  BY <1>0, <1>1 DEF Block3
<1>4. /\ buf \in Seq(S)
      /\ \A i \in 1 .. Len(AB) : buf[i] = AB[i]
      /\ \A i \in 1 .. Len(C) : buf[Len(AB) + i] = C[i]
  <2>1. AB \in Seq(S) /\ C \in Seq(S)
    BY <1>2
  <2>. QED
    BY ONLY <1>3, <2>1
<1>5. /\ buf[1] = x
      /\ \A i \in 1 .. Len(A) : buf[1 + i] = A[i]
      /\ \A i \in 1 .. Len(B) : buf[1 + Len(A) + i] = B[i]
      /\ \A i \in 1 .. Len(C) : buf[1 + Len(A) + Len(B) + i] = C[i]
  <2>1. Len(A) \in Nat /\ Len(B) \in Nat
    OBVIOUS
  <2>2. buf[1] = x
    BY <1>2, <1>4, <2>1
  <2>3. ASSUME NEW i \in 1 .. Len(A) PROVE buf[1 + i] = A[i]
    <3>1. 1 + i \in 1 .. Len(AB)
      BY <1>2, <2>1
    <3>. QED
      BY <1>2, <1>4, <3>1
  <2>4. ASSUME NEW i \in 1 .. Len(B) PROVE buf[1 + Len(A) + i] = B[i]
    <3>1. 1 + Len(A) + i \in 1 .. Len(AB)
      BY <1>2, <2>1
    <3>. QED
      BY <1>2, <1>4, <3>1
  <2>5. ASSUME NEW i \in 1 .. Len(C) PROVE buf[1 + Len(A) + Len(B) + i] = C[i]
    BY <1>2, <1>4
  <2>. QED
    BY <2>2, <2>3, <2>4, <2>5
<1>. QED
  BY ONLY <1>0, <1>4, <1>5, Zenon DEF LaidOut3

-----------------------------------------------------------------------------
(* The structures.                                                         *)

Counted(n, A, B) == <<Host32(n)>> \o Put("net32", A) \o Put("net64", B)

\* A count n and two vectors A and B of which the first has n elements and the
\* second at least as many: the reader finds n of each.
LEMMA CountedVectors ==
    ASSUME NEW V, NEW n \in V \cap Nat, NEW A \in Seq(V), NEW B \in Seq(V),
           Len(A) = n, n <= Len(B), NEW buf, buf = Counted(n, A, B)
    PROVE  /\ buf \in Seq(Fields(V))
           /\ Read(buf[1], "host32") = n
           /\ Get(buf, 1, n, "net32") = A
           /\ Get(buf, 1 + n, n, "net64") = SubSeq(B, 1, n)
<1>1. PICK PA : PA = Put("net32", A)
  OBVIOUS
<1>2. PICK PB : PB = Put("net64", B)
  OBVIOUS
<1>3. /\ PA \in Seq(Fields(V)) /\ Len(PA) = n
      /\ PB \in Seq(Fields(V)) /\ Len(PB) = Len(B)
  BY <1>1, <1>2, PutIn DEF Kinds
<1>4. Host32(n) \in Fields(V)
  BY FieldTypes
<1>5. buf = <<Host32(n)>> \o PA \o PB
  BY <1>1, <1>2 DEF Counted
<1>6. /\ buf \in Seq(Fields(V))
      /\ buf[1] = Host32(n)
      /\ \A i \in 1 .. Len(PA) : buf[1 + i] = PA[i]
      /\ \A i \in 1 .. Len(PB) : buf[1 + Len(PA) + i] = PB[i]
  <2>1. PICK S, x : S = Fields(V) /\ x = Host32(n)
    OBVIOUS
  <2>2. x \in S /\ PA \in Seq(S) /\ PB \in Seq(S) /\ buf = <<x>> \o PA \o PB
    BY <1>3, <1>4, <1>5, <2>1
  <2>3. /\ buf \in Seq(S)
        /\ buf[1] = x
        /\ \A i \in 1 .. Len(PA) : buf[1 + i] = PA[i]
        /\ \A i \in 1 .. Len(PB) : buf[1 + Len(PA) + i] = PB[i]
    BY ONLY <2>2, Layout2
  <2>. QED
    BY <2>1, <2>3
<1>7. Read(buf[1], "host32") = n
  BY <1>6, ReadField DEF Host32
<1>8. Get(buf, 1, n, "net32") = A
  <2>1. \A i \in 1 .. Len(A) : buf[1 + i] = Put("net32", A)[i]
    BY <1>1, <1>3, <1>6
  <2>. QED
    BY <2>1, GetPut DEF Kinds
<1>9. PICK B1 : B1 = SubSeq(B, 1, n)
  OBVIOUS
<1>10. /\ B1 \in Seq(V) /\ Len(B1) = n
       /\ \A i \in 1 .. n : B1[i] = B[i]
  BY <1>9
<1>11. \A i \in 1 .. n : Put("net64", B1)[i] = PB[i]
  BY <1>2, <1>10 DEF Put
<1>12. Get(buf, 1 + n, n, "net64") = B1
  <2>1. \A i \in 1 .. Len(B1) : buf[(1 + n) + i] = Put("net64", B1)[i]
    <3>. TAKE i \in 1 .. Len(B1)
    <3>1. i \in 1 .. n /\ i \in 1 .. Len(PB)
      BY <1>3, <1>10
    <3>2. buf[1 + Len(PA) + i] = PB[i] /\ Put("net64", B1)[i] = PB[i]
      BY <1>6, <1>11, <3>1
    <3>. QED
      BY <1>3, <3>2
  <2>2. 1 + n \in Nat /\ "net64" \in Kinds
    BY DEF Kinds
  <2>3. Get(buf, 1 + n, Len(B1), "net64") = B1
    BY <1>10, <2>1, <2>2, GetPut
  <2>. QED
    BY <1>10, <2>3
<1>. QED
  BY <1>6, <1>7, <1>8, <1>9, <1>12

\* A summary vector: the numbers beyond length stay in the buffer.
LEMMA VectorRead ==
    ASSUME NEW V, NEW n \in V \cap Nat, NEW A \in Seq(V), NEW B \in Seq(V),
           Len(A) = n, n <= Len(B)
    PROVE  LET p == [length |-> n, addrs |-> A, nums |-> B]
               buf == summary_vector_Serialize(p)
           IN  /\ buf \in Seq(Fields(V))
               /\ summary_vector_Deserialize(buf) =
                     [length |-> n, addrs |-> A, nums |-> SubSeq(B, 1, n)]
<1>1. PICK buf : buf = Counted(n, A, B)
  OBVIOUS
<1>2. summary_vector_Serialize([length |-> n, addrs |-> A, nums |-> B]) = buf
  BY <1>1 DEF summary_vector_Serialize, Counted
<1>3. /\ buf \in Seq(Fields(V))
      /\ Read(buf[1], "host32") = n
      /\ Get(buf, 1, n, "net32") = A
      /\ Get(buf, 1 + n, n, "net64") = SubSeq(B, 1, n)
  BY <1>1, CountedVectors
<1>4. summary_vector_Deserialize(buf) =
         [length |-> n, addrs |-> A, nums |-> SubSeq(B, 1, n)]
  BY <1>3, Zenon DEF summary_vector_Deserialize
<1>. QED
  BY <1>2, <1>3, <1>4

\* A DLSA.
LEMMA DlsaRead ==
    ASSUME NEW V, NEW n \in V \cap Nat, NEW A \in Seq(V), NEW B \in Seq(V),
           Len(A) = n, n = Len(B)
    PROVE  LET p == [length |-> n, addrs |-> A, probs |-> B]
               buf == DLSA_Serialize(p)
           IN  buf \in Seq(Fields(V)) /\ DLSA_Deserialize(buf) = p
<1>1. PICK buf : buf = Counted(n, A, B)
  OBVIOUS
<1>2. DLSA_Serialize([length |-> n, addrs |-> A, probs |-> B]) = buf
  BY <1>1 DEF DLSA_Serialize, Counted
<1>3. SubSeq(B, 1, n) = B
  OBVIOUS
<1>4. /\ buf \in Seq(Fields(V))
      /\ Read(buf[1], "host32") = n
      /\ Get(buf, 1, n, "net32") = A
      /\ Get(buf, 1 + n, n, "net64") = SubSeq(B, 1, n)
  <2>1. n <= Len(B)
    OBVIOUS
  <2>. QED
    BY <1>1, <2>1, CountedVectors
<1>5. DLSA_Deserialize(buf) = [length |-> n, addrs |-> A, probs |-> B]
  BY <1>3, <1>4, Zenon DEF DLSA_Deserialize
<1>. QED
  BY <1>2, <1>4, <1>5

\* An LSA.
LEMMA LsaRead ==
    ASSUME NEW V, NEW n \in V \cap Nat, NEW A \in Seq(V), NEW B \in Seq(V), NEW C \in Seq(V),
           Len(A) = n, Len(B) = n, Len(C) = n
    PROVE  LET p == [length |-> n, addrs |-> A, sett |-> B, lett |-> C]
               buf == LSA_Serialize(p)
           IN  buf \in Seq(Fields(V)) /\ LSA_Deserialize(buf) = p
<1>1. PICK PA, PB, PC, x, S :
         /\ PA = Put("net32", A) /\ PB = Put("net64", B) /\ PC = Put("net64", C)
         /\ x = Host32(n) /\ S = Fields(V)
  OBVIOUS
<1>2. PICK buf : buf = Block3(x, PA, PB, PC)
  OBVIOUS
<1>3. LSA_Serialize([length |-> n, addrs |-> A, sett |-> B, lett |-> C]) = buf
  BY <1>1, <1>2 DEF LSA_Serialize, Block3
<1>4. /\ x \in S
      /\ PA \in Seq(S) /\ PB \in Seq(S) /\ PC \in Seq(S)
      /\ Len(PA) = n /\ Len(PB) = n /\ Len(PC) = n
  BY <1>1, PutIn, FieldTypes DEF Kinds
<1>5. /\ buf \in Seq(S)
      /\ buf[1] = x
      /\ \A i \in 1 .. Len(PA) : buf[1 + i] = PA[i]
      /\ \A i \in 1 .. Len(PB) : buf[1 + Len(PA) + i] = PB[i]
      /\ \A i \in 1 .. Len(PC) : buf[1 + Len(PA) + Len(PB) + i] = PC[i]
  <2>1. x \in S /\ PA \in Seq(S) /\ PB \in Seq(S) /\ PC \in Seq(S)
    BY <1>4
  <2>2. LaidOut3(Block3(x, PA, PB, PC), x, PA, PB, PC, S)
    BY ONLY <2>1, Layout3
  <2>. QED
    BY <1>2, <2>2 DEF LaidOut3
<1>6. Read(buf[1], "host32") = n
  BY <1>1, <1>5, ReadField DEF Host32
<1>7. Get(buf, 1, n, "net32") = A
  <2>1. \A i \in 1 .. Len(A) : buf[1 + i] = Put("net32", A)[i]
    BY <1>1, <1>4, <1>5
  <2>. QED
    BY <2>1, GetPut DEF Kinds
<1>8. Get(buf, 1 + n, n, "net64") = B
  <2>1. \A i \in 1 .. Len(B) : buf[(1 + n) + i] = Put("net64", B)[i]
    BY <1>1, <1>4, <1>5
  <2>2. 1 + n \in Nat /\ "net64" \in Kinds
    BY DEF Kinds
  <2>3. Get(buf, 1 + n, Len(B), "net64") = B
    BY <2>1, <2>2, GetPut
  <2>. QED
    BY <2>3
<1>9. Get(buf, 1 + 2 * n, n, "net64") = C
  <2>1. \A i \in 1 .. Len(C) : buf[(1 + 2 * n) + i] = Put("net64", C)[i]
    <3>. TAKE i \in 1 .. Len(C)
    <3>1. 1 + Len(PA) + Len(PB) + i = (1 + 2 * n) + i
      BY <1>4
    <3>2. buf[1 + Len(PA) + Len(PB) + i] = PC[i]
      BY <1>4, <1>5
    <3>. QED
      BY <1>1, <3>1, <3>2
  <2>2. 1 + 2 * n \in Nat /\ "net64" \in Kinds
    BY DEF Kinds
  <2>3. Get(buf, 1 + 2 * n, Len(C), "net64") = C
    BY <2>1, <2>2, GetPut
  <2>. QED
    BY <2>3
<1>10. LSA_Deserialize(buf) = [length |-> n, addrs |-> A, sett |-> B, lett |-> C]
  BY <1>6, <1>7, <1>8, <1>9, Zenon DEF LSA_Deserialize
<1>. QED
  BY <1>1, <1>3, <1>5, <1>10

\* A CSYNC.
LEMMA CsyncRead ==
    ASSUME NEW V, NEW src \in V, NEW dest \in V, NEW count \in V
    PROVE  LET p == [src |-> src, dest |-> dest, count |-> count]
               buf == CSYNC_Serialize(p)
           IN  buf \in Seq(Fields(V)) /\ CSYNC_Deserialize(buf) = p
<1>1. PICK x, y, z : x = Net32(src) /\ y = Net32(dest) /\ z = Host32(count)
  OBVIOUS
<1>2. CSYNC_Serialize([src |-> src, dest |-> dest, count |-> count]) = <<x, y, z>>
  BY <1>1 DEF CSYNC_Serialize
<1>3. x \in Fields(V) /\ y \in Fields(V) /\ z \in Fields(V)
  BY <1>1, FieldTypes
<1>4. /\ Read(x, "net32") = src /\ Read(y, "net32") = dest /\ Read(z, "host32") = count
  BY <1>1, ReadField DEF Net32, Host32
<1>5. CSYNC_Deserialize(<<x, y, z>>) = [src |-> src, dest |-> dest, count |-> count]
  BY <1>4 DEF CSYNC_Deserialize
<1>6. <<x, y, z>> \in Seq(Fields(V))
  BY <1>3
<1>. QED
  BY <1>2, <1>5, <1>6

\* A CSYNC ACK, with its bitmap of PAYLOAD_SIZE elements.
LEMMA CsyncAckRead ==
    ASSUME NEW V, NEW src \in V, NEW dest \in V, NEW count \in V,
           NEW bits \in Seq(V), Len(bits) = PayloadSize
    PROVE  LET p == [src |-> src, dest |-> dest, count |-> count, bitmap |-> bits]
               buf == CSYNC_ACK_Serialize(p)
           IN  buf \in Seq(Fields(V)) /\ CSYNC_ACK_Deserialize(buf) = p
<1>1. PICK x, y, z, s, F, S :
         /\ x = Net32(src) /\ y = Net32(dest) /\ z = Host32(count)
         /\ s = Put("host32", bits) /\ F = <<x, y, z>> /\ S = Fields(V)
  OBVIOUS
<1>2. PICK buf : buf = F \o s
  OBVIOUS
<1>3. CSYNC_ACK_Serialize([src |-> src, dest |-> dest, count |-> count,
                           bitmap |-> bits]) = buf
  BY <1>1, <1>2 DEF CSYNC_ACK_Serialize
<1>4. s \in Seq(S) /\ Len(s) = PayloadSize
  BY <1>1, PutIn DEF Kinds
<1>5. F \in Seq(S) /\ Len(F) = 3 /\ F[1] = x /\ F[2] = y /\ F[3] = z
  BY <1>1, FieldTypes
<1>6. /\ buf \in Seq(S)
      /\ \A i \in 1 .. Len(F) : buf[i] = F[i]
      /\ \A i \in 1 .. Len(s) : buf[Len(F) + i] = s[i]
  <2>1. s \in Seq(S) /\ F \in Seq(S)
    BY <1>4, <1>5
  <2>. QED
    BY ONLY <1>2, <2>1
<1>7. buf[1] = x /\ buf[2] = y /\ buf[3] = z
  BY <1>5, <1>6
<1>8. /\ Read(buf[1], "net32") = src /\ Read(buf[2], "net32") = dest
      /\ Read(buf[3], "host32") = count
  BY <1>1, <1>7, ReadField DEF Net32, Host32
<1>9. Get(buf, 3, PayloadSize, "host32") = bits
  <2>1. \A i \in 1 .. Len(bits) : buf[3 + i] = Put("host32", bits)[i]
    BY <1>1, <1>4, <1>5, <1>6
  <2>. QED
    BY <2>1, GetPut DEF Kinds
<1>10. CSYNC_ACK_Deserialize(buf) =
          [src |-> src, dest |-> dest, count |-> count, bitmap |-> bits]
  BY <1>8, <1>9, Zenon DEF CSYNC_ACK_Deserialize
<1>. QED
  BY <1>1, <1>3, <1>6, <1>10

\* A data packet, with its payload of PAYLOAD_SIZE octets.
LEMMA DataRead ==
    ASSUME NEW V, NEW src \in V, NEW dest \in V, NEW no \in V, NEW size \in V,
           NEW bytes \in Seq(V), Len(bytes) = PayloadSize,
           NEW p, p = [src |-> src, dest |-> dest, pkt_no |-> no, payload_size |-> size,
                       payload |-> bytes]
    PROVE  DATA_Serialize(p) \in Seq(Fields(V)) /\ DATA_Deserialize(DATA_Serialize(p)) = p
<1>1. PICK x, y, z, w, s, F, S :
         /\ x = Net32(src) /\ y = Net32(dest) /\ z = Host32(no) /\ w = Host32(size)
         /\ s = Put("octet", bytes) /\ F = <<x, y, z, w>> /\ S = Fields(V)
  OBVIOUS
<1>2. PICK buf : buf = F \o s
  OBVIOUS
<1>3. DATA_Serialize(p) = buf
  BY <1>1, <1>2 DEF DATA_Serialize
<1>4. s \in Seq(S) /\ Len(s) = PayloadSize
  BY <1>1, PutIn DEF Kinds
<1>5. F \in Seq(S) /\ Len(F) = 4 /\ F[1] = x /\ F[2] = y /\ F[3] = z /\ F[4] = w
  BY <1>1, FieldTypes
<1>6. /\ buf \in Seq(S)
      /\ \A i \in 1 .. Len(F) : buf[i] = F[i]
      /\ \A i \in 1 .. Len(s) : buf[Len(F) + i] = s[i]
  <2>1. s \in Seq(S) /\ F \in Seq(S)
    BY <1>4, <1>5
  <2>. QED
    BY ONLY <1>2, <2>1
<1>7. buf[1] = x /\ buf[2] = y /\ buf[3] = z /\ buf[4] = w
  BY <1>5, <1>6
<1>8. /\ Read(buf[1], "net32") = src /\ Read(buf[2], "net32") = dest
      /\ Read(buf[3], "host32") = no /\ Read(buf[4], "host32") = size
  BY <1>1, <1>7, ReadField DEF Net32, Host32
<1>9. Get(buf, 4, PayloadSize, "octet") = bytes
  <2>1. \A i \in 1 .. Len(bytes) : buf[4 + i] = Put("octet", bytes)[i]
    BY <1>1, <1>4, <1>5, <1>6
  <2>. QED
    BY <2>1, GetPut DEF Kinds
<1>10. DATA_Deserialize(buf) =
          [src |-> src, dest |-> dest, pkt_no |-> no, payload_size |-> size,
           payload |-> bytes]
  BY <1>8, <1>9, Zenon DEF DATA_Deserialize
<1>. QED
  BY <1>1, <1>3, <1>6, <1>10

\* A link probe.
LEMMA ProbeRead ==
    ASSUME NEW V, NEW mac \in Seq(V), Len(mac) = 6
    PROVE  /\ Put("octet", mac) \in Seq(Fields(V))
           /\ Get(Put("octet", mac), 0, 6, "octet") = mac
<1>1. PICK buf : buf = Put("octet", mac)
  OBVIOUS
<1>2. \A i \in 1 .. Len(mac) : buf[0 + i] = Put("octet", mac)[i]
  BY <1>1
<1>3. Get(buf, 0, Len(mac), "octet") = mac
  BY <1>2, GetPut DEF Kinds
<1>. QED
  BY <1>1, <1>3, PutIn DEF Kinds

\* The ACK of an LSA.
LEMMA LsaAckRead ==
    ASSUME NEW V, NEW src \in V
    PROVE  /\ <<Net32(src)>> \in Seq(Fields(V))
           /\ Read(<<Net32(src)>>[1], "net32") = src
<1>1. PICK x : x = Net32(src)
  OBVIOUS
<1>2. x \in Fields(V) /\ Read(x, "net32") = src
  BY <1>1, FieldTypes, ReadField DEF Net32
<1>3. <<x>> \in Seq(Fields(V)) /\ <<x>>[1] = x
  BY <1>2
<1>. QED
  BY <1>1, <1>2, <1>3

-----------------------------------------------------------------------------
(* The header.                                                             *)

\* The three fields of the header and what follows them.
LEMMA Body ==
    ASSUME NEW S, NEW x \in S, NEW y \in S, NEW z \in S, NEW s \in Seq(S),
           NEW buf, buf = <<x, y, z>> \o s
    PROVE  /\ buf \in Seq(S)
           /\ buf[1] = x /\ buf[2] = y /\ buf[3] = z
           /\ SubSeq(buf, 4, Len(buf)) = s
<1>1. /\ buf \in Seq(S) /\ Len(buf) = 3 + Len(s)
      /\ buf[1] = x /\ buf[2] = y /\ buf[3] = z
      /\ \A i \in 1 .. Len(s) : buf[3 + i] = s[i]
  OBVIOUS
<1>2. PICK t : t = SubSeq(buf, 4, Len(buf))
  OBVIOUS
<1>3. t \in Seq(S) /\ Len(t) = Len(s) /\ \A i \in 1 .. Len(s) : t[i] = s[i]
  <2>1. /\ buf \in Seq(S) /\ Len(buf) = 3 + Len(s) /\ s \in Seq(S)
        /\ \A i \in 1 .. Len(s) : buf[3 + i] = s[i]
    BY <1>1
  <2>. QED
    BY ONLY <1>2, <2>1
<1>4. t = s
  BY <1>3, SeqEqual
<1>. QED
  BY <1>1, <1>2, <1>4

\* A header whose structure p is read as r.
LEMMA HeaderRead ==
    ASSUME NEW V, NEW k \in V, NEW seq \in V, NEW addr \in V,
           NEW p, NEW r, NEW s \in Seq(Fields(V)), WrittenPart(k, p) = s, ReadPart(k, s) = r
    PROVE  Deserialize(Serialize([type |-> k, seq |-> seq, addr |-> addr, part |-> p]))
              = [type |-> k, seq |-> seq, addr |-> addr, part |-> r]
<1>1. PICK S, x, y, z : S = Fields(V) /\ x = Net32(k) /\ y = Net32(seq) /\ z = Net32(addr)
  OBVIOUS
<1>2. PICK buf : buf = <<x, y, z>> \o s
  OBVIOUS
<1>3. Serialize([type |-> k, seq |-> seq, addr |-> addr, part |-> p]) = buf
  BY <1>1, <1>2 DEF Serialize
<1>4. x \in S /\ y \in S /\ z \in S /\ s \in Seq(S)
  BY <1>1, FieldTypes
<1>5. buf[1] = x /\ buf[2] = y /\ buf[3] = z /\ SubSeq(buf, 4, Len(buf)) = s
  BY ONLY <1>2, <1>4, Body
<1>6. Read(buf[1], "net32") = k /\ Read(buf[2], "net32") = seq /\ Read(buf[3], "net32") = addr
  BY <1>1, <1>5, ReadField DEF Net32
<1>7. Deserialize(buf) = [type |-> k, seq |-> seq, addr |-> addr, part |-> r]
  BY <1>5, <1>6, Zenon DEF Deserialize
<1>. QED
  BY <1>3, <1>7

\* Which structure belongs to which type.
LEMMA PartsOfTypes ==
    ASSUME NEW p
    PROVE  /\ WrittenPart(1, p) = Put("octet", p.mac)
           /\ ReadPart(1, p) = [mac |-> Get(p, 0, 6, "octet")]
           /\ WrittenPart(3, p) = LSA_Serialize(p) /\ ReadPart(3, p) = LSA_Deserialize(p)
           /\ \A k \in {4, 5} : /\ WrittenPart(k, p) = summary_vector_Serialize(p)
                                /\ ReadPart(k, p) = summary_vector_Deserialize(p)
           /\ WrittenPart(6, p) = DLSA_Serialize(p) /\ ReadPart(6, p) = DLSA_Deserialize(p)
           /\ WrittenPart(7, p) = CSYNC_Serialize(p) /\ ReadPart(7, p) = CSYNC_Deserialize(p)
           /\ WrittenPart(8, p) = CSYNC_ACK_Serialize(p)
           /\ ReadPart(8, p) = CSYNC_ACK_Deserialize(p)
           /\ WrittenPart(9, p) = DATA_Serialize(p) /\ ReadPart(9, p) = DATA_Deserialize(p)
           /\ WrittenPart(10, p) = <<Net32(p.src)>>
           /\ ReadPart(10, p) = [src |-> Read(p[1], "net32")]
  BY DEF WrittenPart, ReadPart

-----------------------------------------------------------------------------
(* The messages that the handlers build, with values in V: vectors as long *)
(* as length says, arrays of PAYLOAD_SIZE.                                 *)

Lsas(V) ==
    {p \in [length : Nat, addrs : Seq(V), sett : Seq(V), lett : Seq(V)] :
        Len(p.addrs) = p.length /\ Len(p.sett) = p.length /\ Len(p.lett) = p.length}
Lists(V) ==
    {p \in [length : Nat, addrs : Seq(V), nums : Seq(V)] :
        Len(p.addrs) = p.length /\ Len(p.nums) = p.length}
Dlsas(V) ==
    {p \in [length : Nat, addrs : Seq(V), probs : Seq(V)] :
        Len(p.addrs) = p.length /\ Len(p.probs) = p.length}
Csyncs(V) == [src : V, dest : V, count : V]
CsyncAcks(V) ==
    {p \in [src : V, dest : V, count : V, bitmap : Seq(V)] : Len(p.bitmap) = PayloadSize}
Datas(V) ==
    {p \in [src : V, dest : V, pkt_no : V, payload_size : V, payload : Seq(V)] :
        Len(p.payload) = PayloadSize}

Probes(V) == {p \in [mac : Seq(V)] : Len(p.mac) = 6}
LsaAcks(V) == [src : V]

Headers(V) ==
    UNION {[type : {1}, seq : V, addr : V, part : Probes(V)],
           [type : {3}, seq : V, addr : V, part : Lsas(V)],
           [type : {4, 5}, seq : V, addr : V, part : Lists(V)],
           [type : {6}, seq : V, addr : V, part : Dlsas(V)],
           [type : {7}, seq : V, addr : V, part : Csyncs(V)],
           [type : {8}, seq : V, addr : V, part : CsyncAcks(V)],
           [type : {9}, seq : V, addr : V, part : Datas(V)],
           [type : {10}, seq : V, addr : V, part : LsaAcks(V)]}

\* An LSA is read as it was written.
LEMMA LsasAgain ==
    ASSUME NEW V, Nat \subseteq V, NEW p \in Lsas(V)
    PROVE  LSA_Serialize(p) \in Seq(Fields(V)) /\ LSA_Deserialize(LSA_Serialize(p)) = p
<1>1. /\ p.length \in V \cap Nat
      /\ p.addrs \in Seq(V)
      /\ p.sett \in Seq(V)
      /\ p.lett \in Seq(V)
      /\ Len(p.addrs) = p.length /\ Len(p.sett) = p.length /\ Len(p.lett) = p.length
  BY DEF Lsas
<1>2. p = [length |-> p.length, addrs |-> p.addrs, sett |-> p.sett, lett |-> p.lett]
  BY DEF Lsas
<1>. QED
  <2>1. LET r == [length |-> p.length, addrs |-> p.addrs, sett |-> p.sett, lett |-> p.lett]
            buf == LSA_Serialize(r)
        IN  buf \in Seq(Fields(V)) /\ LSA_Deserialize(buf) = r
    BY <1>1, LsaRead
  <2>. QED
    BY <1>2, <2>1

\* A summary vector with as many numbers as addresses, or its ACK, is read as it was written.
LEMMA ListsAgain ==
    ASSUME NEW V, Nat \subseteq V, NEW p \in Lists(V)
    PROVE  /\ summary_vector_Serialize(p) \in Seq(Fields(V))
           /\ summary_vector_Deserialize(summary_vector_Serialize(p)) = p
<1>1. /\ p.length \in V \cap Nat
      /\ p.addrs \in Seq(V)
      /\ p.nums \in Seq(V)
      /\ Len(p.addrs) = p.length /\ Len(p.nums) = p.length
  BY DEF Lists
<1>2. p = [length |-> p.length, addrs |-> p.addrs, nums |-> p.nums]
  BY DEF Lists
<1>. QED
  <2>1. p.length <= Len(p.nums) /\ SubSeq(p.nums, 1, p.length) = p.nums
    BY <1>1
  <2>2. LET r == [length |-> p.length, addrs |-> p.addrs, nums |-> p.nums]
            buf == summary_vector_Serialize(r)
        IN  /\ buf \in Seq(Fields(V))
            /\ summary_vector_Deserialize(buf) =
                  [length |-> p.length, addrs |-> p.addrs, nums |-> SubSeq(p.nums, 1, p.length)]
    BY <1>1, <2>1, VectorRead
  <2>. QED
    BY <1>2, <2>1, <2>2

\* A DLSA is read as it was written.
LEMMA DlsasAgain ==
    ASSUME NEW V, Nat \subseteq V, NEW p \in Dlsas(V)
    PROVE  DLSA_Serialize(p) \in Seq(Fields(V)) /\ DLSA_Deserialize(DLSA_Serialize(p)) = p
<1>1. /\ p.length \in V \cap Nat
      /\ p.addrs \in Seq(V)
      /\ p.probs \in Seq(V)
      /\ Len(p.addrs) = p.length /\ Len(p.probs) = p.length
  BY DEF Dlsas
<1>2. p = [length |-> p.length, addrs |-> p.addrs, probs |-> p.probs]
  BY DEF Dlsas
<1>. QED
  <2>1. LET r == [length |-> p.length, addrs |-> p.addrs, probs |-> p.probs]
            buf == DLSA_Serialize(r)
        IN  buf \in Seq(Fields(V)) /\ DLSA_Deserialize(buf) = r
    BY <1>1, DlsaRead
  <2>. QED
    BY <1>2, <2>1

\* A CSYNC is read as it was written.
LEMMA CsyncsAgain ==
    ASSUME NEW V, Nat \subseteq V, NEW p \in Csyncs(V)
    PROVE  CSYNC_Serialize(p) \in Seq(Fields(V)) /\ CSYNC_Deserialize(CSYNC_Serialize(p)) = p
<1>1. /\ p.src \in V
      /\ p.dest \in V
      /\ p.count \in V
  BY DEF Csyncs
<1>2. p = [src |-> p.src, dest |-> p.dest, count |-> p.count]
  BY DEF Csyncs
<1>. QED
  <2>1. LET r == [src |-> p.src, dest |-> p.dest, count |-> p.count]
            buf == CSYNC_Serialize(r)
        IN  buf \in Seq(Fields(V)) /\ CSYNC_Deserialize(buf) = r
    BY <1>1, CsyncRead
  <2>. QED
    BY <1>2, <2>1

\* A CSYNC ACK is read as it was written.
LEMMA CsyncAcksAgain ==
    ASSUME NEW V, Nat \subseteq V, NEW p \in CsyncAcks(V)
    PROVE  CSYNC_ACK_Serialize(p) \in Seq(Fields(V)) /\ CSYNC_ACK_Deserialize(CSYNC_ACK_Serialize(p)) = p
<1>1. /\ p.src \in V
      /\ p.dest \in V
      /\ p.count \in V
      /\ p.bitmap \in Seq(V)
      /\ Len(p.bitmap) = PayloadSize
  BY DEF CsyncAcks
<1>2. p = [src |-> p.src, dest |-> p.dest, count |-> p.count, bitmap |-> p.bitmap]
  BY DEF CsyncAcks
<1>. QED
  <2>1. PICK src, dest, count, bits :
           src = p.src /\ dest = p.dest /\ count = p.count /\ bits = p.bitmap
    OBVIOUS
  <2>2. src \in V /\ dest \in V /\ count \in V /\ bits \in Seq(V) /\ Len(bits) = PayloadSize
    BY <1>1, <2>1
  <2>3. LET r == [src |-> src, dest |-> dest, count |-> count, bitmap |-> bits]
            buf == CSYNC_ACK_Serialize(r)
        IN  buf \in Seq(Fields(V)) /\ CSYNC_ACK_Deserialize(buf) = r
    BY ONLY <2>2, CsyncAckRead, PayloadSize \in Nat
  <2>. QED
    BY <1>2, <2>1, <2>3

\* A data packet is read as it was written.
LEMMA DatasAgain ==
    ASSUME NEW V, Nat \subseteq V, NEW p \in Datas(V)
    PROVE  DATA_Serialize(p) \in Seq(Fields(V)) /\ DATA_Deserialize(DATA_Serialize(p)) = p
<1>1. /\ p.src \in V
      /\ p.dest \in V
      /\ p.pkt_no \in V
      /\ p.payload_size \in V
      /\ p.payload \in Seq(V)
      /\ Len(p.payload) = PayloadSize
  BY DEF Datas
<1>2. p = [src |-> p.src, dest |-> p.dest, pkt_no |-> p.pkt_no, payload_size |-> p.payload_size, payload |-> p.payload]
  BY DEF Datas
<1>. QED
  <2>1. PICK src, dest, no, size, bytes :
           /\ src = p.src /\ dest = p.dest /\ no = p.pkt_no /\ size = p.payload_size
           /\ bytes = p.payload
    OBVIOUS
  <2>2. /\ src \in V /\ dest \in V /\ no \in V /\ size \in V
        /\ bytes \in Seq(V) /\ Len(bytes) = PayloadSize
    BY <1>1, <2>1
  <2>3. p = [src |-> src, dest |-> dest, pkt_no |-> no, payload_size |-> size,
             payload |-> bytes]
    BY <1>2, <2>1
  <2>. QED
    BY ONLY <2>2, <2>3, DataRead, PayloadSize \in Nat

\* Every message with vectors as long as its length says, and every message of the
\* transfer, is read as it was written (MessageHeader::Serialize and Deserialize).
THEOREM ReadAsWritten ==
    ASSUME NEW V, Nat \subseteq V, NEW h \in Headers(V)
    PROVE  Deserialize(Serialize(h)) = h
<1>1. CASE h \in [type : {3}, seq : V, addr : V, part : Lsas(V)]
  <2>1. PICK k, seq, addr, p :
           /\ k = 3 /\ seq \in V /\ addr \in V /\ p \in Lsas(V)
           /\ h = [type |-> k, seq |-> seq, addr |-> addr, part |-> p]
    <3>1. h = [type |-> h.type, seq |-> h.seq, addr |-> h.addr, part |-> h.part]
      BY <1>1
    <3>. QED
      BY <1>1, <3>1
  <2>2. PICK s : s = LSA_Serialize(p)
    OBVIOUS
  <2>3. s \in Seq(Fields(V)) /\ LSA_Deserialize(s) = p
    BY <2>1, <2>2, LsasAgain
  <2>4. WrittenPart(k, p) = s /\ ReadPart(k, s) = p
    BY <2>1, <2>2, <2>3, PartsOfTypes
  <2>5. k \in V
    BY <2>1
  <2>. QED
    BY <2>1, <2>3, <2>4, <2>5, HeaderRead
<1>2. CASE h \in [type : {4, 5}, seq : V, addr : V, part : Lists(V)]
  <2>1. PICK k, seq, addr, p :
           /\ k \in {4, 5} /\ seq \in V /\ addr \in V /\ p \in Lists(V)
           /\ h = [type |-> k, seq |-> seq, addr |-> addr, part |-> p]
    <3>1. h = [type |-> h.type, seq |-> h.seq, addr |-> h.addr, part |-> h.part]
      BY <1>2
    <3>. QED
      BY <1>2, <3>1
  <2>2. PICK s : s = summary_vector_Serialize(p)
    OBVIOUS
  <2>3. s \in Seq(Fields(V)) /\ summary_vector_Deserialize(s) = p
    BY <2>1, <2>2, ListsAgain
  <2>4. WrittenPart(k, p) = s /\ ReadPart(k, s) = p
    BY <2>1, <2>2, <2>3, PartsOfTypes
  <2>5. k \in V
    BY <2>1
  <2>. QED
    BY <2>1, <2>3, <2>4, <2>5, HeaderRead
<1>3. CASE h \in [type : {6}, seq : V, addr : V, part : Dlsas(V)]
  <2>1. PICK k, seq, addr, p :
           /\ k = 6 /\ seq \in V /\ addr \in V /\ p \in Dlsas(V)
           /\ h = [type |-> k, seq |-> seq, addr |-> addr, part |-> p]
    <3>1. h = [type |-> h.type, seq |-> h.seq, addr |-> h.addr, part |-> h.part]
      BY <1>3
    <3>. QED
      BY <1>3, <3>1
  <2>2. PICK s : s = DLSA_Serialize(p)
    OBVIOUS
  <2>3. s \in Seq(Fields(V)) /\ DLSA_Deserialize(s) = p
    BY <2>1, <2>2, DlsasAgain
  <2>4. WrittenPart(k, p) = s /\ ReadPart(k, s) = p
    BY <2>1, <2>2, <2>3, PartsOfTypes
  <2>5. k \in V
    BY <2>1
  <2>. QED
    BY <2>1, <2>3, <2>4, <2>5, HeaderRead
<1>4. CASE h \in [type : {7}, seq : V, addr : V, part : Csyncs(V)]
  <2>1. PICK k, seq, addr, p :
           /\ k = 7 /\ seq \in V /\ addr \in V /\ p \in Csyncs(V)
           /\ h = [type |-> k, seq |-> seq, addr |-> addr, part |-> p]
    <3>1. h = [type |-> h.type, seq |-> h.seq, addr |-> h.addr, part |-> h.part]
      BY <1>4
    <3>. QED
      BY <1>4, <3>1
  <2>2. PICK s : s = CSYNC_Serialize(p)
    OBVIOUS
  <2>3. s \in Seq(Fields(V)) /\ CSYNC_Deserialize(s) = p
    BY <2>1, <2>2, CsyncsAgain
  <2>4. WrittenPart(k, p) = s /\ ReadPart(k, s) = p
    BY <2>1, <2>2, <2>3, PartsOfTypes
  <2>5. k \in V
    BY <2>1
  <2>. QED
    BY <2>1, <2>3, <2>4, <2>5, HeaderRead
<1>5. CASE h \in [type : {8}, seq : V, addr : V, part : CsyncAcks(V)]
  <2>1. PICK k, seq, addr, p :
           /\ k = 8 /\ seq \in V /\ addr \in V /\ p \in CsyncAcks(V)
           /\ h = [type |-> k, seq |-> seq, addr |-> addr, part |-> p]
    <3>1. h = [type |-> h.type, seq |-> h.seq, addr |-> h.addr, part |-> h.part]
      BY <1>5
    <3>. QED
      BY <1>5, <3>1
  <2>2. PICK s : s = CSYNC_ACK_Serialize(p)
    OBVIOUS
  <2>3. s \in Seq(Fields(V)) /\ CSYNC_ACK_Deserialize(s) = p
    BY <2>1, <2>2, CsyncAcksAgain
  <2>4. WrittenPart(k, p) = s /\ ReadPart(k, s) = p
    BY <2>1, <2>2, <2>3, PartsOfTypes
  <2>5. k \in V
    BY <2>1
  <2>. QED
    BY <2>1, <2>3, <2>4, <2>5, HeaderRead
<1>6. CASE h \in [type : {9}, seq : V, addr : V, part : Datas(V)]
  <2>1. PICK k, seq, addr, p :
           /\ k = 9 /\ seq \in V /\ addr \in V /\ p \in Datas(V)
           /\ h = [type |-> k, seq |-> seq, addr |-> addr, part |-> p]
    <3>1. h = [type |-> h.type, seq |-> h.seq, addr |-> h.addr, part |-> h.part]
      BY <1>6
    <3>. QED
      BY <1>6, <3>1
  <2>2. PICK s : s = DATA_Serialize(p)
    OBVIOUS
  <2>3. s \in Seq(Fields(V)) /\ DATA_Deserialize(s) = p
    BY <2>1, <2>2, DatasAgain
  <2>4. WrittenPart(k, p) = s /\ ReadPart(k, s) = p
    BY <2>1, <2>2, <2>3, PartsOfTypes
  <2>5. k \in V
    BY <2>1
  <2>. QED
    BY <2>1, <2>3, <2>4, <2>5, HeaderRead
<1>7. CASE h \in [type : {1}, seq : V, addr : V, part : Probes(V)]
  <2>1. PICK k, seq, addr, p :
           /\ k = 1 /\ seq \in V /\ addr \in V /\ p \in Probes(V)
           /\ h = [type |-> k, seq |-> seq, addr |-> addr, part |-> p]
    <3>1. h = [type |-> h.type, seq |-> h.seq, addr |-> h.addr, part |-> h.part]
      BY <1>7
    <3>. QED
      BY <1>7, <3>1
  <2>2. PICK s : s = Put("octet", p.mac)
    OBVIOUS
  <2>3. p.mac \in Seq(V) /\ Len(p.mac) = 6 /\ p = [mac |-> p.mac]
    BY <2>1 DEF Probes
  <2>4. s \in Seq(Fields(V)) /\ Get(s, 0, 6, "octet") = p.mac
    BY <2>2, <2>3, ProbeRead
  <2>5. WrittenPart(k, p) = s /\ ReadPart(k, s) = p
    BY <2>1, <2>2, <2>3, <2>4, PartsOfTypes
  <2>6. k \in V
    BY <2>1
  <2>. QED
    BY <2>1, <2>4, <2>5, <2>6, HeaderRead
<1>8. CASE h \in [type : {10}, seq : V, addr : V, part : LsaAcks(V)]
  <2>1. PICK k, seq, addr, p :
           /\ k = 10 /\ seq \in V /\ addr \in V /\ p \in LsaAcks(V)
           /\ h = [type |-> k, seq |-> seq, addr |-> addr, part |-> p]
    <3>1. h = [type |-> h.type, seq |-> h.seq, addr |-> h.addr, part |-> h.part]
      BY <1>8
    <3>. QED
      BY <1>8, <3>1
  <2>2. PICK s : s = <<Net32(p.src)>>
    OBVIOUS
  <2>3. p.src \in V /\ p = [src |-> p.src]
    BY <2>1 DEF LsaAcks
  <2>4. s \in Seq(Fields(V)) /\ Read(s[1], "net32") = p.src
    BY <2>2, <2>3, LsaAckRead
  <2>5. WrittenPart(k, p) = s /\ ReadPart(k, s) = p
    BY <2>1, <2>2, <2>3, <2>4, PartsOfTypes
  <2>6. k \in V
    BY <2>1
  <2>. QED
    BY <2>1, <2>4, <2>5, <2>6, HeaderRead
<1>. QED
  BY <1>1, <1>2, <1>3, <1>4, <1>5, <1>6, <1>7, <1>8 DEF Headers

\* Summary vectors with more numbers than length, and what is left of one.
Vectors(V) ==
    {p \in [length : Nat, addrs : Seq(V), nums : Seq(V)] :
        Len(p.addrs) = p.length /\ p.length <= Len(p.nums)}
Cut(p) ==
    [length |-> p.length, addrs |-> p.addrs, nums |-> SubSeq(p.nums, 1, p.length)]

\* A summary vector may have more numbers than it counts (SendSummaryVector writes
\* one more): the rest is not read.
THEOREM VectorIsCut ==
    ASSUME NEW V, Nat \subseteq V,
           NEW h \in [type : {4}, seq : V, addr : V, part : Vectors(V)]
    PROVE  Deserialize(Serialize(h)) =
              [type |-> 4, seq |-> h.seq, addr |-> h.addr, part |-> Cut(h.part)]
<1>1. PICK p, r, s : p = h.part /\ r = Cut(p) /\ s = summary_vector_Serialize(p)
  OBVIOUS
<1>2. h.seq \in V /\ h.addr \in V
  OBVIOUS
<1>3. h = [type |-> 4, seq |-> h.seq, addr |-> h.addr, part |-> p]
  BY <1>1
<1>4. p \in Vectors(V)
  BY <1>1
<1>5. /\ p = [length |-> p.length, addrs |-> p.addrs, nums |-> p.nums]
      /\ p.length \in V \cap Nat /\ p.addrs \in Seq(V) /\ p.nums \in Seq(V)
      /\ Len(p.addrs) = p.length /\ p.length <= Len(p.nums)
  BY <1>4 DEF Vectors
<1>6. s \in Seq(Fields(V)) /\ summary_vector_Deserialize(s) = r
  BY <1>1, <1>5, VectorRead DEF Cut
<1>7. WrittenPart(4, p) = s /\ ReadPart(4, s) = r /\ 4 \in V
  BY <1>1, <1>6, PartsOfTypes
<1>8. PICK seq, addr : seq = h.seq /\ addr = h.addr
  OBVIOUS
<1>9. Deserialize(Serialize([type |-> 4, seq |-> seq, addr |-> addr, part |-> p]))
         = [type |-> 4, seq |-> seq, addr |-> addr, part |-> r]
  BY <1>2, <1>6, <1>7, <1>8, HeaderRead
<1>. QED
  BY <1>1, <1>3, <1>8, <1>9
-----------------------------------------------------------------------------
(* The bytes of a message.                                                 *)

Less == OpToRel(<, Nat)

\* It is well-founded.
LEMMA LessWellFounded == IsWellFoundedOn(Less, Nat)
BY NatLessThanWellFounded, Zenon DEF Less

\* It contains every number with each greater one.
LEMMA LessIs == \A x, y \in Nat : x < y => <<x, y>> \in Less
BY DEF Less, OpToRel

\* A set that contains 0 and the successor of each of its numbers below n contains
\* the numbers up to n.
LEMMA CountTo ==
    ASSUME NEW n \in Nat, NEW T, 0 \in T, \A i \in 0 .. n - 1 : i \in T => i + 1 \in T
    PROVE  \A i \in 0 .. n : i \in T
<1>. SUFFICES ASSUME (0 .. n) \ T # {} PROVE FALSE
  OBVIOUS
<1>1. PICK x \in (0 .. n) \ T : \A y \in (0 .. n) \ T : ~ (<<y, x>> \in Less)
  <2>1. (0 .. n) \ T \subseteq Nat
    OBVIOUS
  <2>. QED
    BY <2>1, LessWellFounded, WFMin
<1>2. x # 0 /\ x - 1 \in 0 .. n - 1 /\ x - 1 \in 0 .. n /\ x \in Nat
  OBVIOUS
<1>3. x - 1 \in T
  <2>1. <<x - 1, x>> \in Less
    <3>1. x - 1 \in Nat /\ x - 1 < x
      BY <1>2
    <3>. QED
      BY <1>2, <3>1, LessIs
  <2>. QED
    BY <1>1, <1>2, <2>1
<1>4. (x - 1) + 1 \in T
  BY <1>2, <1>3
<1>. QED
  BY <1>2, <1>4

\* The first j fields of s have four bytes, the others w.
Shape(s, j, w) ==
    /\ j \in 0 .. Len(s) /\ w \in {1, 4, 8}
    /\ \A i \in 1 .. j : Bytes(s[i]) = 4
    /\ \A i \in j + 1 .. Len(s) : Bytes(s[i]) = w

\* The bytes up to each field, in closed form.
Upto(j, w, i) == IF i <= j THEN 4 * i ELSE 4 * j + w * (i - j)

\* One more field.
LEMMA UptoNext ==
    ASSUME NEW j \in Nat, NEW w \in {1, 4, 8}, NEW i \in Nat
    PROVE  Upto(j, w, i + 1) = Upto(j, w, i) + (IF i + 1 <= j THEN 4 ELSE w)
<1>1. CASE w = 1
  BY <1>1 DEF Upto
<1>2. CASE w = 4
  BY <1>2 DEF Upto
<1>3. CASE w = 8
  BY <1>3 DEF Upto
<1>. QED
  BY <1>1, <1>2, <1>3

\* What the sum over the fields comes to.
LEMMA SizeOfShape ==
    ASSUME NEW S, NEW s \in Seq(S), NEW j, NEW w, Shape(s, j, w)
    PROVE  Sizes(s)[Len(s)] = 4 * j + w * (Len(s) - j)
<1>1. PICK n : n = Len(s)
  OBVIOUS
<1>. DEFINE Body1(f) == [i \in 0 .. n |-> IF i = 0 THEN 0 ELSE f[i - 1] + Bytes(s[i])]
<1>2. n \in Nat /\ j \in 0 .. n /\ w \in {1, 4, 8}
  BY <1>1 DEF Shape
<1>3. \A i \in 1 .. n : Bytes(s[i]) = IF i <= j THEN 4 ELSE w
  BY <1>1, <1>2 DEF Shape
<1>4. \A i \in 1 .. n : Upto(j, w, i) = Upto(j, w, i - 1) + Bytes(s[i])
  <2>. SUFFICES ASSUME NEW i \in 1 .. n
                PROVE  Upto(j, w, i) = Upto(j, w, i - 1) + Bytes(s[i])
    OBVIOUS
  <2>1. PICK k : k = i - 1
    OBVIOUS
  <2>2. k \in Nat /\ i = k + 1 /\ j \in Nat
    BY <1>2, <2>1
  <2>3. Upto(j, w, k + 1) = Upto(j, w, k) + (IF k + 1 <= j THEN 4 ELSE w)
    BY ONLY <1>2, <2>2, UptoNext
  <2>. QED
    BY <1>3, <2>1, <2>2, <2>3
<1>5. Upto(j, w, 0) = 0
  BY <1>2 DEF Upto
<1>6. PICK g : g = [i \in 0 .. n |-> Upto(j, w, i)]
  OBVIOUS
<1>7. g = Body1(g)
  <2>1. \A i \in 0 .. n : g[i] = IF i = 0 THEN 0 ELSE g[i - 1] + Bytes(s[i])
    <3>. SUFFICES ASSUME NEW i \in 0 .. n
                  PROVE  g[i] = IF i = 0 THEN 0 ELSE g[i - 1] + Bytes(s[i])
      OBVIOUS
    <3>1. CASE i = 0
      BY <1>2, <1>5, <1>6, <3>1
    <3>2. CASE i # 0
      <4>1. i \in 1 .. n /\ i - 1 \in 0 .. n
        BY <1>2, <3>2
      <4>. QED
        BY <1>4, <1>6, <3>2, <4>1
    <3>. QED
      BY <3>1, <3>2
  <2>. QED
    BY <1>6, <2>1
<1>8. Sizes(s) = CHOOSE f : f = Body1(f)
  BY <1>1 DEF Sizes
<1>9. Sizes(s) = Body1(Sizes(s))
  BY <1>7, <1>8
<1>10. PICK f : f = Sizes(s)
  OBVIOUS
<1>11. f = Body1(f)
  BY <1>9, <1>10
<1>12. f[0] = 0 /\ \A i \in 1 .. n : f[i] = f[i - 1] + Bytes(s[i])
  BY <1>2, <1>11
<1>13. \A i \in 0 .. n : f[i] = Upto(j, w, i)
  <2>. DEFINE T == {i \in 0 .. n : f[i] = Upto(j, w, i)}
  <2>1. 0 \in T
    BY <1>2, <1>5, <1>12
  <2>2. \A i \in 0 .. n - 1 : i \in T => i + 1 \in T
    <3>. SUFFICES ASSUME NEW i \in 0 .. n - 1, i \in T PROVE i + 1 \in T
      OBVIOUS
    <3>1. PICK k : k = i + 1
      OBVIOUS
    <3>2. k \in 1 .. n /\ k \in 0 .. n /\ k - 1 = i
      BY <1>2, <3>1
    <3>3. f[k] = Upto(j, w, k)
      BY <1>4, <1>12, <3>2
    <3>. QED
      BY <3>1, <3>2, <3>3
  <2>3. \A i \in 0 .. n : i \in T
    <3>. HIDE DEF T
    <3>. QED
      BY <1>2, <2>1, <2>2, CountTo
  <2>. QED
    BY <2>3
<1>14. Upto(j, w, n) = 4 * j + w * (n - j)
  <2>1. CASE w = 1
    BY <1>2, <2>1 DEF Upto
  <2>2. CASE w = 4
    BY <1>2, <2>2 DEF Upto
  <2>3. CASE w = 8
    BY <1>2, <2>3 DEF Upto
  <2>. QED
    BY <1>2, <2>1, <2>2, <2>3
<1>. QED
  BY <1>1, <1>2, <1>10, <1>13, <1>14
\* The width of a field.
LEMMA FieldBytes ==
    /\ \A v : Bytes(Net32(v)) = 4 /\ Bytes(Host32(v)) = 4
    /\ \A v : Bytes([kind |-> "net32", val |-> v]) = 4
    /\ \A v : Bytes([kind |-> "host32", val |-> v]) = 4
    /\ \A v : Bytes([kind |-> "net64", val |-> v]) = 8
    /\ \A v : Bytes([kind |-> "octet", val |-> v]) = 1
  BY DEF Bytes, Net32, Host32

WidthOf(k) == IF k = "net64" THEN 8 ELSE IF k = "octet" THEN 1 ELSE 4

\* The fields of a vector are all of one width.
LEMMA PutBytes ==
    ASSUME NEW V, NEW s \in Seq(V), NEW k \in Kinds
    PROVE  \A i \in 1 .. Len(s) : Bytes(Put(k, s)[i]) = WidthOf(k)
<1>. TAKE i \in 1 .. Len(s)
<1>1. Put(k, s)[i] = [kind |-> k, val |-> s[i]]
  BY PutIn
<1>2. PICK v : v = s[i]
  OBVIOUS
<1>. QED
  BY <1>1, <1>2, FieldBytes DEF WidthOf, Kinds

SizeIs(h, x) == Sizes(Serialize(h))[Len(Serialize(h))] = x

\* The bytes of a header with a structure of l fields, of which the first j have four.
Room(j, w, l) == 12 + (4 * j + w * (l - j))

\* The three fields of the header, four bytes each, come before those of the structure.
LEMMA HeaderSize ==
    ASSUME NEW V, NEW k \in V, NEW seq \in V, NEW addr \in V, NEW p,
           NEW s \in Seq(Fields(V)), WrittenPart(k, p) = s, NEW j, NEW w, Shape(s, j, w)
    PROVE  SizeIs([type |-> k, seq |-> seq, addr |-> addr, part |-> p], Room(j, w, Len(s)))
<1>1. PICK S, x, y, z : S = Fields(V) /\ x = Net32(k) /\ y = Net32(seq) /\ z = Net32(addr)
  OBVIOUS
<1>2. PICK buf : buf = <<x, y, z>> \o s
  OBVIOUS
<1>3. Serialize([type |-> k, seq |-> seq, addr |-> addr, part |-> p]) = buf
  BY <1>1, <1>2 DEF Serialize
<1>4. x \in S /\ y \in S /\ z \in S /\ s \in Seq(S)
  BY <1>1, FieldTypes
<1>5. /\ buf \in Seq(S) /\ Len(buf) = 3 + Len(s) /\ Len(s) \in Nat
      /\ buf[1] = x /\ buf[2] = y /\ buf[3] = z
      /\ \A i \in 1 .. Len(s) : buf[3 + i] = s[i]
  BY ONLY <1>2, <1>4
<1>6. Bytes(buf[1]) = 4 /\ Bytes(buf[2]) = 4 /\ Bytes(buf[3]) = 4
  BY <1>1, <1>5, FieldBytes
<1>7. PICK m : m = 3 + j
  OBVIOUS
<1>8. j \in 0 .. Len(s) /\ m \in 0 .. Len(buf) /\ w \in {1, 4, 8}
  BY <1>5, <1>7 DEF Shape
<1>9. ASSUME NEW i \in 4 .. Len(buf) PROVE Bytes(buf[i]) = IF i <= m THEN 4 ELSE w
  <2>1. PICK q : q = i - 3
    OBVIOUS
  <2>2. q \in 1 .. Len(s) /\ i = 3 + q /\ (i <= m <=> q <= j)
    BY <1>5, <1>7, <1>8, <2>1
  <2>3. buf[i] = s[q]
    BY <1>5, <2>2
  <2>4. Bytes(s[q]) = IF q <= j THEN 4 ELSE w
    BY <1>8, <2>2 DEF Shape
  <2>. QED
    BY <2>2, <2>3, <2>4
<1>10. \A i \in 1 .. 3 : Bytes(buf[i]) = 4
  BY <1>6
<1>11. Shape(buf, m, w)
  <2>1. \A i \in 1 .. m : Bytes(buf[i]) = 4
    <3>. SUFFICES ASSUME NEW i \in 1 .. m PROVE Bytes(buf[i]) = 4
      OBVIOUS
    <3>1. i \in 1 .. 3 \/ (i \in 4 .. Len(buf) /\ i <= m)
      BY <1>5, <1>8
    <3>. QED
      BY <1>9, <1>10, <3>1
  <2>2. \A i \in m + 1 .. Len(buf) : Bytes(buf[i]) = w
    <3>. SUFFICES ASSUME NEW i \in m + 1 .. Len(buf) PROVE Bytes(buf[i]) = w
      OBVIOUS
    <3>1. i \in 4 .. Len(buf) /\ ~ (i <= m)
      BY <1>5, <1>7, <1>8
    <3>. QED
      BY <1>9, <3>1
  <2>. QED
    BY <1>8, <2>1, <2>2 DEF Shape
<1>12. Sizes(buf)[Len(buf)] = 4 * m + w * (Len(buf) - m)
  BY <1>5, <1>11, SizeOfShape
<1>13. 4 * m + w * (Len(buf) - m) = 12 + (4 * j + w * (Len(s) - j))
  <2>1. Len(buf) - m = Len(s) - j
    BY <1>5, <1>7, <1>8
  <2>. QED
    BY <1>7, <1>8, <2>1
<1>. QED
  BY <1>3, <1>12, <1>13 DEF SizeIs, Room
\* Fields of four bytes.
LEMMA FlatShape ==
    ASSUME NEW S, NEW s \in Seq(S), \A i \in 1 .. Len(s) : Bytes(s[i]) = 4, NEW w \in {1, 4, 8}
    PROVE  Shape(s, Len(s), w)
  BY DEF Shape

Wide(t, w) == \A i \in 1 .. Len(t) : Bytes(t[i]) = w
Joined(s, t) == s \o t

\* More fields of width w behind the others.
LEMMA ShapeMore ==
    ASSUME NEW S, NEW s \in Seq(S), NEW t \in Seq(S), NEW j, NEW w, Shape(s, j, w),
           Wide(t, w)
    PROVE  /\ Shape(Joined(s, t), j, w) /\ Joined(s, t) \in Seq(S)
           /\ Len(Joined(s, t)) = Len(s) + Len(t)
<1>0. PICK buf : buf = s \o t
  OBVIOUS
<1>1. /\ buf \in Seq(S) /\ Len(buf) = Len(s) + Len(t) /\ Len(s) \in Nat /\ Len(t) \in Nat
      /\ \A i \in 1 .. Len(s) : buf[i] = s[i]
      /\ \A i \in 1 .. Len(t) : buf[Len(s) + i] = t[i]
  BY <1>0
<1>2. /\ j \in 0 .. Len(s) /\ w \in {1, 4, 8}
      /\ \A i \in 1 .. j : Bytes(s[i]) = 4
      /\ \A i \in j + 1 .. Len(s) : Bytes(s[i]) = w
  BY DEF Shape
<1>3. ASSUME NEW i \in 1 .. j PROVE Bytes(buf[i]) = 4
  <2>1. i \in 1 .. Len(s)
    BY <1>1, <1>2
  <2>2. buf[i] = s[i]
    BY <1>1, <2>1
  <2>. QED
    BY <1>2, <2>2
<1>4. ASSUME NEW i \in j + 1 .. Len(buf) PROVE Bytes(buf[i]) = w
  <2>1. CASE i <= Len(s)
    <3>1. i \in 1 .. Len(s) /\ i \in j + 1 .. Len(s)
      BY <1>1, <1>2, <2>1
    <3>. QED
      BY <1>1, <1>2, <3>1
  <2>2. CASE i > Len(s)
    <3>1. PICK q : q = i - Len(s)
      OBVIOUS
    <3>2. q \in 1 .. Len(t) /\ Len(s) + q = i
      BY <1>1, <1>2, <2>2, <3>1
    <3>3. buf[i] = t[q]
      BY <1>1, <3>2
    <3>. QED
      BY <3>2, <3>3 DEF Wide
  <2>. QED
    BY <1>1, <1>2, <2>1, <2>2
<1>5. j \in 0 .. Len(buf)
  BY <1>1, <1>2
<1>6. Shape(buf, j, w)
  BY <1>1, <1>2, <1>3, <1>4, <1>5 DEF Shape
<1>. QED
  BY <1>0, <1>1, <1>6 DEF Joined

\* A count and two vectors.
LEMMA CountedShape ==
    ASSUME NEW V, NEW n \in V \cap Nat, NEW A \in Seq(V), NEW B \in Seq(V), Len(A) = n,
           NEW buf, buf = Counted(n, A, B)
    PROVE  /\ buf \in Seq(Fields(V)) /\ Len(buf) = 1 + n + Len(B)
           /\ Shape(buf, 1 + n, 8)
<1>1. PICK PA, PB, x, S, F :
         /\ PA = Put("net32", A) /\ PB = Put("net64", B) /\ x = Host32(n) /\ S = Fields(V)
         /\ F = <<x>> \o PA
  OBVIOUS
<1>2. /\ x \in S /\ Bytes(x) = 4
      /\ PA \in Seq(S) /\ Len(PA) = n /\ PB \in Seq(S) /\ Len(PB) = Len(B)
  BY <1>1, PutIn, FieldTypes, FieldBytes DEF Kinds
<1>3. \A i \in 1 .. Len(PA) : Bytes(PA[i]) = 4
  BY <1>1, <1>2, PutBytes DEF Kinds, WidthOf
<1>4. Wide(PB, 8)
  BY <1>1, <1>2, PutBytes DEF Kinds, WidthOf, Wide
<1>5. /\ F \in Seq(S) /\ Len(F) = 1 + n /\ F[1] = x
      /\ \A i \in 1 .. Len(PA) : F[1 + i] = PA[i]
  BY <1>1, <1>2
<1>6. \A i \in 1 .. Len(F) : Bytes(F[i]) = 4
  <2>. SUFFICES ASSUME NEW i \in 1 .. Len(F) PROVE Bytes(F[i]) = 4
    OBVIOUS
  <2>1. CASE i = 1
    BY <1>2, <1>5, <2>1
  <2>2. CASE i # 1
    <3>1. PICK q : q = i - 1
      OBVIOUS
    <3>2. q \in 1 .. Len(PA) /\ 1 + q = i
      BY <1>2, <1>5, <2>2, <3>1
    <3>. QED
      BY <1>3, <1>5, <3>2
  <2>. QED
    BY <2>1, <2>2
<1>7. Shape(F, Len(F), 8)
  BY <1>5, <1>6, FlatShape
<1>8. buf = Joined(F, PB)
  BY <1>1 DEF Counted, Joined
<1>9. Shape(buf, Len(F), 8) /\ buf \in Seq(S) /\ Len(buf) = Len(F) + Len(PB)
  BY ONLY <1>2, <1>4, <1>5, <1>7, <1>8, ShapeMore
<1>. QED
  BY <1>1, <1>2, <1>5, <1>9

\* An LSA.
LEMMA LsaShape ==
    ASSUME NEW V, Nat \subseteq V, NEW p \in Lsas(V)
    PROVE  /\ Shape(LSA_Serialize(p), 1 + p.length, 8)
           /\ Len(LSA_Serialize(p)) = 1 + 3 * p.length
<1>1. PICK n, A, B, C : n = p.length /\ A = p.addrs /\ B = p.sett /\ C = p.lett
  OBVIOUS
<1>2. /\ n \in V \cap Nat /\ A \in Seq(V) /\ B \in Seq(V) /\ C \in Seq(V)
      /\ Len(A) = n /\ Len(B) = n /\ Len(C) = n
  BY <1>1 DEF Lsas
<1>3. PICK AB, PC, S : AB = Counted(n, A, B) /\ PC = Put("net64", C) /\ S = Fields(V)
  OBVIOUS
<1>4. AB \in Seq(S) /\ Len(AB) = 1 + n + n /\ Shape(AB, 1 + n, 8)
  BY <1>2, <1>3, CountedShape
<1>5. PC \in Seq(S) /\ Len(PC) = n
  BY <1>2, <1>3, PutIn DEF Kinds
<1>6. Wide(PC, 8)
  BY <1>2, <1>3, <1>5, PutBytes DEF Kinds, WidthOf, Wide
<1>7. PICK buf, j : buf = Joined(AB, PC) /\ j = 1 + n
  OBVIOUS
<1>8. LSA_Serialize(p) = buf
  BY <1>1, <1>3, <1>7 DEF LSA_Serialize, Counted, Joined
<1>9. Shape(buf, j, 8) /\ Len(buf) = Len(AB) + Len(PC)
  <2>1. Shape(AB, j, 8)
    BY <1>4, <1>7
  <2>. QED
    BY ONLY <1>4, <1>5, <1>6, <1>7, <2>1, ShapeMore
<1>. QED
  BY <1>1, <1>2, <1>4, <1>5, <1>7, <1>8, <1>9

\* A summary vector or its ACK; a DLSA has the same fields.
LEMMA ListShapes ==
    ASSUME NEW V, Nat \subseteq V
    PROVE  /\ \A p \in Lists(V) : /\ Shape(summary_vector_Serialize(p), 1 + p.length, 8)
                                  /\ Len(summary_vector_Serialize(p)) = 1 + 2 * p.length
           /\ \A p \in Dlsas(V) : /\ Shape(DLSA_Serialize(p), 1 + p.length, 8)
                                  /\ Len(DLSA_Serialize(p)) = 1 + 2 * p.length
<1>1. ASSUME NEW p \in Lists(V)
      PROVE  /\ Shape(summary_vector_Serialize(p), 1 + p.length, 8)
             /\ Len(summary_vector_Serialize(p)) = 1 + 2 * p.length
  <2>1. PICK n, A, B, buf : /\ n = p.length /\ A = p.addrs /\ B = p.nums
                            /\ buf = Counted(n, A, B)
    OBVIOUS
  <2>2. n \in V \cap Nat /\ A \in Seq(V) /\ B \in Seq(V) /\ Len(A) = n /\ Len(B) = n
    BY <2>1 DEF Lists
  <2>3. summary_vector_Serialize(p) = buf
    BY <2>1 DEF summary_vector_Serialize, Counted
  <2>4. Len(buf) = 1 + n + Len(B) /\ Shape(buf, 1 + n, 8)
    BY <2>1, <2>2, CountedShape
  <2>. QED
    BY <2>1, <2>2, <2>3, <2>4
<1>2. ASSUME NEW p \in Dlsas(V)
      PROVE  /\ Shape(DLSA_Serialize(p), 1 + p.length, 8)
             /\ Len(DLSA_Serialize(p)) = 1 + 2 * p.length
  <2>1. PICK n, A, B, buf : /\ n = p.length /\ A = p.addrs /\ B = p.probs
                            /\ buf = Counted(n, A, B)
    OBVIOUS
  <2>2. n \in V \cap Nat /\ A \in Seq(V) /\ B \in Seq(V) /\ Len(A) = n /\ Len(B) = n
    BY <2>1 DEF Dlsas
  <2>3. DLSA_Serialize(p) = buf
    BY <2>1 DEF DLSA_Serialize, Counted
  <2>4. Len(buf) = 1 + n + Len(B) /\ Shape(buf, 1 + n, 8)
    BY <2>1, <2>2, CountedShape
  <2>. QED
    BY <2>1, <2>2, <2>3, <2>4
<1>. QED
  BY <1>1, <1>2

\* The messages of the transfer.
LEMMA TransferShapes ==
    ASSUME NEW V, Nat \subseteq V
    PROVE  /\ \A p \in Csyncs(V) : /\ Shape(CSYNC_Serialize(p), 3, 4)
                                   /\ Len(CSYNC_Serialize(p)) = 3
           /\ \A p \in CsyncAcks(V) : /\ Shape(CSYNC_ACK_Serialize(p), 3, 4)
                                      /\ Len(CSYNC_ACK_Serialize(p)) = 3 + PayloadSize
           /\ \A p \in Datas(V) : /\ Shape(DATA_Serialize(p), 4, 1)
                                  /\ Len(DATA_Serialize(p)) = 4 + PayloadSize
<1>. DEFINE S == Fields(V)
<1>0. PayloadSize \in Nat
  BY HeaderAssumption
<1>1. ASSUME NEW src \in V, NEW dest \in V, NEW count \in V,
             NEW F, F = <<Net32(src), Net32(dest), Host32(count)>>
      PROVE  Shape(F, 3, 4) /\ F \in Seq(S) /\ Len(F) = 3
  <2>1. PICK x, y, z : x = Net32(src) /\ y = Net32(dest) /\ z = Host32(count)
    OBVIOUS
  <2>2. /\ x \in Fields(V) /\ y \in Fields(V) /\ z \in Fields(V)
        /\ Bytes(x) = 4 /\ Bytes(y) = 4 /\ Bytes(z) = 4
    BY <2>1, FieldTypes, FieldBytes
  <2>3. F = <<x, y, z>>
    BY <1>1, <2>1
  <2>4. F \in Seq(Fields(V)) /\ Len(F) = 3 /\ F[1] = x /\ F[2] = y /\ F[3] = z
    BY <2>2, <2>3
  <2>5. \A i \in 1 .. Len(F) : Bytes(F[i]) = 4
    BY <2>2, <2>4
  <2>6. Shape(F, Len(F), 4)
    BY <2>4, <2>5, FlatShape
  <2>. QED
    BY <2>4, <2>6
<1>2. ASSUME NEW p \in Csyncs(V)
      PROVE  Shape(CSYNC_Serialize(p), 3, 4) /\ Len(CSYNC_Serialize(p)) = 3
  BY <1>1 DEF Csyncs, CSYNC_Serialize
<1>3. ASSUME NEW p \in CsyncAcks(V)
      PROVE  /\ Shape(CSYNC_ACK_Serialize(p), 3, 4)
             /\ Len(CSYNC_ACK_Serialize(p)) = 3 + PayloadSize
  <2>1. PICK F, t, buf, T : /\ F = <<Net32(p.src), Net32(p.dest), Host32(p.count)>>
                            /\ t = Put("host32", p.bitmap) /\ buf = F \o t /\ T = S
    OBVIOUS
  <2>2. /\ p.src \in V /\ p.dest \in V /\ p.count \in V
        /\ p.bitmap \in Seq(V) /\ Len(p.bitmap) = PayloadSize
    BY DEF CsyncAcks
  <2>3. Shape(F, 3, 4) /\ F \in Seq(T) /\ Len(F) = 3
    BY <1>1, <2>1, <2>2
  <2>4. t \in Seq(T) /\ Len(t) = PayloadSize
    BY <2>1, <2>2, PutIn DEF Kinds
  <2>5. Wide(t, 4)
    BY <2>1, <2>2, <2>4, PutBytes DEF Kinds, WidthOf, Wide
  <2>6. buf = Joined(F, t)
    BY <2>1 DEF Joined
  <2>7. Shape(buf, 3, 4) /\ Len(buf) = Len(F) + Len(t)
    BY ONLY <2>3, <2>4, <2>5, <2>6, ShapeMore
  <2>8. CSYNC_ACK_Serialize(p) = buf
    BY <2>1 DEF CSYNC_ACK_Serialize
  <2>. QED
    BY <2>3, <2>4, <2>7, <2>8
<1>4. ASSUME NEW p \in Datas(V)
      PROVE  /\ Shape(DATA_Serialize(p), 4, 1)
             /\ Len(DATA_Serialize(p)) = 4 + PayloadSize
  <2>1. PICK x, y, z, w, F, t, buf, T :
           /\ x = Net32(p.src) /\ y = Net32(p.dest)
           /\ z = Host32(p.pkt_no) /\ w = Host32(p.payload_size)
           /\ F = <<x, y, z, w>> /\ t = Put("octet", p.payload) /\ buf = F \o t /\ T = S
    OBVIOUS
  <2>2. /\ p.src \in V /\ p.dest \in V /\ p.pkt_no \in V /\ p.payload_size \in V
        /\ p.payload \in Seq(V) /\ Len(p.payload) = PayloadSize
    BY DEF Datas
  <2>3. /\ x \in T /\ y \in T /\ z \in T /\ w \in T
        /\ Bytes(x) = 4 /\ Bytes(y) = 4 /\ Bytes(z) = 4 /\ Bytes(w) = 4
    BY <2>1, <2>2, FieldTypes, FieldBytes
  <2>4. F = <<x, y, z, w>>
    BY <2>1
  <2>5. F \in Seq(T) /\ Len(F) = 4 /\ F[1] = x /\ F[2] = y /\ F[3] = z /\ F[4] = w
    BY ONLY <2>3, <2>4
  <2>6. \A i \in 1 .. Len(F) : Bytes(F[i]) = 4
    BY ONLY <2>3, <2>5
  <2>7. Shape(F, Len(F), 1)
    BY ONLY <2>5, <2>6, FlatShape
  <2>8. Shape(F, 4, 1)
    BY <2>5, <2>7
  <2>9. t \in Seq(T) /\ Len(t) = PayloadSize
    BY <2>1, <2>2, PutIn DEF Kinds
  <2>10. Wide(t, 1)
    BY <2>1, <2>2, <2>9, PutBytes DEF Kinds, WidthOf, Wide
  <2>11. buf = Joined(F, t)
    BY <2>1 DEF Joined
  <2>12. Shape(buf, 4, 1) /\ Len(buf) = Len(F) + Len(t)
    BY ONLY <2>5, <2>8, <2>9, <2>10, <2>11, ShapeMore
  <2>13. DATA_Serialize(p) = buf
    BY <2>1 DEF DATA_Serialize
  <2>. QED
    BY <2>5, <2>9, <2>12, <2>13
<1>. QED
  BY <1>2, <1>3, <1>4

\* A link probe and the ACK of an LSA.
LEMMA SmallShapes ==
    ASSUME NEW V
    PROVE  /\ \A p \in Probes(V) : /\ Shape(Put("octet", p.mac), 0, 1)
                                   /\ Len(Put("octet", p.mac)) = 6
           /\ \A p \in LsaAcks(V) : /\ Shape(<<Net32(p.src)>>, 1, 4)
                                    /\ Len(<<Net32(p.src)>>) = 1
<1>1. ASSUME NEW p \in Probes(V)
      PROVE  Shape(Put("octet", p.mac), 0, 1) /\ Len(Put("octet", p.mac)) = 6
  <2>1. p.mac \in Seq(V) /\ Len(p.mac) = 6
    BY DEF Probes
  <2>2. PICK t : t = Put("octet", p.mac)
    OBVIOUS
  <2>3. Len(t) = 6
    BY <2>1, <2>2, PutIn DEF Kinds
  <2>4. \A i \in 1 .. Len(t) : Bytes(t[i]) = 1
    BY <2>1, <2>2, <2>3, PutBytes DEF Kinds, WidthOf
  <2>5. Shape(t, 0, 1)
    BY <2>3, <2>4 DEF Shape
  <2>. QED
    BY <2>2, <2>3, <2>5
<1>2. ASSUME NEW p \in LsaAcks(V)
      PROVE  Shape(<<Net32(p.src)>>, 1, 4) /\ Len(<<Net32(p.src)>>) = 1
  <2>1. PICK x, F : x = Net32(p.src) /\ F = <<x>>
    OBVIOUS
  <2>2. Bytes(x) = 4
    BY <2>1, FieldBytes
  <2>3. Len(F) = 1 /\ F[1] = x
    BY <2>1
  <2>4. Shape(F, 1, 4)
    BY <2>2, <2>3 DEF Shape
  <2>. QED
    BY <2>1, <2>3, <2>4
<1>. QED
  BY <1>1, <1>2
\* The sum over the fields of a header is what GetSerializedSize computes from the
\* structure, for each type.
LEMMA SizeOfParts ==
    ASSUME NEW V, Nat \subseteq V, NEW h \in Headers(V)
    PROVE  SizeIs(h, GetSerializedSize(h))
<1>0. PayloadSize \in Nat
  BY HeaderAssumption
<1>1. CASE h \in [type : {1}, seq : V, addr : V, part : Probes(V)]
  <2>1. PICK k, seq, addr, p :
           /\ k = 1 /\ seq \in V /\ addr \in V /\ p \in Probes(V)
           /\ h = [type |-> k, seq |-> seq, addr |-> addr, part |-> p]
    <3>1. h = [type |-> h.type, seq |-> h.seq, addr |-> h.addr, part |-> h.part]
      BY <1>1
    <3>. QED
      BY <1>1, <3>1
  <2>2. PICK s, j : s = Put("octet", p.mac) /\ j = 0
    OBVIOUS
  <2>3. p.mac \in Seq(V) /\ Len(p.mac) = 6
    BY <2>1 DEF Probes
  <2>4. s \in Seq(Fields(V))
    BY <2>2, <2>3, ProbeRead
  <2>5. Shape(s, j, 1) /\ Len(s) = 6
    BY <2>1, <2>2, SmallShapes
  <2>6. WrittenPart(k, p) = s
    BY <2>1, <2>2, PartsOfTypes
  <2>7. k \in V
    BY <2>1
  <2>8. SizeIs(h, Room(j, 1, Len(s)))
    BY <2>1, <2>4, <2>5, <2>6, <2>7, HeaderSize
  <2>9. GetSerializedSize(h) = 12 + 6
    BY <2>1 DEF GetSerializedSize
  <2>11. GetSerializedSize(h) = Room(j, 1, Len(s))
    <3>1. j = 0 /\ Len(s) = 6
      BY <2>2, <2>5
    <3>. QED
      BY ONLY <2>9, <3>1 DEF Room
  <2>. QED
    BY <2>8, <2>11
<1>2. CASE h \in [type : {3}, seq : V, addr : V, part : Lsas(V)]
  <2>1. PICK k, seq, addr, p :
           /\ k = 3 /\ seq \in V /\ addr \in V /\ p \in Lsas(V)
           /\ h = [type |-> k, seq |-> seq, addr |-> addr, part |-> p]
    <3>1. h = [type |-> h.type, seq |-> h.seq, addr |-> h.addr, part |-> h.part]
      BY <1>2
    <3>. QED
      BY <1>2, <3>1
  <2>2. PICK s, j : s = LSA_Serialize(p) /\ j = 1 + p.length
    OBVIOUS
  <2>4. s \in Seq(Fields(V))
    BY <2>1, <2>2, LsasAgain
  <2>5. Shape(s, j, 8) /\ Len(s) = 1 + 3 * p.length
    BY <2>1, <2>2, LsaShape
  <2>6. WrittenPart(k, p) = s
    BY <2>1, <2>2, PartsOfTypes
  <2>7. k \in V
    BY <2>1
  <2>8. SizeIs(h, Room(j, 8, Len(s)))
    BY <2>1, <2>4, <2>5, <2>6, <2>7, HeaderSize
  <2>9. GetSerializedSize(h) = 12 + (4 * Len(p.addrs) + 8 * Len(p.sett) + 8 * Len(p.lett) + 4)
    BY <2>1 DEF GetSerializedSize
  <2>10. p.length \in Nat /\ Len(p.addrs) = p.length /\ Len(p.sett) = p.length
        /\ Len(p.lett) = p.length
    BY <2>1 DEF Lsas
  <2>11. GetSerializedSize(h) = Room(j, 8, Len(s))
    <3>1. PICK n : n = p.length
      OBVIOUS
    <3>2. n \in Nat /\ GetSerializedSize(h) = 12 + (4 * n + 8 * n + 8 * n + 4)
      BY <2>9, <2>10, <3>1
    <3>3. j = 1 + n /\ Len(s) = 1 + 3 * n
      BY <2>2, <2>5, <3>1
    <3>. QED
      BY ONLY <3>2, <3>3 DEF Room
  <2>. QED
    BY <2>8, <2>11
<1>3. CASE h \in [type : {4, 5}, seq : V, addr : V, part : Lists(V)]
  <2>1. PICK k, seq, addr, p :
           /\ k \in {4, 5} /\ seq \in V /\ addr \in V /\ p \in Lists(V)
           /\ h = [type |-> k, seq |-> seq, addr |-> addr, part |-> p]
    <3>1. h = [type |-> h.type, seq |-> h.seq, addr |-> h.addr, part |-> h.part]
      BY <1>3
    <3>. QED
      BY <1>3, <3>1
  <2>2. PICK s, j : s = summary_vector_Serialize(p) /\ j = 1 + p.length
    OBVIOUS
  <2>4. s \in Seq(Fields(V))
    BY <2>1, <2>2, ListsAgain
  <2>5. Shape(s, j, 8) /\ Len(s) = 1 + 2 * p.length
    BY <2>1, <2>2, ListShapes
  <2>6. WrittenPart(k, p) = s
    BY <2>1, <2>2, PartsOfTypes
  <2>7. k \in V
    BY <2>1
  <2>8. SizeIs(h, Room(j, 8, Len(s)))
    BY <2>1, <2>4, <2>5, <2>6, <2>7, HeaderSize
  <2>9. GetSerializedSize(h) = 12 + (4 * Len(p.addrs) + 4 + 8 * Len(p.nums))
    <3>1. h.type \in {4, 5} /\ h.part = p
      BY <2>1
    <3>2. \A t \in {1, 3, 6, 7, 8, 9, 10} : h.type # t
      BY <3>1
    <3>. QED
      BY ONLY <3>1, <3>2 DEF GetSerializedSize
  <2>10. p.length \in Nat /\ Len(p.addrs) = p.length /\ Len(p.nums) = p.length
    BY <2>1 DEF Lists
  <2>11. GetSerializedSize(h) = Room(j, 8, Len(s))
    <3>1. PICK n : n = p.length
      OBVIOUS
    <3>2. n \in Nat /\ GetSerializedSize(h) = 12 + (4 * n + 4 + 8 * n)
      BY <2>9, <2>10, <3>1
    <3>3. j = 1 + n /\ Len(s) = 1 + 2 * n
      BY <2>2, <2>5, <3>1
    <3>. QED
      BY ONLY <3>2, <3>3 DEF Room
  <2>. QED
    BY <2>8, <2>11
<1>4. CASE h \in [type : {6}, seq : V, addr : V, part : Dlsas(V)]
  <2>1. PICK k, seq, addr, p :
           /\ k = 6 /\ seq \in V /\ addr \in V /\ p \in Dlsas(V)
           /\ h = [type |-> k, seq |-> seq, addr |-> addr, part |-> p]
    <3>1. h = [type |-> h.type, seq |-> h.seq, addr |-> h.addr, part |-> h.part]
      BY <1>4
    <3>. QED
      BY <1>4, <3>1
  <2>2. PICK s, j : s = DLSA_Serialize(p) /\ j = 1 + p.length
    OBVIOUS
  <2>4. s \in Seq(Fields(V))
    BY <2>1, <2>2, DlsasAgain
  <2>5. Shape(s, j, 8) /\ Len(s) = 1 + 2 * p.length
    BY <2>1, <2>2, ListShapes
  <2>6. WrittenPart(k, p) = s
    BY <2>1, <2>2, PartsOfTypes
  <2>7. k \in V
    BY <2>1
  <2>8. SizeIs(h, Room(j, 8, Len(s)))
    BY <2>1, <2>4, <2>5, <2>6, <2>7, HeaderSize
  <2>9. GetSerializedSize(h) = 12 + (4 * Len(p.addrs) + 8 * Len(p.probs) + 4)
    BY <2>1 DEF GetSerializedSize
  <2>10. p.length \in Nat /\ Len(p.addrs) = p.length /\ Len(p.probs) = p.length
    BY <2>1 DEF Dlsas
  <2>11. GetSerializedSize(h) = Room(j, 8, Len(s))
    <3>1. PICK n : n = p.length
      OBVIOUS
    <3>2. n \in Nat /\ GetSerializedSize(h) = 12 + (4 * n + 8 * n + 4)
      BY <2>9, <2>10, <3>1
    <3>3. j = 1 + n /\ Len(s) = 1 + 2 * n
      BY <2>2, <2>5, <3>1
    <3>. QED
      BY ONLY <3>2, <3>3 DEF Room
  <2>. QED
    BY <2>8, <2>11
<1>5. CASE h \in [type : {7}, seq : V, addr : V, part : Csyncs(V)]
  <2>1. PICK k, seq, addr, p :
           /\ k = 7 /\ seq \in V /\ addr \in V /\ p \in Csyncs(V)
           /\ h = [type |-> k, seq |-> seq, addr |-> addr, part |-> p]
    <3>1. h = [type |-> h.type, seq |-> h.seq, addr |-> h.addr, part |-> h.part]
      BY <1>5
    <3>. QED
      BY <1>5, <3>1
  <2>2. PICK s, j : s = CSYNC_Serialize(p) /\ j = 3
    OBVIOUS
  <2>4. s \in Seq(Fields(V))
    BY <2>1, <2>2, CsyncsAgain
  <2>5. Shape(s, j, 4) /\ Len(s) = 3
    BY <2>1, <2>2, TransferShapes
  <2>6. WrittenPart(k, p) = s
    BY <2>1, <2>2, PartsOfTypes
  <2>7. k \in V
    BY <2>1
  <2>8. SizeIs(h, Room(j, 4, Len(s)))
    BY <2>1, <2>4, <2>5, <2>6, <2>7, HeaderSize
  <2>9. GetSerializedSize(h) = 12 + (4 + 4 * 2)
    BY <2>1 DEF GetSerializedSize
  <2>11. GetSerializedSize(h) = Room(j, 4, Len(s))
    BY <1>0, <2>2, <2>5, <2>9 DEF Room
  <2>. QED
    BY <2>8, <2>11
<1>6. CASE h \in [type : {8}, seq : V, addr : V, part : CsyncAcks(V)]
  <2>1. PICK k, seq, addr, p :
           /\ k = 8 /\ seq \in V /\ addr \in V /\ p \in CsyncAcks(V)
           /\ h = [type |-> k, seq |-> seq, addr |-> addr, part |-> p]
    <3>1. h = [type |-> h.type, seq |-> h.seq, addr |-> h.addr, part |-> h.part]
      BY <1>6
    <3>. QED
      BY <1>6, <3>1
  <2>2. PICK s, j : s = CSYNC_ACK_Serialize(p) /\ j = 3
    OBVIOUS
  <2>4. s \in Seq(Fields(V))
    BY <2>1, <2>2, CsyncAcksAgain
  <2>5. Shape(s, j, 4) /\ Len(s) = 3 + PayloadSize
    BY <2>1, <2>2, TransferShapes
  <2>6. WrittenPart(k, p) = s
    BY <2>1, <2>2, PartsOfTypes
  <2>7. k \in V
    BY <2>1
  <2>8. SizeIs(h, Room(j, 4, Len(s)))
    BY <2>1, <2>4, <2>5, <2>6, <2>7, HeaderSize
  <2>9. GetSerializedSize(h) = 12 + (4 * PayloadSize + 4 + 4 * 2)
    BY <2>1 DEF GetSerializedSize
  <2>11. GetSerializedSize(h) = Room(j, 4, Len(s))
    BY <1>0, <2>2, <2>5, <2>9 DEF Room
  <2>. QED
    BY <2>8, <2>11
<1>7. CASE h \in [type : {9}, seq : V, addr : V, part : Datas(V)]
  <2>1. PICK k, seq, addr, p :
           /\ k = 9 /\ seq \in V /\ addr \in V /\ p \in Datas(V)
           /\ h = [type |-> k, seq |-> seq, addr |-> addr, part |-> p]
    <3>1. h = [type |-> h.type, seq |-> h.seq, addr |-> h.addr, part |-> h.part]
      BY <1>7
    <3>. QED
      BY <1>7, <3>1
  <2>2. PICK s, j : s = DATA_Serialize(p) /\ j = 4
    OBVIOUS
  <2>4. s \in Seq(Fields(V))
    BY <2>1, <2>2, DatasAgain
  <2>5. Shape(s, j, 1) /\ Len(s) = 4 + PayloadSize
    BY <2>1, <2>2, TransferShapes
  <2>6. WrittenPart(k, p) = s
    BY <2>1, <2>2, PartsOfTypes
  <2>7. k \in V
    BY <2>1
  <2>8. SizeIs(h, Room(j, 1, Len(s)))
    BY <2>1, <2>4, <2>5, <2>6, <2>7, HeaderSize
  <2>9. GetSerializedSize(h) = 12 + (2 * 4 + 2 * 4 + PayloadSize)
    BY <2>1 DEF GetSerializedSize
  <2>11. GetSerializedSize(h) = Room(j, 1, Len(s))
    BY <1>0, <2>2, <2>5, <2>9 DEF Room
  <2>. QED
    BY <2>8, <2>11
<1>8. CASE h \in [type : {10}, seq : V, addr : V, part : LsaAcks(V)]
  <2>1. PICK k, seq, addr, p :
           /\ k = 10 /\ seq \in V /\ addr \in V /\ p \in LsaAcks(V)
           /\ h = [type |-> k, seq |-> seq, addr |-> addr, part |-> p]
    <3>1. h = [type |-> h.type, seq |-> h.seq, addr |-> h.addr, part |-> h.part]
      BY <1>8
    <3>. QED
      BY <1>8, <3>1
  <2>2. PICK s, j : s = <<Net32(p.src)>> /\ j = 1
    OBVIOUS
  <2>3. p.src \in V
    BY <2>1 DEF LsaAcks
  <2>4. s \in Seq(Fields(V))
    BY <2>2, <2>3, LsaAckRead
  <2>5. Shape(s, j, 4) /\ Len(s) = 1
    BY <2>1, <2>2, SmallShapes
  <2>6. WrittenPart(k, p) = s
    BY <2>1, <2>2, PartsOfTypes
  <2>7. k \in V
    BY <2>1
  <2>8. SizeIs(h, Room(j, 4, Len(s)))
    BY <2>1, <2>4, <2>5, <2>6, <2>7, HeaderSize
  <2>9. GetSerializedSize(h) = 12 + 4
    BY <2>1 DEF GetSerializedSize
  <2>11. GetSerializedSize(h) = Room(j, 4, Len(s))
    BY <1>0, <2>2, <2>5, <2>9 DEF Room
  <2>. QED
    BY <2>8, <2>11
<1>. QED
  BY <1>1, <1>2, <1>3, <1>4, <1>5, <1>6, <1>7, <1>8 DEF Headers

\* Every message that the handlers build is read as it was written and takes up exactly
\* the bytes that AddHeader made room for with GetSerializedSize.
THEOREM FormatsFaithful ==
    ASSUME NEW V, Nat \subseteq V, NEW h \in Headers(V)
    PROVE  Faithful(h)
  BY ReadAsWritten, SizeOfParts DEF Faithful, SizeIs
=============================================================================
