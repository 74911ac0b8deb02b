------------------------- MODULE LinkQualityProofs -------------------------
(***************************************************************************)
(* Proofs about LinkQuality, for every window, patience and set of SETTs:  *)
(* the slots of SETT_array that the averages read are those of the probes  *)
(* that they stand for, both averages lie among the SETTs measured, and a  *)
(* link that does not get worse is forwarded on.                           *)
(***************************************************************************)
EXTENDS LinkQuality, NaturalsInduction, WellFoundedInduction, TLAPS

\* The slot before q, round the array.
Before(q) == IF q = 0 THEN Window - 1 ELSE q - 1

\* The type of each variable that the slots depend on.
Types ==
    /\ lpSeq \in Slot /\ prev \in Slot
    /\ known \in BOOLEAN
    /\ arr \in [Slot -> Nat]
    /\ missed \in Nat
    /\ past \in Seq(Nat) /\ Len(past) <= Window

\* The last probe was heard.
Heard == Len(past) > 0 /\ past[1] # 0

\* The tuple has the number of the last probe, if that was heard; a node that
\* counts missed probes, or has no tuple, did not hear the last one.
LastOK ==
    /\ known /\ Heard => prev = Before(lpSeq)
    /\ missed > 0 \/ ~known => ~Heard

\* The inductive invariant.
IInv == Types /\ LastOK /\ SlotsOfProbes

-----------------------------------------------------------------------------
(* Numbers and lists.                                                      *)

\* Going k numbers back from q, round the array.
LEMMA Back ==
    ASSUME NEW q \in Slot, NEW k \in 1 .. Window
    PROVE  (q - k) % Window = IF q >= k THEN q - k ELSE q - k + Window
<1>1. Window \in Nat /\ Window > 0 /\ q \in 0 .. Window - 1
  BY QualityAssumption DEF Slot
<1>2. CASE q >= k
  BY <1>1, <1>2, Z3
<1>3. CASE q < k
  BY <1>1, <1>3, Z3
<1>. QED
  BY <1>1, <1>2, <1>3

\* Going one number less back from the number before.
LEMMA BackAgain ==
    ASSUME NEW r \in Slot, NEW q \in Slot, q = Before(r), NEW k \in 2 .. Window
    PROVE  LET i == (q - (k - 1)) % Window
           IN  i \in Slot /\ i # q /\ (r - k) % Window = i
<1>1. Window \in Nat /\ q \in 0 .. Window - 1 /\ r \in 0 .. Window - 1
  BY QualityAssumption DEF Slot
<1>2. PICK j : j = k - 1
  OBVIOUS
<1>3. j \in 1 .. Window /\ k \in 1 .. Window /\ k = j + 1 /\ j < Window
  BY <1>1, <1>2
<1>4. PICK i : i = (q - j) % Window
  OBVIOUS
<1>5. i = IF q >= j THEN q - j ELSE q - j + Window
  BY <1>3, <1>4, Back
<1>6. (r - k) % Window = IF r >= k THEN r - k ELSE r - k + Window
  BY <1>3, Back
<1>7. i \in 0 .. Window - 1 /\ i # q
  BY ONLY <1>1, <1>3, <1>5
<1>8. (r - k) % Window = i
  <2>1. CASE r = 0
    <3>1. q = Window - 1
      BY <2>1 DEF Before
    <3>. QED
      BY ONLY <1>1, <1>3, <1>5, <1>6, <2>1, <3>1
  <2>2. CASE r # 0
    <3>1. q = r - 1
      BY <2>2 DEF Before
    <3>. QED
      BY ONLY <1>1, <1>3, <1>5, <1>6, <3>1
  <2>. QED
    BY <2>1, <2>2
<1>. QED
  BY <1>2, <1>4, <1>7, <1>8 DEF Slot

\* The next number.
LEMMA NextNumber ==
    ASSUME lpSeq \in Slot, Counted
    PROVE  lpSeq' \in Slot /\ lpSeq = Before(lpSeq')
  BY QualityAssumption DEF Slot, Counted, Before

\* The smaller of two numbers.
LEMMA MinOfTwo ==
    ASSUME NEW a \in Nat, NEW b \in Nat
    PROVE  Min({a, b}) = IF a <= b THEN a ELSE b
<1>1. \A x \in {a, b} : (\A y \in {a, b} : x <= y) <=> x = (IF a <= b THEN a ELSE b)
  OBVIOUS
<1>2. (IF a <= b THEN a ELSE b) \in {a, b}
  OBVIOUS
<1>. QED
  BY <1>1, <1>2 DEF Min

\* A new outcome goes in front of the others.
LEMMA Remembered ==
    ASSUME Types, NEW s \in Nat, Remember(s)
    PROVE  /\ past' \in Seq(Nat) /\ Len(past') <= Window /\ Len(past') > 0
           /\ past'[1] = s
           /\ \A k \in 2 .. Len(past') : k - 1 \in 1 .. Len(past) /\ past'[k] = past[k - 1]
<1>1. Window \in Nat /\ Window > 0 /\ Len(past) \in Nat /\ past \in Seq(Nat)
  BY QualityAssumption DEF Types
<1>2. PICK n : n = Min({Window, Len(past) + 1})
  OBVIOUS
<1>3. n \in 1 .. Window /\ n <= Len(past) + 1
  BY <1>1, <1>2, MinOfTwo
<1>4. PICK q : q = <<s>> \o past
  OBVIOUS
<1>5. /\ q \in Seq(Nat) /\ Len(q) = Len(past) + 1 /\ q[1] = s
      /\ \A k \in 2 .. Len(q) : q[k] = past[k - 1]
  BY <1>1, <1>4
<1>6. past' = SubSeq(q, 1, n)
  BY <1>2, <1>4 DEF Remember
<1>7. PICK r : r = past'
  OBVIOUS
<1>8. r \in Seq(Nat) /\ Len(r) = n /\ \A k \in 1 .. n : r[k] = q[k]
  BY ONLY <1>3, <1>5, <1>6, <1>7, <1>1
<1>9. \A k \in 2 .. n : k - 1 \in 1 .. Len(past) /\ k \in 1 .. n /\ k \in 2 .. Len(q)
  BY <1>1, <1>3, <1>5
<1>. QED
  BY <1>1, <1>3, <1>5, <1>7, <1>8, <1>9

-----------------------------------------------------------------------------
(* The steps.                                                              *)

\* A probe is heard: its slot is the newest, and no slot of a probe that was heard
\* is emptied or written over.
LEMMA StepHeard ==
    ASSUME IInv, NEW s \in Setts, InsertNeighborTuple(s)
    PROVE  IInv'
<1>1. s \in Nat /\ s # 0
  BY QualityAssumption
<1>2. /\ lpSeq \in Slot /\ lpSeq' \in Slot /\ lpSeq = Before(lpSeq')
  BY NextNumber DEF IInv, Types, InsertNeighborTuple
<1>3. /\ past' \in Seq(Nat) /\ Len(past') <= Window /\ Len(past') > 0
      /\ past'[1] = s
      /\ \A k \in 2 .. Len(past') : k - 1 \in 1 .. Len(past) /\ past'[k] = past[k - 1]
  BY <1>1, Remembered DEF IInv, InsertNeighborTuple
<1>4. prev' = lpSeq /\ known' = TRUE /\ missed' = 0
  BY DEF InsertNeighborTuple, Refresh, Insert, IInv, Types
<1>5. /\ arr' \in [Slot -> Nat] /\ arr'[lpSeq] = s
      /\ known /\ Heard => \A i \in Slot : i # lpSeq => arr'[i] = arr[i]
  <2>1. CASE Refresh(s)
    <3>1. arr' = Entered(s, lpSeq) /\ arr \in [Slot -> Nat] /\ prev \in Slot
      BY <2>1 DEF Refresh, IInv, Types
    <3>2. arr' \in [Slot -> Nat] /\ arr'[lpSeq] = s
      BY <1>1, <1>2, <3>1 DEF Entered
    <3>3. ASSUME known, Heard, NEW i \in Slot, i # lpSeq PROVE arr'[i] = arr[i]
      <4>1. prev = Before(lpSeq)
        BY <3>3 DEF IInv, LastOK
      <4>2. i \notin prev + 1 .. lpSeq - 1
        <5>1. Window \in Nat /\ Window >= 3 /\ lpSeq \in 0 .. Window - 1 /\ i \in Int
          BY <1>2, QualityAssumption DEF Slot
        <5>2. CASE lpSeq = 0
          BY <4>1, <5>1, <5>2 DEF Before
        <5>3. CASE lpSeq # 0
          <6>1. prev = lpSeq - 1
            BY <4>1, <5>3 DEF Before
          <6>. QED
            BY <5>1, <6>1
        <5>. QED
          BY <5>2, <5>3
      <4>. QED
        BY <3>1, <3>3, <4>2 DEF Entered
    <3>. QED
      BY <3>2, <3>3
  <2>2. CASE Insert(s)
    <3>1. ~known
      BY <2>2 DEF Insert
    <3>2. arr' = [NoArr EXCEPT ![lpSeq] = s]
      BY <2>2 DEF Insert
    <3>3. arr' \in [Slot -> Nat] /\ arr'[lpSeq] = s
      BY <1>1, <1>2, <3>2 DEF NoArr
    <3>. QED
      BY <3>1, <3>3
  <2>. QED
    BY <2>1, <2>2 DEF InsertNeighborTuple
<1>6. Types'
  BY <1>2, <1>3, <1>4, <1>5 DEF Types
<1>7. LastOK'
  BY <1>2, <1>4 DEF LastOK, Heard
<1>8. SlotsOfProbes'
  <2>. SUFFICES ASSUME NEW k \in 1 .. Len(past'), \A j \in 1 .. k : past'[j] # 0
                PROVE  arr'[(lpSeq' - k) % Window] = past'[k]
    BY DEF SlotsOfProbes
  <2>1. k \in 1 .. Window /\ Window \in Nat /\ Window >= 3
    BY <1>3, QualityAssumption
  <2>2. (lpSeq' - k) % Window = IF lpSeq' >= k THEN lpSeq' - k ELSE lpSeq' - k + Window
    BY <1>2, <2>1, Back
  <2>3. CASE k = 1
    <3>1. (lpSeq' - k) % Window = lpSeq
      BY <1>2, <2>1, <2>2, <2>3 DEF Before, Slot
    <3>. QED
      BY <1>3, <1>5, <2>3, <3>1
  <2>4. CASE k # 1
    <3>1. k \in 2 .. Len(past') /\ k - 1 \in 1 .. Len(past) /\ past'[k] = past[k - 1]
      BY <1>3, <2>4
    <3>2. \A j \in 1 .. k - 1 : past[j] # 0
      <4>. TAKE j \in 1 .. k - 1
      <4>1. j + 1 \in 2 .. Len(past') /\ j + 1 \in 1 .. k /\ (j + 1) - 1 = j
        BY <1>3, <3>1
      <4>2. past'[j + 1] = past[j]
        BY <1>3, <4>1
      <4>. QED
        BY <4>1, <4>2
    <3>3. Heard
      BY <3>1, <3>2 DEF Heard, IInv, Types
    <3>4. known
      BY <3>3 DEF IInv, LastOK, Types
    <3>5. PICK i : i = (lpSeq - (k - 1)) % Window
      OBVIOUS
    <3>6. k \in 2 .. Window
      BY <2>1, <2>4
    <3>7. i \in Slot /\ i # lpSeq /\ (lpSeq' - k) % Window = i
      BY <1>2, <3>5, <3>6, BackAgain
    <3>8. arr[i] = past[k - 1]
      BY <3>1, <3>2, <3>4, <3>5 DEF IInv, SlotsOfProbes
    <3>. QED
      BY <1>5, <3>1, <3>3, <3>4, <3>7, <3>8
  <2>. QED
    BY <2>3, <2>4
<1>. QED
  BY <1>6, <1>7, <1>8 DEF IInv

\* A probe is missed, and from then on no slot is claimed.
LEMMA StepMiss ==
    ASSUME IInv, Miss
    PROVE  IInv'
<1>1. /\ past' \in Seq(Nat) /\ Len(past') <= Window /\ Len(past') > 0
      /\ past'[1] = 0
  BY Remembered DEF IInv, Miss
<1>2. lpSeq' \in Slot
  BY NextNumber DEF IInv, Types, Miss
<1>3. missed' \in Nat
  BY DEF IInv, Types, Miss
<1>4. Types'
  BY <1>1, <1>2, <1>3 DEF IInv, Types, Miss
<1>5. ~Heard'
  BY <1>1 DEF Heard
<1>6. LastOK'
  BY <1>5 DEF LastOK
<1>7. SlotsOfProbes'
  BY <1>1 DEF SlotsOfProbes
<1>. QED
  BY <1>4, <1>6, <1>7 DEF IInv

\* The tuple goes, after a probe was missed.
LEMMA StepExpire ==
    ASSUME IInv, NeighborTupleTimerExpire
    PROVE  IInv'
<1>1. missed > 0 /\ missed \in Nat
  BY QualityAssumption DEF IInv, Types, NeighborTupleTimerExpire
<1>2. ~Heard'
  BY <1>1 DEF IInv, LastOK, Heard, NeighborTupleTimerExpire
<1>3. Types'
  <2>1. 0 \in Slot /\ NoArr \in [Slot -> Nat]
    BY QualityAssumption DEF NoArr, Slot
  <2>. QED
    BY <2>1 DEF IInv, Types, NeighborTupleTimerExpire
<1>4. LastOK'
  BY <1>2 DEF LastOK
<1>5. SlotsOfProbes'
  BY DEF SlotsOfProbes, NeighborTupleTimerExpire
<1>. QED
  BY <1>3, <1>4, <1>5 DEF IInv

\* The tables of a link fit together in every state.
THEOREM Inductive == Spec => []IInv
<1>1. Init => IInv
  <2>. SUFFICES ASSUME Init PROVE IInv
    OBVIOUS
  <2>1. Types
    <3>1. 0 \in Slot /\ NoArr \in [Slot -> Nat] /\ Window \in Nat
      BY QualityAssumption DEF NoArr, Slot
    <3>. QED
      BY <3>1 DEF Init, Types
  <2>2. LastOK
    BY DEF Init, LastOK, Heard
  <2>3. SlotsOfProbes
    BY DEF Init, SlotsOfProbes
  <2>. QED
    BY <2>1, <2>2, <2>3 DEF IInv
<1>2. IInv /\ [Next]_vars => IInv'
  <2>. SUFFICES ASSUME IInv, [Next]_vars PROVE IInv'
    OBVIOUS
  <2>1. CASE UNCHANGED vars
    BY <2>1 DEF IInv, Types, LastOK, Heard, SlotsOfProbes, vars
  <2>2. CASE OtherTupleInserted
    BY <2>2 DEF OtherTupleInserted, IInv, Types, LastOK, Heard, SlotsOfProbes
  <2>3. CASE Next
    BY <2>2, <2>3, StepHeard, StepMiss, StepExpire DEF Next
  <2>. QED
    BY <2>1, <2>3
<1>. QED
  BY <1>1, <1>2, PTL DEF Spec

\* Every slot that InsertNeighborTuple reads for an average, of a probe that was
\* heard with all those after it, holds what that probe measured, also where the
\* numbers of the probes wrap.
THEOREM SlotsAreOfProbes == Spec => []SlotsOfProbes
<1>1. IInv => SlotsOfProbes
  BY DEF IInv
<1>. QED
  BY <1>1, Inductive, PTL

-----------------------------------------------------------------------------
(* Induction over the slots.  The library states induction for an operator, *)
(* which no prover here can instantiate; the lemmas below state it for a    *)
(* set, from the well-foundedness of <.                                     *)

\* The order of the natural numbers as a set of pairs.
Less == OpToRel(<, Nat)

\* It is well-founded.
LEMMA LessWellFounded == IsWellFoundedOn(Less, Nat)
BY NatLessThanWellFounded, Zenon DEF Less

\* It contains every number with each greater one.
LEMMA LessIs == \A x, y \in Nat : x < y => <<x, y>> \in Less
BY DEF Less, OpToRel

\* Every set of numbers that is not empty has a least element.
LEMMA LeastNumber ==
    ASSUME NEW T, T \subseteq Nat, T # {}
    PROVE  \E x \in T : \A y \in T : x <= y
<1>1. PICK x \in T : \A y \in T : ~ (<<y, x>> \in Less)
  BY LessWellFounded, WFMin
<1>2. ASSUME NEW y \in T PROVE x <= y
  <2>1. x \in Nat /\ y \in Nat
    OBVIOUS
  <2>2. ~ (y < x)
    BY <2>1, <1>1, LessIs
  <2>. QED
    BY <2>1, <2>2
<1>. QED
  BY <1>2

\* A set that contains 0 and the successor of each of its numbers contains them all.
LEMMA Induction ==
    ASSUME NEW T, 0 \in T, \A n \in Nat : n \in T => n + 1 \in T
    PROVE  Nat \subseteq T
<1>. SUFFICES ASSUME Nat \ T # {} PROVE FALSE
  OBVIOUS
<1>1. PICK x \in Nat \ T : \A y \in Nat \ T : x <= y
  BY LeastNumber
<1>2. x # 0 /\ x - 1 \in Nat /\ x - 1 \in T
  BY <1>1
<1>. QED
  BY <1>1, <1>2

\* The same up to Window.
LEMMA SlotInduction ==
    ASSUME NEW T, 0 \in T, \A n \in 0 .. Window - 1 : n \in T => n + 1 \in T
    PROVE  0 .. Window \subseteq T
<1>. DEFINE U == {n \in Nat : n <= Window => n \in T}
<1>1. 0 \in U
  OBVIOUS
<1>2. \A n \in Nat : n \in U => n + 1 \in U
  BY QualityAssumption
<1>3. Nat \subseteq U
  <2>. HIDE DEF U
  <2>. QED
    BY <1>1, <1>2, Induction
<1>. QED
  BY <1>3, QualityAssumption

-----------------------------------------------------------------------------
(* Sums over the slots.                                                    *)

Counts(a, g, n) == g[0] = 0 /\ \A j \in 1 .. n : g[j] = g[j - 1] + a[j - 1]

\* The recursive definition of the sums has a solution.
LEMMA SumsExist ==
    ASSUME NEW a \in [Slot -> Nat]
    PROVE  \E g \in [0 .. Window -> Nat] : Counts(a, g, Window)
<1>. DEFINE T == {n \in 0 .. Window : \E g \in [0 .. n -> Nat] : Counts(a, g, n)}
<1>0. Window \in Nat /\ Window > 0
  BY QualityAssumption
<1>1. 0 \in T
  <2>1. [j \in 0 .. 0 |-> 0] \in [0 .. 0 -> Nat] /\ Counts(a, [j \in 0 .. 0 |-> 0], 0)
    BY DEF Counts
  <2>. QED
    BY <1>0, <2>1
<1>2. ASSUME NEW n \in 0 .. Window - 1, n \in T PROVE n + 1 \in T
  <2>1. PICK g \in [0 .. n -> Nat] : Counts(a, g, n)
    BY <1>2
  <2>2. n \in Slot /\ a[n] \in Nat /\ n \in Nat /\ n + 1 \in 0 .. Window
    BY <1>0 DEF Slot
  <2>3. PICK h : h = [j \in 0 .. n + 1 |-> IF j = n + 1 THEN g[n] + a[n] ELSE g[j]]
    OBVIOUS
  <2>4. h \in [0 .. n + 1 -> Nat]
    BY <2>2, <2>3
  <2>5. \A j \in 0 .. n : h[j] = g[j]
    BY <2>2, <2>3
  <2>6. h[n + 1] = g[n] + a[n]
    BY <2>2, <2>3
  <2>7. h[0] = 0
    BY <2>1, <2>2, <2>5 DEF Counts
  <2>8. ASSUME NEW j \in 1 .. n + 1 PROVE h[j] = h[j - 1] + a[j - 1]
    <3>1. CASE j = n + 1
      BY <2>2, <2>5, <2>6, <3>1
    <3>2. CASE j # n + 1
      <4>1. j \in 1 .. n /\ j \in 0 .. n /\ j - 1 \in 0 .. n
        BY <2>2, <3>2
      <4>. QED
        BY <2>1, <2>5, <4>1 DEF Counts
    <3>. QED
      BY <3>1, <3>2
  <2>9. Counts(a, h, n + 1)
    BY <2>7, <2>8 DEF Counts
  <2>. QED
    BY <2>2, <2>4, <2>9
<1>3. Window \in T
  <2>. HIDE DEF T
  <2>. QED
    BY <1>0, <1>1, <1>2, SlotInduction
<1>. QED
  BY <1>3

\* What the sums are.
LEMMA SumsAre ==
    ASSUME NEW a \in [Slot -> Nat]
    PROVE  Sums(a) \in [0 .. Window -> Nat] /\ Counts(a, Sums(a), Window)
<1>0. Window \in Nat /\ Window > 0
  BY QualityAssumption
<1>. DEFINE Body(f) == [j \in 0 .. Window |-> IF j = 0 THEN 0 ELSE f[j - 1] + a[j - 1]]
<1>1. PICK g \in [0 .. Window -> Nat] : Counts(a, g, Window)
  BY SumsExist
<1>2. g = Body(g)
  <2>1. \A j \in 0 .. Window : g[j] = IF j = 0 THEN 0 ELSE g[j - 1] + a[j - 1]
    BY <1>0, <1>1 DEF Counts
  <2>. QED
    BY <2>1
<1>3. Sums(a) = CHOOSE f : f = Body(f)
  BY DEF Sums
<1>4. Sums(a) = Body(Sums(a))
  BY <1>2, <1>3
<1>5. PICK f : f = Sums(a)
  OBVIOUS
<1>6. f = Body(f)
  BY <1>4, <1>5
<1>7. Counts(a, f, Window)
  <2>1. f[0] = 0
    BY <1>0, <1>6
  <2>2. ASSUME NEW j \in 1 .. Window PROVE f[j] = f[j - 1] + a[j - 1]
    BY <1>0, <1>6
  <2>. QED
    BY <2>1, <2>2 DEF Counts
<1>8. \A j \in 0 .. Window : f[j] \in Nat
  <2>. DEFINE T == {n \in 0 .. Window : f[n] \in Nat}
  <2>1. 0 \in T
    BY <1>0, <1>7 DEF Counts
  <2>2. \A n \in 0 .. Window - 1 : n \in T => n + 1 \in T
    <3>. SUFFICES ASSUME NEW n \in 0 .. Window - 1, n \in T PROVE n + 1 \in T
      OBVIOUS
    <3>1. n + 1 \in 1 .. Window /\ n \in Slot
      BY <1>0 DEF Slot
    <3>2. f[n + 1] = f[n] + a[n]
      BY <1>0, <1>7, <3>1 DEF Counts
    <3>. QED
      BY <1>0, <3>1, <3>2
  <2>3. 0 .. Window \subseteq T
    <3>. HIDE DEF T
    <3>. QED
      BY <2>1, <2>2, SlotInduction
  <2>. QED
    BY <2>3
<1>9. f \in [0 .. Window -> Nat]
  BY <1>6, <1>8
<1>. QED
  BY <1>5, <1>7, <1>9

\* Sums lie between bounds of the slots that are not empty, times their number.
LEMMA SumsBounded ==
    ASSUME NEW a \in [Slot -> Nat], NEW lo \in Nat, NEW hi \in Nat,
           \A i \in Slot : a[i] # 0 => lo <= a[i] /\ a[i] <= hi
    PROVE  /\ lo * Sums(Full(a))[Window] <= Sums(a)[Window]
           /\ Sums(a)[Window] <= hi * Sums(Full(a))[Window]
<1>0. Window \in Nat /\ Window > 0
  BY QualityAssumption
<1>1. PICK f, g : f = Sums(a) /\ g = Sums(Full(a))
  OBVIOUS
<1>2. Full(a) \in [Slot -> Nat]
  BY DEF Full
<1>3. /\ f \in [0 .. Window -> Nat] /\ Counts(a, f, Window)
      /\ g \in [0 .. Window -> Nat] /\ Counts(Full(a), g, Window)
  BY <1>1, <1>2, SumsAre
<1>. DEFINE T == {n \in 0 .. Window : lo * g[n] <= f[n] /\ f[n] <= hi * g[n]}
<1>4. 0 \in T
  BY <1>0, <1>3 DEF Counts
<1>5. ASSUME NEW n \in 0 .. Window - 1, n \in T PROVE n + 1 \in T
  <2>1. n + 1 \in 1 .. Window /\ n \in Slot /\ n \in 0 .. Window /\ n + 1 \in 0 .. Window
        /\ (n + 1) - 1 = n
    BY <1>0 DEF Slot
  <2>2. f[n + 1] = f[n] + a[n] /\ g[n + 1] = g[n] + Full(a)[n]
    BY <1>3, <2>1 DEF Counts
  <2>3. PICK x, y, u, v, p : x = f[n] /\ y = g[n] /\ u = a[n] /\ v = Full(a)[n] /\ p = n + 1
    OBVIOUS
  <2>4. x \in Nat /\ y \in Nat /\ u \in Nat
    BY <1>3, <2>1, <2>3
  <2>5. (u = 0 /\ v = 0) \/ (v = 1 /\ lo <= u /\ u <= hi)
    BY <2>1, <2>3 DEF Full
  <2>6. lo * y <= x /\ x <= hi * y
    BY <1>5, <2>3
  <2>7. lo * (y + v) <= x + u /\ x + u <= hi * (y + v)
    <3>1. CASE u = 0 /\ v = 0
      BY <2>4, <2>6, <3>1
    <3>2. CASE v = 1 /\ lo <= u /\ u <= hi
      <4>1. lo * (y + 1) = lo * y + lo /\ hi * (y + 1) = hi * y + hi
        BY <2>4
      <4>2. lo * y \in Nat /\ hi * y \in Nat
        BY <2>4
      <4>. QED
        BY <2>4, <2>6, <3>2, <4>1, <4>2
    <3>. QED
      BY <2>5, <3>1, <3>2
  <2>8. f[p] = x + u /\ g[p] = y + v /\ p \in 0 .. Window
    BY <2>1, <2>2, <2>3
  <2>9. p \in T
    BY <2>7, <2>8
  <2>. QED
    BY <2>3, <2>9
<1>6. Window \in T
  <2>. HIDE DEF T
  <2>. QED
    BY <1>0, <1>4, <1>5, SlotInduction
<1>. QED
  BY <1>1, <1>6

\* A slot that is not empty counts.
LEMMA SomeFull ==
    ASSUME NEW a \in [Slot -> Nat], NEW i \in Slot, a[i] # 0
    PROVE  Sums(Full(a))[Window] > 0
<1>0. Window \in Nat /\ Window > 0 /\ i \in 0 .. Window - 1
  BY QualityAssumption DEF Slot
<1>1. PICK g : g = Sums(Full(a))
  OBVIOUS
<1>2. Full(a) \in [Slot -> Nat] /\ Full(a)[i] = 1
  BY DEF Full
<1>3. g \in [0 .. Window -> Nat] /\ Counts(Full(a), g, Window)
  BY <1>1, <1>2, SumsAre
<1>. DEFINE T == {n \in 0 .. Window : n > i => g[n] > 0}
<1>4. 0 \in T
  BY <1>0
<1>5. ASSUME NEW n \in 0 .. Window - 1, n \in T PROVE n + 1 \in T
  <2>1. n + 1 \in 1 .. Window /\ n \in Slot /\ n \in 0 .. Window /\ n + 1 \in 0 .. Window
        /\ (n + 1) - 1 = n
    BY <1>0 DEF Slot
  <2>2. g[n + 1] = g[n] + Full(a)[n]
    BY <1>3, <2>1 DEF Counts
  <2>3. g[n] \in Nat /\ Full(a)[n] \in Nat
    BY <1>2, <1>3, <2>1
  <2>4. n + 1 > i => g[n + 1] > 0
    <3>1. CASE n = i
      BY <1>2, <2>2, <2>3, <3>1
    <3>2. CASE n > i
      BY <1>5, <2>2, <2>3, <3>2
    <3>. QED
      BY <1>0, <3>1, <3>2
  <2>. QED
    BY <2>1, <2>4
<1>6. Window \in T
  <2>. HIDE DEF T
  <2>. QED
    BY <1>0, <1>4, <1>5, SlotInduction
<1>. QED
  BY <1>0, <1>1, <1>6

\* A mean lies between the bounds of what it is taken of.
LEMMA MeanBounded ==
    ASSUME NEW x \in Nat, NEW c \in Nat \ {0}, NEW lo \in Nat, NEW hi \in Nat,
           lo * c <= x, x <= hi * c
    PROVE  x \div c \in Nat /\ lo <= x \div c /\ x \div c <= hi
<1>1. PICK d, r : d = x \div c /\ r = x % c
  OBVIOUS
<1>2. d \in Int /\ r \in 0 .. c - 1 /\ x = c * d + r
  BY <1>1
<1>3. d >= 0
  BY <1>2, Z3
<1>4. lo <= d
  <2>1. CASE d < lo
    <3>1. PICK k \in Nat : lo = d + 1 + k
      BY <1>2, <1>3, <2>1
    <3>2. lo * c = d * c + c + k * c
      BY <1>2, <3>1, Z3
    <3>3. k * c \in Nat
      OBVIOUS
    <3>. QED
      BY <1>2, <3>2, <3>3, Z3
  <2>. QED
    BY <1>2, <2>1
<1>5. d <= hi
  <2>1. CASE d > hi
    <3>1. PICK k \in Nat : d = hi + 1 + k
      BY <1>2, <2>1
    <3>2. d * c = hi * c + c + k * c
      BY <1>2, <3>1, Z3
    <3>3. k * c \in Nat
      OBVIOUS
    <3>. QED
      BY <1>2, <3>2, <3>3, Z3
  <2>. QED
    BY <1>2, <2>1
<1>. QED
  BY <1>1, <1>2, <1>3, <1>4, <1>5

-----------------------------------------------------------------------------
(* The averages.                                                           *)

\* All slots of a that are not empty lie between lo and hi.
Bounds(a, lo, hi) == \A i \in Slot : a[i] # 0 => lo <= a[i] /\ a[i] <= hi

\* A value that lies between any bounds of the slots.
Between(v, a) ==
    v \in Nat /\ \A lo, hi \in Nat : Bounds(a, lo, hi) => lo <= v /\ v <= hi

\* LETT is such a value, unless all slots are empty.
LEMMA LongBetween ==
    ASSUME NEW a \in [Slot -> Nat], NEW i \in Slot, a[i] # 0
    PROVE  Between(LongAverage(a), a)
<1>0. Window \in Nat /\ Window > 0
  BY QualityAssumption
<1>1. PICK x, c : x = Sums(a)[Window] /\ c = Sums(Full(a))[Window]
  OBVIOUS
<1>2. Full(a) \in [Slot -> Nat]
  BY DEF Full
<1>3. x \in Nat /\ c \in Nat \ {0}
  <2>1. Window \in 0 .. Window
    BY <1>0
  <2>2. Sums(a)[Window] \in Nat
    BY <2>1, SumsAre
  <2>3. Sums(Full(a))[Window] \in Nat
    BY <1>2, <2>1, SumsAre
  <2>4. Sums(Full(a))[Window] > 0
    BY SomeFull
  <2>. QED
    BY <1>1, <2>2, <2>3, <2>4
<1>4. LongAverage(a) = x \div c
  BY <1>1 DEF LongAverage
<1>5. ASSUME NEW lo \in Nat, NEW hi \in Nat, Bounds(a, lo, hi)
      PROVE  x \div c \in Nat /\ lo <= x \div c /\ x \div c <= hi
  <2>1. lo * c <= x /\ x <= hi * c
    BY <1>1, <1>5, SumsBounded DEF Bounds
  <2>. QED
    BY <1>3, <2>1, MeanBounded
<1>6. x \div c \in Nat
  <2>1. 0 * c <= x /\ x <= x * c
    BY <1>3, Z3
  <2>. QED
    BY <1>3, <2>1, MeanBounded
<1>. QED
  BY <1>4, <1>5, <1>6 DEF Between

\* So is SETT_avg, when the newest slot is not empty.
LEMMA ShortBetween ==
    ASSUME NEW a \in [Slot -> Nat], NEW q \in Slot, a[q] # 0
    PROVE  Between(ShortAverage(a, q), a)
<1>1. PICK i, j : i = (q - 1) % Window /\ j = (q - 2) % Window
  OBVIOUS
<1>2. i \in Slot /\ j \in Slot
  BY <1>1, QualityAssumption DEF Slot
<1>3. PICK x, y, z, f, g : /\ x = a[q] /\ y = a[i] /\ z = a[j]
                           /\ f = Full(a)[i] /\ g = Full(a)[j]
  OBVIOUS
<1>4. x \in Nat /\ y \in Nat /\ z \in Nat /\ x # 0
  BY <1>2, <1>3
<1>5. /\ (y = 0 /\ f = 0) \/ (y # 0 /\ f = 1)
      /\ (z = 0 /\ g = 0) \/ (z # 0 /\ g = 1)
  BY <1>2, <1>3 DEF Full
<1>6. ShortAverage(a, q) = (x + y + z) \div (1 + f + g)
  BY <1>1, <1>3 DEF ShortAverage
<1>7. x + y + z \in Nat /\ 1 + f + g \in Nat \ {0}
  BY <1>4, <1>5
<1>8. ASSUME NEW lo \in Nat, NEW hi \in Nat, Bounds(a, lo, hi)
      PROVE  lo * (1 + f + g) <= x + y + z /\ x + y + z <= hi * (1 + f + g)
  <2>1. /\ lo <= x /\ x <= hi
        /\ y # 0 => lo <= y /\ y <= hi
        /\ z # 0 => lo <= z /\ z <= hi
    BY <1>2, <1>3, <1>4, <1>8 DEF Bounds
  <2>2. CASE f = 0 /\ g = 0
    BY <1>4, <1>5, <2>1, <2>2
  <2>3. CASE f = 1 /\ g = 0
    BY <1>4, <1>5, <2>1, <2>3
  <2>4. CASE f = 0 /\ g = 1
    BY <1>4, <1>5, <2>1, <2>4
  <2>5. CASE f = 1 /\ g = 1
    BY <1>4, <1>5, <2>1, <2>5
  <2>. QED
    BY <1>5, <2>2, <2>3, <2>4, <2>5
<1>9. PICK s, c : s = x + y + z /\ c = 1 + f + g
  OBVIOUS
<1>10. s \in Nat /\ c \in Nat \ {0} /\ ShortAverage(a, q) = s \div c
  BY <1>6, <1>7, <1>9
<1>11. \A lo, hi \in Nat : Bounds(a, lo, hi) => lo <= s \div c /\ s \div c <= hi
  BY <1>8, <1>9, <1>10, MeanBounded
<1>12. s \div c \in Nat
  <2>1. 0 * c <= s /\ s <= s * c
    BY <1>10, Z3
  <2>. QED
    BY <1>10, <2>1, MeanBounded
<1>. QED
  BY <1>10, <1>11, <1>12 DEF Between

\* The newest slot is not empty, and both averages lie between bounds of the slots.
EstimatesOK == known => arr[prev] # 0 /\ Between(avg, arr) /\ Between(lett, arr)

\* After two probes in a row the averages are those of the slots.
AveragesOK ==
    known /\ Len(past) >= 2 /\ past[1] # 0 /\ past[2] # 0 =>
        avg = ShortAverage(arr, prev) /\ lett = LongAverage(arr)

\* Both hold in every state.
LEMMA Estimated == Spec => [](EstimatesOK /\ AveragesOK)
<1>1. Init => EstimatesOK /\ AveragesOK
  BY DEF Init, EstimatesOK, AveragesOK
<1>2. IInv /\ IInv' /\ EstimatesOK /\ AveragesOK /\ [Next]_vars => (EstimatesOK /\ AveragesOK)'
  <2>. SUFFICES ASSUME IInv, IInv', EstimatesOK, AveragesOK, [Next]_vars
               PROVE  EstimatesOK' /\ AveragesOK'
    OBVIOUS
  <2>1. CASE UNCHANGED vars
    BY <2>1 DEF EstimatesOK, AveragesOK, Between, Bounds, ShortAverage, LongAverage, vars
  <2>2. CASE NeighborTupleTimerExpire
    BY <2>2 DEF NeighborTupleTimerExpire, EstimatesOK, AveragesOK
  <2>3. CASE Miss
    <3>1. past'[1] = 0
      BY <2>3, Remembered DEF IInv, Miss
    <3>2. UNCHANGED <<known, arr, prev, avg, lett>>
      BY <2>3 DEF Miss
    <3>3. EstimatesOK'
      BY <3>2 DEF EstimatesOK, Between, Bounds
    <3>. QED
      BY <3>1, <3>3 DEF AveragesOK
  <2>4. ASSUME NEW s \in Setts, InsertNeighborTuple(s)
        PROVE  EstimatesOK' /\ AveragesOK'
    <3>1. /\ s \in Nat /\ s # 0 /\ lpSeq \in Slot /\ Remember(s)
          /\ arr' \in [Slot -> Nat]
      BY <2>4, QualityAssumption DEF IInv, Types, InsertNeighborTuple
    <3>2. CASE Refresh(s)
      <4>1. PICK a : a = arr'
        OBVIOUS
      <4>2. /\ a = Entered(s, lpSeq) /\ prev' = lpSeq
            /\ avg' = ShortAverage(a, lpSeq) /\ lett' = LongAverage(a)
        BY <3>2, <4>1 DEF Refresh
      <4>3. a \in [Slot -> Nat] /\ a[lpSeq] # 0
        BY <3>1, <4>1, <4>2 DEF Entered
      <4>4. Between(avg', a) /\ Between(lett', a)
        BY <3>1, <4>2, <4>3, LongBetween, ShortBetween
      <4>5. EstimatesOK'
        BY <4>1, <4>2, <4>3, <4>4 DEF EstimatesOK, Between, Bounds
      <4>6. AveragesOK'
        BY <4>1, <4>2 DEF AveragesOK, ShortAverage, LongAverage
      <4>. QED
        BY <4>5, <4>6
    <3>3. CASE Insert(s)
      <4>1. PICK a : a = arr'
        OBVIOUS
      <4>2. a = [NoArr EXCEPT ![lpSeq] = s] /\ prev' = lpSeq /\ avg' = s /\ lett' = s /\ ~known
        BY <3>3, <4>1 DEF Insert
      <4>3. a[lpSeq] = s
        BY <3>1, <4>2 DEF NoArr
      <4>4. Between(s, a)
        BY <3>1, <4>3 DEF Between, Bounds
      <4>5. EstimatesOK'
        BY <3>1, <4>1, <4>2, <4>3, <4>4 DEF EstimatesOK, Between, Bounds
      <4>6. ~ (Len(past') >= 2 /\ past'[2] # 0)
        <5>1. ~Heard
          BY <4>2 DEF IInv, LastOK
        <5>2. \A k \in 2 .. Len(past') : k - 1 \in 1 .. Len(past) /\ past'[k] = past[k - 1]
          BY <3>1, Remembered DEF IInv
        <5>3. ASSUME Len(past') >= 2, past'[2] # 0 PROVE FALSE
          <6>1. Len(past') \in Nat /\ Len(past) \in Nat
            BY DEF IInv, Types
          <6>2. 2 \in 2 .. Len(past')
            BY <5>3, <6>1
          <6>3. 1 \in 1 .. Len(past) /\ past'[2] = past[1]
            BY <5>2, <6>2
          <6>. QED
            BY <5>1, <5>3, <6>1, <6>3 DEF Heard
        <5>. QED
          BY <5>3
      <4>. QED
        BY <4>5, <4>6 DEF AveragesOK
    <3>. QED
      BY <2>4, <3>2, <3>3 DEF InsertNeighborTuple
  <2>5. CASE OtherTupleInserted
    BY <2>5 DEF OtherTupleInserted, EstimatesOK, AveragesOK, Between, Bounds, ShortAverage,
                LongAverage
  <2>. QED
    BY <2>1, <2>2, <2>3, <2>4, <2>5 DEF Next
<1>. QED
  BY <1>1, <1>2, Inductive, PTL DEF Spec

\* The greatest of the slots.
LEMMA SlotsBounded ==
    ASSUME NEW a \in [Slot -> Nat]
    PROVE  \E m \in Nat : \A i \in Slot : a[i] <= m
<1>0. Window \in Nat /\ Slot = 0 .. Window - 1
  BY QualityAssumption DEF Slot
<1>. DEFINE T == {n \in 0 .. Window : \E m \in Nat : \A i \in 0 .. n - 1 : a[i] <= m}
<1>1. 0 \in T
  <2>1. \A i \in 0 .. 0 - 1 : a[i] <= 0
    OBVIOUS
  <2>. QED
    BY <1>0, <2>1
<1>2. ASSUME NEW n \in 0 .. Window - 1, n \in T PROVE n + 1 \in T
  <2>1. PICK m \in Nat : \A i \in 0 .. n - 1 : a[i] <= m
    BY <1>2
  <2>2. a[n] \in Nat /\ m + a[n] \in Nat
    BY <1>0
  <2>3. ASSUME NEW i \in 0 .. (n + 1) - 1 PROVE a[i] <= m + a[n]
    <3>1. i \in Slot /\ a[i] \in Nat
      BY <1>0
    <3>2. i = n \/ i \in 0 .. n - 1
      BY <1>0
    <3>. QED
      BY <2>1, <2>2, <3>1, <3>2
  <2>4. n + 1 \in 0 .. Window
    BY <1>0
  <2>. QED
    BY <2>2, <2>3, <2>4
<1>3. Window \in T
  <2>. HIDE DEF T
  <2>. QED
    BY <1>0, <1>1, <1>2, SlotInduction
<1>. QED
  BY <1>0, <1>3

\* A set of numbers with an upper bound, and not empty, has a least and a greatest one.
LEMMA MinMax ==
    ASSUME NEW S, S \subseteq Nat, S # {}, NEW m \in Nat, \A x \in S : x <= m
    PROVE  /\ Min(S) \in S /\ \A x \in S : Min(S) <= x
           /\ Max(S) \in S /\ \A x \in S : x <= Max(S)
<1>1. \E x \in S : \A y \in S : x <= y
  BY LeastNumber
<1>2. \E x \in S : \A y \in S : x >= y
  <2>. DEFINE D == {m - x : x \in S}
  <2>1. D \subseteq Nat /\ D # {}
    <3>1. \A x \in S : x \in Nat /\ x <= m
      OBVIOUS
    <3>2. \A x \in S : m - x \in Nat
      BY <3>1
    <3>. QED
      BY <3>2
  <2>2. PICK d \in D : \A e \in D : d <= e
    <3>. HIDE DEF D
    <3>. QED
      BY <2>1, LeastNumber
  <2>3. PICK x \in S : d = m - x
    OBVIOUS
  <2>4. ASSUME NEW y \in S PROVE x >= y
    <3>1. m - y \in D /\ x \in Nat /\ y \in Nat
      OBVIOUS
    <3>2. d <= m - y
      BY <2>2, <3>1
    <3>. QED
      BY <2>3, <3>1, <3>2
  <2>. QED
    BY <2>4
<1>3. Min(S) \in S /\ \A x \in S : Min(S) <= x
  BY <1>1 DEF Min
<1>4. Max(S) \in S /\ \A x \in S : Max(S) >= x
  BY <1>2 DEF Max
<1>5. \A x \in S : x <= Max(S)
  BY <1>4
<1>. QED
  BY <1>3, <1>4, <1>5

\* Both estimates that InsertNeighborTuple computes lie between the least and the
\* greatest SETT in the array: no empty slot counts, nothing is divided by zero.
THEOREM EstimatesBounded == Spec => []EstimatesInRange
<1>1. IInv /\ EstimatesOK => EstimatesInRange
  <2>. SUFFICES ASSUME IInv, EstimatesOK, known PROVE EstimatesInRange
    BY DEF EstimatesInRange
  <2>1. PICK S : S = {arr[i] : i \in {j \in Slot : arr[j] # 0}}
    OBVIOUS
  <2>2. arr \in [Slot -> Nat] /\ prev \in Slot /\ arr[prev] # 0
    BY DEF IInv, Types, EstimatesOK
  <2>3. PICK m \in Nat : \A i \in Slot : arr[i] <= m
    BY <2>2, SlotsBounded
  <2>4. S \subseteq Nat /\ S # {} /\ \A x \in S : x <= m
    BY <2>1, <2>2, <2>3
  <2>5. /\ Min(S) \in S /\ \A x \in S : Min(S) <= x
        /\ Max(S) \in S /\ \A x \in S : x <= Max(S)
    BY <2>4, MinMax
  <2>6. Bounds(arr, Min(S), Max(S)) /\ Min(S) \in Nat /\ Max(S) \in Nat
    BY <2>1, <2>4, <2>5 DEF Bounds
  <2>7. avg \in Min(S) .. Max(S) /\ lett \in Min(S) .. Max(S)
    BY <2>6 DEF EstimatesOK, Between
  <2>. QED
    BY <2>1, <2>4, <2>7 DEF EstimatesInRange
<1>. QED
  BY <1>1, Inductive, Estimated, PTL

-----------------------------------------------------------------------------
(* The forward decision.                                                   *)

\* When no slot is empty, all of them count.
LEMMA AllFull ==
    ASSUME NEW a \in [Slot -> Nat], \A i \in Slot : a[i] # 0
    PROVE  Sums(Full(a))[Window] = Window
<1>0. Window \in Nat /\ Window > 0
  BY QualityAssumption
<1>1. PICK g : g = Sums(Full(a))
  OBVIOUS
<1>2. Full(a) \in [Slot -> Nat] /\ \A i \in Slot : Full(a)[i] = 1
  BY DEF Full
<1>3. g \in [0 .. Window -> Nat] /\ Counts(Full(a), g, Window)
  BY <1>1, <1>2, SumsAre
<1>. DEFINE T == {n \in 0 .. Window : g[n] = n}
<1>4. 0 \in T
  BY <1>0, <1>3 DEF Counts
<1>5. ASSUME NEW n \in 0 .. Window - 1, n \in T PROVE n + 1 \in T
  <2>1. n + 1 \in 1 .. Window /\ n \in Slot /\ n + 1 \in 0 .. Window /\ (n + 1) - 1 = n
    BY <1>0 DEF Slot
  <2>2. g[n + 1] = g[n] + 1
    BY <1>2, <1>3, <2>1 DEF Counts
  <2>. QED
    BY <1>5, <2>1, <2>2
<1>6. Window \in T
  <2>. HIDE DEF T
  <2>. QED
    BY <1>0, <1>4, <1>5, SlotInduction
<1>. QED
  BY <1>1, <1>6

\* What slot x, once it is passed, is short of m.
Short(a, x, m, n) == IF x < n THEN m - a[x] ELSE 0

\* It changes when slot x is passed.
LEMMA ShortNext ==
    ASSUME NEW a \in [Slot -> Nat], NEW m \in Nat, NEW x \in Slot, NEW n \in Nat
    PROVE  /\ Short(a, x, m, n) \in Int
           /\ n = x => Short(a, x, m, n) = 0 /\ Short(a, x, m, n + 1) = m - a[n]
           /\ n # x => Short(a, x, m, n + 1) = Short(a, x, m, n)
<1>1. a[x] \in Nat /\ x \in Nat
  BY DEF Slot
<1>. QED
  BY <1>1 DEF Short

ShortOf(a, x, y, z, m, n) == Short(a, x, m, n) + Short(a, y, m, n) + Short(a, z, m, n)

\* All slots but three are at least m, and so is the mean of these three.
NoneBelow(a, x, y, z, m) ==
    /\ x # y /\ y # z /\ x # z
    /\ \A i \in Slot : i # x /\ i # y /\ i # z => a[i] >= m
    /\ a[x] + a[y] + a[z] >= 3 * m

\* Then the sum is at least Window times m.
LEMMA SumsAtLeast ==
    ASSUME NEW a \in [Slot -> Nat], NEW m \in Nat,
           NEW x \in Slot, NEW y \in Slot, NEW z \in Slot, NoneBelow(a, x, y, z, m)
    PROVE  m * Window <= Sums(a)[Window]
<1>. USE DEF NoneBelow
<1>0. Window \in Nat /\ Window > 0 /\ Slot = 0 .. Window - 1
  BY QualityAssumption DEF Slot
<1>1. PICK f : f = Sums(a)
  OBVIOUS
<1>2. f \in [0 .. Window -> Nat] /\ Counts(a, f, Window)
  BY <1>1, SumsAre
<1>. DEFINE T == {n \in 0 .. Window : m * n <= f[n] + ShortOf(a, x, y, z, m, n)}
<1>3. 0 \in T
  BY <1>0, <1>2 DEF Counts, Short, ShortOf
<1>4. ASSUME NEW n \in 0 .. Window - 1, n \in T PROVE n + 1 \in T
  <2>1. n + 1 \in 1 .. Window /\ n \in Slot /\ n \in 0 .. Window /\ n + 1 \in 0 .. Window
        /\ (n + 1) - 1 = n
    BY <1>0
  <2>2. f[n + 1] = f[n] + a[n] /\ f[n] \in Nat /\ a[n] \in Nat
    BY <1>2, <2>1 DEF Counts
  <2>3. PICK d, e : d = ShortOf(a, x, y, z, m, n) /\ e = ShortOf(a, x, y, z, m, n + 1)
    OBVIOUS
  <2>4. d \in Int /\ e = IF n = x \/ n = y \/ n = z THEN d + (m - a[n]) ELSE d
    <3>1. n \in Nat
      BY <1>0
    <3>. QED
      BY <2>2, <2>3, <3>1, ShortNext DEF ShortOf
  <2>5. m * (n + 1) = m * n + m /\ m * n \in Nat
    BY <2>1
  <2>6. m * (n + 1) <= f[n + 1] + e
    <3>1. m * n <= f[n] + d
      BY <1>4, <2>3
    <3>2. CASE n = x \/ n = y \/ n = z
      BY <2>2, <2>4, <2>5, <3>1, <3>2
    <3>3. CASE ~(n = x \/ n = y \/ n = z)
      <4>1. a[n] >= m /\ e = d
        BY <2>1, <2>4, <3>3
      <4>. QED
        BY <2>2, <2>4, <2>5, <3>1, <4>1
    <3>. QED
      BY <3>2, <3>3
  <2>. QED
    BY <2>1, <2>3, <2>6
<1>5. Window \in T
  <2>. HIDE DEF T
  <2>1. \A n \in 0 .. Window - 1 : n \in T => n + 1 \in T
    BY ONLY <1>4
  <2>2. 0 .. Window \subseteq T
    BY ONLY <1>3, <2>1, SlotInduction
  <2>. QED
    BY <1>0, <2>2
<1>6. PICK d : d = ShortOf(a, x, y, z, m, Window)
  OBVIOUS
<1>7. a[x] \in Nat /\ a[y] \in Nat /\ a[z] \in Nat
  OBVIOUS
<1>8. d = (m - a[x]) + (m - a[y]) + (m - a[z])
  BY <1>0, <1>6 DEF Short, ShortOf
<1>9. f[Window] \in Nat /\ m * Window \in Nat /\ m * Window <= f[Window] + d
  BY <1>0, <1>2, <1>5, <1>6
<1>. QED
  BY <1>1, <1>7, <1>8, <1>9

\* Every slot is the slot of one of the last Window probes.
LEMMA SlotsCovered ==
    ASSUME NEW r \in Slot, NEW i \in Slot
    PROVE  \E k \in 1 .. Window : (r - k) % Window = i
<1>0. Window \in Nat /\ Window > 0 /\ r \in 0 .. Window - 1 /\ i \in 0 .. Window - 1
  BY QualityAssumption DEF Slot
<1>1. CASE i < r
  <2>1. PICK k : k = r - i
    OBVIOUS
  <2>2. k \in 1 .. Window /\ r >= k /\ r - k = i
    BY <1>0, <1>1, <2>1
  <2>3. (r - k) % Window = i
    BY <2>2, Back
  <2>. QED
    BY <2>2, <2>3
<1>2. CASE i >= r
  <2>1. PICK k : k = r - i + Window
    OBVIOUS
  <2>2. k \in 1 .. Window /\ r < k /\ r - k + Window = i
    BY <1>0, <1>2, <2>1
  <2>3. ~(r >= k)
    BY <1>0, <2>2
  <2>4. (r - k) % Window = i
    BY <2>2, <2>3, Back
  <2>. QED
    BY <2>2, <2>4
<1>. QED
  BY <1>0, <1>1, <1>2

\* The slots of the last three probes.
LEMMA LastThree ==
    ASSUME NEW r \in Slot, NEW q \in Slot, q = Before(r)
    PROVE  /\ (r - 1) % Window = q
           /\ (r - 2) % Window = (q - 1) % Window /\ (q - 1) % Window \in Slot
           /\ (r - 3) % Window = (q - 2) % Window /\ (q - 2) % Window \in Slot
           /\ q # (q - 1) % Window /\ q # (q - 2) % Window
           /\ (q - 1) % Window # (q - 2) % Window
<1>0. Window \in Nat /\ Window >= 3 /\ r \in 0 .. Window - 1 /\ q \in 0 .. Window - 1
  BY QualityAssumption DEF Slot
<1>1. 1 \in 1 .. Window /\ 2 \in 1 .. Window /\ 3 \in 1 .. Window
  BY <1>0
<1>2. /\ (r - 1) % Window = IF r >= 1 THEN r - 1 ELSE r - 1 + Window
      /\ (r - 2) % Window = IF r >= 2 THEN r - 2 ELSE r - 2 + Window
      /\ (r - 3) % Window = IF r >= 3 THEN r - 3 ELSE r - 3 + Window
      /\ (q - 1) % Window = IF q >= 1 THEN q - 1 ELSE q - 1 + Window
      /\ (q - 2) % Window = IF q >= 2 THEN q - 2 ELSE q - 2 + Window
  BY <1>1, Back
<1>3. q = IF r = 0 THEN Window - 1 ELSE r - 1
  BY DEF Before
<1>4. PICK x1, x2, x3, y1, y2 :
         /\ x1 = (r - 1) % Window /\ x2 = (r - 2) % Window /\ x3 = (r - 3) % Window
         /\ y1 = (q - 1) % Window /\ y2 = (q - 2) % Window
  OBVIOUS
<1>5. /\ x1 = IF r >= 1 THEN r - 1 ELSE r - 1 + Window
      /\ x2 = IF r >= 2 THEN r - 2 ELSE r - 2 + Window
      /\ x3 = IF r >= 3 THEN r - 3 ELSE r - 3 + Window
      /\ y1 = IF q >= 1 THEN q - 1 ELSE q - 1 + Window
      /\ y2 = IF q >= 2 THEN q - 2 ELSE q - 2 + Window
  BY <1>2, <1>4
<1>6. x1 = q /\ x2 = y1 /\ x3 = y2 /\ y1 \in 0 .. Window - 1 /\ y2 \in 0 .. Window - 1
      /\ q # y1 /\ q # y2 /\ y1 # y2
  BY ONLY <1>0, <1>3, <1>5
<1>. QED
  BY <1>4, <1>6 DEF Slot

\* While there is a tuple, the forward table has its averages.
EntryOK == known => entry = {[sett |-> avg, lett |-> lett]}

\* The forward table is computed whenever the averages change.
LEMMA EntryCurrent == Spec => []EntryOK
<1>1. Init => EntryOK
  BY DEF Init, EntryOK
<1>2. EntryOK /\ [Next]_vars => EntryOK'
  <2>. SUFFICES ASSUME EntryOK, [Next]_vars PROVE EntryOK'
    OBVIOUS
  <2>1. ASSUME NEW s \in Setts, InsertNeighborTuple(s) PROVE EntryOK'
    BY <2>1 DEF InsertNeighborTuple, forward_table_computation, EntryOK
  <2>2. CASE OtherTupleInserted
    BY <2>2 DEF OtherTupleInserted, forward_table_computation, EntryOK
  <2>3. CASE NeighborTupleTimerExpire
    BY <2>3 DEF NeighborTupleTimerExpire, EntryOK
  <2>4. CASE Miss \/ UNCHANGED vars
    BY <2>4 DEF Miss, vars, EntryOK
  <2>. QED
    BY <2>1, <2>2, <2>3, <2>4 DEF Next
<1>. QED
  BY <1>1, <1>2, PTL DEF Spec

\* On a link that does not get worse, a burst is forwarded: after a full turn of
\* probes whose last three are no worse than the others, forward_flag is 1, whatever
\* was measured or missed before.
THEOREM SteadyLinkForwards == Spec => []SteadyForwards
<1>1. IInv /\ EstimatesOK /\ AveragesOK /\ EntryOK => SteadyForwards
  <2>. SUFFICES ASSUME IInv, AveragesOK, EntryOK, known, Len(past) = Window,
                       \A j \in 1 .. Window : past[j] # 0, NotWorse
                PROVE  forward_flag
    BY DEF SteadyForwards
  <2>. SUFFICES 10 * avg <= 11 * lett
    <3>. DEFINE e == [sett |-> avg, lett |-> lett]
    <3>1. e \in entry
      BY DEF EntryOK
    <3>2. e.sett = avg /\ e.lett = lett
      OBVIOUS
    <3>. HIDE DEF e
    <3>. QED
      BY <3>1, <3>2 DEF forward_flag
  <2>0. Window \in Nat /\ Window >= 3 /\ 1 \in 1 .. Window /\ 2 \in 1 .. Window /\ 3 \in 1 .. Window
    BY QualityAssumption
  <2>1. arr \in [Slot -> Nat] /\ lpSeq \in Slot /\ prev \in Slot /\ past \in Seq(Nat)
    BY DEF IInv, Types
  <2>2. prev = Before(lpSeq)
    BY <2>0 DEF IInv, LastOK, Heard
  <2>3. avg = ShortAverage(arr, prev) /\ lett = LongAverage(arr)
    BY <2>0 DEF AveragesOK
  <2>4. \A k \in 1 .. Window : arr[(lpSeq - k) % Window] = past[k]
    BY DEF IInv, SlotsOfProbes
  <2>5. PICK q, y, z : q = prev /\ y = (q - 1) % Window /\ z = (q - 2) % Window
    OBVIOUS
  <2>6. /\ q \in Slot /\ y \in Slot /\ z \in Slot /\ q # y /\ q # z /\ y # z
        /\ (lpSeq - 1) % Window = q /\ (lpSeq - 2) % Window = y /\ (lpSeq - 3) % Window = z
    BY <2>1, <2>2, <2>5, LastThree
  <2>7. arr[q] = past[1] /\ arr[y] = past[2] /\ arr[z] = past[3]
    BY <2>0, <2>4, <2>6
  <2>8. ASSUME NEW i \in Slot
        PROVE  \E k \in 1 .. Window : arr[i] = past[k] /\ (i # q /\ i # y /\ i # z => k >= 4)
    <3>1. PICK k \in 1 .. Window : (lpSeq - k) % Window = i
      BY <2>1, SlotsCovered
    <3>2. arr[i] = past[k]
      BY <2>4, <3>1
    <3>3. i # q /\ i # y /\ i # z => k # 1 /\ k # 2 /\ k # 3
      BY <2>6, <3>1
    <3>. QED
      BY <2>0, <3>2, <3>3
  <2>9. \A i \in Slot : arr[i] # 0
    BY <2>8
  <2>10. PICK a, b, c, m : /\ a = arr[q] /\ b = arr[y] /\ c = arr[z]
                           /\ m = (a + b + c) \div 3
    OBVIOUS
  <2>11. a \in Nat /\ b \in Nat /\ c \in Nat
    BY <2>1, <2>6, <2>10
  <2>12. m \in Nat /\ 3 * m <= a + b + c /\ (m <= a \/ m <= b \/ m <= c)
    <3>1. PICK s \in Nat : s = a + b + c
      BY <2>11
    <3>2. m \in Int /\ 3 * m <= s /\ s < 3 * m + 3
      BY <2>10, <3>1
    <3>. QED
      BY <2>11, <3>1, <3>2
  <2>13. avg = m
    <3>1. Full(arr)[y] = 1 /\ Full(arr)[z] = 1
      BY <2>6, <2>9 DEF Full
    <3>. QED
      BY <2>3, <2>5, <2>10, <3>1 DEF ShortAverage
  <2>14. ASSUME NEW i \in Slot, i # q, i # y, i # z PROVE arr[i] >= m
    <3>1. PICK k \in 1 .. Window : arr[i] = past[k] /\ k >= 4
      BY <2>8, <2>14
    <3>2. k \in 4 .. Window
      BY <2>0, <3>1
    <3>3. past[1] <= past[k] /\ past[2] <= past[k] /\ past[3] <= past[k]
      BY <3>2 DEF NotWorse
    <3>4. arr[i] \in Nat /\ a <= arr[i] /\ b <= arr[i] /\ c <= arr[i]
      BY <2>1, <2>7, <2>10, <3>1, <3>3
    <3>. QED
      BY <2>11, <2>12, <3>4
  <2>15. m * Window <= Sums(arr)[Window]
    <3>1. arr[q] + arr[y] + arr[z] >= 3 * m
      BY <2>10, <2>11, <2>12
    <3>2. \A i \in Slot : i # q /\ i # y /\ i # z => arr[i] >= m
      BY <2>14
    <3>3. NoneBelow(arr, q, y, z, m)
      BY <2>6, <3>1, <3>2 DEF NoneBelow
    <3>. QED
      BY <2>1, <2>6, <2>12, <3>3, SumsAtLeast
  <2>16. PICK s : s = Sums(arr)[Window]
    OBVIOUS
  <2>17. s \in Nat /\ lett = s \div Window
    BY <2>0, <2>1, <2>3, <2>9, <2>16, AllFull, SumsAre DEF LongAverage
  <2>18. s <= s * Window
    BY <2>0, <2>17, Z3
  <2>19. s \div Window \in Nat /\ m <= s \div Window
    <3>1. m * Window <= s /\ Window \in Nat \ {0}
      BY <2>0, <2>15, <2>16
    <3>. QED
      BY <2>12, <2>17, <2>18, <3>1, MeanBounded
  <2>. QED
    BY <2>12, <2>13, <2>17, <2>19
<1>. QED
  BY <1>1, Inductive, Estimated, EntryCurrent, PTL
=============================================================================
