------------------------- MODULE ForwardTableProofs -------------------------
(***************************************************************************)
(* Proofs about the forward search of ForwardTable, for every network and  *)
(* all weights.  The inductive invariant adds to the properties that the   *)
(* confirmed entries are not worse than the tentative ones (Sorted) and    *)
(* that every listed link out of a confirmed node leads to an entry that   *)
(* is not worse than the way over that link (Covered).  The last part      *)
(* proves, by induction on the number of links, that the finished table    *)
(* agrees with the reference definition Ways.                              *)
(***************************************************************************)
EXTENDS ForwardTable, FiniteSetTheorems, NaturalsInduction, WellFoundedInduction, TLAPS

Sorted == \A f \in forward, t \in tent : f.sett <= t.sett

\* The tables have an entry for b of at most weight w.
Has(b, w) == \E t \in forward \cup tent : t.dest = b /\ t.sett <= w

Covered ==
    /\ \A b \in Node : sett[Me][b] > 0 => Has(b, sett[Me][b])
    /\ \A e \in forward, b \in Node :
          sett[e.dest][b] > 0 /\ b # Me => Has(b, e.sett + sett[e.dest][b])

IInv ==
    /\ TypeOK
    /\ OneEntryEach
    /\ PathsAreReal
    /\ Sorted
    /\ Covered

-----------------------------------------------------------------------------
\* What an offer is: an entry one link longer than that of the confirmed node.
LEMMA OfferIs ==
    ASSUME TypeOK, NEW e \in tent, NEW o \in Offered(e)
    PROVE  /\ o \in Entries
           /\ sett[e.dest][o.dest] > 0
           /\ o.sett = e.sett + sett[e.dest][o.dest]
           /\ o.lett = e.lett + lett[e.dest][o.dest]
           /\ o.hop = e.hop
           /\ o.path = <<o.dest>> \o e.path
           /\ o.sett >= e.sett
  <1>1. e \in Entries
    BY DEF TypeOK
  <1>2. PICK b \in Node :
           /\ sett[e.dest][b] > 0
           /\ o = Entry(b, sett[e.dest][b] + e.sett, lett[e.dest][b] + e.lett,
                        e.hop, <<b>> \o e.path)
    BY DEF Offered
  <1>3. /\ e.dest \in Node /\ e.sett \in Nat /\ e.lett \in Nat /\ e.hop \in Node
        /\ e.path \in Seq(Node)
    BY <1>1 DEF Entries
  <1>4. sett[e.dest][b] \in Nat /\ lett[e.dest][b] \in Nat
    BY <1>3 DEF TypeOK, TypeOfWeights
  <1>5. <<b>> \o e.path \in Seq(Node)
    BY <1>3
  <1>6. PICK s, l, p :
           /\ s = sett[e.dest][b] + e.sett /\ l = lett[e.dest][b] + e.lett
           /\ p = <<b>> \o e.path
    OBVIOUS
  <1>7. s \in Nat /\ l \in Nat /\ s >= e.sett
    <2>1. s = sett[e.dest][b] + e.sett /\ l = lett[e.dest][b] + e.lett
      BY <1>6
    <2>2. e.sett \in Nat /\ e.lett \in Nat
      BY <1>3
    <2> QED
      BY ONLY <1>4, <2>1, <2>2
  <1>8. o = [dest |-> b, sett |-> s, lett |-> l, hop |-> e.hop, path |-> p]
    BY <1>2, <1>6 DEF Entry
  <1>9. o \in Entries
    BY <1>3, <1>5, <1>6, <1>7, <1>8 DEF Entries
  <1>10. o.dest = b /\ o.sett = s /\ o.lett = l /\ o.hop = e.hop /\ o.path = p
    BY <1>8
  <1> QED
    <2>1. sett[e.dest][o.dest] > 0
      BY <1>2, <1>10
    <2>2. o.sett = e.sett + sett[e.dest][o.dest] /\ o.lett = e.lett + lett[e.dest][o.dest]
      BY <1>3, <1>4, <1>6, <1>10
    <2>3. o.hop = e.hop /\ o.path = <<o.dest>> \o e.path /\ o.sett >= e.sett
      BY <1>6, <1>7, <1>10
    <2> QED
      BY <1>9, <2>1, <2>2, <2>3

\* The LSA of a confirmed node gives at most one offer for a destination.
LEMMA OneOffer ==
    ASSUME NEW e, NEW o \in Offered(e), NEW q \in Offered(e), o.dest = q.dest
    PROVE  o = q
  <1> DEFINE Of(b) == Entry(b, sett[e.dest][b] + e.sett, lett[e.dest][b] + e.lett,
                            e.hop, <<b>> \o e.path)
  <1>1. \A b : Of(b).dest = b
    BY DEF Entry
  <1>2. PICK b \in Node : o = Of(b)
    BY DEF Offered
  <1>3. PICK c \in Node : q = Of(c)
    BY DEF Offered
  <1> HIDE DEF Of
  <1> QED
    BY <1>1, <1>2, <1>3

\* A link of the LSA gives an offer.
LEMMA Offer ==
    ASSUME TypeOK, NEW e \in tent, NEW b \in Node, sett[e.dest][b] > 0
    PROVE  \E o \in Offered(e) : o.dest = b /\ o.sett = e.sett + sett[e.dest][b]
  <1>1. e \in Entries
    BY DEF TypeOK
  <1>2. e.dest \in Node /\ e.sett \in Nat
    BY <1>1 DEF Entries
  <1>3. sett[e.dest][b] \in Nat
    BY <1>2 DEF TypeOK, TypeOfWeights
  <1> DEFINE o == Entry(b, sett[e.dest][b] + e.sett, lett[e.dest][b] + e.lett,
                        e.hop, <<b>> \o e.path)
  <1>4. o \in Offered(e)
    BY DEF Offered
  <1>5. o.dest = b /\ o.sett = sett[e.dest][b] + e.sett
    BY DEF Entry
  <1> QED
    BY <1>2, <1>3, <1>4, <1>5

\* One turn, for the entry it confirms.
TurnOf(e) ==
    /\ e \in tent
    /\ \A t \in tent : e.sett <= t.sett
    /\ forward' = forward \cup {e}
    /\ tent' = ((tent \ {e}) \ Replaced(e, tent \ {e})) \cup Accepted(e, tent \ {e})
    /\ UNCHANGED <<sett, lett>>

LEMMA ATurn ==
    ASSUME Turn
    PROVE  \E e \in tent : TurnOf(e)
  BY DEF Turn, TurnOf, Least

\* No destination is lost in a turn, and no entry gets worse.
LEMMA Kept ==
    ASSUME IInv, NEW e, TurnOf(e), NEW t \in forward \cup tent
    PROVE  \E u \in (forward \cup tent)' : u.dest = t.dest /\ u.sett <= t.sett
  <1> DEFINE rest == tent \ {e}
  <1>1. t.sett \in Nat /\ t.sett <= t.sett
    BY DEF IInv, TypeOK, Entries
  <1>2. CASE t \in forward \/ t = e
    BY <1>1, <1>2 DEF TurnOf
  <1>3. CASE t \in rest /\ t \notin Replaced(e, rest)
    BY <1>1, <1>3 DEF TurnOf
  <1>4. CASE t \in rest /\ t \in Replaced(e, rest)
    <2>1. PICK o \in Offered(e) : o.dest = t.dest /\ o.sett <= t.sett
      BY <1>4 DEF Replaced
    <2>2. o.dest # Me
      BY <2>1, <1>4 DEF IInv, OneEntryEach, Dests
    <2>3. o.dest \notin Dests(forward)
      BY <2>1, <1>4 DEF IInv, OneEntryEach, Dests
    <2>4. o.dest # e.dest
      BY <2>1, <1>4 DEF IInv, OneEntryEach, TurnOf
    <2>5. \A u \in rest : u.dest = o.dest => u = t
      BY <2>1, <1>4 DEF IInv, OneEntryEach
    <2>6. NotWorse(o, rest)
      BY <2>1, <2>5 DEF NotWorse
    <2>7. o \in Accepted(e, rest)
      BY <2>2, <2>3, <2>4, <2>6 DEF Accepted
    <2> QED
      BY <2>1, <2>7 DEF TurnOf
  <1> QED
    BY <1>2, <1>3, <1>4

\* An accepted offer is for a destination that nothing else is for.
LEMMA Fresh ==
    ASSUME IInv, NEW e, TurnOf(e), NEW o \in Accepted(e, tent \ {e})
    PROVE  /\ o \in Offered(e)
           /\ o.dest # Me
           /\ o.dest # e.dest
           /\ \A f \in forward : f.dest # o.dest
           /\ \A t \in (tent \ {e}) \ Replaced(e, tent \ {e}) : t.dest # o.dest
  <1>1. /\ o \in Offered(e) /\ o.dest # Me /\ o.dest # e.dest
        /\ \A f \in forward : f.dest # o.dest
        /\ NotWorse(o, tent \ {e})
    BY DEF Accepted, Dests
  <1>2. ASSUME NEW t \in tent \ {e}, t.dest = o.dest
        PROVE  t \in Replaced(e, tent \ {e})
    BY <1>1, <1>2 DEF NotWorse, Replaced
  <1> QED
    BY <1>1, <1>2

-----------------------------------------------------------------------------
\* The search starts in the invariant.
LEMMA InitInv == Init => IInv
  <1> SUFFICES ASSUME Init
               PROVE  IInv
    OBVIOUS
  <1>0. /\ forward = {}
        /\ tent = {Entry(b, sett[Me][b], lett[Me][b], b, <<b>>) :
                       b \in {c \in Node : sett[Me][c] > 0}}
        /\ TypeOfWeights
        /\ Me \in Node
    BY ForwardAssumption DEF Init, Start
  <1>1. ASSUME NEW t \in tent
        PROVE  /\ t \in Entries
               /\ t.dest # Me
               /\ sett[Me][t.dest] > 0
               /\ t = Entry(t.dest, sett[Me][t.dest], lett[Me][t.dest], t.dest, <<t.dest>>)
    <2>1. PICK b \in Node : sett[Me][b] > 0 /\ t = Entry(b, sett[Me][b], lett[Me][b], b, <<b>>)
      BY <1>0
    <2>2. sett[Me][b] \in Nat /\ lett[Me][b] \in Nat /\ b # Me
      BY <1>0, <2>1 DEF TypeOfWeights
    <2>3. <<b>> \in Seq(Node)
      OBVIOUS
    <2>4. t \in Entries /\ t.dest = b
      BY <2>1, <2>2, <2>3 DEF Entry, Entries
    <2> QED
      BY <2>1, <2>2, <2>4
  <1>2. TypeOK
    BY <1>0, <1>1 DEF TypeOK
  <1>3. OneEntryEach
    <2>1. \A e, f \in tent : e.dest = f.dest => e = f
      BY <1>1
    <2> QED
      BY <2>1, <1>0, <1>1 DEF OneEntryEach, Dests
  <1>4. PathsAreReal
    BY <1>0, <1>1 DEF PathsAreReal, Direct
  <1>5. Covered
    <2>1. ASSUME NEW b \in Node, sett[Me][b] > 0
          PROVE  Has(b, sett[Me][b])
      <3> DEFINE t == Entry(b, sett[Me][b], lett[Me][b], b, <<b>>)
      <3>1. t \in tent
        BY <1>0, <2>1
      <3>2. t.dest = b /\ t.sett = sett[Me][b]
        BY DEF Entry
      <3>3. sett[Me][b] \in Nat
        BY <1>0 DEF TypeOfWeights
      <3> QED
        BY <3>1, <3>2, <3>3 DEF Has
    <2> QED
      BY <2>1, <1>0 DEF Covered
  <1> QED
    BY <1>0, <1>2, <1>3, <1>4, <1>5 DEF IInv, Sorted

\* A turn keeps the types.
LEMMA StepType ==
    ASSUME IInv, NEW e, TurnOf(e)
    PROVE  TypeOK'
  <1>1. \A o \in Accepted(e, tent \ {e}) : o \in Entries
    BY Fresh, OfferIs DEF IInv, TurnOf
  <1>2. e \in Entries /\ forward \subseteq Entries /\ tent \subseteq Entries /\ TypeOfWeights
    BY DEF IInv, TypeOK, TurnOf
  <1>3. forward' \subseteq Entries
    BY <1>2 DEF TurnOf
  <1>4. tent' \subseteq Entries
    BY <1>1, <1>2 DEF TurnOf
  <1>5. TypeOfWeights'
    BY <1>2 DEF TurnOf, TypeOfWeights
  <1> QED
    BY <1>3, <1>4, <1>5 DEF TypeOK, Entries

\* A turn keeps the destinations distinct.
LEMMA StepOne ==
    ASSUME IInv, NEW e, TurnOf(e)
    PROVE  OneEntryEach'
  <1> DEFINE A == Accepted(e, tent \ {e})
             L == (tent \ {e}) \ Replaced(e, tent \ {e})
  <1> HIDE DEF A, L
  <1>1. forward' = forward \cup {e} /\ tent' = L \cup A /\ L \subseteq tent \ {e} /\ e \in tent
    BY DEF TurnOf, A, L
  <1>2. \A t, u \in forward \cup tent : t.dest = u.dest => t = u
    BY DEF IInv, OneEntryEach
  <1>3. \A t \in forward \cup tent : t.dest # Me
    BY DEF IInv, OneEntryEach, Dests
  <1>4. \A f \in forward, t \in tent : f.dest # t.dest
    BY DEF IInv, OneEntryEach, Dests
  <1>5. \A o \in A : /\ o.dest # Me
                     /\ \A f \in forward \cup {e} : f.dest # o.dest
                     /\ \A t \in L : t.dest # o.dest
    BY Fresh DEF A, L
  <1>6. \A o, q \in A : o.dest = q.dest => o = q
    BY OneOffer DEF A, Accepted
  <1>7. \A t, u \in forward' \cup tent' : t.dest = u.dest => t = u
    BY <1>1, <1>2, <1>5, <1>6
  <1>8. \A t \in forward' \cup tent' : t.dest # Me
    BY <1>1, <1>3, <1>5
  <1>9. \A f \in forward', t \in tent' : f.dest # t.dest
    BY <1>1, <1>2, <1>4, <1>5
  <1> QED
    BY <1>7, <1>8, <1>9 DEF OneEntryEach, Dests

\* A turn keeps every path on listed links.
LEMMA StepPaths ==
    ASSUME IInv, NEW e, TurnOf(e)
    PROVE  PathsAreReal'
  <1>1. ASSUME NEW t \in forward \cup tent
        PROVE  Direct(t) \/ \E f \in forward' : f # t /\ Extends(t, f)
    BY DEF IInv, PathsAreReal, TurnOf
  <1>2. ASSUME NEW o \in Accepted(e, tent \ {e})
        PROVE  o # e /\ Extends(o, e)
    BY Fresh, OfferIs DEF Extends, IInv, TurnOf
  <1>3. e \in forward'
    BY DEF TurnOf
  <1>4. \A t \in forward' \cup tent' : t \in forward \cup tent \/ t \in Accepted(e, tent \ {e})
    BY DEF TurnOf
  <1>5. \A t \in forward' \cup tent' : Direct(t) \/ \E f \in forward' : f # t /\ Extends(t, f)
    BY <1>1, <1>2, <1>3, <1>4
  <1>6. sett' = sett /\ lett' = lett
    BY DEF TurnOf
  <1> QED
    BY <1>5, <1>6 DEF PathsAreReal, Direct, Extends

\* A turn confirms the best entry and offers no better one.
LEMMA StepSorted ==
    ASSUME IInv, NEW e, TurnOf(e)
    PROVE  Sorted'
  <1>1. \A t \in tent : e.sett <= t.sett
    BY DEF TurnOf
  <1>2. \A o \in Accepted(e, tent \ {e}) : o \in Entries /\ o.sett >= e.sett
    BY Fresh, OfferIs DEF IInv, TurnOf
  <1>3. \A f \in forward : f.sett <= e.sett
    BY DEF IInv, Sorted, TurnOf
  <1>4. \A t \in forward \cup tent : t.sett \in Nat
    BY DEF IInv, TypeOK, Entries
  <1>5. \A o \in Entries : o.sett \in Nat
    BY DEF Entries
  <1>6. e.sett \in Nat /\ e.sett <= e.sett
    BY <1>4 DEF TurnOf
  <1>7. \A f \in forward' : f.sett \in Nat /\ f.sett <= e.sett
    BY <1>3, <1>4, <1>6 DEF TurnOf
  <1>8. \A t \in tent' : t.sett \in Nat /\ e.sett <= t.sett
    BY <1>1, <1>2, <1>4, <1>5, <1>6 DEF TurnOf
  <1> QED
    BY <1>6, <1>7, <1>8 DEF Sorted

\* A turn covers the links of the node it confirms.
LEMMA StepCovered ==
    ASSUME IInv, NEW e, TurnOf(e)
    PROVE  Covered'
  <1>0. sett' = sett /\ e \in tent /\ e.dest \in Node /\ e.sett \in Nat
    BY DEF TurnOf, IInv, TypeOK, Entries
  <1>1. ASSUME NEW b, NEW w \in Nat, Has(b, w)
        PROVE  \E u \in (forward \cup tent)' : u.dest = b /\ u.sett <= w
    <2>1. PICK t \in forward \cup tent : t.dest = b /\ t.sett <= w
      BY <1>1 DEF Has
    <2>2. PICK u \in (forward \cup tent)' : u.dest = b /\ u.sett <= t.sett
      BY <2>1, Kept
    <2>3. t.sett \in Nat
      BY DEF IInv, TypeOK, Entries
    <2>4. u.sett \in Nat
      BY StepType DEF TypeOK, Entries
    <2> QED
      BY <2>1, <2>2, <2>3, <2>4
  <1>2. \A n \in Node, b \in Node : sett[n][b] \in Nat
    BY DEF IInv, TypeOK, TypeOfWeights
  <1>3. ASSUME NEW b \in Node, sett[Me][b] > 0
        PROVE  \E u \in (forward \cup tent)' : u.dest = b /\ u.sett <= sett[Me][b]
    BY <1>1, <1>2, <1>3, ForwardAssumption DEF IInv, Covered
  <1>4. ASSUME NEW f \in forward, NEW b \in Node, sett[f.dest][b] > 0, b # Me
        PROVE  \E u \in (forward \cup tent)' : u.dest = b /\ u.sett <= f.sett + sett[f.dest][b]
    <2>1. f.dest \in Node /\ f.sett \in Nat
      BY DEF IInv, TypeOK, Entries
    <2>2. f.sett + sett[f.dest][b] \in Nat
      BY <2>1, <1>2
    <2>3. Has(b, f.sett + sett[f.dest][b])
      BY <1>4 DEF IInv, Covered
    <2> QED
      BY <2>2, <2>3, <1>1
  <1>5. ASSUME NEW b \in Node, sett[e.dest][b] > 0, b # Me
        PROVE  \E u \in (forward \cup tent)' : u.dest = b /\ u.sett <= e.sett + sett[e.dest][b]
    <2>1. sett[e.dest][b] \in Nat
      BY <1>0, <1>2
    <2>2. PICK o \in Offered(e) : o.dest = b /\ o.sett = e.sett + sett[e.dest][b]
      BY <1>0, <1>5, Offer DEF IInv
    <2>3. o.sett \in Nat
      BY <2>1, <2>2, <1>0
    <2>4. CASE b \in Dests(forward) \cup {e.dest}
      <3>1. PICK f \in forward \cup {e} : f.dest = b
        BY <2>4 DEF Dests
      <3>2. f.sett \in Nat /\ f.sett <= e.sett
        BY <1>0 DEF IInv, Sorted, TypeOK, Entries
      <3>3. f.sett <= e.sett + sett[e.dest][b]
        BY <3>2, <2>1, <1>0
      <3> QED
        BY <3>1, <3>3 DEF TurnOf
    <2>5. CASE b \notin Dests(forward) \cup {e.dest} /\ NotWorse(o, tent \ {e})
      <3>1. o \in Accepted(e, tent \ {e})
        BY <2>2, <2>5, <1>5 DEF Accepted
      <3> QED
        BY <3>1, <2>2, <2>3 DEF TurnOf
    <2>6. CASE ~NotWorse(o, tent \ {e})
      <3>1. PICK t \in tent \ {e} : t.dest = b /\ ~(o.sett <= t.sett)
        BY <2>6, <2>2 DEF NotWorse
      <3>2. t.sett \in Nat
        BY DEF IInv, TypeOK, Entries
      <3>3. t.sett <= o.sett
        BY <3>1, <3>2, <2>3
      <3>4. Has(b, o.sett)
        BY <3>1, <3>3 DEF Has
      <3> QED
        BY <3>4, <1>1, <2>2, <2>3
    <2> QED
      BY <2>4, <2>5, <2>6
  <1>6. forward' = forward \cup {e}
    BY DEF TurnOf
  <1>7. \A b \in Node : sett[Me][b] > 0 => Has(b, sett[Me][b])'
    BY <1>0, <1>3 DEF Has
  <1>8. \A f \in forward', b \in Node :
           sett[f.dest][b] > 0 /\ b # Me => Has(b, f.sett + sett[f.dest][b])'
    BY <1>0, <1>4, <1>5, <1>6 DEF Has
  <1> QED
    BY <1>0, <1>7, <1>8 DEF Covered

\* The invariant is inductive: one turn of the while loop of
\* forward_table_computation keeps it.
THEOREM Inductive == Spec => []IInv
  <1>1. IInv /\ [Turn]_vars => IInv'
    <2> SUFFICES ASSUME IInv, [Turn]_vars
                 PROVE  IInv'
      OBVIOUS
    <2>1. CASE Turn
      <3>1. PICK e \in tent : TurnOf(e)
        BY <2>1, ATurn
      <3> QED
        BY <3>1, StepType, StepOne, StepPaths, StepSorted, StepCovered DEF IInv
    <2>2. CASE UNCHANGED vars
      BY <2>2, ZenonT(30) DEF vars, IInv, TypeOK, TypeOfWeights, OneEntryEach, Dests, PathsAreReal,
                  Direct, Extends, Sorted, Covered, Has
    <2> QED
      BY <2>1, <2>2
  <1> QED
    BY InitInv, <1>1, PTL DEF Spec

\* Both tables of forward_table_computation hold well-formed entries.
THEOREM TypeCorrect == Spec => []TypeOK
  <1>1. IInv => TypeOK
    BY DEF IInv
  <1> QED
    BY <1>1, Inductive, PTL

\* m_forward_table and m_tentative_table never have two entries for one
\* destination nor one for the node itself.
THEOREM EntriesDistinct == Spec => []OneEntryEach
  <1>1. IInv => OneEntryEach
    BY DEF IInv
  <1> QED
    BY <1>1, Inductive, PTL

\* The path, the next hop and the sums of every entry are those of a way over
\* links of the neighbor table and the LSA table.
THEOREM RealPaths == Spec => []PathsAreReal
  <1>1. IInv => PathsAreReal
    BY DEF IInv
  <1> QED
    BY <1>1, Inductive, PTL

\* No link of the tables is a shortcut for a confirmed entry: the forward search
\* finds shortest paths.
THEOREM Shortest == Spec => []NoShortcut
  <1>1. IInv => NoShortcut
    <2> SUFFICES ASSUME IInv
                 PROVE  NoShortcut
      OBVIOUS
    <2>1. \A t, u \in forward \cup tent : t.dest = u.dest => t = u
      BY DEF IInv, OneEntryEach
    <2>2. \A f \in forward : f.dest \in Node /\ f.dest # Me
      BY DEF IInv, OneEntryEach, Dests, TypeOK, Entries
    <2>3. ASSUME NEW f \in forward, sett[Me][f.dest] > 0
          PROVE  f.sett <= sett[Me][f.dest]
      <3>1. Has(f.dest, sett[Me][f.dest])
        BY <2>2, <2>3 DEF IInv, Covered
      <3> QED
        BY <3>1, <2>1 DEF Has
    <2>4. ASSUME NEW e \in forward, NEW f \in forward, sett[e.dest][f.dest] > 0
          PROVE  f.sett <= e.sett + sett[e.dest][f.dest]
      <3>1. Has(f.dest, e.sett + sett[e.dest][f.dest])
        BY <2>2, <2>4 DEF IInv, Covered
      <3> QED
        BY <3>1, <2>1 DEF Has
    <2> QED
      BY <2>3, <2>4 DEF NoShortcut
  <1> QED
    BY <1>1, Inductive, PTL

\* When the loop of forward_table_computation ends, the forward table has every
\* neighbor and every node that the LSA of a confirmed node lists.
THEOREM Complete == Spec => []AllReached
  <1>1. IInv => AllReached
    <2> SUFFICES ASSUME IInv, tent = {}
                 PROVE  /\ \A b \in Node : sett[Me][b] > 0 => b \in Dests(forward)
                        /\ \A e \in forward, b \in Node :
                              sett[e.dest][b] > 0 /\ b # Me => b \in Dests(forward)
      BY DEF AllReached
    <2>1. ASSUME NEW b, NEW w, Has(b, w)
          PROVE  b \in Dests(forward)
      BY <2>1 DEF Has, Dests
    <2> QED
      BY <2>1 DEF IInv, Covered
  <1> QED
    BY <1>1, Inductive, PTL

-----------------------------------------------------------------------------
(* Induction, stated for a set of numbers: the library states it for an     *)
(* operator, which no prover here can instantiate.                          *)

\* The order of the natural numbers as a set of pairs.
Less == OpToRel(<, Nat)

\* It is well-founded.
LEMMA LessWellFounded == IsWellFoundedOn(Less, Nat)
  BY NatLessThanWellFounded, Zenon DEF Less

\* It contains every number with each greater one.
LEMMA LessIs == \A x, y \in Nat : x < y => <<x, y>> \in Less
  BY DEF Less, OpToRel

\* Every set of numbers that is not empty has a least element.
LEMMA LeastNumber ==
    ASSUME NEW T, T \subseteq Nat, T # {}
    PROVE  \E x \in T : \A y \in T : x <= y
  <1>1. PICK x \in T : \A y \in T : ~ (<<y, x>> \in Less)
    BY LessWellFounded, WFMin
  <1>2. ASSUME NEW y \in T PROVE x <= y
    <2>1. x \in Nat /\ y \in Nat
      OBVIOUS
    <2>2. ~ (y < x)
      BY <2>1, <1>1, LessIs
    <2> QED
      BY <2>1, <2>2
  <1> QED
    BY <1>2

\* A set with 0 and, below m, the successor of each of its numbers has all up to m.
LEMMA Induction ==
    ASSUME NEW m \in Nat, NEW T, 0 \in T, \A n \in 0 .. m - 1 : n \in T => n + 1 \in T
    PROVE  0 .. m \subseteq T
  <1> SUFFICES ASSUME (0 .. m) \ T # {} PROVE FALSE
    OBVIOUS
  <1> DEFINE U == (0 .. m) \ T
  <1>0. U \subseteq Nat /\ U # {}
    OBVIOUS
  <1>1. PICK x \in U : \A y \in U : x <= y
    <2> HIDE DEF U
    <2> QED
      BY <1>0, LeastNumber
  <1>2. x # 0 /\ x - 1 \in 0 .. m - 1 /\ x - 1 \in T /\ (x - 1) + 1 = x
    BY <1>1
  <1> QED
    BY <1>1, <1>2

-----------------------------------------------------------------------------
(* The reference.                                                          *)

K == Cardinality(Node)

\* The weights of at most no link.
NoLink == [n \in Node |-> IF n = Me THEN 0 ELSE MaxWt]

\* g holds the distances in up to j links.
Builds(g, j) == g[0] = NoLink /\ \A i \in 1 .. j : g[i] = OneLinkMore(g[i - 1])

\* There are finitely many nodes.
LEMMA Many == K \in Nat /\ NoLink \in [Node -> Nat]
  BY ForwardAssumption, FS_CardinalityType DEF K, NoLink

\* One link more gives a better distance, or the same, and no other.
LEMMA OneLink ==
    ASSUME TypeOfWeights, NEW d \in [Node -> Nat]
    PROVE  /\ OneLinkMore(d) \in [Node -> Nat]
           /\ \A n \in Node : OneLinkMore(d)[n] <= d[n]
           /\ \A n, m \in Node : sett[m][n] > 0 => OneLinkMore(d)[n] <= d[m] + sett[m][n]
           /\ \A n \in Node :
                \/ OneLinkMore(d)[n] = d[n]
                \/ \E m \in Node : sett[m][n] > 0 /\ OneLinkMore(d)[n] = d[m] + sett[m][n]
  <1>1. ASSUME NEW n \in Node
        PROVE  /\ OneLinkMore(d)[n] \in Nat
               /\ OneLinkMore(d)[n] <= d[n]
               /\ \A m \in Node : sett[m][n] > 0 => OneLinkMore(d)[n] <= d[m] + sett[m][n]
               /\ \/ OneLinkMore(d)[n] = d[n]
                  \/ \E m \in Node : sett[m][n] > 0 /\ OneLinkMore(d)[n] = d[m] + sett[m][n]
    <2>1. PICK S : S = {d[n]} \cup {d[m] + sett[m][n] : m \in {a \in Node : sett[a][n] > 0}}
      OBVIOUS
    <2>2. OneLinkMore(d)[n] = LeastOf(S)
      BY <2>1 DEF OneLinkMore
    <2>3. \A m \in Node : d[m] \in Nat /\ sett[m][n] \in Nat /\ d[m] + sett[m][n] \in Nat
      BY DEF TypeOfWeights
    <2>4. S \subseteq Nat /\ S # {}
      BY <2>1, <2>3
    <2>5. \E x \in S : \A y \in S : x <= y
      BY <2>4, LeastNumber
    <2>6. LeastOf(S) \in S /\ \A y \in S : LeastOf(S) <= y
      BY <2>5 DEF LeastOf
    <2>7. d[n] \in S /\ \A m \in Node : sett[m][n] > 0 => d[m] + sett[m][n] \in S
      BY <2>1
    <2>8. LeastOf(S) = d[n]
             \/ \E m \in Node : sett[m][n] > 0 /\ LeastOf(S) = d[m] + sett[m][n]
      BY <2>1, <2>6
    <2> QED
      BY <2>2, <2>4, <2>6, <2>7, <2>8
  <1>2. OneLinkMore(d) \in [Node -> Nat]
    BY <1>1 DEF OneLinkMore
  <1> QED
    BY <1>1, <1>2

\* The recursive definition of the distances has a solution.
LEMMA WaysExist ==
    ASSUME TypeOfWeights
    PROVE  \E g \in [0 .. K -> [Node -> Nat]] : Builds(g, K)
  <1> DEFINE T == {j \in 0 .. K : \E g \in [0 .. j -> [Node -> Nat]] : Builds(g, j)}
  <1>1. 0 \in T
    <2>1. PICK g : g = [i \in 0 .. 0 |-> NoLink]
      OBVIOUS
    <2>2. g \in [0 .. 0 -> [Node -> Nat]] /\ g[0] = NoLink
      BY <2>1, Many
    <2>3. Builds(g, 0)
      BY <2>2 DEF Builds
    <2> QED
      BY <2>2, <2>3, Many
  <1>2. ASSUME NEW j \in 0 .. K - 1, j \in T PROVE j + 1 \in T
    <2>1. PICK g \in [0 .. j -> [Node -> Nat]] : Builds(g, j)
      BY <1>2
    <2>2. j \in Nat /\ j + 1 \in 0 .. K /\ j \in 0 .. j
      BY Many
    <2>3. PICK d : d = OneLinkMore(g[j])
      OBVIOUS
    <2>4. d \in [Node -> Nat]
      BY <2>2, <2>3, OneLink
    <2>5. PICK h : h = [i \in 0 .. j + 1 |-> IF i = j + 1 THEN d ELSE g[i]]
      OBVIOUS
    <2>6. h \in [0 .. j + 1 -> [Node -> Nat]]
      BY <2>2, <2>4, <2>5
    <2>7. (\A i \in 0 .. j : h[i] = g[i]) /\ h[j + 1] = d
      BY <2>2, <2>5
    <2>8. h[0] = NoLink
      BY <2>1, <2>2, <2>7 DEF Builds
    <2>9. ASSUME NEW i \in 1 .. j + 1 PROVE h[i] = OneLinkMore(h[i - 1])
      <3>1. CASE i = j + 1
        <4>1. h[i] = d /\ h[i - 1] = g[j]
          BY <2>2, <2>7, <3>1
        <4> QED
          BY <2>3, <4>1
      <3>2. CASE i # j + 1
        <4>1. i \in 1 .. j /\ i \in 0 .. j /\ i - 1 \in 0 .. j
          BY <2>2, <3>2
        <4>2. h[i] = g[i] /\ h[i - 1] = g[i - 1] /\ g[i] = OneLinkMore(g[i - 1])
          BY <2>1, <2>7, <4>1 DEF Builds
        <4> QED
          BY <4>2
      <3> QED
        BY <3>1, <3>2
    <2>10. Builds(h, j + 1)
      BY <2>8, <2>9 DEF Builds
    <2> QED
      BY <2>2, <2>6, <2>10
  <1>3. K \in T
    <2> HIDE DEF T
    <2>1. \A j \in 0 .. K - 1 : j \in T => j + 1 \in T
      BY ONLY <1>2
    <2>2. 0 .. K \subseteq T
      BY ONLY <1>1, <2>1, Many, Induction
    <2> QED
      BY <2>2, Many
  <1> QED
    BY <1>3

\* What the reference computes.
LEMMA WaysAre ==
    ASSUME TypeOfWeights
    PROVE  Ways \in [0 .. K -> [Node -> Nat]] /\ Builds(Ways, K)
  <1> DEFINE Body(f) == [j \in 0 .. K |-> IF j = 0 THEN NoLink ELSE OneLinkMore(f[j - 1])]
  <1>1. PICK g \in [0 .. K -> [Node -> Nat]] : Builds(g, K)
    BY WaysExist
  <1>2. g = Body(g)
    <2>1. \A j \in 0 .. K : g[j] = IF j = 0 THEN NoLink ELSE OneLinkMore(g[j - 1])
      BY <1>1, Many DEF Builds
    <2> QED
      BY <2>1
  <1>3. Ways = CHOOSE f : f = Body(f)
    BY DEF Ways, K, NoLink
  <1>4. Ways = Body(Ways)
    BY <1>2, <1>3
  <1>5. PICK f : f = Ways
    OBVIOUS
  <1>6. f = Body(f)
    BY <1>4, <1>5
  <1>7. Builds(f, K)
    <2>1. f[0] = NoLink
      BY <1>6, Many
    <2>2. ASSUME NEW j \in 1 .. K PROVE f[j] = OneLinkMore(f[j - 1])
      BY <1>6, Many
    <2> QED
      BY <2>1, <2>2 DEF Builds
  <1>8. \A j \in 0 .. K : f[j] \in [Node -> Nat]
    <2> DEFINE T == {j \in 0 .. K : f[j] \in [Node -> Nat]}
    <2>1. 0 \in T
      BY <1>7, Many DEF Builds
    <2>2. \A j \in 0 .. K - 1 : j \in T => j + 1 \in T
      <3> SUFFICES ASSUME NEW j \in 0 .. K - 1, j \in T PROVE j + 1 \in T
        OBVIOUS
      <3>1. j + 1 \in 1 .. K /\ (j + 1) - 1 = j /\ j + 1 \in 0 .. K
        BY Many
      <3>2. f[j + 1] = OneLinkMore(f[j])
        BY <1>7, <3>1 DEF Builds
      <3>3. OneLinkMore(f[j]) \in [Node -> Nat]
        BY OneLink
      <3> QED
        BY <3>1, <3>2, <3>3
    <2>3. 0 .. K \subseteq T
      <3> HIDE DEF T
      <3> QED
        BY ONLY <2>1, <2>2, Many, Induction
    <2> QED
      BY <2>3
  <1>9. f \in [0 .. K -> [Node -> Nat]]
    BY <1>6, <1>8
  <1> QED
    BY <1>5, <1>7, <1>9

-----------------------------------------------------------------------------
(* The forward table against the reference.                                *)

\* More links never make a way longer.
LEMMA Shrinks ==
    ASSUME TypeOfWeights, NEW i \in 0 .. K, NEW n \in Node
    PROVE  \A j \in i .. K : Ways[j][n] <= Ways[i][n]
  <1>1. Ways \in [0 .. K -> [Node -> Nat]] /\ Builds(Ways, K) /\ K \in Nat /\ i \in Nat
    BY WaysAre, Many
  <1> DEFINE T == {j \in 0 .. K : i <= j => Ways[j][n] <= Ways[i][n]}
  <1>2. 0 \in T
    <2>1. Ways[0][n] \in Nat
      BY <1>1
    <2>2. i <= 0 => i = 0
      BY <1>1
    <2> QED
      BY <1>1, <2>1, <2>2
  <1>3. ASSUME NEW j \in 0 .. K - 1, j \in T PROVE j + 1 \in T
    <2>1. j + 1 \in 1 .. K /\ (j + 1) - 1 = j /\ j + 1 \in 0 .. K /\ j \in 0 .. K /\ j \in Nat
      BY <1>1
    <2>2. Ways[j + 1] = OneLinkMore(Ways[j])
      BY <1>1, <2>1 DEF Builds
    <2>3. Ways[j] \in [Node -> Nat] /\ Ways[j + 1] \in [Node -> Nat] /\ Ways[i] \in [Node -> Nat]
      BY <1>1, <2>1
    <2>4. Ways[j + 1][n] <= Ways[j][n]
      BY <2>2, <2>3, OneLink
    <2>5. Ways[j][n] \in Nat /\ Ways[j + 1][n] \in Nat /\ Ways[i][n] \in Nat
      BY <2>3
    <2>6. i <= j + 1 => Ways[j + 1][n] <= Ways[i][n]
      <3>1. CASE i <= j
        BY <1>3, <2>4, <2>5, <3>1
      <3>2. CASE i = j + 1
        BY <2>5, <3>2
      <3> QED
        BY <1>1, <2>1, <3>1, <3>2
    <2> QED
      BY <2>1, <2>6
  <1>4. 0 .. K \subseteq T
    <2> HIDE DEF T
    <2>1. \A j \in 0 .. K - 1 : j \in T => j + 1 \in T
      BY ONLY <1>3
    <2> QED
      BY ONLY <1>1, <1>2, <2>1, Induction
  <1> QED
    BY <1>1, <1>4

\* The destinations confirmed with a lower SETT than e.
Before(e) == {n \in Node : \E f \in forward : f.dest = n /\ f.sett < e.sett}

\* There are fewer of them than nodes, and fewer still for each of them.
LEMMA BeforeCounts ==
    ASSUME IInv, NEW e \in forward
    PROVE  /\ Cardinality(Before(e)) \in 0 .. K - 1
           /\ \A f \in forward :
                f.sett < e.sett => Cardinality(Before(f)) + 1 <= Cardinality(Before(e))
  <1>1. /\ \A f \in forward : f.dest \in Node /\ f.sett \in Nat
        /\ \A f, g \in forward : f.dest = g.dest => f = g
    BY DEF IInv, TypeOK, Entries, OneEntryEach
  <1>2. ASSUME NEW f \in forward
        PROVE  /\ IsFiniteSet(Before(f)) /\ Cardinality(Before(f)) \in Nat
               /\ Cardinality(Before(f)) <= K
               /\ (Cardinality(Before(f)) = K => Before(f) = Node)
    <2>1. Before(f) \in SUBSET Node
      BY DEF Before
    <2> QED
      BY <2>1, ForwardAssumption, FS_Subset, FS_CardinalityType DEF K
  <1>3. e.dest \in Node /\ e.dest \notin Before(e)
    BY <1>1 DEF Before
  <1>4. Cardinality(Before(e)) \in 0 .. K - 1
    BY <1>2, <1>3, Many
  <1>5. ASSUME NEW f \in forward, f.sett < e.sett
        PROVE  Cardinality(Before(f)) + 1 <= Cardinality(Before(e))
    <2>1. Before(f) \subseteq Before(e)
      <3> SUFFICES ASSUME NEW n \in Before(f) PROVE n \in Before(e)
        OBVIOUS
      <3>1. PICK g \in forward : g.dest = n /\ g.sett < f.sett /\ n \in Node
        BY DEF Before
      <3>2. g.sett < e.sett
        BY <1>1, <1>5, <3>1
      <3> QED
        BY <3>1, <3>2 DEF Before
    <2>2. f.dest \in Before(e) /\ f.dest \notin Before(f)
      BY <1>1, <1>5 DEF Before
    <2>3. PICK A, B : A = Before(f) /\ B = Before(e)
      OBVIOUS
    <2>4. A \in SUBSET B /\ A # B /\ IsFiniteSet(B)
      BY <1>2, <2>1, <2>2, <2>3
    <2>5. Cardinality(A) <= Cardinality(B) /\ Cardinality(A) # Cardinality(B)
      BY <2>4, FS_Subset
    <2>6. Cardinality(A) \in Nat /\ Cardinality(B) \in Nat
      BY <1>2, <2>3
    <2>7. Cardinality(A) + 1 <= Cardinality(B)
      BY <2>5, <2>6
    <2> QED
      BY <2>3, <2>7
  <1> QED
    BY <1>4, <1>5

\* The reference finds a way as short as that of e in one link more than there are
\* destinations before e.
Found(e) == Ways[Cardinality(Before(e)) + 1][e.dest] <= e.sett

\* It does so for every confirmed entry.
LEMMA AllFound == ASSUME IInv, NEW e \in forward PROVE Found(e)
  <1>1. /\ TypeOfWeights
        /\ \A f \in forward : f.dest \in Node /\ f.sett \in Nat
        /\ Ways \in [0 .. K -> [Node -> Nat]] /\ Builds(Ways, K) /\ K \in Nat
    BY WaysAre, Many DEF IInv, TypeOK, Entries
  <1> DEFINE T == {f.sett : f \in {g \in forward : ~Found(g)}}
  <1> SUFFICES ASSUME T # {} PROVE FALSE
    OBVIOUS
  <1>2. T \subseteq Nat
    BY <1>1
  <1>3. PICK s \in T : \A t \in T : s <= t
    <2> HIDE DEF T
    <2> QED
      BY <1>2, LeastNumber
  <1>4. PICK b \in forward : ~Found(b) /\ s = b.sett
    OBVIOUS
  <1>5. ASSUME NEW f \in forward, f.sett < b.sett PROVE Found(f)
    <2>1. f.sett \in Nat /\ b.sett \in Nat
      BY <1>1
    <2>2. f.sett \notin T
      BY <1>3, <1>4, <1>5, <2>1
    <2> QED
      BY <2>2
  <1>6. PICK j : j = Cardinality(Before(b))
    OBVIOUS
  <1>7. j \in 0 .. K - 1 /\ j \in 0 .. K /\ j + 1 \in 1 .. K /\ (j + 1) - 1 = j
    BY <1>1, <1>6, BeforeCounts
  <1>8. /\ Ways[j + 1] = OneLinkMore(Ways[j]) /\ Ways[j] \in [Node -> Nat]
        /\ Ways[j + 1] \in [Node -> Nat]
    BY <1>1, <1>7 DEF Builds
  <1>9. b.dest \in Node /\ b.sett \in Nat /\ Me \in Node /\ Ways[j + 1][b.dest] \in Nat
    BY <1>1, <1>8, ForwardAssumption
  <1>10. ASSUME NEW m \in Node, NEW w \in Nat, sett[m][b.dest] > 0, Ways[j][m] <= w,
                b.sett = w + sett[m][b.dest]
         PROVE  FALSE
    <2>1. Ways[j + 1][b.dest] <= Ways[j][m] + sett[m][b.dest]
      BY <1>1, <1>8, <1>9, <1>10, OneLink
    <2>2. Ways[j][m] \in Nat /\ sett[m][b.dest] \in Nat
      BY <1>1, <1>8, <1>9 DEF TypeOfWeights
    <2>3. Ways[j + 1][b.dest] <= b.sett
      BY <1>9, <1>10, <2>1, <2>2
    <2> QED
      BY <1>4, <1>6, <2>3 DEF Found
  <1>11. CASE Direct(b)
    <2>1. sett[Me][b.dest] > 0 /\ b.sett = sett[Me][b.dest]
      BY <1>11 DEF Direct, Entry
    <2>2. Ways[j][Me] <= 0
      <3>1. 0 \in 0 .. K /\ j \in 0 .. K /\ Ways[0][Me] = 0
        BY <1>1, <1>7, <1>9 DEF Builds, NoLink
      <3>2. Ways[j][Me] <= Ways[0][Me]
        BY <1>1, <1>9, <3>1, Shrinks
      <3> QED
        BY <3>1, <3>2
    <2>3. sett[Me][b.dest] \in Nat
      BY <1>1, <1>9 DEF TypeOfWeights
    <2> QED
      BY <1>9, <1>10, <2>1, <2>2, <2>3
  <1>12. ASSUME NEW f \in forward, Extends(b, f) PROVE FALSE
    <2>1. sett[f.dest][b.dest] > 0 /\ b.sett = f.sett + sett[f.dest][b.dest]
      BY <1>12 DEF Extends
    <2>2. f.dest \in Node /\ f.sett \in Nat /\ sett[f.dest][b.dest] \in Nat
      BY <1>1, <1>9 DEF TypeOfWeights
    <2>3. f.sett < b.sett
      BY <2>1, <2>2
    <2>4. PICK i : i = Cardinality(Before(f)) + 1
      OBVIOUS
    <2>5. i \in 0 .. K /\ j \in i .. K
      <3>1. Cardinality(Before(f)) \in 0 .. K - 1 /\ Cardinality(Before(f)) + 1 <= j
        BY <1>6, <2>3, BeforeCounts
      <3> QED
        BY <1>1, <1>7, <2>4, <3>1
    <2>6. Ways[i][f.dest] <= f.sett
      BY <1>5, <2>3, <2>4 DEF Found
    <2>7. Ways[j][f.dest] <= Ways[i][f.dest]
      BY <1>1, <2>2, <2>5, Shrinks
    <2>8. Ways[i][f.dest] \in Nat /\ Ways[j][f.dest] \in Nat
      BY <1>1, <1>8, <2>2, <2>5
    <2>9. Ways[j][f.dest] <= f.sett
      BY <2>2, <2>6, <2>7, <2>8
    <2> QED
      BY <1>10, <2>1, <2>2, <2>9
  <1> QED
    BY <1>11, <1>12 DEF IInv, PathsAreReal

\* A node that is neither Me nor confirmed.
Unknown(n) == n \in Node /\ n # Me /\ n \notin Dests(forward)

\* No way of the reference is shorter than that of the forward table at its end.
Below(d) ==
    /\ \A e \in forward : e.sett <= d[e.dest]
    /\ \A n \in Node : Unknown(n) => MaxWt <= d[n]

\* This holds for any number of links.
LEMMA NoneBelow ==
    ASSUME IInv, NoShortcut, AllReached, tent = {}, \A e \in forward : e.sett < MaxWt,
           NEW k \in 0 .. K
    PROVE  Below(Ways[k])
  <1>1. /\ TypeOfWeights
        /\ \A f \in forward : f.dest \in Node /\ f.sett \in Nat /\ f.dest # Me
        /\ Ways \in [0 .. K -> [Node -> Nat]] /\ Builds(Ways, K) /\ K \in Nat
        /\ MaxWt \in Nat /\ Me \in Node
    BY WaysAre, Many, ForwardAssumption DEF IInv, TypeOK, Entries, OneEntryEach, Dests
  <1> DEFINE T == {j \in 0 .. K : Below(Ways[j])}
  <1>2. 0 \in T
    <2>1. \A n \in Node : n # Me => Ways[0][n] = MaxWt
      BY <1>1 DEF Builds, NoLink
    <2>2. Below(Ways[0])
      BY <1>1, <2>1 DEF Below, Unknown
    <2> QED
      BY <1>1, <2>2
  <1>3. ASSUME NEW j \in 0 .. K - 1, j \in T PROVE j + 1 \in T
    <2>1. j + 1 \in 1 .. K /\ (j + 1) - 1 = j /\ j + 1 \in 0 .. K /\ j \in 0 .. K
      BY <1>1
    <2>2. PICK d : d = Ways[j]
      OBVIOUS
    <2>3. Ways[j + 1] = OneLinkMore(d) /\ d \in [Node -> Nat] /\ Below(d)
      BY <1>1, <1>3, <2>1, <2>2 DEF Builds
    <2>4. \A n \in Node : d[n] \in Nat /\ \A m \in Node : sett[m][n] \in Nat
      BY <1>1, <2>3 DEF TypeOfWeights
    \* Every node is Me, confirmed or unknown.
    <2>5. \A m \in Node : m = Me \/ (\E f \in forward : f.dest = m) \/ Unknown(m)
      BY DEF Unknown, Dests
    <2>6. ASSUME NEW e \in forward, NEW m \in Node, sett[m][e.dest] > 0
          PROVE  e.sett <= d[m] + sett[m][e.dest]
      <3>0. e.dest \in Node /\ e.sett \in Nat /\ d[m] \in Nat /\ sett[m][e.dest] \in Nat
            /\ e.sett < MaxWt
        BY <1>1, <2>4
      <3>1. CASE m = Me
        <4>1. e.sett <= sett[m][e.dest]
          BY <2>6, <3>1 DEF NoShortcut
        <4> QED
          BY <3>0, <4>1
      <3>2. ASSUME NEW f \in forward, f.dest = m
            PROVE  e.sett <= d[m] + sett[m][e.dest]
        <4>1. e.sett <= f.sett + sett[m][e.dest]
          BY <2>6, <3>2 DEF NoShortcut
        <4>2. f.sett <= d[m] /\ f.sett \in Nat
          BY <1>1, <2>3, <3>2 DEF Below
        <4> QED
          BY <3>0, <4>1, <4>2
      <3>3. CASE Unknown(m)
        <4>1. MaxWt <= d[m]
          BY <2>3, <3>3 DEF Below
        <4>2. MaxWt \in Nat
          BY <1>1
        <4> QED
          BY ONLY <3>0, <4>1, <4>2
      <3> QED
        BY <2>5, <3>1, <3>2, <3>3
    <2>7. ASSUME NEW n \in Node, Unknown(n), NEW m \in Node, sett[m][n] > 0
          PROVE  MaxWt <= d[m] + sett[m][n]
      <3>1. Unknown(m)
        BY <2>5, <2>7 DEF AllReached, Unknown
      <3>2. MaxWt <= d[m]
        BY <2>3, <3>1 DEF Below
      <3> QED
        BY <1>1, <2>4, <3>2
    <2>8. \A n \in Node :
             \/ OneLinkMore(d)[n] = d[n]
             \/ \E m \in Node : sett[m][n] > 0 /\ OneLinkMore(d)[n] = d[m] + sett[m][n]
      BY <1>1, <2>3, OneLink
    <2>9. \A e \in forward : e.sett <= OneLinkMore(d)[e.dest]
      BY <1>1, <2>3, <2>6, <2>8 DEF Below
    <2>10. \A n \in Node : Unknown(n) => MaxWt <= OneLinkMore(d)[n]
      BY <2>3, <2>7, <2>8 DEF Below
    <2>11. Below(Ways[j + 1])
      BY <2>3, <2>9, <2>10 DEF Below
    <2> QED
      BY <2>1, <2>11
  <1>4. 0 .. K \subseteq T
    <2> HIDE DEF T
    <2>1. \A j \in 0 .. K - 1 : j \in T => j + 1 \in T
      BY ONLY <1>3
    <2> QED
      BY ONLY <1>1, <1>2, <2>1, Induction
  <1> QED
    BY <1>4

\* Only entries below MaxWt are confirmed.
LEMMA BelowMax == Spec => [](\A e \in forward : e.sett < MaxWt)
  <1> DEFINE I == \A e \in forward : e.sett < MaxWt
  <1>1. Init => I
    BY DEF Init, Start
  <1>2. I /\ [Turn]_vars => I'
    BY DEF Turn, Least, vars
  <1> HIDE DEF I
  <1>3. Spec => []I
    BY <1>1, <1>2, PTL DEF Spec
  <1> QED
    BY <1>3 DEF I

\* When the loop of forward_table_computation ends, m_forward_table has an entry for
\* exactly the nodes that a way of links below MaxWt leads to, and its SETT sum is that
\* of a shortest way: the forward search agrees with the Bellman-Ford reference.
THEOREM ShortestPaths == Spec => []IsShortest
  <1> DEFINE I == \A e \in forward : e.sett < MaxWt
  <1>1. IInv /\ NoShortcut /\ AllReached /\ I => IsShortest
    <2> SUFFICES ASSUME IInv, NoShortcut, AllReached, I, tent = {}
                 PROVE  /\ Dests(forward) = {n \in Node \ {Me} : Ways[K][n] < MaxWt}
                        /\ \A e \in forward : e.sett = Ways[K][e.dest]
      BY DEF IsShortest, K
    <2>1. /\ TypeOfWeights
          /\ \A f \in forward : f.dest \in Node /\ f.sett \in Nat /\ f.dest # Me
          /\ Ways \in [0 .. K -> [Node -> Nat]] /\ K \in Nat /\ MaxWt \in Nat
      BY WaysAre, Many, ForwardAssumption DEF IInv, TypeOK, Entries, OneEntryEach, Dests
    <2>2. K \in 0 .. K /\ Ways[K] \in [Node -> Nat]
      BY <2>1
    <2>3. Below(Ways[K])
      BY <2>2, NoneBelow
    <2>4. ASSUME NEW e \in forward PROVE e.sett = Ways[K][e.dest] /\ Ways[K][e.dest] < MaxWt
      <3>1. PICK j : j = Cardinality(Before(e)) + 1
        OBVIOUS
      <3>2. j \in 0 .. K /\ K \in j .. K
        <4>1. Cardinality(Before(e)) \in 0 .. K - 1
          BY BeforeCounts
        <4> QED
          BY <2>1, <3>1, <4>1
      <3>3. Ways[j][e.dest] <= e.sett
        BY <3>1, AllFound DEF Found
      <3>4. Ways[K][e.dest] <= Ways[j][e.dest]
        BY <2>1, <3>2, Shrinks
      <3>5. Ways[K][e.dest] \in Nat /\ Ways[j][e.dest] \in Nat /\ e.sett \in Nat
        BY <2>1, <2>2, <3>2
      <3>6. e.sett <= Ways[K][e.dest]
        BY <2>3 DEF Below
      <3> QED
        BY <2>1, <3>3, <3>4, <3>5, <3>6
    <2>5. ASSUME NEW n \in Node, n # Me, Ways[K][n] < MaxWt PROVE n \in Dests(forward)
      <3>1. Ways[K][n] \in Nat
        BY <2>2
      <3> QED
        BY <2>1, <2>3, <2>5, <3>1 DEF Below, Unknown
    <2>6. \A n \in Dests(forward) : n \in Node /\ n # Me /\ Ways[K][n] < MaxWt
      BY <2>1, <2>4 DEF Dests
    <2> QED
      BY <2>4, <2>5, <2>6
  <1> QED
    BY <1>1, Inductive, Shortest, Complete, BelowMax, PTL
=============================================================================
