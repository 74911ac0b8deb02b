-------------------------- MODULE FlowSelectProofs --------------------------
(***************************************************************************)
(* Proofs about FlowSelect, for any number of nodes, flows, seconds and    *)
(* chunks.  That no timer is scheduled twice rests on one fact: a node     *)
(* that is sending is in its own list of senders.                          *)
(***************************************************************************)
EXTENDS FlowSelect, FiniteSetTheorems, TLAPS

Types ==
    /\ selected \in [Node -> Pair \cup {<<>>}]
    /\ senders \in [Node -> Seq(Node)]
    /\ running \in [Node -> BOOLEAN]
    /\ ticks \in Nat

\* A node that is sending has selected itself.
SendingIsListed ==
    \A n \in Node : running[n] => \E i \in 1 .. Len(senders[n]) : senders[n][i] = n

IInv == Types /\ NoFatal /\ SendingIsListed

\* A list that has got one more sender.
LEMMA Longer ==
    ASSUME NEW s \in Seq(Node), NEW x \in Node
    PROVE  /\ Append(s, x) \in Seq(Node)
           /\ Len(Append(s, x)) = Len(s) + 1
           /\ \A i \in 1 .. Len(s) : Append(s, x)[i] = s[i]
           /\ Append(s, x)[Len(s) + 1] = x
  OBVIOUS

-----------------------------------------------------------------------------
\* No flow is selected at the start.
LEMMA InitInv == Init => IInv
  BY DEF Init, IInv, Types, NoFatal, SendingIsListed

\* A selection: the source is in no list that the node had.
LEMMA SelectInv ==
    ASSUME IInv, NEW n \in Node, selectNodes(n)
    PROVE  IInv'
  <1> USE DEF IInv
  <1>1. PICK f \in Draw(n) :
          /\ selected' = [selected EXCEPT ![n] = f]
          /\ senders' = [senders EXCEPT ![n] = Append(@, f[1])]
          /\ IF f[1] = n
             THEN SendData(n, f) /\ fatal' = (fatal \/ running[n])
             ELSE UNCHANGED <<chunks, running, fatal>>
    BY DEF selectNodes
  <1>2. f \in Pair /\ f[1] \in Node /\ \A i \in 1 .. Len(senders[n]) : f[1] # senders[n][i]
    BY <1>1 DEF Draw, Pair
  <1>3. ticks' = ticks
    BY DEF selectNodes
  <1> DEFINE s == senders[n]
             t == Append(s, f[1])
  <1>4. s \in Seq(Node) /\ t \in Seq(Node) /\ Len(t) = Len(s) + 1 /\ Len(s) \in Nat
    BY <1>2, Longer DEF Types
  <1>5. \A m \in Node : senders'[m] = IF m = n THEN t ELSE senders[m]
    BY <1>1 DEF Types
  <1>6. Types'
    <2>1. selected' \in [Node -> Pair \cup {<<>>}]
      BY <1>1, <1>2 DEF Types
    <2>2. senders' \in [Node -> Seq(Node)]
      BY <1>1, <1>4 DEF Types
    <2>3. running' \in [Node -> BOOLEAN]
      BY <1>1, Zenon DEF Types, SendData
    <2> QED BY <2>1, <2>2, <2>3, <1>3 DEF Types
  <1>7. NoFatal'
    <2>1. CASE f[1] = n
      <3>1. ~ running[n]
        BY <2>1, <1>2 DEF SendingIsListed
      <3> QED BY <3>1, <2>1, <1>1 DEF NoFatal
    <2>2. CASE f[1] # n
      BY <2>2, <1>1 DEF NoFatal
    <2> QED BY <2>1, <2>2
  <1>8. SendingIsListed'
    <2> SUFFICES ASSUME NEW m \in Node, running'[m]
                 PROVE  \E i \in 1 .. Len(senders'[m]) : senders'[m][i] = m
      BY DEF SendingIsListed
    <2>1. CASE m = n /\ f[1] = n
      <3>1. senders'[m] = t /\ t[Len(s) + 1] = m
        BY <2>1, <1>4, <1>5, <1>2, Longer
      <3> QED BY <3>1, <1>4
    <2>2. CASE ~ (m = n /\ f[1] = n)
      <3>1. running[m]
        BY <2>2, <1>1 DEF SendData, Types
      <3>2. PICK i \in 1 .. Len(senders[m]) : senders[m][i] = m
        BY <3>1 DEF SendingIsListed
      <3>3. CASE m = n
        <4>1. i \in 1 .. Len(t) /\ t[i] = m
          BY <3>2, <3>3, <1>4, <1>2, Longer
        <4> QED BY <4>1, <3>3, <1>5
      <3>4. CASE m # n
        BY <3>4, <3>2, <1>5
      <3> QED BY <3>3, <3>4
    <2> QED BY <2>1, <2>2
  <1> QED BY <1>6, <1>7, <1>8

\* A chunk of a node that is sending, another second, a step of nothing.
LEMMA OtherInv ==
    ASSUME IInv, (\E n \in Node : ThruputTimerExpire(n)) \/ Tick \/ UNCHANGED vars
    PROVE  IInv'
  <1>1. CASE UNCHANGED vars
    BY <1>1 DEF IInv, vars, Types, NoFatal, SendingIsListed
  <1>2. CASE Tick
    <2>1. ticks' \in Nat
      BY <1>2 DEF Tick, IInv, Types
    <2>2. selected' = selected /\ senders' = senders /\ running' = running /\ fatal' = fatal
      BY <1>2 DEF Tick
    <2> QED BY <2>1, <2>2 DEF IInv, Types, NoFatal, SendingIsListed
  <1>3. CASE \E n \in Node : ThruputTimerExpire(n)
    <2>1. PICK n \in Node : ThruputTimerExpire(n)
      BY <1>3
    <2>2. running' = running
      BY <2>1 DEF ThruputTimerExpire, SendData, IInv, Types
    <2>3. UNCHANGED <<selected, senders, fatal, drawn, ticks>>
      BY <2>1 DEF ThruputTimerExpire
    <2> QED BY <2>2, <2>3 DEF IInv, Types, NoFatal, SendingIsListed
  <1> QED BY <1>1, <1>2, <1>3

\* The inductive invariant of the selection.
THEOREM Inductive == Spec => []IInv
  <1>1. IInv /\ [Next]_vars => IInv'
    BY SelectInv, OtherInv DEF Next
  <1> QED BY InitInv, <1>1, PTL DEF Spec

\* selectNodes never starts SendData on a node whose throughput timer is running
\* (mobilityfirst.cc:223), for every number of nodes and flows.
THEOREM NeverFatal == Spec => []NoFatal
  BY Inductive, PTL DEF IInv

-----------------------------------------------------------------------------
\* A list shorter than the set of nodes leaves one out.
LEMMA SomeoneLeft ==
    ASSUME NEW s \in Seq(Node), Len(s) < Cardinality(Node)
    PROVE  \E x \in Node : \A i \in 1 .. Len(s) : x # s[i]
  <1> DEFINE T == {s[i] : i \in 1 .. Len(s)}
  <1> SUFFICES ASSUME Node \subseteq T PROVE FALSE
    OBVIOUS
  <1>1. Len(s) \in Nat /\ s \in [1 .. Len(s) -> Node]
    OBVIOUS
  <1>2. s \in Surjection(1 .. Len(s), Node)
    BY <1>1 DEF Surjection
  <1>3. ExistsSurjection(1 .. Len(s), Node)
    BY <1>2 DEF ExistsSurjection
  <1>4. Cardinality(Node) <= Len(s)
    BY <1>1, <1>3, FS_SurjCardinalityBound
  <1>5. Cardinality(Node) \in Nat
    BY FlowAssumption, FS_CardinalityType
  <1> QED BY <1>1, <1>4, <1>5

\* Every node has another one.
LEMMA AnotherNode ==
    ASSUME NEW x \in Node
    PROVE  \E y \in Node : y # x
  <1>1. IsFiniteSet(Node) /\ Cardinality(Node) \in Nat /\ Cardinality(Node) >= 2
    BY FlowAssumption, FS_CardinalityType
  <1>2. Cardinality(Node \ {x}) = Cardinality(Node) - 1
    BY <1>1, FS_RemoveElement
  <1>3. Node \ {x} # {}
    BY <1>1, <1>2, FS_EmptySet
  <1> QED BY <1>3

\* The loops of selectNodes (mobilityfirst.cc:202 and 212) come to an end for every
\* flow, with any number of nodes that is not below the number of flows.
THEOREM LoopsEnd == Spec => []SelectionEnds
  <1>1. Types => SelectionEnds
    <2> SUFFICES ASSUME Types, NEW n \in Node, Len(senders[n]) < NFlows
                 PROVE  Draw(n) # {}
      BY DEF SelectionEnds
    <2>1. senders[n] \in Seq(Node) /\ Len(senders[n]) \in Nat
      BY DEF Types
    <2>2. Cardinality(Node) \in Nat /\ NFlows \in Nat /\ NFlows <= Cardinality(Node)
      BY FlowAssumption, FS_CardinalityType
    <2>3. Len(senders[n]) < Cardinality(Node)
      BY <2>1, <2>2
    <2>4. PICK x \in Node : \A i \in 1 .. Len(senders[n]) : x # senders[n][i]
      BY <2>1, <2>3, SomeoneLeft
    <2>5. PICK y \in Node : y # x
      BY AnotherNode
    <2>6. <<x, y>> \in Draw(n)
      BY <2>4, <2>5 DEF Draw, Pair
    <2> QED BY <2>6
  <1> QED BY <1>1, Inductive, PTL DEF IInv
=============================================================================
