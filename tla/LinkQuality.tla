----------------------------- MODULE LinkQuality -----------------------------
(***************************************************************************)
(* How a node measures one link: the probes of a neighbor, numbered 0 to 9 *)
(* and round again (SendLP), and the neighbor tuple that ProcessLP and     *)
(* InsertNeighborTuple keep of them: the array of past SETTs, the short    *)
(* average SETT_avg and the long one LETT.  Whether a burst is sent is     *)
(* decided by the forward table, a snapshot of the two averages that       *)
(* outlives the tuple; this link is taken to be the only way to the        *)
(* neighbor.                                                               *)
(*                                                                         *)
(* Time is counted in link probe intervals of one second: a tuple expires  *)
(* four seconds after the last probe that was heard.  SETT_array is        *)
(* indexed from 0 as in the code; 0 marks an empty slot.                   *)
(***************************************************************************)
EXTENDS Integers, Sequences, FiniteSetsExt

CONSTANTS
    Window,    \* 10, the numbers of link probes and the slots of SETT_array
    Setts,     \* the SETTs that may be measured
    Patience   \* 3, the probes in a row that may be missed before expiry

ASSUME QualityAssumption ==
    /\ Window \in Nat /\ Window >= 3
    /\ Setts \subseteq Nat \ {0}
    /\ Patience \in Nat \ {0} /\ Patience + 1 < Window

VARIABLES
    lpSeq,   \* LPSequenceNumber of the neighbor
    known,   \* whether the node has a tuple for the neighbor
    arr,     \* SETT_array
    prev,    \* prev_seq_no
    avg,     \* SETT_avg
    lett,    \* LETT
    entry,   \* the entry of the neighbor in m_forward_table, if any, as a set
    missed,  \* probes missed since the last one heard
    past     \* history: what the last Window probes brought, newest first

vars == <<lpSeq, known, arr, prev, avg, lett, entry, missed, past>>

Slot == 0 .. Window - 1
NoArr == [i \in Slot |-> 0]

Init ==
    /\ lpSeq = 0 /\ known = FALSE /\ arr = NoArr /\ prev = 0 /\ avg = 0 /\ lett = 0
    /\ entry = {} /\ missed = 0
    /\ past = <<>>

\* The newest outcome goes in front, the one from Window probes ago drops out.
Remember(s) == past' = SubSeq(<<s>> \o past, 1, Min({Window, Len(past) + 1}))

\* The number wraps at Window.
Counted == lpSeq' = IF lpSeq + 1 >= Window THEN 0 ELSE lpSeq + 1

\* The array after probe q with SETT s: the slots of the probes missed since the
\* last one are emptied, as long as the numbers have not wrapped.
M_Entered(s, q) ==
    [i \in Slot |-> IF i = q THEN s ELSE IF i \in prev .. q - 1 THEN 0 ELSE arr[i]]
Entered(s, q) ==
    [i \in Slot |-> IF i = q THEN s ELSE IF i \in prev + 1 .. q - 1 THEN 0 ELSE arr[i]]

\* Which slots count, and what a loop over the slots adds up, slot by slot.
Full(a) == [i \in Slot |-> IF a[i] # 0 THEN 1 ELSE 0]
Sums(a) ==
    LET sum[j \in 0 .. Window] == IF j = 0 THEN 0 ELSE sum[j - 1] + a[j - 1]
    IN  sum

\* SETT_avg: the mean of this slot and the two before it, round the array,
\* without the empty ones.
M_ShortAverage(a, q) == (a[q] + a[(q - 1) % Window] + a[(q - 2) % Window]) \div 3
ShortAverage(a, q) ==
    LET one == (q - 1) % Window
        two == (q - 2) % Window
    IN  (a[q] + a[one] + a[two]) \div (1 + Full(a)[one] + Full(a)[two])

\* LETT: the mean of all slots that are not empty.
LongAverage(a) == Sums(a)[Window] \div Sums(Full(a))[Window]

\* A probe is heard from a neighbor that has a tuple.
Refresh(s) ==
    /\ known /\ missed <= Patience
    /\ arr' = Entered(s, lpSeq)
    /\ prev' = lpSeq
    /\ avg' = ShortAverage(arr', lpSeq)
    /\ lett' = LongAverage(arr')
    /\ UNCHANGED known

\* A probe is heard from a new neighbor.
Insert(s) ==
    /\ ~known
    /\ known' = TRUE
    /\ arr' = [NoArr EXCEPT ![lpSeq] = s]
    /\ prev' = lpSeq
    /\ avg' = s
    /\ lett' = s

\* The forward table is computed anew from the neighbor table, which comes to one
\* entry with the two averages as its sums while there is a tuple.
forward_table_computation ==
    entry' = IF known' THEN {[sett |-> avg', lett |-> lett']} ELSE {}

InsertNeighborTuple(s) ==
    /\ Refresh(s) \/ Insert(s)
    /\ forward_table_computation
    /\ missed' = 0
    /\ Counted /\ Remember(s)

\* A probe is not heard.  When Patience probes were missed, the next one and the
\* expiry come in either order; the one after that comes later than the expiry.
Miss ==
    /\ missed <= Patience
    /\ missed' = IF known THEN missed + 1 ELSE missed
    /\ Counted /\ Remember(0)
    /\ UNCHANGED <<known, arr, prev, avg, lett, entry>>

\* The tuple goes: Patience probes were missed and the next is not yet here.  The
\* forward table keeps its entry (the call that would compute it is commented out).
NeighborTupleTimerExpire ==
    /\ known /\ missed >= Patience
    /\ known' = FALSE /\ arr' = NoArr /\ prev' = 0 /\ avg' = 0 /\ lett' = 0 /\ missed' = 0
    /\ UNCHANGED <<lpSeq, entry, past>>

\* A probe of another neighbor, or a new LSA, makes the node compute its table.
OtherTupleInserted ==
    /\ UNCHANGED <<lpSeq, known, arr, prev, avg, lett, missed, past>>
    /\ forward_table_computation

\* forward_flag for the neighbor itself, from the forward table, so also for one
\* whose tuple is gone: a burst is sent unless the short average is more than 1.1
\* times the long one, and otherwise stored (the exception for a good next hop is
\* commented out).
M_forward_flag == \E e \in entry : 11 * e.sett <= 10 * e.lett
forward_flag == \E e \in entry : 10 * e.sett <= 11 * e.lett

Next ==
    \/ \E s \in Setts : InsertNeighborTuple(s)
    \/ Miss
    \/ NeighborTupleTimerExpire
    \/ OtherTupleInserted

Spec == Init /\ [][Next]_vars

-----------------------------------------------------------------------------
(* Properties.                                                             *)

\* Both estimates lie between the least and the greatest SETT in the array: no
\* empty slot counts, no mean is divided by zero, and no link gets the weight 0
\* that would make it free.
EstimatesInRange ==
    known =>
        LET full == {arr[i] : i \in {j \in Slot : arr[j] # 0}}
        IN  /\ full # {}
            /\ avg \in Min(full) .. Max(full)
            /\ lett \in Min(full) .. Max(full)

\* The probe Window - k before the next one is in the slot k places on, as long as
\* neither it nor a probe after it was missed: a slot that is read is the slot of
\* the probe that it stands for.
SlotsOfProbes ==
    \A k \in 1 .. Len(past) :
        (known /\ \A j \in 1 .. k : past[j] # 0) =>
            arr[(lpSeq - k) % Window] = past[k]

\* A burst is not stored for ever on a link that does not get worse: after a full
\* turn of probes whose last three are no worse than the others, the decision is to
\* forward, whatever was measured or missed before.
NotWorse == \A i \in 1 .. 3, j \in 4 .. Window : past[i] <= past[j]
SteadyForwards ==
    known /\ Len(past) = Window /\ (\A j \in 1 .. Window : past[j] # 0) /\ NotWorse
        => forward_flag
=============================================================================
