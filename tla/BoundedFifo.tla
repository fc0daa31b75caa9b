----------------------------- MODULE BoundedFifo ----------------------------
(***************************************************************************)
(* What buffered channels promise: at most Bound[n] values wait in queue n,*)
(* each value enters once, and values leave in the order they entered.     *)
(***************************************************************************)
EXTENDS Integers, Sequences, SequencesExt

CONSTANTS Values, Names, Bound

VARIABLES waiting,    \* the values that were put into each queue and not yet got
          delivered   \* the values that were got, in order

Init == waiting = [n \in Names |-> <<>>] /\ delivered = waiting

Put(n, v) ==
    /\ Len(waiting[n]) < Bound[n]
    /\ \A q \in Names : v \notin ToSet(waiting[q]) \cup ToSet(delivered[q])
    /\ waiting' = [waiting EXCEPT ![n] = Append(@, v)]
    /\ UNCHANGED delivered

Get(n) ==
    /\ waiting[n] # <<>>
    /\ delivered' = [delivered EXCEPT ![n] = Append(@, Head(waiting[n]))]
    /\ waiting' = [waiting EXCEPT ![n] = Tail(@)]

Next == \E n \in Names : Get(n) \/ \E v \in Values : Put(n, v)

Spec == Init /\ [][Next]_<<waiting, delivered>>
=============================================================================
