----------------------------- MODULE ByteStream -----------------------------
(***************************************************************************)
(* What a reliable connection promises: two byte streams, one per          *)
(* direction.  A host appends bytes to the stream it sends; its peer reads *)
(* the bytes of that stream in order, each exactly once.  A host may       *)
(* abandon the connection: from then on it may skip bytes of its peer's    *)
(* stream, and still reads the others in order and once.  Nothing is said  *)
(* about sequence numbers, packets, acknowledgements or timers.            *)
(***************************************************************************)
EXTENDS Naturals, Sequences

CONSTANTS Host, Peer(_)

VARIABLES
    sent,       \* sent[e]: the stream that host e gave to the connection
    read,       \* read[e]: what the application of e has read
    passed,     \* passed[e]: the bytes of its peer's stream read or skipped by e
    abandoned   \* the hosts that gave the connection up

vars == <<sent, read, passed, abandoned>>

IsPrefixOf(s, t) == Len(s) <= Len(t) /\ s = SubSeq(t, 1, Len(s))

Init == /\ sent = [e \in Host |-> <<>>]
        /\ read = [e \in Host |-> <<>>]
        /\ passed = [e \in Host |-> 0]
        /\ abandoned = {}

\* e appends bytes to its stream.
Put(e) == /\ IsPrefixOf(sent[e], sent'[e])
          /\ sent' = [sent EXCEPT ![e] = sent'[e]]
          /\ UNCHANGED <<read, passed, abandoned>>

\* e moves on in its peer's stream.
Pass(e) == /\ passed[e] <= passed'[e] /\ passed'[e] <= Len(sent[Peer(e)])
           /\ passed' = [passed EXCEPT ![e] = passed'[e]]
           /\ UNCHANGED <<sent, abandoned>>

\* e reads the next bytes of its peer's stream.
Get(e) == /\ Pass(e)
          /\ read' = [read EXCEPT
                        ![e] = @ \o SubSeq(sent[Peer(e)], passed[e] + 1, passed'[e])]

\* e gives up: bytes it has not read may be lost.
Abandon(e) == /\ abandoned' = abandoned \cup {e}
              /\ UNCHANGED <<sent, read, passed>>

Skip(e) == /\ e \in abandoned
           /\ Pass(e)
           /\ UNCHANGED read

Next == \E e \in Host : Put(e) \/ Get(e) \/ Abandon(e) \/ Skip(e)

Spec == Init /\ [][Next]_vars
=============================================================================
