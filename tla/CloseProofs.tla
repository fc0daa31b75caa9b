----------------------------- MODULE CloseProofs ----------------------------
(***************************************************************************)
(* Proofs of the safety properties of Close, for any number of repeated    *)
(* packets and of packets left over from the transfer.                     *)
(***************************************************************************)
EXTENDS Close, TLAPS

\* A FIN under way, and every place that only a FIN leads to, has a sender.
FinHasSender ==
    \A h \in Hosts :
        \/ net[h]["fin"] > 0
        \/ freed[h]
        \/ state[h] \in {"CLOSE_WAIT", "LAST_ACK", "TIME_WAIT", "CLOSED"}
        \/ rcv[h] \in {"sleep", "last_fin", "time_wait", "linger", "free"}
        => invited[Peer(h)]

\* Whoever sent a FIN, or is about to, has left ESTABLISHED.
SenderLeft ==
    \A h \in Hosts :
        invited[h] \/ closer[h] = "fin" \/ rcv[h] = "last_fin" => state[h] # "ESTABLISHED"

\* A host that did not close is a passive end: it follows the FIN of its peer.
PassiveFollows ==
    \A h \in Hosts :
        closer[h] = "idle" =>
            /\ state[h] \in {"ESTABLISHED", "CLOSE_WAIT", "LAST_ACK", "CLOSED"}
            /\ rcv[h] \notin {"time_wait", "linger"}
            /\ invited[h] => invited[Peer(h)]

\* Without left-overs of the transfer, an ACK for a passive end is the last one.
AckIsLast ==
    ~strays =>
        \A h \in Hosts :
            /\ net[h]["data"] = 0
            /\ /\ closer[h] = "idle"
               /\ net[h]["ack"] > 0 \/ rcv[h] = "free" \/ freed[h] \/ state[h] = "CLOSED"
               => freed[Peer(h)] \/ rcv[Peer(h)] \in {"time_wait", "linger"}

ReleaseInv == TypeOK /\ FinHasSender /\ SenderLeft /\ PassiveFollows /\ AckIsLast
-----------------------------------------------------------------------------
LEMMA PeerFacts ==
    ASSUME NEW h \in Hosts
    PROVE  /\ Peer(h) \in Hosts /\ Peer(h) # h /\ Peer(Peer(h)) = h
           /\ \A g \in Hosts : g = h \/ g = Peer(h)
BY CloseAssumption DEF Hosts, Peer

LEMMA InitHolds == Init => ReleaseInv
<1> SUFFICES ASSUME Init PROVE ReleaseInv
    OBVIOUS
<1> PICK S \in SUBSET (Hosts \X {"ack", "data"}) :
        /\ net = [h \in Hosts |-> [k \in Kinds |-> IF <<h, k>> \in S THEN 1 ELSE 0]]
        /\ strays = (S # {})
    BY DEF Init
<1>1. TypeOK
    <2>1. allocated \in [Hosts -> BOOLEAN]
        BY DEF Init
    <2>2. net \in [Hosts -> [Kinds -> Nat]] /\ strays \in BOOLEAN
        OBVIOUS
    <2> QED
        BY <2>1, <2>2 DEF Init, TypeOK, States
<1>2. FinHasSender
    BY DEF Init, FinHasSender, Kinds
<1>3. SenderLeft /\ PassiveFollows
    BY DEF Init, SenderLeft, PassiveFollows
<1>4. AckIsLast
    <2> SUFFICES ASSUME ~strays, NEW h \in Hosts
                 PROVE  net[h]["data"] = 0 /\ ~(net[h]["ack"] > 0) /\ rcv[h] # "free"
                        /\ ~freed[h] /\ state[h] # "CLOSED"
        BY Zenon DEF AckIsLast
    <2>1. S = {}
        OBVIOUS
    <2> QED
        BY <2>1 DEF Init, Kinds
<1> QED
    BY <1>1, <1>2, <1>3, <1>4 DEF ReleaseInv
-----------------------------------------------------------------------------
\* One lemma per action; under it, one step per conjunct whose variables it changes.

LEMMA tcp_closeHolds ==
    ASSUME ReleaseInv, NEW h \in Hosts, tcp_close(h)
    PROVE  ReleaseInv'
<1> USE PeerFacts DEF ReleaseInv, memory, tcp_close, Works, CloserAt,
    CloserGoes, Disturbs
<1>1. TypeOK'
    BY DEF TypeOK, States
<1>2. SenderLeft'
    BY DEF TypeOK, SenderLeft
<1>3. PassiveFollows'
    BY DEF TypeOK, FinHasSender, PassiveFollows
<1>4. AckIsLast'
    BY DEF TypeOK, FinHasSender, SenderLeft, PassiveFollows, AckIsLast
<1>5. UNCHANGED <<freed, invited, net, rcv, state>>
    OBVIOUS
<1>6. FinHasSender'
    BY <1>5 DEF FinHasSender
<1> QED
    BY <1>1, <1>2, <1>3, <1>4, <1>5, <1>6

LEMMA CloseFreesHolds ==
    ASSUME ReleaseInv, NEW h \in Hosts, CloseFrees(h)
    PROVE  ReleaseInv'
<1> USE PeerFacts DEF ReleaseInv, memory, CloseFrees, Works, CloserAt,
    CloserGoes, Disturbs
<1>1. TypeOK'
    BY DEF TypeOK, States
<1>2. SenderLeft'
    BY DEF TypeOK, SenderLeft
<1>3. PassiveFollows'
    BY DEF TypeOK, FinHasSender, PassiveFollows
<1>4. AckIsLast'
    BY DEF TypeOK, FinHasSender, SenderLeft, PassiveFollows, AckIsLast
<1>5. UNCHANGED <<freed, invited, net, rcv, state>>
    OBVIOUS
<1>6. FinHasSender'
    BY <1>5 DEF FinHasSender
<1> QED
    BY <1>1, <1>2, <1>3, <1>4, <1>5, <1>6

LEMMA CloseClearsHolds ==
    ASSUME ReleaseInv, NEW h \in Hosts, CloseClears(h)
    PROVE  ReleaseInv'
<1> USE PeerFacts DEF ReleaseInv, memory, CloseClears, Works, CloserAt,
    CloserGoes, history
<1>1. TypeOK'
    BY DEF TypeOK, States
<1>2. SenderLeft'
    BY DEF TypeOK, SenderLeft
<1>3. PassiveFollows'
    BY DEF TypeOK, FinHasSender, PassiveFollows
<1>4. AckIsLast'
    BY DEF TypeOK, FinHasSender, SenderLeft, PassiveFollows, AckIsLast
<1>5. UNCHANGED <<freed, invited, net, rcv, state>>
    OBVIOUS
<1>6. FinHasSender'
    BY <1>5 DEF FinHasSender
<1> QED
    BY <1>1, <1>2, <1>3, <1>4, <1>5, <1>6

LEMMA CloseStateHolds ==
    ASSUME ReleaseInv, NEW h \in Hosts, CloseState(h)
    PROVE  ReleaseInv'
<1> USE PeerFacts DEF ReleaseInv, memory, CloseState, Works, CloserAt,
    CloserGoes, Becomes, Disturbs
<1>1. TypeOK'
    BY DEF TypeOK, States
<1>2. FinHasSender'
    BY DEF TypeOK, FinHasSender
<1>3. SenderLeft'
    BY DEF TypeOK, SenderLeft
<1>4. PassiveFollows'
    BY DEF TypeOK, FinHasSender, PassiveFollows
<1>5. AckIsLast'
    BY DEF TypeOK, FinHasSender, SenderLeft, PassiveFollows, AckIsLast
<1> QED
    BY <1>1, <1>2, <1>3, <1>4, <1>5

LEMMA CloseFinHolds ==
    ASSUME ReleaseInv, NEW h \in Hosts, CloseFin(h)
    PROVE  ReleaseInv'
<1> USE PeerFacts DEF ReleaseInv, memory, CloseFin, Works, CloserAt,
    CloserGoes, Sends, tcp_send_fin_ack, Kinds
<1>1. TypeOK'
    BY DEF TypeOK, States
<1>2. FinHasSender'
    BY DEF TypeOK, FinHasSender
<1>3. SenderLeft'
    BY DEF TypeOK, SenderLeft
<1>4. PassiveFollows'
    BY DEF TypeOK, FinHasSender, PassiveFollows
<1>5. AckIsLast'
    BY DEF TypeOK, FinHasSender, SenderLeft, PassiveFollows, AckIsLast
<1> QED
    BY <1>1, <1>2, <1>3, <1>4, <1>5

LEMMA CloseReturnsHolds ==
    ASSUME ReleaseInv, NEW h \in Hosts, CloseReturns(h)
    PROVE  ReleaseInv'
<1> USE PeerFacts DEF ReleaseInv, memory, CloseReturns, Works, CloserAt,
    CloserGoes, history
<1>1. TypeOK'
    BY DEF TypeOK, States
<1>2. SenderLeft'
    BY DEF TypeOK, SenderLeft
<1>3. PassiveFollows'
    BY DEF TypeOK, FinHasSender, PassiveFollows
<1>4. AckIsLast'
    BY DEF TypeOK, FinHasSender, SenderLeft, PassiveFollows, AckIsLast
<1>5. UNCHANGED <<freed, invited, net, rcv, state>>
    OBVIOUS
<1>6. FinHasSender'
    BY <1>5 DEF FinHasSender
<1> QED
    BY <1>1, <1>2, <1>3, <1>4, <1>5, <1>6

LEMMA CloseReadsFreedHolds ==
    ASSUME ReleaseInv, NEW h \in Hosts, CloseReadsFreed(h)
    PROVE  ReleaseInv'
<1> USE PeerFacts DEF ReleaseInv, memory, CloseReadsFreed, CloserGoes, history
<1>1. TypeOK'
    BY DEF TypeOK, States
<1>2. SenderLeft'
    BY DEF TypeOK, SenderLeft
<1>3. PassiveFollows'
    BY DEF TypeOK, FinHasSender, PassiveFollows
<1>4. AckIsLast'
    BY DEF TypeOK, FinHasSender, SenderLeft, PassiveFollows, AckIsLast
<1>5. UNCHANGED <<freed, invited, net, rcv, state>>
    OBVIOUS
<1>6. FinHasSender'
    BY <1>5 DEF FinHasSender
<1> QED
    BY <1>1, <1>2, <1>3, <1>4, <1>5, <1>6

LEMMA EstablishedAckHolds ==
    ASSUME ReleaseInv, NEW h \in Hosts, EstablishedAck(h)
    PROVE  ReleaseInv'
<1> USE PeerFacts DEF ReleaseInv, memory, EstablishedAck, Works, RcvAt,
    RcvGoes, Receives, Taken, history, Kinds
<1>1. TypeOK'
    BY DEF TypeOK, States
<1>2. FinHasSender'
    BY DEF TypeOK, FinHasSender
<1>3. SenderLeft'
    BY DEF TypeOK, SenderLeft
<1>4. PassiveFollows'
    BY DEF TypeOK, FinHasSender, PassiveFollows
<1>5. AckIsLast'
    BY DEF TypeOK, FinHasSender, SenderLeft, PassiveFollows, AckIsLast
<1> QED
    BY <1>1, <1>2, <1>3, <1>4, <1>5

LEMMA JoinsHolds ==
    ASSUME ReleaseInv, NEW h \in Hosts, Joins(h)
    PROVE  ReleaseInv'
<1> USE PeerFacts DEF ReleaseInv, memory, Joins, Works, RcvAt, RcvGoes, history
<1>1. TypeOK'
    BY DEF TypeOK, States
<1>2. FinHasSender'
    BY DEF TypeOK, FinHasSender
<1>3. SenderLeft'
    BY DEF TypeOK, SenderLeft
<1>4. PassiveFollows'
    BY DEF TypeOK, FinHasSender, PassiveFollows
<1>5. AckIsLast'
    BY DEF TypeOK, FinHasSender, SenderLeft, PassiveFollows, AckIsLast
<1> QED
    BY <1>1, <1>2, <1>3, <1>4, <1>5

LEMMA EstablishedDataHolds ==
    ASSUME ReleaseInv, NEW h \in Hosts, EstablishedData(h)
    PROVE  ReleaseInv'
<1> USE PeerFacts DEF ReleaseInv, memory, EstablishedData, Works, RcvAt,
    RcvGoes, Receives, Taken, Sends, tcp_send_ack, history, Kinds
<1>1. TypeOK'
    BY DEF TypeOK, States
<1>2. FinHasSender'
    BY DEF TypeOK, FinHasSender
<1>3. SenderLeft'
    BY DEF TypeOK, SenderLeft
<1>4. PassiveFollows'
    BY DEF TypeOK, FinHasSender, PassiveFollows
<1>5. AckIsLast'
    BY DEF TypeOK, FinHasSender, SenderLeft, PassiveFollows, AckIsLast
<1> QED
    BY <1>1, <1>2, <1>3, <1>4, <1>5

LEMMA StoreAllocatesHolds ==
    ASSUME ReleaseInv, NEW h \in Hosts, StoreAllocates(h)
    PROVE  ReleaseInv'
<1> USE PeerFacts DEF ReleaseInv, memory, StoreAllocates, Works, RcvAt,
    RcvGoes, Disturbs
<1>1. TypeOK'
    BY DEF TypeOK, States
<1>2. FinHasSender'
    BY DEF TypeOK, FinHasSender
<1>3. SenderLeft'
    BY DEF TypeOK, SenderLeft
<1>4. PassiveFollows'
    BY DEF TypeOK, FinHasSender, PassiveFollows
<1>5. AckIsLast'
    BY DEF TypeOK, FinHasSender, SenderLeft, PassiveFollows, AckIsLast
<1> QED
    BY <1>1, <1>2, <1>3, <1>4, <1>5

LEMMA StoreCopiesHolds ==
    ASSUME ReleaseInv, NEW h \in Hosts, StoreCopies(h)
    PROVE  ReleaseInv'
<1> USE PeerFacts DEF ReleaseInv, memory, StoreCopies, Works, RcvAt, RcvGoes,
    history
<1>1. TypeOK'
    BY DEF TypeOK, States
<1>2. FinHasSender'
    BY DEF TypeOK, FinHasSender
<1>3. SenderLeft'
    BY DEF TypeOK, SenderLeft
<1>4. PassiveFollows'
    BY DEF TypeOK, FinHasSender, PassiveFollows
<1>5. AckIsLast'
    BY DEF TypeOK, FinHasSender, SenderLeft, PassiveFollows, AckIsLast
<1> QED
    BY <1>1, <1>2, <1>3, <1>4, <1>5

LEMMA EstablishedFinHolds ==
    ASSUME ReleaseInv, NEW h \in Hosts, EstablishedFin(h)
    PROVE  ReleaseInv'
<1> USE PeerFacts DEF ReleaseInv, memory, EstablishedFin, Works, RcvAt,
    RcvGoes, Receives, Taken, Becomes, Sends, tcp_send_ack, history, Kinds
<1>1. TypeOK'
    BY DEF TypeOK, States
<1>2. FinHasSender'
    BY DEF TypeOK, FinHasSender
<1>3. SenderLeft'
    BY DEF TypeOK, SenderLeft
<1>4. PassiveFollows'
    BY DEF TypeOK, FinHasSender, PassiveFollows
<1>5. AckIsLast'
    BY DEF TypeOK, FinHasSender, SenderLeft, PassiveFollows, AckIsLast
<1> QED
    BY <1>1, <1>2, <1>3, <1>4, <1>5

LEMMA SleepEndsHolds ==
    ASSUME ReleaseInv, NEW h \in Hosts, SleepEnds(h)
    PROVE  ReleaseInv'
<1> USE PeerFacts DEF ReleaseInv, memory, SleepEnds, Works, RcvAt, RcvGoes,
    Becomes, history
<1>1. TypeOK'
    BY DEF TypeOK, States
<1>2. FinHasSender'
    BY DEF TypeOK, FinHasSender
<1>3. SenderLeft'
    BY DEF TypeOK, SenderLeft
<1>4. PassiveFollows'
    BY DEF TypeOK, FinHasSender, PassiveFollows
<1>5. AckIsLast'
    BY DEF TypeOK, FinHasSender, SenderLeft, PassiveFollows, AckIsLast
<1> QED
    BY <1>1, <1>2, <1>3, <1>4, <1>5

LEMMA LastFinHolds ==
    ASSUME ReleaseInv, NEW h \in Hosts, LastFin(h)
    PROVE  ReleaseInv'
<1> USE PeerFacts DEF ReleaseInv, memory, LastFin, Works, RcvAt, RcvGoes,
    Sends, tcp_send_fin_ack, Kinds
<1>1. TypeOK'
    BY DEF TypeOK, States
<1>2. FinHasSender'
    BY DEF TypeOK, FinHasSender
<1>3. SenderLeft'
    BY DEF TypeOK, SenderLeft
<1>4. PassiveFollows'
    BY DEF TypeOK, FinHasSender, PassiveFollows
<1>5. AckIsLast'
    BY DEF TypeOK, FinHasSender, SenderLeft, PassiveFollows, AckIsLast
<1> QED
    BY <1>1, <1>2, <1>3, <1>4, <1>5

LEMMA FinWait1AckHolds ==
    ASSUME ReleaseInv, NEW h \in Hosts, FinWait1Ack(h)
    PROVE  ReleaseInv'
<1> USE PeerFacts DEF ReleaseInv, memory, FinWait1Ack, Works, RcvAt, Receives,
    Taken, Becomes, threads, history, Kinds
<1>1. TypeOK'
    BY DEF TypeOK, States
<1>2. FinHasSender'
    BY DEF TypeOK, FinHasSender
<1>3. SenderLeft'
    BY DEF TypeOK, SenderLeft
<1>4. PassiveFollows'
    BY DEF TypeOK, FinHasSender, PassiveFollows
<1>5. AckIsLast'
    BY DEF TypeOK, FinHasSender, SenderLeft, PassiveFollows, AckIsLast
<1> QED
    BY <1>1, <1>2, <1>3, <1>4, <1>5

LEMMA FinWait2FinHolds ==
    ASSUME ReleaseInv, NEW h \in Hosts, FinWait2Fin(h)
    PROVE  ReleaseInv'
<1> USE PeerFacts DEF ReleaseInv, memory, FinWait2Fin, Works, RcvAt, RcvGoes,
    Receives, Taken, Sends, tcp_send_ack, history, Kinds
<1>1. TypeOK'
    BY DEF TypeOK, States
<1>2. FinHasSender'
    BY DEF TypeOK, FinHasSender
<1>3. SenderLeft'
    BY DEF TypeOK, SenderLeft
<1>4. PassiveFollows'
    BY DEF TypeOK, FinHasSender, PassiveFollows
<1>5. AckIsLast'
    BY DEF TypeOK, FinHasSender, SenderLeft, PassiveFollows, AckIsLast
<1> QED
    BY <1>1, <1>2, <1>3, <1>4, <1>5

LEMMA TimeWaitHolds ==
    ASSUME ReleaseInv, NEW h \in Hosts, TimeWait(h)
    PROVE  ReleaseInv'
<1> USE PeerFacts DEF ReleaseInv, memory, TimeWait, Works, RcvAt, RcvGoes,
    Becomes, history
<1>1. TypeOK'
    BY DEF TypeOK, States
<1>2. FinHasSender'
    BY DEF TypeOK, FinHasSender
<1>3. SenderLeft'
    BY DEF TypeOK, SenderLeft
<1>4. PassiveFollows'
    BY DEF TypeOK, FinHasSender, PassiveFollows
<1>5. AckIsLast'
    BY DEF TypeOK, FinHasSender, SenderLeft, PassiveFollows, AckIsLast
<1> QED
    BY <1>1, <1>2, <1>3, <1>4, <1>5

LEMMA LingerEndsHolds ==
    ASSUME ReleaseInv, NEW h \in Hosts, LingerEnds(h)
    PROVE  ReleaseInv'
<1> USE PeerFacts DEF ReleaseInv, memory, LingerEnds, Works, RcvAt, RcvGoes,
    history
<1>1. TypeOK'
    BY DEF TypeOK, States
<1>2. FinHasSender'
    BY DEF TypeOK, FinHasSender
<1>3. SenderLeft'
    BY DEF TypeOK, SenderLeft
<1>4. PassiveFollows'
    BY DEF TypeOK, FinHasSender, PassiveFollows
<1>5. AckIsLast'
    BY DEF TypeOK, FinHasSender, SenderLeft, PassiveFollows, AckIsLast
<1> QED
    BY <1>1, <1>2, <1>3, <1>4, <1>5

LEMMA LastAckAckHolds ==
    ASSUME ReleaseInv, NEW h \in Hosts, LastAckAck(h)
    PROVE  ReleaseInv'
<1> USE PeerFacts DEF ReleaseInv, memory, LastAckAck, Works, RcvAt, RcvGoes,
    Receives, Taken, Becomes, history, Kinds
<1>1. TypeOK'
    BY DEF TypeOK, States
<1>2. FinHasSender'
    BY DEF TypeOK, FinHasSender
<1>3. SenderLeft'
    BY DEF TypeOK, SenderLeft
<1>4. PassiveFollows'
    BY DEF TypeOK, FinHasSender, PassiveFollows
<1>5. AckIsLast'
    BY DEF TypeOK, FinHasSender, SenderLeft, PassiveFollows, AckIsLast
<1> QED
    BY <1>1, <1>2, <1>3, <1>4, <1>5

LEMMA ClosedFreesHolds ==
    ASSUME ReleaseInv, NEW h \in Hosts, ClosedFrees(h)
    PROVE  ReleaseInv'
<1> USE PeerFacts DEF ReleaseInv, memory, ClosedFrees, Works, RcvAt, RcvGoes,
    history
<1>1. TypeOK'
    BY DEF TypeOK, States
<1>2. FinHasSender'
    BY DEF TypeOK, FinHasSender
<1>3. SenderLeft'
    BY DEF TypeOK, SenderLeft
<1>4. PassiveFollows'
    BY DEF TypeOK, FinHasSender, PassiveFollows
<1>5. AckIsLast'
    BY DEF TypeOK, FinHasSender, SenderLeft, PassiveFollows, AckIsLast
<1> QED
    BY <1>1, <1>2, <1>3, <1>4, <1>5

LEMMA CloseIgnoresHolds ==
    ASSUME ReleaseInv, NEW h \in Hosts, NEW k \in Kinds, CloseIgnores(h, k)
    PROVE  ReleaseInv'
<1> USE PeerFacts DEF ReleaseInv, memory, CloseIgnores, Works, RcvAt, Receives,
    Taken, Disturbs, threads, Kinds
<1>1. TypeOK'
    BY DEF TypeOK, States
<1>2. FinHasSender'
    BY DEF TypeOK, FinHasSender
<1>3. AckIsLast'
    BY DEF TypeOK, FinHasSender, SenderLeft, PassiveFollows, AckIsLast
<1>4. UNCHANGED <<closer, invited, rcv, state>>
    OBVIOUS
<1>5. SenderLeft' /\ PassiveFollows'
    BY <1>4 DEF SenderLeft, PassiveFollows
<1> QED
    BY <1>1, <1>2, <1>3, <1>4, <1>5

LEMMA UseAfterFreeHolds ==
    ASSUME ReleaseInv, NEW h \in Hosts, UseAfterFree(h)
    PROVE  ReleaseInv'
<1> USE PeerFacts DEF ReleaseInv, memory, UseAfterFree, Kinds, threads, history
<1>1. TypeOK'
    BY DEF TypeOK, States
<1>2. UNCHANGED <<closer, freed, invited, net, rcv, state, strays>>
    OBVIOUS
<1>3. FinHasSender' /\ SenderLeft' /\ PassiveFollows' /\ AckIsLast'
    BY <1>2 DEF FinHasSender, SenderLeft, PassiveFollows, AckIsLast
<1> QED
    BY <1>1, <1>2, <1>3

LEMMA LoseHolds ==
    ASSUME ReleaseInv, NEW h \in Hosts, NEW k \in Kinds, Lose(h, k)
    PROVE  ReleaseInv'
<1> USE PeerFacts DEF ReleaseInv, memory, Lose, Taken, Disturbs, threads, Kinds
<1>1. TypeOK'
    BY DEF TypeOK, States
<1>2. FinHasSender'
    BY DEF TypeOK, FinHasSender
<1>3. AckIsLast'
    BY DEF TypeOK, FinHasSender, SenderLeft, PassiveFollows, AckIsLast
<1>4. UNCHANGED <<closer, invited, rcv, state>>
    OBVIOUS
<1>5. SenderLeft' /\ PassiveFollows'
    BY <1>4 DEF SenderLeft, PassiveFollows
<1> QED
    BY <1>1, <1>2, <1>3, <1>4, <1>5

LEMMA RepeatHolds ==
    ASSUME ReleaseInv, NEW h \in Hosts, NEW k \in Kinds, Repeat(h, k)
    PROVE  ReleaseInv'
<1> USE PeerFacts DEF ReleaseInv, memory, Repeat, threads, Kinds
<1>1. TypeOK'
    BY DEF TypeOK, States
<1>2. FinHasSender'
    BY DEF TypeOK, FinHasSender
<1>3. AckIsLast'
    BY DEF TypeOK, FinHasSender, SenderLeft, PassiveFollows, AckIsLast
<1>4. UNCHANGED <<closer, invited, rcv, state>>
    OBVIOUS
<1>5. SenderLeft' /\ PassiveFollows'
    BY <1>4 DEF SenderLeft, PassiveFollows
<1> QED
    BY <1>1, <1>2, <1>3, <1>4, <1>5

LEMMA StutterHolds == ReleaseInv /\ UNCHANGED vars => ReleaseInv'
BY DEF ReleaseInv, TypeOK, FinHasSender, SenderLeft, PassiveFollows, AckIsLast,
       vars, memory, threads, history
-----------------------------------------------------------------------------
(* What the close of a connection rests on, as an invariant of tcp_close and
   tcp_state_close: every FIN has a sender that left ESTABLISHED, a host that did
   not close only follows, and the ACK it waits for in LAST_ACK is the last one. *)
THEOREM ReleaseInvHolds == Spec => []ReleaseInv
<1>1. ASSUME ReleaseInv, Next PROVE ReleaseInv'
    <2> USE <1>1
    <2>1. CASE Network
        BY <2>1, LoseHolds, RepeatHolds DEF Network
    <2>2. ASSUME NEW h \in Hosts, Closing(h) PROVE ReleaseInv'
        BY <2>2, CloseFreesHolds, CloseClearsHolds, CloseStateHolds, CloseFinHolds,
           CloseReturnsHolds DEF Closing
    <2>3. ASSUME NEW h \in Hosts, ReceiveThread(h) PROVE ReleaseInv'
        BY <2>3, EstablishedAckHolds, JoinsHolds, EstablishedDataHolds,
           StoreAllocatesHolds, StoreCopiesHolds, EstablishedFinHolds, SleepEndsHolds,
           LastFinHolds, FinWait1AckHolds, FinWait2FinHolds, TimeWaitHolds,
           LingerEndsHolds, LastAckAckHolds, ClosedFreesHolds, CloseIgnoresHolds
           DEF ReceiveThread
    <2> QED
        BY <1>1, <2>1, <2>2, <2>3, tcp_closeHolds, CloseReadsFreedHolds,
           UseAfterFreeHolds DEF Next
<1> QED
    BY InitHolds, <1>1, StutterHolds, PTL DEF Spec

(* The states of the sockets, the control states of the threads and the packets
   under way stay in their sets. *)
THEOREM TypeCorrect == Spec => []TypeOK
<1>1. ReleaseInv => TypeOK
    BY DEF ReleaseInv
<1> QED
    BY ReleaseInvHolds, <1>1, PTL

(* No half-open connection: TIME_WAIT, CLOSED and free of a socket in
   tcp_state_close come after the peer has left ESTABLISHED and sent its FIN, however
   many packets are repeated or left over. *)
THEOREM NoHalfOpenHolds == Spec => []NoHalfOpen
<1>1. ReleaseInv => NoHalfOpen
    BY PeerFacts DEF ReleaseInv, FinHasSender, SenderLeft, NoHalfOpen
<1> QED
    BY ReleaseInvHolds, <1>1, PTL

(* When one end closes and nothing is left over from the transfer, the passive end
   leaves LAST_ACK only for the ACK of the active end's TIME_WAIT. *)
THEOREM LastAckIsFinalHolds == Spec => []LastAckIsFinal
<1>1. ReleaseInv => LastAckIsFinal
    BY DEF ReleaseInv, AckIsLast, LastAckIsFinal
<1> QED
    BY ReleaseInvHolds, <1>1, PTL
=============================================================================
