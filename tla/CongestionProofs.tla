-------------------------- MODULE CongestionProofs --------------------------
(***************************************************************************)
(* Proofs about Congestion, for every segment size, threshold and limit.   *)
(* PhaseMatchesWindow speaks of the moments between handlers; the          *)
(* invariant says what holds at every step inside them.                    *)
(***************************************************************************)
EXTENDS Congestion, TLAPS

\* Which branch the handlers are in, and what their registers hold.
Branches ==
    /\ ack.at \notin {"idle", "end"} => ack.phase \in Status
    /\ ack.at = "divide" => ack.phase = "CONGESTION_AVOIDANCE"
    /\ ack.at \in {"load", "compare", "set"} => ack.phase = "SLOW_START"
    /\ ack.at \in {"divide", "write"} => ack.reg >= 1
    /\ loss.at \notin {"idle", "end"} => loss.phase \in Status
    /\ loss.at = "compare" => loss.phase = "SLOW_START"
    /\ loss.at # "idle" => timeout_counts <= RetransmitLimit

\* What the history variables say of the places of the handlers.
Overlaps ==
    /\ alone => ack.at = "idle" /\ loss.at # "idle"
    /\ loss.at # "idle" /\ ~torn => alone

\* handle_success_ack by itself, between two matches.
AckAlone ==
    ~torn /\ loss.at = "idle" =>
        /\ ack.at \in {"idle", "test", "read", "divide", "end"} => Matches
        /\ ack.at \in {"read", "divide", "write", "load", "compare"} => con_status = ack.phase
        /\ ack.at = "divide" => ack.reg = cwnd
        /\ ack.at = "write" =>
              /\ ack.phase = "CONGESTION_AVOIDANCE" => ack.reg > ssthresh
              /\ ack.phase = "FAST_RECOVERY" => ack.reg >= ssthresh + 3 * SMSS
        /\ ack.at = "compare" => ack.reg = cwnd
        /\ ack.at = "set" => cwnd > ssthresh

\* handle_loss_ack by itself: it needs no match before it, unless it takes no branch.
LossAlone ==
    alone =>
        /\ loss.at \in {"test", "end"} /\ ~torn => Matches
        /\ loss.at \in {"read", "write", "shrink", "compare"} => con_status = loss.phase
        /\ loss.at = "write" => loss.reg >= 1
        /\ loss.at = "shrink" => ssthresh >= 1
        /\ loss.at = "set" =>
              /\ loss.phase = "SLOW_START" => cwnd > ssthresh
              /\ loss.phase = "CONGESTION_AVOIDANCE" => cwnd >= ssthresh + 3 * SMSS
              /\ loss.phase = "FAST_RECOVERY" => cwnd <= ssthresh
        /\ loss.at = "end" /\ loss.phase # "none" => Matches

HandlerInv == TypeOK /\ Branches /\ Overlaps /\ AckAlone /\ LossAlone
-----------------------------------------------------------------------------
\* Half of a window of at least one byte is at least one byte: this is what keeps the
\* window inside the threshold when handle_loss_ack leaves fast recovery with cwnd = 1.
LEMMA HalfWindowBounds ==
    ASSUME NEW w \in Nat \ {0}
    PROVE  (w + 1) \div 2 \in Nat /\ (w + 1) \div 2 >= 1
OBVIOUS

\* The window never shrinks in congestion avoidance.
LEMMA AvoidanceStepBounds ==
    ASSUME TypeOK, NEW step \in AvoidanceStep
    PROVE  step \in Nat
<1>1. (SMSS * SMSS) \div cwnd \in Int
    BY CongestionAssumption DEF TypeOK
<1> QED
    BY <1>1 DEF AvoidanceStep

LEMMA InitHolds == Init => HandlerInv
<1> USE CongestionAssumption DEF Init, Idle
<1>1. Init => TypeOK
    <2>1. "SLOW_START" \in Status /\ "none" \in Phases
        BY DEF Status, Phases
    <2>2. Init => /\ con_status \in Status /\ cwnd \in Nat \ {0} /\ ssthresh \in Nat
                  /\ timeout_counts \in 0..255
        BY <2>1
    <2>3. Init => ack = [at |-> "idle", phase |-> "none", reg |-> 0] /\ loss = ack
        OBVIOUS
    <2>4. Init => alone \in BOOLEAN /\ torn \in BOOLEAN
        OBVIOUS
    <2> HIDE DEF Init
    <2> QED
        BY <2>1, <2>2, <2>3, <2>4 DEF TypeOK
<1>2. Init => Branches /\ Overlaps
    BY DEF Branches, Overlaps
<1>3. Init => AckAlone /\ LossAlone
    BY DEF AckAlone, LossAlone, Matches
<1> QED
    BY <1>1, <1>2, <1>3 DEF HandlerInv
-----------------------------------------------------------------------------
\* One lemma per step of the handlers.

LEMMA AckBeginsHolds == HandlerInv /\ AckBegins => HandlerInv'
<1> SUFFICES ASSUME HandlerInv, AckBegins PROVE HandlerInv'
    OBVIOUS
<1> USE CongestionAssumption
    DEF HandlerInv, AckBegins, Starts, shared, history, Status, Phases
<1>1. TypeOK'
    BY DEF TypeOK, Branches
<1>2. Branches' /\ Overlaps'
    BY DEF TypeOK, Branches, Overlaps
<1>3. AckAlone'
    BY DEF TypeOK, Branches, Overlaps, AckAlone, LossAlone, Matches
<1>4. LossAlone'
    BY DEF TypeOK, Branches, Overlaps, AckAlone, LossAlone, Matches
<1> QED
    BY <1>1, <1>2, <1>3, <1>4

LEMMA AckTestsHolds == HandlerInv /\ AckTests => HandlerInv'
<1> SUFFICES ASSUME HandlerInv, AckTests PROVE HandlerInv'
    OBVIOUS
<1> USE CongestionAssumption
    DEF HandlerInv, AckTests, Tested, NextTest, shared, history, Status, Phases
<1>1. TypeOK'
    <2>1. CASE con_status = ack.phase
        BY <2>1 DEF TypeOK, Branches
    <2>2. CASE con_status # ack.phase
        <3>1. NextTest(ack.phase) \in Phases
            BY DEF Branches
        <3>2. \/ ack' = [ack EXCEPT !.phase = NextTest(ack.phase), !.at = "end"]
              \/ ack' = [ack EXCEPT !.phase = NextTest(ack.phase), !.at = "test"]
            BY <2>2
        <3> HIDE DEF NextTest, Phases
        <3> QED
            BY <3>1, <3>2 DEF TypeOK
    <2> QED
        BY <2>1, <2>2
<1>2. Branches' /\ Overlaps'
    BY DEF TypeOK, Branches, Overlaps
<1>3. AckAlone'
    BY DEF TypeOK, Branches, Overlaps, AckAlone, LossAlone, Matches
<1>4. LossAlone'
    BY DEF TypeOK, Branches, Overlaps, AckAlone, LossAlone, Matches
<1> QED
    BY <1>1, <1>2, <1>3, <1>4

LEMMA AckReadsHolds == HandlerInv /\ AckReads => HandlerInv'
<1> SUFFICES ASSUME HandlerInv, AckReads PROVE HandlerInv'
    OBVIOUS
<1> USE CongestionAssumption
    DEF HandlerInv, AckReads, shared, history, Status, Phases
<1>1. TypeOK'
    <2>1. CASE ack.phase = "CONGESTION_AVOIDANCE"
        BY <2>1 DEF TypeOK
    <2>2. CASE ack.phase # "CONGESTION_AVOIDANCE"
        <3>1. ack' = [ack EXCEPT !.at = "write", !.reg = cwnd + SMSS]
            BY <2>2
        <3>2. cwnd + SMSS \in Nat
            BY DEF TypeOK
        <3> QED
            BY <3>1, <3>2 DEF TypeOK
    <2> QED
        BY <2>1, <2>2
<1>2. Branches' /\ Overlaps'
    BY DEF TypeOK, Branches, Overlaps
<1>3. AckAlone'
    BY DEF TypeOK, Branches, Overlaps, AckAlone, LossAlone, Matches
<1>4. LossAlone'
    BY DEF TypeOK, Branches, Overlaps, AckAlone, LossAlone, Matches
<1> QED
    BY <1>1, <1>2, <1>3, <1>4

LEMMA AckDividesHolds == HandlerInv /\ AckDivides => HandlerInv'
<1> SUFFICES ASSUME HandlerInv, AckDivides PROVE HandlerInv'
    OBVIOUS
<1> PICK step \in AvoidanceStep :
        /\ ack.at = "divide"
        /\ ack' = [ack EXCEPT !.at = "write", !.reg = @ + step]
        /\ UNCHANGED <<shared, loss, history>>
    BY DEF AckDivides
<1> step \in Nat
    BY AvoidanceStepBounds DEF HandlerInv
<1> USE CongestionAssumption DEF HandlerInv, shared, history, Status, Phases
<1>1. TypeOK'
    <2>1. ack.reg + step \in Nat
        BY DEF TypeOK
    <2> HIDE DEF Phases
    <2> QED
        BY <2>1 DEF TypeOK
<1>2. Branches' /\ Overlaps'
    BY DEF TypeOK, Branches, Overlaps
<1>3. AckAlone'
    BY DEF TypeOK, Branches, Overlaps, AckAlone, LossAlone, Matches
<1>4. LossAlone'
    BY DEF TypeOK, Branches, Overlaps, AckAlone, LossAlone, Matches
<1> QED
    BY <1>1, <1>2, <1>3, <1>4

LEMMA AckWritesHolds == HandlerInv /\ AckWrites => HandlerInv'
<1> SUFFICES ASSUME HandlerInv, AckWrites PROVE HandlerInv'
    OBVIOUS
<1> USE CongestionAssumption
    DEF HandlerInv, AckWrites, shared, history, Status, Phases
<1>1. TypeOK'
    BY DEF TypeOK, Branches
<1>2. Branches' /\ Overlaps'
    BY DEF TypeOK, Branches, Overlaps
<1>3. AckAlone'
    BY DEF TypeOK, Branches, Overlaps, AckAlone, LossAlone, Matches
<1>4. LossAlone'
    BY DEF TypeOK, Branches, Overlaps, AckAlone, LossAlone, Matches
<1> QED
    BY <1>1, <1>2, <1>3, <1>4

LEMMA AckLoadsHolds == HandlerInv /\ AckLoads => HandlerInv'
<1> SUFFICES ASSUME HandlerInv, AckLoads PROVE HandlerInv'
    OBVIOUS
<1> USE CongestionAssumption
    DEF HandlerInv, AckLoads, shared, history, Status, Phases
<1>1. TypeOK'
    BY DEF TypeOK, Branches
<1>2. Branches' /\ Overlaps'
    BY DEF TypeOK, Branches, Overlaps
<1>3. AckAlone'
    BY DEF TypeOK, Branches, Overlaps, AckAlone, LossAlone, Matches
<1>4. LossAlone'
    BY DEF TypeOK, Branches, Overlaps, AckAlone, LossAlone, Matches
<1> QED
    BY <1>1, <1>2, <1>3, <1>4

LEMMA AckComparesHolds == HandlerInv /\ AckCompares => HandlerInv'
<1> SUFFICES ASSUME HandlerInv, AckCompares PROVE HandlerInv'
    OBVIOUS
<1> USE CongestionAssumption
    DEF HandlerInv, AckCompares, shared, history, Status, Phases
<1>1. TypeOK'
    BY DEF TypeOK, Branches
<1>2. Branches' /\ Overlaps'
    BY DEF TypeOK, Branches, Overlaps
<1>3. AckAlone'
    BY DEF TypeOK, Branches, Overlaps, AckAlone, LossAlone, Matches
<1>4. LossAlone'
    BY DEF TypeOK, Branches, Overlaps, AckAlone, LossAlone, Matches
<1> QED
    BY <1>1, <1>2, <1>3, <1>4

LEMMA AckSetsHolds == HandlerInv /\ AckSets => HandlerInv'
<1> SUFFICES ASSUME HandlerInv, AckSets PROVE HandlerInv'
    OBVIOUS
<1> USE CongestionAssumption
    DEF HandlerInv, AckSets, shared, history, Status, Phases
<1>1. TypeOK'
    BY DEF TypeOK, Branches
<1>2. Branches' /\ Overlaps'
    BY DEF TypeOK, Branches, Overlaps
<1>3. AckAlone'
    BY DEF TypeOK, Branches, Overlaps, AckAlone, LossAlone, Matches
<1>4. LossAlone'
    BY DEF TypeOK, Branches, Overlaps, AckAlone, LossAlone, Matches
<1> QED
    BY <1>1, <1>2, <1>3, <1>4

LEMMA AckReturnsHolds == HandlerInv /\ AckReturns => HandlerInv'
<1> SUFFICES ASSUME HandlerInv, AckReturns PROVE HandlerInv'
    OBVIOUS
<1> USE CongestionAssumption
    DEF HandlerInv, AckReturns, Idle, shared, history, Status, Phases
<1>1. TypeOK'
    BY DEF TypeOK, Branches
<1>2. Branches' /\ Overlaps'
    BY DEF TypeOK, Branches, Overlaps
<1>3. AckAlone'
    BY DEF TypeOK, Branches, Overlaps, AckAlone, LossAlone, Matches
<1>4. LossAlone'
    BY DEF TypeOK, Branches, Overlaps, AckAlone, LossAlone, Matches
<1> QED
    BY <1>1, <1>2, <1>3, <1>4

LEMMA LossBeginsHolds == HandlerInv /\ LossBegins => HandlerInv'
<1> SUFFICES ASSUME HandlerInv, LossBegins PROVE HandlerInv'
    OBVIOUS
<1> USE CongestionAssumption
    DEF HandlerInv, LossBegins, Starts, shared, history, Status, Phases
<1>1. TypeOK'
    BY DEF TypeOK, Branches
<1>2. Branches' /\ Overlaps'
    BY DEF TypeOK, Branches, Overlaps
<1>3. AckAlone'
    BY DEF TypeOK, Branches, Overlaps, AckAlone, LossAlone, Matches
<1>4. LossAlone'
    BY DEF TypeOK, Branches, Overlaps, AckAlone, LossAlone, Matches
<1> QED
    BY <1>1, <1>2, <1>3, <1>4

LEMMA LossTestsHolds == HandlerInv /\ LossTests => HandlerInv'
<1> SUFFICES ASSUME HandlerInv, LossTests PROVE HandlerInv'
    OBVIOUS
<1> USE CongestionAssumption
    DEF HandlerInv, LossTests, Tested, NextTest, shared, history, Status, Phases
<1>1. TypeOK'
    BY DEF TypeOK, Branches
<1>2. Branches' /\ Overlaps'
    BY DEF TypeOK, Branches, Overlaps
<1>3. AckAlone'
    BY DEF TypeOK, Branches, Overlaps, AckAlone, LossAlone, Matches
<1>4. LossAlone'
    BY DEF TypeOK, Branches, Overlaps, AckAlone, LossAlone, Matches
<1> QED
    BY <1>1, <1>2, <1>3, <1>4

LEMMA LossReadsHolds == HandlerInv /\ LossReads => HandlerInv'
<1> SUFFICES ASSUME HandlerInv, LossReads PROVE HandlerInv'
    OBVIOUS
<1> (cwnd + 1) \div 2 \in Nat /\ (cwnd + 1) \div 2 >= 1
    BY HalfWindowBounds DEF HandlerInv, TypeOK
<1> USE CongestionAssumption
    DEF HandlerInv, LossReads, shared, history, Status, Phases
<1>1. TypeOK'
    BY DEF TypeOK, Branches
<1>2. Branches' /\ Overlaps'
    BY DEF TypeOK, Branches, Overlaps
<1>3. AckAlone'
    BY DEF TypeOK, Branches, Overlaps, AckAlone, LossAlone, Matches
<1>4. LossAlone'
    BY DEF TypeOK, Branches, Overlaps, AckAlone, LossAlone, Matches
<1> QED
    BY <1>1, <1>2, <1>3, <1>4

LEMMA LossHalvesHolds == HandlerInv /\ LossHalves => HandlerInv'
<1> SUFFICES ASSUME HandlerInv, LossHalves PROVE HandlerInv'
    OBVIOUS
<1> USE CongestionAssumption
    DEF HandlerInv, LossHalves, shared, history, Status, Phases
<1>1. TypeOK'
    BY DEF TypeOK, Branches
<1>2. Branches' /\ Overlaps'
    BY DEF TypeOK, Branches, Overlaps
<1>3. AckAlone'
    BY DEF TypeOK, Branches, Overlaps, AckAlone, LossAlone, Matches
<1>4. LossAlone'
    BY DEF TypeOK, Branches, Overlaps, AckAlone, LossAlone, Matches
<1> QED
    BY <1>1, <1>2, <1>3, <1>4

LEMMA LossShrinksHolds == HandlerInv /\ LossShrinks => HandlerInv'
<1> SUFFICES ASSUME HandlerInv, LossShrinks PROVE HandlerInv'
    OBVIOUS
<1> USE CongestionAssumption
    DEF HandlerInv, LossShrinks, WindowAfterLoss, shared, history, Status, Phases
<1>1. TypeOK'
    BY DEF TypeOK, Branches
<1>2. Branches' /\ Overlaps'
    BY DEF TypeOK, Branches, Overlaps
<1>3. AckAlone'
    BY DEF TypeOK, Branches, Overlaps, AckAlone, LossAlone, Matches
<1>4. LossAlone'
    BY DEF TypeOK, Branches, Overlaps, AckAlone, LossAlone, Matches
<1> QED
    BY <1>1, <1>2, <1>3, <1>4

LEMMA LossComparesHolds == HandlerInv /\ LossCompares => HandlerInv'
<1> SUFFICES ASSUME HandlerInv, LossCompares PROVE HandlerInv'
    OBVIOUS
<1> USE CongestionAssumption
    DEF HandlerInv, LossCompares, shared, history, Status, Phases
<1>1. TypeOK'
    BY DEF TypeOK, Branches
<1>2. Branches' /\ Overlaps'
    BY DEF TypeOK, Branches, Overlaps
<1>3. AckAlone'
    BY DEF TypeOK, Branches, Overlaps, AckAlone, LossAlone, Matches
<1>4. LossAlone'
    BY DEF TypeOK, Branches, Overlaps, AckAlone, LossAlone, Matches
<1> QED
    BY <1>1, <1>2, <1>3, <1>4

LEMMA LossSetsHolds == HandlerInv /\ LossSets => HandlerInv'
<1> SUFFICES ASSUME HandlerInv, LossSets PROVE HandlerInv'
    OBVIOUS
<1> USE CongestionAssumption
    DEF HandlerInv, LossSets, PhaseAfterLoss, shared, history, Status, Phases
<1>1. TypeOK'
    BY DEF TypeOK, Branches
<1>2. Branches' /\ Overlaps'
    BY DEF TypeOK, Branches, Overlaps
<1>3. AckAlone'
    BY DEF TypeOK, Branches, Overlaps, AckAlone, LossAlone, Matches
<1>4. LossAlone'
    BY DEF TypeOK, Branches, Overlaps, AckAlone, LossAlone, Matches
<1> QED
    BY <1>1, <1>2, <1>3, <1>4

LEMMA LossCountsHolds == HandlerInv /\ LossCounts => HandlerInv'
<1> SUFFICES ASSUME HandlerInv, LossCounts PROVE HandlerInv'
    OBVIOUS
<1> USE CongestionAssumption
    DEF HandlerInv, LossCounts, Idle, shared, history, Status, Phases
<1>1. TypeOK'
    <2>1. timeout_counts' \in 0..255
        BY DEF TypeOK, Branches
    <2>2. loss' = [at |-> "idle", phase |-> "none", reg |-> 0] /\ "none" \in Phases
        OBVIOUS
    <2>3. alone' \in BOOLEAN /\ torn' \in BOOLEAN
        BY DEF TypeOK
    <2> HIDE DEF Phases
    <2> QED
        BY <2>1, <2>2, <2>3 DEF TypeOK
<1>2. Branches' /\ Overlaps'
    BY DEF TypeOK, Branches, Overlaps
<1>3. AckAlone'
    BY DEF TypeOK, Branches, Overlaps, AckAlone, LossAlone, Matches
<1>4. LossAlone'
    BY DEF TypeOK, Branches, Overlaps, AckAlone, LossAlone, Matches
<1> QED
    BY <1>1, <1>2, <1>3, <1>4
-----------------------------------------------------------------------------
LEMMA HandlerInvHolds == Spec => []HandlerInv
<1>1. HandlerInv /\ Next => HandlerInv'
    BY AckBeginsHolds, AckTestsHolds, AckReadsHolds, AckDividesHolds, AckWritesHolds,
       AckLoadsHolds, AckComparesHolds, AckSetsHolds, AckReturnsHolds, LossBeginsHolds,
       LossTestsHolds, LossReadsHolds, LossHalvesHolds, LossShrinksHolds,
       LossComparesHolds, LossSetsHolds, LossCountsHolds
       DEF Next, handle_success_ack, handle_loss_ack
<1>2. HandlerInv /\ UNCHANGED vars => HandlerInv'
    BY DEF vars, shared, history, HandlerInv, TypeOK, Branches, Overlaps, AckAlone,
           LossAlone, Matches
<1> QED
    BY InitHolds, <1>1, <1>2, PTL DEF Spec

(* The window of a socket never becomes empty and timeout_counts never wraps,
   however the reads and writes of handle_success_ack and handle_loss_ack
   interleave. *)
THEOREM TypeCorrect == Spec => []TypeOK
<1>1. HandlerInv => TypeOK
    BY DEF HandlerInv
<1> QED
    BY HandlerInvHolds, <1>1, PTL

(* con_status and the position of cwnd relative to ssthresh agree between the
   handlers, from the start or the last handle_loss_ack that ran alone and took a
   branch until two handlers overlap. *)
THEOREM PhaseCorrect == Spec => []PhaseMatchesWindow
<1>1. HandlerInv => PhaseMatchesWindow
    BY DEF HandlerInv, AckAlone, PhaseMatchesWindow
<1> QED
    BY HandlerInvHolds, <1>1, PTL
=============================================================================
