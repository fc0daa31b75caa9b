----------------------------- MODULE Congestion -----------------------------
(***************************************************************************)
(* The congestion state of one socket.  The receive thread runs            *)
(* handle_success_ack for every ACK, the timer thread handle_loss_ack for  *)
(* every timeout that retransmits, and no lock keeps the two apart: every  *)
(* read and every write of cwnd, ssthresh and con_status is a step.  The   *)
(* sending thread does not read cwnd (its use is commented out), which is  *)
(* why Transmit leaves this state out.                                     *)
(***************************************************************************)
EXTENDS Integers

CONSTANTS
    SMSS,            \* the segment size, MAX_LEN
    IW,              \* the first threshold, 3 * MAX_LEN
    RetransmitLimit, \* RETRANSMIT_LIMIT
    InitCounts,      \* what malloc may leave in timeout_counts
    MaxCwnd          \* bound: no further ACK is handled above it

ASSUME CongestionAssumption ==
    /\ SMSS \in Nat \ {0} /\ IW \in Nat /\ SMSS <= IW
    /\ RetransmitLimit \in 0..254 /\ InitCounts \subseteq 0..255
    /\ MaxCwnd \in Nat

VARIABLES
    con_status,     \* the phase
    cwnd,           \* congestion window, in bytes
    ssthresh,       \* slow-start threshold, in bytes
    timeout_counts, \* timeouts so far
    ack, loss,      \* where handle_success_ack and handle_loss_ack are: the place,
                    \* the phase whose branch is tested or taken, a register
    \* history:
    alone,          \* no handle_success_ack ran during the present handle_loss_ack
    torn            \* the handlers have overlapped since the last handle_loss_ack
                    \* that ran alone and took a branch

shared == <<con_status, cwnd, ssthresh, timeout_counts>>
history == <<alone, torn>>
vars == <<shared, ack, loss, history>>

Status == {"SLOW_START", "CONGESTION_AVOIDANCE", "FAST_RECOVERY"}

Idle == [at |-> "idle", phase |-> "none", reg |-> 0]
Starts == [at |-> "test", phase |-> "SLOW_START", reg |-> 0]

\* tcp_socket.
Init == /\ con_status = "SLOW_START"
        /\ cwnd = SMSS
        /\ ssthresh = IW
        /\ timeout_counts \in InitCounts
        /\ ack = Idle /\ loss = Idle
        /\ alone = FALSE /\ torn = FALSE

\* The phase the next "else if" asks for.
NextTest(phase) ==
    CASE phase = "SLOW_START" -> "CONGESTION_AVOIDANCE"
      [] phase = "CONGESTION_AVOIDANCE" -> "FAST_RECOVERY"
      [] phase = "FAST_RECOVERY" -> "none"

\* Handler h after one test of its chain, each of which reads con_status anew; condition
\* is what the branch asks for besides.  When no branch applies a message is printed.
Tested(h, condition) ==
    IF con_status = h.phase /\ condition THEN [h EXCEPT !.at = "read"]
    ELSE [h EXCEPT !.phase = NextTest(h.phase),
                   !.at = IF h.phase = "FAST_RECOVERY" THEN "end" ELSE "test"]
-----------------------------------------------------------------------------
(* handle_success_ack in the receive thread.                               *)

AckBegins ==
    /\ ack.at = "idle" /\ cwnd <= MaxCwnd
    /\ ack' = Starts
    /\ alone' = FALSE
    /\ torn' = (torn \/ loss.at # "idle")
    /\ UNCHANGED <<shared, loss>>

AckTests ==
    /\ ack.at = "test"
    /\ ack' = Tested(ack, TRUE)
    /\ UNCHANGED <<shared, loss, history>>

\* cwnd + SMSS, or the first operand of the sum in congestion avoidance.
AckReads ==
    /\ ack.at = "read"
    /\ ack' = IF ack.phase = "CONGESTION_AVOIDANCE"
              THEN [ack EXCEPT !.at = "divide", !.reg = cwnd]
              ELSE [ack EXCEPT !.at = "write", !.reg = cwnd + SMSS]
    /\ UNCHANGED <<shared, loss, history>>

\* The float product SMSS * (SMSS / cwnd), cut to an int, is the integer
\* quotient up to one unit of rounding.
AvoidanceStep == LET q == (SMSS * SMSS) \div cwnd
                 IN  {i \in (q - 1)..(q + 1) : i >= 0}

\* The second operand reads cwnd again.
AckDivides ==
    /\ ack.at = "divide"
    /\ \E step \in AvoidanceStep :
          ack' = [ack EXCEPT !.at = "write", !.reg = @ + step]
    /\ UNCHANGED <<shared, loss, history>>

AckWrites ==
    /\ ack.at = "write"
    /\ cwnd' = ack.reg
    /\ ack' = [ack EXCEPT !.at = IF ack.phase = "SLOW_START" THEN "load" ELSE "end"]
    /\ UNCHANGED <<con_status, ssthresh, timeout_counts, loss, history>>

\* if(cwnd > ssthresh), in slow start: two reads ...
AckLoads ==
    /\ ack.at = "load"
    /\ ack' = [ack EXCEPT !.at = "compare", !.reg = cwnd]
    /\ UNCHANGED <<shared, loss, history>>

AckCompares_Swapped ==   \* mutation: the comparison is the wrong way round
    /\ ack.at = "compare"
    /\ ack' = [ack EXCEPT !.at = IF ack.reg < ssthresh THEN "set" ELSE "end"]
    /\ UNCHANGED <<shared, loss, history>>

AckCompares ==
    /\ ack.at = "compare"
    /\ ack' = [ack EXCEPT !.at = IF ack.reg > ssthresh THEN "set" ELSE "end"]
    /\ UNCHANGED <<shared, loss, history>>

\* ... and the new phase.
AckSets ==
    /\ ack.at = "set"
    /\ con_status' = "CONGESTION_AVOIDANCE"
    /\ ack' = [ack EXCEPT !.at = "end"]
    /\ UNCHANGED <<cwnd, ssthresh, timeout_counts, loss, history>>

AckReturns ==
    /\ ack.at = "end"
    /\ ack' = Idle
    /\ UNCHANGED <<shared, loss, history>>

handle_success_ack ==
    \/ AckBegins \/ AckTests \/ AckReads \/ AckDivides \/ AckWrites
    \/ AckLoads \/ AckCompares \/ AckSets \/ AckReturns
-----------------------------------------------------------------------------
(* handle_loss_ack in the timer thread, which alone writes ssthresh and    *)
(* timeout_counts.                                                         *)

LossBegins_NoLimit ==   \* mutation: the limit on retransmissions is not tested
    /\ loss.at = "idle"
    /\ loss' = Starts
    /\ alone' = (ack.at = "idle")
    /\ torn' = (torn \/ ack.at # "idle")
    /\ UNCHANGED <<shared, ack>>

LossBegins ==
    /\ loss.at = "idle" /\ timeout_counts <= RetransmitLimit
    /\ loss' = Starts
    /\ alone' = (ack.at = "idle")
    /\ torn' = (torn \/ ack.at # "idle")
    /\ UNCHANGED <<shared, ack>>

LossTests ==
    /\ loss.at = "test"
    /\ loss' = Tested(loss, loss.phase = "CONGESTION_AVOIDANCE" => timeout_counts % 4 = 3)
    /\ UNCHANGED <<shared, ack, history>>

\* ssthresh becomes half of the window, (cwnd + 1) / 2.
LossReads ==
    /\ loss.at = "read"
    /\ loss' = [loss EXCEPT !.at = "write", !.reg = (cwnd + 1) \div 2]
    /\ UNCHANGED <<shared, ack, history>>

LossHalves ==
    /\ loss.at = "write"
    /\ ssthresh' = loss.reg
    /\ loss' = [loss EXCEPT !.at = "shrink"]
    /\ UNCHANGED <<con_status, cwnd, timeout_counts, ack, history>>

\* The window for which each branch decides.
WindowAfterLoss(phase) ==
    CASE phase = "SLOW_START" -> SMSS
      [] phase = "CONGESTION_AVOIDANCE" -> ssthresh + 3 * SMSS
      [] phase = "FAST_RECOVERY" -> 1

LossShrinks ==
    /\ loss.at = "shrink"
    /\ cwnd' = WindowAfterLoss(loss.phase)
    /\ loss' = [loss EXCEPT !.at = IF loss.phase = "SLOW_START" THEN "compare" ELSE "set"]
    /\ UNCHANGED <<con_status, ssthresh, timeout_counts, ack, history>>

LossCompares ==
    /\ loss.at = "compare"
    /\ loss' = [loss EXCEPT !.at = IF cwnd > ssthresh THEN "set" ELSE "end"]
    /\ UNCHANGED <<shared, ack, history>>

PhaseAfterLoss(phase) ==
    CASE phase = "SLOW_START" -> "CONGESTION_AVOIDANCE"
      [] phase = "CONGESTION_AVOIDANCE" -> "FAST_RECOVERY"
      [] phase = "FAST_RECOVERY" -> "SLOW_START"

LossSets ==
    /\ loss.at = "set"
    /\ con_status' = PhaseAfterLoss(loss.phase)
    /\ loss' = [loss EXCEPT !.at = "end"]
    /\ UNCHANGED <<cwnd, ssthresh, timeout_counts, ack, history>>

\* tcp_write_timer_handler counts the timeout.
LossCounts ==
    /\ loss.at = "end"
    /\ timeout_counts' = timeout_counts + 1
    /\ loss' = Idle
    /\ alone' = FALSE
    /\ torn' = (torn /\ ~(alone /\ loss.phase # "none"))
    /\ UNCHANGED <<con_status, cwnd, ssthresh, ack>>

handle_loss_ack ==
    \/ LossBegins \/ LossTests \/ LossReads \/ LossHalves \/ LossShrinks
    \/ LossCompares \/ LossSets \/ LossCounts

Next == handle_success_ack \/ handle_loss_ack

Spec == Init /\ [][Next]_vars
-----------------------------------------------------------------------------
Phases == Status \cup {"none"}

(* The window is never empty, whatever the threads read of each other, so the
   division in handle_success_ack is defined, and the uint8_t timeout_counts
   never wraps. *)
TypeOK ==
    /\ con_status \in Status
    /\ cwnd \in Nat \ {0}
    /\ ssthresh \in Nat
    /\ timeout_counts \in 0..255
    /\ ack \in [at : {"idle", "test", "read", "divide", "write", "load", "compare",
                      "set", "end"}, phase : Phases, reg : Nat]
    /\ loss \in [at : {"idle", "test", "read", "write", "shrink", "compare", "set",
                       "end"}, phase : Phases, reg : Nat]
    /\ alone \in BOOLEAN /\ torn \in BOOLEAN

Matches ==
    /\ con_status = "SLOW_START" => cwnd <= ssthresh
    /\ con_status = "CONGESTION_AVOIDANCE" => cwnd > ssthresh
    /\ con_status = "FAST_RECOVERY" => cwnd >= ssthresh + 3 * SMSS

(* Between handlers the phase tells where the window is: at most the threshold in
   slow start, above it in congestion avoidance, at least three segments above it
   in fast recovery.  handle_success_ack and handle_loss_ack compare the two only
   when the window changes in slow start; this is what makes that enough.  Where
   the two handlers overlapped the match may be lost, and the next handle_loss_ack
   that runs alone and takes a branch restores it. *)
PhaseMatchesWindow ==
    ack.at = "idle" /\ loss.at = "idle" /\ ~torn => Matches
=============================================================================
