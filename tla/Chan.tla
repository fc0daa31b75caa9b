-------------------------------- MODULE Chan --------------------------------
(***************************************************************************)
(* The channels of src/chan.c: buffered and unbuffered, closed by anyone,  *)
(* used by any number of threads directly and by chan_select.  A value is  *)
(* an address; what the typed forms (chan_send_int32, ...) allocate, copy  *)
(* and free around these calls is not modelled.                            *)
(*                                                                         *)
(* Everything a channel holds is read and written under m_mu, so a step is *)
(* one section of m_mu: from its lock, or from the return of a wait, to    *)
(* its unlock or to the next wait.  A thread that waits is asleep until a  *)
(* signal, a broadcast or (SpuriousChans) nothing at all wakes it, and has *)
(* to get m_mu again before it goes on.                                    *)
(***************************************************************************)
EXTENDS Queue, FiniteSets, SequencesExt

CONSTANTS Threads,        \* the callers
          Chans,          \* the channels
          Capacity,       \* of each channel; 0 means unbuffered
          Selectors,      \* the threads that use chan_select, and
          Selects,        \* the sets of operations they pass to it
          SpuriousChans,  \* channels on which pthread_cond_wait may return unsignalled
          MaxSends,       \* bounds: values sent in all,
          MaxRecvs,       \*         receives started in all,
          MaxSelects,     \*         selects started in all,
          MaxSpurious     \*         unsignalled wake-ups

ASSUME ChanAssumption ==
    /\ IsFiniteSet(Threads) /\ Null \notin Threads
    /\ Capacity \in [Chans -> Nat]
    /\ Selectors \subseteq Threads
    /\ Selects \subseteq SUBSET [recv : BOOLEAN, chan : Chans]
    /\ SpuriousChans \subseteq Chans
    /\ MaxSends \in Nat /\ MaxRecvs \in Nat /\ MaxSelects \in Nat /\ MaxSpurious \in Nat
    /\ Null \notin 1..MaxSends

VARIABLES closed, r_waiting, w_waiting, \* of each channel, as in chan_t
          queue,      \* its circular buffer (buffered channels)
          data,       \* its slot (unbuffered channels)
          r_mu, w_mu, \* the thread in unbuffered_chan_recv / _send, or Null
          pc,         \* where each thread is: [at, chan, val, todo, cands]
          result,     \* what the send of each value returned: "none", "ok", "error"
          received,   \* history: the values each channel delivered, in order
          early,      \* history: the values of each unbuffered channel whose sender's
                      \* wait returned unsignalled
          used        \* history: calls made so far, for the bounds

control == <<pc, result, early, used>>
buffer == <<queue, received>>
slot == <<data, r_mu, w_mu>>
waiters == <<r_waiting, w_waiting>>
vars == <<closed, waiters, buffer, slot, control>>

Values == 1..MaxSends
chan_is_buffered(c) == Capacity[c] > 0

\* The operations chan_select may try.
Ops == [recv : BOOLEAN, chan : Chans]

Idle == [at |-> "idle", chan |-> Null, val |-> Null, todo |-> {}, cands |-> {}]
At(t, place) == pc[t].at = place
Going(place, c, v) == [Idle EXCEPT !.at = place, !.chan = c, !.val = v]

\* chan_init: a channel is open and empty, nobody waits.
Init ==
    /\ closed = [c \in Chans |-> FALSE]
    /\ r_waiting = [c \in Chans |-> 0]
    /\ w_waiting = [c \in Chans |-> 0]
    /\ queue = [c \in Chans |-> queue_init(Capacity[c])]
    /\ data = [c \in Chans |-> Null]
    /\ r_mu = [c \in Chans |-> Null]
    /\ w_mu = [c \in Chans |-> Null]
    /\ pc = [t \in Threads |-> Idle]
    /\ result = [v \in Values |-> "none"]
    /\ received = [c \in Chans |-> <<>>]
    /\ early = [c \in Chans |-> {}]
    /\ used = [sends |-> 0, recvs |-> 0, selects |-> 0, spurious |-> 0]
-----------------------------------------------------------------------------
\* Condition variables: who sleeps on r_cond ("read") or w_cond ("write") of c,
\* and the control states after a signal or a broadcast.
Asleep(p, side, c) == {t \in Threads : p[t].at = side /\ p[t].chan = c}
Woken(side) == IF side = "read" THEN "read_again" ELSE "write_again"

pthread_cond_signal(p, side, c) ==
    IF Asleep(p, side, c) = {} THEN {p}
    ELSE {[p EXCEPT ![t].at = Woken(side)] : t \in Asleep(p, side, c)}

pthread_cond_broadcast(p, c) ==
    [t \in Threads |->
        IF t \in Asleep(p, "read", c) \cup Asleep(p, "write", c)
        THEN [p[t] EXCEPT !.at = Woken(p[t].at)] ELSE p[t]]

\* The sleeping threads are signalled only if the counter says there are any.
SignalIf(counter, p, side, c) ==
    IF counter > 0 THEN pthread_cond_signal(p, side, c) ELSE {p}

\* A wait that returns though nobody signalled.
SpuriousWake(t) ==
    /\ pc[t].at \in {"read", "write"} /\ pc[t].chan \in SpuriousChans
    /\ used.spurious < MaxSpurious
    /\ pc' = [pc EXCEPT ![t].at = Woken(pc[t].at)]
    /\ early' = IF At(t, "write") /\ ~chan_is_buffered(pc[t].chan)
                THEN [early EXCEPT ![pc[t].chan] = @ \cup {pc[t].val}] ELSE early
    /\ used' = [used EXCEPT !.spurious = @ + 1]
    /\ UNCHANGED <<closed, waiters, buffer, slot, result>>
-----------------------------------------------------------------------------
\* A receive, by chan_recv.
RecvCall(t, c) ==
    /\ At(t, "idle") /\ used.recvs < MaxRecvs
    /\ pc' = [pc EXCEPT ![t] = Going("recv", c, Null)]
    /\ used' = [used EXCEPT !.recvs = @ + 1]
    /\ UNCHANGED <<closed, waiters, buffer, slot, result, early>>

\* Mutation: the readers are signalled, not broadcast to.
chan_close_SignalsOne(t, c) ==
    /\ At(t, "idle") /\ ~closed[c]
    /\ closed' = [closed EXCEPT ![c] = TRUE]
    /\ pc' \in pthread_cond_signal(pc, "read", c)
    /\ UNCHANGED <<waiters, buffer, slot, result, used, early>>

\* chan_close; a channel that is closed already is left as it is.
chan_close(t, c) ==
    /\ At(t, "idle") /\ ~closed[c]
    /\ closed' = [closed EXCEPT ![c] = TRUE]
    /\ pc' = pthread_cond_broadcast(pc, c)
    /\ UNCHANGED <<waiters, buffer, slot, result, used, early>>

\* The send of thread t returns 0 ("ok") or -1 ("error").
Returns(t, status) == result' = [result EXCEPT ![pc[t].val] = status]

\* chan_send of a fresh value: chan_is_closed takes and releases m_mu before the
\* send proper.
chan_send(t, c) == LET v == used.sends + 1 IN
    /\ used.sends < MaxSends
    /\ used' = [used EXCEPT !.sends = v]
    /\ \/ /\ closed[c]
          /\ result' = [result EXCEPT ![v] = "error"]
          /\ pc' = [pc EXCEPT ![t] = Idle]
       \/ /\ ~closed[c]
          /\ pc' = [pc EXCEPT ![t] = Going("put", c, v)]
          /\ UNCHANGED result
    /\ UNCHANGED <<closed, waiters, buffer, slot, early>>

SendCall(t, c) == At(t, "idle") /\ chan_send(t, c)
-----------------------------------------------------------------------------
\* buffered_chan_send, from its lock or from the return of its wait.
InBufferedSend(t) == pc[t].at \in {"put", "write_again"} /\ chan_is_buffered(pc[t].chan)
WritersNow(t, c) == w_waiting[c] - (IF At(t, "write_again") THEN 1 ELSE 0)

BufferedSendWaits(t) == LET c == pc[t].chan IN
    /\ InBufferedSend(t) /\ queue[c].size = queue[c].capacity
    /\ w_waiting' = [w_waiting EXCEPT ![c] = WritersNow(t, c) + 1]
    /\ pc' = [pc EXCEPT ![t].at = "write"]
    /\ UNCHANGED <<closed, r_waiting, buffer, slot, result, used, early>>

\* Mutation: readers are signalled only when the queue was empty.
BufferedSendAdds_SignalsFirst(t) == LET c == pc[t].chan IN
    /\ InBufferedSend(t) /\ queue[c].size # queue[c].capacity
    /\ w_waiting' = [w_waiting EXCEPT ![c] = WritersNow(t, c)]
    /\ queue' = [queue EXCEPT ![c] = queue_add(@, pc[t].val)]
    /\ Returns(t, "ok")
    /\ pc' \in SignalIf(IF queue[c].size = 0 THEN r_waiting[c] ELSE 0,
                       [pc EXCEPT ![t] = Idle], "read", c)
    /\ UNCHANGED <<closed, r_waiting, received, slot, used, early>>

BufferedSendAdds(t) == LET c == pc[t].chan IN
    /\ InBufferedSend(t) /\ queue[c].size # queue[c].capacity
    /\ w_waiting' = [w_waiting EXCEPT ![c] = WritersNow(t, c)]
    /\ queue' = [queue EXCEPT ![c] = queue_add(@, pc[t].val)]
    /\ Returns(t, "ok")
    /\ pc' \in SignalIf(r_waiting[c], [pc EXCEPT ![t] = Idle], "read", c)
    /\ UNCHANGED <<closed, r_waiting, received, slot, used, early>>

\* buffered_chan_recv, likewise.
InBufferedRecv(t) == pc[t].at \in {"recv", "read_again"} /\ chan_is_buffered(pc[t].chan)
ReadersNow_Kept(t, c) == r_waiting[c]   \* mutation: the counter only grows
ReadersNow(t, c) == r_waiting[c] - (IF At(t, "read_again") THEN 1 ELSE 0)

BufferedRecvFails(t) == LET c == pc[t].chan IN
    /\ InBufferedRecv(t) /\ queue[c].size = 0 /\ closed[c]
    /\ r_waiting' = [r_waiting EXCEPT ![c] = ReadersNow(t, c)]
    /\ pc' = [pc EXCEPT ![t] = Idle]
    /\ UNCHANGED <<closed, w_waiting, buffer, slot, result, used, early>>

BufferedRecvWaits(t) == LET c == pc[t].chan IN
    /\ InBufferedRecv(t) /\ queue[c].size = 0 /\ ~closed[c]
    /\ r_waiting' = [r_waiting EXCEPT ![c] = ReadersNow(t, c) + 1]
    /\ pc' = [pc EXCEPT ![t].at = "read"]
    /\ UNCHANGED <<closed, w_waiting, buffer, slot, result, used, early>>

BufferedRecvTakes(t) == LET c == pc[t].chan IN
    /\ InBufferedRecv(t) /\ queue[c].size > 0
    /\ r_waiting' = [r_waiting EXCEPT ![c] = ReadersNow(t, c)]
    /\ received' = [received EXCEPT ![c] = Append(@, queue_peek(queue[c]))]
    /\ queue' = [queue EXCEPT ![c] = queue_remove(@)]
    /\ pc' \in SignalIf(w_waiting[c], [pc EXCEPT ![t] = Idle], "write", c)
    /\ UNCHANGED <<closed, w_waiting, slot, result, used, early>>
-----------------------------------------------------------------------------
\* unbuffered_chan_send: w_mu, then m_mu; w_mu is kept while the thread waits.
UnbufferedSendFails(t) == LET c == pc[t].chan IN
    /\ At(t, "put") /\ ~chan_is_buffered(c) /\ w_mu[c] = Null
    /\ closed[c]
    /\ Returns(t, "error")
    /\ pc' = [pc EXCEPT ![t] = Idle]
    /\ UNCHANGED <<closed, waiters, buffer, slot, used, early>>

\* Mutation: w_mu is not taken.
UnbufferedSendOffers_NoWmu(t) == LET c == pc[t].chan IN
    /\ At(t, "put") /\ ~chan_is_buffered(c) /\ ~closed[c]
    /\ data' = [data EXCEPT ![c] = pc[t].val]
    /\ w_waiting' = [w_waiting EXCEPT ![c] = @ + 1]
    /\ pc' \in SignalIf(r_waiting[c], [pc EXCEPT ![t].at = "write"], "read", c)
    /\ UNCHANGED <<closed, r_waiting, buffer, r_mu, w_mu, result, used, early>>

UnbufferedSendOffers(t) == LET c == pc[t].chan IN
    /\ At(t, "put") /\ ~chan_is_buffered(c) /\ w_mu[c] = Null
    /\ ~closed[c]
    /\ w_mu' = [w_mu EXCEPT ![c] = t]
    /\ data' = [data EXCEPT ![c] = pc[t].val]
    /\ w_waiting' = [w_waiting EXCEPT ![c] = @ + 1]
    /\ pc' \in SignalIf(r_waiting[c], [pc EXCEPT ![t].at = "write"], "read", c)
    /\ UNCHANGED <<closed, r_waiting, buffer, r_mu, result, used, early>>

\* The single wait is over, whatever ended it.
UnbufferedSendReturns(t) == LET c == pc[t].chan IN
    /\ At(t, "write_again") /\ ~chan_is_buffered(c)
    /\ w_mu' = [w_mu EXCEPT ![c] = Null]
    /\ Returns(t, "ok")
    /\ pc' = [pc EXCEPT ![t] = Idle]
    /\ UNCHANGED <<closed, waiters, buffer, data, r_mu, used, early>>

\* unbuffered_chan_recv: r_mu, then m_mu; r_mu is kept while the thread waits.
InUnbufferedRecv(t) == LET c == pc[t].chan IN
    /\ ~chan_is_buffered(c)
    /\ (At(t, "recv") /\ r_mu[c] = Null) \/ At(t, "read_again")

UnbufferedRecvWaits(t) == LET c == pc[t].chan IN
    /\ pc[t].at \in {"recv", "read_again"} /\ InUnbufferedRecv(t)
    /\ ~closed[c] /\ w_waiting[c] = 0
    /\ r_mu' = [r_mu EXCEPT ![c] = t]
    /\ r_waiting' = [r_waiting EXCEPT ![c] = ReadersNow(t, c) + 1]
    /\ pc' = [pc EXCEPT ![t].at = "read"]
    /\ UNCHANGED <<closed, w_waiting, buffer, data, w_mu, result, used, early>>

UnbufferedRecvFails(t) == LET c == pc[t].chan IN
    /\ pc[t].at \in {"recv", "read_again"} /\ InUnbufferedRecv(t)
    /\ closed[c]
    /\ r_mu' = [r_mu EXCEPT ![c] = Null]
    /\ r_waiting' = [r_waiting EXCEPT ![c] = ReadersNow(t, c)]
    /\ pc' = [pc EXCEPT ![t] = Idle]
    /\ UNCHANGED <<closed, w_waiting, buffer, data, w_mu, result, used, early>>

\* Mutation: w_waiting is not counted down.
UnbufferedRecvTakes_StillWaiting(t) == LET c == pc[t].chan IN
    /\ pc[t].at \in {"recv", "read_again"} /\ InUnbufferedRecv(t)
    /\ ~closed[c] /\ w_waiting[c] # 0
    /\ r_mu' = [r_mu EXCEPT ![c] = Null]
    /\ r_waiting' = [r_waiting EXCEPT ![c] = ReadersNow(t, c)]
    /\ received' = [received EXCEPT ![c] = Append(@, data[c])]
    /\ pc' \in pthread_cond_signal([pc EXCEPT ![t] = Idle], "write", c)
    /\ UNCHANGED <<closed, w_waiting, queue, data, w_mu, result, used, early>>

UnbufferedRecvTakes(t) == LET c == pc[t].chan IN
    /\ pc[t].at \in {"recv", "read_again"} /\ InUnbufferedRecv(t)
    /\ ~closed[c] /\ w_waiting[c] # 0
    /\ r_mu' = [r_mu EXCEPT ![c] = Null]
    /\ r_waiting' = [r_waiting EXCEPT ![c] = ReadersNow(t, c)]
    /\ received' = [received EXCEPT ![c] = Append(@, data[c])]
    /\ w_waiting' = [w_waiting EXCEPT ![c] = @ - 1]
    /\ pc' \in pthread_cond_signal([pc EXCEPT ![t] = Idle], "write", c)
    /\ UNCHANGED <<closed, queue, data, w_mu, result, used, early>>
-----------------------------------------------------------------------------
\* chan_select looks at its channels one after the other, receives first ...
SelectCall(t, ops) ==
    /\ At(t, "idle") /\ used.selects < MaxSelects
    /\ pc' = [pc EXCEPT ![t] = [Idle EXCEPT !.at = "select", !.todo = ops]]
    /\ used' = [used EXCEPT !.selects = @ + 1]
    /\ UNCHANGED <<closed, waiters, buffer, slot, result, early>>

chan_can_recv(c) == IF chan_is_buffered(c) THEN queue[c].size > 0 ELSE w_waiting[c] > 0
chan_can_send(c) == IF chan_is_buffered(c) THEN queue[c].size < queue[c].capacity
                                           ELSE r_waiting[c] > 0

SelectLooks(t, op) ==
    /\ At(t, "select") /\ op \in pc[t].todo
    /\ op.recv \/ \A o \in pc[t].todo : ~o.recv
    /\ LET can == IF op.recv THEN chan_can_recv(op.chan) ELSE chan_can_send(op.chan)
       IN  pc' = [pc EXCEPT ![t].todo = @ \ {op},
                            ![t].cands = IF can THEN @ \cup {op} ELSE @]
    /\ UNCHANGED <<closed, waiters, buffer, slot, result, used, early>>

\* ... and then does one of the operations that were possible, or returns -1.
SelectNone(t) ==
    /\ At(t, "select") /\ pc[t].todo = {} /\ pc[t].cands = {}
    /\ pc' = [pc EXCEPT ![t] = Idle]
    /\ UNCHANGED <<closed, waiters, buffer, slot, result, used, early>>

SelectChooses(t, op) ==
    /\ At(t, "select") /\ pc[t].todo = {} /\ op \in pc[t].cands
    /\ \/ /\ op.recv
          /\ pc' = [pc EXCEPT ![t] = Going("recv", op.chan, Null)]
          /\ UNCHANGED <<closed, waiters, buffer, slot, result, used, early>>
       \/ ~op.recv /\ chan_send(t, op.chan)
-----------------------------------------------------------------------------
\* A thread outside its calls may begin one; inside, it goes on.
Begins(t) ==
    \/ \E c \in Chans : SendCall(t, c) \/ RecvCall(t, c) \/ chan_close(t, c)
    \/ t \in Selectors /\ \E ops \in Selects : SelectCall(t, ops)

Continues(t) ==
    \/ BufferedSendWaits(t)
    \/ BufferedSendAdds(t)
    \/ BufferedRecvFails(t)
    \/ BufferedRecvWaits(t)
    \/ BufferedRecvTakes(t)
    \/ UnbufferedSendFails(t)
    \/ UnbufferedSendOffers(t)
    \/ UnbufferedSendReturns(t)
    \/ UnbufferedRecvWaits(t)
    \/ UnbufferedRecvFails(t)
    \/ UnbufferedRecvTakes(t)
    \/ SelectNone(t)
    \/ \E op \in Ops : SelectLooks(t, op) \/ SelectChooses(t, op)

Next == \E t \in Threads : Begins(t) \/ Continues(t) \/ SpuriousWake(t)

Spec == Init /\ [][Next]_vars

\* A thread that can go on does: the scheduler is fair to every thread.
FairSpec == Spec /\ \A t \in Threads : WF_vars(Continues(t))
-----------------------------------------------------------------------------
Buffered == {c \in Chans : chan_is_buffered(c)}
Places == {"idle", "put", "write", "write_again",
           "recv", "read", "read_again", "select"}
ThreadsAt(places, c) == {t \in Threads : pc[t].at \in places /\ pc[t].chan = c}
Received == UNION {ToSet(received[c]) : c \in Chans}

\* unbuffered_chan_send waits once, without a loop: a wait that returns unsignalled
\* leaves its channel with a sender counted in w_waiting that is not there.
Torn == {c \in Chans \ Buffered : early[c] # {}}

(* The fields of chan_t, of its queue and the control states of the threads
   stay in their ranges: the queue is never over its capacity and its index
   stays inside the buffer. *)
TypeOK ==
    /\ closed \in [Chans -> BOOLEAN]
    /\ \A c \in Chans :
          /\ r_waiting[c] \in 0..Cardinality(Threads) /\ w_waiting[c] \in Nat
          /\ c \notin Torn => w_waiting[c] <= Cardinality(Threads)
          /\ data[c] \in Values \cup {Null}
          /\ r_mu[c] \in Threads \cup {Null} /\ w_mu[c] \in Threads \cup {Null}
          /\ queue[c].size \in 0..Capacity[c]
          /\ c \in Buffered => queue[c].next \in 0..(Capacity[c] - 1)
    /\ \A t \in Threads : pc[t].at \in Places
    /\ \A v \in Values : result[v] \in {"none", "ok", "error"}

(* The counters that decide whether chan_send and chan_recv signal are exact:
   r_waiting and (buffered) w_waiting count the threads between the ++ before
   pthread_cond_wait and the -- after it, woken ones included, whatever wakes
   them. *)
WaitersCounted ==
    \A c \in Chans :
        /\ r_waiting[c] = Cardinality(ThreadsAt({"read", "read_again"}, c))
        /\ c \in Buffered =>
              w_waiting[c] = Cardinality(ThreadsAt({"write", "write_again"}, c))

(* No wake-up is lost though each operation sends a single signal and only if a
   counter says so: while a reader sleeps on a buffered channel every item has
   a woken reader on its way to it, and likewise writers and free slots; nobody
   sleeps in chan_recv on a closed channel; a reader of an unbuffered channel
   never sleeps beside a value that is offered. *)
NoLostWakeup ==
    \A c \in Chans :
        /\ ThreadsAt({"read"}, c) # {} =>
              /\ ~closed[c]
              /\ IF c \in Buffered
                 THEN queue[c].size <= Cardinality(ThreadsAt({"read_again"}, c))
                 ELSE w_waiting[c] = 0
        /\ (c \in Buffered /\ ThreadsAt({"write"}, c) # {}) =>
              Capacity[c] - queue[c].size <= Cardinality(ThreadsAt({"write_again"}, c))

(* A buffered channel is a bounded first-in first-out queue, also while
   several readers and writers sleep and wake in any order, by signals or
   without, and across chan_close: the refinement maps the circular buffer to
   the sequence of its items. *)
Fifo == INSTANCE BoundedFifo WITH Names <- Buffered, Bound <- Capacity,
                                  waiting <- [c \in Buffered |-> Contents(queue[c])],
                                  delivered <- [c \in Buffered |-> received[c]]
ImplementsFifo == Fifo!Spec

(* A value has one owner, as the frees in chan_send_int32 (after -1) and in
   chan_recv_int32 and their like need it: it is received at most once, and never if its send returned -1; an
   unbuffered channel keeps this until a sender's wait returns unsignalled. *)
OneOwner ==
    /\ \A c \in Chans \ Torn :
          /\ IsInjective(received[c])
          /\ \A v \in ToSet(received[c]) : result[v] # "error"
    /\ \A c, d \in Chans \ Torn :
          c # d => ToSet(received[c]) \cap ToSet(received[d]) = {}

(* A value whose send returned 0 was received or waits in a buffer, but for two
   that unbuffered_chan_send gives up: one whose own wait returned unsignalled, and
   the one in the slot of a channel that was closed.  Every other sender of the same
   channel still returns only after the hand-off. *)
NothingLost ==
    \A v \in Values : result[v] = "ok" =>
        \/ v \in Received
        \/ \E c \in Buffered : v \in ToSet(Contents(queue[c]))
        \/ \E c \in Chans \ Buffered : v \in early[c] \/ (closed[c] /\ data[c] = v)

(* chan_close releases every reader: the finitely many calls of chan_recv that
   meet a closed channel, before or after the close, all return. *)
CloseReleasesReaders ==
    <>[](\A c \in Chans :
            closed[c] => ThreadsAt({"recv", "read", "read_again"}, c) = {})
=============================================================================
