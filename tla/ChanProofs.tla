----------------------------- MODULE ChanProofs -----------------------------
(***************************************************************************)
(* Proofs of the safety properties of Chan and of its refinement of        *)
(* BoundedFifo, for any threads, channels, capacities and numbers of calls.*)
(***************************************************************************)
EXTENDS Chan, QueueProofs, FiniteSetTheorems

\* The control states: inside a call a thread knows its channel, inside a send
\* its value too.
Controls == [at : Places, chan : Chans \cup {Null}, val : Values \cup {Null},
             todo : SUBSET Ops, cands : SUBSET Ops]
Sending == {"put", "write", "write_again"}
Receiving == {"recv", "read", "read_again"}

PcInv ==
    /\ pc \in [Threads -> Controls]
    /\ \A t \in Threads :
          /\ pc[t].at \in Sending => pc[t].chan \in Chans /\ pc[t].val \in Values
          /\ pc[t].at \in Receiving => pc[t].chan \in Chans

Calls == [sends : Nat, recvs : Nat, selects : Nat, spurious : Nat]

Shape ==
    /\ closed \in [Chans -> BOOLEAN]
    /\ r_waiting \in [Chans -> Nat] /\ w_waiting \in [Chans -> Nat]
    /\ data \in [Chans -> Values \cup {Null}]
    /\ r_mu \in [Chans -> Threads \cup {Null}] /\ w_mu \in [Chans -> Threads \cup {Null}]
    /\ result \in [Values -> {"none", "ok", "error"}]
    /\ received \in [Chans -> Seq(Values)]
    /\ early \in [Chans -> SUBSET Values]
    /\ used \in Calls
    /\ used.sends <= MaxSends

\* A buffered channel has a queue of its capacity that holds values; an offered
\* value of an unbuffered channel is one.
QueueInv ==
    /\ queue = [c \in Chans |-> queue[c]]
    /\ \A c \in Buffered :
          /\ IsQueue(queue[c], Values \cup {Null})
          /\ queue[c].capacity = Capacity[c]
          /\ Contents(queue[c]) \in Seq(Values)
    /\ \A c \in Chans \ Buffered :
          /\ queue[c] = queue_init(Capacity[c])
          /\ w_waiting[c] # 0 => data[c] \in Values

\* r_mu and w_mu are held by the one thread that is inside.
MutexInv ==
    \A c \in Chans \ Buffered : \A t \in Threads :
        /\ r_mu[c] = t <=> t \in ThreadsAt({"read", "read_again"}, c)
        /\ w_mu[c] = t <=> t \in ThreadsAt({"write", "write_again"}, c)

\* unbuffered_chan_send waits once, without a loop: what holds of its hand-off
\* holds until the wait of a sender returns unsignalled.
Reliable == Chans \ Torn

HandOffInv ==
    \A c \in Reliable \ Buffered :
        /\ w_waiting[c] <= 1 /\ w_waiting[c] <= Cardinality(Threads)
        /\ ~closed[c] /\ w_waiting[c] # 0 => ThreadsAt({"write"}, c) # {}
        /\ \A t \in ThreadsAt({"write"}, c) :
               w_waiting[c] = 1 /\ data[c] = pc[t].val /\ ~closed[c]
        /\ \A t \in ThreadsAt({"write_again"}, c) :
               closed[c] \/ (w_waiting[c] = 0 /\ pc[t].val \in ToSet(received[c]))

\* What a sender that sleeps offers is in the slot; one that was woken knows that
\* its value was taken, or has been woken unsignalled or by chan_close.  This holds
\* of every unbuffered channel.
Handed(v, c) ==
    v \in ToSet(received[c]) \/ v \in early[c] \/ (closed[c] /\ data[c] = v)

SlotInv ==
    \A c \in Chans \ Buffered : \A t \in Threads :
        /\ pc[t].at = "write" /\ pc[t].chan = c => data[c] = pc[t].val
        /\ pc[t].at = "write_again" /\ pc[t].chan = c => Handed(pc[t].val, c)

\* Everything that was ever put into a channel, in order: what was received and
\* what waits in the buffer.
Line(c) == received[c] \o (IF c \in Buffered THEN Contents(queue[c]) ELSE <<>>)
Entered == UNION {ToSet(Line(c)) : c \in Reliable}

\* A thread whose value has not been put into a channel yet.
Holds(t) ==
    \/ pc[t].at = "put"
    \/ pc[t].at = "write"
    \/ pc[t].at = "write_again" /\ pc[t].chan \in Buffered

ValueInv ==
    /\ \A t \in Threads : pc[t].at \in Sending =>
          /\ pc[t].val <= used.sends /\ result[pc[t].val] = "none"
          /\ \A x \in Threads : pc[x].at \in Sending /\ pc[x].val = pc[t].val => x = t
          /\ Holds(t) /\ pc[t].chan \in Reliable => pc[t].val \notin Entered
          /\ pc[t].at = "put" => pc[t].val \notin Entered
    /\ \A v \in Entered : v <= used.sends /\ result[v] # "error"
    /\ \A v \in Values : v > used.sends => result[v] = "none"

LineInv ==
    /\ \A c \in Reliable : IsInjective(Line(c))
    /\ \A c, d \in Reliable : c # d => ToSet(Line(c)) \cap ToSet(Line(d)) = {}

KeptInv ==
    \A v \in Values : result[v] = "ok" =>
        \/ \E c \in Buffered : v \in ToSet(Line(c))
        \/ \E c \in Chans \ Buffered : Handed(v, c)

ChanInv ==
    /\ PcInv /\ Shape /\ QueueInv /\ MutexInv
    /\ WaitersCounted /\ NoLostWakeup
    /\ HandOffInv /\ SlotInv /\ ValueInv /\ LineInv /\ KeptInv
-----------------------------------------------------------------------------
(* Control states and condition variables.                                 *)

LEMMA ControlFacts ==
    ASSUME NEW r \in Controls
    PROVE  /\ r.at \in Places /\ r.chan \in Chans \cup {Null}
           /\ r.val \in Values \cup {Null}
           /\ \A a \in Places : /\ [r EXCEPT !.at = a] \in Controls
                                /\ [r EXCEPT !.at = a].at = a
                                /\ [r EXCEPT !.at = a].chan = r.chan
                                /\ [r EXCEPT !.at = a].val = r.val
  <1> HIDE DEF Places
  <1> QED
    BY DEF Controls

LEMMA IdleFacts ==
    Idle \in Controls /\ Idle.at = "idle"
  BY DEF Controls, Idle, Places

LEMMA GoingFacts ==
    ASSUME NEW place \in {"put", "recv"}, NEW c \in Chans, NEW v \in Values \cup {Null}
    PROVE  /\ Going(place, c, v) \in Controls /\ Going(place, c, v).at = place
           /\ Going(place, c, v).chan = c /\ Going(place, c, v).val = v
  BY DEF Controls, Idle, Going, Places

\* The threads other than t: those of W, asleep on the condition, are woken.
Woke(t, side, c, W) ==
    /\ W \subseteq ThreadsAt({side}, c) \ {t}
    /\ \A x \in Threads \ {t} :
          /\ pc'[x].chan = pc[x].chan /\ pc'[x].val = pc[x].val
          /\ pc'[x].at = IF x \in W THEN Woken(side) ELSE pc[x].at

\* pthread_cond_signal wakes one of those asleep, if there are any.
WokeOne(t, side, c) ==
    \/ ThreadsAt({side}, c) \ {t} = {} /\ Woke(t, side, c, {})
    \/ \E x \in ThreadsAt({side}, c) \ {t} : Woke(t, side, c, {x})

\* t moves, nobody wakes.
LEMMA MoveAlone ==
    ASSUME PcInv, NEW t \in Threads, NEW r \in Controls, pc' = [pc EXCEPT ![t] = r],
           NEW side, NEW c
    PROVE  pc' \in [Threads -> Controls] /\ pc'[t] = r /\ Woke(t, side, c, {})
  BY DEF PcInv, Woke

\* t moves and signals: p is the control state between the two.
LEMMA MoveAndSignal ==
    ASSUME PcInv, NEW t \in Threads, NEW r \in Controls, NEW side \in {"read", "write"},
           NEW c \in Chans, r.at # side,
           pc' \in pthread_cond_signal([pc EXCEPT ![t] = r], side, c)
    PROVE  pc' \in [Threads -> Controls] /\ pc'[t] = r /\ WokeOne(t, side, c)
  <1> DEFINE p == [pc EXCEPT ![t] = r]
  <1>1. /\ p \in [Threads -> Controls] /\ p[t] = r
        /\ \A x \in Threads \ {t} : p[x] = pc[x]
    BY DEF PcInv
  <1>2. Asleep(p, side, c) = ThreadsAt({side}, c) \ {t}
    BY <1>1 DEF Asleep, ThreadsAt
  <1> HIDE DEF p
  <1>3. CASE Asleep(p, side, c) = {}
    <2>1. pc' = p
      BY <1>3 DEF pthread_cond_signal, p
    <2> QED
      BY <1>1, <1>2, <1>3, <2>1 DEF WokeOne, Woke
  <1>4. CASE Asleep(p, side, c) # {}
    <2>1. PICK x \in Asleep(p, side, c) : pc' = [p EXCEPT ![x].at = Woken(side)]
      BY <1>4 DEF pthread_cond_signal, p
    <2>2. x \in Threads /\ x # t /\ x \in ThreadsAt({side}, c) \ {t}
      BY <1>2 DEF ThreadsAt
    <2>3. Woken(side) \in Places
      BY DEF Woken, Places
    <2>4. pc' = [p EXCEPT ![x] = [p[x] EXCEPT !.at = Woken(side)]]
      BY <1>1, <2>1, <2>2
    <2>5. /\ [p[x] EXCEPT !.at = Woken(side)] \in Controls
          /\ [p[x] EXCEPT !.at = Woken(side)].at = Woken(side)
          /\ [p[x] EXCEPT !.at = Woken(side)].chan = pc[x].chan
          /\ [p[x] EXCEPT !.at = Woken(side)].val = pc[x].val
      BY <1>1, <2>2, <2>3, ControlFacts
    <2>6. /\ pc' \in [Threads -> Controls] /\ pc'[t] = r
          /\ pc'[x] = [p[x] EXCEPT !.at = Woken(side)]
          /\ \A y \in Threads \ {t, x} : pc'[y] = pc[y]
      BY <1>1, <2>2, <2>4, <2>5
    <2>7. Woke(t, side, c, {x})
      BY <2>2, <2>5, <2>6 DEF Woke
    <2> QED
      BY <2>2, <2>6, <2>7 DEF WokeOne
  <1> QED
    BY <1>3, <1>4

\* SignalIf does as pthread_cond_signal when its counter is not 0, and otherwise
\* nobody is asleep.
LEMMA MoveAndSignalIf ==
    ASSUME PcInv, NEW t \in Threads, NEW r \in Controls, NEW side \in {"read", "write"},
           NEW c \in Chans, r.at # side, NEW counter \in Nat,
           counter = 0 => ThreadsAt({side}, c) = {},
           pc' \in SignalIf(counter, [pc EXCEPT ![t] = r], side, c)
    PROVE  pc' \in [Threads -> Controls] /\ pc'[t] = r /\ WokeOne(t, side, c)
  <1>1. CASE counter = 0
    BY <1>1, MoveAlone DEF SignalIf, WokeOne
  <1>2. CASE counter # 0
    BY <1>2, MoveAndSignal DEF SignalIf
  <1> QED
    BY <1>1, <1>2

\* Numbers of threads.
LEMMA SetFacts ==
    ASSUME NEW S \in SUBSET Threads, NEW t \in Threads
    PROVE  /\ Cardinality(S) \in Nat /\ Cardinality(S) <= Cardinality(Threads)
           /\ Cardinality(Threads) \in Nat
           /\ (Cardinality(S) = 0) => (S = {})
           /\ (S = {}) => (Cardinality(S) = 0)
           /\ (t \in S) => (Cardinality(S \ {t}) = Cardinality(S) - 1)
           /\ (t \notin S) => (Cardinality(S \ {t}) = Cardinality(S))
           /\ Cardinality(S \cup {t}) = Cardinality(S \ {t}) + 1
  <1>1. IsFiniteSet(Threads) /\ IsFiniteSet(S) /\ Cardinality(S) <= Cardinality(Threads)
    BY ChanAssumption, FS_Subset
  <1>2. Cardinality(S) \in Nat /\ Cardinality(Threads) \in Nat
    BY <1>1, FS_CardinalityType
  <1>3. ((Cardinality(S) = 0) => (S = {})) /\ ((S = {}) => (Cardinality(S) = 0))
    BY <1>1, FS_EmptySet
  <1>4. /\ IsFiniteSet(S \ {t})
        /\ (t \in S) => (Cardinality(S \ {t}) = Cardinality(S) - 1)
        /\ (t \notin S) => (Cardinality(S \ {t}) = Cardinality(S))
    BY <1>1, FS_RemoveElement
  <1>5. Cardinality((S \ {t}) \cup {t}) = Cardinality(S \ {t}) + 1
    BY <1>4, FS_AddElement
  <1>6. (S \ {t}) \cup {t} = S \cup {t}
    OBVIOUS
  <1> QED
    BY <1>1, <1>2, <1>3, <1>4, <1>5, <1>6

Readers(c) == ThreadsAt({"read", "read_again"}, c)
Writers(c) == ThreadsAt({"write", "write_again"}, c)

\* A counter that is 0 means that nobody is asleep.
LEMMA CountersExact ==
    ASSUME WaitersCounted, NEW c \in Chans, NEW t \in Threads
    PROVE  /\ r_waiting[c] \in Nat
           /\ r_waiting[c] = 0 => ThreadsAt({"read"}, c) = {}
           /\ pc[t].at \in {"recv", "read_again"} /\ pc[t].chan = c =>
                 ReadersNow(t, c) = Cardinality(Readers(c) \ {t})
           /\ c \in Buffered =>
                 /\ w_waiting[c] \in Nat
                 /\ w_waiting[c] = 0 => ThreadsAt({"write"}, c) = {}
                 /\ pc[t].at \in {"put", "write_again"} /\ pc[t].chan = c =>
                       WritersNow(t, c) = Cardinality(Writers(c) \ {t})
  <1>1. Readers(c) \in SUBSET Threads /\ Writers(c) \in SUBSET Threads
    BY DEF Readers, Writers, ThreadsAt
  <1>2. /\ ThreadsAt({"read"}, c) \subseteq Readers(c)
        /\ ThreadsAt({"write"}, c) \subseteq Writers(c)
    BY DEF Readers, Writers, ThreadsAt
  <1>3. /\ r_waiting[c] = Cardinality(Readers(c))
        /\ c \in Buffered => w_waiting[c] = Cardinality(Writers(c))
    BY DEF WaitersCounted, Readers, Writers
  <1>4. /\ pc[t].chan = c => (pc[t].at = "read_again" => t \in Readers(c))
        /\ pc[t].at = "recv" => t \notin Readers(c)
        /\ pc[t].chan = c => (pc[t].at = "write_again" => t \in Writers(c))
        /\ pc[t].at = "put" => t \notin Writers(c)
    BY DEF Readers, Writers, ThreadsAt
  <1>5. pc[t].at \in {"recv", "read_again"} /\ pc[t].chan = c =>
            ReadersNow(t, c) = Cardinality(Readers(c) \ {t})
    <2>1. ASSUME pc[t].at = "read_again", pc[t].chan = c
          PROVE  ReadersNow(t, c) = Cardinality(Readers(c) \ {t})
      <3>1. ReadersNow(t, c) = r_waiting[c] - 1
        BY <2>1 DEF ReadersNow, At
      <3> QED
        BY <1>1, <1>3, <1>4, <2>1, <3>1, SetFacts
    <2>2. ASSUME pc[t].at = "recv" PROVE ReadersNow(t, c) = Cardinality(Readers(c) \ {t})
      <3>1. ReadersNow(t, c) = r_waiting[c] - 0
        BY <2>2 DEF ReadersNow, At
      <3>2. Readers(c) \ {t} = Readers(c) /\ r_waiting[c] \in Nat
        BY <1>1, <1>3, <1>4, <2>2, SetFacts
      <3> QED
        BY <1>3, <3>1, <3>2
    <2> QED
      BY <2>1, <2>2
  <1>6. c \in Buffered /\ pc[t].at \in {"put", "write_again"} /\ pc[t].chan = c =>
            WritersNow(t, c) = Cardinality(Writers(c) \ {t})
    <2> SUFFICES ASSUME c \in Buffered
                 PROVE  pc[t].at \in {"put", "write_again"} /\ pc[t].chan = c =>
                            WritersNow(t, c) = Cardinality(Writers(c) \ {t})
      OBVIOUS
    <2>1. ASSUME pc[t].at = "write_again", pc[t].chan = c
          PROVE  WritersNow(t, c) = Cardinality(Writers(c) \ {t})
      <3>1. WritersNow(t, c) = w_waiting[c] - 1
        BY <2>1 DEF WritersNow, At
      <3> QED
        BY <1>1, <1>3, <1>4, <2>1, <3>1, SetFacts
    <2>2. ASSUME pc[t].at = "put" PROVE WritersNow(t, c) = Cardinality(Writers(c) \ {t})
      <3>1. WritersNow(t, c) = w_waiting[c] - 0
        BY <2>2 DEF WritersNow, At
      <3>2. Writers(c) \ {t} = Writers(c) /\ w_waiting[c] \in Nat
        BY <1>1, <1>3, <1>4, <2>2, SetFacts
      <3>3. WritersNow(t, c) = w_waiting[c] /\ w_waiting[c] = Cardinality(Writers(c))
        BY <1>3, <3>1, <3>2
      <3> QED
        BY <3>2, <3>3
    <2> QED
      BY <2>1, <2>2
  <1>7. r_waiting[c] \in Nat /\ (r_waiting[c] = 0 => ThreadsAt({"read"}, c) = {})
    BY <1>1, <1>2, <1>3, SetFacts
  <1>8. c \in Buffered => /\ w_waiting[c] \in Nat
                          /\ w_waiting[c] = 0 => ThreadsAt({"write"}, c) = {}
    BY <1>1, <1>2, <1>3, SetFacts
  <1> QED
    BY <1>5, <1>6, <1>7, <1>8
-----------------------------------------------------------------------------
(* What each section does to the control states.                           *)

Ends(t) == pc'[t] = Idle
Sleeps(t, side) == pc'[t] = [pc[t] EXCEPT !.at = side]
Alone(t) == Woke(t, "read", pc[t].chan, {})

\* A section of m_mu: the thread is inside a send or a receive on a channel.
SectionOf(t, c, from, to) ==
    /\ c \in Chans /\ pc[t].chan = c /\ pc[t].at \in from
    /\ pc' \in [Threads -> Controls]
    /\ to

LEMMA SleepFacts ==
    ASSUME PcInv, NEW t \in Threads, NEW side \in {"read", "write"}
    PROVE  /\ [pc[t] EXCEPT !.at = side] \in Controls
           /\ [pc[t] EXCEPT !.at = side].at = side
           /\ [pc EXCEPT ![t].at = side] = [pc EXCEPT ![t] = [pc[t] EXCEPT !.at = side]]
  <1>1. pc[t] \in Controls /\ side \in Places
    BY DEF PcInv, Places
  <1> QED
    BY <1>1, ControlFacts DEF PcInv

LEMMA SendEffects ==
    ASSUME ChanInv, NEW t \in Threads, NEW c, c = pc[t].chan
    PROVE  /\ BufferedSendWaits(t) =>
                 /\ SectionOf(t, c, {"put", "write_again"}, Sleeps(t, "write") /\ Alone(t))
                 /\ c \in Buffered
           /\ BufferedSendAdds(t) =>
                 /\ SectionOf(t, c, {"put", "write_again"},
                              Ends(t) /\ WokeOne(t, "read", c))
                 /\ c \in Buffered
           /\ UnbufferedSendFails(t) =>
                 /\ SectionOf(t, c, {"put"}, Ends(t) /\ Alone(t))
                 /\ c \notin Buffered
           /\ UnbufferedSendOffers(t) =>
                 /\ SectionOf(t, c, {"put"}, Sleeps(t, "write") /\ WokeOne(t, "read", c))
                 /\ c \notin Buffered
           /\ UnbufferedSendReturns(t) =>
                 /\ SectionOf(t, c, {"write_again"}, Ends(t) /\ Alone(t))
                 /\ c \notin Buffered
  <1> USE DEF ChanInv, SectionOf
  <1>0. /\ pc[t].at \in Sending => c \in Chans
        /\ c \in Chans => (chan_is_buffered(c) <=> c \in Buffered)
    BY DEF PcInv, Buffered
  <1>1. ASSUME BufferedSendWaits(t)
        PROVE  /\ SectionOf(t, c, {"put", "write_again"}, Sleeps(t, "write") /\ Alone(t))
               /\ c \in Buffered
    <2>1. /\ pc[t].at \in {"put", "write_again"} /\ chan_is_buffered(c)
          /\ pc' = [pc EXCEPT ![t].at = "write"]
      BY <1>1 DEF BufferedSendWaits, InBufferedSend
    <2> QED
      BY <1>0, <2>1, SleepFacts, MoveAlone DEF Sleeps, Alone, Sending
  <1>2. ASSUME BufferedSendAdds(t)
        PROVE  /\ SectionOf(t, c, {"put", "write_again"},
                            Ends(t) /\ WokeOne(t, "read", c))
               /\ c \in Buffered
    <2>1. /\ pc[t].at \in {"put", "write_again"} /\ chan_is_buffered(c)
          /\ pc' \in SignalIf(r_waiting[c], [pc EXCEPT ![t] = Idle], "read", c)
      BY <1>2 DEF BufferedSendAdds, InBufferedSend
    <2>2. c \in Chans /\ c \in Buffered
      BY <1>0, <2>1 DEF Sending
    <2> QED
      <3>1. r_waiting[c] \in Nat /\ (r_waiting[c] = 0 => ThreadsAt({"read"}, c) = {})
        BY <2>2, CountersExact
      <3>2. Idle \in Controls /\ Idle.at # "read"
        BY IdleFacts
      <3>3. /\ pc' \in [Threads -> Controls] /\ pc'[t] = Idle
            /\ WokeOne(t, "read", c)
        BY <2>1, <2>2, <3>1, <3>2, MoveAndSignalIf
      <3> QED
        BY <2>1, <2>2, <3>3 DEF Ends
  <1>3. ASSUME UnbufferedSendFails(t)
        PROVE  SectionOf(t, c, {"put"}, Ends(t) /\ Alone(t)) /\ c \notin Buffered
    <2>1. pc[t].at = "put" /\ ~chan_is_buffered(c) /\ pc' = [pc EXCEPT ![t] = Idle]
      BY <1>3 DEF UnbufferedSendFails, At
    <2> QED
      BY <1>0, <2>1, IdleFacts, MoveAlone DEF Ends, Alone, Sending
  <1>4. ASSUME UnbufferedSendOffers(t)
        PROVE  /\ SectionOf(t, c, {"put"}, Sleeps(t, "write") /\ WokeOne(t, "read", c))
               /\ c \notin Buffered
    <2>1. /\ pc[t].at = "put" /\ ~chan_is_buffered(c)
          /\ pc' \in SignalIf(r_waiting[c], [pc EXCEPT ![t].at = "write"], "read", c)
      BY <1>4 DEF UnbufferedSendOffers, At
    <2>2. c \in Chans /\ c \notin Buffered
      BY <1>0, <2>1 DEF Sending
    <2>3. pc' \in SignalIf(r_waiting[c],
                           [pc EXCEPT ![t] = [pc[t] EXCEPT !.at = "write"]], "read", c)
      BY <2>1, SleepFacts
    <2> QED
      <3> DEFINE r == [pc[t] EXCEPT !.at = "write"]
      <3>1. r_waiting[c] \in Nat /\ (r_waiting[c] = 0 => ThreadsAt({"read"}, c) = {})
        BY <2>2, CountersExact
      <3>2. r \in Controls /\ r.at # "read"
        BY SleepFacts
      <3>3. pc' \in SignalIf(r_waiting[c], [pc EXCEPT ![t] = r], "read", c)
        BY <2>3
      <3> HIDE DEF r
      <3>4. /\ pc' \in [Threads -> Controls] /\ pc'[t] = r
            /\ WokeOne(t, "read", c)
        BY <2>2, <3>1, <3>2, <3>3, MoveAndSignalIf
      <3> QED
        BY <2>1, <2>2, <3>4 DEF Sleeps, r
  <1>5. ASSUME UnbufferedSendReturns(t)
        PROVE  SectionOf(t, c, {"write_again"}, Ends(t) /\ Alone(t)) /\ c \notin Buffered
    <2>1. pc[t].at = "write_again" /\ ~chan_is_buffered(c) /\ pc' = [pc EXCEPT ![t] = Idle]
      BY <1>5 DEF UnbufferedSendReturns, At
    <2> QED
      BY <1>0, <2>1, IdleFacts, MoveAlone DEF Ends, Alone, Sending
  <1> QED
    BY <1>1, <1>2, <1>3, <1>4, <1>5

LEMMA RecvEffects ==
    ASSUME ChanInv, NEW t \in Threads, NEW c, c = pc[t].chan
    PROVE  /\ BufferedRecvFails(t) =>
                 /\ SectionOf(t, c, {"recv", "read_again"}, Ends(t) /\ Alone(t))
                 /\ c \in Buffered
           /\ BufferedRecvWaits(t) =>
                 /\ SectionOf(t, c, {"recv", "read_again"}, Sleeps(t, "read") /\ Alone(t))
                 /\ c \in Buffered
           /\ BufferedRecvTakes(t) =>
                 /\ SectionOf(t, c, {"recv", "read_again"},
                              Ends(t) /\ WokeOne(t, "write", c))
                 /\ c \in Buffered
           /\ UnbufferedRecvFails(t) =>
                 /\ SectionOf(t, c, {"recv", "read_again"}, Ends(t) /\ Alone(t))
                 /\ c \notin Buffered
           /\ UnbufferedRecvWaits(t) =>
                 /\ SectionOf(t, c, {"recv", "read_again"}, Sleeps(t, "read") /\ Alone(t))
                 /\ c \notin Buffered
           /\ UnbufferedRecvTakes(t) =>
                 /\ SectionOf(t, c, {"recv", "read_again"},
                              Ends(t) /\ WokeOne(t, "write", c))
                 /\ c \notin Buffered
  <1> USE DEF ChanInv, SectionOf
  <1>0. /\ pc[t].at \in Receiving => c \in Chans
        /\ c \in Chans => (chan_is_buffered(c) <=> c \in Buffered)
    BY DEF PcInv, Buffered
  <1>1. ASSUME BufferedRecvFails(t)
        PROVE  /\ SectionOf(t, c, {"recv", "read_again"}, Ends(t) /\ Alone(t))
               /\ c \in Buffered
    <2>1. /\ pc[t].at \in {"recv", "read_again"} /\ chan_is_buffered(c)
          /\ pc' = [pc EXCEPT ![t] = Idle]
      BY <1>1 DEF BufferedRecvFails, InBufferedRecv
    <2> QED
      BY <1>0, <2>1, IdleFacts, MoveAlone DEF Ends, Alone, Receiving
  <1>2. ASSUME BufferedRecvWaits(t)
        PROVE  /\ SectionOf(t, c, {"recv", "read_again"}, Sleeps(t, "read") /\ Alone(t))
               /\ c \in Buffered
    <2>1. /\ pc[t].at \in {"recv", "read_again"} /\ chan_is_buffered(c)
          /\ pc' = [pc EXCEPT ![t].at = "read"]
      BY <1>2 DEF BufferedRecvWaits, InBufferedRecv
    <2> QED
      BY <1>0, <2>1, SleepFacts, MoveAlone DEF Sleeps, Alone, Receiving
  <1>3. ASSUME BufferedRecvTakes(t)
        PROVE  /\ SectionOf(t, c, {"recv", "read_again"},
                            Ends(t) /\ WokeOne(t, "write", c))
               /\ c \in Buffered
    <2>1. /\ pc[t].at \in {"recv", "read_again"} /\ chan_is_buffered(c)
          /\ pc' \in SignalIf(w_waiting[c], [pc EXCEPT ![t] = Idle], "write", c)
      BY <1>3 DEF BufferedRecvTakes, InBufferedRecv
    <2>2. c \in Chans /\ c \in Buffered
      BY <1>0, <2>1 DEF Receiving
    <2> QED
      <3>1. w_waiting[c] \in Nat /\ (w_waiting[c] = 0 => ThreadsAt({"write"}, c) = {})
        BY <2>2, CountersExact
      <3>2. Idle \in Controls /\ Idle.at # "write"
        BY IdleFacts
      <3>3. /\ pc' \in [Threads -> Controls] /\ pc'[t] = Idle
            /\ WokeOne(t, "write", c)
        BY <2>1, <2>2, <3>1, <3>2, MoveAndSignalIf
      <3> QED
        BY <2>1, <2>2, <3>3 DEF Ends
  <1>4. ASSUME UnbufferedRecvFails(t)
        PROVE  /\ SectionOf(t, c, {"recv", "read_again"}, Ends(t) /\ Alone(t))
               /\ c \notin Buffered
    <2>1. /\ pc[t].at \in {"recv", "read_again"} /\ ~chan_is_buffered(c)
          /\ pc' = [pc EXCEPT ![t] = Idle]
      BY <1>4 DEF UnbufferedRecvFails, InUnbufferedRecv
    <2> QED
      BY <1>0, <2>1, IdleFacts, MoveAlone DEF Ends, Alone, Receiving
  <1>5. ASSUME UnbufferedRecvWaits(t)
        PROVE  /\ SectionOf(t, c, {"recv", "read_again"}, Sleeps(t, "read") /\ Alone(t))
               /\ c \notin Buffered
    <2>1. /\ pc[t].at \in {"recv", "read_again"} /\ ~chan_is_buffered(c)
          /\ pc' = [pc EXCEPT ![t].at = "read"]
      BY <1>5 DEF UnbufferedRecvWaits, InUnbufferedRecv
    <2> QED
      BY <1>0, <2>1, SleepFacts, MoveAlone DEF Sleeps, Alone, Receiving
  <1>6. ASSUME UnbufferedRecvTakes(t)
        PROVE  /\ SectionOf(t, c, {"recv", "read_again"},
                            Ends(t) /\ WokeOne(t, "write", c))
               /\ c \notin Buffered
    <2>1. /\ pc[t].at \in {"recv", "read_again"} /\ ~chan_is_buffered(c)
          /\ pc' \in pthread_cond_signal([pc EXCEPT ![t] = Idle], "write", c)
      BY <1>6 DEF UnbufferedRecvTakes, InUnbufferedRecv
    <2>2. c \in Chans /\ c \notin Buffered
      BY <1>0, <2>1 DEF Receiving
    <2> QED
      BY <2>1, <2>2, IdleFacts, MoveAndSignal DEF Ends
  <1> QED
    BY <1>1, <1>2, <1>3, <1>4, <1>5, <1>6

\* chan_close wakes everyone who sleeps on the channel.
LEMMA CloseEffects ==
    ASSUME PcInv, NEW t \in Threads, NEW c \in Chans, chan_close(t, c)
    PROVE  /\ pc' \in [Threads -> Controls]
           /\ \A x \in Threads :
                 /\ pc'[x].chan = pc[x].chan /\ pc'[x].val = pc[x].val
                 /\ pc'[x].at = IF x \in ThreadsAt({"read"}, c) THEN "read_again"
                                ELSE IF x \in ThreadsAt({"write"}, c) THEN "write_again"
                                ELSE pc[x].at
  <1>1. pc' = pthread_cond_broadcast(pc, c)
    BY DEF chan_close
  <1>2. ASSUME NEW x \in Threads
        PROVE  /\ pc'[x] \in Controls
               /\ pc'[x].chan = pc[x].chan /\ pc'[x].val = pc[x].val
               /\ pc'[x].at = IF x \in ThreadsAt({"read"}, c) THEN "read_again"
                              ELSE IF x \in ThreadsAt({"write"}, c) THEN "write_again"
                              ELSE pc[x].at
    <2>1. pc[x] \in Controls
      BY DEF PcInv
    <2>2. CASE x \in ThreadsAt({"read"}, c)
      <3>1. pc'[x] = [pc[x] EXCEPT !.at = "read_again"]
        BY <1>1, <2>2 DEF pthread_cond_broadcast, Asleep, ThreadsAt, Woken
      <3>2. "read_again" \in Places
        BY DEF Places
      <3> QED
        BY <2>1, <2>2, <3>1, <3>2, ControlFacts
    <2>3. CASE x \in ThreadsAt({"write"}, c)
      <3>1. pc'[x] = [pc[x] EXCEPT !.at = "write_again"] /\ x \notin ThreadsAt({"read"}, c)
        BY <1>1, <2>3 DEF pthread_cond_broadcast, Asleep, ThreadsAt, Woken
      <3>2. "write_again" \in Places
        BY DEF Places
      <3> QED
        BY <2>1, <2>3, <3>1, <3>2, ControlFacts
    <2>4. CASE x \notin ThreadsAt({"read"}, c) /\ x \notin ThreadsAt({"write"}, c)
      <3>1. pc'[x] = pc[x]
        BY <1>1, <2>4 DEF pthread_cond_broadcast, Asleep, ThreadsAt
      <3> QED
        BY <2>1, <2>4, <3>1
    <2> QED
      BY <2>2, <2>3, <2>4
  <1>3. pc' = [x \in Threads |-> pc'[x]]
    BY <1>1 DEF pthread_cond_broadcast
  <1> QED
    BY <1>2, <1>3

\* A wait that returns by itself wakes its own thread.
LEMMA SpuriousEffects ==
    ASSUME PcInv, NEW t \in Threads, SpuriousWake(t)
    PROVE  /\ pc' \in [Threads -> Controls] /\ Alone(t)
           /\ pc'[t].chan = pc[t].chan /\ pc'[t].val = pc[t].val
           /\ \/ pc[t].at = "read" /\ pc'[t].at = "read_again"
              \/ pc[t].at = "write" /\ pc'[t].at = "write_again"
  <1>1. /\ pc[t].at \in {"read", "write"}
        /\ pc' = [pc EXCEPT ![t].at = Woken(pc[t].at)]
    BY DEF SpuriousWake
  <1>2. pc[t] \in Controls /\ Woken(pc[t].at) \in Places
    BY <1>1 DEF PcInv, Woken, Places
  <1>3. pc' = [pc EXCEPT ![t] = [pc[t] EXCEPT !.at = Woken(pc[t].at)]]
    BY <1>1, <1>2 DEF PcInv
  <1> DEFINE r == [pc[t] EXCEPT !.at = Woken(pc[t].at)]
  <1>4. /\ r \in Controls /\ r.at = Woken(pc[t].at) /\ r.chan = pc[t].chan
        /\ r.val = pc[t].val
    BY <1>2, ControlFacts
  <1> HIDE DEF r
  <1>5. pc' \in [Threads -> Controls] /\ pc'[t] = r /\ Alone(t)
    BY <1>3, <1>4, MoveAlone DEF Alone, r
  <1> QED
    BY <1>1, <1>4, <1>5 DEF Woken

\* The numbers of calls.
LEMMA CallFacts ==
    ASSUME NEW u \in Calls
    PROVE  /\ u.sends \in Nat
           /\ [u EXCEPT !.sends = @ + 1] \in Calls
           /\ [u EXCEPT !.sends = @ + 1].sends = u.sends + 1
           /\ [u EXCEPT !.recvs = @ + 1] \in Calls
           /\ [u EXCEPT !.recvs = @ + 1].sends = u.sends
           /\ [u EXCEPT !.selects = @ + 1] \in Calls
           /\ [u EXCEPT !.selects = @ + 1].sends = u.sends
           /\ [u EXCEPT !.spurious = @ + 1] \in Calls
           /\ [u EXCEPT !.spurious = @ + 1].sends = u.sends
  BY DEF Calls

\* Begin of a call and the looks of chan_select: nothing a channel holds changes,
\* and nobody who waits moves.
Outside(t) ==
    /\ pc[t].at \in {"idle", "select"} /\ pc'[t].at \in {"idle", "select", "put", "recv"}
    /\ pc' \in [Threads -> Controls] /\ \A x \in Threads \ {t} : pc'[x] = pc[x]
    /\ UNCHANGED <<closed, waiters, buffer, slot, early>>

\* Of these, only chan_send concerns a value: a fresh one.
Quiet(t) ==
    /\ pc'[t].at \notin Sending /\ (pc'[t].at = "recv" => pc'[t].chan \in Chans)
    /\ UNCHANGED <<result, used.sends>> /\ used' \in Calls

LEMMA SendBegins ==
    ASSUME PcInv, NEW t \in Threads, NEW c \in Chans, chan_send(t, c),
           pc[t].at \in {"idle", "select"}, used.sends \in Nat
    PROVE  /\ Outside(t)
           /\ used.sends + 1 \in Values /\ used' = [used EXCEPT !.sends = used.sends + 1]
           /\ \/ /\ pc'[t].at = "idle"
                 /\ result' = [result EXCEPT ![used.sends + 1] = "error"]
              \/ /\ pc'[t].at = "put" /\ pc'[t].chan = c /\ pc'[t].val = used.sends + 1
                 /\ result' = result
  <1> DEFINE v == used.sends + 1
  <1>1. /\ v \in Values /\ used' = [used EXCEPT !.sends = v]
        /\ UNCHANGED <<closed, waiters, buffer, slot, early>>
    BY ChanAssumption DEF chan_send, Values
  <1>2. CASE /\ result' = [result EXCEPT ![v] = "error"]
             /\ pc' = [pc EXCEPT ![t] = Idle]
    BY <1>1, <1>2, IdleFacts DEF Outside, PcInv
  <1>3. CASE pc' = [pc EXCEPT ![t] = Going("put", c, v)] /\ UNCHANGED result
    <2>1. /\ Going("put", c, v) \in Controls /\ Going("put", c, v).at = "put"
          /\ Going("put", c, v).chan = c /\ Going("put", c, v).val = v
      BY <1>1, GoingFacts
    <2> HIDE DEF v
    <2>2. pc' \in [Threads -> Controls] /\ pc'[t] = Going("put", c, v)
          /\ \A x \in Threads \ {t} : pc'[x] = pc[x]
      BY <1>3, <2>1 DEF PcInv
    <2> QED
      BY <1>1, <1>3, <2>1, <2>2 DEF Outside, v
  <1> QED
    BY <1>2, <1>3 DEF chan_send

LEMMA OutsideEffects ==
    ASSUME ChanInv, NEW t \in Threads
    PROVE  /\ \A c \in Chans : RecvCall(t, c) => Outside(t) /\ Quiet(t)
           /\ \A ops \in Selects : SelectCall(t, ops) => Outside(t) /\ Quiet(t)
           /\ \A op \in Ops : SelectLooks(t, op) => Outside(t) /\ Quiet(t)
           /\ SelectNone(t) => Outside(t) /\ Quiet(t)
           /\ \A op \in Ops : SelectChooses(t, op) =>
                 (Outside(t) /\ Quiet(t)) \/ chan_send(t, op.chan)
  <1> USE DEF ChanInv
  <1>0. pc \in [Threads -> Controls] /\ pc[t] \in Controls
    BY DEF PcInv
  <1>1. ASSUME NEW r \in Controls, r.at \in {"idle", "select", "recv"},
               r.at = "recv" => r.chan \in Chans,
               pc[t].at \in {"idle", "select"}, pc' = [pc EXCEPT ![t] = r],
               UNCHANGED <<closed, waiters, buffer, slot, result, early, used.sends>>,
               used' \in Calls
        PROVE  Outside(t) /\ Quiet(t)
    BY <1>0, <1>1 DEF Outside, Quiet, Sending
  <1>2. ASSUME NEW c \in Chans, RecvCall(t, c) PROVE Outside(t) /\ Quiet(t)
    <2>1. /\ Going("recv", c, Null) \in Controls /\ Going("recv", c, Null).at = "recv"
          /\ Going("recv", c, Null).chan = c
      BY GoingFacts
    <2>2. used'.sends = used.sends /\ used' \in Calls
      BY <1>2, CallFacts DEF RecvCall, Shape
    <2> QED
      BY <1>1, <1>2, <2>1, <2>2 DEF RecvCall, At
  <1>3. ASSUME NEW ops \in Selects, SelectCall(t, ops) PROVE Outside(t) /\ Quiet(t)
    <2> DEFINE r == [Idle EXCEPT !.at = "select", !.todo = ops]
    <2>1. ops \in SUBSET Ops
      BY ChanAssumption DEF Ops
    <2>2. r \in Controls /\ r.at = "select"
      BY <2>1 DEF Idle, Controls, Places
    <2>3. used'.sends = used.sends /\ used' \in Calls
      BY <1>3, CallFacts DEF SelectCall, Shape
    <2> HIDE DEF r
    <2> QED
      BY <1>1, <1>3, <2>2, <2>3 DEF SelectCall, At, r
  <1>4. ASSUME NEW op \in Ops, SelectLooks(t, op) PROVE Outside(t) /\ Quiet(t)
    <2>1. PICK S \in SUBSET Ops :
              pc' = [pc EXCEPT ![t].todo = @ \ {op}, ![t].cands = S]
      BY <1>0, <1>4 DEF SelectLooks, Controls
    <2> DEFINE r == [pc[t] EXCEPT !.todo = @ \ {op}, !.cands = S]
    <2>2. r \in Controls /\ r.at = pc[t].at
      BY <1>0 DEF Controls
    <2>3. pc' = [pc EXCEPT ![t] = r]
      BY <1>0, <2>1
    <2> HIDE DEF r
    <2> QED
      BY <1>1, <1>4, <2>2, <2>3 DEF SelectLooks, At, Shape
  <1>5. ASSUME SelectNone(t) PROVE Outside(t) /\ Quiet(t)
    BY <1>1, <1>5, IdleFacts DEF SelectNone, At, Shape
  <1>6. ASSUME NEW op \in Ops, SelectChooses(t, op)
        PROVE  (Outside(t) /\ Quiet(t)) \/ chan_send(t, op.chan)
    <2>1. CASE /\ pc' = [pc EXCEPT ![t] = Going("recv", op.chan, Null)]
               /\ UNCHANGED <<closed, waiters, buffer, slot, result, used, early>>
      <3>1. /\ Going("recv", op.chan, Null) \in Controls
            /\ Going("recv", op.chan, Null).at = "recv"
            /\ Going("recv", op.chan, Null).chan \in Chans
        BY GoingFacts DEF Ops
      <3> QED
        BY <1>1, <1>6, <2>1, <3>1 DEF SelectChooses, At, Shape
    <2> QED
      BY <1>6, <2>1 DEF SelectChooses
  <1> QED
    BY <1>2, <1>3, <1>4, <1>5, <1>6
-----------------------------------------------------------------------------
(* The sets of waiting threads.                                            *)

\* Every step is one of these.
Section(t) ==
    \/ BufferedSendWaits(t) \/ BufferedSendAdds(t)
    \/ BufferedRecvFails(t) \/ BufferedRecvWaits(t) \/ BufferedRecvTakes(t)
    \/ UnbufferedSendFails(t) \/ UnbufferedSendOffers(t) \/ UnbufferedSendReturns(t)
    \/ UnbufferedRecvFails(t) \/ UnbufferedRecvWaits(t) \/ UnbufferedRecvTakes(t)

StepOf(t) ==
    \/ Outside(t) /\ Quiet(t)
    \/ pc[t].at \in {"idle", "select"} /\ \E c \in Chans : chan_send(t, c)
    \/ \E c \in Chans : chan_close(t, c)
    \/ SpuriousWake(t)
    \/ Section(t)

LEMMA NextCases ==
    ASSUME ChanInv, Next PROVE \E t \in Threads : StepOf(t)
  <1>1. PICK t \in Threads : Begins(t) \/ Continues(t) \/ SpuriousWake(t)
    BY DEF Next
  <1>2. CASE Begins(t)
    <2>1. ASSUME NEW c \in Chans, SendCall(t, c) PROVE StepOf(t)
      BY <2>1 DEF SendCall, StepOf, At
    <2>2. ASSUME NEW c \in Chans, RecvCall(t, c) PROVE StepOf(t)
      BY <2>2, OutsideEffects DEF StepOf
    <2>3. ASSUME NEW c \in Chans, chan_close(t, c) PROVE StepOf(t)
      BY <2>3 DEF StepOf
    <2>4. ASSUME NEW ops \in Selects, SelectCall(t, ops) PROVE StepOf(t)
      BY <2>4, OutsideEffects DEF StepOf
    <2> QED
      BY <1>2, <2>1, <2>2, <2>3, <2>4 DEF Begins
  <1>3. CASE Continues(t)
    <2>1. ASSUME NEW op \in Ops, SelectChooses(t, op) PROVE StepOf(t)
      <3>1. op.chan \in Chans /\ pc[t].at \in {"idle", "select"}
        BY <2>1 DEF Ops, SelectChooses, At
      <3> QED
        BY <2>1, <3>1, OutsideEffects DEF StepOf
    <2>2. ASSUME NEW op \in Ops, SelectLooks(t, op) PROVE StepOf(t)
      BY <2>2, OutsideEffects DEF StepOf
    <2>3. CASE SelectNone(t)
      BY <2>3, OutsideEffects DEF StepOf
    <2> QED
      BY <1>3, <2>1, <2>2, <2>3 DEF Continues, StepOf, Section
  <1>4. CASE SpuriousWake(t)
    BY <1>4 DEF StepOf
  <1> QED
    BY <1>1, <1>2, <1>3, <1>4

\* Where the others are after a signal.
LEMMA OthersAfter ==
    ASSUME NEW t \in Threads, NEW side \in {"read", "write"}, NEW c,
           NEW W, Woke(t, side, c, W)
    PROVE  /\ \A P, d : (side \in P <=> Woken(side) \in P) \/ d # c \/ W = {} =>
                 ThreadsAt(P, d)' \ {t} = ThreadsAt(P, d) \ {t}
           /\ ThreadsAt({side}, c)' \ {t} = (ThreadsAt({side}, c) \ {t}) \ W
           /\ ThreadsAt({Woken(side)}, c)' \ {t} =
                 (ThreadsAt({Woken(side)}, c) \ {t}) \cup W
  <1>1. Woken(side) # side
    BY DEF Woken
  <1>2. \A x \in Threads \ {t} :
           /\ pc'[x].chan = pc[x].chan
           /\ x \in W => pc[x].at = side /\ pc[x].chan = c /\ pc'[x].at = Woken(side)
           /\ x \notin W => pc'[x].at = pc[x].at
    BY DEF Woke, ThreadsAt
  <1>3. W \subseteq Threads \ {t}
    BY DEF Woke, ThreadsAt
  <1> QED
    BY <1>1, <1>2, <1>3 DEF ThreadsAt

LEMMA AloneAfter ==
    ASSUME NEW t \in Threads, Alone(t), NEW P, NEW d
    PROVE  ThreadsAt(P, d)' \ {t} = ThreadsAt(P, d) \ {t}
  BY OthersAfter DEF Alone

\* A signal leaves the counted sets of the others as they are.
LEMMA CountedAfter ==
    ASSUME NEW t \in Threads, NEW side \in {"read", "write"}, NEW c,
           Alone(t) \/ WokeOne(t, side, c), NEW d
    PROVE  /\ Readers(d)' \ {t} = Readers(d) \ {t}
           /\ Writers(d)' \ {t} = Writers(d) \ {t}
  <1>1. ASSUME NEW W, Woke(t, side, c, W)
        PROVE  /\ Readers(d)' \ {t} = Readers(d) \ {t}
               /\ Writers(d)' \ {t} = Writers(d) \ {t}
    BY <1>1, OthersAfter DEF Readers, Writers, Woken
  <1>2. CASE Alone(t)
    BY <1>2, AloneAfter DEF Readers, Writers
  <1> QED
    BY <1>1, <1>2 DEF WokeOne

\* Outside the sections the waiting threads stay where they are.
LEMMA WaitingStays ==
    ASSUME NEW t \in Threads, Outside(t),
           NEW P \in SUBSET {"read", "read_again", "write", "write_again"}, NEW d
    PROVE  ThreadsAt(P, d)' = ThreadsAt(P, d)
  BY DEF Outside, ThreadsAt

-----------------------------------------------------------------------------
(* The counters.                                                           *)

LEMMA CountStep ==
    ASSUME ChanInv, NEW t \in Threads, StepOf(t) PROVE WaitersCounted'
  <1> USE DEF ChanInv
  <1> DEFINE c == pc[t].chan
  <1> SUFFICES ASSUME NEW d \in Chans
               PROVE  /\ r_waiting'[d] = Cardinality(Readers(d)')
                      /\ d \in Buffered => w_waiting'[d] = Cardinality(Writers(d)')
    BY DEF WaitersCounted, Readers, Writers, Buffered, chan_is_buffered
  <1>0. /\ r_waiting[d] = Cardinality(Readers(d))
        /\ d \in Buffered => w_waiting[d] = Cardinality(Writers(d))
    BY DEF WaitersCounted, Readers, Writers
  <1>1. ASSUME UNCHANGED waiters, Readers(d)' = Readers(d), Writers(d)' = Writers(d)
        PROVE  /\ r_waiting'[d] = Cardinality(Readers(d)')
               /\ d \in Buffered => w_waiting'[d] = Cardinality(Writers(d)')
    BY <1>0, <1>1 DEF waiters
  <1>2. CASE Outside(t)
    BY <1>1, <1>2, WaitingStays DEF Outside, Readers, Writers
  <1>3. ASSUME NEW e \in Chans, chan_close(t, e)
        PROVE  /\ r_waiting'[d] = Cardinality(Readers(d)')
               /\ d \in Buffered => w_waiting'[d] = Cardinality(Writers(d)')
    <2>1. Readers(d)' = Readers(d) /\ Writers(d)' = Writers(d)
      BY <1>3, CloseEffects DEF Readers, Writers, ThreadsAt
    <2> QED
      BY <1>1, <1>3, <2>1 DEF chan_close
  <1>4. CASE SpuriousWake(t)
    <2>1. Readers(d)' = Readers(d) /\ Writers(d)' = Writers(d)
      <3>1. /\ Readers(d)' \ {t} = Readers(d) \ {t}
            /\ Writers(d)' \ {t} = Writers(d) \ {t}
        BY <1>4, SpuriousEffects, CountedAfter
      <3>2. /\ t \in Readers(d)' <=> t \in Readers(d)
            /\ t \in Writers(d)' <=> t \in Writers(d)
        BY <1>4, SpuriousEffects DEF Readers, Writers, ThreadsAt
      <3> QED
        BY <3>1, <3>2
    <2> QED
      BY <1>1, <1>4, <2>1 DEF SpuriousWake
  <1>5. ASSUME pc[t].at \in {"put", "write_again"}, pc[t].chan = c,
               Readers(d)' \ {t} = Readers(d) \ {t}, pc'[t].at \notin {"read", "read_again"}
        PROVE  Readers(d)' = Readers(d)
    BY <1>5 DEF Readers, ThreadsAt
  <1>6. ASSUME pc[t].at \in {"recv", "read_again"}, pc[t].chan = c,
               Writers(d)' \ {t} = Writers(d) \ {t},
               pc'[t].at \notin {"write", "write_again"}
        PROVE  Writers(d)' = Writers(d)
    BY <1>6 DEF Writers, ThreadsAt
  <1>7. /\ d # c => t \notin Readers(d) /\ t \notin Writers(d)
        /\ Readers(d) \in SUBSET Threads /\ Writers(d) \in SUBSET Threads
    BY DEF Readers, Writers, ThreadsAt
  <1>8. ASSUME pc'[t] = Idle PROVE t \notin Readers(d)' /\ t \notin Writers(d)'
    BY <1>8, IdleFacts DEF Readers, Writers, ThreadsAt
  <1>9. ASSUME NEW side \in {"read", "write"}, Sleeps(t, side), PcInv
        PROVE  pc'[t].at = side /\ pc'[t].chan = c
    BY <1>9, ControlFacts DEF Sleeps, PcInv, Places
  <1>10. CASE BufferedSendWaits(t)
    <2>1. /\ SectionOf(t, c, {"put", "write_again"}, Sleeps(t, "write") /\ Alone(t))
          /\ c \in Buffered
      BY <1>10, SendEffects
    <2>2. /\ Readers(d)' \ {t} = Readers(d) \ {t}
          /\ Writers(d)' \ {t} = Writers(d) \ {t}
      BY <2>1, CountedAfter DEF SectionOf
    <2>3. pc'[t].at = "write" /\ pc'[t].chan = c
      BY <1>9, <2>1 DEF SectionOf
    <2>4. Readers(d)' = Readers(d)
      BY <1>5, <2>1, <2>2, <2>3 DEF SectionOf
    <2>5. /\ r_waiting' = r_waiting
          /\ w_waiting' = [w_waiting EXCEPT ![c] = WritersNow(t, c) + 1]
      BY <1>10 DEF BufferedSendWaits
    <2>6. CASE d = c
      <3>1. Writers(d)' = Writers(d) \cup {t}
        BY <2>2, <2>3, <2>6 DEF Writers, ThreadsAt
      <3>2. WritersNow(t, c) = Cardinality(Writers(d) \ {t})
        BY <2>1, <2>6, CountersExact DEF SectionOf
      <3>3. Cardinality(Writers(d) \cup {t}) = Cardinality(Writers(d) \ {t}) + 1
        BY <1>7, SetFacts
      <3>4. w_waiting'[d] = WritersNow(t, c) + 1
        BY <2>1, <2>5, <2>6 DEF Shape
      <3> QED
        BY <1>0, <2>4, <2>5, <3>1, <3>2, <3>3, <3>4
    <2>7. CASE d # c
      <3>1. Writers(d)' = Writers(d)
        BY <1>7, <2>2, <2>3, <2>7 DEF Writers, ThreadsAt
      <3> QED
        BY <1>0, <2>4, <2>5, <2>7, <3>1 DEF Shape
    <2> QED
      BY <2>6, <2>7
  <1>11. CASE BufferedSendAdds(t)
    <2>1. /\ SectionOf(t, c, {"put", "write_again"}, Ends(t) /\ WokeOne(t, "read", c))
          /\ c \in Buffered
      BY <1>11, SendEffects
    <2>2. /\ Readers(d)' \ {t} = Readers(d) \ {t}
          /\ Writers(d)' \ {t} = Writers(d) \ {t}
      BY <2>1, CountedAfter DEF SectionOf
    <2>3. t \notin Readers(d)' /\ t \notin Writers(d)' /\ pc'[t].at = "idle"
      BY <1>8, <2>1, IdleFacts DEF SectionOf, Ends
    <2>4. Readers(d)' = Readers(d)
      BY <1>5, <2>1, <2>2, <2>3 DEF SectionOf
    <2>5. r_waiting' = r_waiting /\ w_waiting' = [w_waiting EXCEPT ![c] = WritersNow(t, c)]
      BY <1>11 DEF BufferedSendAdds
    <2>6. Writers(d)' = Writers(d) \ {t}
      BY <2>2, <2>3
    <2>7. CASE d = c
      <3>1. WritersNow(t, c) = Cardinality(Writers(d) \ {t})
        BY <2>1, <2>7, CountersExact DEF SectionOf
      <3> QED
        BY <1>0, <2>4, <2>5, <2>6, <2>7, <3>1 DEF Shape
    <2>8. CASE d # c
      <3>1. Writers(d)' = Writers(d)
        BY <1>7, <2>6, <2>8
      <3> QED
        BY <1>0, <2>4, <2>5, <2>8, <3>1 DEF Shape
    <2> QED
      BY <2>7, <2>8
  <1>12. ASSUME \/ UnbufferedSendFails(t) \/ UnbufferedSendOffers(t)
                \/ UnbufferedSendReturns(t)
         PROVE  /\ r_waiting'[d] = Cardinality(Readers(d)')
                /\ d \in Buffered => w_waiting'[d] = Cardinality(Writers(d)')
    <2>1. /\ c \in Chans \ Buffered /\ pc[t].at \in {"put", "write_again"}
          /\ Alone(t) \/ WokeOne(t, "read", c)
          /\ Ends(t) \/ Sleeps(t, "write")
      BY <1>12, SendEffects DEF SectionOf
    <2>2. /\ Readers(d)' \ {t} = Readers(d) \ {t}
          /\ Writers(d)' \ {t} = Writers(d) \ {t}
      BY <2>1, CountedAfter
    <2>3. pc'[t].at = "idle" \/ (pc'[t].at = "write" /\ pc'[t].chan = c)
      BY <1>9, <2>1, IdleFacts DEF Ends
    <2>4. Readers(d)' = Readers(d)
      BY <1>5, <2>1, <2>2, <2>3
    <2>5. /\ r_waiting' = r_waiting
          /\ d # c => w_waiting'[d] = w_waiting[d]
      BY <1>12, <2>1
      DEF UnbufferedSendFails, UnbufferedSendOffers, UnbufferedSendReturns, waiters, Shape
    <2>6. d # c => Writers(d)' = Writers(d)
      BY <1>7, <2>2, <2>3 DEF Writers, ThreadsAt
    <2> QED
      BY <1>0, <2>1, <2>4, <2>5, <2>6
  <1>13. ASSUME \/ BufferedRecvFails(t) \/ BufferedRecvTakes(t)
                \/ UnbufferedRecvFails(t) \/ UnbufferedRecvTakes(t)
         PROVE  /\ r_waiting'[d] = Cardinality(Readers(d)')
                /\ d \in Buffered => w_waiting'[d] = Cardinality(Writers(d)')
    <2>1. /\ c \in Chans /\ pc[t].at \in {"recv", "read_again"}
          /\ Alone(t) \/ WokeOne(t, "write", c)
          /\ Ends(t)
      BY <1>13, RecvEffects DEF SectionOf
    <2>2. /\ Readers(d)' \ {t} = Readers(d) \ {t}
          /\ Writers(d)' \ {t} = Writers(d) \ {t}
      BY <2>1, CountedAfter
    <2>3. t \notin Readers(d)' /\ t \notin Writers(d)' /\ pc'[t].at = "idle"
      BY <1>8, <2>1, IdleFacts DEF Ends
    <2>4. Writers(d)' = Writers(d)
      BY <1>6, <2>1, <2>2, <2>3
    <2>5. /\ r_waiting' = [r_waiting EXCEPT ![c] = ReadersNow(t, c)]
          /\ d \in Buffered => w_waiting'[d] = w_waiting[d]
      <3>1. UnbufferedRecvTakes(t) => c \notin Buffered
        BY RecvEffects
      <3> QED
        BY <1>13, <3>1
        DEF BufferedRecvFails, BufferedRecvTakes, UnbufferedRecvFails,
            UnbufferedRecvTakes, Shape
    <2>6. Readers(d)' = Readers(d) \ {t}
      BY <2>2, <2>3
    <2>7. CASE d = c
      <3>1. ReadersNow(t, c) = Cardinality(Readers(d) \ {t})
        BY <2>1, <2>7, CountersExact
      <3> QED
        BY <1>0, <2>4, <2>5, <2>6, <2>7, <3>1 DEF Shape
    <2>8. CASE d # c
      <3>1. Readers(d)' = Readers(d)
        BY <1>7, <2>6, <2>8
      <3> QED
        BY <1>0, <2>4, <2>5, <2>8, <3>1 DEF Shape
    <2> QED
      BY <2>7, <2>8
  <1>14. ASSUME BufferedRecvWaits(t) \/ UnbufferedRecvWaits(t)
         PROVE  /\ r_waiting'[d] = Cardinality(Readers(d)')
                /\ d \in Buffered => w_waiting'[d] = Cardinality(Writers(d)')
    <2>1. /\ c \in Chans /\ pc[t].at \in {"recv", "read_again"}
          /\ Alone(t) /\ Sleeps(t, "read")
      BY <1>14, RecvEffects DEF SectionOf
    <2>2. /\ Readers(d)' \ {t} = Readers(d) \ {t}
          /\ Writers(d)' \ {t} = Writers(d) \ {t}
      BY <2>1, CountedAfter
    <2>3. pc'[t].at = "read" /\ pc'[t].chan = c
      BY <1>9, <2>1
    <2>4. Writers(d)' = Writers(d)
      BY <1>6, <2>1, <2>2, <2>3
    <2>5. /\ w_waiting' = w_waiting
          /\ r_waiting' = [r_waiting EXCEPT ![c] = ReadersNow(t, c) + 1]
      BY <1>14 DEF BufferedRecvWaits, UnbufferedRecvWaits
    <2>6. CASE d = c
      <3>1. Readers(d)' = Readers(d) \cup {t}
        BY <2>2, <2>3, <2>6 DEF Readers, ThreadsAt
      <3>2. ReadersNow(t, c) = Cardinality(Readers(d) \ {t})
        BY <2>1, <2>6, CountersExact
      <3>3. Cardinality(Readers(d) \cup {t}) = Cardinality(Readers(d) \ {t}) + 1
        BY <1>7, SetFacts
      <3>4. r_waiting'[d] = ReadersNow(t, c) + 1
        BY <2>1, <2>5, <2>6 DEF Shape
      <3> QED
        BY <1>0, <2>4, <2>5, <3>1, <3>2, <3>3, <3>4
    <2>7. CASE d # c
      <3>1. Readers(d)' = Readers(d)
        BY <1>7, <2>2, <2>3, <2>7 DEF Readers, ThreadsAt
      <3> QED
        BY <1>0, <2>4, <2>5, <2>7, <3>1 DEF Shape
    <2> QED
      BY <2>6, <2>7
  <1>15. ASSUME NEW e \in Chans, chan_send(t, e), pc[t].at \in {"idle", "select"}
         PROVE  Outside(t)
    BY <1>15, SendBegins, CallFacts DEF Shape
  <1> QED
    BY <1>2, <1>3, <1>4, <1>10, <1>11, <1>12, <1>13, <1>14, <1>15 DEF StepOf, Section
-----------------------------------------------------------------------------
(* Control states after a step.                                            *)

\* What a step other than the beginning of a call does to thread x.
Same(x) == pc'[x].at = pc[x].at /\ pc'[x].chan = pc[x].chan /\ pc'[x].val = pc[x].val
Wakes(x) ==
    /\ pc'[x].chan = pc[x].chan /\ pc'[x].val = pc[x].val
    /\ \/ pc[x].at = "read" /\ pc'[x].at = "read_again"
       \/ pc[x].at = "write" /\ pc'[x].at = "write_again"
Waits(x) ==
    /\ pc'[x].chan = pc[x].chan /\ pc'[x].val = pc[x].val
    /\ \/ pc[x].at \in {"recv", "read_again"} /\ pc'[x].at = "read"
       \/ pc[x].at \in {"put", "write_again"} /\ pc'[x].at = "write"

LEMMA OthersMove ==
    ASSUME NEW t \in Threads, NEW side \in {"read", "write"}, NEW c,
           NEW x \in Threads \ {t},
           Alone(t) \/ WokeOne(t, side, c)
    PROVE  Same(x) \/ (Wakes(x) /\ pc[x].at = side /\ pc[x].chan = c)
  <1>1. ASSUME NEW W, Woke(t, side, c, W)
        PROVE  Same(x) \/ (Wakes(x) /\ pc[x].at = side /\ pc[x].chan = c)
    <2>1. CASE x \in W
      BY <1>1, <2>1 DEF Woke, Wakes, Woken, ThreadsAt
    <2>2. CASE x \notin W
      BY <1>1, <2>2 DEF Woke, Same
    <2> QED
      BY <2>1, <2>2
  <1>2. CASE Alone(t)
    BY <1>2 DEF Alone, Woke, Same
  <1> QED
    BY <1>1, <1>2 DEF WokeOne

\* The thread that leaves a section has ended its call or waits.
LEMMA SleeperWaits ==
    ASSUME PcInv, NEW t \in Threads, NEW side \in {"read", "write"}, Sleeps(t, side),
           side = "read" => pc[t].at \in {"recv", "read_again"},
           side = "write" => pc[t].at \in {"put", "write_again"}
    PROVE  Waits(t) /\ pc'[t].at = side
  <1>1. pc[t] \in Controls /\ side \in Places
    BY DEF PcInv, Places
  <1>2. pc'[t].at = side /\ pc'[t].chan = pc[t].chan /\ pc'[t].val = pc[t].val
    BY <1>1, ControlFacts DEF Sleeps
  <1> QED
    BY <1>2 DEF Waits

LEMMA SectionMoves ==
    ASSUME ChanInv, NEW t \in Threads, Section(t)
    PROVE  /\ pc[t].chan \in Chans /\ pc' \in [Threads -> Controls]
           /\ pc[t].at \in {"put", "write_again", "recv", "read_again"}
           /\ pc'[t] = Idle \/ Waits(t)
           /\ \A x \in Threads \ {t} : Same(x) \/ (Wakes(x) /\ pc[x].chan = pc[t].chan)
  <1> DEFINE c == pc[t].chan
  <1>1. \/ SectionOf(t, c, {"put", "write_again"}, Sleeps(t, "write") /\ Alone(t))
        \/ SectionOf(t, c, {"put", "write_again"}, Ends(t) /\ WokeOne(t, "read", c))
        \/ SectionOf(t, c, {"put"}, Ends(t) /\ Alone(t))
        \/ SectionOf(t, c, {"put"}, Sleeps(t, "write") /\ WokeOne(t, "read", c))
        \/ SectionOf(t, c, {"write_again"}, Ends(t) /\ Alone(t))
        \/ SectionOf(t, c, {"recv", "read_again"}, Ends(t) /\ Alone(t))
        \/ SectionOf(t, c, {"recv", "read_again"}, Sleeps(t, "read") /\ Alone(t))
        \/ SectionOf(t, c, {"recv", "read_again"}, Ends(t) /\ WokeOne(t, "write", c))
    BY SendEffects, RecvEffects DEF Section
  <1>2. /\ c \in Chans /\ pc' \in [Threads -> Controls]
        /\ pc[t].at \in {"put", "write_again", "recv", "read_again"}
        /\ Alone(t) \/ WokeOne(t, "read", c) \/ WokeOne(t, "write", c)
        /\ \/ Ends(t)
           \/ Sleeps(t, "write") /\ pc[t].at \in {"put", "write_again"}
           \/ Sleeps(t, "read") /\ pc[t].at \in {"recv", "read_again"}
    BY <1>1 DEF SectionOf
  <1>3. pc'[t] = Idle \/ Waits(t)
    BY <1>2, SleeperWaits DEF Ends, ChanInv
  <1>4. \A x \in Threads \ {t} : Same(x) \/ (Wakes(x) /\ pc[x].chan = c)
    BY <1>2, OthersMove
  <1> QED
    BY <1>2, <1>3, <1>4

LEMMA CloseMoves ==
    ASSUME ChanInv, NEW t \in Threads, NEW c \in Chans, chan_close(t, c)
    PROVE  /\ pc' \in [Threads -> Controls]
           /\ \A x \in Threads : /\ Same(x) \/ (Wakes(x) /\ pc[x].chan = c)
                                 /\ pc[x].chan = c => pc'[x].at \notin {"read", "write"}
  <1>1. PcInv
    BY DEF ChanInv
  <1>2. ASSUME NEW x \in Threads
        PROVE  /\ Same(x) \/ (Wakes(x) /\ pc[x].chan = c)
               /\ pc[x].chan = c => pc'[x].at \notin {"read", "write"}
    <2>1. /\ pc'[x].chan = pc[x].chan /\ pc'[x].val = pc[x].val
          /\ pc'[x].at = IF x \in ThreadsAt({"read"}, c) THEN "read_again"
                         ELSE IF x \in ThreadsAt({"write"}, c) THEN "write_again"
                         ELSE pc[x].at
      BY <1>1, CloseEffects
    <2> QED
      BY <2>1 DEF Same, Wakes, ThreadsAt
  <1> QED
    BY <1>1, <1>2, CloseEffects

LEMMA SpuriousMoves ==
    ASSUME ChanInv, NEW t \in Threads, SpuriousWake(t)
    PROVE  /\ pc' \in [Threads -> Controls] /\ Wakes(t)
           /\ \A x \in Threads \ {t} : Same(x)
  BY SpuriousEffects DEF ChanInv, Wakes, Alone, Woke, Same

LEMMA PcStep ==
    ASSUME ChanInv, NEW t \in Threads, StepOf(t) PROVE PcInv'
  <1> DEFINE Ok(x) == /\ pc'[x].at \in Sending =>
                            pc'[x].chan \in Chans /\ pc'[x].val \in Values
                      /\ pc'[x].at \in Receiving => pc'[x].chan \in Chans
  <1>1. \A x \in Threads :
            /\ pc[x].at \in Sending => pc[x].chan \in Chans /\ pc[x].val \in Values
            /\ pc[x].at \in Receiving => pc[x].chan \in Chans
    BY DEF ChanInv, PcInv
  <1>2. ASSUME NEW x \in Threads, Same(x) \/ Wakes(x) \/ Waits(x) PROVE Ok(x)
    BY <1>1, <1>2 DEF Same, Wakes, Waits, Sending, Receiving
  <1>3. \A x \in Threads : pc'[x] = Idle => Ok(x)
    BY IdleFacts DEF Sending, Receiving
  <1>4. SUFFICES ASSUME NEW x \in Threads PROVE pc' \in [Threads -> Controls] /\ Ok(x)
    BY DEF PcInv
  <1>5. CASE Section(t)
    BY <1>2, <1>3, <1>5, SectionMoves
  <1>6. ASSUME NEW c \in Chans, chan_close(t, c)
        PROVE  pc' \in [Threads -> Controls] /\ Ok(x)
    BY <1>2, <1>6, CloseMoves
  <1>7. CASE SpuriousWake(t)
    BY <1>2, <1>7, SpuriousMoves
  <1>8. CASE Outside(t) /\ Quiet(t)
    <2>1. Same(x) \/ x = t
      BY <1>8 DEF Outside, Same
    <2>2. Ok(t)
      BY <1>8 DEF Outside, Quiet, Receiving, Sending
    <2> QED
      BY <1>2, <1>8, <2>1, <2>2 DEF Outside
  <1>9. ASSUME NEW c \in Chans, chan_send(t, c), pc[t].at \in {"idle", "select"}
        PROVE  pc' \in [Threads -> Controls] /\ Ok(x)
    <2>1. /\ Outside(t) /\ used.sends + 1 \in Values
          /\ \/ pc'[t].at = "idle"
             \/ pc'[t].at = "put" /\ pc'[t].chan = c /\ pc'[t].val = used.sends + 1
      BY <1>9, SendBegins, CallFacts DEF ChanInv, Shape
    <2>2. Same(x) \/ x = t
      BY <2>1 DEF Outside, Same
    <2>3. Ok(t)
      BY <2>1 DEF Receiving, Sending
    <2> QED
      BY <1>2, <2>1, <2>2, <2>3 DEF Outside
  <1> QED
    BY <1>5, <1>6, <1>7, <1>8, <1>9 DEF StepOf
-----------------------------------------------------------------------------
(* The data of the channels.                                               *)

\* What queue_add and queue_remove make of the size.
LEMMA SizeFacts ==
    ASSUME NEW c \in Buffered, QueueInv
    PROVE  /\ queue[c].size \in 0..Capacity[c] /\ Capacity[c] \in Nat \ {0}
           /\ Len(Contents(queue[c])) = queue[c].size
           /\ queue[c].next \in 0..(Capacity[c] - 1)
  <1>1. IsQueue(queue[c], Values \cup {Null}) /\ queue[c].capacity = Capacity[c]
    BY DEF QueueInv
  <1>2. Len(Contents(queue[c])) = queue[c].size
    BY <1>1, ContentsType
  <1> QED
    BY <1>1, <1>2 DEF IsQueue

LEMMA AddWithRoom ==
    ASSUME NEW V, NEW v \in V, NEW q, IsQueue(q, V), ~queue_at_capacity(q)
    PROVE  /\ IsQueue(queue_add(q, v), V) /\ queue_add(q, v).capacity = q.capacity
           /\ Contents(queue_add(q, v)) = Append(Contents(q), v)
  BY AddAppends

\* The queue after buffered_chan_send put a value into it.
LEMMA AddFacts ==
    ASSUME ChanInv, NEW t \in Threads, BufferedSendAdds(t), NEW c, c = pc[t].chan
    PROVE  /\ c \in Buffered /\ c \in Chans /\ pc[t].val \in Values
           /\ IsQueue(queue'[c], Values \cup {Null}) /\ queue'[c].capacity = Capacity[c]
           /\ Contents(queue'[c]) = Append(Contents(queue[c]), pc[t].val)
           /\ Contents(queue'[c]) \in Seq(Values)
           /\ queue'[c].size = queue[c].size + 1 /\ queue[c].size < Capacity[c]
           /\ queue' = [queue EXCEPT ![c] = queue'[c]]
           /\ \A d \in Chans \ {c} : queue'[d] = queue[d]
  <1>1. c \in Buffered /\ c \in Chans /\ pc[t].at \in Sending
    BY SendEffects DEF SectionOf, Sending
  <1>2. pc[t].val \in Values
    BY <1>1 DEF ChanInv, PcInv
  <1>3. /\ queue = [d \in Chans |-> queue[d]] /\ IsQueue(queue[c], Values \cup {Null})
        /\ queue[c].capacity = Capacity[c] /\ Contents(queue[c]) \in Seq(Values)
        /\ queue[c].size \in 0..Capacity[c] /\ Capacity[c] \in Nat \ {0}
    BY <1>1, SizeFacts DEF ChanInv, QueueInv
  <1> DEFINE q == queue_add(queue[c], pc[t].val)
  <1>4. queue' = [queue EXCEPT ![c] = q] /\ queue[c].size # queue[c].capacity
    BY DEF BufferedSendAdds
  <1>5. queue[c].size < Capacity[c] /\ ~queue_at_capacity(queue[c])
    BY <1>3, <1>4 DEF queue_at_capacity
  <1>6. /\ IsQueue(q, Values \cup {Null}) /\ q.capacity = Capacity[c]
        /\ Contents(q) = Append(Contents(queue[c]), pc[t].val)
    <2>1. pc[t].val \in Values \cup {Null}
      BY <1>2
    <2> DEFINE V == Values \cup {Null}
    <2>2. pc[t].val \in V /\ IsQueue(queue[c], V)
      BY <1>3, <2>1
    <2> HIDE DEF V
    <2>3. /\ IsQueue(q, V) /\ q.capacity = queue[c].capacity
          /\ Contents(q) = Append(Contents(queue[c]), pc[t].val)
      BY <1>5, <2>2, AddWithRoom
    <2> QED
      BY <1>3, <2>3 DEF V
  <1>7. Len(Contents(q)) = q.size /\ Len(Contents(queue[c])) = queue[c].size
    BY <1>3, <1>6, ContentsType
  <1> HIDE DEF q
  <1>8. queue'[c] = q /\ \A d \in Chans \ {c} : queue'[d] = queue[d]
    BY <1>1, <1>3, <1>4
  <1>9. /\ Contents(q) \in Seq(Values)
        /\ Len(Contents(q)) = Len(Contents(queue[c])) + 1
    BY <1>2, <1>3, <1>6
  <1>10. q.size = queue[c].size + 1
    BY <1>3, <1>7, <1>9
  <1> QED
    BY <1>1, <1>2, <1>4, <1>5, <1>6, <1>8, <1>9, <1>10

\* The queue after buffered_chan_recv took a value from it.
LEMMA TakeFacts ==
    ASSUME ChanInv, NEW t \in Threads, BufferedRecvTakes(t), NEW c, c = pc[t].chan
    PROVE  /\ c \in Buffered /\ c \in Chans
           /\ IsQueue(queue'[c], Values \cup {Null}) /\ queue'[c].capacity = Capacity[c]
           /\ Contents(queue[c]) \in Seq(Values) /\ Contents(queue[c]) # <<>>
           /\ Contents(queue'[c]) = Tail(Contents(queue[c]))
           /\ Contents(queue'[c]) \in Seq(Values)
           /\ queue_peek(queue[c]) = Head(Contents(queue[c]))
           /\ Head(Contents(queue[c])) \in Values
           /\ queue'[c].size = queue[c].size - 1 /\ queue[c].size > 0
           /\ queue' = [queue EXCEPT ![c] = queue'[c]]
           /\ \A d \in Chans \ {c} : queue'[d] = queue[d]
           /\ received' = [received EXCEPT ![c] = Append(@, Head(Contents(queue[c])))]
  <1>1. c \in Buffered /\ c \in Chans
    BY RecvEffects DEF SectionOf
  <1>2. /\ queue = [d \in Chans |-> queue[d]] /\ IsQueue(queue[c], Values \cup {Null})
        /\ queue[c].capacity = Capacity[c] /\ Contents(queue[c]) \in Seq(Values)
        /\ queue[c].size \in 0..Capacity[c] /\ Len(Contents(queue[c])) = queue[c].size
    BY <1>1, SizeFacts DEF ChanInv, QueueInv
  <1> DEFINE q == queue_remove(queue[c])
  <1>3. /\ queue' = [queue EXCEPT ![c] = q] /\ queue[c].size > 0
        /\ received' = [received EXCEPT ![c] = Append(@, queue_peek(queue[c]))]
    BY DEF BufferedRecvTakes
  <1>4. /\ IsQueue(q, Values \cup {Null}) /\ q.capacity = Capacity[c]
        /\ queue_peek(queue[c]) = Head(Contents(queue[c]))
        /\ Contents(q) = Tail(Contents(queue[c]))
    BY <1>2, <1>3, RemoveTakesHead
  <1>5. Len(Contents(q)) = q.size
    BY <1>4, ContentsType
  <1> HIDE DEF q
  <1>6. queue'[c] = q /\ \A d \in Chans \ {c} : queue'[d] = queue[d]
    BY <1>1, <1>2, <1>3
  <1>7. Contents(queue[c]) # <<>>
    BY <1>2, <1>3
  <1>8. /\ Contents(q) \in Seq(Values) /\ Head(Contents(queue[c])) \in Values
        /\ Len(Contents(q)) = Len(Contents(queue[c])) - 1
    BY <1>2, <1>4, <1>7, HeadTailProperties
  <1>9. q.size = queue[c].size - 1
    BY <1>2, <1>5, <1>8
  <1> QED
    BY <1>1, <1>2, <1>3, <1>4, <1>6, <1>7, <1>8, <1>9

\* Only these two steps touch a queue.
LEMMA QueueFrame ==
    ASSUME NEW t \in Threads, StepOf(t)
    PROVE  \/ queue' = queue \/ BufferedSendAdds(t) \/ BufferedRecvTakes(t)
  BY DEF StepOf, Section, Outside, chan_send, chan_close, SpuriousWake, BufferedSendWaits,
         BufferedRecvFails, BufferedRecvWaits, UnbufferedSendFails, UnbufferedSendOffers,
         UnbufferedSendReturns, UnbufferedRecvFails, UnbufferedRecvWaits,
         UnbufferedRecvTakes, buffer

\* Only these three change what a channel has received or was given.
LEMMA BufferFrame ==
    ASSUME NEW t \in Threads, StepOf(t)
    PROVE  \/ queue' = queue /\ received' = received
           \/ BufferedSendAdds(t) \/ BufferedRecvTakes(t) \/ UnbufferedRecvTakes(t)
  BY DEF StepOf, Section, Outside, chan_send, chan_close, SpuriousWake, BufferedSendWaits,
         BufferedRecvFails, BufferedRecvWaits, UnbufferedSendFails, UnbufferedSendOffers,
         UnbufferedSendReturns, UnbufferedRecvFails, UnbufferedRecvWaits, buffer

\* The steps that leave both counters, the slot and closed as they are.
LEMMA StillFrame ==
    ASSUME NEW t \in Threads, StepOf(t)
    PROVE  \/ UNCHANGED <<closed, waiters, slot>>
           \/ Section(t)
           \/ \E c \in Chans : chan_close(t, c)
  BY DEF StepOf, Outside, chan_send, SpuriousWake

\* Only an offer writes the slot.
LEMMA DataFrame ==
    ASSUME NEW t \in Threads, StepOf(t)
    PROVE  data' = data \/ UnbufferedSendOffers(t)
  BY StillFrame
  DEF Section, chan_close, BufferedSendWaits, BufferedSendAdds, BufferedRecvFails,
      BufferedRecvWaits, BufferedRecvTakes, UnbufferedSendFails, UnbufferedSendReturns,
      UnbufferedRecvFails, UnbufferedRecvWaits, UnbufferedRecvTakes, slot

\* Only a wait that returns unsignalled adds to early.
LEMMA EarlyFrame ==
    ASSUME NEW t \in Threads, StepOf(t)
    PROVE  early' = early \/ SpuriousWake(t)
  BY DEF StepOf, Section, Outside, chan_send, chan_close, BufferedSendWaits,
         BufferedSendAdds, BufferedRecvFails, BufferedRecvWaits, BufferedRecvTakes,
         UnbufferedSendFails, UnbufferedSendOffers, UnbufferedSendReturns,
         UnbufferedRecvFails, UnbufferedRecvWaits, UnbufferedRecvTakes

LEMMA EarlyFacts ==
    ASSUME ChanInv, NEW t \in Threads, SpuriousWake(t)
    PROVE  /\ pc[t].chan \in Chans
           /\ early' \in [Chans -> SUBSET Values]
           /\ \A c \in Chans : early[c] \subseteq early'[c]
           /\ pc[t].at = "write" /\ pc[t].chan \notin Buffered =>
                 pc[t].val \in early'[pc[t].chan]
  <1>1. /\ pc[t].chan \in Chans /\ (pc[t].at = "write" => pc[t].val \in Values)
        /\ early \in [Chans -> SUBSET Values]
        /\ pc[t].chan \in Buffered <=> chan_is_buffered(pc[t].chan)
    BY DEF SpuriousWake, ChanInv, PcInv, Shape, Sending, Receiving, Buffered
  <1>2. CASE pc[t].at = "write" /\ pc[t].chan \notin Buffered
    <2>1. early' = [early EXCEPT ![pc[t].chan] = @ \cup {pc[t].val}]
      BY <1>1, <1>2 DEF SpuriousWake, At
    <2> QED
      BY <1>1, <1>2, <2>1
  <1>3. CASE ~(pc[t].at = "write" /\ pc[t].chan \notin Buffered)
    <2>1. early' = early
      BY <1>1, <1>3 DEF SpuriousWake, At
    <2> QED
      BY <1>1, <1>3, <2>1
  <1> QED
    BY <1>2, <1>3

\* So a channel that is torn stays so.
LEMMA ReliableAfter ==
    ASSUME ChanInv, NEW t \in Threads, StepOf(t)
    PROVE  /\ Buffered' = Buffered /\ Buffered \subseteq Chans
           /\ Reliable \subseteq Chans /\ Buffered \subseteq Reliable
           /\ Reliable' \subseteq Reliable /\ (early' = early => Reliable' = Reliable)
           /\ \A c \in Chans : early[c] \subseteq early'[c]
  <1>1. Buffered' = Buffered /\ Buffered \subseteq Chans
    BY DEF Buffered, chan_is_buffered
  <1>2. \A c \in Chans : early[c] \subseteq early'[c]
    BY EarlyFrame, EarlyFacts
  <1>3. /\ Reliable = {c \in Chans : c \in Buffered \/ early[c] = {}}
        /\ Reliable' = {c \in Chans : c \in Buffered \/ early'[c] = {}}
    BY <1>1 DEF Reliable, Torn
  <1> QED
    BY <1>1, <1>2, <1>3

\* A value that an unbuffered receive takes was offered.
LEMMA HandOffFacts ==
    ASSUME ChanInv, NEW t \in Threads, UnbufferedRecvTakes(t), NEW c, c = pc[t].chan
    PROVE  /\ c \in Chans \ Buffered /\ data[c] \in Values /\ ~closed[c]
           /\ w_waiting[c] \in Nat \ {0} /\ w_waiting' = [w_waiting EXCEPT ![c] = @ - 1]
           /\ received' = [received EXCEPT ![c] = Append(@, data[c])]
           /\ queue' = queue
  <1>1. c \in Chans \ Buffered
    BY RecvEffects DEF SectionOf
  <1>2. /\ w_waiting[c] # 0 /\ ~closed[c] /\ w_waiting' = [w_waiting EXCEPT ![c] = @ - 1]
        /\ received' = [received EXCEPT ![c] = Append(@, data[c])] /\ queue' = queue
    BY DEF UnbufferedRecvTakes
  <1>3. data[c] \in Values /\ w_waiting[c] \in Nat
    BY <1>1, <1>2 DEF ChanInv, Shape, QueueInv
  <1> QED
    BY <1>1, <1>2, <1>3

\* The sender whose call ends, and its value.
LEMMA ReturnFacts ==
    ASSUME ChanInv, NEW t \in Threads,
           BufferedSendAdds(t) \/ UnbufferedSendFails(t) \/ UnbufferedSendReturns(t)
    PROVE  /\ pc[t].val \in Values /\ pc[t].at \in {"put", "write_again"}
           /\ \E status \in {"ok", "error"} : Returns(t, status)
  <1>1. pc[t].at \in {"put", "write_again"}
    BY SendEffects DEF SectionOf
  <1>2. pc[t].val \in Values
    BY <1>1 DEF ChanInv, PcInv, Sending
  <1> QED
    BY <1>1, <1>2 DEF BufferedSendAdds, UnbufferedSendFails, UnbufferedSendReturns

\* Only these change result.
LEMMA ResultFrame ==
    ASSUME NEW t \in Threads, StepOf(t)
    PROVE  \/ result' = result
           \/ BufferedSendAdds(t) \/ UnbufferedSendFails(t) \/ UnbufferedSendReturns(t)
           \/ pc[t].at \in {"idle", "select"} /\ \E c \in Chans : chan_send(t, c)
  BY DEF StepOf, Section, Quiet, chan_close, SpuriousWake, BufferedSendWaits,
         BufferedRecvFails, BufferedRecvWaits, BufferedRecvTakes, UnbufferedSendOffers,
         UnbufferedRecvFails, UnbufferedRecvWaits, UnbufferedRecvTakes

LEMMA UsedFrame ==
    ASSUME NEW t \in Threads, StepOf(t)
    PROVE  \/ used' = used \/ Quiet(t) \/ SpuriousWake(t)
           \/ pc[t].at \in {"idle", "select"} /\ \E c \in Chans : chan_send(t, c)
  BY DEF StepOf, Section, chan_close, BufferedSendWaits, BufferedSendAdds,
         BufferedRecvFails, BufferedRecvWaits, BufferedRecvTakes, UnbufferedSendFails,
         UnbufferedSendOffers, UnbufferedSendReturns,
         UnbufferedRecvFails, UnbufferedRecvWaits, UnbufferedRecvTakes

\* A beginning send takes the next value.
LEMMA FreshFacts ==
    ASSUME ChanInv, NEW t \in Threads, NEW c \in Chans, chan_send(t, c),
           pc[t].at \in {"idle", "select"}
    PROVE  /\ Outside(t) /\ used' \in Calls /\ used'.sends = used.sends + 1
           /\ used.sends \in Nat /\ used.sends + 1 \in Values
           /\ \/ /\ pc'[t].at = "idle"
                 /\ result' = [result EXCEPT ![used.sends + 1] = "error"]
              \/ /\ pc'[t].at = "put" /\ pc'[t].chan = c /\ pc'[t].val = used.sends + 1
                 /\ result' = result
  <1>1. used \in Calls /\ used.sends \in Nat
    BY CallFacts DEF ChanInv, Shape
  <1>2. /\ Outside(t) /\ used.sends + 1 \in Values
        /\ used' = [used EXCEPT !.sends = used.sends + 1]
        /\ \/ /\ pc'[t].at = "idle"
              /\ result' = [result EXCEPT ![used.sends + 1] = "error"]
           \/ /\ pc'[t].at = "put" /\ pc'[t].chan = c /\ pc'[t].val = used.sends + 1
              /\ result' = result
    BY <1>1, SendBegins DEF ChanInv
  <1>3. used' \in Calls /\ used'.sends = used.sends + 1
    BY <1>1, <1>2, CallFacts
  <1> QED
    BY <1>1, <1>2, <1>3

LEMMA ShapeStep ==
    ASSUME ChanInv, NEW t \in Threads, StepOf(t) PROVE Shape'
  <1> DEFINE c == pc[t].chan
  <1>0. Shape /\ (Section(t) => c \in Chans)
    BY SectionMoves DEF ChanInv
  <1>1. closed' \in [Chans -> BOOLEAN]
    <2>1. closed' = closed \/ \E d \in Chans : closed' = [closed EXCEPT ![d] = TRUE]
      BY StillFrame
      DEF Section, chan_close, BufferedSendWaits, BufferedSendAdds, BufferedRecvFails,
          BufferedRecvWaits, BufferedRecvTakes, UnbufferedSendFails, UnbufferedSendOffers,
          UnbufferedSendReturns, UnbufferedRecvFails, UnbufferedRecvWaits,
          UnbufferedRecvTakes
    <2> QED
      BY <1>0, <2>1 DEF Shape
  <1>2. r_waiting' \in [Chans -> Nat]
    <2>1. \E n : r_waiting' = r_waiting \/ r_waiting' = [r_waiting EXCEPT ![c] = n]
      BY StillFrame
      DEF Section, chan_close, BufferedSendWaits, BufferedSendAdds, BufferedRecvFails,
          BufferedRecvWaits, BufferedRecvTakes, UnbufferedSendFails, UnbufferedSendOffers,
          UnbufferedSendReturns, UnbufferedRecvFails, UnbufferedRecvWaits,
          UnbufferedRecvTakes, waiters
    <2>2. r_waiting' = [d \in Chans |-> r_waiting'[d]]
      BY <1>0, <2>1 DEF Shape
    <2>3. \A d \in Chans : r_waiting'[d] \in Nat
      <3> TAKE d \in Chans
      <3>1. r_waiting'[d] = Cardinality(Readers(d)')
        BY CountStep DEF WaitersCounted, Readers
      <3>2. Readers(d)' \in SUBSET Threads
        BY DEF Readers, ThreadsAt
      <3> QED
        BY <3>1, <3>2, SetFacts
    <2> QED
      BY <2>2, <2>3
  <1>3. w_waiting' \in [Chans -> Nat]
    <2>1. CASE BufferedSendWaits(t) \/ BufferedSendAdds(t)
      <3>1. c \in Buffered /\ c \in Chans
        BY <2>1, SendEffects DEF SectionOf
      <3>2. \E n : w_waiting' = [w_waiting EXCEPT ![c] = n]
        BY <2>1 DEF BufferedSendWaits, BufferedSendAdds
      <3>3. ASSUME NEW d \in Buffered PROVE w_waiting'[d] \in Nat
        <4>1. d \in Chans
          BY DEF Buffered
        <4>2. w_waiting'[d] = Cardinality(Writers(d)')
          BY <4>1, CountStep DEF WaitersCounted, Writers, Buffered, chan_is_buffered
        <4>3. Writers(d)' \in SUBSET Threads
          BY DEF Writers, ThreadsAt
        <4> QED
          BY <4>2, <4>3, SetFacts
      <3>4. w_waiting'[c] \in Nat
        BY <3>1, <3>3
      <3> QED
        BY <1>0, <3>1, <3>2, <3>4 DEF Shape
    <2>2. CASE UnbufferedSendOffers(t)
      <3>1. c \in Chans /\ w_waiting[c] + 1 \in Nat
        BY <1>0, <2>2 DEF Section, Shape
      <3>2. w_waiting' = [w_waiting EXCEPT ![c] = w_waiting[c] + 1]
        BY <2>2 DEF UnbufferedSendOffers
      <3> QED
        BY <1>0, <3>1, <3>2 DEF Shape
    <2>3. CASE UnbufferedRecvTakes(t)
      <3>1. c \in Chans /\ w_waiting[c] - 1 \in Nat
            /\ w_waiting' = [w_waiting EXCEPT ![c] = w_waiting[c] - 1]
        BY <2>3, HandOffFacts
      <3> QED
        BY <1>0, <3>1 DEF Shape
    <2>4. CASE w_waiting' = w_waiting
      BY <1>0, <2>4 DEF Shape
    <2> QED
      BY <2>1, <2>2, <2>3, <2>4, StillFrame
      DEF Section, chan_close, BufferedRecvFails, BufferedRecvWaits, BufferedRecvTakes,
          UnbufferedSendFails, UnbufferedSendReturns, UnbufferedRecvFails,
          UnbufferedRecvWaits, waiters
  <1>4. data' \in [Chans -> Values \cup {Null}]
    <2>1. CASE UnbufferedSendOffers(t)
      <3>1. pc[t].at = "put"
        BY <2>1 DEF UnbufferedSendOffers, At
      <3>2. pc[t].val \in Values
        BY <3>1 DEF ChanInv, PcInv, Sending
      <3> QED
        BY <1>0, <2>1, <3>2 DEF UnbufferedSendOffers, Shape
    <2>2. CASE data' = data
      BY <1>0, <2>2 DEF Shape
    <2> QED
      BY <2>1, <2>2, StillFrame
      DEF Section, chan_close, BufferedSendWaits, BufferedSendAdds, BufferedRecvFails,
          BufferedRecvWaits, BufferedRecvTakes, UnbufferedSendFails,
          UnbufferedSendReturns, UnbufferedRecvFails, UnbufferedRecvWaits,
          UnbufferedRecvTakes, slot
  <1>5. r_mu' \in [Chans -> Threads \cup {Null}]
    <2>1. \/ r_mu' = r_mu
          \/ r_mu' = [r_mu EXCEPT ![c] = t]
          \/ r_mu' = [r_mu EXCEPT ![c] = Null]
      BY StillFrame
      DEF Section, chan_close, BufferedSendWaits, BufferedSendAdds, BufferedRecvFails,
          BufferedRecvWaits, BufferedRecvTakes, UnbufferedSendFails, UnbufferedSendOffers,
          UnbufferedSendReturns, UnbufferedRecvFails, UnbufferedRecvWaits,
          UnbufferedRecvTakes, slot
    <2> QED
      BY <1>0, <2>1 DEF Shape
  <1>6. w_mu' \in [Chans -> Threads \cup {Null}]
    <2>1. \/ w_mu' = w_mu
          \/ w_mu' = [w_mu EXCEPT ![c] = t]
          \/ w_mu' = [w_mu EXCEPT ![c] = Null]
      BY StillFrame
      DEF Section, chan_close, BufferedSendWaits, BufferedSendAdds, BufferedRecvFails,
          BufferedRecvWaits, BufferedRecvTakes, UnbufferedSendFails, UnbufferedSendOffers,
          UnbufferedSendReturns, UnbufferedRecvFails, UnbufferedRecvWaits,
          UnbufferedRecvTakes, slot
    <2> QED
      BY <1>0, <2>1 DEF Shape
  <1>7. result' \in [Values -> {"none", "ok", "error"}]
    <2>1. ASSUME NEW d \in Chans, chan_send(t, d), pc[t].at \in {"idle", "select"}
          PROVE  result' = result \/ result' = [result EXCEPT ![used.sends + 1] = "error"]
      BY <2>1, FreshFacts
    <2>2. ASSUME BufferedSendAdds(t) \/ UnbufferedSendFails(t) \/ UnbufferedSendReturns(t)
          PROVE  \E status \in {"ok", "error"} :
                     result' = [result EXCEPT ![pc[t].val] = status]
      BY <2>2, ReturnFacts DEF Returns
    <2> QED
      BY <1>0, <2>1, <2>2, ResultFrame DEF Shape
  <1>8. received' \in [Chans -> Seq(Values)]
    <2>1. CASE BufferedRecvTakes(t)
      <3>1. c \in Chans /\ Head(Contents(queue[c])) \in Values
            /\ received' = [received EXCEPT ![c] = Append(@, Head(Contents(queue[c])))]
        BY <2>1, TakeFacts
      <3> QED
        BY <1>0, <3>1 DEF Shape
    <2>2. CASE UnbufferedRecvTakes(t)
      <3>1. c \in Chans /\ data[c] \in Values
            /\ received' = [received EXCEPT ![c] = Append(@, data[c])]
        BY <2>2, HandOffFacts
      <3> QED
        BY <1>0, <3>1 DEF Shape
    <2>3. CASE received' = received
      BY <1>0, <2>3 DEF Shape
    <2> QED
      BY <2>1, <2>2, <2>3, BufferFrame DEF BufferedSendAdds
  <1>9. used' \in Calls /\ used'.sends <= MaxSends
    <2>1. CASE Quiet(t)
      BY <1>0, <2>1 DEF Quiet, Shape
    <2>2. CASE SpuriousWake(t)
      BY <1>0, <2>2, CallFacts DEF SpuriousWake, Shape
    <2>3. ASSUME NEW d \in Chans, chan_send(t, d), pc[t].at \in {"idle", "select"}
          PROVE  used' \in Calls /\ used'.sends <= MaxSends
      BY <2>3, FreshFacts, ChanAssumption DEF Values
    <2> QED
      BY <1>0, <2>1, <2>2, <2>3, UsedFrame DEF Shape
  <1>10. early' \in [Chans -> SUBSET Values]
    BY <1>0, EarlyFrame, EarlyFacts DEF Shape
  <1> QED
    BY <1>1, <1>2, <1>3, <1>4, <1>5, <1>6, <1>7, <1>8, <1>9, <1>10 DEF Shape

LEMMA QueueStep ==
    ASSUME ChanInv, NEW t \in Threads, StepOf(t) PROVE QueueInv'
  <1> DEFINE c == pc[t].chan
  <1>0. QueueInv
    BY DEF ChanInv
  <1>1. /\ queue' = [d \in Chans |-> queue'[d]]
        /\ \A d \in Buffered : /\ IsQueue(queue'[d], Values \cup {Null})
                               /\ queue'[d].capacity = Capacity[d]
                               /\ Contents(queue'[d]) \in Seq(Values)
        /\ \A d \in Chans \ Buffered : queue'[d] = queue[d]
    <2>0. Buffered \subseteq Chans
      BY DEF Buffered
    <2>1. CASE queue' = queue
      BY <1>0, <2>1 DEF QueueInv
    <2>2. CASE BufferedSendAdds(t)
      <3>1. /\ c \in Buffered /\ c \in Chans
            /\ IsQueue(queue'[c], Values \cup {Null}) /\ queue'[c].capacity = Capacity[c]
            /\ Contents(queue'[c]) \in Seq(Values)
            /\ queue' = [queue EXCEPT ![c] = queue'[c]]
            /\ \A d \in Chans \ {c} : queue'[d] = queue[d]
        BY <2>2, AddFacts
      <3>2. queue' = [d \in Chans |-> queue'[d]]
        BY <1>0, <3>1 DEF QueueInv
      <3> QED
        BY <1>0, <2>0, <3>1, <3>2 DEF QueueInv
    <2>3. CASE BufferedRecvTakes(t)
      <3>1. /\ c \in Buffered /\ c \in Chans
            /\ IsQueue(queue'[c], Values \cup {Null}) /\ queue'[c].capacity = Capacity[c]
            /\ Contents(queue'[c]) \in Seq(Values)
            /\ queue' = [queue EXCEPT ![c] = queue'[c]]
            /\ \A d \in Chans \ {c} : queue'[d] = queue[d]
        BY <2>3, TakeFacts
      <3>2. queue' = [d \in Chans |-> queue'[d]]
        BY <1>0, <3>1 DEF QueueInv
      <3> QED
        BY <1>0, <2>0, <3>1, <3>2 DEF QueueInv
    <2> QED
      BY <2>1, <2>2, <2>3, QueueFrame
  <1>2. ASSUME NEW d \in Chans \ Buffered, w_waiting'[d] # 0 PROVE data'[d] \in Values
    <2>0. Shape /\ (w_waiting[d] # 0 => data[d] \in Values)
      BY <1>0, <1>2 DEF QueueInv, ChanInv
    <2>1. CASE UnbufferedSendOffers(t)
      <3>1. pc[t].at = "put" /\ data' = [data EXCEPT ![c] = pc[t].val]
            /\ w_waiting' = [w_waiting EXCEPT ![c] = @ + 1]
        BY <2>1 DEF UnbufferedSendOffers, At
      <3>2. pc[t].val \in Values
        BY <3>1 DEF ChanInv, PcInv, Sending
      <3> QED
        BY <1>2, <2>0, <3>1, <3>2 DEF Shape
    <2>2. CASE UnbufferedRecvTakes(t)
      <3>1. /\ c \in Chans /\ data' = data /\ w_waiting[c] \in Nat \ {0}
            /\ w_waiting' = [w_waiting EXCEPT ![c] = @ - 1]
        BY <2>2, HandOffFacts DEF UnbufferedRecvTakes
      <3> QED
        BY <1>2, <2>0, <3>1 DEF Shape
    <2>3. CASE BufferedSendWaits(t) \/ BufferedSendAdds(t)
      <3>1. c \in Buffered /\ d # c
        BY <1>2, <2>3, SendEffects
      <3>2. data' = data /\ \E n : w_waiting' = [w_waiting EXCEPT ![c] = n]
        BY <2>3 DEF BufferedSendWaits, BufferedSendAdds, slot
      <3> QED
        BY <1>2, <2>0, <3>1, <3>2 DEF Shape
    <2>4. CASE data' = data /\ w_waiting' = w_waiting
      BY <1>2, <2>0, <2>4
    <2> QED
      BY <2>1, <2>2, <2>3, <2>4, StillFrame
      DEF Section, chan_close, BufferedRecvFails, BufferedRecvWaits, BufferedRecvTakes,
          UnbufferedSendFails, UnbufferedSendReturns, UnbufferedRecvFails,
          UnbufferedRecvWaits, waiters, slot
  <1> QED
    BY <1>0, <1>1, <1>2 DEF QueueInv, Buffered, chan_is_buffered
-----------------------------------------------------------------------------
(* Who holds r_mu and w_mu.                                                *)

\* The waiting threads of a channel after a section, and of the other channels.
LEMMA WaitersAfter ==
    ASSUME ChanInv, NEW t \in Threads, Section(t), NEW d
    PROVE  /\ Readers(d)' \ {t} = Readers(d) \ {t}
           /\ Writers(d)' \ {t} = Writers(d) \ {t}
           /\ t \in Readers(d) <=> pc[t].at = "read_again" /\ d = pc[t].chan
           /\ t \in Writers(d) <=> pc[t].at = "write_again" /\ d = pc[t].chan
           /\ t \in Readers(d)' <=> pc'[t].at = "read" /\ d = pc[t].chan
           /\ t \in Writers(d)' <=> pc'[t].at = "write" /\ d = pc[t].chan
  <1>1. /\ pc[t].at \in {"put", "write_again", "recv", "read_again"}
        /\ pc'[t] = Idle \/ Waits(t)
        /\ \A x \in Threads \ {t} : Same(x) \/ Wakes(x)
    BY SectionMoves
  <1>2. ASSUME NEW x \in Threads \ {t}
        PROVE  /\ x \in Readers(d)' <=> x \in Readers(d)
               /\ x \in Writers(d)' <=> x \in Writers(d)
    BY <1>1 DEF Same, Wakes, Readers, Writers, ThreadsAt
  <1>3. Readers(d)' \subseteq Threads /\ Readers(d) \subseteq Threads
        /\ Writers(d)' \subseteq Threads /\ Writers(d) \subseteq Threads
    BY DEF Readers, Writers, ThreadsAt
  <1>4. /\ t \in Readers(d) <=> pc[t].at = "read_again" /\ d = pc[t].chan
        /\ t \in Writers(d) <=> pc[t].at = "write_again" /\ d = pc[t].chan
    BY <1>1 DEF Readers, Writers, ThreadsAt
  <1>5. /\ t \in Readers(d)' <=> pc'[t].at = "read" /\ d = pc[t].chan
        /\ t \in Writers(d)' <=> pc'[t].at = "write" /\ d = pc[t].chan
    BY <1>1, IdleFacts DEF Readers, Writers, ThreadsAt, Waits
  <1>6. Readers(d)' \ {t} = Readers(d) \ {t} /\ Writers(d)' \ {t} = Writers(d) \ {t}
    BY <1>2, <1>3
  <1> QED
    BY <1>4, <1>5, <1>6

LEMMA MutexStep ==
    ASSUME ChanInv, NEW t \in Threads, StepOf(t) PROVE MutexInv'
  <1> DEFINE c == pc[t].chan
             Ok(d, x) == /\ r_mu'[d] = x <=> x \in Readers(d)'
                         /\ w_mu'[d] = x <=> x \in Writers(d)'
  <1>0. SUFFICES ASSUME NEW d \in Chans \ Buffered, NEW x \in Threads PROVE Ok(d, x)
    BY DEF MutexInv, Readers, Writers, Buffered, chan_is_buffered
  <1>1. \A y \in Threads : /\ r_mu[d] = y <=> y \in Readers(d)
                           /\ w_mu[d] = y <=> y \in Writers(d)
    BY DEF ChanInv, MutexInv, Readers, Writers
  <1>2. d \in Chans /\ d \notin Buffered /\ Null \notin Threads /\ Shape
    BY ChanAssumption DEF ChanInv
  <1>3. ASSUME UNCHANGED slot, Readers(d)' = Readers(d), Writers(d)' = Writers(d)
        PROVE  Ok(d, x)
    BY <1>1, <1>3 DEF slot
  <1>4. CASE Outside(t)
    BY <1>3, <1>4, WaitingStays DEF Outside, Readers, Writers
  <1>5. ASSUME NEW e \in Chans, chan_close(t, e) PROVE Ok(d, x)
    <2>1. Readers(d)' = Readers(d) /\ Writers(d)' = Writers(d)
      BY <1>5, CloseMoves DEF Same, Wakes, Readers, Writers, ThreadsAt
    <2> QED
      BY <1>3, <1>5, <2>1 DEF chan_close
  <1>6. CASE SpuriousWake(t)
    <2>1. Readers(d)' = Readers(d) /\ Writers(d)' = Writers(d)
      BY <1>6, SpuriousMoves DEF Same, Wakes, Readers, Writers, ThreadsAt
    <2> QED
      BY <1>3, <1>6, <2>1 DEF SpuriousWake
  <1>7. CASE Section(t)
    <2>0. /\ Readers(d)' \ {t} = Readers(d) \ {t}
          /\ Writers(d)' \ {t} = Writers(d) \ {t}
          /\ t \in Readers(d) <=> pc[t].at = "read_again" /\ d = c
          /\ t \in Writers(d) <=> pc[t].at = "write_again" /\ d = c
          /\ t \in Readers(d)' <=> pc'[t].at = "read" /\ d = c
          /\ t \in Writers(d)' <=> pc'[t].at = "write" /\ d = c
      BY <1>7, WaitersAfter
    <2>1. ASSUME c \in Buffered, UNCHANGED slot PROVE Ok(d, x)
      <3>1. Readers(d)' = Readers(d) /\ Writers(d)' = Writers(d)
        BY <1>2, <2>0, <2>1
      <3> QED
        BY <1>3, <2>1, <3>1
    <2>2. CASE BufferedSendWaits(t) \/ BufferedSendAdds(t)
      BY <2>1, <2>2, SendEffects DEF BufferedSendWaits, BufferedSendAdds
    <2>3. CASE BufferedRecvFails(t) \/ BufferedRecvWaits(t) \/ BufferedRecvTakes(t)
      BY <2>1, <2>3, RecvEffects DEF BufferedRecvFails, BufferedRecvWaits, BufferedRecvTakes
    <2>4. CASE UnbufferedSendFails(t)
      <3>1. pc[t].at = "put" /\ pc'[t].at = "idle" /\ UNCHANGED slot
        BY <2>4, SendEffects, IdleFacts DEF SectionOf, Ends, UnbufferedSendFails
      <3>2. Readers(d)' = Readers(d) /\ Writers(d)' = Writers(d)
        BY <2>0, <3>1
      <3> QED
        BY <1>3, <3>1, <3>2
    <2>5. CASE UnbufferedSendOffers(t)
      <3>1. /\ pc[t].at = "put" /\ pc'[t].at = "write" /\ w_mu[c] = Null
            /\ w_mu' = [w_mu EXCEPT ![c] = t] /\ r_mu' = r_mu
        <4>1. /\ SectionOf(t, c, {"put"}, Sleeps(t, "write") /\ WokeOne(t, "read", c))
              /\ PcInv
          BY <2>5, SendEffects DEF ChanInv
        <4>2. pc[t].at = "put" /\ Sleeps(t, "write")
          BY <4>1 DEF SectionOf
        <4>3. pc'[t].at = "write"
          BY <4>1, <4>2, SleeperWaits
        <4> QED
          BY <2>5, <4>2, <4>3 DEF UnbufferedSendOffers
      <3>2. Readers(d)' = Readers(d)
        BY <2>0, <3>1
      <3>3. CASE d = c
        <4>1. Writers(d) = {}
          <5>1. \A y \in Threads : y \notin Writers(d)
            BY <1>1, <1>2, <3>1, <3>3
          <5> QED
            BY <5>1 DEF Writers, ThreadsAt
        <4>2. Writers(d)' = {t}
          BY <2>0, <3>1, <3>3, <4>1
        <4> QED
          BY <1>1, <1>2, <3>1, <3>2, <3>3, <4>2 DEF Shape
      <3>4. CASE d # c
        <4>1. Writers(d)' = Writers(d)
          BY <2>0, <3>4
        <4>2. w_mu'[d] = w_mu[d]
          BY <1>2, <3>1, <3>4 DEF Shape
        <4> QED
          BY <1>1, <3>1, <3>2, <4>1, <4>2
      <3> QED
        BY <3>3, <3>4
    <2>6. CASE UnbufferedSendReturns(t)
      <3>1. /\ pc[t].at = "write_again" /\ pc'[t].at = "idle"
            /\ w_mu' = [w_mu EXCEPT ![c] = Null] /\ r_mu' = r_mu
        BY <2>6, SendEffects, IdleFacts DEF SectionOf, Ends, UnbufferedSendReturns
      <3>2. Readers(d)' = Readers(d)
        BY <2>0, <3>1
      <3>3. CASE d = c
        <4>1. w_mu[d] = t
          BY <1>1, <2>0, <3>1, <3>3
        <4>2. x \notin Writers(d)'
          BY <1>1, <2>0, <3>1, <4>1
        <4>3. w_mu'[d] = Null
          BY <1>2, <3>1, <3>3 DEF Shape
        <4> QED
          BY <1>1, <1>2, <3>1, <3>2, <4>2, <4>3
      <3>4. CASE d # c
        <4>1. Writers(d)' = Writers(d)
          BY <2>0, <3>4
        <4>2. w_mu'[d] = w_mu[d]
          BY <1>2, <3>1, <3>4 DEF Shape
        <4> QED
          BY <1>1, <3>1, <3>2, <4>1, <4>2
      <3> QED
        BY <3>3, <3>4
    <2>7. CASE UnbufferedRecvWaits(t)
      <3>1. /\ pc[t].at \in {"recv", "read_again"} /\ pc'[t].at = "read"
            /\ r_mu' = [r_mu EXCEPT ![c] = t] /\ w_mu' = w_mu
            /\ pc[t].at = "recv" => r_mu[c] = Null
        <4>1. /\ SectionOf(t, c, {"recv", "read_again"}, Sleeps(t, "read") /\ Alone(t))
              /\ PcInv
          BY <2>7, RecvEffects DEF ChanInv
        <4>2. pc[t].at \in {"recv", "read_again"} /\ Sleeps(t, "read")
          BY <4>1 DEF SectionOf
        <4>3. pc'[t].at = "read"
          BY <4>1, <4>2, SleeperWaits
        <4> QED
          BY <2>7, <4>2, <4>3 DEF UnbufferedRecvWaits, InUnbufferedRecv, At
      <3>2. Writers(d)' = Writers(d)
        BY <2>0, <3>1
      <3>3. CASE d = c
        <4>1. \A y \in Threads \ {t} : y \notin Readers(d)
          BY <1>1, <1>2, <2>0, <3>1, <3>3
        <4>2. Readers(d)' \subseteq Threads
          BY DEF Readers, ThreadsAt
        <4>3. Readers(d)' = {t}
          BY <2>0, <3>1, <3>3, <4>1, <4>2
        <4> QED
          BY <1>1, <1>2, <3>1, <3>2, <3>3, <4>3 DEF Shape
      <3>4. CASE d # c
        <4>1. Readers(d)' = Readers(d)
          BY <2>0, <3>4
        <4>2. r_mu'[d] = r_mu[d]
          BY <1>2, <3>1, <3>4 DEF Shape
        <4> QED
          BY <1>1, <3>1, <3>2, <4>1, <4>2
      <3> QED
        BY <3>3, <3>4
    <2>8. CASE UnbufferedRecvFails(t) \/ UnbufferedRecvTakes(t)
      <3>1. /\ pc[t].at \in {"recv", "read_again"} /\ pc'[t].at = "idle"
            /\ r_mu' = [r_mu EXCEPT ![c] = Null] /\ w_mu' = w_mu
            /\ pc[t].at = "recv" => r_mu[c] = Null
        <4>1. pc[t].at \in {"recv", "read_again"} /\ pc'[t].at = "idle"
          BY <2>8, RecvEffects, IdleFacts DEF SectionOf, Ends
        <4> QED
          BY <2>8, <4>1 DEF UnbufferedRecvFails, UnbufferedRecvTakes, InUnbufferedRecv, At
      <3>2. Writers(d)' = Writers(d)
        BY <2>0, <3>1
      <3>3. CASE d = c
        <4>1. \A y \in Threads \ {t} : y \notin Readers(d)
          BY <1>1, <1>2, <2>0, <3>1, <3>3
        <4>2. x \notin Readers(d)'
          BY <2>0, <3>1, <4>1
        <4>3. r_mu'[d] = Null
          BY <1>2, <3>1, <3>3 DEF Shape
        <4> QED
          BY <1>1, <1>2, <3>1, <3>2, <4>2, <4>3
      <3>4. CASE d # c
        <4>1. Readers(d)' = Readers(d)
          BY <2>0, <3>4
        <4>2. r_mu'[d] = r_mu[d]
          BY <1>2, <3>1, <3>4 DEF Shape
        <4> QED
          BY <1>1, <3>1, <3>2, <4>1, <4>2
      <3> QED
        BY <3>3, <3>4
    <2> QED
      BY <1>7, <2>2, <2>3, <2>4, <2>5, <2>6, <2>7, <2>8 DEF Section
  <1>8. ASSUME NEW e \in Chans, chan_send(t, e), pc[t].at \in {"idle", "select"}
        PROVE  Outside(t)
    BY <1>8, FreshFacts
  <1> QED
    BY <1>4, <1>5, <1>6, <1>7, <1>8 DEF StepOf
-----------------------------------------------------------------------------
(* No wake-up is lost.                                                     *)

\* The two halves of NoLostWakeup for one channel, over the sets of sleeping and of
\* woken threads.
ReadersServed(c) ==
    ThreadsAt({"read"}, c) # {} =>
        /\ ~closed[c]
        /\ c \in Buffered => queue[c].size <= Cardinality(ThreadsAt({"read_again"}, c))
        /\ c \notin Buffered => w_waiting[c] = 0
WritersServed(c) ==
    (c \in Buffered /\ ThreadsAt({"write"}, c) # {}) =>
        Capacity[c] - queue[c].size <= Cardinality(ThreadsAt({"write_again"}, c))

LEMMA ServedIsNoLost ==
    /\ NoLostWakeup <=> \A c \in Chans : ReadersServed(c) /\ WritersServed(c)
    /\ NoLostWakeup' <=> \A c \in Chans : ReadersServed(c)' /\ WritersServed(c)'
  BY DEF NoLostWakeup, ReadersServed, WritersServed

\* Sets of sleeping or woken threads are counted.
LEMMA AtFacts ==
    ASSUME NEW P, NEW c, NEW t \in Threads
    PROVE  /\ ThreadsAt(P, c) \in SUBSET Threads /\ ThreadsAt(P, c)' \in SUBSET Threads
           /\ Cardinality(ThreadsAt(P, c)) \in Nat /\ Cardinality(ThreadsAt(P, c)') \in Nat
           /\ Cardinality(ThreadsAt(P, c) \ {t}) \in Nat
           /\ Cardinality(ThreadsAt(P, c) \ {t}) >= Cardinality(ThreadsAt(P, c)) - 1
           /\ t \notin ThreadsAt(P, c) =>
                 Cardinality(ThreadsAt(P, c) \cup {t}) = Cardinality(ThreadsAt(P, c)) + 1
  <1>1. ThreadsAt(P, c) \in SUBSET Threads /\ ThreadsAt(P, c)' \in SUBSET Threads
    BY DEF ThreadsAt
  <1> DEFINE S == ThreadsAt(P, c)
             T == ThreadsAt(P, c)'
  <1>2. S \in SUBSET Threads /\ T \in SUBSET Threads
    BY <1>1
  <1> HIDE DEF S, T
  <1>3. /\ Cardinality(S) \in Nat
        /\ (t \in S) => (Cardinality(S \ {t}) = Cardinality(S) - 1)
        /\ (t \notin S) => (Cardinality(S \ {t}) = Cardinality(S))
        /\ Cardinality(S \cup {t}) = Cardinality(S \ {t}) + 1
    BY <1>2, SetFacts
  <1>4. Cardinality(T) \in Nat /\ Cardinality(S \ {t}) \in Nat
    <2>1. S \ {t} \in SUBSET Threads
      BY <1>2
    <2> QED
      BY <1>2, <2>1, SetFacts
  <1>5. Cardinality(S \ {t}) >= Cardinality(S) - 1
    BY <1>3
  <1>6. t \notin S => Cardinality(S \cup {t}) = Cardinality(S) + 1
    BY <1>3
  <1> QED
    BY <1>1, <1>3, <1>4, <1>5, <1>6 DEF S, T

\* A section moves threads of its own channel only.
LEMMA Elsewhere ==
    ASSUME ChanInv, NEW t \in Threads, Section(t), NEW d \in Chans, d # pc[t].chan,
           NEW P \in SUBSET {"read", "read_again", "write", "write_again"}
    PROVE  ThreadsAt(P, d)' = ThreadsAt(P, d)
  <1>1. /\ pc'[t] = Idle \/ Waits(t)
        /\ \A x \in Threads \ {t} : Same(x) \/ (Wakes(x) /\ pc[x].chan = pc[t].chan)
    BY SectionMoves
  <1>2. t \notin ThreadsAt(P, d) /\ t \notin ThreadsAt(P, d)'
    BY <1>1, IdleFacts DEF ThreadsAt, Waits
  <1>3. ASSUME NEW x \in Threads \ {t}
        PROVE  x \in ThreadsAt(P, d)' <=> x \in ThreadsAt(P, d)
    BY <1>1 DEF ThreadsAt, Same, Wakes
  <1>4. ThreadsAt(P, d) \subseteq Threads /\ ThreadsAt(P, d)' \subseteq Threads
    BY DEF ThreadsAt
  <1> QED
    BY <1>2, <1>3, <1>4

LEMMA SameServed ==
    ASSUME NEW d \in Chans, queue'[d] = queue[d], w_waiting'[d] = w_waiting[d],
           closed'[d] = closed[d],
           ThreadsAt({"read"}, d)' = ThreadsAt({"read"}, d),
           ThreadsAt({"read_again"}, d)' = ThreadsAt({"read_again"}, d),
           ThreadsAt({"write"}, d)' = ThreadsAt({"write"}, d),
           ThreadsAt({"write_again"}, d)' = ThreadsAt({"write_again"}, d),
           ReadersServed(d), WritersServed(d)
    PROVE  ReadersServed(d)' /\ WritersServed(d)'
  BY DEF ReadersServed, WritersServed, Buffered, chan_is_buffered

\* The sections leave the data of the other channels as it is.
LEMMA ElsewhereData ==
    ASSUME ChanInv, NEW t \in Threads, Section(t), NEW d \in Chans, d # pc[t].chan
    PROVE  queue'[d] = queue[d] /\ w_waiting'[d] = w_waiting[d] /\ closed'[d] = closed[d]
  <1>1. /\ queue = [e \in Chans |-> queue[e]] /\ w_waiting \in [Chans -> Nat]
    BY DEF ChanInv, QueueInv, Shape
  <1>2. closed' = closed
    BY DEF Section, BufferedSendWaits, BufferedSendAdds, BufferedRecvFails,
           BufferedRecvWaits, BufferedRecvTakes, UnbufferedSendFails, UnbufferedSendOffers,
           UnbufferedSendReturns, UnbufferedRecvFails, UnbufferedRecvWaits,
           UnbufferedRecvTakes
  <1>3. w_waiting'[d] = w_waiting[d]
    BY <1>1
    DEF Section, BufferedSendWaits, BufferedSendAdds, BufferedRecvFails,
        BufferedRecvWaits, BufferedRecvTakes, UnbufferedSendFails, UnbufferedSendOffers,
        UnbufferedSendReturns, UnbufferedRecvFails, UnbufferedRecvWaits,
        UnbufferedRecvTakes, waiters
  <1>4. queue'[d] = queue[d]
    <2>1. queue' = queue \/ BufferedSendAdds(t) \/ BufferedRecvTakes(t)
      BY QueueFrame DEF StepOf
    <2> QED
      BY <2>1, AddFacts, TakeFacts
  <1> QED
    BY <1>2, <1>3, <1>4

LEMMA LostHere ==
    ASSUME ChanInv, NEW t \in Threads, Section(t), NEW c \in Chans, c = pc[t].chan
    PROVE  ReadersServed(c)' /\ WritersServed(c)'
  <1> DEFINE R == ThreadsAt({"read"}, c)
             RA == ThreadsAt({"read_again"}, c)
             W == ThreadsAt({"write"}, c)
             WA == ThreadsAt({"write_again"}, c)
  <1>0. ReadersServed(c) /\ WritersServed(c) /\ PcInv
    BY ServedIsNoLost DEF ChanInv
  <1>1. /\ pc[t].at = "read_again" \/ t \notin RA
        /\ pc[t].at = "write_again" \/ t \notin WA
        /\ pc[t].at \in {"put", "write_again", "recv", "read_again"}
        /\ t \notin R /\ t \notin W
    BY SectionMoves DEF ThreadsAt
  <1>2. /\ Cardinality(R) \in Nat /\ Cardinality(RA) \in Nat
        /\ Cardinality(W) \in Nat /\ Cardinality(WA) \in Nat
        /\ Cardinality(RA') \in Nat /\ Cardinality(WA') \in Nat
        /\ Cardinality(RA \ {t}) >= Cardinality(RA) - 1 /\ Cardinality(RA \ {t}) \in Nat
        /\ Cardinality(WA \ {t}) >= Cardinality(WA) - 1 /\ Cardinality(WA \ {t}) \in Nat
    BY AtFacts
  <1>3. c \in Buffered => /\ queue[c].size \in 0..Capacity[c] /\ Capacity[c] \in Nat \ {0}
                          /\ queue[c].capacity = Capacity[c]
    BY SizeFacts DEF ChanInv, QueueInv
  <1>4. ASSUME Alone(t), pc'[t] = Idle
        PROVE  R' = R /\ RA' = RA \ {t} /\ W' = W /\ WA' = WA \ {t}
    <2>1. /\ R' \ {t} = R \ {t} /\ RA' \ {t} = RA \ {t}
          /\ W' \ {t} = W \ {t} /\ WA' \ {t} = WA \ {t}
      BY <1>4, AloneAfter
    <2>2. pc'[t].at = "idle"
      BY <1>4, IdleFacts
    <2>3. R' = R \ {t} /\ RA' = RA \ {t} /\ W' = W \ {t} /\ WA' = WA \ {t}
      <3>1. t \notin R' /\ t \notin RA' /\ t \notin W' /\ t \notin WA'
        BY <2>2 DEF ThreadsAt
      <3> QED
        BY <2>1, <3>1
    <2> QED
      BY <1>1, <2>3
  <1>5. ASSUME Alone(t), Sleeps(t, "write"), pc[t].at \in {"put", "write_again"}
        PROVE  R' = R /\ RA' = RA
    <2>1. R' \ {t} = R \ {t} /\ RA' \ {t} = RA \ {t}
      BY <1>5, AloneAfter
    <2>2. pc'[t].at = "write"
      BY <1>0, <1>5, SleeperWaits
    <2>3. R' = R \ {t} /\ RA' = RA \ {t}
      <3>1. t \notin R' /\ t \notin RA'
        BY <2>2 DEF ThreadsAt
      <3> QED
        BY <2>1, <3>1
    <2> QED
      BY <1>1, <1>5, <2>3
  <1>6. ASSUME Alone(t), Sleeps(t, "read"), pc[t].at \in {"recv", "read_again"}
        PROVE  W' = W /\ WA' = WA
    <2>1. W' \ {t} = W \ {t} /\ WA' \ {t} = WA \ {t}
      BY <1>6, AloneAfter
    <2>2. pc'[t].at = "read"
      BY <1>0, <1>6, SleeperWaits
    <2>3. W' = W \ {t} /\ WA' = WA \ {t}
      <3>1. t \notin W' /\ t \notin WA'
        BY <2>2 DEF ThreadsAt
      <3> QED
        BY <2>1, <3>1
    <2> QED
      BY <1>1, <1>6, <2>3
  <1>7. closed' = closed
    BY DEF Section, BufferedSendWaits, BufferedSendAdds, BufferedRecvFails,
           BufferedRecvWaits, BufferedRecvTakes, UnbufferedSendFails, UnbufferedSendOffers,
           UnbufferedSendReturns, UnbufferedRecvFails, UnbufferedRecvWaits,
           UnbufferedRecvTakes
  <1>8. CASE BufferedSendWaits(t)
    <2>1. /\ Alone(t) /\ Sleeps(t, "write") /\ pc[t].at \in {"put", "write_again"}
          /\ c \in Buffered
      BY <1>8, SendEffects DEF SectionOf
    <2>2. queue' = queue /\ queue[c].size = queue[c].capacity
      BY <1>8 DEF BufferedSendWaits, buffer
    <2>3. ReadersServed(c)'
      BY <1>0, <1>5, <1>7, <2>1, <2>2 DEF ReadersServed, Buffered, chan_is_buffered
    <2>4. Capacity[c] - queue[c].size = 0
      BY <1>3, <2>1, <2>2
    <2>5. WritersServed(c)'
      BY <1>2, <2>2, <2>4 DEF WritersServed
    <2> QED
      BY <2>3, <2>5
  <1>9. CASE BufferedSendAdds(t)
    <2>1. /\ WokeOne(t, "read", c) /\ pc'[t] = Idle /\ pc[t].at \in {"put", "write_again"}
          /\ c \in Buffered
      BY <1>9, SendEffects DEF SectionOf, Ends
    <2>2. queue'[c].size = queue[c].size + 1 /\ queue[c].size < Capacity[c]
      BY <1>9, AddFacts
    <2>3. PICK V : /\ Woke(t, "read", c, V)
                   /\ V = {} => R \ {t} = {}
                   /\ V # {} => \E x \in R \ {t} : V = {x}
      BY <2>1 DEF WokeOne
    <2>4. /\ R' \ {t} = (R \ {t}) \ V /\ RA' \ {t} = (RA \ {t}) \cup V
          /\ W' \ {t} = W \ {t} /\ WA' \ {t} = WA \ {t}
      BY <2>3, OthersAfter DEF Woken
    <2>5. pc'[t].at = "idle"
      BY <2>1, IdleFacts
    <2>6. R' = (R \ {t}) \ V /\ RA' = (RA \ {t}) \cup V /\ W' = W \ {t} /\ WA' = WA \ {t}
      <3>1. t \notin R' /\ t \notin RA' /\ t \notin W' /\ t \notin WA'
        BY <2>5 DEF ThreadsAt
      <3> QED
        BY <2>4, <3>1
    <2>7. R' = R \ V /\ RA' = RA \cup V /\ W' = W /\ WA' = WA \ {t}
      <3>1. R \ {t} = R /\ RA \ {t} = RA /\ W \ {t} = W
        BY <1>1, <2>1
      <3> QED
        BY <2>6, <3>1
    <2>8. ReadersServed(c)'
      <3>1. SUFFICES ASSUME R' # {}
                     PROVE  /\ ~closed'[c]
                            /\ queue'[c].size <= Cardinality(RA')
        BY <2>1 DEF ReadersServed, Buffered, chan_is_buffered
      <3>2. PICK x \in R : V = {x}
        BY <1>1, <2>3, <2>7, <3>1
      <3>3. ~closed[c] /\ queue[c].size <= Cardinality(RA)
        BY <1>0, <2>1, <3>2 DEF ReadersServed
      <3>4. x \in Threads /\ x \notin RA
        BY <3>2 DEF ThreadsAt
      <3>5. Cardinality(RA \cup {x}) = Cardinality(RA) + 1
        BY <3>4, AtFacts
      <3>6. Cardinality(RA') = Cardinality(RA) + 1
        BY <2>7, <3>2, <3>5
      <3> QED
        BY <1>2, <1>3, <1>7, <2>1, <2>2, <3>3, <3>6
    <2>9. WritersServed(c)'
      <3>1. SUFFICES ASSUME W # {}
                     PROVE  Capacity[c] - queue'[c].size <= Cardinality(WA')
        BY <2>1, <2>7 DEF WritersServed
      <3>2. Capacity[c] - queue[c].size <= Cardinality(WA)
        BY <1>0, <2>1, <3>1 DEF WritersServed
      <3>3. Cardinality(WA') = Cardinality(WA \ {t})
        BY <2>7
      <3> QED
        BY <1>2, <1>3, <2>1, <2>2, <3>2, <3>3
    <2> QED
      BY <2>8, <2>9
  <1>10. CASE BufferedRecvFails(t)
    <2>1. /\ Alone(t) /\ pc'[t] = Idle /\ pc[t].at \in {"recv", "read_again"}
          /\ c \in Buffered
      BY <1>10, RecvEffects DEF SectionOf, Ends
    <2>2. queue' = queue /\ closed[c]
      BY <1>10 DEF BufferedRecvFails, buffer
    <2>3. R' = {}
      BY <1>0, <1>4, <2>1, <2>2 DEF ReadersServed
    <2>4. W' = W /\ WA' = WA
      BY <1>1, <1>4, <2>1
    <2> QED
      BY <1>0, <2>1, <2>2, <2>3, <2>4
      DEF ReadersServed, WritersServed, Buffered, chan_is_buffered
  <1>11. CASE BufferedRecvWaits(t)
    <2>1. /\ Alone(t) /\ Sleeps(t, "read") /\ pc[t].at \in {"recv", "read_again"}
          /\ c \in Buffered
      BY <1>11, RecvEffects DEF SectionOf
    <2>2. queue' = queue /\ ~closed[c] /\ queue[c].size = 0
      BY <1>11 DEF BufferedRecvWaits, buffer
    <2>3. ReadersServed(c)'
      BY <1>2, <1>7, <2>1, <2>2 DEF ReadersServed, Buffered, chan_is_buffered
    <2>4. WritersServed(c)'
      BY <1>0, <1>6, <2>1, <2>2 DEF WritersServed
    <2> QED
      BY <2>3, <2>4
  <1>12. CASE BufferedRecvTakes(t)
    <2>1. /\ WokeOne(t, "write", c) /\ pc'[t] = Idle /\ pc[t].at \in {"recv", "read_again"}
          /\ c \in Buffered
      BY <1>12, RecvEffects DEF SectionOf, Ends
    <2>2. queue'[c].size = queue[c].size - 1 /\ queue[c].size > 0
      BY <1>12, TakeFacts
    <2>3. PICK V : /\ Woke(t, "write", c, V)
                   /\ V = {} => W \ {t} = {}
                   /\ V # {} => \E x \in W \ {t} : V = {x}
      BY <2>1 DEF WokeOne
    <2>4. /\ W' \ {t} = (W \ {t}) \ V /\ WA' \ {t} = (WA \ {t}) \cup V
          /\ R' \ {t} = R \ {t} /\ RA' \ {t} = RA \ {t}
      BY <2>3, OthersAfter DEF Woken
    <2>5. pc'[t].at = "idle"
      BY <2>1, IdleFacts
    <2>6. W' = (W \ {t}) \ V /\ WA' = (WA \ {t}) \cup V /\ R' = R \ {t} /\ RA' = RA \ {t}
      <3>1. t \notin W' /\ t \notin WA' /\ t \notin R' /\ t \notin RA'
        BY <2>5 DEF ThreadsAt
      <3> QED
        BY <2>4, <3>1
    <2>7. W' = W \ V /\ WA' = WA \cup V /\ R' = R /\ RA' = RA \ {t}
      <3>1. W \ {t} = W /\ WA \ {t} = WA /\ R \ {t} = R
        BY <1>1, <2>1
      <3> QED
        BY <2>6, <3>1
    <2>8. WritersServed(c)'
      <3>1. SUFFICES ASSUME W' # {}
                     PROVE  Capacity[c] - queue'[c].size <= Cardinality(WA')
        BY <2>1 DEF WritersServed
      <3>2. PICK x \in W : V = {x}
        BY <1>1, <2>3, <2>7, <3>1
      <3>3. Capacity[c] - queue[c].size <= Cardinality(WA)
        BY <1>0, <2>1, <3>2 DEF WritersServed
      <3>4. x \in Threads /\ x \notin WA
        BY <3>2 DEF ThreadsAt
      <3>5. Cardinality(WA \cup {x}) = Cardinality(WA) + 1
        BY <3>4, AtFacts
      <3>6. Cardinality(WA') = Cardinality(WA) + 1
        BY <2>7, <3>2, <3>5
      <3> QED
        BY <1>2, <1>3, <2>1, <2>2, <3>3, <3>6
    <2>9. ReadersServed(c)'
      <3>1. SUFFICES ASSUME R # {}
                     PROVE  ~closed'[c] /\ queue'[c].size <= Cardinality(RA')
        BY <2>1, <2>7 DEF ReadersServed, Buffered, chan_is_buffered
      <3>2. ~closed[c] /\ queue[c].size <= Cardinality(RA)
        BY <1>0, <2>1, <3>1 DEF ReadersServed
      <3>3. Cardinality(RA') = Cardinality(RA \ {t})
        BY <2>7
      <3> QED
        BY <1>2, <1>3, <1>7, <2>1, <2>2, <3>2, <3>3
    <2> QED
      BY <2>8, <2>9
  <1>13. CASE UnbufferedSendFails(t) \/ UnbufferedSendReturns(t)
    <2>1. /\ Alone(t) /\ pc'[t] = Idle /\ c \notin Buffered
      BY <1>13, SendEffects DEF SectionOf, Ends
    <2>2. w_waiting' = w_waiting
      BY <1>13 DEF UnbufferedSendFails, UnbufferedSendReturns, waiters
    <2> QED
      BY <1>0, <1>4, <1>7, <2>1, <2>2
      DEF ReadersServed, WritersServed, Buffered, chan_is_buffered
  <1>14. \A x, y \in R \cup RA : c \notin Buffered => x = y
    BY DEF ChanInv, MutexInv, ThreadsAt
  <1>15. CASE UnbufferedSendOffers(t)
    <2>1. /\ WokeOne(t, "read", c) /\ Sleeps(t, "write") /\ pc[t].at = "put"
          /\ c \notin Buffered
      BY <1>15, SendEffects DEF SectionOf
    <2>2. PICK V : /\ Woke(t, "read", c, V)
                   /\ V = {} => R \ {t} = {}
                   /\ V # {} => \E x \in R \ {t} : V = {x}
      BY <2>1 DEF WokeOne
    <2>3. R' \ {t} = (R \ {t}) \ V
      BY <2>2, OthersAfter
    <2>4. pc'[t].at = "write"
      BY <1>0, <2>1, SleeperWaits
    <2>5. R' = (R \ {t}) \ V
      <3>1. t \notin R'
        BY <2>4 DEF ThreadsAt
      <3> QED
        BY <2>3, <3>1
    <2>6. R' = {}
      BY <1>14, <2>1, <2>2, <2>5
    <2> QED
      BY <2>1, <2>6 DEF ReadersServed, WritersServed, Buffered, chan_is_buffered
  <1>16. CASE UnbufferedRecvWaits(t)
    <2>1. c \notin Buffered /\ ~closed[c] /\ w_waiting' = w_waiting /\ w_waiting[c] = 0
      BY <1>16, RecvEffects DEF UnbufferedRecvWaits
    <2> QED
      BY <1>7, <2>1 DEF ReadersServed, WritersServed, Buffered, chan_is_buffered
  <1>17. CASE UnbufferedRecvFails(t)
    <2>1. /\ Alone(t) /\ pc'[t] = Idle /\ c \notin Buffered
      BY <1>17, RecvEffects DEF SectionOf, Ends
    <2>2. closed[c]
      BY <1>17 DEF UnbufferedRecvFails
    <2>3. R' = {}
      BY <1>0, <1>4, <2>1, <2>2 DEF ReadersServed
    <2> QED
      BY <2>1, <2>3 DEF ReadersServed, WritersServed, Buffered, chan_is_buffered
  <1>18. CASE UnbufferedRecvTakes(t)
    <2>1. /\ WokeOne(t, "write", c) /\ pc'[t] = Idle /\ c \notin Buffered
          /\ pc[t].at \in {"recv", "read_again"}
      BY <1>18, RecvEffects DEF SectionOf, Ends
    <2>2. PICK V : Woke(t, "write", c, V)
      BY <2>1 DEF WokeOne
    <2>3. R' \ {t} = R \ {t}
      BY <2>2, OthersAfter DEF Woken
    <2>4. pc'[t].at = "idle"
      BY <2>1, IdleFacts
    <2>5. R' = R \ {t}
      <3>1. t \notin R'
        BY <2>4 DEF ThreadsAt
      <3> QED
        BY <2>3, <3>1
    <2>6. R \ {t} = {}
      <3>1. ASSUME NEW x \in R PROVE FALSE
        <4>1. r_mu[c] = x /\ x \in Threads /\ x # t
          BY <1>1, <2>1, <3>1 DEF ChanInv, MutexInv, ThreadsAt
        <4>2. r_mu[c] = Null \/ t \in RA
          BY <1>18 DEF UnbufferedRecvTakes, InUnbufferedRecv, At, ThreadsAt
        <4> QED
          BY <1>14, <2>1, <3>1, <4>1, <4>2, ChanAssumption
      <3> QED
        BY <3>1
    <2> QED
      BY <2>1, <2>5, <2>6 DEF ReadersServed, WritersServed, Buffered, chan_is_buffered
  <1> QED
    BY <1>8, <1>9, <1>10, <1>11, <1>12, <1>13, <1>15, <1>16, <1>17, <1>18 DEF Section

LEMMA LostStep ==
    ASSUME ChanInv, NEW t \in Threads, StepOf(t) PROVE NoLostWakeup'
  <1>0. SUFFICES ASSUME NEW d \in Chans PROVE ReadersServed(d)' /\ WritersServed(d)'
    BY ServedIsNoLost
  <1> DEFINE R == ThreadsAt({"read"}, d)
             RA == ThreadsAt({"read_again"}, d)
             W == ThreadsAt({"write"}, d)
             WA == ThreadsAt({"write_again"}, d)
  <1>1. ReadersServed(d) /\ WritersServed(d)
    BY ServedIsNoLost DEF ChanInv
  <1>2. CASE Outside(t)
    <2>1. R' = R /\ RA' = RA /\ W' = W /\ WA' = WA
      BY <1>2, WaitingStays
    <2> QED
      BY <1>1, <1>2, <2>1, SameServed DEF Outside, waiters, buffer
  <1>3. ASSUME NEW e \in Chans, chan_close(t, e)
        PROVE  ReadersServed(d)' /\ WritersServed(d)'
    <2>1. \A x \in Threads : /\ Same(x) \/ (Wakes(x) /\ pc[x].chan = e)
                             /\ pc[x].chan = e => pc'[x].at \notin {"read", "write"}
      BY <1>3, CloseMoves
    <2>2. CASE d = e
      <3>1. R' = {} /\ W' = {}
        BY <2>1, <2>2 DEF ThreadsAt, Same, Wakes
      <3> QED
        BY <3>1 DEF ReadersServed, WritersServed
    <2>3. CASE d # e
      <3>1. R' = R /\ RA' = RA /\ W' = W /\ WA' = WA
        BY <2>1, <2>3 DEF ThreadsAt, Same, Wakes
      <3>2. queue' = queue /\ w_waiting' = w_waiting /\ closed'[d] = closed[d]
        BY <1>3, <2>3 DEF chan_close, buffer, waiters, ChanInv, Shape
      <3> QED
        BY <1>1, <3>1, <3>2, SameServed
    <2> QED
      BY <2>2, <2>3
  <1>4. CASE SpuriousWake(t)
    <2>1. R' \subseteq R /\ RA \subseteq RA' /\ W' \subseteq W /\ WA \subseteq WA'
      BY <1>4, SpuriousMoves DEF ThreadsAt, Same, Wakes
    <2>2. RA' \in SUBSET Threads /\ WA' \in SUBSET Threads
      BY DEF ThreadsAt
    <2>3. Cardinality(RA) <= Cardinality(RA')
      BY <2>1, <2>2, ChanAssumption, FS_Subset
    <2>4. Cardinality(WA) <= Cardinality(WA')
      BY <2>1, <2>2, ChanAssumption, FS_Subset
    <2>5. /\ Cardinality(RA) \in Nat /\ Cardinality(RA') \in Nat
          /\ Cardinality(WA) \in Nat /\ Cardinality(WA') \in Nat
      BY AtFacts
    <2>6. /\ queue' = queue /\ w_waiting' = w_waiting /\ closed' = closed
          /\ d \in Buffered => queue[d].size \in Nat /\ Capacity[d] \in Nat
      BY <1>4, SizeFacts DEF SpuriousWake, buffer, waiters, ChanInv
    <2>7. ReadersServed(d)'
      <3>1. SUFFICES ASSUME R' # {}
                     PROVE  /\ ~closed[d]
                            /\ d \in Buffered => queue[d].size <= Cardinality(RA')
                            /\ d \notin Buffered => w_waiting[d] = 0
        BY <2>6 DEF ReadersServed, Buffered, chan_is_buffered
      <3>2. /\ ~closed[d]
            /\ d \in Buffered => queue[d].size <= Cardinality(RA)
            /\ d \notin Buffered => w_waiting[d] = 0
        BY <1>1, <2>1, <3>1 DEF ReadersServed
      <3> QED
        BY <2>3, <2>5, <2>6, <3>2
    <2>8. WritersServed(d)'
      <3>1. SUFFICES ASSUME d \in Buffered, W' # {}
                     PROVE  Capacity[d] - queue[d].size <= Cardinality(WA')
        BY <2>6 DEF WritersServed, Buffered, chan_is_buffered
      <3>2. Capacity[d] - queue[d].size <= Cardinality(WA)
        BY <1>1, <2>1, <3>1 DEF WritersServed
      <3> QED
        BY <2>4, <2>5, <2>6, <3>1, <3>2
    <2> QED
      BY <2>7, <2>8
  <1>5. CASE Section(t) /\ d = pc[t].chan
    BY <1>5, LostHere
  <1>6. CASE Section(t) /\ d # pc[t].chan
    <2>1. R' = R /\ RA' = RA /\ W' = W /\ WA' = WA
      BY <1>6, Elsewhere
    <2>2. queue'[d] = queue[d] /\ w_waiting'[d] = w_waiting[d] /\ closed'[d] = closed[d]
      BY <1>6, ElsewhereData
    <2> QED
      BY <1>1, <2>1, <2>2, SameServed
  <1>7. ASSUME NEW e \in Chans, chan_send(t, e), pc[t].at \in {"idle", "select"}
        PROVE  Outside(t)
    BY <1>7, FreshFacts
  <1> QED
    BY <1>2, <1>3, <1>4, <1>5, <1>6, <1>7 DEF StepOf
-----------------------------------------------------------------------------
(* What was put into a channel.                                            *)

\* Sequences: the items of a longer one, and the head of a buffer that moves to the
\* end of what was received.
LEMMA AppendItems ==
    ASSUME NEW S, NEW s \in Seq(S), NEW v \in S
    PROVE  /\ Append(s, v) \in Seq(S) /\ ToSet(Append(s, v)) = ToSet(s) \cup {v}
           /\ IsInjective(s) /\ v \notin ToSet(s) => IsInjective(Append(s, v))
  <1>1. /\ Append(s, v) \in Seq(S) /\ Len(Append(s, v)) = Len(s) + 1 /\ Len(s) \in Nat
        /\ DOMAIN s = 1..Len(s) /\ DOMAIN Append(s, v) = 1..(Len(s) + 1)
        /\ \A i \in 1..Len(s) : Append(s, v)[i] = s[i]
        /\ Append(s, v)[Len(s) + 1] = v
    OBVIOUS
  <1> DEFINE n == Len(s)
             r == Append(s, v)
  <1> HIDE DEF n, r
  <1>2. /\ n \in Nat /\ DOMAIN s = 1..n /\ DOMAIN r = 1..(n + 1)
        /\ \A i \in 1..n : r[i] = s[i]
        /\ r[n + 1] = v
    BY <1>1 DEF n, r
  <1>3. ToSet(r) = ToSet(s) \cup {v}
    <2>1. ASSUME NEW x \in ToSet(r) PROVE x \in ToSet(s) \cup {v}
      <3>1. PICK i \in 1..(n + 1) : x = r[i]
        BY <1>2, <2>1 DEF ToSet
      <3>2. i \in 1..n \/ i = n + 1
        BY <1>2
      <3> QED
        BY <1>2, <3>1, <3>2 DEF ToSet
    <2>2. ASSUME NEW x \in ToSet(s) PROVE x \in ToSet(r)
      <3>1. PICK i \in 1..n : x = s[i]
        BY <1>2, <2>2 DEF ToSet
      <3>2. i \in 1..(n + 1) /\ r[i] = x
        BY <1>2, <3>1
      <3> QED
        BY <1>2, <3>2 DEF ToSet
    <2>3. v \in ToSet(r)
      BY <1>2 DEF ToSet
    <2> QED
      BY <2>1, <2>2, <2>3
  <1>4. ASSUME IsInjective(s), v \notin ToSet(s) PROVE IsInjective(r)
    <2>1. SUFFICES ASSUME NEW a \in 1..(n + 1), NEW b \in 1..(n + 1), r[a] = r[b]
                   PROVE  a = b
      BY <1>2 DEF IsInjective
    <2>2. \A i \in 1..n : r[i] # v
      BY <1>2, <1>4 DEF ToSet
    <2>3. \A i, j \in 1..n : r[i] = r[j] => i = j
      BY <1>2, <1>4 DEF IsInjective
    <2>4. (a \in 1..n \/ a = n + 1) /\ (b \in 1..n \/ b = n + 1)
      BY <1>2
    <2> QED
      BY <1>2, <2>1, <2>2, <2>3, <2>4
  <1> QED
    BY <1>1, <1>3, <1>4 DEF r

LEMMA ConcatItems ==
    ASSUME NEW S, NEW s \in Seq(S), NEW q \in Seq(S)
    PROVE  /\ s \o q \in Seq(S) /\ ToSet(s \o q) = ToSet(s) \cup ToSet(q)
           /\ IsInjective(s \o q) => IsInjective(s)
  <1> DEFINE n == Len(s)
             m == Len(q)
             r == s \o q
  <1>1. /\ r \in Seq(S) /\ n \in Nat /\ m \in Nat
        /\ DOMAIN s = 1..n /\ DOMAIN q = 1..m /\ DOMAIN r = 1..(n + m)
        /\ \A i \in 1..n : r[i] = s[i]
        /\ \A i \in 1..m : r[i + n] = q[i]
        /\ \A i \in 1..(n + m) : i > n => r[i] = q[i - n]
    <2>1. /\ r \in Seq(S) /\ Len(r) = n + m /\ n \in Nat /\ m \in Nat
          /\ \A i \in 1..(n + m) : r[i] = IF i <= n THEN s[i] ELSE q[i - n]
      BY ConcatProperties
    <2> HIDE DEF r
    <2>2. DOMAIN s = 1..n /\ DOMAIN q = 1..m /\ DOMAIN r = 1..(n + m)
      BY <2>1
    <2> HIDE DEF n, m
    <2>3. \A i \in 1..m : i + n \in 1..(n + m) /\ ~(i + n <= n) /\ (i + n) - n = i
      BY <2>1
    <2>4. \A i \in 1..n : i \in 1..(n + m) /\ i <= n
      BY <2>1
    <2>5. \A i \in 1..(n + m) : i > n => ~(i <= n)
      BY <2>1
    <2> QED
      BY <2>1, <2>2, <2>3, <2>4, <2>5
  <1> HIDE DEF n, m, r
  <1>2. ToSet(r) = ToSet(s) \cup ToSet(q)
    <2>1. ASSUME NEW x \in ToSet(r) PROVE x \in ToSet(s) \cup ToSet(q)
      <3>1. PICK i \in 1..(n + m) : x = r[i]
        BY <1>1, <2>1 DEF ToSet
      <3>2. i \in 1..n \/ (i > n /\ i - n \in 1..m)
        BY <1>1
      <3> QED
        BY <1>1, <3>1, <3>2 DEF ToSet
    <2>2. ASSUME NEW x \in ToSet(s) PROVE x \in ToSet(r)
      <3>1. PICK i \in 1..n : x = s[i]
        BY <1>1, <2>2 DEF ToSet
      <3>2. i \in 1..(n + m) /\ r[i] = x
        BY <1>1, <3>1
      <3> QED
        BY <1>1, <3>2 DEF ToSet
    <2>3. ASSUME NEW x \in ToSet(q) PROVE x \in ToSet(r)
      <3>1. PICK i \in 1..m : x = q[i]
        BY <1>1, <2>3 DEF ToSet
      <3>2. i + n \in 1..(n + m) /\ r[i + n] = x
        BY <1>1, <3>1
      <3> QED
        BY <1>1, <3>2 DEF ToSet
    <2> QED
      BY <2>1, <2>2, <2>3
  <1>3. ASSUME IsInjective(r) PROVE IsInjective(s)
    <2>1. SUFFICES ASSUME NEW a \in 1..n, NEW b \in 1..n, s[a] = s[b] PROVE a = b
      BY <1>1 DEF IsInjective
    <2>2. a \in 1..(n + m) /\ b \in 1..(n + m) /\ r[a] = r[b]
      BY <1>1, <2>1
    <2> QED
      BY <1>1, <1>3, <2>2 DEF IsInjective
  <1> QED
    BY <1>1, <1>2, <1>3 DEF r

LEMMA ConcatAppend ==
    ASSUME NEW S, NEW s \in Seq(S), NEW q \in Seq(S), NEW v \in S
    PROVE  s \o Append(q, v) = Append(s \o q, v)
  <1>1. Append(q, v) = q \o <<v>> /\ <<v>> \in Seq(S) /\ s \o q \in Seq(S)
    BY AppendIsConcat, ConcatProperties
  <1>2. s \o (q \o <<v>>) = (s \o q) \o <<v>>
    BY <1>1, ConcatAssociative
  <1>3. Append(s \o q, v) = (s \o q) \o <<v>>
    BY <1>1, AppendIsConcat
  <1> QED
    BY <1>1, <1>2, <1>3

LEMMA HeadMoves ==
    ASSUME NEW S, NEW s \in Seq(S), NEW q \in Seq(S), q # <<>>
    PROVE  Append(s, Head(q)) \o Tail(q) = s \o q
  <1> DEFINE h == Head(q)
             r == Tail(q)
  <1>1. h \in S /\ r \in Seq(S)
    BY HeadTailProperties
  <1>2. q = <<h>> \o r
    <2>1. /\ Len(q) \in Nat \ {0} /\ Len(r) = Len(q) - 1
          /\ \A i \in 1..Len(r) : r[i] = q[i + 1]
      BY EmptySeq, HeadTailProperties
    <2>2. <<h>> \in Seq(S) /\ Len(<<h>>) = 1 /\ <<h>>[1] = q[1]
      BY <1>1
    <2>3. <<h>> \o r \in Seq(S) /\ Len(<<h>> \o r) = Len(q)
      BY <1>1, <2>1, <2>2, ConcatProperties
    <2>4. \A i \in 1..Len(q) : q[i] = (<<h>> \o r)[i]
      <3> TAKE i \in 1..Len(q)
      <3>1. (<<h>> \o r)[i] = IF i <= 1 THEN <<h>>[i] ELSE r[i - 1]
        BY <1>1, <2>1, <2>2, ConcatProperties
      <3>2. CASE i = 1
        BY <2>2, <3>1, <3>2
      <3>3. CASE i # 1
        <4>1. i - 1 \in 1..Len(r) /\ ~(i <= 1) /\ (i - 1) + 1 = i
          BY <2>1, <3>3
        <4> QED
          BY <2>1, <3>1, <4>1
      <3> QED
        BY <3>2, <3>3
    <2> QED
      BY <2>3, <2>4, SeqEqual
  <1> HIDE DEF h, r
  <1>3. Append(s, h) = s \o <<h>> /\ <<h>> \in Seq(S)
    BY <1>1, AppendIsConcat
  <1>4. (s \o <<h>>) \o r = s \o (<<h>> \o r)
    BY <1>1, <1>3, ConcatAssociative
  <1>5. Append(s, h) \o r = s \o q
    BY <1>2, <1>3, <1>4
  <1> QED
    BY <1>5 DEF h, r

\* A line is a sequence of values; what it holds is what was received or waits.
LEMMA LineFacts ==
    ASSUME Shape, QueueInv, NEW c \in Chans
    PROVE  /\ received[c] \in Seq(Values) /\ Line(c) \in Seq(Values)
           /\ c \in Buffered => /\ Contents(queue[c]) \in Seq(Values)
                                /\ Line(c) = received[c] \o Contents(queue[c])
                                /\ ToSet(Line(c)) =
                                      ToSet(received[c]) \cup ToSet(Contents(queue[c]))
           /\ c \notin Buffered => Line(c) = received[c]
           /\ ToSet(received[c]) \subseteq ToSet(Line(c))
           /\ IsInjective(Line(c)) => IsInjective(received[c])
           /\ ToSet(Line(c)) \subseteq Values
  <1>1. received[c] \in Seq(Values)
    BY DEF Shape
  <1>2. CASE c \in Buffered
    <2>1. Contents(queue[c]) \in Seq(Values) /\ Line(c) = received[c] \o Contents(queue[c])
      BY <1>2 DEF QueueInv, Line
    <2>2. /\ Line(c) \in Seq(Values)
          /\ ToSet(Line(c)) = ToSet(received[c]) \cup ToSet(Contents(queue[c]))
          /\ IsInjective(Line(c)) => IsInjective(received[c])
      BY <1>1, <2>1, ConcatItems
    <2>3. ToSet(Line(c)) \subseteq Values
      BY <2>2 DEF ToSet
    <2> QED
      BY <1>1, <1>2, <2>1, <2>2, <2>3
  <1>3. CASE c \notin Buffered
    <2>1. Line(c) = received[c] \o <<>>
      BY <1>3 DEF Line
    <2>2. Line(c) = received[c]
      BY <1>1, <2>1, ConcatEmptySeq
    <2>3. ToSet(Line(c)) \subseteq Values
      BY <1>1, <2>2 DEF ToSet
    <2> QED
      BY <1>1, <1>3, <2>2, <2>3
  <1> QED
    BY <1>2, <1>3

\* One line grows by a value, the others stay.
Grows(c, v) ==
    /\ Line(c)' = Append(Line(c), v)
    /\ \A d \in Chans \ {c} : Line(d)' = Line(d)
Stays == \A d \in Chans : Line(d)' = Line(d)

LEMMA LineFrame ==
    ASSUME NEW d \in Chans, received'[d] = received[d], queue'[d] = queue[d]
    PROVE  Line(d)' = Line(d)
  BY DEF Line, Buffered, chan_is_buffered

LEMMA AddGrows ==
    ASSUME ChanInv, NEW t \in Threads, BufferedSendAdds(t), NEW c, c = pc[t].chan
    PROVE  Grows(c, pc[t].val) /\ c \in Buffered /\ c \in Chans /\ pc[t].val \in Values
  <1>1. /\ c \in Buffered /\ c \in Chans /\ pc[t].val \in Values
        /\ Contents(queue'[c]) = Append(Contents(queue[c]), pc[t].val)
        /\ \A d \in Chans \ {c} : queue'[d] = queue[d]
    BY AddFacts
  <1>2. received' = received
    BY DEF BufferedSendAdds
  <1>3. received[c] \in Seq(Values) /\ Contents(queue[c]) \in Seq(Values)
    BY <1>1 DEF ChanInv, Shape, QueueInv
  <1>4. Line(c)' = received'[c] \o Contents(queue'[c])
    BY <1>1 DEF Line, Contents, Wrap, Buffered, chan_is_buffered
  <1>5. Line(c) = received[c] \o Contents(queue[c])
    BY <1>1 DEF Line
  <1>6. Line(c)' = Append(Line(c), pc[t].val)
    <2>1. received[c] \o Append(Contents(queue[c]), pc[t].val)
              = Append(received[c] \o Contents(queue[c]), pc[t].val)
      <3> DEFINE r == received[c]
                 q == Contents(queue[c])
                 v == pc[t].val
      <3>1. r \in Seq(Values) /\ q \in Seq(Values) /\ v \in Values
        BY <1>1, <1>3
      <3> HIDE DEF r, q, v
      <3>2. r \o Append(q, v) = Append(r \o q, v)
        BY <3>1, ConcatAppend
      <3> QED
        BY <3>2 DEF r, q, v
    <2> QED
      BY <1>1, <1>2, <1>4, <1>5, <2>1
  <1> QED
    BY <1>1, <1>2, <1>6, LineFrame DEF Grows

LEMMA TakeStays ==
    ASSUME ChanInv, NEW t \in Threads, BufferedRecvTakes(t), NEW c, c = pc[t].chan
    PROVE  Stays
  <1>1. /\ c \in Buffered /\ c \in Chans
        /\ Contents(queue[c]) \in Seq(Values) /\ Contents(queue[c]) # <<>>
        /\ Contents(queue'[c]) = Tail(Contents(queue[c]))
        /\ \A d \in Chans \ {c} : queue'[d] = queue[d]
        /\ received' = [received EXCEPT ![c] = Append(@, Head(Contents(queue[c])))]
    BY TakeFacts
  <1>2. received \in [Chans -> Seq(Values)]
    BY DEF ChanInv, Shape
  <1>3. /\ received'[c] = Append(received[c], Head(Contents(queue[c])))
        /\ \A d \in Chans \ {c} : received'[d] = received[d]
    BY <1>1, <1>2
  <1>4. Line(c)' = received'[c] \o Contents(queue'[c])
    BY <1>1 DEF Line, Contents, Wrap, Buffered, chan_is_buffered
  <1>5. Line(c) = received[c] \o Contents(queue[c])
    BY <1>1 DEF Line
  <1>6. Line(c)' = Line(c)
    <2>1. received[c] \in Seq(Values)
      BY <1>1, <1>2
    <2>2. Append(received[c], Head(Contents(queue[c]))) \o Tail(Contents(queue[c]))
              = received[c] \o Contents(queue[c])
      BY <1>1, <2>1, HeadMoves
    <2> QED
      BY <1>1, <1>3, <1>4, <1>5, <2>2
  <1> QED
    BY <1>1, <1>3, <1>6, LineFrame DEF Stays

LEMMA HandOffGrows ==
    ASSUME ChanInv, NEW t \in Threads, UnbufferedRecvTakes(t), NEW c, c = pc[t].chan
    PROVE  Grows(c, data[c]) /\ c \in Chans \ Buffered /\ data[c] \in Values
  <1>1. /\ c \in Chans \ Buffered /\ data[c] \in Values /\ queue' = queue
        /\ received' = [received EXCEPT ![c] = Append(@, data[c])]
    BY HandOffFacts
  <1>2. received \in [Chans -> Seq(Values)]
    BY DEF ChanInv, Shape
  <1>3. /\ received'[c] = Append(received[c], data[c])
        /\ \A d \in Chans \ {c} : received'[d] = received[d]
    BY <1>1, <1>2
  <1>4. Line(c) = received[c]
    BY <1>1, LineFacts DEF ChanInv
  <1>5. Line(c)' = received'[c] \o <<>>
    BY <1>1 DEF Line, Buffered, chan_is_buffered
  <1>6. Append(received[c], data[c]) \in Seq(Values)
    BY <1>1, <1>2
  <1>7. Line(c)' = Append(Line(c), data[c])
    BY <1>3, <1>4, <1>5, <1>6, ConcatEmptySeq
  <1> QED
    BY <1>1, <1>3, <1>7, LineFrame DEF Grows

LEMMA LineAfter ==
    ASSUME ChanInv, NEW t \in Threads, StepOf(t)
    PROVE  Stays \/ BufferedSendAdds(t) \/ UnbufferedRecvTakes(t)
  <1>1. CASE queue' = queue /\ received' = received
    BY <1>1, LineFrame DEF Stays
  <1> QED
    BY <1>1, BufferFrame, TakeStays

\* What has entered any of the lines.
LEMMA EnteredAfter ==
    ASSUME Shape, QueueInv, early' = early
    PROVE  /\ Stays => Entered' = Entered
           /\ \A c \in Chans, v \in Values : Grows(c, v) =>
                 /\ c \in Reliable => Entered' = Entered \cup {v}
                 /\ c \notin Reliable => Entered' = Entered
  <1>0. Reliable \subseteq Chans /\ Reliable' = Reliable
    BY DEF Reliable, Torn, Buffered, chan_is_buffered
  <1>1. ASSUME Stays PROVE Entered' = Entered
    <2>1. \A c \in Reliable : ToSet(Line(c)') = ToSet(Line(c))
      BY <1>0, <1>1 DEF Stays
    <2>2. Entered' = UNION {ToSet(Line(c)') : c \in Reliable}
      BY <1>0 DEF Entered, ToSet
    <2> QED
      BY <2>1, <2>2 DEF Entered
  <1>2. ASSUME NEW c \in Chans, NEW v \in Values, Grows(c, v)
        PROVE  /\ c \in Reliable => Entered' = Entered \cup {v}
               /\ c \notin Reliable => Entered' = Entered
    <2>1. ToSet(Line(c)') = ToSet(Line(c)) \cup {v}
      <3>1. Line(c) \in Seq(Values)
        BY LineFacts
      <3>2. ToSet(Append(Line(c), v)) = ToSet(Line(c)) \cup {v}
        BY <3>1, AppendItems
      <3> QED
        BY <1>2, <3>2 DEF Grows
    <2>2. \A d \in Reliable \ {c} : ToSet(Line(d)') = ToSet(Line(d))
      BY <1>0, <1>2 DEF Grows
    <2>3. Entered' = UNION {ToSet(Line(d)') : d \in Reliable}
      BY <1>0 DEF Entered, ToSet
    <2>4. Entered = UNION {ToSet(Line(d)) : d \in Reliable}
      BY DEF Entered
    <2> QED
      BY <2>1, <2>2, <2>3, <2>4
  <1> QED
    BY <1>1, <1>2
-----------------------------------------------------------------------------
(* The hand-off of the unbuffered channels.                                *)

HandOff(c) ==
    /\ w_waiting[c] <= 1 /\ w_waiting[c] <= Cardinality(Threads)
    /\ ~closed[c] /\ w_waiting[c] # 0 => ThreadsAt({"write"}, c) # {}
    /\ \A t \in ThreadsAt({"write"}, c) :
           w_waiting[c] = 1 /\ data[c] = pc[t].val /\ ~closed[c]
    /\ \A t \in ThreadsAt({"write_again"}, c) :
           closed[c] \/ (w_waiting[c] = 0 /\ pc[t].val \in ToSet(received[c]))

LEMMA HandOffEach ==
    /\ HandOffInv <=> \A c \in Reliable \ Buffered : HandOff(c)
    /\ HandOffInv' <=> \A c \in (Reliable \ Buffered)' : HandOff(c)'
  BY DEF HandOffInv, HandOff

LEMMA SameHandOff ==
    ASSUME NEW d, HandOff(d), w_waiting'[d] = w_waiting[d], closed'[d] = closed[d],
           data'[d] = data[d], received'[d] = received[d],
           ThreadsAt({"write"}, d)' = ThreadsAt({"write"}, d),
           ThreadsAt({"write_again"}, d)' = ThreadsAt({"write_again"}, d),
           \A x \in ThreadsAt({"write"}, d) \cup ThreadsAt({"write_again"}, d) :
               pc'[x].val = pc[x].val
    PROVE  HandOff(d)'
  BY DEF HandOff

\* w_mu lets in one sender at a time.
LEMMA OneWriter ==
    ASSUME MutexInv, NEW c \in Chans \ Buffered
    PROVE  /\ \A x, y \in Writers(c) : x = y
           /\ \A x \in Threads : x \in Writers(c) <=> w_mu[c] = x
           /\ ThreadsAt({"write"}, c) \subseteq Writers(c)
           /\ ThreadsAt({"write_again"}, c) \subseteq Writers(c)
           /\ Writers(c) \subseteq Threads
           /\ w_mu[c] = Null => Writers(c) = {}
  <1>1. \A x \in Threads : x \in Writers(c) <=> w_mu[c] = x
    BY DEF MutexInv, Writers
  <1>2. /\ ThreadsAt({"write"}, c) \subseteq Writers(c)
        /\ ThreadsAt({"write_again"}, c) \subseteq Writers(c)
        /\ Writers(c) \subseteq Threads
    BY DEF Writers, ThreadsAt
  <1>3. w_mu[c] = Null => Writers(c) = {}
    BY <1>1, <1>2, ChanAssumption
  <1> QED
    BY <1>1, <1>2, <1>3

\* When a receive takes an offered value, the sender it wakes is the one that
\* offered it.
LEMMA TakenFrom ==
    ASSUME ChanInv, NEW t \in Threads, UnbufferedRecvTakes(t), NEW c, c = pc[t].chan,
           c \in Reliable
    PROVE  \E y \in Threads \ {t} :
              /\ pc[y].at = "write" /\ pc[y].chan = c /\ data[c] = pc[y].val
              /\ pc'[y].at = "write_again" /\ pc'[y].val = pc[y].val /\ pc'[y].chan = c
              /\ w_waiting[c] = 1
              /\ ThreadsAt({"write"}, c)' = {} /\ ThreadsAt({"write_again"}, c)' = {y}
  <1> DEFINE W == ThreadsAt({"write"}, c)
             WA == ThreadsAt({"write_again"}, c)
  <1>1. /\ c \in Chans \ Buffered /\ ~closed[c] /\ w_waiting[c] \in Nat \ {0}
    BY HandOffFacts
  <1>2. /\ WokeOne(t, "write", c) /\ pc'[t] = Idle
        /\ pc[t].at \in {"recv", "read_again"}
    BY RecvEffects DEF SectionOf, Ends
  <1>3. HandOff(c)
    BY <1>1, HandOffEach DEF ChanInv
  <1>4. t \notin W /\ t \notin WA
    BY <1>2 DEF ThreadsAt
  <1>5. W # {} /\ w_waiting[c] = 1
    BY <1>1, <1>3 DEF HandOff
  <1>6. PICK y \in W \ {t} : Woke(t, "write", c, {y})
    BY <1>2, <1>4, <1>5 DEF WokeOne
  <1>7. /\ y \in Threads \ {t} /\ pc[y].at = "write" /\ pc[y].chan = c
        /\ pc'[y].at = "write_again" /\ pc'[y].val = pc[y].val /\ pc'[y].chan = c
    BY <1>6 DEF Woke, ThreadsAt, Woken
  <1>8. data[c] = pc[y].val
    BY <1>3, <1>6 DEF HandOff
  <1>9. W = {y} /\ WA = {}
    <2>1. /\ \A x, z \in Writers(c) : x = z
          /\ W \subseteq Writers(c) /\ WA \subseteq Writers(c)
      BY <1>1, OneWriter DEF ChanInv
    <2>2. y \notin WA
      BY <1>7 DEF ThreadsAt
    <2> QED
      BY <1>6, <2>1, <2>2
  <1>10. W' \ {t} = (W \ {t}) \ {y} /\ WA' \ {t} = (WA \ {t}) \cup {y}
    BY <1>6, OthersAfter DEF Woken
  <1>11. t \notin W' /\ t \notin WA'
    BY <1>2, IdleFacts DEF ThreadsAt
  <1>12. W' = {} /\ WA' = {y}
    BY <1>7, <1>9, <1>10, <1>11
  <1> QED
    BY <1>5, <1>7, <1>8, <1>12

LEMMA HandOffHere ==
    ASSUME ChanInv, NEW t \in Threads, Section(t), NEW c \in Reliable \ Buffered,
           c = pc[t].chan
    PROVE  HandOff(c)'
  <1> DEFINE W == ThreadsAt({"write"}, c)
             WA == ThreadsAt({"write_again"}, c)
  <1>0. /\ HandOff(c) /\ MutexInv /\ PcInv /\ Shape /\ c \in Chans
    BY HandOffEach DEF ChanInv, Reliable
  <1>1. /\ \A x, y \in Writers(c) : x = y
        /\ \A x \in Threads : x \in Writers(c) <=> w_mu[c] = x
        /\ W \subseteq Writers(c) /\ WA \subseteq Writers(c)
        /\ w_mu[c] = Null => Writers(c) = {}
    BY <1>0, OneWriter
  <1>2. /\ w_waiting[c] \in Nat /\ Cardinality(Threads) \in Nat /\ Cardinality(Threads) >= 1
    <2>1. Threads \in SUBSET Threads
      OBVIOUS
    <2>2. /\ Cardinality(Threads) \in Nat
          /\ (Cardinality(Threads) = 0) => (Threads = {})
      BY <2>1, SetFacts
    <2> QED
      BY <1>0, <2>2 DEF Shape
  <1>3. ASSUME Alone(t), pc[t].at \notin {"write", "write_again"},
               pc'[t].at \notin {"write", "write_again"}
        PROVE  /\ W' = W /\ WA' = WA
               /\ \A x \in W \cup WA : pc'[x].val = pc[x].val
    <2>1. W' \ {t} = W \ {t} /\ WA' \ {t} = WA \ {t}
      BY <1>3, AloneAfter
    <2>2. t \notin W /\ t \notin WA /\ t \notin W' /\ t \notin WA'
      BY <1>3 DEF ThreadsAt
    <2>3. \A x \in Threads \ {t} : pc'[x].val = pc[x].val
      BY <1>3 DEF Alone, Woke
    <2>4. W \subseteq Threads /\ WA \subseteq Threads
      BY DEF ThreadsAt
    <2>5. W' = W /\ WA' = WA
      BY <2>1, <2>2
    <2>6. \A x \in W \cup WA : pc'[x].val = pc[x].val
      BY <2>2, <2>3, <2>4
    <2> QED
      BY <2>5, <2>6
  <1>4. CASE UnbufferedSendFails(t)
    <2>1. Alone(t) /\ pc[t].at = "put" /\ pc'[t].at = "idle"
      BY <1>4, SendEffects, IdleFacts DEF SectionOf, Ends
    <2>2. UNCHANGED <<w_waiting, closed, data, received>>
      BY <1>4 DEF UnbufferedSendFails, waiters, buffer, slot
    <2> QED
      BY <1>0, <1>3, <2>1, <2>2, SameHandOff
  <1>5. CASE UnbufferedSendOffers(t)
    <2>1. WokeOne(t, "read", c) /\ Sleeps(t, "write") /\ pc[t].at = "put"
      BY <1>5, SendEffects DEF SectionOf
    <2>2. /\ w_mu[c] = Null /\ ~closed[c] /\ closed' = closed
          /\ data' = [data EXCEPT ![c] = pc[t].val]
          /\ w_waiting' = [w_waiting EXCEPT ![c] = @ + 1]
      BY <1>5 DEF UnbufferedSendOffers
    <2>3. pc'[t].at = "write" /\ pc'[t].val = pc[t].val /\ pc'[t].chan = c
      BY <1>0, <2>1, SleeperWaits DEF Waits
    <2>4. W = {} /\ WA = {}
      BY <1>1, <2>2
    <2>5. w_waiting[c] = 0
      BY <1>0, <2>2, <2>4 DEF HandOff
    <2>6. W' \ {t} = W \ {t} /\ WA' \ {t} = WA \ {t}
      <3>1. PICK V : Woke(t, "read", c, V)
        BY <2>1 DEF WokeOne
      <3> QED
        BY <3>1, OthersAfter DEF Woken
    <2>7. t \in W' /\ t \notin WA'
      BY <2>3 DEF ThreadsAt
    <2>8. W' = {t} /\ WA' = {}
      BY <2>4, <2>6, <2>7
    <2>9. w_waiting'[c] = 1 /\ data'[c] = pc[t].val /\ ~closed'[c]
      BY <1>0, <2>2, <2>5 DEF Shape
    <2> QED
      BY <1>2, <2>3, <2>8, <2>9 DEF HandOff
  <1>6. CASE UnbufferedSendReturns(t)
    <2>1. Alone(t) /\ pc[t].at = "write_again" /\ pc'[t].at = "idle"
      BY <1>6, SendEffects, IdleFacts DEF SectionOf, Ends
    <2>2. UNCHANGED <<w_waiting, closed, data, received>>
      BY <1>6 DEF UnbufferedSendReturns, waiters, buffer
    <2>3. t \in WA /\ t \notin W /\ t \notin WA' /\ t \notin W'
      BY <2>1 DEF ThreadsAt
    <2>4. W' \ {t} = W \ {t} /\ WA' \ {t} = WA \ {t}
      BY <2>1, AloneAfter
    <2>5. W' = {} /\ WA' = {}
      BY <1>1, <2>3, <2>4
    <2>6. closed[c] \/ w_waiting[c] = 0
      BY <1>0, <2>3 DEF HandOff
    <2> QED
      BY <1>0, <2>2, <2>5, <2>6 DEF HandOff
  <1>7. CASE UnbufferedRecvWaits(t)
    <2>1. Alone(t) /\ Sleeps(t, "read") /\ pc[t].at \in {"recv", "read_again"}
      BY <1>7, RecvEffects DEF SectionOf
    <2>2. UNCHANGED <<w_waiting, closed, data, received>>
      BY <1>7 DEF UnbufferedRecvWaits, buffer
    <2>3. pc'[t].at = "read"
      BY <1>0, <2>1, SleeperWaits
    <2>4. /\ W' = W /\ WA' = WA
          /\ \A x \in W \cup WA : pc'[x].val = pc[x].val
      BY <1>3, <2>1, <2>3
    <2> QED
      BY <1>0, <2>2, <2>4, SameHandOff
  <1>8. CASE UnbufferedRecvFails(t)
    <2>1. Alone(t) /\ pc[t].at \in {"recv", "read_again"} /\ pc'[t].at = "idle"
      BY <1>8, RecvEffects, IdleFacts DEF SectionOf, Ends
    <2>2. UNCHANGED <<w_waiting, closed, data, received>>
      BY <1>8 DEF UnbufferedRecvFails, buffer
    <2>3. /\ W' = W /\ WA' = WA
          /\ \A x \in W \cup WA : pc'[x].val = pc[x].val
      BY <1>3, <2>1
    <2> QED
      BY <1>0, <2>2, <2>3, SameHandOff
  <1>9. CASE UnbufferedRecvTakes(t)
    <2>1. PICK y \in Threads \ {t} :
             /\ data[c] = pc[y].val /\ pc'[y].val = pc[y].val /\ w_waiting[c] = 1
             /\ W' = {} /\ WA' = {y}
      BY <1>9, TakenFrom
    <2>2. /\ w_waiting' = [w_waiting EXCEPT ![c] = @ - 1] /\ data[c] \in Values
          /\ received' = [received EXCEPT ![c] = Append(@, data[c])]
      BY <1>9, HandOffFacts
    <2>3. w_waiting'[c] = 0
      BY <1>0, <2>1, <2>2 DEF Shape
    <2>4. received'[c] = Append(received[c], data[c]) /\ received[c] \in Seq(Values)
      BY <1>0, <2>2 DEF Shape
    <2>5. ToSet(received'[c]) = ToSet(received[c]) \cup {data[c]}
      BY <2>2, <2>4, AppendItems
    <2>6. pc'[y].val \in ToSet(received'[c])
      BY <2>1, <2>5
    <2>7. ToSet(received'[c]) = ToSet(received[c])'
      BY DEF ToSet
    <2> QED
      BY <1>2, <2>1, <2>3, <2>6, <2>7 DEF HandOff
  <1> QED
    BY <1>4, <1>5, <1>6, <1>7, <1>8, <1>9, SendEffects, RecvEffects DEF Section

LEMMA HandOffStep ==
    ASSUME ChanInv, NEW t \in Threads, StepOf(t) PROVE HandOffInv'
  <1>0. SUFFICES ASSUME NEW d \in Reliable \ Buffered, d \in Reliable' PROVE HandOff(d)'
    BY HandOffEach, ReliableAfter
  <1> DEFINE W == ThreadsAt({"write"}, d)
             WA == ThreadsAt({"write_again"}, d)
  <1>1. HandOff(d) /\ Shape /\ d \in Chans
    BY HandOffEach DEF ChanInv, Reliable
  <1>2. CASE Outside(t)
    <2>1. W' = W /\ WA' = WA
      BY <1>2, WaitingStays
    <2>2. \A x \in W \cup WA : pc'[x].val = pc[x].val
      BY <1>2 DEF Outside, ThreadsAt
    <2>3. UNCHANGED <<w_waiting, closed, data, received>>
      BY <1>2 DEF Outside, waiters, buffer, slot
    <2> QED
      BY <1>1, <2>1, <2>2, <2>3, SameHandOff
  <1>3. ASSUME NEW e \in Chans, chan_close(t, e) PROVE HandOff(d)'
    <2>1. \A x \in Threads : /\ Same(x) \/ (Wakes(x) /\ pc[x].chan = e)
                             /\ pc[x].chan = e => pc'[x].at \notin {"read", "write"}
      BY <1>3, CloseMoves
    <2>2. /\ UNCHANGED <<w_waiting, data, received>>
          /\ closed' = [closed EXCEPT ![e] = TRUE]
      BY <1>3 DEF chan_close, waiters, buffer, slot
    <2>3. CASE d = e
      <3>1. W' = {}
        BY <2>1, <2>3 DEF ThreadsAt, Same, Wakes
      <3>2. closed'[d]
        BY <1>1, <2>2, <2>3 DEF Shape
      <3> QED
        BY <1>1, <2>2, <3>1, <3>2 DEF HandOff
    <2>4. CASE d # e
      <3>1. W' = W /\ WA' = WA
        BY <2>1, <2>4 DEF ThreadsAt, Same, Wakes
      <3>2. closed'[d] = closed[d]
        BY <1>1, <2>2, <2>4 DEF Shape
      <3>3. \A x \in W \cup WA : pc'[x].val = pc[x].val
        BY <2>1 DEF ThreadsAt, Same, Wakes
      <3> QED
        BY <1>1, <2>2, <3>1, <3>2, <3>3, SameHandOff
    <2> QED
      BY <2>3, <2>4
  <1>4. CASE SpuriousWake(t)
    <2>1. Wakes(t) /\ \A x \in Threads \ {t} : Same(x)
      BY <1>4, SpuriousMoves
    <2>2. ~(pc[t].at = "write" /\ pc[t].chan = d)
      <3>1. early'[d] = {}
        BY <1>0, <1>1 DEF Reliable, Torn, Buffered, chan_is_buffered
      <3> QED
        BY <1>0, <1>4, <3>1, EarlyFacts
    <2>3. W' = W /\ WA' = WA
      BY <2>1, <2>2 DEF ThreadsAt, Same, Wakes
    <2>4. \A x \in W \cup WA : pc'[x].val = pc[x].val
      BY <2>1 DEF ThreadsAt, Same, Wakes
    <2>5. UNCHANGED <<w_waiting, closed, data, received>>
      BY <1>4 DEF SpuriousWake, waiters, buffer, slot
    <2> QED
      BY <1>1, <2>3, <2>4, <2>5, SameHandOff
  <1>5. CASE Section(t) /\ d = pc[t].chan
    BY <1>5, HandOffHere
  <1>6. CASE Section(t) /\ d # pc[t].chan
    <2>1. W' = W /\ WA' = WA
      BY <1>1, <1>6, Elsewhere
    <2>2. w_waiting'[d] = w_waiting[d] /\ closed'[d] = closed[d]
      BY <1>1, <1>6, ElsewhereData
    <2>3. \A x \in W \cup WA : pc'[x].val = pc[x].val
      BY <1>6, SectionMoves DEF ThreadsAt, Same, Wakes
    <2>4. data'[d] = data[d]
      BY <1>1, <1>6
      DEF Shape, Section, BufferedSendWaits, BufferedSendAdds, BufferedRecvFails,
          BufferedRecvWaits, BufferedRecvTakes, UnbufferedSendFails, UnbufferedSendOffers,
          UnbufferedSendReturns, UnbufferedRecvFails, UnbufferedRecvWaits,
          UnbufferedRecvTakes, slot
    <2>5. received'[d] = received[d]
      BY <1>1, <1>6, BufferFrame DEF Shape, BufferedSendAdds, BufferedRecvTakes,
         UnbufferedRecvTakes
    <2> QED
      BY <1>1, <2>1, <2>2, <2>3, <2>4, <2>5, SameHandOff
  <1>7. ASSUME NEW e \in Chans, chan_send(t, e), pc[t].at \in {"idle", "select"}
        PROVE  Outside(t)
    BY <1>7, FreshFacts
  <1> QED
    BY <1>2, <1>3, <1>4, <1>5, <1>6, <1>7 DEF StepOf
-----------------------------------------------------------------------------
(* The values.                                                             *)

Fresh(t) == pc[t].at \in {"idle", "select"} /\ \E c \in Chans : chan_send(t, c)

\* Except for a fresh value, who is in a send was in it, with the same value; a
\* value that has not been put into its channel has not been before.
LEMMA SendersAfter ==
    ASSUME ChanInv, NEW t \in Threads, StepOf(t), ~Fresh(t), NEW x \in Threads,
           pc'[x].at \in Sending
    PROVE  /\ pc[x].at \in Sending /\ pc'[x].val = pc[x].val /\ pc'[x].chan = pc[x].chan
           /\ Holds(x)' => Holds(x)
           /\ pc'[x].at = "put" => pc[x].at = "put"
  <1> DEFINE Goal == /\ pc[x].at \in Sending
                     /\ pc'[x].val = pc[x].val /\ pc'[x].chan = pc[x].chan
                     /\ Holds(x)' => Holds(x)
                     /\ pc'[x].at = "put" => pc[x].at = "put"
  <1>0. Buffered' = Buffered
    BY DEF Buffered, chan_is_buffered
  <1>1. CASE Same(x)
    BY <1>0, <1>1 DEF Same, Holds
  <1>2. CASE Wakes(x)
    BY <1>0, <1>2 DEF Wakes, Holds, Sending
  <1>3. ASSUME Waits(x), pc'[x].at = "write", pc[x].at = "put" \/ pc[x].chan \in Buffered
        PROVE  Goal
    BY <1>0, <1>3 DEF Waits, Holds, Sending
  <1>4. CASE Outside(t) /\ Quiet(t)
    <2>1. x # t
      BY <1>4 DEF Quiet
    <2> QED
      BY <1>1, <1>4, <2>1 DEF Outside, Same
  <1>5. ASSUME NEW e \in Chans, chan_close(t, e) PROVE Goal
    BY <1>1, <1>2, <1>5, CloseMoves
  <1>6. CASE SpuriousWake(t)
    BY <1>1, <1>2, <1>6, SpuriousMoves
  <1>7. CASE Section(t)
    <2>1. CASE x # t
      BY <1>1, <1>2, <1>7, <2>1, SectionMoves
    <2>2. CASE x = t
      <3>1. pc'[t].at # "idle" /\ pc'[t].at # "read"
        BY <2>2 DEF Sending
      <3>2. Waits(t)
        BY <1>7, <3>1, IdleFacts, SectionMoves
      <3>3. pc'[t].at = "write" /\ pc[t].at \in {"put", "write_again"}
        BY <3>1, <3>2 DEF Waits
      <3>4. pc'[t] # Idle
        BY <3>1, IdleFacts
      <3>5. BufferedSendWaits(t) \/ UnbufferedSendOffers(t)
        <4>1. ~(BufferedSendAdds(t) \/ UnbufferedSendFails(t) \/ UnbufferedSendReturns(t))
          BY <3>4, SendEffects DEF SectionOf, Ends
        <4>2. ~(\/ BufferedRecvFails(t) \/ BufferedRecvWaits(t) \/ BufferedRecvTakes(t)
                \/ UnbufferedRecvFails(t) \/ UnbufferedRecvWaits(t)
                \/ UnbufferedRecvTakes(t))
          BY <3>3, RecvEffects DEF SectionOf
        <4> QED
          BY <1>7, <4>1, <4>2 DEF Section
      <3>6. pc[t].at = "put" \/ pc[t].chan \in Buffered
        BY <3>5, SendEffects DEF SectionOf
      <3> QED
        BY <1>3, <2>2, <3>2, <3>3, <3>6
    <2> QED
      BY <2>1, <2>2
  <1> QED
    BY <1>4, <1>5, <1>6, <1>7 DEF StepOf, Fresh

\* A value enters a line when its sender is in chan_send, and once.
LEMMA EnteredMoves ==
    ASSUME ChanInv, NEW t \in Threads, StepOf(t)
    PROVE  \/ Entered' \subseteq Entered /\ ~BufferedSendAdds(t)
           \/ \E y \in Threads :
                 /\ pc[y].at \in Sending /\ Holds(y)
                 /\ \E c \in Reliable : c = pc[y].chan /\ Grows(c, pc[y].val)
                 /\ Entered' = Entered \cup {pc[y].val}
                 /\ (BufferedSendAdds(t) /\ y = t) \/ UnbufferedRecvTakes(t)
                 /\ pc'[y].at \in Sending => ~(Holds(y)') /\ pc'[y].at # "put"
  <1>0. Shape /\ QueueInv
    BY DEF ChanInv
  <1>00. BufferedSendAdds(t) \/ UnbufferedRecvTakes(t) => early' = early
    BY DEF BufferedSendAdds, UnbufferedRecvTakes
  <1>1. CASE BufferedSendAdds(t)
    <2>1. PICK c : c = pc[t].chan
      OBVIOUS
    <2>2. Grows(c, pc[t].val) /\ c \in Buffered /\ c \in Chans /\ pc[t].val \in Values
      BY <1>1, <2>1, AddGrows
    <2>3. c \in Reliable
      BY <2>2, ReliableAfter
    <2>4. Entered' = Entered \cup {pc[t].val}
      BY <1>0, <1>00, <1>1, <2>2, <2>3, EnteredAfter
    <2>5. pc[t].at \in {"put", "write_again"} /\ pc'[t].at = "idle"
      BY <1>1, SendEffects, IdleFacts DEF SectionOf, Ends
    <2>6. pc[t].at \in Sending /\ Holds(t) /\ pc'[t].at \notin Sending
      BY <2>1, <2>2, <2>5 DEF Sending, Holds
    <2> QED
      BY <1>1, <2>1, <2>2, <2>3, <2>4, <2>6
  <1>2. CASE UnbufferedRecvTakes(t)
    <2>1. PICK c : c = pc[t].chan
      OBVIOUS
    <2>2. Grows(c, data[c]) /\ c \in Chans \ Buffered /\ data[c] \in Values
      BY <1>2, <2>1, HandOffGrows
    <2>3. ~BufferedSendAdds(t)
      BY <1>2 DEF UnbufferedRecvTakes, BufferedSendAdds, InBufferedSend
    <2>4. CASE c \notin Reliable
      BY <1>0, <1>00, <1>2, <2>2, <2>3, <2>4, EnteredAfter
    <2>5. CASE c \in Reliable
      <3>1. PICK y \in Threads :
               /\ pc[y].at = "write" /\ pc[y].chan = c /\ data[c] = pc[y].val
               /\ pc'[y].at = "write_again" /\ pc'[y].chan = c
        BY <1>2, <2>1, <2>5, TakenFrom
      <3>2. Entered' = Entered \cup {data[c]}
        BY <1>0, <1>00, <1>2, <2>2, <2>5, EnteredAfter
      <3>3. pc[y].at \in Sending /\ Holds(y)
        BY <3>1 DEF Sending, Holds
      <3>4. ~(Holds(y)')
        BY <2>2, <3>1 DEF Holds, Buffered, chan_is_buffered
      <3>5. Grows(c, pc[y].val)
        BY <2>2, <3>1
      <3> QED
        BY <1>2, <2>5, <3>1, <3>2, <3>3, <3>4, <3>5
    <2> QED
      BY <2>4, <2>5
  <1>3. CASE Stays /\ ~BufferedSendAdds(t)
    <2>1. Entered' = UNION {ToSet(Line(c)') : c \in Reliable'}
      BY DEF Entered, ToSet
    <2>2. \A c \in Reliable' : c \in Reliable /\ Line(c)' = Line(c)
      BY <1>3, ReliableAfter DEF Stays
    <2> QED
      BY <1>3, <2>1, <2>2 DEF Entered
  <1> QED
    BY <1>1, <1>2, <1>3, LineAfter

\* A send that ends: -1 only to a value that was not put into its channel.
LEMMA ResultMoves ==
    ASSUME ChanInv, NEW t \in Threads, StepOf(t), ~Fresh(t)
    PROVE  /\ used'.sends = used.sends
           /\ \/ result' = result
              \/ /\ pc[t].at \in Sending /\ pc[t].val \in Values /\ pc'[t].at = "idle"
                 /\ \/ /\ result' = [result EXCEPT ![pc[t].val] = "error"]
                       /\ pc[t].at = "put" /\ UnbufferedSendFails(t)
                    \/ /\ result' = [result EXCEPT ![pc[t].val] = "ok"]
                       /\ BufferedSendAdds(t) \/ UnbufferedSendReturns(t)
  <1>1. used'.sends = used.sends
    <2>1. CASE SpuriousWake(t)
      BY <2>1, CallFacts DEF SpuriousWake, ChanInv, Shape
    <2> QED
      BY <2>1, UsedFrame DEF Quiet, Fresh
  <1>2. CASE BufferedSendAdds(t) \/ UnbufferedSendFails(t) \/ UnbufferedSendReturns(t)
    <2>1. pc[t].val \in Values /\ pc[t].at \in {"put", "write_again"}
      BY <1>2, ReturnFacts
    <2>2. pc'[t].at = "idle"
      BY <1>2, SendEffects, IdleFacts DEF SectionOf, Ends
    <2>3. /\ UnbufferedSendFails(t) => Returns(t, "error") /\ pc[t].at = "put"
          /\ BufferedSendAdds(t) \/ UnbufferedSendReturns(t) => Returns(t, "ok")
      BY DEF UnbufferedSendFails, BufferedSendAdds, UnbufferedSendReturns, At
    <2> QED
      BY <1>1, <1>2, <2>1, <2>2, <2>3 DEF Returns, Sending
  <1>3. CASE result' = result
    BY <1>1, <1>3
  <1> QED
    BY <1>2, <1>3, ResultFrame DEF Fresh

LEMMA ValueStep ==
    ASSUME ChanInv, NEW t \in Threads, StepOf(t) PROVE ValueInv'
  <1> DEFINE Sender(x) ==
                 /\ pc'[x].val <= used'.sends /\ result'[pc'[x].val] = "none"
                 /\ \A y \in Threads :
                       pc'[y].at \in Sending /\ pc'[y].val = pc'[x].val => y = x
                 /\ Holds(x)' /\ pc'[x].chan \in Reliable => pc'[x].val \notin Entered'
                 /\ pc'[x].at = "put" => pc'[x].val \notin Entered'
             In == \A v \in Entered' : v <= used'.sends /\ result'[v] # "error"
             Unused == \A v \in Values : v > used'.sends => result'[v] = "none"
  <1>0. SUFFICES /\ \A x \in Threads : pc'[x].at \in Sending => Sender(x)
                 /\ In /\ Unused
    <2>1. Reliable' \subseteq Reliable
      BY ReliableAfter
    <2> QED
      BY <1>0, <2>1 DEF ValueInv, Sending
  <1>1. /\ \A x \in Threads : pc[x].at \in Sending =>
              /\ pc[x].val \in Values
              /\ pc[x].val <= used.sends /\ result[pc[x].val] = "none"
              /\ \A y \in Threads : pc[y].at \in Sending /\ pc[y].val = pc[x].val => y = x
              /\ Holds(x) /\ pc[x].chan \in Reliable => pc[x].val \notin Entered
              /\ pc[x].at = "put" => pc[x].val \notin Entered
        /\ \A v \in Entered : v <= used.sends /\ result[v] # "error"
        /\ \A v \in Values : v > used.sends => result[v] = "none"
    BY DEF ChanInv, ValueInv, PcInv
  <1>2. Entered \subseteq Values
    BY LineFacts, ReliableAfter DEF ChanInv, Entered
  <1>3. result \in [Values -> {"none", "ok", "error"}] /\ used.sends \in Nat
    BY CallFacts DEF ChanInv, Shape
  <1>4. Values \subseteq Int
    BY ChanAssumption DEF Values
  <1>5. CASE Fresh(t)
    <2>1. PICK c \in Chans : chan_send(t, c)
      BY <1>5 DEF Fresh
    <2> DEFINE n == used.sends + 1
    <2>2. /\ Outside(t) /\ used'.sends = n /\ n \in Values
          /\ \/ pc'[t].at = "idle" /\ result' = [result EXCEPT ![n] = "error"]
             \/ pc'[t].at = "put" /\ pc'[t].val = n /\ result' = result
      BY <1>5, <2>1, FreshFacts DEF Fresh
    <2>3. Entered' \subseteq Entered
      <3>1. ~BufferedSendAdds(t) /\ ~UnbufferedRecvTakes(t)
        BY <1>5 DEF Fresh, BufferedSendAdds, InBufferedSend, UnbufferedRecvTakes
      <3> QED
        BY <3>1, EnteredMoves
    <2>4. n > used.sends /\ \A v \in Values : v <= used.sends => v # n /\ v <= n
      BY <1>3, <1>4
    <2>5. \A v \in Values : v > n => v > used.sends /\ v # n
      BY <1>3, <1>4
    <2> HIDE DEF n
    <2>6. n \notin Entered /\ result[n] = "none"
      BY <1>1, <1>2, <2>2, <2>4
    <2>7. \A x \in Threads \ {t} : pc'[x] = pc[x] /\ (Holds(x)' => Holds(x))
      BY <2>2 DEF Outside, Holds, Buffered, chan_is_buffered
    <2>8. \A x \in Threads \ {t} : pc[x].at \in Sending => pc[x].val # n
      BY <1>1, <2>4
    <2>9. ASSUME NEW x \in Threads, pc'[x].at \in Sending PROVE Sender(x)
      <3>1. CASE x = t
        <4>1. pc'[t].at = "put" /\ pc'[t].val = n /\ result' = result
          BY <2>2, <2>9, <3>1 DEF Sending
        <4>2. \A y \in Threads : pc'[y].at \in Sending /\ pc'[y].val = n => y = t
          BY <2>7, <2>8
        <4>3. n <= n
          BY <2>2, <1>4
        <4> QED
          BY <2>2, <2>3, <2>6, <3>1, <4>1, <4>2, <4>3
      <3>2. CASE x # t
        <4>1. /\ pc'[x] = pc[x] /\ pc[x].at \in Sending /\ pc[x].val \in Values
              /\ pc[x].val # n /\ (Holds(x)' => Holds(x))
          BY <1>1, <2>7, <2>8, <2>9, <3>2
        <4>2. pc'[x].val <= used'.sends
          BY <1>1, <2>2, <2>4, <4>1
        <4>3. result'[pc'[x].val] = "none"
          BY <1>1, <1>3, <2>2, <4>1
        <4>4. \A y \in Threads : pc'[y].at \in Sending /\ pc'[y].val = pc'[x].val => y = x
          <5> TAKE y \in Threads
          <5>1. CASE y = t
            BY <2>2, <4>1, <5>1 DEF Sending
          <5>2. CASE y # t
            BY <1>1, <2>7, <4>1, <5>2
          <5> QED
            BY <5>1, <5>2
        <4>5. /\ Holds(x)' /\ pc'[x].chan \in Reliable => pc'[x].val \notin Entered'
              /\ pc'[x].at = "put" => pc'[x].val \notin Entered'
          BY <1>1, <2>3, <4>1
        <4> QED
          BY <4>2, <4>3, <4>4, <4>5
      <3> QED
        BY <3>1, <3>2
    <2>10. In
      <3> SUFFICES ASSUME NEW v \in Entered PROVE v <= used'.sends /\ result'[v] # "error"
        BY <2>3
      <3>1. v \in Values /\ v <= used.sends /\ v # n /\ v <= n
        BY <1>1, <1>2, <2>4
      <3> QED
        BY <1>1, <1>3, <2>2, <3>1
    <2>11. Unused
      BY <1>1, <1>3, <2>2, <2>5
    <2> QED
      BY <2>9, <2>10, <2>11
  <1>6. CASE ~Fresh(t)
    <2>1. /\ used'.sends = used.sends
          /\ \/ result' = result
             \/ /\ pc[t].at \in Sending /\ pc[t].val \in Values /\ pc'[t].at = "idle"
                /\ \/ /\ result' = [result EXCEPT ![pc[t].val] = "error"]
                      /\ pc[t].at = "put" /\ UnbufferedSendFails(t)
                   \/ result' = [result EXCEPT ![pc[t].val] = "ok"]
      BY <1>6, ResultMoves
    <2>2. \A x \in Threads : pc'[x].at \in Sending =>
              /\ pc[x].at \in Sending /\ pc'[x].val = pc[x].val /\ pc'[x].chan = pc[x].chan
              /\ Holds(x)' => Holds(x)
              /\ pc'[x].at = "put" => pc[x].at = "put"
      BY <1>6, SendersAfter
    <2>3. PICK Y \in SUBSET Threads :
              /\ Entered' \subseteq Entered \cup {pc[y].val : y \in Y}
              /\ \A y \in Y : /\ pc[y].at \in Sending
                              /\ pc'[y].at \in Sending => ~(Holds(y)') /\ pc'[y].at # "put"
                              /\ ~UnbufferedSendFails(t)
      <3>0. ~(UnbufferedSendFails(t) /\ (BufferedSendAdds(t) \/ UnbufferedRecvTakes(t)))
        BY SendEffects, RecvEffects DEF SectionOf
      <3>1. CASE Entered' \subseteq Entered
        <4> WITNESS {} \in SUBSET Threads
        <4> QED
          BY <3>1
      <3>2. CASE \E y \in Threads :
                 /\ pc[y].at \in Sending /\ Holds(y)
                 /\ \E c \in Reliable : c = pc[y].chan /\ Grows(c, pc[y].val)
                 /\ Entered' = Entered \cup {pc[y].val}
                 /\ (BufferedSendAdds(t) /\ y = t) \/ UnbufferedRecvTakes(t)
                 /\ pc'[y].at \in Sending => ~(Holds(y)') /\ pc'[y].at # "put"
        <4>1. PICK y \in Threads :
                 /\ pc[y].at \in Sending
                 /\ Entered' = Entered \cup {pc[y].val}
                 /\ (BufferedSendAdds(t) /\ y = t) \/ UnbufferedRecvTakes(t)
                 /\ pc'[y].at \in Sending => ~(Holds(y)') /\ pc'[y].at # "put"
          BY <3>2
        <4> WITNESS {y} \in SUBSET Threads
        <4> QED
          BY <3>0, <4>1
      <3> QED
        BY <3>1, <3>2, EnteredMoves
    <2>4. ASSUME NEW x \in Threads, pc'[x].at \in Sending PROVE Sender(x)
      <3>1. /\ pc[x].at \in Sending /\ pc'[x].val = pc[x].val /\ pc'[x].chan = pc[x].chan
            /\ Holds(x)' => Holds(x)
            /\ pc'[x].at = "put" => pc[x].at = "put"
        BY <2>2, <2>4
      <3>2. result'[pc'[x].val] = "none"
        <4>1. CASE result' = result
          BY <1>1, <3>1, <4>1
        <4>2. CASE pc[t].at \in Sending /\ pc'[t].at = "idle"
          <5>1. x # t /\ pc[x].val # pc[t].val
            BY <1>1, <2>4, <3>1, <4>2 DEF Sending
          <5> QED
            BY <1>1, <1>3, <2>1, <3>1, <5>1
        <4> QED
          BY <2>1, <4>1, <4>2
      <3>3. \A y \in Threads : pc'[y].at \in Sending /\ pc'[y].val = pc'[x].val => y = x
        BY <1>1, <2>2, <3>1
      <3>4. ASSUME (Holds(x)' /\ pc'[x].chan \in Reliable) \/ pc'[x].at = "put"
            PROVE  pc'[x].val \notin Entered'
        <4>1. pc[x].val \notin Entered
          BY <1>1, <3>1, <3>4
        <4>2. \A y \in Y : pc[y].val # pc[x].val
          BY <1>1, <2>3, <2>4, <3>1, <3>4
        <4> QED
          BY <2>3, <3>1, <4>1, <4>2
      <3> QED
        BY <1>1, <2>1, <3>1, <3>2, <3>3, <3>4
    <2>5. In
      <3> SUFFICES ASSUME NEW v \in Entered' PROVE v <= used'.sends /\ result'[v] # "error"
        OBVIOUS
      <3>1. v \in Values /\ v <= used.sends /\ result[v] # "error"
        <4>1. CASE v \in Entered
          BY <1>1, <1>2, <4>1
        <4>2. ASSUME NEW y \in Y, v = pc[y].val
              PROVE  v \in Values /\ v <= used.sends /\ result[v] # "error"
          BY <1>1, <2>3, <4>2
        <4> QED
          BY <2>3, <4>1, <4>2
      <3>2. CASE UnbufferedSendFails(t) /\ pc[t].at = "put"
        <4>1. pc[t].at \in Sending /\ v \in Entered /\ pc[t].val \notin Entered
          BY <1>1, <2>3, <3>2 DEF Sending
        <4>2. v # pc[t].val
          BY <4>1
        <4> QED
          BY <1>3, <2>1, <3>1, <4>2
      <3>3. CASE result' = result \/ result' = [result EXCEPT ![pc[t].val] = "ok"]
        BY <1>3, <2>1, <3>1, <3>3
      <3> QED
        BY <2>1, <3>2, <3>3
    <2>6. Unused
      <3> SUFFICES ASSUME NEW v \in Values, v > used.sends PROVE result'[v] = "none"
        BY <2>1
      <3>1. result[v] = "none"
        BY <1>1
      <3>2. pc[t].at \in Sending => pc[t].val # v
        BY <1>1, <1>3, <1>4
      <3> QED
        BY <1>3, <2>1, <3>1, <3>2
    <2> QED
      BY <2>4, <2>5, <2>6
  <1> QED
    BY <1>5, <1>6

LEMMA LineStep ==
    ASSUME ChanInv, NEW t \in Threads, StepOf(t) PROVE LineInv'
  <1>0. /\ Reliable' \subseteq Reliable /\ Reliable \subseteq Chans
        /\ Buffered \subseteq Reliable /\ Shape /\ QueueInv
    BY ReliableAfter DEF ChanInv
  <1>1. /\ \A d \in Reliable : IsInjective(Line(d))
        /\ \A d, e \in Reliable : d # e => ToSet(Line(d)) \cap ToSet(Line(e)) = {}
        /\ \A d \in Reliable : ToSet(Line(d)) \subseteq Entered
    BY DEF ChanInv, LineInv, Entered
  <1>2. SUFFICES /\ \A d \in Reliable : IsInjective(Line(d)')
                 /\ \A d, e \in Reliable :
                       d # e => ToSet(Line(d)') \cap ToSet(Line(e)') = {}
    BY <1>0, <1>2 DEF LineInv, IsInjective, ToSet
  <1>3. CASE \A d \in Reliable : Line(d)' = Line(d)
    BY <1>1, <1>3
  <1>4. ASSUME NEW c \in Reliable, NEW v \in Values, Grows(c, v), v \notin Entered
        PROVE  /\ \A d \in Reliable : IsInjective(Line(d)')
               /\ \A d, e \in Reliable : d # e => ToSet(Line(d)') \cap ToSet(Line(e)') = {}
    <2>1. Line(c) \in Seq(Values) /\ v \notin ToSet(Line(c)) /\ IsInjective(Line(c))
      BY <1>0, <1>1, <1>4, LineFacts
    <2>2. /\ ToSet(Append(Line(c), v)) = ToSet(Line(c)) \cup {v}
          /\ IsInjective(Append(Line(c), v))
      BY <2>1, AppendItems
    <2>3. Line(c)' = Append(Line(c), v) /\ \A d \in Reliable \ {c} : Line(d)' = Line(d)
      BY <1>0, <1>4 DEF Grows
    <2>4. \A d \in Reliable : IsInjective(Line(d)')
      BY <1>1, <2>2, <2>3
    <2>5. \A d \in Reliable : v \notin ToSet(Line(d))
      BY <1>1, <1>4
    <2>6. /\ ToSet(Line(c)') = ToSet(Line(c)) \cup {v}
          /\ \A d \in Reliable \ {c} : ToSet(Line(d)') = ToSet(Line(d))
      BY <2>2, <2>3
    <2> QED
      BY <1>1, <2>4, <2>5, <2>6
  <1>5. CASE Stays
    BY <1>0, <1>3, <1>5 DEF Stays
  <1>6. CASE BufferedSendAdds(t)
    <2>1. PICK c : c = pc[t].chan
      OBVIOUS
    <2>2. Grows(c, pc[t].val) /\ c \in Buffered /\ c \in Chans /\ pc[t].val \in Values
      BY <1>6, <2>1, AddGrows
    <2>3. pc[t].at \in {"put", "write_again"}
      BY <1>6, SendEffects DEF SectionOf
    <2>4. pc[t].at \in Sending /\ Holds(t) /\ c \in Reliable
      BY <1>0, <2>1, <2>2, <2>3 DEF Holds, Sending
    <2>5. pc[t].val \notin Entered
      BY <2>1, <2>4 DEF ChanInv, ValueInv
    <2> QED
      BY <1>4, <2>2, <2>4, <2>5
  <1>7. CASE UnbufferedRecvTakes(t)
    <2>1. PICK c : c = pc[t].chan
      OBVIOUS
    <2>2. Grows(c, data[c]) /\ c \in Chans \ Buffered /\ data[c] \in Values
      BY <1>7, <2>1, HandOffGrows
    <2>3. CASE c \notin Reliable
      <3>1. \A d \in Reliable : Line(d)' = Line(d)
        BY <1>0, <2>2, <2>3 DEF Grows
      <3> QED
        BY <1>3, <3>1
    <2>4. CASE c \in Reliable
      <3>1. PICK y \in Threads :
               pc[y].at = "write" /\ pc[y].chan = c /\ data[c] = pc[y].val
        BY <1>7, <2>1, <2>4, TakenFrom
      <3>2. pc[y].val \notin Entered
        BY <2>4, <3>1 DEF ChanInv, ValueInv, Holds, Sending
      <3> QED
        BY <1>4, <2>2, <2>4, <3>1, <3>2
    <2> QED
      BY <2>3, <2>4
  <1> QED
    BY <1>5, <1>6, <1>7, LineAfter

\* What a sender may rely on, once true, stays true: what was received stays received,
\* and the slot of a closed channel is not written again.
LEMMA ClosedStays ==
    ASSUME ChanInv, NEW t \in Threads, StepOf(t), NEW c \in Chans, closed[c]
    PROVE  closed'[c] /\ data'[c] = data[c]
  <1>0. Shape
    BY DEF ChanInv
  <1>1. closed' = closed \/ \E d \in Chans : closed' = [closed EXCEPT ![d] = TRUE]
    BY StillFrame
    DEF Section, chan_close, BufferedSendWaits, BufferedSendAdds, BufferedRecvFails,
        BufferedRecvWaits, BufferedRecvTakes, UnbufferedSendFails, UnbufferedSendOffers,
        UnbufferedSendReturns, UnbufferedRecvFails, UnbufferedRecvWaits,
        UnbufferedRecvTakes
  <1>2. closed'[c]
    BY <1>0, <1>1 DEF Shape
  <1>3. data' = data \/ UnbufferedSendOffers(t)
    BY DataFrame
  <1>4. CASE UnbufferedSendOffers(t)
    <2>1. ~closed[pc[t].chan] /\ data' = [data EXCEPT ![pc[t].chan] = pc[t].val]
      BY <1>4 DEF UnbufferedSendOffers
    <2> QED
      BY <1>0, <1>2, <2>1 DEF Shape
  <1> QED
    BY <1>2, <1>3, <1>4

LEMMA ReceivedStays ==
    ASSUME ChanInv, NEW t \in Threads, StepOf(t), NEW c \in Chans
    PROVE  ToSet(received[c]) \subseteq ToSet(received'[c])
  <1>0. received \in [Chans -> Seq(Values)] /\ received[c] \in Seq(Values)
    BY DEF ChanInv, Shape
  <1>1. ASSUME NEW d \in Chans, NEW v \in Values,
               received' = [received EXCEPT ![d] = Append(@, v)]
        PROVE  ToSet(received[c]) \subseteq ToSet(received'[c])
    <2>1. CASE c = d
      <3>1. received'[c] = Append(received[c], v)
        BY <1>0, <1>1, <2>1
      <3>2. ToSet(Append(received[c], v)) = ToSet(received[c]) \cup {v}
        BY <1>0, AppendItems
      <3> QED
        BY <3>1, <3>2
    <2>2. CASE c # d
      BY <1>0, <1>1, <2>2
    <2> QED
      BY <2>1, <2>2
  <1>2. CASE BufferedRecvTakes(t)
    <2>1. PICK d : d = pc[t].chan
      OBVIOUS
    <2>2. d \in Chans /\ Head(Contents(queue[d])) \in Values
          /\ received' = [received EXCEPT ![d] = Append(@, Head(Contents(queue[d])))]
      BY <1>2, <2>1, TakeFacts
    <2> QED
      BY <1>1, <2>2
  <1>3. CASE UnbufferedRecvTakes(t)
    <2>1. PICK d : d = pc[t].chan
      OBVIOUS
    <2>2. d \in Chans /\ data[d] \in Values
          /\ received' = [received EXCEPT ![d] = Append(@, data[d])]
      BY <1>3, <2>1, HandOffFacts
    <2> QED
      BY <1>1, <2>2
  <1>4. CASE received' = received
    BY <1>4
  <1> QED
    BY <1>2, <1>3, <1>4, BufferFrame DEF BufferedSendAdds

LEMMA HandedStays ==
    ASSUME ChanInv, NEW t \in Threads, StepOf(t), NEW c \in Chans, NEW v, Handed(v, c)
    PROVE  v \in ToSet(received'[c]) \/ v \in early'[c] \/ (closed'[c] /\ data'[c] = v)
  <1>1. early[c] \subseteq early'[c]
    BY ReliableAfter
  <1>2. ToSet(received[c]) \subseteq ToSet(received'[c])
    BY ReceivedStays
  <1>3. closed[c] => closed'[c] /\ data'[c] = data[c]
    BY ClosedStays
  <1> QED
    BY <1>1, <1>2, <1>3 DEF Handed

\* A sender that sleeps, or that was woken, after a step.
LEMMA AsleepAfter ==
    ASSUME ChanInv, NEW t \in Threads, StepOf(t), NEW d \in Chans \ Buffered,
           NEW x \in Threads, pc'[x].at = "write", pc'[x].chan = d
    PROVE  \/ x = t /\ UnbufferedSendOffers(t) /\ pc[t].chan = d /\ pc'[t].val = pc[t].val
           \/ Same(x)
  <1>1. CASE Outside(t)
    BY <1>1 DEF Outside, Same
  <1>2. ASSUME NEW e \in Chans, chan_close(t, e) PROVE Same(x)
    BY <1>2, CloseMoves DEF Wakes
  <1>3. CASE SpuriousWake(t)
    BY <1>3, SpuriousMoves DEF Wakes
  <1>4. CASE Section(t) /\ x # t
    BY <1>4, SectionMoves DEF Wakes
  <1>5. CASE Section(t) /\ x = t
    <2>1. pc'[t].at = "write" /\ pc'[t] # Idle
      BY <1>5, IdleFacts
    <2>2. Waits(t)
      BY <1>5, <2>1, SectionMoves
    <2>3. pc'[t].chan = pc[t].chan /\ pc'[t].val = pc[t].val
      BY <2>2 DEF Waits
    <2>4. pc[t].at \in {"put", "write_again"}
      BY <2>1, <2>2 DEF Waits
    <2>5. ~(BufferedSendAdds(t) \/ UnbufferedSendFails(t) \/ UnbufferedSendReturns(t))
      BY <2>1, SendEffects DEF SectionOf, Ends
    <2>6. ~(\/ BufferedRecvFails(t) \/ BufferedRecvWaits(t) \/ BufferedRecvTakes(t)
            \/ UnbufferedRecvFails(t) \/ UnbufferedRecvWaits(t) \/ UnbufferedRecvTakes(t))
      BY <2>4, RecvEffects DEF SectionOf
    <2>7. ~BufferedSendWaits(t)
      BY <1>5, <2>3, SendEffects DEF SectionOf
    <2> QED
      BY <1>5, <2>3, <2>5, <2>6, <2>7 DEF Section
  <1>6. ASSUME NEW e \in Chans, chan_send(t, e), pc[t].at \in {"idle", "select"}
        PROVE  Outside(t)
    BY <1>6, FreshFacts
  <1> QED
    BY <1>1, <1>2, <1>3, <1>4, <1>5, <1>6 DEF StepOf

LEMMA WokenAfter ==
    ASSUME ChanInv, NEW t \in Threads, StepOf(t), NEW d \in Chans \ Buffered,
           NEW x \in Threads, pc'[x].at = "write_again", pc'[x].chan = d
    PROVE  \/ Same(x)
           \/ /\ Wakes(x)
              /\ \/ chan_close(t, d)
                 \/ SpuriousWake(t) /\ x = t
                 \/ UnbufferedRecvTakes(t) /\ pc[t].chan = d
  <1>1. CASE Outside(t)
    BY <1>1 DEF Outside, Same
  <1>2. ASSUME NEW e \in Chans, chan_close(t, e) PROVE Same(x) \/ (Wakes(x) /\ e = d)
    BY <1>2, CloseMoves DEF Wakes
  <1>3. CASE SpuriousWake(t)
    BY <1>3, SpuriousMoves
  <1>4. CASE Section(t)
    <2>1. x # t
      BY <1>4, SectionMoves, IdleFacts DEF Waits
    <2>2. Same(x) \/ (Wakes(x) /\ pc[x].chan = pc[t].chan)
      BY <1>4, <2>1, SectionMoves
    <2>3. ASSUME Wakes(x), pc[x].chan = pc[t].chan PROVE UnbufferedRecvTakes(t)
      <3>1. PICK c : c = pc[t].chan
        OBVIOUS
      <3>2. c = d /\ pc[x].at = "write" /\ pc'[x].at # pc[x].at
        BY <2>3, <3>1 DEF Wakes
      <3>3. ~Alone(t) /\ ~WokeOne(t, "read", c)
        <4>1. ~Same(x)
          BY <3>2 DEF Same
        <4> QED
          BY <2>1, <3>2, <4>1, OthersMove
      <3> QED
        BY <1>4, <3>1, <3>2, <3>3, SendEffects, RecvEffects DEF Section, SectionOf
    <2> QED
      BY <2>2, <2>3 DEF Wakes
  <1>5. ASSUME NEW e \in Chans, chan_send(t, e), pc[t].at \in {"idle", "select"}
        PROVE  Outside(t)
    BY <1>5, FreshFacts
  <1> QED
    BY <1>1, <1>2, <1>3, <1>4, <1>5 DEF StepOf

LEMMA SlotStep ==
    ASSUME ChanInv, NEW t \in Threads, StepOf(t) PROVE SlotInv'
  <1>0. Buffered' = Buffered /\ Shape /\ MutexInv
    BY ReliableAfter DEF ChanInv
  <1>1. ASSUME NEW d \in Chans \ Buffered, NEW x \in Threads,
               pc'[x].at = "write", pc'[x].chan = d
        PROVE  data'[d] = pc'[x].val
    <2>1. CASE UnbufferedSendOffers(t) /\ pc[t].chan = d
      <3>1. /\ data' = [data EXCEPT ![d] = pc[t].val] /\ w_mu[d] = Null
        BY <2>1 DEF UnbufferedSendOffers
      <3>2. data'[d] = pc[t].val
        BY <1>0, <3>1 DEF Shape
      <3>3. CASE x = t /\ pc'[t].val = pc[t].val
        BY <3>2, <3>3
      <3>4. CASE Same(x)
        <4>1. x \in Writers(d)
          BY <1>1, <3>4 DEF Same, Writers, ThreadsAt
        <4> QED
          BY <1>0, <3>1, <4>1, OneWriter
      <3> QED
        BY <1>1, <3>3, <3>4, AsleepAfter
    <2>2. CASE ~(UnbufferedSendOffers(t) /\ pc[t].chan = d)
      <3>1. Same(x)
        BY <1>1, <2>2, AsleepAfter
      <3>2. data'[d] = data[d]
        BY <1>0, <2>2, DataFrame DEF Shape, UnbufferedSendOffers
      <3>3. data[d] = pc[x].val
        BY <1>1, <3>1 DEF ChanInv, SlotInv, Same
      <3> QED
        BY <3>1, <3>2, <3>3 DEF Same
    <2> QED
      BY <2>1, <2>2
  <1>2. ASSUME NEW d \in Chans \ Buffered, NEW x \in Threads,
               pc'[x].at = "write_again", pc'[x].chan = d, NEW v, v = pc[x].val
        PROVE  /\ pc'[x].val = v
               /\ v \in ToSet(received'[d]) \/ v \in early'[d] \/ (closed'[d] /\ data'[d] = v)
    <2>1. CASE Same(x)
      <3>1. Handed(v, d) /\ pc'[x].val = v
        BY <1>2, <2>1 DEF ChanInv, SlotInv, Same
      <3> QED
        BY <3>1, HandedStays
    <2>2. CASE Wakes(x)
      <3>0. pc[x].at = "write" /\ pc[x].chan = d /\ pc'[x].val = v
        BY <1>2, <2>2 DEF Wakes
      <3>1. data[d] = v
        BY <1>2, <3>0 DEF ChanInv, SlotInv
      <3>2. CASE chan_close(t, d)
        <4>1. closed' = [closed EXCEPT ![d] = TRUE] /\ data' = data
          BY <3>2 DEF chan_close, slot
        <4> QED
          BY <1>0, <3>0, <3>1, <4>1 DEF Shape
      <3>3. CASE SpuriousWake(t) /\ x = t
        BY <1>2, <3>0, <3>3, EarlyFacts
      <3>4. CASE UnbufferedRecvTakes(t) /\ pc[t].chan = d
        <4>1. received'[d] = Append(received[d], v) /\ received[d] \in Seq(Values)
              /\ v \in Values
          <5>1. /\ received' = [received EXCEPT ![d] = Append(@, data[d])]
                /\ data[d] \in Values
            BY <3>4, HandOffFacts
          <5>2. received \in [Chans -> Seq(Values)] /\ d \in Chans
            BY <1>0 DEF Shape
          <5> QED
            BY <3>1, <5>1, <5>2
        <4>2. v \in ToSet(received'[d])
          BY <4>1, AppendItems
        <4> QED
          BY <3>0, <4>2
      <3>5. ~Same(x)
        BY <1>2, <3>0 DEF Same
      <3> QED
        BY <1>2, <3>2, <3>3, <3>4, <3>5, WokenAfter
    <2> QED
      BY <1>2, <2>1, <2>2, WokenAfter
  <1>3. ASSUME NEW d \in Chans \ Buffered, NEW x \in Threads,
               pc'[x].at = "write_again", pc'[x].chan = d
        PROVE  Handed(pc[x].val, d)'
    <2>1. ToSet(received[d])' = ToSet(received'[d])
      BY DEF ToSet
    <2> QED
      BY <1>2, <1>3, <2>1 DEF Handed
  <1> QED
    BY <1>0, <1>1, <1>3 DEF SlotInv

LEMMA KeptStep ==
    ASSUME ChanInv, NEW t \in Threads, StepOf(t) PROVE KeptInv'
  <1> DEFINE HandedNow(v, c) ==
                 v \in ToSet(received'[c]) \/ v \in early'[c] \/ (closed'[c] /\ data'[c] = v)
  <1>0. SUFFICES ASSUME NEW v \in Values, result'[v] = "ok"
                 PROVE  \/ \E c \in Buffered : v \in ToSet(Line(c)')
                        \/ \E c \in Chans \ Buffered : HandedNow(v, c)
    <2>1. Buffered' = Buffered
      BY ReliableAfter
    <2>2. \A c : ToSet(Line(c))' = ToSet(Line(c)')
      BY DEF ToSet
    <2>3. \A u, c : Handed(u, c)' <=> HandedNow(u, c)
      BY DEF Handed, ToSet
    <2> QED
      BY <1>0, <2>1, <2>2, <2>3 DEF KeptInv
  <1>1. Buffered \subseteq Chans
    BY ReliableAfter
  <1>2. ASSUME NEW c \in Chans
        PROVE  /\ ToSet(Line(c)) \subseteq ToSet(Line(c)')
               /\ BufferedSendAdds(t) /\ pc[t].chan = c => pc[t].val \in ToSet(Line(c)')
    <2>0. Line(c) \in Seq(Values)
      BY LineFacts DEF ChanInv
    <2>1. ASSUME NEW d \in Chans, NEW u \in Values, Grows(d, u)
          PROVE  /\ ToSet(Line(c)) \subseteq ToSet(Line(c)')
                 /\ c = d => u \in ToSet(Line(c)')
      <3>1. ToSet(Append(Line(c), u)) = ToSet(Line(c)) \cup {u}
        BY <2>0, AppendItems
      <3> QED
        BY <2>1, <3>1 DEF Grows
    <2>2. CASE BufferedSendAdds(t)
      <3>1. PICK d : d = pc[t].chan
        OBVIOUS
      <3>2. Grows(d, pc[t].val) /\ d \in Chans /\ pc[t].val \in Values
        BY <2>2, <3>1, AddGrows
      <3> QED
        BY <2>1, <3>1, <3>2
    <2>3. CASE UnbufferedRecvTakes(t) /\ ~BufferedSendAdds(t)
      <3>1. PICK d : d = pc[t].chan
        OBVIOUS
      <3>2. Grows(d, data[d]) /\ d \in Chans /\ data[d] \in Values
        BY <2>3, <3>1, HandOffGrows
      <3> QED
        BY <2>1, <2>3, <3>2
    <2>4. CASE Stays /\ ~BufferedSendAdds(t)
      BY <2>4 DEF Stays
    <2> QED
      BY <2>2, <2>3, <2>4, LineAfter
  <1>3. CASE result[v] = "ok"
    <2>1. \/ \E c \in Buffered : v \in ToSet(Line(c))
          \/ \E c \in Chans \ Buffered : Handed(v, c)
      BY <1>3 DEF ChanInv, KeptInv
    <2> QED
      BY <1>1, <1>2, <2>1, HandedStays
  <1>4. CASE result[v] # "ok"
    <2>0. result \in [Values -> {"none", "ok", "error"}]
      BY DEF ChanInv, Shape
    <2>1. ~Fresh(t)
      <3>1. ASSUME NEW c \in Chans, chan_send(t, c), pc[t].at \in {"idle", "select"}
            PROVE  FALSE
        <4>1. /\ used.sends + 1 \in Values
              /\ result' = result \/ result' = [result EXCEPT ![used.sends + 1] = "error"]
          BY <3>1, FreshFacts
        <4> QED
          BY <1>0, <1>4, <2>0, <4>1
      <3> QED
        BY <3>1 DEF Fresh
    <2>2. /\ pc[t].val = v /\ pc[t].at \in Sending
          /\ BufferedSendAdds(t) \/ UnbufferedSendReturns(t)
      BY <1>0, <1>4, <2>0, <2>1, ResultMoves
    <2>3. PICK c : c = pc[t].chan
      OBVIOUS
    <2>4. CASE BufferedSendAdds(t)
      <3>1. c \in Buffered
        BY <2>3, <2>4, AddGrows
      <3> QED
        BY <1>1, <1>2, <2>2, <2>3, <2>4, <3>1
    <2>5. CASE UnbufferedSendReturns(t)
      <3>1. c \in Chans \ Buffered /\ pc[t].at = "write_again"
        BY <2>3, <2>5, SendEffects DEF SectionOf
      <3>2. Handed(v, c)
        BY <2>2, <2>3, <3>1 DEF ChanInv, SlotInv
      <3> QED
        BY <3>1, <3>2, HandedStays
    <2> QED
      BY <2>2, <2>4, <2>5
  <1> QED
    BY <1>3, <1>4
-----------------------------------------------------------------------------
(* The invariant.                                                          *)

LEMMA InitHolds == Init => ChanInv
  <1> SUFFICES ASSUME Init PROVE ChanInv
    OBVIOUS
  <1> USE DEF Init
  <1>0. \A t \in Threads : pc[t] = Idle /\ pc[t].at = "idle"
    BY IdleFacts
  <1>1. PcInv
    BY <1>0, IdleFacts DEF PcInv, Sending, Receiving
  <1>2. Shape
    <2>1. used \in Calls /\ used.sends = 0
      BY DEF Calls
    <2>2. <<>> \in Seq(Values)
      OBVIOUS
    <2> QED
      BY <2>1, <2>2, ChanAssumption DEF Shape
  <1>3. QueueInv
    <2>1. ASSUME NEW c \in Buffered
          PROVE  /\ IsQueue(queue[c], Values \cup {Null})
                 /\ queue[c].capacity = Capacity[c]
                 /\ Contents(queue[c]) \in Seq(Values)
      <3>1. c \in Chans /\ Capacity[c] \in Nat \ {0}
        BY ChanAssumption DEF Buffered, chan_is_buffered
      <3>2. queue[c] = queue_init(Capacity[c]) /\ Null \in Values \cup {Null}
        BY <3>1
      <3>3. /\ IsQueue(queue_init(Capacity[c]), Values \cup {Null})
            /\ Contents(queue_init(Capacity[c])) = <<>>
        BY <3>1, <3>2, InitIsEmpty
      <3>4. queue_init(Capacity[c]).capacity = Capacity[c]
        BY DEF queue_init
      <3>5. <<>> \in Seq(Values)
        OBVIOUS
      <3> HIDE DEF Init
      <3> QED
        BY <3>2, <3>3, <3>4, <3>5
    <2>2. \A c \in Chans \ Buffered : queue[c] = queue_init(Capacity[c]) /\ w_waiting[c] = 0
      OBVIOUS
    <2> QED
      BY <2>1, <2>2 DEF QueueInv
  <1>4. \A P, c : "idle" \notin P => ThreadsAt(P, c) = {}
    BY <1>0 DEF ThreadsAt
  <1>5. MutexInv
    <2>1. \A c \in Chans : r_mu[c] = Null /\ w_mu[c] = Null
      OBVIOUS
    <2>2. \A c : /\ ThreadsAt({"read", "read_again"}, c) = {}
                 /\ ThreadsAt({"write", "write_again"}, c) = {}
      BY <1>0 DEF ThreadsAt
    <2> HIDE DEF Init
    <2> QED
      BY <2>1, <2>2, ChanAssumption DEF MutexInv
  <1>6. WaitersCounted
    BY <1>4, FS_EmptySet DEF WaitersCounted, Buffered
  <1>7. NoLostWakeup
    BY <1>4 DEF NoLostWakeup
  <1>8. HandOffInv
    <2>1. 0 <= Cardinality(Threads)
      BY ChanAssumption, FS_CardinalityType
    <2> QED
      BY <1>4, <2>1 DEF HandOffInv, Reliable
  <1>80. SlotInv
    BY <1>0 DEF SlotInv
  <1>9. \A c \in Chans : Line(c) = <<>> /\ ToSet(Line(c)) = {} /\ IsInjective(Line(c))
    <2> TAKE c \in Chans
    <2>1. received[c] = <<>> /\ <<>> \in Seq(Values) /\ <<>> \o <<>> = <<>>
      BY ConcatEmptySeq
    <2>2. CASE c \in Buffered
      <3>1. Capacity[c] \in Nat \ {0}
        BY <2>2, ChanAssumption DEF Buffered, chan_is_buffered
      <3>2. Contents(queue[c]) = <<>>
        BY <3>1, InitIsEmpty
      <3> QED
        BY <2>1, <2>2, <3>2 DEF Line, ToSet, IsInjective
    <2>3. CASE c \notin Buffered
      BY <2>1, <2>3 DEF Line, ToSet, IsInjective
    <2> QED
      BY <2>2, <2>3
  <1>10. Entered = {}
    BY <1>9 DEF Entered, Reliable
  <1>11. ValueInv
    BY <1>0, <1>10 DEF ValueInv, Sending
  <1>12. LineInv
    BY <1>9 DEF LineInv, Reliable
  <1>13. KeptInv
    BY DEF KeptInv
  <1> QED
    BY <1>1, <1>2, <1>3, <1>5, <1>6, <1>7, <1>8, <1>80, <1>11, <1>12, <1>13 DEF ChanInv

LEMMA StutterHolds ==
    ASSUME ChanInv, UNCHANGED vars PROVE ChanInv'
  <1> USE DEF vars, control, buffer, slot, waiters
  <1>1. PcInv' /\ Shape'
    BY DEF ChanInv, PcInv, Shape
  <1>2. QueueInv'
    BY DEF ChanInv, QueueInv, Buffered, chan_is_buffered
  <1>3. MutexInv' /\ WaitersCounted' /\ NoLostWakeup'
    <2>1. Buffered' = Buffered /\ \A P, c : ThreadsAt(P, c)' = ThreadsAt(P, c)
      BY DEF Buffered, chan_is_buffered, ThreadsAt
    <2>2. MutexInv'
      BY <2>1 DEF ChanInv, MutexInv
    <2>3. WaitersCounted'
      BY <2>1 DEF ChanInv, WaitersCounted
    <2>4. NoLostWakeup'
      BY <2>1 DEF ChanInv, NoLostWakeup
    <2> QED
      BY <2>2, <2>3, <2>4
  <1>4. HandOffInv'
    BY DEF ChanInv, HandOffInv, ThreadsAt, Reliable, Torn, Buffered, chan_is_buffered
  <1>40. SlotInv'
    BY DEF ChanInv, SlotInv, Handed, Buffered, chan_is_buffered
  <1>5. Reliable' = Reliable /\ Buffered' = Buffered /\ \A c : Line(c)' = Line(c)
    BY DEF Reliable, Torn, Line, Buffered, chan_is_buffered
  <1>6. Entered' = Entered /\ \A t : Holds(t)' <=> Holds(t)
    BY <1>5 DEF Entered, Holds
  <1>7. ValueInv' /\ KeptInv'
    BY <1>5, <1>6 DEF ChanInv, ValueInv, KeptInv, Handed
  <1>8. LineInv'
    BY <1>5 DEF ChanInv, LineInv
  <1> QED
    BY <1>1, <1>2, <1>3, <1>4, <1>40, <1>7, <1>8 DEF ChanInv

LEMMA StepHolds == ChanInv /\ [Next]_vars => ChanInv'
  <1>1. ASSUME ChanInv, Next PROVE ChanInv'
    <2>1. PICK t \in Threads : StepOf(t)
      BY <1>1, NextCases
    <2> QED
      BY <1>1, <2>1, PcStep, ShapeStep, QueueStep, MutexStep, CountStep, LostStep,
         HandOffStep, SlotStep, ValueStep, LineStep, KeptStep
      DEF ChanInv
  <1>2. ASSUME ChanInv, UNCHANGED vars PROVE ChanInv'
    BY <1>2, StutterHolds
  <1> QED
    BY <1>1, <1>2

(* The inductive invariant of the channels: control states, data, mutexes, counters,
   wake-ups, hand-offs and values fit together whatever the threads do. *)
THEOREM ChanInvariance == Spec => []ChanInv
  BY InitHolds, StepHolds, PTL DEF Spec

(* r_waiting and w_waiting of src/chan.c are exact, for any threads, channels and
   capacities and with waits that return unsignalled. *)
THEOREM CountersAreExact == Spec => []WaitersCounted
  <1>1. ChanInv => WaitersCounted
    BY DEF ChanInv
  <1> QED
    BY <1>1, ChanInvariance, PTL

(* One signal per operation, sent only if a counter says so, is enough: no item, free
   slot, offer or close of src/chan.c leaves a thread asleep that it should wake. *)
THEOREM WakeupsReach == Spec => []NoLostWakeup
  <1>1. ChanInv => NoLostWakeup
    BY DEF ChanInv
  <1> QED
    BY <1>1, ChanInvariance, PTL

(* The fields of chan_t and of its queue stay in their ranges: a queue is never over
   its capacity, its index stays inside the buffer, and the counters never exceed the
   number of threads, but for w_waiting of an unbuffered channel after a wait of a
   sender returned unsignalled. *)
THEOREM TypeCorrect == Spec => []TypeOK
  <1>1. ChanInv => TypeOK
    <2> SUFFICES ASSUME ChanInv PROVE TypeOK
      OBVIOUS
    <2>0. PcInv /\ Shape /\ QueueInv /\ WaitersCounted /\ HandOffInv
      BY DEF ChanInv
    <2>1. ASSUME NEW c \in Chans
          PROVE  /\ r_waiting[c] \in 0..Cardinality(Threads)
                 /\ w_waiting[c] \in Nat
                 /\ c \notin Torn => w_waiting[c] <= Cardinality(Threads)
      <3>1. Readers(c) \in SUBSET Threads /\ Writers(c) \in SUBSET Threads
        BY DEF Readers, Writers, ThreadsAt
      <3>2. /\ Cardinality(Readers(c)) \in 0..Cardinality(Threads)
            /\ Cardinality(Writers(c)) \in 0..Cardinality(Threads)
            /\ Cardinality(Threads) \in Nat
        <4>1. ASSUME NEW S \in SUBSET Threads
              PROVE  /\ Cardinality(S) \in Nat /\ Cardinality(S) <= Cardinality(Threads)
                     /\ Cardinality(Threads) \in Nat
          BY ChanAssumption, FS_Subset, FS_CardinalityType
        <4> QED
          BY <3>1, <4>1
      <3>3. /\ r_waiting[c] = Cardinality(Readers(c))
            /\ c \in Buffered => w_waiting[c] = Cardinality(Writers(c))
        BY <2>0 DEF WaitersCounted, Readers, Writers
      <3>4. /\ w_waiting[c] \in Nat
            /\ c \notin Buffered /\ c \notin Torn => w_waiting[c] <= Cardinality(Threads)
        BY <2>0 DEF HandOffInv, Reliable, Shape
      <3> QED
        BY <3>2, <3>3, <3>4
    <2>2. ASSUME NEW c \in Chans
          PROVE  /\ queue[c].size \in 0..Capacity[c]
                 /\ c \in Buffered => queue[c].next \in 0..(Capacity[c] - 1)
      <3>1. CASE c \in Buffered
        BY <2>0, <3>1, SizeFacts
      <3>2. CASE c \notin Buffered
        <4>1. queue[c] = queue_init(Capacity[c]) /\ Capacity[c] \in Nat
          BY <2>0, <3>2, ChanAssumption DEF QueueInv
        <4>2. queue_init(Capacity[c]).size = 0
          BY DEF queue_init
        <4> QED
          BY <3>2, <4>1, <4>2
      <3> QED
        BY <3>1, <3>2
    <2>3. \A t \in Threads : pc[t].at \in Places
      BY <2>0, ControlFacts DEF PcInv
    <2>4. /\ closed \in [Chans -> BOOLEAN]
          /\ \A c \in Chans : /\ data[c] \in Values \cup {Null}
                              /\ r_mu[c] \in Threads \cup {Null}
                              /\ w_mu[c] \in Threads \cup {Null}
          /\ \A v \in Values : result[v] \in {"none", "ok", "error"}
      BY <2>0 DEF Shape
    <2> QED
      BY <2>1, <2>2, <2>3, <2>4 DEF TypeOK
  <1> QED
    BY <1>1, ChanInvariance, PTL

(* A value is received at most once, on one channel, and never if chan_send returned
   -1: the free in chan_recv_* and the free after a failed chan_send_* never meet.
   Unsignalled wake-ups are part of the behaviours; an unbuffered channel is left out
   only from the moment one of them has ended the wait of a sender. *)
THEOREM ValuesHaveOneOwner == Spec => []OneOwner
  <1>1. ChanInv => OneOwner
    <2> SUFFICES ASSUME ChanInv PROVE OneOwner
      OBVIOUS
    <2>1. \A c \in Chans : /\ ToSet(received[c]) \subseteq ToSet(Line(c))
                           /\ IsInjective(Line(c)) => IsInjective(received[c])
      BY LineFacts DEF ChanInv
    <2>2. /\ \A c \in Reliable : IsInjective(Line(c))
          /\ \A c, d \in Reliable : c # d => ToSet(Line(c)) \cap ToSet(Line(d)) = {}
      BY DEF ChanInv, LineInv
    <2>3. \A c \in Reliable : c \in Chans /\ ToSet(Line(c)) \subseteq Entered
      BY DEF Entered, Reliable
    <2>4. \A v \in Entered : result[v] # "error"
      BY DEF ChanInv, ValueInv
    <2>5. \A c \in Reliable : /\ IsInjective(received[c])
                              /\ \A v \in ToSet(received[c]) : result[v] # "error"
      BY <2>1, <2>2, <2>3, <2>4
    <2>6. \A c, d \in Reliable : c # d => ToSet(received[c]) \cap ToSet(received[d]) = {}
      BY <2>1, <2>2, <2>3
    <2> QED
      BY <2>5, <2>6 DEF OneOwner, Reliable
  <1> QED
    BY <1>1, ChanInvariance, PTL

(* chan_send returns 0 only for a value that was received or waits in a buffer, with
   two exceptions, both of unbuffered_chan_send: a value whose own wait returned
   unsignalled, and the value in the slot of a channel that was closed. *)
THEOREM ValuesAreKept == Spec => []NothingLost
  <1>1. ChanInv => NothingLost
    <2> SUFFICES ASSUME ChanInv, NEW v \in Values, result[v] = "ok"
                 PROVE  \/ v \in Received
                        \/ \E c \in Buffered : v \in ToSet(Contents(queue[c]))
                        \/ \E c \in Chans \ Buffered :
                              v \in early[c] \/ (closed[c] /\ data[c] = v)
      BY DEF NothingLost
    <2>1. \/ \E c \in Buffered : v \in ToSet(Line(c))
          \/ \E c \in Chans \ Buffered : Handed(v, c)
      BY DEF ChanInv, KeptInv
    <2>2. ASSUME NEW c \in Buffered, v \in ToSet(Line(c))
          PROVE  v \in Received \/ v \in ToSet(Contents(queue[c]))
      <3>1. c \in Chans
        BY DEF Buffered
      <3>2. v \in ToSet(received[c]) \/ v \in ToSet(Contents(queue[c]))
        BY <2>2, <3>1, LineFacts DEF ChanInv
      <3> QED
        BY <3>1, <3>2 DEF Received
    <2>3. ASSUME NEW c \in Chans \ Buffered, Handed(v, c)
          PROVE  v \in Received \/ v \in early[c] \/ (closed[c] /\ data[c] = v)
      BY <2>3 DEF Handed, Received
    <2> QED
      BY <2>1, <2>2, <2>3
  <1> QED
    BY <1>1, ChanInvariance, PTL
-----------------------------------------------------------------------------
(* Buffered channels implement the bounded FIFO.                           *)

\* The abstract state.
Waiting == [c \in Buffered |-> Contents(queue[c])]
Got == [c \in Buffered |-> received[c]]

LEMMA AbstractAfter ==
    /\ Buffered' = Buffered
    /\ Waiting' = [c \in Buffered |-> Contents(queue'[c])]
    /\ Got' = [c \in Buffered |-> received'[c]]
  BY DEF Waiting, Got, Contents, Wrap, Buffered, chan_is_buffered

\* buffered_chan_send puts its value behind the others; it was in no buffer before.
LEMMA AddIsPut ==
    ASSUME ChanInv, NEW t \in Threads, BufferedSendAdds(t), NEW c, c = pc[t].chan,
           NEW v, v = pc[t].val
    PROVE  c \in Buffered /\ v \in Values /\ Fifo!Put(c, v)
  <1>1. /\ c \in Buffered /\ c \in Chans /\ v \in Values
        /\ Contents(queue'[c]) = Append(Contents(queue[c]), v)
        /\ queue[c].size < Capacity[c]
        /\ \A d \in Chans \ {c} : queue'[d] = queue[d]
    BY AddFacts
  <1>2. Len(Contents(queue[c])) = queue[c].size
    BY <1>1, SizeFacts DEF ChanInv
  <1>3. Buffered \subseteq Chans /\ Buffered \subseteq Reliable
    BY DEF Buffered, Reliable, Torn
  <1>4. v \notin Entered
    <2>1. pc[t].at \in {"put", "write_again"}
      BY SendEffects DEF SectionOf
    <2>2. pc[t].at \in Sending /\ Holds(t) /\ pc[t].chan \in Reliable
      BY <1>1, <1>3, <2>1 DEF Sending, Holds
    <2> QED
      BY <2>2 DEF ChanInv, ValueInv
  <1>5. \A q \in Buffered : v \notin ToSet(Contents(queue[q])) \cup ToSet(received[q])
    <2> TAKE q \in Buffered
    <2>1. ToSet(Line(q)) = ToSet(received[q]) \cup ToSet(Contents(queue[q]))
      BY <1>3, LineFacts DEF ChanInv
    <2>2. ToSet(Line(q)) \subseteq Entered
      BY <1>3 DEF Entered
    <2> QED
      BY <1>4, <2>1, <2>2
  <1>6. received' = received
    BY DEF BufferedSendAdds
  <1>7. /\ Waiting' = [Waiting EXCEPT ![c] = Append(@, v)]
        /\ Got' = Got
    <2>1. Waiting' = [d \in Buffered |-> Contents(queue'[d])]
          /\ Got' = [d \in Buffered |-> received'[d]]
      BY AbstractAfter
    <2>2. \A d \in Buffered \ {c} : Contents(queue'[d]) = Contents(queue[d])
      BY <1>1, <1>3
    <2> QED
      BY <1>1, <1>6, <2>1, <2>2 DEF Waiting, Got
  <1>8. /\ Len(Waiting[c]) < Capacity[c]
        /\ \A q \in Buffered : v \notin ToSet(Waiting[q]) \cup ToSet(Got[q])
    BY <1>1, <1>2, <1>5 DEF Waiting, Got
  <1>9. \A s : Fifo!ToSet(s) = ToSet(s)
    BY DEF ToSet, Fifo!ToSet
  <1> QED
    BY <1>1, <1>7, <1>8, <1>9 DEF Fifo!Put, Waiting, Got

\* buffered_chan_recv takes the first.
LEMMA TakeIsGet ==
    ASSUME ChanInv, NEW t \in Threads, BufferedRecvTakes(t), NEW c, c = pc[t].chan
    PROVE  c \in Buffered /\ Fifo!Get(c)
  <1>1. /\ c \in Buffered /\ c \in Chans /\ Contents(queue[c]) # <<>>
        /\ Contents(queue'[c]) = Tail(Contents(queue[c]))
        /\ \A d \in Chans \ {c} : queue'[d] = queue[d]
        /\ received' = [received EXCEPT ![c] = Append(@, Head(Contents(queue[c])))]
    BY TakeFacts
  <1>2. Buffered \subseteq Chans /\ received \in [Chans -> Seq(Values)]
    BY DEF Buffered, ChanInv, Shape
  <1>3. /\ received'[c] = Append(received[c], Head(Contents(queue[c])))
        /\ \A d \in Chans \ {c} : received'[d] = received[d]
    BY <1>1, <1>2
  <1>4. /\ Waiting' = [d \in Buffered |-> Contents(queue'[d])]
        /\ Got' = [d \in Buffered |-> received'[d]]
    BY AbstractAfter
  <1>5. \A d \in Buffered \ {c} : /\ Contents(queue'[d]) = Contents(queue[d])
                                  /\ received'[d] = received[d]
    BY <1>1, <1>2, <1>3
  <1>6. Waiting' = [Waiting EXCEPT ![c] = Tail(@)]
    BY <1>1, <1>4, <1>5 DEF Waiting
  <1>7. Got' = [Got EXCEPT ![c] = Append(@, Head(Waiting[c]))]
    <2>1. Waiting[c] = Contents(queue[c]) /\ Got[c] = received[c]
      BY <1>1 DEF Waiting, Got
    <2>2. Got' = [d \in Buffered |-> IF d = c THEN received'[c] ELSE received[d]]
      BY <1>4, <1>5
    <2>3. Got' = [Got EXCEPT ![c] = received'[c]]
      BY <2>2 DEF Got
    <2> QED
      BY <1>3, <2>1, <2>3
  <1>8. Waiting[c] # <<>>
    BY <1>1 DEF Waiting
  <1> QED
    BY <1>1, <1>6, <1>7, <1>8 DEF Fifo!Get, Waiting, Got

\* Everything else leaves the buffers and what they delivered alone: unbuffered
\* channels, waits, wake-ups, closes and selects.
LEMMA OthersStutter ==
    ASSUME ChanInv, NEW t \in Threads, StepOf(t), ~BufferedSendAdds(t),
           ~BufferedRecvTakes(t)
    PROVE  Waiting' = Waiting /\ Got' = Got
  <1>1. queue' = queue
    BY QueueFrame
  <1>2. \A c \in Buffered : received'[c] = received[c]
    <2>1. CASE received' = received
      BY <2>1
    <2>2. CASE UnbufferedRecvTakes(t)
      <3>1. PICK c : c = pc[t].chan
        OBVIOUS
      <3>2. /\ c \in Chans \ Buffered
            /\ received' = [received EXCEPT ![c] = Append(@, data[c])]
        BY <2>2, <3>1, HandOffFacts
      <3>3. Buffered \subseteq Chans /\ received \in [Chans -> Seq(Values)]
        BY DEF Buffered, ChanInv, Shape
      <3> QED
        BY <3>2, <3>3
    <2> QED
      BY <2>1, <2>2, BufferFrame
  <1> QED
    BY <1>1, <1>2, AbstractAfter DEF Waiting, Got

(* Every buffered channel is a bounded first-in first-out queue, for any threads,
   capacities and wake-ups: each step of src/chan.c is a Put, a Get or a stutter. *)
THEOREM RefinesFifo == Spec => ImplementsFifo
  <1>1. Init => Fifo!Init
    <2> SUFFICES ASSUME Init PROVE Fifo!Init
      OBVIOUS
    <2>1. \A c \in Buffered : Contents(queue[c]) = <<>> /\ received[c] = <<>>
      <3> TAKE c \in Buffered
      <3>1. c \in Chans /\ Capacity[c] \in Nat \ {0}
        BY ChanAssumption DEF Buffered, chan_is_buffered
      <3>2. queue[c] = queue_init(Capacity[c]) /\ received[c] = <<>>
        BY <3>1 DEF Init
      <3>3. Contents(queue_init(Capacity[c])) = <<>>
        BY <3>1, InitIsEmpty
      <3> QED
        BY <3>2, <3>3
    <2> QED
      BY <2>1 DEF Fifo!Init
  <1>2. ChanInv /\ [Next]_vars => [Fifo!Next]_<<Waiting, Got>>
    <2> SUFFICES ASSUME ChanInv, [Next]_vars
                 PROVE  Fifo!Next \/ (Waiting' = Waiting /\ Got' = Got)
      OBVIOUS
    <2>1. CASE UNCHANGED vars
      BY <2>1, AbstractAfter DEF vars, buffer, Waiting, Got
    <2>2. CASE Next
      <3>1. PICK t \in Threads : StepOf(t)
        BY <2>2, NextCases
      <3>2. PICK c, v : c = pc[t].chan /\ v = pc[t].val
        OBVIOUS
      <3>3. CASE BufferedSendAdds(t)
        BY <3>2, <3>3, AddIsPut DEF Fifo!Next
      <3>4. CASE BufferedRecvTakes(t)
        BY <3>2, <3>4, TakeIsGet DEF Fifo!Next
      <3> QED
        BY <3>1, <3>3, <3>4, OthersStutter
    <2> QED
      BY <2>1, <2>2
  <1>3. ChanInv /\ [Next]_vars
            => [Fifo!Next]_<<[c \in Buffered |-> Contents(queue[c])],
                             [c \in Buffered |-> received[c]]>>
    BY <1>2 DEF Waiting, Got
  <1> QED
    BY <1>1, <1>3, ChanInvariance, PTL DEF Spec, ImplementsFifo, Fifo!Spec
=============================================================================
