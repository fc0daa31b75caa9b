--------------------------- MODULE TransmitProofs ---------------------------
(***************************************************************************)
(* Proofs about Transmit: IndInv is an inductive invariant for every packet*)
(* size, window size, buffer size and retransmission limit, and the        *)
(* properties of data transfer follow from it.                             *)
(***************************************************************************)
EXTENDS Transmit, SequenceTheorems, TLAPS

-----------------------------------------------------------------------------
(* Sequences.                                                              *)

\* The empty buffer is a sequence of bytes of length 0.
LEMMA EmptyBuffer == <<>> \in Seq(Nat) /\ Len(<<>>) = 0
  OBVIOUS

\* What joining two buffers gives.
LEMMA JoinFacts ==
    ASSUME NEW s \in Seq(Nat), NEW t \in Seq(Nat)
    PROVE  /\ s \o t \in Seq(Nat)
           /\ Len(s \o t) = Len(s) + Len(t)
           /\ \A i \in 1..Len(s) : (s \o t)[i] = s[i]
           /\ \A i \in 1..Len(t) : (s \o t)[Len(s) + i] = t[i]
  <1>1. Len(s) \in Nat /\ Len(t) \in Nat
    BY LenProperties
  <1>2. /\ s \o t \in Seq(Nat)
        /\ Len(s \o t) = Len(s) + Len(t)
        /\ \A i \in 1..(Len(s) + Len(t)) :
               (s \o t)[i] = IF i <= Len(s) THEN s[i] ELSE t[i - Len(s)]
    BY ConcatProperties
  <1>3. \A i \in 1..Len(s) : (s \o t)[i] = s[i]
    BY <1>1, <1>2
  <1>4. ASSUME NEW i \in 1..Len(t)
        PROVE  (s \o t)[Len(s) + i] = t[i]
    <2>1. /\ Len(s) + i \in 1..(Len(s) + Len(t))
          /\ ~(Len(s) + i <= Len(s))
          /\ (Len(s) + i) - Len(s) = i
      BY <1>1
    <2> QED
      BY <1>2, <2>1
  <1> QED
    BY <1>2, <1>3, <1>4

\* Three buffers may be joined from either end.
LEMMA JoinAssociative ==
    ASSUME NEW c \in Seq(Nat), NEW x \in Seq(Nat), NEW y \in Seq(Nat)
    PROVE  (c \o x) \o y = c \o (x \o y)
  <1>1. c \o x \in Seq(Nat) /\ x \o y \in Seq(Nat)
    BY ConcatProperties
  <1>2. (c \o x) \o y \in Seq(Nat) /\ c \o (x \o y) \in Seq(Nat)
    BY <1>1, ConcatProperties
  <1>3. Len((c \o x) \o y) = Len(c \o (x \o y))
    BY <1>1, ConcatProperties, LenProperties
  <1>4. ASSUME NEW i \in 1..Len((c \o x) \o y)
        PROVE  ((c \o x) \o y)[i] = (c \o (x \o y))[i]
    BY <1>1, ConcatProperties, LenProperties
  <1> QED
    BY <1>2, <1>3, <1>4, SeqEqual

\* tcp_recv moves bytes from the front of received_buf to the application:
\* cutting a sequence and joining the parts gives the sequence back.
LEMMA CutAndJoin ==
    ASSUME NEW c \in Seq(Nat), NEW b \in Seq(Nat), NEW n \in 0..Len(b)
    PROVE  /\ SubSeq(b, 1, n) \in Seq(Nat)
           /\ SubSeq(b, n + 1, Len(b)) \in Seq(Nat)
           /\ c \o SubSeq(b, 1, n) \in Seq(Nat)
           /\ (c \o SubSeq(b, 1, n)) \o SubSeq(b, n + 1, Len(b)) = c \o b
  <1>0. Len(b) \in Nat /\ \A i \in 1..Len(b) : b[i] \in Nat
    BY LenProperties, ElementOfSeq
  <1>1. SubSeq(b, 1, n) \in Seq(Nat)
    <2>1. \A i \in 1..n : b[i] \in Nat
      BY <1>0
    <2> QED
      BY <2>1, <1>0, SubSeqProperties
  <1>2. SubSeq(b, n + 1, Len(b)) \in Seq(Nat)
    <2>1. \A i \in (n + 1)..Len(b) : b[i] \in Nat
      BY <1>0
    <2> QED
      BY <2>1, <1>0, SubSeqProperties
  <1>3. SubSeq(b, 1, n) \o SubSeq(b, n + 1, Len(b)) = b
    <2>1. 1 \in 1..(Len(b) + 1) /\ n \in (1 - 1)..Len(b) /\ Len(b) \in n..Len(b)
      BY <1>0
    <2> QED
      BY <2>1, ConcatAdjacentSubSeq, SubSeqFull
  <1>4. c \o SubSeq(b, 1, n) \in Seq(Nat)
    BY <1>1, ConcatProperties
  <1>5. (c \o SubSeq(b, 1, n)) \o SubSeq(b, n + 1, Len(b)) = c \o b
    <2> DEFINE x == SubSeq(b, 1, n)
               y == SubSeq(b, n + 1, Len(b))
    <2>1. x \in Seq(Nat) /\ y \in Seq(Nat) /\ x \o y = b
      BY <1>1, <1>2, <1>3
    <2> HIDE DEF x, y
    <2>2. (c \o x) \o y = c \o b
      BY <2>1, JoinAssociative
    <2> QED
      BY <2>2 DEF x, y
  <1> QED
    BY <1>1, <1>2, <1>4, <1>5

\* Joining two sorted sequences, the first below the second, is sorted.
LEMMA SortedJoin ==
    ASSUME NEW s \in Seq(Nat), NEW t \in Seq(Nat),
           Sorted(s), Sorted(t), Below(s, t)
    PROVE  Sorted(s \o t)
  <1> DEFINE u == s \o t
  <1>1. /\ Len(u) = Len(s) + Len(t)
        /\ \A i \in 1..(Len(s) + Len(t)) :
               u[i] = IF i <= Len(s) THEN s[i] ELSE t[i - Len(s)]
    BY ConcatProperties
  <1>2. Len(s) \in Nat /\ Len(t) \in Nat
    BY LenProperties
  <1> HIDE DEF u
  <1>3. ASSUME NEW i \in 1..Len(u), NEW j \in 1..Len(u), i < j
        PROVE  u[i] < u[j]
    <2>1. CASE j <= Len(s)
      <3>1. i \in 1..Len(s) /\ j \in 1..Len(s) /\ u[i] = s[i] /\ u[j] = s[j]
        BY <1>1, <1>2, <1>3, <2>1
      <3> QED
        BY <1>3, <3>1 DEF Sorted
    <2>2. CASE i <= Len(s) /\ j > Len(s)
      <3>1. /\ i \in 1..Len(s) /\ u[i] = s[i]
            /\ j - Len(s) \in 1..Len(t) /\ u[j] = t[j - Len(s)]
        BY <1>1, <1>2, <1>3, <2>2
      <3> QED
        BY <3>1 DEF Below
    <2>3. CASE i > Len(s)
      <3>1. /\ i - Len(s) \in 1..Len(t) /\ u[i] = t[i - Len(s)]
            /\ j - Len(s) \in 1..Len(t) /\ u[j] = t[j - Len(s)]
            /\ i - Len(s) < j - Len(s)
        BY <1>1, <1>2, <1>3, <2>3
      <3> QED
        BY <3>1 DEF Sorted
    <2> QED
      BY <2>1, <2>2, <2>3, <1>2
  <1>4. Sorted(u)
    BY <1>3 DEF Sorted
  <1> QED
    BY <1>4 DEF u

\* Both parts of a joined sequence are below what the whole is below.
LEMMA BelowJoin ==
    ASSUME NEW s \in Seq(Nat), NEW t \in Seq(Nat), NEW v \in Seq(Nat)
    PROVE  /\ Below(s, v) /\ Below(t, v) => Below(s \o t, v)
           /\ Below(v, s) /\ Below(v, t) => Below(v, s \o t)
  <1>1. /\ Len(s \o t) = Len(s) + Len(t)
        /\ \A i \in 1..(Len(s) + Len(t)) :
               (s \o t)[i] = IF i <= Len(s) THEN s[i] ELSE t[i - Len(s)]
    BY ConcatProperties
  <1>2. Len(s) \in Nat /\ Len(t) \in Nat
    BY LenProperties
  <1>3. \A i \in 1..Len(s \o t) :
            \/ i \in 1..Len(s) /\ (s \o t)[i] = s[i]
            \/ i - Len(s) \in 1..Len(t) /\ (s \o t)[i] = t[i - Len(s)]
    BY <1>1, <1>2
  <1> QED
    BY <1>3 DEF Below

\* A joined sequence is bounded when its parts are.
LEMMA UpToJoin ==
    ASSUME NEW s \in Seq(Nat), NEW t \in Seq(Nat), NEW n \in Nat,
           UpTo(s, n), UpTo(t, n)
    PROVE  UpTo(s \o t, n)
  <1>1. /\ Len(s \o t) = Len(s) + Len(t)
        /\ \A i \in 1..(Len(s) + Len(t)) :
               (s \o t)[i] = IF i <= Len(s) THEN s[i] ELSE t[i - Len(s)]
    BY ConcatProperties
  <1>2. Len(s) \in Nat /\ Len(t) \in Nat
    BY LenProperties
  <1>3. \A i \in 1..Len(s \o t) :
            \/ i \in 1..Len(s) /\ (s \o t)[i] = s[i]
            \/ i - Len(s) \in 1..Len(t) /\ (s \o t)[i] = t[i - Len(s)]
    BY <1>1, <1>2
  <1> QED
    BY <1>3 DEF UpTo

\* The empty sequence is in order with everything.
LEMMA EmptyOrder ==
    /\ Sorted(<<>>)
    /\ \A s, n : Below(<<>>, s) /\ Below(s, <<>>) /\ UpTo(<<>>, n)
  BY EmptyBuffer DEF Sorted, Below, UpTo

-----------------------------------------------------------------------------
(* Facts about single operators and steps.                                 *)

\* Each host has one peer, and is its peer's peer.
LEMMA PeerFacts ==
    ASSUME NEW e \in Host
    PROVE  Peer(e) \in Host /\ Peer(e) # e /\ Peer(Peer(e)) = e
  BY DEF Host, Peer

Flags == {"NO_FLAG", "RUNT", "ACK", "FIN_ACK"}

Packets == [src : Host, flags : Flags, seq : Nat, data : Seq(Nat)]

\* sendToLayer3 sends the packet it is given or none.
LEMMA SentPackets ==
    ASSUME NEW e \in Host, NEW flags \in Flags, NEW seq \in Nat, NEW data \in Seq(Nat),
           NEW plen, NEW pkt \in sendToLayer3(Packet(e, flags, seq, data), plen)
    PROVE  /\ pkt \in Packets
           /\ pkt.src = e /\ pkt.flags = flags /\ pkt.seq = seq /\ pkt.data = data
  <1>1. pkt = Packet(e, flags, seq, data)
    BY DEF sendToLayer3
  <1> QED
    BY <1>1 DEF Packet, Packets

\* A packet without data.
LEMMA BarePackets ==
    ASSUME NEW e \in Host, NEW flags \in Flags, NEW seq \in Nat,
           NEW plen, NEW pkt \in sendToLayer3(Packet(e, flags, seq, <<>>), plen)
    PROVE  /\ pkt \in Packets
           /\ pkt.src = e /\ pkt.flags = flags /\ pkt.seq = seq /\ pkt.data = <<>>
  <1>1. pkt = Packet(e, flags, seq, <<>>)
    BY DEF sendToLayer3
  <1> QED
    BY <1>1, EmptyBuffer DEF Packet, Packets

\* plen never says more than the header and the data, even when it wraps.
LEMMA PlenFacts ==
    ASSUME NEW len \in Nat
    PROVE  PlenOf(len) \in Nat /\ PlenOf(len) <= HeaderLen + len
  <1> DEFINE a == HeaderLen + len
  <1>1. a \in Nat /\ PlenRange \in Nat \ {0}
    BY SizeAssumption
  <1> HIDE DEF a
  <1>2. (a % PlenRange) \in Nat
    BY <1>1
  <1>3. (a % PlenRange) <= a
    BY <1>1
  <1> QED
    BY <1>2, <1>3 DEF PlenOf, a

\* A data packet carries the beginning of the data, or is a runt without data.
LEMMA DataPackets ==
    ASSUME NEW e \in Host, NEW seq \in Nat, NEW data \in Seq(Nat),
           NEW pkt \in tcp_send_data(e, seq, data)
    PROVE  /\ pkt \in Packets
           /\ pkt.src = e /\ pkt.seq = seq /\ pkt.flags \in {"NO_FLAG", "RUNT"}
           /\ pkt.data \in Seq(Nat) /\ Len(pkt.data) <= Len(data)
           /\ \A i \in 1..Len(pkt.data) : pkt.data[i] = data[i]
  <1> DEFINE plen == PlenOf(Len(data))
  <1>1. /\ Len(data) \in Nat /\ HeaderLen \in Nat
        /\ plen \in Nat /\ plen <= HeaderLen + Len(data)
    BY LenProperties, PlenFacts, SizeAssumption
  <1>2. pkt \in sendToLayer3(DataPacket(e, seq, data), plen)
    BY DEF tcp_send_data
  <1>3. CASE plen < HeaderLen
    <2>1. pkt \in sendToLayer3(Packet(e, "RUNT", seq, <<>>), plen)
      BY <1>2, <1>3 DEF DataPacket
    <2>2. /\ pkt \in Packets /\ pkt.src = e /\ pkt.flags = "RUNT" /\ pkt.seq = seq
          /\ pkt.data = <<>>
      BY <2>1, BarePackets DEF Flags
    <2> QED
      BY <1>1, <2>2, EmptyBuffer
  <1>4. CASE ~(plen < HeaderLen)
    <2> DEFINE n == plen - HeaderLen
               d == SubSeq(data, 1, n)
    <2>1. n \in Nat /\ n <= Len(data)
      BY <1>1, <1>4
    <2>2. pkt \in sendToLayer3(Packet(e, "NO_FLAG", seq, d), plen)
      BY <1>2, <1>4 DEF DataPacket
    <2> HIDE DEF n
    <2>3. d \in Seq(Nat) /\ Len(d) = n /\ \A i \in 1..n : d[i] = data[i]
      BY <1>1, <2>1
    <2> HIDE DEF d
    <2>4. /\ pkt \in Packets /\ pkt.src = e /\ pkt.flags = "NO_FLAG" /\ pkt.seq = seq
          /\ pkt.data = d
      BY <2>2, <2>3, SentPackets DEF Flags
    <2> QED
      BY <2>1, <2>3, <2>4
  <1> QED
    BY <1>3, <1>4

\* tcp_send_ack sends nothing but an ACK with the expected number.
LEMMA AckPackets ==
    ASSUME NEW e \in Host, NEW seq \in Nat, NEW pkt \in tcp_send_ack(e, seq)
    PROVE  pkt \in Packets /\ pkt.src = e /\ pkt.flags = "ACK" /\ pkt.seq = seq
  <1>1. pkt \in sendToLayer3(Packet(e, "ACK", seq, <<>>), HeaderLen)
    BY DEF tcp_send_ack
  <1> QED
    BY <1>1, BarePackets DEF Flags

\* tcp_send_fin_ack, of the closing timer thread, sends nothing but a FIN.
LEMMA FinPackets ==
    ASSUME NEW e \in Host, expect_seq[e] \in Nat, NEW pkt \in tcp_send_fin_ack(e)
    PROVE  pkt \in Packets /\ pkt.flags = "FIN_ACK"
  <1>1. pkt \in sendToLayer3(Packet(e, "FIN_ACK", expect_seq[e], <<>>), HeaderLen)
    BY DEF tcp_send_fin_ack
  <1> QED
    BY <1>1, BarePackets DEF Flags

\* The bytes of one write are numbered on from those written before.
LEMMA WriteFacts ==
    ASSUME NEW w \in Nat, NEW len \in Nat
    PROVE  LET d == [i \in 1..len |-> w + i]
           IN  /\ d \in Seq(Nat) /\ Len(d) = len
               /\ \A i \in 1..len : d[i] = w + i
  <1> DEFINE d == [i \in 1..len |-> w + i]
  <1>1. \A i \in 1..len : w + i \in Nat
    OBVIOUS
  <1>2. d \in Seq(Nat) /\ Len(d) = len
    BY <1>1
  <1> QED
    BY <1>2

\* StreamSend appends to the window: the sending thread is the only writer of
\* nextseq, so it writes right behind the bytes of the previous round.
LEMMA SendAppends ==
    ASSUME TypeOK, WindowInv, NEW e \in Host, StreamSend(e)
    PROVE  /\ send_windows' = [send_windows EXCEPT ![e] = send_windows[e] \o sbuf[e]]
           /\ send_windows'[e] \in Seq(Nat)
           /\ Len(send_windows'[e]) = Len(send_windows[e]) + Len(sbuf[e])
           /\ \A i \in 1..Len(send_windows[e]) :
                  send_windows'[e][i] = send_windows[e][i]
           /\ \A i \in 1..Len(sbuf[e]) :
                  send_windows'[e][Len(send_windows[e]) + i] = sbuf[e][i]
  <1>1. send_windows[e] \in Seq(Nat) /\ sbuf[e] \in Seq(Nat)
    BY DEF TypeOK
  <1>2. nextseq[e] = Len(send_windows[e])
    BY DEF StreamSend, WindowInv, WindowAt
  <1>3. SubSeq(send_windows[e], 1, nextseq[e]) = send_windows[e]
    BY <1>1, <1>2, SubSeqFull
  <1>4. send_windows' = [send_windows EXCEPT ![e] = send_windows[e] \o sbuf[e]]
    BY <1>3 DEF StreamSend
  <1>5. send_windows'[e] = send_windows[e] \o sbuf[e]
    BY <1>4 DEF TypeOK
  <1>6. /\ send_windows'[e] \in Seq(Nat)
        /\ Len(send_windows'[e]) = Len(send_windows[e]) + Len(sbuf[e])
        /\ \A i \in 1..Len(send_windows[e]) :
               send_windows'[e][i] = send_windows[e][i]
        /\ \A i \in 1..Len(sbuf[e]) :
               send_windows'[e][Len(send_windows[e]) + i] = sbuf[e][i]
    <2> DEFINE s == send_windows[e]
               t == sbuf[e]
               u == send_windows'[e]
    <2>1. s \in Seq(Nat) /\ t \in Seq(Nat) /\ u = s \o t
      BY <1>1, <1>5
    <2> HIDE DEF s, t, u
    <2>2. /\ u \in Seq(Nat) /\ Len(u) = Len(s) + Len(t)
          /\ \A i \in 1..Len(s) : u[i] = s[i]
          /\ \A i \in 1..Len(t) : u[Len(s) + i] = t[i]
      BY <2>1, JoinFacts
    <2> QED
      BY <2>2 DEF s, t, u
  <1> QED
    BY <1>4, <1>6

\* tcp_recv moves some number of bytes, at most all.
LEMMA RecvMoves ==
    ASSUME TypeOK, NEW e \in Host, NEW len \in 1..MaxRead, tcp_recv(e, len)
    PROVE  \E n \in 0..Len(received_buf[e]) :
              /\ consumed' = [consumed EXCEPT ![e] = @ \o SubSeq(received_buf[e], 1, n)]
              /\ received_buf' = [received_buf EXCEPT
                     ![e] = SubSeq(received_buf[e], n + 1, Len(received_buf[e]))]
  <1> DEFINE n == IF Len(received_buf[e]) >= len THEN len ELSE Len(received_buf[e])
  <1>1. Len(received_buf[e]) \in Nat
    BY LenProperties DEF TypeOK
  <1>2. n \in 0..Len(received_buf[e])
    BY <1>1, SizeAssumption
  <1> WITNESS <1>2
  <1> QED
    BY DEF tcp_recv

\* What tcp_retransmit_timer sends.
RetransmitData(e) == SubSeq(send_windows[e], base[e] + 1, nextseq[e])

\* It is the part of the window from base up to nextseq.
LEMMA RetransmitFacts ==
    ASSUME TypeOK, WindowInv, NEW e \in Host, Retransmittable(e)
    PROVE  /\ RetransmitData(e) \in Seq(Nat)
           /\ base[e] + Len(RetransmitData(e)) <= Len(send_windows[e])
           /\ \A i \in 1..Len(RetransmitData(e)) :
                  RetransmitData(e)[i] = send_windows[e][base[e] + i]
  <1>1. /\ send_windows[e] \in Seq(Nat) /\ Len(send_windows[e]) \in Nat
        /\ base[e] \in Nat /\ nextseq[e] \in Nat
        /\ Len(sbuf[e]) \in Nat /\ spc[e] \in {"poll", "gbn", "start", "advance"}
    BY LenProperties DEF TypeOK
  <1>2. base[e] <= nextseq[e]
    BY <1>1 DEF Retransmittable, Outstanding
  <1>3. nextseq[e] <= Len(send_windows[e])
    <2>1. WindowAt(e)
      BY DEF WindowInv
    <2> QED
      BY <1>1, <2>1 DEF WindowAt
  <1>4. \A i \in (base[e] + 1)..nextseq[e] : send_windows[e][i] \in Nat
    BY <1>1, <1>3, ElementOfSeq
  <1> DEFINE s == send_windows[e]
             m == base[e] + 1
             n == nextseq[e]
  <1>5. /\ m \in Int /\ n \in Int /\ m - 1 <= n
        /\ \A i \in m..n : s[i] \in Nat
    BY <1>1, <1>2, <1>4
  <1> HIDE DEF s, m, n
  <1>6. /\ SubSeq(s, m, n) \in Seq(Nat)
        /\ Len(SubSeq(s, m, n)) = IF m <= n THEN n - m + 1 ELSE 0
        /\ \A i \in 1..(n - m + 1) : SubSeq(s, m, n)[i] = s[m + i - 1]
    BY <1>5, SubSeqProperties
  <1>7. Len(SubSeq(s, m, n)) = n - m + 1
    BY <1>5, <1>6
  <1>8. /\ RetransmitData(e) \in Seq(Nat)
        /\ Len(RetransmitData(e)) = nextseq[e] - base[e]
    BY <1>1, <1>6, <1>7 DEF RetransmitData, s, m, n
  <1>9. ASSUME NEW i \in 1..Len(RetransmitData(e))
        PROVE  RetransmitData(e)[i] = send_windows[e][base[e] + i]
    <2>1. m + i - 1 = base[e] + i /\ i \in 1..(n - m + 1)
      BY <1>1, <1>8 DEF m, n
    <2>2. SubSeq(s, m, n)[i] = s[base[e] + i]
      BY <1>6, <2>1
    <2> QED
      BY <2>2 DEF RetransmitData, s, m, n
  <1> QED
    BY <1>1, <1>3, <1>8, <1>9

-----------------------------------------------------------------------------
(* The sending side.                                                       *)

\* A sum of lengths is not below its parts.
LEMMA SumAbove ==
    ASSUME NEW a \in Nat, NEW b \in Nat
    PROVE  a <= a + b
  OBVIOUS

sendVars == <<send_windows, nextseq, spc, sbuf, sending_buf, wrote>>

\* Only a successful tcp_send and the sending thread touch the sending side.
LEMMA SendFrame ==
    ASSUME [Next]_vars
    PROVE  \/ UNCHANGED sendVars
           \/ \E e \in Host : \/ \E len \in 1..MaxWrite : tcp_send(e, len)
                              \/ SendThread(e)
  <1> USE DEF sendVars, sendSide, window, sender, timing, recvSide, host
  <1>1. CASE UNCHANGED vars
    BY <1>1 DEF vars
  <1>2. ASSUME NEW e \in Host, ReceiveThread(e)
        PROVE  UNCHANGED sendVars
    BY <1>2 DEF ReceiveThread, AckTimer, SendAck, Store, HandleAck, HandleData,
                HandleOldData, HandleFutureData, ReceiveRunt, vars
  <1>3. ASSUME NEW e \in Host, TimerThread(e)
        PROVE  UNCHANGED sendVars
    BY <1>3 DEF TimerThread, TimeoutHandshake, TimeoutRetransmit, TimeoutExit,
                TimeoutClose, CloseDrops, CloseFin
  <1>4. ASSUME NEW e \in Host, UseAfterFree(e)
        PROVE  UNCHANGED sendVars
    BY <1>4 DEF UseAfterFree
  <1>5. ASSUME NEW e \in Host, NEW len \in 1..MaxWrite, tcp_send_full(e, len)
        PROVE  UNCHANGED sendVars
    BY <1>5 DEF tcp_send_full
  <1>6. ASSUME NEW e \in Host, NEW len \in 1..MaxRead, tcp_recv(e, len)
        PROVE  UNCHANGED sendVars
    BY <1>6 DEF tcp_recv
  <1> QED
    BY <1>1, <1>2, <1>3, <1>4, <1>5, <1>6 DEF Next, Application

\* They touch the sending side of one host only.
LEMMA SendLocal ==
    ASSUME TypeOK, NEW e \in Host, NEW f \in Host, f # e,
           SendThread(e) \/ \E len \in 1..MaxWrite : tcp_send(e, len)
    PROVE  /\ send_windows'[f] = send_windows[f] /\ nextseq'[f] = nextseq[f]
           /\ spc'[f] = spc[f] /\ sbuf'[f] = sbuf[f]
           /\ sending_buf'[f] = sending_buf[f] /\ wrote'[f] = wrote[f]
  <1> USE DEF TypeOK, sendSide, window, sender
  <1>1. CASE \E len \in 1..MaxWrite : tcp_send(e, len)
    BY <1>1 DEF tcp_send
  <1>2. CASE StreamTake(e)
    BY <1>2 DEF StreamTake
  <1>3. CASE StreamSend(e)
    BY <1>3 DEF StreamSend
  <1>4. CASE StreamDrop(e)
    BY <1>4 DEF StreamDrop
  <1>5. CASE StreamStart(e)
    BY <1>5 DEF StreamStart
  <1>6. CASE StreamAdvance(e)
    BY <1>6 DEF StreamAdvance
  <1>7. CASE StreamOverrun(e)
    BY <1>7 DEF StreamOverrun
  <1> QED
    BY <1>1, <1>2, <1>3, <1>4, <1>5, <1>6, <1>7 DEF SendThread

\* The lengths and numbers of one sending side are naturals.
LEMMA SendTypes ==
    ASSUME TypeOK, NEW e \in Host
    PROVE  /\ send_windows[e] \in Seq(Nat) /\ Len(send_windows[e]) \in Nat
           /\ sbuf[e] \in Seq(Nat) /\ Len(sbuf[e]) \in Nat
           /\ sending_buf[e] \in Seq(Nat) /\ Len(sending_buf[e]) \in Nat
           /\ nextseq[e] \in Nat /\ wrote[e] \in Nat
           /\ base[e] \in Nat /\ expect_seq[e] \in Nat
  BY LenProperties DEF TypeOK

\* The sending side stays consistent whatever the threads interleave.
LEMMA WindowStep ==
    ASSUME TypeOK, WindowInv, [Next]_vars
    PROVE  WindowInv'
  <1>1. CASE UNCHANGED sendVars
    BY <1>1 DEF WindowInv, WindowAt, sendVars
  <1>2. ASSUME NEW e \in Host, NEW len \in 1..MaxWrite, tcp_send(e, len)
        PROVE  WindowAt(e)'
    BY <1>2 DEF tcp_send, WindowInv, WindowAt, window, sender
  <1>3. ASSUME NEW e \in Host, StreamTake(e)
        PROVE  WindowAt(e)'
    BY <1>3 DEF StreamTake, WindowInv, WindowAt, TypeOK, window
  <1>4. ASSUME NEW e \in Host, StreamSend(e)
        PROVE  WindowAt(e)'
    <2>1. /\ spc[e] = "gbn" /\ spc'[e] \in {"start", "advance"}
          /\ UNCHANGED <<nextseq, sbuf>>
      BY <1>4 DEF StreamSend, TypeOK
    <2>2. Len(send_windows'[e]) = Len(send_windows[e]) + Len(sbuf[e])
      BY <1>4, SendAppends
    <2>3. Len(send_windows[e]) = nextseq[e]
      BY <2>1 DEF WindowInv, WindowAt
    <2> QED
      BY <2>1, <2>2, <2>3 DEF WindowAt
  <1>5. ASSUME NEW e \in Host, StreamDrop(e)
        PROVE  WindowAt(e)'
    BY <1>5 DEF StreamDrop, WindowInv, WindowAt, TypeOK, window
  <1>6. ASSUME NEW e \in Host, StreamStart(e)
        PROVE  WindowAt(e)'
    BY <1>6 DEF StreamStart, WindowInv, WindowAt, TypeOK, window
  <1>7. ASSUME NEW e \in Host, StreamAdvance(e)
        PROVE  WindowAt(e)'
    BY <1>7, SendTypes DEF StreamAdvance, WindowInv, WindowAt, TypeOK
  <1>8. ASSUME NEW e \in Host, StreamOverrun(e)
        PROVE  WindowAt(e)'
    BY <1>8 DEF StreamOverrun, WindowInv, WindowAt, window, sender
  <1>9. ASSUME NEW e \in Host,
               SendThread(e) \/ \E len \in 1..MaxWrite : tcp_send(e, len)
        PROVE  WindowInv'
    <2>1. WindowAt(e)'
      BY <1>2, <1>3, <1>4, <1>5, <1>6, <1>7, <1>8, <1>9 DEF SendThread
    <2>2. ASSUME NEW f \in Host, f # e
          PROVE  WindowAt(f)'
      BY <1>9, <2>2, SendLocal DEF WindowInv, WindowAt
    <2> QED
      BY <2>1, <2>2 DEF WindowInv
  <1> QED
    BY <1>1, <1>9, SendFrame

-----------------------------------------------------------------------------
(* Types.                                                                  *)

\* The part of TypeOK that is not about net.
Shapes ==
    /\ alive \in [Host -> BOOLEAN]
    /\ state \in [Host -> {"ESTABLISHED", "FIN_WAIT_1"}]
    /\ send_locked \in [Host -> BOOLEAN]
    /\ sending_buf \in [Host -> Seq(Nat)]
    /\ left \in [Host -> Nat]
    /\ wrote \in [Host -> Nat]
    /\ base \in [Host -> Nat]
    /\ nextseq \in [Host -> Nat]
    /\ send_windows \in [Host -> Seq(Nat)]
    /\ timer \in [Host -> {"off", "armed", "drop", "closing"}]
    /\ finished_handshake \in [Host -> BOOLEAN]
    /\ timeout_counts \in [Host -> 0..255]
    /\ expect_seq \in [Host -> Nat]
    /\ allocated \in [Host -> BOOLEAN]
    /\ received_buf \in [Host -> Seq(Nat)]
    /\ consumed \in [Host -> Seq(Nat)]
    /\ spc \in [Host -> {"poll", "gbn", "start", "advance"}]
    /\ sbuf \in [Host -> Seq(Nat)]
    /\ rpc \in [Host -> {"idle", "stop", "start", "ack", "store", "stuck"}]
    /\ rdata \in [Host -> Seq(Nat)]

\* TypeOK in the two parts in which its preservation is proved.
LEMMA ShapesFromType == TypeOK <=> Shapes /\ net \subseteq Packets
  BY DEF TypeOK, Shapes, Packets, Flags

\* The sending side.
LEMMA ShapesSend ==
    ASSUME TypeOK, WindowInv, NEW e \in Host,
           SendThread(e) \/ \E len \in 1..MaxWrite : tcp_send(e, len)
    PROVE  Shapes' /\ net' \subseteq Packets
  <1> USE DEF sendSide, window, timing, recvSide, sender, receiver, host
  <1>0. Shapes /\ net \subseteq Packets
    BY ShapesFromType
  <1>1. ASSUME NEW len \in 1..MaxWrite, tcp_send(e, len)
        PROVE  Shapes' /\ net' \subseteq Packets
    <2>1. sending_buf[e] \o [i \in 1..len |-> wrote[e] + i] \in Seq(Nat)
      <3> DEFINE d == [i \in 1..len |-> wrote[e] + i]
      <3>1. d \in Seq(Nat)
        BY SendTypes, SizeAssumption, WriteFacts
      <3> HIDE DEF d
      <3>2. sending_buf[e] \o d \in Seq(Nat)
        BY <3>1, SendTypes, JoinFacts
      <3> QED
        BY <3>2 DEF d
    <2>2. wrote[e] + len \in Nat
      BY SendTypes, SizeAssumption
    <2>3. left[e] - len \in Nat
      <3>1. left[e] \in Nat /\ len <= left[e] /\ len \in Nat
        BY <1>0, <1>1, SizeAssumption DEF tcp_send, Shapes
      <3> QED
        BY <3>1
    <2> QED
      BY <1>0, <1>1, <2>1, <2>2, <2>3 DEF tcp_send, Shapes
  <1>2. CASE StreamTake(e)
    BY <1>0, <1>2, EmptyBuffer DEF StreamTake, Shapes
  <1>3. CASE StreamSend(e)
    <2>1. send_windows' \in [Host -> Seq(Nat)]
      BY <1>3, SendAppends, <1>0 DEF Shapes
    <2>2. net' \subseteq Packets
      <3>1. tcp_send_data(e, nextseq[e], sbuf[e]) \subseteq Packets
        BY SendTypes, DataPackets
      <3> QED
        BY <1>0, <1>3, <3>1 DEF StreamSend
    <2> QED
      BY <1>0, <1>3, <2>1, <2>2 DEF StreamSend, Shapes
  <1>4. CASE StreamDrop(e)
    BY <1>0, <1>4, EmptyBuffer DEF StreamDrop, Shapes
  <1>5. CASE StreamStart(e)
    BY <1>0, <1>5 DEF StreamStart, tcp_start_timer, Shapes
  <1>6. CASE StreamAdvance(e)
    <2>1. nextseq[e] + Len(sbuf[e]) \in Nat
      BY SendTypes
    <2> QED
      BY <1>0, <1>6, <2>1, EmptyBuffer DEF StreamAdvance, Shapes
  <1>7. CASE StreamOverrun(e)
    BY <1>0, <1>7 DEF StreamOverrun, Shapes
  <1> QED
    BY <1>1, <1>2, <1>3, <1>4, <1>5, <1>6, <1>7 DEF SendThread

\* The receive thread.
LEMMA ShapesReceive ==
    ASSUME TypeOK, NEW e \in Host, ReceiveThread(e)
    PROVE  Shapes' /\ net' \subseteq Packets
  <1> USE DEF sendSide, window, timing, recvSide, sender, receiver, host
  <1>0. Shapes /\ net \subseteq Packets
    BY ShapesFromType
  <1>1. CASE AckTimer(e)
    BY <1>0, <1>1 DEF AckTimer, tcp_start_timer, tcp_stop_timer, Shapes
  <1>2. ASSUME NEW pkt \in net, HandleAck(e, pkt)
        PROVE  Shapes' /\ net' \subseteq Packets
    <2>1. pkt.seq \in Nat
      BY <1>0 DEF Packets
    <2> QED
      BY <1>0, <1>2, <2>1 DEF HandleAck, Shapes
  <1>3. ASSUME NEW pkt \in net, HandleData(e, pkt)
        PROVE  Shapes' /\ net' \subseteq Packets
    <2>1. pkt.data \in Seq(Nat) /\ expect_seq[e] \in Nat
      BY <1>0 DEF Packets, Shapes
    <2>2. expect_seq[e] + Len(pkt.data) \in Nat
      BY <2>1, LenProperties
    <2> QED
      BY <1>0, <1>3, <2>1, <2>2 DEF HandleData, Shapes
  <1>4. ASSUME NEW pkt \in net, HandleOldData(e, pkt)
        PROVE  Shapes' /\ net' \subseteq Packets
    <2>1. tcp_send_ack(e, expect_seq[e]) \subseteq Packets
      BY SendTypes, AckPackets
    <2> QED
      BY <1>0, <1>4, <2>1 DEF HandleOldData, Shapes
  <1>5. ASSUME NEW pkt \in net, HandleFutureData(e, pkt)
        PROVE  Shapes' /\ net' \subseteq Packets
    BY <1>0, <1>5 DEF HandleFutureData, Shapes, vars
  <1>6. ASSUME NEW pkt \in net, ReceiveRunt(e, pkt)
        PROVE  Shapes' /\ net' \subseteq Packets
    BY <1>0, <1>6 DEF ReceiveRunt, Shapes
  <1>7. CASE SendAck(e)
    <2>1. tcp_send_ack(e, expect_seq[e]) \subseteq Packets
      BY SendTypes, AckPackets
    <2> QED
      BY <1>0, <1>7, <2>1 DEF SendAck, Shapes
  <1>8. CASE Store(e)
    <2>1. received_buf[e] \o rdata[e] \in Seq(Nat)
      BY <1>0, JoinFacts DEF Shapes
    <2> QED
      BY <1>0, <1>8, <2>1, EmptyBuffer DEF Store, Shapes
  <1> QED
    BY <1>1, <1>2, <1>3, <1>4, <1>5, <1>6, <1>7, <1>8 DEF ReceiveThread

\* A timeout that is counted is within the limit, so the uint8_t does not wrap.
LEMMA CountFits ==
    ASSUME TypeOK, NEW e \in Host, timeout_counts[e] <= RetransmitLimit
    PROVE  timeout_counts[e] + 1 \in 0..255
  <1>1. timeout_counts[e] \in 0..255 /\ RetransmitLimit \in 0..254
    BY SizeAssumption DEF TypeOK
  <1> QED
    BY <1>1

\* The timer thread.
LEMMA ShapesTimer ==
    ASSUME TypeOK, WindowInv, NEW e \in Host, TimerThread(e)
    PROVE  Shapes' /\ net' \subseteq Packets
  <1> USE DEF sendSide, window, timing, recvSide, sender, receiver, host
  <1>0. Shapes /\ net \subseteq Packets
    BY ShapesFromType
  <1>1. CASE TimeoutHandshake(e)
    <2>1. tcp_send_ack(e, expect_seq[e]) \subseteq Packets
      BY SendTypes, AckPackets
    <2> QED
      BY <1>0, <1>1, <2>1 DEF TimeoutHandshake, Shapes
  <1>2. CASE TimeoutRetransmit(e)
    <2>1. timeout_counts[e] + 1 \in 0..255
      BY <1>2, CountFits DEF TimeoutRetransmit
    <2>2. RetransmitData(e) \in Seq(Nat)
      BY <1>2, RetransmitFacts DEF TimeoutRetransmit
    <2>3. tcp_send_data(e, base[e], RetransmitData(e)) \subseteq Packets
      BY <2>2, SendTypes, DataPackets
    <2> QED
      BY <1>0, <1>2, <2>1, <2>3 DEF TimeoutRetransmit, RetransmitData, Shapes
  <1>3. CASE TimeoutExit(e)
    <2>1. timeout_counts[e] + 1 \in 0..255
      BY <1>3, CountFits DEF TimeoutExit
    <2> QED
      BY <1>0, <1>3, <2>1 DEF TimeoutExit, Shapes
  <1>4. CASE TimeoutClose(e)
    BY <1>0, <1>4 DEF TimeoutClose, Shapes
  <1>5. CASE CloseDrops(e)
    BY <1>0, <1>5, EmptyBuffer DEF CloseDrops, Shapes
  <1>6. CASE CloseFin(e)
    <2>1. tcp_send_fin_ack(e) \subseteq Packets
      BY SendTypes, FinPackets
    <2> QED
      BY <1>0, <1>6, <2>1 DEF CloseFin, Shapes
  <1> QED
    BY <1>1, <1>2, <1>3, <1>4, <1>5, <1>6 DEF TimerThread

\* Every step keeps the types.
LEMMA TypeStep ==
    ASSUME TypeOK, WindowInv, [Next]_vars
    PROVE  TypeOK'
  <1> USE DEF sendSide, window, timing, recvSide, sender, receiver, host
  <1>0. Shapes /\ net \subseteq Packets
    BY ShapesFromType
  <1>1. CASE UNCHANGED vars
    BY <1>0, <1>1 DEF TypeOK, vars
  <1>2. ASSUME NEW e \in Host, NEW len \in 1..MaxWrite, tcp_send_full(e, len)
        PROVE  Shapes' /\ net' \subseteq Packets
    BY <1>0, <1>2 DEF Shapes, tcp_send_full
  <1>3. ASSUME NEW e \in Host, NEW len \in 1..MaxRead, tcp_recv(e, len)
        PROVE  Shapes' /\ net' \subseteq Packets
    <2>1. PICK n \in 0..Len(received_buf[e]) :
            /\ consumed' = [consumed EXCEPT ![e] = @ \o SubSeq(received_buf[e], 1, n)]
            /\ received_buf' = [received_buf EXCEPT
                   ![e] = SubSeq(received_buf[e], n + 1, Len(received_buf[e]))]
      BY <1>3, RecvMoves
    <2>2. /\ consumed[e] \o SubSeq(received_buf[e], 1, n) \in Seq(Nat)
          /\ SubSeq(received_buf[e], n + 1, Len(received_buf[e])) \in Seq(Nat)
      BY <1>0, CutAndJoin DEF Shapes
    <2>3. /\ UNCHANGED <<alive, state, send_locked, sending_buf, left, wrote, base,
                         nextseq, send_windows, timer, finished_handshake>>
          /\ UNCHANGED <<timeout_counts, expect_seq, allocated, spc, sbuf, rpc, rdata,
                         net>>
      BY <1>3 DEF tcp_recv
    <2>4. consumed' \in [Host -> Seq(Nat)] /\ received_buf' \in [Host -> Seq(Nat)]
      BY <1>0, <2>1, <2>2 DEF Shapes
    <2> QED
      BY <1>0, <2>3, <2>4 DEF Shapes
  <1>4. ASSUME NEW e \in Host, UseAfterFree(e)
        PROVE  Shapes' /\ net' \subseteq Packets
    BY <1>0, <1>4 DEF Shapes, UseAfterFree
  <1>5. ASSUME Shapes', net' \subseteq Packets
        PROVE  TypeOK'
    BY <1>5 DEF TypeOK, Shapes, Packets, Flags
  <1> QED
    BY <1>1, <1>2, <1>3, <1>4, <1>5, ShapesSend, ShapesReceive, ShapesTimer
    DEF Next, Application

-----------------------------------------------------------------------------
(* Packets and acknowledgements.                                           *)

\* The window only grows at its end.
LEMMA WindowGrows ==
    ASSUME TypeOK, WindowInv, [Next]_vars, NEW f \in Host
    PROVE  /\ Len(send_windows[f]) <= Len(send_windows'[f])
           /\ \A i \in 1..Len(send_windows[f]) :
                  send_windows'[f][i] = send_windows[f][i]
  <1>0. Len(send_windows[f]) \in Nat /\ Len(sbuf[f]) \in Nat
    BY SendTypes
  <1>1. CASE UNCHANGED send_windows
    BY <1>0, <1>1
  <1>2. CASE StreamSend(f)
    <2>1. /\ Len(send_windows'[f]) = Len(send_windows[f]) + Len(sbuf[f])
          /\ \A i \in 1..Len(send_windows[f]) :
                 send_windows'[f][i] = send_windows[f][i]
      BY <1>2, SendAppends
    <2>2. Len(send_windows[f]) <= Len(send_windows'[f])
      <3>1. Len(send_windows'[f]) = Len(send_windows[f]) + Len(sbuf[f])
        BY <2>1
      <3>2. Len(send_windows[f]) <= Len(send_windows[f]) + Len(sbuf[f])
        BY <1>0, SumAbove
      <3> QED
        BY <3>1, <3>2
    <2> QED
      BY <2>1, <2>2
  <1>3. ASSUME NEW e \in Host, e # f, StreamSend(e)
        PROVE  send_windows'[f] = send_windows[f]
    BY <1>3, SendLocal DEF SendThread
  <1>4. ASSUME ~(\E e \in Host : StreamSend(e))
        PROVE  UNCHANGED send_windows
    BY <1>4, SendFrame
    DEF sendVars, SendThread, tcp_send, StreamTake, StreamDrop, StreamStart,
        StreamAdvance, StreamOverrun, window
  <1> QED
    BY <1>0, <1>1, <1>2, <1>3, <1>4

\* A new packet is a FIN, a runt, an ACK of what its sender expects, or carries
\* bytes of the window.
LEMMA NewPackets ==
    ASSUME TypeOK, WindowInv, [Next]_vars, NEW pkt \in net', pkt \notin net
    PROVE  \/ pkt.flags \in {"FIN_ACK", "RUNT"}
           \/ pkt.flags = "ACK" /\ pkt.src \in Host /\ pkt.seq = expect_seq'[pkt.src]
           \/ pkt.flags = "NO_FLAG" /\ CarriesWindow(pkt)'
  <1> DEFINE Goal == \/ pkt.flags \in {"FIN_ACK", "RUNT"}
                     \/ pkt.flags = "ACK" /\ pkt.src \in Host
                          /\ pkt.seq = expect_seq'[pkt.src]
                     \/ pkt.flags = "NO_FLAG" /\ CarriesWindow(pkt)'
  <1> USE DEF window, recvSide
  <1>1. ASSUME NEW e \in Host, NEW seq \in Nat, NEW data \in Seq(Nat),
               pkt \in tcp_send_data(e, seq, data),
               seq + Len(data) <= Len(send_windows'[e]),
               \A i \in 1..Len(data) : data[i] = send_windows'[e][seq + i]
        PROVE  Goal
    <2>1. /\ pkt.src = e /\ pkt.seq = seq /\ pkt.flags \in {"NO_FLAG", "RUNT"}
          /\ pkt.data \in Seq(Nat) /\ Len(pkt.data) <= Len(data)
          /\ \A i \in 1..Len(pkt.data) : pkt.data[i] = data[i]
      BY <1>1, DataPackets
    <2>2. Len(pkt.data) \in Nat /\ Len(data) \in Nat /\ Len(send_windows'[e]) \in Nat
      <3>1. TypeOK'
        BY TypeStep
      <3>2. send_windows'[e] \in Seq(Nat)
        BY <3>1 DEF TypeOK
      <3> QED
        BY <2>1, <3>2, LenProperties
    <2>3. seq + Len(pkt.data) <= Len(send_windows'[e])
      BY <1>1, <2>1, <2>2
    <2>4. ASSUME NEW i \in 1..Len(pkt.data)
          PROVE  pkt.data[i] = send_windows'[e][seq + i]
      <3>1. i \in 1..Len(data)
        BY <2>1, <2>2
      <3> QED
        BY <1>1, <2>1, <3>1
    <2> QED
      BY <2>1, <2>3, <2>4 DEF CarriesWindow
  <1>2. ASSUME NEW e \in Host, StreamSend(e)
        PROVE  Goal
    <2>1. pkt \in tcp_send_data(e, nextseq[e], sbuf[e])
      BY <1>2 DEF StreamSend
    <2>2. nextseq[e] = Len(send_windows[e])
      BY <1>2 DEF WindowInv, WindowAt, StreamSend
    <2>3. /\ Len(send_windows'[e]) = Len(send_windows[e]) + Len(sbuf[e])
          /\ \A i \in 1..Len(sbuf[e]) :
                 send_windows'[e][Len(send_windows[e]) + i] = sbuf[e][i]
      BY <1>2, SendAppends
    <2>4. /\ Len(send_windows[e]) \in Nat /\ Len(sbuf[e]) \in Nat
          /\ nextseq[e] \in Nat /\ sbuf[e] \in Seq(Nat)
      BY SendTypes
    <2>5. nextseq[e] + Len(sbuf[e]) <= Len(send_windows'[e])
      BY <2>2, <2>3, <2>4
    <2>6. \A i \in 1..Len(sbuf[e]) : sbuf[e][i] = send_windows'[e][nextseq[e] + i]
      BY <2>2, <2>3
    <2> QED
      BY <1>1, <2>1, <2>4, <2>5, <2>6
  <1>3. ASSUME NEW e \in Host, pkt \in tcp_send_ack(e, expect_seq[e]),
               expect_seq' = expect_seq
        PROVE  Goal
    BY <1>3, SendTypes, AckPackets
  <1>4. ASSUME NEW e \in Host,
               \/ SendAck(e) \/ TimeoutHandshake(e)
               \/ \E p \in net : HandleOldData(e, p)
        PROVE  Goal
    <2>1. pkt \in tcp_send_ack(e, expect_seq[e]) /\ expect_seq' = expect_seq
      BY <1>4 DEF SendAck, HandleOldData, TimeoutHandshake
    <2> QED
      BY <1>3, <2>1
  <1>5. ASSUME NEW e \in Host, CloseFin(e)
        PROVE  Goal
    <2>1. pkt \in tcp_send_fin_ack(e)
      BY <1>5 DEF CloseFin
    <2>2. pkt.flags = "FIN_ACK"
      BY <2>1, SendTypes, FinPackets
    <2> QED
      BY <2>2
  <1>6. ASSUME NEW e \in Host, TimeoutRetransmit(e)
        PROVE  Goal
    <2>1. Retransmittable(e) /\ UNCHANGED send_windows
      BY <1>6 DEF TimeoutRetransmit
    <2>2. pkt \in tcp_send_data(e, base[e], RetransmitData(e))
      BY <1>6 DEF TimeoutRetransmit, RetransmitData
    <2>3. base[e] \in Nat
      BY SendTypes
    <2> QED
      BY <1>1, <2>1, <2>2, <2>3, RetransmitFacts
  <1>7. ASSUME ~ \E e \in Host :
                    \/ StreamSend(e) \/ SendAck(e) \/ TimeoutHandshake(e)
                    \/ CloseFin(e) \/ TimeoutRetransmit(e)
                    \/ \E p \in net : HandleOldData(e, p)
        PROVE  UNCHANGED net
    <2>1. ASSUME NEW e \in Host, Application(e)
          PROVE  UNCHANGED net
      BY <1>7, <2>1
      DEF Application, tcp_send, tcp_send_full, tcp_recv, window, recvSide
    <2>2. ASSUME NEW e \in Host, SendThread(e)
          PROVE  UNCHANGED net
      BY <1>7, <2>2
      DEF SendThread, StreamTake, StreamDrop, StreamStart, StreamAdvance,
          StreamOverrun, window, recvSide
    <2>3. ASSUME NEW e \in Host, ReceiveThread(e)
          PROVE  UNCHANGED net
      BY <1>7, <2>3
      DEF ReceiveThread, AckTimer, Store, HandleAck, HandleData,
          HandleFutureData, ReceiveRunt, vars, window, recvSide
    <2>4. ASSUME NEW e \in Host, TimerThread(e)
          PROVE  UNCHANGED net
      BY <1>7, <2>4
      DEF TimerThread, TimeoutExit, TimeoutClose, CloseDrops, window,
          recvSide
    <2>5. ASSUME NEW e \in Host, UseAfterFree(e)
          PROVE  UNCHANGED net
      BY <1>7, <2>5
      DEF UseAfterFree, window, recvSide
    <2>6. CASE UNCHANGED vars
      BY <2>6 DEF vars, window, recvSide
    <2> QED
      BY <2>1, <2>2, <2>3, <2>4, <2>5, <2>6 DEF Next
  <1> QED
    BY <1>2, <1>4, <1>5, <1>6, <1>7

\* Packets keep agreeing with the window.
LEMMA PacketsStep ==
    ASSUME TypeOK, WindowInv, PacketsAgree, [Next]_vars
    PROVE  PacketsAgree'
  <1> SUFFICES ASSUME NEW pkt \in net', pkt.flags = "NO_FLAG"
               PROVE  CarriesWindow(pkt)'
    BY DEF PacketsAgree
  <1>1. CASE pkt \notin net
    BY <1>1, NewPackets
  <1>2. CASE pkt \in net
    <2>1. /\ pkt.src \in Host /\ pkt.seq \in Nat /\ Len(pkt.data) \in Nat
          /\ Len(send_windows[pkt.src]) \in Nat
          /\ send_windows'[pkt.src] \in Seq(Nat)
      BY <1>2, TypeStep, LenProperties DEF TypeOK
    <2>2. CarriesWindow(pkt)
      BY <1>2 DEF PacketsAgree
    <2>3. /\ Len(send_windows[pkt.src]) <= Len(send_windows'[pkt.src])
          /\ \A i \in 1..Len(send_windows[pkt.src]) :
                 send_windows'[pkt.src][i] = send_windows[pkt.src][i]
      BY <2>1, WindowGrows
    <2>4. pkt.seq + Len(pkt.data) <= Len(send_windows'[pkt.src])
      <3>1. Len(send_windows'[pkt.src]) \in Nat
        BY <2>1, LenProperties
      <3> QED
        BY <2>1, <2>2, <2>3, <3>1 DEF CarriesWindow
    <2>5. ASSUME NEW i \in 1..Len(pkt.data)
          PROVE  pkt.data[i] = send_windows'[pkt.src][pkt.seq + i]
      <3>1. pkt.seq + i \in 1..Len(send_windows[pkt.src])
        BY <2>1, <2>2 DEF CarriesWindow
      <3> QED
        BY <2>2, <2>3, <3>1 DEF CarriesWindow
    <2> QED
      BY <2>4, <2>5 DEF CarriesWindow
  <1> QED
    BY <1>1, <1>2

\* expect_seq moves only when the expected packet is accepted, and then by the
\* length of its data.
LEMMA ExpectSteps ==
    ASSUME TypeOK, [Next]_vars, NEW f \in Host
    PROVE  \/ expect_seq'[f] = expect_seq[f]
           \/ \E pkt \in net : /\ HandleData(f, pkt)
                               /\ expect_seq'[f] = expect_seq[f] + Len(pkt.data)
  <1>1. ASSUME NEW e \in Host, NEW pkt \in net, HandleData(e, pkt)
        PROVE  /\ e # f => expect_seq'[f] = expect_seq[f]
               /\ expect_seq'[e] = expect_seq[e] + Len(pkt.data)
    BY <1>1 DEF HandleData, TypeOK
  <1>2. ASSUME ~ \E e \in Host : \E pkt \in net : HandleData(e, pkt)
        PROVE  UNCHANGED expect_seq
    <2>1. ASSUME NEW e \in Host, Application(e)
          PROVE  UNCHANGED expect_seq
      BY <1>2, <2>1
      DEF Application, tcp_send, tcp_send_full, tcp_recv, recvSide
    <2>2. ASSUME NEW e \in Host, SendThread(e)
          PROVE  UNCHANGED expect_seq
      BY <1>2, <2>2
      DEF SendThread, StreamTake, StreamSend, StreamDrop, StreamStart,
          StreamAdvance, StreamOverrun, recvSide
    <2>3. ASSUME NEW e \in Host, ReceiveThread(e)
          PROVE  UNCHANGED expect_seq
      BY <1>2, <2>3
      DEF ReceiveThread, AckTimer, SendAck, Store, HandleAck, HandleOldData,
          HandleFutureData, ReceiveRunt, vars, recvSide
    <2>4. ASSUME NEW e \in Host, TimerThread(e)
          PROVE  UNCHANGED expect_seq
      BY <1>2, <2>4
      DEF TimerThread, TimeoutHandshake, TimeoutRetransmit, TimeoutExit,
          TimeoutClose, CloseDrops, CloseFin, recvSide
    <2>5. ASSUME NEW e \in Host, UseAfterFree(e)
          PROVE  UNCHANGED expect_seq
      BY <1>2, <2>5
      DEF UseAfterFree, recvSide
    <2>6. CASE UNCHANGED vars
      BY <2>6 DEF vars, recvSide
    <2> QED
      BY <2>1, <2>2, <2>3, <2>4, <2>5, <2>6 DEF Next
  <1> QED
    BY <1>1, <1>2

\* No step lowers the number a receiver expects.
LEMMA ExpectGrows ==
    ASSUME TypeOK, [Next]_vars, NEW f \in Host
    PROVE  expect_seq[f] <= expect_seq'[f]
  <1>1. expect_seq[f] \in Nat
    BY SendTypes
  <1>2. ASSUME NEW pkt \in net, expect_seq'[f] = expect_seq[f] + Len(pkt.data)
        PROVE  expect_seq[f] <= expect_seq'[f]
    <2>1. Len(pkt.data) \in Nat
      BY LenProperties DEF TypeOK
    <2> QED
      BY <1>1, <1>2, <2>1, SumAbove
  <1>3. CASE expect_seq'[f] = expect_seq[f]
    BY <1>1, <1>3
  <1> QED
    BY <1>2, <1>3, ExpectSteps

\* base moves only to the number of an ACK that the peer sent.
LEMMA BaseSteps ==
    ASSUME TypeOK, [Next]_vars, NEW f \in Host
    PROVE  \/ base'[f] = base[f]
           \/ \E pkt \in net : /\ pkt.flags = "ACK" /\ pkt.src = Peer(f)
                               /\ base'[f] = pkt.seq
  <1>1. ASSUME NEW e \in Host, NEW pkt \in net, HandleAck(e, pkt)
        PROVE  /\ e # f => base'[f] = base[f]
               /\ pkt.flags = "ACK" /\ pkt.src = Peer(e) /\ base'[e] = pkt.seq
    BY <1>1 DEF HandleAck, onTCPPocket, TypeOK
  <1>2. ASSUME ~ \E e \in Host : \E pkt \in net : HandleAck(e, pkt)
        PROVE  UNCHANGED base
    <2>1. ASSUME NEW e \in Host, Application(e)
          PROVE  UNCHANGED base
      BY <1>2, <2>1
      DEF Application, tcp_send, tcp_send_full, tcp_recv, window
    <2>2. ASSUME NEW e \in Host, SendThread(e)
          PROVE  UNCHANGED base
      BY <1>2, <2>2
      DEF SendThread, StreamTake, StreamSend, StreamDrop, StreamStart,
          StreamAdvance, StreamOverrun, window
    <2>3. ASSUME NEW e \in Host, ReceiveThread(e)
          PROVE  UNCHANGED base
      BY <1>2, <2>3
      DEF ReceiveThread, AckTimer, SendAck, Store, HandleData,
          HandleOldData, HandleFutureData, ReceiveRunt, vars, window
    <2>4. ASSUME NEW e \in Host, TimerThread(e)
          PROVE  UNCHANGED base
      BY <1>2, <2>4
      DEF TimerThread, TimeoutHandshake, TimeoutRetransmit, TimeoutExit,
          TimeoutClose, CloseDrops, CloseFin, window
    <2>5. ASSUME NEW e \in Host, UseAfterFree(e)
          PROVE  UNCHANGED base
      BY <1>2, <2>5
      DEF UseAfterFree, window
    <2>6. CASE UNCHANGED vars
      BY <2>6 DEF vars, window
    <2> QED
      BY <2>1, <2>2, <2>3, <2>4, <2>5, <2>6 DEF Next
  <1> QED
    BY <1>1, <1>2

\* Numbers stay in order: base, ACKs, expect_seq, window.
LEMMA AckStep ==
    ASSUME TypeOK, WindowInv, PacketsAgree, AckInv, [Next]_vars
    PROVE  AckInv'
  <1>1. ASSUME NEW pkt \in net', pkt.flags = "ACK"
        PROVE  pkt.seq <= expect_seq'[pkt.src]
    <2>1. pkt.src \in Host /\ pkt.seq \in Nat /\ expect_seq'[pkt.src] \in Nat
      BY <1>1, TypeStep DEF TypeOK
    <2>2. CASE pkt \notin net
      <3>1. pkt.seq = expect_seq'[pkt.src]
        BY <1>1, <2>2, NewPackets
      <3> QED
        BY <2>1, <3>1
    <2>3. CASE pkt \in net
      <3>1. pkt.seq <= expect_seq[pkt.src] /\ expect_seq[pkt.src] \in Nat
        BY <1>1, <2>1, <2>3 DEF AckInv, TypeOK
      <3>2. expect_seq[pkt.src] <= expect_seq'[pkt.src]
        BY <2>1, ExpectGrows
      <3> QED
        BY <2>1, <3>1, <3>2
    <2> QED
      BY <2>2, <2>3
  <1>2. ASSUME NEW e \in Host
        PROVE  base'[e] <= expect_seq'[Peer(e)]
    <2>1. Peer(e) \in Host
      BY PeerFacts
    <2>2. /\ base'[e] \in Nat /\ expect_seq[Peer(e)] \in Nat
          /\ expect_seq'[Peer(e)] \in Nat
      BY <2>1, TypeStep DEF TypeOK
    <2>3. base'[e] <= expect_seq[Peer(e)]
      BY BaseSteps DEF AckInv
    <2>4. expect_seq[Peer(e)] <= expect_seq'[Peer(e)]
      BY <2>1, ExpectGrows
    <2> QED
      BY <2>2, <2>3, <2>4
  <1>3. ASSUME NEW e \in Host
        PROVE  expect_seq'[e] <= Len(send_windows'[Peer(e)])
    <2>1. Peer(e) \in Host
      BY PeerFacts
    <2>2. expect_seq'[e] <= Len(send_windows[Peer(e)])
      <3>1. CASE expect_seq'[e] = expect_seq[e]
        BY <3>1 DEF AckInv
      <3>2. ASSUME NEW pkt \in net, HandleData(e, pkt),
                   expect_seq'[e] = expect_seq[e] + Len(pkt.data)
            PROVE  expect_seq'[e] <= Len(send_windows[Peer(e)])
        <4>1. pkt.src = Peer(e) /\ pkt.flags = "NO_FLAG" /\ pkt.seq = expect_seq[e]
          BY <3>2 DEF HandleData, onTCPPocket
        <4>2. CarriesWindow(pkt)
          BY <4>1 DEF PacketsAgree
        <4> QED
          BY <3>2, <4>1, <4>2 DEF CarriesWindow
      <3> QED
        BY <3>1, <3>2, ExpectSteps
    <2>3. Len(send_windows[Peer(e)]) <= Len(send_windows'[Peer(e)])
      BY <2>1, WindowGrows
    <2>4. /\ expect_seq'[e] \in Nat /\ Len(send_windows[Peer(e)]) \in Nat
          /\ Len(send_windows'[Peer(e)]) \in Nat
      BY <2>1, TypeStep, LenProperties DEF TypeOK
    <2> QED
      BY <2>2, <2>3, <2>4
  <1> QED
    BY <1>1, <1>2, <1>3 DEF AckInv

-----------------------------------------------------------------------------
(* The order of the bytes.                                                 *)

\* The bytes of the sending side stay in the order of the writes; StreamDrop
\* removes some, which leaves the others in order.
LEMMA OrderStep ==
    ASSUME TypeOK, WindowInv, OrderInv, [Next]_vars
    PROVE  OrderInv'
  <1>1. CASE UNCHANGED sendVars
    BY <1>1 DEF OrderInv, OrderAt, Taken, Sorted, Below, UpTo, sendVars
  <1>2. ASSUME NEW e \in Host, NEW len \in 1..MaxWrite, tcp_send(e, len)
        PROVE  OrderAt(e)'
    <2> DEFINE d == [i \in 1..len |-> wrote[e] + i]
               q == sending_buf[e]
               w == send_windows[e]
               t == Taken(e)
               n == wrote[e]
    <2>1. /\ sending_buf'[e] = q \o d /\ wrote'[e] = n + len
          /\ UNCHANGED <<send_windows, spc, sbuf>>
      BY <1>2 DEF tcp_send, TypeOK, window, sender
    <2>2. /\ len \in Nat /\ n \in Nat /\ d \in Seq(Nat) /\ Len(d) = len
          /\ \A i \in 1..len : d[i] = n + i
      BY SendTypes, SizeAssumption, WriteFacts
    <2>3. q \in Seq(Nat) /\ w \in Seq(Nat) /\ t \in Seq(Nat)
      BY SendTypes, EmptyBuffer DEF Taken
    <2>4. /\ Sorted(w) /\ Sorted(t) /\ Sorted(q)
          /\ Below(w, t) /\ Below(w, q) /\ Below(t, q)
          /\ UpTo(w, n) /\ UpTo(t, n) /\ UpTo(q, n)
      BY DEF OrderInv, OrderAt
    <2> HIDE DEF d, q, w, t, n
    <2>5. Sorted(d) /\ UpTo(d, n + len)
      BY <2>2 DEF Sorted, UpTo
    <2>6. ASSUME NEW s \in Seq(Nat), UpTo(s, n)
          PROVE  Below(s, d) /\ UpTo(s, n + len)
      <3>1. \A i \in 1..Len(s) : s[i] \in Nat
        BY ElementOfSeq
      <3> QED
        <4>1. ASSUME NEW i \in 1..Len(s), NEW j \in 1..Len(d)
              PROVE  s[i] < d[j]
          <5>1. s[i] \in Nat /\ s[i] <= n /\ d[j] = n + j /\ j \in Nat /\ j > 0
            BY <2>2, <2>6, <3>1 DEF UpTo
          <5> QED
            BY <2>2, <5>1
        <4>2. ASSUME NEW i \in 1..Len(s)
              PROVE  s[i] <= n + len
          <5>1. s[i] \in Nat /\ s[i] <= n
            BY <2>6, <3>1 DEF UpTo
          <5> QED
            BY <2>2, <5>1
        <4> QED
          BY <4>1, <4>2 DEF Below, UpTo
    <2>7. Sorted(q \o d)
      BY <2>2, <2>3, <2>4, <2>5, <2>6, SortedJoin
    <2>8. Below(w, q \o d) /\ Below(t, q \o d)
      BY <2>2, <2>3, <2>4, <2>6, BelowJoin
    <2>9. UpTo(q \o d, n + len)
      BY <2>2, <2>3, <2>4, <2>5, <2>6, UpToJoin
    <2>10. UpTo(w, n + len) /\ UpTo(t, n + len)
      BY <2>3, <2>4, <2>6
    <2> QED
      BY <2>1, <2>4, <2>7, <2>8, <2>9, <2>10 DEF OrderAt, Taken, w, t
  <1>3. ASSUME NEW e \in Host, StreamTake(e)
        PROVE  OrderAt(e)'
    <2>1. /\ sbuf'[e] = sending_buf[e] /\ sending_buf'[e] = <<>>
          /\ spc[e] = "poll" /\ spc'[e] = "gbn"
          /\ UNCHANGED <<send_windows, wrote>>
      BY <1>3 DEF StreamTake, TypeOK, window
    <2> QED
      BY <2>1, EmptyBuffer, EmptyOrder DEF OrderInv, OrderAt, Taken
  <1>4. ASSUME NEW e \in Host, StreamSend(e)
        PROVE  OrderAt(e)'
    <2> DEFINE q == sending_buf[e]
               w == send_windows[e]
               t == sbuf[e]
               n == wrote[e]
    <2>1. /\ spc[e] = "gbn" /\ spc'[e] \in {"start", "advance"}
          /\ UNCHANGED <<wrote, sending_buf, sbuf>>
      BY <1>4 DEF StreamSend, TypeOK, sendSide
    <2>2. send_windows'[e] = w \o t
      BY <1>4, SendAppends DEF TypeOK
    <2>3. q \in Seq(Nat) /\ w \in Seq(Nat) /\ t \in Seq(Nat) /\ n \in Nat
      BY SendTypes
    <2>4. /\ Sorted(w) /\ Sorted(t) /\ Sorted(q)
          /\ Below(w, t) /\ Below(w, q) /\ Below(t, q)
          /\ UpTo(w, n) /\ UpTo(t, n) /\ UpTo(q, n)
      BY <2>1 DEF OrderInv, OrderAt, Taken
    <2> HIDE DEF q, w, t, n
    <2>5. Sorted(w \o t) /\ Below(w \o t, q) /\ UpTo(w \o t, n)
      BY <2>3, <2>4, SortedJoin, BelowJoin, UpToJoin
    <2> QED
      BY <2>1, <2>2, <2>4, <2>5, EmptyOrder DEF OrderAt, Taken, q, n
  <1>5. ASSUME NEW e \in Host, StreamDrop(e)
        PROVE  OrderAt(e)'
    <2>1. /\ spc[e] = "gbn" /\ spc'[e] = "poll"
          /\ UNCHANGED <<wrote, sending_buf, send_windows>>
      BY <1>5 DEF StreamDrop, TypeOK, sendSide, window
    <2> QED
      BY <2>1, EmptyOrder DEF OrderInv, OrderAt, Taken
  <1>6. ASSUME NEW e \in Host, StreamStart(e)
        PROVE  OrderAt(e)'
    <2>1. /\ spc[e] = "start" /\ spc'[e] = "advance"
          /\ UNCHANGED <<wrote, sending_buf, send_windows>>
      BY <1>6 DEF StreamStart, TypeOK, sendSide, window
    <2> QED
      BY <2>1, EmptyOrder DEF OrderInv, OrderAt, Taken
  <1>7. ASSUME NEW e \in Host, StreamAdvance(e)
        PROVE  OrderAt(e)'
    <2>1. /\ spc[e] = "advance" /\ spc'[e] = "poll"
          /\ UNCHANGED <<wrote, sending_buf, send_windows>>
      BY <1>7 DEF StreamAdvance, TypeOK, sendSide
    <2> QED
      BY <2>1, EmptyOrder DEF OrderInv, OrderAt, Taken
  <1>8. ASSUME NEW e \in Host, StreamOverrun(e)
        PROVE  OrderAt(e)'
    BY <1>8 DEF StreamOverrun, OrderInv, OrderAt, Taken, Sorted, Below, UpTo,
                sendSide, window, sender
  <1>9. ASSUME NEW e \in Host,
               SendThread(e) \/ \E len \in 1..MaxWrite : tcp_send(e, len)
        PROVE  OrderInv'
    <2>1. OrderAt(e)'
      BY <1>2, <1>3, <1>4, <1>5, <1>6, <1>7, <1>8, <1>9 DEF SendThread
    <2>2. ASSUME NEW f \in Host, f # e
          PROVE  OrderAt(f)'
      BY <1>9, <2>2, SendLocal DEF OrderInv, OrderAt, Taken
    <2> QED
      BY <2>1, <2>2 DEF OrderInv
  <1> QED
    BY <1>1, <1>9, SendFrame

-----------------------------------------------------------------------------
(* Parts of a window.                                                      *)

\* A part of the window stays one when the window grows.
LEMMA PartStays ==
    ASSUME NEW s \in Seq(Nat), NEW w \in Seq(Nat), NEW v \in Seq(Nat), NEW n,
           PartOf(s, w, n), Len(w) <= Len(v), \A i \in 1..Len(w) : v[i] = w[i]
    PROVE  PartOf(s, v, n)
  <1>1. Len(s) \in Nat /\ Len(w) \in Nat /\ Len(v) \in Nat
    BY LenProperties
  <1>2. n \in Nat /\ n + Len(s) <= Len(w)
    BY DEF PartOf
  <1>3. n + Len(s) <= Len(v)
    BY <1>1, <1>2
  <1>4. ASSUME NEW i \in 1..Len(s) PROVE s[i] = v[n + i]
    <2>1. n + i \in 1..Len(w)
      <3> DEFINE a == Len(s)
                 b == Len(w)
      <3>1. i \in 1..a /\ a \in Nat /\ b \in Nat /\ n \in Nat /\ n + a <= b
        BY <1>1, <1>2
      <3> HIDE DEF a, b
      <3>2. n + i \in 1..b
        BY <3>1
      <3> QED
        BY <3>2 DEF b
    <2>2. s[i] = w[n + i]
      BY DEF PartOf
    <2> QED
      BY <2>1, <2>2
  <1> QED
    BY <1>2, <1>3, <1>4 DEF PartOf

\* The empty buffer is a part of the window anywhere.
LEMMA PartEmpty ==
    ASSUME NEW w \in Seq(Nat), NEW n \in Nat, n <= Len(w)
    PROVE  PartOf(<<>>, w, n)
  <1>1. Len(w) \in Nat
    BY LenProperties
  <1>2. Len(<<>>) = 0 /\ n + 0 <= Len(w)
    BY <1>1, EmptyBuffer
  <1>3. \A i \in 1..0 : FALSE
    OBVIOUS
  <1> QED
    BY <1>2, <1>3 DEF PartOf

\* Two adjacent parts of the window make one.
LEMMA PartJoin ==
    ASSUME NEW s \in Seq(Nat), NEW t \in Seq(Nat), NEW w \in Seq(Nat), NEW n,
           PartOf(s, w, n), PartOf(t, w, n + Len(s))
    PROVE  PartOf(s \o t, w, n)
  <1>1. /\ Len(s) \in Nat /\ Len(t) \in Nat /\ Len(w) \in Nat
    BY LenProperties
  <1>2. /\ n \in Nat /\ \A i \in 1..Len(s) : s[i] = w[n + i]
        /\ (n + Len(s)) + Len(t) <= Len(w)
        /\ \A i \in 1..Len(t) : t[i] = w[(n + Len(s)) + i]
    BY DEF PartOf
  <1>3. /\ Len(s \o t) = Len(s) + Len(t)
        /\ \A i \in 1..(Len(s) + Len(t)) :
               (s \o t)[i] = IF i <= Len(s) THEN s[i] ELSE t[i - Len(s)]
    BY ConcatProperties
  <1>4. ASSUME NEW i \in 1..(Len(s) + Len(t)) PROVE (s \o t)[i] = w[n + i]
    <2>1. CASE i <= Len(s)
      BY <1>1, <1>2, <1>3, <2>1
    <2>2. CASE i > Len(s)
      <3>1. /\ i - Len(s) \in 1..Len(t) /\ (n + Len(s)) + (i - Len(s)) = n + i
            /\ ~(i <= Len(s))
        BY <1>1, <1>2, <2>2
      <3>2. (s \o t)[i] = t[i - Len(s)]
        BY <1>3, <3>1
      <3> QED
        BY <1>2, <3>1, <3>2
    <2> QED
      BY <1>1, <2>1, <2>2
  <1>5. n + Len(s \o t) <= Len(w)
    BY <1>1, <1>2, <1>3
  <1> QED
    BY <1>2, <1>3, <1>4, <1>5 DEF PartOf

\* The beginning and the rest of a part of the window are parts of it.
LEMMA PartCut ==
    ASSUME NEW b \in Seq(Nat), NEW w \in Seq(Nat), NEW p, NEW n \in 0..Len(b),
           PartOf(b, w, p)
    PROVE  /\ SubSeq(b, 1, n) \in Seq(Nat) /\ Len(SubSeq(b, 1, n)) = n
           /\ SubSeq(b, n + 1, Len(b)) \in Seq(Nat)
           /\ Len(SubSeq(b, n + 1, Len(b))) = Len(b) - n
           /\ PartOf(SubSeq(b, 1, n), w, p)
           /\ PartOf(SubSeq(b, n + 1, Len(b)), w, p + n)
  <1>1. /\ Len(b) \in Nat /\ Len(w) \in Nat /\ n \in Nat /\ n <= Len(b)
        /\ p \in Nat /\ p + Len(b) <= Len(w)
        /\ \A i \in 1..Len(b) : b[i] = w[p + i]
    BY LenProperties DEF PartOf
  <1>2. /\ SubSeq(b, 1, n) \in Seq(Nat) /\ Len(SubSeq(b, 1, n)) = n
        /\ \A i \in 1..n : SubSeq(b, 1, n)[i] = b[i]
    BY <1>1
  <1> DEFINE r == SubSeq(b, n + 1, Len(b))
  <1>3. /\ r \in Seq(Nat) /\ Len(r) = Len(b) - n
        /\ \A i \in 1..(Len(b) - n) : r[i] = b[n + i]
    <2>1. \A i \in (n + 1)..Len(b) : b[i] \in Nat
      BY <1>1, ElementOfSeq
    <2> DEFINE m == n + 1
               l == Len(b)
    <2>2. m \in Int /\ l \in Int /\ m - 1 <= l /\ \A i \in m..l : b[i] \in Nat
      BY <1>1, <2>1
    <2> HIDE DEF m, l
    <2>3. /\ SubSeq(b, m, l) \in Seq(Nat)
          /\ Len(SubSeq(b, m, l)) = IF m <= l THEN l - m + 1 ELSE 0
          /\ \A i \in 1..(l - m + 1) : SubSeq(b, m, l)[i] = b[m + i - 1]
      BY <2>2, SubSeqProperties
    <2>4. Len(SubSeq(b, m, l)) = l - m + 1 /\ l - m + 1 = Len(b) - n
      BY <1>1, <2>2, <2>3 DEF m, l
    <2>5. ASSUME NEW i \in 1..(Len(b) - n)
          PROVE  SubSeq(b, m, l)[i] = b[n + i]
      <3>1. i \in 1..(l - m + 1) /\ m + i - 1 = n + i
        BY <1>1, <2>4 DEF m
      <3> QED
        BY <2>3, <3>1
    <2> QED
      BY <2>3, <2>4, <2>5 DEF m, l
  <1>4. PartOf(SubSeq(b, 1, n), w, p)
    <2>1. p + n <= Len(w)
      BY <1>1
    <2>2. \A i \in 1..n : i \in 1..Len(b)
      BY <1>1
    <2> HIDE DEF r
    <2> QED
      BY <1>1, <1>2, <2>1, <2>2 DEF PartOf
  <1>5. PartOf(r, w, p + n)
    <2> HIDE DEF r
    <2>1. (p + n) + Len(r) <= Len(w) /\ p + n \in Nat
      BY <1>1, <1>3
    <2>2. ASSUME NEW i \in 1..Len(r) PROVE r[i] = w[(p + n) + i]
      <3>1. n + i \in 1..Len(b) /\ i \in 1..(Len(b) - n) /\ p + (n + i) = (p + n) + i
        BY <1>1, <1>3
      <3> QED
        BY <1>1, <1>3, <3>1
    <2> QED
      BY <2>1, <2>2 DEF PartOf
  <1> QED
    BY <1>2, <1>3, <1>4, <1>5

-----------------------------------------------------------------------------
(* The receiving side.  x is expect_seq, d the data the receive thread has *)
(* numbered and not stored, b received_buf, c what was read, w the peer's  *)
(* window.                                                                 *)

StoredOf(x, d)    == x - Len(d)
PassedOf(x, d, b) == StoredOf(x, d) - Len(b)

Holds(x, d, b, w) == /\ PartOf(d, w, StoredOf(x, d))
                     /\ PartOf(b, w, PassedOf(x, d, b))

\* Numbering the next bytes of the window.
LEMMA HoldsNumbered ==
    ASSUME NEW x \in Nat, NEW d \in Seq(Nat), NEW b \in Seq(Nat), NEW w \in Seq(Nat),
           Holds(x, <<>>, b, w), PartOf(d, w, x)
    PROVE  /\ Holds(x + Len(d), d, b, w)
           /\ PassedOf(x + Len(d), d, b) = PassedOf(x, <<>>, b)
  <1>1. Len(d) \in Nat /\ Len(b) \in Nat
    BY LenProperties
  <1>2. StoredOf(x + Len(d), d) = x /\ StoredOf(x, <<>>) = x
    BY <1>1, EmptyBuffer DEF StoredOf
  <1> QED
    BY <1>2 DEF Holds, PassedOf

\* Storing them behind the bytes that wait.
LEMMA HoldsStored ==
    ASSUME NEW x \in Nat, NEW d \in Seq(Nat), NEW b \in Seq(Nat), NEW w \in Seq(Nat),
           Holds(x, d, b, w), x <= Len(w)
    PROVE  /\ Holds(x, <<>>, b \o d, w)
           /\ PassedOf(x, <<>>, b \o d) = PassedOf(x, d, b)
  <1> DEFINE p == PassedOf(x, d, b)
             q == StoredOf(x, d)
  <1>1. Len(d) \in Nat /\ Len(b) \in Nat /\ Len(b \o d) = Len(b) + Len(d)
    BY LenProperties, JoinFacts
  <1>2. p \in Nat /\ PartOf(b, w, p) /\ PartOf(d, w, q)
    BY DEF Holds, PartOf
  <1>3. q = p + Len(b) /\ StoredOf(x, <<>>) = x
    BY <1>1, EmptyBuffer DEF StoredOf, PassedOf
  <1>4. PassedOf(x, <<>>, b \o d) = p
    BY <1>1, <1>3 DEF PassedOf, StoredOf
  <1> HIDE DEF p, q
  <1>5. PartOf(b \o d, w, p)
    BY <1>2, <1>3, PartJoin
  <1>6. PartOf(<<>>, w, x)
    BY PartEmpty
  <1> QED
    BY <1>3, <1>4, <1>5, <1>6 DEF Holds, p

\* Reading n of the bytes that wait.
LEMMA HoldsRead ==
    ASSUME NEW x \in Nat, NEW d \in Seq(Nat), NEW b \in Seq(Nat), NEW w \in Seq(Nat),
           NEW n \in 0..Len(b), Holds(x, d, b, w)
    PROVE  /\ Holds(x, d, SubSeq(b, n + 1, Len(b)), w)
           /\ PassedOf(x, d, SubSeq(b, n + 1, Len(b))) = PassedOf(x, d, b) + n
  <1> DEFINE p == PassedOf(x, d, b)
             r == SubSeq(b, n + 1, Len(b))
  <1>1. Len(d) \in Nat /\ Len(b) \in Nat /\ n \in Nat /\ StoredOf(x, d) \in Int
    BY LenProperties DEF StoredOf
  <1>2. PartOf(b, w, p) /\ PartOf(d, w, StoredOf(x, d))
    BY DEF Holds
  <1>3. Len(r) = Len(b) - n /\ PartOf(r, w, p + n)
    <2> HIDE DEF p
    <2> QED
      BY <1>2, PartCut
  <1>4. PassedOf(x, d, r) = p + n
    <2> HIDE DEF r
    <2> QED
      BY <1>1, <1>3 DEF PassedOf
  <1> QED
    BY <1>2, <1>3, <1>4 DEF Holds

\* Dropping all that waits.
LEMMA HoldsDropped ==
    ASSUME NEW x \in Nat, NEW d \in Seq(Nat), NEW b \in Seq(Nat), NEW w \in Seq(Nat),
           Holds(x, d, b, w)
    PROVE  /\ Holds(x, d, <<>>, w)
           /\ PassedOf(x, d, <<>>) = PassedOf(x, d, b) + Len(b)
  <1> DEFINE q == StoredOf(x, d)
  <1>1. Len(d) \in Nat /\ Len(b) \in Nat /\ Len(w) \in Nat
    BY LenProperties
  <1>2. PartOf(d, w, q)
    BY DEF Holds
  <1>3. q \in Nat /\ q <= Len(w)
    <2>1. q \in Nat /\ q + Len(d) <= Len(w)
      BY <1>2 DEF PartOf
    <2> QED
      BY <1>1, <2>1
  <1>4. PassedOf(x, d, <<>>) = q /\ PassedOf(x, d, b) + Len(b) = q
    BY <1>1, <1>3, EmptyBuffer DEF PassedOf
  <1> HIDE DEF q
  <1>5. PartOf(<<>>, w, q)
    BY <1>3, PartEmpty
  <1> QED
    BY <1>2, <1>4, <1>5 DEF Holds, q

\* What was read, c, came in order from the first p bytes of the window.
ReadFrom(c, w, p) ==
    /\ Sorted(c)
    /\ \A i \in 1..Len(c) : \E k \in 1..p : c[i] = w[k]

\* It is all of them.
ReadAll(c, w, p) == Len(c) = p /\ PrefixOf(c, w)

\* Moving on in the window, or a longer window, keeps what was read.
LEMMA ReadFromStays ==
    ASSUME NEW c \in Seq(Nat), NEW w \in Seq(Nat), NEW v \in Seq(Nat),
           NEW p \in Nat, NEW q \in Nat,
           ReadFrom(c, w, p), p <= q, p <= Len(w), \A i \in 1..Len(w) : v[i] = w[i]
    PROVE  ReadFrom(c, v, q)
  <1>1. Len(w) \in Nat
    BY LenProperties
  <1>2. ASSUME NEW i \in 1..Len(c) PROVE \E k \in 1..q : c[i] = v[k]
    <2>1. PICK k \in 1..p : c[i] = w[k]
      BY DEF ReadFrom
    <2>2. k \in 1..q /\ k \in 1..Len(w)
      BY <1>1
    <2> QED
      BY <2>1, <2>2
  <1> QED
    BY <1>2 DEF ReadFrom

\* Reading the next bytes m of the window.
LEMMA ReadFromMore ==
    ASSUME NEW c \in Seq(Nat), NEW m \in Seq(Nat), NEW w \in Seq(Nat), NEW p \in Nat,
           ReadFrom(c, w, p), PartOf(m, w, p), Sorted(w)
    PROVE  ReadFrom(c \o m, w, p + Len(m))
  <1>1. /\ Len(c) \in Nat /\ Len(m) \in Nat /\ Len(w) \in Nat
    BY LenProperties
  <1>2. p + Len(m) <= Len(w) /\ \A i \in 1..Len(m) : m[i] = w[p + i]
    BY DEF PartOf
  <1>0. \A i \in 1..Len(m) : p + i \in 1..Len(w)
    <2> DEFINE a == Len(m)
               b == Len(w)
    <2>1. a \in Nat /\ b \in Nat /\ p + a <= b
      BY <1>1, <1>2
    <2> HIDE DEF a, b
    <2>2. \A i \in 1..a : p + i \in 1..b
      BY <2>1
    <2> QED
      BY <2>2 DEF a, b
  <1>3. Sorted(m)
    <2>1. ASSUME NEW i \in 1..Len(m), NEW j \in 1..Len(m), i < j
          PROVE  m[i] < m[j]
      <3>1. p + i \in 1..Len(w) /\ p + j \in 1..Len(w) /\ p + i < p + j
        BY <1>0, <2>1
      <3>2. m[i] = w[p + i] /\ m[j] = w[p + j]
        BY <1>2
      <3> QED
        BY <3>1, <3>2 DEF Sorted
    <2> QED
      BY <2>1 DEF Sorted
  <1>4. Below(c, m)
    <2>1. ASSUME NEW i \in 1..Len(c), NEW j \in 1..Len(m)
          PROVE  c[i] < m[j]
      <3>1. PICK k \in 1..p : c[i] = w[k]
        BY DEF ReadFrom
      <3>2. k \in 1..Len(w) /\ p + j \in 1..Len(w) /\ k < p + j
        <4>1. p + j \in 1..Len(w)
          BY <1>0
        <4> QED
          BY <1>1, <4>1
      <3> QED
        BY <1>2, <3>1, <3>2 DEF Sorted
    <2> QED
      BY <2>1 DEF Below
  <1>5. Sorted(c \o m)
    BY <1>3, <1>4, SortedJoin DEF ReadFrom
  <1>6. /\ Len(c \o m) = Len(c) + Len(m)
        /\ \A i \in 1..(Len(c) + Len(m)) :
               (c \o m)[i] = IF i <= Len(c) THEN c[i] ELSE m[i - Len(c)]
    BY ConcatProperties
  <1>7. ASSUME NEW i \in 1..Len(c \o m)
        PROVE  \E k \in 1..(p + Len(m)) : (c \o m)[i] = w[k]
    <2>1. CASE i <= Len(c)
      <3>1. i \in 1..Len(c) /\ (c \o m)[i] = c[i]
        BY <1>1, <1>6, <2>1
      <3>2. PICK k \in 1..p : c[i] = w[k]
        BY <3>1 DEF ReadFrom
      <3>3. k \in 1..(p + Len(m))
        BY <1>1
      <3> QED
        BY <3>1, <3>2, <3>3
    <2>2. CASE i > Len(c)
      <3>1. /\ i - Len(c) \in 1..Len(m) /\ ~(i <= Len(c))
            /\ p + (i - Len(c)) \in 1..(p + Len(m))
            /\ i \in 1..(Len(c) + Len(m))
        BY <1>1, <1>6, <2>2
      <3>2. (c \o m)[i] = m[i - Len(c)]
        BY <1>6, <3>1
      <3>3. (c \o m)[i] = w[p + (i - Len(c))]
        BY <1>2, <3>1, <3>2
      <3> QED
        BY <3>1, <3>3
    <2> QED
      BY <1>1, <1>6, <2>1, <2>2
  <1> QED
    BY <1>5, <1>7 DEF ReadFrom

\* A host that reads all of the window up to p goes on reading all of it.
LEMMA ReadAllMore ==
    ASSUME NEW c \in Seq(Nat), NEW m \in Seq(Nat), NEW w \in Seq(Nat), NEW p \in Nat,
           ReadAll(c, w, p), PartOf(m, w, p)
    PROVE  ReadAll(c \o m, w, p + Len(m))
  <1>0. Len(c) = p /\ 0 + p = p
    BY DEF ReadAll
  <1>1. Len(c \o m) = p + Len(m)
    BY <1>0, ConcatProperties
  <1>2. PartOf(c, w, 0) /\ PartOf(m, w, 0 + Len(c))
    BY <1>0 DEF ReadAll, PrefixOf
  <1>3. PartOf(c \o m, w, 0)
    BY <1>2, PartJoin
  <1> QED
    BY <1>1, <1>3 DEF ReadAll, PrefixOf

\* Nothing happens to what f received, counted or read.
KeepsReceived(f) ==
    /\ consumed'[f] = consumed[f] /\ received_buf'[f] = received_buf[f]
    /\ rdata'[f] = rdata[f] /\ expect_seq'[f] = expect_seq[f]
    /\ rpc[f] \in {"ack", "store"} => rpc'[f] \in {"ack", "store"}
    /\ GivesUp(f) => GivesUp(f)'

\* Every other step that concerns f is one of four.
LEMMA ReceiveFrame ==
    ASSUME TypeOK, [Next]_vars, NEW f \in Host
    PROVE  \/ KeepsReceived(f)
           \/ \E pkt \in net : HandleData(f, pkt)
           \/ Store(f)
           \/ \E len \in 1..MaxRead : tcp_recv(f, len)
           \/ CloseDrops(f)
  <1> USE DEF recvSide, receiver, timing, KeepsReceived, GivesUp
  <1>1. CASE UNCHANGED vars
    BY <1>1 DEF vars
  <1>2. ASSUME NEW e \in Host, NEW len \in 1..MaxWrite,
               tcp_send(e, len) \/ tcp_send_full(e, len)
        PROVE  KeepsReceived(f)
    BY <1>2 DEF tcp_send, tcp_send_full
  <1>3. ASSUME NEW e \in Host, e # f, NEW len \in 1..MaxRead, tcp_recv(e, len)
        PROVE  KeepsReceived(f)
    BY <1>3 DEF tcp_recv, TypeOK
  <1>4. ASSUME NEW e \in Host, StreamStart(e)
        PROVE  KeepsReceived(f)
    BY <1>4 DEF StreamStart, tcp_start_timer, TimerJoinable, TypeOK
  <1>5. ASSUME NEW e \in Host, SendThread(e), ~StreamStart(e)
        PROVE  KeepsReceived(f)
    BY <1>5 DEF SendThread, StreamTake, StreamSend, StreamDrop, StreamAdvance,
                StreamOverrun
  <1>6. ASSUME NEW e \in Host, AckTimer(e)
        PROVE  KeepsReceived(f)
    <2>1. /\ UNCHANGED <<consumed, received_buf, rdata, expect_seq>>
          /\ rpc[e] \in {"stop", "start"} /\ rpc' = [rpc EXCEPT ![e] = "idle"]
      BY <1>6 DEF AckTimer
    <2>2. rpc[f] \in {"ack", "store"} => rpc'[f] \in {"ack", "store"}
      BY <2>1 DEF TypeOK
    <2>3. timer[e] \in {"off", "armed"}
          /\ \E t \in {"off", "armed"} : timer' = [timer EXCEPT ![e] = t]
      BY <1>6 DEF AckTimer, tcp_start_timer, tcp_stop_timer, TimerJoinable
    <2>4. GivesUp(f) => GivesUp(f)'
      BY <2>3 DEF TypeOK
    <2> QED
      BY <2>1, <2>2, <2>4
  <1>7. ASSUME NEW e \in Host, SendAck(e)
        PROVE  KeepsReceived(f)
    BY <1>7 DEF SendAck, TypeOK
  <1>8. ASSUME NEW e \in Host, NEW pkt \in net, HandleAck(e, pkt)
        PROVE  KeepsReceived(f)
    BY <1>8 DEF HandleAck, onTCPPocket, TypeOK
  <1>9. ASSUME NEW e \in Host, NEW pkt \in net, HandleOldData(e, pkt)
        PROVE  KeepsReceived(f)
    BY <1>9 DEF HandleOldData
  <1>10. ASSUME NEW e \in Host, NEW pkt \in net, HandleFutureData(e, pkt)
         PROVE  KeepsReceived(f)
    BY <1>10 DEF HandleFutureData, vars
  <1>11. ASSUME NEW e \in Host, NEW pkt \in net, ReceiveRunt(e, pkt)
         PROVE  KeepsReceived(f)
    BY <1>11 DEF ReceiveRunt, TypeOK
  <1>12. ASSUME NEW e \in Host, e # f, NEW pkt \in net, HandleData(e, pkt)
         PROVE  KeepsReceived(f)
    BY <1>12 DEF HandleData, TypeOK
  <1>13. ASSUME NEW e \in Host, e # f, Store(e)
         PROVE  KeepsReceived(f)
    BY <1>13 DEF Store, TypeOK
  <1>14. ASSUME NEW e \in Host, e # f, CloseDrops(e)
         PROVE  KeepsReceived(f)
    BY <1>14 DEF CloseDrops, TypeOK
  <1>15. ASSUME NEW e \in Host,
                TimeoutHandshake(e) \/ TimeoutRetransmit(e) \/ TimeoutExit(e)
         PROVE  KeepsReceived(f)
    BY <1>15 DEF TimeoutHandshake, TimeoutRetransmit, TimeoutExit, TimerExpires, TypeOK
  <1>16. ASSUME NEW e \in Host, TimeoutClose(e) \/ CloseFin(e)
         PROVE  KeepsReceived(f)
    <2>1. CASE TimeoutClose(e)
      BY <2>1 DEF TimeoutClose, TypeOK
    <2>2. CASE CloseFin(e)
      BY <2>2 DEF CloseFin, TypeOK
    <2> QED
      BY <1>16, <2>1, <2>2
  <1>17. ASSUME NEW e \in Host, UseAfterFree(e)
         PROVE  KeepsReceived(f)
    BY <1>17 DEF UseAfterFree
  <1> HIDE DEF KeepsReceived
  <1>18. ASSUME NEW e \in Host, Application(e)
         PROVE  KeepsReceived(f) \/ \E len \in 1..MaxRead : tcp_recv(f, len)
    BY <1>2, <1>3, <1>18 DEF Application
  <1>19. ASSUME NEW e \in Host, ReceiveThread(e)
         PROVE  \/ KeepsReceived(f) \/ Store(f)
                \/ \E pkt \in net : HandleData(f, pkt)
    BY <1>6, <1>7, <1>8, <1>9, <1>10, <1>11, <1>12, <1>13, <1>19 DEF ReceiveThread
  <1>20. ASSUME NEW e \in Host, TimerThread(e)
         PROVE  KeepsReceived(f) \/ CloseDrops(f)
    BY <1>14, <1>15, <1>16, <1>20 DEF TimerThread
  <1> QED
    BY <1>1, <1>4, <1>5, <1>17, <1>18, <1>19, <1>20 DEF Next

\* The receiving side of f: types, and what HeldInv and ReadInv say of it.
LEMMA ReceiveFacts ==
    ASSUME TypeOK, AckInv, HeldInv, NEW f \in Host
    PROVE  /\ expect_seq[f] \in Nat /\ rdata[f] \in Seq(Nat)
           /\ received_buf[f] \in Seq(Nat) /\ consumed[f] \in Seq(Nat)
           /\ send_windows[Peer(f)] \in Seq(Nat)
           /\ expect_seq[f] <= Len(send_windows[Peer(f)])
           /\ Holds(expect_seq[f], rdata[f], received_buf[f], send_windows[Peer(f)])
           /\ Passed(f) = PassedOf(expect_seq[f], rdata[f], received_buf[f])
           /\ Passed(f) \in Nat /\ Passed(f) <= Len(send_windows[Peer(f)])
           /\ PartOf(received_buf[f], send_windows[Peer(f)], Passed(f))
  <1>1. /\ expect_seq[f] \in Nat /\ rdata[f] \in Seq(Nat)
        /\ received_buf[f] \in Seq(Nat) /\ consumed[f] \in Seq(Nat)
        /\ send_windows[Peer(f)] \in Seq(Nat)
    BY PeerFacts DEF TypeOK
  <1>2. expect_seq[f] <= Len(send_windows[Peer(f)])
    BY DEF AckInv
  <1>3. /\ PartOf(rdata[f], send_windows[Peer(f)], Stored(f))
        /\ PartOf(received_buf[f], send_windows[Peer(f)], Passed(f))
    BY DEF HeldInv, HeldAt
  <1>4. /\ Stored(f) = StoredOf(expect_seq[f], rdata[f])
        /\ Passed(f) = PassedOf(expect_seq[f], rdata[f], received_buf[f])
    BY DEF Stored, Passed, StoredOf, PassedOf
  <1>5. Passed(f) \in Nat /\ Passed(f) <= Len(send_windows[Peer(f)])
    <2>1. /\ Passed(f) \in Nat
          /\ Passed(f) + Len(received_buf[f]) <= Len(send_windows[Peer(f)])
      BY <1>3 DEF PartOf
    <2>2. Len(received_buf[f]) \in Nat /\ Len(send_windows[Peer(f)]) \in Nat
      BY <1>1, LenProperties
    <2> QED
      BY <2>1, <2>2
  <1> QED
    BY <1>1, <1>2, <1>3, <1>4, <1>5 DEF Holds

\* The packet HandleData accepts carries the next bytes of the peer's window.
LEMMA AcceptedData ==
    ASSUME TypeOK, PacketsAgree, HeldInv, NEW f \in Host, NEW pkt \in net,
           HandleData(f, pkt)
    PROVE  /\ rdata[f] = <<>> /\ pkt.data \in Seq(Nat)
           /\ PartOf(pkt.data, send_windows[Peer(f)], expect_seq[f])
           /\ rdata'[f] = pkt.data /\ expect_seq'[f] = expect_seq[f] + Len(pkt.data)
           /\ rpc'[f] = "ack" /\ UNCHANGED <<consumed, received_buf, timer>>
  <1>1. /\ pkt.src = Peer(f) /\ pkt.flags = "NO_FLAG" /\ pkt.seq = expect_seq[f]
        /\ rpc[f] = "idle"
    BY DEF HandleData, onTCPPocket
  <1>2. /\ rdata'[f] = pkt.data /\ expect_seq'[f] = expect_seq[f] + Len(pkt.data)
        /\ rpc'[f] = "ack" /\ UNCHANGED <<consumed, received_buf, timer>>
    BY DEF HandleData, TypeOK, timing
  <1>3. rdata[f] = <<>>
    BY <1>1 DEF HeldInv, HeldAt
  <1>4. pkt.data \in Seq(Nat) /\ expect_seq[f] \in Nat
    BY DEF TypeOK
  <1>5. CarriesWindow(pkt)
    BY <1>1 DEF PacketsAgree
  <1>6. PartOf(pkt.data, send_windows[Peer(f)], expect_seq[f])
    BY <1>1, <1>4, <1>5 DEF CarriesWindow, PartOf
  <1> QED
    BY <1>2, <1>3, <1>4, <1>6

\* Store, tcp_recv and the drop of tcp_close at their host.
LEMMA StoreEffect ==
    ASSUME TypeOK, NEW f \in Host, Store(f)
    PROVE  /\ received_buf'[f] = received_buf[f] \o rdata[f] /\ rdata'[f] = <<>>
           /\ UNCHANGED <<consumed, expect_seq, timer>>
  BY DEF Store, TypeOK, timing

\* tcp_recv at its host: the first n bytes of received_buf go to the application.
LEMMA RecvEffect ==
    ASSUME TypeOK, NEW f \in Host, NEW len \in 1..MaxRead, tcp_recv(f, len)
    PROVE  \E n \in 0..Len(received_buf[f]) :
              /\ consumed'[f] = consumed[f] \o SubSeq(received_buf[f], 1, n)
              /\ received_buf'[f]
                   = SubSeq(received_buf[f], n + 1, Len(received_buf[f]))
              /\ UNCHANGED <<rdata, expect_seq, timer, rpc>>
  <1>1. PICK n \in 0..Len(received_buf[f]) :
            /\ consumed' = [consumed EXCEPT ![f] = @ \o SubSeq(received_buf[f], 1, n)]
            /\ received_buf' = [received_buf EXCEPT
                   ![f] = SubSeq(received_buf[f], n + 1, Len(received_buf[f]))]
    BY RecvMoves
  <1>2. UNCHANGED <<rdata, expect_seq, timer, rpc>>
    BY DEF tcp_recv, timing, receiver
  <1> QED
    BY <1>1, <1>2 DEF TypeOK

\* tcp_close at its host, which has given up.
LEMMA DropEffect ==
    ASSUME TypeOK, NEW f \in Host, CloseDrops(f)
    PROVE  /\ GivesUp(f) /\ received_buf'[f] = <<>>
           /\ UNCHANGED <<consumed, rdata, expect_seq, timer, rpc>>
  BY DEF CloseDrops, GivesUp, TypeOK, timing, receiver

\* HeldAt in terms of Holds, after a step.
LEMMA HeldAfter ==
    ASSUME TypeOK, WindowInv, [Next]_vars, NEW f \in Host,
           Holds(expect_seq'[f], rdata'[f], received_buf'[f], send_windows[Peer(f)]),
           rpc'[f] \notin {"ack", "store"} => rdata'[f] = <<>>
    PROVE  HeldAt(f)'
  <1> DEFINE w == send_windows[Peer(f)]
             v == send_windows'[Peer(f)]
  <1>1. TypeOK'
    BY TypeStep
  <1>2. /\ w \in Seq(Nat) /\ v \in Seq(Nat)
        /\ rdata'[f] \in Seq(Nat) /\ received_buf'[f] \in Seq(Nat)
    BY <1>1, PeerFacts DEF TypeOK
  <1>3. Len(w) <= Len(v) /\ \A i \in 1..Len(w) : v[i] = w[i]
    BY PeerFacts, WindowGrows
  <1>4. /\ Stored(f)' = StoredOf(expect_seq'[f], rdata'[f])
        /\ Passed(f)' = PassedOf(expect_seq'[f], rdata'[f], received_buf'[f])
    BY DEF Stored, Passed, StoredOf, PassedOf
  <1>5. PartOf(rdata'[f], w, Stored(f)') /\ PartOf(received_buf'[f], w, Passed(f)')
    BY <1>4 DEF Holds
  <1> HIDE DEF w, v
  <1>6. PartOf(rdata'[f], v, Stored(f)') /\ PartOf(received_buf'[f], v, Passed(f)')
    BY <1>2, <1>3, <1>5, PartStays
  <1> QED
    BY <1>6 DEF HeldAt, v

\* What a host holds stays the last part of what it numbered.
LEMMA HeldStep ==
    ASSUME TypeOK, WindowInv, PacketsAgree, AckInv, HeldInv, [Next]_vars
    PROVE  HeldInv'
  <1> SUFFICES ASSUME NEW f \in Host PROVE HeldAt(f)'
    BY DEF HeldInv
  <1> DEFINE x == expect_seq[f]
             d == rdata[f]
             b == received_buf[f]
             w == send_windows[Peer(f)]
  <1>1. /\ x \in Nat /\ d \in Seq(Nat) /\ b \in Seq(Nat) /\ w \in Seq(Nat)
        /\ x <= Len(w) /\ Holds(x, d, b, w)
    BY ReceiveFacts
  <1>2. rpc[f] \notin {"ack", "store"} => d = <<>>
    BY DEF HeldInv, HeldAt
  <1>3. CASE KeepsReceived(f)
    <2>1. rpc'[f] \notin {"ack", "store"} => rdata'[f] = <<>>
      BY <1>2, <1>3 DEF KeepsReceived
    <2> QED
      BY <1>1, <1>3, <2>1, HeldAfter DEF KeepsReceived
  <1>4. ASSUME NEW pkt \in net, HandleData(f, pkt)
        PROVE  HeldAt(f)'
    <2>1. /\ d = <<>> /\ pkt.data \in Seq(Nat) /\ PartOf(pkt.data, w, x)
          /\ rdata'[f] = pkt.data /\ expect_seq'[f] = x + Len(pkt.data)
          /\ rpc'[f] = "ack" /\ received_buf'[f] = b
      BY <1>4, AcceptedData
    <2>2. Holds(x, <<>>, b, w)
      BY <1>1, <2>1
    <2> HIDE DEF x, d, b, w
    <2>3. Holds(x + Len(pkt.data), pkt.data, b, w)
      BY <1>1, <2>1, <2>2, HoldsNumbered
    <2>4. rpc'[f] \notin {"ack", "store"} => rdata'[f] = <<>>
      BY <2>1
    <2> QED
      BY <2>1, <2>3, <2>4, HeldAfter DEF w
  <1>5. CASE Store(f)
    <2>1. received_buf'[f] = b \o d /\ rdata'[f] = <<>> /\ expect_seq'[f] = x
      BY <1>5, StoreEffect
    <2> HIDE DEF x, d, b, w
    <2>2. Holds(x, <<>>, b \o d, w)
      BY <1>1, HoldsStored
    <2> QED
      BY <2>1, <2>2, HeldAfter DEF w
  <1>6. ASSUME NEW len \in 1..MaxRead, tcp_recv(f, len)
        PROVE  HeldAt(f)'
    <2>1. PICK n \in 0..Len(b) : /\ received_buf'[f] = SubSeq(b, n + 1, Len(b))
                                 /\ UNCHANGED <<rdata, expect_seq, timer, rpc>>
      BY <1>6, RecvEffect
    <2>2. /\ rdata'[f] = d /\ expect_seq'[f] = x
          /\ rpc'[f] \notin {"ack", "store"} => rdata'[f] = <<>>
      BY <1>2, <2>1
    <2> HIDE DEF x, d, b, w
    <2>3. Holds(x, d, SubSeq(b, n + 1, Len(b)), w)
      BY <1>1, HoldsRead
    <2> QED
      BY <2>1, <2>2, <2>3, HeldAfter DEF w
  <1>7. CASE CloseDrops(f)
    <2>1. /\ received_buf'[f] = <<>> /\ rdata'[f] = d /\ expect_seq'[f] = x
          /\ rpc'[f] = rpc[f]
      BY <1>7, DropEffect
    <2>2. rpc'[f] \notin {"ack", "store"} => rdata'[f] = <<>>
      BY <1>2, <2>1
    <2> HIDE DEF x, d, b, w
    <2>3. Holds(x, d, <<>>, w)
      BY <1>1, HoldsDropped
    <2> QED
      BY <2>1, <2>2, <2>3, HeldAfter DEF w
  <1> QED
    BY <1>3, <1>4, <1>5, <1>6, <1>7, ReceiveFrame

\* What was read keeps coming in order from the peer's window, and all of it
\* until tcp_close drops some.
LEMMA ReadStep ==
    ASSUME TypeOK, WindowInv, PacketsAgree, AckInv, HeldInv, ReadInv, OrderInv,
           [Next]_vars
    PROVE  ReadInv'
  <1> SUFFICES ASSUME NEW f \in Host PROVE ReadAt(f)'
    BY DEF ReadInv
  <1> DEFINE x == expect_seq[f]
             d == rdata[f]
             b == received_buf[f]
             c == consumed[f]
             p == Passed(f)
             w == send_windows[Peer(f)]
             v == send_windows'[Peer(f)]
  <1>1. /\ x \in Nat /\ d \in Seq(Nat) /\ b \in Seq(Nat) /\ w \in Seq(Nat)
        /\ c \in Seq(Nat) /\ p \in Nat /\ p <= Len(w) /\ x <= Len(w)
        /\ p = PassedOf(x, d, b) /\ Holds(x, d, b, w) /\ PartOf(b, w, p)
    BY ReceiveFacts
  <1>2. v \in Seq(Nat) /\ Len(w) <= Len(v) /\ \A i \in 1..Len(w) : v[i] = w[i]
    <2>1. TypeOK'
      BY TypeStep
    <2> QED
      BY <2>1, PeerFacts, WindowGrows DEF TypeOK
  <1>3. ReadFrom(c, w, p) /\ (~GivesUp(f) => ReadAll(c, w, p))
    BY DEF ReadInv, ReadAt, ReadFrom, ReadAll
  <1>4. Sorted(w)
    BY PeerFacts DEF OrderInv, OrderAt
  <1>5. Passed(f)' = PassedOf(expect_seq'[f], rdata'[f], received_buf'[f])
    BY DEF Passed, Stored, PassedOf, StoredOf
  \* It is enough to compare with the window before the step.
  <1>6. ASSUME NEW s \in Seq(Nat), NEW q \in Nat, q <= Len(w),
               consumed'[f] = s, Passed(f)' = q,
               ReadFrom(s, w, q), ~GivesUp(f)' => ReadAll(s, w, q)
        PROVE  ReadAt(f)'
    <2> HIDE DEF w, v
    <2>1. q <= q
      OBVIOUS
    <2>2. ReadFrom(s, v, q)
      BY <1>1, <1>2, <1>6, <2>1, ReadFromStays
    <2>3. ASSUME ReadAll(s, w, q) PROVE ReadAll(s, v, q)
      BY <1>1, <1>2, <2>3, PartStays DEF ReadAll, PrefixOf
    <2> QED
      BY <1>6, <2>2, <2>3 DEF ReadAt, ReadFrom, ReadAll, v
  <1> HIDE DEF x, d, b, c, p, w, v
  <1>7. CASE KeepsReceived(f)
    <2>1. consumed'[f] = c /\ Passed(f)' = p /\ (~GivesUp(f)' => ~GivesUp(f))
      BY <1>1, <1>5, <1>7 DEF KeepsReceived, x, d, b, c
    <2> QED
      BY <1>1, <1>3, <1>6, <2>1
  <1>8. ASSUME NEW pkt \in net, HandleData(f, pkt)
        PROVE  ReadAt(f)'
    <2>1. /\ d = <<>> /\ pkt.data \in Seq(Nat) /\ PartOf(pkt.data, w, x)
          /\ rdata'[f] = pkt.data /\ expect_seq'[f] = x + Len(pkt.data)
          /\ received_buf'[f] = b /\ consumed'[f] = c /\ timer' = timer
      BY <1>8, AcceptedData DEF x, d, b, c, w
    <2>2. PassedOf(x + Len(pkt.data), pkt.data, b) = PassedOf(x, <<>>, b)
      <3> DEFINE t == pkt.data
      <3>1. t \in Seq(Nat) /\ PartOf(t, w, x) /\ Holds(x, <<>>, b, w)
        BY <1>1, <2>1
      <3>2. x \in Nat /\ b \in Seq(Nat) /\ w \in Seq(Nat)
        BY <1>1
      <3> HIDE DEF t
      <3>3. PassedOf(x + Len(t), t, b) = PassedOf(x, <<>>, b)
        BY ONLY <3>1, <3>2, HoldsNumbered
      <3> QED
        BY <3>3 DEF t
    <2>3. Passed(f)' = p /\ (~GivesUp(f)' => ~GivesUp(f))
      BY <1>1, <1>5, <2>1, <2>2 DEF GivesUp
    <2> QED
      BY <1>1, <1>3, <1>6, <2>1, <2>3
  <1>9. CASE Store(f)
    <2>1. /\ received_buf'[f] = b \o d /\ rdata'[f] = <<>> /\ expect_seq'[f] = x
          /\ consumed'[f] = c /\ timer' = timer
      BY <1>9, StoreEffect DEF x, d, b, c
    <2>2. PassedOf(x, <<>>, b \o d) = p
      BY <1>1, HoldsStored
    <2>3. Passed(f)' = p /\ (~GivesUp(f)' => ~GivesUp(f))
      BY <1>5, <2>1, <2>2 DEF GivesUp
    <2> QED
      BY <1>1, <1>3, <1>6, <2>1, <2>3
  <1>10. ASSUME NEW len \in 1..MaxRead, tcp_recv(f, len)
         PROVE  ReadAt(f)'
    <2>1. PICK n \in 0..Len(b) :
              /\ consumed'[f] = c \o SubSeq(b, 1, n)
              /\ received_buf'[f] = SubSeq(b, n + 1, Len(b))
              /\ UNCHANGED <<rdata, expect_seq, timer, rpc>>
      BY <1>10, RecvEffect DEF b, c
    <2>2. PassedOf(x, d, SubSeq(b, n + 1, Len(b))) = p + n
      BY <1>1, HoldsRead
    <2>3. Passed(f)' = p + n /\ (~GivesUp(f)' => ~GivesUp(f))
      BY <1>5, <2>1, <2>2 DEF GivesUp, x, d
    <2> DEFINE m == SubSeq(b, 1, n)
    <2>4. m \in Seq(Nat) /\ Len(m) = n /\ PartOf(m, w, p)
      BY <1>1, PartCut
    <2> HIDE DEF m
    <2>5. ReadFrom(c \o m, w, p + Len(m))
      BY <1>1, <1>3, <1>4, <2>4, ReadFromMore
    <2>6. ReadAll(c, w, p) => ReadAll(c \o m, w, p + Len(m))
      BY <1>1, <2>4, ReadAllMore
    <2>7. c \o m \in Seq(Nat)
      BY <1>1, <2>4, ConcatProperties
    <2>8. p + n \in Nat /\ p + n <= Len(w)
      <3>1. p + Len(m) <= Len(w) /\ Len(m) \in Nat
        BY <2>4, LenProperties DEF PartOf
      <3> QED
        BY <1>1, <2>4, <3>1
    <2>9. consumed'[f] = c \o m
      BY <2>1 DEF m
    <2> QED
      BY <1>3, <1>6, <2>3, <2>4, <2>5, <2>6, <2>7, <2>8, <2>9
  <1>11. CASE CloseDrops(f)
    <2>1. /\ GivesUp(f) /\ received_buf'[f] = <<>> /\ rdata'[f] = d
          /\ expect_seq'[f] = x /\ consumed'[f] = c /\ timer' = timer
      BY <1>11, DropEffect DEF x, d, c
    <2>2. PassedOf(x, d, <<>>) = p + Len(b)
      BY <1>1, HoldsDropped
    <2>3. Passed(f)' = p + Len(b) /\ GivesUp(f)'
      BY <1>5, <2>1, <2>2 DEF GivesUp
    <2>4. Len(b) \in Nat /\ p + Len(b) <= Len(w)
      BY <1>1, LenProperties DEF PartOf
    <2>5. p + Len(b) \in Nat /\ p <= p + Len(b)
      BY <1>1, <2>4
    <2>6. \A i \in 1..Len(w) : w[i] = w[i]
      OBVIOUS
    <2>7. ReadFrom(c, w, p + Len(b))
      BY <1>1, <1>3, <2>5, <2>6, ReadFromStays
    <2> QED
      BY <1>1, <1>6, <2>1, <2>3, <2>4, <2>5, <2>7
  <1> QED
    BY <1>7, <1>8, <1>9, <1>10, <1>11, ReceiveFrame

-----------------------------------------------------------------------------
(* The theorems.                                                           *)

\* The inductive invariant holds when tcp_connect and tcp_accept returned.
LEMMA IndInvInit == Init => IndInv
  <1> SUFFICES ASSUME Init PROVE IndInv
    OBVIOUS
  <1>1. TypeOK
    <2>1. left \in [Host -> Nat] /\ finished_handshake \in [Host -> BOOLEAN]
      BY SizeAssumption DEF Init
    <2>2. timeout_counts \in [Host -> 0..255]
      BY DEF Init
    <2>3. Shapes
      BY <2>1, <2>2, EmptyBuffer DEF Init, Shapes
    <2>4. net \subseteq Packets
      BY DEF Init
    <2> QED
      BY <2>3, <2>4, ShapesFromType
  <1>2. WindowInv
    BY EmptyBuffer DEF Init, WindowInv, WindowAt
  <1>3. PacketsAgree
    BY DEF Init, PacketsAgree
  <1>4. AckInv
    BY EmptyBuffer, PeerFacts DEF Init, AckInv
  <1>5. ASSUME NEW e \in Host
        PROVE  /\ rdata[e] = <<>> /\ received_buf[e] = <<>> /\ consumed[e] = <<>>
               /\ send_windows[Peer(e)] = <<>> /\ Stored(e) = 0 /\ Passed(e) = 0
    BY EmptyBuffer, PeerFacts DEF Init, Stored, Passed
  <1>6. PartOf(<<>>, <<>>, 0)
    BY EmptyBuffer DEF PartOf
  <1>7. HeldInv
    BY <1>5, <1>6 DEF HeldInv, HeldAt
  <1>8. ReadInv
    BY <1>5, <1>6, EmptyBuffer, EmptyOrder DEF ReadInv, ReadAt, PrefixOf
  <1>9. OrderInv
    BY EmptyOrder DEF Init, OrderInv, OrderAt, Taken
  <1> QED
    BY <1>1, <1>2, <1>3, <1>4, <1>7, <1>8, <1>9 DEF IndInv

\* Every step of every thread preserves the inductive invariant.
LEMMA IndInvStep == IndInv /\ [Next]_vars => IndInv'
  BY TypeStep, WindowStep, PacketsStep, AckStep, HeldStep, ReadStep, OrderStep
  DEF IndInv

\* IndInv holds in every reachable state, for every value of the constants.
THEOREM Invariance == Spec => []IndInv
  BY IndInvInit, IndInvStep, PTL DEF Spec

\* The variables keep their types; in particular timeout_counts never wraps.
THEOREM TypeCorrect == Spec => []TypeOK
  <1>1. IndInv => TypeOK
    BY DEF IndInv
  <1> QED
    BY <1>1, Invariance, PTL

\* Until a host gives up, the bytes with a sequence number reach received_buf
\* unchanged, in place and at most once.
THEOREM Integrity == Spec => []StreamIntegrity
  <1>1. IndInv => StreamIntegrity
    <2> SUFFICES ASSUME IndInv, NEW e \in Host, ~GivesUp(e)
                 PROVE  PrefixOf(consumed[e] \o received_buf[e], send_windows[Peer(e)])
      BY DEF StreamIntegrity, Delivered
    <2> DEFINE b == received_buf[e]
               c == consumed[e]
               w == send_windows[Peer(e)]
    <2>1. /\ b \in Seq(Nat) /\ c \in Seq(Nat) /\ w \in Seq(Nat) /\ Passed(e) \in Nat
          /\ PartOf(b, w, Passed(e))
      BY ReceiveFacts DEF IndInv
    <2>2. Len(c) = Passed(e) /\ PartOf(c, w, 0)
      BY DEF IndInv, ReadInv, ReadAt, PrefixOf
    <2> HIDE DEF b, c, w
    <2>3. 0 + Len(c) = Passed(e)
      BY <2>1, <2>2
    <2>4. PartOf(c \o b, w, 0)
      BY <2>1, <2>2, <2>3, PartJoin
    <2> QED
      BY <2>4 DEF PrefixOf, b, c, w
  <1> QED
    BY <1>1, Invariance, PTL

\* First transmissions and retransmissions of a byte agree.
THEOREM Agreement == Spec => []PacketsAgree
  <1>1. IndInv => PacketsAgree
    BY DEF IndInv
  <1> QED
    BY <1>1, Invariance, PTL

\* base never passes what the peer read, keeps or is about to store.
THEOREM AcksAreSound == Spec => []AckSound
  <1>1. IndInv => AckSound
    <2> SUFFICES ASSUME IndInv, NEW e \in Host, ~GivesUp(Peer(e))
                 PROVE  base[e] <= Len(consumed[Peer(e)] \o received_buf[Peer(e)])
                                     + Len(rdata[Peer(e)])
      BY DEF AckSound, Delivered
    <2> DEFINE f == Peer(e)
               b == received_buf[f]
               c == consumed[f]
               d == rdata[f]
               x == expect_seq[f]
    <2>1. f \in Host
      BY PeerFacts
    <2>2. /\ b \in Seq(Nat) /\ c \in Seq(Nat) /\ d \in Seq(Nat) /\ x \in Nat
          /\ Passed(f) = PassedOf(x, d, b)
      BY <2>1, ReceiveFacts DEF IndInv
    <2>3. Len(c) = Passed(f)
      BY <2>1 DEF IndInv, ReadInv, ReadAt
    <2>4. base[e] <= x
      BY DEF IndInv, AckInv
    <2> HIDE DEF f, b, c, d, x
    <2>5. Len(c \o b) = Len(c) + Len(b)
      BY <2>2, ConcatProperties
    <2>6. Len(b) \in Nat /\ Len(c) \in Nat /\ Len(d) \in Nat
      BY <2>2, LenProperties
    <2>7. Len(c) = x - Len(d) - Len(b)
      BY <2>2, <2>3 DEF PassedOf, StoredOf
    <2>8. Len(c \o b) + Len(d) = x
      BY <2>2, <2>5, <2>6, <2>7
    <2> QED
      BY <2>4, <2>8 DEF f, b, c, d
  <1> QED
    BY <1>1, Invariance, PTL

\* The application reads the bytes in the order of the writes, none twice,
\* whether or not tcp_close dropped some.
THEOREM DeliveryOrder == Spec => []DeliveredInOrder
  <1>1. IndInv => DeliveredInOrder
    <2> SUFFICES ASSUME IndInv, NEW e \in Host
                 PROVE  Sorted(consumed[e] \o received_buf[e])
      BY DEF DeliveredInOrder, Delivered, Sorted
    <2> DEFINE b == received_buf[e]
               c == consumed[e]
               w == send_windows[Peer(e)]
    <2>1. /\ b \in Seq(Nat) /\ c \in Seq(Nat) /\ w \in Seq(Nat) /\ Passed(e) \in Nat
          /\ PartOf(b, w, Passed(e))
      BY ReceiveFacts DEF IndInv
    <2>2. ReadFrom(c, w, Passed(e))
      BY DEF IndInv, ReadInv, ReadAt, ReadFrom
    <2>3. Sorted(w)
      BY PeerFacts DEF IndInv, OrderInv, OrderAt
    <2> HIDE DEF b, c, w
    <2>4. ReadFrom(c \o b, w, Passed(e) + Len(b))
      BY <2>1, <2>2, <2>3, ReadFromMore
    <2> QED
      BY <2>4 DEF ReadFrom, b, c
  <1> QED
    BY <1>1, Invariance, PTL

-----------------------------------------------------------------------------
(* Data transfer implements the abstract byte stream.                      *)

\* How far each host has come in its peer's stream, and which gave up: the two
\* variables of the byte stream that are no variables here.
passedAll == [e \in Host |-> Passed(e)]
givenUp   == {e \in Host : GivesUp(e)}

\* A prefix position by position is the beginning cut out of the sequence.
LEMMA PrefixIsCut ==
    ASSUME NEW s \in Seq(Nat), NEW t \in Seq(Nat), PrefixOf(s, t)
    PROVE  BS!IsPrefixOf(s, t)
  <1>1. PartOf(s, t, 0)
    BY DEF PrefixOf
  <1>2. Len(s) \in Nat /\ Len(t) \in Nat /\ Len(s) <= Len(t)
    <2>1. Len(s) \in Nat /\ Len(t) \in Nat /\ 0 + Len(s) <= Len(t)
      BY <1>1, LenProperties DEF PartOf
    <2> QED
      BY <2>1
  <1>3. \A i \in 1..Len(s) : s[i] = t[i]
    <2>1. ASSUME NEW i \in 1..Len(s) PROVE s[i] = t[i]
      <3>1. s[i] = t[0 + i] /\ 0 + i = i
        BY <1>1 DEF PartOf
      <3> QED
        BY <3>1
    <2> QED
      BY <2>1
  <1>4. /\ SubSeq(t, 1, Len(s)) \in Seq(Nat)
        /\ Len(SubSeq(t, 1, Len(s))) = Len(s)
        /\ \A i \in 1..Len(s) : SubSeq(t, 1, Len(s))[i] = t[i]
    BY <1>2
  <1> DEFINE u == SubSeq(t, 1, Len(s))
  <1>5. u \in Seq(Nat) /\ Len(u) = Len(s) /\ \A i \in 1..Len(s) : u[i] = s[i]
    BY <1>3, <1>4
  <1> HIDE DEF u
  <1>6. s = u
    BY <1>5, SeqEqual
  <1> QED
    BY <1>2, <1>6 DEF BS!IsPrefixOf, u

\* A part of a window is what SubSeq cuts out of it.
LEMMA PartIsCut ==
    ASSUME NEW m \in Seq(Nat), NEW w \in Seq(Nat), NEW p \in Nat, PartOf(m, w, p)
    PROVE  m = SubSeq(w, p + 1, p + Len(m))
  <1> DEFINE l == Len(m)
             a == p + 1
             z == p + Len(m)
             u == SubSeq(w, a, z)
  <1>1. l \in Nat /\ Len(w) \in Nat /\ p + l <= Len(w)
    BY LenProperties DEF PartOf
  <1>2. \A i \in a..z : w[i] \in Nat
    <2>1. \A i \in a..z : i \in 1..Len(w)
      BY <1>1
    <2> QED
      BY <2>1, ElementOfSeq
  <1>3. a \in Int /\ z \in Int /\ a - 1 <= z /\ z - a + 1 = l
    BY <1>1
  <1>4. \A i \in 1..l : a + i - 1 = p + i
    BY <1>1
  <1>5. \A i \in 1..l : m[i] = w[p + i]
    BY DEF PartOf
  <1> HIDE DEF a, z, l
  <1>6. /\ SubSeq(w, a, z) \in Seq(Nat)
        /\ Len(SubSeq(w, a, z)) = IF a <= z THEN z - a + 1 ELSE 0
        /\ \A i \in 1..(z - a + 1) : SubSeq(w, a, z)[i] = w[a + i - 1]
    BY <1>2, <1>3, SubSeqProperties
  <1>7. Len(SubSeq(w, a, z)) = l
    BY <1>1, <1>3, <1>6
  <1> HIDE DEF u
  <1>8. u \in Seq(Nat) /\ Len(u) = Len(m)
    BY <1>6, <1>7 DEF u, l
  <1>9. \A i \in 1..Len(m) : u[i] = m[i]
    BY <1>3, <1>4, <1>5, <1>6 DEF u, l
  <1>10. u = m
    BY <1>8, <1>9, SeqEqual
  <1> QED
    BY <1>10 DEF u, a, z

\* The sending thread numbers bytes: a Put of the abstract stream.
LEMMA SendIsPut ==
    ASSUME IndInv, [Next]_vars, IndInv', NEW e \in Host, StreamSend(e)
    PROVE  BS!Put(e)
  <1>1. send_windows[e] \in Seq(Nat) /\ send_windows'[e] \in Seq(Nat)
    BY DEF IndInv, TypeOK
  <1>2. PrefixOf(send_windows[e], send_windows'[e])
    <2> DEFINE s == send_windows[e]
               t == send_windows'[e]
    <2>1. s \in Seq(Nat) /\ Len(s) <= Len(t) /\ \A i \in 1..Len(s) : t[i] = s[i]
      BY <1>1, WindowGrows DEF IndInv
    <2> HIDE DEF s, t
    <2>2. Len(s) \in Nat /\ 0 + Len(s) = Len(s)
      BY <2>1, LenProperties
    <2>3. \A i \in 1..Len(s) : 0 + i = i
      OBVIOUS
    <2>4. PartOf(s, t, 0)
      BY <2>1, <2>2, <2>3 DEF PartOf
    <2> QED
      BY <2>4 DEF PrefixOf, s, t
  <1>3. BS!IsPrefixOf(send_windows[e], send_windows'[e])
    BY <1>1, <1>2, PrefixIsCut
  <1>4. send_windows' = [send_windows EXCEPT ![e] = send_windows'[e]]
    BY DEF StreamSend, IndInv, TypeOK
  <1>5. UNCHANGED <<consumed, received_buf, rdata, expect_seq, timer>>
    BY DEF StreamSend, recvSide, receiver, timing
  <1>6. UNCHANGED <<consumed, passedAll, givenUp>>
    BY <1>5 DEF passedAll, givenUp, GivesUp, Passed, Stored
  <1> QED
    BY <1>3, <1>4, <1>6 DEF BS!Put, passedAll, givenUp

\* tcp_recv hands out the next bytes of the peer's window: a Get.
LEMMA RecvIsGet ==
    ASSUME IndInv, IndInv', NEW e \in Host, NEW len \in 1..MaxRead, tcp_recv(e, len)
    PROVE  BS!Get(e)
  <1> DEFINE b == received_buf[e]
             w == send_windows[Peer(e)]
             p == Passed(e)
             x == expect_seq[e]
             d == rdata[e]
  <1>1. /\ b \in Seq(Nat) /\ w \in Seq(Nat) /\ p \in Nat /\ x \in Nat /\ d \in Seq(Nat)
        /\ PartOf(b, w, p) /\ Holds(x, d, b, w) /\ p = PassedOf(x, d, b)
    BY ReceiveFacts DEF IndInv
  <1>2. PICK n \in 0..Len(b) :
            /\ consumed' = [consumed EXCEPT ![e] = @ \o SubSeq(b, 1, n)]
            /\ received_buf' = [received_buf EXCEPT ![e] = SubSeq(b, n + 1, Len(b))]
    BY RecvMoves DEF IndInv
  <1>3. UNCHANGED <<send_windows, expect_seq, rdata, timer>>
    BY DEF tcp_recv, window, receiver, timing
  <1>4. received_buf'[e] = SubSeq(b, n + 1, Len(b))
    BY <1>2 DEF IndInv, TypeOK
  <1>5. Passed(e)' = PassedOf(x, d, SubSeq(b, n + 1, Len(b)))
    BY <1>3, <1>4 DEF Passed, Stored, PassedOf, StoredOf
  <1>6. ASSUME NEW f \in Host, f # e PROVE Passed(f)' = Passed(f)
    BY <1>2, <1>3, <1>6 DEF Passed, Stored, IndInv, TypeOK
  <1> DEFINE m == SubSeq(b, 1, n)
  <1> HIDE DEF b, w, p, x, d
  <1>7. m \in Seq(Nat) /\ Len(m) = n /\ PartOf(m, w, p)
    BY <1>1, PartCut
  <1>8. Passed(e)' = p + n
    BY <1>1, <1>5, HoldsRead
  <1> HIDE DEF m
  <1>9. m = SubSeq(w, p + 1, p + n)
    BY <1>1, <1>7, PartIsCut
  <1>10. n \in Nat /\ p <= p + n /\ p + n <= Len(w)
    <2>1. n \in Nat /\ p + n <= Len(w)
      BY <1>7, LenProperties DEF PartOf
    <2> QED
      BY <1>1, <2>1
  <1>11. passedAll' = [passedAll EXCEPT ![e] = passedAll'[e]]
    BY <1>6 DEF passedAll
  <1>12. passedAll[e] = p /\ passedAll'[e] = p + n
    BY <1>8 DEF passedAll, p
  <1>13. UNCHANGED <<send_windows, givenUp>>
    BY <1>3 DEF givenUp, GivesUp
  <1>14. consumed' = [consumed EXCEPT
                        ![e] = @ \o SubSeq(send_windows[Peer(e)], passedAll[e] + 1,
                                           passedAll'[e])]
    BY <1>2, <1>9, <1>12 DEF m, w
  <1>15. passedAll[e] <= passedAll'[e] /\ passedAll'[e] <= Len(send_windows[Peer(e)])
    BY <1>10, <1>12 DEF w
  <1> QED
    BY <1>11, <1>13, <1>14, <1>15 DEF BS!Get, BS!Pass, passedAll, givenUp

\* The timer thread gives up: an Abandon.
LEMMA CloseIsAbandon ==
    ASSUME IndInv, NEW e \in Host, TimeoutClose(e)
    PROVE  BS!Abandon(e)
  <1>1. UNCHANGED <<send_windows, consumed, received_buf, rdata, expect_seq>>
    BY DEF TimeoutClose, window, recvSide, receiver
  <1>2. timer' = [timer EXCEPT ![e] = "drop"]
    BY DEF TimeoutClose
  <1>3. givenUp' = givenUp \cup {e}
    BY <1>2 DEF givenUp, GivesUp, IndInv, TypeOK
  <1>4. UNCHANGED passedAll
    BY <1>1 DEF passedAll, Passed, Stored
  <1> QED
    BY <1>1, <1>3, <1>4 DEF BS!Abandon, passedAll, givenUp

\* tcp_close drops what was not read: a Skip.
LEMMA DropIsSkip ==
    ASSUME IndInv, NEW e \in Host, CloseDrops(e)
    PROVE  BS!Skip(e)
  <1> DEFINE b == received_buf[e]
             w == send_windows[Peer(e)]
             p == Passed(e)
             x == expect_seq[e]
             d == rdata[e]
  <1>1. /\ b \in Seq(Nat) /\ w \in Seq(Nat) /\ p \in Nat /\ x \in Nat /\ d \in Seq(Nat)
        /\ PartOf(b, w, p) /\ Holds(x, d, b, w) /\ p = PassedOf(x, d, b)
    BY ReceiveFacts DEF IndInv
  <1>2. /\ GivesUp(e) /\ received_buf'[e] = <<>>
        /\ UNCHANGED <<consumed, rdata, expect_seq, timer>>
    BY DropEffect DEF IndInv
  <1>3. UNCHANGED send_windows
    BY DEF CloseDrops, window
  <1>4. Passed(e)' = PassedOf(x, d, <<>>)
    BY <1>2 DEF Passed, Stored, PassedOf, StoredOf
  <1>5. ASSUME NEW f \in Host, f # e PROVE Passed(f)' = Passed(f)
    BY <1>5 DEF CloseDrops, receiver, Passed, Stored, IndInv, TypeOK
  <1> HIDE DEF b, w, p, x, d
  <1>6. Passed(e)' = p + Len(b)
    BY <1>1, <1>4, HoldsDropped
  <1>7. p <= p + Len(b) /\ p + Len(b) <= Len(w)
    <2>1. Len(b) \in Nat /\ p + Len(b) <= Len(w)
      BY <1>1, LenProperties DEF PartOf
    <2> QED
      BY <1>1, <2>1
  <1>8. passedAll' = [passedAll EXCEPT ![e] = passedAll'[e]]
    BY <1>5 DEF passedAll
  <1>9. passedAll[e] = p /\ passedAll'[e] = p + Len(b)
    BY <1>6 DEF passedAll, p
  <1>10. UNCHANGED givenUp /\ e \in givenUp
    BY <1>2 DEF givenUp, GivesUp
  <1>11. passedAll[e] <= passedAll'[e] /\ passedAll'[e] <= Len(send_windows[Peer(e)])
    BY <1>7, <1>9 DEF w
  <1> QED
    BY <1>2, <1>3, <1>8, <1>10, <1>11 DEF BS!Skip, BS!Pass, passedAll, givenUp

\* Counting, acknowledging and storing bytes does not move the reader.
LEMMA PassedStays ==
    ASSUME IndInv, [Next]_vars, NEW f \in Host, ~CloseDrops(f),
           ~ \E len \in 1..MaxRead : tcp_recv(f, len)
    PROVE  Passed(f)' = Passed(f)
  <1> DEFINE x == expect_seq[f]
             d == rdata[f]
             b == received_buf[f]
             w == send_windows[Peer(f)]
  <1>1. /\ x \in Nat /\ d \in Seq(Nat) /\ b \in Seq(Nat) /\ w \in Seq(Nat)
        /\ x <= Len(w) /\ Passed(f) = PassedOf(x, d, b) /\ Holds(x, d, b, w)
    BY ReceiveFacts DEF IndInv
  <1>2. Passed(f)' = PassedOf(expect_seq'[f], rdata'[f], received_buf'[f])
    BY DEF Passed, Stored, PassedOf, StoredOf
  <1> HIDE DEF x, d, b, w
  <1>3. CASE KeepsReceived(f)
    BY <1>1, <1>2, <1>3 DEF KeepsReceived, x, d, b
  <1>4. ASSUME NEW pkt \in net, HandleData(f, pkt)
        PROVE  Passed(f)' = Passed(f)
    <2>1. /\ d = <<>> /\ pkt.data \in Seq(Nat) /\ PartOf(pkt.data, w, x)
          /\ rdata'[f] = pkt.data /\ expect_seq'[f] = x + Len(pkt.data)
          /\ received_buf'[f] = b
      BY <1>4, AcceptedData DEF IndInv, x, d, b, w
    <2>2. PassedOf(x + Len(pkt.data), pkt.data, b) = PassedOf(x, <<>>, b)
      BY <1>1, <2>1, HoldsNumbered
    <2> QED
      BY <1>1, <1>2, <2>1, <2>2
  <1>5. CASE Store(f)
    <2>1. received_buf'[f] = b \o d /\ rdata'[f] = <<>> /\ expect_seq'[f] = x
      BY <1>5, StoreEffect DEF IndInv, x, d, b
    <2>2. PassedOf(x, <<>>, b \o d) = PassedOf(x, d, b)
      BY <1>1, HoldsStored
    <2> QED
      BY <1>1, <1>2, <2>1, <2>2
  <1> QED
    BY <1>3, <1>4, <1>5, ReceiveFrame DEF IndInv

\* Only the timer thread gives up, and nobody takes that back.
LEMMA GivesUpStays ==
    ASSUME TypeOK, [Next]_vars, ~ \E e \in Host : TimeoutClose(e)
    PROVE  UNCHANGED givenUp
  <1> USE DEF timing, givenUp, GivesUp
  <1>1. ASSUME NEW e \in Host, NEW t \in {"off", "armed"}, timer[e] \in {"off", "armed"},
               timer' = [timer EXCEPT ![e] = t]
        PROVE  UNCHANGED givenUp
    BY <1>1 DEF TypeOK
  <1>2. ASSUME NEW e \in Host, StreamStart(e) \/ AckTimer(e) \/ TimeoutHandshake(e)
        PROVE  UNCHANGED givenUp
    <2>1. timer[e] \in {"off", "armed"}
          /\ \E t \in {"off", "armed"} : timer' = [timer EXCEPT ![e] = t]
      BY <1>2 DEF StreamStart, AckTimer, TimeoutHandshake, TimerExpires,
                  tcp_start_timer, tcp_stop_timer, TimerJoinable
    <2> QED
      BY <1>1, <2>1
  <1>3. ASSUME NEW e \in Host, CloseFin(e)
        PROVE  UNCHANGED givenUp
    <2>1. timer[e] = "drop" /\ timer' = [timer EXCEPT ![e] = "closing"]
      BY <1>3 DEF CloseFin
    <2> QED
      BY <2>1 DEF TypeOK
  <1> HIDE DEF givenUp, GivesUp
  <1>4. ASSUME NEW e \in Host, Application(e) \/ UseAfterFree(e)
        PROVE  UNCHANGED timer
    BY <1>4 DEF Application, tcp_send, tcp_send_full, tcp_recv, UseAfterFree
  <1>5. ASSUME NEW e \in Host, SendThread(e), ~StreamStart(e)
        PROVE  UNCHANGED timer
    BY <1>5 DEF SendThread, StreamTake, StreamSend, StreamDrop, StreamAdvance,
                StreamOverrun
  <1>6. ASSUME NEW e \in Host, ReceiveThread(e), ~AckTimer(e)
        PROVE  UNCHANGED timer
    BY <1>6 DEF ReceiveThread, SendAck, Store, HandleAck, HandleData, HandleOldData,
                HandleFutureData, ReceiveRunt, vars
  <1>7. ASSUME NEW e \in Host, TimerThread(e), ~TimeoutHandshake(e), ~CloseFin(e)
        PROVE  UNCHANGED timer
    BY <1>7 DEF TimerThread, TimeoutRetransmit, TimeoutExit, CloseDrops
  <1>8. ASSUME UNCHANGED vars PROVE UNCHANGED timer
    BY <1>8 DEF vars
  <1>9. UNCHANGED timer => UNCHANGED givenUp
    BY DEF givenUp, GivesUp
  <1> QED
    BY <1>2, <1>3, <1>4, <1>5, <1>6, <1>7, <1>8, <1>9 DEF Next

\* Every other step leaves the abstract stream alone: losing, repeating and
\* reordering packets, acknowledging, storing, timing out and retransmitting.
LEMMA OthersStutter ==
    ASSUME IndInv, [Next]_vars,
           ~ \E e \in Host : \/ StreamSend(e) \/ TimeoutClose(e) \/ CloseDrops(e)
                             \/ \E len \in 1..MaxRead : tcp_recv(e, len)
    PROVE  UNCHANGED <<send_windows, consumed, passedAll, givenUp>>
  <1> USE DEF window, recvSide
  <1>1. ASSUME NEW e \in Host, Application(e)
        PROVE  UNCHANGED <<send_windows, consumed>>
    BY <1>1 DEF Application, tcp_send, tcp_send_full
  <1>2. ASSUME NEW e \in Host, SendThread(e)
        PROVE  UNCHANGED <<send_windows, consumed>>
    BY <1>2 DEF SendThread, StreamTake, StreamDrop, StreamStart, StreamAdvance,
                StreamOverrun
  <1>3. ASSUME NEW e \in Host, ReceiveThread(e)
        PROVE  UNCHANGED <<send_windows, consumed>>
    BY <1>3
    DEF ReceiveThread, AckTimer, SendAck, Store, HandleAck, HandleData, HandleOldData,
        HandleFutureData, ReceiveRunt, vars
  <1>4. ASSUME NEW e \in Host, TimerThread(e) \/ UseAfterFree(e)
        PROVE  UNCHANGED <<send_windows, consumed>>
    BY <1>4
    DEF TimerThread, TimeoutHandshake, TimeoutRetransmit, TimeoutExit, CloseFin,
        UseAfterFree
  <1>5. ASSUME UNCHANGED vars PROVE UNCHANGED <<send_windows, consumed>>
    BY <1>5 DEF vars
  <1>6. UNCHANGED <<send_windows, consumed>>
    BY <1>1, <1>2, <1>3, <1>4, <1>5 DEF Next
  <1>7. UNCHANGED passedAll
    BY PassedStays DEF passedAll
  <1>8. UNCHANGED givenUp
    BY GivesUpStays DEF IndInv
  <1> QED
    BY <1>6, <1>7, <1>8

\* Go-back-N over a lossy, duplicating and reordering network implements the
\* reliable byte stream: every step of the code is a Put, a Get, an Abandon, a
\* Skip of a host that gave up, or a stutter.
THEOREM RefinesByteStream == Spec => ImplementsByteStream
  <1>1. Init => BS!Init
    <2> SUFFICES ASSUME Init PROVE BS!Init
      OBVIOUS
    <2>1. \A e \in Host : Passed(e) = 0 /\ ~GivesUp(e)
      BY EmptyBuffer DEF Init, Passed, Stored, GivesUp
    <2> QED
      BY <2>1 DEF Init, BS!Init
  <1>2. IndInv /\ IndInv' /\ [Next]_vars => [BS!Next]_(BS!vars)
    <2> SUFFICES ASSUME IndInv, IndInv', [Next]_vars
                 PROVE  BS!Next \/ UNCHANGED <<send_windows, consumed, passedAll, givenUp>>
      BY DEF BS!vars, passedAll, givenUp
    <2>1. ASSUME NEW e \in Host, StreamSend(e) PROVE BS!Next
      BY <2>1, SendIsPut DEF BS!Next
    <2>2. ASSUME NEW e \in Host, NEW len \in 1..MaxRead, tcp_recv(e, len)
          PROVE  BS!Next
      BY <2>2, RecvIsGet DEF BS!Next
    <2>3. ASSUME NEW e \in Host, TimeoutClose(e) PROVE BS!Next
      BY <2>3, CloseIsAbandon DEF BS!Next
    <2>4. ASSUME NEW e \in Host, CloseDrops(e) PROVE BS!Next
      BY <2>4, DropIsSkip DEF BS!Next
    <2> QED
      BY <2>1, <2>2, <2>3, <2>4, OthersStutter
  <1> QED
    BY <1>1, <1>2, Invariance, PTL DEF Spec, BS!Spec, ImplementsByteStream
=============================================================================
