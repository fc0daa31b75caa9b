------------------------------ MODULE Transmit ------------------------------
(***************************************************************************)
(* The data-transfer phase of TrivialTCP: two established sockets, each    *)
(* with an application that writes and reads, a sending thread             *)
(* (tcp_send_stream), the receive thread of its host (tju_handle_packet)   *)
(* and a retransmission timer thread (tcp_check_timeout and its callback   *)
(* tcp_write_timer_handler).                                               *)
(*                                                                         *)
(* Init is the state both tcp_connect and tcp_accept leave behind (sequence*)
(* numbers 0 on both sides).  A byte is represented by its position in the *)
(* stream its application wrote, so lost, repeated and exchanged bytes can *)
(* be told apart.                                                          *)
(***************************************************************************)
EXTENDS Integers, Sequences

CONSTANTS
    HeaderLen,       \* DEFAULT_HEADER_LEN
    MaxLen,          \* MAX_LEN, the longest packet sendToLayer3 accepts
    PlenRange,       \* 2^16: plen is a uint16_t
    WindowSize,      \* wnd_send->window_size, a uint16_t
    SendCapacity,    \* sending_capacity = TCP_SEND_BUFFER_SIZE
    SendWindowSize,  \* TCP_SEND_WINDOW_SIZE, the memory behind send_windows
    RetransmitLimit, \* RETRANSMIT_LIMIT
    InitCounts,      \* what malloc may leave in each timeout_counts
    InitFinished,    \* what malloc may leave in the listener's finished_handshake
    Loads,           \* bound: how many bytes the two applications write
    MaxWrite,        \* bound: longest single tcp_send
    MaxRead          \* bound: longest single tcp_recv

Host == {"client", "server"}

ASSUME SizeAssumption ==
    /\ HeaderLen \in Nat \ {0} /\ MaxLen \in Nat /\ PlenRange \in Nat \ {0}
    /\ WindowSize \in Nat /\ SendCapacity \in Nat /\ SendWindowSize \in Nat
    /\ RetransmitLimit \in 0..254 /\ InitCounts \in [Host -> SUBSET (0..255)]
    /\ InitFinished \subseteq BOOLEAN /\ Loads \subseteq [Host -> Nat]
    /\ MaxWrite \in Nat /\ MaxRead \in Nat

VARIABLES
    \* the host
    alive,              \* FALSE once the process called exit(0) or made an
                        \* undefined access: it is followed no further
    state,              \* sock->state
    \* sending side of the socket
    send_locked,        \* send_lock was never released by a failed tcp_send
    sending_buf,        \* sending_buf and sending_len
    base,               \* wnd_send->base
    nextseq,            \* wnd_send->nextseq
    send_windows,       \* wnd_send->send_windows, the part written so far
    timer,              \* the timer thread: "off", "armed", or its place in
                        \* tcp_close
    finished_handshake,
    timeout_counts,
    \* receiving side of the socket
    expect_seq,         \* wnd_recv->expect_seq
    allocated,          \* received_buf is not NULL
    received_buf,       \* the received_len bytes of received_buf
    \* threads
    spc,                \* where the sending thread is
    sbuf,               \* its local buf and len
    rpc,                \* what the receive thread is about to do
    rdata,              \* the data it numbered and did not store yet
    \* what the applications did
    left,               \* bytes the application will still write
    wrote,              \* bytes accepted by tcp_send
    consumed,           \* bytes returned by tcp_recv
    \* the packets ever sent
    net

sendSide == <<send_locked, sending_buf, left, wrote>>
window   == <<base, nextseq, send_windows>>
timing   == <<timer, finished_handshake, timeout_counts>>
recvSide == <<expect_seq, allocated, received_buf, consumed>>
sender   == <<spc, sbuf>>
receiver == <<rpc, rdata>>
host     == <<alive, state>>
vars     == <<host, sendSide, window, timing, recvSide, sender, receiver, net>>

Peer(e) == IF e = "client" THEN "server" ELSE "client"

-----------------------------------------------------------------------------
(* Packets.  net only grows: the UDP layer below may lose a packet (it is  *)
(* never delivered), deliver it late, twice or out of order, and a packet  *)
(* it damages is dropped by tcp_check, which is a loss.                    *)

Packet(e, flags, seq, data) ==
    [src |-> e, flags |-> flags, seq |-> seq, data |-> data]

\* plen wraps around in its uint16_t.
PlenOf(len) == (HeaderLen + len) % PlenRange

\* A data packet carries as many bytes as its plen says.  With a plen below
\* the header length not even the header is sent.
DataPacket(e, seq, data) ==
    LET plen == PlenOf(Len(data))
    IN  IF plen < HeaderLen
        THEN Packet(e, "RUNT", seq, <<>>)
        ELSE Packet(e, "NO_FLAG", seq, SubSeq(data, 1, plen - HeaderLen))

\* sendToLayer3 refuses a packet longer than MAX_LEN without telling its caller.
sendToLayer3(pkt, plen) == IF plen > MaxLen THEN {} ELSE {pkt}

tcp_send_data(e, seq, data) ==
    sendToLayer3(DataPacket(e, seq, data), PlenOf(Len(data)))

\* The sequence number of an ACK is the next byte its sender expects.
tcp_send_ack(e, expected) ==
    sendToLayer3(Packet(e, "ACK", expected, <<>>), HeaderLen)

tcp_send_fin_ack(e) ==
    sendToLayer3(Packet(e, "FIN_ACK", expect_seq[e], <<>>), HeaderLen)

Init ==
    /\ alive = [e \in Host |-> TRUE]
    /\ state = [e \in Host |-> "ESTABLISHED"]
    /\ send_locked = [e \in Host |-> FALSE]
    /\ sending_buf = [e \in Host |-> <<>>]
    /\ left \in Loads
    /\ wrote = [e \in Host |-> 0]
    /\ base = [e \in Host |-> 0]
    /\ nextseq = [e \in Host |-> 0]
    /\ send_windows = [e \in Host |-> <<>>]
    /\ timer = [e \in Host |-> "off"]
    \* tcp_connect clears it; tcp_accept copies what malloc left in the listener
    /\ finished_handshake \in [Host -> BOOLEAN]
    /\ ~finished_handshake["client"]
    /\ finished_handshake["server"] \in InitFinished
    /\ timeout_counts \in [Host -> 0..255]
    /\ \A e \in Host : timeout_counts[e] \in InitCounts[e]
    /\ expect_seq = [e \in Host |-> 0]
    /\ allocated = [e \in Host |-> TRUE]   \* by tcp_socket
    /\ received_buf = [e \in Host |-> <<>>]
    /\ consumed = [e \in Host |-> <<>>]
    /\ spc = [e \in Host |-> "poll"]
    /\ sbuf = [e \in Host |-> <<>>]
    /\ rpc = [e \in Host |-> "idle"]
    /\ rdata = [e \in Host |-> <<>>]
    /\ net = {}

-----------------------------------------------------------------------------
(* The application.                                                        *)

\* tcp_send finds room: the bytes join sending_buf under send_lock.
tcp_send(e, len) ==
    /\ alive[e] /\ ~send_locked[e]
    /\ Len(sending_buf[e]) + len <= SendCapacity
    /\ len <= left[e]
    /\ sending_buf' = [sending_buf EXCEPT
                         ![e] = @ \o [i \in 1..len |-> wrote[e] + i]]
    /\ left' = [left EXCEPT ![e] = @ - len]
    /\ wrote' = [wrote EXCEPT ![e] = @ + len]
    /\ UNCHANGED <<host, send_locked, window, timing, recvSide, sender, receiver,
                   net>>

\* tcp_send finds the buffer full: it returns -1 and keeps send_lock.
tcp_send_full(e, len) ==
    /\ alive[e] /\ ~send_locked[e]
    /\ Len(sending_buf[e]) + len > SendCapacity
    /\ send_locked' = [send_locked EXCEPT ![e] = TRUE]
    /\ UNCHANGED <<host, sending_buf, left, wrote, window, timing, recvSide, sender,
                   receiver, net>>

\* Mutation of tcp_recv: the unread rest is not moved to the front.
tcp_recv_NoShift(e, len) ==
    LET buf == received_buf[e]
        n   == IF Len(buf) >= len THEN len ELSE Len(buf)
    IN  /\ alive[e] /\ Len(buf) > 0
        /\ consumed' = [consumed EXCEPT ![e] = @ \o SubSeq(buf, 1, n)]
        /\ received_buf' = [received_buf EXCEPT ![e] = SubSeq(buf, 1, Len(buf) - n)]
        /\ UNCHANGED <<host, sendSide, window, timing, expect_seq, allocated, sender,
                       receiver, net>>

\* tcp_recv waits for data and, under recv_lock, copies at most len bytes out.
tcp_recv(e, len) ==
    LET buf == received_buf[e]
        n   == IF Len(buf) >= len THEN len ELSE Len(buf)
    IN  /\ alive[e] /\ Len(buf) > 0
        /\ consumed' = [consumed EXCEPT ![e] = @ \o SubSeq(buf, 1, n)]
        /\ received_buf' = [received_buf EXCEPT ![e] = SubSeq(buf, n + 1, Len(buf))]
        /\ UNCHANGED <<host, sendSide, window, timing, expect_seq, allocated, sender,
                       receiver, net>>

-----------------------------------------------------------------------------
(* The sending thread, tcp_send_stream.                                    *)

\* Under send_lock: copy the whole sending buffer and empty it.
StreamTake(e) ==
    /\ alive[e] /\ spc[e] = "poll"
    /\ Len(sending_buf[e]) > 0 /\ ~send_locked[e]
    /\ sbuf' = [sbuf EXCEPT ![e] = sending_buf[e]]
    /\ sending_buf' = [sending_buf EXCEPT ![e] = <<>>]
    /\ spc' = [spc EXCEPT ![e] = "gbn"]
    /\ UNCHANGED <<host, send_locked, left, wrote, window, timing, recvSide, receiver, net>>

InWindow(e) == nextseq[e] < base[e] + WindowSize

\* send_windows is indexed by the absolute sequence number.
FitsMemory(e) == nextseq[e] + Len(sbuf[e]) <= SendWindowSize

\* Mutation of StreamSend: the copy goes to offset base instead of nextseq.
StreamSend_AtBase(e) ==
    /\ alive[e] /\ spc[e] = "gbn"
    /\ InWindow(e) /\ FitsMemory(e)
    /\ send_windows' = [send_windows EXCEPT ![e] = SubSeq(@, 1, base[e]) \o sbuf[e]]
    /\ net' = net \cup tcp_send_data(e, nextseq[e], sbuf[e])
    /\ spc' = [spc EXCEPT ![e] = IF nextseq[e] = base[e] THEN "start" ELSE "advance"]
    /\ UNCHANGED <<host, sendSide, base, nextseq, timing, recvSide, sbuf, receiver>>

\* Room in the window: keep a copy for retransmission and send.  The thread
\* remembers whether the window was empty when it read base.
StreamSend(e) ==
    /\ alive[e] /\ spc[e] = "gbn"
    /\ InWindow(e) /\ FitsMemory(e)
    /\ send_windows' = [send_windows EXCEPT
                          ![e] = SubSeq(@, 1, nextseq[e]) \o sbuf[e]]
    /\ net' = net \cup tcp_send_data(e, nextseq[e], sbuf[e])
    /\ spc' = [spc EXCEPT ![e] = IF nextseq[e] = base[e] THEN "start" ELSE "advance"]
    /\ UNCHANGED <<host, sendSide, base, nextseq, timing, recvSide, sbuf, receiver>>

\* Nothing bounds the bytes of a connection: the copy runs over the end of the
\* memory behind send_windows.
StreamOverrun(e) ==
    /\ alive[e] /\ spc[e] = "gbn"
    /\ InWindow(e) /\ ~FitsMemory(e)
    /\ alive' = [alive EXCEPT ![e] = FALSE]
    /\ UNCHANGED <<state, sendSide, window, timing, recvSide, sender, receiver, net>>

\* No room in the window: the bytes taken from sending_buf are forgotten.
StreamDrop(e) ==
    /\ alive[e] /\ spc[e] = "gbn"
    /\ ~InWindow(e)
    /\ sbuf' = [sbuf EXCEPT ![e] = <<>>]
    /\ spc' = [spc EXCEPT ![e] = "poll"]
    /\ UNCHANGED <<host, sendSide, window, timing, recvSide, receiver, net>>

\* tcp_start_timer and tcp_stop_timer join the previous timer thread, so they
\* never return once that thread is inside tcp_close.
GivesUp(e) == timer[e] \notin {"off", "armed"}

TimerJoinable(e) == ~GivesUp(e)

tcp_start_timer(e) == /\ TimerJoinable(e)
                      /\ timer' = [timer EXCEPT ![e] = "armed"]

tcp_stop_timer(e) == /\ TimerJoinable(e)
                     /\ timer' = [timer EXCEPT ![e] = "off"]

StreamStart(e) ==
    /\ alive[e] /\ spc[e] = "start"
    /\ tcp_start_timer(e)
    /\ spc' = [spc EXCEPT ![e] = "advance"]
    /\ UNCHANGED <<host, sendSide, window, finished_handshake, timeout_counts,
                   recvSide, sbuf, receiver, net>>

\* Mutation of StreamAdvance: nextseq stays behind the copied bytes.
StreamAdvance_Stays(e) ==
    /\ alive[e] /\ spc[e] = "advance"
    /\ sbuf' = [sbuf EXCEPT ![e] = <<>>]
    /\ spc' = [spc EXCEPT ![e] = "poll"]
    /\ UNCHANGED <<host, sendSide, window, timing, recvSide, receiver, net>>

\* The bytes count as sent only now, after the packet and the timer.
StreamAdvance(e) ==
    /\ alive[e] /\ spc[e] = "advance"
    /\ nextseq' = [nextseq EXCEPT ![e] = @ + Len(sbuf[e])]
    /\ sbuf' = [sbuf EXCEPT ![e] = <<>>]
    /\ spc' = [spc EXCEPT ![e] = "poll"]
    /\ UNCHANGED <<host, sendSide, base, send_windows, timing, recvSide, receiver, net>>

-----------------------------------------------------------------------------
(* The receive thread: onTCPPocket hands a packet without FIN for an       *)
(* established socket to tju_handle_packet.                                *)

onTCPPocket(e, pkt) ==
    /\ alive[e] /\ rpc[e] = "idle"
    /\ pkt.src = Peer(e) /\ pkt.flags \notin {"FIN_ACK", "RUNT"}
    /\ state[e] = "ESTABLISHED"

\* An ACK moves base to its sequence number, whatever that is; the comparison
\* with nextseq decides what happens to the timer next.
HandleAck(e, pkt) ==
    /\ onTCPPocket(e, pkt) /\ pkt.flags = "ACK"
    /\ base' = [base EXCEPT ![e] = pkt.seq]
    /\ rpc' = [rpc EXCEPT ![e] = IF pkt.seq = nextseq[e] THEN "stop" ELSE "start"]
    /\ UNCHANGED <<host, sendSide, nextseq, send_windows, timing, recvSide,
                   sender, rdata, net>>

AckTimer(e) ==
    /\ alive[e]
    /\ \/ rpc[e] = "stop" /\ tcp_stop_timer(e)
       \/ rpc[e] = "start" /\ tcp_start_timer(e)
    /\ rpc' = [rpc EXCEPT ![e] = "idle"]
    /\ UNCHANGED <<host, sendSide, window, finished_handshake, timeout_counts,
                   recvSide, sender, rdata, net>>

\* Mutation of HandleData: the sequence number is not compared.
HandleData_AnySeq(e, pkt) ==
    /\ onTCPPocket(e, pkt) /\ pkt.flags = "NO_FLAG"
    /\ expect_seq' = [expect_seq EXCEPT ![e] = @ + Len(pkt.data)]
    /\ rdata' = [rdata EXCEPT ![e] = pkt.data]
    /\ rpc' = [rpc EXCEPT ![e] = "ack"]
    /\ UNCHANGED <<host, sendSide, window, timing, allocated, received_buf, consumed,
                   sender, net>>

\* The expected packet: its bytes are counted first, ...
HandleData(e, pkt) ==
    /\ onTCPPocket(e, pkt) /\ pkt.flags = "NO_FLAG"
    /\ pkt.seq = expect_seq[e]
    /\ expect_seq' = [expect_seq EXCEPT ![e] = @ + Len(pkt.data)]
    /\ rdata' = [rdata EXCEPT ![e] = pkt.data]
    /\ rpc' = [rpc EXCEPT ![e] = "ack"]
    /\ UNCHANGED <<host, sendSide, window, timing, allocated, received_buf, consumed,
                   sender, net>>

\* ... then acknowledged, ...
SendAck(e) ==
    /\ alive[e] /\ rpc[e] = "ack"
    /\ net' = net \cup tcp_send_ack(e, expect_seq[e])
    /\ rpc' = [rpc EXCEPT ![e] = "store"]
    /\ UNCHANGED <<host, sendSide, window, timing, recvSide, sender, rdata>>

\* ... and only then, under recv_lock, put behind the bytes in received_buf.
Store(e) ==
    /\ alive[e] /\ rpc[e] = "store"
    /\ allocated' = [allocated EXCEPT ![e] = TRUE]
    /\ received_buf' = [received_buf EXCEPT ![e] = @ \o rdata[e]]
    /\ rdata' = [rdata EXCEPT ![e] = <<>>]
    /\ rpc' = [rpc EXCEPT ![e] = "idle"]
    /\ UNCHANGED <<host, sendSide, window, timing, expect_seq, consumed, sender, net>>

\* Mutation of HandleOldData: the early return is missing.
HandleOldData_Stored(e, pkt) ==
    /\ onTCPPocket(e, pkt) /\ pkt.flags = "NO_FLAG"
    /\ pkt.seq < expect_seq[e]
    /\ net' = net \cup tcp_send_ack(e, expect_seq[e])
    /\ rdata' = [rdata EXCEPT ![e] = pkt.data]
    /\ rpc' = [rpc EXCEPT ![e] = "store"]
    /\ UNCHANGED <<host, sendSide, window, timing, recvSide, sender>>

\* A packet that starts before the expected byte is acknowledged and ignored.
HandleOldData(e, pkt) ==
    /\ onTCPPocket(e, pkt) /\ pkt.flags = "NO_FLAG"
    /\ pkt.seq < expect_seq[e]
    /\ net' = net \cup tcp_send_ack(e, expect_seq[e])
    /\ UNCHANGED <<host, sendSide, window, timing, recvSide, sender, receiver>>

\* Mutation of HandleFutureData: the packet is acknowledged though not kept.
HandleFutureData_Acked(e, pkt) ==
    /\ onTCPPocket(e, pkt) /\ pkt.flags = "NO_FLAG"
    /\ pkt.seq > expect_seq[e]
    /\ net' = net \cup tcp_send_ack(e, pkt.seq + Len(pkt.data))
    /\ UNCHANGED <<host, sendSide, window, timing, recvSide, sender, receiver>>

\* A packet beyond the expected byte is dropped without an answer.
HandleFutureData(e, pkt) ==
    /\ onTCPPocket(e, pkt) /\ pkt.flags = "NO_FLAG"
    /\ pkt.seq > expect_seq[e]
    /\ UNCHANGED vars

\* receive_thread peeks at a datagram and takes it only if it is at least as
\* long as a header: it looks at a shorter one for ever.
ReceiveRunt(e, pkt) ==
    /\ alive[e] /\ rpc[e] = "idle"
    /\ pkt.src = Peer(e) /\ pkt.flags = "RUNT"
    /\ rpc' = [rpc EXCEPT ![e] = "stuck"]
    /\ UNCHANGED <<host, sendSide, window, timing, recvSide, sender, rdata, net>>

-----------------------------------------------------------------------------
(* The timer thread runs out: tcp_write_timer_handler, case ESTABLISHED.   *)

TimerExpires(e) == alive[e] /\ timer[e] = "armed" /\ state[e] = "ESTABLISHED"

\* The first timeout of a client repeats the ACK of the handshake, and only it.
TimeoutHandshake(e) ==
    /\ TimerExpires(e) /\ ~finished_handshake[e]
    /\ finished_handshake' = [finished_handshake EXCEPT ![e] = TRUE]
    /\ timer' = [timer EXCEPT ![e] = "off"]
    /\ net' = net \cup tcp_send_ack(e, expect_seq[e])
    /\ UNCHANGED <<host, sendSide, window, timeout_counts, recvSide, sender,
                   receiver>>

\* Too many timeouts: tcp_outlimit_retransmit enters tcp_close, ...
TimeoutClose(e) ==
    /\ TimerExpires(e) /\ finished_handshake[e]
    /\ timeout_counts[e] > RetransmitLimit
    /\ timer' = [timer EXCEPT ![e] = "drop"]
    /\ UNCHANGED <<host, sendSide, window, finished_handshake, timeout_counts,
                   recvSide, sender, receiver, net>>

\* ... which frees and forgets received_buf, and looks again, ...
CloseDrops(e) ==
    /\ alive[e] /\ timer[e] = "drop" /\ allocated[e]
    /\ allocated' = [allocated EXCEPT ![e] = FALSE]
    /\ received_buf' = [received_buf EXCEPT ![e] = <<>>]
    /\ UNCHANGED <<host, sendSide, window, timing, expect_seq, consumed, sender,
                   receiver, net>>

\* ... all this without recv_lock: a store or a tcp_recv that overlaps it
\* accesses freed memory, ...
UseAfterFree(e) ==
    /\ alive[e] /\ timer[e] = "drop"
    /\ rpc[e] = "store" \/ received_buf[e] # <<>>
    /\ alive' = [alive EXCEPT ![e] = FALSE]
    /\ UNCHANGED <<state, sendSide, window, timing, recvSide, sender, receiver, net>>

\* ... leaves ESTABLISHED when it finds no buffer, sends FIN and waits.
CloseFin(e) ==
    /\ alive[e] /\ timer[e] = "drop" /\ ~allocated[e]
    /\ state' = [state EXCEPT ![e] = "FIN_WAIT_1"]
    /\ timer' = [timer EXCEPT ![e] = "closing"]
    /\ net' = net \cup tcp_send_fin_ack(e)
    /\ UNCHANGED <<alive, sendSide, window, finished_handshake, timeout_counts,
                   recvSide, sender, receiver>>

\* tcp_retransmit_timer sends everything from base up to nextseq in one packet.
Outstanding(e) == nextseq[e] - base[e]

Retransmittable(e) == Outstanding(e) >= 0 /\ Outstanding(e) <= MaxLen

\* Mutation of TimeoutRetransmit: the number of timeouts is not limited.
TimeoutRetransmit_NoLimit(e) ==
    /\ TimerExpires(e) /\ finished_handshake[e]
    /\ Retransmittable(e)
    /\ timeout_counts' = [timeout_counts EXCEPT ![e] = @ + 1]
    /\ net' = net \cup tcp_send_data(e, base[e],
                             SubSeq(send_windows[e], base[e] + 1, nextseq[e]))
    /\ UNCHANGED <<host, sendSide, window, timer, finished_handshake, recvSide,
                   sender, receiver>>

TimeoutRetransmit(e) ==
    /\ TimerExpires(e) /\ finished_handshake[e]
    /\ timeout_counts[e] <= RetransmitLimit
    /\ Retransmittable(e)
    /\ timeout_counts' = [timeout_counts EXCEPT ![e] = @ + 1]
    /\ net' = net \cup tcp_send_data(e, base[e],
                             SubSeq(send_windows[e], base[e] + 1, nextseq[e]))
    /\ UNCHANGED <<host, sendSide, window, timer, finished_handshake, recvSide,
                   sender, receiver>>

\* base beyond nextseq, or too much outstanding data: the process exits.
TimeoutExit(e) ==
    /\ TimerExpires(e) /\ finished_handshake[e]
    /\ timeout_counts[e] <= RetransmitLimit
    /\ ~Retransmittable(e)
    /\ timeout_counts' = [timeout_counts EXCEPT ![e] = @ + 1]
    /\ alive' = [alive EXCEPT ![e] = FALSE]
    /\ UNCHANGED <<state, sendSide, window, timer, finished_handshake, recvSide,
                   sender, receiver, net>>

-----------------------------------------------------------------------------

Application(e) ==
    \/ \E len \in 1..MaxWrite : tcp_send(e, len) \/ tcp_send_full(e, len)
    \/ \E len \in 1..MaxRead : tcp_recv(e, len)

SendThread(e) ==
    \/ StreamTake(e)
    \/ StreamSend(e)
    \/ StreamOverrun(e)
    \/ StreamDrop(e)
    \/ StreamStart(e)
    \/ StreamAdvance(e)

ReceiveThread(e) ==
    \/ AckTimer(e)
    \/ SendAck(e)
    \/ Store(e)
    \/ \E pkt \in net : \/ HandleAck(e, pkt)
                        \/ HandleData(e, pkt)
                        \/ HandleOldData(e, pkt)
                        \/ HandleFutureData(e, pkt)
                        \/ ReceiveRunt(e, pkt)

TimerThread(e) ==
    \/ TimeoutHandshake(e)
    \/ TimeoutRetransmit(e)
    \/ TimeoutExit(e)
    \/ TimeoutClose(e)
    \/ CloseDrops(e)
    \/ CloseFin(e)

Next == \E e \in Host : \/ Application(e)
                        \/ SendThread(e)
                        \/ ReceiveThread(e)
                        \/ TimerThread(e)
                        \/ UseAfterFree(e)

Spec == Init /\ [][Next]_vars

-----------------------------------------------------------------------------
(* Properties.                                                             *)

\* Every variable keeps the shape the code gives it; the uint8_t timeout_counts
\* never wraps.
TypeOK ==
    /\ alive \in [Host -> BOOLEAN]
    /\ state \in [Host -> {"ESTABLISHED", "FIN_WAIT_1"}]
    /\ send_locked \in [Host -> BOOLEAN]
    /\ sending_buf \in [Host -> Seq(Nat)]
    /\ left \in [Host -> Nat]
    /\ wrote \in [Host -> Nat]
    /\ base \in [Host -> Nat]
    /\ nextseq \in [Host -> Nat]
    /\ send_windows \in [Host -> Seq(Nat)]
    /\ timer \in [Host -> {"off", "armed", "drop", "closing"}]
    /\ finished_handshake \in [Host -> BOOLEAN]
    /\ timeout_counts \in [Host -> 0..255]
    /\ expect_seq \in [Host -> Nat]
    /\ allocated \in [Host -> BOOLEAN]
    /\ received_buf \in [Host -> Seq(Nat)]
    /\ consumed \in [Host -> Seq(Nat)]
    /\ spc \in [Host -> {"poll", "gbn", "start", "advance"}]
    /\ sbuf \in [Host -> Seq(Nat)]
    /\ rpc \in [Host -> {"idle", "stop", "start", "ack", "store", "stuck"}]
    /\ rdata \in [Host -> Seq(Nat)]
    /\ net \subseteq [src : Host, flags : {"NO_FLAG", "RUNT", "ACK", "FIN_ACK"},
                      seq : Nat, data : Seq(Nat)]

\* What e's application has read or will read next.
Delivered(e) == consumed[e] \o received_buf[e]

\* s is the part of t behind the first n elements of t.
PartOf(s, t, n) == /\ n \in Nat /\ n + Len(s) <= Len(t)
                   /\ \A i \in 1..Len(s) : s[i] = t[n + i]

PrefixOf(s, t) == PartOf(s, t, 0)

\* While a host has not given the connection up, the bytes its
\* tju_handle_packet put into received_buf are, position by position, those the
\* peer's sending thread put into its window: go-back-N over a lossy,
\* duplicating, reordering network neither loses nor repeats nor exchanges a
\* byte that was given a sequence number, whatever the receive thread still has
\* in its hands.
StreamIntegrity ==
    \A e \in Host : ~GivesUp(e) => PrefixOf(Delivered(e), send_windows[Peer(e)])

\* A byte that counts as acknowledged (base has passed it) has been read, waits
\* in the peer's received_buf, or is the data the peer's receive thread is about
\* to store, however late, often or reordered the ACKs arrive; unless the peer
\* gave up.
AckSound ==
    \A e \in Host : ~GivesUp(Peer(e)) =>
        base[e] <= Len(Delivered(Peer(e))) + Len(rdata[Peer(e)])

\* The application reads bytes in the order in which its peer wrote them, and
\* none twice, even when tcp_close drops the buffer under the receive thread.
\* (Some may be missing: see NoByteMissing.)
DeliveredInOrder ==
    \A e \in Host : \A i, j \in 1..Len(Delivered(e)) :
        i < j => Delivered(e)[i] < Delivered(e)[j]

CarriesWindow(pkt) ==
    /\ pkt.seq + Len(pkt.data) <= Len(send_windows[pkt.src])
    /\ \A i \in 1..Len(pkt.data) :
           pkt.data[i] = send_windows[pkt.src][pkt.seq + i]

\* Every data packet that was ever sent, first transmission or retransmission
\* of whatever range, carries at each sequence number the byte that has this
\* number: two packets never disagree about a byte.
PacketsAgree == \A pkt \in net : pkt.flags = "NO_FLAG" => CarriesWindow(pkt)

(* The strengthening that makes the properties above inductive.            *)

Sorted(s) == \A i, j \in 1..Len(s) : i < j => s[i] < s[j]

Below(s, t) == \A i \in 1..Len(s) : \A j \in 1..Len(t) : s[i] < t[j]

UpTo(s, n) == \A i \in 1..Len(s) : s[i] <= n

\* nextseq is behind the copied bytes only between StreamSend and
\* StreamAdvance.
WindowAt(e) ==
    /\ spc[e] \in {"start", "advance"} =>
           Len(send_windows[e]) = nextseq[e] + Len(sbuf[e])
    /\ spc[e] \in {"poll", "gbn"} => Len(send_windows[e]) = nextseq[e]

WindowInv == \A e \in Host : WindowAt(e)

\* base, the ACKs under way, the receiver and the sending window are in order.
AckInv ==
    /\ \A pkt \in net : pkt.flags = "ACK" => pkt.seq <= expect_seq[pkt.src]
    /\ \A e \in Host : /\ base[e] <= expect_seq[Peer(e)]
                       /\ expect_seq[e] <= Len(send_windows[Peer(e)])

\* The sequence number of the first byte that is not yet stored, and of the
\* first that is not yet read (or dropped by tcp_close).
Stored(e) == expect_seq[e] - Len(rdata[e])
Passed(e) == Stored(e) - Len(received_buf[e])

\* The bytes in the receive thread's hands and those in received_buf are the
\* last ones that were numbered.
HeldAt(e) ==
    /\ rpc[e] \notin {"ack", "store"} => rdata[e] = <<>>
    /\ PartOf(rdata[e], send_windows[Peer(e)], Stored(e))
    /\ PartOf(received_buf[e], send_windows[Peer(e)], Passed(e))

HeldInv == \A e \in Host : HeldAt(e)

\* What was read came in order from the part of the stream before Passed, and is
\* all of that part unless tcp_close dropped some of it.
ReadAt(e) ==
    /\ Sorted(consumed[e])
    /\ \A i \in 1..Len(consumed[e]) : \E k \in 1..Passed(e) :
           consumed[e][i] = send_windows[Peer(e)][k]
    /\ ~GivesUp(e) => /\ Len(consumed[e]) = Passed(e)
                      /\ PrefixOf(consumed[e], send_windows[Peer(e)])

ReadInv == \A e \in Host : ReadAt(e)

\* Bytes the sending thread took out of sending_buf and did not number yet.
Taken(e) == IF spc[e] = "gbn" THEN sbuf[e] ELSE <<>>

\* The bytes of the sending side are in the order of the writes.
OrderAt(e) ==
    /\ Sorted(send_windows[e]) /\ Sorted(Taken(e)) /\ Sorted(sending_buf[e])
    /\ Below(send_windows[e], Taken(e))
    /\ Below(send_windows[e], sending_buf[e])
    /\ Below(Taken(e), sending_buf[e])
    /\ UpTo(send_windows[e], wrote[e])
    /\ UpTo(Taken(e), wrote[e])
    /\ UpTo(sending_buf[e], wrote[e])

OrderInv == \A e \in Host : OrderAt(e)

\* The inductive invariant of data transfer: an application byte moves from
\* sending_buf to the thread's buffer to the window and from there to the
\* peer, and every number (base, ACK, expect_seq, nextseq) trails the next.
IndInv ==
    /\ TypeOK
    /\ WindowInv
    /\ PacketsAgree
    /\ AckInv
    /\ HeldInv
    /\ ReadInv
    /\ OrderInv

BS == INSTANCE ByteStream WITH sent <- send_windows, read <- consumed,
                               passed <- [e \in Host |-> Passed(e)],
                               abandoned <- {e \in Host : GivesUp(e)}

\* Data transfer implements the reliable byte stream: what the sending thread
\* put into the window is what the peer reads, in order and exactly once, and
\* only the host whose retransmission limit is reached may skip bytes.
ImplementsByteStream == BS!Spec

-----------------------------------------------------------------------------
(* Claims of the documentation that the code does not meet.                *)

\* "TCP can guarantee that messages are not redundant, not missing and not out
\* of order" (docs/final.md): what is read is exactly what was written.
NoByteMissing ==
    \A e \in Host : \A i \in 1..Len(consumed[e]) : consumed[e][i] = i

\* "the sending thread ... wraps [data] in a header, hands it to the layer below and
\* starts the timer" (docs/design.md): while a host that had no
\* timeout so far has unacknowledged data, and neither its sending nor its
\* receive thread is in the middle of a step, its timer runs.
OutstandingIsTimed ==
    \A e \in Host :
        (/\ alive[e] /\ spc[e] = "poll" /\ rpc[e] = "idle"
         /\ base[e] < nextseq[e] /\ ~finished_handshake[e])
            => timer[e] # "off"
=============================================================================
