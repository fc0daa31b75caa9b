----------------------------- MODULE Handshake -----------------------------
(***************************************************************************)
(* Connection establishment of TrivialTCP, from tcp_listen and tcp_connect *)
(* to the first byte of data: the three-way handshake, its timers, the     *)
(* registration of the accepted socket, and what the two receive threads   *)
(* do with packets that arrive early, late or twice.                       *)
(*                                                                         *)
(* One listener and one client.  The client's application writes one byte  *)
(* after tcp_connect returned; Transmit takes over from there.  A timer is *)
(* one thread at a time (two threads that start a timer at once are not    *)
(* modelled), but a thread that stops a timer really waits in pthread_join *)
(* for it, while its callback may replace it by a new one.                 *)
(***************************************************************************)
EXTENDS Integers

CONSTANTS
    HeaderLen,       \* HEADER_LEN
    MaxLen,          \* MAX_LEN, the most tcp_retransmit_timer sends
    RetransmitLimit, \* RETRANSMIT_LIMIT
    InitSeq,         \* what malloc may leave in expect_seq and nextseq
    InitCounts,      \* what malloc may leave in timeout_counts
    InitFinished,    \* what malloc may leave in finished_handshake of conn_sock
    InitIsServer,    \* what malloc may leave in tcp_manager->is_server
    Losable,         \* flags of the packets the network may lose
    Repeatable,      \* flags of the packets it may deliver twice
    MaxLoss,         \* bound: packets lost
    MaxDup           \* bound: packets delivered a second time

Host == {"client", "server"}
Flags == {"SYN", "SYN_ACK", "ACK", "NO_FLAG"}

ASSUME HandshakeAssumption ==
    /\ HeaderLen \in Nat \ {0} /\ MaxLen \in Nat /\ RetransmitLimit \in 0..254
    /\ InitSeq \subseteq Nat /\ InitCounts \subseteq 0..255
    /\ InitFinished \subseteq BOOLEAN /\ InitIsServer \subseteq BOOLEAN
    /\ Losable \subseteq Flags /\ Repeatable \subseteq Flags
    /\ MaxLoss \in Nat /\ MaxDup \in Nat

VARIABLES
    alive,              \* FALSE once the process is gone
    app,                \* how far tcp_connect, or tcp_listen and tcp_accept, got
    state,              \* sock->state; of conn_sock once tcp_accept set it
    is_server,          \* tcp_manager->is_server of the server's host
    listen_state,       \* the listener's entry for this client
    accept_queue,       \* size of the listener's accept_queue
    timer,              \* the timer thread: "off", "armed", "closing", or
                        \* "SYN_SENT" after its callback read this state
    interrupt_signal,
    finished_handshake,
    timeout_counts,
    base, nextseq,      \* wnd_send
    expect_seq,         \* wnd_recv
    received,           \* received_len
    rpc,                \* where the receive thread is
    spc,                \* where the client's sending thread is
    net,                \* packets under way
    losses, dups

conn    == <<app, state, is_server, listen_state, accept_queue>>
timing  == <<timer, interrupt_signal, finished_handshake, timeout_counts>>
window  == <<base, nextseq, expect_seq, received>>
network == <<net, losses, dups>>
vars    == <<alive, conn, timing, window, rpc, spc, network>>

Peer(e) == IF e = "client" THEN "server" ELSE "client"

Packet(to, flags, seq, len) ==
    [to |-> to, flags |-> flags, seq |-> seq, len |-> len]

\* rpc: idle, or in tcp_stop_timer waiting for the timer thread ("stop") or for
\* the thread that replaced it ("join"), or past it ("go") with the rest of the
\* handler still to do.
Idle == [at |-> "idle", then |-> "none", seq |-> 0]

Init ==
    /\ alive = [e \in Host |-> TRUE]
    /\ app = [e \in Host |-> "start"]
    /\ state = [e \in Host |-> "CLOSED"]
    /\ is_server \in InitIsServer
    /\ listen_state = "CLOSED"
    /\ accept_queue = 0
    /\ timer = [e \in Host |-> "off"]
    /\ interrupt_signal = [e \in Host |-> FALSE]
    /\ finished_handshake \in [Host -> InitFinished \cup {FALSE}]
    /\ finished_handshake["client"] = FALSE \* tcp_connect will clear it
    /\ finished_handshake["server"] \in InitFinished
    /\ timeout_counts \in [Host -> InitCounts]
    /\ base = [e \in Host |-> 0]      \* written before it is ever read
    /\ nextseq \in [Host -> InitSeq]
    /\ expect_seq \in [Host -> InitSeq]
    /\ received = [e \in Host |-> 0]
    /\ rpc = [e \in Host |-> Idle]
    /\ spc = "idle"
    /\ net = {} /\ losses = 0 /\ dups = 0

-----------------------------------------------------------------------------
(* The applications' calls.                                                *)

tcp_listen ==
    /\ app["server"] = "start"
    /\ app' = [app EXCEPT !["server"] = "accept"]
    /\ state' = [state EXCEPT !["server"] = "LISTEN"]
    /\ listen_state' = "LISTEN"
    /\ is_server' = TRUE
    /\ UNCHANGED <<alive, accept_queue, timing, window, rpc, spc, network>>

\* tcp_accept pops a connection and registers conn_sock with the kernel ...
tcp_accept ==
    /\ app["server"] = "accept" /\ accept_queue > 0
    /\ accept_queue' = accept_queue - 1
    /\ state' = [state EXCEPT !["server"] = "ESTABLISHED"]
    /\ app' = [app EXCEPT !["server"] = "register"]
    /\ UNCHANGED <<alive, is_server, listen_state, timing, window, rpc, spc, network>>

ResetWindow(e) ==
    /\ expect_seq' = [expect_seq EXCEPT ![e] = 0]
    /\ base' = [base EXCEPT ![e] = 0]
    /\ nextseq' = [nextseq EXCEPT ![e] = 0]
    /\ UNCHANGED received

\* ... and only then sets its sequence numbers and returns.
AcceptReturns ==
    /\ app["server"] = "register"
    /\ ResetWindow("server")
    /\ app' = [app EXCEPT !["server"] = "up"]
    /\ UNCHANGED <<alive, state, is_server, listen_state, accept_queue, timing,
                   rpc, spc, network>>

\* tcp_connect: SYN_SENT, the timer, the SYN ...
tcp_connect ==
    /\ app["client"] = "start"
    /\ app' = [app EXCEPT !["client"] = "connect"]
    /\ state' = [state EXCEPT !["client"] = "SYN_SENT"]
    /\ finished_handshake' = [finished_handshake EXCEPT !["client"] = FALSE]
    /\ timer' = [timer EXCEPT !["client"] = "armed"]
    /\ interrupt_signal' = [interrupt_signal EXCEPT !["client"] = FALSE]
    /\ net' = net \cup {Packet("server", "SYN", 0, 0)}
    /\ UNCHANGED <<alive, is_server, listen_state, accept_queue, timeout_counts,
                   window, rpc, spc, losses, dups>>

\* ... and the busy wait for ESTABLISHED.
ConnectReturns ==
    /\ app["client"] = "connect"
    /\ state["client"] = "ESTABLISHED"
    /\ ResetWindow("client")
    /\ app' = [app EXCEPT !["client"] = "up"]
    /\ UNCHANGED <<alive, state, is_server, listen_state, accept_queue, timing,
                   rpc, spc, network>>

\* The client writes one byte; tcp_send_stream sends it ...
StreamSend ==
    /\ app["client"] = "up"
    /\ app' = [app EXCEPT !["client"] = "wrote"]
    /\ net' = net \cup {Packet("server", "NO_FLAG", nextseq["client"], 1)}
    /\ IF nextseq["client"] = base["client"]
       THEN spc' = "start" /\ UNCHANGED nextseq
       ELSE nextseq' = [nextseq EXCEPT !["client"] = @ + 1] /\ UNCHANGED spc
    /\ UNCHANGED <<alive, state, is_server, listen_state, accept_queue, timing,
                   base, expect_seq, received, rpc, losses, dups>>

\* ... starts the timer, after stopping one that still runs, and counts the
\* byte as sent.  (Transmit has the ACK that overtakes this step.)
StreamStop ==
    /\ spc = "start" /\ timer["client"] # "off"
    /\ ~interrupt_signal["client"]
    /\ interrupt_signal' = [interrupt_signal EXCEPT !["client"] = TRUE]
    /\ UNCHANGED <<alive, conn, timer, finished_handshake, timeout_counts, window,
                   rpc, spc, network>>

StreamStart ==
    /\ spc = "start" /\ timer["client"] = "off"
    /\ timer' = [timer EXCEPT !["client"] = "armed"]
    /\ interrupt_signal' = [interrupt_signal EXCEPT !["client"] = FALSE]
    /\ nextseq' = [nextseq EXCEPT !["client"] = @ + 1]
    /\ spc' = "idle"
    /\ UNCHANGED <<alive, conn, finished_handshake, timeout_counts, base,
                   expect_seq, received, rpc, network>>

-----------------------------------------------------------------------------
(* The timer threads.                                                      *)

\* tcp_stop_timer by the receive thread of e: raise the signal, then join the
\* timer thread; what the handler still has to do is remembered.
StopThen(e, then, seq) ==
    /\ interrupt_signal' = [interrupt_signal EXCEPT ![e] = TRUE]
    /\ rpc' = [rpc EXCEPT ![e] = [at |-> IF timer[e] = "off" THEN "go" ELSE "stop",
                                  then |-> then, seq |-> seq]]

\* A timer thread ends, and with it a pthread_join for it.
Ends(e) == rpc' = [rpc EXCEPT ![e].at = IF @ \in {"stop", "join"} THEN "go" ELSE @]

\* The thread sees the signal in time ...
TimerInterrupted(e) ==
    /\ timer[e] = "armed" /\ interrupt_signal[e]
    /\ timer' = [timer EXCEPT ![e] = "off"]
    /\ Ends(e)
    /\ UNCHANGED <<alive, conn, interrupt_signal, finished_handshake,
                   timeout_counts, window, spc, network>>

\* ... or its time runs out, signal or not: the callback reads sock->state.  In
\* SYN_SENT the state may change before the callback acts on it.
TimerExpires(e) ==
    /\ timer[e] = "armed" /\ state[e] = "SYN_SENT"
    /\ timer' = [timer EXCEPT ![e] = "SYN_SENT"]
    /\ UNCHANGED <<alive, conn, interrupt_signal, finished_handshake,
                   timeout_counts, window, rpc, spc, network>>

\* The callback starts its successor.  A stop at the same time may raise the
\* signal just before or just after tcp_start_timer clears it, and may read
\* timer_thread, to join it, just before or just after it is replaced.
Rearm(e) ==
    /\ timer' = [timer EXCEPT ![e] = "armed"]
    /\ \E raised \in IF rpc[e].at \in {"stop", "join"} THEN BOOLEAN ELSE {FALSE} :
           interrupt_signal' = [interrupt_signal EXCEPT ![e] = raised]
    /\ \/ Ends(e)
       \/ rpc[e].at = "stop" /\ rpc' = [rpc EXCEPT ![e].at = "join"]

\* Mutation of TimeoutSynSent: the timer is not started again.
TimeoutSynSent_Once(e) ==
    /\ timer[e] = "SYN_SENT"
    /\ timer' = [timer EXCEPT ![e] = "off"]
    /\ Ends(e)
    /\ UNCHANGED <<alive, conn, interrupt_signal, finished_handshake,
                   timeout_counts, window, spc, network>>

\* SYN_SENT: once more the SYN, numbered by tcp_send_syn with expect_seq.
TimeoutSynSent(e) ==
    /\ timer[e] = "SYN_SENT"
    /\ Rearm(e)
    /\ net' = net \cup {Packet(Peer(e), "SYN", expect_seq[e], 0)}
    /\ UNCHANGED <<alive, conn, finished_handshake, timeout_counts, window, spc,
                   losses, dups>>

\* The listener's own state is LISTEN: the default branch does nothing.
TimeoutListen(e) ==
    /\ timer[e] = "armed" /\ state[e] = "LISTEN"
    /\ timer' = [timer EXCEPT ![e] = "off"]
    /\ Ends(e)
    /\ UNCHANGED <<alive, conn, interrupt_signal, finished_handshake,
                   timeout_counts, window, spc, network>>

TimerFires(e) == timer[e] = "armed" /\ state[e] = "ESTABLISHED"

\* Mutation of TimeoutHandshake: no ACK is sent.
TimeoutHandshake_Silent(e) ==
    /\ TimerFires(e) /\ ~finished_handshake[e]
    /\ finished_handshake' = [finished_handshake EXCEPT ![e] = TRUE]
    /\ timer' = [timer EXCEPT ![e] = "off"]
    /\ Ends(e)
    /\ UNCHANGED <<alive, conn, interrupt_signal, timeout_counts, window, spc, network>>

\* ESTABLISHED, for the first time: the ACK of the handshake is repeated.
TimeoutHandshake(e) ==
    /\ TimerFires(e) /\ ~finished_handshake[e]
    /\ finished_handshake' = [finished_handshake EXCEPT ![e] = TRUE]
    /\ timer' = [timer EXCEPT ![e] = "off"]
    /\ net' = net \cup {Packet(Peer(e), "ACK", expect_seq[e], 0)}
    /\ Ends(e)
    /\ UNCHANGED <<alive, conn, interrupt_signal, timeout_counts, window, spc,
                   losses, dups>>

\* Too many timeouts: the connection is closed, which is not followed further.
TimeoutClose(e) ==
    /\ TimerFires(e) /\ finished_handshake[e]
    /\ timeout_counts[e] > RetransmitLimit
    /\ timer' = [timer EXCEPT ![e] = "closing"]
    /\ state' = [state EXCEPT ![e] = "FIN_WAIT_1"]
    /\ UNCHANGED <<alive, app, is_server, listen_state, accept_queue,
                   interrupt_signal, finished_handshake, timeout_counts, window,
                   rpc, spc, network>>

\* tcp_retransmit_timer accepts what lies between base and nextseq.
Retransmittable(e) == base[e] <= nextseq[e] /\ nextseq[e] - base[e] <= MaxLen

\* Mutation of TimeoutRetransmit: the sign of len is not tested.
TimeoutRetransmit_AnyLen(e) ==
    /\ TimerFires(e) /\ finished_handshake[e]
    /\ timeout_counts[e] <= RetransmitLimit
    /\ timeout_counts' = [timeout_counts EXCEPT ![e] = @ + 1]
    /\ Rearm(e)
    /\ net' = net \cup {Packet(Peer(e), "NO_FLAG", base[e], nextseq[e] - base[e])}
    /\ UNCHANGED <<alive, conn, finished_handshake, window, spc, losses, dups>>

\* Later timeouts send everything from base to nextseq again.
TimeoutRetransmit(e) ==
    /\ TimerFires(e) /\ finished_handshake[e]
    /\ timeout_counts[e] <= RetransmitLimit
    /\ timeout_counts' = [timeout_counts EXCEPT ![e] = @ + 1]
    /\ Retransmittable(e)
    /\ Rearm(e)
    /\ net' = net \cup {Packet(Peer(e), "NO_FLAG", base[e], nextseq[e] - base[e])}
    /\ UNCHANGED <<alive, conn, finished_handshake, window, spc, losses, dups>>

\* base beyond nextseq, or too much outstanding data: the process exits.
TimeoutExit(e) ==
    /\ TimerFires(e) /\ finished_handshake[e]
    /\ timeout_counts[e] <= RetransmitLimit
    /\ timeout_counts' = [timeout_counts EXCEPT ![e] = @ + 1]
    /\ ~Retransmittable(e)
    /\ alive' = [alive EXCEPT ![e] = FALSE]
    /\ UNCHANGED <<conn, timer, interrupt_signal, finished_handshake, window, rpc,
                   spc, network>>

-----------------------------------------------------------------------------
(* The receive threads.                                                    *)

\* The receive thread of e takes pkt, answering with out.
Take(e, pkt, out) ==
    /\ rpc[e].at = "idle" /\ pkt \in net /\ pkt.to = e
    /\ UNCHANGED losses
    /\ \/ net' = (net \ {pkt}) \cup out /\ UNCHANGED dups
       \/ /\ pkt.flags \in Repeatable /\ dups < MaxDup
          /\ net' = net \cup out /\ dups' = dups + 1

Lose(pkt) ==
    /\ pkt \in net /\ pkt.flags \in Losable /\ losses < MaxLoss
    /\ net' = net \ {pkt} /\ losses' = losses + 1
    /\ UNCHANGED <<alive, conn, timing, window, rpc, spc, dups>>

\* onTCPPocket on a host that neither listens nor connects: it takes itself for
\* a client and reads connect_sock->state through a null pointer, unless malloc
\* left is_server non-zero.
NoSocket(pkt) ==
    /\ app["server"] = "start"
    /\ Take("server", pkt, {})
    /\ alive' = [alive EXCEPT !["server"] = is_server]
    /\ UNCHANGED <<conn, timing, window, rpc, spc>>

\* onTCPPocket hands a packet to tju_handle_packet only for these sockets.
Established(e) ==
    /\ state[e] = "ESTABLISHED"
    /\ e = "server" => app[e] \in {"register", "up"}

Listening(e) == e = "server" /\ app[e] = "accept"

\* Mutation of ListenSyn: a SYN that comes again starts over.
ListenSyn_Again(pkt) ==
    /\ Listening("server")
    /\ pkt.flags = "SYN"
    /\ Take("server", pkt,
            {Packet("client", "SYN_ACK", pkt.seq + HeaderLen, 0)})
    /\ listen_state' = "SYN_RECV"
    /\ expect_seq' = [expect_seq EXCEPT !["server"] = pkt.seq + pkt.len]
    /\ timer' = [timer EXCEPT !["server"] = "armed"]
    /\ interrupt_signal' = [interrupt_signal EXCEPT !["server"] = FALSE]
    /\ UNCHANGED <<alive, app, state, is_server, accept_queue, finished_handshake,
                   timeout_counts, base, nextseq, received, rpc, spc>>

\* tcp_rcv_state_server, LISTEN: answer the SYN.
ListenSyn(pkt) ==
    /\ Listening("server") /\ listen_state = "LISTEN"
    /\ pkt.flags = "SYN"
    /\ Take("server", pkt,
            {Packet("client", "SYN_ACK", pkt.seq + HeaderLen, 0)})
    /\ listen_state' = "SYN_RECV"
    /\ expect_seq' = [expect_seq EXCEPT !["server"] = pkt.seq + pkt.len]
    /\ timer' = [timer EXCEPT !["server"] = "armed"]
    /\ interrupt_signal' = [interrupt_signal EXCEPT !["server"] = FALSE]
    /\ UNCHANGED <<alive, app, state, is_server, accept_queue, finished_handshake,
                   timeout_counts, base, nextseq, received, rpc, spc>>

\* Mutation of ListenAck: any packet completes the handshake.
ListenAck_Any(pkt) ==
    /\ Listening("server") /\ listen_state = "SYN_RECV"
    /\ Take("server", pkt, {})
    /\ StopThen("server", "queue", pkt.seq + pkt.len)
    /\ UNCHANGED <<alive, conn, timer, finished_handshake, timeout_counts, window, spc>>

\* tcp_rcv_state_server, SYN_RECV: an ACK, whatever its number, completes the
\* handshake as soon as the timer is stopped.
ListenAck(pkt) ==
    /\ Listening("server") /\ listen_state = "SYN_RECV"
    /\ pkt.flags = "ACK"
    /\ Take("server", pkt, {})
    /\ StopThen("server", "queue", pkt.seq + pkt.len)
    /\ UNCHANGED <<alive, conn, timer, finished_handshake, timeout_counts, window, spc>>

ListenQueue ==
    /\ rpc["server"].at = "go" /\ rpc["server"].then = "queue"
    /\ listen_state' = "ESTABLISHED"
    /\ expect_seq' = [expect_seq EXCEPT !["server"] = rpc["server"].seq]
    /\ accept_queue' = accept_queue + 1
    /\ rpc' = [rpc EXCEPT !["server"] = Idle]
    /\ UNCHANGED <<alive, app, state, is_server, timing, base, nextseq, received,
                   spc, network>>

\* Everything else that reaches the listener is ignored.
ListenIgnore(pkt) ==
    /\ Listening("server")
    /\ ~(listen_state = "LISTEN" /\ pkt.flags = "SYN")
    /\ ~(listen_state = "SYN_RECV" /\ pkt.flags = "ACK")
    /\ Take("server", pkt, {})
    /\ UNCHANGED <<alive, conn, timing, window, rpc, spc>>

\* tcp_rcv_state_client: a SYN|ACK in SYN_SENT stops the timer ...
ConnectSynAck(pkt) ==
    /\ state["client"] = "SYN_SENT" /\ pkt.flags = "SYN_ACK"
    /\ Take("client", pkt, {})
    /\ StopThen("client", "answer", pkt.seq)
    /\ UNCHANGED <<alive, conn, timer, finished_handshake, timeout_counts, window, spc>>

\* ... is answered ...
ConnectAnswer ==
    /\ rpc["client"].at = "go" /\ rpc["client"].then = "answer"
    /\ expect_seq' = [expect_seq EXCEPT !["client"] = rpc["client"].seq]
    /\ net' = net \cup {Packet("server", "ACK", rpc["client"].seq + 1, 0)}
    /\ rpc' = [rpc EXCEPT !["client"].then = "establish"]
    /\ UNCHANGED <<alive, conn, timing, base, nextseq, received, spc, losses, dups>>

\* ... and establishes the connection. (Any other packet would be ignored, but a
\* server sends nothing but SYN|ACK to a client that is still in SYN_SENT.)
ConnectEstablish ==
    /\ rpc["client"].at = "go" /\ rpc["client"].then = "establish"
    /\ state' = [state EXCEPT !["client"] = "ESTABLISHED"]
    /\ rpc' = [rpc EXCEPT !["client"] = Idle]
    /\ UNCHANGED <<alive, app, is_server, listen_state, accept_queue, timing,
                   window, spc, network>>

\* tju_handle_packet, an ACK: base, then the timer.
HandleAck(e, pkt) ==
    /\ Established(e) /\ pkt.flags = "ACK"
    /\ Take(e, pkt, {})
    /\ base' = [base EXCEPT ![e] = pkt.seq]
    /\ StopThen(e, IF pkt.seq = nextseq[e] THEN "stop" ELSE "start", pkt.seq)
    /\ UNCHANGED <<alive, conn, timer, finished_handshake, timeout_counts,
                   nextseq, expect_seq, received, spc>>

AckTimer(e) ==
    /\ rpc[e].at = "go" /\ rpc[e].then \in {"stop", "start"}
    /\ IF rpc[e].then = "start"
       THEN /\ timer' = [timer EXCEPT ![e] = "armed"]
            /\ interrupt_signal' = [interrupt_signal EXCEPT ![e] = FALSE]
       ELSE UNCHANGED <<timer, interrupt_signal>>
    /\ rpc' = [rpc EXCEPT ![e] = Idle]
    /\ UNCHANGED <<alive, conn, finished_handshake, timeout_counts, window, spc,
                   network>>

\* tju_handle_packet, anything else, a late SYN or SYN|ACK included, is data.
HandleData(e, pkt) ==
    LET expected == expect_seq[e] + pkt.len
    IN  /\ Established(e) /\ pkt.flags # "ACK" /\ pkt.seq = expect_seq[e]
        /\ Take(e, pkt, {Packet(Peer(e), "ACK", expected, 0)})
        /\ expect_seq' = [expect_seq EXCEPT ![e] = expected]
        /\ received' = [received EXCEPT ![e] = @ + pkt.len]
        /\ UNCHANGED <<alive, conn, timing, base, nextseq, rpc, spc>>

HandleOldData(e, pkt) ==
    /\ Established(e) /\ pkt.flags # "ACK" /\ pkt.seq < expect_seq[e]
    /\ Take(e, pkt, {Packet(Peer(e), "ACK", expect_seq[e], 0)})
    /\ UNCHANGED <<alive, conn, timing, window, rpc, spc>>

HandleFutureData(e, pkt) ==
    /\ Established(e) /\ pkt.flags # "ACK" /\ pkt.seq > expect_seq[e]
    /\ Take(e, pkt, {})
    /\ UNCHANGED <<alive, conn, timing, window, rpc, spc>>

-----------------------------------------------------------------------------

ServerCalls == tcp_listen \/ tcp_accept \/ AcceptReturns

SendThread == StreamStop \/ StreamStart

TimerThread(e) ==
    \/ TimerInterrupted(e)
    \/ TimerExpires(e)
    \/ TimeoutSynSent(e)
    \/ TimeoutListen(e)
    \/ TimeoutHandshake(e)
    \/ TimeoutClose(e)
    \/ TimeoutRetransmit(e)
    \/ TimeoutExit(e)

ReceivePacket(pkt) ==
    \/ NoSocket(pkt)
    \/ ListenSyn(pkt)
    \/ ListenAck(pkt)
    \/ ListenIgnore(pkt)
    \/ ConnectSynAck(pkt)
    \/ \E e \in Host : \/ HandleAck(e, pkt)
                       \/ HandleData(e, pkt)
                       \/ HandleOldData(e, pkt)
                       \/ HandleFutureData(e, pkt)

\* What a receive thread does between two packets.
ReceiveThread ==
    \/ ListenQueue
    \/ ConnectAnswer
    \/ ConnectEstablish
    \/ \E e \in Host : AckTimer(e)

Step ==
    \/ ServerCalls
    \/ tcp_connect
    \/ ConnectReturns
    \/ StreamSend
    \/ SendThread
    \/ ReceiveThread
    \/ \E e \in Host : TimerThread(e)
    \/ \E pkt \in net : ReceivePacket(pkt) \/ Lose(pkt)

\* The run ends with the first process that ends: what its peer sees from then
\* on is silence, no different from lost packets.
Running == \A e \in Host : alive[e]

Next == Running /\ Step

Spec == Init /\ [][Next]_vars

\* Every thread is scheduled, time passes, and a packet that is not lost is
\* delivered.  Nothing forces the applications to connect or to write.
Fairness ==
    /\ WF_vars(Running /\ ServerCalls) /\ WF_vars(Running /\ ConnectReturns)
    /\ WF_vars(Running /\ SendThread) /\ WF_vars(Running /\ ReceiveThread)
    /\ \A e \in Host : WF_vars(Running /\ TimerThread(e))
    /\ \A e \in Host, f \in Flags :
           WF_vars(Running /\ \E pkt \in net : /\ pkt.to = e /\ pkt.flags = f
                                               /\ ReceivePacket(pkt))

FairSpec == Spec /\ Fairness

-----------------------------------------------------------------------------
(* Properties.                                                             *)

TypeOK ==
    /\ alive \in [Host -> BOOLEAN]
    /\ app \in [Host -> {"start", "connect", "accept", "register", "up", "wrote"}]
    /\ state \in [Host -> {"CLOSED", "LISTEN", "SYN_SENT", "ESTABLISHED",
                           "FIN_WAIT_1"}]
    /\ is_server \in BOOLEAN
    /\ listen_state \in {"CLOSED", "LISTEN", "SYN_RECV", "ESTABLISHED"}
    /\ accept_queue \in Nat
    /\ timer \in [Host -> {"off", "armed", "closing", "SYN_SENT"}]
    /\ interrupt_signal \in [Host -> BOOLEAN]
    /\ finished_handshake \in [Host -> BOOLEAN]
    /\ timeout_counts \in [Host -> 0..255]
    /\ base \in [Host -> Nat] /\ nextseq \in [Host -> Nat]
    /\ expect_seq \in [Host -> Nat] /\ received \in [Host -> Nat]
    /\ rpc \in [Host -> [at : {"idle", "stop", "join", "go"}, seq : Nat,
                         then : {"none", "answer", "establish", "queue",
                                 "stop", "start"}]]
    /\ spc \in {"idle", "start"}
    /\ net \subseteq [to : Host, flags : Flags, seq : Nat, len : Nat]
    /\ losses \in 0..MaxLoss /\ dups \in 0..MaxDup

Accepted == app["server"] \in {"register", "up"}

\* A client enters the accept queue at most once, and is accepted at most once,
\* however often its SYN and its ACK are repeated by timers or the network.
OneConnection == accept_queue + (IF Accepted THEN 1 ELSE 0) <= 1

\* The two ends agree about the handshake: a client that is established was
\* answered by the listener, and a connection that tcp_accept may return was
\* answered by the client ("the socket returned here has certainly completed
\* the three-way handshake", src/api.c).
HandshakeAgreement ==
    /\ state["client"] = "ESTABLISHED" => listen_state \in {"SYN_RECV", "ESTABLISHED"}
    /\ listen_state = "ESTABLISHED" =>
           \/ state["client"] \in {"ESTABLISHED", "FIN_WAIT_1"}
           \/ rpc["client"].then = "establish"

\* What tcp_connect waits for happens: a lost SYN is repeated, and the receive
\* thread is never stuck in joining a timer thread that replaces itself.
ConnectCompletes ==
    state["client"] = "SYN_SENT" ~>
        (state["client"] = "ESTABLISHED" \/ ~alive["server"])

\* Once the client writes, tcp_accept returns: the data's timer repeats a lost
\* ACK of the handshake.
AcceptCompletes ==
    app["client"] = "wrote" ~> (app["server"] = "up" \/ ~alive["server"])

-----------------------------------------------------------------------------
(* Claims of comments and documentation that the code does not meet.       *)

\* "once this function returns the user can send and receive on this socket at
\* once" (src/api.c): the first byte written after tcp_connect arrives, unless
\* the connection breaks.
FirstByteArrives ==
    app["client"] = "wrote" ~>
        \/ received["server"] > 0
        \/ \E e \in Host : ~alive[e] \/ state[e] = "FIN_WAIT_1"

=============================================================================
