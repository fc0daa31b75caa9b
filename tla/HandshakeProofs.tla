--------------------------- MODULE HandshakeProofs ---------------------------
(***************************************************************************)
(* Proofs about Handshake: types, and the two safety properties of the     *)
(* three-way handshake, for every retransmission limit, every content of   *)
(* uninitialized memory, and any number of lost and repeated packets.      *)
(*                                                                         *)
(* HandshakeInv says what a packet under way, or a handler that waits for  *)
(* a timer thread, is evidence of: a SYN|ACK, and a client that goes on    *)
(* with one, of a listener that answered; an ACK to the server, and a      *)
(* listener that goes on with one, of a client that answered.  Evidence    *)
(* never becomes false, so what is done with a late packet is still right. *)
(***************************************************************************)
EXTENDS Handshake, TLAPS

\* The listener has sent a SYN|ACK; the client has answered it with an ACK.
Listened == listen_state \in {"SYN_RECV", "ESTABLISHED"}
Answered ==
    \/ state["client"] \in {"ESTABLISHED", "FIN_WAIT_1"}
    \/ rpc["client"].then = "establish"

\* A receive thread that is between two packets has nothing left to do.
RestInv == \A e \in Host : rpc[e].at = "idle" => rpc[e].then = "none"

\* Before its application called anything a host has done nothing.
StartInv ==
    /\ app["server"] = "start" <=> listen_state = "CLOSED"
    /\ app["client"] = "start" => state["client"] = "CLOSED" /\ rpc["client"] = Idle

\* accept_queue and tcp_accept hold the connection exactly when the listener's
\* entry says so; while ListenQueue is to come, it does not say so yet.
QueueInv ==
    /\ accept_queue + (IF Accepted THEN 1 ELSE 0)
         = (IF listen_state = "ESTABLISHED" THEN 1 ELSE 0)
    /\ rpc["server"].then = "queue" => listen_state = "SYN_RECV"

\* What packets and handlers are evidence of.
ListenedInv ==
    /\ \A pkt \in net : pkt.to = "client" /\ pkt.flags = "SYN_ACK" => Listened
    /\ rpc["client"].then \in {"answer", "establish"} => Listened
    /\ state["client"] = "ESTABLISHED" => Listened

AnsweredInv ==
    /\ \A pkt \in net : pkt.to = "server" /\ pkt.flags = "ACK" => Answered
    /\ rpc["server"].then = "queue" => Answered
    /\ listen_state = "ESTABLISHED" => Answered

HandshakeInv ==
    TypeOK /\ RestInv /\ StartInv /\ QueueInv /\ ListenedInv /\ AnsweredInv
-----------------------------------------------------------------------------
Packets == [to : Host, flags : Flags, seq : Nat, len : Nat]
Handlers == [at : {"idle", "stop", "join", "go"}, seq : Nat,
             then : {"none", "answer", "establish", "queue", "stop", "start"}]

\* One step takes a packet from the network or adds some to it.
LEMMA TakeFacts ==
    ASSUME TypeOK, NEW e \in Host, NEW pkt \in net, NEW out \in SUBSET Packets,
           Take(e, pkt, out)
    PROVE  /\ pkt \in Packets /\ pkt.to = e /\ rpc[e].at = "idle"
           /\ net' \subseteq net \cup out /\ net' \subseteq Packets
           /\ losses' \in 0..MaxLoss /\ dups' \in 0..MaxDup
  BY HandshakeAssumption DEF Take, TypeOK, Packets

\* tcp_stop_timer leaves the receive thread in a handler, and Rearm and Ends never
\* change what it has to do.
LEMMA StopFacts ==
    ASSUME TypeOK, NEW e \in Host, NEW then \in {"answer", "queue", "stop", "start"},
           NEW seq \in Nat, StopThen(e, then, seq)
    PROVE  /\ rpc' \in [Host -> Handlers] /\ interrupt_signal' \in [Host -> BOOLEAN]
           /\ rpc'[e].at # "idle" /\ rpc'[e].then = then
           /\ \A x \in Host : x # e => rpc'[x] = rpc[x]
  BY DEF StopThen, TypeOK, Handlers

LEMMA EndsFacts ==
    ASSUME TypeOK, NEW e \in Host,
           Ends(e) \/ (rpc[e].at = "stop" /\ rpc' = [rpc EXCEPT ![e].at = "join"])
    PROVE  /\ rpc' \in [Host -> Handlers]
           /\ \A x \in Host : /\ rpc'[x].then = rpc[x].then
                              /\ rpc'[x].at = "idle" <=> rpc[x].at = "idle"
                              /\ rpc[x].at = "idle" => rpc'[x] = rpc[x]
  <1>1. CASE Ends(e)
    BY <1>1 DEF Ends, TypeOK, Handlers
  <1>2. CASE rpc[e].at = "stop" /\ rpc' = [rpc EXCEPT ![e].at = "join"]
    BY <1>2 DEF TypeOK, Handlers
  <1> QED
    BY <1>1, <1>2

LEMMA RearmFacts ==
    ASSUME TypeOK, NEW e \in Host, Rearm(e)
    PROVE  /\ timer' \in [Host -> {"off", "armed", "closing", "SYN_SENT"}]
           /\ interrupt_signal' \in [Host -> BOOLEAN]
           /\ Ends(e) \/ (rpc[e].at = "stop" /\ rpc' = [rpc EXCEPT ![e].at = "join"])
  <1>1. PICK raised \in BOOLEAN :
            interrupt_signal' = [interrupt_signal EXCEPT ![e] = raised]
    BY DEF Rearm
  <1>2. interrupt_signal' \in [Host -> BOOLEAN]
    BY <1>1 DEF TypeOK
  <1> QED
    BY <1>2 DEF Rearm, TypeOK
-----------------------------------------------------------------------------
LEMMA TypeStep ==
    ASSUME TypeOK, Step PROVE TypeOK'
  <1> USE DEF TypeOK, Packets, Handlers, conn, timing, window, network
  <1>0. /\ "client" \in Host /\ "server" \in Host
        /\ Flags = {"SYN", "SYN_ACK", "ACK", "NO_FLAG"}
    BY DEF Host, Flags
  <1>00. \A e \in Host : Peer(e) \in Host
    BY DEF Host, Peer
  <1>1. ASSUME tcp_listen PROVE TypeOK'
    BY <1>1, <1>0 DEF tcp_listen
  <1>2. ASSUME tcp_accept PROVE TypeOK'
    BY <1>2, <1>0 DEF tcp_accept
  <1>3. ASSUME AcceptReturns PROVE TypeOK'
    BY <1>3, <1>0 DEF AcceptReturns, ResetWindow
  <1>4. ASSUME tcp_connect PROVE TypeOK'
    <2>1. Packet("server", "SYN", 0, 0) \in Packets
      BY <1>0 DEF Packet
    <2> QED
      BY <1>4, <1>0, <2>1 DEF tcp_connect
  <1>5. ASSUME ConnectReturns PROVE TypeOK'
    BY <1>5, <1>0 DEF ConnectReturns, ResetWindow
  <1>6. ASSUME StreamSend PROVE TypeOK'
    <2>1. Packet("server", "NO_FLAG", nextseq["client"], 1) \in Packets
      BY <1>0 DEF Packet
    <2> QED
      BY <1>6, <1>0, <2>1 DEF StreamSend
  <1>7. ASSUME StreamStop PROVE TypeOK'
    BY <1>7, <1>0 DEF StreamStop
  <1>8. ASSUME StreamStart PROVE TypeOK'
    BY <1>8, <1>0 DEF StreamStart
  <1>9. ASSUME ListenQueue PROVE TypeOK'
    BY <1>9, <1>0 DEF ListenQueue, Idle
  <1>10. ASSUME ConnectAnswer PROVE TypeOK'
    <2>1. Packet("server", "ACK", rpc["client"].seq + 1, 0) \in Packets
      BY <1>0 DEF Packet
    <2>2. expect_seq' \in [Host -> Nat]
      BY <1>10, <1>0 DEF ConnectAnswer
    <2>3. rpc' \in [Host -> Handlers]
      BY <1>10, <1>0 DEF ConnectAnswer
    <2> QED
      BY <1>10, <2>1, <2>2, <2>3 DEF ConnectAnswer
  <1>11. ASSUME ConnectEstablish PROVE TypeOK'
    BY <1>11, <1>0 DEF ConnectEstablish, Idle
  <1>12. ASSUME NEW e \in Host, AckTimer(e) PROVE TypeOK'
    BY <1>12 DEF AckTimer, Idle
  <1>13. ASSUME NEW e \in Host, TimerThread(e) PROVE TypeOK'
    <2>1. ASSUME TimerInterrupted(e) PROVE TypeOK'
      BY <2>1, EndsFacts DEF TimerInterrupted
    <2>2. ASSUME TimerExpires(e) PROVE TypeOK'
      BY <2>2 DEF TimerExpires
    <2>3. ASSUME TimeoutSynSent(e) PROVE TypeOK'
      <3>1. Packet(Peer(e), "SYN", expect_seq[e], 0) \in Packets
        BY <1>0, <1>00 DEF Packet
      <3> QED
        BY <2>3, <3>1, RearmFacts, EndsFacts DEF TimeoutSynSent
    <2>4. ASSUME TimeoutListen(e) PROVE TypeOK'
      BY <2>4, EndsFacts DEF TimeoutListen
    <2>5. ASSUME TimeoutHandshake(e) PROVE TypeOK'
      <3>1. Packet(Peer(e), "ACK", expect_seq[e], 0) \in Packets
        BY <1>0, <1>00 DEF Packet
      <3> QED
        BY <2>5, <3>1, EndsFacts DEF TimeoutHandshake
    <2>6. ASSUME TimeoutClose(e) PROVE TypeOK'
      BY <2>6 DEF TimeoutClose
    <2>7. ASSUME TimeoutRetransmit(e) PROVE TypeOK'
      <3>1. nextseq[e] - base[e] \in Nat
        BY <2>7 DEF TimeoutRetransmit, Retransmittable
      <3>2. Packet(Peer(e), "NO_FLAG", base[e], nextseq[e] - base[e]) \in Packets
        BY <1>0, <1>00, <3>1 DEF Packet
      <3>30. timeout_counts[e] + 1 \in 0..255
        <4>1. timeout_counts[e] <= RetransmitLimit /\ RetransmitLimit \in 0..254
          BY <2>7, HandshakeAssumption DEF TimeoutRetransmit
        <4>2. timeout_counts[e] \in 0..255
          OBVIOUS
        <4> QED
          BY ONLY <4>1, <4>2
      <3>3. timeout_counts' \in [Host -> 0..255]
        BY <2>7, <3>30 DEF TimeoutRetransmit
      <3> QED
        BY <2>7, <3>2, <3>3, RearmFacts, EndsFacts DEF TimeoutRetransmit
    <2>8. ASSUME TimeoutExit(e) PROVE TypeOK'
      <3>01. timeout_counts[e] <= RetransmitLimit /\ RetransmitLimit \in 0..254
        BY <2>8, HandshakeAssumption DEF TimeoutExit
      <3>02. timeout_counts[e] \in 0..255
        OBVIOUS
      <3>0. timeout_counts[e] + 1 \in 0..255
        BY <3>01, <3>02
      <3>1. timeout_counts' \in [Host -> 0..255]
        BY <2>8, <3>0 DEF TimeoutExit
      <3> QED
        BY <2>8, <3>1 DEF TimeoutExit
    <2> QED
      BY <1>13, <2>1, <2>2, <2>3, <2>4, <2>5, <2>6, <2>7, <2>8 DEF TimerThread
  <1>14. ASSUME NEW pkt \in net, NoSocket(pkt) PROVE TypeOK'
    BY <1>14, <1>0, TakeFacts DEF NoSocket
  <1>15. ASSUME NEW pkt \in net, ListenSyn(pkt) PROVE TypeOK'
    <2>1. pkt.seq + HeaderLen \in Nat /\ pkt.seq + pkt.len \in Nat
      BY HandshakeAssumption
    <2>2. Packet("client", "SYN_ACK", pkt.seq + HeaderLen, 0) \in Packets
      BY <1>0, <2>1 DEF Packet
    <2>3. /\ net' \subseteq Packets
          /\ losses' \in 0..MaxLoss /\ dups' \in 0..MaxDup
      BY <1>15, <1>0, <2>2, TakeFacts DEF ListenSyn
    <2> QED
      BY <1>15, <1>0, <2>1, <2>3 DEF ListenSyn
  <1>16. ASSUME NEW pkt \in net, ListenAck(pkt) PROVE TypeOK'
    <2>1. pkt.seq + pkt.len \in Nat
      OBVIOUS
    <2>2. /\ rpc' \in [Host -> Handlers] /\ interrupt_signal' \in [Host -> BOOLEAN]
      BY <1>16, <1>0, <2>1, StopFacts DEF ListenAck
    <2> QED
      BY <1>16, <1>0, <2>2, TakeFacts DEF ListenAck
  <1>17. ASSUME NEW pkt \in net, ListenIgnore(pkt) PROVE TypeOK'
    BY <1>17, <1>0, TakeFacts DEF ListenIgnore
  <1>18. ASSUME NEW pkt \in net, ConnectSynAck(pkt) PROVE TypeOK'
    <2>1. pkt.seq \in Nat
      OBVIOUS
    <2> QED
      BY <1>18, <1>0, <2>1, TakeFacts, StopFacts DEF ConnectSynAck
  <1>19. ASSUME NEW pkt \in net, NEW e \in Host, HandleAck(e, pkt) PROVE TypeOK'
    <2>1. pkt.seq \in Nat
      OBVIOUS
    <2>2. /\ rpc' \in [Host -> Handlers] /\ interrupt_signal' \in [Host -> BOOLEAN]
      BY <1>19, <2>1, StopFacts DEF HandleAck
    <2> QED
      BY <1>19, <2>1, <2>2, TakeFacts DEF HandleAck
  <1>20. ASSUME NEW pkt \in net, NEW e \in Host, HandleData(e, pkt) PROVE TypeOK'
    <2>1. pkt.len \in Nat /\ expect_seq[e] + pkt.len \in Nat
      OBVIOUS
    <2>2. Packet(Peer(e), "ACK", expect_seq[e] + pkt.len, 0) \in Packets
      BY <1>0, <1>00, <2>1 DEF Packet
    <2>3. /\ net' \subseteq Packets
          /\ losses' \in 0..MaxLoss /\ dups' \in 0..MaxDup
      BY <1>20, <2>2, TakeFacts DEF HandleData
    <2> QED
      BY <1>20, <2>1, <2>3 DEF HandleData
  <1>21. ASSUME NEW pkt \in net, NEW e \in Host, HandleOldData(e, pkt) PROVE TypeOK'
    <2>1. Packet(Peer(e), "ACK", expect_seq[e], 0) \in Packets
      BY <1>0, <1>00 DEF Packet
    <2>2. /\ net' \subseteq Packets
          /\ losses' \in 0..MaxLoss /\ dups' \in 0..MaxDup
      BY <1>21, <2>1, TakeFacts DEF HandleOldData
    <2> QED
      BY <1>21, <2>2 DEF HandleOldData
  <1>22. ASSUME NEW pkt \in net, NEW e \in Host, HandleFutureData(e, pkt) PROVE TypeOK'
    BY <1>22, TakeFacts DEF HandleFutureData
  <1>23. ASSUME NEW pkt \in net, Lose(pkt) PROVE TypeOK'
    BY <1>23, HandshakeAssumption DEF Lose
  <1> QED
    BY <1>1, <1>2, <1>3, <1>4, <1>5, <1>6, <1>7, <1>8, <1>9, <1>10, <1>11, <1>12, <1>13,
       <1>14, <1>15, <1>16, <1>17, <1>18, <1>19, <1>20, <1>21, <1>22, <1>23
    DEF Step, ServerCalls, SendThread, ReceiveThread, ReceivePacket

-----------------------------------------------------------------------------
LEMMA InitHolds == Init => HandshakeInv
  <1> SUFFICES ASSUME Init PROVE HandshakeInv
    OBVIOUS
  <1>1. TypeOK
    <2>1. /\ finished_handshake \in [Host -> BOOLEAN] /\ timeout_counts \in [Host -> 0..255]
          /\ is_server \in BOOLEAN
          /\ nextseq \in [Host -> Nat] /\ expect_seq \in [Host -> Nat]
      BY HandshakeAssumption DEF Init
    <2>2. /\ base \in [Host -> Nat] /\ received \in [Host -> Nat]
          /\ rpc \in [Host -> [at : {"idle", "stop", "join", "go"}, seq : Nat,
                               then : {"none", "answer", "establish", "queue",
                                       "stop", "start"}]]
      BY DEF Init, Idle
    <2>3. losses \in 0..MaxLoss /\ dups \in 0..MaxDup
      BY HandshakeAssumption DEF Init
    <2> QED
      BY <2>1, <2>2, <2>3 DEF Init, TypeOK
  <1>2. RestInv /\ StartInv /\ QueueInv /\ ListenedInv /\ AnsweredInv
    BY DEF Init, RestInv, StartInv, QueueInv, ListenedInv, AnsweredInv, Listened,
           Answered, Accepted, Idle, Host
  <1> QED
    BY <1>1, <1>2 DEF HandshakeInv

\* A packet that is evidence of nothing, or of what is so.
Harmless(p) ==
    \/ p.flags \in {"SYN", "NO_FLAG"}
    \/ p.flags = "ACK" /\ (p.to = "client" \/ Answered)

\* A step that leaves the progress of the hosts as it is, and sends only what does
\* not mislead, keeps the invariant.
LEMMA QuietStep ==
    ASSUME HandshakeInv, TypeOK',
           UNCHANGED <<app, state, listen_state, accept_queue>>,
           \A e \in Host : /\ rpc'[e].then = rpc[e].then
                           /\ rpc'[e].at = "idle" <=> rpc[e].at = "idle"
                           /\ rpc[e].at = "idle" => rpc'[e] = rpc[e],
           \A p \in net' : p \in net \/ Harmless(p)
    PROVE  HandshakeInv'
  <1>1. /\ Listened' = Listened /\ Answered' = Answered /\ Accepted' = Accepted
    BY DEF Listened, Answered, Accepted, Host
  <1>2. RestInv'
    BY DEF HandshakeInv, RestInv
  <1>3. StartInv'
    BY DEF HandshakeInv, StartInv, Host, Idle
  <1>4. QueueInv'
    BY <1>1 DEF HandshakeInv, QueueInv, Host
  <1>5. ListenedInv'
    BY <1>1 DEF HandshakeInv, ListenedInv, Host, Harmless
  <1>6. AnsweredInv'
    BY <1>1 DEF HandshakeInv, AnsweredInv, Host, Harmless
  <1> QED
    BY <1>2, <1>3, <1>4, <1>5, <1>6 DEF HandshakeInv

\* An answer to whoever is the peer of an established socket does not mislead.
LEMMA AckHarmless ==
    ASSUME HandshakeInv, NEW e \in Host, state[e] = "ESTABLISHED", NEW seq \in Nat
    PROVE  Harmless(Packet(Peer(e), "ACK", seq, 0))
  BY DEF Harmless, Packet, Peer, Host, Answered

LEMMA QuietActions ==
    ASSUME HandshakeInv, TypeOK',
           \/ StreamStop \/ StreamStart
           \/ \E e \in Host :
                 \/ TimerInterrupted(e) \/ TimerExpires(e) \/ TimeoutSynSent(e)
                 \/ TimeoutListen(e) \/ TimeoutHandshake(e) \/ TimeoutRetransmit(e)
                 \/ TimeoutExit(e)
           \/ \E pkt \in net :
                 \/ NoSocket(pkt) \/ ListenIgnore(pkt) \/ Lose(pkt)
                 \/ \E e \in Host : \/ HandleData(e, pkt) \/ HandleOldData(e, pkt)
                                    \/ HandleFutureData(e, pkt)
    PROVE  HandshakeInv'
  <1> USE DEF conn, timing, window, network
  <1>0. TypeOK
    BY DEF HandshakeInv
  <1>1. CASE StreamStop \/ StreamStart
    BY <1>1, QuietStep DEF StreamStop, StreamStart
  <1>2. ASSUME NEW e \in Host, TimerInterrupted(e) \/ TimeoutListen(e) PROVE HandshakeInv'
    BY <1>0, <1>2, EndsFacts, QuietStep DEF TimerInterrupted, TimeoutListen
  <1>3. ASSUME NEW e \in Host, TimerExpires(e) \/ TimeoutExit(e) PROVE HandshakeInv'
    BY <1>3, QuietStep DEF TimerExpires, TimeoutExit
  <1>4. ASSUME NEW e \in Host, TimeoutSynSent(e) PROVE HandshakeInv'
    <2>1. Harmless(Packet(Peer(e), "SYN", expect_seq[e], 0))
      BY DEF Harmless, Packet
    <2> QED
      BY <1>0, <1>4, <2>1, RearmFacts, EndsFacts, QuietStep DEF TimeoutSynSent
  <1>5. ASSUME NEW e \in Host, TimeoutHandshake(e) PROVE HandshakeInv'
    <2>1. expect_seq[e] \in Nat
      BY <1>0 DEF TypeOK
    <2>2. Harmless(Packet(Peer(e), "ACK", expect_seq[e], 0))
      BY <1>5, <2>1, AckHarmless DEF TimeoutHandshake, TimerFires
    <2> QED
      BY <1>0, <1>5, <2>2, EndsFacts, QuietStep DEF TimeoutHandshake
  <1>6. ASSUME NEW e \in Host, TimeoutRetransmit(e) PROVE HandshakeInv'
    <2>1. Harmless(Packet(Peer(e), "NO_FLAG", base[e], nextseq[e] - base[e]))
      BY DEF Harmless, Packet
    <2> QED
      BY <1>0, <1>6, <2>1, RearmFacts, EndsFacts, QuietStep DEF TimeoutRetransmit
  <1>7. ASSUME NEW pkt \in net, NoSocket(pkt) \/ ListenIgnore(pkt) PROVE HandshakeInv'
    BY <1>7, QuietStep DEF NoSocket, ListenIgnore, Take
  <1>8. ASSUME NEW pkt \in net, Lose(pkt) PROVE HandshakeInv'
    BY <1>8, QuietStep DEF Lose
  <1>9. ASSUME NEW pkt \in net, NEW e \in Host, HandleData(e, pkt) PROVE HandshakeInv'
    <2>1. expect_seq[e] + pkt.len \in Nat
      BY <1>0 DEF TypeOK
    <2>2. Harmless(Packet(Peer(e), "ACK", expect_seq[e] + pkt.len, 0))
      BY <1>9, <2>1, AckHarmless DEF HandleData, Established
    <2> QED
      BY <1>9, <2>2, QuietStep DEF HandleData, Take
  <1>10. ASSUME NEW pkt \in net, NEW e \in Host, HandleOldData(e, pkt) PROVE HandshakeInv'
    <2>1. expect_seq[e] \in Nat
      BY <1>0 DEF TypeOK
    <2>2. Harmless(Packet(Peer(e), "ACK", expect_seq[e], 0))
      BY <1>10, <2>1, AckHarmless DEF HandleOldData, Established
    <2> QED
      BY <1>10, <2>2, QuietStep DEF HandleOldData, Take
  <1>11. ASSUME NEW pkt \in net, NEW e \in Host, HandleFutureData(e, pkt)
         PROVE  HandshakeInv'
    BY <1>11, QuietStep DEF HandleFutureData, Take
  <1> QED
    BY <1>1, <1>2, <1>3, <1>4, <1>5, <1>6, <1>7, <1>8, <1>9, <1>10, <1>11

\* The calls of the applications and the steps of the sending thread that count.
LEMMA CallSteps ==
    ASSUME HandshakeInv, TypeOK',
           \/ tcp_listen \/ tcp_accept \/ AcceptReturns
           \/ tcp_connect \/ ConnectReturns \/ StreamSend
    PROVE  HandshakeInv'
  <1> USE DEF conn, timing, window, network, Host
  <1>0. TypeOK /\ RestInv /\ StartInv /\ QueueInv /\ ListenedInv /\ AnsweredInv
    BY DEF HandshakeInv
  <1>1. CASE tcp_listen
    <2>1. listen_state = "CLOSED" /\ rpc["server"].then # "queue" /\ ~Accepted /\ ~Listened
      BY <1>0, <1>1 DEF tcp_listen, StartInv, QueueInv, Accepted, Listened
    <2>2. Answered' = Answered /\ ~Accepted'
      BY <1>0, <1>1 DEF tcp_listen, Answered, Accepted, TypeOK
    <2>3. RestInv' /\ StartInv' /\ QueueInv'
      BY <1>0, <1>1, <2>1, <2>2 DEF tcp_listen, TypeOK, RestInv, StartInv, QueueInv
    <2>4. ListenedInv' /\ AnsweredInv'
      BY <1>0, <1>1, <2>1, <2>2 DEF tcp_listen, TypeOK, ListenedInv, AnsweredInv
    <2> QED
      BY <2>3, <2>4 DEF HandshakeInv
  <1>2. CASE tcp_accept
    <2>1. Answered' = Answered /\ Listened' = Listened /\ ~Accepted /\ Accepted'
      BY <1>0, <1>2 DEF tcp_accept, Answered, Listened, Accepted, TypeOK
    <2>2. RestInv' /\ StartInv'
      BY <1>0, <1>2 DEF tcp_accept, TypeOK, RestInv, StartInv
    <2>3. QueueInv'
      BY <1>0, <1>2, <2>1 DEF tcp_accept, TypeOK, QueueInv
    <2>4. ListenedInv' /\ AnsweredInv'
      BY <1>0, <1>2, <2>1 DEF tcp_accept, TypeOK, ListenedInv, AnsweredInv
    <2> QED
      BY <2>2, <2>3, <2>4 DEF HandshakeInv
  <1>3. CASE AcceptReturns
    <2>1. Answered' = Answered /\ Listened' = Listened /\ Accepted /\ Accepted'
      BY <1>0, <1>3 DEF AcceptReturns, Answered, Listened, Accepted, TypeOK
    <2>2. RestInv' /\ StartInv'
      BY <1>0, <1>3 DEF AcceptReturns, TypeOK, RestInv, StartInv
    <2>3. QueueInv'
      BY <1>0, <1>3, <2>1 DEF AcceptReturns, QueueInv
    <2>4. ListenedInv' /\ AnsweredInv'
      BY <1>0, <1>3, <2>1 DEF AcceptReturns, ListenedInv, AnsweredInv
    <2> QED
      BY <2>2, <2>3, <2>4 DEF HandshakeInv
  <1>4. CASE tcp_connect
    <2>1. ~Answered /\ ~Answered' /\ Listened' = Listened /\ Accepted' = Accepted
      BY <1>0, <1>4
      DEF tcp_connect, StartInv, Idle, Answered, Listened, Accepted, TypeOK
    <2>2. \A p \in net' : p \in net \/ p.flags = "SYN"
      BY <1>4 DEF tcp_connect, Packet
    <2>3. RestInv' /\ StartInv'
      BY <1>0, <1>4 DEF tcp_connect, TypeOK, RestInv, StartInv
    <2>4. QueueInv'
      BY <1>0, <1>4, <2>1 DEF tcp_connect, QueueInv
    <2>5. ListenedInv'
      BY <1>0, <1>4, <2>1, <2>2 DEF tcp_connect, TypeOK, ListenedInv
    <2>6. AnsweredInv'
      BY <1>0, <1>4, <2>1, <2>2 DEF tcp_connect, AnsweredInv
    <2> QED
      BY <2>3, <2>4, <2>5, <2>6 DEF HandshakeInv
  <1>5. CASE ConnectReturns \/ StreamSend
    <2>1. /\ Answered' = Answered /\ Listened' = Listened /\ Accepted' = Accepted
          /\ app'["server"] = app["server"] /\ app'["client"] # "start"
      BY <1>0, <1>5 DEF ConnectReturns, StreamSend, Answered, Listened, Accepted, TypeOK
    <2>2. \A p \in net' : p \in net \/ p.flags = "NO_FLAG"
      BY <1>5 DEF ConnectReturns, StreamSend, Packet
    <2>3. UNCHANGED <<state, listen_state, accept_queue, rpc>>
      BY <1>5 DEF ConnectReturns, StreamSend
    <2>4. RestInv' /\ StartInv' /\ QueueInv'
      BY <1>0, <2>1, <2>3 DEF RestInv, StartInv, QueueInv
    <2>5. ListenedInv' /\ AnsweredInv'
      BY <1>0, <2>1, <2>2, <2>3 DEF ListenedInv, AnsweredInv
    <2> QED
      BY <2>4, <2>5 DEF HandshakeInv
  <1> QED
    BY <1>1, <1>2, <1>3, <1>4, <1>5

\* The listener's handlers.
LEMMA ListenSteps ==
    ASSUME HandshakeInv, TypeOK',
           ListenQueue \/ \E pkt \in net : ListenSyn(pkt) \/ ListenAck(pkt)
    PROVE  HandshakeInv'
  <1> USE DEF conn, timing, window, network, Host
  <1>0. TypeOK /\ RestInv /\ StartInv /\ QueueInv /\ ListenedInv /\ AnsweredInv
    BY DEF HandshakeInv
  <1>1. ASSUME NEW pkt \in net, ListenSyn(pkt) PROVE HandshakeInv'
    <2>1. /\ listen_state = "LISTEN" /\ listen_state' = "SYN_RECV" /\ Listened'
          /\ app["server"] # "start" /\ rpc["server"].then # "queue"
      BY <1>0, <1>1 DEF ListenSyn, Listening, QueueInv, Listened
    <2>2. UNCHANGED <<app, state, accept_queue, rpc>> /\ Answered' = Answered
          /\ Accepted' = Accepted
      BY <1>1 DEF ListenSyn, Answered, Accepted
    <2>3. \A p \in net' : p \in net \/ p.flags = "SYN_ACK"
      BY <1>1 DEF ListenSyn, Take, Packet
    <2>4. RestInv' /\ StartInv' /\ QueueInv'
      BY <1>0, <2>1, <2>2 DEF RestInv, StartInv, QueueInv
    <2>5. ListenedInv' /\ AnsweredInv'
      BY <1>0, <2>1, <2>2, <2>3 DEF ListenedInv, AnsweredInv
    <2> QED
      BY <2>4, <2>5 DEF HandshakeInv
  <1>2. ASSUME NEW pkt \in net, ListenAck(pkt) PROVE HandshakeInv'
    <2>1. pkt.seq + pkt.len \in Nat /\ listen_state = "SYN_RECV" /\ Answered
      BY <1>0, <1>2 DEF ListenAck, Take, TypeOK, AnsweredInv
    <2>2. /\ rpc'["server"].at # "idle" /\ rpc'["server"].then = "queue"
          /\ rpc'["client"] = rpc["client"]
      BY <1>0, <1>2, <2>1, StopFacts DEF ListenAck
    <2>3. UNCHANGED <<app, state, listen_state, accept_queue>>
      BY <1>2 DEF ListenAck
    <2>4. Answered' = Answered /\ Listened' = Listened /\ Accepted' = Accepted
      BY <2>2, <2>3 DEF Answered, Listened, Accepted
    <2>5. net' \subseteq net
      BY <1>2 DEF ListenAck, Take
    <2>6. RestInv' /\ StartInv' /\ QueueInv'
      BY <1>0, <2>1, <2>2, <2>3, <2>4 DEF RestInv, StartInv, QueueInv
    <2>7. ListenedInv' /\ AnsweredInv'
      BY <1>0, <2>1, <2>2, <2>3, <2>4, <2>5 DEF ListenedInv, AnsweredInv
    <2> QED
      BY <2>6, <2>7 DEF HandshakeInv
  <1>3. CASE ListenQueue
    <2>1. /\ listen_state = "SYN_RECV" /\ Answered /\ Listened
          /\ accept_queue = 0 /\ ~Accepted
      BY <1>0, <1>3 DEF ListenQueue, QueueInv, AnsweredInv, Listened, TypeOK
    <2>2. /\ listen_state' = "ESTABLISHED" /\ accept_queue' = accept_queue + 1
          /\ UNCHANGED <<app, state, net>>
          /\ rpc'["server"] = Idle /\ rpc'["client"] = rpc["client"]
      BY <1>0, <1>3 DEF ListenQueue, TypeOK
    <2>3. Answered' = Answered /\ Listened' /\ Accepted' = Accepted
      BY <2>2 DEF Answered, Listened, Accepted
    <2>4. RestInv' /\ StartInv' /\ QueueInv'
      BY <1>0, <2>1, <2>2, <2>3 DEF RestInv, StartInv, QueueInv, Idle
    <2>5. ListenedInv' /\ AnsweredInv'
      BY <1>0, <2>1, <2>2, <2>3 DEF ListenedInv, AnsweredInv
    <2> QED
      BY <2>4, <2>5 DEF HandshakeInv
  <1> QED
    BY <1>1, <1>2, <1>3

\* The client's handlers, and what both ends do once they are established.
LEMMA ConnectSteps ==
    ASSUME HandshakeInv, TypeOK',
           ConnectAnswer \/ ConnectEstablish \/ \E pkt \in net : ConnectSynAck(pkt)
    PROVE  HandshakeInv'
  <1> USE DEF conn, timing, window, network, Host
  <1>0. TypeOK /\ RestInv /\ StartInv /\ QueueInv /\ ListenedInv /\ AnsweredInv
    BY DEF HandshakeInv
  <1>1. ASSUME NEW pkt \in net, ConnectSynAck(pkt) PROVE HandshakeInv'
    <2>1. /\ pkt.seq \in Nat /\ Listened /\ rpc["client"].then = "none"
          /\ state["client"] = "SYN_SENT" /\ ~Answered
      BY <1>0, <1>1
      DEF ConnectSynAck, Take, TypeOK, ListenedInv, RestInv, Answered
    <2>2. /\ rpc'["client"].at # "idle" /\ rpc'["client"].then = "answer"
          /\ rpc'["server"] = rpc["server"]
      BY <1>0, <1>1, <2>1, StopFacts DEF ConnectSynAck
    <2>3. UNCHANGED <<app, state, listen_state, accept_queue>> /\ net' \subseteq net
      BY <1>1 DEF ConnectSynAck, Take
    <2>4. Answered' = Answered /\ Listened' = Listened /\ Accepted' = Accepted
      BY <2>1, <2>2, <2>3 DEF Answered, Listened, Accepted
    <2>5. RestInv' /\ StartInv' /\ QueueInv'
      BY <1>0, <2>1, <2>2, <2>3, <2>4 DEF RestInv, StartInv, QueueInv
    <2>6. ListenedInv' /\ AnsweredInv'
      BY <1>0, <2>1, <2>2, <2>3, <2>4 DEF ListenedInv, AnsweredInv
    <2> QED
      BY <2>5, <2>6 DEF HandshakeInv
  <1>2. CASE ConnectAnswer
    <2>1. Listened /\ app["client"] # "start"
      BY <1>0, <1>2 DEF ConnectAnswer, ListenedInv, StartInv, Idle
    <2>2. /\ rpc'["client"].at = "go" /\ rpc'["client"].then = "establish"
          /\ rpc'["server"] = rpc["server"]
      BY <1>0, <1>2 DEF ConnectAnswer, TypeOK
    <2>3. /\ UNCHANGED <<app, state, listen_state, accept_queue>>
          /\ \A p \in net' : p \in net \/ p.flags = "ACK"
      BY <1>2 DEF ConnectAnswer, Packet
    <2>4. Answered' /\ Listened' = Listened /\ Accepted' = Accepted
      BY <2>2, <2>3 DEF Answered, Listened, Accepted
    <2>5. RestInv' /\ StartInv' /\ QueueInv'
      BY <1>0, <2>1, <2>2, <2>3, <2>4 DEF RestInv, StartInv, QueueInv
    <2>6. ListenedInv' /\ AnsweredInv'
      BY <1>0, <2>1, <2>2, <2>3, <2>4 DEF ListenedInv, AnsweredInv
    <2> QED
      BY <2>5, <2>6 DEF HandshakeInv
  <1>3. CASE ConnectEstablish
    <2>1. Listened /\ app["client"] # "start"
      BY <1>0, <1>3 DEF ConnectEstablish, ListenedInv, StartInv, Idle
    <2>2. /\ rpc'["client"] = Idle /\ rpc'["server"] = rpc["server"]
          /\ state'["client"] = "ESTABLISHED"
          /\ UNCHANGED <<app, listen_state, accept_queue, net>>
      BY <1>0, <1>3 DEF ConnectEstablish, TypeOK
    <2>3. Answered' /\ Listened' = Listened /\ Accepted' = Accepted
      BY <2>2 DEF Answered, Listened, Accepted
    <2>4. RestInv' /\ StartInv' /\ QueueInv'
      BY <1>0, <2>1, <2>2, <2>3 DEF RestInv, StartInv, QueueInv, Idle
    <2>5. ListenedInv' /\ AnsweredInv'
      BY <1>0, <2>1, <2>2, <2>3 DEF ListenedInv, AnsweredInv
    <2> QED
      BY <2>4, <2>5 DEF HandshakeInv
  <1> QED
    BY <1>1, <1>2, <1>3

LEMMA EstablishedSteps ==
    ASSUME HandshakeInv, TypeOK', NEW e \in Host,
           \/ AckTimer(e) \/ TimeoutClose(e) \/ \E pkt \in net : HandleAck(e, pkt)
    PROVE  HandshakeInv'
  <1> USE DEF conn, timing, window, network, Host
  <1>0. TypeOK /\ RestInv /\ StartInv /\ QueueInv /\ ListenedInv /\ AnsweredInv
    BY DEF HandshakeInv
  <1>1. CASE AckTimer(e)
    <2>1. /\ rpc[e].then \in {"stop", "start"} /\ rpc'[e] = Idle
          /\ \A x \in Host : x # e => rpc'[x] = rpc[x]
          /\ UNCHANGED <<app, state, listen_state, accept_queue, net>>
      BY <1>0, <1>1 DEF AckTimer, TypeOK
    <2>2. Answered' = Answered /\ Listened' = Listened /\ Accepted' = Accepted
      BY <2>1 DEF Answered, Listened, Accepted, Idle
    <2>3. RestInv' /\ StartInv' /\ QueueInv'
      BY <1>0, <2>1, <2>2 DEF RestInv, StartInv, QueueInv, Idle
    <2>4. ListenedInv' /\ AnsweredInv'
      BY <1>0, <2>1, <2>2 DEF ListenedInv, AnsweredInv, Idle
    <2> QED
      BY <2>3, <2>4 DEF HandshakeInv
  <1>2. CASE TimeoutClose(e)
    <2>1. /\ state[e] = "ESTABLISHED" /\ state'[e] = "FIN_WAIT_1"
          /\ \A x \in Host : x # e => state'[x] = state[x]
          /\ UNCHANGED <<app, rpc, listen_state, accept_queue, net>>
      BY <1>0, <1>2 DEF TimeoutClose, TimerFires, TypeOK
    <2>2. Answered' = Answered /\ Listened' = Listened /\ Accepted' = Accepted
      BY <2>1 DEF Answered, Listened, Accepted
    <2>3. RestInv' /\ StartInv' /\ QueueInv'
      BY <1>0, <2>1, <2>2 DEF RestInv, StartInv, QueueInv
    <2>4. ListenedInv' /\ AnsweredInv'
      BY <1>0, <2>1, <2>2 DEF ListenedInv, AnsweredInv
    <2> QED
      BY <2>3, <2>4 DEF HandshakeInv
  <1>3. ASSUME NEW pkt \in net, HandleAck(e, pkt) PROVE HandshakeInv'
    <2>1. /\ pkt.seq \in Nat /\ rpc[e].then = "none" /\ state[e] = "ESTABLISHED"
          /\ UNCHANGED <<app, state, listen_state, accept_queue>> /\ net' \subseteq net
      BY <1>0, <1>3 DEF HandleAck, Established, Take, TypeOK, RestInv
    <2>2. /\ rpc'[e].at # "idle" /\ rpc'[e].then \in {"stop", "start"}
          /\ \A x \in Host : x # e => rpc'[x] = rpc[x]
      BY <1>0, <1>3, <2>1, StopFacts DEF HandleAck
    <2>3. Answered' = Answered /\ Listened' = Listened /\ Accepted' = Accepted
      BY <2>1, <2>2 DEF Answered, Listened, Accepted
    <2>4. RestInv' /\ StartInv' /\ QueueInv'
      BY <1>0, <2>1, <2>2, <2>3 DEF RestInv, StartInv, QueueInv
    <2>5. ListenedInv' /\ AnsweredInv'
      BY <1>0, <2>1, <2>2, <2>3 DEF ListenedInv, AnsweredInv
    <2> QED
      BY <2>4, <2>5 DEF HandshakeInv
  <1> QED
    BY <1>1, <1>2, <1>3
-----------------------------------------------------------------------------
LEMMA StepHolds == HandshakeInv /\ [Next]_vars => HandshakeInv'
  <1>1. ASSUME HandshakeInv, Step PROVE HandshakeInv'
    <2>1. TypeOK'
      BY <1>1, TypeStep DEF HandshakeInv
    <2> QED
      BY <1>1, <2>1, QuietActions, CallSteps, ListenSteps, ConnectSteps, EstablishedSteps
      DEF Step, ServerCalls, SendThread, ReceiveThread, ReceivePacket, TimerThread
  <1>2. ASSUME HandshakeInv, UNCHANGED vars PROVE HandshakeInv'
    BY <1>2 DEF vars, conn, timing, window, network, HandshakeInv, TypeOK, RestInv,
       StartInv, QueueInv, ListenedInv, AnsweredInv, Listened, Answered, Accepted
  <1> QED
    BY <1>1, <1>2 DEF Next

\* HandshakeInv holds in every reachable state: whatever is lost, repeated or late,
\* packets and waiting handlers of the two receive threads never mislead a host.
THEOREM Invariance == Spec => []HandshakeInv
  BY InitHolds, StepHolds, PTL DEF Spec

\* Every field keeps its type: the length of a retransmission is never negative, as
\* the callback exits before it would send such a packet, and timeout_counts does not wrap.
THEOREM TypeCorrect == Spec => []TypeOK
  <1>1. HandshakeInv => TypeOK
    BY DEF HandshakeInv
  <1> QED
    BY <1>1, Invariance, PTL

\* tcp_rcv_state_server queues a client once, and tcp_accept returns it once.
THEOREM OnceOnly == Spec => []OneConnection
  <1>1. HandshakeInv => OneConnection
    BY DEF HandshakeInv, QueueInv, OneConnection
  <1> QED
    BY <1>1, Invariance, PTL

\* tcp_connect returns only to a client the listener answered, and tcp_accept can
\* return only a connection that the client answered.
THEOREM Agreement == Spec => []HandshakeAgreement
  <1>1. HandshakeInv => HandshakeAgreement
    BY DEF HandshakeInv, ListenedInv, AnsweredInv, Listened, Answered, HandshakeAgreement
  <1> QED
    BY <1>1, Invariance, PTL
=============================================================================
