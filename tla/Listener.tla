------------------------------ MODULE Listener ------------------------------
(***************************************************************************)
(* A listening server and the clients that connect to it: packets as bytes *)
(* that the network may damage, the checksum test and the dispatch of      *)
(* onTCPPocket, tcp_rcv_state_server with its two queues and the single    *)
(* saved_syn, and tcp_accept, which takes sockets out of accept_queue      *)
(* while the receive thread puts them in, without a lock.                  *)
(*                                                                         *)
(* The clients behave as tcp_connect, each with a port of its own: the     *)
(* port is an input of the server, though this repository's tcp_connect    *)
(* always takes 5678.  Timers are left out (module Handshake has them);    *)
(* the SYN they repeat is an action of the clients.                        *)
(***************************************************************************)
EXTENDS Packet, SockQueue, FiniteSets, TLC

CONSTANTS Ports,          \* of the clients; one address each
          ServerPort, ServerIp, ClientIp,
          MAX_SOCK_SIZE,  \* size of the tables of tcp_manager
          Window,         \* TCP_RECV_BUFFER_SIZE
          Noisy,          \* bounds: the clients that write, repeat and whose packets suffer,
          Deltas,         \*         what damage adds to a byte,
          MaxFaults       \*         packets damaged and SYNs sent again, in all

\* kernel.c: the index of a pair of addresses in the tables.
cal_hash(local_ip, local_port, remote_ip, remote_port) ==
    (local_ip + local_port + remote_ip + remote_port) % MAX_SOCK_SIZE
Slot(port) == cal_hash(ServerIp, ServerPort, ClientIp, port)

ASSUME ListenerAssumption ==
    /\ Ports \subseteq 1..USHRT_MAX /\ ServerPort \in (1..USHRT_MAX) \ Ports
    /\ Window \in 0..USHRT_MAX
    /\ \A p, q \in Ports : p # q => Slot(p) # Slot(q)
    /\ Noisy \subseteq Ports /\ Deltas \subseteq 1..255 /\ Garbage \notin Ports
    /\ MAX_QUEUE \in Nat /\ MaxFaults \in Nat

VARIABLES net,           \* the packets under way, as bytes
          client,        \* of each client: "closed", "SYN_SENT", "ESTABLISHED", "wrote"
          listen_state,  \* of the listening socket, one state for each slot
          syn_queue, saved_syn,
          accept_queue,
          push,          \* the receive thread in sockqueue_push: [at, sock, tail, size]
          accept,        \* the application in tcp_accept: [at, size]
          established,   \* the slots of established_queue that are taken
          accepted,      \* what tcp_accept returned, in order
          crashed,       \* a null pointer was followed
          \* history:
          popped,        \* how many nodes accept_queue has lost
          completed,     \* the clients whose ACK was handled, in order
          overlapped,    \* two handshakes were half done at the same time
          raced,         \* a push and a pop of accept_queue disturbed each other
          deceived,      \* a packet with a damaged byte that counts was let through
          hurt, repeats

server == <<listen_state, syn_queue, saved_syn>>
queue == <<accept_queue, push, popped, raced>>
application == <<accept, established, accepted>>
network == <<hurt, repeats, deceived>>
vars == <<net, client, server, queue, application, crashed, completed, overlapped, network>>

Ready == [at |-> "ready", sock |-> Garbage, tail |-> 0, size |-> 0]

\* After tcp_listen, with the application in tcp_accept.
Init ==
    /\ net = {} /\ client = [p \in Ports |-> "closed"]
    /\ listen_state = [s \in {Slot(p) : p \in Ports} |-> "LISTEN"]
    /\ syn_queue = sockqueue_init /\ saved_syn = 0
    /\ accept_queue = sockqueue_init /\ push = Ready
    /\ accept = [at |-> "poll", size |-> 0] /\ established = {} /\ accepted = <<>>
    /\ crashed = FALSE /\ popped = 0 /\ completed = <<>>
    /\ overlapped = FALSE /\ raced = FALSE /\ deceived = FALSE
    /\ hurt = 0 /\ repeats = 0
-----------------------------------------------------------------------------
\* onTCPPocket goes on with a packet if its checksum is right.
Passes(buf) == tcp_check(buf_to_packet(buf))

\* The clients.
Zero == Word(0)
Syn(p) == create_packet_buf(p, ServerPort, Zero, Zero, SYN, Window, <<>>)
tcp_send_syn(p) == create_packet_buf(p, ServerPort, Zero, Zero, SYN, 0, <<>>)
Data(p) == create_packet_buf(p, ServerPort, Zero, Zero, NO_FLAG, Window, <<200, 7>>)
Answer(buf) == create_packet_buf(get_dst(buf), get_src(buf), Plus(get_seq(buf), 1),
                                 Plus(get_seq(buf), 1), ACK, Window, <<>>)

tcp_connect(p) ==
    /\ client[p] = "closed"
    /\ client' = [client EXCEPT ![p] = "SYN_SENT"]
    /\ net' = net \cup {Syn(p)}
    /\ UNCHANGED <<server, queue, application, crashed, completed, overlapped, network>>

tcp_rcv_state_client(p, buf) ==
    /\ client[p] = "SYN_SENT" /\ buf \in net /\ get_dst(buf) = p
    /\ Passes(buf) /\ get_flags(buf) = SYN + ACK
    /\ net' = (net \ {buf}) \cup {Answer(buf)}
    /\ client' = [client EXCEPT ![p] = "ESTABLISHED"]
    /\ UNCHANGED <<server, queue, application, crashed, completed, overlapped, network>>

\* The first segment; and the SYN that the timer of tcp_connect sends again.
ClientWrites(p) ==
    /\ p \in Noisy /\ client[p] = "ESTABLISHED"
    /\ client' = [client EXCEPT ![p] = "wrote"]
    /\ net' = net \cup {Data(p)}
    /\ UNCHANGED <<server, queue, application, crashed, completed, overlapped, network>>

ClientRepeats(p) ==
    /\ p \in Noisy /\ client[p] = "SYN_SENT" /\ hurt + repeats < MaxFaults
    /\ repeats' = repeats + 1
    /\ net' = net \cup {tcp_send_syn(p)}
    /\ UNCHANGED <<client, server, queue, application, crashed, completed, overlapped,
                   hurt, deceived>>

\* The network damages single bytes (hlen and plen, which say how much receive_thread
\* reads, are left alone) and may deliver late or never.  A damaged packet is dropped by
\* onTCPPocket when it arrives, unless its checksum is still right: as it may be, since the
\* upper halves of seq_num and ack_num, bytes 5, 6, 9 and 10, are not summed.
Damage(buf, i, d) ==
    /\ buf \in net /\ hurt + repeats < MaxFaults /\ {get_src(buf), get_dst(buf)} \cap Noisy # {}
    /\ i \in (DOMAIN buf) \ (13..16)
    /\ LET bad == [buf EXCEPT ![i] = (@ + d) % 256] IN
          /\ net' = (net \ {buf}) \cup (IF Passes(bad) THEN {bad} ELSE {})
          /\ deceived' = (deceived \/ (Passes(bad) /\ i \notin {5, 6, 9, 10}))
    /\ hurt' = hurt + 1
    /\ UNCHANGED <<client, server, queue, application, crashed, completed, overlapped, repeats>>
-----------------------------------------------------------------------------
\* onTCPPocket on the server: the packet is dropped if its checksum is wrong, if its slot
\* belongs to an established connection (which then handles it), or if nobody listens.
Reaches(buf) ==
    /\ push.at = "ready" /\ buf \in net /\ get_dst(buf) \notin Ports
ToListener(buf) ==
    /\ Passes(buf) /\ get_dst(buf) = ServerPort
    /\ get_src(buf) \in Ports /\ Slot(get_src(buf)) \notin established

State(buf) == listen_state[Slot(get_src(buf))]

Dropped(buf) ==
    /\ Reaches(buf)
    /\ \/ ~ToListener(buf)
       \/ /\ ToListener(buf)
          /\ \/ State(buf) = "LISTEN" /\ get_flags(buf) # SYN
             \/ State(buf) = "SYN_RECV" /\ get_flags(buf) # ACK
             \/ State(buf) = "ESTABLISHED"
    /\ net' = net \ {buf}
    /\ UNCHANGED <<client, server, queue, application, crashed, completed, overlapped, network>>

\* tcp_rcv_state_server in LISTEN: the half-open socket is queued, its index is kept in
\* the only saved_syn, and the SYN is answered, unless the queue is full.
ListenSyn(buf) ==
    /\ Reaches(buf) /\ ToListener(buf) /\ State(buf) = "LISTEN" /\ get_flags(buf) = SYN
    /\ listen_state' = [listen_state EXCEPT ![Slot(get_src(buf))] = "SYN_RECV"]
    /\ syn_queue' = sockqueue_push(syn_queue, get_src(buf))
    /\ LET index == PushIndex(syn_queue) IN
          /\ saved_syn' = IF index < 0 THEN saved_syn ELSE index
          /\ net' = (net \ {buf}) \cup
                       (IF index < 0 THEN {} ELSE {build_state_pkt(buf, SYN + ACK, Window)})
    /\ overlapped' = (overlapped \/ \E s \in DOMAIN listen_state : listen_state[s] = "SYN_RECV")
    /\ UNCHANGED <<client, queue, application, crashed, completed, network>>

\* In SYN_RECV: the socket at saved_syn, whoever sent the ACK, goes to accept_queue.
\* sockqueue_push tests size and reads base; the node its walk will end at is fixed now.
ListenAck(buf) ==
    /\ Reaches(buf) /\ ToListener(buf) /\ State(buf) = "SYN_RECV" /\ get_flags(buf) = ACK
    /\ listen_state' = [listen_state EXCEPT ![Slot(get_src(buf))] = "ESTABLISHED"]
    /\ syn_queue' = sockqueue_remove(syn_queue, saved_syn)
    /\ crashed' = (crashed \/ RemoveCrashes(syn_queue))
    /\ push' = [at |-> IF accept_queue.size = MAX_QUEUE THEN "ready" ELSE "link",
                sock |-> RemoveTakes(syn_queue, saved_syn),
                tail |-> IF accept_queue.list = <<>> THEN 0 ELSE popped + Len(accept_queue.list),
                size |-> 0]
    /\ completed' = Append(completed, get_src(buf))
    /\ net' = net \ {buf}
    /\ UNCHANGED <<client, saved_syn, accept_queue, popped, raced, application, overlapped,
                   network>>

\* sockqueue_push into accept_queue: the new node is linked behind the last one it found
\* (tail counts the nodes ever linked; 0: there was none; if that one has been freed, the
\* link is lost), then size is increased, which takes a read and a write.
PushLinks(at) ==
    /\ push.at = "link" /\ at = push.tail
    /\ IF at > 0 /\ at <= popped
       THEN raced' = TRUE /\ UNCHANGED accept_queue
       ELSE accept_queue' = [accept_queue EXCEPT !.list = Append(@, push.sock)]
            /\ UNCHANGED raced
    /\ push' = [push EXCEPT !.at = "count"]
    /\ UNCHANGED <<net, client, server, popped, application, crashed, completed, overlapped,
                   network>>

\* On its way to the last node the walk passes the n-th node ever linked.
PushWalksOn(n) == push.at = "link" /\ n < push.tail

PushReads ==
    /\ push.at = "count"
    /\ push' = [push EXCEPT !.at = "store", !.size = accept_queue.size]
    /\ UNCHANGED <<net, client, server, accept_queue, popped, raced, application, crashed,
                   completed, overlapped, network>>

PushCounts ==
    /\ push.at = "store"
    /\ accept_queue' = [accept_queue EXCEPT !.size = push.size + 1]
    /\ raced' = (raced \/ accept_queue.size # push.size)
    /\ push' = Ready
    /\ UNCHANGED <<net, client, server, popped, application, crashed, completed,
                   overlapped, network>>
-----------------------------------------------------------------------------
\* tcp_accept waits until size is not 0, then pops: the first node is unlinked ...
AcceptPolls ==
    /\ accept.at = "poll" /\ ~sockqueue_is_empty(accept_queue)
    /\ accept' = [accept EXCEPT !.at = "pop"]
    /\ UNCHANGED <<net, client, server, queue, established, accepted, crashed, completed,
                   overlapped, network>>

\* ... and freed, perhaps while the walk of sockqueue_push still stands on it ...
AcceptPops ==
    /\ accept.at = "pop"
    /\ raced' \in {raced, raced \/ PushWalksOn(popped + 1)}
    /\ IF accept_queue.list = <<>>
       THEN crashed' = TRUE /\ UNCHANGED <<accepted, accept_queue, popped>>
       ELSE /\ accepted' = Append(accepted, Head(accept_queue.list))
            /\ accept_queue' = [accept_queue EXCEPT !.list = Tail(@)]
            /\ popped' = popped + 1
            /\ UNCHANGED crashed
    /\ accept' = [accept EXCEPT !.at = "count"]
    /\ UNCHANGED <<net, client, server, push, established, completed, overlapped, network>>

\* ... size is decreased, again a read and a write, and the socket is registered in the
\* slot of the address it holds (that of garbage is taken to be no client's).
AcceptReads ==
    /\ accept.at = "count"
    /\ accept' = [at |-> "store", size |-> accept_queue.size]
    /\ UNCHANGED <<net, client, server, queue, established, accepted, crashed, completed,
                   overlapped, network>>

AcceptReturns_Uncounted ==   \* mutation: size is left as it is
    /\ accept.at = "store"
    /\ established' = established \cup {Slot(p) : p \in Ports \cap {Last(accepted)}}
    /\ accept' = [at |-> "poll", size |-> 0]
    /\ UNCHANGED <<net, client, server, queue, accepted, crashed, completed, overlapped, network>>

AcceptReturns ==
    /\ accept.at = "store"
    /\ accept_queue' = [accept_queue EXCEPT !.size = accept.size - 1]
    /\ raced' = (raced \/ accept_queue.size # accept.size)
    /\ established' = established \cup {Slot(p) : p \in Ports \cap {Last(accepted)}}
    /\ accept' = [at |-> "poll", size |-> 0]
    /\ UNCHANGED <<net, client, server, push, popped, accepted, crashed, completed,
                   overlapped, network>>
-----------------------------------------------------------------------------
Clients == \E p \in Ports :
    \/ tcp_connect(p) \/ ClientWrites(p) \/ ClientRepeats(p)
    \/ \E buf \in net : tcp_rcv_state_client(p, buf)

Network == \E buf \in net :
    \E i \in DOMAIN buf, d \in Deltas : Damage(buf, i, d)

ReceiveThread ==
    \/ \E buf \in net : Dropped(buf) \/ ListenSyn(buf) \/ ListenAck(buf)
    \/ \E at \in 0..Cardinality(Ports) : PushLinks(at)
    \/ PushReads
    \/ PushCounts

Accept == AcceptPolls \/ AcceptPops \/ AcceptReads \/ AcceptReturns

Next == ~crashed /\ (Clients \/ Network \/ ReceiveThread \/ Accept)

Spec == Init /\ [][Next]_vars
-----------------------------------------------------------------------------
Sockets == Ports \cup {Garbage}

(* The counters stay within MAX_QUEUE, the queues hold sockets, and what is under
   way are bytes. *)
TypeOK ==
    /\ \A p \in Ports : client[p] \in {"closed", "SYN_SENT", "ESTABLISHED", "wrote"}
    /\ \A s \in DOMAIN listen_state : listen_state[s] \in {"LISTEN", "SYN_RECV", "ESTABLISHED"}
    /\ \A q \in {syn_queue, accept_queue} :
          q.size \in 0..MAX_QUEUE /\ ToSet(q.list) \subseteq Sockets
    /\ saved_syn \in 0..MAX_QUEUE /\ ToSet(accepted) \subseteq Sockets
    /\ push.at \in {"ready", "link", "count", "store"}
    /\ accept.at \in {"poll", "pop", "count", "store"}
    /\ \A buf \in net : \A i \in DOMAIN buf : buf[i] \in 0..255

(* A byte changed in transit is noticed by tcp_check, wherever it is but in the
   upper halves of seq_num and ack_num: no such packet reaches a socket. *)
DamageNoticed == ~deceived

(* What buf_to_packet reads is what create_packet wrote: a packet under way has the
   length its header says and passes tcp_check. *)
PacketsReadable ==
    \A buf \in net :
        /\ Len(buf) = get_plen(buf) /\ get_hlen(buf) = HEADER_LEN
        /\ packet_to_buf(buf_to_packet(buf)) = buf
        /\ tcp_check(buf_to_packet(buf))

(* Although sockqueue_remove of index 0 drops the list and keeps its size, no ACK
   finds syn_queue with a size and without a node; the application finds
   accept_queue in that state only after a push met a pop. *)
NoNullFollowed == crashed => raced

(* As long as handshakes do not overlap and no push meets a pop, tcp_accept returns
   the clients that completed the handshake, each once, in that order. *)
AcceptsCompleted ==
    ~overlapped /\ ~raced =>
        completed = accepted \o accept_queue.list
                    \o (IF push.at = "link" THEN <<push.sock>> ELSE <<>>)
=============================================================================
