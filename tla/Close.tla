-------------------------------- MODULE Close -------------------------------
(***************************************************************************)
(* The release of an established connection: tcp_close of api.c, called by *)
(* the application or by the timer thread (tcp_outlimit_retransmit), the   *)
(* state machine tcp_state_close of tju_tcp.c in the receive thread, which *)
(* sleeps in the middle of it, and free(sock).                             *)
(*                                                                         *)
(* A socket that was freed stays in the tables of tcp_manager and in the   *)
(* hands of the threads: what a thread does after it reads one is          *)
(* undefined, and the model follows the host no further (broken).          *)
(***************************************************************************)
EXTENDS Integers, FiniteSets

CONSTANTS client, server,
          Closers,    \* the hosts whose application or timer may close
          MaxStrays,  \* bounds: packets left over from the data transfer,
          MaxDups     \*         packets the network repeats

Hosts == {client, server}
Peer(h) == IF h = client THEN server ELSE client

ASSUME CloseAssumption == client # server /\ Closers \subseteq Hosts
                          /\ MaxStrays \in Nat /\ MaxDups \in Nat

Kinds == {"fin", "ack", "data"}   \* FIN|ACK; ACK alone; a segment without flags

VARIABLES state,      \* of the socket of each host
          freed,      \* free(sock) was called
          allocated,  \* received_buf is not NULL
          closer,     \* where tcp_close is: "idle", "test", "freed", "fin", "spin",
                      \* "returned"
          timer,      \* tcp_close was called by the timer thread
          rcv,        \* where the receive thread is
          net,        \* how many packets of each kind are under way to each host
          broken,     \* a thread of the host used freed memory
          \* history:
          strays,     \* packets of the data transfer were under way at the start
          invited,    \* the host has sent a FIN
          disturbed,  \* a loss, a second tcp_close, a FIN that came too early, a torn copy
          dups

memory == <<freed, allocated>>
threads == <<closer, timer, rcv>>
history == <<strays, invited, disturbed, dups>>
vars == <<state, memory, threads, net, broken, history>>

\* Both sockets are ESTABLISHED and have the received_buf that tcp_socket allocated; a
\* segment and an ACK may still be under way to each.
Init ==
    /\ state = [h \in Hosts |-> "ESTABLISHED"]
    /\ freed = [h \in Hosts |-> FALSE]
    /\ allocated = [h \in Hosts |-> TRUE]
    /\ closer = [h \in Hosts |-> "idle"]
    /\ timer = [h \in Hosts |-> FALSE]
    /\ rcv = [h \in Hosts |-> "ready"]
    /\ \E S \in SUBSET (Hosts \X {"ack", "data"}) :
          /\ Cardinality(S) <= MaxStrays
          /\ net = [h \in Hosts |-> [k \in Kinds |-> IF <<h, k>> \in S THEN 1 ELSE 0]]
          /\ strays = (S # {})
    /\ broken = [h \in Hosts |-> FALSE]
    /\ invited = [h \in Hosts |-> FALSE]
    /\ disturbed = FALSE /\ dups = 0
-----------------------------------------------------------------------------
Becomes(h, s) == state' = [state EXCEPT ![h] = s]
Sends(n, h, k) == net' = [n EXCEPT ![Peer(h)][k] = @ + 1]

\* tcp_send_ack and tcp_send_fin_ack: flags ACK, and ACK | FIN; n is the network after
\* what the step received.
tcp_send_ack(n, h) == Sends(n, h, "ack")
tcp_send_fin_ack(n, h) == Sends(n, h, "fin") /\ invited' = [invited EXCEPT ![h] = TRUE]

Disturbs(b) == disturbed' = (disturbed \/ b)

Works(h) == ~broken[h] /\ ~freed[h]
CloserAt(h, place) == Works(h) /\ closer[h] = place
CloserGoes(h, place) == closer' = [closer EXCEPT ![h] = place]
RcvAt(h, place) == Works(h) /\ rcv[h] = place
RcvGoes(h, place) == rcv' = [rcv EXCEPT ![h] = place]
-----------------------------------------------------------------------------
\* tcp_close is called.  The timer thread closes only a socket it has seen in
\* ESTABLISHED.
tcp_close(h) ==
    /\ CloserAt(h, "idle") /\ h \in Closers
    /\ \/ UNCHANGED timer
       \/ state[h] = "ESTABLISHED" /\ timer' = [timer EXCEPT ![h] = TRUE]
    /\ CloserGoes(h, "test")
    /\ Disturbs(closer[Peer(h)] # "idle")
    /\ UNCHANGED <<state, memory, rcv, net, broken, strays, invited, dups>>

\* While received_buf is not NULL it is freed, without recv_lock: if the receive thread is
\* copying into it, the copy goes to freed memory ...
CloseFrees(h) ==
    /\ CloserAt(h, "test") /\ allocated[h]
    /\ CloserGoes(h, "freed")
    /\ broken' = [broken EXCEPT ![h] = rcv[h] = "copy"]
    /\ Disturbs(rcv[h] = "copy")
    /\ UNCHANGED <<state, memory, timer, rcv, net, strays, invited, dups>>

\* ... and only then forgotten.
CloseClears(h) ==
    /\ CloserAt(h, "freed")
    /\ allocated' = [allocated EXCEPT ![h] = FALSE]
    /\ CloserGoes(h, "test")
    /\ UNCHANGED <<state, freed, timer, rcv, net, broken, history>>

\* Whatever the state was, it is now FIN_WAIT_1 ...
CloseState(h) ==
    /\ CloserAt(h, "test") /\ ~allocated[h]
    /\ Becomes(h, "FIN_WAIT_1")
    /\ CloserGoes(h, "fin")
    /\ Disturbs(state[h] # "ESTABLISHED")
    /\ UNCHANGED <<memory, timer, rcv, net, broken, strays, invited, dups>>

\* ... and the FIN is sent, once.
CloseFin(h) ==
    /\ CloserAt(h, "fin")
    /\ tcp_send_fin_ack(net, h)
    /\ CloserGoes(h, "spin")
    /\ UNCHANGED <<state, memory, timer, rcv, broken, strays, disturbed, dups>>

\* The caller spins until it reads CLOSED.
CloseReturns(h) ==
    /\ CloserAt(h, "spin") /\ state[h] = "CLOSED"
    /\ CloserGoes(h, "returned")
    /\ UNCHANGED <<state, memory, timer, rcv, net, broken, history>>

\* If the socket has been freed in the meantime, what is read can be anything.
CloseReadsFreed(h) ==
    /\ closer[h] = "spin" /\ freed[h] /\ ~broken[h]
    /\ CloserGoes(h, "returned")
    /\ UNCHANGED <<state, memory, timer, rcv, net, broken, history>>
-----------------------------------------------------------------------------
\* The receive thread takes a packet of kind k: onTCPPocket, by the state of the socket.
Taken(h, k) == [net EXCEPT ![h][k] = @ - 1]
Receives(h, k, s) == RcvAt(h, "ready") /\ state[h] = s /\ net[h][k] > 0

\* tju_handle_packet of an ACK stops the timer, which joins the timer thread.
EstablishedAck(h) ==
    /\ Receives(h, "ack", "ESTABLISHED")
    /\ net' = Taken(h, "ack")
    /\ RcvGoes(h, "join")
    /\ UNCHANGED <<state, memory, closer, timer, broken, history>>

Joins(h) ==
    /\ RcvAt(h, "join") /\ ~timer[h]
    /\ RcvGoes(h, "ready")
    /\ UNCHANGED <<state, memory, closer, timer, net, broken, history>>

\* tju_handle_packet of data acknowledges it, allocates and copies: what it enlarges may
\* be the buffer tcp_close has freed and not yet forgotten.
EstablishedData(h) ==
    /\ Receives(h, "data", "ESTABLISHED")
    /\ tcp_send_ack(Taken(h, "data"), h)
    /\ RcvGoes(h, "store")
    /\ UNCHANGED <<state, memory, closer, timer, broken, history>>

StoreAllocates(h) ==
    /\ RcvAt(h, "store")
    /\ RcvGoes(h, "copy")
    /\ allocated' = [allocated EXCEPT ![h] = TRUE]
    /\ broken' = [broken EXCEPT ![h] = closer[h] = "freed"]
    /\ Disturbs(closer[h] = "freed")
    /\ UNCHANGED <<state, freed, closer, timer, net, strays, invited, dups>>

StoreCopies(h) ==
    /\ RcvAt(h, "copy")
    /\ RcvGoes(h, "ready")
    /\ UNCHANGED <<state, memory, closer, timer, net, broken, history>>

\* tcp_state_close, ESTABLISHED: CLOSE_WAIT, an ACK, and a sleep of 2 * MSL ...
EstablishedFin(h) ==
    /\ Receives(h, "fin", "ESTABLISHED")
    /\ Becomes(h, "CLOSE_WAIT")
    /\ tcp_send_ack(Taken(h, "fin"), h)
    /\ RcvGoes(h, "sleep")
    /\ UNCHANGED <<memory, closer, timer, broken, history>>

\* ... then LAST_ACK, whatever the state is by now, and the own FIN.
SleepEnds(h) ==
    /\ RcvAt(h, "sleep")
    /\ Becomes(h, "LAST_ACK")
    /\ RcvGoes(h, "last_fin")
    /\ UNCHANGED <<memory, closer, timer, net, broken, history>>

LastFin_Never(h) ==   \* mutation: the passive end sends no FIN
    /\ RcvAt(h, "last_fin")
    /\ RcvGoes(h, "ready")
    /\ UNCHANGED <<state, memory, closer, timer, net, broken, history>>

LastFin(h) ==
    /\ RcvAt(h, "last_fin")
    /\ tcp_send_fin_ack(net, h)
    /\ RcvGoes(h, "ready")
    /\ UNCHANGED <<state, memory, closer, timer, broken, strays, disturbed, dups>>

\* FIN_WAIT_1: any ACK will do.
FinWait1Ack(h) ==
    /\ Receives(h, "ack", "FIN_WAIT_1")
    /\ net' = Taken(h, "ack")
    /\ Becomes(h, "FIN_WAIT_2")
    /\ UNCHANGED <<memory, threads, broken, history>>

FinWait2Fin_Any(h) ==   \* mutation: an ACK is taken for the FIN
    /\ \E k \in {"fin", "ack"} :
          /\ Receives(h, k, "FIN_WAIT_2")
          /\ tcp_send_ack(Taken(h, k), h)
    /\ RcvGoes(h, "time_wait")
    /\ UNCHANGED <<state, memory, closer, timer, broken, history>>

\* FIN_WAIT_2: the FIN of the peer is acknowledged; TIME_WAIT lasts 2 * MSL.
FinWait2Fin(h) ==
    /\ Receives(h, "fin", "FIN_WAIT_2")
    /\ tcp_send_ack(Taken(h, "fin"), h)
    /\ RcvGoes(h, "time_wait")
    /\ UNCHANGED <<state, memory, closer, timer, broken, history>>

TimeWait(h) ==
    /\ RcvAt(h, "time_wait")
    /\ Becomes(h, "TIME_WAIT")
    /\ RcvGoes(h, "linger")
    /\ UNCHANGED <<memory, closer, timer, net, broken, history>>

LingerEnds(h) ==
    /\ RcvAt(h, "linger")
    /\ freed' = [freed EXCEPT ![h] = TRUE]
    /\ RcvGoes(h, "ready")
    /\ UNCHANGED <<allocated, state, closer, timer, net, broken, history>>

LastAckAck_Fin(h) ==   \* mutation: a repeated FIN is taken for the ACK
    /\ \E k \in {"fin", "ack"} : Receives(h, k, "LAST_ACK") /\ net' = Taken(h, k)
    /\ Becomes(h, "CLOSED")
    /\ RcvGoes(h, "free")
    /\ UNCHANGED <<memory, closer, timer, broken, history>>

\* LAST_ACK: any ACK will do; CLOSED, and the socket is freed.
LastAckAck(h) ==
    /\ Receives(h, "ack", "LAST_ACK")
    /\ net' = Taken(h, "ack")
    /\ Becomes(h, "CLOSED")
    /\ RcvGoes(h, "free")
    /\ UNCHANGED <<memory, closer, timer, broken, history>>

ClosedFrees_Listens(h) ==   \* mutation: the socket is reset for listening instead
    /\ RcvAt(h, "free")
    /\ Becomes(h, "LISTEN")
    /\ RcvGoes(h, "ready")
    /\ UNCHANGED <<memory, closer, timer, net, broken, history>>

ClosedFrees(h) ==
    /\ RcvAt(h, "free")
    /\ freed' = [freed EXCEPT ![h] = TRUE]
    /\ RcvGoes(h, "ready")
    /\ UNCHANGED <<allocated, state, closer, timer, net, broken, history>>

\* Every other packet is dropped: in particular a FIN in FIN_WAIT_1.
CloseIgnores(h, k) ==
    /\ Receives(h, k, state[h])
    /\ <<state[h], k>> \in {<<"FIN_WAIT_1", "fin">>, <<"FIN_WAIT_1", "data">>,
                            <<"FIN_WAIT_2", "ack">>, <<"FIN_WAIT_2", "data">>,
                            <<"LAST_ACK", "fin">>, <<"LAST_ACK", "data">>}
    /\ net' = Taken(h, k)
    /\ Disturbs(state[h] = "FIN_WAIT_1" /\ k = "fin")
    /\ UNCHANGED <<state, memory, threads, broken, strays, invited, dups>>

\* A thread writes a socket that was freed: the receive thread finds it in the tables,
\* or tcp_close still has it.  What follows is undefined.
UseAfterFree(h) ==
    /\ freed[h] /\ ~broken[h]
    /\ \/ \E k \in Kinds : net[h][k] > 0
       \/ closer[h] \in {"test", "freed", "fin"}
    /\ broken' = [broken EXCEPT ![h] = TRUE]
    /\ UNCHANGED <<state, memory, threads, net, history>>

\* The network loses and repeats packets, and delivers them in any order.
Lose(h, k) ==
    /\ net[h][k] > 0
    /\ net' = Taken(h, k)
    /\ Disturbs(TRUE)
    /\ UNCHANGED <<state, memory, threads, broken, strays, invited, dups>>

Repeat(h, k) ==
    /\ net[h][k] > 0 /\ dups < MaxDups
    /\ net' = [net EXCEPT ![h][k] = @ + 1]
    /\ dups' = dups + 1
    /\ UNCHANGED <<state, memory, threads, broken, strays, invited, disturbed>>
-----------------------------------------------------------------------------
Closing(h) ==
    CloseFrees(h) \/ CloseClears(h) \/ CloseState(h) \/ CloseFin(h) \/ CloseReturns(h)

ReceiveThread(h) ==
    \/ EstablishedAck(h) \/ Joins(h)
    \/ EstablishedData(h) \/ StoreAllocates(h) \/ StoreCopies(h)
    \/ EstablishedFin(h) \/ SleepEnds(h) \/ LastFin(h)
    \/ FinWait1Ack(h) \/ FinWait2Fin(h) \/ TimeWait(h) \/ LingerEnds(h)
    \/ LastAckAck(h) \/ ClosedFrees(h)
    \/ \E k \in Kinds : CloseIgnores(h, k)

Network == \E h \in Hosts, k \in Kinds : Lose(h, k) \/ Repeat(h, k)

Next ==
    \/ Network
    \/ \E h \in Hosts : \/ tcp_close(h) \/ Closing(h) \/ CloseReadsFreed(h)
                        \/ ReceiveThread(h) \/ UseAfterFree(h)

Spec == Init /\ [][Next]_vars

\* Threads that can go on do (nothing makes a read of freed memory return CLOSED), and a
\* packet that is not lost is received.
FairSpec == Spec /\ \A h \in Hosts : WF_vars(Closing(h)) /\ WF_vars(ReceiveThread(h))
-----------------------------------------------------------------------------
States == {"ESTABLISHED", "FIN_WAIT_1", "FIN_WAIT_2", "CLOSE_WAIT", "LAST_ACK", "TIME_WAIT",
           "CLOSED"}

(* The sockets are in the states of the release, the threads at its steps. *)
TypeOK ==
    /\ state \in [Hosts -> States]
    /\ freed \in [Hosts -> BOOLEAN] /\ allocated \in [Hosts -> BOOLEAN]
    /\ broken \in [Hosts -> BOOLEAN] /\ timer \in [Hosts -> BOOLEAN]
    /\ closer \in [Hosts -> {"idle", "test", "freed", "fin", "spin", "returned"}]
    /\ rcv \in [Hosts -> {"ready", "join", "store", "copy", "sleep", "last_fin",
                          "time_wait", "linger", "free"}]
    /\ net \in [Hosts -> [Kinds -> Nat]] /\ dups \in Nat
    /\ strays \in BOOLEAN /\ invited \in [Hosts -> BOOLEAN] /\ disturbed \in BOOLEAN

(* No half-open connection: a host frees its socket, or gets as far as TIME_WAIT
   or CLOSED, only after the other has left ESTABLISHED and sent its own FIN,
   whoever closed, whatever was lost, repeated or left over from the transfer. *)
NoHalfOpen ==
    \A h \in Hosts :
        freed[h] \/ state[h] \in {"TIME_WAIT", "CLOSED"} =>
            invited[Peer(h)] /\ state[Peer(h)] # "ESTABLISHED"

(* With one closer and nothing left over from the transfer, the ACK that ends
   LAST_ACK is the one the active end sends before it enters TIME_WAIT: the passive
   end is never released first. *)
LastAckIsFinal ==
    \A h \in Hosts :
        /\ closer[h] = "idle" /\ ~strays
        /\ freed[h] \/ state[h] = "CLOSED"
        => freed[Peer(h)] \/ rcv[Peer(h)] \in {"time_wait", "linger"}

(* Once a host closes, both ends free their sockets, also with packets repeated
   and left over, except: a packet was lost, both ends closed, the FIN overtook
   the ACK before it, tcp_close freed received_buf while it was stored into, or the
   receive thread joins a timer thread that is itself in tcp_close. *)
ReleaseCompletes ==
    (\E h \in Hosts : closer[h] # "idle") ~>
        \/ \A h \in Hosts : freed[h]
        \/ disturbed
        \/ \E h \in Hosts : rcv[h] = "join" /\ timer[h]
=============================================================================
