# TrivialTCP: specifications, model checking and proofs

TrivialTCP is a user-level TCP in C: go-back-N data transfer, a three-way
handshake, a release, a retransmission timer and congestion control over UDP,
with channels and a thread pool among its sources. This directory holds TLA+ models of it, TLC configurations, and proofs checked by
TLAPS. All paths below are relative to the repository root (`src/` in
`PROJECT.json` stands for that root, so `src/src/kernel.c` is `src/kernel.c`).

## The system

| Component | State | Operations | Where |
|---|---|---|---|
| Data transfer | `sending_buf`, `received_buf`, `wnd_send` (`base`, `nextseq`, `send_windows`), `wnd_recv` (`expect_seq`), `send_lock`, `recv_lock` | `tcp_send`, `tcp_recv`, the sending thread `tcp_send_stream`, `tju_handle_packet` | `api.c`, `tju_tcp.c`, `kernel.c` |
| Timer | `rtt_timer` (`started`, `timer_thread`), `interrupt_signal`, `timeout_counts`, `finished_handshake` | `tcp_start_timer`, `tcp_stop_timer`, `tcp_check_timeout`, `tcp_write_timer_handler`, `tcp_retransmit_timer` | `timer.c` |
| Establishment | `state`, `listen_state[]`, `syn_queue`, `accept_queue`, `saved_syn` | `tcp_listen`, `tcp_connect`, `tcp_accept`, `tcp_rcv_state_server`, `tcp_rcv_state_client` | `api.c`, `tju_tcp.c` |
| Termination | `state` | `tcp_close`, `tcp_state_close` | `api.c`, `tju_tcp.c` |
| Congestion control | `con_status`, `cwnd`, `ssthresh` | `handle_success_ack`, `handle_loss_ack` | `kernel.c`, `timer.c` |
| Flow control | `rwnd`, advertised window | stored and sent, never read | `tju_tcp.c`, `kernel.c` |
| Dispatch | `tcp_manager` tables, `is_server` | `onTCPPocket`, `receive_thread`, `sendToLayer3` | `kernel.c`, `tcp_manager.c` |
| Packets | - | `create_packet_buf`, getters, checksum | `tju_packet.c` |
| Queues of the listener | linked list and `size` | push, pop, remove | `sockqueue.c` |
| Channels | `closed`, `r_waiting`, `w_waiting`, ring buffer or slot, `m_mu`, `r_mu`, `w_mu` | send, receive, select, close | `chan.c`, `queue.c` |
| Thread pool | job list, binary semaphore, counts of live and working threads, two globals | add, wait, pause, resume, destroy | `thpool.c` |

Each host runs one receive thread, for each socket one sending thread and at
most one timer thread (more by accident, see below), and the application. They
share the socket structure. `send_lock` and `recv_lock` protect the two
buffers; the windows, `state`, the timer's fields and the congestion state have
no lock that covers a read and the write that depends on it. Threads interact
by these fields, by `pthread_join` on the timer thread, and hosts by UDP packets
that can be lost, repeated, delayed, reordered or damaged. Channels and pool have
their own locks; no other part of the stack calls them.

Hard behaviours, and the properties that answer them:

* retransmission over an unreliable network - each byte arrives at its place,
  once (`StreamIntegrity`, `PacketsAgree`, `DeliveredInOrder`,
  `ImplementsByteStream`);
* segments that are acknowledged before they are stored - a byte that counts as
  acknowledged has been read, is held or is in the hands of the peer's receive thread
  (`AckSound`);
* `tcp_close` in the timer thread, which drops the buffer the receive thread is
  filling (`DeliveredInOrder`, `ImplementsByteStream`);
* ACKs that arrive between two steps of the sending thread, stale reads of
  `base` (`IndInv`, `OutstandingIsTimed`);
* limits: a full window, a full buffer, too long a packet, a packet length that
  wraps, the end of the memory behind the window, too many timeouts
  (`NoByteMissing`, `PacketsAgree`, `TypeOK`);
* the handshake with repeated, lost and late packets, and the moment in which a
  new socket is visible but not yet initialised (`OneConnection`,
  `HandshakeAgreement`, `ConnectCompletes`, `AcceptCompletes`, `FirstByteArrives`);
* threads that wait for a timer thread that replaces itself (`ConnectCompletes`)
  or that closes the connection (`ReleaseCompletes`);
* the release with both ends closing, lost and repeated FINs, ACKs left over from
  the transfer, and sockets freed while threads still hold them (`NoHalfOpen`,
  `LastAckIsFinal`, `ReleaseCompletes`);
* several handshakes of one listener, which has one `saved_syn` and no lock on
  `accept_queue` (`AcceptsCompleted`, `NoNullFollowed`); damaged packets
  (`DamageNoticed`, `PacketsReadable`);
* two handlers of the congestion state in two threads without a lock
  (`PhaseMatchesWindow`, `TypeOK`);
* channels that signal one thread and only if a counter says so, close under
  sleeping readers, hand-off through one slot (`NoLostWakeup`, `WaitersCounted`,
  `OneOwner`, `NothingLost`, `ImplementsFifo`, `CloseReleasesReaders`);
* a binary semaphore for many jobs, a count read without the lock that protects it,
  workers stopped by a signal wherever they are (`JobsInOrder`, `JobsAnnounced`,
  `WaitMeansDone`, `WaiterIsSignalled`, `CallsReturn`, `PausedPoolTakesWork`).

`PROJECT.json` lists the hazards with their lines.

## Modules

| Module | Content |
|---|---|
| `ByteStream` | Abstract specification: two streams, appended to by one host and read in order, exactly once, by its peer; a host that abandons the connection may skip bytes. |
| `Transmit` | Data transfer of an established connection, both directions, with all threads. |
| `Handshake` | From `tcp_listen` / `tcp_connect` to the first byte. |
| `Congestion` | `con_status`, `cwnd`, `ssthresh` under ACKs and timeouts, read and written by two threads. |
| `Close` | From the first `tcp_close` to `free(sock)` at both ends. |
| `Packet` | Operators: packets as bytes, checksum. |
| `SockQueue` | Operators: the queues of a listener. |
| `Listener` | Composes the two: a listener, several clients, a network that damages packets, `tcp_accept`. |
| `Queue` | Operators: the ring buffer. |
| `BoundedFifo` | Abstract specification of buffered channels. |
| `Chan` | Channels, on `Queue`; implements `BoundedFifo`. |
| `ThPool` | The thread pool. |
| `MCTransmit`, `MCHandshake`, `MCCongestion`, `MCChan` | Instances for TLC (the other modules need none). |
| `TransmitProofs`, `HandshakeProofs`, `CongestionProofs`, `CloseProofs`, `ListenerProofs`, `ThPoolProofs`, `QueueProofs`, `ChanProofs` | Theorems and proofs, each about the module it is named after. |

Variables have the names of the C fields they stand for; operators named after
C functions model the whole function, and functions that can be interrupted by
another thread are split at the points where the other thread can see the
difference. Definitions with a suffix (`HandleData_AnySeq`, ...) are mutations:
plausible mistakes used to see that a property can fail.

### Transmit

A byte is the position it has in the stream the application wrote, so missing,
repeated and exchanged bytes are distinguishable. `tcp_send` and `tcp_recv` are
atomic among themselves (they work under a lock); a `tcp_send` that finds no room
keeps `send_lock`, as the code does. The threads have these steps:

* the sending thread: `StreamTake` (all of `sending_buf`), `StreamSend` (window
  test, copy into `send_windows`, packet) or `StreamDrop` (the bytes are forgotten),
  `StreamStart` (timer, only if the window was empty when `base` was read),
  `StreamAdvance` (`nextseq`);
* the receive thread, for a segment: `HandleData` (`expect_seq`, `kernel.c:99-104`),
  `SendAck` (`:121`), `Store` (`:130-146`, under `recv_lock`); for an ACK: `HandleAck`
  (`base`), `AckTimer` (the timer, by what was compared before);
* the timer thread: one step per branch of the callback; a host that gives up goes
  on in `tcp_close`: `TimeoutClose` (the call), `CloseDrops` (the loop that frees
  `received_buf`, once per round), `CloseFin` (`FIN_WAIT_1`, FIN). `state` and the FIN
  are one step here, as nobody reads the FIN in this module; `Close` splits them, and
  the loop.

`tcp_close` drops the buffer without `recv_lock`. A receive thread that is between
`HandleData` and `Store`, or still sees `ESTABLISHED`, stores behind what was dropped:
from then on the host reads bytes with a gap before them. If the store or a `tcp_recv`
overlaps the free itself, freed memory is used (`UseAfterFree`). This and a copy
past the end of `send_windows` (`StreamOverrun`, `tju_tcp.c:470-471`) have no defined
effect: the host is followed no further (`alive` is FALSE), and nothing is claimed
about it beyond what it had done before.

`plen` wraps in its `uint16_t` (`PlenOf`), so a packet can carry fewer bytes than the
window counts, and one whose `plen` is below the header length leaves the receive
thread of the peer peeking at it for ever (`ReceiveRunt`). `net` only grows: a packet
may be delivered any number of times, in any order, or never. `timeout_counts` and the
server's `finished_handshake` start with any value malloc may leave; `received_buf`
starts as `tcp_socket` allocated it.

Left out: two threads inside `tcp_start_timer` at the same time (the timer is one
thread), the RTT estimate (constant, as `ALPHA` and `BETA` are 0), the advertised window
(never read), and what follows the FIN of a connection closed by the retransmission
limit (see `Close`).

### Handshake

`app` follows the calls, `rpc` the receive threads, `spc` the client's sending
thread. `tcp_accept` and `tcp_connect` return in a step of their own, because
the receive thread can handle packets between the registration of a socket and
the reset of its numbers. `tcp_stop_timer` raises `interrupt_signal` and joins;
the timer thread may see the signal or run out of time first, and in `SYN_SENT`
its callback starts a successor, which the joining thread may or may not get
hold of. Packets in `net` are consumed when delivered; `MaxLoss` of them may be
lost and `MaxDup` delivered once more. A retransmission of more than `MaxLen` bytes, or
of less than none, makes the process exit (`TimeoutExit`). The run ends with the first process that
exits. Uninitialised fields (`is_server`, `expect_seq`, `nextseq`,
`timeout_counts`, the server's `finished_handshake`) are choices in `Init`.
`syn_queue` is not kept: with one client it holds that client between its SYN
and its ACK.

### Congestion

`handle_success_ack` runs in the receive thread, `handle_loss_ack` in the timer
thread. The build does not optimise, so each access to a field is one of memory:
each test of the `if` chains reads `con_status` anew, the sum in congestion
avoidance reads `cwnd` twice, and an update is a read into a register and a
write. `ssthresh` and `timeout_counts` have one writer. The float expression is the
integer quotient plus or minus one. `torn` remembers that the handlers have
overlapped since the last `handle_loss_ack` that ran alone and took a branch.

### Close

Both sockets start `ESTABLISHED`, with a segment or an ACK of the transfer perhaps
still under way. `closer` follows `tcp_close`, called by the application or (if
`timer`) by the timer thread; `rcv` follows the receive thread through
`tcp_state_close`, whose sleeps are places of their own. `tcp_close` empties
`received_buf` without `recv_lock`: test, free (`CloseFrees`) and NULL (`CloseClears`)
are steps between which a segment can be allocated for and copied; a store that meets a
buffer freed and not yet forgotten, and a free under a copy, use freed memory. A store
after the NULL makes the loop run again. `net` counts the packets
of each kind under way, so they are reordered freely; they can be lost at any time
and `MaxDups` of them repeated. A freed socket stays in the tables: what a thread
does after it reads one is undefined, and the host is marked `broken` and followed
no further. `disturbed` collects the events after which a release need not
complete.

### Packet, SockQueue, Listener

`Packet` writes and reads the 22 bytes of a header in network order and computes
the checksum as the code does: 16-bit additions, `hlen` and `plen` in the order of
the network, the rest in that of the host, signed data bytes, and a fold that adds 0.
32-bit numbers are pairs of halves. `SockQueue` keeps the list and the counter `size`
apart, since `sockqueue_remove` of index 0 empties the one and not the other.
In `Listener` packets are byte sequences. `sockqueue_push` by the receive thread is four
steps: the test of `size`, the read of `base` and the walk, of which only the node it
ends at matters; the link; the read and the write of `size`. `sockqueue_pop` by
`tcp_accept` is three. A pop that frees the node the push links to loses the link, and
one that frees a node before it may meet the walk there (`PushWalksOn`): both count as
`raced`. Each
client has a port of its own, as other stacks would choose them (`tcp_connect` of
this one always takes 5678). Timers are left to `Handshake`; a repeated SYN is an
action of the client. Damage to `hlen` and `plen` is left out: they say how many bytes
`receive_thread` waits for.

### Queue, BoundedFifo, Chan

Everything in a channel is read and written under `m_mu`; a step is one section of it.
A sleeping thread is woken by a signal (any one of the sleepers), a broadcast or, on
the channels in `SpuriousChans`, by nothing; it then needs `m_mu` again. `w_mu` and
`r_mu` of unbuffered channels are held across waits. `chan_select` looks at its
channels one after the other and chooses among what it saw. A value is an address: the
typed forms (`chan_send_int32`, ...) call these and return their status, and what they
allocate, copy and free is not modelled (`OneOwner` is what their frees rely on).
`chan_dispose`, after which no call may be made, is left out.

`unbuffered_chan_send` waits once and not in a loop (`chan.c:323`). If that wait returns
unsignalled, the send reports success though nobody may have taken the value, and leaves
`w_waiting` one too high. `early` remembers these values; an unbuffered channel with one
is `Torn`. A torn channel may deliver a value twice and count a writer too many, so
`OneOwner` and the bound of `w_waiting` exempt it; `NothingLost` exempts only the value
itself, and one in the slot of a channel that is closed. The other properties make no
exception.

`Contents` of a ring buffer is the sequence it stands for; the refinement maps it to
the queue of `BoundedFifo`.

### ThPool

One caller and `N` workers. A section of a mutex is two steps, the lock and the rest,
because the signal of `thpool_pause` can stop a worker in between. Jobs are
numbered in the order they are added; the list is `front`, `rear`, `prev` and `len` as
in the code. `threads_keepalive` and `threads_on_hold` are globals. The timeouts of
`thpool_destroy` are polls with no time.

## Runs

| Run | Result | What it shows |
|---|---|---|
| `transmit` | holds | all properties of data transfer and the inductive invariant |
| `transmit_missing` | violated | a full window drops bytes for good |
| `transmit_timed` | violated | outstanding data without a running timer |
| `congestion` | holds | `cwnd` is never 0; phase, window and threshold agree until handlers overlap, and a loss handled alone repairs what an overlap broke |
| `handshake_safety` | holds | one connection, agreed upon by both ends |
| `handshake_progress` | holds | `tcp_connect` and `tcp_accept` complete after one lost SYN or ACK |
| `handshake_first_byte` | violated | data that overtakes `tcp_accept` is never sent again |
| `chan` | holds | no lost wake-up, no lost or doubly owned value, FIFO order, close releases readers |
| `thpool` | holds | jobs once and in order, `thpool_wait` means done, every call returns unless the pool is on hold |
| `thpool_paused` | violated | a worker paused inside a section blocks `thpool_add_work` |
| `close` | holds | no half-open connection, the passive end goes last, an undisturbed release completes |
| `listener` | holds | damage is noticed, clients are accepted in order, a null pointer is followed only after push met pop |

A violated property states what a comment or a document of the repository says;
`findings` in `PROJECT.json` quotes it. Deadlock is not checked: applications
may stop calling, and a process may exit.

Other places where code and documents differ, or where a property had to be
restricted, seen while modelling and without a run of their own:

* an old ACK moves `base` back (`kernel.c:44`, `docs/design.md:127`);
* the first timeout of a client sends an ACK instead of the outstanding data
  (`timer.c:129`, `docs/final.md:377`), which `handshake_first_byte` meets;
* an ACK adds to `cwnd` in fast recovery but does not end it (`kernel.c:387`,
  `docs/design.md:488`);
* a `tcp_send` that finds no room returns with `send_lock` held (`api.c:247`): the
  sending thread and later calls block;
* a lost SYN|ACK is never repeated: the timer thread of the listener finds the
  listening socket in `LISTEN` (`timer.c:86`);
* a packet that arrives before `tcp_listen` makes `onTCPPocket` follow a null
  pointer (`kernel.c:209`);
* a byte received after `tcp_accept` registered the socket and before it resets
  `expect_seq` (`api.c:146`) is received twice;
* `chan_send` tests `closed` before it takes the lock, so a closed channel can
  still be written (`chan.c:221`); an unbuffered send waits once, not in a loop, so a
  wait that ends by itself loses the value (`chan.c:323`), and so does a close;
* `tcp_close` drops `received_buf` without `recv_lock`; data stored after that is read
  with a gap before it, or freed memory is used (`api.c:288`);
* nothing bounds the bytes of a connection, and `send_windows` is never reused: the copy
  runs past its end (`tju_tcp.c:471`);
* `plen` wraps with a segment of nearly 2^16 bytes (`tju_tcp.c:461`); a packet with
  `plen` below the header length stops the receive thread (`kernel.c:287`);
* `tcp_close` spins on a socket the receive thread frees (`api.c`, `tju_tcp.c:203`)
  and need not return; when both ends close at once each ignores the FIN of the
  other in `FIN_WAIT_1` and neither is released;
* when two handshakes overlap, the single `saved_syn` makes the ACK of one take
  the socket of the other, or none (`tju_tcp.c:96`);
* `syn_queue` counts as full after `MAX_QUEUE` handshakes, since removal of index 0
  keeps its size (`sockqueue.c:71`);
* the checksum ignores the upper halves of both 32-bit numbers (`tju_tcp.c:394`).

Bounds. `Transmit`: header 1, packets up to 3, `plen` modulo 5, window 2, a sending
buffer and `send_windows` of 4 bytes. The client writes five bytes and the server none, or
the client one and the server two, byte by byte; the sending thread takes as many as there
are. So a segment can fill the window, be too long for `sendToLayer3` (3 bytes), make
`plen` wrap to less than a header (4), run past the end of `send_windows`, or be
retransmitted together with the next; the buffer can be full, and `base` beyond `nextseq`
when the timer runs out. `RETRANSMIT_LIMIT` (10 in the code) is 254, so that one timeout
too many would wrap `timeout_counts`; this starts at 254 in the client, which retransmits
once and then gives up, perhaps between the two bytes of the server, and at 255 in the
server, which gives up at its first timeout, in either case with data of the peer stored,
in the hands of the receive thread or under way. The server's `finished_handshake` is set;
the client's first timeout sets its own. In the two violated runs nothing wraps and the
limit is 1.
`Handshake`: header 2 (so that the numbers 0, 2 and 3 of the handshake differ
from those of data), one byte of data. Safety needs no losses, since a packet
may stay in `net`; the SYN|ACK, which the code never repeats by itself, may be
delivered twice, and timers repeat the others; the server's `finished_handshake`
starts FALSE there, the value from which the first timeout leads to the other. `handshake_progress` allows one
loss: two lost ACKs are beyond what the code recovers from. `Congestion`:
segments of 3 and a threshold of three of them, ACKs up to a window of 24, ten
retransmissions: enough for every phase, every branch and every overlap, several
times. `Close`: two packets left over, one repetition, any number of losses, both
ends may close. `Chan`: three threads on a buffered channel of two slots and an
unbuffered one, with one unsignalled wake-up on either; three values fill the buffer and
make a writer wait, two receives and a select make readers compete. `ThPool`: two workers, two jobs, one pause: the least
for a semaphore that must count twice and for a worker stopped while the other goes
on. `Listener`: three clients and queues of two, so a queue can be full and two
handshakes can overlap a third; the ports make sums of the checksum overflow, and the
damage flips the sign bit of any byte of the packets of one client, unless that
client's SYN is repeated: one fault of the two in a run.

Fairness. `Handshake!FairSpec` assumes weak fairness of each thread, of the passing
of time for timers, and of the delivery of each kind of packet that is not lost; the
network loses at most `MaxLoss` packets. `Chan`, `Close` and `ThPool` assume weak
fairness of each thread inside a call: the scheduler runs every thread that can run.
In `Close` this includes the receipt of a packet that is not lost, but not that a
read of freed memory ever returns `CLOSED`. `ThPool` also assumes strong fairness
of the locking by a worker: `thpool_destroy` takes the semaphore's mutex again and
again, but sleeps with it free. None forces an application to call anything.

## Proofs

`TransmitProofs` proves, for every header, packet, window, buffer and memory size,
every retransmission limit and every initial `timeout_counts`, that
`Spec => []IndInv`, and from it `TypeOK`, `StreamIntegrity`, `PacketsAgree`,
`AckSound` and `DeliveredInOrder`. Only `SizeAssumption` (types of the constants) is
assumed: both hosts may write any number of bytes, and overruns, wrapped lengths and
dropped buffers are steps of the model.

None of the properties is inductive alone. `IndInv` follows a byte from
`sending_buf` to the thread's buffer, to the window, to the hands of the peer's receive
thread, to `received_buf` and to the reader:

* `WindowInv`: the copied bytes are `nextseq` many, except between
  `StreamSend` and `StreamAdvance`, where they are ahead by the thread's buffer;
  so the next copy is appended and nothing is overwritten;
* `PacketsAgree`: packets carry the bytes of the window at their numbers, which
  stay there because the window only grows at its end;
* `AckInv`: `base` <= `expect_seq` of the peer, numbers of ACKs <= `expect_seq` <= length
  of the peer's window; so a retransmission reads only copied bytes;
* `HeldInv`: what the receive thread has numbered and not stored ends at `expect_seq`
  (and begins at `Stored`), and what `received_buf` holds ends there (and begins at
  `Passed`), both as parts of the peer's window. This stays true when `tcp_close` drops
  the buffer, whatever is stored afterwards: only `Passed` moves;
* `ReadInv`: what was read comes in order from the window before `Passed`, and is all of
  it unless the host gave up;
* `OrderInv`: what is in the window, in the thread's buffer and in
  `sending_buf` is increasing, in that order; a dropped segment leaves a gap but
  no disorder.

`WindowStep`, `TypeStep`, `PacketsStep`, `AckStep`, `HeldStep`, `ReadStep` and
`OrderStep` prove one part each, with one case per action that touches it.
`StreamIntegrity` and `AckSound` are claimed of a host until it gives up, that is, until
its timer thread is in `tcp_close`: after that the buffer is gone, and with it bytes
that were acknowledged. `PacketsAgree` and `DeliveredInOrder` hold throughout.

`RefinesByteStream` proves that `Transmit` implements `ByteStream`. Under `IndInv`,
`StreamSend` appends to the abstract stream, `tcp_recv` reads the next bytes of it,
`TimeoutClose` is the host abandoning the connection, `CloseDrops` skips what it drops,
and every other step leaves streams and positions alone: `Passed` is where the host is
in its peer's stream.

`HandshakeProofs` proves `TypeOK`, `OneConnection` and `HandshakeAgreement` for every
retransmission limit, every content of uninitialized memory, and any set and number of
lost and repeated packets. `HandshakeInv` says what a packet under way, or a handler
waiting for a timer thread to end, is evidence of: a SYN|ACK, and a client that goes
on with one, of a listener that answered (`ListenedInv`); an ACK to the server, and a
listener that goes on with one, of a client that answered (`AnsweredInv`). Both stay
true once they are, so a late or repeated packet misleads nobody. `QueueInv` ties
`accept_queue` to the listener's entry. Most steps change nothing of this
(`QuietStep`); one lemma for each group of the others.

`CongestionProofs` proves `TypeOK` (`cwnd` is never 0, so the division is
defined) and `PhaseMatchesWindow` for every segment size, threshold and limit and
every interleaving of the two handlers. The inductive invariant `HandlerInv` says
what holds inside a handler: which branch it is in (`Branches`), that a handler
which is not alone is marked as such (`Overlaps`), what a lone `handle_success_ack`
keeps of the match it started from (`AckAlone`), and how a lone `handle_loss_ack`
builds a new one, whatever it found (`LossAlone`).

`CloseProofs` proves `TypeOK`, `NoHalfOpen` and `LastAckIsFinal` for any number of
repeated packets and any set of left-over ones. `ReleaseInv` adds: every FIN under
way, and every state only a FIN leads to, has a sender (`FinHasSender`), which has left
`ESTABLISHED` (`SenderLeft`); a host that did not call `tcp_close` sends its FIN only
after its peer did (`PassiveFollows`); so the only ACK it can be sent, when nothing is left
over from the transfer, is the one for its FIN (`AckIsLast`). One lemma per action.

`ListenerProofs` proves `TypeOK`, `DamageNoticed`, `PacketsReadable`, `NoNullFollowed`
and `AcceptsCompleted` for any number of clients with any ports in slots of their own
(`ListenerAssumption`), any `MAX_QUEUE` and window, and any number of changes to single
bytes. The packets are those of `Listener`: without data, or with two bytes.

* Bytes: `HeaderBytes` and `ReadBack` show that the `get_*` functions read what
  `header_in_char` wrote, `RoundTrip` that `packet_to_buf` undoes `buf_to_packet`.
  `SumDiffers`: a changed byte moves the sum by its change, or 256 times that, or by a
  change of a signed char; each is less than 65536 and not 0, so the 16-bit rest
  changes (`SameRest`). `DamageShows` follows: only bytes 5, 6, 9 and 10 can change
  unnoticed, and these leave ports, flags and lengths alone.
* `syn_queue` (`SynInv`): `sockqueue_remove` of index 0 drops the list and keeps `size`,
  which is harmless only because, while `saved_syn` is 0, an ACK can come from no
  client but the one in the list. That needs `PhaseInv`: a SYN|ACK or ACK under way
  belongs to a client whose slot has left `LISTEN`. If `saved_syn` is not 0 the list is
  never emptied.
* `accept_queue`: `AcceptInv` keeps `size` within bounds for every interleaving of the
  reads and writes of push and pop. `CountInv`: until one meets the other, `size` is the
  length of the list but for the push and the pop under way, so `tcp_accept` finds a node.
* `OrderInv`: without overlap, the `size` that `syn_queue` never gives back counts the
  clients that came; so `accept_queue` is not full when an ACK is handled, and no
  completed client is lost.

`QueueProofs` proves that the ring buffer is a sequence, for every capacity and
position: `queue_init` is empty, `queue_add` appends, `queue_remove` takes the head.
The proofs compare positions before and after wrapping, without modular arithmetic.

`ThPoolProofs` proves `TypeOK`, `JobsInOrder`, `JobsAnnounced`, `WaiterIsSignalled` and
the action property `WaitMeansDone` for any number of workers and jobs. `PoolInv` adds
to the three invariants what they rest on: the counters are the numbers of workers
at the places between `++` and `--` (`CountInv`), the caller is in one call only and
what it has pushed is what it added, less a push under way (`CallInv`), and a job is
in the queue, with a worker that has pulled it, or finished (`JobInv`). That a worker
is counted before it pulls makes the unlocked read of `len` in `thpool_wait` safe:
an empty queue and a zero count leave no job anywhere.

`ChanProofs` proves the channels for any threads, channels, capacities and values.
`ChanInv` has eleven parts:

* `PcInv`, `Shape`, `QueueInv`: control states fit their channel, and queues are ring
  buffers in the sense of `QueueProofs`;
* `MutexInv`: on an unbuffered channel `r_mu` and `w_mu` are held by exactly the thread
  that is in the wait inside their sections;
* `WaitersCounted` and `NoLostWakeup` as the run checks them. The second needs the
  first, and is inductive only because it counts: a signal moves one thread from
  asleep to woken, an item or slot that appears adds one to the other side;
* `HandOffInv`: `w_waiting` of an unbuffered channel is 1 exactly while a sender sleeps
  beside its value, and a sender that was woken had its value taken or saw the close;
* `SlotInv`: a sleeping sender's value is in the slot; a woken sender's was taken, or its
  wait returned unsignalled, or the channel was closed over it. This needs only `w_mu`
  and holds of torn channels too;
* `ValueInv`, `LineInv`, `KeptInv`: where a value is - with its sender, in the buffer,
  offered, taken - and that it is in one of these places only.

From it follow `TypeOK`, `WaitersCounted`, `NoLostWakeup`, `OneOwner`, `NothingLost` and,
by `QueueProofs`, the refinement of `BoundedFifo`. There is no hypothesis about wake-ups:
any wait on any channel may return unsignalled, any number of times. `HandOffInv`,
`ValueInv` and `LineInv` speak of the channels that are not torn (`Reliable`); a channel
becomes torn in one step, `SpuriousWake` of its sender, and stays so.

Each inductive invariant was checked by TLC on the instance of its run first.

Only model-checked: all liveness properties; and, over packets with more than two data
bytes, nothing is claimed, since the checksum of any number of bytes is a fold
(induction over data).
Liveness under fairness and `ENABLED`, induction over data and `RECURSIVE` operators
are outside what TLAPS proves here; no module uses the latter.

## Not modelled

* Flow control: the advertised window is sent and stored, and never read in the built
  code, so no behaviour depends on it.
* Two threads inside `tcp_start_timer` at once: both can find `started` 0, and one of
  two timer threads is then never joined (`timer.c:154`). All modules have one timer
  thread per socket.
* Several connections of one listener with data: `tcp_accept` copies the listener into
  `conn_sock` (`api.c:111`), so they share buffers and windows.
* Two connections in one slot of the tables of `tcp_manager` (hash collisions), and
  damage to the length fields of a packet.
* The red-black tree and `trivial_epoll.c`, which are not built, `libaco`, which is
  vendored and unused, and the programs in `app/`, which are examples: their calls are
  the application's actions.

## Plan

1. `Timer`: `tcp_start_timer`, `tcp_stop_timer` and `tcp_check_timeout` by their reads
   and writes, with the three threads that call them.
