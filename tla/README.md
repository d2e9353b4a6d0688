# A formal model of ENet-CSharp

TLA+ specifications of the native library of this repository,
`Source/Native/enet.h`: a reliable UDP library in one C header, with a managed
wrapper (`Source/Managed/ENet.cs`) whose methods call one native function each.
The specifications are translated from the C code. TLC checks them on small
instances; TLAPS proves the safety of connection management, of the packets and of
the buffer pool, and facts about bandwidth, time and sequence numbers, for every
size. Line numbers below refer to `enet.h`
unless a file is named.

Contents: [the system](#the-system), [the modules](#the-modules),
[the runs](#the-runs), [fairness](#fairness), [proofs](#proofs),
[findings](#findings), [what is not modelled](#what-is-not-modelled),
[plan](#plan).

## The system

A process makes a *host* (a socket and an array of *peers*). The application
calls `enet_host_service` in a loop; everything except the buffer pool happens
inside these calls, on the thread that makes them. Within a host there is no
concurrency, but two hosts run against each other over a network that loses,
duplicates, delays and reorders datagrams, and the application's own calls fall
between any two steps of the service.

| Component | State | Operations | Talks to |
|---|---|---|---|
| Connection management (2036–2163, 2280–2408, 2706–2880, 3489–3610, 3878–4007, 4524–4595) | per peer: state, connect and session identifiers, the index of the other side; per host: `dispatchQueue`, `connectedPeers`, `randomSeed` | connect, disconnect (at once, now, later), reset, ping; the handlers of CONNECT, VERIFY_CONNECT, DISCONNECT, ACKNOWLEDGE; timeouts; dispatch of events | the application by events, the other host by commands, the lists of the reliable channel |
| Reliable channel (2214–2278, 2486–2567, 3143–3470, 3652–3773, 4009–4113, 4185–4385) | sender: `outgoingSendReliableCommands`, `sentReliableCommands`, window counters, `reliableDataInTransit`; receiver: `incomingReliableCommands`, `dispatchedCommands`, `totalWaitingData`, acknowledgements | send, transmit, time out, acknowledge, insert, reassemble, dispatch, receive | the other peer; connection management, which empties its lists on a reset |
| Unreliable and unsequenced delivery (2428–2484, 2569–2658, 4115–4183, 4217–4385) | `incomingUnreliableCommands`, the unsequenced window, the unreliable numbers | insert, drop, reassemble, dispatch | the reliable list, whose numbers it waits for |
| Packets and broadcast (1918–1990, 2165–2193, 3227–3470, 3652–3748, 4597–4660) | reference count and flags of a packet, the outgoing lists of every peer | create, send, broadcast (to all, to all but one, to some), throttle, flush, dispose | the lists of every peer; the buffer pool |
| Throttle and bandwidth (2667–2693, 3630–3650, 3860–3876, 4671–4815) | packet throttle and its limit, bandwidths, `bandwidthLimitedPeers` | adapt to round-trip times, share out bandwidth, tell the peers | the transmit loop, the other host by BANDWIDTH_LIMIT |
| Time (41–46, 2195–2278, 2731–2826, 3184–3225, 3301–3312, 3406–3419) | `serviceTime`, `nextTimeout`, `earliestTimeout`, round-trip time and variance | wrapped comparison, estimate, retransmission, ping, timeout of the peer | every command that is acknowledged |
| Buffer pool (762–775, 1085–1118, 1148–1577, 5643–5645) | a cache of free blocks per thread, a lock-free stack of the blocks of exited threads, statistics | acquire, release, exit of a thread, drain, start and stop | every thread that creates or destroys packets |
| Wire format, checksum, intercept | none of its own | parse, CRC64 | receive and transmit |
| Lists, atomics, addresses, sockets | | thin layers | everything |
| Managed wrapper, tests, benchmarks | native pointers | one native call each | the application |

### What is hard, and what correctness means

* **Connection management.** Either application, either timeout and any late
  datagram may interrupt the handshake in every state. Peers are an array whose
  slots are used again, so a datagram may outlive the connection it belongs to;
  a two-bit session number tells them apart. Events are either returned at once
  or queued for later, depending on whether the caller passes an `ENetEvent`.
  Correct means: the application sees one CONNECT and then one ending for every
  peer it knows, nothing for the others; the count of connected peers and the
  intrusive dispatch queue agree with the states; a repeated request never
  occupies two peers; connections are never taken for one another; every
  request comes to an end.
* **Reliable channel.** 16-bit sequence numbers wrap, so ordering, duplicate
  detection and the check that keeps numbers unambiguous are all modular.
  Commands move between three lists on timeouts, and acknowledgements arrive
  before and after these moves. Correct means: packets come out once, whole and
  in order; what is forgotten by the sender has arrived; unsigned counters
  follow the lists; every packet arrives in the end.
* **Unreliable and unsequenced delivery.** An unreliable packet is ordered by a
  pair of numbers of which the first wraps and the second starts again behind
  every reliable packet; it waits for the reliable packet before it and must
  go when it is overtaken. The unsequenced window moves with a number that wraps
  too. Correct means: nothing is delivered twice, behind a later packet, or
  before a reliable packet sent earlier; nothing that is ready stays in the list.
* **Packets.** One packet may be in the lists of many peers, in several
  fragments, and a broadcast of an INSTANT packet flushes the host in the middle.
  Correct means: the reference count is the number of commands that point at the
  packet; it is freed once, when the last of them goes; none is left behind.
* **Bandwidth.** Limits are computed in a loop over the peers that removes those
  that have too little, in unsigned arithmetic with rounding. Correct means: what
  is then sent fits, the incoming bandwidth is shared fairly and the count of
  limited peers is exact.
* **Time.** The clock wraps, 0 also means "none", acknowledgements carry the low
  half of a time, and `nextTimeout` and `earliestTimeout` summarise lists that
  change. Correct means: estimates are made of true round trips, the oldest
  command determines the next timeout, a peer is given up only if it deserves to
  be and always if it falls silent.
* **Buffer pool.** Any thread may release a block, threads exit at any moment,
  the orphan stack is pushed to and taken without a lock, the first word of a
  free block is its link. Correct means: every block has exactly one place, the
  stack stays a list in spite of ABA, no block is lost, and the statistics obey
  the identities that `ENetPoolStatistics` documents.

`PROJECT.json` lists 40 hazards at the lines where they bite, with the
properties that would catch each one going wrong.

## The modules

| Module | What it is |
|---|---|
| `SequenceWindows` | the wrapping sequence numbers and their windows, used by both channel modules |
| `ReliableFifo` | abstract: per channel, packets are submitted and delivered in order, once, whole |
| `ReliableChannel` | one direction of the channels of a connected pair of peers, reliable packets only |
| `SequencedDelivery` | abstract: what a channel promises for reliable, unreliable and unsequenced packets |
| `SequencedChannel` | the receiving side of one channel for all kinds of packets |
| `Connection` | the peers of several hosts, the handshake and every way a connection ends |
| `OutgoingPackets` | the packets of one host and who holds them, from creation to destruction |
| `BandwidthLimits` | packet throttle and bandwidth limits of one host |
| `PeerTimeouts` | the wrapping clock, round-trip estimate, retransmission and timeout of one peer |
| `BufferPool` | the packet buffer pool, one atomic access to shared state a step |
| `SubSequences` | taking elements out of the middle of a list, used by `ReliableChannel`, `Connection`, `OutgoingPackets` and `PeerTimeouts` |
| `MCConnection`, `MCOutgoingPackets`, `MCBandwidthLimits`, `MCBufferPool` | values for TLC |
| `ReliableChannelProofs`, `ReliableNumbersProofs`, `ConnectionProofs`, `OutgoingPacketsProofs`, `BufferPoolProofs`, `BandwidthProofs`, `PeerTimeoutsProofs` | inductive invariants and theorems |
| `DataProofs` | lemmas the proofs share: induction over numbers and finite sets, what is left of a list when elements are taken out, sums over finite sets |

The modules meet at the interfaces the code has. `ReliableChannel` gets reliable
packets through; `SequencedChannel` takes that for granted (a reliable datagram
may arrive until it has) and looks at how the other kinds are ordered around
them. `PeerTimeouts` says when commands are sent again and when a peer is given
up; `ReliableChannel` and `Connection` let that happen at any moment.
`OutgoingPackets` follows the packets through the same lists; `BandwidthLimits`
decides the throttle that `OutgoingPackets` takes as given.

### ReliableChannel

Variables carry the names of the C fields. `Send` is `enet_peer_send` for a
reliable packet; `SendOutgoing(timedOut, limit)` is the part of
`enet_protocol_send_outgoing_commands` about one peer: the timed-out commands go
back to the front of the queue, then the queue is sent as far as
the window check (`WindowBlocks`) and the throttled window (`limit`) allow.
`HandleAcknowledge` is `enet_protocol_handle_acknowledge` with
`remove_sent_reliable_command` and its bounded search (`FoundSent`).
`HandleData` is the receiving half: the window test, the scan for the insertion
point, the limit on waiting data, fragments, dispatch and the decision to
acknowledge, in the code's order; a handler that fails is not acknowledged.
`Receive` is `enet_peer_receive`.

Commands have an unbounded number `abs` that the model uses to say what is
true; the handlers compute only with `Seq16`, the number on the wire, which
wraps. `dispatchedCommands`, the limit on transit and the limit on waiting data
are shared by the channels as they are in a peer.

A datagram holds one command and one unit of data: a fragment and an
unfragmented packet are both bounded by the MTU. The network is the set of
datagrams under way; delivering does not remove one, so it may arrive again, and
one that is never delivered is lost. `Lossy` adds an action that removes a
datagram: that makes a difference only to fairness, so only the liveness runs
have it. A datagram also vanishes after `Lifetime` newer commands of its channel
were sent: without such a bound no protocol with bounded numbers is correct.
`LifetimeAssumption` says how far this one can go. A fragment is judged by the
first number of its packet (2497), so a late fragment of a large packet is taken
for a new one earlier than another command would be: with 16 windows of 4096 a
datagram may be 36,864 commands late, but with packets of the maximum size
(32 MB, about 26,970 fragments) only about 9,900.

### SequencedChannel

`Send` gives a packet its numbers as `enet_peer_setup_outgoing_command` does;
`Class` includes the rule that an unreliable packet goes out reliably when the
unreliable number would pass 0xFFFF. The four handlers of the receiving peer
are one action each, with the call of `enet_peer_queue_incoming_command` inside.
`DispatchUnreliable` is `enet_peer_dispatch_incoming_unreliable_commands`; it is
written as what the loop leaves (`Ready`, `Dropped`, `Unreached`) rather than as
its three iterators. A command that is just being queued is not dropped in the
same call, as in the code (`queuedCommand`). `DisconnectLater` may come at any
time: the peer then discards what is new, but a fragment of a packet in the list
still completes it. An entry remembers (`src`) which packets its data came from;
a packet mixed from two would be delivered as 0, which `DeliverySpec` forbids.

`enet_peer_remove_incoming_commands` (3792) frees packets without taking them
off `totalWaitingData`. The code leaks this count; a peer that drops enough
incomplete or overtaken unreliable packets eventually refuses everything.
Nothing in the repository states otherwise, so `HeldDataCounted` states the
direction that must hold for the unsigned count not to wrap: it is never less
than the data held.

### OutgoingPackets

Packets are created one after the other with every combination of flags.
`Send`, `Refuse` and `Broadcast` are the application's calls; `BroadcastNext` is
one turn of a broadcast loop, `BroadcastDone` its end, and `Visit` one peer of
`enet_protocol_send_outgoing_commands`, so that a flush inside a broadcast
(INSTANT) is taken peer by peer. `HandleAcknowledge`, `DisconnectLater`, `End`
and `Connect` are what else empties or renews the lists of a peer. Inside a call
of the library nothing else runs (`Idle`), as in the code.

The model has what the code does where that may surprise: the run of commands
dropped by the throttle is found by the numbers alone, so an UNTHROTTLED packet
with the same numbers as a throttled one before it is dropped with it, and the
run does not look at the channel; `ENET_PACKET_FLAG_SENT` is set when one peer
was sent the packet although another dropped it; with throttle 0 one packet in 32
still goes out (README.md:391 calls 0 dropping all); INSTANT is ignored for
fragmented packets; a timeout noticed without an event leaves the peer a zombie
that keeps its lists until the event is dispatched.

### BandwidthLimits

`BandwidthThrottle(elapsed)` is one call of `enet_host_bandwidth_throttle` that
finds its interval elapsed. Its loop that removes overloaded peers until none is
left is the function `Shared`, a round of it `WithoutOverloaded`; its second half
is `FairShare` with `WithoutModest` for a round, and `Told`. A loop of the code ends
when a round changes nothing; the functions make one round for each peer there could
be, and the proofs show that nothing changes after that.
`PeerThrottle` is `enet_peer_throttle`; which of its three outcomes a round trip
gives is free. A peer is connected by
`NotifyConnect` at once, or, when the service has no event to fill, by
`NotifyConnectLater` and `DispatchConnect`: the first asks for new limits
(`recalculateBandwidthLimits`), the second counts the peer (`Connect`,
`enet_peer_on_connect`) and does not ask again, so a throttle in between leaves the
peer its old limits until something else asks. `Leave` is the end of a peer that is
not connected. `HandleBandwidthLimit`, `HostLimit`, `Connect` and `Disconnect`
change the limits and `bandwidthLimitedPeers`. Words are as wide as `Word` and
additions and subtractions wrap; the assumption that products fit a word is
named. In the code it fails from about 4.29 MB/s on, where
`throttle * dataTotal` no longer fits 32 bits. A peer that never said how much it
sends is told a limit of 0, that is none.

### PeerTimeouts

The model's clock does not wrap; the handlers see `serviceTime`, the clock in
one word, and all their comparisons are those of 41–46. `Service` is one call of
`enet_host_service` as far as the peer is concerned, in its order: time, the
check of the timeouts, transmission, ping. `Acknowledge` is
`enet_protocol_handle_acknowledge` with the rebuilt sent time, the estimate and
the removal of the command. `first` of a command (when it was first sent),
`shortest`, `longest`, `heard` and `transmissions` are history.

Facts the model shows and the properties respect:

* Any acknowledgement, also a repeated one or one of another channel, clears
  `earliestTimeout` (2793). A peer that acknowledges something now and then is
  not timed out by one command that is never acknowledged.
* `1u << ((sendAttempts - 1) % 32)` starts again at 1 after 32 attempts, so a
  command at the limit may fall below it again. README.md:401 describes the
  limit as monotone.
* A command first sent at time 0 leaves `earliestTimeout` 0, which is none: the
  count starts one retransmission later. That is the factor 2 in `SilenceEnds`.
* A command waits as long as the estimate was when it was sent, not as long as it is
  now, so `SilenceEnds` counts `LongestWait`: the default estimate, or the longest
  round trip there was and four times the spread of the round trips. A bound by the
  waits of the commands that are in flight would be false: one sent at time 0 with the
  default wait is counted from its end, when all that are in flight may wait for less.
* An application may set `timeoutMinimum` above `timeoutMaximum` (`enet_peer_timeout`);
  the smaller of the two then decides, and `TimeoutDeserved` promises no more.
* `enet_host_service` checks the timeouts before it reads the socket. A host that
  was not serviced for `timeoutMaximum` with a command in flight gives the peer
  up before it looks at the acknowledgement that is waiting.
* An acknowledgement up to 2^15 ms old gives an exact round trip, one up to 2^16
  ms old is exact or ignored; older ones would be wrong (`WireLife`).
* The comparisons of 41–46 take times for near each other. The assumption
  `DefaultRoundTrip + 5 * WireLife + MaxStep + TimeoutMaximum < Overflow` says they
  are: a wait, the time to the next service and the timeout are together less than
  `ENET_TIME_OVERFLOW`, a day. `5 * WireLife` bounds `LongestWait`; with round trips
  below 2^16 ms and the default timeout it leaves more than 23 hours for `MaxStep`,
  the longest time an application may let pass between two services.

### Connection

`host[h]` is a record with the peers, `dispatchQueue`, `connectedPeers` and
`randomSeed`. The static functions of the code that take host and peer are
operators from the host record to the host record, under the names of the code
(`ChangeState`, `DispatchState`, `ResetQueues`, `Reset`, `NotifyConnect`,
`HandleConnect`, `HandleVerifyConnect`, `HandleDisconnect`,
`HandleAcknowledge`); `NotifyEnd` is the two notify_disconnect functions, which
differ in the event they report. An action is a call of the application
(`Connect`, `Disconnect`, `DisconnectNow`, `DisconnectLater`, `ResetPeer`,
`SendPacket`, `ReceivePacket`, `Ping`) or a step of the service:
`SendOutgoing`, `Retransmit` and `PeerTimeout` (`enet_protocol_check_timeouts`),
`ReceiveDatagram` (a whole datagram: header checks, every command in order,
acknowledgements queued, the stop at the first error), `DispatchIncoming` (one
turn of the dispatch loop). The service takes these steps in a fixed order; the
model takes them in any, because `enet_host_flush`, `enet_host_check_events` and
repeated services with an early return give most of these orders, so the model
allows every behaviour of the code and some more.

A datagram is what `send_outgoing_commands` puts together for a peer:
acknowledgements, then what timed out, then what is new, with the peer index and
the session of the sender's view. Data is abstracted to one reliable packet per
connection and direction, which is enough to keep the dispatch queue and
`disconnect_later` busy; the ordering of many is `ReliableChannel`'s subject.
`connectID` of a datagram is history (only a checksum callback would use it).
`net` is the set of all datagrams ever sent: each may arrive any number of
times, at any time, or never. `app` is what the events have told the
application, and `confirmed` the requests whose answer was taken.

`preventConnections` looks like a lost CONNECT to the other host and is not a
case of its own. The connect identifiers of two hosts are assumed different:
they are counters from a random seed.

### BufferPool

A step is one access to shared state (`orphans` by load, exchange or
compare-and-swap; `enabled`; the totals) with the thread's private work up to
the next one. `pc` gives the place in the code. `slots[t]` is a thread's cache,
`chain`, `kept`, `trimmed`, `head`, `drained`, `unparked` are locals. `next` is
the first word of each block, overwritten when the block is handed out or
freed; `stack` and `taken` are history variables that say which blocks *should*
be found by following it. `platform`, chosen at the start, is which of the two
exit hooks of the source is built: on Windows later detach handlers still run on
a thread that has retired its cache; on POSIX the key's destructor may run again.

## The runs

Each of them finishes within about three minutes on two cores. "Violation" runs are
explained under [findings](#findings).

| Run | States | Question | Properties |
|---|---|---|---|
| `channel` | 112,741 | do lists, windows and counters stay consistent and packets in order across the wrap of the sequence numbers, with the fragments of several packets mixed and with datagrams lost, late, repeated and reordered? | `TypeOK`, `WindowsCountOutstanding`, `RetransmitsFirst`, `NumbersUnambiguous`, `QueueSound`, `DataCounted`, `FifoSpec` |
| `channel_live` | 4,235 | do two channels with the same numbers stay apart, and is every packet delivered in the end? | `ForgottenOnlyWhenArrived`, `ReliableDelivery` |
| `channel_waiting` | | the same when the waiting data is limited to one fragmented packet | `ReliableDelivery` (violated) |
| `sequenced_channel` | 591,385 | are the three kinds of packets delivered as promised across the wraps, and is nothing left waiting that is ready? | `TypeOK`, `OnlyUnreadyWaits`, `HeldDataCounted`, `DeliverySpec` |
| `packets` | 277,516 | is every packet freed once, at the right moment, and dropped as a whole? | `TypeOK`, `ReferencesExact`, `DestroyedOnce`, `NothingLeaks`, `DroppedWhole` |
| `bandwidth` | 236,340 | do the computed limits fit the bandwidths, are they fair, is the count of limited peers exact? | `TypeOK`, `LimitedPeersCounted`, `OutgoingFits`, `IncomingShared` |
| `timeouts` | 684,759 | are timeouts, estimate and retransmission right while the clock wraps and acknowledgements are late, repeated or missing? | `TypeOK`, `NextTimeoutIsOldest`, `EstimateWithinSamples`, `TimeoutDeserved`, `SilenceEnds` |
| `pool` | 706,152 | is every block in one place, none lost, the stack a list, the statistics exact, with either exit hook? | `TypeOK`, `OwnedOnce`, `NothingLost`, `StackLinked`, `StatisticsAddUp` |
| `connection_events` | 269,010 | do events, counts and the dispatch queue follow the states through every interruption, with and without an event? | `TypeOK`, `EventsMatchStates`, `ConnectedPeersCounted`, `DispatchQueueExact` |
| `connection_reuse` | 90,472 | are connections of the same two hosts ever confused, with every old datagram coming back? | `NoTwinPeers`, `AcceptedWereConfirmed`, `SessionsTellConnectionsApart` |
| `connection_live` | 41,918 | does every request to connect or disconnect come to an end? | `RequestsEnd` |
| `connection_acknowledged` | | the same when both hosts connect to each other | `RequestsEnd` (violated) |

Two of the properties are refinements. `FifoSpec`: `ReliableChannel` implements
`ReliableFifo!Spec` with its `submitted` and `delivered`. `DeliverySpec`:
`SequencedChannel` implements `SequencedDelivery!Spec`, where `submitted` is the
class each packet was sent with. Each property has a mutant, a plausible slip in
one mapped definition (named `<definition>_<slip>` next to it), that makes TLC
report it violated.

### Bounds and why they are enough

* *Windows.* The source has 16 windows of 4096 and counts 8 as free. The reliable
  runs use 6 windows of two commands with 3 free, `sequenced_channel` 7 of one
  with 4: the smallest geometries in which all the cases of the code differ
  (accepted windows, the windows ignored without acknowledgement, the older ones
  acknowledged as duplicates, the mask of `FreeWindows + 2` windows that wraps).
* *Packets.* `channel` sends four packets of two fragments each, eight commands with
  the numbers 9 to 11 and, after the wrap, 0 to 4. The packets start at odd numbers, so each lies across two windows and two packets
  are accepted at a time: their fragments mix, the waiting list holds two of them,
  one is inserted in front of the other, also when the wrap makes its number the
  larger one, and both are dispatched at once when the gap is filled. The transit
  limits of 2 and 8 keep most commands back or none. Eight commands are
  enough for a number
  to leave the windows the receiving peer accepts, and that is how the run finds a
  window check that is missing; for two commands in flight to have the same number
  there would have to be thirteen, so that part of `NumbersUnambiguous` rests on
  `NumbersStayUnambiguous` alone. A packet of this run that is complete never waits
  behind one of which nothing has arrived; `channel_live`, whose packets are single
  commands, has that. It starts at the last number before the wrap.
  `sequenced_channel` has five packets of any kind, the unreliable number ends
  at 2 so that an unreliable packet is forced to be reliable, and starts just
  before both the reliable numbers and the unsequenced groups wrap.
* *Waiting data.* Four in `channel`, that is two packets, waiting or not yet
  received: a third is refused until the application has received one, and is sent
  again. One packet at most is accepted behind a gap there, so the one that fills the
  gap is refused only as long as packets wait to be received. Eight in
  `channel_live`, more than there is; four of up to seven in
  `sequenced_channel`, so packets are refused; two in `channel_waiting`, where one
  fragmented packet fills it and the one before it never finds room.
* *`Lifetime` and `ReliableAhead`.* How many newer packets a datagram may survive
  and how many reliable packets may be under way: assumptions about the network
  and the sender's windows, at the limit that the geometry allows or one below. It
  leaves a retransmission time to arrive: the windows let the sender get four
  commands ahead of one that is not acknowledged.
* *`packets`.* Two peers and up to two packets, in the four batches that
  `MCBatches` names: a large one that is acknowledged, INSTANT ones behind each
  other, a large unreliable one in front of a small one, unsequenced ones that
  share their numbers. Every packet may be sent, broadcast to all, or broadcast to
  a list that names a peer twice. The throttle lets all or part through; its
  counter has 4 places instead of 32. The 16-bit wrap of the numbers is not in
  this model.
* *`bandwidth`.* Three peers, so that removing one changes what is left for two;
  bandwidths of 0, little and much, and data up to the bound for each; words of 256.
* *`timeouts`.* A clock of 128 that starts 7 before its wrap and runs to 12 after
  it, sent times modulo 8, attempts modulo 3, so all three kinds of number wrap;
  services that come at once, regularly or late; acknowledgements up to 5 old. The
  run ends at `MaxTime` and is not checked for deadlock.
* *`pool`.* Two threads, four blocks, caches of two places, batches of two: caches
  overflow, adoption trims, batches are published in the middle of an operation
  and a block goes through several owners. `MaxAcquires` bounds counted
  acquisitions only. The theorems remove the bounds.
* *Connections.* `connection_events` has one connection with every interruption
  except the abrupt ones; `connection_reuse` gives the client one slot that it
  uses twice and the server two, which is when identifiers matter. They are
  separate because their product is too large. `MaxAccepts`
  bounds how often a host accepts: a CONNECT that is delayed beyond the life of
  the connection it opened is accepted again, each time with the next of four
  sessions, so after four such repetitions a session does come back. The runs
  stay below this limit; the property is about the repetitions the code is
  designed for, and the limit itself is a fact about the code worth knowing.
  `MaxQueued` bounds the acknowledgements a peer has not sent, `MaxPings` the
  pings of a connection. `Calls` chooses which functions the application uses.
* *Deadlock* is not checked for `Connection`, because an application that has
  disconnected may stop calling, nor for `timeouts`. It is checked in the other
  runs, whose systems can always retransmit, drain, visit or start.

`SessionsTellConnectionsApart` has one exception, which TLC shows to be needed:
a late VERIFY_CONNECT of an earlier accept of the same request is accepted by
header, ignored by its handler (the peer is not CONNECTING) and acknowledged.

A late VERIFY_CONNECT or DISCONNECT of an earlier connection that reaches a peer
which is CONNECTING again ends the new attempt with an event. The application is
told, so no property forbids it.

## Fairness

`ReliableChannel!FairSpec`: the applications keep servicing both hosts, so the
outgoing queue is flushed, timed-out commands are sent again, acknowledgements
leave and received packets are taken (weak fairness). Of the network it assumes
only that a datagram that is sent again and again is not lost every time (strong
fairness per sequence number). Timing is left out: a timeout may come at any
moment, `TimeOutAll` says that it comes eventually. That a command in flight does
have a time at which it is sent again is `NextTimeoutIsOldest` of `PeerTimeouts`.

`Connection!FairSpec` assumes nothing of the network and nothing of the other
host. The service sends what is queued and empties the dispatch queue (weak
fairness). `PeerTimeout` is strongly fair: a command that is sent but never
acknowledged goes back and forth between the sent and the outgoing list, so the
timeout is not continuously enabled, but in the code `earliestTimeout` and
`sendAttempts` grow until 3201 fires; `SilenceEnds` of `PeerTimeouts` bounds the
time that takes. No fairness is given to any call of the application or to the
arrival of any datagram.

`PeerTimeouts` states its deadlines as safety properties of its clock and needs
no fairness: a service that comes, comes at most `MaxStep` after the last.

## Proofs

`ReliableChannelProofs` and `ReliableNumbersProofs` prove, for any channels, windows,
limits and packets,

* `TypesKept`: `Spec => []TypeOK`, no unsigned counter goes below zero;
* `WindowsCount`: `Spec => []WindowsCountOutstanding`, the counters the window check
  relies on are exact through timeouts, retransmissions and acknowledgements;
* `RetransmitsStayFirst`: `Spec => []RetransmitsFirst`, so the search for an
  acknowledged command does not stop in front of it;
* `DataStaysCounted`: `Spec => []DataCounted`, both counters of data follow the lists;
* `NumbersStayUnambiguous`: `Spec => []NumbersUnambiguous`, no two outstanding commands
  of a channel have the same wrapped number, and those that have not arrived are in
  the windows ahead of the last one dispatched;
* `QueueStaysSound`: `Spec => []QueueSound`, the list of waiting packets is sorted
  across the wrap, without duplicates and without anything delivered;
* `OnlyArrivedForgotten`: `Spec => ForgottenOnlyWhenArrived`, the sending peer forgets
  a command only when it has arrived;
* `ChannelIsFifo`: `Spec => FifoSpec`, the channel implements `ReliableFifo`: whatever is
  lost, repeated, late or reordered, each packet submitted is delivered at most once,
  whole, and in order.

The first four are in `ReliableChannelProofs`. They need the inductive invariant `CInv`
and nothing about the meaning of the numbers: they hold for any sequence numbers in the
datagrams and acknowledgements. `Listed` says that a command is in one of the two
lists of the sending peer and once, that those in flight were attempted, and that the
attempted ones of the queue are in front; with a bound on their numbers (`Queued`), so
that a new command differs from all. The window counters are cardinalities of sets of
commands, so they are right only because of that: `SentCounted` shows that what a pass
adds to them is what it sends for the first time, `RemovedCounted` that an
acknowledgement takes off the one command that leaves. The code decrements the window
of the number in the acknowledgement, not of the command it found: `FoundIs` is why
they are the same. The counter of waiting data is a sum over channels of sums over
lists; `DispatchSound` moves a part of one sum to another, `InsertedSizes` adds a
packet, and no fragment that is copied later changes it.

The last four, in `ReliableNumbersProofs`, say what the 16-bit numbers are good for, and
need `NInv`. It is `CInv` and the existence, on each channel `c`, of a layout `E[c]` (the
numbers, before they wrap, on which each packet ends), the last packet `P[c]` that was
dispatched and the newest number `T[c]` ever sent. The packets up to `P[c]` were dispatched in order; the
numbers that have *settled* at the receiving peer are those up to `E[c][P[c]]` and
those of the fragments stored in the waiting list. The heart of it is `Reach`, about
the distances between windows:

* what waits for an acknowledgement is at most `T[c]`, and `Window(T[c])` is at most
  `Windows - FreeWindows - 2` windows ahead of it;
* every number up to `T[c]` waits for an acknowledgement or has settled, and the
  last number dispatched is at most `FreeWindows - 1` windows behind `T[c]`;
* a number that has settled is at most `FreeWindows - 2` windows ahead of the last
  number dispatched.

They hold each other up. A number is sent when the counters of its own window and of
the windows around it leave room; as the counters are exact (`CInv`), that bounds the
distance to the oldest number that waits for an acknowledgement, and thereby to the
last one dispatched (`ReachGrows`). Conversely, the distances are what makes the
handlers right: a datagram that is accepted is one of the next `FreeWindows - 1`
windows and not one of the last cycle (`AcceptedReach`, `StaleRefused`), the scan of
the waiting list compares the numbers as if they had not wrapped (`OrderRestored`),
a fragment finds the packet it belongs to and no other (`MeetsIs`), and an
acknowledgement removes the command it was made for. Every acknowledgement under way
or owed is of a settled number and none of them names a newer command (`Known`,
`Owed`), so what is forgotten has arrived.
The datagrams under way are less than `Lifetime` commands old (`Young`). The simulation
of `ReliableFifo` is then short: only `Send` and `Receive` do not stutter, and the
packet `Receive` returns is the next one, because the dispatched packets are
`delivered + 1 .. P[c]`, each made of its own data (`FifoStep`).

The assumptions are those of the module: `LimitAssumption`, `LifetimeAssumption`, and
`HalfAssumption` (`Windows <= 2 * FreeWindows`, in the source 16 and 8), which an
acknowledgement needs that the receiving peer has yet to send: the commands in flight
and the old datagrams it may still acknowledge fit into one cycle together, so that
such an acknowledgement does not name a command of the next cycle. None depends on
`MaxPackets`.

`ConnectionProofs` proves, for any hosts and peers, any calls of the applications
and a network that holds every datagram ever sent,

* `TypeCorrect`: `Spec => []TypeOK`;
* `ConnectedPeersAreCounted`: `Spec => []ConnectedPeersCounted`, so the unsigned
  count never wraps;
* `DispatchQueueIsExact`: `Spec => []DispatchQueueExact`, the intrusive queue has
  exactly the flagged peers, each once;
* `EventsFollowStates`: `Spec => []EventsMatchStates`, one CONNECT and one ending
  for each peer the application knows, and nothing of the others;
* `NoTwins`: `Spec => []NoTwinPeers`, a repeated request occupies one peer.

The inductive invariant `IInv` says of each host, between two actions, `HostInv`:
the records and lists of its peers are well-formed, count and queue are exact, no
two peers are twins, no event is left over, and the application's view of each
peer is one that `Expected` allows in the state of the peer. While a datagram is
handled the last part does not hold as it stands, because an event may be set that
the application has not seen: `Handling` is the invariant in that interval, with
the view after the event in the place of the view. Every function of the code that
takes a host and a peer is shown `Local` (it leaves the other peers alone and keeps
count and queue) and to change the peer's state as its name says; a handler is
then a short chain of such functions, and a datagram a chain of handlers.
`NoTwinPeers` needs `IdentityOK`: a request is named after the host that makes it, a
host never repeats a name (`randomSeed` is beyond every name in use), and no CONNECT
on the wire names another host than its sender. `EventsMatchStates` alone does not say
what a zombie or a peer in CONNECTION_SUCCEEDED will report; `Expected` does.

`OutgoingPacketsProofs` proves, for any peers, packets, fragments, throttle and
recipients of a broadcast,

* `TypeCorrect`: `Spec => []TypeOK`;
* `ReferencesAreExact`: `Spec => []ReferencesExact`;
* `PacketsDestroyedOnce`: `Spec => []DestroyedOnce`, with the flag of the packets
  that were sent;
* `NoPacketLeaks`: `Spec => []NothingLeaks`;
* `PacketsDroppedWhole`: `Spec => []DroppedWhole`.

The inductive invariant is `IInv`: the types, `ReferencesExact`, and

* `Lives` of each packet: it was destroyed exactly if ENet has it, nothing refers
  to it and it is not being broadcast. `DestroyedOnce` and `NothingLeaks` both
  follow from it and the counts;
* `Guarded`: peers are visited within a broadcast only if its packet is INSTANT,
  that is, only if the broadcast holds a reference. Without the reference a flush
  could destroy the packet under the loop: the mutant `Broadcast_Unguarded`;
* `InOrder` of each peer, about the order of its lists. `InRuns`: the fragments of
  an unreliable packet stand in one run, and a run that does not begin with the
  first fragment belongs to a packet whose beginning was sent. `Waits`: of a
  reliable packet the first fragment is in front of the others or was sent, and
  every fragment that was never sent is there. `Whole`: who was sent a fragment
  was sent the first one;
* `SentReachedAPeer`: a packet flagged as sent reached a peer to its last fragment.

That the throttle drops packets whole follows from the order and from nothing else:
it decides at the first fragment and follows equal numbers, so a run that stands
together is dropped together (`ThrottleVerdict`), and the datagram may be full in the
middle of a run that was not dropped but not in the middle of one that was
(`RunsCut`). When the last reference of a packet goes with a command that was sent,
the flag is right because the fragments before it in the run, or those that are no
longer in the lists, were sent (`Complete`). The counts are about the cardinality
of a set of places in all lists, which `PlacesSplit` divides by peers, `HoldingConcat`
and `HoldingDivided` by parts of a list.

`DataProofs` has the lemmas these and other proofs need: `Chosen(s, C)` has the elements
of `s` at the places `C`, each once and in their order (`ChosenEmbeds`), and `Kept`
those in a set. The models use these recursive functions where the library has
`SelectSeq` and `FoldLeft`, whose operator argument the provers cannot instantiate;
the induction is on a set of numbers (`Induct`), with the least number principle of
the library, in the place of the predicate of an induction theorem.

`BufferPoolProofs` proves, for every set of threads and blocks and all limits,

* `TypeCorrect`: `Spec => []TypeOK`, including that no cache outgrows its array;
* `ExclusiveOwnership`: `Spec => []OwnedOnce`, no block is ever in two places;
* `StackIntact`: `Spec => []StackLinked`, following the links from the top of the
  stack or of a taken chain gives exactly the blocks parked there, and ends;
* `CachesPrivate`: a step of one thread leaves the cache, the chain and the place
  of every other thread alone, and every link of a block it does not hold;
* `EveryBlockKept`: `Spec => []NothingLost`, each block is in a cache, on the
  stack, in a chain, in a packet or with the allocator;
* `StatisticsStayTrue`: `Spec => []StatisticsAddUp`, the totals with what is not
  published yet account for every packet and every block.

They rest on the assumptions of the module: `NoBlock` is not a block, the
limits are positive, and there are finitely many threads and blocks, so that
they can be counted. None depends on the bound `MaxAcquires`.

The inductive invariant is `IInv == TypeOK /\ OwnedOnce /\ StackLinked /\
Pushing`. Neither of the middle two is inductive alone. A chain is walked by
reading `next` and the history `taken` loses its first block: that the block
moved to the cache is the one that left the chain is `StackLinked`. That no
other thread overwrites the link of a block on the stack or in a chain is
`OwnedOnce`: whoever writes a link holds the block. `Pushing` says that the
blocks about to be pushed are linked to each other already, which the
compare-and-swap needs to make them part of the list. ABA is harmless in this
argument: the swap compares the top only, but a top that is equal *is* the first
block of the current stack, and what lies below it is read from the block itself
by whoever takes it. `StepConfined` (a step touches only what its thread holds)
carries every part of the invariant over to the other threads. The lemmas
`AppendBlock`, `FrontBlock`, `TailBlock` and `JoinBlocks` say what the sequence
operators do to the blocks of a sequence and to their being distinct.

Another invariant gives `EveryBlockKept`. Every step that
forgets a cache or a chain (`Respawn`, the end of a walk, `TakeAll` over an old
chain) loses nothing because what it forgets is empty; that needs `CacheSound`,
which ties the place of a thread in the code to its two flags, its cache and its
chain. Nothing else in a step loses a block: what leaves a thread's hands goes to
the stack, a packet or the allocator in the same step (`StepKept`), and
`CachesPrivate` covers the other threads. `IInv` is used as it is.

`StatisticsAddUp` is not inductive: it says nothing of the totals while a thread drains
or walks a chain, and bounds the orphans from below only. `SInv` has four sums that are
true between any two steps (`Balanced`). A thread's part of the retained blocks is its
cache, its chain and what it trimmed or freed without having counted it; of the orphans,
its chain, what it took off the chain, and its cache while it is pushing. A step that
balances what it counts against the part of its own thread keeps the sums
(`StepBalances`, `SumMoves`); that each step does is one lemma per step (`...Settled`).
`LocalsSound` says where in the code those parts are zero, and that a thread without a
cache has nothing pending, so that `Respawn` loses no count. Whether a block handed out
was alive before, which would make one packet less than hits and misses say, is
`OwnedOnce`. Between drains and walks the parts are the caches alone.

`BandwidthProofs` proves, for any finite set of peers, any bandwidths and any order
of connecting, announcing, sending and going,

* `LimitedPeersExact`: `Spec => []LimitedPeersCounted`;
* `TypeCorrect`: `Spec => []TypeOK`, with every throttle below its limit;
* `OutgoingNeverExceeds`: `Spec => OutgoingFits`, what the limits let through fits
  into what each limited peer may receive and into the bandwidth of the host;
* `IncomingSharedFairly`: `Spec => IncomingShared`, what the peers are told is fair.

They rest on the named assumption of the module: the products of the code fit a word
(they do not from 4.29 MB/s on, see above) and some time has passed, of which line
4691 makes a second. The inductive invariant `BInv` is small: the types, the count,
and that every bandwidth was announced by a peer or given to the host. The count
changes where a peer connects, announces a new bandwidth or goes, by its bandwidth
before and after, which is an argument about a set that gains or loses one member.

The two action properties are about the loops, so their proofs have loop invariants
of their own. `GoodShare` holds before each round of the first loop: nothing wrapped
(what is left and what the peers that left may receive add up to what was offered);
what is left of the total covers what the peers that are left have queued; and who
left may receive less than it has queued. It survives a round because the overloaded
peers together may receive less than their part of the bandwidth (`OverloadedFit`),
that is, less than is left: this is why the unsigned subtractions of 4746 and 4747 do
not wrap. `LimitedDataFits` then adds up the limits: those of the peers that left and
the common one. `GoodFairShare` is its counterpart in the second loop: the last equal
part fits into what is left once for each peer that is left. It makes the equal part
grow from round to round, so a peer that left because it sends less than one part
sends less than the last one. Each loop has come to rest when its rounds are used up,
because a round that changes something loses a peer (`SharedIsShare`,
`FairShareSettles`): that is termination of the code's loops in numbers.

The sums are those of the community modules. That a fold with `+` exists and is the
same in whatever order it takes its elements is proved in `DataProofs` (`SumExists`,
`SumChosen`) by induction over the subsets of a finite set; `SumRemove`, `SumUnion`,
`SumLeq` and `SumCompare` are what the other proofs cite.

`PeerTimeoutsProofs` proves, for any width of the clock and of the sent times, any
gains, timeouts and number of commands, any calls and any acknowledgements that
arrive within `WireLife`, with no bound on how often the clock wraps,

* `TypeCorrect`: `Spec => []TypeOK`;
* `EstimateTrue`: `Spec => []EstimateWithinSamples`;
* `NextTimeoutOldest`: `Spec => []NextTimeoutIsOldest`;
* `SilenceTimesOut`: `Spec => []SilenceEnds`, a silent peer is given up in time;
* `TimeoutsDeserved`: `Spec => TimeoutDeserved`, and no other peer is.

They rest on `TimeAssumption`: `WireLife < SentTimeRange`, and times that are compared
are less than `Overflow` apart (see above). The invariant has two parts.

`EInv` is about the estimate: it is a word between the extremes of the round trips
taken, and its variance is at most their spread (`Spread`), so `Patience` is at most
`LongestWait`. The heart of it is the lemma `SentTimeRestored`: from the low half of a
time and the present time, `SentTime` gives back the whole time, or one that lies in
the future and is ignored, if the acknowledgement is younger than the range of the
half. A weighted mean with integer division stays between its arguments, rounding
included.

`TInv` is about the timers. Each word is compared with the time it stands for on a
line that does not wrap: `SentAt` is the time a command was sent, and `Compare` says
that `TimeLess` and `TimeDifference` give the order and distance of two times that
are less than `Overflow` apart. `Lists` says that after every step each
command in flight was sent less than `LongestWait` ago, and that the list is in the
order of the times of sending; so `nextTimeout` is the deadline of the one sent first.
That need not be the *earliest* deadline, as waits differ. But while the first is not
overdue, no other is older than it, and when it is, all that are overdue are retried
(`Ages`, `OverdueByAge`, `CheckedLists`); between two services one grows older by
`MaxStep` at most.

What bounds the silence is the meaning of `earliestTimeout` (`Began`). If it is not 0
it stands for a time `m` that is near the last news of every command: at most one
service after the command was first sent or the last acknowledgement was taken, and
not before the first transmission of some command (`Mark`). If such a time falls on
word 0 the code takes it for none; then the time the count starts again is at most one
wait and one service after that (`AfterZero`, `Late`). `EarliestReaches` is the
invariant of the loop of `enet_protocol_check_timeouts`: after each command,
`earliestTimeout` is such a mark. A peer that is not given up therefore has a mark
less than `TimeoutMaximum` old (`NotGivenUp`), which gives `SilenceEnds`; a peer that
is given up has one that is old enough, and a command first sent before it, which gives
`TimeoutDeserved`. Acknowledgements clear the mark and count as news.

`ReliableChannelProofs` begins with the arithmetic both channel modules share, for any
number and size of windows. Numbers on the wire are taken from numbers that never
wrap; `RelativePosition` says that the relative window of a number less than a
cycle ahead is its window on the line that does not wrap.

* `AcceptedReach`: `InWindow` accepts only what is less than `FreeWindows - 1`
  windows ahead, and all that is within `FreeWindows - 2`;
* `StaleRefused`: a command at most `Windows - FreeWindows + 1` windows late is
  never accepted. This is where the assumption on the life of a datagram in
  `ReliableChannel` and `SequencedChannel` comes from, and what the `uint16`
  numbers of the code buy: 9 windows of 4096;
* `OrderRestored`: `NotAfter` orders the commands of a waiting list as they were
  sent.

They are about operators. That the numbers in transit of a channel stay this close is
the invariant `NInv` of `ReliableNumbersProofs`, which cites them.

### Model-checked only

* `AcceptedWereConfirmed` and `SessionsTellConnectionsApart` of `Connection`. In
  general they are false: sessions have two bits, and after four repetitions of a
  delayed CONNECT one comes back (see the bounds).
* `RequestsEnd`, `ReliableDelivery`: liveness under fairness is beyond the prover.
* `SequencedChannel`: its invariants and the refinement `DeliverySpec`. The arithmetic
  it rests on is proved (the beginning of `ReliableChannelProofs`), its invariant is not.

## Findings

**A full waiting limit blocks the channel forever** (`channel_waiting`).
`enet_peer_queue_incoming_command` refuses a new packet while
`totalWaitingData >= maximumWaitingData` (4313), also the very packet that fills
the gap. The first fragment of a later packet reserves the whole packet
(4313–4349). If a packet is lost and the large one behind it arrives first, the
lost one is refused at every retransmission; nothing behind it can be dispatched,
so the waiting data never shrinks. `maximumPacketSize` and `maximumWaitingData`
have the same default, 32 MB, so one packet of the maximum size is enough.
README.md:244 promises that resend attempts are made until the packet is
delivered. If nothing else is acknowledged, the peer times out in the end; as
long as other channels are acknowledged it does not even do that (2793). The
packet is not delivered although the network lost it only once.

**A late acknowledgement silences a connection request**
(`connection_acknowledged`). Two hosts connect to each other with the same
peers. The server accepts the client: it sends VERIFY_CONNECT, command number 1
of the control channel, and the client acknowledges it. The acknowledgement is
late, the server's peer times out and is free. Now the server's application
connects to the client and gets the same peer; its CONNECT is number 1 again.
While `outgoingPeerID` is unknown the session is not checked (2911), so the late
acknowledgement is accepted and `enet_protocol_handle_acknowledge` removes
number 1, whatever it is (2796). In state CONNECTING nothing checks what was
removed. If the CONNECT was lost, it is never sent again and there is nothing
left to time out: the peer stays CONNECTING, no event is ever reported.
README.md:269 says a timeout event occurs if a connection request has timed out.
A checksum callback would reject the datagram, as it seeds the checksum with the
connect identifier.

Smaller differences between code and documentation, which the models contain but
no run is about: what a throttle of 0 lets through (README.md:391), the timeout
limit that is not monotone (README.md:401), the leak of `totalWaitingData` (3792).

## What is not modelled

* The contents of packets, the layout of datagrams, the checksum, the intercept
  callback, addresses and sockets.
* A datagram always has room for what is queued; `continueSending` and the
  splitting over several datagrams only make more, smaller datagrams.
* Of the handshake: `eventData`, the negotiation of MTU, window, bandwidth,
  throttle parameters and channel counts, broadcast addresses.
* Malformed datagrams: senders are this library.
* In `SequencedChannel`: fragments of reliable packets (they are in
  `ReliableChannel`); the reliable fall-back of a large unreliable packet is one
  number instead of one per fragment.
* In `OutgoingPackets`: several channels, commands without a packet, the wrap of
  the numbers. One consequence was seen in the code only: when the 16-bit reliable
  number has wrapped to 0, a peer-level command has the same numbers as an
  unsequenced packet dropped before it, and the drop run would follow a null
  packet.
* In `BandwidthLimits`: `windowSize`, THROTTLE_CONFIGURE, the epochs in which the
  throttle collects its extremes.
* In `PeerTimeouts`: `enet_host_flush`, the extremes kept for the throttle.
* Of the pool: the destructor that runs when the library is unloaded, and
  requests served without the pool. Both depend on the dynamic loader or the
  build, not on the order of steps.
* Failure of `enet_malloc`, except in the pool, where it is a case.
* The managed wrapper, tests, benchmarks, build files.

## Plan

What is left, in order:

1. Composition: `Connection` with the reliable lists of a channel, to state what
   `disconnect_later` promises about packets that were sent before it, and
   `OutgoingPackets` with numbers that wrap and two channels.
2. The negotiation of channel counts, window and MTU in the handshake, with a
   property that both sides agree.
3. Proofs: `OnlyUnreadyWaits` and `HeldDataCounted` of `SequencedChannel`, on the pattern
   of `NInv`.
