-------------------------- MODULE ReliableChannel --------------------------
(***************************************************************************)
(* The reliable channels of two connected peers of Source/Native/enet.h,   *)
(* one direction: the sending peer's outgoing and sent lists, its window   *)
(* counters and its transit limit; a network that loses, duplicates and    *)
(* reorders datagrams; the receiving peer's windows, its list of commands  *)
(* waiting for a gap to be filled, its dispatched packets and its queue of *)
(* acknowledgements.                                                       *)
(*                                                                         *)
(* Sequence numbers on the wire are Windows * WindowSize wide and wrap.    *)
(* The model numbers commands without wrapping (abs) and gives the code's  *)
(* handlers only the wrapped number, Seq(m).                               *)
(* Every fragment is one command, one datagram and one unit of data: the   *)
(* payload of a fragment is bounded by the MTU and so is that of a whole   *)
(* unfragmented packet.                                                    *)
(***************************************************************************)
EXTENDS SequenceWindows, Sequences, FiniteSets, SequencesExt, FiniteSetsExt, SubSequences

CONSTANTS
    Channels,           \* channel identifiers of the connection
    MaximumWaitingData, \* host->maximumWaitingData, in fragments
    TransitLimits,      \* values the throttled window size takes, in fragments
    FragmentCounts,     \* sizes of packets; a packet of size 1 is not fragmented
    Lifetime,           \* a datagram does not outlive this many newer commands
    Lossy,              \* whether a lost datagram leaves the network at once
    MaxPackets,         \* bound: packets submitted on all channels
    StartAt             \* commands already delivered and acknowledged at Init

ASSUME LimitAssumption ==
    /\ MaximumWaitingData \in Nat /\ MaxPackets \in Nat /\ StartAt \in Nat
    /\ TransitLimits \subseteq Nat \ {0}
    /\ FragmentCounts \subseteq Nat \ {0} /\ FragmentCounts # {}
    /\ Lossy \in BOOLEAN /\ IsFiniteSet(Channels)

\* The lifetime of a datagram and the span of the commands in flight fit into one
\* cycle of sequence numbers together, so an acknowledgement that the receiving peer
\* has yet to send still names one command (16 windows, 8 of them free).
ASSUME HalfAssumption == Windows <= 2 * FreeWindows

\* enet_peer_queue_incoming_command takes a command that is Windows -
\* (FreeWindows - 1) windows old, or older, for one of the next cycle; of a
\* fragment it looks at the first number of the packet.
ASSUME LifetimeAssumption ==
    /\ Lifetime \in Nat \ {0}
    /\ \A n \in FragmentCounts :
          Lifetime + n <= (Windows - FreeWindows + 1) * WindowSize + 1

VARIABLES
    \* sending peer
    submitted,                    \* packets handed to enet_peer_send, per channel
    lastQueued,                   \* outgoingReliableSequenceNumber before wrapping
    reliableWindows,              \* channel->reliableWindows
    outgoingSendReliableCommands, \* queued, or timed out and queued again
    sentReliableCommands,         \* in flight, waiting for an acknowledgement
    reliableDataInTransit,
    \* network
    data, acks,
    \* receiving peer
    incomingReliableSequenceNumber,
    incomingReliableCommands,     \* ordered, waiting for an earlier command
    dispatchedCommands,           \* in order, waiting for enet_peer_receive
    totalWaitingData,
    acknowledgements,             \* to be sent by the next service
    delivered                     \* history: what enet_peer_receive returned

senderVars == <<submitted, lastQueued, reliableWindows, outgoingSendReliableCommands,
                sentReliableCommands, reliableDataInTransit>>
receiverVars == <<incomingReliableSequenceNumber, incomingReliableCommands,
                  dispatchedCommands, totalWaitingData, acknowledgements, delivered>>
vars == <<senderVars, data, acks, receiverVars>>

-----------------------------------------------------------------------------
(* Commands *)

\* A command of channel ch: fragment number frag of the count fragments of
\* packet pkt.  attempted stands for sendAttempts >= 1.
Command(c, abs, frag, count, pkt) ==
    [ch |-> c, abs |-> abs, frag |-> frag, count |-> count, pkt |-> pkt, attempted |-> FALSE]

Seq16(m) == m.abs % SeqSpace                  \* reliableSequenceNumber on the wire
StartSeq16(m) == (m.abs - m.frag) % SeqSpace  \* startSequenceNumber of its packet

Fresh(m) == ~m.attempted

-----------------------------------------------------------------------------
(* The sending peer *)

\* enet_peer_send of a reliable packet cut into n fragments (whole if n = 1).
Send(c, n) ==
    /\ SumFunction(submitted) < MaxPackets
    /\ submitted' = [submitted EXCEPT ![c] = @ + 1]
    /\ lastQueued' = [lastQueued EXCEPT ![c] = @ + n]
    /\ outgoingSendReliableCommands' = outgoingSendReliableCommands \o
         [i \in 1 .. n |-> Command(c, lastQueued[c] + i, i - 1, n, submitted[c] + 1)]
    /\ UNCHANGED <<reliableWindows, sentReliableCommands, reliableDataInTransit,
                   data, acks, receiverVars>>

\* As CountedWindows below, but a retransmission counts again.
CountedWindows_EveryAttempt(queue, n) ==
    [c \in Channels |-> [w \in 0 .. Windows - 1 |->
        reliableWindows[c][w] +
        Cardinality({i \in 1 .. n : queue[i].ch = c /\ Window(Seq16(queue[i])) = w})]]

\* The window counters once the first n commands of queue have been sent:
\* a command is counted at its first attempt only.
CountedWindows(queue, n) ==
    [c \in Channels |-> [w \in 0 .. Windows - 1 |->
        reliableWindows[c][w] +
        Cardinality({i \in 1 .. n : Fresh(queue[i]) /\ queue[i].ch = c
                                                    /\ Window(Seq16(queue[i])) = w})]]

\* As WindowBlocks below, but the windows do not hold anything back.
WindowBlocks_Never(windows, m) == FALSE

\* The first command of a window waits while the window before it is full or
\* while one of the FreeWindows + 2 windows from its own on is still in use.
WindowBlocks(windows, m) ==
    LET w == Window(Seq16(m))
    IN  /\ Fresh(m)
        /\ Seq16(m) % WindowSize = 0
        /\ \/ windows[m.ch][(w + Windows - 1) % Windows] >= WindowSize
           \/ \E k \in 0 .. FreeWindows + 1 : windows[m.ch][(w + k) % Windows] > 0

\* How many commands of queue one pass of enet_protocol_check_outgoing_commands
\* sends: it stops at the first command held back by a window or by the limit.
Sendable(queue, inTransit, limit) ==
    LET room == Max({0, Min({limit - inTransit, Len(queue)})})
        held == {i \in 1 .. room : WindowBlocks(CountedWindows(queue, i - 1), queue[i])}
    IN  Min({i - 1 : i \in held} \cup {room})

\* As Requeued below, but behind the commands that were never sent.
Requeued_AtTheEnd(timedOut) ==
    outgoingSendReliableCommands \o Kept(sentReliableCommands, timedOut)

\* enet_protocol_check_timeouts puts the commands that waited too long back in
\* front of outgoingSendReliableCommands, in the order they were sent in.
Requeued(timedOut) ==
    Kept(sentReliableCommands, timedOut) \o outgoingSendReliableCommands

\* Datagrams that are still in the network when top[c] is the newest sequence
\* number sent on channel c.
Alive(messages, top) == {m \in messages : m.abs + Lifetime > top[m.ch]}

NewestSent(queue, last) ==
    [c \in Channels |->
        last[c] - Cardinality({i \in DOMAIN queue : queue[i].ch = c /\ Fresh(queue[i])})]

\* enet_protocol_send_outgoing_commands for the sending peer.  The commands of
\* timedOut have waited for their roundTripTimeout (an enet_host_flush checks no
\* timeouts: timedOut = {}).  They are queued again, then the queue is sent as
\* far as limit, the throttled window size, and the windows allow.
SendOutgoing(timedOut, limit) ==
    LET queue == Requeued(timedOut)
        kept  == Kept(sentReliableCommands, Range(sentReliableCommands) \ timedOut)
        inTransit == reliableDataInTransit - Cardinality(timedOut)
        n     == Sendable(queue, inTransit, limit)
        now   == [i \in 1 .. n |-> [queue[i] EXCEPT !.attempted = TRUE]]
        rest  == SubSeq(queue, n + 1, Len(queue))
        top   == NewestSent(rest, lastQueued)
    IN  /\ timedOut \subseteq Range(sentReliableCommands)
        /\ outgoingSendReliableCommands' = rest
        /\ sentReliableCommands' = kept \o now
        /\ reliableWindows' = CountedWindows(queue, n)
        /\ reliableDataInTransit' = inTransit + n
        /\ data' = Alive(data \cup Range(now), top)
        /\ acks' = Alive(acks, top)
        /\ UNCHANGED <<submitted, lastQueued, receiverVars>>

\* enet_protocol_find_sent_reliable_command: the search gives up at the first
\* command that was never sent.
FoundSent(queue, a) ==
    {i \in DOMAIN queue : /\ queue[i].ch = a.ch /\ Seq16(queue[i]) = Seq16(a)
                          /\ \A j \in 1 .. i : ~Fresh(queue[j])}

\* As FoundInFlight below, but the channel is not compared.
FoundInFlight_AnyChannel(a) ==
    {i \in DOMAIN sentReliableCommands : Seq16(sentReliableCommands[i]) = Seq16(a)}

FoundInFlight(a) ==
    {i \in DOMAIN sentReliableCommands :
        /\ sentReliableCommands[i].ch = a.ch
        /\ Seq16(sentReliableCommands[i]) = Seq16(a)}

\* As RemoveSent below, but data of a command that timed out and left
\* sentReliableCommands is taken off once more.
RemoveSent_AlwaysInTransit(a) ==
    LET sent   == FoundInFlight(a)
        queued == FoundSent(outgoingSendReliableCommands, a)
        w      == Window(Seq16(a))
    IN  IF sent \cup queued = {}
        THEN UNCHANGED <<reliableWindows, outgoingSendReliableCommands,
                         sentReliableCommands, reliableDataInTransit>>
        ELSE /\ reliableWindows' = [reliableWindows EXCEPT
                    ![a.ch][w] = IF @ > 0 THEN @ - 1 ELSE @]
             /\ reliableDataInTransit' = reliableDataInTransit - 1
             /\ IF sent # {}
                THEN /\ sentReliableCommands' = RemoveAt(sentReliableCommands, Min(sent))
                     /\ UNCHANGED outgoingSendReliableCommands
                ELSE /\ outgoingSendReliableCommands' =
                            RemoveAt(outgoingSendReliableCommands, Min(queued))
                     /\ UNCHANGED sentReliableCommands

\* enet_protocol_remove_sent_reliable_command
RemoveSent(a) ==
    LET sent   == FoundInFlight(a)
        queued == FoundSent(outgoingSendReliableCommands, a)
        w      == Window(Seq16(a))
    IN  IF sent \cup queued = {}
        THEN UNCHANGED <<reliableWindows, outgoingSendReliableCommands,
                         sentReliableCommands, reliableDataInTransit>>
        ELSE /\ reliableWindows' = [reliableWindows EXCEPT
                    ![a.ch][w] = IF @ > 0 THEN @ - 1 ELSE @]
             /\ IF sent # {}
                THEN /\ sentReliableCommands' = RemoveAt(sentReliableCommands, Min(sent))
                     /\ reliableDataInTransit' = reliableDataInTransit - 1
                     /\ UNCHANGED outgoingSendReliableCommands
                ELSE /\ outgoingSendReliableCommands' =
                            RemoveAt(outgoingSendReliableCommands, Min(queued))
                     /\ UNCHANGED <<sentReliableCommands, reliableDataInTransit>>

\* enet_protocol_handle_acknowledge.  The datagram may arrive again.
HandleAcknowledge(a) ==
    /\ a \in acks
    /\ RemoveSent(a)
    /\ UNCHANGED <<submitted, lastQueued, data, acks, receiverVars>>

-----------------------------------------------------------------------------
(* The receiving peer *)

\* enet_peer_queue_acknowledgement: the two windows after those accepted are
\* not acknowledged, everything else is.
Acknowledged(seq, current) ==
    RelativeWindow(seq, current) \notin
        {Window(current) + FreeWindows - 1, Window(current) + FreeWindows}

\* The place behind which a command is put.
InsertPosition(queue, seq, current) ==
    Max({0} \cup {i \in DOMAIN queue : NotAfter(queue[i].seq, seq, current)})

FoundAt(queue, seq, current) ==
    LET p == InsertPosition(queue, seq, current)
    IN  IF p > 0 /\ queue[p].seq = seq THEN p ELSE 0

\* An ENetIncomingCommand: got are the fragments copied in, src (history) the
\* packets they came from.  A packet of one fragment is whole when it is queued.
Entry(m, seq) ==
    [seq |-> seq, count |-> m.count,
     got |-> IF m.count = 1 THEN {0} ELSE {},
     src |-> IF m.count = 1 THEN {m.pkt} ELSE {}]

\* As Whole below, but one fragment is enough.
Whole_AnyFragment(entry) == entry.got # {}

\* fragmentsRemaining is 0.
Whole(entry) == Cardinality(entry.got) = entry.count

\* History: what the application reads in the packet of entry.
Contents(entry) == IF entry.got = 0 .. entry.count - 1 THEN entry.src ELSE {}

\* The sequence number dispatched once the first n entries of queue are.
DispatchedUpTo(queue, current, n) ==
    IF n = 0 THEN current ELSE (queue[n].seq + queue[n].count - 1) % SeqSpace

\* As Dispatchable below, but a gap does not stop it.
Dispatchable_OverGaps(queue, current) ==
    LET waits == {i \in DOMAIN queue : ~Whole(queue[i])}
    IN  Min({i - 1 : i \in waits} \cup {Len(queue)})

\* As Dispatchable below, but the next sequence number does not wrap.
Dispatchable_NoWrap(queue, current) ==
    LET waits == {i \in DOMAIN queue :
                    \/ ~Whole(queue[i])
                    \/ queue[i].seq # DispatchedUpTo(queue, current, i - 1) + 1}
    IN  Min({i - 1 : i \in waits} \cup {Len(queue)})

\* How many entries enet_peer_dispatch_incoming_reliable_commands moves: those
\* before the first that is incomplete or leaves a gap.
Dispatchable(queue, current) ==
    LET waits == {i \in DOMAIN queue :
                    \/ ~Whole(queue[i])
                    \/ queue[i].seq # (DispatchedUpTo(queue, current, i - 1) + 1) % SeqSpace}
    IN  Min({i - 1 : i \in waits} \cup {Len(queue)})

\* enet_peer_dispatch_incoming_reliable_commands with queue as the channel's
\* incomingReliableCommands.
Dispatch(c, queue) ==
    LET current == incomingReliableSequenceNumber[c]
        n       == Dispatchable(queue, current)
    IN  /\ incomingReliableSequenceNumber' =
             [incomingReliableSequenceNumber EXCEPT ![c] = DispatchedUpTo(queue, current, n)]
        /\ incomingReliableCommands' =
             [incomingReliableCommands EXCEPT ![c] = SubSeq(queue, n + 1, Len(queue))]
        /\ dispatchedCommands' = dispatchedCommands \o
             [i \in 1 .. n |-> [ch |-> c, src |-> Contents(queue[i]), count |-> queue[i].count]]

NothingQueued ==
    UNCHANGED <<incomingReliableSequenceNumber, incomingReliableCommands,
                dispatchedCommands, totalWaitingData>>

\* enet_peer_queue_incoming_command has room for one more packet.
RoomForPacket == totalWaitingData < MaximumWaitingData

\* The handler is done and enet_peer_queue_acknowledgement looks at the state
\* it left behind; a handler that fails is not acknowledged.
Acknowledge(m) ==
    acknowledgements' = acknowledgements \cup
        (IF Acknowledged(Seq16(m), incomingReliableSequenceNumber'[m.ch])
         THEN {[ch |-> m.ch, abs |-> m.abs]} ELSE {})

\* enet_protocol_handle_send_reliable
HandleSendReliable(m) ==
    LET c       == m.ch
        seq     == Seq16(m)
        current == incomingReliableSequenceNumber[c]
        queue   == incomingReliableCommands[c]
        discard == \/ ~InWindow(seq, current)
                   \/ seq = current
                   \/ FoundAt(queue, seq, current) > 0
    IN  /\ m.count = 1
        /\ \/ /\ discard
              /\ NothingQueued
              /\ Acknowledge(m)
           \/ /\ ~discard /\ RoomForPacket
              /\ totalWaitingData' = totalWaitingData + m.count
              /\ Dispatch(c, InsertAt(queue, InsertPosition(queue, seq, current) + 1,
                                      Entry(m, seq)))
              /\ Acknowledge(m)
           \/ /\ ~discard /\ ~RoomForPacket
              /\ NothingQueued
              /\ UNCHANGED acknowledgements

\* The queue once fragment m has been copied into entry p, dispatched if that
\* made the packet whole.
CopyFragment(m, queue, p) ==
    LET known  == m.frag \in queue[p].got
        filled == [queue EXCEPT ![p].got = @ \cup {m.frag},
                                ![p].src = IF known THEN @ ELSE @ \cup {m.pkt}]
    IN  IF ~known /\ Whole(filled[p])
        THEN Dispatch(m.ch, filled)
        ELSE /\ incomingReliableCommands' = [incomingReliableCommands EXCEPT ![m.ch] = filled]
             /\ UNCHANGED <<incomingReliableSequenceNumber, dispatchedCommands>>

\* enet_protocol_handle_send_fragment: the first fragment to arrive queues the
\* whole packet under its start sequence number.
HandleSendFragment(m) ==
    LET c       == m.ch
        start   == StartSeq16(m)
        current == incomingReliableSequenceNumber[c]
        queue   == incomingReliableCommands[c]
        found   == FoundAt(queue, start, current)
        place   == InsertPosition(queue, start, current) + 1
    IN  /\ m.count > 1
        /\ \/ /\ ~InWindow(start, current)
              /\ NothingQueued
              /\ Acknowledge(m)
           \/ /\ InWindow(start, current)
              /\ found > 0 /\ queue[found].count = m.count
              /\ CopyFragment(m, queue, found)
              /\ UNCHANGED totalWaitingData
              /\ Acknowledge(m)
           \/ /\ InWindow(start, current)
              /\ found = 0 /\ start # current /\ RoomForPacket
              /\ totalWaitingData' = totalWaitingData + m.count
              /\ CopyFragment(m, InsertAt(queue, place, Entry(m, start)), place)
              /\ Acknowledge(m)
           \/ /\ InWindow(start, current)
              /\ IF found > 0 THEN queue[found].count # m.count
                              ELSE start = current \/ ~RoomForPacket
              /\ NothingQueued
              /\ UNCHANGED acknowledgements

\* A datagram reaches the receiving peer, and may do so again.
HandleData(m) ==
    /\ m \in data
    /\ HandleSendReliable(m) \/ HandleSendFragment(m)
    /\ UNCHANGED <<senderVars, data, acks, delivered>>

\* enet_protocol_send_acknowledgements
SendAcknowledgements ==
    /\ acknowledgements # {}
    /\ acks' = acks \cup acknowledgements
    /\ acknowledgements' = {}
    /\ UNCHANGED <<senderVars, data, incomingReliableSequenceNumber,
                   incomingReliableCommands, dispatchedCommands, totalWaitingData, delivered>>

\* As Receive below, but the data stays counted as waiting.
Receive_StillWaiting ==
    /\ dispatchedCommands # <<>>
    /\ delivered' = [delivered EXCEPT ![Head(dispatchedCommands).ch] =
                        Append(@, Head(dispatchedCommands).src)]
    /\ dispatchedCommands' = Tail(dispatchedCommands)
    /\ UNCHANGED <<senderVars, data, acks, incomingReliableSequenceNumber,
                   incomingReliableCommands, acknowledgements, totalWaitingData>>

\* enet_peer_receive, called by the application's service loop.
Receive ==
    /\ dispatchedCommands # <<>>
    /\ LET first == Head(dispatchedCommands)
       IN  /\ delivered' = [delivered EXCEPT ![first.ch] = Append(@, first.src)]
           /\ totalWaitingData' = totalWaitingData - first.count
    /\ dispatchedCommands' = Tail(dispatchedCommands)
    /\ UNCHANGED <<senderVars, data, acks, incomingReliableSequenceNumber,
                   incomingReliableCommands, acknowledgements>>

-----------------------------------------------------------------------------
(* The network.  A datagram that never arrives is lost; that it goes at once   *)
(* matters only to the fairness of its arrival.                                *)

LoseData(m) ==
    /\ Lossy /\ m \in data
    /\ data' = data \ {m}
    /\ UNCHANGED <<senderVars, acks, receiverVars>>

LoseAck(a) ==
    /\ Lossy /\ a \in acks
    /\ acks' = acks \ {a}
    /\ UNCHANGED <<senderVars, data, receiverVars>>

-----------------------------------------------------------------------------
Init ==
    /\ submitted = [c \in Channels |-> 0]
    /\ lastQueued = [c \in Channels |-> StartAt]
    /\ reliableWindows = [c \in Channels |-> [w \in 0 .. Windows - 1 |-> 0]]
    /\ outgoingSendReliableCommands = <<>>
    /\ sentReliableCommands = <<>>
    /\ reliableDataInTransit = 0
    /\ data = {} /\ acks = {}
    /\ incomingReliableSequenceNumber = [c \in Channels |-> StartAt % SeqSpace]
    /\ incomingReliableCommands = [c \in Channels |-> <<>>]
    /\ dispatchedCommands = <<>>
    /\ totalWaitingData = 0
    /\ acknowledgements = {}
    /\ delivered = [c \in Channels |-> <<>>]

Next ==
    \/ \E c \in Channels, n \in FragmentCounts : Send(c, n)
    \/ \E timedOut \in SUBSET Range(sentReliableCommands), limit \in TransitLimits :
          SendOutgoing(timedOut, limit)
    \/ \E m \in data : HandleData(m)
    \/ SendAcknowledgements
    \/ \E a \in acks : HandleAcknowledge(a)
    \/ Receive
    \/ \E m \in data : LoseData(m)
    \/ \E a \in acks : LoseAck(a)

Spec == Init /\ [][Next]_vars

-----------------------------------------------------------------------------
(* Fairness.  The application keeps servicing both hosts and receiving:        *)
(* acknowledgements are sent, the queue is flushed, and once every command in  *)
(* flight has waited for its roundTripTimeout all of them are sent again.  A   *)
(* datagram of one sequence number that is sent again and again gets through.  *)

Sequence == StartAt + 1 .. StartAt + MaxPackets * Max(FragmentCounts)

TimeOutAll == \E limit \in TransitLimits : SendOutgoing(Range(sentReliableCommands), limit)
DataArrives(c, n) == \E m \in data : m.ch = c /\ m.abs = n /\ HandleData(m)
AckArrives(c, n) == \E a \in acks : a.ch = c /\ a.abs = n /\ HandleAcknowledge(a)

Fairness ==
    /\ WF_vars(TimeOutAll)
    /\ WF_vars(SendAcknowledgements) /\ WF_vars(Receive)
    /\ \A c \in Channels, n \in Sequence :
          SF_vars(DataArrives(c, n)) /\ SF_vars(AckArrives(c, n))

FairSpec == Spec /\ Fairness

-----------------------------------------------------------------------------
(* Properties *)

Commands ==
    [ch : Channels, abs : Nat, frag : Nat, count : Nat, pkt : Nat, attempted : BOOLEAN]

\* Types.  No counter of the code goes below zero, where it would wrap.
TypeOK ==
    /\ submitted \in [Channels -> 0 .. MaxPackets]
    /\ lastQueued \in [Channels -> Nat]
    /\ reliableWindows \in [Channels -> [0 .. Windows - 1 -> Nat]]
    /\ outgoingSendReliableCommands \in Seq(Commands)
    /\ sentReliableCommands \in Seq(Commands)
    /\ reliableDataInTransit \in Nat
    /\ data \subseteq Commands
    /\ acks \subseteq [ch : Channels, abs : Nat]
    /\ incomingReliableSequenceNumber \in [Channels -> 0 .. SeqSpace - 1]
    /\ incomingReliableCommands \in
         [Channels -> Seq([seq : 0 .. SeqSpace - 1, count : Nat,
                           got : SUBSET Nat, src : SUBSET Nat])]
    /\ dispatchedCommands \in Seq([ch : Channels, src : SUBSET Nat, count : Nat])
    /\ totalWaitingData \in Nat
    /\ acknowledgements \subseteq [ch : Channels, abs : Nat]
    /\ delivered \in [Channels -> Seq(SUBSET Nat)]

Unacknowledged == Range(sentReliableCommands) \cup Range(outgoingSendReliableCommands)
Outstanding == {m \in Unacknowledged : m.attempted}

\* The receiving peer holds the fragment, or the application has its packet.
Arrived(m) ==
    \/ {m.pkt} \in Range(delivered[m.ch])
    \/ \E d \in Range(dispatchedCommands) : d.ch = m.ch /\ d.src = {m.pkt}
    \/ \E e \in Range(incomingReliableCommands[m.ch]) : m.pkt \in e.src /\ m.frag \in e.got

\* reliableWindows[w] counts the commands of window w that were attempted and
\* not acknowledged, whichever list they are on: what the window check relies
\* on, through timeouts, retransmissions and acknowledgements of either list.
WindowsCountOutstanding ==
    \A c \in Channels, w \in 0 .. Windows - 1 :
        reliableWindows[c][w] =
            Cardinality({m \in Outstanding : m.ch = c /\ Window(Seq16(m)) = w})

\* Commands queued again by a timeout stay in front of those never sent:
\* enet_protocol_find_sent_reliable_command stops at the first of the latter.
RetransmitsFirst ==
    \A i, j \in DOMAIN outgoingSendReliableCommands :
        i < j /\ outgoingSendReliableCommands[j].attempted
            => outgoingSendReliableCommands[i].attempted

\* The window check of the sending peer keeps the numbers unambiguous.  Two
\* commands waiting for an acknowledgement never share a sequence number, so an
\* acknowledgement names one of them only; and a command that has not arrived
\* lies in the windows the receiving peer accepts or in the two it ignores
\* without acknowledging, never where enet_peer_queue_acknowledgement takes it
\* for an old duplicate.
DistinctSequenceNumbers ==
    \A m, k \in Outstanding : m.ch = k.ch /\ Seq16(m) = Seq16(k) => m.abs = k.abs

UnarrivedInReach ==
    \A m \in Outstanding :
        LET current == incomingReliableSequenceNumber[m.ch]
        IN  ~Arrived(m) => RelativeWindow(Seq16(m), current)
                              \in Window(current) .. Window(current) + FreeWindows

NumbersUnambiguous == DistinctSequenceNumbers /\ UnarrivedInReach

\* incomingReliableCommands is sorted, without duplicates, by the distance
\* from the last dispatched sequence number, across the wrap as well, and holds
\* no packet the application has obtained or is about to: an old datagram is
\* not taken for a command of the next cycle of sequence numbers.
QueueOrdered(c) ==
    LET queue       == incomingReliableCommands[c]
        Distance(i) == (queue[i].seq + SeqSpace - incomingReliableSequenceNumber[c])
                          % SeqSpace
    IN  \A i, j \in DOMAIN queue : /\ Distance(i) > 0
                                   /\ i < j => Distance(i) < Distance(j)

NoStaleEntry(c) ==
    LET passed == Len(delivered[c])
                    + Cardinality({i \in DOMAIN dispatchedCommands :
                                      dispatchedCommands[i].ch = c})
    IN  \A e \in Range(incomingReliableCommands[c]) : \A p \in e.src : p > passed

QueueSound == \A c \in Channels : QueueOrdered(c) /\ NoStaleEntry(c)

Sizes(queue) == SumFunction([i \in DOMAIN queue |-> queue[i].count])

\* The two unsigned counters follow the lists.  reliableDataInTransit is the data
\* of sentReliableCommands: a timed-out command leaves it once, on its timeout
\* or on its acknowledgement, never on both.  totalWaitingData is the data of
\* the packets queued and dispatched.
DataCounted ==
    /\ reliableDataInTransit = Len(sentReliableCommands)
    /\ totalWaitingData = Sizes(dispatchedCommands)
           + SumFunction([c \in Channels |-> Sizes(incomingReliableCommands[c])])

\* A command is forgotten by the sending peer only when it has arrived: what
\* an acknowledgement means, whatever is lost, repeated or late, and across
\* the wrap of the sequence numbers.
ForgottenOnlyWhenArrived ==
    [][\A m \in Unacknowledged :
          (~ \E k \in Unacknowledged' : k.ch = m.ch /\ k.abs = m.abs) => Arrived(m)]_vars

\* Every packet is delivered once, whole and in order: the channel implements
\* the FIFO of ReliableFifo.
Fifo == INSTANCE ReliableFifo WITH submitted <- submitted, delivered <- delivered
FifoSpec == Fifo!Spec

\* "a packet must be received by the target peer and resend attempts should be
\* made until the packet is delivered" (README.md, PacketFlags.Reliable).
ReliableDelivery ==
    \A c \in Channels, n \in 1 .. MaxPackets :
        submitted[c] >= n ~> Len(delivered[c]) >= n
=============================================================================
