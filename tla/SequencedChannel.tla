-------------------------- MODULE SequencedChannel --------------------------
(***************************************************************************)
(* One channel of two connected peers with all the ways of sending on it:  *)
(* the numbers enet_peer_send gives to reliable, unreliable, fragmented    *)
(* and unsequenced packets, a network that loses, delays, repeats and      *)
(* reorders every datagram, and the receiving peer's two lists, its        *)
(* unsequenced window and what it dispatches.                              *)
(*                                                                         *)
(* ReliableChannel has the lists, windows and acknowledgements that get    *)
(* reliable packets through; here a reliable packet is one command that    *)
(* can arrive at any time until it has, and incomingReliableCommands is    *)
(* the set of those that wait for an earlier one.                          *)
(***************************************************************************)
EXTENDS SequenceWindows, Sequences, FiniteSets, SequencesExt, FiniteSetsExt

CONSTANTS
    Kinds,                   \* flags the application sends with
    FragmentCount,           \* fragments of a "fragmented" packet
    UnreliableLimit,         \* 0xFFFF, the last unreliable sequence number
    Groups,                  \* 0x10000, unsequenced groups on the wire
    UnsequencedWindowSize,   \* ENET_PEER_UNSEQUENCED_WINDOW_SIZE (1024)
    FreeUnsequencedWindows,  \* ENET_PEER_FREE_UNSEQUENCED_WINDOWS (32)
    MaximumWaitingData,      \* host->maximumWaitingData, in fragments
    Lifetime,                \* a datagram does not outlive this many newer packets
    ReliableAhead,           \* bound: reliable packets submitted and not dispatched
    MaxPackets,              \* bound: packets submitted
    StartAt,                 \* reliable packets already delivered at Init
    StartGroup               \* unsequenced packets already delivered at Init

ASSUME KindsAssumption == Kinds \subseteq {"reliable", "unreliable", "unsequenced", "fragmented"}

ASSUME LimitAssumption ==
    /\ FragmentCount \in Nat /\ FragmentCount >= 2
    /\ MaximumWaitingData \in Nat /\ MaxPackets \in Nat
    /\ StartAt \in Nat /\ StartGroup \in Nat /\ UnreliableLimit \in Nat \ {0}

ASSUME GroupAssumption ==
    /\ UnsequencedWindowSize \in Nat \ {0} /\ FreeUnsequencedWindows \in Nat \ {0}
    /\ Groups % UnsequencedWindowSize = 0
    /\ FreeUnsequencedWindows * UnsequencedWindowSize < Groups

\* Beyond these distances a handler takes an old datagram for a new one.
ASSUME LifetimeAssumption ==
    /\ Lifetime \in 1 .. (Windows - FreeWindows + 1) * WindowSize
    /\ Lifetime <= Groups - FreeUnsequencedWindows * UnsequencedWindowSize + 1
    /\ ReliableAhead \in 1 .. Lifetime

VARIABLES
    \* sending peer
    sent,                             \* history: every packet and its numbers
    outgoingReliableSequenceNumber,   \* before wrapping
    outgoingUnreliableSequenceNumber,
    outgoingUnsequencedGroup,         \* before wrapping
    \* receiving peer
    state,
    incomingReliableSequenceNumber,
    incomingUnreliableSequenceNumber,
    incomingReliableCommands,         \* packets waiting for an earlier reliable one
    incomingUnreliableCommands,       \* ordered, waiting for reliable ones or fragments
    incomingUnsequencedGroup,
    unsequencedWindow,                \* the bits that are set
    dispatchedCommands,
    totalWaitingData,
    delivered                         \* history: what enet_peer_receive returned

senderVars == <<sent, outgoingReliableSequenceNumber, outgoingUnreliableSequenceNumber,
                outgoingUnsequencedGroup>>
unsequencedVars == <<incomingUnsequencedGroup, unsequencedWindow>>
listVars == <<incomingReliableSequenceNumber, incomingUnreliableSequenceNumber,
              incomingReliableCommands, incomingUnreliableCommands,
              dispatchedCommands, totalWaitingData>>
vars == <<senderVars, state, unsequencedVars, listVars, delivered>>

-----------------------------------------------------------------------------
(* The sending peer *)

\* What enet_peer_send makes of a packet: the unreliable sequence number does
\* not wrap, a packet that would need it to is sent reliably.
Class(kind) ==
    IF kind \in {"unreliable", "fragmented"}
       /\ outgoingUnreliableSequenceNumber >= UnreliableLimit
    THEN "reliable" ELSE kind

\* Packets the receiving peer still has to dispatch before all of them are.
NotDispatched ==
    {i \in DOMAIN sent : /\ sent[i].class = "reliable"
                         /\ i \notin Range(delivered)
                         /\ \A d \in Range(dispatchedCommands) : d.pkt # i}

\* enet_peer_setup_outgoing_command.  All fragments of a packet have one
\* unreliable number; an unsequenced command has neither number.
Numbers(class) ==
    /\ outgoingReliableSequenceNumber' =
         outgoingReliableSequenceNumber + (IF class = "reliable" THEN 1 ELSE 0)
    /\ outgoingUnreliableSequenceNumber' =
         CASE class = "reliable"    -> 0
           [] class = "unsequenced" -> outgoingUnreliableSequenceNumber
           [] OTHER                 -> outgoingUnreliableSequenceNumber + 1
    /\ outgoingUnsequencedGroup' =
         outgoingUnsequencedGroup + (IF class = "unsequenced" THEN 1 ELSE 0)

\* enet_peer_send
Send(kind) ==
    /\ Len(sent) < MaxPackets
    /\ Class(kind) = "reliable" => Cardinality(NotDispatched) < ReliableAhead
    /\ Numbers(Class(kind))
    /\ sent' = Append(sent, [class |-> Class(kind),
                             rel   |-> outgoingReliableSequenceNumber',
                             unrel |-> outgoingUnreliableSequenceNumber',
                             group |-> outgoingUnsequencedGroup'])
    /\ UNCHANGED <<state, unsequencedVars, listVars, delivered>>

-----------------------------------------------------------------------------
(* The network *)

\* A datagram of packet i may arrive.  A reliable one is sent again until it has.
MayArrive(i) == i + Lifetime > Len(sent) \/ i \in NotDispatched

-----------------------------------------------------------------------------
(* The receiving peer's lists *)

ReliableSeq(i) == sent[i].rel % SeqSpace
Discarding == state = "DISCONNECT_LATER"

DataLength(class) == IF class = "fragmented" THEN FragmentCount ELSE 1

\* An ENetIncomingCommand for packet i.  missing are the fragments to come, src
\* (history) the packets its data was copied from.
Entry(i) ==
    [class |-> sent[i].class, rel |-> ReliableSeq(i), unrel |-> sent[i].unrel,
     missing |-> IF sent[i].class = "fragmented" THEN 0 .. FragmentCount - 1 ELSE {},
     src |-> IF sent[i].class = "fragmented" THEN {} ELSE {i}]

\* What the application gets of an entry; 0 for a packet that was mixed up.
Dispatched(entry) ==
    [pkt |-> IF Cardinality(entry.src) = 1 THEN Max(entry.src) ELSE 0,
     size |-> DataLength(entry.class)]

\* The entries of queue at the places in S.
Part(queue, S) ==
    LET places == SetToSortSeq(S, <)
    IN  [k \in DOMAIN places |-> queue[places[k]]]

\* The end of the entries that are looked at: the first one that waits for a
\* reliable packet to come.
Unreached(queue, current) ==
    Min({i \in DOMAIN queue : /\ queue[i].class # "unsequenced"
                              /\ queue[i].rel # current
                              /\ InWindow(queue[i].rel, current)}
        \cup {Len(queue) + 1})

\* The entries to dispatch: unsequenced ones, and those behind the current
\* reliable packet that are whole.
Ready(queue, current) ==
    {i \in 1 .. Unreached(queue, current) - 1 :
        \/ queue[i].class = "unsequenced"
        \/ queue[i].rel = current /\ queue[i].missing = {}}

\* The entries to remove: those before the last that is dispatched or stale,
\* and all incomplete ones but the last two.  The command just queued stays.
Dropped(queue, current, queued) ==
    LET end   == Unreached(queue, current)
        ready == Ready(queue, current)
        stale == {i \in 1 .. end - 1 : queue[i].rel # current} \ ready
        last  == Max({0} \cup ready \cup stale)
    IN  {i \in 1 .. end - 1 : i <= last \/ i < end - 2} \ (ready \cup {queued})

\* enet_peer_dispatch_incoming_unreliable_commands with queue as the channel's
\* list, current as its reliable number and lastUnreliable as its unreliable
\* one, behind the packets of before; queued is the place of the command that
\* was queued, or 0.
DispatchUnreliable(queue, current, lastUnreliable, queued, before) ==
    LET ready     == Ready(queue, current)
        sequenced == {i \in ready : queue[i].class # "unsequenced"}
        moved     == Part(queue, ready)
    IN  /\ incomingUnreliableSequenceNumber' =
             IF sequenced = {} THEN lastUnreliable ELSE queue[Max(sequenced)].unrel
        /\ dispatchedCommands' =
             before \o [k \in DOMAIN moved |-> Dispatched(moved[k])]
        /\ incomingUnreliableCommands' =
             Part(queue, DOMAIN queue \ (ready \cup Dropped(queue, current, queued)))

\* The last number dispatched once waiting can be: no gap up to it.
LastInRun(waiting) ==
    LET current == incomingReliableSequenceNumber
        present == {ReliableSeq(i) : i \in waiting}
        run     == {n \in 0 .. Cardinality(waiting) :
                       \A k \in 1 .. n : (current + k) % SeqSpace \in present}
    IN  Max(run)

\* enet_peer_dispatch_incoming_reliable_commands: the packets without a gap,
\* then the unreliable ones that waited for them, numbered from 1 again.
DispatchReliable(waiting) ==
    LET current == incomingReliableSequenceNumber
        n     == LastInRun(waiting)
        next  == (current + n) % SeqSpace
        run   == {i \in waiting : \E k \in 1 .. n : ReliableSeq(i) = (current + k) % SeqSpace}
        moved == SetToSortSeq(run, LAMBDA i, j : sent[i].rel < sent[j].rel)
    IN  /\ incomingReliableSequenceNumber' = next
        /\ incomingReliableCommands' = waiting \ run
        /\ IF n = 0
           THEN UNCHANGED <<incomingUnreliableSequenceNumber, incomingUnreliableCommands,
                            dispatchedCommands>>
           ELSE DispatchUnreliable(incomingUnreliableCommands, next, 0, 0,
                   dispatchedCommands \o [k \in DOMAIN moved |-> [pkt |-> moved[k], size |-> 1]])

\* The place behind which the scan from the end of incomingUnreliableCommands
\* puts a command with these numbers.
Place(queue, rel, unrel, current) ==
    Max({0} \cup {i \in DOMAIN queue :
                    IF queue[i].rel = rel THEN queue[i].unrel <= unrel
                                          ELSE NotAfter(queue[i].rel, rel, current)})

\* The place of the command with these numbers, 0 if there is none.
FoundAt(queue, rel, unrel, current) ==
    LET p == Place(queue, rel, unrel, current)
    IN  IF p > 0 /\ queue[p].rel = rel /\ queue[p].unrel = unrel THEN p ELSE 0

\* Too far ahead, or behind what was dispatched.
Stale(i) ==
    \/ ~InWindow(ReliableSeq(i), incomingReliableSequenceNumber)
    \/ /\ ReliableSeq(i) = incomingReliableSequenceNumber
       /\ sent[i].unrel <= incomingUnreliableSequenceNumber

RoomForPacket == totalWaitingData < MaximumWaitingData

NothingQueued == UNCHANGED listVars

-----------------------------------------------------------------------------
(* The handlers of the receiving peer *)

\* enet_protocol_handle_send_reliable
HandleSendReliable(i) ==
    LET seq == ReliableSeq(i)
        discard == \/ Discarding
                   \/ ~InWindow(seq, incomingReliableSequenceNumber)
                   \/ seq = incomingReliableSequenceNumber
                   \/ \E j \in incomingReliableCommands : ReliableSeq(j) = seq
    IN  /\ sent[i].class = "reliable"
        /\ IF discard \/ ~RoomForPacket
           THEN NothingQueued
           ELSE /\ totalWaitingData' = totalWaitingData + 1
                /\ DispatchReliable(incomingReliableCommands \cup {i})
        /\ UNCHANGED unsequencedVars

\* As Reserved below, but only what arrived is counted.
Reserved_OneFragment(entry) == 1

\* The whole packet->dataLength counts as waiting from its first fragment on.
Reserved(entry) == DataLength(entry.class)

\* Insert entry, the command of packet i, behind place p of the list and dispatch.
QueueUnreliable(entry, p) ==
    /\ totalWaitingData' = totalWaitingData + Reserved(entry)
    /\ DispatchUnreliable(InsertAt(incomingUnreliableCommands, p + 1, entry),
          incomingReliableSequenceNumber, incomingUnreliableSequenceNumber, p + 1,
          dispatchedCommands)
    /\ UNCHANGED <<incomingReliableSequenceNumber, incomingReliableCommands>>

\* enet_protocol_handle_send_unreliable
HandleSendUnreliable(i) ==
    LET current == incomingReliableSequenceNumber
        queue   == incomingUnreliableCommands
        discard == \/ Discarding \/ Stale(i)
                   \/ FoundAt(queue, ReliableSeq(i), sent[i].unrel, current) > 0
    IN  /\ sent[i].class = "unreliable"
        /\ IF discard \/ ~RoomForPacket
           THEN NothingQueued
           ELSE QueueUnreliable(Entry(i), Place(queue, ReliableSeq(i), sent[i].unrel, current))
        /\ UNCHANGED unsequencedVars

\* The window of the group on the wire, and its place in the window.
GroupBase(group) == (group \div UnsequencedWindowSize) * UnsequencedWindowSize

\* As GroupAccepted below, but a group behind the window is not a cycle ahead.
GroupAccepted_NoWrap(group) ==
    group < incomingUnsequencedGroup + FreeUnsequencedWindows * UnsequencedWindowSize

\* A group is taken if it is not too far ahead: one behind the window counts as
\* a cycle ahead.
GroupAccepted(group) ==
    group + (IF group < incomingUnsequencedGroup THEN Groups ELSE 0)
        < incomingUnsequencedGroup + FreeUnsequencedWindows * UnsequencedWindowSize

\* enet_protocol_handle_send_unsequenced.  The window moves to the group even
\* if the packet is then refused; its bit is set only if it was not.
HandleSendUnsequenced(i) ==
    LET group  == sent[i].group % Groups
        index  == group % UnsequencedWindowSize
        window == IF GroupBase(group) = incomingUnsequencedGroup THEN unsequencedWindow ELSE {}
    IN  /\ sent[i].class = "unsequenced"
        /\ IF ~GroupAccepted(group) \/ index \in window
           THEN NothingQueued /\ UNCHANGED unsequencedVars
           ELSE /\ incomingUnsequencedGroup' = GroupBase(group)
                /\ \/ /\ Discarding
                      /\ NothingQueued
                      /\ unsequencedWindow' = window \cup {index}
                   \/ /\ ~Discarding /\ ~RoomForPacket
                      /\ NothingQueued
                      /\ unsequencedWindow' = window
                   \/ /\ ~Discarding /\ RoomForPacket
                      /\ QueueUnreliable(Entry(i), 0)
                      /\ unsequencedWindow' = window \cup {index}

\* The entry once fragment f of packet i has been copied into it.
Copied(entry, i, f) ==
    IF f \in entry.missing
    THEN [entry EXCEPT !.missing = @ \ {f}, !.src = @ \cup {i}]
    ELSE entry

\* enet_protocol_handle_send_unreliable_fragment.  The first fragment to arrive
\* queues the packet, never whole; one more may complete it, even for a peer
\* that discards what is new.
HandleSendUnreliableFragment(i, f) ==
    LET current == incomingReliableSequenceNumber
        queue   == incomingUnreliableCommands
        found   == FoundAt(queue, ReliableSeq(i), sent[i].unrel, current)
        place   == Place(queue, ReliableSeq(i), sent[i].unrel, current)
        filled  == [queue EXCEPT ![found] = Copied(@, i, f)]
    IN  /\ sent[i].class = "fragmented"
        /\ \/ /\ Stale(i)
              /\ NothingQueued
           \/ /\ ~Stale(i) /\ found > 0 /\ queue[found].class = "fragmented"
              /\ f \in queue[found].missing /\ filled[found].missing = {}
              /\ DispatchUnreliable(filled, current, incomingUnreliableSequenceNumber, 0,
                                    dispatchedCommands)
              /\ UNCHANGED <<incomingReliableSequenceNumber, incomingReliableCommands,
                             totalWaitingData>>
           \/ /\ ~Stale(i) /\ found > 0 /\ queue[found].class = "fragmented"
              /\ ~(f \in queue[found].missing /\ filled[found].missing = {})
              /\ incomingUnreliableCommands' = filled
              /\ UNCHANGED <<incomingReliableSequenceNumber, incomingUnreliableSequenceNumber,
                             incomingReliableCommands, dispatchedCommands, totalWaitingData>>
           \/ /\ ~Stale(i) /\ found = 0 /\ ~Discarding /\ RoomForPacket
              /\ QueueUnreliable(Copied(Entry(i), i, f), place)
           \/ /\ ~Stale(i)
              /\ IF found > 0 THEN queue[found].class # "fragmented"
                              ELSE Discarding \/ ~RoomForPacket
              /\ NothingQueued
        /\ UNCHANGED unsequencedVars

\* A datagram of packet i reaches the receiving peer.
HandleData(i) ==
    /\ MayArrive(i)
    /\ \/ HandleSendReliable(i)
       \/ HandleSendUnreliable(i)
       \/ HandleSendUnsequenced(i)
       \/ \E f \in 0 .. FragmentCount - 1 : HandleSendUnreliableFragment(i, f)
    /\ UNCHANGED <<senderVars, state, delivered>>

\* enet_peer_receive, called by the application's service loop.
Receive ==
    /\ dispatchedCommands # <<>>
    /\ delivered' = Append(delivered, Head(dispatchedCommands).pkt)
    /\ dispatchedCommands' = Tail(dispatchedCommands)
    /\ totalWaitingData' = totalWaitingData - Head(dispatchedCommands).size
    /\ UNCHANGED <<senderVars, state, unsequencedVars, incomingReliableSequenceNumber,
                   incomingUnreliableSequenceNumber, incomingReliableCommands,
                   incomingUnreliableCommands>>

\* enet_peer_disconnect_later of the receiving peer, with packets of its own
\* still to be sent.
DisconnectLater ==
    /\ state = "CONNECTED"
    /\ state' = "DISCONNECT_LATER"
    /\ UNCHANGED <<senderVars, unsequencedVars, listVars, delivered>>

-----------------------------------------------------------------------------
Init ==
    /\ sent = <<>>
    /\ outgoingReliableSequenceNumber = StartAt
    /\ outgoingUnreliableSequenceNumber = 0
    /\ outgoingUnsequencedGroup = StartGroup
    /\ state = "CONNECTED"
    /\ incomingReliableSequenceNumber = StartAt % SeqSpace
    /\ incomingUnreliableSequenceNumber = 0
    /\ incomingReliableCommands = {}
    /\ incomingUnreliableCommands = <<>>
    /\ incomingUnsequencedGroup = GroupBase(StartGroup % Groups)
    /\ unsequencedWindow = 0 .. (StartGroup % Groups) % UnsequencedWindowSize
    /\ dispatchedCommands = <<>>
    /\ totalWaitingData = 0
    /\ delivered = <<>>

Next ==
    \/ \E kind \in Kinds : Send(kind)
    \/ \E i \in DOMAIN sent : HandleData(i)
    \/ Receive
    \/ DisconnectLater

Spec == Init /\ [][Next]_vars

-----------------------------------------------------------------------------
(* Properties *)

Numbering == [class : Kinds \cup {"reliable"}, rel : Nat, unrel : 0 .. UnreliableLimit, group : Nat]
Waiting == [class : Kinds, rel : 0 .. SeqSpace - 1, unrel : 0 .. UnreliableLimit,
            missing : SUBSET Nat, src : SUBSET Nat]

\* Types.  The unreliable sequence numbers never wrap and totalWaitingData,
\* unsigned in the code, never goes below zero.
TypeOK ==
    /\ sent \in Seq(Numbering)
    /\ outgoingReliableSequenceNumber \in Nat
    /\ outgoingUnreliableSequenceNumber \in 0 .. UnreliableLimit
    /\ outgoingUnsequencedGroup \in Nat
    /\ state \in {"CONNECTED", "DISCONNECT_LATER"}
    /\ incomingReliableSequenceNumber \in 0 .. SeqSpace - 1
    /\ incomingUnreliableSequenceNumber \in 0 .. UnreliableLimit
    /\ incomingReliableCommands \subseteq DOMAIN sent
    /\ incomingUnreliableCommands \in Seq(Waiting)
    /\ incomingUnsequencedGroup \in 0 .. Groups - UnsequencedWindowSize
    /\ unsequencedWindow \subseteq 0 .. UnsequencedWindowSize - 1
    /\ dispatchedCommands \in Seq([pkt : DOMAIN sent, size : Nat])
    /\ totalWaitingData \in Nat
    /\ delivered \in Seq(DOMAIN sent)

\* Between two calls nothing that could be dispatched waits: every packet left
\* in the list lacks a fragment or the reliable packet it was sent behind.
NothingReadyWaits ==
    \A e \in Range(incomingUnreliableCommands) :
        /\ e.class # "unsequenced"
        /\ e.rel = incomingReliableSequenceNumber => e.missing # {}

\* incomingUnreliableCommands is sorted, without duplicates, by the distance of
\* the reliable number and then by the unreliable one; what was overtaken does
\* not stay in it.
UnreliableOrdered ==
    LET queue       == incomingUnreliableCommands
        Distance(e) == (e.rel + SeqSpace - incomingReliableSequenceNumber) % SeqSpace
    IN  /\ \A i, j \in DOMAIN queue : i < j =>
              \/ Distance(queue[i]) < Distance(queue[j])
              \/ /\ Distance(queue[i]) = Distance(queue[j])
                 /\ queue[i].unrel < queue[j].unrel
        /\ \A e \in Range(queue) :
              /\ InWindow(e.rel, incomingReliableSequenceNumber)
              /\ Distance(e) = 0 => e.unrel > incomingUnreliableSequenceNumber

\* What waits has to: it is in order, not overtaken, and nothing of it is ready.
OnlyUnreadyWaits == NothingReadyWaits /\ UnreliableOrdered

\* totalWaitingData is never less than the data that is held.
HeldDataCounted ==
    totalWaitingData >=
        FoldSeq(LAMBDA e, n : DataLength(e.class) + n, 0, incomingUnreliableCommands)
        + FoldSeq(LAMBDA d, n : d.size + n, 0, dispatchedCommands)
        + Cardinality(incomingReliableCommands)

\* Whatever is lost, late or repeated: no packet is delivered twice or mixed
\* up, none behind a later one, none before a reliable one sent earlier.
Delivery == INSTANCE SequencedDelivery
              WITH submitted <- [i \in DOMAIN sent |-> sent[i].class],
                   Classes <- Kinds \cup {"reliable"}
DeliverySpec == Delivery!Spec
=============================================================================
