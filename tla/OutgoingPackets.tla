-------------------------- MODULE OutgoingPackets --------------------------
(***************************************************************************)
(* The packets of one host from enet_packet_create to enet_packet_destroy: *)
(* who holds a packet, what its referenceCount says, and when it goes.  A  *)
(* packet may be on its way to many peers at once (broadcast), cut into    *)
(* fragments, sent at once (ENET_PACKET_FLAG_INSTANT), dropped by the      *)
(* throttle, acknowledged, sent again, or cut off by the end of a peer.    *)
(*                                                                         *)
(* A call into ENet that visits one peer after the other is taken peer by  *)
(* peer: broadcasting and visiting are the loops that are going on, and    *)
(* the application gets the thread back when there is none.                *)
(***************************************************************************)
EXTENDS Naturals, Sequences, FiniteSets, SequencesExt, SubSequences

CONSTANTS
    PeerCount,        \* host->peerCount; all are connected with one channel
    PacketCount,      \* packets the application creates at most, one after the other
    Batches,          \* flags and sizes of the packets, as enet_peer_send takes them
    FragmentCount,    \* fragments of a packet larger than the MTU
    ThrottleScale,    \* ENET_PEER_PACKET_THROTTLE_SCALE (32)
    ThrottleCounter,  \* ENET_PEER_PACKET_THROTTLE_COUNTER (7)
    Throttles,        \* values packetThrottle may have when a peer is visited
    Recipients        \* what enet_host_broadcast_selective may be called with

Peers == 1 .. PeerCount
Packets == 1 .. PacketCount

\* class: reliable commands are acknowledged, the others forgotten once sent;
\* unsequenced ones all have the numbers <<0, 0>>.
KindSpace == [class: {"reliable", "unreliable", "unsequenced"},
              large: BOOLEAN, unthrottled: BOOLEAN, instant: BOOLEAN]

ASSUME PacketsAssumption ==
    /\ PeerCount \in Nat \ {0} /\ PacketCount \in Nat \ {0}
    /\ \A kinds \in Batches :
           /\ kinds \in Seq(KindSpace) /\ Len(kinds) <= PacketCount
           /\ \A i \in DOMAIN kinds : ~(kinds[i].large /\ kinds[i].class = "unsequenced")
    /\ FragmentCount \in Nat /\ FragmentCount >= 2
    /\ ThrottleScale \in Nat \ {0} /\ ThrottleCounter \in Nat
    /\ Throttles \subseteq 0 .. ThrottleScale
    /\ Recipients \subseteq Seq(Peers)

VARIABLES
    kind,             \* packet->flags and dataLength
    owner,            \* "nobody" before it is created, "application", then "ENet"
    referenceCount,
    destroyed,        \* history: times enet_packet_destroy was called for it
    flaggedSent,      \* packets with ENET_PACKET_FLAG_SENT
    state,            \* of a peer: ENDED stands for the states without queues
    numbers,          \* a channel's outgoing sequence numbers
    outgoingCommands, outgoingSendReliableCommands, sentReliableCommands,
    packetThrottleCounter,
    broadcasting,     \* the packet, and the peers enet_host_broadcast has yet to visit
    visiting,         \* the peers enet_protocol_send_outgoing_commands has yet to visit
    transmitted       \* history: fragments handed to the socket, for each peer

packetVars == <<kind, owner>>
lifeVars == <<referenceCount, destroyed, flaggedSent>>
listVars == <<outgoingCommands, outgoingSendReliableCommands, sentReliableCommands>>
peerVars == <<state, numbers, packetThrottleCounter>>
vars == <<packetVars, lifeVars, peerVars, listVars, broadcasting, visiting, transmitted>>

-----------------------------------------------------------------------------
(* Packets and commands *)

HostPeers == [i \in Peers |-> i]
Nobody == [pkt |-> 0, todo |-> <<>>]
Nowhere == [todo |-> <<>>, timeouts |-> FALSE]
Flush == [todo |-> HostPeers, timeouts |-> FALSE]
Idle == broadcasting = Nobody /\ visiting.todo = <<>>

Fragments(p) == IF kind[p].large THEN FragmentCount ELSE 1

\* How many commands of seq hold packet p.
Holding(p, seq) == Cardinality({i \in DOMAIN seq : seq[i].pkt = p})

\* The commands of a peer, in all its lists.
Commands(peer) ==
    outgoingCommands[peer] \o outgoingSendReliableCommands[peer] \o sentReliableCommands[peer]

\* The references of commands that were dropped, then of others that were sent
\* or acknowledged, are given up: a packet left without any is destroyed, and
\* flagged if it was sent.
Release(dropped, sent) ==
    LET left(p) == referenceCount[p] - Holding(p, dropped) - Holding(p, sent)
        last    == {p \in Packets : referenceCount[p] > 0 /\ left(p) = 0}
    IN  /\ referenceCount' = [p \in Packets |-> left(p)]
        /\ destroyed' = [p \in Packets |-> destroyed[p] + (IF p \in last THEN 1 ELSE 0)]
        /\ flaggedSent' = flaggedSent \cup {p \in last : Holding(p, sent) > 0}

\* A caller that still holds the packet destroys it if it has no reference.
DestroyUnreferenced(p) ==
    destroyed' = [destroyed EXCEPT ![p] = IF referenceCount'[p] = 0 THEN @ + 1 ELSE @]

-----------------------------------------------------------------------------
(* The application *)

\* enet_packet_create
Create(p) ==
    /\ Idle
    /\ p \in DOMAIN kind
    /\ owner[p] = "nobody" /\ \A q \in 1 .. p - 1 : owner[q] # "nobody"
    /\ owner' = [owner EXCEPT ![p] = "application"]
    /\ UNCHANGED <<kind, lifeVars, peerVars, listVars, broadcasting, visiting, transmitted>>

\* enet_packet_dispose of a packet no peer has accepted.
Dispose(p) ==
    /\ Idle /\ owner[p] = "application"
    /\ owner' = [owner EXCEPT ![p] = "ENet"]
    /\ UNCHANGED referenceCount
    /\ DestroyUnreferenced(p)
    /\ UNCHANGED <<kind, flaggedSent, peerVars, listVars, broadcasting, visiting, transmitted>>

\* The commands for packet p: enet_peer_setup_outgoing_command.  Reliable
\* fragments have a number each, unreliable ones share one.
CommandsFor(peer, p) ==
    LET n == numbers[peer]
        number(i) ==
            CASE kind[p].class = "reliable"    -> [rel |-> n.rel + i, unrel |-> 0]
              [] kind[p].class = "unreliable"  -> [rel |-> n.rel, unrel |-> n.unrel + 1]
              [] kind[p].class = "unsequenced" -> [rel |-> 0, unrel |-> 0]
    IN  [i \in 1 .. Fragments(p) |->
            [pkt |-> p, frag |-> i - 1, number |-> number(i), attempted |-> FALSE]]

\* As Enqueue below, but a packet in fragments is referenced once.
Enqueue_OneReference(peer, p) ==
    /\ referenceCount' = [referenceCount EXCEPT ![p] = @ + 1]
    /\ IF kind[p].class = "reliable"
       THEN /\ outgoingSendReliableCommands' =
                   [outgoingSendReliableCommands EXCEPT ![peer] = @ \o CommandsFor(peer, p)]
            /\ UNCHANGED outgoingCommands
       ELSE /\ outgoingCommands' = [outgoingCommands EXCEPT ![peer] = @ \o CommandsFor(peer, p)]
            /\ UNCHANGED outgoingSendReliableCommands
    /\ numbers' = IF kind[p].class = "unsequenced" THEN numbers
                  ELSE [numbers EXCEPT ![peer] = Last(CommandsFor(peer, p)).number]
    /\ visiting' = IF kind[p].instant /\ ~kind[p].large THEN Flush ELSE Nowhere

\* enet_peer_send to a connected peer.  A packet in fragments is not sent at
\* once, whatever its flags.
Enqueue(peer, p) ==
    /\ referenceCount' = [referenceCount EXCEPT ![p] = @ + Fragments(p)]
    /\ IF kind[p].class = "reliable"
       THEN /\ outgoingSendReliableCommands' =
                   [outgoingSendReliableCommands EXCEPT ![peer] = @ \o CommandsFor(peer, p)]
            /\ UNCHANGED outgoingCommands
       ELSE /\ outgoingCommands' = [outgoingCommands EXCEPT ![peer] = @ \o CommandsFor(peer, p)]
            /\ UNCHANGED outgoingSendReliableCommands
    /\ numbers' = IF kind[p].class = "unsequenced" THEN numbers
                  ELSE [numbers EXCEPT ![peer] = Last(CommandsFor(peer, p)).number]
    /\ visiting' = IF kind[p].instant /\ ~kind[p].large THEN Flush ELSE Nowhere

\* enet_peer_send returns -1 to a peer that is not connected, and whenever a
\* command cannot be allocated.
Refuse == UNCHANGED <<referenceCount, outgoingCommands, outgoingSendReliableCommands,
                      numbers, visiting>>

\* The application sends packet p to one peer; it keeps a packet that is refused.
Send(peer, p) ==
    /\ Idle /\ owner[p] = "application"
    /\ state[peer] = "CONNECTED" /\ Enqueue(peer, p)
    /\ owner' = [owner EXCEPT ![p] = "ENet"]
    /\ UNCHANGED <<kind, destroyed, flaggedSent, state, packetThrottleCounter,
                   sentReliableCommands, broadcasting, transmitted>>

\* As Broadcast below, but without the reference that guards the packet.
Broadcast_Unguarded(p, recipients) ==
    /\ Idle /\ owner[p] = "application"
    /\ owner' = [owner EXCEPT ![p] = "ENet"]
    /\ broadcasting' = [pkt |-> p, todo |-> recipients]
    /\ UNCHANGED <<kind, lifeVars, peerVars, listVars, visiting, transmitted>>

\* enet_host_broadcast, _exclude or _selective begins: a packet that is sent at
\* once is referenced until the last peer has been visited.
Broadcast(p, recipients) ==
    /\ Idle /\ owner[p] = "application"
    /\ owner' = [owner EXCEPT ![p] = "ENet"]
    /\ broadcasting' = [pkt |-> p, todo |-> recipients]
    /\ referenceCount' = [referenceCount EXCEPT ![p] = IF kind[p].instant THEN @ + 1 ELSE @]
    /\ UNCHANGED <<kind, destroyed, flaggedSent, peerVars, listVars, visiting, transmitted>>

\* The next peer of the broadcast, when the flush for the last one is done.
BroadcastNext ==
    /\ visiting.todo = <<>> /\ broadcasting.todo # <<>>
    /\ LET peer == Head(broadcasting.todo)
       IN  \/ state[peer] = "CONNECTED" /\ Enqueue(peer, broadcasting.pkt)
           \/ Refuse
    /\ broadcasting' = [broadcasting EXCEPT !.todo = Tail(@)]
    /\ UNCHANGED <<packetVars, destroyed, flaggedSent, state, packetThrottleCounter,
                   sentReliableCommands, transmitted>>

\* As BroadcastDone below, but a packet nobody took is left behind.
BroadcastDone_Forgets ==
    /\ visiting.todo = <<>> /\ broadcasting.pkt # 0 /\ broadcasting.todo = <<>>
    /\ LET p == broadcasting.pkt
       IN  referenceCount' = [referenceCount EXCEPT ![p] = IF kind[p].instant THEN @ - 1 ELSE @]
    /\ broadcasting' = Nobody
    /\ UNCHANGED <<packetVars, destroyed, flaggedSent, peerVars, listVars, visiting, transmitted>>

\* The end of the broadcast: the guard goes, and the packet if nobody holds it.
BroadcastDone ==
    /\ visiting.todo = <<>> /\ broadcasting.pkt # 0 /\ broadcasting.todo = <<>>
    /\ LET p == broadcasting.pkt
       IN  /\ referenceCount' = [referenceCount EXCEPT ![p] = IF kind[p].instant THEN @ - 1 ELSE @]
           /\ DestroyUnreferenced(p)
    /\ broadcasting' = Nobody
    /\ UNCHANGED <<packetVars, flaggedSent, peerVars, listVars, visiting, transmitted>>

-----------------------------------------------------------------------------
(* enet_protocol_send_outgoing_commands *)

\* The application calls enet_host_flush, or enet_host_service, which also
\* looks at the timeouts.
Service(timeouts) ==
    /\ Idle
    /\ visiting' = [todo |-> HostPeers, timeouts |-> timeouts]
    /\ UNCHANGED <<packetVars, lifeVars, peerVars, listVars, broadcasting, transmitted>>

\* As Throttle below, but of a packet in fragments only the first is dropped.
Throttle_FirstOnly(commands, counter, throttle) ==
    LET verdict[i \in 0 .. Len(commands)] ==
            IF i = 0 THEN [counter |-> counter, dropped |-> {}]
            ELSE LET before == verdict[i - 1]
                     next   == (before.counter + ThrottleCounter) % ThrottleScale
                 IN  IF commands[i].frag = 0 /\ ~kind[commands[i].pkt].unthrottled
                     THEN [counter |-> next,
                           dropped |-> before.dropped \cup (IF next > throttle THEN {i} ELSE {})]
                     ELSE before
    IN  verdict[Len(commands)]

\* enet_protocol_check_outgoing_commands moves packetThrottleCounter for the
\* first fragment of a packet, and drops it when the counter is above the
\* throttle, with the commands after it that have the same numbers.
Throttle(commands, counter, throttle) ==
    LET verdict[i \in 0 .. Len(commands)] ==
            IF i = 0 THEN [counter |-> counter, dropped |-> {}]
            ELSE LET before == verdict[i - 1]
                     next   == (before.counter + ThrottleCounter) % ThrottleScale
                 IN  IF i - 1 \in before.dropped /\ commands[i - 1].number = commands[i].number
                     THEN [before EXCEPT !.dropped = @ \cup {i}]
                     ELSE IF commands[i].frag = 0 /\ ~kind[commands[i].pkt].unthrottled
                     THEN [counter |-> next,
                           dropped |-> before.dropped \cup (IF next > throttle THEN {i} ELSE {})]
                     ELSE before
    IN  verdict[Len(commands)]

\* A peer that is to disconnect later does so when it has nothing outgoing.
StateWhenEmpty(peer, outgoing) ==
    IF state[peer] = "DISCONNECT_LATER" /\ outgoing = <<>> THEN "ENDED" ELSE state[peer]

\* enet_peer_reset_queues: a peer's commands go, wherever they are.
ResetQueues(peer) ==
    /\ Release(Commands(peer), <<>>)
    /\ outgoingCommands' = [outgoingCommands EXCEPT ![peer] = <<>>]
    /\ outgoingSendReliableCommands' = [outgoingSendReliableCommands EXCEPT ![peer] = <<>>]
    /\ sentReliableCommands' = [sentReliableCommands EXCEPT ![peer] = <<>>]

\* The peers that are left, those whose datagram was full once more at the end;
\* none of them if the socket failed.
MoveOn(again) ==
    \/ visiting' = [visiting EXCEPT !.todo = Tail(@) \o again]
    \/ visiting' = Nowhere

\* A peer without queues of its own is passed over.
VisitNobody ==
    /\ visiting.todo # <<>> /\ state[Head(visiting.todo)] \in {"ENDED", "ZOMBIE"}
    /\ visiting' = [visiting EXCEPT !.todo = Tail(@)]
    /\ UNCHANGED <<packetVars, lifeVars, peerVars, listVars, broadcasting, transmitted>>

\* A command was not acknowledged for too long.  With an event to report it the
\* peer is reset and the call ends; without one it is a zombie until the event
\* is dispatched, and its queues stay.
VisitTimeout ==
    LET peer == Head(visiting.todo)
    IN  /\ visiting.todo # <<>> /\ visiting.timeouts
        /\ state[peer] \in {"CONNECTED", "DISCONNECT_LATER"}
        /\ sentReliableCommands[peer] # <<>>
        /\ \/ /\ ResetQueues(peer)
              /\ state' = [state EXCEPT ![peer] = "ENDED"]
              /\ visiting' = Nowhere
           \/ /\ state' = [state EXCEPT ![peer] = "ZOMBIE"]
              /\ visiting' = [visiting EXCEPT !.todo = Tail(@)]
              /\ UNCHANGED <<lifeVars, listVars>>
        /\ UNCHANGED <<packetVars, numbers, packetThrottleCounter, broadcasting, transmitted>>

\* The next peer: some of its sent commands have timed out and go to the front
\* of the others; then as much is sent as the datagram and the windows allow,
\* less what the throttle drops.
Visit(timedOut, reliable, unreliable, throttle) ==
    LET peer      == Head(visiting.todo)
        sent      == sentReliableCommands[peer]
        waiting   == Chosen(sent, timedOut) \o outgoingSendReliableCommands[peer]
        commands  == outgoingCommands[peer]
        first     == SubSeq(commands, 1, unreliable)
        rest      == SubSeq(commands, unreliable + 1, Len(commands))
        verdict   == Throttle(first, packetThrottleCounter[peer], throttle)
        dropped   == verdict.dropped
        resent    == [i \in 1 .. reliable |-> [waiting[i] EXCEPT !.attempted = TRUE]]
        unsent    == SubSeq(waiting, reliable + 1, Len(waiting))
        inFlight  == Others(sent, timedOut) \o resent
        handedOut == Others(first, dropped) \o resent
    IN  /\ state[peer] \in {"CONNECTED", "DISCONNECT_LATER"}
        /\ timedOut \subseteq DOMAIN sent
        /\ timedOut # {} => visiting.timeouts
        /\ reliable \in 0 .. Len(waiting) /\ unreliable \in 0 .. Len(commands)
        \* The end of the datagram is not looked at while commands are dropped.
        /\ ~(/\ dropped # {} /\ unreliable \in dropped /\ rest # <<>>
             /\ Head(rest).number = Last(first).number)
        /\ Release(Chosen(first, dropped), Others(first, dropped))
        /\ outgoingCommands' = [outgoingCommands EXCEPT ![peer] = rest]
        /\ outgoingSendReliableCommands' = [outgoingSendReliableCommands EXCEPT ![peer] = unsent]
        /\ sentReliableCommands' = [sentReliableCommands EXCEPT ![peer] = inFlight]
        /\ packetThrottleCounter' = [packetThrottleCounter EXCEPT ![peer] = verdict.counter]
        /\ transmitted' = [transmitted EXCEPT ![peer] =
                               @ \cup {<<c.pkt, c.frag>> : c \in Range(handedOut)}]
        /\ state' = [state EXCEPT ![peer] = StateWhenEmpty(peer, rest \o unsent \o inFlight)]
        /\ \/ rest = <<>> /\ MoveOn(<<>>)
           \/ rest \o unsent # <<>> /\ MoveOn(<<peer>>)
        /\ UNCHANGED <<packetVars, numbers, broadcasting>>

-----------------------------------------------------------------------------
(* What arrives, and the end of a peer *)

\* An acknowledgement is matched with a command that was sent, or that waits to
\* be sent again: of those that wait, the ones before the first that was not.
Acknowledged(peer) ==
    LET sent    == sentReliableCommands[peer]
        waiting == outgoingSendReliableCommands[peer]
    IN  \/ \E i \in DOMAIN sent :
              /\ Release(<<>>, <<sent[i]>>)
              /\ sentReliableCommands' = [sentReliableCommands EXCEPT ![peer] = RemoveAt(@, i)]
              /\ UNCHANGED outgoingSendReliableCommands
        \/ \E i \in DOMAIN waiting :
              /\ \A j \in 1 .. i : waiting[j].attempted
              /\ Release(<<>>, <<waiting[i]>>)
              /\ outgoingSendReliableCommands' =
                     [outgoingSendReliableCommands EXCEPT ![peer] = RemoveAt(@, i)]
              /\ UNCHANGED sentReliableCommands

\* enet_protocol_handle_acknowledge
HandleAcknowledge(peer) ==
    /\ Idle /\ state[peer] \in {"CONNECTED", "DISCONNECT_LATER"}
    /\ Acknowledged(peer)
    /\ UNCHANGED outgoingCommands
    /\ state' = [state EXCEPT ![peer] = StateWhenEmpty(peer, Commands(peer)')]
    /\ UNCHANGED <<packetVars, numbers, packetThrottleCounter, broadcasting, visiting,
                   transmitted>>

\* enet_peer_disconnect_later with commands left; without any it disconnects.
DisconnectLater(peer) ==
    /\ Idle /\ state[peer] = "CONNECTED"
    /\ state' = [state EXCEPT ![peer] = IF Commands(peer) = <<>> THEN "ENDED" ELSE "DISCONNECT_LATER"]
    /\ UNCHANGED <<packetVars, lifeVars, numbers, packetThrottleCounter, listVars,
                   broadcasting, visiting, transmitted>>

\* enet_peer_disconnect, enet_peer_disconnect_now, which flushes the host,
\* enet_peer_reset, the other side's DISCONNECT, or the dispatch of a zombie.
End(peer) ==
    /\ Idle /\ state[peer] # "ENDED"
    /\ ResetQueues(peer)
    /\ state' = [state EXCEPT ![peer] = "ENDED"]
    /\ \/ UNCHANGED visiting
       \/ state[peer] # "ZOMBIE" /\ visiting' = Flush
    /\ UNCHANGED <<packetVars, numbers, packetThrottleCounter, broadcasting, transmitted>>

\* A connection takes the peer again: enet_host_connect or a CONNECT.
Connect(peer) ==
    /\ Idle /\ state[peer] = "ENDED"
    /\ state' = [state EXCEPT ![peer] = "CONNECTED"]
    /\ numbers' = [numbers EXCEPT ![peer] = [rel |-> 0, unrel |-> 0]]
    /\ packetThrottleCounter' = [packetThrottleCounter EXCEPT ![peer] = 0]
    /\ UNCHANGED <<packetVars, lifeVars, listVars, broadcasting, visiting, transmitted>>

-----------------------------------------------------------------------------

Init ==
    /\ kind \in Batches
    /\ owner = [p \in Packets |-> "nobody"]
    /\ referenceCount = [p \in Packets |-> 0]
    /\ destroyed = [p \in Packets |-> 0]
    /\ flaggedSent = {}
    /\ state = [peer \in Peers |-> "CONNECTED"]
    /\ numbers = [peer \in Peers |-> [rel |-> 0, unrel |-> 0]]
    /\ outgoingCommands = [peer \in Peers |-> <<>>]
    /\ outgoingSendReliableCommands = [peer \in Peers |-> <<>>]
    /\ sentReliableCommands = [peer \in Peers |-> <<>>]
    /\ packetThrottleCounter = [peer \in Peers |-> 0]
    /\ broadcasting = Nobody
    /\ visiting = Nowhere
    /\ transmitted = [peer \in Peers |-> {}]

Next ==
    \/ \E p \in Packets : Create(p) \/ Dispose(p)
    \/ \E p \in Packets, peer \in Peers : Send(peer, p)
    \/ \E p \in Packets, recipients \in Recipients : Broadcast(p, recipients)
    \/ BroadcastNext \/ BroadcastDone
    \/ \E timeouts \in BOOLEAN : Service(timeouts)
    \/ VisitNobody \/ VisitTimeout
    \/ /\ visiting.todo # <<>>
       /\ LET peer == Head(visiting.todo)
          IN  \E timedOut \in SUBSET DOMAIN sentReliableCommands[peer],
                 reliable \in 0 .. Len(outgoingSendReliableCommands[peer] \o sentReliableCommands[peer]),
                 unreliable \in 0 .. Len(outgoingCommands[peer]),
                 throttle \in Throttles :
                     Visit(timedOut, reliable, unreliable, throttle)
    \/ \E peer \in Peers :
           HandleAcknowledge(peer) \/ DisconnectLater(peer) \/ End(peer) \/ Connect(peer)

Spec == Init /\ [][Next]_vars

-----------------------------------------------------------------------------
(* Properties *)

CommandSpace ==
    [pkt: Packets, frag: 0 .. FragmentCount - 1, number: [rel: Nat, unrel: Nat],
     attempted: BOOLEAN]

\* Every variable has its type; only commands of reliable packets wait to be
\* acknowledged, and all of those have been sent.
TypeOK ==
    /\ kind \in Batches
    /\ owner \in [Packets -> {"nobody", "application", "ENet"}]
    /\ referenceCount \in [Packets -> Nat] /\ destroyed \in [Packets -> Nat]
    /\ flaggedSent \subseteq Packets
    /\ state \in [Peers -> {"CONNECTED", "DISCONNECT_LATER", "ZOMBIE", "ENDED"}]
    /\ numbers \in [Peers -> [rel: Nat, unrel: Nat]]
    /\ \A peer \in Peers :
           /\ Range(Commands(peer)) \subseteq CommandSpace
           /\ \A c \in Range(outgoingCommands[peer]) : kind[c.pkt].class # "reliable"
           /\ \A c \in Range(outgoingSendReliableCommands[peer]) : kind[c.pkt].class = "reliable"
           /\ \A c \in Range(sentReliableCommands[peer]) :
                  kind[c.pkt].class = "reliable" /\ c.attempted
    /\ packetThrottleCounter \in [Peers -> 0 .. ThrottleScale - 1]
    /\ broadcasting.pkt \in {0} \cup Packets
    /\ visiting.timeouts \in BOOLEAN /\ Range(visiting.todo) \subseteq Peers
    /\ transmitted \in [Peers -> SUBSET (Packets \X (0 .. FragmentCount - 1))]

\* The places of packet p in the lists of some peers.
PlacesOf(p, peers) ==
    UNION {{peer} \X {i \in DOMAIN Commands(peer) : Commands(peer)[i].pkt = p} : peer \in peers}

\* How many commands of all peers, and broadcasts under way, use the packet.
Uses(p) ==
    Cardinality(PlacesOf(p, Peers))
        + (IF broadcasting.pkt = p /\ kind[p].instant THEN 1 ELSE 0)

\* referenceCount is the number of commands, in all lists of all peers, that
\* point at the packet, and one more while enet_host_broadcast guards it.
ReferencesExact == \A p \in Packets : referenceCount[p] = Uses(p)

\* A packet that is flagged ENET_PACKET_FLAG_SENT for its free callback was
\* destroyed, and some peer was sent all of it.
SentReachedAPeer(p) ==
    p \in flaggedSent =>
        /\ destroyed[p] = 1
        /\ \E peer \in Peers : \A frag \in 0 .. Fragments(p) - 1 : <<p, frag>> \in transmitted[peer]

\* enet_packet_destroy is called once at most, and then no list of any peer, no
\* broadcast under way and no application that was refused has the packet; its
\* flag tells the free callback the truth.
DestroyedOnce ==
    \A p \in Packets :
        /\ destroyed[p] <= 1
        /\ destroyed[p] = 1 => /\ \A peer \in Peers : Holding(p, Commands(peer)) = 0
                               /\ broadcasting.pkt # p
                               /\ owner[p] = "ENet"
        /\ SentReachedAPeer(p)

\* When ENet returns to the application, a packet handed over is in some list
\* of some peer, or has been destroyed: none is lost on a refusal, a drop, a
\* broadcast to nobody or the end of a peer.
NothingLeaks ==
    Idle => \A p \in Packets :
                owner[p] = "ENet" => destroyed[p] = 1 \/ \E peer \in Peers : Holding(p, Commands(peer)) > 0

\* The throttle drops an unreliable packet as a whole: no fragment of it goes to
\* a peer that was not given the first one.
DroppedWhole ==
    \A peer \in Peers : \A sent \in transmitted[peer] : <<sent[1], 0>> \in transmitted[peer]
=============================================================================
