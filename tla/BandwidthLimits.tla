-------------------------- MODULE BandwidthLimits --------------------------
(***************************************************************************)
(* How a host shares its bandwidth among its connected peers, and how the  *)
(* share bounds the throttle of each of them: enet_peer_throttle,          *)
(* enet_host_bandwidth_limit, enet_host_bandwidth_throttle and what the    *)
(* BANDWIDTH_LIMIT commands of the peers change.                           *)
(*                                                                         *)
(* A bandwidth of 0 means that there is no limit.  Quantities are words of *)
(* the source's 32 bits; BandwidthAssumption keeps products inside a word. *)
(***************************************************************************)
EXTENDS Integers, FiniteSets, FiniteSetsExt, Functions

CONSTANTS
    Peers,
    Word,            \* 2^32
    Scale,           \* ENET_PEER_PACKET_THROTTLE_SCALE (32)
    Second,          \* milliseconds of a second (1000)
    Elapsed,         \* times since the last enet_host_bandwidth_throttle
    HostLimits,      \* bandwidths of this host: records [incoming, outgoing]
    PeerLimits,      \* bandwidths the other sides announce
    Sizes,           \* sizes of the commands queued for a peer
    MaxData,         \* bound on outgoingDataTotal
    Steps            \* values of packetThrottleAcceleration and ...Deceleration

Limits == [incoming: Nat, outgoing: Nat]

ASSUME BandwidthAssumption ==
    /\ IsFiniteSet(Peers)
    /\ Word \in Nat /\ Scale \in Nat \ {0} /\ Second \in Nat \ {0}
    /\ Elapsed \subseteq Nat \ {0} /\ Sizes \subseteq Nat /\ Steps \subseteq 0 .. Word - 1
    /\ MaxData \in Nat /\ Cardinality(Peers) * MaxData < Word /\ Scale * MaxData < Word
    /\ HostLimits \subseteq Limits /\ PeerLimits \subseteq Limits
    /\ \A l \in HostLimits \cup PeerLimits, elapsed \in Elapsed :
           \A b \in {l.incoming, l.outgoing} :
               b * elapsed < Word /\ ((b * elapsed) \div Second) * Scale < Word

VARIABLES
    connected,           \* peers that are CONNECTED or in DISCONNECT_LATER
    pending,             \* peers in CONNECTION_PENDING or CONNECTION_SUCCEEDED
    limits,              \* a peer's incomingBandwidth and outgoingBandwidth
    outgoingDataTotal, packetThrottle, packetThrottleLimit,
    host,                \* the host's incomingBandwidth and outgoingBandwidth
    bandwidthLimitedPeers, recalculateBandwidthLimits

peerVars == <<limits, outgoingDataTotal, packetThrottle, packetThrottleLimit>>
vars == <<connected, pending, peerVars, host, bandwidthLimitedPeers, recalculateBandwidthLimits>>

-----------------------------------------------------------------------------
(* Connections *)

Limited(p) == limits[p].incoming # 0

\* enet_peer_on_connect, with the bandwidths that came with CONNECT or VERIFY_CONNECT:
\* they do not count before.
Connect(p, l) ==
    /\ p \notin connected
    /\ connected' = connected \cup {p}
    /\ limits' = [limits EXCEPT ![p] = l]
    /\ bandwidthLimitedPeers' = bandwidthLimitedPeers + (IF l.incoming # 0 THEN 1 ELSE 0)
    /\ UNCHANGED <<outgoingDataTotal, packetThrottle, packetThrottleLimit, host>>

\* enet_protocol_notify_connect with an event to fill: the peer is connected at once.
NotifyConnect(p, l) ==
    /\ p \notin pending
    /\ Connect(p, l)
    /\ recalculateBandwidthLimits' = TRUE
    /\ UNCHANGED pending

\* enet_protocol_notify_connect without an event: the peer waits to be dispatched,
\* and the new limits asked for may be computed without it.
NotifyConnectLater(p) ==
    /\ p \notin connected \cup pending
    /\ pending' = pending \cup {p}
    /\ recalculateBandwidthLimits' = TRUE
    /\ UNCHANGED <<connected, peerVars, host, bandwidthLimitedPeers>>

\* enet_protocol_dispatch_incoming_commands connects it and asks for no new limits.
DispatchConnect(p, l) ==
    /\ p \in pending
    /\ Connect(p, l)
    /\ pending' = pending \ {p}
    /\ UNCHANGED recalculateBandwidthLimits

\* A peer that is not connected, or no longer, is reset or becomes a zombie that is
\* reported later; some of these steps ask for new limits.
Leave(p, recalculate) ==
    /\ p \notin connected
    /\ pending' = pending \ {p}
    /\ recalculateBandwidthLimits' = (recalculateBandwidthLimits \/ recalculate)
    /\ UNCHANGED <<connected, peerVars, host, bandwidthLimitedPeers>>

\* As Disconnect below, but the slot keeps what was sent for the next connection.
Disconnect_KeepsData(p, recalculate) ==
    /\ p \in connected
    /\ connected' = connected \ {p}
    /\ bandwidthLimitedPeers' = bandwidthLimitedPeers - (IF Limited(p) THEN 1 ELSE 0)
    /\ recalculateBandwidthLimits' = (recalculateBandwidthLimits \/ recalculate)
    /\ limits' = [limits EXCEPT ![p] = [incoming |-> 0, outgoing |-> 0]]
    /\ packetThrottle' = [packetThrottle EXCEPT ![p] = Scale]
    /\ packetThrottleLimit' = [packetThrottleLimit EXCEPT ![p] = Scale]
    /\ UNCHANGED <<outgoingDataTotal, host, pending>>

\* enet_peer_on_disconnect, and what enet_peer_reset sets when the connection is
\* gone; some ways to disconnect ask for new limits.
Disconnect(p, recalculate) ==
    /\ p \in connected
    /\ connected' = connected \ {p}
    /\ bandwidthLimitedPeers' = bandwidthLimitedPeers - (IF Limited(p) THEN 1 ELSE 0)
    /\ recalculateBandwidthLimits' = (recalculateBandwidthLimits \/ recalculate)
    /\ limits' = [limits EXCEPT ![p] = [incoming |-> 0, outgoing |-> 0]]
    /\ outgoingDataTotal' = [outgoingDataTotal EXCEPT ![p] = 0]
    /\ packetThrottle' = [packetThrottle EXCEPT ![p] = Scale]
    /\ packetThrottleLimit' = [packetThrottleLimit EXCEPT ![p] = Scale]
    /\ UNCHANGED <<host, pending>>

\* As HandleBandwidthLimit below, but a peer that was limited is counted again.
HandleBandwidthLimit_CountsAgain(p, l) ==
    /\ p \in connected
    /\ limits' = [limits EXCEPT ![p] = l]
    /\ bandwidthLimitedPeers' = bandwidthLimitedPeers + (IF l.incoming # 0 THEN 1 ELSE 0)
    /\ UNCHANGED <<connected, pending, outgoingDataTotal, packetThrottle, packetThrottleLimit, host,
                   recalculateBandwidthLimits>>

\* enet_protocol_handle_bandwidth_limit
HandleBandwidthLimit(p, l) ==
    /\ p \in connected
    /\ limits' = [limits EXCEPT ![p] = l]
    /\ bandwidthLimitedPeers' = bandwidthLimitedPeers - (IF Limited(p) THEN 1 ELSE 0)
                                    + (IF l.incoming # 0 THEN 1 ELSE 0)
    /\ UNCHANGED <<connected, pending, outgoingDataTotal, packetThrottle, packetThrottleLimit, host,
                   recalculateBandwidthLimits>>

\* enet_host_bandwidth_limit
HostLimit(l) ==
    /\ host' = l
    /\ recalculateBandwidthLimits' = TRUE
    /\ UNCHANGED <<connected, pending, peerVars, bandwidthLimitedPeers>>

-----------------------------------------------------------------------------
(* The throttle of a peer *)

\* A command of some size is queued for the peer.
Queue(p, size) ==
    /\ p \in connected
    /\ outgoingDataTotal[p] + size <= MaxData
    /\ outgoingDataTotal' = [outgoingDataTotal EXCEPT ![p] = @ + size]
    /\ UNCHANGED <<connected, pending, limits, packetThrottle, packetThrottleLimit, host,
                   bandwidthLimitedPeers, recalculateBandwidthLimits>>

\* enet_peer_throttle: an acknowledgement came without variance in the round-trip
\* time, sooner than before, or later.  The sum wraps.
PeerThrottle(p, step) ==
    /\ p \in connected
    /\ \/ packetThrottle' = [packetThrottle EXCEPT ![p] = packetThrottleLimit[p]]
       \/ packetThrottle' =
              [packetThrottle EXCEPT ![p] = Min({(@ + step) % Word, packetThrottleLimit[p]})]
       \/ packetThrottle' = [packetThrottle EXCEPT ![p] = IF @ > step THEN @ - step ELSE 0]
    /\ UNCHANGED <<connected, pending, limits, outgoingDataTotal, packetThrottleLimit, host,
                   bandwidthLimitedPeers, recalculateBandwidthLimits>>

-----------------------------------------------------------------------------
(* enet_host_bandwidth_throttle *)

Times(a, b) == (a * b) % Word
Minus(a, b) == (a - b) % Word

\* Bytes that a bandwidth allows in the time elapsed.
Allowed(bandwidth, elapsed) == Times(bandwidth, elapsed) \div Second

\* What each peer may receive in that time.
Receivable(elapsed) == [p \in Peers |-> Allowed(limits[p].incoming, elapsed)]

\* The part of dataTotal that fits into bandwidth, on the scale.
Fraction(bandwidth, dataTotal) ==
    IF dataTotal <= bandwidth THEN Scale ELSE Times(bandwidth, Scale) \div dataTotal

\* The peers that may receive less than the common throttle lets through.
Overloaded(share, elapsed) ==
    LET throttle == Fraction(share.bandwidth, share.dataTotal)
    IN  {p \in share.peers :
            /\ Limited(p)
            /\ Times(throttle, outgoingDataTotal[p]) \div Scale
                   > Receivable(elapsed)[p]}

\* As WithoutOverloaded below, but what they send leaves the total and what they
\* may receive does not leave the bandwidth.
WithoutOverloaded_KeepsBandwidth(share, elapsed) ==
    LET over  == Overloaded(share, elapsed)
        taken == SumFunctionOnSet(Receivable(elapsed), over)
    IN  [share EXCEPT !.peers = @ \ over, !.dataTotal = Minus(@, taken)]

\* One round of the loop: those peers leave with what they may receive.
WithoutOverloaded(share, elapsed) ==
    LET over  == Overloaded(share, elapsed)
        taken == SumFunctionOnSet(Receivable(elapsed), over)
    IN  [peers     |-> share.peers \ over,
         bandwidth |-> Minus(share.bandwidth, taken),
         dataTotal |-> Minus(share.dataTotal, taken)]

\* What there is to share: without an outgoing bandwidth there is no limit.
Offered(elapsed) ==
    IF host.outgoing = 0
    THEN [peers |-> connected, bandwidth |-> Word - 1, dataTotal |-> Word - 1]
    ELSE [peers     |-> connected,
          bandwidth |-> Allowed(host.outgoing, elapsed),
          dataTotal |-> SumFunctionOnSet(outgoingDataTotal, connected) % Word]

\* What is left when no peer is overloaded any more; without limited peers the
\* loop does not start.
Shared(elapsed) ==
    LET round[n \in 0 .. Cardinality(Peers)] ==
            IF n = 0 THEN Offered(elapsed) ELSE WithoutOverloaded(round[n - 1], elapsed)
    IN  round[IF bandwidthLimitedPeers > 0 THEN Cardinality(Peers) ELSE 0]

\* A peer that left the loop has a limit of its own, at least 1; the others have
\* the common one.
LimitAfter(p, share, elapsed) ==
    IF p \in share.peers
    THEN Fraction(share.bandwidth, share.dataTotal)
    ELSE Max({1, Times(Receivable(elapsed)[p], Scale) \div outgoingDataTotal[p]})

\* What each peer sends at most.
Sends == [p \in Peers |-> limits[p].outgoing]

\* An equal part of the bandwidth for each peer.
EqualPart(share) ==
    IF share.peers = {} THEN share.each ELSE share.bandwidth \div Cardinality(share.peers)

\* The peers that would send less.
Modest(share) ==
    {p \in share.peers : Sends[p] = 0 \/ Sends[p] < EqualPart(share)}

\* One round of the loop: they leave the others what they do not use.
WithoutModest(share) ==
    [peers     |-> share.peers \ Modest(share),
     bandwidth |-> Minus(share.bandwidth, SumFunctionOnSet(Sends, Modest(share))),
     each      |-> EqualPart(share)]

\* As FairShare below, but all peers are given the same.
FairShare_Equal ==
    [peers |-> connected, bandwidth |-> host.incoming,
     each |-> host.incoming \div Cardinality(connected)]

\* What is left when no peer is modest any more; without an incoming bandwidth
\* the loop does not start.
FairShare ==
    LET round[n \in 0 .. Cardinality(Peers) + 1] ==
            IF n = 0 THEN [peers |-> connected, bandwidth |-> host.incoming, each |-> 0]
            ELSE WithoutModest(round[n - 1])
    IN  round[IF host.incoming = 0 THEN 0 ELSE Cardinality(Peers) + 1]

\* The incoming bandwidth of the BANDWIDTH_LIMIT command that p is sent.
Told(p) == IF p \in FairShare.peers THEN FairShare.each ELSE limits[p].outgoing

\* enet_host_bandwidth_throttle, called by enet_host_service.  If the limits are
\* to be recalculated each connected peer is sent what Told says.
BandwidthThrottle(elapsed) ==
    /\ host.outgoing # 0 \/ host.incoming # 0
    /\ connected # {}
    /\ outgoingDataTotal' = [p \in Peers |-> 0]
    /\ recalculateBandwidthLimits' = FALSE
    /\ UNCHANGED <<connected, pending, limits, host, bandwidthLimitedPeers>>
    /\ LET share    == Shared(elapsed)
           limit(p) == LimitAfter(p, share, elapsed)
       IN  /\ packetThrottleLimit' =
                  [p \in Peers |-> IF p \in connected THEN limit(p) ELSE packetThrottleLimit[p]]
           /\ packetThrottle' =
                  [p \in Peers |-> IF p \in connected THEN Min({packetThrottle[p], limit(p)})
                                   ELSE packetThrottle[p]]

-----------------------------------------------------------------------------

Init ==
    /\ connected = {} /\ pending = {}
    /\ limits = [p \in Peers |-> [incoming |-> 0, outgoing |-> 0]]
    /\ outgoingDataTotal = [p \in Peers |-> 0]
    /\ packetThrottle = [p \in Peers |-> Scale]
    /\ packetThrottleLimit = [p \in Peers |-> Scale]
    /\ host \in HostLimits
    /\ bandwidthLimitedPeers = 0
    /\ recalculateBandwidthLimits = FALSE

Next ==
    \/ \E p \in Peers, l \in PeerLimits :
          NotifyConnect(p, l) \/ DispatchConnect(p, l) \/ HandleBandwidthLimit(p, l)
    \/ \E p \in Peers : NotifyConnectLater(p)
    \/ \E p \in Peers, recalculate \in BOOLEAN :
          Disconnect(p, recalculate) \/ Leave(p, recalculate)
    \/ \E l \in HostLimits : HostLimit(l)
    \/ \E p \in Peers, size \in Sizes : Queue(p, size)
    \/ \E p \in Peers, step \in Steps : PeerThrottle(p, step)
    \/ \E elapsed \in Elapsed : BandwidthThrottle(elapsed)

Spec == Init /\ [][Next]_vars

-----------------------------------------------------------------------------
(* Properties *)

\* Every variable has its type: the throttle of a peer is never above the limit
\* its share of the bandwidth sets, and the limit never above the scale, whatever
\* the configured steps.  A peer that is not connected has no bandwidth, no data
\* and the default throttle.
TypeOK ==
    /\ connected \subseteq Peers /\ pending \subseteq Peers \ connected
    /\ limits \in [Peers -> Limits] /\ host \in Limits
    /\ outgoingDataTotal \in [Peers -> 0 .. MaxData]
    /\ packetThrottle \in [Peers -> 0 .. Scale] /\ packetThrottleLimit \in [Peers -> 0 .. Scale]
    /\ \A p \in Peers : packetThrottle[p] <= packetThrottleLimit[p]
    /\ bandwidthLimitedPeers \in Nat
    /\ recalculateBandwidthLimits \in BOOLEAN
    /\ \A p \in Peers \ connected :
           /\ ~Limited(p) /\ outgoingDataTotal[p] = 0
           /\ packetThrottle[p] = Scale /\ packetThrottleLimit[p] = Scale

\* host->bandwidthLimitedPeers is the number of connected peers whose incoming
\* bandwidth is limited, however often a peer changes its mind or goes: the loop
\* that respects their limits runs only if it is not 0.
LimitedPeersCounted ==
    bandwidthLimitedPeers = Cardinality({p \in connected : Limited(p)})

\* Sent at the new limits, the data of the last interval fits: of each limited
\* peer into what it may receive, and of all peers together into the bandwidth
\* of the host, but for peers whose limit was raised to 1.
DataFits(elapsed) ==
    LET atLimit == [p \in Peers |-> packetThrottleLimit'[p] * outgoingDataTotal[p]]
        raised  == {p \in connected : Limited(p)
                        /\ Receivable(elapsed)[p] * Scale < outgoingDataTotal[p]}
    IN  /\ \A p \in connected \ raised :
               Limited(p) => atLimit[p] \div Scale <= Receivable(elapsed)[p]
        /\ host.outgoing # 0 =>
               SumFunctionOnSet(atLimit, connected \ raised)
                   <= Scale * Allowed(host.outgoing, elapsed)

\* enet_host_bandwidth_throttle never lets more through than the host and each
\* peer allow: the unsigned subtractions of its loop do not wrap.
OutgoingFits == [][\A elapsed \in Elapsed : BandwidthThrottle(elapsed) => DataFits(elapsed)]_vars

\* The peers that say how much they send are told to keep to a fair share: no
\* more than they send and than the host has, and one that is told to send less
\* may send as much as any other, with less than one unit for each peer unused.
FairlyTold ==
    LET some == {p \in connected : limits[p].outgoing # 0}
        all  == SumFunctionOnSet([p \in Peers |-> IF p \in some THEN Told(p) ELSE 0], some)
    IN  /\ all <= host.incoming
        /\ \A p \in some :
               \/ Told(p) = limits[p].outgoing
               \/ /\ Told(p) < limits[p].outgoing
                  /\ \A q \in some : Told(q) <= Told(p)
                  /\ all > host.incoming - Cardinality(connected)

\* When enet_host_bandwidth_throttle recalculates the limits of a host with an
\* incoming bandwidth, what it tells the peers is fair.
IncomingShared ==
    [][host.incoming # 0 /\ recalculateBandwidthLimits /\ ~recalculateBandwidthLimits'
           => FairlyTold]_vars
=============================================================================
