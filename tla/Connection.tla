----------------------------- MODULE Connection -----------------------------
(***************************************************************************)
(* Connection management of Source/Native/enet.h: the peers of every host, *)
(* the handshake with its connect and session identifiers, the ways to     *)
(* disconnect, timeouts, the dispatch queue and the events it reports, over*)
(* a network that loses, duplicates and reorders datagrams.                *)
(*                                                                         *)
(* A host is a record, and the static functions of the code that take the  *)
(* host and a peer are operators from the host and the peer's index to the *)
(* host. enet_host_service is a loop over three steps, sending, receiving  *)
(* and dispatching, that enet_host_flush and enet_host_check_events also   *)
(* run on their own; here each is an action.                               *)
(*                                                                         *)
(* Every datagram has room for all that is queued. A channel carries at    *)
(* most one packet of each connection and direction: how a channel orders  *)
(* many is the subject of ReliableChannel.                                 *)
(***************************************************************************)
EXTENDS Naturals, Sequences, FiniteSets, SequencesExt, FiniteSetsExt, SubSequences

CONSTANTS
    Hosts,          \* addresses; a host is its address
    Connectors,     \* hosts whose application calls enet_host_connect
    PeerCount,      \* peerCount of each host
    DuplicatePeers, \* host->duplicatePeers
    EventChoices,   \* whether enet_host_service gets an event: TRUE, FALSE or both
    Calls,          \* bound: the functions an application calls on its peers
    MaxConnects,    \* bound: calls of enet_host_connect on each host
    MaxAccepts,     \* bound: requests a host accepts, the repeated ones included
    MaxPings,       \* bound: pings of a peer in one connection
    MaxQueued       \* bound: acknowledgements a peer has queued

ASSUME ConstantsAssumption ==
    /\ Connectors \subseteq Hosts /\ EventChoices \subseteq BOOLEAN
    /\ PeerCount \in [Hosts -> Nat \ {0}]
    /\ DuplicatePeers \in Nat /\ MaxConnects \in Nat /\ MaxAccepts \in Nat /\ MaxPings \in Nat
    /\ MaxQueued \in Nat
    /\ Calls \subseteq {"disconnect", "now", "later", "reset", "send", "receive"}

VARIABLES
    host,      \* peers, dispatchQueue, connectedPeers and randomSeed of each host
    net,       \* datagrams sent; none is ever lost for good, any may never arrive
    app,       \* what the events told the application of each peer
    confirmed  \* history: connect requests whose VERIFY_CONNECT was accepted

vars == <<host, net, app, confirmed>>

-----------------------------------------------------------------------------
(* Peers, commands and datagrams *)

States == {"DISCONNECTED", "CONNECTING", "ACKNOWLEDGING_CONNECT", "CONNECTION_PENDING",
           "CONNECTION_SUCCEEDED", "CONNECTED", "DISCONNECT_LATER", "DISCONNECTING",
           "ACKNOWLEDGING_DISCONNECT", "ZOMBIE"}
Connected == {"CONNECTED", "DISCONNECT_LATER"}
Peers(h) == 0 .. PeerCount[h] - 1
NoPeer == 4095     \* ENET_PROTOCOL_MAXIMUM_PEER_ID
NoSession == 255   \* sessions of a peer that was never connected

\* A connectID; the random seeds of the hosts make those of two hosts differ.
ConnectID(h, n) == <<h, n>>

\* A command of channel 0xFF ("control") or of the data channel; reliable
\* stands for ENET_PROTOCOL_COMMAND_FLAG_ACKNOWLEDGE.
Command(type, channel, seq, reliable) ==
    [type |-> type, channel |-> channel, seq |-> seq, reliable |-> reliable]
\* CONNECT and VERIFY_CONNECT also carry a connectID, the index of the peer
\* that sends and its sessions.
Handshake(type, seq, id, peer, in, out) ==
    [type |-> type, channel |-> "control", seq |-> seq, reliable |-> TRUE,
     connectID |-> id, peer |-> peer, incomingSessionID |-> in, outgoingSessionID |-> out]
Acknowledge(cmd) == Command("ACKNOWLEDGE", cmd.channel, cmd.seq, FALSE)

FreshPeer(h) ==
    [state |-> "DISCONNECTED", address |-> h, connectID |-> ConnectID(h, 0),
     outgoingPeerID |-> NoPeer, incomingSessionID |-> NoSession, outgoingSessionID |-> NoSession,
     seq |-> 0,            \* outgoingReliableSequenceNumber
     packetSent |-> FALSE, packetArrived |-> FALSE,  \* the channel's sequence numbers
     outgoing |-> <<>>,    \* outgoing commands never sent
     again |-> <<>>,       \* outgoing commands that timed out, in front of them
     sent |-> <<>>,        \* sentReliableCommands
     acknowledgements |-> <<>>,
     dispatched |-> 0,     \* length of dispatchedCommands
     needsDispatch |-> FALSE]

Waiting(P) == P.acknowledgements \o P.again \o P.outgoing

\* checksumCallback seeds the checksum of a datagram with the connectID of the
\* peer that sends it; otherwise connectID is a history of the datagram.
Datagram(h, P) ==
    [from |-> h, to |-> P.address, peerID |-> P.outgoingPeerID, connectID |-> P.connectID,
     sessionID |-> IF P.outgoingPeerID # NoPeer THEN P.outgoingSessionID ELSE 0,
     commands |-> Waiting(P)]

-----------------------------------------------------------------------------
(* Functions on a host H and the index p of one of its peers *)

\* Mutant: enet_peer_on_disconnect without its condition.
ChangeState_Uncounted(H, p, state) ==
    LET was == H.peers[p].state \in Connected
        is  == state \in Connected
    IN  [H EXCEPT !.peers[p].state = state,
                  !.connectedPeers = CASE is /\ ~was -> @ + 1
                                       [] ~is         -> @ - 1
                                       [] OTHER       -> @]

\* enet_protocol_change_state with enet_peer_on_connect and _on_disconnect.
ChangeState(H, p, state) ==
    LET was == H.peers[p].state \in Connected
        is  == state \in Connected
    IN  [H EXCEPT !.peers[p].state = state,
                  !.connectedPeers = CASE is /\ ~was -> @ + 1
                                       [] was /\ ~is -> @ - 1
                                       [] OTHER      -> @]

Enqueue(H, p) ==
    IF H.peers[p].needsDispatch THEN H
    ELSE [H EXCEPT !.dispatchQueue = Append(@, p), !.peers[p].needsDispatch = TRUE]

DispatchState(H, p, state) == Enqueue(ChangeState(H, p, state), p)

\* Mutant: the peer stays in the dispatch queue.
ResetQueues_KeepsPlace(H, p) ==
    [H EXCEPT !.peers[p] = [@ EXCEPT !.needsDispatch = FALSE, !.acknowledgements = <<>>,
                                     !.sent = <<>>, !.again = <<>>, !.outgoing = <<>>,
                                     !.dispatched = 0]]

\* enet_peer_reset_queues
ResetQueues(H, p) ==
    [H EXCEPT !.dispatchQueue = IF H.peers[p].needsDispatch THEN Kept(@, ToSet(@) \ {p}) ELSE @,
              !.peers[p] = [@ EXCEPT !.needsDispatch = FALSE, !.acknowledgements = <<>>,
                                     !.sent = <<>>, !.again = <<>>, !.outgoing = <<>>,
                                     !.dispatched = 0]]

\* Mutant: the reset peer still counts as connected.
Reset_StillCounted(H, p) ==
    LET G == [H EXCEPT !.peers[p].state = "DISCONNECTED"]
    IN  ResetQueues([G EXCEPT !.peers[p].outgoingPeerID = NoPeer, !.peers[p].seq = 0,
                              !.peers[p].packetSent = FALSE, !.peers[p].packetArrived = FALSE], p)

\* enet_peer_reset; connectID, address and the sessions outlive it.
Reset(H, p) ==
    LET G == ChangeState(H, p, "DISCONNECTED")
    IN  ResetQueues([G EXCEPT !.peers[p].outgoingPeerID = NoPeer, !.peers[p].seq = 0,
                              !.peers[p].packetSent = FALSE, !.peers[p].packetArrived = FALSE], p)

Report(H, event) == [H EXCEPT !.event = event]

\* Queue a command on the control channel.
Queue(H, p, type, reliable) ==
    LET seq == H.peers[p].seq + 1
    IN  [H EXCEPT !.peers[p].seq = seq,
                  !.peers[p].outgoing = Append(@, Command(type, "control", seq, reliable))]

\* enet_protocol_send_outgoing_commands, to every peer, without timeouts: the
\* acknowledgements first; sending that of a DISCONNECT makes a zombie.
HasToSend(P) == P.state \notin {"DISCONNECTED", "ZOMBIE"} /\ Waiting(P) # <<>>
AfterSending(P) ==
    [P EXCEPT !.acknowledgements = <<>>, !.again = <<>>, !.outgoing = <<>>,
              !.sent = @ \o P.again \o Kept(P.outgoing, {cmd \in ToSet(P.outgoing) : cmd.reliable})]
ClosedBySending(P) ==
    HasToSend(P) /\ P.state = "ACKNOWLEDGING_DISCONNECT" /\ P.acknowledgements # <<>>
SendAll(H) ==
    LET sent == [H EXCEPT !.peers = [p \in DOMAIN H.peers |->
                     IF HasToSend(H.peers[p]) THEN AfterSending(H.peers[p]) ELSE H.peers[p]]]
        n    == Cardinality(DOMAIN H.peers)
        Closed[i \in 0 .. n] ==
            IF i = 0 THEN sent
            ELSE IF ClosedBySending(H.peers[i - 1])
                 THEN DispatchState(Closed[i - 1], i - 1, "ZOMBIE")
            ELSE Closed[i - 1]
    IN  Closed[n]
Datagrams(h, H) == {Datagram(h, H.peers[p]) : p \in {q \in Peers(h) : HasToSend(H.peers[q])}}

\* enet_peer_disconnect without the flush and reset of a peer not connected.
RequestDisconnect(H, p) ==
    LET connected == H.peers[p].state \in Connected
        queued    == Queue(ResetQueues(H, p), p, "DISCONNECT", connected)
    IN  IF connected THEN ChangeState(queued, p, "DISCONNECTING") ELSE queued

-----------------------------------------------------------------------------
(* Notifications: what a handler does at the end of a handshake *)

NotifyConnect(H, p, event) ==
    IF event THEN Report(ChangeState(H, p, "CONNECTED"), "CONNECT")
    ELSE DispatchState(H, p, IF H.peers[p].state = "CONNECTING" THEN "CONNECTION_SUCCEEDED"
                                                                ELSE "CONNECTION_PENDING")

\* Mutant: an event for every peer that ends.
NotifyEnd_Everyone(H, p, event, type) ==
    IF event THEN Report(Reset(H, p), type) ELSE DispatchState(H, p, "ZOMBIE")

\* enet_protocol_notify_disconnect and _notify_disconnect_timeout: a peer whose
\* CONNECT the application has not seen yet disappears without an event.
Unannounced == {"ACKNOWLEDGING_CONNECT", "CONNECTION_PENDING"}
NotifyEnd(H, p, event, type) ==
    IF H.peers[p].state \in Unannounced THEN Reset(H, p)
    ELSE IF event THEN Report(Reset(H, p), type)
    ELSE DispatchState(H, p, "ZOMBIE")

-----------------------------------------------------------------------------
(* Handlers of commands: each returns the host, and stop when the rest of  *)
(* the datagram is not looked at                                           *)

Go(H) == [host |-> H, stop |-> FALSE]
Stop(H) == [host |-> H, stop |-> TRUE]

Named(P, cmd) == {m \in ToSet(P.sent) \cup ToSet(P.again) :
                     m.seq = cmd.seq /\ m.channel = cmd.channel}
RemoveSent(P, cmd) ==
    [P EXCEPT !.sent  = Kept(@, ToSet(@) \ Named(P, cmd)),
              !.again = Kept(@, ToSet(@) \ Named(P, cmd))]

HandleAcknowledge(H, p, cmd, event) ==
    LET P     == H.peers[p]
        G     == [H EXCEPT !.peers[p] = RemoveSent(P, cmd)]
        types == {m.type : m \in Named(P, cmd)}
    IN  CASE P.state \in {"DISCONNECTED", "ZOMBIE"} -> Go(H)
          [] P.state = "ACKNOWLEDGING_CONNECT" ->
                IF "VERIFY_CONNECT" \in types THEN Go(NotifyConnect(G, p, event)) ELSE Stop(G)
          [] P.state = "DISCONNECTING" ->
                IF "DISCONNECT" \in types THEN Go(NotifyEnd(G, p, event, "DISCONNECT")) ELSE Stop(G)
          [] P.state = "DISCONNECT_LATER" ->
                Go(IF G.peers[p].outgoing \o G.peers[p].again \o G.peers[p].sent = <<>>
                   THEN RequestDisconnect(G, p) ELSE G)
          [] OTHER -> Go(G)

\* Mutant: the session the peer used last.
NextSession_Same(theirs, mine) == IF theirs = NoSession THEN 0 ELSE theirs

\* The session identifiers of a new connection differ from those this peer and
\* the other one used last.
NextSession(theirs, mine) ==
    LET next == ((IF theirs = NoSession THEN mine ELSE theirs) + 1) % 4
    IN  IF next = mine THEN (next + 1) % 4 ELSE next

Known(H, from) == {q \in DOMAIN H.peers : /\ H.peers[q].state \notin {"DISCONNECTED", "CONNECTING"}
                                          /\ H.peers[q].address = from}
Free(H) == {q \in DOMAIN H.peers : H.peers[q].state = "DISCONNECTED"}

\* Mutant: a repeated request is not recognised.
Accepting_Twins(H, from, cmd) ==
    /\ Free(H) # {}
    /\ Cardinality(Known(H, from)) < DuplicatePeers

Accepting(H, from, cmd) ==
    /\ \A q \in Known(H, from) : H.peers[q].connectID # cmd.connectID
    /\ Free(H) # {}
    /\ Cardinality(Known(H, from)) < DuplicatePeers

\* enet_protocol_handle_connect
HandleConnect(H, from, cmd) ==
    LET p   == Min(Free(H))
        out == NextSession(cmd.incomingSessionID, H.peers[p].outgoingSessionID)
        in  == NextSession(cmd.outgoingSessionID, H.peers[p].incomingSessionID)
    IN  IF ~Accepting(H, from, cmd) THEN H
        ELSE [H EXCEPT !.accepts = @ + 1, !.peers[p] =
                [@ EXCEPT !.state = "ACKNOWLEDGING_CONNECT", !.connectID = cmd.connectID,
                          !.address = from, !.outgoingPeerID = cmd.peer,
                          !.outgoingSessionID = out, !.incomingSessionID = in, !.seq = 1,
                          !.outgoing = <<Handshake("VERIFY_CONNECT", 1, cmd.connectID, p, out, in)>>]]

\* enet_protocol_handle_verify_connect
HandleVerifyConnect(H, p, cmd, event) ==
    LET P == H.peers[p]
        G == [H EXCEPT !.peers[p] = [RemoveSent(P, Command("CONNECT", "control", 1, TRUE)) EXCEPT
                    !.outgoingPeerID = cmd.peer, !.incomingSessionID = cmd.incomingSessionID,
                    !.outgoingSessionID = cmd.outgoingSessionID]]
    IN  IF P.state # "CONNECTING" THEN Go(H)
        ELSE IF P.connectID # cmd.connectID THEN Stop(DispatchState(H, p, "ZOMBIE"))
        ELSE Go(NotifyConnect(G, p, event))

\* Mutant: a zombie is not queued for dispatch.
HandleDisconnect_Silent(H, p, cmd) ==
    LET state == H.peers[p].state
        G     == ResetQueues(H, p)
    IN  CASE state \in {"DISCONNECTED", "ZOMBIE", "ACKNOWLEDGING_DISCONNECT"} -> Go(H)
          [] state \in {"CONNECTION_SUCCEEDED", "DISCONNECTING", "CONNECTING"} ->
                Go(ChangeState(G, p, "ZOMBIE"))
          [] state \in Unannounced -> Go(Reset(G, p))
          [] OTHER -> Go(IF cmd.reliable THEN ChangeState(G, p, "ACKNOWLEDGING_DISCONNECT")
                                         ELSE DispatchState(G, p, "ZOMBIE"))

\* enet_protocol_handle_disconnect
HandleDisconnect(H, p, cmd) ==
    LET state == H.peers[p].state
        G     == ResetQueues(H, p)
    IN  CASE state \in {"DISCONNECTED", "ZOMBIE", "ACKNOWLEDGING_DISCONNECT"} -> Go(H)
          [] state \in {"CONNECTION_SUCCEEDED", "DISCONNECTING", "CONNECTING"} ->
                Go(DispatchState(G, p, "ZOMBIE"))
          [] state \in Unannounced -> Go(Reset(G, p))
          [] OTHER -> Go(IF cmd.reliable THEN ChangeState(G, p, "ACKNOWLEDGING_DISCONNECT")
                                         ELSE DispatchState(G, p, "ZOMBIE"))

\* enet_protocol_handle_send_reliable: a peer that disconnects later throws the
\* packet away, and acknowledges it.
HandleSendReliable(H, p) ==
    LET P == H.peers[p]
    IN  IF P.state \notin Connected THEN Stop(H)
        ELSE IF P.state = "DISCONNECT_LATER" \/ P.packetArrived THEN Go(H)
        ELSE Go(Enqueue([H EXCEPT !.peers[p].packetArrived = TRUE,
                                  !.peers[p].dispatched = @ + 1], p))

Handle(H, p, cmd, event) ==
    CASE cmd.type = "ACKNOWLEDGE"    -> HandleAcknowledge(H, p, cmd, event)
      [] cmd.type = "CONNECT"        -> Stop(H)
      [] cmd.type = "VERIFY_CONNECT" -> HandleVerifyConnect(H, p, cmd, event)
      [] cmd.type = "DISCONNECT"     -> HandleDisconnect(H, p, cmd)
      [] cmd.type = "PING"           -> IF H.peers[p].state \in Connected THEN Go(H) ELSE Stop(H)
      [] cmd.type = "SEND_RELIABLE"  -> HandleSendReliable(H, p)

\* What follows the switch over the commands: queue the acknowledgement.
Acknowledging(P, cmd) ==
    /\ cmd.reliable
    /\ P.state \notin {"DISCONNECTING", "ACKNOWLEDGING_CONNECT", "DISCONNECTED", "ZOMBIE"}
    /\ P.state = "ACKNOWLEDGING_DISCONNECT" => cmd.type = "DISCONNECT"

HandleNext(R, p, cmd, event) ==
    LET next == Handle(R.host, p, cmd, event)
        G    == next.host
    IN  CASE R.stop -> R
          [] ~R.stop /\ ~next.stop /\ Acknowledging(G.peers[p], cmd) ->
                Go([G EXCEPT !.peers[p].acknowledgements = Append(@, Acknowledge(cmd))])
          [] OTHER -> next

\* The checks on the header of a datagram for an existing peer.
Accepts(H, d) ==
    /\ d.peerID \in DOMAIN H.peers
    /\ LET P == H.peers[d.peerID]
       IN  /\ P.state \notin {"DISCONNECTED", "ZOMBIE"} /\ P.address = d.from
           /\ P.outgoingPeerID # NoPeer => d.sessionID = P.incomingSessionID

\* The loop over the commands of a datagram.
HandleCommands(H, p, commands, event) ==
    LET Done[i \in 0 .. Len(commands)] ==
            IF i = 0 THEN Go(H) ELSE HandleNext(Done[i - 1], p, commands[i], event)
    IN  Done[Len(commands)].host

\* enet_protocol_handle_incoming_commands
HandleDatagram(H, d, event) ==
    IF d.peerID = NoPeer
    THEN IF Len(d.commands) = 1 /\ d.commands[1].type = "CONNECT"
         THEN HandleConnect(H, d.from, d.commands[1]) ELSE H
    ELSE IF Accepts(H, d) THEN HandleCommands(H, d.peerID, d.commands, event) ELSE H

-----------------------------------------------------------------------------
(* Actions *)

Init ==
    /\ host = [h \in Hosts |-> [peers |-> [p \in Peers(h) |-> FreshPeer(h)], dispatchQueue |-> <<>>,
                                connectedPeers |-> 0, randomSeed |-> 0, accepts |-> 0, event |-> "NONE"]]
    /\ net = {} /\ confirmed = {}
    /\ app = [h \in Hosts |-> [p \in Peers(h) |-> "unknown"]]

\* What an application that saw view of a peer sees after an event about it.
Seen(view, event) ==
    CASE event = "NONE"                              -> view
      [] event = "CONNECT" /\ view # "connected"     -> "connected"
      [] event = "RECEIVE" /\ view = "connected"     -> "connected"
      [] event \in {"DISCONNECT", "TIMEOUT"} /\ view # "unknown" -> "unknown"
      [] OTHER                                       -> "contradicted"

\* The host becomes H; the event about peer p, if H has one, is returned.
Becomes(h, H, p) ==
    /\ host' = [host EXCEPT ![h] = [H EXCEPT !.event = "NONE"]]
    /\ app' = [app EXCEPT ![h][p] = Seen(@, H.event)]

\* A call of the application on peer p: it knows when the peer is reset by it.
Called(call, h, H, p) ==
    /\ call \in Calls /\ app[h][p] # "unknown"
    /\ host' = [host EXCEPT ![h] = H]
    /\ app' = [app EXCEPT ![h][p] = IF H.peers[p].state = "DISCONNECTED" THEN "unknown" ELSE @]
    /\ UNCHANGED confirmed

\* enet_host_connect
Connect(h, address) ==
    LET H  == host[h]
        p  == Min(Free(H))
        P  == H.peers[p]
        id == ConnectID(h, H.randomSeed + 1)
    IN  /\ h \in Connectors /\ address # h /\ Free(H) # {} /\ H.randomSeed < MaxConnects
        /\ host' = [host EXCEPT ![h] = [H EXCEPT !.randomSeed = @ + 1, !.peers[p] =
                [@ EXCEPT !.state = "CONNECTING", !.address = address, !.connectID = id, !.seq = 1,
                          !.outgoing = <<Handshake("CONNECT", 1, id, p, P.incomingSessionID,
                                                   P.outgoingSessionID)>>]]]
        /\ app' = [app EXCEPT ![h][p] = "connecting"]
        /\ UNCHANGED <<net, confirmed>>

\* enet_peer_disconnect
Disconnect(h, p) ==
    LET H == host[h]
        G == RequestDisconnect(H, p)
    IN  /\ H.peers[p].state \notin {"DISCONNECTING", "DISCONNECTED", "ACKNOWLEDGING_DISCONNECT", "ZOMBIE"}
        /\ IF H.peers[p].state \in Connected
           THEN Called("disconnect", h, G, p) /\ UNCHANGED net
           ELSE Called("disconnect", h, Reset(SendAll(G), p), p) /\ net' = net \cup Datagrams(h, G)

\* enet_peer_disconnect_now
DisconnectNow(h, p) ==
    LET H == host[h]
        G == Queue(ResetQueues(H, p), p, "DISCONNECT", FALSE)
    IN  /\ H.peers[p].state # "DISCONNECTED"
        /\ IF H.peers[p].state \in {"ZOMBIE", "DISCONNECTING"}
           THEN Called("now", h, Reset(H, p), p) /\ UNCHANGED net
           ELSE Called("now", h, Reset(SendAll(G), p), p) /\ net' = net \cup Datagrams(h, G)

\* enet_peer_disconnect_later while commands are outstanding; otherwise the
\* function is enet_peer_disconnect.
DisconnectLater(h, p) ==
    LET P == host[h].peers[p]
    IN  /\ P.state \in Connected /\ P.outgoing \o P.again \o P.sent # <<>>
        /\ Called("later", h, [host[h] EXCEPT !.peers[p].state = "DISCONNECT_LATER"], p)
        /\ UNCHANGED net

\* enet_peer_reset called by the application
ResetPeer(h, p) ==
    /\ host[h].peers[p].state # "DISCONNECTED"
    /\ Called("reset", h, Reset(host[h], p), p) /\ UNCHANGED net

\* enet_peer_send with a reliable packet
SendPacket(h, p) ==
    LET P == host[h].peers[p]
    IN  /\ P.state = "CONNECTED" /\ ~P.packetSent
        /\ Called("send", h, [host[h] EXCEPT !.peers[p].packetSent = TRUE, !.peers[p].outgoing =
                          Append(@, Command("SEND_RELIABLE", "data", 1, TRUE))], p)
        /\ UNCHANGED net

\* enet_peer_ping, of the application or of the service when nothing is sent
Ping(h, p) ==
    LET P == host[h].peers[p]
    IN  /\ P.state = "CONNECTED" /\ P.seq <= MaxPings
        /\ host' = [host EXCEPT ![h] = Queue(host[h], p, "PING", TRUE)]
        /\ UNCHANGED <<net, app, confirmed>>

\* enet_peer_receive called by the application, past the dispatch queue
ReceivePacket(h, p) ==
    /\ host[h].peers[p].dispatched > 0
    /\ Called("receive", h, [host[h] EXCEPT !.peers[p].dispatched = @ - 1], p)
    /\ UNCHANGED net

\* Send to every peer: a step of the service, or enet_host_flush.
SendOutgoing(h) ==
    /\ \E p \in Peers(h) : HasToSend(host[h].peers[p])
    /\ host' = [host EXCEPT ![h] = SendAll(host[h])]
    /\ net' = net \cup Datagrams(h, host[h])
    /\ UNCHANGED <<app, confirmed>>

\* enet_protocol_check_timeouts when a command has waited for roundTripTimeout
Retransmit(h, p) ==
    LET P == host[h].peers[p]
    IN  /\ P.state # "ZOMBIE"
        /\ \E i \in DOMAIN P.sent :
              host' = [host EXCEPT ![h].peers[p] =
                          [P EXCEPT !.sent = RemoveAt(@, i), !.again = Append(@, P.sent[i])]]
        /\ UNCHANGED <<net, app, confirmed>>

\* The same when it has waited for the timeout of the peer: the acknowledgements
\* already in the datagram are not sent.
PeerTimeout(h, p, event) ==
    LET H == [host[h] EXCEPT !.peers[p].acknowledgements = <<>>]
    IN  /\ H.peers[p].state # "ZOMBIE" /\ H.peers[p].sent # <<>>
        /\ Becomes(h, NotifyEnd(H, p, event, "TIMEOUT"), p)
        /\ UNCHANGED <<net, confirmed>>

\* Receive a datagram, for the first time or again.
ReceiveDatagram(h, d, event) ==
    LET H == HandleDatagram(host[h], d, event)
        p == IF d.peerID = NoPeer THEN 0 ELSE d.peerID
    IN  /\ d.to = h /\ H.accepts <= MaxAccepts
        /\ Len(H.peers[p].acknowledgements) <= MaxQueued
        /\ Becomes(h, H, p)
        /\ confirmed' = IF host[h].peers[p].state = "CONNECTING"
                           /\ H.peers[p].state \in Connected \cup {"CONNECTION_SUCCEEDED"}
                        THEN confirmed \cup {host[h].peers[p].connectID} ELSE confirmed
        /\ UNCHANGED net

\* One turn of the loop of enet_protocol_dispatch_incoming_commands: a turn
\* without an event is followed by the next.
DispatchIncoming(h) ==
    LET p  == Head(host[h].dispatchQueue)
        H  == [host[h] EXCEPT !.dispatchQueue = Tail(@), !.peers[p].needsDispatch = FALSE]
        P  == H.peers[p]
        H1 == [H EXCEPT !.peers[p].dispatched = @ - 1]
    IN  /\ host[h].dispatchQueue # <<>>
        /\ CASE P.state \in {"CONNECTION_PENDING", "CONNECTION_SUCCEEDED"} ->
                  Becomes(h, Report(ChangeState(H, p, "CONNECTED"), "CONNECT"), p)
             [] P.state = "ZOMBIE" -> Becomes(h, Report(Reset(H, p), "DISCONNECT"), p)
             [] P.state = "CONNECTED" /\ P.dispatched > 0 ->
                  Becomes(h, Report(IF P.dispatched > 1 THEN Enqueue(H1, p) ELSE H1, "RECEIVE"), p)
             [] OTHER -> Becomes(h, H, p)
        /\ UNCHANGED <<net, confirmed>>

Next ==
    \E h \in Hosts :
        \/ \E a \in Hosts : Connect(h, a)
        \/ \E p \in Peers(h) :
              \/ Disconnect(h, p) \/ DisconnectNow(h, p) \/ DisconnectLater(h, p) \/ ResetPeer(h, p)
              \/ SendPacket(h, p) \/ Ping(h, p) \/ ReceivePacket(h, p)
              \/ Retransmit(h, p)
              \/ \E event \in EventChoices : PeerTimeout(h, p, event)
        \/ SendOutgoing(h)
        \/ \E d \in net, event \in EventChoices : ReceiveDatagram(h, d, event)
        \/ DispatchIncoming(h)

Spec == Init /\ [][Next]_vars

\* The service runs again and again: what is queued is sent, the dispatch queue
\* is emptied, and commands that time out again and again for want of any
\* acknowledgement time out the peer. Nothing is assumed of the network.
FairSpec ==
    /\ Spec
    /\ \A h \in Hosts :
          /\ WF_vars(SendOutgoing(h)) /\ WF_vars(DispatchIncoming(h))
          /\ \A p \in Peers(h) : SF_vars(\E event \in EventChoices : PeerTimeout(h, p, event))

-----------------------------------------------------------------------------
(* Properties *)

\* Every variable has its type; sessions have two bits, one packet at most waits,
\* and a call reports its event before it ends.
TypeOK ==
    /\ \A h \in Hosts :
          /\ host[h].connectedPeers \in Nat /\ host[h].randomSeed \in 0 .. MaxConnects
          /\ ToSet(host[h].dispatchQueue) \subseteq Peers(h)
          /\ host[h].event = "NONE"
          /\ \A p \in Peers(h) :
                LET P == host[h].peers[p]
                IN  /\ P.state \in States /\ P.address \in Hosts /\ P.dispatched \in 0 .. 1
                    /\ {P.incomingSessionID, P.outgoingSessionID} \subseteq 0 .. 3 \cup {NoSession}
                    /\ P.seq \in 0 .. MaxPings + 2
    /\ app \in [Hosts -> UNION {[Peers(h) -> {"unknown", "connecting", "connected", "contradicted"}] : h \in Hosts}]

\* The application is told of every peer as long as it lasts: CONNECT before
\* anything else, then one DISCONNECT or TIMEOUT unless it resets the peer
\* itself; of a peer that connects to this host and fails before its CONNECT
\* was reported it never hears.
EventsMatchStates ==
    \A h \in Hosts : \A p \in Peers(h) :
        LET state == host[h].peers[p].state
        IN  app[h][p] \in CASE state \in Connected \cup {"DISCONNECTING", "ACKNOWLEDGING_DISCONNECT"}
                                                          -> {"connected"}
                            [] state \in {"CONNECTING", "CONNECTION_SUCCEEDED"} -> {"connecting"}
                            [] state = "ZOMBIE"           -> {"connecting", "connected"}
                            [] OTHER                      -> {"unknown"}

\* host->connectedPeers, which the throttle divides by, counts the peers that
\* are connected.
ConnectedPeersCounted ==
    \A h \in Hosts : host[h].connectedPeers =
        Cardinality({p \in Peers(h) : host[h].peers[p].state \in Connected})

\* The dispatch queue is a list without repetition of the peers marked
\* needsDispatch, and no peer that has something to report is missing from it.
DispatchQueueExact ==
    \A h \in Hosts :
        /\ IsInjective(host[h].dispatchQueue)
        /\ ToSet(host[h].dispatchQueue) = {p \in Peers(h) : host[h].peers[p].needsDispatch}
        /\ \A p \in Peers(h) :
              LET P == host[h].peers[p]
              IN  \/ P.state \in {"CONNECTION_PENDING", "CONNECTION_SUCCEEDED", "ZOMBIE"}
                  \/ P.state = "CONNECTED" /\ P.dispatched > 0
                  => P.needsDispatch

\* A request that arrives again, late or out of order never gets a second peer
\* while the first one lives.
NoTwinPeers ==
    \A h \in Hosts : \A p, q \in Peers(h) :
        LET P == host[h].peers[p]
            Q == host[h].peers[q]
        IN  /\ p # q
            /\ P.state # "DISCONNECTED" /\ Q.state # "DISCONNECTED"
            /\ P.connectID = Q.connectID
            => P.address # Q.address

\* A peer that was accepted counts as connected only if the host that asked
\* has taken its answer: no acknowledgement of an older connection passes.
AcceptedWereConfirmed ==
    \A h \in Hosts : \A p \in Peers(h) :
        LET P == host[h].peers[p]
        IN  P.state \notin Unannounced \cup {"DISCONNECTED", "CONNECTING", "ZOMBIE"}
            => P.connectID \in confirmed

\* Once the other side's index is known, nothing of another connection is
\* accepted, but for a late VERIFY_CONNECT, of which only an acknowledgement
\* comes: the two-bit sessions tell the connections of this peer apart.
SessionsTellConnectionsApart ==
    \A h \in Hosts : \A d \in net :
        d.to = h /\ Accepts(host[h], d) =>
            LET P == host[h].peers[d.peerID]
            IN  P.outgoingPeerID # NoPeer /\ d.connectID # P.connectID
                => \A i \in DOMAIN d.commands : d.commands[i].type = "VERIFY_CONNECT"

\* Every attempt to connect and every disconnection comes to an end, whatever
\* happens to the datagrams and to the other host.
Passing == States \ {"CONNECTED", "DISCONNECTED"}
RequestsEnd ==
    \A h \in Hosts : \A p \in Peers(h) :
        host[h].peers[p].state \in Passing ~> host[h].peers[p].state \notin Passing
=============================================================================
