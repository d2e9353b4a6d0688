-------------------------- MODULE ConnectionProofs --------------------------
(***************************************************************************)
(* The safety of connection management, for any hosts, peers, applications *)
(* and datagrams: the count of the connected peers and the dispatch queue  *)
(* are exact, the application is told of every peer in the right order, and*)
(* a repeated request to connect gets no second peer.                      *)
(*                                                                         *)
(* The inductive invariant IInv says of each host, between two actions,    *)
(* HostInv. A handler runs in the middle of an action: there the host has  *)
(* an event that was not returned yet, Handling. The operations on a peer  *)
(* are related to what they leave alone, Local; the loops over the peers   *)
(* and over the commands of a datagram are inductions.                     *)
(***************************************************************************)
EXTENDS Connection, Integers, DataProofs

-----------------------------------------------------------------------------
(* The types of what a host keeps and sends *)

Sessions == 0 .. 3 \cup {NoSession}
Ids == Hosts \X Nat
Views == {"unknown", "connecting", "connected", "contradicted"}

PlainCommands ==
    [type: {"ACKNOWLEDGE", "DISCONNECT", "PING", "SEND_RELIABLE"}, channel: {"control", "data"},
     seq: Nat, reliable: BOOLEAN]
Handshakes ==
    [type: {"CONNECT", "VERIFY_CONNECT"}, channel: {"control"}, seq: Nat, reliable: {TRUE},
     connectID: Ids, peer: Nat, incomingSessionID: Sessions, outgoingSessionID: Sessions]

\* The commands host h sends to address: a request names h in its connectID, and
\* nobody asks itself.
Commands(h, address) ==
    PlainCommands \cup {c \in Handshakes : c.type = "CONNECT" => c.connectID[1] = h /\ address # h}

AnyCommands == PlainCommands \cup Handshakes
PeerRec ==
    [state: States, address: Hosts, connectID: Ids, outgoingPeerID: Nat,
     incomingSessionID: Sessions, outgoingSessionID: Sessions, seq: Nat,
     packetSent: BOOLEAN, packetArrived: BOOLEAN,
     outgoing: Seq(AnyCommands), again: Seq(AnyCommands), sent: Seq(AnyCommands),
     acknowledgements: Seq(PlainCommands), dispatched: Nat, needsDispatch: BOOLEAN]
HostRec(h) ==
    [peers: [Peers(h) -> PeerRec], dispatchQueue: Seq(Peers(h)), connectedPeers: Int,
     randomSeed: Nat, accepts: Nat, event: {"NONE", "CONNECT", "DISCONNECT", "TIMEOUT", "RECEIVE"}]

-----------------------------------------------------------------------------
(* The inductive invariant *)

\* connectedPeers and the dispatch queue of a host, as ConnectedPeersCounted
\* and DispatchQueueExact say of all hosts.
ConnectedOf(h, H) == {p \in Peers(h) : H.peers[p].state \in Connected}
Counted(h, H) == H.connectedPeers = Cardinality(ConnectedOf(h, H))
Queued(h, H) ==
    /\ IsInjective(H.dispatchQueue)
    /\ ToSet(H.dispatchQueue) = {p \in Peers(h) : H.peers[p].needsDispatch}

\* What is to be reported of the peer.
ToReport(P) ==
    \/ P.state \in {"CONNECTION_PENDING", "CONNECTION_SUCCEEDED", "ZOMBIE"}
    \/ P.state = "CONNECTED" /\ P.dispatched > 0

\* What the application knows of a peer in this state.
Expected(state) ==
    CASE state \in Connected \cup {"DISCONNECTING", "ACKNOWLEDGING_DISCONNECT"} -> {"connected"}
      [] state \in {"CONNECTING", "CONNECTION_SUCCEEDED"} -> {"connecting"}
      [] state = "ZOMBIE"                                 -> {"connecting", "connected"}
      [] OTHER                                            -> {"unknown"}

ListsOK(h, P) ==
    /\ P.outgoing \in Seq(Commands(h, P.address))
    /\ P.again \in Seq(Commands(h, P.address))
    /\ P.sent \in Seq(Commands(h, P.address))
    /\ P.state = "DISCONNECTED" => P.again = <<>> /\ P.sent = <<>>

IdentityOK(h, P, randomSeed) ==
    /\ P.connectID[1] = h => P.connectID[2] <= randomSeed
    /\ P.state = "CONNECTING" => P.connectID[1] = h

\* A DISCONNECT is the last command that takes a sequence number.
Closing == {"DISCONNECTING", "ACKNOWLEDGING_DISCONNECT", "ZOMBIE"}
NumbersOK(P) ==
    /\ P.seq <= MaxPings + 2 /\ (P.seq <= MaxPings + 1 \/ P.state \in Closing)
    /\ P.dispatched <= 1 
    /\ P.dispatched > 0 => P.packetArrived /\ P.state \in Connected \cup {"ZOMBIE"}

PeerBase(h, P, randomSeed) ==
    ListsOK(h, P) /\ IdentityOK(h, P, randomSeed) /\ NumbersOK(P)

PeerOK(h, P, randomSeed) ==
    PeerBase(h, P, randomSeed) /\ (ToReport(P) => P.needsDispatch)

HostOK(h, H) ==
    /\ H \in HostRec(h)
    /\ Counted(h, H) /\ Queued(h, H)
    /\ \A p \in Peers(h) : PeerOK(h, H.peers[p], H.randomSeed)

Twins(P, Q) ==
    /\ P.state # "DISCONNECTED" /\ Q.state # "DISCONNECTED"
    /\ P.connectID = Q.connectID /\ P.address = Q.address

\* A host between two actions, and what its application knows of its peers.
HostInv(h, H, views) ==
    /\ HostOK(h, H)
    /\ H.event = "NONE" /\ H.randomSeed <= MaxConnects
    /\ \A p, q \in Peers(h) : p # q => ~Twins(H.peers[p], H.peers[q])
    /\ views \in [Peers(h) -> Views]
    /\ \A p \in Peers(h) : views[p] \in Expected(H.peers[p].state)

DatagramOK(d) ==
    d.from \in Hosts /\ d.to \in Hosts /\ d.commands \in Seq(Commands(d.from, d.to))
NetOK == \A d \in net : DatagramOK(d)

IInv ==
    /\ host = [h \in Hosts |-> host[h]]
    /\ app = [h \in Hosts |-> app[h]]
    /\ \A h \in Hosts : HostInv(h, host[h], app[h])
    /\ NetOK

-----------------------------------------------------------------------------
(* Operations on one peer *)

Local(h, H, G, p) ==
    /\ G \in HostRec(h) /\ G.randomSeed = H.randomSeed
    /\ \A q \in Peers(h) : q # p => G.peers[q] = H.peers[q]
    /\ Counted(h, H) => Counted(h, G)
    /\ Queued(h, H) => Queued(h, G)

\* The fields of a host.
LEMMA HostFields ==
    ASSUME NEW h \in Hosts, NEW H \in HostRec(h)
    PROVE  /\ H.peers \in [Peers(h) -> PeerRec] /\ DOMAIN H.peers = Peers(h)
           /\ H.dispatchQueue \in Seq(Peers(h))
           /\ H.connectedPeers \in Int /\ H.randomSeed \in Nat /\ H.accepts \in Nat
           /\ H.event \in {"NONE", "CONNECT", "DISCONNECT", "TIMEOUT", "RECEIVE"}
BY DEF HostRec

\* The peers of a host are 0 to peerCount - 1, a finite set.
LEMMA PeersFinite ==
    ASSUME NEW h \in Hosts
    PROVE  /\ PeerCount[h] \in Nat \ {0}
           /\ IsFiniteSet(Peers(h)) /\ Cardinality(Peers(h)) = PeerCount[h]
<1> DEFINE last == PeerCount[h] - 1
<1>1. PeerCount[h] \in Nat \ {0} /\ last \in Int
  BY ConstantsAssumption
<1>2. IsFiniteSet(0 .. last) /\ Cardinality(0 .. last) = IF 0 > last THEN 0 ELSE last - 0 + 1
  <2> HIDE DEF last
  <2> QED BY <1>1, FS_Interval
<1>3. Cardinality(0 .. last) = PeerCount[h]
  BY <1>1, <1>2
<1> QED BY <1>1, <1>2, <1>3 DEF Peers

\* G is H with the peer P at p.
Sets(G, H, p, P) == G = [H EXCEPT !.peers[p] = P]

\* Another record in the place of a peer, its connection and its mark the same.
LEMMA SetPeer ==
    ASSUME NEW h \in Hosts, NEW H \in HostRec(h), NEW p \in Peers(h), NEW P \in PeerRec,
           NEW G, Sets(G, H, p, P),
           P.state \in Connected <=> H.peers[p].state \in Connected,
           P.needsDispatch = H.peers[p].needsDispatch
    PROVE  Local(h, H, G, p) /\ G.peers[p] = P /\ G.event = H.event
<1>1. /\ G \in HostRec(h) /\ G.peers[p] = P /\ \A q \in Peers(h) : q # p => G.peers[q] = H.peers[q]
      /\ G.event = H.event /\ G.randomSeed = H.randomSeed
      /\ G.dispatchQueue = H.dispatchQueue /\ G.connectedPeers = H.connectedPeers
  BY DEF HostRec, Sets
<1>2. ConnectedOf(h, G) = ConnectedOf(h, H)
  BY <1>1 DEF ConnectedOf
<1>3. {q \in Peers(h) : G.peers[q].needsDispatch} = {q \in Peers(h) : H.peers[q].needsDispatch}
  BY <1>1
<1> QED BY <1>1, <1>2, <1>3 DEF Local, Counted, Queued

\* R is the peer P in another state, in the dispatch queue, or both.
Changes(R, P, state) == R = [P EXCEPT !.state = state]
Marks(R, P) == R = [P EXCEPT !.needsDispatch = TRUE]
Dispatches(R, P, state) == R = [P EXCEPT !.state = state, !.needsDispatch = TRUE]

\* enet_protocol_change_state keeps the count of connected peers exact.
LEMMA ChangeStateLocal ==
    ASSUME NEW h \in Hosts, NEW H \in HostRec(h), NEW p \in Peers(h), NEW state \in States,
           NEW G, G = ChangeState(H, p, state)
    PROVE  /\ Local(h, H, G, p) /\ G.event = H.event
           /\ Changes(G.peers[p], H.peers[p], state)
<1> DEFINE was == H.peers[p].state \in Connected
           is  == state \in Connected
           n   == CASE is /\ ~was -> H.connectedPeers + 1
                    [] was /\ ~is -> H.connectedPeers - 1
                    [] OTHER      -> H.connectedPeers
           P   == [H.peers[p] EXCEPT !.state = state]
<1>1. G = [H EXCEPT !.peers[p].state = state, !.connectedPeers = n]
  BY DEF ChangeState
<1>2. H.peers[p] \in PeerRec /\ P \in PeerRec
  <2>1. H.peers[p] \in PeerRec
    BY HostFields
  <2> QED BY <2>1 DEF PeerRec
<1>3. n \in Int
  BY DEF HostRec
<1>4. /\ G \in HostRec(h) /\ G.peers[p] = P /\ \A q \in Peers(h) : q # p => G.peers[q] = H.peers[q]
      /\ G.event = H.event /\ G.randomSeed = H.randomSeed
      /\ G.dispatchQueue = H.dispatchQueue /\ G.connectedPeers = n
  <2> DEFINE PP == [H.peers EXCEPT ![p].state = state]
  <2>1. PP[p] = P /\ PP \in [Peers(h) -> PeerRec] /\ \A q \in Peers(h) : q # p => PP[q] = H.peers[q]
    BY <1>2, HostFields
  <2>2. G = [H EXCEPT !.peers = PP, !.connectedPeers = n]
    BY <1>1
  <2> HIDE DEF n, PP, P
  <2> QED BY <2>1, <2>2, <1>3 DEF HostRec
<1>5. G.peers[p].state = state /\ G.peers[p].needsDispatch = H.peers[p].needsDispatch
  BY <1>4, <1>2 DEF PeerRec
<1>6. {q \in Peers(h) : G.peers[q].needsDispatch} = {q \in Peers(h) : H.peers[q].needsDispatch}
  BY <1>4, <1>5
<1>7. Counted(h, H) => Counted(h, G)
  <2> SUFFICES ASSUME Counted(h, H) PROVE Counted(h, G)
    OBVIOUS
  <2>1. IsFiniteSet(ConnectedOf(h, H)) /\ Cardinality(ConnectedOf(h, H)) \in Nat
    <3>1. ConnectedOf(h, H) \subseteq Peers(h)
      BY DEF ConnectedOf
    <3> QED BY <3>1, PeersFinite, FS_Subset, FS_CardinalityType
  <2>a. /\ ConnectedOf(h, G) \subseteq Peers(h) /\ ConnectedOf(h, H) \subseteq Peers(h)
        /\ \A q \in Peers(h) : q # p => (q \in ConnectedOf(h, G) <=> q \in ConnectedOf(h, H))
    BY <1>4 DEF ConnectedOf
  <2>b. /\ p \in ConnectedOf(h, G) <=> is
        /\ p \in ConnectedOf(h, H) <=> was
    BY <1>5 DEF ConnectedOf
  <2>2. CASE is /\ ~was
    <3>1. ConnectedOf(h, G) = ConnectedOf(h, H) \cup {p} /\ p \notin ConnectedOf(h, H)
      <4> HIDE DEF ConnectedOf, is, was
      <4> QED BY <2>2, <2>a, <2>b
    <3>2. Cardinality(ConnectedOf(h, G)) = Cardinality(ConnectedOf(h, H)) + 1
      BY <3>1, <2>1, FS_AddElement
    <3> QED BY <3>2, <2>2, <1>4 DEF Counted
  <2>3. CASE was /\ ~is
    <3>1. ConnectedOf(h, G) = ConnectedOf(h, H) \ {p} /\ p \in ConnectedOf(h, H)
      <4> HIDE DEF ConnectedOf, is, was
      <4> QED BY <2>3, <2>a, <2>b
    <3>2. Cardinality(ConnectedOf(h, G)) = Cardinality(ConnectedOf(h, H)) - 1
      BY <3>1, <2>1, FS_RemoveElement
    <3> QED BY <3>2, <2>3, <1>4 DEF Counted
  <2>4. CASE is <=> was
    <3>1. ConnectedOf(h, G) = ConnectedOf(h, H)
      BY <2>4, <1>4, <1>5 DEF ConnectedOf
    <3> QED BY <3>1, <2>4, <1>4 DEF Counted
  <2> QED BY <2>2, <2>3, <2>4
<1> QED BY <1>4, <1>6, <1>7 DEF Local, Queued, Changes

\* A peer is appended to the dispatch queue only when it is not in it.
LEMMA EnqueueLocal ==
    ASSUME NEW h \in Hosts, NEW H \in HostRec(h), NEW p \in Peers(h),
           NEW G, G = Enqueue(H, p)
    PROVE  /\ Local(h, H, G, p) /\ G.event = H.event
           /\ Marks(G.peers[p], H.peers[p])
<1> DEFINE P == [H.peers[p] EXCEPT !.needsDispatch = TRUE]
           Q == Append(H.dispatchQueue, p)
<1>1. H.peers[p] \in PeerRec /\ P \in PeerRec
  <2>1. H.peers[p] \in PeerRec
    BY HostFields
  <2> QED BY <2>1 DEF PeerRec
<1>2. CASE H.peers[p].needsDispatch
  <2>1. G = H
    BY <1>2 DEF Enqueue
  <2>2. H.peers[p] = P
    BY <1>1, <1>2 DEF PeerRec
  <2> QED BY <2>1, <2>2 DEF Local, Marks
<1>3. CASE ~H.peers[p].needsDispatch
  <2>1. G = [H EXCEPT !.dispatchQueue = Q, !.peers[p].needsDispatch = TRUE]
    BY <1>3 DEF Enqueue
  <2>2. Q \in Seq(Peers(h)) /\ H.dispatchQueue \in Seq(Peers(h))
    BY HostFields
  <2>3. /\ G \in HostRec(h) /\ G.peers[p] = P /\ \A q \in Peers(h) : q # p => G.peers[q] = H.peers[q]
        /\ G.event = H.event /\ G.randomSeed = H.randomSeed
        /\ G.dispatchQueue = Q /\ G.connectedPeers = H.connectedPeers
    <3> DEFINE PP == [H.peers EXCEPT ![p].needsDispatch = TRUE]
    <3>1. PP[p] = P /\ PP \in [Peers(h) -> PeerRec] /\ \A q \in Peers(h) : q # p => PP[q] = H.peers[q]
      BY <1>1, HostFields
    <3>2. G = [H EXCEPT !.dispatchQueue = Q, !.peers = PP]
      BY <2>1
    <3> HIDE DEF Q, PP, P
    <3> QED BY <3>1, <3>2, <2>2 DEF HostRec
  <2>4. G.peers[p].needsDispatch /\ G.peers[p].state = H.peers[p].state
    BY <2>3, <1>1 DEF PeerRec
  <2>5. ConnectedOf(h, G) = ConnectedOf(h, H)
    BY <2>3, <2>4 DEF ConnectedOf
  <2>6. Queued(h, H) => Queued(h, G)
    <3> SUFFICES ASSUME Queued(h, H) PROVE Queued(h, G)
      OBVIOUS
    <3> DEFINE n == Len(H.dispatchQueue)
    <3>1. /\ n \in Nat /\ DOMAIN H.dispatchQueue = 1 .. n /\ DOMAIN Q = 1 .. n + 1
          /\ Q[n + 1] = p
          /\ \A i \in 1 .. n : Q[i] = H.dispatchQueue[i]
      BY <2>2
    <3>2. p \notin ToSet(H.dispatchQueue)
      BY <1>3 DEF Queued
    <3> HIDE DEF n, Q
    <3>3. \A i \in 1 .. n : Q[i] # p
      BY <3>1, <3>2 DEF ToSet
    <3>4. IsInjective(Q)
      BY <3>1, <3>3 DEF Queued, IsInjective
    <3>5. ToSet(Q) = ToSet(H.dispatchQueue) \cup {p}
      BY <3>1 DEF ToSet
    <3> QED BY <3>4, <3>5, <2>3, <2>4 DEF Queued
  <2> QED BY <2>3, <2>5, <2>6 DEF Local, Counted, Marks
<1> QED BY <1>2, <1>3


\* R is the peer P with its queues reset.
Emptied(R, P) ==
    R = [P EXCEPT !.needsDispatch = FALSE, !.acknowledgements = <<>>,
                  !.sent = <<>>, !.again = <<>>, !.outgoing = <<>>, !.dispatched = 0]

\* enet_peer_reset_queues takes the peer out of the dispatch queue with its mark.
LEMMA ResetQueuesLocal ==
    ASSUME NEW h \in Hosts, NEW H \in HostRec(h), NEW p \in Peers(h),
           NEW G, G = ResetQueues(H, p)
    PROVE  Local(h, H, G, p) /\ G.event = H.event /\ Emptied(G.peers[p], H.peers[p])
<1> DEFINE P == [H.peers[p] EXCEPT !.needsDispatch = FALSE, !.acknowledgements = <<>>,
                                  !.sent = <<>>, !.again = <<>>, !.outgoing = <<>>, !.dispatched = 0]
           K == Kept(H.dispatchQueue, ToSet(H.dispatchQueue) \ {p})
           Q == IF H.peers[p].needsDispatch THEN K ELSE H.dispatchQueue
<1>1. H.peers[p] \in PeerRec /\ P \in PeerRec
  <2>1. H.peers[p] \in PeerRec
    BY HostFields
  <2>2. <<>> \in Seq(PlainCommands) /\ <<>> \in Seq(AnyCommands)
    OBVIOUS
  <2> QED BY <2>1, <2>2 DEF PeerRec
<1>2. H.dispatchQueue \in Seq(Peers(h)) /\ K \in Seq(Peers(h)) /\ Q \in Seq(Peers(h))
  BY HostFields, KeptProperties
<1>3. G = [H EXCEPT !.dispatchQueue = Q, !.peers[p] = P]
  BY DEF ResetQueues
<1>4. /\ G \in HostRec(h) /\ G.peers[p] = P /\ \A q \in Peers(h) : q # p => G.peers[q] = H.peers[q]
      /\ G.event = H.event /\ G.randomSeed = H.randomSeed
      /\ G.dispatchQueue = Q /\ G.connectedPeers = H.connectedPeers
  <2> DEFINE PP == [H.peers EXCEPT ![p] = P]
  <2>1. PP[p] = P /\ PP \in [Peers(h) -> PeerRec] /\ \A q \in Peers(h) : q # p => PP[q] = H.peers[q]
    BY <1>1, HostFields
  <2>2. G = [H EXCEPT !.dispatchQueue = Q, !.peers = PP]
    BY <1>3
  <2> HIDE DEF Q, PP, P
  <2> QED BY <2>1, <2>2, <1>2 DEF HostRec
<1>5. ~G.peers[p].needsDispatch /\ G.peers[p].state = H.peers[p].state
  BY <1>4, <1>1 DEF PeerRec
<1>6. ConnectedOf(h, G) = ConnectedOf(h, H)
  BY <1>4, <1>5 DEF ConnectedOf
<1>7. Queued(h, H) => Queued(h, G)
  <2> SUFFICES ASSUME Queued(h, H) PROVE Queued(h, G)
    OBVIOUS
  <2>1. CASE ~H.peers[p].needsDispatch
    <3>1. {q \in Peers(h) : G.peers[q].needsDispatch} = {q \in Peers(h) : H.peers[q].needsDispatch}
      BY <2>1, <1>4, <1>5
    <3> QED BY <3>1, <2>1, <1>4 DEF Queued
  <2>2. CASE H.peers[p].needsDispatch
    <3> DEFINE n == Len(H.dispatchQueue)
               m == Len(K)
               T == ToSet(H.dispatchQueue) \ {p}
               s == H.dispatchQueue
    <3>0. s \in Seq(Peers(h)) /\ K = Kept(s, T) /\ DOMAIN s = 1 .. n /\ DOMAIN K = 1 .. m
      BY <1>2
    <3>1. /\ \A k \in 1 .. m : \E i \in 1 .. n : K[k] = s[i] /\ s[i] \in T
          /\ \A i \in 1 .. n : s[i] \in T => \E k \in 1 .. m : K[k] = s[i]
          /\ (\A i, j \in 1 .. n : s[i] = s[j] => i = j)
             => \A k, l \in 1 .. m : K[k] = K[l] => k = l
      <4>1. Selects(K, s, T)
        <5> HIDE DEF s, K, T
        <5> QED BY <3>0, KeptProperties
      <4> QED BY <4>1 DEF Selects
    <3> HIDE DEF n, m, s, K, T
    <3>2. IsInjective(s) => IsInjective(K)
      BY <3>0, <3>1 DEF IsInjective
    <3>3. ToSet(K) = T
      <4>1. ToSet(K) \subseteq T
        BY <3>0, <3>1 DEF ToSet
      <4>2. ASSUME NEW x \in T PROVE x \in ToSet(K)
        <5>1. PICK i \in 1 .. n : x = s[i]
          BY <3>0 DEF T, s, ToSet
        <5> QED BY <5>1, <3>0, <3>1 DEF ToSet
      <4> QED BY <4>1, <4>2
    <3>4. T = {q \in Peers(h) : G.peers[q].needsDispatch}
      BY <1>4, <1>5 DEF T, Queued
    <3> QED BY <3>2, <3>3, <3>4, <2>2, <1>4 DEF Queued, s
  <2> QED BY <2>1, <2>2
<1> QED BY <1>4, <1>6, <1>7 DEF Local, Counted, Emptied

\* Two operations on the same peer, one after the other.
LEMMA LocalTransitive ==
    ASSUME NEW h, NEW H, NEW G, NEW F, NEW p, Local(h, H, G, p), Local(h, G, F, p)
    PROVE  Local(h, H, F, p)
BY DEF Local

\* enet_protocol_dispatch_state is a change of state and a place in the queue.
LEMMA DispatchStateLocal ==
    ASSUME NEW h \in Hosts, NEW H \in HostRec(h), NEW p \in Peers(h), NEW state \in States,
           NEW G, G = DispatchState(H, p, state)
    PROVE  /\ Local(h, H, G, p) /\ G.event = H.event
           /\ Dispatches(G.peers[p], H.peers[p], state)
<1> DEFINE F == ChangeState(H, p, state)
<1>1. /\ Local(h, H, F, p) /\ F.event = H.event
      /\ Changes(F.peers[p], H.peers[p], state)
  BY ChangeStateLocal
<1>2. G = Enqueue(F, p)
  BY DEF DispatchState
<1> HIDE DEF F
<1>3. F \in HostRec(h)
  BY <1>1 DEF Local
<1>4. /\ Local(h, F, G, p) /\ G.event = F.event
      /\ Marks(G.peers[p], F.peers[p])
  BY <1>2, <1>3, EnqueueLocal
<1> QED BY <1>1, <1>4, LocalTransitive DEF Changes, Marks, Dispatches

\* An event is noted in the host.
LEMMA ReportLocal ==
    ASSUME NEW h \in Hosts, NEW H \in HostRec(h), NEW p \in Peers(h),
           NEW event \in {"NONE", "CONNECT", "DISCONNECT", "TIMEOUT", "RECEIVE"},
           NEW G, G = Report(H, event)
    PROVE  Local(h, H, G, p) /\ G.event = event /\ G.peers = H.peers
<1>1. /\ G \in HostRec(h) /\ G.peers = H.peers /\ G.event = event /\ G.randomSeed = H.randomSeed
      /\ G.dispatchQueue = H.dispatchQueue /\ G.connectedPeers = H.connectedPeers
  BY DEF Report, HostRec
<1>2. ConnectedOf(h, G) = ConnectedOf(h, H)
  BY <1>1 DEF ConnectedOf
<1> QED BY <1>1, <1>2 DEF Local, Counted, Queued

\* What is left of a peer that is reset.
Blank(R, P) ==
    /\ R \in PeerRec
    /\ R.state = "DISCONNECTED" /\ R.address = P.address /\ R.connectID = P.connectID
    /\ R.seq = 0 /\ R.dispatched = 0
    /\ R.outgoing = <<>> /\ R.again = <<>> /\ R.sent = <<>>

\* enet_peer_reset leaves a peer without connection, without commands and unmarked.
LEMMA ResetLocal ==
    ASSUME NEW h \in Hosts, NEW H \in HostRec(h), NEW p \in Peers(h),
           NEW G, G = Reset(H, p)
    PROVE  Local(h, H, G, p) /\ G.event = H.event /\ Blank(G.peers[p], H.peers[p])
<1> DEFINE F == ChangeState(H, p, "DISCONNECTED")
           E == [F EXCEPT !.peers[p].outgoingPeerID = NoPeer, !.peers[p].seq = 0,
                              !.peers[p].packetSent = FALSE, !.peers[p].packetArrived = FALSE]
           X == [F.peers[p] EXCEPT !.outgoingPeerID = NoPeer, !.seq = 0,
                              !.packetSent = FALSE, !.packetArrived = FALSE]
<1>1. /\ Local(h, H, F, p) /\ F.event = H.event
      /\ Changes(F.peers[p], H.peers[p], "DISCONNECTED")
  <2>1. "DISCONNECTED" \in States
    BY DEF States
  <2> QED BY <2>1, ChangeStateLocal
<1>2. G = ResetQueues(E, p)
  BY DEF Reset
<1> HIDE DEF F
<1>3. F \in HostRec(h) /\ F.peers[p] \in PeerRec /\ H.peers[p] \in PeerRec
  BY <1>1, HostFields DEF Local
<1>4. /\ X \in PeerRec /\ X.state = F.peers[p].state /\ X.needsDispatch = F.peers[p].needsDispatch
      /\ X.address = F.peers[p].address /\ X.connectID = F.peers[p].connectID /\ X.seq = 0
  <2> DEFINE P == F.peers[p]
  <2>1. P \in PeerRec /\ NoPeer \in Nat /\ X = [P EXCEPT !.outgoingPeerID = NoPeer, !.seq = 0,
                                          !.packetSent = FALSE, !.packetArrived = FALSE]
    BY <1>3 DEF NoPeer
  <2> HIDE DEF P, X
  <2> SUFFICES /\ X \in PeerRec /\ X.state = P.state /\ X.needsDispatch = P.needsDispatch
               /\ X.address = P.address /\ X.connectID = P.connectID /\ X.seq = 0
    BY DEF P
  <2> QED BY <2>1 DEF PeerRec
<1>5. Sets(E, F, p, X)
  BY <1>3, ZenonT(40) DEF HostRec, Sets
<1> HIDE DEF E, X
<1>6. Local(h, F, E, p) /\ E.peers[p] = X /\ E.event = F.event
  BY <1>3, <1>4, <1>5, SetPeer
<1>7. E \in HostRec(h)
  BY <1>6 DEF Local
<1>8. Local(h, E, G, p) /\ G.event = E.event /\ Emptied(G.peers[p], X)
  BY <1>2, <1>6, <1>7, ResetQueuesLocal
<1>9. Local(h, H, G, p) /\ G.event = H.event
  BY <1>1, <1>6, <1>8, LocalTransitive
<1>10. Blank(G.peers[p], H.peers[p])
  <2>1. G.peers[p] \in PeerRec
    BY <1>9, HostFields DEF Local
  <2>2. X.state = "DISCONNECTED" /\ X.address = H.peers[p].address /\ X.connectID = H.peers[p].connectID
    BY <1>1, <1>3, <1>4 DEF PeerRec, Changes
  <2>3. /\ G.peers[p].state = X.state /\ G.peers[p].address = X.address
        /\ G.peers[p].connectID = X.connectID /\ G.peers[p].seq = X.seq
        /\ G.peers[p].dispatched = 0 /\ G.peers[p].outgoing = <<>>
        /\ G.peers[p].again = <<>> /\ G.peers[p].sent = <<>>
    BY <1>4, <1>8 DEF PeerRec, Emptied
  <2> QED BY <2>1, <2>2, <2>3, <1>4 DEF Blank
<1> QED BY <1>9, <1>10

\* R is the peer P with one more command to send.
Queues(R, P, cmd) == R = [P EXCEPT !.seq = P.seq + 1, !.outgoing = Append(P.outgoing, cmd)]

\* A command on the control channel takes the next sequence number.
LEMMA QueueLocal ==
    ASSUME NEW h \in Hosts, NEW H \in HostRec(h), NEW p \in Peers(h),
           NEW type \in {"DISCONNECT", "PING"}, NEW reliable \in BOOLEAN,
           NEW G, G = Queue(H, p, type, reliable)
    PROVE  /\ Local(h, H, G, p) /\ G.event = H.event
           /\ Command(type, "control", H.peers[p].seq + 1, reliable) \in PlainCommands
           /\ Queues(G.peers[p], H.peers[p], Command(type, "control", H.peers[p].seq + 1, reliable))
<1> DEFINE P   == H.peers[p]
           cmd == Command(type, "control", P.seq + 1, reliable)
           X   == [P EXCEPT !.seq = P.seq + 1, !.outgoing = Append(P.outgoing, cmd)]
<1>1. P \in PeerRec
  BY HostFields
<1>2. P.seq + 1 \in Nat /\ P.outgoing \in Seq(AnyCommands)
  BY <1>1 DEF PeerRec
<1>3. cmd \in PlainCommands
  BY <1>2 DEF Command, PlainCommands
<1>4. Append(P.outgoing, cmd) \in Seq(AnyCommands)
  <2>1. cmd \in AnyCommands
    BY <1>3 DEF AnyCommands
  <2> HIDE DEF cmd, P
  <2> QED BY <2>1, <1>2
<1>5. X \in PeerRec /\ X.state = P.state /\ X.needsDispatch = P.needsDispatch
  <2> DEFINE n == P.seq + 1
             s == Append(P.outgoing, cmd)
  <2>1. X = [P EXCEPT !.seq = n, !.outgoing = s] /\ n \in Nat /\ s \in Seq(AnyCommands)
    BY <1>2, <1>4
  <2> HIDE DEF n, s, P, X
  <2> QED BY <1>1, <2>1 DEF PeerRec
<1>6. Sets(G, H, p, X)
  BY DEF Queue, Sets
<1>7. Local(h, H, G, p) /\ G.peers[p] = X /\ G.event = H.event
  <2>1. /\ X.state \in Connected <=> H.peers[p].state \in Connected
        /\ X.needsDispatch = H.peers[p].needsDispatch
    BY <1>5
  <2> HIDE DEF X
  <2>2. X \in PeerRec
    BY <1>5
  <2> HIDE DEF P, cmd
  <2> QED BY <2>1, <2>2, <1>6, SetPeer
<1> QED BY <1>3, <1>7 DEF Queues

-----------------------------------------------------------------------------
(* What the operations keep of the invariant *)

\* A host whose changed peer is well-formed is well-formed.
LEMMA HostKept ==
    ASSUME NEW h \in Hosts, NEW H, HostOK(h, H), NEW p \in Peers(h), NEW G, Local(h, H, G, p),
           PeerOK(h, G.peers[p], H.randomSeed)
    PROVE  HostOK(h, G)
BY DEF HostOK, Local

\* The peer keeps its address and identifier, and is not taken for a new connection.
SameIdentity(R, P) ==
    /\ R.address = P.address /\ R.connectID = P.connectID
    /\ P.state = "DISCONNECTED" => R.state = "DISCONNECTED"

\* A peer that was reset is well-formed.
LEMMA BlankOK ==
    ASSUME NEW h, NEW P, NEW R, NEW randomSeed, IdentityOK(h, P, randomSeed), Blank(R, P)
    PROVE  PeerOK(h, R, randomSeed) /\ SameIdentity(R, P)
<1>1. /\ R.state = "DISCONNECTED" /\ R.address = P.address /\ R.connectID = P.connectID
      /\ R.seq = 0 /\ R.dispatched = 0
      /\ R.outgoing = <<>> /\ R.again = <<>> /\ R.sent = <<>>
  BY DEF Blank
<1>2. ListsOK(h, R)
  <2> DEFINE S == Commands(h, R.address)
  <2>1. <<>> \in Seq(S)
    OBVIOUS
  <2> HIDE DEF S
  <2>2. R.outgoing \in Seq(S) /\ R.again \in Seq(S) /\ R.sent \in Seq(S)
    BY <2>1, <1>1
  <2> QED BY <2>2, <1>1 DEF ListsOK, S
<1>3. IdentityOK(h, R, randomSeed)
  BY <1>1 DEF IdentityOK
<1>4. NumbersOK(R)
  <2>1. MaxPings \in Nat
    BY ConstantsAssumption
  <2> QED BY <1>1, <2>1 DEF NumbersOK
<1>5. ~ToReport(R)
  BY <1>1 DEF ToReport
<1> QED BY <1>1, <1>2, <1>3, <1>4, <1>5 DEF PeerOK, PeerBase, SameIdentity

\* A peer that becomes a zombie, queued for dispatch, is well-formed.
LEMMA ZombieOK ==
    ASSUME NEW h, NEW P \in PeerRec, NEW R, NEW randomSeed, PeerBase(h, P, randomSeed),
           P.state # "DISCONNECTED",
           Dispatches(R, P, "ZOMBIE")
    PROVE  PeerOK(h, R, randomSeed) /\ R.state = "ZOMBIE" /\ SameIdentity(R, P)
<1>1. /\ R.state = "ZOMBIE" /\ R.needsDispatch /\ R.address = P.address /\ R.connectID = P.connectID
      /\ R.seq = P.seq /\ R.dispatched = P.dispatched /\ R.packetArrived = P.packetArrived
      /\ R.outgoing = P.outgoing /\ R.again = P.again /\ R.sent = P.sent
  BY DEF PeerRec, Dispatches
<1>2. ListsOK(h, R)
  BY <1>1 DEF ListsOK, PeerBase
<1>3. IdentityOK(h, R, randomSeed)
  BY <1>1 DEF IdentityOK, PeerBase
<1>4. NumbersOK(R)
  BY <1>1 DEF NumbersOK, PeerBase, Closing
<1> QED BY <1>1, <1>2, <1>3, <1>4 DEF PeerOK, PeerBase, SameIdentity

\* What a peer with empty queues keeps; it may have something to report.
LEMMA EmptiedBase ==
    ASSUME NEW h, NEW P \in PeerRec, NEW R, NEW randomSeed, PeerBase(h, P, randomSeed),
           Emptied(R, P)
    PROVE  /\ PeerBase(h, R, randomSeed) /\ SameIdentity(R, P)
           /\ R.state = P.state /\ R.seq = P.seq /\ R.packetArrived = P.packetArrived
           /\ R.dispatched = 0 /\ R.again = <<>> /\ R.sent = <<>> /\ R.outgoing = <<>>
<1>1. /\ R.state = P.state /\ R.address = P.address /\ R.connectID = P.connectID
      /\ R.seq = P.seq /\ R.dispatched = 0 /\ R.packetArrived = P.packetArrived
      /\ R.outgoing = <<>> /\ R.again = <<>> /\ R.sent = <<>>
  BY DEF PeerRec, Emptied
<1>2. ListsOK(h, R)
  <2> DEFINE S == Commands(h, R.address)
  <2>1. <<>> \in Seq(S)
    OBVIOUS
  <2> HIDE DEF S
  <2>2. R.outgoing \in Seq(S) /\ R.again \in Seq(S) /\ R.sent \in Seq(S)
    BY <2>1, <1>1
  <2> QED BY <2>2, <1>1 DEF ListsOK, S
<1>3. IdentityOK(h, R, randomSeed)
  BY <1>1 DEF IdentityOK, PeerBase
<1>4. NumbersOK(R)
  BY <1>1 DEF NumbersOK, PeerBase
<1> QED BY <1>1, <1>2, <1>3, <1>4 DEF PeerBase, SameIdentity

\* R is the peer P about to tell the other side that it disconnects.
Quits(h, R, P) ==
    /\ R.state = P.state /\ R.address = P.address /\ R.connectID = P.connectID
    /\ R.seq = P.seq + 1 /\ R.dispatched = 0
    /\ R.again = <<>> /\ R.sent = <<>> /\ R.outgoing \in Seq(Commands(h, R.address))

\* The queues are reset before a DISCONNECT is queued, in enet_peer_disconnect.
LEMMA QuitLocal ==
    ASSUME NEW h \in Hosts, NEW H \in HostRec(h), NEW p \in Peers(h), NEW reliable \in BOOLEAN,
           NEW G, G = Queue(ResetQueues(H, p), p, "DISCONNECT", reliable)
    PROVE  Local(h, H, G, p) /\ G.event = H.event /\ Quits(h, G.peers[p], H.peers[p])
<1> DEFINE F == ResetQueues(H, p)
           P == H.peers[p]
           E == F.peers[p]
           R == G.peers[p]
           cmd == Command("DISCONNECT", "control", E.seq + 1, reliable)
<1>1. Local(h, H, F, p) /\ F.event = H.event /\ Emptied(E, P)
  BY ResetQueuesLocal
<1>2. F \in HostRec(h) /\ "DISCONNECT" \in {"DISCONNECT", "PING"}
  BY <1>1 DEF Local
<1>3. /\ Local(h, F, G, p) /\ G.event = F.event
      /\ cmd \in PlainCommands
      /\ Queues(R, E, cmd)
  <2> HIDE DEF F
  <2>1. G = Queue(F, p, "DISCONNECT", reliable)
    BY DEF F
  <2> QED BY <2>1, <1>2, QueueLocal
<1>4. P \in PeerRec /\ E \in PeerRec
  BY <1>2, HostFields
<1>5. /\ E.state = P.state /\ E.address = P.address /\ E.connectID = P.connectID
      /\ E.seq = P.seq /\ E.dispatched = 0 /\ E.outgoing = <<>> /\ E.again = <<>> /\ E.sent = <<>>
  <2> HIDE DEF E, P
  <2> QED BY <1>1, <1>4 DEF PeerRec, Emptied
<1>6. /\ R.state = E.state /\ R.address = E.address /\ R.connectID = E.connectID
      /\ R.seq = E.seq + 1 /\ R.dispatched = E.dispatched
      /\ R.outgoing = Append(E.outgoing, cmd) /\ R.again = E.again /\ R.sent = E.sent
  <2> DEFINE n == E.seq + 1
             s == Append(E.outgoing, cmd)
  <2>1. R = [E EXCEPT !.seq = n, !.outgoing = s]
    BY <1>3 DEF Queues
  <2> HIDE DEF E, R, cmd, n, s
  <2>2. /\ R.state = E.state /\ R.address = E.address /\ R.connectID = E.connectID
        /\ R.seq = n /\ R.dispatched = E.dispatched
        /\ R.outgoing = s /\ R.again = E.again /\ R.sent = E.sent
    BY <2>1, <1>4 DEF PeerRec
  <2> QED BY <2>2 DEF n, s
<1>7. R.outgoing \in Seq(Commands(h, R.address))
  <2>1. cmd \in Commands(h, R.address)
    BY <1>3 DEF Commands
  <2> HIDE DEF cmd, R, E
  <2> QED BY <2>1, <1>5, <1>6
<1> QED BY <1>1, <1>3, <1>5, <1>6, <1>7, LocalTransitive DEF Quits

-----------------------------------------------------------------------------
(* The handlers of commands keep the invariant of the host *)

\* While a datagram is handled the host may have an event of the peer.
EventOK(H, p) ==
    \/ H.event = "NONE"
    \/ /\ H.event = "CONNECT"
       /\ H.peers[p].state \in {"CONNECTED", "ACKNOWLEDGING_DISCONNECT", "ZOMBIE"}
    \/ H.event \in {"DISCONNECT", "TIMEOUT"} /\ H.peers[p].state = "DISCONNECTED"

\* H is the host while the peer p, of which the application saw view, is handled.
Handling(h, H, p, view) ==
    /\ HostOK(h, H) /\ EventOK(H, p)
    /\ Seen(view, H.event) \in Expected(H.peers[p].state)

Handled(h, H, G, p, view) ==
    /\ Handling(h, G, p, view)
    /\ G.randomSeed = H.randomSeed
    /\ \A q \in Peers(h) : q # p => G.peers[q] = H.peers[q]
    /\ SameIdentity(G.peers[p], H.peers[p])

\* A command that is ignored.
LEMMA HandledUnchanged ==
    ASSUME NEW h, NEW H, NEW p, NEW view, Handling(h, H, p, view)
    PROVE  Handled(h, H, H, p, view)
BY DEF Handled, SameIdentity

\* Two commands of one datagram, one after the other.
LEMMA HandledTransitive ==
    ASSUME NEW h, NEW H, NEW G, NEW F, NEW p, NEW view,
           Handled(h, H, G, p, view), Handled(h, G, F, p, view)
    PROVE  Handled(h, H, F, p, view)
BY DEF Handled, SameIdentity

\* What a handler has to show of the peer for the invariant of the host.
LEMMA HandledBy ==
    ASSUME NEW h \in Hosts, NEW H, HostOK(h, H), NEW p \in Peers(h), NEW view,
           NEW G, Local(h, H, G, p),
           PeerOK(h, G.peers[p], H.randomSeed), SameIdentity(G.peers[p], H.peers[p]),
           EventOK(G, p), Seen(view, G.event) \in Expected(G.peers[p].state)
    PROVE  Handled(h, H, G, p, view)
<1>1. HostOK(h, G)
  BY HostKept
<1> QED BY <1>1 DEF Handled, Handling, Local

\* What a handler returns: the host and whether to stop.
Outcome(h, H, result, p, view) ==
    result \in [host: HostRec(h), stop: BOOLEAN] /\ Handled(h, H, result.host, p, view)

\* Whether the rest of the datagram is looked at is of no concern.
LEMMA HandledOutcome ==
    ASSUME NEW h, NEW H, NEW G, NEW p, NEW view, Handled(h, H, G, p, view)
    PROVE  Outcome(h, H, Go(G), p, view) /\ Outcome(h, H, Stop(G), p, view)
<1>1. G \in HostRec(h)
  BY DEF Handled, Handling, HostOK
<1> QED BY <1>1 DEF Outcome, Go, Stop

\* The peers of a well-formed host are well-formed.
LEMMA PeerOfHost ==
    ASSUME NEW h \in Hosts, NEW H, HostOK(h, H), NEW p \in Peers(h)
    PROVE  /\ H \in HostRec(h) /\ H.peers[p] \in PeerRec /\ PeerOK(h, H.peers[p], H.randomSeed)
           /\ H.peers[p].state \in States
<1>1. H \in HostRec(h) /\ PeerOK(h, H.peers[p], H.randomSeed)
  BY DEF HostOK
<1>2. H.peers[p] \in PeerRec
  BY <1>1, HostFields
<1>3. H.peers[p].state \in States
  BY <1>2 DEF PeerRec
<1> QED BY <1>1, <1>2, <1>3

\* R is the peer P with commands that wait for acknowledgement taken away.
Trimmed(h, R, P) ==
    /\ R \in PeerRec
    /\ R.state = P.state /\ R.address = P.address /\ R.connectID = P.connectID /\ R.seq = P.seq
    /\ R.dispatched = P.dispatched /\ R.packetArrived = P.packetArrived
    /\ R.needsDispatch = P.needsDispatch
    /\ R.outgoing = P.outgoing
    /\ R.again \in Seq(Commands(h, P.address)) /\ R.sent \in Seq(Commands(h, P.address))

\* A peer with fewer commands in flight is well-formed.
LEMMA TrimmedOK ==
    ASSUME NEW h, NEW P, NEW R, NEW randomSeed, PeerOK(h, P, randomSeed), Trimmed(h, R, P),
           P.state # "DISCONNECTED"
    PROVE  PeerOK(h, R, randomSeed) /\ SameIdentity(R, P)
<1>1. /\ R.state = P.state /\ R.address = P.address /\ R.connectID = P.connectID /\ R.seq = P.seq
      /\ R.dispatched = P.dispatched /\ R.packetArrived = P.packetArrived
      /\ R.needsDispatch = P.needsDispatch
      /\ R.outgoing = P.outgoing
      /\ R.again \in Seq(Commands(h, P.address)) /\ R.sent \in Seq(Commands(h, P.address))
  BY DEF Trimmed
<1>2. ListsOK(h, R)
  BY <1>1 DEF ListsOK, PeerOK, PeerBase
<1>3. IdentityOK(h, R, randomSeed)
  BY <1>1 DEF IdentityOK, PeerOK, PeerBase
<1>4. NumbersOK(R)
  BY <1>1 DEF NumbersOK, PeerOK, PeerBase
<1>5. ToReport(R) => R.needsDispatch
  BY <1>1 DEF ToReport, PeerOK
<1> QED BY <1>1, <1>2, <1>3, <1>4, <1>5 DEF PeerOK, PeerBase, SameIdentity

\* enet_protocol_remove_sent_reliable_command takes commands away, no more.
LEMMA RemoveSentTrims ==
    ASSUME NEW h, NEW P \in PeerRec, NEW cmd, ListsOK(h, P)
    PROVE  Trimmed(h, RemoveSent(P, cmd), P)
<1> DEFINE sent  == Kept(P.sent, ToSet(P.sent) \ Named(P, cmd))
           again == Kept(P.again, ToSet(P.again) \ Named(P, cmd))
           S     == Commands(h, P.address)
           R     == RemoveSent(P, cmd)
<1>1. P.sent \in Seq(S) /\ P.again \in Seq(S)
  BY DEF ListsOK
<1>2. sent \in Seq(S) /\ again \in Seq(S)
  <2> HIDE DEF S
  <2> QED BY <1>1, KeptProperties
<1>3. P.sent \in Seq(AnyCommands) /\ P.again \in Seq(AnyCommands)
  BY DEF PeerRec
<1>4. sent \in Seq(AnyCommands) /\ again \in Seq(AnyCommands)
  BY <1>3, KeptProperties
<1>5. R = [P EXCEPT !.sent = sent, !.again = again]
  BY DEF RemoveSent
<1> HIDE DEF sent, again, R, S
<1>6. /\ R \in PeerRec
      /\ R.state = P.state /\ R.address = P.address /\ R.connectID = P.connectID /\ R.seq = P.seq
      /\ R.dispatched = P.dispatched /\ R.packetArrived = P.packetArrived
      /\ R.needsDispatch = P.needsDispatch
      /\ R.outgoing = P.outgoing /\ R.sent = sent /\ R.again = again
  BY <1>4, <1>5 DEF PeerRec
<1> QED BY <1>2, <1>6 DEF Trimmed, R, S

\* Taking commands in flight away changes nothing for the application.
LEMMA TrimHandled ==
    ASSUME NEW h \in Hosts, NEW H, NEW p \in Peers(h), NEW view, Handling(h, H, p, view),
           NEW R, Trimmed(h, R, H.peers[p]), H.peers[p].state # "DISCONNECTED",
           NEW G, Sets(G, H, p, R)
    PROVE  Handled(h, H, G, p, view) /\ G.peers[p] = R /\ G.event = H.event
<1> DEFINE P == H.peers[p]
<1>1. HostOK(h, H) /\ EventOK(H, p) /\ Seen(view, H.event) \in Expected(P.state)
  BY DEF Handling
<1>2. H \in HostRec(h) /\ P \in PeerRec /\ PeerOK(h, P, H.randomSeed)
  BY <1>1, PeerOfHost
<1>3. R \in PeerRec /\ R.state = P.state /\ R.needsDispatch = P.needsDispatch
  BY DEF Trimmed
<1>4. Local(h, H, G, p) /\ G.peers[p] = R /\ G.event = H.event
  BY <1>2, <1>3, SetPeer
<1>5. PeerOK(h, R, H.randomSeed) /\ SameIdentity(R, P)
  BY <1>2, TrimmedOK
<1>6. EventOK(G, p) /\ Seen(view, G.event) \in Expected(G.peers[p].state)
  BY <1>1, <1>3, <1>4 DEF EventOK
<1> QED BY <1>1, <1>4, <1>5, <1>6, HandledBy

\* The fields of a peer in another state.
LEMMA ChangesFields ==
    ASSUME NEW P \in PeerRec, NEW state \in States, NEW R, Changes(R, P, state)
    PROVE  /\ R.state = state /\ R.address = P.address /\ R.connectID = P.connectID /\ R.seq = P.seq
           /\ R.dispatched = P.dispatched /\ R.packetArrived = P.packetArrived
           /\ R.needsDispatch = P.needsDispatch /\ R.outgoing = P.outgoing
           /\ R.again = P.again /\ R.sent = P.sent
BY DEF PeerRec, Changes

\* A peer that is connected or waits to be reported, in the dispatch queue.
LEMMA PromotedOK ==
    ASSUME NEW h, NEW P \in PeerRec, NEW R, NEW randomSeed, PeerOK(h, P, randomSeed),
           P.state \in {"CONNECTING", "ACKNOWLEDGING_CONNECT", "CONNECTION_PENDING", "CONNECTION_SUCCEEDED"},
           R.state \in {"CONNECTION_PENDING", "CONNECTION_SUCCEEDED", "CONNECTED"},
           R.state = "CONNECTED" \/ R.needsDispatch,
           /\ R.address = P.address /\ R.connectID = P.connectID /\ R.seq = P.seq
           /\ R.dispatched = P.dispatched /\ R.packetArrived = P.packetArrived
           /\ R.outgoing = P.outgoing /\ R.again = P.again /\ R.sent = P.sent
    PROVE  PeerOK(h, R, randomSeed) /\ SameIdentity(R, P)
<1>1. ListsOK(h, R) /\ IdentityOK(h, R, randomSeed)
  BY DEF ListsOK, IdentityOK, PeerOK, PeerBase
<1>2. NumbersOK(R) /\ ~(R.dispatched > 0)
  BY DEF NumbersOK, PeerOK, PeerBase, Closing, Connected
<1>3. ToReport(R) => R.needsDispatch
  BY <1>2 DEF ToReport
<1> QED BY <1>1, <1>2, <1>3 DEF PeerOK, PeerBase, SameIdentity

\* enet_protocol_notify_connect reports CONNECT, or queues the peer that waits for it.
LEMMA NotifyConnectHandled ==
    ASSUME NEW h \in Hosts, NEW H, NEW p \in Peers(h), NEW view, Handling(h, H, p, view),
           H.peers[p].state \in {"CONNECTING", "ACKNOWLEDGING_CONNECT"},
           NEW event \in BOOLEAN, NEW G, G = NotifyConnect(H, p, event)
    PROVE  Handled(h, H, G, p, view)
<1> DEFINE P == H.peers[p]
           R == G.peers[p]
           F == ChangeState(H, p, "CONNECTED")
           state == IF P.state = "CONNECTING" THEN "CONNECTION_SUCCEEDED" ELSE "CONNECTION_PENDING"
<1>1. HostOK(h, H) /\ H.event = "NONE" /\ view \in Expected(P.state)
  BY DEF Handling, EventOK, Seen
<1>2. H \in HostRec(h) /\ P \in PeerRec /\ PeerOK(h, P, H.randomSeed)
  BY <1>1, PeerOfHost
<1>3. CASE event
  <2>1. G = Report(F, "CONNECT")
    BY <1>3 DEF NotifyConnect
  <2>2. Local(h, H, F, p) /\ Changes(F.peers[p], P, "CONNECTED")
    <3>1. "CONNECTED" \in States
      BY DEF States
    <3> QED BY <1>2, <3>1, ChangeStateLocal
  <2> HIDE DEF F
  <2>3. F \in HostRec(h) /\ "CONNECT" \in {"NONE", "CONNECT", "DISCONNECT", "TIMEOUT", "RECEIVE"}
    BY <2>2 DEF Local
  <2>4. Local(h, F, G, p) /\ G.event = "CONNECT" /\ G.peers = F.peers
    BY <2>1, <2>3, ReportLocal
  <2>5. Local(h, H, G, p) /\ Changes(R, P, "CONNECTED")
    BY <2>2, <2>4, LocalTransitive
  <2>6. /\ R.state = "CONNECTED" /\ R.address = P.address /\ R.connectID = P.connectID
        /\ R.seq = P.seq
        /\ R.dispatched = P.dispatched /\ R.packetArrived = P.packetArrived
        /\ R.outgoing = P.outgoing /\ R.again = P.again /\ R.sent = P.sent
    BY <1>2, <2>5, ChangesFields DEF States
  <2>7. PeerOK(h, R, H.randomSeed) /\ SameIdentity(R, P)
    BY <1>2, <2>6, PromotedOK
  <2>8. EventOK(G, p)
    BY <2>4, <2>6 DEF EventOK
  <2>9. Seen(view, G.event) \in Expected(R.state)
    BY <1>1, <2>4, <2>6 DEF Seen, Expected, Connected
  <2> QED BY <1>1, <2>5, <2>7, <2>8, <2>9, HandledBy
<1>4. CASE ~event
  <2>1. G = DispatchState(H, p, state)
    BY <1>4 DEF NotifyConnect
  <2>2. state \in States
    BY DEF States
  <2> HIDE DEF state
  <2>3. /\ Local(h, H, G, p) /\ G.event = H.event
        /\ Dispatches(R, P, state)
    BY <1>2, <2>1, <2>2, DispatchStateLocal
  <2>4. /\ R.state = state /\ R.needsDispatch /\ R.address = P.address /\ R.connectID = P.connectID
        /\ R.seq = P.seq
        /\ R.dispatched = P.dispatched /\ R.packetArrived = P.packetArrived
        /\ R.outgoing = P.outgoing /\ R.again = P.again /\ R.sent = P.sent
    <3> HIDE DEF P, R
    <3> QED BY <1>2, <2>3 DEF PeerRec, Dispatches
  <2>5. PeerOK(h, R, H.randomSeed) /\ SameIdentity(R, P)
    <3>1. R.state \in {"CONNECTION_PENDING", "CONNECTION_SUCCEEDED"}
      BY <2>4 DEF state
    <3> QED BY <1>2, <2>4, <3>1, PromotedOK
  <2>6. EventOK(G, p)
    BY <1>1, <2>3 DEF EventOK
  <2>7. Seen(view, G.event) \in Expected(R.state)
    <3>1. Seen(view, G.event) = view
      BY <1>1, <2>3 DEF Seen
    <3>2. view \in Expected(state)
      BY <1>1 DEF state, Expected, Connected
    <3> QED BY <2>4, <3>1, <3>2
  <2> QED BY <1>1, <2>3, <2>5, <2>6, <2>7, HandledBy
<1> QED BY <1>3, <1>4

\* enet_protocol_notify_disconnect ends what the application was told, and only that.
LEMMA NotifyEndHandled ==
    ASSUME NEW h \in Hosts, NEW H, NEW p \in Peers(h), NEW view, Handling(h, H, p, view),
           H.event = "NONE", H.peers[p].state \notin {"DISCONNECTED", "ZOMBIE"},
           NEW event \in BOOLEAN, NEW type \in {"DISCONNECT", "TIMEOUT"},
           NEW G, G = NotifyEnd(H, p, event, type)
    PROVE  Handled(h, H, G, p, view)
<1> DEFINE P == H.peers[p]
           R == G.peers[p]
           F == Reset(H, p)
<1>1. HostOK(h, H) /\ view \in Expected(P.state)
  BY DEF Handling, Seen
<1>2. H \in HostRec(h) /\ P \in PeerRec /\ PeerOK(h, P, H.randomSeed) /\ P.state \in States
  BY <1>1, PeerOfHost
<1>3. /\ Local(h, H, F, p) /\ F.event = "NONE" /\ F.peers[p].state = "DISCONNECTED"
      /\ PeerOK(h, F.peers[p], H.randomSeed) /\ SameIdentity(F.peers[p], P)
  <2>1. Local(h, H, F, p) /\ F.event = H.event /\ Blank(F.peers[p], P)
    BY <1>2, ResetLocal
  <2>2. IdentityOK(h, P, H.randomSeed)
    BY <1>2 DEF PeerOK, PeerBase
  <2> HIDE DEF F, P
  <2>3. PeerOK(h, F.peers[p], H.randomSeed) /\ SameIdentity(F.peers[p], P)
    BY <2>1, <2>2, BlankOK
  <2> QED BY <2>1, <2>3 DEF Blank
<1> HIDE DEF F
<1>4. CASE P.state \in Unannounced
  <2>1. G = F
    BY <1>4 DEF NotifyEnd, F
  <2>2. EventOK(G, p)
    BY <2>1, <1>3 DEF EventOK
  <2>3. Seen(view, G.event) \in Expected(R.state)
    BY <1>1, <1>3, <1>4, <2>1 DEF Seen, Expected, Connected, Unannounced
  <2> QED BY <1>1, <1>3, <2>1, <2>2, <2>3, HandledBy
<1>5. CASE P.state \notin Unannounced /\ event
  <2>1. G = Report(F, type)
    BY <1>5 DEF NotifyEnd, F
  <2>2. Local(h, F, G, p) /\ G.event = type /\ G.peers = F.peers
    <3>1. F \in HostRec(h) /\ type \in {"NONE", "CONNECT", "DISCONNECT", "TIMEOUT", "RECEIVE"}
      BY <1>3 DEF Local
    <3> QED BY <2>1, <3>1, ReportLocal
  <2>3. Local(h, H, G, p) /\ R = F.peers[p]
    BY <1>3, <2>2, LocalTransitive
  <2>4. EventOK(G, p)
    BY <1>3, <2>2 DEF EventOK
  <2>5. Seen(view, G.event) \in Expected(R.state)
    <3>1. view \in {"connecting", "connected"}
      BY <1>1, <1>2, <1>5 DEF Expected, Connected, Unannounced, States
    <3>2. Seen(view, type) = "unknown"
      BY <3>1 DEF Seen
    <3> QED BY <1>3, <2>2, <2>3, <3>2 DEF Expected, Connected
  <2> QED BY <1>1, <1>3, <2>3, <2>4, <2>5, HandledBy
<1>6. CASE P.state \notin Unannounced /\ ~event
  <2>1. G = DispatchState(H, p, "ZOMBIE")
    BY <1>6 DEF NotifyEnd
  <2>2. /\ Local(h, H, G, p) /\ G.event = H.event
        /\ Dispatches(R, P, "ZOMBIE")
    <3>1. "ZOMBIE" \in States
      BY DEF States
    <3> QED BY <1>2, <2>1, <3>1, DispatchStateLocal
  <2>3. PeerOK(h, R, H.randomSeed) /\ R.state = "ZOMBIE" /\ SameIdentity(R, P)
    <3>1. PeerBase(h, P, H.randomSeed)
      BY <1>2 DEF PeerOK
    <3> HIDE DEF P, R
    <3>2. P.state # "DISCONNECTED"
      BY DEF P
    <3> QED BY <1>2, <2>2, <3>1, <3>2, ZombieOK
  <2>4. EventOK(G, p)
    BY <2>2 DEF EventOK
  <2>5. Seen(view, G.event) \in Expected(R.state)
    <3>1. view \in {"connecting", "connected"}
      BY <1>1, <1>2, <1>6 DEF Expected, Connected, Unannounced, States
    <3> QED BY <2>2, <2>3, <3>1 DEF Seen, Expected, Connected
  <2> QED BY <1>1, <2>2, <2>3, <2>4, <2>5, HandledBy
<1> QED BY <1>4, <1>5, <1>6

\* enet_peer_disconnect of a connected peer.
LEMMA RequestDisconnectHandled ==
    ASSUME NEW h \in Hosts, NEW H, NEW p \in Peers(h), NEW view, Handling(h, H, p, view),
           H.event = "NONE", H.peers[p].state \in Connected,
           NEW G, G = RequestDisconnect(H, p)
    PROVE  Handled(h, H, G, p, view)
<1> DEFINE P == H.peers[p]
           F == Queue(ResetQueues(H, p), p, "DISCONNECT", TRUE)
           E == F.peers[p]
           R == G.peers[p]
<1>1. HostOK(h, H) /\ view \in Expected(P.state)
  BY DEF Handling, Seen
<1>2. H \in HostRec(h) /\ P \in PeerRec /\ PeerOK(h, P, H.randomSeed)
  BY <1>1, PeerOfHost
<1>3. Local(h, H, F, p) /\ F.event = H.event /\ Quits(h, E, P)
  BY <1>2, QuitLocal
<1>4. G = ChangeState(F, p, "DISCONNECTING")
  BY DEF RequestDisconnect
<1> HIDE DEF F
<1>5. F \in HostRec(h) /\ "DISCONNECTING" \in States
  BY <1>3 DEF Local, States
<1>6. E \in PeerRec
  BY <1>5, HostFields
<1>7. Local(h, F, G, p) /\ G.event = F.event /\ Changes(R, E, "DISCONNECTING")
  BY <1>4, <1>5, ChangeStateLocal
<1>8. Local(h, H, G, p) /\ G.event = "NONE"
  BY <1>3, <1>7, LocalTransitive
<1>9. /\ R.state = "DISCONNECTING" /\ R.address = P.address /\ R.connectID = P.connectID
      /\ R.seq = P.seq + 1 /\ R.dispatched = 0
      /\ R.again = <<>> /\ R.sent = <<>> /\ R.outgoing \in Seq(Commands(h, R.address))
  <2>1. /\ R.state = "DISCONNECTING" /\ R.address = E.address /\ R.connectID = E.connectID
        /\ R.seq = E.seq
        /\ R.dispatched = E.dispatched /\ R.outgoing = E.outgoing
        /\ R.again = E.again /\ R.sent = E.sent
    <3> HIDE DEF E, R
    <3> QED BY <1>5, <1>6, <1>7, ChangesFields
  <2> QED BY <1>3, <2>1 DEF Quits
<1> HIDE DEF R, E
<1>10. PeerOK(h, R, H.randomSeed)
  <2>1. ListsOK(h, R)
    <3> DEFINE S == Commands(h, R.address)
    <3>1. <<>> \in Seq(S)
      OBVIOUS
    <3> HIDE DEF S
    <3>2. R.again \in Seq(S) /\ R.sent \in Seq(S)
      BY <3>1, <1>9
    <3> QED BY <3>2, <1>9 DEF ListsOK, S
  <2>2. IdentityOK(h, R, H.randomSeed)
    BY <1>2, <1>9 DEF IdentityOK, PeerOK, PeerBase
  <2>3. NumbersOK(R)
    <3>1. P.seq \in Nat /\ MaxPings \in Nat
      BY <1>2, ConstantsAssumption DEF PeerRec
    <3>2. P.seq <= MaxPings + 1
      BY <1>2 DEF PeerOK, PeerBase, NumbersOK, Closing, Connected
    <3> QED BY <3>1, <3>2, <1>9 DEF NumbersOK, Closing
  <2>4. ~ToReport(R)
    BY <1>9 DEF ToReport
  <2> QED BY <2>1, <2>2, <2>3, <2>4 DEF PeerOK, PeerBase
<1>11. SameIdentity(R, P)
  BY <1>9 DEF SameIdentity, Connected
<1>12. EventOK(G, p) /\ Seen(view, G.event) \in Expected(R.state)
  BY <1>1, <1>8, <1>9 DEF EventOK, Seen, Expected, Connected
<1> QED BY <1>1, <1>8, <1>10, <1>11, <1>12, HandledBy DEF R

\* enet_protocol_handle_acknowledge keeps the invariant of the host.
LEMMA HandleAcknowledgeHandled ==
    ASSUME NEW h \in Hosts, NEW H, NEW p \in Peers(h), NEW view, Handling(h, H, p, view),
           NEW cmd, NEW event \in BOOLEAN
    PROVE  Outcome(h, H, HandleAcknowledge(H, p, cmd, event), p, view)
<1> DEFINE P == H.peers[p]
           X == RemoveSent(P, cmd)
           G == [H EXCEPT !.peers[p] = X]
           types == {m.type : m \in Named(P, cmd)}
           result == HandleAcknowledge(H, p, cmd, event)
<1>1. H \in HostRec(h) /\ P \in PeerRec /\ PeerOK(h, P, H.randomSeed) /\ P.state \in States
  BY PeerOfHost DEF Handling
<1>2. CASE P.state \in {"DISCONNECTED", "ZOMBIE"}
  <2>1. result = Go(H)
    BY <1>2 DEF HandleAcknowledge
  <2> QED BY <2>1, HandledUnchanged, HandledOutcome
<1>3. CASE P.state \notin {"DISCONNECTED", "ZOMBIE"}
  <2>1. Handled(h, H, G, p, view) /\ G.peers[p] = X /\ G.event = H.event
    <3>1. Trimmed(h, X, P)
      BY <1>1, RemoveSentTrims DEF PeerOK, PeerBase
    <3>2. Sets(G, H, p, X)
      BY DEF Sets
    <3> HIDE DEF X, G
    <3> QED BY <1>3, <3>1, <3>2, TrimHandled
  <2>2. X.state = P.state
    BY <1>1, RemoveSentTrims DEF PeerOK, PeerBase, Trimmed
  <2>3. result =
          CASE P.state = "ACKNOWLEDGING_CONNECT" ->
                IF "VERIFY_CONNECT" \in types THEN Go(NotifyConnect(G, p, event)) ELSE Stop(G)
            [] P.state = "DISCONNECTING" ->
                IF "DISCONNECT" \in types THEN Go(NotifyEnd(G, p, event, "DISCONNECT")) ELSE Stop(G)
            [] P.state = "DISCONNECT_LATER" ->
                Go(IF G.peers[p].outgoing \o G.peers[p].again \o G.peers[p].sent = <<>>
                   THEN RequestDisconnect(G, p) ELSE G)
            [] OTHER -> Go(G)
    BY <1>3 DEF HandleAcknowledge
  <2> HIDE DEF X, G, types, result
  <2>4. Handling(h, G, p, view)
    BY <2>1 DEF Handled
  <2>5. CASE P.state = "ACKNOWLEDGING_CONNECT"
    <3>1. Handled(h, G, NotifyConnect(G, p, event), p, view)
      BY <2>1, <2>2, <2>4, <2>5, NotifyConnectHandled
    <3>2. Handled(h, H, NotifyConnect(G, p, event), p, view)
      BY <2>1, <3>1, HandledTransitive
    <3>3. result \in {Go(NotifyConnect(G, p, event)), Stop(G)}
      BY <2>3, <2>5
    <3> QED BY <2>1, <3>2, <3>3, HandledOutcome DEF result
  <2>6. CASE P.state = "DISCONNECTING"
    <3>1. G.event = "NONE"
      BY <2>1, <2>6 DEF Handling, EventOK
    <3>2. Handled(h, G, NotifyEnd(G, p, event, "DISCONNECT"), p, view)
      BY <2>1, <2>2, <2>4, <2>6, <3>1, NotifyEndHandled
    <3>3. Handled(h, H, NotifyEnd(G, p, event, "DISCONNECT"), p, view)
      BY <2>1, <3>2, HandledTransitive
    <3>4. result \in {Go(NotifyEnd(G, p, event, "DISCONNECT")), Stop(G)}
      BY <2>3, <2>6
    <3> QED BY <2>1, <3>3, <3>4, HandledOutcome DEF result
  <2>7. CASE P.state = "DISCONNECT_LATER"
    <3>1. G.event = "NONE"
      BY <2>1, <2>7 DEF Handling, EventOK
    <3>2. Handled(h, G, RequestDisconnect(G, p), p, view)
      BY <2>1, <2>2, <2>4, <2>7, <3>1, RequestDisconnectHandled DEF Connected
    <3>3. Handled(h, H, RequestDisconnect(G, p), p, view)
      BY <2>1, <3>2, HandledTransitive
    <3>4. result = Go(RequestDisconnect(G, p)) \/ result = Go(G)
      BY <2>3, <2>7
    <3> QED BY <2>1, <3>3, <3>4, HandledOutcome DEF result
  <2>8. CASE P.state \notin {"ACKNOWLEDGING_CONNECT", "DISCONNECTING", "DISCONNECT_LATER"}
    <3>1. result = Go(G)
      BY <2>3, <2>8
    <3> QED BY <2>1, <3>1, HandledOutcome DEF result
  <2> QED BY <2>5, <2>6, <2>7, <2>8
<1> QED BY <1>2, <1>3

\* A peer that was not reset becomes a zombie.
LEMMA ZombieHandled ==
    ASSUME NEW h \in Hosts, NEW H, NEW p \in Peers(h), NEW view, Handling(h, H, p, view),
           H.event \in {"NONE", "CONNECT"}, Expected(H.peers[p].state) \subseteq {"connecting", "connected"},
           H.peers[p].state # "DISCONNECTED",
           NEW F \in HostRec(h), Local(h, H, F, p), F.event = H.event,
           PeerBase(h, F.peers[p], H.randomSeed), SameIdentity(F.peers[p], H.peers[p]),
           F.peers[p].state = H.peers[p].state,
           NEW G, G = DispatchState(F, p, "ZOMBIE")
    PROVE  Handled(h, H, G, p, view)
<1> DEFINE P == F.peers[p]
           R == G.peers[p]
<1>1. HostOK(h, H) /\ Seen(view, H.event) \in Expected(H.peers[p].state)
  BY DEF Handling
<1>2. "ZOMBIE" \in States /\ P \in PeerRec
  BY HostFields DEF States
<1>3. Local(h, F, G, p) /\ G.event = F.event /\ Dispatches(R, P, "ZOMBIE")
  BY <1>2, DispatchStateLocal
<1>4. PeerOK(h, R, H.randomSeed) /\ R.state = "ZOMBIE" /\ SameIdentity(R, P)
  BY <1>2, <1>3, ZombieOK
<1>5. Local(h, H, G, p) /\ SameIdentity(R, H.peers[p])
  BY <1>3, <1>4, LocalTransitive DEF SameIdentity
<1>6. EventOK(G, p)
  BY <1>3, <1>4 DEF EventOK
<1>7. Seen(view, G.event) \in Expected(R.state)
  BY <1>1, <1>3, <1>4 DEF Expected, Connected
<1> QED BY <1>1, <1>4, <1>5, <1>6, <1>7, HandledBy

\* enet_protocol_handle_verify_connect keeps the invariant of the host.
LEMMA HandleVerifyConnectHandled ==
    ASSUME NEW h \in Hosts, NEW H, NEW p \in Peers(h), NEW view, Handling(h, H, p, view),
           NEW cmd \in Handshakes, NEW event \in BOOLEAN
    PROVE  Outcome(h, H, HandleVerifyConnect(H, p, cmd, event), p, view)
<1> DEFINE P == H.peers[p]
           T == RemoveSent(P, Command("CONNECT", "control", 1, TRUE))
           X == [T EXCEPT !.outgoingPeerID = cmd.peer, !.incomingSessionID = cmd.incomingSessionID,
                          !.outgoingSessionID = cmd.outgoingSessionID]
           G == [H EXCEPT !.peers[p] = X]
           Z == DispatchState(H, p, "ZOMBIE")
           result == HandleVerifyConnect(H, p, cmd, event)
<1>1. H \in HostRec(h) /\ P \in PeerRec /\ PeerOK(h, P, H.randomSeed) /\ P.state \in States
  BY PeerOfHost DEF Handling
<1>2. result = IF P.state # "CONNECTING" THEN Go(H)
               ELSE IF P.connectID # cmd.connectID THEN Stop(Z)
               ELSE Go(NotifyConnect(G, p, event))
  BY DEF HandleVerifyConnect
<1>3. CASE P.state # "CONNECTING"
  <2>1. result = Go(H)
    BY <1>2, <1>3
  <2> HIDE DEF result
  <2> QED BY <2>1, HandledUnchanged, HandledOutcome DEF result
<1>4. CASE P.state = "CONNECTING" /\ P.connectID # cmd.connectID
  <2>1. H.event = "NONE"
    BY <1>4 DEF Handling, EventOK
  <2>2. Expected(P.state) \subseteq {"connecting", "connected"}
    BY <1>4 DEF Expected, Connected
  <2>3. Local(h, H, H, p) /\ SameIdentity(P, P) /\ PeerBase(h, P, H.randomSeed)
    BY <1>1 DEF Local, SameIdentity, PeerOK
  <2>4. Handled(h, H, Z, p, view)
    BY <1>1, <1>4, <2>1, <2>2, <2>3, ZombieHandled
  <2> HIDE DEF Z, result
  <2>5. result = Stop(Z)
    BY <1>2, <1>4
  <2> QED BY <2>4, <2>5, HandledOutcome DEF result
<1>5. CASE P.state = "CONNECTING" /\ P.connectID = cmd.connectID
  <2>1. Trimmed(h, X, P)
    <3>1. Trimmed(h, T, P)
      BY <1>1, RemoveSentTrims DEF PeerOK, PeerBase
    <3>2. cmd.peer \in Nat /\ cmd.incomingSessionID \in Sessions /\ cmd.outgoingSessionID \in Sessions
      BY DEF Handshakes
    <3> HIDE DEF T
    <3>3. T \in PeerRec
      BY <3>1 DEF Trimmed
    <3>4. /\ X \in PeerRec
          /\ X.state = T.state /\ X.address = T.address /\ X.connectID = T.connectID /\ X.seq = T.seq
          /\ X.dispatched = T.dispatched /\ X.packetArrived = T.packetArrived
          /\ X.needsDispatch = T.needsDispatch
          /\ X.outgoing = T.outgoing /\ X.again = T.again /\ X.sent = T.sent
      BY <3>2, <3>3 DEF PeerRec
    <3> HIDE DEF X, P
    <3> QED BY <3>1, <3>4 DEF Trimmed
  <2>2. Sets(G, H, p, X)
    BY DEF Sets
  <2>3. X.state = "CONNECTING"
    BY <2>1, <1>5 DEF Trimmed
  <2> HIDE DEF X, G, result
  <2>4. Handled(h, H, G, p, view) /\ G.peers[p] = X
    BY <1>5, <2>1, <2>2, TrimHandled
  <2>5. Handling(h, G, p, view)
    BY <2>4 DEF Handled
  <2>6. Handled(h, G, NotifyConnect(G, p, event), p, view)
    BY <2>3, <2>4, <2>5, NotifyConnectHandled
  <2>7. Handled(h, H, NotifyConnect(G, p, event), p, view)
    BY <2>4, <2>6, HandledTransitive
  <2>8. result = Go(NotifyConnect(G, p, event))
    BY <1>2, <1>5
  <2> QED BY <2>7, <2>8, HandledOutcome DEF result
<1> QED BY <1>3, <1>4, <1>5

\* enet_protocol_handle_disconnect keeps the invariant of the host.
LEMMA HandleDisconnectHandled ==
    ASSUME NEW h \in Hosts, NEW H, NEW p \in Peers(h), NEW view, Handling(h, H, p, view), NEW cmd
    PROVE  Outcome(h, H, HandleDisconnect(H, p, cmd), p, view)
<1> DEFINE P == H.peers[p]
           F == ResetQueues(H, p)
           X == F.peers[p]
           Z == DispatchState(F, p, "ZOMBIE")
           B == Reset(F, p)
           A == ChangeState(F, p, "ACKNOWLEDGING_DISCONNECT")
           result == HandleDisconnect(H, p, cmd)
<1>1. /\ H \in HostRec(h) /\ P \in PeerRec /\ PeerOK(h, P, H.randomSeed) /\ P.state \in States
      /\ HostOK(h, H) /\ EventOK(H, p) /\ Seen(view, H.event) \in Expected(P.state)
  BY PeerOfHost DEF Handling
<1>2. result = CASE P.state \in {"DISCONNECTED", "ZOMBIE", "ACKNOWLEDGING_DISCONNECT"} -> Go(H)
                 [] P.state \in {"CONNECTION_SUCCEEDED", "DISCONNECTING", "CONNECTING"} -> Go(Z)
                 [] P.state \in Unannounced -> Go(B)
                 [] OTHER -> Go(IF cmd.reliable THEN A ELSE Z)
  BY DEF HandleDisconnect
<1>3. Local(h, H, F, p) /\ F.event = H.event /\ Emptied(X, P)
  BY <1>1, ResetQueuesLocal
<1> HIDE DEF F
<1>4. F \in HostRec(h) /\ X \in PeerRec
  BY <1>3, HostFields DEF Local
<1>5. PeerBase(h, X, H.randomSeed) /\ SameIdentity(X, P) /\ X.state = P.state /\ X.dispatched = 0
  <2>1. PeerBase(h, P, H.randomSeed)
    BY <1>1 DEF PeerOK
  <2> HIDE DEF P, X
  <2> QED BY <2>1, <1>1, <1>3, EmptiedBase
<1>6. CASE P.state \in {"DISCONNECTED", "ZOMBIE", "ACKNOWLEDGING_DISCONNECT"}
  <2>1. result = Go(H)
    <3> HIDE DEF Z, B, A, result
    <3> QED BY <1>2, <1>6 DEF Unannounced
  <2> HIDE DEF result
  <2> QED BY <2>1, HandledUnchanged, HandledOutcome DEF result
<1>7. ASSUME P.state \in {"CONNECTION_SUCCEEDED", "DISCONNECTING", "CONNECTING"} \cup Connected
      PROVE  Handled(h, H, Z, p, view)
  <2>1. P.state # "DISCONNECTED" /\ Expected(P.state) \subseteq {"connecting", "connected"}
    BY <1>7 DEF Expected, Connected
  <2>2. H.event \in {"NONE", "CONNECT"}
    BY <1>1, <2>1 DEF EventOK
  <2> QED BY <1>1, <1>3, <1>4, <1>5, <2>1, <2>2, ZombieHandled
<1>8. CASE P.state \in {"CONNECTION_SUCCEEDED", "DISCONNECTING", "CONNECTING"}
  <2>1. result = Go(Z)
    <3> HIDE DEF Z, B, A, result
    <3> QED BY <1>2, <1>8 DEF Unannounced
  <2> HIDE DEF Z, result
  <2> QED BY <2>1, <1>7, <1>8, HandledOutcome DEF result
<1>9. CASE P.state \in Unannounced
  <2>1. Local(h, F, B, p) /\ B.event = F.event /\ Blank(B.peers[p], X)
    BY <1>4, ResetLocal
  <2>2. IdentityOK(h, X, H.randomSeed)
    BY <1>5 DEF PeerBase
  <2> HIDE DEF B, X
  <2>3. PeerOK(h, B.peers[p], H.randomSeed) /\ SameIdentity(B.peers[p], X)
    BY <2>1, <2>2, BlankOK
  <2>4. Local(h, H, B, p) /\ SameIdentity(B.peers[p], P)
    BY <1>3, <1>5, <2>1, <2>3, LocalTransitive DEF SameIdentity
  <2>5. H.event = "NONE"
    BY <1>1, <1>9 DEF EventOK, Unannounced
  <2>6. EventOK(B, p)
    BY <1>3, <2>1, <2>5 DEF EventOK
  <2>7. B.peers[p].state = "DISCONNECTED"
    BY <2>1 DEF Blank
  <2>8. Seen(view, B.event) \in Expected(B.peers[p].state)
    BY <1>1, <1>3, <1>9, <2>1, <2>7 DEF Expected, Connected, Unannounced
  <2>9. Handled(h, H, B, p, view)
    BY <1>1, <2>3, <2>4, <2>6, <2>8, HandledBy
  <2>10. result = Go(B)
    <3> HIDE DEF Z, A, result
    <3> QED BY <1>2, <1>9 DEF Unannounced
  <2> HIDE DEF result
  <2> QED BY <2>9, <2>10, HandledOutcome DEF result
<1>10. CASE P.state \in Connected
  <2>1. result \in {Go(Z), Go(A)}
    <3> HIDE DEF Z, B, A, result
    <3>1. result = Go(IF cmd.reliable THEN A ELSE Z)
      BY <1>2, <1>10 DEF Connected, Unannounced
    <3> QED BY <3>1
  <2>3. Local(h, F, A, p) /\ A.event = F.event /\ Changes(A.peers[p], X, "ACKNOWLEDGING_DISCONNECT")
    <3>1. "ACKNOWLEDGING_DISCONNECT" \in States
      BY DEF States
    <3> QED BY <1>4, <3>1, ChangeStateLocal
  <2> DEFINE R == A.peers[p]
  <2>4. /\ R.state = "ACKNOWLEDGING_DISCONNECT" /\ R.address = X.address /\ R.connectID = X.connectID
        /\ R.seq = X.seq
        /\ R.dispatched = X.dispatched /\ R.outgoing = X.outgoing
        /\ R.again = X.again /\ R.sent = X.sent
    <3> HIDE DEF A, X, R
    <3> QED BY <1>4, <2>3, ChangesFields DEF R, States
  <2> HIDE DEF A, Z, R, X
  <2>5. PeerOK(h, R, H.randomSeed) /\ SameIdentity(R, P)
    <3>1. ListsOK(h, R)
      BY <1>5, <2>4 DEF ListsOK, PeerBase
    <3>2. IdentityOK(h, R, H.randomSeed)
      BY <1>5, <2>4 DEF IdentityOK, PeerBase
    <3>3. NumbersOK(R) /\ ~ToReport(R)
      BY <1>5, <2>4 DEF NumbersOK, PeerBase, Closing, ToReport
    <3>4. SameIdentity(R, P)
      BY <1>5, <1>10, <2>4 DEF SameIdentity, Connected
    <3> QED BY <3>1, <3>2, <3>3, <3>4 DEF PeerOK, PeerBase
  <2>6. EventOK(A, p)
    BY <1>1, <1>3, <1>10, <2>3, <2>4 DEF EventOK, Connected, R
  <2>7. Seen(view, A.event) \in Expected(R.state)
    BY <1>1, <1>3, <1>10, <2>3, <2>4 DEF Expected, Connected
  <2>8. Local(h, H, A, p)
    BY <1>3, <2>3, LocalTransitive
  <2>9. Handled(h, H, A, p, view)
    BY <1>1, <2>5, <2>6, <2>7, <2>8, HandledBy DEF R
  <2> HIDE DEF result
  <2> QED BY <2>1, <2>9, <1>7, <1>10, HandledOutcome DEF result
<1> QED BY <1>1, <1>6, <1>8, <1>9, <1>10 DEF States, Connected, Unannounced

\* enet_protocol_handle_send_reliable keeps the invariant of the host.
LEMMA HandleSendReliableHandled ==
    ASSUME NEW h \in Hosts, NEW H, NEW p \in Peers(h), NEW view, Handling(h, H, p, view)
    PROVE  Outcome(h, H, HandleSendReliable(H, p), p, view)
<1> DEFINE P == H.peers[p]
           X == [P EXCEPT !.packetArrived = TRUE, !.dispatched = P.dispatched + 1]
           F == [H EXCEPT !.peers[p].packetArrived = TRUE, !.peers[p].dispatched = @ + 1]
           G == Enqueue(F, p)
           R == G.peers[p]
           result == HandleSendReliable(H, p)
<1>1. /\ H \in HostRec(h) /\ P \in PeerRec /\ PeerOK(h, P, H.randomSeed)
      /\ HostOK(h, H) /\ EventOK(H, p) /\ Seen(view, H.event) \in Expected(P.state)
  BY PeerOfHost DEF Handling
<1>2. result = IF P.state \notin Connected THEN Stop(H)
               ELSE IF P.state = "DISCONNECT_LATER" \/ P.packetArrived THEN Go(H)
               ELSE Go(G)
  BY DEF HandleSendReliable
<1>3. Outcome(h, H, Stop(H), p, view) /\ Outcome(h, H, Go(H), p, view)
  BY HandledUnchanged, HandledOutcome
<1>4. ASSUME P.state = "CONNECTED", ~P.packetArrived
      PROVE  Handled(h, H, G, p, view)
  <2>1. P.dispatched = 0
    BY <1>1, <1>4 DEF PeerOK, PeerBase, NumbersOK, PeerRec
  <2>2. /\ X \in PeerRec /\ X.state = P.state /\ X.needsDispatch = P.needsDispatch
        /\ X.address = P.address /\ X.connectID = P.connectID
        /\ X.seq = P.seq /\ X.dispatched = 1 /\ X.packetArrived
        /\ X.outgoing = P.outgoing /\ X.again = P.again /\ X.sent = P.sent
    <3> DEFINE n == P.dispatched + 1
    <3>1. X = [P EXCEPT !.packetArrived = TRUE, !.dispatched = n] /\ n = 1
      BY <2>1
    <3> HIDE DEF P, X, n
    <3> QED BY <1>1, <3>1 DEF PeerRec
  <2>3. Sets(F, H, p, X)
    BY DEF Sets
  <2> HIDE DEF F, X
  <2>4. Local(h, H, F, p) /\ F.peers[p] = X /\ F.event = H.event
    <3>1. X.state \in Connected <=> H.peers[p].state \in Connected
      BY <2>2
    <3> QED BY <1>1, <2>2, <2>3, <3>1, SetPeer
  <2>5. F \in HostRec(h)
    BY <2>4 DEF Local
  <2>6. Local(h, F, G, p) /\ G.event = F.event /\ Marks(R, X)
    BY <2>4, <2>5, EnqueueLocal
  <2>7. /\ R.state = P.state /\ R.needsDispatch
        /\ R.address = P.address /\ R.connectID = P.connectID
        /\ R.seq = P.seq /\ R.dispatched = 1 /\ R.packetArrived
        /\ R.outgoing = P.outgoing /\ R.again = P.again /\ R.sent = P.sent
    <3>1. /\ R.state = X.state /\ R.needsDispatch
          /\ R.address = X.address /\ R.connectID = X.connectID
          /\ R.seq = X.seq /\ R.dispatched = X.dispatched /\ R.packetArrived = X.packetArrived
          /\ R.outgoing = X.outgoing /\ R.again = X.again /\ R.sent = X.sent
      <4> HIDE DEF R
      <4> QED BY <2>2, <2>6 DEF Marks, PeerRec
    <3> QED BY <2>2, <3>1
  <2> HIDE DEF G, R
  <2>8. PeerOK(h, R, H.randomSeed) /\ SameIdentity(R, P)
    <3>1. ListsOK(h, R)
      BY <1>1, <2>7 DEF ListsOK, PeerBase, PeerOK
    <3>2. IdentityOK(h, R, H.randomSeed)
      BY <1>1, <2>7 DEF IdentityOK, PeerBase, PeerOK
    <3>3. NumbersOK(R)
      BY <1>1, <1>4, <2>7 DEF NumbersOK, PeerBase, PeerOK, Connected
    <3> QED BY <2>7, <3>1, <3>2, <3>3 DEF PeerOK, PeerBase, SameIdentity
  <2>9. Local(h, H, G, p) /\ G.event = H.event
    BY <2>4, <2>6, LocalTransitive
  <2>10. EventOK(G, p) /\ Seen(view, G.event) \in Expected(R.state)
    BY <1>1, <2>7, <2>9 DEF EventOK, R
  <2> QED BY <1>1, <2>8, <2>9, <2>10, HandledBy DEF R
<1>5. CASE P.state \notin Connected
  <2> HIDE DEF G
  <2> QED BY <1>2, <1>3, <1>5
<1>6. CASE P.state \in Connected /\ (P.state = "DISCONNECT_LATER" \/ P.packetArrived)
  <2> HIDE DEF G
  <2> QED BY <1>2, <1>3, <1>6
<1>7. CASE P.state \in Connected /\ ~(P.state = "DISCONNECT_LATER" \/ P.packetArrived)
  <2> HIDE DEF G
  <2>1. Handled(h, H, G, p, view)
    BY <1>4, <1>7 DEF Connected
  <2>2. result = Go(G)
    BY <1>2, <1>7
  <2> HIDE DEF result
  <2> QED BY <2>1, <2>2, HandledOutcome DEF result
<1> QED BY <1>5, <1>6, <1>7

\* The switch over the commands keeps the invariant of the host.
LEMMA HandleHandled ==
    ASSUME NEW h \in Hosts, NEW H, NEW p \in Peers(h), NEW view, Handling(h, H, p, view),
           NEW cmd \in AnyCommands, NEW event \in BOOLEAN
    PROVE  Outcome(h, H, Handle(H, p, cmd, event), p, view)
<1>1. Outcome(h, H, Stop(H), p, view) /\ Outcome(h, H, Go(H), p, view)
  BY HandledUnchanged, HandledOutcome
<1>2. cmd.type \in {"ACKNOWLEDGE", "CONNECT", "VERIFY_CONNECT", "DISCONNECT", "PING", "SEND_RELIABLE"}
  BY DEF AnyCommands, PlainCommands, Handshakes
<1>3. cmd.type = "VERIFY_CONNECT" => cmd \in Handshakes
  BY DEF AnyCommands, PlainCommands
<1>4. CASE cmd.type = "ACKNOWLEDGE"
  <2>1. Handle(H, p, cmd, event) = HandleAcknowledge(H, p, cmd, event)
    BY <1>4 DEF Handle
  <2> QED BY <2>1, HandleAcknowledgeHandled
<1>5. CASE cmd.type = "CONNECT"
  <2>1. Handle(H, p, cmd, event) = Stop(H)
    BY <1>5 DEF Handle
  <2> QED BY <2>1, <1>1
<1>6. CASE cmd.type = "VERIFY_CONNECT"
  <2>1. Handle(H, p, cmd, event) = HandleVerifyConnect(H, p, cmd, event)
    BY <1>6 DEF Handle
  <2> QED BY <2>1, <1>3, <1>6, HandleVerifyConnectHandled
<1>7. CASE cmd.type = "DISCONNECT"
  <2>1. Handle(H, p, cmd, event) = HandleDisconnect(H, p, cmd)
    BY <1>7 DEF Handle
  <2> QED BY <2>1, HandleDisconnectHandled
<1>8. CASE cmd.type = "PING"
  <2>1. Handle(H, p, cmd, event) = IF H.peers[p].state \in Connected THEN Go(H) ELSE Stop(H)
    BY <1>8 DEF Handle
  <2> QED BY <2>1, <1>1
<1>9. CASE cmd.type = "SEND_RELIABLE"
  <2>1. Handle(H, p, cmd, event) = HandleSendReliable(H, p)
    BY <1>9 DEF Handle
  <2> QED BY <2>1, HandleSendReliableHandled
<1> QED BY <1>2, <1>4, <1>5, <1>6, <1>7, <1>8, <1>9

\* So does the acknowledgement that is queued after it.
LEMMA AcknowledgingHandled ==
    ASSUME NEW h \in Hosts, NEW H, NEW p \in Peers(h), NEW view, Handling(h, H, p, view),
           NEW cmd \in AnyCommands, Acknowledging(H.peers[p], cmd),
           NEW G, G = [H EXCEPT !.peers[p].acknowledgements = Append(@, Acknowledge(cmd))]
    PROVE  Handled(h, H, G, p, view)
<1> DEFINE P == H.peers[p]
           acks == Append(P.acknowledgements, Acknowledge(cmd))
           X == [P EXCEPT !.acknowledgements = acks]
<1>1. H \in HostRec(h) /\ P \in PeerRec /\ PeerOK(h, P, H.randomSeed)
  BY PeerOfHost DEF Handling
<1>2. acks \in Seq(PlainCommands)
  <2>1. cmd.channel \in {"control", "data"} /\ cmd.seq \in Nat
    BY DEF AnyCommands, PlainCommands, Handshakes
  <2>2. Acknowledge(cmd) \in PlainCommands
    BY <2>1 DEF Acknowledge, Command, PlainCommands
  <2>3. P.acknowledgements \in Seq(PlainCommands)
    BY <1>1 DEF PeerRec
  <2> HIDE DEF P
  <2> QED BY <2>2, <2>3
<1>3. Trimmed(h, X, P)
  <2> HIDE DEF acks, P
  <2>1. /\ X \in PeerRec
        /\ X.state = P.state /\ X.address = P.address /\ X.connectID = P.connectID /\ X.seq = P.seq
        /\ X.dispatched = P.dispatched /\ X.packetArrived = P.packetArrived
        /\ X.needsDispatch = P.needsDispatch
        /\ X.outgoing = P.outgoing /\ X.again = P.again /\ X.sent = P.sent
    BY <1>1, <1>2 DEF PeerRec
  <2> HIDE DEF X
  <2> QED BY <1>1, <2>1 DEF Trimmed, PeerOK, PeerBase, ListsOK
<1>4. Sets(G, H, p, X)
  BY DEF Sets
<1>5. P.state # "DISCONNECTED"
  BY DEF Acknowledging
<1> HIDE DEF X
<1> QED BY <1>3, <1>4, <1>5, TrimHandled

\* One turn of the loop over the commands of a datagram.
LEMMA HandleNextHandled ==
    ASSUME NEW h \in Hosts, NEW H, NEW p \in Peers(h), NEW view,
           NEW R, Outcome(h, H, R, p, view),
           NEW cmd \in AnyCommands, NEW event \in BOOLEAN
    PROVE  Outcome(h, H, HandleNext(R, p, cmd, event), p, view)
<1> DEFINE next == Handle(R.host, p, cmd, event)
           G    == next.host
           E    == [G EXCEPT !.peers[p].acknowledgements = Append(@, Acknowledge(cmd))]
           result == HandleNext(R, p, cmd, event)
<1>1. result = CASE R.stop -> R
                 [] ~R.stop /\ ~next.stop /\ Acknowledging(G.peers[p], cmd) -> Go(E)
                 [] OTHER -> next
  BY DEF HandleNext
<1>2. R.stop \in BOOLEAN /\ Handled(h, H, R.host, p, view)
  BY DEF Outcome
<1>3. Outcome(h, R.host, next, p, view)
  BY <1>2, HandleHandled DEF Handled
<1> HIDE DEF next
<1>4. next.stop \in BOOLEAN /\ Handled(h, R.host, G, p, view)
  BY <1>3 DEF Outcome
<1>5. Handled(h, H, G, p, view)
  BY <1>2, <1>4, HandledTransitive
<1>6. Outcome(h, H, next, p, view)
  BY <1>3, <1>5 DEF Outcome
<1>7. CASE R.stop
  <2> HIDE DEF E, G
  <2> QED BY <1>1, <1>7
<1>8. CASE ~R.stop /\ ~next.stop /\ Acknowledging(G.peers[p], cmd)
  <2>1. Handled(h, G, E, p, view)
    <3> HIDE DEF G
    <3> QED BY <1>5, <1>8, AcknowledgingHandled DEF Handled
  <2>2. Handled(h, H, E, p, view)
    BY <1>5, <2>1, HandledTransitive
  <2> HIDE DEF E, G
  <2>3. result = Go(E)
    BY <1>1, <1>8
  <2> HIDE DEF result
  <2> QED BY <2>2, <2>3, HandledOutcome DEF result
<1>9. CASE ~R.stop /\ ~(~next.stop /\ Acknowledging(G.peers[p], cmd))
  <2> HIDE DEF E, G
  <2> QED BY <1>1, <1>6, <1>9
<1> QED BY <1>2, <1>7, <1>8, <1>9

\* The whole loop, by induction on the commands of the datagram.
LEMMA HandleCommandsHandled ==
    ASSUME NEW h \in Hosts, NEW H, NEW p \in Peers(h), NEW view, Handling(h, H, p, view),
           NEW commands \in Seq(AnyCommands), NEW event \in BOOLEAN
    PROVE  Handled(h, H, HandleCommands(H, p, commands, event), p, view)
<1> DEFINE n == Len(commands)
           Q == {R \in [host: HostRec(h), stop: BOOLEAN] : Outcome(h, H, R, p, view)}
           b == Go(H)
           step == [i \in 1 .. n |-> [R \in Q |-> HandleNext(R, p, commands[i], event)]]
           Rule(f) == f = [i \in 0 .. n |-> IF i = 0 THEN Go(H)
                                            ELSE HandleNext(f[i - 1], p, commands[i], event)]
           Done == CHOOSE f : Rule(f)
<1>1. n \in Nat /\ \A i \in 1 .. n : commands[i] \in AnyCommands
  OBVIOUS
<1>2. \A R : R \in Q <=> Outcome(h, H, R, p, view)
  BY DEF Outcome
<1>3. b \in Q
  <2>1. Outcome(h, H, Go(H), p, view)
    BY HandledUnchanged, HandledOutcome
  <2> HIDE DEF Q
  <2> QED BY <2>1, <1>2
<1>4. ASSUME NEW R \in Q, NEW i \in 1 .. n
      PROVE  HandleNext(R, p, commands[i], event) \in Q
  <2> HIDE DEF Q, n
  <2> QED BY <1>1, <1>2, HandleNextHandled
<1>5. step \in [1 .. n -> [Q -> Q]]
  <2> HIDE DEF Q, n
  <2> QED BY <1>4
<1>6. PICK f : Computes(f, Q, n, b, step)
  <2> HIDE DEF Q, n, b, step
  <2> QED BY <1>1, <1>3, <1>5, Recursion
<1>7. Rule(f)
  <2> HIDE DEF Q, n
  <2>1. f \in [0 .. n -> Q] /\ f[0] = Go(H) /\ \A i \in 1 .. n : f[i] = step[i][f[i - 1]]
    BY <1>6 DEF Computes
  <2>2. ASSUME NEW i \in 0 .. n
        PROVE  f[i] = IF i = 0 THEN Go(H) ELSE HandleNext(f[i - 1], p, commands[i], event)
    <3>1. CASE i = 0
      BY <3>1, <2>1
    <3>2. CASE i # 0
      <4>1. i \in 1 .. n /\ i - 1 \in 0 .. n
        BY <3>2, <1>1
      <4>2. f[i - 1] \in Q
        BY <4>1, <2>1
      <4>3. step[i][f[i - 1]] = HandleNext(f[i - 1], p, commands[i], event)
        BY <4>1, <4>2
      <4> QED BY <3>2, <4>1, <4>3, <2>1
    <3> QED BY <3>1, <3>2
  <2> QED BY <2>1, <2>2
<1>8. Rule(Done)
  <2> HIDE DEF Rule
  <2> QED BY <1>7
<1>9. HandleCommands(H, p, commands, event) = Done[n].host
  BY DEF HandleCommands
<1> HIDE DEF Done
<1>10. Done[n] \in Q
  <2> DEFINE S == {i \in 0 .. n : Done[i] \in Q}
  <2> HIDE DEF Q, n
  <2>1. 0 \in S
    BY <1>1, <1>3, <1>8
  <2>2. ASSUME NEW i \in 1 .. n, i - 1 \in S PROVE i \in S
    <3>1. i \in 0 .. n /\ i # 0 /\ Done[i - 1] \in Q
      BY <1>1, <2>2
    <3>2. Done[i] = HandleNext(Done[i - 1], p, commands[i], event)
      BY <3>1, <1>8
    <3> QED BY <3>1, <3>2, <1>4
  <2> HIDE DEF S
  <2>3. 0 .. n \subseteq S
    BY <1>1, <2>1, <2>2, Induct
  <2>4. n \in S
    BY <1>1, <2>3
  <2> QED BY <2>4 DEF S
<1> QED BY <1>2, <1>9, <1>10 DEF Outcome

-----------------------------------------------------------------------------
(* A request to connect *)

\* The peer taken for a new connection is a free one.
LEMMA LeastFree ==
    ASSUME NEW h \in Hosts, NEW H \in HostRec(h), Free(H) # {}
    PROVE  /\ Min(Free(H)) \in Peers(h)
           /\ H.peers[Min(Free(H))].state = "DISCONNECTED"
<1> DEFINE S == Free(H)
<1>1. S \subseteq Peers(h) /\ \A q \in S : H.peers[q].state = "DISCONNECTED"
  BY HostFields DEF Free
<1>2. Peers(h) \subseteq Nat
  BY DEF Peers
<1>3. \E x \in S : \A y \in S : x <= y
  <2> HIDE DEF S
  <2>1. S \in SUBSET Nat /\ S # {}
    BY <1>1, <1>2 DEF S
  <2> QED BY <2>1, LeastNat
<1>4. Min(S) \in S
  <2> HIDE DEF S
  <2> QED BY <1>3 DEF Min
<1> QED BY <1>1, <1>4

\* The sessions of a new connection are two bits wide.
LEMMA NextSessionType ==
    ASSUME NEW theirs \in Sessions, NEW mine \in Sessions
    PROVE  NextSession(theirs, mine) \in Sessions
<1> DEFINE last == IF theirs = NoSession THEN mine ELSE theirs
           next == (last + 1) % 4
<1>1. last \in Nat
  BY DEF Sessions, NoSession
<1>2. next \in 0 .. 3
  BY <1>1
<1>3. (next + 1) % 4 \in 0 .. 3
  <2> HIDE DEF next
  <2> QED BY <1>2
<1>4. NextSession(theirs, mine) \in {next, (next + 1) % 4}
  BY DEF NextSession
<1> HIDE DEF next
<1> QED BY <1>2, <1>3, <1>4 DEF Sessions

\* R is the free peer P taken for a new connection.
Begins(h, R, P) ==
    /\ R \in PeerRec /\ P.state = "DISCONNECTED"
    /\ R.state \in {"CONNECTING", "ACKNOWLEDGING_CONNECT"}
    /\ R.seq = 1 /\ R.again = P.again /\ R.sent = P.sent
    /\ R.outgoing \in Seq(Commands(h, R.address))
    /\ R.dispatched = P.dispatched /\ R.packetArrived = P.packetArrived

\* A peer of a new connection is well-formed: a free one has nothing in flight.
LEMMA BeginsOK ==
    ASSUME NEW h, NEW P, NEW R, NEW randomSeed, PeerOK(h, P, randomSeed), Begins(h, R, P)
    PROVE  ListsOK(h, R) /\ NumbersOK(R) /\ ~ToReport(R)
<1>1. P.again = <<>> /\ P.sent = <<>> /\ ~(P.dispatched > 0) /\ P.dispatched <= 1
  BY DEF PeerOK, PeerBase, ListsOK, NumbersOK, Begins, Connected
<1>2. ListsOK(h, R)
  <2> DEFINE S == Commands(h, R.address)
  <2>1. <<>> \in Seq(S)
    OBVIOUS
  <2> HIDE DEF S
  <2>2. R.outgoing \in Seq(S) /\ R.again \in Seq(S) /\ R.sent \in Seq(S)
    BY <2>1, <1>1 DEF Begins, S
  <2> QED BY <2>2 DEF ListsOK, S, Begins
<1>3. NumbersOK(R)
  <2>1. MaxPings \in Nat
    BY ConstantsAssumption
  <2> QED BY <1>1, <2>1 DEF NumbersOK, Begins
<1>4. ~ToReport(R)
  BY DEF ToReport, Begins
<1> QED BY <1>2, <1>3, <1>4

\* G is the host H in which the peer R takes the place of peer p.
Starts(h, H, G, p, R) ==
    /\ G \in HostRec(h) /\ G.event = H.event
    /\ G.peers[p] = R /\ \A q \in Peers(h) : q # p => G.peers[q] = H.peers[q]
    /\ G.dispatchQueue = H.dispatchQueue /\ G.connectedPeers = H.connectedPeers
    /\ R.needsDispatch = H.peers[p].needsDispatch

\* A new connection keeps the invariant if its identifier has no live twin.
LEMMA StartsInv ==
    ASSUME NEW h \in Hosts, NEW H, NEW views, HostInv(h, H, views), NEW p \in Peers(h),
           NEW G, NEW R, Starts(h, H, G, p, R), Begins(h, R, H.peers[p]),
           G.randomSeed <= MaxConnects, H.randomSeed <= G.randomSeed,
           IdentityOK(h, R, G.randomSeed),
           \A q \in Peers(h) : q # p => ~Twins(R, H.peers[q]),
           NEW view, view \in Expected(R.state)
    PROVE  HostInv(h, G, [views EXCEPT ![p] = view])
<1>1. HostOK(h, H) /\ H \in HostRec(h)
  BY DEF HostInv, HostOK
<1>2. /\ G \in HostRec(h) /\ G.event = H.event
      /\ G.peers[p] = R /\ \A q \in Peers(h) : q # p => G.peers[q] = H.peers[q]
      /\ G.dispatchQueue = H.dispatchQueue /\ G.connectedPeers = H.connectedPeers
      /\ R.needsDispatch = H.peers[p].needsDispatch
  BY DEF Starts
<1>3. R.state \in {"CONNECTING", "ACKNOWLEDGING_CONNECT"} /\ H.peers[p].state = "DISCONNECTED"
  BY DEF Begins
<1>4. Counted(h, G)
  <2>1. ConnectedOf(h, G) = ConnectedOf(h, H)
    BY <1>2, <1>3 DEF ConnectedOf, Connected
  <2> QED BY <1>1, <1>2, <2>1 DEF HostOK, Counted
<1>5. Queued(h, G)
  <2>1. {q \in Peers(h) : G.peers[q].needsDispatch} = {q \in Peers(h) : H.peers[q].needsDispatch}
    BY <1>2
  <2> QED BY <1>1, <1>2, <2>1 DEF HostOK, Queued
<1>6. ASSUME NEW q \in Peers(h) PROVE PeerOK(h, G.peers[q], G.randomSeed)
  <2>1. PeerOK(h, H.peers[q], H.randomSeed)
    BY <1>1 DEF HostOK
  <2>2. CASE q = p
    <3>1. ListsOK(h, R) /\ NumbersOK(R) /\ ~ToReport(R)
      BY <2>1, <2>2, BeginsOK
    <3> QED BY <1>2, <2>2, <3>1 DEF PeerOK, PeerBase
  <2>3. CASE q # p
    <3>1. G.peers[q] = H.peers[q]
      BY <1>2, <2>3
    <3>2. H.peers[q].connectID[2] \in Nat /\ H.randomSeed \in Nat /\ G.randomSeed \in Nat
      BY <1>1, <1>2, HostFields DEF PeerRec, Ids
    <3>3. IdentityOK(h, H.peers[q], G.randomSeed)
      BY <2>1, <3>2 DEF IdentityOK, PeerOK, PeerBase
    <3> QED BY <2>1, <3>1, <3>3 DEF PeerOK, PeerBase
  <2> QED BY <2>2, <2>3
<1>7. ASSUME NEW q \in Peers(h), NEW r \in Peers(h), q # r
      PROVE  ~Twins(G.peers[q], G.peers[r])
  BY <1>2, <1>7 DEF HostInv, Twins
<1>8. [views EXCEPT ![p] = view] \in [Peers(h) -> Views]
  <2>1. view \in Views
    BY <1>3 DEF Expected, Connected, Views
  <2> QED BY <2>1 DEF HostInv
<1>9. ASSUME NEW q \in Peers(h)
      PROVE  [views EXCEPT ![p] = view][q] \in Expected(G.peers[q].state)
  BY <1>2 DEF HostInv
<1> QED BY <1>2, <1>4, <1>5, <1>6, <1>7, <1>8, <1>9 DEF HostInv, HostOK

\* enet_protocol_handle_connect: the search for the identifier among the peers known
\* at the address is enough, those that connect have identifiers of this host.
LEMMA HandleConnectInv ==
    ASSUME NEW h \in Hosts, NEW H, NEW views, HostInv(h, H, views),
           NEW from \in Hosts, from # h,
           NEW cmd \in Handshakes, cmd.connectID[1] = from,
           NEW G, G = HandleConnect(H, from, cmd)
    PROVE  HostInv(h, G, views)
<1> DEFINE p    == Min(Free(H))
           P    == H.peers[p]
           out  == NextSession(cmd.incomingSessionID, P.outgoingSessionID)
           in   == NextSession(cmd.outgoingSessionID, P.incomingSessionID)
           m    == Handshake("VERIFY_CONNECT", 1, cmd.connectID, p, out, in)
           R    == [P EXCEPT !.state = "ACKNOWLEDGING_CONNECT", !.connectID = cmd.connectID,
                             !.address = from, !.outgoingPeerID = cmd.peer,
                             !.outgoingSessionID = out, !.incomingSessionID = in, !.seq = 1,
                             !.outgoing = <<m>>]
<1>1. CASE ~Accepting(H, from, cmd)
  BY <1>1 DEF HandleConnect
<1>2. CASE Accepting(H, from, cmd)
  <2>1. G = [H EXCEPT !.accepts = H.accepts + 1, !.peers[p] = R]
    BY <1>2 DEF HandleConnect
  <2>2. H \in HostRec(h) /\ HostOK(h, H)
    BY DEF HostInv, HostOK
  <2>3. p \in Peers(h) /\ P.state = "DISCONNECTED"
    BY <1>2, <2>2, LeastFree DEF Accepting
  <2> HIDE DEF p
  <2>4. P \in PeerRec /\ PeerOK(h, P, H.randomSeed)
    BY <2>2, <2>3, PeerOfHost
  <2>5. /\ cmd.connectID \in Ids /\ cmd.peer \in Nat
        /\ cmd.incomingSessionID \in Sessions /\ cmd.outgoingSessionID \in Sessions
    BY DEF Handshakes
  <2>6. P.incomingSessionID \in Sessions /\ P.outgoingSessionID \in Sessions
    BY <2>4 DEF PeerRec
  <2>7. out \in Sessions /\ in \in Sessions
    BY <2>5, <2>6, NextSessionType
  <2> HIDE DEF out, in
  <2>8. m \in Handshakes /\ m.type = "VERIFY_CONNECT"
    <3>1. p \in Nat
      BY <2>3 DEF Peers
    <3> QED BY <2>5, <2>7, <3>1 DEF Handshake, Handshakes
  <2>9. m \in AnyCommands /\ m \in Commands(h, from)
    BY <2>8 DEF AnyCommands, Commands
  <2> HIDE DEF m
  <2>10. <<m>> \in Seq(AnyCommands) /\ <<m>> \in Seq(Commands(h, from))
    BY <2>9
  <2>11. /\ R \in PeerRec /\ R.state = "ACKNOWLEDGING_CONNECT" /\ R.connectID = cmd.connectID
         /\ R.address = from /\ R.seq = 1 /\ R.outgoing = <<m>>
         /\ R.again = P.again /\ R.sent = P.sent
         /\ R.dispatched = P.dispatched /\ R.packetArrived = P.packetArrived
         /\ R.needsDispatch = P.needsDispatch
    <3> DEFINE s == <<m>>
               one == 1
               state == "ACKNOWLEDGING_CONNECT"
               id == cmd.connectID
               peer == cmd.peer
    <3>1. R = [P EXCEPT !.state = state, !.connectID = id,
                        !.address = from, !.outgoingPeerID = peer,
                        !.outgoingSessionID = out, !.incomingSessionID = in, !.seq = one,
                        !.outgoing = s]
      OBVIOUS
    <3>2. s \in Seq(AnyCommands) /\ one \in Nat /\ state \in States /\ id \in Ids /\ peer \in Nat
      BY <2>5, <2>10 DEF States
    <3> HIDE DEF P, R, s, one, state, id, peer
    <3>3. /\ R \in PeerRec /\ R.state = state /\ R.connectID = id
          /\ R.address = from /\ R.seq = one /\ R.outgoing = s
          /\ R.again = P.again /\ R.sent = P.sent
          /\ R.dispatched = P.dispatched /\ R.packetArrived = P.packetArrived
          /\ R.needsDispatch = P.needsDispatch
      BY <2>4, <2>7, <3>1, <3>2 DEF PeerRec
    <3> QED BY <3>3 DEF s, one, state, id
  <2> HIDE DEF R
  <2>12. Starts(h, H, G, p, R) /\ G.randomSeed = H.randomSeed
    <3> DEFINE PP == [H.peers EXCEPT ![p] = R]
               n  == H.accepts + 1
    <3>1. H.peers \in [Peers(h) -> PeerRec] /\ n \in Nat
      BY <2>2, HostFields
    <3>2. PP \in [Peers(h) -> PeerRec] /\ PP[p] = R /\ \A q \in Peers(h) : q # p => PP[q] = H.peers[q]
      BY <3>1, <2>3, <2>11
    <3>3. G = [H EXCEPT !.accepts = n, !.peers = PP]
      BY <2>1
    <3> HIDE DEF PP, n
    <3>4. /\ G \in HostRec(h) /\ G.event = H.event /\ G.peers = PP /\ G.randomSeed = H.randomSeed
          /\ G.dispatchQueue = H.dispatchQueue /\ G.connectedPeers = H.connectedPeers
      BY <2>2, <3>1, <3>2, <3>3 DEF HostRec
    <3> HIDE DEF P
    <3>5. R.needsDispatch = H.peers[p].needsDispatch
      BY <2>11 DEF P
    <3> QED BY <3>2, <3>4, <3>5 DEF Starts
  <2>13. Begins(h, R, P)
    <3>1. R.outgoing \in Seq(Commands(h, R.address))
      BY <2>10, <2>11
    <3> QED BY <2>3, <2>11, <3>1 DEF Begins
  <2>14. IdentityOK(h, R, G.randomSeed)
    BY <2>11 DEF IdentityOK
  <2>15. ASSUME NEW q \in Peers(h), q # p PROVE ~Twins(R, H.peers[q])
    <3>1. SUFFICES ASSUME Twins(R, H.peers[q]) PROVE FALSE
      OBVIOUS
    <3>2. /\ H.peers[q].state # "DISCONNECTED"
          /\ H.peers[q].connectID = cmd.connectID /\ H.peers[q].address = from
      BY <2>11, <3>1 DEF Twins
    <3>3. H.peers[q].state # "CONNECTING"
      <4>1. PeerOK(h, H.peers[q], H.randomSeed)
        BY <2>2 DEF HostOK
      <4> QED BY <3>2, <4>1 DEF PeerOK, PeerBase, IdentityOK
    <3>4. q \in Known(H, from)
      BY <2>2, <3>2, <3>3, HostFields DEF Known
    <3> QED BY <1>2, <3>2, <3>4 DEF Accepting
  <2>16. views[p] \in Expected(R.state) /\ [views EXCEPT ![p] = views[p]] = views
    <3>1. views[p] \in Expected(P.state) /\ views \in [Peers(h) -> Views]
      BY <2>3 DEF HostInv
    <3>2. Expected("DISCONNECTED") = Expected("ACKNOWLEDGING_CONNECT")
      BY DEF Expected, Connected
    <3> QED BY <2>3, <2>11, <3>1, <3>2
  <2>17. G.randomSeed <= MaxConnects /\ H.randomSeed <= G.randomSeed
    BY <2>12, <2>2, HostFields DEF HostInv
  <2>18. HostInv(h, G, [views EXCEPT ![p] = views[p]])
    <3> DEFINE view == views[p]
    <3> HIDE DEF view
    <3> SUFFICES HostInv(h, G, [views EXCEPT ![p] = view])
      BY DEF view
    <3>1. view \in Expected(R.state)
      BY <2>16 DEF view
    <3> QED BY <2>3, <2>12, <2>13, <2>14, <2>15, <2>17, <3>1, StartsInv
  <2> QED BY <2>16, <2>18
<1> QED BY <1>1, <1>2

\* enet_host_connect: the identifier is newer than all this host chose before.
LEMMA ConnectInv ==
    ASSUME NEW h \in Hosts, NEW H, NEW views, HostInv(h, H, views),
           NEW address \in Hosts, address # h, Free(H) # {}, H.randomSeed < MaxConnects,
           NEW p, p = Min(Free(H)), NEW id, id = ConnectID(h, H.randomSeed + 1),
           NEW m, m = Handshake("CONNECT", 1, id, p, H.peers[p].incomingSessionID,
                                H.peers[p].outgoingSessionID),
           NEW G, G = [H EXCEPT !.randomSeed = @ + 1, !.peers[p] =
                [@ EXCEPT !.state = "CONNECTING", !.address = address, !.connectID = id, !.seq = 1,
                          !.outgoing = <<m>>]]
    PROVE  p \in Peers(h) /\ HostInv(h, G, [views EXCEPT ![p] = "connecting"])
<1> DEFINE P == H.peers[p]
           R == [P EXCEPT !.state = "CONNECTING", !.address = address, !.connectID = id, !.seq = 1,
                          !.outgoing = <<m>>]
<1>1. H \in HostRec(h) /\ HostOK(h, H)
  BY DEF HostInv, HostOK
<1>2. p \in Peers(h) /\ P.state = "DISCONNECTED" /\ p \in Nat
  BY <1>1, LeastFree DEF Peers
<1>3. P \in PeerRec /\ PeerOK(h, P, H.randomSeed)
  BY <1>1, <1>2, PeerOfHost
<1>4. H.randomSeed \in Nat /\ H.randomSeed + 1 \in Nat /\ MaxConnects \in Nat
  BY <1>1, HostFields, ConstantsAssumption
<1>5. id \in Ids /\ id[1] = h /\ id[2] = H.randomSeed + 1
  BY <1>4 DEF ConnectID, Ids
<1>6. P.incomingSessionID \in Sessions /\ P.outgoingSessionID \in Sessions
  BY <1>3 DEF PeerRec
<1>7. m \in Handshakes /\ m.connectID = id
  <2> HIDE DEF P
  <2>1. m = Handshake("CONNECT", 1, id, p, P.incomingSessionID, P.outgoingSessionID)
    BY DEF P
  <2> QED BY <1>2, <1>5, <1>6, <2>1 DEF Handshake, Handshakes
<1>8. m \in AnyCommands /\ m \in Commands(h, address)
  BY <1>5, <1>7 DEF AnyCommands, Commands
<1>9. <<m>> \in Seq(AnyCommands) /\ <<m>> \in Seq(Commands(h, address))
  BY <1>8
<1>10. /\ R \in PeerRec /\ R.state = "CONNECTING" /\ R.connectID = id
       /\ R.address = address /\ R.seq = 1 /\ R.outgoing = <<m>>
       /\ R.again = P.again /\ R.sent = P.sent
       /\ R.dispatched = P.dispatched /\ R.packetArrived = P.packetArrived
       /\ R.needsDispatch = P.needsDispatch
  <2> DEFINE s == <<m>>
             one == 1
             state == "CONNECTING"
  <2>1. R = [P EXCEPT !.state = state, !.address = address, !.connectID = id, !.seq = one,
                      !.outgoing = s]
    OBVIOUS
  <2>2. s \in Seq(AnyCommands) /\ one \in Nat /\ state \in States
    BY <1>9 DEF States
  <2> HIDE DEF P, R, s, one, state
  <2>3. /\ R \in PeerRec /\ R.state = state /\ R.connectID = id
        /\ R.address = address /\ R.seq = one /\ R.outgoing = s
        /\ R.again = P.again /\ R.sent = P.sent
        /\ R.dispatched = P.dispatched /\ R.packetArrived = P.packetArrived
        /\ R.needsDispatch = P.needsDispatch
    BY <1>3, <1>5, <2>1, <2>2 DEF PeerRec
  <2> QED BY <2>3 DEF s, one, state
<1>11. G = [H EXCEPT !.randomSeed = H.randomSeed + 1, !.peers[p] = R]
  OBVIOUS
<1> HIDE DEF R
<1>12. Starts(h, H, G, p, R) /\ G.randomSeed = H.randomSeed + 1
  <2> DEFINE PP == [H.peers EXCEPT ![p] = R]
             n  == H.randomSeed + 1
  <2>1. H.peers \in [Peers(h) -> PeerRec]
    BY <1>1, HostFields
  <2>2. PP \in [Peers(h) -> PeerRec] /\ PP[p] = R /\ \A q \in Peers(h) : q # p => PP[q] = H.peers[q]
    BY <2>1, <1>2, <1>10
  <2>3. G = [H EXCEPT !.randomSeed = n, !.peers = PP] /\ n \in Nat
    BY <1>11, <1>4
  <2> HIDE DEF PP, n
  <2>4. /\ G \in HostRec(h) /\ G.event = H.event /\ G.peers = PP /\ G.randomSeed = n
        /\ G.dispatchQueue = H.dispatchQueue /\ G.connectedPeers = H.connectedPeers
    BY <1>1, <2>1, <2>2, <2>3 DEF HostRec
  <2>5. R.needsDispatch = H.peers[p].needsDispatch
    BY <1>10
  <2> QED BY <2>2, <2>4, <2>5 DEF Starts, n
<1>13. Begins(h, R, P)
  <2>1. R.outgoing \in Seq(Commands(h, R.address))
    BY <1>9, <1>10
  <2> QED BY <1>2, <1>10, <2>1 DEF Begins
<1>14. IdentityOK(h, R, G.randomSeed)
  BY <1>4, <1>5, <1>10, <1>12 DEF IdentityOK
<1>15. ASSUME NEW q \in Peers(h), q # p PROVE ~Twins(R, H.peers[q])
  <2>1. PeerOK(h, H.peers[q], H.randomSeed)
    BY <1>1 DEF HostOK
  <2>2. H.peers[q].connectID # id
    BY <2>1, <1>4, <1>5 DEF PeerOK, PeerBase, IdentityOK
  <2> QED BY <1>10, <2>2 DEF Twins
<1>16. G.randomSeed <= MaxConnects /\ H.randomSeed <= G.randomSeed
  BY <1>4, <1>12
<1>17. HostInv(h, G, [views EXCEPT ![p] = "connecting"])
  <2> DEFINE view == "connecting"
  <2>1. view \in Expected(R.state)
    BY <1>10 DEF Expected, Connected
  <2> HIDE DEF view
  <2> SUFFICES HostInv(h, G, [views EXCEPT ![p] = view])
    BY DEF view
  <2> QED BY <1>2, <1>12, <1>13, <1>14, <1>15, <1>16, <2>1, StartsInv
<1> QED BY <1>2, <1>17

-----------------------------------------------------------------------------
(* Sending to every peer *)

\* A sequence over a set is one over any larger set.
LEMMA SeqMonotone ==
    ASSUME NEW A, NEW B, A \subseteq B, NEW s \in Seq(A)
    PROVE  s \in Seq(B)
<1>1. Len(s) \in Nat /\ s \in [1 .. Len(s) -> A]
  OBVIOUS
<1>2. s \in [1 .. Len(s) -> B]
  BY <1>1
<1> QED BY <1>1, <1>2

\* R is the peer P after its commands were sent.
Sent(h, R, P) ==
    /\ R \in PeerRec
    /\ \/ R.state = P.state /\ R.needsDispatch = P.needsDispatch
       \/ R.state = "ZOMBIE" /\ P.state = "ACKNOWLEDGING_DISCONNECT" /\ R.needsDispatch
    /\ R.address = P.address /\ R.connectID = P.connectID /\ R.seq = P.seq
    /\ R.dispatched = P.dispatched /\ R.packetArrived = P.packetArrived
    /\ R.outgoing \in Seq(Commands(h, P.address))
    /\ R.again \in Seq(Commands(h, P.address)) /\ R.sent \in Seq(Commands(h, P.address))
    /\ P.state = "DISCONNECTED" => R.again = P.again /\ R.sent = P.sent

\* A peer whose commands were sent is well-formed, and the application knows enough.
LEMMA SentOK ==
    ASSUME NEW h, NEW P, NEW R, NEW randomSeed, PeerOK(h, P, randomSeed), Sent(h, R, P)
    PROVE  /\ PeerOK(h, R, randomSeed) /\ SameIdentity(R, P)
           /\ Expected(P.state) \subseteq Expected(R.state)
           /\ P.state = "DISCONNECTED" <=> R.state = "DISCONNECTED"
<1>1. ListsOK(h, R)
  BY DEF ListsOK, Sent, PeerOK, PeerBase
<1>2. IdentityOK(h, R, randomSeed)
  BY DEF IdentityOK, Sent, PeerOK, PeerBase
<1>3. NumbersOK(R)
  BY DEF NumbersOK, Sent, PeerOK, PeerBase, Closing, Connected
<1>4. ToReport(R) => R.needsDispatch
  BY DEF ToReport, Sent, PeerOK
<1>5. Expected(P.state) \subseteq Expected(R.state)
  <2>1. Expected("ACKNOWLEDGING_DISCONNECT") \subseteq Expected("ZOMBIE")
    BY DEF Expected, Connected
  <2> QED BY <2>1 DEF Sent
<1>6. SameIdentity(R, P) /\ (P.state = "DISCONNECTED" <=> R.state = "DISCONNECTED")
  BY DEF SameIdentity, Sent
<1> QED BY <1>1, <1>2, <1>3, <1>4, <1>5, <1>6 DEF PeerOK, PeerBase

\* A peer that has nothing to send.
LEMMA SentUnchanged ==
    ASSUME NEW h, NEW P \in PeerRec, ListsOK(h, P)
    PROVE  Sent(h, P, P)
BY DEF Sent, ListsOK

\* A peer that sends keeps in flight what was and the reliable commands of the rest.
LEMMA AfterSendingSent ==
    ASSUME NEW h, NEW P \in PeerRec, ListsOK(h, P), HasToSend(P)
    PROVE  /\ Sent(h, AfterSending(P), P) /\ AfterSending(P).state = P.state
           /\ AfterSending(P).needsDispatch = P.needsDispatch
<1> DEFINE S    == Commands(h, P.address)
           T    == {cmd \in ToSet(P.outgoing) : cmd.reliable}
           kept == Kept(P.outgoing, T)
           sent == P.sent \o P.again \o kept
           none == <<>>
           R    == AfterSending(P)
<1>1. P.outgoing \in Seq(S) /\ P.again \in Seq(S) /\ P.sent \in Seq(S)
  BY DEF ListsOK
<1>2. P.outgoing \in Seq(AnyCommands) /\ P.again \in Seq(AnyCommands) /\ P.sent \in Seq(AnyCommands)
  BY DEF PeerRec
<1>3. kept \in Seq(S) /\ kept \in Seq(AnyCommands)
  <2> HIDE DEF S, T
  <2> QED BY <1>1, <1>2, KeptProperties
<1>4. sent \in Seq(S) /\ none \in Seq(S) /\ sent \in Seq(AnyCommands) /\ none \in Seq(AnyCommands)
      /\ none \in Seq(PlainCommands)
  <2> HIDE DEF S, kept
  <2> QED BY <1>1, <1>2, <1>3
<1>5. R = [P EXCEPT !.acknowledgements = none, !.again = none, !.outgoing = none, !.sent = sent]
  BY DEF AfterSending
<1> HIDE DEF S, T, kept, sent, none, R
<1>6. /\ R \in PeerRec /\ R.state = P.state /\ R.needsDispatch = P.needsDispatch
      /\ R.address = P.address /\ R.connectID = P.connectID /\ R.seq = P.seq
      /\ R.dispatched = P.dispatched /\ R.packetArrived = P.packetArrived
      /\ R.outgoing = none /\ R.again = none /\ R.sent = sent
  BY <1>4, <1>5 DEF PeerRec
<1>7. P.state # "DISCONNECTED"
  BY DEF HasToSend
<1> QED BY <1>4, <1>6, <1>7 DEF Sent, S, R

\* G is the host H after a part of what it has was sent.
Served(h, H, G) ==
    /\ G \in HostRec(h) /\ G.randomSeed = H.randomSeed /\ G.event = H.event
    /\ \A q \in Peers(h) : Sent(h, G.peers[q], H.peers[q])
    /\ Counted(h, H) => Counted(h, G)
    /\ Queued(h, H) => Queued(h, G)

\* The commands of all peers are sent.
LEMMA AllSent ==
    ASSUME NEW h \in Hosts, NEW H \in HostRec(h), \A q \in Peers(h) : ListsOK(h, H.peers[q]),
           NEW G, G = [H EXCEPT !.peers = [p \in DOMAIN H.peers |->
                           IF HasToSend(H.peers[p]) THEN AfterSending(H.peers[p]) ELSE H.peers[p]]]
    PROVE  Served(h, H, G)
<1> DEFINE PP == [p \in DOMAIN H.peers |->
                     IF HasToSend(H.peers[p]) THEN AfterSending(H.peers[p]) ELSE H.peers[p]]
<1>1. ASSUME NEW q \in Peers(h)
      PROVE  /\ Sent(h, PP[q], H.peers[q]) /\ PP[q].state = H.peers[q].state
             /\ PP[q].needsDispatch = H.peers[q].needsDispatch
  <2>1. H.peers[q] \in PeerRec /\ ListsOK(h, H.peers[q])
    BY HostFields
  <2>2. PP[q] = IF HasToSend(H.peers[q]) THEN AfterSending(H.peers[q]) ELSE H.peers[q]
    BY HostFields
  <2> HIDE DEF PP
  <2> QED BY <2>1, <2>2, SentUnchanged, AfterSendingSent
<1>2. PP \in [Peers(h) -> PeerRec]
  <2>1. DOMAIN PP = Peers(h) /\ PP = [q \in Peers(h) |-> PP[q]]
    BY HostFields
  <2> HIDE DEF PP
  <2>2. \A q \in Peers(h) : PP[q] \in PeerRec
    BY <1>1 DEF Sent
  <2> QED BY <2>1, <2>2
<1> HIDE DEF PP
<1>3. G = [H EXCEPT !.peers = PP]
  BY DEF PP
<1>4. /\ G \in HostRec(h) /\ G.peers = PP /\ G.randomSeed = H.randomSeed /\ G.event = H.event
      /\ G.dispatchQueue = H.dispatchQueue /\ G.connectedPeers = H.connectedPeers
  BY <1>2, <1>3 DEF HostRec
<1>5. ConnectedOf(h, G) = ConnectedOf(h, H)
  BY <1>1, <1>4 DEF ConnectedOf
<1>6. {q \in Peers(h) : G.peers[q].needsDispatch} = {q \in Peers(h) : H.peers[q].needsDispatch}
  BY <1>1, <1>4
<1> QED BY <1>1, <1>4, <1>5, <1>6 DEF Served, Counted, Queued

\* A peer whose acknowledgement of a DISCONNECT was sent becomes a zombie.
LEMMA CloseServed ==
    ASSUME NEW h \in Hosts, NEW H, NEW G, Served(h, H, G), NEW p \in Peers(h),
           H.peers[p].state = "ACKNOWLEDGING_DISCONNECT"
    PROVE  Served(h, H, DispatchState(G, p, "ZOMBIE"))
<1> DEFINE F == DispatchState(G, p, "ZOMBIE")
           R == F.peers[p]
           P == G.peers[p]
<1>1. G \in HostRec(h) /\ P \in PeerRec /\ Sent(h, P, H.peers[p])
  BY HostFields DEF Served
<1>2. Local(h, G, F, p) /\ F.event = G.event /\ Dispatches(R, P, "ZOMBIE")
  <2>1. "ZOMBIE" \in States
    BY DEF States
  <2> QED BY <1>1, <2>1, DispatchStateLocal
<1> HIDE DEF F
<1>3. F \in HostRec(h) /\ R \in PeerRec
  BY <1>2, HostFields DEF Local
<1>4. Sent(h, R, H.peers[p])
  <2> HIDE DEF R, P
  <2>1. /\ R.state = "ZOMBIE" /\ R.needsDispatch /\ R.address = P.address /\ R.connectID = P.connectID
        /\ R.seq = P.seq /\ R.dispatched = P.dispatched /\ R.packetArrived = P.packetArrived
        /\ R.outgoing = P.outgoing /\ R.again = P.again /\ R.sent = P.sent
    BY <1>1, <1>2 DEF PeerRec, Dispatches
  <2> QED BY <1>1, <1>3, <2>1 DEF Sent
<1>5. ASSUME NEW q \in Peers(h) PROVE Sent(h, F.peers[q], H.peers[q])
  BY <1>2, <1>4 DEF Local, Served
<1> QED BY <1>2, <1>3, <1>5 DEF Served, Local, F

\* enet_protocol_send_outgoing_commands, by induction on the peers.
LEMMA SendAllServed ==
    ASSUME NEW h \in Hosts, NEW H \in HostRec(h), \A q \in Peers(h) : ListsOK(h, H.peers[q])
    PROVE  Served(h, H, SendAll(H))
<1> DEFINE n == Cardinality(DOMAIN H.peers)
           b == [H EXCEPT !.peers = [p \in DOMAIN H.peers |->
                     IF HasToSend(H.peers[p]) THEN AfterSending(H.peers[p]) ELSE H.peers[p]]]
           Q == {G \in HostRec(h) : Served(h, H, G)}
           Next1(G, i) == IF ClosedBySending(H.peers[i - 1]) THEN DispatchState(G, i - 1, "ZOMBIE") ELSE G
           step == [i \in 1 .. n |-> [G \in Q |-> Next1(G, i)]]
           Rule(f) == f = [i \in 0 .. n |->
                              IF i = 0 THEN b
                              ELSE IF ClosedBySending(H.peers[i - 1])
                                   THEN DispatchState(f[i - 1], i - 1, "ZOMBIE") ELSE f[i - 1]]
           Closed == CHOOSE f : Rule(f)
<1>1. n \in Nat /\ Peers(h) = 0 .. n - 1
  BY HostFields, PeersFinite DEF Peers
<1>2. \A G : G \in Q <=> Served(h, H, G)
  BY DEF Served
<1>3. b \in Q
  <2>1. Served(h, H, b)
    BY AllSent
  <2> HIDE DEF Q, b
  <2> QED BY <2>1, <1>2
<1>4. ASSUME NEW G \in Q, NEW i \in 1 .. n PROVE Next1(G, i) \in Q
  <2> HIDE DEF Q, n
  <2>1. i - 1 \in Peers(h)
    BY <1>1
  <2>2. CASE ClosedBySending(H.peers[i - 1])
    <3>1. H.peers[i - 1].state = "ACKNOWLEDGING_DISCONNECT"
      BY <2>2 DEF ClosedBySending
    <3>2. Served(h, H, DispatchState(G, i - 1, "ZOMBIE"))
      BY <2>1, <3>1, <1>2, CloseServed
    <3> QED BY <2>2, <3>2, <1>2
  <2>3. CASE ~ClosedBySending(H.peers[i - 1])
    BY <2>3
  <2> QED BY <2>2, <2>3
<1>5. step \in [1 .. n -> [Q -> Q]]
  <2> HIDE DEF Q, n, Next1
  <2> QED BY <1>4
<1>6. PICK f : Computes(f, Q, n, b, step)
  <2> HIDE DEF Q, n, b, step
  <2> QED BY <1>1, <1>3, <1>5, Recursion
<1>7. Rule(f)
  <2> HIDE DEF Q, n, b
  <2>1. f \in [0 .. n -> Q] /\ f[0] = b /\ \A i \in 1 .. n : f[i] = step[i][f[i - 1]]
    BY <1>6 DEF Computes
  <2>2. ASSUME NEW i \in 0 .. n
        PROVE  f[i] = IF i = 0 THEN b ELSE Next1(f[i - 1], i)
    <3>1. CASE i = 0
      BY <3>1, <2>1
    <3>2. CASE i # 0
      <4>1. i \in 1 .. n /\ i - 1 \in 0 .. n
        BY <3>2, <1>1
      <4>2. f[i - 1] \in Q
        BY <4>1, <2>1
      <4> HIDE DEF Next1
      <4>3. step[i][f[i - 1]] = Next1(f[i - 1], i)
        BY <4>1, <4>2
      <4> QED BY <3>2, <4>1, <4>3, <2>1
    <3> QED BY <3>1, <3>2
  <2> QED BY <2>1, <2>2
<1>8. Rule(Closed)
  <2> HIDE DEF Rule
  <2> QED BY <1>7
<1>9. SendAll(H) = Closed[n]
  BY DEF SendAll
<1> HIDE DEF Closed
<1>10. Closed[n] \in Q
  <2> DEFINE S == {i \in 0 .. n : Closed[i] \in Q}
  <2> HIDE DEF Q, n, b
  <2>1. 0 \in S
    BY <1>1, <1>3, <1>8
  <2>2. ASSUME NEW i \in 1 .. n, i - 1 \in S PROVE i \in S
    <3>1. i \in 0 .. n /\ i # 0 /\ Closed[i - 1] \in Q
      BY <1>1, <2>2
    <3>2. Closed[i] = Next1(Closed[i - 1], i)
      BY <3>1, <1>8
    <3> HIDE DEF Next1
    <3> QED BY <3>1, <3>2, <1>4
  <2> HIDE DEF S
  <2>3. 0 .. n \subseteq S
    BY <1>1, <2>1, <2>2, Induct
  <2>4. n \in S
    BY <1>1, <2>3
  <2> QED BY <2>4 DEF S
<1> QED BY <1>2, <1>9, <1>10

\* The datagrams of a host carry commands for the address they go to.
LEMMA DatagramsOK ==
    ASSUME NEW h \in Hosts, NEW H \in HostRec(h), \A q \in Peers(h) : ListsOK(h, H.peers[q])
    PROVE  \A d \in Datagrams(h, H) : DatagramOK(d)
<1> TAKE d \in Datagrams(h, H)
<1>1. PICK q \in Peers(h) : d = Datagram(h, H.peers[q])
  BY DEF Datagrams
<1> DEFINE P == H.peers[q]
           S == Commands(h, P.address)
<1>2. P \in PeerRec /\ ListsOK(h, P)
  BY HostFields
<1>3. P.acknowledgements \in Seq(PlainCommands) /\ P.address \in Hosts
  BY <1>2 DEF PeerRec
<1>4. P.acknowledgements \in Seq(S)
  <2>1. PlainCommands \subseteq S
    BY DEF Commands
  <2> HIDE DEF S
  <2> QED BY <1>3, <2>1, SeqMonotone
<1>5. P.again \in Seq(S) /\ P.outgoing \in Seq(S)
  BY <1>2 DEF ListsOK
<1>6. Waiting(P) \in Seq(S)
  <2> HIDE DEF S, P
  <2> QED BY <1>4, <1>5 DEF Waiting
<1>7. d.from = h /\ d.to = P.address /\ d.commands = Waiting(P)
  <2> HIDE DEF P
  <2>1. d = Datagram(h, P)
    BY <1>1 DEF P
  <2> QED BY <2>1 DEF Datagram
<1> QED BY <1>3, <1>6, <1>7 DEF DatagramOK

-----------------------------------------------------------------------------
(* Steps of one host *)

\* A step of one host that keeps its invariant and sends proper datagrams.
LEMMA OneHost ==
    ASSUME IInv, NEW h \in Hosts, NEW G, NEW views, HostInv(h, G, views),
           host' = [host EXCEPT ![h] = G], app' = [app EXCEPT ![h] = views],
           \A d \in net' : d \in net \/ DatagramOK(d)
    PROVE  IInv'
<1>1. DOMAIN host = Hosts /\ DOMAIN app = Hosts
  BY DEF IInv
<1>2. host' = [g \in Hosts |-> host'[g]] /\ app' = [g \in Hosts |-> app'[g]]
  BY <1>1
<1>3. ASSUME NEW g \in Hosts PROVE HostInv(g, host'[g], app'[g])
  BY <1>1 DEF IInv
<1>4. NetOK'
  BY DEF NetOK, IInv
<1> QED BY <1>2, <1>3, <1>4 DEF IInv

\* R is the peer P in a step that is not about it.
Continues(R, P) == SameIdentity(R, P) /\ Expected(P.state) \subseteq Expected(R.state)

\* A step about the peer p of a host, with an event about it perhaps.
LEMMA OnePeer ==
    ASSUME NEW h \in Hosts, NEW H, NEW views, HostInv(h, H, views), NEW p \in Peers(h),
           NEW G, HostOK(h, G), G.randomSeed = H.randomSeed,
           \A q \in Peers(h) : q # p => Continues(G.peers[q], H.peers[q]),
           SameIdentity(G.peers[p], H.peers[p]),
           NEW view, view \in Expected(G.peers[p].state)
    PROVE  HostInv(h, [G EXCEPT !.event = "NONE"], [views EXCEPT ![p] = view])
<1> DEFINE F == [G EXCEPT !.event = "NONE"]
<1>1. G \in HostRec(h) /\ H \in HostRec(h)
  BY DEF HostOK, HostInv
<1>2. /\ F \in HostRec(h) /\ F.peers = G.peers /\ F.dispatchQueue = G.dispatchQueue
      /\ F.connectedPeers = G.connectedPeers /\ F.randomSeed = G.randomSeed /\ F.event = "NONE"
  BY <1>1 DEF HostRec
<1> HIDE DEF F
<1>3. HostOK(h, F)
  <2>1. ConnectedOf(h, F) = ConnectedOf(h, G)
    BY <1>2 DEF ConnectedOf
  <2> QED BY <1>2, <2>1 DEF HostOK, Counted, Queued
<1>4. ASSUME NEW q \in Peers(h), NEW r \in Peers(h), q # r
      PROVE  ~Twins(F.peers[q], F.peers[r])
  <2>1. ~Twins(H.peers[q], H.peers[r])
    BY <1>4 DEF HostInv
  <2>2. SameIdentity(F.peers[q], H.peers[q]) /\ SameIdentity(F.peers[r], H.peers[r])
    BY <1>2 DEF Continues
  <2> QED BY <2>1, <2>2 DEF Twins, SameIdentity
<1>5. view \in Views
  BY DEF Expected, Connected, Views
<1>6. [views EXCEPT ![p] = view] \in [Peers(h) -> Views]
  BY <1>5 DEF HostInv
<1>7. ASSUME NEW q \in Peers(h)
      PROVE  [views EXCEPT ![p] = view][q] \in Expected(F.peers[q].state)
  BY <1>2 DEF HostInv, Continues
<1>8. F.event = "NONE" /\ F.randomSeed <= MaxConnects
  BY <1>2 DEF HostInv
<1>9. HostInv(h, F, [views EXCEPT ![p] = view])
  BY <1>3, <1>4, <1>6, <1>7, <1>8 DEF HostInv
<1> QED BY <1>9 DEF F

\* A step of the service without a choice of peer, such as sending.
LEMMA ServedInv ==
    ASSUME NEW h \in Hosts, NEW H, NEW views, HostInv(h, H, views), NEW G, Served(h, H, G)
    PROVE  HostInv(h, G, views)
<1>1. H \in HostRec(h) /\ HostOK(h, H) /\ G \in HostRec(h)
  BY DEF HostOK, HostInv, Served
<1>2. ASSUME NEW q \in Peers(h)
      PROVE  /\ PeerOK(h, G.peers[q], H.randomSeed) /\ SameIdentity(G.peers[q], H.peers[q])
             /\ Expected(H.peers[q].state) \subseteq Expected(G.peers[q].state)
  BY <1>1, SentOK DEF HostOK, Served
<1>3. HostOK(h, G)
  BY <1>1, <1>2 DEF HostOK, Served
<1>4. ASSUME NEW q \in Peers(h), NEW r \in Peers(h), q # r
      PROVE  ~Twins(G.peers[q], G.peers[r])
  <2>1. ~Twins(H.peers[q], H.peers[r])
    BY <1>4 DEF HostInv
  <2>2. SameIdentity(G.peers[q], H.peers[q]) /\ SameIdentity(G.peers[r], H.peers[r])
    BY <1>2
  <2> QED BY <2>1, <2>2 DEF Twins, SameIdentity
<1> QED BY <1>2, <1>3, <1>4 DEF HostInv, Served

\* Between two actions a host can handle a datagram for any of its peers.
LEMMA HandlingOf ==
    ASSUME NEW h \in Hosts, NEW H, NEW views, HostInv(h, H, views), NEW p \in Peers(h)
    PROVE  /\ Handling(h, H, p, views[p]) /\ H.event = "NONE"
           /\ H \in HostRec(h) /\ H.peers[p] \in PeerRec /\ PeerOK(h, H.peers[p], H.randomSeed)
           /\ H.peers[p].state \in States
           /\ views[p] \in Expected(H.peers[p].state) /\ views = [views EXCEPT ![p] = views[p]]
<1>1. HostOK(h, H) /\ H.event = "NONE" /\ views[p] \in Expected(H.peers[p].state)
  BY DEF HostInv
<1>2. Seen(views[p], "NONE") = views[p]
  BY DEF Seen
<1>3. Handling(h, H, p, views[p])
  BY <1>1, <1>2 DEF Handling, EventOK
<1> QED BY <1>1, <1>3, PeerOfHost DEF HostInv

\* A handled datagram keeps the invariant, the event returned to the application.
LEMMA HandledInv ==
    ASSUME NEW h \in Hosts, NEW H, NEW views, HostInv(h, H, views), NEW p \in Peers(h),
           NEW G, Handled(h, H, G, p, views[p])
    PROVE  HostInv(h, [G EXCEPT !.event = "NONE"], [views EXCEPT ![p] = Seen(views[p], G.event)])
<1> DEFINE view == Seen(views[p], G.event)
<1>1. /\ HostOK(h, G) /\ view \in Expected(G.peers[p].state) /\ G.randomSeed = H.randomSeed
      /\ \A q \in Peers(h) : q # p => G.peers[q] = H.peers[q]
      /\ SameIdentity(G.peers[p], H.peers[p])
  BY DEF Handled, Handling
<1> HIDE DEF view
<1>2. \A q \in Peers(h) : q # p => Continues(G.peers[q], H.peers[q])
  BY <1>1 DEF Continues, SameIdentity
<1>3. HostInv(h, [G EXCEPT !.event = "NONE"], [views EXCEPT ![p] = view])
  BY <1>1, <1>2, OnePeer
<1> QED BY <1>3 DEF view

\* A host without an event.
LEMMA SameEvent ==
    ASSUME NEW h \in Hosts, NEW G \in HostRec(h), G.event = "NONE"
    PROVE  [G EXCEPT !.event = "NONE"] = G
BY DEF HostRec

\* A step of the service that handles a peer keeps the invariant.
LEMMA BecomesInv ==
    ASSUME IInv, NEW h \in Hosts, NEW p \in Peers(h),
           NEW G, Handled(h, host[h], G, p, app[h][p]), Becomes(h, G, p), net' = net
    PROVE  IInv'
<1> DEFINE views == app[h]
           after == [views EXCEPT ![p] = Seen(views[p], G.event)]
           F == [G EXCEPT !.event = "NONE"]
<1>1. HostInv(h, host[h], views)
  BY DEF IInv
<1>2. HostInv(h, F, after)
  <2> HIDE DEF views
  <2>1. Handled(h, host[h], G, p, views[p])
    BY DEF views
  <2> QED BY <1>1, <2>1, HandledInv
<1>3. host' = [host EXCEPT ![h] = F] /\ app' = [app EXCEPT ![h] = after]
  BY DEF Becomes
<1> HIDE DEF F, after
<1> QED BY <1>2, <1>3, OneHost

\* What the application knows after a call on the peer p.
LEMMA CalledInv ==
    ASSUME IInv, NEW h \in Hosts, NEW p \in Peers(h), NEW G, HostOK(h, G), G.event = "NONE",
           G.randomSeed = host[h].randomSeed,
           \A q \in Peers(h) : q # p => Continues(G.peers[q], host[h].peers[q]),
           SameIdentity(G.peers[p], host[h].peers[p]),
           G.peers[p].state = "DISCONNECTED" \/ app[h][p] \in Expected(G.peers[p].state),
           NEW call, Called(call, h, G, p),
           \A d \in net' : d \in net \/ DatagramOK(d)
    PROVE  IInv'
<1> DEFINE H == host[h]
           views == app[h]
           view == IF G.peers[p].state = "DISCONNECTED" THEN "unknown" ELSE views[p]
           after == [views EXCEPT ![p] = view]
<1>1. HostInv(h, H, views)
  BY DEF IInv
<1>2. view \in Expected(G.peers[p].state)
  <2>1. "unknown" \in Expected("DISCONNECTED")
    BY DEF Expected, Connected
  <2> QED BY <2>1
<1>3. SameIdentity(G.peers[p], H.peers[p])
  OBVIOUS
<1>4. [G EXCEPT !.event = "NONE"] = G
  BY SameEvent DEF HostOK
<1>5. HostInv(h, G, after)
  <2> HIDE DEF view, views, H
  <2>1. \A q \in Peers(h) : q # p => Continues(G.peers[q], H.peers[q])
    BY DEF H
  <2>2. G.randomSeed = H.randomSeed
    BY DEF H
  <2>3. HostInv(h, [G EXCEPT !.event = "NONE"], after)
    BY <1>1, <1>2, <1>3, <2>1, <2>2, OnePeer
  <2> QED BY <1>4, <2>3
<1>6. host' = [host EXCEPT ![h] = G] /\ app' = [app EXCEPT ![h] = after]
  BY DEF Called
<1> HIDE DEF after
<1> QED BY <1>5, <1>6, OneHost

\* Leaving at once: the DISCONNECT is sent with all that waits, and the peer reset.
LEMMA LeavingInv ==
    ASSUME IInv, NEW h \in Hosts, NEW p \in Peers(h), NEW reliable \in BOOLEAN,
           NEW F, F = Queue(ResetQueues(host[h], p), p, "DISCONNECT", reliable),
           NEW call, Called(call, h, Reset(SendAll(F), p), p), net' = net \cup Datagrams(h, F)
    PROVE  IInv'
<1> DEFINE H == host[h]
           E == SendAll(F)
           G == Reset(E, p)
<1>1. HostInv(h, H, app[h])
  BY DEF IInv
<1>2. /\ H \in HostRec(h) /\ HostOK(h, H) /\ H.event = "NONE"
      /\ \A q \in Peers(h) : PeerOK(h, H.peers[q], H.randomSeed)
  BY <1>1 DEF HostInv, HostOK
<1>3. Local(h, H, F, p) /\ F.event = H.event /\ Quits(h, F.peers[p], H.peers[p])
  <2> HIDE DEF H
  <2>1. F = Queue(ResetQueues(H, p), p, "DISCONNECT", reliable)
    BY DEF H
  <2> QED BY <1>2, <2>1, QuitLocal
<1>4. F \in HostRec(h) /\ \A q \in Peers(h) : q # p => F.peers[q] = H.peers[q]
  BY <1>3 DEF Local
<1>5. ASSUME NEW q \in Peers(h) PROVE ListsOK(h, F.peers[q])
  <2>1. CASE q # p
    BY <2>1, <1>2, <1>4 DEF PeerOK, PeerBase
  <2>2. CASE q = p
    <3> DEFINE S == Commands(h, F.peers[p].address)
    <3>1. <<>> \in Seq(S)
      OBVIOUS
    <3>2. F.peers[p].outgoing \in Seq(S) /\ F.peers[p].again = <<>> /\ F.peers[p].sent = <<>>
      BY <1>3 DEF Quits
    <3>3. F.peers[p].again \in Seq(S) /\ F.peers[p].sent \in Seq(S)
      <4> HIDE DEF S
      <4> QED BY <3>1, <3>2
    <3> QED BY <2>2, <3>2, <3>3 DEF ListsOK
  <2> QED BY <2>1, <2>2
<1>6. Served(h, F, E)
  BY <1>4, <1>5, SendAllServed
<1>7. \A d \in Datagrams(h, F) : DatagramOK(d)
  BY <1>4, <1>5, DatagramsOK
<1> HIDE DEF E
<1>8. E \in HostRec(h)
  BY <1>6 DEF Served
<1>9. Local(h, E, G, p) /\ G.event = E.event /\ Blank(G.peers[p], E.peers[p])
  BY <1>8, ResetLocal
<1> HIDE DEF G
<1>10. G.peers[p].state = "DISCONNECTED" /\ SameIdentity(G.peers[p], H.peers[p])
       /\ PeerOK(h, G.peers[p], H.randomSeed)
  <2>1. /\ E.peers[p].address = H.peers[p].address /\ E.peers[p].connectID = H.peers[p].connectID
        /\ E.peers[p].state = "CONNECTING" => H.peers[p].state = "CONNECTING"
    <3>1. /\ F.peers[p].state = H.peers[p].state /\ F.peers[p].address = H.peers[p].address
          /\ F.peers[p].connectID = H.peers[p].connectID
      BY <1>3 DEF Quits
    <3>2. Sent(h, E.peers[p], F.peers[p])
      BY <1>6 DEF Served
    <3>3. /\ E.peers[p].address = F.peers[p].address /\ E.peers[p].connectID = F.peers[p].connectID
          /\ E.peers[p].state = "CONNECTING" => F.peers[p].state = "CONNECTING"
      BY <3>2 DEF Sent
    <3> QED BY <3>1, <3>3
  <2>2. IdentityOK(h, E.peers[p], H.randomSeed)
    BY <1>2, <2>1 DEF PeerOK, PeerBase, IdentityOK
  <2>3. PeerOK(h, G.peers[p], H.randomSeed) /\ SameIdentity(G.peers[p], E.peers[p])
    BY <1>9, <2>2, BlankOK
  <2>4. G.peers[p].state = "DISCONNECTED"
    BY <1>9 DEF Blank
  <2> QED BY <2>1, <2>3, <2>4 DEF SameIdentity
<1>11. ASSUME NEW q \in Peers(h), q # p
       PROVE  PeerOK(h, G.peers[q], H.randomSeed) /\ Continues(G.peers[q], H.peers[q])
  <2>1. Sent(h, G.peers[q], H.peers[q])
    BY <1>4, <1>6, <1>9, <1>11 DEF Served, Local
  <2> QED BY <1>2, <2>1, SentOK DEF Continues
<1>12. /\ G \in HostRec(h) /\ G.randomSeed = H.randomSeed /\ G.event = "NONE"
       /\ Counted(h, G) /\ Queued(h, G)
  BY <1>2, <1>3, <1>6, <1>9 DEF HostOK, Local, Served
<1>13. HostOK(h, G)
  BY <1>10, <1>11, <1>12 DEF HostOK
<1>14. Called(call, h, G, p)
  BY DEF G, E
<1>15. \A d \in net' : d \in net \/ DatagramOK(d)
  BY <1>7
<1>16. \A q \in Peers(h) : q # p => Continues(G.peers[q], host[h].peers[q])
  BY <1>11
<1> QED BY <1>10, <1>12, <1>13, <1>14, <1>15, <1>16, CalledInv

\* A call that does what a handler may do keeps the invariant.
LEMMA HandledCalled ==
    ASSUME IInv, NEW h \in Hosts, NEW p \in Peers(h),
           NEW G, Handled(h, host[h], G, p, app[h][p]), G.event = "NONE",
           NEW call, Called(call, h, G, p), net' = net
    PROVE  IInv'
<1>1. /\ HostOK(h, G) /\ Seen(app[h][p], G.event) \in Expected(G.peers[p].state)
      /\ G.randomSeed = host[h].randomSeed
      /\ \A q \in Peers(h) : q # p => G.peers[q] = host[h].peers[q]
      /\ SameIdentity(G.peers[p], host[h].peers[p])
  BY DEF Handled, Handling
<1>2. \A q \in Peers(h) : q # p => Continues(G.peers[q], host[h].peers[q])
  BY <1>1 DEF Continues, SameIdentity
<1>3. app[h][p] \in Expected(G.peers[p].state)
  BY <1>1 DEF Seen
<1> QED BY <1>1, <1>2, <1>3, CalledInv

\* A call that resets the peer at once keeps the invariant.
LEMMA ResetCalled ==
    ASSUME IInv, NEW h \in Hosts, NEW p \in Peers(h),
           NEW call, Called(call, h, Reset(host[h], p), p), net' = net
    PROVE  IInv'
<1> DEFINE H == host[h]
           G == Reset(H, p)
<1>1. HostInv(h, H, app[h])
  BY DEF IInv
<1>2. H \in HostRec(h) /\ HostOK(h, H) /\ H.event = "NONE" /\ PeerOK(h, H.peers[p], H.randomSeed)
  BY <1>1 DEF HostInv, HostOK
<1>3. Local(h, H, G, p) /\ G.event = H.event /\ Blank(G.peers[p], H.peers[p])
  <2> HIDE DEF H
  <2> QED BY <1>2, ResetLocal
<1> HIDE DEF G
<1>4. PeerOK(h, G.peers[p], H.randomSeed) /\ SameIdentity(G.peers[p], H.peers[p])
  <2>1. IdentityOK(h, H.peers[p], H.randomSeed)
    BY <1>2 DEF PeerOK, PeerBase
  <2> QED BY <1>3, <2>1, BlankOK
<1>5. HostOK(h, G)
  BY <1>2, <1>3, <1>4, HostKept
<1>6. /\ G.peers[p].state = "DISCONNECTED" /\ G.randomSeed = H.randomSeed
      /\ \A q \in Peers(h) : q # p => Continues(G.peers[q], H.peers[q])
  BY <1>3 DEF Blank, Local, Continues, SameIdentity
<1>7. Called(call, h, G, p)
  BY DEF G
<1>8. \A d \in net' : d \in net
  OBVIOUS
<1> QED BY <1>2, <1>3, <1>4, <1>5, <1>6, <1>7, <1>8, CalledInv

\* A connected peer is disconnecting after the request.
LEMMA RequestedState ==
    ASSUME NEW h \in Hosts, NEW H, NEW views, HostInv(h, H, views), NEW p \in Peers(h),
           H.peers[p].state \in Connected
    PROVE  RequestDisconnect(H, p).peers[p].state = "DISCONNECTING"
<1> DEFINE F == Queue(ResetQueues(H, p), p, "DISCONNECT", TRUE)
           G == RequestDisconnect(H, p)
<1>1. H \in HostRec(h)
  BY DEF HostInv, HostOK
<1>2. G = ChangeState(F, p, "DISCONNECTING")
  BY DEF RequestDisconnect
<1>3. Local(h, H, F, p)
  BY <1>1, QuitLocal
<1> HIDE DEF F
<1>4. F \in HostRec(h) /\ "DISCONNECTING" \in States
  BY <1>3 DEF Local, States
<1>5. F.peers[p] \in PeerRec /\ Changes(G.peers[p], F.peers[p], "DISCONNECTING")
  BY <1>2, <1>4, ChangeStateLocal, HostFields
<1> HIDE DEF G
<1>6. G.peers[p].state = "DISCONNECTING"
  BY <1>4, <1>5, ChangesFields
<1> QED BY <1>6 DEF G

-----------------------------------------------------------------------------
(* The actions *)

\* enet_host_connect
LEMMA ConnectStep ==
    ASSUME IInv, NEW h \in Hosts, NEW address \in Hosts, Connect(h, address)
    PROVE  IInv'
<1> DEFINE H  == host[h]
           p  == Min(Free(H))
           id == ConnectID(h, H.randomSeed + 1)
           m  == Handshake("CONNECT", 1, id, p, H.peers[p].incomingSessionID,
                           H.peers[p].outgoingSessionID)
           G  == [H EXCEPT !.randomSeed = @ + 1, !.peers[p] =
                    [@ EXCEPT !.state = "CONNECTING", !.address = address, !.connectID = id, !.seq = 1,
                              !.outgoing = <<m>>]]
           views == app[h]
           after == [views EXCEPT ![p] = "connecting"]
<1>1. HostInv(h, H, views)
  BY DEF IInv
<1>2. /\ address # h /\ Free(H) # {} /\ H.randomSeed < MaxConnects
      /\ host' = [host EXCEPT ![h] = G]
      /\ app' = [app EXCEPT ![h] = after] /\ net' = net
  BY DEF Connect
<1> HIDE DEF views
<1>3. HostInv(h, G, after)
  <2> HIDE DEF H
  <2>1. address # h /\ Free(H) # {} /\ H.randomSeed < MaxConnects
    BY <1>2
  <2> HIDE DEF p, id, m, G
  <2> QED BY <1>1, <2>1, ConnectInv DEF p, id, m, G
<1> HIDE DEF G, after
<1> QED BY <1>2, <1>3, OneHost

\* enet_peer_disconnect
LEMMA DisconnectStep ==
    ASSUME IInv, NEW h \in Hosts, NEW p \in Peers(h), Disconnect(h, p)
    PROVE  IInv'
<1> DEFINE H == host[h]
           G == RequestDisconnect(H, p)
<1>1. HostInv(h, H, app[h])
  BY DEF IInv
<1>2. Handling(h, H, p, app[h][p]) /\ H.event = "NONE"
  BY <1>1, HandlingOf
<1>3. CASE H.peers[p].state \in Connected
  <2>1. Called("disconnect", h, G, p) /\ net' = net
    BY <1>3 DEF Disconnect
  <2>2. Handled(h, H, G, p, app[h][p])
    <3> HIDE DEF H
    <3> QED BY <1>2, <1>3, RequestDisconnectHandled
  <2>3. G.event = "NONE"
    <3>1. G.peers[p].state = "DISCONNECTING"
      BY <1>1, <1>3, RequestedState
    <3> QED BY <2>2, <3>1 DEF Handled, Handling, EventOK
  <2> HIDE DEF G
  <2> QED BY <2>1, <2>2, <2>3, HandledCalled
<1>4. CASE H.peers[p].state \notin Connected
  <2>1. G = Queue(ResetQueues(H, p), p, "DISCONNECT", FALSE)
    <3>1. (H.peers[p].state \in Connected) = FALSE
      BY <1>4
    <3> QED BY <3>1 DEF RequestDisconnect
  <2>2. Called("disconnect", h, Reset(SendAll(G), p), p) /\ net' = net \cup Datagrams(h, G)
    BY <1>4 DEF Disconnect
  <2> HIDE DEF G
  <2> QED BY <2>1, <2>2, LeavingInv
<1> QED BY <1>3, <1>4

\* enet_peer_disconnect_now
LEMMA DisconnectNowStep ==
    ASSUME IInv, NEW h \in Hosts, NEW p \in Peers(h), DisconnectNow(h, p)
    PROVE  IInv'
<1> DEFINE H == host[h]
           G == Queue(ResetQueues(H, p), p, "DISCONNECT", FALSE)
<1>1. CASE H.peers[p].state \in {"ZOMBIE", "DISCONNECTING"}
  <2>1. Called("now", h, Reset(H, p), p) /\ net' = net
    BY <1>1 DEF DisconnectNow
  <2> QED BY <2>1, ResetCalled
<1>2. CASE H.peers[p].state \notin {"ZOMBIE", "DISCONNECTING"}
  <2>1. Called("now", h, Reset(SendAll(G), p), p) /\ net' = net \cup Datagrams(h, G)
    BY <1>2 DEF DisconnectNow
  <2> HIDE DEF G
  <2> QED BY <2>1, LeavingInv DEF G
<1> QED BY <1>1, <1>2

\* enet_peer_reset called by the application
LEMMA ResetPeerStep ==
    ASSUME IInv, NEW h \in Hosts, NEW p \in Peers(h), ResetPeer(h, p)
    PROVE  IInv'
<1>1. Called("reset", h, Reset(host[h], p), p) /\ net' = net
  BY DEF ResetPeer
<1> QED BY <1>1, ResetCalled

\* enet_peer_disconnect_later
LEMMA DisconnectLaterStep ==
    ASSUME IInv, NEW h \in Hosts, NEW p \in Peers(h), DisconnectLater(h, p)
    PROVE  IInv'
<1> DEFINE H == host[h]
           P == H.peers[p]
           R == [P EXCEPT !.state = "DISCONNECT_LATER"]
           G == [H EXCEPT !.peers[p].state = "DISCONNECT_LATER"]
<1>1. HostInv(h, H, app[h])
  BY DEF IInv
<1>2. /\ Handling(h, H, p, app[h][p]) /\ H.event = "NONE"
      /\ H \in HostRec(h) /\ P \in PeerRec /\ PeerOK(h, P, H.randomSeed)
      /\ app[h][p] \in Expected(P.state)
  BY <1>1, HandlingOf
<1>3. P.state \in Connected /\ Called("later", h, G, p) /\ net' = net
  BY DEF DisconnectLater
<1>4. Changes(R, P, "DISCONNECT_LATER") /\ "DISCONNECT_LATER" \in States /\ R \in PeerRec
  <2>1. "DISCONNECT_LATER" \in States
    BY DEF States
  <2> HIDE DEF P
  <2> QED BY <1>2, <2>1 DEF Changes, PeerRec
<1>5. /\ R.state = "DISCONNECT_LATER" /\ R.address = P.address /\ R.connectID = P.connectID
      /\ R.seq = P.seq /\ R.dispatched = P.dispatched /\ R.packetArrived = P.packetArrived
      /\ R.needsDispatch = P.needsDispatch /\ R.outgoing = P.outgoing
      /\ R.again = P.again /\ R.sent = P.sent
  <2> HIDE DEF P, R
  <2> QED BY <1>2, <1>4, ChangesFields
<1>6. Sets(G, H, p, R)
  BY DEF Sets
<1> HIDE DEF R, G
<1>7. Local(h, H, G, p) /\ G.peers[p] = R /\ G.event = H.event
  <2>1. R.state \in Connected <=> P.state \in Connected
    BY <1>3, <1>5 DEF Connected
  <2> HIDE DEF H
  <2> QED BY <1>2, <1>4, <1>5, <1>6, <2>1, SetPeer
<1> HIDE DEF P
<1>8. PeerOK(h, R, H.randomSeed) /\ SameIdentity(R, P)
  <2>1. ListsOK(h, R) /\ IdentityOK(h, R, H.randomSeed)
    BY <1>2, <1>3, <1>5 DEF ListsOK, IdentityOK, PeerOK, PeerBase, Connected
  <2>2. NumbersOK(R) /\ ~ToReport(R)
    BY <1>2, <1>3, <1>5 DEF NumbersOK, ToReport, PeerOK, PeerBase, Connected, Closing
  <2> QED BY <1>5, <1>3, <2>1, <2>2 DEF PeerOK, PeerBase, SameIdentity, Connected
<1>9. Handled(h, H, G, p, app[h][p])
  <2>1. EventOK(G, p) /\ G.event = "NONE"
    BY <1>2, <1>7 DEF EventOK
  <2>2. Seen(app[h][p], G.event) \in Expected(R.state)
    <3>1. Seen(app[h][p], G.event) = app[h][p]
      BY <2>1 DEF Seen
    <3>2. Expected(P.state) = Expected("DISCONNECT_LATER")
      BY <1>3 DEF Expected, Connected
    <3> QED BY <1>2, <1>5, <3>1, <3>2
  <2>3. HostOK(h, H)
    BY <1>2 DEF Handling
  <2> QED BY <1>7, <1>8, <2>1, <2>2, <2>3, HandledBy DEF P
<1> QED BY <1>2, <1>3, <1>7, <1>9, HandledCalled

\* Changes of a peer that leave its state alone.
LEMMA KeepsStateHandled ==
    ASSUME NEW h \in Hosts, NEW H, NEW p \in Peers(h), NEW view, Handling(h, H, p, view),
           NEW R \in PeerRec, R.state = H.peers[p].state,
           R.needsDispatch = H.peers[p].needsDispatch,
           PeerOK(h, R, H.randomSeed), SameIdentity(R, H.peers[p]),
           NEW G, Sets(G, H, p, R)
    PROVE  Handled(h, H, G, p, view) /\ G.peers[p] = R /\ G.event = H.event
<1>1. HostOK(h, H) /\ EventOK(H, p) /\ Seen(view, H.event) \in Expected(H.peers[p].state)
  BY DEF Handling
<1>2. Local(h, H, G, p) /\ G.peers[p] = R /\ G.event = H.event
  BY <1>1, SetPeer DEF HostOK
<1>3. EventOK(G, p) /\ Seen(view, G.event) \in Expected(G.peers[p].state)
  BY <1>1, <1>2 DEF EventOK
<1> QED BY <1>1, <1>2, <1>3, HandledBy

\* enet_peer_send
LEMMA SendPacketStep ==
    ASSUME IInv, NEW h \in Hosts, NEW p \in Peers(h), SendPacket(h, p)
    PROVE  IInv'
<1> DEFINE H == host[h]
           P == H.peers[p]
           m == Command("SEND_RELIABLE", "data", 1, TRUE)
           s == Append(P.outgoing, m)
           R == [P EXCEPT !.packetSent = TRUE, !.outgoing = s]
           G == [H EXCEPT !.peers[p].packetSent = TRUE, !.peers[p].outgoing =
                              Append(@, Command("SEND_RELIABLE", "data", 1, TRUE))]
<1>1. HostInv(h, H, app[h])
  BY DEF IInv
<1>2. /\ Handling(h, H, p, app[h][p]) /\ H.event = "NONE"
      /\ H \in HostRec(h) /\ P \in PeerRec /\ PeerOK(h, P, H.randomSeed)
  BY <1>1, HandlingOf
<1>3. P.state = "CONNECTED" /\ Called("send", h, G, p) /\ net' = net
  BY DEF SendPacket
<1>4. m \in PlainCommands
  BY DEF Command, PlainCommands
<1>5. s \in Seq(AnyCommands) /\ s \in Seq(Commands(h, P.address))
  <2>1. m \in AnyCommands /\ m \in Commands(h, P.address)
    BY <1>4 DEF AnyCommands, Commands
  <2>2. P.outgoing \in Seq(AnyCommands) /\ P.outgoing \in Seq(Commands(h, P.address))
    BY <1>2 DEF PeerRec, PeerOK, PeerBase, ListsOK
  <2> HIDE DEF m, P
  <2> QED BY <2>1, <2>2
<1>6. Sets(G, H, p, R)
  BY DEF Sets
<1>7. /\ R \in PeerRec
      /\ R.state = P.state /\ R.address = P.address /\ R.connectID = P.connectID
      /\ R.seq = P.seq /\ R.dispatched = P.dispatched /\ R.packetArrived = P.packetArrived
      /\ R.needsDispatch = P.needsDispatch /\ R.outgoing = s
      /\ R.again = P.again /\ R.sent = P.sent
  <2> HIDE DEF P, s
  <2> QED BY <1>2, <1>5 DEF PeerRec
<1> HIDE DEF R, s, m, G
<1>8. PeerOK(h, R, H.randomSeed) /\ SameIdentity(R, P)
  <2> HIDE DEF P
  <2>1. ListsOK(h, R)
    BY <1>2, <1>5, <1>7 DEF ListsOK, PeerOK, PeerBase
  <2>2. IdentityOK(h, R, H.randomSeed) /\ NumbersOK(R)
    BY <1>2, <1>7 DEF NumbersOK, IdentityOK, PeerOK, PeerBase
  <2>3. ToReport(R) => R.needsDispatch
    BY <1>2, <1>7 DEF ToReport, PeerOK
  <2> QED BY <1>7, <2>1, <2>2, <2>3 DEF PeerOK, PeerBase, SameIdentity
<1>9. Handled(h, H, G, p, app[h][p]) /\ G.event = H.event
  <2> HIDE DEF H
  <2> QED BY <1>2, <1>6, <1>7, <1>8, KeepsStateHandled
<1> QED BY <1>2, <1>3, <1>9, HandledCalled

\* enet_peer_receive
LEMMA ReceivePacketStep ==
    ASSUME IInv, NEW h \in Hosts, NEW p \in Peers(h), ReceivePacket(h, p)
    PROVE  IInv'
<1> DEFINE H == host[h]
           P == H.peers[p]
           n == P.dispatched - 1
           R == [P EXCEPT !.dispatched = n]
           G == [H EXCEPT !.peers[p].dispatched = @ - 1]
<1>1. HostInv(h, H, app[h])
  BY DEF IInv
<1>2. /\ Handling(h, H, p, app[h][p]) /\ H.event = "NONE"
      /\ H \in HostRec(h) /\ P \in PeerRec /\ PeerOK(h, P, H.randomSeed)
  BY <1>1, HandlingOf
<1>3. P.dispatched > 0 /\ Called("receive", h, G, p) /\ net' = net
  BY DEF ReceivePacket
<1>4. P.dispatched = 1 /\ n = 0
  <2>1. P.dispatched \in Nat /\ P.dispatched <= 1
    BY <1>2 DEF PeerRec, PeerOK, PeerBase, NumbersOK
  <2> QED BY <1>3, <2>1
<1>5. Sets(G, H, p, R)
  BY DEF Sets
<1>6. /\ R \in PeerRec
      /\ R.state = P.state /\ R.address = P.address /\ R.connectID = P.connectID
      /\ R.seq = P.seq /\ R.dispatched = n /\ R.packetArrived = P.packetArrived
      /\ R.needsDispatch = P.needsDispatch /\ R.outgoing = P.outgoing
      /\ R.again = P.again /\ R.sent = P.sent
  <2>1. n \in Nat
    BY <1>4
  <2> HIDE DEF P, n
  <2> QED BY <1>2, <2>1 DEF PeerRec
<1> HIDE DEF R, n, G
<1>7. PeerOK(h, R, H.randomSeed) /\ SameIdentity(R, P)
  <2> HIDE DEF P
  <2>1. ListsOK(h, R) /\ IdentityOK(h, R, H.randomSeed)
    BY <1>2, <1>6 DEF ListsOK, IdentityOK, PeerOK, PeerBase
  <2>2. NumbersOK(R)
    BY <1>2, <1>4, <1>6 DEF NumbersOK, PeerOK, PeerBase
  <2>3. ToReport(R) => R.needsDispatch
    BY <1>2, <1>4, <1>6 DEF ToReport, PeerOK
  <2> QED BY <1>6, <2>1, <2>2, <2>3 DEF PeerOK, PeerBase, SameIdentity
<1>8. Handled(h, H, G, p, app[h][p]) /\ G.event = H.event
  <2> HIDE DEF H
  <2> QED BY <1>2, <1>5, <1>6, <1>7, KeepsStateHandled
<1> QED BY <1>2, <1>3, <1>8, HandledCalled

\* enet_peer_ping
LEMMA PingStep ==
    ASSUME IInv, NEW h \in Hosts, NEW p \in Peers(h), Ping(h, p)
    PROVE  IInv'
<1> DEFINE H == host[h]
           P == H.peers[p]
           G == Queue(H, p, "PING", TRUE)
           R == G.peers[p]
           m == Command("PING", "control", P.seq + 1, TRUE)
           views == app[h]
<1>1. HostInv(h, H, views)
  BY DEF IInv
<1>2. /\ Handling(h, H, p, views[p]) /\ H.event = "NONE" /\ HostOK(h, H)
      /\ H \in HostRec(h) /\ P \in PeerRec /\ PeerOK(h, P, H.randomSeed)
      /\ views[p] \in Expected(P.state) /\ views = [views EXCEPT ![p] = views[p]]
  BY <1>1, HandlingOf DEF Handling
<1>3. /\ P.state = "CONNECTED" /\ P.seq <= MaxPings
      /\ host' = [host EXCEPT ![h] = G] /\ app' = app /\ net' = net
  BY DEF Ping
<1>4. Local(h, H, G, p) /\ G.event = H.event /\ m \in PlainCommands /\ Queues(R, P, m)
  <2> DEFINE type     == "PING"
             reliable == TRUE
  <2>1. type \in {"DISCONNECT", "PING"} /\ reliable \in BOOLEAN
    OBVIOUS
  <2>2. G = Queue(H, p, type, reliable) /\ m = Command(type, "control", P.seq + 1, reliable)
    OBVIOUS
  <2> HIDE DEF type, reliable, H, G, m
  <2> QED BY <1>2, <2>1, <2>2, QueueLocal DEF H
<1> HIDE DEF G
<1>5. R \in PeerRec
  BY <1>4, HostFields DEF Local
<1> HIDE DEF R, m
<1>6. /\ R.state = P.state /\ R.address = P.address /\ R.connectID = P.connectID
      /\ R.seq = P.seq + 1 /\ R.dispatched = P.dispatched /\ R.packetArrived = P.packetArrived
      /\ R.needsDispatch = P.needsDispatch /\ R.outgoing = Append(P.outgoing, m)
      /\ R.again = P.again /\ R.sent = P.sent
  <2> DEFINE n == P.seq + 1
             s == Append(P.outgoing, m)
  <2>1. R = [P EXCEPT !.seq = n, !.outgoing = s]
    BY <1>4 DEF Queues
  <2> HIDE DEF P, n, s
  <2>2. /\ R.state = P.state /\ R.address = P.address /\ R.connectID = P.connectID
        /\ R.seq = n /\ R.dispatched = P.dispatched /\ R.packetArrived = P.packetArrived
        /\ R.needsDispatch = P.needsDispatch /\ R.outgoing = s
        /\ R.again = P.again /\ R.sent = P.sent
    BY <1>2, <2>1 DEF PeerRec
  <2> QED BY <2>2 DEF n, s
<1>7. PeerOK(h, R, H.randomSeed) /\ SameIdentity(R, P)
  <2> HIDE DEF P, H
  <2>1. R.outgoing \in Seq(Commands(h, P.address))
    <3>1. m \in Commands(h, P.address) /\ P.outgoing \in Seq(Commands(h, P.address))
      BY <1>2, <1>4 DEF Commands, PeerOK, PeerBase, ListsOK
    <3> QED BY <1>6, <3>1
  <2>2. ListsOK(h, R) /\ IdentityOK(h, R, H.randomSeed)
    BY <1>2, <1>6, <2>1 DEF ListsOK, IdentityOK, PeerOK, PeerBase
  <2>3. NumbersOK(R)
    <3>1. P.seq \in Nat /\ MaxPings \in Nat
      BY <1>2, ConstantsAssumption DEF PeerRec
    <3> QED BY <1>2, <1>3, <1>6, <3>1 DEF NumbersOK, PeerOK, PeerBase, P, H
  <2>4. ToReport(R) => R.needsDispatch
    BY <1>2, <1>6 DEF ToReport, PeerOK
  <2> QED BY <1>6, <2>2, <2>3, <2>4 DEF PeerOK, PeerBase, SameIdentity
<1>8. HostOK(h, G) /\ G \in HostRec(h)
  BY <1>2, <1>4, <1>7, HostKept DEF R, Local
<1>9. HostInv(h, [G EXCEPT !.event = "NONE"], [views EXCEPT ![p] = views[p]])
  <2> DEFINE view == views[p]
  <2>1. view \in Expected(G.peers[p].state)
    BY <1>2, <1>6 DEF R
  <2>2. \A q \in Peers(h) : q # p => Continues(G.peers[q], H.peers[q])
    BY <1>4 DEF Local, Continues, SameIdentity
  <2>3. G.randomSeed = H.randomSeed /\ SameIdentity(G.peers[p], H.peers[p])
    BY <1>4, <1>7 DEF Local, R
  <2> HIDE DEF view, views, H
  <2> SUFFICES HostInv(h, [G EXCEPT !.event = "NONE"], [views EXCEPT ![p] = view])
    BY DEF view
  <2> QED BY <1>1, <1>8, <2>1, <2>2, <2>3, OnePeer
<1>10. HostInv(h, G, views)
  <2>1. [G EXCEPT !.event = "NONE"] = G
    BY <1>2, <1>4, <1>8, SameEvent
  <2> QED BY <1>2, <1>9, <2>1
<1>11. app' = [app EXCEPT ![h] = views]
  BY <1>3 DEF IInv
<1> HIDE DEF views
<1> QED BY <1>3, <1>10, <1>11, OneHost

\* enet_protocol_send_outgoing_commands
LEMMA SendOutgoingStep ==
    ASSUME IInv, NEW h \in Hosts, SendOutgoing(h)
    PROVE  IInv'
<1> DEFINE H == host[h]
           G == SendAll(H)
           views == app[h]
<1>1. HostInv(h, H, views)
  BY DEF IInv
<1>2. /\ host' = [host EXCEPT ![h] = G] /\ app' = app
      /\ net' = net \cup Datagrams(h, H)
  BY DEF SendOutgoing
<1>3. H \in HostRec(h) /\ \A q \in Peers(h) : ListsOK(h, H.peers[q])
  BY <1>1 DEF HostInv, HostOK, PeerOK, PeerBase
<1>4. Served(h, H, G) /\ \A d \in Datagrams(h, H) : DatagramOK(d)
  <2> HIDE DEF H
  <2> QED BY <1>3, SendAllServed, DatagramsOK
<1>5. app' = [app EXCEPT ![h] = views]
  BY <1>2 DEF IInv
<1> HIDE DEF G, views
<1>6. HostInv(h, G, views)
  <2> HIDE DEF H
  <2> QED BY <1>1, <1>4, ServedInv
<1> QED BY <1>2, <1>4, <1>5, <1>6, OneHost

\* Removing an element of a sequence gives a sequence over the same set.
LEMMA RemoveAtType ==
    ASSUME NEW S, NEW s \in Seq(S), NEW i \in DOMAIN s
    PROVE  RemoveAt(s, i) \in Seq(S)
<1>1. Len(s) \in Nat /\ i \in 1 .. Len(s)
  OBVIOUS
<1>2. SubSeq(s, 1, i - 1) \in Seq(S)
  BY <1>1, SubSeqProperties
<1>3. SubSeq(s, i + 1, Len(s)) \in Seq(S)
  BY <1>1, SubSeqProperties
<1> QED BY <1>2, <1>3 DEF RemoveAt

\* enet_protocol_check_timeouts, without a timeout of the peer
LEMMA RetransmitStep ==
    ASSUME IInv, NEW h \in Hosts, NEW p \in Peers(h), Retransmit(h, p)
    PROVE  IInv'
<1> DEFINE H == host[h]
           P == H.peers[p]
           views == app[h]
<1>1. HostInv(h, H, views)
  BY DEF IInv
<1>2. /\ Handling(h, H, p, views[p]) /\ H.event = "NONE"
      /\ H \in HostRec(h) /\ P \in PeerRec /\ PeerOK(h, P, H.randomSeed)
      /\ views = [views EXCEPT ![p] = views[p]]
  BY <1>1, HandlingOf
<1>3. PICK i \in DOMAIN P.sent :
          host' = [host EXCEPT ![h].peers[p] =
                      [P EXCEPT !.sent = RemoveAt(@, i), !.again = Append(@, P.sent[i])]]
  BY DEF Retransmit
<1> DEFINE sent  == RemoveAt(P.sent, i)
           again == Append(P.again, P.sent[i])
           R == [P EXCEPT !.sent = sent, !.again = again]
           G == [H EXCEPT !.peers[p] = R]
<1>4. host' = [host EXCEPT ![h] = G] /\ app' = app /\ net' = net
  <2>1. host' = [host EXCEPT ![h] = G]
    <3>1. host' = [host EXCEPT ![h].peers[p] = R]
      BY <1>3
    <3> HIDE DEF R
    <3> QED BY <3>1
  <2> QED BY <2>1 DEF Retransmit
<1>5. ASSUME NEW S, P.sent \in Seq(S), P.again \in Seq(S)
      PROVE  sent \in Seq(S) /\ again \in Seq(S)
  <2> HIDE DEF P
  <2>1. P.sent[i] \in S
    BY <1>5
  <2> QED BY <1>5, <2>1, RemoveAtType
<1>6. sent \in Seq(AnyCommands) /\ again \in Seq(AnyCommands)
  BY <1>2, <1>5 DEF PeerRec
<1>7. sent \in Seq(Commands(h, P.address)) /\ again \in Seq(Commands(h, P.address))
  BY <1>2, <1>5 DEF PeerOK, PeerBase, ListsOK
<1>8. P.state # "DISCONNECTED"
  <2>1. P.sent # <<>>
    OBVIOUS
  <2> QED BY <1>2, <2>1 DEF PeerOK, PeerBase, ListsOK
<1>9. Trimmed(h, R, P)
  <2> HIDE DEF sent, again, P
  <2>1. /\ R \in PeerRec
        /\ R.state = P.state /\ R.address = P.address /\ R.connectID = P.connectID /\ R.seq = P.seq
        /\ R.dispatched = P.dispatched /\ R.packetArrived = P.packetArrived
        /\ R.needsDispatch = P.needsDispatch
        /\ R.outgoing = P.outgoing /\ R.again = again /\ R.sent = sent
    BY <1>2, <1>6 DEF PeerRec
  <2> HIDE DEF R
  <2> QED BY <1>7, <2>1 DEF Trimmed
<1>10. Sets(G, H, p, R)
  BY DEF Sets
<1> HIDE DEF R, G
<1>11. Handled(h, H, G, p, views[p]) /\ G.event = "NONE"
  <2> HIDE DEF views, H
  <2> QED BY <1>2, <1>8, <1>9, <1>10, TrimHandled
<1>12. HostInv(h, G, views)
  <2>1. HostInv(h, [G EXCEPT !.event = "NONE"], [views EXCEPT ![p] = Seen(views[p], G.event)])
    <3> HIDE DEF views, H
    <3> QED BY <1>1, <1>11, HandledInv
  <2>2. Seen(views[p], G.event) = views[p]
    BY <1>11 DEF Seen
  <2>3. [G EXCEPT !.event = "NONE"] = G
    BY <1>11, SameEvent DEF Handled, Handling, HostOK
  <2> QED BY <1>2, <2>1, <2>2, <2>3
<1>13. app' = [app EXCEPT ![h] = views]
  BY <1>4 DEF IInv
<1> HIDE DEF views
<1> QED BY <1>4, <1>12, <1>13, OneHost

\* enet_protocol_check_timeouts, with a timeout of the peer
LEMMA PeerTimeoutStep ==
    ASSUME IInv, NEW h \in Hosts, NEW p \in Peers(h), NEW event \in BOOLEAN,
           PeerTimeout(h, p, event)
    PROVE  IInv'
<1> DEFINE H == host[h]
           P == H.peers[p]
           none == <<>>
           R == [P EXCEPT !.acknowledgements = none]
           F == [H EXCEPT !.peers[p].acknowledgements = <<>>]
           G == NotifyEnd(F, p, event, "TIMEOUT")
           views == app[h]
<1>1. HostInv(h, H, views)
  BY DEF IInv
<1>2. /\ Handling(h, H, p, views[p]) /\ H.event = "NONE"
      /\ H \in HostRec(h) /\ P \in PeerRec /\ PeerOK(h, P, H.randomSeed)
  BY <1>1, HandlingOf
<1>3. none \in Seq(PlainCommands)
  OBVIOUS
<1>4. F = [H EXCEPT !.peers[p] = R]
  OBVIOUS
<1>5. Trimmed(h, R, P)
  <2> HIDE DEF none, P
  <2>1. /\ R \in PeerRec
        /\ R.state = P.state /\ R.address = P.address /\ R.connectID = P.connectID /\ R.seq = P.seq
        /\ R.dispatched = P.dispatched /\ R.packetArrived = P.packetArrived
        /\ R.needsDispatch = P.needsDispatch
        /\ R.outgoing = P.outgoing /\ R.again = P.again /\ R.sent = P.sent
    BY <1>2, <1>3 DEF PeerRec
  <2> HIDE DEF R
  <2> QED BY <1>2, <2>1 DEF Trimmed, PeerOK, PeerBase, ListsOK
<1>6. /\ F.peers[p].state # "ZOMBIE" /\ F.peers[p].sent # <<>>
      /\ Becomes(h, G, p) /\ net' = net
  BY DEF PeerTimeout
<1>7. Sets(F, H, p, R)
  BY <1>4 DEF Sets
<1>8. F.peers[p] = R /\ R.state = P.state /\ R.sent = P.sent
  <2>1. F.peers[p] = R
    BY <1>2, <1>4, HostFields
  <2> HIDE DEF P, none
  <2>2. R.state = P.state /\ R.sent = P.sent
    BY <1>2 DEF PeerRec
  <2> QED BY <2>1, <2>2 DEF P
<1> HIDE DEF R, F
<1>9. P.state # "DISCONNECTED" /\ F.peers[p].state \notin {"DISCONNECTED", "ZOMBIE"}
  BY <1>2, <1>6, <1>8 DEF PeerOK, PeerBase, ListsOK
<1>10. Handled(h, H, F, p, views[p]) /\ F.event = "NONE"
  <2> HIDE DEF views, H
  <2> QED BY <1>2, <1>5, <1>7, <1>9, TrimHandled
<1>11. Handled(h, F, G, p, views[p])
  <2> HIDE DEF views
  <2>1. "TIMEOUT" \in {"DISCONNECT", "TIMEOUT"} /\ Handling(h, F, p, views[p])
    BY <1>10 DEF Handled
  <2> QED BY <1>9, <1>10, <2>1, NotifyEndHandled
<1>12. Handled(h, H, G, p, views[p])
  BY <1>10, <1>11, HandledTransitive
<1> HIDE DEF G
<1> QED BY <1>6, <1>12, BecomesInv

\* A step without an event, whichever peer it is about.
LEMMA QuietInv ==
    ASSUME IInv, NEW h \in Hosts, NEW G, HostInv(h, G, app[h]), NEW p, Becomes(h, G, p), net' = net
    PROVE  IInv'
<1> DEFINE views == app[h]
           F == [G EXCEPT !.event = "NONE"]
<1>1. G.event = "NONE" /\ G \in HostRec(h) /\ views \in [Peers(h) -> Views]
  BY DEF HostInv, HostOK
<1>2. F = G
  BY <1>1, SameEvent
<1>3. host' = [host EXCEPT ![h] = F] /\ app' = [app EXCEPT ![h] = [views EXCEPT ![p] = Seen(views[p], G.event)]]
  BY DEF Becomes
<1>4. Seen(views[p], G.event) = views[p]
  BY <1>1 DEF Seen
<1>5. [views EXCEPT ![p] = views[p]] = views
  BY <1>1
<1>6. host' = [host EXCEPT ![h] = G] /\ app' = [app EXCEPT ![h] = views]
  BY <1>2, <1>3, <1>4, <1>5
<1>7. HostInv(h, G, views)
  OBVIOUS
<1> HIDE DEF F, views
<1> QED BY <1>6, <1>7, OneHost

\* enet_protocol_handle_incoming_commands
LEMMA ReceiveDatagramStep ==
    ASSUME IInv, NEW h \in Hosts, NEW d \in net, NEW event \in BOOLEAN,
           ReceiveDatagram(h, d, event)
    PROVE  IInv'
<1> DEFINE H == host[h]
           G == HandleDatagram(H, d, event)
           p == IF d.peerID = NoPeer THEN 0 ELSE d.peerID
           S == Commands(d.from, d.to)
           m == d.commands[1]
<1>1. HostInv(h, H, app[h]) /\ H \in HostRec(h)
  BY DEF IInv, HostInv, HostOK
<1>2. d.to = h /\ Becomes(h, G, p) /\ net' = net
  BY DEF ReceiveDatagram
<1>3. d.from \in Hosts /\ d.commands \in Seq(S)
  BY DEF IInv, NetOK, DatagramOK
<1>4. CASE d.peerID = NoPeer /\ Len(d.commands) = 1 /\ m.type = "CONNECT"
  <2>1. G = HandleConnect(H, d.from, m)
    BY <1>4 DEF HandleDatagram
  <2>2. m \in S
    <3> HIDE DEF S
    <3> QED BY <1>3, <1>4
  <2>3. m \in Handshakes /\ m.connectID[1] = d.from /\ d.from # h
    <3>1. m \notin PlainCommands
      BY <1>4 DEF PlainCommands
    <3> QED BY <2>2, <3>1, <1>2, <1>4 DEF Commands
  <2>4. HostInv(h, G, app[h])
    <3> HIDE DEF H, m, G
    <3> QED BY <1>1, <1>3, <2>1, <2>3, HandleConnectInv
  <2> HIDE DEF G, p
  <2> QED BY <1>2, <2>4, QuietInv
<1>5. CASE d.peerID # NoPeer /\ Accepts(H, d)
  <2>1. p \in Peers(h) /\ G = HandleCommands(H, p, d.commands, event)
    BY <1>1, <1>5, HostFields DEF HandleDatagram, Accepts
  <2>2. d.commands \in Seq(AnyCommands)
    <3>1. S \subseteq AnyCommands
      BY DEF Commands, AnyCommands
    <3> HIDE DEF S
    <3> QED BY <1>3, <3>1, SeqMonotone
  <2> HIDE DEF p
  <2>3. Handling(h, H, p, app[h][p])
    BY <1>1, <2>1, HandlingOf
  <2>4. Handled(h, H, G, p, app[h][p])
    <3> HIDE DEF H, G
    <3> QED BY <2>1, <2>2, <2>3, HandleCommandsHandled
  <2> HIDE DEF G
  <2> QED BY <1>2, <2>1, <2>4, BecomesInv
<1>6. CASE \/ d.peerID = NoPeer /\ ~(Len(d.commands) = 1 /\ m.type = "CONNECT")
           \/ d.peerID # NoPeer /\ ~Accepts(H, d)
  <2>1. G = H
    BY <1>6 DEF HandleDatagram
  <2> HIDE DEF G, H, p
  <2> QED BY <1>1, <1>2, <2>1, QuietInv
<1> QED BY <1>4, <1>5, <1>6

\* G is the host H whose dispatch queue gave up its head p.
Dequeues(G, H, p) ==
    /\ p = Head(H.dispatchQueue)
    /\ G = [H EXCEPT !.dispatchQueue = Tail(@), !.peers[p].needsDispatch = FALSE]
Unmarks(R, P) == R = [P EXCEPT !.needsDispatch = FALSE]

\* Taking a peer from the head of the dispatch queue.
LEMMA Dequeued ==
    ASSUME NEW h \in Hosts, NEW H \in HostRec(h), Counted(h, H), Queued(h, H),
           H.dispatchQueue # <<>>, NEW p, NEW G, Dequeues(G, H, p)
    PROVE  /\ p \in Peers(h) /\ Local(h, H, G, p) /\ Counted(h, G) /\ Queued(h, G)
           /\ G.event = H.event
           /\ Unmarks(G.peers[p], H.peers[p])
<1> DEFINE s == H.dispatchQueue
           n == Len(s)
           t == Tail(s)
           P == H.peers[p]
           R == [P EXCEPT !.needsDispatch = FALSE]
           PP == [H.peers EXCEPT ![p].needsDispatch = FALSE]
<1>1. s \in Seq(Peers(h)) /\ s # <<>>
  BY HostFields
<1>2. /\ n \in Nat \ {0} /\ DOMAIN s = 1 .. n /\ p = s[1] /\ p \in Peers(h)
      /\ t \in Seq(Peers(h)) /\ DOMAIN t = 1 .. n - 1 /\ \A i \in 1 .. n - 1 : t[i] = s[i + 1]
  <2> HIDE DEF s
  <2>1. p = Head(s)
    BY DEF s, Dequeues
  <2> QED BY <1>1, <2>1
<1>3. P \in PeerRec
  BY <1>2, HostFields
<1>4. R \in PeerRec /\ R.state = P.state /\ ~R.needsDispatch
  <2> HIDE DEF P
  <2> QED BY <1>3 DEF PeerRec
<1>5. PP[p] = R /\ PP \in [Peers(h) -> PeerRec] /\ \A q \in Peers(h) : q # p => PP[q] = H.peers[q]
  BY <1>2, <1>4, HostFields
<1>6. G = [H EXCEPT !.dispatchQueue = t, !.peers = PP]
  BY DEF Dequeues
<1>7. /\ G \in HostRec(h) /\ G.peers = PP /\ G.event = H.event /\ G.randomSeed = H.randomSeed
      /\ G.dispatchQueue = t /\ G.connectedPeers = H.connectedPeers
  <2> HIDE DEF t, PP
  <2> QED BY <1>2, <1>5, <1>6 DEF HostRec
<1> HIDE DEF PP, R, t
<1>8. Counted(h, G)
  <2>1. ConnectedOf(h, G) = ConnectedOf(h, H)
    BY <1>4, <1>5, <1>7 DEF ConnectedOf
  <2> QED BY <1>7, <2>1 DEF Counted
<1>9. Queued(h, G)
  <2> HIDE DEF n, s
  <2>1. \A i, j \in 1 .. n : s[i] = s[j] => i = j
    BY <1>2 DEF Queued, IsInjective, s
  <2>2. IsInjective(t)
    BY <1>2, <2>1 DEF IsInjective
  <2>3. ToSet(t) = ToSet(s) \ {p}
    <3>1. ASSUME NEW q \in ToSet(t) PROVE q \in ToSet(s) \ {p}
      <4>1. PICK i \in 1 .. n - 1 : q = t[i]
        BY <1>2 DEF ToSet
      <4>2. q = s[i + 1] /\ i + 1 \in 1 .. n /\ 1 \in 1 .. n /\ i + 1 # 1
        BY <1>2, <4>1
      <4> QED BY <1>2, <2>1, <4>2 DEF ToSet
    <3>2. ASSUME NEW q \in ToSet(s) \ {p} PROVE q \in ToSet(t)
      <4>1. PICK i \in 1 .. n : q = s[i]
        BY <1>2 DEF ToSet
      <4>2. i # 1
        BY <1>2, <4>1
      <4>3. i - 1 \in 1 .. n - 1 /\ (i - 1) + 1 = i
        BY <1>2, <4>2
      <4>4. q = t[i - 1]
        BY <1>2, <4>1, <4>3
      <4> QED BY <1>2, <4>3, <4>4 DEF ToSet
    <3> QED BY <3>1, <3>2
  <2>4. {q \in Peers(h) : G.peers[q].needsDispatch} = {q \in Peers(h) : H.peers[q].needsDispatch} \ {p}
    BY <1>4, <1>5, <1>7
  <2> QED BY <1>7, <2>2, <2>3, <2>4 DEF Queued, s
<1> QED BY <1>2, <1>5, <1>7, <1>8, <1>9 DEF Local, Unmarks, R

\* A step of the dispatch keeps the invariant, whatever event it returns.
LEMMA ReportedInv ==
    ASSUME IInv, NEW h \in Hosts, NEW p \in Peers(h),
           NEW G, Local(h, host[h], G, p), PeerOK(h, G.peers[p], host[h].randomSeed),
           SameIdentity(G.peers[p], host[h].peers[p]),
           Seen(app[h][p], G.event) \in Expected(G.peers[p].state),
           Becomes(h, G, p), net' = net
    PROVE  IInv'
<1> DEFINE views == app[h]
           view == Seen(views[p], G.event)
           after == [views EXCEPT ![p] = view]
           F == [G EXCEPT !.event = "NONE"]
           H == host[h]
<1>1. HostInv(h, H, views)
  BY DEF IInv
<1>2. HostOK(h, G) /\ G.randomSeed = H.randomSeed
  <2>1. HostOK(h, H)
    BY <1>1 DEF HostInv
  <2> QED BY <2>1, HostKept DEF Local
<1>3. \A q \in Peers(h) : q # p => Continues(G.peers[q], H.peers[q])
  BY DEF Continues, SameIdentity, Local
<1>4. view \in Expected(G.peers[p].state) /\ SameIdentity(G.peers[p], H.peers[p])
  OBVIOUS
<1>5. host' = [host EXCEPT ![h] = F] /\ app' = [app EXCEPT ![h] = after]
  BY DEF Becomes
<1>6. HostInv(h, F, after)
  <2> HIDE DEF view, views, H
  <2> QED BY <1>1, <1>2, <1>3, <1>4, OnePeer
<1> HIDE DEF F, after
<1> QED BY <1>5, <1>6, OneHost

\* enet_protocol_dispatch_incoming_commands
LEMMA DispatchIncomingStep ==
    ASSUME IInv, NEW h \in Hosts, DispatchIncoming(h)
    PROVE  IInv'
<1> DEFINE H0 == host[h]
           p  == Head(H0.dispatchQueue)
           H  == [H0 EXCEPT !.dispatchQueue = Tail(@), !.peers[p].needsDispatch = FALSE]
           P0 == H0.peers[p]
           P  == H.peers[p]
           H1 == [H EXCEPT !.peers[p].dispatched = @ - 1]
           view == app[h][p]
<1>1. HostInv(h, H0, app[h])
  BY DEF IInv
<1>2. H0 \in HostRec(h) /\ Counted(h, H0) /\ Queued(h, H0) /\ H0.event = "NONE" /\ HostOK(h, H0)
  BY <1>1 DEF HostInv, HostOK
<1>3. /\ H0.dispatchQueue # <<>> /\ net' = net
      /\ CASE P.state \in {"CONNECTION_PENDING", "CONNECTION_SUCCEEDED"} ->
                  Becomes(h, Report(ChangeState(H, p, "CONNECTED"), "CONNECT"), p)
           [] P.state = "ZOMBIE" -> Becomes(h, Report(Reset(H, p), "DISCONNECT"), p)
           [] P.state = "CONNECTED" /\ P.dispatched > 0 ->
                  Becomes(h, Report(IF P.dispatched > 1 THEN Enqueue(H1, p) ELSE H1, "RECEIVE"), p)
           [] OTHER -> Becomes(h, H, p)
  BY DEF DispatchIncoming
<1>4. /\ p \in Peers(h) /\ Local(h, H0, H, p) /\ H.event = "NONE"
      /\ Unmarks(P, P0)
  <2>1. Dequeues(H, H0, p)
    BY DEF Dequeues
  <2> HIDE DEF H0, H, p
  <2> QED BY <1>2, <1>3, <2>1, Dequeued
<1>5. /\ P0 \in PeerRec /\ PeerOK(h, P0, H0.randomSeed) /\ view \in Expected(P0.state)
  <2> HIDE DEF H0, p
  <2> QED BY <1>1, <1>4, HandlingOf
<1> HIDE DEF H, p
<1>6. H \in HostRec(h) /\ P \in PeerRec
  BY <1>4, HostFields DEF Local
<1>7. /\ P.state = P0.state /\ P.address = P0.address /\ P.connectID = P0.connectID
      /\ P.seq = P0.seq /\ P.dispatched = P0.dispatched /\ P.packetArrived = P0.packetArrived
      /\ P.outgoing = P0.outgoing /\ P.again = P0.again /\ P.sent = P0.sent
  <2> HIDE DEF P0, P
  <2> QED BY <1>4, <1>5 DEF PeerRec, Unmarks
<1>8. PeerBase(h, P, H0.randomSeed) /\ SameIdentity(P, P0)
  <2> HIDE DEF P0, P
  <2>1. ListsOK(h, P) /\ IdentityOK(h, P, H0.randomSeed) /\ NumbersOK(P)
    BY <1>5, <1>7 DEF PeerOK, PeerBase, ListsOK, IdentityOK, NumbersOK
  <2> QED BY <1>7, <2>1 DEF PeerBase, SameIdentity
<1>9. P.dispatched \in Nat /\ P.dispatched <= 1
  BY <1>6, <1>8 DEF PeerRec, PeerBase, NumbersOK
<1> HIDE DEF P, P0, view
<1>10. CASE P.state \in {"CONNECTION_PENDING", "CONNECTION_SUCCEEDED"}
  <2> DEFINE F == ChangeState(H, p, "CONNECTED")
             G == Report(F, "CONNECT")
             R == G.peers[p]
  <2>1. Becomes(h, G, p)
    <3> HIDE DEF G
    <3> QED BY <1>3, <1>10 DEF G
  <2>2. Local(h, H, F, p) /\ Changes(F.peers[p], P, "CONNECTED") /\ "CONNECTED" \in States
    <3>1. "CONNECTED" \in States
      BY DEF States
    <3> QED BY <1>4, <1>6, <3>1, ChangeStateLocal DEF P
  <2> HIDE DEF F
  <2>3. Local(h, F, G, p) /\ G.event = "CONNECT" /\ G.peers = F.peers
    <3>1. F \in HostRec(h) /\ "CONNECT" \in {"NONE", "CONNECT", "DISCONNECT", "TIMEOUT", "RECEIVE"}
      BY <2>2 DEF Local
    <3> QED BY <1>4, <3>1, ReportLocal
  <2>4. Local(h, H0, G, p)
    BY <1>4, <2>2, <2>3, LocalTransitive
  <2>5. /\ R.state = "CONNECTED" /\ R.address = P.address /\ R.connectID = P.connectID
        /\ R.seq = P.seq
        /\ R.dispatched = P.dispatched /\ R.packetArrived = P.packetArrived
        /\ R.outgoing = P.outgoing /\ R.again = P.again /\ R.sent = P.sent
    <3>1. Changes(R, P, "CONNECTED")
      BY <2>2, <2>3
    <3> HIDE DEF R
    <3> QED BY <1>6, <2>2, <3>1, ChangesFields
  <2> HIDE DEF G
  <2>6. PeerOK(h, R, H0.randomSeed) /\ SameIdentity(R, P0)
    <3> HIDE DEF R, H0
    <3>1. ListsOK(h, R) /\ IdentityOK(h, R, H0.randomSeed)
      BY <1>8, <1>10, <2>5 DEF ListsOK, IdentityOK, PeerBase
    <3>2. NumbersOK(R) /\ ~(R.dispatched > 0)
      BY <1>8, <1>10, <2>5 DEF NumbersOK, PeerBase, Closing, Connected
    <3>3. ~ToReport(R)
      BY <2>5, <3>2 DEF ToReport
    <3> QED BY <1>7, <1>10, <2>5, <3>1, <3>2, <3>3 DEF PeerOK, PeerBase, SameIdentity
  <2>7. Seen(view, G.event) \in Expected(R.state)
    <3>1. view \in {"unknown", "connecting"}
      BY <1>5, <1>7, <1>10 DEF Expected, Connected
    <3> QED BY <3>1, <2>3, <2>5 DEF Seen, Expected, Connected
  <2> QED BY <1>3, <1>4, <2>1, <2>4, <2>6, <2>7, ReportedInv DEF P0, view
<1>11. CASE P.state = "ZOMBIE"
  <2> DEFINE F == Reset(H, p)
             G == Report(F, "DISCONNECT")
             R == G.peers[p]
  <2>1. Becomes(h, G, p)
    <3> HIDE DEF G
    <3> QED BY <1>3, <1>11 DEF G
  <2>2. Local(h, H, F, p) /\ Blank(F.peers[p], P)
    BY <1>4, <1>6, ResetLocal DEF P
  <2> HIDE DEF F
  <2>3. Local(h, F, G, p) /\ G.event = "DISCONNECT" /\ G.peers = F.peers
    <3>1. F \in HostRec(h) /\ "DISCONNECT" \in {"NONE", "CONNECT", "DISCONNECT", "TIMEOUT", "RECEIVE"}
      BY <2>2 DEF Local
    <3> QED BY <1>4, <3>1, ReportLocal
  <2>4. Local(h, H0, G, p)
    BY <1>4, <2>2, <2>3, LocalTransitive
  <2> HIDE DEF G
  <2>5. PeerOK(h, R, H0.randomSeed) /\ SameIdentity(R, P0) /\ R.state = "DISCONNECTED"
    <3>1. Blank(R, P) /\ IdentityOK(h, P, H0.randomSeed)
      BY <1>8, <2>2, <2>3 DEF PeerBase
    <3> HIDE DEF R, H0
    <3>2. PeerOK(h, R, H0.randomSeed) /\ SameIdentity(R, P)
      BY <3>1, BlankOK
    <3> QED BY <1>8, <3>1, <3>2 DEF Blank, SameIdentity
  <2>6. Seen(view, G.event) \in Expected(R.state)
    <3>1. view \in {"connecting", "connected"}
      BY <1>5, <1>7, <1>11 DEF Expected, Connected
    <3> QED BY <3>1, <2>3, <2>5 DEF Seen, Expected, Connected
  <2> QED BY <1>3, <1>4, <2>1, <2>4, <2>5, <2>6, ReportedInv DEF P0, view
<1>12. CASE P.state = "CONNECTED" /\ P.dispatched > 0
  <2> DEFINE n == P.dispatched - 1
             R == [P EXCEPT !.dispatched = n]
             G == Report(H1, "RECEIVE")
  <2>1. P.dispatched = 1 /\ n = 0
    BY <1>9, <1>12
  <2>2. Becomes(h, G, p)
    <3> HIDE DEF H1
    <3>1. Becomes(h, Report(IF P.dispatched > 1 THEN Enqueue(H1, p) ELSE H1, "RECEIVE"), p)
      BY <1>3, <1>12
    <3>2. (P.dispatched > 1) = FALSE
      BY <2>1
    <3> QED BY <3>1, <3>2
  <2>3. Sets(H1, H, p, R)
    BY DEF Sets, P
  <2>4. /\ R \in PeerRec
        /\ R.state = P.state /\ R.address = P.address /\ R.connectID = P.connectID
        /\ R.seq = P.seq /\ R.dispatched = n /\ R.packetArrived = P.packetArrived
        /\ R.needsDispatch = P.needsDispatch /\ R.outgoing = P.outgoing
        /\ R.again = P.again /\ R.sent = P.sent
    <3>1. n \in Nat
      BY <2>1
    <3> HIDE DEF n
    <3> QED BY <1>6, <3>1 DEF PeerRec
  <2> HIDE DEF R, n, H1
  <2>5. Local(h, H, H1, p) /\ H1.peers[p] = R
    <3>1. /\ R.state \in Connected <=> H.peers[p].state \in Connected
          /\ R.needsDispatch = H.peers[p].needsDispatch
      BY <2>4 DEF P
    <3> QED BY <1>4, <1>6, <2>3, <2>4, <3>1, SetPeer
  <2>6. Local(h, H1, G, p) /\ G.event = "RECEIVE" /\ G.peers = H1.peers
    <3>1. H1 \in HostRec(h) /\ "RECEIVE" \in {"NONE", "CONNECT", "DISCONNECT", "TIMEOUT", "RECEIVE"}
      BY <2>5 DEF Local
    <3> QED BY <1>4, <3>1, ReportLocal
  <2>7. Local(h, H0, G, p) /\ G.peers[p] = R
    BY <1>4, <2>5, <2>6, LocalTransitive
  <2> HIDE DEF G
  <2>8. PeerOK(h, R, H0.randomSeed) /\ SameIdentity(R, P0)
    <3> HIDE DEF H0
    <3>1. ListsOK(h, R) /\ IdentityOK(h, R, H0.randomSeed)
      BY <1>8, <2>4 DEF ListsOK, IdentityOK, PeerBase
    <3>2. NumbersOK(R) /\ ~ToReport(R)
      BY <1>8, <1>12, <2>1, <2>4 DEF NumbersOK, ToReport, PeerBase
    <3> QED BY <1>8, <2>4, <3>1, <3>2 DEF PeerOK, PeerBase, SameIdentity
  <2>9. Seen(view, G.event) \in Expected(G.peers[p].state)
    <3>1. view = "connected"
      BY <1>5, <1>7, <1>12 DEF Expected, Connected
    <3> QED BY <3>1, <1>12, <2>4, <2>6, <2>7 DEF Seen, Expected, Connected
  <2> QED BY <1>3, <1>4, <2>2, <2>7, <2>8, <2>9, ReportedInv DEF P0, view
<1>13. CASE ~ToReport(P)
  <2>1. Becomes(h, H, p)
    <3> HIDE DEF H1
    <3> QED BY <1>3, <1>13 DEF ToReport
  <2>2. PeerOK(h, P, H0.randomSeed)
    BY <1>8, <1>13 DEF PeerOK
  <2>3. Seen(view, H.event) \in Expected(P.state)
    BY <1>4, <1>5, <1>7 DEF Seen
  <2> QED BY <1>3, <1>4, <1>8, <2>1, <2>2, <2>3, ReportedInv DEF P0, P, view
<1> QED BY <1>10, <1>11, <1>12, <1>13 DEF ToReport

-----------------------------------------------------------------------------
(* The invariant *)

\* The invariant holds in the initial state.
LEMMA InitIInv == Init => IInv
<1> SUFFICES ASSUME Init PROVE IInv
  OBVIOUS
<1>1. /\ host = [h \in Hosts |-> [peers |-> [p \in Peers(h) |-> FreshPeer(h)], dispatchQueue |-> <<>>,
                      connectedPeers |-> 0, randomSeed |-> 0, accepts |-> 0, event |-> "NONE"]]
      /\ net = {}
      /\ app = [h \in Hosts |-> [p \in Peers(h) |-> "unknown"]]
  BY DEF Init
<1>2. ASSUME NEW h \in Hosts PROVE HostInv(h, host[h], app[h])
  <2> DEFINE H == host[h]
             F == FreshPeer(h)
             peers == [p \in Peers(h) |-> F]
             none == <<>>
  <2>1. H = [peers |-> peers, dispatchQueue |-> none,
             connectedPeers |-> 0, randomSeed |-> 0, accepts |-> 0, event |-> "NONE"]
    BY <1>1
  <2>2. /\ none \in Seq(Peers(h)) /\ none \in Seq(AnyCommands) /\ none \in Seq(PlainCommands)
        /\ none \in Seq(Commands(h, h))
    OBVIOUS
  <2>3. /\ F \in PeerRec /\ F.state = "DISCONNECTED" /\ F.address = h
        /\ F.connectID[2] = 0 /\ F.seq = 0 /\ F.dispatched = 0 /\ F.needsDispatch = FALSE
        /\ F.outgoing = none /\ F.again = none /\ F.sent = none
    <3>1. /\ "DISCONNECTED" \in States /\ <<h, 0>> \in Ids /\ <<h, 0>>[2] = 0
          /\ NoPeer \in Nat /\ NoSession \in Sessions
      BY DEF States, Ids, NoPeer, Sessions
    <3> DEFINE id == <<h, 0>>
    <3>2. F = [state |-> "DISCONNECTED", address |-> h, connectID |-> id,
               outgoingPeerID |-> NoPeer, incomingSessionID |-> NoSession, outgoingSessionID |-> NoSession,
               seq |-> 0, packetSent |-> FALSE, packetArrived |-> FALSE,
               outgoing |-> none, again |-> none, sent |-> none, acknowledgements |-> none,
               dispatched |-> 0, needsDispatch |-> FALSE]
      BY DEF FreshPeer, ConnectID
    <3> HIDE DEF none, F, id
    <3>3. /\ F \in PeerRec /\ F.state = "DISCONNECTED" /\ F.address = h
          /\ F.connectID = id /\ F.seq = 0 /\ F.dispatched = 0 /\ F.needsDispatch = FALSE
          /\ F.outgoing = none /\ F.again = none /\ F.sent = none
      BY <2>2, <3>1, <3>2 DEF PeerRec, id
    <3> QED BY <3>1, <3>3 DEF id
  <2> HIDE DEF F
  <2>4. peers \in [Peers(h) -> PeerRec] /\ \A p \in Peers(h) : peers[p] = F
    BY <2>3
  <2> HIDE DEF peers, H
  <2>5. /\ H \in HostRec(h) /\ H.peers = peers /\ H.dispatchQueue = none /\ H.event = "NONE"
        /\ H.connectedPeers = 0 /\ H.randomSeed = 0
    <3> HIDE DEF none
    <3> QED BY <2>1, <2>2, <2>4 DEF HostRec
  <2>6. Counted(h, H)
    <3>1. ConnectedOf(h, H) = {}
      BY <2>3, <2>4, <2>5 DEF ConnectedOf, Connected
    <3> QED BY <2>5, <3>1, FS_EmptySet DEF Counted
  <2>7. Queued(h, H)
    <3>1. IsInjective(H.dispatchQueue) /\ ToSet(H.dispatchQueue) = {}
      BY <2>5 DEF IsInjective, ToSet
    <3> QED BY <2>3, <2>4, <2>5, <3>1 DEF Queued
  <2>8. PeerOK(h, F, 0)
    <3>1. ListsOK(h, F)
      <4>1. F.again = <<>> /\ F.sent = <<>>
        BY <2>3
      <4> HIDE DEF none
      <4> QED BY <2>2, <2>3, <4>1 DEF ListsOK
    <3>2. IdentityOK(h, F, 0)
      BY <2>3 DEF IdentityOK
    <3>3. NumbersOK(F) /\ ~ToReport(F)
      BY <2>3, ConstantsAssumption DEF NumbersOK, ToReport
    <3> QED BY <3>1, <3>2, <3>3 DEF PeerOK, PeerBase
  <2>9. HostOK(h, H)
    BY <2>4, <2>5, <2>6, <2>7, <2>8 DEF HostOK
  <2>10. \A p, q \in Peers(h) : p # q => ~Twins(H.peers[p], H.peers[q])
    BY <2>3, <2>4, <2>5 DEF Twins
  <2>11. app[h] \in [Peers(h) -> Views] /\ \A p \in Peers(h) : app[h][p] = "unknown"
    BY <1>1 DEF Views
  <2>12. "unknown" \in Expected("DISCONNECTED")
    BY DEF Expected, Connected
  <2>13. \A p \in Peers(h) : app[h][p] \in Expected(H.peers[p].state)
    BY <2>3, <2>4, <2>5, <2>11, <2>12
  <2>14. H.event = "NONE" /\ H.randomSeed <= MaxConnects
    BY <2>5, ConstantsAssumption
  <2> QED BY <2>9, <2>10, <2>11, <2>13, <2>14 DEF HostInv, H
<1>3. host = [h \in Hosts |-> host[h]] /\ app = [h \in Hosts |-> app[h]]
  BY <1>1
<1>4. NetOK
  BY <1>1 DEF NetOK
<1> QED BY <1>2, <1>3, <1>4 DEF IInv

\* Every action keeps the invariant.
LEMMA NextIInv == IInv /\ [Next]_vars => IInv'
<1> SUFFICES ASSUME IInv, [Next]_vars PROVE IInv'
  OBVIOUS
<1>1. EventChoices \subseteq BOOLEAN
  BY ConstantsAssumption
<1>2. CASE UNCHANGED vars
  BY <1>2 DEF vars, IInv, NetOK
<1>3. ASSUME NEW h \in Hosts, NEW address \in Hosts, Connect(h, address) PROVE IInv'
  BY <1>3, ConnectStep
<1>4. ASSUME NEW h \in Hosts, NEW p \in Peers(h), Disconnect(h, p) PROVE IInv'
  BY <1>4, DisconnectStep
<1>5. ASSUME NEW h \in Hosts, NEW p \in Peers(h), DisconnectNow(h, p) PROVE IInv'
  BY <1>5, DisconnectNowStep
<1>6. ASSUME NEW h \in Hosts, NEW p \in Peers(h), DisconnectLater(h, p) PROVE IInv'
  BY <1>6, DisconnectLaterStep
<1>7. ASSUME NEW h \in Hosts, NEW p \in Peers(h), ResetPeer(h, p) PROVE IInv'
  BY <1>7, ResetPeerStep
<1>8. ASSUME NEW h \in Hosts, NEW p \in Peers(h), SendPacket(h, p) PROVE IInv'
  BY <1>8, SendPacketStep
<1>9. ASSUME NEW h \in Hosts, NEW p \in Peers(h), Ping(h, p) PROVE IInv'
  BY <1>9, PingStep
<1>10. ASSUME NEW h \in Hosts, NEW p \in Peers(h), ReceivePacket(h, p) PROVE IInv'
  BY <1>10, ReceivePacketStep
<1>11. ASSUME NEW h \in Hosts, NEW p \in Peers(h), Retransmit(h, p) PROVE IInv'
  BY <1>11, RetransmitStep
<1>12. ASSUME NEW h \in Hosts, NEW p \in Peers(h), NEW event \in EventChoices, PeerTimeout(h, p, event)
       PROVE  IInv'
  BY <1>1, <1>12, PeerTimeoutStep
<1>13. ASSUME NEW h \in Hosts, SendOutgoing(h) PROVE IInv'
  BY <1>13, SendOutgoingStep
<1>14. ASSUME NEW h \in Hosts, NEW d \in net, NEW event \in EventChoices, ReceiveDatagram(h, d, event)
       PROVE  IInv'
  BY <1>1, <1>14, ReceiveDatagramStep
<1>15. ASSUME NEW h \in Hosts, DispatchIncoming(h) PROVE IInv'
  BY <1>15, DispatchIncomingStep
<1> QED
  BY <1>2, <1>3, <1>4, <1>5, <1>6, <1>7, <1>8, <1>9, <1>10, <1>11, <1>12, <1>13, <1>14, <1>15 DEF Next

\* The inductive invariant holds always, for any hosts, peers and bounds.
THEOREM InvariantHolds == Spec => []IInv
BY InitIInv, NextIInv, PTL DEF Spec

\* Every variable keeps its type, with two-bit sessions, at most one packet that waits,
\* and reliable sequence numbers that a DISCONNECT is the last to take.
THEOREM TypeCorrect == Spec => []TypeOK
<1>1. IInv => TypeOK
  <2> SUFFICES ASSUME IInv PROVE TypeOK
    OBVIOUS
  <2>1. ASSUME NEW h \in Hosts
        PROVE  /\ host[h].connectedPeers \in Nat /\ host[h].randomSeed \in 0 .. MaxConnects
               /\ ToSet(host[h].dispatchQueue) \subseteq Peers(h)
               /\ host[h].event = "NONE"
    <3> DEFINE H == host[h]
    <3>1. HostInv(h, H, app[h]) /\ H \in HostRec(h) /\ Counted(h, H) /\ Queued(h, H)
      BY DEF IInv, HostInv, HostOK
    <3>2. H.connectedPeers \in Nat
      <4>1. ConnectedOf(h, H) \subseteq Peers(h)
        BY DEF ConnectedOf
      <4>2. Cardinality(ConnectedOf(h, H)) \in Nat
        BY <4>1, PeersFinite, FS_Subset, FS_CardinalityType
      <4> QED BY <3>1, <4>2 DEF Counted
    <3>3. H.randomSeed \in 0 .. MaxConnects
      BY <3>1, HostFields, ConstantsAssumption DEF HostInv
    <3> QED BY <3>1, <3>2, <3>3 DEF HostInv, Queued
  <2>2. ASSUME NEW h \in Hosts, NEW p \in Peers(h)
        PROVE  LET P == host[h].peers[p]
               IN  /\ P.state \in States /\ P.address \in Hosts /\ P.dispatched \in 0 .. 1
                   /\ {P.incomingSessionID, P.outgoingSessionID} \subseteq 0 .. 3 \cup {NoSession}
                   /\ P.seq \in 0 .. MaxPings + 2
    <3> DEFINE P == host[h].peers[p]
    <3>1. HostInv(h, host[h], app[h])
      BY DEF IInv
    <3>2. P \in PeerRec /\ NumbersOK(P) /\ MaxPings \in Nat
      BY <3>1, HandlingOf, ConstantsAssumption DEF PeerOK, PeerBase
    <3> HIDE DEF P
    <3>3. /\ P.state \in States /\ P.address \in Hosts /\ P.dispatched \in 0 .. 1
          /\ {P.incomingSessionID, P.outgoingSessionID} \subseteq 0 .. 3 \cup {NoSession}
          /\ P.seq \in 0 .. MaxPings + 2
      BY <3>2 DEF PeerRec, NumbersOK, Sessions
    <3> QED BY <3>3 DEF P
  <2>3. app \in [Hosts -> UNION {[Peers(h) -> Views] : h \in Hosts}]
    BY DEF IInv, HostInv
  <2> QED BY <2>1, <2>2, <2>3 DEF TypeOK, Views
<1> QED BY <1>1, InvariantHolds, PTL

\* host->connectedPeers is the number of peers that are connected, whatever is called,
\* received, lost and repeated.
THEOREM ConnectedPeersAreCounted == Spec => []ConnectedPeersCounted
<1>1. IInv => ConnectedPeersCounted
  BY DEF IInv, HostInv, HostOK, Counted, ConnectedOf, ConnectedPeersCounted
<1> QED BY <1>1, InvariantHolds, PTL

\* The dispatch queue holds the marked peers, each once, and every peer with something
\* to report is in it: no event is lost and none is dispatched twice.
THEOREM DispatchQueueIsExact == Spec => []DispatchQueueExact
<1>1. IInv => DispatchQueueExact
  <2> SUFFICES ASSUME IInv, NEW h \in Hosts
               PROVE  /\ IsInjective(host[h].dispatchQueue)
                      /\ ToSet(host[h].dispatchQueue) = {p \in Peers(h) : host[h].peers[p].needsDispatch}
                      /\ \A p \in Peers(h) : ToReport(host[h].peers[p]) => host[h].peers[p].needsDispatch
    BY DEF DispatchQueueExact, ToReport
  <2> QED BY DEF IInv, HostInv, HostOK, Queued, PeerOK
<1> QED BY <1>1, InvariantHolds, PTL

\* What the application heard of a peer fits its state: CONNECT first, one end after it,
\* and nothing of a peer that fails before its CONNECT was reported.
THEOREM EventsFollowStates == Spec => []EventsMatchStates
<1>1. IInv => EventsMatchStates
  <2> SUFFICES ASSUME IInv, NEW h \in Hosts, NEW p \in Peers(h)
               PROVE  app[h][p] \in Expected(host[h].peers[p].state)
    BY DEF EventsMatchStates, Expected
  <2> QED BY DEF IInv, HostInv
<1> QED BY <1>1, InvariantHolds, PTL

\* No repeated, late or reordered CONNECT gets a second peer while the first one lives,
\* with any number of duplicate peers allowed.
THEOREM NoTwins == Spec => []NoTwinPeers
<1>1. IInv => NoTwinPeers
  <2> SUFFICES ASSUME IInv, NEW h \in Hosts, NEW p \in Peers(h), NEW q \in Peers(h), p # q
               PROVE  ~Twins(host[h].peers[p], host[h].peers[q])
    BY DEF NoTwinPeers, Twins
  <2> QED BY DEF IInv, HostInv
<1> QED BY <1>1, InvariantHolds, PTL
=============================================================================
