---------------------------- MODULE ReliableFifo ----------------------------
(***************************************************************************)
(* What ENet promises of packets sent with ENET_PACKET_FLAG_RELIABLE       *)
(* between two connected peers: on each channel the receiving application  *)
(* obtains every submitted packet exactly once and in the order in which   *)
(* it was submitted.  Packets of a channel are numbered 1, 2, ... ; what   *)
(* the application obtains is the set of packets its bytes come from, so   *)
(* {k} says that packet k arrived whole and unmixed.                       *)
(***************************************************************************)
EXTENDS Naturals, Sequences

CONSTANT Channels

VARIABLES
    submitted,  \* submitted[c]: packets handed to enet_peer_send so far
    delivered   \* delivered[c]: packets obtained from enet_peer_receive

vars == <<submitted, delivered>>

Init ==
    /\ submitted = [c \in Channels |-> 0]
    /\ delivered = [c \in Channels |-> <<>>]

Submit(c) ==
    /\ submitted' = [submitted EXCEPT ![c] = @ + 1]
    /\ UNCHANGED delivered

Deliver(c) ==
    /\ Len(delivered[c]) < submitted[c]
    /\ delivered' = [delivered EXCEPT ![c] = Append(@, {Len(@) + 1})]
    /\ UNCHANGED submitted

Next == \E c \in Channels : Submit(c) \/ Deliver(c)

Spec == Init /\ [][Next]_vars

FairSpec == Spec /\ \A c \in Channels : WF_vars(Deliver(c))
=============================================================================
