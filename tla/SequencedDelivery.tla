------------------------- MODULE SequencedDelivery -------------------------
(***************************************************************************)
(* What a channel promises for its three ways of sending.  A packet is     *)
(* delivered at most once.  A sequenced packet, reliable or not, is never  *)
(* delivered behind a later one, and never before a reliable packet sent   *)
(* earlier: an unreliable packet may be lost, but it may not overtake.  An *)
(* unsequenced packet may come at any time.                                *)
(***************************************************************************)
EXTENDS Naturals, Sequences, FiniteSets, SequencesExt

CONSTANTS Classes, MaxPackets

VARIABLES
    submitted,  \* the class of every packet sent, in order
    delivered   \* the packets received, by their place in submitted

vars == <<submitted, delivered>>

Reliable(k) == submitted[k] = "reliable"
Sequenced(k) == submitted[k] # "unsequenced"

Submit(class) ==
    /\ Len(submitted) < MaxPackets
    /\ submitted' = Append(submitted, class)
    /\ UNCHANGED delivered

Deliver(k) ==
    /\ k \in DOMAIN submitted \ Range(delivered)
    /\ Sequenced(k) =>
         /\ \A j \in Range(delivered) : Sequenced(j) => j < k
         /\ \A j \in 1 .. k - 1 : Reliable(j) => j \in Range(delivered)
    /\ delivered' = Append(delivered, k)
    /\ UNCHANGED submitted

Init == submitted = <<>> /\ delivered = <<>>

Next ==
    \/ \E class \in Classes : Submit(class)
    \/ \E k \in DOMAIN submitted : Deliver(k)

Spec == Init /\ [][Next]_vars
=============================================================================
