------------------------- MODULE MCBandwidthLimits -------------------------
(***************************************************************************)
(* Instances of BandwidthLimits for TLC.                                   *)
(***************************************************************************)
EXTENDS BandwidthLimits, TLC

CONSTANTS p1, p2, p3

Limit(in, out) == [incoming |-> in, outgoing |-> out]

MCHostLimits == { Limit(0, 0), Limit(5, 16) }
MCPeerLimits == { Limit(0, 2), Limit(1, 1), Limit(4, 0) }

Symmetry == Permutations(Peers)
=============================================================================
