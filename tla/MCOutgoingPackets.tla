------------------------ MODULE MCOutgoingPackets -------------------------
(***************************************************************************)
(* Instances of OutgoingPackets for TLC.                                   *)
(***************************************************************************)
EXTENDS OutgoingPackets

Kind(class, large, unthrottled, instant) ==
    [class |-> class, large |-> large, unthrottled |-> unthrottled, instant |-> instant]

Reliable   == Kind("reliable", FALSE, FALSE, FALSE)
Whole      == Kind("reliable", TRUE, FALSE, FALSE)
Unreliable == Kind("unreliable", FALSE, FALSE, TRUE)
Partial    == Kind("unreliable", TRUE, FALSE, TRUE)
Loose      == Kind("unsequenced", FALSE, FALSE, FALSE)
Urgent     == Kind("unsequenced", FALSE, TRUE, FALSE)

\* A large packet that is acknowledged, or not; packets sent at once; unsequenced
\* ones that are dropped together.
MCBatches ==
    { <<Whole>>, <<Unreliable, Reliable>>, <<Partial, Unreliable>>, <<Loose, Urgent>> }

\* Everybody, and one peer twice.
MCRecipients == { <<1, 2>>, <<2, 2>> }
=============================================================================
