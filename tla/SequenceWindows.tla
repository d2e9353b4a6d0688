-------------------------- MODULE SequenceWindows --------------------------
(***************************************************************************)
(* The wrapping sequence numbers of a channel and the windows they are     *)
(* divided into, as enet_peer_queue_incoming_command compares them.        *)
(***************************************************************************)
EXTENDS Naturals

CONSTANTS
    Windows,      \* ENET_PEER_RELIABLE_WINDOWS (16)
    WindowSize,   \* ENET_PEER_RELIABLE_WINDOW_SIZE (4096)
    FreeWindows   \* ENET_PEER_FREE_RELIABLE_WINDOWS (8)

ASSUME GeometryAssumption ==
    /\ Windows \in Nat \ {0} /\ WindowSize \in Nat \ {0}
    /\ FreeWindows \in Nat /\ FreeWindows >= 3 /\ FreeWindows + 2 <= Windows

SeqSpace == Windows * WindowSize

Window(seq) == seq \div WindowSize

\* The window of seq counted from the current one, a cycle later if seq is
\* behind the last sequence number dispatched.
RelativeWindow(seq, current) ==
    Window(seq) + (IF seq < current THEN Windows ELSE 0)

\* As InWindow below, but up to the oldest window of the cycle.
InWindow_WholeCycle(seq, current) ==
    RelativeWindow(seq, current) \in Window(current) .. Window(current) + Windows - 1

\* enet_peer_queue_incoming_command accepts FreeWindows - 1 windows.
InWindow(seq, current) ==
    RelativeWindow(seq, current) \in Window(current) .. Window(current) + FreeWindows - 2

\* As NotAfter below, but the numbers are compared as they are.
NotAfter_NoWrap(waiting, seq, current) == waiting <= seq

\* The scan from the end of a list of commands that wait stops at the last one
\* whose number does not come after seq in the order that starts at current.
NotAfter(waiting, seq, current) ==
    IF seq >= current
    THEN waiting >= current /\ waiting <= seq
    ELSE waiting >= current \/ waiting <= seq
=============================================================================
