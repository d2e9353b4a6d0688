---------------------------- MODULE SubSequences ----------------------------
(***************************************************************************)
(* Taking elements out of the middle of a list, as enet_list_remove does.  *)
(* Kept is SelectSeq and Remove of the libraries in a form that can be     *)
(* reasoned about: a recursive function instead of an operator argument.   *)
(***************************************************************************)
EXTENDS Naturals, Sequences

\* The elements of s at the positions in C, in their order.
Chosen(s, C) ==
    LET chosen[i \in 0 .. Len(s)] ==
            IF i = 0 THEN <<>>
            ELSE IF i \in C THEN Append(chosen[i - 1], s[i]) ELSE chosen[i - 1]
    IN  chosen[Len(s)]

\* The elements at the other positions.
Others(s, C) == Chosen(s, DOMAIN s \ C)

\* The elements of s that belong to T.
Kept(s, T) == Chosen(s, {i \in DOMAIN s : s[i] \in T})
=============================================================================
