---------------------------- MODULE MCConnection ----------------------------
(***************************************************************************)
(* Instances of Connection for TLC: what a .cfg cannot write down.         *)
(***************************************************************************)
EXTENDS Connection

CONSTANTS client, server

\* The client has one peer, which every new connection uses again; the server two.
OneAndTwo == [h \in Hosts |-> IF h = server THEN 2 ELSE 1]
OneEach == [h \in Hosts |-> 1]
=============================================================================
