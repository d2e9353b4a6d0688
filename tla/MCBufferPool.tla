---------------------------- MODULE MCBufferPool ----------------------------
(***************************************************************************)
(* Instances of BufferPool for TLC: what a .cfg cannot write down.         *)
(***************************************************************************)
EXTENDS BufferPool, TLC

\* Threads and blocks are interchangeable: no definition tells them apart, and
\* no temporal property is checked in the runs that use this.
PoolSymmetry == Permutations(Threads) \cup Permutations(Blocks)
=============================================================================
