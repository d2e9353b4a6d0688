-------------------------- MODULE BufferPoolProofs --------------------------
(***************************************************************************)
(* Proofs about BufferPool for any threads, blocks and limits: its types,  *)
(* that no block is ever in two places, that the orphan stack and the      *)
(* chains taken from it are the lists they should be, that no block is     *)
(* lost, and that the statistics add up.  The first three are one          *)
(* inductive invariant: a block may be moved off a chain only because the  *)
(* chain is the list of the blocks taken, and that list stays intact only  *)
(* because no other thread holds one of its blocks and overwrites its link.*)
(* The statistics need one more: four sums that are true between any two   *)
(* steps, with what each thread took off or added without having counted.  *)
(***************************************************************************)
EXTENDS BufferPool, DataProofs, TLAPS

USE NoBlockAssumption, LimitAssumption DEF WindowsHook

-----------------------------------------------------------------------------
(* Sequences of blocks *)

\* Append adds the block and keeps distinct blocks distinct.
LEMMA AppendBlock ==
    ASSUME NEW S, NEW s \in Seq(S), NEW b \in S
    PROVE  /\ Append(s, b) \in Seq(S) /\ Len(Append(s, b)) = Len(s) + 1
           /\ Elems(Append(s, b)) = Elems(s) \cup {b}
           /\ Distinct(s) /\ b \notin Elems(s) => Distinct(Append(s, b))
<1>1. /\ Append(s, b) \in Seq(S) /\ Len(Append(s, b)) = Len(s) + 1
      /\ \A i \in 1 .. Len(s) + 1 : Append(s, b)[i] = IF i <= Len(s) THEN s[i] ELSE b
  OBVIOUS
<1>2. DOMAIN s = 1 .. Len(s) /\ DOMAIN Append(s, b) = 1 .. Len(s) + 1 /\ Len(s) \in Nat
  BY <1>1
<1>3. Elems(Append(s, b)) = Elems(s) \cup {b}
  <2>1. Elems(Append(s, b)) \subseteq Elems(s) \cup {b}
    BY <1>1, <1>2 DEF Elems
  <2>2. Elems(s) \subseteq Elems(Append(s, b))
    BY <1>1, <1>2 DEF Elems
  <2>3. b \in Elems(Append(s, b))
    <3>1. Append(s, b)[Len(s) + 1] = b /\ Len(s) + 1 \in DOMAIN Append(s, b)
      BY <1>1, <1>2
    <3> QED BY <3>1 DEF Elems
  <2> QED BY <2>1, <2>2, <2>3
<1>4. Distinct(s) /\ b \notin Elems(s) => Distinct(Append(s, b))
  BY <1>1, <1>2 DEF Elems, Distinct
<1> QED BY <1>1, <1>3, <1>4

\* Front takes the last block off.
LEMMA FrontBlock ==
    ASSUME NEW S, NEW s \in Seq(S), s # <<>>
    PROVE  /\ Front(s) \in Seq(S) /\ Len(Front(s)) = Len(s) - 1
           /\ Len(s) >= 1 /\ s[Len(s)] \in Elems(s) /\ s[Len(s)] \in S
           /\ Elems(Front(s)) \subseteq Elems(s)
           /\ Distinct(s) => Distinct(Front(s)) /\ s[Len(s)] \notin Elems(Front(s))
<1>1. Len(s) \in Nat /\ Len(s) >= 1 /\ DOMAIN s = 1 .. Len(s)
  OBVIOUS
<1>2. /\ Front(s) \in Seq(S) /\ Len(Front(s)) = Len(s) - 1
      /\ DOMAIN Front(s) = 1 .. Len(s) - 1
      /\ \A i \in 1 .. Len(s) - 1 : Front(s)[i] = s[i]
  BY <1>1 DEF Front
<1> QED BY <1>1, <1>2 DEF Elems, Distinct

\* Tail takes the first block off, and the second is first.
LEMMA TailBlock ==
    ASSUME NEW S, NEW s \in Seq(S), s # <<>>
    PROVE  /\ Tail(s) \in Seq(S)
           /\ First(s) = s[1] /\ First(s) \in Elems(s) /\ First(s) \in S
           /\ First(Tail(s)) = IF 1 = Len(s) THEN NoBlock ELSE s[2]
           /\ Len(s) >= 1 /\ Len(Tail(s)) = Len(s) - 1
           /\ \A i \in 1 .. Len(s) - 1 : Tail(s)[i] = s[i + 1]
           /\ Elems(Tail(s)) \subseteq Elems(s)
           /\ Distinct(s) => Distinct(Tail(s)) /\ First(s) \notin Elems(Tail(s))
<1>1. Len(s) \in Nat /\ Len(s) >= 1 /\ DOMAIN s = 1 .. Len(s)
  OBVIOUS
<1>2. /\ Tail(s) \in Seq(S) /\ Len(Tail(s)) = Len(s) - 1
      /\ DOMAIN Tail(s) = 1 .. Len(s) - 1
      /\ \A i \in 1 .. Len(s) - 1 : Tail(s)[i] = s[i + 1]
  BY <1>1
<1>3. First(s) = s[1] /\ s[1] \in S /\ s[1] \in Elems(s)
  BY <1>1 DEF First, Elems
<1>4. First(Tail(s)) = IF 1 = Len(s) THEN NoBlock ELSE s[2]
  <2>1. CASE Len(s) = 1
    <3>1. Tail(s) = <<>>
      BY <1>2, <2>1
    <3> QED BY <3>1, <2>1 DEF First
  <2>2. CASE Len(s) # 1
    <3>1. 1 \in 1 .. Len(s) - 1 /\ 1 + 1 = 2
      BY <1>1, <2>2
    <3>2. Tail(s)[1] = s[2]
      BY <3>1, <1>2
    <3>3. Len(Tail(s)) # 0
      BY <3>1, <1>2, <1>1
    <3>4. Len(<<>>) = 0
      OBVIOUS
    <3>5. Tail(s) # <<>>
      BY <3>3, <3>4, Zenon
    <3> QED BY <3>2, <3>5, <2>2 DEF First
  <2> QED BY <2>1, <2>2
<1>5. Elems(Tail(s)) \subseteq Elems(s)
  BY <1>1, <1>2 DEF Elems
<1>6. Distinct(s) => Distinct(Tail(s)) /\ s[1] \notin Elems(Tail(s))
  <2> SUFFICES ASSUME Distinct(s) PROVE Distinct(Tail(s)) /\ s[1] \notin Elems(Tail(s))
    OBVIOUS
  <2>1. ASSUME NEW i \in DOMAIN Tail(s) PROVE /\ Tail(s)[i] = s[i + 1]
                                             /\ i \in Int /\ i + 1 \in DOMAIN s /\ i + 1 # 1
    BY <1>1, <1>2
  <2>2. 1 \in DOMAIN s
    BY <1>1
  <2>3. \A i, j \in DOMAIN s : s[i] = s[j] => i = j
    BY DEF Distinct
  <2>4. ASSUME NEW i \in DOMAIN Tail(s), NEW j \in DOMAIN Tail(s), Tail(s)[i] = Tail(s)[j]
        PROVE  i = j
    <3>1. i + 1 = j + 1
      BY <2>1, <2>3, <2>4
    <3> QED BY <2>1, <3>1
  <2>5. ASSUME NEW i \in DOMAIN Tail(s) PROVE Tail(s)[i] # s[1]
    BY <2>1, <2>2, <2>3
  <2> QED BY <2>4, <2>5 DEF Elems, Distinct
<1> QED BY <1>1, <1>2, <1>3, <1>4, <1>5, <1>6

\* Concatenation joins the blocks, and apart lists of distinct blocks stay so.
LEMMA JoinBlocks ==
    ASSUME NEW S, NEW s \in Seq(S), NEW u \in Seq(S)
    PROVE  /\ s \o u \in Seq(S) /\ Len(s \o u) = Len(s) + Len(u)
           /\ \A i \in 1 .. Len(s) : (s \o u)[i] = s[i]
           /\ \A i \in 1 .. Len(u) : (s \o u)[Len(s) + i] = u[i]
           /\ Elems(s \o u) = Elems(s) \cup Elems(u)
           /\ Distinct(s) /\ Distinct(u) /\ Apart(Elems(s), Elems(u)) => Distinct(s \o u)
<1>1. Len(s) \in Nat /\ DOMAIN s = 1 .. Len(s) /\ Len(u) \in Nat /\ DOMAIN u = 1 .. Len(u)
  OBVIOUS
<1>2. /\ s \o u \in Seq(S) /\ Len(s \o u) = Len(s) + Len(u)
      /\ DOMAIN (s \o u) = 1 .. Len(s) + Len(u)
      /\ \A i \in 1 .. Len(s) + Len(u) :
           (s \o u)[i] = IF i <= Len(s) THEN s[i] ELSE u[i - Len(s)]
  BY <1>1
<1>3. /\ \A i \in 1 .. Len(s) : (s \o u)[i] = s[i]
      /\ \A i \in 1 .. Len(u) : (s \o u)[Len(s) + i] = u[i]
  BY <1>1, <1>2
<1>4. Elems(s \o u) = Elems(s) \cup Elems(u)
  <2>1. Elems(s \o u) \subseteq Elems(s) \cup Elems(u)
    BY <1>1, <1>2 DEF Elems
  <2>2. Elems(s) \subseteq Elems(s \o u)
    BY <1>1, <1>2, <1>3 DEF Elems
  <2>3. ASSUME NEW i \in 1 .. Len(u) PROVE u[i] \in Elems(s \o u)
    <3>1. Len(s) + i \in 1 .. Len(s) + Len(u) /\ (s \o u)[Len(s) + i] = u[i]
      BY <1>1, <1>3
    <3> QED BY <3>1, <1>2 DEF Elems
  <2> QED BY <2>1, <2>2, <2>3, <1>1 DEF Elems
<1>5. Distinct(s) /\ Distinct(u) /\ Apart(Elems(s), Elems(u)) => Distinct(s \o u)
  <2> SUFFICES ASSUME Distinct(s), Distinct(u), Apart(Elems(s), Elems(u)),
                      NEW i \in 1 .. Len(s) + Len(u), NEW j \in 1 .. Len(s) + Len(u),
                      (s \o u)[i] = (s \o u)[j]
               PROVE  i = j
    BY <1>2 DEF Distinct
  <2>1. \A k \in 1 .. Len(s), m \in 1 .. Len(u) : s[k] # u[m]
    BY <1>1 DEF Apart, Elems
  <2>2. CASE i <= Len(s) /\ j <= Len(s)
    BY <2>2, <1>1, <1>2 DEF Distinct
  <2>3. CASE i > Len(s) /\ j > Len(s)
    <3>1. i - Len(s) \in 1 .. Len(u) /\ j - Len(s) \in 1 .. Len(u)
      BY <2>3, <1>1
    <3>2. u[i - Len(s)] = u[j - Len(s)]
      BY <2>3, <1>1, <1>2
    <3>3. i - Len(s) = j - Len(s)
      BY <3>1, <3>2, <1>1 DEF Distinct
    <3> QED BY <3>3, <1>1
  <2>4. CASE i <= Len(s) /\ j > Len(s)
    <3>1. i \in 1 .. Len(s) /\ j - Len(s) \in 1 .. Len(u)
      BY <2>4, <1>1
    <3> QED BY <3>1, <2>1, <2>4, <1>1, <1>2
  <2>5. CASE i > Len(s) /\ j <= Len(s)
    <3>1. j \in 1 .. Len(s) /\ i - Len(s) \in 1 .. Len(u)
      BY <2>5, <1>1
    <3> QED BY <3>1, <2>1, <2>5, <1>1, <1>2
  <2> QED BY <2>2, <2>3, <2>4, <2>5, <1>1
<1> QED BY <1>2, <1>3, <1>4, <1>5

-----------------------------------------------------------------------------
(* The inductive invariant *)

\* A thread that pushes has blocks to push, linked up to the last one.
Pushing ==
    \A t \in Threads : pc[t] \in {"push", "cas"} =>
        /\ slots[t] # <<>>
        /\ \A i \in 1 .. Len(slots[t]) - 1 : next[slots[t][i]] = slots[t][i + 1]

IInv == TypeOK /\ OwnedOnce /\ StackLinked /\ Pushing

LEMMA InitIInv == Init => IInv
<1> SUFFICES ASSUME Init PROVE IInv
  OBVIOUS
<1> USE DEF Init
<1>1. TypeOK
  <2>1. NoTotals \in Totals /\ NoCounts \in Counts
    BY DEF Totals, Counts, NoTotals, NoCounts
  <2>2. <<>> \in Seq(Blocks) /\ Len(<<>>) = 0 /\ Blocks \subseteq Blocks
    OBVIOUS
  <2>3. pc \in [Threads -> Steps]
    BY DEF Steps
  <2>4. /\ slots \in [Threads -> Seq(Blocks)] /\ stack \in Seq(Blocks)
        /\ taken \in [Threads -> Seq(Blocks)]
        /\ \A t \in Threads : Len(slots[t]) <= MaxRetained
    BY <2>2
  <2> QED BY <2>1, <2>3, <2>4 DEF TypeOK
<1>2. Elems(<<>>) = {} /\ Distinct(<<>>)
  BY DEF Elems, Distinct
<1>3. OwnedOnce
  BY <1>2 DEF OwnedOnce, Apart
<1>4. StackLinked
  BY DEF StackLinked, IsList, First
<1>5. Pushing
  BY DEF Pushing
<1> QED BY <1>1, <1>3, <1>4, <1>5 DEF IInv

-----------------------------------------------------------------------------
(* Types *)

\* Fields of the counts and of the totals may be given values of their types.
LEMMA SetCounts ==
    ASSUME NEW p \in Counts, NEW n \in Nat, NEW i \in Int
    PROVE  /\ [p EXCEPT !.hits = n, !.retained = i] \in Counts
           /\ [p EXCEPT !.retained = i, !.returned = n] \in Counts
BY DEF Counts

LEMMA SetTotals ==
    ASSUME NEW s \in Totals, NEW n \in Nat, NEW i \in Int, NEW j \in Int
    PROVE  /\ [s EXCEPT !.orphaned = i, !.drained = n, !.retained = j] \in Totals
           /\ [s EXCEPT !.orphaned = i, !.retained = j, !.drained = n] \in Totals
BY DEF Totals

\* Counting one operation keeps the types of the counts.
LEMMA CountedType ==
    ASSUME NEW p \in Counts
    PROVE  /\ [p EXCEPT !.oversized = @ + 1] \in Counts
           /\ [p EXCEPT !.hits = @ + 1, !.retained = @ - 1] \in Counts
           /\ [p EXCEPT !.misses = @ + 1] \in Counts
           /\ [p EXCEPT !.retained = @ + 1, !.returned = @ + 1] \in Counts
           /\ [p EXCEPT !.freed = @ + 1] \in Counts
<1>1. /\ p.hits + 1 \in Nat /\ p.returned + 1 \in Nat
      /\ p.retained - 1 \in Int /\ p.retained + 1 \in Int
  BY DEF Counts
<1>2. /\ [p EXCEPT !.hits = p.hits + 1, !.retained = p.retained - 1] \in Counts
      /\ [p EXCEPT !.retained = p.retained + 1, !.returned = p.returned + 1] \in Counts
  BY <1>1, SetCounts
<1>3. [p EXCEPT !.oversized = @ + 1] \in Counts
  BY DEF Counts
<1>4. [p EXCEPT !.misses = @ + 1] \in Counts
  BY DEF Counts
<1>5. [p EXCEPT !.freed = @ + 1] \in Counts
  BY DEF Counts
<1> QED BY <1>2, <1>3, <1>4, <1>5

\* So does what the code adds to the totals outside enet_pool_flush.
LEMMA TotalsType ==
    ASSUME NEW s \in Totals, NEW i \in Nat, NEW j \in Nat, NEW k \in Nat
    PROVE  /\ [s EXCEPT !.freed = @ + 1] \in Totals
           /\ [s EXCEPT !.orphaned = @ + i] \in Totals
           /\ [s EXCEPT !.caches = @ - 1] \in Totals
           /\ [s EXCEPT !.orphaned = @ - (i + j), !.drained = @ + j, !.retained = @ - j]
                \in Totals
           /\ [s EXCEPT !.orphaned = @ - i, !.retained = @ - i, !.drained = @ + k + i]
                \in Totals
<1>1. [s EXCEPT !.freed = @ + 1] \in Totals
  BY DEF Totals
<1>2. [s EXCEPT !.orphaned = @ + i] \in Totals
  BY DEF Totals
<1>3. [s EXCEPT !.caches = @ - 1] \in Totals
  BY DEF Totals
<1>4. /\ s.orphaned - (i + j) \in Int /\ s.drained + j \in Nat /\ s.retained - j \in Int
      /\ s.orphaned - i \in Int /\ s.retained - i \in Int /\ s.drained + k + i \in Nat
  BY DEF Totals
<1>5. [s EXCEPT !.orphaned = s.orphaned - (i + j), !.drained = s.drained + j,
                !.retained = s.retained - j] \in Totals
  BY <1>4, SetTotals
<1>6. [s EXCEPT !.orphaned = s.orphaned - i, !.retained = s.retained - i,
                !.drained = s.drained + k + i] \in Totals
  BY <1>4, SetTotals
<1> QED BY <1>1, <1>2, <1>3, <1>5, <1>6

\* What enet_pool_flush leaves.
LEMMA FlushType ==
    ASSUME NEW t \in Threads, NEW s \in Totals, NEW p, pending \in [Threads -> Counts],
           p \in [operations : Nat, hits : Nat, misses : Nat, oversized : Nat,
                  returned : Nat, freed : Nat, retained : Int],
           Flush(t, s, p)
    PROVE  shared' \in Totals /\ pending' \in [Threads -> Counts]
<1>1. NoCounts \in Counts
  BY DEF NoCounts, Counts
<1>2. Published(s, p) \in Totals
  <2>1. /\ s.hits + p.hits \in Nat /\ s.misses + p.misses \in Nat
        /\ s.oversized + p.oversized \in Nat /\ s.returned + p.returned \in Nat
        /\ s.freed + p.freed \in Nat /\ s.retained + p.retained \in Int
        /\ s.drained \in Nat /\ s.orphaned \in Int /\ s.caches \in Int
    BY DEF Totals
  <2> QED BY <2>1 DEF Published, Totals
<1> QED BY <1>1, <1>2 DEF Flush

\* What ENET_POOL_COUNT leaves.
LEMMA CountType ==
    ASSUME NEW t \in Threads, NEW s \in Totals, NEW p \in Counts,
           pending \in [Threads -> Counts], Count(t, s, p)
    PROVE  shared' \in Totals /\ pending' \in [Threads -> Counts]
<1> DEFINE q == [p EXCEPT !.operations = @ + 1]
<1>1. q \in [operations : Nat, hits : Nat, misses : Nat, oversized : Nat,
             returned : Nat, freed : Nat, retained : Int]
  BY DEF Counts
<1>2. CASE q.operations >= StatsBatch
  <2>1. Flush(t, s, q)
    BY <1>2 DEF Count
  <2> QED BY <2>1, <1>1, FlushType
<1>3. CASE ~(q.operations >= StatsBatch)
  <2>1. q \in Counts
    BY <1>3 DEF Counts
  <2>2. shared' = s /\ pending' = [pending EXCEPT ![t] = q]
    BY <1>3 DEF Count
  <2> QED BY <2>1, <2>2
<1> QED BY <1>2, <1>3

LEMMA OpenedType ==
    ASSUME NEW t \in Threads, shared \in Totals
    PROVE  Opened(t) \in Totals
BY DEF Opened, Totals

\* A thread that still walks a chain has blocks left in it.
LEMMA ChainBlock ==
    ASSUME IInv, NEW t \in Threads, chain[t] # NoBlock
    PROVE  /\ taken[t] \in Seq(Blocks) /\ taken[t] # <<>>
           /\ chain[t] = First(taken[t]) /\ chain[t] \in Blocks
           /\ next[chain[t]] \in Blocks \cup {NoBlock}
           /\ next[chain[t]] = First(Tail(taken[t]))
<1>1. taken[t] \in Seq(Blocks) /\ IsList(chain[t], taken[t])
  BY DEF IInv, TypeOK, StackLinked
<1>2. chain[t] = First(taken[t]) /\ taken[t] # <<>>
  BY <1>1 DEF IsList, First
<1>3. chain[t] = taken[t][1] /\ chain[t] \in Blocks /\ Len(taken[t]) >= 1
      /\ First(Tail(taken[t])) = IF 1 = Len(taken[t]) THEN NoBlock ELSE taken[t][2]
  BY <1>1, <1>2, TailBlock
<1>4. 1 \in DOMAIN taken[t]
  BY <1>1, <1>3
<1>5. next[taken[t][1]] = IF 1 = Len(taken[t]) THEN NoBlock ELSE taken[t][1 + 1]
  BY <1>1, <1>4 DEF IsList
<1>6. next \in [Blocks -> Blocks \cup {NoBlock}]
  BY DEF IInv, TypeOK
<1> QED BY <1>1, <1>2, <1>3, <1>5, <1>6

\* A thread's step, whichever operation it belongs to.
Step(t) == \/ Startup(t) \/ ReadStatistics(t) \/ AcquireStep(t)
           \/ ReleaseStep(t) \/ ExitStep(t) \/ DrainStep(t)

LEMMA GoType ==
    ASSUME NEW t \in Threads, NEW from, NEW to \in Steps, Go(t, from, to),
           pc \in [Threads -> Steps]
    PROVE  pc' \in [Threads -> Steps]
BY DEF Go

LEMMA TakeAllType ==
    ASSUME TypeOK, NEW t \in Threads, TakeAll(t)
    PROVE  /\ orphans' \in Blocks \cup {NoBlock} /\ stack' \in Seq(Blocks)
           /\ chain' \in [Threads -> Blocks \cup {NoBlock}]
           /\ taken' \in [Threads -> Seq(Blocks)]
BY DEF TypeOK, TakeAll

\* The rest of the chain, for a thread that has not come to its end.
LEMMA FollowType ==
    ASSUME IInv, NEW t \in Threads, chain[t] # NoBlock, Follow(t)
    PROVE  /\ chain' \in [Threads -> Blocks \cup {NoBlock}]
           /\ taken' \in [Threads -> Seq(Blocks)]
<1>1. /\ taken[t] \in Seq(Blocks) /\ taken[t] # <<>>
      /\ next[chain[t]] \in Blocks \cup {NoBlock}
  BY ChainBlock
<1>2. Tail(taken[t]) \in Seq(Blocks)
  BY <1>1, TailBlock
<1>3. chain \in [Threads -> Blocks \cup {NoBlock}] /\ taken \in [Threads -> Seq(Blocks)]
  BY DEF IInv, TypeOK
<1> QED BY <1>1, <1>2, <1>3 DEF Follow

\* A cache given other blocks, no more than it has places for.
LEMMA PlaceType ==
    ASSUME NEW t \in Threads, NEW s \in Seq(Blocks), Len(s) <= MaxRetained,
           slots \in [Threads -> Seq(Blocks)], \A u \in Threads : Len(slots[u]) <= MaxRetained,
           slots' = [slots EXCEPT ![t] = s]
    PROVE  /\ slots' \in [Threads -> Seq(Blocks)]
           /\ \A u \in Threads : Len(slots'[u]) <= MaxRetained
<1>1. \A u \in Threads : slots'[u] = IF u = t THEN s ELSE slots[u]
  OBVIOUS
<1> QED BY <1>1

\* What enet_pool_acquire does keeps the types.
LEMMA AcquireType ==
    ASSUME IInv, NEW t \in Threads, AcquireStep(t)
    PROVE  TypeOK'
<1>1. TypeOK
  BY DEF IInv
<1> USE <1>1 DEF TypeOK, locals
<1>2. CASE AcquireOversized(t)
  <2>1. [pending[t] EXCEPT !.oversized = @ + 1] \in Counts
    BY CountedType
  <2>2. shared' \in Totals /\ pending' \in [Threads -> Counts]
    BY <1>2, <2>1, OpenedType, CountType DEF AcquireOversized
  <2>3. pc' \in [Threads -> Steps]
    BY <1>2, GoType DEF AcquireOversized, Steps
  <2> QED BY <1>2, <2>2, <2>3 DEF AcquireOversized, CacheGet
<1>3. CASE Acquire(t)
  <2>1. shared' \in Totals
    BY <1>3, OpenedType DEF Acquire
  <2>2. pc' \in [Threads -> Steps]
    BY <1>3, GoType DEF Acquire, Steps
  <2> QED BY <1>3, <2>1, <2>2 DEF Acquire, CacheGet
<1>4. CASE AdoptLoad(t)
  <2>1. pc' \in [Threads -> Steps]
    BY <1>4, GoType DEF AdoptLoad, Steps
  <2> QED BY <1>4, <2>1 DEF AdoptLoad
<1>5. CASE AdoptTake(t)
  <2>1. pc' \in [Threads -> Steps]
    BY <1>5, GoType DEF AdoptTake, Steps
  <2> QED BY <1>5, <2>1, TakeAllType DEF AdoptTake
<1>6. CASE AdoptKeep(t)
  <2>1. pc' \in [Threads -> Steps]
    BY <1>6, GoType DEF AdoptKeep, Steps
  <2>2. chain[t] \in Blocks /\ slots[t] \in Seq(Blocks) /\ Len(slots[t]) \in Nat
    BY <1>6, ChainBlock DEF AdoptKeep
  <2>3. /\ Append(slots[t], chain[t]) \in Seq(Blocks)
        /\ Len(Append(slots[t], chain[t])) = Len(slots[t]) + 1
    BY <2>2, AppendBlock
  <2>4. Len(slots[t]) + 1 <= MaxRetained
    BY <1>6, <2>2 DEF AdoptKeep
  <2>5. /\ slots' \in [Threads -> Seq(Blocks)]
        /\ \A u \in Threads : Len(slots'[u]) <= MaxRetained
    <3>1. slots' = [slots EXCEPT ![t] = Append(slots[t], chain[t])]
      BY <1>6 DEF AdoptKeep
    <3> QED BY <2>3, <2>4, <3>1, PlaceType
  <2>6. /\ chain' \in [Threads -> Blocks \cup {NoBlock}]
        /\ taken' \in [Threads -> Seq(Blocks)]
    BY <1>6, FollowType DEF AdoptKeep
  <2>7. /\ UNCHANGED <<enabled, orphans, next, shared, active, retired, pending, trimmed,
                       head, drained, unparked, live, heap, stack>>
        /\ kept' \in [Threads -> Nat]
    BY <1>6 DEF AdoptKeep
  <2> QED BY <2>1, <2>5, <2>6, <2>7
<1>7. CASE AdoptTrim(t)
  <2>1. pc' \in [Threads -> Steps]
    BY <1>7, GoType DEF AdoptTrim, Steps
  <2>2. chain[t] \in Blocks
    BY <1>7, ChainBlock DEF AdoptTrim
  <2>3. /\ chain' \in [Threads -> Blocks \cup {NoBlock}]
        /\ taken' \in [Threads -> Seq(Blocks)]
    BY <1>7, FollowType DEF AdoptTrim
  <2>4. next' \in [Blocks -> Blocks \cup {NoBlock}] /\ heap' \subseteq Blocks
    BY <1>7, <2>2 DEF AdoptTrim, Overwritten
  <2>5. trimmed' \in [Threads -> Nat]
    BY <1>7 DEF AdoptTrim
  <2> QED BY <1>7, <2>1, <2>3, <2>4, <2>5 DEF AdoptTrim
<1>8. CASE AdoptDone(t)
  <2>1. pc' \in [Threads -> Steps]
    BY <1>8, GoType DEF AdoptDone, Steps
  <2>2. shared' \in Totals
    BY <1>8, TotalsType DEF AdoptDone
  <2> QED BY <1>8, <2>1, <2>2 DEF AdoptDone
<1>9. CASE TakeHit(t)
  <2>1. pc' \in [Threads -> Steps]
    BY <1>9, GoType DEF TakeHit, Steps
  <2>2. [pending[t] EXCEPT !.hits = @ + 1, !.retained = @ - 1] \in Counts
    BY CountedType
  <2>3. shared' \in Totals /\ pending' \in [Threads -> Counts]
    BY <1>9, <2>2, CountType DEF TakeHit
  <2>4. /\ Front(slots[t]) \in Seq(Blocks) /\ Len(Front(slots[t])) = Len(slots[t]) - 1
        /\ slots[t][Len(slots[t])] \in Blocks /\ Len(slots[t]) \in Nat
    BY <1>9, FrontBlock DEF TakeHit
  <2>5. /\ slots' \in [Threads -> Seq(Blocks)]
        /\ \A u \in Threads : Len(slots'[u]) <= MaxRetained
    <3>1. Len(slots[t]) <= MaxRetained /\ slots' = [slots EXCEPT ![t] = Front(slots[t])]
      BY <1>9 DEF TakeHit
    <3>2. Len(Front(slots[t])) <= MaxRetained
      BY <2>4, <3>1
    <3> QED BY <2>4, <3>1, <3>2, PlaceType
  <2> QED BY <1>9, <2>1, <2>3, <2>4, <2>5 DEF TakeHit, Overwritten
<1>10. CASE TakeMiss(t)
  <2>1. pc' \in [Threads -> Steps]
    BY <1>10, GoType DEF TakeMiss, Steps
  <2>2. [pending[t] EXCEPT !.misses = @ + 1] \in Counts
    BY CountedType
  <2>3. shared' \in Totals /\ pending' \in [Threads -> Counts]
    BY <1>10, <2>2, CountType DEF TakeMiss
  <2> QED BY <1>10, <2>1, <2>3 DEF TakeMiss
<1> QED BY <1>2, <1>3, <1>4, <1>5, <1>6, <1>7, <1>8, <1>9, <1>10 DEF AcquireStep

\* So does what enet_pool_release does.
LEMMA ReleaseType ==
    ASSUME IInv, NEW t \in Threads, ReleaseStep(t)
    PROVE  TypeOK'
<1>1. TypeOK
  BY DEF IInv
<1> USE <1>1 DEF TypeOK, locals
<1>2. CASE ReleaseKeep(t)
  <2>1. PICK b \in live : ReleaseKeep(t)!(b)
    BY <1>2 DEF ReleaseKeep
  <2>2. pc' \in [Threads -> Steps]
    BY <2>1, GoType DEF Steps
  <2>3. [pending[t] EXCEPT !.retained = @ + 1, !.returned = @ + 1] \in Counts
    BY CountedType
  <2>4. shared' \in Totals /\ pending' \in [Threads -> Counts]
    BY <2>1, <2>3, OpenedType, CountType
  <2>5. /\ Append(slots[t], b) \in Seq(Blocks) /\ Len(Append(slots[t], b)) = Len(slots[t]) + 1
        /\ Len(slots[t]) \in Nat
    BY AppendBlock
  <2>6. /\ slots' \in [Threads -> Seq(Blocks)]
        /\ \A u \in Threads : Len(slots'[u]) <= MaxRetained
    <3>1. Len(slots[t]) + 1 <= MaxRetained
      BY <2>1, <2>5
    <3> QED BY <2>1, <2>5, <3>1, PlaceType
  <2> QED BY <2>1, <2>2, <2>4, <2>6 DEF CacheGet
<1>3. CASE ReleaseFree(t)
  <2>1. PICK b \in live : ReleaseFree(t)!(b)
    BY <1>3 DEF ReleaseFree
  <2>2. pc' \in [Threads -> Steps]
    BY <2>1, GoType DEF Steps
  <2>3. [pending[t] EXCEPT !.freed = @ + 1] \in Counts
    BY CountedType
  <2>4. shared' \in Totals /\ pending' \in [Threads -> Counts]
    BY <2>1, <2>3, OpenedType, CountType
  <2> QED BY <2>1, <2>2, <2>4 DEF CacheGet
<1>4. CASE ReleaseUncached(t)
  <2>1. PICK b \in live : ReleaseUncached(t)!(b)
    BY <1>4 DEF ReleaseUncached
  <2>2. pc' \in [Threads -> Steps]
    BY <2>1, GoType DEF Steps
  <2>3. shared' \in Totals
    BY <2>1, TotalsType
  <2> QED BY <2>1, <2>2, <2>3 DEF NoCache
<1> QED BY <1>2, <1>3, <1>4 DEF ReleaseStep

LEMMA LinkedInType ==
    ASSUME TypeOK, NEW s \in Seq(Blocks)
    PROVE  LinkedIn(s) \in [Blocks -> Blocks \cup {NoBlock}]
<1> SUFFICES ASSUME NEW b \in Blocks
             PROVE  (IF \E i \in 1 .. Len(s) - 1 : s[i] = b
                     THEN s[(CHOOSE i \in 1 .. Len(s) - 1 : s[i] = b) + 1]
                     ELSE next[b]) \in Blocks \cup {NoBlock}
  BY DEF LinkedIn
<1>1. CASE \E i \in 1 .. Len(s) - 1 : s[i] = b
  <2> DEFINE k == CHOOSE i \in 1 .. Len(s) - 1 : s[i] = b
  <2>1. k \in 1 .. Len(s) - 1
    BY <1>1
  <2>2. k + 1 \in 1 .. Len(s) /\ Len(s) \in Nat
    BY <2>1
  <2>3. s[k + 1] \in Blocks
    BY <2>2
  <2> QED BY <1>1, <2>3
<1>2. CASE ~ \E i \in 1 .. Len(s) - 1 : s[i] = b
  BY <1>2 DEF TypeOK
<1> QED BY <1>1, <1>2

\* So does what a thread does when it exits.
LEMMA ExitType ==
    ASSUME IInv, NEW t \in Threads, ExitStep(t)
    PROVE  TypeOK'
<1>1. TypeOK
  BY DEF IInv
<1> USE <1>1 DEF TypeOK, locals
<1>2. CASE ThreadExit(t)
  <2>1. pc' \in [Threads -> Steps]
    BY <1>2, GoType DEF ThreadExit, Steps
  <2>2. slots[t] \in Seq(Blocks) /\ Len(slots[t]) \in Nat
    OBVIOUS
  <2>3. shared' \in Totals
    BY <1>2, <2>2, TotalsType DEF ThreadExit
  <2>4. next' \in [Blocks -> Blocks \cup {NoBlock}]
    BY <1>2, <2>2, LinkedInType DEF ThreadExit
  <2> QED BY <1>2, <2>1, <2>3, <2>4 DEF ThreadExit
<1>3. CASE PushLoad(t)
  <2>1. pc' \in [Threads -> Steps]
    BY <1>3, GoType DEF PushLoad, Steps
  <2> QED BY <1>3, <2>1 DEF PushLoad
<1>4. CASE PushDone(t)
  <2>1. pc' \in [Threads -> Steps]
    BY <1>4, GoType DEF PushDone, Steps
  <2>2. pc[t] = "cas"
    BY <1>4 DEF PushDone, Go
  <2>3. slots[t] \in Seq(Blocks) /\ slots[t] # <<>>
    BY <2>2 DEF IInv, Pushing
  <2>4. First(slots[t]) \in Blocks
    BY <2>3, TailBlock
  <2>5. slots[t] \o stack \in Seq(Blocks)
    OBVIOUS
  <2>6. /\ slots' \in [Threads -> Seq(Blocks)]
        /\ \A u \in Threads : Len(slots'[u]) <= MaxRetained
    <3>1. <<>> \in Seq(Blocks) /\ Len(<<>>) = 0
      OBVIOUS
    <3> QED BY <1>4, <3>1 DEF PushDone
  <2> QED BY <1>4, <2>1, <2>4, <2>5, <2>6 DEF PushDone, LinkLast
<1>5. CASE PushRetry(t)
  <2>1. pc' \in [Threads -> Steps]
    BY <1>5, GoType DEF PushRetry, Steps
  <2> QED BY <1>5, <2>1 DEF PushRetry, LinkLast
<1>6. CASE Retire(t)
  <2>1. pc' \in [Threads -> Steps]
    BY <1>6, GoType DEF Retire, Steps
  <2>2. [shared EXCEPT !.caches = @ - 1] \in Totals
    BY TotalsType
  <2>3. pending[t] \in [operations : Nat, hits : Nat, misses : Nat, oversized : Nat,
                        returned : Nat, freed : Nat, retained : Int]
    BY DEF Counts
  <2>4. shared' \in Totals /\ pending' \in [Threads -> Counts]
    BY <1>6, <2>2, <2>3, FlushType DEF Retire
  <2> QED BY <1>6, <2>1, <2>4 DEF Retire
<1>7. CASE Respawn(t)
  <2>1. pc' \in [Threads -> Steps]
    BY <1>7, GoType DEF Respawn, Steps
  <2>2. NoCounts \in Counts
    BY DEF Counts, NoCounts
  <2>3. <<>> \in Seq(Blocks) /\ Len(<<>>) = 0
    OBVIOUS
  <2>4. /\ slots' \in [Threads -> Seq(Blocks)]
        /\ \A u \in Threads : Len(slots'[u]) <= MaxRetained
    BY <1>7, <2>3 DEF Respawn
  <2> QED BY <1>7, <2>1, <2>2, <2>4 DEF Respawn
<1> QED BY <1>2, <1>3, <1>4, <1>5, <1>6, <1>7 DEF ExitStep

\* Freeing its own blocks, for enet_pool_drain and enet_pool_shutdown.
LEMMA FreeOwnType ==
    ASSUME TypeOK, NEW t \in Threads, FreeOwn(t), enabled' \in BOOLEAN
    PROVE  TypeOK'
<1>1. pc' \in [Threads -> Steps]
  BY GoType DEF FreeOwn, Steps, TypeOK
<1>2. /\ slots \in [Threads -> Seq(Blocks)] /\ slots[t] \in Seq(Blocks)
      /\ Len(slots[t]) \in Nat /\ Elems(slots[t]) \subseteq Blocks
      /\ next \in [Blocks -> Blocks \cup {NoBlock}]
      /\ pending \in [Threads -> Counts] /\ pending[t] \in Counts /\ shared \in Totals
      /\ \A u \in Threads : Len(slots[u]) <= MaxRetained
  BY DEF TypeOK, Elems
<1>3. CASE active[t]
  <2>1. pending[t].retained - Len(slots[t]) \in Int
    BY <1>2 DEF Counts
  <2>2. [pending[t] EXCEPT !.retained = @ - Len(slots[t])] \in Counts
    BY <1>2, <2>1 DEF Counts
  <2>3. [pending[t] EXCEPT !.retained = @ - Len(slots[t])] \in
           [operations : Nat, hits : Nat, misses : Nat, oversized : Nat,
            returned : Nat, freed : Nat, retained : Int]
    BY <2>2 DEF Counts
  <2>4. shared' \in Totals /\ pending' \in [Threads -> Counts]
    BY <1>2, <1>3, <2>3, FlushType DEF FreeOwn
  <2>5. next' \in [Blocks -> Blocks \cup {NoBlock}]
    BY <1>2, <1>3 DEF FreeOwn
  <2>6. <<>> \in Seq(Blocks) /\ Len(<<>>) = 0
    OBVIOUS
  <2>7. slots' = [slots EXCEPT ![t] = <<>>]
    BY <1>3 DEF FreeOwn
  <2>8. /\ slots' \in [Threads -> Seq(Blocks)]
        /\ \A u \in Threads : Len(slots'[u]) <= MaxRetained
    BY <1>2, <2>6, <2>7
  <2>9. heap' \subseteq Blocks /\ drained' \in [Threads -> Nat]
    <3>1. /\ heap' = heap \cup Elems(slots[t]) /\ drained' = [drained EXCEPT ![t] = Len(slots[t])]
          /\ heap \subseteq Blocks /\ drained \in [Threads -> Nat]
      BY <1>3 DEF FreeOwn, TypeOK
    <3> QED BY <1>2, <3>1
  <2> QED BY <1>1, <2>4, <2>5, <2>8, <2>9 DEF FreeOwn, TypeOK
<1>4. CASE ~active[t]
  BY <1>1, <1>4 DEF FreeOwn, TypeOK
<1> QED BY <1>3, <1>4

\* So does what a thread that drains the pool does.
LEMMA DrainType ==
    ASSUME IInv, NEW t \in Threads, DrainStep(t)
    PROVE  TypeOK'
<1>1. TypeOK
  BY DEF IInv
<1>2. CASE Drain(t) \/ Shutdown(t)
  <2>1. FreeOwn(t) /\ enabled' \in BOOLEAN
    BY <1>1, <1>2 DEF Drain, Shutdown, TypeOK
  <2> QED BY <1>1, <2>1, FreeOwnType
<1> USE <1>1 DEF TypeOK
<1>3. CASE DrainTake(t)
  <2>1. pc' \in [Threads -> Steps]
    BY <1>3, GoType DEF DrainTake, Steps
  <2> QED BY <1>3, <2>1, TakeAllType DEF DrainTake
<1>4. CASE DrainFree(t)
  <2>1. pc' \in [Threads -> Steps]
    BY <1>4, GoType DEF DrainFree, Steps
  <2>2. chain[t] \in Blocks
    BY <1>4, ChainBlock DEF DrainFree
  <2>3. /\ chain' \in [Threads -> Blocks \cup {NoBlock}]
        /\ taken' \in [Threads -> Seq(Blocks)]
    BY <1>4, FollowType DEF DrainFree
  <2>4. next' \in [Blocks -> Blocks \cup {NoBlock}] /\ heap' \subseteq Blocks
    BY <1>4, <2>2 DEF DrainFree, Overwritten
  <2>5. unparked' \in [Threads -> Nat]
    BY <1>4 DEF DrainFree
  <2> QED BY <1>4, <2>1, <2>3, <2>4, <2>5 DEF DrainFree
<1>5. CASE DrainDone(t)
  <2>1. pc' \in [Threads -> Steps]
    BY <1>5, GoType DEF DrainDone, Steps
  <2>2. shared' \in Totals
    BY <1>5, TotalsType DEF DrainDone
  <2> QED BY <1>5, <2>1, <2>2 DEF DrainDone
<1> QED BY <1>2, <1>3, <1>4, <1>5 DEF DrainStep

LEMMA StepType ==
    ASSUME IInv, NEW t \in Threads, Step(t)
    PROVE  TypeOK'
<1>1. TypeOK
  BY DEF IInv
<1>2. CASE Startup(t)
  <2>1. pc' \in [Threads -> Steps]
    BY <1>1, <1>2, GoType DEF Startup, Steps, TypeOK
  <2> QED BY <1>1, <1>2, <2>1 DEF Startup, TypeOK, locals
<1>3. CASE ReadStatistics(t)
  <2>1. pc' \in [Threads -> Steps]
    BY <1>1, <1>3, GoType DEF ReadStatistics, Steps, TypeOK
  <2>2. pending[t] \in [operations : Nat, hits : Nat, misses : Nat, oversized : Nat,
                        returned : Nat, freed : Nat, retained : Int]
    BY <1>1 DEF Counts, TypeOK
  <2>3. shared' \in Totals /\ pending' \in [Threads -> Counts]
    BY <1>1, <1>3, <2>2, FlushType DEF ReadStatistics, TypeOK
  <2> QED BY <1>1, <1>3, <2>1, <2>3 DEF ReadStatistics, TypeOK, locals
<1> QED BY <1>2, <1>3, AcquireType, ReleaseType, ExitType, DrainType DEF Step

-----------------------------------------------------------------------------
(* Every block has one owner *)

places == <<slots, taken, stack, live, heap>>

LEMMA EmptyPlace == Elems(<<>>) = {} /\ Distinct(<<>>)
BY DEF Elems, Distinct

\* Taking the stack gives its blocks to the thread.
LEMMA TakeAllOwned ==
    ASSUME IInv, NEW t \in Threads, TakeAll(t), UNCHANGED <<slots, live, heap>>
    PROVE  OwnedOnce'
<1>1. /\ OwnedOnce /\ taken \in [Threads -> Seq(Blocks)]
      /\ slots' = slots /\ live' = live /\ heap' = heap /\ stack' = <<>>
      /\ taken' = [taken EXCEPT ![t] = stack]
  BY DEF IInv, TypeOK, TakeAll
<1>2. \A u \in Threads : taken'[u] = IF u = t THEN stack ELSE taken[u]
  BY <1>1
<1>3. /\ Distinct(stack') /\ Elems(stack') = {}
      /\ \A u \in Threads : Distinct(slots[u]) /\ Distinct(taken'[u])
  BY <1>1, <1>2, EmptyPlace DEF OwnedOnce
<1>4. \A u \in Threads : /\ Apart(Elems(slots[u]), Elems(stack)) /\ Apart(Elems(taken[u]), Elems(stack))
                         /\ Apart(Elems(slots[u]) \cup Elems(taken[u]), live \cup heap)
                         /\ Apart(Elems(stack), live \cup heap)
  BY <1>1 DEF OwnedOnce, Apart
<1>5. ASSUME NEW u \in Threads, NEW v \in Threads
      PROVE  /\ u # v => Apart(Elems(slots[u]), Elems(slots[v]))
             /\ u # v => Apart(Elems(taken'[u]), Elems(taken'[v]))
             /\ Apart(Elems(slots[u]), Elems(taken'[v]))
  <2>1. /\ u # v => Apart(Elems(slots[u]), Elems(slots[v]))
        /\ u # v => Apart(Elems(taken[u]), Elems(taken[v]))
        /\ Apart(Elems(slots[u]), Elems(taken[v]))
    BY <1>1 DEF OwnedOnce
  <2> QED BY <1>2, <1>4, <2>1 DEF Apart
<1>6. \A u \in Threads : /\ Apart(Elems(slots[u]) \cup Elems(taken'[u]), Elems(stack'))
                         /\ Apart(Elems(slots[u]) \cup Elems(taken'[u]), live \cup heap)
  BY <1>2, <1>3, <1>4 DEF Apart
<1>7. Apart(Elems(stack'), live \cup heap) /\ Apart(live, heap)
  BY <1>1, <1>3 DEF OwnedOnce, Apart
<1> QED BY <1>1, <1>3, <1>5, <1>6, <1>7 DEF OwnedOnce

\* The first block of the chain leaves it for the cache of the thread,
LEMMA AdoptKeepOwned ==
    ASSUME IInv, NEW t \in Threads, AdoptKeep(t)
    PROVE  OwnedOnce'
<1> DEFINE b == First(taken[t])
<1>1. /\ chain[t] = b /\ b \in Blocks /\ taken[t] \in Seq(Blocks) /\ taken[t] # <<>>
  BY ChainBlock DEF AdoptKeep
<1>2. OwnedOnce /\ taken \in [Threads -> Seq(Blocks)] /\ slots \in [Threads -> Seq(Blocks)]
  BY DEF IInv, TypeOK
<1>3. /\ b \in Elems(taken[t]) /\ Elems(Tail(taken[t])) \subseteq Elems(taken[t])
      /\ Distinct(Tail(taken[t])) /\ b \notin Elems(Tail(taken[t]))
  BY <1>1, <1>2, TailBlock DEF OwnedOnce
<1>4. b \notin Elems(slots[t])
  BY <1>2, <1>3 DEF OwnedOnce, Apart
<1>5. /\ Elems(Append(slots[t], b)) = Elems(slots[t]) \cup {b}
      /\ Distinct(Append(slots[t], b))
  BY <1>1, <1>2, <1>4, AppendBlock DEF OwnedOnce
<1>6. /\ \A u \in Threads : slots'[u] = IF u = t THEN Append(slots[t], b) ELSE slots[u]
      /\ \A u \in Threads : taken'[u] = IF u = t THEN Tail(taken[t]) ELSE taken[u]
      /\ stack' = stack /\ live' = live /\ heap' = heap
  BY <1>1, <1>2 DEF AdoptKeep, Follow
<1> HIDE DEF b
<1>7. Distinct(stack') /\ \A u \in Threads : Distinct(slots'[u]) /\ Distinct(taken'[u])
  BY <1>2, <1>3, <1>4, <1>5, <1>6 DEF OwnedOnce
<1>8. \A u \in Threads : /\ Elems(slots'[u]) = IF u = t THEN Elems(slots[t]) \cup {b} ELSE Elems(slots[u])
                         /\ Elems(taken'[u]) \subseteq Elems(taken[u])
  BY <1>2, <1>3, <1>4, <1>5, <1>6
<1>9. ASSUME NEW u \in Threads, NEW v \in Threads
      PROVE  /\ u # v => Apart(Elems(slots'[u]), Elems(slots'[v]))
             /\ u # v => Apart(Elems(taken'[u]), Elems(taken'[v]))
             /\ Apart(Elems(slots'[u]), Elems(taken'[v]))
  <2>1. /\ u # v => Apart(Elems(slots[u]), Elems(slots[v]))
        /\ u # v => Apart(Elems(taken[u]), Elems(taken[v]))
        /\ Apart(Elems(slots[u]), Elems(taken[v]))
        /\ b \notin Elems(slots[u]) /\ b \notin Elems(slots[v])
        /\ v # t => b \notin Elems(taken[v])
    BY <1>2, <1>3, <1>4 DEF OwnedOnce, Apart
  <2>2. u # v => Apart(Elems(slots'[u]), Elems(slots'[v]))
    BY <1>8, <2>1 DEF Apart
  <2>3. u # v => Apart(Elems(taken'[u]), Elems(taken'[v]))
    BY <1>8, <2>1 DEF Apart
  <2>4. Apart(Elems(slots'[u]), Elems(taken'[v]))
    <3>1. b \notin Elems(taken'[v])
      BY <1>3, <1>6, <1>8, <2>1
    <3> QED BY <1>8, <2>1, <3>1 DEF Apart
  <2> QED BY <2>2, <2>3, <2>4
<1>10. \A u \in Threads :
          /\ Apart(Elems(slots'[u]) \cup Elems(taken'[u]), Elems(stack'))
          /\ Apart(Elems(slots'[u]) \cup Elems(taken'[u]), live' \cup heap')
  <2>1. SUFFICES ASSUME NEW u \in Threads
                 PROVE  /\ Apart(Elems(slots'[u]) \cup Elems(taken'[u]), Elems(stack))
                        /\ Apart(Elems(slots'[u]) \cup Elems(taken'[u]), live \cup heap)
    BY <1>6
  <2>2. Elems(slots'[u]) \cup Elems(taken'[u])
          \subseteq Elems(slots[u]) \cup Elems(taken[u])
    BY <1>3, <1>8
  <2>3. /\ Apart(Elems(slots[u]) \cup Elems(taken[u]), Elems(stack))
        /\ Apart(Elems(slots[u]) \cup Elems(taken[u]), live \cup heap)
    BY <1>2 DEF OwnedOnce
  <2> QED BY <2>2, <2>3 DEF Apart
<1>11. Apart(Elems(stack'), live' \cup heap') /\ Apart(live', heap')
  BY <1>2, <1>3, <1>4, <1>5, <1>6 DEF OwnedOnce, Apart
<1> QED BY <1>7, <1>9, <1>10, <1>11 DEF OwnedOnce

\* or for the allocator.
LEMMA FreeChainOwned ==
    ASSUME IInv, NEW t \in Threads, chain[t] # NoBlock, Follow(t),
           heap' = heap \cup {chain[t]}, UNCHANGED <<slots, stack, live>>
    PROVE  OwnedOnce'
<1> DEFINE b == First(taken[t])
<1>1. /\ chain[t] = b /\ b \in Blocks /\ taken[t] \in Seq(Blocks) /\ taken[t] # <<>>
  BY ChainBlock
<1>2. OwnedOnce /\ taken \in [Threads -> Seq(Blocks)]
  BY DEF IInv, TypeOK
<1>3. /\ b \in Elems(taken[t]) /\ Elems(Tail(taken[t])) \subseteq Elems(taken[t])
      /\ Distinct(Tail(taken[t])) /\ b \notin Elems(Tail(taken[t]))
  BY <1>1, <1>2, TailBlock DEF OwnedOnce
<1>4. /\ \A u \in Threads : taken'[u] = IF u = t THEN Tail(taken[t]) ELSE taken[u]
      /\ slots' = slots /\ stack' = stack /\ live' = live /\ heap' = heap \cup {b}
  BY <1>1, <1>2 DEF Follow
<1> HIDE DEF b
<1>5. Distinct(stack') /\ \A u \in Threads : Distinct(slots'[u]) /\ Distinct(taken'[u])
  BY <1>2, <1>3, <1>4 DEF OwnedOnce
<1>6. \A u \in Threads : /\ Elems(slots'[u]) = Elems(slots[u])
                         /\ Elems(taken'[u]) \subseteq Elems(taken[u])
  BY <1>2, <1>3, <1>4
<1>7. ASSUME NEW u \in Threads, NEW v \in Threads
      PROVE  /\ u # v => Apart(Elems(slots'[u]), Elems(slots'[v]))
             /\ u # v => Apart(Elems(taken'[u]), Elems(taken'[v]))
             /\ Apart(Elems(slots'[u]), Elems(taken'[v]))
  <2>1. /\ u # v => Apart(Elems(slots[u]), Elems(slots[v]))
        /\ u # v => Apart(Elems(taken[u]), Elems(taken[v]))
        /\ Apart(Elems(slots[u]), Elems(taken[v]))
        /\ b \notin Elems(slots[u]) /\ b \notin Elems(slots[v])
        /\ v # t => b \notin Elems(taken[v])
    BY <1>2, <1>3, <1>4, <1>6 DEF OwnedOnce, Apart
  <2>2. u # v => Apart(Elems(slots'[u]), Elems(slots'[v]))
    BY <1>2, <1>3, <1>4, <1>6, <2>1 DEF Apart
  <2>3. u # v => Apart(Elems(taken'[u]), Elems(taken'[v]))
    BY <1>2, <1>3, <1>4, <1>6, <2>1 DEF Apart
  <2>4. Apart(Elems(slots'[u]), Elems(taken'[v]))
    BY <1>2, <1>3, <1>4, <1>6, <2>1 DEF Apart
  <2> QED BY <2>2, <2>3, <2>4
<1>8. \A u \in Threads :
          /\ Apart(Elems(slots'[u]) \cup Elems(taken'[u]), Elems(stack'))
          /\ Apart(Elems(slots'[u]) \cup Elems(taken'[u]), live' \cup heap')
  BY <1>2, <1>3, <1>4, <1>6 DEF OwnedOnce, Apart
<1>9. Apart(Elems(stack'), live' \cup heap') /\ Apart(live', heap')
  BY <1>2, <1>3, <1>4 DEF OwnedOnce, Apart
<1> QED BY <1>5, <1>7, <1>8, <1>9 DEF OwnedOnce

\* The top of the cache goes to the application.
LEMMA TakeHitOwned ==
    ASSUME IInv, NEW t \in Threads, TakeHit(t)
    PROVE  OwnedOnce'
<1> DEFINE b == slots[t][Len(slots[t])]
<1>1. OwnedOnce /\ slots \in [Threads -> Seq(Blocks)] /\ slots[t] # <<>>
  BY DEF IInv, TypeOK, TakeHit
<1>2. /\ b \in Elems(slots[t]) /\ Elems(Front(slots[t])) \subseteq Elems(slots[t])
      /\ Distinct(Front(slots[t])) /\ b \notin Elems(Front(slots[t]))
  BY <1>1, FrontBlock DEF OwnedOnce
<1>3. /\ \A u \in Threads : slots'[u] = IF u = t THEN Front(slots[t]) ELSE slots[u]
      /\ taken' = taken /\ stack' = stack /\ heap' = heap /\ live' = live \cup {b}
  BY <1>1 DEF TakeHit
<1> HIDE DEF b
<1>4. Distinct(stack') /\ \A u \in Threads : Distinct(slots'[u]) /\ Distinct(taken'[u])
  BY <1>1, <1>2, <1>3 DEF OwnedOnce
<1>5. \A u \in Threads : /\ Elems(slots'[u]) \subseteq Elems(slots[u])
                         /\ Elems(taken'[u]) = Elems(taken[u])
  BY <1>1, <1>2, <1>3
<1>6. ASSUME NEW u \in Threads, NEW v \in Threads
      PROVE  /\ u # v => Apart(Elems(slots'[u]), Elems(slots'[v]))
             /\ u # v => Apart(Elems(taken'[u]), Elems(taken'[v]))
             /\ Apart(Elems(slots'[u]), Elems(taken'[v]))
  <2>1. /\ u # v => Apart(Elems(slots[u]), Elems(slots[v]))
        /\ u # v => Apart(Elems(taken[u]), Elems(taken[v]))
        /\ Apart(Elems(slots[u]), Elems(taken[v]))
        /\ b \notin Elems(taken[u]) /\ b \notin Elems(taken[v])
    BY <1>1, <1>2, <1>3, <1>5 DEF OwnedOnce, Apart
  <2>2. u # v => Apart(Elems(slots'[u]), Elems(slots'[v]))
    BY <1>1, <1>2, <1>3, <1>5, <2>1 DEF Apart
  <2>3. u # v => Apart(Elems(taken'[u]), Elems(taken'[v]))
    BY <1>1, <1>2, <1>3, <1>5, <2>1 DEF Apart
  <2>4. Apart(Elems(slots'[u]), Elems(taken'[v]))
    BY <1>1, <1>2, <1>3, <1>5, <2>1 DEF Apart
  <2> QED BY <2>2, <2>3, <2>4
<1>7. \A u \in Threads :
          /\ Apart(Elems(slots'[u]) \cup Elems(taken'[u]), Elems(stack'))
          /\ Apart(Elems(slots'[u]) \cup Elems(taken'[u]), live' \cup heap')
  BY <1>1, <1>2, <1>3, <1>5 DEF OwnedOnce, Apart
<1>8. Apart(Elems(stack'), live' \cup heap') /\ Apart(live', heap')
  BY <1>1, <1>2, <1>3 DEF OwnedOnce, Apart
<1> QED BY <1>4, <1>6, <1>7, <1>8 DEF OwnedOnce

LEMMA TakeMissOwned ==
    ASSUME IInv, NEW t \in Threads, TakeMiss(t)
    PROVE  OwnedOnce'
<1>1. OwnedOnce
  BY DEF IInv
<1>2. slots' = slots /\ taken' = taken /\ stack' = stack
  BY DEF TakeMiss
<1>3. CASE UNCHANGED <<heap, live>>
  BY <1>1, <1>2, <1>3 DEF OwnedOnce, Apart
<1>4. CASE \E b \in heap : heap' = heap \ {b} /\ live' = live \cup {b}
  BY <1>1, <1>2, <1>4 DEF OwnedOnce, Apart
<1> QED BY <1>3, <1>4 DEF TakeMiss

\* A block of the application goes to the cache of the thread that releases it,
LEMMA ReleaseKeepOwned ==
    ASSUME IInv, NEW t \in Threads, ReleaseKeep(t)
    PROVE  OwnedOnce'
<1>1. OwnedOnce /\ slots \in [Threads -> Seq(Blocks)] /\ live \subseteq Blocks
  BY DEF IInv, TypeOK
<1>2. PICK b \in live : ReleaseKeep(t)!(b)
  BY DEF ReleaseKeep
<1>3. b \notin Elems(slots[t])
  BY <1>1 DEF OwnedOnce, Apart
<1>4. /\ Elems(Append(slots[t], b)) = Elems(slots[t]) \cup {b}
      /\ Distinct(Append(slots[t], b))
  BY <1>1, <1>3, AppendBlock DEF OwnedOnce
<1>5. /\ \A u \in Threads : slots'[u] = IF u = t THEN Append(slots[t], b) ELSE slots[u]
      /\ taken' = taken /\ stack' = stack /\ heap' = heap /\ live' = live \ {b}
  BY <1>1, <1>2
<1>6. Distinct(stack') /\ \A u \in Threads : Distinct(slots'[u]) /\ Distinct(taken'[u])
  BY <1>1, <1>3, <1>4, <1>5 DEF OwnedOnce
<1>7. \A u \in Threads : /\ Elems(slots'[u]) = IF u = t THEN Elems(slots[t]) \cup {b} ELSE Elems(slots[u])
                         /\ Elems(taken'[u]) = Elems(taken[u])
  BY <1>1, <1>3, <1>4, <1>5
<1>8. ASSUME NEW u \in Threads, NEW v \in Threads
      PROVE  /\ u # v => Apart(Elems(slots'[u]), Elems(slots'[v]))
             /\ u # v => Apart(Elems(taken'[u]), Elems(taken'[v]))
             /\ Apart(Elems(slots'[u]), Elems(taken'[v]))
  <2>1. /\ u # v => Apart(Elems(slots[u]), Elems(slots[v]))
        /\ u # v => Apart(Elems(taken[u]), Elems(taken[v]))
        /\ Apart(Elems(slots[u]), Elems(taken[v]))
        /\ b \notin Elems(slots[u]) /\ b \notin Elems(slots[v])
        /\ b \notin Elems(taken[v])
    BY <1>1, <1>3, <1>4, <1>5, <1>7 DEF OwnedOnce, Apart
  <2>2. u # v => Apart(Elems(slots'[u]), Elems(slots'[v]))
    BY <1>1, <1>3, <1>4, <1>5, <1>7, <2>1 DEF Apart
  <2>3. u # v => Apart(Elems(taken'[u]), Elems(taken'[v]))
    BY <1>1, <1>3, <1>4, <1>5, <1>7, <2>1 DEF Apart
  <2>4. Apart(Elems(slots'[u]), Elems(taken'[v]))
    BY <1>1, <1>3, <1>4, <1>5, <1>7, <2>1 DEF Apart
  <2> QED BY <2>2, <2>3, <2>4
<1>9. \A u \in Threads :
          /\ Apart(Elems(slots'[u]) \cup Elems(taken'[u]), Elems(stack'))
          /\ Apart(Elems(slots'[u]) \cup Elems(taken'[u]), live' \cup heap')
  BY <1>1, <1>3, <1>4, <1>5, <1>7 DEF OwnedOnce, Apart
<1>10. Apart(Elems(stack'), live' \cup heap') /\ Apart(live', heap')
  BY <1>1, <1>3, <1>4, <1>5 DEF OwnedOnce, Apart
<1> QED BY <1>6, <1>8, <1>9, <1>10 DEF OwnedOnce

\* or to the allocator.
LEMMA ReleaseFreeOwned ==
    ASSUME IInv, NEW t \in Threads, ReleaseFree(t) \/ ReleaseUncached(t)
    PROVE  OwnedOnce'
<1>1. OwnedOnce
  BY DEF IInv
<1>2. PICK b \in live : /\ live' = live \ {b} /\ heap' = heap \cup {b}
                        /\ slots' = slots /\ taken' = taken /\ stack' = stack
  BY DEF ReleaseFree, ReleaseUncached
<1> QED BY <1>1, <1>2 DEF OwnedOnce, Apart

\* The blocks of a thread that exits go to the stack.
LEMMA PushDoneOwned ==
    ASSUME IInv, NEW t \in Threads, PushDone(t)
    PROVE  OwnedOnce'
<1>1. OwnedOnce /\ slots \in [Threads -> Seq(Blocks)] /\ stack \in Seq(Blocks)
  BY DEF IInv, TypeOK
<1>2. Apart(Elems(slots[t]), Elems(stack))
  BY <1>1 DEF OwnedOnce, Apart
<1>3. /\ Elems(slots[t] \o stack) = Elems(slots[t]) \cup Elems(stack)
      /\ Distinct(slots[t] \o stack)
  BY <1>1, <1>2, JoinBlocks DEF OwnedOnce
<1>4. /\ \A u \in Threads : slots'[u] = IF u = t THEN <<>> ELSE slots[u]
      /\ taken' = taken /\ stack' = slots[t] \o stack /\ heap' = heap /\ live' = live
  BY <1>1 DEF PushDone
<1>5. \A u \in Threads : Elems(slots'[u]) \subseteq Elems(slots[u]) /\ Distinct(slots'[u])
                         /\ Apart(Elems(slots'[u]), Elems(slots[t]))
  BY <1>1, <1>4, EmptyPlace DEF OwnedOnce, Apart
<1>6. \A u \in Threads : Apart(Elems(slots[t]), Elems(taken[u]))
  BY <1>1 DEF OwnedOnce
<1>7. ASSUME NEW u \in Threads, NEW v \in Threads
      PROVE  /\ u # v => Apart(Elems(slots'[u]), Elems(slots'[v]))
             /\ u # v => Apart(Elems(taken[u]), Elems(taken[v]))
             /\ Apart(Elems(slots'[u]), Elems(taken[v]))
  <2>1. /\ u # v => Apart(Elems(slots[u]), Elems(slots[v]))
        /\ u # v => Apart(Elems(taken[u]), Elems(taken[v]))
        /\ Apart(Elems(slots[u]), Elems(taken[v]))
    BY <1>1 DEF OwnedOnce
  <2> QED BY <1>5, <2>1 DEF Apart
<1>8. \A u \in Threads :
         /\ Apart(Elems(slots'[u]) \cup Elems(taken[u]), Elems(slots[t]) \cup Elems(stack))
         /\ Apart(Elems(slots'[u]) \cup Elems(taken[u]), live \cup heap)
  <2> SUFFICES ASSUME NEW u \in Threads
               PROVE  /\ Apart(Elems(slots'[u]) \cup Elems(taken[u]), Elems(slots[t]) \cup Elems(stack))
                      /\ Apart(Elems(slots'[u]) \cup Elems(taken[u]), live \cup heap)
    OBVIOUS
  <2>1. /\ Apart(Elems(slots[u]) \cup Elems(taken[u]), Elems(stack))
        /\ Apart(Elems(slots[u]) \cup Elems(taken[u]), live \cup heap)
    BY <1>1 DEF OwnedOnce
  <2> QED BY <1>5, <1>6, <2>1 DEF Apart
<1>9. Apart(Elems(slots[t]) \cup Elems(stack), live \cup heap) /\ Apart(live, heap)
  BY <1>1 DEF OwnedOnce, Apart
<1>10. \A u \in Threads : Distinct(taken[u])
  BY <1>1 DEF OwnedOnce
<1> QED BY <1>3, <1>4, <1>5, <1>7, <1>8, <1>9, <1>10 DEF OwnedOnce

LEMMA RespawnOwned ==
    ASSUME IInv, NEW t \in Threads, Respawn(t)
    PROVE  OwnedOnce'
<1>1. OwnedOnce /\ slots \in [Threads -> Seq(Blocks)]
  BY DEF IInv, TypeOK
<1>2. /\ \A u \in Threads : slots'[u] = IF u = t THEN <<>> ELSE slots[u]
      /\ taken' = taken /\ stack' = stack /\ heap' = heap /\ live' = live
  BY <1>1 DEF Respawn
<1> QED BY <1>1, <1>2, EmptyPlace DEF OwnedOnce, Apart

\* The blocks of a thread that drains its cache go to the allocator.
LEMMA FreeOwnOwned ==
    ASSUME IInv, NEW t \in Threads, FreeOwn(t)
    PROVE  OwnedOnce'
<1>1. OwnedOnce /\ slots \in [Threads -> Seq(Blocks)]
  BY DEF IInv, TypeOK
<1>2. taken' = taken /\ stack' = stack /\ live' = live
  BY DEF FreeOwn
<1>3. CASE active[t]
  <2>1. /\ \A u \in Threads : slots'[u] = IF u = t THEN <<>> ELSE slots[u]
        /\ heap' = heap \cup Elems(slots[t])
    BY <1>1, <1>3 DEF FreeOwn
  <2> QED BY <1>1, <1>2, <2>1, EmptyPlace DEF OwnedOnce, Apart
<1>4. CASE ~active[t]
  BY <1>1, <1>2, <1>4 DEF FreeOwn, OwnedOnce, Apart
<1> QED BY <1>3, <1>4

LEMMA StepOwned ==
    ASSUME IInv, NEW t \in Threads, Step(t)
    PROVE  OwnedOnce'
<1>1. CASE UNCHANGED places
  BY <1>1 DEF places, IInv, OwnedOnce, Apart
<1>2. CASE AcquireStep(t)
  <2>1. CASE AdoptTake(t)
    BY <2>1, TakeAllOwned DEF AdoptTake
  <2>2. CASE AdoptKeep(t)
    BY <2>2, AdoptKeepOwned
  <2>3. CASE AdoptTrim(t)
    BY <2>3, FreeChainOwned DEF AdoptTrim
  <2>4. CASE TakeHit(t)
    BY <2>4, TakeHitOwned
  <2>5. CASE TakeMiss(t)
    BY <2>5, TakeMissOwned
  <2>6. CASE AcquireOversized(t) \/ Acquire(t) \/ AdoptLoad(t) \/ AdoptDone(t)
    BY <2>6, <1>1 DEF AcquireOversized, Acquire, AdoptLoad, AdoptDone, places
  <2> QED BY <1>2, <2>1, <2>2, <2>3, <2>4, <2>5, <2>6 DEF AcquireStep
<1>3. CASE ReleaseStep(t)
  BY <1>3, ReleaseKeepOwned, ReleaseFreeOwned DEF ReleaseStep
<1>4. CASE ExitStep(t)
  <2>1. CASE PushDone(t) \/ Respawn(t)
    BY <2>1, PushDoneOwned, RespawnOwned
  <2>2. CASE ThreadExit(t) \/ PushLoad(t) \/ PushRetry(t) \/ Retire(t)
    BY <2>2, <1>1 DEF ThreadExit, PushLoad, PushRetry, Retire, places
  <2> QED BY <1>4, <2>1, <2>2 DEF ExitStep
<1>5. CASE DrainStep(t)
  <2>1. CASE Drain(t) \/ Shutdown(t)
    BY <2>1, FreeOwnOwned DEF Drain, Shutdown
  <2>2. CASE DrainTake(t)
    BY <2>2, TakeAllOwned DEF DrainTake
  <2>3. CASE DrainFree(t)
    BY <2>3, FreeChainOwned DEF DrainFree
  <2>4. CASE DrainDone(t)
    BY <2>4, <1>1 DEF DrainDone, places
  <2> QED BY <1>5, <2>1, <2>2, <2>3, <2>4 DEF DrainStep
<1>6. CASE Startup(t) \/ ReadStatistics(t)
  BY <1>6, <1>1 DEF Startup, ReadStatistics, places
<1> QED BY <1>2, <1>3, <1>4, <1>5, <1>6 DEF Step

-----------------------------------------------------------------------------
(* What a step leaves alone *)

\* enet.h says of a cache that it is "owned by exactly one thread; nothing here
\* is ever touched by another thread": a step of t changes the cache, the chain
\* and the place in the code of no other thread, and the first word of no block
\* but those that t itself holds.
Confined(t) ==
    /\ \A u \in Threads \ {t} : /\ slots'[u] = slots[u] /\ pc'[u] = pc[u]
                                /\ taken'[u] = taken[u] /\ chain'[u] = chain[u]
    /\ \A b \in Blocks : b \notin Elems(slots[t]) \cup Elems(taken[t]) => next'[b] = next[b]

LEMMA StepConfined ==
    ASSUME IInv, NEW t \in Threads, Step(t)
    PROVE  Confined(t)
<1>1. /\ slots \in [Threads -> Seq(Blocks)] /\ pc \in [Threads -> Steps]
      /\ taken \in [Threads -> Seq(Blocks)] /\ chain \in [Threads -> Blocks \cup {NoBlock}]
      /\ next \in [Blocks -> Blocks \cup {NoBlock}]
  BY DEF IInv, TypeOK
<1> USE <1>1 DEF Confined, Go, locals
<1>2. CASE AcquireStep(t)
  <2>1. CASE AcquireOversized(t) \/ Acquire(t) \/ AdoptLoad(t) \/ AdoptDone(t)
    BY <2>1 DEF AcquireOversized, Acquire, AdoptLoad, AdoptDone
  <2>2. CASE AdoptTake(t)
    BY <2>2 DEF AdoptTake, TakeAll
  <2>3. CASE AdoptKeep(t)
    BY <2>3 DEF AdoptKeep, Follow
  <2>4. CASE AdoptTrim(t)
    <3>1. chain[t] \in Elems(taken[t])
      BY <2>4, ChainBlock, TailBlock DEF AdoptTrim
    <3> QED BY <2>4, <3>1 DEF AdoptTrim, Follow, Overwritten
  <2>5. CASE TakeHit(t)
    <3>1. slots[t][Len(slots[t])] \in Elems(slots[t])
      BY <2>5, FrontBlock DEF TakeHit
    <3> QED BY <2>5, <3>1 DEF TakeHit, Overwritten
  <2>6. CASE TakeMiss(t)
    BY <2>6 DEF TakeMiss
  <2> QED BY <1>2, <2>1, <2>2, <2>3, <2>4, <2>5, <2>6 DEF AcquireStep
<1>3. CASE ReleaseStep(t)
  BY <1>3 DEF ReleaseStep, ReleaseKeep, ReleaseFree, ReleaseUncached
<1>4. CASE ExitStep(t)
  <2>1. CASE ThreadExit(t)
    <3>1. next' = LinkedIn(slots[t])
      BY <2>1 DEF ThreadExit
    <3>2. \A b \in Blocks : b \notin Elems(slots[t]) => next'[b] = next[b]
      BY <3>1 DEF LinkedIn, Elems
    <3> QED BY <2>1, <3>2 DEF ThreadExit
  <2>2. CASE PushLoad(t) \/ Retire(t) \/ Respawn(t)
    BY <2>2 DEF PushLoad, Retire, Respawn
  <2>3. CASE PushDone(t) \/ PushRetry(t)
    <3>1. slots[t] # <<>>
      BY <2>3 DEF PushDone, PushRetry, IInv, Pushing
    <3>2. slots[t][Len(slots[t])] \in Elems(slots[t])
      BY <3>1, FrontBlock
    <3> QED BY <2>3, <3>2 DEF PushDone, PushRetry, LinkLast
  <2> QED BY <1>4, <2>1, <2>2, <2>3 DEF ExitStep
<1>5. CASE DrainStep(t)
  <2>1. CASE Drain(t) \/ Shutdown(t)
    BY <2>1 DEF Drain, Shutdown, FreeOwn
  <2>2. CASE DrainTake(t) \/ DrainDone(t)
    BY <2>2 DEF DrainTake, TakeAll, DrainDone
  <2>3. CASE DrainFree(t)
    <3>1. chain[t] \in Elems(taken[t])
      BY <2>3, ChainBlock, TailBlock DEF DrainFree
    <3> QED BY <2>3, <3>1 DEF DrainFree, Follow, Overwritten
  <2> QED BY <1>5, <2>1, <2>2, <2>3 DEF DrainStep
<1>6. CASE Startup(t) \/ ReadStatistics(t)
  BY <1>6 DEF Startup, ReadStatistics
<1> QED BY <1>2, <1>3, <1>4, <1>5, <1>6 DEF Step

-----------------------------------------------------------------------------
(* The stack and the chains are lists *)

\* A list whose blocks keep their links stays a list.
LEMMA ListKept ==
    ASSUME NEW first, NEW s \in Seq(Blocks), IsList(first, s),
           \A b \in Elems(s) : next'[b] = next[b]
    PROVE  /\ first = First(s)
           /\ \A i \in DOMAIN s : next'[s[i]] = IF i = Len(s) THEN NoBlock ELSE s[i + 1]
BY DEF IsList, Elems

\* The chain that another thread walks is not disturbed.
LEMMA OthersLinked ==
    ASSUME IInv, NEW t \in Threads, Confined(t), NEW u \in Threads, u # t
    PROVE  IsList(chain[u], taken[u])'
<1>1. /\ taken[u] \in Seq(Blocks) /\ IsList(chain[u], taken[u])
      /\ taken'[u] = taken[u] /\ chain'[u] = chain[u]
      /\ Elems(taken[u]) \subseteq Blocks
  BY DEF IInv, TypeOK, StackLinked, Confined, Elems
<1>2. \A b \in Elems(taken[u]) : b \notin Elems(slots[t]) \cup Elems(taken[t])
  BY DEF IInv, OwnedOnce, Apart
<1>3. \A b \in Elems(taken[u]) : next'[b] = next[b]
  BY <1>1, <1>2 DEF Confined
<1> QED BY <1>1, <1>3, ListKept DEF IsList

\* Nor is the stack, while it is neither pushed to nor taken.
LEMMA StackKept ==
    ASSUME IInv, NEW t \in Threads, Confined(t), UNCHANGED <<orphans, stack>>
    PROVE  IsList(orphans, stack)'
<1>1. stack \in Seq(Blocks) /\ IsList(orphans, stack) /\ Elems(stack) \subseteq Blocks
  BY DEF IInv, TypeOK, StackLinked, Elems
<1>2. \A b \in Elems(stack) : b \notin Elems(slots[t]) \cup Elems(taken[t])
  BY DEF IInv, OwnedOnce, Apart
<1>3. \A b \in Elems(stack) : next'[b] = next[b]
  BY <1>1, <1>2 DEF Confined
<1> QED BY <1>1, <1>3, ListKept DEF IsList

\* Nor is the thread's own chain by what it does with its own cache.
LEMMA OwnChainKept ==
    ASSUME IInv, NEW t \in Threads, chain' = chain, taken' = taken,
           \A b \in Blocks : b \notin Elems(slots[t]) => next'[b] = next[b]
    PROVE  IsList(chain[t], taken[t])'
<1>1. taken[t] \in Seq(Blocks) /\ IsList(chain[t], taken[t]) /\ Elems(taken[t]) \subseteq Blocks
  BY DEF IInv, TypeOK, StackLinked, Elems
<1>2. \A b \in Elems(taken[t]) : next'[b] = next[b]
  BY <1>1 DEF IInv, OwnedOnce, Apart
<1> QED BY <1>1, <1>2, ListKept DEF IsList

\* The chain without its first block is a list, if the other links are kept.
LEMMA FollowLinked ==
    ASSUME IInv, NEW t \in Threads, chain[t] # NoBlock, Follow(t),
           \A b \in Blocks : b # chain[t] => next'[b] = next[b]
    PROVE  IsList(chain[t], taken[t])'
<1> DEFINE s == taken[t]
<1>1. /\ s \in Seq(Blocks) /\ s # <<>> /\ chain[t] = First(s)
      /\ next[chain[t]] = First(Tail(s)) /\ IsList(chain[t], s) /\ Distinct(s)
  BY ChainBlock DEF IInv, StackLinked, OwnedOnce
<1>2. /\ Tail(s) \in Seq(Blocks) /\ Len(s) \in Nat /\ Len(s) >= 1
      /\ Len(Tail(s)) = Len(s) - 1 /\ First(s) \notin Elems(Tail(s))
      /\ \A i \in 1 .. Len(s) - 1 : Tail(s)[i] = s[i + 1]
  BY <1>1, TailBlock
<1>3. chain'[t] = First(Tail(s)) /\ taken'[t] = Tail(s)
  BY <1>1 DEF Follow, IInv, TypeOK
<1>4. ASSUME NEW i \in DOMAIN Tail(s)
      PROVE  next'[Tail(s)[i]] = IF i = Len(Tail(s)) THEN NoBlock ELSE Tail(s)[i + 1]
  <2>1. i \in 1 .. Len(s) - 1 /\ i + 1 \in 1 .. Len(s) /\ DOMAIN s = 1 .. Len(s)
    BY <1>1, <1>2
  <2>2. Tail(s)[i] \in Blocks /\ Tail(s)[i] # chain[t] /\ Tail(s)[i] = s[i + 1]
    BY <1>1, <1>2, <2>1 DEF Elems
  <2>3. next'[Tail(s)[i]] = next[s[i + 1]]
    BY <2>2
  <2>4. next[s[i + 1]] = IF i + 1 = Len(s) THEN NoBlock ELSE s[(i + 1) + 1]
    BY <1>1, <2>1 DEF IsList
  <2>5. CASE i = Len(Tail(s))
    BY <2>3, <2>4, <2>5, <1>2
  <2>6. CASE i # Len(Tail(s))
    <3>1. i + 1 \in 1 .. Len(s) - 1 /\ i + 1 # Len(s)
      BY <2>1, <2>6, <1>2
    <3>2. Tail(s)[i + 1] = s[(i + 1) + 1]
      BY <3>1, <1>2
    <3> QED BY <2>3, <2>4, <2>6, <3>1, <3>2
  <2> QED BY <2>5, <2>6
<1> HIDE DEF s
<1> QED BY <1>3, <1>4 DEF IsList

\* The stack with the pushed blocks in front is a list: the last of them links
\* to the top that the compare-and-swap found in place, whatever happened to
\* the stack since that top was read.
LEMMA PushLinked ==
    ASSUME IInv, NEW t \in Threads, PushDone(t)
    PROVE  IsList(orphans, stack)'
<1> DEFINE p == slots[t]
           n == Len(slots[t])
<1>1. /\ p \in Seq(Blocks) /\ p # <<>> /\ stack \in Seq(Blocks) /\ head[t] = orphans
      /\ \A i \in 1 .. n - 1 : next[p[i]] = p[i + 1]
      /\ IsList(orphans, stack) /\ Distinct(p) /\ Apart(Elems(p), Elems(stack))
      /\ next \in [Blocks -> Blocks \cup {NoBlock}]
  BY DEF IInv, TypeOK, StackLinked, OwnedOnce, Pushing, PushDone, Go, Apart
<1>2. /\ next' = [next EXCEPT ![p[n]] = head[t]]
      /\ orphans' = First(p) /\ stack' = p \o stack
  BY DEF PushDone, LinkLast
<1>3. /\ First(p) = p[1] /\ n \in Nat /\ n >= 1 /\ DOMAIN p = 1 .. n
      /\ Len(stack) \in Nat /\ DOMAIN stack = 1 .. Len(stack)
      /\ \A i \in 1 .. n : p[i] \in Blocks /\ p[i] \in Elems(p)
      /\ \A j \in 1 .. Len(stack) : stack[j] \in Blocks /\ stack[j] \in Elems(stack)
  BY <1>1, TailBlock DEF Elems
<1>4. /\ stack' \in Seq(Blocks) /\ Len(stack') = n + Len(stack)
      /\ \A i \in 1 .. n : stack'[i] = p[i]
      /\ \A j \in 1 .. Len(stack) : stack'[n + j] = stack[j]
  BY <1>1, <1>2, JoinBlocks
<1> HIDE DEF p, n
<1>5. orphans' = First(stack')
  <2>1. stack'[1] = p[1] /\ Len(stack') # 0 /\ Len(<<>>) = 0
    BY <1>3, <1>4
  <2>2. stack' # <<>>
    BY <2>1, Zenon
  <2> QED BY <1>2, <1>3, <2>1, <2>2 DEF First
<1>6. ASSUME NEW i \in 1 .. n - 1
      PROVE  next'[stack'[i]] = stack'[i + 1]
  <2>1. i \in 1 .. n /\ i + 1 \in 1 .. n /\ n \in 1 .. n /\ i # n
    BY <1>3
  <2>2. p[i] # p[n]
    BY <1>1, <1>3, <2>1 DEF Distinct
  <2>3. next'[p[i]] = next[p[i]]
    BY <1>1, <1>2, <1>3, <2>1, <2>2
  <2> QED BY <1>1, <1>4, <2>1, <2>3
<1>7. next'[stack'[n]] = First(stack)
  <2>1. n \in 1 .. n /\ p[n] \in Blocks
    BY <1>3
  <2>2. next'[p[n]] = orphans
    BY <1>1, <1>2, <2>1
  <2> QED BY <1>1, <1>4, <2>1, <2>2 DEF IsList
<1>8. ASSUME NEW j \in 1 .. Len(stack)
      PROVE  next'[stack'[n + j]] = IF j = Len(stack) THEN NoBlock ELSE stack[j + 1]
  <2>1. n \in 1 .. n
    BY <1>3
  <2>2. stack[j] # p[n]
    BY <1>1, <1>3, <2>1 DEF Apart
  <2>3. next'[stack[j]] = next[stack[j]]
    BY <1>1, <1>2, <1>3, <2>2
  <2>4. next[stack[j]] = IF j = Len(stack) THEN NoBlock ELSE stack[j + 1]
    BY <1>1, <1>3 DEF IsList
  <2> QED BY <1>4, <2>3, <2>4
<1>9. ASSUME NEW k \in DOMAIN stack'
      PROVE  next'[stack'[k]] = IF k = Len(stack') THEN NoBlock ELSE stack'[k + 1]
  <2>1. k \in 1 .. n + Len(stack)
    BY <1>4
  <2>2. CASE k \in 1 .. n - 1
    BY <2>2, <1>3, <1>4, <1>6
  <2>3. CASE k = n
    <3>1. CASE stack = <<>>
      BY <2>3, <3>1, <1>4, <1>7 DEF First
    <3>2. CASE stack # <<>>
      <4>1. Len(stack) >= 1 /\ First(stack) = stack[1]
        BY <1>1, <3>2, TailBlock
      <4>2. stack'[n + 1] = stack[1]
        BY <4>1, <1>3, <1>4
      <4> QED BY <2>3, <4>1, <4>2, <1>3, <1>4, <1>7
    <3> QED BY <3>1, <3>2
  <2>4. CASE k \in n + 1 .. n + Len(stack)
    <3> DEFINE j == k - n
    <3>1. j \in 1 .. Len(stack) /\ k = n + j
      BY <2>4, <1>3
    <3>2. next'[stack'[k]] = IF j = Len(stack) THEN NoBlock ELSE stack[j + 1]
      BY <3>1, <1>8
    <3>3. CASE j = Len(stack)
      BY <3>1, <3>2, <3>3, <1>4
    <3>4. CASE j # Len(stack)
      <4>1. j + 1 \in 1 .. Len(stack) /\ k + 1 = n + (j + 1) /\ k # n + Len(stack)
        BY <3>1, <3>4, <1>3
      <4>2. stack'[k + 1] = stack[j + 1]
        BY <4>1, <1>4
      <4> QED BY <3>2, <3>4, <4>1, <4>2, <1>4
    <3> QED BY <3>3, <3>4
  <2> QED BY <2>1, <2>2, <2>3, <2>4, <1>3
<1> QED BY <1>5, <1>9 DEF IsList

\* Taking the stack makes it the thread's chain and leaves an empty one.
LEMMA TakeAllLinked ==
    ASSUME IInv, NEW t \in Threads, TakeAll(t), next' = next
    PROVE  IsList(orphans, stack)' /\ IsList(chain[t], taken[t])'
<1>1. IsList(orphans, stack)'
  BY DEF TakeAll, IsList, First
<1>2. chain'[t] = orphans /\ taken'[t] = stack
  BY DEF TakeAll, IInv, TypeOK
<1>3. IsList(orphans, stack)
  BY DEF IInv, StackLinked
<1> QED BY <1>1, <1>2, <1>3 DEF IsList

LEMMA StepLinked ==
    ASSUME IInv, NEW t \in Threads, Step(t)
    PROVE  StackLinked'
<1>1. Confined(t)
  BY StepConfined
<1>2. /\ slots \in [Threads -> Seq(Blocks)] /\ taken \in [Threads -> Seq(Blocks)]
      /\ next \in [Blocks -> Blocks \cup {NoBlock}]
  BY DEF IInv, TypeOK
<1>3. SUFFICES IsList(orphans, stack)' /\ IsList(chain[t], taken[t])'
  BY <1>1, OthersLinked DEF StackLinked
<1>4. CASE AdoptTake(t) \/ DrainTake(t)
  BY <1>4, TakeAllLinked DEF AdoptTake, DrainTake
<1>5. CASE AdoptKeep(t) \/ AdoptTrim(t) \/ DrainFree(t)
  <2>1. \A b \in Blocks : b # chain[t] => next'[b] = next[b]
    BY <1>2, <1>5 DEF AdoptKeep, AdoptTrim, DrainFree, Overwritten
  <2>2. UNCHANGED <<orphans, stack>> /\ chain[t] # NoBlock /\ Follow(t)
    BY <1>5 DEF AdoptKeep, AdoptTrim, DrainFree
  <2> QED BY <1>1, <2>1, <2>2, FollowLinked, StackKept
<1>6. CASE /\ chain' = chain /\ taken' = taken
           /\ \A b \in Blocks : b \notin Elems(slots[t]) => next'[b] = next[b]
           /\ UNCHANGED <<orphans, stack>> \/ PushDone(t)
  BY <1>1, <1>6, OwnChainKept, StackKept, PushLinked
<1>7. CASE TakeHit(t)
  <2>1. slots[t][Len(slots[t])] \in Elems(slots[t])
    BY <1>2, <1>7, FrontBlock DEF TakeHit
  <2>2. \A b \in Blocks : b \notin Elems(slots[t]) => next'[b] = next[b]
    BY <1>2, <1>7, <2>1 DEF TakeHit, Overwritten
  <2> QED BY <1>6, <1>7, <2>2 DEF TakeHit, locals
<1>8. CASE PushDone(t) \/ PushRetry(t)
  <2>1. slots[t] # <<>>
    BY <1>8 DEF PushDone, PushRetry, Go, IInv, Pushing
  <2>2. slots[t][Len(slots[t])] \in Elems(slots[t])
    BY <1>2, <2>1, FrontBlock
  <2>3. \A b \in Blocks : b \notin Elems(slots[t]) => next'[b] = next[b]
    BY <1>2, <1>8, <2>2 DEF PushDone, PushRetry, LinkLast
  <2> QED BY <1>6, <1>8, <2>3 DEF PushDone, PushRetry
<1>9. CASE ThreadExit(t)
  <2>1. next' = LinkedIn(slots[t])
    BY <1>9 DEF ThreadExit
  <2>2. \A b \in Blocks : b \notin Elems(slots[t]) => next'[b] = next[b]
    BY <2>1 DEF LinkedIn, Elems
  <2> QED BY <1>6, <1>9, <2>2 DEF ThreadExit, locals
<1>10. CASE Drain(t) \/ Shutdown(t)
  BY <1>6, <1>10 DEF Drain, Shutdown, FreeOwn
<1>11. CASE AcquireStep(t)
  BY <1>4, <1>5, <1>6, <1>7, <1>11
     DEF AcquireStep, AcquireOversized, Acquire, AdoptLoad, AdoptDone, TakeMiss, locals
<1>12. CASE ReleaseStep(t)
  BY <1>6, <1>12 DEF ReleaseStep, ReleaseKeep, ReleaseFree, ReleaseUncached, locals
<1>13. CASE ExitStep(t)
  BY <1>6, <1>8, <1>9, <1>13 DEF ExitStep, PushLoad, Retire, Respawn, locals
<1>14. CASE DrainStep(t)
  BY <1>4, <1>5, <1>6, <1>10, <1>14 DEF DrainStep, DrainDone
<1>15. CASE Startup(t) \/ ReadStatistics(t)
  BY <1>6, <1>15 DEF Startup, ReadStatistics, locals
<1> QED BY <1>11, <1>12, <1>13, <1>14, <1>15 DEF Step

-----------------------------------------------------------------------------
(* A thread that pushes keeps its blocks linked *)

\* The blocks of another thread that pushes are not disturbed.
LEMMA OthersPushing ==
    ASSUME IInv, NEW t \in Threads, Confined(t), NEW u \in Threads, u # t,
           pc'[u] \in {"push", "cas"}
    PROVE  /\ slots'[u] # <<>>
           /\ \A i \in 1 .. Len(slots'[u]) - 1 : next'[slots'[u][i]] = slots'[u][i + 1]
<1>1. /\ slots'[u] = slots[u] /\ pc'[u] = pc[u] /\ slots[u] \in Seq(Blocks)
      /\ Elems(slots[u]) \subseteq Blocks
  BY DEF Confined, IInv, TypeOK, Elems
<1>2. /\ slots[u] # <<>>
      /\ \A i \in 1 .. Len(slots[u]) - 1 : next[slots[u][i]] = slots[u][i + 1]
  BY <1>1 DEF IInv, Pushing
<1>3. \A b \in Elems(slots[u]) : next'[b] = next[b]
  BY <1>1 DEF Confined, IInv, OwnedOnce, Apart
<1>4. \A i \in 1 .. Len(slots[u]) - 1 : slots[u][i] \in Elems(slots[u])
  BY <1>1 DEF Elems
<1> QED BY <1>1, <1>2, <1>3, <1>4

\* The exit hook links the blocks one to the next.
LEMMA LinkedInLinks ==
    ASSUME NEW s \in Seq(Blocks), Distinct(s), NEW i \in 1 .. Len(s) - 1
    PROVE  LinkedIn(s)[s[i]] = s[i + 1]
<1>1. Len(s) \in Nat /\ DOMAIN s = 1 .. Len(s) /\ i \in 1 .. Len(s) /\ s[i] \in Blocks
  OBVIOUS
<1> DEFINE k == CHOOSE j \in 1 .. Len(s) - 1 : s[j] = s[i]
<1>2. k \in 1 .. Len(s) - 1 /\ s[k] = s[i]
  OBVIOUS
<1>3. k \in 1 .. Len(s)
  BY <1>1, <1>2
<1>4. k = i
  BY <1>1, <1>2, <1>3 DEF Distinct
<1>5. LinkedIn(s)[s[i]] = s[k + 1]
  BY <1>1 DEF LinkedIn
<1> QED BY <1>4, <1>5

LEMMA StepPushing ==
    ASSUME IInv, NEW t \in Threads, Step(t)
    PROVE  Pushing'
<1>1. Confined(t)
  BY StepConfined
<1>2. /\ slots \in [Threads -> Seq(Blocks)] /\ pc \in [Threads -> Steps]
      /\ next \in [Blocks -> Blocks \cup {NoBlock}] /\ slots[t] \in Seq(Blocks)
      /\ Distinct(slots[t])
  BY DEF IInv, TypeOK, OwnedOnce
<1>3. SUFFICES ASSUME pc'[t] \in {"push", "cas"}
               PROVE  /\ slots'[t] # <<>>
                      /\ \A i \in 1 .. Len(slots'[t]) - 1 :
                            next'[slots'[t][i]] = slots'[t][i + 1]
  BY <1>1, OthersPushing DEF Pushing
<1>4. CASE ThreadExit(t)
  <2>1. slots'[t] = slots[t] /\ next' = LinkedIn(slots[t])
    BY <1>4 DEF ThreadExit
  <2>2. slots[t] # <<>>
    BY <1>2, <1>3, <1>4 DEF ThreadExit, Go
  <2> QED BY <1>2, <2>1, <2>2, LinkedInLinks
<1>5. CASE PushLoad(t)
  BY <1>2, <1>5 DEF PushLoad, Go, IInv, Pushing
<1>6. CASE PushRetry(t)
  <2>1. /\ slots[t] # <<>> /\ slots'[t] = slots[t]
        /\ \A i \in 1 .. Len(slots[t]) - 1 : next[slots[t][i]] = slots[t][i + 1]
    BY <1>6 DEF PushRetry, Go, IInv, Pushing
  <2>2. ASSUME NEW i \in 1 .. Len(slots[t]) - 1
        PROVE  next'[slots[t][i]] = slots[t][i + 1]
    <3>1. i \in DOMAIN slots[t] /\ Len(slots[t]) \in DOMAIN slots[t] /\ i # Len(slots[t])
      BY <1>2
    <3>2. slots[t][i] # slots[t][Len(slots[t])] /\ slots[t][i] \in Blocks
      BY <1>2, <3>1 DEF Distinct
    <3>3. next' = [next EXCEPT ![slots[t][Len(slots[t])]] = head[t]]
      BY <1>6 DEF PushRetry, LinkLast
    <3> QED BY <1>2, <2>1, <3>2, <3>3
  <2> QED BY <2>1, <2>2
<1>7. CASE AcquireStep(t)
  BY <1>2, <1>3, <1>7
     DEF AcquireStep, AcquireOversized, Acquire, AdoptLoad, AdoptTake, AdoptKeep,
         AdoptTrim, AdoptDone, TakeHit, TakeMiss, Go
<1>8. CASE ReleaseStep(t)
  BY <1>2, <1>3, <1>8 DEF ReleaseStep, ReleaseKeep, ReleaseFree, ReleaseUncached, Go
<1>9. CASE ExitStep(t)
  BY <1>2, <1>3, <1>4, <1>5, <1>6, <1>9 DEF ExitStep, PushDone, Retire, Respawn, Go
<1>10. CASE DrainStep(t)
  BY <1>2, <1>3, <1>10
     DEF DrainStep, Drain, Shutdown, FreeOwn, DrainTake, DrainFree, DrainDone, Go
<1>11. CASE Startup(t) \/ ReadStatistics(t)
  BY <1>2, <1>3, <1>11 DEF Startup, ReadStatistics, Go
<1> QED BY <1>7, <1>8, <1>9, <1>10, <1>11 DEF Step

-----------------------------------------------------------------------------
(* The theorems *)

LEMMA NextIInv == IInv /\ [Next]_vars => IInv'
<1>1. ASSUME IInv, NEW t \in Threads, Step(t) PROVE IInv'
  BY <1>1, StepType, StepOwned, StepLinked, StepPushing DEF IInv
<1>2. ASSUME IInv, UNCHANGED vars PROVE IInv'
  <2>1. TypeOK'
    BY <1>2 DEF vars, locals, IInv, TypeOK
  <2>2. OwnedOnce'
    BY <1>2 DEF vars, locals, IInv, OwnedOnce, Apart
  <2>3. StackLinked' /\ Pushing'
    BY <1>2 DEF vars, locals, IInv, StackLinked, IsList, Pushing
  <2> QED BY <2>1, <2>2, <2>3 DEF IInv
<1> QED BY <1>1, <1>2 DEF Next, Step

THEOREM Inductive == Spec => []IInv
BY InitIInv, NextIInv, PTL DEF Spec

\* Whatever the number of threads and blocks and the limits, every variable of
\* the pool keeps its type, and no cache exceeds its array: adopting the blocks
\* of exited threads and releasing by any thread included.
THEOREM TypeCorrect == Spec => []TypeOK
<1>1. IInv => TypeOK
  BY DEF IInv
<1> QED BY <1>1, Inductive, PTL

\* No block is ever in two caches, on the stack and in a cache, adopted by two
\* threads, or handed to the application while the pool still has it.
THEOREM ExclusiveOwnership == Spec => []OwnedOnce
<1>1. IInv => OwnedOnce
  BY DEF IInv
<1> QED BY <1>1, Inductive, PTL

\* The orphan stack and the chains taken from it always are the lists of the
\* blocks parked there, pushed by compare-and-swap and taken by exchange only:
\* the scheme is immune to ABA for any number of threads.
THEOREM StackIntact == Spec => []StackLinked
<1>1. IInv => StackLinked
  BY DEF IInv
<1> QED BY <1>1, Inductive, PTL

\* A step of a thread changes no other thread's cache and the first word of no
\* block but its own, so a cache needs no lock.
THEOREM CachesPrivate == Spec => [][\E t \in Threads : Confined(t)]_vars
<1>1. ASSUME IInv, Next PROVE \E t \in Threads : Confined(t)
  BY <1>1, StepConfined DEF Next, Step
<1>2. IInv /\ [Next]_vars => [\E t \in Threads : Confined(t)]_vars
  BY <1>1
<1> QED BY <1>2, Inductive, PTL DEF Spec

-----------------------------------------------------------------------------
(* No block is lost.  Above, no block is in two places; below, each is in one. *)
(* The steps that forget a cache or a chain (the end of an exit, a thread that  *)
(* takes the place of another, the taking of the stack) lose nothing only       *)
(* because what they forget is empty, which is what CacheSound says.            *)

\* The cache of a thread exists while it holds blocks or is used; a thread whose
\* hook has run has nothing in it once its push is over; and a chain is held
\* only while it is walked.
CacheSound(t) ==
    /\ pc[t] \in {"adopt", "exchange", "walk", "take"} => active[t] /\ ~retired[t]
    /\ pc[t] \in {"push", "cas", "retire"} => active[t]
    /\ pc[t] = "retire" => slots[t] = <<>>
    /\ slots[t] # <<>> => active[t]
    /\ retired[t] => slots[t] = <<>> \/ pc[t] \in {"push", "cas"}
    /\ pc[t] \notin {"walk", "free"} => taken[t] = <<>>

KInv == NothingLost /\ \A t \in Threads : CacheSound(t)

\* Where the blocks are that no thread's cache or chain holds.
Home == live \cup heap \cup Elems(stack)
Own(t) == Elems(slots[t]) \cup Elems(taken[t])

LEMMA InitKInv == Init => KInv
<1> SUFFICES ASSUME Init PROVE KInv
  OBVIOUS
<1> USE DEF Init
<1>1. /\ Elems(stack) = {} /\ live \cup heap = Blocks
      /\ \A t \in Threads : Elems(slots[t]) = {} /\ Elems(taken[t]) = {}
  BY EmptyPlace
<1>2. UNION {Elems(slots[t]) \cup Elems(taken[t]) : t \in Threads} = {}
  BY <1>1
<1>3. NothingLost
  BY <1>1, <1>2 DEF NothingLost
<1>4. \A t \in Threads : CacheSound(t)
  BY DEF CacheSound
<1> QED BY <1>3, <1>4 DEF KInv

-----------------------------------------------------------------------------
(* Sequences of blocks *)

\* The last block of a sequence, and the first, is all that Front, and Tail,
\* leave out.
LEMMA FrontLeaves ==
    ASSUME NEW S, NEW s \in Seq(S), s # <<>>
    PROVE  Elems(s) \subseteq Elems(Front(s)) \cup {s[Len(s)]}
<1>1. Len(s) \in Nat /\ Len(s) >= 1 /\ DOMAIN s = 1 .. Len(s)
  OBVIOUS
<1>2. /\ DOMAIN Front(s) = 1 .. Len(s) - 1
      /\ \A i \in 1 .. Len(s) - 1 : Front(s)[i] = s[i]
  BY <1>1 DEF Front
<1>3. ASSUME NEW i \in 1 .. Len(s), i # Len(s) PROVE s[i] \in Elems(Front(s))
  <2> DEFINE n == Len(s)
  <2>1. n \in Nat /\ i \in 1 .. n /\ i # n
    BY <1>1, <1>3
  <2> HIDE DEF n
  <2>2. i \in 1 .. n - 1
    BY <2>1
  <2> QED BY <1>2, <2>2 DEF Elems, n
<1> QED BY <1>1, <1>3 DEF Elems

LEMMA TailLeaves ==
    ASSUME NEW S, NEW s \in Seq(S), s # <<>>
    PROVE  Elems(s) \subseteq Elems(Tail(s)) \cup {First(s)}
<1>1. Len(s) \in Nat /\ Len(s) >= 1 /\ DOMAIN s = 1 .. Len(s)
  OBVIOUS
<1>2. /\ First(s) = s[1] /\ Tail(s) \in Seq(S) /\ Len(Tail(s)) = Len(s) - 1
      /\ \A i \in 1 .. Len(s) - 1 : Tail(s)[i] = s[i + 1]
  BY TailBlock
<1>3. ASSUME NEW i \in 1 .. Len(s), i # 1 PROVE s[i] \in Elems(Tail(s))
  <2>1. i - 1 \in 1 .. Len(s) - 1 /\ i - 1 \in DOMAIN Tail(s) /\ (i - 1) + 1 = i
    BY <1>1, <1>2, <1>3
  <2>2. Tail(s)[i - 1] = s[i]
    BY <1>2, <2>1
  <2> QED BY <2>1, <2>2 DEF Elems
<1> QED BY <1>1, <1>2, <1>3 DEF Elems

-----------------------------------------------------------------------------
(* The state of the caches *)

\* A step leaves the flags of the other threads alone.
LEMMA OthersSound ==
    ASSUME IInv, NEW t \in Threads, Step(t), NEW u \in Threads, u # t
    PROVE  active'[u] = active[u] /\ retired'[u] = retired[u]
<1>1. active \in [Threads -> BOOLEAN] /\ retired \in [Threads -> BOOLEAN]
  BY DEF IInv, TypeOK
<1> USE <1>1 DEF CacheGet, NoCache
<1>2. CASE AcquireStep(t)
  BY <1>2 DEF AcquireStep, AcquireOversized, Acquire, AdoptLoad, AdoptTake, AdoptKeep,
              AdoptTrim, AdoptDone, TakeHit, TakeMiss
<1>3. CASE ReleaseStep(t)
  BY <1>3 DEF ReleaseStep, ReleaseKeep, ReleaseFree, ReleaseUncached
<1>4. CASE ExitStep(t)
  BY <1>4 DEF ExitStep, ThreadExit, PushLoad, PushDone, PushRetry, Retire, Respawn
<1>5. CASE DrainStep(t)
  BY <1>5 DEF DrainStep, Drain, Shutdown, FreeOwn, DrainTake, DrainFree, DrainDone
<1>6. CASE Startup(t) \/ ReadStatistics(t)
  BY <1>6 DEF Startup, ReadStatistics
<1> QED BY <1>2, <1>3, <1>4, <1>5, <1>6 DEF Step

\* A chain that was walked to its end is empty.
LEMMA ChainEnded ==
    ASSUME IInv, NEW t \in Threads, chain[t] = NoBlock
    PROVE  taken[t] = <<>>
<1>1. taken[t] \in Seq(Blocks) /\ chain[t] = First(taken[t])
  BY DEF IInv, TypeOK, StackLinked, IsList
<1>2. ASSUME taken[t] # <<>> PROVE FALSE
  <2>1. First(taken[t]) \in Blocks
    BY <1>1, <1>2, TailBlock
  <2> QED BY <1>1, <2>1
<1> QED BY <1>2

LEMMA AcquireSound ==
    ASSUME IInv, NEW t \in Threads, CacheSound(t), AcquireStep(t)
    PROVE  CacheSound(t)'
<1>1. /\ active \in [Threads -> BOOLEAN] /\ retired \in [Threads -> BOOLEAN]
      /\ pc \in [Threads -> Steps] /\ slots \in [Threads -> Seq(Blocks)]
      /\ taken \in [Threads -> Seq(Blocks)]
  BY DEF IInv, TypeOK
<1> USE <1>1 DEF CacheSound, Go
<1>2. CASE AcquireOversized(t) \/ Acquire(t)
  BY <1>2 DEF AcquireOversized, Acquire, CacheGet
<1>3. CASE AdoptLoad(t) \/ AdoptTake(t)
  BY <1>3 DEF AdoptLoad, AdoptTake
<1>4. CASE AdoptKeep(t) \/ AdoptTrim(t)
  BY <1>4 DEF AdoptKeep, AdoptTrim
<1>5. CASE AdoptDone(t)
  BY <1>5, ChainEnded DEF AdoptDone
<1>6. CASE TakeHit(t) \/ TakeMiss(t)
  BY <1>6 DEF TakeHit, TakeMiss
<1> QED BY <1>2, <1>3, <1>4, <1>5, <1>6 DEF AcquireStep

LEMMA ExitSound ==
    ASSUME IInv, NEW t \in Threads, CacheSound(t), ExitStep(t)
    PROVE  CacheSound(t)'
<1>1. /\ active \in [Threads -> BOOLEAN] /\ retired \in [Threads -> BOOLEAN]
      /\ pc \in [Threads -> Steps] /\ slots \in [Threads -> Seq(Blocks)]
      /\ taken \in [Threads -> Seq(Blocks)]
  BY DEF IInv, TypeOK
<1> USE <1>1 DEF CacheSound, Go
<1>2. CASE ThreadExit(t)
  BY <1>2 DEF ThreadExit
<1>3. CASE PushLoad(t) \/ PushDone(t) \/ PushRetry(t)
  BY <1>3 DEF PushLoad, PushDone, PushRetry
<1>4. CASE Retire(t) \/ Respawn(t)
  BY <1>4 DEF Retire, Respawn
<1> QED BY <1>2, <1>3, <1>4 DEF ExitStep

LEMMA StepSound ==
    ASSUME IInv, NEW t \in Threads, CacheSound(t), Step(t)
    PROVE  CacheSound(t)'
<1>1. /\ active \in [Threads -> BOOLEAN] /\ retired \in [Threads -> BOOLEAN]
      /\ pc \in [Threads -> Steps] /\ slots \in [Threads -> Seq(Blocks)]
      /\ taken \in [Threads -> Seq(Blocks)]
  BY DEF IInv, TypeOK
<1>2. CASE AcquireStep(t)
  BY <1>2, AcquireSound
<1>3. CASE ReleaseStep(t)
  BY <1>1, <1>3
     DEF ReleaseStep, ReleaseKeep, ReleaseFree, ReleaseUncached, CacheGet, NoCache, CacheSound, Go
<1>4. CASE ExitStep(t)
  BY <1>4, ExitSound
<1>5. CASE DrainStep(t)
  <2>1. CASE Drain(t) \/ Shutdown(t)
    BY <1>1, <2>1 DEF Drain, Shutdown, FreeOwn, CacheSound, Go
  <2>2. CASE DrainTake(t) \/ DrainFree(t)
    BY <1>1, <2>2 DEF DrainTake, DrainFree, CacheSound, Go
  <2>3. CASE DrainDone(t)
    BY <1>1, <2>3, ChainEnded DEF DrainDone, CacheSound, Go
  <2> QED BY <1>5, <2>1, <2>2, <2>3 DEF DrainStep
<1>6. CASE Startup(t) \/ ReadStatistics(t)
  BY <1>1, <1>6 DEF Startup, ReadStatistics, CacheSound, Go
<1> QED BY <1>2, <1>3, <1>4, <1>5, <1>6 DEF Step

-----------------------------------------------------------------------------
(* What each step does with its blocks *)

\* A step that keeps what is at home and what its thread owns keeps all.
LEMMA KeepsAll ==
    ASSUME IInv, NothingLost, NEW t \in Threads, Step(t), TypeOK',
           Home \cup Own(t) \subseteq Home' \cup Own(t)'
    PROVE  NothingLost'
<1>1. \A u \in Threads : u # t => Own(u)' = Own(u)
  BY StepConfined DEF Confined, Own
<1>2. Blocks = Home \cup UNION {Own(u) : u \in Threads}
  BY DEF NothingLost, Home, Own
<1>3. Blocks \subseteq Home' \cup UNION {Own(u)' : u \in Threads}
  BY <1>1, <1>2
<1>4. Home' \cup UNION {Own(u)' : u \in Threads} \subseteq Blocks
  <2>1. Home' \subseteq Blocks
    BY DEF TypeOK, Home, Elems
  <2>2. ASSUME NEW u \in Threads PROVE Own(u)' \subseteq Blocks
    BY DEF TypeOK, Own, Elems
  <2> QED BY <2>1, <2>2
<1>5. Blocks = Home' \cup UNION {Own(u)' : u \in Threads}
  BY <1>3, <1>4
<1> QED BY <1>5 DEF NothingLost, Home, Own

\* The stack becomes the chain of a thread that had none.
LEMMA TakeAllKept ==
    ASSUME IInv, NEW t \in Threads, CacheSound(t), pc[t] \in {"exchange", "drain"},
           TakeAll(t), UNCHANGED <<slots, live, heap>>
    PROVE  Home \cup Own(t) \subseteq Home' \cup Own(t)'
<1>1. taken[t] = <<>> /\ taken'[t] = stack /\ slots' = slots
  BY DEF CacheSound, TakeAll, IInv, TypeOK
<1> QED BY <1>1, EmptyPlace DEF Home, Own

\* A block that leaves a chain goes to the cache or to the allocator.
LEMMA FollowKept ==
    ASSUME IInv, NEW t \in Threads, chain[t] # NoBlock, Follow(t),
           UNCHANGED <<live, stack>>,
           \/ heap' = heap \cup {chain[t]} /\ slots' = slots
           \/ heap' = heap /\ slots' = [slots EXCEPT ![t] = Append(@, chain[t])]
    PROVE  Home \cup Own(t) \subseteq Home' \cup Own(t)'
<1>1. /\ slots \in [Threads -> Seq(Blocks)] /\ slots[t] \in Seq(Blocks)
      /\ taken \in [Threads -> Seq(Blocks)]
  BY DEF IInv, TypeOK
<1>2. /\ taken[t] \in Seq(Blocks) /\ taken[t] # <<>> /\ chain[t] = First(taken[t])
      /\ chain[t] \in Blocks
  BY ChainBlock
<1>3. taken'[t] = Tail(taken[t])
  BY <1>1 DEF Follow
<1>4. Elems(taken[t]) \subseteq Elems(taken'[t]) \cup {chain[t]}
  BY <1>2, <1>3, TailLeaves
<1>5. CASE heap' = heap \cup {chain[t]} /\ slots' = slots
  BY <1>4, <1>5 DEF Home, Own
<1>6. CASE heap' = heap /\ slots' = [slots EXCEPT ![t] = Append(@, chain[t])]
  <2>1. slots'[t] = Append(slots[t], chain[t])
    BY <1>1, <1>6
  <2>2. Elems(slots'[t]) = Elems(slots[t]) \cup {chain[t]}
    BY <1>1, <1>2, <2>1, AppendBlock
  <2> QED BY <1>4, <1>6, <2>2 DEF Home, Own
<1> QED BY <1>5, <1>6

LEMMA TakeHitKept ==
    ASSUME IInv, NEW t \in Threads, TakeHit(t)
    PROVE  Home \cup Own(t) \subseteq Home' \cup Own(t)'
<1>1. slots \in [Threads -> Seq(Blocks)] /\ slots[t] \in Seq(Blocks) /\ slots[t] # <<>>
  BY DEF IInv, TypeOK, TakeHit
<1>2. /\ live' = live \cup {slots[t][Len(slots[t])]} /\ slots'[t] = Front(slots[t])
      /\ UNCHANGED <<heap, stack, taken>>
  BY <1>1 DEF TakeHit
<1>3. Elems(slots[t]) \subseteq Elems(slots'[t]) \cup {slots[t][Len(slots[t])]}
  BY <1>1, <1>2, FrontLeaves
<1> QED BY <1>2, <1>3 DEF Home, Own

LEMMA ReleaseKeepKept ==
    ASSUME IInv, NEW t \in Threads, ReleaseKeep(t)
    PROVE  Home \cup Own(t) \subseteq Home' \cup Own(t)'
<1>1. PICK b \in live : /\ live' = live \ {b}
                        /\ slots' = [slots EXCEPT ![t] = Append(@, b)]
                        /\ UNCHANGED <<heap, stack, taken>>
  BY DEF ReleaseKeep
<1>2. slots \in [Threads -> Seq(Blocks)] /\ slots[t] \in Seq(Blocks) /\ b \in Blocks
  BY DEF IInv, TypeOK
<1>3. slots'[t] = Append(slots[t], b)
  BY <1>1, <1>2
<1>4. Elems(slots'[t]) = Elems(slots[t]) \cup {b}
  BY <1>2, <1>3, AppendBlock
<1> QED BY <1>1, <1>4 DEF Home, Own

LEMMA PushDoneKept ==
    ASSUME IInv, NEW t \in Threads, PushDone(t)
    PROVE  Home \cup Own(t) \subseteq Home' \cup Own(t)'
<1>1. slots[t] \in Seq(Blocks) /\ stack \in Seq(Blocks)
  BY DEF IInv, TypeOK
<1>2. stack' = slots[t] \o stack /\ UNCHANGED <<live, heap, taken>>
  BY DEF PushDone
<1>3. Elems(stack') = Elems(slots[t]) \cup Elems(stack)
  BY <1>1, <1>2, JoinBlocks
<1> QED BY <1>2, <1>3 DEF Home, Own

\* The thread that comes finds no block in the place of the one that went.
LEMMA RespawnKept ==
    ASSUME IInv, NEW t \in Threads, CacheSound(t), Respawn(t)
    PROVE  Home \cup Own(t) \subseteq Home' \cup Own(t)'
<1>1. Elems(slots[t]) = {} /\ UNCHANGED <<live, heap, stack, taken>>
  BY EmptyPlace DEF Respawn, CacheSound, Go
<1> QED BY <1>1 DEF Home, Own

LEMMA FreeOwnKept ==
    ASSUME IInv, NEW t \in Threads, FreeOwn(t)
    PROVE  Home \cup Own(t) \subseteq Home' \cup Own(t)'
<1>1. CASE active[t]
  <2>1. heap' = heap \cup Elems(slots[t]) /\ UNCHANGED <<live, stack, taken>>
    BY <1>1 DEF FreeOwn
  <2> QED BY <2>1 DEF Home, Own
<1>2. CASE ~active[t]
  <2>1. UNCHANGED <<heap, slots, live, stack, taken>>
    BY <1>2 DEF FreeOwn
  <2> QED BY <2>1 DEF Home, Own
<1> QED BY <1>1, <1>2

LEMMA StepKept ==
    ASSUME IInv, NEW t \in Threads, CacheSound(t), Step(t)
    PROVE  Home \cup Own(t) \subseteq Home' \cup Own(t)'
<1>1. CASE UNCHANGED places
  BY <1>1 DEF places, Home, Own
<1>2. CASE AcquireStep(t)
  <2>1. CASE AdoptTake(t)
    BY <2>1, TakeAllKept DEF AdoptTake, Go
  <2>2. CASE AdoptKeep(t) \/ AdoptTrim(t)
    BY <2>2, FollowKept DEF AdoptKeep, AdoptTrim
  <2>3. CASE TakeHit(t)
    BY <2>3, TakeHitKept
  <2>4. CASE TakeMiss(t)
    BY <2>4 DEF TakeMiss, Home, Own
  <2>5. CASE AcquireOversized(t) \/ Acquire(t) \/ AdoptLoad(t) \/ AdoptDone(t)
    BY <2>5, <1>1 DEF AcquireOversized, Acquire, AdoptLoad, AdoptDone, places
  <2> QED BY <1>2, <2>1, <2>2, <2>3, <2>4, <2>5 DEF AcquireStep
<1>3. CASE ReleaseStep(t)
  <2>1. CASE ReleaseFree(t) \/ ReleaseUncached(t)
    BY <2>1 DEF ReleaseFree, ReleaseUncached, Home, Own
  <2> QED BY <1>3, <2>1, ReleaseKeepKept DEF ReleaseStep
<1>4. CASE ExitStep(t)
  <2>1. CASE ThreadExit(t) \/ PushLoad(t) \/ PushRetry(t) \/ Retire(t)
    BY <2>1, <1>1 DEF ThreadExit, PushLoad, PushRetry, Retire, places
  <2> QED BY <1>4, <2>1, PushDoneKept, RespawnKept DEF ExitStep
<1>5. CASE DrainStep(t)
  <2>1. CASE Drain(t) \/ Shutdown(t)
    BY <2>1, FreeOwnKept DEF Drain, Shutdown
  <2>2. CASE DrainTake(t)
    BY <2>2, TakeAllKept DEF DrainTake, Go
  <2>3. CASE DrainFree(t)
    BY <2>3, FollowKept DEF DrainFree
  <2>4. CASE DrainDone(t)
    BY <2>4, <1>1 DEF DrainDone, places
  <2> QED BY <1>5, <2>1, <2>2, <2>3, <2>4 DEF DrainStep
<1>6. CASE Startup(t) \/ ReadStatistics(t)
  BY <1>6, <1>1 DEF Startup, ReadStatistics, places
<1> QED BY <1>2, <1>3, <1>4, <1>5, <1>6 DEF Step

-----------------------------------------------------------------------------
(* The theorem *)

LEMMA NextKInv == IInv /\ KInv /\ [Next]_vars => KInv'
<1>1. ASSUME IInv, KInv, NEW t \in Threads, Step(t) PROVE KInv'
  <2>1. TypeOK'
    BY <1>1, StepType
  <2>2. NothingLost'
    BY <1>1, <2>1, StepKept, KeepsAll DEF KInv
  <2>3. CacheSound(t)'
    BY <1>1, StepSound DEF KInv
  <2>4. ASSUME NEW u \in Threads, u # t PROVE CacheSound(u)'
    <3>1. CacheSound(u) /\ Confined(t)
      BY <1>1, StepConfined DEF KInv
    <3>2. /\ active'[u] = active[u] /\ retired'[u] = retired[u]
          /\ slots'[u] = slots[u] /\ pc'[u] = pc[u] /\ taken'[u] = taken[u]
      BY <1>1, <2>4, <3>1, OthersSound DEF Confined
    <3> QED BY <3>1, <3>2 DEF CacheSound
  <2> QED BY <2>2, <2>3, <2>4 DEF KInv
<1>2. ASSUME KInv, UNCHANGED vars PROVE KInv'
  BY <1>2 DEF vars, locals, KInv, NothingLost, CacheSound
<1> QED BY <1>1, <1>2 DEF Next, Step

\* However many threads acquire, release, exit, are replaced and drain at once,
\* every block stays in a cache, on the orphan stack, in a chain being walked,
\* in a packet or with the allocator: the pool leaks none.
THEOREM EveryBlockKept == Spec => []NothingLost
<1>1. KInv => NothingLost
  BY DEF KInv
<1> QED BY <1>1, InitKInv, NextKInv, Inductive, PTL DEF Spec

-----------------------------------------------------------------------------
(* The sums of the statistics *)

HIDE NoBlockAssumption
HIDE LimitAssumption DEF WindowsHook

\* What thread t holds of the retained blocks: those of its cache, those of its chain
\* and those it freed without having counted them off.
Retained == [t \in Threads |-> Len(slots[t]) + Len(taken[t]) + trimmed[t] + unparked[t]]

\* What thread t holds of the blocks counted as orphans: those it is about to park, those
\* of its chain and those it took off the chain without having counted them off.
Orphaned == [t \in Threads |-> Len(taken[t]) + kept[t] + trimmed[t] + unparked[t]
                                 + IF pc[t] \in {"push", "cas"} THEN Len(slots[t]) ELSE 0]

Sum(g) == SumFunctionOnSet(g, Threads)

\* Every block is counted once in each sum, wherever the threads are in the code.
Balanced ==
    /\ Total("hits") + Total("misses") = Total("returned") + Total("freed") + Cardinality(live)
    /\ Total("retained") = Total("returned") - Total("hits") - shared.drained - Sum(drained)
    /\ Total("retained") = Len(stack) + Sum(Retained)
    /\ shared.orphaned = Len(stack) + Sum(Orphaned)

\* The counts that thread t keeps to itself are its own only while it needs them.
LocalsSound(t) ==
    /\ pc[t] # "walk" => kept[t] = 0 /\ trimmed[t] = 0
    /\ pc[t] # "free" => unparked[t] = 0
    /\ pc[t] \notin {"drain", "free"} => drained[t] = 0
    /\ ~ active[t] => pending[t] = NoCounts
    /\ retired[t] => ~ active[t] \/ pc[t] \in {"push", "cas", "retire"}

SInv == Balanced /\ \A t \in Threads : LocalsSound(t)

-----------------------------------------------------------------------------
(* Sums over the threads *)

\* A sum over the threads changes by what one thread's part of it changes.
LEMMA SumMoves ==
    ASSUME NEW g \in [Threads -> Int], NEW h \in [Threads -> Int], NEW t \in Threads,
           \A u \in Threads : u # t => h[u] = g[u]
    PROVE  /\ Sum(g) \in Int /\ Sum(h) \in Int
           /\ Sum(h) = Sum(g) + h[t] - g[t]
<1> DEFINE R == Threads \ {t}
<1>1. IsFiniteSet(Threads) /\ IsFiniteSet(R) /\ R \in SUBSET Threads /\ Threads \in SUBSET Threads
  BY FiniteAssumption, FS_RemoveElement
<1>2. /\ SumFunctionOnSet(g, Threads) = g[t] + SumFunctionOnSet(g, R)
      /\ SumFunctionOnSet(h, Threads) = h[t] + SumFunctionOnSet(h, R)
  BY <1>1, SumRemove
<1>3. SumFunctionOnSet(g, R) = SumFunctionOnSet(h, R) /\ SumFunctionOnSet(g, R) \in Int
  <2>1. \A u \in R : g[u] = h[u]
    OBVIOUS
  <2> HIDE DEF R
  <2>2. SumFunctionOnSet(g, R) = SumFunctionOnSet(h, R)
    BY <1>1, <2>1, SumSame
  <2> QED BY <1>1, <2>2, SumChosen
<1>4. g[t] \in Int /\ h[t] \in Int
  OBVIOUS
<1> HIDE DEF R
<1> QED BY <1>2, <1>3, <1>4 DEF Sum

\* A sum of zeros is zero.
LEMMA SumZero ==
    ASSUME NEW g \in [Threads -> Int], \A u \in Threads : g[u] = 0
    PROVE  Sum(g) = 0
<1> PICK z : z = 0
  OBVIOUS
<1> DEFINE h == [u \in Threads |-> z]
           n == Sum(g)
           k == Cardinality(Threads)
<1>1. IsFiniteSet(Threads) /\ Threads \in SUBSET Threads /\ z \in Int
  BY FiniteAssumption
<1>2. n \in Int /\ k \in Nat
  BY <1>1, SumChosen, FS_CardinalityType DEF Sum
<1>3. \A a, b \in Int : a * n + z * k <= b * n
  <2> TAKE a, b \in Int
  <2>1. \A u \in Threads : a * g[u] + z <= b * g[u]
    OBVIOUS
  <2> QED BY <1>1, <2>1, SumCompare DEF Sum
<1> HIDE DEF n, k
<1>4. 1 * n + 0 * k <= 0 * n /\ 0 * n + 0 * k <= 1 * n
  BY <1>3
<1> QED BY <1>2, <1>4 DEF n

\* A sum of which each part is at most that of another is at most the other.
LEMMA SumAtMost ==
    ASSUME NEW g \in [Threads -> Int], NEW h \in [Threads -> Int],
           \A u \in Threads : g[u] <= h[u]
    PROVE  Sum(g) \in Int /\ Sum(h) \in Int /\ Sum(g) <= Sum(h)
<1>1. IsFiniteSet(Threads) /\ Threads \in SUBSET Threads
  BY FiniteAssumption
<1> QED BY <1>1, SumLeq, SumChosen DEF Sum

-----------------------------------------------------------------------------
(* What a step adds to the totals *)

Tallied == {"hits", "misses", "returned", "freed", "retained"}

\* Thread t has added to the totals and to its own counts, so that together they are those
\* of s and q; the other threads' counts stay.
Accounts(t, s, q) ==
    /\ pending' \in [Threads -> Counts] /\ shared' \in Totals
    /\ \A u \in Threads : u # t => pending'[u] = pending[u]
    /\ \A f \in Tallied : shared'[f] + pending'[t][f] = s[f] + q[f]
    /\ shared'.drained = s.drained /\ shared'.orphaned = s.orphaned

\* The counts that may be flushed: their number of operations may be the whole batch.
Flushable == [operations : Nat, hits : Nat, misses : Nat, oversized : Nat,
              returned : Nat, freed : Nat, retained : Int]

\* What enet_pool_flush publishes is what was pending.
LEMMA FlushAccounts ==
    ASSUME NEW t \in Threads, NEW s \in Totals, NEW q \in Flushable,
           pending \in [Threads -> Counts], Flush(t, s, q)
    PROVE  Accounts(t, s, q)
<1>1. shared' \in Totals /\ pending' \in [Threads -> Counts]
  BY FlushType DEF Flushable
<1>2. /\ shared' = Published(s, q) /\ pending' = [pending EXCEPT ![t] = NoCounts]
      /\ pending'[t] = NoCounts
  BY DEF Flush
<1>3. \A f \in Tallied : Published(s, q)[f] + NoCounts[f] = s[f] + q[f]
  BY DEF Tallied, Published, NoCounts, Totals, Flushable
<1>4. Published(s, q).drained = s.drained /\ Published(s, q).orphaned = s.orphaned
  BY DEF Published
<1> QED BY <1>1, <1>2, <1>3, <1>4 DEF Accounts

\* ENET_POOL_COUNT keeps the counts or publishes them.
LEMMA CountAccounts ==
    ASSUME NEW t \in Threads, NEW s \in Totals, NEW q \in Counts,
           pending \in [Threads -> Counts], Count(t, s, q)
    PROVE  Accounts(t, s, q)
<1> DEFINE p == [q EXCEPT !.operations = @ + 1]
<1>1. shared' \in Totals /\ pending' \in [Threads -> Counts]
  BY CountType
<1>2. p \in Flushable /\ \A f \in Tallied : p[f] = q[f]
  BY DEF Flushable, Counts, Tallied
<1>3. CASE Flush(t, s, p)
  <2>1. Accounts(t, s, p)
    BY <1>2, <1>3, FlushAccounts
  <2> QED BY <1>2, <2>1 DEF Accounts
<1>4. CASE shared' = s /\ pending' = [pending EXCEPT ![t] = p]
  <2>1. pending'[t] = p /\ \A u \in Threads : u # t => pending'[u] = pending[u]
    BY <1>4
  <2> HIDE DEF p
  <2> QED BY <1>1, <1>2, <1>4, <2>1 DEF Accounts
<1> QED BY <1>3, <1>4 DEF Count

\* A step that leaves the counts of the cache alone.
LEMMA KeepsAccounts ==
    ASSUME NEW t \in Threads, pending \in [Threads -> Counts], NEW s \in Totals,
           pending' = pending, shared' = s
    PROVE  Accounts(t, s, pending[t])
BY DEF Accounts

\* What a total changes by.
LEMMA TotalMoves ==
    ASSUME NEW t \in Threads, NEW s, NEW q, Accounts(t, s, q),
           pending \in [Threads -> Counts], shared \in Totals, NEW f \in Tallied
    PROVE  /\ Total(f) \in Int /\ Total(f)' \in Int
           /\ shared[f] \in Int /\ pending[t][f] \in Int /\ s[f] + q[f] \in Int
           /\ Total(f)' = Total(f) + (s[f] + q[f]) - (shared[f] + pending[t][f])
<1> DEFINE g == [u \in Threads |-> pending[u][f]]
           h == [u \in Threads |-> pending'[u][f]]
<1>1. /\ pending' \in [Threads -> Counts] /\ shared' \in Totals
      /\ \A u \in Threads : u # t => pending'[u] = pending[u]
      /\ shared'[f] + pending'[t][f] = s[f] + q[f]
  BY DEF Accounts
<1>2. /\ \A u \in Threads : pending[u][f] \in Int /\ pending'[u][f] \in Int
      /\ shared[f] \in Int /\ shared'[f] \in Int
  BY <1>1 DEF Tallied, Counts, Totals
<1>3. /\ g \in [Threads -> Int] /\ h \in [Threads -> Int]
      /\ g[t] = pending[t][f] /\ h[t] = pending'[t][f]
      /\ \A u \in Threads : u # t => h[u] = g[u]
  BY <1>1, <1>2
<1>4. Total(f) = shared[f] + Sum(g) /\ Total(f)' = shared'[f] + Sum(h)
  BY DEF Total, Sum
<1> HIDE DEF g, h
<1>5. Sum(g) \in Int /\ Sum(h) \in Int /\ Sum(h) = Sum(g) + h[t] - g[t]
  BY <1>3, SumMoves
<1> QED BY <1>1, <1>2, <1>3, <1>4, <1>5

-----------------------------------------------------------------------------
(* What a step has to account for *)

\* What s and q add to total f, if thread t leaves them there.
Added(t, s, q, f) == (s[f] + q[f]) - (shared[f] + pending[t][f])

\* The blocks that thread t moved are in the totals it added to.
Settles(t, s, q) ==
    /\ Added(t, s, q, "hits") + Added(t, s, q, "misses") =
          Added(t, s, q, "returned") + Added(t, s, q, "freed")
             + (Cardinality(live') - Cardinality(live))
    /\ Added(t, s, q, "retained") =
          Added(t, s, q, "returned") - Added(t, s, q, "hits")
             - (s.drained - shared.drained) - (drained'[t] - drained[t])
    /\ Added(t, s, q, "retained") = (Len(stack') - Len(stack)) + (Retained'[t] - Retained[t])
    /\ s.orphaned - shared.orphaned = (Len(stack') - Len(stack)) + (Orphaned'[t] - Orphaned[t])

\* A step of thread t leaves the rest to the other threads.
Alone(t) ==
    \A u \in Threads \ {t} :
        /\ slots'[u] = slots[u] /\ taken'[u] = taken[u] /\ kept'[u] = kept[u]
        /\ trimmed'[u] = trimmed[u] /\ drained'[u] = drained[u] /\ unparked'[u] = unparked[u]
        /\ pc'[u] = pc[u]

\* The sums are of integers.
SumTypes ==
    /\ Retained \in [Threads -> Int] /\ Orphaned \in [Threads -> Int]
    /\ drained \in [Threads -> Int] /\ Len(stack) \in Int
    /\ shared.drained \in Int /\ shared.orphaned \in Int
    /\ IsFiniteSet(live) /\ Cardinality(live) \in Int

\* The parts of the sums are numbers.
LEMMA SumsType == TypeOK => SumTypes
<1> SUFFICES ASSUME TypeOK PROVE SumTypes
  OBVIOUS
<1>1. /\ slots \in [Threads -> Seq(Blocks)] /\ taken \in [Threads -> Seq(Blocks)]
      /\ kept \in [Threads -> Nat] /\ trimmed \in [Threads -> Nat]
      /\ drained \in [Threads -> Nat] /\ unparked \in [Threads -> Nat]
      /\ stack \in Seq(Blocks) /\ shared \in Totals /\ live \subseteq Blocks
  BY DEF TypeOK
<1>2. ASSUME NEW t \in Threads
      PROVE  Len(slots[t]) \in Nat /\ Len(taken[t]) \in Nat
  BY <1>1
<1>3. Retained \in [Threads -> Int] /\ Orphaned \in [Threads -> Int]
  <2>1. ASSUME NEW t \in Threads
        PROVE  Len(slots[t]) + Len(taken[t]) + trimmed[t] + unparked[t] \in Int
    <3>1. trimmed[t] \in Nat /\ unparked[t] \in Nat
      BY <1>1
    <3>2. Len(slots[t]) \in Nat /\ Len(taken[t]) \in Nat
      BY <1>2
    <3> DEFINE a == Len(slots[t])  b == Len(taken[t])  c == trimmed[t]  d == unparked[t]
    <3>3. a \in Nat /\ b \in Nat /\ c \in Nat /\ d \in Nat
      BY <3>1, <3>2
    <3> HIDE DEF a, b, c, d
    <3>4. a + b + c + d \in Int
      BY <3>3
    <3> QED BY <3>4 DEF a, b, c, d
  <2>2. ASSUME NEW t \in Threads
        PROVE  Len(taken[t]) + kept[t] + trimmed[t] + unparked[t]
                 + (IF pc[t] \in {"push", "cas"} THEN Len(slots[t]) ELSE 0) \in Int
    <3>1. kept[t] \in Nat /\ trimmed[t] \in Nat /\ unparked[t] \in Nat
      BY <1>1
    <3>2. Len(slots[t]) \in Nat /\ Len(taken[t]) \in Nat
      BY <1>2
    <3>3. (IF pc[t] \in {"push", "cas"} THEN Len(slots[t]) ELSE 0) \in Nat
      BY <3>2
    <3> DEFINE a == Len(taken[t])  b == kept[t]  c == trimmed[t]  d == unparked[t]
               e == IF pc[t] \in {"push", "cas"} THEN Len(slots[t]) ELSE 0
    <3>4. a \in Nat /\ b \in Nat /\ c \in Nat /\ d \in Nat /\ e \in Nat
      BY <3>1, <3>2, <3>3
    <3> HIDE DEF a, b, c, d, e
    <3>5. a + b + c + d + e \in Int
      BY <3>4
    <3> QED BY <3>5 DEF a, b, c, d, e
  <2>3. Retained \in [Threads -> Int]
    BY <2>1 DEF Retained
  <2> QED BY <2>2, <2>3 DEF Orphaned
<1>4. IsFiniteSet(live) /\ Cardinality(live) \in Nat
  BY <1>1, FiniteAssumption, FS_Subset, FS_CardinalityType
<1>5. Len(stack) \in Int /\ shared.drained \in Int /\ shared.orphaned \in Int
  BY <1>1 DEF Totals
<1>6. drained \in [Threads -> Int]
  BY <1>1
<1> QED BY <1>3, <1>4, <1>5, <1>6 DEF SumTypes

\* The sum of what a thread holds changes by what it changes.
LEMMA SumsMove ==
    ASSUME SumTypes, SumTypes', NEW t \in Threads, Alone(t)
    PROVE  /\ Sum(Retained)' = Sum(Retained) + (Retained'[t] - Retained[t])
           /\ Sum(Orphaned)' = Sum(Orphaned) + (Orphaned'[t] - Orphaned[t])
           /\ Sum(drained)' = Sum(drained) + (drained'[t] - drained[t])
           /\ Sum(Retained) \in Int /\ Sum(Orphaned) \in Int /\ Sum(drained) \in Int
<1>1. /\ Retained \in [Threads -> Int] /\ Orphaned \in [Threads -> Int]
      /\ drained \in [Threads -> Int]
      /\ Retained' \in [Threads -> Int] /\ Orphaned' \in [Threads -> Int]
      /\ drained' \in [Threads -> Int]
  BY DEF SumTypes
<1>2. \A u \in Threads : u # t => /\ Retained'[u] = Retained[u] /\ Orphaned'[u] = Orphaned[u]
                                  /\ drained'[u] = drained[u]
  BY DEF Alone, Retained, Orphaned
<1>3. /\ Retained[t] \in Int /\ Retained'[t] \in Int /\ Orphaned[t] \in Int
      /\ Orphaned'[t] \in Int /\ drained[t] \in Int /\ drained'[t] \in Int
  BY <1>1
<1>4. /\ Sum(Retained) \in Int /\ Sum(Retained)' = Sum(Retained) + Retained'[t] - Retained[t]
      /\ Sum(Orphaned) \in Int /\ Sum(Orphaned)' = Sum(Orphaned) + Orphaned'[t] - Orphaned[t]
      /\ Sum(drained) \in Int /\ Sum(drained)' = Sum(drained) + drained'[t] - drained[t]
  BY <1>1, <1>2, SumMoves DEF Sum
<1> QED BY <1>3, <1>4

\* A step of one thread that settles what it counts keeps the sums balanced.
LEMMA StepBalances ==
    ASSUME TypeOK, TypeOK', Balanced, NEW t \in Threads, NEW s, NEW q,
           Accounts(t, s, q), Alone(t), Settles(t, s, q), s.drained \in Int, s.orphaned \in Int
    PROVE  Balanced'
<1>1. SumTypes /\ SumTypes'
  BY SumsType, PTL
<1>2. /\ Sum(Retained)' = Sum(Retained) + (Retained'[t] - Retained[t])
      /\ Sum(Orphaned)' = Sum(Orphaned) + (Orphaned'[t] - Orphaned[t])
      /\ Sum(drained)' = Sum(drained) + (drained'[t] - drained[t])
      /\ Sum(Retained) \in Int /\ Sum(Orphaned) \in Int /\ Sum(drained) \in Int
  BY <1>1, SumsMove
<1>3. /\ Retained[t] \in Int /\ Retained'[t] \in Int /\ Orphaned[t] \in Int
      /\ Orphaned'[t] \in Int /\ drained[t] \in Int /\ drained'[t] \in Int
      /\ Len(stack) \in Int /\ Len(stack') \in Int
      /\ shared.drained \in Int /\ shared.orphaned \in Int
      /\ Cardinality(live) \in Int /\ Cardinality(live') \in Int
      /\ shared'.drained = s.drained /\ shared'.orphaned = s.orphaned
  BY <1>1 DEF SumTypes, Accounts
<1>4. ASSUME NEW f \in Tallied
      PROVE  /\ Total(f) \in Int /\ Added(t, s, q, f) \in Int
             /\ Total(f)' = Total(f) + Added(t, s, q, f)
  <2>1. pending \in [Threads -> Counts] /\ shared \in Totals
    BY DEF TypeOK
  <2>2. /\ Total(f) \in Int /\ Total(f)' \in Int
        /\ shared[f] \in Int /\ pending[t][f] \in Int /\ s[f] + q[f] \in Int
        /\ Total(f)' = Total(f) + (s[f] + q[f]) - (shared[f] + pending[t][f])
    BY <2>1, TotalMoves
  <2> QED BY <2>2 DEF Added
<1>5. /\ Total("hits") \in Int /\ Added(t, s, q, "hits") \in Int
      /\ Total("hits")' = Total("hits") + Added(t, s, q, "hits")
      /\ Total("misses") \in Int /\ Added(t, s, q, "misses") \in Int
      /\ Total("misses")' = Total("misses") + Added(t, s, q, "misses")
      /\ Total("returned") \in Int /\ Added(t, s, q, "returned") \in Int
      /\ Total("returned")' = Total("returned") + Added(t, s, q, "returned")
      /\ Total("freed") \in Int /\ Added(t, s, q, "freed") \in Int
      /\ Total("freed")' = Total("freed") + Added(t, s, q, "freed")
      /\ Total("retained") \in Int /\ Added(t, s, q, "retained") \in Int
      /\ Total("retained")' = Total("retained") + Added(t, s, q, "retained")
  BY <1>4 DEF Tallied
<1>6. /\ Total("hits") + Total("misses") = Total("returned") + Total("freed") + Cardinality(live)
      /\ Total("retained") = Total("returned") - Total("hits") - shared.drained - Sum(drained)
      /\ Total("retained") = Len(stack) + Sum(Retained)
      /\ shared.orphaned = Len(stack) + Sum(Orphaned)
  BY DEF Balanced
<1> DEFINE h == Total("hits")
           m == Total("misses")
           r == Total("returned")
           f == Total("freed")
           n == Total("retained")
           dh == Added(t, s, q, "hits")
           dm == Added(t, s, q, "misses")
           dr == Added(t, s, q, "returned")
           df == Added(t, s, q, "freed")
           dn == Added(t, s, q, "retained")
           c == Cardinality(live)
           k == Len(stack)
           d == shared.drained
           p == shared.orphaned
           sd == Sum(drained)
           sn == Sum(Retained)
           po == Sum(Orphaned)
           xd == drained'[t] - drained[t]
           xn == Retained'[t] - Retained[t]
           xp == Orphaned'[t] - Orphaned[t]
<1>7. /\ h \in Int /\ m \in Int /\ r \in Int /\ f \in Int /\ n \in Int
      /\ dh \in Int /\ dm \in Int /\ dr \in Int /\ df \in Int /\ dn \in Int
      /\ h' = h + dh /\ m' = m + dm /\ r' = r + dr /\ f' = f + df /\ n' = n + dn
      /\ h' \in Int /\ m' \in Int /\ r' \in Int /\ f' \in Int /\ n' \in Int
  BY <1>5
<1>8. /\ c \in Int /\ k \in Int /\ d \in Int /\ p \in Int
      /\ c' \in Int /\ k' \in Int /\ d' \in Int /\ p' \in Int
      /\ d' = s.drained /\ p' = s.orphaned
  BY <1>3
<1>9. /\ sd \in Int /\ sn \in Int /\ po \in Int /\ xd \in Int /\ xn \in Int /\ xp \in Int
      /\ sd' = sd + xd /\ sn' = sn + xn /\ po' = po + xp
      /\ sd' \in Int /\ sn' \in Int /\ po' \in Int
  BY <1>2, <1>3
<1>10. /\ dh + dm = (dr + df) + (c' - c)
       /\ dn = ((dr - dh) - (d' - d)) - xd
       /\ dn = (k' - k) + xn
       /\ p' - p = (k' - k) + xp
  BY <1>8 DEF Settles
<1>11. /\ h + m = (r + f) + c /\ n = ((r - h) - d) - sd /\ n = k + sn /\ p = k + po
  BY <1>6
<1> HIDE DEF h, m, r, f, n, dh, dm, dr, df, dn, c, k, d, p, sd, sn, po, xd, xn, xp
<1>12. /\ h' + m' = (r' + f') + c' /\ n' = ((r' - h') - d') - sd'
       /\ n' = k' + sn' /\ p' = k' + po'
  <2>1. /\ h \in Int /\ dh \in Int /\ h' = h + dh
    BY <1>7
  <2>2. /\ r \in Int /\ dr \in Int /\ r' = r + dr
    BY <1>7
  <2>3. /\ n \in Int /\ dn \in Int /\ n' = n + dn
    BY <1>7
  <2>4. h' + m' = (r' + f') + c'
    <3>1. m \in Int /\ dm \in Int /\ m' = m + dm
      BY <1>7
    <3>2. f \in Int /\ df \in Int /\ f' = f + df
      BY <1>7
    <3>3. c \in Int /\ c' \in Int
      BY <1>8
    <3>4. dh + dm = (dr + df) + (c' - c) /\ h + m = (r + f) + c
      BY <1>10, <1>11
    <3>5. PICK a \in Int, b \in Int : a = h + m /\ b = dh + dm /\ h' + m' = a + b
      BY <2>1, <3>1
    <3>6. PICK x \in Int, y \in Int : x = r + f /\ y = dr + df /\ r' + f' = x + y
      BY <2>2, <3>2
    <3>7. b = y + (c' - c) /\ a = x + c
      BY <3>4, <3>5, <3>6
    <3>8. a + b = (x + y) + c'
      BY <3>3, <3>7
    <3> QED BY <3>5, <3>6, <3>8
  <2>5. n' = ((r' - h') - d') - sd'
    <3>1. d \in Int /\ d' \in Int
      BY <1>8
    <3>2. sd \in Int /\ xd \in Int /\ sd' = sd + xd
      BY <1>9
    <3>3. dn = ((dr - dh) - (d' - d)) - xd /\ n = ((r - h) - d) - sd
      BY <1>10, <1>11
    <3> QED BY <2>1, <2>2, <2>3, <3>1, <3>2, <3>3
  <2>6. n' = k' + sn'
    <3>1. k \in Int /\ k' \in Int /\ dn = (k' - k) + xn /\ n = k + sn
      BY <1>8, <1>10, <1>11
    <3>2. sn \in Int /\ xn \in Int /\ sn' = sn + xn
      BY <1>9
    <3> QED BY <2>3, <3>1, <3>2
  <2>7. p' = k' + po'
    <3>1. /\ k \in Int /\ k' \in Int /\ p \in Int /\ p' \in Int
          /\ p' - p = (k' - k) + xp /\ p = k + po
      BY <1>8, <1>10, <1>11
    <3>2. po \in Int /\ xp \in Int /\ po' = po + xp
      BY <1>9
    <3>3. PICK a \in Int, b \in Int, e \in Int, e1 \in Int, g \in Int, g1 \in Int, y \in Int :
             a = p /\ b = p' /\ e = k /\ e1 = k' /\ g = po /\ g1 = po' /\ y = xp
      BY <3>1, <3>2
    <3>4. b - a = (e1 - e) + y /\ a = e + g /\ g1 = g + y
      BY <3>1, <3>2, <3>3, Zenon
    <3>5. b = e1 + g1
      BY <3>4
    <3> QED BY <3>3, <3>5, Zenon
  <2> QED BY <2>4, <2>5, <2>6, <2>7
<1>13. /\ Total("hits")' + Total("misses")'
               = Total("returned")' + Total("freed")' + Cardinality(live')
       /\ Total("retained")'
               = Total("returned")' - Total("hits")' - shared'.drained - Sum(drained)'
       /\ Total("retained")' = Len(stack') + Sum(Retained)'
       /\ shared'.orphaned = Len(stack') + Sum(Orphaned)'
  BY <1>12, Zenon DEF h, m, r, f, n, c, k, d, p, sd, sn, po
<1> QED BY <1>13, Zenon DEF Balanced

-----------------------------------------------------------------------------
(* What the other threads hold, and what a thread keeps to itself *)

\* A step of one thread leaves the lists and the local counts of the others alone.
LEMMA StepAlone ==
    ASSUME IInv, NEW t \in Threads, Step(t)
    PROVE  Alone(t)
<1>1. /\ kept \in [Threads -> Nat] /\ trimmed \in [Threads -> Nat]
      /\ drained \in [Threads -> Nat] /\ unparked \in [Threads -> Nat]
  BY DEF IInv, TypeOK
<1>2. \A u \in Threads \ {t} : /\ kept'[u] = kept[u] /\ trimmed'[u] = trimmed[u]
                               /\ drained'[u] = drained[u] /\ unparked'[u] = unparked[u]
  <2> USE <1>1 DEF locals
  <2>1. CASE AcquireStep(t)
    BY <2>1 DEF AcquireStep, AcquireOversized, Acquire, AdoptLoad, AdoptTake, AdoptKeep,
                AdoptTrim, AdoptDone, TakeHit, TakeMiss
  <2>2. CASE ReleaseStep(t)
    BY <2>2 DEF ReleaseStep, ReleaseKeep, ReleaseFree, ReleaseUncached
  <2>3. CASE ExitStep(t)
    BY <2>3 DEF ExitStep, ThreadExit, PushLoad, PushDone, PushRetry, Retire, Respawn
  <2>4. CASE DrainStep(t)
    BY <2>4 DEF DrainStep, Drain, Shutdown, FreeOwn, DrainTake, DrainFree, DrainDone
  <2>5. CASE Startup(t) \/ ReadStatistics(t)
    BY <2>5 DEF Startup, ReadStatistics
  <2> QED BY <2>1, <2>2, <2>3, <2>4, <2>5 DEF Step
<1> QED BY <1>2, StepConfined DEF Confined, Alone

\* The counts of the caches stay those of their threads.
LEMMA OthersPending ==
    ASSUME IInv, NEW t \in Threads, Step(t), NEW u \in Threads, u # t
    PROVE  pending'[u] = pending[u]
<1>1. pending \in [Threads -> Counts]
  BY DEF IInv, TypeOK
<1> USE <1>1 DEF Count, Flush
<1>2. CASE AcquireStep(t)
  BY <1>2 DEF AcquireStep, AcquireOversized, Acquire, AdoptLoad, AdoptTake, AdoptKeep,
              AdoptTrim, AdoptDone, TakeHit, TakeMiss
<1>3. CASE ReleaseStep(t)
  BY <1>3 DEF ReleaseStep, ReleaseKeep, ReleaseFree, ReleaseUncached
<1>4. CASE ExitStep(t)
  BY <1>4 DEF ExitStep, ThreadExit, PushLoad, PushDone, PushRetry, Retire, Respawn
<1>5. CASE DrainStep(t)
  BY <1>5 DEF DrainStep, Drain, Shutdown, FreeOwn, DrainTake, DrainFree, DrainDone
<1>6. CASE Startup(t) \/ ReadStatistics(t)
  BY <1>6 DEF Startup, ReadStatistics
<1> QED BY <1>2, <1>3, <1>4, <1>5, <1>6 DEF Step

\* A thread keeps the counts of its own sound.
LEMMA StepLocals ==
    ASSUME IInv, NEW t \in Threads, CacheSound(t), LocalsSound(t), Step(t)
    PROVE  LocalsSound(t)'
<1>1. /\ active \in [Threads -> BOOLEAN] /\ retired \in [Threads -> BOOLEAN]
      /\ pc \in [Threads -> Steps] /\ pending \in [Threads -> Counts]
      /\ kept \in [Threads -> Nat] /\ trimmed \in [Threads -> Nat]
      /\ drained \in [Threads -> Nat] /\ unparked \in [Threads -> Nat]
  BY DEF IInv, TypeOK
<1> USE <1>1 DEF LocalsSound, CacheSound, Go, locals
<1>2. CASE AcquireStep(t)
  <2>1. CASE AcquireOversized(t) \/ Acquire(t)
    BY <2>1 DEF AcquireOversized, Acquire, CacheGet
  <2>2. CASE AdoptLoad(t) \/ AdoptTake(t)
    BY <2>2 DEF AdoptLoad, AdoptTake
  <2>3. CASE AdoptKeep(t) \/ AdoptTrim(t)
    BY <2>3 DEF AdoptKeep, AdoptTrim
  <2>4. CASE AdoptDone(t)
    BY <2>4 DEF AdoptDone
  <2>5. CASE TakeHit(t) \/ TakeMiss(t)
    BY <2>5 DEF TakeHit, TakeMiss
  <2> QED BY <1>2, <2>1, <2>2, <2>3, <2>4, <2>5 DEF AcquireStep
<1>3. CASE ReleaseStep(t)
  <2>1. CASE ReleaseKeep(t) \/ ReleaseFree(t)
    BY <2>1 DEF ReleaseKeep, ReleaseFree, CacheGet
  <2>2. CASE ReleaseUncached(t)
    BY <2>2 DEF ReleaseUncached, NoCache
  <2> QED BY <1>3, <2>1, <2>2 DEF ReleaseStep
<1>4. CASE ExitStep(t)
  <2>1. CASE ThreadExit(t)
    BY <2>1 DEF ThreadExit
  <2>2. CASE PushLoad(t) \/ PushDone(t) \/ PushRetry(t)
    BY <2>2 DEF PushLoad, PushDone, PushRetry
  <2>3. CASE Retire(t) \/ Respawn(t)
    BY <2>3 DEF Retire, Respawn, Flush
  <2> QED BY <1>4, <2>1, <2>2, <2>3 DEF ExitStep
<1>5. CASE DrainStep(t)
  <2>1. CASE Drain(t) \/ Shutdown(t)
    BY <2>1 DEF Drain, Shutdown, FreeOwn, Flush
  <2>2. CASE DrainTake(t) \/ DrainFree(t)
    BY <2>2 DEF DrainTake, DrainFree
  <2>3. CASE DrainDone(t)
    BY <2>3 DEF DrainDone
  <2> QED BY <1>5, <2>1, <2>2, <2>3 DEF DrainStep
<1>6. CASE Startup(t)
  BY <1>6 DEF Startup
<1>7. CASE ReadStatistics(t)
  BY <1>7 DEF ReadStatistics, Flush
<1> QED BY <1>2, <1>3, <1>4, <1>5, <1>6, <1>7 DEF Step

-----------------------------------------------------------------------------
(* What each step accounts for *)

Settled(t) ==
    \E s, q : /\ Accounts(t, s, q) /\ Settles(t, s, q)
              /\ s.drained \in Int /\ s.orphaned \in Int

\* Thread t adds dh hits, dm misses, dr returned, df freed and dn retained blocks.
Counted(t, s, q, dh, dm, dr, df, dn) ==
    /\ Added(t, s, q, "hits") = dh /\ Added(t, s, q, "misses") = dm
    /\ Added(t, s, q, "returned") = dr /\ Added(t, s, q, "freed") = df
    /\ Added(t, s, q, "retained") = dn

\* What thread t holds.
LEMMA HoldingIs ==
    ASSUME TypeOK, NEW t \in Threads
    PROVE  /\ Retained[t] = Len(slots[t]) + Len(taken[t]) + trimmed[t] + unparked[t]
           /\ Orphaned[t] = Len(taken[t]) + kept[t] + trimmed[t] + unparked[t]
                              + IF pc[t] \in {"push", "cas"} THEN Len(slots[t]) ELSE 0
           /\ Retained'[t] = Len(slots'[t]) + Len(taken'[t]) + trimmed'[t] + unparked'[t]
           /\ Orphaned'[t] = Len(taken'[t]) + kept'[t] + trimmed'[t] + unparked'[t]
                               + IF pc'[t] \in {"push", "cas"} THEN Len(slots'[t]) ELSE 0
           /\ Len(slots[t]) \in Nat /\ Len(taken[t]) \in Nat /\ Len(stack) \in Nat
           /\ kept[t] \in Nat /\ trimmed[t] \in Nat /\ drained[t] \in Nat /\ unparked[t] \in Nat
           /\ Cardinality(live) \in Nat /\ IsFiniteSet(live)
           /\ shared \in Totals /\ pending[t] \in Counts /\ pending \in [Threads -> Counts]
           /\ shared.drained \in Nat /\ shared.orphaned \in Int /\ shared.retained \in Int
<1>1. /\ slots \in [Threads -> Seq(Blocks)] /\ taken \in [Threads -> Seq(Blocks)]
      /\ kept \in [Threads -> Nat] /\ trimmed \in [Threads -> Nat]
      /\ drained \in [Threads -> Nat] /\ unparked \in [Threads -> Nat]
      /\ stack \in Seq(Blocks) /\ shared \in Totals /\ live \subseteq Blocks
      /\ pending \in [Threads -> Counts]
  BY DEF TypeOK
<1>2. Cardinality(live) \in Nat /\ IsFiniteSet(live)
  BY <1>1, FiniteAssumption, FS_Subset, FS_CardinalityType
<1>3. /\ slots[t] \in Seq(Blocks) /\ taken[t] \in Seq(Blocks)
      /\ Len(slots[t]) \in Nat /\ Len(taken[t]) \in Nat /\ Len(stack) \in Nat
  BY <1>1
<1>4. shared.drained \in Nat /\ shared.orphaned \in Int /\ shared.retained \in Int
  BY <1>1 DEF Totals
<1>5. pending[t] \in Counts /\ kept[t] \in Nat /\ trimmed[t] \in Nat /\ drained[t] \in Nat
      /\ unparked[t] \in Nat
  BY <1>1
<1>6. /\ Retained[t] = Len(slots[t]) + Len(taken[t]) + trimmed[t] + unparked[t]
      /\ Retained'[t] = Len(slots'[t]) + Len(taken'[t]) + trimmed'[t] + unparked'[t]
  BY DEF Retained
<1>7. /\ Orphaned[t] = Len(taken[t]) + kept[t] + trimmed[t] + unparked[t]
                         + IF pc[t] \in {"push", "cas"} THEN Len(slots[t]) ELSE 0
      /\ Orphaned'[t] = Len(taken'[t]) + kept'[t] + trimmed'[t] + unparked'[t]
                          + IF pc'[t] \in {"push", "cas"} THEN Len(slots'[t]) ELSE 0
  BY DEF Orphaned
<1> QED BY <1>1, <1>2, <1>3, <1>4, <1>5, <1>6, <1>7, Zenon

\* What a count adds.
LEMMA AddsNothing ==
    ASSUME TypeOK, NEW t \in Threads, NEW s \in Totals,
           \A f \in Tallied : s[f] = shared[f]
    PROVE  Counted(t, s, pending[t], 0, 0, 0, 0, 0)
<1>1. \A f \in Tallied : shared[f] \in Int /\ pending[t][f] \in Int
  <2>1. shared \in Totals /\ pending[t] \in Counts
    BY HoldingIs
  <2> QED BY <2>1 DEF Tallied, Totals, Counts
<1>2. \A f \in Tallied : Added(t, s, pending[t], f) = 0
  BY <1>1 DEF Added
<1>3. "hits" \in Tallied /\ "misses" \in Tallied /\ "returned" \in Tallied
      /\ "freed" \in Tallied /\ "retained" \in Tallied
  BY DEF Tallied
<1> QED BY <1>2, <1>3, Zenon DEF Counted

\* A step that moves no block.
LEMMA NothingMoves ==
    ASSUME TypeOK, NEW t \in Threads, NEW s \in Totals, NEW q,
           Counted(t, s, q, 0, 0, 0, 0, 0),
           s.drained = shared.drained, s.orphaned = shared.orphaned,
           UNCHANGED <<live, stack, slots, taken, kept, trimmed, drained, unparked>>,
           pc'[t] \in {"push", "cas"} <=> pc[t] \in {"push", "cas"}
    PROVE  Settles(t, s, q)
<1>1. Retained'[t] = Retained[t] /\ Orphaned'[t] = Orphaned[t]
  BY DEF Retained, Orphaned
<1>2. /\ Retained[t] \in Int /\ Orphaned[t] \in Int /\ drained[t] \in Int /\ Len(stack) \in Int
      /\ Cardinality(live) \in Int /\ shared.drained \in Int /\ shared.orphaned \in Int
  <2>1. SumTypes
    BY SumsType
  <2> QED BY <2>1 DEF SumTypes
<1> QED BY <1>1, <1>2 DEF Settles, Counted

\* The totals with another cache.
LEMMA OpenedIs ==
    ASSUME TypeOK, NEW t \in Threads
    PROVE  /\ Opened(t) \in Totals /\ \A f \in Tallied : Opened(t)[f] = shared[f]
           /\ Opened(t).drained = shared.drained /\ Opened(t).orphaned = shared.orphaned
<1>1. shared \in Totals
  BY DEF TypeOK
<1> QED BY <1>1, OpenedType DEF Opened, Tallied, Totals

\* One more of the counts that a thread keeps.
LEMMA AddsOne ==
    ASSUME TypeOK, NEW t \in Threads, NEW s \in Totals, \A f \in Tallied : s[f] = shared[f]
    PROVE  /\ Counted(t, s, [pending[t] EXCEPT !.oversized = @ + 1], 0, 0, 0, 0, 0)
           /\ Counted(t, s, [pending[t] EXCEPT !.hits = @ + 1, !.retained = @ - 1], 1, 0, 0, 0, 0 - 1)
           /\ Counted(t, s, [pending[t] EXCEPT !.misses = @ + 1], 0, 1, 0, 0, 0)
           /\ Counted(t, s, [pending[t] EXCEPT !.retained = @ + 1, !.returned = @ + 1], 0, 0, 1, 0, 1)
           /\ Counted(t, s, [pending[t] EXCEPT !.freed = @ + 1], 0, 0, 0, 1, 0)
<1> DEFINE p == pending[t]
<1>1. p \in Counts /\ shared \in Totals
  BY HoldingIs
<1>2. /\ s["hits"] = shared["hits"] /\ s["misses"] = shared["misses"]
      /\ s["returned"] = shared["returned"] /\ s["freed"] = shared["freed"]
      /\ s["retained"] = shared["retained"]
  BY DEF Tallied
<1>3. /\ shared["hits"] \in Int /\ shared["misses"] \in Int /\ shared["returned"] \in Int
      /\ shared["freed"] \in Int /\ shared["retained"] \in Int
      /\ p["hits"] \in Int /\ p["misses"] \in Int /\ p["returned"] \in Int
      /\ p["freed"] \in Int /\ p["retained"] \in Int
  BY <1>1 DEF Counts, Totals
<1>4. Counted(t, s, [p EXCEPT !.oversized = @ + 1], 0, 0, 0, 0, 0)
  BY <1>1, <1>2, <1>3 DEF Counted, Added, Counts
<1>5. Counted(t, s, [p EXCEPT !.hits = @ + 1, !.retained = @ - 1], 1, 0, 0, 0, 0 - 1)
  BY <1>1, <1>2, <1>3 DEF Counted, Added, Counts
<1>6. Counted(t, s, [p EXCEPT !.misses = @ + 1], 0, 1, 0, 0, 0)
  BY <1>1, <1>2, <1>3 DEF Counted, Added, Counts
<1>7. Counted(t, s, [p EXCEPT !.retained = @ + 1, !.returned = @ + 1], 0, 0, 1, 0, 1)
  BY <1>1, <1>2, <1>3 DEF Counted, Added, Counts
<1>8. Counted(t, s, [p EXCEPT !.freed = @ + 1], 0, 0, 0, 1, 0)
  BY <1>1, <1>2, <1>3 DEF Counted, Added, Counts
<1> QED BY <1>4, <1>5, <1>6, <1>7, <1>8

-----------------------------------------------------------------------------
(* The steps that move no block *)

\* Totals and counts that account for a step and settle it.
LEMMA SettledBy ==
    ASSUME NEW t \in Threads, NEW s \in Totals, NEW q, Accounts(t, s, q), Settles(t, s, q)
    PROVE  Settled(t)
<1>1. s.drained \in Int /\ s.orphaned \in Int
  BY DEF Totals
<1> QED BY <1>1 DEF Settled

\* The totals that count no packet and no block.
Idle(s) == /\ s \in Totals /\ \A f \in Tallied : s[f] = shared[f]
           /\ s.drained = shared.drained /\ s.orphaned = shared.orphaned

\* No block moves, and the thread neither begins nor ends a push.
Still(t) == /\ UNCHANGED <<live, stack, slots, taken, kept, trimmed, drained, unparked>>
            /\ pc'[t] \in {"push", "cas"} <=> pc[t] \in {"push", "cas"}

\* The totals as they are, with one cache more and with one less.
LEMMA IdleTotals ==
    ASSUME TypeOK, NEW t \in Threads
    PROVE  /\ Idle(shared) /\ Idle(Opened(t)) /\ Idle([shared EXCEPT !.caches = @ - 1])
<1>1. shared \in Totals
  BY DEF TypeOK
<1>2. [shared EXCEPT !.caches = @ - 1] \in Totals
  BY <1>1 DEF Totals
<1>3. Idle([shared EXCEPT !.caches = @ - 1])
  BY <1>1, <1>2 DEF Idle, Tallied, Totals
<1> QED BY <1>1, <1>3, OpenedIs DEF Idle

\* A count of nothing by a step that moves nothing.
LEMMA StillSettled ==
    ASSUME TypeOK, NEW t \in Threads, Still(t), NEW s, Idle(s),
           NEW q, Counted(t, s, q, 0, 0, 0, 0, 0), Accounts(t, s, q)
    PROVE  Settled(t)
<1>1. Settles(t, s, q)
  BY NothingMoves DEF Idle, Still
<1> QED BY <1>1, SettledBy DEF Idle

\* A step without a count.
LEMMA QuietSettled ==
    ASSUME TypeOK, NEW t \in Threads, Still(t), Idle(shared'), pending' = pending
    PROVE  Settled(t)
<1>1. Counted(t, shared', pending[t], 0, 0, 0, 0, 0)
  <2> DEFINE s == shared'
  <2>1. s \in Totals /\ \A f \in Tallied : s[f] = shared[f]
    BY DEF Idle
  <2> HIDE DEF s
  <2>2. Counted(t, s, pending[t], 0, 0, 0, 0, 0)
    BY <2>1, AddsNothing
  <2> QED BY <2>2 DEF s
<1>2. Accounts(t, shared', pending[t])
  BY KeepsAccounts, HoldingIs DEF Idle
<1> QED BY <1>1, <1>2, StillSettled

\* The counts of a thread may be flushed.
LEMMA CountsFlush ==
    ASSUME NEW p \in Counts
    PROVE  p \in Flushable
BY DEF Counts, Flushable

\* A step that publishes the counts and no more.
LEMMA FlushSettled ==
    ASSUME TypeOK, NEW t \in Threads, Still(t), NEW s, Idle(s), Flush(t, s, pending[t])
    PROVE  Settled(t)
<1>1. pending[t] \in Flushable /\ pending \in [Threads -> Counts] /\ s \in Totals
  BY HoldingIs, CountsFlush DEF Idle
<1>2. Accounts(t, s, pending[t])
  BY <1>1, FlushAccounts
<1>3. Counted(t, s, pending[t], 0, 0, 0, 0, 0)
  BY <1>1, AddsNothing DEF Idle
<1> QED BY <1>2, <1>3, StillSettled

\* The steps that only read, link, publish or open a cache.
LEMMA StillSteps ==
    ASSUME TypeOK, NEW t \in Threads,
           \/ Startup(t) \/ ReadStatistics(t) \/ AcquireOversized(t) \/ Acquire(t)
           \/ AdoptLoad(t) \/ PushLoad(t) \/ PushRetry(t) \/ Retire(t)
    PROVE  Settled(t)
<1>1. pc \in [Threads -> Steps]
  BY DEF TypeOK
<1>2. Still(t)
  BY <1>1 DEF Still, Go, locals, Startup, ReadStatistics, AcquireOversized, Acquire,
              AdoptLoad, PushLoad, PushRetry, Retire
<1>3. CASE Startup(t) \/ Acquire(t) \/ AdoptLoad(t) \/ PushLoad(t) \/ PushRetry(t)
  <2>1. /\ shared' = shared \/ shared' = Opened(t)
        /\ pending' = pending
    BY <1>3 DEF Startup, Acquire, AdoptLoad, PushLoad, PushRetry
  <2>2. Idle(shared')
    BY <2>1, IdleTotals, Zenon
  <2> QED BY <1>2, <2>1, <2>2, QuietSettled
<1>4. CASE ReadStatistics(t)
  BY <1>2, <1>4, IdleTotals, FlushSettled DEF ReadStatistics
<1>5. CASE Retire(t)
  BY <1>2, <1>5, IdleTotals, FlushSettled DEF Retire
<1>6. CASE AcquireOversized(t)
  <2> DEFINE q == [pending[t] EXCEPT !.oversized = @ + 1]
             s == Opened(t)
  <2>1. Idle(s) /\ q \in Counts /\ pending \in [Threads -> Counts]
    BY IdleTotals, HoldingIs, CountedType
  <2>2. Count(t, s, q)
    BY <1>6 DEF AcquireOversized
  <2>3. Counted(t, s, q, 0, 0, 0, 0, 0)
    BY <2>1, AddsOne DEF Idle
  <2> HIDE DEF q, s
  <2>4. Accounts(t, s, q)
    BY <2>1, <2>2, CountAccounts DEF Idle
  <2> QED BY <1>2, <2>1, <2>3, <2>4, StillSettled
<1> QED BY <1>3, <1>4, <1>5, <1>6

\* The cache of a thread that is gone is empty and has published its counts.
LEMMA RespawnSettled ==
    ASSUME TypeOK, NEW t \in Threads, CacheSound(t), LocalsSound(t), Respawn(t)
    PROVE  Settled(t)
<1>1. /\ pc \in [Threads -> Steps] /\ slots \in [Threads -> Seq(Blocks)]
      /\ pending \in [Threads -> Counts]
  BY DEF TypeOK
<1>2. pending[t] = NoCounts /\ slots[t] = <<>>
  BY DEF Respawn, Go, LocalsSound, CacheSound
<1>3. pending' = pending /\ slots' = slots /\ shared' = shared
  BY <1>1, <1>2 DEF Respawn
<1>4. Still(t)
  BY <1>1, <1>3 DEF Still, Go, Respawn, locals
<1> QED BY <1>3, <1>4, IdleTotals, QuietSettled

-----------------------------------------------------------------------------
(* The steps that move a block between a thread's lists, or count it off *)

\* What a step that counts neither packets nor retained blocks has to show.
Shifts(t) ==
    /\ drained'[t] = drained[t]
    /\ Len(stack') + Retained'[t] = Len(stack) + Retained[t]
    /\ Len(stack') + Orphaned'[t] = Len(stack) + Orphaned[t]

\* A step that counts nothing and keeps what the thread holds in the sums.
LEMMA ShiftSettled ==
    ASSUME TypeOK, NEW t \in Threads, Shifts(t), UNCHANGED <<live, shared, pending>>,
           Len(stack') \in Int, Retained'[t] \in Int, Orphaned'[t] \in Int
    PROVE  Settled(t)
<1>1. shared \in Totals /\ pending \in [Threads -> Counts] /\ \A f \in Tallied : shared[f] = shared[f]
  BY HoldingIs
<1>2. Accounts(t, shared, pending[t])
  BY <1>1, KeepsAccounts
<1>3. Counted(t, shared, pending[t], 0, 0, 0, 0, 0)
  BY <1>1, AddsNothing
<1>4. /\ Retained[t] \in Int /\ Orphaned[t] \in Int /\ drained[t] \in Int /\ Len(stack) \in Int
      /\ Cardinality(live) \in Int /\ shared.drained \in Int /\ shared.orphaned \in Int
  <2>1. SumTypes
    BY SumsType
  <2> QED BY <2>1 DEF SumTypes
<1>5. Settles(t, shared, pending[t])
  <2> DEFINE n == Len(stack)  n1 == Len(stack')
             R == Retained[t]  R1 == Retained'[t]  O == Orphaned[t]  O1 == Orphaned'[t]
             L == Cardinality(live)  D == drained[t]  E == shared.drained  F == shared.orphaned
  <2>4. /\ n \in Int /\ n1 \in Int /\ R \in Int /\ R1 \in Int /\ O \in Int /\ O1 \in Int
        /\ L \in Int /\ D \in Int /\ E \in Int /\ F \in Int
    BY <1>4
  <2>5. n1 + R1 = n + R /\ n1 + O1 = n + O /\ drained'[t] = drained[t] /\ live' = live
    BY DEF Shifts
  <2> HIDE DEF n, n1, R, R1, O, O1, L, D, E, F
  <2>6. L - L = 0 /\ D - D = 0 /\ E - E = 0 /\ F - F = 0
    BY <2>4
  <2>7. (n1 - n) + (R1 - R) = 0
    BY <2>4, <2>5
  <2>8. (n1 - n) + (O1 - O) = 0
    BY <2>4, <2>5
  <2>1. /\ Cardinality(live') - Cardinality(live) = 0 /\ drained'[t] - drained[t] = 0
        /\ shared.drained - shared.drained = 0 /\ shared.orphaned - shared.orphaned = 0
    BY <2>5, <2>6, Zenon DEF L, D, E, F
  <2>2. (Len(stack') - Len(stack)) + (Retained'[t] - Retained[t]) = 0
    BY <2>7 DEF n, n1, R, R1
  <2>3. (Len(stack') - Len(stack)) + (Orphaned'[t] - Orphaned[t]) = 0
    BY <2>8 DEF n, n1, O, O1
  <2> QED BY <1>3, <2>1, <2>2, <2>3 DEF Settles, Counted
<1> QED BY <1>1, <1>2, <1>5, SettledBy

\* What a thread holds after a step is typed.
LEMMA HoldsNext ==
    ASSUME TypeOK', NEW t \in Threads
    PROVE  /\ Len(stack') \in Nat /\ Retained'[t] \in Int /\ Orphaned'[t] \in Int
           /\ Len(slots'[t]) \in Nat /\ Len(taken'[t]) \in Nat
           /\ kept'[t] \in Nat /\ trimmed'[t] \in Nat /\ drained'[t] \in Nat
           /\ unparked'[t] \in Nat /\ Cardinality(live') \in Nat
<1>1. SumTypes'
  BY SumsType, PTL
<1>2. /\ slots' \in [Threads -> Seq(Blocks)] /\ taken' \in [Threads -> Seq(Blocks)]
      /\ kept' \in [Threads -> Nat] /\ trimmed' \in [Threads -> Nat]
      /\ drained' \in [Threads -> Nat] /\ unparked' \in [Threads -> Nat]
      /\ stack' \in Seq(Blocks) /\ live' \subseteq Blocks
  BY DEF TypeOK
<1>3. Cardinality(live') \in Nat
  BY <1>2, FiniteAssumption, FS_Subset, FS_CardinalityType
<1>4. Retained'[t] \in Int /\ Orphaned'[t] \in Int
  BY <1>1 DEF SumTypes
<1> QED BY <1>2, <1>3, <1>4

\* What thread t is about to park.
Parting(t) == IF pc[t] \in {"push", "cas"} THEN Len(slots[t]) ELSE 0

\* The numbers that make up what thread t holds.
Sized(t) ==
    /\ Len(stack) \in Nat /\ Len(slots[t]) \in Nat /\ Len(taken[t]) \in Nat
    /\ kept[t] \in Nat /\ trimmed[t] \in Nat /\ drained[t] \in Nat /\ unparked[t] \in Nat
    /\ Parting(t) \in Nat
    /\ Retained[t] = Len(slots[t]) + Len(taken[t]) + trimmed[t] + unparked[t]
    /\ Orphaned[t] = Len(taken[t]) + kept[t] + trimmed[t] + unparked[t] + Parting(t)

AllSized == \A t \in Threads : Sized(t)

\* In typed states the numbers are natural, and make up the sums.
LEMMA SizesType == TypeOK => AllSized
<1> SUFFICES ASSUME TypeOK, NEW t \in Threads PROVE Sized(t)
  BY DEF AllSized
<1>1. /\ Len(stack) \in Nat /\ Len(slots[t]) \in Nat /\ Len(taken[t]) \in Nat
      /\ kept[t] \in Nat /\ trimmed[t] \in Nat /\ drained[t] \in Nat /\ unparked[t] \in Nat
  BY HoldingIs
<1>2. Parting(t) \in Nat
  BY <1>1 DEF Parting
<1>3. /\ Retained[t] = Len(slots[t]) + Len(taken[t]) + trimmed[t] + unparked[t]
      /\ Orphaned[t] = Len(taken[t]) + kept[t] + trimmed[t] + unparked[t] + Parting(t)
  BY DEF Retained, Orphaned, Parting
<1> QED BY <1>1, <1>2, <1>3 DEF Sized

\* What the numbers of thread t change by.
Moved(t, i, j, k, l, m, x, y) ==
    /\ Len(stack') = Len(stack) + i /\ Len(slots'[t]) = Len(slots[t]) + j
    /\ Len(taken'[t]) = Len(taken[t]) + k
    /\ trimmed'[t] = trimmed[t] + l /\ unparked'[t] = unparked[t] + m
    /\ kept'[t] = kept[t] + x /\ Parting(t)' = Parting(t) + y

\* The retained blocks and the orphans that thread t or the stack has change by n and o.
MovesTo(t, n, o) ==
    /\ Len(stack') + Retained'[t] = Len(stack) + Retained[t] + n
    /\ Len(stack') + Orphaned'[t] = Len(stack) + Orphaned[t] + o
    /\ Len(stack) \in Int /\ Len(stack') \in Int
    /\ Retained[t] \in Int /\ Retained'[t] \in Int
    /\ Orphaned[t] \in Int /\ Orphaned'[t] \in Int

\* They change by what the numbers change by.
LEMMA MovedBy ==
    ASSUME TypeOK, TypeOK', NEW t \in Threads,
           NEW i \in Int, NEW j \in Int, NEW k \in Int, NEW l \in Int,
           NEW m \in Int, NEW x \in Int, NEW y \in Int, Moved(t, i, j, k, l, m, x, y)
    PROVE  MovesTo(t, i + j + k + l + m, i + k + l + m + x + y)
<1>1. Sized(t) /\ Sized(t)'
  <2>1. AllSized /\ AllSized'
    BY SizesType, PTL
  <2> QED BY <2>1 DEF AllSized
<1> DEFINE n == Len(stack)  n1 == Len(stack')  s == Len(slots[t])  s1 == Len(slots'[t])
           c == Len(taken[t])  c1 == Len(taken'[t])  p == Parting(t)  p1 == Parting(t)'
           g == trimmed[t]  g1 == trimmed'[t]  w == unparked[t]  w1 == unparked'[t]
           h == kept[t]  h1 == kept'[t]
           R == Retained[t]  R1 == Retained'[t]  O == Orphaned[t]  O1 == Orphaned'[t]
<1>2. /\ n \in Nat /\ s \in Nat /\ c \in Nat /\ h \in Nat /\ g \in Nat /\ w \in Nat /\ p \in Nat
      /\ R = s + c + g + w /\ O = c + h + g + w + p
  BY <1>1 DEF Sized
<1>3. /\ n1 \in Nat /\ s1 \in Nat /\ c1 \in Nat /\ h1 \in Nat /\ g1 \in Nat /\ w1 \in Nat
      /\ p1 \in Nat /\ R1 = s1 + c1 + g1 + w1 /\ O1 = c1 + h1 + g1 + w1 + p1
  BY <1>1 DEF Sized
<1>4. /\ n1 = n + i /\ s1 = s + j /\ c1 = c + k /\ g1 = g + l /\ w1 = w + m
      /\ h1 = h + x /\ p1 = p + y
  BY DEF Moved
<1> HIDE DEF n, n1, s, s1, c, c1, p, p1, g, g1, w, w1, h, h1, R, R1, O, O1
<1>5. n1 + R1 = n + R + (i + j + k + l + m)
  BY <1>2, <1>3, <1>4
<1>6. n1 + O1 = n + O + (i + k + l + m + x + y)
  BY <1>2, <1>3, <1>4
<1>7. n \in Int /\ n1 \in Int /\ R \in Int /\ R1 \in Int /\ O \in Int /\ O1 \in Int
  BY <1>2, <1>3
<1> QED BY <1>5, <1>6, <1>7, Zenon DEF MovesTo, n, n1, R, R1, O, O1

\* The blocks that leave one of the thread's lists enter another or are counted.
Shift(t, i, j, k, l, m, x, y) ==
    /\ Moved(t, i, j, k, l, m, x, y) /\ drained'[t] = drained[t]
    /\ i + j + k + l + m = 0 /\ i + k + l + m + x + y = 0

\* Moves that cancel out keep what the thread holds in the sums.
LEMMA ShiftsBy ==
    ASSUME TypeOK, TypeOK', NEW t \in Threads,
           NEW i \in Int, NEW j \in Int, NEW k \in Int, NEW l \in Int,
           NEW m \in Int, NEW x \in Int, NEW y \in Int,
           Shift(t, i, j, k, l, m, x, y)
    PROVE  Shifts(t)
<1>1. /\ Moved(t, i, j, k, l, m, x, y) /\ drained'[t] = drained[t]
      /\ i + j + k + l + m = 0 /\ i + k + l + m + x + y = 0
  BY DEF Shift
<1>2. MovesTo(t, i + j + k + l + m, i + k + l + m + x + y)
  BY <1>1, MovedBy
<1>5. /\ Len(stack') + Retained'[t] = Len(stack) + Retained[t] + 0
      /\ Len(stack') + Orphaned'[t] = Len(stack) + Orphaned[t] + 0
      /\ Len(stack) \in Int /\ Retained[t] \in Int /\ Orphaned[t] \in Int
  BY <1>1, <1>2, Zenon DEF MovesTo
<1> DEFINE n == Len(stack)  R == Retained[t]  O == Orphaned[t]
<1>3. n \in Int /\ R \in Int /\ O \in Int
  BY <1>5
<1> HIDE DEF n, R, O
<1>4. n + R + 0 = n + R /\ n + O + 0 = n + O
  BY <1>3
<1> QED BY <1>1, <1>4, <1>5, Zenon DEF Shifts, n, R, O

\* The whole stack goes to a thread whose chain is empty.
LEMMA TakeAllSettled ==
    ASSUME TypeOK, TypeOK', NEW t \in Threads, CacheSound(t), AdoptTake(t) \/ DrainTake(t)
    PROVE  Settled(t)
<1>1. /\ pc \in [Threads -> Steps] /\ taken \in [Threads -> Seq(Blocks)]
      /\ stack \in Seq(Blocks)
  BY DEF TypeOK
<1>2. /\ taken[t] = <<>> /\ taken'[t] = stack /\ stack' = <<>>
      /\ pc[t] \notin {"push", "cas"} /\ pc'[t] \notin {"push", "cas"}
      /\ UNCHANGED <<slots, kept, trimmed, drained, unparked, live, shared, pending>>
  BY <1>1 DEF CacheSound, AdoptTake, DrainTake, TakeAll, Go
<1>3. Len(taken[t]) = 0 /\ Len(stack') = 0 /\ Len(taken'[t]) = Len(stack)
  BY <1>2
<1>4. Shifts(t)
  <2>1. Parting(t) = 0 /\ Parting(t)' = 0
    BY <1>2 DEF Parting
  <2>2. Sized(t)
    BY SizesType DEF AllSized
  <2>7. Len(stack) \in Nat
    BY <2>2 DEF Sized
  <2>3. PICK n \in Int, i \in Int, z \in Int : n = Len(stack) /\ i = 0 - n /\ z = 0
    BY <2>7
  <2>4. drained'[t] = drained[t] /\ kept'[t] = kept[t] /\ slots'[t] = slots[t]
        /\ trimmed' = trimmed /\ unparked' = unparked
    BY <1>2
  <2>8. /\ Len(stack') = Len(stack) + i /\ Len(slots'[t]) = Len(slots[t]) + z
        /\ Len(taken'[t]) = Len(taken[t]) + n
    BY <1>3, <2>1, <2>2, <2>3, <2>4 DEF Sized
  <2>9. /\ trimmed'[t] = trimmed[t] + z /\ unparked'[t] = unparked[t] + z
        /\ kept'[t] = kept[t] + z /\ Parting(t)' = Parting(t) + z
    BY <1>3, <2>1, <2>2, <2>3, <2>4 DEF Sized
  <2>10. /\ i + z + n + z + z = 0 /\ i + n + z + z + z + z = 0
    BY <2>3
  <2>5. Shift(t, i, z, n, z, z, z, z)
    BY <2>4, <2>8, <2>9, <2>10 DEF Shift, Moved
  <2> QED BY <2>4, <2>5, ShiftsBy
<1> QED BY <1>2, <1>4, HoldsNext, ShiftSettled

\* The next block of a chain leaves it.
LEMMA FollowLen ==
    ASSUME IInv, NEW t \in Threads, chain[t] # NoBlock, Follow(t)
    PROVE  Len(taken'[t]) = Len(taken[t]) - 1 /\ Len(taken[t]) \in Nat
<1>1. taken \in [Threads -> Seq(Blocks)] /\ taken[t] \in Seq(Blocks) /\ taken[t] # <<>>
  BY ChainBlock DEF IInv, TypeOK
<1>2. taken'[t] = Tail(taken[t])
  BY <1>1 DEF Follow
<1> QED BY <1>1, <1>2, TailBlock

\* A block of the chain enters the cache, or is freed and counted as trimmed.
LEMMA AdoptSettled ==
    ASSUME IInv, TypeOK', NEW t \in Threads, AdoptKeep(t) \/ AdoptTrim(t)
    PROVE  Settled(t)
<1>1. /\ TypeOK /\ pc \in [Threads -> Steps] /\ slots \in [Threads -> Seq(Blocks)]
      /\ kept \in [Threads -> Nat] /\ trimmed \in [Threads -> Nat]
  BY DEF IInv, TypeOK
<1>2. /\ chain[t] # NoBlock /\ Follow(t)
      /\ pc[t] \notin {"push", "cas"} /\ pc'[t] \notin {"push", "cas"}
      /\ UNCHANGED <<stack, drained, unparked, live, shared, pending>>
  BY <1>1 DEF AdoptKeep, AdoptTrim, Go
<1>3. Len(taken'[t]) = Len(taken[t]) - 1
  BY <1>2, FollowLen
<1>4. CASE AdoptKeep(t)
  <2>1. kept'[t] = kept[t] + 1 /\ trimmed' = trimmed
    BY <1>1, <1>4 DEF AdoptKeep
  <2>2. slots'[t] = Append(slots[t], chain[t]) /\ chain[t] \in Blocks /\ slots[t] \in Seq(Blocks)
    BY <1>1, <1>2, <1>4, ChainBlock DEF AdoptKeep
  <2>3. Len(slots'[t]) = Len(slots[t]) + 1
    BY <2>2, AppendBlock
  <2>4. Parting(t) = 0 /\ Parting(t)' = 0 /\ Sized(t)
    BY <1>1, <1>2, SizesType DEF Parting, AllSized
  <2>5. PICK o \in Int, i \in Int, z \in Int : o = 1 /\ i = 0 - 1 /\ z = 0
    OBVIOUS
  <2>6. drained'[t] = drained[t] /\ stack' = stack /\ unparked' = unparked
    BY <1>2
  <2>9. /\ Len(stack') = Len(stack) + z /\ Len(slots'[t]) = Len(slots[t]) + o
        /\ Len(taken'[t]) = Len(taken[t]) + i
    BY <1>3, <2>3, <2>4, <2>5, <2>6 DEF Sized
  <2>10. /\ trimmed'[t] = trimmed[t] + z /\ unparked'[t] = unparked[t] + z
         /\ kept'[t] = kept[t] + o /\ Parting(t)' = Parting(t) + z
    BY <2>1, <2>4, <2>5, <2>6 DEF Sized
  <2>11. z + o + i + z + z = 0 /\ z + i + z + z + o + z = 0
    BY <2>5
  <2>7. Shift(t, z, o, i, z, z, o, z)
    BY <2>6, <2>9, <2>10, <2>11 DEF Shift, Moved
  <2>8. Shifts(t)
    BY <1>1, <2>5, <2>6, <2>7, ShiftsBy
  <2> QED BY <1>1, <1>2, <2>8, HoldsNext, ShiftSettled
<1>5. CASE AdoptTrim(t)
  <2>1. trimmed'[t] = trimmed[t] + 1 /\ kept' = kept /\ slots' = slots
    BY <1>1, <1>5 DEF AdoptTrim
  <2>2. Parting(t) = 0 /\ Parting(t)' = 0 /\ Sized(t)
    BY <1>1, <1>2, SizesType DEF Parting, AllSized
  <2>3. PICK o \in Int, i \in Int, z \in Int : o = 1 /\ i = 0 - 1 /\ z = 0
    OBVIOUS
  <2>5. drained'[t] = drained[t] /\ stack' = stack /\ unparked' = unparked
    BY <1>2
  <2>7. /\ Len(stack') = Len(stack) + z /\ Len(slots'[t]) = Len(slots[t]) + z
        /\ Len(taken'[t]) = Len(taken[t]) + i
    BY <1>3, <2>1, <2>2, <2>3, <2>5 DEF Sized
  <2>8. /\ trimmed'[t] = trimmed[t] + o /\ unparked'[t] = unparked[t] + z
        /\ kept'[t] = kept[t] + z /\ Parting(t)' = Parting(t) + z
    BY <1>3, <2>1, <2>2, <2>3, <2>5 DEF Sized
  <2>9. /\ z + z + i + o + z = 0 /\ z + i + o + z + z + z = 0
    BY <2>3
  <2>6. Shift(t, z, z, i, o, z, z, z)
    BY <2>5, <2>7, <2>8, <2>9 DEF Shift, Moved
  <2>4. Shifts(t)
    BY <1>1, <2>3, <2>5, <2>6, ShiftsBy
  <2> QED BY <1>1, <1>2, <2>4, HoldsNext, ShiftSettled
<1> QED BY <1>4, <1>5

\* A block of the chain is freed and counted as unparked.
LEMMA DrainFreeSettled ==
    ASSUME IInv, TypeOK', NEW t \in Threads, DrainFree(t)
    PROVE  Settled(t)
<1>1. /\ TypeOK /\ pc \in [Threads -> Steps] /\ unparked \in [Threads -> Nat]
  BY DEF IInv, TypeOK
<1>2. /\ chain[t] # NoBlock /\ Follow(t)
      /\ pc[t] \notin {"push", "cas"} /\ pc'[t] \notin {"push", "cas"}
      /\ unparked'[t] = unparked[t] + 1
      /\ UNCHANGED <<stack, slots, drained, kept, trimmed, live, shared, pending>>
  BY <1>1 DEF DrainFree, Go
<1>3. Len(taken'[t]) = Len(taken[t]) - 1
  BY <1>2, FollowLen
<1>4. Shifts(t)
  <2>2. Parting(t) = 0 /\ Parting(t)' = 0 /\ Sized(t)
    BY <1>1, <1>2, SizesType DEF Parting, AllSized
  <2>3. PICK o \in Int, i \in Int, z \in Int : o = 1 /\ i = 0 - 1 /\ z = 0
    OBVIOUS
  <2>5. drained'[t] = drained[t] /\ stack' = stack /\ kept' = kept /\ slots' = slots
        /\ trimmed' = trimmed /\ unparked'[t] = unparked[t] + 1
    BY <1>2
  <2>7. /\ Len(stack') = Len(stack) + z /\ Len(slots'[t]) = Len(slots[t]) + z
        /\ Len(taken'[t]) = Len(taken[t]) + i
    BY <1>3, <2>2, <2>3, <2>5 DEF Sized
  <2>8. /\ trimmed'[t] = trimmed[t] + z /\ unparked'[t] = unparked[t] + o
        /\ kept'[t] = kept[t] + z /\ Parting(t)' = Parting(t) + z
    BY <1>3, <2>2, <2>3, <2>5 DEF Sized
  <2>9. /\ z + z + i + z + o = 0 /\ z + i + z + o + z + z = 0
    BY <2>3
  <2>6. Shift(t, z, z, i, z, o, z, z)
    BY <2>5, <2>7, <2>8, <2>9 DEF Shift, Moved
  <2> QED BY <1>1, <2>3, <2>5, <2>6, ShiftsBy
<1> QED BY <1>1, <1>2, <1>4, HoldsNext, ShiftSettled

\* The blocks of the thread become blocks of the stack.
LEMMA PushSettled ==
    ASSUME TypeOK, TypeOK', NEW t \in Threads, PushDone(t)
    PROVE  Settled(t)
<1>1. /\ pc \in [Threads -> Steps] /\ slots \in [Threads -> Seq(Blocks)]
      /\ stack \in Seq(Blocks)
  BY DEF TypeOK
<1>2. /\ pc[t] \in {"push", "cas"} /\ pc'[t] \notin {"push", "cas"}
      /\ stack' = slots[t] \o stack /\ slots'[t] = <<>>
      /\ UNCHANGED <<kept, trimmed, drained, unparked, taken, live, shared, pending>>
  BY <1>1 DEF PushDone, Go
<1>3. Len(stack') = Len(slots[t]) + Len(stack) /\ Len(slots'[t]) = 0
  BY <1>1, <1>2, JoinBlocks
<1>4. Shifts(t)
  <2>1. Parting(t) = Len(slots[t]) /\ Parting(t)' = 0 /\ Sized(t)
    BY <1>2, SizesType DEF Parting, AllSized
  <2>2. PICK n \in Int, i \in Int, z \in Int : n = Len(slots[t]) /\ i = 0 - n /\ z = 0
    BY <2>1 DEF Sized
  <2>3. drained'[t] = drained[t] /\ kept' = kept /\ taken' = taken
        /\ trimmed' = trimmed /\ unparked' = unparked
    BY <1>2
  <2>5. /\ Len(stack') = Len(stack) + n /\ Len(slots'[t]) = Len(slots[t]) + i
        /\ Len(taken'[t]) = Len(taken[t]) + z
    BY <1>3, <2>1, <2>2, <2>3 DEF Sized
  <2>6. /\ trimmed'[t] = trimmed[t] + z /\ unparked'[t] = unparked[t] + z
        /\ kept'[t] = kept[t] + z /\ Parting(t)' = Parting(t) + i
    BY <1>3, <2>1, <2>2, <2>3 DEF Sized
  <2>7. /\ n + i + z + z + z = 0 /\ n + z + z + z + z + i = 0
    BY <2>2
  <2>4. Shift(t, n, i, z, z, z, z, i)
    BY <2>3, <2>5, <2>6, <2>7 DEF Shift, Moved
  <2> QED BY <2>2, <2>3, <2>4, ShiftsBy
<1> QED BY <1>2, <1>4, HoldsNext, ShiftSettled

-----------------------------------------------------------------------------
(* The steps that count *)

\* What a step changes the packets, the drained blocks and the orphans by.
Entered(t, s, c, d, e, o) ==
    /\ Cardinality(live') = Cardinality(live) + c
    /\ drained'[t] = drained[t] + d
    /\ s.drained = shared.drained + e /\ s.orphaned = shared.orphaned + o

\* Those changes, the counts and the moves of blocks agree.
Agree(i, j, k, l, m, x, y, dh, dm, dr, df, dn, c, d, e, o) ==
    /\ dh + dm = dr + df + c /\ dn = dr - dh - e - d
    /\ dn = i + j + k + l + m /\ o = i + k + l + m + x + y

\* The counts are those of the changes: packets, retained blocks twice, orphans.
LEMMA SettlesBy ==
    ASSUME TypeOK, TypeOK', NEW t \in Threads, NEW s, NEW q,
           NEW i \in Int, NEW j \in Int, NEW k \in Int, NEW l \in Int,
           NEW m \in Int, NEW x \in Int, NEW y \in Int, Moved(t, i, j, k, l, m, x, y),
           NEW dh \in Int, NEW dm \in Int, NEW dr \in Int, NEW df \in Int, NEW dn \in Int,
           Counted(t, s, q, dh, dm, dr, df, dn),
           NEW c \in Int, NEW d \in Int, NEW e \in Int, NEW o \in Int,
           Entered(t, s, c, d, e, o),
           Agree(i, j, k, l, m, x, y, dh, dm, dr, df, dn, c, d, e, o)
    PROVE  Settles(t, s, q)
<1> DEFINE n == Len(stack)  n1 == Len(stack')
           R == Retained[t]  R1 == Retained'[t]  O == Orphaned[t]  O1 == Orphaned'[t]
           L == Cardinality(live)  L1 == Cardinality(live')  D == drained[t]  D1 == drained'[t]
           E == shared.drained  E1 == s.drained  F == shared.orphaned  F1 == s.orphaned
<1>1. /\ n1 + R1 = n + R + dn /\ n1 + O1 = n + O + o
      /\ n \in Int /\ n1 \in Int /\ R \in Int /\ R1 \in Int /\ O \in Int /\ O1 \in Int
  <2>1. MovesTo(t, i + j + k + l + m, i + k + l + m + x + y)
    BY MovedBy
  <2>2. dn = i + j + k + l + m /\ o = i + k + l + m + x + y
    BY DEF Agree
  <2> QED BY <2>1, <2>2, Zenon DEF MovesTo
<1>2. L \in Int /\ D \in Int /\ E \in Int /\ F \in Int
  <2>1. SumTypes
    BY SumsType
  <2> QED BY <2>1 DEF SumTypes
<1>3. L1 = L + c /\ D1 = D + d /\ E1 = E + e /\ F1 = F + o
  BY DEF Entered
<1>4. /\ Added(t, s, q, "hits") = dh /\ Added(t, s, q, "misses") = dm
      /\ Added(t, s, q, "returned") = dr /\ Added(t, s, q, "freed") = df
      /\ Added(t, s, q, "retained") = dn
  BY DEF Counted
<1> HIDE DEF n, n1, R, R1, O, O1, L, L1, D, D1, E, E1, F, F1
<1>5. /\ dh + dm = dr + df + (L1 - L) /\ dn = dr - dh - (E1 - E) - (D1 - D)
      /\ dn = (n1 - n) + (R1 - R) /\ F1 - F = (n1 - n) + (O1 - O)
  <2>1. dh + dm = dr + df + c /\ dn = dr - dh - e - d
    BY DEF Agree
  <2> QED BY <1>1, <1>2, <1>3, <2>1
<1>6. /\ Added(t, s, q, "hits") + Added(t, s, q, "misses") =
            Added(t, s, q, "returned") + Added(t, s, q, "freed") + (L1 - L)
      /\ Added(t, s, q, "retained") =
            Added(t, s, q, "returned") - Added(t, s, q, "hits") - (E1 - E) - (D1 - D)
      /\ Added(t, s, q, "retained") = (n1 - n) + (R1 - R)
      /\ F1 - F = (n1 - n) + (O1 - O)
  BY <1>4, <1>5, Zenon
<1> QED BY <1>6, Zenon DEF Settles, n, n1, R, R1, O, O1, L, L1, D, D1, E, E1, F, F1

\* The packets when one is made and when one is given up.
LEMMA LiveMoves ==
    ASSUME TypeOK, NEW b
    PROVE  /\ b \notin live => Cardinality(live \cup {b}) = Cardinality(live) + 1
           /\ b \in live => Cardinality(live \ {b}) = Cardinality(live) - 1
           /\ Cardinality(live) \in Nat
<1>1. IsFiniteSet(live)
  BY FiniteAssumption, FS_Subset DEF TypeOK
<1>2. Cardinality(live) \in Nat
  BY <1>1, FS_CardinalityType
<1>3. ASSUME b \notin live PROVE Cardinality(live \cup {b}) = Cardinality(live) + 1
  BY <1>1, <1>3, FS_AddElement
<1>4. ASSUME b \in live PROVE Cardinality(live \ {b}) = Cardinality(live) - 1
  BY <1>1, <1>4, FS_RemoveElement
<1> QED BY <1>2, <1>3, <1>4

\* What a thread at none of the places of a push keeps.
KeepsRest(t) == /\ UNCHANGED <<stack, taken, kept, trimmed, unparked>>
           /\ pc[t] \notin {"push", "cas"} /\ pc'[t] \notin {"push", "cas"}

\* Only the cache of such a thread changes.
LEMMA KeptMoves ==
    ASSUME TypeOK, NEW t \in Threads, KeepsRest(t), NEW j \in Int,
           Len(slots'[t]) = Len(slots[t]) + j, NEW z, z = 0
    PROVE  Moved(t, z, j, z, z, z, z, z)
<1>1. Sized(t)
  BY SizesType DEF AllSized
<1>2. Parting(t) = 0 /\ Parting(t)' = 0
  BY DEF KeepsRest, Parting
<1>3. /\ stack' = stack /\ taken' = taken /\ kept' = kept /\ trimmed' = trimmed
      /\ unparked' = unparked
  BY DEF KeepsRest
<1>4. /\ Len(stack) \in Nat /\ Len(taken[t]) \in Nat
      /\ kept[t] \in Nat /\ trimmed[t] \in Nat /\ unparked[t] \in Nat
  BY <1>1 DEF Sized
<1> QED BY <1>2, <1>3, <1>4 DEF Moved

\* The packets and the thread's cache change by what is counted.
Packets(t, dh, dm, dr, df, dn, c) ==
    /\ Cardinality(live') = Cardinality(live) + c
    /\ Len(slots'[t]) = Len(slots[t]) + dn
    /\ dh + dm = dr + df + c /\ dn = dr - dh

\* A count of one packet, with the block it puts into the cache or takes from it.
LEMMA PacketSettled ==
    ASSUME TypeOK, TypeOK', NEW t \in Threads, KeepsRest(t), drained'[t] = drained[t],
           NEW s, Idle(s), NEW q, Accounts(t, s, q),
           NEW dh \in Int, NEW dm \in Int, NEW dr \in Int, NEW df \in Int, NEW dn \in Int,
           Counted(t, s, q, dh, dm, dr, df, dn),
           NEW c \in Int, Packets(t, dh, dm, dr, df, dn, c)
    PROVE  Settled(t)
<1>1. PICK z \in Int : z = 0
  OBVIOUS
<1>2. Moved(t, z, dn, z, z, z, z, z)
  BY <1>1, KeptMoves DEF Packets
<1>3. Entered(t, s, c, z, z, z)
  <2>1. drained[t] \in Nat /\ shared.drained \in Nat /\ shared.orphaned \in Int
    BY HoldingIs
  <2>2. s.drained = shared.drained /\ s.orphaned = shared.orphaned
    BY DEF Idle
  <2> QED BY <1>1, <2>1, <2>2 DEF Entered, Packets
<1>4. Agree(z, dn, z, z, z, z, z, dh, dm, dr, df, dn, c, z, z, z)
  BY <1>1 DEF Agree, Packets
<1>5. Settles(t, s, q)
  BY <1>1, <1>2, <1>3, <1>4, SettlesBy
<1> QED BY <1>5, SettledBy DEF Idle

\* A hit: one packet more, one block of the cache less.
LEMMA TakeHitSettled ==
    ASSUME IInv, TypeOK', NEW t \in Threads, TakeHit(t)
    PROVE  Settled(t)
<1>1. /\ TypeOK /\ pc \in [Threads -> Steps] /\ slots \in [Threads -> Seq(Blocks)]
      /\ slots[t] \in Seq(Blocks) /\ slots[t] # <<>>
  BY DEF IInv, TypeOK, TakeHit
<1> DEFINE b == slots[t][Len(slots[t])]
           q == [pending[t] EXCEPT !.hits = @ + 1, !.retained = @ - 1]
<1>2. KeepsRest(t) /\ drained'[t] = drained[t]
  BY <1>1 DEF KeepsRest, TakeHit, Go, locals
<1>3. /\ live' = live \cup {b} /\ slots'[t] = Front(slots[t]) /\ Count(t, shared, q)
  BY <1>1 DEF TakeHit
<1>4. Len(slots'[t]) = Len(slots[t]) - 1 /\ Len(slots[t]) \in Nat /\ b \in Elems(slots[t])
  BY <1>1, <1>3, FrontBlock
<1>5. b \notin live
  BY <1>4 DEF IInv, OwnedOnce, Apart
<1>6. Cardinality(live') = Cardinality(live) + 1
  BY <1>1, <1>3, <1>5, LiveMoves
<1>7. Idle(shared) /\ q \in Counts /\ pending \in [Threads -> Counts]
  BY <1>1, IdleTotals, HoldingIs, CountedType
<1>8. Counted(t, shared, q, 1, 0, 0, 0, 0 - 1)
  BY <1>1, <1>7, AddsOne DEF Idle
<1> HIDE DEF b, q
<1>9. Accounts(t, shared, q)
  BY <1>3, <1>7, CountAccounts DEF Idle
<1>10. PICK o \in Int, z \in Int, i \in Int : o = 1 /\ z = 0 /\ i = 0 - 1
  OBVIOUS
<1>11. Counted(t, shared, q, o, z, z, z, i)
  BY <1>8, <1>10 DEF Counted
<1>12. Packets(t, o, z, z, z, i, o)
  BY <1>4, <1>6, <1>10 DEF Packets
<1> QED BY <1>1, <1>2, <1>7, <1>9, <1>10, <1>11, <1>12, PacketSettled

\* A miss: one packet more, or nothing when enet_malloc fails.
LEMMA TakeMissSettled ==
    ASSUME IInv, TypeOK', NEW t \in Threads, TakeMiss(t)
    PROVE  Settled(t)
<1>1. /\ TypeOK /\ pc \in [Threads -> Steps] /\ slots \in [Threads -> Seq(Blocks)]
      /\ slots' = slots
  BY DEF IInv, TypeOK, TakeMiss
<1> DEFINE q == [pending[t] EXCEPT !.misses = @ + 1]
<1>2. KeepsRest(t) /\ drained' = drained
  BY <1>1 DEF KeepsRest, TakeMiss, Go, locals
<1>3. CASE UNCHANGED <<heap, live, shared, pending>>
  <2>1. Still(t)
    BY <1>1, <1>2, <1>3 DEF Still, KeepsRest
  <2> QED BY <1>1, <1>3, <2>1, IdleTotals, QuietSettled
<1>4. CASE \E b \in heap : live' = live \cup {b} /\ Count(t, shared, q)
  <2> PICK b \in heap : live' = live \cup {b} /\ Count(t, shared, q)
    BY <1>4
  <2>1. b \notin live
    BY DEF IInv, OwnedOnce, Apart
  <2>2. Cardinality(live') = Cardinality(live) + 1
    BY <1>1, <2>1, LiveMoves
  <2>3. Idle(shared) /\ q \in Counts /\ pending \in [Threads -> Counts]
    BY <1>1, IdleTotals, HoldingIs, CountedType
  <2>4. Counted(t, shared, q, 0, 1, 0, 0, 0)
    BY <1>1, <2>3, AddsOne DEF Idle
  <2> HIDE DEF q
  <2>5. Accounts(t, shared, q)
    BY <2>3, CountAccounts DEF Idle
  <2>6. PICK o \in Int, z \in Int : o = 1 /\ z = 0
    OBVIOUS
  <2>7. Counted(t, shared, q, z, o, z, z, z)
    BY <2>4, <2>6 DEF Counted
  <2>9. Len(slots[t]) \in Nat /\ drained'[t] = drained[t]
    BY <1>1, <1>2, HoldingIs
  <2>8. Packets(t, z, o, z, z, z, o)
    BY <1>1, <2>2, <2>6, <2>9 DEF Packets
  <2> QED BY <1>1, <1>2, <2>9, <2>3, <2>5, <2>6, <2>7, <2>8, PacketSettled
<1> QED BY <1>3, <1>4 DEF TakeMiss

\* A release into the cache: one packet less, one block of the cache more.
LEMMA ReleaseKeepSettled ==
    ASSUME IInv, TypeOK', NEW t \in Threads, ReleaseKeep(t)
    PROVE  Settled(t)
<1>1. /\ TypeOK /\ pc \in [Threads -> Steps] /\ slots \in [Threads -> Seq(Blocks)]
      /\ slots[t] \in Seq(Blocks) /\ live \subseteq Blocks
  BY DEF IInv, TypeOK
<1> DEFINE q == [pending[t] EXCEPT !.retained = @ + 1, !.returned = @ + 1]
           s == Opened(t)
<1>2. KeepsRest(t) /\ drained'[t] = drained[t]
  BY <1>1 DEF KeepsRest, ReleaseKeep, Go, locals
<1>3. PICK b \in live : /\ live' = live \ {b} /\ slots'[t] = Append(slots[t], b)
                        /\ Count(t, s, q)
  BY <1>1 DEF ReleaseKeep
<1>4. Len(slots'[t]) = Len(slots[t]) + 1
  BY <1>1, <1>3, AppendBlock
<1>6. Cardinality(live') = Cardinality(live) - 1 /\ Cardinality(live) \in Nat
  BY <1>1, <1>3, LiveMoves
<1>7. Idle(s) /\ q \in Counts /\ pending \in [Threads -> Counts]
  BY <1>1, IdleTotals, HoldingIs, CountedType
<1>8. Counted(t, s, q, 0, 0, 1, 0, 1)
  BY <1>1, <1>7, AddsOne DEF Idle
<1> HIDE DEF q, s
<1>9. Accounts(t, s, q)
  BY <1>3, <1>7, CountAccounts DEF Idle
<1>10. PICK o \in Int, z \in Int, i \in Int : o = 1 /\ z = 0 /\ i = 0 - 1
  OBVIOUS
<1>11. Counted(t, s, q, z, z, o, z, o)
  BY <1>8, <1>10 DEF Counted
<1>12. Packets(t, z, z, o, z, o, i)
  BY <1>4, <1>6, <1>10 DEF Packets
<1> QED BY <1>1, <1>2, <1>7, <1>9, <1>10, <1>11, <1>12, PacketSettled

\* A release past a full cache: one packet less.
LEMMA ReleaseFreeSettled ==
    ASSUME IInv, TypeOK', NEW t \in Threads, ReleaseFree(t)
    PROVE  Settled(t)
<1>1. /\ TypeOK /\ pc \in [Threads -> Steps] /\ slots' = slots
  BY DEF IInv, TypeOK, ReleaseFree
<1> DEFINE q == [pending[t] EXCEPT !.freed = @ + 1]
           s == Opened(t)
<1>2. KeepsRest(t) /\ drained'[t] = drained[t]
  BY <1>1 DEF KeepsRest, ReleaseFree, Go, locals
<1>3. PICK b \in live : live' = live \ {b} /\ Count(t, s, q)
  BY <1>1 DEF ReleaseFree
<1>6. Cardinality(live') = Cardinality(live) - 1 /\ Cardinality(live) \in Nat
  BY <1>1, <1>3, LiveMoves
<1>7. Idle(s) /\ q \in Counts /\ pending \in [Threads -> Counts]
  BY <1>1, IdleTotals, HoldingIs, CountedType
<1>8. Counted(t, s, q, 0, 0, 0, 1, 0)
  BY <1>1, <1>7, AddsOne DEF Idle
<1> HIDE DEF q, s
<1>9. Accounts(t, s, q)
  BY <1>3, <1>7, CountAccounts DEF Idle
<1>10. PICK o \in Int, z \in Int, i \in Int : o = 1 /\ z = 0 /\ i = 0 - 1
  OBVIOUS
<1>11. Counted(t, s, q, z, z, z, o, z)
  BY <1>8, <1>10 DEF Counted
<1>5. Len(slots[t]) \in Nat
  BY <1>1, HoldingIs
<1>12. Packets(t, z, z, z, o, z, i)
  BY <1>1, <1>5, <1>6, <1>10 DEF Packets
<1> QED BY <1>1, <1>2, <1>7, <1>9, <1>10, <1>11, <1>12, PacketSettled

\* What a change of one of a thread's own counts adds.
LEMMA AddsPending ==
    ASSUME NEW t \in Threads, NEW q, NEW f, NEW n \in Int, shared[f] \in Int,
           pending[t][f] \in Int, q[f] = pending[t][f] + n
    PROVE  Added(t, shared, q, f) = n
<1> DEFINE a == shared[f]  b == pending[t][f]  c == q[f]
<1>1. a \in Int /\ b \in Int /\ c = b + n
  OBVIOUS
<1> HIDE DEF a, b, c
<1>2. (a + c) - (a + b) = n
  BY <1>1
<1> QED BY <1>2 DEF Added, a, b, c

\* What a change of the totals alone adds.
LEMMA AddsTotals ==
    ASSUME TypeOK, NEW t \in Threads, NEW s \in Totals,
           NEW dh \in Int, NEW dm \in Int, NEW dr \in Int, NEW df \in Int, NEW dn \in Int,
           s.hits = shared.hits + dh, s.misses = shared.misses + dm,
           s.returned = shared.returned + dr, s.freed = shared.freed + df,
           s.retained = shared.retained + dn
    PROVE  Counted(t, s, pending[t], dh, dm, dr, df, dn)
<1>1. shared \in Totals /\ pending[t] \in Counts
  BY HoldingIs
<1>2. /\ shared.hits \in Int /\ shared.misses \in Int /\ shared.returned \in Int
      /\ shared.freed \in Int /\ shared.retained \in Int
  BY <1>1 DEF Totals
<1>3. /\ pending[t].hits \in Int /\ pending[t].misses \in Int /\ pending[t].returned \in Int
      /\ pending[t].freed \in Int /\ pending[t].retained \in Int
  BY <1>1 DEF Counts
<1> QED BY <1>2, <1>3 DEF Counted, Added

\* A release without a cache, counted in the totals at once.
LEMMA ReleaseUncachedSettled ==
    ASSUME IInv, TypeOK', NEW t \in Threads, ReleaseUncached(t)
    PROVE  Settled(t)
<1> DEFINE s == [shared EXCEPT !.freed = @ + 1]
<1>1. /\ TypeOK /\ pc \in [Threads -> Steps] /\ slots' = slots /\ shared \in Totals
      /\ pending' = pending /\ shared' = s /\ pending \in [Threads -> Counts]
  BY DEF IInv, TypeOK, ReleaseUncached
<1>2. /\ UNCHANGED <<stack, taken, kept, trimmed, drained, unparked>>
      /\ pc[t] = "idle" /\ pc'[t] = "idle"
  BY <1>1 DEF ReleaseUncached, Go, locals
<1>3. PICK b \in live : live' = live \ {b}
  BY DEF ReleaseUncached
<1>4. Cardinality(live') = Cardinality(live) - 1 /\ Cardinality(live) \in Nat
  BY <1>1, <1>3, LiveMoves
<1>5. s \in Totals
  BY <1>1, TotalsType, 0 \in Nat
<1>6. PICK o \in Int, z \in Int, i \in Int : o = 1 /\ z = 0 /\ i = 0 - 1
  OBVIOUS
<1>7. /\ s.hits = shared.hits + z /\ s.misses = shared.misses + z
      /\ s.returned = shared.returned + z /\ s.freed = shared.freed + o
      /\ s.retained = shared.retained + z
      /\ s.drained = shared.drained + z /\ s.orphaned = shared.orphaned + z
  BY <1>1, <1>6 DEF Totals
<1> HIDE DEF s
<1>8. Counted(t, s, pending[t], z, z, z, o, z)
  BY <1>1, <1>5, <1>6, <1>7, AddsTotals
<1>9. Len(slots[t]) \in Nat /\ drained[t] \in Nat
  BY <1>1, HoldingIs
<1>10. Moved(t, z, z, z, z, z, z, z)
  <2>1. KeepsRest(t)
    BY <1>2 DEF KeepsRest
  <2>2. Len(slots'[t]) = Len(slots[t]) + z
    BY <1>1, <1>6, <1>9
  <2> QED BY <1>1, <1>6, <2>1, <2>2, KeptMoves
<1>11. Entered(t, s, i, z, z, z)
  BY <1>2, <1>4, <1>6, <1>7, <1>9 DEF Entered
<1>12. Agree(z, z, z, z, z, z, z, z, z, z, o, z, i, z, z, z)
  BY <1>6 DEF Agree
<1>13. Settles(t, s, pending[t])
  BY <1>1, <1>6, <1>8, <1>10, <1>11, <1>12, SettlesBy
<1>14. Accounts(t, s, pending[t])
  BY <1>1, <1>5, KeepsAccounts
<1> QED BY <1>5, <1>13, <1>14, SettledBy

\* The kept and the trimmed blocks are counted off the orphans.
LEMMA AdoptDoneSettled ==
    ASSUME IInv, TypeOK', NEW t \in Threads, AdoptDone(t)
    PROVE  Settled(t)
<1> DEFINE s == [shared EXCEPT !.orphaned = @ - (kept[t] + trimmed[t]),
                               !.drained = @ + trimmed[t],
                               !.retained = @ - trimmed[t]]
<1>1. /\ TypeOK /\ pc \in [Threads -> Steps] /\ shared \in Totals
      /\ kept \in [Threads -> Nat] /\ trimmed \in [Threads -> Nat]
      /\ pending' = pending /\ shared' = s /\ pending \in [Threads -> Counts]
  BY DEF IInv, TypeOK, AdoptDone
<1>2. /\ UNCHANGED <<stack, slots, taken, drained, unparked, live>>
      /\ kept'[t] = 0 /\ trimmed'[t] = 0 /\ pc[t] = "walk" /\ pc'[t] = "take"
  BY <1>1 DEF AdoptDone, Go
<1>5. s \in Totals
  BY <1>1, TotalsType
<1>3. kept[t] \in Nat /\ trimmed[t] \in Nat /\ kept[t] + trimmed[t] \in Nat
  BY <1>1
<1>6. PICK k \in Int, u \in Int, v \in Int, w \in Int, z \in Int :
          /\ k = 0 - kept[t] /\ u = trimmed[t] /\ v = 0 - trimmed[t]
          /\ w = 0 - (kept[t] + trimmed[t]) /\ z = 0
  BY <1>3
<1>7. /\ s.hits = shared.hits + z /\ s.misses = shared.misses + z
      /\ s.returned = shared.returned + z /\ s.freed = shared.freed + z
      /\ s.retained = shared.retained + v
      /\ s.drained = shared.drained + u /\ s.orphaned = shared.orphaned + w
  BY <1>1, <1>3, <1>6 DEF Totals
<1> HIDE DEF s
<1>8. Counted(t, s, pending[t], z, z, z, z, v)
  BY <1>1, <1>5, <1>6, <1>7, AddsTotals
<1>9. Sized(t) /\ Cardinality(live) \in Nat
  BY <1>1, SizesType, LiveMoves DEF AllSized
<1>10. Moved(t, z, z, z, v, z, k, z)
  <2>1. Parting(t) = 0 /\ Parting(t)' = 0
    BY <1>2 DEF Parting
  <2>2. /\ Len(stack') = Len(stack) /\ Len(slots'[t]) = Len(slots[t])
        /\ Len(taken'[t]) = Len(taken[t]) /\ unparked'[t] = unparked[t]
    BY <1>2
  <2>3. /\ Len(stack) \in Nat /\ Len(slots[t]) \in Nat /\ Len(taken[t]) \in Nat
        /\ unparked[t] \in Nat
    BY <1>9 DEF Sized
  <2>4. kept'[t] = kept[t] + k /\ trimmed'[t] = trimmed[t] + v
    BY <1>2, <1>3, <1>6
  <2> QED BY <1>6, <2>1, <2>2, <2>3, <2>4 DEF Moved
<1>11. Entered(t, s, z, z, u, w)
  <2>1. drained'[t] = drained[t] /\ drained[t] \in Nat /\ live' = live
    BY <1>2, <1>9 DEF Sized
  <2> QED BY <1>6, <1>7, <1>9, <2>1 DEF Entered
<1>12. Agree(z, z, z, v, z, k, z, z, z, z, z, v, z, z, u, w)
  BY <1>3, <1>6 DEF Agree
<1>13. Settles(t, s, pending[t])
  BY <1>1, <1>6, <1>8, <1>10, <1>11, <1>12, SettlesBy
<1>14. Accounts(t, s, pending[t])
  BY <1>1, <1>5, KeepsAccounts
<1> QED BY <1>5, <1>13, <1>14, SettledBy

\* The drained blocks are counted: those of the cache and those of the stack.
LEMMA DrainDoneSettled ==
    ASSUME IInv, TypeOK', NEW t \in Threads, DrainDone(t)
    PROVE  Settled(t)
<1> DEFINE s == [shared EXCEPT !.orphaned = @ - unparked[t],
                               !.retained = @ - unparked[t],
                               !.drained = @ + drained[t] + unparked[t]]
<1>1. /\ TypeOK /\ pc \in [Threads -> Steps] /\ shared \in Totals
      /\ drained \in [Threads -> Nat] /\ unparked \in [Threads -> Nat]
      /\ pending' = pending /\ shared' = s /\ pending \in [Threads -> Counts]
  BY DEF IInv, TypeOK, DrainDone
<1>2. /\ UNCHANGED <<stack, slots, taken, kept, trimmed, live>>
      /\ drained'[t] = 0 /\ unparked'[t] = 0 /\ pc[t] = "free" /\ pc'[t] = "idle"
  BY <1>1 DEF DrainDone, Go
<1>5. s \in Totals
  BY <1>1, TotalsType
<1>3. drained[t] \in Nat /\ unparked[t] \in Nat /\ drained[t] + unparked[t] \in Nat
  BY <1>1
<1>6. PICK k \in Int, u \in Int, v \in Int, z \in Int :
          /\ k = 0 - drained[t] /\ u = drained[t] + unparked[t] /\ v = 0 - unparked[t]
          /\ z = 0
  BY <1>3
<1>7. /\ s.hits = shared.hits + z /\ s.misses = shared.misses + z
      /\ s.returned = shared.returned + z /\ s.freed = shared.freed + z
      /\ s.retained = shared.retained + v
      /\ s.drained = shared.drained + u /\ s.orphaned = shared.orphaned + v
  BY <1>1, <1>3, <1>6 DEF Totals
<1> HIDE DEF s
<1>8. Counted(t, s, pending[t], z, z, z, z, v)
  BY <1>1, <1>5, <1>6, <1>7, AddsTotals
<1>9. Sized(t) /\ Cardinality(live) \in Nat
  BY <1>1, SizesType, LiveMoves DEF AllSized
<1>10. Moved(t, z, z, z, z, v, z, z)
  <2>1. Parting(t) = 0 /\ Parting(t)' = 0
    BY <1>2 DEF Parting
  <2>2. /\ Len(stack') = Len(stack) /\ Len(slots'[t]) = Len(slots[t])
        /\ Len(taken'[t]) = Len(taken[t]) /\ trimmed'[t] = trimmed[t] /\ kept'[t] = kept[t]
    BY <1>2
  <2>3. /\ Len(stack) \in Nat /\ Len(slots[t]) \in Nat /\ Len(taken[t]) \in Nat
        /\ trimmed[t] \in Nat /\ kept[t] \in Nat
    BY <1>9 DEF Sized
  <2>4. unparked'[t] = unparked[t] + v
    BY <1>2, <1>3, <1>6
  <2> QED BY <1>6, <2>1, <2>2, <2>3, <2>4 DEF Moved
<1>11. Entered(t, s, z, k, u, v)
  BY <1>2, <1>3, <1>6, <1>7, <1>9 DEF Entered
<1>12. Agree(z, z, z, z, v, z, z, z, z, z, z, v, z, k, u, v)
  BY <1>3, <1>6 DEF Agree
<1>13. Settles(t, s, pending[t])
  BY <1>1, <1>6, <1>8, <1>10, <1>11, <1>12, SettlesBy
<1>14. Accounts(t, s, pending[t])
  BY <1>1, <1>5, KeepsAccounts
<1> QED BY <1>5, <1>13, <1>14, SettledBy

\* The blocks of the cache are counted as orphans before they are parked.
LEMMA ThreadExitSettled ==
    ASSUME IInv, TypeOK', NEW t \in Threads, CacheSound(t), ThreadExit(t)
    PROVE  Settled(t)
<1> DEFINE s == [shared EXCEPT !.orphaned = @ + Len(slots[t])]
<1>1. /\ TypeOK /\ pc \in [Threads -> Steps] /\ shared \in Totals
      /\ slots \in [Threads -> Seq(Blocks)] /\ slots[t] \in Seq(Blocks)
      /\ pending' = pending /\ shared' = s /\ pending \in [Threads -> Counts]
  BY DEF IInv, TypeOK, ThreadExit
<1>2. /\ UNCHANGED <<stack, slots, taken, kept, trimmed, drained, unparked, live>>
      /\ pc[t] = "idle"
      /\ pc'[t] = "push" \/ (pc'[t] \in {"idle", "retire"} /\ slots[t] = <<>>)
  BY <1>1 DEF ThreadExit, Go, CacheSound, locals
<1>3. Len(slots[t]) \in Nat /\ pc[t] = "idle"
  BY <1>1 DEF ThreadExit, Go
<1>5. s \in Totals
  BY <1>1, <1>3, TotalsType
<1>6. PICK n \in Int, z \in Int : n = Len(slots[t]) /\ z = 0
  BY <1>3
<1>7. /\ s.hits = shared.hits + z /\ s.misses = shared.misses + z
      /\ s.returned = shared.returned + z /\ s.freed = shared.freed + z
      /\ s.retained = shared.retained + z
      /\ s.drained = shared.drained + z /\ s.orphaned = shared.orphaned + n
  BY <1>1, <1>3, <1>6 DEF Totals
<1> HIDE DEF s
<1>8. Counted(t, s, pending[t], z, z, z, z, z)
  BY <1>1, <1>5, <1>6, <1>7, AddsTotals
<1>9. Sized(t) /\ Cardinality(live) \in Nat
  BY <1>1, SizesType, LiveMoves DEF AllSized
<1>10. Moved(t, z, z, z, z, z, z, n)
  <2>1. Parting(t) = 0 /\ Parting(t)' = Len(slots[t])
    <3>1. slots[t] = <<>> => Len(slots[t]) = 0
      OBVIOUS
    <3> QED BY <1>2, <1>3, <3>1 DEF Parting
  <2>2. /\ Len(stack') = Len(stack) /\ Len(slots'[t]) = Len(slots[t])
        /\ Len(taken'[t]) = Len(taken[t]) /\ trimmed'[t] = trimmed[t] /\ kept'[t] = kept[t]
        /\ unparked'[t] = unparked[t]
    BY <1>2
  <2>3. /\ Len(stack) \in Nat /\ Len(slots[t]) \in Nat /\ Len(taken[t]) \in Nat
        /\ trimmed[t] \in Nat /\ kept[t] \in Nat /\ unparked[t] \in Nat
    BY <1>9 DEF Sized
  <2> QED BY <1>6, <2>1, <2>2, <2>3 DEF Moved
<1>11. Entered(t, s, z, z, z, n)
  <2>1. drained'[t] = drained[t] /\ drained[t] \in Nat /\ live' = live
    BY <1>2, <1>9 DEF Sized
  <2> QED BY <1>6, <1>7, <1>9, <2>1 DEF Entered
<1>12. Agree(z, z, z, z, z, z, n, z, z, z, z, z, z, z, z, n)
  BY <1>6 DEF Agree
<1>13. Settles(t, s, pending[t])
  BY <1>1, <1>6, <1>8, <1>10, <1>11, <1>12, SettlesBy
<1>14. Accounts(t, s, pending[t])
  BY <1>1, <1>5, KeepsAccounts
<1> QED BY <1>5, <1>13, <1>14, SettledBy

\* The blocks of the cache leave the retained ones before they count as drained.
LEMMA FreeOwnSettled ==
    ASSUME IInv, TypeOK', NEW t \in Threads, LocalsSound(t), FreeOwn(t)
    PROVE  Settled(t)
<1>1. /\ TypeOK /\ pc \in [Threads -> Steps] /\ shared \in Totals
      /\ slots \in [Threads -> Seq(Blocks)] /\ slots[t] \in Seq(Blocks)
      /\ drained \in [Threads -> Nat]
      /\ pending \in [Threads -> Counts] /\ pending[t] \in Counts
  BY DEF IInv, TypeOK
<1>2. /\ UNCHANGED <<stack, taken, kept, trimmed, unparked, live>>
      /\ pc[t] = "idle" /\ pc'[t] = "drain" /\ drained[t] = 0
  BY <1>1 DEF FreeOwn, Go, LocalsSound
<1>3. Len(slots[t]) \in Nat
  BY <1>1
<1>4. CASE ~ active[t]
  <2>1. UNCHANGED <<shared, pending, slots, drained>>
    BY <1>4 DEF FreeOwn
  <2>2. Still(t)
    BY <1>2, <2>1 DEF Still
  <2> QED BY <1>1, <2>1, <2>2, IdleTotals, QuietSettled
<1>5. CASE active[t]
  <2> DEFINE q == [pending[t] EXCEPT !.retained = @ - Len(slots[t])]
  <2>1. /\ Flush(t, shared, q) /\ drained'[t] = Len(slots[t]) /\ slots'[t] = <<>>
    BY <1>1, <1>5 DEF FreeOwn
  <2>2. PICK n \in Int, i \in Int, z \in Int : n = Len(slots[t]) /\ i = 0 - n /\ z = 0
    BY <1>3
  <2>3. q \in Counts
    <3>1. pending[t].retained - Len(slots[t]) \in Int
      BY <1>1, <1>3 DEF Counts
    <3> QED BY <1>1, <3>1 DEF Counts
  <2>4. Counted(t, shared, q, z, z, z, z, i)
    <3>1. /\ shared.hits \in Int /\ shared.misses \in Int /\ shared.returned \in Int
          /\ shared.freed \in Int /\ shared.retained \in Int
      BY <1>1 DEF Totals
    <3>2. /\ pending[t].hits \in Int /\ pending[t].misses \in Int
          /\ pending[t].returned \in Int
          /\ pending[t].freed \in Int /\ pending[t].retained \in Int
      BY <1>1 DEF Counts
    <3>3. /\ q.hits = pending[t].hits /\ q.misses = pending[t].misses
          /\ q.returned = pending[t].returned /\ q.freed = pending[t].freed
          /\ q.retained = pending[t].retained - n
      BY <1>1, <2>2 DEF Counts
    <3> HIDE DEF q
    <3>4. /\ q.hits = pending[t].hits + z /\ q.misses = pending[t].misses + z
          /\ q.returned = pending[t].returned + z /\ q.freed = pending[t].freed + z
      BY <2>2, <3>2, <3>3
    <3>5. q.retained = pending[t].retained + i
      BY <2>2, <3>2, <3>3
    <3>11. i \in Int /\ z \in Int
      BY <2>2
    <3>6. Added(t, shared, q, "hits") = z
      BY <3>1, <3>2, <3>11, <3>4, AddsPending
    <3>7. Added(t, shared, q, "misses") = z
      BY <3>1, <3>2, <3>11, <3>4, AddsPending
    <3>8. Added(t, shared, q, "returned") = z
      BY <3>1, <3>2, <3>11, <3>4, AddsPending
    <3>9. Added(t, shared, q, "freed") = z
      BY <3>1, <3>2, <3>11, <3>4, AddsPending
    <3>10. Added(t, shared, q, "retained") = i
      BY <3>1, <3>2, <3>11, <3>5, AddsPending
    <3> QED BY <3>6, <3>7, <3>8, <3>9, <3>10 DEF Counted
  <2> HIDE DEF q
  <2>5. Accounts(t, shared, q)
    BY <1>1, <2>1, <2>3, CountsFlush, FlushAccounts
  <2>6. KeepsRest(t)
    BY <1>2 DEF KeepsRest
  <2>7. Len(slots'[t]) = Len(slots[t]) + i
    BY <1>3, <2>1, <2>2
  <2>8. Moved(t, z, i, z, z, z, z, z)
    BY <1>1, <2>2, <2>6, <2>7, KeptMoves
  <2>9. Entered(t, shared, z, n, z, z)
    <3>1. shared.drained \in Int /\ shared.orphaned \in Int
      BY <1>1 DEF Totals
    <3>2. Cardinality(live) \in Nat
      BY <1>1, LiveMoves
    <3> QED BY <1>2, <2>1, <2>2, <3>1, <3>2 DEF Entered
  <2>10. Agree(z, i, z, z, z, z, z, z, z, z, z, i, z, n, z, z)
    BY <2>2 DEF Agree
  <2>11. Settles(t, shared, q)
    BY <1>1, <2>2, <2>4, <2>8, <2>9, <2>10, SettlesBy
  <2> QED BY <1>1, <2>5, <2>11, SettledBy
<1> QED BY <1>4, <1>5

-----------------------------------------------------------------------------
(* The invariant of the sums *)

\* Every step of a thread settles its accounts.
LEMMA StepSettled ==
    ASSUME IInv, TypeOK', NEW t \in Threads, CacheSound(t), LocalsSound(t), Step(t)
    PROVE  Settled(t)
<1>1. TypeOK
  BY DEF IInv
<1>2. CASE AcquireStep(t)
  BY <1>1, <1>2, StillSteps, TakeAllSettled, AdoptSettled, AdoptDoneSettled, TakeHitSettled,
     TakeMissSettled DEF AcquireStep
<1>3. CASE ReleaseStep(t)
  BY <1>3, ReleaseKeepSettled, ReleaseFreeSettled, ReleaseUncachedSettled DEF ReleaseStep
<1>4. CASE ExitStep(t)
  BY <1>1, <1>4, StillSteps, ThreadExitSettled, PushSettled, RespawnSettled DEF ExitStep
<1>5. CASE DrainStep(t)
  BY <1>1, <1>5, FreeOwnSettled, TakeAllSettled, DrainFreeSettled, DrainDoneSettled
     DEF DrainStep, Drain, Shutdown
<1>6. CASE Startup(t) \/ ReadStatistics(t)
  BY <1>1, <1>6, StillSteps
<1> QED BY <1>2, <1>3, <1>4, <1>5, <1>6 DEF Step

\* A thread that takes no step keeps its counts to itself as before.
LEMMA OthersLocals ==
    ASSUME IInv, NEW t \in Threads, Step(t), NEW u \in Threads, u # t, LocalsSound(u)
    PROVE  LocalsSound(u)'
<1>1. Alone(t)
  BY StepAlone
<1>2. /\ kept'[u] = kept[u] /\ trimmed'[u] = trimmed[u] /\ drained'[u] = drained[u]
      /\ unparked'[u] = unparked[u] /\ pc'[u] = pc[u]
  BY <1>1 DEF Alone
<1>3. active'[u] = active[u] /\ retired'[u] = retired[u] /\ pending'[u] = pending[u]
  BY OthersSound, OthersPending
<1> QED BY <1>2, <1>3 DEF LocalsSound

\* SInv is inductive, given the invariants of the blocks.
LEMMA NextSInv == IInv /\ IInv' /\ KInv /\ SInv /\ [Next]_vars => SInv'
<1> SUFFICES ASSUME IInv, IInv', KInv, SInv, [Next]_vars PROVE SInv'
  OBVIOUS
<1>1. ASSUME NEW t \in Threads, Step(t) PROVE SInv'
  <2>1. TypeOK /\ TypeOK' /\ CacheSound(t) /\ LocalsSound(t) /\ Balanced
    BY DEF IInv, KInv, SInv
  <2>2. Settled(t)
    BY <1>1, <2>1, StepSettled
  <2>3. PICK s, q : /\ Accounts(t, s, q) /\ Settles(t, s, q)
                    /\ s.drained \in Int /\ s.orphaned \in Int
    BY <2>2 DEF Settled
  <2>4. Balanced'
    BY <1>1, <2>1, <2>3, StepAlone, StepBalances
  <2>5. LocalsSound(t)'
    BY <1>1, <2>1, StepLocals
  <2>6. \A u \in Threads : LocalsSound(u)'
    <3> TAKE u \in Threads
    <3>1. LocalsSound(u)
      BY DEF SInv
    <3> QED BY <1>1, <2>5, <3>1, OthersLocals
  <2> QED BY <2>4, <2>6 DEF SInv
<1>2. ASSUME UNCHANGED vars PROVE SInv'
  <2>1. /\ Sum(Retained)' = Sum(Retained) /\ Sum(Orphaned)' = Sum(Orphaned)
        /\ Sum(drained)' = Sum(drained) /\ \A f : Total(f)' = Total(f)
    BY <1>2 DEF vars, locals, Sum, Retained, Orphaned, Total
  <2>2. \A t \in Threads : LocalsSound(t)'
    BY <1>2 DEF vars, locals, SInv, LocalsSound
  <2> QED BY <1>2, <2>1, <2>2 DEF vars, SInv, Balanced
<1> QED BY <1>1, <1>2 DEF Next, Step

\* Nothing is counted at first.
LEMMA InitSInv == Init => SInv
<1> SUFFICES ASSUME Init PROVE SInv
  OBVIOUS
<1>1. SumTypes
  BY InitIInv, SumsType DEF IInv
<1>2. \A t \in Threads : /\ slots[t] = <<>> /\ taken[t] = <<>> /\ kept[t] = 0 /\ trimmed[t] = 0
                         /\ drained[t] = 0 /\ unparked[t] = 0 /\ pc[t] = "idle"
                         /\ pending[t] = NoCounts /\ ~ active[t] /\ ~ retired[t]
  BY DEF Init
<1>3. \A t \in Threads : LocalsSound(t)
  BY <1>2 DEF LocalsSound
<1>4. Len(<<>>) = 0
  OBVIOUS
<1>5. \A t \in Threads : Retained[t] = 0 /\ Orphaned[t] = 0
  <2> TAKE t \in Threads
  <2>1. Len(slots[t]) = 0 /\ Len(taken[t]) = 0
    BY <1>2, <1>4
  <2>2. /\ kept[t] = 0 /\ trimmed[t] = 0 /\ unparked[t] = 0 /\ pc[t] = "idle"
    BY <1>2
  <2>3. Sized(t) /\ Parting(t) = 0
    BY <2>1, <2>2, InitIInv, SizesType DEF IInv, AllSized, Parting
  <2>4. /\ Retained[t] = Len(slots[t]) + Len(taken[t]) + trimmed[t] + unparked[t]
        /\ Orphaned[t] = Len(taken[t]) + kept[t] + trimmed[t] + unparked[t] + Parting(t)
    BY <2>3 DEF Sized
  <2> QED BY <2>1, <2>2, <2>3, <2>4
<1>6. Sum(Retained) = 0 /\ Sum(Orphaned) = 0 /\ Sum(drained) = 0
  BY <1>1, <1>2, <1>5, SumZero DEF SumTypes
<1>7. \A f \in Tallied : Total(f) = 0
  <2> TAKE f \in Tallied
  <2> DEFINE g == [t \in Threads |-> pending[t][f]]
  <2>1. NoCounts[f] = 0 /\ NoTotals[f] = 0
    BY DEF Tallied, NoCounts, NoTotals
  <2>2. g \in [Threads -> Int] /\ \A t \in Threads : g[t] = 0
    BY <1>2, <2>1
  <2>3. shared[f] = 0
    BY <2>1 DEF Init
  <2>4. Total(f) = shared[f] + Sum(g)
    BY DEF Total, Sum
  <2> HIDE DEF g
  <2>5. Sum(g) = 0
    BY <2>2, SumZero
  <2> QED BY <2>3, <2>4, <2>5
<1>8. /\ Total("hits") = 0 /\ Total("misses") = 0 /\ Total("returned") = 0
      /\ Total("freed") = 0 /\ Total("retained") = 0
  BY <1>7 DEF Tallied
<1>9. Cardinality(live) = 0 /\ shared.drained = 0 /\ shared.orphaned = 0 /\ Len(stack) = 0
  BY <1>4, FS_EmptySet DEF Init, NoTotals
<1>10. Balanced
  BY <1>6, <1>8, <1>9 DEF Balanced
<1> QED BY <1>3, <1>10 DEF SInv

\* A total with what is pending of it is a number.
LEMMA TotalsInt ==
    ASSUME TypeOK, NEW f \in Tallied
    PROVE  Total(f) \in Int
<1> DEFINE g == [t \in Threads |-> pending[t][f]]
<1>1. pending \in [Threads -> Counts] /\ shared \in Totals
  BY DEF TypeOK
<1>2. g \in [Threads -> Int] /\ shared[f] \in Int
  BY <1>1 DEF Tallied, Counts, Totals
<1>3. Total(f) = shared[f] + Sum(g)
  BY DEF Total, Sum
<1>4. \A t \in Threads : g[t] <= g[t]
  BY <1>2
<1> HIDE DEF g
<1>5. Sum(g) \in Int
  BY <1>2, <1>4, SumAtMost
<1> QED BY <1>2, <1>3, <1>5

\* In an invariant state the statistics add up.
LEMMA SumsAddUp ==
    ASSUME TypeOK, SInv, \A t \in Threads : CacheSound(t)
    PROVE  StatisticsAddUp
<1>1. AllSized /\ SumTypes
  BY SizesType, SumsType
<1>2. ASSUME \A t \in Threads : pc[t] \notin {"drain", "free", "walk"}
      PROVE  Sum(drained) = 0 /\ Sum(Retained) = Held(slots)
  <2>1. \A t \in Threads : /\ drained[t] = 0 /\ trimmed[t] = 0 /\ unparked[t] = 0
                           /\ taken[t] = <<>>
    BY <1>2 DEF SInv, LocalsSound, CacheSound
  <2>2. Sum(drained) = 0
    BY <1>1, <2>1, SumZero DEF SumTypes
  <2>3. \A t \in Threads : Len(slots[t]) + Len(taken[t]) + trimmed[t] + unparked[t] = Len(slots[t])
    <3> TAKE t \in Threads
    <3>1. Len(taken[t]) = 0 /\ Len(slots[t]) \in Nat
      BY <1>1, <2>1 DEF AllSized, Sized
    <3> QED BY <2>1, <3>1
  <2>4. Retained = [t \in Threads |-> Len(slots[t])]
    BY <2>3 DEF Retained
  <2> QED BY <2>2, <2>4 DEF Sum, Held
<1>3. Held(taken) \in Int /\ Sum(Orphaned) \in Int /\ Held(taken) <= Sum(Orphaned)
  <2> DEFINE g == [t \in Threads |-> Len(taken[t])]
  <2>1. g \in [Threads -> Int] /\ Orphaned \in [Threads -> Int]
    BY <1>1 DEF SumTypes, AllSized, Sized
  <2>2. \A t \in Threads : g[t] <= Orphaned[t]
    <3> TAKE t \in Threads
    <3>1. /\ Len(taken[t]) \in Nat /\ kept[t] \in Nat /\ trimmed[t] \in Nat
          /\ unparked[t] \in Nat /\ Parting(t) \in Nat
          /\ Orphaned[t] = Len(taken[t]) + kept[t] + trimmed[t] + unparked[t] + Parting(t)
      BY <1>1 DEF AllSized, Sized
    <3>2. Len(taken[t]) <= Orphaned[t]
      BY <3>1
    <3> QED BY <3>2
  <2>3. Held(taken) = Sum(g)
    BY DEF Held, Sum
  <2> HIDE DEF g
  <2> QED BY <2>1, <2>2, <2>3, SumAtMost
<1>4. Balanced
  BY DEF SInv
<1>5. (\A t \in Threads : pc[t] \notin {"drain", "free", "walk"}) =>
          /\ Total("retained") = Total("returned") - Total("hits") - shared.drained
          /\ Total("retained") = Len(stack) + Held(slots)
  <2> SUFFICES ASSUME \A t \in Threads : pc[t] \notin {"drain", "free", "walk"}
               PROVE  /\ Total("retained") = Total("returned") - Total("hits") - shared.drained
                      /\ Total("retained") = Len(stack) + Held(slots)
    OBVIOUS
  <2>1. Sum(drained) = 0 /\ Sum(Retained) = Held(slots)
    BY <1>2
  <2>2. /\ Total("retained") = Total("returned") - Total("hits") - shared.drained - 0
        /\ Total("retained") = Len(stack) + Held(slots)
    BY <1>4, <2>1, Zenon DEF Balanced
  <2> DEFINE n == Total("returned") - Total("hits") - shared.drained
  <2>3. n \in Int
    <3>1. Total("returned") \in Int /\ Total("hits") \in Int
      BY TotalsInt DEF Tallied
    <3>2. shared.drained \in Int
      BY <1>1 DEF SumTypes
    <3> QED BY <3>1, <3>2
  <2> HIDE DEF n
  <2>4. n - 0 = n
    BY <2>3
  <2> QED BY <2>2, <2>4 DEF n
<1>6. shared.orphaned >= Len(stack) + Held(taken)
  <2>1. shared.orphaned = Len(stack) + Sum(Orphaned) /\ Len(stack) \in Int
    BY <1>1, <1>4 DEF Balanced, SumTypes
  <2> DEFINE a == Held(taken)  b == Sum(Orphaned)  n == Len(stack)
  <2> HIDE DEF a, b, n
  <2>2. n + b >= n + a
    BY <1>3, <2>1 DEF a, b, n
  <2> QED BY <2>1, <2>2 DEF a, b, n
<1> QED BY <1>4, <1>5, <1>6 DEF StatisticsAddUp, Balanced

\* StatisticsAddUp: the totals account for every packet and block.
THEOREM StatisticsStayTrue == Spec => []StatisticsAddUp
<1>1. Init => IInv /\ KInv /\ SInv
  BY InitIInv, InitKInv, InitSInv
<1>2. IInv /\ KInv /\ SInv /\ [Next]_vars => (IInv /\ KInv /\ SInv)'
  BY NextIInv, NextKInv, NextSInv
<1>3. IInv /\ KInv /\ SInv => StatisticsAddUp
  BY SumsAddUp DEF IInv, KInv
<1> QED BY <1>1, <1>2, <1>3, PTL DEF Spec
=============================================================================
