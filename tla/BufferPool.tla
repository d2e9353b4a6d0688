----------------------------- MODULE BufferPool -----------------------------
(***************************************************************************)
(* The packet buffer pool of Source/Native/enet.h: a private cache of free *)
(* blocks per thread, a lock-free stack of the blocks that exited threads  *)
(* left behind, and statistics counted per thread and published in batches.*)
(*                                                                         *)
(* A step is one access to the shared state together with the work on the  *)
(* thread's own cache up to the next one.  An atomic add to a total, which *)
(* no branch of the code reads, is part of the step it follows.            *)
(*                                                                         *)
(* stack and taken are history: the blocks of the orphan stack and of a    *)
(* chain that a thread took from it, which the code finds by following     *)
(* next.  A block that is handed out or freed has its next overwritten.    *)
(***************************************************************************)
EXTENDS Integers, Sequences, FiniteSets, Functions

CONSTANTS
    Threads,
    Blocks,       \* what enet_malloc can hand out
    NoBlock,      \* NULL
    MaxRetained,  \* ENET_POOL_MAX_RETAINED (128)
    StatsBatch,   \* ENET_POOL_STATS_BATCH (64)
    MaxAcquires   \* bound: acquisitions that count

ASSUME NoBlockAssumption == NoBlock \notin Blocks
ASSUME LimitAssumption == /\ MaxRetained \in Nat \ {0} /\ StatsBatch \in Nat \ {0}
                          /\ MaxAcquires \in Nat
ASSUME FiniteAssumption == IsFiniteSet(Threads) /\ IsFiniteSet(Blocks)

VARIABLES
    platform,  \* the build, "posix" or "Windows"; no step changes it
    enabled,   \* enet_pool_shared.enabled
    orphans,   \* enet_pool_shared.orphans, the top of the stack
    next,      \* the first word of every block
    shared,    \* the totals of enet_pool_shared
    active,    \* the thread has a cache
    retired,   \* Windows: the thread's exit hook has run
    slots,     \* the free blocks of the thread's cache; retained is its length
    pending,   \* the counts of the cache not published yet
    pc,
    chain, kept, trimmed,     \* locals of enet_pool_adopt_orphans
    head,                     \* local of enet_pool_orphans_push
    drained, unparked,        \* drained and orphans of enet_pool_drain_blocks
    live,      \* pooled blocks the application holds
    heap,      \* blocks the allocator holds
    stack,     \* history: the blocks of the orphan stack, from the top
    taken      \* history: the blocks of chain

locals == <<chain, kept, trimmed, head, drained, unparked>>
vars == <<platform, enabled, orphans, next, shared, active, retired, slots, pending, pc,
          locals, live, heap, stack, taken>>

\* The exit hook of the Windows DLL, not the one of POSIX.
WindowsHook == platform = "Windows"

Elems(s) == {s[i] : i \in DOMAIN s}
Front(s) == SubSeq(s, 1, Len(s) - 1)
First(s) == IF s = <<>> THEN NoBlock ELSE s[1]

NoCounts == [operations |-> 0, hits |-> 0, misses |-> 0, oversized |-> 0,
             returned |-> 0, freed |-> 0, retained |-> 0]
NoTotals == [hits |-> 0, misses |-> 0, oversized |-> 0, returned |-> 0, freed |-> 0,
             drained |-> 0, retained |-> 0, orphaned |-> 0, caches |-> 0]

Init ==
    /\ platform \in {"posix", "Windows"}
    /\ enabled = FALSE /\ orphans = NoBlock /\ next = [b \in Blocks |-> b]
    /\ shared = NoTotals
    /\ active = [t \in Threads |-> FALSE] /\ retired = [t \in Threads |-> FALSE]
    /\ slots = [t \in Threads |-> <<>>] /\ pending = [t \in Threads |-> NoCounts]
    /\ pc = [t \in Threads |-> "idle"]
    /\ chain = [t \in Threads |-> NoBlock] /\ head = [t \in Threads |-> NoBlock]
    /\ kept = [t \in Threads |-> 0] /\ trimmed = [t \in Threads |-> 0]
    /\ drained = [t \in Threads |-> 0] /\ unparked = [t \in Threads |-> 0]
    /\ live = {} /\ heap = Blocks
    /\ stack = <<>> /\ taken = [t \in Threads |-> <<>>]

Go(t, from, to) == pc[t] = from /\ pc' = [pc EXCEPT ![t] = to]

\* A block given to the application or to the allocator no longer holds a link.
Overwritten(b) == [next EXCEPT ![b] = b]

-----------------------------------------------------------------------------
(* Statistics *)

Published(totals, p) ==
    [hits |-> totals.hits + p.hits, misses |-> totals.misses + p.misses,
     oversized |-> totals.oversized + p.oversized,
     returned |-> totals.returned + p.returned, freed |-> totals.freed + p.freed,
     retained |-> totals.retained + p.retained, drained |-> totals.drained,
     orphaned |-> totals.orphaned, caches |-> totals.caches]

\* A total with what the threads have not published of it.
Total(f) == shared[f] + SumFunctionOnSet([t \in Threads |-> pending[t][f]], Threads)

\* enet_pool_flush
Flush(t, totals, p) ==
    /\ shared' = Published(totals, p)
    /\ pending' = [pending EXCEPT ![t] = NoCounts]

\* ENET_POOL_COUNT
Count(t, totals, p) ==
    LET q == [p EXCEPT !.operations = @ + 1]
    IN  IF q.operations >= StatsBatch
        THEN Flush(t, totals, q)
        ELSE shared' = totals /\ pending' = [pending EXCEPT ![t] = q]

\* enet_pool_read_statistics: what is pending of the caller is published first.
ReadStatistics(t) ==
    /\ Go(t, "idle", "idle") /\ active[t]
    /\ Flush(t, shared, pending[t])
    /\ UNCHANGED <<enabled, orphans, next, active, retired, slots, locals,
                   live, heap, stack, taken>>

-----------------------------------------------------------------------------
(* Startup, shutdown and the cache of a thread *)

\* enet_pool_startup, once its hook is installed
Startup(t) ==
    /\ Go(t, "idle", "idle")
    /\ enabled' = TRUE
    /\ UNCHANGED <<orphans, next, shared, active, retired, slots, pending, locals,
                   live, heap, stack, taken>>

\* As CacheGet below, but the flag that the exit hook set is ignored.
CacheGet_Revives(t) ==
    active' = [active EXCEPT ![t] = TRUE]

\* enet_pool_cache_get returns a cache: on Windows not to a thread whose hook
\* has run, on POSIX calloc may also fail (NoCache).
CacheGet(t) ==
    /\ ~retired[t]
    /\ active' = [active EXCEPT ![t] = TRUE]

NoCache(t) ==
    /\ retired[t] \/ (~WindowsHook /\ ~active[t])
    /\ UNCHANGED active

\* The totals after CacheGet: the cache counts when it is made.
Opened(t) == IF active[t] THEN shared ELSE [shared EXCEPT !.caches = @ + 1]

-----------------------------------------------------------------------------
(* enet_pool_acquire *)

\* The bound on the runs, never reached by the code.
MayAcquire == Total("hits") + Total("misses") + Total("oversized") < MaxAcquires

\* A request larger than a block is counted and served by enet_malloc.
AcquireOversized(t) ==
    /\ enabled /\ MayAcquire
    /\ Go(t, "idle", "idle") /\ CacheGet(t)
    /\ Count(t, Opened(t), [pending[t] EXCEPT !.oversized = @ + 1])
    /\ UNCHANGED <<enabled, orphans, next, retired, slots, locals, live, heap, stack, taken>>

\* Up to the test for an empty cache.  Without the pool, or without a cache,
\* enet_malloc serves the request and the packet is not a pooled one.
Acquire(t) ==
    /\ enabled /\ MayAcquire
    /\ Go(t, "idle", IF slots[t] = <<>> THEN "adopt" ELSE "take") /\ CacheGet(t)
    /\ shared' = Opened(t)
    /\ UNCHANGED <<enabled, orphans, next, retired, slots, pending, locals,
                   live, heap, stack, taken>>

\* enet_pool_adopt_orphans: the plain read of the top of the stack
AdoptLoad(t) ==
    /\ Go(t, "adopt", IF orphans = NoBlock THEN "take" ELSE "exchange")
    /\ UNCHANGED <<enabled, orphans, next, shared, active, retired, slots, pending,
                   locals, live, heap, stack, taken>>

\* As TakeAll below, but the stack is read and not emptied.
TakeAll_LeavesStack(t) ==
    /\ chain' = [chain EXCEPT ![t] = orphans]
    /\ taken' = [taken EXCEPT ![t] = stack]
    /\ UNCHANGED <<orphans, stack>>

\* The whole stack is exchanged for an empty one.
TakeAll(t) ==
    /\ chain' = [chain EXCEPT ![t] = orphans]
    /\ taken' = [taken EXCEPT ![t] = stack]
    /\ orphans' = NoBlock /\ stack' = <<>>

AdoptTake(t) ==
    /\ Go(t, "exchange", "walk")
    /\ TakeAll(t)
    /\ UNCHANGED <<enabled, next, shared, active, retired, slots, pending,
                   kept, trimmed, head, drained, unparked, live, heap>>

\* The next block of the chain, read before the block itself is given away.
Follow(t) == /\ chain' = [chain EXCEPT ![t] = next[chain[t]]]
             /\ taken' = [taken EXCEPT ![t] = Tail(@)]

\* A block of the chain for which the cache has no room is freed.
AdoptTrim(t) ==
    /\ Go(t, "walk", "walk") /\ chain[t] # NoBlock /\ Len(slots[t]) >= MaxRetained
    /\ heap' = heap \cup {chain[t]}
    /\ next' = Overwritten(chain[t])
    /\ Follow(t) /\ trimmed' = [trimmed EXCEPT ![t] = @ + 1]
    /\ UNCHANGED <<enabled, orphans, shared, active, retired, slots, pending,
                   kept, head, drained, unparked, live, stack>>

AdoptKeep(t) ==
    /\ Go(t, "walk", "walk") /\ chain[t] # NoBlock /\ Len(slots[t]) < MaxRetained
    /\ slots' = [slots EXCEPT ![t] = Append(@, chain[t])]
    /\ Follow(t) /\ kept' = [kept EXCEPT ![t] = @ + 1]
    /\ UNCHANGED <<enabled, orphans, next, shared, active, retired, pending,
                   trimmed, head, drained, unparked, live, heap, stack>>

\* As AdoptDone below, but the kept blocks leave the retained total as well.
AdoptDone_Uncounts(t) ==
    /\ Go(t, "walk", "take") /\ chain[t] = NoBlock
    /\ shared' = [shared EXCEPT !.orphaned = @ - (kept[t] + trimmed[t]),
                                !.drained = @ + trimmed[t],
                                !.retained = @ - (kept[t] + trimmed[t])]
    /\ kept' = [kept EXCEPT ![t] = 0] /\ trimmed' = [trimmed EXCEPT ![t] = 0]
    /\ UNCHANGED <<enabled, orphans, next, active, retired, slots, pending, chain,
                   head, drained, unparked, live, heap, stack, taken>>

\* The kept blocks were in the retained total as orphans and still are.
AdoptDone(t) ==
    /\ Go(t, "walk", "take") /\ chain[t] = NoBlock
    /\ shared' = [shared EXCEPT !.orphaned = @ - (kept[t] + trimmed[t]),
                                !.drained = @ + trimmed[t],
                                !.retained = @ - trimmed[t]]
    /\ kept' = [kept EXCEPT ![t] = 0] /\ trimmed' = [trimmed EXCEPT ![t] = 0]
    /\ UNCHANGED <<enabled, orphans, next, active, retired, slots, pending, chain,
                   head, drained, unparked, live, heap, stack, taken>>

\* A block of the cache is handed out.
TakeHit(t) ==
    /\ Go(t, "take", "idle") /\ slots[t] # <<>>
    /\ LET b == slots[t][Len(slots[t])]
       IN  live' = live \cup {b} /\ next' = Overwritten(b)
    /\ slots' = [slots EXCEPT ![t] = Front(@)]
    /\ Count(t, shared, [pending[t] EXCEPT !.hits = @ + 1, !.retained = @ - 1])
    /\ UNCHANGED <<enabled, orphans, active, retired, locals, heap, stack, taken>>

\* The cache is empty: enet_malloc makes a block, or fails, and nothing counts.
TakeMiss(t) ==
    /\ Go(t, "take", "idle") /\ slots[t] = <<>>
    /\ \/ \E b \in heap :
            /\ heap' = heap \ {b} /\ live' = live \cup {b}
            /\ Count(t, shared, [pending[t] EXCEPT !.misses = @ + 1])
       \/ UNCHANGED <<heap, live, shared, pending>>
    /\ UNCHANGED <<enabled, orphans, next, active, retired, slots, locals, stack, taken>>

-----------------------------------------------------------------------------
(* enet_pool_release, by any thread *)

\* As ReleaseKeep below, but one block too many fits the cache.
ReleaseKeep_OneMore(t) ==
    \E b \in live :
        /\ enabled /\ Go(t, "idle", "idle") /\ CacheGet(t)
        /\ Len(slots[t]) <= MaxRetained
        /\ live' = live \ {b}
        /\ slots' = [slots EXCEPT ![t] = Append(@, b)]
        /\ Count(t, Opened(t), [pending[t] EXCEPT !.retained = @ + 1, !.returned = @ + 1])
        /\ UNCHANGED <<enabled, orphans, next, retired, locals, heap, stack, taken>>

ReleaseKeep(t) ==
    \E b \in live :
        /\ enabled /\ Go(t, "idle", "idle") /\ CacheGet(t)
        /\ Len(slots[t]) < MaxRetained
        /\ live' = live \ {b}
        /\ slots' = [slots EXCEPT ![t] = Append(@, b)]
        /\ Count(t, Opened(t), [pending[t] EXCEPT !.retained = @ + 1, !.returned = @ + 1])
        /\ UNCHANGED <<enabled, orphans, next, retired, locals, heap, stack, taken>>

\* The cache is full.
ReleaseFree(t) ==
    \E b \in live :
        /\ enabled /\ Go(t, "idle", "idle") /\ CacheGet(t)
        /\ Len(slots[t]) >= MaxRetained
        /\ live' = live \ {b} /\ heap' = heap \cup {b}
        /\ Count(t, Opened(t), [pending[t] EXCEPT !.freed = @ + 1])
        /\ UNCHANGED <<enabled, orphans, next, retired, slots, locals, stack, taken>>

\* The pool is disabled (a packet held past enet_deinitialize) or has no cache
\* for the thread.
ReleaseUncached(t) ==
    \E b \in live :
        /\ Go(t, "idle", "idle")
        /\ \/ ~enabled /\ UNCHANGED active
           \/ enabled /\ NoCache(t)
        /\ live' = live \ {b} /\ heap' = heap \cup {b}
        /\ shared' = [shared EXCEPT !.freed = @ + 1]
        /\ UNCHANGED <<enabled, orphans, next, retired, slots, pending, locals, stack, taken>>

-----------------------------------------------------------------------------
(* The exit of a thread *)

\* next with every block of s but the last linked to the one after it.
LinkedIn(s) ==
    [b \in Blocks |-> IF \E i \in 1 .. Len(s) - 1 : s[i] = b
                      THEN s[(CHOOSE i \in 1 .. Len(s) - 1 : s[i] = b) + 1]
                      ELSE next[b]]

\* The exit hook, enet_pool_thread_exit or DLL_THREAD_DETACH, up to the push of
\* enet_pool_cache_retire: the blocks are linked, and counted before they can be
\* taken by another thread.
ThreadExit(t) ==
    /\ IF WindowsHook THEN ~retired[t] ELSE active[t]
    /\ Go(t, "idle", IF ~active[t] THEN "idle"
                     ELSE IF slots[t] = <<>> THEN "retire" ELSE "push")
    /\ retired' = [retired EXCEPT ![t] = WindowsHook]
    /\ next' = LinkedIn(slots[t])
    /\ shared' = [shared EXCEPT !.orphaned = @ + Len(slots[t])]
    /\ UNCHANGED <<enabled, orphans, active, slots, pending, locals,
                   live, heap, stack, taken>>

\* enet_pool_orphans_push: the top of the stack is read ...
PushLoad(t) ==
    /\ Go(t, "push", "cas")
    /\ head' = [head EXCEPT ![t] = orphans]
    /\ UNCHANGED <<enabled, orphans, next, shared, active, retired, slots, pending,
                   chain, kept, trimmed, drained, unparked, live, heap, stack, taken>>

LinkLast(t) == next' = [next EXCEPT ![slots[t][Len(slots[t])]] = head[t]]

\* As PushDone below, but the top is stored without being compared.
PushDone_NoCompare(t) ==
    /\ Go(t, "cas", "retire")
    /\ LinkLast(t) /\ head' = [head EXCEPT ![t] = NoBlock]
    /\ orphans' = First(slots[t]) /\ stack' = slots[t] \o stack
    /\ slots' = [slots EXCEPT ![t] = <<>>]
    /\ UNCHANGED <<enabled, shared, active, retired, pending,
                   chain, kept, trimmed, drained, unparked, live, heap, taken>>

\* ... and replaced by the thread's own first block if it is still the same,
PushDone(t) ==
    /\ Go(t, "cas", "retire") /\ orphans = head[t]
    /\ LinkLast(t) /\ head' = [head EXCEPT ![t] = NoBlock]
    /\ orphans' = First(slots[t]) /\ stack' = slots[t] \o stack
    /\ slots' = [slots EXCEPT ![t] = <<>>]
    /\ UNCHANGED <<enabled, shared, active, retired, pending,
                   chain, kept, trimmed, drained, unparked, live, heap, taken>>

\* or else read again.
PushRetry(t) ==
    /\ Go(t, "cas", "cas") /\ orphans # head[t]
    /\ LinkLast(t) /\ head' = [head EXCEPT ![t] = orphans]
    /\ UNCHANGED <<enabled, orphans, shared, active, retired, slots, pending,
                   chain, kept, trimmed, drained, unparked, live, heap, stack, taken>>

\* The end of enet_pool_cache_retire.
Retire(t) ==
    /\ Go(t, "retire", "idle")
    /\ Flush(t, [shared EXCEPT !.caches = @ - 1], pending[t])
    /\ active' = [active EXCEPT ![t] = FALSE]
    /\ UNCHANGED <<enabled, orphans, next, retired, slots, locals, live, heap, stack, taken>>

\* A new thread takes the place of one that is gone.  On POSIX the destructors
\* that run after the hook may make another cache, and the hook runs again; on
\* Windows thread-local storage starts out zeroed.
Respawn(t) ==
    /\ WindowsHook /\ retired[t] /\ Go(t, "idle", "idle")
    /\ retired' = [retired EXCEPT ![t] = FALSE] /\ active' = [active EXCEPT ![t] = FALSE]
    /\ slots' = [slots EXCEPT ![t] = <<>>]
    /\ pending' = [pending EXCEPT ![t] = NoCounts]
    /\ UNCHANGED <<enabled, orphans, next, shared, locals, live, heap, stack, taken>>

-----------------------------------------------------------------------------
(* enet_pool_drain and enet_pool_shutdown *)

\* enet_pool_drain_blocks frees the blocks of the caller's own cache, ...
FreeOwn(t) ==
    /\ Go(t, "idle", "drain")
    /\ IF active[t]
       THEN /\ Flush(t, shared, [pending[t] EXCEPT !.retained = @ - Len(slots[t])])
            /\ heap' = heap \cup Elems(slots[t])
            /\ next' = [b \in Blocks |-> IF b \in Elems(slots[t]) THEN b ELSE next[b]]
            /\ drained' = [drained EXCEPT ![t] = Len(slots[t])]
            /\ slots' = [slots EXCEPT ![t] = <<>>]
       ELSE UNCHANGED <<shared, pending, heap, next, drained, slots>>
    /\ UNCHANGED <<orphans, active, retired, chain, kept, trimmed, head, unparked,
                   live, stack, taken>>

Drain(t) == FreeOwn(t) /\ UNCHANGED enabled

Shutdown(t) == FreeOwn(t) /\ enabled' = FALSE

\* ... takes the whole stack,
DrainTake(t) ==
    /\ Go(t, "drain", "free")
    /\ TakeAll(t)
    /\ UNCHANGED <<enabled, next, shared, active, retired, slots, pending,
                   kept, trimmed, head, drained, unparked, live, heap>>

\* frees its blocks
DrainFree(t) ==
    /\ Go(t, "free", "free") /\ chain[t] # NoBlock
    /\ heap' = heap \cup {chain[t]}
    /\ next' = Overwritten(chain[t])
    /\ Follow(t) /\ unparked' = [unparked EXCEPT ![t] = @ + 1]
    /\ UNCHANGED <<enabled, orphans, shared, active, retired, slots, pending,
                   kept, trimmed, head, drained, live, stack>>

\* and counts them.
DrainDone(t) ==
    /\ Go(t, "free", "idle") /\ chain[t] = NoBlock
    /\ shared' = [shared EXCEPT !.orphaned = @ - unparked[t],
                                !.retained = @ - unparked[t],
                                !.drained = @ + drained[t] + unparked[t]]
    /\ drained' = [drained EXCEPT ![t] = 0] /\ unparked' = [unparked EXCEPT ![t] = 0]
    /\ UNCHANGED <<enabled, orphans, next, active, retired, slots, pending, chain,
                   kept, trimmed, head, live, heap, stack, taken>>

-----------------------------------------------------------------------------
AcquireStep(t) ==
    \/ AcquireOversized(t) \/ Acquire(t) \/ AdoptLoad(t) \/ AdoptTake(t)
    \/ AdoptKeep(t) \/ AdoptTrim(t) \/ AdoptDone(t) \/ TakeHit(t) \/ TakeMiss(t)
ReleaseStep(t) == ReleaseKeep(t) \/ ReleaseFree(t) \/ ReleaseUncached(t)
ExitStep(t) ==
    \/ ThreadExit(t) \/ PushLoad(t) \/ PushDone(t) \/ PushRetry(t) \/ Retire(t) \/ Respawn(t)
DrainStep(t) ==
    \/ Drain(t) \/ Shutdown(t) \/ DrainTake(t) \/ DrainFree(t) \/ DrainDone(t)

Next == /\ UNCHANGED platform
        /\ \E t \in Threads : \/ Startup(t) \/ ReadStatistics(t) \/ AcquireStep(t)
                              \/ ReleaseStep(t) \/ ExitStep(t) \/ DrainStep(t)

Spec == Init /\ [][Next]_vars

-----------------------------------------------------------------------------
(* Properties *)

Counts == [operations : 0 .. StatsBatch - 1, hits : Nat, misses : Nat, oversized : Nat,
           returned : Nat, freed : Nat, retained : Int]
Totals == [hits : Nat, misses : Nat, oversized : Nat, returned : Nat, freed : Nat,
           drained : Nat, retained : Int, orphaned : Int, caches : Int]
Steps == {"idle", "adopt", "exchange", "walk", "take", "push", "cas", "retire",
          "drain", "free"}

\* Types.  A cache never holds more blocks than its array has places, also while
\* the blocks of several exited threads are adopted.
TypeOK ==
    /\ enabled \in BOOLEAN /\ orphans \in Blocks \cup {NoBlock}
    /\ next \in [Blocks -> Blocks \cup {NoBlock}]
    /\ shared \in Totals
    /\ active \in [Threads -> BOOLEAN] /\ retired \in [Threads -> BOOLEAN]
    /\ slots \in [Threads -> Seq(Blocks)]
    /\ \A t \in Threads : Len(slots[t]) <= MaxRetained
    /\ pending \in [Threads -> Counts] /\ pc \in [Threads -> Steps]
    /\ chain \in [Threads -> Blocks \cup {NoBlock}]
    /\ head \in [Threads -> Blocks \cup {NoBlock}]
    /\ kept \in [Threads -> Nat] /\ trimmed \in [Threads -> Nat]
    /\ drained \in [Threads -> Nat] /\ unparked \in [Threads -> Nat]
    /\ live \subseteq Blocks /\ heap \subseteq Blocks
    /\ stack \in Seq(Blocks) /\ taken \in [Threads -> Seq(Blocks)]

Distinct(s) == \A i, j \in DOMAIN s : s[i] = s[j] => i = j
Apart(A, B) == A \cap B = {}

\* No block is in two places: two caches, a cache and the orphan stack, a chain
\* being adopted and a packet of the application, and so on.  A block handed out
\* twice would be two packets in one piece of memory.  enet_pool_acquire,
\* enet_pool_release, the exit hook and enet_pool_drain of several threads at
\* once, with a stack that is pushed to and taken without a lock.
OwnedOnce ==
    /\ Distinct(stack)
    /\ \A t \in Threads : Distinct(slots[t]) /\ Distinct(taken[t])
    /\ \A t, u \in Threads : /\ t # u => Apart(Elems(slots[t]), Elems(slots[u]))
                             /\ t # u => Apart(Elems(taken[t]), Elems(taken[u]))
                             /\ Apart(Elems(slots[t]), Elems(taken[u]))
    /\ \A t \in Threads : /\ Apart(Elems(slots[t]) \cup Elems(taken[t]), Elems(stack))
                          /\ Apart(Elems(slots[t]) \cup Elems(taken[t]), live \cup heap)
    /\ Apart(Elems(stack), live \cup heap) /\ Apart(live, heap)

\* No block is lost: each is in a cache, on the orphan stack, in a chain being
\* walked, in a packet or with the allocator, whatever threads come and go.
NothingLost ==
    Blocks = live \cup heap \cup Elems(stack)
               \cup UNION {Elems(slots[t]) \cup Elems(taken[t]) : t \in Threads}

\* first is the head of the list of the blocks of s, linked through next.
IsList(first, s) ==
    /\ first = First(s)
    /\ \A i \in DOMAIN s : next[s[i]] = IF i = Len(s) THEN NoBlock ELSE s[i + 1]

\* Following next from the top of the orphan stack, or from the chain a thread
\* took, gives exactly the blocks parked there and ends: a push that links to a
\* top which was taken and pushed again in between (ABA) is still correct.
StackLinked ==
    /\ IsList(orphans, stack)
    /\ \A t \in Threads : IsList(chain[t], taken[t])

\* The blocks in the caches, or in the chains, of all threads.
Held(lists) == SumFunctionOnSet([t \in Threads |-> Len(lists[t])], Threads)

\* While no thread is in the middle of a drain, with no packet alive, hits +
\* misses = returned + freed and retained = returned - hits - drained, as
\* ENetPoolStatistics says, counting what is not published yet; and retained is
\* the number of blocks in the caches and on the orphan stack.
\* The total of orphans, which is unsigned, never falls short of the blocks that
\* are parked or taken: a thread counts its blocks before it parks them, and
\* the thread that takes them counts them off afterwards.
StatisticsAddUp ==
    /\ Total("hits") + Total("misses") = Total("returned") + Total("freed") + Cardinality(live)
    /\ (\A t \in Threads : pc[t] \notin {"drain", "free", "walk"}) =>
          /\ Total("retained") = Total("returned") - Total("hits") - shared.drained
          /\ Total("retained") = Len(stack) + Held(slots)
    /\ shared.orphaned >= Len(stack) + Held(taken)
=============================================================================
