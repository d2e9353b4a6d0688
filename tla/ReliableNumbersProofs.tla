----------------------- MODULE ReliableNumbersProofs -----------------------
(***************************************************************************)
(* Theorems about the sequence numbers of the reliable channels of         *)
(* ReliableChannel: they stay unambiguous although they wrap, what the     *)
(* sending peer forgets has arrived, and the channel implements the FIFO   *)
(* of ReliableFifo.  They hold for any number of channels, any windows the *)
(* assumptions of the model allow, any limits and any number of packets.   *)
(*                                                                         *)
(* NInv adds to CInv of ReliableChannelProofs what the numbers mean.       *)
(* There are, on each channel, a layout E[c] of the packets on the numbers *)
(* before they wrap, the last packet P[c] the receiving peer dispatched    *)
(* and the newest number T[c] that was ever sent.  The numbers that wait   *)
(* for an acknowledgement, those that have settled at the receiving peer   *)
(* and T[c] keep the distances of Reach to each other: the window check of *)
(* the sending peer lets T[c] grow only as far as they allow, so a number  *)
(* on the wire has one meaning.                                            *)
(***************************************************************************)
EXTENDS ReliableChannelProofs

-----------------------------------------------------------------------------
(* What the windows tell of the numbers that were sent *)

\* The constants are numbers.
LEMMA ConstantsAre ==
    /\ StartAt \in Nat /\ MaxPackets \in Nat /\ Lifetime \in Nat \ {0}
    /\ MaximumWaitingData \in Nat /\ IsFiniteSet(Channels)
    /\ Windows <= 2 * FreeWindows
    /\ \A n \in FragmentCounts :
          n \in Nat \ {0} /\ Lifetime + n <= WindowSize * (Windows - FreeWindows + 1) + 1
<1>1. \A n \in FragmentCounts : n \in Nat \ {0}
  BY LimitAssumption
<1>2. (Windows - FreeWindows + 1) * WindowSize = WindowSize * (Windows - FreeWindows + 1)
  BY WindowBounds, SMT
<1> QED BY <1>1, <1>2, LimitAssumption, HalfAssumption, LifetimeAssumption

\* A quotient and a remainder are the only ones.
LEMMA RemainderOnly ==
    ASSUME NEW n \in Nat \ {0}, NEW k \in Nat, NEW r \in 0 .. n - 1
    PROVE  (n * k + r) % n = r
<1> DEFINE y == n * k + r
           q == y \div n
           s == y % n
<1>1. y \in Nat /\ n * k \in Nat
  BY SMT
<1>2. q \in Nat /\ s \in 0 .. n - 1 /\ y = n * q + s
  BY <1>1, DivMod
<1> HIDE DEF q, s
<1>3. n * (q + 1) = n * q + n /\ n * (k + 1) = n * k + n /\ n * q \in Int
  BY <1>2, SMT
<1>4. n * k < n * (q + 1) /\ n * q < n * (k + 1)
  BY <1>1, <1>2, <1>3
<1>5. q + 1 \in Int /\ k + 1 \in Int /\ q \in Int /\ k \in Int
  BY <1>2
<1>6. k < q + 1 /\ q < k + 1
  BY <1>4, <1>5, Cancelled
<1>7. q = k
  BY <1>2, <1>6
<1>8. s = r
  BY <1>1, <1>2, <1>7
<1> QED BY <1>8 DEF s

\* A remainder may be taken before an addition.
LEMMA RemainderPlus ==
    ASSUME NEW n \in Nat \ {0}, NEW x \in Nat, NEW k \in Nat
    PROVE  ((x % n) + k) % n = (x + k) % n
<1> DEFINE a == x % n
           q == x \div n
           y == a + k
           b == y % n
           p == y \div n
<1>1. q \in Nat /\ a \in 0 .. n - 1 /\ x = n * q + a
  BY DivMod
<1> HIDE DEF a, q
<1>2. y \in Nat
  BY <1>1
<1> HIDE DEF y
<1>3. p \in Nat /\ b \in 0 .. n - 1 /\ y = n * p + b
  BY <1>2, DivMod
<1> HIDE DEF b, p
<1>4. n * (q + p) = n * q + n * p /\ n * q \in Int /\ n * p \in Int /\ q + p \in Nat
  BY <1>1, <1>3, SMT
<1>5. x + k = n * (q + p) + b
  BY <1>1, <1>3, <1>4 DEF y
<1>6. (n * (q + p) + b) % n = b
  BY <1>3, <1>4, RemainderOnly
<1> QED BY <1>5, <1>6 DEF b, y, a

\* A cycle more or less makes no difference.
LEMMA RemainderCycle ==
    ASSUME NEW n \in Nat \ {0}, NEW x \in Nat
    PROVE  (x + n) % n = x % n
BY Cycle

\* What the window check tells of command x of channel c that may be sent.
Free(windows, c, x) ==
    x % WindowSize = 0 =>
        /\ windows[c][(Window(x) + Windows - 1) % Windows] < WindowSize
        /\ \A k \in 0 .. FreeWindows + 1 : windows[c][(Window(x) + k) % Windows] = 0

\* What a command that is not held back by the windows finds in the counters.
LEMMA NotBlocked ==
    ASSUME NEW windows \in WindowCounters,
           NEW m, m.ch \in Channels, m.abs \in Nat, Fresh(m), ~ WindowBlocks(windows, m)
    PROVE  Free(windows, m.ch, m.abs)
<1> DEFINE x == m.abs
           c == m.ch
           w == Window(Seq16(m))
<1>1. /\ w = Window(x) % Windows /\ Seq16(m) % WindowSize = x % WindowSize
      /\ Window(x) \in Nat
  <2>1. x \in Nat
    OBVIOUS
  <2> HIDE DEF x
  <2>2. /\ Window(x % SeqSpace) = Window(x) % Windows
        /\ (x % SeqSpace) % WindowSize = x % WindowSize
    BY <2>1, WireWindow
  <2>3. Window(x) \in Nat
    BY <2>1, WindowIs
  <2> QED BY <2>2, <2>3 DEF Seq16, x
<1> HIDE DEF w
<1> SUFFICES ASSUME x % WindowSize = 0
             PROVE  /\ windows[c][(Window(x) + Windows - 1) % Windows] < WindowSize
                    /\ \A k \in 0 .. FreeWindows + 1 : windows[c][(Window(x) + k) % Windows] = 0
  BY DEF Free
<1>2. /\ ~ (windows[c][(w + Windows - 1) % Windows] >= WindowSize)
      /\ \A k \in 0 .. FreeWindows + 1 : ~ (windows[c][(w + k) % Windows] > 0)
  BY <1>1, Zenon DEF WindowBlocks, w
<1>3. \A k \in Nat : (w + k) % Windows = (Window(x) + k) % Windows
  <2> TAKE k \in Nat
  <2>1. Window(x) \in Nat /\ Windows \in Nat \ {0} /\ w = Window(x) % Windows
    BY <1>1, WindowBounds
  <2> HIDE DEF x
  <2> QED BY <2>1, RemainderPlus
<1>4. \A k \in Nat : (Window(x) + k) % Windows \in 0 .. Windows - 1
  <2> TAKE k \in Nat
  <2>1. Window(x) + k \in Nat
    BY <1>1
  <2> QED BY <2>1, WindowBounds, DivMod
<1> HIDE DEF x, c
<1>5. \A k \in Nat : windows[c][(Window(x) + k) % Windows] \in Nat
  BY <1>4 DEF c, WindowCounters
<1>6. windows[c][(Window(x) + Windows - 1) % Windows] < WindowSize
  <2> DEFINE k == Windows - 1
  <2>1. k \in Nat /\ w + Windows - 1 = w + k /\ Window(x) + Windows - 1 = Window(x) + k
    <3>1. w \in Int
      <4>1. w \in 0 .. Windows - 1
        BY <1>1, WindowBounds, DivMod
      <4> QED BY <4>1, WindowBounds
    <3> QED BY <1>1, <3>1, WindowBounds
  <2> HIDE DEF k
  <2>2. (w + k) % Windows = (Window(x) + k) % Windows /\ windows[c][(Window(x) + k) % Windows] \in Nat
    BY <1>3, <1>5, <2>1
  <2>3. ~ (windows[c][(Window(x) + k) % Windows] >= WindowSize)
    BY <1>2, <2>1, <2>2, Zenon
  <2>4. windows[c][(Window(x) + k) % Windows] < WindowSize
    BY <2>2, <2>3, WindowBounds
  <2> QED BY <2>1, <2>4, Zenon
<1>7. ASSUME NEW k \in 0 .. FreeWindows + 1
      PROVE  windows[c][(Window(x) + k) % Windows] = 0
  <2>1. k \in Nat
    BY WindowBounds
  <2>2. ~ (windows[c][(w + k) % Windows] > 0)
    BY <1>2
  <2>3. (w + k) % Windows = (Window(x) + k) % Windows /\ windows[c][(Window(x) + k) % Windows] \in Nat
    BY <1>3, <1>5, <2>1
  <2>4. ~ (windows[c][(Window(x) + k) % Windows] > 0)
    BY <2>2, <2>3, Zenon
  <2> QED BY <2>3, <2>4
<1> QED BY <1>6, <1>7

\* Command x may be sent if those of A were sent and not acknowledged: the window
\* before it is not full and the FreeWindows + 2 from its own on are empty.
FreeFor(A, x) ==
    x % WindowSize = 0 =>
        /\ \E y \in Nat : x - WindowSize <= y /\ y < x /\ y \notin A
        /\ \A k \in 0 .. FreeWindows + 1, a \in A :
              Window(a) % Windows # (Window(x) + k) % Windows

\* The numbers of a channel that were sent and not acknowledged.
Awaited(O, c) == {m.abs : m \in {k \in O : k.ch = c}}

\* What WindowBlocks tells when it does not hold a command back.
LEMMA FreeIs ==
    ASSUME NEW O, O \subseteq Commands, IsFiniteSet(O), NEW windows \in WindowCounters,
           Counted(O, windows), NEW m \in Commands, Fresh(m), ~ WindowBlocks(windows, m),
           m.abs > 0
    PROVE  FreeFor(Awaited(O, m.ch), m.abs)
<1> DEFINE x == m.abs
           c == m.ch
           A == Awaited(O, c)
           t == x - 1
<1>1. c \in Channels /\ x \in Nat /\ x > 0 /\ t \in Nat /\ x = t + 1
  BY DEF Commands
<1>2. Free(windows, c, x)
  BY <1>1, NotBlocked
<1> HIDE DEF x, c
<1>3. \A a \in A : \E k \in O : k.ch = c /\ k.abs = a
  BY DEF Awaited
<1> HIDE DEF A
<1>4. \A w \in 0 .. Windows - 1 :
         /\ windows[c][w] \in Nat /\ windows[c][w] = Cardinality(InWindowOf(O, c, w))
         /\ IsFiniteSet(InWindowOf(O, c, w))
  <2> TAKE w \in 0 .. Windows - 1
  <2>1. windows[c][w] \in Nat /\ windows[c][w] = Cardinality(InWindowOf(O, c, w))
    BY <1>1 DEF Counted, WindowCounters
  <2>2. InWindowOf(O, c, w) \in SUBSET O
    BY DEF InWindowOf
  <2> QED BY <2>1, <2>2, FS_Subset
<1>5. \A k \in O : k.abs \in Nat /\ Window(Seq16(k)) = Window(k.abs) % Windows
                   /\ Window(Seq16(k)) \in 0 .. Windows - 1
  <2> TAKE k \in O
  <2>1. k.abs \in Nat
    BY DEF Commands
  <2> QED BY <2>1, WireWindow DEF Seq16
<1> SUFFICES ASSUME x % WindowSize = 0
             PROVE  /\ \E y \in Nat : x - WindowSize <= y /\ y < x /\ y \notin A
                    /\ \A k \in 0 .. FreeWindows + 1, a \in A :
                          Window(a) % Windows # (Window(x) + k) % Windows
  BY DEF FreeFor, A, c, x
<1>6. /\ windows[c][(Window(x) + Windows - 1) % Windows] < WindowSize
      /\ \A k \in 0 .. FreeWindows + 1 : windows[c][(Window(x) + k) % Windows] = 0
  BY <1>2 DEF Free
<1>7. ASSUME NEW k \in 0 .. FreeWindows + 1, NEW a \in A,
             Window(a) % Windows = (Window(x) + k) % Windows
      PROVE  FALSE
  <2> DEFINE w == (Window(x) + k) % Windows
  <2>1. PICK j \in O : j.ch = c /\ j.abs = a
    BY <1>3
  <2>2. Window(Seq16(j)) = w /\ w \in 0 .. Windows - 1
    BY <1>5, <1>7, <2>1
  <2>3. windows[c][w] = 0
    BY <1>6
  <2> HIDE DEF w
  <2>4. j \in InWindowOf(O, c, w)
    BY <2>1, <2>2 DEF InWindowOf
  <2>5. Cardinality(InWindowOf(O, c, w)) = 0 /\ IsFiniteSet(InWindowOf(O, c, w))
    BY <1>4, <2>2, <2>3
  <2>6. InWindowOf(O, c, w) = {}
    BY <2>5, FS_EmptySet
  <2> QED BY <2>4, <2>6
<1>8. \E y \in Nat : x - WindowSize <= y /\ y < x /\ y \notin A
  <2> SUFFICES ASSUME \A y \in Nat : x - WindowSize <= y /\ y < x => y \in A
               PROVE  FALSE
    OBVIOUS
  <2> DEFINE v == Window(t)
             w == v % Windows
             I == x - WindowSize .. t
             W == InWindowOf(O, c, w)
             f == [y \in I |-> CHOOSE k \in O : k.ch = c /\ k.abs = y]
  <2>1. /\ v \in Nat /\ Window(x) = v + 1
        /\ \A y \in Nat : x - WindowSize <= y /\ y <= t => Window(y) = v
    <3>1. /\ Window(t + 1) = IF (t + 1) % WindowSize = 0 THEN Window(t) + 1 ELSE Window(t)
          /\ (t + 1) % WindowSize = 0 =>
                 \A y \in Nat : t + 1 - WindowSize <= y /\ y <= t => Window(y) = Window(t)
      BY <1>1, NextWindow
    <3>2. Window(t) \in Nat
      BY <1>1, WindowIs
    <3>3. t + 1 = x
      BY <1>1
    <3> HIDE DEF t
    <3>4. Window(x) = IF x % WindowSize = 0 THEN v + 1 ELSE v
      BY <3>1, <3>3
    <3>5. x % WindowSize = 0 => \A y \in Nat : x - WindowSize <= y /\ y <= t => Window(y) = v
      <4>1. x - WindowSize = t + (1 - WindowSize)
        BY <1>1, <3>3, WindowBounds
      <4> QED BY <3>1, <3>3, <4>1
    <3> QED BY <3>2, <3>4, <3>5
  <2>2. x - WindowSize \in Nat
    <3>1. WindowSize * (v + 1) <= x
      BY <1>1, <2>1, WindowIs
    <3>2. WindowSize * (v + 1) = WindowSize * v + WindowSize /\ WindowSize * v \in Nat
      BY <2>1, WindowBounds, SMT
    <3> QED BY <1>1, <3>1, <3>2, WindowBounds
  <2>3. (Window(x) + Windows - 1) % Windows = w /\ w \in 0 .. Windows - 1
    <3>1. Window(x) + Windows - 1 = v + Windows
      BY <2>1, WindowBounds
    <3>2. (v + Windows) % Windows = v % Windows
      BY <2>1, WindowBounds, Cycle
    <3>3. v % Windows \in 0 .. Windows - 1
      BY <2>1, WindowBounds, DivMod
    <3> QED BY <3>1, <3>2, <3>3
  <2>4. windows[c][w] < WindowSize
    BY <1>6, <2>3
  <2>5. \A y \in I : y \in Nat /\ y \in A /\ Window(y) = v
    BY <1>1, <2>1, <2>2
  <2>6. \A y \in I : f[y] \in O /\ f[y].ch = c /\ f[y].abs = y
    <3> TAKE y \in I
    <3>1. \E k \in O : k.ch = c /\ k.abs = y
      BY <1>3, <2>5
    <3> QED BY <3>1
  <2>7. \A y \in I : f[y] \in W
    <3> TAKE y \in I
    <3>1. f[y] \in O /\ f[y].ch = c /\ f[y].abs = y /\ Window(y) = v
      BY <2>5, <2>6
    <3> DEFINE g == f[y]
    <3>2. g \in O /\ g.ch = c /\ Window(g.abs) = v
      BY <3>1
    <3> HIDE DEF g, f
    <3>3. Window(Seq16(g)) = w
      BY <1>5, <3>2
    <3>4. g \in W
      BY <3>2, <3>3 DEF InWindowOf
    <3> QED BY <3>4 DEF g
  <2>8. f \in [I -> W] /\ \A y, z \in I : f[y] = f[z] => y = z
    <3>1. DOMAIN f = I /\ f = [y \in I |-> f[y]]
      OBVIOUS
    <3>2. \A y \in I : f[y] \in W /\ f[y].abs = y
      BY <2>6, <2>7, Zenon
    <3> HIDE DEF f, W, I
    <3>3. f \in [I -> W]
      BY <3>1, <3>2, Zenon
    <3>4. ASSUME NEW y \in I, NEW z \in I, f[y] = f[z]
          PROVE  y = z
      <4>1. f[y].abs = y /\ f[z].abs = z
        BY <3>2, Zenon
      <4> QED BY <3>4, <4>1, Zenon
    <3> QED BY <3>3, <3>4
  <2> HIDE DEF f
  <2>9. IsFiniteSet(W) /\ Cardinality(W) < WindowSize /\ Cardinality(W) \in Nat
    BY <1>4, <2>3, <2>4
  <2>10. Cardinality(I) = WindowSize
    <3> DEFINE a == x - WindowSize
    <3>1. a \in Int /\ t \in Int /\ a <= t /\ t - a + 1 = WindowSize
      BY <1>1, <2>2, WindowBounds
    <3>2. Cardinality(a .. t) = IF a > t THEN 0 ELSE t - a + 1
      BY <3>1, FS_Interval
    <3> QED BY <3>1, <3>2
  <2> HIDE DEF I, W
  <2>11. Cardinality(I) <= Cardinality(W)
    BY <2>8, <2>9, MappedInto
  <2> QED BY <2>9, <2>10, <2>11, WindowBounds
<1> QED BY <1>7, <1>8

-----------------------------------------------------------------------------
(* How far the sending peer may be ahead of the receiving peer *)

\* Of the numbers up to T, the newest one sent on a channel, those of A wait for
\* an acknowledgement and those of S have arrived; L is the last one dispatched.
\* No number that was sent is far from another that is of interest.
Reach(A, S, L, T) ==
    /\ A \subseteq Nat /\ S \subseteq Nat /\ L \in Nat /\ T \in Nat
    /\ StartAt <= L /\ L <= T
    /\ \A x \in A : StartAt < x /\ x <= T /\ Window(T) + FreeWindows + 2 <= Window(x) + Windows
    /\ Window(T) + 1 <= Window(L) + FreeWindows
    /\ \A x \in Nat : StartAt < x /\ x <= T => x \in A \/ x \in S
    /\ \A x \in S : Window(x) + 2 <= Window(L) + FreeWindows

\* A quotient moved by a whole number of cycles leaves the remainder alone.
LEMMA CycleWindow ==
    ASSUME NEW v \in Nat, NEW w \in Nat, NEW k \in Nat, v + Windows = w + k
    PROVE  v % Windows = (w + k) % Windows
<1>1. (v + Windows) % Windows = v % Windows
  BY WindowBounds, Cycle
<1> QED BY <1>1

\* The next number may be sent when the windows leave it room.
LEMMA ReachGrows ==
    ASSUME NEW A, NEW S, NEW L, NEW T, Reach(A, S, L, T), FreeFor(A, T + 1)
    PROVE  Reach(A \cup {T + 1}, S, L, T + 1)
<1> DEFINE U == T + 1
<1>1. /\ A \subseteq Nat /\ S \subseteq Nat /\ L \in Nat /\ T \in Nat /\ StartAt \in Nat
      /\ StartAt <= L /\ L <= T /\ U \in Nat /\ U = T + 1
  BY ConstantsAre DEF Reach
<1>2. \A x \in Nat : Window(x) \in Nat
  BY WindowIs
<1>3. /\ Window(U) = IF U % WindowSize = 0 THEN Window(T) + 1 ELSE Window(T)
      /\ U % WindowSize = 0 => \A y \in Nat : U - WindowSize <= y /\ y <= T => Window(y) = Window(T)
  <2>1. /\ Window(T + 1) = IF (T + 1) % WindowSize = 0 THEN Window(T) + 1 ELSE Window(T)
        /\ (T + 1) % WindowSize = 0 =>
               \A y \in Nat : T + 1 - WindowSize <= y /\ y <= T => Window(y) = Window(T)
    BY <1>1, NextWindow
  <2>2. T + (1 - WindowSize) = U - WindowSize
    BY <1>1, WindowBounds
  <2> QED BY <2>1, <2>2
<1>4. FreeFor(A, U)
  OBVIOUS
<1> HIDE DEF U
<1>5. ASSUME NEW x \in A
      PROVE  StartAt < x /\ x <= U /\ Window(U) + FreeWindows + 2 <= Window(x) + Windows
  <2>1. x \in Nat /\ StartAt < x /\ x <= T /\ Window(T) + FreeWindows + 2 <= Window(x) + Windows
    BY <1>1 DEF Reach
  <2>2. Window(x) \in Nat /\ Window(T) \in Nat /\ Window(U) \in Nat
    BY <1>1, <1>2, <2>1
  <2>3. CASE U % WindowSize # 0
    BY <1>1, <1>3, <2>1, <2>2, <2>3
  <2>4. CASE U % WindowSize = 0
    <3>1. Window(U) = Window(T) + 1
      BY <1>3, <2>4
    <3> SUFFICES ASSUME ~ (Window(U) + FreeWindows + 2 <= Window(x) + Windows)
                 PROVE  FALSE
      BY <1>1, <2>1
    <3> DEFINE k == FreeWindows + 1
    <3>2. k \in Nat /\ k \in 0 .. FreeWindows + 1
      BY WindowBounds
    <3>3. Window(x) + Windows = Window(U) + k
      BY <2>1, <2>2, <3>1, WindowBounds
    <3> HIDE DEF k
    <3>4. Window(x) % Windows = (Window(U) + k) % Windows
      BY <2>2, <3>2, <3>3, CycleWindow
    <3> QED BY <1>4, <2>4, <3>2, <3>4 DEF FreeFor
  <2> QED BY <2>3, <2>4
<1>6. StartAt < U /\ U <= U /\ Window(U) + FreeWindows + 2 <= Window(U) + Windows
  BY <1>1, <1>2, WindowBounds
<1>7. Window(U) + 1 <= Window(L) + FreeWindows
  <2>1. Window(T) + 1 <= Window(L) + FreeWindows
    BY DEF Reach
  <2>2. Window(L) \in Nat /\ Window(T) \in Nat /\ Window(U) \in Nat
    BY <1>1, <1>2
  <2>3. CASE U % WindowSize # 0
    BY <1>3, <2>1, <2>3
  <2>4. CASE U % WindowSize = 0
    <3>1. Window(U) = Window(T) + 1
      BY <1>3, <2>4
    <3>2. PICK y \in Nat : U - WindowSize <= y /\ y < U /\ y \notin A
      BY <1>4, <2>4 DEF FreeFor
    <3>3. y <= T
      BY <1>1, <3>2
    <3>4. Window(y) = Window(T)
      BY <1>3, <2>4, <3>2, <3>3
    <3>5. CASE StartAt < y
      <4>1. y \in S
        BY <3>2, <3>3, <3>5 DEF Reach
      <4>2. Window(y) + 2 <= Window(L) + FreeWindows
        BY <4>1 DEF Reach
      <4> QED BY <2>2, <3>1, <3>4, <4>2, WindowBounds
    <3>6. CASE ~ (StartAt < y)
      <4>1. y <= L
        BY <1>1, <3>6
      <4>2. Window(y) <= Window(L)
        BY <1>1, <4>1, WindowOrder
      <4> QED BY <2>2, <3>1, <3>4, <4>2, WindowBounds
    <3> QED BY <3>5, <3>6
  <2> QED BY <2>3, <2>4
<1>8. ASSUME NEW x \in Nat, StartAt < x, x <= U
      PROVE  x \in A \cup {U} \/ x \in S
  <2>1. CASE x = U
    BY <2>1
  <2>2. CASE x # U
    <3>1. x <= T
      BY <1>1, <1>8, <2>2
    <3> QED BY <1>8, <3>1 DEF Reach
  <2> QED BY <2>1, <2>2
<1>9. A \cup {U} \subseteq Nat /\ L <= U
  BY <1>1
<1>10. \A x \in S : Window(x) + 2 <= Window(L) + FreeWindows
  BY DEF Reach
<1>11. Reach(A \cup {U}, S, L, U)
  BY <1>1, <1>5, <1>6, <1>7, <1>8, <1>9, <1>10 DEF Reach
<1> QED BY <1>11 DEF U

\* What has arrived may be acknowledged.
LEMMA ReachShrinks ==
    ASSUME NEW A, NEW S, NEW L, NEW T, Reach(A, S, L, T), NEW x \in S, NEW B, B = A \ {x}
    PROVE  Reach(B, S, L, T)
BY DEF Reach

\* The numbers that are looked at are less than a cycle apart.
LEMMA ReachSpan ==
    ASSUME NEW A, NEW S, NEW L, NEW T, Reach(A, S, L, T)
    PROVE  /\ L \in Nat /\ T \in Nat /\ L <= T /\ T < L + SeqSpace
           /\ \A x \in A : x \in Nat /\ x <= T
                           /\ T < x + WindowSize * (Windows - FreeWindows - 1) /\ T < x + SeqSpace
           /\ Window(T) <= Window(L) + FreeWindows - 1
<1>1. /\ A \subseteq Nat /\ L \in Nat /\ T \in Nat /\ StartAt <= L /\ L <= T
      /\ \A x \in A : x \in Nat /\ x <= T /\ Window(T) + FreeWindows + 2 <= Window(x) + Windows
      /\ Window(T) + 1 <= Window(L) + FreeWindows
  BY DEF Reach
<1>2. \A x \in Nat : Window(x) \in Nat
  BY WindowIs
<1>3. /\ SeqSpace = WindowSize * Windows
      /\ \A k \in Int : k + 1 <= Windows => WindowSize * (k + 1) <= SeqSpace
  <2> SUFFICES ASSUME NEW k \in Int, k + 1 <= Windows
               PROVE  WindowSize * (k + 1) <= SeqSpace
    BY WindowBounds
  <2>1. WindowSize * (k + 1) <= WindowSize * Windows
    BY WindowBounds, Monotone
  <2> QED BY <2>1, WindowBounds
<1>4. \A x, y \in Nat : \A k \in Int :
         Window(y) <= Window(x) + k => y < x + WindowSize * (k + 1)
  BY WindowOrder
<1>5. T < L + SeqSpace /\ Window(T) <= Window(L) + FreeWindows - 1
  <2> DEFINE k == FreeWindows - 1
  <2>1. k \in Int /\ k + 1 <= Windows /\ Window(T) <= Window(L) + k
    BY <1>1, <1>2, WindowBounds
  <2>2. T < L + WindowSize * (k + 1) /\ WindowSize * (k + 1) <= SeqSpace /\ WindowSize * (k + 1) \in Int
    BY <1>1, <1>3, <1>4, <2>1, WindowBounds
  <2>3. Window(T) <= Window(L) + FreeWindows - 1
    BY <2>1
  <2> HIDE DEF k
  <2> QED BY <1>1, <2>2, <2>3, WindowBounds
<1>6. ASSUME NEW x \in A
      PROVE  x \in Nat /\ x <= T /\ T < x + WindowSize * (Windows - FreeWindows - 1)
             /\ T < x + SeqSpace
  <2> DEFINE k == Windows - FreeWindows - 2
  <2>1. /\ k \in Int /\ k + 1 <= Windows /\ Window(T) <= Window(x) + k /\ x \in Nat /\ x <= T
        /\ k + 1 = Windows - FreeWindows - 1
    BY <1>1, <1>2, WindowBounds
  <2> HIDE DEF k
  <2>2. T < x + WindowSize * (k + 1) /\ WindowSize * (k + 1) <= SeqSpace /\ WindowSize * (k + 1) \in Int
    BY <1>1, <1>3, <1>4, <2>1, WindowBounds
  <2>3. T < x + SeqSpace
    <3> DEFINE z == WindowSize * (k + 1)
    <3>1. z \in Int /\ T < x + z /\ z <= SeqSpace
      BY <2>2
    <3> HIDE DEF z
    <3> QED BY <1>1, <2>1, <3>1, WindowBounds
  <2> QED BY <2>1, <2>2, <2>3
<1> QED BY <1>1, <1>5, <1>6

-----------------------------------------------------------------------------
(* The commands that were never sent *)

\* From its place n + 1 on, the queue holds the numbers of each channel between
\* the newest one sent and the last one queued, in their order.
Pending(q, n, T, last) ==
    /\ T \in [Channels -> Nat] /\ \A c \in Channels : T[c] <= last[c]
    /\ \A i \in n + 1 .. Len(q) :
          Fresh(q[i]) => T[q[i].ch] < q[i].abs /\ q[i].abs <= last[q[i].ch]
    /\ \A i, j \in n + 1 .. Len(q) :
          i < j /\ Fresh(q[i]) /\ Fresh(q[j]) /\ q[i].ch = q[j].ch => q[i].abs < q[j].abs
    /\ \A c \in Channels, x \in Nat : T[c] < x /\ x <= last[c] =>
          \E i \in n + 1 .. Len(q) : Fresh(q[i]) /\ q[i].ch = c /\ q[i].abs = x

\* A retransmission is sent.
LEMMA PendingRepeated ==
    ASSUME NEW q \in Seq(Commands), NEW n \in 0 .. Len(q) - 1, NEW T, NEW last,
           Pending(q, n, T, last), ~ Fresh(q[n + 1])
    PROVE  Pending(q, n + 1, T, last)
<1>1. n \in Nat /\ Len(q) \in Nat
  OBVIOUS
<1>2. \A i \in n + 1 .. Len(q) : Fresh(q[i]) => i \in n + 1 + 1 .. Len(q)
  BY <1>1
<1>3. \A i \in n + 1 + 1 .. Len(q) : i \in n + 1 .. Len(q)
  BY <1>1
<1>4. ASSUME NEW c \in Channels, NEW x \in Nat, T[c] < x, x <= last[c]
      PROVE  \E i \in n + 1 + 1 .. Len(q) : Fresh(q[i]) /\ q[i].ch = c /\ q[i].abs = x
  <2>1. PICK i \in n + 1 .. Len(q) : Fresh(q[i]) /\ q[i].ch = c /\ q[i].abs = x
    BY <1>4 DEF Pending
  <2> QED BY <1>2, <2>1
<1> QED BY <1>3, <1>4 DEF Pending

\* The newest number sent on channel c is one higher.
Advanced(T, c) == [T EXCEPT ![c] = @ + 1]

\* A new command is sent: it has the next number of its channel.
LEMMA PendingSent ==
    ASSUME NEW q \in Seq(Commands), NEW n \in 0 .. Len(q) - 1, NEW T, NEW last,
           last \in [Channels -> Nat], Pending(q, n, T, last), Fresh(q[n + 1])
    PROVE  /\ q[n + 1].abs = T[q[n + 1].ch] + 1
           /\ Pending(q, n + 1, Advanced(T, q[n + 1].ch), last)
<1> DEFINE m == q[n + 1]
           c == m.ch
           U == Advanced(T, c)
           I == n + 1 .. Len(q)
           J == n + 1 + 1 .. Len(q)
<1>1. n \in Nat /\ Len(q) \in Nat /\ n + 1 \in I
  OBVIOUS
<1>2. \A i \in I : q[i] \in Commands /\ q[i].ch \in Channels /\ q[i].abs \in Nat
  <2> TAKE i \in I
  <2>1. i \in 1 .. Len(q)
    BY <1>1
  <2>2. q[i] \in Commands
    BY <2>1
  <2> QED BY <2>2 DEF Commands
<1>3. \A i \in I : i = n + 1 \/ i \in J
  BY <1>1
<1>4. \A i \in J : i \in I /\ n + 1 < i
  BY <1>1
<1>5. /\ T \in [Channels -> Nat] /\ last \in [Channels -> Nat]
      /\ \A b \in Channels : T[b] <= last[b]
      /\ \A i \in I : Fresh(q[i]) => T[q[i].ch] < q[i].abs /\ q[i].abs <= last[q[i].ch]
      /\ \A i, j \in I :
            i < j /\ Fresh(q[i]) /\ Fresh(q[j]) /\ q[i].ch = q[j].ch => q[i].abs < q[j].abs
      /\ \A b \in Channels, x \in Nat : T[b] < x /\ x <= last[b] =>
            \E i \in I : Fresh(q[i]) /\ q[i].ch = b /\ q[i].abs = x
  BY DEF Pending
<1>6. c \in Channels /\ m.abs \in Nat /\ Fresh(m) /\ T[c] < m.abs /\ m.abs <= last[c]
  BY <1>1, <1>2, <1>5
<1>7. T[c] \in Nat /\ last[c] \in Nat /\ m = q[n + 1]
  BY <1>5, <1>6
<1> HIDE DEF I, J, c, m
<1>8. m.abs = T[c] + 1
  <2>1. PICK i \in I : Fresh(q[i]) /\ q[i].ch = c /\ q[i].abs = T[c] + 1
    <3>1. T[c] + 1 \in Nat /\ T[c] < T[c] + 1 /\ T[c] + 1 <= last[c]
      BY <1>6, <1>7
    <3> QED BY <1>5, <1>6, <3>1
  <2>2. CASE i = n + 1
    BY <1>7, <2>1, <2>2
  <2>3. CASE i \in J
    <3>1. n + 1 < i /\ n + 1 \in I
      BY <1>1, <1>4, <2>3
    <3>2. m.abs < q[i].abs
      BY <1>5, <1>6, <1>7, <2>1, <3>1 DEF c
    <3> QED BY <1>6, <1>7, <2>1, <3>2
  <2> QED BY <1>3, <2>1, <2>2, <2>3
<1>9. U \in [Channels -> Nat] /\ \A b \in Channels : U[b] = IF b = c THEN T[c] + 1 ELSE T[b]
  BY <1>5, <1>6, <1>7 DEF Advanced
<1> HIDE DEF U
<1>10. \A b \in Channels : U[b] <= last[b]
  BY <1>5, <1>6, <1>7, <1>8, <1>9
<1>11. ASSUME NEW i \in J, Fresh(q[i])
       PROVE  U[q[i].ch] < q[i].abs /\ q[i].abs <= last[q[i].ch]
  <2>1. /\ i \in I /\ n + 1 \in I /\ n + 1 < i /\ q[i].ch \in Channels /\ q[i].abs \in Nat
        /\ T[q[i].ch] < q[i].abs /\ q[i].abs <= last[q[i].ch]
    BY <1>1, <1>2, <1>4, <1>5, <1>11
  <2>2. CASE q[i].ch = c
    <3>1. m.abs < q[i].abs
      BY <1>5, <1>6, <1>7, <1>11, <2>1, <2>2 DEF c
    <3> QED BY <1>6, <1>8, <1>9, <2>1, <2>2, <3>1
  <2>3. CASE q[i].ch # c
    BY <1>9, <2>1, <2>3
  <2> QED BY <2>2, <2>3
<1>12. ASSUME NEW b \in Channels, NEW x \in Nat, U[b] < x, x <= last[b]
       PROVE  \E i \in J : Fresh(q[i]) /\ q[i].ch = b /\ q[i].abs = x
  <2>1. T[b] < x
    <3>1. T \in [Channels -> Nat] /\ T[b] \in Nat
      BY <1>5
    <3>2. CASE b = c
      BY <1>7, <1>9, <1>12, <3>1, <3>2
    <3>3. CASE b # c
      BY <1>9, <1>12, <3>1, <3>3
    <3> QED BY <3>2, <3>3
  <2>2. PICK i \in I : Fresh(q[i]) /\ q[i].ch = b /\ q[i].abs = x
    BY <1>5, <1>12, <2>1
  <2>3. i # n + 1
    <3> SUFFICES ASSUME i = n + 1 PROVE FALSE
      OBVIOUS
    <3>1. b = c /\ x = m.abs
      BY <1>7, <2>2 DEF c
    <3> QED BY <1>6, <1>7, <1>8, <1>9, <1>12, <3>1
  <2> QED BY <1>3, <2>2, <2>3
<1>13. \A i, j \in J :
          i < j /\ Fresh(q[i]) /\ Fresh(q[j]) /\ q[i].ch = q[j].ch => q[i].abs < q[j].abs
  BY <1>4, <1>5
<1>14. Pending(q, n + 1, U, last)
  BY <1>9, <1>10, <1>11, <1>12, <1>13 DEF Pending, J
<1> QED BY <1>8, <1>14 DEF U, c, m

\* What is left of the queue.
LEMMA PendingRest ==
    ASSUME NEW q \in Seq(Commands), NEW n \in 0 .. Len(q), NEW T, NEW last, Pending(q, n, T, last)
    PROVE  Pending(Unsent(q, n), 0, T, last)
<1> DEFINE u == Unsent(q, n)
           I == n + 1 .. Len(q)
           J == 0 + 1 .. Len(u)
<1>1. /\ n \in Nat /\ Len(q) \in Nat /\ Len(u) = Len(q) - n
      /\ \A k \in 1 .. Len(q) - n : u[k] = q[n + k]
  BY DEF Unsent
<1> HIDE DEF u
<1>2. \A k \in J : n + k \in I /\ u[k] = q[n + k] /\ k \in Int
  BY <1>1
<1>3. \A i \in I : i - n \in J /\ u[i - n] = q[i]
  <2> TAKE i \in I
  <2>1. i - n \in J /\ i - n \in 1 .. Len(q) - n /\ n + (i - n) = i
    BY <1>1
  <2> QED BY <1>1, <2>1
<1>4. /\ T \in [Channels -> Nat] /\ \A b \in Channels : T[b] <= last[b]
      /\ \A i \in I : Fresh(q[i]) => T[q[i].ch] < q[i].abs /\ q[i].abs <= last[q[i].ch]
      /\ \A i, j \in I :
            i < j /\ Fresh(q[i]) /\ Fresh(q[j]) /\ q[i].ch = q[j].ch => q[i].abs < q[j].abs
      /\ \A b \in Channels, x \in Nat : T[b] < x /\ x <= last[b] =>
            \E i \in I : Fresh(q[i]) /\ q[i].ch = b /\ q[i].abs = x
  BY DEF Pending
<1>5. \A k \in J : Fresh(u[k]) => T[u[k].ch] < u[k].abs /\ u[k].abs <= last[u[k].ch]
  BY <1>2, <1>4
<1>6. ASSUME NEW k \in J, NEW l \in J, k < l, Fresh(u[k]), Fresh(u[l]), u[k].ch = u[l].ch
      PROVE  u[k].abs < u[l].abs
  <2>1. n + k < n + l /\ n + k \in I /\ n + l \in I /\ u[k] = q[n + k] /\ u[l] = q[n + l]
    BY <1>1, <1>2, <1>6
  <2> HIDE DEF I, J
  <2> QED BY <1>4, <1>6, <2>1
<1>7. ASSUME NEW b \in Channels, NEW x \in Nat, T[b] < x, x <= last[b]
      PROVE  \E k \in J : Fresh(u[k]) /\ u[k].ch = b /\ u[k].abs = x
  <2>1. PICK i \in I : Fresh(q[i]) /\ q[i].ch = b /\ q[i].abs = x
    BY <1>4, <1>7
  <2> QED BY <1>3, <2>1
<1> HIDE DEF I
<1>8. Pending(u, 0, T, last)
  BY <1>4, <1>5, <1>6, <1>7 DEF Pending
<1> QED BY <1>8 DEF u

\* Commands that were sent are put in front.
LEMMA PendingRequeued ==
    ASSUME NEW q \in Seq(Commands), NEW t \in Seq(Commands), NEW T, NEW last,
           Pending(q, 0, T, last), \A i \in 1 .. Len(t) : t[i].attempted
    PROVE  Pending(t \o q, 0, T, last)
<1> DEFINE u == t \o q
           n == Len(t)
           I == 0 + 1 .. Len(q)
           J == 0 + 1 .. Len(u)
<1>1. Joined(u, t, q, Commands)
  BY JoinedIs
<1>2. n \in Nat /\ Len(q) \in Nat /\ Len(u) \in Nat /\ Len(u) = n + Len(q)
  BY <1>1 DEF Joined
<1> HIDE DEF u
<1>3. \A k \in J : Fresh(u[k]) => k - n \in I /\ u[k] = q[k - n] /\ k \in Int
  <2> SUFFICES ASSUME NEW k \in J, Fresh(u[k])
               PROVE  k - n \in I /\ u[k] = q[k - n] /\ k \in Int
    OBVIOUS
  <2>1. k \in 1 .. Len(u)
    BY <1>2
  <2>2. k \notin 1 .. Len(t)
    <3> SUFFICES ASSUME k \in 1 .. Len(t) PROVE FALSE
      OBVIOUS
    <3>1. u[k] = t[k] /\ t[k].attempted
      BY <1>1 DEF Joined
    <3> QED BY <3>1 DEF Fresh
  <2>3. k - n \in 1 .. Len(q) /\ u[k] = q[k - n]
    BY <1>1, <2>1, <2>2 DEF Joined
  <2> QED BY <1>2, <2>3
<1>4. \A i \in I : n + i \in J /\ u[n + i] = q[i]
  <2> TAKE i \in I
  <2>1. i \in 1 .. Len(q)
    BY <1>2
  <2> QED BY <1>1, <1>2, <2>1 DEF Joined
<1>5. /\ T \in [Channels -> Nat] /\ \A b \in Channels : T[b] <= last[b]
      /\ \A i \in I : Fresh(q[i]) => T[q[i].ch] < q[i].abs /\ q[i].abs <= last[q[i].ch]
      /\ \A i, j \in I :
            i < j /\ Fresh(q[i]) /\ Fresh(q[j]) /\ q[i].ch = q[j].ch => q[i].abs < q[j].abs
      /\ \A b \in Channels, x \in Nat : T[b] < x /\ x <= last[b] =>
            \E i \in I : Fresh(q[i]) /\ q[i].ch = b /\ q[i].abs = x
  BY DEF Pending
<1>6. \A k \in J : Fresh(u[k]) => T[u[k].ch] < u[k].abs /\ u[k].abs <= last[u[k].ch]
  BY <1>3, <1>5
<1>7. ASSUME NEW k \in J, NEW l \in J, k < l, Fresh(u[k]), Fresh(u[l]), u[k].ch = u[l].ch
      PROVE  u[k].abs < u[l].abs
  <2>1. k - n < l - n /\ k - n \in I /\ l - n \in I /\ u[k] = q[k - n] /\ u[l] = q[l - n]
    BY <1>2, <1>3, <1>7
  <2> HIDE DEF I, J
  <2> QED BY <1>5, <1>7, <2>1
<1>8. ASSUME NEW b \in Channels, NEW x \in Nat, T[b] < x, x <= last[b]
      PROVE  \E k \in J : Fresh(u[k]) /\ u[k].ch = b /\ u[k].abs = x
  <2>1. PICK i \in I : Fresh(q[i]) /\ q[i].ch = b /\ q[i].abs = x
    BY <1>5, <1>8
  <2> QED BY <1>4, <2>1
<1> HIDE DEF I
<1>9. Pending(u, 0, T, last)
  BY <1>5, <1>6, <1>7, <1>8 DEF Pending
<1> QED BY <1>9 DEF u

\* A command that was sent is acknowledged.
LEMMA PendingRemoved ==
    ASSUME NEW q \in Seq(Commands), NEW p \in 1 .. Len(q), NEW t, Removed(t, q, p),
           q[p].attempted, NEW T, NEW last, Pending(q, 0, T, last)
    PROVE  Pending(t, 0, T, last)
<1> DEFINE I == 0 + 1 .. Len(q)
           J == 0 + 1 .. Len(t)
           At(j) == IF j < p THEN j ELSE j + 1
<1>1. t \in Seq(Commands) /\ Len(q) \in Nat /\ Len(t) \in Nat /\ Len(t) = Len(q) - 1 /\ p \in Nat
  BY DEF Removed
<1>2. \A k \in J : At(k) \in I /\ t[k] = q[At(k)] /\ k \in Int
  <2> TAKE k \in J
  <2>1. k \in 1 .. Len(t)
    BY <1>1
  <2>2. At(k) \in 1 .. Len(q) /\ t[k] = q[At(k)]
    BY <2>1 DEF Removed
  <2> QED BY <1>1, <2>2
<1>3. \A i \in I : Fresh(q[i]) => \E k \in J : t[k] = q[i]
  <2> SUFFICES ASSUME NEW i \in I, Fresh(q[i])
               PROVE  \E k \in J : t[k] = q[i]
    OBVIOUS
  <2>1. i # p
    BY DEF Fresh
  <2> DEFINE k == IF i < p THEN i ELSE i - 1
  <2>2. k \in J /\ At(k) = i
    BY <1>1, <2>1
  <2> HIDE DEF k
  <2> QED BY <1>2, <2>2
<1>4. /\ T \in [Channels -> Nat] /\ \A b \in Channels : T[b] <= last[b]
      /\ \A i \in I : Fresh(q[i]) => T[q[i].ch] < q[i].abs /\ q[i].abs <= last[q[i].ch]
      /\ \A i, j \in I :
            i < j /\ Fresh(q[i]) /\ Fresh(q[j]) /\ q[i].ch = q[j].ch => q[i].abs < q[j].abs
      /\ \A b \in Channels, x \in Nat : T[b] < x /\ x <= last[b] =>
            \E i \in I : Fresh(q[i]) /\ q[i].ch = b /\ q[i].abs = x
  BY DEF Pending
<1>5. \A k, l \in J : k < l => At(k) < At(l)
  BY <1>1
<1> HIDE DEF At
<1>6. \A k \in J : Fresh(t[k]) => T[t[k].ch] < t[k].abs /\ t[k].abs <= last[t[k].ch]
  BY <1>2, <1>4
<1>7. ASSUME NEW k \in J, NEW l \in J, k < l, Fresh(t[k]), Fresh(t[l]), t[k].ch = t[l].ch
      PROVE  t[k].abs < t[l].abs
  <2>1. At(k) < At(l) /\ At(k) \in I /\ At(l) \in I /\ t[k] = q[At(k)] /\ t[l] = q[At(l)]
    BY <1>2, <1>5, <1>7
  <2> QED BY <1>4, <1>7, <2>1
<1>8. ASSUME NEW b \in Channels, NEW x \in Nat, T[b] < x, x <= last[b]
      PROVE  \E k \in J : Fresh(t[k]) /\ t[k].ch = b /\ t[k].abs = x
  <2>1. PICK i \in I : Fresh(q[i]) /\ q[i].ch = b /\ q[i].abs = x
    BY <1>4, <1>8
  <2> QED BY <1>3, <2>1
<1> HIDE DEF I
<1> QED BY <1>4, <1>6, <1>7, <1>8 DEF Pending

-----------------------------------------------------------------------------
(* A pass over the queue *)

\* The newest number sent is found by counting those that were not.
LEMMA NewestIs ==
    ASSUME NEW q \in Seq(Commands), NEW T, NEW last, last \in [Channels -> Nat],
           Pending(q, 0, T, last)
    PROVE  NewestSent(q, last) = T
<1> DEFINE I == 0 + 1 .. Len(q)
           D(c) == {i \in DOMAIN q : q[i].ch = c /\ Fresh(q[i])}
<1>1. /\ DOMAIN q = I /\ IsFiniteSet(I)
      /\ \A i \in I : q[i] \in Commands /\ i \in Nat
  <2>1. Len(q) \in Nat /\ DOMAIN q = 1 .. Len(q) /\ \A i \in 1 .. Len(q) : q[i] \in Commands
    OBVIOUS
  <2>2. IsFiniteSet(1 .. Len(q))
    BY <2>1, FS_Interval
  <2>3. 0 + 1 .. Len(q) = 1 .. Len(q)
    OBVIOUS
  <2> QED BY <2>1, <2>2, <2>3
<1>2. /\ T \in [Channels -> Nat] /\ \A b \in Channels : T[b] <= last[b]
      /\ \A i \in I : Fresh(q[i]) => T[q[i].ch] < q[i].abs /\ q[i].abs <= last[q[i].ch]
      /\ \A i, j \in I :
            i < j /\ Fresh(q[i]) /\ Fresh(q[j]) /\ q[i].ch = q[j].ch => q[i].abs < q[j].abs
      /\ \A b \in Channels, x \in Nat : T[b] < x /\ x <= last[b] =>
            \E i \in I : Fresh(q[i]) /\ q[i].ch = b /\ q[i].abs = x
  BY DEF Pending
<1> HIDE DEF I
<1>3. ASSUME NEW c \in Channels
      PROVE  last[c] - Cardinality(D(c)) = T[c]
  <2> DEFINE S == D(c)
             a == T[c] + 1
             R == a .. last[c]
             f == [i \in S |-> q[i].abs]
  <2>1. T[c] \in Nat /\ last[c] \in Nat /\ a \in Int /\ T[c] <= last[c] /\ a = T[c] + 1
    BY <1>2
  <2> HIDE DEF a
  <2>2. IsFiniteSet(R) /\ Cardinality(R) = IF a > last[c] THEN 0 ELSE last[c] - a + 1
    <3> DEFINE z == last[c]
    <3>1. a \in Int /\ z \in Int
      BY <2>1
    <3> HIDE DEF z
    <3>2. IsFiniteSet(a .. z) /\ Cardinality(a .. z) = IF a > z THEN 0 ELSE z - a + 1
      BY <3>1, FS_Interval
    <3> QED BY <3>2 DEF z
  <2>3. IsFiniteSet(S) /\ S \subseteq I
    <3>1. S \in SUBSET I
      BY <1>1
    <3> QED BY <1>1, <3>1, FS_Subset
  <2>4. \A i \in S : q[i].ch = c /\ Fresh(q[i]) /\ i \in I /\ q[i].abs \in Nat /\ i \in Nat
                     /\ f[i] = q[i].abs
    BY <1>1 DEF Commands
  <2>5. \A i \in S : q[i].abs \in R
    <3> HIDE DEF S
    <3> TAKE i \in S
    <3>1. T[c] < q[i].abs /\ q[i].abs <= last[c] /\ q[i].abs \in Nat
      BY <1>2, <2>4
    <3> QED BY <2>1, <3>1
  <2>6. f \in [S -> R]
    BY <2>5
  <2>7. \A x \in R : \E i \in S : f[i] = x
    <3> TAKE x \in R
    <3>1. x \in Nat /\ T[c] < x /\ x <= last[c]
      BY <2>1
    <3>2. PICK i \in I : Fresh(q[i]) /\ q[i].ch = c /\ q[i].abs = x
      BY <1>2, <3>1
    <3>3. i \in S
      BY <1>1, <3>2
    <3> QED BY <2>4, <3>2, <3>3
  <2> HIDE DEF S, R, f
  <2>8. ASSUME NEW i \in S, NEW j \in S, f[i] = f[j]
        PROVE  i = j
    <3>1. /\ i \in I /\ j \in I /\ q[i].abs = q[j].abs /\ q[i].ch = q[j].ch /\ i \in Nat /\ j \in Nat
          /\ Fresh(q[i]) /\ Fresh(q[j]) /\ q[i].abs \in Nat
      BY <2>4, <2>8
    <3>2. ~ (i < j)
      BY <1>2, <3>1
    <3>3. ~ (j < i)
      BY <1>2, <3>1
    <3> QED BY <3>1, <3>2, <3>3
  <2>9. Cardinality(S) = Cardinality(R)
    BY <2>3, <2>6, <2>7, <2>8, SameSize
  <2>10. Cardinality(S) = last[c] - T[c]
    BY <2>1, <2>2, <2>9
  <2> QED BY <2>1, <2>10 DEF S
<1>4. NewestSent(q, last) = [c \in Channels |-> last[c] - Cardinality(D(c))]
  BY DEF NewestSent
<1> HIDE DEF D
<1>5. NewestSent(q, last) = [c \in Channels |-> T[c]]
  BY <1>3, <1>4
<1> QED BY <1>2, <1>5

\* The commands waiting for an acknowledgement once n of the queue were sent.
OutAfter(s, q, n) == Out(s \o SentNow(q, n), Unsent(q, n))

\* Command m is sent: those of W wait instead of those of O.
AddsCommand(W, O, m, c) ==
    Awaited(W, c) = IF Fresh(m) /\ m.ch = c THEN Awaited(O, c) \cup {m.abs} ELSE Awaited(O, c)

\* What the next command of the queue adds.
LEMMA OutStep ==
    ASSUME NEW s, NEW q, Listed(s, q), NEW n \in 0 .. Len(q) - 1, NEW c
    PROVE  AddsCommand(OutAfter(s, q, n + 1), OutAfter(s, q, n), q[n + 1], c)
<1> DEFINE k == n + 1
           m == q[k]
           N(l) == {SentNow(q, l)[i] : i \in 1 .. l}
           new == [m EXCEPT !.attempted = TRUE]
           O == Out(s, q)
<1>1. /\ s \in Seq(Commands) /\ q \in Seq(Commands) /\ Len(q) \in Nat /\ n \in Nat
      /\ k \in 0 .. Len(q) /\ n \in 0 .. Len(q) /\ k \in 1 .. Len(q) /\ k \in 1 .. k
  BY DEF Listed
<1>2. Sends(SentNow(q, k), q, k) /\ Sends(SentNow(q, n), q, n)
  BY <1>1, NowSent
<1>3. OutAfter(s, q, k) = O \cup N(k) /\ OutAfter(s, q, n) = O \cup N(n)
  BY <1>1, SentLists DEF OutAfter
<1>4. \A i \in 1 .. n : SentNow(q, k)[i] = SentNow(q, n)[i]
  BY <1>1 DEF SentNow
<1>5. SentNow(q, k)[k] = new /\ new.ch = m.ch /\ new.abs = m.abs /\ (m.attempted => new = m)
  BY <1>1, <1>2 DEF Sends
<1>6. N(k) = N(n) \cup {new}
  <2>1. \A i \in 1 .. k : i \in 1 .. n \/ i = k
    BY <1>1
  <2>2. \A i \in 1 .. n : i \in 1 .. k
    BY <1>1
  <2> DEFINE f == SentNow(q, k)
             g == SentNow(q, n)
             A == 1 .. n
             B == 1 .. k
  <2>3. /\ \A i \in A : f[i] = g[i] /\ i \in B
        /\ \A i \in B : i \in A \/ i = k
        /\ f[k] = new /\ k \in B
        /\ N(k) = {f[i] : i \in B} /\ N(n) = {g[i] : i \in A}
    BY <1>1, <1>4, <1>5, <2>1, <2>2
  <2> HIDE DEF f, g, A, B, N, new, k
  <2> QED BY <2>3
<1>7. m.attempted => m \in O
  BY <1>1, RangeIs DEF Out
<1> HIDE DEF m, k, N, new, O
<1>8. CASE m.attempted
  <2>1. OutAfter(s, q, k) = OutAfter(s, q, n)
    BY <1>3, <1>5, <1>6, <1>7, <1>8
  <2> QED BY <1>8, <2>1 DEF Fresh, AddsCommand, m, k
<1>9. CASE ~ m.attempted /\ m.ch = c
  <2>1. OutAfter(s, q, k) = OutAfter(s, q, n) \cup {new} /\ new.ch = c /\ new.abs = m.abs
    BY <1>3, <1>5, <1>6, <1>9
  <2>2. Awaited(OutAfter(s, q, k), c) = Awaited(OutAfter(s, q, n), c) \cup {m.abs}
    BY <2>1 DEF Awaited
  <2> QED BY <1>9, <2>2 DEF Fresh, AddsCommand, m, k
<1>10. CASE ~ m.attempted /\ m.ch # c
  <2>1. OutAfter(s, q, k) = OutAfter(s, q, n) \cup {new} /\ new.ch # c
    BY <1>3, <1>5, <1>6, <1>10
  <2>2. Awaited(OutAfter(s, q, k), c) = Awaited(OutAfter(s, q, n), c)
    BY <2>1 DEF Awaited
  <2> QED BY <1>10, <2>2 DEF Fresh, AddsCommand, m, k
<1> QED BY <1>8, <1>9, <1>10

\* The windows of all channels.
Reaching(O, S, L, T) == \A c \in Channels : Reach(Awaited(O, c), S[c], L[c], T[c])

\* n commands of the queue were sent, from T to U.
Progress(s, q, n, S, L, T, U, last) ==
    /\ Pending(q, n, U, last)
    /\ Reaching(OutAfter(s, q, n), S, L, U)
    /\ \A c \in Channels : T[c] <= U[c]
    /\ \A c \in Channels, x \in Nat : T[c] < x /\ x <= U[c] => x \in Awaited(OutAfter(s, q, n), c)

\* One more command is sent.
LEMMA ProgressStep ==
    ASSUME NEW s, NEW q, Listed(s, q), NEW n \in 0 .. Len(q) - 1, NEW S, NEW L, NEW T, NEW U,
           NEW last, last \in [Channels -> Nat], T \in [Channels -> Nat],
           reliableWindows \in WindowCounters, Counted(Out(s, q), reliableWindows),
           ~ WindowBlocks(CountedWindows(q, n), q[n + 1]), Progress(s, q, n, S, L, T, U, last)
    PROVE  \E V : Progress(s, q, n + 1, S, L, T, V, last)
<1> DEFINE m == q[n + 1]
           b == m.ch
           O == OutAfter(s, q, n)
           W == OutAfter(s, q, n + 1)
<1>1. /\ s \in Seq(Commands) /\ q \in Seq(Commands) /\ Len(q) \in Nat /\ n \in Nat
      /\ n \in 0 .. Len(q) /\ n + 1 \in 1 .. Len(q)
  BY DEF Listed
<1>2. m \in Commands /\ b \in Channels /\ m.abs \in Nat
  <2>1. m \in Commands
    BY <1>1
  <2> HIDE DEF m
  <2> QED BY <2>1 DEF Commands
<1>3. /\ Pending(q, n, U, last) /\ Reaching(O, S, L, U)
      /\ \A c \in Channels : T[c] <= U[c]
      /\ \A c \in Channels, x \in Nat : T[c] < x /\ x <= U[c] => x \in Awaited(O, c)
      /\ U \in [Channels -> Nat]
  BY DEF Progress, Pending
<1>4. \A c : Awaited(W, c) = IF Fresh(m) /\ m.ch = c THEN Awaited(O, c) \cup {m.abs}
                                                     ELSE Awaited(O, c)
  <2> TAKE c
  <2>1. AddsCommand(W, O, m, c)
    BY OutStep, Zenon
  <2> QED BY <2>1 DEF AddsCommand
<1>5. CASE ~ Fresh(m)
  <2>1. Pending(q, n + 1, U, last)
    BY <1>1, <1>3, <1>5, PendingRepeated
  <2> HIDE DEF m, O, W
  <2>2. \A c : Awaited(W, c) = Awaited(O, c)
    BY <1>4, <1>5
  <2>3. Reaching(W, S, L, U)
    BY <1>3, <2>2 DEF Reaching
  <2>4. \A c \in Channels, x \in Nat : T[c] < x /\ x <= U[c] => x \in Awaited(W, c)
    BY <1>3, <2>2
  <2>5. Progress(s, q, n + 1, S, L, T, U, last)
    BY <1>3, <2>1, <2>3, <2>4 DEF Progress, W
  <2> QED BY <2>5
<1>6. CASE Fresh(m)
  <2> DEFINE V == Advanced(U, b)
  <2>1. m.abs = U[b] + 1 /\ Pending(q, n + 1, V, last)
    BY <1>1, <1>3, <1>6, PendingSent
  <2>2. V \in [Channels -> Nat] /\ \A c \in Channels : V[c] = IF c = b THEN U[c] + 1 ELSE U[c]
    BY <1>2, <1>3 DEF Advanced
  <2>3. /\ CountedWindows(q, n) \in WindowCounters /\ Counted(O, CountedWindows(q, n))
        /\ Listed(s \o SentNow(q, n), Unsent(q, n))
    BY <1>1, SentCounted, SentLists DEF OutAfter
  <2>4. IsFiniteSet(O) /\ O \subseteq Commands
    BY <2>3, OutFinite DEF OutAfter
  <2>5. m.abs > 0 /\ U[b] \in Nat
    BY <1>2, <1>3, <2>1
  <2> DEFINE win == CountedWindows(q, n)
  <2>6. win \in WindowCounters /\ Counted(O, win) /\ ~ WindowBlocks(win, m)
    BY <2>3
  <2> HIDE DEF win, O, W, m, b, V
  <2>7. FreeFor(Awaited(O, m.ch), m.abs)
    BY <1>2, <1>6, <2>4, <2>5, <2>6, FreeIs
  <2>8. ASSUME NEW c \in Channels
        PROVE  Reach(Awaited(W, c), S[c], L[c], V[c])
    <3>1. Reach(Awaited(O, c), S[c], L[c], U[c])
      BY <1>3 DEF Reaching
    <3>2. CASE c = b
      <4>1. FreeFor(Awaited(O, c), U[c] + 1) /\ V[c] = U[c] + 1
            /\ Awaited(W, c) = Awaited(O, c) \cup {U[c] + 1}
        BY <1>4, <1>6, <2>1, <2>2, <2>7, <3>2 DEF b
      <4>2. Reach(Awaited(O, c) \cup {U[c] + 1}, S[c], L[c], U[c] + 1)
        BY <3>1, <4>1, ReachGrows
      <4> QED BY <4>1, <4>2
    <3>3. CASE c # b
      <4>1. V[c] = U[c] /\ Awaited(W, c) = Awaited(O, c)
        BY <1>4, <2>2, <3>3 DEF b
      <4> QED BY <3>1, <4>1
    <3> QED BY <3>2, <3>3
  <2>9. ASSUME NEW c \in Channels
        PROVE  /\ T[c] <= V[c]
               /\ \A x \in Nat : T[c] < x /\ x <= V[c] => x \in Awaited(W, c)
    <3>1. T[c] \in Nat /\ U[c] \in Nat /\ T[c] <= U[c]
          /\ V[c] = IF c = b THEN U[c] + 1 ELSE U[c]
      BY <1>3, <2>2
    <3>2. ASSUME NEW x \in Nat, T[c] < x, x <= V[c]
          PROVE  x \in Awaited(W, c)
      <4>1. CASE x <= U[c]
        <5>1. x \in Awaited(O, c)
          BY <1>3, <3>2, <4>1
        <5> QED BY <1>4, <5>1
      <4>2. CASE ~ (x <= U[c])
        <5>1. c = b /\ x = m.abs
          BY <2>1, <3>1, <3>2, <4>2
        <5> QED BY <1>4, <1>6, <5>1 DEF b
      <4> QED BY <4>1, <4>2
    <3> QED BY <3>1, <3>2
  <2>10. Progress(s, q, n + 1, S, L, T, V, last)
    BY <2>1, <2>8, <2>9 DEF Progress, Reaching, W
  <2> QED BY <2>10
<1> QED BY <1>5, <1>6

\* A pass sends as much as the windows let it.
LEMMA ProgressAll ==
    ASSUME NEW s, NEW q, Listed(s, q), NEW n \in 0 .. Len(q), NEW S, NEW L, NEW T,
           NEW last, last \in [Channels -> Nat],
           reliableWindows \in WindowCounters, Counted(Out(s, q), reliableWindows),
           \A i \in 1 .. n : ~ WindowBlocks(CountedWindows(q, i - 1), q[i]),
           Pending(q, 0, T, last), Reaching(Out(s, q), S, L, T)
    PROVE  \E U : Progress(s, q, n, S, L, T, U, last)
<1> DEFINE G == {i \in 0 .. n : \E U : Progress(s, q, i, S, L, T, U, last)}
<1>1. Len(q) \in Nat /\ n \in Nat /\ 0 \in 0 .. Len(q) /\ T \in [Channels -> Nat]
  BY DEF Listed, Pending
<1>2. OutAfter(s, q, 0) = Out(s, q)
  <2>1. PICK z \in 0 .. Len(q) : z = 0
    BY <1>1
  <2>2. OutAfter(s, q, z) = Out(s, q) \cup {SentNow(q, z)[i] : i \in 1 .. z}
    BY SentLists DEF OutAfter
  <2>3. 1 .. z = {}
    BY <2>1
  <2> QED BY <2>1, <2>2, <2>3
<1>3. 0 \in G
  <2>1. \A c \in Channels : T[c] \in Nat /\ T[c] <= T[c]
    BY <1>1
  <2>2. \A c \in Channels, x \in Nat : T[c] < x /\ x <= T[c] => x \in Awaited(OutAfter(s, q, 0), c)
    BY <2>1
  <2>3. Progress(s, q, 0, S, L, T, T, last)
    BY <1>2, <2>1, <2>2 DEF Progress
  <2> QED BY <1>1, <2>3
<1>4. ASSUME NEW i \in 1 .. n, i - 1 \in G
      PROVE  i \in G
  <2> DEFINE k == i - 1
  <2>1. k \in 0 .. Len(q) - 1 /\ i = k + 1 /\ i \in 0 .. n
    BY <1>1
  <2>2. PICK U : Progress(s, q, k, S, L, T, U, last)
    BY <1>4
  <2>3. ~ WindowBlocks(CountedWindows(q, k), q[k + 1])
    BY <2>1
  <2> HIDE DEF k
  <2>4. \E V : Progress(s, q, k + 1, S, L, T, V, last)
    BY <1>1, <2>1, <2>2, <2>3, ProgressStep
  <2> QED BY <2>1, <2>4
<1> HIDE DEF G
<1>5. 0 .. n \subseteq G
  BY <1>1, <1>3, <1>4, Induct
<1>6. n \in G
  BY <1>1, <1>5
<1> QED BY <1>6 DEF G

-----------------------------------------------------------------------------
(* The numbers of the packets *)

\* e[p] is the number of the last command of packet p of a channel on which sub
\* packets were submitted.
Laid(e, sub) ==
    /\ e \in [Nat -> Nat] /\ e[0] = StartAt /\ sub \in Nat
    /\ \A p, r \in 0 .. sub : p < r => e[p] < e[r]
    /\ \A p \in 1 .. sub : e[p] - e[p - 1] \in FragmentCounts

\* The layout of every channel.
Layout(E, sub, last) ==
    \A c \in Channels : Laid(E[c], sub[c]) /\ E[c][sub[c]] = last[c]

\* Command m is one of the fragments of its packet.
Belongs(m, E, sub) ==
    /\ m.pkt \in 1 .. sub[m.ch]
    /\ m.count = E[m.ch][m.pkt] - E[m.ch][m.pkt - 1]
    /\ m.frag \in 0 .. m.count - 1
    /\ m.abs = E[m.ch][m.pkt - 1] + 1 + m.frag

\* The first number of packet r.
FirstOf(e, r) == e[r - 1] + 1

\* The numbers are in the order of the packets.
LEMMA LaidIs ==
    ASSUME NEW e, NEW sub, Laid(e, sub)
    PROVE  /\ sub \in Nat /\ \A p \in Nat : e[p] \in Nat
           /\ \A p, r \in 0 .. sub : p <= r => e[p] <= e[r]
           /\ \A p, r \in 0 .. sub : e[p] < e[r] => p < r
           /\ \A r \in 1 .. sub : /\ r - 1 \in 0 .. sub /\ r \in 0 .. sub
                                  /\ FirstOf(e, r) \in Nat /\ FirstOf(e, r) <= e[r]
                                  /\ e[r - 1] < FirstOf(e, r) /\ StartAt < FirstOf(e, r)
           /\ \A p \in 0 .. sub : StartAt <= e[p]
<1>1. /\ e \in [Nat -> Nat] /\ e[0] = StartAt /\ sub \in Nat
      /\ \A p, r \in 0 .. sub : p < r => e[p] < e[r]
  BY DEF Laid
<1>2. \A p \in 0 .. sub : p \in Nat /\ e[p] \in Nat
  BY <1>1
<1>3. ASSUME NEW p \in 0 .. sub, NEW r \in 0 .. sub, p <= r
      PROVE  e[p] <= e[r]
  <2>1. p < r \/ p = r
    BY <1>2, <1>3
  <2> QED BY <1>1, <1>2, <2>1
<1>4. ASSUME NEW p \in 0 .. sub, NEW r \in 0 .. sub, e[p] < e[r]
      PROVE  p < r
  <2> SUFFICES ASSUME ~ (p < r) PROVE FALSE
    OBVIOUS
  <2>1. r <= p
    BY <1>2
  <2> QED BY <1>2, <1>3, <1>4, <2>1
<1>5. ASSUME NEW p \in 0 .. sub
      PROVE  StartAt <= e[p]
  <2>1. PICK z \in 0 .. sub : z = 0
    BY <1>1
  <2>2. z <= p
    BY <1>2, <2>1
  <2> QED BY <1>1, <1>3, <2>1, <2>2
<1>6. ASSUME NEW r \in 1 .. sub
      PROVE  /\ r - 1 \in 0 .. sub /\ r \in 0 .. sub
             /\ FirstOf(e, r) \in Nat /\ FirstOf(e, r) <= e[r]
             /\ e[r - 1] < FirstOf(e, r) /\ StartAt < FirstOf(e, r)
  <2>1. r - 1 \in 0 .. sub /\ r \in 0 .. sub /\ r - 1 < r
    BY <1>1
  <2>2. e[r - 1] < e[r] /\ e[r - 1] \in Nat /\ e[r] \in Nat /\ StartAt <= e[r - 1]
    BY <1>1, <1>2, <1>5, <2>1
  <2> QED BY <2>1, <2>2, ConstantsAre DEF FirstOf
<1> QED BY <1>1, <1>3, <1>4, <1>5, <1>6

\* A packet takes as many numbers as it has fragments.
LEMMA BelongsIs ==
    ASSUME NEW m \in Commands, NEW E, NEW sub, Laid(E[m.ch], sub[m.ch]), Belongs(m, E, sub)
    PROVE  /\ m.ch \in Channels /\ m.pkt \in Nat /\ m.pkt \in 1 .. sub[m.ch]
           /\ m.abs = FirstOf(E[m.ch], m.pkt) + m.frag
           /\ m.count \in FragmentCounts /\ m.count \in Nat /\ m.count >= 1
           /\ m.frag \in Nat /\ m.frag < m.count /\ m.abs \in Nat
           /\ E[m.ch][m.pkt] = FirstOf(E[m.ch], m.pkt) + m.count - 1
           /\ m.abs <= E[m.ch][m.pkt]
           /\ m.abs - m.frag = FirstOf(E[m.ch], m.pkt) /\ FirstOf(E[m.ch], m.pkt) \in Nat
<1> DEFINE e == E[m.ch]
           n == sub[m.ch]
<1>1. /\ m.ch \in Channels /\ m.pkt \in Nat /\ m.frag \in Nat /\ m.count \in Nat /\ m.abs \in Nat
  BY DEF Commands
<1>2. /\ m.pkt \in 1 .. n /\ m.count = e[m.pkt] - e[m.pkt - 1] /\ m.frag \in 0 .. m.count - 1
      /\ m.abs = e[m.pkt - 1] + 1 + m.frag
  BY DEF Belongs
<1>3. /\ n \in Nat /\ m.count \in FragmentCounts
  BY <1>2 DEF Laid
<1>4. Laid(e, n)
  OBVIOUS
<1> HIDE DEF e, n
<1>5. /\ \A p \in Nat : e[p] \in Nat
      /\ FirstOf(e, m.pkt) \in Nat /\ e[m.pkt - 1] < FirstOf(e, m.pkt)
  BY <1>2, <1>4, LaidIs
<1>6. e[m.pkt] \in Nat /\ m.pkt - 1 \in Nat /\ e[m.pkt - 1] \in Nat
  BY <1>1, <1>2, <1>3, <1>5
<1>7. FirstOf(e, m.pkt) = e[m.pkt - 1] + 1
  BY DEF FirstOf
<1>8. m.frag < m.count /\ m.count >= 1
  BY <1>1, <1>2
<1>9. e[m.pkt] = FirstOf(e, m.pkt) + m.count - 1 /\ m.abs = FirstOf(e, m.pkt) + m.frag
  BY <1>1, <1>2, <1>6, <1>7
<1>10. m.abs <= e[m.pkt] /\ m.abs - m.frag = FirstOf(e, m.pkt)
  BY <1>1, <1>5, <1>6, <1>8, <1>9
<1> QED BY <1>1, <1>2, <1>3, <1>5, <1>8, <1>9, <1>10 DEF e, n

\* A number belongs to one fragment of one packet.
LEMMA OneFragment ==
    ASSUME NEW e, NEW sub, Laid(e, sub), NEW p \in 1 .. sub, NEW r \in 1 .. sub,
           NEW f \in Nat, NEW g \in Nat, f < e[p] - e[p - 1], g < e[r] - e[r - 1],
           FirstOf(e, p) + f = FirstOf(e, r) + g
    PROVE  p = r /\ f = g
<1>1. /\ p \in Nat /\ r \in Nat /\ p - 1 \in Nat /\ r - 1 \in Nat /\ sub \in Nat
      /\ p - 1 \in 0 .. sub /\ r - 1 \in 0 .. sub /\ p \in 0 .. sub /\ r \in 0 .. sub
  BY DEF Laid
<1>2. e[p] \in Nat /\ e[r] \in Nat /\ e[p - 1] \in Nat /\ e[r - 1] \in Nat
  BY <1>1, LaidIs
<1>3. e[p - 1] + 1 + f = e[r - 1] + 1 + g
  BY DEF FirstOf
<1>4. e[p - 1] < e[r] /\ e[r - 1] < e[p]
  BY <1>2, <1>3
<1>5. p - 1 < r /\ r - 1 < p
  BY <1>1, <1>4, LaidIs
<1>6. p = r
  BY <1>1, <1>5
<1> QED BY <1>2, <1>3, <1>6

-----------------------------------------------------------------------------
(* The receiving peer *)

\* The packet that entry comes from.
PacketOf(entry) == CHOOSE r : entry.src = {r}

\* The packet of an entry whose data come from one packet.
LEMMA PacketIs ==
    ASSUME NEW entry, NEW r, entry.src = {r}
    PROVE  PacketOf(entry) = r
<1>1. entry.src = {PacketOf(entry)}
  BY DEF PacketOf
<1> QED BY <1>1

\* What has arrived of a channel whose packets up to p were dispatched.
SettledIn(queue, e, p) ==
    {x \in Nat :
        /\ \/ x <= e[p]
           \/ \E i \in 1 .. Len(queue) : \E f \in queue[i].got :
                 x = FirstOf(e, PacketOf(queue[i])) + f
        /\ Window(x) + 2 <= Window(e[p]) + FreeWindows}

\* Some fragments of packet r have arrived.
HoldsPacket(entry, r, e, p, sub, T) ==
    /\ r \in Nat /\ p < r /\ r <= sub
    /\ entry.src = {r} /\ entry.count = e[r] - e[r - 1]
    /\ entry.seq = FirstOf(e, r) % SeqSpace
    /\ entry.got \subseteq 0 .. entry.count - 1 /\ entry.got # {}
    /\ \A f \in entry.got : FirstOf(e, r) + f <= T
    /\ Window(FirstOf(e, r)) + 2 <= Window(e[p]) + FreeWindows

\* The packets behind a gap, in their order.
Waits(queue, e, p, sub, T) ==
    /\ queue \in Seq(Entries)
    /\ \A i \in 1 .. Len(queue) : HoldsPacket(queue[i], PacketOf(queue[i]), e, p, sub, T)
    /\ \A i, j \in 1 .. Len(queue) : i < j => PacketOf(queue[i]) < PacketOf(queue[j])

\* The packets n + 1 to p of channel c wait for the application.
PassedOn(d, c, n, p) ==
    /\ n \in Nat /\ p \in Nat /\ n <= p
    /\ \A i \in 1 .. Len(d) : d[i].ch = c =>
          /\ PacketOf(d[i]) \in Nat /\ n < PacketOf(d[i]) /\ PacketOf(d[i]) <= p
          /\ d[i].src = {PacketOf(d[i])}
    /\ \A i, j \in 1 .. Len(d) :
          i < j /\ d[i].ch = c /\ d[j].ch = c => PacketOf(d[i]) < PacketOf(d[j])
    /\ \A x \in Nat : n < x /\ x <= p => \E i \in 1 .. Len(d) : d[i].ch = c /\ PacketOf(d[i]) = x

-----------------------------------------------------------------------------
(* The inductive invariant of the numbers.  E[c] lays out the packets of       *)
(* channel c, P[c] is the last packet dispatched and T[c] the newest number    *)
(* sent; S[c] are the numbers that have arrived and L[c] the last dispatched.  *)

\* What is queued and in flight.
Flight(s, q, last, S, L, T) == Pending(q, 0, T, last) /\ Reaching(Out(s, q), S, L, T)

\* A datagram does not outlive Lifetime newer commands.
Young(messages, T) == \A m \in messages : m.abs <= T[m.ch] /\ T[m.ch] < m.abs + Lifetime

\* What is acknowledged has arrived, and its number was not given away again.
Known(received, S, T) ==
    \A a \in received : /\ StartAt < a.abs /\ a.abs <= T[a.ch] /\ T[a.ch] < a.abs + SeqSpace
                        /\ a.abs \in S[a.ch]

\* So has what will be acknowledged; what is newer than its datagram waits.
Owed(waiting, received, O, S, T) ==
    \A a \in waiting :
        /\ StartAt < a.abs /\ a.abs <= T[a.ch] /\ a.abs \in S[a.ch]
        /\ \E t \in Nat :
              /\ t < a.abs + Lifetime
              /\ \A x \in Nat : t < x /\ x <= T[a.ch] =>
                    x \in Awaited(O, a.ch) /\ \A b \in received : b.ch = a.ch => b.abs # x

\* One channel of the receiving peer.
Receiving(seq, queue, d, del, c, e, p, sub, T) ==
    /\ p \in Nat /\ p <= sub /\ seq = e[p] % SeqSpace
    /\ Waits(queue, e, p, sub, T)
    /\ PassedOn(d, c, Len(del), p)
    /\ \A k \in 1 .. Len(del) : del[k] = {k}

\* What has settled, and the last number dispatched, on every channel.
SettledOn(incoming, E, P) == [c \in Channels |-> SettledIn(incoming[c], E[c], P[c])]
LastOn(E, P) == [c \in Channels |-> E[c][P[c]]]

\* The numbers of the sending peer and of the network.
SenderNumbers(S, L, T) ==
    /\ Flight(sentReliableCommands, outgoingSendReliableCommands, lastQueued, S, L, T)
    /\ Young(data, T) /\ Known(acks, S, T)
    /\ Owed(acknowledgements, acks, Out(sentReliableCommands, outgoingSendReliableCommands), S, T)

\* The numbers of the packets submitted and of their fragments.
PacketNumbers(E) ==
    /\ Layout(E, submitted, lastQueued)
    /\ \A m \in Range(sentReliableCommands) \cup Range(outgoingSendReliableCommands) \cup data :
          Belongs(m, E, submitted)

\* The numbers of the receiving peer.
ReceiverNumbers(E, P, T) ==
    \A c \in Channels :
        Receiving(incomingReliableSequenceNumber[c], incomingReliableCommands[c],
                  dispatchedCommands, delivered[c], c, E[c], P[c], submitted[c], T[c])

\* All of it, for the layouts E, the packets P dispatched and the newest numbers T sent.
NumbersSound(E, P, T) ==
    /\ PacketNumbers(E)
    /\ SenderNumbers(SettledOn(incomingReliableCommands, E, P), LastOn(E, P), T)
    /\ ReceiverNumbers(E, P, T)

\* The inductive invariant of the sequence numbers.
NInv == CInv /\ \E E, P, T : NumbersSound(E, P, T)

-----------------------------------------------------------------------------
(* The sending peer's steps *)

\* Pending, over the numbered commands of the list.
LEMMA PendingIs ==
    ASSUME NEW q, NEW n, NEW J, J = n + 1 .. Len(q), NEW T \in [Channels -> Nat], NEW last,
           \A c \in Channels : T[c] <= last[c],
           \A i \in J : Fresh(q[i]) => T[q[i].ch] < q[i].abs /\ q[i].abs <= last[q[i].ch],
           \A i, j \in J :
              i < j /\ Fresh(q[i]) /\ Fresh(q[j]) /\ q[i].ch = q[j].ch => q[i].abs < q[j].abs,
           \A c \in Channels, x \in Nat : T[c] < x /\ x <= last[c] =>
              \E i \in J : Fresh(q[i]) /\ q[i].ch = c /\ q[i].abs = x
    PROVE  Pending(q, n, T, last)
BY DEF Pending

\* A new packet is queued behind everything else.
LEMMA PendingAdded ==
    ASSUME NEW q \in Seq(Commands), NEW T, NEW last \in [Channels -> Nat], Pending(q, 0, T, last),
           NEW c \in Channels, NEW n \in Nat \ {0}, NEW t \in Seq(Commands), Len(t) = n,
           \A i \in 1 .. n : t[i].ch = c /\ t[i].abs = last[c] + i /\ Fresh(t[i])
    PROVE  Pending(q \o t, 0, T, [last EXCEPT ![c] = @ + n])
<1> DEFINE u == q \o t
           l == Len(q)
           I == 0 + 1 .. Len(q)
           J == 0 + 1 .. Len(u)
           new == [last EXCEPT ![c] = @ + n]
<1>1. Joined(u, q, t, Commands)
  BY JoinedIs
<1>2. l \in Nat /\ n \in Nat /\ Len(u) \in Nat /\ Len(u) = l + n /\ u \in Seq(Commands)
  BY <1>1 DEF Joined
<1> HIDE DEF u
<1>3. \A j \in J : \/ j \in I /\ u[j] = q[j]
                   \/ j - l \in 1 .. n /\ l < j /\ u[j] = t[j - l]
  <2> TAKE j \in J
  <2>1. j \in 1 .. Len(u)
    BY <1>2
  <2>2. CASE j \in 1 .. Len(q)
    <3>1. u[j] = q[j]
      BY <1>1, <2>2 DEF Joined
    <3> QED BY <1>2, <2>2, <3>1
  <2>3. CASE j \notin 1 .. Len(q)
    <3>1. u[j] = t[j - l] /\ j - l \in 1 .. Len(t)
      BY <1>1, <2>1, <2>3 DEF Joined
    <3> QED BY <1>2, <2>1, <2>3, <3>1
  <2> QED BY <2>2, <2>3
<1>4. /\ \A i \in I : i \in J /\ u[i] = q[i] /\ i <= l /\ i \in Nat
      /\ \A i \in 1 .. n : l + i \in J /\ u[l + i] = t[i]
  <2>1. ASSUME NEW i \in I
        PROVE  i \in J /\ u[i] = q[i] /\ i <= l /\ i \in Nat
    <3>1. i \in 1 .. Len(q)
      BY <1>2
    <3>2. u[i] = q[i]
      BY <1>1, <3>1 DEF Joined
    <3> QED BY <1>2, <3>2
  <2>2. ASSUME NEW i \in 1 .. n
        PROVE  l + i \in J /\ u[l + i] = t[i]
    <3>1. u[l + i] = t[i]
      BY <1>1 DEF Joined
    <3> QED BY <1>2, <3>1
  <2> QED BY <2>1, <2>2
<1>5. /\ T \in [Channels -> Nat] /\ \A b \in Channels : T[b] <= last[b]
      /\ \A i \in I : Fresh(q[i]) => T[q[i].ch] < q[i].abs /\ q[i].abs <= last[q[i].ch]
      /\ \A i, j \in I :
            i < j /\ Fresh(q[i]) /\ Fresh(q[j]) /\ q[i].ch = q[j].ch => q[i].abs < q[j].abs
      /\ \A b \in Channels, x \in Nat : T[b] < x /\ x <= last[b] =>
            \E i \in I : Fresh(q[i]) /\ q[i].ch = b /\ q[i].abs = x
  BY DEF Pending
<1>6. /\ new \in [Channels -> Nat] /\ new[c] = last[c] + n /\ last[c] \in Nat
      /\ \A b \in Channels : last[b] <= new[b] /\ (b # c => new[b] = last[b])
  BY <1>2
<1>7. \A i \in I : q[i] \in Commands /\ q[i].ch \in Channels /\ q[i].abs \in Nat
  <2> TAKE i \in I
  <2>1. i \in 1 .. Len(q)
    BY <1>2
  <2>2. q[i] \in Commands
    BY <2>1
  <2> QED BY <2>2 DEF Commands
<1>8. \A j \in J : j \in Int
  BY <1>2
<1> HIDE DEF I, J, new, l
<1>9. \A b \in Channels : T[b] <= new[b]
  BY <1>5, <1>6
<1>10. ASSUME NEW j \in J, Fresh(u[j])
       PROVE  T[u[j].ch] < u[j].abs /\ u[j].abs <= new[u[j].ch]
  <2>1. CASE j \in I /\ u[j] = q[j]
    <3>1. /\ q[j].ch \in Channels /\ q[j].abs \in Nat
          /\ T[q[j].ch] < q[j].abs /\ q[j].abs <= last[q[j].ch]
      BY <1>5, <1>7, <1>10, <2>1
    <3>2. last[q[j].ch] <= new[q[j].ch] /\ last[q[j].ch] \in Nat /\ new[q[j].ch] \in Nat
      BY <1>6, <3>1
    <3> QED BY <2>1, <3>1, <3>2
  <2>2. CASE j - l \in 1 .. n /\ u[j] = t[j - l]
    <3> DEFINE i == j - l
    <3>1. i \in 1 .. n /\ t[i].ch = c /\ t[i].abs = last[c] + i /\ u[j] = t[i]
      BY <2>2
    <3> HIDE DEF i
    <3>2. T[c] \in Nat /\ T[c] <= last[c]
      BY <1>5
    <3> QED BY <1>2, <1>6, <3>1, <3>2
  <2> QED BY <1>3, <2>1, <2>2
<1>11. ASSUME NEW j \in J, NEW k \in J, j < k, Fresh(u[j]), Fresh(u[k]), u[j].ch = u[k].ch
       PROVE  u[j].abs < u[k].abs
  <2>1. CASE j \in I /\ u[j] = q[j] /\ k \in I /\ u[k] = q[k]
    BY <1>5, <1>11, <2>1
  <2>2. CASE j \in I /\ u[j] = q[j] /\ k - l \in 1 .. n /\ u[k] = t[k - l]
    <3> DEFINE i == k - l
    <3>1. i \in 1 .. n /\ t[i].ch = c /\ t[i].abs = last[c] + i /\ u[k] = t[i]
      BY <2>2
    <3> HIDE DEF i
    <3>2. j \in I /\ Fresh(q[j]) /\ q[j].ch = c
      BY <1>11, <2>2, <3>1
    <3>3. q[j].abs \in Nat
      BY <1>7, <3>2
    <3>4. q[j].abs <= last[c]
      <4>1. \A m \in I : Fresh(q[m]) => q[m].abs <= last[q[m].ch]
        BY <1>5
      <4> QED BY <4>1, <3>2
    <3>5. i \in Nat \ {0} /\ last[c] \in Nat
      BY <1>2, <1>6, <3>1
    <3>6. q[j].abs < last[c] + i
      BY <3>3, <3>4, <3>5
    <3> QED BY <2>2, <3>1, <3>6
  <2>3. CASE j - l \in 1 .. n /\ u[j] = t[j - l] /\ k - l \in 1 .. n /\ u[k] = t[k - l]
    <3> DEFINE i == j - l
               h == k - l
    <3>1. /\ i \in 1 .. n /\ t[i].abs = last[c] + i /\ u[j] = t[i]
          /\ h \in 1 .. n /\ t[h].abs = last[c] + h /\ u[k] = t[h]
      BY <2>3
    <3>2. l \in Int /\ j \in Int /\ k \in Int /\ j < k
      BY <1>2, <1>8, <1>11 DEF l
    <3>3. i < h
      BY <3>2
    <3> HIDE DEF i, h
    <3> QED BY <1>2, <1>6, <3>1, <3>3
  <2>4. CASE j - l \in 1 .. n /\ l < j /\ k \in I
    <3>1. k <= l /\ l \in Int /\ j \in Int /\ k \in Int
      BY <1>2, <1>4, <1>8, <2>4 DEF l
    <3>2. l < j /\ j < k
      BY <1>11, <2>4
    <3> QED BY <3>1, <3>2
  <2> QED BY <1>3, <2>1, <2>2, <2>3, <2>4
<1>12. ASSUME NEW b \in Channels, NEW x \in Nat, T[b] < x, x <= new[b]
       PROVE  \E j \in J : Fresh(u[j]) /\ u[j].ch = b /\ u[j].abs = x
  <2>1. CASE x <= last[b]
    <3>1. PICK i \in I : Fresh(q[i]) /\ q[i].ch = b /\ q[i].abs = x
      BY <1>5, <1>12, <2>1
    <3> QED BY <1>4, <3>1
  <2>2. CASE ~ (x <= last[b])
    <3>1. b = c
      BY <1>6, <1>12, <2>2
    <3> DEFINE i == x - last[c]
    <3>2. i \in 1 .. n /\ last[c] + i = x
      BY <1>2, <1>6, <1>12, <2>2, <3>1
    <3> HIDE DEF i
    <3>3. t[i].ch = c /\ t[i].abs = x /\ Fresh(t[i]) /\ l + i \in J /\ u[l + i] = t[i]
      BY <1>4, <3>2
    <3> QED BY <3>1, <3>3
  <2> QED BY <2>1, <2>2
<1>13. Pending(u, 0, T, new)
  <2>1. J = 0 + 1 .. Len(u)
    BY DEF J
  <2>2. T \in [Channels -> Nat]
    BY <1>5
  <2>3. \A i \in J : Fresh(u[i]) => T[u[i].ch] < u[i].abs /\ u[i].abs <= new[u[i].ch]
    BY <1>10
  <2>4. \A i, j \in J :
           i < j /\ Fresh(u[i]) /\ Fresh(u[j]) /\ u[i].ch = u[j].ch => u[i].abs < u[j].abs
    BY <1>11
  <2>5. \A b \in Channels, x \in Nat : T[b] < x /\ x <= new[b] =>
           \E i \in J : Fresh(u[i]) /\ u[i].ch = b /\ u[i].abs = x
    BY <1>12
  <2> HIDE DEF u, J, new
  <2>6. \A m : J = m + 1 .. Len(u) => Pending(u, m, T, new)
    BY <2>2, <2>3, <2>4, <2>5, <1>9, PendingIs
  <2> QED BY <2>1, <2>6
<1> QED BY <1>13 DEF u, new

\* The fragments that enet_peer_send queues.
Fragments(t, c, n, last, p) ==
    /\ t \in Seq(Commands) /\ Len(t) = n
    /\ \A i \in 1 .. n : /\ t[i].ch = c /\ t[i].abs = last + i /\ t[i].frag = i - 1
                         /\ t[i].count = n /\ t[i].pkt = p /\ Fresh(t[i])

\* What enet_peer_send does to both lists.
Submits(c, n, t) ==
    /\ Fragments(t, c, n, lastQueued[c], submitted[c] + 1)
    /\ submitted' = [submitted EXCEPT ![c] = @ + 1]
    /\ lastQueued' = [lastQueued EXCEPT ![c] = @ + n]
    /\ outgoingSendReliableCommands' = outgoingSendReliableCommands \o t
    /\ UNCHANGED <<reliableWindows, sentReliableCommands, reliableDataInTransit,
                   data, acks, receiverVars>>
    /\ Range(outgoingSendReliableCommands \o t) = Range(outgoingSendReliableCommands) \cup Range(t)
    /\ Out(sentReliableCommands, outgoingSendReliableCommands \o t)
         = Out(sentReliableCommands, outgoingSendReliableCommands)

\* enet_peer_send appends the fragments of one packet.
LEMMA SendDoes ==
    ASSUME SenderSound, NEW c \in Channels, NEW n \in FragmentCounts, Send(c, n)
    PROVE  \E t : Submits(c, n, t)
<1> DEFINE s == sentReliableCommands
           q == outgoingSendReliableCommands
           t == [i \in 1 .. n |-> Command(c, lastQueued[c] + i, i - 1, n, submitted[c] + 1)]
<1>1. Listed(s, q) /\ \A m \in Range(s) \cup Range(q) : m.abs <= lastQueued[m.ch]
  BY DEF SenderSound, Queued
<1>2. n \in Nat \ {0} /\ lastQueued \in [Channels -> Nat] /\ lastQueued[c] \in Nat
      /\ submitted \in [Channels -> 0 .. MaxPackets] /\ submitted[c] \in Nat
      /\ MaxPackets \in Nat
  BY LimitAssumption DEF SenderSound, SenderTypes
<1>3. /\ submitted' = [submitted EXCEPT ![c] = @ + 1]
      /\ lastQueued' = [lastQueued EXCEPT ![c] = @ + n]
      /\ outgoingSendReliableCommands' = q \o t
      /\ UNCHANGED <<reliableWindows, sentReliableCommands, reliableDataInTransit,
                     data, acks, receiverVars>>
  BY DEF Send
<1>4. Fragments(t, c, n, lastQueued[c], submitted[c] + 1)
  <2>1. \A i \in 1 .. n : t[i] \in Commands
    BY <1>2 DEF Command, Commands
  <2>2. \A i \in 1 .. n : /\ t[i].ch = c /\ t[i].abs = lastQueued[c] + i /\ Fresh(t[i])
                          /\ t[i].frag = i - 1 /\ t[i].count = n /\ t[i].pkt = submitted[c] + 1
    BY DEF Command, Fresh
  <2>3. t \in Seq(Commands) /\ Len(t) = n
    BY <1>2, <2>1
  <2> QED BY <2>2, <2>3 DEF Fragments
<1> HIDE DEF t
<1>5. /\ t \in Seq(Commands) /\ Len(t) = n
      /\ \A i \in 1 .. n : t[i].ch = c /\ t[i].abs = lastQueued[c] + i /\ Fresh(t[i])
  BY <1>4 DEF Fragments
<1>6. \A i, j \in 1 .. Len(t) : Same(t[i], t[j]) => i = j
  BY <1>2, <1>5 DEF Same
<1>7. \A m \in Range(s) \cup Range(q), i \in 1 .. Len(t) : ~ Same(m, t[i])
  BY <1>1, <1>2, <1>5 DEF Same
<1>8. Range(q \o t) = Range(q) \cup Range(t) /\ Out(s, q \o t) = Out(s, q)
  BY <1>1, <1>5, <1>6, <1>7, AddedLists
<1>9. Submits(c, n, t)
  BY <1>3, <1>4, <1>8 DEF Submits
<1> QED BY <1>9

\* A command that has the fields of another, whether or not it was sent.
Alike(m, k) ==
    m.ch = k.ch /\ m.abs = k.abs /\ m.frag = k.frag /\ m.count = k.count /\ m.pkt = k.pkt

\* A pass sends the first n commands of p; k are those left in flight, and t
\* those of p that timed out.
Passes(k, p, n, t) ==
    LET s    == sentReliableCommands
        q    == outgoingSendReliableCommands
        top  == NewestSent(Unsent(p, n), lastQueued)
    IN  /\ Listed(k, p) /\ n \in 0 .. Len(p) /\ Out(k, p) = Out(s, q)
        /\ Range(k) \cup Range(p) = Range(s) \cup Range(q)
        /\ t \in Seq(Commands) /\ p = t \o q /\ \A i \in 1 .. Len(t) : t[i].attempted
        /\ \A i \in 1 .. n : ~ WindowBlocks(CountedWindows(p, i - 1), p[i])
        /\ outgoingSendReliableCommands' = Unsent(p, n)
        /\ sentReliableCommands' = k \o SentNow(p, n)
        /\ data' = Alive(data \cup Range(SentNow(p, n)), top)
        /\ acks' = Alive(acks, top)
        /\ UNCHANGED <<submitted, lastQueued, receiverVars>>

\* enet_protocol_send_outgoing_commands is one pass over the requeued commands.
LEMMA SendOutgoingDoes ==
    ASSUME SenderSound, NEW timedOut \in SUBSET Range(sentReliableCommands),
           NEW limit \in TransitLimits, SendOutgoing(timedOut, limit)
    PROVE  \E k, p, n, t : Passes(k, p, n, t)
<1> DEFINE s == sentReliableCommands
           q == outgoingSendReliableCommands
           t == Kept(s, timedOut)
           k == Kept(s, Range(s) \ timedOut)
           p == t \o q
           inTransit == reliableDataInTransit - Cardinality(timedOut)
           n == Sendable(p, inTransit, limit)
           now == SentNow(p, n)
           rest == Unsent(p, n)
           top == NewestSent(rest, lastQueued)
<1>1. /\ Listed(s, q) /\ reliableDataInTransit = Len(s) /\ s \in Seq(Commands)
  BY DEF SenderSound, Queued, Listed
<1>2. /\ Listed(k, p) /\ Range(k) \cup Range(p) = Range(s) \cup Range(q)
      /\ Len(k) = Len(s) - Cardinality(timedOut)
      /\ Len(s) \in Nat /\ Len(k) \in Nat /\ Cardinality(timedOut) \in Nat
      /\ t \in Seq(Commands) /\ \A i \in 1 .. Len(t) : t[i].attempted
  <2>1. Requeues(s, q, timedOut, t, k) /\ Taken(t, s, q, timedOut)
    <3>1. Listed(s, q) /\ timedOut \in SUBSET Range(s)
      BY <1>1
    <3>2. t = Kept(s, timedOut) /\ k = Kept(s, Range(s) \ timedOut)
      OBVIOUS
    <3> HIDE DEF t, k, s, q
    <3>3. Requeues(s, q, timedOut, t, k)
      BY <3>1, <3>2, RequeuedLists, Zenon
    <3>4. Taken(t, s, q, timedOut)
      BY <3>1, <3>2, KeptCommands, Zenon
    <3> QED BY <3>3, <3>4
  <2> QED BY <2>1 DEF Requeues, Taken
<1>3. /\ outgoingSendReliableCommands' = rest
      /\ sentReliableCommands' = k \o now
      /\ data' = Alive(data \cup Range(now), top) /\ acks' = Alive(acks, top)
      /\ UNCHANGED <<submitted, lastQueued, receiverVars>>
  BY DEF SendOutgoing, Requeued, SentNow, Unsent
<1>4. p = t \o q
  OBVIOUS
<1> HIDE DEF t, k, p
<1>5. k \in Seq(Commands) /\ p \in Seq(Commands)
  BY <1>2 DEF Listed
<1>6. inTransit \in Int /\ limit \in Int
  BY <1>1, <1>2, LimitAssumption
<1> HIDE DEF inTransit
<1>7. n \in 0 .. Len(p) /\ \A i \in 1 .. n : ~ WindowBlocks(CountedWindows(p, i - 1), p[i])
  BY <1>5, <1>6, SendableIs DEF CanSend
<1> HIDE DEF n
<1>8. Out(k, p) = Out(s, q)
  BY <1>2 DEF Out
<1>9. Passes(k, p, n, t)
  BY <1>2, <1>3, <1>4, <1>7, <1>8 DEF Passes
<1> QED BY <1>9

\* The commands of a pass are the same ones as before it.
LEMMA SentAlike ==
    ASSUME NEW k, NEW p, Listed(k, p), NEW n \in 0 .. Len(p)
    PROVE  /\ \A m \in Range(k \o SentNow(p, n)) \cup Range(Unsent(p, n)) :
                 \E l \in Range(k) \cup Range(p) : Alike(m, l)
           /\ \A m \in Range(SentNow(p, n)) :
                 /\ m \in Commands /\ m \in Out(k \o SentNow(p, n), Unsent(p, n))
                 /\ \E l \in Range(k) \cup Range(p) : Alike(m, l)
<1> DEFINE now == SentNow(p, n)
           u == k \o now
           rest == Unsent(p, n)
<1>1. k \in Seq(Commands) /\ p \in Seq(Commands) /\ n \in Nat /\ Len(p) \in Nat
  BY DEF Listed
<1>2. /\ now \in Seq(Commands) /\ Len(now) = n
      /\ \A i \in 1 .. n : Alike(now[i], p[i]) /\ now[i].attempted
  <2>1. Sends(now, p, n)
    BY <1>1, NowSent
  <2> QED BY <2>1 DEF Sends, Alike
<1>3. \A i \in 1 .. Len(p) : p[i] \in Range(p)
  BY <1>1, RangeIs
<1>4. Joined(u, k, now, Commands)
  BY <1>1, <1>2, JoinedIs
<1>5. rest \in Seq(Commands) /\ \A i \in 1 .. Len(rest) : rest[i] = p[n + i] /\ n + i \in 1 .. Len(p)
  BY <1>1 DEF Unsent
<1> HIDE DEF now, u, rest
<1>6. ASSUME NEW i \in 1 .. n
      PROVE  now[i] \in Range(u) /\ now[i] \in Commands
             /\ \E l \in Range(k) \cup Range(p) : Alike(now[i], l)
  <2>1. Len(k) + i \in 1 .. Len(u) /\ u[Len(k) + i] = now[i] /\ u \in Seq(Commands)
    <3>1. Len(k) \in Nat /\ Len(u) = Len(k) + n /\ u[Len(k) + i] = now[i] /\ u \in Seq(Commands)
      BY <1>1, <1>2, <1>4 DEF Joined
    <3> QED BY <1>1, <3>1
  <2>2. now[i] \in Range(u) /\ now[i] \in Commands
    <3> DEFINE j == Len(k) + i
    <3>1. j \in 1 .. Len(u) /\ u[j] = now[i] /\ u \in Seq(Commands)
      BY <2>1
    <3> HIDE DEF j
    <3> QED BY <3>1, RangeIs
  <2>3. i \in 1 .. Len(p)
    BY <1>1
  <2> QED BY <1>2, <1>3, <2>2, <2>3
<1>7. ASSUME NEW m \in Range(u)
      PROVE  \E l \in Range(k) \cup Range(p) : Alike(m, l)
  <2>1. PICK i \in 1 .. Len(u) : u[i] = m
    BY <1>4, RangeIs DEF Joined
  <2>2. CASE i \in 1 .. Len(k)
    <3>1. m = k[i] /\ k[i] \in Range(k)
      BY <1>1, <1>4, <2>1, <2>2, RangeIs DEF Joined
    <3> QED BY <3>1 DEF Alike
  <2>3. CASE i \notin 1 .. Len(k)
    <3>1. i - Len(k) \in 1 .. n /\ m = now[i - Len(k)]
      BY <1>2, <1>4, <2>1, <2>3 DEF Joined
    <3> QED BY <1>6, <3>1
  <2> QED BY <2>2, <2>3
<1>8. ASSUME NEW m \in Range(rest)
      PROVE  \E l \in Range(k) \cup Range(p) : Alike(m, l)
  <2>1. PICK i \in 1 .. Len(rest) : rest[i] = m
    BY <1>5, RangeIs
  <2>2. m \in Range(p)
    BY <1>3, <1>5, <2>1
  <2> QED BY <2>2 DEF Alike
<1>9. \A m \in Range(now) : \E i \in 1 .. n : now[i] = m
  BY <1>2, RangeIs
<1>10. \A m \in Range(now) : m \in Commands /\ m \in Out(u, rest)
                             /\ \E l \in Range(k) \cup Range(p) : Alike(m, l)
  BY <1>2, <1>6, <1>9 DEF Out
<1> QED BY <1>7, <1>8, <1>10 DEF now, u, rest

\* A datagram lives no longer than the numbers take to come back.
LEMMA LifetimeShort == Lifetime <= SeqSpace
<1>1. PICK n \in FragmentCounts : n \in Nat \ {0} /\
         Lifetime + n <= WindowSize * (Windows - FreeWindows + 1) + 1
  BY LimitAssumption, ConstantsAre
<1> DEFINE k == Windows - FreeWindows + 1
           z == WindowSize * k
<1>2. k \in Int /\ k <= Windows
  BY WindowBounds
<1> HIDE DEF k
<1>3. z \in Int /\ z <= SeqSpace
  BY <1>2, WindowBounds, Monotone
<1> HIDE DEF z
<1>4. Lifetime + n <= z + 1 /\ Lifetime \in Nat
  BY <1>1, ConstantsAre DEF z, k
<1> QED BY <1>1, <1>3, <1>4, WindowBounds

\* The numbers that wait are those of commands.
LEMMA AwaitedIs ==
    ASSUME NEW O, NEW c, NEW x
    PROVE  x \in Awaited(O, c) <=> \E m \in O : m.ch = c /\ m.abs = x
BY DEF Awaited

\* The pass that sends what it may.
LEMMA SendOutgoingNumbers ==
    ASSUME SenderSound, NetworkTypes, acknowledgements \subseteq [ch : Channels, abs : Nat],
           NEW k, NEW p, NEW n, NEW t, Passes(k, p, n, t),
           NEW S, NEW L, NEW T, SenderNumbers(S, L, T)
    PROVE  \E U :
              /\ Flight(sentReliableCommands', outgoingSendReliableCommands', lastQueued', S, L, U)
              /\ Young(data', U) /\ Known(acks', S, U)
              /\ Owed(acknowledgements', acks',
                      Out(sentReliableCommands', outgoingSendReliableCommands'), S, U)
              /\ \A c \in Channels : T[c] \in Nat /\ U[c] \in Nat /\ T[c] <= U[c]
<1> DEFINE s == sentReliableCommands
           q == outgoingSendReliableCommands
           now == SentNow(p, n)
           u == k \o now
           rest == Unsent(p, n)
           top == NewestSent(rest, lastQueued)
           O == Out(s, q)
           W == Out(u, rest)
<1>1. /\ Listed(k, p) /\ n \in 0 .. Len(p) /\ Out(k, p) = O
      /\ t \in Seq(Commands) /\ p = t \o q /\ \A i \in 1 .. Len(t) : t[i].attempted
      /\ \A i \in 1 .. n : ~ WindowBlocks(CountedWindows(p, i - 1), p[i])
      /\ outgoingSendReliableCommands' = rest /\ sentReliableCommands' = u
      /\ data' = Alive(data \cup Range(now), top) /\ acks' = Alive(acks, top)
      /\ lastQueued' = lastQueued /\ acknowledgements' = acknowledgements
  BY DEF Passes, receiverVars
<1>2. /\ lastQueued \in [Channels -> Nat] /\ reliableWindows \in WindowCounters
      /\ Counted(O, reliableWindows) /\ q \in Seq(Commands)
  BY DEF SenderSound, SenderTypes, Queued, Listed
<1>3. /\ Pending(q, 0, T, lastQueued) /\ Reaching(O, S, L, T)
      /\ Young(data, T) /\ Known(acks, S, T) /\ Owed(acknowledgements, acks, O, S, T)
  BY DEF SenderNumbers, Flight
<1>4. p \in Seq(Commands)
  BY <1>1 DEF Listed
<1>5. Pending(p, 0, T, lastQueued)
  BY <1>1, <1>2, <1>3, PendingRequeued
<1> HIDE DEF now, u, rest, top, O, W
<1>6. PICK U : Progress(k, p, n, S, L, T, U, lastQueued)
  <2>1. Counted(Out(k, p), reliableWindows) /\ Reaching(Out(k, p), S, L, T)
    BY <1>1, <1>2, <1>3
  <2> QED BY <1>1, <1>2, <1>5, <2>1, ProgressAll
<1>7. /\ Pending(p, n, U, lastQueued) /\ Reaching(W, S, L, U)
      /\ \A c \in Channels : T[c] <= U[c]
      /\ \A c \in Channels, x \in Nat : T[c] < x /\ x <= U[c] => x \in Awaited(W, c)
      /\ U \in [Channels -> Nat] /\ T \in [Channels -> Nat]
  BY <1>3, <1>6 DEF Progress, OutAfter, W, u, rest, now, Pending
<1>8. rest \in Seq(Commands) /\ Pending(rest, 0, U, lastQueued)
  <2>1. rest \in Seq(Commands)
    BY <1>1, <1>4 DEF rest, Unsent
  <2> QED BY <1>1, <1>4, <1>7, <2>1, PendingRest DEF rest
<1>9. top = U
  BY <1>2, <1>8, NewestIs DEF top
<1>10. /\ \A m \in Range(now) : m \in Commands /\ m \in W
       /\ O \subseteq W
  <2>1. \A m \in Range(now) : m \in Commands /\ m \in W
    BY <1>1, SentAlike DEF now, W, u, rest
  <2>2. W = O \cup {now[i] : i \in 1 .. n}
    <3>1. Listed(k, p) /\ n \in 0 .. Len(p)
      BY <1>1
    <3>2. Out(k \o SentNow(p, n), Unsent(p, n)) = Out(k, p) \cup {SentNow(p, n)[i] : i \in 1 .. n}
      BY <3>1, SentLists
    <3> QED BY <1>1, <3>2 DEF W, u, rest, now
  <2> QED BY <2>1, <2>2
<1>11. Lifetime \in Nat /\ Lifetime <= SeqSpace /\ SeqSpace \in Nat
  BY LifetimeShort, ConstantsAre, WindowBounds
<1>12. Young(data', U)
  <2> SUFFICES ASSUME NEW m \in data'
               PROVE  m.abs <= U[m.ch] /\ U[m.ch] < m.abs + Lifetime
    BY DEF Young
  <2>1. m \in data \cup Range(now) /\ m.abs + Lifetime > U[m.ch]
    BY <1>1, <1>9 DEF Alive
  <2>2. m.ch \in Channels /\ m.abs \in Nat
    BY <1>10, <2>1 DEF NetworkTypes, Commands
  <2>3. T[m.ch] \in Nat /\ U[m.ch] \in Nat /\ T[m.ch] <= U[m.ch]
    BY <1>7, <2>2
  <2>4. m.abs <= U[m.ch]
    <3>1. CASE m \in data
      BY <1>3, <2>2, <2>3, <3>1 DEF Young
    <3>2. CASE m \in Range(now)
      <4>1. m.abs \in Awaited(W, m.ch)
        BY <1>10, <3>2, AwaitedIs
      <4> QED BY <1>7, <2>2, <4>1 DEF Reaching, Reach
    <3> QED BY <2>1, <3>1, <3>2
  <2> QED BY <1>11, <2>1, <2>2, <2>3, <2>4
<1>13. acks' \subseteq acks
  BY <1>1 DEF Alive
<1>14. Known(acks', S, U)
  <2> SUFFICES ASSUME NEW a \in acks'
               PROVE  /\ StartAt < a.abs /\ a.abs <= U[a.ch] /\ U[a.ch] < a.abs + SeqSpace
                      /\ a.abs \in S[a.ch]
    BY DEF Known
  <2>1. a \in acks /\ a.abs + Lifetime > U[a.ch]
    BY <1>1, <1>9 DEF Alive
  <2>2. a.ch \in Channels /\ a.abs \in Nat
    BY <2>1 DEF NetworkTypes
  <2>3. StartAt < a.abs /\ a.abs <= T[a.ch] /\ a.abs \in S[a.ch]
    BY <1>3, <2>1 DEF Known
  <2>4. T[a.ch] \in Nat /\ U[a.ch] \in Nat /\ T[a.ch] <= U[a.ch]
    BY <1>7, <2>2
  <2> QED BY <1>11, <2>1, <2>2, <2>3, <2>4
<1>15. \A c : Awaited(O, c) \subseteq Awaited(W, c)
  BY <1>10 DEF Awaited
<1>16. Owed(acknowledgements, acks', W, S, U)
  <2> SUFFICES ASSUME NEW a \in acknowledgements
               PROVE  /\ StartAt < a.abs /\ a.abs <= U[a.ch] /\ a.abs \in S[a.ch]
                      /\ \E x0 \in Nat :
                            /\ x0 < a.abs + Lifetime
                            /\ \A x \in Nat : x0 < x /\ x <= U[a.ch] =>
                                  x \in Awaited(W, a.ch) /\ \A b \in acks' : b.ch = a.ch => b.abs # x
    BY DEF Owed
  <2> DEFINE c == a.ch
  <2>1. c \in Channels /\ a.abs \in Nat
    OBVIOUS
  <2>2. /\ StartAt < a.abs /\ a.abs <= T[c] /\ a.abs \in S[c]
        /\ \E x0 \in Nat :
              /\ x0 < a.abs + Lifetime
              /\ \A x \in Nat : x0 < x /\ x <= T[c] =>
                    x \in Awaited(O, c) /\ \A b \in acks : b.ch = c => b.abs # x
    BY <1>3 DEF Owed
  <2> HIDE DEF c
  <2>3. T[c] \in Nat /\ U[c] \in Nat /\ T[c] <= U[c]
    BY <1>7, <2>1
  <2>4. PICK x0 \in Nat :
              /\ x0 < a.abs + Lifetime
              /\ \A x \in Nat : x0 < x /\ x <= T[c] =>
                    x \in Awaited(O, c) /\ \A b \in acks : b.ch = c => b.abs # x
    BY <2>2
  <2>5. ASSUME NEW x \in Nat, x0 < x, x <= U[c]
        PROVE  x \in Awaited(W, c) /\ \A b \in acks' : b.ch = c => b.abs # x
    <3>1. CASE x <= T[c]
      BY <1>13, <1>15, <2>4, <2>5, <3>1
    <3>2. CASE ~ (x <= T[c])
      <4>1. x \in Awaited(W, c)
        BY <1>7, <2>1, <2>3, <2>5, <3>2
      <4>2. ASSUME NEW b \in acks', b.ch = c
            PROVE  b.abs # x
        <5>1. b \in acks /\ b.abs \in Nat /\ b.abs <= T[c]
          BY <1>3, <1>13, <4>2 DEF Known, NetworkTypes
        <5> QED BY <2>3, <3>2, <5>1
      <4> QED BY <4>1, <4>2
    <3> QED BY <3>1, <3>2
  <2>6. a.abs <= U[c]
    BY <2>1, <2>2, <2>3
  <2> QED BY <2>2, <2>4, <2>5, <2>6 DEF c
<1>17. Flight(u, rest, lastQueued, S, L, U)
  BY <1>7, <1>8 DEF Flight, W
<1>18. \A c \in Channels : T[c] \in Nat /\ U[c] \in Nat /\ T[c] <= U[c]
  BY <1>7
<1>19. /\ Flight(sentReliableCommands', outgoingSendReliableCommands', lastQueued', S, L, U)
       /\ Owed(acknowledgements', acks',
               Out(sentReliableCommands', outgoingSendReliableCommands'), S, U)
  BY <1>1, <1>16, <1>17 DEF W
<1> QED BY <1>12, <1>14, <1>18, <1>19

\* What an acknowledgement does: nothing, or it takes one command off its list.
Ignores ==
    UNCHANGED <<outgoingSendReliableCommands, sentReliableCommands>>

\* Command m is taken off its list by acknowledgement a.
Forgets(a, m, T) ==
    LET s == sentReliableCommands
        q == outgoingSendReliableCommands
    IN  /\ m \in Out(s, q) /\ m.ch = a.ch /\ Seq16(m) = Seq16(a)
        /\ Out(sentReliableCommands', outgoingSendReliableCommands') = Out(s, q) \ {m}
        /\ Range(s) \cup Range(q) \subseteq
               Range(sentReliableCommands') \cup Range(outgoingSendReliableCommands') \cup {m}
        /\ Range(sentReliableCommands') \cup Range(outgoingSendReliableCommands')
               \subseteq Range(s) \cup Range(q)
        /\ Pending(outgoingSendReliableCommands', 0, T, lastQueued)

\* enet_protocol_remove_sent_reliable_command takes one command or none.
LEMMA AcknowledgeDoes ==
    ASSUME SenderSound, NEW a, HandleAcknowledge(a), NEW T,
           Pending(outgoingSendReliableCommands, 0, T, lastQueued)
    PROVE  Ignores \/ \E m : Forgets(a, m, T)
<1> DEFINE s == sentReliableCommands
           q == outgoingSendReliableCommands
           F == FoundInFlight(a)
           Q == FoundSent(q, a)
           O == Out(s, q)
<1>1. Listed(s, q)
  BY DEF SenderSound, Queued
<1>2. /\ F # {} => Min(F) \in F
      /\ F \subseteq 1 .. Len(s)
      /\ \A i \in F : s[i].ch = a.ch /\ Seq16(s[i]) = Seq16(a)
      /\ Q # {} => Min(Q) \in Q
      /\ Q \subseteq 1 .. Len(q)
      /\ \A i \in Q : q[i].ch = a.ch /\ Seq16(q[i]) = Seq16(a) /\ q[i].attempted
  BY <1>1, FoundIs
<1>3. RemoveSent(a)
  BY DEF HandleAcknowledge
<1>4. s \in Seq(Commands) /\ q \in Seq(Commands)
      /\ \A j, k \in 1 .. Len(q) : Same(q[j], q[k]) => j = k
  BY <1>1 DEF Listed
<1>5. CASE F \cup Q = {}
  BY <1>3, <1>5 DEF RemoveSent, Ignores
<1>6. CASE F # {}
  <2> DEFINE i == Min(F)
             t == RemoveAt(s, i)
  <2>1. sentReliableCommands' = t /\ outgoingSendReliableCommands' = q
    BY <1>3, <1>6 DEF RemoveSent
  <2>2. i \in 1 .. Len(s) /\ s[i].ch = a.ch /\ Seq16(s[i]) = Seq16(a)
    BY <1>2, <1>6
  <2> HIDE DEF i
  <2>3. Range(t) = Range(s) \ {s[i]} /\ s[i] \in O /\ Out(t, q) = O \ {s[i]}
    BY <1>1, <2>2, RemovedSent
  <2> HIDE DEF t
  <2>4. Forgets(a, s[i], T)
    BY <2>1, <2>2, <2>3 DEF Forgets
  <2> QED BY <2>4
<1>7. CASE F = {} /\ Q # {}
  <2> DEFINE i == Min(Q)
             t == RemoveAt(q, i)
  <2>1. sentReliableCommands' = s /\ outgoingSendReliableCommands' = t
    BY <1>3, <1>7 DEF RemoveSent
  <2>2. i \in 1 .. Len(q) /\ q[i].ch = a.ch /\ Seq16(q[i]) = Seq16(a) /\ q[i].attempted
    BY <1>2, <1>7
  <2> HIDE DEF i
  <2>3. Range(t) = Range(q) \ {q[i]} /\ q[i] \in O /\ Out(s, t) = O \ {q[i]}
    BY <1>1, <2>2, RemovedQueued
  <2>4. Removed(t, q, i)
    BY <1>4, <2>2, RemovedElement, Zenon
  <2> HIDE DEF t
  <2>5. Pending(t, 0, T, lastQueued)
    BY <1>4, <2>2, <2>4, PendingRemoved
  <2>6. Forgets(a, q[i], T)
    BY <2>1, <2>2, <2>3, <2>5 DEF Forgets
  <2> QED BY <2>6
<1> QED BY <1>5, <1>6, <1>7

\* Two numbers that are the same on the wire and less than a cycle old are one.
LEMMA SameNumber ==
    ASSUME NEW x \in Nat, NEW y \in Nat, NEW T \in Nat, x <= T, y <= T,
           T < x + SeqSpace, T < y + SeqSpace, x % SeqSpace = y % SeqSpace
    PROVE  x = y
<1>1. SeqSpace \in Nat \ {0}
  BY WindowBounds
<1>2. CASE x <= y
  <2>1. y < x + SeqSpace
    BY <1>1
  <2> QED BY <1>1, <1>2, <2>1, SameRemainder
<1>3. CASE y <= x
  <2>1. x < y + SeqSpace
    BY <1>1
  <2> QED BY <1>1, <1>3, <2>1, SameRemainder
<1> QED BY <1>2, <1>3

\* No two commands of the lists have the same number.
LEMMA ListedOnce ==
    ASSUME NEW s, NEW q, Listed(s, q)
    PROVE  \A m, k \in Out(s, q) : m.ch = k.ch /\ m.abs = k.abs => m = k
<1> SUFFICES ASSUME NEW m \in Out(s, q), NEW k \in Out(s, q), m.ch = k.ch, m.abs = k.abs
             PROVE  m = k
  OBVIOUS
<1>1. s \in Seq(Commands) /\ q \in Seq(Commands)
  BY DEF Listed
<1>2. \A x \in Out(s, q) : (\E i \in 1 .. Len(s) : s[i] = x) \/ \E i \in 1 .. Len(q) : q[i] = x
  BY <1>1, RangeIs DEF Out
<1>3. Same(m, k) /\ Same(k, m)
  BY DEF Same
<1>4. CASE \E i \in 1 .. Len(s) : s[i] = m
  <2>1. PICK i \in 1 .. Len(s) : s[i] = m
    BY <1>4
  <2>2. ~ \E j \in 1 .. Len(q) : q[j] = k
    BY <1>3, <2>1 DEF Listed
  <2>3. PICK j \in 1 .. Len(s) : s[j] = k
    BY <1>2, <2>2
  <2> QED BY <1>3, <2>1, <2>3 DEF Listed
<1>5. CASE \E i \in 1 .. Len(q) : q[i] = m
  <2>1. PICK i \in 1 .. Len(q) : q[i] = m
    BY <1>5
  <2>2. ~ \E j \in 1 .. Len(s) : s[j] = k
    BY <1>3, <2>1 DEF Listed
  <2>3. PICK j \in 1 .. Len(q) : q[j] = k
    BY <1>2, <2>2
  <2> QED BY <1>3, <2>1, <2>3 DEF Listed
<1> QED BY <1>2, <1>4, <1>5

\* An acknowledgement takes off the command it was sent for.
LEMMA ForgetsIts ==
    ASSUME SenderSound, NetworkTypes, NEW a \in acks, NEW m, NEW S, NEW L, NEW T,
           SenderNumbers(S, L, T), Forgets(a, m, T)
    PROVE  m.ch \in Channels /\ m.ch = a.ch /\ m.abs = a.abs /\ a.abs \in S[a.ch]
<1> DEFINE O == Out(sentReliableCommands, outgoingSendReliableCommands)
           c == a.ch
<1>1. a.ch \in Channels /\ a.abs \in Nat
  BY DEF NetworkTypes
<1>2. m \in O /\ m.ch = c /\ Seq16(m) = Seq16(a)
  BY DEF Forgets
<1>3. Reach(Awaited(O, c), S[c], L[c], T[c])
  BY <1>1 DEF SenderNumbers, Flight, Reaching
<1>4. StartAt < a.abs /\ a.abs <= T[c] /\ T[c] < a.abs + SeqSpace /\ a.abs \in S[c]
  BY DEF SenderNumbers, Known
<1> HIDE DEF O, c
<1>5. m.abs \in Awaited(O, c)
  BY <1>2, AwaitedIs
<1>6. m.abs \in Nat /\ m.abs <= T[c] /\ T[c] < m.abs + SeqSpace /\ T[c] \in Nat
  BY <1>3, <1>5, ReachSpan
<1>7. m.abs % SeqSpace = a.abs % SeqSpace
  BY <1>2 DEF Seq16
<1>8. m.abs = a.abs
  BY <1>1, <1>4, <1>6, <1>7, SameNumber
<1> QED BY <1>1, <1>2, <1>4, <1>8 DEF c

\* The numbers after an acknowledgement.
LEMMA AcknowledgeNumbers ==
    ASSUME SenderSound, NetworkTypes, acknowledgements \subseteq [ch : Channels, abs : Nat],
           NEW a \in acks, HandleAcknowledge(a),
           NEW S, NEW L, NEW T, SenderNumbers(S, L, T)
    PROVE  /\ Flight(sentReliableCommands', outgoingSendReliableCommands', lastQueued', S, L, T)
           /\ Young(data', T) /\ Known(acks', S, T)
           /\ Owed(acknowledgements', acks',
                   Out(sentReliableCommands', outgoingSendReliableCommands'), S, T)
<1> DEFINE s == sentReliableCommands
           q == outgoingSendReliableCommands
           O == Out(s, q)
           u == sentReliableCommands'
           r == outgoingSendReliableCommands'
           W == Out(u, r)
<1>1. /\ lastQueued' = lastQueued /\ data' = data /\ acks' = acks
      /\ acknowledgements' = acknowledgements
  BY DEF HandleAcknowledge, receiverVars
<1>2. /\ Pending(q, 0, T, lastQueued) /\ Reaching(O, S, L, T)
      /\ Young(data, T) /\ Known(acks, S, T) /\ Owed(acknowledgements, acks, O, S, T)
  BY DEF SenderNumbers, Flight
<1>3. Listed(s, q)
  BY DEF SenderSound, Queued
<1>4. CASE Ignores
  <2>1. u = s /\ r = q
    BY <1>4 DEF Ignores
  <2> QED BY <1>1, <1>2, <2>1 DEF Flight
<1>5. CASE \E m : Forgets(a, m, T)
  <2>1. PICK m : Forgets(a, m, T)
    BY <1>5
  <2>2. m.ch = a.ch /\ m.abs = a.abs /\ a.abs \in S[a.ch] /\ a.ch \in Channels
    BY <2>1, ForgetsIts
  <2>3. m \in O /\ W = O \ {m} /\ Pending(r, 0, T, lastQueued)
    BY <2>1 DEF Forgets
  <2>4. \A k \in O : k.ch = m.ch /\ k.abs = m.abs => k = m
    BY <1>3, <2>3, ListedOnce
  <2> HIDE DEF O, W, u, r
  <2>5. Awaited(W, a.ch) = Awaited(O, a.ch) \ {a.abs}
    BY <2>2, <2>3, <2>4 DEF Awaited
  <2>6. \A c : c # a.ch => Awaited(W, c) = Awaited(O, c)
    BY <2>2, <2>3 DEF Awaited
  <2>7. Reaching(W, S, L, T)
    <3> SUFFICES ASSUME NEW c \in Channels
                 PROVE  Reach(Awaited(W, c), S[c], L[c], T[c])
      BY DEF Reaching
    <3>1. Reach(Awaited(O, c), S[c], L[c], T[c])
      BY <1>2 DEF Reaching
    <3>2. CASE c = a.ch
      <4>1. a.abs \in S[c] /\ Awaited(W, c) = Awaited(O, c) \ {a.abs}
        BY <2>2, <2>5, <3>2
      <4> QED BY <3>1, <4>1, ReachShrinks
    <3>3. CASE c # a.ch
      BY <2>6, <3>1, <3>3
    <3> QED BY <3>2, <3>3
  <2>8. Owed(acknowledgements, acks, W, S, T)
    <3> SUFFICES ASSUME NEW b \in acknowledgements
                 PROVE  /\ StartAt < b.abs /\ b.abs <= T[b.ch] /\ b.abs \in S[b.ch]
                        /\ \E t \in Nat :
                              /\ t < b.abs + Lifetime
                              /\ \A x \in Nat : t < x /\ x <= T[b.ch] =>
                                    x \in Awaited(W, b.ch) /\ \A d \in acks : d.ch = b.ch => d.abs # x
      BY DEF Owed
    <3>1. /\ StartAt < b.abs /\ b.abs <= T[b.ch] /\ b.abs \in S[b.ch]
          /\ \E t \in Nat :
                /\ t < b.abs + Lifetime
                /\ \A x \in Nat : t < x /\ x <= T[b.ch] =>
                      x \in Awaited(O, b.ch) /\ \A d \in acks : d.ch = b.ch => d.abs # x
      BY <1>2 DEF Owed
    <3>2. PICK t \in Nat :
                /\ t < b.abs + Lifetime
                /\ \A x \in Nat : t < x /\ x <= T[b.ch] =>
                      x \in Awaited(O, b.ch) /\ \A d \in acks : d.ch = b.ch => d.abs # x
      BY <3>1
    <3>3. ASSUME NEW x \in Nat, t < x, x <= T[b.ch]
          PROVE  x \in Awaited(W, b.ch)
      <4>1. x \in Awaited(O, b.ch) /\ (a.ch = b.ch => a.abs # x)
        BY <3>2, <3>3
      <4>2. CASE b.ch = a.ch
        <5>1. x # a.abs /\ Awaited(W, b.ch) = Awaited(O, b.ch) \ {a.abs}
          BY <2>5, <4>1, <4>2
        <5> QED BY <4>1, <5>1
      <4>3. CASE b.ch # a.ch
        BY <2>6, <4>1, <4>3
      <4> QED BY <4>2, <4>3
    <3> QED BY <3>1, <3>2, <3>3
  <2>9. Flight(u, r, lastQueued, S, L, T)
    BY <2>3, <2>7 DEF Flight, W
  <2> QED BY <1>1, <1>2, <2>8, <2>9 DEF W, u, r
<1> QED BY <1>2, <1>4, <1>5, AcknowledgeDoes

\* What was owed is known once it is sent: the numbers it could be taken for are
\* not in flight.
LEMMA OwedKnown ==
    ASSUME NEW waiting, NEW received, NEW O, NEW S, NEW L, NEW T, Reaching(O, S, L, T),
           waiting \subseteq [ch : Channels, abs : Nat], Owed(waiting, received, O, S, T)
    PROVE  Known(waiting, S, T)
<1> SUFFICES ASSUME NEW a \in waiting
             PROVE  /\ StartAt < a.abs /\ a.abs <= T[a.ch] /\ T[a.ch] < a.abs + SeqSpace
                    /\ a.abs \in S[a.ch]
  BY DEF Known
<1> DEFINE c == a.ch
           U == T[c]
<1>1. c \in Channels /\ a.abs \in Nat
  OBVIOUS
<1>2. Reach(Awaited(O, c), S[c], L[c], U)
  BY <1>1 DEF Reaching
<1>3. /\ StartAt < a.abs /\ a.abs <= U /\ a.abs \in S[c]
      /\ \E t \in Nat : /\ t < a.abs + Lifetime
                        /\ \A x \in Nat : t < x /\ x <= U => x \in Awaited(O, c)
  BY DEF Owed
<1> HIDE DEF U
<1>4. PICK t \in Nat : /\ t < a.abs + Lifetime
                       /\ \A x \in Nat : t < x /\ x <= U => x \in Awaited(O, c)
  BY <1>3
<1>5. U \in Nat /\ Lifetime \in Nat /\ Lifetime <= SeqSpace /\ SeqSpace \in Nat
  BY <1>2, ReachSpan, LifetimeShort, ConstantsAre, WindowBounds
<1>6. U < a.abs + SeqSpace
  <2>1. CASE U <= t
    BY <1>1, <1>4, <1>5, <2>1
  <2>2. CASE ~ (U <= t)
    <3> DEFINE x == t + 1
               k == Windows - FreeWindows - 1
               l == Windows - FreeWindows + 1
               y == WindowSize * k
               z == WindowSize * l
    <3>1. x \in Nat /\ t < x /\ x <= U /\ x <= a.abs + Lifetime
      BY <1>1, <1>4, <1>5, <2>2
    <3>2. x \in Awaited(O, c)
      BY <1>4, <3>1
    <3>3. U < x + y
      BY <1>2, <3>2, ReachSpan
    <3>4. k \in Int /\ l \in Int /\ k + l <= Windows
      BY WindowBounds, ConstantsAre
    <3> HIDE DEF x, k, l
    <3>5. y \in Int /\ z \in Int /\ y + z <= SeqSpace
      <4>1. WindowSize * (k + l) = y + z /\ y \in Int /\ z \in Int
        BY <3>4, WindowBounds, SMT
      <4>2. WindowSize * (k + l) <= WindowSize * Windows
        BY <3>4, WindowBounds, Monotone
      <4> QED BY <4>1, <4>2, WindowBounds
    <3>6. Lifetime <= z
      <4>1. PICK n \in FragmentCounts : n \in Nat \ {0} /\
               Lifetime + n <= WindowSize * (Windows - FreeWindows + 1) + 1
        BY LimitAssumption, ConstantsAre
      <4>2. Lifetime + n <= z + 1
        BY <4>1 DEF l
      <4> HIDE DEF z
      <4> QED BY <1>5, <3>5, <4>1, <4>2
    <3> HIDE DEF y, z
    <3> QED BY <1>1, <1>5, <3>1, <3>3, <3>5, <3>6
  <2> QED BY <2>1, <2>2
<1> QED BY <1>3, <1>6 DEF U

-----------------------------------------------------------------------------
(* A packet is submitted *)

\* The layout f continues e, which numbers the packets up to sub.
Continues(f, e, sub) == \A p \in 0 .. sub : f[p] = e[p]

\* The layout once a packet of n fragments is submitted.
Added(e, sub, n) == [e EXCEPT ![sub + 1] = e[sub] + n]

\* The next packet takes the next n numbers.
LEMMA LaidGrows ==
    ASSUME NEW e, NEW sub, Laid(e, sub), NEW n \in FragmentCounts,
           NEW f, f = Added(e, sub, n)
    PROVE  Laid(f, sub + 1) /\ Continues(f, e, sub) /\ f[sub + 1] = e[sub] + n
<1>1. /\ e \in [Nat -> Nat] /\ e[0] = StartAt /\ sub \in Nat
      /\ \A p, r \in 0 .. sub : p < r => e[p] < e[r]
      /\ \A p \in 1 .. sub : e[p] - e[p - 1] \in FragmentCounts
  BY DEF Laid
<1>2. n \in Nat \ {0}
  BY ConstantsAre
<1>3. /\ f \in [Nat -> Nat] /\ f[sub + 1] = e[sub] + n
      /\ \A p \in Nat : p # sub + 1 => f[p] = e[p]
  BY <1>1, <1>2 DEF Added
<1>4. Continues(f, e, sub)
  BY <1>1, <1>3 DEF Continues
<1>5. f[0] = StartAt
  BY <1>1, <1>3
<1>6. \A p \in 0 .. sub : e[p] \in Nat /\ e[p] <= e[sub]
  <2> TAKE p \in 0 .. sub
  <2>1. sub \in 0 .. sub /\ p \in Nat /\ p <= sub
    BY <1>1
  <2> QED BY <1>1, <2>1, LaidIs
<1>7. ASSUME NEW p \in 0 .. sub + 1, NEW r \in 0 .. sub + 1, p < r
      PROVE  f[p] < f[r]
  <2>1. p \in 0 .. sub /\ f[p] = e[p]
    BY <1>1, <1>3, <1>7
  <2>2. CASE r = sub + 1
    BY <1>1, <1>2, <1>3, <1>6, <2>1, <2>2
  <2>3. CASE r # sub + 1
    <3>1. r \in 0 .. sub /\ f[r] = e[r]
      BY <1>1, <1>3, <2>3
    <3> QED BY <1>1, <1>7, <2>1, <3>1
  <2> QED BY <2>2, <2>3
<1>8. ASSUME NEW p \in 1 .. sub + 1
      PROVE  f[p] - f[p - 1] \in FragmentCounts
  <2>1. p - 1 \in 0 .. sub /\ f[p - 1] = e[p - 1] /\ e[p - 1] \in Nat
    BY <1>1, <1>3
  <2>2. CASE p = sub + 1
    <3>1. p - 1 = sub /\ f[p] = e[sub] + n /\ e[sub] \in Nat
      BY <1>1, <1>3, <2>2
    <3>2. f[p] - f[p - 1] = n
      BY <1>2, <2>1, <3>1
    <3> QED BY <3>2
  <2>3. CASE p # sub + 1
    <3>1. p \in 1 .. sub /\ f[p] = e[p]
      BY <1>1, <1>3, <2>3
    <3> QED BY <1>1, <2>1, <3>1
  <2> QED BY <2>2, <2>3
<1>9. sub + 1 \in Nat
  BY <1>1
<1> QED BY <1>3, <1>4, <1>5, <1>7, <1>8, <1>9 DEF Laid

\* F numbers one more packet of channel c, of n fragments, than E does.
Numbers(F, E, sub, last, c, n) ==
    /\ Layout(F, [sub EXCEPT ![c] = @ + 1], [last EXCEPT ![c] = @ + n])
    /\ \A d \in Channels : Continues(F[d], E[d], sub[d])
    /\ F[c][sub[c] + 1] = last[c] + n

\* There is such a layout.
LEMMA LayoutGrows ==
    ASSUME NEW E, NEW sub \in [Channels -> Nat], NEW last \in [Channels -> Nat],
           Layout(E, sub, last), NEW c \in Channels, NEW n \in FragmentCounts
    PROVE  \E F : Numbers(F, E, sub, last, c, n)
<1> DEFINE f == Added(E[c], sub[c], n)
           F == [d \in Channels |-> IF d = c THEN f ELSE E[d]]
           sub2 == [sub EXCEPT ![c] = @ + 1]
           last2 == [last EXCEPT ![c] = @ + n]
<1>1. \A d \in Channels : Laid(E[d], sub[d]) /\ E[d][sub[d]] = last[d]
  BY DEF Layout
<1>2. Laid(f, sub[c] + 1) /\ Continues(f, E[c], sub[c]) /\ f[sub[c] + 1] = last[c] + n
  <2>1. Laid(E[c], sub[c]) /\ E[c][sub[c]] = last[c]
    BY <1>1
  <2>2. f = Added(E[c], sub[c], n)
    OBVIOUS
  <2> HIDE DEF f
  <2>3. Laid(f, sub[c] + 1) /\ Continues(f, E[c], sub[c]) /\ f[sub[c] + 1] = E[c][sub[c]] + n
    BY <2>1, <2>2, LaidGrows
  <2> QED BY <2>1, <2>3
<1>3. F[c] = f /\ \A d \in Channels : d # c => F[d] = E[d]
  OBVIOUS
<1>4. /\ sub2[c] = sub[c] + 1 /\ last2[c] = last[c] + n
      /\ \A d \in Channels : d # c => sub2[d] = sub[d] /\ last2[d] = last[d]
  OBVIOUS
<1> HIDE DEF f, F, sub2, last2
<1>5. \A d \in Channels : Laid(F[d], sub2[d]) /\ F[d][sub2[d]] = last2[d]
  BY <1>1, <1>2, <1>3, <1>4
<1>6. Layout(F, sub2, last2)
  BY <1>5 DEF Layout
<1>7. \A d : Continues(E[d], E[d], sub[d])
  BY DEF Continues
<1>8. \A d \in Channels : Continues(F[d], E[d], sub[d])
  BY <1>2, <1>3, <1>7
<1>9. Numbers(F, E, sub, last, c, n)
  BY <1>2, <1>3, <1>6, <1>8 DEF Numbers, sub2, last2
<1> QED BY <1>9

\* The commands keep their places.
LEMMA BelongsKept ==
    ASSUME NEW m \in Commands, NEW E, NEW F, NEW sub, NEW nextsub, Belongs(m, E, sub),
           sub[m.ch] \in Nat, nextsub[m.ch] \in Nat, sub[m.ch] <= nextsub[m.ch],
           Continues(F[m.ch], E[m.ch], sub[m.ch])
    PROVE  Belongs(m, F, nextsub)
<1> DEFINE n == sub[m.ch]
           k == nextsub[m.ch]
<1>1. m.pkt \in 1 .. n /\ m.pkt \in Nat /\ n \in Nat /\ k \in Nat /\ n <= k
  BY DEF Belongs, Commands
<1>2. m.pkt \in 1 .. k /\ m.pkt \in 0 .. n /\ m.pkt - 1 \in 0 .. n
  BY <1>1
<1>3. F[m.ch][m.pkt] = E[m.ch][m.pkt] /\ F[m.ch][m.pkt - 1] = E[m.ch][m.pkt - 1]
  BY <1>2 DEF Continues
<1> QED BY <1>2, <1>3 DEF Belongs

\* The new ones have the places after them.
LEMMA BelongsNew ==
    ASSUME NEW E, NEW F, NEW sub \in [Channels -> Nat], NEW last \in [Channels -> Nat],
           NEW c \in Channels, NEW n \in FragmentCounts, Layout(E, sub, last),
           Numbers(F, E, sub, last, c, n), NEW t, Fragments(t, c, n, last[c], sub[c] + 1),
           NEW i \in 1 .. n
    PROVE  Belongs(t[i], F, [sub EXCEPT ![c] = @ + 1])
<1> DEFINE nextsub == [sub EXCEPT ![c] = @ + 1]
           m == t[i]
<1>1. /\ n \in Nat /\ i \in Nat /\ 1 <= i /\ i <= n /\ sub[c] \in Nat /\ last[c] \in Nat
  BY ConstantsAre
<1>2. /\ m.ch = c /\ m.abs = last[c] + i /\ m.frag = i - 1 /\ m.count = n /\ m.pkt = sub[c] + 1
  BY DEF Fragments
<1>3. nextsub[c] = sub[c] + 1
  OBVIOUS
<1>4. F[c][sub[c] + 1] = last[c] + n /\ Continues(F[c], E[c], sub[c]) /\ E[c][sub[c]] = last[c]
  BY DEF Numbers, Layout
<1>5. sub[c] \in 0 .. sub[c]
  BY <1>1
<1>6. F[c][sub[c]] = last[c]
  BY <1>4, <1>5 DEF Continues
<1> HIDE DEF m, nextsub
<1>7. m.pkt - 1 = sub[c] /\ m.pkt \in 1 .. sub[c] + 1
  BY <1>1, <1>2
<1>8. F[m.ch][m.pkt] = last[c] + n /\ F[m.ch][m.pkt - 1] = last[c] /\ m.pkt \in 1 .. nextsub[m.ch]
  BY <1>2, <1>3, <1>4, <1>6, <1>7
<1>9. /\ m.count = F[m.ch][m.pkt] - F[m.ch][m.pkt - 1] /\ m.frag \in 0 .. m.count - 1
      /\ m.abs = F[m.ch][m.pkt - 1] + 1 + m.frag
  BY <1>1, <1>2, <1>8
<1>10. Belongs(m, F, nextsub)
  BY <1>8, <1>9 DEF Belongs
<1> QED BY <1>10 DEF m, nextsub

\* The receiving peer is not concerned.
LEMMA ReceivingGrows ==
    ASSUME NEW e, NEW f, NEW sub, Laid(e, sub), Continues(f, e, sub), NEW k \in Nat, sub <= k,
           NEW seq, NEW queue, NEW d, NEW del, NEW c, NEW p, NEW T,
           Receiving(seq, queue, d, del, c, e, p, sub, T)
    PROVE  /\ Receiving(seq, queue, d, del, c, f, p, k, T)
           /\ SettledIn(queue, f, p) = SettledIn(queue, e, p) /\ f[p] = e[p]
<1>1. sub \in Nat /\ p \in Nat /\ p <= sub /\ p \in 0 .. sub
  BY DEF Laid, Receiving
<1>2. f[p] = e[p]
  BY <1>1 DEF Continues
<1>3. Waits(queue, e, p, sub, T) /\ seq = e[p] % SeqSpace
  BY DEF Receiving
<1>4. ASSUME NEW i \in 1 .. Len(queue)
      PROVE  /\ FirstOf(f, PacketOf(queue[i])) = FirstOf(e, PacketOf(queue[i]))
             /\ HoldsPacket(queue[i], PacketOf(queue[i]), f, p, k, T)
  <2> DEFINE r == PacketOf(queue[i])
  <2>1. HoldsPacket(queue[i], r, e, p, sub, T)
    BY <1>3 DEF Waits
  <2> HIDE DEF r
  <2>2. r \in Nat /\ p < r /\ r <= sub
    BY <2>1 DEF HoldsPacket
  <2>3. r \in 0 .. sub /\ r - 1 \in 0 .. sub /\ r <= k
    BY <1>1, <2>2
  <2>4. f[r] = e[r] /\ f[r - 1] = e[r - 1]
    BY <2>3 DEF Continues
  <2>5. FirstOf(f, r) = FirstOf(e, r)
    BY <2>4 DEF FirstOf
  <2>6. HoldsPacket(queue[i], r, f, p, k, T)
    BY <1>2, <2>1, <2>3, <2>4, <2>5 DEF HoldsPacket
  <2> QED BY <2>5, <2>6 DEF r
<1>5. Waits(queue, f, p, k, T)
  BY <1>3, <1>4 DEF Waits
<1>6. SettledIn(queue, f, p) = SettledIn(queue, e, p)
  BY <1>2, <1>4 DEF SettledIn
<1>7. p <= k
  BY <1>1
<1> QED BY <1>2, <1>3, <1>5, <1>6, <1>7 DEF Receiving

\* A packet is submitted.
LEMMA SendNumbers ==
    ASSUME SenderSound, ReceiverTypes, NetworkTypes,
           NEW c \in Channels, NEW n \in FragmentCounts, Send(c, n),
           NEW E, NEW P, NEW T, NumbersSound(E, P, T)
    PROVE  \E F : NumbersSound(F, P, T)'
<1>1. PICK t : Submits(c, n, t)
  BY SendDoes
<1> DEFINE sub == submitted
           last == lastQueued
           s == sentReliableCommands
           q == outgoingSendReliableCommands
           nextsub == [sub EXCEPT ![c] = @ + 1]
           nextlast == [last EXCEPT ![c] = @ + n]
<1>2. /\ Fragments(t, c, n, last[c], sub[c] + 1) /\ submitted' = nextsub
      /\ lastQueued' = nextlast /\ outgoingSendReliableCommands' = q \o t
      /\ sentReliableCommands' = s /\ data' = data /\ acks' = acks
      /\ Range(q \o t) = Range(q) \cup Range(t) /\ Out(s, q \o t) = Out(s, q)
      /\ incomingReliableSequenceNumber' = incomingReliableSequenceNumber
      /\ incomingReliableCommands' = incomingReliableCommands
      /\ dispatchedCommands' = dispatchedCommands /\ acknowledgements' = acknowledgements
      /\ delivered' = delivered
  BY <1>1 DEF Submits, receiverVars
<1>3. /\ PacketNumbers(E)
      /\ SenderNumbers(SettledOn(incomingReliableCommands, E, P), LastOn(E, P), T)
      /\ ReceiverNumbers(E, P, T)
  BY DEF NumbersSound
<1>4. /\ Layout(E, sub, last)
      /\ \A m \in Range(s) \cup Range(q) \cup data : Belongs(m, E, sub)
  BY <1>3 DEF PacketNumbers
<1>5. /\ sub \in [Channels -> Nat] /\ last \in [Channels -> Nat]
      /\ s \in Seq(Commands) /\ q \in Seq(Commands) /\ data \subseteq Commands
  <2>1. submitted \in [Channels -> 0 .. MaxPackets] /\ MaxPackets \in Nat
    BY ConstantsAre DEF SenderSound, SenderTypes
  <2>2. \A d \in Channels : submitted[d] \in Nat
    BY <2>1
  <2>3. sub \in [Channels -> Nat]
    BY <2>1, <2>2
  <2> QED BY <2>3 DEF SenderSound, SenderTypes, Queued, Listed, NetworkTypes
<1> HIDE DEF sub, last, s, q, nextsub, nextlast
<1>6. PICK F : Numbers(F, E, sub, last, c, n)
  BY <1>4, <1>5, LayoutGrows
<1>7. /\ n \in Nat \ {0} /\ t \in Seq(Commands) /\ Len(t) = n
      /\ \A i \in 1 .. n : t[i].ch = c /\ t[i].abs = last[c] + i /\ Fresh(t[i])
  BY <1>2, ConstantsAre DEF Fragments
<1>8. /\ Layout(F, nextsub, nextlast) /\ \A d \in Channels : Continues(F[d], E[d], sub[d])
  BY <1>6 DEF Numbers, nextsub, nextlast
<1>9. \A d \in Channels : /\ sub[d] \in Nat /\ nextsub[d] \in Nat /\ sub[d] <= nextsub[d]
                          /\ Laid(E[d], sub[d])
  BY <1>4, <1>5 DEF nextsub, Layout
<1>10. ASSUME NEW m \in Range(s) \cup Range(q \o t) \cup data
       PROVE  Belongs(m, F, nextsub)
  <2>1. CASE m \in Range(t)
    <3>1. PICK i \in 1 .. n : t[i] = m
      BY <1>7, <2>1, RangeIs
    <3>2. Belongs(t[i], F, nextsub)
      BY <1>2, <1>4, <1>5, <1>6, BelongsNew DEF nextsub
    <3> QED BY <3>1, <3>2
  <2>2. CASE m \in Range(s) \cup Range(q) \cup data
    <3>1. m \in Commands
      <4>1. /\ \A i \in 1 .. Len(s) : s[i] \in Commands
            /\ \A i \in 1 .. Len(q) : q[i] \in Commands
            /\ m \in Range(s) => \E i \in 1 .. Len(s) : s[i] = m
            /\ m \in Range(q) => \E i \in 1 .. Len(q) : q[i] = m
        BY <1>5, RangeIs
      <4> QED BY <1>5, <2>2, <4>1
    <3>2. m.ch \in Channels
      BY <3>1 DEF Commands
    <3>3. Belongs(m, E, sub)
      BY <1>4, <2>2
    <3>4. /\ sub[m.ch] \in Nat /\ nextsub[m.ch] \in Nat /\ sub[m.ch] <= nextsub[m.ch]
          /\ Continues(F[m.ch], E[m.ch], sub[m.ch])
      BY <1>8, <1>9, <3>2
    <3> QED BY <3>1, <3>3, <3>4, BelongsKept
  <2> QED BY <1>2, <2>1, <2>2
<1>11. PacketNumbers(F)'
  <2>1. Layout(F, submitted', lastQueued')
    BY <1>2, <1>8
  <2>2. \A m \in Range(sentReliableCommands') \cup Range(outgoingSendReliableCommands') \cup data' :
           Belongs(m, F, submitted')
    BY <1>2, <1>10 
  <2> QED BY <2>1, <2>2 DEF PacketNumbers
<1>12. ASSUME NEW d \in Channels
       PROVE  /\ Receiving(incomingReliableSequenceNumber[d], incomingReliableCommands[d],
                     dispatchedCommands, delivered[d], d, F[d], P[d], nextsub[d], T[d])
              /\ SettledIn(incomingReliableCommands[d], F[d], P[d])
                    = SettledIn(incomingReliableCommands[d], E[d], P[d])
              /\ F[d][P[d]] = E[d][P[d]]
  <2>1. Receiving(incomingReliableSequenceNumber[d], incomingReliableCommands[d],
                  dispatchedCommands, delivered[d], d, E[d], P[d], sub[d], T[d])
    BY <1>3 DEF ReceiverNumbers, sub
  <2> QED BY <1>8, <1>9, <2>1, ReceivingGrows
<1>13. ReceiverNumbers(F, P, T)'
  BY <1>2, <1>12 DEF ReceiverNumbers
<1>14. /\ SettledOn(incomingReliableCommands, F, P) = SettledOn(incomingReliableCommands, E, P)
       /\ LastOn(F, P) = LastOn(E, P)
  BY <1>12 DEF SettledOn, LastOn
<1> DEFINE S == SettledOn(incomingReliableCommands, E, P)
           L == LastOn(E, P)
<1>15. /\ Flight(s, q, last, S, L, T) /\ Young(data, T) /\ Known(acks, S, T)
       /\ Owed(acknowledgements, acks, Out(s, q), S, T)
  BY <1>3 DEF SenderNumbers, s, q, last
<1> HIDE DEF S, L
<1>16. Flight(s, q \o t, nextlast, S, L, T)
  <2>1. Pending(q, 0, T, last) /\ Reaching(Out(s, q), S, L, T)
    BY <1>15 DEF Flight
  <2>2. Pending(q \o t, 0, T, nextlast)
    BY <1>5, <1>7, <2>1, PendingAdded DEF nextlast
  <2> QED BY <1>2, <2>1, <2>2 DEF Flight
<1>17. /\ Flight(sentReliableCommands', outgoingSendReliableCommands', lastQueued', S, L, T)
       /\ Young(data', T) /\ Known(acks', S, T)
       /\ Owed(acknowledgements', acks',
               Out(sentReliableCommands', outgoingSendReliableCommands'), S, T)
  BY <1>2, <1>15, <1>16
<1>18. SenderNumbers(SettledOn(incomingReliableCommands, F, P), LastOn(F, P), T)'
  <2>1. /\ SettledOn(incomingReliableCommands', F, P) = S /\ LastOn(F, P) = L
    BY <1>2, <1>14 DEF S, L
  <2> QED BY <1>17, <2>1 DEF SenderNumbers
<1>19. NumbersSound(F, P, T)'
  BY <1>11, <1>13, <1>18 DEF NumbersSound
<1> QED BY <1>19

-----------------------------------------------------------------------------
(* The other steps of the sending peer and of the network *)

\* What is sent later does not concern the receiving peer.
LEMMA ReceivingLater ==
    ASSUME NEW e, NEW sub, Laid(e, sub), NEW T \in Nat, NEW U \in Nat, T <= U,
           NEW seq, NEW queue, NEW d, NEW del, NEW c, NEW p,
           Receiving(seq, queue, d, del, c, e, p, sub, T)
    PROVE  Receiving(seq, queue, d, del, c, e, p, sub, U)
<1>1. Waits(queue, e, p, sub, T)
  BY DEF Receiving
<1>2. ASSUME NEW i \in 1 .. Len(queue)
      PROVE  HoldsPacket(queue[i], PacketOf(queue[i]), e, p, sub, U)
  <2> DEFINE r == PacketOf(queue[i])
             n == queue[i].count
  <2>1. HoldsPacket(queue[i], r, e, p, sub, T)
    BY <1>1 DEF Waits
  <2>2. p \in Nat /\ sub \in Nat
    BY DEF Receiving, Laid
  <2> HIDE DEF r
  <2>3. r \in Nat /\ p < r /\ r <= sub
    BY <2>1 DEF HoldsPacket
  <2>4. r \in 1 .. sub
    BY <2>2, <2>3
  <2>5. FirstOf(e, r) \in Nat
    BY <2>4, LaidIs
  <2>6. ASSUME NEW f \in queue[i].got
        PROVE  FirstOf(e, r) + f <= U
    <3>1. FirstOf(e, r) + f <= T /\ f \in 0 .. n - 1
      BY <2>1 DEF HoldsPacket
    <3>2. f \in Int
      BY <3>1
    <3> QED BY <2>5, <3>1, <3>2
  <2> QED BY <2>1, <2>6 DEF HoldsPacket, r
<1>3. Waits(queue, e, p, sub, U)
  BY <1>1, <1>2 DEF Waits
<1> QED BY <1>3 DEF Receiving

\* A copy of a command belongs where the command does.
LEMMA BelongsAlike ==
    ASSUME NEW m, NEW l, Alike(m, l), NEW E, NEW sub, Belongs(l, E, sub)
    PROVE  Belongs(m, E, sub)
BY DEF Alike, Belongs

\* Commands are sent.
LEMMA SendOutgoingSoundNumbers ==
    ASSUME SenderSound, NetworkTypes, ReceiverTypes,
           NEW timedOut \in SUBSET Range(sentReliableCommands),
           NEW limit \in TransitLimits, SendOutgoing(timedOut, limit),
           NEW E, NEW P, NEW T, NumbersSound(E, P, T)
    PROVE  \E U : NumbersSound(E, P, U)'
<1>1. PICK k, p, n, t : Passes(k, p, n, t)
  BY SendOutgoingDoes
<1> DEFINE S == SettledOn(incomingReliableCommands, E, P)
           L == LastOn(E, P)
<1>2. /\ PacketNumbers(E) /\ SenderNumbers(S, L, T) /\ ReceiverNumbers(E, P, T)
  BY DEF NumbersSound
<1>3. acknowledgements \subseteq [ch : Channels, abs : Nat]
  BY DEF ReceiverTypes
<1> HIDE DEF S, L
<1>4. PICK U :
         /\ Flight(sentReliableCommands', outgoingSendReliableCommands', lastQueued', S, L, U)
         /\ Young(data', U) /\ Known(acks', S, U)
         /\ Owed(acknowledgements', acks',
                 Out(sentReliableCommands', outgoingSendReliableCommands'), S, U)
         /\ \A c \in Channels : T[c] \in Nat /\ U[c] \in Nat /\ T[c] <= U[c]
  BY <1>1, <1>2, <1>3, SendOutgoingNumbers
<1>5. /\ submitted' = submitted /\ lastQueued' = lastQueued
      /\ outgoingSendReliableCommands' = Unsent(p, n)
      /\ sentReliableCommands' = k \o SentNow(p, n)
      /\ data' \subseteq data \cup Range(SentNow(p, n))
      /\ incomingReliableSequenceNumber' = incomingReliableSequenceNumber
      /\ incomingReliableCommands' = incomingReliableCommands
      /\ dispatchedCommands' = dispatchedCommands /\ delivered' = delivered
      /\ Listed(k, p) /\ n \in 0 .. Len(p)
      /\ Range(k) \cup Range(p)
            = Range(sentReliableCommands) \cup Range(outgoingSendReliableCommands)
  BY <1>1 DEF Passes, receiverVars, Alive
<1>6. /\ Layout(E, submitted, lastQueued)
      /\ \A m \in Range(sentReliableCommands) \cup Range(outgoingSendReliableCommands) \cup data :
            Belongs(m, E, submitted)
  BY <1>2 DEF PacketNumbers
<1>7. ASSUME NEW m \in Range(sentReliableCommands') \cup Range(outgoingSendReliableCommands')
                        \cup data'
      PROVE  Belongs(m, E, submitted)
  <2>1. CASE m \in data
    BY <1>6, <2>1
  <2>2. CASE m \notin data
    <3>1. \/ m \in Range(k \o SentNow(p, n)) \cup Range(Unsent(p, n))
          \/ m \in Range(SentNow(p, n))
      BY <1>5, <2>2
    <3>2. \E l \in Range(k) \cup Range(p) : Alike(m, l)
      BY <1>5, <3>1, SentAlike
    <3> QED BY <1>5, <1>6, <3>2, BelongsAlike
  <2> QED BY <2>1, <2>2
<1>8. PacketNumbers(E)'
  BY <1>5, <1>6, <1>7 DEF PacketNumbers
<1>9. ASSUME NEW c \in Channels
      PROVE  Receiving(incomingReliableSequenceNumber[c], incomingReliableCommands[c],
                       dispatchedCommands, delivered[c], c, E[c], P[c], submitted[c], U[c])
  <2>1. Laid(E[c], submitted[c])
    BY <1>6 DEF Layout
  <2>2. Receiving(incomingReliableSequenceNumber[c], incomingReliableCommands[c],
                  dispatchedCommands, delivered[c], c, E[c], P[c], submitted[c], T[c])
    BY <1>2 DEF ReceiverNumbers
  <2> QED BY <1>4, <2>1, <2>2, ReceivingLater
<1>10. ReceiverNumbers(E, P, U)'
  BY <1>5, <1>9 DEF ReceiverNumbers
<1>11. SenderNumbers(SettledOn(incomingReliableCommands, E, P), LastOn(E, P), U)'
  <2>1. /\ SettledOn(incomingReliableCommands', E, P) = S /\ LastOn(E, P) = L
    BY <1>5 DEF S, L
  <2> QED BY <1>4, <2>1 DEF SenderNumbers
<1>12. NumbersSound(E, P, U)'
  BY <1>8, <1>10, <1>11 DEF NumbersSound
<1> QED BY <1>12

\* The packets stay numbered while nothing is submitted and no command is new.
LEMMA PacketsKept ==
    ASSUME NEW E, PacketNumbers(E), submitted' = submitted, lastQueued' = lastQueued,
           Range(sentReliableCommands') \cup Range(outgoingSendReliableCommands')
              \subseteq Range(sentReliableCommands) \cup Range(outgoingSendReliableCommands),
           data' \subseteq data
    PROVE  PacketNumbers(E)'
<1>1. /\ Layout(E, submitted, lastQueued)
      /\ \A m \in Range(sentReliableCommands) \cup Range(outgoingSendReliableCommands) \cup data :
            Belongs(m, E, submitted)
  BY DEF PacketNumbers
<1>2. \A m \in Range(sentReliableCommands') \cup Range(outgoingSendReliableCommands') \cup data' :
         Belongs(m, E, submitted)
  BY <1>1
<1> QED BY <1>1, <1>2 DEF PacketNumbers

\* The receiving peer's numbers, when it does nothing.
LEMMA ReceiverStays ==
    ASSUME NEW E, NEW P, NEW T, ReceiverNumbers(E, P, T), submitted' = submitted,
           incomingReliableSequenceNumber' = incomingReliableSequenceNumber,
           incomingReliableCommands' = incomingReliableCommands,
           dispatchedCommands' = dispatchedCommands, delivered' = delivered
    PROVE  ReceiverNumbers(E, P, T)'
BY DEF ReceiverNumbers

\* An acknowledgement arrives.
LEMMA AcknowledgeSoundNumbers ==
    ASSUME SenderSound, NetworkTypes, ReceiverTypes, NEW a \in acks, HandleAcknowledge(a),
           NEW E, NEW P, NEW T, NumbersSound(E, P, T)
    PROVE  NumbersSound(E, P, T)'
<1> DEFINE S == SettledOn(incomingReliableCommands, E, P)
           L == LastOn(E, P)
<1>1. /\ PacketNumbers(E) /\ SenderNumbers(S, L, T) /\ ReceiverNumbers(E, P, T)
  BY DEF NumbersSound
<1>2. acknowledgements \subseteq [ch : Channels, abs : Nat]
  BY DEF ReceiverTypes
<1> HIDE DEF S, L
<1>3. /\ Flight(sentReliableCommands', outgoingSendReliableCommands', lastQueued', S, L, T)
      /\ Young(data', T) /\ Known(acks', S, T)
      /\ Owed(acknowledgements', acks',
              Out(sentReliableCommands', outgoingSendReliableCommands'), S, T)
  BY <1>1, <1>2, AcknowledgeNumbers
<1>4. /\ submitted' = submitted /\ lastQueued' = lastQueued /\ data' = data
      /\ incomingReliableSequenceNumber' = incomingReliableSequenceNumber
      /\ incomingReliableCommands' = incomingReliableCommands
      /\ dispatchedCommands' = dispatchedCommands /\ delivered' = delivered
  BY DEF HandleAcknowledge, receiverVars
<1>5. Range(sentReliableCommands') \cup Range(outgoingSendReliableCommands')
         \subseteq Range(sentReliableCommands) \cup Range(outgoingSendReliableCommands)
  <2>1. Pending(outgoingSendReliableCommands, 0, T, lastQueued)
    BY <1>1 DEF SenderNumbers, Flight
  <2>2. Ignores \/ \E m : Forgets(a, m, T)
    BY <2>1, AcknowledgeDoes
  <2> QED BY <2>2 DEF Ignores, Forgets
<1>6. PacketNumbers(E)'
  BY <1>1, <1>4, <1>5, PacketsKept
<1>7. ReceiverNumbers(E, P, T)'
  BY <1>1, <1>4, ReceiverStays
<1>8. SenderNumbers(SettledOn(incomingReliableCommands, E, P), LastOn(E, P), T)'
  <2>1. /\ SettledOn(incomingReliableCommands', E, P) = S /\ LastOn(E, P) = L
    BY <1>4 DEF S, L
  <2> QED BY <1>3, <2>1 DEF SenderNumbers
<1> QED BY <1>6, <1>7, <1>8 DEF NumbersSound

\* Acknowledgements are sent.
LEMMA SendAcknowledgementsNumbers ==
    ASSUME ReceiverTypes, SendAcknowledgements, NEW E, NEW P, NEW T, NumbersSound(E, P, T)
    PROVE  NumbersSound(E, P, T)'
<1> DEFINE S == SettledOn(incomingReliableCommands, E, P)
           L == LastOn(E, P)
           O == Out(sentReliableCommands, outgoingSendReliableCommands)
<1>1. /\ PacketNumbers(E) /\ SenderNumbers(S, L, T) /\ ReceiverNumbers(E, P, T)
  BY DEF NumbersSound
<1>2. acknowledgements \subseteq [ch : Channels, abs : Nat]
  BY DEF ReceiverTypes
<1>3. /\ acks' = acks \cup acknowledgements /\ acknowledgements' = {}
      /\ submitted' = submitted /\ lastQueued' = lastQueued /\ data' = data
      /\ sentReliableCommands' = sentReliableCommands
      /\ outgoingSendReliableCommands' = outgoingSendReliableCommands
      /\ incomingReliableSequenceNumber' = incomingReliableSequenceNumber
      /\ incomingReliableCommands' = incomingReliableCommands
      /\ dispatchedCommands' = dispatchedCommands /\ delivered' = delivered
  BY DEF SendAcknowledgements, senderVars
<1> HIDE DEF S, L, O
<1>4. /\ Flight(sentReliableCommands, outgoingSendReliableCommands, lastQueued, S, L, T)
      /\ Young(data, T) /\ Known(acks, S, T) /\ Owed(acknowledgements, acks, O, S, T)
  BY <1>1 DEF SenderNumbers, O
<1>5. Known(acknowledgements, S, T)
  <2>1. Reaching(O, S, L, T)
    BY <1>4 DEF Flight, O
  <2> QED BY <1>2, <1>4, <2>1, OwedKnown
<1>6. Known(acks', S, T)
  BY <1>3, <1>4, <1>5 DEF Known
<1>7. Owed(acknowledgements', acks',
           Out(sentReliableCommands', outgoingSendReliableCommands'), S, T)
  BY <1>3 DEF Owed
<1>8. /\ SettledOn(incomingReliableCommands', E, P) = S /\ LastOn(E, P) = L
  BY <1>3 DEF S, L
<1>9. SenderNumbers(SettledOn(incomingReliableCommands, E, P), LastOn(E, P), T)'
  BY <1>3, <1>4, <1>6, <1>7, <1>8 DEF SenderNumbers
<1>10. PacketNumbers(E)'
  BY <1>1, <1>3, PacketsKept
<1>11. ReceiverNumbers(E, P, T)'
  BY <1>1, <1>3, ReceiverStays
<1> QED BY <1>9, <1>10, <1>11 DEF NumbersSound

\* Datagrams are lost, or nothing happens.
LEMMA LossNumbers ==
    ASSUME UNCHANGED <<senderVars, receiverVars>>, data' \subseteq data, acks' \subseteq acks,
           NEW E, NEW P, NEW T, NumbersSound(E, P, T)
    PROVE  NumbersSound(E, P, T)'
<1> DEFINE S == SettledOn(incomingReliableCommands, E, P)
           L == LastOn(E, P)
           O == Out(sentReliableCommands, outgoingSendReliableCommands)
<1>1. /\ PacketNumbers(E) /\ SenderNumbers(S, L, T) /\ ReceiverNumbers(E, P, T)
  BY DEF NumbersSound
<1>2. /\ acknowledgements' = acknowledgements
      /\ submitted' = submitted /\ lastQueued' = lastQueued
      /\ sentReliableCommands' = sentReliableCommands
      /\ outgoingSendReliableCommands' = outgoingSendReliableCommands
      /\ incomingReliableSequenceNumber' = incomingReliableSequenceNumber
      /\ incomingReliableCommands' = incomingReliableCommands
      /\ dispatchedCommands' = dispatchedCommands /\ delivered' = delivered
  BY DEF senderVars, receiverVars
<1> HIDE DEF S, L, O
<1>3. /\ Flight(sentReliableCommands, outgoingSendReliableCommands, lastQueued, S, L, T)
      /\ Young(data, T) /\ Known(acks, S, T) /\ Owed(acknowledgements, acks, O, S, T)
  BY <1>1 DEF SenderNumbers, O
<1>4. Young(data', T) /\ Known(acks', S, T)
  BY <1>3 DEF Young, Known
<1>5. Owed(acknowledgements, acks', O, S, T)
  <2> SUFFICES ASSUME NEW a \in acknowledgements
               PROVE  /\ StartAt < a.abs /\ a.abs <= T[a.ch] /\ a.abs \in S[a.ch]
                      /\ \E t \in Nat :
                            /\ t < a.abs + Lifetime
                            /\ \A x \in Nat : t < x /\ x <= T[a.ch] =>
                                  x \in Awaited(O, a.ch) /\ \A b \in acks' : b.ch = a.ch => b.abs # x
    BY DEF Owed
  <2>1. /\ StartAt < a.abs /\ a.abs <= T[a.ch] /\ a.abs \in S[a.ch]
    BY <1>3 DEF Owed
  <2>2. PICK t \in Nat :
           /\ t < a.abs + Lifetime
           /\ \A x \in Nat : t < x /\ x <= T[a.ch] =>
                 x \in Awaited(O, a.ch) /\ \A b \in acks : b.ch = a.ch => b.abs # x
    BY <1>3 DEF Owed
  <2>3. \A x \in Nat : t < x /\ x <= T[a.ch] =>
                 x \in Awaited(O, a.ch) /\ \A b \in acks' : b.ch = a.ch => b.abs # x
    BY <2>2
  <2> QED BY <2>1, <2>2, <2>3
<1>6. /\ SettledOn(incomingReliableCommands', E, P) = S /\ LastOn(E, P) = L
  BY <1>2 DEF S, L
<1>7. SenderNumbers(SettledOn(incomingReliableCommands, E, P), LastOn(E, P), T)'
  BY <1>2, <1>3, <1>4, <1>5, <1>6 DEF SenderNumbers, O
<1>8. PacketNumbers(E)'
  BY <1>1, <1>2, PacketsKept
<1>9. ReceiverNumbers(E, P, T)'
  BY <1>1, <1>2, ReceiverStays
<1> QED BY <1>7, <1>8, <1>9 DEF NumbersSound

-----------------------------------------------------------------------------
(* The application receives a packet *)

\* All but the first.
LEMMA TailIs ==
    ASSUME NEW d \in Seq(Dispatched), d # <<>>
    PROVE  /\ Tail(d) \in Seq(Dispatched) /\ Len(d) \in Nat /\ Len(d) >= 1
           /\ Len(Tail(d)) = Len(d) - 1 /\ Head(d) = d[1]
           /\ \A i \in 1 .. Len(Tail(d)) : i + 1 \in 1 .. Len(d) /\ Tail(d)[i] = d[i + 1]
<1>1. Len(d) \in Nat /\ Len(d) # 0 /\ Tail(d) \in Seq(Dispatched) /\ Len(Tail(d)) = Len(d) - 1
  OBVIOUS
<1>2. Head(d) = d[1] /\ \A i \in 1 .. Len(Tail(d)) : Tail(d)[i] = d[i + 1]
  OBVIOUS
<1>3. \A i \in 1 .. Len(Tail(d)) : i + 1 \in 1 .. Len(d)
  BY <1>1
<1> QED BY <1>1, <1>2, <1>3

\* The first packet of a channel that waits is the next one.
LEMMA FirstPassed ==
    ASSUME NEW d \in Seq(Dispatched), d # <<>>, NEW c, NEW n, NEW p, PassedOn(d, c, n, p),
           d[1].ch = c
    PROVE  /\ n \in Nat /\ n + 1 <= p /\ d[1].src = {n + 1}
           /\ \A i \in 1 .. Len(d) : d[i].ch = c /\ i # 1 => n + 1 < PacketOf(d[i])
<1>1. /\ n \in Nat /\ p \in Nat /\ n <= p
      /\ \A i \in 1 .. Len(d) : d[i].ch = c =>
            /\ PacketOf(d[i]) \in Nat /\ n < PacketOf(d[i]) /\ PacketOf(d[i]) <= p
            /\ d[i].src = {PacketOf(d[i])}
      /\ \A i, j \in 1 .. Len(d) :
            i < j /\ d[i].ch = c /\ d[j].ch = c => PacketOf(d[i]) < PacketOf(d[j])
      /\ \A x \in Nat : n < x /\ x <= p => \E i \in 1 .. Len(d) : d[i].ch = c /\ PacketOf(d[i]) = x
  BY DEF PassedOn
<1>2. PICK z \in 1 .. Len(d) : z = 1
  BY TailIs
<1>3. /\ PacketOf(d[z]) \in Nat /\ n < PacketOf(d[z]) /\ PacketOf(d[z]) <= p
      /\ d[z].src = {PacketOf(d[z])}
  BY <1>1, <1>2
<1>4. n + 1 \in Nat /\ n < n + 1 /\ n + 1 <= p
  BY <1>1, <1>3
<1>5. PICK i \in 1 .. Len(d) : d[i].ch = c /\ PacketOf(d[i]) = n + 1
  BY <1>1, <1>4
<1>6. Len(d) \in Nat
  BY TailIs
<1>7. i = z
  <2> SUFFICES ASSUME i # z PROVE FALSE
    OBVIOUS
  <2>1. z < i
    BY <1>2, <1>6
  <2>2. PacketOf(d[z]) < PacketOf(d[i])
    BY <1>1, <1>2, <1>5, <2>1
  <2> QED BY <1>1, <1>3, <1>5, <2>2
<1>8. d[1].src = {n + 1}
  BY <1>2, <1>3, <1>5, <1>7
<1>9. ASSUME NEW j \in 1 .. Len(d), d[j].ch = c, j # 1
      PROVE  n + 1 < PacketOf(d[j])
  <2>1. z < j
    BY <1>2, <1>6, <1>9
  <2> QED BY <1>1, <1>2, <1>5, <1>7, <1>9, <2>1
<1> QED BY <1>1, <1>4, <1>8, <1>9

\* The rest of the packets of the channel of the first one.
LEMMA RestPassed ==
    ASSUME NEW d \in Seq(Dispatched), d # <<>>, NEW c, NEW n, NEW p, PassedOn(d, c, n, p),
           d[1].ch = c
    PROVE  PassedOn(Tail(d), c, n + 1, p)
<1> DEFINE t == Tail(d)
<1>1. /\ n \in Nat /\ p \in Nat /\ n <= p
      /\ \A i \in 1 .. Len(d) : d[i].ch = c =>
            /\ PacketOf(d[i]) \in Nat /\ n < PacketOf(d[i]) /\ PacketOf(d[i]) <= p
            /\ d[i].src = {PacketOf(d[i])}
      /\ \A i, j \in 1 .. Len(d) :
            i < j /\ d[i].ch = c /\ d[j].ch = c => PacketOf(d[i]) < PacketOf(d[j])
      /\ \A x \in Nat : n < x /\ x <= p => \E i \in 1 .. Len(d) : d[i].ch = c /\ PacketOf(d[i]) = x
  BY DEF PassedOn
<1>2. /\ n + 1 <= p /\ d[1].src = {n + 1}
      /\ \A i \in 1 .. Len(d) : d[i].ch = c /\ i # 1 => n + 1 < PacketOf(d[i])
  BY FirstPassed
<1>3. /\ Len(d) \in Nat /\ Len(t) = Len(d) - 1
      /\ \A i \in 1 .. Len(t) : i + 1 \in 1 .. Len(d) /\ t[i] = d[i + 1]
  BY TailIs
<1> HIDE DEF t
<1>4. ASSUME NEW i \in 1 .. Len(t), t[i].ch = c
      PROVE  /\ PacketOf(t[i]) \in Nat /\ n + 1 < PacketOf(t[i]) /\ PacketOf(t[i]) <= p
             /\ t[i].src = {PacketOf(t[i])}
  <2>1. /\ i + 1 \in 1 .. Len(d) /\ t[i] = d[i + 1] /\ i + 1 # 1
    BY <1>3
  <2> QED BY <1>1, <1>2, <1>4, <2>1
<1>5. ASSUME NEW i \in 1 .. Len(t), NEW j \in 1 .. Len(t), i < j, t[i].ch = c, t[j].ch = c
      PROVE  PacketOf(t[i]) < PacketOf(t[j])
  <2>1. /\ i + 1 \in 1 .. Len(d) /\ j + 1 \in 1 .. Len(d) /\ i + 1 < j + 1
        /\ t[i] = d[i + 1] /\ t[j] = d[j + 1]
    BY <1>3, <1>5
  <2> QED BY <1>1, <1>5, <2>1
<1>6. ASSUME NEW x \in Nat, n + 1 < x, x <= p
      PROVE  \E i \in 1 .. Len(t) : t[i].ch = c /\ PacketOf(t[i]) = x
  <2>1. n < x
    BY <1>1, <1>6
  <2>2. PICK i \in 1 .. Len(d) : d[i].ch = c /\ PacketOf(d[i]) = x
    BY <1>1, <1>6, <2>1
  <2>3. PacketOf(d[1]) = n + 1
    BY <1>2, PacketIs
  <2>4. i # 1
    BY <1>1, <1>6, <2>2, <2>3
  <2>5. i - 1 \in 1 .. Len(t) /\ (i - 1) + 1 = i
    BY <1>3, <2>4
  <2>6. t[i - 1] = d[i]
    BY <1>3, <2>5
  <2> QED BY <2>2, <2>5, <2>6
<1>7. n + 1 \in Nat
  BY <1>1
<1>8. PassedOn(t, c, n + 1, p)
  BY <1>1, <1>2, <1>4, <1>5, <1>6, <1>7 DEF PassedOn
<1> QED BY <1>8 DEF t

\* The packets of another channel.
LEMMA OthersPassed ==
    ASSUME NEW d \in Seq(Dispatched), d # <<>>, NEW c, NEW n, NEW p, PassedOn(d, c, n, p),
           d[1].ch # c
    PROVE  PassedOn(Tail(d), c, n, p)
<1> DEFINE t == Tail(d)
<1>1. /\ n \in Nat /\ p \in Nat /\ n <= p
      /\ \A i \in 1 .. Len(d) : d[i].ch = c =>
            /\ PacketOf(d[i]) \in Nat /\ n < PacketOf(d[i]) /\ PacketOf(d[i]) <= p
            /\ d[i].src = {PacketOf(d[i])}
      /\ \A i, j \in 1 .. Len(d) :
            i < j /\ d[i].ch = c /\ d[j].ch = c => PacketOf(d[i]) < PacketOf(d[j])
      /\ \A x \in Nat : n < x /\ x <= p => \E i \in 1 .. Len(d) : d[i].ch = c /\ PacketOf(d[i]) = x
  BY DEF PassedOn
<1>2. /\ Len(d) \in Nat /\ Len(t) = Len(d) - 1
      /\ \A i \in 1 .. Len(t) : i + 1 \in 1 .. Len(d) /\ t[i] = d[i + 1]
  BY TailIs
<1> HIDE DEF t
<1>3. ASSUME NEW i \in 1 .. Len(t), t[i].ch = c
      PROVE  /\ PacketOf(t[i]) \in Nat /\ n < PacketOf(t[i]) /\ PacketOf(t[i]) <= p
             /\ t[i].src = {PacketOf(t[i])}
  <2>1. i + 1 \in 1 .. Len(d) /\ t[i] = d[i + 1]
    BY <1>2
  <2> QED BY <1>1, <1>3, <2>1
<1>4. ASSUME NEW i \in 1 .. Len(t), NEW j \in 1 .. Len(t), i < j, t[i].ch = c, t[j].ch = c
      PROVE  PacketOf(t[i]) < PacketOf(t[j])
  <2>1. /\ i + 1 \in 1 .. Len(d) /\ j + 1 \in 1 .. Len(d) /\ i + 1 < j + 1
        /\ t[i] = d[i + 1] /\ t[j] = d[j + 1]
    BY <1>2, <1>4
  <2> QED BY <1>1, <1>4, <2>1
<1>5. ASSUME NEW x \in Nat, n < x, x <= p
      PROVE  \E i \in 1 .. Len(t) : t[i].ch = c /\ PacketOf(t[i]) = x
  <2>1. PICK i \in 1 .. Len(d) : d[i].ch = c /\ PacketOf(d[i]) = x
    BY <1>1, <1>5
  <2>2. i # 1
    BY <2>1
  <2>3. i - 1 \in 1 .. Len(t) /\ (i - 1) + 1 = i
    BY <1>2, <2>2
  <2>4. t[i - 1] = d[i]
    BY <1>2, <2>3
  <2> QED BY <2>1, <2>3, <2>4
<1>6. PassedOn(t, c, n, p)
  BY <1>1, <1>3, <1>4, <1>5 DEF PassedOn
<1> QED BY <1>6 DEF t

\* One channel of the receiving peer, when the application takes a packet of it.
LEMMA ReceivingTaken ==
    ASSUME NEW d \in Seq(Dispatched), d # <<>>, NEW del \in Seq(SUBSET Nat),
           NEW seq, NEW queue, NEW c, NEW e, NEW p, NEW sub, NEW T,
           Receiving(seq, queue, d, del, c, e, p, sub, T), sub \in Nat,
           NEW x, x = Head(d), x.ch = c
    PROVE  /\ Receiving(seq, queue, Tail(d), Append(del, x.src), c, e, p, sub, T)
           /\ x.src = {Len(del) + 1} /\ Len(del) < sub
<1>1. /\ p \in Nat /\ p <= sub /\ PassedOn(d, c, Len(del), p)
      /\ \A k \in 1 .. Len(del) : del[k] = {k}
  BY DEF Receiving
<1>2. Len(del) \in Nat /\ Len(del) + 1 <= p /\ x.src = {Len(del) + 1} /\ x = d[1]
  <2>1. x = d[1]
    BY TailIs
  <2> QED BY <1>1, <2>1, FirstPassed
<1>3. PassedOn(Tail(d), c, Len(del) + 1, p)
  BY <1>1, <1>2, RestPassed
<1> DEFINE next == Append(del, {Len(del) + 1})
<1>4. Len(next) = Len(del) + 1 /\ \A k \in 1 .. Len(del) + 1 : next[k] = {k}
  <2>1. {Len(del) + 1} \in SUBSET Nat
    BY <1>2
  <2>2. /\ Len(next) = Len(del) + 1
        /\ \A k \in 1 .. Len(del) + 1 : next[k] = IF k = Len(del) + 1 THEN {Len(del) + 1} ELSE del[k]
    BY <2>1
  <2>3. \A k \in 1 .. Len(del) + 1 : k # Len(del) + 1 => k \in 1 .. Len(del)
    BY <1>2
  <2> HIDE DEF next
  <2> QED BY <1>1, <2>2, <2>3
<1> HIDE DEF next
<1>5. Receiving(seq, queue, Tail(d), next, c, e, p, sub, T)
  BY <1>3, <1>4 DEF Receiving
<1>6. next = Append(del, x.src)
  BY <1>2 DEF next
<1>7. Len(del) < sub
  BY <1>1, <1>2
<1> QED BY <1>2, <1>5, <1>6, <1>7

\* The application receives.
LEMMA ReceiveNumbers ==
    ASSUME ReceiverTypes, Receive, NEW E, NEW P, NEW T, NumbersSound(E, P, T)
    PROVE  NumbersSound(E, P, T)'
<1> DEFINE S == SettledOn(incomingReliableCommands, E, P)
           L == LastOn(E, P)
           d == dispatchedCommands
<1>1. /\ PacketNumbers(E) /\ SenderNumbers(S, L, T) /\ ReceiverNumbers(E, P, T)
  BY DEF NumbersSound
<1>2. /\ acks' = acks /\ acknowledgements' = acknowledgements
      /\ submitted' = submitted /\ lastQueued' = lastQueued /\ data' = data
      /\ sentReliableCommands' = sentReliableCommands
      /\ outgoingSendReliableCommands' = outgoingSendReliableCommands
      /\ incomingReliableSequenceNumber' = incomingReliableSequenceNumber
      /\ incomingReliableCommands' = incomingReliableCommands
      /\ d # <<>> /\ dispatchedCommands' = Tail(d)
      /\ delivered' = [delivered EXCEPT ![Head(d).ch] = Append(@, Head(d).src)]
  BY DEF Receive, senderVars
<1>3. d \in Seq(Dispatched) /\ delivered \in [Channels -> Seq(SUBSET Nat)]
  BY DEF ReceiverTypes
<1> HIDE DEF S, L, d
<1>4. PICK x : x = Head(d) /\ x = d[1] /\ x.ch \in Channels
  <2>1. 1 \in 1 .. Len(d) /\ Head(d) = d[1]
    BY <1>2, <1>3, TailIs
  <2>2. d[1] \in Dispatched
    BY <1>3, <2>1
  <2> QED BY <2>1, <2>2 DEF Dispatched
<1>5. /\ delivered'[x.ch] = Append(delivered[x.ch], x.src)
      /\ \A c \in Channels : c # x.ch => delivered'[c] = delivered[c]
  BY <1>2, <1>3, <1>4
<1>6. ASSUME NEW c \in Channels
      PROVE  Receiving(incomingReliableSequenceNumber[c], incomingReliableCommands[c],
                       Tail(d), delivered'[c], c, E[c], P[c], submitted[c], T[c])
  <2>1. Receiving(incomingReliableSequenceNumber[c], incomingReliableCommands[c],
                  d, delivered[c], c, E[c], P[c], submitted[c], T[c])
    BY <1>1 DEF ReceiverNumbers, d
  <2>2. CASE x.ch = c
    <3>1. delivered[c] \in Seq(SUBSET Nat) /\ submitted[c] \in Nat
      BY <1>1, <1>3 DEF PacketNumbers, Layout, Laid
    <3>2. Receiving(incomingReliableSequenceNumber[c], incomingReliableCommands[c],
                    Tail(d), Append(delivered[c], x.src), c, E[c], P[c], submitted[c], T[c])
      BY <1>2, <1>3, <1>4, <2>1, <2>2, <3>1, ReceivingTaken
    <3> QED BY <1>5, <2>2, <3>2
  <2>3. CASE x.ch # c
    <3>1. PassedOn(Tail(d), c, Len(delivered[c]), P[c])
      <4>1. PassedOn(d, c, Len(delivered[c]), P[c])
        BY <2>1 DEF Receiving
      <4> QED BY <1>2, <1>3, <1>4, <2>3, <4>1, OthersPassed
    <3>2. delivered'[c] = delivered[c]
      BY <1>5, <2>3
    <3> QED BY <2>1, <3>1, <3>2 DEF Receiving
  <2> QED BY <2>2, <2>3
<1>7. ReceiverNumbers(E, P, T)'
  BY <1>2, <1>6 DEF ReceiverNumbers
<1>8. SenderNumbers(SettledOn(incomingReliableCommands, E, P), LastOn(E, P), T)'
  <2>1. /\ SettledOn(incomingReliableCommands', E, P) = S /\ LastOn(E, P) = L
    BY <1>2 DEF S, L
  <2> QED BY <1>1, <1>2, <2>1 DEF SenderNumbers
<1>9. PacketNumbers(E)'
  BY <1>1, <1>2, PacketsKept
<1> QED BY <1>7, <1>8, <1>9 DEF NumbersSound

-----------------------------------------------------------------------------
(* A datagram meets the receiving peer *)

\* Where the last packet dispatched and the newest number sent may be.
Ahead(e, p, sub, T) ==
    /\ Laid(e, sub) /\ p \in Nat /\ p <= sub /\ T \in Nat
    /\ e[p] \in Nat /\ StartAt <= e[p] /\ e[p] <= T /\ T < e[p] + SeqSpace
    /\ Window(T) <= Window(e[p]) + FreeWindows - 1

\* A command of packet m.pkt that is not too old.
Comes(m, e, sub, T) ==
    /\ m \in Commands /\ m.pkt \in 1 .. sub /\ m.count \in FragmentCounts
    /\ m.abs = FirstOf(e, m.pkt) + m.frag /\ m.frag < m.count
    /\ m.count = e[m.pkt] - e[m.pkt - 1]
    /\ e[m.pkt] = FirstOf(e, m.pkt) + m.count - 1
    /\ m.abs <= T /\ T < m.abs + Lifetime

\* The numbers in flight lie within the windows after the last packet dispatched.
LEMMA AheadIs ==
    ASSUME NEW O, NEW S, NEW L, NEW T, Reaching(O, S, L, T), NEW c \in Channels,
           NEW e, NEW sub, Laid(e, sub), NEW p, p \in Nat, p <= sub, L[c] = e[p]
    PROVE  Ahead(e, p, sub, T[c])
<1>1. Reach(Awaited(O, c), S[c], L[c], T[c])
  BY DEF Reaching
<1>2. StartAt <= L[c]
  BY <1>1 DEF Reach
<1>3. /\ L[c] \in Nat /\ T[c] \in Nat /\ L[c] <= T[c] /\ T[c] < L[c] + SeqSpace
      /\ Window(T[c]) <= Window(L[c]) + FreeWindows - 1
  BY <1>1, ReachSpan
<1> QED BY <1>2, <1>3 DEF Ahead

\* A datagram of the network is a fragment of a submitted packet.
LEMMA ComesIs ==
    ASSUME NEW m \in Commands, NEW E, NEW sub, Laid(E[m.ch], sub[m.ch]), Belongs(m, E, sub),
           NEW T, m.abs <= T, T < m.abs + Lifetime
    PROVE  Comes(m, E[m.ch], sub[m.ch], T)
<1>1. m.count = E[m.ch][m.pkt] - E[m.ch][m.pkt - 1]
  BY DEF Belongs
<1>2. /\ m.pkt \in 1 .. sub[m.ch] /\ m.count \in FragmentCounts
      /\ m.abs = FirstOf(E[m.ch], m.pkt) + m.frag /\ m.frag < m.count
      /\ E[m.ch][m.pkt] = FirstOf(E[m.ch], m.pkt) + m.count - 1
  BY BelongsIs
<1> QED BY <1>1, <1>2 DEF Comes

\* The first number of the packet is what the handlers compare.
LEMMA StartIs ==
    ASSUME NEW m, NEW e, NEW sub, Laid(e, sub), NEW T, Comes(m, e, sub, T)
    PROVE  /\ m.pkt \in Nat /\ m.abs \in Nat /\ m.frag \in Nat /\ m.count \in Nat /\ m.count >= 1
           /\ FirstOf(e, m.pkt) \in Nat /\ FirstOf(e, m.pkt) <= m.abs /\ m.abs <= e[m.pkt]
           /\ StartAt < FirstOf(e, m.pkt) /\ e[m.pkt] \in Nat
           /\ StartSeq16(m) = FirstOf(e, m.pkt) % SeqSpace
           /\ m.count = 1 => m.frag = 0 /\ m.abs = FirstOf(e, m.pkt) /\ m.abs = e[m.pkt]
                             /\ Seq16(m) = FirstOf(e, m.pkt) % SeqSpace
<1> DEFINE y == FirstOf(e, m.pkt)
<1>1. /\ m \in Commands /\ m.pkt \in 1 .. sub /\ m.abs = y + m.frag /\ m.frag < m.count
      /\ e[m.pkt] = y + m.count - 1
  BY DEF Comes
<1>2. m.pkt \in Nat /\ m.abs \in Nat /\ m.frag \in Nat /\ m.count \in Nat
  BY <1>1 DEF Commands
<1>3. y \in Nat /\ StartAt < y
  BY <1>1, LaidIs
<1> HIDE DEF y
<1>4. m.count >= 1 /\ y <= m.abs /\ m.abs <= e[m.pkt] /\ m.abs - m.frag = y /\ e[m.pkt] \in Nat
  BY <1>1, <1>2, <1>3
<1>5. m.count = 1 => m.frag = 0 /\ m.abs = y /\ m.abs = e[m.pkt]
  BY <1>1, <1>2, <1>3
<1>6. StartSeq16(m) = y % SeqSpace
  BY <1>4 DEF StartSeq16
<1>7. m.count = 1 => Seq16(m) = y % SeqSpace
  BY <1>5 DEF Seq16
<1> QED BY <1>2, <1>3, <1>4, <1>5, <1>6, <1>7 DEF y

\* A datagram of a packet that was dispatched is refused or a duplicate of the last.
LEMMA OldRefused ==
    ASSUME NEW e, NEW p, NEW sub, NEW T, Ahead(e, p, sub, T), NEW m, Comes(m, e, sub, T),
           m.pkt <= p
    PROVE  /\ m.abs <= e[p]
           /\ \/ ~ InWindow(FirstOf(e, m.pkt) % SeqSpace, e[p] % SeqSpace)
              \/ m.count = 1 /\ FirstOf(e, m.pkt) % SeqSpace = e[p] % SeqSpace
<1> DEFINE y == FirstOf(e, m.pkt)
           L == e[p]
           k == WindowSize * (Windows - FreeWindows + 1)
<1>1. /\ Laid(e, sub) /\ p \in Nat /\ p <= sub /\ T \in Nat /\ L \in Nat /\ L <= T /\ sub \in Nat
  BY DEF Ahead, Laid
<1>2. /\ m.pkt \in Nat /\ m.abs \in Nat /\ m.frag \in Nat /\ m.count \in Nat
      /\ y \in Nat /\ y <= m.abs /\ m.abs <= e[m.pkt] /\ e[m.pkt] \in Nat
  BY <1>1, StartIs
<1>3. /\ m.pkt \in 1 .. sub /\ m.count \in FragmentCounts /\ m.abs = y + m.frag
      /\ m.frag < m.count /\ T < m.abs + Lifetime /\ e[m.pkt] = y + m.count - 1
  BY DEF Comes
<1>4. e[m.pkt] <= L
  <2>1. m.pkt \in 0 .. sub /\ p \in 0 .. sub
    BY <1>1, <1>3
  <2> QED BY <1>1, <2>1, LaidIs
<1>5. Lifetime \in Nat /\ Lifetime + m.count <= k + 1
  BY <1>3, ConstantsAre
<1>6. k \in Int
  <2>1. WindowSize \in Int /\ Windows - FreeWindows + 1 \in Int
    BY WindowBounds
  <2> QED BY <2>1
<1> HIDE DEF y, L, k
<1>7. CASE y < L
  <2>1. L - y <= k
    BY <1>1, <1>2, <1>3, <1>5, <1>6
  <2>2. ~ InWindow(y % SeqSpace, L % SeqSpace)
    BY <1>1, <1>2, <1>7, <2>1, StaleRefused DEF k
  <2>3. m.abs <= L
    BY <1>1, <1>2, <1>4
  <2> QED BY <2>2, <2>3 DEF y, L
<1>8. CASE ~ (y < L)
  <2>1. m.count = 1 /\ y = L /\ m.abs = L
    BY <1>1, <1>2, <1>3, <1>4, <1>8
  <2>2. L <= L
    BY <1>1
  <2> QED BY <2>1, <2>2 DEF y, L
<1> QED BY <1>7, <1>8

\* How far ahead the receiving peer sees a number.
LEMMA SeenAhead ==
    ASSUME NEW e, NEW p, NEW sub, NEW T, Ahead(e, p, sub, T),
           NEW x \in Nat, e[p] < x, x <= T
    PROVE  /\ x % SeqSpace # e[p] % SeqSpace
           /\ x < e[p] + SeqSpace
           /\ Window(e[p]) <= Window(x) /\ Window(x) <= Window(e[p]) + FreeWindows - 1
           /\ Window(e[p]) \in Nat /\ Window(x) \in Nat
           /\ InWindow(x % SeqSpace, e[p] % SeqSpace) => Window(x) + 2 <= Window(e[p]) + FreeWindows
           /\ Acknowledged(x % SeqSpace, e[p] % SeqSpace)
                 => Window(x) + 2 <= Window(e[p]) + FreeWindows
           /\ ~ InWindow(x % SeqSpace, e[p] % SeqSpace) => Window(x) = Window(e[p]) + FreeWindows - 1
<1> DEFINE L == e[p]
           a == RelativeWindow(x % SeqSpace, L % SeqSpace)
           b == Window(L % SeqSpace)
<1>1. /\ T \in Nat /\ L \in Nat /\ L <= T /\ T < L + SeqSpace
      /\ Window(T) <= Window(L) + FreeWindows - 1
  BY DEF Ahead
<1>2. SeqSpace \in Nat \ {0} /\ FreeWindows \in Nat /\ FreeWindows >= 3 /\ Windows \in Nat
  BY WindowBounds
<1>3. L < x /\ L <= x /\ x < L + SeqSpace
  BY <1>1, <1>2
<1>4. x % SeqSpace # L % SeqSpace
  <2> SUFFICES ASSUME L % SeqSpace = x % SeqSpace PROVE FALSE
    OBVIOUS
  <2> HIDE DEF L
  <2>1. L = x
    BY <1>1, <1>2, <1>3, SameRemainder
  <2> QED BY <1>1, <1>3, <2>1
<1>5. a - b = Window(x) - Window(L)
  BY <1>1, <1>3, WireAhead
<1>6. Window(x) \in Nat /\ Window(L) \in Nat /\ Window(T) \in Nat /\ b \in Nat /\ a \in Nat
  <2>1. x % SeqSpace \in Nat /\ L % SeqSpace \in Nat
    BY <1>1, <1>2
  <2>2. Window(x % SeqSpace) \in Nat /\ b \in Nat
    BY <2>1, WindowIs
  <2> QED BY <1>1, <1>2, <2>2, WindowIs DEF RelativeWindow
<1>7. Window(L) <= Window(x) /\ Window(x) <= Window(T)
  BY <1>1, <1>3, WindowOrder
<1>8. InWindow(x % SeqSpace, L % SeqSpace) <=> a \in b .. b + FreeWindows - 2
  BY DEF InWindow
<1>9. Acknowledged(x % SeqSpace, L % SeqSpace) <=> a \notin {b + FreeWindows - 1, b + FreeWindows}
  BY DEF Acknowledged
<1> HIDE DEF L, a, b
<1>10. Window(x) <= Window(L) + FreeWindows - 1
  BY <1>1, <1>2, <1>6, <1>7
<1>11. InWindow(x % SeqSpace, L % SeqSpace) <=> Window(x) + 2 <= Window(L) + FreeWindows
  BY <1>2, <1>5, <1>6, <1>7, <1>8
<1>12. Acknowledged(x % SeqSpace, L % SeqSpace) => Window(x) + 2 <= Window(L) + FreeWindows
  BY <1>2, <1>5, <1>6, <1>7, <1>9, <1>10
<1>13. ~ (Window(x) + 2 <= Window(L) + FreeWindows) => Window(x) = Window(L) + FreeWindows - 1
  BY <1>2, <1>6, <1>10
<1> QED BY <1>3, <1>4, <1>6, <1>7, <1>10, <1>11, <1>12, <1>13 DEF L

\* A datagram of a packet that was not: outside the windows it is not acknowledged.
LEMMA NewSeen ==
    ASSUME NEW e, NEW p, NEW sub, NEW T, Ahead(e, p, sub, T), NEW m, Comes(m, e, sub, T),
           p < m.pkt
    PROVE  /\ e[p] < FirstOf(e, m.pkt) /\ FirstOf(e, m.pkt) <= T /\ FirstOf(e, m.pkt) \in Nat
           /\ FirstOf(e, m.pkt) % SeqSpace # e[p] % SeqSpace
           /\ InWindow(FirstOf(e, m.pkt) % SeqSpace, e[p] % SeqSpace)
                 => Window(FirstOf(e, m.pkt)) + 2 <= Window(e[p]) + FreeWindows
           /\ ~ InWindow(FirstOf(e, m.pkt) % SeqSpace, e[p] % SeqSpace)
                 => ~ Acknowledged(Seq16(m), e[p] % SeqSpace)
<1> DEFINE y == FirstOf(e, m.pkt)
           L == e[p]
<1>1. /\ Laid(e, sub) /\ p \in Nat /\ p <= sub /\ T \in Nat /\ L \in Nat /\ sub \in Nat
  BY DEF Ahead, Laid
<1>2. /\ m.pkt \in Nat /\ m.abs \in Nat /\ y \in Nat /\ y <= m.abs
  BY <1>1, StartIs
<1>3. /\ m.pkt \in 1 .. sub /\ m.abs <= T
  BY DEF Comes
<1>4. L < y
  <2>1. p \in 0 .. sub /\ m.pkt - 1 \in 0 .. sub /\ p <= m.pkt - 1
    BY <1>1, <1>2, <1>3
  <2>2. e[p] <= e[m.pkt - 1] /\ e[m.pkt - 1] < y
    BY <1>1, <1>3, <2>1, LaidIs
  <2>3. e[m.pkt - 1] \in Nat
    BY <1>1, <2>1, LaidIs
  <2> QED BY <1>1, <1>2, <2>2, <2>3
<1>5. y <= T /\ L < m.abs
  BY <1>1, <1>2, <1>3, <1>4
<1> HIDE DEF y
<1>6. /\ y % SeqSpace # L % SeqSpace
      /\ InWindow(y % SeqSpace, L % SeqSpace) => Window(y) + 2 <= Window(L) + FreeWindows
      /\ ~ InWindow(y % SeqSpace, L % SeqSpace) => Window(y) = Window(L) + FreeWindows - 1
  BY <1>2, <1>4, <1>5, SeenAhead
<1>7. /\ Acknowledged(m.abs % SeqSpace, L % SeqSpace) => Window(m.abs) + 2 <= Window(L) + FreeWindows
      /\ Window(m.abs) \in Nat /\ Window(L) \in Nat
  BY <1>2, <1>3, <1>5, SeenAhead
<1>8. Window(y) <= Window(m.abs)
  BY <1>2, WindowOrder
<1>9. FreeWindows \in Nat
  BY WindowBounds
<1>10. ~ InWindow(y % SeqSpace, L % SeqSpace) => ~ Acknowledged(Seq16(m), L % SeqSpace)
  BY <1>6, <1>7, <1>8, <1>9 DEF Seq16
<1> QED BY <1>2, <1>4, <1>5, <1>6, <1>10 DEF y

-----------------------------------------------------------------------------
(* The list of packets behind a gap *)

\* The first numbers are in the order of the packets.
LEMMA FirstOrder ==
    ASSUME NEW e, NEW sub, Laid(e, sub), NEW r \in 1 .. sub, NEW x \in 1 .. sub
    PROVE  (r <= x <=> FirstOf(e, r) <= FirstOf(e, x)) /\ (FirstOf(e, r) = FirstOf(e, x) => r = x)
<1>1. sub \in Nat
  BY DEF Laid
<1>2. /\ r - 1 \in 0 .. sub /\ x - 1 \in 0 .. sub /\ r \in Nat /\ x \in Nat
  BY <1>1
<1>3. e[r - 1] \in Nat /\ e[x - 1] \in Nat
  BY <1>2, LaidIs
<1>4. r - 1 < x - 1 => e[r - 1] < e[x - 1]
  BY <1>2 DEF Laid
<1>5. x - 1 < r - 1 => e[x - 1] < e[r - 1]
  BY <1>2 DEF Laid
<1>6. r - 1 = x - 1 => e[r - 1] = e[x - 1]
  OBVIOUS
<1> QED BY <1>2, <1>3, <1>4, <1>5, <1>6 DEF FirstOf

\* Packets that wait lie ahead.
LEMMA HeldAhead ==
    ASSUME NEW e, NEW p, NEW sub, NEW T, Ahead(e, p, sub, T),
           NEW entry, NEW r, HoldsPacket(entry, r, e, p, sub, T)
    PROVE  /\ r \in Nat /\ r \in 1 .. sub /\ p < r /\ FirstOf(e, r) \in Nat /\ e[p] < FirstOf(e, r)
           /\ FirstOf(e, r) <= T /\ T < FirstOf(e, r) + SeqSpace
           /\ entry.seq = FirstOf(e, r) % SeqSpace
           /\ entry.src = {r} /\ PacketOf(entry) = r
<1> DEFINE y == FirstOf(e, r)
<1>1. /\ Laid(e, sub) /\ p \in Nat /\ sub \in Nat /\ T \in Nat /\ e[p] \in Nat
      /\ T < e[p] + SeqSpace /\ p <= sub
  BY DEF Ahead, Laid
<1>2. /\ r \in Nat /\ p < r /\ r <= sub /\ entry.src = {r}
      /\ entry.seq = y % SeqSpace /\ entry.got \subseteq 0 .. entry.count - 1 /\ entry.got # {}
      /\ \A f \in entry.got : y + f <= T
  BY DEF HoldsPacket
<1>3. r \in 1 .. sub
  BY <1>1, <1>2
<1>4. y \in Nat
  BY <1>1, <1>3, LaidIs
<1>5. e[p] < y
  <2>1. p \in 0 .. sub /\ r - 1 \in 0 .. sub /\ p <= r - 1
    BY <1>1, <1>2
  <2>2. e[p] <= e[r - 1] /\ e[r - 1] < y /\ e[r - 1] \in Nat
    BY <1>1, <1>3, <2>1, LaidIs
  <2> QED BY <1>1, <1>4, <2>2
<1> HIDE DEF y
<1>6. PICK f \in entry.got : TRUE
  BY <1>2
<1>7. f \in Nat /\ y + f <= T
  BY <1>2, <1>6
<1>8. SeqSpace \in Nat
  BY WindowBounds
<1>9. y <= T /\ T < y + SeqSpace
  BY <1>1, <1>4, <1>5, <1>7, <1>8
<1>10. PacketOf(entry) = r
  BY <1>2, PacketIs
<1> QED BY <1>2, <1>3, <1>4, <1>5, <1>9, <1>10 DEF y

\* The entries of a list that waits, each of one packet, in the order of the packets.
LEMMA WaitsIs ==
    ASSUME NEW queue, NEW e, NEW p, NEW sub, NEW T, Waits(queue, e, p, sub, T)
    PROVE  /\ queue \in Seq(Entries) /\ Len(queue) \in Nat
           /\ \A i \in 1 .. Len(queue) :
                 /\ queue[i] \in Entries
                 /\ HoldsPacket(queue[i], PacketOf(queue[i]), e, p, sub, T)
                 /\ PacketOf(queue[i]) \in Nat
           /\ \A i, j \in 1 .. Len(queue) : i < j => PacketOf(queue[i]) < PacketOf(queue[j])
BY DEF Waits, HoldsPacket

\* Of the packets of queue, the first k come before packet r or are r.
Placed(queue, k, r) ==
    /\ k \in 0 .. Len(queue)
    /\ \A i \in 1 .. Len(queue) : /\ i <= k => PacketOf(queue[i]) <= r
                                  /\ k < i => r < PacketOf(queue[i])

\* Where the packet of a number is, or belongs.
Finds(queue, k, n, r) ==
    /\ Placed(queue, k, r) /\ n \in 0 .. Len(queue)
    /\ n > 0 => n \in 1 .. Len(queue) /\ PacketOf(queue[n]) = r
    /\ n = 0 => \A i \in 1 .. Len(queue) : PacketOf(queue[i]) # r

\* The numbers on the wire give the order of the packets.
LEMMA ScanOrder ==
    ASSUME NEW e, NEW p, NEW sub, NEW T, Ahead(e, p, sub, T),
           NEW entry, NEW x, HoldsPacket(entry, x, e, p, sub, T),
           NEW r \in 1 .. sub, e[p] < FirstOf(e, r), FirstOf(e, r) <= T
    PROVE  /\ NotAfter(entry.seq, FirstOf(e, r) % SeqSpace, e[p] % SeqSpace) <=> x <= r
           /\ entry.seq = FirstOf(e, r) % SeqSpace <=> x = r
<1> DEFINE y == FirstOf(e, r)
           z == FirstOf(e, x)
           L == e[p]
<1>1. /\ Laid(e, sub) /\ T \in Nat /\ L \in Nat /\ T < L + SeqSpace /\ L <= T
  BY DEF Ahead
<1>2. y \in Nat
  BY <1>1, LaidIs
<1>3. /\ x \in Nat /\ x \in 1 .. sub /\ z \in Nat /\ L < z /\ z <= T /\ T < z + SeqSpace
      /\ entry.seq = z % SeqSpace
  BY HeldAhead
<1>4. (x <= r <=> z <= y) /\ (z = y => x = r) /\ (x = r => z = y)
  BY <1>1, <1>3, FirstOrder
<1>5. L < y /\ y <= T
  OBVIOUS
<1> HIDE DEF y, z, L
<1>6. SeqSpace \in Nat \ {0}
  BY WindowBounds
<1>7. z \in L .. L + SeqSpace - 1 /\ y \in L .. L + SeqSpace - 1 /\ T < y + SeqSpace
  BY <1>1, <1>2, <1>3, <1>5, <1>6
<1>8. NotAfter(z % SeqSpace, y % SeqSpace, L % SeqSpace) <=> z <= y
  BY <1>1, <1>7, OrderRestored
<1>9. z % SeqSpace = y % SeqSpace => z = y
  BY <1>1, <1>2, <1>3, <1>5, <1>7, SameNumber
<1> QED BY <1>3, <1>4, <1>8, <1>9 DEF y, L

\* The scan finds the packet, or the place where it belongs.
LEMMA QueuePlace ==
    ASSUME NEW e, NEW p, NEW sub, NEW T, Ahead(e, p, sub, T),
           NEW queue, Waits(queue, e, p, sub, T),
           NEW r \in 1 .. sub, e[p] < FirstOf(e, r), FirstOf(e, r) <= T,
           NEW y, y = FirstOf(e, r) % SeqSpace, NEW current, current = e[p] % SeqSpace
    PROVE  Finds(queue, InsertPosition(queue, y, current), FoundAt(queue, y, current), r)
<1> DEFINE J == {i \in DOMAIN queue : NotAfter(queue[i].seq, y, current)}
           k == InsertPosition(queue, y, current)
           n == FoundAt(queue, y, current)
<1>1. /\ queue \in Seq(Entries) /\ Len(queue) \in Nat
      /\ \A i \in 1 .. Len(queue) :
                 /\ HoldsPacket(queue[i], PacketOf(queue[i]), e, p, sub, T)
                 /\ PacketOf(queue[i]) \in Nat
      /\ \A i, j \in 1 .. Len(queue) : i < j => PacketOf(queue[i]) < PacketOf(queue[j])
  BY WaitsIs
<1>2. DOMAIN queue = 1 .. Len(queue)
  BY <1>1
<1>3. \A i \in 1 .. Len(queue) :
         /\ NotAfter(queue[i].seq, y, current) <=> PacketOf(queue[i]) <= r
         /\ queue[i].seq = y <=> PacketOf(queue[i]) = r
  BY <1>1, ScanOrder
<1>4. J = {i \in 1 .. Len(queue) : PacketOf(queue[i]) <= r}
  BY <1>2, <1>3
<1>5. k = Max({0} \cup J)
  BY DEF InsertPosition
<1> HIDE DEF J, k
<1>6. {0} \cup J \in SUBSET (0 .. Len(queue)) /\ {0} \cup J # {}
  BY <1>1, <1>4
<1>7. k \in {0} \cup J /\ \A i \in {0} \cup J : i <= k
  BY <1>1, <1>5, <1>6, MaxIs
<1>8. k \in 0 .. Len(queue) /\ k \in Nat
  BY <1>1, <1>6, <1>7
<1>9. r \in Nat
  <2>1. sub \in Nat
    BY DEF Ahead, Laid
  <2> QED BY <2>1
<1>10. ASSUME NEW i \in 1 .. Len(queue), i <= k
       PROVE  PacketOf(queue[i]) <= r
  <2>1. k \in J
    BY <1>7, <1>8, <1>10
  <2>2. k \in 1 .. Len(queue) /\ PacketOf(queue[k]) <= r
    BY <1>4, <2>1
  <2>3. i < k \/ i = k
    BY <1>1, <1>8, <1>10
  <2> QED BY <1>1, <1>9, <2>2, <2>3
<1>11. ASSUME NEW i \in 1 .. Len(queue), k < i
       PROVE  r < PacketOf(queue[i])
  <2>1. i \notin J
    BY <1>7, <1>8, <1>11
  <2> QED BY <1>1, <1>4, <1>9, <2>1
<1>12. Placed(queue, k, r)
  BY <1>8, <1>10, <1>11 DEF Placed
<1>13. n = IF k > 0 /\ queue[k].seq = y THEN k ELSE 0
  BY DEF FoundAt, k
<1> HIDE DEF n
<1>14. CASE k > 0 /\ queue[k].seq = y
  <2>1. n = k /\ k \in 1 .. Len(queue)
    BY <1>8, <1>13, <1>14
  <2>2. PacketOf(queue[n]) = r
    BY <1>3, <1>14, <2>1
  <2>3. n \in 0 .. Len(queue) /\ n # 0
    BY <1>8, <1>14, <2>1
  <2> QED BY <1>12, <2>1, <2>2, <2>3 DEF Finds, k, n
<1>15. CASE ~ (k > 0 /\ queue[k].seq = y)
  <2>1. n = 0
    BY <1>13, <1>15
  <2>2. ASSUME NEW i \in 1 .. Len(queue), PacketOf(queue[i]) = r
        PROVE  FALSE
    <3>1. i \in J
      BY <1>4, <1>9, <2>2
    <3>2. i <= k
      BY <1>7, <3>1
    <3>3. k \in J /\ k > 0
      BY <1>1, <1>7, <1>8, <3>2
    <3>4. k \in 1 .. Len(queue) /\ PacketOf(queue[k]) <= r
      BY <1>4, <3>3
    <3>5. ~ i < k
      BY <1>1, <1>9, <2>2, <3>4
    <3>6. i = k
      BY <1>1, <1>8, <3>2, <3>5
    <3>7. queue[k].seq = y
      BY <1>3, <2>2, <3>4, <3>6
    <3> QED BY <1>15, <3>3, <3>7
  <2>3. n \in 0 .. Len(queue) /\ ~ (n > 0)
    BY <1>1, <2>1
  <2> QED BY <1>12, <2>2, <2>3 DEF Finds, k, n
<1> QED BY <1>14, <1>15

\* Fragment f of packet r is held.
HoldsFragment(queue, r, f) ==
    \E i \in 1 .. Len(queue) : PacketOf(queue[i]) = r /\ f \in queue[i].got

\* The list l holds that fragment and what queue holds.
Gains(l, queue, r, f) ==
    HoldsFragment(l, r, f) /\ \A x, g : HoldsFragment(queue, x, g) => HoldsFragment(l, x, g)

\* An entry takes one more fragment.
LEMMA ReplacedWaits ==
    ASSUME NEW e, NEW p, NEW sub, NEW T, NEW queue, Waits(queue, e, p, sub, T),
           NEW i \in 1 .. Len(queue), NEW x, NEW l \in Seq(Entries), Len(l) = Len(queue),
           l[i] = x, \A j \in 1 .. Len(queue) : j # i => l[j] = queue[j],
           HoldsPacket(x, PacketOf(queue[i]), e, p, sub, T), queue[i].got \subseteq x.got,
           NEW f \in x.got
    PROVE  Waits(l, e, p, sub, T) /\ Gains(l, queue, PacketOf(queue[i]), f)
<1>1. /\ \A j \in 1 .. Len(queue) : HoldsPacket(queue[j], PacketOf(queue[j]), e, p, sub, T)
      /\ \A j, k \in 1 .. Len(queue) : j < k => PacketOf(queue[j]) < PacketOf(queue[k])
  BY WaitsIs
<1>2. PacketOf(x) = PacketOf(queue[i])
  <2>1. x.src = {PacketOf(queue[i])}
    BY DEF HoldsPacket
  <2> QED BY <2>1, PacketIs
<1>3. \A j \in 1 .. Len(l) : /\ PacketOf(l[j]) = PacketOf(queue[j]) /\ queue[j].got \subseteq l[j].got
                             /\ HoldsPacket(l[j], PacketOf(l[j]), e, p, sub, T)
  BY <1>1, <1>2
<1>4. Waits(l, e, p, sub, T)
  BY <1>1, <1>3 DEF Waits
<1>5. HoldsFragment(l, PacketOf(queue[i]), f)
  BY <1>2 DEF HoldsFragment
<1>6. ASSUME NEW z, NEW g, HoldsFragment(queue, z, g)
      PROVE  HoldsFragment(l, z, g)
  <2>1. PICK j \in 1 .. Len(queue) : PacketOf(queue[j]) = z /\ g \in queue[j].got
    BY <1>6 DEF HoldsFragment
  <2>2. j \in 1 .. Len(l) /\ PacketOf(l[j]) = z /\ g \in l[j].got
    BY <1>3, <2>1
  <2> QED BY <2>2 DEF HoldsFragment
<1> QED BY <1>4, <1>5, <1>6 DEF Gains

\* l is queue with x at place i.
InsertedAs(l, queue, i, x) ==
    /\ l \in Seq(Entries) /\ Len(l) = Len(queue) + 1
    /\ \A j \in 1 .. Len(queue) + 1 :
          l[j] = IF j < i THEN queue[j] ELSE IF j = i THEN x ELSE queue[j - 1]

\* A packet is put in its place.
LEMMA InsertedWaits ==
    ASSUME NEW e, NEW p, NEW sub, NEW T, NEW queue, Waits(queue, e, p, sub, T),
           NEW k, NEW r \in Nat, Placed(queue, k, r),
           \A i \in 1 .. Len(queue) : PacketOf(queue[i]) # r,
           NEW x, NEW l, InsertedAs(l, queue, k + 1, x),
           HoldsPacket(x, r, e, p, sub, T), NEW f \in x.got
    PROVE  Waits(l, e, p, sub, T) /\ Gains(l, queue, r, f)
<1> DEFINE N == Len(queue)
           R(j) == PacketOf(queue[j])
<1>1. /\ N \in Nat
      /\ \A j \in 1 .. N : HoldsPacket(queue[j], R(j), e, p, sub, T) /\ R(j) \in Nat
      /\ \A i, j \in 1 .. N : i < j => R(i) < R(j)
  BY WaitsIs
<1>2. k \in 0 .. N /\ \A i \in 1 .. N : (i <= k => R(i) <= r) /\ (k < i => r < R(i))
  BY DEF Placed
<1>3. /\ l \in Seq(Entries) /\ Len(l) = N + 1
      /\ \A j \in 1 .. N + 1 :
            l[j] = IF j < k + 1 THEN queue[j] ELSE IF j = k + 1 THEN x ELSE queue[j - 1]
  BY DEF InsertedAs
<1>4. PacketOf(x) = r
  <2>1. x.src = {r}
    BY DEF HoldsPacket
  <2> QED BY <2>1, PacketIs
<1>5. \A i \in 1 .. N : R(i) # r
  OBVIOUS
<1> HIDE DEF N
<1>6. ASSUME NEW j \in 1 .. N + 1
      PROVE  /\ j <= k => j \in 1 .. N /\ l[j] = queue[j] /\ PacketOf(l[j]) = R(j) /\ R(j) < r
             /\ j = k + 1 => l[j] = x /\ PacketOf(l[j]) = r
             /\ k + 1 < j => j - 1 \in 1 .. N /\ l[j] = queue[j - 1] /\ PacketOf(l[j]) = R(j - 1)
                             /\ r < R(j - 1)
             /\ j <= k \/ j = k + 1 \/ k + 1 < j
             /\ HoldsPacket(l[j], PacketOf(l[j]), e, p, sub, T)
  <2>1. j \in Nat /\ k \in Nat /\ k <= N
    BY <1>1, <1>2
  <2>2. CASE j <= k
    <3>1. j \in 1 .. N /\ j < k + 1 /\ ~ (j = k + 1) /\ ~ (k + 1 < j)
      BY <1>1, <2>1, <2>2
    <3>2. l[j] = queue[j]
      BY <1>3, <3>1
    <3>3. R(j) <= r /\ R(j) # r /\ R(j) \in Nat
      BY <1>1, <1>2, <1>5, <2>2, <3>1
    <3>4. R(j) < r
      BY <3>3
    <3> QED BY <1>1, <2>2, <3>1, <3>2, <3>4
  <2>3. CASE j = k + 1
    <3>1. ~ (j < k + 1) /\ ~ (j <= k)
      BY <2>1, <2>3
    <3>2. l[j] = x
      BY <1>3, <2>3, <3>1
    <3> QED BY <1>4, <2>3, <3>1, <3>2
  <2>4. CASE k + 1 < j
    <3>1. j - 1 \in 1 .. N /\ ~ (j < k + 1) /\ j # k + 1 /\ ~ (j <= k) /\ k < j - 1
      BY <1>1, <2>1, <2>4
    <3>2. l[j] = queue[j - 1]
      BY <1>3, <3>1
    <3> QED BY <1>1, <1>2, <2>4, <3>1, <3>2
  <2> QED BY <2>1, <2>2, <2>3, <2>4
<1>7. ASSUME NEW i \in 1 .. N + 1, NEW j \in 1 .. N + 1, i < j
      PROVE  PacketOf(l[i]) < PacketOf(l[j])
  <2>1. i \in Nat /\ j \in Nat /\ k \in Nat
    BY <1>1, <1>2
  <2>2. CASE j <= k
    <3>1. i <= k
      BY <1>7, <2>1, <2>2
    <3> QED BY <1>1, <1>6, <1>7, <2>2, <3>1
  <2>3. CASE j = k + 1
    <3>1. i <= k
      BY <1>7, <2>1, <2>3
    <3> QED BY <1>6, <2>3, <3>1
  <2>4. CASE k + 1 < j
    <3>1. j - 1 \in 1 .. N /\ PacketOf(l[j]) = R(j - 1) /\ r < R(j - 1) /\ R(j - 1) \in Nat
      BY <1>1, <1>6, <2>4
    <3>2. CASE i <= k
      <4>1. PacketOf(l[i]) = R(i) /\ R(i) < r /\ R(i) \in Nat
        BY <1>1, <1>6, <3>2
      <4> QED BY <3>1, <4>1
    <3>3. CASE i = k + 1
      BY <1>6, <3>1, <3>3
    <3>4. CASE k + 1 < i
      <4>1. i - 1 \in 1 .. N /\ PacketOf(l[i]) = R(i - 1)
        BY <1>6, <3>4
      <4>2. i - 1 < j - 1
        BY <1>7, <2>1
      <4>3. R(i - 1) < R(j - 1)
        BY <1>1, <3>1, <4>1, <4>2
      <4> QED BY <3>1, <4>1, <4>3
    <3> QED BY <1>6, <3>2, <3>3, <3>4
  <2> QED BY <1>6, <2>2, <2>3, <2>4
<1>8. Waits(l, e, p, sub, T)
  BY <1>3, <1>6, <1>7 DEF Waits
<1>9. HoldsFragment(l, r, f)
  <2>1. k + 1 \in 1 .. N + 1
    BY <1>1, <1>2
  <2>2. l[k + 1] = x /\ PacketOf(l[k + 1]) = r
    BY <1>6, <2>1
  <2> QED BY <1>3, <2>1, <2>2 DEF HoldsFragment
<1>10. ASSUME NEW z, NEW g, HoldsFragment(queue, z, g)
       PROVE  HoldsFragment(l, z, g)
  <2>1. PICK i \in 1 .. N : PacketOf(queue[i]) = z /\ g \in queue[i].got
    BY <1>10 DEF HoldsFragment, N
  <2>2. i \in Nat /\ k \in Nat
    BY <1>1, <1>2
  <2>3. CASE i <= k
    <3>1. i \in 1 .. N + 1
      BY <1>1
    <3>2. l[i] = queue[i]
      BY <1>6, <2>3, <3>1
    <3> QED BY <1>3, <2>1, <3>1, <3>2 DEF HoldsFragment
  <2>4. CASE ~ (i <= k)
    <3>1. i + 1 \in 1 .. N + 1 /\ k + 1 < i + 1 /\ (i + 1) - 1 = i
      BY <1>1, <2>2, <2>4
    <3>2. l[i + 1] = queue[i]
      BY <1>6, <3>1
    <3> QED BY <1>3, <2>1, <3>1, <3>2 DEF HoldsFragment
  <2> QED BY <2>3, <2>4
<1> QED BY <1>8, <1>9, <1>10 DEF Gains

-----------------------------------------------------------------------------
(* Packets are dispatched *)

\* What is dispatched is whole and leaves no gap.
Runs(l, current, n) ==
    /\ n \in 0 .. Len(l)
    /\ \A i \in 1 .. n : /\ Whole(l[i])
                         /\ l[i].seq = (DispatchedUpTo(l, current, i - 1) + 1) % SeqSpace

\* Dispatchable stops at the first entry that is incomplete or leaves a gap.
LEMMA DispatchableRuns ==
    ASSUME NEW l \in Seq(Entries), NEW current
    PROVE  Runs(l, current, Dispatchable(l, current))
<1> DEFINE waits == {i \in DOMAIN l :
                    \/ ~Whole(l[i])
                    \/ l[i].seq # (DispatchedUpTo(l, current, i - 1) + 1) % SeqSpace}
           S == {i - 1 : i \in waits} \cup {Len(l)}
           n == Dispatchable(l, current)
<1>1. Len(l) \in Nat /\ DOMAIN l = 1 .. Len(l)
  OBVIOUS
<1>2. waits \subseteq 1 .. Len(l)
  BY <1>1
<1>3. \A i \in 1 .. Len(l) : i \notin waits =>
         Whole(l[i]) /\ l[i].seq = (DispatchedUpTo(l, current, i - 1) + 1) % SeqSpace
  BY <1>1
<1> HIDE DEF waits
<1>4. S \in SUBSET (0 .. Len(l)) /\ S # {} /\ S \in SUBSET Nat /\ \A i \in waits : i - 1 \in S
  BY <1>1, <1>2
<1>5. n = Min(S)
  BY DEF Dispatchable, waits, S
<1> HIDE DEF S, n
<1>6. n \in S /\ \A x \in S : n <= x
  BY <1>4, <1>5, MinIs
<1>7. n \in 0 .. Len(l)
  BY <1>4, <1>6
<1>8. ASSUME NEW i \in 1 .. n
      PROVE  Whole(l[i]) /\ l[i].seq = (DispatchedUpTo(l, current, i - 1) + 1) % SeqSpace
  <2>1. i \in 1 .. Len(l) /\ ~ (n <= i - 1)
    BY <1>1, <1>7
  <2>2. i \notin waits
    BY <1>4, <1>6, <2>1
  <2> QED BY <1>3, <2>1, <2>2
<1> QED BY <1>7, <1>8 DEF Runs, n

\* A whole packet is all of one packet.
LEMMA WholeIs ==
    ASSUME NEW e, NEW p, NEW sub, NEW T, Ahead(e, p, sub, T),
           NEW entry \in Entries, NEW r, HoldsPacket(entry, r, e, p, sub, T), Whole(entry)
    PROVE  /\ Contents(entry) = {r} /\ entry.count \in Nat /\ entry.count - 1 \in Nat
           /\ e[r] = FirstOf(e, r) + (entry.count - 1) /\ e[r] <= T /\ e[r] \in Nat
<1> DEFINE n == entry.count
           y == FirstOf(e, r)
<1>1. /\ r \in Nat /\ entry.src = {r} /\ n = e[r] - e[r - 1]
      /\ entry.got \subseteq 0 .. n - 1 /\ entry.got # {}
      /\ \A f \in entry.got : y + f <= T
  BY DEF HoldsPacket
<1>2. n \in Nat
  BY DEF Entries
<1>3. Cardinality(entry.got) = n
  BY DEF Whole
<1>4. y \in Nat /\ e[r] \in Nat /\ e[r - 1] \in Nat
  <2>1. Laid(e, sub) /\ r \in 1 .. sub /\ y \in Nat
    BY HeldAhead DEF Ahead
  <2>2. r - 1 \in Nat
    <3>1. sub \in Nat
      BY <2>1 DEF Laid
    <3> QED BY <2>1, <3>1
  <2> QED BY <1>1, <2>1, <2>2, LaidIs
<1>5. y = e[r - 1] + 1
  BY DEF FirstOf
<1> HIDE DEF n, y
<1>6. n >= 1
  <2>1. PICK f \in entry.got : TRUE
    BY <1>1
  <2> QED BY <1>1, <1>2, <2>1
<1>7. IsFiniteSet(0 .. n - 1) /\ Cardinality(0 .. n - 1) = n
  <2> DEFINE J == 0 .. n - 1
  <2>1. PICK z : z = 0 /\ z \in Int
    OBVIOUS
  <2>2. n - 1 \in Int /\ ~ (z > n - 1) /\ (n - 1) - z + 1 = n
    BY <1>2, <1>6, <2>1
  <2>3. /\ IsFiniteSet(z .. n - 1)
        /\ Cardinality(z .. n - 1) = IF z > n - 1 THEN 0 ELSE (n - 1) - z + 1
    BY <2>1, <2>2, FS_Interval
  <2> QED BY <2>1, <2>2, <2>3
<1>8. entry.got = 0 .. n - 1
  <2> DEFINE J == 0 .. n - 1
  <2>1. IsFiniteSet(J) /\ entry.got \in SUBSET J /\ Cardinality(J) = Cardinality(entry.got)
    BY <1>1, <1>3, <1>7
  <2> HIDE DEF J
  <2>2. J = entry.got
    BY <2>1, FS_Subset
  <2> QED BY <2>2 DEF J
<1>9. Contents(entry) = {r}
  BY <1>1, <1>8 DEF Contents, n
<1>10. n - 1 \in entry.got /\ n - 1 \in Nat
  BY <1>2, <1>6, <1>8
<1>11. e[r] = y + (n - 1)
  BY <1>1, <1>2, <1>4, <1>5
<1>12. e[r] <= T
  BY <1>1, <1>10, <1>11
<1> QED BY <1>2, <1>4, <1>9, <1>10, <1>11, <1>12 DEF n, y

\* The first i packets of the list are the next i packets.
RunsTo(l, e, p, sub, T, i) ==
    /\ DispatchedUpTo(l, e[p] % SeqSpace, i) = e[p + i] % SeqSpace
    /\ p + i <= sub /\ e[p + i] <= T
    /\ i > 0 => PacketOf(l[i]) = p + i

\* An entry that leaves no gap is the next packet.
LEMMA RunStep ==
    ASSUME NEW e, NEW p, NEW sub, NEW T, Ahead(e, p, sub, T),
           NEW l, Waits(l, e, p, sub, T), NEW n, Runs(l, e[p] % SeqSpace, n),
           NEW i \in 1 .. n, RunsTo(l, e, p, sub, T, i - 1)
    PROVE  RunsTo(l, e, p, sub, T, i)
<1> DEFINE r == PacketOf(l[i])
           k == p + i - 1
           y == FirstOf(e, r)
           L == e[p]
<1>1. /\ Laid(e, sub) /\ p \in Nat /\ sub \in Nat /\ T \in Nat /\ L \in Nat /\ p <= sub
      /\ T < L + SeqSpace
  BY DEF Ahead, Laid
<1>2. /\ l \in Seq(Entries) /\ Len(l) \in Nat /\ n \in 0 .. Len(l)
      /\ \A j \in 1 .. Len(l) : /\ l[j] \in Entries
                                /\ HoldsPacket(l[j], PacketOf(l[j]), e, p, sub, T)
      /\ \A j, h \in 1 .. Len(l) : j < h => PacketOf(l[j]) < PacketOf(l[h])
  BY WaitsIs DEF Runs
<1>3. i \in 1 .. Len(l) /\ i \in Nat /\ i >= 1
  BY <1>2
<1>4. l[i] \in Entries /\ HoldsPacket(l[i], r, e, p, sub, T)
  BY <1>2, <1>3
<1>5. Whole(l[i]) /\ l[i].seq = (DispatchedUpTo(l, L % SeqSpace, i - 1) + 1) % SeqSpace
  BY DEF Runs
<1> HIDE DEF r, L, y
<1>6. /\ r \in Nat /\ r \in 1 .. sub /\ p < r /\ y \in Nat /\ y <= T /\ T < y + SeqSpace
      /\ l[i].seq = y % SeqSpace
  BY <1>4, HeldAhead DEF y
<1>7. /\ p + (i - 1) = k /\ k \in Nat
  BY <1>1, <1>3
<1>8. /\ DispatchedUpTo(l, L % SeqSpace, i - 1) = e[k] % SeqSpace /\ k <= sub
      /\ i - 1 > 0 => PacketOf(l[i - 1]) = k
  BY <1>7 DEF RunsTo, L
<1> HIDE DEF k
<1>9. k < r
  <2>1. CASE i - 1 > 0
    <3>1. i - 1 \in 1 .. Len(l) /\ i - 1 < i
      BY <1>2, <1>3, <2>1
    <3>2. PacketOf(l[i - 1]) < r
      BY <1>2, <1>3, <3>1 DEF r
    <3> QED BY <1>8, <2>1, <3>2
  <2>2. CASE ~ (i - 1 > 0)
    <3>1. k = p
      BY <1>1, <1>3, <1>7, <2>2
    <3> QED BY <1>6, <3>1
  <2> QED BY <2>1, <2>2
<1>10. /\ k \in 0 .. sub /\ p \in 0 .. sub /\ r - 1 \in 0 .. sub /\ p <= k /\ k <= r - 1
  BY <1>1, <1>3, <1>6, <1>7, <1>8, <1>9
<1>11. /\ L <= e[k] /\ e[k] <= e[r - 1] /\ e[k] \in Nat /\ e[r - 1] \in Nat
       /\ k < r - 1 => e[k] < e[r - 1]
  <2>1. e[p] <= e[k] /\ e[k] <= e[r - 1]
    BY <1>1, <1>10, LaidIs
  <2>2. e[k] \in Nat /\ e[r - 1] \in Nat
    BY <1>1, <1>6, <1>7, <1>10, LaidIs
  <2>3. k < r - 1 => e[k] < e[r - 1]
    BY <1>1, <1>10 DEF Laid
  <2> QED BY <2>1, <2>2, <2>3 DEF L
<1>12. y = e[r - 1] + 1
  BY DEF y, FirstOf
<1>13. SeqSpace \in Nat \ {0}
  BY WindowBounds
<1>14. y % SeqSpace = (e[k] + 1) % SeqSpace
  <2>1. PICK one \in Nat : one = 1
    OBVIOUS
  <2>2. ((e[k] % SeqSpace) + one) % SeqSpace = (e[k] + one) % SeqSpace
    BY <1>11, <1>13, RemainderPlus
  <2> QED BY <1>5, <1>6, <1>8, <2>1, <2>2
<1>15. y = e[k] + 1
  <2> DEFINE z == e[k] + 1
  <2>1. z \in Nat /\ z <= T /\ T < z + SeqSpace
    BY <1>1, <1>6, <1>11, <1>12, <1>13
  <2>2. y % SeqSpace = z % SeqSpace
    BY <1>14
  <2> HIDE DEF z
  <2>3. y = z
    BY <1>1, <1>6, <2>1, <2>2, SameNumber
  <2> QED BY <2>3 DEF z
<1>16. k = r - 1
  BY <1>6, <1>7, <1>9, <1>11, <1>12, <1>15
<1>17. r = p + i
  BY <1>1, <1>3, <1>6, <1>7, <1>16
<1> DEFINE c == l[i].count
<1>18. c - 1 \in Nat /\ e[r] = y + (c - 1) /\ e[r] <= T /\ e[r] \in Nat
  BY <1>4, <1>5, WholeIs DEF y
<1>19. DispatchedUpTo(l, L % SeqSpace, i) = (l[i].seq + l[i].count - 1) % SeqSpace
  BY <1>3 DEF DispatchedUpTo
<1>20. DispatchedUpTo(l, L % SeqSpace, i) = e[r] % SeqSpace
  <2>1. ((y % SeqSpace) + (c - 1)) % SeqSpace = (y + (c - 1)) % SeqSpace
    <3>1. PICK h : h = c - 1
      OBVIOUS
    <3>2. ((y % SeqSpace) + h) % SeqSpace = (y + h) % SeqSpace
      BY <1>6, <1>13, <1>18, <3>1, RemainderPlus
    <3> QED BY <3>1, <3>2
  <2>2. l[i].seq + l[i].count - 1 = (y % SeqSpace) + (c - 1)
    BY <1>6
  <2> QED BY <1>18, <1>19, <2>1, <2>2
<1>21. p + i <= sub
  BY <1>1, <1>6, <1>17
<1> QED BY <1>17, <1>18, <1>20, <1>21 DEF RunsTo, r, L

\* The entries dispatched are the next packets, one after another.
LEMMA RunAll ==
    ASSUME NEW e, NEW p, NEW sub, NEW T, Ahead(e, p, sub, T),
           NEW l, Waits(l, e, p, sub, T), NEW n, Runs(l, e[p] % SeqSpace, n)
    PROVE  n \in Nat /\ \A i \in 0 .. n : RunsTo(l, e, p, sub, T, i)
<1> DEFINE G == {i \in 0 .. n : RunsTo(l, e, p, sub, T, i)}
<1>1. n \in Nat
  <2>1. n \in 0 .. Len(l) /\ Len(l) \in Nat
    BY WaitsIs DEF Runs
  <2> QED BY <2>1
<1>2. 0 \in G
  <2>1. PICK z : z = 0
    OBVIOUS
  <2>2. p + z = p /\ p <= sub /\ e[p] <= T /\ ~ (z > 0)
    BY <2>1 DEF Ahead
  <2>3. DispatchedUpTo(l, e[p] % SeqSpace, z) = e[p] % SeqSpace
    BY <2>1 DEF DispatchedUpTo
  <2>4. RunsTo(l, e, p, sub, T, z)
    BY <2>2, <2>3 DEF RunsTo
  <2> QED BY <1>1, <2>1, <2>4
<1>3. \A i \in 1 .. n : i - 1 \in G => i \in G
  <2> TAKE i \in 1 .. n
  <2>1. i - 1 \in G => RunsTo(l, e, p, sub, T, i)
    BY RunStep
  <2> QED BY <1>1, <2>1
<1> HIDE DEF G
<1>4. 0 .. n \subseteq G
  BY <1>1, <1>2, <1>3, Induct
<1> QED BY <1>1, <1>4 DEF G

-----------------------------------------------------------------------------
(* The state after a dispatch *)

\* The packets p + 1 to p + n are the first n of l, and all of them.
Ran(l, e, p, sub, T, n) ==
    /\ n \in Nat /\ n \in 0 .. Len(l) /\ p + n <= sub /\ e[p + n] <= T
    /\ \A i \in 1 .. n : PacketOf(l[i]) = p + i /\ Contents(l[i]) = {p + i}

\* What enet_peer_dispatch_incoming_reliable_commands takes off the list.
LEMMA RanIs ==
    ASSUME NEW e, NEW p, NEW sub, NEW T, Ahead(e, p, sub, T),
           NEW l, Waits(l, e, p, sub, T), NEW n, n = Dispatchable(l, e[p] % SeqSpace)
    PROVE  /\ Ran(l, e, p, sub, T, n)
           /\ DispatchedUpTo(l, e[p] % SeqSpace, n) = e[p + n] % SeqSpace
<1>1. /\ l \in Seq(Entries) /\ Len(l) \in Nat
      /\ \A j \in 1 .. Len(l) : /\ l[j] \in Entries
                                /\ HoldsPacket(l[j], PacketOf(l[j]), e, p, sub, T)
  BY WaitsIs
<1>2. Runs(l, e[p] % SeqSpace, n)
  BY <1>1, DispatchableRuns
<1>3. n \in Nat /\ \A i \in 0 .. n : RunsTo(l, e, p, sub, T, i)
  BY <1>2, RunAll
<1>4. n \in 0 .. n
  BY <1>3
<1>5. RunsTo(l, e, p, sub, T, n)
  BY <1>3, <1>4
<1>6. ASSUME NEW i \in 1 .. n
      PROVE  PacketOf(l[i]) = p + i /\ Contents(l[i]) = {p + i}
  <2>1. i \in 0 .. n /\ i > 0 /\ i \in 1 .. Len(l)
    BY <1>1, <1>2, <1>3 DEF Runs
  <2>2. PacketOf(l[i]) = p + i
    BY <1>3, <2>1 DEF RunsTo
  <2>3. Whole(l[i])
    BY <1>2 DEF Runs
  <2>4. Contents(l[i]) = {PacketOf(l[i])}
    BY <1>1, <2>1, <2>3, WholeIs
  <2> QED BY <2>2, <2>4
<1> QED BY <1>2, <1>3, <1>5, <1>6 DEF Ran, RunsTo, Runs

\* The receiving peer still sees what is ahead.
LEMMA AheadMore ==
    ASSUME NEW e, NEW p, NEW sub, NEW T, Ahead(e, p, sub, T), NEW n \in Nat,
           p + n <= sub, e[p + n] <= T
    PROVE  /\ Ahead(e, p + n, sub, T) /\ p + n \in Nat /\ e[p] <= e[p + n]
           /\ Window(e[p]) <= Window(e[p + n])
           /\ Window(e[p]) \in Nat /\ Window(e[p + n]) \in Nat
<1> DEFINE k == p + n
<1>1. /\ Laid(e, sub) /\ p \in Nat /\ p <= sub /\ T \in Nat /\ sub \in Nat
      /\ e[p] \in Nat /\ StartAt <= e[p] /\ e[p] <= T /\ T < e[p] + SeqSpace
      /\ Window(T) <= Window(e[p]) + FreeWindows - 1
  BY DEF Ahead, Laid
<1>2. k \in Nat /\ p <= k /\ k <= sub /\ k \in 0 .. sub /\ p \in 0 .. sub
  BY <1>1
<1> HIDE DEF k
<1>3. e[p] <= e[k] /\ e[k] \in Nat
  BY <1>1, <1>2, LaidIs
<1>4. SeqSpace \in Nat /\ FreeWindows \in Nat /\ StartAt \in Nat
  BY WindowBounds, ConstantsAre
<1>5. /\ Window(e[p]) \in Nat /\ Window(e[k]) \in Nat /\ Window(T) \in Nat
      /\ Window(e[p]) <= Window(e[k])
  BY <1>1, <1>3, WindowIs, WindowOrder
<1>6. /\ StartAt <= e[k] /\ T < e[k] + SeqSpace
      /\ Window(T) <= Window(e[k]) + FreeWindows - 1
  BY <1>1, <1>3, <1>4, <1>5
<1>7. e[k] <= T
  BY DEF k
<1>8. Ahead(e, k, sub, T)
  BY <1>1, <1>2, <1>3, <1>6, <1>7 DEF Ahead
<1> QED BY <1>2, <1>3, <1>5, <1>8 DEF k

\* What has arrived, by its packets.
LEMMA SettledIs ==
    ASSUME NEW queue, NEW e, NEW p, NEW x
    PROVE  x \in SettledIn(queue, e, p) <=>
              /\ x \in Nat /\ Window(x) + 2 <= Window(e[p]) + FreeWindows
              /\ x <= e[p] \/ \E r, f : HoldsFragment(queue, r, f) /\ x = FirstOf(e, r) + f
BY DEF SettledIn, HoldsFragment

\* It stays so when the list grows.
LEMMA SettledGains ==
    ASSUME NEW queue, NEW e, NEW p, NEW l, NEW r, NEW f, Gains(l, queue, r, f)
    PROVE  SettledIn(queue, e, p) \subseteq SettledIn(l, e, p)
<1> SUFFICES ASSUME NEW x \in SettledIn(queue, e, p) PROVE x \in SettledIn(l, e, p)
  OBVIOUS
<1>1. /\ x \in Nat /\ Window(x) + 2 <= Window(e[p]) + FreeWindows
      /\ x <= e[p] \/ \E z, g : HoldsFragment(queue, z, g) /\ x = FirstOf(e, z) + g
  BY SettledIs
<1>2. \A z, g : HoldsFragment(queue, z, g) => HoldsFragment(l, z, g)
  BY DEF Gains
<1> QED BY <1>1, <1>2, SettledIs

\* The rest of the list.
RestOf(rest, l, n) ==
    /\ rest \in Seq(Entries) /\ Len(rest) = Len(l) - n
    /\ \A i \in 1 .. Len(rest) : n + i \in 1 .. Len(l) /\ rest[i] = l[n + i]

\* SubSeq from n + 1 on is the list without its first n elements.
LEMMA RestIs ==
    ASSUME NEW l \in Seq(Entries), NEW n \in 0 .. Len(l)
    PROVE  RestOf(SubSeq(l, n + 1, Len(l)), l, n)
<1> DEFINE b == SubSeq(l, n + 1, Len(l))
<1>1. Len(l) \in Nat /\ \A i \in 1 .. Len(l) : l[i] \in Entries
  OBVIOUS
<1>2. b \in Seq(Entries)
  BY <1>1, SMT
<1>3. Len(b) = Len(l) - n /\ \A i \in 1 .. Len(l) - n : b[i] = l[n + i]
  BY <1>1, SMT
<1> HIDE DEF b
<1>4. \A i \in 1 .. Len(b) : n + i \in 1 .. Len(l) /\ b[i] = l[n + i]
  BY <1>1, <1>3
<1> QED BY <1>2, <1>3, <1>4 DEF RestOf, b

\* What is left of the list waits behind the packets dispatched.
LEMMA RestWaits ==
    ASSUME NEW e, NEW p, NEW sub, NEW T, Ahead(e, p, sub, T),
           NEW l, Waits(l, e, p, sub, T), NEW n, Ran(l, e, p, sub, T, n),
           NEW rest, RestOf(rest, l, n)
    PROVE  Waits(rest, e, p + n, sub, T)
<1> DEFINE k == p + n
<1>1. /\ l \in Seq(Entries) /\ Len(l) \in Nat
      /\ \A j \in 1 .. Len(l) : HoldsPacket(l[j], PacketOf(l[j]), e, p, sub, T)
      /\ \A j, h \in 1 .. Len(l) : j < h => PacketOf(l[j]) < PacketOf(l[h])
  BY WaitsIs
<1>2. /\ n \in Nat /\ n \in 0 .. Len(l) /\ p + n <= sub /\ e[p + n] <= T
      /\ \A i \in 1 .. n : PacketOf(l[i]) = p + i
  BY DEF Ran
<1>3. /\ rest \in Seq(Entries) /\ Len(rest) = Len(l) - n
      /\ \A i \in 1 .. Len(rest) : n + i \in 1 .. Len(l) /\ rest[i] = l[n + i]
  BY DEF RestOf
<1>4. p \in Nat /\ sub \in Nat
  BY DEF Ahead, Laid
<1>5. /\ Window(e[p]) <= Window(e[k]) /\ Window(e[p]) \in Nat /\ Window(e[k]) \in Nat
      /\ k \in Nat
  BY <1>2, AheadMore
<1>6. FreeWindows \in Nat
  BY WindowBounds
<1>7. ASSUME NEW i \in 1 .. Len(rest)
      PROVE  HoldsPacket(rest[i], PacketOf(rest[i]), e, k, sub, T)
  <2> DEFINE r == PacketOf(rest[i])
             y == FirstOf(e, r)
  <2>1. n + i \in 1 .. Len(l) /\ rest[i] = l[n + i] /\ i \in Nat /\ i >= 1
    BY <1>1, <1>2, <1>3
  <2>2. HoldsPacket(rest[i], r, e, p, sub, T)
    BY <1>1, <2>1
  <2>3. r \in Nat /\ p < r
    BY <2>2 DEF HoldsPacket
  <2>4. k < r
    <3>1. CASE n = 0
      BY <1>4, <2>3, <3>1
    <3>2. CASE n # 0
      <4>1. n \in 1 .. n /\ n \in 1 .. Len(l) /\ n < n + i
        BY <1>1, <1>2, <2>1, <3>2
      <4>2. PacketOf(l[n]) = p + n /\ PacketOf(l[n]) < PacketOf(l[n + i])
        BY <1>1, <1>2, <2>1, <4>1
      <4> QED BY <2>1, <4>2
    <3> QED BY <3>1, <3>2
  <2>5. y \in Nat
    BY <2>2, HeldAhead
  <2> HIDE DEF r, y, k
  <2>6. Window(y) \in Nat
    BY <2>5, WindowIs
  <2>7. Window(y) + 2 <= Window(e[p]) + FreeWindows
    BY <2>2 DEF HoldsPacket, y
  <2>8. Window(y) + 2 <= Window(e[k]) + FreeWindows
    BY <1>5, <1>6, <2>6, <2>7
  <2> QED BY <2>2, <2>4, <2>8 DEF HoldsPacket, r, y
<1>8. ASSUME NEW i \in 1 .. Len(rest), NEW j \in 1 .. Len(rest), i < j
      PROVE  PacketOf(rest[i]) < PacketOf(rest[j])
  <2>1. n + i < n + j
    BY <1>1, <1>2, <1>3, <1>8
  <2> QED BY <1>1, <1>3, <2>1
<1>9. Waits(rest, e, k, sub, T)
  BY <1>3, <1>7, <1>8 DEF Waits
<1> QED BY <1>9

\* What has arrived stays so when packets are dispatched.
LEMMA SettledRests ==
    ASSUME NEW e, NEW p, NEW sub, NEW T, Ahead(e, p, sub, T),
           NEW l, Waits(l, e, p, sub, T), NEW n, Ran(l, e, p, sub, T, n),
           NEW rest, RestOf(rest, l, n)
    PROVE  /\ SettledIn(l, e, p) \subseteq SettledIn(rest, e, p + n)
           /\ \A r, f : HoldsFragment(l, r, f) =>
                 HoldsFragment(rest, r, f) \/ (FirstOf(e, r) + f \in Nat /\ FirstOf(e, r) + f <= e[p + n])
<1> DEFINE k == p + n
<1>1. /\ l \in Seq(Entries) /\ Len(l) \in Nat
      /\ \A j \in 1 .. Len(l) : /\ l[j] \in Entries
                                /\ HoldsPacket(l[j], PacketOf(l[j]), e, p, sub, T)
  BY WaitsIs
<1>2. /\ n \in Nat /\ n \in 0 .. Len(l) /\ p + n <= sub /\ e[p + n] <= T
      /\ \A i \in 1 .. n : PacketOf(l[i]) = p + i
  BY DEF Ran
<1>3. /\ rest \in Seq(Entries) /\ Len(rest) = Len(l) - n
      /\ \A i \in 1 .. Len(rest) : n + i \in 1 .. Len(l) /\ rest[i] = l[n + i]
  BY DEF RestOf
<1>4. p \in Nat /\ sub \in Nat /\ Laid(e, sub) /\ e[p] \in Nat /\ p <= sub
  BY DEF Ahead, Laid
<1>5. /\ Window(e[p]) <= Window(e[k]) /\ Window(e[p]) \in Nat /\ Window(e[k]) \in Nat
      /\ k \in Nat /\ e[p] <= e[k] /\ k <= sub
  BY <1>2, AheadMore
<1> HIDE DEF k
<1>6. e[k] \in Nat
  BY <1>4, <1>5, LaidIs
<1>7. ASSUME NEW r, NEW f, HoldsFragment(l, r, f)
      PROVE  HoldsFragment(rest, r, f) \/ (FirstOf(e, r) + f \in Nat /\ FirstOf(e, r) + f <= e[k])
  <2>1. PICK i \in 1 .. Len(l) : PacketOf(l[i]) = r /\ f \in l[i].got
    BY <1>7 DEF HoldsFragment
  <2>2. CASE n < i
    <3>1. i - n \in 1 .. Len(rest) /\ n + (i - n) = i
      BY <1>1, <1>2, <1>3, <2>2
    <3>2. rest[i - n] = l[i]
      BY <1>3, <3>1
    <3> QED BY <2>1, <3>1, <3>2 DEF HoldsFragment
  <2>3. CASE ~ (n < i)
    <3>1. i \in 1 .. n /\ i \in Nat
      BY <1>1, <1>2, <2>3
    <3>2. r = p + i /\ r <= k
      BY <1>2, <1>4, <2>1, <3>1 DEF k
    <3>3. HoldsPacket(l[i], r, e, p, sub, T) /\ l[i] \in Entries
      BY <1>1, <2>1
    <3>4. /\ l[i].count = e[r] - e[r - 1] /\ f \in 0 .. l[i].count - 1
      BY <2>1, <3>3 DEF HoldsPacket
    <3>5. r \in 1 .. sub /\ FirstOf(e, r) \in Nat
      BY <3>3, HeldAhead
    <3>6. r - 1 \in Nat /\ r \in Nat /\ r \in 0 .. sub /\ k \in 0 .. sub
      BY <1>4, <1>5, <3>5
    <3>7. e[r] \in Nat /\ e[r - 1] \in Nat /\ e[r] <= e[k]
      BY <1>4, <3>2, <3>6, LaidIs
    <3>8. FirstOf(e, r) = e[r - 1] + 1
      BY DEF FirstOf
    <3>9. f \in Nat /\ f <= e[r] - e[r - 1] - 1
      BY <3>4, <3>7
    <3>10. FirstOf(e, r) + f \in Nat /\ FirstOf(e, r) + f <= e[k]
      BY <1>6, <3>7, <3>8, <3>9
    <3> QED BY <3>10
  <2> QED BY <2>2, <2>3
<1>8. ASSUME NEW x \in SettledIn(l, e, p)
      PROVE  x \in SettledIn(rest, e, k)
  <2>1. /\ x \in Nat /\ Window(x) + 2 <= Window(e[p]) + FreeWindows
        /\ x <= e[p] \/ \E z, g : HoldsFragment(l, z, g) /\ x = FirstOf(e, z) + g
    BY SettledIs
  <2>2. x <= e[k] \/ \E z, g : HoldsFragment(rest, z, g) /\ x = FirstOf(e, z) + g
    <3>1. CASE x <= e[p]
      BY <1>4, <1>5, <1>6, <2>1, <3>1
    <3>2. CASE \E z, g : HoldsFragment(l, z, g) /\ x = FirstOf(e, z) + g
      BY <1>7, <3>2
    <3> QED BY <2>1, <3>1, <3>2
  <2>3. Window(x) \in Nat /\ FreeWindows \in Nat
    BY <2>1, WindowIs, WindowBounds
  <2>4. Window(x) + 2 <= Window(e[k]) + FreeWindows
    BY <1>5, <2>1, <2>3
  <2> QED BY <2>1, <2>2, <2>4, SettledIs
<1> QED BY <1>7, <1>8 DEF k

-----------------------------------------------------------------------------
(* What the dispatch leaves for the application *)

\* The packets p + 1 to p + n of channel c.
Dispatches(t, c, p, n) ==
    /\ t \in Seq(Dispatched) /\ Len(t) = n
    /\ \A k \in 1 .. n : t[k].ch = c /\ t[k].src = {p + k} /\ PacketOf(t[k]) = p + k

\* The packets dispatched are the next n of the channel, each whole and unmixed.
LEMMA DispatchedNow ==
    ASSUME NEW c \in Channels, NEW l, NEW e, NEW p \in Nat, NEW sub, NEW T, l \in Seq(Entries),
           NEW n, Ran(l, e, p, sub, T, n),
           NEW t, t = [i \in 1 .. n |-> [ch |-> c, src |-> Contents(l[i]), count |-> l[i].count]]
    PROVE  Dispatches(t, c, p, n)
<1>1. /\ n \in Nat /\ n \in 0 .. Len(l)
      /\ \A i \in 1 .. n : PacketOf(l[i]) = p + i /\ Contents(l[i]) = {p + i}
  BY DEF Ran
<1>2. ASSUME NEW i \in 1 .. n
      PROVE  /\ t[i] \in Dispatched /\ t[i].ch = c /\ t[i].src = {p + i} /\ PacketOf(t[i]) = p + i
  <2>1. l[i] \in Entries /\ p + i \in Nat
    BY <1>1
  <2>2. l[i].count \in Nat
    BY <2>1 DEF Entries
  <2>3. t[i] = [ch |-> c, src |-> {p + i}, count |-> l[i].count]
    BY <1>1
  <2>4. {p + i} \in SUBSET Nat
    BY <2>1
  <2>5. t[i] \in Dispatched /\ t[i].ch = c /\ t[i].src = {p + i}
    BY <2>2, <2>3, <2>4 DEF Dispatched
  <2> QED BY <2>5, PacketIs
<1>3. t \in Seq(Dispatched) /\ Len(t) = n
  BY <1>1, <1>2
<1> QED BY <1>2, <1>3 DEF Dispatches

\* The packets that wait for the application when more are dispatched.
LEMMA PassedMore ==
    ASSUME NEW d \in Seq(Dispatched), NEW c, NEW k, NEW p, PassedOn(d, c, k, p),
           NEW n \in Nat, NEW t, Dispatches(t, c, p, n)
    PROVE  PassedOn(d \o t, c, k, p + n)
<1> DEFINE u == d \o t
           D == Len(d)
           N == D + n
<1>1. /\ k \in Nat /\ p \in Nat /\ k <= p
      /\ \A i \in 1 .. D : d[i].ch = c =>
            /\ PacketOf(d[i]) \in Nat /\ k < PacketOf(d[i]) /\ PacketOf(d[i]) <= p
            /\ d[i].src = {PacketOf(d[i])}
      /\ \A i, j \in 1 .. D :
            i < j /\ d[i].ch = c /\ d[j].ch = c => PacketOf(d[i]) < PacketOf(d[j])
      /\ \A x \in Nat : k < x /\ x <= p => \E i \in 1 .. D : d[i].ch = c /\ PacketOf(d[i]) = x
  BY DEF PassedOn
<1>2. /\ t \in Seq(Dispatched) /\ Len(t) = n
      /\ \A i \in 1 .. n : t[i].ch = c /\ t[i].src = {p + i} /\ PacketOf(t[i]) = p + i
  BY DEF Dispatches
<1>3. /\ Len(u) = N /\ D \in Nat
      /\ \A i \in 1 .. D : u[i] = d[i]
      /\ \A i \in 1 .. n : u[D + i] = t[i]
      /\ \A i \in 1 .. N : i \in 1 .. D \/ i - D \in 1 .. n
      /\ \A i \in 1 .. N : i \notin 1 .. D => u[i] = t[i - D]
  <2>1. Joined(u, d, t, Dispatched)
    BY <1>2, JoinedIs, Zenon
  <2>2. D \in Nat
    OBVIOUS
  <2> HIDE DEF u
  <2> QED BY <1>2, <2>1, <2>2 DEF Joined
<1> HIDE DEF u, D, N
<1>4. ASSUME NEW i \in 1 .. N, i \notin 1 .. D
      PROVE  /\ i - D \in 1 .. n /\ u[i].ch = c /\ u[i].src = {p + (i - D)}
             /\ PacketOf(u[i]) = p + (i - D) /\ p < PacketOf(u[i]) /\ PacketOf(u[i]) <= p + n
             /\ D < i /\ PacketOf(u[i]) \in Nat
  <2>1. i - D \in 1 .. n /\ u[i] = t[i - D]
    BY <1>3, <1>4
  <2>2. u[i].ch = c /\ u[i].src = {p + (i - D)} /\ PacketOf(u[i]) = p + (i - D)
    BY <1>2, <2>1
  <2>3. D < i /\ p < p + (i - D) /\ p + (i - D) <= p + n /\ p + (i - D) \in Nat
    BY <1>1, <1>3, <2>1
  <2> QED BY <2>1, <2>2, <2>3
<1>5. ASSUME NEW i \in 1 .. N, u[i].ch = c
      PROVE  /\ PacketOf(u[i]) \in Nat /\ k < PacketOf(u[i]) /\ PacketOf(u[i]) <= p + n
             /\ u[i].src = {PacketOf(u[i])}
  <2>1. CASE i \in 1 .. D
    <3>1. u[i] = d[i]
      BY <1>3, <2>1
    <3>2. /\ PacketOf(u[i]) \in Nat /\ k < PacketOf(u[i]) /\ PacketOf(u[i]) <= p
          /\ u[i].src = {PacketOf(u[i])}
      BY <1>1, <1>5, <2>1, <3>1
    <3> QED BY <1>1, <3>2
  <2>2. CASE i \notin 1 .. D
    BY <1>1, <1>4, <2>2
  <2> QED BY <2>1, <2>2
<1>6. ASSUME NEW i \in 1 .. N, NEW j \in 1 .. N, i < j, u[i].ch = c, u[j].ch = c
      PROVE  PacketOf(u[i]) < PacketOf(u[j])
  <2>1. CASE i \in 1 .. D /\ j \in 1 .. D
    <3>1. u[i] = d[i] /\ u[j] = d[j]
      BY <1>3, <2>1
    <3> QED BY <1>1, <1>6, <2>1, <3>1
  <2>2. CASE i \in 1 .. D /\ j \notin 1 .. D
    <3>1. u[i] = d[i]
      BY <1>3, <2>2
    <3>2. PacketOf(u[i]) \in Nat /\ PacketOf(u[i]) <= p
      BY <1>1, <1>6, <2>2, <3>1
    <3> QED BY <1>1, <1>4, <2>2, <3>2
  <2>3. CASE i \notin 1 .. D
    <3>1. j \notin 1 .. D
      BY <1>3, <1>4, <1>6, <2>3
    <3>2. PacketOf(u[i]) = p + (i - D) /\ PacketOf(u[j]) = p + (j - D)
      BY <1>4, <2>3, <3>1
    <3> QED BY <1>1, <1>3, <1>6, <3>2
  <2> QED BY <2>1, <2>2, <2>3
<1>7. ASSUME NEW x \in Nat, k < x, x <= p + n
      PROVE  \E i \in 1 .. N : u[i].ch = c /\ PacketOf(u[i]) = x
  <2>1. CASE x <= p
    <3>1. PICK i \in 1 .. D : d[i].ch = c /\ PacketOf(d[i]) = x
      BY <1>1, <1>7, <2>1
    <3>2. i \in 1 .. N /\ u[i] = d[i]
      BY <1>3, <3>1 DEF N
    <3> QED BY <3>1, <3>2
  <2>2. CASE ~ (x <= p)
    <3>1. x - p \in 1 .. n /\ p + (x - p) = x
      BY <1>1, <1>7, <2>2
    <3>2. D + (x - p) \in 1 .. N
      BY <1>3, <3>1 DEF N
    <3>3. u[D + (x - p)] = t[x - p]
      BY <1>3, <3>1
    <3>4. t[x - p].ch = c /\ PacketOf(t[x - p]) = x
      BY <1>2, <3>1
    <3> QED BY <3>2, <3>3, <3>4
  <2> QED BY <2>1, <2>2
<1>8. p + n \in Nat /\ k <= p + n
  BY <1>1
<1>9. PassedOn(u, c, k, p + n)
  BY <1>1, <1>3, <1>5, <1>6, <1>7, <1>8 DEF PassedOn
<1> QED BY <1>9 DEF u

\* Those of another channel.
LEMMA PassedOthers ==
    ASSUME NEW d \in Seq(Dispatched), NEW c, NEW k, NEW q, PassedOn(d, c, k, q),
           NEW n \in Nat, NEW t, NEW b, NEW p, b # c, Dispatches(t, b, p, n)
    PROVE  PassedOn(d \o t, c, k, q)
<1> DEFINE u == d \o t
           D == Len(d)
           N == D + n
<1>1. /\ k \in Nat /\ q \in Nat /\ k <= q
      /\ \A i \in 1 .. D : d[i].ch = c =>
            /\ PacketOf(d[i]) \in Nat /\ k < PacketOf(d[i]) /\ PacketOf(d[i]) <= q
            /\ d[i].src = {PacketOf(d[i])}
      /\ \A i, j \in 1 .. D :
            i < j /\ d[i].ch = c /\ d[j].ch = c => PacketOf(d[i]) < PacketOf(d[j])
      /\ \A x \in Nat : k < x /\ x <= q => \E i \in 1 .. D : d[i].ch = c /\ PacketOf(d[i]) = x
  BY DEF PassedOn
<1>2. /\ t \in Seq(Dispatched) /\ Len(t) = n /\ \A i \in 1 .. n : t[i].ch = b
  BY DEF Dispatches
<1>3. /\ Len(u) = N /\ D \in Nat
      /\ \A i \in 1 .. D : u[i] = d[i]
      /\ \A i \in 1 .. N : i \in 1 .. D \/ i - D \in 1 .. n
      /\ \A i \in 1 .. N : i \notin 1 .. D => u[i] = t[i - D]
  <2>1. Joined(u, d, t, Dispatched)
    BY <1>2, JoinedIs, Zenon
  <2>2. D \in Nat
    OBVIOUS
  <2> HIDE DEF u
  <2> QED BY <1>2, <2>1, <2>2 DEF Joined
<1>4. 1 .. D \subseteq 1 .. N
  BY <1>3
<1> HIDE DEF u, D, N
<1>5. \A i \in 1 .. N : u[i].ch = c => i \in 1 .. D /\ u[i] = d[i]
  BY <1>2, <1>3
<1>6. \A x \in Nat : k < x /\ x <= q => \E i \in 1 .. N : u[i].ch = c /\ PacketOf(u[i]) = x
  BY <1>1, <1>3, <1>4
<1>7. PassedOn(u, c, k, q)
  BY <1>1, <1>3, <1>5, <1>6 DEF PassedOn
<1> QED BY <1>7 DEF u

-----------------------------------------------------------------------------
(* What the receiving peer stores changes what has arrived *)

\* More has arrived, of what was sent and within the windows.
Advances(S, L, R, M, T) ==
    /\ \A c \in Channels : /\ S[c] \subseteq R[c] /\ R[c] \subseteq Nat
                           /\ L[c] \in Nat /\ M[c] \in Nat /\ L[c] <= M[c] /\ M[c] <= T[c]
                           /\ \A x \in R[c] : Window(x) + 2 <= Window(M[c]) + FreeWindows

\* The sending peer is not concerned.
LEMMA ReachAdvances ==
    ASSUME NEW O, NEW S, NEW L, NEW T, Reaching(O, S, L, T), NEW R, NEW M, Advances(S, L, R, M, T)
    PROVE  Reaching(O, R, M, T)
<1> SUFFICES ASSUME NEW c \in Channels PROVE Reach(Awaited(O, c), R[c], M[c], T[c])
  BY DEF Reaching
<1> DEFINE A == Awaited(O, c)
           l == L[c]
           m == M[c]
           t == T[c]
           s == S[c]
           r == R[c]
<1>1. Reach(A, s, l, t)
  BY DEF Reaching
<1>2. /\ s \subseteq r /\ r \subseteq Nat /\ l \in Nat /\ m \in Nat /\ l <= m /\ m <= t
      /\ \A x \in r : Window(x) + 2 <= Window(m) + FreeWindows
  BY DEF Advances
<1> HIDE DEF A, l, m, t, s, r
<1>3. /\ A \subseteq Nat /\ t \in Nat /\ StartAt <= l /\ l <= t
      /\ \A x \in A : StartAt < x /\ x <= t /\ Window(t) + FreeWindows + 2 <= Window(x) + Windows
      /\ Window(t) + 1 <= Window(l) + FreeWindows
      /\ \A x \in Nat : StartAt < x /\ x <= t => x \in A \/ x \in s
  BY <1>1 DEF Reach
<1>4. Window(l) <= Window(m)
  BY <1>2, WindowOrder
<1>5. Window(l) \in Nat /\ Window(m) \in Nat /\ Window(t) \in Nat /\ FreeWindows \in Nat
      /\ StartAt \in Nat
  BY <1>2, <1>3, WindowIs, WindowBounds, ConstantsAre
<1>6. Window(t) + 1 <= Window(m) + FreeWindows /\ StartAt <= m
  BY <1>2, <1>3, <1>4, <1>5
<1>7. \A x \in Nat : StartAt < x /\ x <= t => x \in A \/ x \in r
  BY <1>2, <1>3
<1>8. Reach(A, r, m, t)
  BY <1>2, <1>3, <1>6, <1>7 DEF Reach
<1> QED BY <1>8 DEF A, m, t, r

\* The sending peer and the network, when the receiving peer stores and
\* acknowledges.
LEMMA StoredNumbers ==
    ASSUME NEW S, NEW L, NEW T, SenderNumbers(S, L, T), NEW R, NEW M, Advances(S, L, R, M, T),
           NetworkTypes, acknowledgements \subseteq [ch : Channels, abs : Nat],
           UNCHANGED <<senderVars, data, acks>>,
           acknowledgements' \subseteq [ch : Channels, abs : Nat],
           \A a \in acknowledgements' : a \in acknowledgements \/
               /\ StartAt < a.abs /\ a.abs <= T[a.ch] /\ a.abs \in R[a.ch]
               /\ T[a.ch] < a.abs + Lifetime
    PROVE  /\ Flight(sentReliableCommands', outgoingSendReliableCommands', lastQueued', R, M, T)
           /\ Young(data', T) /\ Known(acks', R, T)
           /\ Owed(acknowledgements', acks',
                   Out(sentReliableCommands', outgoingSendReliableCommands'), R, T)
<1> DEFINE O == Out(sentReliableCommands, outgoingSendReliableCommands)
<1>1. /\ Flight(sentReliableCommands, outgoingSendReliableCommands, lastQueued, S, L, T)
      /\ Young(data, T) /\ Known(acks, S, T) /\ Owed(acknowledgements, acks, O, S, T)
  BY DEF SenderNumbers
<1>2. /\ sentReliableCommands' = sentReliableCommands
      /\ outgoingSendReliableCommands' = outgoingSendReliableCommands
      /\ lastQueued' = lastQueued /\ data' = data /\ acks' = acks
  BY DEF senderVars
<1>3. \A c \in Channels : S[c] \subseteq R[c]
  BY DEF Advances
<1> HIDE DEF O
<1>4. Flight(sentReliableCommands, outgoingSendReliableCommands, lastQueued, R, M, T)
  <2>1. Reaching(O, S, L, T)
    BY <1>1 DEF Flight, O
  <2>2. Reaching(O, R, M, T)
    BY <2>1, ReachAdvances
  <2> QED BY <1>1, <2>2 DEF Flight, O
<1>5. \A a \in acks : a.ch \in Channels
  BY DEF NetworkTypes
<1>6. Known(acks, R, T)
  BY <1>1, <1>3, <1>5 DEF Known
<1>7. Owed(acknowledgements', acks, O, R, T)
  <2> SUFFICES ASSUME NEW a \in acknowledgements'
               PROVE  /\ StartAt < a.abs /\ a.abs <= T[a.ch] /\ a.abs \in R[a.ch]
                      /\ \E t \in Nat :
                            /\ t < a.abs + Lifetime
                            /\ \A x \in Nat : t < x /\ x <= T[a.ch] =>
                                  x \in Awaited(O, a.ch) /\ \A b \in acks : b.ch = a.ch => b.abs # x
    BY DEF Owed
  <2>1. a.ch \in Channels
    OBVIOUS
  <2>2. CASE a \in acknowledgements
    <3>1. /\ StartAt < a.abs /\ a.abs <= T[a.ch] /\ a.abs \in S[a.ch]
          /\ \E t \in Nat :
                /\ t < a.abs + Lifetime
                /\ \A x \in Nat : t < x /\ x <= T[a.ch] =>
                      x \in Awaited(O, a.ch) /\ \A b \in acks : b.ch = a.ch => b.abs # x
      BY <1>1, <2>2 DEF Owed
    <3> QED BY <1>3, <2>1, <3>1
  <2>3. CASE a \notin acknowledgements
    <3>1. /\ StartAt < a.abs /\ a.abs <= T[a.ch] /\ a.abs \in R[a.ch]
          /\ T[a.ch] < a.abs + Lifetime
      BY <2>3
    <3>2. PICK t : t = T[a.ch]
      OBVIOUS
    <3>3. t \in Nat
      BY <1>1, <2>1, <3>2 DEF Flight, Reaching, Reach
    <3>4. \A x \in Nat : ~ (t < x /\ x <= t)
      BY <3>3
    <3>5. \A x \in Nat : t < x /\ x <= T[a.ch] =>
             x \in Awaited(O, a.ch) /\ \A b \in acks : b.ch = a.ch => b.abs # x
      BY <3>2, <3>4
    <3> QED BY <3>1, <3>2, <3>3, <3>5
  <2> QED BY <2>2, <2>3
<1> QED BY <1>1, <1>2, <1>4, <1>6, <1>7 DEF O

-----------------------------------------------------------------------------
(* What the handlers of a datagram do *)

\* The list l waits for channel c.
Stored(c, l) ==
    /\ incomingReliableCommands' = [incomingReliableCommands EXCEPT ![c] = l]
    /\ UNCHANGED <<incomingReliableSequenceNumber, dispatchedCommands>>

\* Nothing is queued; what is acknowledged has arrived.
Keeps(m, e, p) ==
    /\ NothingQueued
    /\ \A a \in acknowledgements' : 
          \/ a \in acknowledgements
          \/ /\ a = [ch |-> m.ch, abs |-> m.abs]
             /\ m.abs \in SettledIn(incomingReliableCommands[m.ch], e, p)

\* The fragment is in the list l that is stored or dispatched.
Stores(m, l, e, p, sub, T) ==
    /\ Waits(l, e, p, sub, T) /\ Gains(l, incomingReliableCommands[m.ch], m.pkt, m.frag)
    /\ Dispatch(m.ch, l) \/ Stored(m.ch, l)
    /\ Acknowledge(m)

\* What was known of the receiving peer and of the datagram before.
Meets(m, e, p, sub, T) ==
    /\ Ahead(e, p, sub, T) /\ Comes(m, e, sub, T)
    /\ Waits(incomingReliableCommands[m.ch], e, p, sub, T)
    /\ incomingReliableSequenceNumber[m.ch] = e[p] % SeqSpace

\* A datagram that is not queued is acknowledged only if it has arrived before.
LEMMA KeepsAcknowledged ==
    ASSUME NEW m, NEW e, NEW p, NothingQueued, Acknowledge(m) \/ UNCHANGED acknowledgements,
           Acknowledged(Seq16(m), incomingReliableSequenceNumber[m.ch]) =>
              m.abs \in SettledIn(incomingReliableCommands[m.ch], e, p)
    PROVE  Keeps(m, e, p)
<1>1. incomingReliableSequenceNumber' = incomingReliableSequenceNumber
  BY DEF NothingQueued
<1>2. CASE UNCHANGED acknowledgements
  BY <1>2 DEF Keeps
<1>3. CASE Acknowledge(m)
  BY <1>1, <1>3 DEF Keeps, Acknowledge
<1> QED BY <1>2, <1>3

\* What the handlers do with a datagram they have no use for.
LEMMA Discarded ==
    ASSUME NEW m, NEW y, NEW current, StartSeq16(m) = y, m.count = 1 => Seq16(m) = y,
           incomingReliableSequenceNumber[m.ch] = current, HandleData(m),
           ~ InWindow(y, current) \/ (m.count = 1 /\ y = current)
    PROVE  NothingQueued /\ Acknowledge(m)
<1>1. HandleSendReliable(m) \/ HandleSendFragment(m)
  BY DEF HandleData
<1>2. CASE HandleSendReliable(m)
  <2>1. m.count = 1 /\ Seq16(m) = y
    BY <1>2 DEF HandleSendReliable
  <2> QED BY <1>2, <2>1 DEF HandleSendReliable
<1>3. CASE HandleSendFragment(m)
  <2>1. m.count > 1
    BY <1>3 DEF HandleSendFragment
  <2>2. m.count # 1
    BY <2>1
  <2>3. ~ InWindow(y, current)
    BY <2>2
  <2> QED BY <1>3, <2>3 DEF HandleSendFragment
<1> QED BY <1>1, <1>2, <1>3

\* A datagram of a packet already dispatched is not queued again.
LEMMA OldKept ==
    ASSUME NEW m, NEW e, NEW p, NEW sub, NEW T, Meets(m, e, p, sub, T), HandleData(m), m.pkt <= p
    PROVE  Keeps(m, e, p)
<1> DEFINE y == FirstOf(e, m.pkt) % SeqSpace
           current == e[p] % SeqSpace
<1>1. /\ Ahead(e, p, sub, T) /\ Comes(m, e, sub, T) /\ Laid(e, sub) /\ e[p] \in Nat
      /\ incomingReliableSequenceNumber[m.ch] = current
  BY DEF Meets, Ahead
<1>2. /\ m.abs \in Nat /\ StartSeq16(m) = y /\ m.count = 1 => Seq16(m) = y
  BY <1>1, StartIs
<1>3. m.abs <= e[p] /\ (~ InWindow(y, current) \/ (m.count = 1 /\ y = current))
  BY <1>1, OldRefused
<1>4. m.abs \in Nat
  BY <1>1, StartIs
<1>5. StartSeq16(m) = y /\ (m.count = 1 => Seq16(m) = y)
  BY <1>1, StartIs
<1> HIDE DEF y, current
<1>6. NothingQueued /\ Acknowledge(m)
  BY <1>1, <1>3, <1>5, Discarded
<1>7. Window(m.abs) <= Window(e[p]) /\ Window(m.abs) \in Nat /\ Window(e[p]) \in Nat
  BY <1>1, <1>3, <1>4, WindowOrder, WindowIs
<1>8. Window(m.abs) + 2 <= Window(e[p]) + FreeWindows
  BY <1>7, WindowBounds
<1>9. m.abs \in SettledIn(incomingReliableCommands[m.ch], e, p)
  BY <1>3, <1>4, <1>8 DEF SettledIn
<1> QED BY <1>6, <1>9, KeepsAcknowledged

\* A datagram beyond the windows accepted is neither queued nor acknowledged.
LEMMA OutsideKept ==
    ASSUME NEW m, NEW e, NEW p, NEW sub, NEW T, Meets(m, e, p, sub, T), HandleData(m), p < m.pkt,
           ~ InWindow(FirstOf(e, m.pkt) % SeqSpace, e[p] % SeqSpace)
    PROVE  Keeps(m, e, p)
<1> DEFINE y == FirstOf(e, m.pkt) % SeqSpace
           current == e[p] % SeqSpace
<1>1. /\ Ahead(e, p, sub, T) /\ Comes(m, e, sub, T) /\ Laid(e, sub)
      /\ incomingReliableSequenceNumber[m.ch] = current
  BY DEF Meets, Ahead
<1>2. StartSeq16(m) = y /\ (m.count = 1 => Seq16(m) = y)
  BY <1>1, StartIs
<1>3. ~ Acknowledged(Seq16(m), current) /\ ~ InWindow(y, current)
  BY <1>1, NewSeen
<1> HIDE DEF y, current
<1>4. NothingQueued /\ Acknowledge(m)
  BY <1>1, <1>2, <1>3, Discarded
<1> QED BY <1>1, <1>3, <1>4, KeepsAcknowledged

\* What is held of a packet within the windows has arrived.
LEMMA HeldSettled ==
    ASSUME NEW e, NEW p, NEW queue, NEW r, NEW f, HoldsFragment(queue, r, f),
           NEW x, x \in Nat, x = FirstOf(e, r) + f, Window(x) + 2 <= Window(e[p]) + FreeWindows
    PROVE  x \in SettledIn(queue, e, p)
BY SettledIs

\* An entry that holds fragments of the packet of m.
LEMMA HoldsNow ==
    ASSUME NEW m, NEW e, NEW p, NEW sub, NEW T, Ahead(e, p, sub, T), Comes(m, e, sub, T),
           p < m.pkt, InWindow(FirstOf(e, m.pkt) % SeqSpace, e[p] % SeqSpace),
           NEW x, x.src = {m.pkt}, x.count = m.count, x.seq = FirstOf(e, m.pkt) % SeqSpace,
           NEW G, x.got = G \cup {m.frag}, G \subseteq 0 .. m.count - 1,
           \A f \in G : FirstOf(e, m.pkt) + f <= T
    PROVE  HoldsPacket(x, m.pkt, e, p, sub, T)
<1> DEFINE y == FirstOf(e, m.pkt)
<1>1. Laid(e, sub) /\ sub \in Nat
  BY DEF Ahead, Laid
<1>2. /\ m.pkt \in Nat /\ m.frag \in Nat /\ m.count \in Nat
  BY <1>1, StartIs
<1>3. /\ m.pkt \in 1 .. sub /\ m.frag < m.count /\ m.abs = y + m.frag
      /\ m.count = e[m.pkt] - e[m.pkt - 1] /\ m.abs <= T
  BY DEF Comes
<1>4. Window(y) + 2 <= Window(e[p]) + FreeWindows
  BY NewSeen
<1> HIDE DEF y
<1>5. x.got \subseteq 0 .. x.count - 1 /\ x.got # {} /\ m.frag \in x.got
  <2>1. m.frag \in 0 .. m.count - 1
    BY <1>2, <1>3
  <2> DEFINE J == 0 .. m.count - 1
  <2>2. m.frag \in J /\ G \subseteq J /\ x.got = G \cup {m.frag} /\ J = 0 .. x.count - 1
    BY <2>1
  <2> HIDE DEF J
  <2> QED BY <2>2
<1>6. \A f \in x.got : y + f <= T
  BY <1>3 DEF y
<1>7. m.pkt <= sub
  BY <1>1, <1>3
<1> QED BY <1>2, <1>3, <1>4, <1>5, <1>6, <1>7 DEF HoldsPacket, y

\* l with entry x at place i.
Replaced(u, l, i, x) ==
    /\ u \in Seq(Entries) /\ Len(u) = Len(l) /\ u[i] = x
    /\ \A j \in 1 .. Len(l) : j # i => u[j] = l[j]

\* Entry x with fragment m.
FilledBy(x, y, m) ==
    /\ x.seq = y.seq /\ x.count = y.count /\ x.got = y.got \cup {m.frag}
    /\ x.src = IF m.frag \in y.got THEN y.src ELSE y.src \cup {m.pkt}

\* CopyFragment replaces one entry and dispatches or stores the list.
LEMMA CopyDoes ==
    ASSUME NEW m \in Commands, NEW l \in Seq(Entries), NEW i \in 1 .. Len(l), CopyFragment(m, l, i)
    PROVE  \E u, x : Replaced(u, l, i, x) /\ FilledBy(x, l[i], m)
                     /\ (Dispatch(m.ch, u) \/ Stored(m.ch, u))
<1> DEFINE known == m.frag \in l[i].got
           x == [l[i] EXCEPT !.got = @ \cup {m.frag},
                             !.src = IF known THEN @ ELSE @ \cup {m.pkt}]
           g == [l EXCEPT ![i].got = @ \cup {m.frag},
                          ![i].src = IF known THEN @ ELSE @ \cup {m.pkt}]
           u == [l EXCEPT ![i] = x]
<1>1. m.frag \in Nat /\ m.pkt \in Nat
  BY DEF Commands
<1>2. l[i] \in Entries
  OBVIOUS
<1>3. x \in Entries
  BY <1>1, <1>2 DEF Entries
<1>4. FilledBy(x, l[i], m)
  BY <1>2 DEF FilledBy, Entries
<1>5. g = u
  OBVIOUS
<1>6. Dispatch(m.ch, u) \/ Stored(m.ch, u)
  BY <1>5 DEF CopyFragment, Stored
<1> HIDE DEF x, g
<1>7. Replaced(u, l, i, x)
  BY <1>3 DEF Replaced
<1> HIDE DEF u
<1> QED BY <1>4, <1>6, <1>7

\* What InsertAt does, as one predicate.
LEMMA InsertedLike ==
    ASSUME NEW s \in Seq(Entries), NEW i \in 1 .. Len(s) + 1, NEW x \in Entries
    PROVE  InsertedAs(InsertAt(s, i, x), s, i, x)
BY InsertedIs DEF InsertedAs

\* A packet that is not fragmented.
LEMMA ReliableStored ==
    ASSUME ReceiverTypes, NEW m, NEW e, NEW p, NEW sub, NEW T, Meets(m, e, p, sub, T),
           HandleData(m), HandleSendReliable(m), p < m.pkt,
           InWindow(FirstOf(e, m.pkt) % SeqSpace, e[p] % SeqSpace)
    PROVE  Keeps(m, e, p) \/ \E l : Stores(m, l, e, p, sub, T)
<1> DEFINE y == FirstOf(e, m.pkt)
           seq == y % SeqSpace
           current == e[p] % SeqSpace
           queue == incomingReliableCommands[m.ch]
           k == InsertPosition(queue, seq, current)
           n == FoundAt(queue, seq, current)
           l == InsertAt(queue, k + 1, Entry(m, seq))
<1>1. /\ Ahead(e, p, sub, T) /\ Comes(m, e, sub, T) /\ Laid(e, sub) /\ m \in Commands
      /\ Waits(queue, e, p, sub, T)
      /\ incomingReliableSequenceNumber[m.ch] = current
  BY DEF Meets, Ahead, Comes
<1>2. m.count = 1
  BY DEF HandleSendReliable
<1>3. /\ m.pkt \in Nat /\ m.abs \in Nat /\ y \in Nat /\ m.frag = 0 /\ m.abs = y /\ Seq16(m) = seq
      /\ m.pkt \in 1 .. sub
  BY <1>1, <1>2, StartIs DEF Comes
<1>4. /\ e[p] < y /\ y <= T /\ seq # current
      /\ Window(y) + 2 <= Window(e[p]) + FreeWindows
  BY <1>1, NewSeen
<1>5. Finds(queue, k, n, m.pkt)
  BY <1>1, <1>3, <1>4, QueuePlace
<1>6. /\ queue \in Seq(Entries) /\ Len(queue) \in Nat
      /\ \A i \in 1 .. Len(queue) : HoldsPacket(queue[i], PacketOf(queue[i]), e, p, sub, T)
  BY <1>1, WaitsIs
<1>7. seq \in 0 .. SeqSpace - 1
  BY <1>3, WindowBounds
<1>8. /\ Entry(m, seq) \in Entries /\ Entry(m, seq).src = {m.pkt} /\ Entry(m, seq).got = {m.frag}
      /\ Entry(m, seq).seq = seq /\ Entry(m, seq).count = m.count
  <2>1. Entry(m, seq) \in Entries
    BY <1>1, <1>7, EntryIs
  <2> QED BY <1>2, <1>3, <2>1 DEF Entry
<1>9. \/ (n > 0) /\ NothingQueued /\ Acknowledge(m)
      \/ ~ (n > 0) /\ Dispatch(m.ch, l) /\ Acknowledge(m)
      \/ NothingQueued /\ UNCHANGED acknowledgements
  <2> HIDE DEF y, seq, current
  <2>1. InWindow(seq, current)
    BY DEF seq, current, y
  <2>2. HandleSendReliable(m)
    OBVIOUS
  <2> QED BY <1>1, <1>3, <1>4, <2>1, <2>2 DEF HandleSendReliable
<1> HIDE DEF y, seq, current, k, n, l
<1>10. CASE (n > 0) /\ NothingQueued /\ Acknowledge(m)
  <2>1. n \in 1 .. Len(queue) /\ PacketOf(queue[n]) = m.pkt
    BY <1>5, <1>10 DEF Finds
  <2>2. HoldsPacket(queue[n], m.pkt, e, p, sub, T)
    BY <1>6, <2>1
  <2>3. queue[n].count = m.count
    BY <1>1, <2>2 DEF HoldsPacket, Comes
  <2>4. m.frag \in queue[n].got
    <3>1. queue[n].got \subseteq 0 .. m.count - 1 /\ queue[n].got # {}
      BY <2>2, <2>3 DEF HoldsPacket
    <3>2. PICK g \in queue[n].got : TRUE
      BY <3>1
    <3>3. g = m.frag
      BY <1>2, <1>3, <3>1, <3>2
    <3> QED BY <3>2, <3>3
  <2>5. HoldsFragment(queue, m.pkt, m.frag)
    BY <2>1, <2>4 DEF HoldsFragment
  <2>6. m.abs = FirstOf(e, m.pkt) + m.frag
    BY <1>1 DEF Comes
  <2>7. Window(m.abs) + 2 <= Window(e[p]) + FreeWindows
    BY <1>3, <1>4
  <2>8. m.abs \in SettledIn(queue, e, p)
    BY <1>3, <2>5, <2>6, <2>7, HeldSettled
  <2> QED BY <1>10, <2>8, KeepsAcknowledged
<1>11. CASE ~ (n > 0) /\ Dispatch(m.ch, l) /\ Acknowledge(m)
  <2>1. Placed(queue, k, m.pkt) /\ n \in 0 .. Len(queue)
    BY <1>5 DEF Finds
  <2>2. \A i \in 1 .. Len(queue) : PacketOf(queue[i]) # m.pkt
    <3>1. n = 0
      BY <1>6, <1>11, <2>1
    <3> QED BY <1>5, <3>1 DEF Finds
  <2>3. k \in 0 .. Len(queue)
    BY <2>1 DEF Placed
  <2>4. k + 1 \in 1 .. Len(queue) + 1
    BY <1>6, <2>3
  <2> DEFINE x == Entry(m, seq)
  <2>5. InsertedAs(l, queue, k + 1, x)
    <3>1. PICK i : i = k + 1
      OBVIOUS
    <3>2. i \in 1 .. Len(queue) + 1 /\ l = InsertAt(queue, i, x) /\ x \in Entries
      BY <1>8, <2>4, <3>1 DEF l
    <3> HIDE DEF x
    <3>3. InsertedAs(l, queue, i, x)
      BY <1>6, <3>2, InsertedLike
    <3> QED BY <3>1, <3>3
  <2>6. x.src = {m.pkt} /\ x.count = m.count /\ x.seq = y % SeqSpace /\ x.got = {} \cup {m.frag}
    BY <1>8 DEF seq
  <2> HIDE DEF x
  <2>7. HoldsPacket(x, m.pkt, e, p, sub, T)
    <3>1. PICK G : G = {}
      OBVIOUS
    <3>2. /\ x.got = G \cup {m.frag} /\ G \subseteq 0 .. m.count - 1
          /\ \A f \in G : FirstOf(e, m.pkt) + f <= T
      BY <2>6, <3>1
    <3>3. x.src = {m.pkt} /\ x.count = m.count /\ x.seq = FirstOf(e, m.pkt) % SeqSpace
      BY <2>6 DEF y
    <3> QED BY <1>1, <3>2, <3>3, HoldsNow
  <2>8. Waits(l, e, p, sub, T) /\ Gains(l, queue, m.pkt, m.frag)
    <3>1. m.frag \in x.got
      BY <2>6
    <3> QED BY <1>1, <1>3, <2>1, <2>2, <2>5, <2>7, <3>1, InsertedWaits
  <2>9. Stores(m, l, e, p, sub, T)
    BY <1>11, <2>8 DEF Stores
  <2> QED BY <2>9
<1>12. CASE NothingQueued /\ UNCHANGED acknowledgements
  <2>1. Keeps(m, e, p)
    BY <1>12 DEF Keeps
  <2> QED BY <2>1
<1> QED BY <1>9, <1>10, <1>11, <1>12

-----------------------------------------------------------------------------
\* The fragment of an entry already queued.
LEMMA FragmentFilled ==
    ASSUME ReceiverTypes, NEW m, NEW e, NEW p, NEW sub, NEW T, Meets(m, e, p, sub, T),
           p < m.pkt, InWindow(FirstOf(e, m.pkt) % SeqSpace, e[p] % SeqSpace),
           NEW n \in 1 .. Len(incomingReliableCommands[m.ch]),
           PacketOf(incomingReliableCommands[m.ch][n]) = m.pkt,
           CopyFragment(m, incomingReliableCommands[m.ch], n), Acknowledge(m)
    PROVE  \E l : Stores(m, l, e, p, sub, T)
<1> DEFINE queue == incomingReliableCommands[m.ch]
           y == queue[n]
           first == FirstOf(e, m.pkt) % SeqSpace
<1>1. /\ Ahead(e, p, sub, T) /\ Comes(m, e, sub, T) /\ m \in Commands
      /\ Waits(queue, e, p, sub, T)
  BY DEF Meets, Comes
<1>2. /\ queue \in Seq(Entries)
      /\ HoldsPacket(y, m.pkt, e, p, sub, T)
  BY <1>1, WaitsIs
<1> HIDE DEF queue, y
<1>3. PICK u, x : /\ Replaced(u, queue, n, x) /\ FilledBy(x, y, m)
                  /\ Dispatch(m.ch, u) \/ Stored(m.ch, u)
  <2>1. n \in 1 .. Len(queue) /\ CopyFragment(m, queue, n)
    BY DEF queue
  <2> QED BY <1>1, <1>2, <2>1, CopyDoes DEF y
<1>4. /\ y.src = {m.pkt} /\ y.count = m.count /\ y.seq = first
      /\ y.got \subseteq 0 .. m.count - 1
      /\ \A f \in y.got : FirstOf(e, m.pkt) + f <= T
  BY <1>1, <1>2 DEF HoldsPacket, Comes
<1>5. /\ x.src = {m.pkt} /\ x.count = m.count /\ x.seq = first
      /\ x.got = y.got \cup {m.frag}
  BY <1>3, <1>4 DEF FilledBy
<1>6. HoldsPacket(x, m.pkt, e, p, sub, T)
  BY <1>1, <1>4, <1>5, HoldsNow
<1>7. Waits(u, e, p, sub, T) /\ Gains(u, queue, m.pkt, m.frag)
  <2>1. n \in 1 .. Len(queue) /\ PacketOf(queue[n]) = m.pkt
    BY DEF queue
  <2>2. /\ u \in Seq(Entries) /\ Len(u) = Len(queue) /\ u[n] = x
        /\ \A j \in 1 .. Len(queue) : j # n => u[j] = queue[j]
    BY <1>3 DEF Replaced
  <2>3. queue[n].got \subseteq x.got /\ m.frag \in x.got
    BY <1>5 DEF y
  <2>4. HoldsPacket(x, PacketOf(queue[n]), e, p, sub, T)
    BY <1>6, <2>1
  <2>5. Waits(u, e, p, sub, T) /\ Gains(u, queue, PacketOf(queue[n]), m.frag)
    BY <1>1, <2>1, <2>2, <2>3, <2>4, ReplacedWaits
  <2> QED BY <2>1, <2>5
<1>8. Stores(m, u, e, p, sub, T)
  BY <1>3, <1>7 DEF Stores, queue
<1> QED BY <1>8

\* The first fragment of a packet to arrive.
LEMMA FragmentPlaced ==
    ASSUME ReceiverTypes, NEW m, NEW e, NEW p, NEW sub, NEW T, Meets(m, e, p, sub, T),
           p < m.pkt, InWindow(FirstOf(e, m.pkt) % SeqSpace, e[p] % SeqSpace), m.count > 1,
           NEW k, Placed(incomingReliableCommands[m.ch], k, m.pkt),
           \A i \in 1 .. Len(incomingReliableCommands[m.ch]) :
               PacketOf(incomingReliableCommands[m.ch][i]) # m.pkt,
           NEW j, j = k + 1, NEW y, y = Entry(m, FirstOf(e, m.pkt) % SeqSpace),
           CopyFragment(m, InsertAt(incomingReliableCommands[m.ch], j, y), j), Acknowledge(m)
    PROVE  \E l : Stores(m, l, e, p, sub, T)
<1> DEFINE queue == incomingReliableCommands[m.ch]
           first == FirstOf(e, m.pkt) % SeqSpace
           l == InsertAt(queue, j, y)
<1>1. /\ Ahead(e, p, sub, T) /\ Comes(m, e, sub, T) /\ Laid(e, sub) /\ m \in Commands
      /\ Waits(queue, e, p, sub, T)
  BY DEF Meets, Ahead, Comes
<1>2. queue \in Seq(Entries) /\ Len(queue) \in Nat
  BY <1>1, WaitsIs
<1>3. m.pkt \in Nat /\ m.count \in Nat /\ first \in 0 .. SeqSpace - 1
  <2>1. m.pkt \in Nat /\ m.count \in Nat /\ FirstOf(e, m.pkt) \in Nat
    BY <1>1, StartIs
  <2> QED BY <2>1, WindowBounds
<1>4. y \in Entries /\ y.src = {} /\ y.got = {} /\ y.seq = first /\ y.count = m.count
  <2> HIDE DEF first
  <2>1. y = Entry(m, first)
    BY DEF first
  <2>2. y \in Entries
    BY <1>1, <1>3, <2>1, EntryIs
  <2>3. m.count # 1
    BY <1>3
  <2> QED BY <2>1, <2>2, <2>3 DEF Entry
<1>5. Placed(queue, k, m.pkt) /\ k \in 0 .. Len(queue)
      /\ \A i \in 1 .. Len(queue) : PacketOf(queue[i]) # m.pkt
  BY DEF Placed
<1>6. CopyFragment(m, l, j)
  OBVIOUS
<1> HIDE DEF queue, first
<1>7. j \in 1 .. Len(queue) + 1
  BY <1>2, <1>5
<1>8. InsertedAs(l, queue, j, y)
  BY <1>2, <1>4, <1>7, InsertedLike
<1> HIDE DEF l
<1>9. l \in Seq(Entries) /\ j \in 1 .. Len(l) /\ l[j] = y
  BY <1>2, <1>7, <1>8 DEF InsertedAs
<1>10. PICK u, x : /\ Replaced(u, l, j, x) /\ FilledBy(x, l[j], m)
                   /\ Dispatch(m.ch, u) \/ Stored(m.ch, u)
  BY <1>1, <1>6, <1>9, CopyDoes
<1>11. /\ x.src = {m.pkt} /\ x.count = m.count /\ x.seq = first
       /\ x.got = y.got \cup {m.frag}
  BY <1>4, <1>9, <1>10 DEF FilledBy
<1>12. HoldsPacket(x, m.pkt, e, p, sub, T)
  <2>1. y.got \subseteq 0 .. m.count - 1 /\ \A f \in y.got : FirstOf(e, m.pkt) + f <= T
    BY <1>4
  <2> QED BY <1>1, <1>11, <2>1, HoldsNow DEF first
<1>13. InsertedAs(u, queue, k + 1, x)
  <2>1. InsertedAs(u, queue, j, x)
    BY <1>2, <1>7, <1>8, <1>10 DEF InsertedAs, Replaced
  <2> QED BY <2>1
<1>14. Waits(u, e, p, sub, T) /\ Gains(u, queue, m.pkt, m.frag)
  <2>1. m.frag \in x.got
    BY <1>11
  <2> QED BY <1>1, <1>3, <1>5, <1>12, <1>13, <2>1, InsertedWaits
<1>15. Stores(m, u, e, p, sub, T)
  BY <1>10, <1>14 DEF Stores, queue
<1> QED BY <1>15

\* A packet that is fragmented.
LEMMA FragmentStored ==
    ASSUME ReceiverTypes, NEW m, NEW e, NEW p, NEW sub, NEW T, Meets(m, e, p, sub, T),
           HandleSendFragment(m), p < m.pkt,
           InWindow(FirstOf(e, m.pkt) % SeqSpace, e[p] % SeqSpace)
    PROVE  Keeps(m, e, p) \/ \E l : Stores(m, l, e, p, sub, T)
<1> DEFINE y == FirstOf(e, m.pkt)
           seq == y % SeqSpace
           current == e[p] % SeqSpace
           queue == incomingReliableCommands[m.ch]
           k == InsertPosition(queue, seq, current)
           n == FoundAt(queue, seq, current)
           z == Entry(m, seq)
           j == k + 1
<1>1. /\ Ahead(e, p, sub, T) /\ Comes(m, e, sub, T) /\ Laid(e, sub)
      /\ Waits(queue, e, p, sub, T)
      /\ incomingReliableSequenceNumber[m.ch] = current
  BY DEF Meets, Ahead
<1>2. m.pkt \in 1 .. sub /\ StartSeq16(m) = seq
  BY <1>1, StartIs DEF Comes
<1>3. e[p] < y /\ y <= T
  BY <1>1, NewSeen
<1>4. Finds(queue, k, n, m.pkt)
  BY <1>1, <1>2, <1>3, QueuePlace
<1>5. InWindow(seq, current)
  OBVIOUS
<1> HIDE DEF y, seq, current
<1>6. \/ n > 0 /\ CopyFragment(m, queue, n) /\ Acknowledge(m)
      \/ n = 0 /\ CopyFragment(m, InsertAt(queue, j, z), j) /\ Acknowledge(m)
      \/ NothingQueued /\ UNCHANGED acknowledgements
  BY <1>1, <1>2, <1>5 DEF HandleSendFragment
<1>7. m.count > 1
  BY DEF HandleSendFragment
<1> HIDE DEF queue, k, n, z, j
<1>8. CASE n > 0 /\ CopyFragment(m, queue, n) /\ Acknowledge(m)
  <2>1. n \in 1 .. Len(queue) /\ PacketOf(queue[n]) = m.pkt
    BY <1>4, <1>8 DEF Finds
  <2>2. \E l : Stores(m, l, e, p, sub, T)
    BY <1>8, <2>1, FragmentFilled DEF queue
  <2> QED BY <2>2
<1>9. CASE n = 0 /\ CopyFragment(m, InsertAt(queue, j, z), j) /\ Acknowledge(m)
  <2>1. Placed(queue, k, m.pkt) /\ \A i \in 1 .. Len(queue) : PacketOf(queue[i]) # m.pkt
    BY <1>4, <1>9 DEF Finds
  <2>2. j = k + 1 /\ z = Entry(m, FirstOf(e, m.pkt) % SeqSpace)
    BY DEF j, z, seq, y
  <2>3. \E l : Stores(m, l, e, p, sub, T)
    BY <1>7, <1>9, <2>1, <2>2, FragmentPlaced DEF queue
  <2> QED BY <2>3
<1>10. CASE NothingQueued /\ UNCHANGED acknowledgements
  <2>1. Keeps(m, e, p)
    BY <1>10 DEF Keeps
  <2> QED BY <2>1
<1> QED BY <1>6, <1>8, <1>9, <1>10

\* enet_protocol_handle_incoming_commands for a datagram of data.
LEMMA HandleDataDoes ==
    ASSUME ReceiverTypes, NEW m, NEW e, NEW p, NEW sub, NEW T, Meets(m, e, p, sub, T),
           HandleData(m)
    PROVE  Keeps(m, e, p) \/ \E l : Stores(m, l, e, p, sub, T)
<1>1. p \in Nat /\ m.pkt \in Nat
  BY StartIs DEF Meets, Ahead
<1>2. CASE m.pkt <= p
  BY <1>2, OldKept
<1>3. CASE p < m.pkt /\ ~ InWindow(FirstOf(e, m.pkt) % SeqSpace, e[p] % SeqSpace)
  BY <1>3, OutsideKept
<1>4. CASE p < m.pkt /\ InWindow(FirstOf(e, m.pkt) % SeqSpace, e[p] % SeqSpace)
  BY <1>4, ReliableStored, FragmentStored DEF HandleData
<1> QED BY <1>1, <1>2, <1>3, <1>4

-----------------------------------------------------------------------------
\* What is known of the receiving peer when a datagram of data reaches it.
LEMMA MeetsIs ==
    ASSUME NetworkTypes, NEW m \in data, NEW E, NEW P, NEW T, NumbersSound(E, P, T)
    PROVE  /\ m \in Commands /\ m.ch \in Channels
           /\ Meets(m, E[m.ch], P[m.ch], submitted[m.ch], T[m.ch])
<1> DEFINE S == SettledOn(incomingReliableCommands, E, P)
           L == LastOn(E, P)
           O == Out(sentReliableCommands, outgoingSendReliableCommands)
<1>1. /\ PacketNumbers(E) /\ SenderNumbers(S, L, T) /\ ReceiverNumbers(E, P, T)
  BY DEF NumbersSound
<1>2. m \in Commands /\ m.ch \in Channels
  BY DEF NetworkTypes, Commands
<1> DEFINE c == m.ch
<1>3. L[c] = E[c][P[c]]
  BY <1>2 DEF LastOn
<1> HIDE DEF S, L, O
<1>4. Reaching(O, S, L, T) /\ Young(data, T)
  BY <1>1 DEF SenderNumbers, Flight, O
<1>5. Laid(E[c], submitted[c]) /\ Belongs(m, E, submitted)
  BY <1>1, <1>2 DEF PacketNumbers, Layout
<1>6. Receiving(incomingReliableSequenceNumber[c], incomingReliableCommands[c],
                dispatchedCommands, delivered[c], c, E[c], P[c], submitted[c], T[c])
  BY <1>1, <1>2 DEF ReceiverNumbers
<1>7. m.abs <= T[c] /\ T[c] < m.abs + Lifetime
  BY <1>4 DEF Young
<1>8. Comes(m, E[c], submitted[c], T[c])
  BY <1>2, <1>5, <1>7, ComesIs
<1>9. /\ P[c] \in Nat /\ P[c] <= submitted[c]
      /\ Waits(incomingReliableCommands[c], E[c], P[c], submitted[c], T[c])
      /\ incomingReliableSequenceNumber[c] = E[c][P[c]] % SeqSpace
  BY <1>6 DEF Receiving
<1>10. Ahead(E[c], P[c], submitted[c], T[c])
  BY <1>2, <1>3, <1>4, <1>5, <1>9, AheadIs
<1> QED BY <1>2, <1>8, <1>9, <1>10 DEF Meets

\* Nothing is missing of what has settled when nothing changes.
LEMMA AdvancesNone ==
    ASSUME NEW O, NEW S, NEW L, NEW T, Reaching(O, S, L, T)
    PROVE  Advances(S, L, S, L, T)
<1>1. ASSUME NEW c \in Channels
      PROVE  /\ S[c] \subseteq Nat /\ L[c] \in Nat /\ L[c] <= T[c]
             /\ \A x \in S[c] : Window(x) + 2 <= Window(L[c]) + FreeWindows
  BY DEF Reaching, Reach
<1>2. \A c \in Channels : L[c] <= L[c]
  BY <1>1
<1> QED BY <1>1, <1>2 DEF Advances

\* The datagram m is new to the sender's view of what has arrived.
LEMMA ComesYoung ==
    ASSUME NEW m, NEW e, NEW p, NEW sub, NEW T, Meets(m, e, p, sub, T)
    PROVE  StartAt < m.abs /\ m.abs <= T /\ T < m.abs + Lifetime /\ m.abs \in Nat
<1>1. Laid(e, sub) /\ Comes(m, e, sub, T) /\ T \in Nat
  BY DEF Meets, Ahead
<1>2. /\ m.abs \in Nat /\ FirstOf(e, m.pkt) \in Nat /\ FirstOf(e, m.pkt) <= m.abs
      /\ StartAt < FirstOf(e, m.pkt)
  BY <1>1, StartIs
<1>3. StartAt < m.abs
  BY <1>2, ConstantsAre
<1> QED BY <1>1, <1>2, <1>3 DEF Comes

\* What HandleData leaves alone.
LEMMA HandleDataLeaves ==
    ASSUME NEW m, HandleData(m)
    PROVE  /\ UNCHANGED <<senderVars, data, acks>> /\ delivered' = delivered
           /\ submitted' = submitted /\ lastQueued' = lastQueued
           /\ sentReliableCommands' = sentReliableCommands
           /\ outgoingSendReliableCommands' = outgoingSendReliableCommands
BY DEF HandleData, senderVars

\* A datagram that is not queued.
LEMMA KeepsNumbers ==
    ASSUME NetworkTypes, ReceiverTypes, NEW m \in data, HandleData(m),
           acknowledgements' \subseteq [ch : Channels, abs : Nat],
           NEW E, NEW P, NEW T, NumbersSound(E, P, T), Keeps(m, E[m.ch], P[m.ch])
    PROVE  NumbersSound(E, P, T)'
<1> DEFINE S == SettledOn(incomingReliableCommands, E, P)
           L == LastOn(E, P)
           O == Out(sentReliableCommands, outgoingSendReliableCommands)
<1>1. /\ PacketNumbers(E) /\ SenderNumbers(S, L, T) /\ ReceiverNumbers(E, P, T)
  BY DEF NumbersSound
<1>2. /\ m \in Commands /\ m.ch \in Channels
      /\ Meets(m, E[m.ch], P[m.ch], submitted[m.ch], T[m.ch])
  BY MeetsIs
<1>3. /\ UNCHANGED <<senderVars, data, acks>> /\ delivered' = delivered
      /\ submitted' = submitted /\ lastQueued' = lastQueued
      /\ sentReliableCommands' = sentReliableCommands
      /\ outgoingSendReliableCommands' = outgoingSendReliableCommands
  BY HandleDataLeaves
<1>4. /\ incomingReliableSequenceNumber' = incomingReliableSequenceNumber
      /\ incomingReliableCommands' = incomingReliableCommands
      /\ dispatchedCommands' = dispatchedCommands
  BY DEF Keeps, NothingQueued
<1>5. S[m.ch] = SettledIn(incomingReliableCommands[m.ch], E[m.ch], P[m.ch])
  BY <1>2 DEF SettledOn
<1>6. /\ StartAt < m.abs /\ m.abs <= T[m.ch] /\ T[m.ch] < m.abs + Lifetime
  BY <1>2, ComesYoung
<1>7. acknowledgements \subseteq [ch : Channels, abs : Nat]
  BY DEF ReceiverTypes
<1>8. SettledOn(incomingReliableCommands', E, P) = S /\ LastOn(E, P) = L
  BY <1>4
<1> HIDE DEF S, L, O
<1>9. Advances(S, L, S, L, T)
  <2>1. Reaching(O, S, L, T)
    BY <1>1 DEF SenderNumbers, Flight, O
  <2> QED BY <2>1, AdvancesNone
<1>10. ASSUME NEW a \in acknowledgements', a \notin acknowledgements
       PROVE  /\ StartAt < a.abs /\ a.abs <= T[a.ch] /\ a.abs \in S[a.ch]
              /\ T[a.ch] < a.abs + Lifetime
  <2>1. a.ch = m.ch /\ a.abs = m.abs
        /\ m.abs \in SettledIn(incomingReliableCommands[m.ch], E[m.ch], P[m.ch])
    BY <1>10 DEF Keeps
  <2> QED BY <1>5, <1>6, <2>1
<1>11. /\ Flight(sentReliableCommands', outgoingSendReliableCommands', lastQueued', S, L, T)
       /\ Young(data', T) /\ Known(acks', S, T)
       /\ Owed(acknowledgements', acks',
               Out(sentReliableCommands', outgoingSendReliableCommands'), S, T)
  BY <1>1, <1>3, <1>7, <1>9, <1>10, StoredNumbers
<1>12. SenderNumbers(SettledOn(incomingReliableCommands, E, P), LastOn(E, P), T)'
  BY <1>8, <1>11 DEF SenderNumbers
<1>13. PacketNumbers(E)'
  BY <1>1, <1>3, PacketsKept
<1>14. ReceiverNumbers(E, P, T)'
  BY <1>1, <1>3, <1>4, ReceiverStays
<1> QED BY <1>12, <1>13, <1>14 DEF NumbersSound

\* n packets of channel m.ch are dispatched as t and rest is what still waits.
MovesOn(m, n, rest, t, e, p, sub, T) ==
    /\ n \in Nat /\ p + n <= sub /\ e[p + n] <= T
    /\ Waits(rest, e, p + n, sub, T)
    /\ SettledIn(incomingReliableCommands[m.ch], e, p) \subseteq SettledIn(rest, e, p + n)
    /\ HoldsFragment(rest, m.pkt, m.frag) \/ m.abs <= e[p + n]
    /\ Dispatches(t, m.ch, p, n)
    /\ incomingReliableCommands' = [incomingReliableCommands EXCEPT ![m.ch] = rest]
    /\ incomingReliableSequenceNumber' =
          [incomingReliableSequenceNumber EXCEPT ![m.ch] = e[p + n] % SeqSpace]
    /\ dispatchedCommands' = dispatchedCommands \o t
    /\ Acknowledge(m)

\* A list that is dispatched as far as it can be.
LEMMA DispatchMoves ==
    ASSUME ReceiverTypes, NEW m, m.ch \in Channels, NEW e, NEW p, NEW sub, NEW T,
           Meets(m, e, p, sub, T), NEW l, Stores(m, l, e, p, sub, T), Dispatch(m.ch, l)
    PROVE  \E n, rest, t : MovesOn(m, n, rest, t, e, p, sub, T)
<1> DEFINE current == e[p] % SeqSpace
           n == Dispatchable(l, current)
           rest == SubSeq(l, n + 1, Len(l))
           t == [i \in 1 .. n |-> [ch |-> m.ch, src |-> Contents(l[i]), count |-> l[i].count]]
<1>1. /\ Ahead(e, p, sub, T) /\ Comes(m, e, sub, T) /\ p \in Nat
      /\ incomingReliableSequenceNumber[m.ch] = current
  BY DEF Meets, Ahead
<1>2. /\ Waits(l, e, p, sub, T) /\ Gains(l, incomingReliableCommands[m.ch], m.pkt, m.frag)
      /\ Acknowledge(m)
  BY DEF Stores
<1>3. l \in Seq(Entries)
  BY <1>2, WaitsIs
<1>4. Ran(l, e, p, sub, T, n) /\ DispatchedUpTo(l, current, n) = e[p + n] % SeqSpace
  BY <1>1, <1>2, RanIs
<1>5. n \in Nat /\ n \in 0 .. Len(l) /\ p + n <= sub /\ e[p + n] <= T
  BY <1>4 DEF Ran
<1>6. /\ incomingReliableCommands' = [incomingReliableCommands EXCEPT ![m.ch] = rest]
      /\ incomingReliableSequenceNumber' =
            [incomingReliableSequenceNumber EXCEPT ![m.ch] = DispatchedUpTo(l, current, n)]
      /\ dispatchedCommands' = dispatchedCommands \o t
  BY <1>1 DEF Dispatch
<1> HIDE DEF n, current
<1>7. RestOf(rest, l, n)
  BY <1>3, <1>5, RestIs
<1>8. Dispatches(t, m.ch, p, n)
  BY <1>1, <1>3, <1>4, DispatchedNow
<1> HIDE DEF rest, t
<1>9. Waits(rest, e, p + n, sub, T)
  BY <1>1, <1>2, <1>4, <1>7, RestWaits
<1>10. /\ SettledIn(l, e, p) \subseteq SettledIn(rest, e, p + n)
       /\ \A r, f : HoldsFragment(l, r, f) =>
             HoldsFragment(rest, r, f) \/ (FirstOf(e, r) + f \in Nat /\ FirstOf(e, r) + f <= e[p + n])
  BY <1>1, <1>2, <1>4, <1>7, SettledRests
<1>11. SettledIn(incomingReliableCommands[m.ch], e, p) \subseteq SettledIn(l, e, p)
  BY <1>2, SettledGains
<1>12. HoldsFragment(rest, m.pkt, m.frag) \/ m.abs <= e[p + n]
  <2>1. HoldsFragment(l, m.pkt, m.frag)
    BY <1>2 DEF Gains
  <2>2. m.abs = FirstOf(e, m.pkt) + m.frag
    BY <1>1 DEF Comes
  <2> QED BY <1>10, <2>1, <2>2
<1>13. MovesOn(m, n, rest, t, e, p, sub, T)
  BY <1>2, <1>4, <1>5, <1>6, <1>8, <1>9, <1>10, <1>11, <1>12 DEF MovesOn
<1> QED BY <1>13

\* A list that is stored dispatches nothing.
LEMMA StoredMoves ==
    ASSUME ReceiverTypes, NEW m, m.ch \in Channels, NEW e, NEW p, NEW sub, NEW T,
           Meets(m, e, p, sub, T), NEW l, Stores(m, l, e, p, sub, T), Stored(m.ch, l)
    PROVE  \E n, rest, t : MovesOn(m, n, rest, t, e, p, sub, T)
<1>1. /\ Ahead(e, p, sub, T) /\ p \in Nat /\ p <= sub /\ e[p] <= T
      /\ incomingReliableSequenceNumber[m.ch] = e[p] % SeqSpace
  BY DEF Meets, Ahead
<1>2. /\ Waits(l, e, p, sub, T) /\ Gains(l, incomingReliableCommands[m.ch], m.pkt, m.frag)
      /\ Acknowledge(m)
  BY DEF Stores
<1>3. SettledIn(incomingReliableCommands[m.ch], e, p) \subseteq SettledIn(l, e, p)
  BY <1>2, SettledGains
<1>4. HoldsFragment(l, m.pkt, m.frag)
  BY <1>2 DEF Gains
<1>5. /\ incomingReliableCommands' = [incomingReliableCommands EXCEPT ![m.ch] = l]
      /\ incomingReliableSequenceNumber' = incomingReliableSequenceNumber
      /\ dispatchedCommands' = dispatchedCommands
  BY DEF Stored
<1>6. incomingReliableSequenceNumber' =
          [incomingReliableSequenceNumber EXCEPT ![m.ch] = e[p] % SeqSpace]
  BY <1>1, <1>5 DEF ReceiverTypes
<1>7. PICK n : n = 0
  OBVIOUS
<1>8. n \in Nat /\ p + n = p
  BY <1>1, <1>7
<1>9. PICK t : t = <<>>
  OBVIOUS
<1>10. Dispatches(t, m.ch, p, n)
  BY <1>7, <1>9 DEF Dispatches
<1>11. dispatchedCommands' = dispatchedCommands \o t
  BY <1>5, <1>9 DEF ReceiverTypes
<1>12. MovesOn(m, n, l, t, e, p, sub, T)
  BY <1>1, <1>2, <1>3, <1>4, <1>5, <1>6, <1>8, <1>10, <1>11 DEF MovesOn
<1> QED BY <1>12

-----------------------------------------------------------------------------
\* What enet_peer_queue_acknowledgement acknowledges has settled.
LEMMA AckSettled ==
    ASSUME NEW e, NEW q, NEW sub, NEW T, Ahead(e, q, sub, T), NEW x \in Nat, x <= T, NEW rest,
           x <= e[q] \/ \E r, f : HoldsFragment(rest, r, f) /\ x = FirstOf(e, r) + f,
           Acknowledged(x % SeqSpace, e[q] % SeqSpace)
    PROVE  x \in SettledIn(rest, e, q)
<1>1. e[q] \in Nat
  BY DEF Ahead
<1>2. Window(x) + 2 <= Window(e[q]) + FreeWindows
  <2>1. CASE x <= e[q]
    <3>1. Window(x) <= Window(e[q]) /\ Window(x) \in Nat /\ Window(e[q]) \in Nat
      BY <1>1, <2>1, WindowOrder, WindowIs
    <3> QED BY <3>1, WindowBounds
  <2>2. CASE e[q] < x
    BY <2>2, SeenAhead
  <2> QED BY <1>1, <2>1, <2>2
<1> QED BY <1>2, SettledIs

\* The packets a channel dispatched, once n more are.
PassedUpTo(P, c, q) == [d \in Channels |-> IF d = c THEN q ELSE P[d]]

\* The receiving peer after a datagram of channel m.ch.
LEMMA MovesReceiver ==
    ASSUME ReceiverTypes, NEW m, m.ch \in Channels, NEW E, NEW P, NEW T,
           ReceiverNumbers(E, P, T), P[m.ch] \in Nat,
           submitted' = submitted, delivered' = delivered,
           NEW n, NEW rest, NEW t,
           MovesOn(m, n, rest, t, E[m.ch], P[m.ch], submitted[m.ch], T[m.ch]),
           NEW q, q = P[m.ch] + n, NEW Q, Q = PassedUpTo(P, m.ch, q)
    PROVE  ReceiverNumbers(E, Q, T)'
<1> DEFINE d == dispatchedCommands
<1>1. /\ d \in Seq(Dispatched)
      /\ incomingReliableCommands \in [Channels -> Seq(Entries)]
      /\ incomingReliableSequenceNumber \in [Channels -> 0 .. SeqSpace - 1]
  BY DEF ReceiverTypes
<1>2. /\ n \in Nat /\ q <= submitted[m.ch] /\ q \in Nat
      /\ Waits(rest, E[m.ch], q, submitted[m.ch], T[m.ch])
      /\ Dispatches(t, m.ch, P[m.ch], n)
      /\ incomingReliableCommands' = [incomingReliableCommands EXCEPT ![m.ch] = rest]
      /\ incomingReliableSequenceNumber' =
            [incomingReliableSequenceNumber EXCEPT ![m.ch] = E[m.ch][q] % SeqSpace]
      /\ dispatchedCommands' = d \o t
  BY DEF MovesOn
<1> HIDE DEF d
<1>3. ASSUME NEW c \in Channels
      PROVE  Receiving(incomingReliableSequenceNumber'[c], incomingReliableCommands'[c],
                       d \o t, delivered[c], c, E[c], Q[c], submitted[c], T[c])
  <2>1. Receiving(incomingReliableSequenceNumber[c], incomingReliableCommands[c],
                  d, delivered[c], c, E[c], P[c], submitted[c], T[c])
    BY DEF ReceiverNumbers, d
  <2>2. CASE c = m.ch
    <3>1. /\ incomingReliableSequenceNumber'[c] = E[c][q] % SeqSpace
          /\ incomingReliableCommands'[c] = rest /\ Q[c] = q
      BY <1>1, <1>2, <2>2 DEF PassedUpTo
    <3>2. PassedOn(d \o t, c, Len(delivered[c]), q)
      <4>1. PassedOn(d, c, Len(delivered[c]), P[c]) /\ Dispatches(t, c, P[c], n)
        BY <1>2, <2>1, <2>2 DEF Receiving
      <4>2. PassedOn(d \o t, c, Len(delivered[c]), P[c] + n)
        BY <1>1, <1>2, <4>1, PassedMore
      <4> QED BY <2>2, <4>2
    <3>3. \A k \in 1 .. Len(delivered[c]) : delivered[c][k] = {k}
      BY <2>1 DEF Receiving
    <3> QED BY <1>2, <2>2, <3>1, <3>2, <3>3 DEF Receiving
  <2>3. CASE c # m.ch
    <3>1. /\ incomingReliableSequenceNumber'[c] = incomingReliableSequenceNumber[c]
          /\ incomingReliableCommands'[c] = incomingReliableCommands[c] /\ Q[c] = P[c]
      BY <1>1, <1>2, <2>3 DEF PassedUpTo
    <3>2. PassedOn(d \o t, c, Len(delivered[c]), P[c])
      <4>1. PassedOn(d, c, Len(delivered[c]), P[c])
        BY <2>1 DEF Receiving
      <4> QED BY <1>1, <1>2, <2>3, <4>1, PassedOthers
    <3> QED BY <2>1, <3>1, <3>2 DEF Receiving
  <2> QED BY <2>2, <2>3
<1> QED BY <1>2, <1>3 DEF ReceiverNumbers

\* What the sending peer may rely on after a datagram of channel m.ch.
LEMMA MovesSettled ==
    ASSUME ReceiverTypes, NEW m, m.ch \in Channels, NEW E, NEW P, NEW T, NEW O,
           Reaching(O, SettledOn(incomingReliableCommands, E, P), LastOn(E, P), T),
           Meets(m, E[m.ch], P[m.ch], submitted[m.ch], T[m.ch]),
           NEW n, NEW rest, NEW t,
           MovesOn(m, n, rest, t, E[m.ch], P[m.ch], submitted[m.ch], T[m.ch]),
           NEW q, q = P[m.ch] + n, NEW Q, Q = PassedUpTo(P, m.ch, q),
           NEW S, S = SettledOn(incomingReliableCommands, E, P), NEW L, L = LastOn(E, P),
           NEW R, R = SettledOn(incomingReliableCommands', E, Q), NEW M, M = LastOn(E, Q)
    PROVE  /\ Advances(S, L, R, M, T)
           /\ \A a \in acknowledgements' : a \in acknowledgements \/
                 /\ StartAt < a.abs /\ a.abs <= T[a.ch] /\ a.abs \in R[a.ch]
                 /\ T[a.ch] < a.abs + Lifetime
<1> DEFINE e == E[m.ch]
           p == P[m.ch]
<1>1. /\ Ahead(e, p, submitted[m.ch], T[m.ch]) /\ p \in Nat
      /\ Comes(m, e, submitted[m.ch], T[m.ch])
  BY DEF Meets, Ahead
<1>2. /\ n \in Nat /\ q <= submitted[m.ch] /\ e[q] <= T[m.ch]
      /\ SettledIn(incomingReliableCommands[m.ch], e, p) \subseteq SettledIn(rest, e, q)
      /\ HoldsFragment(rest, m.pkt, m.frag) \/ m.abs <= e[q]
      /\ incomingReliableCommands' = [incomingReliableCommands EXCEPT ![m.ch] = rest]
      /\ incomingReliableSequenceNumber' =
            [incomingReliableSequenceNumber EXCEPT ![m.ch] = e[q] % SeqSpace]
      /\ Acknowledge(m)
  BY DEF MovesOn
<1>3. /\ incomingReliableCommands \in [Channels -> Seq(Entries)]
      /\ incomingReliableSequenceNumber \in [Channels -> 0 .. SeqSpace - 1]
  BY DEF ReceiverTypes
<1>4. /\ incomingReliableCommands'[m.ch] = rest /\ Q[m.ch] = q
      /\ incomingReliableSequenceNumber'[m.ch] = e[q] % SeqSpace
      /\ \A c \in Channels : c # m.ch =>
            incomingReliableCommands'[c] = incomingReliableCommands[c] /\ Q[c] = P[c]
  BY <1>2, <1>3 DEF PassedUpTo
<1> HIDE DEF e, p
<1>5. Ahead(e, q, submitted[m.ch], T[m.ch]) /\ e[p] <= e[q]
  BY <1>1, <1>2, AheadMore DEF p
<1>6. /\ S[m.ch] = SettledIn(incomingReliableCommands[m.ch], e, p) /\ L[m.ch] = e[p]
      /\ R[m.ch] = SettledIn(rest, e, q) /\ M[m.ch] = e[q]
      /\ \A c \in Channels : c # m.ch => R[c] = S[c] /\ M[c] = L[c]
  BY <1>4 DEF SettledOn, LastOn, e, p
<1>7. Advances(S, L, S, L, T)
  BY AdvancesNone
<1>8. ASSUME NEW c \in Channels
      PROVE  /\ S[c] \subseteq R[c] /\ R[c] \subseteq Nat
             /\ L[c] \in Nat /\ M[c] \in Nat /\ L[c] <= M[c] /\ M[c] <= T[c]
             /\ \A x \in R[c] : Window(x) + 2 <= Window(M[c]) + FreeWindows
  <2>1. CASE c = m.ch
    <3>1. e[p] \in Nat /\ e[q] \in Nat
      BY <1>1, <1>5 DEF Ahead
    <3>2. /\ SettledIn(rest, e, q) \subseteq Nat
          /\ \A x \in SettledIn(rest, e, q) : Window(x) + 2 <= Window(e[q]) + FreeWindows
      BY DEF SettledIn
    <3> QED BY <1>2, <1>5, <1>6, <2>1, <3>1, <3>2 DEF e
  <2>2. CASE c # m.ch
    <3>1. R[c] = S[c] /\ M[c] = L[c]
      BY <1>6, <2>2
    <3> QED BY <1>7, <3>1 DEF Advances
  <2> QED BY <2>1, <2>2
<1>9. Advances(S, L, R, M, T)
  BY <1>8 DEF Advances
<1>10. ASSUME NEW a \in acknowledgements', a \notin acknowledgements
       PROVE  /\ StartAt < a.abs /\ a.abs <= T[a.ch] /\ a.abs \in R[a.ch]
              /\ T[a.ch] < a.abs + Lifetime
  <2>1. /\ a.ch = m.ch /\ a.abs = m.abs
        /\ Acknowledged(m.abs % SeqSpace, e[q] % SeqSpace)
    BY <1>2, <1>4, <1>10 DEF Acknowledge, Seq16
  <2>2. /\ StartAt < m.abs /\ m.abs <= T[m.ch] /\ T[m.ch] < m.abs + Lifetime /\ m.abs \in Nat
    BY ComesYoung
  <2>3. m.abs <= e[q] \/ \E r, f : HoldsFragment(rest, r, f) /\ m.abs = FirstOf(e, r) + f
    BY <1>1, <1>2 DEF Comes
  <2>4. m.abs \in SettledIn(rest, e, q)
    BY <1>5, <2>1, <2>2, <2>3, AckSettled
  <2> QED BY <1>6, <2>1, <2>2, <2>4
<1> QED BY <1>9, <1>10

\* A datagram that is queued or dispatched.
LEMMA MovesNumbers ==
    ASSUME NetworkTypes, ReceiverTypes, NEW m \in data, HandleData(m),
           acknowledgements' \subseteq [ch : Channels, abs : Nat],
           NEW E, NEW P, NEW T, NumbersSound(E, P, T), NEW n, NEW rest, NEW t,
           MovesOn(m, n, rest, t, E[m.ch], P[m.ch], submitted[m.ch], T[m.ch])
    PROVE  \E Q : NumbersSound(E, Q, T)'
<1> DEFINE S == SettledOn(incomingReliableCommands, E, P)
           L == LastOn(E, P)
           O == Out(sentReliableCommands, outgoingSendReliableCommands)
<1>1. /\ PacketNumbers(E) /\ SenderNumbers(S, L, T) /\ ReceiverNumbers(E, P, T)
  BY DEF NumbersSound
<1>2. /\ m \in Commands /\ m.ch \in Channels
      /\ Meets(m, E[m.ch], P[m.ch], submitted[m.ch], T[m.ch])
  BY MeetsIs
<1>3. /\ UNCHANGED <<senderVars, data, acks>> /\ delivered' = delivered
      /\ submitted' = submitted /\ lastQueued' = lastQueued
      /\ sentReliableCommands' = sentReliableCommands
      /\ outgoingSendReliableCommands' = outgoingSendReliableCommands
  BY HandleDataLeaves
<1>4. P[m.ch] \in Nat
  BY <1>2 DEF Meets, Ahead
<1>5. acknowledgements \subseteq [ch : Channels, abs : Nat]
  BY DEF ReceiverTypes
<1>6. PICK q : q = P[m.ch] + n
  OBVIOUS
<1>7. PICK Q : Q = PassedUpTo(P, m.ch, q)
  OBVIOUS
<1> DEFINE R == SettledOn(incomingReliableCommands', E, Q)
           M == LastOn(E, Q)
<1>8. Reaching(O, SettledOn(incomingReliableCommands, E, P), LastOn(E, P), T)
  BY <1>1 DEF SenderNumbers, Flight
<1>9. /\ S = SettledOn(incomingReliableCommands, E, P) /\ L = LastOn(E, P)
      /\ R = SettledOn(incomingReliableCommands', E, Q) /\ M = LastOn(E, Q)
  OBVIOUS
<1> HIDE DEF S, L, O, R, M
<1>10. /\ Advances(S, L, R, M, T)
       /\ \A a \in acknowledgements' : a \in acknowledgements \/
             /\ StartAt < a.abs /\ a.abs <= T[a.ch] /\ a.abs \in R[a.ch]
             /\ T[a.ch] < a.abs + Lifetime
  BY <1>2, <1>6, <1>7, <1>8, <1>9, MovesSettled
<1>11. /\ Flight(sentReliableCommands', outgoingSendReliableCommands', lastQueued', R, M, T)
       /\ Young(data', T) /\ Known(acks', R, T)
       /\ Owed(acknowledgements', acks',
               Out(sentReliableCommands', outgoingSendReliableCommands'), R, T)
  BY <1>1, <1>3, <1>5, <1>10, StoredNumbers
<1>12. SenderNumbers(SettledOn(incomingReliableCommands, E, Q), LastOn(E, Q), T)'
  BY <1>9, <1>11 DEF SenderNumbers
<1>13. PacketNumbers(E)'
  BY <1>1, <1>3, PacketsKept
<1>14. ReceiverNumbers(E, Q, T)'
  BY <1>1, <1>2, <1>3, <1>4, <1>6, <1>7, MovesReceiver
<1>15. NumbersSound(E, Q, T)'
  BY <1>12, <1>13, <1>14 DEF NumbersSound
<1> QED BY <1>15

\* enet_protocol_handle_incoming_commands with a datagram of data.
LEMMA HandleDataNumbers ==
    ASSUME NetworkTypes, ReceiverTypes, NEW m \in data, HandleData(m),
           acknowledgements' \subseteq [ch : Channels, abs : Nat],
           NEW E, NEW P, NEW T, NumbersSound(E, P, T)
    PROVE  \E Q : NumbersSound(E, Q, T)'
<1> DEFINE e == E[m.ch]
           p == P[m.ch]
           sub == submitted[m.ch]
           U == T[m.ch]
<1>1. m.ch \in Channels /\ Meets(m, e, p, sub, U)
  BY MeetsIs
<1>2. Keeps(m, e, p) \/ \E l : Stores(m, l, e, p, sub, U)
  BY <1>1, HandleDataDoes
<1>3. CASE Keeps(m, e, p)
  <2>1. NumbersSound(E, P, T)'
    BY <1>3, KeepsNumbers
  <2> QED BY <2>1
<1>4. CASE \E l : Stores(m, l, e, p, sub, U)
  <2>1. PICK l : Stores(m, l, e, p, sub, U)
    BY <1>4
  <2>2. Dispatch(m.ch, l) \/ Stored(m.ch, l)
    BY <2>1 DEF Stores
  <2>3. PICK n, rest, t : MovesOn(m, n, rest, t, e, p, sub, U)
    <3> HIDE DEF e, p, sub, U
    <3>1. CASE Dispatch(m.ch, l)
      BY <1>1, <2>1, <3>1, DispatchMoves
    <3>2. CASE Stored(m.ch, l)
      BY <1>1, <2>1, <3>2, StoredMoves
    <3> QED BY <2>2, <3>1, <3>2
  <2> QED BY <2>3, MovesNumbers
<1> QED BY <1>2, <1>3, <1>4

-----------------------------------------------------------------------------
(* The invariant *)

\* Nothing was sent on any channel.
LEMMA NInvInit == Init => NInv
<1> SUFFICES ASSUME Init PROVE NInv
  OBVIOUS
<1> DEFINE e == [p \in Nat |-> StartAt]
           E == [c \in Channels |-> e]
           P == [c \in Channels |-> 0]
           T == [c \in Channels |-> StartAt]
           S == SettledOn(incomingReliableCommands, E, P)
           L == LastOn(E, P)
<1>1. StartAt \in Nat
  BY ConstantsAre
<1>2. /\ submitted = [c \in Channels |-> 0] /\ lastQueued = [c \in Channels |-> StartAt]
      /\ sentReliableCommands = <<>> /\ outgoingSendReliableCommands = <<>>
      /\ data = {} /\ acks = {} /\ acknowledgements = {} /\ dispatchedCommands = <<>>
      /\ incomingReliableSequenceNumber = [c \in Channels |-> StartAt % SeqSpace]
      /\ incomingReliableCommands = [c \in Channels |-> <<>>]
      /\ delivered = [c \in Channels |-> <<>>]
  BY DEF Init
<1>3. Range(sentReliableCommands) = {} /\ Range(outgoingSendReliableCommands) = {}
  BY <1>2 DEF Range
<1>4. Out(sentReliableCommands, outgoingSendReliableCommands) = {}
  BY <1>3 DEF Out
<1>5. Laid(e, 0)
  BY <1>1 DEF Laid
<1>6. PacketNumbers(E)
  <2>1. Layout(E, submitted, lastQueued)
    BY <1>1, <1>2, <1>5 DEF Layout
  <2> QED BY <1>2, <1>3, <2>1 DEF PacketNumbers
<1>7. \A c \in Channels : /\ L[c] = StartAt /\ T[c] = StartAt
                          /\ S[c] = SettledIn(<<>>, e, 0)
  BY <1>1, <1>2 DEF LastOn, SettledOn
<1>8. /\ SettledIn(<<>>, e, 0) \subseteq Nat
      /\ \A x \in SettledIn(<<>>, e, 0) : Window(x) + 2 <= Window(StartAt) + FreeWindows
  BY DEF SettledIn
<1>9. T \in [Channels -> Nat]
  BY <1>1
<1> HIDE DEF S, L
<1>10. Reach({}, SettledIn(<<>>, e, 0), StartAt, StartAt)
  <2>1. Window(StartAt) + 1 <= Window(StartAt) + FreeWindows /\ StartAt <= StartAt
    BY <1>1, WindowIs, WindowBounds
  <2>2. \A x \in Nat : ~ (StartAt < x /\ x <= StartAt)
    BY <1>1
  <2> QED BY <1>1, <1>8, <2>1, <2>2 DEF Reach
<1>11. Reaching({}, S, L, T)
  <2>1. \A c \in Channels : Awaited({}, c) = {}
    BY DEF Awaited
  <2> HIDE DEF T, E, P, e
  <2> QED BY <1>7, <1>10, <2>1 DEF Reaching
<1>12. Pending(outgoingSendReliableCommands, 0, T, lastQueued)
  <2>1. \A c \in Channels : T[c] <= lastQueued[c] /\ \A x \in Nat : ~ (T[c] < x /\ x <= lastQueued[c])
    BY <1>1, <1>2
  <2>2. Len(outgoingSendReliableCommands) = 0
    BY <1>2
  <2>3. PICK n : n = 0
    OBVIOUS
  <2>4. \A i \in n + 1 .. Len(outgoingSendReliableCommands) : FALSE
    BY <2>2, <2>3
  <2> HIDE DEF T
  <2>5. Pending(outgoingSendReliableCommands, n, T, lastQueued)
    BY <1>9, <2>1, <2>4 DEF Pending
  <2> QED BY <2>3, <2>5
<1>13. SenderNumbers(S, L, T)
  <2>1. Flight(sentReliableCommands, outgoingSendReliableCommands, lastQueued, S, L, T)
    BY <1>4, <1>11, <1>12 DEF Flight
  <2>2. Young(data, T) /\ Known(acks, S, T)
    BY <1>2 DEF Young, Known
  <2>3. Owed(acknowledgements, acks, Out(sentReliableCommands, outgoingSendReliableCommands), S, T)
    BY <1>2 DEF Owed
  <2> QED BY <2>1, <2>2, <2>3 DEF SenderNumbers
<1>14. ASSUME NEW c \in Channels
       PROVE  Receiving(incomingReliableSequenceNumber[c], incomingReliableCommands[c],
                        dispatchedCommands, delivered[c], c, E[c], P[c], submitted[c], T[c])
  <2>1. PICK z : z = 0
    OBVIOUS
  <2>2. /\ incomingReliableSequenceNumber[c] = e[z] % SeqSpace
        /\ incomingReliableCommands[c] = <<>> /\ delivered[c] = <<>>
        /\ E[c] = e /\ P[c] = z /\ submitted[c] = z /\ z \in Nat /\ z <= z
    BY <1>1, <1>2, <2>1
  <2>3. Waits(<<>>, e, z, z, T[c])
    <3>1. <<>> \in Seq(Entries)
      OBVIOUS
    <3>2. \A i \in 1 .. Len(<<>>) : FALSE
      OBVIOUS
    <3> HIDE DEF e, T
    <3> QED BY <3>1, <3>2 DEF Waits
  <2>4. PassedOn(<<>>, c, z, z)
    <3>1. \A i \in 1 .. Len(<<>>) : FALSE
      OBVIOUS
    <3>2. \A x \in Nat : ~ (z < x /\ x <= z)
      BY <2>2
    <3> QED BY <2>2, <3>1, <3>2 DEF PassedOn
  <2>5. Len(<<>>) = z /\ \A k \in 1 .. Len(<<>>) : FALSE
    BY <2>1
  <2>6. dispatchedCommands = <<>>
    BY <1>2
  <2> HIDE DEF e, E, P, T
  <2> QED BY <2>2, <2>3, <2>4, <2>5, <2>6 DEF Receiving
<1>15. ReceiverNumbers(E, P, T)
  <2> HIDE DEF e, E, P, T
  <2> QED BY <1>14 DEF ReceiverNumbers
<1>16. NumbersSound(E, P, T)
  <2>1. SenderNumbers(SettledOn(incomingReliableCommands, E, P), LastOn(E, P), T)
    BY <1>13 DEF S, L
  <2> HIDE DEF e, E, P, T
  <2> QED BY <1>6, <1>15, <2>1 DEF NumbersSound
<1>17. CInv
  BY CInvInit
<1> HIDE DEF e, E, P, T
<1> QED BY <1>16, <1>17 DEF NInv

\* Every step keeps the invariant.
LEMMA NInvNext == NInv /\ [Next]_vars => NInv'
<1> SUFFICES ASSUME NInv, [Next]_vars PROVE NInv'
  OBVIOUS
<1>1. CInv
  BY DEF NInv
<1>2. SenderSound /\ NetworkTypes /\ ReceiverTypes
  BY <1>1 DEF CInv, ReceiverSound
<1>3. CInv'
  BY <1>1, CInvNext
<1>4. PICK E, P, T : NumbersSound(E, P, T)
  BY DEF NInv
<1>5. \E F, Q, U : NumbersSound(F, Q, U)'
  <2>1. CASE \E c \in Channels, n \in FragmentCounts : Send(c, n)
    <3>1. PICK c \in Channels, n \in FragmentCounts : Send(c, n)
      BY <2>1
    <3>2. \E F : NumbersSound(F, P, T)'
      BY <1>2, <1>4, <3>1, SendNumbers
    <3> QED BY <3>2
  <2>2. CASE \E timedOut \in SUBSET Range(sentReliableCommands), limit \in TransitLimits :
                SendOutgoing(timedOut, limit)
    <3>1. PICK timedOut \in SUBSET Range(sentReliableCommands), limit \in TransitLimits :
                SendOutgoing(timedOut, limit)
      BY <2>2
    <3>2. \E U : NumbersSound(E, P, U)'
      BY <1>2, <1>4, <3>1, SendOutgoingSoundNumbers
    <3> QED BY <3>2
  <2>3. CASE \E m \in data : HandleData(m)
    <3>1. PICK m \in data : HandleData(m)
      BY <2>3
    <3>2. acknowledgements' \subseteq [ch : Channels, abs : Nat]
      BY <1>3 DEF CInv, ReceiverSound, ReceiverTypes
    <3>3. \E Q : NumbersSound(E, Q, T)'
      BY <1>2, <1>4, <3>1, <3>2, HandleDataNumbers
    <3> QED BY <3>3
  <2>4. CASE SendAcknowledgements
    <3>1. NumbersSound(E, P, T)'
      BY <1>2, <1>4, <2>4, SendAcknowledgementsNumbers
    <3> QED BY <3>1
  <2>5. CASE \E a \in acks : HandleAcknowledge(a)
    <3>1. PICK a \in acks : HandleAcknowledge(a)
      BY <2>5
    <3>2. NumbersSound(E, P, T)'
      BY <1>2, <1>4, <3>1, AcknowledgeSoundNumbers
    <3> QED BY <3>2
  <2>6. CASE Receive
    <3>1. NumbersSound(E, P, T)'
      BY <1>2, <1>4, <2>6, ReceiveNumbers
    <3> QED BY <3>1
  <2>7. CASE (\E m \in data : LoseData(m)) \/ (\E a \in acks : LoseAck(a)) \/ UNCHANGED vars
    <3>1. UNCHANGED <<senderVars, receiverVars>> /\ data' \subseteq data /\ acks' \subseteq acks
      BY <2>7 DEF LoseData, LoseAck, vars
    <3>2. NumbersSound(E, P, T)'
      BY <1>4, <3>1, LossNumbers
    <3> QED BY <3>2
  <2> QED BY <2>1, <2>2, <2>3, <2>4, <2>5, <2>6, <2>7 DEF Next
<1> QED BY <1>3, <1>5 DEF NInv

\* NInv is an invariant of the channel.
THEOREM NumbersStaySound == Spec => []NInv
<1>1. Init => NInv
  BY NInvInit
<1>2. NInv /\ [Next]_vars => NInv'
  BY NInvNext
<1> QED BY <1>1, <1>2, PTL DEF Spec

-----------------------------------------------------------------------------
(* What the numbers say of the channel *)

\* A packet that was passed on has been delivered or is about to be.
LEMMA PassedArrived ==
    ASSUME ReceiverTypes, NEW m, NEW E, NEW P, NEW T, m.ch \in Channels, ReceiverNumbers(E, P, T),
           NEW r, r = m.pkt, r \in Nat, 1 <= r, r <= P[m.ch]
    PROVE  Arrived(m)
<1> DEFINE d == dispatchedCommands
           del == delivered[m.ch]
           p == P[m.ch]
<1>1. /\ PassedOn(d, m.ch, Len(del), p) /\ \A k \in 1 .. Len(del) : del[k] = {k}
  BY DEF ReceiverNumbers, Receiving
<1>2. d \in Seq(Dispatched) /\ del \in Seq(SUBSET Nat)
  BY DEF ReceiverTypes
<1> HIDE DEF d, del, p
<1>3. /\ Len(del) \in Nat
      /\ \A i \in 1 .. Len(d) : d[i].ch = m.ch => d[i].src = {PacketOf(d[i])}
      /\ \A x \in Nat : Len(del) < x /\ x <= p =>
            \E i \in 1 .. Len(d) : d[i].ch = m.ch /\ PacketOf(d[i]) = x
  BY <1>1 DEF PassedOn
<1>4. CASE r <= Len(del)
  <2>1. r \in 1 .. Len(del)
    BY <1>3, <1>4
  <2>2. del[r] = {r} /\ del[r] \in Range(del)
    BY <1>1, <1>2, <2>1, RangeIs
  <2> QED BY <2>2 DEF Arrived, del
<1>5. CASE Len(del) < r
  <2>1. PICK i \in 1 .. Len(d) : d[i].ch = m.ch /\ PacketOf(d[i]) = r
    BY <1>3, <1>5 DEF p
  <2>2. d[i].ch = m.ch /\ d[i].src = {r} /\ d[i] \in Range(d)
    BY <1>2, <1>3, <2>1, RangeIs
  <2> QED BY <2>2 DEF Arrived, d
<1> QED BY <1>3, <1>4, <1>5

\* What has settled has arrived.
LEMMA SettledArrived ==
    ASSUME ReceiverTypes, NEW m \in Commands, NEW E, NEW P, NEW T, m.ch \in Channels,
           PacketNumbers(E), ReceiverNumbers(E, P, T), Belongs(m, E, submitted),
           m.abs \in SettledIn(incomingReliableCommands[m.ch], E[m.ch], P[m.ch])
    PROVE  Arrived(m)
<1> DEFINE e == E[m.ch]
           p == P[m.ch]
           sub == submitted[m.ch]
           queue == incomingReliableCommands[m.ch]
<1>1. Laid(e, sub)
  BY DEF PacketNumbers, Layout
<1>2. Waits(queue, e, p, sub, T[m.ch]) /\ p \in Nat /\ p <= sub
  BY DEF ReceiverNumbers, Receiving
<1>3. /\ m.pkt \in Nat /\ m.pkt \in 1 .. sub /\ m.abs = FirstOf(e, m.pkt) + m.frag
      /\ m.frag \in Nat /\ m.frag < e[m.pkt] - e[m.pkt - 1] /\ m.abs \in Nat
      /\ FirstOf(e, m.pkt) \in Nat
  BY <1>1, BelongsIs DEF Belongs
<1>4. \/ m.abs <= e[p]
      \/ \E i \in 1 .. Len(queue) : \E f \in queue[i].got :
            m.abs = FirstOf(e, PacketOf(queue[i])) + f
  BY DEF SettledIn
<1> HIDE DEF e, p, sub, queue
<1>5. sub \in Nat
  BY <1>1 DEF Laid
<1>6. CASE m.abs <= e[p]
  <2>1. /\ m.pkt - 1 \in 0 .. sub /\ e[m.pkt - 1] < FirstOf(e, m.pkt)
        /\ e[p] \in Nat /\ e[m.pkt - 1] \in Nat /\ p \in 0 .. sub
    BY <1>1, <1>2, <1>3, <1>5, LaidIs
  <2>2. e[m.pkt - 1] < e[p]
    BY <1>3, <1>6, <2>1
  <2>3. m.pkt - 1 < p
    BY <1>1, <2>1, <2>2, LaidIs
  <2>4. m.pkt <= p /\ 1 <= m.pkt
    BY <1>2, <1>3, <1>5, <2>3
  <2> QED BY <1>3, <2>4, PassedArrived DEF p
<1>7. CASE \E i \in 1 .. Len(queue) : \E f \in queue[i].got :
              m.abs = FirstOf(e, PacketOf(queue[i])) + f
  <2>1. PICK i \in 1 .. Len(queue) : \E f \in queue[i].got :
              m.abs = FirstOf(e, PacketOf(queue[i])) + f
    BY <1>7
  <2>2. PICK f \in queue[i].got : m.abs = FirstOf(e, PacketOf(queue[i])) + f
    BY <2>1
  <2> DEFINE x == queue[i]
             r == PacketOf(x)
  <2>3. queue \in Seq(Entries) /\ x \in Entries /\ HoldsPacket(x, r, e, p, sub, T[m.ch])
    BY <1>2, WaitsIs
  <2> HIDE DEF x
  <2>4. /\ r \in Nat /\ p < r /\ r <= sub /\ x.src = {r} /\ x.count = e[r] - e[r - 1]
        /\ x.got \subseteq 0 .. x.count - 1 /\ x.count \in Nat
    BY <2>3 DEF HoldsPacket, Entries
  <2>5. f \in Nat /\ f < e[r] - e[r - 1]
    BY <2>2, <2>4 DEF x
  <2>6. r \in 1 .. sub
    BY <1>2, <1>5, <2>4
  <2>7. m.abs = FirstOf(e, r) + f
    BY <2>2 DEF x
  <2> HIDE DEF r
  <2>8. m.pkt = r /\ m.frag = f
    <3>1. PICK k : k = m.pkt
      OBVIOUS
    <3>2. PICK g : g = m.frag
      OBVIOUS
    <3>3. /\ k \in 1 .. sub /\ g \in Nat /\ g < e[k] - e[k - 1]
          /\ FirstOf(e, k) + g = FirstOf(e, r) + f
      BY <1>3, <2>7, <3>1, <3>2
    <3>4. k = r /\ g = f
      BY <1>1, <2>5, <2>6, <3>3, OneFragment
    <3> QED BY <3>1, <3>2, <3>4
  <2>9. x \in Range(queue)
    BY <2>1, <2>3, RangeIs DEF x
  <2>10. m.pkt \in x.src /\ m.frag \in x.got
    BY <2>2, <2>4, <2>8 DEF x
  <2> QED BY <2>9, <2>10 DEF Arrived, queue
<1> QED BY <1>4, <1>6, <1>7

\* What is known of one channel.
LEMMA ChannelIs ==
    ASSUME NEW E, NEW P, NEW T, NumbersSound(E, P, T), NEW c \in Channels
    PROVE  /\ Reach(Awaited(Out(sentReliableCommands, outgoingSendReliableCommands), c),
                    SettledIn(incomingReliableCommands[c], E[c], P[c]), E[c][P[c]], T[c])
           /\ Ahead(E[c], P[c], submitted[c], T[c]) /\ Laid(E[c], submitted[c])
           /\ P[c] \in Nat /\ P[c] <= submitted[c]
           /\ Waits(incomingReliableCommands[c], E[c], P[c], submitted[c], T[c])
           /\ PassedOn(dispatchedCommands, c, Len(delivered[c]), P[c])
           /\ incomingReliableSequenceNumber[c] = E[c][P[c]] % SeqSpace
<1> DEFINE S == SettledOn(incomingReliableCommands, E, P)
           L == LastOn(E, P)
           O == Out(sentReliableCommands, outgoingSendReliableCommands)
<1>1. /\ PacketNumbers(E) /\ SenderNumbers(S, L, T) /\ ReceiverNumbers(E, P, T)
  BY DEF NumbersSound
<1>2. L[c] = E[c][P[c]] /\ S[c] = SettledIn(incomingReliableCommands[c], E[c], P[c])
  BY DEF LastOn, SettledOn
<1> HIDE DEF S, L
<1>3. Reaching(O, S, L, T)
  BY <1>1 DEF SenderNumbers, Flight
<1>4. Laid(E[c], submitted[c])
  BY <1>1 DEF PacketNumbers, Layout
<1>5. Receiving(incomingReliableSequenceNumber[c], incomingReliableCommands[c],
                dispatchedCommands, delivered[c], c, E[c], P[c], submitted[c], T[c])
  BY <1>1 DEF ReceiverNumbers
<1>6. /\ P[c] \in Nat /\ P[c] <= submitted[c]
      /\ Waits(incomingReliableCommands[c], E[c], P[c], submitted[c], T[c])
      /\ PassedOn(dispatchedCommands, c, Len(delivered[c]), P[c])
      /\ incomingReliableSequenceNumber[c] = E[c][P[c]] % SeqSpace
  BY <1>5 DEF Receiving
<1> HIDE DEF O
<1>7. Ahead(E[c], P[c], submitted[c], T[c])
  BY <1>2, <1>3, <1>4, <1>6, AheadIs
<1>8. Reach(Awaited(O, c), S[c], L[c], T[c])
  BY <1>3 DEF Reaching
<1> QED BY <1>2, <1>4, <1>6, <1>7, <1>8 DEF O

\* The commands of the sending peer's lists.
LEMMA UnacknowledgedIs ==
    ASSUME SenderSound, NEW E, PacketNumbers(E), NEW m \in Unacknowledged
    PROVE  m \in Commands /\ m.ch \in Channels /\ Belongs(m, E, submitted)
<1>1. sentReliableCommands \in Seq(Commands) /\ outgoingSendReliableCommands \in Seq(Commands)
  BY DEF SenderSound, Queued, Listed
<1>2. m \in Commands
  <2>1. CASE m \in Range(sentReliableCommands)
    BY <1>1, <2>1, RangeIs
  <2>2. CASE m \in Range(outgoingSendReliableCommands)
    BY <1>1, <2>2, RangeIs
  <2> QED BY <2>1, <2>2 DEF Unacknowledged
<1>3. Belongs(m, E, submitted)
  BY DEF Unacknowledged, PacketNumbers
<1> QED BY <1>2, <1>3 DEF Commands

\* The window check of the sending peer keeps the numbers unambiguous.
LEMMA NumbersAreUnambiguous ==
    ASSUME SenderSound, ReceiverTypes, NEW E, NEW P, NEW T, NumbersSound(E, P, T)
    PROVE  NumbersUnambiguous
<1> DEFINE O == Out(sentReliableCommands, outgoingSendReliableCommands)
<1>1. Outstanding = O
  BY DEF Outstanding, Unacknowledged, Out
<1>2. PacketNumbers(E) /\ ReceiverNumbers(E, P, T)
  BY DEF NumbersSound
<1>3. ASSUME NEW m \in O
      PROVE  m \in Commands /\ m.ch \in Channels /\ Belongs(m, E, submitted)
             /\ m.abs \in Awaited(O, m.ch)
  <2>1. m \in Unacknowledged
    BY DEF Out, Unacknowledged
  <2> HIDE DEF O
  <2>2. m.abs \in Awaited(O, m.ch)
    BY AwaitedIs
  <2> QED BY <1>2, <2>1, <2>2, UnacknowledgedIs
<1>4. ASSUME NEW c \in Channels
      PROVE  /\ T[c] \in Nat
             /\ \A x \in Awaited(O, c) : x \in Nat /\ x <= T[c] /\ T[c] < x + SeqSpace
  <2>1. Reach(Awaited(O, c), SettledIn(incomingReliableCommands[c], E[c], P[c]), E[c][P[c]], T[c])
    BY ChannelIs
  <2> HIDE DEF O
  <2> QED BY <2>1, ReachSpan
<1> HIDE DEF O
<1>5. DistinctSequenceNumbers
  <2> SUFFICES ASSUME NEW m \in O, NEW k \in O, m.ch = k.ch, Seq16(m) = Seq16(k)
               PROVE  m.abs = k.abs
    BY <1>1 DEF DistinctSequenceNumbers
  <2>1. /\ m.abs \in Nat /\ m.abs <= T[m.ch] /\ T[m.ch] < m.abs + SeqSpace
        /\ k.abs \in Nat /\ k.abs <= T[m.ch] /\ T[m.ch] < k.abs + SeqSpace /\ T[m.ch] \in Nat
    BY <1>3, <1>4
  <2>2. m.abs % SeqSpace = k.abs % SeqSpace
    BY DEF Seq16
  <2> QED BY <2>1, <2>2, SameNumber
<1>6. UnarrivedInReach
  <2> DEFINE current(m) == incomingReliableSequenceNumber[m.ch]
  <2> SUFFICES ASSUME NEW m \in O, ~ Arrived(m)
               PROVE  RelativeWindow(Seq16(m), current(m))
                         \in Window(current(m)) .. Window(current(m)) + FreeWindows
    BY <1>1 DEF UnarrivedInReach
  <2>1. PICK c : c = m.ch
    OBVIOUS
  <2> DEFINE e == E[c]
             p == P[c]
             L == e[p]
             x == m.abs
  <2>2. m \in Commands /\ c \in Channels /\ Belongs(m, E, submitted) /\ x \in Nat /\ x <= T[c]
    BY <1>3, <1>4, <2>1
  <2>3. /\ Ahead(e, p, submitted[c], T[c]) /\ Laid(e, submitted[c]) /\ p \in Nat
        /\ p <= submitted[c] /\ incomingReliableSequenceNumber[c] = L % SeqSpace
    BY <2>2, ChannelIs
  <2>4. /\ m.pkt \in Nat /\ m.pkt \in 1 .. submitted[c] /\ x = FirstOf(e, m.pkt) + m.frag
        /\ m.frag \in Nat /\ FirstOf(e, m.pkt) \in Nat
    BY <2>1, <2>2, <2>3, BelongsIs
  <2>5. submitted[c] \in Nat
    BY <2>3 DEF Laid
  <2>6. p < m.pkt
    <3>1. m.pkt <= p => Arrived(m)
      <4>1. 1 <= m.pkt
        BY <2>4, <2>5
      <4> QED BY <1>2, <2>1, <2>2, <2>4, <4>1, PassedArrived
    <3> QED BY <2>3, <2>4, <3>1
  <2> HIDE DEF e, p
  <2>7. L < x /\ L \in Nat
    <3>1. /\ m.pkt - 1 \in 0 .. submitted[c] /\ e[m.pkt - 1] < FirstOf(e, m.pkt)
          /\ e[p] \in Nat /\ e[m.pkt - 1] \in Nat /\ p \in 0 .. submitted[c]
      BY <2>3, <2>4, <2>5, LaidIs
    <3>2. p <= m.pkt - 1
      BY <2>3, <2>4, <2>6
    <3>3. e[p] <= e[m.pkt - 1]
      BY <2>3, <3>1, <3>2, LaidIs
    <3> QED BY <2>4, <3>1, <3>3
  <2> HIDE DEF L, x
  <2>8. /\ x < L + SeqSpace /\ Window(L) <= Window(x) /\ Window(x) <= Window(L) + FreeWindows - 1
        /\ Window(L) \in Nat /\ Window(x) \in Nat
    <3>1. e[p] < x
      BY <2>7 DEF L
    <3> QED BY <2>2, <2>3, <3>1, SeenAhead DEF L
  <2> DEFINE v == RelativeWindow(x % SeqSpace, L % SeqSpace)
             w == Window(L % SeqSpace)
  <2>9. v - w = Window(x) - Window(L) /\ w \in Nat /\ v \in Nat
    <3>1. L <= x
      BY <2>2, <2>7
    <3>2. v - w = Window(x) - Window(L)
      BY <2>2, <2>7, <2>8, <3>1, WireAhead
    <3>3. /\ x % SeqSpace \in Nat /\ w \in 0 .. Windows - 1
          /\ Window(x % SeqSpace) \in 0 .. Windows - 1
      BY <2>2, <2>7, WireWindow
    <3>4. v \in Nat
      BY <3>3, WindowBounds DEF RelativeWindow
    <3> QED BY <3>2, <3>3, <3>4
  <2> HIDE DEF v, w
  <2>10. v \in w .. w + FreeWindows
    BY <2>8, <2>9, WindowBounds
  <2>11. Seq16(m) = x % SeqSpace /\ current(m) = L % SeqSpace
    BY <2>1, <2>3 DEF Seq16, x
  <2> QED BY <2>10, <2>11 DEF v, w
<1> QED BY <1>5, <1>6 DEF NumbersUnambiguous

\* The distance on the wire from a number to one less than a cycle ahead of it.
LEMMA WireDistance ==
    ASSUME NEW y \in Nat, NEW x \in Nat, y < x, x < y + SeqSpace
    PROVE  ((x % SeqSpace) + (SeqSpace - (y % SeqSpace))) % SeqSpace = x - y
<1> DEFINE n == SeqSpace
           k == y \div n
           r == y % n
           j == n - r
           d == x - y
<1>1. n \in Nat \ {0}
  BY WindowBounds
<1>2. k \in Nat /\ r \in 0 .. n - 1 /\ y = n * k + r
  BY <1>1, DivMod
<1> HIDE DEF n, k, r
<1>3. j \in Nat /\ d \in 0 .. n - 1 /\ k + 1 \in Nat
  BY <1>1, <1>2 DEF n
<1>4. ((x % n) + j) % n = (x + j) % n
  BY <1>1, <1>3, RemainderPlus
<1>5. x + j = n * (k + 1) + d
  BY <1>1, <1>2
<1>6. (n * (k + 1) + d) % n = d
  BY <1>1, <1>3, RemainderOnly
<1> HIDE DEF d, j
<1>7. (x + j) % n = d
  BY <1>5, <1>6
<1>8. ((x % n) + j) % n = d
  BY <1>4, <1>7
<1> QED BY <1>8 DEF n, r, j, d

\* The packets dispatched and not yet received are few enough.
LEMMA PassedFew ==
    ASSUME NEW d \in Seq(Dispatched), NEW c, NEW n, NEW p, PassedOn(d, c, n, p)
    PROVE  n + Cardinality({i \in DOMAIN d : d[i].ch = c}) <= p
<1> DEFINE S == {i \in DOMAIN d : d[i].ch = c}
           J == n + 1 .. p
           f == [i \in S |-> PacketOf(d[i])]
<1>1. /\ n \in Nat /\ p \in Nat /\ n <= p /\ Len(d) \in Nat
      /\ \A i \in 1 .. Len(d) : d[i].ch = c =>
            PacketOf(d[i]) \in Nat /\ n < PacketOf(d[i]) /\ PacketOf(d[i]) <= p
      /\ \A i, j \in 1 .. Len(d) :
            i < j /\ d[i].ch = c /\ d[j].ch = c => PacketOf(d[i]) < PacketOf(d[j])
  BY DEF PassedOn
<1>2. \A i \in S : i \in 1 .. Len(d) /\ i \in Nat /\ d[i].ch = c
  OBVIOUS
<1> HIDE DEF S
<1>3. \A i \in S : PacketOf(d[i]) \in J
  BY <1>1, <1>2
<1>4. f \in [S -> J]
  BY <1>3
<1>5. \A i, j \in S : f[i] = f[j] => i = j
  BY <1>1, <1>2
<1>6. IsFiniteSet(J) /\ Cardinality(J) = p - n
  <2>1. Cardinality(J) = IF n + 1 > p THEN 0 ELSE p - (n + 1) + 1
    BY <1>1, FS_Interval
  <2>2. IsFiniteSet(J)
    BY <1>1, FS_Interval
  <2> HIDE DEF J
  <2> QED BY <1>1, <2>1, <2>2
<1> HIDE DEF f, J
<1>7. IsFiniteSet(S) /\ Cardinality(S) <= Cardinality(J)
  BY <1>4, <1>5, <1>6, MappedInto
<1>8. Cardinality(S) \in Nat
  BY <1>7, FS_CardinalityType
<1> QED BY <1>1, <1>6, <1>7, <1>8 DEF S

\* incomingReliableCommands is sorted and holds nothing that was passed on.
LEMMA QueueIsSound ==
    ASSUME ReceiverTypes, NEW E, NEW P, NEW T, NumbersSound(E, P, T)
    PROVE  QueueSound
<1> SUFFICES ASSUME NEW c \in Channels PROVE QueueOrdered(c) /\ NoStaleEntry(c)
  BY DEF QueueSound
<1> DEFINE queue == incomingReliableCommands[c]
           e == E[c]
           p == P[c]
           sub == submitted[c]
           U == T[c]
           L == e[p]
<1>1. /\ Ahead(e, p, sub, U) /\ Laid(e, sub) /\ p \in Nat /\ Waits(queue, e, p, sub, U)
      /\ PassedOn(dispatchedCommands, c, Len(delivered[c]), p)
      /\ incomingReliableSequenceNumber[c] = L % SeqSpace
  BY ChannelIs
<1>2. dispatchedCommands \in Seq(Dispatched)
  BY DEF ReceiverTypes
<1>3. queue \in Seq(Entries)
  BY <1>1, WaitsIs
<1> HIDE DEF queue, e, p, sub, U
<1>4. L \in Nat /\ U < L + SeqSpace /\ U \in Nat
  BY <1>1 DEF Ahead
<1>5. ASSUME NEW i \in 1 .. Len(queue), NEW r, r = PacketOf(queue[i])
      PROVE  /\ r \in Nat /\ r \in 1 .. sub /\ p < r /\ queue[i].src = {r} /\ FirstOf(e, r) \in Nat
             /\ L < FirstOf(e, r)
             /\ (queue[i].seq + SeqSpace - incomingReliableSequenceNumber[c]) % SeqSpace
                  = FirstOf(e, r) - L
  <2>1. HoldsPacket(queue[i], r, e, p, sub, U)
    BY <1>1, <1>5, WaitsIs
  <2>2. /\ r \in Nat /\ r \in 1 .. sub /\ p < r /\ queue[i].src = {r} /\ FirstOf(e, r) \in Nat
        /\ L < FirstOf(e, r) /\ FirstOf(e, r) <= U /\ queue[i].seq = FirstOf(e, r) % SeqSpace
    BY <1>1, <2>1, HeldAhead
  <2> HIDE DEF L
  <2>3. FirstOf(e, r) < L + SeqSpace
    BY <1>4, <2>2, WindowBounds
  <2>4. ((FirstOf(e, r) % SeqSpace) + (SeqSpace - (L % SeqSpace))) % SeqSpace = FirstOf(e, r) - L
    BY <1>4, <2>2, <2>3, WireDistance
  <2>5. (queue[i].seq + SeqSpace - incomingReliableSequenceNumber[c]) % SeqSpace
           = ((FirstOf(e, r) % SeqSpace) + (SeqSpace - (L % SeqSpace))) % SeqSpace
    <3>1. incomingReliableSequenceNumber[c] = L % SeqSpace
      BY <1>1
    <3> QED BY <2>2, <3>1
  <2> QED BY <2>2, <2>4, <2>5
<1> HIDE DEF L
<1>6. QueueOrdered(c)
  <2> DEFINE Distance(i) == (queue[i].seq + SeqSpace - incomingReliableSequenceNumber[c])
                               % SeqSpace
  <2>1. ASSUME NEW i \in 1 .. Len(queue) PROVE Distance(i) > 0
    <3>1. PICK r : r = PacketOf(queue[i])
      OBVIOUS
    <3>2. /\ FirstOf(e, r) \in Nat /\ L < FirstOf(e, r) /\ Distance(i) = FirstOf(e, r) - L
      BY <1>5, <3>1
    <3> QED BY <1>4, <3>2
  <2>2. ASSUME NEW i \in 1 .. Len(queue), NEW j \in 1 .. Len(queue), i < j
        PROVE  Distance(i) < Distance(j)
    <3>1. PICK r : r = PacketOf(queue[i])
      OBVIOUS
    <3>2. PICK x : x = PacketOf(queue[j])
      OBVIOUS
    <3>3. /\ FirstOf(e, r) \in Nat /\ Distance(i) = FirstOf(e, r) - L /\ r \in 1 .. sub /\ r \in Nat
      BY <1>5, <3>1
    <3>4. /\ FirstOf(e, x) \in Nat /\ Distance(j) = FirstOf(e, x) - L /\ x \in 1 .. sub /\ x \in Nat
      BY <1>5, <3>2
    <3> HIDE DEF Distance
    <3>5. r < x
      BY <1>1, <2>2, <3>1, <3>2, WaitsIs
    <3>6. FirstOf(e, r) < FirstOf(e, x)
      <4>1. (r <= x <=> FirstOf(e, r) <= FirstOf(e, x)) /\ (FirstOf(e, r) = FirstOf(e, x) => r = x)
        BY <1>1, <3>3, <3>4, FirstOrder
      <4> QED BY <3>3, <3>4, <3>5, <4>1
    <3> QED BY <1>4, <3>3, <3>4, <3>6
  <2>3. DOMAIN queue = 1 .. Len(queue)
    BY <1>3
  <2> QED BY <2>1, <2>2, <2>3 DEF QueueOrdered, queue
<1>7. NoStaleEntry(c)
  <2> DEFINE passed == Len(delivered[c])
                         + Cardinality({i \in DOMAIN dispatchedCommands :
                                           dispatchedCommands[i].ch = c})
  <2>1. passed <= p
    BY <1>1, <1>2, PassedFew
  <2>2. passed \in Nat
    <3>1. IsFiniteSet(DOMAIN dispatchedCommands)
      <4>1. DOMAIN dispatchedCommands = 1 .. Len(dispatchedCommands)
            /\ Len(dispatchedCommands) \in Nat
        BY <1>2
      <4>2. PICK z : z = 1
        OBVIOUS
      <4> QED BY <4>1, <4>2, FS_Interval
    <3>2. IsFiniteSet({i \in DOMAIN dispatchedCommands : dispatchedCommands[i].ch = c})
      BY <3>1, FS_Subset
    <3>3. Len(delivered[c]) \in Nat
      BY <1>1 DEF PassedOn
    <3>4. Cardinality({i \in DOMAIN dispatchedCommands : dispatchedCommands[i].ch = c}) \in Nat
      BY <3>2, FS_CardinalityType
    <3> QED BY <3>3, <3>4
  <2> HIDE DEF passed
  <2>3. ASSUME NEW x \in Range(queue), NEW r \in x.src PROVE r > passed
    <3>1. PICK i \in 1 .. Len(queue) : queue[i] = x
      BY <1>3, RangeIs
    <3>2. PICK k : k = PacketOf(queue[i])
      OBVIOUS
    <3>3. k \in Nat /\ p < k /\ queue[i].src = {k}
      BY <1>5, <3>2
    <3>4. r = k
      BY <3>1, <3>3
    <3> QED BY <1>1, <2>1, <2>2, <3>3, <3>4
  <2> QED BY <2>3 DEF NoStaleEntry, passed, queue
<1> QED BY <1>6, <1>7

-----------------------------------------------------------------------------
(* What an acknowledgement means *)

\* A pass of enet_protocol_send_outgoing_commands keeps every command.
LEMMA StillListed ==
    ASSUME NEW k, NEW p, Listed(k, p), NEW n \in 0 .. Len(p), NEW l \in Range(k) \cup Range(p)
    PROVE  \E m \in Range(k \o SentNow(p, n)) \cup Range(Unsent(p, n)) :
              m.ch = l.ch /\ m.abs = l.abs
<1> DEFINE now == SentNow(p, n)
           u == k \o now
           rest == Unsent(p, n)
<1>1. k \in Seq(Commands) /\ p \in Seq(Commands) /\ n \in Nat /\ Len(p) \in Nat
  BY DEF Listed
<1>2. /\ now \in Seq(Commands) /\ Len(now) = n
      /\ \A i \in 1 .. n : now[i].ch = p[i].ch /\ now[i].abs = p[i].abs
  <2>1. Sends(now, p, n)
    BY <1>1, NowSent
  <2> QED BY <2>1 DEF Sends
<1>3. rest \in Seq(Commands) /\ Len(rest) = Len(p) - n
      /\ \A i \in 1 .. Len(rest) : rest[i] = p[n + i]
  BY <1>1 DEF Unsent
<1>4. Joined(u, k, now, Commands)
  BY <1>1, <1>2, JoinedIs
<1> HIDE DEF now, u, rest
<1>5. /\ u \in Seq(Commands) /\ Len(u) = Len(k) + n /\ Len(k) \in Nat
      /\ \A i \in 1 .. Len(k) : u[i] = k[i]
      /\ \A i \in 1 .. n : u[Len(k) + i] = now[i]
  BY <1>1, <1>2, <1>4 DEF Joined
<1>6. CASE l \in Range(k)
  <2>1. PICK i \in 1 .. Len(k) : k[i] = l
    BY <1>1, <1>6, RangeIs
  <2>2. i \in 1 .. Len(u) /\ u[i] = l
    BY <1>1, <1>5, <2>1
  <2>3. l \in Range(u)
    BY <1>5, <2>2, RangeIs
  <2> QED BY <2>3 DEF u, now
<1>7. CASE l \in Range(p)
  <2>1. PICK i \in 1 .. Len(p) : p[i] = l
    BY <1>1, <1>7, RangeIs
  <2>2. CASE i <= n
    <3>1. PICK j : j = Len(k) + i
      OBVIOUS
    <3>2. i \in 1 .. n /\ j \in 1 .. Len(u) /\ u[j] = now[i]
      BY <1>1, <1>5, <2>1, <2>2, <3>1
    <3>3. now[i] \in Range(u) /\ now[i].ch = l.ch /\ now[i].abs = l.abs
      BY <1>2, <1>5, <2>1, <3>2, RangeIs
    <3> QED BY <3>3 DEF u, now
  <2>3. CASE n < i
    <3>1. PICK j : j = i - n
      OBVIOUS
    <3>2. j \in 1 .. Len(rest) /\ n + j = i
      BY <1>1, <1>3, <2>1, <2>3, <3>1
    <3>3. rest[j] = l
      BY <1>3, <2>1, <3>2
    <3>4. l \in Range(rest)
      BY <1>3, <3>2, <3>3, RangeIs
    <3> QED BY <3>4 DEF rest
  <2> QED BY <1>1, <2>1, <2>2, <2>3
<1> QED BY <1>6, <1>7

\* The sending peer forgets command m in this step.
Forgotten(m) ==
    m \in Unacknowledged /\ ~ \E k \in Unacknowledged' : k.ch = m.ch /\ k.abs = m.abs

\* A command that stays on a list of the sending peer is not forgotten.
LEMMA NothingForgotten ==
    ASSUME Range(sentReliableCommands) \cup Range(outgoingSendReliableCommands)
              \subseteq Range(sentReliableCommands') \cup Range(outgoingSendReliableCommands'),
           NEW m
    PROVE  ~ Forgotten(m)
BY DEF Forgotten, Unacknowledged

\* enet_protocol_handle_acknowledge forgets what has arrived.
LEMMA AcknowledgeArrived ==
    ASSUME SenderSound, NetworkTypes, ReceiverTypes, NEW E, NEW P, NEW T, NumbersSound(E, P, T),
           NEW a \in acks, HandleAcknowledge(a), NEW m, Forgotten(m)
    PROVE  Arrived(m)
<1> DEFINE S == SettledOn(incomingReliableCommands, E, P)
           L == LastOn(E, P)
<1>1. PacketNumbers(E) /\ SenderNumbers(S, L, T) /\ ReceiverNumbers(E, P, T)
  BY DEF NumbersSound
<1>2. \A c \in Channels : S[c] = SettledIn(incomingReliableCommands[c], E[c], P[c])
  BY DEF SettledOn
<1> HIDE DEF S, L
<1>3. Pending(outgoingSendReliableCommands, 0, T, lastQueued)
  BY <1>1 DEF SenderNumbers, Flight
<1>4. Ignores \/ \E k : Forgets(a, k, T)
  BY <1>3, AcknowledgeDoes
<1>5. CASE Ignores
  <2>1. Range(sentReliableCommands) \cup Range(outgoingSendReliableCommands)
              \subseteq Range(sentReliableCommands') \cup Range(outgoingSendReliableCommands')
    BY <1>5 DEF Ignores
  <2> QED BY <2>1, NothingForgotten
<1>6. CASE \E k : Forgets(a, k, T)
  <2>1. PICK k : Forgets(a, k, T)
    BY <1>6
  <2>2. k.ch \in Channels /\ k.ch = a.ch /\ k.abs = a.abs /\ a.abs \in S[a.ch]
    BY <1>1, <2>1, ForgetsIts
  <2>3. m = k
    BY <2>1 DEF Forgets, Forgotten, Unacknowledged
  <2>4. m \in Unacknowledged
    BY DEF Forgotten
  <2>5. m \in Commands /\ m.ch \in Channels /\ Belongs(m, E, submitted)
    BY <1>1, <2>4, UnacknowledgedIs
  <2>6. m.abs \in SettledIn(incomingReliableCommands[m.ch], E[m.ch], P[m.ch])
    BY <1>2, <2>2, <2>3
  <2> QED BY <1>1, <2>5, <2>6, SettledArrived
<1> QED BY <1>4, <1>5, <1>6

\* No other step forgets a command.
LEMMA ForgottenArrived ==
    ASSUME NInv, Next, NEW m, Forgotten(m)
    PROVE  Arrived(m)
<1>1. SenderSound /\ NetworkTypes /\ ReceiverTypes
  BY DEF NInv, CInv, ReceiverSound
<1>2. PICK E, P, T : NumbersSound(E, P, T)
  BY DEF NInv
<1>3. CASE \E c \in Channels, n \in FragmentCounts : Send(c, n)
  <2>1. PICK c \in Channels, n \in FragmentCounts : Send(c, n)
    BY <1>3
  <2>2. PICK t : Submits(c, n, t)
    BY <1>1, <2>1, SendDoes
  <2>3. Range(sentReliableCommands) \cup Range(outgoingSendReliableCommands)
              \subseteq Range(sentReliableCommands') \cup Range(outgoingSendReliableCommands')
    BY <2>2 DEF Submits
  <2> QED BY <2>3, NothingForgotten
<1>4. CASE \E timedOut \in SUBSET Range(sentReliableCommands), limit \in TransitLimits :
              SendOutgoing(timedOut, limit)
  <2>1. PICK timedOut \in SUBSET Range(sentReliableCommands), limit \in TransitLimits :
              SendOutgoing(timedOut, limit)
    BY <1>4
  <2>2. PICK k, p, n, t : Passes(k, p, n, t)
    BY <1>1, <2>1, SendOutgoingDoes
  <2>3. /\ Listed(k, p) /\ n \in 0 .. Len(p)
        /\ Range(k) \cup Range(p) = Unacknowledged
        /\ Unacknowledged' = Range(k \o SentNow(p, n)) \cup Range(Unsent(p, n))
    BY <2>2 DEF Passes, Unacknowledged
  <2>4. ~ Forgotten(m)
    <3> SUFFICES ASSUME m \in Unacknowledged
                 PROVE  \E l \in Unacknowledged' : l.ch = m.ch /\ l.abs = m.abs
      BY DEF Forgotten
    <3> QED BY <2>3, StillListed
  <2> QED BY <2>4
<1>5. CASE \E a \in acks : HandleAcknowledge(a)
  BY <1>1, <1>2, <1>5, AcknowledgeArrived
<1>6. CASE \/ \E d \in data : HandleData(d)
           \/ SendAcknowledgements \/ Receive
           \/ (\E d \in data : LoseData(d)) \/ (\E a \in acks : LoseAck(a))
  <2>1. UNCHANGED senderVars
    BY <1>6 DEF HandleData, SendAcknowledgements, Receive, LoseData, LoseAck
  <2>2. Range(sentReliableCommands) \cup Range(outgoingSendReliableCommands)
              \subseteq Range(sentReliableCommands') \cup Range(outgoingSendReliableCommands')
    BY <2>1 DEF senderVars
  <2> QED BY <2>2, NothingForgotten
<1> QED BY <1>3, <1>4, <1>5, <1>6 DEF Next

(* What the channel implements *)

\* What a step of the channel is to the application.
LEMMA FifoStep ==
    ASSUME NInv, [Next]_vars
    PROVE  [Fifo!Next]_(Fifo!vars)
<1>1. ReceiverTypes
  BY DEF NInv, CInv, ReceiverSound
<1>2. PICK E, P, T : NumbersSound(E, P, T)
  BY DEF NInv
<1>3. CASE \E c \in Channels, n \in FragmentCounts : Send(c, n)
  <2>1. PICK c \in Channels, n \in FragmentCounts : Send(c, n)
    BY <1>3
  <2>2. submitted' = [submitted EXCEPT ![c] = @ + 1] /\ delivered' = delivered
    BY <2>1 DEF Send, receiverVars
  <2>3. Fifo!Submit(c)
    BY <2>2 DEF Fifo!Submit
  <2> QED BY <2>3 DEF Fifo!Next
<1>4. CASE Receive
  <2>1. /\ dispatchedCommands # <<>> /\ submitted' = submitted
        /\ delivered' = [delivered EXCEPT ![Head(dispatchedCommands).ch] =
                            Append(@, Head(dispatchedCommands).src)]
    BY <1>4 DEF Receive, senderVars
  <2> DEFINE d == dispatchedCommands
  <2>2. d \in Seq(Dispatched) /\ delivered \in [Channels -> Seq(SUBSET Nat)]
    BY <1>1 DEF ReceiverTypes
  <2>3. PICK x : x = Head(d)
    OBVIOUS
  <2>4. x.ch \in Channels
    <3>1. 1 \in 1 .. Len(d) /\ Head(d) = d[1]
      BY <2>1, <2>2, TailIs
    <3>2. d[1] \in Dispatched
      BY <2>2, <3>1
    <3> QED BY <2>3, <3>1, <3>2 DEF Dispatched
  <2>5. PICK c : c = x.ch
    OBVIOUS
  <2>6. /\ Receiving(incomingReliableSequenceNumber[c], incomingReliableCommands[c],
                     d, delivered[c], c, E[c], P[c], submitted[c], T[c])
        /\ Laid(E[c], submitted[c])
    BY <1>2, <2>4, <2>5 DEF NumbersSound, ReceiverNumbers, PacketNumbers, Layout
  <2>7. x.src = {Len(delivered[c]) + 1} /\ Len(delivered[c]) < submitted[c]
    <3>1. submitted[c] \in Nat /\ delivered[c] \in Seq(SUBSET Nat) /\ d # <<>>
      BY <2>1, <2>2, <2>4, <2>5, <2>6 DEF Laid
    <3> DEFINE seq == incomingReliableSequenceNumber[c]
               queue == incomingReliableCommands[c]
               del == delivered[c]
               e == E[c]
               p == P[c]
               sub == submitted[c]
               U == T[c]
    <3>2. /\ Receiving(seq, queue, d, del, c, e, p, sub, U) /\ sub \in Nat
          /\ del \in Seq(SUBSET Nat) /\ x.ch = c
      BY <2>5, <2>6, <3>1
    <3> HIDE DEF d, seq, queue, del, e, p, sub, U
    <3>3. x.src = {Len(del) + 1} /\ Len(del) < sub
      BY <2>2, <2>3, <3>1, <3>2, ReceivingTaken
    <3> QED BY <3>3 DEF del, sub
  <2>8. delivered' = [delivered EXCEPT ![c] = Append(delivered[c], {Len(delivered[c]) + 1})]
    BY <2>1, <2>3, <2>5, <2>7
  <2>9. Fifo!Deliver(c)
    BY <2>1, <2>7, <2>8 DEF Fifo!Deliver
  <2> QED BY <2>4, <2>5, <2>9 DEF Fifo!Next
<1>5. CASE \/ \E timedOut \in SUBSET Range(sentReliableCommands), limit \in TransitLimits :
                 SendOutgoing(timedOut, limit)
           \/ \E m \in data : HandleData(m)
           \/ SendAcknowledgements
           \/ \E a \in acks : HandleAcknowledge(a)
           \/ \E m \in data : LoseData(m)
           \/ \E a \in acks : LoseAck(a)
           \/ UNCHANGED vars
  <2>1. submitted' = submitted /\ delivered' = delivered
    BY <1>5 DEF SendOutgoing, HandleData, SendAcknowledgements, HandleAcknowledge, LoseData,
                LoseAck, vars, senderVars, receiverVars
  <2> QED BY <2>1 DEF Fifo!vars
<1> QED BY <1>3, <1>4, <1>5 DEF Next

-----------------------------------------------------------------------------
\* The window check of the sending peer keeps the sequence numbers unambiguous.
THEOREM NumbersStayUnambiguous == Spec => []NumbersUnambiguous
<1>1. NInv => NumbersUnambiguous
  BY NumbersAreUnambiguous DEF NInv, CInv, ReceiverSound
<1> QED BY <1>1, NumbersStaySound, PTL

\* incomingReliableCommands stays sorted across the wrap, without duplicates
\* and without anything the application has obtained.
THEOREM QueueStaysSound == Spec => []QueueSound
<1>1. NInv => QueueSound
  BY QueueIsSound DEF NInv, CInv, ReceiverSound
<1> QED BY <1>1, NumbersStaySound, PTL

\* A command is forgotten by the sending peer only when it has arrived.
THEOREM OnlyArrivedForgotten == Spec => ForgottenOnlyWhenArrived
<1>1. NInv /\ [Next]_vars =>
        [\A m \in Unacknowledged :
            (~ \E k \in Unacknowledged' : k.ch = m.ch /\ k.abs = m.abs) => Arrived(m)]_vars
  BY ForgottenArrived DEF Forgotten
<1> QED BY <1>1, NumbersStaySound, PTL DEF Spec, ForgottenOnlyWhenArrived

\* Every packet is delivered once, whole and in order: the channel implements
\* the FIFO of ReliableFifo.
THEOREM ChannelIsFifo == Spec => FifoSpec
<1>1. Init => Fifo!Init
  BY DEF Init, Fifo!Init
<1>2. NInv /\ [Next]_vars => [Fifo!Next]_(Fifo!vars)
  BY FifoStep
<1> QED BY <1>1, <1>2, NumbersStaySound, PTL DEF Spec, FifoSpec, Fifo!Spec
=============================================================================
