----------------------- MODULE ReliableChannelProofs -----------------------
(***************************************************************************)
(* Theorems about the windows of sequence numbers and about the lists and  *)
(* counters of the reliable channels of ReliableChannel, for any number of *)
(* channels, any windows the assumptions of the model allow, any limits    *)
(* and any number of packets.                                              *)
(*                                                                         *)
(* CInv is inductive: it says which lists the sending peer may have, that  *)
(* the windows count the commands of them that were sent, and that each    *)
(* peer's data counter is the sum over its lists.  Every handler keeps it  *)
(* whatever the sequence numbers an acknowledgement or a datagram carries. *)
(* What the numbers mean is the subject of ReliableNumbersProofs.          *)
(***************************************************************************)
EXTENDS ReliableChannel, DataProofs, FunctionTheorems, Integers, TLAPS

-----------------------------------------------------------------------------
(* What the wrapping comparisons of SequenceWindows tell of the numbers        *)
(* before they wrapped, for any number and size of windows.  current and x     *)
(* below are numbers that never wrap, current the last one dispatched.         *)

\* The assumptions on the geometry of the windows.
LEMMA Geometry ==
    /\ Windows \in Nat \ {0} /\ WindowSize \in Nat \ {0} /\ FreeWindows \in Nat
    /\ SeqSpace \in Nat \ {0}
BY GeometryAssumption, SMT DEF SeqSpace

\* Division with remainder.
LEMMA DivMod ==
    ASSUME NEW x \in Nat, NEW n \in Nat \ {0}
    PROVE  /\ x \div n \in Nat /\ x % n \in 0 .. n - 1
           /\ x = n * (x \div n) + (x % n)
BY SMT

\* A product with a positive factor orders like the other factor.
LEMMA Monotone ==
    ASSUME NEW n \in Nat \ {0}, NEW a \in Int, NEW b \in Int, a <= b
    PROVE  n * a <= n * b
BY SMT

\* It can be cancelled.
LEMMA Cancelled ==
    ASSUME NEW n \in Nat \ {0}, NEW a \in Int, NEW b \in Int, n * a < n * b
    PROVE  a < b
<1> SUFFICES ASSUME b <= a PROVE FALSE
  BY SMT
<1>1. n * b <= n * a
  BY Monotone
<1> QED BY <1>1, SMT

\* The number on the wire that is d ahead of another.
LEMMA Wrapped ==
    ASSUME NEW n \in Nat \ {0}, NEW x \in Nat, NEW d \in 0 .. n - 1
    PROVE  (x + d) % n = IF (x % n) + d < n THEN (x % n) + d ELSE (x % n) + d - n
<1> DEFINE y == x + d
           k == (y \div n) - (x \div n)
<1>1. /\ x \div n \in Nat /\ x % n \in 0 .. n - 1
      /\ x = n * (x \div n) + (x % n)
  BY DivMod
<1>2. /\ y \in Nat /\ y \div n \in Nat /\ y % n \in 0 .. n - 1
      /\ y = n * (y \div n) + (y % n)
  <2>1. y \in Nat
    OBVIOUS
  <2> QED BY <2>1, DivMod
<1>3. k \in Int /\ n * k = n * (y \div n) - n * (x \div n)
  BY <1>1, <1>2, SMT
<1> HIDE DEF k
<1>4. n * k = (x % n) + d - (y % n)
  BY <1>1, <1>2, <1>3, SMT
<1>5. n * (-1) < n * k /\ n * k < n * 2
  BY <1>1, <1>2, <1>4, SMT
<1>6. -1 < k /\ k < 2
  BY <1>3, <1>5, Cancelled
<1>7. n * k = 0 \/ n * k = n
  BY <1>3, <1>6, SMT
<1> QED BY <1>1, <1>2, <1>4, <1>7, SMT

\* A whole cycle later the number on the wire is the same.
LEMMA Cycle ==
    ASSUME NEW n \in Nat \ {0}, NEW x \in Nat
    PROVE  (x + n) % n = x % n
<1> DEFINE y == x + n
           k == (y \div n) - (x \div n) - 1
<1>1. /\ x \div n \in Nat /\ x % n \in 0 .. n - 1
      /\ x = n * (x \div n) + (x % n)
  BY DivMod
<1>2. /\ y \in Nat /\ y \div n \in Nat /\ y % n \in 0 .. n - 1
      /\ y = n * (y \div n) + (y % n)
  <2>1. y \in Nat
    OBVIOUS
  <2> QED BY <2>1, DivMod
<1>3. k \in Int /\ n * k = n * (y \div n) - n * (x \div n) - n
  BY <1>1, <1>2, SMT
<1> HIDE DEF k
<1>4. n * k = (x % n) - (y % n)
  BY <1>1, <1>2, <1>3, SMT
<1>5. n * (-1) < n * k /\ n * k < n * 1
  BY <1>1, <1>2, <1>4, SMT
<1>6. -1 < k /\ k < 1
  BY <1>3, <1>5, Cancelled
<1>7. n * k = 0
  BY <1>3, <1>6, SMT
<1> QED BY <1>1, <1>2, <1>4, <1>7, SMT

\* A number that is d ahead of the current one, less than a cycle: its relative
\* window is the one of current + d on a line that does not wrap.
LEMMA RelativePosition ==
    ASSUME NEW current \in Nat, NEW d \in 0 .. SeqSpace - 1
    PROVE  LET c == current % SeqSpace
               w == RelativeWindow((current + d) % SeqSpace, c)
           IN  /\ c \in Nat /\ Window(c) \in Nat /\ w \in Nat
               /\ WindowSize * Window(c) <= c
               /\ c < WindowSize * Window(c) + WindowSize
               /\ WindowSize * w <= c + d
               /\ c + d < WindowSize * w + WindowSize
<1> DEFINE c == current % SeqSpace
           s == (current + d) % SeqSpace
           w == RelativeWindow(s, c)
<1>1. c \in 0 .. SeqSpace - 1
  BY Geometry, DivMod
<1>2. s = (IF c + d < SeqSpace THEN c + d ELSE c + d - SeqSpace)
  BY Geometry, Wrapped
<1> HIDE DEF c, s
<1>3. s \in Nat
  BY <1>1, <1>2, Geometry, SMT
<1>4. /\ Window(c) \in Nat
      /\ WindowSize * Window(c) <= c /\ c < WindowSize * Window(c) + WindowSize
  <2>1. c \in Nat
    BY <1>1, Geometry
  <2> QED BY <2>1, Geometry, DivMod, SMT DEF Window
<1>5. /\ Window(s) \in Nat
      /\ WindowSize * Window(s) <= s /\ s < WindowSize * Window(s) + WindowSize
  BY <1>3, Geometry, DivMod, SMT DEF Window
<1>6. w = Window(s) + (IF s < c THEN Windows ELSE 0)
  BY DEF RelativeWindow
<1> HIDE DEF w
<1>7. c + d = s + (IF s < c THEN SeqSpace ELSE 0)
  BY <1>1, <1>2, Geometry, SMT
<1>8. WindowSize * w = WindowSize * Window(s) + (IF s < c THEN SeqSpace ELSE 0)
  <2>1. WindowSize * (Window(s) + Windows) = WindowSize * Window(s) + SeqSpace
    BY <1>5, Geometry, SMT DEF SeqSpace
  <2> QED BY <1>5, <1>6, <2>1, Geometry, SMT
<1>9. w \in Nat
  BY <1>5, <1>6, Geometry, SMT
<1>10. /\ WindowSize * w <= c + d
       /\ c + d < WindowSize * w + WindowSize
  BY <1>1, <1>3, <1>5, <1>7, <1>8, Geometry, SMT
<1> QED BY <1>1, <1>4, <1>9, <1>10, Geometry DEF c, s, w

-----------------------------------------------------------------------------
(* What enet_peer_queue_incoming_command accepts *)

\* A command is accepted only less than FreeWindows - 1 windows ahead of the
\* last one dispatched, and always within one window less.
THEOREM AcceptedReach ==
    ASSUME NEW current \in Nat, NEW d \in 0 .. SeqSpace - 1
    PROVE  /\ InWindow((current + d) % SeqSpace, current % SeqSpace)
                  => d < WindowSize * (FreeWindows - 1)
           /\ d <= WindowSize * (FreeWindows - 2)
                  => InWindow((current + d) % SeqSpace, current % SeqSpace)
<1> DEFINE c == current % SeqSpace
           w == RelativeWindow((current + d) % SeqSpace, c)
           v == Window(c)
<1>1. /\ c \in Nat /\ v \in Nat /\ w \in Nat
      /\ WindowSize * v <= c /\ c < WindowSize * v + WindowSize
      /\ WindowSize * w <= c + d /\ c + d < WindowSize * w + WindowSize
  BY RelativePosition
<1>2. InWindow((current + d) % SeqSpace, c) <=> v <= w /\ w <= v + FreeWindows - 2
  <2>1. InWindow((current + d) % SeqSpace, c) <=> w \in v .. v + FreeWindows - 2
    BY DEF InWindow
  <2> HIDE DEF w, v
  <2> QED BY <1>1, <2>1, Geometry, SMT
<1> HIDE DEF c, w, v
<1>3. d \in Nat /\ FreeWindows - 1 \in Int /\ FreeWindows - 2 \in Int
  BY Geometry
<1>4. ASSUME w <= v + FreeWindows - 2
      PROVE  d < WindowSize * (FreeWindows - 1)
  <2>1. WindowSize * w <= WindowSize * (v + FreeWindows - 2)
    BY <1>1, <1>4, Geometry, Monotone
  <2>2. WindowSize * (v + FreeWindows - 2) + WindowSize
            = WindowSize * v + WindowSize * (FreeWindows - 1)
    BY <1>1, Geometry, SMT
  <2> QED BY <1>1, <1>3, <2>1, <2>2, Geometry, SMT
<1>5. ASSUME d <= WindowSize * (FreeWindows - 2)
      PROVE  v <= w /\ w <= v + FreeWindows - 2
  <2>1. WindowSize * (v + FreeWindows - 1)
            = WindowSize * v + WindowSize * (FreeWindows - 2) + WindowSize
    BY <1>1, Geometry, SMT
  <2>2. WindowSize * w < WindowSize * (v + FreeWindows - 1)
    BY <1>1, <1>3, <1>5, <2>1, Geometry, SMT
  <2>3. WindowSize * (w + 1) = WindowSize * w + WindowSize
    BY <1>1, Geometry, SMT
  <2>4. WindowSize * v < WindowSize * (w + 1)
    BY <1>1, <1>3, <2>3, Geometry, SMT
  <2>5. w < v + FreeWindows - 1
    BY <1>1, <2>2, Geometry, Cancelled
  <2>6. v < w + 1
    BY <1>1, <2>4, Geometry, Cancelled
  <2> QED BY <1>1, <2>5, <2>6, Geometry, SMT
<1> QED BY <1>2, <1>4, <1>5 DEF c

\* A command behind the last one dispatched is never taken for a new one, if it
\* is at most Windows - FreeWindows + 1 windows late: what the models assume of
\* the life of a datagram.
THEOREM StaleRefused ==
    ASSUME NEW current \in Nat, NEW x \in Nat, x < current,
           current - x <= WindowSize * (Windows - FreeWindows + 1)
    PROVE  ~ InWindow(x % SeqSpace, current % SeqSpace)
<1> DEFINE late == current - x
           d    == SeqSpace - late
<1>1. late \in Nat \ {0} /\ x + late = current
  OBVIOUS
<1>2. WindowSize * (Windows - FreeWindows + 1) = SeqSpace - WindowSize * (FreeWindows - 1)
  BY Geometry, SMT DEF SeqSpace
<1>3. WindowSize * (FreeWindows - 1) >= WindowSize * 1
  BY Geometry, Monotone, GeometryAssumption, SMT
<1>4. d \in 0 .. SeqSpace - 1 /\ d >= WindowSize * (FreeWindows - 1)
  BY <1>1, <1>2, <1>3, Geometry, SMT
<1>5. (current + d) % SeqSpace = x % SeqSpace
  <2>1. current + d = x + SeqSpace
    BY <1>1, Geometry
  <2>2. (x + SeqSpace) % SeqSpace = x % SeqSpace
    BY Geometry, Cycle
  <2> QED BY <2>1, <2>2
<1> HIDE DEF d
<1>6. InWindow((current + d) % SeqSpace, current % SeqSpace) => d < WindowSize * (FreeWindows - 1)
  BY <1>4, AcceptedReach
<1> QED BY <1>4, <1>5, <1>6, Geometry, SMT

-----------------------------------------------------------------------------
(* The order of a list of commands that wait *)

\* The scan of a list compares numbers that wrapped as if they had not, if all
\* of them are less than a cycle ahead of the last one dispatched.
THEOREM OrderRestored ==
    ASSUME NEW current \in Nat,
           NEW waiting \in current .. current + SeqSpace - 1,
           NEW x \in current .. current + SeqSpace - 1
    PROVE  NotAfter(waiting % SeqSpace, x % SeqSpace, current % SeqSpace) <=> waiting <= x
<1> DEFINE c == current % SeqSpace
           d == x - current
           e == waiting - current
<1>1. c \in 0 .. SeqSpace - 1
  BY Geometry, DivMod
<1>2. /\ d \in 0 .. SeqSpace - 1 /\ e \in 0 .. SeqSpace - 1
      /\ x = current + d /\ waiting = current + e
  BY Geometry, SMT
<1>3. (current + d) % SeqSpace = IF c + d < SeqSpace THEN c + d ELSE c + d - SeqSpace
  <2> HIDE DEF d
  <2> QED BY <1>2, Geometry, Wrapped
<1>4. (current + e) % SeqSpace = IF c + e < SeqSpace THEN c + e ELSE c + e - SeqSpace
  <2> HIDE DEF e
  <2> QED BY <1>2, Geometry, Wrapped
<1>5. waiting <= x <=> e <= d
  BY Geometry, SMT
<1> HIDE DEF c, d, e
<1>6. NotAfter((current + e) % SeqSpace, (current + d) % SeqSpace, c) <=> e <= d
  BY <1>1, <1>2, <1>3, <1>4, Geometry, SMT DEF NotAfter
<1> QED BY <1>2, <1>5, <1>6 DEF c

-----------------------------------------------------------------------------
(* Windows of numbers that do not wrap *)

\* The assumptions on the windows.
LEMMA WindowBounds ==
    /\ Windows \in Nat \ {0} /\ WindowSize \in Nat \ {0} /\ FreeWindows \in Nat
    /\ FreeWindows >= 3 /\ FreeWindows + 2 <= Windows
    /\ SeqSpace \in Nat \ {0} /\ SeqSpace = WindowSize * Windows
<1>1. Windows * WindowSize = WindowSize * Windows
  BY GeometryAssumption, SMT
<1> QED BY <1>1, Geometry, GeometryAssumption DEF SeqSpace

\* A number lies in its window.
LEMMA WindowIs ==
    ASSUME NEW x \in Nat
    PROVE  /\ Window(x) \in Nat
           /\ WindowSize * Window(x) <= x /\ x < WindowSize * Window(x) + WindowSize
<1>1. /\ x \div WindowSize \in Nat /\ x % WindowSize \in 0 .. WindowSize - 1
      /\ x = WindowSize * (x \div WindowSize) + (x % WindowSize)
  BY WindowBounds, DivMod
<1>2. WindowSize * (x \div WindowSize) \in Int
  BY <1>1, WindowBounds, SMT
<1> QED BY <1>1, <1>2, WindowBounds DEF Window

\* It lies in no other.
LEMMA WindowOnly ==
    ASSUME NEW x \in Nat, NEW w \in Int, WindowSize * w <= x, x < WindowSize * w + WindowSize
    PROVE  Window(x) = w
<1> DEFINE v == Window(x)
<1>1. v \in Nat /\ WindowSize * v <= x /\ x < WindowSize * v + WindowSize
  BY WindowIs
<1> HIDE DEF v
<1>2. /\ WindowSize * (w + 1) = WindowSize * w + WindowSize
      /\ WindowSize * (v + 1) = WindowSize * v + WindowSize
      /\ WindowSize * w \in Int /\ WindowSize * v \in Int
  BY <1>1, WindowBounds, SMT
<1>3. WindowSize * v < WindowSize * (w + 1) /\ WindowSize * w < WindowSize * (v + 1)
  BY <1>1, <1>2, WindowBounds
<1>4. v < w + 1 /\ w < v + 1
  <2>1. v + 1 \in Int /\ w + 1 \in Int
    BY <1>1
  <2> QED BY <1>1, <1>3, <2>1, WindowBounds, Cancelled
<1> QED BY <1>1, <1>4 DEF v

\* Later numbers lie in later windows, and numbers some windows apart are as many
\* numbers apart at most.
LEMMA WindowOrder ==
    ASSUME NEW x \in Nat, NEW y \in Nat
    PROVE  /\ x <= y => Window(x) <= Window(y)
           /\ \A k \in Int : Window(y) <= Window(x) + k => y < x + WindowSize * (k + 1)
<1> DEFINE v == Window(x)
           w == Window(y)
<1>1. v \in Nat /\ WindowSize * v <= x /\ x < WindowSize * v + WindowSize
  BY WindowIs
<1>2. w \in Nat /\ WindowSize * w <= y /\ y < WindowSize * w + WindowSize
  BY WindowIs
<1> HIDE DEF v, w
<1>3. x <= y => v <= w
  <2>1. SUFFICES ASSUME x <= y PROVE v < w + 1
    BY <1>1, <1>2
  <2>2. WindowSize * (w + 1) = WindowSize * w + WindowSize /\ WindowSize * v \in Int
        /\ WindowSize * w \in Int
    BY <1>1, <1>2, WindowBounds, SMT
  <2>3. WindowSize * v < WindowSize * (w + 1)
    BY <1>1, <1>2, <2>1, <2>2, WindowBounds
  <2>4. w + 1 \in Int
    BY <1>2
  <2> QED BY <1>1, <2>3, <2>4, WindowBounds, Cancelled
<1>4. ASSUME NEW k \in Int, w <= v + k PROVE y < x + WindowSize * (k + 1)
  <2>1. WindowSize * (v + (k + 1)) = WindowSize * v + WindowSize * (k + 1)
    BY <1>1, WindowBounds, SMT
  <2>2. WindowSize * (w + 1) = WindowSize * w + WindowSize
    BY <1>2, WindowBounds, SMT
  <2>3. WindowSize * (w + 1) <= WindowSize * (v + (k + 1))
    <3>1. w + 1 \in Int /\ v + (k + 1) \in Int /\ w + 1 <= v + (k + 1)
      BY <1>1, <1>2, <1>4
    <3> QED BY <3>1, WindowBounds, Monotone
  <2>4. WindowSize * v \in Int /\ WindowSize * w \in Int /\ WindowSize * (k + 1) \in Int
    BY <1>1, <1>2, WindowBounds, SMT
  <2> QED BY <1>1, <1>2, <2>1, <2>2, <2>3, <2>4, WindowBounds
<1> QED BY <1>3, <1>4 DEF v, w

\* The window of the next number.
LEMMA NextWindow ==
    ASSUME NEW x \in Nat
    PROVE  /\ Window(x + 1) = IF (x + 1) % WindowSize = 0 THEN Window(x) + 1 ELSE Window(x)
           /\ (x + 1) % WindowSize = 0 =>
                 \A y \in Nat : x + 1 - WindowSize <= y /\ y <= x => Window(y) = Window(x)
<1> DEFINE v == Window(x)
           y == x + 1
           r == y % WindowSize
<1>1. v \in Nat /\ WindowSize * v <= x /\ x < WindowSize * v + WindowSize
  BY WindowIs
<1>2. /\ Window(y) \in Nat /\ r \in 0 .. WindowSize - 1 /\ y = WindowSize * Window(y) + r
  <2>1. y \in Nat
    OBVIOUS
  <2> HIDE DEF y
  <2> QED BY <2>1, WindowBounds, DivMod DEF Window
<1> DEFINE w == Window(y)
<1> HIDE DEF v, r, w
<1>3. /\ WindowSize * v \in Int /\ WindowSize * w \in Int /\ WindowSize * (v + 1) = WindowSize * v + WindowSize
      /\ WindowSize * (w - 1) = WindowSize * w - WindowSize
  BY <1>1, <1>2, WindowBounds, SMT DEF w
<1>4. CASE r = 0
  <2>1. x = WindowSize * w - 1
    BY <1>2, <1>3, <1>4 DEF w
  <2>2. v = w - 1
    <3>1. WindowSize * (w - 1) <= x /\ x < WindowSize * (w - 1) + WindowSize /\ w - 1 \in Int
      BY <1>2, <1>3, <2>1, WindowBounds DEF w
    <3> QED BY <3>1, WindowOnly DEF v
  <2>3. ASSUME NEW z \in Nat, y - WindowSize <= z, z <= x PROVE Window(z) = v
    <3>1. WindowSize * v <= z /\ z < WindowSize * v + WindowSize
      BY <1>1, <1>3, <2>1, <2>2, <2>3, WindowBounds
    <3> QED BY <1>1, <3>1, WindowOnly
  <2>4. w = v + 1
    BY <1>1, <1>2, <2>2 DEF w
  <2>5. (x + 1) % WindowSize = 0
    BY <1>4 DEF r
  <2>6. Window(x + 1) = Window(x) + 1
    BY <2>4 DEF v, w
  <2>7. \A z \in Nat : x + 1 - WindowSize <= z /\ z <= x => Window(z) = Window(x)
    <3> TAKE z \in Nat
    <3> HAVE x + 1 - WindowSize <= z /\ z <= x
    <3>1. y - WindowSize <= z /\ z <= x
      BY WindowBounds
    <3>2. Window(z) = v
      BY <2>3, <3>1
    <3> QED BY <3>2 DEF v
  <2> QED BY <2>5, <2>6, <2>7, Zenon
<1>5. CASE r # 0
  <2>1. y <= WindowSize * v + WindowSize
    BY <1>1, <1>3, WindowBounds
  <2>2. CASE y < WindowSize * v + WindowSize
    <3>1. WindowSize * v <= y
      BY <1>1, <1>3, WindowBounds
    <3>2. y \in Nat
      OBVIOUS
    <3> HIDE DEF y
    <3>3. Window(y) = v
      BY <1>1, <2>2, <3>1, <3>2, WindowOnly
    <3> QED BY <1>5, <3>3 DEF v, r, y
  <2>3. CASE y = WindowSize * v + WindowSize
    <3>1. WindowSize * w + r = WindowSize * (v + 1)
      BY <1>2, <1>3, <2>3 DEF w
    <3>2. w = v + 1
      <4>1. v + 1 \in Int /\ WindowSize * (v + 1) <= y /\ y < WindowSize * (v + 1) + WindowSize /\ y \in Nat
        BY <1>1, <1>3, <2>3, WindowBounds
      <4> HIDE DEF y
      <4> QED BY <4>1, WindowOnly DEF w
    <3>3. r = 0
      BY <1>2, <1>3, <3>1, <3>2 DEF w
    <3> QED BY <1>5, <3>3
  <2> QED BY <2>1, <2>2, <2>3, <1>3, WindowBounds
<1> QED BY <1>4, <1>5

\* Windows of numbers that are some cycles apart.
LEMMA WindowCycle ==
    ASSUME NEW x \in Nat, NEW k \in Nat
    PROVE  Window(x + SeqSpace * k) = Window(x) + Windows * k
<1> DEFINE v == Window(x)
           y == x + SeqSpace * k
           w == v + Windows * k
<1>1. v \in Nat /\ WindowSize * v <= x /\ x < WindowSize * v + WindowSize
  BY WindowIs
<1> HIDE DEF v
<1>2. SeqSpace * k = WindowSize * (Windows * k) /\ Windows * k \in Nat /\ SeqSpace * k \in Nat
  BY WindowBounds, SMT
<1>3. WindowSize * w = WindowSize * v + WindowSize * (Windows * k) /\ w \in Int
      /\ WindowSize * v \in Int
  BY <1>1, <1>2, WindowBounds, SMT
<1>4. y \in Nat /\ WindowSize * w <= y /\ y < WindowSize * w + WindowSize
  BY <1>1, <1>2, <1>3, WindowBounds
<1> HIDE DEF y, w
<1>5. Window(y) = w
  BY <1>3, <1>4, WindowOnly
<1> QED BY <1>5 DEF y, w, v

\* A remainder within the divisor is the number, and equal remainders of numbers
\* less than the divisor apart are of equal numbers.
LEMMA SameRemainder ==
    ASSUME NEW n \in Nat \ {0}, NEW x \in Nat, NEW y \in Nat, x % n = y % n, x <= y, y < x + n
    PROVE  x = y
<1> DEFINE d == y - x
<1>1. d \in 0 .. n - 1 /\ y = x + d
  OBVIOUS
<1> HIDE DEF d
<1>2. (x + d) % n = IF (x % n) + d < n THEN (x % n) + d ELSE (x % n) + d - n
  BY <1>1, Wrapped
<1>3. x % n \in 0 .. n - 1
  BY DivMod
<1> QED BY <1>1, <1>2, <1>3, SMT

\* The window a number has on the wire.
LEMMA WireWindow ==
    ASSUME NEW x \in Nat
    PROVE  /\ x % SeqSpace \in 0 .. SeqSpace - 1
           /\ Window(x % SeqSpace) \in 0 .. Windows - 1
           /\ Window(x % SeqSpace) = Window(x) % Windows
           /\ (x % SeqSpace) % WindowSize = x % WindowSize
<1> DEFINE c == x % SeqSpace
           k == x \div SeqSpace
<1>1. c \in 0 .. SeqSpace - 1 /\ k \in Nat /\ x = SeqSpace * k + c
  BY WindowBounds, DivMod
<1> HIDE DEF c, k
<1>2. Window(x) = Window(c) + Windows * k
  <2>1. c \in Nat /\ x = c + SeqSpace * k
    <3>1. SeqSpace * k \in Int
      BY <1>1, WindowBounds, SMT
    <3> QED BY <1>1, <3>1
  <2> QED BY <1>1, <2>1, WindowCycle
<1>3. Window(c) \in 0 .. Windows - 1
  <2>1. c \in Nat /\ Window(c) \in Nat /\ WindowSize * Window(c) <= c
    BY <1>1, WindowIs
  <2>2. WindowSize * Window(c) < WindowSize * Windows
    <3>1. WindowSize * Window(c) \in Int /\ WindowSize * Windows = SeqSpace
      BY <2>1, WindowBounds, SMT
    <3> QED BY <1>1, <2>1, <3>1, WindowBounds
  <2>3. Window(c) < Windows
    BY <2>1, <2>2, WindowBounds, Cancelled
  <2> QED BY <2>1, <2>3, WindowBounds
<1>4. (Window(c) + Windows * k) % Windows = Window(c)
  <2> DEFINE a == Window(c)
  <2> HIDE DEF a
  <2>0. a \in 0 .. Windows - 1
    BY <1>3 DEF a
  <2> DEFINE y == a + Windows * k
  <2>1. /\ Windows * k \in Int /\ y \in Nat
    BY <1>1, <2>0, WindowBounds, SMT
  <2>2. /\ y \div Windows \in Nat /\ y % Windows \in 0 .. Windows - 1
        /\ y = Windows * (y \div Windows) + (y % Windows)
    BY <2>1, WindowBounds, DivMod
  <2> DEFINE q == y \div Windows
             r == y % Windows
  <2>3. q \in Nat /\ r \in 0 .. Windows - 1 /\ a + Windows * k = Windows * q + r
    BY <2>2
  <2> HIDE DEF q, r, y
  <2>4. Windows * k < Windows * (q + 1) /\ Windows * q < Windows * (k + 1)
    <3>1. Windows * (q + 1) = Windows * q + Windows /\ Windows * (k + 1) = Windows * k + Windows
          /\ Windows * q \in Int
      BY <1>1, <2>3, WindowBounds, SMT
    <3> QED BY <2>0, <2>1, <2>3, <3>1, WindowBounds
  <2>5. k < q + 1 /\ q < k + 1
    <3>1. q + 1 \in Int /\ k + 1 \in Int /\ q \in Int /\ k \in Int
      BY <1>1, <2>3
    <3> QED BY <2>4, <3>1, WindowBounds, Cancelled
  <2>6. q = k
    BY <1>1, <2>3, <2>5
  <2>7. r = a
    BY <2>0, <2>1, <2>3, <2>6
  <2> QED BY <2>7 DEF r, y, a
<1>5. c % WindowSize = x % WindowSize
  <2>1. /\ x = WindowSize * Window(x) + (x % WindowSize) /\ x % WindowSize \in 0 .. WindowSize - 1
        /\ Window(x) \in Nat
    BY WindowBounds, DivMod DEF Window
  <2>2. c = WindowSize * Window(c) + (c % WindowSize) /\ c % WindowSize \in 0 .. WindowSize - 1
    <3>1. c \in Nat
      BY <1>1
    <3> QED BY <3>1, WindowBounds, DivMod DEF Window
  <2>3. WindowSize * (Window(c) + Windows * k) = WindowSize * Window(c) + SeqSpace * k
        /\ WindowSize * Window(c) \in Int /\ SeqSpace * k \in Int
    BY <1>1, <1>3, WindowBounds, SMT
  <2> DEFINE a == x % WindowSize
             b == c % WindowSize
  <2> HIDE DEF a, b
  <2>4. a \in Int /\ b \in Int /\ x = WindowSize * Window(x) + a /\ c = WindowSize * Window(c) + b
    BY <2>1, <2>2, WindowBounds DEF a, b
  <2>5. WindowSize * Window(x) = WindowSize * Window(c) + SeqSpace * k
    BY <1>2, <2>3
  <2>6. a = b
    BY <1>1, <2>3, <2>4, <2>5
  <2> QED BY <2>6 DEF a, b
<1> QED BY <1>1, <1>2, <1>3, <1>4, <1>5 DEF c

\* The relative window of a number less than a cycle ahead of the current one.
LEMMA WireAhead ==
    ASSUME NEW current \in Nat, NEW x \in Nat, current <= x, x < current + SeqSpace
    PROVE  RelativeWindow(x % SeqSpace, current % SeqSpace) - Window(current % SeqSpace)
              = Window(x) - Window(current)
<1> DEFINE d == x - current
           c == current % SeqSpace
           k == current \div SeqSpace
           w == RelativeWindow((current + d) % SeqSpace, c)
<1>1. d \in 0 .. SeqSpace - 1 /\ x = current + d
  BY WindowBounds
<1>2. c \in 0 .. SeqSpace - 1 /\ k \in Nat /\ current = SeqSpace * k + c
  BY WindowBounds, DivMod
<1> HIDE DEF d
<1>3. /\ Window(c) \in Nat /\ w \in Nat
      /\ WindowSize * w <= c + d /\ c + d < WindowSize * w + WindowSize
  BY <1>1, RelativePosition
<1> HIDE DEF c, k, w
<1>4. Window(c + d) = w /\ c + d \in Nat /\ c \in Nat
  <2>1. c + d \in Nat /\ w \in Int
    BY <1>1, <1>2, <1>3
  <2> QED BY <1>2, <1>3, <2>1, WindowOnly
<1>5. Window(current) = Window(c) + Windows * k /\ Window(x) = Window(c + d) + Windows * k
  <2>1. SeqSpace * k \in Int
    BY <1>2, WindowBounds, SMT
  <2>2. current = c + SeqSpace * k /\ x = (c + d) + SeqSpace * k
    BY <1>1, <1>2, <2>1
  <2> QED BY <1>2, <1>4, <2>2, WindowCycle
<1>6. Windows * k \in Int
  BY <1>2, WindowBounds, SMT
<1>7. w - Window(c) = Window(x) - Window(current)
  BY <1>3, <1>4, <1>5, <1>6
<1> QED BY <1>1, <1>7 DEF w, c

-----------------------------------------------------------------------------
(* Sets of numbers, lists and their elements *)

\* The least number of a set.
LEMMA MinIs ==
    ASSUME NEW S \in SUBSET Nat, S # {}
    PROVE  Min(S) \in S /\ \A x \in S : Min(S) <= x
<1>1. \E x \in S : \A y \in S : x <= y
  BY LeastNat
<1> QED BY <1>1 DEF Min

\* The greatest number of a set that is bounded.
LEMMA MaxIs ==
    ASSUME NEW n \in Nat, NEW S \in SUBSET (0 .. n), S # {}
    PROVE  Max(S) \in S /\ \A x \in S : x <= Max(S)
<1> DEFINE D == {n - x : x \in S}
<1>1. D \in SUBSET Nat /\ D # {}
  <2>1. \A x \in S : n - x \in Nat
    OBVIOUS
  <2> QED BY <2>1
<1>2. PICK d \in D : \A y \in D : d <= y
  BY <1>1, LeastNat
<1>3. PICK x \in S : d = n - x
  BY <1>2
<1>4. \A y \in S : x >= y
  <2> TAKE y \in S
  <2>1. d <= n - y
    BY <1>2
  <2> QED BY <1>3, <2>1
<1>5. \E z \in S : \A y \in S : z >= y
  BY <1>3, <1>4
<1>6. Max(S) \in S /\ \A y \in S : Max(S) >= y
  BY <1>5 DEF Max
<1>7. \A y \in S : y \in Int
  OBVIOUS
<1> QED BY <1>6, <1>7

\* A set is no smaller than one that is mapped into it one to one.
LEMMA MappedInto ==
    ASSUME NEW S, NEW T, IsFiniteSet(T), NEW f \in [S -> T],
           \A x, y \in S : f[x] = f[y] => x = y
    PROVE  IsFiniteSet(S) /\ Cardinality(S) <= Cardinality(T)
<1>1. f \in Injection(S, T)
  BY Fun_IsInj
<1> QED BY <1>1, FS_Injection

\* Sets mapped onto each other one to one have the same size.
LEMMA SameSize ==
    ASSUME NEW S, NEW T, IsFiniteSet(S), NEW f \in [S -> T],
           \A x, y \in S : f[x] = f[y] => x = y,
           \A y \in T : \E x \in S : f[x] = y
    PROVE  IsFiniteSet(T) /\ Cardinality(S) = Cardinality(T)
<1>1. f \in Bijection(S, T)
  BY DEF Bijection, Injection, Surjection, IsInjective
<1> QED BY <1>1, FS_Bijection DEF ExistsBijection

\* The elements of a list.
LEMMA RangeIs ==
    ASSUME NEW D, NEW s \in Seq(D)
    PROVE  /\ Len(s) \in Nat /\ DOMAIN s = 1 .. Len(s)
           /\ \A x : x \in Range(s) <=> \E i \in 1 .. Len(s) : s[i] = x
           /\ \A i \in 1 .. Len(s) : s[i] \in D /\ s[i] \in Range(s)
           /\ IsFiniteSet(Range(s))
<1>1. Len(s) \in Nat /\ DOMAIN s = 1 .. Len(s) /\ \A i \in 1 .. Len(s) : s[i] \in D
  OBVIOUS
<1>2. \A x : x \in Range(s) <=> \E i \in 1 .. Len(s) : s[i] = x
  BY <1>1 DEF Range
<1>3. IsFiniteSet(Range(s))
  <2>1. IsFiniteSet(1 .. Len(s))
    BY <1>1, FS_Interval
  <2>2. s \in [1 .. Len(s) -> Range(s)]
    BY <1>1, <1>2
  <2>3. s \in Surjection(1 .. Len(s), Range(s))
    BY <1>2, <2>2, Fun_IsSurj
  <2> QED BY <2>1, <2>3, FS_Surjection
<1> QED BY <1>1, <1>2, <1>3

\* The elements of two lists put together.
LEMMA ConcatIs ==
    ASSUME NEW D, NEW s \in Seq(D), NEW t \in Seq(D)
    PROVE  /\ s \o t \in Seq(D) /\ Len(s \o t) = Len(s) + Len(t)
           /\ \A i \in 1 .. Len(s) : (s \o t)[i] = s[i]
           /\ \A i \in 1 .. Len(t) : (s \o t)[Len(s) + i] = t[i]
           /\ \A i \in 1 .. Len(s \o t) : i \in 1 .. Len(s) \/ i - Len(s) \in 1 .. Len(t)
           /\ \A i \in 1 .. Len(s \o t) : i \notin 1 .. Len(s) => (s \o t)[i] = t[i - Len(s)]
BY SMT

\* A list without its element number i.
LEMMA RemovedIs ==
    ASSUME NEW D, NEW s \in Seq(D), NEW i \in 1 .. Len(s)
    PROVE  /\ RemoveAt(s, i) \in Seq(D) /\ Len(RemoveAt(s, i)) = Len(s) - 1
           /\ \A j \in 1 .. Len(s) - 1 : RemoveAt(s, i)[j] = s[IF j < i THEN j ELSE j + 1]
<1> DEFINE l == SubSeq(s, 1, i - 1)
           r == SubSeq(s, i + 1, Len(s))
<1>1. l \in Seq(D) /\ Len(l) = i - 1 /\ \A j \in 1 .. i - 1 : l[j] = s[j]
  BY SMT
<1>2. r \in Seq(D) /\ Len(r) = Len(s) - i /\ \A j \in 1 .. Len(s) - i : r[j] = s[i + j]
  BY SMT
<1>3. RemoveAt(s, i) = l \o r
  BY DEF RemoveAt
<1> HIDE DEF l, r
<1>4. l \o r \in Seq(D) /\ Len(l \o r) = Len(s) - 1
  <2>1. l \o r \in Seq(D) /\ Len(l \o r) = Len(l) + Len(r)
    BY <1>1, <1>2, ConcatIs
  <2> QED BY <1>1, <1>2, <2>1
<1>5. ASSUME NEW j \in 1 .. Len(s) - 1 PROVE (l \o r)[j] = s[IF j < i THEN j ELSE j + 1]
  <2>1. CASE j < i
    <3>1. j \in 1 .. Len(l)
      BY <1>1, <2>1
    <3>2. (l \o r)[j] = l[j]
      BY <1>1, <1>2, <3>1, ConcatIs
    <3> QED BY <1>1, <2>1, <3>1, <3>2
  <2>2. CASE ~ (j < i)
    <3>1. j \in 1 .. Len(l \o r) /\ j \notin 1 .. Len(l)
      BY <1>1, <1>4, <2>2
    <3>2. (l \o r)[j] = r[j - Len(l)]
      BY <1>1, <1>2, <3>1, ConcatIs
    <3>3. j - Len(l) \in 1 .. Len(s) - i /\ i + (j - Len(l)) = j + 1
      BY <1>1, <2>2
    <3>4. r[j - Len(l)] = s[i + (j - Len(l))]
      BY <1>2, <3>3
    <3> QED BY <2>2, <3>2, <3>3, <3>4
  <2> QED BY <2>1, <2>2
<1> QED BY <1>3, <1>4, <1>5

\* A list with an element more, number i.
LEMMA InsertedIs ==
    ASSUME NEW D, NEW s \in Seq(D), NEW i \in 1 .. Len(s) + 1, NEW x \in D
    PROVE  /\ InsertAt(s, i, x) \in Seq(D) /\ Len(InsertAt(s, i, x)) = Len(s) + 1
           /\ \A j \in 1 .. Len(s) + 1 :
                 InsertAt(s, i, x)[j] = IF j < i THEN s[j] ELSE IF j = i THEN x ELSE s[j - 1]
<1> DEFINE l == SubSeq(s, 1, i - 1)
           r == SubSeq(s, i, Len(s))
           m == l \o <<x>>
<1>1. l \in Seq(D) /\ Len(l) = i - 1 /\ \A j \in 1 .. i - 1 : l[j] = s[j]
  BY SMT
<1>2. r \in Seq(D) /\ Len(r) = Len(s) - i + 1 /\ \A j \in 1 .. Len(s) - i + 1 : r[j] = s[i - 1 + j]
  BY SMT
<1>3. InsertAt(s, i, x) = m \o r
  BY DEF InsertAt
<1> HIDE DEF l, r
<1>4. m \in Seq(D) /\ Len(m) = i /\ m[i] = x /\ \A j \in 1 .. i - 1 : m[j] = s[j]
  BY <1>1, SMT
<1> HIDE DEF m
<1>5. m \o r \in Seq(D) /\ Len(m \o r) = Len(s) + 1
  <2>1. m \o r \in Seq(D) /\ Len(m \o r) = Len(m) + Len(r)
    BY <1>2, <1>4, ConcatIs
  <2> QED BY <1>2, <1>4, <2>1
<1>6. ASSUME NEW j \in 1 .. Len(s) + 1
      PROVE  (m \o r)[j] = IF j < i THEN s[j] ELSE IF j = i THEN x ELSE s[j - 1]
  <2>1. CASE j <= i
    <3>1. j \in 1 .. Len(m)
      BY <1>4, <2>1
    <3>2. (m \o r)[j] = m[j]
      BY <1>2, <1>4, <3>1, ConcatIs
    <3> QED BY <1>4, <2>1, <3>2
  <2>2. CASE ~ (j <= i)
    <3>1. j \in 1 .. Len(m \o r) /\ j \notin 1 .. Len(m)
      BY <1>4, <1>5, <2>2
    <3>2. (m \o r)[j] = r[j - Len(m)]
      BY <1>2, <1>4, <3>1, ConcatIs
    <3>3. j - Len(m) \in 1 .. Len(s) - i + 1 /\ i - 1 + (j - Len(m)) = j - 1
      BY <1>4, <2>2
    <3>4. r[j - Len(m)] = s[i - 1 + (j - Len(m))]
      BY <1>2, <3>3
    <3> QED BY <2>2, <3>2, <3>3, <3>4
  <2> QED BY <2>1, <2>2
<1> QED BY <1>3, <1>5, <1>6

\* What is kept of a list without repetitions: its elements that belong to T, in
\* their order.
LEMMA KeptIs ==
    ASSUME NEW D, NEW s \in Seq(D), NEW T
    PROVE  /\ Kept(s, T) \in Seq(D)
           /\ \E e \in [1 .. Len(Kept(s, T)) -> 1 .. Len(s)] :
                 /\ \A k \in 1 .. Len(Kept(s, T)) : Kept(s, T)[k] = s[e[k]] /\ s[e[k]] \in T
                 /\ \A k, l \in 1 .. Len(Kept(s, T)) : k < l => e[k] < e[l]
                 /\ \A j \in 1 .. Len(s) : s[j] \in T => \E k \in 1 .. Len(Kept(s, T)) : e[k] = j
<1> DEFINE C == {i \in DOMAIN s : s[i] \in T}
           t == Kept(s, T)
<1>1. t = Chosen(s, C)
  BY DEF Kept
<1> HIDE DEF C, t
<1>2. t \in Seq(D) /\ \E e : Embeds(e, t, s, Len(s), C)
  BY <1>1, ChosenEmbeds
<1>3. PICK e : Embeds(e, t, s, Len(s), C)
  BY <1>2
<1>4. e \in [1 .. Len(t) -> 1 .. Len(s)]
  BY <1>3 DEF Embeds
<1>5. \A k \in 1 .. Len(t) : t[k] = s[e[k]] /\ s[e[k]] \in T
  BY <1>3 DEF Embeds, C
<1>6. \A k, l \in 1 .. Len(t) : k < l => e[k] < e[l]
  BY <1>3 DEF Embeds
<1>7. \A j \in 1 .. Len(s) : s[j] \in T => \E k \in 1 .. Len(t) : e[k] = j
  <2>1. DOMAIN s = 1 .. Len(s)
    OBVIOUS
  <2> QED BY <1>3, <2>1 DEF Embeds, C
<1> QED BY <1>2, <1>4, <1>5, <1>6, <1>7 DEF t

-----------------------------------------------------------------------------
(* The lists of the sending peer *)

\* The same command, whether it was sent or not.
Same(m, k) == m.ch = k.ch /\ m.abs = k.abs

\* s is a list of commands in flight and q one of commands to be sent: no command
\* is in them twice, and those that were sent are in front of those that were not.
Listed(s, q) ==
    /\ s \in Seq(Commands) /\ q \in Seq(Commands)
    /\ \A i \in 1 .. Len(s) : s[i].attempted
    /\ \A i, j \in 1 .. Len(q) : i < j /\ q[j].attempted => q[i].attempted
    /\ \A i, j \in 1 .. Len(s) : Same(s[i], s[j]) => i = j
    /\ \A i, j \in 1 .. Len(q) : Same(q[i], q[j]) => i = j
    /\ \A i \in 1 .. Len(s), j \in 1 .. Len(q) : ~ Same(s[i], q[j])

\* The commands of the lists that were sent.
Out(s, q) == {m \in Range(s) \cup Range(q) : m.attempted}

InWindowOf(O, c, w) == {m \in O : m.ch = c /\ Window(Seq16(m)) = w}

\* The windows count them.
Counted(O, windows) ==
    \A c \in Channels, w \in 0 .. Windows - 1 :
        windows[c][w] = Cardinality(InWindowOf(O, c, w))

\* A command of a list is at one place of it.
LEMMA ListSize ==
    ASSUME NEW s \in Seq(Commands), \A i, j \in 1 .. Len(s) : Same(s[i], s[j]) => i = j
    PROVE  IsFiniteSet(Range(s)) /\ Cardinality(Range(s)) = Len(s)
<1> DEFINE n == Len(s)
           R == Range(s)
<1>1. n \in Nat /\ \A i \in 1 .. n : s[i] \in R
  BY RangeIs
<1>2. \A y \in R : \E i \in 1 .. n : s[i] = y
  BY RangeIs
<1>3. s \in [1 .. n -> R]
  <2>1. s \in [1 .. n -> Commands]
    OBVIOUS
  <2> QED BY <1>1, <2>1
<1>4. \A i, j \in 1 .. n : s[i] = s[j] => i = j
  BY DEF Same
<1> HIDE DEF n, R
<1>5. IsFiniteSet(1 .. n) /\ Cardinality(1 .. n) = n
  <2>1. IsFiniteSet(1 .. n) /\ Cardinality(1 .. n) = IF 1 > n THEN 0 ELSE n - 1 + 1
    BY <1>1, FS_Interval
  <2> QED BY <1>1, <2>1
<1>6. IsFiniteSet(R) /\ Cardinality(1 .. n) = Cardinality(R)
  BY <1>2, <1>3, <1>4, <1>5, SameSize
<1> QED BY <1>5, <1>6 DEF n, R

\* t is what is taken of s by T.
Taken(t, s, q, T) ==
    /\ t \in Seq(Commands) /\ Range(t) = Range(s) \cap T
    /\ \A i \in 1 .. Len(t) : t[i].attempted
    /\ \A i, j \in 1 .. Len(t) : Same(t[i], t[j]) => i = j
    /\ \A i \in 1 .. Len(t) : \E j \in 1 .. Len(s) : t[i] = s[j] /\ s[j] \in T
    /\ \A i \in 1 .. Len(t), j \in 1 .. Len(q) : ~ Same(t[i], q[j])

\* The commands that timed out, and those that did not.
LEMMA KeptCommands ==
    ASSUME NEW s, NEW q, Listed(s, q), NEW T,
           NEW t, t = Kept(s, T)
    PROVE  Taken(t, s, q, T)
<1>1. s \in Seq(Commands) /\ t \in Seq(Commands)
  BY KeptIs DEF Listed
<1>2. PICK e \in [1 .. Len(t) -> 1 .. Len(s)] :
         /\ \A k \in 1 .. Len(t) : t[k] = s[e[k]] /\ s[e[k]] \in T
         /\ \A k, l \in 1 .. Len(t) : k < l => e[k] < e[l]
         /\ \A j \in 1 .. Len(s) : s[j] \in T => \E k \in 1 .. Len(t) : e[k] = j
  BY <1>1, KeptIs
<1>3. \A i, j \in 1 .. Len(t) : e[i] = e[j] => i = j
  <2> TAKE i, j \in 1 .. Len(t)
  <2>1. i \in Int /\ j \in Int /\ e[i] \in Int /\ e[j] \in Int
    BY <1>1
  <2>2. (i < j => e[i] < e[j]) /\ (j < i => e[j] < e[i])
    BY <1>2
  <2> QED BY <2>1, <2>2
<1>4. \A i \in 1 .. Len(t) : t[i].attempted
  BY <1>2 DEF Listed
<1>5. \A i, j \in 1 .. Len(t) : Same(t[i], t[j]) => i = j
  <2> TAKE i, j \in 1 .. Len(t)
  <2> HAVE Same(t[i], t[j])
  <2>1. e[i] \in 1 .. Len(s) /\ e[j] \in 1 .. Len(s) /\ Same(s[e[i]], s[e[j]])
    BY <1>2
  <2>2. e[i] = e[j]
    BY <2>1 DEF Listed
  <2> QED BY <1>3, <2>2
<1>6. \A i \in 1 .. Len(t) : \E j \in 1 .. Len(s) : t[i] = s[j] /\ s[j] \in T
  BY <1>2
<1>7. \A i \in 1 .. Len(t), j \in 1 .. Len(q) : ~ Same(t[i], q[j])
  BY <1>6 DEF Listed
<1>8. \A x : x \in Range(t) <=> x \in Range(s) \cap T
  <2> TAKE x
  <2>1. x \in Range(t) <=> \E i \in 1 .. Len(t) : t[i] = x
    BY <1>1, RangeIs
  <2>2. x \in Range(s) <=> \E i \in 1 .. Len(s) : s[i] = x
    BY <1>1, RangeIs
  <2>3. ASSUME x \in Range(s), x \in T PROVE \E i \in 1 .. Len(t) : t[i] = x
    <3>1. PICK i \in 1 .. Len(s) : s[i] = x
      BY <2>2, <2>3
    <3>2. PICK k \in 1 .. Len(t) : e[k] = i
      BY <1>2, <2>3, <3>1
    <3> QED BY <1>2, <3>1, <3>2
  <2> QED BY <1>6, <2>1, <2>2, <2>3
<1> QED BY <1>1, <1>4, <1>5, <1>6, <1>7, <1>8 DEF Taken

\* The lists after a timeout of the commands T of the sent list s: t are those, r the others.
Requeues(s, q, T, t, r) ==
    /\ Listed(r, t \o q)
    /\ Range(r) \cup Range(t \o q) = Range(s) \cup Range(q)
    /\ Len(r) = Len(s) - Cardinality(T)
    /\ Len(s) \in Nat /\ Len(r) \in Nat /\ Cardinality(T) \in Nat

\* Commands that timed out go back in front of those to be sent; none is lost.
LEMMA RequeuedLists ==
    ASSUME NEW s, NEW q, Listed(s, q), NEW T \in SUBSET Range(s),
           NEW t, t = Kept(s, T), NEW r, r = Kept(s, Range(s) \ T)
    PROVE  Requeues(s, q, T, t, r)
<1> DEFINE p == t \o q
           U == Range(s) \ T
<1>0. s \in Seq(Commands) /\ q \in Seq(Commands)
  BY DEF Listed
<1>a. Taken(t, s, q, T) /\ Taken(r, s, q, U)
  BY KeptCommands, Zenon
<1> HIDE DEF U
<1>1. /\ t \in Seq(Commands) /\ Range(t) = Range(s) \cap T
      /\ \A i \in 1 .. Len(t) : t[i].attempted
      /\ \A i, j \in 1 .. Len(t) : Same(t[i], t[j]) => i = j
      /\ \A i \in 1 .. Len(t) : \E j \in 1 .. Len(s) : t[i] = s[j] /\ s[j] \in T
      /\ \A i \in 1 .. Len(t), j \in 1 .. Len(q) : ~ Same(t[i], q[j])
  BY <1>a DEF Taken
<1>2. /\ r \in Seq(Commands) /\ Range(r) = Range(s) \cap U
      /\ \A i \in 1 .. Len(r) : r[i].attempted
      /\ \A i, j \in 1 .. Len(r) : Same(r[i], r[j]) => i = j
      /\ \A i \in 1 .. Len(r) : \E j \in 1 .. Len(s) : r[i] = s[j] /\ s[j] \in U
      /\ \A i \in 1 .. Len(r), j \in 1 .. Len(q) : ~ Same(r[i], q[j])
  BY <1>a DEF Taken
<1>3. /\ p \in Seq(Commands) /\ Len(p) = Len(t) + Len(q)
      /\ \A i \in 1 .. Len(t) : p[i] = t[i]
      /\ \A i \in 1 .. Len(q) : p[Len(t) + i] = q[i]
      /\ \A i \in 1 .. Len(p) : i \in 1 .. Len(t) \/ i - Len(t) \in 1 .. Len(q)
      /\ \A i \in 1 .. Len(p) : i \notin 1 .. Len(t) => p[i] = q[i - Len(t)]
  BY <1>0, <1>1, ConcatIs
<1>4. Len(t) \in Nat /\ Len(q) \in Nat /\ Len(p) \in Nat /\ Len(s) \in Nat /\ Len(r) \in Nat
  BY <1>0, <1>1, <1>2, <1>3
<1> HIDE DEF p
<1>5. \A i, j \in 1 .. Len(p) : i < j /\ p[j].attempted => p[i].attempted
  <2> TAKE i, j \in 1 .. Len(p)
  <2> HAVE i < j /\ p[j].attempted
  <2>1. CASE i \in 1 .. Len(t)
    BY <1>1, <1>3, <2>1
  <2>2. CASE i \notin 1 .. Len(t)
    <3>1. j \notin 1 .. Len(t) /\ i - Len(t) < j - Len(t)
      BY <1>4, <2>2
    <3>2. /\ p[i] = q[i - Len(t)] /\ p[j] = q[j - Len(t)]
          /\ i - Len(t) \in 1 .. Len(q) /\ j - Len(t) \in 1 .. Len(q)
      BY <1>3, <2>2, <3>1
    <3> QED BY <3>1, <3>2 DEF Listed
  <2> QED BY <2>1, <2>2
<1>6. \A i, j \in 1 .. Len(p) : Same(p[i], p[j]) => i = j
  <2> TAKE i, j \in 1 .. Len(p)
  <2> HAVE Same(p[i], p[j])
  <2>1. CASE i \in 1 .. Len(t) /\ j \in 1 .. Len(t)
    BY <1>1, <1>3, <2>1
  <2>2. CASE i \in 1 .. Len(t) /\ j \notin 1 .. Len(t)
    <3>1. p[i] = t[i] /\ p[j] = q[j - Len(t)] /\ j - Len(t) \in 1 .. Len(q)
      BY <1>3, <2>2
    <3> QED BY <1>1, <2>2, <3>1
  <2>3. CASE i \notin 1 .. Len(t) /\ j \in 1 .. Len(t)
    <3>1. p[j] = t[j] /\ p[i] = q[i - Len(t)] /\ i - Len(t) \in 1 .. Len(q)
      BY <1>3, <2>3
    <3>2. Same(t[j], q[i - Len(t)])
      BY <3>1 DEF Same
    <3> QED BY <1>1, <2>3, <3>1, <3>2
  <2>4. CASE i \notin 1 .. Len(t) /\ j \notin 1 .. Len(t)
    <3>1. /\ p[i] = q[i - Len(t)] /\ p[j] = q[j - Len(t)]
          /\ i - Len(t) \in 1 .. Len(q) /\ j - Len(t) \in 1 .. Len(q)
      BY <1>3, <2>4
    <3>2. i - Len(t) = j - Len(t)
      BY <3>1 DEF Listed
    <3> QED BY <1>4, <3>2
  <2> QED BY <2>1, <2>2, <2>3, <2>4
<1>7. \A i \in 1 .. Len(r), j \in 1 .. Len(p) : ~ Same(r[i], p[j])
  <2> TAKE i \in 1 .. Len(r), j \in 1 .. Len(p)
  <2>1. CASE j \in 1 .. Len(t)
    <3>1. PICK k \in 1 .. Len(s) : r[i] = s[k] /\ s[k] \in U
      BY <1>2
    <3>2. PICK l \in 1 .. Len(s) : t[j] = s[l] /\ s[l] \in T
      BY <1>1, <2>1
    <3>3. Same(s[k], s[l]) => k = l
      BY DEF Listed
    <3>4. p[j] = t[j] /\ s[l] # s[k]
      BY <1>3, <2>1, <3>1, <3>2 DEF U
    <3>5. k # l
      BY <3>4
    <3> QED BY <3>1, <3>2, <3>3, <3>4, <3>5 DEF Same
  <2>2. CASE j \notin 1 .. Len(t)
    BY <1>2, <1>3, <2>2
  <2> QED BY <2>1, <2>2
<1>8. Listed(r, p)
  BY <1>2, <1>3, <1>5, <1>6, <1>7 DEF Listed
<1>9. \A x : x \in Range(p) <=> x \in Range(t) \/ x \in Range(q)
  <2> TAKE x
  <2>1. /\ x \in Range(p) <=> \E i \in 1 .. Len(p) : p[i] = x
        /\ x \in Range(t) <=> \E i \in 1 .. Len(t) : t[i] = x
        /\ x \in Range(q) <=> \E i \in 1 .. Len(q) : q[i] = x
    <3>1. \A l \in Seq(Commands) : x \in Range(l) <=> \E i \in 1 .. Len(l) : l[i] = x
      BY RangeIs
    <3> QED BY <1>0, <1>1, <1>3, <3>1
  <2>2. ASSUME NEW i \in 1 .. Len(q) PROVE Len(t) + i \in 1 .. Len(p)
    BY <1>3, <1>4
  <2>3. ASSUME NEW i \in 1 .. Len(t) PROVE i \in 1 .. Len(p)
    BY <1>3, <1>4
  <2>4. (\E i \in 1 .. Len(p) : p[i] = x) =>
           (\E i \in 1 .. Len(t) : t[i] = x) \/ (\E i \in 1 .. Len(q) : q[i] = x)
    BY <1>3
  <2>5. (\E i \in 1 .. Len(t) : t[i] = x) => \E i \in 1 .. Len(p) : p[i] = x
    BY <1>3, <2>3
  <2>6. (\E i \in 1 .. Len(q) : q[i] = x) => \E i \in 1 .. Len(p) : p[i] = x
    BY <1>3, <2>2
  <2> QED BY <2>1, <2>4, <2>5, <2>6
<1>10. Range(r) \cup Range(p) = Range(s) \cup Range(q)
  BY <1>1, <1>2, <1>9 DEF U
<1>11. Len(r) = Len(s) - Cardinality(T)
  <2>1. \A i, j \in 1 .. Len(s) : Same(s[i], s[j]) => i = j
    BY DEF Listed
  <2>2. IsFiniteSet(Range(s)) /\ Cardinality(Range(s)) = Len(s)
    BY <1>0, <2>1, ListSize
  <2>3. Cardinality(Range(r)) = Len(r) /\ IsFiniteSet(Range(r))
    BY <1>2, ListSize
  <2>4. IsFiniteSet(T) /\ Cardinality(T) \in Nat
    BY <2>2, FS_Subset, FS_CardinalityType
  <2>5. T \cap Range(r) = {} /\ T \cup Range(r) = Range(s)
    BY <1>2 DEF U
  <2>6. Cardinality(T \cup Range(r))
            = Cardinality(T) + Cardinality(Range(r)) - Cardinality(T \cap Range(r))
    BY <2>3, <2>4, FS_Union
  <2>7. Cardinality(T \cap Range(r)) = 0
    BY <2>5, FS_EmptySet
  <2>8. Len(s) = Cardinality(T) + Len(r) - 0
    BY <2>2, <2>3, <2>5, <2>6, <2>7, Zenon
  <2> QED BY <1>4, <2>4, <2>8
<1>12. Cardinality(T) \in Nat
  <2>1. IsFiniteSet(Range(s))
    BY <1>0, RangeIs
  <2> QED BY <2>1, FS_Subset, FS_CardinalityType
<1> QED BY <1>4, <1>8, <1>10, <1>11, <1>12 DEF p, Requeues

Joined(u, s, t, D) ==
    /\ u \in Seq(D) /\ Len(u) = Len(s) + Len(t)
    /\ \A i \in 1 .. Len(s) : u[i] = s[i]
    /\ \A i \in 1 .. Len(t) : u[Len(s) + i] = t[i]
    /\ \A i \in 1 .. Len(u) : i \in 1 .. Len(s) \/ i - Len(s) \in 1 .. Len(t)
    /\ \A i \in 1 .. Len(u) : i \notin 1 .. Len(s) => u[i] = t[i - Len(s)]

\* Two lists put together.
LEMMA JoinedIs ==
    ASSUME NEW D, NEW s \in Seq(D), NEW t \in Seq(D)
    PROVE  Joined(s \o t, s, t, D)
BY ConcatIs DEF Joined

\* The list of the first n commands of q, once they are sent.
SentNow(q, n) == [i \in 1 .. n |-> [q[i] EXCEPT !.attempted = TRUE]]

Sends(t, q, n) ==
    /\ t \in Seq(Commands) /\ Len(t) = n
    /\ \A i \in 1 .. n :
          /\ t[i] = [q[i] EXCEPT !.attempted = TRUE] /\ t[i] \in Commands
          /\ t[i].ch = q[i].ch /\ t[i].abs = q[i].abs /\ t[i].frag = q[i].frag
          /\ t[i].count = q[i].count /\ t[i].pkt = q[i].pkt /\ t[i].attempted
          /\ q[i].attempted => t[i] = q[i]

\* The rest of q.
Unsent(q, n) == SubSeq(q, n + 1, Len(q))

\* A command that is sent is the same command.
LEMMA NowSent ==
    ASSUME NEW q \in Seq(Commands), NEW n \in 0 .. Len(q)
    PROVE  Sends(SentNow(q, n), q, n)
<1> DEFINE t == SentNow(q, n)
<1>1. n \in Nat /\ Len(q) \in Nat /\ \A i \in 1 .. n : q[i] \in Commands
  BY RangeIs
<1>2. ASSUME NEW m \in Commands, NEW k, k = [m EXCEPT !.attempted = TRUE]
      PROVE  /\ k \in Commands /\ k.ch = m.ch /\ k.abs = m.abs /\ k.frag = m.frag
             /\ k.count = m.count /\ k.pkt = m.pkt /\ k.attempted
             /\ m.attempted => k = m
  BY <1>2 DEF Commands
<1>3. t = [i \in 1 .. n |-> [q[i] EXCEPT !.attempted = TRUE]]
  BY DEF SentNow
<1>4. \A i \in 1 .. n : t[i] = [q[i] EXCEPT !.attempted = TRUE]
  BY <1>3
<1> HIDE DEF t
<1>5. \A i \in 1 .. n : t[i] \in Commands
  BY <1>1, <1>2, <1>4, Zenon
<1>6. t \in Seq(Commands) /\ Len(t) = n
  BY <1>1, <1>3, <1>5
<1>7. ASSUME NEW i \in 1 .. n
      PROVE  /\ t[i] = [q[i] EXCEPT !.attempted = TRUE] /\ t[i] \in Commands
             /\ t[i].ch = q[i].ch /\ t[i].abs = q[i].abs /\ t[i].frag = q[i].frag
             /\ t[i].count = q[i].count /\ t[i].pkt = q[i].pkt /\ t[i].attempted
             /\ q[i].attempted => t[i] = q[i]
  <2>1. q[i] \in Commands /\ t[i] = [q[i] EXCEPT !.attempted = TRUE]
    BY <1>1, <1>4
  <2> DEFINE k == t[i]
             m == q[i]
  <2>2. m \in Commands /\ k = [m EXCEPT !.attempted = TRUE]
    BY <2>1
  <2> HIDE DEF k, m
  <2>3. /\ k \in Commands /\ k.ch = m.ch /\ k.abs = m.abs /\ k.frag = m.frag
        /\ k.count = m.count /\ k.pkt = m.pkt /\ k.attempted
        /\ m.attempted => k = m
    BY <1>2, <2>2
  <2> QED BY <2>2, <2>3 DEF k, m
<1> QED BY <1>6, <1>7, Zenon DEF t, Sends

\* The commands that are sent move to the list of those in flight.
LEMMA SentLists ==
    ASSUME NEW s, NEW q, Listed(s, q), NEW n \in 0 .. Len(q)
    PROVE  /\ Listed(s \o SentNow(q, n), Unsent(q, n))
           /\ Out(s \o SentNow(q, n), Unsent(q, n))
                 = Out(s, q) \cup {SentNow(q, n)[i] : i \in 1 .. n}
<1> DEFINE t == SentNow(q, n)
           u == s \o t
           r == Unsent(q, n)
<1>0. s \in Seq(Commands) /\ q \in Seq(Commands)
  BY DEF Listed
<1>a. Sends(t, q, n)
  BY <1>0, NowSent, Zenon
<1> HIDE DEF t
<1>1. /\ t \in Seq(Commands) /\ Len(t) = n
      /\ \A i \in 1 .. n : /\ t[i].ch = q[i].ch /\ t[i].abs = q[i].abs /\ t[i].attempted
                           /\ q[i].attempted => t[i] = q[i]
  BY <1>a DEF Sends
<1>b. /\ u \in Seq(Commands) /\ Len(u) = Len(s) + Len(t)
      /\ \A i \in 1 .. Len(s) : u[i] = s[i]
      /\ \A i \in 1 .. Len(t) : u[Len(s) + i] = t[i]
      /\ \A i \in 1 .. Len(u) : i \in 1 .. Len(s) \/ i - Len(s) \in 1 .. Len(t)
      /\ \A i \in 1 .. Len(u) : i \notin 1 .. Len(s) => u[i] = t[i - Len(s)]
  <2>1. t \in Seq(Commands)
    BY <1>1
  <2>2. Joined(u, s, t, Commands)
    BY <1>0, <2>1, JoinedIs, Zenon
  <2> HIDE DEF u
  <2> QED BY <2>2 DEF Joined
<1> HIDE DEF u
<1>2. /\ u \in Seq(Commands) /\ Len(u) = Len(s) + n
      /\ \A i \in 1 .. Len(s) : u[i] = s[i]
      /\ \A i \in 1 .. n : u[Len(s) + i] = t[i]
      /\ \A i \in 1 .. Len(u) : i \in 1 .. Len(s) \/ i - Len(s) \in 1 .. n
      /\ \A i \in 1 .. Len(u) : i \notin 1 .. Len(s) => u[i] = t[i - Len(s)]
  <2>1. Len(t) = n
    BY <1>1
  <2> QED BY <1>b, <2>1
<1>3. /\ r \in Seq(Commands) /\ Len(r) = Len(q) - n
      /\ \A i \in 1 .. Len(r) : r[i] = q[n + i] /\ n + i \in 1 .. Len(q)
  BY <1>0 DEF Unsent
<1>4. Len(s) \in Nat /\ Len(q) \in Nat /\ n \in Nat /\ n <= Len(q)
  BY <1>0
<1> HIDE DEF r
<1>5. /\ \A i, j \in 1 .. Len(q) : i < j /\ q[j].attempted => q[i].attempted
      /\ \A i, j \in 1 .. Len(s) : Same(s[i], s[j]) => i = j
      /\ \A i, j \in 1 .. Len(q) : Same(q[i], q[j]) => i = j
      /\ \A i \in 1 .. Len(s), j \in 1 .. Len(q) : ~ Same(s[i], q[j])
      /\ \A i \in 1 .. Len(s) : s[i].attempted
  BY DEF Listed
<1>6. \A i, j \in 1 .. Len(u) : Same(u[i], u[j]) => i = j
  <2> TAKE i, j \in 1 .. Len(u)
  <2> HAVE Same(u[i], u[j])
  <2>1. CASE i \in 1 .. Len(s) /\ j \in 1 .. Len(s)
    BY <1>2, <1>5, <2>1
  <2>2. ASSUME NEW k \in 1 .. Len(u), NEW l \in 1 .. Len(u), k \in 1 .. Len(s),
               l \notin 1 .. Len(s), Same(u[k], u[l]) \/ Same(u[l], u[k])
        PROVE  FALSE
    <3>1. u[k] = s[k] /\ u[l] = t[l - Len(s)] /\ l - Len(s) \in 1 .. n /\ l - Len(s) \in 1 .. Len(q)
      BY <1>2, <1>4, <2>2
    <3>2. Same(s[k], q[l - Len(s)])
      BY <1>1, <2>2, <3>1 DEF Same
    <3> QED BY <1>5, <2>2, <3>1, <3>2
  <2>3. CASE i \notin 1 .. Len(s) /\ j \notin 1 .. Len(s)
    <3>1. /\ u[i] = t[i - Len(s)] /\ i - Len(s) \in 1 .. n /\ i - Len(s) \in 1 .. Len(q)
          /\ u[j] = t[j - Len(s)] /\ j - Len(s) \in 1 .. n /\ j - Len(s) \in 1 .. Len(q)
      BY <1>2, <1>4, <2>3
    <3>2. Same(q[i - Len(s)], q[j - Len(s)])
      BY <1>1, <3>1 DEF Same
    <3>3. i - Len(s) = j - Len(s)
      BY <1>5, <3>1, <3>2
    <3>4. i \in Int /\ j \in Int
      BY <1>2, <1>4
    <3> QED BY <1>4, <3>3, <3>4
  <2> QED BY <2>1, <2>2, <2>3
<1>7. \A i, j \in 1 .. Len(r) : /\ Same(r[i], r[j]) => i = j
                                /\ i < j /\ r[j].attempted => r[i].attempted
  <2> TAKE i, j \in 1 .. Len(r)
  <2>1. r[i] = q[n + i] /\ r[j] = q[n + j] /\ n + i \in 1 .. Len(q) /\ n + j \in 1 .. Len(q)
    BY <1>3
  <2>2. i \in Int /\ j \in Int
    BY <1>3, <1>4
  <2>3. Same(r[i], r[j]) => n + i = n + j
    BY <1>5, <2>1
  <2>4. i < j => n + i < n + j
    BY <1>4, <2>2
  <2> QED BY <1>4, <1>5, <2>1, <2>2, <2>3, <2>4
<1>8. \A i \in 1 .. Len(u), j \in 1 .. Len(r) : ~ Same(u[i], r[j])
  <2> TAKE i \in 1 .. Len(u), j \in 1 .. Len(r)
  <2>1. r[j] = q[n + j] /\ n + j \in 1 .. Len(q)
    BY <1>3
  <2>2. CASE i \in 1 .. Len(s)
    BY <1>2, <1>5, <2>1, <2>2
  <2>3. CASE i \notin 1 .. Len(s)
    <3>1. u[i] = t[i - Len(s)] /\ i - Len(s) \in 1 .. n /\ i - Len(s) \in 1 .. Len(q)
      BY <1>2, <1>4, <2>3
    <3>2. ASSUME Same(u[i], r[j]) PROVE i - Len(s) = n + j
      <4>1. Same(q[i - Len(s)], q[n + j])
        BY <1>1, <2>1, <3>1, <3>2 DEF Same
      <4> QED BY <1>5, <2>1, <3>1, <4>1
    <3>3. i - Len(s) # n + j
      BY <1>3, <1>4, <3>1
    <3> QED BY <3>2, <3>3
  <2> QED BY <2>2, <2>3
<1>9. \A i \in 1 .. Len(u) : u[i].attempted
  BY <1>1, <1>2, <1>5
<1>10. Listed(u, r)
  BY <1>2, <1>3, <1>6, <1>7, <1>8, <1>9 DEF Listed
<1>11. ASSUME NEW x PROVE x \in Out(u, r) <=> x \in Out(s, q) \/ \E i \in 1 .. n : x = t[i]
  <2>1. \A l \in Seq(Commands) : x \in Range(l) <=> \E i \in 1 .. Len(l) : l[i] = x
    BY RangeIs
  <2>2. x \in Range(u) <=> x \in Range(s) \/ \E i \in 1 .. n : x = t[i]
    <3>1. ASSUME NEW i \in 1 .. n PROVE Len(s) + i \in 1 .. Len(u) /\ u[Len(s) + i] = t[i]
      BY <1>2, <1>4
    <3>2. ASSUME NEW i \in 1 .. Len(s) PROVE i \in 1 .. Len(u) /\ u[i] = s[i]
      BY <1>2, <1>4
    <3>3. (\E i \in 1 .. Len(u) : u[i] = x)
             => (\E i \in 1 .. Len(s) : s[i] = x) \/ \E i \in 1 .. n : x = t[i]
      BY <1>2
    <3> QED BY <1>0, <1>2, <2>1, <3>1, <3>2, <3>3
  <2>3. x \in Range(r) => x \in Range(q)
    BY <1>0, <1>3, <2>1
  <2>4. ASSUME x \in Range(q), x.attempted, x \notin Range(r) PROVE \E i \in 1 .. n : x = t[i]
    <3>1. PICK i \in 1 .. Len(q) : q[i] = x
      BY <1>0, <2>1, <2>4
    <3>2. CASE i \in 1 .. n
      BY <1>1, <2>4, <3>1, <3>2
    <3>3. CASE i \notin 1 .. n
      <4>1. i - n \in 1 .. Len(r) /\ n + (i - n) = i
        BY <1>3, <1>4, <3>3
      <4>2. r[i - n] = x
        BY <1>3, <3>1, <4>1
      <4> QED BY <1>3, <2>1, <2>4, <4>1, <4>2
    <3> QED BY <3>2, <3>3
  <2>5. \A i \in 1 .. n : t[i].attempted
    BY <1>1
  <2>6. x \in Out(u, r) <=> (x \in Range(u) \/ x \in Range(r)) /\ x.attempted
    BY DEF Out
  <2>7. x \in Out(s, q) <=> (x \in Range(s) \/ x \in Range(q)) /\ x.attempted
    BY DEF Out
  <2> QED BY <2>2, <2>3, <2>4, <2>5, <2>6, <2>7
<1>12. Out(u, r) = Out(s, q) \cup {t[i] : i \in 1 .. n}
  BY <1>11
<1> QED BY <1>10, <1>12 DEF t, u, r

-----------------------------------------------------------------------------
(* The windows count what was sent *)

\* The counters of all channels.
WindowCounters == [Channels -> [0 .. Windows - 1 -> Nat]]

\* What was sent is a finite set of commands.
LEMMA OutFinite ==
    ASSUME NEW s, NEW q, Listed(s, q)
    PROVE  /\ IsFiniteSet(Out(s, q)) /\ Out(s, q) \subseteq Commands
           /\ \A m \in Out(s, q) : m.attempted
           /\ \A c, w : /\ IsFiniteSet(InWindowOf(Out(s, q), c, w))
                        /\ Cardinality(InWindowOf(Out(s, q), c, w)) \in Nat
<1>0. s \in Seq(Commands) /\ q \in Seq(Commands)
  BY DEF Listed
<1>1. \A l \in Seq(Commands) : IsFiniteSet(Range(l)) /\ Range(l) \subseteq Commands
  <2> TAKE l \in Seq(Commands)
  <2>1. IsFiniteSet(Range(l)) /\ \A x : x \in Range(l) <=> \E i \in 1 .. Len(l) : l[i] = x
    BY RangeIs
  <2>2. \A i \in 1 .. Len(l) : l[i] \in Commands
    BY RangeIs
  <2> QED BY <2>1, <2>2
<1>2. IsFiniteSet(Range(s) \cup Range(q))
  <2>1. IsFiniteSet(Range(s)) /\ IsFiniteSet(Range(q))
    BY <1>0, <1>1
  <2> QED BY <2>1, FS_Union
<1>3. Out(s, q) \in SUBSET (Range(s) \cup Range(q))
  BY DEF Out
<1>4. IsFiniteSet(Out(s, q))
  BY <1>2, <1>3, FS_Subset
<1>5. Out(s, q) \subseteq Commands
  BY <1>0, <1>1, <1>3
<1>6. ASSUME NEW c, NEW w
      PROVE  /\ IsFiniteSet(InWindowOf(Out(s, q), c, w))
             /\ Cardinality(InWindowOf(Out(s, q), c, w)) \in Nat
  <2>1. InWindowOf(Out(s, q), c, w) \in SUBSET Out(s, q)
    BY DEF InWindowOf
  <2> QED BY <1>4, <2>1, FS_Subset, FS_CardinalityType
<1>7. \A m \in Out(s, q) : m.attempted
  BY DEF Out
<1> QED BY <1>4, <1>5, <1>6, <1>7

\* The numbers on the wire.
LEMMA SeqIs ==
    ASSUME NEW m \in Commands
    PROVE  /\ m.ch \in Channels /\ m.abs \in Nat /\ Seq16(m) \in 0 .. SeqSpace - 1
           /\ Window(Seq16(m)) \in 0 .. Windows - 1
<1>1. m.ch \in Channels /\ m.abs \in Nat
  BY DEF Commands
<1> QED BY <1>1, WireWindow DEF Seq16

\* The commands of q sent for the first time.
FirstSent(q, n, c, w) ==
    {i \in 1 .. n : Fresh(q[i]) /\ q[i].ch = c /\ Window(Seq16(q[i])) = w}

CountsSent(s, q, n, c, w) ==
    /\ Cardinality(FirstSent(q, n, c, w)) \in Nat
    /\ Cardinality(InWindowOf(Out(s \o SentNow(q, n), Unsent(q, n)), c, w))
          = Cardinality(InWindowOf(Out(s, q), c, w)) + Cardinality(FirstSent(q, n, c, w))

\* What a window counts once they are sent.
LEMMA SentInWindow ==
    ASSUME NEW s, NEW q, Listed(s, q), NEW n \in 0 .. Len(q), NEW c, NEW w
    PROVE  CountsSent(s, q, n, c, w)
<1> DEFINE t == SentNow(q, n)
           O == InWindowOf(Out(s, q), c, w)
           F == FirstSent(q, n, c, w)
           N == {t[i] : i \in F}
           Q == InWindowOf(Out(s \o t, Unsent(q, n)), c, w)
           f == [i \in F |-> t[i]]
<1>0. s \in Seq(Commands) /\ q \in Seq(Commands)
  BY DEF Listed
<1>1. Sends(t, q, n)
  BY <1>0, NowSent, Zenon
<1>2. Out(s \o t, Unsent(q, n)) = Out(s, q) \cup {t[i] : i \in 1 .. n}
  BY SentLists
<1>3. IsFiniteSet(O) /\ Cardinality(O) \in Nat
  BY OutFinite
<1>4. n \in Nat /\ n <= Len(q) /\ Len(q) \in Nat /\ F \subseteq 1 .. n /\ F \subseteq 1 .. Len(q)
  BY <1>0 DEF FirstSent
<1>5. IsFiniteSet(F) /\ Cardinality(F) \in Nat
  <2>1. IsFiniteSet(1 .. n)
    BY <1>4, FS_Interval
  <2> QED BY <1>4, <2>1, FS_Subset, FS_CardinalityType
<1> HIDE DEF t
<1>6. \A i \in 1 .. n : /\ t[i].ch = q[i].ch /\ t[i].abs = q[i].abs /\ t[i].attempted
                        /\ q[i].attempted => t[i] = q[i]
  BY <1>1 DEF Sends
<1>7. \A i \in 1 .. n : Seq16(t[i]) = Seq16(q[i])
  BY <1>6 DEF Seq16
<1>8. \A i \in F : Fresh(q[i]) /\ q[i].ch = c /\ Window(Seq16(q[i])) = w
  BY DEF FirstSent
<1>9. \A i, j \in F : f[i] = f[j] => i = j
  <2> TAKE i, j \in F
  <2> HAVE f[i] = f[j]
  <2>1. Same(q[i], q[j])
    BY <1>4, <1>6 DEF Same
  <2> QED BY <1>4, <2>1 DEF Listed
<1>10. IsFiniteSet(N) /\ Cardinality(F) = Cardinality(N)
  <2>1. f \in [F -> N] /\ \A y \in N : \E i \in F : f[i] = y
    OBVIOUS
  <2> HIDE DEF f, N, F
  <2> QED BY <1>5, <1>9, <2>1, SameSize
<1>11. O \cap N = {}
  <2> SUFFICES ASSUME NEW i \in F, t[i] \in O PROVE FALSE
    OBVIOUS
  <2>1. i \in 1 .. n /\ i \in 1 .. Len(q) /\ t[i] \in Range(s) \cup Range(q)
    BY <1>4 DEF InWindowOf, Out
  <2>2. \A l \in Seq(Commands) : t[i] \in Range(l) <=> \E j \in 1 .. Len(l) : l[j] = t[i]
    BY RangeIs
  <2>3. Same(t[i], q[i])
    BY <1>6, <2>1 DEF Same
  <2>4. CASE t[i] \in Range(s)
    BY <1>0, <2>1, <2>2, <2>3, <2>4 DEF Listed
  <2>5. CASE t[i] \in Range(q)
    <3>1. PICK j \in 1 .. Len(q) : q[j] = t[i]
      BY <1>0, <2>2, <2>5
    <3>2. i = j
      BY <2>1, <2>3, <3>1 DEF Listed
    <3> QED BY <1>6, <1>8, <2>1, <3>1, <3>2 DEF Fresh
  <2> QED BY <2>1, <2>4, <2>5
<1>12. Q = O \cup N
  <2>1. \A x \in Q : x \in O \cup N
    <3> TAKE x \in Q
    <3>1. /\ x \in Out(s, q) \/ \E i \in 1 .. n : x = t[i]
          /\ x.ch = c /\ Window(Seq16(x)) = w
      BY <1>2 DEF InWindowOf
    <3>2. CASE x \in Out(s, q)
      BY <3>1, <3>2 DEF InWindowOf
    <3>3. CASE x \notin Out(s, q)
      <4>1. PICK i \in 1 .. n : x = t[i]
        BY <3>1, <3>3
      <4>2. i \in 1 .. Len(q) /\ q[i] \in Range(q)
        BY <1>0, <1>4, RangeIs
      <4>3. Fresh(q[i])
        <5>1. CASE q[i].attempted
          BY <1>6, <3>3, <4>1, <4>2, <5>1 DEF Out
        <5> QED BY <5>1 DEF Fresh
      <4>4. i \in F
        BY <1>6, <1>7, <3>1, <4>1, <4>3 DEF FirstSent
      <4> QED BY <4>1, <4>4
    <3> QED BY <3>2, <3>3
  <2>2. \A x \in O : x \in Q
    BY <1>2 DEF InWindowOf
  <2>3. \A i \in F : t[i] \in Q
    <3> TAKE i \in F
    <3>1. i \in 1 .. n /\ t[i].ch = c /\ Window(Seq16(t[i])) = w
      BY <1>4, <1>6, <1>7, <1>8
    <3> QED BY <1>2, <3>1 DEF InWindowOf
  <2> QED BY <2>1, <2>2, <2>3
<1> HIDE DEF O, N, Q, F
<1>13. Cardinality(O \cup N) = Cardinality(O) + Cardinality(N) - Cardinality(O \cap N)
  BY <1>3, <1>10, FS_Union
<1>14. Cardinality(O \cap N) = 0
  BY <1>11, FS_EmptySet
<1>15. Cardinality(Q) = Cardinality(O) + Cardinality(F)
  <2>1. Cardinality(Q) = Cardinality(O) + Cardinality(F) - 0
    BY <1>10, <1>12, <1>13, <1>14, Zenon
  <2> QED BY <1>3, <1>5, <2>1
<1> QED BY <1>5, <1>15 DEF t, O, F, Q, CountsSent

\* The windows count the commands that are sent for the first time.
LEMMA SentCounted ==
    ASSUME NEW s, NEW q, Listed(s, q), NEW n \in 0 .. Len(q),
           reliableWindows \in WindowCounters, Counted(Out(s, q), reliableWindows)
    PROVE  /\ CountedWindows(q, n) \in WindowCounters
           /\ Counted(Out(s \o SentNow(q, n), Unsent(q, n)), CountedWindows(q, n))
<1> DEFINE O == Out(s \o SentNow(q, n), Unsent(q, n))
           u == CountedWindows(q, n)
<1>1. u = [c \in Channels |-> [w \in 0 .. Windows - 1 |->
              reliableWindows[c][w] + Cardinality(FirstSent(q, n, c, w))]]
  BY DEF CountedWindows, FirstSent
<1>2. ASSUME NEW c \in Channels, NEW w \in 0 .. Windows - 1
      PROVE  /\ Cardinality(FirstSent(q, n, c, w)) \in Nat
             /\ reliableWindows[c][w] \in Nat
             /\ reliableWindows[c][w] = Cardinality(InWindowOf(Out(s, q), c, w))
             /\ Cardinality(InWindowOf(O, c, w))
                   = Cardinality(InWindowOf(Out(s, q), c, w)) + Cardinality(FirstSent(q, n, c, w))
  <2>1. /\ Cardinality(FirstSent(q, n, c, w)) \in Nat
        /\ Cardinality(InWindowOf(O, c, w))
              = Cardinality(InWindowOf(Out(s, q), c, w)) + Cardinality(FirstSent(q, n, c, w))
    <3>1. CountsSent(s, q, n, c, w)
      BY SentInWindow, Zenon
    <3> QED BY <3>1 DEF CountsSent
  <2>2. reliableWindows[c][w] \in Nat
    BY DEF WindowCounters
  <2>3. reliableWindows[c][w] = Cardinality(InWindowOf(Out(s, q), c, w))
    BY Zenon DEF Counted
  <2> QED BY <2>1, <2>2, <2>3
<1> HIDE DEF u, O
<1>3. u \in WindowCounters
  <2>1. \A c \in Channels, w \in 0 .. Windows - 1 :
            reliableWindows[c][w] + Cardinality(FirstSent(q, n, c, w)) \in Nat
    BY <1>2
  <2> QED BY <1>1, <2>1 DEF WindowCounters
<1>4. Counted(O, u)
  <2> SUFFICES ASSUME NEW c \in Channels, NEW w \in 0 .. Windows - 1
               PROVE  u[c][w] = Cardinality(InWindowOf(O, c, w))
    BY DEF Counted
  <2>1. u[c][w] = reliableWindows[c][w] + Cardinality(FirstSent(q, n, c, w))
    BY <1>1
  <2> QED BY <1>2, <2>1, Zenon
<1> QED BY <1>3, <1>4 DEF u, O

-----------------------------------------------------------------------------
(* A command that is acknowledged leaves its list *)

\* t is l without its element number i.
Removed(t, l, i) ==
    /\ t \in Seq(Commands) /\ Len(t) = Len(l) - 1
    /\ \A j \in 1 .. Len(t) : LET k == IF j < i THEN j ELSE j + 1
                              IN  k \in 1 .. Len(l) /\ t[j] = l[k]
    /\ \A j, k \in 1 .. Len(t) : j < k => (IF j < i THEN j ELSE j + 1) < (IF k < i THEN k ELSE k + 1)
    /\ Range(t) = Range(l) \ {l[i]}

\* An element taken out of a list leaves the others in their order.
LEMMA RemovedElement ==
    ASSUME NEW l \in Seq(Commands), NEW i \in 1 .. Len(l),
           \A j, k \in 1 .. Len(l) : Same(l[j], l[k]) => j = k
    PROVE  Removed(RemoveAt(l, i), l, i)
<1> DEFINE t == RemoveAt(l, i)
           at(j) == IF j < i THEN j ELSE j + 1
<1>1. /\ t \in Seq(Commands) /\ Len(t) = Len(l) - 1
      /\ \A j \in 1 .. Len(l) - 1 : t[j] = l[at(j)]
  BY RemovedIs
<1> HIDE DEF t
<1>2. Len(l) \in Nat /\ i \in Nat /\ i <= Len(l)
  OBVIOUS
<1>3. \A j \in 1 .. Len(t) : at(j) \in 1 .. Len(l) /\ at(j) # i /\ t[j] = l[at(j)]
  BY <1>1, <1>2
<1>4. \A j, k \in 1 .. Len(t) : j < k => at(j) < at(k)
  BY <1>1, <1>2
<1>5. \A j \in 1 .. Len(l) : j # i => \E k \in 1 .. Len(t) : at(k) = j
  <2> TAKE j \in 1 .. Len(l)
  <2> HAVE j # i
  <2>1. CASE j < i
    <3>1. j \in 1 .. Len(t) /\ at(j) = j
      BY <1>1, <1>2, <2>1
    <3> QED BY <3>1
  <2>2. CASE ~ (j < i)
    <3>1. j - 1 \in 1 .. Len(t) /\ at(j - 1) = j
      BY <1>1, <1>2, <2>2
    <3> QED BY <3>1
  <2> QED BY <2>1, <2>2
<1> HIDE DEF at
<1>6. \A x : x \in Range(t) <=> x \in Range(l) \ {l[i]}
  <2> TAKE x
  <2>1. /\ x \in Range(t) <=> \E k \in 1 .. Len(t) : t[k] = x
        /\ x \in Range(l) <=> \E k \in 1 .. Len(l) : l[k] = x
    <3>1. \A y \in Seq(Commands) : x \in Range(y) <=> \E k \in 1 .. Len(y) : y[k] = x
      BY RangeIs
    <3> QED BY <1>1, <3>1
  <2>2. ASSUME NEW k \in 1 .. Len(t) PROVE t[k] \in Range(l) \ {l[i]}
    <3>1. at(k) \in 1 .. Len(l) /\ t[k] = l[at(k)] /\ at(k) # i
      BY <1>3
    <3>2. l[at(k)] # l[i]
      BY <3>1 DEF Same
    <3>3. l[at(k)] \in Range(l)
      BY <3>1, RangeIs
    <3> QED BY <3>1, <3>2, <3>3
  <2>3. ASSUME NEW k \in 1 .. Len(l), l[k] # l[i] PROVE \E j \in 1 .. Len(t) : t[j] = l[k]
    BY <1>3, <1>5, <2>3
  <2> QED BY <2>1, <2>2, <2>3
<1>7. Range(t) = Range(l) \ {l[i]}
  BY <1>6
<1> QED BY <1>1, <1>3, <1>4, <1>7 DEF Removed, t, at

\* Nothing else changes.
LEMMA RemovedSent ==
    ASSUME NEW s, NEW q, Listed(s, q), NEW i \in 1 .. Len(s)
    PROVE  /\ Listed(RemoveAt(s, i), q) /\ Len(RemoveAt(s, i)) = Len(s) - 1
           /\ Range(RemoveAt(s, i)) = Range(s) \ {s[i]} /\ s[i] \in Out(s, q)
           /\ Out(RemoveAt(s, i), q) = Out(s, q) \ {s[i]}
<1> DEFINE t == RemoveAt(s, i)
           at(j) == IF j < i THEN j ELSE j + 1
<1>0. s \in Seq(Commands) /\ q \in Seq(Commands)
      /\ \A j, k \in 1 .. Len(s) : Same(s[j], s[k]) => j = k
  BY DEF Listed
<1>1. Removed(t, s, i)
  BY <1>0, RemovedElement, Zenon
<1> HIDE DEF t
<1>2. /\ t \in Seq(Commands) /\ Len(t) = Len(s) - 1
      /\ \A j \in 1 .. Len(t) : at(j) \in 1 .. Len(s) /\ t[j] = s[at(j)]
      /\ \A j, k \in 1 .. Len(t) : j < k => at(j) < at(k)
      /\ Range(t) = Range(s) \ {s[i]}
  BY <1>1 DEF Removed
<1>3. Len(t) \in Nat /\ Len(s) \in Nat
  BY <1>0, <1>2
<1>4. \A j, k \in 1 .. Len(t) : at(j) = at(k) => j = k
  BY <1>3
<1> HIDE DEF at
<1>5. Listed(t, q)
  BY <1>2, <1>4 DEF Listed
<1>6. s[i] \in Out(s, q) /\ s[i] \notin Range(q)
  <2>1. s[i] \in Range(s) /\ s[i].attempted
    BY <1>0, RangeIs DEF Listed
  <2>2. s[i] \notin Range(q)
    <3>1. s[i] \in Range(q) => \E j \in 1 .. Len(q) : q[j] = s[i]
      BY <1>0, RangeIs
    <3> QED BY <3>1 DEF Listed, Same
  <2> QED BY <2>1, <2>2 DEF Out
<1>7. Out(t, q) = Out(s, q) \ {s[i]}
  BY <1>2, <1>6 DEF Out
<1> QED BY <1>2, <1>5, <1>6, <1>7 DEF t

\* The same of a command that timed out and waits to be sent again.
LEMMA RemovedQueued ==
    ASSUME NEW s, NEW q, Listed(s, q), NEW i \in 1 .. Len(q), q[i].attempted
    PROVE  /\ Listed(s, RemoveAt(q, i))
           /\ Range(RemoveAt(q, i)) = Range(q) \ {q[i]} /\ q[i] \in Out(s, q)
           /\ Out(s, RemoveAt(q, i)) = Out(s, q) \ {q[i]}
<1> DEFINE t == RemoveAt(q, i)
           at(j) == IF j < i THEN j ELSE j + 1
<1>0. s \in Seq(Commands) /\ q \in Seq(Commands)
      /\ \A j, k \in 1 .. Len(q) : Same(q[j], q[k]) => j = k
  BY DEF Listed
<1>1. Removed(t, q, i)
  BY <1>0, RemovedElement, Zenon
<1> HIDE DEF t
<1>2. /\ t \in Seq(Commands) /\ Len(t) = Len(q) - 1
      /\ \A j \in 1 .. Len(t) : at(j) \in 1 .. Len(q) /\ t[j] = q[at(j)]
      /\ \A j, k \in 1 .. Len(t) : j < k => at(j) < at(k)
      /\ Range(t) = Range(q) \ {q[i]}
  BY <1>1 DEF Removed
<1>3. Len(t) \in Nat /\ Len(q) \in Nat
  BY <1>0, <1>2
<1>4. \A j, k \in 1 .. Len(t) : at(j) = at(k) => j = k
  BY <1>3
<1> HIDE DEF at
<1>5. Listed(s, t)
  <2>1. \A j, k \in 1 .. Len(t) : j < k /\ t[k].attempted => t[j].attempted
    BY <1>2 DEF Listed
  <2>2. \A j, k \in 1 .. Len(t) : Same(t[j], t[k]) => j = k
    BY <1>2, <1>4 DEF Listed
  <2>3. \A j \in 1 .. Len(s), k \in 1 .. Len(t) : ~ Same(s[j], t[k])
    BY <1>2 DEF Listed
  <2> QED BY <1>0, <1>2, <2>1, <2>2, <2>3 DEF Listed
<1>6. q[i] \in Out(s, q) /\ q[i] \notin Range(s)
  <2>1. q[i] \in Range(q)
    BY <1>0, RangeIs
  <2>2. q[i] \notin Range(s)
    <3>1. q[i] \in Range(s) => \E j \in 1 .. Len(s) : s[j] = q[i]
      BY <1>0, RangeIs
    <3> QED BY <3>1 DEF Listed, Same
  <2> QED BY <2>1, <2>2 DEF Out
<1>7. Out(s, t) = Out(s, q) \ {q[i]}
  BY <1>2, <1>6 DEF Out
<1> QED BY <1>2, <1>5, <1>6, <1>7 DEF t

\* A window that counts one less.
Released(windows, c, w) ==
    [windows EXCEPT ![c][w] = IF @ > 0 THEN @ - 1 ELSE @]

\* The windows count the commands left once one is acknowledged.
LEMMA RemovedCounted ==
    ASSUME NEW O, IsFiniteSet(O), O \subseteq Commands, NEW windows \in WindowCounters,
           Counted(O, windows), NEW m \in O, NEW a, a.ch = m.ch, Seq16(a) = Seq16(m)
    PROVE  /\ Released(windows, a.ch, Window(Seq16(a))) \in WindowCounters
           /\ Counted(O \ {m}, Released(windows, a.ch, Window(Seq16(a))))
<1> DEFINE d == a.ch
           v == Window(Seq16(a))
           u == Released(windows, d, v)
<1>1. d \in Channels /\ v \in 0 .. Windows - 1 /\ m.ch = d /\ Window(Seq16(m)) = v
  <2>1. m.ch \in Channels /\ Window(Seq16(m)) \in 0 .. Windows - 1
    BY SeqIs
  <2> QED BY <2>1
<1> HIDE DEF d, v
<1>2. u \in WindowCounters /\ \A c \in Channels, w \in 0 .. Windows - 1 :
         u[c][w] = IF c = d /\ w = v THEN (IF windows[c][w] > 0 THEN windows[c][w] - 1 ELSE windows[c][w])
                                     ELSE windows[c][w]
  <2> DEFINE x == windows[d][v]
             k == IF x > 0 THEN x - 1 ELSE x
  <2>1. x \in Nat
    BY <1>1 DEF WindowCounters
  <2>2. k \in Nat
    BY <2>1
  <2>3. u = [windows EXCEPT ![d] = [windows[d] EXCEPT ![v] = k]]
    BY <1>1 DEF WindowCounters, Released
  <2> HIDE DEF k, u
  <2>4. u \in WindowCounters /\ \A c \in Channels, w \in 0 .. Windows - 1 :
           u[c][w] = IF c = d /\ w = v THEN k ELSE windows[c][w]
    BY <1>1, <2>2, <2>3 DEF WindowCounters
  <2> QED BY <2>4 DEF k
<1> HIDE DEF u
<1>3. Counted(O \ {m}, u)
  <2> SUFFICES ASSUME NEW c \in Channels, NEW w \in 0 .. Windows - 1
               PROVE  u[c][w] = Cardinality(InWindowOf(O \ {m}, c, w))
    BY DEF Counted
  <2> DEFINE I == InWindowOf(O, c, w)
  <2>1. windows[c][w] = Cardinality(I) /\ windows[c][w] \in Nat
    BY DEF Counted, WindowCounters
  <2>2. I \in SUBSET O /\ IsFiniteSet(I)
    <3>1. I \in SUBSET O
      BY DEF InWindowOf
    <3> QED BY <3>1, FS_Subset
  <2>3. CASE c = d /\ w = v
    <3>1. m \in I /\ InWindowOf(O \ {m}, c, w) = I \ {m}
      BY <1>1, <2>3 DEF InWindowOf
    <3> HIDE DEF I
    <3>2. Cardinality(I \ {m}) = Cardinality(I) - 1 /\ Cardinality(I \ {m}) \in Nat
      <4>1. Cardinality(I \ {m}) = Cardinality(I) - 1 /\ IsFiniteSet(I \ {m})
        BY <2>2, <3>1, FS_RemoveElement
      <4> QED BY <4>1, FS_CardinalityType
    <3>3. u[c][w] = windows[c][w] - 1
      BY <1>2, <2>1, <2>3, <3>2
    <3> QED BY <2>1, <3>1, <3>2, <3>3
  <2>4. CASE ~ (c = d /\ w = v)
    <3>1. InWindowOf(O \ {m}, c, w) = I
      BY <1>1, <2>4 DEF InWindowOf
    <3> QED BY <1>2, <2>1, <2>4, <3>1
  <2> QED BY <2>3, <2>4
<1> QED BY <1>2, <1>3 DEF u, d, v

-----------------------------------------------------------------------------
(* Sums over lists and channels *)

\* A function on a finite set adds up to a number, and a value that changes
\* changes the sum by the difference.
LEMMA SumChange ==
    ASSUME NEW D, IsFiniteSet(D), NEW f \in [D -> Int], NEW g \in [D -> Int], NEW c \in D,
           \A x \in D \ {c} : f[x] = g[x]
    PROVE  /\ SumFunction(f) \in Int /\ SumFunction(g) \in Int
           /\ SumFunction(g) = SumFunction(f) - f[c] + g[c]
<1> DEFINE R == D \ {c}
<1>1. IsFiniteSet(R) /\ R \in SUBSET D /\ D \in SUBSET D
  BY FS_RemoveElement
<1>2. /\ SumFunction(f) = SumFunctionOnSet(f, D) /\ SumFunction(g) = SumFunctionOnSet(g, D)
  BY DEF SumFunction
<1>3. SumFunctionOnSet(f, D) = f[c] + SumFunctionOnSet(f, R)
  BY <1>1, SumRemove
<1>4. SumFunctionOnSet(g, D) = g[c] + SumFunctionOnSet(g, R)
  BY <1>1, SumRemove
<1> HIDE DEF R
<1>5. SumFunctionOnSet(f, R) = SumFunctionOnSet(g, R)
  <2>1. \A x \in R : f[x] = g[x]
    BY DEF R
  <2> QED BY <1>1, <2>1, SumSame
<1>6. SumFunctionOnSet(f, R) \in Int /\ f[c] \in Int /\ g[c] \in Int
  <2>1. SumFunctionOnSet(f, R) \in Int
    BY <1>1, SumChosen
  <2> QED BY <2>1
<1> QED BY <1>2, <1>3, <1>4, <1>5, <1>6

\* Nothing adds up to nothing.
LEMMA SumZero ==
    ASSUME NEW D, IsFiniteSet(D), NEW f \in [D -> Int], \A x \in D : f[x] = 0
    PROVE  SumFunctionOnSet(f, D) = 0
<1> DEFINE G == {T \in SUBSET D : SumFunctionOnSet(f, T) = 0}
<1>1. \A T \in SUBSET D : IsFiniteSet(T)
  BY FS_Subset
<1>2. {} \in G
  <2>1. {} \in SUBSET D /\ IsFiniteSet({})
    BY FS_EmptySet
  <2>2. SumFunctionOnSet(f, {}) = 0
    BY <2>1, SumChosen
  <2> QED BY <2>1, <2>2
<1>3. ASSUME NEW T \in SUBSET D, NEW x \in D \ T, T \in G
      PROVE  T \cup {x} \in G
  <2> DEFINE U == T \cup {x}
  <2>1. U \in SUBSET D /\ x \in U /\ U \ {x} = T
    OBVIOUS
  <2> HIDE DEF U
  <2>2. SumFunctionOnSet(f, U) = f[x] + SumFunctionOnSet(f, U \ {x})
    BY <1>1, <2>1, SumRemove
  <2>3. f[x] = 0 /\ SumFunctionOnSet(f, T) = 0
    BY <1>3
  <2>4. SumFunctionOnSet(f, U) = 0
    BY <2>1, <2>2, <2>3
  <2> QED BY <2>1, <2>4 DEF U
<1> HIDE DEF G
<1>4. SUBSET D \subseteq G
  BY <1>2, <1>3, SetInduct
<1> QED BY <1>4 DEF G

\* A term is not greater than the sum.
LEMMA SumTerm ==
    ASSUME NEW D, IsFiniteSet(D), NEW f \in [D -> Nat], NEW c \in D
    PROVE  SumFunction(f) \in Nat /\ f[c] <= SumFunction(f)
<1> DEFINE R == D \ {c}
<1>1. IsFiniteSet(R) /\ R \in SUBSET D /\ D \in SUBSET D
  BY FS_RemoveElement
<1>2. SumFunction(f) = SumFunctionOnSet(f, D)
  BY DEF SumFunction
<1>3. SumFunctionOnSet(f, D) = f[c] + SumFunctionOnSet(f, R)
  <2>1. f \in [D -> Int]
    OBVIOUS
  <2> QED BY <1>1, <2>1, SumRemove
<1> HIDE DEF R
<1>4. SumFunctionOnSet(f, R) \in Nat /\ f[c] \in Nat
  <2>1. SumFunctionOnSet(f, R) \in Nat
    BY <1>1, SumNat
  <2> QED BY <2>1
<1> QED BY <1>2, <1>3, <1>4

Splits(f, S, x) == SumFunctionOnSet(f, S) = f[x] + SumFunctionOnSet(f, S \ {x})

\* The sum as a term and the others.
LEMMA SumSplit ==
    ASSUME NEW D, NEW f \in [D -> Int], NEW S \in SUBSET D, IsFiniteSet(S), NEW x \in S
    PROVE  Splits(f, S, x)
BY SumRemove DEF Splits

Shifted(g, f, m, n) == \A i \in 1 .. n : g[m + i] = f[i]

\* A sum of terms that are in other places.
LEMMA SumShift ==
    ASSUME NEW m \in Nat, NEW n \in Nat, NEW l \in Nat, NEW f \in [1 .. n -> Int],
           NEW g \in [1 .. l -> Int], m + n <= l, Shifted(g, f, m, n)
    PROVE  SumFunctionOnSet(g, m + 1 .. m + n) = SumFunctionOnSet(f, 1 .. n)
<1> DEFINE A(k) == SumFunctionOnSet(g, m + 1 .. m + k)
           B(k) == SumFunctionOnSet(f, 1 .. k)
           S == {k \in 0 .. n : A(k) = B(k)}
<1>1. 0 \in S
  <2>1. m + 1 .. m + 0 = {} /\ 1 .. 0 = {}
    OBVIOUS
  <2>2. IsFiniteSet({}) /\ {} \in SUBSET (1 .. n) /\ {} \in SUBSET (1 .. l)
    BY FS_EmptySet
  <2>3. SumFunctionOnSet(g, {}) = 0 /\ SumFunctionOnSet(f, {}) = 0
    BY <2>2, SumChosen
  <2>4. A(0) = 0 /\ B(0) = 0
    BY <2>1, <2>3
  <2> QED BY <2>4
<1>2. ASSUME NEW k \in 1 .. n, k - 1 \in S PROVE k \in S
  <2> DEFINE K == m + 1 .. m + k
             L == 1 .. k
             C == 1 .. l
             D == 1 .. n
             x == m + k
  <2>1. /\ K \in SUBSET C /\ L \in SUBSET D /\ x \in K /\ k \in L
        /\ K \ {x} = m + 1 .. m + (k - 1) /\ L \ {k} = 1 .. k - 1
        /\ f \in [D -> Int] /\ g \in [C -> Int]
    <3>1. K \in SUBSET C /\ L \in SUBSET D /\ x \in K /\ k \in L
      OBVIOUS
    <3>2. \A y : y \in K \ {x} <=> y \in m + 1 .. m + (k - 1)
      <4> HIDE DEF S, L, C, D
      <4>1. k \in Int /\ m \in Int /\ x = m + k /\ x \in Int
        OBVIOUS
      <4>2. ASSUME NEW y PROVE y \in K \ {x} => y \in m + 1 .. m + (k - 1)
        BY <4>1
      <4>3. ASSUME NEW y \in m + 1 .. m + (k - 1) PROVE y \in K \ {x}
        BY <4>1
      <4> QED BY <4>2, <4>3
    <3>3. \A y : y \in L \ {k} <=> y \in 1 .. k - 1
      OBVIOUS
    <3>4. K \ {x} = m + 1 .. m + (k - 1)
      BY <3>2, Zenon
    <3>5. L \ {k} = 1 .. k - 1
      BY <3>3, Zenon
    <3> QED BY <3>1, <3>4, <3>5
  <2>2. IsFiniteSet(K) /\ IsFiniteSet(L)
    <3>1. m + 1 \in Int /\ m + k \in Int /\ k \in Int /\ 1 \in Int
      OBVIOUS
    <3> QED BY <3>1, FS_Interval
  <2> HIDE DEF K, L, C, D, x
  <2>3. SumFunctionOnSet(g, K) = g[x] + SumFunctionOnSet(g, K \ {x})
    <3>1. g \in [C -> Int] /\ K \in SUBSET C /\ x \in K
      BY <2>1
    <3>2. Splits(g, K, x)
      BY <2>2, <3>1, SumSplit
    <3> QED BY <3>2 DEF Splits
  <2>4. SumFunctionOnSet(f, L) = f[k] + SumFunctionOnSet(f, L \ {k})
    <3>1. f \in [D -> Int] /\ L \in SUBSET D /\ k \in L
      BY <2>1
    <3>2. Splits(f, L, k)
      BY <2>2, <3>1, SumSplit
    <3> QED BY <3>2 DEF Splits
  <2>5. A(k) = g[m + k] + A(k - 1) /\ B(k) = f[k] + B(k - 1)
    BY <2>1, <2>3, <2>4, Zenon DEF K, L, x
  <2>6. g[m + k] = f[k] /\ A(k - 1) = B(k - 1)
    BY <1>2 DEF Shifted
  <2>7. A(k) = B(k)
    BY <2>5, <2>6, Zenon
  <2> QED BY <2>7
<1>3. n \in S
  <2> HIDE DEF S
  <2>1. 0 .. n \subseteq S
    BY <1>1, <1>2, Induct
  <2> QED BY <2>1
<1> QED BY <1>3

\* A sum of terms that are in the same places.
LEMMA SumPrefix ==
    ASSUME NEW n \in Nat, NEW l \in Nat, NEW f \in [1 .. n -> Int],
           NEW g \in [1 .. l -> Int], n <= l, \A i \in 1 .. n : g[i] = f[i]
    PROVE  SumFunctionOnSet(g, 1 .. n) = SumFunctionOnSet(f, 1 .. n)
<1>1. PICK z \in Nat : z = 0
  OBVIOUS
<1>2. Shifted(g, f, z, n) /\ z + n <= l
  BY <1>1 DEF Shifted
<1>3. SumFunctionOnSet(g, z + 1 .. z + n) = SumFunctionOnSet(f, 1 .. n)
  BY <1>2, SumShift
<1>4. z + 1 .. z + n = 1 .. n
  BY <1>1
<1> QED BY <1>3, <1>4

\* Whatever is in D has a size.
Sized(D) == \A e \in D : e.count \in Nat

\* The sizes of the entries of a list.
LEMMA SizesIs ==
    ASSUME NEW D, Sized(D), NEW s \in Seq(D)
    PROVE  /\ Sizes(s) = SumFunctionOnSet([i \in 1 .. Len(s) |-> s[i].count], 1 .. Len(s))
           /\ [i \in 1 .. Len(s) |-> s[i].count] \in [1 .. Len(s) -> Nat]
           /\ Sizes(s) \in Nat
<1> DEFINE f == [i \in 1 .. Len(s) |-> s[i].count]
<1>1. DOMAIN s = 1 .. Len(s) /\ Len(s) \in Nat /\ \A i \in 1 .. Len(s) : s[i] \in D
  BY RangeIs
<1>2. f \in [1 .. Len(s) -> Nat] /\ DOMAIN f = 1 .. Len(s)
  BY <1>1 DEF Sized
<1>3. Sizes(s) = SumFunctionOnSet(f, 1 .. Len(s))
  BY <1>1, <1>2, Zenon DEF Sizes, SumFunction
<1> HIDE DEF f
<1>4. IsFiniteSet(1 .. Len(s)) /\ 1 .. Len(s) \in SUBSET (1 .. Len(s))
  BY <1>1, FS_Interval
<1>5. SumFunctionOnSet(f, 1 .. Len(s)) \in Nat
  BY <1>2, <1>4, SumNat
<1> QED BY <1>2, <1>3, <1>5 DEF f

\* They depend on the sizes only.
LEMMA SizesSame ==
    ASSUME NEW D, Sized(D), NEW s \in Seq(D), NEW t \in Seq(D), Len(s) = Len(t),
           \A i \in 1 .. Len(s) : s[i].count = t[i].count
    PROVE  Sizes(s) = Sizes(t)
<1> DEFINE f == [i \in 1 .. Len(s) |-> s[i].count]
           g == [i \in 1 .. Len(t) |-> t[i].count]
<1>1. f = g
  OBVIOUS
<1>2. Sizes(s) = SumFunctionOnSet(f, 1 .. Len(s))
  BY SizesIs, Zenon
<1>3. Sizes(t) = SumFunctionOnSet(g, 1 .. Len(t))
  BY SizesIs, Zenon
<1> QED BY <1>1, <1>2, <1>3, Zenon

\* Those of two lists put together.
LEMMA SizesConcat ==
    ASSUME NEW D, Sized(D), NEW s \in Seq(D), NEW t \in Seq(D)
    PROVE  Sizes(s \o t) = Sizes(s) + Sizes(t)
<1> DEFINE u == s \o t
           m == Len(s)
           n == Len(t)
           l == Len(u)
           f == [i \in 1 .. m |-> s[i].count]
           g == [i \in 1 .. n |-> t[i].count]
           h == [i \in 1 .. l |-> u[i].count]
<1>1. Joined(u, s, t, D)
  BY JoinedIs, Zenon
<1> HIDE DEF u
<1>2. /\ u \in Seq(D) /\ l = m + n
      /\ \A i \in 1 .. m : u[i] = s[i]
      /\ \A i \in 1 .. n : u[m + i] = t[i]
  BY <1>1 DEF Joined
<1>3. m \in Nat /\ n \in Nat /\ l \in Nat
  BY <1>2
<1>4. /\ Sizes(s) = SumFunctionOnSet(f, 1 .. m) /\ f \in [1 .. m -> Nat]
      /\ Sizes(t) = SumFunctionOnSet(g, 1 .. n) /\ g \in [1 .. n -> Nat]
      /\ Sizes(u) = SumFunctionOnSet(h, 1 .. l) /\ h \in [1 .. l -> Nat]
  BY <1>2, SizesIs, Zenon
<1>5. Shifted(h, f, 0, m) /\ Shifted(h, g, m, n)
  BY <1>2, <1>3 DEF Shifted
<1> HIDE DEF f, g, h, m, n, l
<1>6. f \in [1 .. m -> Int] /\ g \in [1 .. n -> Int] /\ h \in [1 .. l -> Int]
  BY <1>4
<1>7. SumFunctionOnSet(h, m + 1 .. m + n) = SumFunctionOnSet(g, 1 .. n)
  <2>1. m + n <= l
    BY <1>2, <1>3
  <2> QED BY <1>3, <1>5, <1>6, <2>1, SumShift, SMTT(30)
<1>8. SumFunctionOnSet(h, 1 .. m) = SumFunctionOnSet(f, 1 .. m)
  <2>1. m <= l /\ \A i \in 1 .. m : h[i] = f[i]
    BY <1>2, <1>3, <1>5 DEF Shifted
  <2> QED BY <1>3, <1>6, <2>1, SumPrefix
<1> DEFINE L == 1 .. m
           H == m + 1 .. m + n
           C == 1 .. l
<1>9. /\ IsFiniteSet(L) /\ IsFiniteSet(H) /\ L \cap H = {} /\ L \cup H = C
      /\ L \in SUBSET C /\ H \in SUBSET C /\ h \in [C -> Int]
  <2>1. IsFiniteSet(1 .. m) /\ IsFiniteSet(m + 1 .. m + n)
    <3>1. m + 1 \in Int /\ m + n \in Int /\ m \in Int /\ 1 \in Int
      BY <1>3
    <3> QED BY <3>1, FS_Interval
  <2> QED BY <1>2, <1>3, <1>6, <2>1
<1>a. C = 1 .. l
  OBVIOUS
<1> HIDE DEF L, H, C
<1>10. SumFunctionOnSet(h, L \cup H) = SumFunctionOnSet(h, L) + SumFunctionOnSet(h, H)
  BY <1>9, SumUnion
<1> QED BY <1>4, <1>7, <1>8, <1>9, <1>a, <1>10, Zenon DEF L, H, u

\* That of a list of one.
LEMMA SizesOne ==
    ASSUME NEW D, Sized(D), NEW x \in D
    PROVE  Sizes(<<x>>) = x.count /\ Sizes(<<>>) = 0
<1>1. <<x>> \in Seq(D) /\ Len(<<x>>) = 1 /\ <<>> \in Seq(D) /\ Len(<<>>) = 0 /\ x.count \in Nat
  BY DEF Sized
<1> DEFINE f == [i \in 1 .. 1 |-> <<x>>[i].count]
           g == [i \in 1 .. 0 |-> <<>>[i].count]
<1>2. Sizes(<<x>>) = SumFunctionOnSet(f, 1 .. 1)
  BY <1>1, SizesIs, Zenon
<1>3. Sizes(<<>>) = SumFunctionOnSet(g, 1 .. 0)
  BY <1>1, SizesIs, Zenon
<1>4. f[1] = x.count
  OBVIOUS
<1>5. f \in [1 .. 1 -> Int]
  BY <1>1, <1>4
<1>6. g \in [1 .. 0 -> Int]
  OBVIOUS
<1> HIDE DEF f, g
<1>7. SumFunctionOnSet(g, 1 .. 0) = 0
  <2> DEFINE S == 1 .. 0
  <2>0. IsFiniteSet({}) /\ S = {}
    BY FS_EmptySet
  <2>1. g \in [S -> Int]
    BY <1>6
  <2> HIDE DEF S
  <2>2. \A y \in S : g[y] = 0
    BY <2>0
  <2>3. SumFunctionOnSet(g, S) = 0
    BY <2>0, <2>1, <2>2, SumZero
  <2> QED BY <2>3 DEF S
<1>8. SumFunctionOnSet(f, 1 .. 1) = x.count
  <2> DEFINE S == 1 .. 1
             E == S \ {1}
  <2>1. S \in SUBSET S /\ f \in [S -> Int] /\ 1 \in S /\ E \in SUBSET S /\ E = {}
    BY <1>5
  <2>2. IsFiniteSet(E)
    BY <2>1, FS_EmptySet
  <2>3. IsFiniteSet(S)
    <3>1. 1 \in Int
      OBVIOUS
    <3> QED BY <3>1, FS_Interval
  <2> HIDE DEF S, E
  <2>4. SumFunctionOnSet(f, E) = 0
    BY <2>1, <2>2, SumChosen
  <2>5. Splits(f, S, 1)
    BY <2>1, <2>3, SumSplit
  <2>6. SumFunctionOnSet(f, S) = f[1] + SumFunctionOnSet(f, E)
    BY <2>5 DEF Splits, E
  <2> QED BY <1>1, <1>4, <2>4, <2>6 DEF S
<1> QED BY <1>2, <1>3, <1>7, <1>8

-----------------------------------------------------------------------------
(* What the sending peer counts *)

SenderTypes ==
    /\ submitted \in [Channels -> 0 .. MaxPackets]
    /\ lastQueued \in [Channels -> Nat]
    /\ reliableWindows \in WindowCounters
    /\ reliableDataInTransit \in Nat

NetworkTypes == data \subseteq Commands /\ acks \subseteq [ch : Channels, abs : Nat]

\* What the receiving peer has queued of a channel, and what it has dispatched.
Entries == [seq : 0 .. SeqSpace - 1, count : Nat, got : SUBSET Nat, src : SUBSET Nat]
Dispatched == [ch : Channels, src : SUBSET Nat, count : Nat]

ReceiverTypes ==
    /\ incomingReliableSequenceNumber \in [Channels -> 0 .. SeqSpace - 1]
    /\ incomingReliableCommands \in [Channels -> Seq(Entries)]
    /\ dispatchedCommands \in Seq(Dispatched)
    /\ totalWaitingData \in Nat
    /\ acknowledgements \subseteq [ch : Channels, abs : Nat]
    /\ delivered \in [Channels -> Seq(SUBSET Nat)]

Queued(s, q) ==
    /\ Listed(s, q)
    /\ \A m \in Range(s) \cup Range(q) : m.abs <= lastQueued[m.ch]

SenderSound ==
    /\ SenderTypes
    /\ Queued(sentReliableCommands, outgoingSendReliableCommands)
    /\ Counted(Out(sentReliableCommands, outgoingSendReliableCommands), reliableWindows)
    /\ reliableDataInTransit = Len(sentReliableCommands)

Waiting == SumFunction([c \in Channels |-> Sizes(incomingReliableCommands[c])])

ReceiverSound ==
    ReceiverTypes /\ totalWaitingData = Sizes(dispatchedCommands) + Waiting

\* The first inductive invariant.
CInv == SenderSound /\ NetworkTypes /\ ReceiverSound

\* It is what the runs check.
LEMMA CInvImplies ==
    CInv => TypeOK /\ WindowsCountOutstanding /\ RetransmitsFirst /\ DataCounted
<1> SUFFICES ASSUME CInv PROVE TypeOK /\ WindowsCountOutstanding /\ RetransmitsFirst /\ DataCounted
  OBVIOUS
<1>1. Listed(sentReliableCommands, outgoingSendReliableCommands)
  BY DEF CInv, SenderSound, Queued
<1>2. /\ sentReliableCommands \in Seq(Commands) /\ outgoingSendReliableCommands \in Seq(Commands)
  BY <1>1 DEF Listed
<1>3. TypeOK
  BY <1>2 DEF CInv, SenderSound, SenderTypes, NetworkTypes, ReceiverSound, ReceiverTypes,
              TypeOK, Entries, Dispatched, WindowCounters
<1>4. WindowsCountOutstanding
  <2>1. Outstanding = Out(sentReliableCommands, outgoingSendReliableCommands)
    BY DEF Outstanding, Unacknowledged, Out
  <2>2. Counted(Outstanding, reliableWindows)
    BY <2>1 DEF CInv, SenderSound
  <2> QED BY <2>2 DEF WindowsCountOutstanding, Counted, InWindowOf
<1>5. RetransmitsFirst
  <2>1. DOMAIN outgoingSendReliableCommands = 1 .. Len(outgoingSendReliableCommands)
    BY <1>2
  <2> QED BY <1>1, <2>1 DEF RetransmitsFirst, Listed
<1>6. DataCounted
  BY DEF CInv, SenderSound, ReceiverSound, DataCounted, Waiting
<1> QED BY <1>3, <1>4, <1>5, <1>6

\* The initial state.
LEMMA CInvInit == Init => CInv
<1> SUFFICES ASSUME Init PROVE CInv
  OBVIOUS
<1>1. StartAt \in Nat /\ MaxPackets \in Nat /\ IsFiniteSet(Channels)
  BY LimitAssumption
<1>2. SenderTypes /\ NetworkTypes
  BY <1>1 DEF Init, SenderTypes, NetworkTypes, WindowCounters
<1>3. ReceiverTypes
  <2>1. StartAt % SeqSpace \in 0 .. SeqSpace - 1
    BY <1>1, WireWindow
  <2> QED BY <2>1 DEF Init, ReceiverTypes
<1>4. Out(<<>>, <<>>) = {} /\ Range(<<>>) = {}
  BY DEF Out, Range
<1>5. Queued(<<>>, <<>>)
  BY <1>4 DEF Queued, Listed
<1>6. Counted({}, reliableWindows)
  <2> SUFFICES ASSUME NEW c \in Channels, NEW w \in 0 .. Windows - 1
               PROVE  reliableWindows[c][w] = Cardinality(InWindowOf({}, c, w))
    BY DEF Counted
  <2>1. InWindowOf({}, c, w) = {}
    BY DEF InWindowOf
  <2> QED BY <2>1, FS_EmptySet DEF Init
<1>7. SenderSound
  BY <1>2, <1>4, <1>5, <1>6 DEF Init, SenderSound
<1>8. Sizes(<<>>) = 0
  <2> DEFINE D == {[count |-> 0]}
             x == [count |-> 0]
  <2>1. Sized(D) /\ x \in D
    BY DEF Sized
  <2> HIDE DEF D
  <2> QED BY <2>1, SizesOne
<1>9. Waiting = 0
  <2> DEFINE f == [c \in Channels |-> Sizes(incomingReliableCommands[c])]
  <2>1. f \in [Channels -> Int] /\ f \in [Channels -> Nat] /\ \A c \in Channels : f[c] = 0
    BY <1>8 DEF Init
  <2> HIDE DEF f
  <2>2. DOMAIN f = Channels /\ Channels \in SUBSET Channels
    BY <2>1
  <2>3. SumFunctionOnSet(f, Channels) = 0
    BY <1>1, <2>1, <2>2, SumZero
  <2>5. SumFunction(f) = 0
    BY <2>2, <2>3 DEF SumFunction
  <2> QED BY <2>5 DEF Waiting, f
<1>10. ReceiverSound
  BY <1>3, <1>8, <1>9 DEF Init, ReceiverSound
<1> QED BY <1>2, <1>7, <1>10 DEF CInv

-----------------------------------------------------------------------------
(* The actions of the sending peer *)

\* Commands that were never sent are queued behind the others.
LEMMA AddedLists ==
    ASSUME NEW s, NEW q, Listed(s, q), NEW t \in Seq(Commands),
           \A i \in 1 .. Len(t) : Fresh(t[i]),
           \A i, j \in 1 .. Len(t) : Same(t[i], t[j]) => i = j,
           \A m \in Range(s) \cup Range(q), i \in 1 .. Len(t) : ~ Same(m, t[i])
    PROVE  /\ Listed(s, q \o t)
           /\ Range(q \o t) = Range(q) \cup Range(t)
           /\ Out(s, q \o t) = Out(s, q)
<1> DEFINE u == q \o t
<1>0. s \in Seq(Commands) /\ q \in Seq(Commands)
      /\ \A l \in Seq(Commands) : \A i \in 1 .. Len(l) : l[i] \in Range(l)
  <2>1. s \in Seq(Commands) /\ q \in Seq(Commands)
    BY DEF Listed
  <2>2. ASSUME NEW l \in Seq(Commands), NEW i \in 1 .. Len(l) PROVE l[i] \in Range(l)
    BY RangeIs
  <2> QED BY <2>1, <2>2
<1>1. Joined(u, q, t, Commands)
  BY <1>0, JoinedIs, Zenon
<1> HIDE DEF u
<1>2. /\ u \in Seq(Commands) /\ Len(u) = Len(q) + Len(t)
      /\ \A i \in 1 .. Len(q) : u[i] = q[i]
      /\ \A i \in 1 .. Len(t) : u[Len(q) + i] = t[i]
      /\ \A i \in 1 .. Len(u) : i \in 1 .. Len(q) \/ i - Len(q) \in 1 .. Len(t)
      /\ \A i \in 1 .. Len(u) : i \notin 1 .. Len(q) => u[i] = t[i - Len(q)]
  BY <1>1 DEF Joined
<1>3. Len(q) \in Nat /\ Len(t) \in Nat /\ Len(u) \in Nat
  BY <1>0, <1>2
<1>4. \A i, j \in 1 .. Len(u) : i < j /\ u[j].attempted => u[i].attempted
  <2> TAKE i, j \in 1 .. Len(u)
  <2> HAVE i < j /\ u[j].attempted
  <2>1. j \in 1 .. Len(q)
    <3>1. CASE j \notin 1 .. Len(q)
      <4>1. u[j] = t[j - Len(q)] /\ j - Len(q) \in 1 .. Len(t)
        BY <1>2, <3>1
      <4> QED BY <4>1 DEF Fresh
    <3> QED BY <3>1
  <2>2. i \in 1 .. Len(q)
    BY <1>2, <1>3, <2>1
  <2> QED BY <1>2, <2>1, <2>2 DEF Listed
<1>5. \A i, j \in 1 .. Len(u) : Same(u[i], u[j]) => i = j
  <2> TAKE i, j \in 1 .. Len(u)
  <2> HAVE Same(u[i], u[j])
  <2>1. CASE i \in 1 .. Len(q) /\ j \in 1 .. Len(q)
    BY <1>2, <2>1 DEF Listed
  <2>2. ASSUME NEW k \in 1 .. Len(u), NEW l \in 1 .. Len(u), k \in 1 .. Len(q),
               l \notin 1 .. Len(q), Same(u[k], u[l]) \/ Same(u[l], u[k])
        PROVE  FALSE
    <3>1. u[k] = q[k] /\ u[l] = t[l - Len(q)] /\ l - Len(q) \in 1 .. Len(t)
      BY <1>2, <2>2
    <3>2. Same(q[k], t[l - Len(q)]) /\ q[k] \in Range(q)
      BY <1>0, <2>2, <3>1 DEF Same
    <3> QED BY <3>1, <3>2
  <2>3. CASE i \notin 1 .. Len(q) /\ j \notin 1 .. Len(q)
    <3>1. /\ u[i] = t[i - Len(q)] /\ i - Len(q) \in 1 .. Len(t)
          /\ u[j] = t[j - Len(q)] /\ j - Len(q) \in 1 .. Len(t)
      BY <1>2, <2>3
    <3>2. i - Len(q) = j - Len(q)
      BY <3>1
    <3>3. i \in Int /\ j \in Int
      BY <1>3
    <3> QED BY <1>3, <3>2, <3>3
  <2> QED BY <2>1, <2>2, <2>3
<1>6. \A i \in 1 .. Len(s), j \in 1 .. Len(u) : ~ Same(s[i], u[j])
  <2> TAKE i \in 1 .. Len(s), j \in 1 .. Len(u)
  <2>1. CASE j \in 1 .. Len(q)
    BY <1>2, <2>1 DEF Listed
  <2>2. CASE j \notin 1 .. Len(q)
    <3>1. u[j] = t[j - Len(q)] /\ j - Len(q) \in 1 .. Len(t) /\ s[i] \in Range(s)
      BY <1>0, <1>2, <2>2
    <3> QED BY <3>1
  <2> QED BY <2>1, <2>2
<1>7. Listed(s, u)
  BY <1>0, <1>2, <1>4, <1>5, <1>6 DEF Listed
<1>8. ASSUME NEW x PROVE x \in Range(u) <=> x \in Range(q) \/ x \in Range(t)
  <2>1. \A l \in Seq(Commands) : x \in Range(l) <=> \E i \in 1 .. Len(l) : l[i] = x
    BY RangeIs
  <2>2. (\E i \in 1 .. Len(u) : u[i] = x)
           => (\E i \in 1 .. Len(q) : q[i] = x) \/ \E i \in 1 .. Len(t) : t[i] = x
    BY <1>2
  <2>3. ASSUME NEW i \in 1 .. Len(q) PROVE i \in 1 .. Len(u) /\ u[i] = q[i]
    BY <1>2, <1>3
  <2>4. ASSUME NEW i \in 1 .. Len(t) PROVE Len(q) + i \in 1 .. Len(u) /\ u[Len(q) + i] = t[i]
    BY <1>2, <1>3
  <2> QED BY <1>0, <1>2, <2>1, <2>2, <2>3, <2>4
<1>9. Range(u) = Range(q) \cup Range(t)
  BY <1>8
<1>10. Out(s, u) = Out(s, q)
  <2>1. \A x \in Range(t) : ~ x.attempted
    <3> TAKE x \in Range(t)
    <3>1. PICK i \in 1 .. Len(t) : t[i] = x
      BY RangeIs
    <3> QED BY <3>1 DEF Fresh
  <2> QED BY <1>9, <2>1 DEF Out
<1> QED BY <1>7, <1>9, <1>10 DEF u

\* enet_peer_send
LEMMA SendSound ==
    ASSUME SenderSound, NEW c \in Channels, NEW n \in FragmentCounts, Send(c, n)
    PROVE  SenderSound'
<1> DEFINE s == sentReliableCommands
           q == outgoingSendReliableCommands
           t == [i \in 1 .. n |-> Command(c, lastQueued[c] + i, i - 1, n, submitted[c] + 1)]
<1>1. Listed(s, q) /\ \A m \in Range(s) \cup Range(q) : m.abs <= lastQueued[m.ch]
  BY DEF SenderSound, Queued
<1>2. n \in Nat \ {0} /\ lastQueued \in [Channels -> Nat] /\ lastQueued[c] \in Nat
      /\ submitted \in [Channels -> 0 .. MaxPackets] /\ submitted[c] \in Nat
      /\ MaxPackets \in Nat /\ IsFiniteSet(Channels)
  BY LimitAssumption DEF SenderSound, SenderTypes
<1>3. /\ submitted' = [submitted EXCEPT ![c] = @ + 1]
      /\ lastQueued' = [lastQueued EXCEPT ![c] = @ + n]
      /\ outgoingSendReliableCommands' = q \o t /\ sentReliableCommands' = s
      /\ UNCHANGED <<reliableWindows, reliableDataInTransit>>
      /\ SumFunction(submitted) < MaxPackets
  BY DEF Send
<1>4. /\ t \in Seq(Commands) /\ Len(t) = n
      /\ \A i \in 1 .. n : t[i].ch = c /\ t[i].abs = lastQueued[c] + i /\ Fresh(t[i])
  <2>1. \A i \in 1 .. n : t[i] \in Commands
    BY <1>2 DEF Command, Commands
  <2>2. \A i \in 1 .. n : t[i].ch = c /\ t[i].abs = lastQueued[c] + i /\ Fresh(t[i])
    BY DEF Command, Fresh
  <2> QED BY <1>2, <2>1, <2>2
<1> HIDE DEF t
<1>5. \A i, j \in 1 .. Len(t) : Same(t[i], t[j]) => i = j
  BY <1>2, <1>4 DEF Same
<1>6. \A m \in Range(s) \cup Range(q), i \in 1 .. Len(t) : ~ Same(m, t[i])
  BY <1>1, <1>2, <1>4 DEF Same
<1>7. /\ Listed(s, q \o t) /\ Range(q \o t) = Range(q) \cup Range(t) /\ Out(s, q \o t) = Out(s, q)
  BY <1>1, <1>4, <1>5, <1>6, AddedLists
<1>8. submitted' \in [Channels -> 0 .. MaxPackets]
  <2>1. submitted \in [Channels -> Nat]
    BY <1>2
  <2>2. SumFunction(submitted) \in Nat /\ submitted[c] <= SumFunction(submitted)
    BY <1>2, <2>1, SumTerm
  <2>3. submitted[c] + 1 \in 0 .. MaxPackets
    BY <1>2, <1>3, <2>2
  <2> QED BY <1>2, <1>3, <2>3
<1>9. lastQueued' \in [Channels -> Nat] /\ \A d \in Channels : lastQueued'[d] >= lastQueued[d]
      /\ lastQueued'[c] = lastQueued[c] + n
  BY <1>2, <1>3
<1>10. \A m \in Range(s) \cup Range(q \o t) : m.abs <= lastQueued'[m.ch]
  <2> TAKE m \in Range(s) \cup Range(q \o t)
  <2>1. CASE m \in Range(s) \cup Range(q)
    <3>1. m \in Commands
      <4>1. s \in Seq(Commands) /\ q \in Seq(Commands)
        BY <1>1 DEF Listed
      <4> QED BY <2>1, <4>1 DEF Range
    <3>2. m.ch \in Channels /\ m.abs \in Nat
      BY <3>1 DEF Commands
    <3>3. m.abs <= lastQueued[m.ch] /\ lastQueued[m.ch] <= lastQueued'[m.ch]
          /\ lastQueued[m.ch] \in Nat /\ lastQueued'[m.ch] \in Nat
      BY <1>1, <1>2, <1>9, <2>1, <3>2
    <3> QED BY <3>2, <3>3
  <2>2. CASE m \in Range(t)
    <3>1. PICK i \in 1 .. n : t[i] = m
      BY <1>4, <2>2, RangeIs
    <3> QED BY <1>2, <1>4, <1>9, <3>1
  <2> QED BY <1>7, <2>1, <2>2
<1>11. SenderTypes'
  BY <1>3, <1>8, <1>9 DEF SenderSound, SenderTypes
<1> QED BY <1>3, <1>7, <1>10, <1>11 DEF SenderSound, Queued

CanSend(q, inTransit, limit) ==
    /\ Sendable(q, inTransit, limit) \in 0 .. Len(q)
    /\ \A i \in 1 .. Sendable(q, inTransit, limit) : ~ WindowBlocks(CountedWindows(q, i - 1), q[i])

\* What is sent of the queue is a part of it, and the windows held none of it back.
LEMMA SendableIs ==
    ASSUME NEW q \in Seq(Commands), NEW inTransit \in Int, NEW limit \in Int
    PROVE  CanSend(q, inTransit, limit)
<1> DEFINE x == limit - inTransit
           l == Len(q)
           a == Min({x, l})
           room == Max({0, a})
           held == {i \in 1 .. room : WindowBlocks(CountedWindows(q, i - 1), q[i])}
           S == {i - 1 : i \in held} \cup {room}
           n == Min(S)
<1>1. x \in Int /\ l \in Nat
  OBVIOUS
<1> HIDE DEF x, l
<1>2. a \in Int /\ a <= l
  <2> DEFINE R == {x, l}
  <2>1. \E y \in R : \A z \in R : y <= z
    <3>1. CASE x <= l
      <4>1. x \in R /\ \A z \in R : x <= z
        BY <1>1, <3>1
      <4> QED BY <4>1, Zenon
    <3>2. CASE l <= x
      <4>1. l \in R /\ \A z \in R : l <= z
        BY <1>1, <3>2
      <4> QED BY <4>1, Zenon
    <3> QED BY <1>1, <3>1, <3>2
  <2> HIDE DEF R
  <2>2. Min(R) \in R /\ \A z \in R : Min(R) <= z
    BY <2>1, Zenon DEF Min
  <2> QED BY <1>1, <2>2 DEF R
<1> HIDE DEF a
<1>3. room \in 0 .. l
  BY <1>1, <1>2 DEF Max
<1> HIDE DEF room
<1>4. S \in SUBSET Nat /\ S # {} /\ room \in S /\ \A i \in held : i - 1 \in S
  BY <1>3
<1>5. \A i \in 1 .. room : i \in held <=> WindowBlocks(CountedWindows(q, i - 1), q[i])
  OBVIOUS
<1> HIDE DEF S, held
<1>6. n \in S /\ \A y \in S : n <= y
  BY <1>4, MinIs
<1>7. n \in Nat /\ n <= room
  BY <1>4, <1>6
<1>8. n \in 0 .. l
  BY <1>1, <1>3, <1>7
<1>9. \A i \in 1 .. n : ~ WindowBlocks(CountedWindows(q, i - 1), q[i])
  <2> TAKE i \in 1 .. n
  <2>1. i \in 1 .. room
    BY <1>3, <1>7
  <2>2. i \in held => n <= i - 1
    BY <1>4, <1>6
  <2>3. ~ (n <= i - 1)
    BY <1>7
  <2> QED BY <1>5, <2>1, <2>2, <2>3
<1>10. Sendable(q, inTransit, limit) = n
  BY DEF Sendable, n, S, held, room, a, x, l
<1> QED BY <1>8, <1>9, <1>10 DEF l, CanSend

\* Removing from a window counter what is not there leaves it.
LEMMA QueuedSub ==
    ASSUME NEW s, NEW q, Queued(s, q), NEW r, NEW p, Listed(r, p),
           Range(r) \cup Range(p) \subseteq Range(s) \cup Range(q)
    PROVE  Queued(r, p)
BY DEF Queued

\* enet_protocol_send_outgoing_commands
LEMMA SendOutgoingSound ==
    ASSUME SenderSound, NetworkTypes, NEW timedOut \in SUBSET Range(sentReliableCommands),
           NEW limit \in TransitLimits, SendOutgoing(timedOut, limit)
    PROVE  SenderSound' /\ NetworkTypes'
<1> DEFINE s == sentReliableCommands
           q == outgoingSendReliableCommands
           t == Kept(s, timedOut)
           k == Kept(s, Range(s) \ timedOut)
           p == t \o q
           inTransit == reliableDataInTransit - Cardinality(timedOut)
           n == Sendable(p, inTransit, limit)
           now == SentNow(p, n)
           rest == Unsent(p, n)
<1>1. Listed(s, q) /\ (\A m \in Range(s) \cup Range(q) : m.abs <= lastQueued[m.ch])
      /\ SenderTypes /\ Counted(Out(s, q), reliableWindows) /\ reliableDataInTransit = Len(s)
  BY DEF SenderSound, Queued
<1>2. /\ Listed(k, p) /\ Range(k) \cup Range(p) = Range(s) \cup Range(q)
      /\ Len(k) = Len(s) - Cardinality(timedOut)
      /\ Len(s) \in Nat /\ Len(k) \in Nat /\ Cardinality(timedOut) \in Nat
  <2>1. Requeues(s, q, timedOut, t, k)
    <3>1. Listed(s, q) /\ timedOut \in SUBSET Range(s)
      BY <1>1
    <3>2. t = Kept(s, timedOut) /\ k = Kept(s, Range(s) \ timedOut)
      OBVIOUS
    <3> HIDE DEF t, k, s, q
    <3> QED BY <3>1, <3>2, RequeuedLists, Zenon
  <2> QED BY <2>1 DEF Requeues
<1>3. /\ outgoingSendReliableCommands' = rest
      /\ sentReliableCommands' = k \o now
      /\ reliableWindows' = CountedWindows(p, n)
      /\ reliableDataInTransit' = inTransit + n
      /\ \E top : data' = Alive(data \cup Range(now), top) /\ acks' = Alive(acks, top)
      /\ UNCHANGED <<submitted, lastQueued>>
  BY DEF SendOutgoing, Requeued, SentNow, Unsent
<1> HIDE DEF t, k, p
<1>4. k \in Seq(Commands) /\ p \in Seq(Commands)
  BY <1>2 DEF Listed
<1>5. inTransit \in Int /\ inTransit = Len(k) /\ limit \in Int
  BY <1>1, <1>2, LimitAssumption
<1> HIDE DEF inTransit
<1>6. n \in 0 .. Len(p)
  BY <1>4, <1>5, SendableIs DEF CanSend
<1> HIDE DEF n
<1>7. Listed(k \o now, rest) /\ Out(k \o now, rest) = Out(k, p) \cup {now[i] : i \in 1 .. n}
  BY <1>2, <1>6, SentLists
<1>8. Sends(now, p, n)
  BY <1>4, <1>6, NowSent
<1>9. /\ now \in Seq(Commands) /\ Len(now) = n
      /\ \A i \in 1 .. n : now[i].ch = p[i].ch /\ now[i].abs = p[i].abs
  BY <1>8 DEF Sends
<1>10. Out(k, p) = Out(s, q)
  BY <1>2 DEF Out
<1>11. /\ CountedWindows(p, n) \in WindowCounters
       /\ Counted(Out(k \o now, rest), CountedWindows(p, n))
  <2>1. reliableWindows \in WindowCounters /\ Counted(Out(k, p), reliableWindows)
    BY <1>1, <1>10 DEF SenderTypes
  <2> QED BY <1>2, <1>6, <2>1, SentCounted
<1>12. Len(k \o now) = inTransit + n /\ Len(k \o now) \in Nat
  <2>1. Joined(k \o now, k, now, Commands)
    BY <1>4, <1>9, JoinedIs
  <2>2. Len(k \o now) = Len(k) + Len(now)
    BY <2>1 DEF Joined
  <2>3. n \in Nat /\ Len(k) \in Nat
    BY <1>2, <1>4, <1>6
  <2> QED BY <1>5, <1>9, <2>2, <2>3
<1>13. \A m \in Range(k \o now) \cup Range(rest) : m.abs <= lastQueued[m.ch]
  <2>1. \A m \in Range(p) : m.abs <= lastQueued[m.ch]
    BY <1>1, <1>2
  <2>2. \A i \in 1 .. Len(p) : p[i] \in Range(p)
    BY <1>4, RangeIs
  <2>3. \A i \in 1 .. n : now[i].abs <= lastQueued[now[i].ch]
    <3> TAKE i \in 1 .. n
    <3>1. i \in 1 .. Len(p)
      BY <1>4, <1>6
    <3> QED BY <1>9, <2>1, <2>2, <3>1
  <2>4. \A m \in Range(k \o now) : m \in Range(k) \/ \E i \in 1 .. n : m = now[i]
    <3>1. Joined(k \o now, k, now, Commands)
      BY <1>4, <1>9, JoinedIs
    <3> DEFINE u == k \o now
    <3> HIDE DEF u
    <3>2. /\ u \in Seq(Commands)
          /\ \A i \in 1 .. Len(u) : i \in 1 .. Len(k) \/ i - Len(k) \in 1 .. Len(now)
          /\ \A i \in 1 .. Len(k) : u[i] = k[i]
          /\ \A i \in 1 .. Len(u) : i \notin 1 .. Len(k) => u[i] = now[i - Len(k)]
      BY <3>1 DEF Joined, u
    <3>3. \A i \in 1 .. Len(k) : k[i] \in Range(k)
      BY <1>4, RangeIs
    <3>4. \A m \in Range(u) : m \in Range(k) \/ \E i \in 1 .. n : m = now[i]
      <4> TAKE m \in Range(u)
      <4>1. PICK i \in 1 .. Len(u) : u[i] = m
        BY <3>2, RangeIs
      <4> QED BY <1>9, <3>2, <3>3, <4>1
    <3> QED BY <3>4 DEF u
  <2>5. \A m \in Range(rest) : m \in Range(p)
    <3> TAKE m \in Range(rest)
    <3>1. rest \in Seq(Commands) /\ \A i \in 1 .. Len(rest) : rest[i] = p[n + i] /\ n + i \in 1 .. Len(p)
      BY <1>4, <1>6 DEF Unsent
    <3> HIDE DEF rest
    <3>2. PICK i \in 1 .. Len(rest) : rest[i] = m
      BY <3>1, RangeIs
    <3> QED BY <2>2, <3>1, <3>2
  <2>6. \A m \in Range(k) : m.abs <= lastQueued[m.ch]
    BY <1>1, <1>2
  <2> QED BY <2>1, <2>3, <2>4, <2>5, <2>6
<1>14. data' \subseteq Commands /\ acks' \subseteq [ch : Channels, abs : Nat]
  <2>1. PICK top : data' = Alive(data \cup Range(now), top) /\ acks' = Alive(acks, top)
    BY <1>3
  <2>2. Range(now) \subseteq Commands
    BY <1>9 DEF Range
  <2> QED BY <2>1, <2>2 DEF Alive, NetworkTypes
<1> HIDE DEF now, rest
<1>15. SenderTypes'
  BY <1>1, <1>3, <1>11, <1>12 DEF SenderTypes
<1> QED BY <1>3, <1>7, <1>11, <1>12, <1>13, <1>14, <1>15 DEF SenderSound, Queued, NetworkTypes

-----------------------------------------------------------------------------

\* The commands an acknowledgement finds.
LEMMA FoundIs ==
    ASSUME NEW s, s = sentReliableCommands, NEW q, q = outgoingSendReliableCommands,
           Listed(s, q), NEW a
    PROVE  /\ FoundInFlight(a) # {} => Min(FoundInFlight(a)) \in FoundInFlight(a)
           /\ FoundInFlight(a) \subseteq 1 .. Len(s)
           /\ \A i \in FoundInFlight(a) : s[i].ch = a.ch /\ Seq16(s[i]) = Seq16(a)
           /\ FoundSent(q, a) # {} => Min(FoundSent(q, a)) \in FoundSent(q, a)
           /\ FoundSent(q, a) \subseteq 1 .. Len(q)
           /\ \A i \in FoundSent(q, a) : q[i].ch = a.ch /\ Seq16(q[i]) = Seq16(a) /\ q[i].attempted
<1> DEFINE F == FoundInFlight(a)
           Q == FoundSent(q, a)
<1>1. s \in Seq(Commands) /\ q \in Seq(Commands)
  BY DEF Listed
<1>2. Len(s) \in Nat /\ Len(q) \in Nat /\ DOMAIN s = 1 .. Len(s) /\ DOMAIN q = 1 .. Len(q)
  BY <1>1
<1>3. F \subseteq 1 .. Len(s) /\ \A i \in F : s[i].ch = a.ch /\ Seq16(s[i]) = Seq16(a)
  BY <1>2 DEF FoundInFlight
<1>4. Q \subseteq 1 .. Len(q) /\ \A i \in Q : /\ q[i].ch = a.ch /\ Seq16(q[i]) = Seq16(a)
                                              /\ \A j \in 1 .. i : ~ Fresh(q[j])
  BY <1>2 DEF FoundSent
<1>5. \A i \in Q : q[i].attempted
  <2> TAKE i \in Q
  <2>1. i \in 1 .. i
    BY <1>4
  <2> QED BY <1>4, <2>1 DEF Fresh
<1> HIDE DEF F, Q
<1>6. F \in SUBSET Nat /\ Q \in SUBSET Nat
  BY <1>2, <1>3, <1>4
<1>7. (F # {} => Min(F) \in F) /\ (Q # {} => Min(Q) \in Q)
  BY <1>6, MinIs
<1> QED BY <1>3, <1>4, <1>5, <1>7 DEF F, Q

\* enet_protocol_handle_acknowledge
LEMMA HandleAcknowledgeSound ==
    ASSUME SenderSound, NEW a, HandleAcknowledge(a)
    PROVE  SenderSound'
<1> DEFINE s == sentReliableCommands
           q == outgoingSendReliableCommands
           F == FoundInFlight(a)
           Q == FoundSent(q, a)
           w == Window(Seq16(a))
           O == Out(s, q)
<1>1. /\ Listed(s, q) /\ Queued(s, q) /\ SenderTypes /\ Counted(O, reliableWindows)
      /\ reliableWindows \in WindowCounters /\ reliableDataInTransit = Len(s)
  BY DEF SenderSound, SenderTypes, Queued
<1>2. /\ F # {} => Min(F) \in F
      /\ F \subseteq 1 .. Len(s)
      /\ \A i \in F : s[i].ch = a.ch /\ Seq16(s[i]) = Seq16(a)
      /\ Q # {} => Min(Q) \in Q
      /\ Q \subseteq 1 .. Len(q)
      /\ \A i \in Q : q[i].ch = a.ch /\ Seq16(q[i]) = Seq16(a) /\ q[i].attempted
  BY <1>1, FoundIs
<1>3. submitted' = submitted /\ lastQueued' = lastQueued /\ RemoveSent(a)
  BY DEF HandleAcknowledge
<1>4. IsFiniteSet(O) /\ O \subseteq Commands
  BY <1>1, OutFinite
<1>5. s \in Seq(Commands) /\ q \in Seq(Commands)
  BY <1>1 DEF Listed
<1>6. ASSUME NEW m \in O, a.ch = m.ch, Seq16(a) = Seq16(m)
      PROVE  /\ Released(reliableWindows, a.ch, w) \in WindowCounters
             /\ Counted(O \ {m}, Released(reliableWindows, a.ch, w))
  BY <1>1, <1>4, <1>6, RemovedCounted
<1>7. CASE F \cup Q = {}
  <2>1. UNCHANGED <<reliableWindows, outgoingSendReliableCommands, sentReliableCommands,
                    reliableDataInTransit>>
    BY <1>3, <1>7 DEF RemoveSent
  <2> QED BY <1>3, <2>1 DEF SenderSound, SenderTypes, Queued, Counted, InWindowOf
<1>8. CASE F # {}
  <2> DEFINE i == Min(F)
             t == RemoveAt(s, i)
  <2>1. /\ reliableWindows' = Released(reliableWindows, a.ch, w)
        /\ sentReliableCommands' = t /\ reliableDataInTransit' = reliableDataInTransit - 1
        /\ outgoingSendReliableCommands' = q
    BY <1>3, <1>8 DEF RemoveSent, Released
  <2>2. i \in 1 .. Len(s) /\ s[i].ch = a.ch /\ Seq16(s[i]) = Seq16(a)
    BY <1>2, <1>8
  <2> HIDE DEF i
  <2>3. /\ Listed(t, q) /\ Len(t) = Len(s) - 1
        /\ Range(t) = Range(s) \ {s[i]} /\ s[i] \in O
        /\ Out(t, q) = O \ {s[i]}
    BY <1>1, <2>2, RemovedSent
  <2> HIDE DEF t
  <2>4. /\ Released(reliableWindows, a.ch, w) \in WindowCounters
        /\ Counted(Out(t, q), Released(reliableWindows, a.ch, w))
    BY <1>6, <2>2, <2>3
  <2>5. Queued(t, q)
    <3>1. Range(t) \cup Range(q) \subseteq Range(s) \cup Range(q)
      BY <2>3
    <3> QED BY <1>1, <2>3, <3>1 DEF Queued
  <2>6. Len(t) \in Nat
    BY <2>3 DEF Listed
  <2>7. SenderTypes'
    BY <1>1, <1>3, <2>1, <2>3, <2>4, <2>6 DEF SenderTypes
  <2>8. reliableDataInTransit' = Len(sentReliableCommands')
    BY <1>1, <2>1, <2>3
  <2> QED BY <1>3, <2>1, <2>4, <2>5, <2>7, <2>8 DEF SenderSound, Queued
<1>9. CASE F = {} /\ Q # {}
  <2> DEFINE i == Min(Q)
             t == RemoveAt(q, i)
  <2>1. /\ reliableWindows' = Released(reliableWindows, a.ch, w)
        /\ sentReliableCommands' = s /\ reliableDataInTransit' = reliableDataInTransit
        /\ outgoingSendReliableCommands' = t
    BY <1>3, <1>9 DEF RemoveSent, Released
  <2>2. i \in 1 .. Len(q) /\ q[i].ch = a.ch /\ Seq16(q[i]) = Seq16(a) /\ q[i].attempted
    BY <1>2, <1>9
  <2> HIDE DEF i
  <2>3. /\ Listed(s, t)
        /\ Range(t) = Range(q) \ {q[i]} /\ q[i] \in O
        /\ Out(s, t) = O \ {q[i]}
    BY <1>1, <2>2, RemovedQueued
  <2> HIDE DEF t
  <2>4. /\ Released(reliableWindows, a.ch, w) \in WindowCounters
        /\ Counted(Out(s, t), Released(reliableWindows, a.ch, w))
    BY <1>6, <2>2, <2>3
  <2>5. Queued(s, t)
    <3>1. Range(s) \cup Range(t) \subseteq Range(s) \cup Range(q)
      BY <2>3
    <3> QED BY <1>1, <2>3, <3>1 DEF Queued
  <2>7. SenderTypes'
    BY <1>1, <1>3, <2>1, <2>4 DEF SenderTypes
  <2> QED BY <1>1, <1>3, <2>1, <2>4, <2>5, <2>7 DEF SenderSound, Queued
<1> QED BY <1>7, <1>8, <1>9

-----------------------------------------------------------------------------
(* The receiving peer *)

\* A number reduced to the width of the wire is one of the wire.
LEMMA OnTheWire == ASSUME NEW x \in Int PROVE x % SeqSpace \in 0 .. SeqSpace - 1
<1>1. SeqSpace \in Nat \ {0}
  BY WindowBounds
<1> DEFINE n == SeqSpace
<1> HIDE DEF n
<1> QED BY <1>1, SMT DEF n

Holding(incoming) == SumFunction([c \in Channels |-> Sizes(incoming[c])])

\* The lists of the receiving peer have sizes.
LEMMA EntriesSized == Sized(Entries) /\ Sized(Dispatched) /\ Sized(Entries \cup Dispatched)
BY DEF Sized, Entries, Dispatched

\* A list of one channel is replaced by another.
LEMMA HoldingChange ==
    ASSUME NEW f \in [Channels -> Seq(Entries)], NEW c \in Channels, NEW l \in Seq(Entries)
    PROVE  /\ Holding(f) \in Int /\ Holding([f EXCEPT ![c] = l]) \in Int
           /\ Holding([f EXCEPT ![c] = l]) = Holding(f) - Sizes(f[c]) + Sizes(l)
<1> DEFINE h == [f EXCEPT ![c] = l]
           a == [d \in Channels |-> Sizes(f[d])]
           b == [d \in Channels |-> Sizes(h[d])]
<1>1. \A s \in Seq(Entries) : Sizes(s) \in Nat
  BY EntriesSized, SizesIs
<1>2. \A d \in Channels : f[d] \in Seq(Entries) /\ h[d] \in Seq(Entries)
  OBVIOUS
<1>3. /\ a \in [Channels -> Int] /\ b \in [Channels -> Int]
      /\ \A d \in Channels \ {c} : a[d] = b[d]
      /\ a[c] = Sizes(f[c]) /\ b[c] = Sizes(l)
  BY <1>1, <1>2
<1> HIDE DEF a, b
<1>4. IsFiniteSet(Channels)
  BY LimitAssumption
<1>5. /\ SumFunction(a) \in Int /\ SumFunction(b) \in Int
      /\ SumFunction(b) = SumFunction(a) - a[c] + b[c]
  <2>1. IsFiniteSet(Channels) /\ a \in [Channels -> Int] /\ b \in [Channels -> Int]
    BY <1>3, <1>4
  <2>2. \A d \in Channels \ {c} : a[d] = b[d]
    BY <1>3
  <2> QED BY <2>1, <2>2, SumChange
<1> QED BY <1>3, <1>5 DEF Holding, a, b

\* How much of a list is dispatched.
LEMMA DispatchableIs ==
    ASSUME NEW l \in Seq(Entries), NEW current
    PROVE  Dispatchable(l, current) \in 0 .. Len(l)
<1> DEFINE waits == {i \in DOMAIN l :
                    \/ ~Whole(l[i])
                    \/ l[i].seq # (DispatchedUpTo(l, current, i - 1) + 1) % SeqSpace}
           S == {i - 1 : i \in waits} \cup {Len(l)}
<1>1. Len(l) \in Nat /\ DOMAIN l = 1 .. Len(l)
  OBVIOUS
<1>2. waits \subseteq 1 .. Len(l)
  BY <1>1
<1> HIDE DEF waits
<1>3. S \in SUBSET (0 .. Len(l)) /\ S # {} /\ S \in SUBSET Nat
  BY <1>1, <1>2
<1>4. Dispatchable(l, current) = Min(S)
  BY DEF Dispatchable, waits, S
<1> HIDE DEF S
<1>5. Min(S) \in S
  BY <1>3, MinIs
<1> QED BY <1>3, <1>4, <1>5

Cut(l, n, D) ==
    /\ l = SubSeq(l, 1, n) \o SubSeq(l, n + 1, Len(l))
    /\ SubSeq(l, 1, n) \in Seq(D) /\ SubSeq(l, n + 1, Len(l)) \in Seq(D)

\* A list is its first n elements and the others.
LEMMA CutIs ==
    ASSUME NEW D, NEW l \in Seq(D), NEW n \in 0 .. Len(l)
    PROVE  Cut(l, n, D)
<1> DEFINE a == SubSeq(l, 1, n)
           b == SubSeq(l, n + 1, Len(l))
           u == a \o b
<1>1. Len(l) \in Nat /\ \A i \in 1 .. Len(l) : l[i] \in D
  OBVIOUS
<1>2. a \in Seq(D) /\ b \in Seq(D) /\ Len(a) = n /\ \A i \in 1 .. n : a[i] = l[i]
  BY <1>1, SMT
<1>3. Len(b) = Len(l) - n /\ \A i \in 1 .. Len(l) - n : b[i] = l[n + i]
  BY <1>1, SMT
<1>4. Joined(u, a, b, D)
  BY <1>2, JoinedIs, Zenon
<1> HIDE DEF a, b, u
<1>5. /\ u \in Seq(D) /\ Len(u) = Len(a) + Len(b)
      /\ \A i \in 1 .. Len(a) : u[i] = a[i]
      /\ \A i \in 1 .. Len(u) : i \notin 1 .. Len(a) => u[i] = b[i - Len(a)]
  BY <1>4 DEF Joined
<1>6. Len(u) = Len(l)
  BY <1>1, <1>2, <1>3, <1>5
<1>7. ASSUME NEW i \in 1 .. Len(l) PROVE u[i] = l[i]
  <2>1. CASE i \in 1 .. n
    BY <1>2, <1>5, <2>1
  <2>2. CASE i \notin 1 .. n
    <3>1. i - n \in 1 .. Len(l) - n /\ n + (i - n) = i
      BY <1>1, <2>2
    <3>2. b[i - n] = l[i]
      BY <1>3, <3>1
    <3> QED BY <1>2, <1>5, <1>6, <2>2, <3>2
  <2> QED BY <2>1, <2>2
<1>8. u = l
  BY <1>5, <1>6, <1>7
<1> QED BY <1>2, <1>8 DEF Cut, u, a, b

\* What is dispatched of list l of channel c moves from one list to the other.
Moves(c, l) ==
    /\ incomingReliableSequenceNumber' \in [Channels -> 0 .. SeqSpace - 1]
    /\ incomingReliableCommands' \in [Channels -> Seq(Entries)]
    /\ dispatchedCommands' \in Seq(Dispatched)
    /\ Sizes(dispatchedCommands') + Holding(incomingReliableCommands')
         = Sizes(dispatchedCommands) + Holding(incomingReliableCommands)
             - Sizes(incomingReliableCommands[c]) + Sizes(l)

\* What enet_peer_dispatch_incoming_reliable_commands does to the lists.
LEMMA DispatchSound ==
    ASSUME ReceiverTypes, NEW c \in Channels, NEW l \in Seq(Entries), Dispatch(c, l)
    PROVE  Moves(c, l)
<1> DEFINE current == incomingReliableSequenceNumber[c]
           n == Dispatchable(l, current)
           a == SubSeq(l, 1, n)
           b == SubSeq(l, n + 1, Len(l))
           m == [i \in 1 .. n |-> [ch |-> c, src |-> Contents(l[i]), count |-> l[i].count]]
<1>1. /\ incomingReliableSequenceNumber \in [Channels -> 0 .. SeqSpace - 1]
      /\ incomingReliableCommands \in [Channels -> Seq(Entries)]
      /\ dispatchedCommands \in Seq(Dispatched)
  BY DEF ReceiverTypes
<1>2. /\ incomingReliableSequenceNumber' =
             [incomingReliableSequenceNumber EXCEPT ![c] = DispatchedUpTo(l, current, n)]
      /\ incomingReliableCommands' = [incomingReliableCommands EXCEPT ![c] = b]
      /\ dispatchedCommands' = dispatchedCommands \o m
  BY DEF Dispatch
<1>3. n \in 0 .. Len(l)
  BY DispatchableIs
<1>4. Len(l) \in Nat /\ \A i \in 1 .. Len(l) : l[i] \in Entries
  OBVIOUS
<1>5. current \in 0 .. SeqSpace - 1
  BY <1>1
<1> HIDE DEF current, n
<1>6. DispatchedUpTo(l, current, n) \in 0 .. SeqSpace - 1
  <2>1. CASE n = 0
    BY <1>5, <2>1 DEF DispatchedUpTo
  <2>2. CASE n # 0
    <3>1. n \in 1 .. Len(l)
      BY <1>3, <2>2
    <3>2. l[n].seq \in Int /\ l[n].count \in Int
      <4>1. l[n] \in Entries
        BY <1>4, <3>1
      <4> QED BY <4>1, WindowBounds DEF Entries
    <3>3. l[n].seq + l[n].count - 1 \in Int
      BY <3>2
    <3>4. (l[n].seq + l[n].count - 1) % SeqSpace \in 0 .. SeqSpace - 1
      BY <3>3, OnTheWire
    <3> QED BY <2>2, <3>4 DEF DispatchedUpTo
  <2> QED BY <2>1, <2>2
<1>7. /\ a \in Seq(Entries) /\ b \in Seq(Entries) /\ Len(a) = n
      /\ \A i \in 1 .. n : a[i] = l[i]
  BY <1>3, <1>4, SMT
<1>8. l = a \o b
  <2>1. Cut(l, n, Entries)
    BY <1>3, CutIs
  <2> QED BY <2>1 DEF Cut
<1>9. m \in Seq(Dispatched) /\ Len(m) = n /\ \A i \in 1 .. n : m[i].count = l[i].count
  <2>1. \A i \in 1 .. n : l[i] \in Entries
    BY <1>3, <1>4
  <2>2. \A e \in Entries : Contents(e) \in SUBSET Nat /\ e.count \in Nat
    BY DEF Contents, Entries
  <2>3. \A i \in 1 .. n : m[i] \in Dispatched /\ m[i].count = l[i].count
    BY <2>1, <2>2 DEF Dispatched
  <2> QED BY <1>3, <2>3
<1> HIDE DEF a, b, m
<1>10. Sizes(a) = Sizes(m)
  <2>1. a \in Seq(Entries \cup Dispatched) /\ m \in Seq(Entries \cup Dispatched)
    BY <1>7, <1>9
  <2>2. Len(a) = Len(m) /\ \A i \in 1 .. Len(a) : a[i].count = m[i].count
    BY <1>7, <1>9
  <2> QED BY <2>1, <2>2, EntriesSized, SizesSame
<1>11. Sizes(l) = Sizes(a) + Sizes(b)
  BY <1>7, <1>8, EntriesSized, SizesConcat
<1>12. Sizes(dispatchedCommands \o m) = Sizes(dispatchedCommands) + Sizes(m)
  BY <1>1, <1>9, EntriesSized, SizesConcat
<1>13. /\ Holding([incomingReliableCommands EXCEPT ![c] = b])
            = Holding(incomingReliableCommands) - Sizes(incomingReliableCommands[c]) + Sizes(b)
       /\ Holding(incomingReliableCommands) \in Int
  BY <1>1, <1>7, HoldingChange
<1>14. /\ Sizes(a) \in Nat /\ Sizes(b) \in Nat /\ Sizes(m) \in Nat
       /\ Sizes(dispatchedCommands) \in Nat /\ Sizes(incomingReliableCommands[c]) \in Nat
  <2>1. incomingReliableCommands[c] \in Seq(Entries)
    BY <1>1
  <2> QED BY <1>1, <1>7, <1>9, <2>1, EntriesSized, SizesIs
<1>15. dispatchedCommands \o m \in Seq(Dispatched)
  BY <1>1, <1>9
<1>16. Sizes(dispatchedCommands \o m) + Holding([incomingReliableCommands EXCEPT ![c] = b])
         = Sizes(dispatchedCommands) + Holding(incomingReliableCommands)
                    - Sizes(incomingReliableCommands[c]) + Sizes(l)
  BY <1>10, <1>11, <1>12, <1>13, <1>14
<1> QED BY <1>1, <1>2, <1>6, <1>7, <1>15, <1>16 DEF Moves

-----------------------------------------------------------------------------

\* The place of a number among those waiting.
LEMMA PositionIs ==
    ASSUME NEW l \in Seq(Entries), NEW seq, NEW current
    PROVE  /\ InsertPosition(l, seq, current) \in 0 .. Len(l)
           /\ InsertPosition(l, seq, current) + 1 \in 1 .. Len(l) + 1
           /\ FoundAt(l, seq, current) \in 0 .. Len(l)
<1> DEFINE S == {0} \cup {i \in DOMAIN l : NotAfter(l[i].seq, seq, current)}
           n == Len(l)
<1>1. n \in Nat /\ DOMAIN l = 1 .. n
  OBVIOUS
<1> HIDE DEF n
<1>2. S \in SUBSET (0 .. n) /\ S # {}
  BY <1>1
<1>3. InsertPosition(l, seq, current) = Max(S)
  BY DEF InsertPosition
<1> HIDE DEF S
<1>4. Max(S) \in S
  BY <1>1, <1>2, MaxIs
<1>5. InsertPosition(l, seq, current) \in 0 .. n
  BY <1>2, <1>3, <1>4
<1> QED BY <1>1, <1>5 DEF FoundAt, n

\* A list with an element more.
LEMMA InsertedSizes ==
    ASSUME NEW l \in Seq(Entries), NEW i \in 1 .. Len(l) + 1, NEW e \in Entries
    PROVE  /\ InsertAt(l, i, e) \in Seq(Entries) /\ i \in 1 .. Len(InsertAt(l, i, e))
           /\ Sizes(InsertAt(l, i, e)) = Sizes(l) + e.count
<1> DEFINE a == SubSeq(l, 1, i - 1)
           b == SubSeq(l, i - 1 + 1, Len(l))
           k == i - 1
           u == InsertAt(l, i, e)
           x == <<e>>
<1>1. u \in Seq(Entries) /\ Len(u) = Len(l) + 1
  BY InsertedIs
<1>2. l = a \o b /\ a \in Seq(Entries) /\ b \in Seq(Entries)
  <2>1. k \in 0 .. Len(l)
    OBVIOUS
  <2> HIDE DEF k
  <2>2. Cut(l, k, Entries)
    BY <2>1, CutIs
  <2> QED BY <2>2 DEF Cut, k
<1>3. u = (a \o x) \o b
  <2>1. i - 1 + 1 = i
    OBVIOUS
  <2> QED BY <2>1 DEF InsertAt
<1> HIDE DEF a, b, u
<1>4. x \in Seq(Entries) /\ Sizes(x) = e.count
  BY EntriesSized, SizesOne
<1> HIDE DEF x
<1>5. Sizes(a \o x) = Sizes(a) + Sizes(x) /\ a \o x \in Seq(Entries)
  BY <1>2, <1>4, EntriesSized, SizesConcat
<1>6. Sizes(u) = Sizes(a \o x) + Sizes(b)
  BY <1>2, <1>3, <1>5, EntriesSized, SizesConcat
<1>7. Sizes(l) = Sizes(a) + Sizes(b)
  BY <1>2, EntriesSized, SizesConcat
<1>8. Sizes(a) \in Nat /\ Sizes(b) \in Nat /\ e.count \in Nat
  <2>1. Sizes(a) \in Nat /\ Sizes(b) \in Nat
    BY <1>2, EntriesSized, SizesIs
  <2> QED BY <2>1 DEF Entries
<1>9. Sizes(u) = Sizes(l) + e.count
  BY <1>4, <1>5, <1>6, <1>7, <1>8
<1>10. i \in 1 .. Len(u)
  BY <1>1
<1> QED BY <1>1, <1>9, <1>10 DEF u

\* A fragment is copied into its packet.
LEMMA CopySound ==
    ASSUME ReceiverTypes, NEW m \in Commands, NEW l \in Seq(Entries), NEW p \in 1 .. Len(l),
           CopyFragment(m, l, p)
    PROVE  Moves(m.ch, l)
<1> DEFINE known == m.frag \in l[p].got
           e == [l[p] EXCEPT !.got = @ \cup {m.frag},
                             !.src = IF known THEN @ ELSE @ \cup {m.pkt}]
           g == [l EXCEPT ![p].got = @ \cup {m.frag},
                          ![p].src = IF known THEN @ ELSE @ \cup {m.pkt}]
           f == [l EXCEPT ![p] = e]
<1>1. m.ch \in Channels /\ m.frag \in Nat /\ m.pkt \in Nat
  BY DEF Commands
<1>2. \A i \in 1 .. Len(l) : l[i] \in Entries
  OBVIOUS
<1>3. e \in Entries /\ e.count = l[p].count
  BY <1>1, <1>2 DEF Entries
<1>4. g = f
  OBVIOUS
<1>5. \/ Dispatch(m.ch, f)
      \/ /\ incomingReliableCommands' = [incomingReliableCommands EXCEPT ![m.ch] = f]
         /\ UNCHANGED <<incomingReliableSequenceNumber, dispatchedCommands>>
  BY <1>4 DEF CopyFragment
<1> HIDE DEF e, g
<1>6. f \in Seq(Entries) /\ Len(f) = Len(l) /\ \A i \in 1 .. Len(l) : f[i].count = l[i].count
  BY <1>3
<1> HIDE DEF f
<1>7. Sizes(f) = Sizes(l)
  BY <1>6, EntriesSized, SizesSame
<1>8. CASE Dispatch(m.ch, f)
  <2>1. Moves(m.ch, f)
    BY <1>1, <1>6, <1>8, DispatchSound
  <2> QED BY <1>7, <2>1 DEF Moves
<1>9. CASE /\ incomingReliableCommands' = [incomingReliableCommands EXCEPT ![m.ch] = f]
           /\ UNCHANGED <<incomingReliableSequenceNumber, dispatchedCommands>>
  <2>1. /\ incomingReliableSequenceNumber \in [Channels -> 0 .. SeqSpace - 1]
        /\ incomingReliableCommands \in [Channels -> Seq(Entries)]
        /\ dispatchedCommands \in Seq(Dispatched)
    BY DEF ReceiverTypes
  <2>2. /\ Holding([incomingReliableCommands EXCEPT ![m.ch] = f])
              = Holding(incomingReliableCommands) - Sizes(incomingReliableCommands[m.ch]) + Sizes(f)
        /\ Holding(incomingReliableCommands) \in Int
    BY <1>1, <1>6, <2>1, HoldingChange
  <2>3. /\ Sizes(dispatchedCommands) \in Nat /\ Sizes(incomingReliableCommands[m.ch]) \in Nat
        /\ Sizes(f) \in Nat
    <3>1. incomingReliableCommands[m.ch] \in Seq(Entries)
      BY <1>1, <2>1
    <3> QED BY <1>6, <2>1, <3>1, EntriesSized, SizesIs
  <2>4. [incomingReliableCommands EXCEPT ![m.ch] = f] \in [Channels -> Seq(Entries)]
    BY <1>6, <2>1
  <2> QED BY <1>7, <1>9, <2>1, <2>2, <2>3, <2>4 DEF Moves
<1> QED BY <1>5, <1>8, <1>9

-----------------------------------------------------------------------------

\* What the lists of the receiving peer hold.
LEMMA EntriesHeld ==
    ASSUME NEW f \in [Channels -> Seq(Entries)]
    PROVE  Holding(f) \in Nat
<1> DEFINE a == [d \in Channels |-> Sizes(f[d])]
<1>1. \A s \in Seq(Entries) : Sizes(s) \in Nat
  BY EntriesSized, SizesIs
<1>2. a \in [Channels -> Nat]
  BY <1>1
<1> HIDE DEF a
<1>3. IsFiniteSet(Channels) /\ Channels \in SUBSET Channels /\ DOMAIN a = Channels
  BY <1>2, LimitAssumption
<1>4. SumFunctionOnSet(a, Channels) \in Nat
  BY <1>2, <1>3, SumNat
<1> QED BY <1>3, <1>4 DEF Holding, SumFunction, a

\* A new packet is queued, or a fragment of one already queued, and the list dispatched.
LEMMA QueuedSound ==
    ASSUME ReceiverSound, NEW c \in Channels, NEW l, Moves(c, l), NEW k \in Nat,
           Sizes(l) = Sizes(incomingReliableCommands[c]) + k,
           totalWaitingData' = totalWaitingData + k,
           acknowledgements' \subseteq [ch : Channels, abs : Nat], delivered' = delivered
    PROVE  ReceiverSound'
<1> DEFINE i == Sizes(incomingReliableCommands[c])
           d == Sizes(dispatchedCommands)
           h == Holding(incomingReliableCommands)
           dd == Sizes(dispatchedCommands')
           hh == Holding(incomingReliableCommands')
<1>1. ReceiverTypes /\ totalWaitingData = d + h
  BY DEF ReceiverSound, Waiting, Holding
<1>2. i \in Nat /\ d \in Nat
  <2>1. incomingReliableCommands[c] \in Seq(Entries) /\ dispatchedCommands \in Seq(Dispatched)
    BY <1>1 DEF ReceiverTypes
  <2> QED BY <2>1, EntriesSized, SizesIs
<1>3. h \in Int
  <2>1. incomingReliableCommands \in [Channels -> Seq(Entries)]
    BY <1>1 DEF ReceiverTypes
  <2>2. incomingReliableCommands[c] \in Seq(Entries)
    BY <2>1
  <2> QED BY <2>1, <2>2, HoldingChange
<1>4. dd + hh = d + h - i + Sizes(l)
  BY DEF Moves
<1> HIDE DEF i, d, h, dd, hh
<1>5. totalWaitingData' = dd + hh
  <2>1. Sizes(l) = i + k
    BY DEF i
  <2> QED BY <1>1, <1>2, <1>3, <1>4, <2>1
<1>6. totalWaitingData' \in Nat
  <2>1. totalWaitingData \in Nat
    BY <1>1 DEF ReceiverTypes
  <2> QED BY <2>1
<1>7. ReceiverTypes'
  BY <1>1, <1>6 DEF ReceiverTypes, Moves
<1> QED BY <1>5, <1>7 DEF ReceiverSound, Waiting, Holding, dd, hh

\* Only acknowledgements change.
LEMMA NothingQueuedSound ==
    ASSUME ReceiverSound, NothingQueued, delivered' = delivered,
           acknowledgements' \subseteq [ch : Channels, abs : Nat]
    PROVE  ReceiverSound'
BY DEF ReceiverSound, ReceiverTypes, NothingQueued, Waiting

\* What is queued of a datagram.
LEMMA EntryIs ==
    ASSUME NEW m \in Commands, NEW seq \in 0 .. SeqSpace - 1
    PROVE  Entry(m, seq) \in Entries /\ Entry(m, seq).count = m.count
BY DEF Entry, Entries, Commands

\* enet_protocol_handle_send_reliable and enet_protocol_handle_send_fragment
LEMMA HandleDataSound ==
    ASSUME NetworkTypes, ReceiverSound, NEW m, HandleData(m)
    PROVE  ReceiverSound'
<1> DEFINE c == m.ch
           current == incomingReliableSequenceNumber[c]
           l == incomingReliableCommands[c]
<1>1. m \in Commands /\ delivered' = delivered /\ (HandleSendReliable(m) \/ HandleSendFragment(m))
  BY DEF HandleData, NetworkTypes
<1>2. c \in Channels /\ m.count \in Nat /\ m.abs \in Nat /\ m.frag \in Nat
  BY <1>1 DEF Commands
<1>3. ReceiverTypes /\ l \in Seq(Entries) /\ Sizes(l) \in Nat
  <2>1. ReceiverTypes
    BY DEF ReceiverSound
  <2>2. l \in Seq(Entries)
    BY <1>2, <2>1 DEF ReceiverTypes
  <2> QED BY <2>1, <2>2, EntriesSized, SizesIs
<1>4. ASSUME Acknowledge(m) \/ UNCHANGED acknowledgements
      PROVE  acknowledgements' \subseteq [ch : Channels, abs : Nat]
  BY <1>2, <1>3, <1>4 DEF Acknowledge, ReceiverTypes
<1>5. ASSUME NothingQueued, Acknowledge(m) \/ UNCHANGED acknowledgements
      PROVE  ReceiverSound'
  BY <1>1, <1>4, <1>5, NothingQueuedSound
<1>6. Seq16(m) \in 0 .. SeqSpace - 1 /\ StartSeq16(m) \in 0 .. SeqSpace - 1
  <2>1. m.abs - m.frag \in Int /\ m.abs \in Int
    BY <1>2
  <2> QED BY <2>1, OnTheWire DEF Seq16, StartSeq16
<1>7. ASSUME NEW seq \in 0 .. SeqSpace - 1
      PROVE  LET p == InsertPosition(l, seq, current) + 1
                 u == InsertAt(l, p, Entry(m, seq))
             IN  u \in Seq(Entries) /\ p \in 1 .. Len(u) /\ Sizes(u) = Sizes(l) + m.count
  <2> DEFINE p == InsertPosition(l, seq, current) + 1
             e == Entry(m, seq)
  <2>1. p \in 1 .. Len(l) + 1
    BY <1>3, PositionIs
  <2>2. e \in Entries /\ e.count = m.count
    BY <1>1, EntryIs
  <2> HIDE DEF p, e
  <2>3. InsertAt(l, p, e) \in Seq(Entries) /\ p \in 1 .. Len(InsertAt(l, p, e))
        /\ Sizes(InsertAt(l, p, e)) = Sizes(l) + e.count
    BY <1>3, <2>1, <2>2, InsertedSizes
  <2> QED BY <2>2, <2>3 DEF p, e
<1>8. CASE HandleSendReliable(m)
  <2> DEFINE seq == Seq16(m)
             u == InsertAt(l, InsertPosition(l, seq, current) + 1, Entry(m, seq))
  <2>1. CASE NothingQueued /\ (Acknowledge(m) \/ UNCHANGED acknowledgements)
    BY <1>5, <2>1
  <2>2. CASE /\ totalWaitingData' = totalWaitingData + m.count
             /\ Dispatch(c, u) /\ Acknowledge(m)
    <3>1. u \in Seq(Entries) /\ Sizes(u) = Sizes(l) + m.count
      BY <1>6, <1>7
    <3> HIDE DEF u
    <3>2. Moves(c, u)
      BY <1>2, <1>3, <2>2, <3>1, DispatchSound
    <3> QED BY <1>1, <1>2, <1>4, <2>2, <3>1, <3>2, QueuedSound
  <2> QED BY <1>8, <2>1, <2>2 DEF HandleSendReliable
<1>9. CASE HandleSendFragment(m)
  <2> DEFINE start == StartSeq16(m)
             found == FoundAt(l, start, current)
             place == InsertPosition(l, start, current) + 1
             u == InsertAt(l, place, Entry(m, start))
  <2>1. CASE NothingQueued /\ (Acknowledge(m) \/ UNCHANGED acknowledgements)
    BY <1>5, <2>1
  <2>2. CASE /\ found > 0 /\ CopyFragment(m, l, found)
             /\ UNCHANGED totalWaitingData /\ Acknowledge(m)
    <3>1. found \in 1 .. Len(l)
      <4>1. found \in 0 .. Len(l)
        BY <1>3, PositionIs
      <4> QED BY <2>2, <4>1
    <3>2. CopyFragment(m, l, found)
      BY <2>2
    <3> HIDE DEF found
    <3>3. Moves(c, l)
      BY <1>1, <1>3, <3>1, <3>2, CopySound
    <3>4. PICK z \in Nat : z = 0
      OBVIOUS
    <3>5. Sizes(l) = Sizes(l) + z /\ totalWaitingData' = totalWaitingData + z
      BY <1>3, <2>2, <3>4 DEF ReceiverTypes
    <3> QED BY <1>1, <1>2, <1>4, <2>2, <3>3, <3>5, QueuedSound
  <2>3. CASE /\ totalWaitingData' = totalWaitingData + m.count
             /\ CopyFragment(m, u, place) /\ Acknowledge(m)
    <3>1. u \in Seq(Entries) /\ place \in 1 .. Len(u) /\ Sizes(u) = Sizes(l) + m.count
      BY <1>6, <1>7
    <3>0. CopyFragment(m, u, place)
      BY <2>3
    <3> HIDE DEF u, place
    <3>2. Moves(c, u)
      BY <1>1, <1>3, <3>0, <3>1, CopySound
    <3> QED BY <1>1, <1>2, <1>4, <2>3, <3>1, <3>2, QueuedSound
  <2> QED BY <1>9, <2>1, <2>2, <2>3 DEF HandleSendFragment
<1> QED BY <1>1, <1>8, <1>9

\* enet_peer_receive
LEMMA ReceiveSound ==
    ASSUME ReceiverSound, Receive
    PROVE  ReceiverSound'
<1> DEFINE l == dispatchedCommands
           x == Head(l)
           one == <<x>>
           t == Tail(l)
<1>1. /\ l \in Seq(Dispatched) /\ l # <<>>
      /\ delivered \in [Channels -> Seq(SUBSET Nat)]
  BY DEF Receive, ReceiverSound, ReceiverTypes
<1>2. /\ delivered' = [delivered EXCEPT ![x.ch] = Append(@, x.src)]
      /\ totalWaitingData' = totalWaitingData - x.count
      /\ dispatchedCommands' = t
      /\ UNCHANGED <<incomingReliableSequenceNumber, incomingReliableCommands, acknowledgements>>
  BY DEF Receive
<1>3. x \in Dispatched /\ t \in Seq(Dispatched) /\ l = one \o t
  BY <1>1
<1> HIDE DEF l, x, t
<1>4. one \in Seq(Dispatched) /\ Sizes(one) = x.count
  BY <1>3, EntriesSized, SizesOne
<1> HIDE DEF one
<1>5. Sizes(l) = x.count + Sizes(t)
  BY <1>3, <1>4, EntriesSized, SizesConcat
<1>6. Sizes(l) \in Nat /\ Sizes(t) \in Nat /\ x.count \in Nat
  <2>1. Sizes(l) \in Nat /\ Sizes(t) \in Nat
    BY <1>1, <1>3, EntriesSized, SizesIs
  <2> QED BY <1>3, <2>1 DEF Dispatched
<1>7. delivered' \in [Channels -> Seq(SUBSET Nat)]
  <2>1. x.ch \in Channels /\ x.src \in SUBSET Nat
    BY <1>3 DEF Dispatched
  <2>2. Append(delivered[x.ch], x.src) \in Seq(SUBSET Nat)
    BY <1>1, <2>1
  <2> QED BY <1>1, <1>2, <2>2
<1>8. totalWaitingData = Sizes(l) + Holding(incomingReliableCommands)
  BY DEF ReceiverSound, Waiting, Holding, l
<1>9. Holding(incomingReliableCommands) \in Nat
  BY EntriesHeld DEF ReceiverSound, ReceiverTypes
<1>10. totalWaitingData' = Sizes(t) + Holding(incomingReliableCommands) /\ totalWaitingData' \in Nat
  BY <1>2, <1>5, <1>6, <1>8, <1>9
<1>11. ReceiverTypes'
  BY <1>2, <1>3, <1>7, <1>10 DEF ReceiverSound, ReceiverTypes
<1> QED BY <1>2, <1>10, <1>11 DEF ReceiverSound, Waiting, Holding

-----------------------------------------------------------------------------
(* The theorems *)

\* A step that leaves a part of the state leaves what is said of it.
LEMMA SenderUnchanged ==
    ASSUME SenderSound, UNCHANGED senderVars
    PROVE  SenderSound'
BY DEF SenderSound, SenderTypes, Queued, senderVars

\* The same of the receiving peer.
LEMMA ReceiverUnchanged ==
    ASSUME ReceiverSound, UNCHANGED receiverVars
    PROVE  ReceiverSound'
BY DEF ReceiverSound, ReceiverTypes, Waiting, receiverVars

\* Every step keeps the invariant.
LEMMA CInvNext == CInv /\ [Next]_vars => CInv'
<1> SUFFICES ASSUME CInv, [Next]_vars PROVE CInv'
  OBVIOUS
<1>1. SenderSound /\ NetworkTypes /\ ReceiverSound
  BY DEF CInv
<1>2. CASE \E c \in Channels, n \in FragmentCounts : Send(c, n)
  <2>1. PICK c \in Channels, n \in FragmentCounts : Send(c, n)
    BY <1>2
  <2>2. SenderSound'
    BY <1>1, <2>1, SendSound
  <2>3. UNCHANGED receiverVars /\ data' = data /\ acks' = acks
    BY <2>1 DEF Send
  <2> QED BY <1>1, <2>2, <2>3, ReceiverUnchanged DEF CInv, NetworkTypes
<1>3. CASE \E timedOut \in SUBSET Range(sentReliableCommands), limit \in TransitLimits :
              SendOutgoing(timedOut, limit)
  <2>1. PICK timedOut \in SUBSET Range(sentReliableCommands), limit \in TransitLimits :
              SendOutgoing(timedOut, limit)
    BY <1>3
  <2>2. SenderSound' /\ NetworkTypes'
    BY <1>1, <2>1, SendOutgoingSound
  <2>3. UNCHANGED receiverVars
    BY <2>1 DEF SendOutgoing
  <2> QED BY <1>1, <2>2, <2>3, ReceiverUnchanged DEF CInv
<1>4. CASE \E m \in data : HandleData(m)
  <2>1. PICK m \in data : HandleData(m)
    BY <1>4
  <2>2. ReceiverSound'
    BY <1>1, <2>1, HandleDataSound
  <2>3. UNCHANGED senderVars /\ data' = data /\ acks' = acks
    BY <2>1 DEF HandleData
  <2> QED BY <1>1, <2>2, <2>3, SenderUnchanged DEF CInv, NetworkTypes
<1>5. CASE SendAcknowledgements
  <2>1. /\ UNCHANGED senderVars /\ data' = data /\ acks' = acks \cup acknowledgements
        /\ acknowledgements' = {}
        /\ UNCHANGED <<incomingReliableSequenceNumber, incomingReliableCommands,
                       dispatchedCommands, totalWaitingData, delivered>>
    BY <1>5 DEF SendAcknowledgements
  <2>2. ReceiverSound'
    BY <1>1, <2>1 DEF ReceiverSound, ReceiverTypes, Waiting
  <2>3. NetworkTypes'
    BY <1>1, <2>1 DEF NetworkTypes, ReceiverSound, ReceiverTypes
  <2> QED BY <1>1, <2>1, <2>2, <2>3, SenderUnchanged DEF CInv
<1>6. CASE \E a \in acks : HandleAcknowledge(a)
  <2>1. PICK a \in acks : HandleAcknowledge(a)
    BY <1>6
  <2>2. SenderSound'
    BY <1>1, <2>1, HandleAcknowledgeSound
  <2>3. UNCHANGED receiverVars /\ data' = data /\ acks' = acks
    BY <2>1 DEF HandleAcknowledge
  <2> QED BY <1>1, <2>2, <2>3, ReceiverUnchanged DEF CInv, NetworkTypes
<1>7. CASE Receive
  <2>1. ReceiverSound'
    BY <1>1, <1>7, ReceiveSound
  <2>2. UNCHANGED senderVars /\ data' = data /\ acks' = acks
    BY <1>7 DEF Receive
  <2> QED BY <1>1, <2>1, <2>2, SenderUnchanged DEF CInv, NetworkTypes
<1>8. CASE (\E m \in data : LoseData(m)) \/ \E a \in acks : LoseAck(a)
  <2>1. UNCHANGED senderVars /\ UNCHANGED receiverVars /\ data' \subseteq data /\ acks' \subseteq acks
    BY <1>8 DEF LoseData, LoseAck
  <2> QED BY <1>1, <2>1, SenderUnchanged, ReceiverUnchanged DEF CInv, NetworkTypes
<1>9. CASE UNCHANGED vars
  <2>1. UNCHANGED senderVars /\ UNCHANGED receiverVars /\ data' = data /\ acks' = acks
    BY <1>9 DEF vars
  <2> QED BY <1>1, <2>1, SenderUnchanged, ReceiverUnchanged DEF CInv, NetworkTypes
<1> QED BY <1>2, <1>3, <1>4, <1>5, <1>6, <1>7, <1>8, <1>9 DEF Next

\* CInv is an invariant of the channel.
THEOREM ChannelCounts == Spec => []CInv
<1>1. Init => CInv
  BY CInvInit
<1>2. CInv /\ [Next]_vars => CInv'
  BY CInvNext
<1> QED BY <1>1, <1>2, PTL DEF Spec

\* Types; no counter of either peer goes below zero, where it would wrap.
THEOREM TypesKept == Spec => []TypeOK
<1>1. CInv => TypeOK
  BY CInvImplies
<1> QED BY <1>1, ChannelCounts, PTL

\* reliableWindows counts what was attempted and not acknowledged, through
\* timeouts, retransmissions and acknowledgements of either list.
THEOREM WindowsCount == Spec => []WindowsCountOutstanding
<1>1. CInv => WindowsCountOutstanding
  BY CInvImplies
<1> QED BY <1>1, ChannelCounts, PTL

\* Commands queued again by a timeout stay in front of those never sent.
THEOREM RetransmitsStayFirst == Spec => []RetransmitsFirst
<1>1. CInv => RetransmitsFirst
  BY CInvImplies
<1> QED BY <1>1, ChannelCounts, PTL

\* reliableDataInTransit and totalWaitingData follow the lists.
THEOREM DataStaysCounted == Spec => []DataCounted
<1>1. CInv => DataCounted
  BY CInvImplies
<1> QED BY <1>1, ChannelCounts, PTL
=============================================================================
