------------------------- MODULE PeerTimeoutsProofs -------------------------
(***************************************************************************)
(* The timers of a peer are right for every width of the clock and of the  *)
(* times on the wire: the estimate of the round-trip time is made from     *)
(* true round trips, nextTimeout belongs to the command sent first, and a  *)
(* peer is given up when, and only when, it was silent for long enough.    *)
(*                                                                         *)
(* The words of the code are compared with the times of the model's clock, *)
(* which does not wrap: SentAt is the time a command was sent, and the     *)
(* word in earliestTimeout stands for a time near the last news of every   *)
(* command (Mark), or is 0 although there is such a time (Late).           *)
(***************************************************************************)
EXTENDS PeerTimeouts, DataProofs

-----------------------------------------------------------------------------
(* Arithmetic of a word *)

\* Division with remainder.
LEMMA DivMod ==
    ASSUME NEW x \in Int, NEW n \in Nat \ {0}
    PROVE  /\ x \div n \in Int /\ x % n \in 0 .. n - 1
           /\ x = n * (x \div n) + (x % n)
BY SMT

\* A number within one word, or one word below it, and its remainder.
LEMMA Wrapped ==
    ASSUME NEW n \in Nat \ {0}, NEW x \in -n .. n - 1
    PROVE  x % n = IF x >= 0 THEN x ELSE x + n
BY SMT

\* A multiple of n that lies strictly between -n and 2n is 0 or n.
LEMMA SmallMultiple ==
    ASSUME NEW n \in Nat \ {0}, NEW k \in Int, -n < n * k, n * k < 2 * n
    PROVE  k = 0 \/ k = 1
<1>1. k >= 0
  <2>1. ASSUME k <= -1 PROVE FALSE
    <3>1. n * k <= n * (-1)
      BY <2>1, SMT
    <3> QED BY <3>1, SMT
  <2> QED BY <2>1, SMT
<1>2. k <= 1
  <2>1. ASSUME k >= 2 PROVE FALSE
    <3>1. n * k >= n * 2
      BY <2>1, SMT
    <3> QED BY <3>1, SMT
  <2> QED BY <2>1, SMT
<1> QED BY <1>1, <1>2, SMT

\* A product with a difference of three terms.
LEMMA ThreeParts ==
    ASSUME NEW n \in Int, NEW a \in Int, NEW b \in Int, NEW c \in Int
    PROVE  n * (a - (b + c)) = n * a - n * b - n * c
BY SMT

\* The larger of two numbers.
LEMMA MaxOfTwo ==
    ASSUME NEW a \in Int, NEW b \in Int
    PROVE  Max({a, b}) = IF a >= b THEN a ELSE b
BY DEF Max

\* A quotient is no larger than what is divided.
LEMMA Quotient ==
    ASSUME NEW d \in Nat, NEW g \in Nat \ {0}
    PROVE  d \div g \in 0 .. d
<1>1. /\ d \div g \in Int /\ d % g \in 0 .. g - 1
      /\ d = g * (d \div g) + (d % g)
  BY DivMod
<1>2. d \div g >= 0
  <2>1. ASSUME d \div g <= -1 PROVE FALSE
    <3>1. g * (d \div g) <= g * (-1)
      BY <1>1, <2>1, SMT
    <3> QED BY <1>1, <3>1, SMT
  <2> QED BY <1>1, <2>1, SMT
<1>3. g * (d \div g) >= 1 * (d \div g)
  BY <1>1, <1>2, SMT
<1> QED BY <1>1, <1>2, <1>3, SMT

-----------------------------------------------------------------------------
(* The time an acknowledgement carries *)

\* The low half of a time, some time later.
LEMMA LowHalf ==
    ASSUME NEW x \in Nat, NEW n \in Nat \ {0}, NEW age \in 0 .. n - 1, age <= x
    PROVE  (x - age) % n = IF age <= x % n THEN (x % n) - age ELSE (x % n) - age + n
<1> DEFINE y == x - age
           k == (x \div n) - (y \div n)
<1>1. /\ x \div n \in Int /\ x % n \in 0 .. n - 1
      /\ x = n * (x \div n) + (x % n)
  BY DivMod
<1>2. /\ y \in Int /\ y \div n \in Int /\ y % n \in 0 .. n - 1
      /\ y = n * (y \div n) + (y % n)
  <2>1. y \in Int
    OBVIOUS
  <2> QED BY <2>1, DivMod
<1>3. n * k = n * (x \div n) - n * (y \div n) /\ k \in Int
  BY <1>1, <1>2, SMT
<1>4. n * k = age + (y % n) - (x % n)
  BY <1>1, <1>2, <1>3, SMT
<1>5. k = 0 \/ k = 1
  <2>1. -n < n * k /\ n * k < 2 * n
    BY <1>1, <1>2, <1>4, SMT
  <2> QED BY <1>3, <2>1, SmallMultiple
<1>6. n * k = 0 \/ n * k = n
  BY <1>5, SMT
<1> QED BY <1>1, <1>2, <1>4, <1>6, SMT

\* The range of the sent times divides the word.
LEMMA LowOfWord ==
    ASSUME NEW x \in Nat
    PROVE  (x % Word) % SentTimeRange = x % SentTimeRange
<1> DEFINE q == Word \div SentTimeRange
           r == (x % Word) \div SentTimeRange
           l == (x % Word) % SentTimeRange
           k == (x \div SentTimeRange) - (q * (x \div Word) + r)
<1>1. Word \in Nat \ {0} /\ SentTimeRange \in Nat \ {0}
  BY TimeAssumption
<1>2. /\ x \div Word \in Int /\ x % Word \in 0 .. Word - 1
      /\ x = Word * (x \div Word) + (x % Word)
  BY <1>1, DivMod
<1>3. q \in Int /\ Word = SentTimeRange * q
  BY <1>1, DivMod, TimeAssumption
<1>4. /\ r \in Int /\ l \in 0 .. SentTimeRange - 1
      /\ x % Word = SentTimeRange * r + l
  <2>1. x % Word \in Int
    BY <1>2
  <2> HIDE DEF q
  <2> QED BY <1>1, <2>1, DivMod
<1>5. /\ x \div SentTimeRange \in Int /\ x % SentTimeRange \in 0 .. SentTimeRange - 1
      /\ x = SentTimeRange * (x \div SentTimeRange) + (x % SentTimeRange)
  BY <1>1, DivMod
<1>6. Word * (x \div Word) = SentTimeRange * (q * (x \div Word))
  BY <1>1, <1>2, <1>3, SMT
<1>7. /\ k \in Int /\ q * (x \div Word) \in Int
      /\ SentTimeRange * k = SentTimeRange * (x \div SentTimeRange)
            - SentTimeRange * (q * (x \div Word)) - SentTimeRange * r
  <2>1. q * (x \div Word) \in Int
    BY <1>2, <1>3, SMT
  <2>2. x \div SentTimeRange \in Int /\ r \in Int /\ SentTimeRange \in Int
    BY <1>1, <1>4, <1>5
  <2>3. k \in Int
    BY <2>1, <2>2
  <2> HIDE DEF q, r
  <2>4. SentTimeRange * k = SentTimeRange * (x \div SentTimeRange)
            - SentTimeRange * (q * (x \div Word)) - SentTimeRange * r
    BY <2>1, <2>2, ThreeParts, ZenonT(40)
  <2> QED BY <2>1, <2>3, <2>4
<1> HIDE DEF q, r, l, k
<1>8. SentTimeRange * k = l - (x % SentTimeRange)
  <2>1. /\ Word * (x \div Word) \in Int /\ SentTimeRange * r \in Int
        /\ SentTimeRange * (x \div SentTimeRange) \in Int
        /\ x % Word \in Int /\ x % SentTimeRange \in Int /\ l \in Int
    BY <1>1, <1>2, <1>4, <1>5, SMT
  <2>2. SentTimeRange * k = SentTimeRange * (x \div SentTimeRange)
            - Word * (x \div Word) - SentTimeRange * r
    BY <1>6, <1>7, Zenon
  <2>3. /\ x = Word * (x \div Word) + (x % Word)
        /\ x % Word = SentTimeRange * r + l
        /\ x = SentTimeRange * (x \div SentTimeRange) + (x % SentTimeRange)
    BY <1>2, <1>4, <1>5
  <2> DEFINE a == SentTimeRange * (x \div SentTimeRange)
             b == Word * (x \div Word)
             c == SentTimeRange * r
             d == SentTimeRange * k
             y == x % Word
             m == x % SentTimeRange
  <2>4. /\ a \in Int /\ b \in Int /\ c \in Int /\ y \in Int /\ m \in Int /\ l \in Int
        /\ x = b + y /\ y = c + l /\ x = a + m /\ d = a - b - c
    BY <2>1, <2>2, <2>3
  <2>5. d = l - m
    <3> HIDE DEF a, b, c, d, y, m
    <3> QED BY <2>4
  <2> QED BY <2>5
<1>9. -SentTimeRange < SentTimeRange * k /\ SentTimeRange * k < SentTimeRange
  BY <1>1, <1>4, <1>5, <1>8, SMT
<1>10. k = 0
  <2>1. k = 0 \/ k = 1
    BY <1>1, <1>7, <1>9, SmallMultiple, SMT
  <2>2. k = 1 => SentTimeRange * k = SentTimeRange
    BY <1>1, SMT
  <2> QED BY <1>1, <1>9, <2>1, <2>2, SMT
<1>11. SentTimeRange * k = 0
  BY <1>1, <1>10, SMT
<1> QED BY <1>4, <1>5, <1>8, <1>11 DEF l

\* Of an age below the range of the sent times: the time rebuilt from its low
\* half is the right one, or lies in the future, and is ignored then.
LEMMA SentTimeRestored ==
    ASSUME clock \in Nat, NEW at \in Nat, at <= clock, clock - at < SentTimeRange,
           ~ TimeLess(serviceTime, SentTime(at % SentTimeRange))
    PROVE  TimeDifference(serviceTime, SentTime(at % SentTimeRange)) = clock - at
<1> DEFINE age == clock - at
           now == serviceTime
           low == serviceTime % SentTimeRange
           received == at % SentTimeRange
           same == serviceTime - low + received
<1>1. /\ Word \in Nat \ {0} /\ SentTimeRange \in Nat \ {0} /\ Overflow \in Nat
      /\ SentTimeRange <= Overflow /\ 2 * Overflow <= Word
  BY TimeAssumption
<1>2. /\ age \in 0 .. SentTimeRange - 1
      /\ now \in 0 .. Word - 1
      /\ low = clock % SentTimeRange /\ low \in 0 .. SentTimeRange - 1 /\ low <= now
  <2>1. now \in 0 .. Word - 1
    BY <1>1, DivMod DEF serviceTime
  <2>2. low = clock % SentTimeRange
    BY LowOfWord DEF serviceTime
  <2>3. /\ now \div SentTimeRange \in Int /\ low \in 0 .. SentTimeRange - 1
        /\ now = SentTimeRange * (now \div SentTimeRange) + low
    <3>1. now \in Int
      BY <2>1
    <3> HIDE DEF now
    <3> QED BY <1>1, <3>1, DivMod DEF now
  <2>4. now \div SentTimeRange >= 0
    <3>1. ASSUME now \div SentTimeRange <= -1 PROVE FALSE
      <4>1. SentTimeRange * (now \div SentTimeRange) <= SentTimeRange * (-1)
        BY <1>1, <2>3, <3>1, SMT
      <4> QED BY <1>1, <2>1, <2>3, <4>1, SMT
    <3> QED BY <2>3, <3>1, SMT
  <2>5. SentTimeRange * (now \div SentTimeRange) >= 0
    BY <1>1, <2>3, <2>4, SMT
  <2>6. age \in 0 .. SentTimeRange - 1
    BY <1>1
  <2> HIDE DEF age, now, low
  <2> QED BY <1>1, <2>1, <2>2, <2>3, <2>5, <2>6
<1>3. received = IF age <= low THEN low - age ELSE low - age + SentTimeRange
  <2>1. at = clock - age /\ age <= clock
    BY SMT
  <2> HIDE DEF age
  <2>2. (clock - age) % SentTimeRange = IF age <= clock % SentTimeRange
            THEN (clock % SentTimeRange) - age
            ELSE (clock % SentTimeRange) - age + SentTimeRange
    BY <1>1, <1>2, <2>1, LowHalf
  <2>3. clock % SentTimeRange = low
    BY <1>2
  <2> HIDE DEF low
  <2> QED BY <2>1, <2>2, <2>3
<1>4. received \in 0 .. SentTimeRange - 1
  <2> HIDE DEF age, now, low, received
  <2> QED BY <1>1, <1>2, <1>3
<1>5. SentTime(received) \in {same, Minus(same, SentTimeRange)}
  BY DEF SentTime
<1>6. CASE age <= low
  <2>1. same = now - age /\ same \in 0 .. now
    <3>1. same = now - low + received
      OBVIOUS
    <3> HIDE DEF age, now, low, received, same
    <3> QED BY <1>1, <1>2, <1>3, <1>6, <3>1
  <2>2. SentTime(received) = same
    <3>1. (received >= SentTimeRange \div 2) => (low >= SentTimeRange \div 2)
      <4> HIDE DEF age, now, low, received
      <4> QED BY <1>1, <1>2, <1>3, <1>6
    <3>2. received % SentTimeRange = received
      <4> HIDE DEF received
      <4>1. received \in -SentTimeRange .. SentTimeRange - 1
        BY <1>1, <1>4
      <4> QED BY <1>1, <1>4, <4>1, Wrapped
    <3> QED BY <3>1, <3>2 DEF SentTime
  <2>3. Minus(now, same) = age
    <3> HIDE DEF age, now, same
    <3>1. now - same = age /\ age \in -Word .. Word - 1
      BY <1>1, <1>2, <2>1
    <3> QED BY <1>1, <1>2, <3>1, Wrapped DEF Minus
  <2> QED BY <1>1, <1>2, <2>2, <2>3 DEF TimeDifference
<1>7. CASE age > low
  <2>1. same = now - age + SentTimeRange /\ same \in now + 1 .. now + SentTimeRange
    <3>1. same = now - low + received
      OBVIOUS
    <3> HIDE DEF age, now, low, received, same
    <3> QED BY <1>1, <1>2, <1>3, <1>7, <3>1
  <2>2. CASE SentTime(received) = same
    <3>1. now - same = age - SentTimeRange /\ now - same \in -Word .. -1
      BY <1>1, <1>2, <2>1
    <3>2. Minus(now, same) = age - SentTimeRange + Word
      BY <1>1, <3>1, Wrapped DEF Minus
    <3>3. Minus(now, same) >= Overflow
      BY <1>1, <1>2, <3>2
    <3> QED BY <2>2, <3>3 DEF TimeLess
  <2>3. CASE SentTime(received) = Minus(same, SentTimeRange)
    <3>1. same - SentTimeRange = now - age /\ now - age \in -Word .. Word - 1
      BY <1>1, <1>2, <2>1
    <3>2. SentTime(received) = IF now >= age THEN now - age ELSE now - age + Word
      <4> HIDE DEF age, now, same
      <4>1. (now - age) % Word = IF now - age >= 0 THEN now - age ELSE now - age + Word
        BY <1>1, <3>1, Wrapped
      <4> QED BY <1>1, <1>2, <2>3, <3>1, <4>1 DEF Minus
    <3>3. now - SentTime(received) = IF now >= age THEN age ELSE age - Word
      BY <1>1, <1>2, <3>2
    <3>4. Minus(now, SentTime(received)) = age
      BY <1>1, <1>2, <3>3, Wrapped DEF Minus
    <3> QED BY <1>1, <1>2, <3>4 DEF TimeDifference
  <2> QED BY <1>5, <2>2, <2>3
<1> QED BY <1>2, <1>6, <1>7, SMT

-----------------------------------------------------------------------------
(* What a service does *)

\* Whether the timeouts are checked at time k, what is in flight after that and
\* what waits to be sent.
Checks(k) == sentReliableCommands # <<>> /\ ~ TimeLess(k % Word, nextTimeout)
Left(k) == IF Checks(k) THEN InFlight(k % Word) ELSE sentReliableCommands
Waits(k) == IF Checks(k) THEN Retried(k % Word) \o queued ELSE queued

\* When the front of what is left is due.
DueAt(k) ==
    IF Checks(k) /\ Overdue(Head(sentReliableCommands), k % Word)
    THEN NextTimeout(Left(k)) ELSE nextTimeout

\* The service gives the peer up.
GivesUp(k) == Checks(k) /\ TimedOut(k % Word) /\ GiveUp

\* What is sent: what waits, or a ping if nothing does.
ToSend(k, all) ==
    \/ all = Waits(k) /\ numbered' = numbered
    \/ /\ Left(k) = <<>> /\ Waits(k) = <<>> /\ numbered' = numbered + 1
       /\ numbered < MaxCommands /\ all = <<Command(numbered')>>

\* The service goes on.
GoesOn(k) ==
    /\ ~ (Checks(k) /\ TimedOut(k % Word))
    /\ earliestTimeout' = IF Checks(k) THEN Earliest(k % Word)[Len(sentReliableCommands)]
                          ELSE earliestTimeout
    /\ UNCHANGED <<connected, estimate>>
    /\ \E all : \E n \in 0 .. Len(Waits(k)) + 1 :
          /\ ToSend(k, all) /\ n <= Len(all)
          /\ SendSome(Left(k), all, k % Word, k, n, DueAt(k))

\* A service gives the peer up or goes on.
LEMMA ServiceSteps ==
    ASSUME NEW step \in Steps, Service(step)
    PROVE  /\ connected /\ clock' = clock + step /\ clock' <= MaxTime
           /\ UNCHANGED <<shortest, longest, heard>>
           /\ GivesUp(clock') \/ GoesOn(clock')
<1>1. /\ connected /\ clock' = clock + step /\ clock' <= MaxTime
      /\ UNCHANGED <<shortest, longest, heard>>
  BY DEF Service
<1>2. CASE Checks(clock') /\ TimedOut(clock' % Word)
  <2>1. GiveUp
    BY <1>1, <1>2, Zenon DEF Service, Checks
  <2> QED BY <1>1, <1>2, <2>1 DEF GivesUp
<1>3. CASE ~ (Checks(clock') /\ TimedOut(clock' % Word))
  <2>1. /\ earliestTimeout' = IF Checks(clock') THEN Earliest(clock' % Word)[Len(sentReliableCommands)]
                              ELSE earliestTimeout
        /\ UNCHANGED <<connected, estimate>>
    BY <1>1, <1>3, Zenon DEF Service, Checks
  <2>2. PICK ping \in BOOLEAN, n \in 0 .. Len(Waits(clock')) + 1 :
            /\ numbered' = IF ping THEN numbered + 1 ELSE numbered
            /\ ping => Left(clock') = <<>> /\ Waits(clock') = <<>> /\ numbered < MaxCommands
            /\ n <= Len(IF ping THEN <<Command(numbered')>> ELSE Waits(clock'))
            /\ SendSome(Left(clock'), IF ping THEN <<Command(numbered')>> ELSE Waits(clock'),
                        clock' % Word, clock', n, DueAt(clock'))
    BY <1>1, <1>3, Zenon DEF Service, Checks, Left, Waits, DueAt
  <2> DEFINE all == IF ping THEN <<Command(numbered')>> ELSE Waits(clock')
  <2>3. ToSend(clock', all)
    BY <2>2 DEF ToSend
  <2>4. n \in 0 .. Len(Waits(clock')) + 1 /\ n <= Len(all)
    BY <2>2, Zenon
  <2> HIDE DEF all
  <2>5. SendSome(Left(clock'), all, clock' % Word, clock', n, DueAt(clock'))
    BY <2>2 DEF all
  <2>6. GoesOn(clock')
    BY <1>3, <2>1, <2>3, <2>4, <2>5, Zenon DEF GoesOn
  <2> QED BY <1>1, <2>6
<1> QED BY <1>1, <1>2, <1>3

-----------------------------------------------------------------------------
(* The estimate *)

\* What the variance may grow to: the first sample halved, or the range of the
\* samples there were.
Spread == Max({longest \div 2, longest - shortest})

\* A first sample replaces the default estimate; afterwards the estimate moves
\* towards a sample by a part of the difference.
EstimateFromSamples ==
    /\ lastReceiveTime \in Times /\ roundTripTime \in Nat
    /\ longest \in 0 .. Max({WireLife, 1}) /\ shortest \in 0 .. longest
    /\ lastReceiveTime > 0 <=> longest > 0
    /\ longest > 0 => shortest > 0
    /\ longest = 0 => roundTripTime = DefaultRoundTrip
    /\ roundTripTimeVariance \in 0 .. Spread
    /\ EstimateWithinSamples

EInv ==
    /\ clock \in Nat
    /\ \A t \in transmissions : t.at \in Nat /\ t.at <= clock
    /\ EstimateFromSamples

\* The default estimate needs no sample.
LEMMA InitEInv == Init => EInv
<1> SUFFICES ASSUME Init PROVE EInv
  OBVIOUS
<1>1. /\ clock = StartAt /\ roundTripTime = DefaultRoundTrip /\ roundTripTimeVariance = 0
      /\ lastReceiveTime = 0 /\ transmissions = {} /\ shortest = 0 /\ longest = 0
  BY DEF Init
<1>2. StartAt \in Nat /\ DefaultRoundTrip \in Nat /\ Word \in Nat \ {0} /\ WireLife \in Nat
  BY TimeAssumption
<1>3. Max({WireLife, 1}) \in Nat
  BY <1>2, MaxOfTwo
<1>4. Spread = 0
  <2>1. longest \div 2 = 0 /\ longest - shortest = 0
    BY <1>1
  <2> QED BY <2>1, MaxOfTwo DEF Spread
<1> QED BY <1>1, <1>2, <1>3, <1>4 DEF EInv, EstimateFromSamples, EstimateWithinSamples, Times

\* A division bounded from above.
LEMMA QuotientBelow ==
    ASSUME NEW x \in Nat, NEW g \in Nat \ {0}, NEW q \in Int, x < g * (q + 1)
    PROVE  x \div g <= q
<1>1. /\ x \div g \in Int /\ x % g \in 0 .. g - 1
      /\ x = g * (x \div g) + (x % g)
  BY DivMod
<1> SUFFICES ASSUME x \div g >= q + 1 PROVE FALSE
  BY <1>1
<1>2. g * (x \div g) >= g * (q + 1)
  BY <1>1, SMT
<1> QED BY <1>1, <1>2, SMT

\* A mean with integer division stays between its arguments and 0.
LEMMA MeanBetween ==
    ASSUME NEW v \in Nat, NEW d \in Nat, NEW g \in Nat \ {0}
    PROVE  /\ v - (v \div g) + (d \div g) \in Nat
           /\ v - (v \div g) + (d \div g) <= v \/ v - (v \div g) + (d \div g) <= d
<1>1. v \div g \in 0 .. v /\ d \div g \in 0 .. d
  BY Quotient
<1>2. /\ v = g * (v \div g) + (v % g) /\ v % g \in 0 .. g - 1
  BY DivMod
<1>3. CASE d <= v
  <2>1. g * ((v \div g) + 1) = g * (v \div g) + g
    BY <1>1, SMT
  <2>2. d < g * ((v \div g) + 1)
    BY <1>1, <1>2, <1>3, <2>1, SMT
  <2>3. d \div g <= v \div g
    BY <1>1, <2>2, QuotientBelow
  <2> QED BY <1>1, <2>3
<1>4. CASE v < d
  <2> DEFINE e == d - v
             q == v \div g
  <2>0. e \in Nat /\ q \in Nat /\ d = v + e /\ g \in Int
    BY <1>1, <1>4
  <2> HIDE DEF e, q
  <2>1. g * (q + e + 1) = g * q + g * e + g
    BY <2>0, SMT
  <2>2. g * e >= e
    <3>1. g * e >= 1 * e
      BY <2>0, SMT
    <3> QED BY <2>0, <3>1
  <2>3. v = g * q + (v % g) /\ g * q \in Int /\ g * e \in Int
    BY <1>2, <2>0 DEF q
  <2>4. d < g * (q + e + 1)
    <3> DEFINE gq == g * q
               ge == g * e
               r == v % g
    <3>1. /\ v = gq + r /\ gq \in Int /\ ge \in Int /\ ge >= e /\ r \in 0 .. g - 1
          /\ g * (q + e + 1) = gq + ge + g
      BY <1>2, <2>1, <2>2, <2>3
    <3> HIDE DEF gq, ge, r
    <3> QED BY <2>0, <3>1
  <2>5. d \div g <= q + e
    <3>1. q + e \in Int /\ d < g * ((q + e) + 1)
      BY <2>0, <2>4
    <3> QED BY <3>1, QuotientBelow
  <2> QED BY <1>1, <2>0, <2>5 DEF q
<1> QED BY <1>3, <1>4

\* The bounds of the samples as numbers.
LEMMA SpreadIs ==
    ASSUME longest \in Nat, shortest \in 0 .. longest
    PROVE  /\ Spread \in Nat /\ Spread >= longest \div 2 /\ Spread >= longest - shortest
           /\ longest = 0 => Spread = 0
           /\ longest > 0 /\ shortest > 0 => Spread < longest
           /\ longest \div 2 \in Nat
<1>1. longest \div 2 \in 0 .. longest /\ (longest > 0 => longest \div 2 < longest)
  OBVIOUS
<1>2. longest - shortest \in 0 .. longest
  OBVIOUS
<1>3. Spread = IF longest \div 2 >= longest - shortest THEN longest \div 2 ELSE longest - shortest
  BY <1>1, <1>2, MaxOfTwo DEF Spread
<1> QED BY <1>1, <1>2, <1>3

\* The samples after another one.
LEMMA SamplesAfter ==
    ASSUME EstimateFromSamples, NEW sample \in Nat \ {0},
           shortest' = (IF longest = 0 \/ sample < shortest THEN sample ELSE shortest),
           longest' = Max({sample, longest})
    PROVE  /\ longest' \in Nat \ {0} /\ shortest' \in 1 .. longest'
           /\ longest <= longest' /\ sample \in shortest' .. longest'
           /\ longest > 0 => shortest' <= shortest
           /\ longest' = longest \/ longest' = sample
<1>1. longest \in Nat /\ shortest \in 0 .. longest /\ (longest > 0 => shortest > 0)
  <2>1. longest \in 0 .. Max({WireLife, 1})
    BY DEF EstimateFromSamples
  <2> QED BY <2>1 DEF EstimateFromSamples
<1>2. longest' = IF sample >= longest THEN sample ELSE longest
  BY <1>1, MaxOfTwo
<1> QED BY <1>1, <1>2

\* The spread only grows.
LEMMA SpreadGrows ==
    ASSUME EstimateFromSamples, NEW sample \in Nat \ {0},
           shortest' = (IF longest = 0 \/ sample < shortest THEN sample ELSE shortest),
           longest' = Max({sample, longest})
    PROVE  /\ Spread' \in Nat /\ Spread' >= longest' \div 2 /\ Spread' >= longest' - shortest'
           /\ Spread <= Spread'
<1>1. /\ longest \in Nat /\ shortest \in 0 .. longest
      /\ longest > 0 => shortest > 0
  <2>1. longest \in 0 .. Max({WireLife, 1})
    BY DEF EstimateFromSamples
  <2>2. WireLife \in Int
    BY TimeAssumption
  <2>3. longest \in Nat
    BY <2>1, <2>2, MaxOfTwo
  <2> QED BY <2>3 DEF EstimateFromSamples
<1>2. /\ longest' \in Nat \ {0} /\ shortest' \in 1 .. longest'
      /\ longest <= longest'
      /\ longest > 0 => shortest' <= shortest
  BY SamplesAfter
<1>3. /\ Spread \in Nat /\ Spread >= longest \div 2 /\ Spread >= longest - shortest
      /\ longest = 0 => Spread = 0
      /\ longest \div 2 \in Nat
  BY <1>1, SpreadIs
<1>4. Spread' \in Nat /\ Spread' >= longest' \div 2 /\ Spread' >= longest' - shortest'
  <2>1. /\ longest' \div 2 \in 0 .. longest'
        /\ longest' - shortest' \in 0 .. longest'
    BY <1>2
  <2>2. Spread' = IF longest' \div 2 >= longest' - shortest'
                  THEN longest' \div 2 ELSE longest' - shortest'
    <3>1. Spread' = Max({longest' \div 2, longest' - shortest'})
      BY DEF Spread
    <3>2. longest' \div 2 \in Int /\ longest' - shortest' \in Int
      BY <2>1, <1>2
    <3> QED BY <3>1, <3>2, MaxOfTwo
  <2> QED BY <2>1, <2>2
<1>a. longest \div 2 <= longest' \div 2
  BY <1>1, <1>2
<1>5. Spread <= Spread'
  <2>1. CASE longest = 0
    BY <1>3, <1>4, <2>1
  <2>2. CASE longest > 0
    <3>1. Spread = longest \div 2 \/ Spread = longest - shortest
      <4>1. longest - shortest \in Int
        BY <1>1
      <4> QED BY <1>3, <4>1, MaxOfTwo DEF Spread
    <3>2. longest - shortest <= longest' - shortest'
      BY <1>1, <1>2, <2>2
    <3> QED BY <1>1, <1>2, <1>3, <1>4, <1>a, <3>1, <3>2
  <2> QED BY <1>1, <2>1, <2>2
<1> QED BY <1>4, <1>5

\* The estimate after another sample.
LEMMA EstimatedFromSample ==
    ASSUME EstimateFromSamples, NEW sample \in Nat \ {0}, sample <= Max({WireLife, 1}),
           Estimated(sample),
           shortest' = (IF longest = 0 \/ sample < shortest THEN sample ELSE shortest),
           longest' = Max({sample, longest}),
           lastReceiveTime' \in Times \ {0}
    PROVE  EstimateFromSamples'
<1>1. /\ longest \in Nat /\ shortest \in 0 .. longest /\ Max({WireLife, 1}) \in Nat
      /\ roundTripTime \in Nat /\ RoundTripGain \in Nat \ {0}
      /\ lastReceiveTime \in Nat /\ longest <= Max({WireLife, 1})
      /\ lastReceiveTime > 0 <=> longest > 0
      /\ longest # 0 => roundTripTime \in shortest .. longest
      /\ longest > 0 => shortest > 0
      /\ roundTripTimeVariance \in 0 .. Spread
  <2>1. WireLife \in Nat /\ RoundTripGain \in Nat \ {0} /\ Word \in Nat
    BY TimeAssumption
  <2>2. Max({WireLife, 1}) \in Nat
    BY <2>1, MaxOfTwo
  <2> QED BY <2>1, <2>2 DEF EstimateFromSamples, EstimateWithinSamples, Times
<1>2. /\ longest' \in Nat \ {0} /\ shortest' \in 1 .. longest'
      /\ longest <= longest' /\ sample \in shortest' .. longest'
      /\ longest > 0 => shortest' <= shortest
      /\ longest' <= Max({WireLife, 1})
  BY <1>1, SamplesAfter
<1>3. /\ Spread \in Nat /\ Spread >= longest \div 2 /\ Spread >= longest - shortest
      /\ longest = 0 => Spread = 0
      /\ longest \div 2 \in Nat
  BY <1>1, SpreadIs
<1>4. Spread' \in Nat /\ Spread' >= longest' \div 2 /\ Spread' >= longest' - shortest'
  BY SpreadGrows
<1>5. Spread <= Spread'
  BY SpreadGrows
<1>6. roundTripTime' \in Nat /\ roundTripTime' \in shortest' .. longest'
  <2>1. CASE lastReceiveTime = 0
    <3>1. roundTripTime' = sample
      BY <2>1 DEF Estimated
    <3> QED BY <1>1, <1>2, <3>1
  <2>2. CASE lastReceiveTime > 0 /\ sample >= roundTripTime
    <3>1. roundTripTime' = roundTripTime + ((sample - roundTripTime) \div RoundTripGain)
      BY <2>2 DEF Estimated
    <3>2. (sample - roundTripTime) \div RoundTripGain \in 0 .. sample - roundTripTime
      BY <1>1, <2>2, Quotient
    <3> QED BY <1>1, <1>2, <2>2, <3>1, <3>2
  <2>3. CASE lastReceiveTime > 0 /\ sample < roundTripTime
    <3>1. roundTripTime' = roundTripTime - ((roundTripTime - sample) \div RoundTripGain)
      BY <1>1, <2>3 DEF Estimated
    <3>2. (roundTripTime - sample) \div RoundTripGain \in 0 .. roundTripTime - sample
      BY <1>1, <2>3, Quotient
    <3> QED BY <1>1, <1>2, <2>3, <3>1, <3>2
  <2> QED BY <1>1, <2>1, <2>2, <2>3
<1>7. roundTripTimeVariance' \in 0 .. Spread'
  <2>1. CASE lastReceiveTime = 0
    <3>1. roundTripTimeVariance' = sample \div 2
      BY <2>1 DEF Estimated
    <3>2. sample = longest'
      BY <1>1, <2>1, SamplesAfter
    <3>3. longest' \div 2 \in Nat
      BY <1>2
    <3> QED BY <1>4, <3>1, <3>2, <3>3
  <2>2. CASE lastReceiveTime > 0
    <3> DEFINE diff == IF sample >= roundTripTime THEN sample - roundTripTime
                       ELSE roundTripTime - sample
               gain == IF sample >= roundTripTime \/ diff <= roundTripTimeVariance
                       THEN VarianceGain ELSE SlowGain
    <3>1. roundTripTimeVariance' = roundTripTimeVariance
                - (roundTripTimeVariance \div gain) + (diff \div gain)
      BY <2>2 DEF Estimated
    <3>2. diff \in Nat /\ diff <= longest' - shortest'
      BY <1>1, <1>2, <2>2
    <3>3. gain \in Nat \ {0}
      BY TimeAssumption
    <3>4. roundTripTimeVariance \in Nat /\ roundTripTimeVariance <= Spread
      BY <1>1, <1>3
    <3> HIDE DEF diff, gain
    <3>5. /\ roundTripTimeVariance' \in Nat
          /\ roundTripTimeVariance' <= roundTripTimeVariance \/ roundTripTimeVariance' <= diff
      BY <3>1, <3>2, <3>3, <3>4, MeanBetween
    <3>6. longest' - shortest' \in Int
      BY <1>2
    <3> QED BY <1>3, <1>4, <1>5, <3>2, <3>4, <3>5, <3>6
  <2> QED BY <1>1, <2>1, <2>2
<1>8. lastReceiveTime' \in Times /\ lastReceiveTime' > 0
  <2>1. Word \in Nat
    BY TimeAssumption
  <2> QED BY <2>1 DEF Times
<1> QED BY <1>1, <1>2, <1>6, <1>7, <1>8 DEF EstimateFromSamples, EstimateWithinSamples

\* Acknowledgements are the only steps that change the estimate, by true round trips.
LEMMA StepEInv == EInv /\ [Next]_vars => EInv'
<1> SUFFICES ASSUME EInv, [Next]_vars PROVE EInv'
  OBVIOUS
<1>1. /\ clock \in Nat /\ EstimateFromSamples
      /\ \A t \in transmissions : t.at \in Nat /\ t.at <= clock
  BY DEF EInv
<1>2. ASSUME UNCHANGED <<estimate, shortest, longest>> PROVE EstimateFromSamples'
  <2>1. Spread' = Spread
    BY <1>2 DEF Spread
  <2> QED BY <1>1, <1>2, <2>1 DEF EstimateFromSamples, EstimateWithinSamples, estimate
<1>3. CASE Queue
  BY <1>1, <1>2, <1>3 DEF Queue, EInv, history
<1>4. ASSUME NEW t \in transmissions, Acknowledge(t) PROVE EInv'
  <2> DEFINE sent == SentTime(t.at % SentTimeRange)
             trip == Max({clock - t.at, 1})
  <2>1. /\ t.at \in Nat /\ t.at <= clock /\ clock - t.at < SentTimeRange /\ clock - t.at <= WireLife
        /\ ~ TimeLess(serviceTime, sent)
        /\ Estimated(RoundTrip(sent))
        /\ clock' = clock /\ transmissions' = transmissions
        /\ shortest' = (IF longest = 0 \/ trip < shortest THEN trip ELSE shortest)
        /\ longest' = Max({trip, longest})
        /\ lastReceiveTime' = Max({serviceTime, 1})
    BY <1>1, <1>4, TimeAssumption DEF Acknowledge
  <2>2. RoundTrip(sent) = trip /\ trip \in Nat \ {0} /\ trip <= Max({WireLife, 1})
    <3>1. TimeDifference(serviceTime, sent) = clock - t.at
      BY <1>1, <2>1, SentTimeRestored
    <3>2. clock - t.at \in Int /\ WireLife \in Int
      BY <1>1, <2>1, TimeAssumption
    <3>3. trip = IF clock - t.at >= 1 THEN clock - t.at ELSE 1
      BY <3>2, MaxOfTwo
    <3>4. Max({WireLife, 1}) = IF WireLife >= 1 THEN WireLife ELSE 1
      BY <3>2, MaxOfTwo
    <3> HIDE DEF trip, sent
    <3> QED BY <2>1, <3>1, <3>2, <3>3, <3>4 DEF RoundTrip, trip
  <2>3. lastReceiveTime' \in Times \ {0}
    <3>1. serviceTime \in 0 .. Word - 1 /\ Word \in Nat /\ Word >= 2
      <4>1. /\ Word \in Nat \ {0} /\ Overflow \in Nat \ {0} /\ 2 * Overflow <= Word
        BY TimeAssumption
      <4> QED BY <1>1, <4>1, DivMod DEF serviceTime
    <3>2. lastReceiveTime' = IF serviceTime >= 1 THEN serviceTime ELSE 1
      BY <2>1, <3>1, MaxOfTwo
    <3> QED BY <3>1, <3>2 DEF Times
  <2>4. EstimateFromSamples'
    BY <1>1, <2>1, <2>2, <2>3, EstimatedFromSample
  <2> QED BY <1>1, <2>1, <2>4 DEF EInv
<1>5. ASSUME NEW step \in Steps, Service(step) PROVE EInv'
  <2>1. /\ clock' = clock + step /\ step \in Nat
        /\ UNCHANGED <<shortest, longest, heard>>
        /\ GivesUp(clock') \/ GoesOn(clock')
    BY <1>5, ServiceSteps, TimeAssumption
  <2>2. UNCHANGED <<estimate, shortest, longest>>
    BY <2>1 DEF GivesUp, GoesOn, GiveUp
  <2>3. \A t \in transmissions' : t.at \in Nat /\ t.at <= clock'
    <3>1. CASE GivesUp(clock')
      BY <1>1, <2>1, <3>1 DEF GivesUp, GiveUp
    <3>2. CASE GoesOn(clock')
      <4>1. PICK all, n : SendSome(Left(clock'), all, clock' % Word, clock', n, DueAt(clock'))
        BY <3>2, Zenon DEF GoesOn
      <4>2. \A t \in transmissions' : t \in transmissions \/ t.at = clock'
        BY <4>1 DEF SendSome
      <4> QED BY <1>1, <2>1, <4>2
    <3> QED BY <2>1, <3>1, <3>2
  <2> QED BY <1>1, <1>2, <2>1, <2>2, <2>3 DEF EInv
<1>6. CASE UNCHANGED vars
  BY <1>1, <1>2, <1>6 DEF EInv, vars, history
<1> QED BY <1>3, <1>4, <1>5, <1>6 DEF Next

\* The round-trip time is estimated from round trips that there were, for any
\* width of the clock and of the sent times, any gains and any delays shorter
\* than the range of the sent times (enet_protocol_handle_acknowledge).
THEOREM EstimateTrue == Spec => []EstimateWithinSamples
<1>1. EInv => EstimateWithinSamples
  BY DEF EInv, EstimateFromSamples
<1> QED BY <1>1, InitEInv, StepEInv, PTL DEF Spec

-----------------------------------------------------------------------------
(* Times of the unwrapped clock and their words *)

\* A remainder is known by its range.
LEMMA RemainderIs ==
    ASSUME NEW n \in Nat \ {0}, NEW x \in Int, NEW j \in Int, NEW z \in 0 .. n - 1,
           x = n * j + z
    PROVE  x % n = z
<1> DEFINE k == j - (x \div n)
           a == n * j
           b == n * (x \div n)
<1>1. /\ x \div n \in Int /\ x % n \in 0 .. n - 1
      /\ x = b + (x % n)
  BY DivMod
<1>2. /\ a \in Int /\ b \in Int /\ k \in Int
  BY <1>1, SMT
<1>3. n * k = a - b
  <2> DEFINE d == x \div n
  <2>1. d \in Int
    BY <1>1
  <2> HIDE DEF d
  <2>2. n * (j - d) = n * j - n * d
    BY <2>1, SMT
  <2> QED BY <2>2 DEF d
<1> HIDE DEF a, b, k
<1>4. x = a + z
  BY DEF a
<1>5. n * k = (x % n) - z
  BY <1>1, <1>2, <1>3, <1>4
<1>6. k = 0 \/ k = 1
  <2>1. -n < n * k /\ n * k < 2 * n
    BY <1>1, <1>5
  <2> QED BY <1>2, <2>1, SmallMultiple
<1>7. n * k = 0 \/ n * k = n
  BY <1>6, SMT
<1> QED BY <1>1, <1>5, <1>7

\* Numbers that differ by a multiple of n have the same remainder.
LEMMA SameRemainder ==
    ASSUME NEW n \in Nat \ {0}, NEW x \in Int, NEW y \in Int, NEW j \in Int, x = y + n * j
    PROVE  x % n = y % n
<1> DEFINE d == y \div n
           r == y % n
<1>1. d \in Int /\ r \in 0 .. n - 1 /\ y = n * d + r
  BY DivMod
<1> HIDE DEF d, r
<1>2. n * (j + d) = n * j + n * d /\ j + d \in Int /\ n * j \in Int /\ n * d \in Int
  BY <1>1, SMT
<1>3. x = n * (j + d) + r
  BY <1>1, <1>2
<1> QED BY <1>1, <1>2, <1>3, RemainderIs DEF r

\* The words of times are subtracted and added as the times are.
LEMMA MinusWords ==
    ASSUME NEW x \in Int, NEW y \in Int
    PROVE  Minus(x % Word, y % Word) = (x - y) % Word
<1> DEFINE d == x \div Word
           e == y \div Word
           p == x % Word
           r == y % Word
<1>1. Word \in Nat \ {0}
  BY TimeAssumption
<1>2. d \in Int /\ p \in Int /\ x = Word * d + p
  BY <1>1, DivMod
<1>3. e \in Int /\ r \in Int /\ y = Word * e + r
  BY <1>1, DivMod
<1> HIDE DEF d, e, p, r
<1>4. Word * (d - e) = Word * d - Word * e /\ Word * d \in Int /\ Word * e \in Int
  BY <1>1, <1>2, <1>3, SMT
<1>5. /\ x - y = (p - r) + Word * (d - e)
      /\ x - y \in Int /\ p - r \in Int /\ d - e \in Int
  BY <1>1, <1>2, <1>3, <1>4
<1>6. (x - y) % Word = (p - r) % Word
  BY <1>1, <1>5, SameRemainder, Zenon
<1> QED BY <1>6, Zenon DEF Minus, p, r

\* The word of a time some time later.
LEMMA PlusWords ==
    ASSUME NEW x \in Int, NEW y \in Int
    PROVE  Plus(x % Word, y) = (x + y) % Word
<1> DEFINE d == x \div Word
           p == x % Word
<1>1. Word \in Nat \ {0}
  BY TimeAssumption
<1>2. d \in Int /\ p \in Int /\ x = Word * d + p
  BY <1>1, DivMod
<1> HIDE DEF d, p
<1>3. x + y = (p + y) + Word * d /\ p + y \in Int
  BY <1>1, <1>2, SMT
<1>4. (x + y) % Word = (p + y) % Word
  <2>1. x + y \in Int
    OBVIOUS
  <2> QED BY <1>1, <1>2, <1>3, <2>1, SameRemainder, Zenon
<1> QED BY <1>4, Zenon DEF Plus, p

\* Words are compared as the times are, of times less than ENET_TIME_OVERFLOW apart.
LEMMA Compare ==
    ASSUME NEW x \in Int, NEW y \in Int, x - y < Overflow, y - x < Overflow
    PROVE  /\ TimeLess(x % Word, y % Word) <=> x < y
           /\ x >= y => TimeDifference(x % Word, y % Word) = x - y
<1>1. /\ Word \in Nat \ {0} /\ Overflow \in Nat \ {0} /\ 2 * Overflow <= Word
  BY TimeAssumption
<1>2. Minus(x % Word, y % Word) = IF x >= y THEN x - y ELSE x - y + Word
  <2>1. x - y \in -Word .. Word - 1
    BY <1>1
  <2>2. (x - y) % Word = IF x - y >= 0 THEN x - y ELSE x - y + Word
    BY <1>1, <2>1, Wrapped
  <2>3. Minus(x % Word, y % Word) = (x - y) % Word
    BY MinusWords
  <2> DEFINE a == (x - y) % Word
  <2>4. a = IF x >= y THEN x - y ELSE x - y + Word
    <3> HIDE DEF a
    <3> QED BY <1>1, <2>2 DEF a
  <2> QED BY <2>3, <2>4, Zenon
<1> QED BY <1>1, <1>2 DEF TimeLess, TimeDifference

\* The default estimate and the life of an acknowledgement bound every wait.
LEMMA WaitBound ==
    /\ DefaultRoundTrip \in Nat \ {0} /\ WireLife \in Nat /\ MaxStep \in Nat
    /\ TimeoutMaximum \in Nat /\ TimeoutMinimum \in Nat /\ Word \in Nat \ {0}
    /\ Overflow \in Nat \ {0} /\ 2 * Overflow <= Word
    /\ StartAt \in Nat /\ MaxTime \in Nat /\ StartAt <= MaxTime /\ MaxCommands \in Nat
    /\ TimeoutMinimum <= Overflow
    /\ DefaultRoundTrip + 5 * WireLife + MaxStep + TimeoutMaximum < Overflow
BY TimeAssumption

\* What may be used of the longest wait: it allows for a time since then.
Short(w) == w \in Nat \ {0} /\ w + MaxStep + TimeoutMaximum < Overflow

\* The longest wait.
LEMMA LongestWaitIs ==
    ASSUME EstimateFromSamples
    PROVE  /\ Short(LongestWait)
           /\ Patience \in 1 .. LongestWait
           /\ roundTripTime \in Times /\ roundTripTimeVariance \in Times
<1>1. /\ longest \in Nat /\ shortest \in 0 .. longest /\ longest <= Max({WireLife, 1})
      /\ roundTripTime \in Nat
      /\ longest # 0 => roundTripTime \in shortest .. longest
      /\ longest > 0 => shortest > 0
      /\ longest = 0 => roundTripTime = DefaultRoundTrip
      /\ roundTripTimeVariance \in 0 .. Spread
      /\ Max({WireLife, 1}) = IF WireLife >= 1 THEN WireLife ELSE 1
  <2>1. Max({WireLife, 1}) = IF WireLife >= 1 THEN WireLife ELSE 1
    BY WaitBound, MaxOfTwo
  <2>2. longest \in 0 .. Max({WireLife, 1})
    BY DEF EstimateFromSamples
  <2> QED BY <2>1, <2>2, WaitBound DEF EstimateFromSamples, EstimateWithinSamples
<1>2. /\ Spread \in Nat
      /\ longest = 0 => Spread = 0
      /\ longest > 0 => Spread < longest
  BY <1>1, SpreadIs
<1>3. LongestWait = IF DefaultRoundTrip >= longest + 4 * Spread
                    THEN DefaultRoundTrip ELSE longest + 4 * Spread
  <2>1. LongestWait = Max({DefaultRoundTrip, longest + 4 * Spread})
    BY DEF LongestWait, Spread
  <2>2. longest + 4 * Spread \in Int
    BY <1>1, <1>2
  <2> QED BY <2>1, <2>2, WaitBound, MaxOfTwo
<1>4. longest + 4 * Spread <= DefaultRoundTrip + 5 * WireLife
  BY <1>1, <1>2, WaitBound
<1>5. roundTripTime + 4 * roundTripTimeVariance \in 1 .. LongestWait
  BY <1>1, <1>2, <1>3, WaitBound
<1>6. /\ Short(LongestWait)
  BY <1>1, <1>2, <1>3, <1>4, WaitBound DEF Short
<1>7. Patience = roundTripTime + 4 * roundTripTimeVariance
  <2>1. roundTripTime + 4 * roundTripTimeVariance \in -Word .. Word - 1
    BY <1>1, <1>2, <1>5, <1>6, WaitBound DEF Short
  <2> QED BY <1>5, <2>1, WaitBound, Wrapped DEF Patience, Plus
<1>8. roundTripTime \in Times /\ roundTripTimeVariance \in Times
  BY <1>1, <1>2, <1>5, <1>6, WaitBound DEF Short, Times
<1> QED BY <1>5, <1>6, <1>7, <1>8

-----------------------------------------------------------------------------
(* The ages of commands *)

\* How long ago c was sent at time k, and when that was.
AgeAt(c, k) == Minus(k % Word, c.sentTime)
SentAt(c, k) == k - AgeAt(c, k)

\* c is in flight at time k, and was sent less than age ago: no wait is longer than w.
FliesFor(c, k, w, age) ==
    /\ c.attempts > 0 /\ c.roundTripTimeout \in 1 .. w
    /\ AgeAt(c, k) < age /\ c.first \in StartAt .. SentAt(c, k)

\* c waits to be sent, for the first time or again.
WaitsAgain(c, k, w) ==
    /\ c.roundTripTimeout \in 0 .. w
    /\ c.attempts > 0 => c.first \in StartAt .. k

\* The word of a time says when it was, and it grows older with the clock.
LEMMA Ages ==
    ASSUME NEW c, c.sentTime \in Times, NEW k \in Nat
    PROVE  /\ AgeAt(c, k) \in 0 .. Word - 1
           /\ SentAt(c, k) \in Int /\ SentAt(c, k) <= k
           /\ SentAt(c, k) % Word = c.sentTime
           /\ \A step \in Nat : AgeAt(c, k) + step < Word =>
                 /\ AgeAt(c, k + step) = AgeAt(c, k) + step
                 /\ SentAt(c, k + step) = SentAt(c, k)
<1> DEFINE t == c.sentTime
           a == AgeAt(c, k)
           d == (k - t) \div Word
<1>1. Word \in Nat \ {0} /\ t \in 0 .. Word - 1
  BY WaitBound DEF Times
<1>2. t % Word = t
  <2>1. t \in -Word .. Word - 1
    BY <1>1
  <2> HIDE DEF t
  <2> QED BY <1>1, <2>1, Wrapped
<1>3. \A x \in Nat : AgeAt(c, x) = (x - t) % Word
  <2> TAKE x \in Nat
  <2>1. x \in Int /\ t \in Int
    BY <1>1
  <2>2. Minus(x % Word, t % Word) = (x - t) % Word
    BY <2>1, MinusWords, Zenon
  <2> QED BY <1>2, <2>2, Zenon DEF AgeAt
<1>4. d \in Int /\ a \in 0 .. Word - 1 /\ k - t = Word * d + a
  <2>1. k - t \in Int
    BY <1>1
  <2>2. a = (k - t) % Word
    BY <1>3
  <2> HIDE DEF a, t
  <2>3. (k - t) = Word * ((k - t) \div Word) + ((k - t) % Word)
        /\ (k - t) \div Word \in Int /\ (k - t) % Word \in 0 .. Word - 1
    BY <1>1, <2>1, DivMod
  <2> QED BY <2>2, <2>3, Zenon
<1> HIDE DEF a, d
<1>5. SentAt(c, k) = k - a
  BY DEF SentAt, a
<1>6. (k - a) % Word = t
  <2>1. k - a = t + Word * d /\ k - a \in Int /\ t \in Int
    <3>1. Word * d \in Int
      BY <1>1, <1>4, SMT
    <3> HIDE DEF t
    <3> QED BY <1>1, <1>4, <3>1
  <2> HIDE DEF t
  <2>2. (k - a) % Word = t % Word
    BY <1>1, <1>4, <2>1, SameRemainder, Zenon
  <2> QED BY <1>2, <2>2
<1>7. ASSUME NEW step \in Nat, a + step < Word
      PROVE  AgeAt(c, k + step) = a + step /\ SentAt(c, k + step) = k - a
  <2> HIDE DEF t
  <2>1. Word * d \in Int
    BY <1>1, <1>4, SMT
  <2>2. /\ k + step \in Nat /\ (k + step) - t = Word * d + (a + step)
        /\ (k + step) - t \in Int /\ a + step \in 0 .. Word - 1
    BY <1>1, <1>4, <1>7, <2>1
  <2>3. ((k + step) - t) % Word = a + step
    BY <1>1, <1>4, <2>2, RemainderIs, Zenon
  <2>4. AgeAt(c, k + step) = a + step
    BY <1>3, <2>2, <2>3
  <2>5. SentAt(c, k + step) = (k + step) - (a + step)
    BY <2>4 DEF SentAt
  <2> QED BY <1>4, <2>4, <2>5
<1> QED BY <1>4, <1>5, <1>6, <1>7 DEF a

\* What is sent now is no time old.
LEMMA AgeOfNew ==
    ASSUME NEW c, NEW k \in Nat, c.sentTime = k % Word
    PROVE  AgeAt(c, k) = 0 /\ SentAt(c, k) = k
<1>1. AgeAt(c, k) = Minus(k % Word, k % Word)
  BY DEF AgeAt
<1>2. k \in Int /\ k - k = 0 /\ 0 % Word = 0
  BY WaitBound
<1>3. Minus(k % Word, k % Word) = (k - k) % Word
  BY <1>2, MinusWords, Zenon
<1>4. AgeAt(c, k) = 0
  BY <1>1, <1>2, <1>3, Zenon
<1> QED BY <1>4 DEF SentAt

\* Whether a command is overdue, and whether its deadline is over, is decided by its
\* age, though the clock wraps.
LEMMA OverdueByAge ==
    ASSUME NEW w, Short(w), NEW c, NEW k \in Nat, c.sentTime \in Times,
           FliesFor(c, k, w, w + MaxStep)
    PROVE  /\ TimeDifference(k % Word, c.sentTime) = AgeAt(c, k)
           /\ Overdue(c, k % Word) <=> AgeAt(c, k) >= c.roundTripTimeout
           /\ TimeLess(k % Word, Deadline(c)) <=> AgeAt(c, k) < c.roundTripTimeout
           /\ Deadline(c) \in Times
<1>1. /\ AgeAt(c, k) \in 0 .. Word - 1 /\ AgeAt(c, k) < w + MaxStep
      /\ SentAt(c, k) \in Int /\ SentAt(c, k) = k - AgeAt(c, k)
      /\ SentAt(c, k) % Word = c.sentTime
      /\ w \in Nat \ {0} /\ w + MaxStep + TimeoutMaximum < Overflow
      /\ c.roundTripTimeout \in 1 .. w
  BY Ages DEF FliesFor, Short, SentAt
<1>2. TimeDifference(k % Word, c.sentTime) = AgeAt(c, k)
  BY <1>1, WaitBound DEF TimeDifference, AgeAt
<1>3. Deadline(c) = (SentAt(c, k) + c.roundTripTimeout) % Word
  <2>1. c.roundTripTimeout \in Int
    BY <1>1
  <2>2. Plus(SentAt(c, k) % Word, c.roundTripTimeout) = (SentAt(c, k) + c.roundTripTimeout) % Word
    BY <1>1, <2>1, PlusWords, Zenon
  <2> QED BY <1>1, <2>2, Zenon DEF Deadline
<1>4. TimeLess(k % Word, Deadline(c)) <=> AgeAt(c, k) < c.roundTripTimeout
  <2> DEFINE y == SentAt(c, k) + c.roundTripTimeout
  <2>1. /\ k \in Int /\ y \in Int /\ k - y < Overflow /\ y - k < Overflow
        /\ k < y <=> AgeAt(c, k) < c.roundTripTimeout
    BY <1>1, WaitBound
  <2> HIDE DEF y
  <2>2. TimeLess(k % Word, y % Word) <=> k < y
    BY <2>1, Compare, Zenon
  <2> QED BY <1>3, <2>1, <2>2, Zenon DEF y
<1>5. Deadline(c) \in Times
  <2>1. SentAt(c, k) + c.roundTripTimeout \in Int
    BY <1>1
  <2> QED BY <1>3, <2>1, WaitBound, DivMod, Zenon DEF Times
<1> QED BY <1>2, <1>4, <1>5 DEF Overdue

-----------------------------------------------------------------------------
(* Where earliestTimeout comes from: a time m, near the last news of every     *)
(* command.  F holds the times of the first transmissions, h is the time of    *)
(* the last acknowledgement, w bounds the waits.                               *)

\* m is before the end of a wait that began at a time whose word is 0.
AfterZero(m, u, w) == \E z \in Nat : z <= u + MaxStep /\ z % Word = 0 /\ m < z + w + MaxStep

NearTo(m, u, w) == m <= u + MaxStep \/ AfterZero(m, u, w)

Near(m, F, h, w) == \A f \in F : NearTo(m, Max({f, h}), w)

Late(k, F, h, w) == \A f \in F : AfterZero(k, Max({f, h}), w)

\* m is a time that the word e may stand for.
Mark(m, e, F, h, w) == m % Word = e /\ Near(m, F, h, w) /\ \E f \in F : f <= m

\* What the word e says at time k, once an overdue command was seen.
Reaches(e, k, F, h, w) ==
    IF e # 0 THEN \E m \in Nat : m <= k /\ k - m < Overflow /\ Mark(m, e, F, h, w)
    ELSE Late(k, F, h, w)

\* Times before a near one are near, and so are times before a late one.
LEMMA NearBefore ==
    ASSUME NEW F \in SUBSET Nat, NEW h \in Nat, NEW w \in Nat, NEW m \in Int, NEW n \in Int, n <= m
    PROVE  /\ Near(m, F, h, w) => Near(n, F, h, w)
           /\ Late(m, F, h, w) => Late(n, F, h, w) /\ Near(n, F, h, w)
<1>1. MaxStep \in Nat
  BY WaitBound
<1>2. ASSUME NEW f \in F, AfterZero(m, Max({f, h}), w) PROVE AfterZero(n, Max({f, h}), w)
  <2>1. PICK z \in Nat : /\ z <= Max({f, h}) + MaxStep /\ z % Word = 0
                         /\ m < z + w + MaxStep
    BY <1>2 DEF AfterZero
  <2>2. n < z + w + MaxStep
    BY <1>1, <2>1
  <2> QED BY <2>1, <2>2 DEF AfterZero
<1>3. ASSUME NEW f \in F, m <= Max({f, h}) + MaxStep PROVE n <= Max({f, h}) + MaxStep
  <2>1. Max({f, h}) \in Int
    BY MaxOfTwo
  <2> QED BY <1>1, <1>3, <2>1
<1> QED BY <1>2, <1>3 DEF Near, NearTo, Late

\* A near time whose word is 0 makes the waits that began then late.
LEMMA ZeroIsLate ==
    ASSUME NEW F \in SUBSET Nat, NEW h \in Nat, NEW w, Short(w), NEW k \in Nat, NEW m \in Nat,
           m % Word = 0, Near(m, F, h, w), k < m + w + MaxStep
    PROVE  Late(k, F, h, w)
<1> SUFFICES ASSUME NEW f \in F PROVE AfterZero(k, Max({f, h}), w)
  BY DEF Late
<1>1. /\ MaxStep \in Nat /\ w \in Nat /\ w + MaxStep < Word /\ Word \in Nat \ {0}
      /\ Max({f, h}) \in Nat
  BY WaitBound, MaxOfTwo DEF Short
<1>z. m % Word = 0
  OBVIOUS
<1>2. CASE m <= Max({f, h}) + MaxStep
  BY <1>2 DEF AfterZero
<1>3. CASE AfterZero(m, Max({f, h}), w)
  <2>1. PICK z \in Nat : /\ z <= Max({f, h}) + MaxStep /\ z % Word = 0
                         /\ m < z + w + MaxStep
    BY <1>3 DEF AfterZero
  <2>2. m <= z
    <3> SUFFICES ASSUME z < m PROVE FALSE
      OBVIOUS
    <3>1. (m - z) % Word = 0
      <4>1. m \in Int /\ z \in Int /\ (0 - 0) % Word = 0
        BY <1>1
      <4>2. Minus(m % Word, z % Word) = (m - z) % Word
        BY <4>1, MinusWords, Zenon
      <4> QED BY <1>z, <2>1, <4>1, <4>2, Zenon DEF Minus
    <3>2. m - z \in -Word .. Word - 1 /\ m - z > 0
      BY <1>1, <2>1
    <3> DEFINE d == m - z
    <3>3. d % Word = 0 /\ d \in -Word .. Word - 1 /\ d > 0
      BY <3>1, <3>2, Zenon
    <3> HIDE DEF d
    <3> QED BY <1>1, <3>3, Wrapped
  <2>3. m <= Max({f, h}) + MaxStep
    BY <1>1, <2>1, <2>2
  <2> QED BY <2>3 DEF AfterZero
<1> QED BY <1>2, <1>3 DEF Near, NearTo

\* The recursive function of Earliest.
IsEarliest(e, now) ==
    /\ e \in [0 .. Len(sentReliableCommands) -> Times]
    /\ e[0] = earliestTimeout
    /\ \A i \in 1 .. Len(sentReliableCommands) :
          e[i] = IF /\ Overdue(sentReliableCommands[i], now)
                    /\ e[i - 1] = 0 \/ TimeLess(sentReliableCommands[i].sentTime, e[i - 1])
                 THEN sentReliableCommands[i].sentTime ELSE e[i - 1]

\* It exists, and its values are times.
LEMMA EarliestIs ==
    ASSUME sentReliableCommands \in Seq(Commands), earliestTimeout \in Times, NEW now
    PROVE  IsEarliest(Earliest(now), now)
<1> DEFINE s == sentReliableCommands
           n == Len(s)
           E == earliestTimeout
           next(i, x) == IF Overdue(s[i], now) /\ (x = 0 \/ TimeLess(s[i].sentTime, x))
                         THEN s[i].sentTime ELSE x
           step == [i \in 1 .. n |-> [x \in Times |-> next(i, x)]]
           Rule(f) == f = [i \in 0 .. n |-> IF i = 0 THEN E
                              ELSE IF Overdue(s[i], now)
                                      /\ (f[i - 1] = 0 \/ TimeLess(s[i].sentTime, f[i - 1]))
                                   THEN s[i].sentTime ELSE f[i - 1]]
<1>1. n \in Nat /\ E \in Times /\ \A i \in 1 .. n : s[i].sentTime \in Times
  <2>1. \A i \in 1 .. n : s[i] \in Commands
    OBVIOUS
  <2> QED BY <2>1 DEF Commands
<1>2. step \in [1 .. n -> [Times -> Times]]
  <2>1. \A i \in 1 .. n : \A x \in Times : next(i, x) \in Times
    <3> TAKE i \in 1 .. n
    <3> TAKE x \in Times
    <3>1. next(i, x) \in {s[i].sentTime, x}
      OBVIOUS
    <3> HIDE DEF next
    <3> QED BY <1>1, <3>1
  <2> HIDE DEF next
  <2> QED BY <2>1
<1>3. PICK f \in [0 .. n -> Times] : f[0] = E /\ \A i \in 1 .. n : f[i] = step[i][f[i - 1]]
  <2>2. \E f : Computes(f, Times, n, E, step)
    <3> HIDE DEF n, step, E
    <3> QED BY <1>1, <1>2, Recursion
  <2> HIDE DEF n, step
  <2> QED BY <2>2 DEF Computes
<1>4. ASSUME NEW i \in 1 .. n
      PROVE  step[i][f[i - 1]] = next(i, f[i - 1])
  <2>1. f[i - 1] \in Times
    BY <1>1
  <2> HIDE DEF next
  <2> QED BY <2>1
<1> HIDE DEF step, n, s, E
<1>5. Rule(f)
  <2>1. ASSUME NEW i \in 0 .. n
        PROVE  f[i] = IF i = 0 THEN E
                      ELSE IF Overdue(s[i], now)
                              /\ (f[i - 1] = 0 \/ TimeLess(s[i].sentTime, f[i - 1]))
                           THEN s[i].sentTime ELSE f[i - 1]
    <3>1. CASE i = 0
      BY <3>1, <1>3
    <3>2. CASE i # 0
      <4>1. i \in 1 .. n
        BY <3>2, <1>1
      <4> QED BY <4>1, <3>2, <1>3, <1>4, Zenon
    <3> QED BY <3>1, <3>2
  <2> QED BY <2>1
<1> DEFINE g == CHOOSE x : Rule(x)
<1>6. Rule(g)
  <2> HIDE DEF Rule
  <2> QED BY <1>5
<1>7. Earliest(now) = g
  BY Zenon DEF Earliest, s, n, E
<1>8. /\ DOMAIN g = 0 .. n /\ g[0] = E
      /\ \A i \in 1 .. n : g[i] = next(i, g[i - 1])
  <2> HIDE DEF g
  <2>1. 0 \in 0 .. n /\ \A i \in 1 .. n : i \in 0 .. n /\ i # 0
    BY <1>1
  <2> QED BY <1>6, <2>1, Zenon
<1> HIDE DEF g
<1>9. \A i \in 0 .. n : g[i] \in Times
  <2> DEFINE G == {i \in 0 .. n : g[i] \in Times}
  <2>1. 0 \in G
    <3>1. 0 \in 0 .. n
      BY <1>1
    <3>2. g[0] \in Times
      BY <1>1, <1>8, Zenon
    <3> QED BY <3>1, <3>2
  <2>2. ASSUME NEW i \in 1 .. n, i - 1 \in G PROVE i \in G
    <3>1. g[i - 1] \in Times /\ i \in 0 .. n
      BY <1>1, <2>2
    <3>2. g[i] = next(i, g[i - 1])
      BY <1>8
    <3> QED BY <1>1, <3>1, <3>2
  <2>3. 0 .. n \subseteq G
    <3> HIDE DEF G
    <3> QED BY <2>1, <2>2, <1>1, Induct
  <2> QED BY <2>3
<1>10. g = [i \in 0 .. n |-> g[i]]
  BY <1>6, Zenon
<1>11. g \in [0 .. n -> Times]
  BY <1>9, <1>10
<1> QED BY <1>7, <1>8, <1>11, Zenon DEF IsEarliest, s, n, E

\* The commands are in flight, or became overdue since the last service.
Aloft(s, k, w) == \A i \in 1 .. Len(s) : FliesFor(s[i], k, w, w + MaxStep)

\* A command c of which the news are taken: the word of its time reaches the time.
LEMMA SentReaches ==
    ASSUME NEW F \in SUBSET Nat, NEW h \in Nat, NEW w, Short(w), NEW k \in Nat,
           NEW c, c.sentTime \in Times, c.first \in F, FliesFor(c, k, w, w + MaxStep),
           Near(SentAt(c, k), F, h, w) \/ Late(k, F, h, w)
    PROVE  Reaches(c.sentTime, k, F, h, w)
<1> DEFINE m == SentAt(c, k)
<1>1. /\ m \in Nat /\ m <= k /\ k - m < w + MaxStep /\ m % Word = c.sentTime
      /\ c.first <= m /\ k < m + w + MaxStep
      /\ w \in Nat /\ w + MaxStep + TimeoutMaximum < Overflow
  <2>1. AgeAt(c, k) \in 0 .. Word - 1 /\ m = k - AgeAt(c, k) /\ m % Word = c.sentTime
    BY Ages DEF SentAt
  <2>2. /\ AgeAt(c, k) < w + MaxStep /\ c.first \in StartAt .. m
        /\ w \in Nat /\ w + MaxStep + TimeoutMaximum < Overflow
    BY DEF FliesFor, Short
  <2> HIDE DEF m
  <2> QED BY <2>1, <2>2, WaitBound
<1>2. Near(m, F, h, w)
  <2>1. Late(k, F, h, w) => Near(m, F, h, w)
    <3>1. m \in Int /\ k \in Int
      BY <1>1
    <3> HIDE DEF m
    <3> QED BY <1>1, <3>1, NearBefore, Zenon
  <2> QED BY <2>1
<1>3. CASE c.sentTime = 0
  <2>1. Late(k, F, h, w)
    <3> HIDE DEF m
    <3> QED BY <1>1, <1>2, <1>3, ZeroIsLate
  <2> QED BY <1>3, <2>1 DEF Reaches
<1>4. CASE c.sentTime # 0
  <2>1. k - m < Overflow
    <3> HIDE DEF m
    <3> QED BY <1>1, WaitBound
  <2>2. Mark(m, c.sentTime, F, h, w)
    BY <1>1, <1>2 DEF Mark
  <2> HIDE DEF m
  <2> QED BY <1>1, <1>4, <2>1, <2>2 DEF Reaches
<1> QED BY <1>3, <1>4

\* If the time x reached is later than c, or none, the time of c reaches as far.
LEMMA EarlierReaches ==
    ASSUME NEW F \in SUBSET Nat, NEW h \in Nat, NEW w, Short(w), NEW k \in Nat,
           NEW c, c.sentTime \in Times, c.first \in F, FliesFor(c, k, w, w + MaxStep),
           NEW x, Reaches(x, k, F, h, w), x = 0 \/ TimeLess(c.sentTime, x)
    PROVE  Reaches(c.sentTime, k, F, h, w)
<1>1. CASE x = 0
  <2>1. Late(k, F, h, w)
    BY <1>1 DEF Reaches
  <2> QED BY <2>1, SentReaches
<1>2. CASE x # 0
  <2>1. PICK m \in Nat : m <= k /\ k - m < Overflow /\ Mark(m, x, F, h, w)
    BY <1>2 DEF Reaches
  <2> DEFINE n == SentAt(c, k)
  <2>2. n \in Int /\ n <= k /\ k - n < Overflow /\ n % Word = c.sentTime
    <3>1. /\ AgeAt(c, k) \in 0 .. Word - 1 /\ n = k - AgeAt(c, k) /\ n % Word = c.sentTime
          /\ AgeAt(c, k) < w + MaxStep
          /\ w \in Nat /\ w + MaxStep + TimeoutMaximum < Overflow
      BY Ages DEF SentAt, FliesFor, Short
    <3> HIDE DEF n
    <3> QED BY <3>1, WaitBound
  <2>3. TimeLess(n % Word, m % Word)
    BY <1>2, <2>1, <2>2 DEF Mark
  <2> HIDE DEF n
  <2>4. n < m
    <3>1. n - m < Overflow /\ m - n < Overflow /\ m \in Int
      BY <2>1, <2>2, WaitBound
    <3>2. n \in Int
      BY <2>2
    <3>3. TimeLess(n % Word, m % Word) <=> n < m
      BY <3>1, <3>2, Compare, Zenon
    <3> QED BY <2>3, <3>3
  <2>5. Near(m, F, h, w)
    BY <2>1 DEF Mark
  <2>6. Near(n, F, h, w)
    BY <2>1, <2>2, <2>4, <2>5, NearBefore DEF Short
  <2> QED BY <2>6, SentReaches DEF n
<1> QED BY <1>1, <1>2

\* What earliestTimeout says of the first command in flight, the one sent first.
Began(c, F, k, h, e, w) ==
    IF e # 0 THEN \E m \in 0 .. k : Mark(m, e, F, h, w) /\ SentAt(c, k) - m < TimeoutMaximum
    ELSE Near(SentAt(c, k), F, h, w)

\* enet_protocol_check_timeouts takes earliestTimeout from one time to another.
LEMMA EarliestReaches ==
    ASSUME sentReliableCommands \in Seq(Commands), earliestTimeout \in Times,
           sentReliableCommands # <<>>, NEW k \in Nat, NEW w, Short(w),
           NEW F \in SUBSET Nat, NEW h \in Nat,
           Aloft(sentReliableCommands, k, w),
           \A i \in 1 .. Len(sentReliableCommands) : sentReliableCommands[i].first \in F,
           Overdue(sentReliableCommands[1], k % Word),
           Began(sentReliableCommands[1], F, k, h, earliestTimeout, w)
    PROVE  \A i \in 1 .. Len(sentReliableCommands) : Reaches(Earliest(k % Word)[i], k, F, h, w)
<1> DEFINE s == sentReliableCommands
           n == Len(s)
           e == Earliest(k % Word)
<1>1. /\ n \in Nat \ {0}
      /\ \A i \in 1 .. n : /\ s[i].sentTime \in Times /\ s[i].first \in F
                           /\ FliesFor(s[i], k, w, w + MaxStep)
  <2>1. \A i \in 1 .. n : s[i] \in Commands
    OBVIOUS
  <2> QED BY <2>1 DEF Aloft, Commands
<1>2. /\ e \in [0 .. n -> Times] /\ e[0] = earliestTimeout
      /\ \A i \in 1 .. n :
            e[i] = IF Overdue(s[i], k % Word) /\ (e[i - 1] = 0 \/ TimeLess(s[i].sentTime, e[i - 1]))
                   THEN s[i].sentTime ELSE e[i - 1]
  BY EarliestIs DEF IsEarliest
<1> HIDE DEF e
<1>3. earliestTimeout # 0 => Reaches(earliestTimeout, k, F, h, w)
  <2> SUFFICES ASSUME earliestTimeout # 0 PROVE Reaches(earliestTimeout, k, F, h, w)
    OBVIOUS
  <2>1. PICK m \in 0 .. k : Mark(m, earliestTimeout, F, h, w) /\ SentAt(s[1], k) - m < TimeoutMaximum
    BY DEF Began
  <2>2. 1 \in 1 .. n
    BY <1>1
  <2>3. AgeAt(s[1], k) \in 0 .. Word - 1 /\ AgeAt(s[1], k) < w + MaxStep
    BY <1>1, <2>2, Ages DEF FliesFor
  <2>4. m \in Nat /\ m <= k /\ k - m < Overflow
    BY <2>1, <2>3, WaitBound DEF SentAt, Short
  <2> QED BY <2>1, <2>4 DEF Reaches
<1>4. ASSUME NEW i \in 1 .. n, Reaches(e[i - 1], k, F, h, w)
      PROVE  Reaches(e[i], k, F, h, w)
  <2>1. CASE e[i] = e[i - 1]
    BY <1>4, <2>1
  <2>2. CASE /\ e[i - 1] = 0 \/ TimeLess(s[i].sentTime, e[i - 1])
             /\ e[i] = s[i].sentTime
    <3> DEFINE x == e[i - 1]
               c == s[i]
    <3>1. /\ c.sentTime \in Times /\ c.first \in F /\ FliesFor(c, k, w, w + MaxStep)
          /\ Reaches(x, k, F, h, w) /\ (x = 0 \/ TimeLess(c.sentTime, x))
      BY <1>1, <1>4, <2>2
    <3> HIDE DEF x, c
    <3>2. Reaches(c.sentTime, k, F, h, w)
      BY <3>1, EarlierReaches
    <3> QED BY <2>2, <3>2 DEF c
  <2> QED BY <1>2, <2>1, <2>2, Zenon
<1>5. Reaches(e[1], k, F, h, w)
  <2>0. 1 \in 1 .. n /\ 1 - 1 = 0
    BY <1>1
  <2>1. CASE earliestTimeout # 0
    BY <1>2, <1>3, <1>4, <2>0, <2>1, Zenon
  <2>2. CASE earliestTimeout = 0
    <3>1. Near(SentAt(s[1], k), F, h, w)
      BY <2>2 DEF Began
    <3>2. e[1] = s[1].sentTime
      BY <1>2, <2>0, <2>2, Zenon
    <3>3. /\ s[1].sentTime \in Times /\ s[1].first \in F /\ FliesFor(s[1], k, w, w + MaxStep)
      BY <1>1, <2>0
    <3>4. Reaches(s[1].sentTime, k, F, h, w)
      BY <3>1, <3>3, SentReaches, Zenon
    <3> QED BY <3>2, <3>4
  <2> QED BY <2>1, <2>2
<1>6. 0 .. n \subseteq {i \in 0 .. n : i = 0 \/ Reaches(e[i], k, F, h, w)}
  <2> DEFINE G == {i \in 0 .. n : i = 0 \/ Reaches(e[i], k, F, h, w)}
  <2>1. n \in Nat /\ 0 \in G
    BY <1>1
  <2>2. ASSUME NEW i \in 1 .. n, i - 1 \in G PROVE i \in G
    <3>1. i \in 0 .. n
      OBVIOUS
    <3>2. CASE i = 1
      BY <1>5, <3>1, <3>2
    <3>3. CASE i # 1
      <4>1. i - 1 # 0
        BY <3>3
      <4>2. Reaches(e[i - 1], k, F, h, w)
        BY <2>2, <4>1
      <4> QED BY <1>4, <3>1, <4>2
    <3> QED BY <3>2, <3>3
  <2> HIDE DEF G, n
  <2>3. 0 .. n \subseteq G
    BY <2>1, <2>2, Induct
  <2> QED BY <2>3 DEF G
<1>7. ASSUME NEW i \in 1 .. n PROVE Reaches(e[i], k, F, h, w)
  <2>1. i \in 0 .. n /\ i # 0
    OBVIOUS
  <2> QED BY <1>6, <2>1
<1> QED BY <1>7 DEF e

\* A peer that is not given up was heard of within TimeoutMaximum.
LEMMA NotGivenUp ==
    ASSUME sentReliableCommands \in Seq(Commands), earliestTimeout \in Times,
           sentReliableCommands # <<>>, NEW now,
           Overdue(sentReliableCommands[1], now), ~ TimedOut(now)
    PROVE  LET last == Earliest(now)[Len(sentReliableCommands)]
           IN  last # 0 => ~ (TimeDifference(now, last) >= TimeoutMaximum)
<1> DEFINE s == sentReliableCommands
           n == Len(s)
           e == Earliest(now)
           Calm(i) == e[i] # 0 => ~ (TimeDifference(now, e[i]) >= TimeoutMaximum)
           G == {i \in 0 .. n : i = 0 \/ Calm(i)}
<1>1. n \in Nat \ {0} /\ DOMAIN s = 1 .. n
  OBVIOUS
<1>2. \A i \in 1 .. n :
          e[i] = IF Overdue(s[i], now) /\ (e[i - 1] = 0 \/ TimeLess(s[i].sentTime, e[i - 1]))
                 THEN s[i].sentTime ELSE e[i - 1]
  BY EarliestIs DEF IsEarliest
<1>3. \A i \in 1 .. n : Overdue(s[i], now) => Calm(i)
  <2> HIDE DEF e
  <2>1. ASSUME NEW i \in 1 .. n, Overdue(s[i], now) PROVE Calm(i)
    <3>1. i \in Due(now)
      BY <1>1, <2>1 DEF Due
    <3>2. ~ GivenUp(s[i], e[i], now)
      BY <3>1 DEF TimedOut, e
    <3> QED BY <3>2 DEF GivenUp
  <2> QED BY <2>1
<1>4. ASSUME NEW i \in 1 .. n, i - 1 \in G PROVE i \in G
  <2> HIDE DEF e
  <2>1. CASE Overdue(s[i], now)
    BY <1>3, <2>1
  <2>2. CASE ~ Overdue(s[i], now)
    <3>1. i # 1
      BY <2>2
    <3>2. i - 1 # 0
      BY <3>1
    <3>3. Calm(i - 1) /\ e[i] = e[i - 1]
      BY <1>2, <1>4, <2>2, <3>2, Zenon
    <3>4. Calm(i)
      BY <3>3, Zenon
    <3> QED BY <3>4
  <2> QED BY <2>1, <2>2
<1>5. 0 .. n \subseteq G
  <2>1. 0 \in G
    BY <1>1
  <2> HIDE DEF G, n
  <2> QED BY <1>1, <1>4, <2>1, Induct
<1>6. Calm(n)
  <2>1. n \in 0 .. n /\ n # 0
    BY <1>1
  <2> HIDE DEF Calm, n
  <2> QED BY <1>5, <2>1
<1> QED BY <1>6

-----------------------------------------------------------------------------
(* The lists of commands *)

\* The commands in flight are in the order in which they were sent.
InOrder(s, k) == \A i, j \in 1 .. Len(s) : i < j => SentAt(s[i], k) <= SentAt(s[j], k)

\* s is in flight for less than age, and q waits to be sent.
Lists(s, q, k, w, age) ==
    /\ s \in Seq(Commands) /\ q \in Seq(Commands)
    /\ \A i \in 1 .. Len(s) : FliesFor(s[i], k, w, age)
    /\ InOrder(s, k)
    /\ \A i \in 1 .. Len(q) : WaitsAgain(q[i], k, w)

\* When the commands of s were sent first.
FirstsOf(s) == {s[i].first : i \in {j \in 1 .. Len(s) : s[j].attempts > 0}}

Firsts(s, q) == FirstsOf(s) \cup FirstsOf(q)

\* The times of the first transmissions are times that have been.
LEMMA FirstsAre ==
    ASSUME NEW s, NEW q, NEW k \in Nat, NEW w, NEW age, Lists(s, q, k, w, age)
    PROVE  /\ Firsts(s, q) \in SUBSET Nat
           /\ \A f \in Firsts(s, q) : f \in StartAt .. k
           /\ \A i \in 1 .. Len(s) : s[i].first \in Firsts(s, q)
           /\ s # <<>> => 1 \in 1 .. Len(s)
<1>1. \A i \in 1 .. Len(s) : /\ s[i] \in Commands /\ s[i].attempts > 0
                             /\ s[i].first \in StartAt .. k
  <2> TAKE i \in 1 .. Len(s)
  <2>1. s[i] \in Commands /\ FliesFor(s[i], k, w, age)
    BY DEF Lists
  <2>2. s[i].sentTime \in Times
    BY <2>1 DEF Commands
  <2> DEFINE c == s[i]
  <2> HIDE DEF c
  <2>3. SentAt(c, k) \in Int /\ SentAt(c, k) <= k
    BY <2>2, Ages DEF c
  <2>4. c.attempts > 0 /\ c.first \in StartAt .. SentAt(c, k)
    BY <2>1 DEF FliesFor, c
  <2>5. c.first \in StartAt .. k
    BY <2>3, <2>4, WaitBound
  <2> QED BY <2>1, <2>4, <2>5 DEF c
<1>2. \A i \in 1 .. Len(q) : q[i].attempts > 0 => q[i].first \in StartAt .. k
  BY DEF Lists, WaitsAgain
<1>3. \A f \in Firsts(s, q) : f \in StartAt .. k
  BY <1>1, <1>2 DEF Firsts, FirstsOf
<1>4. Firsts(s, q) \in SUBSET Nat
  BY <1>3, WaitBound
<1>5. \A i \in 1 .. Len(s) : s[i].first \in Firsts(s, q)
  BY <1>1 DEF Firsts, FirstsOf
<1>6. s # <<>> => 1 \in 1 .. Len(s)
  BY DEF Lists
<1> QED BY <1>3, <1>4, <1>5, <1>6

\* The clock goes on to the next service.
LEMMA ListsLater ==
    ASSUME NEW s, NEW q, NEW k \in Nat, NEW w, Short(w), Lists(s, q, k, w, w),
           NEW step \in 0 .. MaxStep
    PROVE  /\ Lists(s, q, k + step, w, w + MaxStep)
           /\ \A i \in 1 .. Len(s) : SentAt(s[i], k + step) = SentAt(s[i], k)
<1>1. ASSUME NEW i \in 1 .. Len(s)
      PROVE  /\ FliesFor(s[i], k + step, w, w + MaxStep)
             /\ SentAt(s[i], k + step) = SentAt(s[i], k)
  <2> DEFINE c == s[i]
  <2>1. c \in Commands /\ FliesFor(c, k, w, w)
    BY DEF Lists
  <2>2. c.sentTime \in Times
    BY <2>1 DEF Commands
  <2> HIDE DEF c
  <2>3. /\ AgeAt(c, k) \in 0 .. Word - 1 /\ AgeAt(c, k) < w
        /\ w \in Nat /\ w + MaxStep + TimeoutMaximum < Overflow
        /\ step \in Nat /\ step <= MaxStep
    BY <2>1, <2>2, Ages, WaitBound DEF FliesFor, Short
  <2>4. AgeAt(c, k) + step < Word /\ AgeAt(c, k) + step < w + MaxStep
    BY <2>3, WaitBound
  <2>5. AgeAt(c, k + step) = AgeAt(c, k) + step /\ SentAt(c, k + step) = SentAt(c, k)
    BY <2>2, <2>3, <2>4, Ages
  <2> QED BY <2>1, <2>4, <2>5 DEF FliesFor, c
<1>2. InOrder(s, k + step)
  BY <1>1 DEF Lists, InOrder
<1>3. ASSUME NEW i \in 1 .. Len(q) PROVE WaitsAgain(q[i], k + step, w)
  <2>1. WaitsAgain(q[i], k, w)
    BY DEF Lists
  <2> QED BY <2>1, WaitBound DEF WaitsAgain
<1> QED BY <1>1, <1>2, <1>3 DEF Lists

\* The waits may be longer.
LEMMA ListsWider ==
    ASSUME NEW s, NEW q, NEW k \in Nat, NEW v \in Nat, NEW w \in Nat, v <= w, Lists(s, q, k, v, v)
    PROVE  Lists(s, q, k, w, w)
<1>1. ASSUME NEW i \in 1 .. Len(s) PROVE FliesFor(s[i], k, w, w)
  <2> DEFINE c == s[i]
  <2>1. c \in Commands /\ FliesFor(c, k, v, v)
    BY DEF Lists
  <2>2. c.sentTime \in Times
    BY <2>1 DEF Commands
  <2> HIDE DEF c
  <2>3. AgeAt(c, k) \in Int
    BY <2>2, Ages
  <2>4. FliesFor(c, k, w, w)
    BY <2>1, <2>3 DEF FliesFor
  <2> QED BY <2>4 DEF c
<1>2. ASSUME NEW i \in 1 .. Len(q) PROVE WaitsAgain(q[i], k, w)
  <2>1. WaitsAgain(q[i], k, v)
    BY DEF Lists
  <2> QED BY <2>1 DEF WaitsAgain
<1> QED BY <1>1, <1>2 DEF Lists

\* Commands are taken out of the lists.
LEMMA ListsWithout ==
    ASSUME NEW s, NEW q, NEW k \in Nat, NEW w, NEW age, Lists(s, q, k, w, age), NEW C, NEW D
    PROVE  /\ Lists(Others(s, C), Others(q, D), k, w, age)
           /\ Firsts(Others(s, C), Others(q, D)) \subseteq Firsts(s, q)
<1> DEFINE l == Others(s, C)
           r == Others(q, D)
           X == DOMAIN s \ C
           Y == DOMAIN q \ D
<1>1. s \in Seq(Commands) /\ q \in Seq(Commands)
  BY DEF Lists
<1>2. l \in Seq(Commands) /\ \E e : Embeds(e, l, s, Len(s), X)
  <2>1. Chosen(s, X) \in Seq(Commands) /\ \E e : Embeds(e, Chosen(s, X), s, Len(s), X)
    BY <1>1, ChosenEmbeds
  <2> QED BY <2>1, Zenon DEF Others
<1>3. r \in Seq(Commands) /\ \E e : Embeds(e, r, q, Len(q), Y)
  <2>1. Chosen(q, Y) \in Seq(Commands) /\ \E e : Embeds(e, Chosen(q, Y), q, Len(q), Y)
    BY <1>1, ChosenEmbeds
  <2> QED BY <2>1, Zenon DEF Others
<1> HIDE DEF l, r, X, Y
<1>4. PICK e : Embeds(e, l, s, Len(s), X)
  BY <1>2
<1>5. PICK d : Embeds(d, r, q, Len(q), Y)
  BY <1>3
<1>6. /\ \A i \in 1 .. Len(l) : e[i] \in 1 .. Len(s) /\ l[i] = s[e[i]]
      /\ \A i, j \in 1 .. Len(l) : i < j => e[i] < e[j]
  BY <1>4 DEF Embeds
<1>7. \A i \in 1 .. Len(r) : d[i] \in 1 .. Len(q) /\ r[i] = q[d[i]]
  BY <1>5 DEF Embeds
<1>8. InOrder(l, k)
  BY <1>6 DEF Lists, InOrder
<1>9. \A i \in 1 .. Len(l) : FliesFor(l[i], k, w, age)
  BY <1>6 DEF Lists
<1>10. \A i \in 1 .. Len(r) : WaitsAgain(r[i], k, w)
  BY <1>7 DEF Lists
<1>11. Firsts(l, r) \subseteq Firsts(s, q)
  BY <1>6, <1>7 DEF Firsts, FirstsOf
<1> QED BY <1>2, <1>3, <1>8, <1>9, <1>10, <1>11 DEF Lists, l, r

\* The commands that are due wait again; the others stay in flight.
LEMMA CheckedLists ==
    ASSUME NEW k \in Nat, NEW w, Short(w), Patience \in 1 .. w,
           Lists(sentReliableCommands, queued, k, w, w + MaxStep), sentReliableCommands # <<>>,
           \A i \in DOMAIN sentReliableCommands :
              i \in Due(k % Word) <=>
                 AgeAt(sentReliableCommands[i], k) >= sentReliableCommands[i].roundTripTimeout,
           1 \in Due(k % Word)
    PROVE  LET l == InFlight(k % Word)
               r == Retried(k % Word) \o queued
           IN  /\ Lists(l, r, k, w, w) /\ r # <<>>
               /\ Firsts(l, r) = Firsts(sentReliableCommands, queued)
<1> DEFINE s == sentReliableCommands
           C == Due(k % Word)
           X == DOMAIN s \ C
           l == InFlight(k % Word)
           o == Chosen(s, C)
           p == Retried(k % Word)
           r == p \o queued
<1>1. s \in Seq(Commands) /\ queued \in Seq(Commands) /\ DOMAIN s = 1 .. Len(s)
  BY DEF Lists
<1>2. l \in Seq(Commands) /\ \E e : Embeds(e, l, s, Len(s), X)
  <2>1. Chosen(s, X) \in Seq(Commands) /\ \E e : Embeds(e, Chosen(s, X), s, Len(s), X)
    BY <1>1, ChosenEmbeds
  <2> QED BY <2>1, Zenon DEF InFlight, Others
<1>3. o \in Seq(Commands) /\ \E e : Embeds(e, o, s, Len(s), C)
  BY <1>1, ChosenEmbeds
<1>4. PICK e : Embeds(e, l, s, Len(s), X)
  BY <1>2
<1>5. PICK d : Embeds(d, o, s, Len(s), C)
  BY <1>3
<1>6. p = [i \in DOMAIN o |-> [o[i] EXCEPT !.roundTripTimeout = Patience]]
  BY DEF Retried
<1>7. /\ \A i \in DOMAIN s : i \in C <=> AgeAt(s[i], k) >= s[i].roundTripTimeout
      /\ 1 \in C /\ \A i \in 1 .. Len(s) : FliesFor(s[i], k, w, w + MaxStep)
      /\ \A i \in 1 .. Len(queued) : WaitsAgain(queued[i], k, w)
      /\ w \in Nat /\ w < Word
      /\ InOrder(s, k) /\ s # <<>>
  BY WaitBound DEF Lists, Short
<1> HIDE DEF l, o, p, X, C, s
<1>8. /\ \A i \in 1 .. Len(l) : e[i] \in 1 .. Len(s) /\ l[i] = s[e[i]] /\ e[i] \notin C
      /\ \A i, j \in 1 .. Len(l) : i < j => e[i] < e[j]
      /\ \A j \in 1 .. Len(s) : j \notin C => \E i \in 1 .. Len(l) : l[i] = s[j]
  <2>1. \A i \in 1 .. Len(l) : e[i] \in 1 .. Len(s) /\ l[i] = s[e[i]] /\ e[i] \in X
    BY <1>4 DEF Embeds
  <2>2. \A j \in 1 .. Len(s) : j \in X => \E i \in 1 .. Len(l) : e[i] = j /\ l[i] = s[j]
    BY <1>4 DEF Embeds
  <2>3. \A i, j \in 1 .. Len(l) : i < j => e[i] < e[j]
    BY <1>4 DEF Embeds
  <2> QED BY <1>1, <2>1, <2>2, <2>3 DEF X
<1>9. /\ \A i \in 1 .. Len(o) : d[i] \in 1 .. Len(s) /\ o[i] = s[d[i]]
      /\ \A j \in 1 .. Len(s) : j \in C => \E i \in 1 .. Len(o) : o[i] = s[j]
  <2>1. \A i \in 1 .. Len(o) : d[i] \in 1 .. Len(s) /\ o[i] = s[d[i]]
    BY <1>5 DEF Embeds
  <2>2. \A j \in 1 .. Len(s) : j \in C => \E i \in 1 .. Len(o) : d[i] = j /\ o[i] = s[j]
    BY <1>5 DEF Embeds
  <2> QED BY <2>1, <2>2
<1>10. \A i \in 1 .. Len(s) :
          /\ s[i] \in Commands /\ s[i].attempts > 0 /\ s[i].first \in StartAt .. k
          /\ i \notin C => FliesFor(s[i], k, w, w)
  <2> TAKE i \in 1 .. Len(s)
  <2> DEFINE c == s[i]
  <2>0. c \in Commands /\ FliesFor(c, k, w, w + MaxStep)
    BY <1>1, <1>7
  <2>1. c \in Commands /\ FliesFor(c, k, w, w + MaxStep) /\ c.sentTime \in Times
    BY <2>0 DEF Commands
  <2>2. i \notin C => ~ (AgeAt(c, k) >= c.roundTripTimeout)
    BY <1>1, <1>7
  <2> HIDE DEF c
  <2>3. SentAt(c, k) \in Int /\ SentAt(c, k) <= k /\ AgeAt(c, k) \in 0 .. Word - 1
    BY <2>1, Ages
  <2>4. c.attempts > 0 /\ c.first \in StartAt .. SentAt(c, k) /\ c.roundTripTimeout \in 1 .. w
    BY <2>1 DEF FliesFor
  <2>5. c.first \in StartAt .. k
    BY <2>3, <2>4, WaitBound
  <2>6. i \notin C => AgeAt(c, k) < w
    BY <1>7, <2>2, <2>3, <2>4
  <2> QED BY <2>1, <2>4, <2>5, <2>6 DEF FliesFor, c
<1>11. /\ p \in Seq(Commands) /\ Len(p) = Len(o)
       /\ \A i \in 1 .. Len(o) : /\ p[i].roundTripTimeout = Patience
                                 /\ p[i].first = o[i].first /\ p[i].attempts = o[i].attempts
  <2>1. DOMAIN o = 1 .. Len(o) /\ Len(o) \in Nat /\ \A i \in 1 .. Len(o) : o[i] \in Commands
    BY <1>3
  <2>2. Patience \in Times
    BY <1>7, WaitBound DEF Times
  <2>3. \A i \in 1 .. Len(o) :
           /\ [o[i] EXCEPT !.roundTripTimeout = Patience] \in Commands
           /\ [o[i] EXCEPT !.roundTripTimeout = Patience].roundTripTimeout = Patience
           /\ [o[i] EXCEPT !.roundTripTimeout = Patience].first = o[i].first
           /\ [o[i] EXCEPT !.roundTripTimeout = Patience].attempts = o[i].attempts
    BY <2>1, <2>2 DEF Commands
  <2>4. p \in [1 .. Len(o) -> Commands]
    BY <1>6, <2>1, <2>3
  <2>5. p \in Seq(Commands) /\ Len(p) = Len(o)
    BY <2>1, <2>4
  <2>6. \A i \in 1 .. Len(o) : p[i] = [o[i] EXCEPT !.roundTripTimeout = Patience]
    BY <1>6, <2>1
  <2> QED BY <2>3, <2>5, <2>6, Zenon
<1>12. /\ r \in Seq(Commands) /\ Len(r) = Len(p) + Len(queued)
       /\ \A i \in 1 .. Len(r) : r[i] = IF i <= Len(p) THEN p[i] ELSE queued[i - Len(p)]
  <2>1. p \in Seq(Commands) /\ queued \in Seq(Commands)
    BY <1>1, <1>11
  <2> QED BY <2>1
<1> HIDE DEF r
<1>13. InOrder(l, k)
  <2>1. /\ \A i \in 1 .. Len(l) : e[i] \in 1 .. Len(s) /\ l[i] = s[e[i]]
        /\ \A i, j \in 1 .. Len(l) : i < j => e[i] < e[j]
    BY <1>8
  <2>2. InOrder(s, k)
    BY <1>7
  <2> QED BY <2>1, <2>2 DEF InOrder
<1>14. \A i \in 1 .. Len(l) : FliesFor(l[i], k, w, w)
  BY <1>8, <1>10
<1>15. ASSUME NEW i \in 1 .. Len(r) PROVE WaitsAgain(r[i], k, w)
  <2>0. Len(p) \in Nat /\ Len(queued) \in Nat
    BY <1>1, <1>11
  <2>1. CASE i <= Len(p)
    <3>1. i \in 1 .. Len(o) /\ r[i] = p[i]
      BY <1>11, <1>12, <2>0, <2>1
    <3>2. p[i].first \in StartAt .. k /\ p[i].roundTripTimeout = Patience
      BY <1>9, <1>10, <1>11, <3>1
    <3> QED BY <3>1, <3>2 DEF WaitsAgain
  <2>2. CASE i > Len(p)
    <3>1. i - Len(p) \in 1 .. Len(queued) /\ r[i] = queued[i - Len(p)]
      BY <1>12, <2>0, <2>2
    <3> QED BY <1>7, <3>1
  <2> QED BY <2>0, <2>1, <2>2
<1>16. r # <<>>
  <2>1. PICK i \in 1 .. Len(o) : o[i] = s[1]
    <3>1. 1 \in 1 .. Len(s)
      BY <1>1, <1>7
    <3> QED BY <1>7, <1>9, <3>1
  <2>2. Len(r) > 0
    BY <1>1, <1>11, <1>12, <2>1
  <2> QED BY <2>2
<1>17. FirstsOf(r) = FirstsOf(o) \cup FirstsOf(queued)
  <2>0. Len(p) \in Nat /\ Len(queued) \in Nat /\ Len(p) = Len(o) /\ Len(r) = Len(p) + Len(queued)
    BY <1>1, <1>11, <1>12
  <2>1. \A i \in 1 .. Len(o) : /\ i \in 1 .. Len(r) /\ r[i].first = o[i].first
                               /\ r[i].attempts = o[i].attempts
    BY <1>11, <1>12, <2>0
  <2>2. \A i \in 1 .. Len(queued) : i + Len(p) \in 1 .. Len(r) /\ r[i + Len(p)] = queued[i]
    <3> TAKE i \in 1 .. Len(queued)
    <3>1. /\ i + Len(p) \in 1 .. Len(r) /\ ~ (i + Len(p) <= Len(p))
          /\ (i + Len(p)) - Len(p) = i
      BY <2>0
    <3> QED BY <1>12, <3>1, Zenon
  <2>3. \A i \in 1 .. Len(r) : \/ i \in 1 .. Len(o)
                               \/ i - Len(p) \in 1 .. Len(queued) /\ r[i] = queued[i - Len(p)]
    BY <1>12, <2>0
  <2>4. FirstsOf(o) \subseteq FirstsOf(r)
    BY <2>1 DEF FirstsOf
  <2>5. FirstsOf(queued) \subseteq FirstsOf(r)
    BY <2>2 DEF FirstsOf
  <2>6. FirstsOf(r) \subseteq FirstsOf(o) \cup FirstsOf(queued)
    BY <2>1, <2>3 DEF FirstsOf
  <2> QED BY <2>4, <2>5, <2>6
<1>18. FirstsOf(l) \cup FirstsOf(o) = FirstsOf(s)
  <2>1. FirstsOf(l) \subseteq FirstsOf(s)
    BY <1>8 DEF FirstsOf
  <2>2. FirstsOf(o) \subseteq FirstsOf(s)
    BY <1>9 DEF FirstsOf
  <2>3. ASSUME NEW i \in 1 .. Len(s), s[i].attempts > 0
        PROVE  s[i].first \in FirstsOf(l) \cup FirstsOf(o)
    <3>1. CASE i \in C
      BY <1>9, <2>3, <3>1 DEF FirstsOf
    <3>2. CASE i \notin C
      BY <1>8, <2>3, <3>2 DEF FirstsOf
    <3> QED BY <3>1, <3>2
  <2>4. FirstsOf(s) \subseteq FirstsOf(l) \cup FirstsOf(o)
    BY <2>3 DEF FirstsOf
  <2> QED BY <2>1, <2>2, <2>4
<1>19. Firsts(l, r) = Firsts(s, queued)
  BY <1>17, <1>18 DEF Firsts
<1>20. Lists(l, r, k, w, w)
  BY <1>2, <1>12, <1>13, <1>14, <1>15 DEF Lists
<1> QED BY <1>16, <1>19, <1>20 DEF l, r, p, s

\* A command that is sent is in flight from now on.
LEMMA Transmitted ==
    ASSUME NEW k \in Nat, k >= StartAt, NEW w, Short(w), Patience \in 1 .. w,
           NEW c \in Commands, WaitsAgain(c, k, w)
    PROVE  LET t == Transmit(c, k % Word, k)
           IN  /\ t \in Commands /\ FliesFor(t, k, w, w) /\ SentAt(t, k) = k
               /\ t.attempts > 0
               /\ t.first = IF c.attempts > 0 THEN c.first ELSE k
<1> DEFINE t == Transmit(c, k % Word, k)
           x == k % Word
           a == c.attempts + 1
           r == IF c.roundTripTimeout = 0 THEN Patience ELSE c.roundTripTimeout
           f == IF c.attempts = 0 THEN k ELSE c.first
<1>1. /\ c.roundTripTimeout \in 0 .. w /\ c.attempts \in Nat /\ c.first \in Nat
      /\ c.attempts > 0 => c.first \in StartAt .. k
  BY DEF Commands, WaitsAgain
<1>2. /\ x \in Times /\ w \in Nat \ {0} /\ w < Word /\ StartAt \in Nat
  <2>1. x \in Times
    <3>1. k \in Int /\ Word \in Nat \ {0}
      BY WaitBound
    <3> QED BY <3>1, DivMod, Zenon DEF Times
  <2> QED BY <2>1, WaitBound DEF Short
<1>3. /\ a \in Nat /\ a > 0 /\ r \in 1 .. w /\ r \in Times /\ f \in Nat /\ f \in StartAt .. k
      /\ f = IF c.attempts > 0 THEN c.first ELSE k
  <2> HIDE DEF x, a, r, f
  <2>1. a \in Nat /\ a > 0
    BY <1>1 DEF a
  <2>2. r \in 1 .. w
    BY <1>1, <1>2 DEF r
  <2>3. r \in Times
    BY <1>2, <2>2, WaitBound DEF Times
  <2>4. f \in StartAt .. k /\ f = IF c.attempts > 0 THEN c.first ELSE k
    BY <1>1, <1>2 DEF f
  <2>5. f \in Nat
    BY <1>2, <2>4
  <2> QED BY <2>1, <2>2, <2>3, <2>4, <2>5
<1>4. t = [c EXCEPT !.sentTime = x, !.attempts = a, !.roundTripTimeout = r, !.first = f]
  BY Zenon DEF Transmit
<1> HIDE DEF t, x, a, r, f
<1>5. t \in Commands /\ t.sentTime = x /\ t.attempts = a /\ t.roundTripTimeout = r /\ t.first = f
  <2>1. x \in Times /\ a \in Nat /\ r \in Times /\ f \in Nat
    BY <1>2, <1>3
  <2> QED BY <1>4, <2>1 DEF Commands
<1>6. AgeAt(t, k) = 0 /\ SentAt(t, k) = k
  BY <1>5, AgeOfNew DEF x
<1>7. FliesFor(t, k, w, w)
  BY <1>2, <1>3, <1>5, <1>6 DEF FliesFor
<1> QED BY <1>3, <1>5, <1>6, <1>7 DEF t

\* What is sent follows what is in flight.
LEMMA SentLists ==
    ASSUME NEW k \in Nat, k >= StartAt, NEW w, Short(w), Patience \in 1 .. w,
           NEW l, NEW all, Lists(l, all, k, w, w), NEW n \in 0 .. Len(all), NEW deadline,
           SendSome(l, all, k % Word, k, n, deadline)
    PROVE  LET s == sentReliableCommands'
               q == queued'
           IN  /\ Lists(s, q, k, w, w)
               /\ Firsts(l, all) \subseteq Firsts(s, q)
               /\ Firsts(s, q) \subseteq Firsts(l, all) \cup {k}
               /\ s = <<>> => l = <<>> /\ all = <<>> /\ q = <<>> /\ nextTimeout' = deadline
               /\ l # <<>> => s # <<>> /\ s[1] = l[1] /\ nextTimeout' = deadline
               /\ l = <<>> /\ s # <<>> =>
                     SentAt(s[1], k) = k /\ nextTimeout' = Deadline(s[1])
<1> DEFINE s == sentReliableCommands'
           q == queued'
           t(i) == Transmit(all[i], k % Word, k)
           sent == [i \in 1 .. n |-> t(i)]
<1>1. /\ l \in Seq(Commands) /\ all \in Seq(Commands)
      /\ \A i \in 1 .. Len(l) : FliesFor(l[i], k, w, w)
      /\ InOrder(l, k) /\ \A i \in 1 .. Len(all) : WaitsAgain(all[i], k, w)
  BY DEF Lists
<1>2. /\ Len(l) \in Nat /\ Len(all) \in Nat /\ n \in Nat /\ n <= Len(all)
      /\ \A i \in 1 .. Len(l) : l[i] \in Commands
      /\ \A i \in 1 .. Len(all) : all[i] \in Commands
  BY <1>1
<1>3. /\ s = l \o sent /\ q = SubSeq(all, n + 1, Len(all))
      /\ (l = <<>> /\ all # <<>>) => n > 0
      /\ nextTimeout' = IF l = <<>> /\ n > 0 THEN Deadline(Head(sent)) ELSE deadline
  BY Zenon DEF SendSome
<1>4. \A i \in 1 .. n : /\ t(i) \in Commands /\ FliesFor(t(i), k, w, w) /\ SentAt(t(i), k) = k
                        /\ t(i).attempts > 0
                        /\ t(i).first = IF all[i].attempts > 0 THEN all[i].first ELSE k
  <2> TAKE i \in 1 .. n
  <2>1. i \in 1 .. Len(all)
    BY <1>2
  <2>2. all[i] \in Commands /\ WaitsAgain(all[i], k, w)
    BY <1>1, <1>2, <2>1
  <2> QED BY <2>2, Transmitted, Zenon
<1> HIDE DEF t
<1>5. sent \in Seq(Commands) /\ Len(sent) = n /\ \A i \in 1 .. n : sent[i] = t(i)
  BY <1>2, <1>4
<1> HIDE DEF sent
<1>6. /\ s \in Seq(Commands) /\ Len(s) = Len(l) + n
      /\ \A i \in 1 .. Len(s) : s[i] = IF i <= Len(l) THEN l[i] ELSE sent[i - Len(l)]
  <2>1. l \in Seq(Commands) /\ sent \in Seq(Commands) /\ Len(sent) = n
    BY <1>1, <1>5
  <2>2. /\ l \o sent \in Seq(Commands) /\ Len(l \o sent) = Len(l) + n
        /\ \A i \in 1 .. Len(l \o sent) :
              (l \o sent)[i] = IF i <= Len(l) THEN l[i] ELSE sent[i - Len(l)]
    BY <2>1
  <2> QED BY <1>3, <2>2, Zenon
<1>7. /\ q \in Seq(Commands) /\ Len(q) = Len(all) - n
      /\ \A i \in 1 .. Len(q) : q[i] = all[n + i]
  <2>1. all \in Seq(Commands) /\ q = SubSeq(all, n + 1, Len(all))
    BY <1>1, <1>3
  <2> HIDE DEF q
  <2> QED BY <1>2, <2>1
<1> HIDE DEF s, q
<1>8. \A i \in 1 .. Len(s) : \/ i \in 1 .. Len(l) /\ s[i] = l[i]
                             \/ i > Len(l) /\ i - Len(l) \in 1 .. n /\ s[i] = t(i - Len(l))
  BY <1>2, <1>5, <1>6
<1>9. \A i \in 1 .. Len(l) : i \in 1 .. Len(s) /\ s[i] = l[i]
  BY <1>2, <1>6
<1>10. \A i \in 1 .. n : i + Len(l) \in 1 .. Len(s) /\ s[i + Len(l)] = t(i)
  <2> TAKE i \in 1 .. n
  <2>1. /\ i + Len(l) \in 1 .. Len(s) /\ ~ (i + Len(l) <= Len(l))
        /\ (i + Len(l)) - Len(l) = i
    BY <1>2, <1>6
  <2> QED BY <1>5, <1>6, <2>1, Zenon
<1>11. \A i \in 1 .. Len(all) : \/ i \in 1 .. n
                                \/ i - n \in 1 .. Len(q) /\ q[i - n] = all[i]
  <2> TAKE i \in 1 .. Len(all)
  <2>1. CASE i <= n
    BY <1>2, <2>1
  <2>2. CASE i > n
    <3>1. i - n \in 1 .. Len(q) /\ n + (i - n) = i
      BY <1>2, <1>7, <2>2
    <3>2. q[i - n] = all[n + (i - n)]
      BY <1>7, <3>1, Zenon
    <3> QED BY <3>1, <3>2, Zenon
  <2> QED BY <1>2, <2>1, <2>2
<1>12. \A i \in 1 .. Len(s) : FliesFor(s[i], k, w, w)
  <2>1. /\ \A i \in 1 .. Len(l) : FliesFor(l[i], k, w, w)
        /\ \A i \in 1 .. n : FliesFor(t(i), k, w, w)
    BY <1>1, <1>4
  <2> QED BY <1>8, <2>1, Zenon
<1>13. \A i \in 1 .. Len(q) : n + i \in 1 .. Len(all) /\ q[i] = all[n + i] /\ WaitsAgain(q[i], k, w)
  <2> TAKE i \in 1 .. Len(q)
  <2>1. n + i \in 1 .. Len(all)
    BY <1>2, <1>7
  <2>2. q[i] = all[n + i]
    BY <1>7
  <2> QED BY <1>1, <2>1, <2>2, Zenon
<1>14. InOrder(s, k)
  <2> SUFFICES ASSUME NEW i \in 1 .. Len(s), NEW j \in 1 .. Len(s), i < j
               PROVE  SentAt(s[i], k) <= SentAt(s[j], k)
    BY DEF InOrder
  <2>1. CASE j <= Len(l)
    <3>1. i \in 1 .. Len(l) /\ j \in 1 .. Len(l)
      BY <1>2, <1>6, <2>1
    <3> QED BY <1>1, <1>9, <3>1 DEF InOrder
  <2>2. CASE j > Len(l)
    <3>1. SentAt(s[j], k) = k
      <4>1. j - Len(l) \in 1 .. n /\ s[j] = t(j - Len(l))
        BY <1>2, <1>8, <2>2
      <4> QED BY <1>4, <4>1, Zenon
    <3>2. s[i].sentTime \in Times
      <4>1. s[i] \in Commands
        BY <1>6
      <4> QED BY <4>1 DEF Commands
    <3>3. SentAt(s[i], k) <= k
      BY <3>2, Ages
    <3> QED BY <3>1, <3>3
  <2> QED BY <1>2, <1>6, <2>1, <2>2
<1>15. Lists(s, q, k, w, w)
  BY <1>6, <1>7, <1>12, <1>13, <1>14 DEF Lists
<1>16. Firsts(l, all) \subseteq Firsts(s, q)
  <2>1. FirstsOf(l) \subseteq FirstsOf(s)
    BY <1>9 DEF FirstsOf
  <2>2. ASSUME NEW i \in 1 .. Len(all), all[i].attempts > 0
        PROVE  all[i].first \in FirstsOf(s) \cup FirstsOf(q)
    <3>1. CASE i \in 1 .. n
      <4>1. i + Len(l) \in 1 .. Len(s) /\ s[i + Len(l)].attempts > 0
            /\ s[i + Len(l)].first = all[i].first
        BY <1>4, <1>10, <2>2, <3>1
      <4> QED BY <4>1 DEF FirstsOf
    <3>2. CASE i - n \in 1 .. Len(q) /\ q[i - n] = all[i]
      BY <2>2, <3>2 DEF FirstsOf
    <3> QED BY <1>11, <3>1, <3>2
  <2>3. FirstsOf(all) \subseteq FirstsOf(s) \cup FirstsOf(q)
    BY <2>2 DEF FirstsOf
  <2> QED BY <2>1, <2>3 DEF Firsts
<1>17. Firsts(s, q) \subseteq Firsts(l, all) \cup {k}
  <2>1. ASSUME NEW i \in 1 .. Len(s), s[i].attempts > 0
        PROVE  s[i].first \in FirstsOf(l) \cup FirstsOf(all) \cup {k}
    <3>1. CASE i \in 1 .. Len(l) /\ s[i] = l[i]
      BY <2>1, <3>1 DEF FirstsOf
    <3>2. CASE i - Len(l) \in 1 .. n /\ s[i] = t(i - Len(l))
      <4> DEFINE j == i - Len(l)
      <4>1. j \in 1 .. n /\ j \in 1 .. Len(all) /\ s[i] = t(j)
        BY <1>2, <3>2
      <4> HIDE DEF j
      <4>2. s[i].first = IF all[j].attempts > 0 THEN all[j].first ELSE k
        BY <1>4, <4>1
      <4> QED BY <4>1, <4>2 DEF FirstsOf
    <3> QED BY <1>8, <3>1, <3>2
  <2>2. FirstsOf(s) \subseteq FirstsOf(l) \cup FirstsOf(all) \cup {k}
    BY <2>1 DEF FirstsOf
  <2>3. FirstsOf(q) \subseteq FirstsOf(all)
    BY <1>13 DEF FirstsOf
  <2> QED BY <2>2, <2>3 DEF Firsts
<1>18. s = <<>> => l = <<>> /\ all = <<>> /\ q = <<>> /\ nextTimeout' = deadline
  <2> SUFFICES ASSUME s = <<>> PROVE l = <<>> /\ all = <<>> /\ q = <<>> /\ nextTimeout' = deadline
    OBVIOUS
  <2>1. Len(l) = 0 /\ n = 0
    BY <1>2, <1>6
  <2>2. l = <<>>
    BY <1>1, <2>1
  <2>3. all = <<>>
    BY <1>3, <2>1, <2>2
  <2>4. q = <<>>
    <3>1. Len(q) = 0
      BY <1>7, <2>1, <2>3
    <3> QED BY <1>7, <3>1
  <2> QED BY <1>3, <2>1, <2>2, <2>3, <2>4
<1>19. l # <<>> => s # <<>> /\ s[1] = l[1] /\ nextTimeout' = deadline
  <2> SUFFICES ASSUME l # <<>> PROVE s # <<>> /\ s[1] = l[1] /\ nextTimeout' = deadline
    OBVIOUS
  <2>1. 1 \in 1 .. Len(l)
    BY <1>1
  <2>2. 1 \in 1 .. Len(s) /\ s[1] = l[1]
    BY <1>9, <2>1
  <2>3. s # <<>>
    BY <1>6, <2>2
  <2> QED BY <1>3, <2>2, <2>3
<1>20. l = <<>> /\ s # <<>> => SentAt(s[1], k) = k /\ nextTimeout' = Deadline(s[1])
  <2> SUFFICES ASSUME l = <<>>, s # <<>> PROVE SentAt(s[1], k) = k /\ nextTimeout' = Deadline(s[1])
    OBVIOUS
  <2>1. Len(l) = 0 /\ 1 \in 1 .. n
    BY <1>2, <1>6
  <2>2. s[1] = t(1) /\ sent[1] = t(1) /\ SentAt(t(1), k) = k
    BY <1>4, <1>5, <1>10, <2>1
  <2>3. Head(sent) = sent[1] /\ n > 0
    BY <1>5, <2>1
  <2> QED BY <1>3, <2>2, <2>3
<1> QED BY <1>15, <1>16, <1>17, <1>18, <1>19, <1>20 DEF s, q

-----------------------------------------------------------------------------
(* What a service leaves *)

\* The check for timeouts is made exactly when the first command in flight is due.
LEMMA LeftLists ==
    ASSUME NEW k \in Nat, NEW w, Short(w), Patience \in 1 .. w,
           Lists(sentReliableCommands, queued, k, w, w + MaxStep),
           sentReliableCommands # <<>> => nextTimeout = Deadline(sentReliableCommands[1])
    PROVE  /\ Lists(Left(k), Waits(k), k, w, w)
           /\ Firsts(Left(k), Waits(k)) = Firsts(sentReliableCommands, queued)
           /\ Checks(k) => /\ sentReliableCommands # <<>> /\ Waits(k) # <<>>
                           /\ Overdue(sentReliableCommands[1], k % Word)
           /\ ~ Checks(k) => Left(k) = sentReliableCommands /\ Waits(k) = queued
           /\ DueAt(k) = IF Left(k) = <<>> THEN nextTimeout ELSE Deadline(Left(k)[1])
<1> DEFINE s == sentReliableCommands
           now == k % Word
<1>1. /\ s \in Seq(Commands) /\ queued \in Seq(Commands)
      /\ DOMAIN s = 1 .. Len(s) /\ (s # <<>> => 1 \in 1 .. Len(s) /\ Head(s) = s[1])
      /\ \A i \in 1 .. Len(s) : FliesFor(s[i], k, w, w + MaxStep)
      /\ InOrder(s, k)
      /\ \A i \in 1 .. Len(queued) : WaitsAgain(queued[i], k, w)
  BY DEF Lists
<1>2. \A i \in 1 .. Len(s) :
          /\ AgeAt(s[i], k) \in Nat /\ s[i].roundTripTimeout \in 1 .. w
          /\ Overdue(s[i], now) <=> AgeAt(s[i], k) >= s[i].roundTripTimeout
          /\ TimeLess(now, Deadline(s[i])) <=> AgeAt(s[i], k) < s[i].roundTripTimeout
  <2> TAKE i \in 1 .. Len(s)
  <2> DEFINE c == s[i]
  <2>1. c \in Commands /\ FliesFor(c, k, w, w + MaxStep)
    BY <1>1
  <2>2. c.sentTime \in Times
    BY <2>1 DEF Commands
  <2> HIDE DEF c, now
  <2>3. AgeAt(c, k) \in Nat /\ c.roundTripTimeout \in 1 .. w
    BY <2>1, <2>2, Ages, WaitBound DEF FliesFor
  <2>4. /\ Overdue(c, now) <=> AgeAt(c, k) >= c.roundTripTimeout
        /\ TimeLess(now, Deadline(c)) <=> AgeAt(c, k) < c.roundTripTimeout
    BY <2>1, <2>2, OverdueByAge DEF now
  <2> QED BY <2>3, <2>4 DEF c
<1>3. /\ Checks(k) => s # <<>> /\ AgeAt(s[1], k) >= s[1].roundTripTimeout
      /\ s # <<>> /\ ~ Checks(k) => AgeAt(s[1], k) < s[1].roundTripTimeout
  <2>1. CASE s = <<>>
    BY <2>1 DEF Checks
  <2>2. CASE s # <<>>
    <3>1. Checks(k) <=> ~ TimeLess(now, Deadline(s[1]))
      BY <2>2 DEF Checks
    <3>2. 1 \in 1 .. Len(s) /\ w \in Nat
      BY <1>1, <2>2 DEF Short
    <3> HIDE DEF s, now
    <3>3. /\ AgeAt(s[1], k) \in Nat /\ s[1].roundTripTimeout \in 1 .. w
          /\ TimeLess(now, Deadline(s[1])) <=> AgeAt(s[1], k) < s[1].roundTripTimeout
      BY <1>2, <3>2
    <3> QED BY <2>2, <3>1, <3>2, <3>3
  <2> QED BY <2>1, <2>2
<1>4. CASE Checks(k)
  <2>1. Left(k) = InFlight(now) /\ Waits(k) = Retried(now) \o queued
    BY <1>4 DEF Left, Waits
  <2>2. 1 \in 1 .. Len(s) /\ Overdue(s[1], now)
    BY <1>1, <1>2, <1>3, <1>4
  <2>3. \A i \in DOMAIN s : i \in Due(now) <=> AgeAt(s[i], k) >= s[i].roundTripTimeout
    BY <1>1, <1>2 DEF Due
  <2>4. 1 \in Due(now)
    BY <1>1, <2>2 DEF Due
  <2>5. /\ Lists(Left(k), Waits(k), k, w, w) /\ Waits(k) # <<>>
        /\ Firsts(Left(k), Waits(k)) = Firsts(s, queued)
    <3>1. s # <<>> /\ 1 \in Due(now)
      BY <1>3, <1>4, <2>4
    <3> DEFINE l == InFlight(now)
               r == Retried(now) \o queued
    <3>2. Lists(l, r, k, w, w) /\ r # <<>> /\ Firsts(l, r) = Firsts(s, queued)
      BY <2>3, <3>1, CheckedLists
    <3> QED BY <2>1, <3>2, Zenon
  <2>6. DueAt(k) = NextTimeout(Left(k))
    BY <1>1, <1>3, <1>4, <2>2 DEF DueAt
  <2>7. Left(k) # <<>> => Head(Left(k)) = Left(k)[1]
    BY <2>5 DEF Lists
  <2> QED BY <1>3, <1>4, <2>2, <2>5, <2>6, <2>7 DEF NextTimeout
<1>5. CASE ~ Checks(k)
  <2>1. Left(k) = s /\ Waits(k) = queued /\ DueAt(k) = nextTimeout
    BY <1>5 DEF Left, Waits, DueAt
  <2>2. ASSUME NEW i \in 1 .. Len(s) PROVE FliesFor(s[i], k, w, w)
    <3>1. 1 \in 1 .. Len(s) /\ s # <<>> /\ w \in Nat
      BY <1>1 DEF Short
    <3>2. SentAt(s[1], k) <= SentAt(s[i], k)
      <4>1. CASE i = 1
        <5>1. SentAt(s[1], k) \in Int
          BY <1>2, <3>1 DEF SentAt
        <5> QED BY <4>1, <5>1
      <4>2. CASE i # 1
        BY <1>1, <3>1, <4>2 DEF InOrder
      <4> QED BY <4>1, <4>2
    <3> HIDE DEF s
    <3>3. AgeAt(s[i], k) < w
      <4>1. AgeAt(s[1], k) \in Nat /\ AgeAt(s[i], k) \in Nat /\ s[1].roundTripTimeout \in 1 .. w
        BY <1>2, <3>1
      <4>2. AgeAt(s[1], k) < s[1].roundTripTimeout
        BY <1>3, <1>5, <3>1
      <4> QED BY <3>1, <3>2, <4>1, <4>2 DEF SentAt
    <3> QED BY <1>1, <3>3 DEF FliesFor
  <2>3. Lists(s, queued, k, w, w)
    BY <1>1, <2>2 DEF Lists
  <2> QED BY <1>5, <2>1, <2>3
<1> QED BY <1>4, <1>5

\* A ping was never sent before.
LEMMA SendingLists ==
    ASSUME NEW k \in Nat, NEW w, Short(w), Lists(Left(k), Waits(k), k, w, w),
           numbered \in 0 .. MaxCommands, NEW all, ToSend(k, all)
    PROVE  /\ Lists(Left(k), all, k, w, w)
           /\ Firsts(Left(k), all) = Firsts(Left(k), Waits(k))
           /\ all = <<>> => Waits(k) = <<>>
           /\ numbered' \in 0 .. MaxCommands
<1>1. CASE all = Waits(k) /\ numbered' = numbered
  BY <1>1
<1>2. CASE /\ Left(k) = <<>> /\ Waits(k) = <<>> /\ numbered' = numbered + 1
           /\ numbered < MaxCommands /\ all = <<Command(numbered')>>
  <2> DEFINE c == Command(numbered')
  <2>1. numbered' \in 1 .. MaxCommands
    BY <1>2, WaitBound
  <2>2. c \in Commands /\ WaitsAgain(c, k, w) /\ ~ (c.attempts > 0)
    <3>1. 0 \in Times /\ w \in Nat
      BY WaitBound DEF Times, Short
    <3> QED BY <2>1, <3>1 DEF Command, Commands, WaitsAgain
  <2> HIDE DEF c
  <2>3. all \in Seq(Commands) /\ Len(all) = 1 /\ all[1] = c
    <3>1. all = <<c>>
      BY <1>2 DEF c
    <3> QED BY <2>2, <3>1
  <2>4. \A i \in 1 .. Len(all) : WaitsAgain(all[i], k, w) /\ ~ (all[i].attempts > 0)
    BY <2>2, <2>3
  <2>5. FirstsOf(all) = {} /\ FirstsOf(<<>>) = {}
    BY <2>4 DEF FirstsOf
  <2>6. Lists(Left(k), all, k, w, w)
    BY <2>3, <2>4 DEF Lists
  <2>7. numbered' \in 0 .. MaxCommands
    BY <2>1
  <2> QED BY <1>2, <2>5, <2>6, <2>7 DEF Firsts
<1> QED BY <1>1, <1>2 DEF ToSend

\* Times near the news of all commands are near those of a command sent later.
LEMMA NearMore ==
    ASSUME NEW F, NEW G, NEW k \in Nat, G \subseteq F \cup {k}, NEW h \in Nat, NEW w,
           NEW m \in Int, m <= k, Near(m, F, h, w)
    PROVE  Near(m, G, h, w)
<1> SUFFICES ASSUME NEW f \in G PROVE NearTo(m, Max({f, h}), w)
  BY DEF Near
<1>1. CASE f \in F
  BY <1>1 DEF Near
<1>2. CASE f = k
  <2>1. Max({k, h}) = IF k >= h THEN k ELSE h
    BY MaxOfTwo
  <2>2. m <= Max({k, h}) + MaxStep
    BY <2>1, WaitBound
  <2> QED BY <1>2, <2>2 DEF NearTo
<1> QED BY <1>1, <1>2

-----------------------------------------------------------------------------
(* The inductive invariant *)

\* What earliestTimeout says: when a command was heard of that is still in flight.
Marked(s, F, k, h, e, w) ==
    IF s # <<>> THEN Began(s[1], F, k, h, e, w)
    ELSE e = 0 /\ (F # {} => k = h)

TInv ==
    /\ clock \in StartAt .. MaxTime /\ heard \in StartAt .. clock
    /\ connected \in BOOLEAN /\ numbered \in 0 .. MaxCommands
    /\ nextTimeout \in Times /\ earliestTimeout \in Times
    /\ Lists(sentReliableCommands, queued, clock, LongestWait, LongestWait)
    /\ sentReliableCommands # <<>> => nextTimeout = Deadline(sentReliableCommands[1])
    /\ IF connected
       THEN Marked(sentReliableCommands, Firsts(sentReliableCommands, queued), clock, heard,
                   earliestTimeout, LongestWait)
       ELSE sentReliableCommands = <<>> /\ queued = <<>>

\* What a service that goes on knows and leaves, at time k.
LEMMA GoesOnLists ==
    ASSUME NEW k \in Nat, k >= StartAt, NEW w, Short(w), Patience \in 1 .. w,
           Lists(sentReliableCommands, queued, k, w, w + MaxStep),
           sentReliableCommands # <<>> => nextTimeout = Deadline(sentReliableCommands[1]),
           nextTimeout \in Times, numbered \in 0 .. MaxCommands, GoesOn(k)
    PROVE  LET s == sentReliableCommands'
               F == Firsts(sentReliableCommands, queued)
               G == Firsts(sentReliableCommands', queued')
           IN  /\ Lists(s, queued', k, w, w)
               /\ F \subseteq G /\ G \subseteq F \cup {k}
               /\ numbered' \in 0 .. MaxCommands /\ nextTimeout' \in Times
               /\ IF s = <<>> THEN queued' = <<>> ELSE nextTimeout' = Deadline(s[1])
               /\ Checks(k) => s # <<>>
               /\ s # <<>> => SentAt(s[1], k) \in Int /\ SentAt(s[1], k) <= k
               /\ ~ Checks(k) /\ sentReliableCommands # <<>> =>
                     s # <<>> /\ s[1] = sentReliableCommands[1]
<1> DEFINE s == sentReliableCommands'
           l == Left(k)
           F == Firsts(sentReliableCommands, queued)
           G == Firsts(sentReliableCommands', queued')
<1>1. /\ Lists(l, Waits(k), k, w, w) /\ Firsts(l, Waits(k)) = F
      /\ Checks(k) => Waits(k) # <<>>
      /\ ~ Checks(k) => l = sentReliableCommands /\ Waits(k) = queued
      /\ DueAt(k) = IF l = <<>> THEN nextTimeout ELSE Deadline(l[1])
  BY LeftLists
<1>2. PICK all : \E n \in 0 .. Len(Waits(k)) + 1 :
          ToSend(k, all) /\ n <= Len(all) /\ SendSome(l, all, k % Word, k, n, DueAt(k))
  BY Zenon DEF GoesOn
<1>3. PICK n \in 0 .. Len(Waits(k)) + 1 :
          ToSend(k, all) /\ n <= Len(all) /\ SendSome(l, all, k % Word, k, n, DueAt(k))
  BY <1>2, Zenon
<1>4. /\ Lists(l, all, k, w, w) /\ Firsts(l, all) = F /\ (all = <<>> => Waits(k) = <<>>)
      /\ numbered' \in 0 .. MaxCommands
  BY <1>1, <1>3, SendingLists, Zenon
<1>5. n \in 0 .. Len(all)
  <2>1. all \in Seq(Commands) /\ Waits(k) \in Seq(Commands)
    BY <1>1, <1>4, Zenon DEF Lists
  <2>2. Len(all) \in Nat /\ Len(Waits(k)) \in Nat
    BY <2>1
  <2> QED BY <1>3, <2>2
<1> HIDE DEF l
<1>6. /\ Lists(s, queued', k, w, w)
      /\ Firsts(l, all) \subseteq G /\ G \subseteq Firsts(l, all) \cup {k}
      /\ s = <<>> => l = <<>> /\ all = <<>> /\ queued' = <<>> /\ nextTimeout' = DueAt(k)
      /\ l # <<>> => s # <<>> /\ s[1] = l[1] /\ nextTimeout' = DueAt(k)
      /\ l = <<>> /\ s # <<>> => SentAt(s[1], k) = k /\ nextTimeout' = Deadline(s[1])
  BY <1>3, <1>4, <1>5, SentLists
<1>7. s # <<>> => nextTimeout' = Deadline(s[1])
  BY <1>1, <1>6, Zenon
<1>8. s = <<>> => nextTimeout' = nextTimeout
  BY <1>1, <1>6, Zenon
<1>9. s # <<>> => SentAt(s[1], k) \in Int /\ SentAt(s[1], k) <= k /\ Deadline(s[1]) \in Times
  <2> SUFFICES ASSUME s # <<>>
               PROVE  SentAt(s[1], k) \in Int /\ SentAt(s[1], k) <= k /\ Deadline(s[1]) \in Times
    OBVIOUS
  <2> DEFINE c == s[1]
  <2>1. c \in Commands /\ FliesFor(c, k, w, w)
    <3>1. 1 \in 1 .. Len(s)
      BY <1>6, FirstsAre
    <3> QED BY <1>6, <3>1 DEF Lists
  <2>2. c.sentTime \in Times
    BY <2>1 DEF Commands
  <2> HIDE DEF c
  <2>3. SentAt(c, k) \in Int /\ SentAt(c, k) <= k /\ AgeAt(c, k) \in Nat
    BY <2>2, Ages, WaitBound
  <2>4. FliesFor(c, k, w, w + MaxStep)
    BY <2>1, <2>3, WaitBound DEF FliesFor, Short
  <2>5. Deadline(c) \in Times
    BY <2>2, <2>4, OverdueByAge
  <2> QED BY <2>3, <2>5 DEF c
<1>10. nextTimeout' \in Times
  BY <1>7, <1>8, <1>9
<1>11. Checks(k) => s # <<>>
  BY <1>1, <1>4, <1>6
<1>12. ~ Checks(k) /\ sentReliableCommands # <<>> => s # <<>> /\ s[1] = sentReliableCommands[1]
  BY <1>1, <1>6
<1> QED BY <1>4, <1>6, <1>7, <1>9, <1>10, <1>11, <1>12

\* The service takes earliestTimeout to a time that was near, or clears it.
LEMMA GoesOnMarks ==
    ASSUME NEW k \in Nat, k >= StartAt, NEW w, Short(w), Patience \in 1 .. w,
           Lists(sentReliableCommands, queued, k, w, w + MaxStep),
           sentReliableCommands # <<>> => nextTimeout = Deadline(sentReliableCommands[1]),
           nextTimeout \in Times, earliestTimeout \in Times, numbered \in 0 .. MaxCommands,
           GoesOn(k), NEW h \in Nat, h <= k, NEW step \in 0 .. MaxStep,
           IF sentReliableCommands # <<>>
           THEN Began(sentReliableCommands[1], Firsts(sentReliableCommands, queued), k, h,
                      earliestTimeout, w)
           ELSE /\ earliestTimeout = 0
                /\ Firsts(sentReliableCommands, queued) # {} => k = h + step
    PROVE  /\ Marked(sentReliableCommands', Firsts(sentReliableCommands', queued'), k, h,
                     earliestTimeout', w)
           /\ earliestTimeout' \in Times
<1> DEFINE s == sentReliableCommands
           t == sentReliableCommands'
           F == Firsts(sentReliableCommands, queued)
           G == Firsts(sentReliableCommands', queued')
           e == earliestTimeout'
<1>1. /\ Lists(t, queued', k, w, w)
      /\ F \subseteq G /\ G \subseteq F \cup {k}
      /\ t = <<>> => queued' = <<>>
      /\ Checks(k) => t # <<>>
      /\ t # <<>> => SentAt(t[1], k) \in Int /\ SentAt(t[1], k) <= k
      /\ ~ Checks(k) /\ s # <<>> => t # <<>> /\ t[1] = s[1]
  BY GoesOnLists, Zenon
<1>2. /\ F \in SUBSET Nat
      /\ \A i \in 1 .. Len(s) : s[i].first \in F
      /\ s \in Seq(Commands)
      /\ Checks(k) => s # <<>> /\ Overdue(s[1], k % Word)
  BY FirstsAre, LeftLists DEF Lists
<1>3. w \in Nat /\ MaxStep \in Nat /\ h \in Nat
  BY WaitBound DEF Short
<1> HIDE DEF F, G, t, s
<1>4. CASE s = <<>>
  <2>1. ~ Checks(k)
    BY <1>2, <1>4
  <2>2. e = 0 /\ (F # {} => k = h + step)
    BY <1>4, <2>1 DEF GoesOn, s, F
  <2>3. CASE t = <<>>
    <3>1. G = {}
      <4>1. queued' = <<>> /\ sentReliableCommands' = <<>>
        BY <1>1, <2>3 DEF t
      <4> QED BY <4>1 DEF G, Firsts, FirstsOf
    <3> QED BY <2>2, <2>3, <3>1, WaitBound DEF Marked, t, G, Times
  <2>4. CASE t # <<>>
    <3> DEFINE d == SentAt(t[1], k)
    <3>1. d \in Int /\ d <= k
      BY <1>1, <2>4
    <3> HIDE DEF d
    <3>2. Near(d, F, h, w)
      <4> SUFFICES ASSUME NEW f \in F PROVE d <= Max({f, h}) + MaxStep
        BY DEF Near, NearTo
      <4>1. Max({f, h}) = (IF f >= h THEN f ELSE h) /\ f \in Nat
        BY <1>2, MaxOfTwo
      <4> QED BY <1>3, <2>2, <3>1, <4>1
    <3>3. Near(d, G, h, w)
      BY <1>1, <3>1, <3>2, NearMore
    <3> QED BY <2>2, <2>4, <3>3, WaitBound DEF Marked, Began, d, t, G, Times
  <2> QED BY <2>3, <2>4
<1>5. CASE s # <<>> /\ ~ Checks(k)
  <2>1. e = earliestTimeout /\ Began(s[1], F, k, h, e, w) /\ t # <<>> /\ t[1] = s[1]
    BY <1>1, <1>5 DEF GoesOn, s, F
  <2>2. CASE e # 0
    <3>1. PICK m \in 0 .. k : Mark(m, e, F, h, w) /\ SentAt(t[1], k) - m < TimeoutMaximum
      BY <2>1, <2>2, Zenon DEF Began
    <3>2. Near(m, G, h, w)
      BY <1>1, <3>1, NearMore DEF Mark
    <3>3. Mark(m, e, G, h, w)
      BY <1>1, <3>1, <3>2 DEF Mark
    <3>4. Began(t[1], G, k, h, e, w)
      BY <2>2, <3>1, <3>3 DEF Began
    <3> QED BY <2>1, <3>4 DEF Marked, t, G
  <2>3. CASE e = 0
    <3> DEFINE d == SentAt(t[1], k)
    <3>1. Near(d, F, h, w)
      BY <2>1, <2>3 DEF Began
    <3>2. d \in Int /\ d <= k
      BY <1>1, <2>1
    <3> HIDE DEF d
    <3>3. Near(d, G, h, w)
      BY <1>1, <3>1, <3>2, NearMore
    <3>4. Began(t[1], G, k, h, e, w)
      BY <2>3, <3>3 DEF Began, d
    <3> QED BY <2>1, <3>4 DEF Marked, t, G
  <2> QED BY <2>1, <2>2, <2>3
<1>6. CASE Checks(k)
  <2> DEFINE now == k % Word
             n == Len(s)
  <2>1. /\ e = Earliest(now)[n] /\ ~ TimedOut(now)
        /\ s # <<>> /\ Overdue(s[1], now) /\ t # <<>>
    BY <1>1, <1>2, <1>6 DEF GoesOn, s
  <2>2. n \in 1 .. n
    BY <1>2, <2>1
  <2>3. Reaches(e, k, F, h, w)
    <3>1. /\ Aloft(s, k, w) /\ Began(s[1], F, k, h, earliestTimeout, w)
      BY <2>1 DEF Lists, Aloft, s, F
    <3>2. \A i \in 1 .. Len(s) : Reaches(Earliest(now)[i], k, F, h, w)
      BY <1>2, <2>1, <3>1, EarliestReaches DEF s
    <3> QED BY <2>1, <2>2, <3>2
  <2>4. e # 0 => ~ (TimeDifference(now, e) >= TimeoutMaximum)
    BY <1>2, <2>1, NotGivenUp DEF s
  <2>5. e \in Times
    <3>1. IsEarliest(Earliest(now), now)
      BY <1>2, EarliestIs DEF s
    <3>2. Earliest(now) \in [0 .. n -> Times] /\ n \in 0 .. n
      BY <1>2, <3>1 DEF IsEarliest, s
    <3> QED BY <2>1, <3>2
  <2> DEFINE d == SentAt(t[1], k)
  <2>6. d \in Int /\ d <= k
    BY <1>1, <2>1
  <2>7. CASE e # 0
    <3>1. PICK m \in Nat : m <= k /\ k - m < Overflow /\ Mark(m, e, F, h, w)
      BY <2>3, <2>7, Zenon DEF Reaches
    <3>2. TimeDifference(now, e) = k - m
      <4>1. k \in Int /\ m \in Int /\ k - m < Overflow /\ m - k < Overflow /\ k >= m
        BY <3>1, WaitBound
      <4>2. TimeDifference(k % Word, m % Word) = k - m
        BY <4>1, Compare, Zenon
      <4> QED BY <3>1, <4>2 DEF Mark
    <3> HIDE DEF d, now
    <3>3. d - m < TimeoutMaximum /\ m \in 0 .. k
      BY <2>4, <2>6, <2>7, <3>1, <3>2, WaitBound
    <3>4. Near(m, G, h, w)
      BY <1>1, <3>1, NearMore DEF Mark
    <3>5. Mark(m, e, G, h, w)
      BY <1>1, <3>1, <3>4 DEF Mark
    <3>6. Began(t[1], G, k, h, e, w)
      BY <2>7, <3>3, <3>5 DEF Began, d
    <3> QED BY <2>1, <2>5, <3>6 DEF Marked, t, G
  <2>8. CASE e = 0
    <3>1. Late(k, F, h, w)
      BY <2>3, <2>8 DEF Reaches
    <3> HIDE DEF d, now
    <3>2. Near(d, F, h, w)
      <4>1. k \in Int
        OBVIOUS
      <4> QED BY <1>2, <1>3, <2>6, <3>1, <4>1, NearBefore, Zenon
    <3>3. Near(d, G, h, w)
      BY <1>1, <2>6, <3>2, NearMore
    <3>4. Began(t[1], G, k, h, e, w)
      BY <2>8, <3>3 DEF Began, d
    <3> QED BY <2>1, <2>5, <3>4 DEF Marked, t, G
  <2> QED BY <2>7, <2>8
<1> QED BY <1>4, <1>5, <1>6

\* Longer round trips, or shorter ones, only make the waits longer.
LEMMA WaitsGrow ==
    ASSUME EstimateFromSamples, NEW sample \in Nat \ {0},
           shortest' = (IF longest = 0 \/ sample < shortest THEN sample ELSE shortest),
           longest' = Max({sample, longest})
    PROVE  LongestWait' \in Nat /\ LongestWait <= LongestWait'
<1>1. /\ longest \in Nat /\ shortest \in 0 .. longest
      /\ longest = 0 => Spread = 0
      /\ Spread \in Nat
  <2>1. longest \in 0 .. Max({WireLife, 1}) /\ shortest \in 0 .. longest
    BY DEF EstimateFromSamples
  <2>2. Max({WireLife, 1}) = IF WireLife >= 1 THEN WireLife ELSE 1
    BY WaitBound, MaxOfTwo
  <2>3. longest \in Nat
    BY <2>1, <2>2, WaitBound
  <2> QED BY <2>1, <2>3, SpreadIs
<1>2. /\ longest' \in Nat \ {0} /\ longest <= longest' /\ Spread' \in Nat /\ Spread <= Spread'
  BY SamplesAfter, SpreadGrows
<1>3. LongestWait = IF DefaultRoundTrip >= longest + 4 * Spread
                    THEN DefaultRoundTrip ELSE longest + 4 * Spread
  <2>1. LongestWait = Max({DefaultRoundTrip, longest + 4 * Spread})
    BY DEF LongestWait, Spread
  <2>2. longest + 4 * Spread \in Int
    BY <1>1
  <2> QED BY <2>1, <2>2, WaitBound, MaxOfTwo
<1>4. LongestWait' = IF DefaultRoundTrip >= longest' + 4 * Spread'
                     THEN DefaultRoundTrip ELSE longest' + 4 * Spread'
  <2>1. LongestWait' = Max({DefaultRoundTrip, longest' + 4 * Spread'})
    BY DEF LongestWait, Spread
  <2>2. longest' + 4 * Spread' \in Int
    BY <1>2
  <2> QED BY <2>1, <2>2, WaitBound, MaxOfTwo
<1> QED BY <1>1, <1>2, <1>3, <1>4, WaitBound

\* The first command in flight stays first if it stays.
LEMMA NoneTaken ==
    ASSUME NEW s \in Seq(Commands), Others(s, {}) # <<>>
    PROVE  s # <<>> /\ Others(s, {})[1] = s[1]
<1> DEFINE t == Others(s, {})
<1>1. t \in Seq(Commands) /\ \E e : Embeds(e, t, s, Len(s), DOMAIN s \ {})
  <2>1. /\ Chosen(s, DOMAIN s \ {}) \in Seq(Commands)
        /\ \E e : Embeds(e, Chosen(s, DOMAIN s \ {}), s, Len(s), DOMAIN s \ {})
    BY ChosenEmbeds
  <2> QED BY <2>1, Zenon DEF Others
<1>2. t # <<>>
  OBVIOUS
<1> HIDE DEF t
<1>3. PICK e : Embeds(e, t, s, Len(s), DOMAIN s \ {})
  BY <1>1
<1>4. DOMAIN s = 1 .. Len(s) /\ Len(s) \in Nat /\ Len(t) \in Nat /\ 1 \in 1 .. Len(t)
  BY <1>1, <1>2
<1>5. /\ \A i \in 1 .. Len(t) : e[i] \in 1 .. Len(s) /\ t[i] = s[e[i]]
      /\ \A i, j \in 1 .. Len(t) : i < j => e[i] < e[j]
      /\ \A j \in 1 .. Len(s) : \E i \in 1 .. Len(t) : e[i] = j
  BY <1>3, <1>4 DEF Embeds
<1>6. 1 \in 1 .. Len(s)
  BY <1>4, <1>5
<1>7. PICK i \in 1 .. Len(t) : e[i] = 1
  BY <1>5, <1>6
<1>8. e[1] = 1
  <2>1. CASE i = 1
    BY <1>7, <2>1
  <2>2. CASE i # 1
    <3>1. 1 < i
      BY <1>4, <2>2
    <3>2. e[1] < e[i] /\ e[1] \in 1 .. Len(s)
      BY <1>4, <1>5, <3>1
    <3> QED BY <1>4, <1>7, <3>2
  <2> QED BY <2>1, <2>2
<1>9. t[1] = s[1]
  BY <1>4, <1>5, <1>8
<1>10. s # <<>>
  BY <1>6
<1> QED BY <1>9, <1>10 DEF t

\* The deadline of a command in flight is a time, and so is the time it was sent.
LEMMA DeadlineOf ==
    ASSUME NEW k \in Nat, NEW w, Short(w), NEW s, NEW q, Lists(s, q, k, w, w), NEW i \in 1 .. Len(s)
    PROVE  /\ s[i] \in Commands /\ s[i].sentTime \in Times /\ FliesFor(s[i], k, w, w)
           /\ SentAt(s[i], k) \in Nat /\ SentAt(s[i], k) <= k
           /\ AgeAt(s[i], k) \in Nat /\ AgeAt(s[i], k) < w
           /\ SentAt(s[i], k) % Word = s[i].sentTime
           /\ Deadline(s[i]) \in Times
<1> DEFINE c == s[i]
<1>1. c \in Commands /\ FliesFor(c, k, w, w)
  BY DEF Lists
<1>2. c.sentTime \in Times
  BY <1>1 DEF Commands
<1> HIDE DEF c
<1>3. /\ SentAt(c, k) \in Int /\ SentAt(c, k) <= k /\ AgeAt(c, k) \in Nat
      /\ SentAt(c, k) % Word = c.sentTime
  BY <1>2, Ages, WaitBound
<1>4. FliesFor(c, k, w, w + MaxStep) /\ AgeAt(c, k) < w
  BY <1>1, <1>3, WaitBound DEF FliesFor, Short
<1>5. Deadline(c) \in Times
  BY <1>2, <1>4, OverdueByAge
<1>6. SentAt(c, k) \in Nat
  BY <1>1, <1>3, WaitBound DEF FliesFor
<1> QED BY <1>1, <1>2, <1>3, <1>4, <1>5, <1>6 DEF c

\* No command is in flight at first.
LEMMA InitTInv == Init => TInv
<1> SUFFICES ASSUME Init PROVE TInv
  OBVIOUS
<1>1. /\ clock = StartAt /\ heard = StartAt /\ connected = TRUE /\ numbered = 0
      /\ nextTimeout = 0 /\ earliestTimeout = 0
      /\ queued = <<>> /\ sentReliableCommands = <<>>
  BY DEF Init
<1>2. Lists(sentReliableCommands, queued, clock, LongestWait, LongestWait)
  BY <1>1 DEF Lists, InOrder
<1>3. Firsts(sentReliableCommands, queued) = {}
  BY <1>1 DEF Firsts, FirstsOf
<1>4. 0 \in Times
  BY WaitBound DEF Times
<1>5. /\ clock \in StartAt .. MaxTime /\ heard \in StartAt .. clock /\ numbered \in 0 .. MaxCommands
  BY <1>1, WaitBound
<1> QED BY <1>1, <1>2, <1>3, <1>4, <1>5 DEF TInv, Marked

\* A command is queued that was never sent.
LEMMA QueueTInv == TInv /\ EstimateFromSamples /\ Queue => TInv'
<1> SUFFICES ASSUME TInv, EstimateFromSamples, Queue PROVE TInv'
  OBVIOUS
<1> DEFINE w == LongestWait
           c == Command(numbered')
<1>1. /\ connected /\ numbered < MaxCommands /\ numbered' = numbered + 1
      /\ queued' = Append(queued, c)
      /\ UNCHANGED <<clock, connected, sentReliableCommands, nextTimeout, earliestTimeout,
                     shortest, longest, heard>>
  BY DEF Queue, timers, history
<1>2. LongestWait' = w
  BY <1>1 DEF LongestWait
<1>3. Short(w)
  BY LongestWaitIs
<1>4. /\ clock \in StartAt .. MaxTime /\ heard \in StartAt .. clock
      /\ numbered \in 0 .. MaxCommands
      /\ nextTimeout \in Times /\ earliestTimeout \in Times
      /\ Lists(sentReliableCommands, queued, clock, w, w)
      /\ sentReliableCommands # <<>> => nextTimeout = Deadline(sentReliableCommands[1])
      /\ Marked(sentReliableCommands, Firsts(sentReliableCommands, queued), clock, heard,
                earliestTimeout, w)
  BY <1>1 DEF TInv
<1> HIDE DEF w
<1>5. numbered' \in 1 .. MaxCommands
  BY <1>1, <1>4, WaitBound
<1>6. c \in Commands /\ WaitsAgain(c, clock, w) /\ ~ (c.attempts > 0)
  <2>1. 0 \in Times /\ w \in Nat
    BY <1>3, WaitBound DEF Times, Short
  <2> QED BY <1>5, <2>1 DEF Command, Commands, WaitsAgain
<1> HIDE DEF c
<1>7. queued \in Seq(Commands) /\ \A i \in 1 .. Len(queued) : WaitsAgain(queued[i], clock, w)
  BY <1>4 DEF Lists
<1>8. /\ queued' \in Seq(Commands) /\ Len(queued') = Len(queued) + 1 /\ Len(queued) \in Nat
      /\ \A i \in 1 .. Len(queued) : queued'[i] = queued[i]
      /\ queued'[Len(queued) + 1] = c
  <2>1. queued' = Append(queued, c)
    BY <1>1
  <2> QED BY <1>6, <1>7, <2>1
<1>9. \A i \in 1 .. Len(queued') : \/ i \in 1 .. Len(queued) /\ queued'[i] = queued[i]
                                   \/ queued'[i] = c
  <2> TAKE i \in 1 .. Len(queued')
  <2>1. i \in 1 .. Len(queued) \/ i = Len(queued) + 1
    BY <1>8
  <2> QED BY <1>8, <2>1
<1>10. FirstsOf(queued') = FirstsOf(queued)
  <2>1. \A i \in 1 .. Len(queued) : i \in 1 .. Len(queued') /\ queued'[i] = queued[i]
    BY <1>8
  <2> QED BY <1>6, <1>9, <2>1 DEF FirstsOf
<1>11. Firsts(sentReliableCommands, queued)' = Firsts(sentReliableCommands, queued)
  BY <1>1, <1>10 DEF Firsts
<1>12. Lists(sentReliableCommands', queued', clock', w, w)
  <2>1. \A i \in 1 .. Len(queued') : WaitsAgain(queued'[i], clock, w)
    BY <1>6, <1>7, <1>9
  <2> QED BY <1>1, <1>4, <1>8, <2>1 DEF Lists
<1> QED BY <1>1, <1>2, <1>4, <1>5, <1>11, <1>12 DEF TInv

\* An acknowledgement clears earliestTimeout; what is left waits from now on.
LEMMA AcknowledgeTInv ==
    ASSUME TInv, EInv, NEW t \in transmissions, Acknowledge(t)
    PROVE  TInv'
<1> DEFINE w == LongestWait
           s == sentReliableCommands
           X == {i \in DOMAIN s : s[i].number = t.number /\ s[i].attempts > 0}
           Y == {i \in DOMAIN queued : queued[i].number = t.number /\ queued[i].attempts > 0}
           trip == Max({clock - t.at, 1})
<1>1. /\ connected
      /\ s' = Others(s, X) /\ queued' = Others(queued, Y)
      /\ nextTimeout' = IF X # {} \/ Y # {} THEN NextTimeout(s') ELSE nextTimeout
      /\ earliestTimeout' = 0 /\ heard' = clock
      /\ shortest' = (IF longest = 0 \/ trip < shortest THEN trip ELSE shortest)
      /\ longest' = Max({trip, longest})
      /\ UNCHANGED <<clock, connected, numbered>>
  BY Zenon DEF Acknowledge, Forget, ClearEarliest
<1>2. Short(w) /\ EstimateFromSamples
  BY LongestWaitIs DEF EInv
<1>3. trip \in Nat \ {0}
  <2>1. t.at \in Int /\ clock \in Int
    BY DEF EInv
  <2>2. trip = IF clock - t.at >= 1 THEN clock - t.at ELSE 1
    BY <2>1, MaxOfTwo
  <2> QED BY <2>1, <2>2
<1> HIDE DEF trip
<1>4. LongestWait' \in Nat /\ w <= LongestWait'
  BY <1>1, <1>2, <1>3, WaitsGrow
<1>5. /\ clock \in StartAt .. MaxTime /\ heard \in StartAt .. clock
      /\ numbered \in 0 .. MaxCommands
      /\ nextTimeout \in Times
      /\ Lists(s, queued, clock, w, w)
      /\ s # <<>> => nextTimeout = Deadline(s[1])
  BY DEF TInv
<1>6. clock \in Nat /\ w \in Nat
  BY <1>2, <1>5, WaitBound DEF Short
<1> HIDE DEF w, X, Y
<1>7. Lists(s', queued', clock, w, w)
  BY <1>1, <1>5, <1>6, ListsWithout
<1>8. Lists(s', queued', clock, LongestWait', LongestWait')
  BY <1>4, <1>6, <1>7, ListsWider
<1>9. s' # <<>> => 1 \in 1 .. Len(s') /\ Head(s') = s'[1]
  BY <1>7 DEF Lists
<1>10. s' # <<>> => Deadline(s'[1]) \in Times /\ SentAt(s'[1], clock) \in Nat
                    /\ SentAt(s'[1], clock) <= clock
  BY <1>2, <1>6, <1>7, <1>9, DeadlineOf
<1>11. s' # <<>> => nextTimeout' = Deadline(s'[1])
  <2>1. CASE X # {} \/ Y # {}
    BY <1>1, <1>9, <2>1 DEF NextTimeout
  <2>2. CASE X = {} /\ Y = {}
    <3>1. s' = Others(s, {}) /\ nextTimeout' = nextTimeout /\ s \in Seq(Commands)
      BY <1>1, <1>5, <2>2 DEF Lists
    <3>2. s' # <<>> => s # <<>> /\ s'[1] = s[1]
      BY <3>1, NoneTaken
    <3> QED BY <1>5, <3>1, <3>2
  <2> QED BY <2>1, <2>2
<1>12. nextTimeout' \in Times
  <2>1. CASE s' = <<>>
    BY <1>1, <1>5, <2>1 DEF NextTimeout
  <2>2. CASE s' # <<>>
    BY <1>10, <1>11, <2>2
  <2> QED BY <2>1, <2>2
<1>13. Marked(s', Firsts(s', queued'), clock, clock, 0, LongestWait')
  <2> DEFINE F == Firsts(s', queued')
             d == SentAt(s'[1], clock)
  <2>1. CASE s' = <<>>
    BY <2>1 DEF Marked
  <2>2. CASE s' # <<>>
    <3>1. F \in SUBSET Nat
      BY <1>6, <1>7, FirstsAre
    <3>2. d \in Nat /\ d <= clock
      BY <1>10, <2>2
    <3> HIDE DEF d, F
    <3>3. ASSUME NEW f \in F PROVE d <= Max({f, clock}) + MaxStep
      <4>1. Max({f, clock}) = IF f >= clock THEN f ELSE clock
        BY <1>6, <3>1, MaxOfTwo
      <4> QED BY <1>6, <3>1, <3>2, <4>1, WaitBound
    <3>4. Near(d, F, clock, LongestWait')
      BY <3>3 DEF Near, NearTo
    <3> QED BY <2>2, <3>4 DEF Marked, Began, d, F
  <2> QED BY <2>1, <2>2
<1>14. 0 \in Times
  BY WaitBound DEF Times
<1> QED BY <1>1, <1>5, <1>8, <1>11, <1>12, <1>13, <1>14 DEF TInv

\* A service gives the peer up, or takes the clock and the lists on.
LEMMA ServiceTInv ==
    ASSUME TInv, EInv, NEW step \in Steps, Service(step)
    PROVE  TInv'
<1> DEFINE w == LongestWait
           s == sentReliableCommands
           k == clock'
<1>1. /\ connected /\ k = clock + step /\ k <= MaxTime /\ step \in 0 .. MaxStep
      /\ UNCHANGED <<shortest, longest, heard>>
      /\ GivesUp(k) \/ GoesOn(k)
  BY ServiceSteps, TimeAssumption
<1>2. Short(w) /\ Patience \in 1 .. w
  BY LongestWaitIs DEF EInv
<1>3. LongestWait' = w
  BY <1>1 DEF LongestWait
<1>4. /\ clock \in StartAt .. MaxTime /\ heard \in StartAt .. clock
      /\ connected \in BOOLEAN /\ numbered \in 0 .. MaxCommands
      /\ nextTimeout \in Times /\ earliestTimeout \in Times
      /\ Lists(s, queued, clock, w, w)
      /\ s # <<>> => nextTimeout = Deadline(s[1])
      /\ Marked(s, Firsts(s, queued), clock, heard, earliestTimeout, w)
  BY <1>1 DEF TInv
<1> HIDE DEF w
<1>5. /\ clock \in Nat /\ heard \in Nat /\ heard <= k /\ k \in Nat /\ k >= StartAt
      /\ k \in StartAt .. MaxTime /\ heard' \in StartAt .. k /\ w \in Nat
  BY <1>1, <1>2, <1>4, WaitBound DEF Short
<1>6. CASE GivesUp(k)
  <2>1. /\ connected' = FALSE /\ queued' = <<>> /\ s' = <<>>
        /\ nextTimeout' = nextTimeout /\ earliestTimeout' = earliestTimeout
        /\ numbered' = numbered
    BY <1>6 DEF GivesUp, GiveUp, timers
  <2>2. Lists(s', queued', k, w, w)
    BY <2>1 DEF Lists, InOrder
  <2> QED BY <1>3, <1>4, <1>5, <2>1, <2>2 DEF TInv
<1>7. CASE GoesOn(k)
  <2>1. /\ Lists(s, queued, k, w, w + MaxStep)
        /\ \A i \in 1 .. Len(s) : SentAt(s[i], k) = SentAt(s[i], clock)
    BY <1>1, <1>2, <1>4, <1>5, ListsLater
  <2> HIDE DEF k
  <2>2. /\ Lists(s', queued', k, w, w)
        /\ numbered' \in 0 .. MaxCommands /\ nextTimeout' \in Times
        /\ IF s' = <<>> THEN queued' = <<>> ELSE nextTimeout' = Deadline(s'[1])
    BY <1>2, <1>4, <1>5, <1>7, <2>1, GoesOnLists, Zenon
  <2>3. IF s # <<>> THEN Began(s[1], Firsts(s, queued), k, heard, earliestTimeout, w)
        ELSE earliestTimeout = 0 /\ (Firsts(s, queued) # {} => k = heard + step)
    <3>1. CASE s = <<>>
      BY <1>1, <1>4, <3>1 DEF Marked, k
    <3>2. CASE s # <<>>
      <4>1. Began(s[1], Firsts(s, queued), clock, heard, earliestTimeout, w)
        BY <1>4, <3>2 DEF Marked
      <4>2. 1 \in 1 .. Len(s)
        BY <1>4, <1>5, <3>2, FirstsAre
      <4>3. SentAt(s[1], k) = SentAt(s[1], clock)
        BY <2>1, <4>2
      <4>4. 0 .. clock \subseteq 0 .. k
        BY <1>1, <1>5 DEF k
      <4>5. Began(s[1], Firsts(s, queued), k, heard, earliestTimeout, w)
        BY <4>1, <4>3, <4>4, Zenon DEF Began
      <4> QED BY <3>2, <4>5
    <3> QED BY <3>1, <3>2
  <2>4. Marked(s', Firsts(s', queued'), k, heard, earliestTimeout', w) /\ earliestTimeout' \in Times
    BY <1>1, <1>2, <1>4, <1>5, <1>7, <2>1, <2>3, GoesOnMarks, Zenon
  <2>5. connected' = connected /\ heard' = heard
    BY <1>1, <1>7 DEF GoesOn
  <2> QED BY <1>1, <1>3, <1>5, <2>2, <2>4, <2>5 DEF TInv, k
<1> QED BY <1>1, <1>6, <1>7

\* Every step keeps the invariant.
LEMMA StepTInv == EInv /\ TInv /\ [Next]_vars => TInv'
<1> SUFFICES ASSUME EInv, TInv, [Next]_vars PROVE TInv'
  OBVIOUS
<1>1. CASE Queue
  BY <1>1, QueueTInv DEF EInv
<1>2. ASSUME NEW t \in transmissions, Acknowledge(t) PROVE TInv'
  BY <1>2, AcknowledgeTInv
<1>3. ASSUME NEW step \in Steps, Service(step) PROVE TInv'
  BY <1>3, ServiceTInv
<1>4. CASE UNCHANGED vars
  <2>1. LongestWait' = LongestWait
    BY <1>4 DEF LongestWait, vars, history
  <2> QED BY <1>4, <2>1 DEF TInv, vars, history, timers
<1> QED BY <1>1, <1>2, <1>3, <1>4 DEF Next

-----------------------------------------------------------------------------
(* The properties *)

\* Both invariants hold in every state of the specification.
LEMMA Invariants == Spec => [](EInv /\ TInv)
<1>1. Init => EInv /\ TInv
  BY InitEInv, InitTInv
<1>2. EInv /\ TInv /\ [Next]_vars => (EInv /\ TInv)'
  BY StepEInv, StepTInv
<1> QED BY <1>1, <1>2, PTL DEF Spec

\* Every variable keeps its type: times are words, and what is in flight was
\* attempted and waits for its acknowledgement (enet_time_get,
\* enet_peer_setup_outgoing_command).
THEOREM TypeCorrect == Spec => []TypeOK
<1>1. EInv /\ TInv => TypeOK
  <2> SUFFICES ASSUME EInv, TInv PROVE TypeOK
    OBVIOUS
  <2> DEFINE s == sentReliableCommands
             w == LongestWait
  <2>1. /\ roundTripTime \in Times /\ roundTripTimeVariance \in Times /\ lastReceiveTime \in Times
        /\ Short(w)
    BY LongestWaitIs DEF EInv, EstimateFromSamples
  <2>2. /\ clock \in StartAt .. MaxTime /\ heard \in StartAt .. clock /\ connected \in BOOLEAN
        /\ nextTimeout \in Times /\ earliestTimeout \in Times
        /\ Lists(s, queued, clock, w, w)
    BY DEF TInv
  <2> HIDE DEF w
  <2>3. clock \in StartAt .. MaxTime /\ heard \in StartAt .. MaxTime
    BY <2>2, WaitBound
  <2>4. queued \in Seq(Commands) /\ s \in Seq(Commands) /\ DOMAIN s = 1 .. Len(s)
    BY <2>2 DEF Lists
  <2>5. ASSUME NEW i \in 1 .. Len(s) PROVE s[i].attempts > 0 /\ s[i].roundTripTimeout > 0
    <3>1. FliesFor(s[i], clock, w, w) /\ w \in Nat
      BY <2>1, <2>2 DEF Lists, Short
    <3> QED BY <3>1 DEF FliesFor
  <2>6. \A c \in Range(s) : c.attempts > 0 /\ c.roundTripTimeout > 0
    BY <2>4, <2>5 DEF Range
  <2> QED BY <2>1, <2>2, <2>3, <2>4, <2>6 DEF TypeOK
<1> QED BY <1>1, Invariants, PTL

\* nextTimeout belongs to the command in flight that was sent first, whatever was
\* acknowledged, timed out or sent again in between, and however often the clock
\* wrapped: enet_protocol_send_outgoing_commands looks at nothing else.
THEOREM NextTimeoutOldest == Spec => []NextTimeoutIsOldest
<1>1. EInv /\ TInv => NextTimeoutIsOldest
  <2> SUFFICES ASSUME EInv, TInv, sentReliableCommands # <<>>
               PROVE  /\ nextTimeout = Deadline(Head(sentReliableCommands))
                      /\ \A c \in Range(sentReliableCommands) :
                            ~ TimeLess(c.sentTime, Head(sentReliableCommands).sentTime)
    BY DEF NextTimeoutIsOldest
  <2> DEFINE s == sentReliableCommands
             w == LongestWait
  <2>1. /\ Short(w) /\ clock \in StartAt .. MaxTime
        /\ Lists(s, queued, clock, w, w)
        /\ nextTimeout = Deadline(s[1])
    BY LongestWaitIs DEF EInv, TInv
  <2> HIDE DEF w
  <2>2. clock \in Nat
    BY <2>1, WaitBound
  <2>3. /\ s \in Seq(Commands) /\ DOMAIN s = 1 .. Len(s) /\ 1 \in 1 .. Len(s) /\ Head(s) = s[1]
        /\ InOrder(s, clock)
    BY <2>1 DEF Lists
  <2>4. ASSUME NEW i \in 1 .. Len(s) PROVE ~ TimeLess(s[i].sentTime, s[1].sentTime)
    <3> DEFINE x == SentAt(s[i], clock)
               y == SentAt(s[1], clock)
    <3>1. x \in Nat /\ x % Word = s[i].sentTime
      BY <2>1, <2>2, DeadlineOf
    <3>2. y \in Nat /\ y % Word = s[1].sentTime
      BY <2>1, <2>2, <2>3, DeadlineOf
    <3>3. y <= x
      <4>1. i = 1 \/ 1 < i
        BY <2>3
      <4> QED BY <2>3, <3>2, <4>1 DEF InOrder
    <3>4. x <= clock /\ clock - y < w
      <4>1. x <= clock
        BY <2>1, <2>2, DeadlineOf
      <4>2. AgeAt(s[1], clock) \in Nat /\ AgeAt(s[1], clock) < w
        BY <2>1, <2>2, <2>3, DeadlineOf
      <4>3. clock - y = AgeAt(s[1], clock)
        BY <2>2, <4>2 DEF SentAt
      <4> QED BY <4>1, <4>2, <4>3
    <3> HIDE DEF x, y
    <3>5. x \in Int /\ y \in Int /\ x - y < Overflow /\ y - x < Overflow /\ ~ (x < y)
      BY <2>1, <2>2, <3>1, <3>2, <3>3, <3>4, WaitBound DEF Short
    <3>6. TimeLess(x % Word, y % Word) <=> x < y
      BY <3>5, Compare, Zenon
    <3> QED BY <3>1, <3>2, <3>5, <3>6
  <2> QED BY <2>1, <2>3, <2>4 DEF Range
<1> QED BY <1>1, Invariants, PTL

\* A peer that nothing is heard of is given up in time: no command stays in flight
\* for longer, from its first transmission or the last acknowledgement on, than
\* TimeoutMaximum, two waits and the services that notice them, though
\* earliestTimeout takes a transmission at time 0 for none
\* (enet_protocol_check_timeouts).
THEOREM SilenceTimesOut == Spec => []SilenceEnds
<1>1. EInv /\ TInv => SilenceEnds
  <2> SUFFICES ASSUME EInv, TInv, NEW c \in Range(sentReliableCommands)
               PROVE  clock - Max({c.first, heard}) < TimeoutMaximum + 2 * (LongestWait + MaxStep)
    BY DEF SilenceEnds
  <2> DEFINE s == sentReliableCommands
             w == LongestWait
             F == Firsts(s, queued)
             u == Max({c.first, heard})
             d == SentAt(s[1], clock)
  <2>1. /\ Short(w) /\ clock \in StartAt .. MaxTime /\ heard \in StartAt .. clock
        /\ Lists(s, queued, clock, w, w)
        /\ IF connected THEN Marked(s, F, clock, heard, earliestTimeout, w) ELSE s = <<>>
    BY LongestWaitIs DEF EInv, TInv
  <2> HIDE DEF w
  <2>2. clock \in Nat /\ heard \in Nat /\ w \in Nat
    BY <2>1, WaitBound DEF Short
  <2>3. s \in Seq(Commands) /\ DOMAIN s = 1 .. Len(s)
    BY <2>1 DEF Lists
  <2>4. PICK i \in 1 .. Len(s) : c = s[i]
    BY <2>3 DEF Range
  <2>5. s # <<>> /\ 1 \in 1 .. Len(s) /\ c.first \in F /\ F \in SUBSET Nat
    <3>1. s # <<>>
      BY <2>4
    <3> QED BY <2>1, <2>2, <2>4, <3>1, FirstsAre
  <2>6. Began(s[1], F, clock, heard, earliestTimeout, w)
    BY <2>1, <2>5 DEF Marked
  <2>7. d \in Nat /\ clock - d < w /\ d <= clock
    <3>1. AgeAt(s[1], clock) \in Nat /\ AgeAt(s[1], clock) < w /\ d \in Nat /\ d <= clock
      BY <2>1, <2>2, <2>5, DeadlineOf
    <3>2. d = clock - AgeAt(s[1], clock)
      BY DEF SentAt
    <3> HIDE DEF d
    <3> QED BY <2>2, <3>1, <3>2
  <2>8. u \in Nat
    <3>1. c.first \in Nat
      BY <2>5
    <3>2. u = IF c.first >= heard THEN c.first ELSE heard
      BY <2>2, <3>1, MaxOfTwo
    <3> QED BY <2>2, <3>1, <3>2
  <2>9. PICK m \in Nat : Near(m, F, heard, w) /\ (d - m < TimeoutMaximum \/ m = d)
    <3>1. CASE earliestTimeout # 0
      <4>1. PICK m \in 0 .. clock : /\ Mark(m, earliestTimeout, F, heard, w)
                                    /\ SentAt(s[1], clock) - m < TimeoutMaximum
        BY <2>6, <3>1, Zenon DEF Began
      <4>2. m \in Nat /\ Near(m, F, heard, w)
        BY <4>1 DEF Mark
      <4> QED BY <4>1, <4>2
    <3>2. CASE earliestTimeout = 0
      BY <2>6, <2>7, <3>2, Zenon DEF Began
    <3> QED BY <3>1, <3>2
  <2>10. NearTo(m, u, w)
    BY <2>5, <2>9 DEF Near
  <2>11. m < u + MaxStep + w + MaxStep + 1
    <3>1. CASE m <= u + MaxStep
      BY <2>2, <2>8, <3>1, WaitBound
    <3>2. CASE AfterZero(m, u, w)
      <4>1. PICK z \in Nat : z <= u + MaxStep /\ m < z + w + MaxStep
        BY <3>2 DEF AfterZero
      <4> HIDE DEF u
      <4> QED BY <2>2, <2>8, <4>1, WaitBound
    <3> QED BY <2>10, <3>1, <3>2 DEF NearTo
  <2> HIDE DEF u, d
  <2>12. clock - u < TimeoutMaximum + 2 * (w + MaxStep)
    <3>1. d - m <= TimeoutMaximum
      BY <2>7, <2>9, WaitBound
    <3> QED BY <2>2, <2>7, <2>8, <2>11, <3>1, WaitBound
  <2> QED BY <2>12 DEF u, w
<1> QED BY <1>1, Invariants, PTL

\* A peer that is given up deserves it: one of its commands was first sent at least
\* TimeoutMinimum ago (TimeoutMaximum, if none was attempted often enough) and was
\* not acknowledged, whatever earliestTimeout went through and however often the
\* clock wrapped (enet_protocol_check_timeouts).
THEOREM TimeoutsDeserved == Spec => TimeoutDeserved
<1> DEFINE A == connected /\ ~ connected' =>
                 \E c \in Range(sentReliableCommands \o queued) :
                    /\ c.attempts > 0
                    /\ clock' - c.first >=
                          IF \E d \in Range(sentReliableCommands) :
                                 2 ^ ((d.attempts - 1) % AttemptCycle) >= TimeoutLimit
                          THEN Min({TimeoutMinimum, TimeoutMaximum}) ELSE TimeoutMaximum
<1>1. EInv /\ TInv /\ [Next]_vars => [A]_vars
  <2> SUFFICES ASSUME EInv, TInv, Next, connected, ~ connected'
               PROVE  \E c \in Range(sentReliableCommands \o queued) :
                    /\ c.attempts > 0
                    /\ clock' - c.first >=
                          IF \E d \in Range(sentReliableCommands) :
                                 2 ^ ((d.attempts - 1) % AttemptCycle) >= TimeoutLimit
                          THEN Min({TimeoutMinimum, TimeoutMaximum}) ELSE TimeoutMaximum
    OBVIOUS
  <2> DEFINE s == sentReliableCommands
             w == LongestWait
             k == clock'
             now == k % Word
             F == Firsts(s, queued)
             often(d) == 2 ^ ((d.attempts - 1) % AttemptCycle) >= TimeoutLimit
  <2>1. PICK step \in Steps : Service(step)
    BY DEF Next, Queue, Acknowledge
  <2>2. /\ k = clock + step /\ step \in 0 .. MaxStep /\ Checks(k) /\ TimedOut(now)
    <3>1. /\ k = clock + step /\ (GivesUp(k) \/ GoesOn(k)) /\ step \in 0 .. MaxStep
      BY <2>1, ServiceSteps, TimeAssumption
    <3>2. ~ GoesOn(k)
      BY DEF GoesOn
    <3> QED BY <3>1, <3>2 DEF GivesUp
  <2>3. /\ Short(w) /\ Patience \in 1 .. w
        /\ clock \in StartAt .. MaxTime /\ heard \in StartAt .. clock
        /\ earliestTimeout \in Times
        /\ Lists(s, queued, clock, w, w)
        /\ s # <<>> => nextTimeout = Deadline(s[1])
        /\ Marked(s, F, clock, heard, earliestTimeout, w)
    BY LongestWaitIs DEF EInv, TInv
  <2> HIDE DEF w
  <2>4. clock \in Nat /\ heard \in Nat /\ k \in Nat /\ w \in Nat
    BY <2>2, <2>3, WaitBound DEF Short
  <2>5. /\ Lists(s, queued, k, w, w + MaxStep)
        /\ \A i \in 1 .. Len(s) : SentAt(s[i], k) = SentAt(s[i], clock)
    BY <2>2, <2>3, <2>4, ListsLater
  <2>6. /\ s \in Seq(Commands) /\ queued \in Seq(Commands) /\ DOMAIN s = 1 .. Len(s)
        /\ Aloft(s, k, w)
    BY <2>5 DEF Lists, Aloft
  <2>7. s # <<>> /\ Overdue(s[1], now)
    BY <2>2, <2>3, <2>4, <2>5, LeftLists
  <2>8. /\ F \in SUBSET Nat /\ \A i \in 1 .. Len(s) : s[i].first \in F
        /\ 1 \in 1 .. Len(s)
    BY <2>4, <2>5, <2>7, FirstsAre
  <2>9. Began(s[1], F, k, heard, earliestTimeout, w)
    <3>1. Began(s[1], F, clock, heard, earliestTimeout, w)
      BY <2>3, <2>7 DEF Marked
    <3>2. SentAt(s[1], k) = SentAt(s[1], clock)
      BY <2>5, <2>8
    <3>3. 0 .. clock \subseteq 0 .. k
      BY <2>2, <2>4
    <3> QED BY <3>1, <3>2, <3>3, Zenon DEF Began
  <2>10. PICK i \in Due(now) : GivenUp(s[i], Earliest(now)[i], now)
    BY <2>2 DEF TimedOut
  <2> DEFINE e == Earliest(now)[i]
  <2>11. i \in 1 .. Len(s)
    BY <2>6 DEF Due
  <2>12. Reaches(e, k, F, heard, w) /\ e # 0
    <3>1. \A j \in 1 .. Len(s) : Reaches(Earliest(now)[j], k, F, heard, w)
      BY <2>3, <2>4, <2>6, <2>7, <2>8, <2>9, EarliestReaches
    <3> QED BY <2>10, <2>11, <3>1 DEF GivenUp
  <2> HIDE DEF e, F
  <2>13. PICK m \in Nat : m <= k /\ k - m < Overflow /\ Mark(m, e, F, heard, w)
    BY <2>12, Zenon DEF Reaches
  <2>14. TimeDifference(now, e) = k - m
    <3>1. k \in Int /\ m \in Int /\ k - m < Overflow /\ m - k < Overflow /\ k >= m
      <4>1. k \in Nat /\ m \in Nat /\ m <= k /\ k - m < Overflow /\ Overflow \in Nat \ {0}
        BY <2>4, <2>13, WaitBound
      <4> HIDE DEF k
      <4> QED BY <4>1
    <3>2. TimeDifference(k % Word, m % Word) = k - m
      BY <3>1, Compare, Zenon
    <3> QED BY <2>13, <3>2 DEF Mark
  <2>15. PICK f \in F : f <= m
    BY <2>13 DEF Mark
  <2>16. PICK c \in Range(s \o queued) : c.attempts > 0 /\ c.first = f
    <3>1. \A j \in 1 .. Len(s) : s[j] \in Range(s \o queued)
      <4> TAKE j \in 1 .. Len(s)
      <4>1. j \in DOMAIN (s \o queued) /\ (s \o queued)[j] = s[j]
        BY <2>6
      <4> QED BY <4>1, Zenon DEF Range
    <3>2. \A j \in 1 .. Len(queued) : queued[j] \in Range(s \o queued)
      <4> TAKE j \in 1 .. Len(queued)
      <4>1. j + Len(s) \in DOMAIN (s \o queued) /\ (s \o queued)[j + Len(s)] = queued[j]
        BY <2>6
      <4> QED BY <4>1, Zenon DEF Range
    <3>3. \/ \E j \in 1 .. Len(s) : s[j].attempts > 0 /\ s[j].first = f
          \/ \E j \in 1 .. Len(queued) : queued[j].attempts > 0 /\ queued[j].first = f
      BY <2>15 DEF F, Firsts, FirstsOf
    <3>4. CASE \E j \in 1 .. Len(s) : s[j].attempts > 0 /\ s[j].first = f
      BY <3>1, <3>4, Zenon
    <3>5. CASE \E j \in 1 .. Len(queued) : queued[j].attempts > 0 /\ queued[j].first = f
      BY <3>2, <3>5, Zenon
    <3> QED BY <3>3, <3>4, <3>5, Zenon
  <2>17. /\ \/ k - m >= TimeoutMaximum
            \/ often(s[i]) /\ k - m >= TimeoutMinimum
    BY <2>10, <2>14 DEF GivenUp, e
  <2>18. k - c.first >= k - m
    BY <2>4, <2>8, <2>13, <2>15, <2>16
  <2>19. /\ Min({TimeoutMinimum, TimeoutMaximum}) \in Nat
         /\ Min({TimeoutMinimum, TimeoutMaximum}) <= TimeoutMinimum
         /\ Min({TimeoutMinimum, TimeoutMaximum}) <= TimeoutMaximum
    BY WaitBound DEF Min
  <2>20. f \in Nat /\ c.first = f
    BY <2>8, <2>15, <2>16
  <2> HIDE DEF k, often
  <2>21. k - c.first >= IF \E d \in Range(s) : often(d)
                        THEN Min({TimeoutMinimum, TimeoutMaximum}) ELSE TimeoutMaximum
    <3>1. CASE \E d \in Range(s) : often(d)
      BY <2>4, <2>13, <2>17, <2>18, <2>19, <2>20, <3>1, WaitBound
    <3>2. CASE ~ \E d \in Range(s) : often(d)
      <4>1. s[i] \in Range(s)
        BY <2>6, <2>11 DEF Range
      <4>2. k - m >= TimeoutMaximum
        BY <2>17, <3>2, <4>1
      <4> QED BY <2>4, <2>13, <2>18, <2>20, <3>2, <4>2, WaitBound
    <3> QED BY <3>1, <3>2
  <2> QED BY <2>16, <2>21, Zenon DEF k, often
<1> QED BY <1>1, Invariants, PTL DEF Spec, TimeoutDeserved
=============================================================================
